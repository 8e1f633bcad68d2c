----------------------------- MODULE PpmReopen -----------------------------
(***************************************************************************)
(* One ring closed and opened again while its consumer lives on, because   *)
(* another of the consumer's devices stays open: ppm_release and ppm_open  *)
(* (driver/main.c) do not wait for a call of record_event_consumer that is *)
(* in progress on the ring's CPU.                                          *)
(***************************************************************************)
EXTENDS PpmRing

\* ppm_release clears capture_enabled; the next ppm_open runs
\* reset_ring_buffer, which leaves preempt_count and the data alone, and puts
\* the settings back; the process maps the ring anew.
Reopen ==
    /\ rpc = "idle"
    /\ capture_enabled' = FALSE /\ snaplen' = 0
    /\ head' = 0 /\ tail' = 0 /\ nevents' = 0
    /\ n_evts' = 0 /\ n_drops_buffer' = 0 /\ n_drops_pf' = 0 /\ n_preemptions' = 0
    /\ m_lastreadsize' = 0 /\ m_sn_len' = 0 /\ m_sn_next_event' = 0
    /\ held' = NoHeld /\ failed' = FALSE
    /\ log' = <<>> /\ next' = 1 /\ wpos' = 0 /\ rpos' = 0 /\ uncounted' = 0
    /\ UNCHANGED <<buffer, preempt_count, callVars, rpc>>

ReopenSpec == Init /\ [][Next \/ Reopen]_vars
=============================================================================
