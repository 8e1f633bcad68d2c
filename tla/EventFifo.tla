----------------------------- MODULE EventFifo -----------------------------
(***************************************************************************)
(* What a ring promises to its user: the events that were recorded come    *)
(* out in the order of recording, each at most once, and each exactly as   *)
(* it was recorded.  Only a flush may skip events, and it skips all of     *)
(* those recorded so far.                                                  *)
(***************************************************************************)
EXTENDS Naturals, Sequences

CONSTANT NoEvent       \* what the user holds when it holds no event

VARIABLES sent,        \* events recorded so far, in order
          next,        \* index of the next event to come out
          out          \* the event in the user's hands

Init == sent = <<>> /\ next = 1 /\ out = NoEvent

Record ==
    /\ Len(sent') = Len(sent) + 1
    /\ sent' = Append(sent, sent'[Len(sent) + 1])
    /\ sent'[Len(sent) + 1].id = Len(sent)
    /\ UNCHANGED <<next, out>>

Take == next <= Len(sent) /\ out' = sent[next] /\ next' = next + 1 /\ UNCHANGED sent

Release == out' = NoEvent /\ UNCHANGED <<sent, next>>

Flush == next' = Len(sent) + 1 /\ UNCHANGED <<sent, out>>

Next == Record \/ Take \/ Release \/ Flush

Spec == Init /\ [][Next]_<<sent, next, out>>
=============================================================================
