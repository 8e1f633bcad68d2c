----------------------- MODULE MCAsyncKeyValueSource -----------------------
(* The async source with one client and few keys, which are model values, in *)
(* several ways of using it.                                                 *)
EXTENDS AsyncKeyValueSource

\* As docker does: never wait, always pass a handler.
HandlerUse == [wait |-> FALSE, handlers |-> {TRUE}, expire |-> FALSE]
\* Wait for the value, or take it at the next call.
WaitUse == [wait |-> TRUE, handlers |-> {FALSE}, expire |-> FALSE]
\* Never wait, any handler or none, entries expire.
ExpiringUse == [wait |-> FALSE, handlers |-> BOOLEAN, expire |-> TRUE]

AllUses == {HandlerUse, WaitUse, ExpiringUse}
=============================================================================
