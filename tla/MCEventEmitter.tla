--------------------------- MODULE MCEventEmitter ---------------------------
(* One event name beside the wildcard.                                     *)
EXTENDS EventEmitter
CONSTANTS login
MCEvents == {login}
MCPriorities == {3, 6}
=============================================================================
