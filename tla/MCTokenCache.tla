---------------------------- MODULE MCTokenCache -----------------------------
(* An instance of TokenCache for TLC: the requests that are made.          *)
EXTENDS TokenCache

CONSTANTS u1, u2, sc

Plain == [context |-> "delegated", caller |-> "user", assertion |-> u1, scope |-> sc,
          force |-> FALSE, min |-> FALSE]

\* A user in every mode, another user, and a machine that names no scope.
MCRequests ==
  {Plain, [Plain EXCEPT !.force = TRUE], [Plain EXCEPT !.min = TRUE],
   [Plain EXCEPT !.assertion = u2],
   [Plain EXCEPT !.caller = "machine", !.scope = None]}
=============================================================================
