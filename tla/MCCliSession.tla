---------------------------- MODULE MCCliSession ----------------------------
(* Instances of CliSession for TLC: what each slot may run.                *)
EXTENDS CliSession, TLC

CONSTANTS c1, c2, c3

AllOps == OpName

\* One slot that runs everything.
MCOneSlot == [c \in Call |-> AllOps]

\* What writes the session in c1, one after the other; what reads or ends it
\* in the others.
MCLoginVsLogout ==
  [c \in Call |-> IF c = c1 THEN {"login", "token"} ELSE {"logout", "status"}]

\* A slot that logs in and out beside a slot that asks for tokens.
MCSessionVsTokens ==
  [c \in Call |-> IF c = c1 THEN {"login", "logout"} ELSE {"token", "purge"}]

\* Two slots; the second never logs in or out.
MCMixed ==
  [c \in Call |-> IF c = c1 THEN AllOps ELSE {"token", "status", "purge"}]

Symmetry == Permutations(Session)
=============================================================================
