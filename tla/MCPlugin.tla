------------------------------ MODULE MCPlugin -------------------------------
(* An instance of Plugin for TLC: the settings and environments there are. *)
EXTENDS Plugin

CONSTANTS d, c1, c2, t1, a1, a2, s1, f1

\* Nothing set; an application of its own, with and without an authority; a
\* token file; a token for another application; a refused authority.
MCSettings ==
  {Unset,
   [Unset EXCEPT !.clientId = c2, !.tenantId = t1],
   [Unset EXCEPT !.clientId = c2, !.tenantId = t1, !.authority = a2, !.clientSecret = s1],
   [Unset EXCEPT !.federatedTokenFile = f1],
   [Unset EXCEPT !.authority = Rejected]}

\* Nothing set; a complete service principal, a complete workload identity
\* from a file or from a token at another authority, and incomplete ones.
MCEnvironments ==
  {Unset,
   [Unset EXCEPT !.clientId = c2, !.tenantId = t1, !.clientSecret = s1],
   [Unset EXCEPT !.clientId = c1, !.tenantId = t1, !.clientSecret = s1, !.federatedTokenFile = f1],
   [Unset EXCEPT !.clientId = c1, !.tenantId = t1, !.federatedToken = s1, !.authority = a2],
   [Unset EXCEPT !.tenantId = t1, !.federatedTokenFile = f1],
   [Unset EXCEPT !.clientSecret = s1]}
=============================================================================
