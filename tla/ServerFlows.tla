----------------------------- MODULE ServerFlows -----------------------------
(***************************************************************************)
(* The settings of server mode, and what follows from them: which settings *)
(* are accepted, which grant each kind of request is served with, and the  *)
(* key under which the answer is cached.                                   *)
(***************************************************************************)
CONSTANTS
  None,
  User,    \* the users whose bearer tokens arrive as assertions
  Scope,   \* the scopes asked for
  Server   \* the server's own identity

Maybe(S) == S \union {None}

ServerFlow == {"workload_identity", "client_credentials"}
UserFlow   == ServerFlow \union {"obo"}

\* Settings: whether client and tenant are named, the flow, which secret
\* references are given, whether the authority is an https URL with a host,
\* and the delegation (None: all delegated requests are denied).
Delegation == [userFlow : Maybe(UserFlow), machine : BOOLEAN]
Settings == [named : BOOLEAN, serverFlow : Maybe(UserFlow),
             secrets : SUBSET {"wifToken", "clientSecret"},
             authority : BOOLEAN, delegated : Maybe(Delegation)]

SecretFor(flow) == IF flow = "workload_identity" THEN "wifToken" ELSE "clientSecret"

AcceptedDelegation(d, serverFlow) ==
  /\ d.userFlow # None \/ d.machine
  /\ d.userFlow \in {None, "obo", serverFlow}

Accepted(s) ==
  /\ s.named
  /\ s.serverFlow \in ServerFlow
  /\ SecretFor(s.serverFlow) \in s.secrets
  /\ s.authority
  /\ s.delegated # None => AcceptedDelegation(s.delegated, s.serverFlow)

\* The grants: client credentials ("cc") and on-behalf-of ("obo").
Grant == {"cc", "obo"}

ASSUME ServerFlowsAssumption ==
  Server \notin User /\ None \notin User \union Scope \union UserFlow \union Grant

UserGrant(d) == IF d.userFlow = None THEN None
                ELSE IF d.userFlow = "obo" THEN "obo" ELSE "cc"

Strategies(s) ==
  [server  |-> "cc",
   user    |-> IF s.delegated = None THEN None ELSE UserGrant(s.delegated),
   machine |-> IF s.delegated = None \/ ~s.delegated.machine THEN None ELSE "cc"]

Request == [context : {"server", "delegated", "other"}, caller : {"user", "machine", "other"},
            assertion : Maybe(User), scope : Maybe(Scope), force : BOOLEAN, min : BOOLEAN]

\* The grant a request is routed to, None when it is refused.
GrantFor(strategies, r) ==
  CASE r.context = "server" -> strategies.server
    [] r.context = "delegated" /\ r.caller # "other" -> strategies[r.caller]
    [] OTHER -> None

\* Cache keys; the client is that of the settings, the same in all of them.
Key == [grant : {"cc"}, scope : Scope, user : {None}]
         \union [grant : {"obo"}, scope : Scope, user : User]

ClientCredentialKey(r) == [grant |-> "cc", scope |-> r.scope, user |-> None]

\* Mutant: the key leaves out the assertion.
OboKeyAnyUser(r) == [grant |-> "obo", scope |-> r.scope, user |-> CHOOSE u \in User : TRUE]

OboKey(r) == [grant |-> "obo", scope |-> r.scope, user |-> r.assertion]

\* Mutant: a request without a scope has a key.
KeyForNoScope(grant, r) ==
  CASE grant = "cc" -> ClientCredentialKey(r)
    [] grant = "obo" /\ r.assertion # None -> OboKey(r)
    [] OTHER -> None

\* The key of a request, None when it cannot be derived.
KeyFor(grant, r) ==
  CASE r.scope # None /\ grant = "cc" -> ClientCredentialKey(r)
    [] r.scope # None /\ grant = "obo" /\ r.assertion # None -> OboKey(r)
    [] OTHER -> None

\* Whose token a grant gets for a request.
Subject(grant, r) == IF grant = "obo" THEN r.assertion ELSE Server
=============================================================================
