----------------------------- MODULE TokenCache ------------------------------
(***************************************************************************)
(* Token requests in server mode, over the cache of cachedFlow. Calls run  *)
(* concurrently. An ordinary call looks the token up and otherwise joins   *)
(* the flight for its key; a forced call, or one that found the entry      *)
(* expiring too soon, joins the refresh flight of that key, which replaces *)
(* the entry. The first to join a flight is its leader and sends the       *)
(* request; the others wait for its result, or leave it when it is slow.   *)
(*                                                                         *)
(* The flights are those of the go-flight manager, whose source is not in  *)
(* the repository: what its Do, Get and Set are used for is modelled.      *)
(* Calls are numbered as they start. A call sends at most one request, so  *)
(* a token is named by the call whose request got it.                      *)
(***************************************************************************)
EXTENDS ServerFlows, Naturals

CONSTANTS
  Requests,   \* the requests made
  MaxCalls    \* bound on the calls of one behaviour

ASSUME CacheAssumption == Requests \subseteq Request /\ MaxCalls \in Nat

Call   == 1..MaxCalls
Flight == [key : Key, refresh : BOOLEAN]

\* A cached token, and for how long it is still valid: as long as calls with
\* MinValidFor ask, or shorter; "gone" when the store does not show it.
Entry == [token : 0..MaxCalls, life : {"long", "short", "gone"}]
NoEntry == [token |-> 0, life |-> "gone"]

PC == {"new", "direct", "look", "lookup", "join", "waiting", "asking",
       "landing", "done"}

VARIABLES
  strategies,  \* the grants of the active settings
  pc,          \* where each call is
  req,         \* what it asks for
  key,         \* its cache key, or None
  refresh,     \* TRUE when it has to renew the entry
  old,         \* the calls that had returned when it last decided so
  leader,      \* who leads each flight in progress, or 0
  alone,       \* the followers that did not wait for their leader
  cache,       \* the entry of each key
  replaced,    \* per key, the calls that had returned when the request was sent
               \*   whose token last replaced the entry
  answer       \* the token each call was answered with; 0 for an error

store  == <<cache, replaced>>
locals == <<refresh, old>>
vars   == <<strategies, pc, req, key, refresh, old, leader, alone, cache,
           replaced, answer>>

At(c, l)   == pc[c] = l
Goto(c, l) == pc' = [pc EXCEPT ![c] = l]
Done == {c \in Call : At(c, "done")}

GrantOf(c)   == GrantFor(strategies, req[c])
SubjectOf(c) == Subject(GrantOf(c), req[c])
FlightOf(c)  == [key |-> key[c], refresh |-> refresh[c]]

Return(C, n) == /\ pc' = [c \in Call |-> IF c \in C THEN "done" ELSE pc[c]]
                /\ answer' = [c \in Call |-> IF c \in C THEN n ELSE answer[c]]
                /\ refresh' = [c \in Call |-> c \notin C /\ refresh[c]]
                /\ old' = [c \in Call |-> IF c \in C THEN {} ELSE old[c]]

-----------------------------------------------------------------------------
(* A call up to its flight.                                                *)

\* Where a keyed call begins. Mutant: a forced one begins like the others.
KeyedStepNoForce(r) == IF r.min THEN "look" ELSE "lookup"

KeyedStep(r) == IF r.force THEN "join" ELSE IF r.min THEN "look" ELSE "lookup"

\* A request no strategy is configured for is refused; one without a key is
\* sent uncached.
FirstStep(r) ==
  LET grant == GrantFor(strategies, r)
  IN IF grant = None THEN "done" ELSE IF KeyFor(grant, r) = None THEN "direct" ELSE KeyedStep(r)

Start(c, r) ==
  /\ At(c, "new")
  /\ c > 1 => ~At(c - 1, "new")
  /\ Goto(c, FirstStep(r))
  /\ req' = [req EXCEPT ![c] = r]
  /\ key' = [key EXCEPT ![c] = KeyFor(GrantFor(strategies, r), r)]
  /\ refresh' = [refresh EXCEPT ![c] = r.force /\ FirstStep(r) = "join"]
  /\ old' = [old EXCEPT ![c] = IF FirstStep(r) = "done" THEN {} ELSE Done]
  /\ UNCHANGED <<strategies, leader, alone, store, answer>>

\* The provider refuses a request without scope or assertion.
Direct(c) ==
  /\ At(c, "direct")
  /\ Return({c}, 0)
  /\ UNCHANGED <<strategies, req, key, leader, alone, store>>

\* What the store shows: an entry its expiry buffer does not hide.
Shown(k) == cache[k].life # "gone"

\* MinValidFor: a cached token that expires sooner is not asked for again.
Look(c) ==
  /\ At(c, "look")
  /\ IF cache[key[c]].life = "short"
       THEN /\ Goto(c, "join")
            /\ refresh' = [refresh EXCEPT ![c] = TRUE]
            /\ old' = [old EXCEPT ![c] = Done]
       ELSE Goto(c, "lookup") /\ UNCHANGED <<refresh, old>>
  /\ UNCHANGED <<strategies, req, key, leader, alone, store, answer>>

Lookup(c) ==
  /\ At(c, "lookup")
  /\ IF Shown(key[c])
       THEN Return({c}, cache[key[c]].token)
       ELSE Goto(c, "join") /\ UNCHANGED <<locals, answer>>
  /\ UNCHANGED <<strategies, req, key, leader, alone, store>>

-----------------------------------------------------------------------------
(* Flights.                                                                *)

\* Mutant: a refresh does not join a flight.
JoinsUnlessRefresh(c) == leader[FlightOf(c)] # 0 /\ ~refresh[c]

Joins(c) == leader[FlightOf(c)] # 0

SendRequest(c) == Goto(c, "asking") /\ old' = [old EXCEPT ![c] = Done]

Lead(c) ==
  /\ At(c, "join")
  /\ ~Joins(c)
  /\ leader' = [leader EXCEPT ![FlightOf(c)] = c]
  /\ SendRequest(c)
  /\ UNCHANGED <<strategies, req, key, refresh, alone, store, answer>>

Follow(c) ==
  /\ At(c, "join")
  /\ Joins(c)
  /\ Goto(c, "waiting")
  /\ UNCHANGED <<strategies, req, key, locals, leader, alone, store, answer>>

\* A follower whose leader is slow sends a request of its own.
Abandon(c) ==
  /\ At(c, "waiting")
  /\ alone' = alone \union {c}
  /\ SendRequest(c)
  /\ UNCHANGED <<strategies, req, key, refresh, leader, store, answer>>

\* A follower whose own context ends gets an error; the flight goes on.
Cancelled(c) ==
  /\ At(c, "waiting")
  /\ Return({c}, 0)
  /\ UNCHANGED <<strategies, req, key, leader, alone, store>>

\* The flight ends for its leader and for everyone who waits for it.
Landing(c) == IF leader[FlightOf(c)] # c THEN {c}
                 ELSE {c} \union {d \in Call : At(d, "waiting") /\ FlightOf(d) = FlightOf(c)}

Land(c, n) ==
  /\ Return(Landing(c), n)
  /\ leader' = [leader EXCEPT ![FlightOf(c)] = IF @ = c THEN 0 ELSE @]
  /\ UNCHANGED <<strategies, req, key, alone, store>>

\* The provider refuses, cannot be reached or answers without a token, or the
\* credential cannot be read: the followers share the error.
Refused(c) == At(c, "asking") /\ Land(c, 0)

Put(c, l) == cache' = [cache EXCEPT ![key[c]] = [token |-> c, life |-> l]]

\* Mutant: a refresh hands its token out without replacing the entry.
PutRefreshForgets(c, l) ==
  /\ cache' = cache
  /\ replaced' = [replaced EXCEPT ![key[c]] = old[c]]

\* Whether Set drops a token shorter than the manager's ExpiryThreshold is the
\* library's affair: it may; then the entry of before stays.
PutRefresh(c, l) ==
  \/ Put(c, l) /\ replaced' = [replaced EXCEPT ![key[c]] = old[c]]
  \/ l # "long" /\ UNCHANGED store

\* An ordinary token is stored when it is valid for ExpiryThreshold or more.
PutOrdinary(c, l) ==
  /\ Put(c, l) \/ (l # "long" /\ cache' = cache)
  /\ replaced' = replaced

Granted(c) ==
  /\ At(c, "asking")
  /\ \E l \in {"long", "short"} :
       IF refresh[c] THEN PutRefresh(c, l) ELSE PutOrdinary(c, l)
  /\ Goto(c, "landing")
  /\ UNCHANGED <<strategies, req, key, locals, leader, alone, answer>>

Succeed(c) == At(c, "landing") /\ Land(c, c)

\* Time passes for a cached token, or the store evicts it.
Ages(k) ==
  /\ Shown(k)
  /\ \E l \in {"short", "gone"} : cache' = [cache EXCEPT ![k].life = l]
  /\ UNCHANGED <<strategies, pc, req, key, locals, leader, alone, replaced, answer>>

-----------------------------------------------------------------------------

Init ==
  /\ \E s \in Settings : Accepted(s) /\ strategies = Strategies(s)
  /\ pc = [c \in Call |-> "new"]
  /\ req = [c \in Call |-> None]
  /\ key = [c \in Call |-> None]
  /\ refresh = [c \in Call |-> FALSE]
  /\ old = [c \in Call |-> {}]
  /\ leader = [f \in Flight |-> 0]
  /\ alone = {}
  /\ cache = [k \in Key |-> NoEntry]
  /\ replaced = [k \in Key |-> {}]
  /\ answer = [c \in Call |-> 0]

AllReturned == Done = Call /\ UNCHANGED vars

Step(c) == \/ Direct(c) \/ Look(c) \/ Lookup(c) \/ Lead(c) \/ Follow(c)
           \/ Abandon(c) \/ Cancelled(c) \/ Refused(c) \/ Granted(c) \/ Succeed(c)

Next == \/ \E c \in Call : Step(c) \/ \E r \in Requests : Start(c, r)
        \/ \E k \in Key : Ages(k)
        \/ AllReturned

Spec == Init /\ [][Next]_vars

-----------------------------------------------------------------------------
(* Properties.                                                             *)

\* Every variable keeps its shape.
TypeOK ==
  /\ strategies \in [server : {"cc"}, user : Maybe(Grant), machine : Maybe({"cc"})]
  /\ pc \in [Call -> PC]
  /\ req \in [Call -> Maybe(Request)]
  /\ key \in [Call -> Maybe(Key)]
  /\ refresh \in [Call -> BOOLEAN]
  /\ old \in [Call -> SUBSET Call]
  /\ leader \in [Flight -> 0..MaxCalls]
  /\ alone \subseteq Call
  /\ cache \in [Key -> Entry]
  /\ replaced \in [Key -> SUBSET Call]
  /\ answer \in [Call -> 0..MaxCalls]

\* Nobody is answered with a token got for somebody else: whether it comes
\* from the cache, from the call's own request or from another call's, it is
\* of the user whose assertion the call carries when the delegation is
\* on-behalf-of, the server's otherwise, and for the scope asked for; a call
\* no strategy is configured for gets none.
OwnTokens ==
  \A c \in Call : answer[c] # 0 =>
    /\ GrantOf(c) # None
    /\ SubjectOf(answer[c]) = SubjectOf(c)
    /\ req[answer[c]].scope = req[c].scope

Sending(c) == pc[c] \in {"asking", "landing"}

\* "Concurrent refreshes for the same key share one singleflight, so they
\* issue a single request and cannot race each other's cache writes"
\* (cachedFlow), and so do ordinary requests; only a call that abandoned a
\* slow leader sends one beside it.
SharedRequests ==
  \A c, d \in Call \ alone :
    Sending(c) /\ Sending(d) /\ FlightOf(c) = FlightOf(d) => c = d

Forced(c) == req[c] # None /\ req[c].force

\* ForceRefresh "bypass[es] the cache": a forced call, and one that found the
\* entry too short, is answered with a token whose request had not ended when
\* it decided so, never with one from before.
Renewed ==
  [][\A c \in Call : pc[c] # "done" /\ pc'[c] = "done" /\ (refresh[c] \/ Forced(c))
                     => answer'[c] \notin old[c]]_vars

\* A refresh "replaces the entry" (cachedFlow): once its token is stored, what
\* others had been answered with before its request was sent does not come back
\* into the cache, in whichever order ordinary calls and refreshes of the key end.
StaysReplaced == \A k \in Key : cache[k].token \notin replaced[k]
=============================================================================
