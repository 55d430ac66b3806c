-------------------------- MODULE TokenCacheProofs --------------------------
(* Theorems about TokenCache, for every set of users, scopes and requests  *)
(* and any number of calls.                                                *)
EXTENDS TokenCache, TLAPS

Keyless == {"new", "direct", "done"}

\* What a call has derived from its request stays what it derived.
Keyed ==
  \A c \in Call :
    /\ key[c] # None => /\ req[c] \in Request /\ GrantOf(c) # None
                        /\ key[c] = KeyFor(GrantOf(c), req[c])
    /\ pc[c] \notin Keyless => key[c] # None
    /\ pc[c] \in {"look", "lookup"} => ~refresh[c] /\ ~Forced(c)

\* A flight in progress has its leader's request under way, and nobody else's
\* but those that left it.
Flights ==
  /\ \A f \in Flight : leader[f] # 0 =>
       Sending(leader[f]) /\ FlightOf(leader[f]) = f /\ leader[f] \notin alone
  /\ \A c \in Call : Sending(c) /\ c \notin alone => leader[FlightOf(c)] = c
  /\ \A c \in alone : pc[c] \in {"asking", "landing", "done"}

\* Token t was got by a request for key k.
GotFor(t, k) == t \in Call /\ key[t] = k /\ pc[t] \in {"landing", "done"}

Tokens ==
  /\ \A k \in Key : cache[k].token # 0 => GotFor(cache[k].token, k)
  /\ \A c \in Call : answer[c] # 0 => At(c, "done") /\ key[c] # None /\ GotFor(answer[c], key[c])

\* What counts as old had been answered with, and is not cached anew.
Past ==
  /\ \A c \in Call : old[c] \subseteq Done
  /\ \A k \in Key : replaced[k] \subseteq Done
  /\ StaysReplaced

IInv == TypeOK /\ Keyed /\ Flights /\ Tokens /\ Past

-----------------------------------------------------------------------------
(* The operators of ServerFlows.                                           *)

LEMMA StrategiesType ==
  ASSUME NEW s \in Settings, Accepted(s)
  PROVE  Strategies(s) \in [server : {"cc"}, user : Maybe(Grant), machine : Maybe({"cc"})]
<1>1. s.delegated # None => UserGrant(s.delegated) \in Maybe(Grant)
  BY DEF UserGrant, Grant, Maybe
<1> QED BY <1>1 DEF Strategies, Maybe, Grant

LEMMA GrantType ==
  ASSUME TypeOK, NEW r \in Request
  PROVE  GrantFor(strategies, r) \in Maybe(Grant)
<1>1. strategies.server = "cc" /\ strategies.user \in Maybe(Grant)
      /\ strategies.machine \in Maybe({"cc"})
  BY DEF TypeOK
<1>2. CASE r.context = "server"
  BY <1>1, <1>2 DEF GrantFor, Maybe, Grant
<1>3. CASE r.context # "server" /\ r.context = "delegated" /\ r.caller # "other"
  <2>1. CASE r.caller = "user"
    BY <1>1, <1>3, <2>1 DEF GrantFor
  <2>2. CASE r.caller = "machine"
    BY <1>1, <1>3, <2>2 DEF GrantFor, Maybe, Grant
  <2> QED BY <1>3, <2>1, <2>2 DEF Request
<1>4. CASE r.context # "server" /\ ~(r.context = "delegated" /\ r.caller # "other")
  BY <1>4 DEF GrantFor, Maybe
<1> QED BY <1>2, <1>3, <1>4

LEMMA KeyType ==
  ASSUME NEW r \in Request, NEW g \in Maybe(Grant)
  PROVE  KeyFor(g, r) \in Maybe(Key)
<1>1. r.scope # None => r.scope \in Scope
  BY DEF Request, Maybe
<1>2. r.assertion # None => r.assertion \in User
  BY DEF Request, Maybe
<1>3. CASE r.scope = None
  <2>1. KeyFor(g, r) = None
    BY <1>3 DEF KeyFor
  <2> QED BY <2>1 DEF Maybe
<1>4. CASE r.scope # None /\ g = "cc"
  BY <1>1, <1>4 DEF KeyFor, Maybe, Key, ClientCredentialKey
<1>5. CASE r.scope # None /\ g # "cc" /\ g = "obo" /\ r.assertion # None
  BY <1>1, <1>2, <1>5 DEF KeyFor, Maybe, Key, OboKey
<1>6. CASE r.scope # None /\ g # "cc" /\ ~(g = "obo" /\ r.assertion # None)
  BY <1>6 DEF KeyFor, Maybe
<1> QED BY <1>3, <1>4, <1>5, <1>6

\* A key tells whose token it holds, and for which scope.
LEMMA KeyTells ==
  ASSUME NEW r, NEW g, KeyFor(g, r) # None
  PROVE  /\ g \in Grant
         /\ KeyFor(g, r).scope = r.scope
         /\ Subject(g, r) = IF KeyFor(g, r).grant = "obo" THEN KeyFor(g, r).user ELSE Server
<1>1. ASSUME r.scope = None PROVE FALSE
  <2>1. KeyFor(g, r) = None
    BY <1>1 DEF KeyFor
  <2> QED BY <2>1
<1>2. CASE g = "cc"
  BY <1>1, <1>2 DEF KeyFor, ClientCredentialKey, Subject, Grant
<1>3. CASE g # "cc"
  <2>1. g = "obo" /\ r.assertion # None
    BY <1>1, <1>3 DEF KeyFor
  <2> QED BY <1>1, <1>3, <2>1 DEF KeyFor, OboKey, Subject, Grant
<1> QED BY <1>2, <1>3

-----------------------------------------------------------------------------
(* The invariant holds at the start.                                       *)

LEMMA InitIInv ==
  Init => IInv
<1> SUFFICES ASSUME Init PROVE IInv
  OBVIOUS
<1> USE ServerFlowsAssumption, CacheAssumption
<1>1. strategies \in [server : {"cc"}, user : Maybe(Grant), machine : Maybe({"cc"})]
  BY StrategiesType DEF Init
<1>2. TypeOK
  BY <1>1 DEF Init, TypeOK, PC, Maybe, Call, Entry, NoEntry
<1>3. Keyed
  BY DEF Init, Keyed, Keyless
<1>4. Flights
  BY DEF Init, Flights, Sending, At
<1>5. Tokens
  BY DEF Init, Tokens, NoEntry
<1>6. Past
  BY DEF Init, Past, StaysReplaced
<1> QED BY <1>2, <1>3, <1>4, <1>5, <1>6 DEF IInv

-----------------------------------------------------------------------------
(* Steps that leave the requests as they are.                              *)

Derived == <<strategies, req, key>>

LEMMA GrantStays ==
  ASSUME UNCHANGED Derived
  PROVE  \A c \in Call : /\ GrantOf(c)' = GrantOf(c)
                         /\ KeyFor(GrantOf(c), req[c])' = KeyFor(GrantOf(c), req[c])
                         /\ Forced(c)' = Forced(c)
BY DEF Derived, GrantOf, GrantFor, KeyFor, ClientCredentialKey, OboKey, Forced

LEMMA KeyedStays ==
  ASSUME Keyed, UNCHANGED Derived,
         \A c \in Call : pc'[c] \notin Keyless => pc[c] \notin Keyless,
         \A c \in Call : pc'[c] \in {"look", "lookup"} =>
                           pc[c] \in {"look", "lookup"} /\ refresh'[c] = refresh[c]
  PROVE  Keyed'
BY GrantStays DEF Keyed, Derived

\* An answer is final, and a token got stays got.
LEMMA TokensStay ==
  ASSUME Tokens, UNCHANGED <<key, cache, answer>>,
         \A c \in Call : pc[c] \in {"landing", "done"} => pc'[c] \in {"landing", "done"},
         \A c \in Call : At(c, "done") => At(c, "done")'
  PROVE  Tokens'
BY DEF Tokens, GotFor

LEMMA DoneStays ==
  ASSUME \A c \in Call : At(c, "done") => At(c, "done")'
  PROVE  Done \subseteq Done'
BY DEF Done

LEMMA PastStays ==
  ASSUME Past, UNCHANGED store,
         \A c \in Call : At(c, "done") => At(c, "done")',
         \A c \in Call : old'[c] \subseteq old[c] \union Done
  PROVE  Past'
<1>1. Done \subseteq Done'
  BY DoneStays
<1> QED BY <1>1 DEF Past, StaysReplaced, store

\* What every step needs to know of the types.
LEMMA Types ==
  ASSUME TypeOK
  PROVE  /\ \A c \in Call : key[c] # None => key[c] \in Key /\ FlightOf(c) \in Flight
         /\ 0 \notin Call /\ 0 \in 0..MaxCalls /\ Call \subseteq 0..MaxCalls
BY CacheAssumption DEF TypeOK, Maybe, FlightOf, Flight, Call

-----------------------------------------------------------------------------
(* A call up to its flight.                                                *)

LEMMA StartIInv ==
  ASSUME IInv, NEW c \in Call, NEW r \in Requests, Start(c, r)
  PROVE  IInv'
<1> DEFINE g == GrantFor(strategies, r)
           k == KeyFor(g, r)
<1>0. /\ TypeOK /\ Keyed /\ Flights /\ Tokens /\ Past
      /\ r \in Request /\ pc[c] = "new"
      /\ pc' = [pc EXCEPT ![c] = FirstStep(r)]
      /\ req' = [req EXCEPT ![c] = r]
      /\ key' = [key EXCEPT ![c] = k]
      /\ refresh' = [refresh EXCEPT ![c] = r.force /\ FirstStep(r) = "join"]
      /\ old' = [old EXCEPT ![c] = IF FirstStep(r) = "done" THEN {} ELSE Done]
      /\ UNCHANGED <<strategies, leader, alone, cache, replaced, answer>>
  BY CacheAssumption DEF IInv, Start, At, Goto, store
<1>1. g \in Maybe(Grant) /\ k \in Maybe(Key)
  BY <1>0, GrantType, KeyType
<1>2. /\ FirstStep(r) \in {"done", "direct", "look", "lookup", "join"}
      /\ FirstStep(r) \notin {"done", "direct"} => g # None /\ k # None
      /\ FirstStep(r) \in {"look", "lookup"} => ~r.force
      /\ FirstStep(r) # "done" => g # None
  BY DEF FirstStep, KeyedStep
<1>3. k # None => g # None
  BY KeyTells, ServerFlowsAssumption
<1>4. pc \in [Call -> PC] /\ req \in [Call -> Maybe(Request)] /\ key \in [Call -> Maybe(Key)]
      /\ refresh \in [Call -> BOOLEAN] /\ old \in [Call -> SUBSET Call]
  BY <1>0 DEF TypeOK
<1>5. TypeOK'
  <2>1. pc' \in [Call -> PC]
    BY <1>0, <1>2, <1>4 DEF PC
  <2>2. req' \in [Call -> Maybe(Request)]
    BY <1>0, <1>4 DEF Maybe
  <2>3. key' \in [Call -> Maybe(Key)]
    BY <1>0, <1>1, <1>4
  <2>4. refresh' \in [Call -> BOOLEAN]
    <3>1. (r.force /\ FirstStep(r) = "join") \in BOOLEAN
      OBVIOUS
    <3> QED BY <1>0, <1>4, <3>1
  <2>5. old' \in [Call -> SUBSET Call]
    BY <1>0, <1>4 DEF Done
  <2> QED BY <1>0, <2>1, <2>2, <2>3, <2>4, <2>5 DEF TypeOK
<1>6. /\ \A d \in Call \ {c} : /\ GrantOf(d)' = GrantOf(d)
                               /\ KeyFor(GrantOf(d), req[d])' = KeyFor(GrantOf(d), req[d])
                               /\ Forced(d)' = Forced(d)
      /\ GrantOf(c)' = g /\ KeyFor(GrantOf(c), req[c])' = k
      /\ Forced(c)' => r.force
  BY <1>0, <1>4 DEF GrantOf, GrantFor, KeyFor, ClientCredentialKey, OboKey, Forced
<1>7. Keyed'
  <2> SUFFICES ASSUME NEW d \in Call
               PROVE  /\ key'[d] # None => /\ req'[d] \in Request /\ GrantOf(d)' # None
                                           /\ key'[d] = KeyFor(GrantOf(d), req[d])'
                      /\ pc'[d] \notin Keyless => key'[d] # None
                      /\ pc'[d] \in {"look", "lookup"} => ~refresh'[d] /\ ~Forced(d)'
    BY DEF Keyed
  <2>1. CASE d = c
    BY <2>1, <1>0, <1>2, <1>3, <1>4, <1>6 DEF Keyless
  <2>2. CASE d # c
    BY <2>2, <1>0, <1>4, <1>6 DEF Keyed
  <2> QED BY <2>1, <2>2
<1>8. \A d \in Call \ {c} : /\ pc'[d] = pc[d] /\ FlightOf(d)' = FlightOf(d)
                            /\ key'[d] = key[d] /\ old'[d] = old[d]
  BY <1>0, <1>4 DEF FlightOf
<1>9. pc'[c] \in {"done", "direct", "look", "lookup", "join"}
  BY <1>0, <1>2, <1>4
<1>10. Flights'
  <2>1. \A f \in Flight : leader[f] # 0 => leader[f] \in Call /\ leader[f] # c
    BY <1>0 DEF Flights, Sending, TypeOK, Call
  <2>2. c \notin alone
    BY <1>0 DEF Flights
  <2> QED BY <1>0, <1>8, <1>9, <2>1, <2>2 DEF Flights, Sending, At, TypeOK
<1>11. Tokens'
  <2>1. answer[c] = 0
    BY <1>0 DEF Tokens, At
  <2> QED BY <1>0, <1>8, <2>1 DEF Tokens, GotFor, At
<1>12. Past'
  <2>1. Done \subseteq Done'
    BY <1>0, <1>8 DEF Done, At
  <2> QED BY <1>0, <1>4, <1>8, <2>1 DEF Past, StaysReplaced
<1> QED BY <1>5, <1>7, <1>10, <1>11, <1>12 DEF IInv

-----------------------------------------------------------------------------
(* Calls that go on.                                                       *)

\* A call that has sent no request yet goes on to join a flight, as a refresh
\* or not, or to look its token up.
LEMMA GotoIInv ==
  ASSUME IInv, NEW c \in Call, pc[c] \in {"look", "lookup"},
         NEW l \in {"lookup", "join"}, pc' = [pc EXCEPT ![c] = l],
         UNCHANGED <<Derived, leader, alone, store, answer>>,
         \/ UNCHANGED <<refresh, old>>
         \/ /\ l = "join"
            /\ refresh' = [refresh EXCEPT ![c] = TRUE]
            /\ old' = [old EXCEPT ![c] = Done]
  PROVE  IInv'
<1>0. /\ TypeOK /\ Keyed /\ Flights /\ Tokens /\ Past
      /\ UNCHANGED <<strategies, req, key, leader, alone, cache, replaced, answer>>
  BY DEF IInv, Derived, store
<1>1. /\ pc' \in [Call -> PC] /\ refresh' \in [Call -> BOOLEAN]
      /\ old' \in [Call -> SUBSET Call] /\ pc'[c] = l
      /\ \A d \in Call \ {c} : pc'[d] = pc[d] /\ refresh'[d] = refresh[d]
      /\ \A d \in Call : old'[d] \subseteq old[d] \union Done
      /\ l = "lookup" => refresh' = refresh
  <2>1. /\ pc \in [Call -> PC] /\ refresh \in [Call -> BOOLEAN]
        /\ old \in [Call -> SUBSET Call] /\ Done \in SUBSET Call /\ l \in PC
    BY <1>0 DEF TypeOK, PC, Done
  <2>2. CASE UNCHANGED <<refresh, old>>
    BY <2>1, <2>2
  <2>3. CASE l = "join" /\ refresh' = [refresh EXCEPT ![c] = TRUE] /\ old' = [old EXCEPT ![c] = Done]
    BY <2>1, <2>3
  <2> QED BY <2>2, <2>3
<1>2. TypeOK'
  BY <1>0, <1>1 DEF TypeOK
<1>3. Keyed'
  BY <1>0, <1>1, KeyedStays DEF Keyless, Derived
<1>4. Flights'
  <2>1. \A f \in Flight : leader[f] # 0 => leader[f] \in Call /\ leader[f] # c
    BY <1>0 DEF Flights, Sending, TypeOK, Call
  <2>2. c \notin alone
    BY <1>0 DEF Flights
  <2> QED BY <1>0, <1>1, <2>1, <2>2 DEF Flights, Sending, At, FlightOf, TypeOK
<1>5. Tokens'
  BY <1>0, <1>1, TokensStay DEF At
<1>6. Past'
  BY <1>0, <1>1, PastStays DEF At, store
<1> QED BY <1>2, <1>3, <1>4, <1>5, <1>6 DEF IInv

LEMMA LookIInv ==
  ASSUME IInv, NEW c \in Call, Look(c)
  PROVE  IInv'
<1>1. pc[c] = "look" /\ UNCHANGED <<Derived, leader, alone, store, answer>>
  BY DEF Look, At, Derived
<1>2. CASE cache[key[c]].life = "short"
  BY <1>1, <1>2, GotoIInv DEF Look, Goto
<1>3. CASE cache[key[c]].life # "short"
  <2>1. pc' = [pc EXCEPT ![c] = "lookup"] /\ UNCHANGED <<refresh, old>>
    BY <1>3 DEF Look, Goto
  <2> QED BY <1>1, <2>1, GotoIInv
<1> QED BY <1>2, <1>3

-----------------------------------------------------------------------------
(* Calls that return.                                                      *)

LEMMA ReturnEffect ==
  ASSUME TypeOK, NEW C \in SUBSET Call, NEW n \in 0..MaxCalls, Return(C, n)
  PROVE  /\ pc' \in [Call -> PC] /\ answer' \in [Call -> 0..MaxCalls]
         /\ refresh' \in [Call -> BOOLEAN] /\ old' \in [Call -> SUBSET Call]
         /\ \A c \in C : pc'[c] = "done" /\ answer'[c] = n
         /\ \A c \in Call \ C : /\ pc'[c] = pc[c] /\ answer'[c] = answer[c]
                               /\ refresh'[c] = refresh[c]
         /\ \A c \in Call : old'[c] \subseteq old[c]
<1>1. pc \in [Call -> PC] /\ answer \in [Call -> 0..MaxCalls]
      /\ refresh \in [Call -> BOOLEAN] /\ old \in [Call -> SUBSET Call]
  BY DEF TypeOK
<1>2. pc' \in [Call -> PC]
  BY <1>1 DEF Return, PC
<1>3. answer' \in [Call -> 0..MaxCalls]
  BY <1>1 DEF Return
<1>4. refresh' \in [Call -> BOOLEAN]
  BY <1>1 DEF Return
<1>5. old' \in [Call -> SUBSET Call]
  BY <1>1 DEF Return
<1> QED BY <1>1, <1>2, <1>3, <1>4, <1>5 DEF Return

\* Whatever ends calls leaves everything but the flights in order, when it
\* answers them with a token that was got for their key.
LEMMA ReturnIInv ==
  ASSUME IInv, NEW C \in SUBSET Call, NEW n \in 0..MaxCalls, Return(C, n),
         UNCHANGED <<Derived, alone, store>>, leader' \in [Flight -> 0..MaxCalls],
         n # 0 => \A c \in C : key[c] # None /\ GotFor(n, key[c])
  PROVE  TypeOK' /\ Keyed' /\ Tokens' /\ Past'
<1>0. /\ TypeOK /\ Keyed /\ Tokens /\ Past
      /\ UNCHANGED <<strategies, req, key, alone, cache, replaced>>
  BY DEF IInv, Derived, store
<1>1. /\ pc' \in [Call -> PC] /\ answer' \in [Call -> 0..MaxCalls]
      /\ refresh' \in [Call -> BOOLEAN] /\ old' \in [Call -> SUBSET Call]
      /\ \A c \in C : pc'[c] = "done" /\ answer'[c] = n
      /\ \A c \in Call \ C : /\ pc'[c] = pc[c] /\ answer'[c] = answer[c]
                            /\ refresh'[c] = refresh[c]
      /\ \A c \in Call : old'[c] \subseteq old[c]
  BY <1>0, ReturnEffect
<1>2. \A c \in Call : At(c, "done") => At(c, "done")'
  BY <1>1 DEF At
<1>3. TypeOK'
  BY <1>0, <1>1 DEF TypeOK
<1>4. Keyed'
  <2>1. \A c \in Call : pc'[c] # "done" => pc'[c] = pc[c] /\ refresh'[c] = refresh[c]
    BY <1>1
  <2> QED BY <1>0, <2>1, KeyedStays DEF Keyless
<1>5. Tokens'
  <2>1. \A t, k : GotFor(t, k) => GotFor(t, k)'
    BY <1>0, <1>1 DEF GotFor
  <2>2. \A c \in C : answer'[c] # 0 => At(c, "done")' /\ key'[c] # None /\ GotFor(n, key[c])
    BY <1>0, <1>1 DEF At
  <2>3. \A c \in Call \ C : answer'[c] # 0 =>
          At(c, "done")' /\ key'[c] # None /\ GotFor(answer[c], key[c])
    BY <1>0, <1>1, <1>2 DEF Tokens
  <2> QED BY <1>0, <1>1, <2>1, <2>2, <2>3 DEF Tokens
<1>6. Past'
  BY <1>0, <1>1, <1>2, PastStays
<1> QED BY <1>3, <1>4, <1>5, <1>6

\* A call that sends no request returns, and no other with it.
LEMMA ReturnAloneIInv ==
  ASSUME IInv, NEW c \in Call, pc[c] \in {"direct", "lookup", "waiting"}, NEW n \in 0..MaxCalls,
         Return({c}, n), UNCHANGED <<Derived, alone, store, leader>>,
         n # 0 => key[c] # None /\ GotFor(n, key[c])
  PROVE  IInv'
<1>0. TypeOK /\ Flights /\ UNCHANGED <<key, alone, leader>>
  BY DEF IInv, Derived
<1>1. TypeOK' /\ Keyed' /\ Tokens' /\ Past'
  BY <1>0, ReturnIInv DEF TypeOK
<1>2. /\ pc'[c] = "done"
      /\ \A d \in Call \ {c} : pc'[d] = pc[d] /\ refresh'[d] = refresh[d]
  BY <1>0, ReturnEffect
<1>3. Flights'
  <2>1. \A f \in Flight : leader[f] # 0 => leader[f] \in Call /\ leader[f] # c
    BY <1>0 DEF Flights, Sending, TypeOK, Call
  <2>2. c \notin alone
    BY <1>0 DEF Flights
  <2> QED BY <1>0, <1>2, <2>1, <2>2 DEF Flights, Sending, At, FlightOf, TypeOK
<1> QED BY <1>1, <1>3 DEF IInv

LEMMA DirectIInv ==
  ASSUME IInv, NEW c \in Call, Direct(c)
  PROVE  IInv'
<1>1. 0 \in 0..MaxCalls
  BY CacheAssumption
<1> QED BY <1>1, ReturnAloneIInv DEF Direct, At, Derived

\* A cached token was got for the key it is cached under.
LEMMA LookupIInv ==
  ASSUME IInv, NEW c \in Call, Lookup(c)
  PROVE  IInv'
<1>0. /\ TypeOK /\ Keyed /\ Flights /\ Tokens /\ Past /\ pc[c] = "lookup"
      /\ UNCHANGED <<Derived, leader, alone, cache, replaced>>
  BY DEF IInv, Lookup, At, store, Derived
<1>1. key[c] \in Key /\ key[c] # None
  BY <1>0, Types DEF Keyed, Keyless
<1>2. CASE Shown(key[c])
  <2>1. cache[key[c]].token \in 0..MaxCalls
    BY <1>0, <1>1 DEF TypeOK, Entry
  <2>2. cache[key[c]].token # 0 => GotFor(cache[key[c]].token, key[c])
    BY <1>0, <1>1 DEF Tokens
  <2>3. Return({c}, cache[key[c]].token)
    BY <1>2 DEF Lookup
  <2> QED BY <1>0, <1>1, <2>1, <2>2, <2>3, ReturnAloneIInv DEF store
<1>3. CASE ~Shown(key[c])
  <2>1. pc' = [pc EXCEPT ![c] = "join"] /\ UNCHANGED <<refresh, old, answer>>
    BY <1>3 DEF Lookup, Goto, locals
  <2> QED BY <1>0, <1>1, <2>1, GotoIInv DEF store
<1> QED BY <1>2, <1>3

\* The end of a request ends the flight its call leads, for all who wait.
LEMMA LandIInv ==
  ASSUME IInv, NEW c \in Call, NEW n \in 0..MaxCalls, Sending(c), Land(c, n),
         n # 0 => n = c /\ pc[c] = "landing"
  PROVE  IInv'
<1> DEFINE C == Landing(c)
<1>0. /\ TypeOK /\ Keyed /\ Flights
      /\ Return(C, n)
      /\ leader' = [leader EXCEPT ![FlightOf(c)] = IF @ = c THEN 0 ELSE @]
      /\ UNCHANGED <<strategies, req, key, alone, cache, replaced>>
  BY DEF IInv, Land, store
<1>1. C \in SUBSET Call /\ c \in C
  BY DEF Landing
<1>2. /\ 0 \notin Call /\ key[c] # None /\ key[c] \in Key /\ FlightOf(c) \in Flight
      /\ \A d \in Call : At(d, "waiting") => key[d] # None /\ FlightOf(d) \in Flight
  BY <1>0, Types DEF Keyed, Keyless, Sending, At
<1>3. /\ leader' \in [Flight -> 0..MaxCalls]
      /\ \A f \in Flight \ {FlightOf(c)} : leader'[f] = leader[f]
      /\ leader'[FlightOf(c)] = IF leader[FlightOf(c)] = c THEN 0 ELSE leader[FlightOf(c)]
  BY <1>0, <1>2, CacheAssumption DEF TypeOK
<1>4. \A d \in C : key[d] = key[c]
  BY <1>2 DEF Landing, FlightOf
<1>5. TypeOK' /\ Keyed' /\ Tokens' /\ Past'
  <2>1. n # 0 => \A d \in C : key[d] # None /\ GotFor(n, key[d])
    BY <1>2, <1>4 DEF GotFor
  <2> QED BY <1>0, <1>1, <1>3, <2>1, ReturnIInv DEF Derived, store
<1>6. /\ \A d \in C : pc'[d] = "done"
      /\ \A d \in Call \ C : pc'[d] = pc[d] /\ refresh'[d] = refresh[d]
  BY <1>0, <1>1 DEF Return, TypeOK
<1>7. \A d \in Call \ C : FlightOf(d)' = FlightOf(d)
  BY <1>0, <1>6 DEF FlightOf
<1>8. Flights'
  <2>1. ASSUME NEW f \in Flight, leader'[f] # 0
        PROVE  Sending(leader[f])' /\ FlightOf(leader[f])' = f /\ leader'[f] \notin alone'
    <3>1. leader'[f] = leader[f] /\ leader[f] # c /\ leader[f] \in Call
      BY <1>0, <1>3, <2>1 DEF Flights, TypeOK, Call
    <3>2. Sending(leader[f]) /\ FlightOf(leader[f]) = f /\ leader[f] \notin alone
      BY <1>0, <2>1, <3>1 DEF Flights
    <3>3. leader[f] \notin C
      BY <3>1, <3>2 DEF Landing, Sending, At
    <3> QED BY <1>0, <1>6, <1>7, <3>1, <3>2, <3>3 DEF Sending, FlightOf
  <2>2. ASSUME NEW d \in Call, Sending(d)', d \notin alone'
        PROVE  leader'[FlightOf(d)'] = d
    <3>1. d \notin C /\ Sending(d) /\ d \notin alone /\ FlightOf(d)' = FlightOf(d)
      BY <1>0, <1>6, <1>7, <2>2 DEF Sending
    <3>2. leader[FlightOf(d)] = d /\ d # c /\ FlightOf(d) \in Flight
      <4>1. key[d] # None
        BY <1>0, <3>1 DEF Keyed, Keyless, Sending
      <4> QED BY <1>0, <1>1, <3>1, <4>1, Types DEF Flights
    <3> QED BY <1>3, <3>1, <3>2
  <2>3. \A d \in alone' : pc'[d] \in {"asking", "landing", "done"}
    BY <1>0, <1>6 DEF Flights, TypeOK
  <2> QED BY <1>0, <2>1, <2>2, <2>3 DEF Flights, Sending, FlightOf
<1> QED BY <1>5, <1>8 DEF IInv

LEMMA RefusedIInv ==
  ASSUME IInv, NEW c \in Call, Refused(c)
  PROVE  IInv'
BY CacheAssumption, LandIInv DEF Refused, At, Sending

LEMMA SucceedIInv ==
  ASSUME IInv, NEW c \in Call, Succeed(c)
  PROVE  IInv'
BY CacheAssumption, LandIInv DEF Succeed, At, Sending, Call

-----------------------------------------------------------------------------
(* Flights.                                                                *)

\* A call sends its request, as the leader of its flight or beside it.
LEMMA SendIInv ==
  ASSUME IInv, NEW c \in Call, pc[c] \in {"join", "waiting"}, SendRequest(c),
         UNCHANGED <<Derived, refresh, store, answer>>,
         \/ /\ leader[FlightOf(c)] = 0
            /\ leader' = [leader EXCEPT ![FlightOf(c)] = c]
            /\ UNCHANGED alone
         \/ UNCHANGED leader /\ alone' = alone \union {c}
  PROVE  IInv'
<1>0. /\ TypeOK /\ Keyed /\ Flights /\ Tokens /\ Past
      /\ UNCHANGED <<strategies, req, key, refresh, cache, replaced, answer>>
  BY DEF IInv, Derived, store
<1>1. /\ pc' \in [Call -> PC] /\ old' \in [Call -> SUBSET Call] /\ pc'[c] = "asking"
      /\ \A d \in Call \ {c} : pc'[d] = pc[d]
      /\ \A d \in Call : old'[d] \subseteq old[d] \union Done
  BY <1>0 DEF SendRequest, Goto, TypeOK, PC, Done
<1>2. /\ key[c] # None /\ FlightOf(c) \in Flight /\ c \in 0..MaxCalls /\ c # 0
      /\ \A d \in Call : FlightOf(d)' = FlightOf(d)
      /\ \A d \in Call : pc[d] \notin Keyless => FlightOf(d) \in Flight
  BY <1>0, Types DEF Keyed, Keyless, FlightOf
<1>3. /\ leader' \in [Flight -> 0..MaxCalls] /\ alone' \subseteq Call
      /\ \A f \in Flight \ {FlightOf(c)} : leader'[f] = leader[f]
  BY <1>0, <1>2 DEF TypeOK
<1>4. TypeOK'
  BY <1>0, <1>1, <1>3 DEF TypeOK
<1>5. Keyed'
  BY <1>0, <1>1, KeyedStays DEF Keyless, Derived
<1>6. Tokens'
  BY <1>0, <1>1, TokensStay DEF At
<1>7. Past'
  BY <1>0, <1>1, PastStays DEF At, store
<1>8. \A f \in Flight : leader[f] # 0 => leader[f] \in Call /\ leader[f] # c
  BY <1>0 DEF Flights, Sending, TypeOK, Call
<1>9. c \notin alone
  BY <1>0 DEF Flights
<1>10. CASE leader[FlightOf(c)] = 0 /\ leader' = [leader EXCEPT ![FlightOf(c)] = c] /\ alone' = alone
  <2>1. leader'[FlightOf(c)] = c
    BY <1>0, <1>2, <1>10 DEF TypeOK
  <2>2. ASSUME NEW f \in Flight, leader'[f] # 0
        PROVE  Sending(leader[f])' /\ FlightOf(leader[f])' = f /\ leader'[f] \notin alone'
    <3>1. CASE f = FlightOf(c)
      BY <1>1, <1>2, <1>9, <1>10, <2>1, <3>1 DEF Sending, FlightOf
    <3>2. CASE f # FlightOf(c)
      BY <1>0, <1>1, <1>2, <1>3, <1>8, <1>10, <2>2, <3>2 DEF Flights, Sending, FlightOf
    <3> QED BY <3>1, <3>2
  <2>3. ASSUME NEW d \in Call, Sending(d)', d \notin alone'
        PROVE  leader'[FlightOf(d)'] = d
    <3>1. CASE d = c
      BY <1>2, <2>1, <3>1
    <3>2. CASE d # c
      <4>1. Sending(d) /\ d \notin alone /\ FlightOf(d) \in Flight
        BY <1>1, <1>2, <1>10, <2>3, <3>2 DEF Sending, Keyless
      <4>2. leader[FlightOf(d)] = d /\ d # 0
        BY <1>0, <4>1, Types DEF Flights
      <4> QED BY <1>2, <1>3, <1>10, <4>1, <4>2
    <3> QED BY <3>1, <3>2
  <2>4. \A d \in alone' : pc'[d] \in {"asking", "landing", "done"}
    BY <1>0, <1>1, <1>10 DEF Flights, TypeOK
  <2>5. Flights'
    BY <2>2, <2>3, <2>4 DEF Flights, FlightOf
  <2> QED BY <1>4, <1>5, <1>6, <1>7, <2>5 DEF IInv
<1>11. CASE leader' = leader /\ alone' = alone \union {c}
  <2>1. ASSUME NEW f \in Flight, leader[f] # 0
        PROVE  Sending(leader[f])' /\ FlightOf(leader[f])' = f /\ leader[f] \notin alone'
    BY <1>0, <1>1, <1>2, <1>8, <1>11, <2>1 DEF Flights, Sending, FlightOf
  <2>2. ASSUME NEW d \in Call, Sending(d)', d \notin alone'
        PROVE  leader[FlightOf(d)'] = d
    BY <1>0, <1>1, <1>2, <1>11, <2>2 DEF Flights, Sending
  <2>3. \A d \in alone' : pc'[d] \in {"asking", "landing", "done"}
    BY <1>0, <1>1, <1>11 DEF Flights, TypeOK
  <2>4. Flights'
    BY <1>11, <2>1, <2>2, <2>3 DEF Flights, FlightOf, Sending
  <2> QED BY <1>4, <1>5, <1>6, <1>7, <2>4 DEF IInv
<1> QED BY <1>10, <1>11

LEMMA LeadIInv ==
  ASSUME IInv, NEW c \in Call, Lead(c)
  PROVE  IInv'
BY SendIInv DEF Lead, At, Joins, Derived

LEMMA AbandonIInv ==
  ASSUME IInv, NEW c \in Call, Abandon(c)
  PROVE  IInv'
BY SendIInv DEF Abandon, At, Derived

LEMMA CancelledIInv ==
  ASSUME IInv, NEW c \in Call, Cancelled(c)
  PROVE  IInv'
<1>1. 0 \in 0..MaxCalls
  BY CacheAssumption
<1> QED BY <1>1, ReturnAloneIInv DEF Cancelled, At, Derived

\* A call waits for a flight that is in progress.
LEMMA FollowIInv ==
  ASSUME IInv, NEW c \in Call, Follow(c)
  PROVE  IInv'
<1>0. /\ TypeOK /\ Keyed /\ Flights /\ Tokens /\ Past
      /\ pc[c] = "join" /\ leader[FlightOf(c)] # 0
      /\ pc' = [pc EXCEPT ![c] = "waiting"]
      /\ UNCHANGED <<strategies, req, key, refresh, old, leader, alone, cache, replaced, answer>>
  BY DEF IInv, Follow, At, Joins, Goto, locals, store
<1>1. /\ pc' \in [Call -> PC] /\ pc'[c] = "waiting"
      /\ \A d \in Call \ {c} : pc'[d] = pc[d]
  BY <1>0 DEF TypeOK, PC
<1>2. TypeOK'
  BY <1>0, <1>1 DEF TypeOK
<1>3. Keyed'
  BY <1>0, <1>1, KeyedStays DEF Keyless, Derived
<1>4. Flights'
  <2>1. \A f \in Flight : leader[f] # 0 => leader[f] \in Call /\ leader[f] # c
    BY <1>0 DEF Flights, Sending, TypeOK, Call
  <2>2. c \notin alone
    BY <1>0 DEF Flights
  <2> QED BY <1>0, <1>1, <2>1, <2>2 DEF Flights, Sending, At, FlightOf, TypeOK
<1>5. Tokens'
  BY <1>0, <1>1, TokensStay DEF At
<1>6. Past'
  BY <1>0, <1>1, PastStays DEF At, store
<1> QED BY <1>2, <1>3, <1>4, <1>5, <1>6 DEF IInv

\* A token enters the cache before its call returns, so what has been
\* answered with before is none of it.
LEMMA GrantedIInv ==
  ASSUME IInv, NEW c \in Call, Granted(c)
  PROVE  IInv'
<1>0. /\ TypeOK /\ Keyed /\ Flights /\ Tokens /\ Past /\ pc[c] = "asking"
      /\ pc' = [pc EXCEPT ![c] = "landing"]
      /\ UNCHANGED <<strategies, req, key, refresh, old, leader, alone, answer>>
  BY DEF IInv, Granted, At, Goto, locals
<1>1. key[c] \in Key /\ c \in 0..MaxCalls
  BY <1>0, Types DEF Keyed, Keyless
<1>2. PICK l \in {"long", "short"} :
        IF refresh[c] THEN PutRefresh(c, l) ELSE PutOrdinary(c, l)
  BY DEF Granted
<1>3. /\ cache' = cache \/ cache' = [cache EXCEPT ![key[c]] = [token |-> c, life |-> l]]
      /\ replaced' = replaced \/ replaced' = [replaced EXCEPT ![key[c]] = old[c]]
  BY <1>2 DEF PutRefresh, PutOrdinary, Put, store
<1>4. /\ pc' \in [Call -> PC] /\ pc'[c] = "landing"
      /\ \A d \in Call \ {c} : pc'[d] = pc[d]
      /\ cache' \in [Key -> Entry] /\ replaced' \in [Key -> SUBSET Call]
      /\ \A k \in Key : cache'[k] = cache[k] \/ (k = key[c] /\ cache'[k].token = c)
      /\ \A k \in Key : replaced'[k] = replaced[k] \/ (k = key[c] /\ replaced'[k] = old[c])
  <2>1. pc \in [Call -> PC] /\ cache \in [Key -> Entry] /\ replaced \in [Key -> SUBSET Call]
        /\ old[c] \in SUBSET Call
    BY <1>0 DEF TypeOK
  <2>2. [token |-> c, life |-> l] \in Entry
    BY <1>1 DEF Entry
  <2>3. pc' \in [Call -> PC] /\ pc'[c] = "landing" /\ \A d \in Call \ {c} : pc'[d] = pc[d]
    BY <1>0, <2>1 DEF PC
  <2>4. /\ cache' \in [Key -> Entry]
        /\ \A k \in Key : cache'[k] = cache[k] \/ (k = key[c] /\ cache'[k].token = c)
    <3>1. CASE cache' = cache
      BY <2>1, <3>1
    <3>2. CASE cache' = [cache EXCEPT ![key[c]] = [token |-> c, life |-> l]]
      BY <1>1, <2>1, <2>2, <3>2
    <3> QED BY <1>3, <3>1, <3>2
  <2>5. /\ replaced' \in [Key -> SUBSET Call]
        /\ \A k \in Key : replaced'[k] = replaced[k] \/ (k = key[c] /\ replaced'[k] = old[c])
    <3>1. CASE replaced' = replaced
      BY <2>1, <3>1
    <3>2. CASE replaced' = [replaced EXCEPT ![key[c]] = old[c]]
      BY <1>1, <2>1, <3>2
    <3> QED BY <1>3, <3>1, <3>2
  <2> QED BY <2>3, <2>4, <2>5
<1>5. \A k \in Key : replaced'[k] # replaced[k] => cache'[k].token = c
  BY <1>0, <1>1, <1>2, <1>4 DEF PutRefresh, PutOrdinary, Put, TypeOK, store
<1>6. TypeOK'
  BY <1>0, <1>4 DEF TypeOK
<1>7. Keyed'
  BY <1>0, <1>4, KeyedStays DEF Keyless, Derived
<1>8. Flights'
  BY <1>0, <1>4 DEF Flights, Sending, At, FlightOf, TypeOK
<1>9. Tokens'
  <2>1. \A t, k : GotFor(t, k) => GotFor(t, k)'
    BY <1>0, <1>4 DEF GotFor
  <2>2. GotFor(c, key[c])'
    BY <1>0, <1>4 DEF GotFor
  <2>3. \A d \in Call : At(d, "done") => At(d, "done")'
    BY <1>0, <1>4 DEF At
  <2> QED BY <1>0, <1>4, <2>1, <2>2, <2>3 DEF Tokens
<1>10. Past'
  <2>1. Done \subseteq Done' /\ c \notin Done
    BY <1>0, <1>4 DEF Done, At
  <2>2. old[c] \subseteq Done
    BY <1>0 DEF Past
  <2>3. \A d \in Call : old'[d] \subseteq Done'
    BY <1>0, <2>1 DEF Past
  <2>4. \A k \in Key : replaced'[k] \subseteq Done'
    BY <1>0, <1>4, <2>1, <2>2 DEF Past
  <2>5. \A k \in Key : cache'[k].token \notin replaced'[k]
    <3> SUFFICES ASSUME NEW k \in Key PROVE cache'[k].token \notin replaced'[k]
      OBVIOUS
    <3>1. replaced'[k] \subseteq Done
      BY <1>0, <1>4, <2>2 DEF Past
    <3>2. CASE cache'[k].token = c
      BY <2>1, <3>1, <3>2
    <3>3. CASE cache'[k].token # c
      BY <1>0, <1>4, <1>5, <3>3 DEF Past, StaysReplaced
    <3> QED BY <3>2, <3>3
  <2> QED BY <2>3, <2>4, <2>5 DEF Past, StaysReplaced
<1> QED BY <1>6, <1>7, <1>8, <1>9, <1>10 DEF IInv

-----------------------------------------------------------------------------
(* The environment, and all steps together.                                *)

LEMMA AgesIInv ==
  ASSUME IInv, NEW k \in Key, Ages(k)
  PROVE  IInv'
<1>0. /\ TypeOK /\ Keyed /\ Flights /\ Tokens /\ Past
      /\ UNCHANGED <<strategies, pc, req, key, refresh, old, leader, alone, replaced, answer>>
  BY DEF IInv, Ages, locals
<1>1. PICK l \in {"short", "gone"} : cache' = [cache EXCEPT ![k].life = l]
  BY DEF Ages
<1>2. cache' \in [Key -> Entry] /\ \A j \in Key : cache'[j].token = cache[j].token
  BY <1>0, <1>1 DEF TypeOK, Entry
<1>3. TypeOK'
  BY <1>0, <1>2 DEF TypeOK
<1>4. Keyed'
  BY <1>0, KeyedStays DEF Derived
<1>5. Flights'
  BY <1>0 DEF Flights, Sending, At, FlightOf
<1>6. Tokens'
  BY <1>0, <1>2 DEF Tokens, GotFor, At
<1>7. Past'
  BY <1>0, <1>2 DEF Past, StaysReplaced, Done, At
<1> QED BY <1>3, <1>4, <1>5, <1>6, <1>7 DEF IInv

LEMMA StutterIInv ==
  ASSUME IInv, UNCHANGED vars
  PROVE  IInv'
<1>0. /\ TypeOK /\ Keyed /\ Flights /\ Tokens /\ Past
      /\ UNCHANGED <<strategies, pc, req, key, refresh, old, leader, alone, cache, replaced, answer>>
  BY DEF IInv, vars
<1>1. TypeOK'
  BY <1>0 DEF TypeOK
<1>2. Keyed'
  BY <1>0, KeyedStays DEF Derived
<1>3. Flights'
  BY <1>0 DEF Flights, Sending, At, FlightOf
<1>4. Tokens'
  BY <1>0 DEF Tokens, GotFor, At
<1>5. Past'
  BY <1>0 DEF Past, StaysReplaced, Done, At
<1> QED BY <1>1, <1>2, <1>3, <1>4, <1>5 DEF IInv

LEMMA NextIInv ==
  IInv /\ [Next]_vars => IInv'
<1> SUFFICES ASSUME IInv, [Next]_vars PROVE IInv'
  OBVIOUS
<1>1. ASSUME NEW c \in Call, Step(c) PROVE IInv'
  BY <1>1, DirectIInv, LookIInv, LookupIInv, LeadIInv, FollowIInv, AbandonIInv,
     CancelledIInv, RefusedIInv, GrantedIInv, SucceedIInv DEF Step
<1>2. ASSUME NEW c \in Call, NEW r \in Requests, Start(c, r) PROVE IInv'
  BY <1>2, StartIInv
<1>3. ASSUME NEW k \in Key, Ages(k) PROVE IInv'
  BY <1>3, AgesIInv
<1>4. ASSUME UNCHANGED vars PROVE IInv'
  BY <1>4, StutterIInv
<1> QED BY <1>1, <1>2, <1>3, <1>4 DEF Next, AllReturned

\* The invariant holds in every reachable state.
THEOREM Invariance ==
  Spec => []IInv
BY InitIInv, NextIInv, PTL DEF Spec

-----------------------------------------------------------------------------
(* What it implies.                                                        *)

\* Every variable keeps its shape, for any number of calls.
THEOREM TypeCorrect ==
  Spec => []TypeOK
<1>1. IInv => TypeOK
  BY DEF IInv
<1> QED BY <1>1, Invariance, PTL

\* cachedFlow's flights: no two requests for one key of one kind are under
\* way, save those of calls that left a slow leader.
THEOREM OneRequest ==
  Spec => []SharedRequests
<1>1. IInv => SharedRequests
  BY DEF IInv, Flights, SharedRequests
<1> QED BY <1>1, Invariance, PTL

\* The cache keys tell the callers apart: a token is only handed to the caller
\* and for the scope it was got for, from the cache or from a shared flight.
THEOREM NobodyElsesToken ==
  Spec => []OwnTokens
<1>1. ASSUME IInv PROVE OwnTokens
  <2> SUFFICES ASSUME NEW c \in Call, answer[c] # 0
               PROVE  /\ GrantOf(c) # None
                      /\ SubjectOf(answer[c]) = SubjectOf(c)
                      /\ req[answer[c]].scope = req[c].scope
    BY DEF OwnTokens
  <2>1. key[c] # None /\ GotFor(answer[c], key[c])
    BY <1>1 DEF IInv, Tokens
  <2>2. answer[c] \in Call /\ key[answer[c]] = key[c]
    BY <2>1 DEF GotFor
  <2>3. \A d \in {c, answer[c]} : GrantOf(d) # None /\ key[c] = KeyFor(GrantOf(d), req[d])
    BY <1>1, <2>1, <2>2 DEF IInv, Keyed
  <2>4. \A d \in {c, answer[c]} :
          /\ req[d].scope = key[c].scope
          /\ SubjectOf(d) = IF key[c].grant = "obo" THEN key[c].user ELSE Server
    BY <2>1, <2>3, KeyTells DEF SubjectOf
  <2> QED BY <2>3, <2>4
<1> QED BY <1>1, Invariance, PTL

\* A refresh replaces the entry for good: what had been answered with before it
\* never comes back.
THEOREM NoneComesBack ==
  Spec => []StaysReplaced
<1>1. IInv => StaysReplaced
  BY DEF IInv, Past
<1> QED BY <1>1, Invariance, PTL

-----------------------------------------------------------------------------
(* What a step may not do.                                                 *)

RenewedStep ==
  \A c \in Call : pc[c] # "done" /\ pc'[c] = "done" /\ (refresh[c] \/ Forced(c))
                    => answer'[c] \notin old[c]

\* What has not been answered with yet is old to nobody, and an error to no one.
LEMMA ReturnNew ==
  ASSUME IInv, NEW C \in SUBSET Call, NEW n \in 0..MaxCalls, Return(C, n), n \notin Done
  PROVE  RenewedStep
<1>0. TypeOK /\ \A c \in Call : old[c] \subseteq Done
  BY DEF IInv, Past
<1>1. \A c \in C : answer'[c] = n
  BY <1>0 DEF Return, TypeOK
<1>2. \A c \in Call \ C : pc'[c] = pc[c]
  BY <1>0 DEF Return, TypeOK
<1> QED BY <1>0, <1>1, <1>2 DEF RenewedStep

LEMMA NextRenewed ==
  IInv /\ [Next]_vars => [RenewedStep]_vars
<1> SUFFICES ASSUME IInv, Next PROVE RenewedStep
  BY DEF vars
<1>0. /\ TypeOK /\ Keyed /\ Tokens /\ Past
      /\ 0 \in 0..MaxCalls /\ 0 \notin Done /\ Call \subseteq 0..MaxCalls
  BY Types DEF IInv, Done
<1>1. ASSUME NEW c \in Call, NEW r \in Requests, Start(c, r) PROVE RenewedStep
  <2>1. pc[c] = "new" /\ answer' = answer /\ \A d \in Call \ {c} : pc'[d] = pc[d]
    BY <1>0, <1>1 DEF Start, At, Goto, TypeOK
  <2>2. answer[c] = 0 /\ 0 \notin old[c]
    BY <1>0, <2>1 DEF Tokens, At, Past
  <2> QED BY <2>1, <2>2 DEF RenewedStep
<1>2. ASSUME NEW c \in Call, Direct(c) \/ Cancelled(c) PROVE RenewedStep
  BY <1>0, <1>2, ReturnNew DEF Direct, Cancelled
<1>3. ASSUME NEW c \in Call, Lookup(c) PROVE RenewedStep
  <2>1. pc[c] = "lookup" /\ ~refresh[c] /\ ~Forced(c)
    BY <1>0, <1>3 DEF Lookup, At, Keyed
  <2>2. \A d \in Call \ {c} : pc'[d] = pc[d]
    BY <1>0, <1>3 DEF Lookup, Return, Goto, TypeOK
  <2> QED BY <2>1, <2>2 DEF RenewedStep
<1>4. ASSUME NEW c \in Call, Refused(c) PROVE RenewedStep
  <2>1. Return(Landing(c), 0) /\ Landing(c) \in SUBSET Call
    BY <1>4 DEF Refused, Land, Landing
  <2> QED BY <1>0, <2>1, ReturnNew
<1>5. ASSUME NEW c \in Call, Succeed(c) PROVE RenewedStep
  <2>1. Return(Landing(c), c) /\ Landing(c) \in SUBSET Call /\ c \notin Done
    BY <1>5 DEF Succeed, Land, Landing, At, Done
  <2> QED BY <1>0, <2>1, ReturnNew
<1>6. ASSUME NEW c \in Call, Look(c) \/ Lead(c) \/ Follow(c) \/ Abandon(c) \/ Granted(c)
      PROVE  RenewedStep
  <2>1. \A d \in Call : pc'[d] = "done" => pc[d] = "done"
    BY <1>0, <1>6 DEF Look, Lead, Follow, Abandon, Granted, SendRequest, Goto, TypeOK
  <2> QED BY <2>1 DEF RenewedStep
<1>7. ASSUME UNCHANGED pc PROVE RenewedStep
  BY <1>7 DEF RenewedStep
<1> QED BY <1>1, <1>2, <1>3, <1>4, <1>5, <1>6, <1>7 DEF Next, Step, Ages, AllReturned, vars

\* ForceRefresh and MinValidFor: whoever had to renew is answered with nothing
\* that had been answered with when it decided so.
THEOREM RefreshIsFresh ==
  Spec => Renewed
BY Invariance, NextRenewed, PTL DEF Spec, Renewed, RenewedStep
=============================================================================
