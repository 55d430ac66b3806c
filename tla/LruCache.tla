------------------------------ MODULE LruCache ------------------------------
(***************************************************************************)
(* The size-bounded cache with expiry that server mode keeps its tokens    *)
(* in.  Every method locks the cache once, except Get, which reads under   *)
(* the read lock and then, with the lock dropped in between, either moves  *)
(* the entry to the front or removes it because it had expired.  An action *)
(* is one critical section.                                                *)
(*                                                                         *)
(* The list of entries is a sequence of elements, most recently used       *)
(* first.  A Get may hold an element that has left the list meanwhile;     *)
(* container/list's MoveToFront and Remove do nothing to it, and what it   *)
(* held is never read again, so the model forgets it.                      *)
(***************************************************************************)
EXTENDS Integers, SequencesExt

CONSTANTS
  Key, Value, Thread,
  Elem,     \* list elements; one is free whenever Set needs one
  None,     \* no element, no value
  Size,     \* the capacity
  Buffer,   \* the expiry buffer, in ticks
  MaxTtl    \* bound on the lifetimes given to Set, in ticks

VARIABLES
  store,   \* the element of each key
  order,   \* the elements, most recently used first
  entry,   \* what each listed element holds; left is expiresAt minus now
  pc,      \* where each thread's Get is: "idle", "promote" or "remove"
  held,    \* the key and element a Get holds between its two sections
  result,  \* what each thread's last Get returned
  stopped, \* TRUE when the stop channel is closed
  cleaner, \* the cleanup goroutine: "waiting", "sweeping" or "done"
  sweep    \* the keys a cleanup in progress has still to visit

data == <<store, order, entry>>
gets == <<pc, held, result>>
life == <<stopped, cleaner, sweep>>
vars == <<store, order, entry, pc, held, result, stopped, cleaner, sweep>>

Left == -1..MaxTtl
Entry == [key : Key, value : Value, left : Left]

ASSUME CacheAssumption ==
  /\ Size \in Nat \ {0}
  /\ Buffer \in Nat
  /\ MaxTtl \in Nat
  /\ None \notin Elem \union Value \union Entry

Listed == {order[i] : i \in 1..Len(order)}
Position(e) == CHOOSE i \in 1..Len(order) : order[i] = e

\* Later than expiresAt - buffer.
IsExpired(e) == entry[e].left < Buffer

\* container/list's Remove and MoveToFront.
Unlinked(e) == IF e \in Listed THEN RemoveAt(order, Position(e)) ELSE order
MovedToFront(e) == IF e \in Listed THEN <<e>> \o Unlinked(e) ELSE order

\* Key k and its element leave the cache.
Drop(k) == /\ store' = [store EXCEPT ![k] = None]
           /\ order' = Unlinked(store[k])
           /\ entry' = [entry EXCEPT ![store[k]] = None]

\* The write lock: held by a cleanup during the whole of its sweep.
Unlocked == cleaner # "sweeping"

\* A newly allocated element is one nothing refers to.
Unused == {e \in Elem : e \notin Listed /\ \A t \in Thread : held[t].elem # e}

-----------------------------------------------------------------------------
(* Get.                                                                    *)

NoHold == [key |-> None, elem |-> None]
Release(t) == /\ pc' = [pc EXCEPT ![t] = "idle"]
              /\ held' = [held EXCEPT ![t] = NoHold]
              /\ UNCHANGED result

GetMiss(t, k) ==
  /\ pc[t] = "idle"
  /\ store[k] = None
  /\ result' = [result EXCEPT ![t] = None]
  /\ UNCHANGED <<data, pc, held, life>>

Found(t, k, next) ==
  /\ pc[t] = "idle"
  /\ pc' = [pc EXCEPT ![t] = next]
  /\ held' = [held EXCEPT ![t] = [key |-> k, elem |-> store[k]]]
  /\ UNCHANGED <<data, life>>

GetExpired(t, k) ==
  /\ store[k] # None
  /\ IsExpired(store[k])
  /\ result' = [result EXCEPT ![t] = None]
  /\ Found(t, k, "remove")

\* Mutant: the expiry is not looked at.
GetHitStale(t, k) ==
  /\ store[k] # None
  /\ result' = [result EXCEPT ![t] = entry[store[k]].value]
  /\ Found(t, k, "promote")

GetHit(t, k) ==
  /\ store[k] # None
  /\ ~IsExpired(store[k])
  /\ result' = [result EXCEPT ![t] = entry[store[k]].value]
  /\ Found(t, k, "promote")

Promote(t) ==
  /\ pc[t] = "promote"
  /\ order' = MovedToFront(held[t].elem)
  /\ Release(t)
  /\ UNCHANGED <<store, entry, life>>

\* removeEntry, which leaves the key alone when another element took it.
\* Mutant: whatever the map has for the key is removed.
RemoveEntryByKey(t) ==
  /\ pc[t] = "remove"
  /\ IF store[held[t].key] # None THEN Drop(held[t].key) ELSE UNCHANGED data
  /\ Release(t)
  /\ UNCHANGED life

\* Mutant: the element leaves the list and its key the map, unconditionally.
RemoveEntryUnchecked(t) ==
  /\ pc[t] = "remove"
  /\ store' = [store EXCEPT ![held[t].key] = None]
  /\ order' = Unlinked(held[t].elem)
  /\ entry' = [entry EXCEPT ![held[t].elem] = None]
  /\ Release(t)
  /\ UNCHANGED life

RemoveEntry(t) ==
  /\ pc[t] = "remove"
  /\ IF store[held[t].key] = held[t].elem THEN Drop(held[t].key)
                                          ELSE UNCHANGED data
  /\ Release(t)
  /\ UNCHANGED life

-----------------------------------------------------------------------------
(* Set and Delete.                                                         *)

\* An entry that is present is updated in place, in the element it has.
\* Mutant: the new lifetime is added to what is left of the old one.
SetExistingExtends(k, v, ttl) ==
  /\ store[k] # None
  /\ order' = MovedToFront(store[k])
  /\ entry' = [entry EXCEPT ![store[k]] =
                 [key |-> k, value |-> v, left |-> entry[store[k]].left + ttl]]
  /\ UNCHANGED <<store, gets, life>>

SetExisting(k, v, ttl) ==
  /\ store[k] # None
  /\ order' = MovedToFront(store[k])
  /\ entry' = [entry EXCEPT ![store[k]] = [key |-> k, value |-> v, left |-> ttl]]
  /\ UNCHANGED <<store, gets, life>>

\* Otherwise a new element goes to the front ...
PushFront(e, k, v, ttl) ==
  /\ store[k] = None
  /\ e \in Unused
  /\ store' = [store EXCEPT ![k] = e]
  /\ order' = <<e>> \o order
  /\ entry' = [entry EXCEPT ![e] = [key |-> k, value |-> v, left |-> ttl]]
  /\ UNCHANGED <<gets, life>>

\* Mutant: the list is full only when it has grown past its capacity.
SetNewLate(e, k, v, ttl) == Len(order) <= Size /\ PushFront(e, k, v, ttl)

SetNew(e, k, v, ttl) == Len(order) < Size /\ PushFront(e, k, v, ttl)

\* ... and the one at the back of a list that was full is evicted.
SetEvict(e, k, v, ttl) ==
  /\ store[k] = None
  /\ e \in Unused
  /\ Len(order) >= Size
  /\ LET oldest == order[Len(order)] IN
       /\ store' = [store EXCEPT ![k] = e, ![entry[oldest].key] = None]
       /\ order' = <<e>> \o Front(order)
       /\ entry' = [entry EXCEPT ![e] = [key |-> k, value |-> v, left |-> ttl],
                                 ![oldest] = None]
  /\ UNCHANGED <<gets, life>>

Delete(k) ==
  /\ store[k] # None
  /\ Drop(k)
  /\ UNCHANGED <<gets, life>>

-----------------------------------------------------------------------------
(* The cleanup goroutine, which waits for a tick or for the stop channel.  *)

\* A tick that is buffered may win the select after the channel is closed.
BeginCleanup ==
  /\ cleaner = "waiting"
  /\ cleaner' = "sweeping"
  /\ sweep' = {k \in Key : store[k] # None}
  /\ UNCHANGED <<data, gets, stopped>>

\* One iteration of the loop over the map, in any order.
\* Mutant: the sweep ignores the expiry buffer.
VisitLate(k) ==
  /\ k \in sweep
  /\ IF entry[store[k]].left < 0 THEN Drop(k) ELSE UNCHANGED data
  /\ sweep' = sweep \ {k}
  /\ UNCHANGED <<gets, stopped, cleaner>>

Visit(k) ==
  /\ k \in sweep
  /\ IF IsExpired(store[k]) THEN Drop(k) ELSE UNCHANGED data
  /\ sweep' = sweep \ {k}
  /\ UNCHANGED <<gets, stopped, cleaner>>

EndCleanup ==
  /\ cleaner = "sweeping"
  /\ sweep = {}
  /\ cleaner' = "waiting"
  /\ UNCHANGED <<data, gets, stopped, sweep>>

\* Mutant: the goroutine leaves only once the cache is empty.
ExitDrained ==
  /\ cleaner = "waiting"
  /\ stopped
  /\ order = <<>>
  /\ cleaner' = "done"
  /\ UNCHANGED <<data, gets, stopped, sweep>>

Exit ==
  /\ cleaner = "waiting"
  /\ stopped
  /\ cleaner' = "done"
  /\ UNCHANGED <<data, gets, stopped, sweep>>

\* The owner closes the stop channel (Plugin.Stop).
Stop ==
  /\ ~stopped
  /\ stopped' = TRUE
  /\ UNCHANGED <<data, gets, cleaner, sweep>>

\* A tick passes; an entry at -1 is as expired as it gets.
Aged(n) == IF n > -1 THEN n - 1 ELSE n

Tick ==
  /\ \E e \in Listed : entry[e].left > -1
  /\ entry' = [e \in Elem |-> IF e \in Listed
                               THEN [entry[e] EXCEPT !.left = Aged(@)]
                               ELSE entry[e]]
  /\ UNCHANGED <<store, order, gets, life>>

-----------------------------------------------------------------------------

Init ==
  /\ store = [k \in Key |-> None]
  /\ order = <<>>
  /\ entry = [e \in Elem |-> None]
  /\ pc = [t \in Thread |-> "idle"]
  /\ held = [t \in Thread |-> NoHold]
  /\ result = [t \in Thread |-> None]
  /\ stopped = FALSE
  /\ cleaner = "waiting"
  /\ sweep = {}

Get(t) == \E k \in Key : GetMiss(t, k) \/ GetExpired(t, k) \/ GetHit(t, k)
Set(k, v, ttl) == \/ SetExisting(k, v, ttl)
                  \/ \E e \in Elem : SetNew(e, k, v, ttl) \/ SetEvict(e, k, v, ttl)

Next ==
  \/ /\ Unlocked
     /\ \/ \E t \in Thread : Get(t) \/ Promote(t) \/ RemoveEntry(t)
        \/ \E k \in Key, v \in Value, ttl \in 0..MaxTtl : Set(k, v, ttl)
        \/ \E k \in Key : Delete(k)
  \/ BeginCleanup \/ (\E k \in Key : Visit(k)) \/ EndCleanup \/ Exit
  \/ Stop \/ Tick

Spec == Init /\ [][Next]_vars

\* The ticker keeps ticking, a sweep keeps going, and a closed channel is
\* eventually the one that is selected.
FairSpec == /\ Spec
            /\ WF_vars(BeginCleanup)
            /\ WF_vars(\E k \in Key : Visit(k)) /\ WF_vars(EndCleanup)
            /\ SF_vars(Exit)

-----------------------------------------------------------------------------
(* Properties.                                                             *)

\* Every variable keeps its shape.
TypeOK ==
  /\ store \in [Key -> Elem \union {None}]
  /\ order \in Seq(Elem)
  /\ entry \in [Elem -> Entry \union {None}]
  /\ pc \in [Thread -> {"idle", "promote", "remove"}]
  /\ held \in [Thread -> [key : Key, elem : Elem] \union {NoHold}]
  /\ result \in [Thread -> Value \union {None}]
  /\ stopped \in BOOLEAN
  /\ cleaner \in {"waiting", "sweeping", "done"}
  /\ sweep \subseteq Key

\* The map and the list always describe the same entries: the list holds no
\* element twice, every key of the map has its element in the list, and
\* every listed element is the one the map has for its key.  An orphan of
\* either side would never be found, or never be evicted.
Coherent ==
  /\ \A i, j \in 1..Len(order) : order[i] = order[j] => i = j
  /\ \A e \in Elem : e \in Listed <=> entry[e] # None
  /\ \A e \in Listed : store[entry[e].key] = e
  /\ \A k \in Key : store[k] # None => store[k] \in Listed /\ entry[store[k]].key = k

\* The cache never holds more than Size entries, not even between the two
\* critical sections of the Gets in flight.
Bounded == Len(order) <= Size

\* An entry that is not expired leaves the cache only by Delete, as the least
\* recently used of a full cache, or because a Get had found that very
\* element expired; a Get that held an element which is gone drops nothing.
FreshLeaves ==
  [][\A k \in Key :
       store[k] # None /\ ~IsExpired(store[k]) /\ store'[k] = None
       => \/ Delete(k)
          \/ Len(order) = Size /\ order[Size] = store[k] /\ Len(order') = Size
          \/ \E t \in Thread : pc[t] = "remove" /\ held[t].elem = store[k]]_vars

\* A reader of the cache sees a map with expiry: what a Get returns is what
\* was last Set and not dropped, decided when the Get reads, whatever its
\* second critical section meets.
Map == INSTANCE TtlMap WITH
  live <- [k \in Key |-> IF store[k] = None THEN None
                         ELSE IF IsExpired(store[k]) THEN None
                         ELSE entry[store[k]].value]

ImplementsMap == Map!Spec

\* While the cache is not stopped an expired entry does not stay: it is
\* dropped by a cleanup, unless it is renewed or read before.
ExpiredLeave ==
  \A k \in Key : (store[k] # None /\ IsExpired(store[k])) ~>
                 (stopped \/ store[k] = None \/ ~IsExpired(store[k]))

\* Closing the stop channel ends the cleanup goroutine.
CleanerEnds == stopped ~> cleaner = "done"
=============================================================================
