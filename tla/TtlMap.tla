------------------------------- MODULE TtlMap -------------------------------
(***************************************************************************)
(* What a cache with expiry promises its callers: a read returns the value *)
(* most recently put under the key, or nothing once that value was dropped *)
(* (expired, evicted or deleted).  A put may drop other keys; a dropped    *)
(* value never comes back by itself.                                       *)
(***************************************************************************)
CONSTANTS Key, Value, Thread, None

VARIABLES
  live,   \* the value a read of each key finds, or None
  result  \* what each thread's last read returned

vars == <<live, result>>

Init == /\ live = [k \in Key |-> None]
        /\ result = [t \in Thread |-> None]

\* The keys of D lose their values.
Without(f, D) == [k \in Key |-> IF k \in D THEN None ELSE f[k]]

Drop == /\ \E D \in SUBSET Key : live' = Without(live, D)
        /\ UNCHANGED result

\* A value put with too short a life may be dropped at once.
Put(k, v) == /\ \E D \in SUBSET Key : live' = Without([live EXCEPT ![k] = v], D)
             /\ UNCHANGED result

Read(t, k) == /\ result' = [result EXCEPT ![t] = live[k]]
              /\ UNCHANGED live

Next == \/ Drop
        \/ \E k \in Key, v \in Value : Put(k, v)
        \/ \E t \in Thread, k \in Key : Read(t, k)

Spec == Init /\ [][Next]_vars
=============================================================================
