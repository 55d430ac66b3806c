-------------------------- MODULE DevicePollProofs --------------------------
(* Theorems about DevicePoll, for every configuration and every provider.  *)
EXTENDS DevicePoll, TLAPS

IInv == TypeOK /\ Earned

LEMMA MinIntervalPositive ==
  MinInterval \in Nat /\ MinInterval >= 1
BY PollAssumption DEF MinInterval

LEMMA IncrementType ==
  Increment \in Nat
BY PollAssumption DEF Increment

\* A ticker that is set anew owes nothing.
LEMMA SetTickerTypes ==
  ASSUME NEW i \in Nat, i >= MinInterval, SetTicker(i)
  PROVE  /\ interval' \in Nat /\ interval' >= MinInterval
         /\ due' \in 1..interval'
         /\ tick' \in BOOLEAN
         /\ credit' \in 0..(interval' + interval')
         /\ Earned'
<1>0. interval' = i /\ due' = i /\ tick' = FALSE /\ credit' = 0
  BY DEF SetTicker
<1>1. interval' \in Nat /\ interval' >= MinInterval /\ due' \in 1..interval'
  BY <1>0, MinIntervalPositive
<1>2. credit' \in 0..(interval' + interval')
  BY <1>0
<1>3. tick' \in BOOLEAN
  BY <1>0
<1>4. Earned'
  BY <1>0 DEF Earned
<1> QED BY <1>1, <1>2, <1>3, <1>4

LEMMA InitIInv ==
  Init => IInv
<1> SUFFICES ASSUME Init PROVE IInv
  OBVIOUS
<1> USE MinIntervalPositive, PollAssumption DEF Init
<1>1. left \in 0..Timeout /\ slowed \in 0..MaxSlowDowns
  OBVIOUS
<1>2. interval \in Nat /\ interval >= MinInterval /\ due \in 1..interval
  OBVIOUS
<1>3. credit \in 0..(interval + interval)
  OBVIOUS
<1>4. Earned
  BY DEF Earned
<1> QED BY <1>1, <1>2, <1>3, <1>4 DEF IInv, TypeOK

\* The tick a poll takes was paid for by a whole interval.
LEMMA PollPaid ==
  ASSUME IInv, Poll
  PROVE  credit >= interval
BY DEF IInv, TypeOK, Earned, Poll

LEMMA NextIInv ==
  ASSUME IInv, [Next]_vars
  PROVE  IInv'
<1>0. TypeOK /\ Earned /\ Timeout \in Nat /\ MaxSlowDowns \in Nat
  BY PollAssumption DEF IInv
<1>1. CASE RequestDeviceCode
  <2>1. CASE pc' = "failed" /\ UNCHANGED <<ticker, credit>>
    BY <1>0, <1>1, <2>1 DEF RequestDeviceCode, ticker, IInv, TypeOK, Earned
  <2>2. ASSUME NEW i \in ServerInterval, SetTicker(AtLeast(MinInterval, i)),
               pc' = "waiting"
        PROVE  IInv'
    <3>1. AtLeast(MinInterval, i) \in Nat /\ AtLeast(MinInterval, i) >= MinInterval
      BY MinIntervalPositive, PollAssumption DEF AtLeast
    <3>2. UNCHANGED <<left, slowed>>
      BY <1>1 DEF RequestDeviceCode
    <3> QED BY <1>0, <2>2, <3>1, <3>2, SetTickerTypes DEF IInv, TypeOK
  <2> QED BY <1>1, <2>1, <2>2 DEF RequestDeviceCode
<1>2. CASE Poll
  <2>1. credit - interval \in 0..(interval + interval)
    BY <1>0, <1>2, PollPaid DEF IInv, TypeOK
  <2>2. Earned'
    BY <1>0, <1>2 DEF Poll, TypeOK, Earned
  <2>3. /\ credit' = credit - interval /\ pc' = "asking" /\ tick' = FALSE
        /\ UNCHANGED <<left, interval, due, slowed>>
    BY <1>2 DEF Poll
  <2>5. TypeOK'
    BY <1>0, <2>1, <2>3 DEF TypeOK
  <2> QED BY <2>2, <2>5 DEF IInv
<1>3. CASE KeepPolling \/ Decided \/ TimedOut
  BY <1>0, <1>3 DEF KeepPolling, Decided, TimedOut, ticker, IInv, TypeOK, Earned
<1>4. CASE SlowDown
  <2>1. interval + Increment \in Nat /\ interval + Increment >= MinInterval
    BY <1>0, IncrementType, MinIntervalPositive DEF TypeOK
  <2> QED BY <1>0, <1>4, <2>1, SetTickerTypes DEF SlowDown, IInv, TypeOK
<1>5. CASE Cancel
  BY <1>0, <1>5 DEF Cancel, ticker, IInv, TypeOK, Earned
<1>6. CASE Elapse
  <2>1. left' \in 0..Timeout /\ UNCHANGED <<pc, interval, slowed>>
    BY <1>0, <1>6 DEF Elapse, TypeOK, AtLeast
  <2>2. CASE pc = "code"
    BY <1>0, <1>6, <2>1, <2>2 DEF Elapse, IInv, TypeOK, Earned
  <2>3. CASE pc # "code"
    <3>1. /\ due' = IF due = 1 THEN interval ELSE due - 1
          /\ tick' = (tick \/ due = 1)
          /\ credit' = AtMost(interval + interval, credit + 1)
      BY <1>6, <2>3 DEF Elapse
    <3>2. due' \in 1..interval /\ tick' \in BOOLEAN
      BY <1>0, <3>1 DEF TypeOK
    <3>3. credit' \in 0..(interval + interval)
      BY <1>0, <3>1, MinIntervalPositive DEF TypeOK, AtMost
    <3>4. Earned'
      BY <1>0, <2>1, <3>1 DEF TypeOK, Earned, AtMost
    <3> QED BY <1>0, <2>1, <3>2, <3>3, <3>4 DEF IInv, TypeOK
  <2> QED BY <2>2, <2>3
<1>7. CASE UNCHANGED vars
  BY <1>0, <1>7 DEF vars, IInv, TypeOK, Earned
<1> QED BY <1>1, <1>2, <1>3, <1>4, <1>5, <1>6, <1>7 DEF Next

LEMMA IInvHolds == Spec => []IInv
BY InitIInv, NextIInv, PTL DEF Spec

\* The interval, the ticker and the code keep their shapes, whatever intervals
\* and slow_downs the provider sends.
THEOREM TypeCorrect == Spec => []TypeOK
BY IInvHolds, PTL DEF IInv

\* The ticker's bookkeeping is sound for every configured interval and every
\* answer of the provider: what it owes never exceeds the time that passed.
THEOREM TicksEarned == Spec => []Earned
BY IInvHolds, PTL DEF IInv

\* Polls keep the interval on average, and never use up a slow_down's longer
\* interval with a tick of the shorter one.
THEOREM PollsPaced ==
  Spec => Paced
<1>1. IInv /\ [Next]_vars => [Poll => credit >= interval]_vars
  BY PollPaid
<1> QED BY <1>1, IInvHolds, PTL DEF Spec, Paced
=============================================================================
