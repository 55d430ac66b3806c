------------------------------ MODULE DevicePoll -----------------------------
(***************************************************************************)
(* The device code flow: one request for the code, then a poll of the      *)
(* token endpoint at every tick of a ticker, until the provider decides or *)
(* the login's context is done. The ticker is Go's: its channel holds one  *)
(* tick, further ticks are dropped while nobody receives it, and Reset     *)
(* discards a tick that was not received (Go 1.23 and later).              *)
(***************************************************************************)
EXTENDS Naturals

CONSTANTS
  ServerInterval,     \* the intervals the provider may ask for
  MinPollInterval,    \* config; 0 for the default
  DefaultMinPollInterval,
  SlowDownIncrement,  \* config; 0 for the default
  DefaultSlowDownIncrement,
  Timeout,            \* the login's timeout
  MaxSlowDowns        \* bound on the slow_down answers of one behaviour

ASSUME PollAssumption ==
  /\ ServerInterval \subseteq Nat
  /\ MinPollInterval \in Nat
  /\ DefaultMinPollInterval \in Nat \ {0}
  /\ SlowDownIncrement \in Nat
  /\ DefaultSlowDownIncrement \in Nat
  /\ Timeout \in Nat
  /\ MaxSlowDowns \in Nat

VARIABLES
  pc,        \* "code", "waiting", "asking", "granted" or "failed"
  left,      \* what is left of the timeout; 0 also when cancelled
  interval,  \* the poll interval
  due,       \* time until the ticker's next tick
  tick,      \* TRUE when a tick waits in the ticker's channel
  slowed,    \* slow_down answers so far
  credit     \* time since the ticker was reset, less one interval per poll,
             \*   of which at most two intervals are counted

ticker == <<interval, due, tick>>
vars   == <<pc, left, interval, due, tick, slowed, credit>>

MinInterval == IF MinPollInterval = 0 THEN DefaultMinPollInterval ELSE MinPollInterval
Increment   == IF SlowDownIncrement = 0 THEN DefaultSlowDownIncrement ELSE SlowDownIncrement

AtLeast(m, n) == IF n < m THEN m ELSE n
AtMost(m, n)  == IF n > m THEN m ELSE n

-----------------------------------------------------------------------------

\* Mutant: the increased interval is used from the next tick on.
SetTickerLate(i) ==
  /\ interval' = i
  /\ due' = due
  /\ tick' = tick
  /\ credit' = 0

\* A new ticker, or a reset one.
SetTicker(i) ==
  /\ interval' = i
  /\ due' = i
  /\ tick' = FALSE
  /\ credit' = 0

\* Once the context is done no request is answered.
RequestDeviceCode ==
  /\ pc = "code"
  /\ \/ /\ left > 0
        /\ \E i \in ServerInterval : SetTicker(AtLeast(MinInterval, i))
        /\ pc' = "waiting"
     \/ /\ pc' = "failed"
        /\ UNCHANGED <<ticker, credit>>
  /\ UNCHANGED <<left, slowed>>

\* Mutant: a poll does not take the tick from the channel.
PollAgain ==
  /\ pc = "waiting"
  /\ tick
  /\ pc' = "asking"
  /\ credit' = credit - interval
  /\ UNCHANGED <<left, interval, due, tick, slowed>>

\* Mutant: every poll gets a timeout of its own.
PollRenews ==
  /\ pc = "waiting"
  /\ tick
  /\ tick' = FALSE
  /\ pc' = "asking"
  /\ credit' = credit - interval
  /\ left' = Timeout
  /\ UNCHANGED <<interval, due, slowed>>

Poll ==
  /\ pc = "waiting"
  /\ tick
  /\ tick' = FALSE
  /\ pc' = "asking"
  /\ credit' = credit - interval
  /\ UNCHANGED <<left, interval, due, slowed>>

\* authorization_pending, or a request that failed on the way.
KeepPolling ==
  /\ pc = "asking"
  /\ pc' = "waiting"
  /\ UNCHANGED <<left, ticker, slowed, credit>>

SlowDown ==
  /\ pc = "asking"
  /\ slowed < MaxSlowDowns
  /\ slowed' = slowed + 1
  /\ SetTicker(interval + Increment)
  /\ pc' = "waiting"
  /\ UNCHANGED left

\* A token, or an answer that ends the login (expired_token, declined, any
\* other error, a body that cannot be read).
Decided ==
  /\ pc = "asking"
  /\ pc' \in {"granted", "failed"}
  /\ UNCHANGED <<left, ticker, slowed, credit>>

TimedOut ==
  /\ pc = "waiting"
  /\ left = 0
  /\ pc' = "failed"
  /\ UNCHANGED <<left, ticker, slowed, credit>>

Answered == KeepPolling \/ SlowDown \/ Decided

Cancel ==
  /\ pc \in {"code", "waiting", "asking"}
  /\ left > 0
  /\ left' = 0
  /\ UNCHANGED <<pc, ticker, slowed, credit>>

\* A unit of time passes, for the timeout and for a ticker that runs.
Elapse ==
  /\ pc \in {"code", "waiting", "asking"}
  /\ left' = AtLeast(1, left) - 1
  /\ IF pc = "code"
       THEN UNCHANGED <<due, tick, credit>>
       ELSE /\ due' = IF due = 1 THEN interval ELSE due - 1
            /\ tick' = (tick \/ due = 1)
            /\ credit' = AtMost(interval + interval, credit + 1)
  /\ UNCHANGED <<pc, interval, slowed>>

-----------------------------------------------------------------------------

Init ==
  /\ pc = "code"
  /\ left = Timeout
  /\ interval = MinInterval
  /\ due = MinInterval
  /\ tick = FALSE
  /\ slowed = 0
  /\ credit = 0

Next == \/ RequestDeviceCode \/ Poll \/ KeepPolling \/ SlowDown \/ Decided
        \/ TimedOut \/ Cancel \/ Elapse

Spec == Init /\ [][Next]_vars

-----------------------------------------------------------------------------
(* Properties.                                                             *)

\* Every variable keeps its shape, and the ticker runs at the interval.
TypeOK ==
  /\ pc \in {"code", "waiting", "asking", "granted", "failed"}
  /\ left \in 0..Timeout
  /\ interval \in Nat /\ interval >= MinInterval
  /\ due \in 1..interval
  /\ tick \in BOOLEAN
  /\ slowed \in 0..MaxSlowDowns
  /\ credit \in 0..(interval + interval)

\* What the ticker owes was earned: the invariant behind Paced.
Earned == (IF tick THEN interval ELSE 0) + (interval - due) <= credit

\* On average the polls keep the interval, and after a slow_down the first
\* one waits for all of the increased interval: each poll spends one interval
\* of the time since the ticker was reset, and only one can be saved up.
Paced == [][Poll => credit >= interval]_vars
=============================================================================
