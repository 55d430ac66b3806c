------------------------------ MODULE LoginProofs -----------------------------
(***************************************************************************)
(* Theorems about Login: it runs both its parts as they specify, so that   *)
(* what is proved of the polling holds in every login, and a login does    *)
(* not wait where it cannot be answered.                                   *)
(***************************************************************************)
EXTENDS Login, DevicePollProofs, Sequences

Steps == {"start", "credential", "interactive", "serve", "browse", "prompt", "waiting",
          "exchange", "device", "signed_in", "validated", "failed"}

\* The login and its site keep their shape; what the site offers does not
\* change.
FlowTypes ==
  /\ site \in F!Site /\ typed \in F!Flow \union {F!None, "unsupported"}
  /\ request \in F!Requested(site, typed)
  /\ step \in Steps
  /\ implicit \in BOOLEAN /\ failure \in BOOLEAN /\ live \in BOOLEAN
  /\ expired \in BOOLEAN /\ cancelled \in BOOLEAN
  /\ browser \in {"unopened", "opened", "failed"}
  /\ prompt \in {"none", "asking", "sending", "ended"}

OnTheWay == {"interactive", "serve", "browse", "prompt", "waiting"}

\* How the login came to where it is.
Way ==
  /\ step # "start" => implicit = F!CountsAsImplicit
  /\ step \in OnTheWay => F!ChosenFlow = "interactive"
  /\ step \in {"serve", "browse", "prompt", "waiting"} =>
       ~(implicit /\ site.headless /\ ~site.pasteBack)
  /\ step \in {"prompt", "waiting"} => ~(browser = "failed" /\ F!BrowserRequired)
  /\ step = "waiting" => live
  /\ step \in {"start", "credential", "interactive", "serve", "browse", "prompt"} =>
       prompt = "none" /\ ~failure /\ ~cancelled
  /\ step \in {"start", "credential", "interactive", "serve", "browse"} =>
       browser = "unopened"

\* What the prompt has and what became of it.
Prompting ==
  /\ prompt = "sending" => pasted # F!None
  /\ failure => F!PromptRequired
  /\ step = "waiting" /\ site.host /\ F!PromptRequired =>
       \/ prompt \in {"asking", "sending"} \/ paste # F!None \/ failure \/ cancelled

\* Why a device code is shown that was not chosen.
Fallen ==
  step = "device" /\ F!ChosenFlow # "device_code" =>
    /\ site.headless \/ browser = "failed"
    /\ typed = "interactive" => site.headless /\ site.pasteBack

\* The polling has not begun before the login comes to it, and a cancelled
\* login leaves it no time.
Handover ==
  /\ left \in Nat
  /\ step \notin {"device", "signed_in", "failed"} => pc = "code"
  /\ step = "device" /\ cancelled => left = 0

FlowPart == FlowTypes /\ Way /\ Prompting /\ Fallen

LInv == FlowPart /\ Handover

-----------------------------------------------------------------------------
(* The parts.                                                              *)

\* A login takes the steps of LoginFlow only.
LEMMA StepOfFlow == [LoginNext]_loginVars => [F!Next]_(F!vars)
<1>1. FlowStep => F!Next
  BY DEF FlowStep, F!Next
<1>2. Goroutine \/ Around => F!Next
  BY DEF Goroutine, Around, F!Next
<1>3. DeviceStep => UNCHANGED F!vars
  BY DEF DeviceStep, flow, F!vars
<1>4. DeviceEnds => F!Next
  BY DEF DeviceEnds, F!Next, F!Login
<1>5. UNCHANGED loginVars => UNCHANGED F!vars
  BY DEF loginVars, flow, F!vars
<1> QED BY <1>1, <1>2, <1>3, <1>4, <1>5 DEF LoginNext

\* A login refines the flow it is built from.
THEOREM RefinesLoginFlow == LoginSpec => F!Spec
<1>1. LoginInit => F!Init
  BY DEF LoginInit
<1> QED BY <1>1, StepOfFlow, PTL DEF LoginSpec, F!Spec

\* What the site and the request decide stays decided.
LEMMA Decision ==
  ASSUME FlowTypes, UNCHANGED <<site, typed, request>>
  PROVE  /\ F!ChosenFlow' = F!ChosenFlow
         /\ F!CountsAsImplicit' = F!CountsAsImplicit /\ F!CountsAsImplicit \in BOOLEAN
         /\ site' \in F!Site /\ typed' \in F!Flow \union {F!None, "unsupported"}
         /\ request' \in F!Requested(site', typed')
         /\ UNCHANGED <<site, typed, request>>
<1>1. site.headless \in BOOLEAN /\ site.pasteBack \in BOOLEAN
  BY DEF FlowTypes, F!Site
<1> QED BY <1>1 DEF FlowTypes, F!ChosenFlow, F!CountsAsImplicit, F!PreferredFlow

\* A typed interactive flow counts as implicit in the paste-back session only.
LEMMA TypedFlow ==
  ASSUME FlowTypes, typed = "interactive", F!CountsAsImplicit
  PROVE  site.headless /\ site.pasteBack
BY DEF FlowTypes, F!CountsAsImplicit, F!Requested, F!None

\* The steps up to the select.
LEMMA BeforeWaiting ==
  ASSUME FlowPart,
         \/ F!Dispatch \/ F!CredentialLogin \/ F!Interactive \/ F!StartCallbackServer
         \/ F!OpenBrowser \/ F!StartPrompt
  PROVE  FlowPart'
<1>0. /\ FlowTypes /\ Way /\ Prompting /\ Fallen
      /\ UNCHANGED <<site, typed, request, callback, expired, cancelled>>
  BY DEF FlowPart, F!Dispatch, F!CredentialLogin, F!Interactive, F!StartCallbackServer,
     F!OpenBrowser, F!StartPrompt, F!fixed, F!env
<1>d. /\ F!ChosenFlow' = F!ChosenFlow
      /\ F!CountsAsImplicit' = F!CountsAsImplicit /\ F!CountsAsImplicit \in BOOLEAN
      /\ site' \in F!Site /\ typed' \in F!Flow \union {F!None, "unsupported"}
      /\ request' \in F!Requested(site', typed')
  BY <1>0, Decision
<1>1. CASE F!Dispatch
  BY <1>0, <1>1, <1>d
     DEF F!Dispatch, F!fixed, F!ask, F!env, FlowPart, FlowTypes, Way, Prompting, Fallen,
         Steps, OnTheWay, F!PromptRequired, F!BrowserRequired
<1>2. CASE F!CredentialLogin
  BY <1>0, <1>2, <1>d
     DEF F!CredentialLogin, F!fixed, F!ask, F!env, FlowPart, FlowTypes, Way, Prompting, Fallen,
         Steps, OnTheWay, F!PromptRequired, F!BrowserRequired
<1>3. CASE F!Interactive
  BY <1>0, <1>3, <1>d, TypedFlow
     DEF F!Interactive, F!fixed, F!ask, F!env, FlowPart, FlowTypes, Way, Prompting, Fallen,
         Steps, OnTheWay, F!PromptRequired, F!BrowserRequired
<1>4. CASE F!StartCallbackServer
  BY <1>0, <1>4, <1>d
     DEF F!StartCallbackServer, F!fixed, F!ask, F!env, FlowPart, FlowTypes, Way, Prompting, Fallen,
         Steps, OnTheWay, F!PromptRequired, F!BrowserRequired
<1>5. CASE F!OpenBrowser
  BY <1>0, <1>5, <1>d, TypedFlow
     DEF F!OpenBrowser, F!fixed, F!ask, F!env, FlowPart, FlowTypes, Way, Prompting, Fallen,
         Steps, OnTheWay, F!PromptRequired, F!BrowserRequired
<1>6. CASE F!StartPrompt
  BY <1>0, <1>6, <1>d
     DEF F!StartPrompt, F!fixed, F!ask, F!env, FlowPart, FlowTypes, Way, Prompting, Fallen,
         Steps, OnTheWay, F!PromptRequired, F!BrowserRequired
<1> QED BY <1>1, <1>2, <1>3, <1>4, <1>5, <1>6

\* The select, and what follows it.
LEMMA FromWaiting ==
  ASSUME FlowPart, F!Select \/ F!Exchange \/ F!DeviceLogin
  PROVE  FlowPart'
<1>0. /\ FlowTypes /\ Way /\ Prompting /\ Fallen
      /\ UNCHANGED <<site, typed, request>>
  BY DEF FlowPart, F!Select, F!TakeCallback, F!TakePaste, F!TakeFailure, F!TakeTimeout, F!Leave,
     F!Exchange, F!DeviceLogin, F!fixed
<1>d. /\ F!ChosenFlow' = F!ChosenFlow
      /\ F!CountsAsImplicit' = F!CountsAsImplicit /\ F!CountsAsImplicit \in BOOLEAN
      /\ site' \in F!Site /\ typed' \in F!Flow \union {F!None, "unsupported"}
      /\ request' \in F!Requested(site', typed')
  BY <1>0, Decision
<1>e. F!Exchanged(callback) \in {"exchange", "failed"} /\ F!Exchanged(paste) \in {"exchange", "failed"}
  BY DEF F!Exchanged
<1>1. CASE F!TakeCallback
  BY <1>0, <1>1, <1>d, <1>e
     DEF F!TakeCallback, F!Leave, F!fixed, FlowPart, FlowTypes, Way, Prompting, Fallen,
         Steps, OnTheWay, F!PromptRequired, F!BrowserRequired
<1>4. CASE F!TakePaste
  BY <1>0, <1>4, <1>d, <1>e
     DEF F!TakePaste, F!Leave, F!fixed, FlowPart, FlowTypes, Way, Prompting, Fallen,
         Steps, OnTheWay, F!PromptRequired, F!BrowserRequired
<1>5. CASE F!TakeTimeout
  BY <1>0, <1>5, <1>d, <1>e
     DEF F!TakeTimeout, F!Leave, F!fixed, FlowPart, FlowTypes, Way, Prompting, Fallen,
         Steps, OnTheWay, F!PromptRequired, F!BrowserRequired
<1>2. CASE F!TakeFailure
  BY <1>0, <1>2, <1>d, TypedFlow
     DEF F!TakeFailure, F!Leave, F!fixed, FlowPart, FlowTypes, Way,
         Prompting, Fallen, Steps, OnTheWay, F!PromptRequired, F!BrowserRequired
<1>3. CASE F!Exchange \/ F!DeviceLogin
  BY <1>0, <1>3, <1>d
     DEF F!Exchange, F!DeviceLogin, F!fixed, F!ask, F!env, FlowPart, FlowTypes, Way,
         Prompting, Fallen, Steps, OnTheWay, F!PromptRequired, F!BrowserRequired
<1> QED BY <1>1, <1>2, <1>3, <1>4, <1>5 DEF F!Select

\* The prompt, the user's browser, the clock and the caller.
LEMMA Alongside ==
  ASSUME FlowPart,
         \/ F!HostReturns \/ F!HostRefuses \/ F!SendPaste
         \/ F!CallbackArrives \/ F!TimerFires \/ F!Cancel
  PROVE  FlowPart'
<1>0. /\ FlowTypes /\ Way /\ Prompting /\ Fallen
      /\ UNCHANGED <<site, typed, request, step, implicit, browser, live>>
  BY DEF FlowPart, F!HostReturns, F!HostRefuses, F!SendPaste, F!CallbackArrives, F!TimerFires,
     F!Cancel, F!login, F!world, F!fixed
<1>d. /\ F!ChosenFlow' = F!ChosenFlow
      /\ F!CountsAsImplicit' = F!CountsAsImplicit /\ F!CountsAsImplicit \in BOOLEAN
      /\ site' \in F!Site /\ typed' \in F!Flow \union {F!None, "unsupported"}
      /\ request' \in F!Requested(site', typed')
  BY <1>0, Decision
<1>1. CASE F!HostReturns
  BY <1>0, <1>1, <1>d
     DEF F!HostReturns, F!Answer, F!None, F!login, F!env, FlowPart, FlowTypes, Way, Prompting, Fallen,
         Steps, OnTheWay, F!PromptRequired, F!BrowserRequired
<1>2. CASE F!HostRefuses
  BY <1>0, <1>2, <1>d
     DEF F!HostRefuses, F!login, F!env, FlowPart, FlowTypes, Way, Prompting, Fallen,
         Steps, OnTheWay, F!PromptRequired, F!BrowserRequired
<1>3. CASE F!SendPaste
  BY <1>0, <1>3, <1>d
     DEF F!SendPaste, F!login, F!env, FlowPart, FlowTypes, Way, Prompting, Fallen,
         Steps, OnTheWay, F!PromptRequired, F!BrowserRequired
<1>4. CASE F!CallbackArrives
  BY <1>0, <1>4, <1>d
     DEF F!CallbackArrives, F!world, F!ask, FlowPart, FlowTypes, Way, Prompting,
         Fallen, Steps, OnTheWay, F!PromptRequired, F!BrowserRequired
<1>5. CASE F!TimerFires
  BY <1>0, <1>5, <1>d
     DEF F!TimerFires, F!world, F!ask, FlowPart, FlowTypes, Way, Prompting,
         Fallen, Steps, OnTheWay, F!PromptRequired, F!BrowserRequired
<1>6. CASE F!Cancel
  BY <1>0, <1>6, <1>d
     DEF F!Cancel, F!world, F!ask, FlowPart, FlowTypes, Way, Prompting,
         Fallen, Steps, OnTheWay, F!PromptRequired, F!BrowserRequired
<1> QED BY <1>1, <1>2, <1>3, <1>4, <1>5, <1>6

-----------------------------------------------------------------------------
(* Every step keeps the invariant.                                         *)

\* Where a login is when it takes a step of LoginFlow, and what it leaves.
LEMMA LoginFacts ==
  ASSUME F!Login, step # "device"
  PROVE  step \notin {"signed_in", "validated", "failed"} /\ cancelled' = cancelled
BY DEF F!Login, F!Dispatch, F!CredentialLogin, F!Interactive, F!StartCallbackServer, F!OpenBrowser,
   F!StartPrompt, F!Select, F!TakeCallback, F!TakePaste, F!TakeFailure, F!TakeTimeout, F!Leave,
   F!Exchange, F!DeviceLogin, F!env

LEMMA StepHandover ==
  ASSUME Handover, LoginNext
  PROVE  Handover'
<1>1. CASE FlowStep
  <2>1. step \notin {"device", "signed_in", "failed"} /\ cancelled' = cancelled
    BY <1>1, LoginFacts DEF FlowStep
  <2>2. pc' = pc /\ left' = IF step' = "device" /\ cancelled THEN 0 ELSE left
    BY <1>1 DEF FlowStep, DeviceContext
  <2> QED BY <2>1, <2>2 DEF Handover
<1>2. CASE Goroutine
  BY <1>2 DEF Goroutine, F!Goroutine, F!HostRefuses, F!SendPaste, F!login, F!env, vars, Handover
<1>3. CASE Around
  BY <1>3 DEF Around, F!HostReturns, F!CallbackArrives, F!TimerFires, F!Cancel, F!login, F!world,
     F!env, vars, Handover
<1>4. CASE DeviceStep
  <2>1. step = "device" /\ Next /\ UNCHANGED <<step, cancelled>>
    BY <1>4 DEF DeviceStep, flow
  <2>2. left' \in Nat /\ (left = 0 => left' = 0)
    BY <2>1 DEF Handover, Next, RequestDeviceCode, Poll, KeepPolling, SlowDown, Decided, TimedOut, Cancel,
       Elapse, AtLeast
  <2> QED BY <2>1, <2>2 DEF Handover
<1>5. CASE DeviceEnds
  BY <1>5 DEF DeviceEnds, F!DeviceLogin, F!env, vars, Handover
<1> QED BY <1>1, <1>2, <1>3, <1>4, <1>5 DEF LoginNext

LEMMA StepFlowPart ==
  ASSUME FlowPart, [F!Next]_(F!vars)
  PROVE  FlowPart'
<1>1. CASE F!Login
  BY <1>1, BeforeWaiting, FromWaiting DEF F!Login
<1>2. CASE F!HostReturns \/ F!Goroutine \/ F!CallbackArrives \/ F!TimerFires \/ F!Cancel
  BY <1>2, Alongside DEF F!Goroutine
<1>3. CASE UNCHANGED F!vars
  <2>1. UNCHANGED <<site, typed, request, step, implicit, browser, callback, paste,
                    failure, prompt, pasted, live, expired, cancelled>>
    BY <1>3 DEF F!vars
  <2>2. F!ChosenFlow' = F!ChosenFlow /\ F!CountsAsImplicit' = F!CountsAsImplicit
    BY <2>1, Decision DEF FlowPart
  <2> QED BY <2>1, <2>2 DEF FlowPart, FlowTypes, Way, Prompting, Fallen,
     F!PromptRequired, F!BrowserRequired
<1> QED BY <1>1, <1>2, <1>3 DEF F!Next

LEMMA InitLInv == LoginInit => LInv
<1> SUFFICES ASSUME LoginInit PROVE LInv
  OBVIOUS
<1>1. FlowPart
  BY DEF LoginInit, F!Init, F!None, FlowPart, FlowTypes, Way, Prompting, Fallen, Steps, OnTheWay
<1>2. Handover
  BY PollAssumption DEF LoginInit, F!Init, Init, Handover
<1> QED BY <1>1, <1>2 DEF LInv

LEMMA StepLInv == LInv /\ [LoginNext]_loginVars => LInv'
<1> SUFFICES ASSUME LInv, [LoginNext]_loginVars PROVE LInv'
  OBVIOUS
<1>1. FlowPart'
  BY StepOfFlow, StepFlowPart DEF LInv
<1>2. CASE LoginNext
  BY <1>1, <1>2, StepHandover DEF LInv
<1>3. CASE UNCHANGED loginVars
  <2>1. Handover'
    BY <1>3 DEF LInv, Handover, loginVars, vars, flow
  <2> QED BY <1>1, <2>1 DEF LInv
<1> QED BY <1>2, <1>3

THEOREM Invariance == LoginSpec => []LInv
BY InitLInv, StepLInv, PTL DEF LoginSpec

-----------------------------------------------------------------------------
(* The polling, in a login.                                                *)

\* A login takes the steps of DevicePoll only: a cancelled one that comes to
\* the device code is cancelled before the code is requested.
LEMMA StepOfPoll == LInv /\ [LoginNext]_loginVars => [Next]_vars
<1> SUFFICES ASSUME LInv, [LoginNext]_loginVars PROVE Next \/ UNCHANGED vars
  OBVIOUS
<1>1. CASE FlowStep
  <2>1. pc = "code"
    BY <1>1, LoginFacts DEF FlowStep, LInv, Handover
  <2>2. /\ left' = IF step' = "device" /\ cancelled THEN 0 ELSE left
        /\ UNCHANGED <<pc, ticker, slowed, credit>>
    BY <1>1 DEF FlowStep, DeviceContext
  <2>3. left \in Nat
    BY DEF LInv, Handover
  <2> QED BY <2>1, <2>2, <2>3 DEF Next, Cancel, vars, ticker
<1>2. CASE Goroutine \/ Around \/ DeviceEnds
  BY <1>2 DEF Goroutine, Around, DeviceEnds
<1>3. CASE DeviceStep
  BY <1>3 DEF DeviceStep
<1>4. CASE UNCHANGED loginVars
  BY <1>4 DEF loginVars
<1> QED BY <1>1, <1>2, <1>3, <1>4 DEF LoginNext

\* A login refines the polling it is built from.
THEOREM RefinesDevicePoll == LoginSpec => Spec
<1>1. LoginInit => Init
  BY DEF LoginInit
<1> QED BY <1>1, StepOfPoll, Invariance, PTL DEF LoginSpec, Spec

\* Whatever came before the device code: what the ticker owes was earned.
THEOREM LoginTicksEarned == LoginSpec => []Earned
BY RefinesDevicePoll, TicksEarned, PTL

\* Whatever came before the device code: every poll spends a full interval.
THEOREM LoginPaced == LoginSpec => Paced
BY RefinesDevicePoll, PollsPaced, PTL

\* A cancelled login does not show a device code.
THEOREM StaysSilent == LoginSpec => CancelledStaysSilent
<1>1. LInv /\ [LoginNext]_loginVars => [cancelled /\ pc = "code" => pc' # "waiting"]_loginVars
  <2> SUFFICES ASSUME LInv, LoginNext, cancelled, pc = "code"
               PROVE  pc' # "waiting"
    BY DEF loginVars, vars
  <2>1. CASE DeviceStep
    <3>1. step = "device" /\ left = 0 /\ Next
      BY <2>1 DEF DeviceStep, LInv, Handover
    <3> QED BY <3>1 DEF Next, RequestDeviceCode, Poll, KeepPolling, SlowDown, Decided, TimedOut,
       Cancel, Elapse
  <2>2. CASE ~DeviceStep
    BY <2>2 DEF LoginNext, FlowStep, DeviceContext, Goroutine, Around, DeviceEnds, vars
  <2> QED BY <2>1, <2>2
<1> QED BY <1>1, Invariance, PTL DEF LoginSpec, CancelledStaysSilent

-----------------------------------------------------------------------------
(* The flow.                                                               *)

\* Where an interactive login waits that nobody typed or that the request
\* does not name, its prompt is what ends the wait.
LEMMA WhereItWaits ==
  ASSUME LInv, step = "waiting", site.host,
         \/ typed = F!None /\ site.headless
         \/ request = F!None /\ browser = "failed"
  PROVE  prompt \in {"asking", "sending"} \/ paste # F!None \/ failure \/ cancelled
<1>0. /\ FlowTypes /\ Way /\ Prompting
      /\ implicit = F!CountsAsImplicit /\ F!ChosenFlow = "interactive"
      /\ ~(implicit /\ site.headless /\ ~site.pasteBack)
      /\ ~(browser = "failed" /\ F!BrowserRequired)
  BY DEF LInv, FlowPart, Way, OnTheWay
<1>1. CASE request = F!None
  <2>1. implicit
    BY <1>0, <1>1 DEF F!CountsAsImplicit
  <2> QED BY <1>0, <2>1 DEF Prompting, F!PromptRequired, F!BrowserRequired
<1>2. CASE request # F!None /\ typed = F!None /\ site.headless
  <2>1. request = "interactive" /\ request = Head(F!Detected(site))
    BY <1>0, <1>2 DEF FlowTypes, F!Requested, F!ChosenFlow
  <2>2. ~site.pasteBack => Head(F!Detected(site)) # "interactive"
    BY <1>2 DEF F!Detected
  <2>3. site.pasteBack /\ implicit
    BY <1>0, <1>2, <2>1, <2>2 DEF F!CountsAsImplicit
  <2> QED BY <1>0, <1>2, <2>3 DEF Prompting, F!PromptRequired
<1> QED BY <1>1, <1>2

\* A login nobody typed a flow for does not wait, where no browser can be
\* opened, for a callback that cannot arrive.
THEOREM NotStranded == LoginSpec => []NeverStranded
<1>1. LInv => NeverStranded
  BY WhereItWaits DEF NeverStranded, F!NeverStranded
<1> QED BY <1>1, Invariance, PTL

\* Nor does it after a browser that should have been there failed to open.
THEOREM NotStrandedLate == LoginSpec => []NeverStrandedLate
<1>1. LInv => NeverStrandedLate
  BY WhereItWaits DEF NeverStrandedLate, F!NeverStrandedLate
<1> QED BY <1>1, Invariance, PTL

\* A device code nobody chose is shown only where no browser can be used, and
\* not instead of an interactive flow that was typed.
THEOREM FallsBack == LoginSpec => FallsBackWhenStuck
<1>1. LInv /\ LInv' /\ [LoginNext]_loginVars =>
        [step' = "device" /\ F!ChosenFlow # "device_code"
           => /\ site.headless \/ browser' = "failed"
              /\ typed = "interactive" => site.headless /\ site.pasteBack]_loginVars
  <2> SUFFICES ASSUME LInv, LInv', [LoginNext]_loginVars, step' = "device",
                      F!ChosenFlow # "device_code"
               PROVE  /\ site.headless \/ browser' = "failed"
                      /\ typed = "interactive" => site.headless /\ site.pasteBack
    OBVIOUS
  <2>1. UNCHANGED <<site, typed, request>>
    BY StepOfFlow
       DEF F!Next, F!Login, F!Dispatch, F!CredentialLogin, F!Interactive, F!StartCallbackServer,
           F!OpenBrowser, F!StartPrompt, F!Select, F!TakeCallback, F!TakePaste, F!TakeFailure,
           F!TakeTimeout, F!Leave, F!Exchange, F!DeviceLogin, F!HostReturns, F!Goroutine,
           F!HostRefuses, F!SendPaste, F!CallbackArrives, F!TimerFires, F!Cancel, F!login, F!world,
           F!fixed, F!vars
  <2>2. F!ChosenFlow' = F!ChosenFlow
    BY <2>1, Decision DEF LInv, FlowPart
  <2>3. Fallen'
    BY DEF LInv, FlowPart
  <2> QED BY <2>1, <2>2, <2>3 DEF Fallen
<1> QED BY <1>1, Invariance, PTL DEF LoginSpec, FallsBackWhenStuck
=============================================================================
