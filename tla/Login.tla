-------------------------------- MODULE Login --------------------------------
(***************************************************************************)
(* A login in CLI mode from end to end: LoginFlow up to the device code,   *)
(* and DevicePoll, which starts when the flow comes to it by choice or as  *)
(* a fallback. Both share the caller's context: what is left of it when    *)
(* the fallback begins is what the device code has.                        *)
(*                                                                         *)
(* The variables of DevicePoll are those it declares, with pc where the    *)
(* device code flow is; those of LoginFlow follow, with step for its pc.   *)
(***************************************************************************)
EXTENDS DevicePoll

VARIABLES site, typed, request, step, implicit, browser, callback, paste,
          failure, prompt, pasted, live, expired, cancelled

F == INSTANCE LoginFlow WITH pc <- step

flow == <<site, typed, request, step, implicit, browser, callback, paste,
          failure, prompt, pasted, live, expired, cancelled>>

loginVars == <<vars, flow>>

-----------------------------------------------------------------------------

\* Mutant: a fallback has a context of its own.
DeviceContextFresh == UNCHANGED vars

\* deviceCodeLogin derives its context, with a timeout that starts here, from
\* the caller's: when that is done, so is the derived one.
DeviceContext ==
  /\ left' = IF step' = "device" /\ cancelled THEN 0 ELSE left
  /\ UNCHANGED <<pc, ticker, slowed, credit>>

\* The steps of LoginFlow but its device login.
FlowStep == step # "device" /\ F!Login /\ DeviceContext

Goroutine == F!Goroutine /\ UNCHANGED vars

Around == (F!HostReturns \/ F!CallbackArrives \/ F!TimerFires \/ F!Cancel) /\ UNCHANGED vars

\* The steps of DevicePoll.
DeviceStep == step = "device" /\ Next /\ UNCHANGED flow

\* A device login ends as the polling did, unless what it got cannot be
\* stored or read.
DeviceEnds ==
  /\ pc \in {"granted", "failed"}
  /\ F!DeviceLogin
  /\ pc = "failed" => step' = "failed"
  /\ UNCHANGED vars

LoginInit == Init /\ F!Init

LoginNext == FlowStep \/ Goroutine \/ Around \/ DeviceStep \/ DeviceEnds

LoginSpec == LoginInit /\ [][LoginNext]_loginVars

InDevice(A) == step = "device" /\ A /\ UNCHANGED flow

\* The fairness of both: the login, its timers and its requests go on, the
\* prompt returns once its context is done.
FairLoginSpec ==
  /\ LoginSpec
  /\ WF_loginVars(FlowStep) /\ WF_loginVars(DeviceEnds)
  /\ WF_loginVars(F!TimerFires /\ UNCHANGED vars)
  /\ WF_loginVars(~(live /\ ~cancelled) /\ F!HostRefuses /\ UNCHANGED vars)
  /\ WF_loginVars(F!SendPaste /\ UNCHANGED vars)
  /\ WF_loginVars(InDevice(Elapse)) /\ WF_loginVars(InDevice(RequestDeviceCode))
  /\ WF_loginVars(InDevice(Answered)) /\ SF_loginVars(InDevice(TimedOut))

-----------------------------------------------------------------------------
(* Properties.                                                             *)

\* Of LoginFlow, where it is stated in full: a login nobody typed a flow for
\* does not wait on a headless machine for a callback that cannot arrive.
NeverStranded == F!NeverStranded

\* Of LoginFlow as well: nor does it after its browser failed to open.
NeverStrandedLate == F!NeverStrandedLate

\* A login that can wait for its callback keeps waiting for it: it turns into
\* a device code only when the flow was not the user's choice and no browser
\* can be used. A typed interactive flow is kept, except in the headless
\* paste-back session where it cannot be told from the host's choice.
FallsBackWhenStuck ==
  [][step' = "device" /\ F!ChosenFlow # "device_code"
     => /\ site.headless \/ browser' = "failed"
        /\ typed = "interactive" => site.headless /\ site.pasteBack]_loginVars

\* A cancelled login does not show a device code, although a prompt that
\* fails because it was cancelled may send it to the fallback, and although
\* the fallback's timeout starts anew.
CancelledStaysSilent ==
  [][cancelled /\ pc = "code" => pc' # "waiting"]_loginVars

\* Every login ends, whatever the user, the host and the provider do: by the
\* timer of one flow, or the deadline of the other after it.
EveryLoginEnds == <>F!Ended

\* The prompt does not outlive the login that opened it: neither a paste nor
\* an error nobody receives any more blocks its goroutine.
PromptEnds == F!PromptEnds
=============================================================================
