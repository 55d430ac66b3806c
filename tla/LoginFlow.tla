------------------------------ MODULE LoginFlow ------------------------------
(***************************************************************************)
(* One login in CLI mode, from the request to its outcome: which flow it   *)
(* takes, the authorization-code flow with its three sources of an answer  *)
(* (the local callback, a redirect URL pasted through the host, a failed   *)
(* prompt), the timer and the cancellation, and the fallbacks to a device  *)
(* code. The prompt runs in a goroutine of its own, which outlives the     *)
(* select that may no longer listen to it.                                 *)
(*                                                                         *)
(* What a login stores is CliSession's; how a device code is polled is     *)
(* DevicePoll's; both are a single step here. Login composes this module   *)
(* with DevicePoll, and checks its properties there.                       *)
(***************************************************************************)
EXTENDS Sequences

None == "none"
UserFlow == {"interactive", "device_code"}
Flow == {"workload_identity", "service_principal"} \union UserFlow
Answer == {"code", "error"}

\* Where the plugin runs: which credentials are configured, the configured
\* default flow, whether there is no display, and what the host offers.
Site == [wi : BOOLEAN, sp : BOOLEAN, defaultFlow : Flow \union {None},
         headless : BOOLEAN, pasteBack : BOOLEAN, host : BOOLEAN]

VARIABLES
  site,      \* the site, which does not change during the login
  typed,     \* the flow the user asked for, if any
  request,   \* the flow in the request; the host may have chosen it
  pc,        \* where the login is
  implicit,  \* TRUE when the flow counts as not chosen by the user
  browser,   \* whether the browser could be opened
  callback,  \* the callback server's channel
  paste,     \* the goroutine's channel for a pasted URL
  failure,   \* TRUE when its channel for an error is full
  prompt,    \* the goroutine
  pasted,    \* what the host's prompt returned to it
  live,      \* FALSE once the prompt's context is cancelled by the login
  expired,   \* TRUE when the timer has fired
  cancelled  \* TRUE when the caller has cancelled the call

ask    == <<prompt, pasted, paste, failure>>
env    == <<callback, expired, cancelled>>
fixed  == <<site, typed, request>>
vars   == <<site, typed, request, pc, implicit, browser, callback, paste,
            failure, prompt, pasted, live, expired, cancelled>>

Ended == pc \in {"signed_in", "validated", "failed"}

-----------------------------------------------------------------------------
(* Choosing the flow.                                                      *)

PreferredFlow(s) == IF s.defaultFlow \in UserFlow THEN s.defaultFlow ELSE "interactive"

\* The available flows, in the order DetectAvailableFlows reports them.
Detected(s) ==
  (IF s.wi THEN <<"workload_identity">> ELSE <<>>)
  \o (IF s.sp THEN <<"service_principal">> ELSE <<>>)
  \o (IF PreferredFlow(s) = "interactive" /\ (~s.headless \/ s.pasteBack)
        THEN <<"interactive", "device_code">>
        ELSE <<"device_code", "interactive">>)

\* A typed flow is passed on. Without one the host passes none, or the first
\* it finds available.
Requested(s, t) == IF t # None THEN {t} ELSE {None, Head(Detected(s))}

ChosenFlow == IF request # None THEN request
              ELSE IF site.wi THEN "workload_identity"
              ELSE IF site.sp THEN "service_principal"
              ELSE PreferredFlow(site)

\* Mutant: only a request without a flow counts as implicit.
CountsAsImplicitStrict == request = None

CountsAsImplicit == request = None \/ (site.headless /\ site.pasteBack)

Dispatch ==
  /\ pc = "start"
  /\ pc' = CASE ChosenFlow = "interactive" -> "interactive"
             [] ChosenFlow = "device_code" -> "device"
             [] ChosenFlow = "unsupported" -> "failed"
             [] OTHER                      -> "credential"
  /\ implicit' = CountsAsImplicit
  /\ UNCHANGED <<fixed, browser, ask, live, env>>

\* Without credentials, with several scopes, or when the provider refuses,
\* the login fails; otherwise they were validated, and nothing is stored.
Configured == IF ChosenFlow = "workload_identity" THEN site.wi ELSE site.sp

CredentialLogin ==
  /\ pc = "credential"
  /\ \/ Configured /\ pc' = "validated"
     \/ pc' = "failed"
  /\ UNCHANGED <<fixed, implicit, browser, ask, live, env>>

-----------------------------------------------------------------------------
(* The authorization-code flow.                                            *)

BrowserRequired == implicit /\ ~site.pasteBack

\* Mutant: a browser that fails to open later is not considered.
PromptRequiredUpFront == implicit /\ site.pasteBack /\ site.headless

PromptRequired ==
  implicit /\ site.pasteBack /\ (site.headless \/ browser = "failed")

\* Mutant: every login falls back on a headless session.
InteractiveAlwaysFallsBack ==
  /\ pc = "interactive"
  /\ pc' = IF site.headless /\ ~site.pasteBack THEN "device" ELSE "serve"
  /\ UNCHANGED <<fixed, implicit, browser, ask, live, env>>

Interactive ==
  /\ pc = "interactive"
  /\ pc' = IF implicit /\ site.headless /\ ~site.pasteBack THEN "device" ELSE "serve"
  /\ UNCHANGED <<fixed, implicit, browser, ask, live, env>>

StartCallbackServer ==
  /\ pc = "serve"
  /\ pc' \in {"browse", "failed"}
  /\ UNCHANGED <<fixed, implicit, browser, ask, live, env>>

OpenBrowser ==
  /\ pc = "browse"
  /\ browser' \in {"opened", "failed"}
  /\ pc' = IF browser' = "failed" /\ BrowserRequired THEN "device" ELSE "prompt"
  /\ UNCHANGED <<fixed, implicit, ask, live, env>>

StartPrompt ==
  /\ pc = "prompt"
  /\ pc' = "waiting"
  /\ prompt' = IF site.host THEN "asking" ELSE "none"
  /\ live' = TRUE
  /\ UNCHANGED <<fixed, implicit, browser, pasted, paste, failure, env>>

\* Mutant: the prompt is not released.
LeaveOpen(to) ==
  /\ pc = "waiting"
  /\ pc' = to
  /\ UNCHANGED <<fixed, implicit, browser, prompt, pasted, live, expired, cancelled>>

\* The login leaves the select, and releases the prompt.
Leave(to) ==
  /\ pc = "waiting"
  /\ pc' = to
  /\ live' = FALSE
  /\ UNCHANGED <<fixed, implicit, browser, prompt, pasted, expired, cancelled>>

Exchanged(answer) == IF answer = "code" THEN "exchange" ELSE "failed"

TakeCallback ==
  /\ callback # None
  /\ Leave(Exchanged(callback))
  /\ callback' = None
  /\ UNCHANGED <<paste, failure>>

TakePaste ==
  /\ paste # None
  /\ Leave(Exchanged(paste))
  /\ paste' = None
  /\ UNCHANGED <<callback, failure>>

TakeFailure ==
  /\ failure
  /\ Leave("device")
  /\ failure' = FALSE
  /\ UNCHANGED <<callback, paste>>

TakeTimeout ==
  /\ expired \/ cancelled
  /\ Leave("failed")
  /\ UNCHANGED <<callback, paste, failure>>

Select == TakeCallback \/ TakePaste \/ TakeFailure \/ TakeTimeout

\* The code is exchanged and the session stored, or one of the two fails.
Exchange ==
  /\ pc = "exchange"
  /\ pc' \in {"signed_in", "failed"}
  /\ UNCHANGED <<fixed, implicit, browser, ask, live, env>>

DeviceLogin ==
  /\ pc = "device"
  /\ pc' \in {"signed_in", "failed"}
  /\ UNCHANGED <<fixed, implicit, browser, ask, live, env>>

-----------------------------------------------------------------------------
(* The prompt goroutine.                                                   *)

login == <<fixed, pc, implicit, browser, live, env>>

\* The host returns what the user pasted: a URL with a code, or one that is
\* refused (another login's state, no code, an error).
HostReturns ==
  /\ prompt = "asking"
  /\ live /\ ~cancelled
  /\ prompt' = "sending"
  /\ pasted' \in Answer
  /\ UNCHANGED <<paste, failure, login>>

\* The host cannot prompt, or the prompt's context is done.
HostRefuses ==
  /\ prompt = "asking"
  /\ prompt' = "ended"
  /\ failure' = (failure \/ PromptRequired)
  /\ UNCHANGED <<pasted, paste, login>>

\* The channel has room for the one value there can be; once the context is
\* done as well, either case of the select may be taken.
SendPaste ==
  /\ prompt = "sending"
  /\ prompt' = "ended"
  /\ \/ paste' = pasted
     \/ ~(live /\ ~cancelled) /\ paste' = paste
  /\ pasted' = None
  /\ UNCHANGED <<failure, login>>

-----------------------------------------------------------------------------
(* The user's browser, the clock, the caller.                              *)

world == <<fixed, pc, implicit, browser, ask, live>>

\* The server answers the first redirect only.
CallbackArrives ==
  /\ pc \in {"prompt", "waiting"}
  /\ callback = None
  /\ callback' \in Answer
  /\ UNCHANGED <<world, expired, cancelled>>

TimerFires ==
  /\ pc = "waiting"
  /\ ~expired
  /\ expired' = TRUE
  /\ UNCHANGED <<world, callback, cancelled>>

Cancel ==
  /\ pc = "waiting"
  /\ ~cancelled
  /\ cancelled' = TRUE
  /\ UNCHANGED <<world, callback, expired>>

-----------------------------------------------------------------------------

Init ==
  /\ site \in Site
  /\ typed \in Flow \union {None, "unsupported"}
  /\ request \in Requested(site, typed)
  /\ pc = "start"
  /\ implicit = FALSE
  /\ browser = "unopened"
  /\ callback = None /\ paste = None /\ failure = FALSE
  /\ prompt = "none" /\ pasted = None /\ live = FALSE
  /\ expired = FALSE /\ cancelled = FALSE

Login == \/ Dispatch \/ CredentialLogin \/ Interactive \/ StartCallbackServer
         \/ OpenBrowser \/ StartPrompt \/ Select \/ Exchange \/ DeviceLogin
Goroutine == HostRefuses \/ SendPaste

Next == \/ Login \/ HostReturns \/ Goroutine
        \/ CallbackArrives \/ TimerFires \/ Cancel

Spec == Init /\ [][Next]_vars

-----------------------------------------------------------------------------
(* Properties.                                                             *)

\* A headless login whose flow nobody typed never waits for a callback that
\* cannot arrive: while it waits, the prompt is open, or what it returned or
\* its failure is about to be received ("instead of waiting out the
\* unreachable callback", cliMode.Login).
NeverStranded ==
  pc = "waiting" /\ typed = None /\ site.headless /\ site.host
    => \/ prompt \in {"asking", "sending"}
       \/ paste # None \/ failure \/ callback # None
       \/ cancelled

\* The same when a browser was expected and failed to open, for a request
\* that names no flow.
NeverStrandedLate ==
  pc = "waiting" /\ request = None /\ browser = "failed" /\ site.host
    => \/ prompt \in {"asking", "sending"}
       \/ paste # None \/ failure \/ callback # None
       \/ cancelled

\* The prompt does not outlive the login that opened it: neither a paste nor
\* an error nobody receives any more blocks its goroutine.
PromptEnds == Ended ~> prompt \in {"none", "ended"}
=============================================================================
