# A TLA+ model of the Entra authentication plugin

The plugin is a process the host (`scafctl`) starts and calls over gRPC: it
logs a user in to Microsoft Entra, keeps the session in the host's secret
store and hands out access tokens. These modules model the parts of it in
which several actors, failures or clocks meet, check them with TLC on small
instances, and prove the main facts with TLAPS for all instances.

Paths below are relative to `src/`; `entra/` is `src/internal/entra/`.

## 1. Inventory

| Component | State it keeps | Operations | Talks to |
|---|---|---|---|
| CLI-mode session (`entra/cli_mode.go`, `token.go`, `cache.go`, `auth_handler.go`) | three kinds of secrets in the host's store: refresh token, metadata, cached access tokens; no memory of its own, no lock | Login, Logout, GetStatus, GetToken, PurgeExpiredTokens, ListCachedTokens | host secret store (one RPC per secret), identity provider |
| Login flows (`entra/cli_mode.go`, `headless.go`, `authcode_flow.go`) | locals of one call: three channels, a timer, a prompt goroutine | flow choice, callback server, browser, paste-back prompt, fallback | host (prompt), browser, CLI session (what is stored) |
| Device code polling (`entra/device_flow.go`, `clock/clock.go`) | ticker, interval, deadline | request a code, poll, slow down | identity provider |
| LRU cache with TTL (`cache/ttlcache.go`) | map, list, RW lock, cleanup goroutine | Get, Set, Delete, Cleanup | used by the server-mode cache |
| Environment credentials (`entra/service_principal.go`, `workload_identity.go`) | none (environment, config, a token file) | resolve, login (validation), token with cache | CLI session's cache, identity provider |
| Server-mode token cache (`entra/servermode_cache.go`, `lruadapter.go`) | flights in progress, LRU store | `cachedFlow`: ordinary and forced requests, MinValidFor | go-flight manager, LRU |
| Server mode (`entra/server_mode*.go`, `config.go`) | configuration, cache, stop channel | GetToken by client credentials or on behalf of a user; every other operation is refused | token cache, identity provider |
| Lifecycle (`entra/auth_handler.go`, `mode.go`, `http.go`) | the active mode, config, clients | ConfigureAuthHandler, ActivateServerMode, StopAuthHandler | all of the above |
| Groups (`entra/groups.go`) | none | a user's token, then pagination over Graph | GetToken |
| Config, scopes, authorities; error texts and claims | none | validation, formatting, parsing | all of the above |

Where it is hard, and what makes each component correct:

* **CLI session.** The session is two secrets that are written and read one at
  a time, without a lock, by every call of every plugin process. A token
  request reads them twice (once to decide and to derive the cache key, once to
  mint), may write them (rotation) or delete them (revocation), and then writes
  a third secret. Correct means: the two secrets are of one login; a cached
  token is what its key says; nobody is served another user's token; a login
  repairs whatever crashes left; a logout leaves nothing; calls end.
* **Login flows.** Five events race in one `select` while a goroutine prompts
  the user. Correct means: every login ends; nobody waits for a callback that
  cannot arrive; a flow the user typed is not replaced; the goroutine ends.
* **Device polling.** A ticker with a one-tick buffer, slow answers,
  `slow_down`, a deadline. Correct means: the promised pace is kept and the
  deadline is seen.
* **LRU.** `Get` takes two locks one after the other. Correct means: map and
  list stay the same set, the capacity holds, reads are atomic, the cleanup
  drops what expired and stops when told.
* **Server-mode token cache.** Requests of many users run at once and share
  both cached tokens and requests in flight; a forced refresh runs beside an
  ordinary request for the same key, and a follower may leave a slow leader.
  Correct means: nobody gets another user's token, one request per key and kind,
  a refresh is not undone.
* **Lifecycle and environment credentials.** Settings come before the
  environment, field by field; both change (reconfiguration, restart, a token
  file that comes or goes) while the stored session and the cached tokens stay.
  Correct means: a token, from the cache as well, is of whoever `status`
  reports; a mode is only in force over what it needs; what is missing is named.
* **Groups.** Correct means: the precedence of status and tokens holds for it
  too. It does not, see section 3.

`PROJECT.json` lists every hazard with its line and the properties for it.

## 2. Modules

| Module | What it is |
|---|---|
| `CliSession` | the session, its calls as programs of single store accesses, and their properties |
| `UserSession` | what it promises, abstractly: at most one user is signed in, and every answer is about the identity in force |
| `LoginFlow` | one login: flow choice, authorization-code flow, fallbacks |
| `DevicePoll` | device code polling |
| `Login` | the composition of the two: a login from the request to its end |
| `Plugin` | the plugin between its calls: settings, environment, token files, modes, and for whom status and tokens answer |
| `LruCache`, `TtlMap` | the cache with its two-lock reads, and the map with expiry it implements |
| `ServerFlows` | operators: which server-mode settings are accepted, the strategies they give, routing and cache keys |
| `TokenCache` | concurrent token requests in server mode over the cache and its flights |
| `MC...` | the instances for TLC: which calls a slot may run, which settings, environments and requests there are |
| `...Proofs` | TLAPS proofs about the module they name; `OverlapProofs` are about `CliSession` when calls overlap |

Definitions whose comment begins with "Mutant" are deliberately wrong variants
of the definition that follows. No action uses them; replacing the definition
by its variant must make the named property fail, which shows that the property
depends on that piece of code.

### CliSession and the code

A call of the plugin occupies a slot `c \in Call`; `pc[c]` is the store access
or request it does next and `job[c]` holds its locals. The process holds no
other session state, so slots may equally be read as calls of several plugin
processes.

| Model | Code |
|---|---|
| `rt`, `meta` | the two secrets of `secretKey(...)`; `meta = None` also when the metadata is unreadable or of the legacy format (`loadMetadata`) |
| `cache`, `UserKey`, `EnvKey` | cached tokens under `tokenCachePrefix` + fingerprint (`userSessionFingerprint`, `getServicePrincipalToken`) |
| `Authenticate`, `AfterClear`, `PutRefreshToken`, `PutMetadata` | `performDeviceCodeFlow` / `authCodeLogin` after the provider's answer: `clearUserTokenCache`, then `storeCredentialsWithClaims` |
| `ListKeys`, `DeleteCached`, `ClearDone` | `cacheClear`: list once, delete one by one, skip failures |
| `DeleteRefreshToken`, `DeleteMetadata` | the rest of `logoutInternal`, of a logout or of a revocation in `mintToken` |
| `ValidRefreshToken`, `ValidMetadata` | `validStoredUserSession`, which `GetToken` and `GetStatus` ask first |
| `NoValidSession`, `SecretExists`, `StatusMetadata` | what they do without one |
| `CacheGet`, `MintRefreshToken`, `MintMetadata`, `Post*`, `Acquire`, `PutCache` | `userSessionToken` with `mintToken`, `getServicePrincipalToken`, `getWorkloadIdentityToken` |
| `Peek`, `Drop`, `PurgeDone` | `cachePurgeExpired` |
| `Fault`, `Crash` | a failing RPC to the store, unreadable claims in a login's ID token, a dying process or a cancelled call |
| `TokenAges`, `SessionExpires` | `ExpiresAt` of a cached token, which is `long` enough for every caller's `MinValidFor`, too `short` for some, or `expired` (only then the purge takes it), and the 90 days of the refresh token |

A login is identified with the session it creates: its session id, its user
and its refresh tokens are one value `s`, since each login gets a new session
id and what the properties compare is *whose* each secret is. Two logins of one
person are therefore two sessions. A rotated token stands for the same login.
One profile and one scope are modelled: they prefix and suffix every key alike.
Whether environment credentials are present is a local of the call, since every
command brings its own environment; service principal and workload identity are
one identity, `App`.

### LoginFlow and the code

`Init` enumerates every site (credentials present, default flow, display,
paste-back, host client), every typed flow and, for a login without one, both
things a host may pass (nothing, or the first entry of `DetectAvailableFlows`,
which is what the comment at `entra/cli_mode.go:78` says it does). `Dispatch`
is the `switch` in `cliMode.Login`; `Interactive` and `TakeFailure` are
`interactiveLogin`; the rest is `authCodeLogin`, one action per channel case
and the prompt goroutine as a process of its own. Parsing a pasted URL is one of
two answers, a code or an error. Storing the session is a single step here.

### Login and the code

`Login` declares the variables of both modules and takes the steps of both:
`FlowStep`, `Goroutine` and `Around` are `LoginFlow`'s, `DeviceStep` is
`DevicePoll`'s once the flow has come to the device code, `DeviceEnds` hands the
result back. What they share in the code is a context: `deviceCodeLogin` derives
its own from the caller's, so a login that was cancelled begins its device code
with no time left (`DeviceContext`), while a fallback after the callback's
timeout begins with a whole new one.

### Plugin and the code

Here a call is one step, since `CliSession` has its interleavings; what varies
is what a call finds. `config` holds the settings in force, `env` the
environment of the process, `files` the token files that exist.

| Model | Code |
|---|---|
| `ProfileOrEnv`, `HasTokenSource`, `WorkloadIdentity`, `ServicePrincipal` | `profileOrEnv`, `resolveWorkloadIdentityCredentials`, `resolveServicePrincipalCredentials`: each field from the settings or else the environment, a token directly or from a file |
| `Status`, `TokenSource` | the precedence in `cliMode.GetStatus` and in `cliMode.GetToken`, translated separately because the code decides twice |
| `UserKey`, `EnvKey`, `CacheKey`, `Acquired` | the fingerprint a token is cached under, and the client, tenant and authority its request goes to |
| `ConfigureAuthHandler`, `ConfigureRefused`, `ClientsFail` | `ConfigureAuthHandler` and its early returns, each of which leaves what was assigned before it |
| `ActivateServerMode`, `Restart`, `FileChanges` | a change of mode, a new process, a file mounted or removed |
| `DetectReason`, `LoginReason`, `ServicePrincipalReason` | the cause stated in `DetectAvailableFlows` and in `workloadIdentityLogin` |
| `GroupsRefused`, `GetGroups` | the check at the head of `GetGroups`, and the token it takes |

A session carries the client and tenant it was made for; a token how it was got
and for whom. The service principal's secret and the workload identity's token
do not matter once they are present.

### TokenCache, ServerFlows and the code

`ServerFlows` translates the validation of the server settings, the strategies
built from them, the routing of `serverMode.GetToken` and the two cache keys.
The hash over an assertion is the identity on users: two users never share one.

In `TokenCache` a call is numbered as it starts, and since it sends at most one
request, its number also names the token that request gets.

| Model | Code |
|---|---|
| `Start`, `FirstStep`, `Direct` | `serverMode.GetToken` and `cachedFlow.Do` up to the key: a refusal, a request that cannot be keyed and is sent uncached, an ordinary or a forced one |
| `Look` | the read `MinValidFor` asks for, which turns the call into a refresh when the entry expires too soon |
| `Lookup`, `Lead`, `Follow`, `Abandon`, `Cancelled` | an ordinary or a refresh flight of the go-flight manager: join it, lead it, leave a leader slower than the threshold, or leave with an error when the caller's own context ends |
| `Refused`, `Granted`, `Succeed` | the provider's answer, the write to the store, the end of the flight for everyone who waits for it |
| `Ages` | time, or an eviction, takes an entry; `LruCache` is the store underneath |

The go-flight manager is not in the repository; what happens to a flight (`Lead`,
`Follow`, `Cancelled`, `Landing`, `Land`) is modelled from how `cachedFlow`
configures and calls it, and is marked external. Two things are assumed of it:
`Set` and `Do` store a token that is valid for `ExpiryThreshold` or longer (a
shorter one they may drop, and then the entry of before stays), and all who wait
for a flight get its outcome.
`old` and `replaced` are history variables: no guard reads them.

### DevicePoll and the code

`Elapse` is a unit of time, in which the deadline and the ticker advance.
`SetTicker` is `NewTicker` / `Reset`; `tick` is the ticker's channel of
capacity one. `credit` is a history variable: it records what the properties
speak of, and no guard reads it.

### LruCache and the code

An action is one critical section. `Get` is `GetMiss`, or `GetExpired` /
`GetHit` under the read lock followed by `RemoveEntry` / `Promote` under the
write lock, with anything in between. The cleanup holds the write lock over its
sweep (`Unlocked`) but time passes during it. A list element is an identity:
`Set` on a present key keeps the element, as the code does.

## 3. Runs

Expected to pass:

| Run | Shows | Bounds, and why they are enough |
|---|---|---|
| `Serial` | calls one at a time, no failures: `SessionPaired`, and `ImplementsUserSession` (refinement of `UserSession`) | three sessions: one before, one replaced, one after; every operation, with and without environment credentials, rotation, revocation and both deadlines |
| `SerialCrash` | `NoForeignTokens`, `LoginRestores`, `LogoutClears`, `OnlyLoginSignsIn` with failing reads, writes, claims and crashes | three failures: one in each of a login, its repair and the call in between; three sessions |
| `LoginVsLogout` | `SessionPaired`, `KeyNamesCredential` when logins and token requests of one slot interleave with logouts and statuses of two others | three calls, two sessions (the second replaces the first), rotation, one failing read, deletion or listing; `OneUser` holds of it, so that the overlap theorems cover larger instances |
| `Concurrent` | `TypeOK`, `Loaded`, `KindsApart` in every interleaving; `StepsAdvance`: no step sets a call back; `CallsEnd`: every call ends, although another refills the cache it clears | two calls, one session, one failure of any kind; the proofs cover the safety of larger instances |
| `Lru` | `TypeOK`, `Coherent`, `Bounded`, `FreshLeaves`, `ImplementsMap` (refinement of `TtlMap`) | two threads, capacity 2 and three keys, an element for every entry, every Get in flight and a new one |
| `LruLive` | `ExpiredLeave`, `CleanerEnds` | one thread, capacity 1, two keys: the cleanup meets every other critical section |
| `Login` | `TypeOK`, `Earned`, `Paced` of the polling; `NeverStranded`, `NeverStrandedLate`, `PromptEnds` of the flow; `FallsBackWhenStuck`, `CancelledStaysSilent`, `EveryLoginEnds` of both together | one login, all sites and flows; six units of time for the device code, intervals below, at and above the minimum, two `slow_down` answers |
| `TokenCache` | `TypeOK`, `OwnTokens`, `SharedRequests`, `StaysReplaced`, `Renewed` | three calls: a leader, a follower that may leave it, and a refresh beside them; two users, one scope, every accepted setting |
| `Plugin` | `TypeOK`, `Usable`, `TokensMatchStatus`, `Explained` | two logins (a session and the one that replaces it), five settings and six environments chosen so that each field comes from either place, from both and from neither; one token file; the proofs cover any other choice |

Deadlock is checked except in `Login`: one login ends, and then nothing
happens. In `TokenCache` the only end is `AllReturned`.

In `CliSession` every bound is a constant (`MaxFaults`, the sessions, the slots);
in `LruCache` `MaxTtl` bounds lifetimes, and an entry's age stops at "expired";
in `TokenCache` `MaxCalls` and in `Plugin` `MaxLogins` bound the behaviour.

Expected to be violated. Each shows where the code does something else than a
comment or the README says; the quotation is in `PROJECT.json` under
"findings":

| Run | Counterexample |
|---|---|
| `KeyMismatch` | a token request reads session 1's metadata; logout; login of session 2; the request mints with session 2's refresh token and caches the token under session 1's key |
| `Resurrect` | a token request is answered after a logout and stores the rotated refresh token |
| `GroupsFollowSession` | a user is signed in on a machine with environment credentials: status and tokens are the user's, the group query is refused |

The first two need two calls in flight, and not any two. Which calls may overlap
without them is what `OverlapProofs` says: `KeyMismatch` needs a login beside a
token request (`OneUserKeys`), `Resurrect` a logout, or a second request, beside a
token request whose answer rotates the refresh token (`OnlyLoginsSignIn`). Where the code does less than a
reader may expect and no run is spent on it, a hazard says so:

* a login whose second write fails leaves its refresh token beside the metadata
  of the session before, so that `SessionPaired` holds where writes complete
  and not otherwise (`LoginRestores` shows that the next login repairs it);
* a login nobody typed a flow for counts as typed when the host passes the first
  available flow, and then waits when its browser does not open;
* a token request told that its refresh token was revoked deletes a session
  that a login stored meanwhile; a purge deletes a token that was renewed after it
  looked; a `Get` of the cache removes an entry that a `Set` renewed in place; and after an answer slower than the interval the buffered tick makes
  the next poll follow at once (`Paced` bounds that);
* in server mode a request with `MinValidFor` that found no entry takes whatever
  the ordinary flight brings, and an ordinary request that began before a refresh
  may store its own token over the refreshed one;
* settings that were refused stay in force for the mode that was active before.

### Fairness

* `CliSession`: weak fairness of each call's `Step`: the Go scheduler runs
  every goroutine and every request to the store or the provider is answered or
  fails. Nothing is assumed of the host (it need not call), of the clocks or
  of failures.
* `Login`: weak fairness of the login's own steps, of its timer and its paste,
  and of the prompt goroutine once its context is done (the RPC returns then).
  Not of the user: a callback or a paste may never come. In the device code time
  passes and requests are answered; strong fairness of `TimedOut`: when a tick
  and the finished context are both ready, Go's `select` picks at random, so it
  does not prefer the tick for ever.
* `LruCache`: the ticker ticks and a sweep goes on; strong fairness of `Exit`
  for the same reason. Nothing is assumed of the threads.
* `TokenCache`, `Plugin`: none is needed, all their properties are safety.

## 4. Proofs

Each module of proofs speaks of every value of the constants that satisfies the
named assumption of its module, which says no more than that the constants have
their types and that the marker `None` is none of the values it is told from.
The inductive invariant is called `IInv` (`LInv` in `LoginProofs`).

`CliSessionProofs`, for any sets of calls and sessions, any number of failures:

| Theorem | Statement |
|---|---|
| `TypeCorrect` | `Spec => []TypeOK` |
| `SecretsLoaded` | `Spec => []Loaded`: no call sends, stores or caches what it has not loaded |
| `KindsStayApart` | `Spec => []KindsApart`: environment and user tokens never share a key |
| `SerialPairing` | `WritesComplete` implies `Spec => []SessionPaired` |
| `SerialKeys` | `WritesComplete` implies `Spec => []KeyNamesCredential` |
| `SerialNoForeignTokens` | `DeletesComplete` implies `Spec => []NoForeignTokens` |
| `SerialLogoutClears` | `DeletesComplete` implies `Spec => LogoutClears` |
| `SerialLoginRestores` | `DeletesComplete` implies `Spec => LoginRestores` |

`WritesComplete` and `DeletesComplete` are conditions on the constants: calls
run one at a time, and the steps named do not fail. They are not assumptions of
the model: `KeyMismatch` and `Resurrect` show what happens when calls overlap,
and a failing second write leaves a mixed pair.

*The argument.* `TypeOK` alone is not inductive: `put_rt` stores `job[c].rt`,
which has the type of a secret only because of `Loaded`, the fact that a call
that goes on to send or store something has loaded it before. `TypeOK /\ Loaded`
is inductive. `Loaded` is a conjunction per call, and every step of one call
leaves the others' locals alone (`StepIsLocal`), so it is proved for the call
that moves. `KindsApart` follows from it: a token goes under `EnvKey` exactly
when the call has no refresh token. For serial calls at most one call is active
(`AllIdle` when one starts); the strengthening says, for each point of that
call, how its locals relate to the store: while it mints they equal the stored
secrets, while it logs in the cache was emptied of keys still to do, and so on.
`SerialLoginRestores` adds `OwnAt`: a login holds the metadata of its own session
from the provider's answer to its last write, and a call that runs has answered
nothing yet, so the only step that can report a user there is that last write.

`OverlapProofs`, for any sets of calls and sessions, in every interleaving of
single store accesses that the condition named allows:

| Theorem | Condition | Statement |
|---|---|---|
| `OneWriterPairing` | `OneWriter`: the secrets are written by one slot, and its writes complete | `Spec => []SessionPaired` |
| `OneUserKeys` | `OneUser`: moreover the same slot asks for the tokens | `Spec => []KeyNamesCredential` |
| `OnlyLoginsSignIn` | `NoEndBeside`: no logout and no other token request beside one that may rotate; anything may fail or die | `Spec => OnlyLoginSignsIn` |
| `CallsAdvance` | none | `Spec => StepsAdvance` |

The conditions say which slots may be asked for what (`Ops`), so each covers any
number of the other calls; without one, TLC finds a counterexample on two calls.
The first two also need `"set"` and `"crash"` out of `FaultKinds`: a login that
dies between its writes leaves a mixed pair, alone or not.

*The argument.* None of these invariants is inductive, because a call goes on
with what it read while others change the store. `Asked` says what a call at a
step was asked for, and thereby whether the condition lets it be there.
`WriterAt` relates what a writer has in hand to the store *up to deletions*:
`rt \in {job[c].rt, None}`, `meta # None => meta.sid = job[c].rt`. That is stable
under every step of the others, which can only delete (`OnlyDeletes`), and it is
enough: a writer finds two secrets of one login or not both, and puts the missing
ones of the same login back. `KeyAt` adds the key of a token request,
`StillAt` that a request which is going to rotate still has its session.
`OnlyLoginsSignIn` is also true of serial hosts with any mix of operations; its
condition allows both.

`CallsAdvance` is the half of `CallsEnd` the prover can reach: every step of a
call, failing or not, leads to a later `Stage` or, while it deletes or purges, to
a smaller set of listed keys (`DropAt`: the key a purge deletes is one of them),
and no other step touches the call. With finitely many entries a call therefore
takes finitely many steps. That it does take them is fairness, and that a call
which is not idle can always take one is a statement about `ENABLED`: both stay
with TLC, in `Concurrent`.

`UserSessionProofs`, for any sets of calls and sessions: `SerialImplementation`
(`Perfect` implies `Spec => ImplementsUserSession`), where `Perfect` says that
calls run one at a time and nothing fails. The strengthening is `ForceInv`, on
top of what the serial theorems use: the metadata name the user, they go with the
refresh token but for the end of a logout, and a user's token is cached with them
only; a call that serves a token works under `EnvKey` exactly when there are
environment credentials and no valid session. Then `put_meta` is the abstract
`SignIn` (or `Renew`, in a token request), `del_rt` is `SignOut`, the return of a
call is `Serve`, `Report`, `LoggedOut` or `NoAnswer`, and every other step stutters.

`DevicePollProofs`, for all intervals and timeouts: `TypeCorrect`, `TicksEarned`
(`Spec => []Earned`) and `PollsPaced` (`Spec => Paced`). `Earned` is
the strengthening: a buffered tick and the part of the interval already run are
never worth more than the credit.

`LoginProofs`, for the composition: `RefinesLoginFlow` and `RefinesDevicePoll`
(`LoginSpec` implies the specification of either part), from which
`LoginTicksEarned` and `LoginPaced` carry the polling's theorems over; and
`NotStranded`, `NotStrandedLate`, `FallsBack`, `StaysSilent`. A login's step is one of the
flow's or leaves it alone, so the first refinement needs no invariant. The second
does: the polling has not begun before the login comes to it, and a login that
was cancelled leaves it no time (`Handover`). For `NotStranded` the strengthening says what
was decided on the way (`Way`, `Prompting`, `Fallen`): the failure of a prompt is
ignored only where a browser was opened or the flow was typed.

`PluginProofs`, for any settings, environments and histories: `TypeCorrect`,
`AlwaysUsable`, `TokensFollowStatus`, `CausesStated`. The strengthening is
`EntriesFit`: a cached token has the client, tenant, authority and session its
key names. Status and token decide for the same identity whatever the settings
are (`SameChoice`), and the key derived for that identity names it; so what is
found under the key fits, although it may be from before a restart.

`LruCacheProofs`, for any threads, keys, values, capacity and lifetimes:
`TypeCorrect`, `AlwaysCoherent`, `AlwaysBounded`, `FreshStays`, and
`Implementation` (`Spec => ImplementsMap`, the refinement of `TtlMap`). The
strengthening is `Holding`: a `Get` between its two sections holds an element and
a key, and a sweep has only keys of the map before it. The lemmas on the list (an element removed, moved or pushed leaves the
others where they are) are stated once and cited by every critical section.

`TokenCacheProofs`, for any users, scopes, requests and number of calls:
`TypeCorrect`, `NobodyElsesToken`, `OneRequest`, `NoneComesBack`,
`RefreshIsFresh`. The strengthening is four facts: a call's key
is the one its request derives (`Keyed`), a flight in progress has its leader's
request under way and nobody else's but those that left it (`Flights`), a token
in the cache or in an answer was got by a call of that key (`Tokens`), and what
counts as old had been returned (`Past`). `KeyTells` is the heart of the first
theorem: equal keys mean the same grant, scope and user.

Every safety property a passing run checks is a theorem. Only model-checked: liveness
(`CallsEnd`, `EveryLoginEnds`, `PromptEnds`, `ExpiredLeave`, `CleanerEnds`), which
the provers do not reach.

## 5. What is not modelled

* Wording, logging, URL building and parsing, form fields, JWT decoding, PKCE,
  the HTTP client with its proxy and TLS settings, the parsing of settings and
  responses, the qualification of scopes: formatting and plain input and output.
  What they decide (an answer with or without a code, settings that are
  accepted or not) is a choice in the model.
* The lifetime a provider chooses: a token is long, short or expired, which is
  what its readers tell apart; a short-lived one is a long one that ages at once.
* Profiles (a prefix of every key), `ListCachedTokens` (reads only).
* `removeBadEntry` of the cache: no caller can produce such an entry.
* Paging over Graph in `GetGroups`: reads that change no state of the plugin.
* The clients kept over a reconfiguration, and the cleanup goroutine of a server
  mode that was replaced: nothing the other properties speak of depends on them.
* `RetryOnError` of the flights: off, and no setting turns it on.
* The go-flight manager itself, the host, its secret store and the identity
  provider: external, modelled from how the code uses them.
* Exported helpers that look at the environment alone, and the test doubles:
  only tests call them.

## 6. Plan

Done, in this order: `CliSession` with `UserSession`, `LruCache` with `TtlMap`,
`LoginFlow`, `DevicePoll`, `ServerFlows` and `TokenCache`, `Plugin`, `Login`, and
their proofs, those of `OverlapProofs` last. Left:

1. `TokenCache` over `TtlMap` in place of its own store, so that an eviction is
   the cache's and not a choice.
2. Operators for scopes and authorities, checked against definitions, and the
   paging of `GetGroups`.
