----------------------------- MODULE CliSession -----------------------------
(***************************************************************************)
(* The user session the handler keeps in CLI mode, and the calls that use  *)
(* it.  The session is two secrets of the host's store, written and read   *)
(* one at a time: the refresh token, and the metadata that names the       *)
(* session and the user.  Access tokens are cached in the same store under *)
(* a key derived from the metadata.  No lock covers more than one secret,  *)
(* and the store is shared by every call of every plugin process, so a     *)
(* call is modelled as a program of single store accesses and single       *)
(* requests to the identity provider.                                      *)
(*                                                                         *)
(* A login is identified with the session it creates: its session id, its  *)
(* user and its refresh tokens (a rotated token stands for the same login).*)
(* One profile and one scope are modelled; both only prefix or suffix keys.*)
(***************************************************************************)
EXTENDS Naturals, FiniteSets

CONSTANTS
  Call,        \* slots for calls in flight
  Session,     \* the sessions logins can create
  None,        \* no session, no secret, no identity
  App,         \* the identity of the environment's credentials (SP or WI)
  Ops,         \* [Call -> SUBSET OpName]: what each slot may be asked to do
  Serial,      \* TRUE: the host runs one call at a time
  Envs,        \* whether AZURE_* credentials may be present: subset of BOOLEAN
  Rotates,     \* TRUE: the provider may answer with a new refresh token
  Clock,       \* which deadlines may pass: a subset of {"token", "session"}
  FaultKinds,  \* which steps may fail: a subset of FaultKind
  MaxFaults    \* bound on the failures of one behaviour

OpName == {"login", "logout", "token", "status", "purge"}
FaultKind == {"get", "set", "del", "list", "claims", "crash"}

\* Metadata: the session id, the user its claims name (None when the login's
\* ID token did not), and whether the refresh token's recorded expiry is
\* still ahead.
Metadata == [sid : Session, oid : Session \union {None}, live : BOOLEAN]

\* A cached access token: whose it is, and whether it is valid for as long as
\* any caller asks, not expired but too short for some callers, or expired.
\* (Every token that is stored has an ExpiresAt.)
Life == {"long", "short", "expired"}
Token == [user : Session \union {App}, life : Life]

ASSUME SessionAssumption ==
  /\ None \notin Session \union Metadata \union Token
  /\ None \notin OpName \union [op : OpName, env : BOOLEAN]
  /\ App \notin Session
  /\ App # None
  /\ Ops \in [Call -> SUBSET OpName]
  /\ {Serial, Rotates} \subseteq BOOLEAN
  /\ Envs \subseteq BOOLEAN
  /\ Clock \subseteq {"token", "session"}
  /\ FaultKinds \subseteq FaultKind
  /\ MaxFaults \in Nat

-----------------------------------------------------------------------------
(* Data.                                                                   *)

Maybe(S) == S \union {None}

\* Cache keys: one for the environment's credentials, and one per session
\* id and user, both absent when no metadata was usable.
EnvKey  == [kind |-> "app", sid |-> None, oid |-> None]
UserKey(sid, oid) == [kind |-> "user", sid |-> sid, oid |-> oid]
Key == [kind : {"user"}, sid : Maybe(Session), oid : Maybe(Session)]
         \union {EnvKey}

\* The locals of a call, and the environment of the process it runs in.
Job == [op : Maybe(OpName), force : BOOLEAN, env : BOOLEAN,
        rt : Maybe(Session), md : Maybe(Metadata), key : Key, todo : SUBSET Key]
Blank == [op |-> None, force |-> FALSE, env |-> FALSE, rt |-> None,
          md |-> None, key |-> EnvKey, todo |-> {}]

PC == {"idle", "auth", "list", "delete", "put_rt", "put_meta", "del_rt",
       "del_meta", "valid_rt", "valid_meta", "cache_get", "mint_rt",
       "mint_meta", "post", "acquire", "put_cache", "exists", "status_meta",
       "peek", "drop"}

VARIABLES
  rt,       \* the refresh-token secret
  meta,     \* the metadata secret (None also: unreadable or legacy format)
  cache,    \* the cached access tokens, by key
  pc,       \* where each call is
  job,      \* the locals of each call
  reply,    \* the identity each slot's last call answered with
  issued,   \* sessions the provider has authenticated so far
  faults    \* failures so far

store == <<rt, meta, cache>>
vars  == <<rt, meta, cache, pc, job, reply, issued, faults>>

Idle(c) == pc[c] = "idle"
AllIdle == \A c \in Call : Idle(c)

\* A serial host neither starts a call nor lets 90 days pass during one.
Quiet == Serial => AllIdle

At(c, l)   == pc[c] = l
Goto(c, l) == pc' = [pc EXCEPT ![c] = l]

\* The call returns: who is the identity in its answer, None for an error or
\* an answer without identity.
Return(c, who) == /\ Goto(c, "idle")
                  /\ job' = [job EXCEPT ![c] = Blank]
                  /\ reply' = [reply EXCEPT ![c] = who]

NoFault     == faults' = faults
Fault(kind) == /\ kind \in FaultKinds
               /\ faults < MaxFaults
               /\ faults' = faults + 1

\* A secret that is absent or unusable, or whose read fails.
NotRead(absent) == (absent /\ NoFault) \/ Fault("get")

-----------------------------------------------------------------------------
(* Starting a call.                                                        *)

\* Mutant: a logout goes straight to the secrets and leaves the cache.
EntryNoClear(o) == CASE o \in {"token", "status"} -> "valid_rt"
                     [] o = "login"               -> "auth"
                     [] o = "logout"              -> "del_rt"
                     [] OTHER                     -> "list"

Entry(o) == CASE o \in {"token", "status"} -> "valid_rt"
              [] o = "login"               -> "auth"
              [] OTHER                     -> "list"

\* Only token and status requests look at the environment.
EnvFor(o) == IF o \in {"token", "status"} THEN Envs ELSE {FALSE}

Start(c, o, force, env) ==
  /\ Idle(c)
  /\ Quiet
  /\ o \in Ops[c]
  /\ force => o = "token"
  /\ env \in EnvFor(o)
  /\ Goto(c, Entry(o))
  /\ job' = [job EXCEPT ![c] = [Blank EXCEPT !.op = o, !.force = force,
                                               !.env = env]]
  /\ reply' = [reply EXCEPT ![c] = None]
  /\ UNCHANGED <<store, issued, faults>>

-----------------------------------------------------------------------------
(* Login: authenticate, clear the token cache, store both secrets.         *)

\* Mutant: a login over a stored session keeps the session id.
NewMetadataKeepsId(s, oid) ==
  [sid |-> IF meta = None THEN s ELSE meta.sid, oid |-> oid, live |-> TRUE]

NewMetadata(s, oid) == [sid |-> s, oid |-> oid, live |-> TRUE]

\* The answer's ID token may be missing or unreadable: the session is stored
\* all the same, and in the second case the login still ends with an error.
Authenticate(c) ==
  /\ At(c, "auth")
  /\ \E s \in Session \ issued, oid \in Maybe(Session) :
       /\ (oid = s /\ NoFault) \/ (oid = None /\ Fault("claims"))
       /\ issued' = issued \union {s}
       /\ job' = [job EXCEPT ![c].rt = s, ![c].md = NewMetadata(s, oid)]
  /\ Goto(c, "list")
  /\ UNCHANGED <<store, reply>>

AuthenticateFails(c) ==
  /\ At(c, "auth")
  /\ Return(c, None)
  /\ UNCHANGED <<store, issued, faults>>

(* Clearing the cache: list the keys once, then delete them one by one;    *)
(* failures are logged and skipped.                                        *)

\* Mutant: a login keeps a refresh token that is stored.
AfterClearKeeps(c) == IF job[c].op # "login" THEN "del_rt"
                      ELSE IF rt = None THEN "put_rt" ELSE "put_meta"

\* Mutant: the cache is listed again until it is found empty.
AfterClearRelists(c) == IF \E k \in Key : cache[k] # None THEN "list"
                        ELSE IF job[c].op = "login" THEN "put_rt" ELSE "del_rt"

AfterClear(c) == IF job[c].op = "login" THEN "put_rt" ELSE "del_rt"

\* Mutant: only the entries of a known session are found.
CachedOfSessions == {k \in Key : cache[k] # None /\ k.sid # None}

Cached == {k \in Key : cache[k] # None}

ListKeys(c) ==
  /\ At(c, "list")
  /\ job' = [job EXCEPT ![c].todo = Cached]
  /\ Goto(c, IF job[c].op = "purge" THEN "peek" ELSE "delete")
  /\ UNCHANGED <<store, reply, issued, faults>>

ListKeysFails(c) ==
  /\ At(c, "list")
  /\ Fault("list")
  /\ IF job[c].op = "purge"
       THEN Return(c, None)
       ELSE Goto(c, AfterClear(c)) /\ UNCHANGED <<job, reply>>
  /\ UNCHANGED <<store, issued>>

DeleteCached(c) ==
  /\ At(c, "delete")
  /\ \E k \in job[c].todo :
       /\ job' = [job EXCEPT ![c].todo = @ \ {k}]
       /\ \/ NoFault /\ cache' = [cache EXCEPT ![k] = None]
          \/ Fault("del") /\ cache' = cache
  /\ UNCHANGED <<rt, meta, pc, reply, issued>>

ClearDone(c) ==
  /\ At(c, "delete")
  /\ job[c].todo = {}
  /\ Goto(c, AfterClear(c))
  /\ UNCHANGED <<store, job, reply, issued, faults>>

(* storeCredentialsWithClaims: the refresh token, then the metadata. A     *)
(* login fails when either write fails; a rotation only logs it.           *)

\* Mutant: a login only logs that a write failed.
StoreFailsLogged(c) ==
  /\ Fault("set")
  /\ IF job[c].op = "login"
       THEN Return(c, job[c].md.oid)
       ELSE Goto(c, "put_cache") /\ UNCHANGED <<job, reply>>
  /\ UNCHANGED <<store, issued>>

StoreFails(c) ==
  /\ Fault("set")
  /\ IF job[c].op = "login"
       THEN Return(c, None)
       ELSE Goto(c, "put_cache") /\ UNCHANGED <<job, reply>>
  /\ UNCHANGED <<store, issued>>

PutRefreshToken(c) ==
  /\ At(c, "put_rt")
  /\ \/ /\ rt' = job[c].rt
        /\ Goto(c, "put_meta")
        /\ UNCHANGED <<meta, cache, job, reply, issued, faults>>
     \/ StoreFails(c)

\* Mutant: the metadata is written without a session id.
StoredMetadataDropsId(c) == [job[c].md EXCEPT !.sid = None, !.live = TRUE]

\* Mutant: metadata found in the store is kept.
StoredMetadataKeepsOld(c) ==
  IF meta = None THEN [job[c].md EXCEPT !.live = TRUE] ELSE meta

StoredMetadata(c) == [job[c].md EXCEPT !.live = TRUE]

PutMetadata(c) ==
  /\ At(c, "put_meta")
  /\ \/ /\ meta' = StoredMetadata(c)
        /\ IF job[c].op = "login"
             THEN Return(c, job[c].md.oid)
             ELSE Goto(c, "put_cache") /\ UNCHANGED <<job, reply>>
        /\ UNCHANGED <<rt, cache, issued, faults>>
     \/ StoreFails(c)

-----------------------------------------------------------------------------
(* Logout, and the session cleanup of a revoked refresh token: after the   *)
(* cache, the refresh token and the metadata; failures are only logged.    *)

DeleteRefreshToken(c) ==
  /\ At(c, "del_rt")
  /\ \/ NoFault /\ rt' = None
     \/ Fault("del") /\ rt' = rt
  /\ Goto(c, "del_meta")
  /\ UNCHANGED <<meta, cache, job, reply, issued>>

DeleteMetadata(c) ==
  /\ At(c, "del_meta")
  /\ \/ NoFault /\ meta' = None
     \/ Fault("del") /\ meta' = meta
  /\ Return(c, None)
  /\ UNCHANGED <<rt, cache, issued>>

-----------------------------------------------------------------------------
(* GetToken and GetStatus first ask for a valid stored session.            *)

\* Mutant: a new token always comes from the refresh token.
NewTokenMints(key) == "mint_rt"

NewToken(key) == IF key = EnvKey THEN "acquire" ELSE "mint_rt"

\* The first step of serving a token under a key: the cache, or straight to
\* a new token when the caller forces a refresh.
FirstStep(c, key) == IF job[c].force THEN NewToken(key) ELSE "cache_get"

ServeUnder(c, key) ==
  /\ Goto(c, FirstStep(c, key))
  /\ job' = [job EXCEPT ![c].key = key]
  /\ UNCHANGED reply

KeyWithoutSession(c) == IF job[c].env THEN EnvKey ELSE UserKey(None, None)

\* Without a valid session: the environment's credentials when present,
\* otherwise the session path with the configured identity.
NoValidSession(c) ==
  \/ /\ job[c].op = "token"
     /\ ServeUnder(c, KeyWithoutSession(c))
  \/ /\ job[c].op = "status"
     /\ job[c].env
     /\ Return(c, App)
  \/ /\ job[c].op = "status"
     /\ ~job[c].env
     /\ Goto(c, "exists")
     /\ UNCHANGED <<job, reply>>

\* Mutant: the recorded expiry is not looked at.
LiveAnyAge == meta # None

Live == IF meta = None THEN FALSE ELSE meta.live

ValidRefreshToken(c) ==
  /\ At(c, "valid_rt")
  /\ \/ /\ rt # None
        /\ NoFault
        /\ Goto(c, "valid_meta")
        /\ UNCHANGED <<job, reply>>
     \/ /\ NotRead(rt = None)
        /\ NoValidSession(c)
  /\ UNCHANGED <<store, issued>>

ValidMetadata(c) ==
  /\ At(c, "valid_meta")
  /\ \/ /\ Live
        /\ NoFault
        /\ IF job[c].op = "token"
             THEN ServeUnder(c, UserKey(meta.sid, meta.oid))
             ELSE Return(c, meta.oid)
     \/ /\ NotRead(~Live)
        /\ NoValidSession(c)
  /\ UNCHANGED <<store, issued>>

(* The rest of GetStatus, without session and environment credentials.     *)

SecretExists(c) ==
  /\ At(c, "exists")
  /\ \/ /\ rt # None
        /\ NoFault
        /\ Goto(c, "status_meta")
        /\ UNCHANGED <<job, reply>>
     \/ /\ NotRead(rt = None)
        /\ Return(c, None)
  /\ UNCHANGED <<store, issued>>

StatusMetadata(c) ==
  /\ At(c, "status_meta")
  /\ \/ /\ NoFault
        /\ Return(c, IF Live THEN meta.oid ELSE None)
     \/ /\ Fault("get")
        /\ Return(c, None)
  /\ UNCHANGED <<store, issued>>

-----------------------------------------------------------------------------
(* Serving a token: the cache, then the provider, then the cache again.    *)

\* A token that expires soon is served when the caller's MinValidFor allows.
CacheGet(c) ==
  /\ At(c, "cache_get")
  /\ LET found == cache[job[c].key] IN
     \/ /\ found # None
        /\ found.life # "expired"
        /\ NoFault
        /\ Return(c, found.user)
     \/ /\ NotRead(IF found = None THEN TRUE ELSE found.life # "long")
        /\ Goto(c, NewToken(job[c].key))
        /\ UNCHANGED <<job, reply>>
  /\ UNCHANGED <<store, issued>>

\* mintToken loads the refresh token and the metadata again.
MintRefreshToken(c) ==
  /\ At(c, "mint_rt")
  /\ \/ /\ rt # None
        /\ NoFault
        /\ job' = [job EXCEPT ![c].rt = rt]
        /\ Goto(c, "mint_meta")
        /\ UNCHANGED reply
     \/ /\ NotRead(rt = None)
        /\ Return(c, None)
  /\ UNCHANGED <<store, issued>>

MintMetadata(c) ==
  /\ At(c, "mint_meta")
  /\ \/ /\ meta # None
        /\ NoFault
        /\ job' = [job EXCEPT ![c].md = meta]
        /\ Goto(c, "post")
        /\ UNCHANGED reply
     \/ /\ NotRead(meta = None)
        /\ Return(c, None)
  /\ UNCHANGED <<store, issued>>

\* The provider answers with an access token of the user whose refresh
\* token was sent, and possibly with a new refresh token; an ID token in the
\* answer replaces the claims to be stored with it.
PostGranted(c) ==
  /\ At(c, "post")
  /\ \/ /\ Goto(c, "put_cache")
        /\ UNCHANGED job
     \/ /\ Rotates
        /\ \E oid \in {job[c].rt, job[c].md.oid} :
             job' = [job EXCEPT ![c].md.oid = oid]
        /\ Goto(c, "put_rt")
  /\ UNCHANGED <<store, reply, issued, faults>>

\* A claims challenge, a Conditional Access block, one of the invalid_grant
\* answers that keep the session, any other error, or no answer.
PostRefused(c) ==
  /\ At(c, "post")
  /\ Return(c, None)
  /\ UNCHANGED <<store, issued, faults>>

\* Mutant: the session is cleared at once, and the answer stored all the same.
PostRevokedStores(c) ==
  /\ At(c, "post")
  /\ rt' = None
  /\ Goto(c, "put_rt")
  /\ UNCHANGED <<meta, cache, job, reply, issued, faults>>

\* Any other invalid_grant: the session is cleared as by a logout.
PostRevoked(c) ==
  /\ At(c, "post")
  /\ Goto(c, "list")
  /\ UNCHANGED <<store, job, reply, issued, faults>>

\* Service principal or workload identity: the token endpoint, no session.
Acquire(c) ==
  /\ At(c, "acquire")
  /\ \/ Goto(c, "put_cache") /\ UNCHANGED <<job, reply>>
     \/ Return(c, None)
  /\ UNCHANGED <<store, issued, faults>>

\* Whose token was got: the user's whose refresh token was sent, or the
\* environment's. A token that cannot be cached is served all the same.
Minted(c) == IF job[c].rt = None THEN App ELSE job[c].rt

PutCache(c) ==
  /\ At(c, "put_cache")
  /\ \/ /\ NoFault
        /\ cache' = [cache EXCEPT ![job[c].key] =
                       [user |-> Minted(c), life |-> "long"]]
     \/ /\ Fault("set")
        /\ cache' = cache
  /\ Return(c, Minted(c))
  /\ UNCHANGED <<rt, meta, issued>>

-----------------------------------------------------------------------------
(* PurgeExpiredTokens: read each listed entry, delete it when expired.     *)

Peek(c) ==
  /\ At(c, "peek")
  /\ \E k \in job[c].todo :
       LET expired == cache[k] # None /\ cache[k].life = "expired" IN
       \/ /\ expired
          /\ NoFault
          /\ job' = [job EXCEPT ![c].key = k]
          /\ Goto(c, "drop")
       \/ /\ NotRead(~expired)
          /\ job' = [job EXCEPT ![c].todo = @ \ {k}]
          /\ UNCHANGED pc
  /\ UNCHANGED <<store, reply, issued>>

Drop(c) ==
  /\ At(c, "drop")
  /\ \/ NoFault /\ cache' = [cache EXCEPT ![job[c].key] = None]
     \/ Fault("del") /\ cache' = cache
  /\ job' = [job EXCEPT ![c].todo = @ \ {job[c].key}]
  /\ Goto(c, "peek")
  /\ UNCHANGED <<rt, meta, reply, issued>>

PurgeDone(c) ==
  /\ At(c, "peek")
  /\ job[c].todo = {}
  /\ Return(c, None)
  /\ UNCHANGED <<store, issued, faults>>

-----------------------------------------------------------------------------
(* What can happen besides the calls' own steps.                           *)

\* The process dies, or the call's context is cancelled.
Crash(c) ==
  /\ ~Idle(c)
  /\ Fault("crash")
  /\ Return(c, None)
  /\ UNCHANGED <<store, issued>>

TokenAges(k) ==
  /\ "token" \in Clock
  /\ cache[k] # None
  /\ cache[k].life # "expired"
  /\ cache' = [cache EXCEPT ![k].life = IF @ = "long" THEN "short" ELSE "expired"]
  /\ UNCHANGED <<rt, meta, pc, job, reply, issued, faults>>

SessionExpires ==
  /\ "session" \in Clock
  /\ Quiet
  /\ meta # None
  /\ meta.live
  /\ meta' = [meta EXCEPT !.live = FALSE]
  /\ UNCHANGED <<rt, cache, pc, job, reply, issued, faults>>

-----------------------------------------------------------------------------

\* A session of the pre-canonical format is a refresh token whose metadata
\* cannot be used.
Init ==
  /\ rt \in Maybe(Session)
  /\ meta = None
  /\ cache = [k \in Key |-> None]
  /\ pc = [c \in Call |-> "idle"]
  /\ job = [c \in Call |-> Blank]
  /\ reply = [c \in Call |-> None]
  /\ issued = {rt} \ {None}
  /\ faults = 0

LoginStep(c)  == Authenticate(c) \/ AuthenticateFails(c)
ClearStep(c)  == ListKeys(c) \/ ListKeysFails(c) \/ DeleteCached(c) \/ ClearDone(c)
StoreStep(c)  == PutRefreshToken(c) \/ PutMetadata(c)
DeleteStep(c) == DeleteRefreshToken(c) \/ DeleteMetadata(c)
ValidStep(c)  == ValidRefreshToken(c) \/ ValidMetadata(c)
StatusStep(c) == SecretExists(c) \/ StatusMetadata(c)
MintStep(c)   == \/ CacheGet(c) \/ MintRefreshToken(c) \/ MintMetadata(c)
                 \/ PostGranted(c) \/ PostRefused(c) \/ PostRevoked(c)
                 \/ Acquire(c) \/ PutCache(c)
PurgeStep(c)  == Peek(c) \/ Drop(c) \/ PurgeDone(c)

Step(c) == \/ LoginStep(c) \/ ClearStep(c) \/ StoreStep(c) \/ DeleteStep(c)
           \/ ValidStep(c) \/ StatusStep(c) \/ MintStep(c) \/ PurgeStep(c)

Next ==
  \/ \E c \in Call : \/ \E o \in OpName, force, env \in BOOLEAN : Start(c, o, force, env)
                     \/ Step(c)
                     \/ Crash(c)
  \/ \E k \in Key : TokenAges(k)
  \/ SessionExpires

Spec == Init /\ [][Next]_vars

\* Every call keeps being scheduled and every request it makes is answered.
FairSpec == Spec /\ \A c \in Call : WF_vars(Step(c))

-----------------------------------------------------------------------------
(* Properties.                                                             *)

\* Every variable keeps its shape.
TypeOK ==
  /\ rt \in Maybe(Session)
  /\ meta \in Maybe(Metadata)
  /\ cache \in [Key -> Maybe(Token)]
  /\ pc \in [Call -> PC]
  /\ job \in [Call -> Job]
  /\ reply \in [Call -> Session \union {App, None}]
  /\ issued \subseteq Session
  /\ faults \in Nat

\* The locals a call goes on with are there: a call that sends or stores the
\* session's secrets has loaded (or been issued) both, and the path that gets
\* a token is the one its key is for, whichever path that was.
LoadedAt(c) ==
  /\ pc[c] \in {"post", "put_rt", "put_meta"} => job[c].rt # None /\ job[c].md # None
  /\ pc[c] \in {"list", "delete"} /\ job[c].op = "login"
       => job[c].rt # None /\ job[c].md # None
  /\ pc[c] \in {"valid_rt", "valid_meta", "cache_get", "mint_rt", "acquire"}
       => job[c].rt = None
  /\ pc[c] = "mint_meta" => job[c].rt # None
  /\ pc[c] \in {"mint_rt", "mint_meta", "post"} => job[c].key # EnvKey
  /\ pc[c] \in {"put_rt", "put_meta"} /\ job[c].op # "login" => job[c].key # EnvKey
  /\ pc[c] = "acquire" => job[c].key = EnvKey
  /\ pc[c] = "put_cache" => (job[c].key = EnvKey <=> job[c].rt = None)

Loaded == \A c \in Call : LoadedAt(c)

\* A token cached for the environment's credentials is never one of a user's,
\* and a user's entry never holds theirs: the "user:" prefix of
\* userSessionFingerprint keeps them apart in every interleaving.
KindsApart ==
  \A k \in Key : cache[k] # None => (k = EnvKey <=> cache[k].user = App)

\* Refresh token and metadata are of the same login, except while a login is
\* between its two writes.
SessionPaired ==
  rt # None /\ meta # None /\ ~(\E c \in Call : At(c, "put_meta"))
    => meta.sid = rt /\ meta.oid \in {rt, None}

\* "The cache key and the credential behind it cannot disagree"
\* (userSessionFingerprint): an entry under a session's key holds a token of
\* that session's user.
KeyNamesCredential ==
  \A k \in Key : cache[k] # None /\ k.sid # None
                   => cache[k].user = k.sid /\ k.oid \in {k.sid, None}

\* A cached user token is of the user whose refresh token is stored: neither
\* a login without a logout (clearUserTokenCache) nor a logout leaves behind
\* a token of the previous user, under the key of a session or under the key
\* used without one, whatever failed writes and crashes came before.
NoForeignTokens ==
  \A k \in Key : cache[k] # None /\ cache[k].user # App => cache[k].user = rt

\* A login that reports success leaves exactly its own session and an empty
\* cache, whatever crashed or half-stored logins left in the store.
Restores(c) == /\ At(c, "put_meta")
               /\ job[c].op = "login"
               /\ reply'[c] # None
               => /\ rt' = reply'[c]
                  /\ meta' = [sid |-> rt', oid |-> rt', live |-> TRUE]
                  /\ \A k \in Key : cache'[k] = None

LoginRestores == [][\A c \in Call : Restores(c)]_vars

\* When the last deletion of a logout (or of the cleanup after a revocation)
\* is done, nothing of the session or of the cache is left.
NothingLeft == \A c \in Call : DeleteMetadata(c) =>
                  /\ rt' = None
                  /\ meta' = None
                  /\ \A k \in Key : cache'[k] = None

LogoutClears == [][NothingLeft]_vars

\* The session in force: both secrets present; it is the one metadata names.
InForce == rt # None /\ meta # None

\* Serial calls whose steps do not fail implement the session of UserSession:
\* a login takes effect with its last write, a logout with the deletion of
\* the refresh token, and every answer is about the session in force.
Abstract == INSTANCE UserSession WITH
  current <- IF InForce THEN meta.sid ELSE None,
  expired <- IF InForce THEN ~meta.live ELSE FALSE,
  asked   <- [c \in Call |-> IF job[c].op = None THEN None
                             ELSE [op |-> job[c].op, env |-> job[c].env]],
  answer  <- reply

ImplementsUserSession == Abstract!Spec

\* No call runs forever: the deletions and the purge go through the keys
\* listed at the start, however many entries other calls add meanwhile.
CallsEnd == \A c \in Call : ~Idle(c) ~> Idle(c)

\* How far a call is.  No operation goes back: a token request that is told of
\* a revocation goes on to the deletions, one that gets an answer to the writes.
Stage(l) ==
  CASE l \in {"auth", "valid_rt"}       -> 1
    [] l = "valid_meta"                 -> 2
    [] l \in {"exists", "cache_get"}    -> 3
    [] l \in {"status_meta", "mint_rt"} -> 4
    [] l = "mint_meta"                  -> 5
    [] l \in {"post", "acquire"}        -> 6
    [] l = "list"                       -> 7
    [] l \in {"delete", "peek", "drop"} -> 8
    [] l \in {"put_rt", "del_rt"}       -> 9
    [] l \in {"put_meta", "del_meta"}   -> 10
    [] l = "put_cache"                  -> 11
    [] l = "idle"                       -> 12

\* A later stage, or fewer of the listed keys to go through.
Advances(c) ==
  \/ Stage(pc'[c]) > Stage(pc[c])
  \/ /\ pc'[c] \in {"delete", "peek"}
     /\ job'[c].todo \subseteq job[c].todo
     /\ job'[c].todo # job[c].todo
  \/ pc[c] = "peek" /\ pc'[c] = "drop" /\ job'[c].todo = job[c].todo

\* Every step of a call, one that fails included, brings it nearer to its
\* answer, and what other calls and the clock do never sets it back: the
\* deletions and the purge do not list the keys again, no request is sent to
\* the provider twice.  That is what CallsEnd rests on besides fairness.
StepsAdvance ==
  [][\A c \in Call : ~Idle(c) => IF Step(c) \/ Crash(c) THEN Advances(c)
                                ELSE UNCHANGED <<pc[c], job[c]>>]_vars

\* README: logout "clears the stored session".  Once signed out, only a login
\* signs in again.
OnlyLoginSignsIn ==
  [][rt = None /\ rt' # None
       => \E c \in Call : At(c, "put_rt") /\ job[c].op = "login"]_vars
=============================================================================
