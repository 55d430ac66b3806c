-------------------------- MODULE UserSessionProofs --------------------------
(***************************************************************************)
(* CliSession implements UserSession when calls run one at a time and      *)
(* nothing fails: for any sessions, any order of calls, in any             *)
(* environments, and whatever the provider answers.                        *)
(***************************************************************************)
EXTENDS CliSessionProofs

Perfect == Serial /\ FaultKinds = {}

\* A session GetToken and GetStatus find valid.
Valid == rt # None /\ Live

\* Which operations come to each step; OpAt says it of the steps of tokens.
OpsAt(l) ==
  CASE l = "auth"                             -> {"login"}
    [] l \in {"list", "delete"}               -> {"login", "logout", "token", "purge"}
    [] l \in {"del_rt", "del_meta"}           -> {"logout", "token"}
    [] l \in {"valid_rt", "valid_meta"}       -> {"token", "status"}
    [] l \in {"exists", "status_meta"}        -> {"status"}
    [] l \in {"peek", "drop"}                 -> {"purge"}
    [] OTHER                                  -> {"login", "token"}

Doing(c) ==
  /\ pc[c] = "idle" => job[c].op = None
  /\ pc[c] # "idle" => job[c].op \in OpsAt(pc[c])
  /\ pc[c] = "delete" => job[c].op # "purge"

\* The steps of a token request that has chosen its credential.
Serving(c) == \/ pc[c] \in {"cache_get", "mint_rt", "mint_meta", "post", "acquire", "put_cache"}
              \/ pc[c] \in {"put_rt", "put_meta"} /\ job[c].op = "token"

\* Those of one that goes on with the session's metadata.
Renewing(c) == \/ pc[c] = "post"
               \/ pc[c] \in {"put_rt", "put_meta"} /\ job[c].op = "token"
               \/ pc[c] = "put_cache" /\ job[c].key # EnvKey

\* How what a call has decided stands to the session in force.
ForceAt(c) ==
  /\ Doing(c)
  /\ \/ pc[c] \in {"post", "put_rt", "put_meta"}
     \/ pc[c] \in {"list", "delete"} /\ job[c].op = "login"
     => job[c].md.oid = job[c].md.sid
  /\ Renewing(c) => rt # None /\ meta # None /\ meta.sid = rt
  /\ Serving(c) => (job[c].key = EnvKey <=> job[c].env /\ ~Valid)
  /\ pc[c] \in {"exists", "status_meta"} => ~job[c].env /\ ~Valid
  /\ pc[c] = "status_meta" => rt # None

\* The metadata name the user; they go with the refresh token, but for the
\* end of a logout; and a user's token is cached with them only.
ForceInv ==
  /\ meta # None => meta.oid = meta.sid
  /\ rt = None /\ meta # None => \E c \in Call : pc[c] = "del_meta"
  /\ \A k \in Key : cache[k] # None /\ cache[k].user # App => meta # None
  /\ \A c \in Call : ForceAt(c)

IInv == TypeOK /\ Loaded /\ KindsApart /\ PairInv /\ CleanInv /\ ForceInv

-----------------------------------------------------------------------------
(* The strengthening is inductive.                                         *)

LEMMA NoFaults == Perfect => \A kind : ~Fault(kind)
BY DEF Perfect, Fault

LEMMA NoMissedReads == Perfect => \A absent : NotRead(absent) => absent
BY NoFaults DEF NotRead

LEMMA Conditions == Perfect => Serial /\ WritesComplete /\ DeletesComplete
BY DEF Perfect, WritesComplete, DeletesComplete

\* While c takes a step, what the invariants say of the other calls does not
\* matter.
LEMMA InStep ==
  ASSUME IInv, Perfect, NEW c \in Call, CallStep(c)
  PROVE  /\ LoadedAt(c) /\ PairAt(c) /\ CleanAt(c) /\ ForceAt(c)
         /\ Others(c)
         /\ \A d \in Call \ {c} : pc[d] = "idle" /\ pc'[d] = "idle"
         /\ pc[c] # "put_meta" /\ rt # None /\ meta # None => meta.sid = rt
         /\ pc[c] # "del_meta" /\ rt = None => meta = None
<1>1. Serial /\ TypeOK /\ OneActive
  BY DEF Perfect, IInv, PairInv
<1>2. \A d \in Call \ {c} : pc[d] = "idle" /\ pc'[d] = "idle"
  BY <1>1, OthersIdle
<1>3. Others(c)
  BY <1>1, StepIsLocal DEF CallStep
<1>4. pc[c] # "put_meta" /\ rt # None /\ meta # None => meta.sid = rt
  BY <1>2 DEF IInv, PairInv, SessionPaired, At
<1>5. pc[c] # "del_meta" /\ rt = None => meta = None
  BY <1>2 DEF IInv, ForceInv
<1> QED BY <1>2, <1>3, <1>4, <1>5 DEF IInv, Loaded, PairInv, CleanInv, ForceInv

LEMMA ForceReturn ==
  ASSUME TypeOK, NEW c \in Call, NEW who, Return(c, who)
  PROVE  ForceAt(c)'
BY DEF TypeOK, Return, Goto, Blank, ForceAt, Doing, Renewing, Serving

LEMMA ForceOthers ==
  ASSUME IInv, Perfect, NEW c \in Call, CallStep(c), ForceAt(c)'
  PROVE  \A d \in Call : ForceAt(d)'
<1>1. ASSUME NEW d \in Call, d # c PROVE ForceAt(d)'
  <2>1. pc[d] = "idle" /\ pc'[d] = "idle" /\ job'[d] = job[d]
    BY <1>1, InStep DEF Others
  <2>2. job[d].op = None
    BY <2>1 DEF IInv, ForceInv, ForceAt, Doing
  <2> QED BY <2>1, <2>2 DEF ForceAt, Doing, Renewing, Serving
<1> QED BY <1>1

\* A step that leaves the store alone.
LEMMA ForceRead ==
  ASSUME IInv, Perfect, NEW c \in Call, CallStep(c), UNCHANGED store, pc[c] # "del_meta",
         ForceAt(c)'
  PROVE  ForceInv'
<1>1. rt = None => meta = None
  BY InStep
<1>2. \A d \in Call : ForceAt(d)'
  BY ForceOthers
<1>3. UNCHANGED <<rt, meta, cache>>
  BY DEF store
<1> QED BY <1>1, <1>2, <1>3 DEF ForceInv, IInv

LEMMA ForceStart ==
  ASSUME IInv, Perfect, NEW c \in Call, NEW o \in OpName, NEW force \in BOOLEAN,
         NEW env \in BOOLEAN, Start(c, o, force, env)
  PROVE  ForceInv'
<1>1. pc'[c] = Entry(o) /\ job'[c].op = o /\ pc[c] = "idle" /\ UNCHANGED store
  BY DEF Start, Goto, IInv, TypeOK, Idle, Blank
<1>2. pc'[c] # "idle" /\ Doing(c)'
  BY <1>1 DEF Entry, Doing, OpsAt, OpName
<1>3. pc'[c] \in {"valid_rt", "auth", "list"} /\ (pc'[c] = "list" => o # "login")
  BY <1>1 DEF Entry
<1>4. ForceAt(c)'
  BY <1>1, <1>2, <1>3 DEF ForceAt, Renewing, Serving
<1> QED BY <1>1, <1>4, ForceRead DEF CallStep

LEMMA ForceLogin ==
  ASSUME IInv, Perfect, NEW c \in Call, LoginStep(c)
  PROVE  ForceInv'
<1>0. CallStep(c) /\ TypeOK /\ ForceAt(c) /\ UNCHANGED store /\ pc[c] = "auth"
  BY InStep DEF CallStep, Step, IInv, LoginStep, Authenticate, AuthenticateFails, At
<1>1. CASE Authenticate(c)
  <2>1. PICK s \in Session \ issued :
          job' = [job EXCEPT ![c].rt = s, ![c].md = [sid |-> s, oid |-> s, live |-> TRUE]]
    BY <1>1, NoFaults DEF Authenticate, NewMetadata
  <2>2. job'[c].md.oid = job'[c].md.sid /\ job'[c].op = job[c].op /\ pc'[c] = "list"
    BY <1>0, <1>1, <2>1 DEF TypeOK, Job, Authenticate, Goto
  <2>3. ForceAt(c)'
    BY <1>0, <2>2 DEF ForceAt, Doing, OpsAt, Renewing, Serving
  <2> QED BY <1>0, <2>3, ForceRead
<1>2. CASE AuthenticateFails(c)
  BY <1>0, <1>2, ForceReturn, ForceRead DEF AuthenticateFails
<1> QED BY <1>1, <1>2 DEF LoginStep

\* The steps that clear the cache do not touch the secrets.
LEMMA ForceClear ==
  ASSUME IInv, Perfect, NEW c \in Call, ClearStep(c)
  PROVE  ForceInv'
<1>0. /\ CallStep(c) /\ TypeOK /\ ForceAt(c) /\ UNCHANGED <<rt, meta>>
      /\ pc[c] \in {"list", "delete"}
      /\ rt = None => meta = None
  BY InStep DEF CallStep, Step, IInv, ClearStep, ListKeys, ListKeysFails, DeleteCached,
                ClearDone, At, store
<1>1. ~ListKeysFails(c)
  BY NoFaults DEF ListKeysFails
<1>2. /\ job'[c].op = job[c].op /\ job'[c].md = job[c].md
      /\ pc'[c] \in {"delete", "peek", "put_rt", "del_rt"}
      /\ pc'[c] = "peek" <=> job[c].op = "purge"
      /\ pc'[c] = "put_rt" => job[c].op = "login"
      /\ pc'[c] = "del_rt" => job[c].op # "login"
  <2>1. CASE ListKeys(c)
    BY <1>0, <2>1 DEF ListKeys, Goto, TypeOK, Job
  <2>2. CASE DeleteCached(c)
    BY <1>0, <2>2 DEF DeleteCached, At, TypeOK, Job, ForceAt, Doing
  <2>3. CASE ClearDone(c)
    BY <1>0, <2>3 DEF ClearDone, AfterClear, At, Goto, TypeOK, ForceAt, Doing
  <2> QED BY <1>1, <2>1, <2>2, <2>3 DEF ClearStep
<1>3. ForceAt(c)'
  <2>1. job[c].op \in {"login", "logout", "token", "purge"}
        /\ (job[c].op = "login" => job[c].md.oid = job[c].md.sid)
    BY <1>0 DEF ForceAt, Doing, OpsAt
  <2>2. Doing(c)'
    BY <1>2, <2>1 DEF Doing, OpsAt
  <2> QED BY <1>0, <1>2, <2>1, <2>2 DEF ForceAt, Renewing, Serving
<1>4. \A k \in Key : cache'[k] # None => cache[k] # None /\ cache'[k] = cache[k]
  BY <1>0, <1>1 DEF ClearStep, ListKeys, DeleteCached, ClearDone, store, TypeOK
<1>5. \A d \in Call : ForceAt(d)'
  BY <1>0, <1>3, ForceOthers
<1> QED BY <1>0, <1>4, <1>5 DEF ForceInv, IInv

\* What a store step writes: the session of the call.
LEMMA ForceStore ==
  ASSUME IInv, Perfect, NEW c \in Call, StoreStep(c)
  PROVE  ForceInv'
<1>0. /\ CallStep(c) /\ TypeOK /\ ForceAt(c) /\ PairAt(c) /\ LoadedAt(c) /\ ~StoreFails(c)
      /\ pc[c] \in {"put_rt", "put_meta"}
      /\ rt = None => meta = None
  BY InStep, NoFaults DEF CallStep, Step, IInv, StoreStep, PutRefreshToken, PutMetadata,
                          StoreFails, At
<1>1. /\ job[c].rt # None /\ job[c].md \in Metadata
      /\ job[c].md.sid = job[c].rt /\ job[c].md.oid = job[c].md.sid
  BY <1>0, JobFields, MetadataFields DEF LoadedAt, PairAt, ForceAt
<1>2. job[c].op \in {"login", "token"}
  BY <1>0 DEF PairAt, OpAt
<1>3. CASE PutRefreshToken(c)
  <2>1. pc'[c] = "put_meta" /\ pc[c] = "put_rt" /\ job' = job /\ rt' = job[c].rt
        /\ UNCHANGED <<meta, cache>>
    BY <1>0, <1>3 DEF PutRefreshToken, Goto, At, TypeOK
  <2>2. job[c].op = "token" => rt' = rt
    BY <1>0, <2>1 DEF PairAt, CurrentAt
  <2>3. ForceAt(c)'
    BY <1>0, <1>1, <1>2, <2>1, <2>2
       DEF ForceAt, Doing, OpsAt, Renewing, Serving, Valid, Live
  <2>4. \A d \in Call : ForceAt(d)'
    BY <1>0, <2>3, ForceOthers
  <2> QED BY <1>1, <2>1, <2>4 DEF ForceInv, IInv
<1>4. CASE PutMetadata(c)
  <2>1. /\ meta' = [job[c].md EXCEPT !.live = TRUE] /\ pc[c] = "put_meta"
        /\ UNCHANGED <<rt, cache>>
        /\ \/ Return(c, job[c].md.oid)
           \/ pc'[c] = "put_cache" /\ UNCHANGED job /\ job[c].op = "token"
    BY <1>0, <1>2, <1>4 DEF PutMetadata, StoredMetadata, At, Goto, TypeOK
  <2>2. meta' \in Metadata /\ meta'.sid = job[c].rt /\ meta'.oid = meta'.sid /\ meta'.live
    BY <1>1, <2>1 DEF Metadata
  <2>3. rt = job[c].rt /\ rt # None /\ meta' # None
    BY <1>0, <1>1, <2>1, <2>2, SessionAssumption DEF PairAt
  <2>4. Valid'
    BY <2>1, <2>2, <2>3 DEF Valid, Live
  <2>5. job[c].op = "token" => job[c].key # EnvKey
    BY <1>0 DEF LoadedAt
  <2>6. ForceAt(c)'
    <3>1. CASE pc'[c] = "put_cache" /\ UNCHANGED job /\ job[c].op = "token"
      BY <2>1, <2>2, <2>3, <2>4, <2>5, <3>1 DEF ForceAt, Doing, OpsAt, Renewing, Serving
    <3> QED BY <1>0, <2>1, <3>1, ForceReturn
  <2>7. \A d \in Call : ForceAt(d)'
    BY <1>0, <2>6, ForceOthers
  <2> QED BY <2>1, <2>2, <2>3, <2>7 DEF ForceInv
<1> QED BY <1>3, <1>4 DEF StoreStep

\* The refresh token goes first, and the cache before it.
LEMMA ForceDelete ==
  ASSUME IInv, Perfect, NEW c \in Call, DeleteStep(c)
  PROVE  ForceInv'
<1>0. /\ CallStep(c) /\ TypeOK /\ ForceAt(c) /\ CleanAt(c)
      /\ pc[c] \in {"del_rt", "del_meta"}
      /\ \A d \in Call \ {c} : pc'[d] = "idle"
  BY InStep DEF CallStep, Step, IInv, DeleteStep, DeleteRefreshToken, DeleteMetadata, At
<1>1. \A k \in Key : cache[k] = None
  BY <1>0 DEF CleanAt
<1>2. CASE DeleteRefreshToken(c)
  <2>1. pc'[c] = "del_meta" /\ pc[c] = "del_rt" /\ rt' = None /\ UNCHANGED <<meta, cache, job>>
    BY <1>0, <1>2, NoFaults DEF DeleteRefreshToken, Goto, At, TypeOK
  <2>2. ForceAt(c)'
    BY <1>0, <2>1 DEF ForceAt, Doing, OpsAt, Renewing, Serving
  <2>3. \A d \in Call : ForceAt(d)'
    BY <1>0, <2>2, ForceOthers
  <2> QED BY <1>1, <2>1, <2>3 DEF ForceInv, IInv
<1>3. CASE DeleteMetadata(c)
  <2>1. meta' = None /\ UNCHANGED <<rt, cache>> /\ Return(c, None)
    BY <1>3, NoFaults DEF DeleteMetadata
  <2>2. \A d \in Call : ForceAt(d)'
    BY <1>0, <2>1, ForceReturn, ForceOthers
  <2> QED BY <1>1, <2>1, <2>2 DEF ForceInv
<1> QED BY <1>2, <1>3 DEF DeleteStep

\* A call that has chosen a key for its request goes on with it.
LEMMA ForceServe ==
  ASSUME IInv, NEW c \in Call, NEW key, ServeUnder(c, key), job[c].op = "token",
         UNCHANGED store, key = EnvKey <=> job[c].env /\ ~Valid
  PROVE  ForceAt(c)'
<1>1. /\ pc'[c] \in {"cache_get", "mint_rt", "acquire"} /\ job'[c].key = key
      /\ job'[c].op = "token" /\ job'[c].env = job[c].env
  BY DEF ServeUnder, FirstStep, NewToken, Goto, IInv, TypeOK, Job
<1>2. Valid' = Valid
  BY DEF Valid, Live, store
<1> QED BY <1>1, <1>2 DEF ForceAt, Doing, OpsAt, Renewing, Serving

LEMMA ForceNoValid ==
  ASSUME IInv, NEW c \in Call, NoValidSession(c), UNCHANGED store, ~Valid
  PROVE  ForceAt(c)'
<1>1. UserKey(None, None) # EnvKey
  BY UserKeys DEF Maybe
<1>2. CASE job[c].op = "token" /\ ServeUnder(c, KeyWithoutSession(c))
  <2>1. KeyWithoutSession(c) = EnvKey <=> job[c].env
    BY <1>1 DEF KeyWithoutSession
  <2> QED BY <1>2, <2>1, ForceServe
<1>3. CASE job[c].op = "status" /\ ~job[c].env /\ Goto(c, "exists") /\ UNCHANGED job
  <2>1. pc'[c] = "exists" /\ job' = job /\ ~Valid'
    BY <1>3 DEF Goto, IInv, TypeOK, Valid, Live, store
  <2> QED BY <1>3, <2>1 DEF ForceAt, Doing, OpsAt, Renewing, Serving
<1> QED BY <1>2, <1>3, ForceReturn DEF NoValidSession, IInv

LEMMA ForceValid ==
  ASSUME IInv, Perfect, NEW c \in Call, ValidStep(c)
  PROVE  ForceInv'
<1>0. /\ CallStep(c) /\ TypeOK /\ ForceAt(c) /\ PairAt(c) /\ UNCHANGED store
      /\ pc[c] \in {"valid_rt", "valid_meta"}
  BY InStep DEF CallStep, Step, IInv, ValidStep, ValidRefreshToken, ValidMetadata, At
<1>1. ForceAt(c)'
  <2>1. CASE ValidRefreshToken(c)
    <3>1. CASE rt # None /\ Goto(c, "valid_meta") /\ UNCHANGED job
      <4>1. pc'[c] = "valid_meta" /\ job' = job /\ pc[c] = "valid_rt"
        BY <1>0, <2>1, <3>1 DEF Goto, TypeOK, ValidRefreshToken, At
      <4> QED BY <1>0, <4>1 DEF ForceAt, Doing, OpsAt, Renewing, Serving
    <3>2. CASE rt = None /\ NoValidSession(c)
      <4>1. ~Valid
        BY <3>2 DEF Valid
      <4> QED BY <1>0, <3>2, <4>1, ForceNoValid
    <3> QED BY <2>1, <3>1, <3>2, NoMissedReads DEF ValidRefreshToken
  <2>2. CASE ValidMetadata(c)
    <3>1. rt # None
      BY <1>0, <2>2 DEF ValidMetadata, At, PairAt
    <3>2. CASE Live /\ job[c].op = "token" /\ ServeUnder(c, UserKey(meta.sid, meta.oid))
      <4>1. meta # None /\ meta.sid \in Maybe(Session) /\ meta.oid \in Maybe(Session)
        BY <1>0, <3>2, MetadataFields DEF Live, TypeOK, Maybe
      <4>2. UserKey(meta.sid, meta.oid) # EnvKey /\ Valid
        BY <3>1, <3>2, <4>1, UserKeys DEF Valid
      <4> QED BY <1>0, <3>2, <4>2, ForceServe
    <3>3. CASE ~Live /\ NoValidSession(c)
      <4>1. ~Valid
        BY <3>3 DEF Valid
      <4> QED BY <1>0, <3>3, <4>1, ForceNoValid
    <3> QED BY <1>0, <2>2, <3>2, <3>3, NoMissedReads, ForceReturn DEF ValidMetadata
  <2> QED BY <2>1, <2>2 DEF ValidStep
<1> QED BY <1>0, <1>1, ForceRead

LEMMA ForceStatus ==
  ASSUME IInv, Perfect, NEW c \in Call, StatusStep(c)
  PROVE  ForceInv'
<1>0. /\ CallStep(c) /\ TypeOK /\ ForceAt(c) /\ UNCHANGED store
      /\ pc[c] \in {"exists", "status_meta"}
  BY InStep DEF CallStep, Step, IInv, StatusStep, SecretExists, StatusMetadata, At
<1>1. CASE rt # None /\ pc[c] = "exists" /\ Goto(c, "status_meta") /\ UNCHANGED job
  <2>1. pc'[c] = "status_meta" /\ job' = job /\ rt' # None /\ Valid' = Valid
    BY <1>0, <1>1 DEF Goto, TypeOK, Valid, Live, store
  <2>2. ForceAt(c)'
    BY <1>0, <1>1, <2>1 DEF ForceAt, Doing, OpsAt, Renewing, Serving
  <2> QED BY <1>0, <2>2, ForceRead
<1>2. ASSUME NEW who, Return(c, who) PROVE ForceInv'
  BY <1>0, <1>2, ForceReturn, ForceRead
<1> QED BY <1>1, <1>2 DEF StatusStep, SecretExists, StatusMetadata, At

LEMMA ForcePurge ==
  ASSUME IInv, Perfect, NEW c \in Call, PurgeStep(c)
  PROVE  ForceInv'
<1>0. /\ CallStep(c) /\ TypeOK /\ ForceAt(c) /\ UNCHANGED <<rt, meta>>
      /\ pc[c] \in {"peek", "drop"}
      /\ rt = None => meta = None
  BY InStep DEF CallStep, Step, IInv, PurgeStep, Peek, Drop, PurgeDone, At, store
<1>1. ForceAt(c)'
  <2>1. CASE pc'[c] \in {"peek", "drop"} /\ job'[c].op = job[c].op
    BY <1>0, <2>1 DEF ForceAt, Doing, OpsAt, Renewing, Serving
  <2>2. PurgeDone(c) \/ (pc'[c] \in {"peek", "drop"} /\ job'[c].op = job[c].op)
    BY <1>0 DEF PurgeStep, Peek, Drop, At, Goto, TypeOK, Job
  <2> QED BY <1>0, <2>1, <2>2, ForceReturn DEF PurgeDone
<1>2. \A k \in Key : cache'[k] # None => cache[k] # None /\ cache'[k] = cache[k]
  BY <1>0, JobFields DEF PurgeStep, Peek, Drop, PurgeDone, store, TypeOK
<1>3. \A d \in Call : ForceAt(d)'
  BY <1>0, <1>1, ForceOthers
<1> QED BY <1>0, <1>2, <1>3 DEF ForceInv, IInv

\* A call that serves a token goes on with the key it has.
LEMMA ForceGoOn ==
  ASSUME IInv, NEW c \in Call, UNCHANGED store, Serving(c), ForceAt(c),
         job'[c].op = job[c].op, job'[c].env = job[c].env, job'[c].key = job[c].key,
         job[c].op = "token",
         pc'[c] \in {"mint_rt", "mint_meta", "post", "acquire", "put_rt", "put_cache"},
         pc'[c] \in {"post", "put_rt"} => job'[c].md.oid = job'[c].md.sid,
         Renewing(c)' => rt # None /\ meta # None /\ meta.sid = rt
  PROVE  ForceAt(c)'
<1>1. Valid' = Valid /\ rt' = rt /\ meta' = meta
  BY DEF Valid, Live, store
<1>2. Serving(c)' /\ Doing(c)'
  BY DEF Serving, Doing, OpsAt
<1> QED BY <1>1, <1>2 DEF ForceAt, Serving

LEMMA ForceMint ==
  ASSUME IInv, Perfect, NEW c \in Call, MintStep(c)
  PROVE  ForceInv'
<1>0. /\ CallStep(c) /\ TypeOK /\ ForceAt(c) /\ PairAt(c) /\ LoadedAt(c)
      /\ UNCHANGED <<rt, meta>> /\ pc[c] # "put_meta" /\ pc[c] # "del_meta"
      /\ pc[c] \in {"cache_get", "mint_rt", "mint_meta", "post", "acquire", "put_cache"}
      /\ rt # None /\ meta # None => meta.sid = rt
      /\ rt = None => meta = None
  BY InStep DEF CallStep, Step, IInv, MintStep, CacheGet, MintRefreshToken, MintMetadata,
                PostGranted, PostRefused, PostRevoked, Acquire, PutCache, At, store
<1>1. Serving(c) /\ job[c].op = "token"
  BY <1>0 DEF Serving, PairAt, OpAt
<1>2. ASSUME NEW who, Return(c, who), UNCHANGED store PROVE ForceInv'
  BY <1>0, <1>2, ForceReturn, ForceRead
<1>3. ASSUME ForceAt(c)', UNCHANGED store PROVE ForceInv'
  BY <1>0, <1>3, ForceRead
<1>4. CASE CacheGet(c)
  <2>1. CASE Goto(c, NewToken(job[c].key)) /\ UNCHANGED <<job, store>>
    <3>1. pc'[c] \in {"acquire", "mint_rt"} /\ job' = job
      BY <1>0, <2>1 DEF Goto, NewToken, TypeOK
    <3> QED BY <1>0, <1>1, <1>3, <2>1, <3>1, ForceGoOn DEF Renewing
  <2> QED BY <1>2, <1>4, <2>1 DEF CacheGet
<1>5. CASE MintRefreshToken(c)
  <2>1. CASE job' = [job EXCEPT ![c].rt = rt] /\ Goto(c, "mint_meta") /\ UNCHANGED store
    <3>1. /\ pc'[c] = "mint_meta" /\ job'[c].op = job[c].op /\ job'[c].env = job[c].env
          /\ job'[c].key = job[c].key
      BY <1>0, <2>1 DEF Goto, TypeOK, Job
    <3> QED BY <1>0, <1>1, <1>3, <2>1, <3>1, ForceGoOn DEF Renewing
  <2> QED BY <1>2, <1>5, <2>1 DEF MintRefreshToken
<1>6. CASE MintMetadata(c)
  <2>1. CASE meta # None /\ job' = [job EXCEPT ![c].md = meta] /\ Goto(c, "post") /\ UNCHANGED store
    <3>1. /\ pc'[c] = "post" /\ job'[c].op = job[c].op /\ job'[c].env = job[c].env
          /\ job'[c].key = job[c].key /\ job'[c].md = meta
      BY <1>0, <2>1 DEF Goto, TypeOK, Job
    <3>2. meta.oid = meta.sid /\ meta.sid = rt /\ rt # None
      BY <1>0, <2>1 DEF IInv, ForceInv
    <3> QED BY <1>0, <1>1, <1>3, <2>1, <3>1, <3>2, ForceGoOn
  <2> QED BY <1>2, <1>6, <2>1 DEF MintMetadata
<1>7. CASE PostGranted(c)
  <2>0. /\ pc[c] = "post" /\ UNCHANGED store
        /\ job[c].md \in Metadata /\ job[c].md.sid = job[c].rt /\ job[c].md.oid = job[c].md.sid
        /\ rt # None /\ meta # None /\ meta.sid = rt
    BY <1>0, <1>7, JobFields, MetadataFields
       DEF PostGranted, At, LoadedAt, PairAt, ForceAt, Renewing
  <2>1. /\ pc'[c] \in {"put_cache", "put_rt"} /\ job'[c].op = job[c].op
        /\ job'[c].env = job[c].env /\ job'[c].key = job[c].key
        /\ job'[c].md.oid = job'[c].md.sid
    <3>1. CASE Goto(c, "put_cache") /\ UNCHANGED job
      BY <1>0, <2>0, <3>1 DEF Goto, TypeOK
    <3>2. ASSUME NEW oid \in {job[c].rt, job[c].md.oid},
                 job' = [job EXCEPT ![c].md.oid = oid], Goto(c, "put_rt")
          PROVE  /\ pc'[c] \in {"put_cache", "put_rt"} /\ job'[c].op = job[c].op
                 /\ job'[c].env = job[c].env /\ job'[c].key = job[c].key
                 /\ job'[c].md.oid = job'[c].md.sid
      <4>1. job'[c] = [job[c] EXCEPT !.md = [job[c].md EXCEPT !.oid = oid]] /\ pc'[c] = "put_rt"
        BY <1>0, <3>2 DEF Goto, TypeOK
      <4>2. job'[c].md = [job[c].md EXCEPT !.oid = oid]
        BY <1>0, <4>1 DEF TypeOK, Job
      <4>3. job'[c].op = job[c].op /\ job'[c].env = job[c].env /\ job'[c].key = job[c].key
        BY <1>0, <4>1 DEF TypeOK, Job
      <4>4. job'[c].md.oid = oid /\ job'[c].md.sid = job[c].md.sid
        BY <2>0, <4>2 DEF Metadata
      <4>5. oid = job[c].md.sid
        BY <2>0
      <4> QED BY <4>1, <4>3, <4>4, <4>5
    <3> QED BY <1>7, <3>1, <3>2 DEF PostGranted
  <2> QED BY <1>0, <1>1, <1>3, <2>0, <2>1, ForceGoOn
<1>8. CASE PostRefused(c)
  BY <1>2, <1>8 DEF PostRefused
<1>9. CASE PostRevoked(c)
  <2>1. pc'[c] = "list" /\ job' = job /\ UNCHANGED store
    BY <1>0, <1>9 DEF PostRevoked, Goto, TypeOK
  <2>2. ForceAt(c)'
    BY <1>1, <2>1 DEF ForceAt, Doing, OpsAt, Renewing, Serving
  <2> QED BY <1>3, <2>1, <2>2
<1>10. CASE Acquire(c)
  <2>1. CASE Goto(c, "put_cache") /\ UNCHANGED <<job, store>>
    <3>1. pc'[c] = "put_cache" /\ job' = job /\ job[c].key = EnvKey
      BY <1>0, <1>10, <2>1 DEF Goto, TypeOK, Acquire, At, LoadedAt
    <3> QED BY <1>0, <1>1, <1>3, <2>1, <3>1, ForceGoOn DEF Renewing
  <2> QED BY <1>2, <1>10, <2>1 DEF Acquire
<1>11. CASE PutCache(c)
  <2>1. /\ pc[c] = "put_cache" /\ Return(c, Minted(c))
        /\ cache' = [cache EXCEPT ![job[c].key] = [user |-> Minted(c), life |-> "long"]]
    BY <1>11, NoFaults DEF PutCache, At
  <2>2. Minted(c) # App => meta # None
    BY <1>0, <2>1 DEF Minted, LoadedAt, ForceAt, Renewing
  <2>3. \A k \in Key : cache'[k] # None /\ cache'[k].user # App => meta # None
    BY <1>0, <2>1, <2>2, JobFields DEF TypeOK, IInv, ForceInv
  <2>4. \A d \in Call : ForceAt(d)'
    BY <1>0, <2>1, ForceReturn, ForceOthers
  <2> QED BY <1>0, <2>3, <2>4 DEF ForceInv, IInv
<1> QED BY <1>4, <1>5, <1>6, <1>7, <1>8, <1>9, <1>10, <1>11 DEF MintStep

LEMMA ForceClock ==
  ASSUME IInv, Perfect, SessionExpires \/ \E k \in Key : TokenAges(k)
  PROVE  ForceInv'
<1>1. ASSUME NEW k \in Key, TokenAges(k) PROVE ForceInv'
  <2>1. cache[k] \in Token /\ UNCHANGED <<rt, meta, pc, job>>
    BY <1>1 DEF TokenAges, IInv, TypeOK, Maybe
  <2>2. \A l \in Key : cache'[l] # None => cache[l] # None /\ cache'[l].user = cache[l].user
    BY <1>1, <2>1 DEF TokenAges, IInv, TypeOK, Token
  <2> QED BY <2>1, <2>2
          DEF IInv, ForceInv, ForceAt, Doing, Renewing, Serving, Valid, Live
<1>2. CASE SessionExpires
  <2>1. meta \in Metadata /\ UNCHANGED <<rt, cache, pc, job>> /\ \A c \in Call : pc[c] = "idle"
    BY <1>2 DEF SessionExpires, IInv, TypeOK, Maybe, Perfect, Quiet, AllIdle, Idle
  <2>2. meta' # None => meta'.oid = meta'.sid
    BY <1>2, <2>1 DEF SessionExpires, IInv, ForceInv, Metadata
  <2>3. \A c \in Call : ForceAt(c)'
    BY <2>1 DEF IInv, ForceInv, ForceAt, Doing, Renewing, Serving
  <2>4. meta # None
    BY <1>2 DEF SessionExpires
  <2>5. meta' \in Metadata
    BY <1>2, <2>1 DEF SessionExpires, Metadata
  <2>6. meta' # None
    BY <2>5, SessionAssumption
  <2>7. rt # None
    BY <2>1, <2>4 DEF IInv, ForceInv
  <2> QED BY <2>1, <2>2, <2>3, <2>6, <2>7 DEF ForceInv
<1> QED BY <1>1, <1>2

LEMMA ForceInit == Init => ForceInv
BY DEF Init, ForceInv, ForceAt, Doing, Renewing, Serving, Blank

LEMMA ForceNext ==
  ASSUME IInv, Perfect, [Next]_vars
  PROVE  ForceInv'
<1>1. ASSUME NEW c \in Call, CallStep(c) PROVE ForceInv'
  <2>1. ~Crash(c)
    BY NoFaults DEF Crash
  <2> QED BY <1>1, <2>1, ForceStart, ForceLogin, ForceClear, ForceStore, ForceDelete,
             ForceValid, ForceStatus, ForceMint, ForcePurge DEF CallStep, Step
<1>2. CASE UNCHANGED vars
  BY <1>2 DEF vars, IInv, ForceInv, ForceAt, Doing, Renewing, Serving, Valid, Live
<1> QED BY <1>1, <1>2, ForceClock, NextSplit

LEMMA InitIInv == Init => IInv
<1>1. Init => Loaded /\ KindsApart
  BY DEF Init, Loaded, LoadedAt, At, KindsApart
<1> QED BY <1>1, TypeInit, PairInit, CleanInit, ForceInit DEF IInv

LEMMA StepIInv ==
  ASSUME Perfect
  PROVE  IInv /\ [Next]_vars => IInv'
BY Conditions, TypeNext, LoadedNext, KindsNext, PairNext, CleanNext, ForceNext DEF IInv

-----------------------------------------------------------------------------
(* The refinement mapping, and what the steps of a call do under it.       *)

Current == IF InForce THEN meta.sid ELSE None
Expired == IF InForce THEN ~meta.live ELSE FALSE
Asking  == [c \in Call |-> IF job[c].op = None THEN None
                           ELSE [op |-> job[c].op, env |-> job[c].env]]

LEMMA Mapping == Abstract!vars = <<Current, Expired, Asking, reply>>
BY DEF Abstract!vars, Current, Expired, Asking

LEMMA AskingIs ==
  ASSUME TypeOK, NEW c \in Call, job[c].op # None
  PROVE  /\ Asking[c] = [op |-> job[c].op, env |-> job[c].env]
         /\ \A O : job[c].op \in O => Abstract!Doing(c, O)
<1>1. Asking[c] = [op |-> job[c].op, env |-> job[c].env]
  BY DEF Asking
<1>2. Asking[c] \in [op : OpName, env : BOOLEAN]
  BY <1>1, JobFields DEF Maybe
<1>3. Asking[c] # None /\ Asking[c].op = job[c].op
  BY <1>1, <1>2, SessionAssumption
<1> QED BY <1>1, <1>3 DEF Abstract!Doing, Asking

\* The identity status reports, seen from the two secrets.
LEMMA ReportedIs ==
  ASSUME IInv, NEW c \in Call, job[c].op # None
  PROVE  /\ Valid <=> Current # None /\ ~Expired
         /\ Abstract!Reported(c) = IF Valid THEN meta.sid ELSE IF job[c].env THEN App ELSE None
<1>0. TypeOK
  BY DEF IInv
<1>1. meta # None => meta.sid # None
  BY <1>0, MetadataFields, SessionAssumption DEF TypeOK
<1>2. Valid <=> Current # None /\ ~Expired
  BY <1>1 DEF Valid, Live, Current, Expired, InForce
<1>3. Valid => Current = meta.sid
  BY DEF Valid, Live, Current, InForce
<1>6. Asking[c] = [op |-> job[c].op, env |-> job[c].env]
  BY <1>0, AskingIs
<1>4. Asking[c].env = job[c].env
  BY <1>6
<1>5. Abstract!Reported(c) = IF Current # None /\ ~Expired THEN Current
                             ELSE IF Asking[c].env THEN App ELSE None
  BY DEF Abstract!Reported, Current, Expired, Asking
<1> QED BY <1>2, <1>3, <1>4, <1>5

LEMMA ServedIs ==
  ASSUME IInv, NEW c \in Call, job[c].op # None,
         job[c].key = EnvKey <=> job[c].env /\ ~Valid
  PROVE  /\ job[c].key = EnvKey => Abstract!Served(c) = App
         /\ job[c].key # EnvKey /\ rt # None /\ meta # None => Abstract!Served(c) = meta.sid
<1>1. Abstract!Served(c) = IF Abstract!Reported(c) # None THEN Abstract!Reported(c) ELSE Current
  BY DEF Abstract!Served, Current
<1>2. meta # None => meta.sid # None
  BY MetadataFields, SessionAssumption DEF IInv, TypeOK
<1>3. rt # None /\ meta # None => Current = meta.sid
  BY DEF Current, InForce
<1>4. App # None
  BY SessionAssumption
<1>5. Valid => rt # None /\ meta # None
  BY DEF Valid, Live
<1> QED BY <1>1, <1>2, <1>3, <1>4, <1>5, ReportedIs

\* A call that ends ends in the abstract session.
LEMMA Finishing ==
  ASSUME TypeOK, NEW c \in Call, NEW who, Return(c, who)
  PROVE  /\ Abstract!Finish(c, who)
         /\ Asking' = [Asking EXCEPT ![c] = None] /\ reply' = [reply EXCEPT ![c] = who]
<1>1. job'[c].op = None /\ \A d \in Call \ {c} : job'[d] = job[d]
  BY DEF Return, TypeOK, Blank
<1>2. Asking' = [Asking EXCEPT ![c] = None]
  BY <1>1 DEF Asking
<1> QED BY <1>2 DEF Return, Abstract!Finish, Asking

\* A step within a call does not change what was asked.
LEMMA StillAsking ==
  ASSUME NEW c \in Call, Others(c), job'[c].op = job[c].op, job'[c].env = job[c].env
  PROVE  Asking' = Asking
<1>1. \A d \in Call : job'[d].op = job[d].op /\ job'[d].env = job[d].env
  BY DEF Others
<1> QED BY <1>1 DEF Asking

MapGoal == [Abstract!Next]_(Abstract!vars)

LEMMA MapStutter ==
  ASSUME UNCHANGED <<Current, Expired, Asking, reply>>
  PROVE  MapGoal
BY Mapping DEF MapGoal, Current, Expired, Asking, Abstract!vars

\* Within a call, a step that leaves both secrets alone.
LEMMA MapWithin ==
  ASSUME IInv, Perfect, NEW c \in Call, CallStep(c), UNCHANGED <<rt, meta, reply>>,
         job'[c].op = job[c].op, job'[c].env = job[c].env
  PROVE  MapGoal
<1>1. Others(c)
  BY InStep
<1>2. Asking' = Asking
  BY <1>1, StillAsking
<1> QED BY <1>2, MapStutter DEF Current, Expired, InForce

LEMMA MapNoAnswer ==
  ASSUME IInv, NEW c \in Call, Return(c, None), UNCHANGED <<Current, Expired>>,
         job[c].op \in {"login", "token", "purge"}
  PROVE  MapGoal
<1>1. TypeOK /\ job[c].op # None
  BY SessionAssumption DEF IInv, OpName
<1>2. Abstract!NoAnswer(c)
  BY <1>1, AskingIs, Finishing DEF Abstract!NoAnswer, Current, Expired
<1> QED BY <1>2 DEF MapGoal, Abstract!Next

LEMMA MapServe ==
  ASSUME IInv, NEW c \in Call, NEW who, Return(c, who), UNCHANGED <<Current, Expired>>,
         job[c].op = "token", who = Abstract!Served(c)
  PROVE  MapGoal
<1>1. TypeOK /\ job[c].op # None
  BY SessionAssumption DEF IInv, OpName
<1>2. Asking' = [Asking EXCEPT ![c] = None] /\ reply' = [reply EXCEPT ![c] = Abstract!Served(c)]
  BY <1>1, Finishing
<1>3. Abstract!Serve(c)
  BY <1>1, <1>2, AskingIs DEF Abstract!Serve, Abstract!Finish, Current, Expired, Asking
<1> QED BY <1>3 DEF MapGoal, Abstract!Next

LEMMA MapReport ==
  ASSUME IInv, NEW c \in Call, NEW who, Return(c, who), UNCHANGED <<Current, Expired>>,
         job[c].op = "status", who = Abstract!Reported(c)
  PROVE  MapGoal
<1>1. TypeOK /\ job[c].op # None
  BY SessionAssumption DEF IInv, OpName
<1>2. Asking' = [Asking EXCEPT ![c] = None] /\ reply' = [reply EXCEPT ![c] = Abstract!Reported(c)]
  BY <1>1, Finishing
<1>3. Abstract!Report(c)
  BY <1>1, <1>2, AskingIs DEF Abstract!Report, Abstract!Finish, Current, Expired, Asking
<1> QED BY <1>3 DEF MapGoal, Abstract!Next

-----------------------------------------------------------------------------
(* Every step implements one of the abstract session, or none.             *)

LEMMA MapStart ==
  ASSUME IInv, NEW c \in Call, NEW o \in OpName, NEW force \in BOOLEAN, NEW env \in BOOLEAN,
         Start(c, o, force, env)
  PROVE  MapGoal
<1>1. /\ pc[c] = "idle" /\ UNCHANGED <<rt, meta>>
      /\ job'[c].op = o /\ job'[c].env = env
      /\ \A d \in Call \ {c} : job'[d] = job[d]
      /\ reply' = [reply EXCEPT ![c] = None]
  BY DEF Start, Idle, store, IInv, TypeOK, Blank
<1>2. o # None
  BY SessionAssumption
<1>3. Asking[c] = None /\ Asking' = [Asking EXCEPT ![c] = [op |-> o, env |-> env]]
  <2>1. job[c].op = None
    BY <1>1 DEF IInv, ForceInv, ForceAt, Doing
  <2> QED BY <1>1, <1>2, <2>1 DEF Asking
<1>4. [op |-> o, env |-> env] \in Abstract!Asked
  BY DEF Abstract!Asked, OpName
<1>5. Abstract!Ask(c, [op |-> o, env |-> env])
  BY <1>1, <1>3 DEF Abstract!Ask, Asking, InForce
<1> QED BY <1>4, <1>5 DEF MapGoal, Abstract!Next

LEMMA MapLogin ==
  ASSUME IInv, Perfect, NEW c \in Call, LoginStep(c)
  PROVE  MapGoal
<1>0. CallStep(c) /\ TypeOK /\ ForceAt(c) /\ UNCHANGED <<rt, meta>> /\ pc[c] = "auth"
  BY InStep DEF CallStep, Step, IInv, LoginStep, Authenticate, AuthenticateFails, At, store
<1>1. CASE Authenticate(c)
  BY <1>0, <1>1, MapWithin DEF Authenticate, TypeOK, Job
<1>2. CASE AuthenticateFails(c)
  <2>1. job[c].op = "login"
    BY <1>0 DEF ForceAt, Doing, OpsAt
  <2>2. UNCHANGED <<Current, Expired>>
    BY <1>0 DEF Current, Expired, InForce
  <2> QED BY <1>2, <2>1, <2>2, MapNoAnswer DEF AuthenticateFails
<1> QED BY <1>1, <1>2 DEF LoginStep

LEMMA MapClear ==
  ASSUME IInv, Perfect, NEW c \in Call, ClearStep(c)
  PROVE  MapGoal
<1>0. CallStep(c) /\ TypeOK /\ ~ListKeysFails(c)
  BY NoFaults DEF CallStep, Step, IInv, ListKeysFails
<1>1. UNCHANGED <<rt, meta, reply>>
  BY <1>0 DEF ClearStep, ListKeys, DeleteCached, ClearDone, store
<1>2. job'[c].op = job[c].op /\ job'[c].env = job[c].env
  BY <1>0 DEF ClearStep, ListKeys, DeleteCached, ClearDone, TypeOK, Job
<1> QED BY <1>0, <1>1, <1>2, MapWithin

\* The write of the metadata is where a login or a rotation takes effect.
LEMMA MapStore ==
  ASSUME IInv, Perfect, NEW c \in Call, StoreStep(c)
  PROVE  MapGoal
<1>0. /\ CallStep(c) /\ TypeOK /\ ForceAt(c) /\ PairAt(c) /\ LoadedAt(c) /\ ~StoreFails(c)
      /\ pc[c] \in {"put_rt", "put_meta"}
      /\ rt = None => meta = None
      /\ Others(c)
  BY InStep, NoFaults DEF CallStep, Step, IInv, StoreStep, PutRefreshToken, PutMetadata,
                          StoreFails, At
<1>1. /\ job[c].rt # None /\ job[c].md \in Metadata
      /\ job[c].md.sid = job[c].rt /\ job[c].md.oid = job[c].md.sid
      /\ job[c].rt \in Session
  BY <1>0, JobFields, MetadataFields DEF LoadedAt, PairAt, ForceAt, Maybe
<1>2. job[c].op \in {"login", "token"} /\ job[c].op # None
  BY <1>0, SessionAssumption DEF PairAt, OpAt, OpName
<1>3. CASE PutRefreshToken(c)
  <2>1. job' = job /\ reply' = reply /\ rt' = job[c].rt /\ meta' = meta
    BY <1>0, <1>3 DEF PutRefreshToken
  <2>2. Asking' = Asking
    BY <2>1 DEF Asking
  <2> QED BY <1>0, <1>1, <2>1, <2>2, MapStutter DEF Current, Expired, InForce
<1>4. CASE PutMetadata(c)
  <2>1. /\ meta' = [job[c].md EXCEPT !.live = TRUE] /\ rt' = rt /\ pc[c] = "put_meta"
        /\ \/ Return(c, job[c].md.oid) /\ job[c].op = "login"
           \/ UNCHANGED <<job, reply>> /\ job[c].op = "token"
    BY <1>0, <1>2, <1>4 DEF PutMetadata, StoredMetadata, At
  <2>2. meta' \in Metadata /\ meta'.sid = job[c].rt /\ meta'.live = TRUE
    BY <1>1, <2>1 DEF Metadata
  <2>3. rt = job[c].rt /\ rt # None /\ meta' # None
    BY <1>0, <1>1, <2>1, <2>2, SessionAssumption DEF PairAt
  <2>4. Current' = job[c].rt /\ Expired' = FALSE
    BY <2>1, <2>2, <2>3 DEF Current, Expired, InForce
  <2>5. CASE Return(c, job[c].md.oid) /\ job[c].op = "login"
    <3>0. Asking' = [Asking EXCEPT ![c] = None] /\ reply' = [reply EXCEPT ![c] = job[c].md.oid]
      BY <1>0, <2>5, Finishing
    <3>1. reply' = [reply EXCEPT ![c] = job[c].rt]
      BY <1>1, <3>0
    <3>2. Abstract!SignIn(c)
      BY <1>0, <1>1, <1>2, <2>4, <2>5, <3>0, <3>1, AskingIs
         DEF Abstract!SignIn, Abstract!Finish, Current, Expired, Asking
    <3> QED BY <3>2 DEF MapGoal, Abstract!Next
  <2>6. CASE UNCHANGED <<job, reply>> /\ job[c].op = "token"
    <3>1. Current = job[c].rt
      BY <1>0, <2>1, <2>3, <2>6 DEF ForceAt, Renewing, Current, InForce
    <3>2. Asking' = Asking
      BY <2>6 DEF Asking
    <3>3. Abstract!Renew(c)
      BY <1>0, <1>1, <1>2, <2>4, <2>6, <3>1, <3>2, AskingIs
         DEF Abstract!Renew, Current, Expired, Asking
    <3> QED BY <3>3 DEF MapGoal, Abstract!Next
  <2> QED BY <2>1, <2>5, <2>6
<1> QED BY <1>3, <1>4 DEF StoreStep

\* The deletion of the refresh token is where a logout does.
LEMMA MapDelete ==
  ASSUME IInv, Perfect, NEW c \in Call, DeleteStep(c)
  PROVE  MapGoal
<1>0. /\ CallStep(c) /\ TypeOK /\ ForceAt(c) /\ CleanAt(c)
      /\ pc[c] \in {"del_rt", "del_meta"}
  BY InStep DEF CallStep, Step, IInv, DeleteStep, DeleteRefreshToken, DeleteMetadata, At
<1>1. job[c].op \in {"logout", "token"} /\ job[c].op # None
  BY <1>0, SessionAssumption DEF ForceAt, Doing, OpsAt, OpName
<1>2. CASE DeleteRefreshToken(c)
  <2>1. rt' = None /\ UNCHANGED <<meta, job, reply>>
    BY <1>2, NoFaults DEF DeleteRefreshToken
  <2>2. Current' = None /\ Expired' = FALSE /\ Asking' = Asking
    BY <2>1 DEF Current, Expired, InForce, Asking
  <2>3. Abstract!SignOut(c)
    BY <1>0, <1>1, <2>1, <2>2, AskingIs DEF Abstract!SignOut, Current, Expired, Asking
  <2> QED BY <2>3 DEF MapGoal, Abstract!Next
<1>3. CASE DeleteMetadata(c)
  <2>1. rt = None /\ rt' = None /\ Return(c, None)
    BY <1>0, <1>3, NoFaults DEF DeleteMetadata, At, CleanAt
  <2>2. Current = None /\ UNCHANGED <<Current, Expired>>
    BY <2>1 DEF Current, Expired, InForce
  <2>3. CASE job[c].op = "logout"
    <3>1. Abstract!LoggedOut(c)
      BY <1>0, <1>1, <2>1, <2>2, <2>3, AskingIs, Finishing
         DEF Abstract!LoggedOut, Current, Expired
    <3> QED BY <3>1 DEF MapGoal, Abstract!Next
  <2>4. CASE job[c].op = "token"
    BY <2>1, <2>2, <2>4, MapNoAnswer
  <2> QED BY <1>1, <2>3, <2>4
<1> QED BY <1>2, <1>3 DEF DeleteStep

LEMMA MapValid ==
  ASSUME IInv, Perfect, NEW c \in Call, ValidStep(c)
  PROVE  MapGoal
<1>0. /\ CallStep(c) /\ TypeOK /\ ForceAt(c) /\ PairAt(c) /\ UNCHANGED <<rt, meta>>
      /\ pc[c] \in {"valid_rt", "valid_meta"}
  BY InStep DEF CallStep, Step, IInv, ValidStep, ValidRefreshToken, ValidMetadata, At, store
<1>1. job[c].op # None
  BY <1>0, SessionAssumption DEF ForceAt, Doing, OpsAt, OpName
<1>2. UNCHANGED <<Current, Expired>>
  BY <1>0 DEF Current, Expired, InForce
<1>3. Abstract!Reported(c) = IF Valid THEN meta.sid ELSE IF job[c].env THEN App ELSE None
  BY <1>1, ReportedIs
<1>4. ASSUME NEW key, ServeUnder(c, key) PROVE MapGoal
  BY <1>0, <1>4, MapWithin DEF ServeUnder, TypeOK, Job
<1>5. ASSUME UNCHANGED <<job, reply>> PROVE MapGoal
  BY <1>0, <1>5, MapWithin
<1>6. ASSUME ~Valid, NoValidSession(c) PROVE MapGoal
  <2>1. CASE job[c].op = "status" /\ job[c].env /\ Return(c, App)
    <3>1. Abstract!Reported(c) = App
      BY <1>3, <1>6, <2>1
    <3> QED BY <1>2, <2>1, <3>1, MapReport
  <2> QED BY <1>4, <1>5, <1>6, <2>1 DEF NoValidSession
<1>7. CASE ValidRefreshToken(c)
  <2>1. ~Valid \/ UNCHANGED <<job, reply>>
    BY <1>7, NoMissedReads DEF ValidRefreshToken, Valid
  <2> QED BY <1>5, <1>6, <1>7, <2>1 DEF ValidRefreshToken
<1>8. CASE ValidMetadata(c)
  <2>1. rt # None
    BY <1>0, <1>8 DEF ValidMetadata, At, PairAt
  <2>2. CASE Live /\ job[c].op # "token" /\ Return(c, meta.oid)
    <3>1. job[c].op = "status"
      BY <1>0, <2>2 DEF ForceAt, Doing, OpsAt
    <3>2. meta # None /\ meta.oid = meta.sid /\ Valid
      BY <2>1, <2>2 DEF Live, Valid, IInv, ForceInv
    <3>3. Abstract!Reported(c) = meta.oid
      BY <1>3, <3>2
    <3> QED BY <1>2, <2>2, <3>1, <3>3, MapReport
  <2>3. CASE ~Live /\ NoValidSession(c)
    <3>1. ~Valid
      BY <2>3 DEF Valid
    <3> QED BY <1>6, <2>3, <3>1
  <2> QED BY <1>4, <1>8, <2>2, <2>3, NoMissedReads DEF ValidMetadata
<1> QED BY <1>7, <1>8 DEF ValidStep

LEMMA MapStatus ==
  ASSUME IInv, Perfect, NEW c \in Call, StatusStep(c)
  PROVE  MapGoal
<1>0. /\ CallStep(c) /\ TypeOK /\ ForceAt(c) /\ UNCHANGED <<rt, meta>>
      /\ pc[c] \in {"exists", "status_meta"}
  BY InStep DEF CallStep, Step, IInv, StatusStep, SecretExists, StatusMetadata, At, store
<1>1. job[c].op = "status" /\ job[c].op # None
  BY <1>0, SessionAssumption DEF ForceAt, Doing, OpsAt, OpName
<1>2. UNCHANGED <<Current, Expired>>
  BY <1>0 DEF Current, Expired, InForce
<1>3. Abstract!Reported(c) = None
  BY <1>0, <1>1, ReportedIs DEF ForceAt
<1>4. CASE Return(c, None)
  BY <1>1, <1>2, <1>3, <1>4, MapReport
<1>5. CASE SecretExists(c)
  BY <1>0, <1>4, <1>5, MapWithin DEF SecretExists
<1>6. CASE StatusMetadata(c)
  <2>1. ~Live
    BY <1>0, <1>6 DEF StatusMetadata, At, ForceAt, Valid
  <2> QED BY <1>4, <1>6, <2>1 DEF StatusMetadata
<1> QED BY <1>5, <1>6 DEF StatusStep

\* A token that is served, from the cache or new, is of the identity in force.
LEMMA MapMint ==
  ASSUME IInv, Perfect, NEW c \in Call, MintStep(c)
  PROVE  MapGoal
<1>0. /\ CallStep(c) /\ TypeOK /\ ForceAt(c) /\ PairAt(c) /\ LoadedAt(c)
      /\ UNCHANGED <<rt, meta>>
      /\ pc[c] \in {"cache_get", "mint_rt", "mint_meta", "post", "acquire", "put_cache"}
      /\ rt # None /\ meta # None => meta.sid = rt
      /\ rt = None => meta = None
  BY InStep DEF CallStep, Step, IInv, MintStep, CacheGet, MintRefreshToken, MintMetadata,
                PostGranted, PostRefused, PostRevoked, Acquire, PutCache, At, store
<1>1. job[c].op = "token" /\ job[c].op # None /\ Serving(c)
  BY <1>0, SessionAssumption DEF PairAt, OpAt, OpName, Serving
<1>2. UNCHANGED <<Current, Expired>>
  BY <1>0 DEF Current, Expired, InForce
<1>3. /\ job[c].key = EnvKey => Abstract!Served(c) = App
      /\ job[c].key # EnvKey /\ rt # None /\ meta # None => Abstract!Served(c) = rt
  BY <1>0, <1>1, ServedIs DEF ForceAt
<1>4. CASE Return(c, None)
  BY <1>1, <1>2, <1>4, MapNoAnswer
<1>5. ASSUME UNCHANGED reply, job'[c].op = job[c].op, job'[c].env = job[c].env PROVE MapGoal
  BY <1>0, <1>5, MapWithin
<1>6. CASE CacheGet(c)
  <2>1. CASE Return(c, cache[job[c].key].user) /\ cache[job[c].key] # None
    <3>0. job[c].key \in Key
      BY JobFields DEF IInv
    <3>1. job[c].key = EnvKey <=> cache[job[c].key].user = App
      BY <2>1, <3>0 DEF IInv, KindsApart
    <3>2. cache[job[c].key].user # App => cache[job[c].key].user = rt /\ meta # None
      BY <2>1, <3>0 DEF IInv, CleanInv, NoForeignTokens, ForceInv
    <3>3. cache[job[c].key].user = Abstract!Served(c)
      BY <1>0, <1>3, <3>1, <3>2
    <3> QED BY <1>1, <1>2, <2>1, <3>3, MapServe
  <2>2. CASE UNCHANGED <<job, reply>>
    BY <1>5, <2>2
  <2> QED BY <1>6, <2>1, <2>2 DEF CacheGet
<1>7. CASE MintRefreshToken(c) \/ MintMetadata(c)
  BY <1>0, <1>4, <1>5, <1>7 DEF MintRefreshToken, MintMetadata, TypeOK, Job
<1>8. CASE PostGranted(c)
  BY <1>0, <1>5, <1>8 DEF PostGranted, TypeOK, Job
<1>9. CASE PostRefused(c) \/ PostRevoked(c) \/ Acquire(c)
  BY <1>4, <1>5, <1>9 DEF PostRefused, PostRevoked, Acquire
<1>10. CASE PutCache(c)
  <2>1. Return(c, Minted(c)) /\ pc[c] = "put_cache"
    BY <1>10 DEF PutCache, At
  <2>2. Minted(c) = Abstract!Served(c)
    <3>1. CASE job[c].key = EnvKey
      BY <1>0, <1>3, <2>1, <3>1 DEF Minted, LoadedAt
    <3>2. CASE job[c].key # EnvKey
      BY <1>0, <1>3, <2>1, <3>2 DEF Minted, LoadedAt, PairAt, CurrentAt, ForceAt, Renewing
    <3> QED BY <3>1, <3>2
  <2> QED BY <1>1, <1>2, <2>1, <2>2, MapServe
<1> QED BY <1>6, <1>7, <1>8, <1>9, <1>10 DEF MintStep

LEMMA MapPurge ==
  ASSUME IInv, Perfect, NEW c \in Call, PurgeStep(c)
  PROVE  MapGoal
<1>0. /\ CallStep(c) /\ TypeOK /\ ForceAt(c) /\ UNCHANGED <<rt, meta>>
      /\ pc[c] \in {"peek", "drop"}
  BY InStep DEF CallStep, Step, IInv, PurgeStep, Peek, Drop, PurgeDone, At, store
<1>1. CASE PurgeDone(c)
  <2>1. job[c].op = "purge"
    BY <1>0 DEF ForceAt, Doing, OpsAt
  <2>2. UNCHANGED <<Current, Expired>>
    BY <1>0 DEF Current, Expired, InForce
  <2> QED BY <1>1, <2>1, <2>2, MapNoAnswer DEF PurgeDone
<1>2. CASE Peek(c) \/ Drop(c)
  BY <1>0, <1>2, MapWithin DEF Peek, Drop, TypeOK, Job
<1> QED BY <1>1, <1>2 DEF PurgeStep

LEMMA MapClock ==
  ASSUME IInv, Perfect, SessionExpires \/ \E k \in Key : TokenAges(k)
  PROVE  MapGoal
<1>1. UNCHANGED <<rt, job, reply>> /\ Asking' = Asking
  BY DEF SessionExpires, TokenAges, Asking
<1>2. CASE meta' = meta
  BY <1>1, <1>2, MapStutter DEF Current, Expired, InForce
<1>3. CASE SessionExpires
  <2>1. meta \in Metadata /\ meta # None /\ rt # None
    BY <1>3 DEF SessionExpires, IInv, TypeOK, Maybe, Perfect, Quiet, AllIdle, Idle, ForceInv
  <2>2. meta' \in Metadata /\ meta'.sid = meta.sid /\ meta'.live = FALSE
    BY <1>3, <2>1 DEF SessionExpires, Metadata
  <2>3. meta' # None /\ meta.sid # None
    BY <2>1, <2>2, SessionAssumption DEF Metadata
  <2>4. Current # None /\ Current' = Current /\ Expired' = TRUE
    BY <1>1, <2>1, <2>2, <2>3 DEF Current, Expired, InForce
  <2>5. Abstract!Expire
    BY <1>1, <2>4 DEF Abstract!Expire, Current, Expired, Asking
  <2> QED BY <2>5 DEF MapGoal, Abstract!Next
<1> QED BY <1>2, <1>3 DEF TokenAges

LEMMA StepMaps ==
  ASSUME Perfect
  PROVE  IInv /\ [Next]_vars => MapGoal
<1> SUFFICES ASSUME IInv, [Next]_vars PROVE MapGoal
  OBVIOUS
<1>1. ASSUME NEW c \in Call, CallStep(c) PROVE MapGoal
  <2>1. ~Crash(c)
    BY NoFaults DEF Crash
  <2> QED BY <1>1, <2>1, MapStart, MapLogin, MapClear, MapStore, MapDelete, MapValid,
             MapStatus, MapMint, MapPurge DEF CallStep, Step
<1>2. CASE UNCHANGED vars
  BY <1>2, MapStutter DEF vars, Current, Expired, InForce, Asking
<1> QED BY <1>1, <1>2, MapClock, NextSplit

\* When calls run one at a time and none of their steps fails, the two secrets
\* and the cache behave as one session that a login replaces at once and a
\* logout or a revocation ends at once, and whatever status, login and token
\* requests answer is about the identity in force: for any sessions and slots,
\* in any environments, with rotation, revocation and both deadlines, and from
\* a legacy session as well.
THEOREM SerialImplementation ==
  ASSUME Perfect
  PROVE  Spec => ImplementsUserSession
<1>1. Init => Abstract!Init
  <2>1. Init => /\ Current = None /\ Expired = FALSE
                /\ Asking = [c \in Call |-> None] /\ reply = [c \in Call |-> None]
    BY DEF Init, Current, Expired, InForce, Asking, Blank
  <2> QED BY <2>1 DEF Abstract!Init, Current, Expired, Asking
<1>2. IInv /\ [Next]_vars => [Abstract!Next]_(Abstract!vars)
  BY StepMaps DEF MapGoal
<1>3. IInv /\ [Next]_vars => IInv'
  BY StepIInv
<1> QED BY <1>1, <1>2, <1>3, InitIInv, PTL DEF Spec, ImplementsUserSession, Abstract!Spec
=============================================================================
