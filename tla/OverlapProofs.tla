---------------------------- MODULE OverlapProofs ----------------------------
(***************************************************************************)
(* Theorems about CliSession when calls overlap: which calls may run       *)
(* beside each other without the two secrets, or a cached token and its    *)
(* key, coming apart, and without a session coming back.  Each condition   *)
(* is one on the constants; without it the runs KeyMismatch and Resurrect  *)
(* have a counterexample.  The last theorem needs no condition: how a call *)
(* comes to its end.                                                       *)
(***************************************************************************)
EXTENDS CliSessionProofs

-----------------------------------------------------------------------------
(* Who may run beside whom.                                                *)

\* A slot that may come to the two store writes.
Writes(c) == "login" \in Ops[c] \/ (Rotates /\ "token" \in Ops[c])

\* No write fails or is cut off, and the writes are those of one slot.
\* Logouts, statuses and purges, and token requests whose answer brings no new
\* refresh token, run beside it in any number.
OneWriter ==
  /\ FaultKinds \cap {"set", "crash"} = {}
  /\ \A c, d \in Call : Writes(c) /\ Writes(d) => c = d

\* A slot that depends on the session's staying as it was.
Uses(c) == Ops[c] \cap {"login", "token"} # {}

\* Token requests as well are those of the one slot that logs in.
OneUser ==
  /\ FaultKinds \cap {"set", "crash"} = {}
  /\ \A c, d \in Call : Uses(c) /\ Uses(d) => c = d

\* A request that may bring a new refresh token runs beside nothing that ends
\* a session. Logins, statuses and purges may run beside it, and steps fail.
NoEndBeside ==
  Rotates => \/ Serial
             \/ \A c, d \in Call : /\ "token" \in Ops[c]
                                   /\ Ops[d] \cap {"logout", "token"} # {}
                                   => c = d

-----------------------------------------------------------------------------
(* What a call is asked for is what its slot is for.                       *)

AskedAt(c) ==
  /\ OpAt(c)
  /\ pc[c] # "idle" => job[c].op \in Ops[c]
  /\ pc[c] \in {"del_rt", "del_meta"} => job[c].op \in {"logout", "token"}
  /\ pc[c] = "auth" => job[c].op = "login"
  /\ pc[c] \in {"list", "delete"} => job[c].op \in {"login", "logout", "token", "purge"}
  /\ pc[c] = "delete" => job[c].op # "purge"
  /\ pc[c] \in {"put_rt", "put_meta"} => Writes(c)

Asked == \A c \in Call : AskedAt(c)

\* What a call has in hand goes together, and with the store as far as only
\* this call can write to it: others can delete.
WriterAt(c) ==
  /\ \/ pc[c] \in {"post", "put_rt", "put_meta"} /\ Writes(c)
     \/ pc[c] \in {"list", "delete"} /\ job[c].op = "login"
     => job[c].md.sid = job[c].rt /\ job[c].md.oid \in {job[c].rt, None}
  /\ pc[c] = "mint_meta" /\ Writes(c) /\ meta # None => meta.sid = job[c].rt
  /\ pc[c] = "put_meta" => rt \in {job[c].rt, None}

\* Metadata name the session's own user, whatever the refresh token is.
OwnUser == meta # None => meta.oid \in {meta.sid, None}

WriterInv == Asked /\ SessionPaired /\ OwnUser /\ \A c \in Call : WriterAt(c)

\* A session's key is of the refresh token that will be sent, if one is there.
KeyAt(c) ==
  job[c].op = "token" /\ job[c].key.sid # None =>
    /\ pc[c] \in {"cache_get", "mint_rt"} => rt \in {job[c].key.sid, None}
    /\ pc[c] \in {"mint_meta", "post", "put_rt", "put_meta", "put_cache"}
         => job[c].rt = job[c].key.sid
    /\ pc[c] \in {"cache_get", "mint_rt", "mint_meta", "post", "put_rt", "put_meta", "put_cache"}
         => job[c].key.oid \in {job[c].key.sid, None}

KeyInv == WriterInv /\ KeyNamesCredential /\ \A c \in Call : KeyAt(c)

\* A token request that is going to replace the refresh token it sent goes on
\* while one is stored.
StillAt(c) ==
  /\ pc[c] = "put_rt" /\ job[c].op = "token" => Rotates
  /\ Rotates /\ \/ pc[c] \in {"mint_meta", "post"}
                \/ pc[c] = "put_rt" /\ job[c].op = "token"
       => rt # None

-----------------------------------------------------------------------------
(* Every call does what it was asked for.                                  *)

LEMMA AskedReturn ==
  ASSUME TypeOK, NEW c \in Call, NEW who, Return(c, who)
  PROVE  AskedAt(c)'
BY OpReturn DEF TypeOK, Return, Goto, AskedAt

LEMMA AskedStart ==
  ASSUME TypeOK, NEW c \in Call, NEW o \in OpName, NEW force \in BOOLEAN, NEW env \in BOOLEAN,
         Start(c, o, force, env)
  PROVE  AskedAt(c)'
<1>1. job'[c].op = o /\ o \in Ops[c] /\ pc'[c] = Entry(o)
  BY DEF Start, Goto, TypeOK, Blank
<1>2. OpAt(c)'
  BY <1>1 DEF OpAt, Entry
<1> QED BY <1>1, <1>2 DEF AskedAt, Entry, OpName

LEMMA AskedStep ==
  ASSUME TypeOK, NEW c \in Call, Step(c), AskedAt(c)
  PROVE  AskedAt(c)'
<1>0. OpAt(c)'
  BY OpStep DEF CallStep, AskedAt
<1>1. pc[c] # "idle" /\ job[c].op \in Ops[c]
  BY StepIsActive DEF Idle, AskedAt
<1>2. job[c].op = "login" \/ (Rotates /\ job[c].op = "token") => Writes(c)
  BY <1>1 DEF Writes
<1>r. (\E who : Return(c, who)) => AskedAt(c)'
  BY AskedReturn
<1> USE DEF TypeOK, Goto, At, AskedAt, Job
<1>3. CASE LoginStep(c)
  <2>1. CASE Authenticate(c)
    <3>1. pc[c] = "auth" /\ pc'[c] = "list"
      BY <2>1 DEF Authenticate
    <3>2. job'[c].op = job[c].op
      BY <2>1 DEF Authenticate
    <3> QED BY <1>0, <1>1, <3>1, <3>2
  <2>2. CASE AuthenticateFails(c)
    BY <1>r, <2>2 DEF AuthenticateFails
  <2> QED BY <1>3, <2>1, <2>2 DEF LoginStep
<1>4. CASE ClearStep(c)
  <2>1. job[c].op \in {"login", "logout", "token", "purge"} /\ AfterClear(c) \in {"put_rt", "del_rt"}
    BY <1>4 DEF ClearStep, ListKeys, ListKeysFails, DeleteCached, ClearDone, AfterClear
  <2>2. CASE ListKeys(c)
    BY <1>0, <1>1, <2>1, <2>2 DEF ListKeys
  <2>3. CASE ListKeysFails(c)
    BY <1>0, <1>1, <1>2, <1>r, <2>1, <2>3 DEF ListKeysFails, AfterClear
  <2>4. CASE DeleteCached(c)
    BY <1>0, <1>1, <2>1, <2>4 DEF DeleteCached
  <2>5. CASE ClearDone(c)
    BY <1>0, <1>1, <1>2, <2>1, <2>5 DEF ClearDone, AfterClear
  <2> QED BY <1>4, <2>2, <2>3, <2>4, <2>5 DEF ClearStep
<1>5. CASE StoreStep(c)
  BY <1>0, <1>1, <1>5, <1>r DEF StoreStep, PutRefreshToken, PutMetadata, StoreFails
<1>6. CASE DeleteStep(c)
  BY <1>0, <1>1, <1>6, <1>r DEF DeleteStep, DeleteRefreshToken, DeleteMetadata
<1>7. CASE ValidStep(c)
  <2>1. ASSUME NEW key, ServeUnder(c, key)
        PROVE  AskedAt(c)'
    BY <1>0, <1>1, <2>1 DEF ServeUnder, FirstStep, NewToken
  <2>2. CASE NoValidSession(c)
    BY <1>0, <1>1, <1>r, <2>1, <2>2 DEF NoValidSession
  <2>3. CASE ValidRefreshToken(c)
    BY <1>0, <1>1, <2>2, <2>3 DEF ValidRefreshToken
  <2>4. CASE ValidMetadata(c)
    BY <1>r, <2>1, <2>2, <2>4 DEF ValidMetadata
  <2> QED BY <1>7, <2>3, <2>4 DEF ValidStep
<1>8. CASE StatusStep(c)
  BY <1>0, <1>1, <1>8, <1>r DEF StatusStep, SecretExists, StatusMetadata
<1>9. CASE MintStep(c)
  <2>1. pc[c] # "acquire" => ~Acquire(c)
    BY DEF Acquire
  <2>2. CASE PostGranted(c)
    <3>1. job[c].op = "token"
      BY <2>2 DEF PostGranted, OpAt
    <3> QED BY <1>0, <1>1, <1>2, <2>2, <3>1 DEF PostGranted
  <2>3. CASE PostRevoked(c)
    <3>1. job[c].op = "token"
      BY <2>3 DEF PostRevoked, OpAt
    <3> QED BY <1>0, <1>1, <2>3, <3>1 DEF PostRevoked
  <2>4. CASE CacheGet(c)
    BY <1>0, <1>1, <1>r, <2>4 DEF CacheGet, NewToken
  <2> QED BY <1>0, <1>1, <1>9, <1>r, <2>2, <2>3, <2>4
          DEF MintStep, MintRefreshToken, MintMetadata, PostRefused, Acquire, PutCache
<1>10. CASE PurgeStep(c)
  BY <1>0, <1>1, <1>10, <1>r DEF PurgeStep, Peek, Drop, PurgeDone
<1> QED BY <1>3, <1>4, <1>5, <1>6, <1>7, <1>8, <1>9, <1>10 DEF Step

LEMMA AskedNext ==
  ASSUME TypeOK, Asked, [Next]_vars
  PROVE  Asked'
<1>1. ASSUME NEW c \in Call, CallStep(c)
      PROVE  Asked'
  <2>1. AskedAt(c)'
    BY <1>1, AskedStart, AskedStep, AskedReturn DEF Asked, CallStep, Crash
  <2>2. Others(c)
    BY <1>1, StepIsLocal DEF CallStep
  <2> QED BY <2>1, <2>2 DEF Asked, AskedAt, OpAt, Others, Writes
<1>2. ASSUME UNCHANGED <<pc, job>>
      PROVE  Asked'
  BY <1>2 DEF Asked, AskedAt, OpAt, Writes
<1> QED BY <1>1, <1>2, NextSplit DEF vars, TokenAges, SessionExpires

-----------------------------------------------------------------------------
(* One writer: the two secrets stay of one login.                          *)

\* Only the two writes add anything to the session.
LEMMA OnlyDeletes ==
  ASSUME NEW c \in Call, CallStep(c), pc[c] \notin {"put_rt", "put_meta"}
  PROVE  rt' \in {rt, None} /\ meta' \in {meta, None}
<1> USE DEF store
<1>1. CASE Crash(c) \/ \E o \in OpName, force, env \in BOOLEAN : Start(c, o, force, env)
  BY <1>1 DEF Crash, Start
<1>2. CASE LoginStep(c) \/ ClearStep(c)
  BY <1>2 DEF LoginStep, Authenticate, AuthenticateFails, ClearStep, ListKeys, ListKeysFails,
     DeleteCached, ClearDone
<1>3. CASE StoreStep(c) \/ DeleteStep(c)
  BY <1>3 DEF StoreStep, PutRefreshToken, PutMetadata, DeleteStep, DeleteRefreshToken,
     DeleteMetadata, At
<1>4. CASE ValidStep(c) \/ StatusStep(c)
  BY <1>4 DEF ValidStep, ValidRefreshToken, ValidMetadata, StatusStep, SecretExists, StatusMetadata
<1>5. CASE MintStep(c) \/ PurgeStep(c)
  BY <1>5 DEF MintStep, CacheGet, MintRefreshToken, MintMetadata, PostGranted, PostRefused,
     PostRevoked, Acquire, PutCache, PurgeStep, Peek, Drop, PurgeDone
<1> QED BY <1>1, <1>2, <1>3, <1>4, <1>5 DEF CallStep, Step

\* While one call takes a step, the others' locals and what they rely on in
\* the store stay.
LEMMA WriterOthers ==
  ASSUME TypeOK, WriterInv, OneWriter, NEW c \in Call, CallStep(c), WriterAt(c)'
  PROVE  \A d \in Call : WriterAt(d)'
<1> SUFFICES ASSUME NEW d \in Call, d # c PROVE WriterAt(d)'
  OBVIOUS
<1>1. pc'[d] = pc[d] /\ job'[d] = job[d]
  BY StepIsLocal DEF CallStep, Others
<1>2. WriterAt(d) /\ AskedAt(d) /\ AskedAt(c)
  BY DEF WriterInv, Asked
<1>3. CASE pc[c] \in {"put_rt", "put_meta"}
  <2>1. ~Writes(d)
    BY <1>2, <1>3 DEF AskedAt, OneWriter
  <2> QED BY <1>1, <1>2, <2>1 DEF WriterAt, AskedAt, Writes
<1>4. CASE pc[c] \notin {"put_rt", "put_meta"}
  <2>1. rt' \in {rt, None} /\ meta' \in {meta, None}
    BY <1>4, OnlyDeletes
  <2> QED BY <1>1, <1>2, <2>1 DEF WriterAt, Writes
<1> QED BY <1>3, <1>4

LEMMA SecretsKept ==
  ASSUME TypeOK, WriterInv, NEW c \in Call, CallStep(c), pc[c] \notin {"put_rt", "put_meta"}
  PROVE  SessionPaired' /\ OwnUser'
<1>1. rt' \in {rt, None} /\ meta' \in {meta, None}
  BY OnlyDeletes
<1>2. \A d \in Call : pc[d] = "put_meta" => pc'[d] = "put_meta"
  BY StepIsLocal DEF CallStep, Others
<1> QED BY <1>1, <1>2 DEF WriterInv, SessionPaired, OwnUser, At

\* The refresh token and the metadata a writer finds are of one login.
LEMMA FoundTogether ==
  ASSUME WriterInv, OneWriter, NEW c \in Call, Writes(c), pc[c] # "put_meta",
         rt # None, meta # None
  PROVE  meta.sid = rt
<1>1. \A d \in Call : pc[d] # "put_meta"
  BY DEF WriterInv, Asked, AskedAt, OneWriter
<1> QED BY <1>1 DEF WriterInv, SessionPaired, At

LEMMA WriterReturn ==
  ASSUME TypeOK, NEW c \in Call, NEW who, Return(c, who)
  PROVE  WriterAt(c)'
BY DEF TypeOK, Return, Goto, WriterAt

LEMMA WriterStart ==
  ASSUME TypeOK, NEW c \in Call, NEW o \in OpName, NEW force \in BOOLEAN, NEW env \in BOOLEAN,
         Start(c, o, force, env)
  PROVE  WriterAt(c)'
<1>1. pc'[c] = Entry(o) /\ job'[c].op = o
  BY DEF Start, Goto, TypeOK, Blank
<1> QED BY <1>1 DEF Entry, WriterAt

\* The writes themselves.
LEMMA WriterStore ==
  ASSUME TypeOK, Loaded, WriterInv, OneWriter, NEW c \in Call, StoreStep(c)
  PROVE  WriterAt(c)' /\ SessionPaired' /\ OwnUser'
<1>0. WriterAt(c) /\ AskedAt(c) /\ ~StoreFails(c)
  BY DEF WriterInv, Asked, OneWriter, StoreFails, Fault
<1>m. pc[c] \in {"put_rt", "put_meta"} => job[c].md \in Metadata
  BY JobFields, MetadataFields DEF Loaded, LoadedAt
<1>1. CASE PutRefreshToken(c)
  <2>1. pc[c] = "put_rt" /\ pc'[c] = "put_meta" /\ job' = job /\ rt' = job[c].rt /\ meta' = meta
    BY <1>0, <1>1 DEF PutRefreshToken, Goto, At, TypeOK
  <2>2. WriterAt(c)'
    BY <1>0, <2>1 DEF WriterAt, Writes
  <2> QED BY <2>1, <2>2 DEF SessionPaired, At, OwnUser, WriterInv
<1>2. CASE PutMetadata(c)
  <2>1. /\ pc[c] = "put_meta" /\ rt' = rt
        /\ meta' = [job[c].md EXCEPT !.live = TRUE]
        /\ \/ Return(c, job[c].md.oid)
           \/ Goto(c, "put_cache")
    BY <1>0, <1>2 DEF PutMetadata, StoredMetadata, At
  <2>2. WriterAt(c)'
    BY <2>1, WriterReturn DEF Goto, TypeOK, WriterAt
  <2>3. meta'.sid = job[c].md.sid /\ meta'.oid = job[c].md.oid
    BY <1>m, <2>1 DEF Metadata
  <2>4. rt \in {job[c].rt, None} /\ job[c].md.sid = job[c].rt /\ job[c].md.oid \in {job[c].rt, None}
    BY <1>0, <2>1 DEF WriterAt, AskedAt
  <2> QED BY <2>1, <2>2, <2>3, <2>4 DEF SessionPaired, OwnUser
<1> QED BY <1>1, <1>2 DEF StoreStep

LEMMA WriterStep ==
  ASSUME TypeOK, Loaded, WriterInv, OneWriter, NEW c \in Call, Step(c), ~StoreStep(c)
  PROVE  WriterAt(c)'
<1>0. WriterAt(c) /\ AskedAt(c) /\ AskedAt(c)'
  BY AskedStep DEF WriterInv, Asked
<1>r. (\E who : Return(c, who)) => WriterAt(c)'
  BY WriterReturn
<1>p. ASSUME pc'[c] \notin {"post", "put_rt", "put_meta", "list", "delete", "mint_meta"}
      PROVE  WriterAt(c)'
  BY <1>p DEF WriterAt
<1> USE DEF TypeOK, Goto, At
<1>1. CASE LoginStep(c)
  <2>1. CASE Authenticate(c)
    <3>1. PICK s \in Session, oid \in Maybe(Session) :
            /\ oid \in {s, None}
            /\ job' = [job EXCEPT ![c].rt = s,
                                  ![c].md = [sid |-> s, oid |-> oid, live |-> TRUE]]
      BY <2>1 DEF Authenticate, NewMetadata, Maybe
    <3>2. job'[c].rt = s /\ job'[c].md = [sid |-> s, oid |-> oid, live |-> TRUE]
      BY <3>1 DEF Job
    <3>3. job'[c].md.sid = job'[c].rt /\ job'[c].md.oid \in {job'[c].rt, None}
      BY <3>1, <3>2
    <3> QED BY <2>1, <3>3 DEF Authenticate, WriterAt
  <2> QED BY <1>1, <1>r, <2>1 DEF LoginStep, AuthenticateFails
<1>2. CASE ClearStep(c)
  <2>1. \/ \E who : Return(c, who)
        \/ /\ job'[c].op = job[c].op /\ job'[c].rt = job[c].rt /\ job'[c].md = job[c].md
           /\ pc[c] \in {"list", "delete"} /\ pc'[c] \in {"delete", "peek", "put_rt", "del_rt"}
           /\ pc'[c] = "put_rt" => job[c].op = "login"
    BY <1>2 DEF ClearStep, ListKeys, ListKeysFails, DeleteCached, ClearDone, AfterClear, Job
  <2> QED BY <1>0, <1>r, <2>1 DEF WriterAt
<1>3. CASE DeleteStep(c)
  BY <1>3, <1>p, <1>r DEF DeleteStep, DeleteRefreshToken, DeleteMetadata
<1>4. CASE ValidStep(c)
  <2>1. ASSUME NEW key, ServeUnder(c, key)
        PROVE  WriterAt(c)'
    BY <2>1, <1>p DEF ServeUnder, FirstStep, NewToken
  <2>2. CASE NoValidSession(c)
    BY <1>p, <1>r, <2>1, <2>2 DEF NoValidSession
  <2>3. CASE ValidRefreshToken(c)
    BY <1>p, <2>2, <2>3 DEF ValidRefreshToken
  <2>4. CASE ValidMetadata(c)
    BY <1>r, <2>1, <2>2, <2>4 DEF ValidMetadata
  <2> QED BY <1>4, <2>3, <2>4 DEF ValidStep
<1>5. CASE StatusStep(c)
  BY <1>5, <1>p, <1>r DEF StatusStep, SecretExists, StatusMetadata
<1>6. CASE MintStep(c)
  <2>1. CASE CacheGet(c)
    BY <1>p, <1>r, <2>1 DEF CacheGet, NewToken
  <2>2. CASE MintRefreshToken(c)
    <3>1. CASE Return(c, None)
      BY <1>r, <3>1
    <3>2. CASE rt # None /\ job' = [job EXCEPT ![c].rt = rt] /\ pc'[c] = "mint_meta"
      <4>1. job'[c].rt = rt /\ meta' = meta /\ pc[c] # "put_meta"
        BY <2>2, <3>2 DEF MintRefreshToken, Job, store
      <4> QED BY <3>2, <4>1, FoundTogether DEF WriterAt, Writes
    <3> QED BY <2>2, <3>1, <3>2 DEF MintRefreshToken
  <2>3. CASE MintMetadata(c)
    <3>1. CASE Return(c, None)
      BY <1>r, <3>1
    <3>2. CASE meta # None /\ job' = [job EXCEPT ![c].md = meta] /\ pc'[c] = "post"
      <4>1. job'[c].rt = job[c].rt /\ job'[c].md = meta /\ pc[c] = "mint_meta"
        BY <2>3, <3>2 DEF MintMetadata, Job
      <4>2. Writes(c) => meta.sid = job[c].rt /\ meta.oid \in {meta.sid, None}
        BY <1>0, <3>2, <4>1 DEF WriterAt, WriterInv, OwnUser
      <4> QED BY <3>2, <4>1, <4>2 DEF WriterAt, Writes
    <3> QED BY <2>3, <3>1, <3>2 DEF MintMetadata
  <2>4. CASE PostGranted(c)
    <3>1. CASE pc'[c] = "put_cache"
      BY <1>p, <3>1
    <3>2. ASSUME NEW oid \in {job[c].rt, job[c].md.oid},
                 job' = [job EXCEPT ![c].md.oid = oid], pc'[c] = "put_rt"
          PROVE  WriterAt(c)'
      <4>1. job[c].md \in Metadata
        BY <2>4, JobFields, MetadataFields DEF PostGranted, Loaded, LoadedAt
      <4>2. /\ job'[c].rt = job[c].rt /\ job'[c].md.sid = job[c].md.sid
            /\ job'[c].md.oid = oid
        BY <3>2, <4>1 DEF Job, Metadata
      <4>3. Writes(c)
        BY <1>0, <3>2 DEF AskedAt, Writes
      <4>4. job[c].md.sid = job[c].rt /\ job[c].md.oid \in {job[c].rt, None}
        BY <1>0, <2>4, <4>3 DEF PostGranted, WriterAt
      <4> QED BY <3>2, <4>2, <4>4 DEF WriterAt
    <3> QED BY <2>4, <3>1, <3>2 DEF PostGranted
  <2>5. CASE PostRevoked(c)
    <3>1. pc'[c] = "list" /\ job'[c].op = "token"
      BY <1>0, <2>5 DEF PostRevoked, AskedAt, OpAt
    <3> QED BY <3>1 DEF WriterAt
  <2>6. CASE PostRefused(c) \/ PutCache(c)
    BY <1>r, <2>6 DEF PostRefused, PutCache
  <2>7. CASE Acquire(c)
    BY <1>p, <1>r, <2>7 DEF Acquire
  <2> QED BY <1>6, <2>1, <2>2, <2>3, <2>4, <2>5, <2>6, <2>7 DEF MintStep
<1>7. CASE PurgeStep(c)
  BY <1>7, <1>p, <1>r DEF PurgeStep, Peek, Drop, PurgeDone
<1> QED BY <1>1, <1>2, <1>3, <1>4, <1>5, <1>6, <1>7 DEF Step

LEMMA WriterNext ==
  ASSUME TypeOK, Loaded, WriterInv, OneWriter, [Next]_vars
  PROVE  WriterInv'
<1>0. Asked'
  BY AskedNext DEF WriterInv
<1>1. ASSUME NEW c \in Call, CallStep(c)
      PROVE  WriterInv'
  <2>1. WriterAt(c)'
    BY <1>1, WriterStart, WriterStep, WriterStore, WriterReturn DEF CallStep, Crash
  <2>2. CASE StoreStep(c)
    BY <1>0, <1>1, <2>1, <2>2, WriterStore, WriterOthers DEF WriterInv
  <2>3. CASE ~StoreStep(c)
    <3>1. pc[c] \notin {"put_rt", "put_meta"}
      BY <1>1, <2>3 DEF CallStep, Crash, Start, Idle, OneWriter, Fault, Step, LoginStep, ClearStep,
         DeleteStep, ValidStep, StatusStep, MintStep, PurgeStep, Authenticate, AuthenticateFails,
         ListKeys, ListKeysFails, DeleteCached, ClearDone, DeleteRefreshToken, DeleteMetadata,
         ValidRefreshToken, ValidMetadata, SecretExists, StatusMetadata, CacheGet,
         MintRefreshToken, MintMetadata, PostGranted, PostRefused, PostRevoked, Acquire,
         PutCache, Peek, Drop, PurgeDone, At
    <3> QED BY <1>0, <1>1, <2>1, <3>1, SecretsKept, WriterOthers DEF WriterInv
  <2> QED BY <2>2, <2>3
<1>2. ASSUME UNCHANGED <<rt, meta, pc, job>>
      PROVE  WriterInv'
  BY <1>0, <1>2 DEF WriterInv, SessionPaired, OwnUser, WriterAt, Writes, At
<1>3. CASE SessionExpires
  <2>1. meta \in Metadata
    BY <1>3 DEF SessionExpires, TypeOK, Maybe
  <2>2. meta'.sid = meta.sid /\ meta'.oid = meta.oid /\ UNCHANGED <<rt, pc, job>> /\ meta # None
    BY <1>3, <2>1 DEF SessionExpires, Metadata
  <2> QED BY <1>0, <2>2 DEF WriterInv, SessionPaired, OwnUser, WriterAt, Writes, At
<1> QED BY <1>1, <1>2, <1>3, NextSplit DEF vars, TokenAges

LEMMA WriterInit == Init => WriterInv
BY DEF Init, WriterInv, Asked, AskedAt, OpAt, SessionPaired, OwnUser, WriterAt

\* When the writes of the secrets are those of one slot, and complete, the
\* refresh token of one login is never beside the metadata of another,
\* however many logouts, statuses, purges and token requests run beside it,
\* and however reads, deletions and listings fail: a logout that overtakes a
\* login may leave half a session, not a mixed one.
THEOREM OneWriterPairing ==
  ASSUME OneWriter
  PROVE  Spec => []SessionPaired
<1>1. TypeOK /\ Loaded /\ WriterInv /\ [Next]_vars => WriterInv'
  BY WriterNext
<1>2. WriterInv => SessionPaired
  BY DEF WriterInv
<1> QED BY <1>1, <1>2, WriterInit, TypesAndSecrets, PTL DEF Spec

-----------------------------------------------------------------------------
(* One user: a cached token is of the session its key names.               *)

LEMMA OneUserWrites == OneUser => OneWriter
BY DEF OneUser, OneWriter, Uses, Writes

TokenSteps == {"cache_get", "mint_rt", "mint_meta", "post", "put_rt", "put_meta", "put_cache"}

\* A call that has a key to serve a token under is the one user's, and what
\* the others do to the store is to delete.
LEMMA KeyOthers ==
  ASSUME TypeOK, KeyInv, OneUser, NEW c \in Call, CallStep(c), KeyAt(c)'
  PROVE  \A d \in Call : KeyAt(d)'
<1> SUFFICES ASSUME NEW d \in Call, d # c PROVE KeyAt(d)'
  OBVIOUS
<1>1. pc'[d] = pc[d] /\ job'[d] = job[d]
  BY StepIsLocal DEF CallStep, Others
<1>2. KeyAt(d) /\ AskedAt(d) /\ AskedAt(c)
  BY DEF KeyInv, WriterInv, Asked
<1>3. CASE pc[c] \in {"put_rt", "put_meta"}
  <2>1. Uses(c) /\ ~Uses(d)
    BY <1>2, <1>3 DEF AskedAt, OneUser, Uses, OpAt
  <2>2. pc[d] \in TokenSteps /\ job[d].op = "token" => Uses(d)
    BY <1>2 DEF TokenSteps, AskedAt, Uses
  <2> QED BY <1>1, <2>1, <2>2 DEF KeyAt, TokenSteps
<1>4. CASE pc[c] \notin {"put_rt", "put_meta"}
  <2>1. rt' \in {rt, None}
    BY <1>4, OnlyDeletes
  <2> QED BY <1>1, <1>2, <2>1 DEF KeyAt
<1> QED BY <1>3, <1>4

LEMMA KeyReturn ==
  ASSUME TypeOK, NEW c \in Call, NEW who, Return(c, who)
  PROVE  KeyAt(c)'
BY DEF TypeOK, Return, Goto, KeyAt

\* The step of a token request keeps its key to the session it found.
LEMMA KeyMint ==
  ASSUME TypeOK, Loaded, KeyInv, NEW c \in Call, MintStep(c)
  PROVE  KeyAt(c)'
<1>0. KeyAt(c) /\ OpAt(c)
  BY DEF KeyInv, WriterInv, Asked, AskedAt
<1>r. (\E who : Return(c, who)) => KeyAt(c)'
  BY KeyReturn
<1> USE DEF TypeOK, Goto, At
<1>1. CASE CacheGet(c)
  <2>1. CASE UNCHANGED <<job, rt>> /\ pc'[c] \in {"acquire", "mint_rt"} /\ pc[c] = "cache_get"
    BY <1>0, <2>1 DEF KeyAt
  <2> QED BY <1>1, <1>r, <2>1 DEF CacheGet, NewToken, store
<1>2. CASE MintRefreshToken(c)
  <2>1. CASE rt # None /\ job' = [job EXCEPT ![c].rt = rt] /\ pc'[c] = "mint_meta"
    <3>1. job'[c].rt = rt /\ job'[c].op = job[c].op /\ job'[c].key = job[c].key /\ pc[c] = "mint_rt"
      BY <1>2, <2>1 DEF MintRefreshToken, Job
    <3> QED BY <1>0, <2>1, <3>1 DEF KeyAt
  <2> QED BY <1>2, <1>r, <2>1 DEF MintRefreshToken
<1>3. CASE MintMetadata(c)
  <2>1. CASE job' = [job EXCEPT ![c].md = meta] /\ pc'[c] = "post"
    <3>1. /\ job'[c].rt = job[c].rt /\ job'[c].op = job[c].op /\ job'[c].key = job[c].key
          /\ pc[c] = "mint_meta"
      BY <1>3, <2>1 DEF MintMetadata, Job
    <3> QED BY <1>0, <2>1, <3>1 DEF KeyAt
  <2> QED BY <1>3, <1>r, <2>1 DEF MintMetadata
<1>4. CASE PostGranted(c)
  <2>1. /\ job'[c].rt = job[c].rt /\ job'[c].op = job[c].op /\ job'[c].key = job[c].key
        /\ pc[c] = "post" /\ pc'[c] \in {"put_cache", "put_rt"}
    BY <1>4 DEF PostGranted, Job
  <2> QED BY <1>0, <2>1 DEF KeyAt
<1>5. CASE PostRevoked(c)
  BY <1>5 DEF PostRevoked, KeyAt
<1>6. CASE PostRefused(c) \/ PutCache(c)
  BY <1>6, <1>r DEF PostRefused, PutCache
<1>7. CASE Acquire(c)
  <2>1. job[c].key = EnvKey /\ EnvKey.sid = None
    BY <1>7 DEF Acquire, Loaded, LoadedAt, EnvKey
  <2>2. UNCHANGED job => KeyAt(c)'
    BY <2>1 DEF KeyAt
  <2> QED BY <1>7, <1>r, <2>2 DEF Acquire
<1> QED BY <1>1, <1>2, <1>3, <1>4, <1>5, <1>6, <1>7 DEF MintStep

LEMMA KeyValid ==
  ASSUME TypeOK, KeyInv, OneUser, NEW c \in Call, ValidStep(c)
  PROVE  KeyAt(c)'
<1>0. AskedAt(c) /\ rt' = rt /\ pc[c] \in {"valid_rt", "valid_meta"}
  BY DEF KeyInv, WriterInv, Asked, ValidStep, ValidRefreshToken, ValidMetadata, store, At
<1>r. (\E who : Return(c, who)) => KeyAt(c)'
  BY KeyReturn
<1> USE DEF TypeOK, Goto, At
<1>1. ASSUME NEW key, ServeUnder(c, key),
             key.sid # None => rt \in {key.sid, None} /\ key.oid \in {key.sid, None}
      PROVE  KeyAt(c)'
  <2>1. job'[c].key = key /\ pc'[c] \in {"acquire", "mint_rt", "cache_get"}
    BY <1>1 DEF ServeUnder, FirstStep, NewToken, Job
  <2> QED BY <1>0, <1>1, <2>1 DEF KeyAt
<1>2. CASE NoValidSession(c)
  <2>1. KeyWithoutSession(c).sid = None
    BY DEF KeyWithoutSession, EnvKey, UserKey
  <2>2. CASE pc'[c] = "exists"
    BY <2>2 DEF KeyAt
  <2> QED BY <1>1, <1>2, <1>r, <2>1, <2>2 DEF NoValidSession
<1>3. CASE ValidRefreshToken(c)
  <2>1. CASE pc'[c] = "valid_meta"
    BY <2>1 DEF KeyAt
  <2> QED BY <1>2, <1>3, <2>1 DEF ValidRefreshToken
<1>4. CASE ValidMetadata(c)
  <2>1. CASE Live /\ job[c].op = "token" /\ ServeUnder(c, UserKey(meta.sid, meta.oid))
    <3>1. UserKey(meta.sid, meta.oid).sid = meta.sid /\ UserKey(meta.sid, meta.oid).oid = meta.oid
      BY DEF UserKey
    <3>2. Uses(c) /\ pc[c] = "valid_meta" /\ meta # None
      BY <1>0, <1>4, <2>1 DEF AskedAt, Uses, ValidMetadata, Live
    <3>3. \A d \in Call : pc[d] # "put_meta"
      BY <3>2 DEF KeyInv, WriterInv, Asked, AskedAt, OpAt, OneUser, Uses
    <3>4. rt # None => meta.sid = rt
      BY <3>2, <3>3 DEF KeyInv, WriterInv, SessionPaired
    <3>5. meta.oid \in {meta.sid, None}
      BY <3>2 DEF KeyInv, WriterInv, OwnUser
    <3> QED BY <1>1, <2>1, <3>1, <3>4, <3>5
  <2> QED BY <1>2, <1>4, <1>r, <2>1 DEF ValidMetadata
<1> QED BY <1>3, <1>4 DEF ValidStep

LEMMA KeyStep ==
  ASSUME TypeOK, Loaded, KeyInv, OneUser, NEW c \in Call, CallStep(c)
  PROVE  KeyAt(c)'
<1>0. KeyAt(c) /\ AskedAt(c) /\ OneWriter
  BY OneUserWrites DEF KeyInv, WriterInv, Asked
<1>r. (\E who : Return(c, who)) => KeyAt(c)'
  BY KeyReturn
<1>p. ASSUME pc'[c] \notin TokenSteps
      PROVE  KeyAt(c)'
  BY <1>p DEF KeyAt, TokenSteps
<1> USE DEF TypeOK, Goto, At, TokenSteps
<1>1. ASSUME NEW o \in OpName, NEW force, NEW env, Start(c, o, force, env)
      PROVE  KeyAt(c)'
  BY <1>1, <1>p DEF Start, Entry, OpName
<1>2. CASE Crash(c)
  BY <1>2, <1>r DEF Crash
<1>3. CASE LoginStep(c)
  BY <1>3, <1>p, <1>r DEF LoginStep, Authenticate, AuthenticateFails
<1>4. CASE ClearStep(c)
  <2>1. \/ \E who : Return(c, who)
        \/ pc'[c] \in {"delete", "peek", "del_rt"}
        \/ job'[c].op = job[c].op /\ job[c].op = "login"
    BY <1>4 DEF ClearStep, ListKeys, ListKeysFails, DeleteCached, ClearDone, AfterClear, Job
  <2> QED BY <1>p, <1>r, <2>1 DEF KeyAt
<1>5. CASE StoreStep(c)
  <2>1. ~StoreFails(c)
    BY <1>0 DEF OneWriter, StoreFails, Fault
  <2>2. CASE /\ UNCHANGED job /\ pc[c] \in {"put_rt", "put_meta"}
             /\ pc'[c] \in {"put_meta", "put_cache"}
    BY <1>0, <2>2 DEF KeyAt
  <2> QED BY <1>5, <1>r, <2>1, <2>2 DEF StoreStep, PutRefreshToken, PutMetadata
<1>6. CASE DeleteStep(c)
  BY <1>6, <1>p, <1>r DEF DeleteStep, DeleteRefreshToken, DeleteMetadata
<1>7. CASE StatusStep(c)
  BY <1>7, <1>p, <1>r DEF StatusStep, SecretExists, StatusMetadata
<1>8. CASE PurgeStep(c)
  BY <1>8, <1>p, <1>r DEF PurgeStep, Peek, Drop, PurgeDone
<1> QED BY <1>1, <1>2, <1>3, <1>4, <1>5, <1>6, <1>7, <1>8, KeyValid, KeyMint DEF CallStep, Step

\* What is cached keeps its key.
LEMMA KeyCached ==
  ASSUME TypeOK, Loaded, KeyInv, NEW c \in Call, CallStep(c)
  PROVE  KeyNamesCredential'
<1>0. KeyNamesCredential /\ KeyAt(c) /\ OpAt(c)
  BY DEF KeyInv, WriterInv, Asked, AskedAt
<1>1. CASE PutCache(c)
  <2>1. /\ pc[c] = "put_cache"
        /\ \/ cache' = [cache EXCEPT ![job[c].key] = [user |-> Minted(c), life |-> "long"]]
           \/ cache' = cache
    BY <1>1 DEF PutCache, At
  <2>2. job[c].key.sid # None => job[c].key # EnvKey
    BY DEF EnvKey
  <2>3. job[c].key.sid # None => Minted(c) = job[c].key.sid /\ job[c].key.oid \in {job[c].key.sid, None}
    BY <1>0, <2>1 DEF Minted, KeyAt, OpAt
  <2> QED BY <1>0, <2>1, <2>3, JobFields, KeysKept DEF KeyNamesCredential, TypeOK
<1>2. CASE DeleteCached(c) \/ Drop(c)
  BY <1>0, <1>2, JobFields, KeysDropped, KeysKept DEF DeleteCached, Drop
<1>3. ASSUME ~PutCache(c), ~DeleteCached(c), ~Drop(c)
      PROVE  cache' = cache
  BY <1>3 DEF CallStep, Start, Crash, Step, LoginStep, ClearStep, StoreStep, DeleteStep, ValidStep,
     StatusStep, MintStep, PurgeStep, Authenticate, AuthenticateFails, ListKeys, ListKeysFails,
     ClearDone, PutRefreshToken, PutMetadata, StoreFails, DeleteRefreshToken,
     DeleteMetadata, ValidRefreshToken, ValidMetadata, SecretExists, StatusMetadata,
     CacheGet, MintRefreshToken, MintMetadata, PostGranted, PostRefused, PostRevoked,
     Acquire, Peek, PurgeDone, store
<1> QED BY <1>0, <1>1, <1>2, <1>3, KeysKept

LEMMA KeyNext ==
  ASSUME TypeOK, Loaded, KeyInv, OneUser, [Next]_vars
  PROVE  KeyInv'
<1>0. WriterInv'
  BY WriterNext, OneUserWrites DEF KeyInv
<1>1. ASSUME NEW c \in Call, CallStep(c)
      PROVE  KeyInv'
  BY <1>0, <1>1, KeyStep, KeyCached, KeyOthers DEF KeyInv
<1>2. ASSUME NEW k \in Key, TokenAges(k)
      PROVE  KeyInv'
  <2>1. cache[k] \in Token
    BY <1>2 DEF TokenAges, TypeOK, Maybe
  <2>2. cache'[k].user = cache[k].user
    BY <1>2, <2>1 DEF TokenAges, TypeOK, Token
  <2>3. KeyNamesCredential'
    BY <1>2, <2>2 DEF TokenAges, TypeOK, KeyNamesCredential, KeyInv
  <2> QED BY <1>0, <1>2, <2>3 DEF TokenAges, KeyInv, KeyAt
<1>3. CASE SessionExpires \/ UNCHANGED vars
  BY <1>0, <1>3 DEF SessionExpires, vars, KeyInv, KeyAt, KeyNamesCredential
<1> QED BY <1>1, <1>2, <1>3, NextSplit

\* When one slot logs in and asks for tokens, a token is never cached under
\* the key of another session, although mintToken reads the session's
\* secrets again after the key was derived, and although logouts, statuses
\* and purges run beside it: they can end the session, and then nothing is
\* minted, but not exchange it.
THEOREM OneUserKeys ==
  ASSUME OneUser
  PROVE  Spec => []KeyNamesCredential
<1>1. Init => KeyInv
  BY WriterInit DEF Init, KeyInv, KeyNamesCredential, KeyAt
<1>2. TypeOK /\ Loaded /\ KeyInv /\ [Next]_vars => KeyInv'
  BY KeyNext
<1>3. KeyInv => KeyNamesCredential
  BY DEF KeyInv
<1> QED BY <1>1, <1>2, <1>3, TypesAndSecrets, PTL DEF Spec

-----------------------------------------------------------------------------
(* Nothing that ends a session beside a rotation: who is signed out stays  *)
(* signed out.                                                             *)

StayInv == Asked /\ (Serial => OneActive) /\ \A c \in Call : StillAt(c)

\* The two steps that change the refresh token.
LEMMA TokenChanges ==
  ASSUME NEW c \in Call, CallStep(c), rt' # rt
  PROVE  \/ pc[c] = "put_rt" /\ PutRefreshToken(c) /\ rt' = job[c].rt
         \/ pc[c] = "del_rt" /\ rt' = None
<1>1. Step(c)
  BY DEF CallStep, Start, Crash, store
<1>2. StoreStep(c) \/ DeleteStep(c)
  BY <1>1 DEF Step, LoginStep, ClearStep, ValidStep, StatusStep, MintStep, PurgeStep,
     Authenticate, AuthenticateFails, ListKeys, ListKeysFails, DeleteCached, ClearDone,
     ValidRefreshToken, ValidMetadata, SecretExists, StatusMetadata, CacheGet,
     MintRefreshToken, MintMetadata, PostGranted, PostRefused, PostRevoked, Acquire,
     PutCache, Peek, Drop, PurgeDone, store
<1> QED BY <1>2 DEF StoreStep, DeleteStep, PutRefreshToken, PutMetadata, StoreFails,
           DeleteRefreshToken, DeleteMetadata, At, store

LEMMA StillStep ==
  ASSUME TypeOK, Loaded, StayInv, NEW c \in Call, Step(c)
  PROVE  StillAt(c)'
<1>0. StillAt(c) /\ AskedAt(c) /\ OpAt(c)
  BY DEF StayInv, Asked, AskedAt
<1>p. ASSUME pc'[c] \notin {"mint_meta", "post", "put_rt"}
      PROVE  StillAt(c)'
  BY <1>p DEF StillAt
<1>r. (\E who : Return(c, who)) => StillAt(c)'
  BY <1>p DEF Return, Goto, TypeOK
<1> USE DEF TypeOK, Goto, At
<1>1. CASE LoginStep(c)
  BY <1>1, <1>p, <1>r DEF LoginStep, Authenticate, AuthenticateFails
<1>2. CASE ClearStep(c)
  <2>1. \/ \E who : Return(c, who)
        \/ pc'[c] \in {"delete", "peek", "del_rt"}
        \/ job'[c].op = "login" /\ pc'[c] = "put_rt"
    BY <1>2 DEF ClearStep, ListKeys, ListKeysFails, DeleteCached, ClearDone, AfterClear, Job
  <2> QED BY <1>p, <1>r, <2>1 DEF StillAt
<1>3. CASE StoreStep(c)
  BY <1>3, <1>p, <1>r DEF StoreStep, PutRefreshToken, PutMetadata, StoreFails
<1>4. CASE DeleteStep(c)
  BY <1>4, <1>p, <1>r DEF DeleteStep, DeleteRefreshToken, DeleteMetadata
<1>5. CASE ValidStep(c)
  <2>1. ASSUME NEW key, ServeUnder(c, key)
        PROVE  StillAt(c)'
    BY <2>1, <1>p DEF ServeUnder, FirstStep, NewToken
  <2>2. CASE NoValidSession(c)
    BY <1>p, <1>r, <2>1, <2>2 DEF NoValidSession
  <2> QED BY <1>5, <1>p, <1>r, <2>1, <2>2 DEF ValidStep, ValidRefreshToken, ValidMetadata
<1>6. CASE StatusStep(c)
  BY <1>6, <1>p, <1>r DEF StatusStep, SecretExists, StatusMetadata
<1>7. CASE MintStep(c)
  <2>1. CASE MintRefreshToken(c)
    BY <2>1, <1>r DEF MintRefreshToken, StillAt, store
  <2>2. CASE MintMetadata(c)
    BY <1>0, <2>2, <1>r DEF MintMetadata, StillAt, store
  <2>3. CASE PostGranted(c)
    BY <1>0, <1>p, <2>3 DEF PostGranted, StillAt, store
  <2> QED BY <1>7, <1>p, <1>r, <2>1, <2>2, <2>3
          DEF MintStep, CacheGet, PostRefused, PostRevoked, Acquire, PutCache, NewToken
<1>8. CASE PurgeStep(c)
  BY <1>8, <1>p, <1>r DEF PurgeStep, Peek, Drop, PurgeDone
<1> QED BY <1>1, <1>2, <1>3, <1>4, <1>5, <1>6, <1>7, <1>8 DEF Step

\* What another call does to the store leaves a request its session.
LEMMA StillOthers ==
  ASSUME TypeOK, Loaded, StayInv, NoEndBeside, NEW c \in Call, CallStep(c),
         NEW d \in Call \ {c}
  PROVE  StillAt(d)'
<1>1. pc'[d] = pc[d] /\ job'[d] = job[d]
  BY StepIsLocal DEF CallStep, Others
<1>2. StillAt(d) /\ AskedAt(d) /\ OpAt(d) /\ AskedAt(c)
  BY DEF StayInv, Asked, AskedAt
<1>3. CASE rt' = rt
  BY <1>1, <1>2, <1>3 DEF StillAt
<1>4. CASE rt' # rt /\ rt' # None
  BY <1>1, <1>2, <1>4 DEF StillAt
<1>5. CASE rt' # rt /\ rt' = None
  <2>1. pc[c] = "del_rt"
    BY <1>5, TokenChanges DEF Loaded, LoadedAt
  <2>2. Ops[c] \cap {"logout", "token"} # {}
    BY <1>2, <2>1 DEF AskedAt
  <2>3. ASSUME Rotates,
               \/ pc[d] \in {"mint_meta", "post"}
               \/ pc[d] = "put_rt" /\ job[d].op = "token"
        PROVE  FALSE
    <3>1. "token" \in Ops[d] /\ pc[d] # "idle"
      BY <1>2, <2>3 DEF AskedAt, OpAt
    <3>2. ~Serial
      BY <3>1, OthersIdle DEF StayInv
    <3> QED BY <2>2, <2>3, <3>1, <3>2 DEF NoEndBeside
  <2> QED BY <1>1, <1>2, <2>3 DEF StillAt
<1> QED BY <1>3, <1>4, <1>5

LEMMA StayNext ==
  ASSUME TypeOK, Loaded, StayInv, NoEndBeside, [Next]_vars
  PROVE  StayInv'
<1>0. Asked' /\ (Serial => OneActive')
  BY AskedNext, OneActiveNext DEF StayInv
<1>1. ASSUME NEW c \in Call, CallStep(c)
      PROVE  StayInv'
  <2>1. ASSUME NEW o \in OpName, NEW force \in BOOLEAN, NEW env \in BOOLEAN,
               Start(c, o, force, env)
        PROVE  StillAt(c)'
    BY <2>1 DEF Start, Entry, Goto, TypeOK, StillAt
  <2>2. Crash(c) => StillAt(c)'
    BY DEF Crash, Return, Goto, TypeOK, StillAt
  <2>3. StillAt(c)'
    BY <1>1, <2>1, <2>2, StillStep DEF CallStep
  <2>4. \A d \in Call : StillAt(d)'
    BY <1>1, <2>3, StillOthers
  <2> QED BY <1>0, <2>4 DEF StayInv
<1>2. ASSUME UNCHANGED <<rt, pc, job>>
      PROVE  StayInv'
  BY <1>0, <1>2 DEF StayInv, StillAt
<1> QED BY <1>1, <1>2, NextSplit DEF vars, TokenAges, SessionExpires

LEMMA StayInit == Init => StayInv
BY DEF Init, StayInv, Asked, AskedAt, OpAt, OneActive, Idle, StillAt

\* Once signed out, only a login signs in again, if a provider that rotates
\* refresh tokens is asked for tokens by one call at a time, or beside nothing
\* that can end the session: the logout, or the cleanup after a revocation
\* another request is told of, cannot fall between the request and the write
\* of its answer.  Steps may fail and calls die anywhere.  A provider that
\* does not rotate needs no such condition.
THEOREM OnlyLoginsSignIn ==
  ASSUME NoEndBeside
  PROVE  Spec => OnlyLoginSignsIn
<1>1. TypeOK /\ Loaded /\ StayInv /\ [Next]_vars => StayInv'
  BY StayNext
<1>2. TypeOK /\ Loaded /\ StayInv /\ [Next]_vars
      => [rt = None /\ rt' # None
            => \E c \in Call : At(c, "put_rt") /\ job[c].op = "login"]_vars
  <2> SUFFICES ASSUME StayInv, [Next]_vars, rt = None, rt' # None
               PROVE  \E c \in Call : At(c, "put_rt") /\ job[c].op = "login"
    OBVIOUS
  <2>1. PICK c \in Call : CallStep(c)
    BY NextSplit DEF vars, TokenAges, SessionExpires
  <2>2. pc[c] = "put_rt"
    BY <2>1, TokenChanges
  <2>3. StillAt(c) /\ OpAt(c)
    BY DEF StayInv, Asked, AskedAt
  <2>4. job[c].op = "login"
    BY <2>2, <2>3 DEF StillAt, OpAt
  <2> QED BY <2>2, <2>4 DEF At
<1> QED BY <1>1, <1>2, StayInit, TypesAndSecrets, PTL DEF Spec, OnlyLoginSignsIn

-----------------------------------------------------------------------------
(* Every step of a call brings it nearer to its answer.                    *)

\* The key a purge is about to delete is one it has still to go through.
DropAt(c) == pc[c] = "drop" => job[c].key \in job[c].todo

DropInv == \A c \in Call : DropAt(c)

LEMMA PurgeAdvances ==
  ASSUME TypeOK, DropInv, NEW c \in Call, PurgeStep(c)
  PROVE  Advances(c) /\ DropAt(c)'
<1> USE DEF TypeOK, Goto, At
<1>1. ASSUME NEW k \in job[c].todo, job' = [job EXCEPT ![c].todo = @ \ {k}]
      PROVE  job'[c].todo \subseteq job[c].todo /\ job'[c].todo # job[c].todo
  BY <1>1 DEF Job
<1>2. CASE Peek(c)
  <2>1. PICK k \in job[c].todo :
          \/ job' = [job EXCEPT ![c].key = k] /\ pc'[c] = "drop"
          \/ job' = [job EXCEPT ![c].todo = @ \ {k}] /\ pc'[c] = "peek"
    BY <1>2 DEF Peek
  <2>2. CASE job' = [job EXCEPT ![c].key = k] /\ pc'[c] = "drop"
    <3>1. job'[c].key = k /\ job'[c].todo = job[c].todo
      BY <2>2 DEF Job
    <3> QED BY <1>2, <2>2, <3>1 DEF Peek, Advances, DropAt
  <2> QED BY <1>1, <2>1, <2>2 DEF Advances, DropAt
<1>3. CASE Drop(c)
  <2>1. job[c].key \in job[c].todo
    BY <1>3 DEF Drop, DropInv, DropAt
  <2> QED BY <1>1, <1>3, <2>1 DEF Drop, Advances, DropAt
<1>4. CASE PurgeDone(c)
  BY <1>4 DEF PurgeDone, Return, Advances, Stage, DropAt
<1> QED BY <1>2, <1>3, <1>4 DEF PurgeStep

LEMMA StepAdvances ==
  ASSUME TypeOK, DropInv, NEW c \in Call, Step(c) \/ Crash(c)
  PROVE  Advances(c) /\ DropAt(c)'
<1>a. ASSUME Stage(pc'[c]) > Stage(pc[c]), pc'[c] # "drop"
      PROVE  Advances(c) /\ DropAt(c)'
  BY <1>a DEF Advances, DropAt
<1>r. ASSUME NEW who, Return(c, who), pc[c] # "idle"
      PROVE  Advances(c) /\ DropAt(c)'
  <2>1. pc'[c] = "idle" /\ pc[c] \in PC
    BY <1>r DEF Return, Goto, TypeOK
  <2> QED BY <1>a, <1>r, <2>1 DEF Stage, PC
<1> USE DEF TypeOK, Goto, At, Stage
<1>1. CASE Crash(c)
  BY <1>1, <1>r DEF Crash, Idle
<1>2. CASE LoginStep(c)
  BY <1>2, <1>a, <1>r DEF LoginStep, Authenticate, AuthenticateFails
<1>3. CASE ClearStep(c)
  <2>1. AfterClear(c) \in {"put_rt", "del_rt"}
    BY DEF AfterClear
  <2>2. CASE DeleteCached(c)
    <3>1. PICK k \in job[c].todo : job' = [job EXCEPT ![c].todo = @ \ {k}]
      BY <2>2 DEF DeleteCached
    <3>2. job'[c].todo \subseteq job[c].todo /\ job'[c].todo # job[c].todo
      BY <3>1 DEF Job
    <3> QED BY <2>2, <3>2 DEF DeleteCached, Advances, DropAt
  <2> QED BY <1>3, <1>a, <1>r, <2>1, <2>2 DEF ClearStep, ListKeys, ListKeysFails, ClearDone
<1>4. CASE StoreStep(c) \/ DeleteStep(c)
  BY <1>4, <1>a, <1>r DEF StoreStep, PutRefreshToken, PutMetadata, StoreFails, DeleteStep,
     DeleteRefreshToken, DeleteMetadata
<1>5. CASE ValidStep(c)
  <2>1. ASSUME NEW key, ServeUnder(c, key)
        PROVE  pc'[c] \in {"acquire", "mint_rt", "cache_get"}
    BY <2>1 DEF ServeUnder, FirstStep, NewToken
  <2> QED BY <1>5, <1>a, <1>r, <2>1 DEF ValidStep, ValidRefreshToken, ValidMetadata, NoValidSession
<1>6. CASE StatusStep(c)
  BY <1>6, <1>a, <1>r DEF StatusStep, SecretExists, StatusMetadata
<1>7. CASE MintStep(c)
  <2>1. CASE CacheGet(c)
    <3>1. ASSUME pc[c] = "cache_get", pc'[c] = NewToken(job[c].key)
          PROVE  Advances(c) /\ DropAt(c)'
      BY <1>a, <3>1 DEF NewToken, Stage
    <3>2. CASE Goto(c, NewToken(job[c].key))
      BY <2>1, <3>1, <3>2 DEF CacheGet
    <3> QED BY <1>r, <2>1, <3>2 DEF CacheGet
  <2> QED BY <1>7, <1>a, <1>r, <2>1 DEF MintStep, MintRefreshToken, MintMetadata, PostGranted,
          PostRefused, PostRevoked, Acquire, PutCache
<1> QED BY <1>1, <1>2, <1>3, <1>4, <1>5, <1>6, <1>7, PurgeAdvances DEF Step

LEMMA DropNext ==
  ASSUME TypeOK, DropInv, [Next]_vars
  PROVE  DropInv'
<1>1. ASSUME NEW c \in Call, CallStep(c)
      PROVE  DropInv'
  <2>1. ASSUME NEW o \in OpName, NEW force \in BOOLEAN, NEW env \in BOOLEAN,
               Start(c, o, force, env)
        PROVE  DropAt(c)'
    BY <2>1 DEF Start, Entry, Goto, TypeOK, DropAt
  <2>2. DropAt(c)'
    BY <1>1, <2>1, StepAdvances DEF CallStep
  <2>3. Others(c)
    BY <1>1, StepIsLocal DEF CallStep
  <2> QED BY <2>2, <2>3 DEF DropInv, DropAt, Others
<1>2. ASSUME UNCHANGED <<pc, job>>
      PROVE  DropInv'
  BY <1>2 DEF DropInv, DropAt
<1> QED BY <1>1, <1>2, NextSplit DEF vars, TokenAges, SessionExpires

\* A call only goes forward, whatever fails, expires or is done by others
\* meanwhile: through a fixed order of stages, and within the deletions and
\* the purge through the keys listed once.  With finitely many cached tokens
\* it therefore ends after finitely many steps of its own.
THEOREM CallsAdvance == Spec => StepsAdvance
<1>1. Init => DropInv
  BY DEF Init, DropInv, DropAt
<1>2. TypeOK /\ Loaded /\ DropInv /\ [Next]_vars => DropInv'
  BY DropNext
<1>3. TypeOK /\ Loaded /\ DropInv /\ [Next]_vars
      => [\A c \in Call : ~Idle(c) => IF Step(c) \/ Crash(c) THEN Advances(c)
                                     ELSE UNCHANGED <<pc[c], job[c]>>]_vars
  <2> SUFFICES ASSUME TypeOK, DropInv, [Next]_vars, NEW c \in Call, ~Idle(c),
                      ~(Step(c) \/ Crash(c))
               PROVE  UNCHANGED <<pc[c], job[c]>>
    BY StepAdvances
  <2>1. ASSUME NEW d \in Call, CallStep(d)
        PROVE  UNCHANGED <<pc[c], job[c]>>
    <3>1. d # c
      BY <2>1 DEF CallStep, Start
    <3> QED BY <2>1, <3>1, StepIsLocal DEF CallStep, Others
  <2> QED BY <2>1, NextSplit DEF vars, TokenAges, SessionExpires
<1> QED BY <1>1, <1>2, <1>3, TypesAndSecrets, PTL DEF Spec, StepsAdvance

=============================================================================
