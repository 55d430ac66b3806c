-------------------------- MODULE CliSessionProofs --------------------------
(* Theorems about CliSession, for any number of calls and sessions.        *)
EXTENDS CliSession, TLAPS

-----------------------------------------------------------------------------
(* Types of the values the actions build.                                  *)

LEMMA BlankJob == Blank \in Job
BY DEF Blank, Job, Maybe, Key, EnvKey

LEMMA EnvKeyInKey == EnvKey \in Key
BY DEF Key

LEMMA UserKeys ==
  \A sid, oid \in Maybe(Session) : UserKey(sid, oid) \in Key /\ UserKey(sid, oid) # EnvKey
BY DEF UserKey, Key, EnvKey

LEMMA MetadataFields ==
  \A md \in Maybe(Metadata) : md # None =>
    /\ md.sid \in Session
    /\ md.oid \in Maybe(Session)
    /\ md \in Metadata
BY DEF Maybe, Metadata

\* The part of TypeOK about the calls.
Locals == /\ pc \in [Call -> PC]
          /\ job \in [Call -> Job]
          /\ reply \in [Call -> Session \union {App, None}]

LEMMA ReturnTypes ==
  ASSUME TypeOK, NEW c \in Call, NEW who \in Session \union {App, None}, Return(c, who)
  PROVE  Locals'
BY BlankJob DEF TypeOK, Locals, Return, Goto, PC

LEMMA GotoTypes ==
  ASSUME TypeOK, NEW c \in Call, NEW l \in PC, Goto(c, l), UNCHANGED reply,
         job' \in [Call -> Job]
  PROVE  Locals'
BY DEF TypeOK, Locals, Goto

LEMMA KeepJob ==
  ASSUME TypeOK, UNCHANGED job
  PROVE  job' \in [Call -> Job]
BY DEF TypeOK

LEMMA ServeTypes ==
  ASSUME TypeOK, NEW c \in Call, NEW key \in Key, ServeUnder(c, key)
  PROVE  Locals'
<1>1. FirstStep(c, key) \in PC
  BY DEF FirstStep, NewToken, PC
<1>2. job' \in [Call -> Job]
  BY DEF TypeOK, ServeUnder, Job
<1> QED BY <1>1, <1>2, GotoTypes DEF ServeUnder

LEMMA NoValidTypes ==
  ASSUME TypeOK, NEW c \in Call, NoValidSession(c)
  PROVE  Locals'
<1>1. ASSUME NEW key \in {EnvKey, UserKey(None, None)}, ServeUnder(c, key)
      PROVE  Locals'
  <2>1. key \in Key
    BY UserKeys, EnvKeyInKey DEF Maybe
  <2> QED BY <1>1, <2>1, ServeTypes
<1>2. CASE Return(c, App)
  BY <1>2, ReturnTypes
<1>3. CASE Goto(c, "exists") /\ UNCHANGED <<job, reply>>
  <2>1. "exists" \in PC
    BY DEF PC
  <2> QED BY <1>3, <2>1, GotoTypes, KeepJob
<1> QED BY <1>1, <1>2, <1>3 DEF NoValidSession, KeyWithoutSession

LEMMA FaultTypes ==
  ASSUME TypeOK, NEW kind, (NoFault \/ Fault(kind) \/ UNCHANGED faults)
  PROVE  faults' \in Nat
BY DEF TypeOK, NoFault, Fault

LEMMA NotReadTypes ==
  ASSUME TypeOK, NEW absent, NotRead(absent)
  PROVE  faults' \in Nat
BY FaultTypes DEF NotRead

-----------------------------------------------------------------------------
(* Type correctness, one step per action.                                  *)

\* The part of TypeOK about the store.
Stored == /\ rt \in Maybe(Session)
          /\ meta \in Maybe(Metadata)
          /\ cache \in [Key -> Maybe(Token)]

LEMMA TypeSplit == TypeOK' <=> Stored' /\ Locals' /\ issued' \subseteq Session /\ faults' \in Nat
BY DEF TypeOK, Stored, Locals

LEMMA StoredKept == TypeOK /\ UNCHANGED store => Stored'
BY DEF TypeOK, Stored, store

LEMMA CacheUpdate ==
  ASSUME TypeOK, UNCHANGED <<rt, meta>>, NEW k \in Key, NEW t \in Maybe(Token),
         cache' = [cache EXCEPT ![k] = t]
  PROVE  Stored'
BY DEF TypeOK, Stored

LEMMA JobFields ==
  ASSUME TypeOK, NEW c \in Call
  PROVE  /\ job[c].op \in Maybe(OpName) /\ job[c].rt \in Maybe(Session)
         /\ job[c].md \in Maybe(Metadata) /\ job[c].key \in Key
         /\ job[c].todo \subseteq Key /\ job[c].force \in BOOLEAN /\ job[c].env \in BOOLEAN
         /\ job[c] \in Job
BY DEF TypeOK, Job

LEMMA JobUpdate ==
  ASSUME TypeOK, NEW c \in Call, NEW j \in Job, job' = [job EXCEPT ![c] = j]
  PROVE  job' \in [Call -> Job]
BY DEF TypeOK

LEMMA TypeInit == Init => TypeOK
BY SessionAssumption, BlankJob DEF Init, TypeOK, Maybe, PC

LEMMA TypeStart ==
  ASSUME TypeOK, NEW c \in Call, NEW o \in OpName, NEW force \in BOOLEAN, NEW env \in BOOLEAN,
         Start(c, o, force, env)
  PROVE  TypeOK'
<1>1. Entry(o) \in PC
  BY DEF Entry, PC, OpName
<1>2. [Blank EXCEPT !.op = o, !.force = force, !.env = env] \in Job
  BY DEF Blank, Job, Maybe, Key, EnvKey
<1>3. Locals'
  BY <1>1, <1>2 DEF Start, TypeOK, Locals, Goto
<1> QED BY <1>3, TypeSplit, StoredKept DEF Start, TypeOK, store

LEMMA TypeLogin ==
  ASSUME TypeOK, NEW c \in Call, LoginStep(c)
  PROVE  TypeOK'
<1>1. CASE Authenticate(c)
  <2>1. PICK s \in Session, oid \in Maybe(Session) :
          /\ issued' = issued \union {s}
          /\ faults' \in Nat
          /\ job' = [job EXCEPT ![c].rt = s,
                                ![c].md = [sid |-> s, oid |-> oid, live |-> TRUE]]
    BY <1>1, FaultTypes DEF Authenticate, NewMetadata
  <2> DEFINE md == [sid |-> s, oid |-> oid, live |-> TRUE]
             j == [job[c] EXCEPT !.rt = s, !.md = md]
  <2>a. md \in Maybe(Metadata) /\ s \in Maybe(Session)
    BY DEF Metadata, Maybe
  <2>b. j \in Job
    <3> HIDE DEF md
    <3> QED BY <2>a, JobFields DEF Job
  <2>c. job' = [job EXCEPT ![c] = j]
    BY <2>1 DEF TypeOK, Job
  <2>2. job' \in [Call -> Job]
    <3> HIDE DEF j
    <3> QED BY <2>b, <2>c, JobUpdate
  <2>3. Locals'
    BY <1>1, <2>2, GotoTypes DEF Authenticate, PC
  <2> QED BY <1>1, <2>1, <2>3, TypeSplit, StoredKept DEF Authenticate, TypeOK, store
<1>2. CASE AuthenticateFails(c)
  BY <1>2, ReturnTypes, TypeSplit, StoredKept DEF AuthenticateFails, TypeOK, store
<1> QED BY <1>1, <1>2 DEF LoginStep

LEMMA AfterClearPC == \A c : AfterClear(c) \in PC
BY DEF AfterClear, PC

LEMMA TypeClear ==
  ASSUME TypeOK, NEW c \in Call, ClearStep(c)
  PROVE  TypeOK'
<1>1. CASE ListKeys(c)
  <2>1. job' \in [Call -> Job]
    BY <1>1 DEF ListKeys, Cached, TypeOK, Job
  <2>2. Locals'
    BY <1>1, <2>1, GotoTypes DEF ListKeys, PC
  <2> QED BY <1>1, <2>2, TypeSplit, StoredKept DEF ListKeys, TypeOK, store
<1>2. CASE ListKeysFails(c)
  <2>1. faults' \in Nat
    BY <1>2, FaultTypes DEF ListKeysFails
  <2>2. CASE Return(c, None)
    BY <1>2, <2>1, <2>2, ReturnTypes, TypeSplit, StoredKept DEF ListKeysFails, TypeOK, store
  <2>3. CASE Goto(c, AfterClear(c)) /\ UNCHANGED <<job, reply>>
    <3>1. Locals'
      BY <2>3, AfterClearPC, GotoTypes, KeepJob
    <3> QED BY <1>2, <2>1, <3>1, TypeSplit, StoredKept DEF ListKeysFails, TypeOK, store
  <2> QED BY <1>2, <2>2, <2>3 DEF ListKeysFails
<1>3. CASE DeleteCached(c)
  <2>1. PICK k \in job[c].todo :
          /\ job' = [job EXCEPT ![c].todo = @ \ {k}]
          /\ \/ NoFault /\ cache' = [cache EXCEPT ![k] = None]
             \/ Fault("del") /\ cache' = cache
    BY <1>3 DEF DeleteCached
  <2>2. job' \in [Call -> Job]
    BY <2>1, JobFields DEF TypeOK, Job
  <2>3. Locals'
    BY <1>3, <2>2 DEF DeleteCached, TypeOK, Locals
  <2>4. faults' \in Nat
    BY <2>1, FaultTypes
  <2>5. k \in Key
    BY <2>1, JobFields
  <2>6. Stored'
    BY <1>3, <2>1, <2>5, CacheUpdate DEF DeleteCached, TypeOK, Stored, Maybe
  <2> QED BY <1>3, <2>3, <2>4, <2>6, TypeSplit DEF DeleteCached, TypeOK
<1>4. CASE ClearDone(c)
  <2>1. Locals'
    BY <1>4, AfterClearPC, GotoTypes, KeepJob DEF ClearDone
  <2> QED BY <1>4, <2>1, TypeSplit, StoredKept DEF ClearDone, TypeOK, store
<1> QED BY <1>1, <1>2, <1>3, <1>4 DEF ClearStep

LEMMA TypeStoreFails ==
  ASSUME TypeOK, NEW c \in Call, StoreFails(c)
  PROVE  TypeOK'
<1>1. faults' \in Nat
  BY FaultTypes DEF StoreFails
<1>2. CASE Return(c, None)
  BY <1>1, <1>2, ReturnTypes, TypeSplit, StoredKept DEF StoreFails, TypeOK, store
<1>3. CASE Goto(c, "put_cache") /\ UNCHANGED <<job, reply>>
  <2>1. Locals'
    BY <1>3, GotoTypes, KeepJob DEF PC
  <2> QED BY <1>1, <2>1, TypeSplit, StoredKept DEF StoreFails, TypeOK, store
<1> QED BY <1>2, <1>3 DEF StoreFails

LEMMA TypeStore ==
  ASSUME TypeOK, Loaded, NEW c \in Call, StoreStep(c)
  PROVE  TypeOK'
<1>1. CASE StoreFails(c)
  BY <1>1, TypeStoreFails
<1>2. ASSUME PutRefreshToken(c), ~StoreFails(c)
      PROVE  TypeOK'
  <2>1. rt' \in Maybe(Session)
    BY <1>2, JobFields DEF PutRefreshToken
  <2>2. Locals'
    BY <1>2, GotoTypes, KeepJob DEF PutRefreshToken, PC
  <2> QED BY <1>2, <2>1, <2>2, TypeSplit DEF PutRefreshToken, Stored, TypeOK
<1>3. ASSUME PutMetadata(c), ~StoreFails(c)
      PROVE  TypeOK'
  <2>1. job[c].md \in Metadata /\ job[c].md.oid \in Maybe(Session)
    BY <1>3, JobFields, MetadataFields DEF Loaded, LoadedAt, PutMetadata, At
  <2>2. meta' \in Maybe(Metadata)
    BY <1>3, <2>1 DEF PutMetadata, StoredMetadata, Metadata, Maybe
  <2>3. CASE Return(c, job[c].md.oid)
    <3>1. job[c].md.oid \in Session \union {App, None}
      BY <2>1 DEF Maybe
    <3> QED BY <1>3, <2>2, <2>3, <3>1, ReturnTypes, TypeSplit
            DEF PutMetadata, Stored, TypeOK
  <2>4. CASE Goto(c, "put_cache") /\ UNCHANGED <<job, reply>>
    <3>1. Locals'
      BY <2>4, GotoTypes, KeepJob DEF PC
    <3> QED BY <1>3, <2>2, <3>1, TypeSplit DEF PutMetadata, Stored, TypeOK
  <2> QED BY <1>3, <2>3, <2>4 DEF PutMetadata
<1> QED BY <1>1, <1>2, <1>3 DEF StoreStep

LEMMA TypeDelete ==
  ASSUME TypeOK, NEW c \in Call, DeleteStep(c)
  PROVE  TypeOK'
<1>1. faults' \in Nat
  BY FaultTypes DEF DeleteStep, DeleteRefreshToken, DeleteMetadata
<1>2. CASE DeleteRefreshToken(c)
  <2>1. Locals'
    BY <1>2, GotoTypes, KeepJob DEF DeleteRefreshToken, PC
  <2> QED BY <1>1, <1>2, <2>1, TypeSplit DEF DeleteRefreshToken, Stored, TypeOK, Maybe
<1>3. CASE DeleteMetadata(c)
  <2>1. Locals'
    BY <1>3, ReturnTypes DEF DeleteMetadata
  <2> QED BY <1>1, <1>3, <2>1, TypeSplit DEF DeleteMetadata, Stored, TypeOK, Maybe
<1> QED BY <1>2, <1>3 DEF DeleteStep

\* Steps that only read the store.
LEMMA TypeRead ==
  ASSUME TypeOK, UNCHANGED <<store, issued>>, faults' \in Nat, Locals'
  PROVE  TypeOK'
BY TypeSplit, StoredKept DEF TypeOK, store

LEMMA TypeValid ==
  ASSUME TypeOK, NEW c \in Call, ValidStep(c)
  PROVE  TypeOK'
<1>1. CASE ValidRefreshToken(c)
  <2>1. faults' \in Nat
    BY <1>1, FaultTypes, NotReadTypes DEF ValidRefreshToken
  <2>2. CASE Goto(c, "valid_meta") /\ UNCHANGED <<job, reply>>
    <3>1. Locals'
      BY <2>2, GotoTypes, KeepJob DEF PC
    <3> QED BY <1>1, <2>1, <3>1, TypeRead DEF ValidRefreshToken
  <2>3. CASE NoValidSession(c)
    BY <1>1, <2>1, <2>3, NoValidTypes, TypeRead DEF ValidRefreshToken
  <2> QED BY <1>1, <2>2, <2>3 DEF ValidRefreshToken
<1>2. CASE ValidMetadata(c)
  <2>1. faults' \in Nat
    BY <1>2, FaultTypes, NotReadTypes DEF ValidMetadata
  <2>2. CASE NoValidSession(c)
    BY <1>2, <2>1, <2>2, NoValidTypes, TypeRead DEF ValidMetadata
  <2>3. ASSUME meta # None,
               \/ ServeUnder(c, UserKey(meta.sid, meta.oid))
               \/ Return(c, meta.oid)
        PROVE  Locals'
    <3>1. meta.sid \in Session /\ meta.oid \in Maybe(Session)
      BY <2>3, MetadataFields DEF TypeOK
    <3>2. UserKey(meta.sid, meta.oid) \in Key
      BY <3>1, UserKeys DEF Maybe
    <3>3. meta.oid \in Session \union {App, None}
      BY <3>1 DEF Maybe
    <3> QED BY <2>3, <3>2, <3>3, ServeTypes, ReturnTypes
  <2> QED BY <1>2, <2>1, <2>2, <2>3, TypeRead DEF ValidMetadata, Live
<1> QED BY <1>1, <1>2 DEF ValidStep

LEMMA TypeStatus ==
  ASSUME TypeOK, NEW c \in Call, StatusStep(c)
  PROVE  TypeOK'
<1>1. CASE SecretExists(c)
  <2>1. faults' \in Nat
    BY <1>1, FaultTypes, NotReadTypes DEF SecretExists
  <2>2. Locals'
    BY <1>1, GotoTypes, KeepJob, ReturnTypes DEF SecretExists, PC
  <2> QED BY <1>1, <2>1, <2>2, TypeRead DEF SecretExists
<1>2. CASE StatusMetadata(c)
  <2>1. faults' \in Nat
    BY <1>2, FaultTypes DEF StatusMetadata
  <2>2. (IF Live THEN meta.oid ELSE None) \in Session \union {App, None}
    BY MetadataFields DEF TypeOK, Live, Maybe
  <2>3. Locals'
    BY <1>2, <2>2, ReturnTypes DEF StatusMetadata
  <2> QED BY <1>2, <2>1, <2>3, TypeRead DEF StatusMetadata
<1> QED BY <1>1, <1>2 DEF StatusStep

LEMMA NewTokenPC == \A k : NewToken(k) \in PC
BY DEF NewToken, PC

\* A token that is served has an owner.
LEMMA MintedTypes ==
  ASSUME TypeOK, Loaded, NEW c \in Call, pc[c] = "put_cache"
  PROVE  Minted(c) \in Session \union {App}
BY JobFields DEF Minted, Loaded, LoadedAt, Maybe

LEMMA TypeMint ==
  ASSUME TypeOK, Loaded, NEW c \in Call, MintStep(c)
  PROVE  TypeOK'
<1>1. CASE CacheGet(c)
  <2>1. faults' \in Nat
    BY <1>1, FaultTypes, NotReadTypes DEF CacheGet
  <2>2. cache[job[c].key] # None => cache[job[c].key].user \in Session \union {App}
    BY JobFields DEF TypeOK, Token, Maybe
  <2>3. Locals'
    BY <1>1, <2>2, GotoTypes, KeepJob, ReturnTypes, NewTokenPC DEF CacheGet
  <2> QED BY <1>1, <2>1, <2>3, TypeRead DEF CacheGet
<1>2. CASE MintRefreshToken(c)
  <2>1. faults' \in Nat
    BY <1>2, FaultTypes, NotReadTypes DEF MintRefreshToken
  <2>2. job' = [job EXCEPT ![c].rt = rt] => job' \in [Call -> Job]
    BY DEF TypeOK, Job
  <2>3. Locals'
    BY <1>2, <2>2, GotoTypes, ReturnTypes DEF MintRefreshToken, PC
  <2> QED BY <1>2, <2>1, <2>3, TypeRead DEF MintRefreshToken
<1>3. CASE MintMetadata(c)
  <2>1. faults' \in Nat
    BY <1>3, FaultTypes, NotReadTypes DEF MintMetadata
  <2>2. job' = [job EXCEPT ![c].md = meta] => job' \in [Call -> Job]
    BY DEF TypeOK, Job
  <2>3. Locals'
    BY <1>3, <2>2, GotoTypes, ReturnTypes DEF MintMetadata, PC
  <2> QED BY <1>3, <2>1, <2>3, TypeRead DEF MintMetadata
<1>4. CASE PostGranted(c)
  <2>1. job[c].rt \in Session /\ job[c].md \in Metadata /\ job[c].md.oid \in Maybe(Session)
    BY <1>4, JobFields, MetadataFields DEF PostGranted, At, Loaded, LoadedAt, Maybe
  <2>2. ASSUME NEW oid \in {job[c].rt, job[c].md.oid},
               job' = [job EXCEPT ![c].md.oid = oid]
        PROVE  job' \in [Call -> Job]
    <3> DEFINE md == [job[c].md EXCEPT !.oid = oid]
               j == [job[c] EXCEPT !.md = md]
    <3>1. md \in Maybe(Metadata)
      BY <2>1, <2>2 DEF Metadata, Maybe
    <3>2. j \in Job
      <4> HIDE DEF md
      <4> QED BY <3>1, JobFields DEF Job
    <3>3. job' = [job EXCEPT ![c] = j]
      BY <2>2
    <3> HIDE DEF j
    <3> QED BY <3>2, <3>3, JobUpdate
  <2>3. Locals'
    BY <1>4, <2>2, GotoTypes, KeepJob DEF PostGranted, PC
  <2> QED BY <1>4, <2>3, TypeRead DEF PostGranted, TypeOK
<1>5. CASE PostRefused(c)
  BY <1>5, ReturnTypes, TypeRead DEF PostRefused, TypeOK
<1>6. CASE PostRevoked(c)
  <2>1. Locals'
    BY <1>6, GotoTypes, KeepJob DEF PostRevoked, PC
  <2> QED BY <1>6, <2>1, TypeRead DEF PostRevoked, TypeOK
<1>7. CASE Acquire(c)
  <2>1. Locals'
    BY <1>7, GotoTypes, KeepJob, ReturnTypes DEF Acquire, PC
  <2> QED BY <1>7, <2>1, TypeRead DEF Acquire, TypeOK
<1>8. CASE PutCache(c)
  <2>1. faults' \in Nat
    BY <1>8, FaultTypes DEF PutCache
  <2>2. Minted(c) \in Session \union {App}
    BY <1>8, MintedTypes DEF PutCache, At
  <2>3. Locals'
    BY <1>8, <2>2, ReturnTypes DEF PutCache
  <2>4. [user |-> Minted(c), life |-> "long"] \in Maybe(Token)
    BY <2>2 DEF Token, Life, Maybe
  <2>5. Stored'
    BY <1>8, <2>4, JobFields, CacheUpdate, StoredKept DEF PutCache, TypeOK, Stored
  <2> QED BY <1>8, <2>1, <2>3, <2>5, TypeSplit DEF PutCache, TypeOK
<1> QED BY <1>1, <1>2, <1>3, <1>4, <1>5, <1>6, <1>7, <1>8 DEF MintStep

LEMMA TypePurge ==
  ASSUME TypeOK, NEW c \in Call, PurgeStep(c)
  PROVE  TypeOK'
<1>1. CASE Peek(c)
  <2>1. faults' \in Nat
    BY <1>1, FaultTypes, NotReadTypes DEF Peek
  <2>2. ASSUME NEW k \in job[c].todo, job' = [job EXCEPT ![c].key = k]
        PROVE  job' \in [Call -> Job]
    BY <2>2, JobFields DEF TypeOK, Job
  <2>3. ASSUME NEW k \in job[c].todo, job' = [job EXCEPT ![c].todo = @ \ {k}]
        PROVE  job' \in [Call -> Job]
    BY <2>3, JobFields DEF TypeOK, Job
  <2>4. job' \in [Call -> Job]
    BY <1>1, <2>2, <2>3 DEF Peek
  <2>5. pc' \in [Call -> PC]
    BY <1>1 DEF Peek, Goto, TypeOK, PC
  <2>6. Locals'
    BY <1>1, <2>4, <2>5 DEF Peek, TypeOK, Locals
  <2> QED BY <1>1, <2>1, <2>6, TypeRead DEF Peek
<1>2. CASE Drop(c)
  <2>1. faults' \in Nat
    BY <1>2, FaultTypes DEF Drop
  <2>2. job' \in [Call -> Job]
    BY <1>2, JobFields DEF Drop, TypeOK, Job
  <2>3. Locals'
    BY <1>2, <2>2, GotoTypes DEF Drop, PC
  <2>4. Stored'
    BY <1>2, JobFields, CacheUpdate DEF Drop, TypeOK, Stored, Maybe
  <2> QED BY <1>2, <2>1, <2>3, <2>4, TypeSplit DEF Drop, TypeOK
<1>3. CASE PurgeDone(c)
  BY <1>3, ReturnTypes, TypeRead DEF PurgeDone, TypeOK
<1> QED BY <1>1, <1>2, <1>3 DEF PurgeStep

LEMMA TypeCrash ==
  ASSUME TypeOK, NEW c \in Call, Crash(c)
  PROVE  TypeOK'
<1>1. faults' \in Nat
  BY FaultTypes DEF Crash
<1> QED BY <1>1, ReturnTypes, TypeRead DEF Crash

LEMMA TypeClock ==
  ASSUME TypeOK, (\E k \in Key : TokenAges(k)) \/ SessionExpires
  PROVE  TypeOK'
<1>1. ASSUME NEW k \in Key, TokenAges(k)
      PROVE  TypeOK'
  <2>1. cache[k] \in Token
    BY <1>1 DEF TokenAges, TypeOK, Maybe
  <2>2. [cache[k] EXCEPT !.life = IF @ = "long" THEN "short" ELSE "expired"] \in Maybe(Token)
    BY <2>1 DEF Token, Life, Maybe
  <2>3. Stored'
    BY <1>1, <2>2, CacheUpdate DEF TokenAges
  <2>4. Locals'
    BY <1>1 DEF TokenAges, TypeOK, Locals
  <2> QED BY <1>1, <2>3, <2>4, TypeSplit DEF TokenAges, TypeOK
<1>2. CASE SessionExpires
  <2>1. meta \in Metadata
    BY <1>2 DEF SessionExpires, TypeOK, Maybe
  <2>2. meta' \in Maybe(Metadata)
    BY <1>2, <2>1 DEF SessionExpires, Metadata, Maybe
  <2> QED BY <1>2, <2>2 DEF SessionExpires, TypeOK
<1> QED BY <1>1, <1>2

-----------------------------------------------------------------------------
(* The locals a call goes on with.  A step changes one call's locals.      *)

Others(c) == \A d \in Call \ {c} : pc'[d] = pc[d] /\ job'[d] = job[d]

LEMMA StepIsLocal ==
  ASSUME TypeOK, NEW c \in Call,
         \/ \E o \in OpName, force, env \in BOOLEAN : Start(c, o, force, env)
         \/ Step(c)
         \/ Crash(c)
  PROVE  Others(c)
<1> USE DEF Others, TypeOK, Return, Goto
<1>1. ASSUME NEW o, NEW force, NEW env, Start(c, o, force, env) PROVE Others(c)
  BY <1>1 DEF Start
<1>2. CASE Crash(c)
  BY <1>2 DEF Crash
<1>3. CASE LoginStep(c)
  BY <1>3 DEF LoginStep, Authenticate, AuthenticateFails
<1>4. CASE ClearStep(c)
  BY <1>4 DEF ClearStep, ListKeys, ListKeysFails, DeleteCached, ClearDone
<1>5. CASE StoreStep(c)
  BY <1>5 DEF StoreStep, PutRefreshToken, PutMetadata, StoreFails
<1>6. CASE DeleteStep(c)
  BY <1>6 DEF DeleteStep, DeleteRefreshToken, DeleteMetadata
<1>7. CASE ValidStep(c)
  BY <1>7 DEF ValidStep, ValidRefreshToken, ValidMetadata, NoValidSession, ServeUnder
<1>8. CASE StatusStep(c)
  BY <1>8 DEF StatusStep, SecretExists, StatusMetadata
<1>9. CASE MintStep(c)
  BY <1>9 DEF MintStep, CacheGet, MintRefreshToken, MintMetadata, PostGranted,
              PostRefused, PostRevoked, Acquire, PutCache
<1>10. CASE PurgeStep(c)
  BY <1>10 DEF PurgeStep, Peek, Drop, PurgeDone
<1> QED BY <1>1, <1>2, <1>3, <1>4, <1>5, <1>6, <1>7, <1>8, <1>9, <1>10 DEF Step

LEMMA LoadedFrame ==
  ASSUME Loaded, NEW c \in Call, Others(c), LoadedAt(c)'
  PROVE  Loaded'
BY DEF Loaded, LoadedAt, Others, At

\* A call that has returned holds nothing.
LEMMA LoadedReturn ==
  ASSUME TypeOK, NEW c \in Call, NEW who, Return(c, who)
  PROVE  LoadedAt(c)'
BY DEF TypeOK, Return, Goto, LoadedAt, At

LEMMA LoadedStep ==
  ASSUME TypeOK, Loaded, NEW c \in Call, Step(c)
  PROVE  LoadedAt(c)'
<1> USE DEF LoadedAt, TypeOK, Goto, At
<1>0. LoadedAt(c)
  BY DEF Loaded
<1>1. CASE LoginStep(c)
  <2>1. CASE Authenticate(c)
    <3>1. PICK s \in Session, oid \in Maybe(Session) :
            job' = [job EXCEPT ![c].rt = s,
                               ![c].md = [sid |-> s, oid |-> oid, live |-> TRUE]]
      BY <2>1 DEF Authenticate, NewMetadata
    <3>2. [sid |-> s, oid |-> oid, live |-> TRUE] \in Metadata
      BY DEF Metadata, Maybe
    <3>3. job'[c].rt = s /\ job'[c].md \in Metadata
      BY <3>1, <3>2 DEF Job
    <3> QED BY <2>1, <3>3, SessionAssumption DEF Authenticate
  <2> QED BY <1>1, <2>1, LoadedReturn DEF LoginStep, AuthenticateFails
<1>2. CASE ClearStep(c)
  BY <1>0, <1>2, LoadedReturn
     DEF ClearStep, ListKeys, ListKeysFails, DeleteCached, ClearDone, AfterClear, Job
<1>3. CASE StoreStep(c)
  BY <1>0, <1>3, LoadedReturn DEF StoreStep, PutRefreshToken, PutMetadata, StoreFails
<1>4. CASE DeleteStep(c)
  BY <1>4, LoadedReturn DEF DeleteStep, DeleteRefreshToken, DeleteMetadata
<1>5. CASE ValidStep(c)
  <2>1. ASSUME NEW key, ServeUnder(c, key)
        PROVE  LoadedAt(c)'
    <3>0. job[c].rt = None
      BY <1>0, <1>5 DEF ValidStep, ValidRefreshToken, ValidMetadata
    <3>1. pc'[c] = FirstStep(c, key) /\ job'[c].key = key /\ job'[c].rt = None
      BY <2>1, <3>0 DEF ServeUnder, Job
    <3>2. /\ pc'[c] \in {"acquire", "mint_rt", "cache_get"}
          /\ pc'[c] = "acquire" => key = EnvKey
          /\ pc'[c] = "mint_rt" => key # EnvKey
      BY <3>1 DEF FirstStep, NewToken
    <3> QED BY <3>1, <3>2
  <2>2. NoValidSession(c) => LoadedAt(c)'
    BY <2>1, LoadedReturn DEF NoValidSession
  <2>3. CASE ValidRefreshToken(c)
    BY <1>0, <2>2, <2>3 DEF ValidRefreshToken
  <2>4. CASE ValidMetadata(c)
    BY <2>1, <2>2, <2>4, LoadedReturn DEF ValidMetadata
  <2> QED BY <1>5, <2>3, <2>4 DEF ValidStep
<1>6. CASE StatusStep(c)
  BY <1>6, LoadedReturn DEF StatusStep, SecretExists, StatusMetadata
<1>7. CASE MintStep(c)
  <2>1. CASE CacheGet(c)
    BY <1>0, <2>1, LoadedReturn DEF CacheGet, NewToken
  <2>2. CASE MintRefreshToken(c)
    BY <1>0, <2>2, LoadedReturn DEF MintRefreshToken, Job
  <2>3. CASE MintMetadata(c)
    BY <1>0, <2>3, LoadedReturn DEF MintMetadata, Job
  <2>4. CASE PostGranted(c)
    <3>1. job[c].rt # None /\ job[c].md # None /\ job[c].key # EnvKey
      BY <1>0, <2>4 DEF PostGranted
    <3>0. job'[c].key = job[c].key
      BY <2>4 DEF PostGranted, Job
    <3>2. job'[c].rt = job[c].rt /\ (job[c].md = job'[c].md \/ job'[c].md \in Metadata)
      BY <2>4, <3>1, JobFields, MetadataFields DEF PostGranted, Job, Metadata, Maybe
    <3>3. job'[c].md # None
      BY <3>1, <3>2, SessionAssumption
    <3> QED BY <2>4, <3>0, <3>1, <3>2, <3>3 DEF PostGranted
  <2>5. CASE PostRefused(c) \/ PutCache(c)
    BY <2>5, LoadedReturn DEF PostRefused, PutCache
  <2>6. CASE PostRevoked(c)
    BY <1>0, <2>6 DEF PostRevoked
  <2>7. CASE Acquire(c)
    BY <1>0, <2>7, LoadedReturn DEF Acquire
  <2> QED BY <1>7, <2>1, <2>2, <2>3, <2>4, <2>5, <2>6, <2>7 DEF MintStep
<1>8. CASE PurgeStep(c)
  BY <1>8, LoadedReturn DEF PurgeStep, Peek, Drop, PurgeDone, Job
<1> QED BY <1>1, <1>2, <1>3, <1>4, <1>5, <1>6, <1>7, <1>8 DEF Step

LEMMA LoadedNext ==
  ASSUME TypeOK, Loaded, [Next]_vars
  PROVE  Loaded'
<1>1. ASSUME NEW c \in Call, NEW o \in OpName, NEW force \in BOOLEAN, NEW env \in BOOLEAN,
         Start(c, o, force, env)
      PROVE  Loaded'
  <2>1. LoadedAt(c)'
    <3>1. pc'[c] \in {"valid_rt", "auth", "list"}
          /\ (pc'[c] = "list" => o # "login") /\ job'[c].op = o /\ job'[c].rt = None
      BY <1>1 DEF Start, Entry, Goto, TypeOK, Job, Blank
    <3> QED BY <3>1 DEF LoadedAt, At
  <2> QED BY <1>1, <2>1, StepIsLocal, LoadedFrame
<1>2. ASSUME NEW c \in Call, Step(c)
      PROVE  Loaded'
  BY <1>2, LoadedStep, StepIsLocal, LoadedFrame
<1>3. ASSUME NEW c \in Call, Crash(c)
      PROVE  Loaded'
  <2>1. LoadedAt(c)'
    BY <1>3, LoadedReturn DEF Crash
  <2> QED BY <1>3, <2>1, StepIsLocal, LoadedFrame
<1>4. ASSUME UNCHANGED <<pc, job>>
      PROVE  Loaded'
  BY <1>4 DEF Loaded, LoadedAt, At
<1> QED BY <1>1, <1>2, <1>3, <1>4 DEF Next, vars, TokenAges, SessionExpires

LEMMA TypeNext ==
  ASSUME TypeOK, Loaded, [Next]_vars
  PROVE  TypeOK'
<1>1. ASSUME NEW c \in Call, Step(c)
      PROVE  TypeOK'
  BY <1>1, TypeLogin, TypeClear, TypeStore, TypeDelete, TypeValid, TypeStatus,
     TypeMint, TypePurge DEF Step
<1>2. CASE UNCHANGED vars
  BY <1>2 DEF vars, TypeOK
<1> QED BY <1>1, <1>2, TypeStart, TypeCrash, TypeClock DEF Next

\* TypeOK needs Loaded: what mintToken stores and answers with is of the right
\* shape because it is there.
LEMMA TypesAndSecrets == Spec => [](TypeOK /\ Loaded)
<1>1. Init => TypeOK /\ Loaded
  <2>1. Init => Loaded
    BY DEF Init, Loaded, LoadedAt, At
  <2> QED BY <2>1, TypeInit
<1>2. TypeOK /\ Loaded /\ [Next]_vars => (TypeOK /\ Loaded)'
  BY TypeNext, LoadedNext
<1> QED BY <1>1, <1>2, PTL DEF Spec

\* In every behaviour every variable keeps its shape.
THEOREM TypeCorrect == Spec => []TypeOK
BY TypesAndSecrets, PTL

\* A call never sends, stores or caches a secret it does not hold: no
\* interleaving, failed write or crash makes mintToken use metadata it failed
\* to load.
THEOREM SecretsLoaded == Spec => []Loaded
BY TypesAndSecrets, PTL

-----------------------------------------------------------------------------
(* The environment's tokens and the user's stay apart.                     *)

\* The only step that adds a cached token adds one of the kind of its key.
LEMMA KindsCache ==
  ASSUME TypeOK, Loaded, NEW c \in Call, PutCache(c), KindsApart
  PROVE  KindsApart'
<1>1. job[c].key \in Key /\ job[c].rt \in Maybe(Session)
  BY JobFields
<1>2. pc[c] = "put_cache"
  BY DEF PutCache, At
<1>3. job[c].key = EnvKey <=> Minted(c) = App
  BY <1>1, <1>2, SessionAssumption DEF Minted, Loaded, LoadedAt, Maybe
<1>4. CASE cache' = [cache EXCEPT ![job[c].key] = [user |-> Minted(c), life |-> "long"]]
  BY <1>1, <1>3, <1>4 DEF KindsApart, TypeOK
<1> QED BY <1>4 DEF PutCache, KindsApart

LEMMA KindsNext ==
  ASSUME TypeOK, Loaded, [Next]_vars, KindsApart
  PROVE  KindsApart'
<1> USE DEF KindsApart
<1>1. ASSUME NEW k \in Key, cache' = [cache EXCEPT ![k] = None]
      PROVE  KindsApart'
  BY <1>1 DEF TypeOK
<1>2. ASSUME NEW c \in Call, DeleteCached(c) \/ Drop(c)
      PROVE  KindsApart'
  BY <1>1, <1>2, JobFields DEF DeleteCached, Drop
<1>3. ASSUME NEW k \in Key, TokenAges(k)
      PROVE  KindsApart'
  <2>1. cache[k] \in Token
    BY <1>3 DEF TokenAges, TypeOK, Maybe
  <2>2. cache'[k].user = cache[k].user
    BY <1>3, <2>1 DEF TokenAges, TypeOK, Token
  <2> QED BY <1>3, <2>2 DEF TokenAges, TypeOK
<1>4. ASSUME UNCHANGED cache
      PROVE  KindsApart'
  BY <1>4
<1>5. ASSUME NEW c \in Call, Step(c), cache' # cache
      PROVE  DeleteCached(c) \/ Drop(c) \/ PutCache(c)
  BY <1>5 DEF Step, LoginStep, ClearStep, StoreStep, DeleteStep, ValidStep, StatusStep,
     MintStep, PurgeStep, Authenticate, AuthenticateFails, ListKeys, ListKeysFails,
     ClearDone, PutRefreshToken, PutMetadata, StoreFails, DeleteRefreshToken,
     DeleteMetadata, ValidRefreshToken, ValidMetadata, SecretExists, StatusMetadata,
     CacheGet, MintRefreshToken, MintMetadata, PostGranted, PostRefused, PostRevoked,
     Acquire, Peek, PurgeDone, store
<1> QED BY <1>2, <1>3, <1>4, <1>5, KindsCache
        DEF Next, vars, store, Start, Crash, SessionExpires

\* A caller that must get the environment's identity never gets a user's
\* token from the cache, nor the other way round, in any interleaving.
THEOREM KindsStayApart == Spec => []KindsApart
<1>1. Init => KindsApart
  BY DEF Init, KindsApart
<1>2. TypeOK /\ Loaded /\ KindsApart /\ [Next]_vars => KindsApart'
  BY KindsNext
<1> QED BY <1>1, <1>2, TypesAndSecrets, PTL DEF Spec

-----------------------------------------------------------------------------
(* Serial hosts: one call at a time.                                       *)

CallStep(c) == \/ \E o \in OpName, force, env \in BOOLEAN : Start(c, o, force, env)
               \/ Step(c)
               \/ Crash(c)

OneActive == \A c, d \in Call : ~Idle(c) /\ ~Idle(d) => c = d

LEMMA NextSplit ==
  [Next]_vars <=> \/ \E c \in Call : CallStep(c)
                  \/ \E k \in Key : TokenAges(k)
                  \/ SessionExpires
                  \/ UNCHANGED vars
BY DEF Next, CallStep

LEMMA StepIsActive ==
  ASSUME NEW c \in Call, Step(c)
  PROVE  ~Idle(c)
BY DEF Step, LoginStep, ClearStep, StoreStep, DeleteStep, ValidStep, StatusStep,
   MintStep, PurgeStep, Authenticate, AuthenticateFails, ListKeys, ListKeysFails,
   DeleteCached, ClearDone, PutRefreshToken, PutMetadata, DeleteRefreshToken,
   DeleteMetadata, ValidRefreshToken, ValidMetadata, SecretExists, StatusMetadata,
   CacheGet, MintRefreshToken, MintMetadata, PostGranted, PostRefused, PostRevoked,
   Acquire, PutCache, Peek, Drop, PurgeDone, At, Idle

\* While a call of a serial host takes a step, every other one is idle.
LEMMA OthersIdle ==
  ASSUME TypeOK, OneActive, Serial, NEW c \in Call, CallStep(c)
  PROVE  \A d \in Call \ {c} : pc[d] = "idle" /\ pc'[d] = "idle"
<1>1. Others(c)
  BY StepIsLocal DEF CallStep
<1>2. \A d \in Call \ {c} : pc[d] = "idle"
  BY StepIsActive DEF CallStep, Start, Crash, Quiet, AllIdle, OneActive, Idle
<1> QED BY <1>1, <1>2 DEF Others

LEMMA OneActiveNext ==
  ASSUME TypeOK, Loaded, Serial, OneActive, [Next]_vars
  PROVE  OneActive'
<1>1. ASSUME NEW c \in Call, CallStep(c)
      PROVE  OneActive'
  BY <1>1, OthersIdle DEF OneActive, Idle
<1>2. ASSUME UNCHANGED pc
      PROVE  OneActive'
  BY <1>2 DEF OneActive, Idle
<1> QED BY <1>1, <1>2, NextSplit DEF vars, TokenAges, SessionExpires

\* Which operation a call at a step is.
OpAt(c) ==
  /\ pc[c] \in {"cache_get", "mint_rt", "mint_meta", "post", "acquire", "put_cache"}
       => job[c].op = "token"
  /\ pc[c] \in {"put_rt", "put_meta"} => job[c].op \in {"login", "token"}

LEMMA OpReturn ==
  ASSUME TypeOK, NEW c \in Call, NEW who, Return(c, who)
  PROVE  OpAt(c)'
BY DEF TypeOK, Return, Goto, OpAt

LEMMA OpStep ==
  ASSUME TypeOK, NEW c \in Call, CallStep(c), OpAt(c)
  PROVE  OpAt(c)'
<1> USE DEF OpAt, TypeOK, Goto, At, Job
<1>1. ASSUME NEW o \in OpName, NEW force, NEW env, Start(c, o, force, env)
      PROVE  OpAt(c)'
  BY <1>1 DEF Start, Entry
<1>2. CASE Crash(c)
  BY <1>2, OpReturn DEF Crash
<1>3. CASE LoginStep(c)
  BY <1>3, OpReturn DEF LoginStep, Authenticate, AuthenticateFails
<1>4. CASE ClearStep(c)
  BY <1>4, OpReturn DEF ClearStep, ListKeys, ListKeysFails, DeleteCached, ClearDone, AfterClear
<1>5. CASE StoreStep(c)
  BY <1>5, OpReturn DEF StoreStep, PutRefreshToken, PutMetadata, StoreFails
<1>6. CASE DeleteStep(c)
  BY <1>6, OpReturn DEF DeleteStep, DeleteRefreshToken, DeleteMetadata
<1>7. CASE ValidStep(c)
  <2>1. ASSUME NEW key, ServeUnder(c, key), job[c].op = "token"
        PROVE  OpAt(c)'
    BY <2>1 DEF ServeUnder, FirstStep, NewToken
  <2>2. NoValidSession(c) => OpAt(c)'
    BY <2>1, OpReturn DEF NoValidSession
  <2>3. CASE ValidRefreshToken(c)
    BY <2>2, <2>3 DEF ValidRefreshToken
  <2>4. CASE ValidMetadata(c)
    BY <2>1, <2>2, <2>4, OpReturn DEF ValidMetadata
  <2> QED BY <1>7, <2>3, <2>4 DEF ValidStep
<1>8. CASE StatusStep(c)
  BY <1>8, OpReturn DEF StatusStep, SecretExists, StatusMetadata
<1>9. CASE MintStep(c)
  <2>1. CASE CacheGet(c)
    BY <2>1, OpReturn DEF CacheGet, NewToken
  <2> QED BY <1>9, <2>1, OpReturn DEF MintStep, MintRefreshToken, MintMetadata, PostGranted,
          PostRefused, PostRevoked, Acquire, PutCache
<1>10. CASE PurgeStep(c)
  BY <1>10, OpReturn DEF PurgeStep, Peek, Drop, PurgeDone
<1> QED BY <1>1, <1>2, <1>3, <1>4, <1>5, <1>6, <1>7, <1>8, <1>9, <1>10 DEF CallStep, Step

\* The refresh token a token call has loaded is still the stored one.
CurrentAt(c) ==
  \/ pc[c] \in {"mint_meta", "post"}
  \/ pc[c] \in {"put_rt", "put_meta"} /\ job[c].op = "token"
  \/ pc[c] = "put_cache" /\ job[c].key # EnvKey
  => job[c].rt = rt

\* What makes SessionPaired and KeyNamesCredential inductive: the metadata a
\* call has in hand is of the refresh token it has in hand, and a session's
\* key is of the stored refresh token.
PairAt(c) ==
  /\ CurrentAt(c)
  /\ OpAt(c)
  /\ \/ pc[c] \in {"post", "put_rt", "put_meta"}
     \/ pc[c] \in {"list", "delete"} /\ job[c].op = "login"
     => job[c].md.sid = job[c].rt /\ job[c].md.oid \in {job[c].rt, None}
  /\ pc[c] = "put_meta" => rt = job[c].rt
  /\ pc[c] = "valid_meta" => rt # None
  /\ /\ pc[c] \in {"cache_get", "mint_rt", "mint_meta", "post", "put_rt", "put_meta", "put_cache"}
     /\ job[c].op = "token"
     /\ job[c].key.sid # None
     => job[c].key.sid = rt /\ job[c].key.oid \in {rt, None}

PairInv == /\ OneActive
           /\ SessionPaired
           /\ KeyNamesCredential
           /\ \A c \in Call : PairAt(c)

\* The host runs one call at a time, and no store write fails or is cut off.
WritesComplete == Serial /\ FaultKinds \cap {"set", "crash"} = {}

LEMMA PairReturn ==
  ASSUME TypeOK, NEW c \in Call, NEW who, Return(c, who)
  PROVE  PairAt(c)'
BY OpReturn DEF TypeOK, Return, Goto, PairAt, CurrentAt, OpAt

\* An idle call needs nothing.
LEMMA PairIdle == \A c \in Call : (pc[c] = "idle" => PairAt(c))
BY DEF PairAt, CurrentAt, OpAt

LEMMA PairIdlePrime == \A c \in Call : (pc'[c] = "idle" => PairAt(c)')
BY DEF PairAt, CurrentAt, OpAt

LEMMA PairOthers ==
  ASSUME TypeOK, PairInv, Serial, NEW c \in Call, CallStep(c), PairAt(c)'
  PROVE  \A d \in Call : PairAt(d)'
BY OthersIdle, PairIdlePrime DEF PairInv

\* The session secrets stay paired over a step that writes neither.
LEMMA PairedKept ==
  ASSUME TypeOK, PairInv, Serial, NEW c \in Call, CallStep(c), UNCHANGED <<rt, meta>>,
         pc[c] # "put_meta"
  PROVE  SessionPaired'
<1>1. \A d \in Call : pc[d] # "put_meta"
  BY OthersIdle DEF PairInv
<1> QED BY <1>1 DEF PairInv, SessionPaired, At

LEMMA KeysKept ==
  ASSUME KeyNamesCredential, UNCHANGED cache
  PROVE  KeyNamesCredential'
BY DEF KeyNamesCredential

LEMMA KeysDropped ==
  ASSUME TypeOK, KeyNamesCredential, NEW k \in Key, cache' = [cache EXCEPT ![k] = None]
  PROVE  KeyNamesCredential'
BY DEF KeyNamesCredential, TypeOK

\* A step that reads or writes no secret of the session.
PairGoal == SessionPaired' /\ KeyNamesCredential' /\ \A d \in Call : PairAt(d)'

LEMMA PairRead ==
  ASSUME TypeOK, PairInv, Serial, NEW c \in Call, CallStep(c), UNCHANGED store,
         pc[c] # "put_meta", PairAt(c)'
  PROVE  PairGoal
BY PairedKept, KeysKept, PairOthers DEF PairInv, PairGoal, store

LEMMA PairLogin ==
  ASSUME TypeOK, PairInv, Serial, NEW c \in Call, LoginStep(c)
  PROVE  PairGoal
<1>1. CASE Authenticate(c)
  <2>1. PICK s \in Session, oid \in Maybe(Session) :
          /\ oid \in {s, None}
          /\ job' = [job EXCEPT ![c].rt = s,
                                ![c].md = [sid |-> s, oid |-> oid, live |-> TRUE]]
    BY <1>1 DEF Authenticate, NewMetadata, Maybe
  <2>2. job'[c].rt = s /\ job'[c].md = [sid |-> s, oid |-> oid, live |-> TRUE]
    BY <2>1 DEF TypeOK, Job
  <2>a. job'[c].md.sid = job'[c].rt /\ job'[c].md.oid \in {job'[c].rt, None}
    BY <2>1, <2>2
  <2>3. PairAt(c)'
    BY <1>1, <2>a DEF Authenticate, Goto, TypeOK, PairAt, CurrentAt, OpAt
  <2> QED BY <1>1, <2>3, PairRead DEF Authenticate, At, CallStep, Step, LoginStep
<1>2. CASE AuthenticateFails(c)
  BY <1>2, PairReturn, PairRead DEF AuthenticateFails, At, CallStep, Step
<1> QED BY <1>1, <1>2 DEF LoginStep

LEMMA PairClear ==
  ASSUME TypeOK, PairInv, Serial, NEW c \in Call, ClearStep(c)
  PROVE  PairGoal
<1>0. PairAt(c) /\ CallStep(c)
  BY DEF PairInv, CallStep, Step
<1>1. CASE ListKeys(c)
  <2>1. PairAt(c)'
    BY <1>0, <1>1 DEF ListKeys, Goto, At, TypeOK, Job, PairAt, CurrentAt, OpAt
  <2> QED BY <1>0, <1>1, <2>1, PairRead DEF ListKeys, At
<1>2. CASE ListKeysFails(c)
  <2>1. PairAt(c)'
    BY <1>0, <1>2, PairReturn
       DEF ListKeysFails, AfterClear, Goto, At, TypeOK, Job, PairAt, CurrentAt, OpAt
  <2> QED BY <1>0, <1>2, <2>1, PairRead DEF ListKeysFails, At
<1>3. CASE DeleteCached(c)
  <2>1. PairAt(c)'
    BY <1>0, <1>3 DEF DeleteCached, At, TypeOK, Job, PairAt, CurrentAt, OpAt
  <2>2. KeyNamesCredential'
    BY <1>3, JobFields, KeysDropped, KeysKept DEF DeleteCached, PairInv
  <2>3. SessionPaired'
    BY <1>0, <1>3, PairedKept DEF DeleteCached, At
  <2> QED BY <1>0, <2>1, <2>2, <2>3, PairOthers DEF PairGoal
<1>4. CASE ClearDone(c)
  <2>1. PairAt(c)'
    BY <1>0, <1>4
       DEF ClearDone, AfterClear, Goto, At, TypeOK, Job, PairAt, CurrentAt, OpAt
  <2> QED BY <1>0, <1>4, <2>1, PairRead DEF ClearDone, At
<1> QED BY <1>1, <1>2, <1>3, <1>4 DEF ClearStep

LEMMA PairStore ==
  ASSUME TypeOK, Loaded, PairInv, WritesComplete, NEW c \in Call, StoreStep(c)
  PROVE  PairGoal
<1>0. PairAt(c) /\ CallStep(c) /\ Serial /\ ~StoreFails(c)
  BY DEF PairInv, CallStep, Step, WritesComplete, StoreFails, Fault
<1>1. CASE PutRefreshToken(c)
  <2>1. pc'[c] = "put_meta" /\ job' = job /\ rt' = job[c].rt /\ UNCHANGED <<meta, cache>>
    BY <1>0, <1>1 DEF PutRefreshToken, Goto, TypeOK
  <2>2. PairAt(c)'
    BY <1>0, <1>1, <2>1 DEF PutRefreshToken, At, PairAt, CurrentAt, OpAt
  <2>3. SessionPaired'
    BY <2>1 DEF SessionPaired, At
  <2> QED BY <1>0, <2>1, <2>2, <2>3, PairOthers, KeysKept DEF PairGoal, PairInv
<1>2. CASE PutMetadata(c)
  <2>1. /\ meta' = [job[c].md EXCEPT !.live = TRUE]
        /\ UNCHANGED <<rt, cache>>
        /\ \/ Return(c, job[c].md.oid)
           \/ Goto(c, "put_cache") /\ UNCHANGED job /\ job[c].op # "login"
    BY <1>0, <1>2 DEF PutMetadata, StoredMetadata
  <2>2. PairAt(c)'
    BY <1>0, <1>2, <2>1, PairReturn
       DEF PutMetadata, Goto, At, TypeOK, PairAt, CurrentAt, OpAt
  <2>a. job[c].md \in Metadata
    BY <1>2, JobFields, MetadataFields DEF PutMetadata, At, Loaded, LoadedAt
  <2>3. meta'.sid = job[c].md.sid /\ meta'.oid = job[c].md.oid
    BY <2>1, <2>a DEF Metadata
  <2>4. job[c].md.sid = rt /\ job[c].md.oid \in {rt, None}
    BY <1>0, <1>2 DEF PutMetadata, At, PairAt
  <2> QED BY <1>0, <2>1, <2>2, <2>3, <2>4, PairOthers, KeysKept
          DEF PairGoal, PairInv, SessionPaired
<1> QED BY <1>1, <1>2 DEF StoreStep

LEMMA PairDelete ==
  ASSUME TypeOK, PairInv, Serial, NEW c \in Call, DeleteStep(c)
  PROVE  PairGoal
<1>0. CallStep(c) /\ PairAt(c)
  BY DEF PairInv, CallStep, Step
<1>1. CASE DeleteRefreshToken(c)
  <2>1. PairAt(c)'
    BY <1>1 DEF DeleteRefreshToken, Goto, TypeOK, PairAt, CurrentAt, OpAt
  <2>2. UNCHANGED <<meta, cache>> /\ (rt' = None \/ rt' = rt) /\ pc[c] # "put_meta"
    BY <1>1 DEF DeleteRefreshToken, At
  <2>3. SessionPaired'
    BY <1>0, <2>2, PairedKept DEF SessionPaired
  <2> QED BY <1>0, <2>1, <2>2, <2>3, PairOthers, KeysKept DEF PairGoal, PairInv
<1>2. CASE DeleteMetadata(c)
  <2>1. PairAt(c)'
    BY <1>2, PairReturn DEF DeleteMetadata
  <2>2. UNCHANGED <<rt, cache>> /\ (meta' = None \/ meta' = meta) /\ pc[c] # "put_meta"
    BY <1>2 DEF DeleteMetadata, At
  <2>3. SessionPaired'
    BY <1>0, <2>2, PairedKept DEF SessionPaired
  <2> QED BY <1>0, <2>1, <2>2, <2>3, PairOthers, KeysKept DEF PairGoal, PairInv
<1> QED BY <1>1, <1>2 DEF DeleteStep

LEMMA PairValid ==
  ASSUME TypeOK, PairInv, Serial, NEW c \in Call, ValidStep(c)
  PROVE  PairGoal
<1>0. CallStep(c) /\ PairAt(c)
  BY DEF PairInv, CallStep, Step
<1>1. UNCHANGED store
  BY DEF ValidStep, ValidRefreshToken, ValidMetadata
<1>2. ASSUME NEW key, ServeUnder(c, key), job[c].op = "token", pc[c] # "put_meta",
             key.sid # None => key.sid = rt /\ key.oid \in {rt, None}
      PROVE  PairAt(c)'
  <2>1. pc'[c] \in {"acquire", "mint_rt", "cache_get"} /\ job'[c].key = key
        /\ job'[c].op = "token"
    BY <1>2 DEF ServeUnder, FirstStep, NewToken, Goto, TypeOK, Job
  <2> QED BY <1>1, <1>2, <2>1 DEF PairAt, CurrentAt, OpAt, store
<1>3. ASSUME NoValidSession(c), pc[c] # "put_meta"
      PROVE  PairAt(c)'
  <2>1. EnvKey.sid = None /\ UserKey(None, None).sid = None
    BY DEF EnvKey, UserKey
  <2>2. CASE Goto(c, "exists")
    BY <2>2 DEF Goto, TypeOK, PairAt, CurrentAt, OpAt
  <2> QED BY <1>2, <1>3, <2>1, <2>2, PairReturn DEF NoValidSession, KeyWithoutSession
<1>4. CASE ValidRefreshToken(c)
  <2>1. rt # None /\ Goto(c, "valid_meta") => PairAt(c)'
    BY <1>1 DEF Goto, TypeOK, PairAt, CurrentAt, OpAt, store
  <2>2. PairAt(c)'
    BY <1>3, <1>4, <2>1 DEF ValidRefreshToken, At
  <2> QED BY <1>0, <1>1, <1>4, <2>2, PairRead DEF ValidRefreshToken, At
<1>5. CASE ValidMetadata(c)
  <2>1. \A d \in Call : pc[d] # "put_meta"
    BY <1>0, <1>5, OthersIdle DEF ValidMetadata, At, PairInv
  <2>2. meta # None => meta.sid = rt /\ meta.oid \in {rt, None}
    BY <1>0, <1>5, <2>1 DEF ValidMetadata, At, PairAt, PairInv, SessionPaired
  <2>3. UserKey(meta.sid, meta.oid).sid = meta.sid /\ UserKey(meta.sid, meta.oid).oid = meta.oid
    BY DEF UserKey
  <2>4. PairAt(c)'
    BY <1>2, <1>3, <1>5, <2>2, <2>3, PairReturn DEF ValidMetadata, Live, At
  <2> QED BY <1>0, <1>1, <1>5, <2>4, PairRead DEF ValidMetadata, At
<1> QED BY <1>4, <1>5 DEF ValidStep

LEMMA PairStatus ==
  ASSUME TypeOK, PairInv, Serial, NEW c \in Call, StatusStep(c)
  PROVE  PairGoal
<1>1. UNCHANGED store /\ CallStep(c) /\ pc[c] # "put_meta"
  BY DEF StatusStep, SecretExists, StatusMetadata, At, CallStep, Step
<1>2. Goto(c, "status_meta") => PairAt(c)'
  BY DEF Goto, TypeOK, PairAt, CurrentAt, OpAt
<1>3. PairAt(c)'
  BY <1>2, PairReturn DEF StatusStep, SecretExists, StatusMetadata
<1> QED BY <1>1, <1>3, PairRead

LEMMA PairMint ==
  ASSUME TypeOK, Loaded, PairInv, Serial, NEW c \in Call, MintStep(c)
  PROVE  PairGoal
<1>0. CallStep(c) /\ PairAt(c) /\ OpAt(c) /\ CurrentAt(c)
  BY DEF PairInv, CallStep, Step, PairAt
<1>1. CASE PutCache(c)
  <2>1. PairAt(c)'
    BY <1>1, PairReturn DEF PutCache
  <2>2. pc[c] = "put_cache" /\ UNCHANGED <<rt, meta>>
    BY <1>1 DEF PutCache, At
  <2>3. EnvKey.sid = None
    BY DEF EnvKey
  <2>4. job[c].key.sid # None => Minted(c) = job[c].key.sid /\ job[c].key.oid \in {job[c].key.sid, None}
    BY <1>0, <2>2, <2>3 DEF Minted, PairAt, CurrentAt, OpAt
  <2>5. KeyNamesCredential'
    <3>1. CASE cache' = [cache EXCEPT ![job[c].key] = [user |-> Minted(c), life |-> "long"]]
      BY <2>4, <3>1, JobFields DEF KeyNamesCredential, PairInv, TypeOK
    <3> QED BY <1>1, <3>1, KeysKept DEF PutCache, PairInv
  <2>6. SessionPaired'
    BY <1>0, <2>2, PairedKept
  <2> QED BY <1>0, <2>1, <2>5, <2>6, PairOthers DEF PairGoal
<1>2. ASSUME ~PutCache(c)
      PROVE  UNCHANGED store /\ pc[c] # "put_meta"
  BY <1>2 DEF MintStep, CacheGet, MintRefreshToken, MintMetadata, PostGranted,
     PostRefused, PostRevoked, Acquire, At
<1>3. ASSUME PairAt(c)', ~PutCache(c)
      PROVE  PairGoal
  BY <1>0, <1>2, <1>3, PairRead
<1> USE DEF PairAt, CurrentAt, OpAt, TypeOK, Goto, At
<1>4. CASE CacheGet(c)
  <2>1. PairAt(c)'
    BY <1>0, <1>4, PairReturn DEF CacheGet, NewToken, store
  <2> QED BY <1>3, <1>1, <2>1
<1>5. CASE MintRefreshToken(c)
  <2>1. PairAt(c)'
    BY <1>0, <1>5, PairReturn DEF MintRefreshToken, Job, store
  <2> QED BY <1>3, <1>1, <2>1
<1>6. CASE MintMetadata(c)
  <2>1. \A d \in Call : pc[d] # "put_meta"
    BY <1>0, <1>6, OthersIdle DEF MintMetadata, PairInv
  <2>2. meta # None => meta.sid = rt /\ meta.oid \in {rt, None}
    BY <1>0, <1>6, <2>1 DEF MintMetadata, PairInv, SessionPaired, Loaded, LoadedAt
  <2>3. PairAt(c)'
    BY <1>0, <1>6, <2>2, PairReturn DEF MintMetadata, Job, store
  <2> QED BY <1>3, <1>1, <2>3
<1>7. CASE PostGranted(c)
  <2>1. job[c].rt = rt /\ job[c].md.sid = rt /\ job[c].md.oid \in {rt, None}
    BY <1>0, <1>7 DEF PostGranted
  <2>2. job[c].md \in Metadata
    BY <1>7, JobFields, MetadataFields DEF PostGranted, Loaded, LoadedAt
  <2>3. CASE Goto(c, "put_cache") /\ UNCHANGED job
    <3>1. PairAt(c)'
      BY <1>0, <1>7, <2>1, <2>3 DEF PostGranted, store
    <3> QED BY <1>3, <1>1, <3>1
  <2>4. ASSUME NEW oid \in {job[c].rt, job[c].md.oid},
               job' = [job EXCEPT ![c].md.oid = oid], Goto(c, "put_rt")
        PROVE  PairGoal
    <3>1. /\ job'[c].rt = rt /\ job'[c].op = job[c].op /\ job'[c].key = job[c].key
          /\ job'[c].md.sid = rt /\ job'[c].md.oid \in {rt, None}
      BY <2>1, <2>2, <2>4 DEF Job, Metadata
    <3>2. PairAt(c)'
      BY <1>0, <1>7, <2>4, <3>1 DEF PostGranted, store
    <3> QED BY <1>3, <1>1, <3>2
  <2> QED BY <1>7, <2>3, <2>4 DEF PostGranted
<1>8. CASE PostRefused(c)
  <2>1. PairAt(c)'
    BY <1>8, PairReturn DEF PostRefused
  <2> QED BY <1>3, <1>1, <2>1
<1>9. CASE PostRevoked(c)
  <2>1. PairAt(c)'
    BY <1>0, <1>9 DEF PostRevoked
  <2> QED BY <1>3, <1>1, <2>1
<1>10. CASE Acquire(c)
  <2>1. job[c].key = EnvKey /\ EnvKey.sid = None
    BY <1>10 DEF Acquire, Loaded, LoadedAt, EnvKey
  <2>2. PairAt(c)'
    BY <1>0, <1>10, <2>1, PairReturn DEF Acquire, store
  <2> QED BY <1>3, <1>1, <2>2
<1> QED BY <1>1, <1>4, <1>5, <1>6, <1>7, <1>8, <1>9, <1>10 DEF MintStep

LEMMA PairPurge ==
  ASSUME TypeOK, PairInv, Serial, NEW c \in Call, PurgeStep(c)
  PROVE  PairGoal
<1>0. CallStep(c) /\ pc[c] # "put_meta" /\ UNCHANGED <<rt, meta>>
  BY DEF PurgeStep, Peek, Drop, PurgeDone, At, CallStep, Step, store
<1>1. pc'[c] \in {"peek", "drop"} => PairAt(c)'
  BY DEF PairAt, CurrentAt, OpAt
<1>2. PairAt(c)'
  BY <1>1, PairReturn DEF PurgeStep, Peek, Drop, PurgeDone, Goto, At, TypeOK
<1>3. KeyNamesCredential'
  BY JobFields, KeysDropped, KeysKept DEF PurgeStep, Peek, Drop, PurgeDone, store, PairInv
<1> QED BY <1>0, <1>2, <1>3, PairedKept, PairOthers DEF PairGoal

LEMMA PairNext ==
  ASSUME TypeOK, Loaded, PairInv, WritesComplete, [Next]_vars
  PROVE  PairInv'
<1>0. Serial
  BY DEF WritesComplete
<1>1. OneActive'
  BY <1>0, OneActiveNext DEF PairInv
<1>2. ASSUME NEW c \in Call, NEW o \in OpName, NEW force \in BOOLEAN, NEW env \in BOOLEAN,
         Start(c, o, force, env)
      PROVE  PairGoal
  <2>1. pc'[c] \in {"valid_rt", "auth", "list"} /\ (pc'[c] = "list" => job'[c].op # "login")
    BY <1>2 DEF Start, Entry, Goto, TypeOK, Job, Blank
  <2>2. PairAt(c)'
    BY <2>1 DEF PairAt, CurrentAt, OpAt
  <2>3. CallStep(c)
    BY <1>2 DEF CallStep
  <2> QED BY <1>0, <1>2, <2>2, <2>3, PairRead DEF Start, Idle
<1>3. ASSUME NEW c \in Call, Step(c)
      PROVE  PairGoal
  BY <1>0, <1>3, PairLogin, PairClear, PairStore, PairDelete, PairValid, PairStatus,
     PairMint, PairPurge DEF Step
<1>4. ASSUME NEW c \in Call, Crash(c)
      PROVE  FALSE
  BY <1>4 DEF Crash, Fault, WritesComplete
<1>5. ASSUME NEW k \in Key, TokenAges(k)
      PROVE  PairGoal
  <2>1. cache[k] \in Token
    BY <1>5 DEF TokenAges, TypeOK, Maybe
  <2>2. cache'[k].user = cache[k].user
    BY <1>5, <2>1 DEF TokenAges, TypeOK, Token
  <2>3. KeyNamesCredential'
    BY <1>5, <2>2 DEF TokenAges, TypeOK, KeyNamesCredential, PairInv
  <2> QED BY <1>5, <2>3 DEF TokenAges, PairGoal, PairInv, SessionPaired, PairAt,
          CurrentAt, OpAt, At
<1>6. CASE SessionExpires
  <2>1. meta \in Metadata
    BY <1>6 DEF SessionExpires, TypeOK, Maybe
  <2>2. meta'.sid = meta.sid /\ meta'.oid = meta.oid
    BY <1>6, <2>1 DEF SessionExpires, Metadata
  <2> QED BY <1>1, <1>6, <2>2 DEF SessionExpires, PairInv, SessionPaired,
          KeyNamesCredential, PairAt, CurrentAt, OpAt, At
<1>7. CASE UNCHANGED vars
  BY <1>1, <1>7 DEF vars, PairInv, SessionPaired, KeyNamesCredential, PairAt,
     CurrentAt, OpAt, At
<1> QED BY <1>1, <1>2, <1>3, <1>4, <1>5, <1>6, <1>7 DEF Next, PairGoal, PairInv

LEMMA PairInit ==
  Init => PairInv
<1>1. Init => \A c \in Call : PairAt(c)
  BY PairIdle DEF Init
<1>2. Init => OneActive /\ SessionPaired /\ KeyNamesCredential
  BY DEF Init, OneActive, Idle, SessionPaired, KeyNamesCredential
<1> QED BY <1>1, <1>2 DEF PairInv

LEMMA PairInvHolds ==
  ASSUME WritesComplete
  PROVE  Spec => []PairInv
<1>1. TypeOK /\ Loaded /\ PairInv /\ [Next]_vars => PairInv'
  BY PairNext
<1> QED BY <1>1, PairInit, TypesAndSecrets, PTL DEF Spec

\* A host that runs one call at a time, and whose store writes succeed, never
\* has the refresh token of one login beside the metadata of another --
\* whatever the provider answers, however deletions, listings and reads fail,
\* and starting from a legacy session as well.
THEOREM SerialPairing ==
  ASSUME WritesComplete
  PROVE  Spec => []SessionPaired
<1>1. PairInv => SessionPaired
  BY DEF PairInv
<1> QED BY <1>1, PairInvHolds, PTL

\* Under the same conditions a token is never cached under the key of another
\* session.
THEOREM SerialKeys ==
  ASSUME WritesComplete
  PROVE  Spec => []KeyNamesCredential
<1>1. PairInv => KeyNamesCredential
  BY DEF PairInv
<1> QED BY <1>1, PairInvHolds, PTL

-----------------------------------------------------------------------------
(* Serial hosts whose deletions and listings do not fail, but whose writes *)
(* may and whose processes may die at any step.                            *)

\* What makes NoForeignTokens inductive: a deletion in progress has every
\* cached token still ahead of it, and the cache is empty from its end to the
\* end of the login or logout it is part of.
CleanAt(c) ==
  /\ CurrentAt(c)
  /\ OpAt(c)
  /\ pc[c] = "put_meta" => rt = job[c].rt
  /\ pc[c] = "delete" => \A k \in Key : cache[k] # None => k \in job[c].todo
  /\ \/ pc[c] \in {"del_rt", "del_meta"}
     \/ pc[c] \in {"put_rt", "put_meta"} /\ job[c].op = "login"
     => \A k \in Key : cache[k] = None
  /\ pc[c] = "del_meta" => rt = None

CleanInv == /\ OneActive
            /\ NoForeignTokens
            /\ \A c \in Call : CleanAt(c)

DeletesComplete == Serial /\ FaultKinds \cap {"del", "list"} = {}

CleanGoal == NoForeignTokens' /\ \A d \in Call : CleanAt(d)'

LEMMA CleanReturn ==
  ASSUME TypeOK, NEW c \in Call, NEW who, Return(c, who)
  PROVE  CleanAt(c)'
BY OpReturn DEF TypeOK, Return, Goto, CleanAt, CurrentAt, OpAt

LEMMA CleanIdle == \A c \in Call : (pc[c] = "idle" => CleanAt(c))
BY DEF CleanAt, CurrentAt, OpAt

LEMMA CleanIdlePrime == \A c \in Call : (pc'[c] = "idle" => CleanAt(c)')
BY DEF CleanAt, CurrentAt, OpAt

LEMMA CleanOthers ==
  ASSUME TypeOK, CleanInv, Serial, NEW c \in Call, CallStep(c), CleanAt(c)'
  PROVE  \A d \in Call : CleanAt(d)'
BY OthersIdle, CleanIdlePrime DEF CleanInv

LEMMA ForeignKept ==
  ASSUME NoForeignTokens, UNCHANGED <<rt, cache>>
  PROVE  NoForeignTokens'
BY DEF NoForeignTokens

LEMMA ForeignDropped ==
  ASSUME TypeOK, NoForeignTokens, UNCHANGED rt, NEW k \in Key,
         cache' = [cache EXCEPT ![k] = None]
  PROVE  NoForeignTokens'
BY DEF NoForeignTokens, TypeOK

LEMMA ForeignEmpty ==
  ASSUME \A k \in Key : cache[k] = None, UNCHANGED cache
  PROVE  NoForeignTokens'
BY DEF NoForeignTokens

\* A step that leaves the refresh token and the cache alone.
LEMMA CleanRead ==
  ASSUME TypeOK, CleanInv, Serial, NEW c \in Call, CallStep(c), UNCHANGED <<rt, cache>>,
         CleanAt(c)'
  PROVE  CleanGoal
BY ForeignKept, CleanOthers DEF CleanInv, CleanGoal

LEMMA CleanClear ==
  ASSUME TypeOK, CleanInv, DeletesComplete, NEW c \in Call, ClearStep(c)
  PROVE  CleanGoal
<1>0. CleanAt(c) /\ CallStep(c) /\ Serial /\ ~Fault("list") /\ ~Fault("del")
  BY DEF CleanInv, CallStep, Step, DeletesComplete, Fault
<1>1. CASE ListKeys(c)
  <2>1. job'[c].todo = {k \in Key : cache[k] # None}
    BY <1>1 DEF ListKeys, Cached, TypeOK, Job
  <2>2. pc'[c] \in {"peek", "delete"}
    BY <1>1 DEF ListKeys, Goto, TypeOK
  <2>3. CleanAt(c)'
    BY <1>1, <2>1, <2>2 DEF ListKeys, CleanAt, CurrentAt, OpAt, store
  <2> QED BY <1>0, <1>1, <2>3, CleanRead DEF ListKeys, store
<1>2. CASE DeleteCached(c)
  <2>1. PICK k \in job[c].todo :
          /\ job' = [job EXCEPT ![c].todo = @ \ {k}]
          /\ cache' = [cache EXCEPT ![k] = None]
    BY <1>0, <1>2 DEF DeleteCached
  <2>2. k \in Key /\ UNCHANGED <<rt, pc>> /\ pc[c] = "delete"
    BY <1>2, <2>1, JobFields DEF DeleteCached, At
  <2>3. job'[c].todo = job[c].todo \ {k}
    BY <2>1 DEF TypeOK, Job
  <2>4. \A l \in Key : cache'[l] # None => l \in job'[c].todo
    BY <1>0, <2>1, <2>2, <2>3 DEF CleanAt, TypeOK
  <2>5. CleanAt(c)'
    BY <2>2, <2>4 DEF CleanAt, CurrentAt, OpAt
  <2> QED BY <1>0, <2>1, <2>2, <2>5, ForeignDropped, CleanOthers DEF CleanGoal, CleanInv
<1>3. CASE ClearDone(c)
  <2>1. \A k \in Key : cache'[k] = None
    BY <1>0, <1>3 DEF ClearDone, CleanAt, At, store
  <2>2. /\ UNCHANGED <<job, rt, cache>>
        /\ pc'[c] = IF job[c].op = "login" THEN "put_rt" ELSE "del_rt"
    BY <1>3 DEF ClearDone, AfterClear, Goto, TypeOK, store
  <2>3. CleanAt(c)'
    BY <2>1, <2>2 DEF CleanAt, CurrentAt, OpAt
  <2> QED BY <1>0, <2>2, <2>3, CleanRead
<1> QED BY <1>0, <1>1, <1>2, <1>3 DEF ClearStep, ListKeysFails

LEMMA CleanStore ==
  ASSUME TypeOK, CleanInv, Serial, NEW c \in Call, StoreStep(c)
  PROVE  CleanGoal
<1>0. CleanAt(c) /\ OpAt(c) /\ CurrentAt(c) /\ CallStep(c)
  BY DEF CleanInv, CallStep, Step, CleanAt
<1>1. CASE StoreFails(c) /\ pc[c] \in {"put_rt", "put_meta"}
  <2>1. UNCHANGED <<rt, cache>>
    BY <1>1 DEF StoreFails, store
  <2>2. CASE Return(c, None)
    BY <1>0, <2>1, <2>2, CleanReturn, CleanRead
  <2>3. CASE Goto(c, "put_cache") /\ UNCHANGED job /\ job[c].op # "login"
    <3>1. job[c].rt = rt
      BY <1>0, <1>1, <2>3 DEF OpAt, CurrentAt
    <3>2. pc'[c] = "put_cache"
      BY <2>3 DEF Goto, TypeOK
    <3>3. CleanAt(c)'
      BY <1>0, <1>1, <2>1, <2>3, <3>1, <3>2 DEF CleanAt, CurrentAt, OpAt
    <3> QED BY <1>0, <2>1, <3>3, CleanRead
  <2> QED BY <1>1, <2>2, <2>3 DEF StoreFails
<1>2. ASSUME PutRefreshToken(c), ~StoreFails(c)
      PROVE  CleanGoal
  <2>1. pc[c] = "put_rt" /\ pc'[c] = "put_meta" /\ job' = job /\ rt' = job[c].rt
        /\ UNCHANGED <<meta, cache>>
    BY <1>2 DEF PutRefreshToken, Goto, TypeOK, At
  <2>2. CleanAt(c)'
    BY <1>0, <2>1 DEF CleanAt, CurrentAt, OpAt
  <2>3. NoForeignTokens'
    <3>1. CASE job[c].op = "login"
      BY <1>0, <2>1, <3>1, ForeignEmpty DEF CleanAt
    <3>2. CASE job[c].op = "token"
      BY <1>0, <2>1, <3>2, ForeignKept DEF CurrentAt, CleanInv
    <3> QED BY <1>0, <2>1, <3>1, <3>2 DEF OpAt
  <2> QED BY <1>0, <2>2, <2>3, CleanOthers DEF CleanGoal
<1>3. ASSUME PutMetadata(c), ~StoreFails(c)
      PROVE  CleanGoal
  <2>1. /\ pc[c] = "put_meta"
        /\ UNCHANGED <<rt, cache>>
        /\ \/ Return(c, job[c].md.oid)
           \/ pc'[c] = "put_cache" /\ UNCHANGED job /\ job[c].op # "login"
    BY <1>3 DEF PutMetadata, Goto, TypeOK, At
  <2>2. CleanAt(c)'
    BY <1>0, <2>1, CleanReturn DEF CleanAt, CurrentAt, OpAt
  <2> QED BY <1>0, <2>1, <2>2, CleanRead
<1> QED BY <1>1, <1>2, <1>3 DEF StoreStep, PutRefreshToken, PutMetadata, At

LEMMA CleanDelete ==
  ASSUME TypeOK, CleanInv, DeletesComplete, NEW c \in Call, DeleteStep(c)
  PROVE  CleanGoal
<1>0. CleanAt(c) /\ CallStep(c) /\ Serial /\ ~Fault("del")
  BY DEF CleanInv, CallStep, Step, DeletesComplete, Fault
<1>1. UNCHANGED cache /\ \A k \in Key : cache[k] = None
  BY <1>0 DEF DeleteStep, DeleteRefreshToken, DeleteMetadata, At, CleanAt
<1>2. CleanAt(c)'
  <2>1. CASE DeleteRefreshToken(c)
    BY <1>0, <1>1, <2>1 DEF DeleteRefreshToken, Goto, TypeOK, CleanAt, CurrentAt, OpAt
  <2> QED BY <2>1, CleanReturn DEF DeleteStep, DeleteMetadata
<1> QED BY <1>0, <1>1, <1>2, ForeignEmpty, CleanOthers DEF CleanGoal

\* The remaining steps leave the refresh token alone, and only PutCache and
\* Drop touch the cache.
LEMMA CleanMint ==
  ASSUME TypeOK, Loaded, CleanInv, Serial, NEW c \in Call, MintStep(c)
  PROVE  CleanGoal
<1>0. CleanAt(c) /\ OpAt(c) /\ CurrentAt(c) /\ CallStep(c)
  BY DEF CleanInv, CallStep, Step, CleanAt
<1>1. CASE PutCache(c)
  <2>1. CleanAt(c)'
    BY <1>1, CleanReturn DEF PutCache
  <2>2. Minted(c) # App => Minted(c) = rt
    BY <1>0, <1>1 DEF PutCache, At, Minted, CurrentAt, Loaded, LoadedAt
  <2>3. NoForeignTokens'
    <3>1. CASE cache' = [cache EXCEPT ![job[c].key] = [user |-> Minted(c), life |-> "long"]]
      BY <1>1, <2>2, <3>1, JobFields DEF PutCache, NoForeignTokens, CleanInv, TypeOK
    <3> QED BY <1>1, <3>1, ForeignKept DEF PutCache, CleanInv
  <2> QED BY <1>0, <2>1, <2>3, CleanOthers DEF CleanGoal
<1>2. ASSUME CleanAt(c)', ~PutCache(c)
      PROVE  CleanGoal
  <2>1. UNCHANGED <<rt, cache>>
    BY <1>2 DEF MintStep, CacheGet, MintRefreshToken, MintMetadata, PostGranted,
       PostRefused, PostRevoked, Acquire, store
  <2> QED BY <1>0, <1>2, <2>1, CleanRead
<1> USE DEF CleanAt, CurrentAt, OpAt, TypeOK, Goto, At
<1>3. CASE CacheGet(c)
  <2>1. CleanAt(c)'
    BY <1>0, <1>3, CleanReturn DEF CacheGet, NewToken, store
  <2> QED BY <1>1, <1>2, <2>1
<1>4. CASE MintRefreshToken(c)
  <2>1. CleanAt(c)'
    BY <1>0, <1>4, CleanReturn DEF MintRefreshToken, Job, store
  <2> QED BY <1>1, <1>2, <2>1
<1>5. CASE MintMetadata(c)
  <2>1. CleanAt(c)'
    BY <1>0, <1>5, CleanReturn DEF MintMetadata, Job, store
  <2> QED BY <1>1, <1>2, <2>1
<1>6. CASE PostGranted(c)
  <2>1. job[c].rt = rt /\ job[c].md \in Metadata /\ job[c].op = "token"
    BY <1>0, <1>6, JobFields, MetadataFields DEF PostGranted, Loaded, LoadedAt
  <2>2. job'[c].rt = rt /\ job'[c].op = "token"
    BY <1>6, <2>1 DEF PostGranted, Job
  <2>3. CleanAt(c)'
    BY <1>6, <2>2 DEF PostGranted, store
  <2> QED BY <1>1, <1>2, <2>3
<1>7. CASE PostRefused(c)
  <2>1. CleanAt(c)'
    BY <1>7, CleanReturn DEF PostRefused
  <2> QED BY <1>1, <1>2, <2>1
<1>8. CASE PostRevoked(c)
  <2>1. CleanAt(c)'
    BY <1>8 DEF PostRevoked
  <2> QED BY <1>1, <1>2, <2>1
<1>9. CASE Acquire(c)
  <2>1. job[c].key = EnvKey
    BY <1>9 DEF Acquire, Loaded, LoadedAt
  <2>2. CleanAt(c)'
    BY <1>0, <1>9, <2>1, CleanReturn DEF Acquire, store
  <2> QED BY <1>1, <1>2, <2>2
<1> QED BY <1>1, <1>3, <1>4, <1>5, <1>6, <1>7, <1>8, <1>9 DEF MintStep

LEMMA CleanOther ==
  ASSUME TypeOK, CleanInv, Serial, NEW c \in Call,
         LoginStep(c) \/ ValidStep(c) \/ StatusStep(c) \/ PurgeStep(c)
  PROVE  CleanGoal
<1>0. CallStep(c)
  BY DEF CallStep, Step
<1>1. pc'[c] \in {"list", "valid_meta", "acquire", "mint_rt", "cache_get", "exists",
                  "status_meta", "peek", "drop"}
      => (pc'[c] \notin {"cache_get", "mint_rt", "acquire"} => CleanAt(c)')
  BY DEF CleanAt, CurrentAt, OpAt
<1>2. CASE LoginStep(c)
  <2>1. CleanAt(c)'
    BY <1>1, <1>2, CleanReturn
       DEF LoginStep, Authenticate, AuthenticateFails, Goto, TypeOK
  <2> QED BY <1>0, <1>2, <2>1, CleanRead
          DEF LoginStep, Authenticate, AuthenticateFails, store
<1>3. CASE ValidStep(c)
  <2>1. ASSUME NEW key, ServeUnder(c, key), job[c].op = "token"
        PROVE  CleanAt(c)'
    BY <2>1 DEF ServeUnder, FirstStep, NewToken, Goto, TypeOK, Job, CleanAt, CurrentAt, OpAt
  <2>2. NoValidSession(c) => CleanAt(c)'
    BY <1>1, <2>1, CleanReturn DEF NoValidSession, Goto, TypeOK
  <2>3. CleanAt(c)'
    BY <1>1, <1>3, <2>1, <2>2, CleanReturn
       DEF ValidStep, ValidRefreshToken, ValidMetadata, Goto, TypeOK
  <2> QED BY <1>0, <1>3, <2>3, CleanRead
          DEF ValidStep, ValidRefreshToken, ValidMetadata, store
<1>4. CASE StatusStep(c)
  <2>1. CleanAt(c)'
    BY <1>1, <1>4, CleanReturn DEF StatusStep, SecretExists, StatusMetadata, Goto, TypeOK
  <2> QED BY <1>0, <1>4, <2>1, CleanRead DEF StatusStep, SecretExists, StatusMetadata, store
<1>5. CASE PurgeStep(c)
  <2>1. CleanAt(c)'
    BY <1>1, <1>5, CleanReturn DEF PurgeStep, Peek, Drop, PurgeDone, Goto, At, TypeOK
  <2>2. NoForeignTokens'
    BY <1>5, JobFields, ForeignDropped, ForeignKept
       DEF PurgeStep, Peek, Drop, PurgeDone, store, CleanInv
  <2> QED BY <1>0, <2>1, <2>2, CleanOthers DEF CleanGoal
<1> QED BY <1>2, <1>3, <1>4, <1>5

LEMMA CleanNext ==
  ASSUME TypeOK, Loaded, CleanInv, DeletesComplete, [Next]_vars
  PROVE  CleanInv'
<1>0. Serial
  BY DEF DeletesComplete
<1>1. OneActive'
  BY <1>0, OneActiveNext DEF CleanInv
<1>2. ASSUME NEW c \in Call, NEW o \in OpName, NEW force \in BOOLEAN, NEW env \in BOOLEAN,
         Start(c, o, force, env)
      PROVE  CleanGoal
  <2>1. pc'[c] \in {"valid_rt", "auth", "list"}
    BY <1>2 DEF Start, Entry, Goto, TypeOK
  <2>2. CleanAt(c)'
    BY <2>1 DEF CleanAt, CurrentAt, OpAt
  <2> QED BY <1>0, <1>2, <2>2, CleanRead DEF Start, CallStep, store
<1>3. ASSUME NEW c \in Call, Step(c)
      PROVE  CleanGoal
  BY <1>0, <1>3, CleanClear, CleanStore, CleanDelete, CleanMint, CleanOther DEF Step
<1>4. ASSUME NEW c \in Call, Crash(c)
      PROVE  CleanGoal
  <2>1. CleanAt(c)'
    BY <1>4, CleanReturn DEF Crash
  <2> QED BY <1>0, <1>4, <2>1, CleanRead DEF Crash, CallStep, store
<1>5. ASSUME NEW k \in Key, TokenAges(k)
      PROVE  CleanGoal
  <2>1. cache[k] \in Token /\ UNCHANGED <<rt, pc, job>>
    BY <1>5 DEF TokenAges, TypeOK, Maybe
  <2>2. cache'[k].user = cache[k].user
    BY <1>5, <2>1 DEF TokenAges, TypeOK, Token
  <2>3. \A l \in Key : l # k => cache'[l] = cache[l]
    BY <1>5 DEF TokenAges, TypeOK
  <2>4. NoForeignTokens'
    BY <1>5, <2>1, <2>2, <2>3 DEF TokenAges, NoForeignTokens, CleanInv
  <2>5. \A l \in Key : cache'[l] # None => cache[l] # None
    BY <1>5, <2>3 DEF TokenAges
  <2>6. ASSUME NEW c \in Call PROVE CleanAt(c)'
    <3>1. CleanAt(c)
      BY DEF CleanInv
    <3> QED BY <2>1, <2>5, <3>1 DEF CleanAt, CurrentAt, OpAt
  <2> QED BY <2>4, <2>6 DEF CleanGoal
<1>6. ASSUME UNCHANGED <<rt, cache, pc, job>>
      PROVE  CleanInv'
  BY <1>6 DEF CleanInv, OneActive, Idle, NoForeignTokens, CleanAt, CurrentAt, OpAt
<1> QED BY <1>1, <1>2, <1>3, <1>4, <1>5, <1>6
        DEF Next, CleanGoal, CleanInv, SessionExpires, vars

LEMMA CleanInit ==
  Init => CleanInv
<1>1. Init => \A c \in Call : CleanAt(c)
  BY CleanIdle DEF Init
<1>2. Init => OneActive /\ NoForeignTokens
  BY DEF Init, OneActive, Idle, NoForeignTokens
<1> QED BY <1>1, <1>2 DEF CleanInv

\* On a host that runs one call at a time and whose deletions succeed, a
\* cached user token is always of the user whose refresh token is stored,
\* however often writes fail and processes die half-way through a login, a
\* logout or a rotation.
THEOREM SerialNoForeignTokens ==
  ASSUME DeletesComplete
  PROVE  Spec => []NoForeignTokens
<1>1. Init => CleanInv
  BY CleanInit
<1>2. TypeOK /\ Loaded /\ CleanInv /\ [Next]_vars => CleanInv'
  BY CleanNext
<1>3. CleanInv => NoForeignTokens
  BY DEF CleanInv
<1> QED BY <1>1, <1>2, <1>3, TypesAndSecrets, PTL DEF Spec

\* Under the same conditions a logout that gets to its end, or the cleanup
\* after a revocation, leaves neither secret and no cached token.
THEOREM SerialLogoutClears ==
  ASSUME DeletesComplete
  PROVE  Spec => LogoutClears
<1>1. Init => CleanInv
  BY CleanInit
<1>2. TypeOK /\ Loaded /\ CleanInv /\ [Next]_vars => CleanInv'
  BY CleanNext
<1>3. CleanInv /\ [Next]_vars => [NothingLeft]_vars
  <2>1. ~Fault("del")
    BY DEF DeletesComplete, Fault
  <2>2. ASSUME CleanInv, NEW c \in Call, DeleteMetadata(c)
        PROVE  rt' = None /\ meta' = None /\ \A k \in Key : cache'[k] = None
    <3>1. CleanAt(c)
      BY <2>2 DEF CleanInv
    <3> QED BY <2>1, <2>2, <3>1 DEF DeleteMetadata, At, CleanAt
  <2> QED BY <2>2 DEF NothingLeft
<1> QED BY <1>1, <1>2, <1>3, TypesAndSecrets, PTL DEF Spec, LogoutClears

-----------------------------------------------------------------------------
(* What a login stores and reports.                                        *)

\* A login in progress has in hand the metadata of its own session, and no
\* call in progress has answered yet.
OwnAt(c) ==
  /\ OpAt(c)
  /\ pc[c] # "idle" => reply[c] = None
  /\ pc[c] \in {"list", "delete", "put_rt", "put_meta"} /\ job[c].op = "login"
       => job[c].md.sid = job[c].rt /\ job[c].md.oid \in {job[c].rt, None}

LEMMA OwnReturn ==
  ASSUME TypeOK, NEW c \in Call, NEW who, Return(c, who)
  PROVE  OwnAt(c)'
BY OpReturn DEF TypeOK, Return, Goto, OwnAt

\* A step answers for its own call, and then ends it.
LEMMA StepReply ==
  ASSUME TypeOK, NEW c \in Call, Step(c)
  PROVE  UNCHANGED reply \/ \E who : Return(c, who)
<1>1. CASE LoginStep(c)
  BY <1>1 DEF LoginStep, Authenticate, AuthenticateFails
<1>2. CASE ClearStep(c)
  BY <1>2 DEF ClearStep, ListKeys, ListKeysFails, DeleteCached, ClearDone
<1>3. CASE StoreStep(c)
  BY <1>3 DEF StoreStep, PutRefreshToken, PutMetadata, StoreFails
<1>4. CASE DeleteStep(c)
  BY <1>4 DEF DeleteStep, DeleteRefreshToken, DeleteMetadata
<1>5. CASE ValidStep(c)
  BY <1>5 DEF ValidStep, ValidRefreshToken, ValidMetadata, NoValidSession, ServeUnder
<1>6. CASE StatusStep(c)
  BY <1>6 DEF StatusStep, SecretExists, StatusMetadata
<1>7. CASE MintStep(c)
  BY <1>7 DEF MintStep, CacheGet, MintRefreshToken, MintMetadata, PostGranted,
              PostRefused, PostRevoked, Acquire, PutCache
<1>8. CASE PurgeStep(c)
  BY <1>8 DEF PurgeStep, Peek, Drop, PurgeDone
<1> QED BY <1>1, <1>2, <1>3, <1>4, <1>5, <1>6, <1>7, <1>8 DEF Step

LEMMA OwnStep ==
  ASSUME TypeOK, NEW c \in Call, Step(c), OwnAt(c)
  PROVE  OwnAt(c)'
<1>1. OpAt(c)'
  BY OpStep DEF CallStep, OwnAt
<1>2. pc'[c] # "idle" => reply'[c] = None
  <2>1. CASE UNCHANGED reply
    BY <2>1, StepIsActive DEF OwnAt, Idle
  <2> QED BY <2>1, StepReply, OwnReturn DEF OwnAt
<1> DEFINE Owned == /\ job[c].md.sid = job[c].rt
                    /\ job[c].md.oid \in {job[c].rt, None}
           Holds == pc[c] \in {"list", "delete", "put_rt", "put_meta"} /\ job[c].op = "login"
<1>3. CASE Authenticate(c)
  <2>1. PICK s \in Session, oid \in Maybe(Session) :
          /\ oid \in {s, None}
          /\ job' = [job EXCEPT ![c].rt = s,
                                ![c].md = [sid |-> s, oid |-> oid, live |-> TRUE]]
    BY <1>3 DEF Authenticate, NewMetadata
  <2>2. job'[c].rt = s /\ job'[c].md = [sid |-> s, oid |-> oid, live |-> TRUE]
    BY <2>1 DEF TypeOK, Job
  <2>3. Owned'
    BY <2>1, <2>2
  <2> QED BY <1>1, <1>2, <2>3 DEF OwnAt
\* Every other step of a login that goes on leaves both in hand as they are.
<1>4. ASSUME Holds => job'[c].rt = job[c].rt /\ job'[c].md = job[c].md,
             Holds' => Holds
      PROVE  OwnAt(c)'
  BY <1>1, <1>2, <1>4 DEF OwnAt
<1>5. CASE AuthenticateFails(c)
  BY <1>5, OwnReturn DEF AuthenticateFails
<1>6. CASE ClearStep(c)
  <2>1. ASSUME Return(c, None) PROVE OwnAt(c)'
    BY <2>1, OwnReturn
  <2>2. ASSUME ~Return(c, None) PROVE Holds' => Holds
    BY <1>6, <2>2 DEF ClearStep, ListKeys, ListKeysFails, DeleteCached, ClearDone, At,
       TypeOK, Job
  <2>3. ~Return(c, None) => job'[c].rt = job[c].rt /\ job'[c].md = job[c].md
    BY <1>6 DEF ClearStep, ListKeys, ListKeysFails, DeleteCached, ClearDone, TypeOK, Job
  <2> QED BY <1>4, <2>1, <2>2, <2>3
<1>7. CASE StoreStep(c)
  <2>1. ASSUME NEW who, Return(c, who) PROVE OwnAt(c)'
    BY <2>1, OwnReturn
  <2>2. (\A who : ~Return(c, who)) => UNCHANGED job /\ pc[c] \in {"put_rt", "put_meta"}
    BY <1>7 DEF StoreStep, PutRefreshToken, PutMetadata, StoreFails, At
  <2> QED BY <1>4, <2>1, <2>2
<1>8. ASSUME pc'[c] \notin {"list", "delete", "put_rt", "put_meta"}
      PROVE  OwnAt(c)'
  BY <1>1, <1>2, <1>8 DEF OwnAt
<1> USE DEF TypeOK, Goto, At
<1>9. CASE DeleteStep(c)
  BY <1>8, <1>9, OwnReturn DEF DeleteStep, DeleteRefreshToken, DeleteMetadata
<1>10. CASE ValidStep(c)
  <2>1. ASSUME NEW key, ServeUnder(c, key) PROVE OwnAt(c)'
    BY <1>8, <2>1 DEF ServeUnder, FirstStep, NewToken
  <2>2. NoValidSession(c) => OwnAt(c)'
    BY <1>8, <2>1, OwnReturn DEF NoValidSession
  <2> QED BY <1>8, <1>10, <2>1, <2>2, OwnReturn DEF ValidStep, ValidRefreshToken, ValidMetadata
<1>11. CASE StatusStep(c)
  BY <1>8, <1>11, OwnReturn DEF StatusStep, SecretExists, StatusMetadata
<1>12. CASE MintStep(c)
  <2>1. CASE PostGranted(c) \/ PostRevoked(c)
    <3>1. job[c].op = "token"
      BY <2>1 DEF PostGranted, PostRevoked, OwnAt, OpAt
    <3>2. job'[c].op = "token"
      BY <2>1, <3>1 DEF PostGranted, PostRevoked, Job
    <3> QED BY <1>1, <1>2, <3>2 DEF OwnAt
  <2> QED BY <1>8, <1>12, <2>1, OwnReturn
          DEF MintStep, CacheGet, MintRefreshToken, MintMetadata, PostRefused, Acquire,
              PutCache, NewToken
<1>13. CASE PurgeStep(c)
  BY <1>8, <1>13, OwnReturn DEF PurgeStep, Peek, Drop, PurgeDone
<1> QED BY <1>3, <1>5, <1>6, <1>7, <1>9, <1>10, <1>11, <1>12, <1>13 DEF Step, LoginStep

OwnInv == \A c \in Call : OwnAt(c)

\* A step changes no other call's answer.
LEMMA OwnOthers ==
  ASSUME TypeOK, OwnInv, NEW c \in Call, CallStep(c), OwnAt(c)'
  PROVE  OwnInv'
<1>1. Others(c)
  BY StepIsLocal DEF CallStep
<1>2. \A d \in Call \ {c} : reply'[d] = reply[d]
  BY StepReply DEF CallStep, Start, Crash, Return, TypeOK
<1>3. \A d \in Call \ {c} : OwnAt(d)'
  BY <1>1, <1>2 DEF OwnInv, OwnAt, OpAt, Others
<1> QED BY <1>3 DEF OwnInv

LEMMA OwnNext ==
  ASSUME TypeOK, OwnInv, [Next]_vars
  PROVE  OwnInv'
<1>1. ASSUME NEW c \in Call, CallStep(c)
      PROVE  OwnAt(c)'
  <2>1. ASSUME NEW o \in OpName, NEW force \in BOOLEAN, NEW env \in BOOLEAN,
               Start(c, o, force, env)
        PROVE  OwnAt(c)'
    <3>1. /\ pc'[c] = Entry(o)
          /\ job'[c].op = o
          /\ reply'[c] = None
      BY <2>1 DEF Start, Goto, TypeOK, Blank
    <3> QED BY <3>1 DEF Entry, OwnAt, OpAt
  <2> QED BY <1>1, <2>1, OwnStep, OwnReturn DEF CallStep, Crash, OwnInv
<1>2. ASSUME UNCHANGED <<pc, job, reply>>
      PROVE  OwnInv'
  BY <1>2 DEF OwnInv, OwnAt, OpAt
<1> QED BY <1>1, <1>2, OwnOthers, NextSplit DEF vars, TokenAges, SessionExpires

\* On a host that runs one call at a time and whose deletions succeed, a login
\* that reports its user has left exactly its own session and an empty cache,
\* whatever writes failed and whatever processes died before.
THEOREM SerialLoginRestores ==
  ASSUME DeletesComplete
  PROVE  Spec => LoginRestores
<1>1. Init => CleanInv /\ OwnInv
  <2>1. Init => OwnInv
    BY DEF Init, OwnInv, OwnAt, OpAt
  <2> QED BY <2>1, CleanInit
<1>2. TypeOK /\ Loaded /\ CleanInv /\ OwnInv /\ [Next]_vars => CleanInv' /\ OwnInv'
  BY CleanNext, OwnNext
<1>3. ASSUME TypeOK, Loaded, CleanInv, OwnInv, Next, NEW c \in Call
      PROVE  Restores(c)
  <2> SUFFICES ASSUME pc[c] = "put_meta", job[c].op = "login", reply'[c] # None
               PROVE  /\ rt' = reply'[c]
                      /\ meta' = [sid |-> rt', oid |-> rt', live |-> TRUE]
                      /\ \A k \in Key : cache'[k] = None
    BY DEF Restores, At
  <2>1. CleanAt(c) /\ OwnAt(c) /\ LoadedAt(c)
    BY <1>3 DEF CleanInv, OwnInv, Loaded
  <2>2. reply[c] = None
    BY <2>1 DEF OwnAt
  <2>3. PutMetadata(c) /\ Return(c, job[c].md.oid)
    <3>1. ASSUME NEW d \in Call, CallStep(d)
          PROVE  d = c /\ Step(c)
      <4>1. d # c => reply'[c] = reply[c]
        BY <3>1, StepReply, <1>3 DEF CallStep, Start, Crash, Return, TypeOK
      <4>2. d = c
        BY <2>2, <4>1
      <4>3. ~Crash(c)
        BY <1>3 DEF Crash, Return, TypeOK
      <4> QED BY <3>1, <4>2, <4>3 DEF CallStep, Start, Idle
    <3>2. Step(c)
      <4>1. reply' # reply
        BY <2>2
      <4> QED BY <1>3, <3>1, <4>1 DEF Next, CallStep, TokenAges, SessionExpires
    <3>3. StoreStep(c)
      BY <3>2 DEF Step, LoginStep, ClearStep, DeleteStep, ValidStep, StatusStep,
         MintStep, PurgeStep, Authenticate, AuthenticateFails, ListKeys, ListKeysFails,
         DeleteCached, ClearDone, DeleteRefreshToken, DeleteMetadata, ValidRefreshToken,
         ValidMetadata, SecretExists, StatusMetadata, CacheGet, MintRefreshToken,
         MintMetadata, PostGranted, PostRefused, PostRevoked, Acquire, PutCache, Peek,
         Drop, PurgeDone, At
    <3>4. ~StoreFails(c)
      BY <1>3 DEF StoreFails, Return, TypeOK
    <3> QED BY <3>3, <3>4 DEF StoreStep, PutMetadata, PutRefreshToken, At
  <2>4. reply'[c] = job[c].md.oid /\ rt' = rt /\ UNCHANGED cache
    BY <1>3, <2>3 DEF PutMetadata, Return, StoreFails, TypeOK, store
  <2>5. job[c].md.oid = rt /\ job[c].md.sid = rt
    BY <2>1, <2>4 DEF OwnAt, CleanAt
  <2>6. meta' = [job[c].md EXCEPT !.live = TRUE]
    <3>1. ~StoreFails(c)
      BY <1>3 DEF StoreFails, Return, TypeOK
    <3> QED BY <2>3, <3>1 DEF PutMetadata, StoredMetadata
  <2>7. job[c].md \in Metadata
    BY <1>3, <2>1, JobFields, MetadataFields DEF LoadedAt
  <2>8. meta' = [sid |-> rt', oid |-> rt', live |-> TRUE]
    BY <2>4, <2>5, <2>6, <2>7 DEF Metadata
  <2>9. \A k \in Key : cache'[k] = None
    BY <2>1, <2>4 DEF CleanAt
  <2> QED BY <2>4, <2>5, <2>8, <2>9
<1>4. TypeOK /\ Loaded /\ CleanInv /\ OwnInv /\ [Next]_vars
      => [\A c \in Call : Restores(c)]_vars
  BY <1>3
<1> QED BY <1>1, <1>2, <1>4, TypesAndSecrets, PTL DEF Spec, LoginRestores
=============================================================================
