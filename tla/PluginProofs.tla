----------------------------- MODULE PluginProofs ----------------------------
(* Theorems about Plugin, for all settings, environments and identities.   *)
EXTENDS Plugin, TLAPS

\* A cached token is what its key says, and a user's is of the session that
\* is stored.
EntriesFit ==
  \A k \in Key : cache[k] # None =>
    /\ cache[k].by = "user" <=> k.kind = "user"
    /\ cache[k].session = k.session
    /\ cache[k].client = k.client /\ cache[k].tenant = k.tenant
    /\ cache[k].authority = k.authority
    /\ k.kind = "user" => /\ session # None /\ k.session = session.id
                          /\ k.client = session.client /\ k.tenant = session.tenant

IInv == TypeOK /\ Usable /\ EntriesFit

-----------------------------------------------------------------------------
(* Credentials of a configured plugin.                                     *)

LEMMA FieldTypes ==
  ASSUME config \in Fields, env \in Fields
  PROVE  /\ ProfileOrEnv("clientId") \in Maybe(Client)
         /\ ProfileOrEnv("tenantId") \in Maybe(Tenant)
         /\ ProfileOrEnv("authority") \in Maybe(Authority)
         /\ GetAuthority \in Authority /\ WorkloadIdentityAuthority \in Authority
<1>1. /\ ProfileOrEnv("clientId") \in Maybe(Client)
      /\ ProfileOrEnv("tenantId") \in Maybe(Tenant)
      /\ ProfileOrEnv("authority") \in Maybe(Authority)
  BY DEF ProfileOrEnv, Fields
<1>2. GetAuthority \in Authority
  BY PluginAssumption DEF GetAuthority, OrDefault, Fields, Maybe
<1>3. WorkloadIdentityAuthority \in Authority
  BY <1>1, PluginAssumption DEF WorkloadIdentityAuthority, OrDefault, Maybe
<1> QED BY <1>1, <1>2, <1>3

LEMMA AppType ==
  ASSUME config \in Fields, env \in Fields, NEW a \in Authority,
         Missing({"clientId", "tenantId"}) = {}
  PROVE  /\ App(a) \in Application /\ App(a) # None
         /\ App(a).authority = a
<1>1. ProfileOrEnv("clientId") # None /\ ProfileOrEnv("tenantId") # None
  BY DEF Missing
<1>2. App(a) \in Application
  BY <1>1, FieldTypes DEF App, Application, Maybe
<1> QED BY <1>2, PluginAssumption DEF App

\* Credentials that resolve name an application, and its authority is the one
\* the request goes to.
LEMMA CredentialTypes ==
  ASSUME config \in Fields, env \in Fields
  PROVE  /\ WorkloadIdentity # None =>
              /\ WorkloadIdentity \in Application
              /\ WorkloadIdentity.authority = WorkloadIdentityAuthority
         /\ ServicePrincipal # None =>
              /\ ServicePrincipal \in Application
              /\ ServicePrincipal.authority = GetAuthority
<1>1. Missing({"clientId", "tenantId", "clientSecret"}) = {} => Missing({"clientId", "tenantId"}) = {}
  BY DEF Missing
<1> QED BY <1>1, FieldTypes, AppType DEF WorkloadIdentity, ServicePrincipal

-----------------------------------------------------------------------------
(* A token request, and where its answer is cached.                        *)

LEMMA SessionFields ==
  ASSUME TypeOK, session # None
  PROVE  /\ session.id \in 1..MaxLogins /\ session.id # 0
         /\ session.client \in Client /\ session.tenant \in Tenant
BY DEF TypeOK, Maybe, Session

\* Each source of tokens with the key and the token that belong to it.
LEMMA SourceCases ==
  ASSUME TypeOK, config \in Fields, TokenSource # "nobody"
  PROVE  /\ CacheKey \in Key /\ Acquired \in Token
         /\ Acquired.by = "user" <=> CacheKey.kind = "user"
         /\ Acquired.session = CacheKey.session
         /\ Acquired.client = CacheKey.client /\ Acquired.tenant = CacheKey.tenant
         /\ Acquired.authority = CacheKey.authority
         /\ CacheKey.kind = "user" =>
              /\ session # None /\ CacheKey.session = session.id
              /\ CacheKey.client = session.client /\ CacheKey.tenant = session.tenant
<1>0. env \in Fields /\ 0 \in 0..MaxLogins /\ 1..MaxLogins \subseteq 0..MaxLogins
  BY PluginAssumption DEF TypeOK
<1>1. CASE session # None
  <2>1. TokenSource = "user"
    BY <1>1 DEF TokenSource
  <2>2. CacheKey = [kind |-> "user", authority |-> GetAuthority, session |-> session.id,
                    client |-> session.client, tenant |-> session.tenant]
    BY <1>1, <2>1 DEF CacheKey, UserKey
  <2>3. Acquired = [by |-> "user", session |-> session.id, client |-> session.client,
                    tenant |-> session.tenant, authority |-> GetAuthority]
    BY <2>1 DEF Acquired, TokenOf
  <2> QED BY <1>0, <1>1, <2>2, <2>3, SessionFields, FieldTypes DEF Key, Token
<1>2. CASE session = None /\ WorkloadIdentity # None
  <2>1. TokenSource = "workload_identity"
    BY <1>2 DEF TokenSource
  <2>2. WorkloadIdentity \in Application
    BY <1>0, <1>2, CredentialTypes
  <2>3. CacheKey = [kind |-> "env", session |-> 0, authority |-> WorkloadIdentity.authority,
                    client |-> WorkloadIdentity.client, tenant |-> WorkloadIdentity.tenant]
    BY <2>1 DEF CacheKey, EnvKey
  <2>4. Acquired = [by |-> "workload_identity", session |-> 0,
                    client |-> WorkloadIdentity.client, tenant |-> WorkloadIdentity.tenant,
                    authority |-> WorkloadIdentity.authority]
    BY <2>1 DEF Acquired, TokenOf
  <2> QED BY <1>0, <2>2, <2>3, <2>4 DEF Key, Token, Application
<1>3. CASE session = None /\ WorkloadIdentity = None
  <2>1. TokenSource = "service_principal" /\ ServicePrincipal # None
    BY <1>3 DEF TokenSource
  <2>2. ServicePrincipal \in Application /\ ServicePrincipal.authority = GetAuthority
    BY <1>0, <2>1, CredentialTypes
  <2>3. CacheKey = [kind |-> "env", session |-> 0, authority |-> ServicePrincipal.authority,
                    client |-> ServicePrincipal.client, tenant |-> ServicePrincipal.tenant]
    BY <2>1 DEF CacheKey, EnvKey
  <2>4. Acquired = [by |-> "service_principal", session |-> 0,
                    client |-> ServicePrincipal.client, tenant |-> ServicePrincipal.tenant,
                    authority |-> GetAuthority]
    BY <2>1 DEF Acquired, TokenOf
  <2> QED BY <1>0, <2>2, <2>3, <2>4 DEF Key, Token, Application
<1> QED BY <1>1, <1>2, <1>3

LEMMA AcquireIInv ==
  ASSUME IInv, mode = "cli", AcquireToken
  PROVE  IInv'
<1>0. /\ TypeOK /\ Usable /\ EntriesFit /\ config \in Fields
      /\ UNCHANGED <<config, mode, clients, env, files, session, logins>>
      /\ TokenSource # "nobody" /\ cache' = [cache EXCEPT ![CacheKey] = Acquired]
  BY DEF IInv, Usable, TypeOK, Maybe, AcquireToken, process
<1>1. cache' \in [Key -> Maybe(Token)]
      /\ \A k \in Key : cache'[k] = IF k = CacheKey THEN Acquired ELSE cache[k]
  BY <1>0, SourceCases DEF TypeOK, Maybe
<1>2. TypeOK'
  BY <1>0, <1>1 DEF TypeOK
<1>3. EntriesFit'
  BY <1>0, <1>1, SourceCases DEF EntriesFit
<1> QED BY <1>0, <1>2, <1>3 DEF IInv, Usable

-----------------------------------------------------------------------------
(* Every step keeps the invariant.                                         *)

\* An emptied cache fits whatever is stored.
LEMMA ClearedIInv ==
  ASSUME IInv, UNCHANGED process, UNCHANGED files, session' \in Maybe(Session),
         cache' = [k \in Key |-> None], logins' \in 0..MaxLogins
  PROVE  IInv'
BY DEF IInv, TypeOK, Usable, EntriesFit, process, Maybe

\* What leaves session and cache alone keeps the entries as they are.
LEMMA StoreStays ==
  ASSUME EntriesFit, UNCHANGED <<session, cache>>
  PROVE  EntriesFit'
BY DEF EntriesFit

LEMMA PurgeIInv ==
  ASSUME IInv, PurgeExpiredTokens
  PROVE  IInv'
<1>0. /\ TypeOK /\ Usable /\ EntriesFit
      /\ UNCHANGED <<config, mode, clients, env, files, session, logins>>
  BY DEF IInv, PurgeExpiredTokens, process
<1>1. PICK k \in Key : cache' = [cache EXCEPT ![k] = None]
  BY DEF PurgeExpiredTokens
<1>2. cache' \in [Key -> Maybe(Token)] /\ \A j \in Key : cache'[j] # None => cache'[j] = cache[j]
  BY <1>0, <1>1 DEF TypeOK, Maybe
<1>3. TypeOK'
  BY <1>0, <1>2 DEF TypeOK
<1>4. EntriesFit'
  BY <1>0, <1>2 DEF EntriesFit
<1> QED BY <1>0, <1>3, <1>4 DEF IInv, Usable

LEMMA ConfiguringIInv ==
  ASSUME IInv,
         \/ ConfigureRefused \/ ClientsFail \/ ConfigureAuthHandler
         \/ ActivateServerMode \/ Restart \/ FileChanges
  PROVE  IInv'
<1>0. /\ TypeOK /\ Usable /\ EntriesFit /\ Unset \in Fields /\ None \notin Fields
      /\ Settings \subseteq Fields
  BY PluginAssumption DEF IInv, Unset, Fields, Maybe
<1>1. UNCHANGED <<session, cache, logins>> /\ EntriesFit'
  BY <1>0, StoreStays DEF ConfigureRefused, ClientsFail, ConfigureAuthHandler,
     ActivateServerMode, Restart, FileChanges
<1>2. CASE ConfigureRefused
  BY <1>0, <1>1, <1>2 DEF ConfigureRefused, IInv, TypeOK, Usable, Maybe
<1>3. CASE ClientsFail
  BY <1>0, <1>1, <1>3 DEF ClientsFail, IInv, TypeOK, Usable, Maybe
<1>4. CASE ConfigureAuthHandler
  BY <1>0, <1>1, <1>4 DEF ConfigureAuthHandler, IInv, TypeOK, Usable, Maybe
<1>5. CASE ActivateServerMode
  BY <1>0, <1>1, <1>5 DEF ActivateServerMode, IInv, TypeOK, Usable, Maybe
<1>6. CASE Restart
  <2>1. mode' # "cli" /\ mode' = None
    BY <1>6, PluginAssumption DEF Restart
  <2> QED BY <1>0, <1>1, <1>6, <2>1 DEF Restart, IInv, TypeOK, Usable, Maybe
<1>7. CASE FileChanges
  BY <1>0, <1>1, <1>7 DEF FileChanges, IInv, TypeOK, Usable, process
<1> QED BY <1>2, <1>3, <1>4, <1>5, <1>6, <1>7

LEMMA LoginIInv ==
  ASSUME IInv, Login
  PROVE  IInv'
<1>1. logins \in 0..MaxLogins /\ logins + 1 \in 1..MaxLogins /\ logins' \in 0..MaxLogins
  BY PluginAssumption DEF IInv, TypeOK, Login
<1>2. session' \in Maybe(Session)
  BY <1>1 DEF Login, Session, Maybe
<1> QED BY <1>1, <1>2, ClearedIInv DEF Login

LEMMA LogoutIInv ==
  ASSUME IInv, Logout
  PROVE  IInv'
<1>1. session' \in Maybe(Session) /\ logins' \in 0..MaxLogins
  BY DEF IInv, TypeOK, Logout, Maybe
<1> QED BY <1>1, ClearedIInv DEF Logout

LEMMA InitIInv == Init => IInv
<1> SUFFICES ASSUME Init PROVE IInv
  OBVIOUS
<1>1. TypeOK
  <2>1. config \in Maybe(Fields) /\ session \in Maybe(Session) /\ mode \in {None, "cli", "server"}
    BY DEF Init, Maybe
  <2>2. cache \in [Key -> Maybe(Token)]
    BY DEF Init, Maybe
  <2>3. clients \in BOOLEAN
    BY Zenon DEF Init
  <2>4. env \in Environments /\ files \subseteq File
    BY DEF Init
  <2>5. logins \in 0..MaxLogins
    BY PluginAssumption DEF Init
  <2> QED BY <2>1, <2>2, <2>3, <2>4, <2>5 DEF TypeOK
<1>2. Usable
  BY PluginAssumption DEF Init, Usable
<1>3. EntriesFit
  BY DEF Init, EntriesFit
<1> QED BY <1>1, <1>2, <1>3 DEF IInv

LEMMA StepIInv == IInv /\ [Next]_vars => IInv'
<1> SUFFICES ASSUME IInv, [Next]_vars PROVE IInv'
  OBVIOUS
<1>1. CASE \/ ConfigureRefused \/ ClientsFail \/ ConfigureAuthHandler
           \/ ActivateServerMode \/ Restart \/ FileChanges
  BY <1>1, ConfiguringIInv
<1>2. CASE Login
  BY <1>2, LoginIInv
<1>3. CASE Logout
  BY <1>3, LogoutIInv
<1>4. CASE GetToken \/ GetGroups
  BY <1>4, AcquireIInv DEF GetToken, GetGroups
<1>5. CASE PurgeExpiredTokens
  BY <1>5, PurgeIInv
<1>6. CASE UNCHANGED vars
  <2>1. UNCHANGED <<config, mode, clients, env, files, session, cache, logins>>
    BY <1>6 DEF vars
  <2> QED BY <2>1 DEF IInv, TypeOK, Usable, EntriesFit
<1> QED BY <1>1, <1>2, <1>3, <1>4, <1>5, <1>6 DEF Next

THEOREM Invariance == Spec => []IInv
BY InitIInv, StepIInv, PTL DEF Spec

-----------------------------------------------------------------------------
(* What follows from it.                                                   *)

\* Every variable keeps its shape.
THEOREM TypeCorrect == Spec => []TypeOK
<1>1. IInv => TypeOK
  BY DEF IInv
<1> QED BY <1>1, Invariance, PTL

\* CLI mode never meets a configuration or clients that are not there.
THEOREM AlwaysUsable == Spec => []Usable
<1>1. IInv => Usable
  BY DEF IInv
<1> QED BY <1>1, Invariance, PTL

\* Status and tokens choose the same identity, in the same order.
LEMMA SameChoice ==
  ASSUME TypeOK, config \in Fields
  PROVE  /\ Status.by = TokenSource
         /\ (TokenSource = "nobody") = (Status = SignedOut)
         /\ TokenSource = "user" <=> session # None
         /\ TokenSource = "user" => /\ Status.client = session.client
                                    /\ Status.tenant = session.tenant
         /\ TokenSource = "workload_identity" => /\ Status.client = WorkloadIdentity.client
                                                 /\ Status.tenant = WorkloadIdentity.tenant
         /\ TokenSource = "service_principal" => /\ Status.client = ServicePrincipal.client
                                                 /\ Status.tenant = ServicePrincipal.tenant
<1>1. Status.by = TokenSource
  BY DEF Status, TokenSource, Reported, SignedOut
<1>2. TokenSource = "nobody" => Status = SignedOut
  BY DEF Status, TokenSource
<1>3. Status = SignedOut => TokenSource = "nobody"
  BY <1>1 DEF SignedOut
<1> QED BY <1>1, <1>2, <1>3 DEF Status, TokenSource, Reported

LEMMA AcquiredOfStatus ==
  ASSUME TypeOK, config \in Fields, TokenSource # "nobody"
  PROVE  OfStatus(Acquired)
<1>0. env \in Fields
  BY PluginAssumption DEF TypeOK
<1>1. CASE TokenSource = "user"
  BY <1>1, SameChoice DEF OfStatus, Acquired, TokenOf
<1>2. CASE TokenSource = "workload_identity"
  <2>1. session = None /\ WorkloadIdentity # None
    BY <1>2 DEF TokenSource
  <2>2. WorkloadIdentity.authority = WorkloadIdentityAuthority
    BY <1>0, <2>1, CredentialTypes
  <2>3. Acquired = TokenOf("workload_identity", 0, WorkloadIdentity, WorkloadIdentity.authority)
    BY <1>2 DEF Acquired
  <2> QED BY <1>2, <2>1, <2>2, <2>3, SameChoice DEF OfStatus, TokenOf
<1>3. CASE TokenSource = "service_principal"
  <2>1. session = None
    BY <1>3 DEF TokenSource
  <2>2. Acquired = TokenOf("service_principal", 0, ServicePrincipal, GetAuthority)
    BY <1>3 DEF Acquired
  <2> QED BY <1>3, <2>1, <2>2, SameChoice DEF OfStatus, TokenOf
<1> QED BY <1>1, <1>2, <1>3 DEF TokenSource

\* An entry under a request's key is like the token the request would get.
LEMMA CachedOfStatus ==
  ASSUME TypeOK, EntriesFit, config \in Fields, cache[CacheKey] # None
  PROVE  TokenSource # "nobody" /\ OfStatus(cache[CacheKey])
<1>1. TokenSource # "nobody"
  <2> SUFFICES ASSUME TokenSource = "nobody" PROVE FALSE
    OBVIOUS
  <2>1. session = None
    BY DEF TokenSource
  <2>2. CacheKey = UserKey
    BY DEF CacheKey
  <2>3. UserKey \in Key /\ UserKey.kind = "user"
    <3>1. OrDefault(config.clientId, DefaultClient) \in Client
          /\ OrDefault(config.tenantId, DefaultTenant) \in Tenant
      BY PluginAssumption DEF OrDefault, Fields, Maybe
    <3>2. GetAuthority \in Authority
      BY PluginAssumption, FieldTypes DEF TypeOK
    <3> QED BY <2>1, <3>1, <3>2, PluginAssumption DEF UserKey, Key
  <2> QED BY <2>1, <2>2, <2>3 DEF EntriesFit
<1>2. OfStatus(Acquired)
  BY <1>1, AcquiredOfStatus
<1>3. LET t == cache[CacheKey]
      IN /\ t.by = "user" <=> Acquired.by = "user"
         /\ t.session = Acquired.session
         /\ t.client = Acquired.client /\ t.tenant = Acquired.tenant
         /\ t.authority = Acquired.authority
  BY <1>1, SourceCases DEF EntriesFit
<1> QED BY <1>1, <1>2, <1>3 DEF OfStatus

\* A token request answers for who status reports, from the cache as well.
THEOREM TokensFollowStatus == Spec => []TokensMatchStatus
<1>1. IInv => TokensMatchStatus
  <2> SUFFICES ASSUME IInv, mode = "cli" PROVE TokensMatchStatus
    BY DEF TokensMatchStatus
  <2>1. TypeOK /\ EntriesFit /\ config \in Fields
    BY DEF IInv, Usable, TypeOK, Maybe
  <2> QED BY <2>1, SameChoice, AcquiredOfStatus, CachedOfStatus DEF TokensMatchStatus
<1> QED BY <1>1, Invariance, PTL

-----------------------------------------------------------------------------
(* The texts about credentials that are not available.                     *)

\* What is not available has a stated cause, and the cause is true.
THEOREM CausesStated == Spec => []Explained
<1>1. IInv => Explained
  <2> SUFFICES ASSUME IInv, mode = "cli" PROVE Explained
    BY DEF Explained
  <2>1. config \in Fields /\ env \in Fields
    BY PluginAssumption DEF IInv, Usable, TypeOK, Maybe
  <2>2. HasTokenSource /\ WorkloadIdentity = None => Missing({"clientId", "tenantId"}) # {}
    BY <2>1, AppType, FieldTypes DEF WorkloadIdentity
  <2>3. DetectReason \subseteq {"clientId", "tenantId"} \/ ~HasTokenSource
    BY DEF DetectReason, Missing
  <2>4. WorkloadIdentity = None => DetectReason # {}
    BY <2>2 DEF DetectReason
  <2>5. WorkloadIdentity = None => LoginReason # {}
    <3> SUFFICES ASSUME WorkloadIdentity = None, LoginReason = {} PROVE FALSE
      OBVIOUS
    <3>1. HasTokenSource
      BY DEF LoginReason, HasTokenSource
    <3>2. ProfileOrEnv("clientId") # None /\ ProfileOrEnv("tenantId") # None
      BY DEF LoginReason, Missing
    <3> QED BY <2>2, <3>1, <3>2 DEF Missing
  <2>6. ServicePrincipal = None => ServicePrincipalReason # {}
    <3>1. Missing({"clientId", "tenantId", "clientSecret"}) = Missing({"clientId", "clientSecret", "tenantId"})
      OBVIOUS
    <3>2. Missing({"clientId", "tenantId", "clientSecret"}) = {} => Missing({"clientId", "tenantId"}) = {}
      BY DEF Missing
    <3> QED BY <2>1, <3>1, <3>2, AppType, FieldTypes DEF ServicePrincipal, ServicePrincipalReason
  <2> QED BY <2>3, <2>4, <2>5, <2>6 DEF Explained
<1> QED BY <1>1, Invariance, PTL
=============================================================================
