-------------------------------- MODULE Plugin -------------------------------
(***************************************************************************)
(* The plugin between its calls: how configuration, environment, stored    *)
(* session and cached tokens together decide for whom it answers. The host *)
(* configures and reconfigures it, activates server mode, and starts it    *)
(* again in another environment; the session and the cache stay in the     *)
(* host's store. Calls are single steps here: how they interleave is       *)
(* CliSession's, and so are sessions that expired or cannot be read.       *)
(*                                                                         *)
(* A field of the settings or the environment that is absent or empty is   *)
(* None. Authorities are compared as both readers compare them, without    *)
(* trailing slashes.                                                       *)
(***************************************************************************)
EXTENDS Naturals

CONSTANTS
  None,
  Client, Tenant, Authority,
  Secret, File,        \* client secrets and federated tokens; token files
  DefaultClient, DefaultTenant, DefaultAuthority,
  Rejected,            \* the authority that is not an https URL with a host
  Settings,            \* the settings the host configures
  Environments,        \* the environments the plugin is started in
  MaxLogins            \* bound on the user logins of one behaviour

Maybe(S) == S \union {None}

Fields == [clientId : Maybe(Client), tenantId : Maybe(Tenant),
           authority : Maybe(Authority), clientSecret : Maybe(Secret),
           federatedToken : Maybe(Secret), federatedTokenFile : Maybe(File)]

VARIABLES
  config,   \* the settings in force, None before the first configuration
  mode,     \* None, "cli" or "server"
  clients,  \* TRUE when the HTTP and Graph clients have been built
  env,      \* the environment of the process
  files,    \* the token files that exist
  session,  \* the stored user session, or None
  cache,    \* the cached token of each key, or None
  logins    \* user logins so far

process == <<config, mode, clients, env>>
vars    == <<config, mode, clients, env, files, session, cache, logins>>

Session == [id : 1..MaxLogins, client : Client, tenant : Tenant]

\* An entry of the cache: of a session, or (session 0) of an application.
Key == [kind : {"user", "env"}, session : 0..MaxLogins,
        client : Client, tenant : Tenant, authority : Authority]

\* A token: how it was got, and for whom.
Token == [by : {"user", "workload_identity", "service_principal"}, session : 0..MaxLogins,
          client : Client, tenant : Tenant, authority : Authority]

\* What credentials name: an application, and where its requests go.
Application == [client : Client, tenant : Tenant, authority : Authority]

ASSUME PluginAssumption ==
  /\ None \notin Client \union Tenant \union Authority \union Secret \union File
  /\ None \notin {"cli", "server"}
  /\ None \notin Fields /\ None \notin Application
  /\ None \notin Session /\ None \notin Token
  /\ DefaultClient \in Client /\ DefaultTenant \in Tenant /\ DefaultAuthority \in Authority
  /\ DefaultAuthority # Rejected
  /\ Settings \subseteq Fields
  /\ Environments \subseteq Fields
  /\ MaxLogins \in Nat

-----------------------------------------------------------------------------
(* Credentials.                                                            *)

ProfileOrEnv(f) == IF config[f] # None THEN config[f] ELSE env[f]

OrDefault(v, default) == IF v = None THEN default ELSE v

GetAuthority == OrDefault(config.authority, DefaultAuthority)

WorkloadIdentityAuthority == OrDefault(ProfileOrEnv("authority"), DefaultAuthority)

App(authority) == [client |-> ProfileOrEnv("clientId"), tenant |-> ProfileOrEnv("tenantId"),
                   authority |-> authority]

HasTokenSource == \/ ProfileOrEnv("federatedToken") # None
                  \/ ProfileOrEnv("federatedTokenFile") \in files

Missing(fields) == {f \in fields : ProfileOrEnv(f) = None}

\* resolveWorkloadIdentityCredentials and resolveServicePrincipalCredentials:
\* the application they name, or None.
WorkloadIdentity ==
  IF HasTokenSource /\ Missing({"clientId", "tenantId"}) = {}
    THEN App(WorkloadIdentityAuthority) ELSE None

ServicePrincipal ==
  IF Missing({"clientId", "tenantId", "clientSecret"}) = {} THEN App(GetAuthority) ELSE None

-----------------------------------------------------------------------------
(* For whom status and tokens answer.                                      *)

SignedOut == [by |-> "nobody", client |-> None, tenant |-> None]

Reported(by, who) == [by |-> by, client |-> who.client, tenant |-> who.tenant]

Status ==
  IF session # None THEN Reported("user", session)
  ELSE IF WorkloadIdentity # None THEN Reported("workload_identity", WorkloadIdentity)
  ELSE IF ServicePrincipal # None THEN Reported("service_principal", ServicePrincipal)
  ELSE SignedOut

TokenSource ==
  IF session # None THEN "user"
  ELSE IF WorkloadIdentity # None THEN "workload_identity"
  ELSE IF ServicePrincipal # None THEN "service_principal"
  ELSE "nobody"

\* userSessionFingerprint; without a session the configured client and tenant.
UserKey ==
  [kind |-> "user", authority |-> GetAuthority,
   session |-> IF session = None THEN 0 ELSE session.id,
   client  |-> IF session = None THEN OrDefault(config.clientId, DefaultClient) ELSE session.client,
   tenant  |-> IF session = None THEN OrDefault(config.tenantId, DefaultTenant) ELSE session.tenant]

\* Mutant: the key names the configured application, not the resolved one.
EnvKeyConfigured(app) ==
  [kind |-> "env", session |-> 0, authority |-> app.authority,
   client |-> OrDefault(config.clientId, DefaultClient),
   tenant |-> OrDefault(config.tenantId, DefaultTenant)]

EnvKey(app) == [kind |-> "env", session |-> 0, authority |-> app.authority,
                client |-> app.client, tenant |-> app.tenant]

CacheKey == CASE TokenSource = "workload_identity" -> EnvKey(WorkloadIdentity)
              [] TokenSource = "service_principal" -> EnvKey(ServicePrincipal)
              [] OTHER                             -> UserKey

\* The token a request gets: for the session's client and tenant, or for the
\* application, from the authority the request goes to.
TokenOf(by, id, who, authority) ==
  [by |-> by, session |-> id, client |-> who.client, tenant |-> who.tenant,
   authority |-> authority]

\* Mutant: without an authority of its own the request has none.
AcquiredNoDefault ==
  CASE TokenSource = "user" -> TokenOf("user", session.id, session, GetAuthority)
    [] TokenSource = "workload_identity" ->
         TokenOf("workload_identity", 0, WorkloadIdentity, ProfileOrEnv("authority"))
    [] TokenSource = "service_principal" ->
         TokenOf("service_principal", 0, ServicePrincipal, GetAuthority)

Acquired ==
  CASE TokenSource = "user" -> TokenOf("user", session.id, session, GetAuthority)
    [] TokenSource = "workload_identity" ->
         TokenOf("workload_identity", 0, WorkloadIdentity, WorkloadIdentity.authority)
    [] TokenSource = "service_principal" ->
         TokenOf("service_principal", 0, ServicePrincipal, GetAuthority)

-----------------------------------------------------------------------------
(* What is said about credentials that are not available.                  *)

\* Mutant: a token file counts although it is not there.
DetectReasonNoStat ==
  IF Missing({"federatedToken", "federatedTokenFile"}) = {"federatedToken", "federatedTokenFile"}
    THEN {"token source"}
    ELSE Missing({"clientId", "tenantId"})

\* detectWorkloadIdentityUnavailableReason: what it says is missing, nothing
\* when it falls through to the text that names no cause.
DetectReason ==
  IF HasTokenSource THEN Missing({"clientId", "tenantId"})
  ELSE IF ProfileOrEnv("federatedTokenFile") # None THEN {"token file"}
  ELSE {"token source"}

\* The order in which workloadIdentityLogin looks for the cause.
LoginReason ==
  LET file == ProfileOrEnv("federatedTokenFile")
  IN IF file = None /\ ProfileOrEnv("federatedToken") = None THEN {"token source"}
     ELSE IF file # None /\ file \notin files THEN {"token file"}
     ELSE IF "clientId" \in Missing({"clientId"}) THEN {"clientId"}
     ELSE Missing({"tenantId"})

\* DetectAvailableFlows on the service principal.
ServicePrincipalReason == Missing({"clientId", "clientSecret", "tenantId"})

-----------------------------------------------------------------------------
(* Configuring and starting the plugin.                                    *)

Unset == [clientId |-> None, tenantId |-> None, authority |-> None,
          clientSecret |-> None, federatedToken |-> None, federatedTokenFile |-> None]

AcceptedAuthority(s) == s.authority # Rejected

\* Settings that cannot be parsed leave the defaults in force, or what could
\* be read; settings that are parsed and refused stay in force themselves.
\* The mode of before goes on.
ConfigureRefused ==
  /\ \/ config' = Unset
     \/ config' \in Settings
  /\ UNCHANGED <<mode, clients, env, files, session, cache, logins>>

\* Mutant: the mode is set before the clients are built.
ClientsFailInMode ==
  /\ ~clients
  /\ config' \in {s \in Settings : AcceptedAuthority(s)}
  /\ mode' = "cli"
  /\ UNCHANGED <<clients, env, files, session, cache, logins>>

\* The HTTP settings do not build a client.
ClientsFail ==
  /\ ~clients
  /\ config' \in {s \in Settings : AcceptedAuthority(s)}
  /\ UNCHANGED <<mode, clients, env, files, session, cache, logins>>

ConfigureAuthHandler ==
  /\ config' \in {s \in Settings : AcceptedAuthority(s)}
  /\ clients' = TRUE
  /\ mode' = "cli"
  /\ UNCHANGED <<env, files, session, cache, logins>>

\* With settings ServerFlows accepts, and a secret that can be read.
ActivateServerMode ==
  /\ mode' = "server"
  /\ UNCHANGED <<config, clients, env, files, session, cache, logins>>

\* A new process.
Restart ==
  /\ env' \in Environments
  /\ config' = None /\ mode' = None /\ clients' = FALSE
  /\ UNCHANGED <<files, session, cache, logins>>

\* A token file is mounted or removed.
FileChanges ==
  /\ \E f \in File : files' = IF f \in files THEN files \ {f} ELSE files \union {f}
  /\ UNCHANGED <<process, session, cache, logins>>

-----------------------------------------------------------------------------
(* Calls in CLI mode.                                                      *)

\* A login that stores a session: of the configured client and tenant, or of
\* those it is asked for. It clears the cache before it stores.
Login ==
  /\ mode = "cli"
  /\ logins < MaxLogins
  /\ \E c \in Client, t \in Tenant :
       session' = [id |-> logins + 1, client |-> c, tenant |-> t]
  /\ cache' = [k \in Key |-> None]
  /\ logins' = logins + 1
  /\ UNCHANGED <<process, files>>

\* logoutInternal, of a logout or of a refresh token that was revoked.
Logout ==
  /\ mode = "cli"
  /\ session' = None
  /\ cache' = [k \in Key |-> None]
  /\ UNCHANGED <<process, files, logins>>

\* A request that is not served from the cache, or has to refresh.
AcquireToken ==
  /\ TokenSource # "nobody"
  /\ cache' = [cache EXCEPT ![CacheKey] = Acquired]
  /\ UNCHANGED <<process, files, session, logins>>

GetToken == mode = "cli" /\ AcquireToken

\* Group membership is a user's: with environment credentials it is refused.
GroupsRefused == WorkloadIdentity # None \/ ServicePrincipal # None

GetGroups == mode = "cli" /\ ~GroupsRefused /\ AcquireToken

\* An entry expires and is purged.
PurgeExpiredTokens ==
  /\ mode = "cli"
  /\ \E k \in Key : cache[k] # None /\ cache' = [cache EXCEPT ![k] = None]
  /\ UNCHANGED <<process, files, session, logins>>

-----------------------------------------------------------------------------

Init ==
  /\ config = None /\ mode = None /\ clients = FALSE
  /\ env \in Environments
  /\ files \in SUBSET File
  /\ session = None
  /\ cache = [k \in Key |-> None]
  /\ logins = 0

Next == \/ ConfigureRefused \/ ClientsFail \/ ConfigureAuthHandler
        \/ ActivateServerMode \/ Restart \/ FileChanges
        \/ Login \/ Logout \/ GetToken \/ GetGroups \/ PurgeExpiredTokens

Spec == Init /\ [][Next]_vars

-----------------------------------------------------------------------------
(* Properties.                                                             *)

\* Every variable keeps its shape.
TypeOK ==
  /\ config \in Maybe(Fields)
  /\ mode \in {None, "cli", "server"}
  /\ clients \in BOOLEAN
  /\ env \in Environments
  /\ files \subseteq File
  /\ session \in Maybe(Session)
  /\ cache \in [Key -> Maybe(Token)]
  /\ logins \in 0..MaxLogins

\* CLI mode is in force only over a configuration and clients to send its
\* requests with, whatever configurations failed before or after: a call it
\* accepts does not meet a nil one (activeMode, "returns an explicit error
\* rather than panicking").
Usable == mode = "cli" => config # None /\ clients

\* Token t is of who status names: of the stored session, or of the same
\* application at the authority the request would be sent to. Status and
\* token may differ in how the application proved itself: both ways share
\* the key of the application.
OfStatus(t) ==
  /\ (t.by = "user") = (Status.by = "user")
  /\ t.client = Status.client /\ t.tenant = Status.tenant
  /\ session # None => t.session = session.id
  /\ t.authority = IF Status.by = "workload_identity" THEN WorkloadIdentityAuthority
                                                       ELSE GetAuthority

\* "Credential precedence mirrors GetStatus" (cliMode.GetToken): a token
\* request answers for who status reports, from the cache as well, after any
\* history of logins, reconfigurations and restarts in other environments;
\* and when status reports nobody the cache has nothing to serve.
TokensMatchStatus ==
  mode = "cli" =>
    /\ (TokenSource = "nobody") = (Status = SignedOut)
    /\ TokenSource # "nobody" => OfStatus(Acquired)
    /\ cache[CacheKey] # None => Status # SignedOut /\ OfStatus(cache[CacheKey])

\* Credentials that are not available have a stated cause, and the one the
\* flow detection states is true: supplying what it names is necessary, for
\* every mix of settings, environment and token files that come and go.
Explained ==
  mode = "cli" =>
    /\ WorkloadIdentity = None =>
         /\ DetectReason # {}
         /\ DetectReason \subseteq {"clientId", "tenantId"} \/ ~HasTokenSource
         /\ LoginReason # {}
    /\ ServicePrincipal = None => ServicePrincipalReason # {}

\* README: "once a user session is stored, `auth status`, `auth token`, and
\* every provider call use the logged-in user even on machines where the
\* AZURE_* service principal / workload identity variables are set".
GroupsFollowSession == mode = "cli" /\ session # None => ~GroupsRefused
=============================================================================
