------------------------------- MODULE WizardStack -------------------------------
(***************************************************************************)
(* What the Docker setup wizard writes (docker/setup-wizard.py) and what   *)
(* becomes of it: the compose file with the credentials it refers to, the  *)
(* .env that holds them, the volumes, the reverse proxy in front - and the *)
(* start of the web service on it, which refuses what it cannot enforce    *)
(* (webapp/app.py, create_app).  The operator may switch the sign-in on    *)
(* later, as the compose file says, and run the wizard again.              *)
(*                                                                         *)
(* A file is a set of what the properties tell apart in it; a credential   *)
(* is random, or typed and then perhaps too short.                         *)
(***************************************************************************)
EXTENDS SetupAnswers

CONSTANT
    StackAnswers    \* what may be answered, with the credentials typed

VARIABLES
    stackStep,      \* where the deployment stands
    answers,        \* the answers of this run, and what follows from them
    held,           \* the credentials of this run: how strong each one is
    dotenv          \* those in .env

stackVars == <<stackStep, answers, held, dotenv>>

Credentials ==
    {"redis_password", "releases_token", "admin_proxy_secret", "purge_token",
     "purge_signing_key", "export_signing_key", "audit_salt", "encryption_key",
     "authentik_secret_key", "authentik_pg_password", "authentik_client_id",
     "authentik_client_secret", "authentik_bootstrap_password",
     "authentik_enrollment_token", "smtp_password"}

ProviderCredentials == Credentials \cap ProviderAnswers
Strengths == {"random", "short"}

NoAnswers == <<>>
NoCredentials == <<>>
KeysOf(credentials) == DOMAIN credentials

AnswerNames ==
    {"public_base_url", "enable_mcp", "mcp_auth_enabled", "mcp_auth_issuer",
     "mcp_auth_audience", "mcp_auth_jwks_url", "mcp_auth_resource_url",
     "admin_enabled", "admin_users", "deploy_authentik", "authentik_url",
     "smtp_host", "smtp_auth", "reverse_proxy", "reverse_proxy_hostname",
     "audit_log", "audit_storage", "audit_log_path", "redis_persistence",
     "redis_data_path", "encrypt_results", "releases_mode",
     "require_approval", "approved_targets", "approval_dns", "typed"}

Paths == {"/", "/mcp", "/admin", "/outpost"}

ASSUME StackAssumption ==
    \A s \in StackAnswers :
        /\ DOMAIN s = AnswerNames
        /\ KeysOf(s.typed) \subseteq Credentials
        /\ HostName(s.authentik_url) \notin Paths

Given(condition, S) == IF condition THEN S ELSE {}

-----------------------------------------------------------------------------
(* _finalise, the answers: what they imply is filled in.                    *)
Finalised(s) ==
    LET reached == IF s.public_base_url = Nowhere
                   THEN [s EXCEPT !.public_base_url = Loopback] ELSE s
    IN  [reached EXCEPT
           !.authentik_url =
               IF UsesAuthentik(s) /\ @ = Nowhere THEN Loopback ELSE @,
           !.smtp_host = @ /\ UsesAuthentik(s),
           !.reverse_proxy_hostname =
               IF WritesProxy(s) THEN ProxyHostName(reached) ELSE @]

(* _generate_unattended and _finalise: what must exist is generated...      *)
Needed(s) ==
    {"redis_password", "purge_token", "purge_signing_key", "export_signing_key"}
        \cup Given(s.admin_enabled, {"admin_proxy_secret"})
        \cup Given(s.audit_log, {"audit_salt"})
        \cup Given(s.encrypt_results, {"encryption_key"})
        \cup Given(UsesAuthentik(s), ProviderCredentials)

(* ... and what a provider that is not there, or a mail server without an   *)
(* account, would have needed is dropped.                                   *)
Dropped(s) ==
    Given(~UsesAuthentik(s), ProviderCredentials)
        \cup Given(~UsesAuthentik(s) \/ ~s.smtp_auth, {"smtp_password"})

WithCredentials(s, credentials) ==
    LET all == s.typed ++ credentials ++ [k \in Needed(s) |-> "random"]
    IN  Restrict(all, KeysOf(all) \ Dropped(s))

(* Mutant: every credential of the run is written.                          *)
DotEnvOfAll(s, credentials) == credentials

(* render_env_file: the credentials whose question still has a point.       *)
DotEnv(s, credentials) ==
    Restrict(credentials, {k \in KeysOf(credentials) : Relevant(k, s)})

-----------------------------------------------------------------------------
(* The compose file: which credential each container refers to.             *)
EncryptionReads(s) == Given(s.encrypt_results, {"encryption_key"})
ReleaseReads(s) == Given(s.releases_mode # "off", {"releases_token"})

Reads(s) ==
    [web |->
        {"redis_password", "purge_token", "purge_signing_key", "export_signing_key"}
            \cup ReleaseReads(s) \cup EncryptionReads(s)
            \cup Given(s.enable_mcp /\ UsesAuthentik(s), {"authentik_client_id"})
            \cup Given(s.admin_enabled, {"admin_proxy_secret"})
            \cup Given(s.audit_log, {"audit_salt"}),
     worker |-> {"redis_password"} \cup ReleaseReads(s) \cup EncryptionReads(s),
     redis |-> {"redis_password"},
     provider |->
        Given(UsesAuthentik(s),
              ProviderCredentials \cup Given(s.smtp_host, {"smtp_password"})),
     proxy |-> Given(ProxyForwardsAuth(s), {"admin_proxy_secret"})]

ReadBySomebody(s) == UNION {Reads(s)[c] : c \in DOMAIN Reads(s)}

(* Those that may be left empty.                                            *)
Optional == {"releases_token", "smtp_password"}

ProviderVolumes ==
    {"authentik_database", "authentik_media", "authentik_templates",
     "authentik_certs"}

(* _audit_mount, _redis_mount, _authentik_services: the named volumes.      *)
Mounted(s) ==
    Given(KeepsAuditFile(s), {IF BindsAudit(s) THEN "directory" ELSE "audit"})
        \cup Given(PersistsRedis(s), {IF BindsRedis(s) THEN "directory" ELSE "redis"})
        \cup Given(UsesAuthentik(s), ProviderVolumes)

(* _volumes_block.                                                          *)
Declared(s) ==
    Given(KeepsAuditFile(s) /\ ~BindsAudit(s), {"audit"})
        \cup Given(PersistsRedis(s) /\ ~BindsRedis(s), {"redis"})
        \cup Given(UsesAuthentik(s), ProviderVolumes)

-----------------------------------------------------------------------------
(* The proxy: where it sends a request for a path or for another site, and  *)
(* what it does with it.                                                    *)
Route(path, to, does) == [path |-> path, to |-> to, does |-> does]

(* Traefik streams whatever it passes on.                                   *)
CatchAll(s) ==
    Route("/", "web", Given(s.reverse_proxy = "traefik", {"streams"}))

StreamRoutes(s) ==
    Given(s.enable_mcp /\ s.reverse_proxy # "traefik",
         {Route("/mcp", "web", {"streams"})})

AdminRoutes(s) ==
    Given(ProxyForwardsAuth(s),
         {Route("/admin", "web",
                {"asks the outpost", "adds the secret", "streams"}),
          Route("/outpost", "provider", {})})

AuthentikSite(s) ==
    Given(ProxyServesAuthentik(s),
         {Route(AuthentikProxyHostName(s), "provider", {})})

Routes(s) ==
    Given(WritesProxy(s),
         {CatchAll(s)} \cup StreamRoutes(s) \cup AdminRoutes(s) \cup AuthentikSite(s))

RouteOf(path, s) ==
    LET own == {r \in Routes(s) : r.path = path}
    IN  IF own # {} THEN CHOOSE r \in own : TRUE ELSE CatchAll(s)

-----------------------------------------------------------------------------
(* What the web service is told of the sign-in.  The keys of the bundled    *)
(* provider are fetched inside the stack.                                   *)
Issuer(s) == IF UsesAuthentik(s) THEN s.authentik_url ELSE s.mcp_auth_issuer

Keys(s) ==
    IF UsesAuthentik(s) THEN <<"http", "authentik-server">>
    ELSE IF s.mcp_auth_jwks_url # Nowhere THEN s.mcp_auth_jwks_url
    ELSE Issuer(s)

Resource(s) ==
    IF UsesAuthentik(s) \/ s.mcp_auth_resource_url = Nowhere
    THEN s.public_base_url
    ELSE s.mcp_auth_resource_url

HasAudience(s, credentials) ==
    IF UsesAuthentik(s) THEN "authentik_client_id" \in KeysOf(credentials)
    ELSE s.mcp_auth_audience

(* Neither HTTPS nor loopback.                                              *)
InTheClear(address) ==
    address # Nowhere /\ address[1] = "http" /\ HostName(address) # "localhost"

Short(k, credentials) == k \in KeysOf(credentials) /\ credentials[k] = "short"

Reasons ==
    {"no issuer", "issuer in the clear", "keys in the clear", "no resource",
     "resource in the clear", "no audience", "no secret", "short secret",
     "nobody named", "short token", "nothing to approve", "no name to approve",
     "no key"}

(* ensure_mcp_auth_ready, ensure_admin_ready, ensure_purge_token_ready,     *)
(* ensure_approval_ready, ensure_encryption_ready.                          *)
Refusal(reason, s, credentials) ==
    CASE reason = "no issuer"      -> SignsIn(s) /\ Issuer(s) = Nowhere
      [] reason = "issuer in the clear"   -> SignsIn(s) /\ InTheClear(Issuer(s))
      [] reason = "keys in the clear"     -> SignsIn(s) /\ InTheClear(Keys(s))
      [] reason = "no resource"    -> SignsIn(s) /\ Resource(s) = Nowhere
      [] reason = "resource in the clear" -> SignsIn(s) /\ InTheClear(Resource(s))
      [] reason = "no audience"    -> SignsIn(s) /\ ~HasAudience(s, credentials)
      [] reason = "no secret"      ->
            s.admin_enabled /\ "admin_proxy_secret" \notin KeysOf(credentials)
      [] reason = "short secret"   ->
            s.admin_enabled /\ Short("admin_proxy_secret", credentials)
      [] reason = "nobody named"   -> s.admin_enabled /\ ~s.admin_users
      [] reason = "short token"    -> Short("purge_token", credentials)
      [] reason = "nothing to approve"    ->
            s.require_approval /\ ~s.approved_targets /\ ~s.approval_dns
      [] reason = "no name to approve"    ->
            s.require_approval /\ s.approval_dns /\ s.public_base_url = Nowhere
      [] reason = "no key"         ->
            s.encrypt_results /\ "encryption_key" \notin KeysOf(credentials)

Refusals(s, credentials) == {r \in Reasons : Refusal(r, s, credentials)}

(* check_consistency, of what is refused at startup ...                     *)
Warning(reason, s, credentials) ==
    CASE reason = "no issuer"    ->
            SignsIn(s) /\ ~UsesAuthentik(s) /\ s.mcp_auth_issuer = Nowhere
      [] reason = "no audience"  ->
            SignsIn(s) /\ ~UsesAuthentik(s) /\ ~s.mcp_auth_audience
      [] reason = "no resource"  ->
            /\ s.mcp_auth_enabled
            /\ {s.public_base_url, s.mcp_auth_resource_url} = {Nowhere}
      [] reason \in {"nobody named", "nothing to approve", "no name to approve",
                     "no key"}   -> Refusal(reason, s, credentials)
      [] OTHER -> FALSE

Warnings(s, credentials) == {r \in Reasons : Warning(r, s, credentials)}

(* ... and of what the proxy will not reach.                                *)
WarnsOfTheArea(s) == s.admin_enabled /\ WritesProxy(s) /\ ~ProxyForwardsAuth(s)
WarnsOfTheSite(s) ==
    WritesProxy(s) /\ UsesAuthentik(s) /\ AuthentikProxyHostName(s) = ""

-----------------------------------------------------------------------------
StackInit ==
    /\ stackStep = "nothing"
    /\ answers = NoAnswers
    /\ held = NoCredentials
    /\ dotenv = NoCredentials

(* main up to the summary: the credentials that exist, the answers, what    *)
(* they imply.                                                              *)
RunWizard ==
    /\ stackStep = "nothing"
    /\ stackStep' = "summary"
    /\ \E s \in StackAnswers :
          /\ answers' = Finalised(s)
          /\ held' = WithCredentials(s, dotenv)
    /\ ~StorageConflict(answers')
    /\ UNCHANGED dotenv

(* write_files, compose file and .env.                                      *)
WriteStack ==
    /\ stackStep = "summary"
    /\ stackStep' = "written"
    /\ dotenv' = DotEnv(answers, held)
    /\ held' = NoCredentials
    /\ UNCHANGED answers

(* docker compose up: create_app comes up, or says why it will not.         *)
StartStack ==
    /\ stackStep = "written"
    /\ stackStep' = IF Refusals(answers, dotenv) = {} THEN "up" ELSE "refused"
    /\ UNCHANGED <<answers, held, dotenv>>

(* "Turning this to true and restarting is the whole of switching it on."   *)
SwitchSignInOn ==
    /\ stackStep = "up"
    /\ UsesAuthentik(answers)
    /\ answers.enable_mcp
    /\ ~answers.mcp_auth_enabled
    /\ stackStep' = "written"
    /\ answers' = [answers EXCEPT !.mcp_auth_enabled = TRUE]
    /\ UNCHANGED <<held, dotenv>>

(* A later run of the wizard replaces the stack; it starts from .env.       *)
TakeDown ==
    /\ stackStep \in {"up", "refused"}
    /\ stackStep' = "nothing"
    /\ answers' = NoAnswers
    /\ UNCHANGED <<held, dotenv>>

StackNext ==
    \/ RunWizard
    \/ WriteStack
    \/ StartStack
    \/ SwitchSignInOn
    \/ TakeDown

StackSpec == StackInit /\ [][StackNext]_stackVars

-----------------------------------------------------------------------------
(* Every credential a container or the proxy cannot do without is in .env,  *)
(* and none that nobody reads.                                              *)
CredentialsMeetTheirReaders ==
    /\ KeysOf(dotenv) \subseteq ReadBySomebody(answers)
    /\ ReadBySomebody(answers) \ Optional \subseteq KeysOf(dotenv)

VolumesAreDeclared == Mounted(answers) \ {"directory"} = Declared(answers)

(* The secret that makes identity headers believable is added only to what  *)
(* the outpost was asked about, and the outpost can be asked; a stream is   *)
(* not buffered; an area or a provider the proxy does not reach is foretold. *)
ProxyKeepsTheAreaClosed ==
    LET leadsTo(path) == RouteOf(path, answers) IN
    /\ \A r \in Routes(answers) :
         "adds the secret" \in r.does =>
             /\ "asks the outpost" \in r.does
             /\ leadsTo("/outpost").to = "provider"
    /\ WritesProxy(answers) =>
         /\ answers.enable_mcp => "streams" \in leadsTo("/mcp").does
         /\ answers.admin_enabled =>
                \/ "adds the secret" \in leadsTo("/admin").does
                \/ WarnsOfTheArea(answers)
         /\ UsesAuthentik(answers) =>
                \/ leadsTo(HostName(answers.authentik_url)).to = "provider"
                \/ WarnsOfTheSite(answers)

(* Of what is refused at startup only addresses in the clear and typed      *)
(* credentials that are too short were not foretold.                        *)
Unforetold ==
    {"issuer in the clear", "keys in the clear", "resource in the clear",
     "short secret", "short token"}

MostRefusalsAreForetold ==
    stackStep = "refused" =>
        Refusals(answers, dotenv)
            \subseteq Warnings(answers, dotenv) \cup Unforetold

(* The files the wizard writes fit together, whatever earlier runs left in  *)
(* .env: compose file, credentials, volumes, proxy and the service that     *)
(* starts on them (setup-wizard.py, write_files).                           *)
StackHoldsTogether ==
    stackStep \in {"written", "up", "refused"} =>
        /\ CredentialsMeetTheirReaders
        /\ VolumesAreDeclared
        /\ ProxyKeepsTheAreaClosed
        /\ MostRefusalsAreForetold

(* "The service itself refuses to start on the ones that matter - but       *)
(* saying so now is cheaper" (setup-wizard.py, check_consistency): a stack  *)
(* that does not start was warned of, each reason of it.                    *)
RefusalIsForetold ==
    stackStep = "refused" =>
        Refusals(answers, dotenv) \subseteq Warnings(answers, dotenv)
=============================================================================
