------------------------------ MODULE SetupAnswers ------------------------------
(***************************************************************************)
(* What follows from the answers of the Docker setup wizard                *)
(* (docker/setup-wizard.py): the predicates that decide which questions    *)
(* have a point and which containers, files and directories are written.   *)
(* SetupWizard walks the questions with them, WizardStack writes the files. *)
(*                                                                         *)
(* An answer is a field of a record.  An address is <<scheme, host>> and a *)
(* directory a sequence of names; <<>> is neither.                         *)
(***************************************************************************)
EXTENDS SequencesExt, Integers, Merging

Nowhere == <<>>
Loopback == <<"http", "localhost">>

HostName(address) == IF address = Nowhere THEN "" ELSE address[2]

-----------------------------------------------------------------------------
SignsIn(s) == s.enable_mcp /\ s.mcp_auth_enabled
SignInWanted(s) == SignsIn(s) \/ s.admin_enabled
WantsAProvider(s) == s.enable_mcp \/ s.admin_enabled
UsesAuthentik(s) == s.deploy_authentik /\ WantsAProvider(s)
GuardsTheAdminArea(s) == s.admin_enabled /\ UsesAuthentik(s)

(* _offer_authentik: the provider is the default once a sign-in is wanted.  *)
Offer(before, s) ==
    [s EXCEPT !.deploy_authentik = @ \/ (SignInWanted(s) /\ ~SignInWanted(before))]

-----------------------------------------------------------------------------
ForwardAuthProxies == {"nginx", "caddy", "traefik"}
ProxiesWithCertificates == {"nginx", "apache"}

WritesProxy(s) == s.reverse_proxy # "none"
ProxyForwardsAuth(s) ==
    GuardsTheAdminArea(s) /\ s.reverse_proxy \in ForwardAuthProxies

(* The recorded name, or the one of the public address.                     *)
ProxyHostName(s) ==
    IF s.reverse_proxy_hostname # "" THEN s.reverse_proxy_hostname
    ELSE IF s.public_base_url # Nowhere THEN HostName(s.public_base_url)
    ELSE "localhost"

(* The provider wants a public name, and one of its own.                    *)
AuthentikProxyHostName(s) ==
    LET host == HostName(s.authentik_url)
    IN  IF host \in {"localhost", ProxyHostName(s)} THEN "" ELSE host

ProxyServesAuthentik(s) ==
    WritesProxy(s) /\ UsesAuthentik(s) /\ AuthentikProxyHostName(s) # ""

-----------------------------------------------------------------------------
(* _binds_a_directory: a directory that was not named is a named volume.    *)
BindsADirectory(storage, path) == storage = "filesystem" /\ path # <<>>

KeepsAuditFile(s) == s.audit_log /\ s.audit_storage # "none"
PersistsRedis(s) == s.redis_persistence # "none"
BindsAudit(s) == BindsADirectory(s.audit_storage, s.audit_log_path)
BindsRedis(s) == BindsADirectory(s.redis_persistence, s.redis_data_path)

-----------------------------------------------------------------------------
ProviderAnswers ==
    {"authentik_url", "authentik_accounts", "authentik_secret_key",
     "authentik_pg_password", "authentik_client_id", "authentik_client_secret",
     "authentik_bootstrap_password", "authentik_enrollment_token"}

MailAnswers == {"smtp_host", "smtp_auth", "smtp_username", "smtp_password"}

TokenAnswers ==
    {"mcp_auth_issuer", "mcp_auth_audience", "mcp_auth_scopes",
     "mcp_auth_jwks_url", "mcp_auth_resource_url"}

MailRelevant(q, s) ==
    /\ UsesAuthentik(s)
    /\ q # "smtp_host" => s.smtp_host
    /\ q \in {"smtp_username", "smtp_password"} => s.smtp_auth

(* _relevant: whether a question has a point - and whether a credential is  *)
(* written to .env.                                                         *)
Relevant(q, s) ==
    CASE q = "mcp_auth_enabled"     -> s.enable_mcp
      [] q \in {"admin_users", "admin_proxy_secret"} -> s.admin_enabled
      [] q = "deploy_authentik"     -> WantsAProvider(s)
      [] q \in ProviderAnswers      -> UsesAuthentik(s)
      [] q \in MailAnswers          -> MailRelevant(q, s)
      [] q \in TokenAnswers         ->
            SignsIn(s) /\ (q = "mcp_auth_scopes" \/ ~UsesAuthentik(s))
      [] q = "reverse_proxy_hostname" -> WritesProxy(s)
      [] q = "reverse_proxy_tls"    -> s.reverse_proxy \in ProxiesWithCertificates
      [] q = "releases_token"       -> s.releases_mode # "off"
      [] q \in {"approved_targets", "approval_dns"} -> s.require_approval
      [] q \in {"audit_storage", "audit_salt"}      -> s.audit_log
      [] q \in {"audit_log_path", "audit_rotation"} ->
            s.audit_log /\ s.audit_storage = "filesystem"
      [] q = "redis_data_path"      -> s.redis_persistence = "filesystem"
      [] q = "encryption_key"       -> s.encrypt_results
      [] OTHER                      -> TRUE

(* _storage_conflict: one directory, or one inside the other.               *)
StorageConflict(s) ==
    /\ KeepsAuditFile(s) /\ BindsAudit(s)
    /\ BindsRedis(s)
    /\ \/ IsPrefix(s.audit_log_path, s.redis_data_path)
       \/ IsPrefix(s.redis_data_path, s.audit_log_path)
=============================================================================
