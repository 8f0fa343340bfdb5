----------------------------- MODULE MCWizardStack -----------------------------
(***************************************************************************)
(* Groups of answers that belong together, each over defaults for the rest; *)
(* runs of the wizard follow each other across the groups.                 *)
(***************************************************************************)
EXTENDS WizardStack

Site(scheme) == <<scheme, "scan">>
Sso(scheme) == <<scheme, "sso">>

(* A service with a public address, and nothing else switched on.           *)
DefaultAnswers ==
    [public_base_url |-> Site("https"), enable_mcp |-> FALSE,
     mcp_auth_enabled |-> FALSE, mcp_auth_issuer |-> Nowhere,
     mcp_auth_audience |-> FALSE, mcp_auth_jwks_url |-> Nowhere,
     mcp_auth_resource_url |-> Nowhere, admin_enabled |-> FALSE,
     admin_users |-> TRUE, deploy_authentik |-> FALSE, authentik_url |-> Nowhere,
     smtp_host |-> FALSE, smtp_auth |-> FALSE, reverse_proxy |-> "none",
     reverse_proxy_hostname |-> "", audit_log |-> FALSE, audit_storage |-> "none",
     audit_log_path |-> <<>>, redis_persistence |-> "none",
     redis_data_path |-> <<>>, encrypt_results |-> FALSE,
     releases_mode |-> "off", require_approval |-> FALSE,
     approved_targets |-> FALSE, approval_dns |-> FALSE, typed |-> NoCredentials]

WithDefaults(S) == {a @@ DefaultAnswers : a \in S}

Typed(k, strength) == {NoCredentials, k :> strength}

SignInAnswers ==
    [public_base_url       : {Nowhere, Site("http"), Site("https")},
     enable_mcp            : {TRUE},
     mcp_auth_enabled      : BOOLEAN,
     mcp_auth_issuer       : {Nowhere, Sso("http"), Sso("https")},
     mcp_auth_audience     : BOOLEAN,
     mcp_auth_jwks_url     : {Nowhere, Sso("http")},
     mcp_auth_resource_url : {Nowhere, Site("http")},
     deploy_authentik      : BOOLEAN,
     authentik_url         : {Nowhere, Sso("http"), Sso("https")}]

AreaAnswers ==
    [admin_enabled    : BOOLEAN,
     enable_mcp       : BOOLEAN,
     deploy_authentik : BOOLEAN,
     authentik_url    : {Nowhere, Site("https"), Sso("https")},
     reverse_proxy    : {"none", "apache"} \cup ForwardAuthProxies,
     typed            : Typed("admin_proxy_secret", "short")]

MailAnswerSets ==
    [admin_enabled    : BOOLEAN,
     admin_users      : BOOLEAN,
     deploy_authentik : BOOLEAN,
     smtp_host        : BOOLEAN,
     smtp_auth        : BOOLEAN,
     typed            : Typed("smtp_password", "random")]

StorageAnswers ==
    [audit_log         : BOOLEAN,
     audit_storage     : {"none", "volume", "filesystem"},
     audit_log_path    : {<<>>, <<"audit">>},
     redis_persistence : {"none", "volume", "filesystem"},
     redis_data_path   : {<<>>, <<"redis">>, <<"audit", "redis">>},
     encrypt_results   : BOOLEAN]

OtherAnswers ==
    [require_approval : BOOLEAN,
     approved_targets : BOOLEAN,
     approval_dns     : BOOLEAN,
     releases_mode    : {"off", "auto"},
     typed            : Typed("purge_token", "short")
                            \cup Typed("releases_token", "random")]

AllAnswers ==
    UNION {WithDefaults(SignInAnswers), WithDefaults(AreaAnswers),
           WithDefaults(MailAnswerSets), WithDefaults(StorageAnswers),
           WithDefaults(OtherAnswers)}

(* The bundled provider at a public address, and nothing typed.             *)
BundledProvider ==
    WithDefaults([enable_mcp : {TRUE}, mcp_auth_enabled : BOOLEAN,
                  deploy_authentik : {TRUE}, authentik_url : {Sso("https")}])
=============================================================================
