-------------------------------- MODULE Checks --------------------------------
(***************************************************************************)
(* What each check of opencloud_local_scan/scanner.py makes of what its    *)
(* requests were answered: check |-> passed, empty where it says nothing.  *)
(* e is the answers by request.  One path stands for a family of paths     *)
(* that are judged alike, and so does one port, one header.                *)
(***************************************************************************)
EXTENDS Transport, FiniteSets

Answered(answer) == answer # Silent

(* A finding only some answers allow.                                       *)
When(decided, check, passed) == IF decided THEN Only(check, passed) ELSE <<>>

FailedIn(results) == {c \in DOMAIN results : results[c] = FALSE}

-----------------------------------------------------------------------------
(* What an answer may be.                                                   *)
Cookies == [secure : BOOLEAN, httpOnly : BOOLEAN, sameSite : BOOLEAN,
            prefix : {"none", "host", "secure"}, wide : BOOLEAN]

Pages == [hsts     : {"none", "short", "long", "preload", "eligible"},
          csp      : {"none", "strict", "inline", "nonced", "eval"},
          framing  : {"open", "header", "csp"},     \* what restricts it
          isolated : BOOLEAN,                       \* the advisory headers
          cookies  : SUBSET Cookies,
          server   : {"none", "proxy", "version"},
          index    : BOOLEAN]                       \* a directory listing

Published == {"absent", "good", "weak"}

Capabilities == [version : BOOLEAN, sharing : BOOLEAN, password : Published,
                 expiry : Published, enumeration : Published,
                 policy : Published, complexity : Published]

Providers == [detected : BOOLEAN, external : BOOLEAN, pkce : Published,
              responses : Published, signing : Published, endpoints : Published]

PathAnswers == {"refused", "redirect", "shell", "file"}

Opening == {"root", "capabilities", "challenge", "provider"}

AnswersTo(source) ==
    CASE source = "status"       -> {"named", "legacy"}
      [] source = "root"         -> Pages
      [] source = "capabilities" -> Capabilities
      [] source = "challenge"    -> {"none", "bearer", "basic"}
      [] source = "provider"     -> Providers
      [] source \in {"handshake", "ipv4", "ipv6"} -> Endpoints
      [] source = "plain"        -> {"redirects", "serves"}
      [] source \in {"control", "demo"} -> {"account", "refused"}
      [] source = "webConfig"    -> {"closed", "anyParent", "delegated"}
      [] source = "wopi"         -> {"shell", "plain", "secure"}
      [] source = "cors"         -> {"none", "own", "any"}
      [] source = "trace"        -> {"refused", "echoed"}
      [] source \in {"forwardedHost", "forwarded"} -> {"error", "ignored", "repeated"}
      [] source = "webfinger"    -> {"error", "plain", "version"}
      [] source = "caa"          -> {"issuers", "none"}
      [] source = "dnssec"       -> {"signed", "unsigned", "unaware"}
      [] source = "backend"      -> {"same", "other"}
      [] source = "debugPort"    -> {"open"}
      [] source = "policy"       -> {"contact", "shell"}
      [] source = "storage"      -> {"refused", "index"}
      [] source \in {"apps", "calendar"} -> {"present", "absent"}
      [] OTHER                   -> PathAnswers

Sources ==
    {"status", "plain", "apps", "calendar", "policy", "handshake", "ipv4", "ipv6",
     "caa", "dnssec", "protected", "control", "demo", "path", "catchAll", "wopi",
     "console", "storage", "debugEndpoint", "webConfig", "cors", "trace",
     "forwardedHost", "forwarded", "debugPort", "backend", "webfinger"}
    \cup Opening

ASSUME SilenceIsNoAnswer == \A s \in Sources : Silent \notin AnswersTo(s)

-----------------------------------------------------------------------------
(* _check_headers: FALSE as well for a page that was never read; a policy   *)
(* that restricts framing stands in for X-Frame-Options.                    *)
Headers(e) ==
    LET page == e["root"]
    IN Only("Strict-Transport-Security", Answered(page) /\ page.hsts # "none")
       ++ Only("Content-Security-Policy", Answered(page) /\ page.csp # "none")
       ++ Only("X-Frame-Options", Answered(page) /\ page.framing # "open")

AdvisoryHeaders(e) ==
    Only("Cross-Origin-Opener-Policy", Answered(e["root"]) /\ e["root"].isolated)

(* _check_advisory_checks.                                                  *)
AdvisoryChecks(e) ==
    [securityTxtPublished |-> e["policy"] = "contact",
     hstsPreloadEligible  |-> Answered(e["root"]) /\ e["root"].hsts = "eligible"]

(* _check_https: a silent port 80 enforces, where HTTPS is used.            *)
HttpsEnforced(e, way) ==
    [httpsEnforced |-> IF Answered(e["plain"]) THEN e["plain"] = "redirects"
                       ELSE way # "plain"]

CookieHonoursPrefix(cookie) ==
    cookie.secure /\ (cookie.prefix = "host" => ~cookie.wide)

CookieFindings(e) ==
    IF ~Answered(e["root"]) \/ e["root"].cookies = {} THEN <<>>
    ELSE LET set == e["root"].cookies
             prefixed == {c \in set : c.prefix # "none"}
         IN [cookieSecure   |-> \A c \in set : c.secure,
             cookieHttpOnly |-> \A c \in set : c.httpOnly,
             cookieSameSite |-> \A c \in set : c.sameSite,
             cookiePrefix   |-> prefixed # {}
                                  /\ \A c \in prefixed : CookieHonoursPrefix(c)]

ReverseProxyFinding(e) ==
    [reverseProxyDetected |-> Answered(e["root"]) /\ e["root"].server # "none"]

DisclosureFindings(e) ==
    When(Answered(e["root"]), "versionDisclosure", e["root"].server # "version")

-----------------------------------------------------------------------------
(* derive_hardenings: what was not published is left out.                   *)
PageHardenings(page) ==
    IF ~Answered(page) THEN <<>>
    ELSE When(page.hsts # "none", "hstsLongMaxAge", page.hsts # "short")
         ++ When(page.hsts # "none", "hstsPreload", page.hsts \in {"preload", "eligible"})
         ++ When(page.csp # "none", "cspWithoutUnsafeInline",
                 page.csp \notin {"inline", "eval"})

(* _authentication_challenge: no answer and no header are one.              *)
Challenged(e) == e["challenge"] \in {"bearer", "basic"}

ChallengeHardening(e) ==
    When(Challenged(e), "basicAuthDisabled", e["challenge"] # "basic")

(* Nothing of a document is rated that says nothing of sharing.             *)
CapabilityHardenings(caps) ==
    IF ~Answered(caps) THEN <<>>
    ELSE LET Rate(check, value) ==
               When(caps.sharing /\ value # "absent", check, value = "good")
         IN Rate("publicLinkPasswordEnforced", caps.password)
            ++ Rate("publicLinkExpirationEnforced", caps.expiry)
            ++ Rate("userEnumerationRestricted", caps.enumeration)
            ++ Rate("passwordPolicyEnforced", caps.policy)
            ++ Rate("passwordPolicyComplexity", caps.complexity)

Detected(e) == Answered(e["provider"]) /\ e["provider"].detected
External(e) == Detected(e) /\ e["provider"].external

(* The built-in provider cannot be told which responses to offer; whether   *)
(* addresses are HTTPS is only asked of an instance reached that way.       *)
OpenidHardenings(e, way) ==
    IF ~Detected(e) THEN <<>>
    ELSE LET provider == e["provider"]
             Rate(check, value) == When(value # "absent", check, value = "good")
         IN Rate("oidcPkceSupported", provider.pkce)
            ++ Rate("oidcSigningAlgorithmStrong", provider.signing)
            ++ (IF External(e) THEN Rate("oidcImplicitFlowDisabled", provider.responses)
                ELSE <<>>)
            ++ (IF way # "plain" THEN Rate("oidcEndpointsUseHttps", provider.endpoints)
                ELSE <<>>)

Hardenings(e, way) ==
    PageHardenings(e["root"]) ++ ChallengeHardening(e)
        ++ CapabilityHardenings(e["capabilities"]) ++ OpenidHardenings(e, way)

-----------------------------------------------------------------------------
(* A finding for an answer nobody gave as well: it passes.                  *)
BasicAuthFinding(e) == [basicAuthDisabled |-> e["challenge"] # "basic"]

IdentityProviderFinding(e) == [identityProviderDetected |-> Detected(e)]

(* Asked of the built-in provider only.  An endpoint that answers anybody   *)
(* proves nothing of the accounts.                                          *)
DemoUserFinding(e) ==
    When(Detected(e) /\ ~External(e), "demoUsersDisabled",
         e["control"] = "account" \/ e["demo"] # "account")

AuthenticationFinding(e) ==
    [authentication |-> e["protected"] \in {Silent, "refused", "redirect"}]

(* A page is taken for the catch-all only if a path that cannot exist was   *)
(* answered with it.                                                        *)
Exposes(answer, control) ==
    answer = "file" \/ (answer = "shell" /\ control # "shell")

ExposedPathFinding(e) == [exposed |-> ~Exposes(e["path"], e["catchAll"])]
DebugEndpointFinding(e) == [debugEndpoint |-> ~Exposes(e["debugEndpoint"], e["catchAll"])]

(* Nothing is said of an editor that is not published here.                 *)
CompanionFindings(e) ==
    IF e["wopi"] \in {Silent, "shell"} THEN <<>>
    ELSE [companionEditorHttps  |-> e["wopi"] = "secure",
          companionAdminConsole |-> ~Exposes(e["console"], e["catchAll"])]

DirectoryListingFinding(e) ==
    [directoryListing |-> /\ Answered(e["root"]) => ~ e["root"].index
                          /\ e["storage"] # "index"]

WebEmbedFindings(e) ==
    [webEmbedMessageOriginRestricted           |-> e["webConfig"] # "anyParent",
     webEmbedDelegatedAuthenticationRestricted |-> e["webConfig"] # "delegated"]

CorsFinding(e) ==
    When(Answered(e["cors"]), "corsOriginRestricted", e["cors"] # "any")

TraceFinding(e) ==
    When(Answered(e["trace"]), "traceMethodDisabled", e["trace"] # "echoed")

(* Two headers, each asked on its own; one useful answer is enough.         *)
ForwardedHostFinding(e) ==
    LET asked == {e["forwardedHost"], e["forwarded"]}
    IN When(~(asked \subseteq {Silent, "error"}), "forwardedHostIgnored",
            "repeated" \notin asked)

(* The port that was scanned is never its own backend.                      *)
PortFindings(e) ==
    [debugPort         |-> e["debugPort"] # "open",
     backendPortClosed |-> e["backend"] # "same"]

WebfingerFinding(e) ==
    When(e["webfinger"] \in {"plain", "version"}, "webfingerVersionDisclosure",
         e["webfinger"] = "plain")

VersionFindings(known) == When(~ known, "versionDetection", FALSE)

CaaFinding(e) == When(Answered(e["caa"]), "tlsCaaRecord", e["caa"] = "issuers")

(* A resolver that would not have said so decides nothing.                  *)
DnssecAnswered(e) == e["dnssec"] \in {"signed", "unsigned"}
DnssecFinding(e) == When(DnssecAnswered(e), "tlsDnssec", e["dnssec"] = "signed")

-----------------------------------------------------------------------------
VersionOf(e) ==
    IF e["status"] = "named" \/ (Answered(e["capabilities"]) /\ e["capabilities"].version)
    THEN "known" ELSE "unknown"

(* _observe_address, of a node that is reachable.                           *)
Observe(e, way) ==
    [version |-> VersionOf(e), headers |-> Headers(e),
     hardenings |-> Hardenings(e, way),
     demo |-> IF e["control"] = "account" THEN <<>> ELSE DemoUserFinding(e)]

(* Only what both nodes measured is compared.                               *)
Agree(left, right, waived) ==
    \A c \in (DOMAIN left \cap DOMAIN right) \ waived : left[c] = right[c]

(* _content_parity_finding of two nodes.                                    *)
SameContent(one, other, way, waived) ==
    LET a == Observe(one, way)
        b == Observe(other, way)
    IN /\ "version" \in waived \/ a.version = b.version
       /\ Agree(a.headers, b.headers, waived)
       /\ Agree(a.hardenings, b.hardenings, waived)
       /\ Agree(a.demo, b.demo, waived)

=============================================================================
