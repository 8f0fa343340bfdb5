------------------------------- MODULE MCScanRun -------------------------------
(***************************************************************************)
(* The scans TLC looks at: instances that depart in one answer from one    *)
(* where all is well, or from one where nothing is, with none, some or all *)
(* other requests lost; and every combination of settings on these two.    *)
(***************************************************************************)
EXTENDS ScanRun

GoodCookie == [secure |-> TRUE, httpOnly |-> TRUE, sameSite |-> TRUE,
               prefix |-> "host", wide |-> FALSE]

GoodPage == [hsts |-> "eligible", csp |-> "nonced", framing |-> "header",
             isolated |-> TRUE, cookies |-> {GoodCookie}, server |-> "proxy",
             index |-> FALSE]

GoodCertificate ==
    [issuer |-> "public", whole |-> TRUE, covers |-> TRUE, validity |-> "long",
     longLived |-> FALSE, policy |-> "strong", stamps |-> "some", responder |-> TRUE]

GoodEndpoint == [speaks |-> {"modern"}, cipher |-> "forward", staple |-> "sent",
                 early |-> "refused", cert |-> GoodCertificate]

GoodCapabilities ==
    [version |-> TRUE, sharing |-> TRUE, password |-> "good", expiry |-> "good",
     enumeration |-> "good", policy |-> "good", complexity |-> "good"]

GoodProvider ==
    [detected |-> TRUE, external |-> FALSE, pkce |-> "good", responses |-> "good",
     signing |-> "good", endpoints |-> "good"]

Good ==
    [s \in Sources |->
        CASE s = "status" -> "named"       [] s = "root" -> GoodPage
          [] s = "plain" -> "redirects"    [] s = "capabilities" -> GoodCapabilities
          [] s = "challenge" -> "bearer"   [] s = "provider" -> GoodProvider
          [] s \in {"handshake", "ipv4", "ipv6"} -> GoodEndpoint
          [] s = "webConfig" -> "closed"   [] s = "wopi" -> "secure"
          [] s = "cors" -> "none"          [] s \in {"path", "catchAll"} -> "shell"
          [] s = "webfinger" -> "plain"    [] s \in {"forwardedHost", "forwarded"} -> "ignored"
          [] s = "caa" -> "issuers"        [] s = "dnssec" -> "signed"
          [] s = "backend" -> "other"      [] s = "debugPort" -> Silent
          [] s = "policy" -> "contact"     [] s \in {"apps", "calendar"} -> "present"
          [] OTHER -> "refused"]

Bad ==
    [s \in Sources |->
        CASE s = "status" -> "legacy"
          [] s = "root" ->
               [hsts |-> "short", csp |-> "inline", framing |-> "open",
                isolated |-> FALSE, server |-> "version", index |-> TRUE,
                cookies |-> {GoodCookie, [GoodCookie EXCEPT !.secure = FALSE,
                                          !.httpOnly = FALSE, !.sameSite = FALSE]}]
          [] s = "plain" -> "serves"
          [] s = "challenge" -> "basic"
          [] s = "provider" ->
               [detected |-> TRUE, external |-> TRUE, pkce |-> "weak",
                responses |-> "weak", signing |-> "weak", endpoints |-> "weak"]
          [] s = "capabilities" ->
               [version |-> FALSE, sharing |-> TRUE, password |-> "weak",
                expiry |-> "weak", enumeration |-> "weak", policy |-> "weak",
                complexity |-> "weak"]
          [] s \in {"handshake", "ipv4", "ipv6"} ->
               [speaks |-> {"legacy", "modern"}, cipher |-> "weak", staple |-> "missing",
                early |-> "accepted",
                cert |-> [GoodCertificate EXCEPT !.issuer = "self", !.covers = FALSE,
                          !.validity = "expired", !.longLived = TRUE,
                          !.policy = "weak", !.stamps = "none"]]
          [] s \in {"control"} -> "refused"
          [] s = "demo" -> "account"       [] s = "webConfig" -> "delegated"
          [] s = "wopi" -> "plain"         [] s = "cors" -> "any"
          [] s = "trace" -> "echoed"       [] s = "webfinger" -> "version"
          [] s \in {"forwardedHost", "forwarded"} -> "repeated"
          [] s = "caa" -> "none"           [] s = "dnssec" -> "unsigned"
          [] s = "backend" -> "same"       [] s = "debugPort" -> "open"
          [] s = "policy" -> "shell"       [] s = "storage" -> "index"
          [] s \in {"apps", "calendar"} -> "absent"
          [] s = "catchAll" -> "refused"
          [] OTHER -> "file"]

(* Another value for one field.                                             *)
Vary(record, values) ==
    UNION {{[record EXCEPT ![f] = v] : v \in values[f]} : f \in DOMAIN values}

VaryCertificate(endpoint) ==
    {[endpoint EXCEPT !.cert = c] : c \in
        Vary(endpoint.cert,
             [issuer |-> {"public", "staging", "self"}, whole |-> {FALSE},
              covers |-> BOOLEAN, validity |-> {"expired", "closing"},
              longLived |-> BOOLEAN, policy |-> {"unknown", "weak"},
              stamps |-> {"unknown", "none"}, responder |-> {FALSE}])}

Variants(s, answer) ==
    CASE s = "root" ->
           Vary(answer, [hsts |-> {"none", "short", "long"}, csp |-> {"none", "eval"},
                         framing |-> {"open", "csp"}, isolated |-> BOOLEAN,
                         server |-> {"none", "version"}, index |-> BOOLEAN,
                         cookies |-> {{}, {[GoodCookie EXCEPT !.wide = TRUE]}}])
      [] s = "capabilities" ->
           Vary(answer, [version |-> BOOLEAN, sharing |-> {FALSE},
                         password |-> {"absent", "weak"}, policy |-> {"absent", "weak"}])
      [] s = "provider" ->
           Vary(answer, [detected |-> {FALSE}, external |-> BOOLEAN,
                         pkce |-> Published, responses |-> Published,
                         endpoints |-> {"absent", "weak"}])
      [] s \in {"handshake", "ipv4", "ipv6"} ->
           VaryCertificate(answer)
             \cup Vary(answer, [speaks |-> {{"legacy"}, {"modern"}}, cipher |-> {"static"},
                                staple |-> {"unknown"}, early |-> {"unknown"}])
      [] OTHER -> AnswersTo(s)

Departures(base) ==
    {base} \cup UNION {{[base EXCEPT ![s] = a] : a \in Variants(s, base[s]) \cup {Silent}} :
                       s \in Sources \ {"status"}}
           \cup {[base EXCEPT !["status"] = a] : a \in AnswersTo("status")}

(* What an instance that stops answering leaves unanswered.                 *)
Losses == {{}, {"root"}, {"challenge", "catchAll"}, Sources \ {"status"}}

Losing(says, lost) == [s \in Sources |-> IF s \in lost THEN Silent ELSE says[s]]

Instances(base) ==
    {[says |-> Losing(d, lost), families |-> {"ipv4", "ipv6"}, nodes |-> {base}] :
        d \in Departures(base), lost \in Losses}

Thorough == [verify |-> TRUE, stop |-> FALSE, extra |-> TRUE, ports |-> TRUE,
             everywhere |-> TRUE, ipv6 |-> TRUE,
             waived |-> {"basicAuthDisabled", "exposed", "httpsEnforced"}]

EveryWay == {[s EXCEPT !.waived = w] : s \in
                {[verify |-> v, stop |-> t, extra |-> x, ports |-> p, everywhere |-> w,
                  ipv6 |-> i, waived |-> {}] : v, t, x, p, w, i \in BOOLEAN},
                w \in {{}, Thorough.waived}}

(* One address, two, and two of which one does not answer.                  *)
Addressed(says) ==
    {[says |-> says, families |-> f, nodes |-> n] :
        f \in {{"ipv4"}, {"ipv4", "ipv6"}}, n \in {{}, {Good}, {Silent}}}

ScanCases ==
    {[settings |-> s, instance |-> i] : s \in EveryWay, i \in Addressed(Good)}
        \cup {[settings |-> s, instance |-> i] :
                s \in {Thorough, [Thorough EXCEPT !.verify = FALSE, !.waived = {}]},
                i \in Instances(Good) \cup Instances(Bad)}
=============================================================================
