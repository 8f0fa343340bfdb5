------------------------------ MODULE Transport ------------------------------
(***************************************************************************)
(* opencloud_local_scan/tls.py: what an inspection makes of one endpoint,  *)
(* and the checks it answers.  An endpoint is the protocols it speaks, its *)
(* cipher and its certificate; what OpenSSL is needed for may be unknown.  *)
(***************************************************************************)
EXTENDS Merging

CONSTANT Silent         \* the answer of a request that had none

(* What a certificate may be found to be; no certificate is read where the  *)
(* endpoint completes no handshake.                                         *)
Certificates ==
    [issuer    : {"public", "staging", "self", "unknown"},
     whole     : BOOLEAN,                       \* the intermediates are sent
     covers    : BOOLEAN,                       \* names the host
     validity  : {"expired", "closing", "long"},
     longLived : BOOLEAN,
     policy    : {"unknown", "strong", "weak"}, \* key and signature
     stamps    : {"unknown", "none", "some"},   \* certificate transparency
     responder : BOOLEAN]                       \* names an OCSP responder

Endpoints ==
    [speaks : SUBSET {"legacy", "modern"} \ {{}},
     cipher : {"forward", "static", "weak"},
     staple : {"unknown", "missing", "sent"},
     early  : {"unknown", "refused", "accepted"},
     cert   : Certificates]

-----------------------------------------------------------------------------
(* The first thing a verifying client objects to: the chain, then the name, *)
(* then the dates.                                                          *)
Objection(cert) ==
    IF cert.issuer = "self" THEN "self"
    ELSE IF cert.issuer # "public" \/ ~cert.whole THEN "issuer"
    ELSE IF ~cert.covers THEN "name"
    ELSE IF cert.validity = "expired" THEN "dates"
    ELSE "none"

(* trusted: unknown where no handshake got as far as the certificate.       *)
Trust(ep) ==
    IF "modern" \notin ep.speaks THEN "unknown"
    ELSE IF Objection(ep.cert) = "none" THEN "trusted"
    ELSE "refused"

(* _connect with the contexts of inspect: a modern one, else the old        *)
(* versions one by one.                                                     *)
Protocol(ep) == IF "modern" \in ep.speaks THEN "modern" ELSE "legacy"

(* covers_hostname is asked whatever else is wrong with the certificate.    *)
HostnameVerdict(ep) == Trust(ep) = "trusted" \/ ep.cert.covers

(* _chain_verdict.                                                          *)
ChainVerdict(ep) ==
    CASE Trust(ep) = "unknown" \/ Objection(ep.cert) = "self" -> "unknown"
      [] Trust(ep) # "unknown" /\ Objection(ep.cert) = "issuer" -> "broken"
      [] OTHER -> "complete"

-----------------------------------------------------------------------------
(* One check, left out where it was not decided.                            *)
Unless(undecided, check, passed) == IF undecided THEN <<>> ELSE Only(check, passed)

CertificateChecks(cert) ==
    [tlsCertificate         |-> cert.validity = "long",
     tlsCertificateLifetime |-> ~cert.longLived]
        ++ Unless(cert.policy = "unknown", "tlsCertificatePolicy", cert.policy = "strong")

(* Only asked of a chain that reaches a public root.                        *)
TransparencyCheck(ep) ==
    Unless(ep.cert.stamps = "unknown" \/ Trust(ep) # "trusted",
           "tlsCertificateTransparency", ep.cert.stamps = "some")

OcspCheck(ep) ==
    Unless(~ep.cert.responder \/ ep.staple = "unknown",
           "tlsOcspStapling", ep.staple = "sent")

EarlyDataCheck(ep) ==
    Unless(ep.early = "unknown", "tlsEarlyData", ep.early = "refused")

(* TlsInspection.checks of inspect; verifying is what the operator asked.   *)
TlsChecks(ep, verifying) ==
    IF ep = Silent THEN [tlsHandshake |-> FALSE]
    ELSE [tlsHandshake          |-> TRUE,
          tlsProtocol           |-> Protocol(ep) = "modern",
          tlsDeprecatedProtocol |-> "legacy" \notin ep.speaks,
          tlsHostname           |-> HostnameVerdict(ep),
          tlsCipherSuite        |-> ep.cipher = "forward"]
       ++ Unless(Trust(ep) = "unknown", "tlsTrusted",
                 Trust(ep) = "trusted" \/ ~verifying)
       ++ Unless(ChainVerdict(ep) = "unknown", "tlsChain", ChainVerdict(ep) = "complete")
       ++ CertificateChecks(ep.cert)
       ++ OcspCheck(ep)
       ++ TransparencyCheck(ep)
       ++ EarlyDataCheck(ep)

(* _address_parity_finding: one endpoint of each family presents the same.  *)
SameIdentity(a, b) ==
    /\ a # Silent /\ b # Silent
    /\ <<Protocol(a), a.cipher, Trust(a), a.cert>>
         = <<Protocol(b), b.cipher, Trust(b), b.cert>>

=============================================================================
