----------------------------- MODULE Verification -----------------------------
(***************************************************************************)
(* verify.VerifyWithOptions: it walks over the objects in use and judges   *)
(* each that is a signature. For every certificate that came with one it   *)
(* consults up to four sources in turn, each of which may overwrite what   *)
(* the one before it said: the embedded OCSP responses and revocation      *)
(* lists, then the responders and the distribution points the certificate  *)
(* names, which are asked one after the other over the network.            *)
(***************************************************************************)
EXTENDS Evidence

CONSTANTS
  Documents,    \* the documents that may be given
  OptionSets,   \* the options that may be set
  Now           \* the time of the call

ASSUME DocumentsAssumption == Documents \subseteq Document
ASSUME OptionSetsAssumption == OptionSets \subseteq VerifyOptions
ASSUME NowAssumption == Now \in Time

VARIABLES
  document,
  options,
  pc,              \* the next step; "done" when the call has returned
  next,            \* the object being dealt with
  index,           \* the certificate being dealt with
  asked,           \* how many of its responders, or points, have been asked in vain
  cert,            \* what is known of it
  validation,      \* what is known of the signature
  trustedIssuer,
  errorMsg,        \* the kind of error in a signature, "none" if there is none
  response,        \* the response being filled
  outcome          \* "none" until the call returns a "response" or an "error"

signature == <<index, asked, cert, validation, trustedIssuer, errorMsg>>
vars == <<document, options, pc, next, signature, response, outcome>>

\* common.Certificate. warning is the kind of RevocationWarning, "none" if there is none.
CertificateInfo ==
  [verified: BOOLEAN,
   ocspEmbedded: BOOLEAN, ocspExternal: BOOLEAN, ocspExternalChecked: BOOLEAN,
   crlEmbedded: BOOLEAN, crlExternal: BOOLEAN, crlExternalChecked: BOOLEAN,
   revocationTime: Time \union {NoTime}, revokedBeforeSigning: BOOLEAN,
   warning: {"none", "noStatus", "noOCSP", "noCRL"}]

NoCertificateInfo ==
  [verified |-> FALSE,
   ocspEmbedded |-> FALSE, ocspExternal |-> FALSE, ocspExternalChecked |-> FALSE,
   crlEmbedded |-> FALSE, crlExternal |-> FALSE, crlExternalChecked |-> FALSE,
   revocationTime |-> NoTime, revokedBeforeSigning |-> FALSE, warning |-> "none"]

TimeWarnings == {"untrustedStamp", "claimedTime", "revokedAfterSigning", "undated"}

SignatureValidation ==
  [validSignature: BOOLEAN, trustedIssuer: BOOLEAN, revokedCertificate: BOOLEAN,
   certificates: Seq(CertificateInfo),
   timeSource: {"none", "embedded_timestamp", "signature_time", "current_time"},
   verificationTime: Time \union {NoTime}, timestampTrusted: BOOLEAN,
   timeWarnings: SUBSET TimeWarnings]

NoValidation ==
  [validSignature |-> FALSE, trustedIssuer |-> FALSE, revokedCertificate |-> FALSE,
   certificates |-> <<>>, timeSource |-> "none", verificationTime |-> NoTime,
   timestampTrusted |-> FALSE, timeWarnings |-> {}]

Errors ==
  {"none", "byteRange", "timestamp", "digest", "imprint", "parse", "ocspSignature"}

Steps == {"open", "walk", "chains", "certificate", "ocsp", "crl", "askOCSP", "askCRL",
          "warn", "done"}

NoResponse == [error |-> "none", signatures |-> <<>>]

Init ==
  /\ document \in Documents
  /\ options \in OptionSets
  /\ pc = "open"
  /\ next = 1
  /\ index = 0
  /\ asked = 0
  /\ cert = NoCertificateInfo
  /\ validation = NoValidation
  /\ trustedIssuer = FALSE
  /\ errorMsg = "none"
  /\ response = NoResponse
  /\ outcome = "none"

-----------------------------------------------------------------------------
(* The walk over the objects.                                              *)

current == document.objects[next]

\* The reader refuses the document, or there is no form with /SigFlags.
RejectDocument ==
  /\ pc = "open"
  /\ ~ document.opens \/ ~ document.form
  /\ pc' = "done"
  /\ outcome' = "error"
  /\ UNCHANGED <<document, options, next, signature, response>>

Open ==
  /\ pc = "open"
  /\ document.opens /\ document.form
  /\ pc' = "walk"
  /\ UNCHANGED <<document, options, next, signature, response, outcome>>

\* Not a signature, or one whose /Contents is no PKCS#7.
Skippable(entry) ==
  entry.kind \in {"unreadable", "other"} \/ (entry.kind = "Sig" /\ ~ entry.parses)

Skip ==
  /\ pc = "walk"
  /\ next <= Len(document.objects)
  /\ Skippable(current)
  /\ next' = next + 1
  /\ UNCHANGED <<document, options, pc, signature, response, outcome>>

\* A panic of the reader is recovered: nothing that was found is returned.
Recover ==
  /\ pc = "walk"
  /\ next <= Len(document.objects)
  /\ current.kind = "panics"
  /\ pc' = "done"
  /\ response' = NoResponse
  /\ outcome' = "error"
  /\ UNCHANGED <<document, options, next, signature>>

\* Mutant: the error of the last signature is kept, not that of the first.
ReportLastError(v, error) ==
  /\ response' = [error |-> error, signatures |-> Append(response.signatures, v)]
  /\ next' = next + 1
  /\ pc' = "walk"

\* The result of processSignature joins the response, whose error is the first one.
Report(v, error) ==
  /\ response' = [error |-> IF response.error = "none" THEN error ELSE response.error,
                  signatures |-> Append(response.signatures, v)]
  /\ next' = next + 1
  /\ pc' = "walk"

\* What processSignature or processDocTimeStamp finds wrong first, "none" if nothing is.
FirstError(entry) ==
  IF ~ entry.byteRange THEN "byteRange"
  ELSE IF entry.kind = "DocTimeStamp"
  THEN CASE entry.stamp.token = "ok" -> "none"
         [] entry.stamp.token = "mismatch" -> "imprint"
         [] OTHER -> "timestamp"
  ELSE IF entry.stamp.token \in {"unparsable", "mismatch"} THEN "timestamp"
  ELSE IF entry.digest = "neither" THEN "digest"
  ELSE "none"

RejectSignature ==
  /\ pc = "walk"
  /\ next <= Len(document.objects)
  /\ current.kind = "DocTimeStamp" \/ (current.kind = "Sig" /\ current.parses)
  /\ FirstError(current) # "none"
  /\ Report(NoValidation, FirstError(current))
  /\ UNCHANGED <<document, options, signature, outcome>>

AcceptDocTimeStamp ==
  /\ pc = "walk"
  /\ next <= Len(document.objects)
  /\ current.kind = "DocTimeStamp"
  /\ FirstError(current) = "none"
  /\ Report([NoValidation EXCEPT !.validSignature = TRUE,
                                 !.timeSource = "embedded_timestamp"], "none")
  /\ UNCHANGED <<document, options, signature, outcome>>

\* verifySignature accepts, with or without the chain.
VerifySignature ==
  /\ pc = "walk"
  /\ next <= Len(document.objects)
  /\ current.kind = "Sig" /\ current.parses
  /\ FirstError(current) = "none"
  /\ pc' = "chains"
  /\ validation' = [NoValidation EXCEPT !.validSignature = TRUE,
                                        !.trustedIssuer = (current.digest = "chain")]
  /\ UNCHANGED <<document, options, next, index, asked, cert, trustedIssuer, errorMsg,
                 response, outcome>>

Return ==
  /\ pc = "walk"
  /\ next > Len(document.objects)
  /\ pc' = "done"
  /\ outcome' = "response"
  /\ UNCHANGED <<document, options, next, signature, response>>

-----------------------------------------------------------------------------
(* The time at which a signature is judged, and its certificates.          *)

\* validateTimestampCertificate: trusted through the system, or through its own
\* certificates if these may be roots, which is warned of.
StampTrusted(stamp) ==
  stamp.chain = "system" \/ (stamp.chain = "embedded" /\ options.allowUntrustedRoots)

StampWarnings(stamp) == IF stamp.chain = "system" THEN {} ELSE {"untrustedStamp"}

WithTimestamp(v, stamp) ==
  [v EXCEPT !.timeSource = "embedded_timestamp",
            !.verificationTime = stamp.at,
            !.timestampTrusted = options.validateTimestamps /\ StampTrusted(stamp),
            !.timeWarnings = IF options.validateTimestamps THEN StampWarnings(stamp) ELSE {}]

WithClaimedTime(v, claimed) ==
  [v EXCEPT !.timeSource = "signature_time",
            !.verificationTime = claimed,
            !.timeWarnings = {"claimedTime"}]

WithCurrentTime(v) ==
  [v EXCEPT !.timeSource = "current_time", !.verificationTime = Now]

HasTimestamp(entry) == entry.stamp.token = "ok" /\ entry.stamp.at # 0

\* Mutant: only the responses that do not parse are reported, not the lists.
ParseErrorOCSPOnly(entry) ==
  IF \E r \in Range(entry.ocsp) : ~ r.parses THEN "parse" ELSE "none"

ParseError(entry) ==
  IF \E r \in Range(entry.ocsp) \union Range(entry.crl) : ~ r.parses
  THEN "parse" ELSE "none"

\* The first part of buildCertificateChainsWithOptions: the time, and the parsing of
\* what came with the signature, whose errors are reported but stop nothing.
BuildChains ==
  /\ pc = "chains"
  /\ validation' =
       IF HasTimestamp(current) THEN WithTimestamp(validation, current.stamp)
       ELSE IF options.trustSignatureTime /\ current.claimed # NoTime
       THEN WithClaimedTime(validation, current.claimed)
       ELSE WithCurrentTime(validation)
  /\ errorMsg' = ParseError(current)
  /\ trustedIssuer' = FALSE
  /\ index' = 1
  /\ pc' = "certificate"
  /\ UNCHANGED <<document, options, next, asked, cert, response, outcome>>

certificate == current.certificates[index]

\* The chain of the next certificate, to a root of the system or, if that is allowed,
\* to a certificate that came with the signature.
VerifyCertificate ==
  /\ pc = "certificate"
  /\ index <= Len(current.certificates)
  /\ cert' = [NoCertificateInfo EXCEPT !.verified =
                \/ certificate.chain \in {"system", "root"}
                \/ certificate.chain = "embedded" /\ options.allowUntrustedRoots]
  /\ trustedIssuer' = (trustedIssuer \/ certificate.chain \in {"system", "root"})
  /\ pc' = "ocsp"
  /\ UNCHANGED <<document, options, next, index, asked, validation, errorMsg, response, outcome>>

\* isRevokedBeforeSigning: only a time-stamp can show that the signature came first.
IsRevokedBeforeSigning(at, v) ==
  v.timeSource = "embedded_timestamp" => at < v.verificationTime

\* A source revokes the certificate, whatever the sources before it said.
Revoke(c, at) ==
  [c EXCEPT !.revocationTime = at,
            !.revokedBeforeSigning = IsRevokedBeforeSigning(at, validation)]

\* Mutant: what the last source says replaces what the sources before it established.
WithRevocationOverwritten(v, at) ==
  [v EXCEPT !.revokedCertificate = IsRevokedBeforeSigning(at, v)]

WithRevocation(v, at) ==
  IF IsRevokedBeforeSigning(at, v) THEN [v EXCEPT !.revokedCertificate = TRUE]
  ELSE IF v.timeSource = "embedded_timestamp"
  THEN [v EXCEPT !.timeWarnings = @ \union {"revokedAfterSigning"}]
  ELSE [v EXCEPT !.revokedCertificate = TRUE, !.timeWarnings = @ \union {"undated"}]

\* A source has said something of the certificate, which is now c.
Learn(c, status) ==
  IF status.is = "good"
  THEN cert' = c /\ UNCHANGED validation
  ELSE cert' = Revoke(c, status.at) /\ validation' = WithRevocation(validation, status.at)

-----------------------------------------------------------------------------
(* The sources, in the order in which they are consulted.                  *)

\* A response that the issuer did not sign is reported, and believed.
CheckEmbeddedOCSP ==
  /\ pc = "ocsp"
  /\ pc' = "crl"
  /\ IF ResponsesFor(current, certificate) = {}
     THEN UNCHANGED <<cert, validation, errorMsg>>
     ELSE LET resp == ResponseFor(current, certificate)
          IN  /\ Learn([cert EXCEPT !.ocspEmbedded = TRUE], resp.status)
              /\ errorMsg' = IF IssuerInChain(certificate) /\ ~ resp.signed
                             THEN "ocspSignature" ELSE errorMsg
  /\ UNCHANGED <<document, options, next, index, asked, trustedIssuer, response, outcome>>

\* Any embedded list counts for every certificate.
CheckEmbeddedCRL ==
  /\ pc = "crl"
  /\ pc' = "askOCSP"
  /\ IF ListsWith(current, certificate) # {}
     THEN Learn([cert EXCEPT !.crlEmbedded = TRUE],
                [is |-> "revoked", at |-> ListedAt(current, certificate)])
     ELSE /\ cert' = [cert EXCEPT !.crlEmbedded = current.crl # <<>>]
          /\ UNCHANGED validation
  /\ UNCHANGED <<document, options, next, index, asked, trustedIssuer, errorMsg,
                 response, outcome>>

AskForOCSP ==
  options.external /\ ~ cert.ocspEmbedded /\ certificate.ocspServers # <<>>

SkipExternalOCSP ==
  /\ pc = "askOCSP"
  /\ ~ AskForOCSP
  /\ pc' = "askCRL"
  /\ UNCHANGED <<document, options, next, signature, response, outcome>>

\* Mutant: the count of responders asked is kept for the distribution points.
OCSPUnavailableKeepsCount ==
  /\ pc = "askOCSP"
  /\ AskForOCSP
  /\ ~ HasIssuer(certificate) \/ asked = Len(certificate.ocspServers)
  /\ cert' = [cert EXCEPT !.ocspExternalChecked = TRUE]
  /\ pc' = "askCRL"
  /\ UNCHANGED <<document, options, next, index, asked, validation, trustedIssuer, errorMsg,
                 response, outcome>>

\* No issuer is known to put into the request, or no responder is left to ask. A request that
\* cannot be made ends the same way; ocsp.CreateRequest makes one of every key that x509 reads.
OCSPUnavailable ==
  /\ pc = "askOCSP"
  /\ AskForOCSP
  /\ ~ HasIssuer(certificate) \/ asked = Len(certificate.ocspServers)
  /\ cert' = [cert EXCEPT !.ocspExternalChecked = TRUE]
  /\ asked' = 0
  /\ pc' = "askCRL"
  /\ UNCHANGED <<document, options, next, index, validation, trustedIssuer, errorMsg,
                 response, outcome>>

\* Mutant: a responder that does not answer is asked again.
AfterAnswerAskAgain(answer, c, step) ==
  IF answer.got
  THEN Learn(c, answer.status) /\ asked' = 0 /\ pc' = step
  ELSE UNCHANGED <<asked, cert, validation, pc>>

\* A usable answer settles the matter; an error, a timeout or an answer that does not
\* parse leads to the next responder or point.
AfterAnswer(answer, c, step) ==
  IF answer.got
  THEN Learn(c, answer.status) /\ asked' = 0 /\ pc' = step
  ELSE asked' = asked + 1 /\ UNCHANGED <<cert, validation, pc>>

AskResponder ==
  /\ pc = "askOCSP"
  /\ AskForOCSP
  /\ HasIssuer(certificate)
  /\ asked < Len(certificate.ocspServers)
  /\ AfterAnswer(certificate.ocspServers[asked + 1],
                 [cert EXCEPT !.ocspExternal = TRUE, !.ocspExternalChecked = TRUE], "askCRL")
  /\ UNCHANGED <<document, options, next, index, trustedIssuer, errorMsg, response, outcome>>

AskForCRL ==
  options.external /\ ~ cert.crlEmbedded /\ certificate.crlPoints # <<>>

SkipExternalCRL ==
  /\ pc = "askCRL"
  /\ ~ AskForCRL
  /\ pc' = "warn"
  /\ UNCHANGED <<document, options, next, signature, response, outcome>>

CRLUnavailable ==
  /\ pc = "askCRL"
  /\ AskForCRL
  /\ asked = Len(certificate.crlPoints)
  /\ cert' = [cert EXCEPT !.crlExternalChecked = TRUE]
  /\ asked' = 0
  /\ pc' = "warn"
  /\ UNCHANGED <<document, options, next, index, validation, trustedIssuer, errorMsg,
                 response, outcome>>

\* A list that was fetched settles it, revoked or not.
AskDistributionPoint ==
  /\ pc = "askCRL"
  /\ AskForCRL
  /\ asked < Len(certificate.crlPoints)
  /\ AfterAnswer(certificate.crlPoints[asked + 1],
                 [cert EXCEPT !.crlExternal = TRUE, !.crlExternalChecked = TRUE], "warn")
  /\ UNCHANGED <<document, options, next, index, trustedIssuer, errorMsg, response, outcome>>

-----------------------------------------------------------------------------
(* What is missing, and the end of a signature.                            *)

\* Mutant: a source that was asked in vain counts as one that was heard.
RevocationWarningIfAsked(c) ==
  IF \/ c.ocspEmbedded \/ c.ocspExternalChecked
     \/ c.crlEmbedded \/ c.crlExternalChecked
  THEN "none" ELSE "noStatus"

RevocationWarning(c) ==
  LET hasOCSP == c.ocspEmbedded \/ c.ocspExternal
      hasCRL  == c.crlEmbedded \/ c.crlExternal
  IN  CASE ~ hasOCSP /\ ~ hasCRL -> "noStatus"
        [] hasCRL /\ ~ hasOCSP /\ certificate.ocspServers # <<>> -> "noOCSP"
        [] hasOCSP /\ ~ hasCRL /\ certificate.crlPoints # <<>> -> "noCRL"
        [] OTHER -> "none"

\* The next call of processSignature starts with nothing of this one.
NewSignature ==
  /\ index' = 0
  /\ asked' = 0
  /\ cert' = NoCertificateInfo
  /\ validation' = NoValidation
  /\ trustedIssuer' = FALSE
  /\ errorMsg' = "none"

\* The certificate joins the list, and the next one follows.
AppendCertificate ==
  /\ pc = "warn"
  /\ validation' = [validation EXCEPT !.certificates =
                      Append(@, [cert EXCEPT !.warning = RevocationWarning(cert)])]
  /\ index' = index + 1
  /\ pc' = "certificate"
  /\ UNCHANGED <<document, options, next, asked, cert, trustedIssuer, errorMsg, response, outcome>>

FinishSignature ==
  /\ pc = "certificate"
  /\ index > Len(current.certificates)
  /\ Report([validation EXCEPT !.trustedIssuer = trustedIssuer], errorMsg)
  /\ NewSignature
  /\ UNCHANGED <<document, options, outcome>>

Consult ==
  \/ CheckEmbeddedOCSP \/ CheckEmbeddedCRL
  \/ SkipExternalOCSP \/ OCSPUnavailable \/ AskResponder
  \/ SkipExternalCRL \/ CRLUnavailable \/ AskDistributionPoint

Next ==
  \/ RejectDocument \/ Open \/ Skip \/ Recover \/ Return
  \/ RejectSignature \/ AcceptDocTimeStamp \/ VerifySignature
  \/ BuildChains \/ VerifyCertificate \/ Consult \/ AppendCertificate \/ FinishSignature

\* Every step is computed, or a request that getHTTPClient bounds with a timeout.
Spec == Init /\ [][Next]_vars /\ WF_vars(Next)

-----------------------------------------------------------------------------
(* Properties.                                                             *)

\* The state is well formed.
TypeOK ==
  /\ document \in Documents
  /\ options \in OptionSets
  /\ pc \in Steps
  /\ next \in 1..Len(document.objects) + 1
  /\ index \in Nat
  /\ asked \in IF pc = "askOCSP" THEN 0..Len(certificate.ocspServers)
              ELSE IF pc = "askCRL" THEN 0..Len(certificate.crlPoints) ELSE {0}
  /\ cert \in CertificateInfo
  /\ validation \in SignatureValidation
  /\ trustedIssuer \in BOOLEAN
  /\ errorMsg \in Errors
  /\ response \in [error: Errors, signatures: Seq(SignatureValidation)]
  /\ outcome \in {"none", "response", "error"}

\* A response without an error holds no signature that failed: whoever reads only
\* Response.Error of several signatures is not told that all is well when it is not.
NoSilentFailure ==
  (\E v \in Range(response.signatures) : ~ v.validSignature) => response.error # "none"

\* The verdicts as Verdicts has them.
Promise == INSTANCE Verdicts WITH
  judged <- next - 1,
  verdicts <- [i \in DOMAIN response.signatures |->
                 [valid |-> response.signatures[i].validSignature,
                  trusted |-> response.signatures[i].trustedIssuer,
                  revoked |-> response.signatures[i].revokedCertificate]]

\* A certificate of a reported signature of which no source was heard, and with which
\* no list came, carries a warning: the checks that were skipped, disabled or failed
\* one after the other do not add up to silence.
GapsAreWarned ==
  \A i \in DOMAIN validation.certificates :
     LET known == Promise!Heeded(current, current.certificates[i])
     IN  known = {} /\ current.crl = <<>> => validation.certificates[i].warning # "none"

\* The verdicts are those of Verdicts, one per signature, in order: what one signature,
\* certificate or source leaves behind does not reach the next, and no source undoes
\* the revocation that another established.
ImplementsVerdicts == Promise!Spec

\* Embedded evidence that does not parse, or a response that its issuer did not sign: the last
\* one of a serial number, for a certificate whose issuer is known from its chain.
BadEvidence(entry) ==
  \/ \E r \in Range(entry.ocsp) \union Range(entry.crl) : ~ r.parses
  \/ \E c \in Range(entry.certificates) :
        /\ IssuerInChain(c) /\ ResponsesFor(entry, c) # {}
        /\ ~ ResponseFor(entry, c).signed

\* A response with a signature that came with bad evidence has an error, however its
\* certificates, the rest of its evidence and the other signatures turn out. The signature
\* itself may still be reported as valid.
BadEvidenceIsReported ==
  outcome = "response" =>
    \A entry \in Range(document.objects) :
       entry.kind = "Sig" /\ entry.parses /\ BadEvidence(entry) => response.error # "none"

\* Verification ends whatever the responders do.
VerificationReturns == <>(pc = "done")
=============================================================================
