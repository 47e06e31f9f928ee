------------------------- MODULE Verification_proofs -------------------------
(***************************************************************************)
(* For every document, every option and every answer of the responders:    *)
(* the verifier's state is well formed, and no invalid signature is        *)
(* reported without an error.                                              *)
(***************************************************************************)
EXTENDS Verification, Extrema, SequenceTheorems, TLAPS

-----------------------------------------------------------------------------
(* The inductive invariant.                                                *)

\* A certificate is being dealt with.
AtCertificate == pc \in {"ocsp", "crl", "askOCSP", "askCRL", "warn"}

\* A signature is being dealt with.
AtSignature == pc \in {"chains", "certificate"} \/ AtCertificate

\* Nobody has been asked unless there was reason to.
AskedForReason ==
  /\ pc = "askOCSP" /\ asked # 0 => AskForOCSP /\ HasIssuer(certificate)
  /\ pc = "askCRL" /\ asked # 0 => AskForCRL

VInv ==
  /\ TypeOK
  /\ AtSignature =>
       /\ next <= Len(document.objects)
       /\ current.kind = "Sig" /\ current.parses /\ FirstError(current) = "none"
       /\ validation.validSignature
  /\ pc = "certificate" => index \in 1..(Len(current.certificates) + 1)
  /\ AtCertificate => index \in 1..Len(current.certificates)
  /\ AskedForReason
  /\ NoSilentFailure

-----------------------------------------------------------------------------
(* Types.                                                                  *)

LEMMA ObjectsType ==
  ASSUME document \in Documents
  PROVE  document.objects \in Seq(Entry) /\ Len(document.objects) \in Nat
<1>1. document \in Document
  BY DocumentsAssumption
<1>2. document.objects \in Seq(Entry)
  BY <1>1 DEF Document
<1> QED  BY <1>2

LEMMA CurrentType ==
  ASSUME TypeOK, next <= Len(document.objects)
  PROVE  current \in Entry
<1>1. document.objects \in Seq(Entry)
  BY ObjectsType DEF TypeOK
<1>2. next \in 1..Len(document.objects)
  BY <1>1 DEF TypeOK
<1> QED  BY <1>1, <1>2 DEF current

\* The values from which everything starts.
LEMMA EmptyTypes ==
  /\ NoCertificateInfo \in CertificateInfo
  /\ NoValidation \in SignatureValidation
  /\ NoResponse \in [error: Errors, signatures: Seq(SignatureValidation)]
  /\ NoResponse.signatures = <<>>
<1>1. NoCertificateInfo \in CertificateInfo
  BY DEF NoCertificateInfo, CertificateInfo
<1>2. NoValidation \in SignatureValidation
  BY DEF NoValidation, SignatureValidation
<1>3. NoResponse \in [error: Errors, signatures: Seq(SignatureValidation)]
  BY DEF NoResponse, Errors
<1>4. NoResponse.signatures = <<>>
  BY DEF NoResponse
<1> QED  BY <1>1, <1>2, <1>3, <1>4

LEMMA RangeOfEmpty == Range(<<>>) = {}
<1>1. DOMAIN <<>> = {}
  OBVIOUS
<1> QED  BY <1>1 DEF Range

LEMMA EntryType ==
  ASSUME NEW entry \in Entry
  PROVE  /\ entry.certificates \in Seq(Certificate)
         /\ entry.ocsp \in Seq(OCSPResponse)
         /\ entry.crl \in Seq(RevocationList)
         /\ entry.stamp \in Stamp
         /\ entry.claimed \in Time \union {NoTime}
  BY DEF Entry

LEMMA CertificateType ==
  ASSUME TypeOK, next <= Len(document.objects), index \in 1..Len(current.certificates)
  PROVE  /\ certificate \in Certificate
         /\ certificate.ocspServers \in Seq(Answer)
         /\ certificate.crlPoints \in Seq(Answer)
<1>1. current.certificates \in Seq(Certificate)
  BY CurrentType, EntryType
<1>2. certificate \in Certificate
  BY <1>1 DEF certificate
<1> QED  BY <1>2 DEF Certificate

\* The embedded response that counts is one of them, and has a status.
LEMMA ResponseForType ==
  ASSUME NEW entry \in Entry, NEW c, ResponsesFor(entry, c) # {}
  PROVE  ResponseFor(entry, c).status \in Status
<1> DEFINE S == ResponsesFor(entry, c)
<1>1. entry.ocsp \in Seq(OCSPResponse)
  BY EntryType
<1>2. S \in SUBSET (0..Len(entry.ocsp)) /\ Len(entry.ocsp) \in Nat /\ S \subseteq DOMAIN entry.ocsp
  BY <1>1 DEF ResponsesFor
<1>3. Max(S) \in S
  BY <1>2, MaxOfBounded
<1>4. entry.ocsp[Max(S)] \in OCSPResponse
  BY <1>1, <1>2, <1>3
<1> QED  BY <1>4 DEF ResponseFor, OCSPResponse

\* The time of the embedded listing that counts is a time.
LEMMA ListedAtType ==
  ASSUME NEW entry \in Entry, NEW c, ListsWith(entry, c) # {}
  PROVE  ListedAt(entry, c) \in Time
<1> DEFINE L == ListsWith(entry, c)
           list == entry.crl[Max(L)]
           S == Listing(list, c)
<1>1. entry.crl \in Seq(RevocationList)
  BY EntryType
<1>2. L \in SUBSET (0..Len(entry.crl)) /\ Len(entry.crl) \in Nat /\ L \subseteq DOMAIN entry.crl
  BY <1>1 DEF ListsWith
<1>3. Max(L) \in L
  BY <1>2, MaxOfBounded
<1>4. list \in RevocationList
  BY <1>1, <1>2, <1>3
<1>4a. S # {}
  BY <1>3, Zenon DEF ListsWith
<1> HIDE DEF list
<1>5. list.revoked \in Seq([serial: Nat, at: Time])
  BY <1>4 DEF RevocationList
<1>6. S \in SUBSET (0..Len(list.revoked)) /\ Len(list.revoked) \in Nat /\ S \subseteq DOMAIN list.revoked
  BY <1>5 DEF Listing
<1>7. Max(S) \in S
  BY <1>4a, <1>6, MaxOfBounded
<1>7a. Max(S) \in 1..Len(list.revoked)
  BY <1>5, <1>6, <1>7
<1> DEFINE m == Max(S)
<1> HIDE DEF m, S
<1>8. list.revoked[m] \in [serial: Nat, at: Time]
  BY <1>5, <1>7a, ElementOfSeq DEF m
<1>9. ListedAt(entry, c) = list.revoked[m].at
  BY DEF ListedAt, list, S, m
<1> QED  BY <1>8, <1>9

\* What a source says keeps the types, and leaves the signature valid.
LEMMA LearnType ==
  ASSUME NEW c \in CertificateInfo, NEW status \in Status,
         validation \in SignatureValidation, Learn(c, status)
  PROVE  /\ cert' \in CertificateInfo
         /\ validation' \in SignatureValidation
         /\ validation'.validSignature = validation.validSignature
<1>1. CASE status.is = "good"
  BY <1>1 DEF Learn
<1>2. CASE status.is # "good"
  <2> DEFINE at == status.at
  <2>1. at \in Time
    BY DEF Status
  <2> HIDE DEF at
  <2>2. cert' = Revoke(c, at) /\ validation' = WithRevocation(validation, at)
    BY <1>2 DEF Learn, at
  <2>3. IsRevokedBeforeSigning(at, validation) \in BOOLEAN
    BY DEF IsRevokedBeforeSigning
  <2>4. cert' \in CertificateInfo
    BY <2>1, <2>2, <2>3 DEF Revoke, CertificateInfo
  <2>5. /\ validation' \in SignatureValidation
        /\ validation'.validSignature = validation.validSignature
    BY <2>2 DEF WithRevocation, SignatureValidation, TimeWarnings
  <2> QED  BY <2>4, <2>5
<1> QED  BY <1>1, <1>2

\* Reporting keeps the error of the first signature that has one.
LEMMA ReportKeeps ==
  ASSUME NEW v \in SignatureValidation, NEW error \in Errors,
         v.validSignature \/ error # "none",
         response \in [error: Errors, signatures: Seq(SignatureValidation)],
         NoSilentFailure, Report(v, error)
  PROVE  /\ response' \in [error: Errors, signatures: Seq(SignatureValidation)]
         /\ NoSilentFailure'
<1> DEFINE s == response.signatures
<1>1. s \in Seq(SignatureValidation) /\ response.error \in Errors
  OBVIOUS
<1> DEFINE e == IF response.error = "none" THEN error ELSE response.error
<1>2. /\ response'.signatures = Append(s, v)
      /\ response'.error = e
      /\ response' \in [error: Errors, signatures: Seq(SignatureValidation)]
  <2>1. response' = [error |-> e, signatures |-> Append(s, v)]
    BY DEF Report
  <2>2. e \in Errors
    BY <1>1
  <2>3. Append(s, v) \in Seq(SignatureValidation)
    BY <1>1
  <2> HIDE DEF e, s
  <2> QED  BY <2>1, <2>2, <2>3
<1> HIDE DEF s
<1>3. Range(Append(s, v)) \subseteq Range(s) \union {v}
  <2>1. DOMAIN s = 1..Len(s) /\ Len(s) \in Nat
    BY <1>1
  <2>2. /\ DOMAIN Append(s, v) = 1..(Len(s) + 1)
        /\ Append(s, v)[Len(s) + 1] = v
        /\ \A i \in 1..Len(s) : Append(s, v)[i] = s[i]
    BY <1>1
  <2>3. \A i \in 1..(Len(s) + 1) : i = Len(s) + 1 \/ i \in 1..Len(s)
    BY <2>1
  <2> QED  BY <2>1, <2>2, <2>3, Zenon DEF Range
<1>4. NoSilentFailure'
  <2> SUFFICES ASSUME NEW w \in Range(response'.signatures), ~ w.validSignature
               PROVE  response'.error # "none"
    BY DEF NoSilentFailure
  <2>1. CASE w = v
    BY <1>2, <2>1
  <2>2. CASE w \in Range(s)
    BY <1>2, <2>2 DEF NoSilentFailure, s
  <2> QED  BY <1>2, <1>3, <2>1, <2>2
<1> QED  BY <1>2, <1>4

-----------------------------------------------------------------------------
(* Every step keeps the invariant.                                         *)

\* The part of the state that a step does not touch is as it was.
LEMMA InitV == Init => VInv
<1> SUFFICES ASSUME Init PROVE VInv
  OBVIOUS
<1>1. Len(document.objects) \in Nat
  BY ObjectsType DEF Init
<1>2. NoSilentFailure
  BY EmptyTypes, RangeOfEmpty DEF Init, NoSilentFailure
<1>3. TypeOK
  <2>1. next \in 1..Len(document.objects) + 1
    BY <1>1 DEF Init
  <2> QED  BY <2>1, EmptyTypes DEF Init, TypeOK, Steps, Errors
<1> QED  BY <1>2, <1>3 DEF Init, VInv, AtSignature, AtCertificate, AskedForReason

\* The steps between two signatures.
LEMMA WalkKeepsV ==
  ASSUME VInv,
         RejectDocument \/ Open \/ Skip \/ Recover \/ Return \/ RejectSignature
           \/ AcceptDocTimeStamp
  PROVE  VInv'
<1> USE DEF VInv
<1>1. document.objects \in Seq(Entry) /\ Len(document.objects) \in Nat
  BY ObjectsType DEF TypeOK
<1>2. /\ NoValidation \in SignatureValidation
      /\ NoResponse \in [error: Errors, signatures: Seq(SignatureValidation)]
      /\ NoResponse.signatures = <<>>
  BY EmptyTypes
<1>3. CASE RejectDocument \/ Open \/ Return
  BY <1>1, <1>3 DEF RejectDocument, Open, Return, TypeOK, Steps, AtSignature, AtCertificate,
       NoSilentFailure, AskedForReason, signature, current, certificate
<1>4. CASE Skip
  BY <1>1, <1>4 DEF Skip, TypeOK, Steps, AtSignature, AtCertificate,
       NoSilentFailure, AskedForReason, signature, current, certificate
<1>5. CASE Recover
  <2>1. NoSilentFailure'
    BY <1>2, <1>5, RangeOfEmpty DEF Recover, NoSilentFailure
  <2> QED
    BY <1>1, <1>2, <1>5, <2>1 DEF Recover, TypeOK, Steps, AtSignature, AtCertificate,
         AskedForReason, signature, current, certificate
<1>6. CASE RejectSignature \/ AcceptDocTimeStamp
  <2>1. PICK v \in SignatureValidation, error \in Errors :
          Report(v, error) /\ (v.validSignature \/ error # "none")
    <3>1. CASE RejectSignature
      <4>1. FirstError(current) \in Errors
        BY DEF FirstError, Errors
      <4> QED  BY <1>2, <3>1, <4>1 DEF RejectSignature
    <3>2. CASE AcceptDocTimeStamp
      <4> DEFINE v == [NoValidation EXCEPT !.validSignature = TRUE,
                                           !.timeSource = "embedded_timestamp"]
      <4>1. v \in SignatureValidation /\ v.validSignature
        BY EmptyTypes DEF SignatureValidation
      <4>2. "none" \in Errors
        BY DEF Errors
      <4> QED  BY <3>2, <4>1, <4>2 DEF AcceptDocTimeStamp
    <3> QED  BY <1>6, <3>1, <3>2
  <2>2. /\ response' \in [error: Errors, signatures: Seq(SignatureValidation)]
        /\ NoSilentFailure'
    BY <2>1, ReportKeeps DEF TypeOK
  <2>3. /\ next' = next + 1 /\ pc = "walk" /\ pc' = "walk" /\ next <= Len(document.objects)
        /\ UNCHANGED <<document, options, signature, outcome>>
    BY <1>6, <2>1 DEF Report, RejectSignature, AcceptDocTimeStamp
  <2> QED
    BY <1>1, <2>2, <2>3 DEF TypeOK, Steps, AtSignature, AtCertificate,
         AskedForReason, signature, current, certificate
<1> QED  BY <1>3, <1>4, <1>5, <1>6

\* The signature is accepted and the time is chosen.
LEMMA ChainsKeepV ==
  ASSUME VInv, VerifySignature \/ BuildChains
  PROVE  VInv'
<1> USE DEF VInv
<1>1. document.objects \in Seq(Entry) /\ Len(document.objects) \in Nat
  BY ObjectsType DEF TypeOK
<1>2. CASE VerifySignature
  <2>1. validation' \in SignatureValidation /\ validation'.validSignature
    <3> DEFINE t == current.digest = "chain"
    <3>1. t \in BOOLEAN
      OBVIOUS
    <3> HIDE DEF t
    <3>2. validation' = [NoValidation EXCEPT !.validSignature = TRUE, !.trustedIssuer = t]
      BY <1>2 DEF VerifySignature, t
    <3> QED  BY <3>1, <3>2, EmptyTypes DEF SignatureValidation
  <2> QED
    BY <1>1, <1>2, <2>1 DEF VerifySignature, TypeOK, Steps, AtSignature, AtCertificate,
         NoSilentFailure, AskedForReason, current, certificate
<1>3. CASE BuildChains
  <2>1. pc = "chains" /\ current \in Entry
    BY <1>3, CurrentType DEF BuildChains, AtSignature
  <2>2. current.stamp.at \in Time /\ current.claimed \in Time \union {NoTime}
    BY <2>1, EntryType DEF Stamp
  <2>3. validation \in SignatureValidation /\ validation.validSignature
    BY <2>1 DEF TypeOK, AtSignature
  <2>4. /\ WithTimestamp(validation, current.stamp) \in SignatureValidation
        /\ WithTimestamp(validation, current.stamp).validSignature
    <3> DEFINE at == current.stamp.at
               b == options.validateTimestamps /\ StampTrusted(current.stamp)
               w == IF options.validateTimestamps THEN StampWarnings(current.stamp) ELSE {}
    <3>1. at \in Time /\ b \in BOOLEAN /\ w \in SUBSET TimeWarnings
      BY <2>2 DEF StampWarnings, TimeWarnings
    <3>2. WithTimestamp(validation, current.stamp) =
            [validation EXCEPT !.timeSource = "embedded_timestamp", !.verificationTime = at,
                               !.timestampTrusted = b, !.timeWarnings = w]
      BY DEF WithTimestamp
    <3> HIDE DEF at, b, w
    <3> QED  BY <2>3, <3>1, <3>2 DEF SignatureValidation
  <2>5. /\ WithClaimedTime(validation, current.claimed) \in SignatureValidation
        /\ WithClaimedTime(validation, current.claimed).validSignature
    BY <2>2, <2>3 DEF WithClaimedTime, SignatureValidation, TimeWarnings
  <2>6. /\ WithCurrentTime(validation) \in SignatureValidation
        /\ WithCurrentTime(validation).validSignature
    BY <2>3, NowAssumption DEF WithCurrentTime, SignatureValidation
  <2>7. validation' \in SignatureValidation /\ validation'.validSignature
    BY <1>3, <2>4, <2>5, <2>6 DEF BuildChains
  <2>8. errorMsg' \in Errors
    BY <1>3 DEF BuildChains, ParseError, Errors
  <2>9. Len(current.certificates) \in Nat
    <3>1. current.certificates \in Seq(Certificate)
      BY <2>1, EntryType
    <3> QED  BY <3>1
  <2>10. TypeOK'
    <3>1. asked' \in {0} /\ pc' = "certificate" /\ index' \in Nat
      BY <1>3, <2>1 DEF BuildChains, TypeOK
    <3> QED
      BY <1>1, <1>3, <2>7, <2>8, <3>1 DEF BuildChains, TypeOK, Steps
  <2>11. current' = current /\ index' = 1 /\ pc' = "certificate"
    BY <1>3 DEF BuildChains, current
  <2>12. NoSilentFailure'
    BY <1>3 DEF BuildChains, NoSilentFailure
  <2>13. next' <= Len(document.objects)'
    BY <1>3 DEF BuildChains, AtSignature
  <2>14. current.kind = "Sig" /\ current.parses /\ FirstError(current) = "none"
    BY <2>1 DEF AtSignature
  <2>15. FirstError(current)' = FirstError(current')
    BY DEF FirstError
  <2>16. 1 \in 1..(Len(current.certificates) + 1)
    BY <2>9
  <2> QED
    BY <2>7, <2>10, <2>11, <2>12, <2>13, <2>14, <2>15, <2>16 DEF AtSignature, AtCertificate,
         AskedForReason
<1> QED  BY <1>2, <1>3

\* What a step within a certificate must leave well formed; the rest stays as it was.
LEMMA CertificateFrame ==
  ASSUME VInv, AtSignature, index \in 1..Len(current.certificates),
         UNCHANGED <<document, options, next, index, response, outcome>>,
         pc' \in {"ocsp", "crl", "askOCSP", "askCRL", "warn"},
         cert' \in CertificateInfo,
         validation' \in SignatureValidation, validation'.validSignature,
         trustedIssuer' \in BOOLEAN, errorMsg' \in Errors,
         asked' \in IF pc' = "askOCSP" THEN 0..Len(certificate.ocspServers)
                   ELSE IF pc' = "askCRL" THEN 0..Len(certificate.crlPoints) ELSE {0},
         AskedForReason'
  PROVE  VInv'
<1> USE DEF VInv
<1>1. current' = current /\ certificate' = certificate
  BY DEF current, certificate
<1>2. FirstError(current)' = FirstError(current')
  BY DEF FirstError
<1>3. TypeOK'
  BY <1>1 DEF TypeOK, Steps
<1>4. NoSilentFailure'
  BY DEF NoSilentFailure
<1>5. /\ next' <= Len(document.objects)'
      /\ current'.kind = "Sig" /\ current'.parses /\ FirstError(current') = "none"
  BY <1>1 DEF AtSignature
<1>6. index' \in 1..Len(current.certificates)' /\ pc' # "certificate"
  BY <1>1
<1> QED  BY <1>2, <1>3, <1>4, <1>5, <1>6 DEF AtSignature, AtCertificate

LEMMA VerifyCertificateKeepsV ==
  ASSUME VInv, VerifyCertificate
  PROVE  VInv'
<1>1. pc = "certificate" /\ AtSignature /\ pc' = "ocsp"
  BY DEF VerifyCertificate, AtSignature
<1>2. index \in 1..Len(current.certificates)
  <2>1. current.certificates \in Seq(Certificate)
    BY <1>1, CurrentType, EntryType DEF VInv
  <2>2. index \in 1..(Len(current.certificates) + 1) /\ index <= Len(current.certificates)
    BY <1>1 DEF VInv, VerifyCertificate
  <2> QED  BY <2>1, <2>2
<1>3. validation' \in SignatureValidation /\ validation'.validSignature
  BY <1>1 DEF VInv, VerifyCertificate, TypeOK
<1>4. cert' \in CertificateInfo
  <2> DEFINE b == \/ certificate.chain \in {"system", "root"}
                  \/ certificate.chain = "embedded" /\ options.allowUntrustedRoots
  <2>1. cert' = [NoCertificateInfo EXCEPT !.verified = b] /\ b \in BOOLEAN
    BY DEF VerifyCertificate
  <2> HIDE DEF b
  <2> QED  BY <2>1, EmptyTypes DEF CertificateInfo
<1>5. trustedIssuer' \in BOOLEAN
  BY DEF VerifyCertificate
<1>6. errorMsg' \in Errors
  BY DEF VInv, VerifyCertificate, TypeOK
<1>7. asked' \in {0}
  BY <1>1 DEF VInv, VerifyCertificate, TypeOK
<1>8. UNCHANGED <<document, options, next, index, response, outcome>>
  BY DEF VerifyCertificate
<1>9. AskedForReason'
  BY <1>1 DEF AskedForReason
<1> QED  BY <1>1, <1>2, <1>3, <1>4, <1>5, <1>6, <1>7, <1>8, <1>9, CertificateFrame

\* The two kinds of evidence that came with the signature.
LEMMA EmbeddedKeepsV ==
  ASSUME VInv, CheckEmbeddedOCSP \/ CheckEmbeddedCRL
  PROVE  VInv'
<1>1. /\ AtCertificate /\ AtSignature /\ asked = 0 /\ pc' \in {"crl", "askOCSP"}
      /\ UNCHANGED <<document, options, next, index, asked, trustedIssuer, response, outcome>>
  BY DEF VInv, TypeOK, AtSignature, AtCertificate, CheckEmbeddedOCSP, CheckEmbeddedCRL
<1>2. /\ index \in 1..Len(current.certificates) /\ next <= Len(document.objects)
      /\ cert \in CertificateInfo
      /\ validation \in SignatureValidation /\ validation.validSignature
      /\ trustedIssuer \in BOOLEAN /\ errorMsg \in Errors
  BY <1>1 DEF VInv, TypeOK
<1>3. current \in Entry
  BY <1>2, CurrentType DEF VInv
<1> SUFFICES /\ cert' \in CertificateInfo /\ errorMsg' \in Errors
             /\ validation' \in SignatureValidation /\ validation'.validSignature
  <2>1. Len(certificate.ocspServers) \in Nat
    <3>1. certificate.ocspServers \in Seq(Answer)
      BY <1>2, CertificateType DEF VInv
    <3> QED  BY <3>1
  <2>2. 0 \in 0..Len(certificate.ocspServers) /\ asked' = 0
    BY <1>1, <2>1
  <2>3. AskedForReason'
    BY <1>1, <2>2 DEF AskedForReason
  <2> QED  BY <1>1, <1>2, <2>2, <2>3, CertificateFrame
<1>4. CASE CheckEmbeddedOCSP
  <2>1. CASE ResponsesFor(current, certificate) = {}
    BY <1>2, <1>4, <2>1 DEF CheckEmbeddedOCSP
  <2>2. CASE ResponsesFor(current, certificate) # {}
    <3> DEFINE c == [cert EXCEPT !.ocspEmbedded = TRUE]
               status == ResponseFor(current, certificate).status
    <3>1. c \in CertificateInfo
      BY <1>2 DEF CertificateInfo
    <3>2. status \in Status
      BY <1>3, <2>2, ResponseForType
    <3>3. Learn(c, status) /\ errorMsg' \in Errors
      BY <1>2, <1>4, <2>2 DEF CheckEmbeddedOCSP, Errors
    <3> HIDE DEF c, status
    <3> QED  BY <1>2, <3>1, <3>2, <3>3, LearnType
  <2> QED  BY <2>1, <2>2
<1>5. CASE CheckEmbeddedCRL
  <2>1. CASE ListsWith(current, certificate) # {}
    <3> DEFINE c == [cert EXCEPT !.crlEmbedded = TRUE]
               status == [is |-> "revoked", at |-> ListedAt(current, certificate)]
    <3>1. c \in CertificateInfo
      BY <1>2 DEF CertificateInfo
    <3>2. status \in Status
      BY <1>3, <2>1, ListedAtType DEF Status
    <3>3. Learn(c, status) /\ errorMsg' \in Errors
      BY <1>2, <1>5, <2>1 DEF CheckEmbeddedCRL
    <3> HIDE DEF c, status
    <3> QED  BY <1>2, <3>1, <3>2, <3>3, LearnType
  <2>2. CASE ListsWith(current, certificate) = {}
    <3> DEFINE b == current.crl # <<>>
    <3>1. b \in BOOLEAN
      OBVIOUS
    <3>2. cert' = [cert EXCEPT !.crlEmbedded = b] /\ validation' = validation /\ errorMsg' = errorMsg
      BY <1>5, <2>2 DEF CheckEmbeddedCRL
    <3> HIDE DEF b
    <3> QED  BY <1>2, <3>1, <3>2 DEF CertificateInfo
  <2> QED  BY <2>1, <2>2
<1> QED  BY <1>4, <1>5

\* The responders and the distribution points, asked one after the other.
LEMMA ExternalKeepsV ==
  ASSUME VInv,
         SkipExternalOCSP \/ OCSPUnavailable \/ AskResponder
           \/ SkipExternalCRL \/ CRLUnavailable \/ AskDistributionPoint
  PROVE  VInv'
<1> DEFINE n == Len(certificate.ocspServers)
           m == Len(certificate.crlPoints)
<1>1. /\ AtCertificate /\ AtSignature
      /\ UNCHANGED <<document, options, next, index, trustedIssuer, errorMsg, response, outcome>>
  BY DEF AtSignature, AtCertificate, SkipExternalOCSP, OCSPUnavailable, AskResponder,
       SkipExternalCRL, CRLUnavailable, AskDistributionPoint, signature
<1>2. /\ index \in 1..Len(current.certificates) /\ next <= Len(document.objects)
      /\ cert \in CertificateInfo
      /\ validation \in SignatureValidation /\ validation.validSignature
      /\ trustedIssuer \in BOOLEAN /\ errorMsg \in Errors
  BY <1>1 DEF VInv, TypeOK
<1>3. certificate.ocspServers \in Seq(Answer) /\ certificate.crlPoints \in Seq(Answer)
  BY <1>2, CertificateType DEF VInv
<1>4. n \in Nat /\ m \in Nat
  BY <1>3
<1>5. /\ pc = "askOCSP" => asked \in 0..n
      /\ pc = "askCRL" => asked \in 0..m
  BY DEF VInv, TypeOK
<1> DEFINE Asked(step, k) ==
             k \in IF step = "askOCSP" THEN 0..n ELSE IF step = "askCRL" THEN 0..m ELSE {0}
<1>5a. AskedForReason
  BY DEF VInv
<1> SUFFICES /\ pc' \in {"askOCSP", "askCRL", "warn"} /\ Asked(pc', asked') /\ AskedForReason'
             /\ cert' \in CertificateInfo
             /\ validation' \in SignatureValidation /\ validation'.validSignature
  BY <1>1, <1>2, CertificateFrame
<1>6. ASSUME NEW status \in Status, NEW c \in CertificateInfo, Learn(c, status)
      PROVE  /\ cert' \in CertificateInfo
             /\ validation' \in SignatureValidation /\ validation'.validSignature
  BY <1>2, <1>6, LearnType
<1>7. ASSUME NEW answer \in Answer, NEW c \in CertificateInfo, NEW step,
             AfterAnswer(answer, c, step)
      PROVE  /\ cert' \in CertificateInfo
             /\ validation' \in SignatureValidation /\ validation'.validSignature
             /\ \/ asked' = 0 /\ pc' = step
                \/ asked' = asked + 1 /\ pc' = pc /\ cert' = cert
  <2>1. CASE answer.got
    <3>1. answer.status \in Status
      BY DEF Answer
    <3> QED  BY <1>6, <1>7, <2>1, <3>1 DEF AfterAnswer
  <2>2. CASE ~ answer.got
    BY <1>2, <1>7, <2>2 DEF AfterAnswer
  <2> QED  BY <2>1, <2>2
<1>8. CASE SkipExternalOCSP \/ SkipExternalCRL
  <2>1. asked = 0 /\ UNCHANGED <<asked, cert, validation>> /\ pc' \in {"askCRL", "warn"}
    BY <1>5a, <1>8 DEF AskedForReason, SkipExternalOCSP, SkipExternalCRL, signature
  <2> QED  BY <1>2, <1>4, <2>1 DEF AskedForReason
<1>9. CASE OCSPUnavailable \/ CRLUnavailable
  <2> DEFINE c == [cert EXCEPT !.ocspExternalChecked = TRUE]
             d == [cert EXCEPT !.crlExternalChecked = TRUE]
  <2>1. c \in CertificateInfo /\ d \in CertificateInfo
    BY <1>2 DEF CertificateInfo
  <2>2. asked' = 0 /\ UNCHANGED validation /\ pc' \in {"askCRL", "warn"} /\ cert' \in {c, d}
    BY <1>9 DEF OCSPUnavailable, CRLUnavailable
  <2> HIDE DEF c, d
  <2> QED  BY <1>2, <1>4, <2>1, <2>2 DEF AskedForReason
<1>10. CASE AskResponder
  <2> DEFINE c == [cert EXCEPT !.ocspExternal = TRUE, !.ocspExternalChecked = TRUE]
             answer == certificate.ocspServers[asked + 1]
  <2>1. c \in CertificateInfo
    BY <1>2 DEF CertificateInfo
  <2>2. /\ pc = "askOCSP" /\ AskForOCSP /\ HasIssuer(certificate) /\ asked < n
        /\ AfterAnswer(answer, c, "askCRL")
    BY <1>10 DEF AskResponder
  <2>3. asked + 1 \in 1..n
    BY <1>4, <1>5, <2>2
  <2>4. answer \in Answer
    BY <1>3, <2>3
  <2> HIDE DEF c, answer
  <2>5. /\ cert' \in CertificateInfo
        /\ validation' \in SignatureValidation /\ validation'.validSignature
        /\ \/ asked' = 0 /\ pc' = "askCRL"
           \/ asked' = asked + 1 /\ pc' = pc /\ cert' = cert
    BY <1>7, <2>1, <2>2, <2>4
  <2>6. AskedForReason'
    BY <1>1, <2>2, <2>5 DEF AskedForReason, AskForOCSP, certificate, current
  <2> QED  BY <1>4, <2>2, <2>3, <2>5, <2>6
<1>11. CASE AskDistributionPoint
  <2> DEFINE c == [cert EXCEPT !.crlExternal = TRUE, !.crlExternalChecked = TRUE]
             answer == certificate.crlPoints[asked + 1]
  <2>1. c \in CertificateInfo
    BY <1>2 DEF CertificateInfo
  <2>2. /\ pc = "askCRL" /\ AskForCRL /\ asked < m
        /\ AfterAnswer(answer, c, "warn")
    BY <1>11 DEF AskDistributionPoint
  <2>3. asked + 1 \in 1..m
    BY <1>4, <1>5, <2>2
  <2>4. answer \in Answer
    BY <1>3, <2>3
  <2> HIDE DEF c, answer
  <2>5. /\ cert' \in CertificateInfo
        /\ validation' \in SignatureValidation /\ validation'.validSignature
        /\ \/ asked' = 0 /\ pc' = "warn"
           \/ asked' = asked + 1 /\ pc' = pc /\ cert' = cert
    BY <1>7, <2>1, <2>2, <2>4
  <2>6. AskedForReason'
    BY <1>1, <2>2, <2>5 DEF AskedForReason, AskForCRL, certificate, current
  <2> QED  BY <1>4, <2>2, <2>3, <2>5, <2>6
<1> QED  BY <1>8, <1>9, <1>10, <1>11

\* The certificate joins the list of its signature.
LEMMA AppendKeepsV ==
  ASSUME VInv, AppendCertificate
  PROVE  VInv'
<1>1. /\ pc = "warn" /\ AtSignature /\ AtCertificate /\ pc' = "certificate" /\ index' = index + 1
      /\ UNCHANGED <<document, options, next, asked, cert, trustedIssuer, errorMsg,
                     response, outcome>>
  BY DEF AppendCertificate, AtSignature, AtCertificate
<1>2. /\ index \in 1..Len(current.certificates) /\ next <= Len(document.objects)
      /\ cert \in CertificateInfo /\ asked = 0
      /\ validation \in SignatureValidation /\ validation.validSignature
  BY <1>1 DEF VInv, TypeOK
<1> DEFINE c == [cert EXCEPT !.warning = RevocationWarning(cert)]
<1>3. c \in CertificateInfo
  <2>1. RevocationWarning(cert) \in {"none", "noStatus", "noOCSP", "noCRL"}
    BY DEF RevocationWarning
  <2> HIDE DEF RevocationWarning
  <2> QED  BY <1>2, <2>1 DEF CertificateInfo
<1>4. validation' = [validation EXCEPT !.certificates = Append(@, c)]
  BY DEF AppendCertificate
<1> HIDE DEF c
<1>5. validation' \in SignatureValidation /\ validation'.validSignature
  <2>1. Append(validation.certificates, c) \in Seq(CertificateInfo)
    BY <1>2, <1>3 DEF SignatureValidation
  <2> QED  BY <1>2, <1>4, <2>1 DEF SignatureValidation
<1>6. current' = current
  BY <1>1 DEF current
<1>7. Len(current.certificates) \in Nat
  <2>1. current.certificates \in Seq(Certificate)
    BY <1>2, CurrentType, EntryType DEF VInv
  <2> QED  BY <2>1
<1>8. index' \in 1..(Len(current.certificates) + 1) /\ index' \in Nat
  BY <1>1, <1>2, <1>7
<1>9. TypeOK'
  BY <1>1, <1>2, <1>5, <1>8 DEF VInv, TypeOK, Steps
<1>10. FirstError(current)' = FirstError(current')
  BY DEF FirstError
<1>11. NoSilentFailure'
  BY <1>1 DEF VInv, NoSilentFailure
<1>12. /\ next' <= Len(document.objects)'
       /\ current'.kind = "Sig" /\ current'.parses /\ FirstError(current') = "none"
  BY <1>1, <1>2, <1>6 DEF VInv
<1> QED
  BY <1>1, <1>5, <1>6, <1>8, <1>9, <1>10, <1>11, <1>12
     DEF VInv, AtSignature, AtCertificate, AskedForReason

\* The signature joins the response, and the walk goes on.
LEMMA FinishKeepsV ==
  ASSUME VInv, FinishSignature
  PROVE  VInv'
<1>1. /\ pc = "certificate" /\ AtSignature /\ NewSignature
      /\ UNCHANGED <<document, options, outcome>>
  BY DEF FinishSignature, AtSignature
<1>2. /\ next <= Len(document.objects) /\ next \in Nat
      /\ validation \in SignatureValidation /\ validation.validSignature
      /\ trustedIssuer \in BOOLEAN /\ errorMsg \in Errors
  <2>1. Len(document.objects) \in Nat
    BY ObjectsType DEF VInv, TypeOK
  <2> QED  BY <1>1, <2>1 DEF VInv, TypeOK
<1> DEFINE v == [validation EXCEPT !.trustedIssuer = trustedIssuer]
<1>3. v \in SignatureValidation /\ v.validSignature
  BY <1>2 DEF SignatureValidation
<1>4. Report(v, errorMsg)
  BY DEF FinishSignature
<1> HIDE DEF v
<1>5. /\ response' \in [error: Errors, signatures: Seq(SignatureValidation)]
      /\ NoSilentFailure'
  BY <1>2, <1>3, <1>4, ReportKeeps DEF VInv, TypeOK
<1>6. next' = next + 1 /\ pc' = "walk"
  BY <1>4 DEF Report
<1>7. /\ index' = 0 /\ asked' = 0 /\ cert' \in CertificateInfo
      /\ validation' \in SignatureValidation /\ trustedIssuer' \in BOOLEAN /\ errorMsg' \in Errors
  BY <1>1, EmptyTypes DEF NewSignature, Errors
<1>8. next' \in 1..Len(document.objects)' + 1
  <2>1. Len(document.objects) \in Nat
    BY ObjectsType DEF VInv, TypeOK
  <2> QED  BY <1>1, <1>2, <1>6, <2>1 DEF VInv, TypeOK
<1>9. TypeOK'
  BY <1>1, <1>5, <1>6, <1>7, <1>8 DEF VInv, TypeOK, Steps
<1> QED  BY <1>5, <1>6, <1>9 DEF VInv, AtSignature, AtCertificate, AskedForReason

LEMMA StutterKeepsV ==
  ASSUME VInv, UNCHANGED vars
  PROVE  VInv'
<1>1. current' = current /\ certificate' = certificate
  BY DEF vars, signature, current, certificate
<1> QED
  BY <1>1 DEF VInv, vars, signature, TypeOK, AtSignature, AtCertificate, AskedForReason,
       AskForOCSP, AskForCRL, HasIssuer, IssuerInChain, FirstError, NoSilentFailure

LEMMA NextKeepsV ==
  ASSUME VInv, [Next]_vars
  PROVE  VInv'
<1>1. CASE \/ RejectDocument \/ Open \/ Skip \/ Recover \/ Return \/ RejectSignature
           \/ AcceptDocTimeStamp
  BY <1>1, WalkKeepsV
<1>2. CASE VerifySignature \/ BuildChains
  BY <1>2, ChainsKeepV
<1>3. CASE VerifyCertificate
  BY <1>3, VerifyCertificateKeepsV
<1>4. CASE CheckEmbeddedOCSP \/ CheckEmbeddedCRL
  BY <1>4, EmbeddedKeepsV
<1>5. CASE \/ SkipExternalOCSP \/ OCSPUnavailable \/ AskResponder
           \/ SkipExternalCRL \/ CRLUnavailable \/ AskDistributionPoint
  BY <1>5, ExternalKeepsV
<1>6. CASE AppendCertificate
  BY <1>6, AppendKeepsV
<1>7. CASE FinishSignature
  BY <1>7, FinishKeepsV
<1>8. CASE UNCHANGED vars
  BY <1>8, StutterKeepsV
<1> QED  BY <1>1, <1>2, <1>3, <1>4, <1>5, <1>6, <1>7, <1>8 DEF Next, Consult

-----------------------------------------------------------------------------
(* What is proved.                                                         *)

\* The state of the verifier is well formed, whatever the document, the options and the
\* answers of the responders: in particular it never reads past the responders or the
\* distribution points that a certificate names.
THEOREM VerificationTypeCorrect == Spec => []TypeOK
<1>1. Init => VInv
  BY InitV
<1>2. VInv /\ [Next]_vars => VInv'
  BY NextKeepsV
<1>3. VInv => TypeOK
  BY DEF VInv
<1> QED  BY <1>1, <1>2, <1>3, PTL DEF Spec

\* A response without an error holds no signature that failed, however many signatures
\* the document has and whichever of them failed first.
THEOREM NoInvalidSignatureIsSilent == Spec => []NoSilentFailure
<1>1. Init => VInv
  BY InitV
<1>2. VInv /\ [Next]_vars => VInv'
  BY NextKeepsV
<1>3. VInv => NoSilentFailure
  BY DEF VInv
<1> QED  BY <1>1, <1>2, <1>3, PTL DEF Spec
=============================================================================
