---------------------------- MODULE Verdicts_proofs ----------------------------
(***************************************************************************)
(* For every document, every option and every answer of the responders:    *)
(* verification gives the verdicts of Verdicts, warns of every certificate *)
(* of which nothing was heard, and reports every piece of bad evidence.    *)
(***************************************************************************)
EXTENDS Verification_proofs

-----------------------------------------------------------------------------
(* The inductive invariant, on top of VInv.                                *)

\* Which sources of the certificate in hand have been consulted.
OCSPChecked == pc \in {"crl", "askOCSP", "askCRL", "warn"}
CRLChecked == pc \in {"askOCSP", "askCRL", "warn"}
OCSPAsked == pc \in {"askCRL", "warn"}
CRLAsked == pc = "warn"

\* The certificates of the signature are being judged.
Judging == pc = "certificate" \/ AtCertificate

\* What the network has to say of a certificate, if it is asked.
FromResponders(c) ==
  IF options.external /\ Promise!EmbeddedOCSP(current, c) = {} /\ HasIssuer(c)
  THEN Promise!Heard(c.ocspServers) ELSE {}

FromPoints(c) ==
  IF options.external /\ current.crl = <<>> THEN Promise!Heard(c.crlPoints) ELSE {}

\* All that has been heard of the certificate in hand.
HeardSoFar ==
  (IF OCSPChecked THEN Promise!EmbeddedOCSP(current, certificate) ELSE {}) \union
  (IF CRLChecked THEN Promise!EmbeddedCRL(current, certificate) ELSE {}) \union
  (IF OCSPAsked THEN FromResponders(certificate) ELSE {}) \union
  (IF CRLAsked THEN FromPoints(certificate) ELSE {})

RevokedBy(statuses) == \E status \in statuses : Promise!Revokes(current, status)

\* The call and the response.
WalkInv ==
  /\ outcome = "none" <=> pc # "done"
  /\ pc = "open" => response = NoResponse
  /\ pc \notin {"open", "done"} => document.opens /\ document.form
  /\ outcome = "response" => next > Len(document.objects)
  /\ ~ AtSignature => validation = NoValidation
  /\ pc = "chains" => ~ validation.revokedCertificate /\ validation.certificates = <<>>

\* The response tells of every piece of bad evidence that has been passed.
PassedInv ==
  outcome # "error" =>
    \A i \in 1..(next - 1) :
       LET entry == document.objects[i]
       IN  entry.kind = "Sig" /\ entry.parses /\ BadEvidence(entry) => response.error # "none"

\* The embedded response that counts for a certificate was not signed by its issuer.
UnsignedFor(entry, c) ==
  IssuerInChain(c) /\ ResponsesFor(entry, c) # {} /\ ~ ResponseFor(entry, c).signed

\* The error of the signature tells of all that has been passed of it.
ErrorInv ==
  Judging =>
    /\ ParseError(current) # "none" => errorMsg # "none"
    /\ \A i \in 1..(index - 1) : UnsignedFor(current, current.certificates[i]) => errorMsg # "none"
    /\ OCSPChecked /\ UnsignedFor(current, certificate) => errorMsg # "none"

\* The time of the signature is proven exactly if its time-stamp says so.
TimeInv ==
  Judging =>
    /\ validation.timeSource = "embedded_timestamp" <=> Promise!ProvenTime(current)
    /\ Promise!ProvenTime(current) => validation.verificationTime = current.stamp.at

\* What is noted of the certificate in hand is what its sources said.
SourceInv ==
  AtCertificate =>
    /\ cert.ocspEmbedded <=> OCSPChecked /\ ResponsesFor(current, certificate) # {}
    /\ cert.crlEmbedded <=> CRLChecked /\ current.crl # <<>>
    /\ cert.ocspExternal => OCSPAsked /\ FromResponders(certificate) # {}
    /\ cert.crlExternal => CRLAsked /\ FromPoints(certificate) # {}
    /\ pc = "askOCSP" => \A i \in 1..asked : ~ certificate.ocspServers[i].got
    /\ pc = "askCRL" => \A i \in 1..asked : ~ certificate.crlPoints[i].got

\* The verdict so far: that of the certificates passed, and of what was heard of the one
\* in hand.
TrustInv ==
  Judging =>
    trustedIssuer <=>
      \E i \in 1..(IF AtCertificate THEN index ELSE index - 1) :
         current.certificates[i].chain \in {"system", "root"}

RevocationInv ==
  Judging =>
    validation.revokedCertificate <=>
      \/ \E i \in 1..(index - 1) :
            RevokedBy(Promise!Heeded(current, current.certificates[i]))
      \/ RevokedBy(HeardSoFar)

\* The certificates passed are listed, each with its warning.
ListInv ==
  /\ Judging => Len(validation.certificates) = index - 1
  /\ GapsAreWarned

JInv ==
  /\ WalkInv
  /\ PassedInv
  /\ ErrorInv
  /\ TimeInv
  /\ SourceInv
  /\ TrustInv
  /\ RevocationInv
  /\ ListInv

-----------------------------------------------------------------------------
(* The sources, as the verifier and as Verdicts have them.                 *)

LEMMA SameEvidence ==
  ASSUME NEW entry, NEW c
  PROVE  /\ Promise!EmbeddedOCSP(entry, c) =
              IF ResponsesFor(entry, c) = {} THEN {} ELSE {ResponseFor(entry, c).status}
         /\ Promise!EmbeddedCRL(entry, c) =
              IF ListsWith(entry, c) = {} THEN {}
              ELSE {[is |-> "revoked", at |-> ListedAt(entry, c)]}
         /\ Promise!HasIssuer(c) = HasIssuer(c)
<1>1. Promise!ResponsesFor(entry, c) = ResponsesFor(entry, c)
  BY DEF Promise!ResponsesFor, ResponsesFor
<1>2. \A S : Promise!Max(S) = Max(S)
  BY DEF Promise!Max, Max
<1>3. Promise!ResponseFor(entry, c) = ResponseFor(entry, c)
  BY <1>1, <1>2 DEF Promise!ResponseFor, ResponseFor
<1>4. \A list : Promise!Listing(list, c) = Listing(list, c)
  BY DEF Promise!Listing, Listing
<1>5. Promise!ListsWith(entry, c) = ListsWith(entry, c)
  BY <1>4 DEF Promise!ListsWith, ListsWith
<1>6. Promise!ListedAt(entry, c) = ListedAt(entry, c)
  BY <1>2, <1>4, <1>5 DEF Promise!ListedAt, ListedAt
<1>7. Promise!HasIssuer(c) = HasIssuer(c)
  BY DEF Promise!HasIssuer, HasIssuer, Promise!IssuerInChain, IssuerInChain
<1> QED  BY <1>1, <1>3, <1>5, <1>6, <1>7 DEF Promise!EmbeddedOCSP, Promise!EmbeddedCRL

\* All that is heard of a certificate comes from the four sources.
LEMMA FourSources ==
  ASSUME NEW c
  PROVE  Promise!Heeded(current, c) =
           Promise!EmbeddedOCSP(current, c) \union Promise!EmbeddedCRL(current, c)
             \union FromResponders(c) \union FromPoints(c)
<1>1. Promise!HasIssuer(c) = HasIssuer(c)
  BY SameEvidence
<1> QED  BY <1>1 DEF Promise!Heeded, FromResponders, FromPoints

\* Nothing is heard of those who have nothing usable to say.
LEMMA HeardInVain ==
  ASSUME NEW answers \in Seq(Answer), \A i \in 1..Len(answers) : ~ answers[i].got
  PROVE  Promise!Heard(answers) = {}
BY DEF Promise!Heard

\* The first who has is heard.
LEMMA HeardFirst ==
  ASSUME NEW answers \in Seq(Answer), NEW k \in 1..Len(answers), answers[k].got,
         \A i \in 1..(k - 1) : ~ answers[i].got
  PROVE  Promise!Heard(answers) = {answers[k].status}
<1> DEFINE usable == {i \in DOMAIN answers : answers[i].got}
           first == {j \in usable : \A i \in usable : j <= i}
<1>1. usable \subseteq 1..Len(answers) /\ k \in usable /\ Len(answers) \in Nat
  OBVIOUS
<1>2. \A i \in usable : k <= i
  <2> SUFFICES ASSUME NEW i \in usable, i < k PROVE FALSE
    BY <1>1
  <2> QED  BY <1>1
<1>3. first = {k}
  <2>1. k \in first
    BY <1>1, <1>2
  <2>2. ASSUME NEW j \in first PROVE j = k
    <3>1. j <= k /\ k <= j /\ j \in 1..Len(answers)
      BY <1>1, <1>2
    <3> QED  BY <3>1
  <2> QED  BY <2>1, <2>2
<1>4. Promise!Heard(answers) = {answers[i].status : i \in first}
  BY DEF Promise!Heard
<1> HIDE DEF first
<1> QED  BY <1>3, <1>4

-----------------------------------------------------------------------------
(* One source is consulted.                                                *)

\* While a certificate is in hand its sources have the same to say.
LEMMA SourcesStay ==
  ASSUME UNCHANGED <<document, options, next, index>>
  PROVE  /\ current' = current /\ certificate' = certificate
         /\ FromResponders(certificate)' = FromResponders(certificate)
         /\ FromPoints(certificate)' = FromPoints(certificate)
         /\ HeardSoFar' =
              (IF OCSPChecked' THEN Promise!EmbeddedOCSP(current, certificate) ELSE {}) \union
              (IF CRLChecked' THEN Promise!EmbeddedCRL(current, certificate) ELSE {}) \union
              (IF OCSPAsked' THEN FromResponders(certificate) ELSE {}) \union
              (IF CRLAsked' THEN FromPoints(certificate) ELSE {})
<1>1. current' = current /\ certificate' = certificate
  BY DEF current, certificate
<1>2. /\ FromResponders(certificate)' = FromResponders(certificate)
      /\ FromPoints(certificate)' = FromPoints(certificate)
  BY <1>1 DEF FromResponders, FromPoints
<1>3. /\ Promise!EmbeddedOCSP(current, certificate)' = Promise!EmbeddedOCSP(current, certificate)
      /\ Promise!EmbeddedCRL(current, certificate)' = Promise!EmbeddedCRL(current, certificate)
  BY <1>1
<1> QED  BY <1>1, <1>2, <1>3 DEF HeardSoFar

\* What a source says adds to what is known of the signature, and undoes nothing.
LEMMA LearnRevokes ==
  ASSUME NEW c \in CertificateInfo, NEW status \in Status,
         validation \in SignatureValidation, Judging, TimeInv, Learn(c, status)
  PROVE  /\ validation'.revokedCertificate <=>
              validation.revokedCertificate \/ Promise!Revokes(current, status)
         /\ validation'.timeSource = validation.timeSource
         /\ validation'.verificationTime = validation.verificationTime
         /\ validation'.certificates = validation.certificates
         /\ \A f \in {"ocspEmbedded", "crlEmbedded", "ocspExternal", "crlExternal"} :
               cert'[f] = c[f]
<1>1. CASE status.is = "good"
  BY <1>1 DEF Learn, Promise!Revokes
<1>2. CASE status.is # "good"
  <2> DEFINE at == status.at
             before == IsRevokedBeforeSigning(at, validation)
  <2>1. before <=> Promise!Revokes(current, status)
    BY <1>2 DEF IsRevokedBeforeSigning, TimeInv, Promise!Revokes
  <2>2. before \/ validation.timeSource = "embedded_timestamp"
    BY DEF IsRevokedBeforeSigning
  <2>3. cert' = [c EXCEPT !.revocationTime = at, !.revokedBeforeSigning = before]
    BY <1>2 DEF Learn, Revoke
  <2>4. validation' = WithRevocation(validation, at)
    BY <1>2 DEF Learn
  <2>5. \A f \in {"ocspEmbedded", "crlEmbedded", "ocspExternal", "crlExternal"} :
          cert'[f] = c[f]
    <3> HIDE DEF at, before
    <3> QED  BY <2>3 DEF CertificateInfo
  <2>6. CASE before
    <3>1. validation' = [validation EXCEPT !.revokedCertificate = TRUE]
      BY <2>4, <2>6 DEF WithRevocation
    <3> HIDE DEF at, before
    <3> QED  BY <2>1, <2>5, <2>6, <3>1 DEF SignatureValidation
  <2>7. CASE ~ before
    <3>1. validation' = [validation EXCEPT !.timeWarnings = @ \union {"revokedAfterSigning"}]
      BY <2>2, <2>4, <2>7 DEF WithRevocation
    <3> HIDE DEF at, before
    <3> QED  BY <2>1, <2>5, <2>7, <3>1 DEF SignatureValidation
  <2> QED  BY <2>6, <2>7
<1> QED  BY <1>1, <1>2

LEMMA ConsultFrame ==
  ASSUME VInv, Consult
  PROVE  /\ AtCertificate /\ AtCertificate' /\ Judging /\ Judging' /\ AtSignature
         /\ UNCHANGED <<document, options, next, index, trustedIssuer, response, outcome>>
         /\ current \in Entry
         /\ certificate.ocspServers \in Seq(Answer) /\ certificate.crlPoints \in Seq(Answer)
         /\ cert \in CertificateInfo /\ validation \in SignatureValidation
<1>1. AtCertificate /\ AtCertificate'
  BY DEF Consult, CheckEmbeddedOCSP, CheckEmbeddedCRL, SkipExternalOCSP, OCSPUnavailable,
       AskResponder, SkipExternalCRL, CRLUnavailable, AskDistributionPoint, AfterAnswer,
       AtCertificate
<1>2. UNCHANGED <<document, options, next, index, trustedIssuer, response, outcome>>
  BY DEF Consult, CheckEmbeddedOCSP, CheckEmbeddedCRL, SkipExternalOCSP, OCSPUnavailable,
       AskResponder, SkipExternalCRL, CRLUnavailable, AskDistributionPoint, signature
<1>3. next <= Len(document.objects) /\ index \in 1..Len(current.certificates) /\ TypeOK
  BY <1>1 DEF VInv, AtSignature
<1>4. /\ current \in Entry
      /\ certificate.ocspServers \in Seq(Answer) /\ certificate.crlPoints \in Seq(Answer)
  BY <1>3, CurrentType, CertificateType
<1> QED  BY <1>1, <1>2, <1>3, <1>4 DEF Judging, AtSignature, TypeOK

\* What a step that consults a source does: it hears what the source has to say, and it
\* notes that in the certificate.
Consulted(heard) ==
  /\ SourceInv'
  /\ HeardSoFar' = HeardSoFar \union heard
  /\ validation'.revokedCertificate <=> validation.revokedCertificate \/ RevokedBy(heard)
  /\ validation'.timeSource = validation.timeSource
  /\ validation'.verificationTime = validation.verificationTime
  /\ validation'.certificates = validation.certificates

\* The evidence that came with the signature.
LEMMA EmbeddedConsulted ==
  ASSUME VInv, SourceInv, TimeInv, CheckEmbeddedOCSP \/ CheckEmbeddedCRL
  PROVE  \E heard : Consulted(heard)
<1>1. /\ AtCertificate /\ AtCertificate' /\ Judging
      /\ UNCHANGED <<document, options, next, index>>
      /\ current \in Entry /\ cert \in CertificateInfo /\ validation \in SignatureValidation
  BY ConsultFrame DEF Consult
<1>2. current' = current /\ certificate' = certificate
  BY <1>1, SourcesStay
<1>3. asked = 0 /\ asked' = 0
  BY DEF VInv, TypeOK, CheckEmbeddedOCSP, CheckEmbeddedCRL
<1>4. CASE CheckEmbeddedOCSP
  <2> DEFINE heard == Promise!EmbeddedOCSP(current, certificate)
  <2>1. pc = "ocsp" /\ pc' = "crl"
    BY <1>4 DEF CheckEmbeddedOCSP
  <2>2. HeardSoFar' = HeardSoFar \union heard
    BY <1>1, <2>1, SourcesStay DEF HeardSoFar, OCSPChecked, CRLChecked, OCSPAsked, CRLAsked
  <2>3. CASE ResponsesFor(current, certificate) = {}
    <3>1. cert' = cert /\ validation' = validation /\ heard = {}
      BY <1>4, <2>3, SameEvidence DEF CheckEmbeddedOCSP
    <3>2. SourceInv'
      BY <1>1, <1>2, <2>1, <2>3, <3>1
         DEF SourceInv, OCSPChecked, CRLChecked, OCSPAsked, CRLAsked
    <3>3. Consulted(heard)
      BY <2>2, <3>1, <3>2 DEF Consulted, RevokedBy
    <3> QED  BY <3>3
  <2>4. CASE ResponsesFor(current, certificate) # {}
    <3> DEFINE c == [cert EXCEPT !.ocspEmbedded = TRUE]
               status == ResponseFor(current, certificate).status
    <3>1. Learn(c, status)
      BY <1>4, <2>4 DEF CheckEmbeddedOCSP
    <3>2. status \in Status /\ heard = {status}
      BY <1>1, <2>4, ResponseForType, SameEvidence
    <3>3. /\ c \in CertificateInfo /\ c.ocspEmbedded
          /\ \A f \in {"crlEmbedded", "ocspExternal", "crlExternal"} : c[f] = cert[f]
      BY <1>1 DEF CertificateInfo
    <3> HIDE DEF c, status, heard
    <3>4. /\ validation'.revokedCertificate <=>
               validation.revokedCertificate \/ Promise!Revokes(current, status)
          /\ validation'.timeSource = validation.timeSource
          /\ validation'.verificationTime = validation.verificationTime
          /\ validation'.certificates = validation.certificates
          /\ \A f \in {"ocspEmbedded", "crlEmbedded", "ocspExternal", "crlExternal"} :
                cert'[f] = c[f]
      BY <1>1, <3>1, <3>2, <3>3, LearnRevokes
    <3>5. SourceInv'
      BY <1>1, <1>2, <2>1, <2>4, <3>3, <3>4
         DEF SourceInv, OCSPChecked, CRLChecked, OCSPAsked, CRLAsked
    <3>6. Consulted(heard)
      BY <2>2, <3>2, <3>4, <3>5 DEF Consulted, RevokedBy
    <3> QED  BY <3>6
  <2> QED  BY <2>3, <2>4
<1>5. CASE CheckEmbeddedCRL
  <2> DEFINE heard == Promise!EmbeddedCRL(current, certificate)
  <2>1. pc = "crl" /\ pc' = "askOCSP"
    BY <1>5 DEF CheckEmbeddedCRL
  <2>2. HeardSoFar' = HeardSoFar \union heard
    BY <1>1, <2>1, SourcesStay DEF HeardSoFar, OCSPChecked, CRLChecked, OCSPAsked, CRLAsked
  <2>3. CASE ListsWith(current, certificate) = {}
    <3> DEFINE b == current.crl # <<>>
    <3>1. cert' = [cert EXCEPT !.crlEmbedded = b] /\ validation' = validation /\ heard = {}
      BY <1>5, <2>3, SameEvidence DEF CheckEmbeddedCRL
    <3>2. /\ cert'.crlEmbedded = b
          /\ \A f \in {"ocspEmbedded", "ocspExternal", "crlExternal"} : cert'[f] = cert[f]
      <4> HIDE DEF b
      <4> QED  BY <1>1, <3>1 DEF CertificateInfo
    <3>3. cert'.crlEmbedded <=> current.crl # <<>>
      BY <3>2, Zenon
    <3> HIDE DEF b
    <3>4. SourceInv'
      BY <1>1, <1>2, <1>3, <2>1, <3>2, <3>3
         DEF SourceInv, OCSPChecked, CRLChecked, OCSPAsked, CRLAsked
    <3>5. Consulted(heard)
      BY <2>2, <3>1, <3>4 DEF Consulted, RevokedBy
    <3> QED  BY <3>5
  <2>4. CASE ListsWith(current, certificate) # {}
    <3> DEFINE c == [cert EXCEPT !.crlEmbedded = TRUE]
               status == [is |-> "revoked", at |-> ListedAt(current, certificate)]
    <3>1. Learn(c, status)
      BY <1>5, <2>4 DEF CheckEmbeddedCRL
    <3>2. status \in Status /\ heard = {status}
      BY <1>1, <2>4, ListedAtType, SameEvidence DEF Status
    <3>3. /\ c \in CertificateInfo /\ c.crlEmbedded
          /\ \A f \in {"ocspEmbedded", "ocspExternal", "crlExternal"} : c[f] = cert[f]
      BY <1>1 DEF CertificateInfo
    <3>4. current.crl # <<>>
      BY <2>4 DEF ListsWith
    <3> HIDE DEF c, status, heard
    <3>5. /\ validation'.revokedCertificate <=>
               validation.revokedCertificate \/ Promise!Revokes(current, status)
          /\ validation'.timeSource = validation.timeSource
          /\ validation'.verificationTime = validation.verificationTime
          /\ validation'.certificates = validation.certificates
          /\ \A f \in {"ocspEmbedded", "crlEmbedded", "ocspExternal", "crlExternal"} :
                cert'[f] = c[f]
      BY <1>1, <3>1, <3>2, <3>3, LearnRevokes
    <3>6. SourceInv'
      BY <1>1, <1>2, <1>3, <2>1, <3>3, <3>4, <3>5
         DEF SourceInv, OCSPChecked, CRLChecked, OCSPAsked, CRLAsked
    <3>7. Consulted(heard)
      BY <2>2, <3>2, <3>5, <3>6 DEF Consulted, RevokedBy
    <3> QED  BY <3>7
  <2> QED  BY <2>3, <2>4
<1> QED  BY <1>4, <1>5

\* The source that is asked over the network says nothing, or has no answer yet.
LEMMA HeardNothing ==
  ASSUME NEW heard, heard = {}, SourceInv',
         HeardSoFar' = HeardSoFar \union heard, UNCHANGED validation
  PROVE  Consulted(heard)
BY DEF Consulted, RevokedBy

\* The responders.
LEMMA RespondersConsulted ==
  ASSUME VInv, SourceInv, TimeInv, SkipExternalOCSP \/ OCSPUnavailable \/ AskResponder
  PROVE  \E heard : Consulted(heard)
<1> DEFINE servers == certificate.ocspServers
<1>1. /\ AtCertificate /\ AtCertificate' /\ Judging
      /\ UNCHANGED <<document, options, next, index>>
      /\ current \in Entry /\ cert \in CertificateInfo /\ validation \in SignatureValidation
      /\ servers \in Seq(Answer) /\ Len(servers) \in Nat
  BY ConsultFrame DEF Consult
<1>2. /\ current' = current /\ certificate' = certificate
      /\ FromResponders(certificate)' = FromResponders(certificate)
  BY <1>1, SourcesStay
<1>3. pc = "askOCSP" /\ asked \in 0..Len(servers)
  BY DEF VInv, TypeOK, SkipExternalOCSP, OCSPUnavailable, AskResponder
<1>4. /\ ~ cert.ocspExternal /\ ~ cert.crlExternal
      /\ cert.ocspEmbedded <=> ResponsesFor(current, certificate) # {}
      /\ cert.crlEmbedded <=> current.crl # <<>>
      /\ \A i \in 1..asked : ~ servers[i].got
  BY <1>1, <1>3 DEF SourceInv, OCSPChecked, CRLChecked, OCSPAsked, CRLAsked
<1>5. cert.ocspEmbedded <=> Promise!EmbeddedOCSP(current, certificate) # {}
  <2>1. Promise!EmbeddedOCSP(current, certificate) =
          IF ResponsesFor(current, certificate) = {} THEN {}
          ELSE {ResponseFor(current, certificate).status}
    BY SameEvidence
  <2> QED  BY <1>4, <2>1
<1>6. pc' = "askCRL" => HeardSoFar' = HeardSoFar \union FromResponders(certificate)
  BY <1>1, <1>3, SourcesStay DEF HeardSoFar, OCSPChecked, CRLChecked, OCSPAsked, CRLAsked
<1>7. CASE SkipExternalOCSP
  <2>1. pc' = "askCRL" /\ UNCHANGED <<cert, validation, asked>> /\ ~ AskForOCSP
    BY <1>7 DEF SkipExternalOCSP, signature
  <2>2. FromResponders(certificate) = {}
    <3>1. CASE servers = <<>>
      <4>1. \A i \in 1..Len(servers) : ~ servers[i].got
        BY <3>1
      <4> QED  BY <1>1, <4>1, HeardInVain DEF FromResponders
    <3>2. CASE servers # <<>>
      BY <1>5, <2>1, <3>2 DEF FromResponders, AskForOCSP
    <3> QED  BY <3>1, <3>2
  <2>3. asked' = 0
    BY <1>3, <2>1 DEF VInv, AskedForReason
  <2>4. SourceInv'
    BY <1>1, <1>2, <1>4, <2>1, <2>3 DEF SourceInv, OCSPChecked, CRLChecked, OCSPAsked, CRLAsked
  <2> QED  BY <1>6, <2>1, <2>2, <2>4, HeardNothing
<1>8. CASE OCSPUnavailable
  <2>1. /\ pc' = "askCRL" /\ asked' = 0 /\ UNCHANGED validation
        /\ cert' = [cert EXCEPT !.ocspExternalChecked = TRUE]
        /\ ~ HasIssuer(certificate) \/ asked = Len(servers)
    BY <1>8 DEF OCSPUnavailable
  <2>2. \A f \in {"ocspEmbedded", "crlEmbedded", "ocspExternal", "crlExternal"} : cert'[f] = cert[f]
    BY <1>1, <2>1 DEF CertificateInfo
  <2>3. FromResponders(certificate) = {}
    <3>1. CASE HasIssuer(certificate)
      <4>1. \A i \in 1..Len(servers) : ~ servers[i].got
        BY <1>4, <2>1, <3>1
      <4> QED  BY <1>1, <4>1, HeardInVain DEF FromResponders
    <3>2. CASE ~ HasIssuer(certificate)
      BY <3>2 DEF FromResponders
    <3> QED  BY <3>1, <3>2
  <2>4. SourceInv'
    BY <1>1, <1>2, <1>4, <2>1, <2>2 DEF SourceInv, OCSPChecked, CRLChecked, OCSPAsked, CRLAsked
  <2> QED  BY <1>6, <2>1, <2>3, <2>4, HeardNothing
<1>9. CASE AskResponder
  <2> DEFINE answer == servers[asked + 1]
             c == [cert EXCEPT !.ocspExternal = TRUE, !.ocspExternalChecked = TRUE]
  <2>1. /\ AskForOCSP /\ HasIssuer(certificate) /\ asked < Len(servers)
        /\ AfterAnswer(answer, c, "askCRL")
    BY <1>9 DEF AskResponder
  <2>2. asked + 1 \in 1..Len(servers) /\ (asked + 1) - 1 = asked
    BY <1>1, <1>3, <2>1
  <2>3. answer \in Answer
    BY <1>1, <2>2
  <2>4. answer.status \in Status
    BY <2>3 DEF Answer
  <2>5. CASE ~ answer.got
    <3>1. pc' = pc /\ asked' = asked + 1 /\ UNCHANGED <<cert, validation>>
      BY <2>1, <2>5 DEF AfterAnswer
    <3>2. \A i \in 1..(asked + 1) : ~ servers[i].got
      <4>1. \A i \in 1..(asked + 1) : i \in 1..asked \/ i = asked + 1
        BY <1>3
      <4> QED  BY <1>4, <2>5, <4>1
    <3>3. SourceInv'
      BY <1>1, <1>2, <1>3, <1>4, <3>1, <3>2
         DEF SourceInv, OCSPChecked, CRLChecked, OCSPAsked, CRLAsked
    <3>4. HeardSoFar' = HeardSoFar \union {}
      BY <1>1, <1>3, <3>1, SourcesStay DEF HeardSoFar, OCSPChecked, CRLChecked, OCSPAsked, CRLAsked
    <3> QED  BY <3>1, <3>3, <3>4, HeardNothing
  <2>6. CASE answer.got
    <3> DEFINE status == answer.status
    <3>1. Learn(c, status) /\ asked' = 0 /\ pc' = "askCRL"
      BY <2>1, <2>6 DEF AfterAnswer
    <3>2. FromResponders(certificate) = {status}
      <4>1. Promise!Heard(servers) = {status}
        BY <1>1, <1>4, <2>2, <2>6, HeardFirst
      <4>2. options.external /\ Promise!EmbeddedOCSP(current, certificate) = {}
        BY <1>5, <2>1 DEF AskForOCSP
      <4> QED  BY <2>1, <4>1, <4>2 DEF FromResponders
    <3>3. /\ c \in CertificateInfo /\ c.ocspExternal
          /\ \A f \in {"ocspEmbedded", "crlEmbedded", "crlExternal"} : c[f] = cert[f]
      BY <1>1 DEF CertificateInfo
    <3> HIDE DEF c, status, answer
    <3>4. /\ validation'.revokedCertificate <=>
               validation.revokedCertificate \/ Promise!Revokes(current, status)
          /\ validation'.timeSource = validation.timeSource
          /\ validation'.verificationTime = validation.verificationTime
          /\ validation'.certificates = validation.certificates
          /\ \A f \in {"ocspEmbedded", "crlEmbedded", "ocspExternal", "crlExternal"} :
                cert'[f] = c[f]
      BY <1>1, <2>4, <3>1, <3>3, LearnRevokes DEF status
    <3>5. SourceInv'
      BY <1>1, <1>2, <1>4, <3>1, <3>2, <3>3, <3>4
         DEF SourceInv, OCSPChecked, CRLChecked, OCSPAsked, CRLAsked
    <3>6. Consulted({status})
      BY <1>6, <3>1, <3>2, <3>4, <3>5 DEF Consulted, RevokedBy
    <3> QED  BY <3>6
  <2> QED  BY <2>5, <2>6
<1> QED  BY <1>7, <1>8, <1>9

\* The distribution points.
LEMMA PointsConsulted ==
  ASSUME VInv, SourceInv, TimeInv, SkipExternalCRL \/ CRLUnavailable \/ AskDistributionPoint
  PROVE  \E heard : Consulted(heard)
<1> DEFINE points == certificate.crlPoints
<1>1. /\ AtCertificate /\ AtCertificate' /\ Judging
      /\ UNCHANGED <<document, options, next, index>>
      /\ current \in Entry /\ cert \in CertificateInfo /\ validation \in SignatureValidation
      /\ points \in Seq(Answer) /\ Len(points) \in Nat
  BY ConsultFrame DEF Consult
<1>2. /\ current' = current /\ certificate' = certificate
      /\ FromResponders(certificate)' = FromResponders(certificate)
      /\ FromPoints(certificate)' = FromPoints(certificate)
  BY <1>1, SourcesStay
<1>3. pc = "askCRL" /\ asked \in 0..Len(points)
  BY DEF VInv, TypeOK, SkipExternalCRL, CRLUnavailable, AskDistributionPoint
<1>4. /\ cert.ocspExternal => FromResponders(certificate) # {}
      /\ ~ cert.crlExternal
      /\ cert.ocspEmbedded <=> ResponsesFor(current, certificate) # {}
      /\ cert.crlEmbedded <=> current.crl # <<>>
      /\ \A i \in 1..asked : ~ points[i].got
  BY <1>1, <1>3 DEF SourceInv, OCSPChecked, CRLChecked, OCSPAsked, CRLAsked
<1>5. pc' = "warn" => HeardSoFar' = HeardSoFar \union FromPoints(certificate)
  BY <1>1, <1>3, SourcesStay DEF HeardSoFar, OCSPChecked, CRLChecked, OCSPAsked, CRLAsked
<1>6. CASE SkipExternalCRL
  <2>1. pc' = "warn" /\ UNCHANGED <<cert, validation, asked>> /\ ~ AskForCRL
    BY <1>6 DEF SkipExternalCRL, signature
  <2>2. FromPoints(certificate) = {}
    <3>1. CASE points = <<>>
      <4>1. \A i \in 1..Len(points) : ~ points[i].got
        BY <3>1
      <4> QED  BY <1>1, <4>1, HeardInVain DEF FromPoints
    <3>2. CASE points # <<>>
      BY <1>4, <2>1, <3>2 DEF FromPoints, AskForCRL
    <3> QED  BY <3>1, <3>2
  <2>3. asked' = 0
    BY <1>3, <2>1 DEF VInv, AskedForReason
  <2>4. SourceInv'
    BY <1>1, <1>2, <1>4, <2>1, <2>3 DEF SourceInv, OCSPChecked, CRLChecked, OCSPAsked, CRLAsked
  <2> QED  BY <1>5, <2>1, <2>2, <2>4, HeardNothing
<1>7. CASE CRLUnavailable
  <2>1. /\ pc' = "warn" /\ asked' = 0 /\ UNCHANGED validation
        /\ cert' = [cert EXCEPT !.crlExternalChecked = TRUE] /\ asked = Len(points)
    BY <1>7 DEF CRLUnavailable
  <2>2. \A f \in {"ocspEmbedded", "crlEmbedded", "ocspExternal", "crlExternal"} : cert'[f] = cert[f]
    BY <1>1, <2>1 DEF CertificateInfo
  <2>3. FromPoints(certificate) = {}
    BY <1>1, <1>4, <2>1, HeardInVain DEF FromPoints
  <2>4. SourceInv'
    BY <1>1, <1>2, <1>4, <2>1, <2>2 DEF SourceInv, OCSPChecked, CRLChecked, OCSPAsked, CRLAsked
  <2> QED  BY <1>5, <2>1, <2>3, <2>4, HeardNothing
<1>8. CASE AskDistributionPoint
  <2> DEFINE answer == points[asked + 1]
             c == [cert EXCEPT !.crlExternal = TRUE, !.crlExternalChecked = TRUE]
  <2>1. AskForCRL /\ asked < Len(points) /\ AfterAnswer(answer, c, "warn")
    BY <1>8 DEF AskDistributionPoint
  <2>2. asked + 1 \in 1..Len(points) /\ (asked + 1) - 1 = asked
    BY <1>1, <1>3, <2>1
  <2>3. answer \in Answer
    BY <1>1, <2>2
  <2>4. answer.status \in Status
    BY <2>3 DEF Answer
  <2>5. CASE ~ answer.got
    <3>1. pc' = pc /\ asked' = asked + 1 /\ UNCHANGED <<cert, validation>>
      BY <2>1, <2>5 DEF AfterAnswer
    <3>2. \A i \in 1..(asked + 1) : ~ points[i].got
      <4>1. \A i \in 1..(asked + 1) : i \in 1..asked \/ i = asked + 1
        BY <1>3
      <4> QED  BY <1>4, <2>5, <4>1
    <3>3. SourceInv'
      BY <1>1, <1>2, <1>3, <1>4, <3>1, <3>2
         DEF SourceInv, OCSPChecked, CRLChecked, OCSPAsked, CRLAsked
    <3>4. HeardSoFar' = HeardSoFar \union {}
      BY <1>1, <1>3, <3>1, SourcesStay DEF HeardSoFar, OCSPChecked, CRLChecked, OCSPAsked, CRLAsked
    <3> QED  BY <3>1, <3>3, <3>4, HeardNothing
  <2>6. CASE answer.got
    <3> DEFINE status == answer.status
    <3>1. Learn(c, status) /\ asked' = 0 /\ pc' = "warn"
      BY <2>1, <2>6 DEF AfterAnswer
    <3>2. FromPoints(certificate) = {status}
      <4>1. Promise!Heard(points) = {status}
        BY <1>1, <1>4, <2>2, <2>6, HeardFirst
      <4>2. options.external /\ current.crl = <<>>
        BY <1>4, <2>1 DEF AskForCRL
      <4> QED  BY <4>1, <4>2 DEF FromPoints
    <3>3. /\ c \in CertificateInfo /\ c.crlExternal
          /\ \A f \in {"ocspEmbedded", "crlEmbedded", "ocspExternal"} : c[f] = cert[f]
      BY <1>1 DEF CertificateInfo
    <3> HIDE DEF c, status, answer
    <3>4. /\ validation'.revokedCertificate <=>
               validation.revokedCertificate \/ Promise!Revokes(current, status)
          /\ validation'.timeSource = validation.timeSource
          /\ validation'.verificationTime = validation.verificationTime
          /\ validation'.certificates = validation.certificates
          /\ \A f \in {"ocspEmbedded", "crlEmbedded", "ocspExternal", "crlExternal"} :
                cert'[f] = c[f]
      BY <1>1, <2>4, <3>1, <3>3, LearnRevokes DEF status
    <3>5. SourceInv'
      BY <1>1, <1>2, <1>4, <3>1, <3>2, <3>3, <3>4
         DEF SourceInv, OCSPChecked, CRLChecked, OCSPAsked, CRLAsked
    <3>6. Consulted({status})
      BY <1>5, <3>1, <3>2, <3>4, <3>5 DEF Consulted, RevokedBy
    <3> QED  BY <3>6
  <2> QED  BY <2>5, <2>6
<1> QED  BY <1>6, <1>7, <1>8

LEMMA EachSourceIsConsulted ==
  ASSUME VInv, SourceInv, TimeInv, Consult
  PROVE  \E heard : Consulted(heard)
BY EmbeddedConsulted, RespondersConsulted, PointsConsulted DEF Consult

-----------------------------------------------------------------------------
(* Every step that judges certificates keeps the invariant.                *)

LEMMA JudgingFrame ==
  ASSUME VInv, Next, Judging'
  PROVE  /\ BuildChains \/ VerifyCertificate \/ Consult \/ AppendCertificate
         /\ UNCHANGED <<document, options, next, response, outcome>>
         /\ AtSignature /\ AtSignature' /\ current' = current /\ current \in Entry
         /\ validation \in SignatureValidation /\ index \in Nat
         /\ Len(current.certificates) \in Nat
<1>1. BuildChains \/ VerifyCertificate \/ Consult \/ AppendCertificate
  BY DEF Next, Judging, AtCertificate, RejectDocument, Open, Skip, Recover, Return,
       RejectSignature, AcceptDocTimeStamp, VerifySignature, FinishSignature, Report
<1>2. UNCHANGED <<document, options, next, response, outcome>> /\ AtSignature
  BY <1>1, ConsultFrame
     DEF BuildChains, VerifyCertificate, AppendCertificate, AtSignature, AtCertificate
<1>3. current' = current
  BY <1>2 DEF current
<1>4. /\ current \in Entry /\ validation \in SignatureValidation /\ index \in Nat
      /\ Len(current.certificates) \in Nat
  <2>1. current \in Entry /\ TypeOK
    BY <1>2, CurrentType DEF VInv
  <2>2. current.certificates \in Seq(Certificate)
    BY <2>1, EntryType
  <2> QED  BY <2>1, <2>2 DEF TypeOK
<1> QED  BY <1>1, <1>2, <1>3, <1>4 DEF Judging, AtSignature

\* The choice of the time is the one that Verdicts makes, and the rest starts from nothing.
LEMMA BuildChainsStep ==
  ASSUME VInv, WalkInv, BuildChains
  PROVE  /\ TimeInv' /\ index' = 1 /\ pc' = "certificate" /\ ~ trustedIssuer'
         /\ ~ validation'.revokedCertificate /\ validation'.certificates = <<>>
         /\ errorMsg' = ParseError(current)
<1>1. Judging' /\ pc = "chains" /\ index' = 1 /\ pc' = "certificate"
  BY DEF BuildChains, Judging
<1>2. current' = current /\ validation \in SignatureValidation
  BY <1>1, JudgingFrame DEF Next
<1>3. HasTimestamp(current) <=> Promise!ProvenTime(current)
  BY DEF HasTimestamp, Promise!ProvenTime
<1>4. ~ validation.revokedCertificate /\ validation.certificates = <<>>
  BY <1>1 DEF WalkInv
<1>5. CASE HasTimestamp(current)
  <2> DEFINE at == current.stamp.at
             b == options.validateTimestamps /\ StampTrusted(current.stamp)
             w == IF options.validateTimestamps THEN StampWarnings(current.stamp) ELSE {}
  <2>1. validation' =
          [validation EXCEPT !.timeSource = "embedded_timestamp", !.verificationTime = at,
                             !.timestampTrusted = b, !.timeWarnings = w]
    BY <1>5 DEF BuildChains, WithTimestamp
  <2> HIDE DEF at, b, w
  <2>2. /\ validation'.timeSource = "embedded_timestamp" /\ validation'.verificationTime = at
        /\ validation'.revokedCertificate = validation.revokedCertificate
        /\ validation'.certificates = validation.certificates
    BY <1>2, <2>1 DEF SignatureValidation
  <2>3. TimeInv'
    BY <1>2, <1>3, <1>5, <2>2 DEF TimeInv, at
  <2> QED  BY <1>1, <1>4, <2>2, <2>3 DEF BuildChains
<1>6. CASE ~ HasTimestamp(current)
  <2>1. validation' \in {WithClaimedTime(validation, current.claimed), WithCurrentTime(validation)}
    BY <1>6 DEF BuildChains
  <2>2. /\ validation'.timeSource # "embedded_timestamp"
        /\ validation'.revokedCertificate = validation.revokedCertificate
        /\ validation'.certificates = validation.certificates
    BY <1>2, <2>1 DEF SignatureValidation, WithClaimedTime, WithCurrentTime
  <2>3. TimeInv'
    BY <1>2, <1>3, <1>6, <2>2 DEF TimeInv
  <2> QED  BY <1>1, <1>4, <2>2, <2>3 DEF BuildChains
<1> QED  BY <1>5, <1>6

\* The certificate joins the list of the signature, and nothing else changes in it.
LEMMA AppendStep ==
  ASSUME VInv, AppendCertificate
  PROVE  /\ pc = "warn" /\ pc' = "certificate" /\ index' = index + 1
         /\ UNCHANGED <<trustedIssuer, errorMsg>>
         /\ validation'.timeSource = validation.timeSource
         /\ validation'.verificationTime = validation.verificationTime
         /\ validation'.revokedCertificate = validation.revokedCertificate
         /\ validation'.certificates =
              Append(validation.certificates, [cert EXCEPT !.warning = RevocationWarning(cert)])
<1>1. validation \in SignatureValidation
  BY DEF VInv, TypeOK
<1> DEFINE certs == Append(validation.certificates, [cert EXCEPT !.warning = RevocationWarning(cert)])
<1>2. validation' = [validation EXCEPT !.certificates = certs]
  BY DEF AppendCertificate
<1> HIDE DEF certs
<1>3. /\ validation'.timeSource = validation.timeSource
      /\ validation'.verificationTime = validation.verificationTime
      /\ validation'.revokedCertificate = validation.revokedCertificate
      /\ validation'.certificates = certs
  BY <1>1, <1>2 DEF SignatureValidation
<1> QED  BY <1>3 DEF AppendCertificate, certs

LEMMA TimeKept ==
  ASSUME VInv, JInv, Next
  PROVE  TimeInv'
<1> SUFFICES ASSUME Judging' PROVE TimeInv'
  BY DEF TimeInv
<1>1. current' = current /\ (BuildChains \/ VerifyCertificate \/ Consult \/ AppendCertificate)
  BY JudgingFrame
<1>2. CASE BuildChains
  BY <1>2, BuildChainsStep DEF JInv
<1>3. CASE VerifyCertificate
  BY <1>1, <1>3 DEF JInv, TimeInv, VerifyCertificate, Judging
<1>4. CASE Consult
  BY <1>1, <1>4, ConsultFrame, EachSourceIsConsulted DEF JInv, TimeInv, Consulted
<1>5. CASE AppendCertificate
  BY <1>1, <1>5, AppendStep DEF JInv, TimeInv, Judging, AtCertificate
<1> QED  BY <1>1, <1>2, <1>3, <1>4, <1>5

LEMMA SourcesKept ==
  ASSUME VInv, JInv, Next
  PROVE  SourceInv'
<1> SUFFICES ASSUME AtCertificate' PROVE SourceInv'
  BY DEF SourceInv
<1>1. VerifyCertificate \/ Consult
  BY JudgingFrame DEF Judging, BuildChains, AppendCertificate, AtCertificate
<1>2. CASE VerifyCertificate
  <2> DEFINE b == \/ certificate.chain \in {"system", "root"}
                  \/ certificate.chain = "embedded" /\ options.allowUntrustedRoots
  <2>1. cert' = [NoCertificateInfo EXCEPT !.verified = b] /\ pc' = "ocsp"
    BY <1>2 DEF VerifyCertificate
  <2> HIDE DEF b
  <2>2. ~ cert'.ocspEmbedded /\ ~ cert'.crlEmbedded /\ ~ cert'.ocspExternal /\ ~ cert'.crlExternal
    BY <2>1 DEF NoCertificateInfo
  <2> QED  BY <2>1, <2>2 DEF SourceInv, OCSPChecked, CRLChecked, OCSPAsked, CRLAsked
<1>3. CASE Consult
  BY <1>3, EachSourceIsConsulted DEF JInv, Consulted
<1> QED  BY <1>1, <1>2, <1>3

LEMMA ErrorsKept ==
  ASSUME VInv, JInv, Next
  PROVE  ErrorInv'
<1> SUFFICES ASSUME Judging' PROVE ErrorInv'
  BY DEF ErrorInv
<1>1. /\ current' = current /\ index \in Nat
      /\ BuildChains \/ VerifyCertificate \/ Consult \/ AppendCertificate
  BY JudgingFrame
<1>2. ParseError(current)' = ParseError(current)
  BY <1>1 DEF ParseError
<1>3. CASE BuildChains
  <2>1. errorMsg' = ParseError(current) /\ index' = 1 /\ pc' = "certificate"
    BY <1>3, BuildChainsStep DEF JInv
  <2>2. 1..(index' - 1) = {}
    BY <2>1
  <2> QED  BY <1>2, <2>1, <2>2 DEF ErrorInv, OCSPChecked
<1>4. CASE VerifyCertificate
  <2>1. pc = "certificate" /\ pc' = "ocsp" /\ UNCHANGED <<index, errorMsg>>
    BY <1>4 DEF VerifyCertificate
  <2> QED  BY <1>1, <1>2, <2>1 DEF JInv, ErrorInv, OCSPChecked, Judging, UnsignedFor
<1>5. CASE Consult
  <2>1. Judging /\ index' = index /\ certificate' = certificate
    BY <1>5, ConsultFrame, SourcesStay
  <2>2. UnsignedFor(current, certificate)' = UnsignedFor(current, certificate)
    BY <1>1, <2>1 DEF UnsignedFor
  <2>3. CASE CheckEmbeddedOCSP
    <3>1. CASE UnsignedFor(current, certificate)
      <4>1. errorMsg' = "ocspSignature"
        BY <2>3, <3>1 DEF CheckEmbeddedOCSP, UnsignedFor
      <4> QED  BY <4>1 DEF ErrorInv
    <3>2. CASE ~ UnsignedFor(current, certificate)
      <4>1. errorMsg # "none" => errorMsg' # "none"
        BY <2>3 DEF CheckEmbeddedOCSP
      <4> QED  BY <1>1, <1>2, <2>1, <2>2, <3>2, <4>1 DEF JInv, ErrorInv, UnsignedFor
    <3> QED  BY <3>1, <3>2
  <2>4. CASE ~ CheckEmbeddedOCSP
    <3>1. errorMsg' = errorMsg /\ OCSPChecked
      BY <1>5, <2>4
         DEF Consult, CheckEmbeddedCRL, SkipExternalOCSP, OCSPUnavailable, AskResponder,
             SkipExternalCRL, CRLUnavailable, AskDistributionPoint, signature, OCSPChecked
    <3> QED  BY <1>1, <1>2, <2>1, <2>2, <3>1 DEF JInv, ErrorInv, UnsignedFor
  <2> QED  BY <2>3, <2>4
<1>6. CASE AppendCertificate
  <2>1. /\ pc = "warn" /\ pc' = "certificate" /\ index' = index + 1 /\ errorMsg' = errorMsg
        /\ Judging /\ OCSPChecked /\ ~ OCSPChecked'
    BY <1>6, AppendStep DEF Judging, AtCertificate, OCSPChecked
  <2>2. \A i \in 1..(index' - 1) : i \in 1..(index - 1) \/ i = index
    BY <1>1, <2>1
  <2>3. \A i \in 1..(index' - 1) :
           UnsignedFor(current, current.certificates[i]) => errorMsg # "none"
    BY <2>1, <2>2 DEF JInv, ErrorInv, certificate
  <2> QED  BY <1>1, <1>2, <2>1, <2>3 DEF JInv, ErrorInv, UnsignedFor
<1> QED  BY <1>1, <1>3, <1>4, <1>5, <1>6

LEMMA TrustKept ==
  ASSUME VInv, JInv, Next
  PROVE  TrustInv'
<1> SUFFICES ASSUME Judging' PROVE TrustInv'
  BY DEF TrustInv
<1> DEFINE Root(i) == current.certificates[i].chain \in {"system", "root"}
<1>1. /\ current' = current /\ index \in Nat
      /\ BuildChains \/ VerifyCertificate \/ Consult \/ AppendCertificate
  BY JudgingFrame
<1>2. CASE BuildChains
  <2>1. ~ trustedIssuer' /\ index' = 1 /\ pc' = "certificate"
    BY <1>2, BuildChainsStep DEF JInv
  <2>2. 1..(IF AtCertificate THEN index ELSE index - 1)' = {}
    BY <2>1 DEF AtCertificate
  <2> QED  BY <2>1, <2>2 DEF TrustInv
<1>3. CASE VerifyCertificate
  <2>1. /\ pc = "certificate" /\ pc' = "ocsp" /\ index' = index
        /\ trustedIssuer' = (trustedIssuer \/ Root(index))
        /\ index \in Nat /\ index >= 1
    BY <1>3 DEF VerifyCertificate, certificate, VInv
  <2>2. trustedIssuer <=> \E i \in 1..(index - 1) : Root(i)
    BY <2>1 DEF JInv, TrustInv, Judging, AtCertificate
  <2>3. \A i : i \in 1..index <=> i \in 1..(index - 1) \/ i = index
    BY <2>1
  <2> HIDE DEF Root
  <2>4. trustedIssuer' <=> \E i \in 1..index : Root(i)
    BY <2>1, <2>2, <2>3
  <2> QED  BY <1>1, <2>1, <2>4 DEF TrustInv, AtCertificate, Root
<1>4. CASE Consult
  <2>1. AtCertificate /\ AtCertificate' /\ Judging /\ UNCHANGED <<index, trustedIssuer>>
    BY <1>4, ConsultFrame
  <2> QED  BY <1>1, <2>1 DEF JInv, TrustInv
<1>5. CASE AppendCertificate
  <2>1. /\ AtCertificate /\ ~ AtCertificate' /\ Judging
        /\ index' - 1 = index /\ trustedIssuer' = trustedIssuer
    BY <1>1, <1>5, AppendStep DEF Judging, AtCertificate
  <2> QED  BY <1>1, <2>1 DEF JInv, TrustInv
<1> QED  BY <1>1, <1>2, <1>3, <1>4, <1>5

\* All that Verdicts heeds of a certificate is the same after the step.
LEMMA HeededStays ==
  ASSUME UNCHANGED <<document, options, next>>, NEW i
  PROVE  Promise!Heeded(current, current.certificates[i])' =
           Promise!Heeded(current, current.certificates[i])
<1>1. current' = current
  BY DEF current
<1> QED  BY <1>1 DEF Promise!Heeded

LEMMA RevocationKept ==
  ASSUME VInv, JInv, Next
  PROVE  RevocationInv'
<1> SUFFICES ASSUME Judging' PROVE RevocationInv'
  BY DEF RevocationInv
<1> DEFINE At(i) == RevokedBy(Promise!Heeded(current, current.certificates[i]))
           Before(k) == \E i \in 1..(k - 1) : At(i)
<1>1. /\ current' = current /\ index \in Nat /\ UNCHANGED <<document, options, next>>
      /\ BuildChains \/ VerifyCertificate \/ Consult \/ AppendCertificate
  BY JudgingFrame
<1>2. \A i : At(i)' <=> At(i)
  BY <1>1, HeededStays DEF RevokedBy
<1> HIDE DEF At
<1>3. SUFFICES validation'.revokedCertificate <=> Before(index') \/ RevokedBy(HeardSoFar)'
  BY <1>2 DEF RevocationInv, At
<1>4. Judging => (validation.revokedCertificate <=> Before(index) \/ RevokedBy(HeardSoFar))
  BY DEF JInv, RevocationInv, At
<1>5. CASE BuildChains
  <2>1. ~ validation'.revokedCertificate /\ index' = 1 /\ pc' = "certificate"
    BY <1>5, BuildChainsStep DEF JInv
  <2>2. HeardSoFar' = {} /\ 1..(index' - 1) = {}
    BY <2>1 DEF HeardSoFar, OCSPChecked, CRLChecked, OCSPAsked, CRLAsked
  <2> QED  BY <2>1, <2>2 DEF RevokedBy
<1>6. CASE VerifyCertificate
  <2>1. pc = "certificate" /\ pc' = "ocsp" /\ UNCHANGED <<index, validation>> /\ Judging
    BY <1>6 DEF VerifyCertificate, Judging
  <2>2. HeardSoFar = {} /\ HeardSoFar' = {}
    BY <2>1 DEF HeardSoFar, OCSPChecked, CRLChecked, OCSPAsked, CRLAsked
  <2> QED  BY <1>4, <2>1, <2>2 DEF RevokedBy
<1>7. CASE Consult
  <2>1. Judging /\ index' = index
    BY <1>7, ConsultFrame
  <2>2. PICK heard : Consulted(heard)
    BY <1>7, EachSourceIsConsulted DEF JInv
  <2>3. RevokedBy(HeardSoFar)' <=> RevokedBy(HeardSoFar) \/ RevokedBy(heard)
    BY <1>1, <2>2 DEF RevokedBy, Consulted
  <2>4. validation'.revokedCertificate <=> validation.revokedCertificate \/ RevokedBy(heard)
    BY <2>2 DEF Consulted
  <2> HIDE DEF Before
  <2> QED  BY <1>4, <2>1, <2>3, <2>4
<1>8. CASE AppendCertificate
  <2>1. /\ pc = "warn" /\ pc' = "certificate" /\ index' = index + 1 /\ Judging
        /\ validation'.revokedCertificate = validation.revokedCertificate
        /\ index >= 1
    BY <1>8, AppendStep DEF Judging, AtCertificate, VInv
  <2>2. RevokedBy(HeardSoFar) <=> At(index)
    BY <2>1, FourSources
       DEF HeardSoFar, OCSPChecked, CRLChecked, OCSPAsked, CRLAsked, At, certificate, RevokedBy
  <2>3. HeardSoFar' = {}
    BY <2>1 DEF HeardSoFar, OCSPChecked, CRLChecked, OCSPAsked, CRLAsked
  <2>4. \A i : i \in 1..(index' - 1) <=> i \in 1..(index - 1) \/ i = index
    BY <1>1, <2>1
  <2>5. Before(index') <=> Before(index) \/ At(index)
    BY <2>4
  <2>6. ~ RevokedBy(HeardSoFar)'
    BY <2>3 DEF RevokedBy
  <2> HIDE DEF Before
  <2> QED  BY <1>4, <2>1, <2>2, <2>5, <2>6
<1> QED  BY <1>1, <1>5, <1>6, <1>7, <1>8

\* Of a certificate without a source that was heard nothing is noted.
LEMMA GapIsNoted ==
  ASSUME VInv, SourceInv, pc = "warn", current.crl = <<>>,
         Promise!Heeded(current, certificate) = {}
  PROVE  RevocationWarning(cert) # "none"
<1>1. /\ cert.ocspEmbedded <=> ResponsesFor(current, certificate) # {}
      /\ ~ cert.crlEmbedded
      /\ cert.ocspExternal => FromResponders(certificate) # {}
      /\ cert.crlExternal => FromPoints(certificate) # {}
  BY DEF SourceInv, AtCertificate, OCSPChecked, CRLChecked, OCSPAsked, CRLAsked
<1>2. /\ Promise!EmbeddedOCSP(current, certificate) = {}
      /\ FromResponders(certificate) = {} /\ FromPoints(certificate) = {}
  BY FourSources
<1>3. ResponsesFor(current, certificate) = {}
  <2>1. Promise!EmbeddedOCSP(current, certificate) =
          IF ResponsesFor(current, certificate) = {} THEN {}
          ELSE {ResponseFor(current, certificate).status}
    BY SameEvidence
  <2> QED  BY <1>2, <2>1
<1> QED  BY <1>1, <1>2, <1>3 DEF RevocationWarning

LEMMA ListKept ==
  ASSUME VInv, JInv, Next, WalkInv'
  PROVE  ListInv'
<1>1. CASE ~ Judging'
  <2>1. validation'.certificates = <<>>
    <3>1. AtSignature' => pc' = "chains"
      BY <1>1 DEF Judging, AtSignature
    <3>2. NoValidation.certificates = <<>>
      BY DEF NoValidation
    <3> QED  BY <3>1, <3>2 DEF WalkInv
  <2> QED  BY <1>1, <2>1 DEF ListInv, GapsAreWarned
<1>2. CASE Judging'
  <2>1. /\ current' = current /\ index \in Nat /\ UNCHANGED <<document, options, next>>
        /\ validation \in SignatureValidation
        /\ BuildChains \/ VerifyCertificate \/ Consult \/ AppendCertificate
    BY <1>2, JudgingFrame
  <2>2. \A i : Promise!Heeded(current, current.certificates[i])' =
                 Promise!Heeded(current, current.certificates[i])
    BY <2>1, HeededStays
  <2>3. CASE BuildChains
    <3>1. index' = 1 /\ validation'.certificates = <<>>
      BY <2>3, BuildChainsStep DEF JInv
    <3> QED  BY <3>1 DEF ListInv, GapsAreWarned
  <2>4. CASE VerifyCertificate \/ Consult
    <3>1. Judging /\ index' = index /\ validation'.certificates = validation.certificates
      <4>1. CASE VerifyCertificate
        BY <4>1 DEF VerifyCertificate, Judging
      <4>2. CASE Consult
        BY <4>2, ConsultFrame, EachSourceIsConsulted DEF JInv, Consulted
      <4> QED  BY <2>4, <4>1, <4>2
    <3> QED  BY <2>1, <2>2, <3>1 DEF JInv, ListInv, GapsAreWarned
  <2>5. CASE AppendCertificate
    <3> DEFINE s == validation.certificates
               w == RevocationWarning(cert)
               c == [cert EXCEPT !.warning = w]
    <3>1. /\ pc = "warn" /\ index' = index + 1 /\ validation'.certificates = Append(s, c)
          /\ Judging
      BY <2>5, AppendStep DEF Judging, AtCertificate
    <3>2. s \in Seq(CertificateInfo) /\ Len(s) = index - 1
      BY <2>1, <3>1 DEF SignatureValidation, JInv, ListInv
    <3>3. c.warning = w
      <4>1. cert \in CertificateInfo
        BY DEF VInv, TypeOK
      <4> HIDE DEF w
      <4> QED  BY <4>1 DEF CertificateInfo
    <3>4. current.crl = <<>> /\ Promise!Heeded(current, current.certificates[index]) = {} =>
            c.warning # "none"
      BY <3>1, <3>3, GapIsNoted DEF JInv, certificate
    <3> HIDE DEF c
    <3>5. /\ Len(Append(s, c)) = index /\ DOMAIN Append(s, c) = 1..index
          /\ Append(s, c)[index] = c
          /\ \A i \in 1..(index - 1) : Append(s, c)[i] = s[i] /\ i \in DOMAIN s
      BY <2>1, <3>2
    <3>6. \A i \in 1..index : i \in 1..(index - 1) \/ i = index
      BY <2>1
    <3>7. GapsAreWarned'
      <4> SUFFICES ASSUME NEW i \in 1..index,
                          Promise!Heeded(current, current.certificates[i])' = {},
                          current.crl = <<>>
                   PROVE  Append(s, c)[i].warning # "none"
        BY <2>1, <3>1, <3>5 DEF GapsAreWarned
      <4>1. Promise!Heeded(current, current.certificates[i]) = {}
        BY <2>2
      <4>2. CASE i = index
        BY <3>4, <3>5, <4>1, <4>2
      <4>3. CASE i # index
        BY <3>5, <3>6, <4>1, <4>3 DEF JInv, ListInv, GapsAreWarned
      <4> QED  BY <4>2, <4>3
    <3> QED  BY <2>1, <3>1, <3>5, <3>7 DEF ListInv
  <2> QED  BY <2>1, <2>3, <2>4, <2>5
<1> QED  BY <1>1, <1>2

LEMMA WalkKept ==
  ASSUME VInv, JInv, Next
  PROVE  WalkInv'
<1> USE DEF WalkInv
<1>1. CASE Judging'
  <2>1. /\ AtSignature /\ AtSignature' /\ UNCHANGED <<document, next, response, outcome>>
    BY <1>1, JudgingFrame
  <2>2. pc' \notin {"chains", "open", "done"} /\ pc \notin {"open", "done"}
    BY <1>1, <2>1 DEF Judging, AtSignature, AtCertificate
  <2> QED  BY <2>1, <2>2 DEF JInv
<1>2. CASE RejectDocument \/ Open \/ Skip \/ Recover \/ Return
  BY <1>2 DEF JInv, RejectDocument, Open, Skip, Recover, Return, signature, AtSignature,
       AtCertificate, VInv, TypeOK
<1>3. CASE RejectSignature \/ AcceptDocTimeStamp
  BY <1>3 DEF JInv, RejectSignature, AcceptDocTimeStamp, Report, signature, AtSignature,
       AtCertificate
<1>4. CASE VerifySignature
  <2> DEFINE t == current.digest = "chain"
  <2>1. validation' = [NoValidation EXCEPT !.validSignature = TRUE, !.trustedIssuer = t]
    BY <1>4 DEF VerifySignature
  <2> HIDE DEF t
  <2>2. ~ validation'.revokedCertificate /\ validation'.certificates = <<>>
    BY <2>1 DEF NoValidation
  <2> QED  BY <1>4, <2>2 DEF JInv, VerifySignature, AtSignature, AtCertificate
<1>5. CASE FinishSignature
  BY <1>5 DEF JInv, FinishSignature, Report, NewSignature, AtSignature, AtCertificate
<1>6. CASE ~ Judging'
  <2>1. ~ (BuildChains \/ VerifyCertificate \/ Consult \/ AppendCertificate)
    BY <1>6, ConsultFrame
       DEF BuildChains, VerifyCertificate, AppendCertificate, Judging, AtCertificate
  <2> QED  BY <1>2, <1>3, <1>4, <1>5, <2>1 DEF Next
<1> QED  BY <1>1, <1>6

\* A signature whose certificates have all been passed has an error for its bad evidence.
LEMMA FinishedEvidence ==
  ASSUME VInv, ErrorInv, FinishSignature, BadEvidence(current)
  PROVE  errorMsg # "none"
<1>1. /\ Judging /\ pc = "certificate" /\ index > Len(current.certificates)
      /\ index \in 1..(Len(current.certificates) + 1)
  BY DEF FinishSignature, Judging, VInv
<1>2. current.certificates \in Seq(Certificate)
  BY <1>1, CurrentType, EntryType DEF VInv, AtSignature
<1>3. index - 1 = Len(current.certificates)
  BY <1>1, <1>2
<1>4. CASE ParseError(current) # "none"
  BY <1>1, <1>4 DEF ErrorInv
<1>5. CASE ParseError(current) = "none"
  <2>1. PICK c \in Range(current.certificates) : UnsignedFor(current, c)
    BY <1>5 DEF BadEvidence, ParseError, UnsignedFor
  <2>2. PICK i \in 1..Len(current.certificates) : c = current.certificates[i]
    BY <1>2, <2>1 DEF Range
  <2> QED  BY <1>1, <1>3, <2>1, <2>2 DEF ErrorInv
<1> QED  BY <1>4, <1>5

LEMMA PassedKept ==
  ASSUME VInv, JInv, Next
  PROVE  PassedInv'
<1> SUFFICES ASSUME outcome' # "error" PROVE PassedInv'
  BY DEF PassedInv
<1> DEFINE Bad(i) == /\ document.objects[i].kind = "Sig" /\ document.objects[i].parses
                     /\ BadEvidence(document.objects[i])
<1>1. next \in Nat /\ Len(document.objects) \in Nat
  BY ObjectsType DEF VInv, TypeOK
<1>2. (\E i \in 1..(next - 1) : Bad(i)) /\ outcome # "error" => response.error # "none"
  BY DEF JInv, PassedInv
<1>3. ASSUME UNCHANGED <<document, next, response>>, outcome # "error"
      PROVE  PassedInv'
  BY <1>2, <1>3 DEF PassedInv, BadEvidence
<1>4. CASE Judging' \/ Open \/ Return \/ VerifySignature
  <2>1. UNCHANGED <<document, next, response>>
    BY <1>4, JudgingFrame DEF Open, Return, VerifySignature
  <2>2. outcome # "error"
    <3>1. pc # "done"
      BY <1>4, JudgingFrame DEF Open, Return, VerifySignature, AtSignature, AtCertificate
    <3> QED  BY <3>1 DEF JInv, WalkInv
  <2> QED  BY <1>3, <2>1, <2>2
<1>5. ASSUME next' = next + 1, document' = document, pc # "done",
             Bad(next) => response'.error # "none",
             response.error # "none" => response'.error # "none"
      PROVE  PassedInv'
  <2>1. \A i \in 1..(next' - 1) : i \in 1..(next - 1) \/ i = next
    BY <1>1, <1>5
  <2>2. outcome # "error"
    BY <1>5 DEF JInv, WalkInv
  <2>3. \A i \in 1..(next' - 1) : Bad(i) => response'.error # "none"
    BY <1>2, <1>5, <2>1, <2>2
  <2> QED  BY <1>5, <2>3 DEF PassedInv, BadEvidence
<1>6. CASE Skip
  BY <1>5, <1>6 DEF Skip, Skippable, current
<1>7. CASE RejectSignature
  BY <1>5, <1>7 DEF RejectSignature, Report
<1>8. CASE AcceptDocTimeStamp
  BY <1>5, <1>8 DEF AcceptDocTimeStamp, Report, current
<1>9. CASE FinishSignature
  <2>1. Bad(next) => errorMsg # "none"
    BY <1>9, FinishedEvidence DEF JInv, current
  <2> QED  BY <1>5, <1>9, <2>1 DEF FinishSignature, Report
<1>10. CASE RejectDocument \/ Recover
  BY <1>10 DEF RejectDocument, Recover
<1>11. CASE BuildChains \/ VerifyCertificate \/ Consult \/ AppendCertificate
  <2>1. Judging'
    BY <1>11, ConsultFrame DEF BuildChains, VerifyCertificate, AppendCertificate, Judging, AtCertificate
  <2> QED  BY <1>4, <2>1
<1> QED  BY <1>4, <1>6, <1>7, <1>8, <1>9, <1>10, <1>11 DEF Next

LEMMA InitJ == Init => JInv
<1> SUFFICES ASSUME Init PROVE JInv
  OBVIOUS
<1>1. ~ Judging /\ ~ AtCertificate /\ ~ AtSignature /\ next - 1 = 0
  BY DEF Init, Judging, AtSignature, AtCertificate
<1>2. validation.certificates = <<>>
  BY DEF Init, NoValidation
<1>3. WalkInv
  BY <1>1 DEF Init, WalkInv
<1>4. PassedInv
  BY <1>1 DEF PassedInv
<1>5. ListInv
  BY <1>1, <1>2 DEF ListInv, GapsAreWarned
<1> QED
  BY <1>1, <1>3, <1>4, <1>5 DEF JInv, ErrorInv, TimeInv, SourceInv, TrustInv, RevocationInv

LEMMA StutterKeepsJ ==
  ASSUME JInv, UNCHANGED vars
  PROVE  JInv'
<1>1. /\ UNCHANGED <<document, options, pc, next, index, asked, cert, validation, trustedIssuer,
                     errorMsg, response, outcome>>
      /\ current' = current /\ certificate' = certificate
      /\ AtCertificate' = AtCertificate /\ AtSignature' = AtSignature /\ Judging' = Judging
      /\ OCSPChecked' = OCSPChecked /\ CRLChecked' = CRLChecked
      /\ OCSPAsked' = OCSPAsked /\ CRLAsked' = CRLAsked
  BY DEF vars, signature, current, certificate, AtCertificate, AtSignature, Judging,
       OCSPChecked, CRLChecked, OCSPAsked, CRLAsked
<1>2. /\ \A i : Promise!Heeded(current, current.certificates[i])' =
                  Promise!Heeded(current, current.certificates[i])
      /\ FromResponders(certificate)' = FromResponders(certificate)
      /\ FromPoints(certificate)' = FromPoints(certificate)
      /\ HeardSoFar' = HeardSoFar
  BY <1>1, HeededStays, SourcesStay DEF HeardSoFar
<1>3. WalkInv' /\ PassedInv'
  BY <1>1 DEF JInv, WalkInv, PassedInv, BadEvidence
<1>4. ErrorInv' /\ TimeInv' /\ TrustInv'
  BY <1>1 DEF JInv, ErrorInv, TimeInv, TrustInv, ParseError, UnsignedFor
<1>5. SourceInv'
  BY <1>1, <1>2 DEF JInv, SourceInv
<1>6. RevocationInv'
  BY <1>1, <1>2 DEF JInv, RevocationInv, RevokedBy
<1>7. ListInv'
  BY <1>1, <1>2 DEF JInv, ListInv, GapsAreWarned
<1> QED  BY <1>3, <1>4, <1>5, <1>6, <1>7 DEF JInv

LEMMA NextKeepsJ ==
  ASSUME VInv, JInv, [Next]_vars
  PROVE  JInv'
<1>1. CASE Next
  BY <1>1, WalkKept, PassedKept, ErrorsKept, TimeKept, SourcesKept, TrustKept, RevocationKept,
     ListKept DEF JInv
<1>2. CASE UNCHANGED vars
  BY <1>2, StutterKeepsJ
<1> QED  BY <1>1, <1>2

LEMMA Inductive == Spec => [](VInv /\ JInv)
<1>1. Init => VInv /\ JInv
  BY InitV, InitJ
<1>2. VInv /\ JInv /\ [Next]_vars => (VInv /\ JInv)'
  BY NextKeepsV, NextKeepsJ
<1> QED  BY <1>1, <1>2, PTL DEF Spec

-----------------------------------------------------------------------------
(* The refinement.                                                         *)

\* The verdict that a validation amounts to, and those of a response.
VerdictOf(v) ==
  [valid |-> v.validSignature, trusted |-> v.trustedIssuer, revoked |-> v.revokedCertificate]

VerdictsOf(s) == [i \in DOMAIN s |-> VerdictOf(s[i])]

LEMMA VerdictsOfAppend ==
  ASSUME NEW s \in Seq(SignatureValidation), NEW v \in SignatureValidation
  PROVE  VerdictsOf(Append(s, v)) = Append(VerdictsOf(s), VerdictOf(v))
<1> DEFINE V == [valid: BOOLEAN, trusted: BOOLEAN, revoked: BOOLEAN]
           n == Len(s)
           t == Append(s, v)
<1>1. \A w \in SignatureValidation : VerdictOf(w) \in V
  BY DEF SignatureValidation, VerdictOf
<1> HIDE DEF V
<1>2. /\ n \in Nat /\ DOMAIN s = 1..n /\ \A i \in 1..n : s[i] \in SignatureValidation
      /\ t \in Seq(SignatureValidation) /\ Len(t) = n + 1 /\ DOMAIN t = 1..(n + 1)
      /\ t[n + 1] = v /\ \A i \in 1..n : t[i] = s[i]
  OBVIOUS
<1> HIDE DEF t, n
<1>3. VerdictsOf(s) \in Seq(V) /\ Len(VerdictsOf(s)) = n
  <2>1. VerdictsOf(s) \in [1..n -> V]
    BY <1>1, <1>2 DEF VerdictsOf
  <2> QED  BY <1>2, <2>1
<1>4. VerdictsOf(t) \in [1..(n + 1) -> V]
  <2>1. \A i \in 1..(n + 1) : t[i] \in SignatureValidation
    BY <1>2
  <2> QED  BY <1>1, <1>2, <2>1 DEF VerdictsOf
<1> DEFINE q == VerdictsOf(s)
           x == VerdictOf(v)
           a == Append(q, x)
<1>5. /\ a \in [1..(n + 1) -> V] /\ a[n + 1] = x
      /\ \A i \in 1..n : a[i] = q[i]
  <2>1. q \in Seq(V) /\ Len(q) = n /\ x \in V
    BY <1>1, <1>3
  <2> HIDE DEF q, x
  <2>2. a \in Seq(V) /\ Len(a) = n + 1 /\ a[n + 1] = x /\ \A i \in 1..n : a[i] = q[i]
    BY <2>1
  <2> HIDE DEF a
  <2> QED  BY <2>2
<1> HIDE DEF a
<1>6. \A i \in 1..(n + 1) : VerdictsOf(t)[i] = a[i]
  <2> TAKE i \in 1..(n + 1)
  <2>1. VerdictsOf(t)[i] = VerdictOf(t[i])
    BY <1>2 DEF VerdictsOf
  <2>2. CASE i = n + 1
    BY <1>2, <1>5, <2>1, <2>2
  <2>3. CASE i # n + 1
    <3>1. i \in 1..n
      BY <1>2, <2>3
    <3>2. VerdictsOf(s)[i] = VerdictOf(s[i])
      BY <1>2, <3>1 DEF VerdictsOf
    <3> QED  BY <1>2, <1>5, <2>1, <3>1, <3>2
  <2> QED  BY <2>2, <2>3
<1>7. VerdictsOf(t) = a
  <2> DEFINE f == VerdictsOf(t)
             D == 1..(n + 1)
  <2>1. f \in [D -> V] /\ a \in [D -> V] /\ \A i \in D : f[i] = a[i]
    BY <1>4, <1>5, <1>6
  <2> HIDE DEF f, D
  <2>2. f = a
    BY <2>1
  <2> QED  BY <2>2 DEF f
<1> QED  BY <1>7 DEF t, a

LEMMA SameDocuments ==
  /\ Promise!Document = Document /\ Promise!VerifyOptions = VerifyOptions
<1>1. Promise!Status = Status /\ Promise!Time = Time /\ Promise!NoTime = NoTime
  BY DEF Promise!Status, Status, Promise!Time, Time, Promise!NoTime, NoTime
<1>2. Promise!Certificate = Certificate /\ Promise!OCSPResponse = OCSPResponse
  BY <1>1 DEF Promise!Certificate, Certificate, Promise!Answer, Answer,
              Promise!OCSPResponse, OCSPResponse
<1>3. Promise!RevocationList = RevocationList /\ Promise!Stamp = Stamp
  BY <1>1 DEF Promise!RevocationList, RevocationList, Promise!Stamp, Stamp
<1>4. Promise!Entry = Entry
  BY <1>1, <1>2, <1>3 DEF Promise!Entry, Entry
<1> QED  BY <1>4 DEF Promise!Document, Document, Promise!VerifyOptions, VerifyOptions

\* The call starts where Verdicts starts.
LEMMA InitRefines == Init => Promise!Init
<1> SUFFICES ASSUME Init PROVE Promise!Init
  OBVIOUS
<1>1. document \in Promise!Document /\ options \in Promise!VerifyOptions
  BY DocumentsAssumption, OptionSetsAssumption, SameDocuments DEF Init
<1>2. response.signatures = <<>> /\ next - 1 = 0 /\ outcome = "none"
  BY DEF Init, NoResponse
<1> QED  BY <1>1, <1>2 DEF Promise!Init

\* What the walk finds wrong with a signature is what makes it invalid.
LEMMA ValidityIsTheSame ==
  ASSUME NEW entry \in Entry, entry.kind \in {"Sig", "DocTimeStamp"}
  PROVE  Promise!Valid(entry) <=> FirstError(entry) = "none"
<1>1. /\ entry.stamp.token \in {"none", "unparsable", "mismatch", "ok"}
      /\ entry.digest \in {"chain", "alone", "neither"} /\ entry.byteRange \in BOOLEAN
  <2>1. entry.stamp \in Stamp
    BY EntryType
  <2> QED  BY <2>1 DEF Stamp, Entry
<1>2. CASE entry.kind = "DocTimeStamp"
  BY <1>1, <1>2 DEF Promise!Valid, FirstError
<1>3. CASE entry.kind = "Sig"
  BY <1>1, <1>3 DEF Promise!Valid, FirstError
<1> QED  BY <1>2, <1>3

\* The verdict on a signature whose certificates have all been judged.
LEMMA JudgedAsPromised ==
  ASSUME VInv, JInv, FinishSignature
  PROVE  VerdictOf([validation EXCEPT !.trustedIssuer = trustedIssuer]) =
           Promise!Verdict(current)
<1> DEFINE n == Len(current.certificates)
           v == [validation EXCEPT !.trustedIssuer = trustedIssuer]
<1>1. /\ pc = "certificate" /\ Judging /\ AtSignature /\ ~ AtCertificate
      /\ index > n /\ index \in 1..(n + 1)
  BY DEF FinishSignature, Judging, AtSignature, AtCertificate, VInv
<1>2. /\ current \in Entry /\ current.kind = "Sig" /\ FirstError(current) = "none"
      /\ validation \in SignatureValidation /\ trustedIssuer \in BOOLEAN
      /\ validation.validSignature = TRUE
  <2>1. validation \in SignatureValidation
    BY DEF VInv, TypeOK
  <2>2. validation.validSignature \in BOOLEAN
    BY <2>1 DEF SignatureValidation
  <2> QED  BY <1>1, <2>1, <2>2, CurrentType DEF VInv, TypeOK
<1>3. current.certificates \in Seq(Certificate)
  BY <1>2, EntryType
<1>4. index - 1 = n /\ DOMAIN current.certificates = 1..n
  BY <1>1, <1>3
<1>5. trustedIssuer <=> Promise!Trusted(current)
  <2>1. trustedIssuer <=>
          \E i \in 1..n : current.certificates[i].chain \in {"system", "root"}
    BY <1>1, <1>4 DEF JInv, TrustInv
  <2> QED  BY <1>4, <2>1 DEF Promise!Trusted, Promise!Range
<1>6. validation.revokedCertificate <=> Promise!Revoked(current)
  <2>1. HeardSoFar = {}
    BY <1>1 DEF HeardSoFar, OCSPChecked, CRLChecked, OCSPAsked, CRLAsked
  <2>2. validation.revokedCertificate <=>
          \E i \in 1..n : RevokedBy(Promise!Heeded(current, current.certificates[i]))
    BY <1>1, <1>4, <2>1 DEF JInv, RevocationInv, RevokedBy
  <2> QED  BY <1>4, <2>2 DEF Promise!Revoked, Promise!Range, RevokedBy
<1>7. Promise!Valid(current)
  BY <1>2, ValidityIsTheSame
<1>8. /\ v.validSignature = TRUE /\ v.trustedIssuer = trustedIssuer
      /\ v.revokedCertificate = validation.revokedCertificate
      /\ validation.revokedCertificate \in BOOLEAN
  BY <1>2 DEF SignatureValidation
<1> HIDE DEF v
<1>9. trustedIssuer = Promise!Trusted(current)
  BY <1>2, <1>5 DEF Promise!Trusted
<1>10. validation.revokedCertificate = Promise!Revoked(current)
  BY <1>6, <1>8 DEF Promise!Revoked
<1>11. Promise!Verdict(current) =
         [valid |-> TRUE, trusted |-> Promise!Trusted(current), revoked |-> Promise!Revoked(current)]
  BY <1>2, <1>7 DEF Promise!Verdict
<1>12. VerdictOf(v) = Promise!Verdict(current)
  BY <1>8, <1>9, <1>10, <1>11 DEF VerdictOf
<1> QED  BY <1>12 DEF v

\* An object that is dealt with in one of these ways is judged as Verdicts judges it.
LEMMA JudgeRefines ==
  ASSUME VInv, JInv, pc \notin {"open", "done"}, next <= Len(document.objects),
         current.kind # "panics", next' = next + 1,
         UNCHANGED <<document, options, outcome>>,
         VerdictsOf(response'.signatures) =
           IF Promise!IsSignature(current)
           THEN Append(VerdictsOf(response.signatures), Promise!Verdict(current))
           ELSE VerdictsOf(response.signatures)
  PROVE  Promise!Judge
<1>1. next \in Nat /\ Len(document.objects) \in Nat
  BY ObjectsType DEF VInv, TypeOK
<1>2. (next - 1) + 1 = next /\ next - 1 < Len(document.objects) /\ next' - 1 = (next - 1) + 1
  BY <1>1
<1>3. outcome = "none" /\ document.opens /\ document.form
  BY DEF JInv, WalkInv
<1> QED  BY <1>2, <1>3 DEF Promise!Judge, VerdictsOf, VerdictOf, current

\* A result that joins the response is the next verdict.
LEMMA ReportRefines ==
  ASSUME VInv, NEW v \in SignatureValidation, NEW error, Report(v, error)
  PROVE  VerdictsOf(response'.signatures) =
           Append(VerdictsOf(response.signatures), VerdictOf(v))
<1>1. response.signatures \in Seq(SignatureValidation)
  BY DEF VInv, TypeOK
<1>2. response'.signatures = Append(response.signatures, v)
  BY DEF Report
<1> QED  BY <1>1, <1>2, VerdictsOfAppend

\* A signature that fails at once, or a document time-stamp.
LEMMA RejectedAsPromised ==
  ASSUME VInv, JInv, RejectSignature \/ AcceptDocTimeStamp
  PROVE  Promise!Judge
<1> DEFINE accepted == [NoValidation EXCEPT !.validSignature = TRUE,
                                            !.timeSource = "embedded_timestamp"]
<1>1. /\ pc = "walk" /\ next <= Len(document.objects)
      /\ current.kind \in {"Sig", "DocTimeStamp"} /\ Promise!IsSignature(current)
      /\ UNCHANGED <<document, options, outcome>>
  BY DEF RejectSignature, AcceptDocTimeStamp, Promise!IsSignature
<1>2. Promise!Valid(current) <=> FirstError(current) = "none"
  BY <1>1, CurrentType, ValidityIsTheSame DEF VInv
<1>3. \E v \in SignatureValidation : \E error :
        Report(v, error) /\ VerdictOf(v) = Promise!Verdict(current)
  <2>1. CASE RejectSignature
    <3>1. Report(NoValidation, FirstError(current)) /\ ~ Promise!Valid(current)
      BY <1>2, <2>1 DEF RejectSignature
    <3>2. Promise!Valid(current) = FALSE
      BY <3>1 DEF Promise!Valid
    <3>3. Promise!Verdict(current) = [valid |-> FALSE, trusted |-> FALSE, revoked |-> FALSE]
      BY <3>1, <3>2 DEF Promise!Verdict
    <3>4. VerdictOf(NoValidation) = Promise!Verdict(current)
      BY <3>3 DEF VerdictOf, NoValidation
    <3> QED  BY <3>1, <3>4, EmptyTypes
  <2>2. CASE AcceptDocTimeStamp
    <3>1. Report(accepted, "none") /\ Promise!Valid(current) /\ current.kind = "DocTimeStamp"
      BY <1>2, <2>2 DEF AcceptDocTimeStamp
    <3>2. Promise!Valid(current) = TRUE
      BY <3>1 DEF Promise!Valid
    <3>3. Promise!Verdict(current) = [valid |-> TRUE, trusted |-> FALSE, revoked |-> FALSE]
      BY <3>1, <3>2 DEF Promise!Verdict
    <3>4. VerdictOf(accepted) = Promise!Verdict(current)
      BY <3>3 DEF VerdictOf, NoValidation
    <3>5. accepted \in SignatureValidation
      BY EmptyTypes DEF SignatureValidation
    <3> QED  BY <3>1, <3>4, <3>5
  <2> QED  BY <2>1, <2>2
<1>4. PICK v \in SignatureValidation :
        \E error : Report(v, error) /\ VerdictOf(v) = Promise!Verdict(current)
  BY <1>3
<1>5. PICK error : Report(v, error) /\ VerdictOf(v) = Promise!Verdict(current)
  BY <1>4
<1>6. next' = next + 1
  BY <1>5 DEF Report
<1> QED  BY <1>1, <1>5, <1>6, ReportRefines, JudgeRefines

\* Every step is one of Verdicts, or changes nothing that Verdicts speaks of.
LEMMA StepRefines ==
  ASSUME VInv, JInv, [Next]_vars
  PROVE  [Promise!Next]_(Promise!vars)
<1>1. next \in Nat /\ Len(document.objects) \in Nat /\ next <= Len(document.objects) + 1
  BY ObjectsType DEF VInv, TypeOK
<1>2. CASE RejectDocument \/ Recover
  <2>1. /\ outcome = "none" /\ outcome' = "error" /\ UNCHANGED <<document, options, next>>
        /\ response'.signatures = <<>>
    BY <1>2 DEF JInv, WalkInv, RejectDocument, Recover, NoResponse
  <2>2. \/ ~ document.opens \/ ~ document.form
        \/ /\ next - 1 < Len(document.objects)
           /\ document.objects[(next - 1) + 1].kind = "panics"
    <3>1. CASE RejectDocument
      BY <3>1 DEF RejectDocument
    <3>2. CASE Recover
      <4>1. (next - 1) + 1 = next /\ next - 1 < Len(document.objects)
        BY <1>1, <3>2 DEF Recover
      <4> QED  BY <3>2, <4>1 DEF Recover, current
    <3> QED  BY <1>2, <3>1, <3>2
  <2>3. Promise!Refuse
    BY <2>1, <2>2 DEF Promise!Refuse
  <2> QED  BY <2>3 DEF Promise!Next
<1>3. CASE Return
  <2>1. /\ outcome = "none" /\ outcome' = "response" /\ document.opens /\ document.form
        /\ UNCHANGED <<document, options, next, response>>
    BY <1>3 DEF JInv, WalkInv, Return
  <2>2. next - 1 = Len(document.objects)
    BY <1>1, <1>3 DEF Return
  <2>3. Promise!Respond
    BY <2>1, <2>2 DEF Promise!Respond
  <2> QED  BY <2>3 DEF Promise!Next
<1>4. CASE Skip
  <2>1. /\ pc \notin {"open", "done"} /\ next <= Len(document.objects) /\ next' = next + 1
        /\ current.kind # "panics" /\ ~ Promise!IsSignature(current)
        /\ UNCHANGED <<document, options, outcome, response>>
    BY <1>4 DEF Skip, Skippable, Promise!IsSignature
  <2>2. Promise!Judge
    BY <2>1, JudgeRefines
  <2> QED  BY <2>2 DEF Promise!Next
<1>5. CASE RejectSignature \/ AcceptDocTimeStamp
  BY <1>5, RejectedAsPromised DEF Promise!Next
<1>6. CASE FinishSignature
  <2> DEFINE v == [validation EXCEPT !.trustedIssuer = trustedIssuer]
  <2>1. Report(v, errorMsg) /\ pc = "certificate" /\ UNCHANGED <<document, options, outcome>>
    BY <1>6 DEF FinishSignature
  <2>2. v \in SignatureValidation
    <3>1. validation \in SignatureValidation /\ trustedIssuer \in BOOLEAN
      BY DEF VInv, TypeOK
    <3> QED  BY <3>1 DEF SignatureValidation
  <2>3. next' = next + 1
    BY <2>1 DEF Report
  <2>4. next <= Len(document.objects) /\ current.kind = "Sig" /\ current.parses
    BY <2>1 DEF VInv, AtSignature
  <2>5. Promise!IsSignature(current) /\ current.kind # "panics"
    BY <2>4 DEF Promise!IsSignature
  <2>6. VerdictOf(v) = Promise!Verdict(current)
    BY <1>6, JudgedAsPromised
  <2> HIDE DEF v
  <2>7. VerdictsOf(response'.signatures) =
          Append(VerdictsOf(response.signatures), Promise!Verdict(current))
    BY <2>1, <2>2, <2>6, ReportRefines
  <2>8. Promise!Judge
    BY <2>1, <2>3, <2>4, <2>5, <2>7, JudgeRefines
  <2> QED  BY <2>8 DEF Promise!Next
<1>7. CASE \/ Open \/ VerifySignature \/ BuildChains \/ VerifyCertificate \/ Consult
           \/ AppendCertificate \/ UNCHANGED vars
  <2>1. UNCHANGED <<document, options, next, response, outcome>>
    BY <1>7, ConsultFrame
       DEF Open, VerifySignature, BuildChains, VerifyCertificate, AppendCertificate, vars
  <2> QED  BY <2>1 DEF Promise!vars
<1> QED  BY <1>2, <1>3, <1>4, <1>5, <1>6, <1>7 DEF Next

-----------------------------------------------------------------------------
(* What is proved.                                                         *)

\* Whatever the document, the options and the answers: the verdicts are those of
\* Verdicts, one per signature and in order. What one signature, certificate or source
\* leaves in the verifier's variables does not reach the next, a responder that answers
\* late in the list is heard as the first usable one, and no source undoes the
\* revocation that another established.
THEOREM VerdictsAsPromised == Spec => ImplementsVerdicts
<1>1. Init => Promise!Init
  BY InitRefines
<1>2. VInv /\ JInv /\ [Next]_vars => [Promise!Next]_(Promise!vars)
  BY StepRefines
<1> QED  BY <1>1, <1>2, Inductive, PTL DEF Spec, ImplementsVerdicts, Promise!Spec

\* A certificate of which no source was heard, and with which no list came, carries a
\* warning, however many responders and points were asked in vain or not at all.
THEOREM GapsAreAlwaysWarned == Spec => []GapsAreWarned
<1>1. JInv => GapsAreWarned
  BY DEF JInv, ListInv
<1> QED  BY <1>1, Inductive, PTL

\* A response with a signature that came with evidence that does not parse, or with one that
\* counts for a certificate and was not signed by its issuer, has an error.
THEOREM BadEvidenceIsAlwaysReported == Spec => []BadEvidenceIsReported
<1>1. VInv /\ JInv => BadEvidenceIsReported
  <2> SUFFICES ASSUME VInv, JInv, outcome = "response",
                      NEW entry \in Range(document.objects),
                      entry.kind = "Sig", entry.parses, BadEvidence(entry)
               PROVE  response.error # "none"
    BY DEF BadEvidenceIsReported
  <2>1. /\ document.objects \in Seq(Entry) /\ Len(document.objects) \in Nat
        /\ next \in 1..Len(document.objects) + 1
    BY ObjectsType DEF VInv, TypeOK
  <2>2. next - 1 = Len(document.objects)
    BY <2>1 DEF JInv, WalkInv
  <2>3. PICK i \in 1..Len(document.objects) : entry = document.objects[i]
    BY <2>1 DEF Range
  <2> QED  BY <2>2, <2>3 DEF JInv, PassedInv
<1> QED  BY <1>1, Inductive, PTL

=============================================================================
