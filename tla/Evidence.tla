------------------------------- MODULE Evidence -------------------------------
(***************************************************************************)
(* What the verifier is given: the objects of a document as the parsers of *)
(* the libraries present them, the options, and what each responder named  *)
(* in a certificate would answer. A cryptographic check is its outcome.    *)
(***************************************************************************)
EXTENDS Integers, SequencesExt

\* A point in time; 0 is the zero value of time.Time.
Time == Nat

NoTime == -1

\* Good, revoked at a time, or, of an OCSP response, unknown; only a revocation has a time.
Status == [is: {"good", "revoked", "unknown"}, at: Time]

\* What a responder or a distribution point says when it is asked, if anything usable.
Answer == [got: BOOLEAN, status: Status]

\* A certificate of the signature. chain tells how it verifies: to a root of the
\* system through its issuer, as such a root itself, only as a root of its own, or
\* not at all. issuerIncluded: a certificate of the signature has its issuer's name.
Certificate ==
  [serial: Nat, chain: {"system", "root", "embedded", "none"}, issuerIncluded: BOOLEAN,
   ocspServers: Seq(Answer), crlPoints: Seq(Answer)]

\* signed: the response verifies under the issuer in the chain.
OCSPResponse == [parses: BOOLEAN, serial: Nat, status: Status, signed: BOOLEAN]

RevocationList == [parses: BOOLEAN, revoked: Seq([serial: Nat, at: Time])]

\* The time-stamp token of a signature, or of a document time-stamp.
Stamp == [token: {"none", "unparsable", "mismatch", "ok"}, at: Time,
          chain: {"system", "embedded", "none"}]

\* An object of the document. It cannot be looked up, makes the reader panic, is no
\* signature, or is one. claimed is the time in /M; digest tells what verifies: the
\* signature with its chain, the signature alone, or neither.
Entry ==
  [kind: {"unreadable", "panics", "other", "Sig", "DocTimeStamp"},
   parses: BOOLEAN, byteRange: BOOLEAN, stamp: Stamp, claimed: Time \union {NoTime},
   digest: {"chain", "alone", "neither"},
   certificates: Seq(Certificate), ocsp: Seq(OCSPResponse), crl: Seq(RevocationList)]

\* opens: the reader accepts it. form: its catalog has a form with /SigFlags.
Document == [opens: BOOLEAN, form: BOOLEAN, objects: Seq(Entry)]

VerifyOptions ==
  [trustSignatureTime: BOOLEAN, validateTimestamps: BOOLEAN,
   allowUntrustedRoots: BOOLEAN, external: BOOLEAN]

-----------------------------------------------------------------------------
\* The chain found for a certificate goes on to an issuer.
IssuerInChain(certificate) == certificate.chain = "system"

\* Someone can be named as the issuer when a responder is asked.
HasIssuer(certificate) == IssuerInChain(certificate) \/ certificate.issuerIncluded

\* The embedded response for a certificate: the last that parses and has its serial.
ResponsesFor(entry, certificate) ==
  {i \in DOMAIN entry.ocsp : entry.ocsp[i].parses /\ entry.ocsp[i].serial = certificate.serial}

ResponseFor(entry, certificate) == entry.ocsp[Max(ResponsesFor(entry, certificate))]

\* The embedded entry for a certificate: the last in the last list that has one.
Listing(list, certificate) ==
  {i \in DOMAIN list.revoked : list.parses /\ list.revoked[i].serial = certificate.serial}

ListsWith(entry, certificate) ==
  {i \in DOMAIN entry.crl : Listing(entry.crl[i], certificate) # {}}

ListedAt(entry, certificate) ==
  LET list == entry.crl[Max(ListsWith(entry, certificate))]
  IN  list.revoked[Max(Listing(list, certificate))].at
=============================================================================
