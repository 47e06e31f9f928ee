------------------------------- MODULE Verdicts -------------------------------
(***************************************************************************)
(* What verification promises: one verdict per signature, in the order of  *)
(* the document, each a function of that signature, the options and the    *)
(* responders' answers alone; or an error and no verdict at all. A         *)
(* signature is revoked if any source that was heard revokes one of its    *)
(* certificates and its time does not come before that.                    *)
(***************************************************************************)
EXTENDS Evidence

VARIABLES
  document,
  options,
  judged,       \* how many objects have been dealt with
  verdicts,     \* the verdicts given
  outcome       \* "none" until verification returns a "response" or an "error"

vars == <<document, options, judged, verdicts, outcome>>

-----------------------------------------------------------------------------
(* The verdict on a signature.                                             *)

IsSignature(entry) ==
  entry.kind = "DocTimeStamp" \/ (entry.kind = "Sig" /\ entry.parses)

Valid(entry) ==
  /\ entry.byteRange
  /\ IF entry.kind = "DocTimeStamp"
     THEN entry.stamp.token = "ok"
     ELSE entry.stamp.token \in {"none", "ok"} /\ entry.digest # "neither"

\* The answer that counts of those asked in turn: the first that is usable.
Heard(answers) ==
  LET usable == {i \in DOMAIN answers : answers[i].got}
  IN  {answers[i].status : i \in {j \in usable : \A k \in usable : j <= k}}

EmbeddedOCSP(entry, certificate) ==
  IF ResponsesFor(entry, certificate) = {} THEN {}
  ELSE {ResponseFor(entry, certificate).status}

EmbeddedCRL(entry, certificate) ==
  IF ListsWith(entry, certificate) = {} THEN {}
  ELSE {[is |-> "revoked", at |-> ListedAt(entry, certificate)]}

\* All that is heard of a certificate. A responder is asked only when nothing of its
\* kind came with the signature.
Heeded(entry, certificate) ==
  EmbeddedOCSP(entry, certificate) \union EmbeddedCRL(entry, certificate) \union
  IF ~ options.external THEN {}
  ELSE (IF EmbeddedOCSP(entry, certificate) = {} /\ HasIssuer(certificate)
        THEN Heard(certificate.ocspServers) ELSE {}) \union
       (IF entry.crl = <<>> THEN Heard(certificate.crlPoints) ELSE {})

\* A time-stamp proves when the signature was there; the zero time is none.
ProvenTime(entry) == entry.stamp.token = "ok" /\ entry.stamp.at # 0

\* A revocation counts unless a time-stamp shows that the signature came first.
Revokes(entry, status) ==
  status.is # "good" /\ (ProvenTime(entry) => status.at < entry.stamp.at)

Revoked(entry) ==
  \E certificate \in Range(entry.certificates) :
     \E status \in Heeded(entry, certificate) : Revokes(entry, status)

Trusted(entry) ==
  \E certificate \in Range(entry.certificates) : certificate.chain \in {"system", "root"}

Verdict(entry) ==
  IF Valid(entry) /\ entry.kind = "Sig"
  THEN [valid |-> TRUE, trusted |-> Trusted(entry), revoked |-> Revoked(entry)]
  ELSE [valid |-> Valid(entry), trusted |-> FALSE, revoked |-> FALSE]

-----------------------------------------------------------------------------
Init ==
  /\ document \in Document
  /\ options \in VerifyOptions
  /\ judged = 0
  /\ verdicts = <<>>
  /\ outcome = "none"

\* The next object is dealt with: if it is a signature, there is a verdict on it.
Judge ==
  /\ outcome = "none"
  /\ document.opens /\ document.form
  /\ judged < Len(document.objects)
  /\ document.objects[judged + 1].kind # "panics"
  /\ judged' = judged + 1
  /\ LET entry == document.objects[judged + 1]
     IN  verdicts' = IF IsSignature(entry) THEN Append(verdicts, Verdict(entry)) ELSE verdicts
  /\ UNCHANGED <<document, options, outcome>>

\* Verification ends without a response: there is nothing it could have read on.
Refuse ==
  /\ outcome = "none"
  /\ \/ ~ document.opens
     \/ ~ document.form
     \/ judged < Len(document.objects) /\ document.objects[judged + 1].kind = "panics"
  /\ verdicts' = <<>>
  /\ outcome' = "error"
  /\ UNCHANGED <<document, options, judged>>

\* Every object has been dealt with.
Respond ==
  /\ outcome = "none"
  /\ document.opens /\ document.form
  /\ judged = Len(document.objects)
  /\ outcome' = "response"
  /\ UNCHANGED <<document, options, judged, verdicts>>

Next == Judge \/ Refuse \/ Respond

Spec == Init /\ [][Next]_vars
=============================================================================
