------------------------- MODULE RevocationEmbedding -------------------------
(***************************************************************************)
(* The evidence that a signature is given (sign/revocation.go, with the    *)
(* loop of fetchRevocationData over the chain and the archive of           *)
(* revocation/revocation.go). For each certificate the OCSP responders it  *)
(* names are asked in turn until one answers, then its first distribution  *)
(* point. One action is one request, or one certificate that has no source *)
(* of that kind. The module is a part of SignatureBuffer, which starts it  *)
(* once per attempt.                                                       *)
(***************************************************************************)
EXTENDS Integers, SequencesExt

CONSTANTS
  Chains   \* the chains a signer may have, each with what its sources answer at a time

\* The outcomes of asking a source, "unsigned" being a list whose signature is not of the
\* issuer. Sizes are in bytes.
Answer ==
  [is: {"unreachable", "refused", "unparsable", "unsigned", "valid"}, size: Nat]

\* *x509.Certificate: the sources it names, by what they answer.
Certificate == [ocspServers: Seq(Answer), crlPoints: Seq(Answer)]

\* A response that was fetched: for which certificate of the chain, in which attempt; what
\* the caller brought along is of certificate 0.
Response == [certificate: Nat, attempt: Nat]

\* revocation.InfoArchival, with the sum of the sizes of its responses.
InfoArchival == [ocsp: Seq(Response), crl: Seq(Response), size: Nat]

NoEvidence == [ocsp |-> <<>>, crl |-> <<>>, size |-> 0]

RevocationFunctions == {"none", "default", "bestEffort"}

\* Two chains of the same certificates, whose sources may answer differently.
SameNames(c, d) ==
  /\ Len(c) = Len(d)
  /\ \A i \in DOMAIN c : /\ Len(c[i].ocspServers) = Len(d[i].ocspServers)
                         /\ Len(c[i].crlPoints) = Len(d[i].crlPoints)

ASSUME ChainsAssumption == Chains \subseteq Seq(Certificate)

VARIABLES
  chain,               \* CertificateChains[0], with the answers of this attempt
  revocationFunction,  \* SignData.RevocationFunction
  store,               \* SignLTV has wrapped that function in its closure
  attempt,             \* of the call this is a part of
  source,              \* the kind of source being asked, "done" or "failed" at the end
  certificate,         \* the index of the certificate in the chain
  server,              \* the responder being asked
  archive,             \* SignData.RevocationData
  before,              \* the lengths of the archive's lists when the certificate's turn came
  collected            \* ocsps and crls of SignLTV

embeddingInput == <<chain, revocationFunction, store, attempt>>
embedding == <<source, certificate, server, archive, before, collected>>

-----------------------------------------------------------------------------
(* The archive.                                                            *)

Fetched == [certificate |-> certificate, attempt |-> attempt]

AddOCSP(size) == [archive EXCEPT !.ocsp = Append(@, Fetched), !.size = @ + size]

AddCRL(size) == [archive EXCEPT !.crl = Append(@, Fetched), !.size = @ + size]

Lengths(a) == [ocsp |-> Len(a.ocsp), crl |-> Len(a.crl)]

\* Mutant: the closure looks at the archive after the responses were added.
CollectNothing(a) == collected

\* The closure of SignLTV keeps what the archive gained for one certificate.
Collect(a) ==
  IF store
  THEN [ocsp |-> collected.ocsp \o SubSeq(a.ocsp, before.ocsp + 1, Len(a.ocsp)),
        crl  |-> collected.crl \o SubSeq(a.crl, before.crl + 1, Len(a.crl))]
  ELSE collected

-----------------------------------------------------------------------------
(* The loop over the chain.                                                *)

StartEmbedding ==
  /\ source' = IF revocationFunction = "none" \/ chain = <<>> THEN "done" ELSE "ocsp"
  /\ certificate' = 1
  /\ server' = 1

\* The function returned without an error; a is the archive it leaves.
CertificateDone(a) ==
  /\ archive' = a
  /\ before' = Lengths(a)
  /\ collected' = Collect(a)
  /\ server' = 1
  /\ certificate' = certificate + 1
  /\ source' = IF certificate < Len(chain) THEN "ocsp" ELSE "done"

\* It returned an error: that of DefaultEmbedRevocationStatusFunction ends signing,
\* BestEffortEmbedRevocationStatusFunction keeps it to itself.
CertificateFails ==
  IF revocationFunction = "bestEffort"
  THEN CertificateDone(archive)
  ELSE /\ source' = "failed"
       /\ collected' = Collect(archive)
       /\ UNCHANGED <<certificate, server, archive, before>>

HasIssuer == certificate < Len(chain)

Servers == chain[certificate].ocspServers
Points == chain[certificate].crlPoints

\* Mutant: the loop goes on without taking the next responder.
SameResponder == server

NextResponder == server + 1

\* OCSP needs the issuer, which the last certificate of the chain has not.
SkipOCSP ==
  /\ source = "ocsp"
  /\ ~ HasIssuer \/ Servers = <<>>
  /\ source' = "crl"
  /\ UNCHANGED <<certificate, server, archive, before, collected>>

\* A responder is down, refuses, or what it says is not for this certificate.
ResponderFails ==
  /\ source = "ocsp"
  /\ HasIssuer /\ Servers # <<>>
  /\ Servers[server].is # "valid"
  /\ IF server < Len(Servers)
     THEN /\ server' = NextResponder
          /\ UNCHANGED <<source, certificate, archive, before, collected>>
     ELSE CertificateFails

ResponderAnswers ==
  /\ source = "ocsp"
  /\ HasIssuer /\ Servers # <<>>
  /\ Servers[server].is = "valid"
  /\ archive' = AddOCSP(Servers[server].size)
  /\ source' = "crl"
  /\ UNCHANGED <<certificate, server, before, collected>>

SkipCRL ==
  /\ source = "crl"
  /\ Points = <<>>
  /\ CertificateDone(archive)

\* The signature of the list is checked when the issuer is known.
ListIsGood(answer) ==
  answer.is = "valid" \/ (answer.is = "unsigned" /\ ~ HasIssuer)

PointFails ==
  /\ source = "crl"
  /\ Points # <<>>
  /\ ~ ListIsGood(Points[1])
  /\ CertificateFails

PointAnswers ==
  /\ source = "crl"
  /\ Points # <<>>
  /\ ListIsGood(Points[1])
  /\ CertificateDone(AddCRL(Points[1].size))

Embed ==
  \/ SkipOCSP \/ ResponderFails \/ ResponderAnswers
  \/ SkipCRL \/ PointFails \/ PointAnswers

-----------------------------------------------------------------------------
(* What it comes to, said at once.                                         *)

HasOCSP(i) == i < Len(chain) /\ \E a \in Range(chain[i].ocspServers) : a.is = "valid"

FailsOCSP(i) == i < Len(chain) /\ chain[i].ocspServers # <<>> /\ ~ HasOCSP(i)

HasCRL(i) ==
  /\ chain[i].crlPoints # <<>>
  /\ chain[i].crlPoints[1].is \in {"valid"} \union (IF i = Len(chain) THEN {"unsigned"} ELSE {})

FailsCRL(i) == chain[i].crlPoints # <<>> /\ ~ HasCRL(i)

\* The places of the responses that were fetched.
Own(responses) == {k \in DOMAIN responses : responses[k].certificate > 0}

\* One response was fetched for each of these certificates, in their order and all in this
\* attempt.
FetchedFor(responses, certificates) ==
  /\ {responses[k].certificate : k \in Own(responses)} = certificates
  /\ \A j, k \in Own(responses) : j < k => responses[j].certificate < responses[k].certificate
  /\ \A k \in Own(responses) : responses[k].attempt = attempt

\* After the loop the archive holds, besides what the caller brought along, one response
\* per certificate with a responder that answered, and one list per certificate whose
\* point answered and whose responders had not all failed: in the order of the chain, each
\* for its own certificate, all of this attempt. The loop fails exactly if some source
\* failed and best effort was not asked for.
EmbeddedAsAnswered ==
  /\ source = "done" /\ revocationFunction # "none" =>
       /\ FetchedFor(archive.ocsp, {i \in DOMAIN chain : HasOCSP(i)})
       /\ FetchedFor(archive.crl, {i \in DOMAIN chain : HasCRL(i) /\ ~ FailsOCSP(i)})
       /\ revocationFunction = "default" =>
            \A i \in DOMAIN chain : ~ FailsOCSP(i) /\ ~ FailsCRL(i)
  /\ source = "failed" =>
       /\ revocationFunction = "default"
       /\ \E i \in DOMAIN chain : FailsOCSP(i) \/ FailsCRL(i)
=============================================================================
