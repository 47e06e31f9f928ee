---------------------------- MODULE MCVerification ----------------------------
(***************************************************************************)
(* Verification of documents with one signature in many forms, and of some *)
(* with two objects.                                                       *)
(***************************************************************************)
EXTENDS Verification

Good == [is |-> "good", at |-> 0]
RevokedAt(at) == [is |-> "revoked", at |-> at]
Unknown == [is |-> "unknown", at |-> 0]

Says(status) == [got |-> TRUE, status |-> status]
Silent == [got |-> FALSE, status |-> Good]

OCSP(status, signed) == [parses |-> TRUE, serial |-> 1, status |-> status, signed |-> signed]
BadOCSP == [OCSP(Good, FALSE) EXCEPT !.parses = FALSE]

List(entries) == [parses |-> TRUE, revoked |-> entries]
Lists(serial, at) == List(<<[serial |-> serial, at |-> at]>>)
BadList == [List(<<>>) EXCEPT !.parses = FALSE]

Stamped(at) == [token |-> "ok", at |-> at, chain |-> "system"]
NoStamp == [token |-> "none", at |-> 0, chain |-> "none"]

Cert(serial, chain, servers, points) ==
  [serial |-> serial, chain |-> chain, issuerIncluded |-> FALSE,
   ocspServers |-> servers, crlPoints |-> points]

Root == Cert(2, "root", <<>>, <<>>)

Sig(certificates, ocsp, crl, stamp) ==
  [kind |-> "Sig", parses |-> TRUE, byteRange |-> TRUE, stamp |-> stamp, claimed |-> 3,
   digest |-> "chain", certificates |-> certificates, ocsp |-> ocsp, crl |-> crl]

Plain == Sig(<<Cert(1, "system", <<>>, <<>>)>>, <<>>, <<>>, NoStamp)

File(objects) == [opens |-> TRUE, form |-> TRUE, objects |-> objects]

\* A signature stamped at time 3 or not at all, with the sources that may have something
\* to say of its certificate, before and after that time.
EmbeddedResponses ==
  {<<>>, <<OCSP(Good, TRUE)>>, <<OCSP(RevokedAt(2), TRUE)>>, <<OCSP(RevokedAt(4), FALSE)>>,
   <<OCSP(RevokedAt(2), TRUE), OCSP(Good, TRUE)>>, <<OCSP(Unknown, TRUE)>>, <<BadOCSP>>}

EmbeddedLists ==
  {<<>>, <<List(<<>>)>>, <<Lists(1, 2)>>, <<Lists(2, 2)>>,
   <<Lists(1, 4), List(<<>>)>>, <<BadList>>}

Servers == {<<>>, <<Silent>>, <<Silent, Says(RevokedAt(2))>>, <<Says(Good)>>}

Points == {<<>>, <<Silent>>, <<Silent, Says(Good)>>, <<Says(RevokedAt(4))>>}

\* Of what need not be asked there is one form that would speak up, and one that is empty.
OCSPSources ==
  ({<<>>} \X Servers) \union (EmbeddedResponses \X {<<>>, <<Silent, Says(RevokedAt(2))>>})

CRLSources ==
  ({<<>>} \X Points) \union (EmbeddedLists \X {<<>>, <<Says(RevokedAt(4))>>})

SourceDocuments ==
  {File(<<Sig(<<Cert(1, chain, o[2], c[2]), Root>>, o[1], c[1], stamp)>>) :
     chain \in {"system", "none"}, o \in OCSPSources, c \in CRLSources,
     stamp \in {NoStamp, Stamped(3)}}

\* Objects of every kind, sound and broken.
Objects ==
  {[Plain EXCEPT !.kind = k] : k \in {"unreadable", "panics", "other"}} \union
  {Plain, [Plain EXCEPT !.parses = FALSE], [Plain EXCEPT !.byteRange = FALSE],
   [Plain EXCEPT !.digest = "alone"], [Plain EXCEPT !.digest = "neither"],
   [Plain EXCEPT !.claimed = NoTime], [Plain EXCEPT !.certificates = <<>>],
   Sig(<<[Cert(1, "embedded", <<Silent>>, <<>>) EXCEPT !.issuerIncluded = TRUE]>>,
       <<>>, <<>>, [Stamped(0) EXCEPT !.chain = "embedded"]),
   Sig(<<Cert(1, "none", <<>>, <<>>)>>, <<OCSP(RevokedAt(2), TRUE)>>, <<>>,
       [Stamped(3) EXCEPT !.chain = "embedded"])} \union
  {[Plain EXCEPT !.kind = k, !.stamp.token = t] :
     k \in {"Sig", "DocTimeStamp"}, t \in {"unparsable", "mismatch"}} \union
  {[Plain EXCEPT !.kind = "DocTimeStamp", !.stamp = Stamped(3)],
   [Plain EXCEPT !.kind = "DocTimeStamp", !.byteRange = FALSE]}

\* Two objects to a document, and documents that are refused.
WalkDocuments ==
  {File(<<>>), [File(<<Plain>>) EXCEPT !.opens = FALSE], [File(<<Plain>>) EXCEPT !.form = FALSE]}
  \union {File(<<a>>) : a \in Objects}
  \union {File(<<a, b>>) : a, b \in Objects}

AllDocuments == SourceDocuments \union WalkDocuments

Opts(trust, validate, untrusted, external) ==
  [trustSignatureTime |-> trust, validateTimestamps |-> validate,
   allowUntrustedRoots |-> untrusted, external |-> external]

\* The defaults with and without external checks, and the other choices set together.
SourceOptions == {Opts(FALSE, TRUE, FALSE, external) : external \in BOOLEAN}

AllOptions == SourceOptions \union {Opts(TRUE, validate, TRUE, TRUE) : validate \in BOOLEAN}
=============================================================================
