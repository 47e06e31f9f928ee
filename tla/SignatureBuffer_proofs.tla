------------------------ MODULE SignatureBuffer_proofs ------------------------
(***************************************************************************)
(* For every document, chain, request and length: the state of a call is   *)
(* well formed, the byte range is the file without the signature, nothing  *)
(* moves while the placeholders are filled, what is delivered is what was  *)
(* signed, and what a retry does to the length of the placeholder.         *)
(***************************************************************************)
EXTENDS SignatureBuffer, Extrema, SequenceTheorems, TLAPS

-----------------------------------------------------------------------------
(* The inductive invariant.                                                *)

\* The certificate and the responder of the next request are there.
EmbeddingInv ==
  /\ source \in {"ocsp", "crl"} => pc = "fetch" /\ certificate \in 1..Len(chain)
  /\ source = "ocsp" => server \in Nat \ {0} /\ (Servers # <<>> => server <= Len(Servers))
  /\ before.ocsp <= Len(archive.ocsp) /\ before.crl <= Len(archive.crl)

\* Digits for the evidence and for the rest that is not the base.
IsStamp == request.type = "timestamp"
Evidence == IF IsStamp THEN 0 ELSE archive.size
CertificateEstimate == IF IsStamp THEN 0 ELSE 2 * request.estimate
Estimate == CertificateEstimate + (IF request.tsa THEN TSALength ELSE 0)

Laid == pc \in {"objects", "range", "sign", "replace", "write"}

\* The space that is reserved, by its parts.
LengthInv ==
  /\ pc = "fetch" => ~ IsStamp /\ SignatureMaxLength = SignatureMaxLengthBase + CertificateEstimate
  /\ pc = "reserve" =>
       SignatureMaxLength = SignatureMaxLengthBase + CertificateEstimate + 2 * Evidence
  /\ Laid => SignatureMaxLength = SignatureMaxLengthBase + Estimate + 2 * Evidence

\* After an attempt that failed the base is what the last signature needed, and one more.
GrowthInv ==
  /\ outgrown = <<>> => SignatureMaxLengthBase = BaseLength
  /\ outgrown # <<>> =>
       SignatureMaxLengthBase = 2 * outgrown[Len(outgrown)] - Estimate + 1
  /\ pc # "done" => attempt = Len(outgrown) + 1
  /\ OnlyGrowthIsRetried

newSpace == buffer.contents[Len(document.contents) + 1]
newRange == buffer.ranges[Len(document.ranges) + 1]

\* The buffer is the document and, once it is laid out, the signature object.
LayoutInv ==
  /\ pc \in {"fetch", "reserve"} => buffer = [document EXCEPT !.length = @ + 1]
  /\ Laid \/ ByteRangeValues # <<>> =>
       /\ Len(buffer.contents) = Len(document.contents) + 1
       /\ End(newSpace) <= buffer.length
       /\ buffer.ranges = Append(document.ranges, [at |-> newRange.at, value |-> ByteRangeValues])
  /\ pc \in {"objects", "range", "sign", "replace"} =>
       newSpace.digits = SignatureMaxLength /\ newSpace.used = 0
  /\ ByteRangeValues # <<>> =>
       ByteRangeValues = <<0, newSpace.at, End(newSpace), buffer.length - End(newSpace)>>
  /\ pc \in {"start", "fetch", "reserve", "objects", "range"} => ByteRangeValues = <<>>
  /\ pc \in {"sign", "replace", "write"} => ByteRangeValues # <<>>

\* What is known for SignatureInfo at each point.
InfoInv ==
  /\ pc \in {"start", "fetch", "reserve", "objects", "range", "sign"} => computed = NoInfo
  /\ pc = "replace" =>
       computed = [documentHash |-> SignedParts(buffer, ByteRangeValues),
                   signatureHash |-> <<>>,
                   timeStamp |-> IF request.tsa THEN attempt ELSE 0]
  /\ pc = "write" =>
       /\ computed.documentHash = SignedParts(buffer, ByteRangeValues)
       /\ computed.signatureHash.signature = attempt /\ newSpace.signature = attempt
       /\ request.tsa => computed.timeStamp = attempt
  /\ result = "delivered" => pc = "done"
  /\ DeliveredIsWhatWasSigned

SInv ==
  /\ BufferTypeOK
  /\ EmbeddingInv
  /\ LengthInv
  /\ GrowthInv
  /\ LayoutInv
  /\ InfoInv

-----------------------------------------------------------------------------
(* Types.                                                                  *)

LEMMA LengthTypes ==
  /\ BaseLength \in Nat /\ TSALength \in Nat /\ RangeWidth \in Nat /\ RangeDigits \in Nat
  /\ HeadLength \in Nat /\ GapLength \in Nat /\ TailLength \in Nat
  /\ MaxRetries \in Nat /\ MaxRetries # 0
  BY LengthsAssumption

LEMMA RequestType ==
  ASSUME request \in Requests
  PROVE  /\ request.type \in {"signature", "timestamp"}
         /\ request.estimate \in Nat
         /\ request.tsa \in BOOLEAN
         /\ request.function \in RevocationFunctions
         /\ request.store \in BOOLEAN
         /\ request.preset \in InfoArchival
<1>1. request \in Request
  BY RequestsAssumption
<1> QED  BY <1>1 DEF Request

LEMMA ArchiveType ==
  ASSUME NEW a \in InfoArchival
  PROVE  /\ a.ocsp \in Seq(Response) /\ a.crl \in Seq(Response) /\ a.size \in Nat
         /\ Len(a.ocsp) \in Nat /\ Len(a.crl) \in Nat
<1>1. a.ocsp \in Seq(Response) /\ a.crl \in Seq(Response) /\ a.size \in Nat
  BY DEF InfoArchival
<1> QED  BY <1>1

LEMMA DocumentType ==
  ASSUME document \in Documents
  PROVE  /\ document \in File
         /\ document.length \in Nat
         /\ document.ranges \in Seq(RangeEntry)
         /\ document.contents \in Seq(Contents)
         /\ Len(document.ranges) \in Nat /\ Len(document.contents) \in Nat
<1>1. document \in File
  BY DocumentsAssumption
<1>2. /\ document.length \in Nat
      /\ document.ranges \in Seq(RangeEntry)
      /\ document.contents \in Seq(Contents)
  BY <1>1 DEF File
<1> QED  BY <1>1, <1>2

LEMMA EmptyTypes ==
  /\ NoEvidence \in InfoArchival
  /\ EmptyFile \in File
  /\ Lengths(NoEvidence) = [ocsp |-> 0, crl |-> 0]
<1>1. NoEvidence \in InfoArchival
  BY DEF NoEvidence, InfoArchival
<1>2. EmptyFile \in File
  BY DEF EmptyFile, File
<1>3. Lengths(NoEvidence) = [ocsp |-> 0, crl |-> 0]
  BY DEF Lengths, NoEvidence
<1> QED  BY <1>1, <1>2, <1>3

LEMMA SourcesType ==
  ASSUME BufferTypeOK, certificate \in 1..Len(chain)
  PROVE  /\ Servers \in Seq(Answer)
         /\ Points \in Seq(Answer)
<1>1. chain \in Seq(Certificate)
  BY ChainsAssumption DEF BufferTypeOK
<1>2. chain[certificate] \in Certificate
  BY <1>1
<1> QED  BY <1>2 DEF Servers, Points, Certificate

\* The initial states satisfy the invariant.
LEMMA InitS ==
  ASSUME Init
  PROVE  SInv
<1> USE DEF Init
<1>1. request.preset \in InfoArchival /\ request.function \in RevocationFunctions
      /\ request.store \in BOOLEAN
  BY RequestType
<1>2. /\ Len(archive.ocsp) \in Nat /\ Len(archive.crl) \in Nat
      /\ before = [ocsp |-> Len(archive.ocsp), crl |-> Len(archive.crl)]
  BY <1>1, ArchiveType DEF Lengths
<1>3. BufferTypeOK
  <2>1. collected \in [ocsp: Seq(Response), crl: Seq(Response)] /\ outgrown \in Seq(Nat)
    OBVIOUS
  <2>2. BaseLength \in Nat /\ 1 \in 1..MaxRetries /\ MaxRetries \in Nat
    BY LengthTypes
  <2>3. archive \in InfoArchival /\ before \in [ocsp: Nat, crl: Nat]
    BY <1>1, <1>2
  <2>4. buffer \in File /\ output \in File
    BY EmptyTypes
  <2>5. attempt \in 1..MaxRetries /\ Len(outgrown) <= MaxRetries /\ SignatureMaxLengthBase \in Nat
    BY <2>2
  <2>6. pc \in Steps /\ own \in Nat /\ ByteRangeValues \in {<<>>} \union (Nat \X Nat \X Nat \X Nat)
    BY DEF Steps
  <2> QED  BY <1>1, <2>1, <2>3, <2>4, <2>5, <2>6 DEF BufferTypeOK
<1>4. EmbeddingInv
  BY <1>2 DEF EmbeddingInv
<1>5. LengthInv /\ GrowthInv /\ LayoutInv /\ InfoInv
  BY DEF LengthInv, GrowthInv, OnlyGrowthIsRetried, LayoutInv, InfoInv, Laid,
         DeliveredIsWhatWasSigned
<1> QED  BY <1>3, <1>4, <1>5 DEF SInv

-----------------------------------------------------------------------------
(* Fetching evidence.                                                      *)

LEMMA CollectType ==
  ASSUME BufferTypeOK, NEW a \in InfoArchival,
         before.ocsp <= Len(a.ocsp), before.crl <= Len(a.crl)
  PROVE  Collect(a) \in [ocsp: Seq(Response), crl: Seq(Response)]
<1>1. /\ before.ocsp \in Nat /\ before.crl \in Nat
      /\ collected \in [ocsp: Seq(Response), crl: Seq(Response)]
      /\ collected.ocsp \in Seq(Response) /\ collected.crl \in Seq(Response)
  BY DEF BufferTypeOK
<1>2. SubSeq(a.ocsp, before.ocsp + 1, Len(a.ocsp)) \in Seq(Response)
  <2>1. /\ before.ocsp + 1 \in 1..Len(a.ocsp) + 1
        /\ Len(a.ocsp) \in (before.ocsp + 1) - 1..Len(a.ocsp)
    BY <1>1, ArchiveType
  <2> QED  BY <2>1, ArchiveType, SubSeqProperties
<1>3. SubSeq(a.crl, before.crl + 1, Len(a.crl)) \in Seq(Response)
  <2>1. /\ before.crl + 1 \in 1..Len(a.crl) + 1
        /\ Len(a.crl) \in (before.crl + 1) - 1..Len(a.crl)
    BY <1>1, ArchiveType
  <2> QED  BY <2>1, ArchiveType, SubSeqProperties
<1>4. /\ collected.ocsp \o SubSeq(a.ocsp, before.ocsp + 1, Len(a.ocsp)) \in Seq(Response)
      /\ collected.crl \o SubSeq(a.crl, before.crl + 1, Len(a.crl)) \in Seq(Response)
  BY <1>1, <1>2, <1>3, ConcatProperties
<1> QED  BY <1>1, <1>4 DEF Collect

\* What a response adds.
LEMMA AddTypes ==
  ASSUME BufferTypeOK, certificate \in Nat, NEW size \in Nat
  PROVE  /\ AddOCSP(size) \in InfoArchival
         /\ AddCRL(size) \in InfoArchival
         /\ Len(AddOCSP(size).ocsp) = Len(archive.ocsp) + 1
         /\ AddOCSP(size).crl = archive.crl
         /\ Len(AddCRL(size).crl) = Len(archive.crl) + 1
         /\ AddCRL(size).ocsp = archive.ocsp
<1>1. archive \in InfoArchival /\ attempt \in Nat
  BY LengthTypes DEF BufferTypeOK
<1>2. Fetched \in Response
  BY <1>1 DEF Fetched, Response
<1>3. /\ Append(archive.ocsp, Fetched) \in Seq(Response)
      /\ Append(archive.crl, Fetched) \in Seq(Response)
      /\ Len(Append(archive.ocsp, Fetched)) = Len(archive.ocsp) + 1
      /\ Len(Append(archive.crl, Fetched)) = Len(archive.crl) + 1
  BY <1>1, <1>2, ArchiveType, AppendProperties
<1>4. archive.size + size \in Nat
  BY <1>1, ArchiveType
<1> QED  BY <1>1, <1>3, <1>4 DEF AddOCSP, AddCRL, InfoArchival

\* The variables of the embedding are well formed.
EmbeddingTypes ==
  /\ source \in {"idle", "ocsp", "crl", "done", "failed"}
  /\ certificate \in Nat /\ server \in Nat
  /\ archive \in InfoArchival
  /\ before \in [ocsp: Nat, crl: Nat]
  /\ collected \in [ocsp: Seq(Response), crl: Seq(Response)]

\* A step that only fetches keeps the invariant if it keeps the part on fetching.
LEMMA OnlyFetching ==
  ASSUME SInv, pc = "fetch", EmbeddingTypes', EmbeddingInv',
         UNCHANGED <<embeddingInput, bufferVars>>
  PROVE  SInv'
<1> USE DEF embeddingInput, bufferVars, sizes, signing
<1>1. BufferTypeOK'
  BY DEF SInv, BufferTypeOK, EmbeddingTypes
<1>2. LengthInv'
  BY DEF SInv, LengthInv, CertificateEstimate, IsStamp, Laid
<1>3. GrowthInv'
  BY DEF SInv, GrowthInv, OnlyGrowthIsRetried, Estimate, CertificateEstimate, IsStamp
<1>4. LayoutInv'
  BY DEF SInv, LayoutInv, newSpace, newRange, Laid, End
<1>5. InfoInv'
  BY DEF SInv, InfoInv, newSpace, DeliveredIsWhatWasSigned
<1> QED  BY <1>1, <1>2, <1>3, <1>4, <1>5 DEF SInv

LEMMA CertificateDoneKeeps ==
  ASSUME BufferTypeOK, pc = "fetch", pc' = pc, UNCHANGED embeddingInput,
         certificate \in 1..Len(chain), NEW a \in InfoArchival,
         before.ocsp <= Len(a.ocsp), before.crl <= Len(a.crl), CertificateDone(a)
  PROVE  EmbeddingTypes' /\ EmbeddingInv'
<1> USE DEF CertificateDone
<1>1. chain \in Seq(Certificate) /\ Len(chain) \in Nat /\ certificate \in Nat
  BY ChainsAssumption DEF BufferTypeOK
<1>2. /\ Len(a.ocsp) \in Nat /\ Len(a.crl) \in Nat
      /\ before' = [ocsp |-> Len(a.ocsp), crl |-> Len(a.crl)]
  BY ArchiveType DEF Lengths
<1>3. collected' \in [ocsp: Seq(Response), crl: Seq(Response)]
  BY CollectType
<1>4. EmbeddingTypes'
  BY <1>1, <1>2, <1>3 DEF EmbeddingTypes
<1>5. source' = "ocsp" => certificate' \in 1..Len(chain)
  BY <1>1
<1>6. source' = "ocsp" =>
        /\ server' \in Nat \ {0}
        /\ Servers' # <<>> => server' <= Len(Servers')
  <2> HAVE source' = "ocsp"
  <2>1. chain'[certificate'] \in Certificate
    BY <1>1, <1>5 DEF embeddingInput
  <2>2. Servers' \in Seq(Answer)
    BY <2>1 DEF Servers, Certificate
  <2>3. Servers' # <<>> => 1 <= Len(Servers')
    BY <2>2, EmptySeq, LenProperties
  <2> QED  BY <2>3
<1> QED  BY <1>1, <1>2, <1>4, <1>5, <1>6 DEF EmbeddingInv, embeddingInput

LEMMA CertificateFailsKeeps ==
  ASSUME SInv, pc = "fetch", pc' = pc, UNCHANGED embeddingInput,
         certificate \in 1..Len(chain), CertificateFails
  PROVE  EmbeddingTypes' /\ EmbeddingInv'
<1>1. /\ archive \in InfoArchival /\ BufferTypeOK
      /\ before.ocsp <= Len(archive.ocsp) /\ before.crl <= Len(archive.crl)
  BY DEF SInv, BufferTypeOK, EmbeddingInv
<1>2. CASE revocationFunction = "bestEffort"
  BY <1>1, <1>2, CertificateDoneKeeps DEF CertificateFails
<1>3. CASE revocationFunction # "bestEffort"
  <2>1. /\ source' = "failed" /\ collected' = Collect(archive)
        /\ UNCHANGED <<certificate, server, archive, before>>
    BY <1>3 DEF CertificateFails
  <2>2. collected' \in [ocsp: Seq(Response), crl: Seq(Response)]
    BY <1>1, <2>1, CollectType
  <2> QED  BY <1>1, <2>1, <2>2 DEF EmbeddingTypes, EmbeddingInv, BufferTypeOK
<1> QED  BY <1>2, <1>3

LEMMA FetchKeepsS ==
  ASSUME SInv, Fetch
  PROVE  SInv'
<1>0. /\ pc = "fetch" /\ pc' = pc /\ Embed
      /\ UNCHANGED <<embeddingInput, bufferVars>>
  BY DEF Fetch, bufferVars
<1>1. /\ BufferTypeOK /\ EmbeddingInv
      /\ archive \in InfoArchival
      /\ before.ocsp <= Len(archive.ocsp) /\ before.crl <= Len(archive.crl)
      /\ before.ocsp \in Nat /\ before.crl \in Nat
      /\ Len(archive.ocsp) \in Nat /\ Len(archive.crl) \in Nat
  BY ArchiveType DEF SInv, BufferTypeOK, EmbeddingInv
<1>2. certificate \in 1..Len(chain) /\ certificate \in Nat
  BY <1>0, <1>1 DEF Embed, SkipOCSP, ResponderFails, ResponderAnswers, SkipCRL, PointFails,
       PointAnswers, EmbeddingInv, BufferTypeOK
<1>3. UNCHANGED embeddingInput
  BY <1>0
<1> SUFFICES EmbeddingTypes' /\ EmbeddingInv'
  BY <1>0, OnlyFetching
<1>4. CASE SkipOCSP
  BY <1>0, <1>1, <1>2, <1>4 DEF SkipOCSP, EmbeddingTypes, EmbeddingInv, BufferTypeOK, embeddingInput
<1>5. CASE ResponderFails
  <2>1. CASE server < Len(Servers)
    <3>1. Servers' = Servers
      BY <1>0, <1>5, <2>1 DEF ResponderFails, Servers, embeddingInput
    <3>2. server \in Nat \ {0} /\ Len(Servers) \in Nat
      BY <1>1, <1>2, <1>5, SourcesType, LenProperties DEF ResponderFails, EmbeddingInv
    <3>3. server' = server + 1 /\ UNCHANGED <<source, certificate, archive, before, collected>>
      BY <1>5, <2>1 DEF ResponderFails, NextResponder
    <3> QED
      BY <1>0, <1>1, <1>2, <2>1, <3>1, <3>2, <3>3
         DEF EmbeddingTypes, EmbeddingInv, BufferTypeOK, embeddingInput
  <2>2. CASE ~ (server < Len(Servers))
    BY <1>0, <1>2, <1>3, <1>5, <2>2, CertificateFailsKeeps DEF ResponderFails
  <2> QED  BY <2>1, <2>2
<1>6. CASE ResponderAnswers
  <2>1. Servers[server] \in Answer
    BY <1>1, <1>2, <1>6, SourcesType, ElementOfSeq, LenProperties DEF ResponderAnswers, EmbeddingInv
  <2>2. Servers[server].size \in Nat
    BY <2>1 DEF Answer
  <2>3. /\ archive' \in InfoArchival
        /\ Len(archive'.ocsp) = Len(archive.ocsp) + 1 /\ archive'.crl = archive.crl
    BY <1>1, <1>2, <1>6, <2>2, AddTypes DEF ResponderAnswers
  <2> QED
    BY <1>0, <1>1, <1>2, <1>6, <2>3
       DEF ResponderAnswers, EmbeddingTypes, EmbeddingInv, BufferTypeOK, embeddingInput
<1>7. CASE SkipCRL
  BY <1>0, <1>1, <1>2, <1>3, <1>7, CertificateDoneKeeps DEF SkipCRL
<1>8. CASE PointFails
  BY <1>0, <1>2, <1>3, <1>8, CertificateFailsKeeps DEF PointFails
<1>9. CASE PointAnswers
  <2>1. Points \in Seq(Answer) /\ Points # <<>>
    BY <1>1, <1>2, <1>9, SourcesType DEF PointAnswers
  <2>2. Points[1] \in Answer
    BY <2>1, EmptySeq, LenProperties, ElementOfSeq
  <2>3. Points[1].size \in Nat
    BY <2>2 DEF Answer
  <2>4. /\ AddCRL(Points[1].size) \in InfoArchival
        /\ before.ocsp <= Len(AddCRL(Points[1].size).ocsp)
        /\ before.crl <= Len(AddCRL(Points[1].size).crl)
    <3>1. /\ AddCRL(Points[1].size) \in InfoArchival
          /\ Len(AddCRL(Points[1].size).crl) = Len(archive.crl) + 1
          /\ AddCRL(Points[1].size).ocsp = archive.ocsp
      BY <1>1, <1>2, <2>3, AddTypes
    <3> QED  BY <1>1, <3>1
  <2> QED  BY <1>0, <1>1, <1>2, <1>3, <1>9, <2>4, CertificateDoneKeeps DEF PointAnswers
<1> QED
  BY <1>0, <1>4, <1>5, <1>6, <1>7, <1>8, <1>9 DEF Embed

-----------------------------------------------------------------------------
(* The steps of an attempt.                                                *)

LEMMA StartAttemptKeepsS ==
  ASSUME SInv, StartAttempt
  PROVE  SInv'
<1> USE DEF StartAttempt, embeddingInput
<1>1. BufferTypeOK /\ EmbeddingInv /\ GrowthInv /\ LayoutInv /\ InfoInv
  BY DEF SInv
<1>2. /\ request.type \in {"signature", "timestamp"} /\ request.estimate \in Nat
      /\ SignatureMaxLengthBase \in Nat
      /\ source \notin {"ocsp", "crl"}
      /\ ByteRangeValues = <<>>
  BY <1>1, RequestType DEF BufferTypeOK, EmbeddingInv, LayoutInv
<1>3. buffer' \in File
  <2>1. document \in Documents
    BY <1>1 DEF BufferTypeOK
  <2>2. document \in File /\ document.length + 1 \in Nat
    BY <2>1, DocumentType
  <2> QED  BY <2>2 DEF File
<1>4. chain \in Seq(Certificate)
  BY <1>1, ChainsAssumption DEF BufferTypeOK
<1>5. /\ SignatureMaxLength' \in Nat /\ pc' \in Steps
      /\ source' \in {"idle", "ocsp", "crl", "done", "failed"}
      /\ certificate' \in Nat /\ server' \in Nat
      /\ UNCHANGED <<archive, before, collected>>
  <2>1. /\ source \in {"idle", "ocsp", "crl", "done", "failed"}
        /\ certificate \in Nat /\ server \in Nat
    BY <1>1 DEF BufferTypeOK
  <2>2. CASE request.type = "timestamp"
    BY <1>2, <2>1, <2>2 DEF Steps, embedding
  <2>3. CASE request.type # "timestamp"
    BY <1>2, <2>3 DEF StartEmbedding, EncodedLen, Steps
  <2> QED  BY <2>2, <2>3
<1>6. BufferTypeOK'
  BY <1>1, <1>3, <1>5 DEF BufferTypeOK
<1>7. EmbeddingInv'
  <2>1. source' \in {"ocsp", "crl"} =>
          pc' = "fetch" /\ chain # <<>> /\ certificate' = 1 /\ server' = 1
    BY <1>2 DEF StartEmbedding, embedding
  <2>2. source' \in {"ocsp", "crl"} => certificate' \in 1..Len(chain)
    BY <1>4, <2>1, EmptySeq, LenProperties
  <2>3. source' = "ocsp" => server' \in Nat \ {0} /\ (Servers' # <<>> => server' <= Len(Servers'))
    <3> HAVE source' = "ocsp"
    <3>1. chain[certificate'] \in Certificate
      BY <1>4, <2>2
    <3>2. Servers' \in Seq(Answer)
      BY <3>1 DEF Servers, Certificate
    <3> QED  BY <2>1, <3>2, EmptySeq, LenProperties
  <2> QED  BY <1>1, <1>5, <2>1, <2>2, <2>3 DEF EmbeddingInv
<1>8. LengthInv'
  BY <1>2 DEF LengthInv, IsStamp, CertificateEstimate, Evidence, Laid, EncodedLen
<1>9. GrowthInv'
  BY <1>1 DEF GrowthInv, OnlyGrowthIsRetried, Estimate, CertificateEstimate, IsStamp
<1>10. LayoutInv'
  BY <1>2 DEF LayoutInv, Laid
<1>11. InfoInv'
  BY <1>1 DEF InfoInv, DeliveredIsWhatWasSigned
<1> QED  BY <1>6, <1>7, <1>8, <1>9, <1>10, <1>11 DEF SInv

\* Outside fetching the part on fetching is kept by leaving it alone.
LEMMA NotFetching ==
  ASSUME EmbeddingInv, source \notin {"ocsp", "crl"}, source' \notin {"ocsp", "crl"},
         UNCHANGED <<archive, before>>
  PROVE  EmbeddingInv'
  BY DEF EmbeddingInv

LEMMA CountEvidenceKeepsS ==
  ASSUME SInv, CountEvidence
  PROVE  SInv'
<1> USE DEF CountEvidence, embeddingInput, signing
<1>1. BufferTypeOK /\ EmbeddingInv /\ LengthInv /\ GrowthInv /\ LayoutInv /\ InfoInv
  BY DEF SInv
<1>2. archive.size \in Nat /\ SignatureMaxLength \in Nat /\ SignatureMaxLengthBase \in Nat
  BY <1>1, ArchiveType DEF BufferTypeOK
<1>3. BufferTypeOK'
  BY <1>1, <1>2 DEF BufferTypeOK, EncodedLen, Steps
<1>4. EmbeddingInv'
  BY <1>1, NotFetching
<1>5. LengthInv'
  BY <1>1, <1>2 DEF LengthInv, IsStamp, CertificateEstimate, Evidence, Laid, EncodedLen
<1>6. GrowthInv'
  BY <1>1 DEF GrowthInv, OnlyGrowthIsRetried, Estimate, CertificateEstimate, IsStamp
<1>7. LayoutInv'
  BY <1>1 DEF LayoutInv, Laid
<1>8. InfoInv'
  BY <1>1 DEF InfoInv, DeliveredIsWhatWasSigned
<1> QED  BY <1>3, <1>4, <1>5, <1>6, <1>7, <1>8 DEF SInv

\* The signature object behind a buffer that holds the document.
LEMMA ReservedSpace ==
  ASSUME SInv, ReserveSpace
  PROVE  /\ SignatureMaxLength' \in Nat
         /\ buffer' \in File
         /\ Len(buffer'.contents) = Len(document.contents) + 1
         /\ newSpace'.at \in Nat /\ newSpace'.digits = SignatureMaxLength'
         /\ newSpace'.used = 0
         /\ End(newSpace') = buffer'.length
         /\ newRange'.value = <<>>
         /\ buffer'.ranges = Append(document.ranges, newRange')
         /\ newRange' \in RangeEntry
<1> USE DEF ReserveSpace
<1>1. BufferTypeOK /\ LayoutInv /\ pc = "reserve" /\ UNCHANGED <<document, request>>
  BY DEF SInv
<1>2. SignatureMaxLength \in Nat /\ request.tsa \in BOOLEAN /\ document \in Documents
  BY <1>1, RequestType DEF BufferTypeOK
<1>3. SignatureMaxLength' \in Nat
  BY <1>2, LengthTypes
<1>4. /\ buffer = [document EXCEPT !.length = @ + 1]
      /\ buffer.ranges = document.ranges /\ buffer.contents = document.contents
      /\ buffer.length \in Nat
  BY <1>1, <1>2, DocumentType DEF LayoutInv, File
<1> DEFINE r == [at |-> buffer.length + HeadLength, value |-> <<>>]
           s == [at |-> r.at + RangeWidth + GapLength, digits |-> SignatureMaxLength',
                 used |-> 0, signature |-> 0]
<1>5. r \in RangeEntry /\ r.at \in Nat /\ r.value = <<>>
  <2>1. buffer.length + HeadLength \in Nat
    BY <1>4, LengthTypes
  <2> QED  BY <2>1 DEF RangeEntry
<1>6. s \in Contents /\ s.at \in Nat /\ s.digits = SignatureMaxLength' /\ s.used = 0
      /\ End(s) \in Nat
  <2>1. r.at + RangeWidth + GapLength \in Nat
    BY <1>5, LengthTypes
  <2> HIDE DEF r
  <2> QED  BY <1>3, <2>1 DEF Contents, End
<1>7. buffer' = [length |-> End(s), ranges |-> Append(document.ranges, r),
                 contents |-> Append(document.contents, s)]
  BY <1>4
<1> HIDE DEF r, s, ReserveSpace
<1>8. /\ Append(document.ranges, r) \in Seq(RangeEntry)
      /\ Append(document.contents, s) \in Seq(Contents)
      /\ Len(Append(document.contents, s)) = Len(document.contents) + 1
      /\ Append(document.contents, s)[Len(document.contents) + 1] = s
      /\ Append(document.ranges, r)[Len(document.ranges) + 1] = r
  BY <1>2, <1>5, <1>6, DocumentType, AppendProperties
<1>9. newSpace' = s /\ newRange' = r
  BY <1>1, <1>7, <1>8 DEF newSpace, newRange
<1>10. buffer' \in File
  BY <1>6, <1>7, <1>8 DEF File
<1>11. Len(buffer'.contents) = Len(document.contents) + 1 /\ buffer'.length = End(s)
       /\ buffer'.ranges = Append(document.ranges, r)
  BY <1>7, <1>8
<1> QED  BY <1>3, <1>5, <1>6, <1>9, <1>10, <1>11

LEMMA ReserveSpaceKeepsS ==
  ASSUME SInv, ReserveSpace
  PROVE  SInv'
<1>1. BufferTypeOK /\ EmbeddingInv /\ LengthInv /\ GrowthInv /\ LayoutInv /\ InfoInv
  BY DEF SInv
<1>2. /\ pc = "reserve" /\ pc' = "objects"
      /\ SignatureMaxLength' = SignatureMaxLength + (IF request.tsa THEN TSALength ELSE 0)
      /\ UNCHANGED <<embeddingInput, embedding, document, request, SignatureMaxLengthBase,
                     ByteRangeValues, own, computed, outgrown, output, result>>
  BY DEF ReserveSpace
<1> USE DEF embeddingInput, embedding
<1>3. BufferTypeOK'
  <2>1. SignatureMaxLength' \in Nat /\ buffer' \in File /\ pc' \in Steps
    BY <1>2, ReservedSpace DEF Steps
  <2> QED  BY <1>1, <1>2, <2>1 DEF BufferTypeOK
<1>4. EmbeddingInv'
  <2>1. source \notin {"ocsp", "crl"}
    BY <1>1, <1>2 DEF EmbeddingInv
  <2> QED  BY <1>1, <1>2, <2>1, NotFetching
<1>5. LengthInv'
  <2>1. request.tsa \in BOOLEAN /\ TSALength \in Nat /\ SignatureMaxLengthBase \in Nat
        /\ Evidence \in Nat /\ CertificateEstimate \in Nat
    <3>1. /\ request.tsa \in BOOLEAN /\ request.estimate \in Nat /\ archive.size \in Nat
          /\ SignatureMaxLengthBase \in Nat
      BY <1>1, RequestType, ArchiveType DEF BufferTypeOK
    <3>2. TSALength \in Nat
      BY LengthTypes
    <3> QED  BY <3>1, <3>2 DEF Evidence, CertificateEstimate, IsStamp
  <2>2. UNCHANGED <<Evidence, CertificateEstimate, Estimate, IsStamp>>
    BY <1>2 DEF Evidence, CertificateEstimate, Estimate, IsStamp
  <2> QED  BY <1>1, <1>2, <2>1, <2>2 DEF LengthInv, Laid, Estimate
<1>6. GrowthInv'
  BY <1>1, <1>2 DEF GrowthInv, OnlyGrowthIsRetried, Estimate, CertificateEstimate, IsStamp
<1>7. LayoutInv'
  <2>1. ByteRangeValues' = <<>>
    BY <1>1, <1>2 DEF LayoutInv
  <2>2. newRange' = [at |-> newRange'.at, value |-> <<>>]
    BY ReservedSpace DEF RangeEntry
  <2>3. End(newSpace)' = End(newSpace') /\ End(newSpace') = buffer'.length
    BY ReservedSpace DEF End, newSpace
  <2>4. End(newSpace') \in Nat
    BY ReservedSpace DEF End
  <2> QED  BY <1>2, <2>1, <2>2, <2>3, <2>4, ReservedSpace DEF LayoutInv, Laid
<1>8. InfoInv'
  BY <1>1, <1>2 DEF InfoInv, DeliveredIsWhatWasSigned
<1> QED  BY <1>3, <1>4, <1>5, <1>6, <1>7, <1>8 DEF SInv

\* The parts of a buffer that is laid out, and their types.
LEMMA LaidType ==
  ASSUME SInv, Laid \/ ByteRangeValues # <<>>
  PROVE  /\ buffer \in File /\ buffer.length \in Nat
         /\ buffer.ranges \in Seq(RangeEntry) /\ buffer.contents \in Seq(Contents)
         /\ DOMAIN buffer.contents = 1..Len(buffer.contents)
         /\ DOMAIN buffer.ranges = 1..Len(buffer.ranges)
         /\ Len(document.contents) \in Nat /\ Len(document.ranges) \in Nat
         /\ Len(buffer.contents) = Len(document.contents) + 1
         /\ Len(buffer.ranges) = Len(document.ranges) + 1
         /\ newSpace \in Contents /\ newRange \in RangeEntry
         /\ newSpace.at \in Nat /\ newSpace.digits \in Nat /\ newSpace.used \in Nat
         /\ End(newSpace) \in Nat /\ End(newSpace) <= buffer.length
         /\ newRange.at \in Nat /\ newRange.value = ByteRangeValues
         /\ newRange = [at |-> newRange.at, value |-> ByteRangeValues]
         /\ buffer.ranges = Append(document.ranges, newRange)
<1>1. BufferTypeOK /\ LayoutInv
  BY DEF SInv
<1>2. buffer \in File /\ document \in Documents
  BY <1>1 DEF BufferTypeOK
<1>3. /\ buffer.length \in Nat
      /\ buffer.ranges \in Seq(RangeEntry) /\ buffer.contents \in Seq(Contents)
  BY <1>2 DEF File
<1>4. /\ Len(document.contents) \in Nat /\ Len(document.ranges) \in Nat
      /\ document.ranges \in Seq(RangeEntry)
  BY <1>2, DocumentType
<1>5. /\ Len(buffer.contents) = Len(document.contents) + 1
      /\ End(newSpace) <= buffer.length
      /\ buffer.ranges = Append(document.ranges, [at |-> newRange.at, value |-> ByteRangeValues])
  BY <1>1 DEF LayoutInv
<1> DEFINE r == [at |-> newRange.at, value |-> ByteRangeValues]
<1>6. Len(buffer.ranges) = Len(document.ranges) + 1
  <2>1. document.ranges \in Seq(RangeEntry \union {r}) /\ r \in RangeEntry \union {r}
    BY <1>4, SeqMonotonic
  <2> HIDE DEF r
  <2>2. buffer.ranges = Append(document.ranges, r)
    BY <1>5 DEF r
  <2> QED  BY <2>1, <2>2, AppendProperties
<1>7. buffer.ranges[Len(document.ranges) + 1] = r
  <2>1. document.ranges \in Seq(RangeEntry \union {r}) /\ r \in RangeEntry \union {r}
    BY <1>4, SeqMonotonic
  <2> HIDE DEF r
  <2>2. buffer.ranges = Append(document.ranges, r)
    BY <1>5 DEF r
  <2> QED  BY <2>1, <2>2, AppendProperties
<1>8. newRange \in RangeEntry /\ newRange = r
  <2>1. buffer.ranges[Len(document.ranges) + 1] \in RangeEntry
    BY <1>3, <1>4, <1>6, LenProperties, ElementOfSeq
  <2> QED  BY <1>7, <2>1 DEF newRange
<1>9. newSpace \in Contents
  BY <1>3, <1>4, <1>5, LenProperties, ElementOfSeq DEF newSpace
<1>10. newSpace.at \in Nat /\ newSpace.digits \in Nat /\ newSpace.used \in Nat
  BY <1>9 DEF Contents
<1>11. End(newSpace) \in Nat
  BY <1>10 DEF End
<1>12. newRange.at \in Nat /\ newRange.value = ByteRangeValues
  BY <1>8 DEF RangeEntry
<1>13. DOMAIN buffer.contents = 1..Len(buffer.contents) /\ DOMAIN buffer.ranges = 1..Len(buffer.ranges)
  BY <1>3, LenProperties
<1> QED
  BY <1>2, <1>3, <1>4, <1>5, <1>6, <1>8, <1>9, <1>10, <1>11, <1>12, <1>13

LEMMA ReplaceLast ==
  ASSUME NEW S, NEW s \in Seq(S), NEW x \in S, NEW y \in S
  PROVE  [Append(s, x) EXCEPT ![Len(s) + 1] = y] = Append(s, y)
<1> DEFINE n == Len(s) + 1
           t == [Append(s, x) EXCEPT ![n] = y]
<1>1. /\ Append(s, x) \in Seq(S) /\ Append(s, y) \in Seq(S)
      /\ Len(Append(s, x)) = n /\ Len(Append(s, y)) = n /\ n \in 1..n /\ n \in Nat
      /\ \A i \in 1..Len(s) : Append(s, x)[i] = s[i] /\ Append(s, y)[i] = s[i]
      /\ Append(s, y)[n] = y
  BY AppendProperties, LenProperties
<1>2. t \in Seq(S) /\ Len(t) = n /\ \A i \in 1..n : t[i] = IF i = n THEN y ELSE Append(s, x)[i]
  <2> DEFINE u == Append(s, x)
  <2>1. u \in Seq(S) /\ n \in 1..Len(u) /\ Len(u) = n
    BY <1>1
  <2> HIDE DEF u, n
  <2>2. /\ [u EXCEPT ![n] = y] \in Seq(S) /\ Len([u EXCEPT ![n] = y]) = Len(u)
        /\ \A j \in 1..Len(u) : [u EXCEPT ![n] = y][j] = IF j = n THEN y ELSE u[j]
    BY <2>1, ExceptSeq
  <2> QED  BY <2>1, <2>2, Zenon DEF u
<1>3. \A i \in 1..n : t[i] = Append(s, y)[i]
  BY <1>1, <1>2
<1> HIDE DEF t
<1> QED  BY <1>1, <1>2, <1>3, SeqEqual DEF t

\* The placeholders that are found are those just made.
LEMMA LastPlaceholders ==
  ASSUME SInv, pc = "range"
  PROVE  /\ LastContents(buffer) = Len(buffer.contents)
         /\ LastRange(buffer) = Len(buffer.ranges)
         /\ RangeAround(buffer) =
              <<0, newSpace.at, End(newSpace), buffer.length - End(newSpace)>>
<1> USE DEF Laid
<1>1. newSpace.digits = SignatureMaxLength /\ newSpace.used = 0 /\ ByteRangeValues = <<>>
  BY DEF SInv, LayoutInv
<1>2. SignatureMaxLength \in Nat
  BY DEF SInv, BufferTypeOK
<1> DEFINE n == Len(buffer.contents)
           m == Len(buffer.ranges)
<1>3. /\ n \in Nat \ {0} /\ m \in Nat \ {0}
      /\ n = Len(document.contents) + 1 /\ m = Len(document.ranges) + 1
      /\ DOMAIN buffer.contents = 1..n /\ DOMAIN buffer.ranges = 1..m
  <2>1. /\ Len(buffer.contents) = Len(document.contents) + 1
        /\ Len(buffer.ranges) = Len(document.ranges) + 1
        /\ DOMAIN buffer.contents = 1..Len(buffer.contents)
        /\ DOMAIN buffer.ranges = 1..Len(buffer.ranges)
        /\ Len(document.contents) \in Nat /\ Len(document.ranges) \in Nat
    BY LaidType
  <2> QED  BY <2>1
<1>4. LastContents(buffer) = n
  <2> DEFINE S == ContentsMatches(buffer)
  <2>1. n \in S
    BY <1>1, <1>2, <1>3 DEF ContentsMatches, newSpace
  <2>2. S \in SUBSET (0..n)
    BY <1>3 DEF ContentsMatches
  <2> HIDE DEF S, n
  <2>3. Max(S) \in 0..n /\ n <= Max(S)
    BY <1>3, <2>1, <2>2, MaxOfBounded
  <2>4. Max(S) = n
    BY <1>3, <2>3
  <2> QED  BY <2>4 DEF LastContents, S
<1>5. LastRange(buffer) = m
  <2> DEFINE S == RangeMatches(buffer)
  <2>1. m \in S
    BY <1>1, <1>3, LaidType DEF RangeMatches, newRange
  <2>2. S \in SUBSET (0..m)
    BY <1>3 DEF RangeMatches
  <2> HIDE DEF S, m
  <2>3. Max(S) \in 0..m /\ m <= Max(S)
    BY <1>3, <2>1, <2>2, MaxOfBounded
  <2>4. Max(S) = m
    BY <1>3, <2>3
  <2> QED  BY <2>4 DEF LastRange, S
<1>6. RangeAround(buffer) = <<0, newSpace.at, End(newSpace), buffer.length - End(newSpace)>>
  BY <1>1, <1>3, <1>4 DEF RangeAround, newSpace, End
<1> QED  BY <1>4, <1>5, <1>6

\* A step that moves on without touching evidence, lengths or history.
LEMMA KeptParts ==
  ASSUME SInv, Laid, pc' \in {"range", "sign", "replace", "write"},
         UNCHANGED <<embeddingInput, embedding, document, request, sizes, outgrown>>
  PROVE  EmbeddingInv' /\ LengthInv' /\ GrowthInv'
<1> USE DEF embeddingInput, embedding, sizes
<1>1. EmbeddingInv'
  <2>1. EmbeddingInv /\ source \notin {"ocsp", "crl"}
    BY DEF SInv, EmbeddingInv, Laid
  <2> QED  BY <2>1, NotFetching
<1>2. LengthInv'
  BY DEF SInv, LengthInv, Laid, Estimate, CertificateEstimate, IsStamp, Evidence
<1>3. GrowthInv'
  BY DEF SInv, GrowthInv, OnlyGrowthIsRetried, Laid, Estimate, CertificateEstimate, IsStamp
<1> QED  BY <1>1, <1>2, <1>3

LEMMA WriteObjectsKeepsS ==
  ASSUME SInv, WriteObjects
  PROVE  SInv'
<1>1. /\ Laid /\ pc = "objects" /\ pc' = "range"
      /\ buffer' = [buffer EXCEPT !.length = @ + TailLength]
      /\ UNCHANGED <<embeddingInput, embedding, document, request, sizes, ByteRangeValues, own,
                     computed, outgrown, output, result>>
  BY DEF WriteObjects, Laid
<1> USE DEF embeddingInput, embedding, sizes
<1>2. /\ buffer' \in File /\ buffer'.contents = buffer.contents
      /\ buffer'.ranges = buffer.ranges /\ buffer'.length = buffer.length + TailLength
      /\ TailLength \in Nat
  <2>1. TailLength \in Nat
    BY LengthTypes
  <2>2. buffer \in File /\ buffer.length + TailLength \in Nat
    BY <1>1, <2>1, LaidType
  <2> QED  BY <1>1, <2>1, <2>2 DEF File
<1>3. BufferTypeOK'
  BY <1>1, <1>2 DEF SInv, BufferTypeOK, Steps
<1>4. newSpace' = newSpace /\ newRange' = newRange
  BY <1>1, <1>2 DEF newSpace, newRange
<1>5. LayoutInv'
  <2>1. LayoutInv /\ ByteRangeValues = <<>>
    BY <1>1 DEF SInv, LayoutInv
  <2>2. End(newSpace') <= buffer'.length /\ End(newSpace)' = End(newSpace')
    <3>1. End(newSpace) <= buffer.length /\ End(newSpace) \in Nat /\ buffer.length \in Nat
      BY <1>1, LaidType DEF End
    <3>2. End(newSpace') = End(newSpace) /\ End(newSpace)' = End(newSpace')
      BY <1>4 DEF End
    <3> QED  BY <1>2, <3>1, <3>2
  <2> QED  BY <1>1, <1>2, <1>4, <2>1, <2>2, LaidType DEF LayoutInv, Laid
<1>6. InfoInv'
  BY <1>1 DEF SInv, InfoInv, DeliveredIsWhatWasSigned
<1> QED  BY <1>1, <1>3, <1>5, <1>6, KeptParts DEF SInv

LEMMA UpdateByteRangeKeepsS ==
  ASSUME SInv, UpdateByteRange
  PROVE  SInv'
<1> DEFINE values == <<0, newSpace.at, End(newSpace), buffer.length - End(newSpace)>>
           r == [at |-> newRange.at, value |-> values]
           m == Len(buffer.ranges)
<1>1. /\ Laid /\ pc = "range" /\ pc' = "sign"
      /\ UNCHANGED <<embeddingInput, embedding, document, request, sizes, own, computed,
                     outgrown, output, result>>
  BY DEF UpdateByteRange, Laid
<1>2. /\ ByteRangeValues' = values
      /\ buffer' = [buffer EXCEPT !.ranges[m].value = values]
  BY <1>1, LastPlaceholders DEF UpdateByteRange
<1> USE DEF embeddingInput, embedding, sizes
<1>3. values \in Nat \X Nat \X Nat \X Nat
  <2>1. newSpace.at \in Nat /\ End(newSpace) \in Nat /\ buffer.length - End(newSpace) \in Nat
    BY <1>1, LaidType
  <2> QED  BY <2>1
<1>4. m \in Nat /\ m = Len(document.ranges) + 1
  BY <1>1, LaidType
<1>5. r \in RangeEntry
  BY <1>1, <1>3, LaidType DEF RangeEntry
<1> HIDE DEF values
<1>6. /\ buffer'.ranges = [buffer.ranges EXCEPT ![m] = r]
      /\ buffer'.contents = buffer.contents /\ buffer'.length = buffer.length
      /\ DOMAIN buffer' = {"length", "ranges", "contents"}
  <2>1. newRange = [at |-> newRange.at, value |-> ByteRangeValues] /\ buffer.ranges[m] = newRange
    BY <1>1, <1>4, LaidType DEF newRange
  <2>2. [newRange EXCEPT !.value = values] = r
    BY <2>1
  <2> QED  BY <1>1, <1>2, <2>1, <2>2, LaidType DEF File
<1> HIDE DEF r
<1>7. buffer'.ranges = Append(document.ranges, r)
  <2>1. document.ranges \in Seq(RangeEntry)
    BY DocumentType DEF SInv, BufferTypeOK
  <2>2. newRange \in RangeEntry /\ buffer.ranges = Append(document.ranges, newRange)
    BY <1>1, LaidType
  <2>3. [Append(document.ranges, newRange) EXCEPT ![Len(document.ranges) + 1] = r]
          = Append(document.ranges, r)
    <3> DEFINE d == document.ranges
    <3>1. d \in Seq(RangeEntry) /\ newRange \in RangeEntry /\ r \in RangeEntry
      BY <1>5, <2>1, <2>2
    <3> HIDE DEF d
    <3>2. [Append(d, newRange) EXCEPT ![Len(d) + 1] = r] = Append(d, r)
      BY <3>1, ReplaceLast
    <3> QED  BY <3>2 DEF d
  <2> QED  BY <1>4, <1>6, <2>2, <2>3, Zenon
<1>8. buffer'.ranges \in Seq(RangeEntry) /\ buffer'.ranges[m] = r
      /\ Len(buffer'.ranges) = m
  <2>1. document.ranges \in Seq(RangeEntry)
    BY DocumentType DEF SInv, BufferTypeOK
  <2> QED  BY <1>4, <1>5, <1>7, <2>1, AppendProperties
<1>9. buffer' \in File
  BY <1>1, <1>2, <1>6, <1>8, LaidType DEF File
<1>10. BufferTypeOK'
  BY <1>1, <1>2, <1>3, <1>9 DEF SInv, BufferTypeOK, Steps
<1>11. newSpace' = newSpace /\ newRange' = r /\ End(newSpace)' = End(newSpace)
  BY <1>1, <1>4, <1>6, <1>8 DEF newSpace, newRange, End
<1>12. LayoutInv'
  <2>1. newSpace.digits = SignatureMaxLength /\ newSpace.used = 0
    BY <1>1 DEF SInv, LayoutInv
  <2>2. ByteRangeValues' # <<>>
    BY <1>2 DEF values
  <2>3. r = [at |-> newRange'.at, value |-> ByteRangeValues']
    BY <1>2, <1>11 DEF r
  <2> QED
    BY <1>1, <1>2, <1>6, <1>7, <1>11, <2>1, <2>2, <2>3, LaidType DEF LayoutInv, Laid, values
<1>13. InfoInv'
  BY <1>1 DEF SInv, InfoInv, DeliveredIsWhatWasSigned
<1> QED  BY <1>1, <1>10, <1>12, <1>13, KeptParts DEF SInv

LEMMA CreateSignatureKeepsS ==
  ASSUME SInv, CreateSignature
  PROVE  SInv'
<1>1. /\ Laid /\ pc = "sign" /\ pc' = "replace" /\ own' \in OwnSizes
      /\ computed' = [computed EXCEPT
           !.documentHash = SignedParts(buffer, ByteRangeValues),
           !.timeStamp = IF request.tsa THEN attempt ELSE @]
      /\ UNCHANGED <<embeddingInput, embedding, document, request, sizes, buffer,
                     ByteRangeValues, outgrown, output, result>>
  BY DEF CreateSignature, Laid
<1> USE DEF embeddingInput, embedding, sizes
<1>2. own' \in Nat
  BY <1>1, OwnSizesAssumption
<1>3. BufferTypeOK'
  BY <1>1, <1>2 DEF SInv, BufferTypeOK, Steps
<1>4. LayoutInv'
  BY <1>1 DEF SInv, LayoutInv, Laid, newSpace, newRange, End
<1>5. InfoInv'
  <2>1. computed = NoInfo /\ InfoInv
    BY <1>1 DEF SInv, InfoInv
  <2>2. computed' = [documentHash |-> SignedParts(buffer, ByteRangeValues),
                     signatureHash |-> <<>>,
                     timeStamp |-> IF request.tsa THEN attempt ELSE 0]
    BY <1>1, <2>1 DEF NoInfo
  <2>3. SignedParts(buffer, ByteRangeValues)' = SignedParts(buffer, ByteRangeValues)
    BY <1>1 DEF SignedParts, End
  <2>4. result' # "delivered"
    BY <1>1, <2>1 DEF InfoInv
  <2> QED  BY <1>1, <2>2, <2>3, <2>4 DEF InfoInv, DeliveredIsWhatWasSigned
<1> QED  BY <1>1, <1>3, <1>4, <1>5, KeptParts DEF SInv

\* The digits written are as many as were reserved, and only they change.
LEMMA Replaced ==
  ASSUME SInv, ReplaceSignature
  PROVE  /\ Encoded \in Nat
         /\ buffer' \in File /\ buffer'.length = buffer.length
         /\ buffer'.ranges = buffer.ranges
         /\ Len(buffer'.contents) = Len(buffer.contents)
         /\ \A i \in DOMAIN buffer.contents : buffer'.contents[i].at = buffer.contents[i].at
         /\ newSpace'.at = newSpace.at /\ newSpace'.digits = newSpace.digits
         /\ newSpace'.signature = attempt
         /\ SignedParts(buffer', ByteRangeValues) = SignedParts(buffer, ByteRangeValues)
<1> DEFINE n == Len(buffer.contents)
           filled == [at |-> newSpace.at, digits |-> SignatureMaxLength, used |-> Encoded,
                      signature |-> attempt]
           start == newSpace.at
           rest == buffer.length - End(newSpace)
<1>1. /\ Laid /\ pc = "replace" /\ Encoded <= SignatureMaxLength
      /\ buffer' = [buffer EXCEPT
           !.length = ByteRangeValues[2] + (Encoded + Padding) + 2 + ByteRangeValues[4],
           !.contents = [@ EXCEPT ![Len(@)] =
              [at |-> ByteRangeValues[2], digits |-> Encoded + Padding, used |-> Encoded,
               signature |-> attempt]]]
      /\ document' = document
  BY DEF ReplaceSignature, Laid
<1>2. SignatureMaxLength \in Nat /\ own \in Nat /\ attempt \in Nat /\ archive.size \in Nat
      /\ ByteRangeValues = <<0, start, End(newSpace), rest>>
      /\ newSpace.digits = SignatureMaxLength
  <2>1. SignatureMaxLength \in Nat /\ own \in Nat /\ attempt \in 1..MaxRetries
        /\ archive \in InfoArchival /\ MaxRetries \in Nat
    BY LengthTypes DEF SInv, BufferTypeOK
  <2>2. /\ newSpace.digits = SignatureMaxLength
        /\ ByteRangeValues = <<0, start, End(newSpace), rest>>
    BY <1>1 DEF SInv, LayoutInv
  <2> QED  BY <2>1, <2>2, ArchiveType
<1>3. Encoded \in Nat
  BY <1>2 DEF Encoded, EncodedLen, SignatureLength
<1>4. Encoded + Padding = SignatureMaxLength
  BY <1>2, <1>3 DEF Padding
<1>5. ByteRangeValues[2] = start /\ ByteRangeValues[3] = End(newSpace) /\ ByteRangeValues[4] = rest
  BY <1>2
<1>6. start + SignatureMaxLength + 2 + rest = buffer.length
  <2>1. /\ newSpace.at \in Nat /\ buffer.length \in Nat
        /\ End(newSpace) = newSpace.at + newSpace.digits + 2
    BY <1>1, LaidType DEF End
  <2> QED  BY <1>1, <1>2, <2>1 DEF End
<1>7. filled \in Contents
  BY <1>1, <1>2, <1>3, LaidType DEF Contents
<1>8. buffer' = [buffer EXCEPT !.length = buffer.length, !.contents = [@ EXCEPT ![n] = filled]]
  BY <1>1, <1>4, <1>5, <1>6
<1>8a. filled.at = start /\ filled.digits = newSpace.digits /\ filled.signature = attempt
       /\ End(filled) = End(newSpace)
  BY <1>2 DEF End
<1> HIDE DEF filled
<1>9. /\ n \in 1..n /\ n \in Nat /\ buffer.contents \in Seq(Contents)
      /\ DOMAIN buffer.contents = 1..n /\ buffer.contents[n] = newSpace
      /\ newSpace.at \in Nat /\ End(newSpace) \in Nat /\ newSpace.digits \in Nat
      /\ n = Len(document.contents) + 1
  BY <1>1, LaidType DEF newSpace
<1>10. /\ [buffer.contents EXCEPT ![n] = filled] \in Seq(Contents)
       /\ Len([buffer.contents EXCEPT ![n] = filled]) = n
       /\ \A i \in 1..n : [buffer.contents EXCEPT ![n] = filled][i]
                             = IF i = n THEN filled ELSE buffer.contents[i]
  BY <1>7, <1>9, ExceptSeq
<1>11. /\ buffer' \in File /\ buffer'.length = buffer.length /\ buffer'.ranges = buffer.ranges
       /\ buffer'.contents = [buffer.contents EXCEPT ![n] = filled]
  <2>1. buffer \in File /\ buffer.length \in Nat
    BY <1>1, LaidType
  <2> HIDE DEF n
  <2> QED  BY <1>8, <1>10, <2>1 DEF File
<1>12. newSpace' = filled
  BY <1>1, <1>9, <1>10, <1>11 DEF newSpace
<1>13. \A i \in DOMAIN buffer.contents : buffer'.contents[i].at = buffer.contents[i].at
  BY <1>8a, <1>9, <1>10, <1>11
<1>14. SignedParts(buffer', ByteRangeValues) = SignedParts(buffer, ByteRangeValues)
  <2> DEFINE Outside(c) == End(c) <= start \/ c.at >= End(newSpace)
             Parts(contents) == {c \in Range(contents) : Outside(c)}
  <2>1. ~ Outside(newSpace) /\ ~ Outside(filled)
    BY <1>8a, <1>9 DEF End
  <2>2. /\ DOMAIN buffer'.contents = 1..n
        /\ \A i \in 1..n : buffer'.contents[i] = IF i = n THEN filled ELSE buffer.contents[i]
    BY <1>9, <1>10, <1>11, LenProperties
  <2> HIDE DEF Outside, n
  <2>3. Parts(buffer'.contents) = Parts(buffer.contents)
    <3>1. ASSUME NEW c
          PROVE  c \in Parts(buffer'.contents) <=> c \in Parts(buffer.contents)
      <4>1. c \in Parts(buffer'.contents) <=>
              Outside(c) /\ \E i \in 1..n : c = buffer'.contents[i]
        BY <2>2 DEF Range
      <4>2. c \in Parts(buffer.contents) <=>
              Outside(c) /\ \E i \in 1..n : c = buffer.contents[i]
        BY <1>9 DEF Range
      <4> QED  BY <1>9, <2>1, <2>2, <4>1, <4>2
    <3> QED  BY <3>1, Zenon
  <2>4. /\ SignedParts(buffer', ByteRangeValues) =
             [range |-> ByteRangeValues, ranges |-> buffer'.ranges,
              contents |-> Parts(buffer'.contents)]
        /\ SignedParts(buffer, ByteRangeValues) =
             [range |-> ByteRangeValues, ranges |-> buffer.ranges,
              contents |-> Parts(buffer.contents)]
    BY <1>5 DEF SignedParts, Outside
  <2> HIDE DEF Parts
  <2> QED  BY <1>11, <2>3, <2>4
<1> QED  BY <1>3, <1>8a, <1>10, <1>11, <1>12, <1>13, <1>14

LEMMA ReplaceSignatureKeepsS ==
  ASSUME SInv, ReplaceSignature
  PROVE  SInv'
<1>1. /\ Laid /\ pc = "replace" /\ pc' = "write"
      /\ computed' = [computed EXCEPT !.signatureHash =
           [signature |-> attempt, length |-> SignatureLength(own) + (Padding \div 2)]]
      /\ UNCHANGED <<embeddingInput, embedding, document, request, sizes, ByteRangeValues, own,
                     outgrown, output, result>>
  BY DEF ReplaceSignature, Laid
<1> USE DEF embeddingInput, embedding, sizes
<1>2. BufferTypeOK'
  BY <1>1, Replaced DEF SInv, BufferTypeOK, Steps
<1>3. LayoutInv'
  <2>1. End(newSpace)' = End(newSpace)
    BY Replaced DEF End
  <2>2. newRange' = newRange
    BY <1>1, Replaced DEF newRange
  <2>3. Len(buffer'.contents) = Len(document.contents) + 1 /\ End(newSpace) <= buffer.length
        /\ buffer.ranges = Append(document.ranges, [at |-> newRange.at, value |-> ByteRangeValues])
        /\ ByteRangeValues # <<>>
        /\ ByteRangeValues = <<0, newSpace.at, End(newSpace), buffer.length - End(newSpace)>>
    BY <1>1, LaidType, Replaced DEF SInv, LayoutInv
  <2> QED  BY <1>1, <2>1, <2>2, <2>3, Replaced DEF LayoutInv, Laid
<1>4. InfoInv'
  <2>1. /\ computed = [documentHash |-> SignedParts(buffer, ByteRangeValues),
                       signatureHash |-> <<>>,
                       timeStamp |-> IF request.tsa THEN attempt ELSE 0]
        /\ result # "delivered"
    BY <1>1 DEF SInv, InfoInv
  <2>2. /\ computed'.documentHash = SignedParts(buffer, ByteRangeValues)
        /\ computed'.signatureHash.signature = attempt
        /\ computed'.timeStamp = IF request.tsa THEN attempt ELSE 0
    BY <1>1, <2>1
  <2>3. SignedParts(buffer, ByteRangeValues)' = SignedParts(buffer', ByteRangeValues)
    BY <1>1
  <2> QED  BY <1>1, <2>1, <2>2, <2>3, Replaced DEF InfoInv, DeliveredIsWhatWasSigned
<1> QED  BY <1>1, <1>2, <1>3, <1>4, KeptParts DEF SInv

LEMMA WriteKeepsS ==
  ASSUME SInv, Write
  PROVE  SInv'
<1>1. /\ Laid /\ pc = "write" /\ pc' = "done" /\ output' = buffer /\ result' = "delivered"
      /\ UNCHANGED <<embeddingInput, embedding, document, request, sizes, signing, outgrown>>
  BY DEF Write, Laid
<1> USE DEF embeddingInput, embedding, sizes, signing
<1>2. BufferTypeOK'
  BY <1>1 DEF SInv, BufferTypeOK, Steps
<1>3. EmbeddingInv'
  BY <1>1, NotFetching DEF SInv, EmbeddingInv
<1>4. LengthInv' /\ GrowthInv'
  BY <1>1 DEF SInv, LengthInv, GrowthInv, OnlyGrowthIsRetried, Laid, Estimate,
              CertificateEstimate, IsStamp
<1>5. LayoutInv'
  BY <1>1 DEF SInv, LayoutInv, Laid, newSpace, newRange, End
<1>6. InfoInv'
  <2>1. /\ output'.ranges[Len(output'.ranges)] = newRange
        /\ output'.contents[Len(output'.contents)] = newSpace
        /\ newRange.value = ByteRangeValues
    BY <1>1, LaidType DEF newRange, newSpace
  <2>2. /\ ByteRangeValues # <<>>
        /\ computed.documentHash = SignedParts(buffer, ByteRangeValues)
        /\ computed.signatureHash.signature = attempt /\ newSpace.signature = attempt
        /\ request.tsa => computed.timeStamp = attempt
    BY <1>1 DEF SInv, InfoInv, LayoutInv
  <2>3. DeliveredIsWhatWasSigned'
    BY <1>1, <2>1, <2>2 DEF DeliveredIsWhatWasSigned
  <2> QED  BY <1>1, <2>3 DEF InfoInv
<1> QED  BY <1>2, <1>3, <1>4, <1>5, <1>6 DEF SInv

-----------------------------------------------------------------------------
(* Attempts that fail.                                                     *)

LEMMA ReturnErrorKeepsS ==
  ASSUME SInv, ReturnError
  PROVE  SInv'
<1>1. /\ pc # "done" /\ pc' = "done" /\ result' = "failed" /\ source \notin {"ocsp", "crl"}
      /\ UNCHANGED <<embeddingInput, embedding, document, request, sizes, signing, outgrown,
                     output>>
  BY DEF ReturnError, Fails, SInv, EmbeddingInv
<1> USE DEF embeddingInput, embedding, sizes, signing
<1>2. BufferTypeOK'
  BY <1>1 DEF SInv, BufferTypeOK, Steps
<1>3. EmbeddingInv'
  BY <1>1, NotFetching DEF SInv
<1>4. LengthInv' /\ GrowthInv'
  BY <1>1 DEF SInv, LengthInv, GrowthInv, OnlyGrowthIsRetried, Laid, Estimate,
              CertificateEstimate, IsStamp
<1>5. LayoutInv'
  BY <1>1 DEF SInv, LayoutInv, Laid, newSpace, newRange, End
<1>6. InfoInv'
  BY <1>1 DEF InfoInv, DeliveredIsWhatWasSigned
<1> QED  BY <1>2, <1>3, <1>4, <1>5, <1>6 DEF SInv

\* The base after an attempt that failed, and the signature that failed is longer than all
\* that failed before.
LEMMA Outgrown ==
  ASSUME SInv, SignatureTooLong
  PROVE  /\ outgrown' \in Seq(Nat) /\ Len(outgrown') = Len(outgrown) + 1
         /\ Len(outgrown') = attempt /\ attempt \in 1..MaxRetries
         /\ outgrown' # <<>>
         /\ SignatureMaxLengthBase' = 2 * outgrown'[Len(outgrown')] - Estimate + 1
         /\ SignatureMaxLengthBase' \in Nat
         /\ OnlyGrowthIsRetried'
<1>1. /\ pc = "replace" /\ Encoded > SignatureMaxLength
      /\ SignatureMaxLengthBase' = SignatureMaxLengthBase + (Encoded - SignatureMaxLength) + 1
      /\ outgrown' = Append(outgrown, own)
  BY DEF SignatureTooLong, GrownBase
<1>2. /\ SignatureMaxLength \in Nat /\ SignatureMaxLengthBase \in Nat /\ own \in Nat
      /\ outgrown \in Seq(Nat) /\ Len(outgrown) \in Nat
      /\ archive.size \in Nat /\ request.estimate \in Nat /\ request.tsa \in BOOLEAN
      /\ TSALength \in Nat
  BY ArchiveType, RequestType, LengthTypes DEF SInv, BufferTypeOK
<1>3. Evidence \in Nat /\ Estimate \in Nat
  BY <1>2 DEF Evidence, Estimate, CertificateEstimate, IsStamp
<1>4. Encoded = 2 * own + 2 * Evidence /\ Encoded \in Nat
  BY <1>2 DEF Encoded, EncodedLen, SignatureLength, Evidence, IsStamp
<1>5. SignatureMaxLength = SignatureMaxLengthBase + Estimate + 2 * Evidence
  BY <1>1 DEF SInv, LengthInv, Laid
<1>6. SignatureMaxLengthBase' = 2 * own - Estimate + 1 /\ SignatureMaxLengthBase' \in Nat
  BY <1>1, <1>2, <1>3, <1>4, <1>5
<1>7. /\ outgrown' \in Seq(Nat) /\ outgrown' # <<>> /\ Len(outgrown') = Len(outgrown) + 1
      /\ \A i \in 1..Len(outgrown) : outgrown'[i] = outgrown[i]
      /\ outgrown'[Len(outgrown')] = own
      /\ DOMAIN outgrown' = 1..(Len(outgrown) + 1) /\ DOMAIN outgrown = 1..Len(outgrown)
  BY <1>1, <1>2, AppendProperties, LenProperties
<1>8. outgrown # <<>> => outgrown[Len(outgrown)] < own
  <2> HAVE outgrown # <<>>
  <2>1. SignatureMaxLengthBase = 2 * outgrown[Len(outgrown)] - Estimate + 1
    BY DEF SInv, GrowthInv
  <2>2. outgrown[Len(outgrown)] \in Nat
    BY <1>2, EmptySeq, LenProperties, ElementOfSeq
  <2> DEFINE l == outgrown[Len(outgrown)]
  <2>3. 2 * own + 2 * Evidence > 2 * l + 1 + 2 * Evidence
    <3>1. SignatureMaxLength = 2 * l - Estimate + 1 + Estimate + 2 * Evidence
      BY <1>5, <2>1
    <3> HIDE DEF l
    <3>2. l \in Nat
      BY <2>2 DEF l
    <3>3. SignatureMaxLength = 2 * l + 1 + 2 * Evidence
      BY <1>3, <3>1, <3>2
    <3> QED  BY <1>1, <1>4, <3>3
  <2> HIDE DEF l
  <2>4. l \in Nat
    BY <2>2 DEF l
  <2>5. l < own
    BY <1>2, <1>3, <2>3, <2>4
  <2> QED  BY <2>5 DEF l
<1>9. OnlyGrowthIsRetried'
  <2> SUFFICES ASSUME NEW i \in 1..(Len(outgrown) + 1), NEW j \in 1..(Len(outgrown) + 1), i < j
               PROVE  outgrown'[i] < outgrown'[j]
    BY <1>7 DEF OnlyGrowthIsRetried
  <2>1. i \in 1..Len(outgrown) /\ outgrown'[i] = outgrown[i]
    <3>1. i \in 1..Len(outgrown)
      BY <1>2
    <3> QED  BY <1>7, <3>1
  <2>2. \A k, l \in 1..Len(outgrown) : k < l => outgrown[k] < outgrown[l]
    BY <1>7 DEF SInv, GrowthInv, OnlyGrowthIsRetried
  <2>3. CASE j \in 1..Len(outgrown)
    BY <1>7, <2>1, <2>2, <2>3
  <2>4. CASE j \notin 1..Len(outgrown)
    <3> DEFINE last == Len(outgrown)
    <3>1. j = last + 1 /\ outgrown'[j] = own /\ last \in 1..last
      <4>1. j = last + 1 /\ last \in 1..last
        BY <1>2, <2>1, <2>4
      <4> QED  BY <1>7, <4>1
    <3>2. outgrown[last] < own
      BY <1>8, <2>1, EmptySeq
    <3>3. outgrown[i] \in Nat /\ outgrown[last] \in Nat
      BY <1>2, <2>1, <3>1, ElementOfSeq
    <3>4. i = last \/ outgrown[i] < outgrown[last]
      BY <1>2, <2>1, <2>2, <3>1
    <3> QED  BY <1>2, <2>1, <3>1, <3>2, <3>3, <3>4
  <2> QED  BY <2>3, <2>4
<1>10. attempt = Len(outgrown) + 1 /\ attempt \in 1..MaxRetries
  BY <1>1 DEF SInv, GrowthInv, BufferTypeOK
<1> QED  BY <1>6, <1>7, <1>9, <1>10

LEMMA RetryKeepsS ==
  ASSUME SInv, Retry
  PROVE  SInv'
<1>1. /\ SignatureTooLong /\ pc = "replace" /\ pc' = "start"
      /\ attempt < MaxRetries /\ attempt' = attempt + 1
      /\ chain' \in Chains
      /\ archive' = NoEvidence /\ before' = Lengths(NoEvidence)
      /\ ByteRangeValues' = <<>> /\ computed' = NoInfo
      /\ UNCHANGED <<revocationFunction, store, document, request, output, source, certificate,
                     server, collected, SignatureMaxLength, buffer, own, result>>
  BY DEF Retry, SignatureTooLong, AttemptsLeft, ResetEvidence
<1>2. /\ attempt' \in 1..MaxRetries /\ Len(outgrown') <= MaxRetries
      /\ attempt' = Len(outgrown') + 1
  <2>1. Len(outgrown') = attempt /\ attempt \in 1..MaxRetries /\ MaxRetries \in Nat
    BY <1>1, Outgrown, LengthTypes
  <2> QED  BY <1>1, <2>1
<1>3. BufferTypeOK'
  <2>1. archive' \in InfoArchival /\ before' \in [ocsp: Nat, crl: Nat]
    BY <1>1, EmptyTypes
  <2> QED  BY <1>1, <1>2, <2>1, Outgrown DEF SInv, BufferTypeOK, Steps
<1>4. EmbeddingInv'
  <2>1. source' \notin {"ocsp", "crl"}
    BY <1>1 DEF SInv, EmbeddingInv
  <2>2. before'.ocsp <= Len(archive'.ocsp) /\ before'.crl <= Len(archive'.crl)
    BY <1>1, EmptyTypes DEF NoEvidence
  <2> QED  BY <2>1, <2>2 DEF EmbeddingInv
<1>5. LengthInv'
  BY <1>1 DEF LengthInv, Laid
<1>6. GrowthInv'
  BY <1>1, <1>2, Outgrown DEF GrowthInv, Estimate, CertificateEstimate, IsStamp
<1>7. LayoutInv' /\ InfoInv'
  BY <1>1 DEF SInv, LayoutInv, Laid, InfoInv, DeliveredIsWhatWasSigned
<1> QED  BY <1>3, <1>4, <1>5, <1>6, <1>7 DEF SInv

LEMMA GiveUpKeepsS ==
  ASSUME SInv, GiveUp
  PROVE  SInv'
<1>1. /\ SignatureTooLong /\ pc = "replace" /\ pc' = "done" /\ result' = "failed"
      /\ UNCHANGED <<attempt, chain, embedding, SignatureMaxLength, signing,
                     revocationFunction, store, document, request, output>>
  BY DEF GiveUp, SignatureTooLong
<1> USE DEF embedding, signing
<1>2. Len(outgrown') <= MaxRetries
  BY <1>1, Outgrown, LengthTypes
<1>3. BufferTypeOK'
  BY <1>1, <1>2, Outgrown DEF SInv, BufferTypeOK, Steps
<1>4. EmbeddingInv'
  BY <1>1, NotFetching DEF SInv, EmbeddingInv
<1>5. LengthInv'
  BY <1>1 DEF LengthInv, Laid
<1>6. GrowthInv'
  BY <1>1, Outgrown DEF GrowthInv, Estimate, CertificateEstimate, IsStamp
<1>7. LayoutInv'
  BY <1>1 DEF SInv, LayoutInv, Laid, newSpace, newRange, End
<1>8. InfoInv'
  BY <1>1 DEF InfoInv, DeliveredIsWhatWasSigned
<1> QED  BY <1>3, <1>4, <1>5, <1>6, <1>7, <1>8 DEF SInv

LEMMA StutterKeepsS ==
  ASSUME SInv, UNCHANGED vars
  PROVE  SInv'
<1> USE DEF vars, embeddingInput, embedding, bufferVars, sizes, signing
<1>1. BufferTypeOK' /\ EmbeddingInv'
  BY DEF SInv, BufferTypeOK, EmbeddingInv, Servers
<1>2. LengthInv' /\ GrowthInv'
  BY DEF SInv, LengthInv, GrowthInv, OnlyGrowthIsRetried, Laid, Estimate, CertificateEstimate,
         IsStamp, Evidence
<1>3. LayoutInv'
  BY DEF SInv, LayoutInv, Laid, newSpace, newRange, End
<1>4. InfoInv'
  <2>1. SignedParts(buffer, ByteRangeValues)' = SignedParts(buffer, ByteRangeValues)
    BY DEF SignedParts, End
  <2> QED  BY <2>1 DEF SInv, InfoInv, newSpace, DeliveredIsWhatWasSigned, SignedParts, End
<1> QED  BY <1>1, <1>2, <1>3, <1>4 DEF SInv

LEMMA NextKeepsS ==
  ASSUME SInv, [Next]_vars
  PROVE  SInv'
<1>1. CASE StartAttempt
  BY <1>1, StartAttemptKeepsS
<1>2. CASE Fetch
  BY <1>2, FetchKeepsS
<1>3. CASE CountEvidence
  BY <1>3, CountEvidenceKeepsS
<1>4. CASE ReserveSpace
  BY <1>4, ReserveSpaceKeepsS
<1>5. CASE WriteObjects
  BY <1>5, WriteObjectsKeepsS
<1>6. CASE UpdateByteRange
  BY <1>6, UpdateByteRangeKeepsS
<1>7. CASE CreateSignature
  BY <1>7, CreateSignatureKeepsS
<1>8. CASE ReplaceSignature
  BY <1>8, ReplaceSignatureKeepsS
<1>9. CASE Write
  BY <1>9, WriteKeepsS
<1>10. CASE Retry
  BY <1>10, RetryKeepsS
<1>11. CASE GiveUp
  BY <1>11, GiveUpKeepsS
<1>12. CASE ReturnError
  BY <1>12, ReturnErrorKeepsS
<1>13. CASE UNCHANGED vars
  BY <1>13, StutterKeepsS
<1> QED
  BY <1>1, <1>2, <1>3, <1>4, <1>5, <1>6, <1>7, <1>8, <1>9, <1>10, <1>11, <1>12, <1>13 DEF Next

LEMMA SpecKeepsS == Spec => []SInv
<1>1. Init => SInv
  BY InitS
<1>2. SInv /\ [Next]_vars => SInv'
  BY NextKeepsS
<1> QED  BY <1>1, <1>2, PTL DEF Spec

-----------------------------------------------------------------------------
(* What is proved.                                                         *)

\* The state of a call is well formed, in particular no responder, distribution point or
\* certificate is read that is not there, and it makes at most MaxRetries attempts.
THEOREM BufferTypeCorrect == Spec => []BufferTypeOK
<1>1. SInv => BufferTypeOK
  BY DEF SInv
<1> QED  BY <1>1, SpecKeepsS, PTL

LEMMA RangeFromInv == SInv => RangeIsAllButSignature
<1> SUFFICES ASSUME SInv, ByteRangeValues # <<>>
             PROVE  /\ ByteRangeValues = <<0, newSpace.at, End(newSpace),
                                           buffer.length - End(newSpace)>>
                    /\ buffer.ranges = Append(document.ranges,
                                              [newRange EXCEPT !.value = ByteRangeValues])
  BY DEF RangeIsAllButSignature, newSpace, newRange
<1>1. ByteRangeValues = <<0, newSpace.at, End(newSpace), buffer.length - End(newSpace)>>
  BY DEF SInv, LayoutInv
<1>2. buffer.ranges = Append(document.ranges, newRange)
      /\ newRange = [at |-> newRange.at, value |-> ByteRangeValues]
  BY LaidType
<1>3. [newRange EXCEPT !.value = ByteRangeValues] = newRange
  BY <1>2
<1> QED  BY <1>1, <1>2, <1>3

\* The byte range covers the file without the last /Contents, whatever the document holds,
\* and stands in the last /ByteRange and in no other.
THEOREM RangeCoversAllButSignature == Spec => []RangeIsAllButSignature
  BY RangeFromInv, SpecKeepsS, PTL

\* What was digested is what the delivered file says was signed; the signature and the
\* time-stamp in it are of one attempt.
THEOREM DeliveredWasSigned == Spec => []DeliveredIsWhatWasSigned
<1>1. SInv => DeliveredIsWhatWasSigned
  BY DEF SInv, InfoInv
<1> QED  BY <1>1, SpecKeepsS, PTL

\* Only a signature longer than all before it is not served by a retry, whatever evidence
\* and time-stamp come with it.
THEOREM OnlyGrowthNeedsRetry == Spec => []OnlyGrowthIsRetried
<1>1. SInv => OnlyGrowthIsRetried
  BY DEF SInv, GrowthInv
<1> QED  BY <1>1, SpecKeepsS, PTL

LEMMA Parity ==
  ASSUME NEW x \in Int
  PROVE  (2 * x) % 2 = 0 /\ (2 * x + 1) % 2 = 1
  OBVIOUS

LEMMA OddFromInv == SInv => OddAfterRetry
<1> SUFFICES ASSUME SInv, pc \in {"range", "sign", "replace", "write"}
             PROVE  SignatureMaxLength % 2 = IF attempt = 1 THEN 0 ELSE 1
  BY DEF OddAfterRetry
<1>1. SignatureMaxLength = SignatureMaxLengthBase + Estimate + 2 * Evidence
  BY DEF SInv, LengthInv, Laid
<1>2. /\ archive.size \in Nat /\ request.estimate \in Nat /\ request.tsa \in BOOLEAN
      /\ outgrown \in Seq(Nat) /\ Len(outgrown) \in Nat /\ attempt = Len(outgrown) + 1
      /\ SignatureMaxLengthBase \in Nat
  BY ArchiveType, RequestType DEF SInv, BufferTypeOK, GrowthInv
<1>3. PICK h \in Nat : BaseLength = 2 * h
  BY LengthTypes, EvenLengthsAssumption
<1>4. PICK t \in Nat : TSALength = 2 * t
  BY LengthTypes, EvenLengthsAssumption
<1>5. Evidence \in Nat
  BY <1>2 DEF Evidence
<1>6. PICK e \in Nat : Estimate = 2 * e
  <2>1. PICK c \in Nat : CertificateEstimate = 2 * c
    <3>1. CASE IsStamp
      <4>1. CertificateEstimate = 2 * 0
        BY <3>1 DEF CertificateEstimate
      <4> QED  BY <4>1
    <3>2. CASE ~ IsStamp
      BY <1>2, <3>2 DEF CertificateEstimate
    <3> QED  BY <3>1, <3>2
  <2>2. CASE request.tsa
    <3>1. Estimate = 2 * (c + t) /\ c + t \in Nat
      BY <1>4, <2>1, <2>2 DEF Estimate
    <3> QED  BY <3>1
  <2>3. CASE ~ request.tsa
    <3>1. Estimate = 2 * c
      BY <2>1, <2>3 DEF Estimate
    <3> QED  BY <3>1
  <2> QED  BY <2>2, <2>3
<1>7. CASE outgrown = <<>>
  <2>1. attempt = 1 /\ SignatureMaxLengthBase = BaseLength
    BY <1>2, <1>7 DEF SInv, GrowthInv
  <2>2. SignatureMaxLength = 2 * (h + e + Evidence) /\ h + e + Evidence \in Int
    BY <1>1, <1>3, <1>5, <1>6, <2>1
  <2> QED  BY <2>1, <2>2, Parity
<1>8. CASE outgrown # <<>>
  <2> DEFINE last == outgrown[Len(outgrown)]
  <2>1. last \in Nat /\ attempt # 1
    BY <1>2, <1>8, EmptySeq, LenProperties, ElementOfSeq
  <2>2. SignatureMaxLengthBase = 2 * last - Estimate + 1
    BY <1>8 DEF SInv, GrowthInv
  <2> HIDE DEF last
  <2>3. SignatureMaxLength = 2 * (last + Evidence) + 1 /\ last + Evidence \in Int
    BY <1>1, <1>5, <1>6, <2>1, <2>2
  <2> QED  BY <2>1, <2>3, Parity
<1> QED  BY <1>7, <1>8

\* Every attempt but the first reserves an odd number of digits.
THEOREM RetryReservesOdd == Spec => []OddAfterRetry
  BY OddFromInv, SpecKeepsS, PTL

LEMMA StepMovesNothing == SInv /\ [Next]_vars =>
  [pc' \notin {"start", "fetch", "reserve", "objects"} /\ pc # "objects" => SamePlaces]_vars
<1> SUFFICES ASSUME SInv, Next, pc # "objects",
                    pc' \notin {"start", "fetch", "reserve", "objects"}
             PROVE  SamePlaces
  OBVIOUS
<1>1. CASE UpdateByteRange
  <2> DEFINE m == Len(buffer.ranges)
  <2>1. /\ Laid /\ pc = "range"
        /\ buffer' = [buffer EXCEPT !.ranges[LastRange(buffer)].value = RangeAround(buffer)]
    BY <1>1 DEF UpdateByteRange, Laid
  <2>2. buffer' = [buffer EXCEPT !.ranges[m].value = RangeAround(buffer)]
    BY <2>1, LastPlaceholders
  <2>3. /\ buffer \in File /\ DOMAIN buffer.ranges = 1..m
        /\ \A i \in 1..m : buffer.ranges[i] \in RangeEntry
    BY <2>1, LaidType, ElementOfSeq
  <2> DEFINE v == RangeAround(buffer)
  <2> HIDE DEF m, v
  <2>4. /\ buffer'.length = buffer.length /\ buffer'.contents = buffer.contents
        /\ buffer'.ranges = [buffer.ranges EXCEPT ![m].value = v]
    BY <2>2, <2>3 DEF File, v
  <2>5. \A i \in 1..m : buffer'.ranges[i].at = buffer.ranges[i].at
    BY <2>3, <2>4 DEF RangeEntry
  <2> QED  BY <2>3, <2>4, <2>5 DEF SamePlaces
<1>2. CASE ReplaceSignature
  BY <1>2, Replaced DEF SamePlaces
<1>3. CASE CreateSignature \/ Write \/ GiveUp \/ ReturnError
  BY <1>3 DEF CreateSignature, Write, GiveUp, ReturnError, signing, SamePlaces
<1> QED
  BY <1>1, <1>2, <1>3 DEF Next, StartAttempt, Fetch, CountEvidence, ReserveSpace, WriteObjects,
     Retry, bufferVars

\* Once the cross-reference section is written no step of the call moves a byte.
THEOREM FillingMovesNothing == Spec => NothingMoves
  BY StepMovesNothing, SpecKeepsS, PTL DEF NothingMoves, Spec

-----------------------------------------------------------------------------
(* The evidence: the second invariant, of the loop over the chain and of   *)
(* the closure of SignLTV.                                                 *)

\* The certificates up to the n-th that get a response and a list.
OCSPUpTo(n) == {i \in DOMAIN chain : i <= n /\ HasOCSP(i)}
CRLUpTo(n) == {i \in DOMAIN chain : i <= n /\ HasCRL(i) /\ ~ FailsOCSP(i)}
NoneFailsUpTo(n) == \A i \in DOMAIN chain : i <= n => ~ FailsOCSP(i) /\ ~ FailsCRL(i)

\* The archive has the responses up to the n-th certificate, the lists up to the m-th.
FetchedUpTo(n, m) ==
  /\ FetchedFor(archive.ocsp, OCSPUpTo(n))
  /\ FetchedFor(archive.crl, CRLUpTo(m))
  /\ revocationFunction = "default" => NoneFailsUpTo(m)

\* It has what the loop has asked for up to now.
FetchedInv ==
  /\ source = "ocsp" => FetchedUpTo(certificate - 1, certificate - 1)
  /\ source = "crl" => FetchedUpTo(certificate, certificate - 1)
  /\ source = "done" /\ revocationFunction # "none" => FetchedUpTo(Len(chain), Len(chain))
  /\ source = "ocsp" => \A j \in 1..server - 1 : Servers[j].is # "valid"
  /\ source = "crl" => ~ FailsOCSP(certificate)
  /\ source = "failed" =>
       /\ revocationFunction = "default"
       /\ \E i \in DOMAIN chain : FailsOCSP(i) \/ FailsCRL(i)

\* When there is a loop, and that nothing was fetched before it.
TurnInv ==
  /\ source \in {"ocsp", "crl"} => revocationFunction # "none"
  /\ source # "idle" => pc = "fetch" \/ result = "failed"
  /\ pc # "done" => result = "none"
  /\ pc = "start" => Own(archive.ocsp) = {} /\ Own(archive.crl) = {}

\* The places up to n of the responses that were fetched hold what was collected.
HeldUpTo(responses, n, held) ==
  \A k \in Own(responses) : k <= n => responses[k] \in Range(held)

CollectedInv ==
  /\ source \notin {"crl", "failed"} => before = Lengths(archive)
  /\ store => /\ HeldUpTo(archive.ocsp, before.ocsp, collected.ocsp)
              /\ HeldUpTo(archive.crl, before.crl, collected.crl)

EvidenceInv == FetchedInv /\ TurnInv /\ CollectedInv

\* What the caller brought along is not fetched.
LEMMA InitE ==
  ASSUME Init
  PROVE  EvidenceInv
<1>1. Own(archive.ocsp) = {} /\ Own(archive.crl) = {}
  <2>1. request \in Request /\ archive = request.preset
    BY RequestsAssumption DEF Init
  <2> QED  BY <2>1 DEF Request
<1>2. source = "idle" /\ pc = "start" /\ result = "none" /\ before = Lengths(archive)
  BY DEF Init
<1> QED  BY <1>1, <1>2 DEF EvidenceInv, FetchedInv, TurnInv, CollectedInv, HeldUpTo

\* A step that leaves the loop alone keeps what it has.
LEMMA UnchangedKeepsE ==
  ASSUME EvidenceInv, UNCHANGED <<embeddingInput, embedding>>, TurnInv'
  PROVE  EvidenceInv'
<1> USE DEF embeddingInput, embedding
<1>1. FetchedInv'
  BY DEF EvidenceInv, FetchedInv, FetchedUpTo, OCSPUpTo, CRLUpTo, NoneFailsUpTo, FetchedFor, Own, HasOCSP,
         FailsOCSP, HasCRL, FailsCRL, Servers
<1>2. CollectedInv'
  BY DEF EvidenceInv, CollectedInv, HeldUpTo, Lengths, Own
<1> QED  BY <1>1, <1>2 DEF EvidenceInv

LEMMA StartAttemptKeepsE ==
  ASSUME SInv, EvidenceInv, StartAttempt
  PROVE  EvidenceInv'
<1>1. /\ pc = "start" /\ result = "none" /\ result' = result /\ UNCHANGED embeddingInput
      /\ source = "idle" /\ Own(archive.ocsp) = {} /\ Own(archive.crl) = {}
      /\ before = Lengths(archive) /\ chain \in Seq(Certificate)
  BY ChainsAssumption DEF StartAttempt, EvidenceInv, TurnInv, CollectedInv, SInv, BufferTypeOK
<1>2. CASE request.type = "timestamp"
  <2>1. pc' = "reserve" /\ UNCHANGED embedding
    BY <1>2 DEF StartAttempt
  <2>2. TurnInv'
    BY <1>1, <2>1 DEF TurnInv, embedding
  <2> QED  BY <1>1, <2>1, <2>2, UnchangedKeepsE
<1>3. CASE request.type # "timestamp"
  <2>1. /\ pc' = "fetch" /\ StartEmbedding /\ UNCHANGED <<archive, before, collected>>
    BY <1>3 DEF StartAttempt
  <2>2. /\ source' = IF revocationFunction = "none" \/ chain = <<>> THEN "done" ELSE "ocsp"
        /\ certificate' = 1 /\ server' = 1 /\ UNCHANGED <<chain, revocationFunction, store, attempt>>
    BY <1>1, <2>1 DEF StartEmbedding, embeddingInput
  <2>3. TurnInv'
    BY <1>1, <2>1, <2>2 DEF TurnInv
  <2>4. CollectedInv'
    BY <1>1, <2>1, <2>2 DEF CollectedInv, HeldUpTo, Lengths, Own
  <2>5. FetchedUpTo(0, 0)'
    <3>1. OCSPUpTo(0)' = {} /\ CRLUpTo(0)' = {} /\ NoneFailsUpTo(0)'
      BY <1>1, <2>2 DEF OCSPUpTo, CRLUpTo, NoneFailsUpTo
    <3> QED  BY <1>1, <2>1, <3>1 DEF FetchedUpTo, FetchedFor, Own
  <2>6. source' = "done" /\ revocationFunction' # "none" => Len(chain') = 0
    BY <2>2
  <2>7. source' \in {"ocsp", "done"} /\ certificate' - 1 = 0 /\ server' = 1
    BY <2>2
  <2>8. FetchedInv'
    BY <2>5, <2>6, <2>7 DEF FetchedInv
  <2> QED  BY <2>3, <2>4, <2>8 DEF EvidenceInv
<1> QED  BY <1>2, <1>3

\* A response that is added is that of a later certificate.
LEMMA AddedIsFetched ==
  ASSUME NEW responses \in Seq(Response), NEW S, FetchedFor(responses, S),
         attempt \in Nat, certificate \in Nat \ {0}, \A i \in S : i < certificate
  PROVE  FetchedFor(Append(responses, Fetched), S \union {certificate})
<1> DEFINE longer == Append(responses, Fetched)
           n == Len(responses)
<1>1. Fetched \in Response /\ Fetched.certificate = certificate /\ Fetched.attempt = attempt
  BY DEF Fetched, Response
<1>2. /\ n \in Nat /\ DOMAIN responses = 1..n /\ DOMAIN longer = 1..(n + 1)
      /\ longer[n + 1] = Fetched /\ \A k \in 1..n : longer[k] = responses[k]
  BY <1>1, AppendProperties, LenProperties
<1> HIDE DEF longer, n
<1>3. Own(longer) = Own(responses) \union {n + 1}
  BY <1>1, <1>2 DEF Own
<1>4. \A k \in Own(responses) : /\ k \in 1..n /\ longer[k] = responses[k]
                                /\ responses[k].certificate \in S /\ responses[k].attempt = attempt
  BY <1>2 DEF FetchedFor, Own
<1>5. {longer[k].certificate : k \in Own(longer)} = S \union {certificate}
  <2>1. {longer[k].certificate : k \in Own(responses)} = S
    BY <1>4 DEF FetchedFor
  <2> QED  BY <1>1, <1>2, <1>3, <2>1
<1>6. \A k \in Own(longer) : longer[k].attempt = attempt
  BY <1>1, <1>2, <1>3, <1>4
<1>7. ASSUME NEW j \in Own(longer), NEW k \in Own(longer), j < k
      PROVE  longer[j].certificate < longer[k].certificate
  <2>1. j \in Own(responses)
    BY <1>2, <1>3, <1>4, <1>7
  <2>2. CASE k \in Own(responses)
    BY <1>4, <1>7, <2>1, <2>2 DEF FetchedFor
  <2>3. CASE k = n + 1
    BY <1>1, <1>2, <1>4, <2>1, <2>3
  <2> QED  BY <1>3, <2>2, <2>3
<1> QED  BY <1>5, <1>6, <1>7 DEF FetchedFor, longer

Extends(longer, responses) ==
  Len(responses) <= Len(longer) /\ \A k \in DOMAIN responses : longer[k] = responses[k]

LEMMA LongerExtends ==
  ASSUME NEW responses \in Seq(Response), certificate \in Nat, attempt \in Nat
  PROVE  Extends(Append(responses, Fetched), responses)
<1>1. Fetched \in Response
  BY DEF Fetched, Response
<1> QED  BY <1>1, AppendProperties, LenProperties DEF Extends

\* What is held, and what came after, is all there is.
LEMMA AllHeld ==
  ASSUME NEW longer \in Seq(Response), NEW responses \in Seq(Response), NEW held \in Seq(Response),
         NEW n \in Nat, n <= Len(responses), Extends(longer, responses),
         HeldUpTo(responses, n, held)
  PROVE  HeldUpTo(longer, Len(longer), held \o SubSeq(longer, n + 1, Len(longer)))
<1> DEFINE new == SubSeq(longer, n + 1, Len(longer))
           all == held \o new
<1>1. /\ Len(longer) \in Nat /\ DOMAIN longer = 1..Len(longer) /\ Len(responses) \in Nat
      /\ DOMAIN responses = 1..Len(responses) /\ n <= Len(longer)
      /\ Len(held) \in Nat /\ DOMAIN held = 1..Len(held)
  BY LenProperties DEF Extends
<1>2. /\ new \in Seq(Response) /\ Len(new) = Len(longer) - n
      /\ \A i \in 1..Len(longer) - n : new[i] = longer[n + i]
  <2>1. n + 1 \in 1..Len(longer) + 1 /\ Len(longer) \in (n + 1) - 1..Len(longer)
    BY <1>1
  <2>2. /\ new \in Seq(Response)
        /\ Len(new) = IF n + 1 <= Len(longer) THEN Len(longer) - (n + 1) + 1 ELSE 0
        /\ \A i \in 1..Len(longer) - (n + 1) + 1 : new[i] = longer[(n + 1) + i - 1]
    BY <2>1, SubSeqProperties
  <2> HIDE DEF new
  <2>3. \A i \in 1..Len(longer) - n : new[i] = longer[n + i]
    <3> TAKE i \in 1..Len(longer) - n
    <3>1. i \in 1..Len(longer) - (n + 1) + 1 /\ (n + 1) + i - 1 = n + i
      BY <1>1
    <3> QED  BY <2>2, <3>1
  <2>4. Len(new) = Len(longer) - n
    <3>1. CASE n + 1 <= Len(longer)
      <4>1. Len(longer) - (n + 1) + 1 = Len(longer) - n
        BY <1>1
      <4> QED  BY <2>2, <3>1, <4>1
    <3>2. CASE ~ (n + 1 <= Len(longer))
      <4>1. PICK l \in Nat : l = Len(longer) /\ n <= l /\ ~ (n + 1 <= l)
        BY <1>1, <3>2
      <4>2. l - n = 0
        BY <4>1
      <4> QED  BY <2>2, <3>2, <4>1, <4>2
    <3> QED  BY <3>1, <3>2
  <2> QED  BY <2>2, <2>3, <2>4
<1> HIDE DEF new
<1>3. /\ DOMAIN all = 1..(Len(held) + Len(new))
      /\ \A i \in 1..Len(held) : all[i] = held[i]
      /\ \A i \in 1..Len(new) : all[Len(held) + i] = new[i]
  <2>1. held \in Seq(Response) /\ new \in Seq(Response)
    BY <1>2
  <2> QED  BY <2>1
<1> HIDE DEF all
<1> SUFFICES ASSUME NEW k \in Own(longer)
             PROVE  longer[k] \in Range(all)
  BY DEF HeldUpTo, all, new
<1>4. k \in 1..Len(longer) /\ longer[k].certificate > 0
  BY <1>1 DEF Own
<1>5. CASE k <= n
  <2>1. k \in DOMAIN responses /\ longer[k] = responses[k]
    BY <1>1, <1>4, <1>5 DEF Extends
  <2>2. responses[k] \in Range(held)
    BY <1>4, <1>5, <2>1 DEF HeldUpTo, Own
  <2>3. PICK i \in 1..Len(held) : held[i] = responses[k]
    BY <1>1, <2>2 DEF Range
  <2>4. i \in DOMAIN all /\ all[i] = longer[k]
    BY <1>1, <1>2, <1>3, <2>1, <2>3
  <2> QED  BY <2>4 DEF Range
<1>6. CASE n < k
  <2>1. k - n \in 1..Len(new) /\ n + (k - n) = k /\ Len(held) + (k - n) \in 1..(Len(held) + Len(new))
    BY <1>1, <1>2, <1>4, <1>6
  <2>2. all[Len(held) + (k - n)] = longer[k]
    BY <1>2, <1>3, <2>1
  <2> QED  BY <1>3, <2>1, <2>2 DEF Range
<1> QED  BY <1>1, <1>4, <1>5, <1>6

\* The closure has collected all there is for the certificates up to this one.
LEMMA CollectHolds ==
  ASSUME BufferTypeOK, EmbeddingInv, CollectedInv, store, NEW a \in InfoArchival,
         Extends(a.ocsp, archive.ocsp), Extends(a.crl, archive.crl)
  PROVE  /\ HeldUpTo(a.ocsp, Len(a.ocsp), Collect(a).ocsp)
         /\ HeldUpTo(a.crl, Len(a.crl), Collect(a).crl)
<1>1. /\ archive.ocsp \in Seq(Response) /\ archive.crl \in Seq(Response)
      /\ a.ocsp \in Seq(Response) /\ a.crl \in Seq(Response)
  BY ArchiveType DEF BufferTypeOK
<1>2. /\ before.ocsp \in Nat /\ before.crl \in Nat
      /\ before.ocsp <= Len(archive.ocsp) /\ before.crl <= Len(archive.crl)
      /\ collected.ocsp \in Seq(Response) /\ collected.crl \in Seq(Response)
  BY DEF BufferTypeOK, EmbeddingInv
<1>3. /\ HeldUpTo(archive.ocsp, before.ocsp, collected.ocsp)
      /\ HeldUpTo(archive.crl, before.crl, collected.crl)
  BY DEF CollectedInv
<1>4. /\ Collect(a).ocsp = collected.ocsp \o SubSeq(a.ocsp, before.ocsp + 1, Len(a.ocsp))
      /\ Collect(a).crl = collected.crl \o SubSeq(a.crl, before.crl + 1, Len(a.crl))
  BY DEF Collect
<1>5. HeldUpTo(a.ocsp, Len(a.ocsp), collected.ocsp \o SubSeq(a.ocsp, before.ocsp + 1, Len(a.ocsp)))
  BY <1>1, <1>2, <1>3, AllHeld
<1>6. HeldUpTo(a.crl, Len(a.crl), collected.crl \o SubSeq(a.crl, before.crl + 1, Len(a.crl)))
  BY <1>1, <1>2, <1>3, AllHeld
<1> QED  BY <1>4, <1>5, <1>6

\* A step of the loop.
Looping ==
  /\ pc = "fetch" /\ certificate \in 1..Len(chain)
  /\ source \in {"ocsp", "crl"} /\ revocationFunction # "none"
  /\ UNCHANGED <<embeddingInput, bufferVars>>

LEMMA LoopFacts ==
  ASSUME SInv, EvidenceInv, Looping
  PROVE  /\ UNCHANGED <<chain, revocationFunction, store, attempt, pc, result>>
         /\ pc = "fetch" /\ result = "none" /\ revocationFunction # "none"
         /\ chain \in Seq(Certificate) /\ Len(chain) \in Nat /\ DOMAIN chain = 1..Len(chain)
         /\ certificate \in 1..Len(chain) /\ attempt \in Nat
<1>1. chain \in Seq(Certificate) /\ attempt \in Nat /\ result = "none"
  BY ChainsAssumption, LengthTypes DEF Looping, SInv, BufferTypeOK, EvidenceInv, TurnInv
<1> QED  BY <1>1 DEF Looping, embeddingInput, bufferVars

\* What is asked of a chain does not change while its loop runs.
LEMMA SameChain ==
  ASSUME NEW CONSTANT n, UNCHANGED chain
  PROVE  /\ OCSPUpTo(n)' = OCSPUpTo(n) /\ CRLUpTo(n)' = CRLUpTo(n)
         /\ NoneFailsUpTo(n) => NoneFailsUpTo(n)'
<1>1. OCSPUpTo(n)' = OCSPUpTo(n)
  BY DEF OCSPUpTo, HasOCSP
<1>2. CRLUpTo(n)' = CRLUpTo(n)
  BY DEF CRLUpTo, HasCRL, FailsOCSP, HasOCSP
<1>3. NoneFailsUpTo(n) => NoneFailsUpTo(n)'
  BY DEF NoneFailsUpTo, FailsCRL, HasCRL, FailsOCSP, HasOCSP
<1> QED  BY <1>1, <1>2, <1>3

\* The archive a has the response and the list of each certificate up to this one.
Served(a) ==
  /\ FetchedFor(a.ocsp, OCSPUpTo(certificate))
  /\ FetchedFor(a.crl, CRLUpTo(certificate))

LEMMA CertificateDoneKeepsE ==
  ASSUME SInv, EvidenceInv, Looping, NEW CONSTANT a \in InfoArchival,
         Extends(a.ocsp, archive.ocsp), Extends(a.crl, archive.crl), Served(a),
         revocationFunction = "default" => NoneFailsUpTo(certificate),
         CertificateDone(a)
  PROVE  EvidenceInv'
<1>1. /\ archive' = a /\ before' = Lengths(a) /\ collected' = Collect(a) /\ server' = 1
      /\ certificate' = certificate + 1
      /\ source' = IF certificate < Len(chain) THEN "ocsp" ELSE "done"
  BY DEF CertificateDone
<1>2. PICK n : n = certificate
  OBVIOUS
<1>3. FetchedUpTo(n, n)'
  <2>1. /\ FetchedFor(a.ocsp, OCSPUpTo(n)) /\ FetchedFor(a.crl, CRLUpTo(n))
        /\ revocationFunction = "default" => NoneFailsUpTo(n)
    BY <1>2 DEF Served
  <2>2. /\ OCSPUpTo(n)' = OCSPUpTo(n) /\ CRLUpTo(n)' = CRLUpTo(n)
        /\ NoneFailsUpTo(n) => NoneFailsUpTo(n)'
    BY LoopFacts, SameChain
  <2>3. FetchedFor(archive.ocsp, OCSPUpTo(n))' /\ FetchedFor(archive.crl, CRLUpTo(n))'
    BY <1>1, <2>1, <2>2, LoopFacts DEF FetchedFor, Own
  <2> QED  BY <2>1, <2>2, <2>3, LoopFacts DEF FetchedUpTo
<1>4. FetchedInv'
  <2>1. source' = "ocsp" => certificate' - 1 = n /\ server' - 1 = 0
    BY <1>1, <1>2, LoopFacts
  <2>2. source' = "done" => Len(chain') = n
    BY <1>1, <1>2, LoopFacts
  <2>3. source' \in {"ocsp", "done"}
    BY <1>1
  <2> QED  BY <1>3, <2>1, <2>2, <2>3 DEF FetchedInv
<1>5. TurnInv'
  BY <1>1, LoopFacts DEF TurnInv
<1>6. CollectedInv'
  <2>1. store' => HeldUpTo(archive.ocsp, before.ocsp, collected.ocsp)'
                  /\ HeldUpTo(archive.crl, before.crl, collected.crl)'
    <3>1. store => HeldUpTo(a.ocsp, Len(a.ocsp), Collect(a).ocsp)
                   /\ HeldUpTo(a.crl, Len(a.crl), Collect(a).crl)
      BY CollectHolds DEF SInv, EvidenceInv
    <3>2. before'.ocsp = Len(a.ocsp) /\ before'.crl = Len(a.crl)
      BY <1>1 DEF Lengths
    <3> QED  BY <1>1, <3>1, <3>2, LoopFacts DEF HeldUpTo, Own
  <2> QED  BY <1>1, <2>1 DEF CollectedInv, Lengths
<1> QED  BY <1>4, <1>5, <1>6 DEF EvidenceInv

\* Best effort keeps to itself that a source failed; otherwise the loop ends.
LEMMA CertificateFailsKeepsE ==
  ASSUME SInv, EvidenceInv, Looping, Served(archive),
         FailsOCSP(certificate) \/ FailsCRL(certificate), CertificateFails
  PROVE  EvidenceInv'
<1>1. archive \in InfoArchival /\ Extends(archive.ocsp, archive.ocsp) /\ Extends(archive.crl, archive.crl)
  BY ArchiveType DEF SInv, BufferTypeOK, Extends
<1>2. PICK a \in InfoArchival : a = archive
  BY <1>1
<1>3. CASE revocationFunction = "bestEffort"
  BY <1>1, <1>2, <1>3, CertificateDoneKeepsE DEF CertificateFails
<1>4. CASE revocationFunction # "bestEffort"
  <2>1. /\ source' = "failed" /\ collected' = Collect(archive)
        /\ UNCHANGED <<certificate, server, archive, before>>
    BY <1>4 DEF CertificateFails
  <2>2. revocationFunction' = "default"
    BY <1>4, LoopFacts DEF SInv, BufferTypeOK, RevocationFunctions
  <2>3. \E i \in DOMAIN chain' : FailsOCSP(i)' \/ FailsCRL(i)'
    <3>1. certificate \in DOMAIN chain'
      BY LoopFacts
    <3> QED  BY <3>1, LoopFacts DEF FailsOCSP, FailsCRL, HasOCSP, HasCRL
  <2>4. FetchedInv'
    BY <2>1, <2>2, <2>3 DEF FetchedInv
  <2>5. TurnInv'
    BY <2>1, LoopFacts DEF TurnInv
  <2>6. CollectedInv'
    <3>1. store => HeldUpTo(archive.ocsp, Len(archive.ocsp), Collect(archive).ocsp)
                   /\ HeldUpTo(archive.crl, Len(archive.crl), Collect(archive).crl)
      BY <1>1, CollectHolds DEF SInv, EvidenceInv
    <3>2. /\ before.ocsp <= Len(archive.ocsp) /\ before.crl <= Len(archive.crl)
          /\ before.ocsp \in Nat /\ before.crl \in Nat
          /\ Len(archive.ocsp) \in Nat /\ Len(archive.crl) \in Nat
          /\ DOMAIN archive.ocsp = 1..Len(archive.ocsp) /\ DOMAIN archive.crl = 1..Len(archive.crl)
      BY ArchiveType, LenProperties DEF SInv, BufferTypeOK, EmbeddingInv
    <3>3. store => HeldUpTo(archive.ocsp, before.ocsp, Collect(archive).ocsp)
                   /\ HeldUpTo(archive.crl, before.crl, Collect(archive).crl)
      BY <3>1, <3>2 DEF HeldUpTo, Own
    <3> QED  BY <2>1, <3>3, LoopFacts DEF CollectedInv, HeldUpTo, Own
  <2> QED  BY <2>4, <2>5, <2>6 DEF EvidenceInv
<1> QED  BY <1>3, <1>4

\* One more certificate.
LEMMA OneMore ==
  ASSUME chain \in Seq(Certificate), certificate \in 1..Len(chain)
  PROVE  /\ OCSPUpTo(certificate) =
              OCSPUpTo(certificate - 1) \union (IF HasOCSP(certificate) THEN {certificate} ELSE {})
         /\ CRLUpTo(certificate) =
              CRLUpTo(certificate - 1) \union
                (IF HasCRL(certificate) /\ ~ FailsOCSP(certificate) THEN {certificate} ELSE {})
         /\ NoneFailsUpTo(certificate - 1) /\ ~ FailsOCSP(certificate) /\ ~ FailsCRL(certificate) =>
              NoneFailsUpTo(certificate)
         /\ \A i \in OCSPUpTo(certificate - 1) \union CRLUpTo(certificate - 1) : i < certificate
<1>1. /\ DOMAIN chain = 1..Len(chain) /\ Len(chain) \in Nat
      /\ \A i \in 1..Len(chain) : i <= certificate <=> i <= certificate - 1 \/ i = certificate
      /\ ~ (certificate <= certificate - 1) /\ \A i \in 1..Len(chain) : i <= certificate - 1 => i < certificate
  OBVIOUS
<1>2. /\ OCSPUpTo(certificate) =
           OCSPUpTo(certificate - 1) \union (IF HasOCSP(certificate) THEN {certificate} ELSE {})
  BY <1>1 DEF OCSPUpTo
<1>3. CRLUpTo(certificate) =
        CRLUpTo(certificate - 1) \union
          (IF HasCRL(certificate) /\ ~ FailsOCSP(certificate) THEN {certificate} ELSE {})
  BY <1>1 DEF CRLUpTo
<1>4. NoneFailsUpTo(certificate - 1) /\ ~ FailsOCSP(certificate) /\ ~ FailsCRL(certificate) =>
        NoneFailsUpTo(certificate)
  BY <1>1 DEF NoneFailsUpTo
<1>5. \A i \in OCSPUpTo(certificate - 1) \union CRLUpTo(certificate - 1) : i < certificate
  BY <1>1 DEF OCSPUpTo, CRLUpTo
<1> QED  BY <1>2, <1>3, <1>4, <1>5

\* The responders have had their say.
LEMMA RespondersAsked ==
  ASSUME SInv, EvidenceInv, Looping, source = "ocsp", source' = "crl",
         UNCHANGED <<certificate, before, collected>>, ~ FailsOCSP(certificate),
         archive' \in InfoArchival,
         FetchedFor(archive'.ocsp, OCSPUpTo(certificate)), archive'.crl = archive.crl,
         Extends(archive'.ocsp, archive.ocsp)
  PROVE  EvidenceInv'
<1>1. PICK n, m : n = certificate /\ m = certificate - 1
  OBVIOUS
<1>2. FetchedUpTo(n, m)'
  <2>1. /\ FetchedFor(archive'.ocsp, OCSPUpTo(n)) /\ FetchedFor(archive.crl, CRLUpTo(m))
        /\ revocationFunction = "default" => NoneFailsUpTo(m)
    BY <1>1 DEF EvidenceInv, FetchedInv, FetchedUpTo
  <2>2. /\ OCSPUpTo(n)' = OCSPUpTo(n) /\ CRLUpTo(m)' = CRLUpTo(m)
        /\ NoneFailsUpTo(m) => NoneFailsUpTo(m)'
    BY LoopFacts, SameChain
  <2>3. FetchedFor(archive.ocsp, OCSPUpTo(n))' /\ FetchedFor(archive.crl, CRLUpTo(m))'
    BY <2>1, <2>2, LoopFacts DEF FetchedFor, Own
  <2> QED  BY <2>1, <2>2, <2>3, LoopFacts DEF FetchedUpTo
<1>3. FetchedInv'
  <2>1. ~ FailsOCSP(certificate)'
    BY LoopFacts DEF FailsOCSP, HasOCSP
  <2>2. certificate' = n /\ certificate' - 1 = m
    BY <1>1
  <2> QED  BY <1>2, <2>1, <2>2 DEF FetchedInv
<1>4. TurnInv'
  BY LoopFacts DEF TurnInv
<1>5. CollectedInv'
  <2>1. /\ before.ocsp <= Len(archive.ocsp) /\ before.ocsp \in Nat /\ Len(archive.ocsp) \in Nat
        /\ DOMAIN archive.ocsp = 1..Len(archive.ocsp)
    BY ArchiveType, LenProperties DEF SInv, BufferTypeOK, EmbeddingInv
  <2> SUFFICES ASSUME store
               PROVE  /\ HeldUpTo(archive.ocsp, before.ocsp, collected.ocsp)'
                      /\ HeldUpTo(archive.crl, before.crl, collected.crl)'
    BY LoopFacts DEF CollectedInv
  <2>2. /\ HeldUpTo(archive.ocsp, before.ocsp, collected.ocsp)
        /\ HeldUpTo(archive.crl, before.crl, collected.crl)
    BY DEF EvidenceInv, CollectedInv
  <2>3. HeldUpTo(archive.crl, before.crl, collected.crl)'
    BY <2>2 DEF HeldUpTo, Own
  <2>4. ASSUME NEW k \in Own(archive'.ocsp), k <= before.ocsp
        PROVE  archive'.ocsp[k] \in Range(collected.ocsp)
    <3>1. before = Lengths(archive) /\ before.ocsp = Len(archive.ocsp)
      BY DEF EvidenceInv, CollectedInv, Lengths
    <3>2. k \in DOMAIN archive'.ocsp /\ archive'.ocsp[k].certificate > 0 /\ k \in Nat \ {0}
      BY <2>4, ArchiveType, LenProperties DEF Own
    <3>3. k \in DOMAIN archive.ocsp
      BY <2>1, <2>4, <3>1, <3>2
    <3> QED  BY <2>2, <2>4, <3>2, <3>3 DEF HeldUpTo, Own, Extends
  <2> QED  BY <2>3, <2>4 DEF HeldUpTo
<1> QED  BY <1>3, <1>4, <1>5 DEF EvidenceInv

\* What the first point or the last responder that is asked comes to.
LEMMA SourceFacts ==
  ASSUME SInv, EvidenceInv, Looping
  PROVE  /\ Servers = chain[certificate].ocspServers /\ Points = chain[certificate].crlPoints
         /\ Servers \in Seq(Answer) /\ DOMAIN Servers = 1..Len(Servers) /\ Len(Servers) \in Nat
         /\ HasIssuer <=> certificate < Len(chain)
         /\ HasCRL(certificate) <=> Points # <<>> /\ ListIsGood(Points[1])
<1>1. Servers \in Seq(Answer)
  BY LoopFacts, SourcesType DEF SInv
<1>2. certificate < Len(chain) <=> certificate # Len(chain)
  BY LoopFacts
<1> QED  BY <1>1, <1>2, LenProperties DEF Servers, Points, HasIssuer, HasCRL, ListIsGood

LEMMA SkipOCSPKeepsE ==
  ASSUME SInv, EvidenceInv, Looping, SkipOCSP
  PROVE  EvidenceInv'
<1>1. /\ source = "ocsp" /\ source' = "crl" /\ (~ HasIssuer \/ Servers = <<>>)
      /\ UNCHANGED <<certificate, archive, before, collected>>
  BY DEF SkipOCSP
<1>2. ~ HasOCSP(certificate) /\ ~ FailsOCSP(certificate)
  BY <1>1, SourceFacts DEF HasOCSP, FailsOCSP, Range
<1>3. OCSPUpTo(certificate) = OCSPUpTo(certificate - 1)
  BY <1>2, LoopFacts, OneMore
<1>4. FetchedFor(archive.ocsp, OCSPUpTo(certificate))
  BY <1>1, <1>3 DEF EvidenceInv, FetchedInv, FetchedUpTo
<1>5. archive \in InfoArchival /\ Extends(archive.ocsp, archive.ocsp)
  BY ArchiveType DEF SInv, BufferTypeOK, Extends
<1>6. /\ archive' \in InfoArchival /\ archive'.crl = archive.crl
      /\ FetchedFor(archive'.ocsp, OCSPUpTo(certificate))
      /\ Extends(archive'.ocsp, archive.ocsp)
  BY <1>1, <1>4, <1>5
<1> QED  BY <1>1, <1>2, <1>6, RespondersAsked

LEMMA ResponderFailsKeepsE ==
  ASSUME SInv, EvidenceInv, Looping, ResponderFails
  PROVE  EvidenceInv'
<1>1. /\ source = "ocsp" /\ HasIssuer /\ Servers # <<>> /\ Servers[server].is # "valid"
  BY DEF ResponderFails
<1>2. /\ server \in Nat \ {0} /\ server <= Len(Servers)
      /\ \A j \in 1..server - 1 : Servers[j].is # "valid"
  BY <1>1 DEF SInv, EmbeddingInv, EvidenceInv, FetchedInv
<1>3. \A j \in 1..server : Servers[j].is # "valid"
  BY <1>1, <1>2
<1>4. CASE server < Len(Servers)
  <2>1. server' = server + 1 /\ UNCHANGED <<source, certificate, archive, before, collected>>
    BY <1>4 DEF ResponderFails, NextResponder
  <2>2. PICK m : m = certificate - 1
    OBVIOUS
  <2>3. FetchedUpTo(m, m)'
    <3>1. FetchedUpTo(m, m)
      BY <1>1, <2>2 DEF EvidenceInv, FetchedInv
    <3>2. /\ OCSPUpTo(m)' = OCSPUpTo(m) /\ CRLUpTo(m)' = CRLUpTo(m)
          /\ NoneFailsUpTo(m) => NoneFailsUpTo(m)'
      BY LoopFacts, SameChain
    <3> QED  BY <2>1, <3>1, <3>2, LoopFacts DEF FetchedUpTo, FetchedFor, Own
  <2>4. \A j \in 1..server' - 1 : Servers'[j].is # "valid"
    BY <1>2, <1>3, <2>1, LoopFacts DEF Servers
  <2>5. FetchedInv'
    BY <1>1, <2>1, <2>2, <2>3, <2>4 DEF FetchedInv
  <2>6. TurnInv'
    BY <2>1, LoopFacts DEF TurnInv
  <2>7. CollectedInv'
    BY <2>1, LoopFacts DEF EvidenceInv, CollectedInv, HeldUpTo, Own, Lengths
  <2> QED  BY <2>5, <2>6, <2>7 DEF EvidenceInv
<1>5. CASE ~ (server < Len(Servers))
  <2>1. CertificateFails
    BY <1>5 DEF ResponderFails
  <2>2. server = Len(Servers)
    <3>1. Len(Servers) \in Nat
      BY SourceFacts
    <3> QED  BY <1>2, <1>5, <3>1
  <2>3. ~ HasOCSP(certificate)
    BY <1>3, <2>2, SourceFacts DEF HasOCSP, Range
  <2>4. FailsOCSP(certificate)
    BY <1>1, <2>3, SourceFacts DEF FailsOCSP
  <2>5. OCSPUpTo(certificate) = OCSPUpTo(certificate - 1) /\ CRLUpTo(certificate) = CRLUpTo(certificate - 1)
    BY <2>3, <2>4, LoopFacts, OneMore
  <2>6. Served(archive)
    BY <1>1, <2>5 DEF Served, EvidenceInv, FetchedInv, FetchedUpTo
  <2> QED  BY <2>1, <2>4, <2>6, CertificateFailsKeepsE
<1> QED  BY <1>4, <1>5

LEMMA ResponderAnswersKeepsE ==
  ASSUME SInv, EvidenceInv, Looping, ResponderAnswers
  PROVE  EvidenceInv'
<1>1. /\ source = "ocsp" /\ HasIssuer /\ Servers # <<>> /\ Servers[server].is = "valid"
      /\ archive' = AddOCSP(Servers[server].size) /\ source' = "crl"
      /\ UNCHANGED <<certificate, before, collected>>
  BY DEF ResponderAnswers
<1>2. server \in 1..Len(Servers) /\ Servers[server] \in Answer
  BY <1>1, SourceFacts DEF SInv, EmbeddingInv
<1>3. HasOCSP(certificate) /\ ~ FailsOCSP(certificate)
  BY <1>1, <1>2, SourceFacts DEF HasOCSP, FailsOCSP, Range
<1>4. /\ archive.ocsp \in Seq(Response) /\ BufferTypeOK /\ archive \in InfoArchival
      /\ certificate \in Nat \ {0} /\ attempt \in Nat /\ Servers[server].size \in Nat
  BY <1>2, ArchiveType, LoopFacts DEF SInv, BufferTypeOK, Answer
<1>5. archive' \in InfoArchival /\ archive'.crl = archive.crl
  BY <1>1, <1>4, AddTypes
<1>6. archive'.ocsp = Append(archive.ocsp, Fetched)
  BY <1>1, <1>4 DEF AddOCSP, InfoArchival
<1>7. FetchedFor(archive'.ocsp, OCSPUpTo(certificate))
  <2>1. FetchedFor(archive.ocsp, OCSPUpTo(certificate - 1))
    BY <1>1 DEF EvidenceInv, FetchedInv, FetchedUpTo
  <2>2. /\ OCSPUpTo(certificate) = OCSPUpTo(certificate - 1) \union {certificate}
        /\ \A i \in OCSPUpTo(certificate - 1) : i < certificate
    BY <1>3, LoopFacts, OneMore
  <2> QED  BY <1>4, <1>6, <2>1, <2>2, AddedIsFetched
<1>8. Extends(archive'.ocsp, archive.ocsp)
  BY <1>4, <1>6, LongerExtends
<1> QED  BY <1>1, <1>3, <1>5, <1>7, <1>8, RespondersAsked

\* When the turn of the point comes the responders have not all failed.
LEMMA PointsTurn ==
  ASSUME SInv, EvidenceInv, Looping, source = "crl"
  PROVE  /\ ~ FailsOCSP(certificate)
         /\ FetchedFor(archive.ocsp, OCSPUpTo(certificate))
         /\ FetchedFor(archive.crl, CRLUpTo(certificate - 1))
         /\ revocationFunction = "default" => NoneFailsUpTo(certificate - 1)
         /\ archive \in InfoArchival
         /\ archive.ocsp \in Seq(Response) /\ archive.crl \in Seq(Response)
         /\ Extends(archive.ocsp, archive.ocsp) /\ Extends(archive.crl, archive.crl)
<1>1. archive \in InfoArchival
  BY DEF SInv, BufferTypeOK
<1>2. archive.ocsp \in Seq(Response) /\ archive.crl \in Seq(Response)
      /\ Extends(archive.ocsp, archive.ocsp) /\ Extends(archive.crl, archive.crl)
  BY <1>1, ArchiveType DEF Extends
<1> QED  BY <1>1, <1>2 DEF EvidenceInv, FetchedInv, FetchedUpTo

LEMMA SkipCRLKeepsE ==
  ASSUME SInv, EvidenceInv, Looping, SkipCRL
  PROVE  EvidenceInv'
<1>1. source = "crl" /\ Points = <<>> /\ CertificateDone(archive)
  BY DEF SkipCRL
<1>2. ~ HasCRL(certificate) /\ ~ FailsCRL(certificate)
  BY <1>1, SourceFacts DEF FailsCRL
<1>3. PICK a \in InfoArchival : a = archive
  BY <1>1, PointsTurn
<1>4. Served(a)
  BY <1>1, <1>2, <1>3, LoopFacts, OneMore, PointsTurn DEF Served
<1>5. revocationFunction = "default" => NoneFailsUpTo(certificate)
  BY <1>1, <1>2, LoopFacts, OneMore, PointsTurn
<1>6. Extends(a.ocsp, archive.ocsp) /\ Extends(a.crl, archive.crl) /\ CertificateDone(a)
  BY <1>1, <1>3, PointsTurn
<1> QED  BY <1>4, <1>5, <1>6, CertificateDoneKeepsE

LEMMA PointFailsKeepsE ==
  ASSUME SInv, EvidenceInv, Looping, PointFails
  PROVE  EvidenceInv'
<1>1. source = "crl" /\ Points # <<>> /\ ~ ListIsGood(Points[1]) /\ CertificateFails
  BY DEF PointFails
<1>2. ~ HasCRL(certificate) /\ FailsCRL(certificate)
  BY <1>1, SourceFacts DEF FailsCRL
<1>3. Served(archive)
  BY <1>1, <1>2, LoopFacts, OneMore, PointsTurn DEF Served
<1> QED  BY <1>1, <1>2, <1>3, CertificateFailsKeepsE

LEMMA PointAnswersKeepsE ==
  ASSUME SInv, EvidenceInv, Looping, PointAnswers
  PROVE  EvidenceInv'
<1>1. /\ source = "crl" /\ Points # <<>> /\ ListIsGood(Points[1])
      /\ CertificateDone(AddCRL(Points[1].size))
  BY DEF PointAnswers
<1>2. HasCRL(certificate) /\ ~ FailsCRL(certificate) /\ ~ FailsOCSP(certificate)
  BY <1>1, PointsTurn, SourceFacts DEF FailsCRL
<1>3. Points[1].size \in Nat
  <2>1. Points \in Seq(Answer) /\ Points # <<>>
    BY <1>1, LoopFacts, SourcesType DEF SInv
  <2>2. Points[1] \in Answer
    BY <2>1, EmptySeq, LenProperties, ElementOfSeq
  <2> QED  BY <2>2 DEF Answer
<1>4. certificate \in Nat \ {0} /\ attempt \in Nat /\ BufferTypeOK
  BY LoopFacts DEF SInv
<1>5. PICK a \in InfoArchival : /\ a = AddCRL(Points[1].size) /\ a.ocsp = archive.ocsp
                                /\ a.crl = Append(archive.crl, Fetched)
  <2>1. AddCRL(Points[1].size).crl = Append(archive.crl, Fetched)
    BY <1>1, PointsTurn DEF AddCRL, InfoArchival
  <2> QED  BY <1>3, <1>4, <2>1, AddTypes
<1>6. Served(a)
  <2>1. /\ CRLUpTo(certificate) = CRLUpTo(certificate - 1) \union {certificate}
        /\ \A i \in CRLUpTo(certificate - 1) : i < certificate
    BY <1>2, LoopFacts, OneMore
  <2>2. FetchedFor(a.crl, CRLUpTo(certificate))
    BY <1>1, <1>4, <1>5, <2>1, AddedIsFetched, PointsTurn
  <2> QED  BY <1>1, <1>5, <2>2, PointsTurn DEF Served
<1>7. revocationFunction = "default" => NoneFailsUpTo(certificate)
  BY <1>1, <1>2, LoopFacts, OneMore, PointsTurn
<1>8. Extends(a.ocsp, archive.ocsp) /\ Extends(a.crl, archive.crl) /\ CertificateDone(a)
  BY <1>1, <1>4, <1>5, LongerExtends, PointsTurn
<1> QED  BY <1>6, <1>7, <1>8, CertificateDoneKeepsE

LEMMA FetchKeepsE ==
  ASSUME SInv, EvidenceInv, Fetch
  PROVE  EvidenceInv'
<1>1. Embed /\ pc = "fetch" /\ UNCHANGED <<embeddingInput, bufferVars>>
  BY DEF Fetch
<1>2. source \in {"ocsp", "crl"}
  BY <1>1 DEF Embed, SkipOCSP, ResponderFails, ResponderAnswers, SkipCRL, PointFails, PointAnswers
<1>3. Looping
  BY <1>1, <1>2 DEF Looping, SInv, EmbeddingInv, EvidenceInv, TurnInv
<1> QED
  BY <1>1, <1>3, SkipOCSPKeepsE, ResponderFailsKeepsE, ResponderAnswersKeepsE, SkipCRLKeepsE,
     PointFailsKeepsE, PointAnswersKeepsE DEF Embed

LEMMA CountEvidenceKeepsE ==
  ASSUME SInv, EvidenceInv, CountEvidence
  PROVE  EvidenceInv'
<1>1. /\ pc = "fetch" /\ source = "done" /\ source' = "idle" /\ pc' = "reserve" /\ result' = result
      /\ result = "none"
      /\ UNCHANGED <<embeddingInput, archive, before, collected>>
  BY DEF CountEvidence, EvidenceInv, TurnInv
<1>2. FetchedInv' /\ TurnInv'
  BY <1>1 DEF FetchedInv, TurnInv
<1>3. CollectedInv'
  BY <1>1 DEF EvidenceInv, CollectedInv, HeldUpTo, Own, Lengths, embeddingInput
<1> QED  BY <1>2, <1>3 DEF EvidenceInv

\* The next attempt starts without what the last one fetched.
LEMMA RetryKeepsE ==
  ASSUME SInv, EvidenceInv, Retry
  PROVE  EvidenceInv'
<1>1. /\ pc = "replace" /\ pc' = "start" /\ result' = result /\ source' = source
      /\ archive' = NoEvidence /\ before' = Lengths(NoEvidence)
  BY DEF Retry, SignatureTooLong, ResetEvidence
<1>2. source = "idle" /\ result = "none"
  BY <1>1 DEF EvidenceInv, TurnInv
<1>3. Own(archive'.ocsp) = {} /\ Own(archive'.crl) = {}
  BY <1>1 DEF NoEvidence, Own
<1>4. FetchedInv' /\ TurnInv' /\ CollectedInv'
  BY <1>1, <1>2, <1>3 DEF FetchedInv, TurnInv, CollectedInv, HeldUpTo
<1> QED  BY <1>4 DEF EvidenceInv

\* The other steps do not touch what was fetched.
LEMMA OtherStepsKeepE ==
  ASSUME SInv, EvidenceInv, UNCHANGED <<embeddingInput, embedding>>,
         \/ ReserveSpace \/ WriteObjects \/ UpdateByteRange \/ CreateSignature
         \/ ReplaceSignature \/ Write \/ GiveUp \/ ReturnError \/ UNCHANGED vars
  PROVE  EvidenceInv'
<1>1. EvidenceInv /\ TurnInv
  BY DEF EvidenceInv
<1>2. CASE UNCHANGED vars
  <2>1. TurnInv'
    BY <1>1, <1>2 DEF vars, bufferVars, embedding, embeddingInput, TurnInv, Own
  <2> QED  BY <1>1, <2>1, UnchangedKeepsE
<1>3. CASE ReserveSpace \/ WriteObjects \/ UpdateByteRange \/ CreateSignature \/ ReplaceSignature
  <2>1. /\ pc \notin {"start", "fetch", "done"} /\ pc' \notin {"start", "fetch", "done"}
        /\ result' = result
    BY <1>3 DEF ReserveSpace, WriteObjects, UpdateByteRange, CreateSignature, ReplaceSignature
  <2> QED  BY <1>1, <2>1, UnchangedKeepsE DEF TurnInv, embedding
<1>4. CASE Write
  <2>1. pc = "write" /\ pc' = "done"
    BY <1>4 DEF Write
  <2> QED  BY <1>1, <2>1, UnchangedKeepsE DEF TurnInv, embedding
<1>5. CASE GiveUp \/ ReturnError
  <2>1. pc' = "done" /\ result' = "failed" /\ pc # "done"
    BY <1>5 DEF GiveUp, ReturnError, SignatureTooLong, Fails
  <2>2. source' \notin {"ocsp", "crl"}
    BY <1>5, <2>1, ReturnErrorKeepsS, GiveUpKeepsS DEF SInv, EmbeddingInv
  <2> QED  BY <1>1, <2>1, <2>2, UnchangedKeepsE DEF TurnInv
<1> QED  BY <1>2, <1>3, <1>4, <1>5

LEMMA NextKeepsE ==
  ASSUME SInv, EvidenceInv, [Next]_vars
  PROVE  EvidenceInv'
<1>1. CASE StartAttempt
  BY <1>1, StartAttemptKeepsE
<1>2. CASE Fetch
  BY <1>2, FetchKeepsE
<1>3. CASE CountEvidence
  BY <1>3, CountEvidenceKeepsE
<1>4. CASE Retry
  BY <1>4, RetryKeepsE
<1>5. CASE ReserveSpace \/ WriteObjects \/ UpdateByteRange \/ CreateSignature \/ ReplaceSignature
  <2>1. UNCHANGED <<embeddingInput, embedding>>
    BY <1>5 DEF ReserveSpace, WriteObjects, UpdateByteRange, CreateSignature, ReplaceSignature
  <2> QED  BY <1>5, <2>1, OtherStepsKeepE
<1>6. CASE Write \/ GiveUp \/ ReturnError \/ UNCHANGED vars
  <2>1. UNCHANGED <<embeddingInput, embedding>>
    BY <1>6 DEF Write, GiveUp, ReturnError, SignatureTooLong, vars, embeddingInput
  <2> QED  BY <1>6, <2>1, OtherStepsKeepE
<1> QED  BY <1>1, <1>2, <1>3, <1>4, <1>5, <1>6 DEF Next

LEMMA SpecKeepsE == Spec => []EvidenceInv
<1>1. Init => EvidenceInv
  BY InitE
<1>2. SInv /\ EvidenceInv /\ [Next]_vars => EvidenceInv'
  BY NextKeepsE
<1> QED  BY <1>1, <1>2, SpecKeepsS, PTL DEF Spec

LEMMA AnsweredFromInv == SInv /\ EvidenceInv => EmbeddedAsAnswered
<1> SUFFICES ASSUME SInv, EvidenceInv
             PROVE  EmbeddedAsAnswered
  OBVIOUS
<1>1. chain \in Seq(Certificate) /\ DOMAIN chain = 1..Len(chain) /\ Len(chain) \in Nat
  BY ChainsAssumption, LenProperties DEF SInv, BufferTypeOK
<1>2. /\ OCSPUpTo(Len(chain)) = {i \in DOMAIN chain : HasOCSP(i)}
      /\ CRLUpTo(Len(chain)) = {i \in DOMAIN chain : HasCRL(i) /\ ~ FailsOCSP(i)}
      /\ NoneFailsUpTo(Len(chain)) => \A i \in DOMAIN chain : ~ FailsOCSP(i) /\ ~ FailsCRL(i)
  BY <1>1 DEF OCSPUpTo, CRLUpTo, NoneFailsUpTo
<1> QED  BY <1>2 DEF EmbeddedAsAnswered, EvidenceInv, FetchedInv, FetchedUpTo

\* Whatever the sources answer in each attempt, the loop over the chain leaves one response
\* of this attempt for each certificate that has one, and fails only where a source did.
THEOREM EmbeddingAnswers == Spec => []EmbeddedAsAnswered
  BY AnsweredFromInv, SpecKeepsS, SpecKeepsE, PTL

LEMMA CollectedFromInv == SInv /\ EvidenceInv => EmbeddedIsCollected
<1> SUFFICES ASSUME SInv, EvidenceInv, result = "delivered", store
             PROVE  /\ \A k \in Own(archive.ocsp) : archive.ocsp[k] \in Range(collected.ocsp)
                    /\ \A k \in Own(archive.crl) : archive.crl[k] \in Range(collected.crl)
  BY DEF EmbeddedIsCollected
<1>1. source = "idle"
  BY DEF EvidenceInv, TurnInv, SInv, InfoInv
<1>2. before.ocsp = Len(archive.ocsp) /\ before.crl = Len(archive.crl)
  BY <1>1 DEF EvidenceInv, CollectedInv, Lengths
<1>3. /\ DOMAIN archive.ocsp = 1..Len(archive.ocsp) /\ Len(archive.ocsp) \in Nat
      /\ DOMAIN archive.crl = 1..Len(archive.crl) /\ Len(archive.crl) \in Nat
  BY ArchiveType, LenProperties DEF SInv, BufferTypeOK
<1> QED  BY <1>2, <1>3 DEF EvidenceInv, CollectedInv, HeldUpTo, Own

\* Evidence that a delivered signature carries never misses in what SignLTV stores,
\* although the archive is emptied between attempts and the collection is not.
THEOREM CollectedForStore == Spec => []EmbeddedIsCollected
  BY CollectedFromInv, SpecKeepsS, SpecKeepsE, PTL

=============================================================================
