--------------------------- MODULE SignatureBuffer ---------------------------
(***************************************************************************)
(* The bytes of a signature: how much space one call of Sign reserves for  *)
(* it, what it signs, what it writes into the space and what it reports of *)
(* both, over the attempts that SignPDF makes (sign/sign.go,               *)
(* sign/pdfsignature.go, sign/pdfbyterange.go). The evidence that is       *)
(* fetched in each attempt is RevocationEmbedding. Objects other than the  *)
(* signature are a number of bytes here; SignContext has what they are.    *)
(*                                                                         *)
(* A file is its length, its /ByteRange entries and its /Contents, each    *)
(* with its offset, in file order.                                         *)
(***************************************************************************)
EXTENDS RevocationEmbedding

CONSTANTS
  Documents,    \* the inputs
  Requests,     \* what may be asked of Sign
  OwnSizes,     \* the sizes a signature may have, in bytes and without its evidence
  BaseLength,   \* SignatureMaxLengthBase of a new context
  TSALength,    \* the estimate for a time-stamp
  MaxRetries,   \* maxSignatureBufferRetries
  RangeWidth,   \* the length of signatureByteRangePlaceholder
  RangeDigits,  \* how many digits of three numbers fit in it
  HeadLength, GapLength, TailLength  \* the text before, between and after the two

\* value is <<>> for the placeholder. digits is the number of digits, of which the first
\* used are a signature, made in attempt signature, and the others are zeros.
RangeEntry == [at: Nat, value: {<<>>} \union (Nat \X Nat \X Nat \X Nat)]
Contents == [at: Nat, digits: Nat, used: Nat, signature: Nat]
File == [length: Nat, ranges: Seq(RangeEntry), contents: Seq(Contents)]

EmptyFile == [length |-> 0, ranges |-> <<>>, contents |-> <<>>]

End(c) == c.at + c.digits + 2

\* Everything in a file lies within it, and in file order.
WellFormed(file) ==
  /\ \A i \in DOMAIN file.contents :
        /\ End(file.contents[i]) <= file.length
        /\ \A j \in DOMAIN file.contents :
              i < j => End(file.contents[i]) <= file.contents[j].at
  /\ \A i, j \in DOMAIN file.ranges : i < j => file.ranges[i].at < file.ranges[j].at

\* SignData: the kind of signature, the certificates' share of the estimate in bytes, a
\* time-stamping service, what RevocationData holds at the outset, none of it fetched.
Request ==
  [type: {"signature", "timestamp"}, estimate: Nat, tsa: BOOLEAN,
   function: RevocationFunctions, store: BOOLEAN,
   preset: {a \in InfoArchival : Own(a.ocsp) = {} /\ Own(a.crl) = {}}]

ASSUME DocumentsAssumption ==
  Documents \subseteq {file \in File : WellFormed(file)}
ASSUME RequestsAssumption == Requests \subseteq Request
ASSUME OwnSizesAssumption == OwnSizes \subseteq Nat
ASSUME LengthsAssumption ==
  /\ {BaseLength, TSALength, RangeWidth, RangeDigits,
      HeadLength, GapLength, TailLength} \subseteq Nat
  /\ MaxRetries \in Nat \ {0}
\* All three come out of hex.EncodedLen.
ASSUME EvenLengthsAssumption == BaseLength % 2 = 0 /\ TSALength % 2 = 0

VARIABLES
  document,                \* the input
  request,
  pc,
  SignatureMaxLengthBase,
  SignatureMaxLength,
  buffer,                  \* context.OutputBuffer
  ByteRangeValues,
  own,                     \* the signature of this attempt, without its evidence
  computed,                \* the digests and the time-stamp for SignatureInfo
  outgrown,                \* history: the own sizes that did not fit, one per attempt
  output,                  \* what was written to OutputFile
  result                   \* "none" until the call returns

sizes == <<SignatureMaxLengthBase, SignatureMaxLength>>
signing == <<buffer, ByteRangeValues, own, computed>>
bufferVars == <<document, request, pc, sizes, signing, outgrown, output, result>>
vars == <<embeddingInput, embedding, bufferVars>>

Steps == {"start", "fetch", "reserve", "objects", "range", "sign", "replace", "write", "done"}

NoInfo == [documentHash |-> <<>>, signatureHash |-> <<>>, timeStamp |-> 0]

Init ==
  /\ document \in Documents
  /\ request \in Requests
  /\ chain \in Chains
  /\ revocationFunction = request.function
  /\ store = request.store
  /\ attempt = 1
  /\ source = "idle"
  /\ certificate = 0
  /\ server = 0
  /\ archive = request.preset
  /\ before = Lengths(request.preset)
  /\ collected = [ocsp |-> <<>>, crl |-> <<>>]
  /\ pc = "start"
  /\ SignatureMaxLengthBase = BaseLength
  /\ SignatureMaxLength = 0
  /\ buffer = EmptyFile
  /\ ByteRangeValues = <<>>
  /\ own = 0
  /\ computed = NoInfo
  /\ outgrown = <<>>
  /\ output = EmptyFile
  /\ result = "none"

-----------------------------------------------------------------------------
(* Lengths and digests.                                                    *)

\* hex.EncodedLen
EncodedLen(n) == 2 * n

\* A signature carries the evidence as an attribute; a time-stamp token does not.
SignatureLength(size) ==
  IF request.type = "timestamp" THEN size ELSE size + archive.size

\* The parts of a file that a byte range leaves in, and the values written in them.
SignedParts(file, range) ==
  [range |-> range, ranges |-> file.ranges,
   contents |-> {c \in Range(file.contents) : End(c) <= range[2] \/ c.at >= range[3]}]

\* The reader makes one byte of two digits, and one of the last if it is alone.
RawLength(digits) == (digits + 1) \div 2

ReadSignature(c) == [signature |-> c.signature, length |-> RawLength(c.digits)]

\* bytes.LastIndex of "/Contents<" and as many zeros as were reserved.
ContentsMatches(file) ==
  {k \in DOMAIN file.contents :
     file.contents[k].used = 0 /\ file.contents[k].digits >= SignatureMaxLength}

RangeMatches(file) == {k \in DOMAIN file.ranges : file.ranges[k].value = <<>>}

\* Mutants: the first match instead of the last.
FirstContents(file) == Min(ContentsMatches(file))
FirstRange(file) == Min(RangeMatches(file))

LastContents(file) == Max(ContentsMatches(file))
LastRange(file) == Max(RangeMatches(file))

\* The number of decimal digits of n.
Digits(n) == CHOOSE d \in 1..n + 1 : n < 10^d /\ (d = 1 \/ 10^(d - 1) <= n)

-----------------------------------------------------------------------------
(* One attempt.                                                            *)

\* The input is copied and a line is added; the certificates' share is estimated.
StartAttempt ==
  /\ pc = "start"
  /\ buffer' = [document EXCEPT !.length = @ + 1]
  /\ IF request.type = "timestamp"
     THEN /\ SignatureMaxLength' = SignatureMaxLengthBase
          /\ pc' = "reserve"
          /\ UNCHANGED embedding
     ELSE /\ SignatureMaxLength' = SignatureMaxLengthBase + EncodedLen(request.estimate)
          /\ pc' = "fetch"
          /\ StartEmbedding
          /\ UNCHANGED <<archive, before, collected>>
  /\ UNCHANGED <<embeddingInput, document, request, SignatureMaxLengthBase,
                 ByteRangeValues, own, computed, outgrown, output, result>>

\* A request for evidence.
Fetch ==
  /\ pc = "fetch"
  /\ Embed
  /\ UNCHANGED <<embeddingInput, bufferVars>>

\* Space for the evidence, that which was fetched and that which was there.
CountEvidence ==
  /\ pc = "fetch"
  /\ source = "done"
  /\ source' = "idle"
  /\ SignatureMaxLength' = SignatureMaxLength + EncodedLen(archive.size)
  /\ pc' = "reserve"
  /\ UNCHANGED <<embeddingInput, certificate, server, archive, before, collected, document,
                 request, SignatureMaxLengthBase, signing, outgrown, output, result>>

\* The signature object, with its two placeholders.
ReserveSpace ==
  /\ pc = "reserve"
  /\ SignatureMaxLength' = SignatureMaxLength + (IF request.tsa THEN TSALength ELSE 0)
  /\ LET range == [at |-> buffer.length + HeadLength, value |-> <<>>]
         space == [at |-> range.at + RangeWidth + GapLength, digits |-> SignatureMaxLength',
                   used |-> 0, signature |-> 0]
     IN  buffer' = [length   |-> End(space),
                    ranges   |-> Append(buffer.ranges, range),
                    contents |-> Append(buffer.contents, space)]
  /\ pc' = "objects"
  /\ UNCHANGED <<embeddingInput, embedding, document, request, SignatureMaxLengthBase,
                 ByteRangeValues, own, computed, outgrown, output, result>>

\* The rest of that object and all others, the cross-reference section and the trailer.
WriteObjects ==
  /\ pc = "objects"
  /\ buffer' = [buffer EXCEPT !.length = @ + TailLength]
  /\ pc' = "range"
  /\ UNCHANGED <<embeddingInput, embedding, document, request, sizes,
                 ByteRangeValues, own, computed, outgrown, output, result>>

\* The byte range around the last placeholder.
RangeAround(file) ==
  LET start == file.contents[LastContents(file)].at
      end   == start + SignatureMaxLength + 2
  IN  <<0, start, end, file.length - end>>

RangeFits(range) == Digits(range[2]) + Digits(range[3]) + Digits(range[4]) <= RangeDigits

UpdateByteRange ==
  /\ pc = "range"
  /\ LET range == RangeAround(buffer)
     IN  /\ RangeFits(range)
         /\ ByteRangeValues' = range
         /\ buffer' = [buffer EXCEPT !.ranges[LastRange(buffer)].value = range]
  /\ pc' = "sign"
  /\ UNCHANGED <<embeddingInput, embedding, document, request, sizes, own, computed,
                 outgrown, output, result>>

\* The document is digested and signed, by the signer or the time-stamping service.
CreateSignature ==
  /\ pc = "sign"
  /\ request.type = "timestamp" => request.tsa
  /\ own' \in OwnSizes
  /\ computed' = [computed EXCEPT
       !.documentHash = SignedParts(buffer, ByteRangeValues),
       !.timeStamp = IF request.tsa THEN attempt ELSE @]
  /\ pc' = "replace"
  /\ UNCHANGED <<embeddingInput, embedding, document, request, sizes, buffer,
                 ByteRangeValues, outgrown, output, result>>

Encoded == EncodedLen(SignatureLength(own))

\* Mutant: the placeholder is not filled up.
NoPadding == 0

Padding == SignatureMaxLength - Encoded

\* The digits written over the placeholder, and what is reported of them.
ReplaceSignature ==
  /\ pc = "replace"
  /\ Encoded <= SignatureMaxLength
  /\ LET written == Encoded + Padding
         filled  == [at |-> ByteRangeValues[2], digits |-> written, used |-> Encoded,
                     signature |-> attempt]
     IN  buffer' = [buffer EXCEPT
           !.length = ByteRangeValues[2] + written + 2 + ByteRangeValues[4],
           !.contents = [@ EXCEPT ![Len(@)] = filled]]
  /\ computed' = [computed EXCEPT !.signatureHash =
       [signature |-> attempt,
        length    |-> SignatureLength(own) + (Padding \div 2)]]
  /\ pc' = "write"
  /\ UNCHANGED <<embeddingInput, embedding, document, request, sizes, ByteRangeValues, own,
                 outgrown, output, result>>

Write ==
  /\ pc = "write"
  /\ output' = buffer
  /\ result' = "delivered"
  /\ pc' = "done"
  /\ UNCHANGED <<embeddingInput, embedding, document, request, sizes, signing, outgrown>>

-----------------------------------------------------------------------------
(* Attempts that fail.                                                     *)

\* The certificate is missing or broken; a source failed; another object could not be made;
\* the numbers do not fit; the signer or the service failed; the output failed.
Fails ==
  \/ pc \in {"start", "objects", "sign", "write"}
  \/ pc = "fetch" /\ source = "failed"
  \/ pc = "range" /\ ~ RangeFits(RangeAround(buffer))

ReturnError ==
  /\ Fails
  /\ result' = "failed"
  /\ pc' = "done"
  /\ UNCHANGED <<embeddingInput, embedding, document, request, sizes, signing, outgrown, output>>

\* Mutants: the length is grown to the signature exactly; it is not grown.
GrownExactly == SignatureMaxLengthBase + (Encoded - SignatureMaxLength)
NotGrown == SignatureMaxLengthBase

GrownBase == SignatureMaxLengthBase + (Encoded - SignatureMaxLength) + 1

\* Mutant: the evidence of the attempt that failed stays.
KeptEvidence == archive

\* resetIncrementalState, as far as it concerns what is kept here.
ResetEvidence == NoEvidence

\* The signature did not fit: it is logged, the length grown, and SignPDF starts over.
SignatureTooLong ==
  /\ pc = "replace"
  /\ Encoded > SignatureMaxLength
  /\ SignatureMaxLengthBase' = GrownBase
  /\ outgrown' = Append(outgrown, own)
  /\ UNCHANGED <<revocationFunction, store, document, request, output>>

\* Mutant: one attempt too many.
AttemptsLeftOffByOne == attempt <= MaxRetries

AttemptsLeft == attempt < MaxRetries

Retry ==
  /\ SignatureTooLong
  /\ AttemptsLeft
  /\ attempt' = attempt + 1
  /\ chain' \in {c \in Chains : SameNames(c, chain)}
  /\ archive' = ResetEvidence
  /\ before' = Lengths(ResetEvidence)
  /\ ByteRangeValues' = <<>>
  /\ computed' = NoInfo
  /\ pc' = "start"
  /\ UNCHANGED <<source, certificate, server, collected, SignatureMaxLength, buffer, own, result>>

GiveUp ==
  /\ SignatureTooLong
  /\ ~ AttemptsLeft
  /\ result' = "failed"
  /\ pc' = "done"
  /\ UNCHANGED <<attempt, chain, embedding, SignatureMaxLength, signing>>

Next ==
  \/ StartAttempt \/ Fetch \/ CountEvidence \/ ReserveSpace \/ WriteObjects
  \/ UpdateByteRange \/ CreateSignature \/ ReplaceSignature \/ Write
  \/ Retry \/ GiveUp \/ ReturnError

\* Each step is computed, or a request that the clients bound with a timeout.
Spec == Init /\ [][Next]_vars /\ WF_vars(Next)

-----------------------------------------------------------------------------
(* Properties.                                                             *)

\* The state is well formed, and a call makes at most MaxRetries attempts.
BufferTypeOK ==
  /\ chain \in Chains
  /\ revocationFunction \in RevocationFunctions
  /\ store \in BOOLEAN
  /\ attempt \in 1..MaxRetries
  /\ source \in {"idle", "ocsp", "crl", "done", "failed"}
  /\ certificate \in Nat /\ server \in Nat
  /\ archive \in InfoArchival
  /\ before \in [ocsp: Nat, crl: Nat]
  /\ collected \in [ocsp: Seq(Response), crl: Seq(Response)]
  /\ document \in Documents
  /\ request \in Requests
  /\ pc \in Steps
  /\ SignatureMaxLengthBase \in Nat /\ SignatureMaxLength \in Nat
  /\ buffer \in File
  /\ ByteRangeValues \in {<<>>} \union (Nat \X Nat \X Nat \X Nat)
  /\ own \in Nat
  /\ outgrown \in Seq(Nat) /\ Len(outgrown) <= MaxRetries
  /\ output \in File
  /\ result \in {"none", "delivered", "failed"}

\* The byte range covers the whole file but the space of the signature being made, which
\* is the last in the file, whatever placeholders and signatures were there before. It is
\* the value written in its own /ByteRange and nowhere else.
RangeIsAllButSignature ==
  ByteRangeValues # <<>> =>
    LET space == buffer.contents[Len(document.contents) + 1]
    IN  /\ ByteRangeValues = <<0, space.at, End(space), buffer.length - End(space)>>
        /\ buffer.ranges = Append(document.ranges,
                                  [buffer.ranges[Len(document.ranges) + 1] EXCEPT
                                     !.value = ByteRangeValues])

\* buffer and buffer' have everything at the same place.
SamePlaces ==
  /\ buffer'.length = buffer.length
  /\ \A i \in DOMAIN buffer.contents : buffer'.contents[i].at = buffer.contents[i].at
  /\ \A i \in DOMAIN buffer.ranges : buffer'.ranges[i].at = buffer.ranges[i].at

\* From the cross-reference section on nothing moves: the offsets in it, the numbers of the
\* byte range and startxref stay true while the placeholders are filled.
NothingMoves ==
  [][pc' \notin {"start", "fetch", "reserve", "objects"} /\ pc # "objects" => SamePlaces]_vars

\* The digest that is reported and signed is of the parts that the delivered file itself
\* says are signed, as the verifier reads them, and the signature and the time-stamp are
\* those of the attempt that is delivered.
DeliveredIsWhatWasSigned ==
  result = "delivered" =>
    LET field == output.ranges[Len(output.ranges)]
        space == output.contents[Len(output.contents)]
    IN  /\ field.value # <<>>
        /\ computed.documentHash = SignedParts(output, field.value)
        /\ computed.signatureHash.signature = space.signature
        /\ request.tsa => computed.timeStamp = space.signature

\* A signature outgrows its space again only if it has grown itself: evidence that is
\* longer this time has its own space, and a signer that answers with the same length is
\* served in the second attempt. A call that gives up saw the signature grow every time.
OnlyGrowthIsRetried ==
  \A i, j \in DOMAIN outgrown : i < j => outgrown[i] < outgrown[j]

\* In the first attempt the space has an even number of digits, in all others an odd one.
\* LongTermSigning takes this for KeyDecodes.
OddAfterRetry ==
  pc \in {"range", "sign", "replace", "write"} =>
    (SignatureMaxLength % 2 = IF attempt = 1 THEN 0 ELSE 1)

\* SignLTV puts all evidence in the store that the delivered signature carries and was
\* fetched for it.
EmbeddedIsCollected ==
  result = "delivered" /\ store =>
    /\ \A k \in Own(archive.ocsp) : archive.ocsp[k] \in Range(collected.ocsp)
    /\ \A k \in Own(archive.crl) : archive.crl[k] \in Range(collected.crl)

\* The call returns, whatever the sources, the signer and the service answer.
SigningReturns == <>(pc = "done")

\* The digest of the signature that is reported is that of the bytes the verifier reads
\* (pdfsignature.go: "matching verify package behavior: RawString() returns signature +
\* zero padding"; sign_test.go compares the two).
ReportedHashIsVerifiers ==
  result = "delivered" =>
    computed.signatureHash = ReadSignature(output.contents[Len(output.contents)])
=============================================================================
