# Verification of pdfsign

TLA+ models of `subnoto/pdfsign`, a Go library and command that signs PDF
documents by incremental update, adds long-term validation data to them, and
verifies the signatures in them. TLC checks the models on small documents; TLAPS
proves the most important results for every document. Paths below are relative
to `src/`.

## 1. The system

### Parts, their state and their operations

| Part | Source | State | Operations | Modelled in |
|---|---|---|---|---|
| Signing pipeline | `sign/sign.go`, `sign/types.go`, `sign/pdfsignature.go` | one `SignContext` per call: output buffer, new and updated cross-reference entries, `lastXrefID`, ids of the objects made, size of the signature placeholder, digests | `Sign`, `SignPDF` (the retry loop), `signPDFOnce`, `resetIncrementalState`, `updateByteRange`, `replaceSignature`, `fetchRevocationData` | `SignContext`, `SignatureBuffer`, `RevocationEmbedding` |
| Object allocation, cross-reference | `sign/pdfxref*.go`, `sign/pdftrailer.go` | the entries of the context | `getNextObjectID`, `addObject`, `updateObject`, `writeXref`, `writeTrailer` | `SignContext`, `PdfFile`, `XrefStream`, `TrailerText` |
| Catalog | `sign/pdfcatalog.go` | the catalog's id | `createCatalog`, `serializeCatalogEntry` | `SignContext`, `PdfFile`, `ValueCopy` |
| Signature field, page | `sign/pdfvisualsignature.go` | ids of the field and the page | `createVisualSignature`, `createIncPageUpdate`, `findPageByNumber` | `SignContext`, `PdfFile`, `PageTree`, `ValueCopy` |
| Appearance | `sign/appearance.go` | none of its own | `createImageXObject`, `createAppearance` | `SignContext` (order, ids, encryption) |
| Fillable fields | `sign/fillable_fields_*.go` | none of its own | `fillInitialsFields`, `fillDateFields`, `updateFieldObject`, `updateFieldWidget`, `matchFieldSigner`, `formatFillableDate` | `SignContext`, `FieldNames`, `DateText`, `ValueCopy` |
| PDF reader (fork) | `third_party/pdf` | the merged table, a cache of objects | `NewReader`, `Trailer`, `resolve`, `Key`, `Index`, `readXrefStreamData` | `PdfFile`, `XrefStream`, `ValueCopy` |
| Long-term validation | `sign/revocation.go` | the buffer of a call, the responses it has collected | `SignLTV`, `SignLTA`, `AddValidationData`, the functions that fetch OCSP responses and CRLs | `LongTermSigning`, `RevocationEmbedding`, `XrefStream` |
| Revocation archive | `revocation/revocation.go` | two lists of responses | `AddOCSP`, `AddCRL`, `IsRevoked` (unused) | `RevocationEmbedding` |
| Verification | `verify/` | a response per document, a validation per signature, the facts known of the certificate being dealt with | `VerifyWithOptions`, `processSignature`, `processDocTimeStamp`, `buildCertificateChainsWithOptions`, `performExternalOCSPCheck`, `performExternalCRLCheck` | `Verification`, `Verdicts`, `Evidence` |
| Command line, wasm, scripts | `cli/`, `sign.go`, `scripts/` | none | flags and files around the two libraries | not modelled |

### How they interact

`Sign` builds a `SignContext` around an input, an output and a reader of the
input, and everything below it is a chain of direct calls on that context. Nothing
runs concurrently, and nothing is persisted but the output, which is written once,
at the end. What makes the pipeline hard is that its parts communicate through
*numbers that must come out right*:

* An object's strings and streams are encrypted with a key derived from the
  object's id **before** the object is given that id. `getNextObjectID` predicts it;
  `addObject` allocates it. An image with an alpha channel even predicts the id of
  the mask that will come after itself.
* Ids start from a count read in the old table (`lastXrefID`), offset by the number
  of entries made in *this* attempt, and `/Size` is computed from a third count,
  the reader's item count.
* The signature may turn out longer than the space left for it. `SignPDF` then
  starts over, and everything computed in the attempt that failed must be gone.
* The byte range, the offsets and the digests are computed while the signature is a
  row of zeros, and must be true of the file in which it is not. The placeholders are
  found again by their text.
* Each signature is input to the next. What one call leaves slightly wrong (a stale
  `/Size`, a generation, a key copied twice) shows only at the second or third.
* `AddValidationData` does not use the reader. It finds the catalog, the size and
  the signature in the bytes by regular expressions, whose first or last match must
  be what the reader would have found.
* `SignLTV` and `SignLTA` are two or three such revisions made one on top of the
  other, of which the caller gets all or nothing.

The verifier is independent of the signer; it reads a document with the same reader.
What makes it hard is that a verdict is put together from sources that speak in turn
and write the same fields, over a network that may not answer, for several
signatures that share one response:

* up to four sources say whether a certificate is revoked, and each overwrites
  `RevocationTime` and `RevokedBeforeSigning`;
* whether an external source is asked depends on flags the embedded ones left;
* what a revocation means depends on the time source chosen before it is found;
* the response has one error for all signatures, and a panic of the reader undoes it.

The full list of hazards, each at its line, with the properties that would catch
it, is in `PROJECT.json`.

### What makes each part correct

* Pipeline: a call delivers a longer document or leaves the caller's alone; it
  returns; a retry starts from scratch.
* Allocation: ids are consecutive, free, equal to their predictions; entries lead to
  their objects; `/Size` covers them.
* Catalog, field, page: whatever the document referred to is still found; the new
  field leads to the new signature; older fields and validation data stay.
* Fillable fields: no object is written twice in one revision; a field is filled for
  one signer; the date it shows is the date of signing.
* Signature: everything but its own space is signed, the digests reported are those of
  the delivered file, the evidence is that of the attempt, each response for its
  certificate.
* Values copied to a new object say what they said, be they references, structure or text; the rows of a cross-reference
  stream and the keys of a trailer lead the reader to the new revision.
* Long-term validation: the store is reachable and holds what was fetched, its
  `/VRI` key is of the signature it belongs to, the archive time-stamp covers it.
* Verification: the verdict on a signature depends on that signature, the options and
  the responders only; a revocation that was heard counts unless a time-stamp shows
  that the signature came first; what failed or could not be checked is never silent.

## 2. The modules

    PdfFile            what a file is, and how the reader resolves references
      SignContext      Sign: the pipeline, one action per object written
        LongTermSigning    SignLTV, SignLTA, AddValidationData on top of it
        MCSignContext, MCLongTermSigning   documents and requests for TLC
        SignContext_proofs, IncrementalFile_proofs, LongTermSigning_proofs
    IncrementalFile    what signing promises, without saying how
    Evidence           what the verifier is given: objects, certificates, answers
      Verification     VerifyWithOptions, one action per source consulted
        MCVerification     documents and options for TLC
        Verification_proofs, Verdicts_proofs
      Verdicts         what verification promises: a function per signature
    RevocationEmbedding  the requests for evidence, responder by responder
      SignatureBuffer    the space of a signature over the attempts of one call
        MCSignatureBuffer  documents, chains and sizes for TLC
        SignatureBuffer_proofs
    XrefStream, DateText, FieldNames, PageTree, TrailerText
                       functions of the code, as operators
      PureFunctions    one call of one of them, and what its result is for
        PureFunctions_proofs
    ValueCopy          the copying of values, which holds other values
      NestedFunctions  PureFunctions, and the call that copies
        MCPureFunctions    arguments for TLC
    Extrema            lemmas about the maximum of a bounded set of numbers

**PdfFile** has no variables. A file is the objects in file order, the position of
an object standing for its byte offset, and its cross-reference sections, oldest
first. An object keeps what the properties can tell apart: its kind, its references
by key, the array that grows or is walked, the ids for which its strings are
encrypted. `Listings`, `Entry`, `IsInUse` and `Resolves` are the reader: the newest
section wins, `f` lines of a classic table do not hide older entries while type 0
entries of a stream do, a table is cut off at `/Size` and a stream is not, and a reference
resolves only if entry and object carry its generation. `LastObjectID`,
`LatestGeneration`, `CopyRef` and `ZeroGen` are what the writer asks of it. A page
tree has one level, which stands for any tree that flattens to it. Every document is
taken to have a catalog with a `/Pages`, as `createCatalog` needs to find a page.

**SignContext** is `Sign` called again and again on the document `doc`. `pc` is the
next step of `signPDFOnce`; `attempt`, `lastXrefID`, `newXrefEntries` and
`updatedXrefEntries` are the variables of that name; `buf` is
`context.OutputBuffer`; `ids` are the object ids kept in `CatalogData`,
`VisualSignData` and local variables; `todo` is what the loop over the form's fields
has left. Each `addObject` or `updateObject` of the code is one action, with
everything the code does before it to make the object. A failure the model has no
cause for (signer, network, image, cipher, output) is `EnvironmentError`, possible
at every step; causes that it has are actions of their own (`RejectVisible`,
`PageMissing`, `GiveUp`, `SignatureTooLong`).

**LongTermSigning** is the caller's view. `doc` is now the buffer that a call works
on, `stored` the document the caller holds, and `phase` what the call does next:
sign, add validation data, re-open for the archive, time-stamp, deliver. A step of
the inner `Sign` is a step of `SignContext`. `FetchResponses` collects responses at
the start of *each* attempt and, like the closure at `sign/revocation.go:165`, keeps
those of attempts that failed. `AddValidationData` is one action, as it is one
function that cannot be interrupted: it works on the file's text, so it takes the
*first* text of the catalog, the *last* `/Contents`, and numbers from the last
`/Size`. That the length of the placeholder is odd after a retry
(`sign/pdfsignature.go:507`), so that no `/VRI` key can be made, is `KeyDecodes`.

**IncrementalFile** is the abstract specification: a file is a length, a map from
ids to objects, a catalog and a list of fields. It grows by a signature (one new
field, the last; a new catalog), by a signature with its archive time-stamp (two
fields), or by validation data (only the catalog rewritten). `SignContext` and
`LongTermSigning` are shown to implement it under the mapping `Promise` and
`LongTermPromise`; all steps inside a call, retries and failures are stutters.

**Evidence** is the verifier's input as the parsers hand it over. A cryptographic
check is its outcome, drawn with the document: whether a digest verifies with its
chain, alone or not at all, whether an OCSP response is signed by the issuer, how a
certificate's chain ends. A responder is what it would answer if asked. When Go's
`x509` is given the certificates of the signature as roots, a certificate that is
one of them is its own chain of one, so a chain found that way ("embedded") names no
issuer. `ResponseFor` and `ListedAt` are the maps `ocspStatus` and `crlStatus`, in
which the last entry of a serial number wins.

**Verification** is one call of `VerifyWithOptions`. `next` is the object the walk is
at, `index` the certificate, `asked` the number of its responders or distribution
points asked in vain; `cert`, `validation`, `trustedIssuer` and `errorMsg` are the
local variables of that meaning, `response` is `apiResp`. One action is one source
that says something of a certificate, or one request over the network. The model
believes an embedded OCSP response that is not signed by the issuer, as the code
does, and lets each source overwrite what the certificate has (`Revoke`) while the
signature's `revokedCertificate` only ever becomes true (`WithRevocation`). Its last
branch, "cannot determine", is the code's, which nothing reaches:
`isRevokedBeforeSigning` is true whenever there is no time-stamp.

**Verdicts** is the abstract specification: for each signature, in the order of the
document, one verdict computed at once by `Verdict` from the signature, the options
and the answers; or an error and no verdict. `Heard` says of the responders what the
loop over them computes, `Heeded` which sources count, `Revokes` what a revocation
means. `Verification` implements it under `Promise`: everything between two reports
is a stutter.

**RevocationEmbedding** is the loop of `fetchRevocationData` with the functions it
calls. One action is one request, or one certificate without a source of a kind.
`archive` is `SignData.RevocationData`; a response in it says for which certificate
and in which attempt it was fetched. `collected` is `ocsps` and `crls` of `SignLTV`,
filled by its closure (`Collect`), which sees the archive before and after. A source
is what it answers; in each attempt the chain is the same and the answers may differ.

**SignatureBuffer** is one call of `Sign` seen as lengths. A file is its length, its
`/ByteRange` entries and its `/Contents`, each with its offset, so that
"the last match" is a question that a document with an old signature or an unfilled
placeholder can answer wrongly. The actions are the steps of `signPDFOnce` that touch
these: copy and estimate, fetch, count the evidence, reserve, write the other objects
(a number of bytes), `updateByteRange`, sign, `replaceSignature`, write. The digest of a
document is the parts that were digested; that of a signature, which signature and how
many bytes. The own length of a signature, without its evidence, is drawn anew in each
attempt. `outgrown` is a history variable. `LongTermSigning` uses the parity of the
placeholder as `KeyDecodes`; that it is so is `OddAfterRetry` here.

**PureFunctions** is functions that have no state: a behaviour is one call, from
`arguments` to `result`. **NestedFunctions** adds `CopyEntries`, whose operators are
recursive; its `NestedSpec` is what the runs check. It is a module of its own because
the provers cannot use a module with recursive operators. `Spec` is `NestedSpec` without
this call, and the properties of `PureFunctions` are about the functions that `Spec`
calls. **XrefStream** writes the streams of a signature and of validation data and reads
any number of them: a stream is its rows, each a sequence of bytes of `Radix` values
with the code's widths, and `/Index` as pairs of a first id and a number of ids; a
signature whose entries do not fit is an error and leaves no stream. Compression is the
identity, so rows are not cut out of one sequence of bytes. **TrailerText** is the
replacement of text in an old trailer: numbers are sequences of digits, because a
replacement also hits a longer number that begins with the old one. **ValueCopy** gives
a value the pointer that the reader gives it (`Resolve`) and compares pointers as
`serializeCatalogEntry` does. A copy there is what a reader will take it for: strings are
sequences of characters that `ReadLiteral` reads as the lexer does, a name that would have
to be escaped is read as `Unescaped` says, a number written by `%f` has six places, and
what is no value any more is `Torn`. An object that refers to itself is written out inside of
itself, of which the code never gets to the end: `Endless`. **PageTree** is `findPageByNumberRec` with what it
returns, a recursive function on `Nodes`: a node is its type and its kids, and every kid
has less `Height` than its parent, so that a tree is finite; a page is named by the
positions of the kids that lead to it, so that two pages that look alike are not taken
for each other. **FieldNames** is `matchFieldSigner`, with identifiers as sequences of
characters and hexadecimal digits as characters too. **DateText** has the two dates of
the code: the one in the signature, with the verifier's parser, and the one in a field,
in which a zone may change its clocks.

## 3. The runs

### Those that pass

`signing` (`MCSignContext.cfg`). Four documents: a form with an initials field that
is its own widget and a date field whose widget is an object of its own, and a
two-page document in which an object was deleted by an editor; each with a table and
with a stream. Six requests: visible with no, an opaque and a transparent image,
invisible, time-stamp, and a visible certification, which is refused; on page 1, or
on page 2, which only one document has; filling fields or not. `MaxRetries = 3`: two
attempts may fail and be repeated, and a third failure makes the call give up; the
code's fourth to eighth attempts start from the state the third starts from.
`MaxSections = 3`: two signatures one after the other on the form, which is what it takes for
a document written by this code to become its input. Checked: `EncryptedForItself`
and `AllocationExact` (every id predicted is the id allocated, and was free),
`WrittenOnce`, `SizeCoversEntries`, `ReferencesResolve` (nothing in use refers to
something that is not found), `SignatureReachable`, `AppendOnly`, and
`ImplementsPromise` (the refinement).

The run also checks `CallsReturn`: every call returns. The fairness is
`WF_vars(Step)` alone: once a call has started, its steps go on. That is justified
because the code is sequential and waits for nothing but HTTP requests, whose
clients have time-outs (`sign/revocation.go:30`, `sign/pdfsignature.go:440`). No
fairness is assumed of the caller, and none towards success: the signature may
outgrow its space every time.

`longterm` (`MCLongTermSigning.cfg`). `Sign`, `SignLTV`, `SignLTA` and
`AddValidationData` in any order on a document with a table and one with a stream,
with a visible signature (an archive time-stamp is always invisible), a chain of one
certificate, up to one response per attempt, one retry, errors anywhere.
`MaxSections = 6` starts a call on up to three sections: a signature with validation
data followed by anything, or two shorter calls followed by `SignLTA`. Checked:
`SignaturesKept` (each signature ever delivered is still the `/V` of a field),
`ValidationDataReachable` and `ValidationDataKept`, `ArchiveCoversAll`,
`ImplementsLongTermPromise` (all or nothing, for three-part calls too),
`StoredOnlyGrows`, and again `SizeCoversEntries` and `ReferencesResolve`, now over
the revisions that `AddValidationData` writes.

`verification` (`MCVerification.cfg`). Two sets of documents. The first has one
signature, time-stamped at time 3 or not, with a root and a certificate of which
embedded responses, embedded lists, responders and distribution points say nothing,
good, unknown, or revoked at 2 or at 4, in every mixture that matters: of an external
source that need not be asked there is one form that would speak up. The second has
up to two objects of every kind (unreadable, one on which the reader panics, no
signature, unparsable, wrong in each way, with and without certificates and stamps,
document time-stamps), and documents that are refused. Options: the defaults with and
without external checks, and the claimed time and untrusted roots with them. Two
objects are enough to see what one leaves to the next, as the state between two
signatures is the response alone. Checked: `ImplementsVerdicts`, `NoSilentFailure`
(no failed signature in a response without an error), `BadEvidenceIsReported` (no
unreadable embedded evidence and no unsigned OCSP response that counts without an error), `GapsAreWarned`
(a certificate of which nothing was heard has a warning) and `VerificationReturns`.
The fairness is weak fairness of the next step: each is computed or one request
bounded by the time-out that `getHTTPClient` sets even on a client of the caller's
(`verify/http_client.go:10`). Documents are finite, as are the lists of responders;
no responder is assumed to answer.

`placeholder` (`MCSignatureBuffer.cfg`). Documents without a signature, with one, with a
placeholder as long as a new one that nobody filled, and one so long that the numbers
do not fit the byte range's text. Chains of none, one and two certificates, the first
with two responders and a list, which answer, fail or answer something wrong, in every
combination that `default` and `bestEffort` treat differently; the answers may change
between attempts. Six requests: with and without evidence, time-stamp, the wrapper of
`SignLTV`, and an archive that the caller filled. Signatures of 3 to 14 bytes against a
base of two: the first fits, each other outgrows the space made for the one before.
`MaxRetries = 3` is the least for "grown, and grown again". Checked:
`RangeIsAllButSignature`, `DeliveredIsWhatWasSigned` (the digest is of the parts that
the delivered file itself says are signed), `NothingMoves` (from the cross-reference
section on, no offset changes), `OnlyGrowthIsRetried` (a call that gives up has seen
the signature grow every time), `OddAfterRetry`, `EmbeddedAsAnswered` (the evidence
against a definition of what the chain should yield), `EmbeddedIsCollected` and
`SigningReturns`, under `WF_vars(Next)`: every step is computed or is a request that
the clients bound by a time-out.

`functions` (`MCPureFunctions.cfg`). Each function over all small arguments of the kinds
that differ: two revisions of a stream with up to five entries each, by a signature or
by validation data, with bytes of two values, so that generations too large for their
width happen (offsets too large for theirs do not); dates around midnight, noon and a
change of clocks, in all styles and a locale of each kind; names of fields with every
tail of four characters; page trees of depth three; trailers with each key plain or not,
a size that is a prefix of another or not, in both orders; documents, encrypted or not, whose
catalog, form, page and field hold references, direct values, references inside direct values,
references to the holder itself, and strings, names, keys and numbers that do and do not need
an escape. The properties say what a result is for: `EntriesReadBack`, `ShownDateIdentifiesMinute`,
`FieldHasOneSigner`, `FindsNthPage`, `TrailerLeadsToRevision`, `EntriesKept`.
`FieldHasOneSigner` allows for a signer whose identifier is another's in hexadecimal
digits, and says of a name without a number only that it is not two signers';
`ShownDateIdentifiesMinute` is about the minute itself where a location does not give two
offsets one name, and about the local one elsewhere; `TrailerLeadsToRevision` is about
trailers that separate keys by one space. `EntriesKept` is about references and structure: it
leaves out documents with strings, names or numbers that need an escape and objects that refer
to themselves, which the code does not keep (see below), and leaves a form that is an object of
its own to the run `form` and a page of an encrypted document to `plaintext`.

Deadlock is not checked in any run: between calls the caller may stop, and the bound
on sections makes it; a verification that has returned does nothing more.

### Those that refute a claim of the repository

| Run | What it shows |
|---|---|
| `plaintext` | in an encrypted document a visible signature rewrites the page with its strings decrypted (`README.md:209`) |
| `newstore` | a second `SignLTV` puts its `/DSS` before the copied one, and the reader keeps the last: the new data is not found (`sign/revocation.go:316`) |
| `key` | for a visible signature the `/VRI` key is made from what follows the page's `/Contents` (`sign/revocation.go:272`) |
| `catalog` | `AddValidationData` rewrites the oldest text of the catalog: a form added by a later revision is lost (`sign/revocation.go:453`) |
| `padding` | after a retry the number of digits is odd, and the `SignatureHash` that the signer reports is not the verifier's (`sign/pdfsignature.go:514`, `sign/sign_test.go:1744`) |
| `dates` | a signing time with an offset such as +05'30' is not read back (`verify/document.go:63`) |
| `form` | where `/AcroForm` is an object of its own, its direct entries become references to it (`sign/pdfcatalog.go:130`) |

The runs on `SignContext` and `LongTermSigning` have a document of their own in the MC
module; the passing runs use documents without the peculiarity, which is what makes
their properties hold. The other three use the documents and arguments of the passing
runs. `FormEntriesKept` asks that nothing needs an escape and that the catalog does not refer
to itself, as `EntriesKept` does, so that the run shows what it is about and nothing else.

Seen while modelling, and without a run:

* `updateObject` writes an object of another generation back at generation 0, and
  references to it no longer resolve (`sign/xref_generation_test.go:49`); where the
  highest number of a table is free, the item count drifts from `/Size`, and the second
  signature's catalog is cut off (`sign/pdftrailer.go:25`). The documents of `signing`
  have neither.
* After a retry the store of `SignLTV` has no `/VRI` (`sign/revocation.go:297`), which
  follows from `OddAfterRetry`.
* A certificate that one source revokes before the time-stamp and a later source after
  it makes the signature revoked and none of its certificates (`README.md:113`,
  `README.md:132`), and so does an OCSP status "unknown", which counts as a revocation
  though `README.md:113` speaks of revoked certificates only; an embedded list that does not parse counts as one that does not
  name the certificate (`verify/certificate.go:264`).
* The stream that `writeXrefStream` adds is in no section, though
  `sign/revocation.go:491` says of the other one that it must be in its own; the title
  of a field is a count, and collides once a field was removed
  (`sign/pdfvisualsignature.go:104`); the check for a verification without results is
  never true (`verify/verify.go:121`); `OCSPExternalChecked` is not set for a
  certificate with an embedded response, though `README.md:123` says it is.
* Strings, names and reals come decoded from the reader and are written back without
  escapes, reals to six places: in the catalog and the fields by `sign/pdfcatalog.go:241`,
  `:254` and `:256`, in a page by `value.String()` (`third_party/pdf/read.go:596`), of which
  `sign/pdfvisualsignature.go:180` says that it "produces correct PDF syntax". A parenthesis
  without its counterpart, a backslash or a name with a space in it tears the dictionary it
  is in, or is read as something else. In `ValueCopy` such a copy is `Torn` or another value,
  and `EntriesKept` without `PlainlyWritten` is violated.
* A reference of an object to itself has the pointer of a direct value
  (`sign/pdfcatalog.go:225`); written out, it is met again in what it leads to, so that
  filling a field that is the target of an action of its own never returns. In `ValueCopy`
  such a copy is `Endless`, and `EntriesKept` without `RefersToItself` is violated.
* Things no text of the repository denies: a response fetched in an attempt that failed
  is put in the store again; the unlisted stream of a signature has the number that the
  next `AddValidationData` gives to its first certificate; evidence that the caller put
  into `RevocationData` is gone after a retry; signers `A` and `41` fill the same
  field; a name such as `date_id_x_signer_bob` matches the signer `b`; an offset of
  2^32 or more loses its first byte; a trailer with two spaces after `/Root` keeps its
  old catalog; in a location that gives two offsets one name, as Moscow did in 2014, the hour that a change of
  clocks repeats is shown twice alike; a reader panics on a cross-reference stream with more
  than one id past its `/Size`.

## 4. The proofs

`SignContext_proofs`, for every set of well-formed documents, every set of requests
and every bound:

* `TypeCorrect`: `TypeOK`, in which `attempt <= MaxRetries`.
* `EncryptionMatchesIds`: `EncryptedForItself`.
* `AllocationIsExact`: `AllocationExact`.
* `SigningAppendsOnly`: `AppendOnly`.

`IncrementalFile_proofs`, for the same and the hypothesis `InputsWellFormed`:

* `WrittenOnlyOnce`: `WrittenOnce`.
* `SizeAlwaysCovers`: `SizeCoversEntries`.
* `ReferencesAlwaysResolve`: `ReferencesResolve`.
* `SignatureIsReachable`: `SignatureReachable`.
* `SigningAsPromised`: `ImplementsPromise`. However often a document is signed, and
  wherever attempts fail, it changes only as `IncrementalFile` says.

`LongTermSigning_proofs`, for the same and every chain and number of responses:

* `LongTermTypeCorrect`: `LTTypeOK`. What `AddValidationData` appends is well formed,
  whatever text it takes for the catalog or the signature, and a call has collected
  no more responses than its attempts may fetch.
* `CallersDocumentOnlyGrows`: `StoredOnlyGrows`, the action property of the
  `longterm` run. No order of calls, each failing anywhere, removes or changes
  anything the caller's document holds.

and with the hypothesis `InputsExtensible`:

* `SizeCoversLongTerm`, `ReferencesResolveLongTerm`: `SizeCoversEntries` and
  `ReferencesResolve` in `LTSpec`, after validation data and time-stamps too.
* `NoSignatureIsLost`: `SignaturesKept`.
* `ValidationDataAlwaysReachable`: `ValidationDataReachable`.
* `ValidationDataNeverLost`: `ValidationDataKept`, an action property.
* `ArchiveAlwaysCoversAll`: `ArchiveCoversAll`.
* `LongTermAsPromised`: `ImplementsLongTermPromise`. Whichever calls are made and
  however they fail, the caller's document changes only as `IncrementalFile` says.

`Verification_proofs`, for every document, every set of options and every answer:

* `VerificationTypeCorrect`: `TypeOK`, in which the count of responders asked stays
  within those the certificate names, and is 0 wherever nobody is being asked.
* `NoInvalidSignatureIsSilent`: `NoSilentFailure`.

`Verdicts_proofs`, for the same:

* `VerdictsAsPromised`: `ImplementsVerdicts`. Whatever order the sources are consulted
  in, and whichever of them fail, what is reported is `Verdict` of each signature.
* `GapsAreAlwaysWarned`: `GapsAreWarned`.
* `BadEvidenceIsAlwaysReported`: `BadEvidenceIsReported`. Embedded evidence that does not
  parse, or the last response for a certificate that its issuer, known from the chain, did
  not sign, leaves an error in the response. The signature may be reported as valid all the
  same.

`SignatureBuffer_proofs`, for every well-formed document, every chain, every answer,
every size a signature may have and every number of attempts:

* `BufferTypeCorrect`: `BufferTypeOK`, in which `attempt <= MaxRetries`.
* `RangeCoversAllButSignature`: `RangeIsAllButSignature`.
* `DeliveredWasSigned`: `DeliveredIsWhatWasSigned`.
* `OnlyGrowthNeedsRetry`: `OnlyGrowthIsRetried`.
* `RetryReservesOdd`: `OddAfterRetry`.
* `FillingMovesNothing`: `NothingMoves`.
* `EmbeddingAnswers`: `EmbeddedAsAnswered`. Whatever each source answers in each attempt,
  the evidence is that of the chain, certificate by certificate.
* `CollectedForStore`: `EmbeddedIsCollected`, whatever was collected in attempts that
  failed.

`PureFunctions_proofs`, for all arguments that the assumptions allow, however many
revisions, signers, entries and nodes there are:

* `EntriesReadBackAlways`: `EntriesReadBack`.
* `ShownDateIdentifiesMinuteAlways`: `ShownDateIdentifiesMinute`, for the local minute in
  every location, and for the minute itself where `HasOwnNames`.
* `FieldHasOneSignerAlways`: `FieldHasOneSigner`. A numbered field is filled by the signer
  it names (the form of `README.md:428`); to whom a name without a number belongs it does
  not say.
* `FindsNthPageAlways`: `FindsNthPage`.
* `TrailerLeadsToRevisionAlways`: `TrailerLeadsToRevision`.

Assumptions: `InputFilesAssumption` and `RequestsAssumption` (documents and requests
are well formed), `BoundsAssumption` (at least one attempt) and `ChainAssumption`;
`DocumentsAssumption`, `OptionSetsAssumption` and `NowAssumption` for the verifier;
`ChainsAssumption`, `RequestsAssumption` (what the caller put into `RevocationData` is
tagged as his, with certificate 0), `OwnSizesAssumption`, `LengthsAssumption` and
`DocumentsAssumption` (what is in a file lies within it and in file order) for
`SignatureBuffer`, with `EvenLengthsAssumption`, which holds because the two estimates come
out of `hex.EncodedLen`, for the parity alone. Those of `PureFunctions` are given with its
proofs below. Nothing else is assumed of what a
document contains, except by the theorems of `IncrementalFile_proofs` and the last seven
of `LongTermSigning_proofs`.

Those ask `InputsWellFormed` of the documents that are signed first; what signing
makes of them is well formed by proof. TLC evaluates it on the documents of the runs
(`FilesWellFormed` in `MCSignContext`). It is a hypothesis and not an assumption,
because a document may well be otherwise, and the code does not look:

* `SizeIsExact`: `/Size` is above every id listed, and in a table the last id listed
  is in use. The second half is what the proof turned up. Where the last entry of a
  table is free (`/Size 5`, 1 to 3 in use, 4 free), the reader's item count is 5, but
  `getLastObjectIDFromXref` counts the ids in use only: the first signature takes id 4
  and leaves a `/Size` that is not its item count. The second signature replaces
  "Size" followed by the item count (`sign/pdftrailer.go:25`), which is then not in the
  trailer, keeps the old `/Size`, and its own objects are beyond it: the reader cuts
  off the catalog it has just written. TLC finds `SizeCoversEntries` and
  `SignatureReachable` violated if such a document is added to those of `signing`.
* `EntriesExact`: an id in use leads to its object, of generation 0, as `updateObject`
  writes generation 0 for whatever it rewrites (`sign/pdfxref.go:65`).
* `ReferencesFound`: every reference finds its object, which is what is to be kept.
* `FieldsApart`: no widget belongs to two fields to fill, no field is listed twice and
  none is a page; otherwise the loop over the fields writes an object twice.

`InputsExtensible` asks more of the document of the first long-term call, because
`AddValidationData` reads the text of the file and not its tables. Each part is kept by
every call, so that what one delivers is ready for the next; TLC evaluates it on the
documents of `longterm` (`LTFilesExtensible`), and each part excludes a document on
which the code would go wrong:

* `IdsExact`: no object, listed or not, has an id that would be allocated next;
  otherwise a catalog that is new could have an older text, which is then taken for it.
* `CatalogExact`: the texts of the catalog agree on the form, and what they refer to is
  there. The document of the run `catalog` is one of which this is not true: the oldest
  text is rewritten, and the form goes.
* `ContentsExact`: the last `/Contents` of the file is that of an object in use; the
  key of `/VRI` is made from it.
* `SignaturesFound`: every signature is the `/V` of a field, which is what is kept.

The invariant `IInv` of `SignContext_proofs` is what makes these inductive.
`AllocationExact` alone is not: the next id is `LastID + Len(newXrefEntries) + 1`,
and `LastID` is either a variable or, while that is 0, a number computed from the
document. `Allocating` therefore adds that `lastXrefID` is 0 or that very number, and
that the buffer still begins with the document.
`EncryptedForItself` is not inductive at the mask, which is encrypted for the id that
the step before announced: hence `pc = "mask" => ids.mask = NextObjectID`.
`~Working => Cleared` carries the argument over a retry: an attempt starts with
nothing left of the one before. `TodoInFields` types the references that are filled.
The section on the reader has the lemmas on `PdfFile`, of which the important one is
`LastObjectIDAboveInUse`; the winner of several entries exists because sections and
lines are finite.

`FileInv` is the invariant of `IncrementalFile_proofs`, on top of `IInv`; its part
`SoundInv` is the one that long-term signing uses again. None of the
properties of the delivered document is inductive, because the document changes in one
step, `ReplaceSignature`, whose result is what a dozen steps before it have put in the
buffer. `CallInv` is what these keep: each object appended has one entry, allocated or
rewritten, and what is rewritten keeps its kind and its array (`CoreInv`); it refers to
what is in use or allocated, or, while the image waits for its mask, to the id that comes
next (`RefsKnown`); the fields left to fill are not rewritten yet, and no page is before
its turn (`FillKnown`, without which `WrittenOnce` fails); the ids kept from earlier
steps are those of the signature, of its field and of the catalog (`IdsKnown`,
`ObjectsMade`); and the section lists it all below its `/Size` (`SectionKnown`).
`WellFormed(doc)` closes the circle: the delivered document is again one that may be
signed. For the refinement, `KeepsLive` says which objects stay what they were.

`LTIInv` adds to `IInv` what ties a call to its parts. `StoredOnlyGrows` is not
inductive, because the caller receives a buffer that several steps made:
`BufferExtends` says that the buffer begins with the caller's document throughout the
call, which `StepAppends` keeps for each step of signing and `ValidationExtends` for
`AddValidationData`, and `ReturnFailure` restores by dropping the buffer.
`ResponsesBounded` counts the responses per attempt begun, which the bound on the
total needs. `pc # "idle" <=> phase \in {"sign", "timestamp"}` keeps the pipeline's
own invariant out of the way while the parts around it change the buffer.

`LTFileInv` adds what the properties of the delivered documents need. A call delivers in
one step what three revisions have built, so the invariant says of the buffer what it is
relative to the caller's document at every phase. `Ready(doc)` closes the circle as
`WellFormed` does for `Sign`: after a signature (`SignedFileReady`) and after validation
data (`ValidatedReady`) the buffer is again a document that either may be made on.
`Revises` is what all revisions have in common and what chains
(`RevisesTransitive`): ids in use stay so, and what is neither a page nor a field to fill
nor the catalog stays the same object; a signature and its field are therefore found
again (`SignaturesFoundAgain`), and so is a store with its streams (`StoreFoundAgain`).
`ProgressInv` counts: one signature after `sign`, two after `timestamp`, validation data
without a new field for a call of `AddValidationData`. It makes `ImplementsLongTermPromise`
and the two fields of `ArchiveCoversAll` provable, neither of which is inductive.
`StoresInv` follows the store. Between a signature and its validation data *all* texts of
the catalog have the store that the caller's document had, because the catalog is new:
so it does not matter that `AddValidationData` takes the oldest. From then on the reader
finds a store, and the archive time-stamp copies it (`SignedFileStores`). `ArchiveInv`
says of the last section that it holds the time-stamp and not the store. The appendix
of `AddValidationData` is handled through `IsAppendix`: one object for each new id and
one for the catalog, whose entries the reader then takes (`ValidatedReads`).

`VInv` is the invariant of the verifier. `NoSilentFailure` is not inductive: that a
signature is reported as valid unless `FirstError` found something relies on
`validation.validSignature` throughout the steps that deal with its certificates,
which is their part of `VInv`. That the sources leave it alone is `LearnType`.
`TypeOK` needs `AskedForReason`: the steps that skip a source leave the count alone,
so it must be 0 whenever there is no reason to ask. That the certificate in hand
exists, `index \in 1..Len(current.certificates)`, is what types it. `ResponseForType`
and `ListedAtType` type the evidence that counts; the largest index of a set exists
by `Extrema`, which argues by the least natural number of a set.

`JInv` adds to `VInv` how far the verdict in progress is. A report is made in one step
of what many have collected, so the refinement needs to know of each local variable
which sources it stands for at every `pc`: `SourceInv` says it of the certificate in
hand, `RevocationInv` and `TrustInv` of the certificates passed and of those sources of the
one in hand that have been consulted (`HeardSoFar`), `ErrorInv` of the error,
`TimeInv` of the time of the signature. `PassedInv` says of the objects passed that
bad evidence is in the response, and `ListInv` of the certificates passed that their
gaps carry a warning.

`SInv` is the invariant of `SignatureBuffer`. `EmbeddingInv` types the loop over the
chain: the certificate and the responder in hand exist while something is being asked.
`LengthInv` says what the space is at each step, as a sum of the base, the estimate,
the evidence and the time-stamp. `GrowthInv` is why growth is enough: after a failure
the base is one digit more than the last signature needs beyond the other shares, so
only a longer one can fail next; `OnlyGrowthIsRetried` is not inductive
without it, because it says nothing of the base. `LayoutInv` says where the new
placeholders are: after everything the document had, so that they are the last matches
whatever the document holds. `InfoInv` ties the digests to the attempt.

`EvidenceInv` is the second invariant of `SignatureBuffer`, inductive relative to `SInv`;
`EmbeddedAsAnswered` speaks of the end of the loop only. `FetchedInv` says what the
archive holds when a certificate's turn has come: the responses and lists of those
before it, and its own response once its responders were asked; that they are in the
order of the chain follows because a response that is added is of a later certificate
than all before (`AddedIsFetched`). Among the responders of one certificate all before
`server` have failed, so that the last failure means that none answers. `CollectedInv`
says that what the archive held when the turn came (`before`) is collected, and that
`before` is all of it between certificates. `TurnInv` says that a retry finds the loop
idle and that an attempt starts with nothing fetched, which is what `ResetEvidence` is for.

`PureFunctions_proofs` is about single calls, so that its invariant `AnswerInv` says only
that a result is that of the arguments; the work is in the lemmas about the operators.

* `FieldHasOneSigner`: writing an identifier in hexadecimal digits loses nothing
  (`HexCodeAssumption`: a character is known by its two digits, which are lower-case), so
  two identifiers that match the same tail are the same, or one is the other's digits. The
  tail of a numbered name is compared as it is, so the signer whose identifier or digits it
  is fills the field.
* `ShownDateIdentifiesMinute`: the text of a field is a date and a suffix for the zone.
  Each style, and each layout that shows every part, tells the date and the minute on the
  local clock (`WordsTell`, `PartsTell`). Two texts that are the same have the same suffix
  (`SameParts`), hence, where the location does not give two offsets one name
  (`HasOwnNames`), the same offset, and with the local minutes the minutes are the same. A
  zone database has locations that do give one name twice, and there the local minute is all
  that the text tells. This needs that no two days have one date (`CalendarAssumption`), that
  the layouts of the locales show every part (`LayoutAssumption`), and that offsets are whole
  minutes (`FieldDatesAssumption`).
* `TrailerLeadsToRevision`: a trailer is a sequence of entries, and its reader takes the
  last of each key. A replacement that hits a longer number changes values but no keys, so
  the last entry of a key stays in its place (`LastReplaced`); an added `/Prev` moves
  the others, which interleave with it (`WithPrevPlaces`). The sequence that the fold over
  the entries makes is described by where each piece starts (`FlattenParts`). Digits of a
  number are a recursive function, of which an equation is needed and no more
  (`DecimalDigits`), obtained by iterating it. `TrailersAssumption` is that a trailer that
  was read has a `/Root`.

* `EntriesReadBack`: the rows of a stream say nothing of their ids, so the proof is that
  writer and reader count alike. The bytes of a number that fits its width give the number
  back, read from the first byte on (`BytesReadBack`), and the three fields of a row are
  where the reader cuts it (`RowReadBack`). The ids that the reader derives from `/Index`
  are those of the rows, in order, for the pairs of a signature (`SignatureIds`) and for
  the runs of validation data (`RunsIds`, by induction over the ids); sorting keeps every
  entry and no other, as their ids differ (`SortedKeeps`). One stream thus fills in what
  the newer ones have left open (`ReadRevision`), and all streams leave of each id the
  entry of the newest revision that writes it (`AllRead`). `RevisionsAssumption` is what the
  writers guarantee before: offsets of four bytes, new ids that follow the last one, an
  object recorded once among validation data and with a generation of two bytes; generations
  of a signature are any, as the code checks them. `RadixAssumption` is that a byte has two
  values or more.
* `FindsNthPage`: below a node, the search gives the page of its number among the node's
  pages or the number that is left, and fails unless the node is a page (`Searched`); a kid
  that fails and one that is missed are then passed alike, with what is left. `OneMoreKid`
  is one step of the loop: the search ends in the pages before the kid, or in its own, or
  goes on behind them. That `Pages`, in which the property names the pages, has values is
  shown by iterating its equation level by level (`PagesExist`); the rest is an induction
  over the tree by height (`TreeInduction`), for which `NodesAssumption` is needed: on a
  tree that contains itself the code would not return. `PageTreesAssumption` is that
  numbers start at 1, which `signPDFOnce` makes of 0.

What is read by a recursive function is compared with the same values in closed form, by
induction on the natural numbers as a set (`SameRecursion`, `InductiveSet`), which needs no
theorem with an operator as parameter.

Only model-checked: `EntriesKept`, whose operators are recursive over values that hold
values, an induction over data that the provers cannot do; and `CallsReturn`,
`SigningReturns` and `VerificationReturns`, since liveness under fairness is out of the
prover's reach.

## 5. What is not modelled

* Bytes: syntax (but for strings and names in `ValueCopy`), offsets as numbers outside of `SignatureBuffer` and `XrefStream`,
  compression, the PNG predictors (nothing calls them), padding of the lines of a table.
  Positions stand for offsets, so a file too long for a ten-digit or four-byte offset
  does not exist in `SignContext`.
* Object streams: every object has a text. A catalog inside an object stream makes
  `AddValidationData` fail, which is `Fail`.
* The contents of the PKCS#7 container, of its attributes and of a time-stamp: a
  signature is a length and the attempt that made it.
* Layout, fonts, images, the text of fields, UTF-16 names, flags and titles.
* Of the verifier: key usage (its result is reported and read by nothing else), the
  document information, names and hashes it copies, the texts of errors and warnings,
  proxies, and several signers in one PKCS#7.
* `InfoArchival.IsRevoked`: it is constantly true and nothing calls it.
* Command line, wasm and scripts: they only pass flags and files on.

## 6. Plan

1. A document that `LongTermSigning` makes as input to `Verification`: whether what
   `SignLTV` stores is what the verifier needs, certificate by certificate.
2. `SignContext` over page trees and values as `PageTree` and `ValueCopy` have them, in
   place of the one-level tree and the references.
3. Key usage (`verify/keyusage.go`) as a function against the order of its checks.
