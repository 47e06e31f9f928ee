--------------------------- MODULE LongTermSigning ---------------------------
(***************************************************************************)
(* The calls of a caller who keeps one document: Sign, SignLTV, SignLTA    *)
(* and AddValidationData (sign/revocation.go). SignLTV signs into a buffer *)
(* of its own, collecting the revocation responses that are fetched, and   *)
(* appends a document security store (/DSS) that refers to them; SignLTA   *)
(* reads that buffer again and time-stamps it. doc is the buffer the call  *)
(* works on, and the caller receives it whole or not at all.               *)
(***************************************************************************)
EXTENDS SignContext

CONSTANTS
  ChainLength,    \* the certificates of CertificateChains[0]
  MaxResponses    \* bound of the model: responses fetched in one attempt

ASSUME ChainAssumption == ChainLength \in Nat /\ MaxResponses \in Nat

VARIABLES
  stored,      \* the document the caller has
  call,
  phase,       \* what the call does next
  responses    \* how many OCSP and CRL responses it has collected

ltVars == <<vars, stored, call, phase, responses>>

Calls == {"Sign", "SignLTV", "SignLTA", "AddValidationData"}

Phases == {"idle", "sign", "validate", "archive", "timestamp", "deliver", "failed"}

LTInit ==
  /\ Init
  /\ stored = doc
  /\ call = "Sign" /\ phase = "idle" /\ responses = 0

-----------------------------------------------------------------------------
(* Signing, and the order of a call's parts.                               *)

\* Mutant: the archive time-stamp is left out.
DeliverAfterValidation == "deliver"

AfterValidation == IF call = "SignLTA" THEN "archive" ELSE "deliver"

\* Without responses, or without a chain, there is no validation data to add.
AfterSigning ==
  IF call # "Sign" /\ responses > 0 /\ ChainLength > 0
  THEN "validate"
  ELSE AfterValidation

\* Bound of the model: the three sections that a call may append must fit.
RoomForCall == Len(doc.sections) + 3 <= MaxSections

StartCall(c, r) ==
  /\ phase = "idle"
  /\ RoomForCall
  /\ StartSign(r)
  /\ call' = c /\ phase' = "sign" /\ responses' = 0
  /\ UNCHANGED stored

\* Each attempt at a signature, but not at a time-stamp, fetches responses for the
\* chain. Those of an attempt that failed remain with the caller's function.
FetchResponses ==
  /\ BeginAttempt
  /\ IF req.certType = "TimeStamp" \/ ChainLength = 0
     THEN UNCHANGED responses
     ELSE \E n \in 0..MaxResponses : responses' = responses + n
  /\ UNCHANGED <<stored, call, phase>>

SignStep ==
  /\ Step /\ pc # "idle" /\ pc' # "signature"
  /\ phase' = IF pc' # "idle" THEN phase
              ELSE IF doc' = doc THEN "failed"
              ELSE IF phase = "timestamp" THEN "deliver"
              ELSE AfterSigning
  /\ UNCHANGED <<stored, call, responses>>

\* The request for an archive time-stamp; SignLTA copies the digest and the
\* time-stamping authority, which the model does not have.
ArchiveRequest ==
  [certType |-> "TimeStamp", visible |-> FALSE, image |-> "none", page |-> 1, fill |-> FALSE]

StartArchive ==
  /\ phase = "archive"
  /\ StartSign(ArchiveRequest)
  /\ phase' = "timestamp"
  /\ UNCHANGED <<stored, call, responses>>

-----------------------------------------------------------------------------
(* AddValidationData. It works on the bytes: what it takes for the catalog *)
(* or for the signature is what a regular expression finds first or last.  *)

\* The caller has a document that is signed (README.md:219).
StartValidation ==
  /\ phase = "idle"
  /\ ExistingSignatures(doc) # {}
  /\ RoomForCall
  /\ call' = "AddValidationData" /\ phase' = "validate"
  /\ responses' \in 0..MaxResponses
  /\ UNCHANGED <<vars, stored>>

\* Mutant: the first /Root of the file, that of its oldest revision.
FirstRoot == doc.sections[1].root

Root == Trailer(doc).root

\* Where the text "<id> <gen> obj" of the object of a reference occurs.
TextsOf(f, r) == {p \in DOMAIN f.objs : f.objs[p].id = r.id /\ f.objs[p].gen = r.gen}

CatalogTexts == TextsOf(doc, Root)

NumberOfStreams == ChainLength + responses

\* Mutant: the last id of the document is taken once more.
StreamIDFromLast(i) == Trailer(doc).size + i - 2

\* Ids are given from the last /Size upward: certificates, responses, store.
StreamID(i) == Trailer(doc).size + i - 1

StoreID == Trailer(doc).size + NumberOfStreams

XRefID == StoreID + 1

ValidationStream(i) ==
  [Plain("Stream") EXCEPT !.id = StreamID(i), !.keys = {StreamID(i)}]

\* Where the text "/Contents" occurs: in signatures, and in pages that refer to theirs.
ContentsOf(f) ==
  {p \in DOMAIN f.objs : \/ f.objs[p].kind \in {"Sig", "DocTimeStamp"}
                         \/ HasKey(f.objs[p], "Contents")}

\* dssVRIKey: the last /Contents of the file, whatever object has it.
LastContents ==
  LET holders == ContentsOf(doc)
      last == doc.objs[Max(holders)]
  IN  IF holders = {} THEN {} ELSE {At("VRI", [id |-> last.id, gen |-> last.gen])}

\* A placeholder that a retry has enlarged has an odd number of digits, which
\* hex.Decode refuses: there is no key then. What the signatures of a document
\* handed to AddValidationData went through is not known.
KeyDecodes == IF call = "AddValidationData" THEN BOOLEAN ELSE {attempt = 0}

Store(decodes) ==
  [Plain("DSS") EXCEPT
     !.id = StoreID,
     !.kids = [i \in 1..NumberOfStreams |-> New(StreamID(i))],
     !.refs = IF decodes THEN LastContents ELSE {}]

\* The text of the catalog, the new /DSS put before everything in it.
CatalogWithStore == [doc.objs[Min(CatalogTexts)] EXCEPT !.dss = <<New(StoreID)>> \o @]

Appendix(decodes) ==
  [i \in 1..NumberOfStreams |-> ValidationStream(i)]
    \o <<Store(decodes), CatalogWithStore>>
    \o IF doc.xref = "stream" THEN <<[Plain("XRef") EXCEPT !.id = XRefID]>> ELSE <<>>

\* Mutant: the offset recorded is that of the object before.
OffsetBefore(i) == Len(doc.objs) + i - 1

Offset(i) == Len(doc.objs) + i

\* Mutant: the stream's own number is not counted.
ValidationSizeShort == StoreID

ValidationSize == IF doc.xref = "stream" THEN XRefID + 1 ELSE StoreID + 1

\* The entries by ascending number in the code, here from the last object to the
\* first: the reader tells the two orders apart only where two objects have one id,
\* of which the map of offsets keeps the later.
ValidationSection(appendix) ==
  [entries |->
     (IF doc.xref = "table" THEN <<[id |-> 0, gen |-> 65535, pos |-> 0]>> ELSE <<>>)
       \o Reverse([i \in DOMAIN appendix |->
                     [id |-> appendix[i].id, gen |-> appendix[i].gen, pos |-> Offset(i)]]),
   size |-> ValidationSize,
   root |-> Root]

AddValidationData ==
  /\ phase = "validate"
  /\ CatalogTexts # {}
  /\ \E decodes \in KeyDecodes :
       LET appendix == Appendix(decodes) IN
       doc' = [doc EXCEPT !.objs = @ \o appendix,
                          !.sections = Append(@, ValidationSection(appendix))]
  /\ phase' = AfterValidation
  /\ UNCHANGED <<pc, req, attempt, context, stored, call, responses>>

-----------------------------------------------------------------------------
(* What the caller gets.                                                   *)

Deliver ==
  /\ phase = "deliver"
  /\ stored' = doc /\ phase' = "idle"
  /\ UNCHANGED <<vars, call, responses>>

\* The buffer cannot be read again (an encrypted document that needs a password),
\* there is no catalog, a cipher fails, or the output cannot be written.
Fail ==
  /\ phase \in {"validate", "archive", "deliver"}
  /\ phase' = "failed"
  /\ UNCHANGED <<vars, stored, call, responses>>

\* Mutant: the buffer of the call that failed is worked on by the next.
KeptBuffer == doc

\* What the next call starts from: the caller's document, not the dropped buffer.
NextInput == stored

ReturnFailure ==
  /\ phase = "failed"
  /\ doc' = NextInput /\ phase' = "idle"
  /\ UNCHANGED <<pc, req, attempt, context, stored, call, responses>>

LTStep ==
  \/ FetchResponses \/ SignStep \/ AddValidationData \/ StartArchive
  \/ Deliver \/ Fail \/ ReturnFailure

LTNext ==
  \/ LTStep
  \/ StartValidation
  \/ \E c \in Calls \ {"AddValidationData"}, r \in Requests : StartCall(c, r)

LTSpec == LTInit /\ [][LTNext]_ltVars
-----------------------------------------------------------------------------
(* Extensible documents: what the theorems about long-term signing ask of  *)
(* the first one beyond WellFormed, and what all calls keep.               *)

\* The /V of field i of a document.
SignatureAt(f, i) == Deref(f, Under(Deref(f, Catalog(f).kids[i]), "V"))

\* Every signature in the file is the /V of a field of its form.
SignaturesFound(f) ==
  \A p \in DOMAIN f.objs :
    f.objs[p].kind \in {"Sig", "DocTimeStamp"} =>
      \E i \in ExistingSignatures(f) : SignatureAt(f, i) = f.objs[p]

\* No object, listed or not, has an id that a signature would allocate.
IdsExact(f) == \A p \in DOMAIN f.objs : f.objs[p].id <= LastObjectID(f)

\* All texts of the catalog agree on the form: AddValidationData takes the oldest of
\* them (revocation.go:368). What they refer to is there.
CatalogExact(f) ==
  \A p \in TextsOf(f, Trailer(f).root) :
    /\ f.objs[p].kind = "Catalog" /\ f.objs[p].kids = Catalog(f).kids
    /\ \A r \in RefsOf(f.objs[p]) : Resolves(f, r)
    /\ \A i \in DOMAIN f.objs[p].dss : Deref(f, f.objs[p].dss[i]).kind = "DSS"

\* The last /Contents is that of an object whose id is in use.
ContentsExact(f) ==
  \A p \in ContentsOf(f) :
    (\A q \in ContentsOf(f) : q <= p) => f.objs[p].id \in InUse(f)

Extensible(f) == IdsExact(f) /\ CatalogExact(f) /\ ContentsExact(f) /\ SignaturesFound(f)

InputsExtensible == \A f \in InputFiles : WellFormed(f) /\ Extensible(f)

-----------------------------------------------------------------------------
(* Properties.                                                             *)

LTTypeOK ==
  /\ TypeOK
  /\ stored \in File
  /\ call \in Calls
  /\ phase \in Phases
  /\ responses \in 0..(MaxRetries * MaxResponses)

\* The /DSS a reader finds: the last of the catalog's, or the null object.
StoreOf(f) == IF Catalog(f).dss = <<>> THEN Null ELSE Deref(f, Last(Catalog(f).dss))

\* SignLTV or SignLTA has collected responses for a chain.
HasValidationData == call \in {"SignLTV", "SignLTA"} /\ responses > 0 /\ ChainLength > 0

\* The store holds a stream per certificate of the chain and response collected.
Holds(store, f) ==
  /\ store.kind = "DSS"
  /\ Len(store.kids) >= ChainLength + responses
  /\ \A i \in DOMAIN store.kids :
       Deref(f, store.kids[i]).kind = "Stream"

\* No signature is ever lost: whatever calls were made in which order, each
\* signature in the caller's document is the /V of a field of its form.
SignaturesKept == SignaturesFound(stored)

\* A document that had no validation data gets those collected for its signature:
\* the time-stamp that SignLTA adds afterwards, with a catalog of its own, still
\* leads to all of them (README.md:217-218).
ValidationDataReachable ==
  (phase = "deliver" /\ HasValidationData /\ Catalog(stored).dss = <<>>) =>
    Holds(StoreOf(doc), doc)

\* SignLTA delivers a document time-stamp that covers everything else: its
\* signature's field comes just before, the validation data in an older section.
ArchiveCoversAll ==
  (phase = "deliver" /\ call = "SignLTA") =>
    LET n == Len(Catalog(doc).kids) IN
      /\ n = Len(Catalog(stored).kids) + 2
      /\ SignatureAt(doc, n).kind = "DocTimeStamp"
      /\ Under(Deref(doc, Catalog(doc).kids[n]), "V").id \in EntryIds(Trailer(doc))
      /\ HasValidationData => StoreOf(doc).id \notin EntryIds(Trailer(doc))

\* Validation data that a document has stay in its catalog: a later signature
\* copies the reference into the catalog it makes (pdfcatalog.go:72).
ValidationDataKept ==
  [][(phase = "deliver" /\ call # "AddValidationData" /\ StoreOf(stored) # Null) =>
       \E i \in DOMAIN Catalog(stored').dss :
         Deref(stored', Catalog(stored').dss[i]) = StoreOf(stored)]_stored

\* Whatever was signed and delivered stays where it was: no call, and no part of
\* one, changes or removes an object or a section of the caller's document.
StoredOnlyGrows ==
  [][IsPrefix(stored.objs, stored'.objs) /\ IsPrefix(stored.sections, stored'.sections)]_ltVars

\* The caller's document implements IncrementalFile whichever calls are made: a
\* call that fails half way leaves it alone, one that succeeds appends the whole
\* of what it promises, and validation data do not touch the form.
LongTermPromise == INSTANCE IncrementalFile WITH
  Rewritable <- RewritableIds,
  length <- Len(stored.objs),
  live <- {[id |-> id, pos |-> Entry(stored, id).pos] : id \in InUse(stored)},
  root <- Trailer(stored).root.id,
  fields <- [i \in DOMAIN Catalog(stored).kids |-> Catalog(stored).kids[i].id]

\* The abstract state depends on stored alone: a step that leaves that is a stutter.
ImplementsLongTermPromise ==
  LongTermPromise!Init /\ [][LongTermPromise!LongTermNext]_stored
-----------------------------------------------------------------------------
(* Claims of the repository that the code does not keep.                   *)

\* revocation.go:316-320: the DSS is appended so that the signature is recognised
\* as LTV-enabled. Where there is one already the reader keeps that.
NewValidationDataReachable ==
  (phase = "deliver" /\ HasValidationData) => StoreOf(doc).id \notin InUse(stored)

\* revocation.go:272-273: the key of /VRI is made from the last signature. It is
\* made from whatever has the last /Contents, such as a page rewritten after it.
KeyIsOfSignature ==
  (phase = "deliver" /\ HasValidationData /\ HasKey(StoreOf(doc), "VRI")) =>
    Deref(doc, Under(StoreOf(doc), "VRI")).kind \in {"Sig", "DocTimeStamp"}

\* revocation.go:453: the catalog is rewritten with a /DSS. It is the oldest text
\* of the catalog that is, so that what later revisions had put there is gone.
CatalogRewritten ==
  (phase = "deliver" /\ call = "AddValidationData") =>
    /\ Catalog(doc).kids = Catalog(stored).kids
    /\ Range(Catalog(stored).dss) \subseteq Range(Catalog(doc).dss)
=============================================================================
