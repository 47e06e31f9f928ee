----------------------------- MODULE SignContext -----------------------------
(***************************************************************************)
(* One document signed again and again by sign.Sign. Each call runs the    *)
(* pipeline of signPDFOnce: it copies the document into a buffer, appends  *)
(* objects whose ids it often predicts before it allocates them, appends a *)
(* cross-reference section, and either delivers the longer document,       *)
(* returns an error, or starts over because the signature outgrew the      *)
(* space reserved for it. One action per addObject or updateObject.        *)
(***************************************************************************)
EXTENDS PdfFile, SequencesExt

CONSTANTS
  InputFiles,   \* the documents the first call may be given
  Requests,     \* the SignData a caller may pass
  MaxRetries,   \* maxSignatureBufferRetries
  MaxSections   \* bound of the model: no call starts on a longer document

Request == [certType: {"Certification", "Approval", "UsageRights", "TimeStamp"},
            visible: BOOLEAN, image: {"none", "opaque", "alpha"},
            page: Nat \ {0}, fill: BOOLEAN]

ASSUME InputFilesAssumption == InputFiles \subseteq File
ASSUME RequestsAssumption == Requests \subseteq Request
ASSUME BoundsAssumption == MaxRetries \in Nat \ {0} /\ MaxSections \in Nat

VARIABLES
  doc,                 \* the document: the input of the call, or its output
  pc,                  \* the next step of signPDFOnce; "idle" between calls
  req,                 \* context.SignData
  attempt,             \* the loop counter of SignPDF
  lastXrefID,          \* 0 until the first allocation of an attempt
  newXrefEntries,
  updatedXrefEntries,
  buf,                 \* the objects in context.OutputBuffer
  ids,                 \* ids kept from earlier steps, and the predicted mask id
  todo,                \* what is left to fill, as <<pass, field, widget>> indices
  section              \* the cross-reference section written

context == <<lastXrefID, newXrefEntries, updatedXrefEntries, buf, ids, todo, section>>
vars == <<doc, pc, req, attempt, context>>

Steps == {"idle", "attempt", "signature", "visual", "mask", "appearance",
          "widget", "fill", "field", "page", "catalog", "xref", "replace"}

NoIds == [sig |-> 0, image |-> 0, mask |-> 0, ap |-> 0, widget |-> 0,
          page |-> NullRef, catalog |-> 0]

NoSection == [entries |-> <<>>, size |-> 0, root |-> NullRef]

Init ==
  /\ doc \in InputFiles
  /\ pc = "idle"
  /\ req \in Requests
  /\ attempt = 0
  /\ lastXrefID = 0 /\ newXrefEntries = <<>> /\ updatedXrefEntries = <<>>
  /\ buf = <<>> /\ ids = NoIds /\ todo = {} /\ section = NoSection

-----------------------------------------------------------------------------
(* Object allocation (pdfxref.go).                                         *)

LastID == IF lastXrefID = 0 THEN LastObjectID(doc) ELSE lastXrefID

NextObjectID == LastID + Len(newXrefEntries) + 1

\* An object without references; id and gen are set when it is written.
Plain(kind) ==
  [id |-> 0, gen |-> 0, kind |-> kind, keys |-> {},
   kids |-> <<>>, refs |-> {}, dss |-> <<>>]

\* The object of id 0 R, as every reference to an object of this revision is written.
New(id) == [id |-> id, gen |-> 0]

AddObject(object) ==
  /\ lastXrefID' = LastID
  /\ newXrefEntries' =
       Append(newXrefEntries, [id |-> NextObjectID, gen |-> 0, pos |-> Len(buf) + 1])
  /\ buf' = Append(buf, [object EXCEPT !.id = NextObjectID, !.gen = 0])

\* Mutant: an update takes the next generation, as an earlier version did.
UpdateBumpsGeneration(id, object) ==
  LET gen == LatestGeneration(doc, buf, id) + 1 IN
  /\ updatedXrefEntries' =
       Append(updatedXrefEntries, [id |-> id, gen |-> gen, pos |-> Len(buf) + 1])
  /\ buf' = Append(buf, [object EXCEPT !.id = id, !.gen = gen])

UpdateObject(id, object) ==
  /\ updatedXrefEntries' =
       Append(updatedXrefEntries, [id |-> id, gen |-> 0, pos |-> Len(buf) + 1])
  /\ buf' = Append(buf, [object EXCEPT !.id = id, !.gen = 0])

\* Mutant: the entries of the attempt that failed are kept.
ResetKeepsEntries ==
  /\ lastXrefID' = 0 /\ newXrefEntries' = newXrefEntries /\ updatedXrefEntries' = <<>>
  /\ ids' = NoIds /\ todo' = {} /\ section' = NoSection
  /\ buf' = <<>>

\* resetIncrementalState, and the state of a context that Sign has just made.
ResetIncrementalState ==
  /\ lastXrefID' = 0 /\ newXrefEntries' = <<>> /\ updatedXrefEntries' = <<>>
  /\ ids' = NoIds /\ todo' = {} /\ section' = NoSection
  /\ buf' = <<>>

-----------------------------------------------------------------------------
(* The calls and their attempts (sign.go).                                 *)

\* Mutant: the loop of SignPDF runs once more.
RetriesLeftOffByOne == attempt <= MaxRetries

RetriesLeft == attempt < MaxRetries

\* Mutant: the retry loop does not count.
NextAttemptSame == attempt

NextAttempt == attempt + 1

\* Mutant: the input is read on from where the last attempt left it.
CopiedInputWithoutSeek == IF attempt = 0 THEN doc.objs ELSE <<>>

\* What each attempt starts its output with.
CopiedInput == doc.objs

StartSign(r) ==
  /\ pc = "idle"
  /\ Len(doc.sections) < MaxSections
  /\ req' = r /\ attempt' = 0 /\ pc' = "attempt"
  /\ ResetIncrementalState
  /\ UNCHANGED doc

\* Any error but errSignatureBufferTooSmall ends the call; nothing was written.
ReturnError ==
  /\ pc' = "idle"
  /\ ResetIncrementalState
  /\ UNCHANGED <<doc, req, attempt>>

\* Every step may fail for a reason the model leaves out: the certificate and the
\* revocation responders, the image and its rectangle, the time zone, a cipher, the
\* width of the byte range, the signer, the time-stamping authority, the output.
EnvironmentError ==
  /\ pc # "idle"
  /\ ReturnError

GiveUp ==
  /\ pc = "attempt"
  /\ ~RetriesLeft
  /\ ReturnError

BeginAttempt ==
  /\ pc = "attempt"
  /\ RetriesLeft
  /\ buf' = CopiedInput
  /\ pc' = "signature"
  /\ UNCHANGED <<doc, req, attempt, lastXrefID, newXrefEntries,
                 updatedXrefEntries, ids, todo, section>>

\* The strings of the signature dictionary are encrypted for the predicted id;
\* a document time-stamp has none.
AddSignature ==
  /\ pc = "signature"
  /\ AddObject(IF req.certType = "TimeStamp"
               THEN Plain("DocTimeStamp")
               ELSE [Plain("Sig") EXCEPT !.keys = {NextObjectID}])
  /\ ids' = [ids EXCEPT !.sig = NextObjectID]
  /\ pc' = "visual"
  /\ UNCHANGED <<doc, req, attempt, updatedXrefEntries, todo, section>>

-----------------------------------------------------------------------------
(* The signature field and its appearance (pdfvisualsignature.go,          *)
(* appearance.go).                                                         *)

RejectVisible ==
  /\ pc = "visual"
  /\ req.visible /\ req.certType # "Approval"
  /\ ReturnError

\* Mutant: the mask is predicted to be the image.
MaskIDOffByOne == NextObjectID

\* An image with an alpha channel names, and encrypts, a mask that is added only
\* after the image itself.
MaskID == NextObjectID + 1

\* createImageXObject
AddImage ==
  /\ pc = "visual"
  /\ req.visible /\ req.certType = "Approval" /\ req.image # "none"
  /\ LET image == [Plain("Image") EXCEPT !.keys = {NextObjectID}] IN
       AddObject(IF req.image = "alpha"
                 THEN [image EXCEPT !.refs = {At("SMask", New(MaskID))}]
                 ELSE image)
  /\ ids' = [ids EXCEPT !.image = NextObjectID, !.mask = MaskID]
  /\ pc' = IF req.image = "alpha" THEN "mask" ELSE "appearance"
  /\ UNCHANGED <<doc, req, attempt, updatedXrefEntries, todo, section>>

AddMask ==
  /\ pc = "mask"
  /\ AddObject([Plain("Mask") EXCEPT !.keys = {ids.mask}])
  /\ pc' = "appearance"
  /\ UNCHANGED <<doc, req, attempt, updatedXrefEntries, ids, todo, section>>

AddAppearance ==
  /\ \/ pc = "appearance"
     \/ pc = "visual" /\ req.visible /\ req.certType = "Approval" /\ req.image = "none"
  /\ LET appearance == [Plain("Appearance") EXCEPT !.keys = {NextObjectID}] IN
       AddObject(IF pc = "appearance"
                 THEN [appearance EXCEPT !.refs = {At("XObject", New(ids.image))}]
                 ELSE appearance)
  /\ ids' = [ids EXCEPT !.ap = NextObjectID]
  /\ pc' = "widget"
  /\ UNCHANGED <<doc, req, attempt, updatedXrefEntries, todo, section>>

\* fillInitialsFields fills the fields of one kind, then fillDateFields those of the
\* other: the signer is named and dated. A field's widgets come before the field.
Fields == Catalog(doc).kids

\* Mutant: a pattern that also matches the fields of the other pass.
MatchingEither(pass) ==
  {i \in DOMAIN Fields : Deref(doc, Fields[i]).kind \in {"Initials", "Date"}}

Matching(pass) ==
  {i \in DOMAIN Fields : Deref(doc, Fields[i]).kind = <<"Initials", "Date">>[pass]}

Family(i) == Append(Deref(doc, Fields[i]).kids, Fields[i])

Present(i) ==
  LET family == Family(i) IN {k \in DOMAIN family : Resolves(doc, family[k])}

FillTargets ==
  UNION {UNION {{<<pass, i, k>> : k \in Present(i)} : i \in Matching(pass)} : pass \in 1..2}

Target(t) == Family(t[2])[t[3]]

Before(t, u) ==
  \/ t[1] < u[1]
  \/ t[1] = u[1] /\ t[2] < u[2]
  \/ t[1] = u[1] /\ t[2] = u[2] /\ t[3] <= u[3]

IsNext(t) == \A u \in todo : Before(t, u)

\* No page of that number is found; every catalog is taken to have a /Pages.
PageMissing ==
  /\ pc = "widget" \/ (pc = "visual" /\ ~req.visible)
  /\ ~ \E i \in DOMAIN PageTree(doc) : IsPage(doc, req.page, i)
  /\ ReturnError

\* Mutant: the signature is taken to be the object written last.
FieldValueLast == New(NextObjectID - 1)

FieldValue == New(ids.sig)

\* createVisualSignature
SignatureField(page) ==
  [Plain("Widget") EXCEPT
     !.keys = {NextObjectID},
     !.refs = {At("V", FieldValue), At("P", page)}
                \union (IF req.visible THEN {At("AP", New(ids.ap))} ELSE {})]

AddWidget ==
  /\ pc = "widget" \/ (pc = "visual" /\ ~req.visible)
  /\ \E i \in DOMAIN PageTree(doc) :
       /\ IsPage(doc, req.page, i)
       /\ AddObject(SignatureField(PageTree(doc)[i]))
       /\ ids' = [ids EXCEPT !.widget = NextObjectID, !.page = PageTree(doc)[i], !.ap = 0]
  /\ todo' = IF req.fill THEN FillTargets ELSE {}
  /\ pc' = "fill"
  /\ UNCHANGED <<doc, req, attempt, updatedXrefEntries, section>>

-----------------------------------------------------------------------------
(* Filling initials and dates (fillable_fields_common.go).                 *)

\* A field that has an appearance gets a new one, unless its rectangle is empty:
\* createTextFieldAppearance then fails and the field loses the key.
AddFieldAppearance ==
  /\ pc = "fill"
  /\ \E t \in todo : IsNext(t) /\ HasKey(Deref(doc, Target(t)), "AP")
  /\ AddObject([Plain("Appearance") EXCEPT !.keys = {NextObjectID}])
  /\ ids' = [ids EXCEPT !.ap = NextObjectID]
  /\ pc' = "field"
  /\ UNCHANGED <<doc, req, attempt, updatedXrefEntries, todo, section>>

SkipFieldAppearance ==
  /\ pc = "fill" /\ todo # {}
  /\ pc' = "field"
  /\ UNCHANGED <<doc, req, attempt, context>>

\* updateFieldObject and updateFieldWidget: every other key is copied, the new
\* value and the name are encrypted for the id of the field.
FilledField(r) ==
  LET field == Deref(doc, r)
      copied == CopyKeys(doc, buf, {e \in field.refs : e.key \notin {"AP", "V"}})
  IN  [field EXCEPT
         !.keys = {r.id},
         !.kids = CopyRefs(doc, buf, field.kids),
         !.refs = IF ids.ap = 0 THEN copied ELSE copied \union {At("AP", New(ids.ap))}]

UpdateField ==
  /\ pc = "field"
  /\ \E t \in todo :
       /\ IsNext(t)
       /\ UpdateObject(Target(t).id, FilledField(Target(t)))
       /\ todo' = todo \ {t}
  /\ ids' = [ids EXCEPT !.ap = 0]
  /\ pc' = "fill"
  /\ UNCHANGED <<doc, req, attempt, lastXrefID, newXrefEntries, section>>

FieldsFilled ==
  /\ pc = "fill" /\ todo = {}
  /\ pc' = IF req.visible THEN "page" ELSE "catalog"
  /\ UNCHANGED <<doc, req, attempt, context>>

-----------------------------------------------------------------------------
(* The page, the catalog and the cross-reference section.                  *)

\* createIncPageUpdate: strings of the page are written as the reader decrypted
\* them, and every reference it rewrites is given generation 0.
UpdatedPage ==
  LET page == Deref(doc, ids.page) IN
  [page EXCEPT
     !.keys = IF page.keys = {} THEN {} ELSE {0},
     !.kids = Append([i \in DOMAIN page.kids |-> ZeroGen(doc, page.kids[i])],
                     New(ids.widget)),
     !.refs = {At(e.key, ZeroGen(doc, e.to)) : e \in page.refs}]

UpdatePage ==
  /\ pc = "page"
  /\ UpdateObject(ids.page.id, UpdatedPage)
  /\ pc' = "catalog"
  /\ UNCHANGED <<doc, req, attempt, lastXrefID, newXrefEntries, ids, todo, section>>

\* Mutant: the form is overwritten instead of extended.
NewFieldsOnly == <<New(ids.widget)>>

NewFields == Append(CopyRefs(doc, buf, Fields), New(ids.widget))

\* Mutant: the /DSS is not carried over.
NoStores == <<>>

\* The reader keeps the last of several /DSS keys, and that is what is copied.
CopiedStores ==
  LET old == Catalog(doc).dss
  IN  IF old = <<>> THEN <<>> ELSE <<CopyRef(doc, buf, Last(old))>>

\* createCatalog: a fresh catalog that repeats the old one, with the new field
\* after those that were there.
NewCatalog ==
  [Plain("Catalog") EXCEPT
     !.keys = {NextObjectID},
     !.kids = NewFields,
     !.refs = CopyKeys(doc, buf, Catalog(doc).refs),
     !.dss = CopiedStores]

AddCatalog ==
  /\ pc = "catalog"
  /\ AddObject(NewCatalog)
  /\ ids' = [ids EXCEPT !.catalog = NextObjectID]
  /\ pc' = "xref"
  /\ UNCHANGED <<doc, req, attempt, updatedXrefEntries, todo, section>>

\* The entries are those of the objects added so far, and /Size is one more than
\* their number on top of the reader's item count.
NewSection(size) ==
  [entries |-> updatedXrefEntries \o newXrefEntries,
   size |-> size,
   root |-> New(ids.catalog)]

\* Mutant: the id that lastXrefID skips is forgotten.
NewSizeOffByOne == ItemCount(doc) + Len(newXrefEntries)

NewSize == ItemCount(doc) + Len(newXrefEntries) + 1

\* writeIncrXrefTable and writeTrailer: the old trailer is repeated as text, and
\* its /Size replaced only where it reads as the item count.
WriteXrefTable ==
  /\ pc = "xref" /\ doc.xref = "table"
  /\ section' = NewSection(IF Trailer(doc).size = ItemCount(doc)
                           THEN NewSize ELSE Trailer(doc).size)
  /\ pc' = "replace"
  /\ UNCHANGED <<doc, req, attempt, lastXrefID, newXrefEntries,
                 updatedXrefEntries, buf, ids, todo>>

\* writeXrefStream: the stream's own object is added after its entries were made.
WriteXrefStream ==
  /\ pc = "xref" /\ doc.xref = "stream"
  /\ section' = NewSection(NewSize)
  /\ AddObject(Plain("XRef"))
  /\ pc' = "replace"
  /\ UNCHANGED <<doc, req, attempt, updatedXrefEntries, ids, todo>>

SignedFile == [doc EXCEPT !.objs = buf, !.sections = Append(@, section)]

\* replaceSignature fits the signature in, and the output is written at last.
ReplaceSignature ==
  /\ pc = "replace"
  /\ doc' = SignedFile
  /\ pc' = "idle"
  /\ ResetIncrementalState
  /\ UNCHANGED <<req, attempt>>

\* errSignatureBufferTooSmall: more space is reserved and everything redone.
SignatureTooLong ==
  /\ pc = "replace"
  /\ attempt' = NextAttempt
  /\ pc' = "attempt"
  /\ ResetIncrementalState
  /\ UNCHANGED <<doc, req>>

-----------------------------------------------------------------------------
Step ==
  \/ EnvironmentError \/ GiveUp \/ BeginAttempt
  \/ AddSignature \/ RejectVisible \/ AddImage \/ AddMask \/ AddAppearance
  \/ PageMissing \/ AddWidget
  \/ AddFieldAppearance \/ SkipFieldAppearance \/ UpdateField \/ FieldsFilled
  \/ UpdatePage \/ AddCatalog \/ WriteXrefTable \/ WriteXrefStream
  \/ ReplaceSignature \/ SignatureTooLong

Next == Step \/ \E r \in Requests : StartSign(r)

Spec == Init /\ [][Next]_vars

\* A call runs to its end: nothing in signPDFOnce waits but HTTP requests, which
\* the clients time out.
FairSpec == Spec /\ WF_vars(Step)
-----------------------------------------------------------------------------
(* Well-formed documents: what the theorems about the delivered document   *)
(* ask of the first one, and what signing keeps.                           *)

\* The latest object of an id in use.
Latest(f, id) == f.objs[Entry(f, id).pos]

\* /Size cuts no entry off, and the last entry of a table is in use. Where it is
\* free, the item count of the reader, which counts it, is not the /Size that the
\* first signature leaves, and the second keeps that /Size (pdftrailer.go:25).
SizeIsExact(f) ==
  /\ \A id \in ListedIds(f) : id < Trailer(f).size
  /\ f.xref = "table" => LastObjectID(f) = Trailer(f).size

\* An id in use is that of an object, and no object ever had another generation than
\* 0: updateObject writes generation 0 whatever the object had (pdfxref.go:65).
EntriesExact(f) ==
  /\ \A p \in DOMAIN f.objs : f.objs[p].gen = 0
  /\ \A id \in InUse(f) : id > 0 /\ Resolves(f, New(id))

ReferencesFound(f) ==
  /\ \A id \in InUse(f) : \A r \in RefsOf(Latest(f, id)) : Resolves(f, r)
  /\ Resolves(f, Trailer(f).root) /\ Catalog(f).kind = "Catalog"

\* The fields that a signature may fill, and what it fills of each.
Fillable(f) ==
  {i \in DOMAIN Catalog(f).kids :
     Deref(f, Catalog(f).kids[i]).kind \in {"Initials", "Date"}}

FamilyOf(f, i) == Append(Deref(f, Catalog(f).kids[i]).kids, Catalog(f).kids[i])

\* No widget belongs to two fields, no field is listed twice, and none is a page.
FieldsApart(f) ==
  \A i \in Fillable(f) : \A k \in DOMAIN FamilyOf(f, i) :
    /\ Deref(f, FamilyOf(f, i)[k]).kind \in {"Initials", "Date", "Text"}
    /\ \A j \in Fillable(f) : \A l \in DOMAIN FamilyOf(f, j) :
         FamilyOf(f, i)[k].id = FamilyOf(f, j)[l].id => i = j /\ k = l

WellFormed(f) ==
  SizeIsExact(f) /\ EntriesExact(f) /\ ReferencesFound(f) /\ FieldsApart(f)

InputsWellFormed == \A f \in InputFiles : WellFormed(f)

-----------------------------------------------------------------------------
(* Properties.                                                             *)

TypeOK ==
  /\ doc \in File
  /\ pc \in Steps
  /\ req \in Request
  /\ attempt \in 0..MaxRetries
  /\ lastXrefID \in Nat
  /\ newXrefEntries \in Seq(XrefEntry)
  /\ updatedXrefEntries \in Seq(XrefEntry)
  /\ buf \in Seq(Object)
  /\ ids \in [sig: Nat, image: Nat, mask: Nat, ap: Nat, widget: Nat, page: Ref, catalog: Nat]
  /\ todo \subseteq (1..2) \X Nat \X Nat
  /\ section \in Section

\* The objects that this call has appended.
Written == {buf[p] : p \in (Len(doc.objs) + 1)..Len(buf)}

\* Whatever is encrypted is encrypted for the object it ends up in: each id that
\* getNextObjectID predicted, the mask's through its image included, is the id
\* that addObject then allocated (appearance.go:229, pdfxref.go:210-216).
EncryptedForItself == \A o \in Written : o.keys \subseteq {0, o.id}

\* The ids allocated are consecutive, were free in the document, and each entry
\* leads to the object that carries its id, in every attempt alike.
AllocationExact ==
  \A i \in DOMAIN newXrefEntries :
    LET e == newXrefEntries[i] IN
      /\ e.id = LastObjectID(doc) + i
      /\ e.id \notin InUse(doc)
      /\ e.pos \in (Len(doc.objs) + 1)..Len(buf)
      /\ buf[e.pos].id = e.id

\* No object is written twice in one revision: the reader would show the first.
WrittenOnce ==
  \A p, q \in (Len(doc.objs) + 1)..Len(buf) : buf[p].id = buf[q].id => p = q

\* The cross-reference section covers what it lists: the reader cuts a table off
\* at /Size, and with it the new catalog and the signature.
SizeCoversEntries ==
  pc = "idle" => \A id \in EntryIds(Trailer(doc)) : id < Trailer(doc).size

\* Between calls, every reference in every object in use finds its object.
ReferencesResolve ==
  pc = "idle" =>
    \A id \in InUse(doc) : \A r \in RefsOf(doc.objs[Entry(doc, id).pos]) : Resolves(doc, r)

\* Between calls, the newest field of a document that this code has signed is a
\* signature field whose /V is a signature dictionary of the same revision.
SignatureReachable ==
  (pc = "idle" /\ doc \notin InputFiles) =>
    /\ Resolves(doc, Trailer(doc).root)
    /\ Catalog(doc).kind = "Catalog"
    /\ Resolves(doc, Last(Catalog(doc).kids))
    /\ LET field == Deref(doc, Last(Catalog(doc).kids)) IN
         /\ field.kind = "Widget"
         /\ Resolves(doc, Under(field, "V"))
         /\ Deref(doc, Under(field, "V")).kind \in {"Sig", "DocTimeStamp"}
         /\ Under(field, "V").id \in EntryIds(Trailer(doc))

\* The ids a revision may rewrite: pages and the fields that are filled.
RewritableIds ==
  {o.id : o \in {p \in UNION {Range(f.objs) : f \in InputFiles} :
                   p.kind \in {"Page", "Initials", "Date", "Text"}}}

\* The document implements IncrementalFile: a call that retries, fails or gives up
\* leaves it alone, and one that succeeds appends one signature to it.
Promise == INSTANCE IncrementalFile WITH
  Rewritable <- RewritableIds,
  length <- Len(doc.objs),
  live <- {[id |-> id, pos |-> Entry(doc, id).pos] : id \in InUse(doc)},
  root <- Trailer(doc).root.id,
  fields <- [i \in DOMAIN Catalog(doc).kids |-> Catalog(doc).kids[i].id]

ImplementsPromise == Promise!Spec

\* What was signed stays where it was: no step changes or removes an object of
\* the document, or the cross-reference section of an earlier revision.
AppendOnly ==
  [][IsPrefix(doc.objs, doc'.objs) /\ IsPrefix(doc.sections, doc'.sections)]_vars

\* Every call returns, however often the signature outgrows its space.
CallsReturn == (pc # "idle") ~> (pc = "idle")
-----------------------------------------------------------------------------
(* Claims of the repository that the code does not keep; one run refutes   *)
(* each of them.                                                           *)

\* README.md:209: new objects use the encryption parameters of the source file.
\* The page that a visible signature rewrites has its strings in plain text.
NothingInPlainText == \A o \in Written : 0 \notin o.keys
=============================================================================
