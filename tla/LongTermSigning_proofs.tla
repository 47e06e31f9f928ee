----------------------- MODULE LongTermSigning_proofs -----------------------
(***************************************************************************)
(* For every set of documents and requests, every chain and every number   *)
(* of responses: what AddValidationData appends is well formed, and the    *)
(* document of the caller is only ever appended to, by any sequence of     *)
(* calls, each of which may fail anywhere.                                 *)
(***************************************************************************)
EXTENDS LongTermSigning, IncrementalFile_proofs

-----------------------------------------------------------------------------
(* The inductive invariant.                                                *)

\* The buffer of the call begins with the document of the caller.
BufferExtends ==
  IsPrefix(stored.objs, doc.objs) /\ IsPrefix(stored.sections, doc.sections)

\* Each attempt begun so far has fetched at most MaxResponses responses.
ResponsesBounded ==
  phase = "sign" =>
    responses <= (IF pc = "attempt" THEN attempt ELSE attempt + 1) * MaxResponses

LTIInv ==
  /\ IInv
  /\ LTTypeOK
  /\ pc # "idle" <=> phase \in {"sign", "timestamp"}
  /\ phase = "timestamp" => req.certType = "TimeStamp"
  /\ phase = "idle" => doc = stored
  /\ BufferExtends
  /\ ResponsesBounded

\* A document that calls may be made on.
Ready(f) == WellFormed(f) /\ RewritableKnown(f) /\ Extensible(f)

\* Every id in use stays in use and stands for an object of the kind it had; for the
\* same object, unless that is of a kind that a signature or AddValidationData rewrites.
Revises(f, g) ==
  /\ InUse(f) \subseteq InUse(g)
  /\ \A id \in InUse(f) :
       /\ Latest(g, id).kind = Latest(f, id).kind
       /\ Latest(f, id).kind \notin RewritableKinds \union {"Catalog"} =>
            Latest(g, id) = Latest(f, id)

\* What IncrementalFile says of one signature, of two, and of validation data.
SignedOver(f, g) ==
  /\ Len(g.objs) > Len(f.objs)
  /\ KeepsLive(f, g, RewritableIds)
  /\ Trailer(g).root.id \in InUse(g) \ InUse(f)

SignedOnce(f, g) ==
  /\ SignedOver(f, g)
  /\ \E w \in InUse(g) \ InUse(f) : FieldIdsOf(g) = Append(FieldIdsOf(f), w)

SignedTwice(f, g) ==
  /\ SignedOver(f, g)
  /\ \E w, t \in InUse(g) \ InUse(f) : w # t /\ FieldIdsOf(g) = FieldIdsOf(f) \o <<w, t>>

Validated(f, g) ==
  /\ Len(g.objs) > Len(f.objs)
  /\ KeepsLive(f, g, {Trailer(f).root.id})
  /\ Trailer(g).root = Trailer(f).root /\ FieldIdsOf(g) = FieldIdsOf(f)

\* How far the buffer is ahead of the caller's document.
ProgressInv ==
  /\ phase \in {"idle", "sign"} => doc = stored
  /\ phase = "sign" => call # "AddValidationData"
  /\ phase = "validate" =>
       IF call = "AddValidationData" THEN doc = stored ELSE SignedOnce(stored, doc)
  /\ phase \in {"archive", "timestamp"} => call = "SignLTA" /\ SignedOnce(stored, doc)
  /\ phase = "deliver" =>
       IF call = "AddValidationData" THEN Validated(stored, doc)
       ELSE IF call = "SignLTA" THEN SignedTwice(stored, doc)
       ELSE SignedOnce(stored, doc)

\* A store that the document had is the one that the reader finds; one that is new is
\* found where there was none.
StoreKept(f, g) ==
  Catalog(f).dss # <<>> =>
    Catalog(g).dss # <<>> /\ Last(Catalog(g).dss) = Last(Catalog(f).dss)

StoresInv ==
  call # "AddValidationData" =>
    /\ phase \in {"validate", "archive", "timestamp", "deliver"} => StoreKept(stored, doc)
    /\ phase = "validate" => \A p \in CatalogTexts : doc.objs[p].dss = KnownStores(stored)
    /\ phase \in {"archive", "timestamp", "deliver"} /\ HasValidationData =>
         /\ Catalog(doc).dss # <<>>
         /\ Catalog(stored).dss = <<>> => Holds(StoreOf(doc), doc)

\* The archive time-stamp of a document, and that its section has nothing of the store.
IsArchived(f) ==
  LET field == Deref(f, Last(Catalog(f).kids)) IN
    /\ Deref(f, Under(field, "V")).kind = "DocTimeStamp"
    /\ Under(field, "V").id \in EntryIds(Trailer(f))

ArchiveInv ==
  (phase = "deliver" /\ call = "SignLTA") =>
    IsArchived(doc) /\ (HasValidationData => StoreOf(doc).id \notin EntryIds(Trailer(doc)))

LTFileInv ==
  /\ SoundInv /\ Ready(doc) /\ Ready(stored) /\ Revises(stored, doc)
  /\ ProgressInv /\ StoresInv /\ ArchiveInv

-----------------------------------------------------------------------------
(* Prefixes and bounds.                                                    *)

\* What is appended to an extension extends the original too.
LEMMA PrefixTransitive ==
  ASSUME NEW S, NEW s \in Seq(S), NEW t \in Seq(S), NEW u \in Seq(S),
         IsPrefix(s, t), IsPrefix(t, u)
  PROVE  IsPrefix(s, u)
<1>1. Len(s) \in Nat /\ Len(t) \in Nat /\ Len(u) \in Nat
  OBVIOUS
<1>2. Len(s) <= Len(t) /\ Len(t) <= Len(u) /\ Len(s) <= Len(u)
  BY <1>1 DEF IsPrefix
<1>3. SubSeq(s, 1, Len(s)) = SubSeq(t, 1, Len(s)) /\ SubSeq(t, 1, Len(t)) = SubSeq(u, 1, Len(t))
  BY DEF IsPrefix
<1>4. \A i \in 1..Len(s) : SubSeq(t, 1, Len(s))[i] = SubSeq(u, 1, Len(s))[i]
  <2> TAKE i \in 1..Len(s)
  <2>1. i \in 1..Len(t)
    BY <1>1, <1>2
  <2>2. SubSeq(t, 1, Len(t))[i] = t[i] /\ SubSeq(u, 1, Len(t))[i] = u[i]
    BY <1>1, <1>2, <2>1
  <2>3. SubSeq(t, 1, Len(s))[i] = t[i] /\ SubSeq(u, 1, Len(s))[i] = u[i]
    BY <1>1, <1>2
  <2> QED  BY <1>3, <2>2, <2>3
<1>5. SubSeq(t, 1, Len(s)) = SubSeq(u, 1, Len(s))
  BY <1>1, <1>2, <1>4
<1> QED  BY <1>2, <1>3, <1>5 DEF IsPrefix

\* A sequence is a prefix of itself, and of what is concatenated to it.
LEMMA PrefixOfConcat ==
  ASSUME NEW S, NEW s \in Seq(S), NEW t \in Seq(S)
  PROVE  IsPrefix(s, s) /\ IsPrefix(s, s \o t)
<1>1. Len(s \o t) = Len(s) + Len(t) /\ Len(s) \in Nat /\ Len(t) \in Nat
  OBVIOUS
<1>2. s \o t \in Seq(S)
  OBVIOUS
<1>3. \A i \in 1..Len(s) : SubSeq(s, 1, Len(s))[i] = SubSeq(s \o t, 1, Len(s))[i]
  BY <1>1
<1>4. SubSeq(s, 1, Len(s)) = SubSeq(s \o t, 1, Len(s))
  BY <1>1, <1>2, <1>3
<1> QED  BY <1>1, <1>4 DEF IsPrefix

\* Multiplication by a bound keeps the order of the numbers of attempts.
LEMMA BoundGrows ==
  ASSUME NEW a \in Nat, NEW b \in Nat, a <= b
  PROVE  /\ a * MaxResponses <= b * MaxResponses
         /\ (a + 1) * MaxResponses = a * MaxResponses + MaxResponses
         /\ a * MaxResponses \in Nat /\ b * MaxResponses \in Nat
<1>1. MaxResponses \in Nat
  BY ChainAssumption
<1>2. PICK c \in Nat : b = a + c
  <2>1. b - a \in Nat /\ b = a + (b - a)
    OBVIOUS
  <2> QED  BY <2>1
<1>3. b * MaxResponses = a * MaxResponses + c * MaxResponses
  BY <1>1, <1>2
<1>4. c * MaxResponses \in Nat /\ a * MaxResponses \in Nat
  BY <1>1
<1> QED  BY <1>1, <1>3, <1>4

-----------------------------------------------------------------------------
(* AddValidationData.                                                      *)

\* Numbers are given from the latest /Size upward.
LEMMA ValidationIds ==
  ASSUME doc \in File, responses \in Nat
  PROVE  /\ NumberOfStreams \in Nat
         /\ StoreID \in Nat /\ XRefID \in Nat /\ ValidationSize \in Nat
         /\ \A i \in 1..NumberOfStreams : StreamID(i) \in Nat
BY TrailerType, ChainAssumption
   DEF NumberOfStreams, StoreID, XRefID, ValidationSize, StreamID

\* The object that the /VRI key is made from is referred to properly.
LEMMA LastContentsType ==
  ASSUME doc \in File
  PROVE  LastContents \in SUBSET [key: Keys, to: Ref]
<1> DEFINE holders == ContentsOf(doc)
           m == Max(holders)
           last == doc.objs[m]
<1>1. doc.objs \in Seq(Object)
  BY DEF File
<1>2. CASE holders = {}
  BY <1>2 DEF LastContents
<1>3. CASE holders # {}
  <2>1. holders \in SUBSET (0..Len(doc.objs)) /\ Len(doc.objs) \in Nat
    BY <1>1 DEF ContentsOf
  <2>2. m \in DOMAIN doc.objs
    <3>1. m \in holders
      BY <1>3, <2>1, MaxOfBounded
    <3> QED  BY <3>1 DEF ContentsOf
  <2> HIDE DEF m
  <2>3. last \in Object
    BY <1>1, <2>2
  <2> HIDE DEF last
  <2>4. [id |-> last.id, gen |-> last.gen] \in Ref /\ "VRI" \in Keys
    BY <2>3 DEF Object, Ref, Keys
  <2>5. {At("VRI", [id |-> last.id, gen |-> last.gen])} \in SUBSET [key: Keys, to: Ref]
    BY <2>4, AtType
  <2> QED  BY <1>3, <2>5 DEF LastContents, last, m
<1> QED  BY <1>2, <1>3

\* The rewritten catalog is an object: its text is one of the document's.
LEMMA CatalogWithStoreType ==
  ASSUME doc \in File, responses \in Nat, CatalogTexts # {}
  PROVE  CatalogWithStore \in Object
<1>1. doc.objs \in Seq(Object)
  BY DEF File
<1>2. CatalogTexts \in SUBSET Nat /\ CatalogTexts \subseteq DOMAIN doc.objs
  BY <1>1 DEF CatalogTexts, TextsOf
<1>3. Min(CatalogTexts) \in CatalogTexts
  <2>1. PICK x \in CatalogTexts : \A y \in CatalogTexts : x <= y
    BY <1>2, LeastNat
  <2> QED  BY <2>1, Zenon DEF Min
<1> DEFINE m == Min(CatalogTexts)
           text == doc.objs[m]
           dss == <<New(StoreID)>> \o text.dss
<1>4. text \in Object
  <2>1. m \in DOMAIN doc.objs
    BY <1>2, <1>3
  <2> HIDE DEF m
  <2> QED  BY <1>1, <2>1
<1>5. New(StoreID) \in Ref
  BY ValidationIds, NewType
<1>6. dss \in Seq(Ref)
  <2>1. text.dss \in Seq(Ref) /\ <<New(StoreID)>> \in Seq(Ref)
    BY <1>4, <1>5 DEF Object
  <2> QED  BY <2>1, ConcatProperties
<1>7. CatalogWithStore = [text EXCEPT !.dss = dss]
  BY DEF CatalogWithStore
<1> HIDE DEF text, dss
<1> QED  BY <1>4, <1>6, <1>7 DEF Object

\* A stream holding validation data has the number it is encrypted for.
LEMMA ValidationStreamType ==
  ASSUME doc \in File, responses \in Nat, NEW i \in 1..NumberOfStreams
  PROVE  ValidationStream(i) \in Object /\ ValidationStream(i).id = StreamID(i)
<1> DEFINE o == Plain("Stream")
<1>1. o \in Object
  BY PlainType DEF Kinds
<1>2. StreamID(i) \in Nat
  BY ValidationIds
<1>3. ValidationStream(i) = [o EXCEPT !.id = StreamID(i), !.keys = {StreamID(i)}]
  BY DEF ValidationStream
<1> HIDE DEF o
<1> QED  BY <1>1, <1>2, <1>3 DEF Object

\* The document security store refers to the streams, and perhaps to a signature.
LEMMA StoreType ==
  ASSUME doc \in File, responses \in Nat, NEW decodes \in BOOLEAN
  PROVE  Store(decodes) \in Object
<1> DEFINE o == Plain("DSS")
           kids == [i \in 1..NumberOfStreams |-> New(StreamID(i))]
           refs == IF decodes THEN LastContents ELSE {}
<1>1. o \in Object
  BY PlainType DEF Kinds
<1>2. NumberOfStreams \in Nat /\ StoreID \in Nat
  BY ValidationIds
<1>3. kids \in Seq(Ref)
  <2>1. \A i \in 1..NumberOfStreams : New(StreamID(i)) \in Ref
    BY ValidationIds, NewType
  <2> QED  BY <1>2, <2>1
<1>4. refs \in SUBSET [key: Keys, to: Ref]
  BY LastContentsType
<1>5. Store(decodes) = [o EXCEPT !.id = StoreID, !.kids = kids, !.refs = refs]
  BY DEF Store
<1> HIDE DEF o, kids, refs
<1> QED  BY <1>1, <1>2, <1>3, <1>4, <1>5 DEF Object

\* What is appended are objects.
LEMMA AppendixType ==
  ASSUME doc \in File, responses \in Nat, CatalogTexts # {}, NEW decodes \in BOOLEAN
  PROVE  Appendix(decodes) \in Seq(Object)
<1> DEFINE streams == [i \in 1..NumberOfStreams |-> ValidationStream(i)]
           two == <<Store(decodes), CatalogWithStore>>
           xref == [Plain("XRef") EXCEPT !.id = XRefID]
           last == IF doc.xref = "stream" THEN <<xref>> ELSE <<>>
<1>1. streams \in Seq(Object)
  <2>1. NumberOfStreams \in Nat /\ \A i \in 1..NumberOfStreams : ValidationStream(i) \in Object
    BY ValidationIds, ValidationStreamType
  <2> QED  BY <2>1
<1>2. two \in Seq(Object)
  <2>1. Store(decodes) \in Object /\ CatalogWithStore \in Object
    BY StoreType, CatalogWithStoreType
  <2> QED  BY <2>1
<1>3. xref \in Object
  <2>1. Plain("XRef") \in Object /\ XRefID \in Nat
    BY PlainType, ValidationIds DEF Kinds
  <2> QED  BY <2>1 DEF Object
<1> HIDE DEF xref
<1>4. last \in Seq(Object)
  BY <1>3, EmptySeq
<1>5. Appendix(decodes) = streams \o two \o last
  BY DEF Appendix, xref
<1> HIDE DEF streams, two, last
<1>6. streams \o two \in Seq(Object)
  BY <1>1, <1>2, ConcatProperties
<1> QED  BY <1>4, <1>5, <1>6, ConcatProperties

\* The section that lists them is a section.
LEMMA ValidationSectionType ==
  ASSUME doc \in File, responses \in Nat, NEW appendix \in Seq(Object)
  PROVE  ValidationSection(appendix) \in Section
<1> DEFINE free == IF doc.xref = "table" THEN <<[id |-> 0, gen |-> 65535, pos |-> 0]>> ELSE <<>>
           listed == [i \in DOMAIN appendix |->
                        [id |-> appendix[i].id, gen |-> appendix[i].gen, pos |-> Offset(i)]]
<1>1. free \in Seq(XrefEntry)
  <2>1. [id |-> 0, gen |-> 65535, pos |-> 0] \in XrefEntry
    BY DEF XrefEntry
  <2> QED  BY <2>1, EmptySeq
<1>2. listed \in Seq(XrefEntry)
  <2>1. doc.objs \in Seq(Object)
    BY DEF File
  <2>2. \A i \in DOMAIN appendix : appendix[i] \in Object /\ Offset(i) \in Nat
    BY <2>1 DEF Offset
  <2>3. \A i \in DOMAIN appendix :
          [id |-> appendix[i].id, gen |-> appendix[i].gen, pos |-> Offset(i)] \in XrefEntry
    BY <2>2 DEF Object, XrefEntry
  <2>4. DOMAIN appendix = 1..Len(appendix) /\ Len(appendix) \in Nat
    OBVIOUS
  <2> QED  BY <2>3, <2>4
<1> HIDE DEF free, listed
<1>3. Reverse(listed) \in Seq(XrefEntry)
  <2>1. Len(listed) \in Nat /\ \A i \in 1..Len(listed) : listed[(Len(listed) - i) + 1] \in XrefEntry
    BY <1>2
  <2> QED  BY <2>1 DEF Reverse
<1>4. free \o Reverse(listed) \in Seq(XrefEntry)
  BY <1>1, <1>3, ConcatProperties
<1>5. Root \in Ref /\ ValidationSize \in Nat
  BY ValidationIds, TrailerType DEF Root
<1>6. ValidationSection(appendix) =
        [entries |-> free \o Reverse(listed), size |-> ValidationSize, root |-> Root]
  BY DEF ValidationSection, free, listed
<1> QED  BY <1>4, <1>5, <1>6 DEF Section

\* AddValidationData makes a longer file out of a file.
LEMMA ValidationExtends ==
  ASSUME doc \in File, responses \in Nat, AddValidationData
  PROVE  /\ doc' \in File
         /\ IsPrefix(doc.objs, doc'.objs) /\ IsPrefix(doc.sections, doc'.sections)
<1>1. PICK decodes \in BOOLEAN :
        doc' = [doc EXCEPT !.objs = @ \o Appendix(decodes),
                           !.sections = Append(@, ValidationSection(Appendix(decodes)))]
  BY DEF AddValidationData, KeyDecodes
<1> DEFINE appendix == Appendix(decodes)
           section1 == ValidationSection(appendix)
<1>2. appendix \in Seq(Object)
  BY AppendixType DEF AddValidationData
<1> HIDE DEF appendix
<1>3. section1 \in Section
  BY <1>2, ValidationSectionType
<1> HIDE DEF section1
<1>4. doc.objs \in Seq(Object) /\ doc.sections \in Seq(Section)
  BY DEF File
<1>5. /\ doc'.objs = doc.objs \o appendix
      /\ doc'.sections = Append(doc.sections, section1)
      /\ doc'.xref = doc.xref
      /\ doc' = [doc EXCEPT !.objs = doc.objs \o appendix,
                            !.sections = Append(doc.sections, section1)]
  BY <1>1 DEF appendix, section1, File
<1>6. doc.objs \o appendix \in Seq(Object)
  BY <1>2, <1>4, ConcatProperties
<1>7. Append(doc.sections, section1) \in Seq(Section) \ {<<>>}
  BY <1>3, <1>4, AppendProperties
<1>8. doc' \in File
  BY <1>5, <1>6, <1>7 DEF File
<1>9. IsPrefix(doc.objs, doc'.objs)
  BY <1>2, <1>4, <1>5, PrefixOfConcat
<1>10. IsPrefix(doc.sections, doc'.sections)
  BY <1>3, <1>4, <1>5 DEF IsPrefix
<1> QED  BY <1>8, <1>9, <1>10

-----------------------------------------------------------------------------
(* The steps.                                                              *)

\* What SignStep does to the request and to the counter of attempts.
LEMMA StepShape ==
  ASSUME TypeOK, Step, pc' # "signature"
  PROVE  /\ req' = req
         /\ pc' \notin {"idle", "attempt"} => pc # "attempt" /\ attempt' = attempt
         /\ pc' = "attempt" => pc # "attempt" /\ attempt' = attempt + 1
<1>1. CASE EnvironmentError \/ GiveUp \/ RejectVisible \/ PageMissing
  BY <1>1 DEF EnvironmentError, GiveUp, RejectVisible, PageMissing, ReturnError
<1>2. CASE SignatureTooLong
  BY <1>2 DEF SignatureTooLong, NextAttempt
<1>3. CASE ReplaceSignature
  BY <1>3 DEF ReplaceSignature
<1>4. CASE \/ AddSignature \/ AddImage \/ AddMask \/ AddAppearance \/ AddWidget
  BY <1>4 DEF AddSignature, AddImage, AddMask, AddAppearance, AddWidget
<1>5. CASE \/ AddFieldAppearance \/ SkipFieldAppearance \/ UpdateField \/ FieldsFilled
           \/ UpdatePage \/ AddCatalog \/ WriteXrefTable \/ WriteXrefStream
  BY <1>5 DEF AddFieldAppearance, SkipFieldAppearance, UpdateField, FieldsFilled,
              UpdatePage, AddCatalog, WriteXrefTable, WriteXrefStream
<1>6. CASE BeginAttempt
  BY <1>6 DEF BeginAttempt
<1> QED  BY <1>1, <1>2, <1>3, <1>4, <1>5, <1>6 DEF Step

\* A step of signing keeps what was delivered at the front of the buffer.
LEMMA BufferGrows ==
  ASSUME LTIInv, doc' \in File, stored' = stored,
         IsPrefix(doc.objs, doc'.objs), IsPrefix(doc.sections, doc'.sections)
  PROVE  BufferExtends'
<1>1. /\ stored.objs \in Seq(Object) /\ stored.sections \in Seq(Section)
      /\ doc.objs \in Seq(Object) /\ doc.sections \in Seq(Section)
      /\ doc'.objs \in Seq(Object) /\ doc'.sections \in Seq(Section)
  BY DEF LTIInv, LTTypeOK, TypeOK, File
<1>2. IsPrefix(stored.objs, doc'.objs)
  BY <1>1, PrefixTransitive DEF LTIInv, BufferExtends
<1>3. IsPrefix(stored.sections, doc'.sections)
  BY <1>1, PrefixTransitive DEF LTIInv, BufferExtends
<1> QED  BY <1>2, <1>3 DEF BufferExtends

\* The document of the caller, when it is the buffer, begins with itself.
LEMMA BufferIsStored ==
  ASSUME stored' \in File, doc' = stored'
  PROVE  BufferExtends'
<1>1. stored'.objs \in Seq(Object) /\ stored'.sections \in Seq(Section)
  BY DEF File
<1> QED  BY <1>1 DEF BufferExtends, IsPrefix

\* Calls that start to sign.
LEMMA StartKeepsInv ==
  ASSUME LTIInv, NEW r \in Request, StartSign(r), stored' = stored,
         call' \in Calls, responses' \in 0..(MaxRetries * MaxResponses),
         \/ phase' = "sign" /\ responses' = 0
         \/ phase' = "timestamp" /\ r.certType = "TimeStamp"
  PROVE  LTIInv'
<1>1. /\ doc' = doc /\ doc \in File /\ req' = r /\ attempt' = 0 /\ pc' = "attempt"
      /\ ResetIncrementalState
  BY DEF StartSign, LTIInv, LTTypeOK, TypeOK
<1>2. IInv'
  <2>1. attempt' \in 0..MaxRetries
    BY <1>1, BoundsAssumption
  <2> QED  BY <1>1, <2>1, ResetKeepsIInv
<1>3. LTTypeOK'
  BY <1>2 DEF IInv, LTIInv, LTTypeOK, Phases
<1>4. BufferExtends'
  BY <1>1 DEF LTIInv, BufferExtends
<1>5. ResponsesBounded'
  <2>1. 0 * MaxResponses = 0
    BY ChainAssumption
  <2> QED  BY <1>1, <2>1 DEF ResponsesBounded
<1> QED  BY <1>1, <1>2, <1>3, <1>4, <1>5 DEF LTIInv

\* Steps outside the signing pipeline: nothing of its state but the buffer changes.
LEMMA OutsideKeepsInv ==
  ASSUME LTIInv, pc = "idle", UNCHANGED <<pc, req, attempt, context>>, doc' \in File,
         stored' \in File, BufferExtends', call' \in Calls,
         phase' \in Phases \ {"sign", "timestamp"}, phase' = "idle" => doc' = stored',
         responses' \in 0..(MaxRetries * MaxResponses)
  PROVE  LTIInv'
<1>1. ~Working /\ ~Working' /\ pc' # "mask"
  BY DEF Working
<1>2. Cleared /\ Cleared' /\ todo' = {}
  BY <1>1 DEF LTIInv, IInv, Cleared, context
<1>3. TypeOK'
  BY DEF LTIInv, LTTypeOK, TypeOK, context
<1>4. TodoInFields'
  BY <1>2 DEF TodoInFields
<1>5. IInv'
  BY <1>1, <1>2, <1>3, <1>4 DEF IInv
<1> QED  BY <1>3, <1>5 DEF LTIInv, LTTypeOK, ResponsesBounded

-----------------------------------------------------------------------------
(* The invariant holds.                                                    *)

\* Before the first call the buffer is the document of the caller.
LEMMA LTInitInv == LTInit => LTIInv
<1> SUFFICES ASSUME LTInit PROVE LTIInv
  OBVIOUS
<1>1. IInv /\ TypeOK
  BY InitIInv DEF LTInit, IInv
<1>2. stored \in File /\ doc = stored /\ pc = "idle" /\ phase = "idle"
  BY <1>1 DEF LTInit, Init, TypeOK
<1>3. 0 \in 0..(MaxRetries * MaxResponses)
  BY ChainAssumption, BoundsAssumption, BoundGrows
<1>4. LTTypeOK
  BY <1>1, <1>2, <1>3 DEF LTInit, LTTypeOK, Calls, Phases
<1>5. BufferExtends
  <2>1. stored.objs \in Seq(Object) /\ stored.sections \in Seq(Section)
    BY <1>2 DEF File
  <2> QED  BY <1>2, <2>1 DEF BufferExtends, IsPrefix
<1> QED  BY <1>1, <1>2, <1>4, <1>5 DEF LTIInv, ResponsesBounded

\* Every part of every call, and every start of one, keeps the invariant.
LEMMA LTStepInv == LTIInv /\ [LTNext]_ltVars => LTIInv'
<1> SUFFICES ASSUME LTIInv, [LTNext]_ltVars PROVE LTIInv'
  OBVIOUS
<1> DEFINE bound == MaxRetries * MaxResponses
<1>1. /\ IInv /\ LTTypeOK /\ TypeOK /\ doc \in File /\ stored \in File
      /\ responses \in 0..bound /\ call \in Calls /\ attempt \in 0..MaxRetries
  BY DEF LTIInv, LTTypeOK, TypeOK
<1>2. /\ MaxResponses \in Nat /\ MaxRetries \in Nat \ {0} /\ bound \in Nat
      /\ responses \in Nat /\ attempt \in Nat
  <2>1. MaxResponses \in Nat /\ MaxRetries \in Nat \ {0}
    BY ChainAssumption, BoundsAssumption
  <2>2. bound \in Nat
    BY <2>1, BoundGrows
  <2> QED  BY <1>1, <2>1, <2>2
<1>3. CASE UNCHANGED ltVars
  <2>1. IInv'
    BY <1>1, <1>3, StepIInv DEF ltVars
  <2> QED  BY <1>3, <2>1 DEF LTIInv, LTTypeOK, IInv, BufferExtends, ResponsesBounded, ltVars, vars
<1>4. ASSUME NEW c \in Calls \ {"AddValidationData"}, NEW r \in Requests, StartCall(c, r)
      PROVE  LTIInv'
  <2>1. r \in Request /\ 0 \in 0..bound
    BY <1>2, RequestsAssumption
  <2> QED  BY <1>4, <2>1, StartKeepsInv DEF StartCall
<1>5. CASE FetchResponses
  <2>1. /\ pc = "attempt" /\ pc' = "signature" /\ attempt < MaxRetries
        /\ UNCHANGED <<doc, req, attempt, stored, call, phase>>
    BY <1>5 DEF FetchResponses, BeginAttempt, RetriesLeft
  <2>2. IInv'
    BY <1>1, <1>5, StepIInv DEF FetchResponses, Next, Step
  <2>3. \/ responses' = responses
        \/ req.certType # "TimeStamp" /\ \E n \in 0..MaxResponses : responses' = responses + n
    BY <1>5 DEF FetchResponses
  <2>4. /\ (attempt + 1) * MaxResponses = attempt * MaxResponses + MaxResponses
        /\ (attempt + 1) * MaxResponses <= bound
        /\ attempt * MaxResponses \in Nat /\ (attempt + 1) * MaxResponses \in Nat
    <3>1. attempt + 1 \in Nat /\ attempt + 1 <= MaxRetries /\ attempt <= attempt
      BY <1>2, <2>1
    <3> QED  BY <1>2, <3>1, BoundGrows
  <2>5. phase = "sign" => responses <= attempt * MaxResponses
    BY <2>1 DEF LTIInv, ResponsesBounded
  <2>6. phase = "sign" => responses' \in 0..bound /\ responses' <= (attempt + 1) * MaxResponses
    BY <1>2, <2>3, <2>4, <2>5
  <2>7. phase # "sign" => responses' = responses
    BY <2>1, <2>3 DEF LTIInv
  <2>8. LTTypeOK'
    BY <1>1, <2>1, <2>2, <2>6, <2>7 DEF LTTypeOK, IInv
  <2>9. BufferExtends' /\ ResponsesBounded'
    BY <2>1, <2>6 DEF LTIInv, BufferExtends, ResponsesBounded
  <2> QED  BY <2>1, <2>2, <2>8, <2>9 DEF LTIInv
<1>6. CASE SignStep
  <2>1. Step /\ pc # "idle" /\ pc' # "signature" /\ UNCHANGED <<stored, call, responses>>
    BY <1>6 DEF SignStep
  <2>2. IInv' /\ TypeOK' /\ doc' \in File /\ attempt' \in 0..MaxRetries
    BY <1>1, <2>1, StepIInv DEF Next, IInv, TypeOK
  <2>3. BufferExtends'
    <3>1. IsPrefix(doc.objs, doc'.objs) /\ IsPrefix(doc.sections, doc'.sections)
      BY <1>1, <2>1, StepAppends DEF Next
    <3> QED  BY <2>1, <2>2, <3>1, BufferGrows
  <2>4. phase \in {"sign", "timestamp"}
    BY <2>1 DEF LTIInv
  <2>5. /\ pc' # "idle" => phase' = phase
        /\ pc' = "idle" => phase' \in {"failed", "deliver", "validate", "archive"}
    BY <1>6 DEF SignStep, AfterSigning, AfterValidation
  <2>6. LTTypeOK'
    BY <1>1, <2>1, <2>2, <2>4, <2>5 DEF LTTypeOK, Phases
  <2>7. req' = req
    BY <1>1, <2>1, StepShape
  <2>8. ResponsesBounded'
    <3> SUFFICES ASSUME phase' = "sign"
                 PROVE  responses <= (IF pc' = "attempt" THEN attempt' ELSE attempt' + 1) * MaxResponses
      BY <2>1 DEF ResponsesBounded
    <3>1. pc' # "idle" /\ phase = "sign"
      BY <2>5
    <3>2. pc # "attempt" /\ attempt + 1 = (IF pc' = "attempt" THEN attempt' ELSE attempt' + 1)
      BY <1>1, <2>1, <3>1, StepShape
    <3>3. responses <= (attempt + 1) * MaxResponses
      BY <3>1, <3>2 DEF LTIInv, ResponsesBounded
    <3> QED  BY <3>2, <3>3
  <2> QED  BY <2>2, <2>3, <2>4, <2>5, <2>6, <2>7, <2>8 DEF LTIInv
<1>7. CASE StartArchive
  <2>1. ArchiveRequest \in Request /\ ArchiveRequest.certType = "TimeStamp"
    BY DEF ArchiveRequest, Request
  <2>2. /\ StartSign(ArchiveRequest) /\ phase' = "timestamp"
        /\ UNCHANGED <<stored, call, responses>>
    BY <1>7 DEF StartArchive
  <2> HIDE DEF bound
  <2> QED  BY <1>1, <2>1, <2>2, StartKeepsInv DEF bound
<1>8. CASE AddValidationData
  <2>1. pc = "idle" /\ UNCHANGED <<pc, req, attempt, context, stored, call, responses>>
    BY <1>8 DEF AddValidationData, LTIInv
  <2>2. doc' \in File /\ IsPrefix(doc.objs, doc'.objs) /\ IsPrefix(doc.sections, doc'.sections)
    BY <1>1, <1>2, <1>8, ValidationExtends
  <2>3. BufferExtends'
    BY <2>1, <2>2, BufferGrows
  <2>4. phase' \in {"archive", "deliver"}
    BY <1>8 DEF AddValidationData, AfterValidation
  <2> QED  BY <1>1, <2>1, <2>2, <2>3, <2>4, OutsideKeepsInv DEF Phases
<1>9. CASE StartValidation
  <2>1. pc = "idle" /\ phase' = "validate" /\ UNCHANGED <<vars, stored>>
    BY <1>9 DEF StartValidation, LTIInv
  <2>2. responses' \in 0..bound
    <3>1. responses' \in 0..MaxResponses
      BY <1>9 DEF StartValidation
    <3>2. 1 * MaxResponses <= bound /\ 1 * MaxResponses = MaxResponses
      BY <1>2, BoundGrows
    <3> QED  BY <1>2, <3>1, <3>2
  <2>3. BufferExtends'
    BY <2>1 DEF LTIInv, BufferExtends, vars
  <2>4. call' \in Calls
    BY <1>9 DEF StartValidation, Calls
  <2> QED  BY <1>1, <2>1, <2>2, <2>3, <2>4, OutsideKeepsInv DEF Phases, vars
<1>10. CASE Deliver
  <2>1. /\ pc = "idle" /\ phase' = "idle" /\ stored' = doc
        /\ UNCHANGED <<vars, call, responses>>
    BY <1>10 DEF Deliver, LTIInv
  <2>2. BufferExtends' /\ doc' = stored' /\ stored' \in File
    BY <1>1, <2>1, BufferIsStored DEF vars
  <2> QED  BY <1>1, <2>1, <2>2, OutsideKeepsInv DEF Phases, vars
<1>11. CASE Fail
  <2>1. pc = "idle" /\ phase' = "failed" /\ UNCHANGED <<vars, stored, call, responses>>
    BY <1>11 DEF Fail, LTIInv
  <2>2. BufferExtends'
    BY <2>1 DEF LTIInv, BufferExtends, vars
  <2> QED  BY <1>1, <2>1, <2>2, OutsideKeepsInv DEF Phases, vars
<1>12. CASE ReturnFailure
  <2>1. /\ pc = "idle" /\ phase' = "idle" /\ doc' = stored
        /\ UNCHANGED <<pc, req, attempt, context, stored, call, responses>>
    BY <1>12 DEF ReturnFailure, NextInput, LTIInv
  <2>2. BufferExtends' /\ doc' = stored' /\ stored' \in File
    BY <1>1, <2>1, BufferIsStored
  <2> QED  BY <1>1, <2>1, <2>2, OutsideKeepsInv DEF Phases
<1> QED
  BY <1>3, <1>4, <1>5, <1>6, <1>7, <1>8, <1>9, <1>10, <1>11, <1>12 DEF LTNext, LTStep

\* The invariant holds in every behaviour.
LEMMA LTSpecInv == LTSpec => []LTIInv
<1> QED  BY LTInitInv, LTStepInv, PTL DEF LTSpec

-----------------------------------------------------------------------------
(* What follows from it.                                                   *)

\* In every state of every sequence of calls the buffer and the caller's document
\* are well formed, what AddValidationData appends included, and a call has never
\* collected more responses than its attempts may fetch.
THEOREM LongTermTypeCorrect == LTSpec => []LTTypeOK
<1>1. LTIInv => LTTypeOK
  BY DEF LTIInv
<1> QED  BY <1>1, LTSpecInv, PTL

\* Whichever of Sign, SignLTV, SignLTA and AddValidationData are called, in whichever
\* order and failing wherever they may, nothing that the caller's document holds is
\* changed or removed: what was signed stays where it was.
THEOREM CallersDocumentOnlyGrows == LTSpec => StoredOnlyGrows
<1> DEFINE Kept == IsPrefix(stored.objs, stored'.objs) /\ IsPrefix(stored.sections, stored'.sections)
<1>1. ASSUME LTIInv, [LTNext]_ltVars
      PROVE  [Kept]_ltVars
  <2>1. CASE stored' = stored
    <3>1. stored.objs \in Seq(Object) /\ stored.sections \in Seq(Section)
      BY <1>1 DEF LTIInv, LTTypeOK, File
    <3> QED  BY <2>1, <3>1 DEF IsPrefix
  <2>2. CASE stored' = doc
    BY <1>1, <2>2 DEF LTIInv, BufferExtends
  <2>3. stored' = stored \/ stored' = doc
    BY <1>1 DEF LTNext, LTStep, ltVars, StartCall, FetchResponses, SignStep, AddValidationData,
                StartArchive, Deliver, Fail, ReturnFailure, StartValidation
  <2> QED  BY <2>1, <2>2, <2>3
<1> QED  BY <1>1, LTSpecInv, PTL DEF LTSpec, StoredOnlyGrows

-----------------------------------------------------------------------------
(* A document and what it was before.                                      *)

\* What a reference finds in both documents is of one kind, and the same unless it
\* is of a kind that is rewritten.
LEMMA FoundAgain ==
  ASSUME NEW f \in File, NEW g \in File, EntriesExact(f), EntriesExact(g), Revises(f, g),
         NEW r \in Ref, Resolves(f, r)
  PROVE  /\ Resolves(g, r) /\ Deref(g, r).kind = Deref(f, r).kind
         /\ Deref(f, r).kind \notin RewritableKinds \union {"Catalog"} => Deref(g, r) = Deref(f, r)
<1>1. r.gen = 0 /\ r.id \in InUse(f) /\ Deref(f, r) = Latest(f, r.id)
  BY ResolvesExactly
<1>2. r.id \in InUse(g)
  BY <1>1 DEF Revises
<1>3. Resolves(g, r) /\ Deref(g, r) = Latest(g, r.id)
  BY <1>1, <1>2, ResolvesExactly
<1> QED  BY <1>1, <1>3 DEF Revises

\* So it is when the kind is one of those that are kept; then it resolves, too.
LEMMA KindFoundAgain ==
  ASSUME NEW f \in File, NEW g \in File, EntriesExact(f), EntriesExact(g), Revises(f, g),
         NEW r \in Ref, Deref(f, r).kind \in SignatureKinds \union {"Widget", "DSS", "Stream"}
  PROVE  Resolves(f, r) /\ Resolves(g, r) /\ Deref(g, r) = Deref(f, r)
<1>1. Resolves(f, r)
  BY DEF Deref, Null, SignatureKinds
<1>2. Deref(f, r).kind \notin RewritableKinds \union {"Catalog"}
  BY DEF RewritableKinds, SignatureKinds
<1> QED  BY <1>1, <1>2, FoundAgain

LEMMA RevisesItself ==
  ASSUME NEW f
  PROVE  Revises(f, f)
BY DEF Revises

LEMMA RevisesTransitive ==
  ASSUME NEW f, NEW g, NEW h, Revises(f, g), Revises(g, h)
  PROVE  Revises(f, h)
<1>1. ASSUME NEW id \in InUse(f)
      PROVE  /\ id \in InUse(g) /\ id \in InUse(h)
             /\ Latest(g, id).kind = Latest(f, id).kind
             /\ Latest(h, id).kind = Latest(g, id).kind
             /\ Latest(f, id).kind \notin RewritableKinds \union {"Catalog"} =>
                  Latest(g, id) = Latest(f, id) /\ Latest(h, id) = Latest(g, id)
  BY DEF Revises
<1> QED  BY <1>1 DEF Revises

\* One revision after another keeps what both keep.
LEMMA KeepsLiveTransitive ==
  ASSUME NEW f, NEW g, NEW h, NEW R, NEW R1, NEW R2,
         Len(f.objs) \in Nat, Len(g.objs) \in Nat, Len(h.objs) \in Nat,
         Len(f.objs) <= Len(g.objs), Len(g.objs) <= Len(h.objs),
         KeepsLive(f, g, R1), KeepsLive(g, h, R2),
         R1 \subseteq R, R2 \intersect InUse(f) \subseteq R
  PROVE  KeepsLive(f, h, R)
<1>1. InUse(f) \subseteq InUse(h)
  BY DEF KeepsLive
<1>2. ASSUME NEW id \in InUse(f), Entry(h, id).pos # Entry(f, id).pos
      PROVE  id \in R
  <2>1. id \in InUse(g)
    BY DEF KeepsLive
  <2>2. CASE Entry(g, id).pos # Entry(f, id).pos
    BY <2>2 DEF KeepsLive
  <2>3. CASE Entry(g, id).pos = Entry(f, id).pos
    <3>1. Entry(h, id).pos # Entry(g, id).pos
      BY <1>2, <2>3
    <3>2. id \in R2
      BY <2>1, <3>1 DEF KeepsLive
    <3> QED  BY <3>2
  <2> QED  BY <2>2, <2>3
<1>3. ASSUME NEW id \in InUse(h)
      PROVE  \/ id \in InUse(f) /\ Entry(h, id).pos = Entry(f, id).pos
             \/ Entry(h, id).pos \in (Len(f.objs) + 1)..Len(h.objs)
  <2>1. CASE Entry(h, id).pos \in (Len(g.objs) + 1)..Len(h.objs)
    BY <2>1
  <2>2. CASE id \in InUse(g) /\ Entry(h, id).pos = Entry(g, id).pos
    <3>1. \/ id \in InUse(f) /\ Entry(g, id).pos = Entry(f, id).pos
          \/ Entry(g, id).pos \in (Len(f.objs) + 1)..Len(g.objs)
      BY <2>2 DEF KeepsLive
    <3> QED  BY <2>2, <3>1
  <2> QED  BY <2>1, <2>2 DEF KeepsLive
<1> QED  BY <1>1, <1>2, <1>3 DEF KeepsLive

\* Validation data after a signature: only the catalog that the signature brought is
\* rewritten.
LEMMA SignedThenValidated ==
  ASSUME NEW f \in File, NEW g \in File, NEW h \in File, SignedOnce(f, g), Validated(g, h)
  PROVE  SignedOnce(f, h)
<1>1. Len(f.objs) \in Nat /\ Len(g.objs) \in Nat /\ Len(h.objs) \in Nat
  BY DEF File
<1>2. /\ Len(g.objs) > Len(f.objs) /\ Len(h.objs) > Len(g.objs)
      /\ KeepsLive(f, g, RewritableIds) /\ KeepsLive(g, h, {Trailer(g).root.id})
      /\ Trailer(g).root.id \in InUse(g) \ InUse(f) /\ Trailer(h).root = Trailer(g).root
  BY DEF SignedOnce, SignedOver, Validated
<1>3. KeepsLive(f, h, RewritableIds)
  BY <1>1, <1>2, KeepsLiveTransitive
<1>4. InUse(g) \subseteq InUse(h)
  BY <1>2 DEF KeepsLive
<1>5. SignedOver(f, h)
  BY <1>1, <1>2, <1>3, <1>4 DEF SignedOver
<1> QED  BY <1>4, <1>5 DEF SignedOnce, Validated

\* A second signature after the first.
LEMMA SignedThenSigned ==
  ASSUME NEW f \in File, NEW g \in File, NEW h \in File, WellFormed(f),
         SignedOnce(f, g), SignedOnce(g, h)
  PROVE  SignedTwice(f, h)
<1>1. Len(f.objs) \in Nat /\ Len(g.objs) \in Nat /\ Len(h.objs) \in Nat
  BY DEF File
<1>2. /\ Len(g.objs) > Len(f.objs) /\ Len(h.objs) > Len(g.objs)
      /\ KeepsLive(f, g, RewritableIds) /\ KeepsLive(g, h, RewritableIds)
      /\ Trailer(h).root.id \in InUse(h) \ InUse(g)
  BY DEF SignedOnce, SignedOver
<1>3. KeepsLive(f, h, RewritableIds)
  BY <1>1, <1>2, KeepsLiveTransitive
<1>4. InUse(f) \subseteq InUse(g) /\ InUse(g) \subseteq InUse(h)
  BY <1>2 DEF KeepsLive
<1>5. SignedOver(f, h)
  BY <1>1, <1>2, <1>3, <1>4 DEF SignedOver
<1>6. PICK w \in InUse(g) \ InUse(f) : FieldIdsOf(g) = Append(FieldIdsOf(f), w)
  BY DEF SignedOnce
<1>7. PICK t \in InUse(h) \ InUse(g) : FieldIdsOf(h) = Append(FieldIdsOf(g), t)
  BY DEF SignedOnce
<1>8. FieldIdsOf(h) = FieldIdsOf(f) \o <<w, t>>
  <2> DEFINE old == FieldIdsOf(f)
  <2>1. old \in Seq(Nat) /\ w \in Nat /\ t \in Nat
    BY <1>6, <1>7, AbstractFacts, InUseFacts
  <2> HIDE DEF old
  <2>2. Append(Append(old, w), t) = old \o <<w, t>>
    BY <2>1
  <2> QED  BY <1>6, <1>7, <2>2 DEF old
<1> QED  BY <1>4, <1>5, <1>6, <1>7, <1>8 DEF SignedTwice

\* The latest catalog is one of its texts.
LEMMA CatalogIsText ==
  ASSUME NEW f \in File, WellFormed(f)
  PROVE  /\ Trailer(f).root \in Ref /\ Trailer(f).root.gen = 0
         /\ Trailer(f).root.id \in InUse(f)
         /\ Catalog(f) = Latest(f, Trailer(f).root.id) /\ Catalog(f) \in Object
         /\ \E p \in TextsOf(f, Trailer(f).root) : Catalog(f) = f.objs[p]
<1> DEFINE root == Trailer(f).root
<1>1. root \in Ref /\ Resolves(f, root) /\ EntriesExact(f) /\ ReferencesFound(f)
  BY TrailerType DEF WellFormed, ReferencesFound
<1>2. /\ root.gen = 0 /\ root.id \in InUse(f)
      /\ Catalog(f) = Latest(f, root.id) /\ Catalog(f) \in Object
  BY <1>1, FoundRefers DEF Catalog
<1>3. /\ Entry(f, root.id).pos \in DOMAIN f.objs
      /\ Latest(f, root.id).id = root.id /\ Latest(f, root.id).gen = 0
  BY <1>1, <1>2, LatestFacts
<1>4. Entry(f, root.id).pos \in TextsOf(f, root)
  BY <1>2, <1>3 DEF TextsOf, Latest
<1> QED  BY <1>1, <1>2, <1>4 DEF Latest

\* What the catalog of an extensible document refers to.
LEMMA CatalogRefers ==
  ASSUME NEW f \in File, WellFormed(f), CatalogExact(f)
  PROVE  /\ Catalog(f).kids \in Seq(Ref) /\ Catalog(f).dss \in Seq(Ref)
         /\ \A i \in DOMAIN Catalog(f).kids : Catalog(f).kids[i] \in Ref /\ Resolves(f, Catalog(f).kids[i])
         /\ \A i \in DOMAIN Catalog(f).dss :
              Catalog(f).dss[i] \in Ref /\ Deref(f, Catalog(f).dss[i]).kind = "DSS"
         /\ Catalog(f).dss # <<>> =>
              Last(Catalog(f).dss) \in Ref /\ Deref(f, Last(Catalog(f).dss)).kind = "DSS"
<1>1. PICK p \in TextsOf(f, Trailer(f).root) : Catalog(f) = f.objs[p]
  BY CatalogIsText
<1>2. Catalog(f) \in Object
  BY CatalogIsText
<1>3. Catalog(f).kids \in Seq(Ref) /\ Catalog(f).dss \in Seq(Ref)
  BY <1>2, RefsType
<1>4. \A i \in DOMAIN Catalog(f).kids : Catalog(f).kids[i] \in Ref /\ Resolves(f, Catalog(f).kids[i])
  BY <1>1, <1>2, <1>3, RefsType DEF CatalogExact
<1>5. \A i \in DOMAIN Catalog(f).dss :
        Catalog(f).dss[i] \in Ref /\ Deref(f, Catalog(f).dss[i]).kind = "DSS"
  BY <1>1, <1>3 DEF CatalogExact
<1>6. Catalog(f).dss # <<>> => Len(Catalog(f).dss) \in DOMAIN Catalog(f).dss
  <2> DEFINE dss == Catalog(f).dss
  <2>1. dss \in Seq(Ref)
    BY <1>3
  <2> HIDE DEF dss
  <2>2. dss # <<>> => Len(dss) \in DOMAIN dss
    BY <2>1
  <2> QED  BY <2>2 DEF dss
<1> QED  BY <1>3, <1>4, <1>5, <1>6 DEF Last

\* The signatures of a document are found in what it becomes, if its fields are kept.
LEMMA SignaturesFoundAgain ==
  ASSUME NEW f \in File, NEW g \in File, WellFormed(f), EntriesExact(g), Revises(f, g),
         CatalogExact(f), SignaturesFound(f),
         \A i \in DOMAIN Catalog(f).kids :
           i \in DOMAIN Catalog(g).kids /\ Catalog(g).kids[i] = Catalog(f).kids[i],
         NEW p \in DOMAIN f.objs, f.objs[p].kind \in SignatureKinds
  PROVE  \E i \in ExistingSignatures(g) : SignatureAt(g, i) = f.objs[p]
<1>1. PICK i \in ExistingSignatures(f) : SignatureAt(f, i) = f.objs[p]
  BY DEF SignaturesFound, SignatureKinds
<1> DEFINE field == Catalog(f).kids[i]
           value == Under(Deref(f, field), "V")
<1>2. i \in DOMAIN Catalog(f).kids /\ Deref(f, field).kind = "Widget"
  BY <1>1 DEF ExistingSignatures
<1>3. field \in Ref /\ EntriesExact(f)
  BY <1>2, CatalogRefers DEF WellFormed
<1>4. i \in DOMAIN Catalog(g).kids /\ Catalog(g).kids[i] = field
  BY <1>2
<1>5. SignatureAt(f, i) = Deref(f, value)
  BY DEF SignatureAt
<1> HIDE DEF field
<1>6. Deref(g, field) = Deref(f, field)
  BY <1>2, <1>3, KindFoundAgain
<1>7. value \in Ref /\ Deref(f, value).kind \in SignatureKinds
  <2>1. Deref(f, field) \in Object
    BY DerefType
  <2> QED  BY <1>1, <1>5, <2>1, UnderType
<1>8. Under(Deref(g, field), "V") = value
  BY <1>6
<1> HIDE DEF value
<1>9. Deref(g, value) = Deref(f, value)
  BY <1>3, <1>7, KindFoundAgain
<1>10. i \in ExistingSignatures(g)
  BY <1>2, <1>4, <1>6 DEF ExistingSignatures
<1>11. SignatureAt(g, i) = Deref(g, value)
  BY <1>4, <1>8 DEF SignatureAt
<1> QED  BY <1>1, <1>5, <1>9, <1>10, <1>11

-----------------------------------------------------------------------------
(* What a signature does to an extensible document.                        *)

\* Only pages and fields that are filled are rewritten.
LEMMA SignedFileRevises ==
  ASSUME IInv, pc = "replace", WellFormed(doc), CallInv
  PROVE  /\ Revises(doc, SignedFile)
         /\ \A id \in InUse(doc) :
              Latest(doc, id).kind \notin RewritableKinds => id \notin EntryIds(section)
<1> DEFINE g == SignedFile
<1>1. /\ InUse(g) = InUse(doc) \union EntryIds(section)
      /\ \A id \in EntryIds(section) : \E p \in Appended : buf[p].id = id
      /\ \A id \in InUse(doc) \ EntryIds(section) : Latest(g, id) = Latest(doc, id)
      /\ \A id \in InUse(doc) : Latest(g, id).kind = Latest(doc, id).kind
  BY SignedFileReads
<1>2. RewritesKept
  BY DEF CallInv, CoreInv
<1>3. \A id \in InUse(doc) : Latest(doc, id).kind \notin RewritableKinds => id \notin EntryIds(section)
  BY <1>1, <1>2 DEF RewritesKept
<1> QED  BY <1>1, <1>3 DEF Revises

\* What the objects of the revision are: old ones, ones that are listed, and the
\* object of the stream that lists them.
LEMMA SignedFileObjects ==
  ASSUME IInv, pc = "replace", WellFormed(doc), CallInv
  PROVE  /\ SignedFile.objs = buf /\ DOMAIN buf = DOMAIN doc.objs \union Appended
         /\ \A p \in DOMAIN doc.objs : buf[p] = doc.objs[p] /\ p \notin Appended
         /\ \A p \in Appended :
              /\ buf[p].id \in EntryIds(section) \/ (buf[p].kind = "XRef" /\ buf[p].refs = {})
              /\ RefersWithin(buf[p], InUse(SignedFile))
         /\ LastObjectID(doc) \in Nat /\ LastObjectID(SignedFile) \in Nat
         /\ \A id \in InUse(SignedFile) : id \in Nat /\ id < LastObjectID(SignedFile)
<1>1. /\ Allocating /\ EntriesExact(doc) /\ EntriesKnown /\ SectionKnown /\ doc \in File /\ Copied
  BY DEF IInv, Working, TypeOK, WellFormed, CallInv, CoreInv, Allocating
<1>2. /\ Len(doc.objs) \in Nat /\ Len(buf) \in Nat /\ Len(doc.objs) <= Len(buf)
      /\ DOMAIN buf = 1..Len(buf) /\ DOMAIN doc.objs = 1..Len(doc.objs) /\ LastObjectID(doc) \in Nat
  BY <1>1, IdsApart DEF File
<1>3. SignedFile.objs = buf /\ SignedFile \in File /\ InUse(SignedFile) = InUse(doc) \union EntryIds(section)
  BY SignedFileAppends, SignedFileReads
<1>4. /\ DOMAIN buf = DOMAIN doc.objs \union Appended
      /\ \A p \in DOMAIN doc.objs : buf[p] = doc.objs[p] /\ p \notin Appended
  BY <1>1, <1>2 DEF Appended, Copied
<1>5. \A p \in Appended :
        /\ buf[p].id \in EntryIds(section) \/ (buf[p].kind = "XRef" /\ buf[p].refs = {})
        /\ RefersWithin(buf[p], InUse(SignedFile))
  BY <1>1, <1>3 DEF SectionKnown
<1>6. LastObjectID(SignedFile) \in Nat
  BY <1>3, LastObjectIDAboveInUse
<1>7. \A id \in InUse(SignedFile) : id \in Nat /\ id < LastObjectID(SignedFile)
  BY <1>3, LastObjectIDAboveInUse, InUseFacts
<1> QED  BY <1>2, <1>3, <1>4, <1>5, <1>6, <1>7

\* Ids that the revision leaves unlisted are not given away again.
LEMMA SignedFileIdsExact ==
  ASSUME IInv, pc = "replace", WellFormed(doc), CallInv, IdsExact(doc)
  PROVE  IdsExact(SignedFile)
<1> DEFINE g == SignedFile
<1>1. /\ g.objs = buf /\ DOMAIN buf = DOMAIN doc.objs \union Appended
      /\ \A p \in DOMAIN doc.objs : buf[p] = doc.objs[p]
      /\ LastObjectID(doc) \in Nat /\ LastObjectID(g) \in Nat
      /\ \A id \in InUse(g) : id \in Nat /\ id < LastObjectID(g)
  BY SignedFileObjects
<1>2. /\ Allocating /\ EntriesExact(doc) /\ EntriesKnown /\ ObjectsKnown /\ SectionKnown
      /\ doc \in File /\ IdsKnown
  BY DEF IInv, Working, TypeOK, WellFormed, CallInv, CoreInv, Allocating
<1>3. EntryIds(section) \subseteq InUse(g)
  BY SignedFileReads
<1> HIDE DEF g
<1>4. \A id \in Allocated : id \in Nat /\ id > LastObjectID(doc) /\ id <= LastObjectID(g)
  <2> TAKE id \in Allocated
  <2>1. id \in Nat /\ id > LastObjectID(doc)
    BY <1>1, <1>2, IdsApart DEF Allocated
  <2>2. id \in EntryIds(section) \/ id - 1 \in EntryIds(section)
    BY <1>2 DEF SectionKnown
  <2> QED  BY <1>1, <1>3, <2>1, <2>2
<1>5. LastObjectID(doc) <= LastObjectID(g)
  <2>1. ids.catalog \in Allocated
    BY <1>2 DEF IdsKnown
  <2> QED  BY <1>1, <1>4, <2>1
<1>6. SUFFICES ASSUME NEW p \in DOMAIN buf
               PROVE  buf[p].id <= LastObjectID(g)
  BY <1>1 DEF IdsExact, g
<1>7. CASE p \in DOMAIN doc.objs
  <2>1. doc.objs[p].id \in Nat
    <3>1. doc.objs[p] \in Object
      BY <1>2, <1>7 DEF File
    <3> QED  BY <3>1 DEF Object
  <2> QED  BY <1>1, <1>5, <1>7, <2>1 DEF IdsExact
<1>8. CASE p \in Appended
  <2>1. buf[p].id \in Allocated \union Rewritten
    BY <1>2, <1>8 DEF ObjectsKnown
  <2>2. Rewritten \subseteq EntryIds(section)
    BY <1>2 DEF SectionKnown
  <2>3. buf[p].id \in EntryIds(section) => buf[p].id <= LastObjectID(g)
    BY <1>1, <1>3
  <2> QED  BY <1>4, <2>1, <2>2, <2>3
<1> QED  BY <1>1, <1>6, <1>7, <1>8

\* The catalog that a signature brings is the only text of its id, and repeats the
\* store that a reader knew.
LEMMA SignedFileCatalog ==
  ASSUME IInv, pc = "replace", WellFormed(doc), CallInv, IdsExact(doc), CatalogExact(doc)
  PROVE  /\ Catalog(SignedFile).dss = KnownStores(doc)
         /\ \A p \in TextsOf(SignedFile, Trailer(SignedFile).root) :
              SignedFile.objs[p].dss = KnownStores(doc)
         /\ CatalogExact(SignedFile)
<1> DEFINE g == SignedFile
<1>1. /\ g.objs = buf /\ DOMAIN buf = DOMAIN doc.objs \union Appended
      /\ \A p \in DOMAIN doc.objs : buf[p] = doc.objs[p]
      /\ \A p \in Appended : RefersWithin(buf[p], InUse(g))
  BY SignedFileObjects
<1>2. /\ Allocating /\ EntriesExact(doc) /\ EntriesKnown /\ IdsKnown /\ ObjectsMade
      /\ doc \in File
  BY DEF IInv, Working, TypeOK, WellFormed, CallInv, CoreInv, Allocating
<1>3. /\ Trailer(g).root = New(ids.catalog)
      /\ Deref(g, New(ids.catalog)) = Latest(g, ids.catalog)
      /\ IsCatalogWith(Latest(g, ids.catalog), Append(Fields, New(ids.widget)), KnownStores(doc))
  BY SignedFileHolds
<1>4. g \in File /\ EntriesExact(g) /\ Revises(doc, g)
  BY SignedFileReads, SignedFileRevises
<1>5. buf \in Seq(Object)
  BY DEF IInv, TypeOK
<1> HIDE DEF g
<1>6. /\ Catalog(g).dss = KnownStores(doc)
      /\ Catalog(g).kids = Append(Fields, New(ids.widget))
  BY <1>3 DEF Catalog, IsCatalogWith
<1>7. ids.catalog \in Nat /\ ids.catalog > LastObjectID(doc) /\ LastObjectID(doc) \in Nat
  <2>1. ids.catalog \in Allocated
    BY <1>2 DEF IdsKnown
  <2>2. LastObjectID(doc) \in Nat /\ Len(newXrefEntries) \in Nat
    BY <1>2, IdsApart
  <2> QED  BY <2>1, <2>2 DEF Allocated
<1>8. ASSUME NEW p \in TextsOf(g, Trailer(g).root)
      PROVE  p \in Appended /\ buf[p].id = ids.catalog /\ g.objs[p] = buf[p]
  <2>1. p \in DOMAIN buf /\ buf[p].id = ids.catalog
    BY <1>1, <1>3 DEF TextsOf, New
  <2>2. p \notin DOMAIN doc.objs
    <3> SUFFICES ASSUME p \in DOMAIN doc.objs PROVE FALSE
      OBVIOUS
    <3>1. doc.objs[p].id = ids.catalog
      BY <1>1, <2>1
    <3> QED  BY <1>7, <3>1 DEF IdsExact
  <2> QED  BY <1>1, <2>1, <2>2
<1>9. \A p \in TextsOf(g, Trailer(g).root) :
        IsCatalogWith(g.objs[p], Append(Fields, New(ids.widget)), KnownStores(doc))
  BY <1>2, <1>8 DEF ObjectsMade
<1>10. \A i \in DOMAIN KnownStores(doc) : Deref(g, KnownStores(doc)[i]).kind = "DSS"
  <2>1. CASE Catalog(doc).dss = <<>>
    BY <2>1 DEF KnownStores
  <2>2. CASE Catalog(doc).dss # <<>>
    <3> DEFINE r == Last(Catalog(doc).dss)
    <3>1. r \in Ref /\ Deref(doc, r).kind = "DSS"
      BY <1>2, <2>2, CatalogRefers
    <3> HIDE DEF r
    <3>2. Deref(g, r).kind = "DSS"
      BY <1>2, <1>4, <3>1, KindFoundAgain
    <3>3. KnownStores(doc) = <<r>>
      BY <2>2 DEF KnownStores, r
    <3> QED  BY <3>2, <3>3
  <2> QED  BY <2>1, <2>2
<1>11. ASSUME NEW p \in TextsOf(g, Trailer(g).root), NEW r \in RefsOf(g.objs[p])
       PROVE  Resolves(g, r)
  <2>1. g.objs[p] \in Object
    BY <1>1, <1>5, <1>8
  <2>2. r \in Ref
    BY <2>1, RefsType
  <2>3. RefersWithin(g.objs[p], InUse(g))
    BY <1>1, <1>8
  <2>4. r.gen = 0 /\ r.id \in InUse(g)
    BY <2>3 DEF RefersWithin
  <2> QED  BY <1>4, <2>2, <2>4, ResolvesExactly
<1>12. CatalogExact(g)
  BY <1>6, <1>9, <1>10, <1>11 DEF CatalogExact, IsCatalogWith
<1>13. \A p \in TextsOf(g, Trailer(g).root) : g.objs[p].dss = KnownStores(doc)
  BY <1>9 DEF IsCatalogWith
<1> QED  BY <1>6, <1>12, <1>13 DEF g

\* The last /Contents is the one of the signature, or comes after it.
LEMMA SignedFileContents ==
  ASSUME IInv, pc = "replace", WellFormed(doc), CallInv, ContentsExact(doc)
  PROVE  ContentsExact(SignedFile)
<1> DEFINE g == SignedFile
<1>1. /\ g.objs = buf /\ DOMAIN buf = DOMAIN doc.objs \union Appended
      /\ \A p \in DOMAIN doc.objs : buf[p] = doc.objs[p]
      /\ \A p \in Appended :
           buf[p].id \in EntryIds(section) \/ (buf[p].kind = "XRef" /\ buf[p].refs = {})
  BY SignedFileObjects
<1>2. InUse(g) = InUse(doc) \union EntryIds(section)
  BY SignedFileReads
<1> HIDE DEF g
<1>3. SUFFICES ASSUME NEW p \in ContentsOf(g), \A q \in ContentsOf(g) : q <= p
               PROVE  g.objs[p].id \in InUse(g)
  BY DEF ContentsExact, g
<1>4. p \in DOMAIN buf /\ g.objs[p] = buf[p]
      /\ (buf[p].kind \in {"Sig", "DocTimeStamp"} \/ HasKey(buf[p], "Contents"))
  BY <1>1 DEF ContentsOf
<1>5. CASE p \in DOMAIN doc.objs
  <2>1. p \in ContentsOf(doc)
    BY <1>1, <1>4, <1>5 DEF ContentsOf
  <2>2. ContentsOf(doc) \subseteq ContentsOf(g)
    BY <1>1 DEF ContentsOf
  <2>3. doc.objs[p].id \in InUse(doc)
    BY <1>3, <2>1, <2>2 DEF ContentsExact
  <2> QED  BY <1>1, <1>2, <1>4, <1>5, <2>3
<1>6. CASE p \in Appended
  <2>1. ~(buf[p].kind = "XRef" /\ buf[p].refs = {})
    BY <1>4 DEF HasKey
  <2> QED  BY <1>1, <1>2, <1>4, <1>6, <2>1
<1> QED  BY <1>1, <1>4, <1>5, <1>6

\* All signatures are found, the new one under the new field.
LEMMA SignedFileSignatures ==
  ASSUME IInv, pc = "replace", WellFormed(doc), CallInv, CatalogExact(doc), SignaturesFound(doc)
  PROVE  SignaturesFound(SignedFile)
<1> DEFINE g == SignedFile
<1>1. /\ g.objs = buf /\ DOMAIN buf = DOMAIN doc.objs \union Appended
      /\ \A p \in DOMAIN doc.objs : buf[p] = doc.objs[p]
  BY SignedFileObjects
<1>2. /\ \A id \in {ids.sig, ids.widget} :
           /\ id \in EntryIds(section) /\ id \in Nat
           /\ Deref(g, New(id)) = Latest(g, id)
      /\ IsFieldOf(Latest(g, ids.widget), ids.sig)
  BY SignedFileHolds
<1>3. /\ g \in File /\ EntriesExact(g) /\ Revises(doc, g)
      /\ \A id \in EntryIds(section) : \E p \in Appended : Latest(g, id) = buf[p] /\ buf[p].id = id
  BY SignedFileReads, SignedFileRevises
<1>4. /\ Fields \in Seq(Ref) /\ Catalog(g).kids = Append(Fields, New(ids.widget))
      /\ Fields = Catalog(doc).kids
  BY SignedFileFields DEF Fields
<1>5. doc \in File /\ ObjectsMade /\ WrittenOnce
  BY DEF IInv, TypeOK, CallInv, CoreInv
<1> HIDE DEF g
<1>6. /\ DOMAIN Catalog(g).kids = 1..(Len(Fields) + 1) /\ Len(Fields) \in Nat
      /\ DOMAIN Fields = 1..Len(Fields)
      /\ Catalog(g).kids[Len(Fields) + 1] = New(ids.widget)
      /\ \A i \in 1..Len(Fields) : Catalog(g).kids[i] = Fields[i]
  BY <1>2, <1>4, NewType, AppendProperties
<1>7. \A i \in DOMAIN Catalog(doc).kids :
        i \in DOMAIN Catalog(g).kids /\ Catalog(g).kids[i] = Catalog(doc).kids[i]
  BY <1>4, <1>6
<1>8. SUFFICES ASSUME NEW p \in DOMAIN buf, buf[p].kind \in SignatureKinds
               PROVE  \E i \in ExistingSignatures(g) : SignatureAt(g, i) = buf[p]
  BY <1>1 DEF SignaturesFound, SignatureKinds, g
<1>9. CASE p \in DOMAIN doc.objs
  <2>1. doc.objs[p].kind \in SignatureKinds /\ buf[p] = doc.objs[p]
    BY <1>1, <1>8, <1>9
  <2> QED  BY <1>3, <1>5, <1>7, <1>9, <2>1, SignaturesFoundAgain
<1>10. CASE p \in Appended
  <2> DEFINE n == Len(Fields) + 1
  <2>1. buf[p].id = ids.sig
    BY <1>5, <1>8, <1>10 DEF ObjectsMade
  <2>2. PICK q \in Appended : Latest(g, ids.sig) = buf[q] /\ buf[q].id = ids.sig
    BY <1>2, <1>3
  <2>3. p = q
    BY <1>5, <1>10, <2>1, <2>2 DEF WrittenOnce, Appended
  <2>4. Deref(g, Catalog(g).kids[n]) = Latest(g, ids.widget)
    BY <1>2, <1>6
  <2>5. n \in ExistingSignatures(g)
    BY <1>2, <1>6, <2>4 DEF ExistingSignatures, IsFieldOf
  <2>6. SignatureAt(g, n) = Latest(g, ids.sig)
    BY <1>2, <2>4 DEF SignatureAt, IsFieldOf
  <2> QED  BY <2>2, <2>3, <2>5, <2>6
<1> QED  BY <1>1, <1>8, <1>9, <1>10

\* A signature makes a document that is ready for the next call of one that was.
LEMMA SignedFileReady ==
  ASSUME IInv, pc = "replace", CallInv, Ready(doc)
  PROVE  Ready(SignedFile) /\ Revises(doc, SignedFile) /\ SignedOnce(doc, SignedFile)
<1>1. /\ WellFormed(doc) /\ RewritableKnown(doc) /\ IdsExact(doc) /\ CatalogExact(doc)
      /\ ContentsExact(doc) /\ SignaturesFound(doc)
  BY DEF Ready, Extensible
<1>2. WellFormed(SignedFile) /\ RewritableKnown(SignedFile)
  BY <1>1, SignedFileWellFormed, SignedFileRewritable
<1>3. Extensible(SignedFile)
  BY <1>1, SignedFileIdsExact, SignedFileCatalog, SignedFileContents, SignedFileSignatures
     DEF Extensible
<1>4. SignedOnce(doc, SignedFile)
  BY <1>1, SignedFileKeeps DEF SignedOnce, SignedOver
<1> QED  BY <1>1, <1>2, <1>3, <1>4, SignedFileRevises DEF Ready

\* A time-stamp is in the last field, and its section has no store that was there.
LEMMA SignedFileArchived ==
  ASSUME IInv, pc = "replace", CallInv, WellFormed(doc), req.certType = "TimeStamp"
  PROVE  /\ IsArchived(SignedFile)
         /\ \A id \in InUse(doc) : Latest(doc, id).kind = "DSS" => id \notin EntryIds(Trailer(SignedFile))
<1> DEFINE g == SignedFile
<1>1. /\ \A id \in {ids.sig, ids.widget} :
           /\ id \in EntryIds(section) /\ id \in Nat
           /\ Deref(g, New(id)) = Latest(g, id)
      /\ Latest(g, ids.sig).kind = SignatureKind
      /\ IsFieldOf(Latest(g, ids.widget), ids.sig)
  BY SignedFileHolds
<1>2. Fields \in Seq(Ref) /\ Catalog(g).kids = Append(Fields, New(ids.widget))
  BY SignedFileFields
<1>3. Trailer(g) = section
  BY SignedFileReads
<1> HIDE DEF g
<1>4. Last(Catalog(g).kids) = New(ids.widget)
  <2>1. New(ids.widget) \in Ref
    BY <1>1, NewType
  <2> QED  BY <1>2, <2>1, AppendProperties DEF Last
<1>5. IsArchived(g)
  BY <1>1, <1>3, <1>4 DEF IsArchived, IsFieldOf, SignatureKind, New
<1>6. \A id \in InUse(doc) : Latest(doc, id).kind = "DSS" => id \notin EntryIds(section)
  BY SignedFileRevises DEF RewritableKinds
<1> QED  BY <1>3, <1>5, <1>6 DEF g

-----------------------------------------------------------------------------
(* What AddValidationData appends.                                         *)

\* The places of what is joined.
LEMMA ConcatPlaces ==
  ASSUME NEW S, NEW s \in Seq(S), NEW t \in Seq(S), NEW u, u = s \o t
  PROVE  /\ Len(s) \in Nat /\ Len(t) \in Nat /\ u \in Seq(S) /\ Len(u) = Len(s) + Len(t)
         /\ DOMAIN s = 1..Len(s) /\ DOMAIN t = 1..Len(t) /\ DOMAIN u = 1..(Len(s) + Len(t))
         /\ \A i \in 1..Len(s) : u[i] = s[i]
         /\ \A i \in 1..Len(t) : u[Len(s) + i] = t[i]
OBVIOUS

\* What is in a sequence that one value was put before.
LEMMA PutBefore ==
  ASSUME NEW S, NEW x \in S, NEW t \in Seq(S)
  PROVE  Range(<<x>> \o t) \subseteq {x} \union Range(t)
<1> DEFINE u == <<x>> \o t
<1>1. /\ Len(t) \in Nat /\ DOMAIN t = 1..Len(t) /\ DOMAIN u = 1..(1 + Len(t))
      /\ u[1] = x /\ \A i \in 1..Len(t) : u[1 + i] = t[i]
  BY <<x>> \in Seq(S), Len(<<x>>) = 1, <<x>>[1] = x, ConcatPlaces
<1> HIDE DEF u
<1>2. SUFFICES ASSUME NEW i \in DOMAIN u, u[i] # x
               PROVE  u[i] \in Range(t)
  BY DEF Range, u
<1>3. i - 1 \in 1..Len(t) /\ 1 + (i - 1) = i
  BY <1>1, <1>2
<1>4. u[i] = t[i - 1] /\ i - 1 \in DOMAIN t
  BY <1>1, <1>3
<1> QED  BY <1>4 DEF Range

\* The places of a pair that was put behind a sequence.
LEMMA PairBehind ==
  ASSUME NEW S, NEW s \in Seq(S), NEW x \in S, NEW y \in S, NEW b, b = s \o <<x, y>>
  PROVE  /\ b \in Seq(S) /\ Len(s) \in Nat /\ Len(b) = Len(s) + 2
         /\ \A i \in 1..Len(s) : b[i] = s[i]
         /\ b[Len(s) + 1] = x /\ b[Len(s) + 2] = y
<1>1. PICK two \in Seq(S) : two = <<x, y>> /\ Len(two) = 2 /\ two[1] = x /\ two[2] = y
  <2>1. <<x, y>> \in Seq(S) /\ Len(<<x, y>>) = 2 /\ <<x, y>>[1] = x /\ <<x, y>>[2] = y
    OBVIOUS
  <2> QED  BY <2>1, Zenon
<1>2. /\ b \in Seq(S) /\ Len(s) \in Nat /\ Len(b) = Len(s) + Len(two)
      /\ \A i \in 1..Len(s) : b[i] = s[i]
      /\ \A i \in 1..Len(two) : b[Len(s) + i] = two[i]
  <2>1. b = s \o two
    BY <1>1
  <2> QED  BY <2>1, ConcatPlaces
<1>3. 1 \in 1..Len(two) /\ 2 \in 1..Len(two)
  BY <1>1
<1> QED  BY <1>1, <1>2, <1>3

\* The catalog is a text of the old one, with the new store before all others.
LEMMA CatalogWithStoreFacts ==
  ASSUME doc \in File, Ready(doc), responses \in Nat
  PROVE  /\ CatalogTexts # {} /\ CatalogWithStore \in Object
         /\ CatalogWithStore.kind = "Catalog" /\ CatalogWithStore.kids = Catalog(doc).kids
         /\ CatalogWithStore.id = Root.id /\ CatalogWithStore.gen = 0
         /\ \E p \in CatalogTexts : CatalogWithStore.dss = <<New(StoreID)>> \o doc.objs[p].dss
         /\ \A r \in RefsOf(CatalogWithStore) : r = New(StoreID) \/ Resolves(doc, r)
<1>1. WellFormed(doc) /\ CatalogExact(doc) /\ doc.objs \in Seq(Object)
  BY DEF Ready, Extensible, File
<1>2. Root = Trailer(doc).root /\ Root.gen = 0 /\ CatalogTexts = TextsOf(doc, Root)
  BY <1>1, CatalogIsText DEF Root, CatalogTexts
<1>3. CatalogTexts # {}
  BY <1>1, <1>2, CatalogIsText
<1>4. Min(CatalogTexts) \in CatalogTexts
  <2>1. CatalogTexts \in SUBSET Nat
    BY <1>1, <1>2 DEF TextsOf
  <2>2. PICK x \in CatalogTexts : \A y \in CatalogTexts : x <= y
    BY <1>3, <2>1, LeastNat
  <2> QED  BY <2>2, Zenon DEF Min
<1> DEFINE p == Min(CatalogTexts)
           text == doc.objs[p]
           dss == <<New(StoreID)>> \o text.dss
<1>5. /\ p \in CatalogTexts /\ p \in DOMAIN doc.objs /\ text.id = Root.id /\ text.gen = 0
      /\ text.kind = "Catalog" /\ text.kids = Catalog(doc).kids
      /\ \A r \in RefsOf(text) : Resolves(doc, r)
  BY <1>1, <1>2, <1>4 DEF TextsOf, CatalogExact
<1>6. CatalogWithStore = [text EXCEPT !.dss = dss]
  BY DEF CatalogWithStore
<1> HIDE DEF p
<1>7. text \in Object
  BY <1>1, <1>5
<1>8. CatalogWithStore \in Object
  BY <1>3, CatalogWithStoreType
<1> HIDE DEF text
<1>9. /\ CatalogWithStore.kind = text.kind /\ CatalogWithStore.kids = text.kids
      /\ CatalogWithStore.id = text.id /\ CatalogWithStore.gen = text.gen
      /\ CatalogWithStore.refs = text.refs /\ CatalogWithStore.dss = dss
  BY <1>6, <1>7 DEF Object
<1>10. \A r \in Range(dss) : r = New(StoreID) \/ r \in Range(text.dss)
  <2>1. text.dss \in Seq(Ref) /\ New(StoreID) \in Ref
    BY <1>7, RefsType, ValidationIds, NewType
  <2> QED  BY <2>1, PutBefore
<1>11. \A r \in RefsOf(CatalogWithStore) : r = New(StoreID) \/ r \in RefsOf(text)
  BY <1>9, <1>10 DEF RefsOf
<1> QED  BY <1>3, <1>5, <1>8, <1>9, <1>11 DEF text

\* Each object of the appendix at its place.
LEMMA AppendixPlaces ==
  ASSUME doc \in File, responses \in Nat, CatalogTexts # {}, NEW decodes \in BOOLEAN
  PROVE  LET a == Appendix(decodes)
             n == NumberOfStreams
         IN  /\ a \in Seq(Object) /\ n \in Nat
             /\ Len(a) = IF doc.xref = "stream" THEN n + 3 ELSE n + 2
             /\ \A i \in 1..n : a[i] = ValidationStream(i)
             /\ a[n + 1] = Store(decodes) /\ a[n + 2] = CatalogWithStore
             /\ doc.xref = "stream" => a[n + 3] = [Plain("XRef") EXCEPT !.id = XRefID]
<1> DEFINE streams == [i \in 1..NumberOfStreams |-> ValidationStream(i)]
           xref == [Plain("XRef") EXCEPT !.id = XRefID]
           last == IF doc.xref = "stream" THEN <<xref>> ELSE <<>>
<1>1. /\ streams \in Seq(Object) /\ Len(streams) = NumberOfStreams
      /\ \A i \in 1..NumberOfStreams : streams[i] = ValidationStream(i)
  <2>1. NumberOfStreams \in Nat /\ \A i \in 1..NumberOfStreams : ValidationStream(i) \in Object
    BY ValidationIds, ValidationStreamType
  <2> QED  BY <2>1
<1>2. Store(decodes) \in Object /\ CatalogWithStore \in Object
  BY StoreType, CatalogWithStoreType
<1>3. xref \in Object
  <2>1. Plain("XRef") \in Object /\ XRefID \in Nat
    BY PlainType, ValidationIds DEF Kinds
  <2> QED  BY <2>1 DEF Object
<1>4. /\ last \in Seq(Object) /\ Len(last) = IF doc.xref = "stream" THEN 1 ELSE 0
      /\ doc.xref = "stream" => last[1] = xref
  <2>1. /\ <<xref>> \in Seq(Object) /\ Len(<<xref>>) = 1 /\ <<xref>>[1] = xref
    BY <1>3
  <2>2. <<>> \in Seq(Object) /\ Len(<<>>) = 0
    BY EmptySeq
  <2> HIDE DEF xref
  <2> QED  BY <2>1, <2>2
<1>5. PICK n, x, y, b, a :
        /\ n = NumberOfStreams /\ x = Store(decodes) /\ y = CatalogWithStore
        /\ b = streams \o <<x, y>> /\ a = Appendix(decodes)
  OBVIOUS
<1>6. a = b \o last
  BY <1>5 DEF Appendix
<1> HIDE DEF streams, last, xref
<1>7. /\ b \in Seq(Object) /\ Len(b) = n + 2 /\ n \in Nat
      /\ \A i \in 1..n : b[i] = streams[i]
      /\ b[n + 1] = x /\ b[n + 2] = y
  <2>1. x \in Object /\ y \in Object /\ b = streams \o <<x, y>> /\ Len(streams) = n
    BY <1>1, <1>2, <1>5
  <2>2. /\ b \in Seq(Object) /\ Len(streams) \in Nat /\ Len(b) = Len(streams) + 2
        /\ \A i \in 1..Len(streams) : b[i] = streams[i]
        /\ b[Len(streams) + 1] = x /\ b[Len(streams) + 2] = y
    BY <1>1, <2>1, PairBehind
  <2> QED  BY <2>1, <2>2
<1>8. /\ a \in Seq(Object) /\ Len(a) = Len(b) + Len(last)
      /\ \A i \in 1..Len(b) : a[i] = b[i]
      /\ \A i \in 1..Len(last) : a[Len(b) + i] = last[i]
  <2>1. b \in Seq(Object) /\ last \in Seq(Object)
    BY <1>4, <1>7
  <2> QED  BY <1>6, <2>1, ConcatPlaces
<1>9. /\ a \in Seq(Object) /\ n \in Nat
      /\ Len(a) = IF doc.xref = "stream" THEN n + 3 ELSE n + 2
      /\ \A i \in 1..n : a[i] = streams[i]
      /\ a[n + 1] = x /\ a[n + 2] = y
      /\ doc.xref = "stream" => a[n + 3] = last[1]
  BY <1>4, <1>7, <1>8
<1> QED  BY <1>1, <1>4, <1>5, <1>9 DEF xref

\* The reader is told of each object of the appendix, and of object 0 in a table.
LEMMA ValidationEntries ==
  ASSUME doc \in File, responses \in Nat, NEW a \in Seq(Object)
  PROVE  LET s == ValidationSection(a) IN
           /\ s \in Section /\ s.size = ValidationSize /\ s.root = Root
           /\ \A j \in DOMAIN s.entries :
                \/ doc.xref = "table" /\ s.entries[j].id = 0 /\ s.entries[j].pos = 0
                \/ \E i \in DOMAIN a : /\ s.entries[j].id = a[i].id /\ s.entries[j].gen = a[i].gen
                                       /\ s.entries[j].pos = Offset(i)
           /\ \A i \in DOMAIN a : \E j \in DOMAIN s.entries :
                s.entries[j].id = a[i].id /\ s.entries[j].pos = Offset(i)
<1> DEFINE free == IF doc.xref = "table" THEN <<[id |-> 0, gen |-> 65535, pos |-> 0]>> ELSE <<>>
           entry(i) == [id |-> a[i].id, gen |-> a[i].gen, pos |-> Offset(i)]
           listed == [i \in DOMAIN a |-> entry(i)]
           back == Reverse(listed)
           m == Len(a)
           s == ValidationSection(a)
<1>1. s.entries = free \o back /\ s.size = ValidationSize /\ s.root = Root
  BY DEF ValidationSection
<1>2. s \in Section
  BY ValidationSectionType
<1> HIDE DEF s
<1>3. m \in Nat /\ DOMAIN a = 1..m
  OBVIOUS
<1>4. \A i \in 1..m : entry(i) \in XrefEntry
  <2>1. doc.objs \in Seq(Object)
    BY DEF File
  <2>2. \A i \in 1..m : a[i] \in Object /\ Offset(i) \in Nat
    BY <1>3, <2>1 DEF Offset
  <2> QED  BY <2>2 DEF Object, XrefEntry
<1>5. back \in Seq(XrefEntry) /\ Len(back) = m /\ \A i \in 1..m : back[i] = entry((m - i) + 1)
  <2>1. listed = [i \in 1..m |-> entry(i)]
    BY <1>3
  <2> HIDE DEF entry, m
  <2>2. listed \in Seq(XrefEntry) /\ Len(listed) = m /\ \A i \in 1..m : listed[i] = entry(i)
    BY <1>3, <1>4, <2>1
  <2> HIDE DEF listed
  <2>3. back = [i \in 1..m |-> listed[(m - i) + 1]]
    BY <2>2 DEF Reverse
  <2>4. \A i \in 1..m : (m - i) + 1 \in 1..m
    BY <1>3
  <2>5. \A i \in 1..m : listed[(m - i) + 1] = entry((m - i) + 1) /\ entry((m - i) + 1) \in XrefEntry
    BY <1>4, <2>2, <2>4
  <2> HIDE DEF back
  <2> QED  BY <1>3, <2>3, <2>5
<1>6. /\ free \in Seq(XrefEntry)
      /\ \A i \in DOMAIN free : doc.xref = "table" /\ free[i].id = 0 /\ free[i].pos = 0
  <2>1. [id |-> 0, gen |-> 65535, pos |-> 0] \in XrefEntry
    BY DEF XrefEntry
  <2> QED  BY <2>1, EmptySeq
<1> HIDE DEF free, back, listed
<1> DEFINE k == Len(free)
           all == free \o back
<1>7. /\ k \in Nat /\ DOMAIN free = 1..k /\ DOMAIN all = 1..(k + m)
      /\ \A i \in 1..k : all[i] = free[i]
      /\ \A i \in 1..m : all[k + i] = back[i]
  BY <1>5, <1>6, ConcatPlaces
<1> HIDE DEF all, k, m, entry
<1>8. ASSUME NEW j \in DOMAIN all
      PROVE  \/ doc.xref = "table" /\ all[j].id = 0 /\ all[j].pos = 0
             \/ \E i \in DOMAIN a : all[j] = entry(i)
  <2>1. CASE j \in 1..k
    BY <1>6, <1>7, <2>1
  <2>2. CASE j \notin 1..k
    <3>1. j - k \in 1..m /\ k + (j - k) = j /\ (m - (j - k)) + 1 \in 1..m
      BY <1>3, <1>7, <1>8, <2>2
    <3>2. all[j] = back[j - k] /\ back[j - k] = entry((m - (j - k)) + 1)
      BY <1>5, <1>7, <3>1
    <3> QED  BY <1>3, <3>1, <3>2
  <2> QED  BY <2>1, <2>2
<1>9. ASSUME NEW i \in DOMAIN a
      PROVE  \E j \in DOMAIN all : all[j] = entry(i)
  <2> DEFINE h == (m - i) + 1
  <2>1. h \in 1..m /\ (m - h) + 1 = i /\ k + h \in 1..(k + m)
    BY <1>3, <1>7
  <2> HIDE DEF h
  <2>2. all[k + h] = back[h] /\ back[h] = entry(i)
    BY <1>5, <1>7, <2>1
  <2> QED  BY <1>7, <2>1, <2>2
<1>10. /\ \A j \in DOMAIN all :
            \/ doc.xref = "table" /\ all[j].id = 0 /\ all[j].pos = 0
            \/ \E i \in DOMAIN a : all[j].id = a[i].id /\ all[j].gen = a[i].gen /\ all[j].pos = Offset(i)
       /\ \A i \in DOMAIN a : \E j \in DOMAIN all : all[j].id = a[i].id /\ all[j].pos = Offset(i)
  BY <1>8, <1>9 DEF entry
<1>11. s.entries = all
  BY <1>1 DEF all
<1> HIDE DEF all
<1>12. /\ \A j \in DOMAIN s.entries :
            \/ doc.xref = "table" /\ s.entries[j].id = 0 /\ s.entries[j].pos = 0
            \/ \E i \in DOMAIN a : /\ s.entries[j].id = a[i].id /\ s.entries[j].gen = a[i].gen
                                   /\ s.entries[j].pos = Offset(i)
       /\ \A i \in DOMAIN a : \E j \in DOMAIN s.entries :
            s.entries[j].id = a[i].id /\ s.entries[j].pos = Offset(i)
  BY <1>10, <1>11
<1> QED  BY <1>1, <1>2, <1>12, Zenon DEF s

\* The ids that AddValidationData gives are above those of the document.
NewValidationIds == Trailer(doc).size..(ValidationSize - 1)

LEMMA NewIdsFree ==
  ASSUME doc \in File, Ready(doc), responses \in Nat
  PROVE  /\ Trailer(doc).size \in Nat \ {0} /\ ValidationSize \in Nat
         /\ NumberOfStreams \in Nat /\ StoreID \in Nat
         /\ ValidationSize = IF doc.xref = "stream" THEN StoreID + 2 ELSE StoreID + 1
         /\ StoreID = Trailer(doc).size + NumberOfStreams
         /\ Root.id \in InUse(doc) /\ Root.gen = 0 /\ Root.id \in Nat \ {0} /\ Root.id < Trailer(doc).size
         /\ \A id \in ListedIds(doc) : id \notin NewValidationIds
         /\ \A id \in InUse(doc) : id \notin NewValidationIds
         /\ StoreID \in NewValidationIds
         /\ \A i \in 1..NumberOfStreams : StreamID(i) \in NewValidationIds /\ StreamID(i) # StoreID
<1>1. WellFormed(doc) /\ EntriesExact(doc) /\ SizeIsExact(doc)
  BY DEF Ready, WellFormed
<1>2. Trailer(doc).size \in Nat /\ NumberOfStreams \in Nat
  BY TrailerType, ValidationIds
<1>3. Root \in Ref /\ Resolves(doc, Root)
  BY <1>1, TrailerType DEF WellFormed, ReferencesFound, Root
<1>4. Root.gen = 0 /\ Root.id \in InUse(doc)
  BY <1>1, <1>3, ResolvesExactly
<1>5. Root.id \in Nat \ {0} /\ Root.id < Trailer(doc).size
  BY <1>1, <1>4, LatestFacts, InUseFacts DEF WellFormed, SizeIsExact
<1>6. /\ StoreID = Trailer(doc).size + NumberOfStreams
      /\ ValidationSize = IF doc.xref = "stream" THEN StoreID + 2 ELSE StoreID + 1
      /\ \A i \in 1..NumberOfStreams : StreamID(i) = Trailer(doc).size + i - 1
  BY <1>2 DEF StoreID, XRefID, ValidationSize, StreamID
<1>7. \A id \in ListedIds(doc) : id \notin NewValidationIds
  BY <1>1, <1>2 DEF SizeIsExact, NewValidationIds
<1>8. \A id \in InUse(doc) : id \in ListedIds(doc)
  BY DEF InUse
<1>9. StoreID \in Nat /\ ValidationSize \in Nat /\ StoreID \in NewValidationIds
  BY <1>2, <1>6 DEF NewValidationIds
<1>10. \A i \in 1..NumberOfStreams : StreamID(i) \in NewValidationIds /\ StreamID(i) # StoreID
  BY <1>2, <1>6, <1>9 DEF NewValidationIds
<1>11. Trailer(doc).size \in Nat \ {0}
  BY <1>2, <1>5
<1> QED  BY <1>2, <1>4, <1>5, <1>6, <1>7, <1>8, <1>9, <1>10, <1>11

\* What the key of /VRI is made from is found.
LEMMA LastContentsFound ==
  ASSUME doc \in File, Ready(doc), NEW e \in LastContents
  PROVE  e.key = "VRI" /\ Resolves(doc, e.to)
<1> DEFINE holders == ContentsOf(doc)
           m == Max(holders)
           last == doc.objs[m]
<1>1. doc.objs \in Seq(Object) /\ EntriesExact(doc) /\ ContentsExact(doc)
  BY DEF File, Ready, Extensible, WellFormed
<1>2. holders # {} /\ e = At("VRI", [id |-> last.id, gen |-> last.gen])
  BY DEF LastContents
<1>3. holders \in SUBSET (0..Len(doc.objs)) /\ Len(doc.objs) \in Nat
  BY <1>1 DEF ContentsOf
<1>4. m \in holders /\ \A q \in holders : q <= m
  BY <1>2, <1>3, MaxOfBounded
<1>5. m \in DOMAIN doc.objs
  BY <1>4 DEF ContentsOf
<1> HIDE DEF m
<1>6. last.id \in InUse(doc)
  BY <1>1, <1>4 DEF ContentsExact
<1>7. last \in Object /\ last.gen = 0
  BY <1>1, <1>5 DEF EntriesExact
<1> HIDE DEF last
<1>8. e.key = "VRI" /\ e.to = [id |-> last.id, gen |-> last.gen]
  BY <1>2 DEF At
<1>9. e.to \in Ref /\ e.to.gen = 0 /\ e.to.id = last.id
  BY <1>7, <1>8 DEF Ref, Object
<1> QED  BY <1>1, <1>6, <1>8, <1>9, ResolvesExactly

\* The store refers to the streams, and to what the key of /VRI is made from.
LEMMA StoreFacts ==
  ASSUME doc \in File, Ready(doc), responses \in Nat, NEW decodes \in BOOLEAN
  PROVE  LET o == Store(decodes) IN
           /\ o \in Object /\ o.id = StoreID /\ o.gen = 0 /\ o.kind = "DSS"
           /\ Len(o.kids) = NumberOfStreams
           /\ \A i \in DOMAIN o.kids : i \in 1..NumberOfStreams /\ o.kids[i] = New(StreamID(i))
           /\ \A r \in RefsOf(o) : \/ \E i \in 1..NumberOfStreams : r = New(StreamID(i))
                                   \/ Resolves(doc, r)
<1> DEFINE p == Plain("DSS")
           kids == [i \in 1..NumberOfStreams |-> New(StreamID(i))]
           refs == IF decodes THEN LastContents ELSE {}
           o == Store(decodes)
<1>1. o \in Object
  BY StoreType
<1>2. o = [p EXCEPT !.id = StoreID, !.kids = kids, !.refs = refs]
  BY DEF Store
<1>3. p \in Object /\ p.gen = 0 /\ p.kind = "DSS" /\ p.dss = <<>>
  <2>1. p \in Object
    BY PlainType DEF Kinds
  <2> QED  BY <2>1 DEF Plain
<1> HIDE DEF o, p
<1>4. o.id = StoreID /\ o.gen = 0 /\ o.kind = "DSS" /\ o.dss = <<>> /\ o.kids = kids /\ o.refs = refs
  BY <1>2, <1>3 DEF Object
<1>5. DOMAIN kids = 1..NumberOfStreams /\ NumberOfStreams \in Nat
  BY ValidationIds
<1>6. Len(kids) = NumberOfStreams
  BY <1>5
<1>7. \A i \in DOMAIN o.kids : i \in 1..NumberOfStreams /\ o.kids[i] = New(StreamID(i))
  BY <1>4, <1>5
<1>8. \A e \in refs : Resolves(doc, e.to)
  BY LastContentsFound
<1>9. ASSUME NEW r \in RefsOf(o)
      PROVE  (\E i \in 1..NumberOfStreams : r = New(StreamID(i))) \/ Resolves(doc, r)
  <2>1. CASE r \in Range(o.kids)
    BY <1>7, <2>1 DEF Range
  <2>2. CASE r \in {e.to : e \in o.refs}
    BY <1>4, <1>8, <2>2
  <2>3. CASE r \in Range(o.dss)
    BY <1>4, <2>3 DEF Range
  <2> QED  BY <1>9, <2>1, <2>2, <2>3 DEF RefsOf
<1> HIDE DEF kids, refs
<1> QED  BY <1>1, <1>4, <1>6, <1>7, <1>9 DEF o

\* What a stream and the object of a cross-reference stream are.
LEMMA StreamFacts ==
  ASSUME doc \in File, responses \in Nat
  PROVE  /\ \A i \in 1..NumberOfStreams :
              LET o == ValidationStream(i) IN
                /\ o \in Object /\ o.id = StreamID(i) /\ o.gen = 0 /\ o.kind = "Stream"
                /\ RefsOf(o) = {}
         /\ LET o == [Plain("XRef") EXCEPT !.id = XRefID] IN
              o \in Object /\ o.id = XRefID /\ o.gen = 0 /\ o.kind = "XRef" /\ RefsOf(o) = {}
<1>1. ASSUME NEW p \in Object, p.gen = 0, p.kids = <<>>, p.dss = <<>>, p.refs = {},
             NEW o \in Object, o.gen = p.gen, o.kids = p.kids, o.dss = p.dss, o.refs = p.refs
      PROVE  o.gen = 0 /\ RefsOf(o) = {}
  BY <1>1 DEF RefsOf, Range
<1> DEFINE s == Plain("Stream")
           x == Plain("XRef")
<1>2. /\ s \in Object /\ s.gen = 0 /\ s.kind = "Stream" /\ s.kids = <<>> /\ s.dss = <<>> /\ s.refs = {}
      /\ x \in Object /\ x.gen = 0 /\ x.kind = "XRef" /\ x.kids = <<>> /\ x.dss = <<>> /\ x.refs = {}
  <2>1. s \in Object /\ x \in Object
    BY PlainType DEF Kinds
  <2> QED  BY <2>1 DEF Plain
<1>3. \A i \in 1..NumberOfStreams :
        ValidationStream(i) = [s EXCEPT !.id = StreamID(i), !.keys = {StreamID(i)}]
  BY DEF ValidationStream
<1> HIDE DEF s, x
<1>4. /\ XRefID \in Nat /\ \A i \in 1..NumberOfStreams : StreamID(i) \in Nat
  BY ValidationIds
<1>5. ASSUME NEW i \in 1..NumberOfStreams
      PROVE  LET o == ValidationStream(i) IN
               /\ o \in Object /\ o.id = StreamID(i) /\ o.kind = "Stream"
               /\ o.gen = s.gen /\ o.kids = s.kids /\ o.dss = s.dss /\ o.refs = s.refs
  <2> DEFINE id == StreamID(i)
  <2>1. id \in Nat /\ ValidationStream(i) = [s EXCEPT !.id = id, !.keys = {id}]
    BY <1>3, <1>4
  <2> HIDE DEF id
  <2>2. LET o == [s EXCEPT !.id = id, !.keys = {id}] IN
          /\ o \in Object /\ o.id = id /\ o.kind = "Stream"
          /\ o.gen = s.gen /\ o.kids = s.kids /\ o.dss = s.dss /\ o.refs = s.refs
    BY <1>2, <2>1 DEF Object
  <2> QED  BY <2>1, <2>2 DEF id
<1>6. LET o == [x EXCEPT !.id = XRefID] IN
        /\ o \in Object /\ o.id = XRefID /\ o.kind = "XRef"
        /\ o.gen = x.gen /\ o.kids = x.kids /\ o.dss = x.dss /\ o.refs = x.refs
  BY <1>2, <1>4 DEF Object
<1>7. LET o == [x EXCEPT !.id = XRefID] IN o.gen = 0 /\ RefsOf(o) = {}
  BY <1>1, <1>2, <1>6
<1>8. \A i \in 1..NumberOfStreams : ValidationStream(i).gen = 0 /\ RefsOf(ValidationStream(i)) = {}
  BY <1>1, <1>2, <1>5
<1> QED  BY <1>5, <1>6, <1>7, <1>8 DEF x

\* One object for the catalog and for each new id; what each of them is.
IsAppendix(a) ==
  /\ a \in Seq(Object) /\ \A i \in DOMAIN a : a[i].gen = 0
  /\ \A i, j \in DOMAIN a : a[i].id = a[j].id => i = j
  /\ {a[i].id : i \in DOMAIN a} = NewValidationIds \union {Root.id}
  /\ \A i \in DOMAIN a :
       /\ a[i].id = Root.id => a[i] = CatalogWithStore
       /\ a[i].id # Root.id => a[i].kind \in {"Stream", "DSS", "XRef"}
       /\ a[i].id = StoreID => \E decodes \in BOOLEAN : a[i] = Store(decodes)
       /\ a[i].id \notin {StoreID, Root.id} => RefsOf(a[i]) = {}
       /\ \A k \in 1..NumberOfStreams : a[i].id = StreamID(k) => a[i].kind = "Stream"

LEMMA AppendixFacts ==
  ASSUME doc \in File, Ready(doc), responses \in Nat, NEW decodes \in BOOLEAN
  PROVE  IsAppendix(Appendix(decodes))
<1>1. PICK a, n, size, root, xref :
        /\ a = Appendix(decodes) /\ n = NumberOfStreams /\ size = Trailer(doc).size
        /\ root = Root.id /\ xref = [Plain("XRef") EXCEPT !.id = XRefID]
  OBVIOUS
<1>2. /\ CatalogTexts # {}
      /\ CatalogWithStore \in Object /\ CatalogWithStore.id = root /\ CatalogWithStore.gen = 0
      /\ CatalogWithStore.kind = "Catalog"
  BY <1>1, CatalogWithStoreFacts
<1>3. /\ a \in Seq(Object) /\ n \in Nat
      /\ Len(a) = IF doc.xref = "stream" THEN n + 3 ELSE n + 2
      /\ \A i \in 1..n : a[i] = ValidationStream(i)
      /\ a[n + 1] = Store(decodes) /\ a[n + 2] = CatalogWithStore
      /\ doc.xref = "stream" => a[n + 3] = xref
  BY <1>1, <1>2, AppendixPlaces
<1>4. /\ Store(decodes).id = StoreID /\ Store(decodes).gen = 0 /\ Store(decodes).kind = "DSS"
  BY StoreFacts
<1>5. /\ \A i \in 1..n : /\ ValidationStream(i).id = StreamID(i) /\ ValidationStream(i).gen = 0
                         /\ ValidationStream(i).kind = "Stream" /\ RefsOf(ValidationStream(i)) = {}
      /\ xref.id = XRefID /\ xref.gen = 0 /\ xref.kind = "XRef" /\ RefsOf(xref) = {}
  BY <1>1, StreamFacts
<1>6. /\ size \in Nat \ {0} /\ ValidationSize \in Nat /\ StoreID = size + n
      /\ ValidationSize = IF doc.xref = "stream" THEN StoreID + 2 ELSE StoreID + 1
      /\ root \in Nat \ {0} /\ root < size
  BY <1>1, NewIdsFree
<1>7. XRefID = size + n + 1 /\ \A i \in 1..n : StreamID(i) = size + i - 1
  BY <1>1, <1>3, <1>6 DEF XRefID, StreamID
<1>8. DOMAIN a = 1..Len(a)
  BY <1>3
<1>9. ASSUME NEW i \in DOMAIN a
      PROVE  \/ i \in 1..n /\ a[i] = ValidationStream(i) /\ a[i].id = size + i - 1
             \/ i = n + 1 /\ a[i] = Store(decodes) /\ a[i].id = size + n
             \/ i = n + 2 /\ a[i] = CatalogWithStore /\ a[i].id = root
             \/ i = n + 3 /\ doc.xref = "stream" /\ a[i] = xref /\ a[i].id = size + n + 1
  <2>1. i \in 1..n \/ i = n + 1 \/ i = n + 2 \/ (i = n + 3 /\ doc.xref = "stream")
    BY <1>3, <1>8
  <2>2. CASE i \in 1..n
    BY <1>3, <1>5, <1>7, <2>2
  <2>3. CASE i = n + 1
    BY <1>3, <1>4, <1>6, <2>3
  <2>4. CASE i = n + 2
    BY <1>2, <1>3, <2>4
  <2>5. CASE i = n + 3 /\ doc.xref = "stream"
    BY <1>3, <1>5, <1>7, <2>5
  <2> QED  BY <2>1, <2>2, <2>3, <2>4, <2>5
<1>10. \A i \in DOMAIN a : a[i].gen = 0
  BY <1>2, <1>4, <1>5, <1>9
<1>11. \A i, j \in DOMAIN a : a[i].id = a[j].id => i = j
  <2>1. \A i \in DOMAIN a : /\ i \in 1..(n + 3)
                            /\ i <= n => a[i].id = size + i - 1
                            /\ i = n + 1 => a[i].id = size + n
                            /\ i = n + 2 => a[i].id = root
                            /\ i = n + 3 => a[i].id = size + n + 1
    BY <1>3, <1>9
  <2>2. n \in Nat /\ size \in Nat /\ root \in Nat /\ root < size
    BY <1>3, <1>6
  <2> TAKE i, j \in DOMAIN a
  <2> HAVE a[i].id = a[j].id
  <2>3. PICK x, y : x = a[i].id /\ y = a[j].id
    OBVIOUS
  <2>4. /\ i \in 1..(n + 3) /\ j \in 1..(n + 3) /\ x = y
        /\ i <= n => x = size + i - 1
        /\ i = n + 1 => x = size + n
        /\ i = n + 2 => x = root
        /\ i = n + 3 => x = size + n + 1
        /\ j <= n => y = size + j - 1
        /\ j = n + 1 => y = size + n
        /\ j = n + 2 => y = root
        /\ j = n + 3 => y = size + n + 1
    BY <2>1, <2>3
  <2> QED  BY <2>2, <2>4
<1>12. NewValidationIds = size..(IF doc.xref = "stream" THEN size + n + 1 ELSE size + n)
  BY <1>1, <1>3, <1>6 DEF NewValidationIds
<1>13. {a[i].id : i \in DOMAIN a} = NewValidationIds \union {root}
  <2>1. ASSUME NEW i \in DOMAIN a
        PROVE  a[i].id \in NewValidationIds \union {root}
    <3>1. n \in Nat /\ size \in Nat
      BY <1>3, <1>6
    <3>2. CASE i \in 1..n /\ a[i].id = size + i - 1
      <4>1. a[i].id \in size..(size + n)
        BY <3>1, <3>2
      <4> QED  BY <1>12, <3>1, <4>1
    <3>3. CASE a[i].id = size + n \/ (a[i].id = size + n + 1 /\ doc.xref = "stream")
      BY <1>12, <3>1, <3>3
    <3> QED  BY <1>9, <3>2, <3>3
  <2>2. ASSUME NEW id \in NewValidationIds
        PROVE  \E i \in DOMAIN a : a[i].id = id
    <3>1. CASE id < size + n
      <4>1. (id - size) + 1 \in DOMAIN a /\ (id - size) + 1 \in 1..n
        BY <1>3, <1>6, <1>8, <1>12, <2>2, <3>1
      <4>2. a[(id - size) + 1].id = size + ((id - size) + 1) - 1
        BY <1>3, <1>5, <1>7, <4>1
      <4>3. size + ((id - size) + 1) - 1 = id
        BY <1>3, <1>6, <1>12, <2>2
      <4> QED  BY <4>1, <4>2, <4>3
    <3>2. CASE id = size + n
      <4>1. n + 1 \in DOMAIN a
        BY <1>3, <1>8
      <4>2. a[n + 1].id = size + n
        BY <1>3, <1>4, <1>6
      <4> QED  BY <3>2, <4>1, <4>2
    <3>3. CASE id = size + n + 1 /\ doc.xref = "stream"
      BY <1>3, <1>5, <1>7, <1>8, <3>3
    <3> QED  BY <1>3, <1>6, <1>12, <2>2, <3>1, <3>2, <3>3
  <2>3. \E i \in DOMAIN a : a[i].id = root
    <3>1. n + 2 \in DOMAIN a
      BY <1>3, <1>8
    <3> QED  BY <1>2, <1>3, <3>1
  <2> QED  BY <2>1, <2>2, <2>3
<1>14. ASSUME NEW i \in DOMAIN a
       PROVE  /\ a[i].id = root => a[i] = CatalogWithStore
              /\ a[i].id # root => a[i].kind \in {"Stream", "DSS", "XRef"}
              /\ a[i].id = StoreID => a[i] = Store(decodes)
              /\ a[i].id \notin {StoreID, root} => RefsOf(a[i]) = {}
              /\ \A k \in 1..n : a[i].id = StreamID(k) => a[i].kind = "Stream"
  <2>1. CASE i \in 1..n /\ a[i] = ValidationStream(i) /\ a[i].id = size + i - 1
    <3>1. a[i].id # StoreID /\ a[i].id # root
      <4>1. n \in Nat /\ size \in Nat /\ root \in Nat /\ root < size /\ StoreID = size + n
        BY <1>3, <1>6
      <4>2. PICK x : x = a[i].id
        OBVIOUS
      <4>3. i \in 1..n /\ x = size + i - 1
        BY <2>1, <4>2
      <4>4. x # size + n /\ x # root
        BY <4>1, <4>3
      <4> QED  BY <4>1, <4>2, <4>4
    <3> QED  BY <1>5, <2>1, <3>1
  <2>2. CASE i = n + 1 /\ a[i] = Store(decodes) /\ a[i].id = size + n
    <3>1. a[i].id = StoreID /\ a[i].id # root /\ \A k \in 1..n : a[i].id # StreamID(k)
      BY <1>3, <1>6, <1>7, <2>2
    <3> QED  BY <1>4, <2>2, <3>1
  <2>3. CASE i = n + 2 /\ a[i] = CatalogWithStore /\ a[i].id = root
    <3>1. a[i].id # StoreID /\ \A k \in 1..n : a[i].id # StreamID(k)
      BY <1>3, <1>6, <1>7, <2>3
    <3> QED  BY <2>3, <3>1
  <2>4. CASE i = n + 3 /\ doc.xref = "stream" /\ a[i] = xref /\ a[i].id = size + n + 1
    <3>1. a[i].id # StoreID /\ a[i].id # root /\ \A k \in 1..n : a[i].id # StreamID(k)
      BY <1>3, <1>6, <1>7, <2>4
    <3> QED  BY <1>5, <2>4, <3>1
  <2> QED  BY <1>9, <2>1, <2>2, <2>3, <2>4
<1>15. IsAppendix(a)
  BY <1>1, <1>3, <1>10, <1>11, <1>13, <1>14 DEF IsAppendix
<1> QED  BY <1>1, <1>15

-----------------------------------------------------------------------------
(* The document that has validation data.                                  *)

ValidatedFile(a) ==
  [doc EXCEPT !.objs = @ \o a, !.sections = Append(@, ValidationSection(a))]

\* The objects of the document, then those of the appendix.
LEMMA ValidatedObjects ==
  ASSUME doc \in File, responses \in Nat, NEW a \in Seq(Object)
  PROVE  LET g == ValidatedFile(a) IN
           /\ g \in File /\ g.xref = doc.xref
           /\ g.sections = Append(doc.sections, ValidationSection(a))
           /\ Len(doc.objs) \in Nat /\ Len(a) \in Nat /\ Len(g.objs) = Len(doc.objs) + Len(a)
           /\ DOMAIN doc.objs = 1..Len(doc.objs) /\ DOMAIN a = 1..Len(a)
           /\ DOMAIN g.objs = 1..(Len(doc.objs) + Len(a))
           /\ \A p \in DOMAIN doc.objs : p \in DOMAIN g.objs /\ g.objs[p] = doc.objs[p]
           /\ \A i \in DOMAIN a : Offset(i) \in DOMAIN g.objs /\ g.objs[Offset(i)] = a[i]
           /\ \A p \in DOMAIN g.objs : p \in DOMAIN doc.objs \/ \E i \in DOMAIN a : p = Offset(i)
<1> DEFINE g == ValidatedFile(a)
           s == ValidationSection(a)
<1>1. doc.objs \in Seq(Object) /\ doc.sections \in Seq(Section) /\ s \in Section
  BY ValidationSectionType DEF File
<1>2. doc.objs \o a \in Seq(Object)
  BY <1>1, ConcatPlaces
<1>3. Append(doc.sections, s) \in Seq(Section) \ {<<>>}
  BY <1>1
<1> HIDE DEF s
<1>4. g = [doc EXCEPT !.objs = doc.objs \o a, !.sections = Append(doc.sections, s)]
  BY DEF ValidatedFile, s
<1>5. g.objs = doc.objs \o a /\ g.sections = Append(doc.sections, s) /\ g.xref = doc.xref /\ g \in File
  BY <1>2, <1>3, <1>4 DEF File
<1> HIDE DEF g
<1>6. PICK o, u : o = doc.objs /\ u = g.objs
  OBVIOUS
<1>7. /\ Len(o) \in Nat /\ Len(a) \in Nat /\ Len(u) = Len(o) + Len(a)
      /\ DOMAIN o = 1..Len(o) /\ DOMAIN a = 1..Len(a) /\ DOMAIN u = 1..(Len(o) + Len(a))
      /\ \A i \in 1..Len(o) : u[i] = o[i]
      /\ \A i \in 1..Len(a) : u[Len(o) + i] = a[i]
  BY <1>1, <1>5, <1>6, ConcatPlaces
<1>8. \A i \in DOMAIN a : Offset(i) = Len(o) + i
  BY <1>6 DEF Offset
<1>9. \A p \in DOMAIN o : p \in DOMAIN u /\ u[p] = o[p]
  BY <1>7
<1>10. \A i \in DOMAIN a : Offset(i) \in DOMAIN u /\ u[Offset(i)] = a[i]
  BY <1>7, <1>8
<1>11. ASSUME NEW p \in DOMAIN u, p \notin DOMAIN o
       PROVE  \E i \in DOMAIN a : p = Offset(i)
  <2>1. p - Len(o) \in DOMAIN a /\ Len(o) + (p - Len(o)) = p
    BY <1>7, <1>11
  <2> QED  BY <1>8, <2>1
<1> QED  BY <1>5, <1>6, <1>7, <1>9, <1>10, <1>11 DEF g, s

\* The section of validation data is one that the lemmas about revisions know.
LEMMA ValidatedAppends ==
  ASSUME doc \in File, Ready(doc), responses \in Nat, NEW a, IsAppendix(a)
  PROVE  /\ Appends(doc, ValidatedFile(a), ValidationSection(a))
         /\ LiveIds(ValidationSection(a)) = NewValidationIds \union {Root.id}
         /\ EntryIds(ValidationSection(a)) \subseteq NewValidationIds \union {Root.id, 0}
         /\ ValidationSection(a).size = ValidationSize /\ ValidationSection(a).root = Root
<1> DEFINE new == NewValidationIds \union {Root.id}
<1>1. PICK g, s, n : g = ValidatedFile(a) /\ s = ValidationSection(a) /\ n = Len(doc.objs)
  OBVIOUS
<1>2. /\ a \in Seq(Object) /\ \A i \in DOMAIN a : a[i].gen = 0
      /\ {a[i].id : i \in DOMAIN a} = new
  BY DEF IsAppendix
<1>3. /\ g \in File /\ g.xref = doc.xref /\ g.sections = Append(doc.sections, s)
      /\ n \in Nat /\ Len(a) \in Nat /\ Len(g.objs) = n + Len(a)
      /\ DOMAIN doc.objs = 1..n /\ DOMAIN a = 1..Len(a) /\ DOMAIN g.objs = 1..(n + Len(a))
      /\ \A p \in DOMAIN doc.objs : g.objs[p] = doc.objs[p]
      /\ \A i \in DOMAIN a : Offset(i) \in DOMAIN g.objs /\ g.objs[Offset(i)] = a[i]
      /\ \A p \in DOMAIN g.objs : p \in DOMAIN doc.objs \/ \E i \in DOMAIN a : p = Offset(i)
  BY <1>1, <1>2, ValidatedObjects
<1>4. /\ s \in Section /\ s.size = ValidationSize /\ s.root = Root
      /\ \A j \in DOMAIN s.entries :
           \/ doc.xref = "table" /\ s.entries[j].id = 0 /\ s.entries[j].pos = 0
           \/ \E i \in DOMAIN a : /\ s.entries[j].id = a[i].id /\ s.entries[j].gen = a[i].gen
                                  /\ s.entries[j].pos = Offset(i)
      /\ \A i \in DOMAIN a : \E j \in DOMAIN s.entries :
           s.entries[j].id = a[i].id /\ s.entries[j].pos = Offset(i)
  BY <1>1, <1>2, ValidationEntries
<1>5. /\ Trailer(doc).size \in Nat \ {0} /\ ValidationSize \in Nat /\ Trailer(doc).size < ValidationSize
      /\ \A id \in new : id \in Nat \ {0} /\ id < ValidationSize
  <2>1. /\ Trailer(doc).size \in Nat \ {0} /\ ValidationSize \in Nat
        /\ StoreID \in NewValidationIds /\ StoreID \in Nat
        /\ Root.id \in Nat \ {0} /\ Root.id < Trailer(doc).size
    BY NewIdsFree
  <2>2. Trailer(doc).size < ValidationSize
    BY <2>1 DEF NewValidationIds
  <2> QED  BY <2>1, <2>2 DEF NewValidationIds
<1> HIDE DEF new
<1>6. \A i \in DOMAIN a : a[i].id \in new /\ Offset(i) = n + i /\ Offset(i) \in (n + 1)..(n + Len(a))
  BY <1>1, <1>2, <1>3 DEF Offset
<1>7. ASSUME NEW j \in DOMAIN s.entries
      PROVE  /\ s.entries[j].pos = 0 => doc.xref = "table" /\ s.entries[j].id = 0
             /\ s.entries[j].pos # 0 =>
                  /\ s.entries[j].gen = 0 /\ s.entries[j].pos \in (n + 1)..Len(g.objs)
                  /\ g.objs[s.entries[j].pos].id = s.entries[j].id
                  /\ s.entries[j].id > 0 /\ s.entries[j].id \in new
             /\ s.entries[j].id \in new \union {0}
  <2>1. CASE doc.xref = "table" /\ s.entries[j].id = 0 /\ s.entries[j].pos = 0
    BY <2>1
  <2>2. CASE \E i \in DOMAIN a : /\ s.entries[j].id = a[i].id /\ s.entries[j].gen = a[i].gen
                                 /\ s.entries[j].pos = Offset(i)
    <3>1. PICK i \in DOMAIN a : /\ s.entries[j].id = a[i].id /\ s.entries[j].gen = a[i].gen
                                /\ s.entries[j].pos = Offset(i)
      BY <2>2
    <3>2. Offset(i) # 0 /\ a[i].id > 0
      BY <1>3, <1>5, <1>6
    <3> QED  BY <1>2, <1>3, <1>6, <3>1, <3>2
  <2> QED  BY <1>4, <2>1, <2>2
<1>8. \A p \in (n + 1)..Len(g.objs) : g.objs[p].gen = 0
  <2> TAKE p \in (n + 1)..Len(g.objs)
  <2>1. p \in DOMAIN g.objs /\ p \notin DOMAIN doc.objs
    BY <1>3
  <2>2. PICK i \in DOMAIN a : p = Offset(i)
    BY <1>3, <2>1
  <2> QED  BY <1>2, <1>3, <2>2
<1>9. EntryIds(s) \subseteq new \union {0}
  BY <1>7 DEF EntryIds
<1>10. LiveIds(s) = new
  <2>1. \A i \in DOMAIN a : a[i].id \in LiveIds(s)
    <3> TAKE i \in DOMAIN a
    <3>1. PICK j \in DOMAIN s.entries : s.entries[j].id = a[i].id /\ s.entries[j].pos = Offset(i)
      BY <1>4
    <3>2. s.entries[j].pos # 0
      BY <1>3, <1>6, <3>1
    <3> QED  BY <3>1, <3>2 DEF LiveIds
  <2>2. \A id \in LiveIds(s) : id \in new
    BY <1>7 DEF LiveIds
  <2> QED  BY <1>2, <2>1, <2>2 DEF new
<1>11. Appends(doc, g, s)
  <2>1. \A id \in EntryIds(s) : id < s.size
    BY <1>4, <1>5, <1>9
  <2>2. Len(doc.objs) <= Len(g.objs) /\ \A p \in 1..Len(doc.objs) : g.objs[p] = doc.objs[p]
    BY <1>1, <1>3
  <2>3. Trailer(doc).size <= s.size
    BY <1>4, <1>5
  <2> QED  BY <1>1, <1>3, <1>4, <1>7, <1>8, <2>1, <2>2, <2>3 DEF Appends
<1>12. EntryIds(s) \subseteq NewValidationIds \union {Root.id, 0}
  BY <1>9 DEF new
<1> QED  BY <1>1, <1>4, <1>10, <1>11, <1>12 DEF new

\* What a reader finds in the document afterwards.
LEMMA ValidatedReads ==
  ASSUME doc \in File, Ready(doc), responses \in Nat, NEW a, IsAppendix(a)
  PROVE  LET g == ValidatedFile(a) IN
           /\ g \in File /\ EntriesExact(g)
           /\ Trailer(g).root = Root /\ Root = Trailer(doc).root /\ Trailer(g).size = ValidationSize
           /\ ListedIds(g) \subseteq ListedIds(doc) \union NewValidationIds \union {0}
           /\ InUse(g) = InUse(doc) \union NewValidationIds
           /\ \A i \in DOMAIN a : Entry(g, a[i].id).pos = Offset(i) /\ Latest(g, a[i].id) = a[i]
           /\ \A id \in InUse(doc) \ {Root.id} :
                Entry(g, id) = Entry(doc, id) /\ Latest(g, id) = Latest(doc, id)
           /\ Catalog(g) = CatalogWithStore /\ Latest(g, Root.id) = CatalogWithStore
           /\ Catalog(doc) = Latest(doc, Root.id)
<1>1. PICK g, s, n : g = ValidatedFile(a) /\ s = ValidationSection(a) /\ n = Len(doc.objs)
  OBVIOUS
<1>2. /\ Appends(doc, g, s) /\ LiveIds(s) = NewValidationIds \union {Root.id}
      /\ EntryIds(s) \subseteq NewValidationIds \union {Root.id, 0}
      /\ s.size = ValidationSize /\ s.root = Root
  BY <1>1, ValidatedAppends
<1>3. /\ EntriesExact(doc) /\ ReferencesFound(doc)
      /\ \A id \in ListedIds(doc) : id < Trailer(doc).size
  BY DEF Ready, WellFormed, SizeIsExact
<1>4. /\ EntriesExact(g)
      /\ \A id \in LiveIds(s) : \E p \in (n + 1)..Len(g.objs) :
           Entry(g, id).pos = p /\ Latest(g, id) = g.objs[p] /\ g.objs[p].id = id
      /\ \A id \in InUse(doc) \ LiveIds(s) :
           Entry(g, id) = Entry(doc, id) /\ Latest(g, id) = Latest(doc, id)
  BY <1>1, <1>2, <1>3, RevisionExact
<1>5. InUse(g) = InUse(doc) \union LiveIds(s)
  BY <1>2, <1>3, InUseGrows
<1>6. Trailer(g) = s /\ ListedIds(g) = ListedIds(doc) \union EntryIds(s) /\ g \in File
  <2>1. g \in File
    BY <1>2 DEF Appends
  <2>2. Appends(doc, g, s)
    BY <1>2
  <2> QED  BY <2>1, <2>2, SectionsKept
<1>7. /\ Root.id \in InUse(doc) /\ Root.gen = 0
      /\ \A id \in InUse(doc) : id \notin NewValidationIds
  BY NewIdsFree
<1>8. Root.id \in ListedIds(doc)
  BY <1>7 DEF InUse
<1>9. InUse(g) = InUse(doc) \union NewValidationIds
  BY <1>2, <1>5, <1>7
<1>10. ListedIds(g) \subseteq ListedIds(doc) \union NewValidationIds \union {0}
  BY <1>2, <1>6, <1>8
<1>11. /\ a \in Seq(Object) /\ \A i, j \in DOMAIN a : a[i].id = a[j].id => i = j
       /\ {a[i].id : i \in DOMAIN a} = NewValidationIds \union {Root.id}
       /\ \A i \in DOMAIN a : a[i].id = Root.id => a[i] = CatalogWithStore
  BY DEF IsAppendix
<1>12. ASSUME NEW i \in DOMAIN a
       PROVE  Entry(g, a[i].id).pos = Offset(i) /\ Latest(g, a[i].id) = a[i]
  <2>1. PICK p \in (n + 1)..Len(g.objs) :
          Entry(g, a[i].id).pos = p /\ Latest(g, a[i].id) = g.objs[p] /\ g.objs[p].id = a[i].id
    BY <1>2, <1>4, <1>11
  <2>2. /\ n \in Nat /\ DOMAIN doc.objs = 1..n /\ DOMAIN g.objs = 1..Len(g.objs)
        /\ \A j \in DOMAIN a : g.objs[Offset(j)] = a[j]
        /\ p \in DOMAIN g.objs => p \in DOMAIN doc.objs \/ \E j \in DOMAIN a : p = Offset(j)
    BY <1>1, <1>11, ValidatedObjects
  <2>3. p \in DOMAIN g.objs /\ p \notin DOMAIN doc.objs
    BY <2>2
  <2>4. PICK j \in DOMAIN a : p = Offset(j)
    BY <2>2, <2>3
  <2>5. j = i
    BY <1>11, <2>1, <2>2, <2>4
  <2> QED  BY <2>1, <2>2, <2>4, <2>5
<1>13. \A id \in InUse(doc) \ {Root.id} :
         Entry(g, id) = Entry(doc, id) /\ Latest(g, id) = Latest(doc, id)
  BY <1>2, <1>4, <1>7
<1>14. Latest(g, Root.id) = CatalogWithStore
  <2>1. PICK i \in DOMAIN a : a[i].id = Root.id
    <3>1. Root.id \in {a[i].id : i \in DOMAIN a}
      BY <1>11
    <3> QED  BY <3>1
  <2> QED  BY <1>11, <1>12, <2>1
<1>15. Root \in Ref /\ Root = Trailer(doc).root
  BY TrailerType DEF Root
<1>16. Catalog(g) = Latest(g, Root.id)
  <2>1. Resolves(g, Root) /\ Trailer(g).root = Root
    BY <1>2, <1>4, <1>6, <1>7, <1>9, <1>15, ResolvesExactly
  <2> QED  BY <1>4, <1>6, <1>15, <2>1, ResolvesExactly DEF Catalog
<1>17. Catalog(doc) = Latest(doc, Root.id)
  <2>1. Resolves(doc, Root)
    BY <1>3, <1>7, <1>15, ResolvesExactly
  <2> QED  BY <1>3, <1>15, <2>1, ResolvesExactly DEF Catalog
<1> QED  BY <1>1, <1>2, <1>4, <1>6, <1>9, <1>10, <1>12, <1>13, <1>14, <1>15, <1>16, <1>17

\* Only the catalog is rewritten, as a catalog with the same fields.
LEMMA ValidatedRevises ==
  ASSUME doc \in File, Ready(doc), responses \in Nat, NEW a, IsAppendix(a)
  PROVE  /\ Revises(doc, ValidatedFile(a))
         /\ Catalog(ValidatedFile(a)).kind = "Catalog"
         /\ Catalog(ValidatedFile(a)).kids = Catalog(doc).kids
         /\ \A r \in Ref : Resolves(doc, r) =>
              /\ Resolves(ValidatedFile(a), r)
              /\ Deref(ValidatedFile(a), r).kind = Deref(doc, r).kind
              /\ Deref(doc, r).kind # "Catalog" => Deref(ValidatedFile(a), r) = Deref(doc, r)
         /\ \A id \in NewValidationIds :
              /\ New(id) \in Ref /\ Resolves(ValidatedFile(a), New(id))
              /\ Deref(ValidatedFile(a), New(id)) = Latest(ValidatedFile(a), id)
<1>1. PICK g : g = ValidatedFile(a)
  OBVIOUS
<1>2. /\ g \in File /\ EntriesExact(g)
      /\ InUse(g) = InUse(doc) \union NewValidationIds
      /\ \A id \in InUse(doc) \ {Root.id} : Latest(g, id) = Latest(doc, id)
      /\ Catalog(g) = CatalogWithStore /\ Latest(g, Root.id) = CatalogWithStore
      /\ Catalog(doc) = Latest(doc, Root.id)
  BY <1>1, ValidatedReads
<1>3. CatalogWithStore.kind = "Catalog" /\ CatalogWithStore.kids = Catalog(doc).kids
  BY CatalogWithStoreFacts
<1>4. Catalog(doc).kind = "Catalog" /\ EntriesExact(doc)
  BY DEF Ready, WellFormed, ReferencesFound
<1>5. \A id \in InUse(doc) :
        /\ Latest(g, id).kind = Latest(doc, id).kind
        /\ Latest(doc, id).kind # "Catalog" => Latest(g, id) = Latest(doc, id)
  BY <1>2, <1>3, <1>4
<1>6. Revises(doc, g)
  BY <1>2, <1>5 DEF Revises
<1>7. ASSUME NEW r \in Ref, Resolves(doc, r)
      PROVE  /\ Resolves(g, r) /\ Deref(g, r).kind = Deref(doc, r).kind
             /\ Deref(doc, r).kind # "Catalog" => Deref(g, r) = Deref(doc, r)
  <2>1. r.gen = 0 /\ r.id \in InUse(doc) /\ Deref(doc, r) = Latest(doc, r.id)
    BY <1>4, <1>7, ResolvesExactly
  <2>2. Resolves(g, r) /\ Deref(g, r) = Latest(g, r.id)
    BY <1>2, <2>1, ResolvesExactly
  <2> QED  BY <1>5, <2>1, <2>2
<1>8. ASSUME NEW id \in NewValidationIds
      PROVE  New(id) \in Ref /\ Resolves(g, New(id)) /\ Deref(g, New(id)) = Latest(g, id)
  <2>1. id \in Nat
    <3>1. Trailer(doc).size \in Nat /\ ValidationSize \in Nat
      BY NewIdsFree
    <3> QED  BY <3>1 DEF NewValidationIds
  <2>2. New(id) \in Ref /\ New(id).gen = 0 /\ New(id).id = id
    BY <2>1, NewType DEF New
  <2> QED  BY <1>2, <2>2, ResolvesExactly
<1> QED  BY <1>1, <1>2, <1>3, <1>6, <1>7, <1>8

\* The last id of the document is the last that was given, and below /Size.
LEMMA ValidatedSize ==
  ASSUME doc \in File, Ready(doc), responses \in Nat, NEW a, IsAppendix(a)
  PROVE  /\ SizeIsExact(ValidatedFile(a)) /\ LastObjectID(ValidatedFile(a)) = ValidationSize
         /\ LastObjectID(doc) <= ValidationSize
<1>1. PICK g : g = ValidatedFile(a)
  OBVIOUS
<1>2. /\ g \in File /\ Trailer(g).size = ValidationSize
      /\ ListedIds(g) \subseteq ListedIds(doc) \union NewValidationIds \union {0}
      /\ InUse(g) = InUse(doc) \union NewValidationIds
  BY <1>1, ValidatedReads
<1>3. WellFormed(doc) /\ SizeIsExact(doc)
  BY DEF Ready, WellFormed
<1>4. /\ Trailer(doc).size \in Nat \ {0} /\ ValidationSize \in Nat
      /\ StoreID \in NewValidationIds
  BY NewIdsFree
<1>5. Trailer(doc).size < ValidationSize /\ ValidationSize - 1 \in NewValidationIds
  BY <1>4 DEF NewValidationIds
<1>6. \A id \in ListedIds(doc) : id < Trailer(doc).size
  BY <1>3 DEF SizeIsExact
<1>7. \A id \in ListedIds(doc) : id < ValidationSize
  <2> TAKE id \in ListedIds(doc)
  <2>1. PICK s \in DOMAIN doc.sections : id \in EntryIds(doc.sections[s])
    BY DEF ListedIds
  <2>2. PICK i \in DOMAIN doc.sections[s].entries : id = doc.sections[s].entries[i].id
    BY <2>1 DEF EntryIds
  <2>3. doc.sections[s] \in Section
    BY <2>1 DEF File
  <2>4. doc.sections[s].entries[i] \in XrefEntry
    BY <2>2, <2>3 DEF Section
  <2>5. id \in Nat
    BY <2>2, <2>4 DEF XrefEntry
  <2> QED  BY <1>4, <1>5, <1>6, <2>5
<1>8. \A id \in ListedIds(g) : id < Trailer(g).size
  BY <1>2, <1>4, <1>7 DEF NewValidationIds
<1>9. LastObjectID(g) = ValidationSize
  <2>1. PICK size, Ids : size = ValidationSize /\ Ids = {0} \union InUse(g)
    OBVIOUS
  <2>2. Ids \in SUBSET (0..size) /\ Ids # {} /\ size - 1 \in Ids /\ size \in Nat
    BY <1>2, <1>4, <1>5, <1>8, <2>1, InUseListed
  <2>3. \A id \in Ids : id <= size - 1
    <3>1. \A id \in InUse(g) : id \in ListedIds(g) /\ id \in Nat
      BY <1>2, InUseFacts
    <3> QED  BY <1>2, <1>4, <1>5, <1>8, <2>1, <3>1
  <2>4. PICK m \in Nat : m = Max(Ids) /\ m \in Ids /\ \A id \in Ids : id <= m
    BY <2>2, MaxOfBounded
  <2>5. m <= size - 1 /\ size - 1 <= m
    BY <2>2, <2>3, <2>4
  <2>6. m + 1 = size
    BY <2>2, <2>5
  <2> QED  BY <2>1, <2>4, <2>6 DEF LastObjectID
<1>10. LastObjectID(doc) <= Trailer(doc).size /\ LastObjectID(doc) \in Nat
  BY <1>3, ItemCountIsSize, LastObjectIDAboveInUse
<1>11. LastObjectID(doc) <= ValidationSize
  BY <1>4, <1>5, <1>10
<1> QED  BY <1>1, <1>2, <1>8, <1>9, <1>11 DEF SizeIsExact

\* Whatever is in use refers to what is in use.
LEMMA ValidatedReferences ==
  ASSUME doc \in File, Ready(doc), responses \in Nat, NEW a, IsAppendix(a)
  PROVE  ReferencesFound(ValidatedFile(a))
<1>1. PICK g : g = ValidatedFile(a)
  OBVIOUS
<1>2. /\ g \in File /\ EntriesExact(g)
      /\ Trailer(g).root = Root /\ Root = Trailer(doc).root
      /\ InUse(g) = InUse(doc) \union NewValidationIds
      /\ \A i \in DOMAIN a : Latest(g, a[i].id) = a[i]
      /\ \A id \in InUse(doc) \ {Root.id} : Latest(g, id) = Latest(doc, id)
      /\ Catalog(g) = CatalogWithStore /\ Latest(g, Root.id) = CatalogWithStore
  BY <1>1, ValidatedReads
<1>3. /\ EntriesExact(doc) /\ ReferencesFound(doc)
  BY DEF Ready, WellFormed
<1>4. /\ \A r \in Ref : Resolves(doc, r) => Resolves(g, r)
      /\ \A id \in NewValidationIds : Resolves(g, New(id))
      /\ Catalog(g).kind = "Catalog"
  BY <1>1, ValidatedRevises
<1>5. /\ StoreID \in NewValidationIds
      /\ \A i \in 1..NumberOfStreams : StreamID(i) \in NewValidationIds
  BY NewIdsFree
<1>6. ASSUME NEW id \in InUse(doc) \ {Root.id}, NEW r \in RefsOf(Latest(g, id))
      PROVE  Resolves(g, r)
  <2>1. Latest(g, id) = Latest(doc, id) /\ Latest(doc, id) \in Object
    BY <1>2, <1>3, LatestFacts
  <2>2. r \in Ref /\ Resolves(doc, r)
    BY <1>3, <1>6, <2>1, RefsType, LatestRefers
  <2> QED  BY <1>4, <2>2
<1>7. ASSUME NEW r \in RefsOf(CatalogWithStore)
      PROVE  Resolves(g, r)
  <2>1. CatalogWithStore \in Object /\ (r = New(StoreID) \/ Resolves(doc, r))
    BY <1>7, CatalogWithStoreFacts
  <2>2. r \in Ref
    BY <1>7, <2>1, RefsType
  <2> QED  BY <1>4, <1>5, <2>1, <2>2
<1>8. ASSUME NEW decodes \in BOOLEAN, NEW r \in RefsOf(Store(decodes))
      PROVE  Resolves(g, r)
  <2>1. /\ Store(decodes) \in Object
        /\ (\E i \in 1..NumberOfStreams : r = New(StreamID(i))) \/ Resolves(doc, r)
    BY <1>8, StoreFacts
  <2>2. r \in Ref
    BY <1>8, <2>1, RefsType
  <2> QED  BY <1>4, <1>5, <2>1, <2>2
<1>9. ASSUME NEW id \in NewValidationIds, NEW r \in RefsOf(Latest(g, id))
      PROVE  Resolves(g, r)
  <2>1. PICK i \in DOMAIN a : a[i].id = id
    BY DEF IsAppendix
  <2>2. Latest(g, id) = a[i]
    BY <1>2, <2>1
  <2>3. \/ a[i] = CatalogWithStore \/ (\E decodes \in BOOLEAN : a[i] = Store(decodes))
        \/ RefsOf(a[i]) = {}
    BY DEF IsAppendix
  <2> QED  BY <1>7, <1>8, <1>9, <2>2, <2>3
<1>10. \A id \in InUse(g) : \A r \in RefsOf(Latest(g, id)) : Resolves(g, r)
  BY <1>2, <1>6, <1>7, <1>9
<1>11. Resolves(g, Trailer(g).root)
  <2>1. Root \in Ref /\ Resolves(doc, Root)
    BY <1>2, <1>3, TrailerType DEF ReferencesFound
  <2> QED  BY <1>2, <1>4, <2>1
<1> QED  BY <1>1, <1>4, <1>10, <1>11 DEF ReferencesFound

\* The fields that a signature may fill are what they were.
LEMMA ValidatedApart ==
  ASSUME doc \in File, Ready(doc), responses \in Nat, NEW a, IsAppendix(a)
  PROVE  FieldsApart(ValidatedFile(a))
<1>1. PICK g : g = ValidatedFile(a)
  OBVIOUS
<1>2. /\ WellFormed(doc) /\ CatalogExact(doc) /\ FieldsApart(doc)
  BY DEF Ready, WellFormed, Extensible
<1>3. /\ Catalog(g).kids = Catalog(doc).kids
      /\ \A r \in Ref : Resolves(doc, r) =>
           /\ Deref(g, r).kind = Deref(doc, r).kind
           /\ Deref(doc, r).kind # "Catalog" => Deref(g, r) = Deref(doc, r)
  BY <1>1, ValidatedRevises
<1>4. PICK fields : fields = Catalog(doc).kids
  OBVIOUS
<1>5. fields \in Seq(Ref) /\ \A i \in DOMAIN fields : fields[i] \in Ref /\ Resolves(doc, fields[i])
  BY <1>2, <1>4, CatalogRefers
<1>6. ASSUME NEW i \in Fillable(g)
      PROVE  i \in Fillable(doc) /\ FamilyOf(g, i) = FamilyOf(doc, i)
  <2>1. i \in DOMAIN fields /\ Deref(g, fields[i]).kind \in {"Initials", "Date"}
    BY <1>3, <1>4 DEF Fillable
  <2>2. Deref(doc, fields[i]).kind \in {"Initials", "Date"} /\ Deref(g, fields[i]) = Deref(doc, fields[i])
    BY <1>3, <1>5, <2>1
  <2> QED  BY <1>3, <1>4, <2>1, <2>2 DEF Fillable, FamilyOf
<1>7. ASSUME NEW i \in Fillable(doc), NEW k \in DOMAIN FamilyOf(doc, i)
      PROVE  Deref(g, FamilyOf(doc, i)[k]).kind = Deref(doc, FamilyOf(doc, i)[k]).kind
  <2>1. i \in DOMAIN fields /\ Deref(doc, fields[i]) \in Object
    BY <1>4, DerefType DEF Fillable
  <2>2. Deref(doc, fields[i]).kids \in Seq(Ref) /\ fields[i] \in Ref
    BY <1>5, <2>1 DEF Object
  <2>3. FamilyOf(doc, i) \in Seq(Ref)
    BY <1>4, <2>2, AppendProperties DEF FamilyOf
  <2>4. FamilyOf(doc, i)[k] \in Ref
    BY <2>3
  <2>5. Deref(doc, FamilyOf(doc, i)[k]).kind \in {"Initials", "Date", "Text"}
    BY <1>2 DEF FieldsApart
  <2>6. Resolves(doc, FamilyOf(doc, i)[k])
    BY <2>5 DEF Deref, Null
  <2> QED  BY <1>3, <2>4, <2>6
<1>8. FieldsApart(g)
  BY <1>2, <1>6, <1>7 DEF FieldsApart
<1> QED  BY <1>1, <1>8

\* No id is given away that an object of the file has.
LEMMA ValidatedIdsExact ==
  ASSUME doc \in File, Ready(doc), responses \in Nat, NEW a, IsAppendix(a)
  PROVE  IdsExact(ValidatedFile(a))
<1>1. PICK g : g = ValidatedFile(a)
  OBVIOUS
<1>2. /\ LastObjectID(g) = ValidationSize /\ LastObjectID(doc) <= ValidationSize
      /\ LastObjectID(doc) \in Nat
  BY <1>1, ValidatedSize, LastObjectIDAboveInUse
<1>3. /\ a \in Seq(Object) /\ \A i \in DOMAIN a : a[i].id \in NewValidationIds \union {Root.id}
  BY DEF IsAppendix
<1>4. /\ \A p \in DOMAIN doc.objs : g.objs[p] = doc.objs[p]
      /\ \A i \in DOMAIN a : g.objs[Offset(i)] = a[i]
      /\ \A p \in DOMAIN g.objs : p \in DOMAIN doc.objs \/ \E i \in DOMAIN a : p = Offset(i)
  BY <1>1, <1>3, ValidatedObjects
<1>5. /\ Trailer(doc).size \in Nat /\ ValidationSize \in Nat
      /\ Root.id \in Nat /\ Root.id < Trailer(doc).size /\ StoreID \in NewValidationIds
  BY NewIdsFree
<1>6. \A i \in DOMAIN a : a[i].id <= ValidationSize
  BY <1>3, <1>5 DEF NewValidationIds
<1>7. ASSUME NEW p \in DOMAIN doc.objs
      PROVE  doc.objs[p].id <= ValidationSize
  <2>1. doc.objs[p] \in Object
    BY <1>7 DEF File
  <2>2. doc.objs[p].id \in Nat /\ doc.objs[p].id <= LastObjectID(doc)
    BY <1>7, <2>1 DEF Object, Ready, Extensible, IdsExact
  <2> QED  BY <1>2, <1>5, <2>2
<1> QED  BY <1>1, <1>2, <1>4, <1>6, <1>7 DEF IdsExact

\* All texts of the catalog agree on the form, the new one too.
LEMMA ValidatedCatalog ==
  ASSUME doc \in File, Ready(doc), responses \in Nat, NEW a, IsAppendix(a)
  PROVE  CatalogExact(ValidatedFile(a))
<1>1. PICK g : g = ValidatedFile(a)
  OBVIOUS
<1>2. /\ g \in File /\ EntriesExact(g) /\ Trailer(g).root = Root /\ Root = Trailer(doc).root
      /\ Latest(g, StoreID).kind = "DSS"
  <2>1. PICK i \in DOMAIN a : a[i].id = StoreID
    <3>1. StoreID \in NewValidationIds
      BY NewIdsFree
    <3>2. {a[i].id : i \in DOMAIN a} = NewValidationIds \union {Root.id}
      BY DEF IsAppendix
    <3>3. StoreID \in {a[i].id : i \in DOMAIN a}
      BY <3>1, <3>2
    <3> QED  BY <3>3
  <2>2. PICK decodes \in BOOLEAN : a[i] = Store(decodes)
    BY <2>1 DEF IsAppendix
  <2>3. a[i].kind = "DSS"
    BY <2>2, StoreFacts
  <2> QED  BY <1>1, <2>1, <2>3, ValidatedReads
<1>3. /\ Catalog(g).kind = "Catalog" /\ Catalog(g).kids = Catalog(doc).kids
      /\ \A r \in Ref : Resolves(doc, r) => Resolves(g, r) /\ Deref(g, r).kind = Deref(doc, r).kind
      /\ \A id \in NewValidationIds :
           New(id) \in Ref /\ Resolves(g, New(id)) /\ Deref(g, New(id)) = Latest(g, id)
  BY <1>1, ValidatedRevises
<1>4. /\ CatalogExact(doc) /\ CatalogTexts = TextsOf(doc, Root) /\ StoreID \in NewValidationIds
  BY NewIdsFree DEF Ready, Extensible, CatalogTexts
<1>5. /\ a \in Seq(Object) /\ \A i \in DOMAIN a : a[i].id = Root.id => a[i] = CatalogWithStore
  BY DEF IsAppendix
<1>6. /\ \A p \in DOMAIN doc.objs : g.objs[p] = doc.objs[p]
      /\ \A i \in DOMAIN a : g.objs[Offset(i)] = a[i]
      /\ \A p \in DOMAIN g.objs : p \in DOMAIN doc.objs \/ \E i \in DOMAIN a : p = Offset(i)
  BY <1>1, <1>5, ValidatedObjects
<1>7. \A p \in TextsOf(g, Root) : \/ p \in CatalogTexts /\ g.objs[p] = doc.objs[p]
                                 \/ g.objs[p] = CatalogWithStore
  BY <1>4, <1>5, <1>6 DEF TextsOf
<1>8. ASSUME NEW p \in CatalogTexts
      PROVE  /\ doc.objs[p] \in Object
             /\ doc.objs[p].kind = "Catalog" /\ doc.objs[p].kids = Catalog(g).kids
             /\ \A r \in RefsOf(doc.objs[p]) : Resolves(g, r)
             /\ \A r \in Range(doc.objs[p].dss) : Deref(g, r).kind = "DSS"
  <2>1. p \in DOMAIN doc.objs
    BY <1>4, <1>8 DEF TextsOf
  <2>2. doc.objs[p] \in Object
    BY <2>1 DEF File
  <2>3. /\ doc.objs[p].kind = "Catalog" /\ doc.objs[p].kids = Catalog(doc).kids
        /\ \A r \in RefsOf(doc.objs[p]) : Resolves(doc, r)
        /\ \A i \in DOMAIN doc.objs[p].dss : Deref(doc, doc.objs[p].dss[i]).kind = "DSS"
    BY <1>2, <1>4, <1>8 DEF CatalogExact
  <2>4. \A r \in RefsOf(doc.objs[p]) : r \in Ref
    BY <2>2, RefsType
  <2>5. \A r \in Range(doc.objs[p].dss) : r \in RefsOf(doc.objs[p]) /\ Deref(doc, r).kind = "DSS"
    BY <2>3 DEF Range, RefsOf
  <2> QED  BY <1>3, <2>2, <2>3, <2>4, <2>5
<1>9. /\ CatalogWithStore.kind = "Catalog" /\ CatalogWithStore.kids = Catalog(g).kids
      /\ \A r \in RefsOf(CatalogWithStore) : Resolves(g, r)
      /\ \A r \in Range(CatalogWithStore.dss) : Deref(g, r).kind = "DSS"
  <2>1. PICK p \in CatalogTexts : CatalogWithStore.dss = <<New(StoreID)>> \o doc.objs[p].dss
    BY CatalogWithStoreFacts
  <2>2. doc.objs[p].dss \in Seq(Ref) /\ New(StoreID) \in Ref
    BY <1>3, <1>4, <1>8, RefsType
  <2>3. \A r \in Range(CatalogWithStore.dss) : r = New(StoreID) \/ r \in Range(doc.objs[p].dss)
    BY <2>1, <2>2, PutBefore
  <2>4. \A r \in RefsOf(CatalogWithStore) : r \in Ref /\ (r = New(StoreID) \/ Resolves(doc, r))
    BY CatalogWithStoreFacts, RefsType
  <2>5. \A r \in RefsOf(CatalogWithStore) : Resolves(g, r)
    BY <1>3, <1>4, <2>4
  <2>6. \A r \in Range(CatalogWithStore.dss) : Deref(g, r).kind = "DSS"
    BY <1>2, <1>3, <1>4, <1>8, <2>3
  <2>7. CatalogWithStore.kind = "Catalog" /\ CatalogWithStore.kids = Catalog(g).kids
    BY <1>3, CatalogWithStoreFacts
  <2> QED  BY <2>5, <2>6, <2>7
<1>10. ASSUME NEW p \in TextsOf(g, Root)
       PROVE  /\ g.objs[p].kind = "Catalog" /\ g.objs[p].kids = Catalog(g).kids
              /\ \A r \in RefsOf(g.objs[p]) : Resolves(g, r)
              /\ \A i \in DOMAIN g.objs[p].dss : Deref(g, g.objs[p].dss[i]).kind = "DSS"
  <2>1. /\ g.objs[p].kind = "Catalog" /\ g.objs[p].kids = Catalog(g).kids
        /\ \A r \in RefsOf(g.objs[p]) : Resolves(g, r)
        /\ \A r \in Range(g.objs[p].dss) : Deref(g, r).kind = "DSS"
    BY <1>7, <1>8, <1>9
  <2> QED  BY <2>1 DEF Range
<1> QED  BY <1>1, <1>2, <1>10 DEF CatalogExact

\* The last /Contents is that of an object in use: a new one, or the last of before.
LEMMA ValidatedContents ==
  ASSUME doc \in File, Ready(doc), responses \in Nat, NEW a, IsAppendix(a)
  PROVE  ContentsExact(ValidatedFile(a))
<1>1. PICK g : g = ValidatedFile(a)
  OBVIOUS
<1>2. InUse(g) = InUse(doc) \union NewValidationIds /\ ContentsExact(doc) /\ Root.id \in InUse(doc)
  BY <1>1, ValidatedReads, NewIdsFree DEF Ready, Extensible
<1>3. a \in Seq(Object) /\ \A i \in DOMAIN a : a[i].id \in NewValidationIds \union {Root.id}
  BY DEF IsAppendix
<1>4. /\ \A p \in DOMAIN doc.objs : p \in DOMAIN g.objs /\ g.objs[p] = doc.objs[p]
      /\ \A i \in DOMAIN a : g.objs[Offset(i)] = a[i]
      /\ \A p \in DOMAIN g.objs : p \in DOMAIN doc.objs \/ \E i \in DOMAIN a : p = Offset(i)
  BY <1>1, <1>3, ValidatedObjects
<1>5. SUFFICES ASSUME NEW p \in ContentsOf(g), \A q \in ContentsOf(g) : q <= p
               PROVE  g.objs[p].id \in InUse(g)
  BY <1>1 DEF ContentsExact
<1>6. p \in DOMAIN g.objs
  BY <1>5 DEF ContentsOf
<1>7. CASE p \in DOMAIN doc.objs
  <2>1. p \in ContentsOf(doc) /\ ContentsOf(doc) \subseteq ContentsOf(g)
    BY <1>4, <1>5, <1>7 DEF ContentsOf
  <2>2. doc.objs[p].id \in InUse(doc)
    BY <1>2, <1>5, <2>1 DEF ContentsExact
  <2> QED  BY <1>2, <1>4, <1>7, <2>2
<1>8. CASE \E i \in DOMAIN a : p = Offset(i)
  BY <1>2, <1>3, <1>4, <1>8
<1> QED  BY <1>4, <1>6, <1>7, <1>8

\* Validation data make a document that is ready for the next call of one that was,
\* and keep all of IncrementalFile's promise: only the catalog is rewritten.
LEMMA ValidatedReady ==
  ASSUME doc \in File, Ready(doc), responses \in Nat, NEW a, IsAppendix(a)
  PROVE  /\ Ready(ValidatedFile(a)) /\ Revises(doc, ValidatedFile(a))
         /\ Validated(doc, ValidatedFile(a))
<1>1. PICK g : g = ValidatedFile(a)
  OBVIOUS
<1>2. /\ g \in File /\ EntriesExact(g) /\ Trailer(g).root = Root /\ Root = Trailer(doc).root
      /\ InUse(g) = InUse(doc) \union NewValidationIds
      /\ \A i \in DOMAIN a : Entry(g, a[i].id).pos = Offset(i)
      /\ \A id \in InUse(doc) \ {Root.id} : Entry(g, id) = Entry(doc, id)
  BY <1>1, ValidatedReads
<1>3. Revises(doc, g) /\ Catalog(g).kids = Catalog(doc).kids
  BY <1>1, ValidatedRevises
<1>4. /\ a \in Seq(Object) /\ {a[i].id : i \in DOMAIN a} = NewValidationIds \union {Root.id}
      /\ \A i \in DOMAIN a : a[i].kind \notin RewritableKinds \union SignatureKinds
  <2>1. /\ a \in Seq(Object) /\ {a[i].id : i \in DOMAIN a} = NewValidationIds \union {Root.id}
        /\ \A i \in DOMAIN a : a[i] = CatalogWithStore \/ a[i].kind \in {"Stream", "DSS", "XRef"}
    BY DEF IsAppendix
  <2>2. CatalogWithStore.kind = "Catalog"
    BY CatalogWithStoreFacts
  <2> QED  BY <2>1, <2>2 DEF RewritableKinds, SignatureKinds
<1>5. /\ Len(doc.objs) \in Nat /\ Len(a) \in Nat /\ Len(g.objs) = Len(doc.objs) + Len(a)
      /\ DOMAIN a = 1..Len(a)
      /\ \A p \in DOMAIN doc.objs : g.objs[p] = doc.objs[p]
      /\ \A i \in DOMAIN a : g.objs[Offset(i)] = a[i]
      /\ \A p \in DOMAIN g.objs : p \in DOMAIN doc.objs \/ \E i \in DOMAIN a : p = Offset(i)
  BY <1>1, <1>4, ValidatedObjects
<1>6. /\ WellFormed(doc) /\ RewritableKnown(doc) /\ CatalogExact(doc) /\ SignaturesFound(doc)
  BY DEF Ready, Extensible
<1>7. WellFormed(g)
  BY <1>1, <1>2, ValidatedSize, ValidatedReferences, ValidatedApart DEF WellFormed
<1>8. RewritableKnown(g)
  BY <1>4, <1>5, <1>6 DEF RewritableKnown
<1>9. SignaturesFound(g)
  <2> SUFFICES ASSUME NEW p \in DOMAIN g.objs, g.objs[p].kind \in SignatureKinds
               PROVE  \E i \in ExistingSignatures(g) : SignatureAt(g, i) = g.objs[p]
    BY DEF SignaturesFound, SignatureKinds
  <2>1. p \in DOMAIN doc.objs
    BY <1>4, <1>5
  <2>2. doc.objs[p].kind \in SignatureKinds /\ g.objs[p] = doc.objs[p]
    BY <1>5, <2>1
  <2> QED  BY <1>2, <1>3, <1>6, <2>1, <2>2, SignaturesFoundAgain
<1>10. Extensible(g)
  BY <1>1, <1>9, ValidatedIdsExact, ValidatedCatalog, ValidatedContents DEF Extensible
<1>11. Len(g.objs) > Len(doc.objs)
  <2>1. PICK i \in DOMAIN a : a[i].id = Root.id
    BY <1>4
  <2> QED  BY <1>5, <2>1
<1>12. KeepsLive(doc, g, {Trailer(doc).root.id})
  <2>1. \A i \in DOMAIN a : Offset(i) \in (Len(doc.objs) + 1)..Len(g.objs)
    BY <1>5 DEF Offset
  <2>2. \A id \in NewValidationIds \union {Root.id} :
          Entry(g, id).pos \in (Len(doc.objs) + 1)..Len(g.objs)
    BY <1>2, <1>4, <2>1
  <2> QED  BY <1>2, <2>2 DEF KeepsLive
<1>13. FieldIdsOf(g) = FieldIdsOf(doc)
  BY <1>3 DEF FieldIdsOf
<1> QED  BY <1>1, <1>2, <1>3, <1>7, <1>8, <1>10, <1>11, <1>12, <1>13 DEF Ready, Validated

\* The new store comes before those that the texts of the catalog had, if they had
\* the same ones, and holds a stream for each certificate and response.
LEMMA ValidatedStores ==
  ASSUME doc \in File, Ready(doc), responses \in Nat, NEW a, IsAppendix(a),
         NEW dss, \A p \in CatalogTexts : doc.objs[p].dss = dss
  PROVE  LET g == ValidatedFile(a) IN
           /\ Catalog(g).dss # <<>>
           /\ dss # <<>> => Last(Catalog(g).dss) = Last(dss)
           /\ dss = <<>> => Holds(StoreOf(g), g)
<1>1. PICK g, n : g = ValidatedFile(a) /\ n = NumberOfStreams
  OBVIOUS
<1>2. Catalog(g) = CatalogWithStore /\ \A i \in DOMAIN a : Latest(g, a[i].id) = a[i]
  BY <1>1, ValidatedReads
<1>3. PICK p \in CatalogTexts : CatalogWithStore.dss = <<New(StoreID)>> \o doc.objs[p].dss
  BY CatalogWithStoreFacts
<1>4. \A id \in NewValidationIds :
        New(id) \in Ref /\ Resolves(g, New(id)) /\ Deref(g, New(id)) = Latest(g, id)
  BY <1>1, ValidatedRevises
<1>5. /\ StoreID \in NewValidationIds
      /\ \A i \in 1..n : StreamID(i) \in NewValidationIds
  BY <1>1, NewIdsFree
<1>6. dss \in Seq(Ref)
  <2>1. p \in DOMAIN doc.objs
    BY <1>3 DEF CatalogTexts, TextsOf
  <2>2. doc.objs[p] \in Object
    BY <2>1 DEF File
  <2> QED  BY <1>3, <2>2, RefsType
<1>7. PICK new, all : new = New(StoreID) /\ all = <<new>> \o dss
  OBVIOUS
<1>8. new \in Ref /\ Catalog(g).dss = all
  BY <1>2, <1>3, <1>4, <1>5, <1>7
<1>9. /\ Len(dss) \in Nat /\ Len(all) = 1 + Len(dss)
      /\ all[1] = new /\ \A i \in 1..Len(dss) : all[1 + i] = dss[i]
  BY <1>6, <1>7, <1>8, <<new>> \in Seq(Ref), Len(<<new>>) = 1, <<new>>[1] = new, ConcatPlaces
<1>10. all # <<>>
  BY <1>9
<1>11. dss # <<>> => Last(all) = Last(dss)
  <2>1. dss # <<>> => Len(dss) \in 1..Len(dss)
    BY <1>6
  <2> QED  BY <1>9, <2>1 DEF Last
<1>12. ASSUME dss = <<>>
       PROVE  Holds(StoreOf(g), g)
  <2>1. Last(all) = new
    <3>1. Len(dss) = 0
      BY <1>12
    <3> QED  BY <1>9, <3>1 DEF Last
  <2>2. PICK i \in DOMAIN a : a[i].id = StoreID
    BY <1>5 DEF IsAppendix
  <2>3. PICK decodes \in BOOLEAN : a[i] = Store(decodes)
    BY <2>2 DEF IsAppendix
  <2>4. StoreOf(g) = Store(decodes)
    BY <1>2, <1>4, <1>5, <1>7, <1>8, <1>10, <2>1, <2>2, <2>3 DEF StoreOf
  <2>5. /\ Store(decodes).kind = "DSS" /\ Len(Store(decodes).kids) = n
        /\ \A k \in DOMAIN Store(decodes).kids :
             k \in 1..n /\ Store(decodes).kids[k] = New(StreamID(k))
    BY <1>1, StoreFacts
  <2>6. ASSUME NEW k \in 1..n
        PROVE  Deref(g, New(StreamID(k))).kind = "Stream"
    <3>1. PICK j \in DOMAIN a : a[j].id = StreamID(k)
      BY <1>5, <2>6 DEF IsAppendix
    <3>2. a[j].kind = "Stream"
      BY <1>1, <2>6, <3>1 DEF IsAppendix
    <3> QED  BY <1>2, <1>4, <1>5, <2>6, <3>1, <3>2
  <2>7. n = ChainLength + responses /\ n \in Nat
    BY <1>1, ValidationIds DEF NumberOfStreams
  <2>8. Len(Store(decodes).kids) >= ChainLength + responses
    BY <2>5, <2>7
  <2> QED  BY <2>4, <2>5, <2>6, <2>8 DEF Holds
<1> QED  BY <1>1, <1>8, <1>10, <1>11, <1>12

-----------------------------------------------------------------------------
(* Stores across revisions.                                                *)

\* The store that a reader finds in a document is an object of it.
LEMMA StoreFound ==
  ASSUME NEW f \in File, WellFormed(f), CatalogExact(f), Catalog(f).dss # <<>>
  PROVE  LET r == Last(Catalog(f).dss) IN
           /\ r \in Ref /\ StoreOf(f) = Deref(f, r) /\ StoreOf(f).kind = "DSS"
           /\ StoreOf(f) \in Object /\ StoreOf(f) # Null
           /\ StoreOf(f).id \in InUse(f) /\ StoreOf(f) = Latest(f, StoreOf(f).id)
<1>1. PICK r : r = Last(Catalog(f).dss)
  OBVIOUS
<1>2. r \in Ref /\ Deref(f, r).kind = "DSS" /\ EntriesExact(f)
  BY <1>1, CatalogRefers DEF WellFormed
<1>3. StoreOf(f) = Deref(f, r)
  BY <1>1 DEF StoreOf
<1>4. Resolves(f, r)
  BY <1>2 DEF Deref, Null
<1>5. r.id \in InUse(f) /\ Deref(f, r) = Latest(f, r.id)
  BY <1>2, <1>4, ResolvesExactly
<1>6. Latest(f, r.id).id = r.id /\ Latest(f, r.id) \in Object
  BY <1>2, <1>5, LatestFacts
<1>7. StoreOf(f) # Null
  BY <1>2, <1>3 DEF Null
<1> QED  BY <1>1, <1>2, <1>3, <1>5, <1>6, <1>7

\* It is found again where it is still the last, and so is what it holds.
LEMMA StoreFoundAgain ==
  ASSUME NEW f \in File, NEW g \in File, WellFormed(f), CatalogExact(f), EntriesExact(g),
         Revises(f, g), StoreKept(f, g), Catalog(f).dss # <<>>
  PROVE  /\ Catalog(g).dss # <<>> /\ StoreOf(g) = StoreOf(f)
         /\ Holds(StoreOf(f), f) => Holds(StoreOf(f), g)
<1>1. PICK r : r = Last(Catalog(f).dss)
  OBVIOUS
<1>2. r \in Ref /\ Deref(f, r).kind = "DSS" /\ StoreOf(f) = Deref(f, r) /\ StoreOf(f) \in Object
  BY <1>1, StoreFound
<1>3. EntriesExact(f)
  BY DEF WellFormed
<1>4. Catalog(g).dss # <<>> /\ Last(Catalog(g).dss) = r
  BY <1>1 DEF StoreKept
<1>5. Deref(g, r) = Deref(f, r)
  BY <1>2, <1>3, KindFoundAgain
<1>6. StoreOf(g) = StoreOf(f)
  BY <1>2, <1>4, <1>5 DEF StoreOf
<1>7. PICK kids \in Seq(Ref) : kids = StoreOf(f).kids
  BY <1>2, RefsType
<1>8. ASSUME NEW i \in DOMAIN kids, Deref(f, kids[i]).kind = "Stream"
      PROVE  Deref(g, kids[i]).kind = "Stream"
  <2>1. kids[i] \in Ref
    OBVIOUS
  <2> QED  BY <1>3, <1>8, <2>1, KindFoundAgain
<1>9. Holds(StoreOf(f), f) => Holds(StoreOf(f), g)
  BY <1>7, <1>8 DEF Holds
<1> QED  BY <1>4, <1>6, <1>9

\* A signature repeats the store that was known; its section lists none.
LEMMA SignedFileStores ==
  ASSUME IInv, pc = "replace", CallInv, Ready(doc)
  PROVE  /\ StoreKept(doc, SignedFile)
         /\ \A p \in TextsOf(SignedFile, Trailer(SignedFile).root) :
              SignedFile.objs[p].dss = KnownStores(doc)
         /\ Catalog(doc).dss # <<>> =>
              /\ Catalog(SignedFile).dss # <<>> /\ StoreOf(SignedFile) = StoreOf(doc)
              /\ Holds(StoreOf(doc), doc) => Holds(StoreOf(doc), SignedFile)
              /\ req.certType = "TimeStamp" => StoreOf(doc).id \notin EntryIds(Trailer(SignedFile))
<1>1. PICK g : g = SignedFile
  OBVIOUS
<1>2. WellFormed(doc) /\ IdsExact(doc) /\ CatalogExact(doc) /\ doc \in File
  BY DEF Ready, Extensible, IInv, TypeOK
<1>3. /\ Catalog(g).dss = KnownStores(doc)
      /\ \A p \in TextsOf(g, Trailer(g).root) : g.objs[p].dss = KnownStores(doc)
  BY <1>1, <1>2, SignedFileCatalog
<1>4. StoreKept(doc, g)
  <2> SUFFICES ASSUME Catalog(doc).dss # <<>>
               PROVE  Catalog(g).dss # <<>> /\ Last(Catalog(g).dss) = Last(Catalog(doc).dss)
    BY DEF StoreKept
  <2>1. PICK r : r = Last(Catalog(doc).dss)
    OBVIOUS
  <2>2. Catalog(g).dss = <<r>>
    BY <1>3, <2>1 DEF KnownStores
  <2>3. <<r>> # <<>> /\ Last(<<r>>) = r
    BY DEF Last
  <2> QED  BY <2>1, <2>2, <2>3
<1>5. g \in File /\ EntriesExact(g) /\ Revises(doc, g)
  BY <1>1, <1>2, SignedFileReads, SignedFileRevises
<1>6. ASSUME Catalog(doc).dss # <<>>
      PROVE  /\ Catalog(g).dss # <<>> /\ StoreOf(g) = StoreOf(doc)
             /\ Holds(StoreOf(doc), doc) => Holds(StoreOf(doc), g)
             /\ req.certType = "TimeStamp" => StoreOf(doc).id \notin EntryIds(Trailer(g))
  <2>1. /\ StoreOf(doc).kind = "DSS" /\ StoreOf(doc).id \in InUse(doc)
        /\ StoreOf(doc) = Latest(doc, StoreOf(doc).id)
    BY <1>2, <1>6, StoreFound
  <2>2. req.certType = "TimeStamp" => StoreOf(doc).id \notin EntryIds(Trailer(g))
    BY <1>1, <1>2, <2>1, SignedFileArchived
  <2> QED  BY <1>2, <1>4, <1>5, <1>6, <2>2, StoreFoundAgain
<1> QED  BY <1>1, <1>3, <1>4, <1>6

-----------------------------------------------------------------------------
(* The steps keep the invariant of the documents.                          *)

\* Between the parts of a call nothing is asked of the buffer but to be ready.
LEMMA OutsideKeepsSound ==
  ASSUME Ready(doc'), pc' = "idle"
  PROVE  SoundInv'
<1>1. ~Working'
  BY DEF Working
<1>2. WellFormed(doc') /\ RewritableKnown(doc')
  BY DEF Ready
<1> QED  BY <1>1, <1>2 DEF SoundInv

\* Parts of a call that leave both documents alone.
LEMMA DocumentsStay ==
  ASSUME LTFileInv, UNCHANGED <<doc, stored>>, SoundInv'
  PROVE  /\ Ready(doc)' /\ Ready(stored)' /\ Revises(stored, doc)'
<1>1. Ready(doc) /\ Ready(stored) /\ Revises(stored, doc)
  BY DEF LTFileInv
<1>2. Ready(doc') /\ Ready(stored') /\ Revises(stored', doc')
  BY <1>1
<1> QED  BY <1>2

\* The document of the first call.
LEMMA LTInitFileInv ==
  ASSUME InputsExtensible, LTInit
  PROVE  LTFileInv
<1>1. InputsWellFormed
  BY DEF InputsExtensible, InputsWellFormed
<1>2. Init /\ stored = doc /\ phase = "idle" /\ doc \in InputFiles
  BY DEF LTInit, Init
<1>3. SoundInv
  BY <1>1, <1>2, InitFileInv DEF FileInv
<1>4. Ready(doc)
  BY <1>2, <1>3 DEF SoundInv, Ready, InputsExtensible
<1>5. Revises(stored, doc) /\ Ready(stored)
  BY <1>2, <1>4, RevisesItself
<1>6. ProgressInv /\ StoresInv /\ ArchiveInv
  BY <1>2 DEF ProgressInv, StoresInv, ArchiveInv
<1> QED  BY <1>3, <1>4, <1>5, <1>6 DEF LTFileInv

\* A part that touches neither document, whether it goes on, fails, or asks for the
\* archive time-stamp.
LEMMA PartKeepsDocuments ==
  ASSUME LTFileInv, UNCHANGED <<doc, stored, call, responses>>, SoundInv',
         phase' \in {phase, "failed"} \/ (phase = "archive" /\ phase' = "timestamp")
  PROVE  LTFileInv'
<1>1. Ready(doc)' /\ Ready(stored)' /\ Revises(stored, doc)'
  BY DocumentsStay
<1>2. ProgressInv /\ StoresInv /\ ArchiveInv
  BY DEF LTFileInv
<1>3. ProgressInv'
  BY <1>2 DEF ProgressInv
<1>4. StoresInv'
  <2>1. CASE phase' = "failed"
    BY <2>1 DEF StoresInv
  <2>2. CASE phase' # "failed"
    <3>1. CatalogTexts' = CatalogTexts /\ HasValidationData' = HasValidationData
      BY DEF CatalogTexts, Root, HasValidationData
    <3>2. Holds(StoreOf(doc), doc)' = Holds(StoreOf(doc), doc)
      BY DEF Holds
    <3>3. /\ phase' = "validate" <=> phase = "validate"
          /\ phase' \in {"archive", "timestamp", "deliver"} <=>
               phase \in {"archive", "timestamp", "deliver"}
          /\ phase' \in {"validate", "archive", "timestamp", "deliver"} <=>
               phase \in {"validate", "archive", "timestamp", "deliver"}
      BY <2>2
    <3> QED  BY <1>2, <3>1, <3>2, <3>3 DEF StoresInv
  <2> QED  BY <2>1, <2>2
<1>5. ArchiveInv'
  BY <1>2 DEF ArchiveInv, HasValidationData
<1> QED  BY <1>1, <1>3, <1>4, <1>5 DEF LTFileInv

\* The first part of a call, and the responses that an attempt fetches: before a
\* signature is made nothing depends on how many there are.
LEMMA StartKeepsDocuments ==
  ASSUME LTFileInv, UNCHANGED <<doc, stored>>, SoundInv', doc = stored,
         \/ phase' = "sign" /\ call' # "AddValidationData"
         \/ phase' = "validate" /\ call' = "AddValidationData"
  PROVE  LTFileInv'
<1>1. Ready(doc)' /\ Ready(stored)' /\ Revises(stored, doc)'
  BY DocumentsStay
<1>2. ProgressInv' /\ StoresInv' /\ ArchiveInv'
  BY DEF ProgressInv, StoresInv, ArchiveInv
<1> QED  BY <1>1, <1>2 DEF LTFileInv

\* The caller's document becomes what the call made of it, or stays what it was: the
\* next call starts from it.
LEMMA ReturnKeepsDocuments ==
  ASSUME LTFileInv, doc' = stored', stored' \in {doc, stored}, phase' = "idle", pc' = "idle"
  PROVE  LTFileInv'
<1>1. Ready(stored') /\ Ready(doc')
  BY DEF LTFileInv
<1>2. SoundInv'
  BY <1>1, OutsideKeepsSound
<1>3. Revises(stored', doc')
  BY RevisesItself
<1>4. ProgressInv' /\ StoresInv' /\ ArchiveInv'
  BY DEF ProgressInv, StoresInv, ArchiveInv
<1> QED  BY <1>1, <1>2, <1>3, <1>4 DEF LTFileInv

\* AddValidationData, as a call of its own and as a part of SignLTV and SignLTA.
LEMMA ValidationKeepsDocuments ==
  ASSUME LTIInv, LTFileInv, AddValidationData
  PROVE  LTFileInv'
<1>1. /\ doc \in File /\ stored \in File /\ Ready(doc) /\ Ready(stored) /\ responses \in Nat
      /\ Revises(stored, doc) /\ ProgressInv /\ StoresInv
  <2>1. responses \in 0..(MaxRetries * MaxResponses)
    BY DEF LTIInv, LTTypeOK
  <2> QED  BY <2>1 DEF LTIInv, LTTypeOK, TypeOK, LTFileInv
<1>2. /\ phase = "validate" /\ pc' = "idle" /\ phase' = AfterValidation
      /\ UNCHANGED <<stored, call, responses>>
  BY DEF AddValidationData, LTIInv
<1>3. PICK decodes \in BOOLEAN : doc' = ValidatedFile(Appendix(decodes))
  <2>1. KeyDecodes \subseteq BOOLEAN
    BY DEF KeyDecodes
  <2>2. PICK decodes \in KeyDecodes :
          doc' = [doc EXCEPT !.objs = @ \o Appendix(decodes),
                             !.sections = Append(@, ValidationSection(Appendix(decodes)))]
    BY DEF AddValidationData
  <2> QED  BY <2>1, <2>2 DEF ValidatedFile
<1>4. PICK a : a = Appendix(decodes)
  OBVIOUS
<1>5. IsAppendix(a) /\ doc' = ValidatedFile(a)
  BY <1>1, <1>3, <1>4, AppendixFacts
<1>6. doc' \in File
  <2>1. a \in Seq(Object)
    BY <1>5 DEF IsAppendix
  <2> QED  BY <1>1, <1>5, <2>1, ValidatedObjects
<1>7. Ready(doc') /\ Revises(doc, doc') /\ Validated(doc, doc')
  BY <1>1, <1>5, ValidatedReady
<1>8. Revises(stored, doc')
  BY <1>1, <1>7, RevisesTransitive
<1>9. SoundInv'
  BY <1>2, <1>7, OutsideKeepsSound
<1>10. ProgressInv'
  <2>1. CASE call = "AddValidationData"
    <3>1. phase' = "deliver" /\ Validated(stored', doc')
      BY <1>1, <1>2, <1>7, <2>1 DEF AfterValidation, ProgressInv
    <3> QED  BY <1>2, <2>1, <3>1 DEF ProgressInv
  <2>2. CASE call # "AddValidationData"
    <3>1. SignedOnce(stored, doc)
      BY <1>1, <1>2, <2>2 DEF ProgressInv
    <3>2. SignedOnce(stored', doc')
      BY <1>1, <1>2, <1>6, <1>7, <3>1, SignedThenValidated
    <3> QED  BY <1>2, <2>2, <3>2 DEF ProgressInv, AfterValidation
  <2> QED  BY <2>1, <2>2
<1>11. StoresInv'
  <2> SUFFICES ASSUME call # "AddValidationData"
               PROVE  StoresInv'
    BY <1>2 DEF StoresInv
  <2>1. StoreKept(stored, doc) /\ \A p \in CatalogTexts : doc.objs[p].dss = KnownStores(stored)
    BY <1>1, <1>2 DEF StoresInv
  <2>2. PICK dss : dss = KnownStores(stored)
    OBVIOUS
  <2>3. /\ Catalog(doc').dss # <<>>
        /\ dss # <<>> => Last(Catalog(doc').dss) = Last(dss)
        /\ dss = <<>> => Holds(StoreOf(doc'), doc')
    BY <1>1, <1>5, <2>1, <2>2, ValidatedStores
  <2>4. StoreKept(stored, doc')
    <3> SUFFICES ASSUME Catalog(stored).dss # <<>>
                 PROVE  Last(Catalog(doc').dss) = Last(Catalog(stored).dss)
      BY <2>3 DEF StoreKept
    <3>1. PICK r : r = Last(Catalog(stored).dss)
      OBVIOUS
    <3>2. dss = <<r>> /\ <<r>> # <<>> /\ Last(<<r>>) = r
      BY <2>2, <3>1 DEF KnownStores, Last
    <3> QED  BY <2>3, <3>1, <3>2
  <2>5. Catalog(stored).dss = <<>> => Holds(StoreOf(doc'), doc')
    BY <2>2, <2>3 DEF KnownStores
  <2>6. Holds(StoreOf(doc), doc)' = Holds(StoreOf(doc'), doc')
    BY <1>2 DEF Holds
  <2>7. phase' # "validate"
    BY <1>2 DEF AfterValidation
  <2> QED  BY <1>2, <2>3, <2>4, <2>5, <2>6, <2>7 DEF StoresInv
<1>12. ArchiveInv'
  BY <1>2 DEF ArchiveInv, AfterValidation
<1> QED  BY <1>1, <1>2, <1>7, <1>8, <1>9, <1>10, <1>11, <1>12 DEF LTFileInv

\* A signature, and what follows it: nothing, validation data, or an archive time-stamp.
LEMMA SignatureKeepsDocuments ==
  ASSUME LTIInv, LTFileInv, SignStep, ReplaceSignature, phase = "sign"
  PROVE  LTFileInv'
<1>1. /\ IInv /\ pc = "replace" /\ CallInv /\ Ready(doc) /\ Ready(stored) /\ doc = stored
      /\ doc \in File /\ call # "AddValidationData"
  BY DEF LTIInv, IInv, TypeOK, LTFileInv, SoundInv, ReplaceSignature, Working, ProgressInv
<1>2. PICK g : g = SignedFile
  OBVIOUS
<1>3. doc' = g /\ pc' = "idle" /\ UNCHANGED <<stored, call, responses>>
  BY <1>2 DEF ReplaceSignature, SignStep
<1>4. Ready(g) /\ Revises(doc, g) /\ SignedOnce(doc, g)
  BY <1>1, <1>2, SignedFileReady
<1>5. /\ StoreKept(doc, g)
      /\ \A p \in TextsOf(g, Trailer(g).root) : g.objs[p].dss = KnownStores(doc)
  BY <1>1, <1>2, SignedFileStores
<1>6. doc' # doc
  <2>1. Len(g.objs) > Len(doc.objs) /\ Len(doc.objs) \in Nat
    BY <1>1, <1>4 DEF SignedOnce, SignedOver, File
  <2> QED  BY <1>3, <2>1
<1>7. /\ phase' = AfterSigning /\ phase' \in {"validate", "archive", "deliver"}
      /\ phase' \in {"archive", "deliver"} => ~HasValidationData
      /\ phase' = "archive" => call = "SignLTA"
      /\ phase' = "deliver" => call # "SignLTA"
  <2>1. phase' = AfterSigning
    BY <1>3, <1>6 DEF SignStep
  <2> QED  BY <2>1 DEF AfterSigning, AfterValidation, HasValidationData
<1>8. SoundInv'
  BY <1>3, <1>4, OutsideKeepsSound
<1>9. ProgressInv'
  BY <1>1, <1>3, <1>4, <1>7 DEF ProgressInv
<1>10. StoresInv'
  <2>1. HasValidationData' = HasValidationData
    BY <1>3 DEF HasValidationData
  <2>2. \A p \in CatalogTexts' : doc'.objs[p].dss = KnownStores(stored')
    <3>1. CatalogTexts' = TextsOf(g, Trailer(g).root)
      BY <1>3 DEF CatalogTexts, Root
    <3> QED  BY <1>1, <1>3, <1>5, <3>1
  <2> QED  BY <1>1, <1>3, <1>5, <1>7, <2>1, <2>2 DEF StoresInv
<1>11. ArchiveInv'
  BY <1>3, <1>7 DEF ArchiveInv
<1> QED  BY <1>1, <1>3, <1>4, <1>8, <1>9, <1>10, <1>11 DEF LTFileInv

\* The archive time-stamp. It comes over the signature and its validation data.
LEMMA ArchiveKeepsDocuments ==
  ASSUME LTIInv, LTFileInv, SignStep, ReplaceSignature, phase = "timestamp"
  PROVE  LTFileInv'
<1>1. /\ IInv /\ pc = "replace" /\ CallInv /\ Ready(doc) /\ Ready(stored) /\ Revises(stored, doc)
      /\ doc \in File /\ stored \in File /\ WellFormed(doc) /\ WellFormed(stored) /\ CatalogExact(doc)
      /\ call = "SignLTA" /\ SignedOnce(stored, doc) /\ req.certType = "TimeStamp" /\ StoresInv
  BY DEF LTIInv, LTTypeOK, IInv, TypeOK, LTFileInv, SoundInv, ReplaceSignature, Working,
         ProgressInv, Ready, Extensible
<1>2. PICK g : g = SignedFile
  OBVIOUS
<1>3. doc' = g /\ pc' = "idle" /\ UNCHANGED <<stored, call, responses>>
  BY <1>2 DEF ReplaceSignature, SignStep
<1>4. Ready(g) /\ Revises(doc, g) /\ SignedOnce(doc, g)
  BY <1>1, <1>2, SignedFileReady
<1>5. g \in File
  BY <1>1, <1>2, SignedFileReads
<1>6. SignedTwice(stored, g) /\ Revises(stored, g)
  BY <1>1, <1>4, <1>5, SignedThenSigned, RevisesTransitive
<1>7. phase' = "deliver"
  <2>1. Len(g.objs) > Len(doc.objs) /\ Len(doc.objs) \in Nat
    BY <1>1, <1>4 DEF SignedOnce, SignedOver, File
  <2>2. doc' # doc
    BY <1>3, <2>1
  <2> QED  BY <1>3, <2>2 DEF SignStep
<1>8. SoundInv'
  BY <1>3, <1>4, OutsideKeepsSound
<1>9. ProgressInv'
  BY <1>1, <1>3, <1>6, <1>7 DEF ProgressInv
<1>10. /\ StoreKept(stored, doc) /\ StoreKept(doc, g)
       /\ Catalog(doc).dss # <<>> =>
            /\ Catalog(g).dss # <<>> /\ StoreOf(g) = StoreOf(doc)
            /\ Holds(StoreOf(doc), doc) => Holds(StoreOf(doc), g)
            /\ StoreOf(doc).id \notin EntryIds(Trailer(g))
       /\ HasValidationData =>
            /\ Catalog(doc).dss # <<>>
            /\ Catalog(stored).dss = <<>> => Holds(StoreOf(doc), doc)
  BY <1>1, <1>2, SignedFileStores DEF StoresInv
<1>11. HasValidationData' = HasValidationData
  BY <1>3 DEF HasValidationData
<1>12. StoresInv'
  <2>1. StoreKept(stored, g)
    BY <1>10 DEF StoreKept
  <2>2. HasValidationData =>
          Catalog(g).dss # <<>> /\ (Catalog(stored).dss = <<>> => Holds(StoreOf(g), g))
    BY <1>10
  <2>3. Holds(StoreOf(doc), doc)' = Holds(StoreOf(g), g)
    BY <1>3 DEF Holds
  <2> QED  BY <1>3, <1>7, <1>11, <2>1, <2>2, <2>3 DEF StoresInv
<1>13. ArchiveInv'
  <2>1. IsArchived(g)
    BY <1>1, <1>2, SignedFileArchived
  <2>2. HasValidationData => StoreOf(g).id \notin EntryIds(Trailer(g))
    BY <1>10
  <2> QED  BY <1>3, <1>11, <2>1, <2>2 DEF ArchiveInv
<1> QED  BY <1>1, <1>3, <1>4, <1>6, <1>8, <1>9, <1>12, <1>13 DEF LTFileInv

\* A call begins as any signature does, and its buffer is still the document.
LEMMA StartKeepsSound ==
  ASSUME SoundInv, NEW r, StartSign(r)
  PROVE  SoundInv'
<1>1. doc' = doc /\ ~Working'
  BY DEF StartSign, Working
<1> QED  BY <1>1, CallKeepsSound

LEMMA LTStepFileInv == LTIInv /\ LTFileInv /\ [LTNext]_ltVars => LTFileInv'
<1> SUFFICES ASSUME LTIInv, LTFileInv, [LTNext]_ltVars PROVE LTFileInv'
  OBVIOUS
<1>1. IInv /\ SoundInv /\ ProgressInv
  BY DEF LTIInv, LTFileInv
<1>2. [Next]_vars => SoundInv'
  BY <1>1, StepSoundInv
<1>3. UNCHANGED vars => UNCHANGED doc
  BY DEF vars
<1>4. CASE UNCHANGED ltVars
  <2>1. UNCHANGED <<vars, stored, call, phase, responses>>
    BY <1>4 DEF ltVars
  <2> QED  BY <1>2, <1>3, <2>1, PartKeepsDocuments
<1>5. ASSUME NEW c \in Calls \ {"AddValidationData"}, NEW r \in Requests, StartCall(c, r)
      PROVE  LTFileInv'
  <2>1. StartSign(r) /\ phase = "idle" /\ phase' = "sign" /\ call' = c /\ UNCHANGED <<doc, stored>>
    BY <1>5 DEF StartCall, StartSign
  <2>2. doc = stored
    BY <1>1, <2>1 DEF ProgressInv
  <2> QED  BY <1>1, <2>1, <2>2, StartKeepsSound, StartKeepsDocuments
<1>6. CASE FetchResponses
  <2>1. /\ BeginAttempt /\ UNCHANGED <<doc, req, stored, call, phase>>
        /\ pc = "attempt" /\ (req.certType = "TimeStamp" => UNCHANGED responses)
    BY <1>6 DEF FetchResponses, BeginAttempt
  <2>2. SoundInv'
    BY <1>2, <2>1 DEF Next, Step
  <2>3. phase \in {"sign", "timestamp"} /\ (phase = "timestamp" => req.certType = "TimeStamp")
    BY <2>1 DEF LTIInv
  <2>4. CASE phase = "sign"
    BY <1>1, <2>1, <2>2, <2>4, StartKeepsDocuments DEF ProgressInv
  <2>5. CASE phase = "timestamp"
    BY <2>1, <2>2, <2>3, <2>5, PartKeepsDocuments
  <2> QED  BY <2>3, <2>4, <2>5
<1>7. CASE SignStep
  <2>1. Step /\ pc # "idle" /\ UNCHANGED <<stored, call, responses>>
    BY <1>7 DEF SignStep
  <2>2. CASE ReplaceSignature
    <3>1. phase \in {"sign", "timestamp"}
      BY <2>1 DEF LTIInv
    <3> QED  BY <1>7, <2>2, <3>1, SignatureKeepsDocuments, ArchiveKeepsDocuments
  <2>3. CASE UNCHANGED doc
    <3>1. SoundInv'
      BY <1>2, <2>1 DEF Next
    <3>2. phase' \in {phase, "failed"}
      BY <1>7, <2>3 DEF SignStep
    <3> QED  BY <2>1, <2>3, <3>1, <3>2, PartKeepsDocuments
  <2> QED  BY <2>1, <2>2, <2>3, DocumentChanges DEF Next
<1>8. CASE StartArchive
  <2>1. /\ StartSign(ArchiveRequest) /\ phase = "archive" /\ phase' = "timestamp"
        /\ UNCHANGED <<doc, stored, call, responses>>
    BY <1>8 DEF StartArchive, StartSign
  <2> QED  BY <1>1, <2>1, StartKeepsSound, PartKeepsDocuments
<1>9. CASE AddValidationData
  BY <1>9, ValidationKeepsDocuments
<1>10. CASE StartValidation
  <2>1. /\ phase = "idle" /\ phase' = "validate" /\ call' = "AddValidationData"
        /\ UNCHANGED <<vars, stored>>
    BY <1>10 DEF StartValidation
  <2>2. doc = stored
    BY <1>1, <2>1 DEF ProgressInv
  <2> QED  BY <1>2, <1>3, <2>1, <2>2, StartKeepsDocuments
<1>11. CASE Deliver
  <2>1. pc' = "idle" /\ phase' = "idle" /\ stored' = doc /\ UNCHANGED doc
    BY <1>11 DEF Deliver, LTIInv, vars
  <2> QED  BY <2>1, ReturnKeepsDocuments
<1>12. CASE Fail
  <2>1. phase' = "failed" /\ UNCHANGED <<vars, stored, call, responses>>
    BY <1>12 DEF Fail
  <2> QED  BY <1>2, <1>3, <2>1, PartKeepsDocuments
<1>13. CASE ReturnFailure
  <2>1. pc' = "idle" /\ phase' = "idle" /\ doc' = stored /\ stored' = stored
    BY <1>13 DEF ReturnFailure, NextInput, LTIInv
  <2> QED  BY <2>1, ReturnKeepsDocuments
<1> QED
  BY <1>4, <1>5, <1>6, <1>7, <1>8, <1>9, <1>10, <1>11, <1>12, <1>13 DEF LTNext, LTStep

LEMMA LTSpecFileInv == InputsExtensible => (LTSpec => [](LTIInv /\ LTFileInv))
<1> SUFFICES ASSUME InputsExtensible
             PROVE  LTSpec => [](LTIInv /\ LTFileInv)
  OBVIOUS
<1>1. LTInit => LTIInv /\ LTFileInv
  BY LTInitInv, LTInitFileInv
<1>2. (LTIInv /\ LTFileInv) /\ [LTNext]_ltVars => (LTIInv /\ LTFileInv)'
  BY LTStepInv, LTStepFileInv
<1> QED  BY <1>1, <1>2, PTL DEF LTSpec

-----------------------------------------------------------------------------
(* What follows from the invariant of the documents.                       *)

\* Through signatures, retries, validation data and archive time-stamps in any order,
\* /Size stays above every id that the last section of the buffer lists: the reader
\* cuts nothing of what SignLTV and SignLTA appended off.
THEOREM SizeCoversLongTerm == InputsExtensible => (LTSpec => []SizeCoversEntries)
<1>1. LTIInv /\ LTFileInv => SizeCoversEntries
  BY WellFormedReads DEF LTIInv, IInv, TypeOK, LTFileInv, SoundInv
<1> QED  BY <1>1, LTSpecFileInv, PTL

\* Nor does what is in use then refer to something that is not there: the streams that
\* a store lists, and what the older catalog that got the store refers to, included.
THEOREM ReferencesResolveLongTerm == InputsExtensible => (LTSpec => []ReferencesResolve)
<1>1. LTIInv /\ LTFileInv => ReferencesResolve
  BY WellFormedReads DEF LTIInv, IInv, TypeOK, LTFileInv, SoundInv
<1> QED  BY <1>1, LTSpecFileInv, PTL

\* No sequence of calls loses a signature of the caller's document: AddValidationData
\* rewrites an older catalog, and its form still leads to each of them.
THEOREM NoSignatureIsLost == InputsExtensible => (LTSpec => []SignaturesKept)
<1>1. LTFileInv => SignaturesKept
  BY DEF LTFileInv, Ready, Extensible, SignaturesKept
<1> QED  BY <1>1, LTSpecFileInv, PTL

\* The validation data of a document that had none are found by the reader of what
\* SignLTV and SignLTA deliver, with a stream for each certificate and response.
THEOREM ValidationDataAlwaysReachable == InputsExtensible => (LTSpec => []ValidationDataReachable)
<1>1. LTIInv /\ LTFileInv => ValidationDataReachable
  <2> SUFFICES ASSUME LTIInv, LTFileInv, phase = "deliver", HasValidationData,
                      Catalog(stored).dss = <<>>
               PROVE  Holds(StoreOf(doc), doc)
    BY DEF ValidationDataReachable
  <2>1. StoresInv /\ call # "AddValidationData"
    BY DEF LTFileInv, HasValidationData
  <2> QED  BY <2>1 DEF StoresInv
<1> QED  BY <1>1, LTSpecFileInv, PTL

\* What SignLTA delivers ends in a time-stamp over everything else.
THEOREM ArchiveAlwaysCoversAll == InputsExtensible => (LTSpec => []ArchiveCoversAll)
<1>1. LTIInv /\ LTFileInv => ArchiveCoversAll
  <2> SUFFICES ASSUME LTIInv, LTFileInv, phase = "deliver", call = "SignLTA"
               PROVE  LET n == Len(Catalog(doc).kids) IN
                        /\ n = Len(Catalog(stored).kids) + 2
                        /\ SignatureAt(doc, n).kind = "DocTimeStamp"
                        /\ Under(Deref(doc, Catalog(doc).kids[n]), "V").id \in EntryIds(Trailer(doc))
                        /\ HasValidationData => StoreOf(doc).id \notin EntryIds(Trailer(doc))
    BY DEF ArchiveCoversAll
  <2>1. doc \in File /\ stored \in File /\ WellFormed(doc) /\ WellFormed(stored)
    BY DEF LTIInv, LTTypeOK, TypeOK, LTFileInv, Ready
  <2>2. IsArchived(doc) /\ (HasValidationData => StoreOf(doc).id \notin EntryIds(Trailer(doc)))
    BY DEF LTFileInv, ArchiveInv
  <2>3. SignedTwice(stored, doc)
    BY DEF LTFileInv, ProgressInv
  <2>4. PICK w, t \in InUse(doc) : FieldIdsOf(doc) = FieldIdsOf(stored) \o <<w, t>>
    BY <2>3 DEF SignedTwice
  <2>5. PICK old \in Seq(Nat) : old = FieldIdsOf(stored) /\ Len(old) = Len(Catalog(stored).kids)
    BY <2>1, AbstractFacts
  <2>6. PICK kids \in Seq(Ref) : kids = Catalog(doc).kids /\ Len(FieldIdsOf(doc)) = Len(kids)
    BY <2>1, AbstractFacts
  <2>7. w \in Nat /\ t \in Nat
    BY <2>1, InUseFacts
  <2>8. Len(kids) = Len(old) + 2
    BY <2>4, <2>5, <2>6, <2>7
  <2>9. Last(kids) = kids[Len(kids)]
    BY DEF Last
  <2> QED  BY <2>2, <2>5, <2>6, <2>8, <2>9 DEF IsArchived, SignatureAt
<1> QED  BY <1>1, LTSpecFileInv, PTL

\* The caller's document is another one only when a call delivers.
LEMMA StoredChanges ==
  ASSUME [LTNext]_ltVars
  PROVE  UNCHANGED stored \/ Deliver
BY DEF LTNext, LTStep, ltVars, FetchResponses, SignStep, AddValidationData, StartArchive, Fail,
       ReturnFailure, StartValidation, StartCall

\* Whatever a document was signed with later, the catalog that it then has leads to the
\* validation data that it had.
THEOREM ValidationDataNeverLost == InputsExtensible => (LTSpec => ValidationDataKept)
<1> DEFINE Kept == (phase = "deliver" /\ call # "AddValidationData" /\ StoreOf(stored) # Null) =>
                     \E i \in DOMAIN Catalog(stored').dss :
                       Deref(stored', Catalog(stored').dss[i]) = StoreOf(stored)
<1>1. ASSUME LTIInv, LTFileInv, Deliver
      PROVE  Kept
  <2> SUFFICES ASSUME phase = "deliver", call # "AddValidationData", StoreOf(stored) # Null
               PROVE  \E i \in DOMAIN Catalog(stored').dss :
                        Deref(stored', Catalog(stored').dss[i]) = StoreOf(stored)
    OBVIOUS
  <2>1. /\ doc \in File /\ stored \in File /\ WellFormed(doc) /\ WellFormed(stored)
        /\ CatalogExact(stored) /\ CatalogExact(doc) /\ EntriesExact(doc) /\ Revises(stored, doc)
    BY <1>1 DEF LTIInv, LTTypeOK, TypeOK, LTFileInv, Ready, Extensible, WellFormed
  <2>2. StoreKept(stored, doc)
    BY <1>1 DEF LTFileInv, StoresInv
  <2>3. Catalog(stored).dss # <<>>
    BY DEF StoreOf
  <2>4. Catalog(doc).dss # <<>> /\ StoreOf(doc) = StoreOf(stored)
    BY <2>1, <2>2, <2>3, StoreFoundAgain
  <2>5. PICK dss \in Seq(Ref) : dss = Catalog(doc).dss
    BY <2>1, CatalogRefers
  <2>6. Len(dss) \in DOMAIN dss /\ Last(dss) = dss[Len(dss)]
    BY <2>4, <2>5 DEF Last
  <2>7. StoreOf(doc) = Deref(doc, dss[Len(dss)])
    BY <2>4, <2>5, <2>6 DEF StoreOf
  <2>8. stored' = doc
    BY <1>1 DEF Deliver
  <2> QED  BY <2>4, <2>5, <2>6, <2>7, <2>8
<1>2. LTIInv /\ LTFileInv /\ [LTNext]_ltVars => [Kept]_stored
  BY <1>1, StoredChanges
<1> QED  BY <1>2, LTSpecFileInv, PTL DEF LTSpec, ValidationDataKept

-----------------------------------------------------------------------------
(* The caller's document implements IncrementalFile.                       *)

\* How what is in use changes, in the terms of IncrementalFile.
LEMMA LiveChanges ==
  ASSUME NEW rewritten, KeepsLive(stored, stored', rewritten)
  PROVE  LongTermPromise!Keeps(rewritten) /\ LongTermPromise!NewIds = InUse(stored') \ InUse(stored)
<1>1. /\ {o.id : o \in LiveOf(stored)} = InUse(stored)
      /\ {o.id : o \in LiveOf(stored')} = InUse(stored')
      /\ {o.id : o \in LiveOf(stored) \ LiveOf(stored')} \subseteq rewritten
      /\ \A o \in LiveOf(stored') \ LiveOf(stored) :
           o.pos \in (Len(stored.objs) + 1)..Len(stored'.objs)
  BY LiveIdsOf, LiveKept
<1>2. InUse(stored) \subseteq InUse(stored')
  BY DEF KeepsLive
<1> QED
  BY <1>1, <1>2 DEF LongTermPromise!Keeps, LongTermPromise!NewIds, LongTermPromise!Ids, LiveOf

\* A call that delivers appends a signature, a signature and its archive time-stamp, or
\* validation data.
LEMMA DeliverAppends ==
  ASSUME LTIInv, LTFileInv, Deliver
  PROVE  LongTermPromise!LongTermNext
<1>1. /\ phase = "deliver" /\ stored' = doc /\ doc \in File /\ stored \in File
      /\ WellFormed(doc) /\ WellFormed(stored) /\ ProgressInv
  BY DEF Deliver, LTIInv, LTTypeOK, TypeOK, LTFileInv, Ready
<1>2. FieldIdsOf(stored) \in Seq(Nat) /\ FieldIdsOf(stored') \in Seq(Nat)
  BY <1>1, AbstractFacts
<1>3. ASSUME NEW id, id \in Nat, NEW i \in DOMAIN FieldIdsOf(stored'), FieldIdsOf(stored')[i] = id
      PROVE  id \in LongTermPromise!Range(FieldIdsOf(stored'))
  BY <1>3 DEF LongTermPromise!Range
<1>4. CASE SignedOnce(stored, stored')
  <2>1. PICK w \in InUse(stored') \ InUse(stored) :
          FieldIdsOf(stored') = Append(FieldIdsOf(stored), w)
    BY <1>4 DEF SignedOnce
  <2>2. w \in Nat
    BY <1>1, <2>1, InUseFacts
  <2>3. w \in LongTermPromise!Range(FieldIdsOf(stored'))
    BY <1>2, <1>3, <2>1, <2>2, AppendProperties
  <2>4. /\ LongTermPromise!Keeps(RewritableIds)
        /\ {Trailer(stored').root.id, w} \subseteq LongTermPromise!NewIds
        /\ Len(stored'.objs) > Len(stored.objs)
    BY <1>4, <2>1, LiveChanges DEF SignedOnce, SignedOver
  <2> QED  BY <2>1, <2>3, <2>4, Zenon
           DEF LongTermPromise!LongTermNext, LongTermPromise!AppendSignature, FieldIdsOf
<1>5. CASE SignedTwice(stored, stored')
  <2>1. PICK w \in InUse(stored') \ InUse(stored), t \in InUse(stored') \ InUse(stored) :
          w # t /\ FieldIdsOf(stored') = FieldIdsOf(stored) \o <<w, t>>
    BY <1>5 DEF SignedTwice
  <2>2. w \in Nat /\ t \in Nat
    BY <1>1, <2>1, InUseFacts
  <2>3. {w, t} \subseteq LongTermPromise!Range(FieldIdsOf(stored'))
    <3>1. PICK old \in Seq(Nat) : old = FieldIdsOf(stored)
      BY <1>2
    <3>2. PICK new \in Seq(Nat) : new = old \o <<w, t>>
      BY <1>2, <2>1, <3>1
    <3>3. /\ Len(old) + 1 \in DOMAIN new /\ new[Len(old) + 1] = w
          /\ Len(old) + 2 \in DOMAIN new /\ new[Len(old) + 2] = t
      BY <2>2, <3>2
    <3> QED  BY <1>3, <2>1, <2>2, <3>1, <3>2, <3>3
  <2>4. /\ LongTermPromise!Keeps(RewritableIds)
        /\ {Trailer(stored').root.id, w, t} \subseteq LongTermPromise!NewIds
        /\ Len(stored'.objs) > Len(stored.objs)
    BY <1>5, <2>1, LiveChanges DEF SignedTwice, SignedOver
  <2> QED  BY <2>1, <2>3, <2>4, Zenon
           DEF LongTermPromise!LongTermNext, LongTermPromise!AppendArchived, FieldIdsOf
<1>6. CASE Validated(stored, stored')
  <2>1. PICK R : R = {Trailer(stored).root.id}
    OBVIOUS
  <2>2. /\ KeepsLive(stored, stored', R) /\ Trailer(stored').root.id = Trailer(stored).root.id
        /\ FieldIdsOf(stored') = FieldIdsOf(stored)
        /\ Len(stored'.objs) > Len(stored.objs)
    BY <1>6, <2>1 DEF Validated
  <2>3. LongTermPromise!Keeps(R)
    BY <2>2, LiveChanges
  <2>4. LongTermPromise!Keeps({Trailer(stored).root.id})
    BY <2>1, <2>3 DEF LongTermPromise!Keeps
  <2>5. UNCHANGED <<Trailer(stored).root.id, FieldIdsOf(stored)>>
    BY <2>2
  <2> QED  BY <2>2, <2>4, <2>5
           DEF LongTermPromise!LongTermNext, LongTermPromise!AppendValidationData, FieldIdsOf
<1> QED  BY <1>1, <1>4, <1>5, <1>6 DEF ProgressInv

\* Whichever calls are made, in whichever order and however they fail, the caller's
\* document is the one before it with the whole of what the call promises appended:
\* none ever delivers a signature without its time-stamp, or half of a store.
THEOREM LongTermAsPromised == InputsExtensible => (LTSpec => ImplementsLongTermPromise)
<1>1. LTIInv /\ LTFileInv => LongTermPromise!Init
  <2> SUFFICES ASSUME LTIInv, LTFileInv PROVE LongTermPromise!Init
    OBVIOUS
  <2>1. stored \in File /\ WellFormed(stored)
    BY DEF LTIInv, LTTypeOK, LTFileInv, Ready
  <2>2. {o.id : o \in LiveOf(stored)} = InUse(stored)
    BY LiveIdsOf
  <2> QED  BY <2>1, <2>2, AbstractFacts
           DEF LongTermPromise!Init, LongTermPromise!Ids, LiveOf, FieldIdsOf
<1>2. LTIInv /\ LTFileInv /\ [LTNext]_ltVars => [LongTermPromise!LongTermNext]_stored
  BY DeliverAppends, StoredChanges
<1> QED  BY <1>1, <1>2, LTSpecFileInv, PTL DEF LTSpec, ImplementsLongTermPromise

=============================================================================
