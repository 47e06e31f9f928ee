------------------------- MODULE SignContext_proofs -------------------------
(***************************************************************************)
(* For every set of documents and requests, every number of retries and    *)
(* every number of calls: the object ids the code predicts are the ids it  *)
(* allocates, what it encrypts is encrypted for the object it ends up in,  *)
(* and a document is only ever appended to. Before that, what the          *)
(* operators of PdfFile return for every file: that the winning entry of a *)
(* listed id exists, that the id counters and generations are natural      *)
(* numbers, and that the allocator starts above every id in use.           *)
(***************************************************************************)
EXTENDS SignContext, Extrema, SequenceTheorems, FiniteSetTheorems, TLAPS

-----------------------------------------------------------------------------
(* The reader.                                                             *)

\* An id is listed at a section and a line, and the entry there is for that id.
LEMMA ListingType ==
  ASSUME NEW f \in File, NEW id, NEW a \in Listings(f, id)
  PROVE  /\ a = <<a[1], a[2]>>
         /\ a[1] \in 1..Len(f.sections)
         /\ a[2] \in Nat
         /\ EntryAt(f, a) \in XrefEntry
         /\ EntryAt(f, a).id = id
<1>1. f.sections \in Seq(Section)
  BY DEF File
<1>2. PICK s \in DOMAIN f.sections : a \in {s} \X Lines(f, s, id)
  BY DEF Listings
<1>3. f.sections[s] \in Section
  BY <1>1
<1>4. f.sections[s].entries \in Seq(XrefEntry)
  BY <1>3 DEF Section
<1>5. a[1] = s /\ a[2] \in Lines(f, s, id) /\ a = <<a[1], a[2]>>
  BY <1>2
<1>6. a[2] \in DOMAIN f.sections[s].entries /\ EntryAt(f, <<s, a[2]>>).id = id
  BY <1>5 DEF Lines
<1>7. DOMAIN f.sections = 1..Len(f.sections) /\ DOMAIN f.sections[s].entries \subseteq Nat
  BY <1>1, <1>4
<1>8. f.sections[s].entries[a[2]] \in XrefEntry
  BY <1>4, <1>6
<1>9. EntryAt(f, a) = f.sections[s].entries[a[2]] /\ EntryAt(f, a).id = id
  BY <1>5, <1>6 DEF EntryAt
<1> QED  BY <1>2, <1>5, <1>6, <1>7, <1>8, <1>9

\* A listed id has a winning entry, and that is the one the reader takes.
LEMMA EntryWins ==
  ASSUME NEW f \in File, NEW id, Listings(f, id) # {}
  PROVE  \E a \in Listings(f, id) :
           Entry(f, id) = EntryAt(f, a) /\ \A b \in Listings(f, id) : Wins(a, b)
<1> DEFINE L == Listings(f, id)
           S == {a[1] : a \in L}
           m == Max(S)
           T == {a[2] : a \in {b \in L : b[1] = m}}
<1>1. \A a \in L : a = <<a[1], a[2]>> /\ a[1] \in 1..Len(f.sections) /\ a[2] \in Nat
  BY ListingType
<1>2. Len(f.sections) \in Nat
  BY DEF File
<1>3. S \in SUBSET (0..Len(f.sections)) /\ S # {}
  BY <1>1, <1>2
<1>4. m \in S /\ \A s \in S : s <= m
  BY <1>2, <1>3, MaxOfBounded
<1>5. T \in SUBSET Nat /\ T # {}
  BY <1>1, <1>4
<1>6. PICK i \in T : \A k \in T : i <= k
  BY <1>5, LeastNat
<1>7. PICK w \in L : w[1] = m /\ w[2] = i
  BY <1>6
<1>8. \A b \in L : Wins(w, b)
  <2> TAKE b \in L
  <2>1. b[1] \in Nat /\ b[1] <= m /\ m \in Nat
    BY <1>1, <1>3, <1>4
  <2>2. CASE b[1] = m
    <3>1. b[2] \in T
      BY <2>2
    <3> QED  BY <1>6, <1>7, <2>2, <3>1 DEF Wins
  <2>3. CASE b[1] # m
    BY <1>7, <2>1, <2>3 DEF Wins
  <2> QED  BY <2>2, <2>3
<1> DEFINE c == CHOOSE a \in L : \A b \in L : Wins(a, b)
<1>9. c \in L /\ \A b \in L : Wins(c, b)
  BY <1>7, <1>8, Zenon
<1>10. Entry(f, id) = EntryAt(f, c)
  BY Zenon DEF Entry
<1> QED  BY <1>9, <1>10

\* The entry of a listed id is an entry, for that id.
LEMMA EntryType ==
  ASSUME NEW f \in File, NEW id, Listings(f, id) # {}
  PROVE  Entry(f, id) \in XrefEntry /\ Entry(f, id).id = id
<1>1. PICK a \in Listings(f, id) : Entry(f, id) = EntryAt(f, a)
  BY EntryWins
<1> QED  BY <1>1, ListingType

\* The latest section of a file is a section.
LEMMA TrailerType ==
  ASSUME NEW f \in File
  PROVE  Trailer(f) \in Section /\ Trailer(f).size \in Nat /\ Trailer(f).root \in Ref
<1>1. f.sections \in Seq(Section) /\ f.sections # <<>>
  BY DEF File
<1>2. Len(f.sections) \in DOMAIN f.sections
  BY <1>1
<1>3. Trailer(f) \in Section
  BY <1>1, <1>2 DEF Trailer
<1> QED  BY <1>3 DEF Section

\* Listed ids are numbers.
LEMMA ListedNumbers ==
  ASSUME NEW f \in File, NEW id \in ListedIds(f)
  PROVE  id \in Nat
<1>1. PICK s \in DOMAIN f.sections : id \in EntryIds(f.sections[s])
  BY DEF ListedIds
<1>2. PICK i \in DOMAIN f.sections[s].entries : id = f.sections[s].entries[i].id
  BY <1>1 DEF EntryIds
<1>3. f.sections[s] \in Section
  BY <1>1 DEF File
<1>4. f.sections[s].entries[i] \in XrefEntry
  BY <1>2, <1>3 DEF Section
<1> QED  BY <1>2, <1>4 DEF XrefEntry

\* No id that a section lists is above some number.
LEMMA SectionBounded ==
  ASSUME NEW part \in Section
  PROVE  \E b \in Nat : \A id \in EntryIds(part) : id <= b
<1> DEFINE n == Len(part.entries)
           g == [i \in 1..n |-> part.entries[i].id]
<1>1. part.entries \in Seq(XrefEntry)
  BY DEF Section
<1>2. n \in Nat /\ DOMAIN part.entries = 1..n /\ \A i \in 1..n : part.entries[i] \in XrefEntry
  BY <1>1
<1>3. g \in [1..n -> Nat]
  BY <1>2 DEF XrefEntry
<1>4. \A i \in 1..n : g[i] = part.entries[i].id
  OBVIOUS
<1>5. \A id \in EntryIds(part) : \E i \in 1..n : id = g[i]
  BY <1>2, <1>4 DEF EntryIds
<1> HIDE DEF n, g
<1>6. PICK b \in Nat : \A i \in 1..n : g[i] <= b
  BY <1>2, <1>3, BoundedNumbers
<1> QED  BY <1>5, <1>6

\* No listed id is above some number.
LEMMA ListedBounded ==
  ASSUME NEW f \in File
  PROVE  \E b \in Nat : ListedIds(f) \in SUBSET (0..b)
<1> DEFINE n == Len(f.sections)
           g == [s \in 1..n |-> CHOOSE b \in Nat : \A id \in EntryIds(f.sections[s]) : id <= b]
<1>1. n \in Nat /\ DOMAIN f.sections = 1..n /\ \A s \in 1..n : f.sections[s] \in Section
  BY DEF File
<1>2. \A s \in 1..n : g[s] \in Nat /\ \A id \in EntryIds(f.sections[s]) : id <= g[s]
  BY <1>1, SectionBounded
<1>3. g \in [1..n -> Nat]
  BY <1>2
<1>4. \A id \in ListedIds(f) : \E s \in 1..n : id \in EntryIds(f.sections[s])
  BY <1>1 DEF ListedIds
<1>5. \A id \in ListedIds(f) : id \in Nat
  BY ListedNumbers
<1> HIDE DEF n, g
<1>6. PICK b \in Nat : \A s \in 1..n : g[s] <= b
  BY <1>1, <1>3, BoundedNumbers
<1>7. \A id \in ListedIds(f) : id <= b
  <2> TAKE id \in ListedIds(f)
  <2>1. PICK s \in 1..n : id \in EntryIds(f.sections[s])
    BY <1>4
  <2>2. id \in Nat /\ id <= g[s] /\ g[s] \in Nat /\ g[s] <= b
    BY <1>2, <1>5, <1>6, <2>1
  <2> QED  BY <2>2
<1> QED  BY <1>5, <1>7

\* Ids in use are listed numbers, and so below /Size if those are.
LEMMA InUseListed ==
  ASSUME NEW f \in File
  PROVE  /\ InUse(f) \subseteq ListedIds(f) /\ InUse(f) \in SUBSET Nat
         /\ (\A id \in ListedIds(f) : id < Trailer(f).size) =>
              InUse(f) \in SUBSET (0..Trailer(f).size)
<1>1. Trailer(f).size \in Nat
  BY TrailerType
<1>2. \A id \in InUse(f) : id \in ListedIds(f) /\ id \in Nat
  BY ListedNumbers DEF InUse
<1> QED  BY <1>1, <1>2

\* The allocator starts above every id in use.
LEMMA LastObjectIDAboveInUse ==
  ASSUME NEW f \in File
  PROVE  /\ LastObjectID(f) \in Nat \ {0}
         /\ \A id \in InUse(f) : id < LastObjectID(f)
<1> DEFINE S == {0} \union InUse(f)
<1>1. PICK b \in Nat : ListedIds(f) \in SUBSET (0..b)
  BY ListedBounded
<1>2. S \in SUBSET (0..b) /\ S # {}
  BY <1>1, InUseListed
<1> HIDE DEF S
<1>3. \A y \in S : y <= Max(S)
  BY <1>1, <1>2, MaxOfBounded
<1>4. Max(S) \in Nat
  BY <1>1, <1>2, MaxOfBounded
<1>5. LastObjectID(f) = Max(S) + 1
  BY DEF LastObjectID, S
<1>6. \A id \in InUse(f) : id \in Nat /\ id <= Max(S)
  BY <1>1, <1>2, <1>3 DEF S
<1> QED  BY <1>1, <1>4, <1>5, <1>6

\* The item count of a file is a number.
LEMMA ItemCountType ==
  ASSUME NEW f \in File
  PROVE  ItemCount(f) \in Nat
<1> DEFINE size == Trailer(f).size
           S == {0} \union {id \in ListedIds(f) : id < size}
           T == {size} \union {id + 1 : id \in ListedIds(f)}
<1>1. size \in Nat
  BY TrailerType
<1>2. PICK b \in Nat : ListedIds(f) \in SUBSET (0..b)
  BY ListedBounded
<1>3. \A id \in ListedIds(f) : id \in Nat /\ id <= b
  BY <1>2
<1>4. S \in SUBSET (0..b) /\ S # {}
  BY <1>3
<1>5. T \in SUBSET (0..(size + b + 1)) /\ T # {} /\ size + b + 1 \in Nat
  BY <1>1, <1>3
<1>6. ItemCount(f) = size \/ ItemCount(f) = 1 + Max(S) \/ ItemCount(f) = Max(T)
  <2>1. f.xref = "table" \/ f.xref = "stream"
    BY DEF File
  <2> QED  BY <2>1 DEF ItemCount
<1> HIDE DEF S, T
<1>7. Max(S) \in Nat
  BY <1>4, MaxOfBounded
<1>8. Max(T) \in Nat
  BY <1>5, MaxOfBounded
<1> QED  BY <1>1, <1>6, <1>7, <1>8

\* A value read through a reference is an object, the null object at worst.
LEMMA DerefType ==
  ASSUME NEW f \in File, NEW r
  PROVE  Deref(f, r) \in Object
<1>1. Null \in Object
  BY EmptySeq, SMT DEF Null, Object, Kinds
<1>2. ASSUME Resolves(f, r)
      PROVE  f.objs[Entry(f, r.id).pos] \in Object
  BY <1>2 DEF Resolves, File
<1> QED  BY <1>1, <1>2 DEF Deref

\* What an object refers to under a key is a reference, the null one at worst.
LEMMA UnderType ==
  ASSUME NEW o \in Object, NEW key
  PROVE  Under(o, key) \in Ref
<1>1. NullRef \in Ref
  BY DEF NullRef, Ref
<1>2. ASSUME HasKey(o, key)
      PROVE  (CHOOSE e \in o.refs : e.key = key).to \in Ref
  <2>1. (CHOOSE e \in o.refs : e.key = key) \in o.refs
    BY <1>2 DEF HasKey
  <2> QED  BY <2>1 DEF Object
<1> QED  BY <1>1, <1>2 DEF Under

-----------------------------------------------------------------------------
(* The writer.                                                             *)

\* The generation looked up for a reference is a number, whatever was written.
LEMMA LatestGenerationType ==
  ASSUME NEW f \in File, NEW w \in Seq(Object), NEW id
  PROVE  LatestGeneration(f, w, id) \in Nat
<1> DEFINE inFile == {Entry(f, i).gen : i \in {id} \cap InUse(f)}
           inBytes == {w[p].gen : p \in {q \in DOMAIN w : w[q].id = id}}
           gens == {0} \union inBytes \union inFile
<1>1. PICK b \in Nat : \A p \in DOMAIN w : w[p].gen \in Nat /\ w[p].gen <= b
  <2> DEFINE g == [p \in 1..Len(w) |-> w[p].gen]
  <2>0. Len(w) \in Nat /\ DOMAIN w = 1..Len(w) /\ \A p \in 1..Len(w) : w[p] \in Object
    OBVIOUS
  <2>1. g \in [1..Len(w) -> Nat]
    <3>1. \A p \in 1..Len(w) : w[p].gen \in Nat
      BY <2>0 DEF Object
    <3> QED  BY <3>1
  <2>2. \E b \in Nat : \A p \in 1..Len(w) : g[p] <= b
    BY <2>0, <2>1, BoundedNumbers
  <2> QED  BY <2>0, <2>1, <2>2
<1>2. PICK c \in Nat : \A x \in inFile : x \in Nat /\ x <= c
  <2>1. ASSUME id \in InUse(f)
        PROVE  Entry(f, id).gen \in Nat
    <3>1. Listings(f, id) # {}
      BY <2>1 DEF InUse, IsInUse
    <3> QED  BY <3>1, EntryType DEF XrefEntry
  <2>2. CASE id \in InUse(f)
    BY <2>1, <2>2
  <2>3. CASE id \notin InUse(f)
    BY <2>3
  <2> QED  BY <2>2, <2>3
<1>3. b + c \in Nat /\ gens # {}
  OBVIOUS
<1>4. \A x \in inBytes : x \in Nat /\ x <= b
  BY <1>1
<1>5. gens \in SUBSET (0..(b + c))
  BY <1>2, <1>4
<1> HIDE DEF gens
<1>6. Max(gens) \in Nat
  BY <1>3, <1>5, MaxOfBounded
<1>7. LatestGeneration(f, w, id) = Max(gens)
  BY DEF LatestGeneration, gens
<1> QED  BY <1>6, <1>7

\* What the writer copies for a reference is a reference.
LEMMA CopyRefType ==
  ASSUME NEW f \in File, NEW w \in Seq(Object), NEW r \in Ref
  PROVE  CopyRef(f, w, r) \in Ref /\ ZeroGen(f, r) \in Ref
<1>1. LatestGeneration(f, w, r.id) \in Nat
  BY LatestGenerationType
<1> QED  BY <1>1 DEF CopyRef, ZeroGen, Ref, NullRef

\* Copied arrays and dictionaries keep their shape.
LEMMA CopyType ==
  ASSUME NEW f \in File, NEW w \in Seq(Object), NEW array \in Seq(Ref),
         NEW refs \in SUBSET [key: Keys, to: Ref]
  PROVE  /\ CopyRefs(f, w, array) \in Seq(Ref)
         /\ [i \in DOMAIN array |-> ZeroGen(f, array[i])] \in Seq(Ref)
         /\ CopyKeys(f, w, refs) \in SUBSET [key: Keys, to: Ref]
         /\ {At(e.key, ZeroGen(f, e.to)) : e \in refs} \in SUBSET [key: Keys, to: Ref]
<1>1. DOMAIN array = 1..Len(array) /\ Len(array) \in Nat
  OBVIOUS
<1>2. \A i \in 1..Len(array) : CopyRef(f, w, array[i]) \in Ref /\ ZeroGen(f, array[i]) \in Ref
  BY CopyRefType
<1>3. \A e \in refs : e.key \in Keys /\ CopyRef(f, w, e.to) \in Ref /\ ZeroGen(f, e.to) \in Ref
  BY CopyRefType
<1>4. CopyRefs(f, w, array) \in Seq(Ref)
  BY <1>1, <1>2, IsASeq DEF CopyRefs
<1>5. [i \in DOMAIN array |-> ZeroGen(f, array[i])] \in Seq(Ref)
  BY <1>1, <1>2, IsASeq
<1> QED  BY <1>3, <1>4, <1>5 DEF CopyKeys, At

-----------------------------------------------------------------------------
(* The inductive invariant.                                                *)

\* An attempt is under way.
Working == pc \notin {"idle", "attempt"}

\* What resetIncrementalState leaves behind.
Cleared ==
  /\ lastXrefID = 0 /\ newXrefEntries = <<>> /\ updatedXrefEntries = <<>>
  /\ buf = <<>> /\ ids = NoIds /\ todo = {} /\ section = NoSection

\* The buffer of an attempt begins with the document.
Copied ==
  /\ Len(doc.objs) <= Len(buf)
  /\ \A p \in 1..Len(doc.objs) : buf[p] = doc.objs[p]

\* The state of the allocator and of the buffer during an attempt. The ids are
\* counted from the document alone, whether or not the counter has been read yet.
Allocating ==
  /\ doc \in File
  /\ lastXrefID \in {0, LastObjectID(doc)}
  /\ newXrefEntries \in Seq(XrefEntry)
  /\ buf \in Seq(Object)
  /\ Copied
  /\ AllocationExact
  /\ EncryptedForItself

\* The fields left to fill are fields, or widgets of fields, of the document.
TodoInFields ==
  \A t \in todo : t[2] \in DOMAIN Fields /\ t[3] \in DOMAIN Family(t[2])

IInv ==
  /\ TypeOK
  /\ Working => Allocating /\ attempt < MaxRetries
  /\ ~Working => Cleared
  /\ pc = "mask" => ids.mask = NextObjectID
  /\ TodoInFields

-----------------------------------------------------------------------------
(* The allocator.                                                          *)

\* The next id is above every id in use, whichever step asks for it.
LEMMA NextIDIsNew ==
  ASSUME Allocating
  PROVE  /\ LastID = LastObjectID(doc)
         /\ NextObjectID = LastObjectID(doc) + Len(newXrefEntries) + 1
         /\ NextObjectID \in Nat \ {0}
         /\ NextObjectID \notin InUse(doc)
<1>1. doc \in File
  BY DEF Allocating
<1>2. LastObjectID(doc) \in Nat \ {0} /\ \A id \in InUse(doc) : id < LastObjectID(doc)
  BY <1>1, LastObjectIDAboveInUse
<1>3. LastID = LastObjectID(doc)
  BY <1>2 DEF Allocating, LastID
<1>4. Len(newXrefEntries) \in Nat
  BY DEF Allocating
<1>5. NextObjectID = LastObjectID(doc) + Len(newXrefEntries) + 1
  BY <1>3 DEF NextObjectID
<1>6. \A id \in InUse(doc) : id \in Nat
  BY <1>1, InUseListed
<1> QED  BY <1>2, <1>3, <1>4, <1>5, <1>6

\* addObject keeps the allocator exact when the object was encrypted for the id
\* that getNextObjectID predicts.
LEMMA AddObjectKeepsAllocating ==
  ASSUME Allocating, NEW object \in Object, object.keys \subseteq {0, NextObjectID},
         AddObject(object), UNCHANGED doc
  PROVE  Allocating' /\ NextObjectID' = NextObjectID + 1
<1> DEFINE id == NextObjectID
           written == [object EXCEPT !.id = id, !.gen = 0]
           entry == [id |-> id, gen |-> 0, pos |-> Len(buf) + 1]
           n == Len(newXrefEntries)
           L == LastObjectID(doc)
<1>1. LastID = L /\ id = L + n + 1 /\ id \in Nat \ {0} /\ id \notin InUse(doc) /\ L \in Nat
  <2>1. L \in Nat
    BY LastObjectIDAboveInUse DEF Allocating
  <2> QED  BY <2>1, NextIDIsNew
<1>2. /\ buf \in Seq(Object) /\ Len(buf) \in Nat /\ n \in Nat
      /\ newXrefEntries \in Seq(XrefEntry)
      /\ doc \in File /\ Len(doc.objs) \in Nat /\ Len(doc.objs) <= Len(buf)
  BY DEF Allocating, Copied, File
<1>3. written \in Object /\ written.id = id /\ written.keys = object.keys
  BY <1>1 DEF Object
<1>4. entry \in XrefEntry
  BY <1>1, <1>2 DEF XrefEntry
<1>5. lastXrefID' = L /\ newXrefEntries' = Append(newXrefEntries, entry) /\ buf' = Append(buf, written)
  BY <1>1 DEF AddObject
<1> HIDE DEF written, entry, id, n, L
<1>6. /\ buf' \in Seq(Object) /\ Len(buf') = Len(buf) + 1
      /\ buf'[Len(buf) + 1] = written
      /\ \A p \in 1..Len(buf) : buf'[p] = buf[p]
  BY <1>2, <1>3, <1>5, AppendProperties
<1>7. /\ newXrefEntries' \in Seq(XrefEntry) /\ Len(newXrefEntries') = n + 1
      /\ newXrefEntries'[n + 1] = entry
      /\ \A i \in 1..n : newXrefEntries'[i] = newXrefEntries[i]
  BY <1>2, <1>4, <1>5, AppendProperties DEF n
<1>8. AllocationExact'
  <2> SUFFICES ASSUME NEW i \in 1..(n + 1)
               PROVE  LET e == newXrefEntries'[i] IN
                        /\ e.id = LastObjectID(doc) + i
                        /\ e.id \notin InUse(doc)
                        /\ e.pos \in (Len(doc.objs) + 1)..Len(buf')
                        /\ buf'[e.pos].id = e.id
    BY <1>2, <1>7 DEF AllocationExact
  <2>1. CASE i = n + 1
    <3>1. newXrefEntries'[i] = entry /\ entry.id = id /\ entry.pos = Len(buf) + 1
      BY <1>7, <2>1 DEF entry
    <3>2. id = LastObjectID(doc) + i
      BY <1>1, <1>2, <2>1 DEF L
    <3>3. Len(buf) + 1 \in (Len(doc.objs) + 1)..Len(buf') /\ buf'[Len(buf) + 1].id = id
      BY <1>2, <1>3, <1>6
    <3> QED  BY <1>1, <3>1, <3>2, <3>3
  <2>2. CASE i # n + 1
    <3>1. i \in 1..n /\ i \in DOMAIN newXrefEntries
      BY <1>2, <2>2 DEF n
    <3>2. newXrefEntries'[i] = newXrefEntries[i]
      BY <1>7, <3>1
    <3>3. LET e == newXrefEntries[i] IN
            /\ e.id = LastObjectID(doc) + i /\ e.id \notin InUse(doc)
            /\ e.pos \in (Len(doc.objs) + 1)..Len(buf) /\ buf[e.pos].id = e.id
      BY <3>1 DEF Allocating, AllocationExact
    <3> QED  BY <1>2, <1>6, <3>2, <3>3
  <2> QED  BY <2>1, <2>2
<1>9. EncryptedForItself'
  <2> SUFFICES ASSUME NEW p \in (Len(doc.objs) + 1)..Len(buf')
               PROVE  buf'[p].keys \subseteq {0, buf'[p].id}
    BY DEF EncryptedForItself, Written
  <2>1. CASE p = Len(buf) + 1
    BY <1>3, <1>6, <2>1 DEF id
  <2>2. CASE p # Len(buf) + 1
    <3>1. p \in (Len(doc.objs) + 1)..Len(buf) /\ p \in 1..Len(buf)
      BY <1>2, <1>6, <2>2
    <3>2. buf[p].keys \subseteq {0, buf[p].id}
      BY <3>1 DEF Allocating, EncryptedForItself, Written
    <3> QED  BY <1>6, <3>1, <3>2
  <2> QED  BY <2>1, <2>2
<1>10. Copied'
  BY <1>2, <1>6 DEF Allocating, Copied
<1>11. NextObjectID' = id + 1
  <2>1. L # 0
    BY <1>2, LastObjectIDAboveInUse DEF L
  <2>2. LastID' = L
    BY <1>5, <2>1 DEF LastID
  <2> QED  BY <1>1, <1>2, <1>7, <2>2 DEF NextObjectID
<1>12. Allocating'
  BY <1>2, <1>5, <1>6, <1>7, <1>8, <1>9, <1>10 DEF Allocating, L
<1> QED  BY <1>11, <1>12 DEF id

\* updateObject leaves the allocator alone and writes for the id it is given.
LEMMA UpdateObjectKeepsAllocating ==
  ASSUME Allocating, updatedXrefEntries \in Seq(XrefEntry),
         NEW id \in Nat, NEW object \in Object, object.keys \subseteq {0, id},
         UpdateObject(id, object), UNCHANGED <<doc, lastXrefID, newXrefEntries>>
  PROVE  Allocating' /\ updatedXrefEntries' \in Seq(XrefEntry)
<1> DEFINE written == [object EXCEPT !.id = id, !.gen = 0]
           entry == [id |-> id, gen |-> 0, pos |-> Len(buf) + 1]
<1>1. /\ buf \in Seq(Object) /\ Len(buf) \in Nat
      /\ doc \in File /\ Len(doc.objs) \in Nat /\ Len(doc.objs) <= Len(buf)
  BY DEF Allocating, Copied, File
<1>2. written \in Object /\ written.id = id /\ written.keys = object.keys
  BY DEF Object
<1>3. entry \in XrefEntry
  BY <1>1 DEF XrefEntry
<1>4. updatedXrefEntries' = Append(updatedXrefEntries, entry) /\ buf' = Append(buf, written)
  BY DEF UpdateObject
<1> HIDE DEF written, entry
<1>5. /\ buf' \in Seq(Object) /\ Len(buf') = Len(buf) + 1
      /\ buf'[Len(buf) + 1] = written
      /\ \A p \in 1..Len(buf) : buf'[p] = buf[p]
  BY <1>1, <1>2, <1>4, AppendProperties
<1>6. updatedXrefEntries' \in Seq(XrefEntry)
  BY <1>3, <1>4, AppendProperties
<1>7. AllocationExact'
  <2> SUFFICES ASSUME NEW i \in DOMAIN newXrefEntries
               PROVE  LET e == newXrefEntries[i] IN
                        /\ e.id = LastObjectID(doc) + i
                        /\ e.id \notin InUse(doc)
                        /\ e.pos \in (Len(doc.objs) + 1)..Len(buf')
                        /\ buf'[e.pos].id = e.id
    BY DEF AllocationExact
  <2>1. LET e == newXrefEntries[i] IN
          /\ e.id = LastObjectID(doc) + i /\ e.id \notin InUse(doc)
          /\ e.pos \in (Len(doc.objs) + 1)..Len(buf) /\ buf[e.pos].id = e.id
    BY DEF Allocating, AllocationExact
  <2> QED  BY <1>1, <1>5, <2>1
<1>8. EncryptedForItself'
  <2> SUFFICES ASSUME NEW p \in (Len(doc.objs) + 1)..Len(buf')
               PROVE  buf'[p].keys \subseteq {0, buf'[p].id}
    BY DEF EncryptedForItself, Written
  <2>1. CASE p = Len(buf) + 1
    BY <1>2, <1>5, <2>1
  <2>2. CASE p # Len(buf) + 1
    <3>1. p \in (Len(doc.objs) + 1)..Len(buf) /\ p \in 1..Len(buf)
      BY <1>1, <1>5, <2>2
    <3>2. buf[p].keys \subseteq {0, buf[p].id}
      BY <3>1 DEF Allocating, EncryptedForItself, Written
    <3> QED  BY <1>5, <3>1, <3>2
  <2> QED  BY <2>1, <2>2
<1>9. Copied'
  BY <1>1, <1>5 DEF Allocating, Copied
<1> QED  BY <1>1, <1>5, <1>6, <1>7, <1>8, <1>9 DEF Allocating

-----------------------------------------------------------------------------
(* The objects the code writes.                                            *)

\* A plain object is an object without keys.
LEMMA PlainType ==
  ASSUME NEW kind \in Kinds
  PROVE  Plain(kind) \in Object /\ Plain(kind).keys = {}
BY EmptySeq DEF Plain, Object

\* A new object encrypted for one id is an object that has only that key.
LEMMA EncryptedType ==
  ASSUME NEW kind \in Kinds, NEW id \in Nat
  PROVE  /\ [Plain(kind) EXCEPT !.keys = {id}] \in Object
         /\ [Plain(kind) EXCEPT !.keys = {id}].keys = {id}
<1> DEFINE o == Plain(kind)
<1>1. o \in Object
  BY PlainType
<1> HIDE DEF o
<1>2. [o EXCEPT !.keys = {id}] \in Object /\ [o EXCEPT !.keys = {id}].keys = {id}
  BY <1>1 DEF Object
<1> QED  BY <1>2 DEF o

\* Giving it references changes neither.
LEMMA ReferringType ==
  ASSUME NEW o \in Object, NEW refs \in SUBSET [key: Keys, to: Ref]
  PROVE  [o EXCEPT !.refs = refs] \in Object /\ [o EXCEPT !.refs = refs].keys = o.keys
BY DEF Object

\* A reference under a key is a member of a dictionary.
LEMMA AtType ==
  ASSUME NEW key \in Keys, NEW r \in Ref
  PROVE  {At(key, r)} \in SUBSET [key: Keys, to: Ref]
BY DEF At

\* Ids make references.
LEMMA NewType ==
  ASSUME NEW id \in Nat
  PROVE  New(id) \in Ref
BY DEF New, Ref

IdsType == [sig: Nat, image: Nat, mask: Nat, ap: Nat, widget: Nat, page: Ref, catalog: Nat]

\* The signature field is encrypted for the id it will get.
LEMMA SignatureFieldType ==
  ASSUME doc \in File, ids \in IdsType, NextObjectID \in Nat, NEW page \in Ref
  PROVE  SignatureField(page) \in Object /\ SignatureField(page).keys = {NextObjectID}
<1> DEFINE refs == {At("V", FieldValue), At("P", page)}
                     \union (IF req.visible THEN {At("AP", New(ids.ap))} ELSE {})
           o == Plain("Widget")
<1>2. FieldValue \in Ref /\ New(ids.ap) \in Ref
  BY NewType DEF FieldValue, IdsType
<1>3. refs \in SUBSET [key: Keys, to: Ref]
  BY <1>2 DEF At, Keys
<1>4. o \in Object
  BY PlainType DEF Kinds
<1>5. SignatureField(page) = [o EXCEPT !.keys = {NextObjectID}, !.refs = refs]
  BY DEF SignatureField
<1> HIDE DEF o, refs
<1> QED  BY <1>3, <1>4, <1>5 DEF Object

\* A filled field is encrypted for itself, whatever the old one was.
LEMMA FilledFieldType ==
  ASSUME Allocating, ids \in IdsType, NEW r \in Ref
  PROVE  FilledField(r) \in Object /\ FilledField(r).keys = {r.id}
<1> DEFINE field == Deref(doc, r)
           old == {e \in field.refs : e.key \notin {"AP", "V"}}
           copied == CopyKeys(doc, buf, old)
           refs == IF ids.ap = 0 THEN copied ELSE copied \union {At("AP", New(ids.ap))}
           kids == CopyRefs(doc, buf, field.kids)
<1>1. doc \in File /\ buf \in Seq(Object) /\ field \in Object
  BY DerefType DEF Allocating
<1>2. field.kids \in Seq(Ref) /\ old \in SUBSET [key: Keys, to: Ref]
  BY <1>1 DEF Object
<1> HIDE DEF field, old
<1>3. kids \in Seq(Ref) /\ copied \in SUBSET [key: Keys, to: Ref]
  BY <1>1, <1>2, CopyType
<1>4. refs \in SUBSET [key: Keys, to: Ref]
  <2>1. ids.ap \in Nat
    BY DEF IdsType
  <2>2. {At("AP", New(ids.ap))} \in SUBSET [key: Keys, to: Ref]
    BY <2>1, NewType, AtType DEF Keys
  <2> QED  BY <1>3, <2>2
<1> HIDE DEF copied, refs, kids
<1>5. FilledField(r) = [field EXCEPT !.keys = {r.id}, !.kids = kids, !.refs = refs]
  BY DEF FilledField, field, old, copied, refs, kids
<1>6. r.id \in Nat
  BY DEF Ref
<1>7. /\ field.id \in Nat /\ field.gen \in Nat /\ field.kind \in Kinds
      /\ field.dss \in Seq(Ref)
      /\ FilledField(r) = [id |-> field.id, gen |-> field.gen, kind |-> field.kind,
                           keys |-> {r.id}, kids |-> kids, refs |-> refs, dss |-> field.dss]
  BY <1>1, <1>5 DEF Object
<1> QED  BY <1>3, <1>4, <1>6, <1>7 DEF Object

\* The rewritten page has no key of its own.
LEMMA UpdatedPageType ==
  ASSUME Allocating, ids \in IdsType
  PROVE  UpdatedPage \in Object /\ UpdatedPage.keys \subseteq {0}
<1> DEFINE page == Deref(doc, ids.page)
           annots == [i \in DOMAIN page.kids |-> ZeroGen(doc, page.kids[i])]
           kids == Append(annots, New(ids.widget))
           refs == {At(e.key, ZeroGen(doc, e.to)) : e \in page.refs}
           keys == IF page.keys = {} THEN {} ELSE {0}
<1>1. doc \in File /\ buf \in Seq(Object) /\ page \in Object
  BY DerefType DEF Allocating
<1>2. page.kids \in Seq(Ref) /\ page.refs \in SUBSET [key: Keys, to: Ref]
  BY <1>1 DEF Object
<1>3. UpdatedPage = [page EXCEPT !.keys = keys, !.kids = kids, !.refs = refs]
  BY DEF UpdatedPage
<1> HIDE DEF page
<1>4. annots \in Seq(Ref) /\ refs \in SUBSET [key: Keys, to: Ref]
  BY <1>1, <1>2, CopyType
<1> HIDE DEF annots
<1>5. kids \in Seq(Ref)
  <2>1. New(ids.widget) \in Ref
    BY NewType DEF IdsType
  <2> QED  BY <1>4, <2>1, AppendProperties
<1>6. keys \in SUBSET Nat /\ keys \subseteq {0}
  OBVIOUS
<1> HIDE DEF kids, refs, keys
<1> QED  BY <1>1, <1>3, <1>4, <1>5, <1>6 DEF Object

\* The new catalog is encrypted for the id it will get.
LEMMA NewCatalogType ==
  ASSUME Allocating, ids \in IdsType, NextObjectID \in Nat
  PROVE  NewCatalog \in Object /\ NewCatalog.keys = {NextObjectID}
<1> DEFINE old == Catalog(doc)
           refs == CopyKeys(doc, buf, old.refs)
           dss == CopiedStores
<1>1. doc \in File /\ buf \in Seq(Object) /\ old \in Object
  BY DerefType DEF Allocating, Catalog
<1>2. old.kids \in Seq(Ref) /\ old.dss \in Seq(Ref) /\ old.refs \in SUBSET [key: Keys, to: Ref]
  BY <1>1 DEF Object
<1>3. NewCatalog = [Plain("Catalog") EXCEPT !.keys = {NextObjectID}, !.kids = NewFields,
                                            !.refs = refs, !.dss = dss]
  BY DEF NewCatalog
<1>stores. CopiedStores = IF old.dss = <<>> THEN <<>> ELSE <<CopyRef(doc, buf, Last(old.dss))>>
  BY DEF CopiedStores
<1>4. NewFields \in Seq(Ref)
  <2>1. CopyRefs(doc, buf, Fields) \in Seq(Ref)
    BY <1>1, <1>2, CopyType DEF Fields
  <2>2. New(ids.widget) \in Ref
    BY NewType DEF IdsType
  <2> QED  BY <2>1, <2>2, AppendProperties DEF NewFields
<1> HIDE DEF old
<1>5. refs \in SUBSET [key: Keys, to: Ref]
  BY <1>1, <1>2, CopyType
<1>6. dss \in Seq(Ref)
  <2>1. CASE old.dss = <<>>
    BY <1>stores, <2>1, EmptySeq
  <2>2. CASE old.dss # <<>>
    <3>1. Last(old.dss) \in Ref
      BY <1>2, <2>2 DEF Last
    <3>2. CopyRef(doc, buf, Last(old.dss)) \in Ref
      BY <1>1, <3>1, CopyRefType
    <3> QED  BY <1>stores, <2>2, <3>2
  <2> QED  BY <2>1, <2>2
<1>7. Plain("Catalog") \in Object
  BY PlainType DEF Kinds
<1> HIDE DEF refs, dss
<1> QED  BY <1>3, <1>4, <1>5, <1>6, <1>7 DEF Object

-----------------------------------------------------------------------------
(* The steps.                                                              *)

\* The cross-reference section lists entries and has a size and a root.
LEMMA NewSectionType ==
  ASSUME TypeOK, NEW size \in Nat
  PROVE  NewSection(size) \in Section
<1>1. updatedXrefEntries \o newXrefEntries \in Seq(XrefEntry)
  BY ConcatProperties DEF TypeOK
<1>2. New(ids.catalog) \in Ref
  BY NewType DEF TypeOK
<1> QED  BY <1>1, <1>2 DEF NewSection, Section

\* A step that ends a call or an attempt restores the invariant.
LEMMA ResetKeepsIInv ==
  ASSUME ResetIncrementalState, doc' \in File, req' \in Request,
         attempt' \in 0..MaxRetries, pc' \in {"idle", "attempt"}
  PROVE  IInv'
<1>1. Cleared'
  BY DEF ResetIncrementalState, Cleared
<1>2. ~Working' /\ pc' \in Steps /\ pc' # "mask"
  BY DEF Working, Steps
<1>3. NoIds \in [sig: Nat, image: Nat, mask: Nat, ap: Nat, widget: Nat, page: Ref, catalog: Nat]
  BY DEF NoIds, NullRef, Ref
<1>4. NoSection \in Section
  BY EmptySeq DEF NoSection, NullRef, Ref, Section
<1>5. TypeOK'
  BY <1>1, <1>2, <1>3, <1>4, EmptySeq DEF TypeOK, Cleared
<1>6. TodoInFields'
  BY <1>1 DEF Cleared, TodoInFields
<1> QED  BY <1>1, <1>2, <1>5, <1>6 DEF IInv

\* A step that adds an object encrypted for the id predicted keeps the invariant.
LEMMA AddKeepsIInv ==
  ASSUME IInv, Working,
         NEW object \in Object, object.keys \subseteq {0, NextObjectID}, AddObject(object),
         UNCHANGED <<doc, req, attempt, updatedXrefEntries>>,
         pc' \in Steps \ {"idle", "attempt"}, pc' = "mask" => ids'.mask = NextObjectID + 1,
         ids' \in IdsType, section' \in Section,
         todo' \subseteq (1..2) \X Nat \X Nat, TodoInFields'
  PROVE  IInv'
<1>1. Allocating' /\ NextObjectID' = NextObjectID + 1
  BY AddObjectKeepsAllocating DEF IInv
<1>2. lastXrefID' \in Nat
  BY <1>1, LastObjectIDAboveInUse DEF Allocating
<1>3. TypeOK'
  BY <1>1, <1>2 DEF TypeOK, Allocating, IInv, IdsType
<1>4. Working' /\ attempt' < MaxRetries
  BY DEF Working, IInv
<1> QED  BY <1>1, <1>3, <1>4 DEF IInv

\* A step that neither adds nor removes an object keeps the invariant.
LEMMA StayKeepsIInv ==
  ASSUME IInv, Working,
         UNCHANGED <<doc, req, attempt, lastXrefID, newXrefEntries, updatedXrefEntries, buf, ids>>,
         pc' \in Steps \ {"idle", "attempt", "mask"}, section' \in Section, UNCHANGED todo
  PROVE  IInv'
<1>1. TypeOK' /\ TodoInFields' /\ Working'
  BY DEF IInv, TypeOK, TodoInFields, Fields, Family, Working
<1>2. Allocating'
  BY DEF IInv, Allocating, Copied, AllocationExact, EncryptedForItself, Written
<1> QED  BY <1>1, <1>2 DEF IInv

\* The fields and widgets chosen to be filled are positions of the document.
LEMMA FillTargetsType ==
  ASSUME doc \in File
  PROVE  /\ FillTargets \subseteq (1..2) \X Nat \X Nat
         /\ \A t \in FillTargets : t[2] \in DOMAIN Fields /\ t[3] \in DOMAIN Family(t[2])
<1>1. Fields \in Seq(Ref)
  BY DerefType DEF Fields, Catalog, Object
<1>2. ASSUME NEW i \in DOMAIN Fields
      PROVE  Family(i) \in Seq(Ref)
  <2>1. Deref(doc, Fields[i]).kids \in Seq(Ref)
    BY DerefType DEF Object
  <2>2. Fields[i] \in Ref
    BY <1>1
  <2> QED  BY <2>1, <2>2, AppendProperties DEF Family
<1>3. SUFFICES ASSUME NEW t \in FillTargets
               PROVE  /\ t \in (1..2) \X Nat \X Nat
                      /\ t[2] \in DOMAIN Fields /\ t[3] \in DOMAIN Family(t[2])
  OBVIOUS
<1>4. PICK pass \in 1..2 : t \in UNION {{<<pass, i, k>> : k \in Present(i)} : i \in Matching(pass)}
  BY <1>3 DEF FillTargets
<1>. PICK i \in Matching(pass) : t \in {<<pass, i, k>> : k \in Present(i)}
  BY <1>4
<1>. PICK k \in Present(i) : t = <<pass, i, k>>
  OBVIOUS
<1>5. i \in DOMAIN Fields
  BY DEF Matching
<1>6. i \in Nat /\ k \in Nat /\ k \in DOMAIN Family(i)
  BY <1>1, <1>2, <1>5 DEF Present
<1> QED  BY <1>5, <1>6

\* A position left to fill is a reference of the document.
LEMMA TargetType ==
  ASSUME doc \in File, TodoInFields, NEW t \in todo
  PROVE  Target(t) \in Ref
<1>1. t[2] \in DOMAIN Fields /\ t[3] \in DOMAIN Family(t[2])
  BY DEF TodoInFields
<1>2. Fields \in Seq(Ref)
  BY DerefType DEF Fields, Catalog, Object
<1>3. Deref(doc, Fields[t[2]]).kids \in Seq(Ref)
  BY DerefType DEF Object
<1>4. Family(t[2]) \in Seq(Ref)
  BY <1>1, <1>2, <1>3, AppendProperties DEF Family
<1> QED  BY <1>1, <1>4 DEF Target

-----------------------------------------------------------------------------
(* The invariant holds.                                                    *)

\* Every first state, in which no call has begun, satisfies the invariant.
LEMMA InitIInv == Init => IInv
<1> SUFFICES ASSUME Init PROVE IInv
  OBVIOUS
<1>1. doc \in File /\ req \in Request /\ attempt \in 0..MaxRetries
  BY InputFilesAssumption, RequestsAssumption, BoundsAssumption DEF Init
<1>2. NoIds \in [sig: Nat, image: Nat, mask: Nat, ap: Nat, widget: Nat, page: Ref, catalog: Nat]
  BY DEF NoIds, NullRef, Ref
<1>3. NoSection \in Section
  BY EmptySeq DEF NoSection, NullRef, Ref, Section
<1>4. TypeOK
  BY <1>1, <1>2, <1>3, EmptySeq DEF Init, TypeOK, Steps
<1> QED  BY <1>4 DEF Init, IInv, Working, Cleared, TodoInFields

\* A signed document is a file.
LEMMA SignedFileType ==
  ASSUME IInv, Working
  PROVE  SignedFile \in File
<1>1. doc \in File /\ buf \in Seq(Object) /\ section \in Section
  BY DEF IInv, TypeOK
<1>2. doc.sections \in Seq(Section)
  BY <1>1 DEF File
<1>3. Append(doc.sections, section) \in Seq(Section) \ {<<>>}
  BY <1>1, <1>2, AppendProperties
<1> QED  BY <1>1, <1>3 DEF SignedFile, File

\* An added object of a given kind that refers to one object of this revision.
LEMMA AddedType ==
  ASSUME IInv, Working
  PROVE  /\ NextObjectID \in Nat \ {0}
         /\ ids \in IdsType
         /\ doc \in File /\ section \in Section /\ req \in Request
         /\ todo \subseteq (1..2) \X Nat \X Nat
         /\ \A key \in Keys, id \in Nat : {At(key, New(id))} \in SUBSET [key: Keys, to: Ref]
BY NextIDIsNew, AtType, NewType DEF IInv, TypeOK, IdsType

\* Every step of a call, and every start of one, keeps the invariant.
LEMMA StepIInv == IInv /\ [Next]_vars => IInv'
<1> SUFFICES ASSUME IInv, [Next]_vars PROVE IInv'
  OBVIOUS
<1>1. CASE UNCHANGED vars
  <2>1. TypeOK' /\ TodoInFields' /\ (Working' <=> Working) /\ (Cleared' <=> Cleared)
    BY <1>1 DEF IInv, TypeOK, TodoInFields, Fields, Family, Working, Cleared, vars, context
  <2>2. Allocating' <=> Allocating
    BY <1>1 DEF Allocating, Copied, AllocationExact, EncryptedForItself, Written, vars, context
  <2>3. (NextObjectID' = NextObjectID) /\ ids' = ids /\ pc' = pc /\ attempt' = attempt
    BY <1>1 DEF NextObjectID, LastID, vars, context
  <2> QED  BY <2>1, <2>2, <2>3 DEF IInv
<1>2. ASSUME NEW r \in Requests, StartSign(r)
      PROVE  IInv'
  <2>1. doc' \in File /\ req' \in Request /\ attempt' \in 0..MaxRetries
    BY <1>2, RequestsAssumption, BoundsAssumption DEF StartSign, IInv, TypeOK
  <2> QED  BY <1>2, <2>1, ResetKeepsIInv DEF StartSign
<1>3. ASSUME ReturnError
      PROVE  IInv'
  BY <1>3, ResetKeepsIInv DEF ReturnError, IInv, TypeOK
<1>4. CASE BeginAttempt
  <2>1. doc \in File /\ doc.objs \in Seq(Object)
    BY DEF IInv, TypeOK, File
  <2>2. ~Working /\ Cleared /\ Working' /\ pc' # "mask"
    BY <1>4 DEF BeginAttempt, IInv, Working
  <2>3. TypeOK' /\ TodoInFields'
    BY <1>4, <2>1 DEF BeginAttempt, IInv, TypeOK, TodoInFields, Fields, Family, CopiedInput, Steps
  <2>4. Allocating'
    <3>1. buf' = doc.objs /\ newXrefEntries' = <<>> /\ lastXrefID' = 0 /\ doc' = doc
      BY <1>4, <2>2 DEF BeginAttempt, Cleared, CopiedInput
    <3>2. Len(doc.objs) \in Nat
      BY <2>1
    <3>3. AllocationExact'
      BY <3>1 DEF AllocationExact
    <3>4. EncryptedForItself'
      BY <3>1, <3>2 DEF EncryptedForItself, Written
    <3>5. Copied'
      BY <3>1, <3>2 DEF Copied
    <3> QED  BY <2>1, <3>1, <3>3, <3>4, <3>5, EmptySeq DEF Allocating
  <2>5. attempt' < MaxRetries
    BY <1>4 DEF BeginAttempt, RetriesLeft
  <2> QED  BY <2>2, <2>3, <2>4, <2>5 DEF IInv
<1>5. CASE AddSignature
  <2> DEFINE object == IF req.certType = "TimeStamp"
                       THEN Plain("DocTimeStamp")
                       ELSE [Plain("Sig") EXCEPT !.keys = {NextObjectID}]
  <2>1. Working
    BY <1>5 DEF AddSignature, Working
  <2>2. object \in Object /\ object.keys \subseteq {0, NextObjectID}
    <3>1. Plain("DocTimeStamp") \in Object /\ Plain("DocTimeStamp").keys = {}
      BY PlainType DEF Kinds
    <3>2. /\ [Plain("Sig") EXCEPT !.keys = {NextObjectID}] \in Object
          /\ [Plain("Sig") EXCEPT !.keys = {NextObjectID}].keys = {NextObjectID}
      <4>1. NextObjectID \in Nat /\ "Sig" \in Kinds
        BY <2>1, AddedType DEF Kinds
      <4> QED  BY <4>1, EncryptedType
    <3> QED  BY <3>1, <3>2
  <2>3. ids' \in IdsType
    BY <1>5, <2>1, AddedType DEF AddSignature, IdsType
  <2> HIDE DEF object
  <2>4. AddObject(object)
    BY <1>5 DEF AddSignature, object
  <2>5. TodoInFields' /\ todo' = todo /\ section' = section
    BY <1>5 DEF AddSignature, IInv, TodoInFields, Fields, Family
  <2> QED  BY <1>5, <2>1, <2>2, <2>3, <2>4, <2>5, AddedType, AddKeepsIInv DEF AddSignature, Steps
<1>6. CASE AddImage
  <2> DEFINE image == [Plain("Image") EXCEPT !.keys = {NextObjectID}]
             object == IF req.image = "alpha"
                       THEN [image EXCEPT !.refs = {At("SMask", New(MaskID))}]
                       ELSE image
  <2>1. Working
    BY <1>6 DEF AddImage, Working
  <2>2. MaskID \in Nat /\ {At("SMask", New(MaskID))} \in SUBSET [key: Keys, to: Ref]
    BY <2>1, AddedType DEF MaskID, Keys
  <2>3. object \in Object /\ object.keys \subseteq {0, NextObjectID}
    <3>1. NextObjectID \in Nat /\ "Image" \in Kinds
      BY <2>1, AddedType DEF Kinds
    <3>2. image \in Object /\ image.keys = {NextObjectID}
      BY <3>1, EncryptedType
    <3> HIDE DEF image
    <3> QED  BY <2>2, <3>2, ReferringType
  <2>4. ids' \in IdsType /\ ids'.mask = NextObjectID + 1
    BY <1>6, <2>1, <2>2, AddedType DEF AddImage, IdsType, MaskID
  <2> HIDE DEF object
  <2>5. AddObject(object)
    BY <1>6 DEF AddImage, object
  <2>6. TodoInFields' /\ todo' = todo /\ section' = section
    BY <1>6 DEF AddImage, IInv, TodoInFields, Fields, Family
  <2> QED  BY <1>6, <2>1, <2>3, <2>4, <2>5, <2>6, AddedType, AddKeepsIInv DEF AddImage, Steps
<1>7. CASE AddMask
  <2> DEFINE object == [Plain("Mask") EXCEPT !.keys = {ids.mask}]
  <2>1. Working /\ ids.mask = NextObjectID
    BY <1>7 DEF AddMask, Working, IInv
  <2>2. object \in Object /\ object.keys \subseteq {0, NextObjectID}
    <3>1. ids.mask \in Nat /\ "Mask" \in Kinds
      BY <2>1, AddedType DEF Kinds
    <3> QED  BY <2>1, <3>1, EncryptedType
  <2> HIDE DEF object
  <2>3. AddObject(object)
    BY <1>7 DEF AddMask, object
  <2>4. TodoInFields' /\ todo' = todo /\ section' = section /\ ids' = ids
    BY <1>7 DEF AddMask, IInv, TodoInFields, Fields, Family
  <2> QED  BY <1>7, <2>1, <2>2, <2>3, <2>4, AddedType, AddKeepsIInv DEF AddMask, Steps
<1>8. CASE AddAppearance
  <2> DEFINE appearance == [Plain("Appearance") EXCEPT !.keys = {NextObjectID}]
             object == IF pc = "appearance"
                       THEN [appearance EXCEPT !.refs = {At("XObject", New(ids.image))}]
                       ELSE appearance
  <2>1. Working
    BY <1>8 DEF AddAppearance, Working
  <2>2. {At("XObject", New(ids.image))} \in SUBSET [key: Keys, to: Ref]
    BY <2>1, AddedType DEF IdsType, Keys
  <2>3. object \in Object /\ object.keys \subseteq {0, NextObjectID}
    <3>1. NextObjectID \in Nat /\ "Appearance" \in Kinds
      BY <2>1, AddedType DEF Kinds
    <3>2. appearance \in Object /\ appearance.keys = {NextObjectID}
      BY <3>1, EncryptedType
    <3> HIDE DEF appearance
    <3> QED  BY <2>2, <3>2, ReferringType
  <2>4. ids' \in IdsType
    BY <1>8, <2>1, AddedType DEF AddAppearance, IdsType
  <2> HIDE DEF object
  <2>5. AddObject(object)
    BY <1>8 DEF AddAppearance, object
  <2>6. TodoInFields' /\ todo' = todo /\ section' = section
    BY <1>8 DEF AddAppearance, IInv, TodoInFields, Fields, Family
  <2> QED  BY <1>8, <2>1, <2>3, <2>4, <2>5, <2>6, AddedType, AddKeepsIInv DEF AddAppearance, Steps
<1>9. CASE AddWidget
  <2>1. Working
    BY <1>9 DEF AddWidget, Working
  <2>2. PICK i \in DOMAIN PageTree(doc) :
          /\ AddObject(SignatureField(PageTree(doc)[i]))
          /\ ids' = [ids EXCEPT !.widget = NextObjectID, !.page = PageTree(doc)[i], !.ap = 0]
    BY <1>9 DEF AddWidget
  <2>3. PageTree(doc)[i] \in Ref
    <3>1. PageTree(doc) \in Seq(Ref)
      BY <2>1, AddedType, DerefType DEF PageTree, Object
    <3> QED  BY <3>1
  <2>4. /\ SignatureField(PageTree(doc)[i]) \in Object
        /\ SignatureField(PageTree(doc)[i]).keys \subseteq {0, NextObjectID}
    BY <2>1, <2>3, AddedType, SignatureFieldType
  <2>5. ids' \in IdsType
    BY <2>1, <2>2, <2>3, AddedType DEF IdsType
  <2>6. todo' \subseteq (1..2) \X Nat \X Nat /\ TodoInFields'
    <3>1. doc' = doc /\ todo' \subseteq FillTargets
      BY <1>9 DEF AddWidget
    <3> QED  BY <2>1, <3>1, AddedType, FillTargetsType DEF TodoInFields, Fields, Family
  <2>7. section' = section
    BY <1>9 DEF AddWidget
  <2> QED  BY <1>9, <2>1, <2>2, <2>4, <2>5, <2>6, <2>7, AddedType, AddKeepsIInv DEF AddWidget, Steps
<1>10. CASE AddFieldAppearance
  <2> DEFINE object == [Plain("Appearance") EXCEPT !.keys = {NextObjectID}]
  <2>1. Working
    BY <1>10 DEF AddFieldAppearance, Working
  <2>2. object \in Object /\ object.keys \subseteq {0, NextObjectID}
    <3>1. NextObjectID \in Nat /\ "Appearance" \in Kinds
      BY <2>1, AddedType DEF Kinds
    <3> QED  BY <3>1, EncryptedType
  <2>3. ids' \in IdsType
    BY <1>10, <2>1, AddedType DEF AddFieldAppearance, IdsType
  <2> HIDE DEF object
  <2>4. AddObject(object)
    BY <1>10 DEF AddFieldAppearance, object
  <2>5. TodoInFields' /\ todo' = todo /\ section' = section
    BY <1>10 DEF AddFieldAppearance, IInv, TodoInFields, Fields, Family
  <2> QED  BY <1>10, <2>1, <2>2, <2>3, <2>4, <2>5, AddedType, AddKeepsIInv DEF AddFieldAppearance, Steps
<1>11. CASE SkipFieldAppearance
  <2>1. Working /\ section \in Section
    BY <1>11 DEF SkipFieldAppearance, Working, IInv, TypeOK
  <2> QED  BY <1>11, <2>1, StayKeepsIInv DEF SkipFieldAppearance, Steps, context
<1>12. CASE FieldsFilled
  <2>1. Working /\ section \in Section
    BY <1>12 DEF FieldsFilled, Working, IInv, TypeOK
  <2> QED  BY <1>12, <2>1, StayKeepsIInv DEF FieldsFilled, Steps, context
<1>13. CASE UpdateField
  <2>1. Working /\ Allocating /\ Working' /\ pc' \in Steps /\ pc' # "mask"
    BY <1>13 DEF UpdateField, Working, Steps, IInv
  <2>2. PICK t \in todo : UpdateObject(Target(t).id, FilledField(Target(t))) /\ todo' = todo \ {t}
    BY <1>13 DEF UpdateField
  <2>3. Target(t) \in Ref /\ Target(t).id \in Nat
    BY TargetType DEF IInv, TypeOK, Ref
  <2>4. /\ FilledField(Target(t)) \in Object
        /\ FilledField(Target(t)).keys \subseteq {0, Target(t).id}
    BY <2>1, <2>3, AddedType, FilledFieldType
  <2>5. Allocating' /\ updatedXrefEntries' \in Seq(XrefEntry)
    BY <1>13, <2>1, <2>2, <2>3, <2>4, UpdateObjectKeepsAllocating DEF UpdateField, IInv, TypeOK
  <2>6. TodoInFields'
    BY <1>13, <2>2 DEF UpdateField, IInv, TodoInFields, Fields, Family
  <2>7. TypeOK'
    BY <1>13, <2>1, <2>2, <2>5 DEF UpdateField, IInv, TypeOK, Allocating
  <2> QED  BY <1>13, <2>1, <2>5, <2>6, <2>7 DEF UpdateField, IInv
<1>14. CASE UpdatePage
  <2>1. Working /\ Allocating /\ Working' /\ pc' \in Steps /\ pc' # "mask"
    BY <1>14 DEF UpdatePage, Working, Steps, IInv
  <2>2. ids.page.id \in Nat /\ UpdatedPage \in Object /\ UpdatedPage.keys \subseteq {0, ids.page.id}
    BY <2>1, AddedType, UpdatedPageType DEF IdsType, Ref
  <2>3. Allocating' /\ updatedXrefEntries' \in Seq(XrefEntry)
    BY <1>14, <2>1, <2>2, UpdateObjectKeepsAllocating DEF UpdatePage, IInv, TypeOK
  <2>4. TodoInFields'
    BY <1>14 DEF UpdatePage, IInv, TodoInFields, Fields, Family
  <2>5. TypeOK'
    BY <1>14, <2>1, <2>3 DEF UpdatePage, IInv, TypeOK, Allocating
  <2> QED  BY <1>14, <2>1, <2>3, <2>4, <2>5 DEF UpdatePage, IInv
<1>15. CASE AddCatalog
  <2>1. Working
    BY <1>15 DEF AddCatalog, Working
  <2>2. NewCatalog \in Object /\ NewCatalog.keys \subseteq {0, NextObjectID}
    BY <2>1, AddedType, NewCatalogType DEF IInv
  <2>3. ids' \in IdsType
    BY <1>15, <2>1, AddedType DEF AddCatalog, IdsType
  <2>4. TodoInFields' /\ todo' = todo /\ section' = section
    BY <1>15 DEF AddCatalog, IInv, TodoInFields, Fields, Family
  <2> QED  BY <1>15, <2>1, <2>2, <2>3, <2>4, AddedType, AddKeepsIInv DEF AddCatalog, Steps
<1>16. CASE WriteXrefTable
  <2>1. Working /\ doc \in File /\ TypeOK
    BY <1>16 DEF WriteXrefTable, Working, IInv, TypeOK
  <2>2. section' \in Section
    <3>1. Trailer(doc).size \in Nat /\ NewSize \in Nat
      BY <2>1, TrailerType, ItemCountType DEF NewSize, TypeOK
    <3> QED  BY <1>16, <2>1, <3>1, NewSectionType DEF WriteXrefTable
  <2> QED  BY <1>16, <2>1, <2>2, StayKeepsIInv DEF WriteXrefTable, Steps
<1>17. CASE WriteXrefStream
  <2>1. Working /\ doc \in File /\ TypeOK
    BY <1>17 DEF WriteXrefStream, Working, IInv, TypeOK
  <2>2. section' \in Section
    <3>1. NewSize \in Nat
      BY <2>1, ItemCountType DEF NewSize, TypeOK
    <3> QED  BY <1>17, <2>1, <3>1, NewSectionType DEF WriteXrefStream
  <2>3. Plain("XRef") \in Object /\ Plain("XRef").keys \subseteq {0, NextObjectID}
    BY PlainType DEF Kinds
  <2>4. TodoInFields' /\ todo' = todo /\ ids' = ids
    BY <1>17 DEF WriteXrefStream, IInv, TodoInFields, Fields, Family
  <2> QED  BY <1>17, <2>1, <2>2, <2>3, <2>4, AddedType, AddKeepsIInv DEF WriteXrefStream, Steps
<1>18. CASE ReplaceSignature
  <2>1. Working
    BY <1>18 DEF ReplaceSignature, Working
  <2>2. doc' \in File
    BY <1>18, <2>1, SignedFileType DEF ReplaceSignature
  <2> QED  BY <1>18, <2>2, ResetKeepsIInv DEF ReplaceSignature, IInv, TypeOK
<1>19. CASE SignatureTooLong
  <2>1. attempt < MaxRetries /\ attempt \in Nat /\ MaxRetries \in Nat
    BY <1>19, BoundsAssumption DEF SignatureTooLong, IInv, TypeOK, Working
  <2>2. attempt' \in 0..MaxRetries
    BY <1>19, <2>1 DEF SignatureTooLong, NextAttempt
  <2> QED  BY <1>19, <2>2, ResetKeepsIInv DEF SignatureTooLong, IInv, TypeOK
<1>20. CASE EnvironmentError \/ GiveUp \/ RejectVisible \/ PageMissing
  BY <1>3, <1>20 DEF EnvironmentError, GiveUp, RejectVisible, PageMissing
<1> QED
  BY <1>1, <1>2, <1>4, <1>5, <1>6, <1>7, <1>8, <1>9, <1>10, <1>11, <1>12, <1>13, <1>14,
     <1>15, <1>16, <1>17, <1>18, <1>19, <1>20 DEF Next, Step

\* The invariant holds in every behaviour.
LEMMA SpecIInv == Spec => []IInv
<1> QED  BY InitIInv, StepIInv, PTL DEF Spec

-----------------------------------------------------------------------------
(* What follows from it.                                                   *)

\* In every state of every sequence of calls, on any documents, the context of
\* sign.SignPDF is well formed, and a call has made at most MaxRetries attempts.
THEOREM TypeCorrect == Spec => []TypeOK
<1>1. IInv => TypeOK
  BY DEF IInv
<1> QED  BY <1>1, SpecIInv, PTL

\* Between attempts there are no entries, and the buffer holds nothing.
LEMMA ClearedFacts ==
  ASSUME IInv, ~Working
  PROVE  newXrefEntries = <<>> /\ Written = {}
<1>1. buf = <<>> /\ newXrefEntries = <<>>
  BY DEF IInv, Cleared
<1>2. Len(doc.objs) \in Nat
  BY DEF IInv, TypeOK, File
<1> QED  BY <1>1, <1>2 DEF Written

\* Every object encrypted for an id that getNextObjectID predicted ends up under
\* that id, the mask that an image announces before either is written included.
THEOREM EncryptionMatchesIds == Spec => []EncryptedForItself
<1>1. IInv => EncryptedForItself
  BY ClearedFacts DEF IInv, Allocating, EncryptedForItself
<1> QED  BY <1>1, SpecIInv, PTL

\* addObject hands out consecutive ids that are free in the document, and records
\* for each of them where its object was written, however many attempts it takes.
THEOREM AllocationIsExact == Spec => []AllocationExact
<1>1. IInv => AllocationExact
  BY ClearedFacts DEF IInv, Allocating, AllocationExact
<1> QED  BY <1>1, SpecIInv, PTL

\* The document that a call returns begins with the document it was given.
LEMMA SignedFileExtends ==
  ASSUME IInv, Working
  PROVE  IsPrefix(doc.objs, SignedFile.objs) /\ IsPrefix(doc.sections, SignedFile.sections)
<1>1. doc \in File /\ buf \in Seq(Object) /\ section \in Section /\ Copied
  BY DEF IInv, TypeOK, Allocating
<1>2. doc.objs \in Seq(Object) /\ doc.sections \in Seq(Section)
  BY <1>1 DEF File
<1>3. SignedFile.objs = buf /\ SignedFile.sections = Append(doc.sections, section)
  BY <1>1 DEF SignedFile, File
<1>4. IsPrefix(doc.objs, buf)
  <2>1. Len(doc.objs) \in Nat /\ Len(buf) \in Nat /\ Len(doc.objs) <= Len(buf)
    BY <1>1, <1>2 DEF Copied
  <2>2. SubSeq(buf, 1, Len(doc.objs)) = doc.objs
    BY <1>1, <1>2, <2>1 DEF Copied
  <2> QED  BY <2>1, <2>2 DEF IsPrefix
<1>5. IsPrefix(doc.sections, Append(doc.sections, section))
  BY <1>1, <1>2 DEF IsPrefix
<1> QED  BY <1>3, <1>4, <1>5

\* No step changes or removes an object or a section of the document.
LEMMA StepAppends ==
  ASSUME IInv, [Next]_vars
  PROVE  IsPrefix(doc.objs, doc'.objs) /\ IsPrefix(doc.sections, doc'.sections)
<1>1. CASE UNCHANGED doc
  <2>1. doc.objs \in Seq(Object) /\ doc.sections \in Seq(Section)
    BY DEF IInv, TypeOK, File
  <2> QED  BY <1>1, <2>1 DEF IsPrefix
<1>2. CASE ReplaceSignature
  <2>1. Working /\ doc' = SignedFile
    BY <1>2 DEF ReplaceSignature, Working
  <2> QED  BY <2>1, SignedFileExtends
<1>3. UNCHANGED doc \/ ReplaceSignature
  BY DEF Next, Step, vars, StartSign, ReturnError, EnvironmentError, GiveUp, BeginAttempt,
         AddSignature, RejectVisible, AddImage, AddMask, AddAppearance, PageMissing,
         AddWidget, AddFieldAppearance, SkipFieldAppearance, UpdateField, FieldsFilled,
         UpdatePage, AddCatalog, WriteXrefTable, WriteXrefStream, SignatureTooLong
<1> QED  BY <1>1, <1>2, <1>3

\* No step of any call, failed or repeated, changes or removes an object or a
\* cross-reference section that the document already had.
THEOREM SigningAppendsOnly == Spec => AppendOnly
<1> DEFINE Kept == IsPrefix(doc.objs, doc'.objs) /\ IsPrefix(doc.sections, doc'.sections)
<1>1. ASSUME IInv, [Next]_vars
      PROVE  [Kept]_vars
  BY <1>1, StepAppends
<1> QED  BY <1>1, SpecIInv, PTL DEF Spec, AppendOnly
=============================================================================
