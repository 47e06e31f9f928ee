----------------------- MODULE IncrementalFile_proofs -----------------------
(***************************************************************************)
(* What a caller of sign.Sign gets, for every well-formed document, every  *)
(* request and every number of signatures: a document in which every       *)
(* reference finds its object and the new signature is found, of which     *)
(* nothing is cut off, and which IncrementalFile describes. It stays well  *)
(* formed, so that all of this holds of the next signature too.            *)
(***************************************************************************)
EXTENDS SignContext_proofs

-----------------------------------------------------------------------------
(* Reading a well-formed file.                                             *)

\* An id in use is a listed number, in a table below /Size, with an entry that is not free.
LEMMA InUseFacts ==
  ASSUME NEW f \in File, NEW id \in InUse(f)
  PROVE  /\ id \in Nat /\ id \in ListedIds(f) /\ (f.xref = "table" => id < Trailer(f).size)
         /\ Listings(f, id) # {} /\ IsInUse(f, id)
         /\ Entry(f, id) \in XrefEntry /\ Entry(f, id).id = id /\ Entry(f, id).pos # 0
<1>1. id \in ListedIds(f) /\ IsInUse(f, id)
  BY DEF InUse
<1>2. /\ Listings(f, id) # {} /\ Entry(f, id).pos # 0
      /\ f.xref = "table" => id < Trailer(f).size
  BY <1>1 DEF IsInUse
<1>3. Entry(f, id) \in XrefEntry /\ Entry(f, id).id = id
  BY <1>2, EntryType
<1> QED  BY <1>1, <1>2, <1>3 DEF XrefEntry

\* The ids listed are those that have a line, a free one of a table included.
LEMMA ListingsListed ==
  ASSUME NEW f \in File, NEW id, Listings(f, id) # {}
  PROVE  id \in ListedIds(f)
<1>1. PICK s \in DOMAIN f.sections : Lines(f, s, id) # {}
  BY DEF Listings
<1>2. PICK i \in Lines(f, s, id) : TRUE
  BY <1>1
<1>3. i \in DOMAIN f.sections[s].entries /\ f.sections[s].entries[i].id = id
  BY <1>2 DEF Lines, EntryAt
<1> QED  BY <1>3 DEF ListedIds, EntryIds

\* Whatever resolves is an id in use.
LEMMA ResolvedInUse ==
  ASSUME NEW f \in File, NEW r, Resolves(f, r)
  PROVE  r.id \in InUse(f)
<1>1. IsInUse(f, r.id) /\ Listings(f, r.id) # {}
  BY DEF Resolves, IsInUse
<1> QED  BY <1>1, ListingsListed DEF InUse

\* In a well-formed file a reference resolves if its id is in use and its
\* generation is 0, and it then finds the latest object of that id.
LEMMA ResolvesExactly ==
  ASSUME NEW f \in File, EntriesExact(f), NEW r \in Ref
  PROVE  /\ Resolves(f, r) <=> (r.gen = 0 /\ r.id \in InUse(f))
         /\ Resolves(f, r) => Deref(f, r) = Latest(f, r.id)
<1>1. ASSUME r.gen = 0, r.id \in InUse(f)
      PROVE  Resolves(f, r)
  <2>1. r = New(r.id)
    BY <1>1 DEF Ref, New
  <2> QED  BY <1>1, <2>1 DEF EntriesExact
<1>2. ASSUME Resolves(f, r)
      PROVE  r.gen = 0 /\ r.id \in InUse(f) /\ Deref(f, r) = Latest(f, r.id)
  <2>1. r.id \in InUse(f)
    BY <1>2, ResolvedInUse
  <2>2. Resolves(f, New(r.id))
    BY <2>1 DEF EntriesExact
  <2>3. Entry(f, r.id).gen = r.gen /\ Entry(f, r.id).gen = 0
    BY <1>2, <2>2 DEF Resolves, New
  <2> QED  BY <1>2, <2>1, <2>3 DEF Deref, Latest
<1> QED  BY <1>1, <1>2

\* The latest object of an id in use carries that id, and generation 0.
LEMMA LatestFacts ==
  ASSUME NEW f \in File, EntriesExact(f), NEW id \in InUse(f)
  PROVE  /\ Entry(f, id).pos \in DOMAIN f.objs /\ Entry(f, id).gen = 0
         /\ Latest(f, id) \in Object /\ Latest(f, id).id = id /\ Latest(f, id).gen = 0
         /\ id \in Nat \ {0}
<1>1. Resolves(f, New(id)) /\ id > 0 /\ id \in Nat
  BY InUseFacts DEF EntriesExact
<1>2. Entry(f, id).pos \in DOMAIN f.objs /\ Entry(f, id).gen = 0
      /\ f.objs[Entry(f, id).pos].id = id /\ f.objs[Entry(f, id).pos].gen = 0
  BY <1>1 DEF Resolves, New
<1>3. f.objs \in Seq(Object)
  BY DEF File
<1> QED  BY <1>1, <1>2, <1>3 DEF Latest

\* Where no object ever had another generation than 0, that is what is looked up,
\* and a reference that can be followed is copied as it is.
LEMMA CopiedAsIs ==
  ASSUME NEW f \in File, EntriesExact(f), NEW w \in Seq(Object),
         \A p \in DOMAIN w : w[p].gen = 0, NEW r \in Ref, Resolves(f, r)
  PROVE  CopyRef(f, w, r) = r /\ ZeroGen(f, r) = r
<1> DEFINE inFile == {Entry(f, i).gen : i \in {r.id} \cap InUse(f)}
           inBytes == {w[p].gen : p \in {q \in DOMAIN w : w[q].id = r.id}}
           gens == {0} \union inBytes \union inFile
<1>1. \A x \in inFile : x = 0
  BY LatestFacts
<1>2. \A x \in inBytes : x = 0
  OBVIOUS
<1>3. gens = {0}
  BY <1>1, <1>2
<1> HIDE DEF gens
<1>4. Max(gens) = 0
  <2>1. gens \in SUBSET (0..0) /\ gens # {} /\ 0 \in Nat
    BY <1>3
  <2>2. Max(gens) \in gens
    BY <2>1, MaxOfBounded
  <2> QED  BY <1>3, <2>2
<1>5. LatestGeneration(f, w, r.id) = 0
  BY <1>4 DEF LatestGeneration, gens
<1>6. r.gen = 0 /\ r = [id |-> r.id, gen |-> 0]
  BY ResolvesExactly DEF Ref
<1> QED  BY <1>5, <1>6 DEF CopyRef, ZeroGen

\* So are arrays of such references,
LEMMA ArrayCopiedAsIs ==
  ASSUME NEW f \in File, EntriesExact(f), NEW w \in Seq(Object),
         \A p \in DOMAIN w : w[p].gen = 0,
         NEW array \in Seq(Ref), \A i \in DOMAIN array : Resolves(f, array[i])
  PROVE  /\ CopyRefs(f, w, array) = array
         /\ [i \in DOMAIN array |-> ZeroGen(f, array[i])] = array
<1>1. \A i \in DOMAIN array : CopyRef(f, w, array[i]) = array[i] /\ ZeroGen(f, array[i]) = array[i]
  BY CopiedAsIs
<1> QED  BY <1>1 DEF CopyRefs

\* and dictionaries.
LEMMA KeysCopiedAsIs ==
  ASSUME NEW f \in File, EntriesExact(f), NEW w \in Seq(Object),
         \A p \in DOMAIN w : w[p].gen = 0,
         NEW refs \in SUBSET [key: Keys, to: Ref], \A e \in refs : Resolves(f, e.to)
  PROVE  /\ CopyKeys(f, w, refs) = refs
         /\ {At(e.key, ZeroGen(f, e.to)) : e \in refs} = refs
<1>1. \A e \in refs : At(e.key, CopyRef(f, w, e.to)) = e /\ At(e.key, ZeroGen(f, e.to)) = e
  <2> TAKE e \in refs
  <2>1. CopyRef(f, w, e.to) = e.to /\ ZeroGen(f, e.to) = e.to
    BY CopiedAsIs
  <2>2. At(e.key, e.to) = e
    BY DEF At
  <2> QED  BY <2>1, <2>2
<1>2. CopyKeys(f, w, refs) = {At(e.key, CopyRef(f, w, e.to)) : e \in refs}
  BY DEF CopyKeys
<1> QED  BY <1>1, <1>2

-----------------------------------------------------------------------------
(* A file and its next revision.                                           *)

\* What the writers of cross-reference sections have in common: each entry in use
\* leads to an object that was appended, free entries are those of object 0 in a
\* table, and /Size is above all ids.
Appends(f, g, s) ==
  /\ f \in File /\ g \in File /\ s \in Section
  /\ g.xref = f.xref /\ g.sections = Append(f.sections, s)
  /\ Len(f.objs) <= Len(g.objs)
  /\ \A p \in 1..Len(f.objs) : g.objs[p] = f.objs[p]
  /\ \A i \in DOMAIN s.entries :
       IF s.entries[i].pos = 0
       THEN f.xref = "table" /\ s.entries[i].id = 0
       ELSE /\ s.entries[i].gen = 0
            /\ s.entries[i].pos \in (Len(f.objs) + 1)..Len(g.objs)
            /\ g.objs[s.entries[i].pos].id = s.entries[i].id
            /\ s.entries[i].id > 0
  /\ \A p \in (Len(f.objs) + 1)..Len(g.objs) : g.objs[p].gen = 0
  /\ \A id \in EntryIds(s) : id < s.size
  /\ Trailer(f).size <= s.size

\* The ids of the entries in use.
LiveIds(s) == {s.entries[i].id : i \in {j \in DOMAIN s.entries : s.entries[j].pos # 0}}

\* Sections stay where they are, and the new one is the trailer.
LEMMA SectionsKept ==
  ASSUME NEW f, NEW g, NEW s, Appends(f, g, s)
  PROVE  /\ Len(f.sections) \in Nat \ {0} /\ DOMAIN f.sections = 1..Len(f.sections)
         /\ DOMAIN g.sections = 1..(Len(f.sections) + 1)
         /\ \A k \in 1..Len(f.sections) : g.sections[k] = f.sections[k]
         /\ g.sections[Len(f.sections) + 1] = s /\ Trailer(g) = s
         /\ ListedIds(g) = ListedIds(f) \union EntryIds(s)
<1>1. f.sections \in Seq(Section) /\ f.sections # <<>> /\ s \in Section
      /\ g.sections = Append(f.sections, s)
  BY DEF Appends, File
<1>2. /\ Len(f.sections) \in Nat \ {0} /\ DOMAIN f.sections = 1..Len(f.sections)
      /\ Len(g.sections) = Len(f.sections) + 1
      /\ DOMAIN g.sections = 1..(Len(f.sections) + 1)
      /\ \A k \in 1..Len(f.sections) : g.sections[k] = f.sections[k]
      /\ g.sections[Len(f.sections) + 1] = s
  BY <1>1, AppendProperties
<1>3. Trailer(g) = s
  BY <1>2 DEF Trailer
<1>4. ListedIds(g) = ListedIds(f) \union EntryIds(s)
  <2>1. \A id : id \in ListedIds(g) <=> \E k \in 1..(Len(f.sections) + 1) : id \in EntryIds(g.sections[k])
    BY <1>2 DEF ListedIds
  <2>2. \A id : id \in ListedIds(f) <=> \E k \in 1..Len(f.sections) : id \in EntryIds(f.sections[k])
    BY <1>2 DEF ListedIds
  <2>3. \A k \in 1..(Len(f.sections) + 1) : k \in 1..Len(f.sections) \/ k = Len(f.sections) + 1
    BY <1>2
  <2>4. \A k \in 1..Len(f.sections) : k \in 1..(Len(f.sections) + 1)
    BY <1>2
  <2>5. Len(f.sections) + 1 \in 1..(Len(f.sections) + 1)
    BY <1>2
  <2> QED  BY <1>2, <2>1, <2>2, <2>3, <2>4, <2>5
<1> QED  BY <1>2, <1>3, <1>4

\* An entry of the new section wins over all that the file had for its id.
LEMMA NewEntryWins ==
  ASSUME NEW f, NEW g, NEW s, Appends(f, g, s), NEW id \in LiveIds(s)
  PROVE  /\ Listings(g, id) # {}
         /\ \E i \in DOMAIN s.entries :
              s.entries[i].pos # 0 /\ s.entries[i].id = id /\ Entry(g, id) = s.entries[i]
<1> DEFINE n == Len(f.sections) + 1
<1>1. n \in DOMAIN g.sections /\ g.sections[n] = s /\ g \in File /\ n \in Nat
      /\ DOMAIN g.sections = 1..n /\ g.xref = f.xref
  BY SectionsKept DEF Appends
<1> HIDE DEF n
<1>2. PICK k \in DOMAIN s.entries : s.entries[k].pos # 0 /\ s.entries[k].id = id
  BY DEF LiveIds
<1>3. k \in Lines(g, n, id)
  BY <1>1, <1>2 DEF Lines, EntryAt
<1>4. <<n, k>> \in Listings(g, id)
  BY <1>1, <1>3 DEF Listings
<1>5. PICK a \in Listings(g, id) : Entry(g, id) = EntryAt(g, a) /\ Wins(a, <<n, k>>)
  BY <1>1, <1>4, EntryWins
<1>6. PICK m \in DOMAIN g.sections : a \in {m} \X Lines(g, m, id)
  BY <1>5 DEF Listings
<1>7. a[1] = m /\ m = n
  BY <1>1, <1>5, <1>6 DEF Wins
<1>8. a[2] \in Lines(g, n, id)
  BY <1>6, <1>7
<1>9. /\ a[2] \in DOMAIN s.entries /\ s.entries[a[2]].id = id
      /\ g.xref = "table" => s.entries[a[2]].pos # 0
  BY <1>1, <1>8 DEF Lines, EntryAt
<1>10. Entry(g, id) = s.entries[a[2]]
  BY <1>1, <1>5, <1>7 DEF EntryAt
<1>11. s.entries[a[2]].pos # 0
  BY <1>1, <1>9 DEF Appends
<1> QED  BY <1>4, <1>9, <1>10, <1>11

\* The entries of all other ids are the ones that the file had.
LEMMA OldEntryStays ==
  ASSUME NEW f, NEW g, NEW s, Appends(f, g, s), NEW id, id \notin LiveIds(s)
  PROVE  /\ Listings(g, id) = Listings(f, id)
         /\ Listings(f, id) # {} => Entry(g, id) = Entry(f, id)
<1> DEFINE n == Len(f.sections) + 1
<1>1. /\ Len(f.sections) \in Nat /\ DOMAIN g.sections = 1..n /\ DOMAIN f.sections = 1..Len(f.sections)
      /\ g.sections[n] = s /\ \A k \in 1..Len(f.sections) : g.sections[k] = f.sections[k]
      /\ g.xref = f.xref
  BY SectionsKept DEF Appends
<1>2. Lines(g, n, id) = {}
  <2> SUFFICES ASSUME NEW i \in Lines(g, n, id) PROVE FALSE
    OBVIOUS
  <2>1. i \in DOMAIN s.entries /\ s.entries[i].id = id /\ (g.xref = "table" => s.entries[i].pos # 0)
    BY <1>1 DEF Lines, EntryAt
  <2>2. s.entries[i].pos # 0
    BY <1>1, <2>1 DEF Appends
  <2> QED  BY <2>1, <2>2 DEF LiveIds
<1>3. \A k \in 1..Len(f.sections) : Lines(g, k, id) = Lines(f, k, id)
  BY <1>1 DEF Lines, EntryAt
<1>4. Listings(g, id) = Listings(f, id)
  <2>1. \A a : a \in Listings(g, id) <=> \E k \in 1..n : a \in {k} \X Lines(g, k, id)
    BY <1>1 DEF Listings
  <2>2. \A a : a \in Listings(f, id) <=> \E k \in 1..Len(f.sections) : a \in {k} \X Lines(f, k, id)
    BY <1>1 DEF Listings
  <2>3. \A k \in 1..n : k \in 1..Len(f.sections) \/ {k} \X Lines(g, k, id) = {}
    BY <1>1, <1>2
  <2>4. \A k \in 1..Len(f.sections) : k \in 1..n
    BY <1>1
  <2>5. \A k \in 1..Len(f.sections) : {k} \X Lines(g, k, id) = {k} \X Lines(f, k, id)
    BY <1>3
  <2> HIDE DEF n
  <2>6. \A a : a \in Listings(g, id) <=> a \in Listings(f, id)
    BY <2>1, <2>2, <2>3, <2>4, <2>5
  <2> QED  BY <2>6
<1>5. ASSUME Listings(f, id) # {}
      PROVE  Entry(g, id) = Entry(f, id)
  <2> DEFINE c == CHOOSE a \in Listings(f, id) : \A b \in Listings(f, id) : Wins(a, b)
  <2>1. f \in File
    BY DEF Appends
  <2>2. \E a \in Listings(f, id) : \A b \in Listings(f, id) : Wins(a, b)
    BY <1>5, <2>1, EntryWins
  <2>3. c \in Listings(f, id)
    BY <2>2, Zenon
  <2>4. Entry(f, id) = EntryAt(f, c)
    BY Zenon DEF Entry
  <2>5. Entry(g, id) = EntryAt(g, CHOOSE a \in Listings(g, id) : \A b \in Listings(g, id) : Wins(a, b))
    BY Zenon DEF Entry
  <2>6. Entry(g, id) = EntryAt(g, c)
    BY <1>4, <2>5
  <2> HIDE DEF c
  <2>7. c[1] \in 1..Len(f.sections)
    BY <2>1, <2>3, ListingType
  <2> QED  BY <1>1, <2>4, <2>6, <2>7 DEF EntryAt
<1> QED  BY <1>4, <1>5

\* The entries in use are those of the file and those of the new section.
LEMMA InUseGrows ==
  ASSUME NEW f, NEW g, NEW s, Appends(f, g, s),
         \A id \in ListedIds(f) : id < Trailer(f).size
  PROVE  InUse(g) = InUse(f) \union LiveIds(s)
<1>1. f \in File /\ g \in File /\ Trailer(g) = s /\ Trailer(f).size <= s.size
      /\ Trailer(f).size \in Nat /\ s.size \in Nat
  <2>1. f \in File /\ g \in File /\ Trailer(f).size <= s.size
    BY DEF Appends
  <2>2. Trailer(g) = s
    BY SectionsKept
  <2> QED  BY <2>1, <2>2, TrailerType
<1>2. ASSUME NEW id \in LiveIds(s)
      PROVE  id \in InUse(g)
  <2>1. PICK i \in DOMAIN s.entries : s.entries[i].pos # 0 /\ s.entries[i].id = id /\ Entry(g, id) = s.entries[i]
    BY NewEntryWins
  <2>2. id \in EntryIds(s)
    BY <2>1 DEF EntryIds
  <2>3. id < s.size
    BY <2>2 DEF Appends
  <2>4. Listings(g, id) # {}
    BY NewEntryWins
  <2> QED  BY <1>1, <2>1, <2>3, <2>4, ListingsListed DEF InUse, IsInUse
<1>3. ASSUME NEW id \in InUse(f), id \notin LiveIds(s)
      PROVE  id \in InUse(g)
  <2>1. Listings(g, id) # {} /\ Entry(g, id) = Entry(f, id)
    BY <1>1, <1>3, InUseFacts, OldEntryStays
  <2>2. Entry(f, id).pos # 0 /\ id \in Nat /\ (f.xref = "table" => id < Trailer(f).size)
    BY <1>1, InUseFacts
  <2> QED  BY <1>1, <2>1, <2>2, ListingsListed DEF InUse, IsInUse
<1>4. ASSUME NEW id \in InUse(g), id \notin LiveIds(s)
      PROVE  id \in InUse(f)
  <2>1. Listings(f, id) # {} /\ Entry(g, id) = Entry(f, id)
    BY <1>1, <1>4, InUseFacts, OldEntryStays
  <2>2. Entry(g, id).pos # 0
    BY <1>1, InUseFacts
  <2>3. id \in ListedIds(f)
    BY <1>1, <2>1, ListingsListed
  <2> QED  BY <1>1, <2>1, <2>2, <2>3 DEF InUse, IsInUse
<1> QED  BY <1>2, <1>3, <1>4

\* The next revision of a file is exact if the file is: the latest object of an id in
\* the new section is one that was appended, all others are what they were.
LEMMA RevisionExact ==
  ASSUME NEW f, NEW g, NEW s, Appends(f, g, s), EntriesExact(f),
         \A id \in ListedIds(f) : id < Trailer(f).size
  PROVE  /\ EntriesExact(g)
         /\ \A id \in LiveIds(s) : \E p \in (Len(f.objs) + 1)..Len(g.objs) :
              Entry(g, id).pos = p /\ Latest(g, id) = g.objs[p] /\ g.objs[p].id = id
         /\ \A id \in InUse(f) \ LiveIds(s) :
              Entry(g, id) = Entry(f, id) /\ Latest(g, id) = Latest(f, id)
<1>1. /\ f \in File /\ g \in File /\ g.objs \in Seq(Object) /\ f.objs \in Seq(Object)
      /\ Len(f.objs) \in Nat /\ Len(g.objs) \in Nat
      /\ DOMAIN g.objs = 1..Len(g.objs) /\ DOMAIN f.objs = 1..Len(f.objs)
      /\ Len(f.objs) <= Len(g.objs)
  BY DEF Appends, File
<1>2. ASSUME NEW id \in LiveIds(s)
      PROVE  \E p \in (Len(f.objs) + 1)..Len(g.objs) :
               /\ Entry(g, id).pos = p /\ Latest(g, id) = g.objs[p] /\ g.objs[p].id = id
               /\ Entry(g, id).gen = 0 /\ id > 0
  <2>1. PICK i \in DOMAIN s.entries : s.entries[i].pos # 0 /\ s.entries[i].id = id /\ Entry(g, id) = s.entries[i]
    BY NewEntryWins
  <2>2. /\ s.entries[i].gen = 0 /\ s.entries[i].pos \in (Len(f.objs) + 1)..Len(g.objs)
        /\ g.objs[s.entries[i].pos].id = id /\ id > 0
    BY <2>1 DEF Appends
  <2> QED  BY <2>1, <2>2 DEF Latest
<1>3. ASSUME NEW id \in InUse(f), id \notin LiveIds(s)
      PROVE  /\ Entry(g, id) = Entry(f, id) /\ Latest(g, id) = Latest(f, id)
             /\ Entry(g, id).pos \in 1..Len(f.objs)
  <2>1. Entry(g, id) = Entry(f, id)
    BY <1>1, <1>3, InUseFacts, OldEntryStays
  <2>2. Entry(f, id).pos \in 1..Len(f.objs)
    BY <1>1, LatestFacts
  <2> QED  BY <2>1, <2>2 DEF Latest, Appends
<1>4. \A p \in DOMAIN g.objs : g.objs[p].gen = 0
  <2> TAKE p \in DOMAIN g.objs
  <2>1. CASE p \in 1..Len(f.objs)
    BY <1>1, <2>1 DEF Appends, EntriesExact
  <2>2. CASE p \notin 1..Len(f.objs)
    <3>1. p \in (Len(f.objs) + 1)..Len(g.objs)
      BY <1>1, <2>2
    <3> QED  BY <3>1 DEF Appends
  <2> QED  BY <2>1, <2>2
<1>5. ASSUME NEW id \in InUse(g)
      PROVE  id > 0 /\ Resolves(g, New(id))
  <2>1. id \in Nat /\ IsInUse(g, id)
    BY <1>1, InUseFacts
  <2>2. Entry(g, id).gen = 0 /\ Entry(g, id).pos \in DOMAIN g.objs
        /\ g.objs[Entry(g, id).pos].id = id /\ id > 0
    <3>1. CASE id \in LiveIds(s)
      <4>1. PICK p \in (Len(f.objs) + 1)..Len(g.objs) :
              /\ Entry(g, id).pos = p /\ g.objs[p].id = id /\ Entry(g, id).gen = 0 /\ id > 0
        BY <1>2, <3>1
      <4> QED  BY <1>1, <4>1
    <3>2. CASE id \notin LiveIds(s)
      <4>1. id \in InUse(f)
        BY <3>2, InUseGrows
      <4>2. Entry(g, id) = Entry(f, id) /\ Latest(g, id) = Latest(f, id) /\ Entry(g, id).pos \in 1..Len(f.objs)
        BY <1>3, <3>2, <4>1
      <4>3. Entry(f, id).gen = 0 /\ Latest(f, id).id = id /\ id \in Nat \ {0}
        BY <1>1, <4>1, LatestFacts
      <4> QED  BY <1>1, <4>2, <4>3 DEF Latest
    <3> QED  BY <3>1, <3>2
  <2>3. g.objs[Entry(g, id).pos].gen = 0
    BY <1>4, <2>2
  <2> QED  BY <2>1, <2>2, <2>3 DEF Resolves, New
<1>6. EntriesExact(g)
  BY <1>4, <1>5 DEF EntriesExact
<1> QED  BY <1>2, <1>3, <1>6

-----------------------------------------------------------------------------
(* The inductive invariant. The document is well formed between calls; in  *)
(* a call, what has been appended so far is the beginning of a revision.   *)

\* The ids allocated and the ids rewritten in this attempt, and where the objects are.
Allocated == (LastObjectID(doc) + 1)..(LastObjectID(doc) + Len(newXrefEntries))

Rewritten == {updatedXrefEntries[i].id : i \in DOMAIN updatedXrefEntries}

Appended == (Len(doc.objs) + 1)..Len(buf)

RewritableKinds == {"Page", "Initials", "Date", "Text"}

\* Each entry leads to its object, and what is rewritten was in use.
EntriesKnown ==
  /\ \A i \in DOMAIN newXrefEntries : newXrefEntries[i].gen = 0
  /\ \A i \in DOMAIN updatedXrefEntries :
       LET e == updatedXrefEntries[i] IN
         e.gen = 0 /\ e.pos \in Appended /\ buf[e.pos].id = e.id /\ e.id \in InUse(doc)

\* Each object appended has an entry.
ObjectsKnown == \A p \in Appended : buf[p].gen = 0 /\ buf[p].id \in Allocated \union Rewritten

\* An object that is rewritten keeps its kind and, unless it is a page, its array.
RewritesKept ==
  \A p \in Appended :
    LET id == buf[p].id
        old == Latest(doc, id)
    IN  /\ buf[p].kind \in RewritableKinds <=> id \in InUse(doc)
        /\ id \in InUse(doc) => buf[p].kind = old.kind
        /\ id \in InUse(doc) /\ old.kind # "Page" => buf[p].kids = old.kids

CoreInv == EntriesKnown /\ ObjectsKnown /\ WrittenOnce /\ RewritesKept

RefersWithin(o, S) == \A r \in RefsOf(o) : r.gen = 0 /\ r.id \in S

\* What objects of this revision may refer to: an image, to the mask that comes next.
Known ==
  InUse(doc) \union Allocated \union (IF pc = "mask" THEN {NextObjectID} ELSE {})

RefsKnown == \A p \in Appended : RefersWithin(buf[p], Known)

\* What is left to fill has not been rewritten, and no page has been before its turn.
FillKnown ==
  /\ \A t \in todo : /\ t[2] \in Matching(t[1]) /\ t[3] \in Present(t[2])
                     /\ Target(t).id \notin Rewritten
  /\ pc \in {"signature", "visual", "mask", "appearance", "widget"} => updatedXrefEntries = <<>>
  /\ pc \in {"fill", "field", "page"} => \A id \in Rewritten : Latest(doc, id).kind # "Page"

\* The ids that are kept from earlier steps were allocated by then.
IdsKnown ==
  /\ {ids.sig, ids.image, ids.ap, ids.widget, ids.catalog} \subseteq Allocated \union {0}
  /\ pc = "signature" <=> ids.sig = 0
  /\ pc \in {"mask", "appearance"} => ids.image # 0
  /\ pc = "widget" => ids.ap # 0
  /\ pc \in {"fill", "field", "page", "catalog", "xref", "replace"} => ids.widget # 0
  /\ pc \in {"fill", "field", "page"} =>
       Resolves(doc, ids.page) /\ Deref(doc, ids.page).kind = "Page"
  /\ pc \in {"signature", "visual", "mask", "appearance", "widget"} => ids.widget = 0
  /\ IF pc \in {"xref", "replace"} THEN ids.catalog # 0 ELSE ids.catalog = 0

SignatureKinds == {"Sig", "DocTimeStamp"}

IsFieldOf(o, sig) == o.kind = "Widget" /\ Under(o, "V") = New(sig)

IsCatalogWith(o, kids, dss) == o.kind = "Catalog" /\ o.kids = kids /\ o.dss = dss

SignatureKind == IF req.certType = "TimeStamp" THEN "DocTimeStamp" ELSE "Sig"

\* Of several stores the reader knows the last.
KnownStores(f) == IF Catalog(f).dss = <<>> THEN <<>> ELSE <<Last(Catalog(f).dss)>>

\* The signature, its field and the catalog are the objects of the ids kept.
ObjectsMade ==
  \A p \in Appended :
    /\ buf[p].kind \in SignatureKinds <=> buf[p].id = ids.sig
    /\ buf[p].id = ids.sig => buf[p].kind = SignatureKind
    /\ buf[p].id = ids.widget => IsFieldOf(buf[p], ids.sig)
    /\ buf[p].id = ids.catalog =>
         IsCatalogWith(buf[p], Append(Fields, New(ids.widget)), KnownStores(doc))

\* The section lists what was appended before it, and that refers to nothing else.
\* Only the object of the stream that holds it is not listed, and has the last id.
SectionKnown ==
  /\ \A i \in DOMAIN section.entries :
       LET e == section.entries[i] IN
         e.gen = 0 /\ e.pos \in Appended /\ buf[e.pos].id = e.id
  /\ Rewritten \subseteq EntryIds(section)
  /\ EntryIds(section) \subseteq Rewritten \union Allocated
  /\ {ids.sig, ids.widget, ids.catalog} \subseteq EntryIds(section)
  /\ \A p \in Appended : RefersWithin(buf[p], InUse(doc) \union EntryIds(section))
  /\ section.root = New(ids.catalog)
  /\ \A id \in EntryIds(section) : id < section.size
  /\ Trailer(doc).size <= section.size
  /\ doc.xref = "table" => section.size - 1 \in EntryIds(section)
  /\ \A p \in Appended :
       buf[p].id \in EntryIds(section) \/ (buf[p].kind = "XRef" /\ buf[p].refs = {})
  /\ \A id \in Allocated : id \in EntryIds(section) \/ id - 1 \in EntryIds(section)

CallInv ==
  /\ CoreInv /\ RefsKnown /\ FillKnown /\ IdsKnown /\ ObjectsMade
  /\ pc = "replace" => SectionKnown

-----------------------------------------------------------------------------
(* Adding and rewriting one object.                                        *)

\* What is rewritten is below the ids allocated, and all are above 0.
LEMMA IdsApart ==
  ASSUME Allocating, EntriesExact(doc), EntriesKnown
  PROVE  /\ Len(newXrefEntries) \in Nat /\ LastObjectID(doc) \in Nat
         /\ NextObjectID = LastObjectID(doc) + Len(newXrefEntries) + 1
         /\ NextObjectID \notin Allocated \union InUse(doc) \union {0}
         /\ \A id \in InUse(doc) : id \notin Allocated /\ id # 0
         /\ \A id \in Allocated : id \in Nat \ {0}
         /\ Rewritten \subseteq InUse(doc)
         /\ Appended \subseteq 1..Len(buf) /\ Len(buf) \in Nat /\ Len(doc.objs) \in Nat
         /\ Len(doc.objs) <= Len(buf) /\ DOMAIN buf = 1..Len(buf)
<1>1. /\ doc \in File /\ Len(newXrefEntries) \in Nat /\ buf \in Seq(Object)
      /\ Len(doc.objs) \in Nat /\ Len(doc.objs) <= Len(buf) /\ Len(buf) \in Nat
      /\ DOMAIN buf = 1..Len(buf)
  BY DEF Allocating, Copied, File
<1>2. /\ LastObjectID(doc) \in Nat \ {0}
      /\ \A id \in InUse(doc) : id < LastObjectID(doc) /\ id \in Nat /\ id > 0
  BY <1>1, LastObjectIDAboveInUse, InUseFacts DEF EntriesExact
<1>3. NextObjectID = LastObjectID(doc) + Len(newXrefEntries) + 1 /\ NextObjectID \notin InUse(doc)
  BY NextIDIsNew
<1>4. Rewritten \subseteq InUse(doc)
  BY DEF Rewritten, EntriesKnown
<1>5. Appended \subseteq 1..Len(buf)
  BY <1>1 DEF Appended
<1> QED  BY <1>1, <1>2, <1>3, <1>4, <1>5 DEF Allocated

\* What addObject does to the buffer and to the ids.
LEMMA AddShape ==
  ASSUME Allocating, EntriesExact(doc), EntriesKnown, NEW object \in Object, AddObject(object),
         UNCHANGED <<doc, updatedXrefEntries>>
  PROVE  /\ Len(buf') = Len(buf) + 1
         /\ buf'[Len(buf) + 1] = [object EXCEPT !.id = NextObjectID, !.gen = 0]
         /\ \A p \in 1..Len(buf) : buf'[p] = buf[p]
         /\ Appended' = Appended \union {Len(buf) + 1}
         /\ Allocated' = Allocated \union {NextObjectID}
         /\ Rewritten' = Rewritten
         /\ \A i \in DOMAIN newXrefEntries' : newXrefEntries'[i].gen = 0
<1> DEFINE entry == [id |-> NextObjectID, gen |-> 0, pos |-> Len(buf) + 1]
           written == [object EXCEPT !.id = NextObjectID, !.gen = 0]
           n == Len(newXrefEntries)
<1>1. /\ n \in Nat /\ LastObjectID(doc) \in Nat /\ NextObjectID = LastObjectID(doc) + n + 1
      /\ Len(buf) \in Nat /\ Len(doc.objs) \in Nat /\ Len(doc.objs) <= Len(buf)
  BY IdsApart
<1>2. newXrefEntries' = Append(newXrefEntries, entry) /\ buf' = Append(buf, written)
  BY DEF AddObject
<1>3. entry \in XrefEntry /\ written \in Object /\ newXrefEntries \in Seq(XrefEntry) /\ buf \in Seq(Object)
  <2>1. NextObjectID \in Nat /\ Len(buf) + 1 \in Nat
    BY <1>1
  <2>2. entry \in XrefEntry
    BY <2>1 DEF XrefEntry
  <2>3. written \in Object
    BY <2>1 DEF Object
  <2> QED  BY <2>2, <2>3 DEF Allocating
<1> HIDE DEF entry, written
<1>4. /\ Len(buf') = Len(buf) + 1 /\ buf'[Len(buf) + 1] = written
      /\ \A p \in 1..Len(buf) : buf'[p] = buf[p]
  BY <1>2, <1>3, AppendProperties
<1>5. /\ Len(newXrefEntries') = n + 1 /\ newXrefEntries'[n + 1] = entry
      /\ \A i \in 1..n : newXrefEntries'[i] = newXrefEntries[i]
      /\ DOMAIN newXrefEntries' = 1..(n + 1) /\ DOMAIN newXrefEntries = 1..n
  BY <1>2, <1>3, AppendProperties
<1>6. \A i \in DOMAIN newXrefEntries' : newXrefEntries'[i].gen = 0
  BY <1>1, <1>5 DEF EntriesKnown, entry
<1>7. Appended' = Appended \union {Len(buf) + 1}
  BY <1>1, <1>4 DEF Appended
<1>8. Allocated' = Allocated \union {NextObjectID}
  BY <1>1, <1>5 DEF Allocated
<1>9. Rewritten' = Rewritten
  BY DEF Rewritten
<1> QED  BY <1>4, <1>6, <1>7, <1>8, <1>9 DEF written

\* An added object has an id of its own.
LEMMA AddKeepsCore ==
  ASSUME Allocating, EntriesExact(doc), CoreInv, NEW object \in Object, AddObject(object),
         object.kind \notin RewritableKinds, UNCHANGED <<doc, updatedXrefEntries>>
  PROVE  CoreInv'
<1> DEFINE new == Len(buf) + 1
<1>1. EntriesKnown /\ ObjectsKnown /\ WrittenOnce /\ RewritesKept
  BY DEF CoreInv
<1>2. /\ buf'[new] = [object EXCEPT !.id = NextObjectID, !.gen = 0]
      /\ \A p \in 1..Len(buf) : buf'[p] = buf[p]
      /\ Appended' = Appended \union {new} /\ Allocated' = Allocated \union {NextObjectID}
      /\ Rewritten' = Rewritten /\ \A i \in DOMAIN newXrefEntries' : newXrefEntries'[i].gen = 0
  BY <1>1, AddShape
<1>3. /\ NextObjectID \notin Allocated \union InUse(doc)
      /\ Rewritten \subseteq InUse(doc) /\ Appended \subseteq 1..Len(buf)
  BY <1>1, IdsApart
<1>4. buf'[new].id = NextObjectID /\ buf'[new].gen = 0 /\ buf'[new].kind = object.kind
  BY <1>2 DEF Object
<1> HIDE DEF new
<1>5. \A p \in Appended : buf'[p] = buf[p] /\ buf[p].id # NextObjectID
  BY <1>1, <1>2, <1>3 DEF ObjectsKnown
<1>6. EntriesKnown'
  BY <1>1, <1>2, <1>5 DEF EntriesKnown
<1>7. ObjectsKnown'
  BY <1>1, <1>2, <1>4, <1>5 DEF ObjectsKnown
<1>8. WrittenOnce'
  <2> SUFFICES ASSUME NEW p \in Appended', NEW q \in Appended', buf'[p].id = buf'[q].id
               PROVE  p = q
    BY DEF WrittenOnce, Appended
  <2>1. \A a, b \in Appended : buf[a].id = buf[b].id => a = b
    BY <1>1 DEF WrittenOnce, Appended
  <2>2. Appended' = Appended \union {new} /\ buf'[new].id = NextObjectID
    BY <1>2, <1>4
  <2> QED  BY <1>5, <2>1, <2>2
<1>9. RewritesKept'
  <2> SUFFICES ASSUME NEW p \in Appended'
               PROVE  LET id == buf'[p].id
                          old == Latest(doc, id)
                      IN  /\ buf'[p].kind \in RewritableKinds <=> id \in InUse(doc)
                          /\ id \in InUse(doc) => buf'[p].kind = old.kind
                          /\ id \in InUse(doc) /\ old.kind # "Page" => buf'[p].kids = old.kids
    BY DEF RewritesKept
  <2>1. CASE p \in Appended
    BY <1>1, <1>5, <2>1 DEF RewritesKept
  <2>2. CASE p = new
    BY <1>3, <1>4, <2>2
  <2> QED  BY <1>2, <2>1, <2>2
<1> QED  BY <1>6, <1>7, <1>8, <1>9 DEF CoreInv

\* What refers to known objects goes on to do so, and the new one may.
LEMMA AddKeepsRefs ==
  ASSUME Allocating, EntriesExact(doc), CoreInv, RefsKnown, NEW object \in Object, AddObject(object),
         UNCHANGED <<doc, updatedXrefEntries>>, RefersWithin(object, Known')
  PROVE  RefsKnown'
<1> DEFINE new == Len(buf) + 1
<1>1. /\ buf'[new] = [object EXCEPT !.id = NextObjectID, !.gen = 0]
      /\ \A p \in 1..Len(buf) : buf'[p] = buf[p]
      /\ Appended' = Appended \union {new} /\ Allocated' = Allocated \union {NextObjectID}
  BY AddShape DEF CoreInv
<1>2. Appended \subseteq 1..Len(buf)
  BY IdsApart DEF CoreInv
<1>3. Known \subseteq Known'
  BY <1>1 DEF Known
<1>4. RefsOf(buf'[new]) = RefsOf(object)
  BY <1>1 DEF Object, RefsOf
<1> HIDE DEF new
<1>5. \A p \in Appended : RefersWithin(buf'[p], Known')
  BY <1>1, <1>2, <1>3 DEF RefsKnown, RefersWithin
<1>6. RefersWithin(buf'[new], Known')
  BY <1>4 DEF RefersWithin
<1> QED  BY <1>1, <1>5, <1>6 DEF RefsKnown

\* The objects of the ids kept are what they were, and a new one may join them.
LEMMA AddKeepsMade ==
  ASSUME Allocating, EntriesExact(doc), CoreInv, ObjectsMade,
         {ids.sig, ids.widget, ids.catalog} \subseteq Allocated \union {0},
         NEW object \in Object, AddObject(object), UNCHANGED <<doc, req, updatedXrefEntries>>,
         \/ ids'.sig = ids.sig /\ object.kind \notin SignatureKinds
         \/ ids'.sig = NextObjectID /\ object.kind = SignatureKind /\ ids.sig = 0 /\ ids.widget = 0,
         \/ ids'.widget = ids.widget
         \/ /\ ids'.widget = NextObjectID /\ ids'.sig = ids.sig /\ ids.catalog = 0
            /\ IsFieldOf(object, ids.sig),
         \/ ids'.catalog = ids.catalog
         \/ /\ ids'.catalog = NextObjectID /\ ids'.widget = ids.widget
            /\ IsCatalogWith(object, Append(Fields, New(ids.widget)), KnownStores(doc))
  PROVE  ObjectsMade'
<1> DEFINE new == Len(buf) + 1
<1>1. /\ buf'[new] = [object EXCEPT !.id = NextObjectID, !.gen = 0]
      /\ \A p \in 1..Len(buf) : buf'[p] = buf[p]
      /\ Appended' = Appended \union {new}
  BY AddShape DEF CoreInv
<1>2. /\ NextObjectID \notin Allocated \union InUse(doc) \union {0}
      /\ \A id \in InUse(doc) : id \notin Allocated /\ id # 0
      /\ \A id \in Allocated : id \in Nat \ {0}
      /\ Rewritten \subseteq InUse(doc) /\ Appended \subseteq 1..Len(buf)
  BY IdsApart DEF CoreInv
<1>3. /\ buf'[new].id = NextObjectID /\ buf'[new].kind = object.kind
      /\ buf'[new].kids = object.kids /\ buf'[new].refs = object.refs
      /\ buf'[new].dss = object.dss
  BY <1>1 DEF Object
<1> HIDE DEF new
<1>4. \A p \in Appended : buf'[p] = buf[p] /\ buf[p].id # NextObjectID /\ buf[p].id # 0
  BY <1>1, <1>2 DEF CoreInv, ObjectsKnown
<1>5. Fields' = Fields /\ KnownStores(doc') = KnownStores(doc) /\ SignatureKind' = SignatureKind
  BY DEF Fields, SignatureKind
<1>6. \A sig : IsFieldOf(object, sig) => IsFieldOf(buf'[new], sig)
  BY <1>3 DEF IsFieldOf, Under, HasKey
<1>7. \A kids, dss : IsCatalogWith(object, kids, dss) => IsCatalogWith(buf'[new], kids, dss)
  BY <1>3 DEF IsCatalogWith
<1>8. ASSUME NEW p \in Appended
      PROVE  /\ buf'[p].kind \in SignatureKinds <=> buf'[p].id = ids'.sig
             /\ buf'[p].id = ids'.sig => buf'[p].kind = SignatureKind
  BY <1>4 DEF ObjectsMade
<1>9. \A p \in Appended : buf'[p].id = ids'.widget => IsFieldOf(buf'[p], ids'.sig)
  BY <1>4 DEF ObjectsMade
<1>10. \A p \in Appended : buf'[p].id = ids'.catalog
         => IsCatalogWith(buf'[p], Append(Fields, New(ids'.widget)), KnownStores(doc))
  BY <1>4 DEF ObjectsMade
<1>11. /\ buf'[new].kind \in SignatureKinds <=> buf'[new].id = ids'.sig
       /\ buf'[new].id = ids'.sig => buf'[new].kind = SignatureKind
  <2>1. SignatureKind \in SignatureKinds
    BY DEF SignatureKind, SignatureKinds
  <2> QED  BY <1>2, <1>3, <2>1
<1>12. buf'[new].id = ids'.widget => IsFieldOf(buf'[new], ids'.sig)
  BY <1>2, <1>3, <1>6
<1>13. buf'[new].id = ids'.catalog
         => IsCatalogWith(buf'[new], Append(Fields, New(ids'.widget)), KnownStores(doc))
  BY <1>2, <1>3, <1>7
<1> QED  BY <1>1, <1>5, <1>8, <1>9, <1>10, <1>11, <1>12, <1>13 DEF ObjectsMade

\* What updateObject does to the buffer and to the ids.
LEMMA UpdateShape ==
  ASSUME Allocating, EntriesExact(doc), EntriesKnown, updatedXrefEntries \in Seq(XrefEntry),
         NEW id \in Nat, NEW object \in Object, UpdateObject(id, object),
         UNCHANGED <<doc, newXrefEntries>>
  PROVE  /\ Len(buf') = Len(buf) + 1
         /\ buf'[Len(buf) + 1] = [object EXCEPT !.id = id, !.gen = 0]
         /\ \A p \in 1..Len(buf) : buf'[p] = buf[p]
         /\ Appended' = Appended \union {Len(buf) + 1}
         /\ Allocated' = Allocated
         /\ Rewritten' = Rewritten \union {id}
         /\ \A i \in DOMAIN updatedXrefEntries' :
              \/ i \in DOMAIN updatedXrefEntries /\ updatedXrefEntries'[i] = updatedXrefEntries[i]
              \/ updatedXrefEntries'[i] = [id |-> id, gen |-> 0, pos |-> Len(buf) + 1]
<1> DEFINE entry == [id |-> id, gen |-> 0, pos |-> Len(buf) + 1]
           written == [object EXCEPT !.id = id, !.gen = 0]
           n == Len(updatedXrefEntries)
<1>1. Len(buf) \in Nat /\ Len(doc.objs) \in Nat /\ Len(doc.objs) <= Len(buf) /\ n \in Nat
  BY IdsApart
<1>2. updatedXrefEntries' = Append(updatedXrefEntries, entry) /\ buf' = Append(buf, written)
  BY DEF UpdateObject
<1>3. entry \in XrefEntry /\ written \in Object /\ buf \in Seq(Object)
  <2>1. entry \in XrefEntry
    BY <1>1 DEF XrefEntry
  <2>2. written \in Object
    BY DEF Object
  <2> QED  BY <2>1, <2>2 DEF Allocating
<1>e. entry.id = id
  OBVIOUS
<1> HIDE DEF entry, written
<1>4. /\ Len(buf') = Len(buf) + 1 /\ buf'[Len(buf) + 1] = written
      /\ \A p \in 1..Len(buf) : buf'[p] = buf[p]
  BY <1>2, <1>3, AppendProperties
<1>5. /\ Len(updatedXrefEntries') = n + 1 /\ updatedXrefEntries'[n + 1] = entry
      /\ \A i \in 1..n : updatedXrefEntries'[i] = updatedXrefEntries[i]
      /\ DOMAIN updatedXrefEntries' = 1..(n + 1) /\ DOMAIN updatedXrefEntries = 1..n
  BY <1>2, <1>3, AppendProperties
<1>6. Appended' = Appended \union {Len(buf) + 1}
  BY <1>1, <1>4 DEF Appended
<1>7. Allocated' = Allocated
  BY DEF Allocated
<1> HIDE DEF n
<1>8. Rewritten' = Rewritten \union {id}
  <2>1. \A i \in 1..(n + 1) : i \in 1..n \/ i = n + 1
    BY <1>1
  <2>2. n + 1 \in 1..(n + 1) /\ \A i \in 1..n : i \in 1..(n + 1)
    BY <1>1
  <2>3. \A x : x \in Rewritten' <=> \E i \in 1..(n + 1) : x = updatedXrefEntries'[i].id
    BY <1>5 DEF Rewritten
  <2>4. \A x : x \in Rewritten <=> \E i \in 1..n : x = updatedXrefEntries[i].id
    BY <1>5 DEF Rewritten
  <2>5. \A x : x \in Rewritten' <=> x \in Rewritten \/ x = id
    BY <1>5, <1>e, <2>1, <2>2, <2>3, <2>4
  <2> QED  BY <2>5
<1>9. \A i \in DOMAIN updatedXrefEntries' :
        \/ i \in DOMAIN updatedXrefEntries /\ updatedXrefEntries'[i] = updatedXrefEntries[i]
        \/ updatedXrefEntries'[i] = entry
  BY <1>1, <1>5
<1> QED  BY <1>4, <1>6, <1>7, <1>8, <1>9 DEF written, entry

\* An object that is rewritten for the first time keeps the invariant if it keeps
\* its kind, its array and refers to what is known.
LEMMA UpdateKeeps ==
  ASSUME Allocating, EntriesExact(doc), CoreInv, RefsKnown, ObjectsMade,
         {ids.sig, ids.widget, ids.catalog} \subseteq Allocated \union {0},
         updatedXrefEntries \in Seq(XrefEntry),
         NEW id \in InUse(doc), id \notin Rewritten, NEW object \in Object,
         UpdateObject(id, object),
         UNCHANGED <<doc, req, lastXrefID, newXrefEntries, ids.sig, ids.widget, ids.catalog>>,
         pc # "mask", pc' # "mask",
         Latest(doc, id).kind \in RewritableKinds, object.kind = Latest(doc, id).kind,
         object.kind # "Page" => object.kids = Latest(doc, id).kids,
         RefersWithin(object, InUse(doc) \union Allocated)
  PROVE  CoreInv' /\ RefsKnown' /\ ObjectsMade'
<1> DEFINE new == Len(buf) + 1
           entry == [id |-> id, gen |-> 0, pos |-> Len(buf) + 1]
<1>1. EntriesKnown /\ ObjectsKnown /\ WrittenOnce /\ RewritesKept
  BY DEF CoreInv
<1>2. /\ \A x \in InUse(doc) : x \notin Allocated /\ x # 0
      /\ Rewritten \subseteq InUse(doc) /\ Appended \subseteq 1..Len(buf)
  BY <1>1, IdsApart
<1>3. id \in Nat
  BY InUseFacts DEF Allocating
<1>4. /\ buf'[new] = [object EXCEPT !.id = id, !.gen = 0]
      /\ \A p \in 1..Len(buf) : buf'[p] = buf[p]
      /\ Appended' = Appended \union {new} /\ Allocated' = Allocated
      /\ Rewritten' = Rewritten \union {id}
      /\ \A i \in DOMAIN updatedXrefEntries' :
           \/ i \in DOMAIN updatedXrefEntries /\ updatedXrefEntries'[i] = updatedXrefEntries[i]
           \/ updatedXrefEntries'[i] = entry
  BY <1>1, <1>3, UpdateShape
<1>5. /\ buf'[new].id = id /\ buf'[new].gen = 0 /\ buf'[new].kind = object.kind
      /\ buf'[new].kids = object.kids /\ RefsOf(buf'[new]) = RefsOf(object)
  BY <1>3, <1>4 DEF Object, RefsOf
<1>6. entry.id = id /\ entry.gen = 0 /\ entry.pos = new
  OBVIOUS
<1> HIDE DEF new, entry
<1>7. \A p \in Appended : buf'[p] = buf[p] /\ buf[p].id # id
  BY <1>1, <1>2, <1>4 DEF ObjectsKnown
<1>8. EntriesKnown'
  <2>1. \A i \in DOMAIN newXrefEntries' : newXrefEntries'[i].gen = 0
    BY <1>1 DEF EntriesKnown
  <2>2. ASSUME NEW i \in DOMAIN updatedXrefEntries'
        PROVE  /\ updatedXrefEntries'[i].gen = 0 /\ updatedXrefEntries'[i].pos \in Appended'
               /\ buf'[updatedXrefEntries'[i].pos].id = updatedXrefEntries'[i].id
               /\ updatedXrefEntries'[i].id \in InUse(doc)
    <3>1. CASE i \in DOMAIN updatedXrefEntries /\ updatedXrefEntries'[i] = updatedXrefEntries[i]
      <4>1. LET e == updatedXrefEntries[i] IN
              e.gen = 0 /\ e.pos \in Appended /\ buf[e.pos].id = e.id /\ e.id \in InUse(doc)
        BY <1>1, <3>1 DEF EntriesKnown
      <4> QED  BY <1>4, <1>7, <3>1, <4>1
    <3>2. CASE updatedXrefEntries'[i] = entry
      BY <1>4, <1>5, <1>6, <3>2
    <3> QED  BY <1>4, <3>1, <3>2
  <2> QED  BY <2>1, <2>2 DEF EntriesKnown
<1>9. ObjectsKnown'
  BY <1>1, <1>4, <1>5, <1>7 DEF ObjectsKnown
<1>10. WrittenOnce'
  <2> SUFFICES ASSUME NEW p \in Appended', NEW q \in Appended', buf'[p].id = buf'[q].id
               PROVE  p = q
    BY DEF WrittenOnce, Appended
  <2>1. \A a, b \in Appended : buf[a].id = buf[b].id => a = b
    BY <1>1 DEF WrittenOnce, Appended
  <2>2. Appended' = Appended \union {new} /\ buf'[new].id = id
    BY <1>4, <1>5
  <2> QED  BY <1>7, <2>1, <2>2
<1>11. RewritesKept'
  <2> SUFFICES ASSUME NEW p \in Appended'
               PROVE  LET x == buf'[p].id
                          was == Latest(doc, x)
                      IN  /\ buf'[p].kind \in RewritableKinds <=> x \in InUse(doc)
                          /\ x \in InUse(doc) => buf'[p].kind = was.kind
                          /\ x \in InUse(doc) /\ was.kind # "Page" => buf'[p].kids = was.kids
    BY DEF RewritesKept
  <2>1. CASE p \in Appended
    BY <1>1, <1>7, <2>1 DEF RewritesKept
  <2>2. CASE p = new
    BY <1>5, <2>2
  <2> QED  BY <1>4, <2>1, <2>2
<1>12. RefsKnown'
  <2>1. Known' = InUse(doc) \union Allocated /\ Known = InUse(doc) \union Allocated
    BY <1>4 DEF Known
  <2>2. RefersWithin(buf'[new], Known')
    BY <1>5, <2>1 DEF RefersWithin
  <2> QED  BY <1>4, <1>7, <2>1, <2>2 DEF RefsKnown
<1>13. ObjectsMade'
  <2>1. Fields' = Fields /\ KnownStores(doc') = KnownStores(doc) /\ SignatureKind' = SignatureKind
    BY DEF Fields, SignatureKind
  <2>2. id \notin {ids.sig, ids.widget, ids.catalog} /\ buf'[new].kind \notin SignatureKinds
    BY <1>2, <1>5 DEF RewritableKinds, SignatureKinds
  <2>3. ids'.sig = ids.sig /\ ids'.widget = ids.widget /\ ids'.catalog = ids.catalog
    OBVIOUS
  <2>4. ASSUME NEW p \in Appended'
        PROVE  /\ buf'[p].kind \in SignatureKinds <=> buf'[p].id = ids.sig
               /\ buf'[p].id = ids.sig => buf'[p].kind = SignatureKind
               /\ buf'[p].id = ids.widget => IsFieldOf(buf'[p], ids.sig)
               /\ buf'[p].id = ids.catalog =>
                    IsCatalogWith(buf'[p], Append(Fields, New(ids.widget)), KnownStores(doc))
    <3>1. CASE p \in Appended
      BY <1>7, <3>1 DEF ObjectsMade
    <3>2. CASE p = new
      BY <1>5, <2>2, <3>2
    <3> QED  BY <1>4, <3>1, <3>2
  <2> QED  BY <2>1, <2>3, <2>4 DEF ObjectsMade
<1> QED  BY <1>8, <1>9, <1>10, <1>11, <1>12, <1>13 DEF CoreInv

-----------------------------------------------------------------------------
(* What the objects of a signature refer to.                               *)

\* The references of an object are references.
LEMMA RefsType ==
  ASSUME NEW o \in Object
  PROVE  /\ RefsOf(o) \subseteq Ref
         /\ o.kids \in Seq(Ref) /\ o.dss \in Seq(Ref) /\ o.refs \in SUBSET [key: Keys, to: Ref]
         /\ \A i \in DOMAIN o.kids : o.kids[i] \in RefsOf(o)
         /\ \A i \in DOMAIN o.dss : o.dss[i] \in RefsOf(o)
         /\ \A e \in o.refs : e.to \in RefsOf(o)
<1>1. o.kids \in Seq(Ref) /\ o.dss \in Seq(Ref) /\ o.refs \in SUBSET [key: Keys, to: Ref]
  BY DEF Object
<1>2. /\ \A i \in DOMAIN o.kids : o.kids[i] \in Ref
      /\ \A i \in DOMAIN o.dss : o.dss[i] \in Ref
      /\ \A e \in o.refs : e.to \in Ref
  BY <1>1
<1> QED  BY <1>1, <1>2 DEF RefsOf, Range

\* In a well-formed document everything in use refers to what is in use.
LEMMA LatestRefers ==
  ASSUME NEW f \in File, EntriesExact(f), ReferencesFound(f), NEW id \in InUse(f)
  PROVE  RefersWithin(Latest(f, id), InUse(f)) /\ \A r \in RefsOf(Latest(f, id)) : Resolves(f, r)
<1>1. Latest(f, id) \in Object
  BY LatestFacts
<1>2. \A r \in RefsOf(Latest(f, id)) : r \in Ref /\ Resolves(f, r)
  BY <1>1, RefsType DEF ReferencesFound
<1> QED  BY <1>2, ResolvesExactly DEF RefersWithin

\* So does whatever a reference that resolves finds there.
LEMMA FoundRefers ==
  ASSUME NEW f \in File, EntriesExact(f), ReferencesFound(f), NEW r \in Ref, Resolves(f, r)
  PROVE  /\ r.gen = 0 /\ r.id \in InUse(f)
         /\ Deref(f, r) = Latest(f, r.id) /\ Deref(f, r) \in Object
         /\ RefersWithin(Deref(f, r), InUse(f))
         /\ \A x \in RefsOf(Deref(f, r)) : Resolves(f, x)
<1>1. r.gen = 0 /\ r.id \in InUse(f) /\ Deref(f, r) = Latest(f, r.id)
  BY ResolvesExactly
<1> QED  BY <1>1, LatestFacts, LatestRefers

\* The objects in the buffer have generation 0.
LEMMA BufferGenerations ==
  ASSUME Allocating, EntriesExact(doc), CoreInv
  PROVE  \A p \in DOMAIN buf : buf[p].gen = 0
<1> TAKE p \in DOMAIN buf
<1>1. Len(doc.objs) \in Nat /\ DOMAIN buf = 1..Len(buf) /\ Len(buf) \in Nat
  BY IdsApart DEF CoreInv
<1>2. CASE p \in 1..Len(doc.objs)
  BY <1>2 DEF Allocating, Copied, EntriesExact, File
<1>3. CASE p \notin 1..Len(doc.objs)
  BY <1>1, <1>3 DEF CoreInv, ObjectsKnown, Appended
<1> QED  BY <1>2, <1>3

\* A filled field is the old one but for its value and its appearance.
LEMMA FilledFieldKeeps ==
  ASSUME Allocating, WellFormed(doc), CoreInv, ids \in IdsType, ids.ap \in Allocated \union {0},
         NEW r \in Ref, Resolves(doc, r)
  PROVE  /\ FilledField(r).kind = Latest(doc, r.id).kind
         /\ FilledField(r).kids = Latest(doc, r.id).kids
         /\ RefersWithin(FilledField(r), InUse(doc) \union Allocated)
<1> DEFINE field == Deref(doc, r)
           old == {e \in field.refs : e.key \notin {"AP", "V"}}
           new == IF ids.ap = 0 THEN old ELSE old \union {At("AP", New(ids.ap))}
<1>1. doc \in File /\ buf \in Seq(Object) /\ EntriesExact(doc) /\ ReferencesFound(doc)
  BY DEF Allocating, WellFormed
<1>2. /\ field = Latest(doc, r.id) /\ field \in Object
      /\ RefersWithin(field, InUse(doc)) /\ \A x \in RefsOf(field) : Resolves(doc, x)
  BY <1>1, FoundRefers
<1>3. /\ field.kids \in Seq(Ref) /\ \A i \in DOMAIN field.kids : Resolves(doc, field.kids[i])
      /\ old \in SUBSET [key: Keys, to: Ref] /\ \A e \in old : Resolves(doc, e.to)
  BY <1>2, RefsType
<1>4. CopyRefs(doc, buf, field.kids) = field.kids /\ CopyKeys(doc, buf, old) = old
  <2> HIDE DEF field, old
  <2>1. \A p \in DOMAIN buf : buf[p].gen = 0
    BY <1>1, BufferGenerations
  <2>2. CopyRefs(doc, buf, field.kids) = field.kids
    BY <1>1, <1>3, <2>1, ArrayCopiedAsIs
  <2>3. CopyKeys(doc, buf, old) = old
    BY <1>1, <1>3, <2>1, KeysCopiedAsIs
  <2> QED  BY <2>2, <2>3
<1>5. FilledField(r) = [field EXCEPT !.keys = {r.id}, !.kids = field.kids, !.refs = new]
  BY <1>4 DEF FilledField
<1> HIDE DEF field
<1>6. /\ FilledField(r).kind = field.kind /\ FilledField(r).kids = field.kids
      /\ FilledField(r).refs = new /\ FilledField(r).dss = field.dss
  BY <1>2, <1>5 DEF Object
<1>7. \A x \in RefsOf(FilledField(r)) : x \in RefsOf(field) \/ (ids.ap # 0 /\ x = New(ids.ap))
  BY <1>6 DEF RefsOf, At
<1>8. RefersWithin(FilledField(r), InUse(doc) \union Allocated)
  BY <1>2, <1>7 DEF RefersWithin, New
<1> QED  BY <1>2, <1>6, <1>8

\* The rewritten page refers to what it did, and to the signature field.
LEMMA UpdatedPageKeeps ==
  ASSUME Allocating, WellFormed(doc), CoreInv, ids \in IdsType, ids.widget \in Allocated,
         Resolves(doc, ids.page)
  PROVE  /\ UpdatedPage.kind = Latest(doc, ids.page.id).kind
         /\ RefersWithin(UpdatedPage, InUse(doc) \union Allocated)
<1> DEFINE page == Deref(doc, ids.page)
           kids == Append(page.kids, New(ids.widget))
           keys == IF page.keys = {} THEN {} ELSE {0}
<1>1. doc \in File /\ buf \in Seq(Object) /\ EntriesExact(doc) /\ ReferencesFound(doc) /\ ids.page \in Ref
  BY DEF Allocating, WellFormed, IdsType
<1>2. /\ page = Latest(doc, ids.page.id) /\ page \in Object
      /\ RefersWithin(page, InUse(doc)) /\ \A x \in RefsOf(page) : Resolves(doc, x)
  BY <1>1, FoundRefers
<1>3. /\ page.kids \in Seq(Ref) /\ \A i \in DOMAIN page.kids : Resolves(doc, page.kids[i])
      /\ page.refs \in SUBSET [key: Keys, to: Ref] /\ \A e \in page.refs : Resolves(doc, e.to)
  BY <1>2, RefsType
<1>4. /\ [i \in DOMAIN page.kids |-> ZeroGen(doc, page.kids[i])] = page.kids
      /\ {At(e.key, ZeroGen(doc, e.to)) : e \in page.refs} = page.refs
  BY <1>1, <1>3, BufferGenerations, ArrayCopiedAsIs, KeysCopiedAsIs
<1>5. UpdatedPage = [page EXCEPT !.keys = keys, !.kids = kids, !.refs = page.refs]
  BY <1>4 DEF UpdatedPage
<1>6. New(ids.widget) \in Ref
  BY NewType DEF IdsType
<1> HIDE DEF page
<1>7. \A i \in DOMAIN kids : kids[i] = New(ids.widget) \/ kids[i] \in RefsOf(page)
  <2>1. \A i \in DOMAIN kids : \/ i \in DOMAIN page.kids /\ kids[i] = page.kids[i]
                              \/ kids[i] = New(ids.widget)
    BY <1>3, <1>6, AppendProperties
  <2> QED  BY <1>2, <2>1, RefsType
<1> HIDE DEF kids, keys
<1>8. /\ UpdatedPage.kind = page.kind /\ UpdatedPage.kids = kids
      /\ UpdatedPage.refs = page.refs /\ UpdatedPage.dss = page.dss
  BY <1>2, <1>5 DEF Object
<1>9. \A x \in RefsOf(UpdatedPage) : x \in RefsOf(page) \/ x = New(ids.widget)
  BY <1>7, <1>8 DEF RefsOf, Range
<1>10. RefersWithin(UpdatedPage, InUse(doc) \union Allocated)
  BY <1>2, <1>9 DEF RefersWithin, New
<1> QED  BY <1>2, <1>8, <1>10

\* The new catalog has the fields of the old one and the new field after them.
LEMMA NewCatalogKeeps ==
  ASSUME Allocating, WellFormed(doc), CoreInv, ids \in IdsType, ids.widget \in Allocated
  PROVE  /\ IsCatalogWith(NewCatalog, Append(Fields, New(ids.widget)), KnownStores(doc))
         /\ RefersWithin(NewCatalog, InUse(doc) \union Allocated)
<1> DEFINE old == Catalog(doc)
           dss == CopiedStores
<1>1. /\ doc \in File /\ buf \in Seq(Object) /\ EntriesExact(doc) /\ ReferencesFound(doc)
      /\ Trailer(doc).root \in Ref
  BY TrailerType DEF Allocating, WellFormed
<1>2. /\ Resolves(doc, Trailer(doc).root)
      /\ old \in Object /\ RefersWithin(old, InUse(doc)) /\ \A x \in RefsOf(old) : Resolves(doc, x)
  BY <1>1, FoundRefers DEF Catalog, ReferencesFound
<1>3. /\ old.kids \in Seq(Ref) /\ \A i \in DOMAIN old.kids : Resolves(doc, old.kids[i])
      /\ old.dss \in Seq(Ref)
      /\ \A i \in DOMAIN old.dss : old.dss[i] \in RefsOf(old)
      /\ old.refs \in SUBSET [key: Keys, to: Ref] /\ \A e \in old.refs : Resolves(doc, e.to)
  BY <1>2, RefsType
<1>4. CopyRefs(doc, buf, Fields) = Fields /\ CopyKeys(doc, buf, old.refs) = old.refs
  <2>1. Fields = old.kids
    BY DEF Fields
  <2>2. \A p \in DOMAIN buf : buf[p].gen = 0
    BY <1>1, BufferGenerations
  <2> DEFINE kids == old.kids
             refs == old.refs
  <2>3. /\ kids \in Seq(Ref) /\ \A i \in DOMAIN kids : Resolves(doc, kids[i])
        /\ refs \in SUBSET [key: Keys, to: Ref] /\ \A e \in refs : Resolves(doc, e.to)
    BY <1>3
  <2> HIDE DEF kids, refs
  <2>4. CopyRefs(doc, buf, kids) = kids /\ CopyKeys(doc, buf, refs) = refs
    BY <1>1, <2>2, <2>3, ArrayCopiedAsIs, KeysCopiedAsIs
  <2> QED  BY <2>1, <2>4 DEF kids, refs
<1>5. dss = KnownStores(doc) /\ \A i \in DOMAIN dss : dss[i] \in RefsOf(old)
  <2>0. /\ CopiedStores = IF old.dss = <<>> THEN <<>> ELSE <<CopyRef(doc, buf, Last(old.dss))>>
        /\ KnownStores(doc) = IF old.dss = <<>> THEN <<>> ELSE <<Last(old.dss)>>
    BY DEF CopiedStores, KnownStores
  <2> HIDE DEF old
  <2>1. CASE old.dss = <<>>
    BY <2>0, <2>1
  <2>2. CASE old.dss # <<>>
    <3>1. Len(old.dss) \in DOMAIN old.dss
      BY <1>3, <2>2
    <3>2. Last(old.dss) \in RefsOf(old)
      BY <1>3, <3>1 DEF Last
    <3>3. Last(old.dss) \in Ref /\ Resolves(doc, Last(old.dss))
      BY <1>2, <3>2, RefsType
    <3>4. CopyRef(doc, buf, Last(old.dss)) = Last(old.dss)
      BY <1>1, <3>3, BufferGenerations, CopiedAsIs
    <3> QED  BY <2>0, <2>2, <3>2, <3>4
  <2> QED  BY <2>1, <2>2
<1>6. NewCatalog = [Plain("Catalog") EXCEPT !.keys = {NextObjectID},
                                            !.kids = Append(Fields, New(ids.widget)),
                                            !.refs = old.refs, !.dss = dss]
  BY <1>4 DEF NewCatalog, NewFields
<1>7. Plain("Catalog") \in Object /\ Plain("Catalog").kind = "Catalog"
  BY PlainType DEF Kinds, Plain
<1>8. New(ids.widget) \in Ref /\ Fields = old.kids
  BY NewType DEF IdsType, Fields
<1> HIDE DEF old, dss
<1>9. /\ NewCatalog.kind = "Catalog" /\ NewCatalog.kids = Append(Fields, New(ids.widget))
      /\ NewCatalog.refs = old.refs /\ NewCatalog.dss = dss
  BY <1>6, <1>7 DEF Object
<1> DEFINE kids == Append(Fields, New(ids.widget))
<1>10. \A i \in DOMAIN kids : kids[i] = New(ids.widget) \/ kids[i] \in RefsOf(old)
  <2>1. \A i \in DOMAIN kids : \/ i \in DOMAIN Fields /\ kids[i] = Fields[i]
                              \/ kids[i] = New(ids.widget)
    BY <1>3, <1>8, AppendProperties
  <2> QED  BY <1>2, <1>8, <2>1, RefsType
<1>11. \A x \in RefsOf(NewCatalog) : x \in RefsOf(old) \/ x = New(ids.widget)
  <2> HIDE DEF kids
  <2>1. NewCatalog.kids = kids
    BY <1>9 DEF kids
  <2> QED  BY <1>5, <1>9, <1>10, <2>1 DEF RefsOf, Range
<1>12. RefersWithin(NewCatalog, InUse(doc) \union Allocated)
  BY <1>2, <1>11 DEF RefersWithin, New
<1> QED  BY <1>5, <1>9, <1>12 DEF IsCatalogWith

-----------------------------------------------------------------------------
(* The section, and the document with it.                                  *)

\* In a well-formed document the reader's item count is /Size, so that the next
\* trailer gets a /Size that counts every object of the revision.
LEMMA ItemCountIsSize ==
  ASSUME NEW f \in File, WellFormed(f)
  PROVE  ItemCount(f) = Trailer(f).size /\ LastObjectID(f) <= Trailer(f).size
<1> DEFINE S == {0} \union InUse(f)
           size == Trailer(f).size
<1>1. size \in Nat /\ Trailer(f).root \in Ref
  BY TrailerType
<1>2. S \in SUBSET (0..size) /\ S # {}
  BY <1>1, InUseListed DEF WellFormed, SizeIsExact
<1>3. \A id \in InUse(f) : id \in Nat /\ id < size /\ id > 0 /\ id \in ListedIds(f)
  BY InUseFacts DEF WellFormed, EntriesExact, SizeIsExact
<1>4. InUse(f) # {}
  BY ResolvedInUse DEF WellFormed, ReferencesFound
<1>5. LastObjectID(f) = Max(S) + 1
  BY DEF LastObjectID
<1> HIDE DEF S
<1>6. Max(S) \in S /\ \A y \in S : y <= Max(S)
  BY <1>1, <1>2, MaxOfBounded
<1>7. Max(S) \in InUse(f)
  <2>1. PICK id \in InUse(f) : TRUE
    BY <1>4
  <2>2. id \in S /\ id <= Max(S) /\ id > 0 /\ id \in Nat
    BY <1>3, <1>6, <2>1 DEF S
  <2>3. Max(S) # 0
    BY <2>2
  <2> QED  BY <1>6, <2>3 DEF S
<1>8. LastObjectID(f) <= size
  BY <1>1, <1>3, <1>5, <1>7
<1>9. CASE f.xref = "table"
  <2>1. Max(S) + 1 = size /\ Max(S) \in ListedIds(f) /\ Max(S) \in Nat
    BY <1>3, <1>5, <1>7, <1>9 DEF WellFormed, SizeIsExact
  <2>2. \E id \in ListedIds(f) : id >= size - 1
    BY <1>1, <2>1
  <2> QED  BY <1>8, <1>9, <2>2 DEF ItemCount
<1>10. CASE f.xref # "table"
  <2> DEFINE T == {size} \union {id + 1 : id \in ListedIds(f)}
  <2>1. f.xref = "stream"
    BY <1>10 DEF File
  <2>2. \A id \in ListedIds(f) : id \in Nat /\ id < size
    BY ListedNumbers DEF WellFormed, SizeIsExact
  <2>3. T \in SUBSET (0..size) /\ size \in T
    BY <1>1, <2>2
  <2>4. ItemCount(f) = Max(T)
    BY <2>1 DEF ItemCount
  <2> HIDE DEF T
  <2>5. Max(T) \in Nat /\ Max(T) <= size /\ size <= Max(T)
    BY <1>1, <2>3, MaxOfBounded
  <2>6. ItemCount(f) = size
    BY <1>1, <2>4, <2>5
  <2> QED  BY <1>8, <2>6
<1> QED  BY <1>9, <1>10

\* The entries written are those of the objects rewritten and allocated.
LEMMA EntriesListed ==
  ASSUME Allocating, EntriesExact(doc), CoreInv, updatedXrefEntries \in Seq(XrefEntry)
  PROVE  LET es == updatedXrefEntries \o newXrefEntries IN
           /\ \A i \in DOMAIN es : es[i].gen = 0 /\ es[i].pos \in Appended /\ buf[es[i].pos].id = es[i].id
           /\ {es[i].id : i \in DOMAIN es} = Rewritten \union Allocated
<1> DEFINE es == updatedXrefEntries \o newXrefEntries
           m == Len(updatedXrefEntries)
           n == Len(newXrefEntries)
<1>1. newXrefEntries \in Seq(XrefEntry) /\ m \in Nat /\ n \in Nat /\ LastObjectID(doc) \in Nat
      /\ EntriesKnown
  BY IdsApart DEF Allocating, CoreInv
<1>2. /\ DOMAIN es = 1..(m + n) /\ DOMAIN updatedXrefEntries = 1..m /\ DOMAIN newXrefEntries = 1..n
      /\ \A i \in 1..m : es[i] = updatedXrefEntries[i]
      /\ \A i \in (m + 1)..(m + n) : es[i] = newXrefEntries[i - m]
  <2>1. /\ Len(es) = m + n /\ es \in Seq(XrefEntry)
        /\ \A i \in 1..(m + n) : es[i] = IF i <= m THEN updatedXrefEntries[i] ELSE newXrefEntries[i - m]
    BY <1>1, ConcatProperties
  <2>2. DOMAIN es = 1..(m + n)
    BY <2>1
  <2> HIDE DEF es
  <2> QED  BY <1>1, <2>1, <2>2
<1> HIDE DEF es, m, n
<1>3. \A i \in 1..n : /\ newXrefEntries[i].gen = 0 /\ newXrefEntries[i].id = LastObjectID(doc) + i
                      /\ newXrefEntries[i].pos \in Appended
                      /\ buf[newXrefEntries[i].pos].id = newXrefEntries[i].id
  BY <1>1, <1>2 DEF Allocating, AllocationExact, EntriesKnown, Appended
<1>4. \A i \in 1..m : /\ updatedXrefEntries[i].gen = 0 /\ updatedXrefEntries[i].pos \in Appended
                      /\ buf[updatedXrefEntries[i].pos].id = updatedXrefEntries[i].id
  BY <1>1, <1>2 DEF EntriesKnown
<1>5. \A i \in 1..(m + n) : i \in 1..m \/ (i \in (m + 1)..(m + n) /\ i - m \in 1..n)
  BY <1>1
<1>6. \A i \in DOMAIN es : es[i].gen = 0 /\ es[i].pos \in Appended /\ buf[es[i].pos].id = es[i].id
  BY <1>2, <1>3, <1>4, <1>5
<1>7. {es[i].id : i \in DOMAIN es} = Rewritten \union Allocated
  <2>1. ASSUME NEW i \in DOMAIN es
        PROVE  es[i].id \in Rewritten \union Allocated
    <3>1. CASE i \in 1..m
      BY <1>2, <3>1 DEF Rewritten
    <3>2. CASE i \in (m + 1)..(m + n) /\ i - m \in 1..n
      <4>1. es[i].id = LastObjectID(doc) + (i - m)
        BY <1>2, <1>3, <3>2
      <4> QED  BY <1>1, <3>2, <4>1 DEF Allocated, n
    <3> QED  BY <1>2, <1>5, <3>1, <3>2
  <2>2. ASSUME NEW id \in Rewritten
        PROVE  \E i \in DOMAIN es : es[i].id = id
    <3>1. PICK i \in 1..m : id = updatedXrefEntries[i].id
      BY <1>2 DEF Rewritten
    <3>2. i \in 1..(m + n)
      BY <1>1
    <3> QED  BY <1>2, <3>1, <3>2
  <2>3. ASSUME NEW id \in Allocated
        PROVE  \E i \in DOMAIN es : es[i].id = id
    <3>1. id - LastObjectID(doc) \in 1..n
      BY <1>1 DEF Allocated, n
    <3> DEFINE i == m + (id - LastObjectID(doc))
    <3>2. i \in (m + 1)..(m + n) /\ i \in 1..(m + n) /\ i - m = id - LastObjectID(doc) /\ id \in Nat
      BY <1>1, <3>1 DEF Allocated
    <3>3. es[i].id = LastObjectID(doc) + (id - LastObjectID(doc))
      BY <1>2, <1>3, <3>1, <3>2
    <3> HIDE DEF i
    <3>4. LastObjectID(doc) + (id - LastObjectID(doc)) = id
      BY <1>1, <3>2
    <3> QED  BY <1>2, <3>2, <3>3, <3>4
  <2> QED  BY <2>1, <2>2, <2>3
<1> QED  BY <1>6, <1>7 DEF es

\* The section written lists the revision, and its /Size covers it, whether the
\* section is followed by nothing or by the object of the stream that holds it.
LEMMA SectionMade ==
  ASSUME IInv, pc = "xref", WellFormed(doc), CallInv,
         section' = NewSection(NewSize),
         UNCHANGED <<doc, updatedXrefEntries, ids>>,
         \/ UNCHANGED <<newXrefEntries, buf>>
         \/ doc.xref # "table" /\ AddObject(Plain("XRef"))
  PROVE  SectionKnown'
<1> DEFINE es == updatedXrefEntries \o newXrefEntries
           S == Rewritten \union Allocated
<1>1. /\ Allocating /\ EntriesExact(doc) /\ CoreInv /\ RefsKnown /\ IdsKnown /\ EntriesKnown
      /\ updatedXrefEntries \in Seq(XrefEntry) /\ doc \in File
  BY DEF IInv, Working, TypeOK, WellFormed, CallInv, CoreInv
<1>2. /\ \A i \in DOMAIN es : es[i].gen = 0 /\ es[i].pos \in Appended /\ buf[es[i].pos].id = es[i].id
      /\ {es[i].id : i \in DOMAIN es} = S
  BY <1>1, EntriesListed
<1>3. /\ section'.entries = es /\ section'.size = NewSize /\ section'.root = New(ids.catalog)
  BY DEF NewSection
<1> HIDE DEF es
<1>4. EntryIds(section') = S /\ EntryIds(section)' = S
  BY <1>2, <1>3 DEF EntryIds
<1>5. /\ Plain("XRef") \in Object /\ RefsOf(Plain("XRef")) = {}
      /\ Plain("XRef").kind = "XRef" /\ Plain("XRef").refs = {}
  BY PlainType DEF Kinds, Plain, RefsOf, Range
<1>6. /\ Appended \subseteq Appended' /\ Rewritten' = Rewritten
      /\ Allocated \subseteq Allocated'
      /\ \A p \in Appended : buf'[p] = buf[p]
      /\ \A p \in Appended' \ Appended :
           RefsOf(buf'[p]) = {} /\ buf'[p].kind = "XRef" /\ buf'[p].refs = {}
      /\ Allocated' \subseteq Allocated \union {NextObjectID}
  <2>1. CASE UNCHANGED <<newXrefEntries, buf>>
    BY <2>1 DEF Appended, Rewritten, Allocated
  <2>2. CASE AddObject(Plain("XRef"))
    <3>1. /\ buf'[Len(buf) + 1] = [Plain("XRef") EXCEPT !.id = NextObjectID, !.gen = 0]
          /\ \A p \in 1..Len(buf) : buf'[p] = buf[p]
          /\ Appended' = Appended \union {Len(buf) + 1}
          /\ Allocated' = Allocated \union {NextObjectID}
          /\ Rewritten' = Rewritten
      BY <1>1, <1>5, <2>2, AddShape
    <3>2. Appended \subseteq 1..Len(buf)
      BY <1>1, IdsApart
    <3>3. /\ RefsOf(buf'[Len(buf) + 1]) = RefsOf(Plain("XRef"))
          /\ buf'[Len(buf) + 1].kind = "XRef" /\ buf'[Len(buf) + 1].refs = {}
      BY <1>5, <3>1 DEF Object, RefsOf
    <3> QED  BY <1>5, <3>1, <3>2, <3>3
  <2> QED  BY <2>1, <2>2
<1>7. /\ LastObjectID(doc) \in Nat /\ Len(newXrefEntries) \in Nat
      /\ \A id \in InUse(doc) : id \notin Allocated
      /\ Rewritten \subseteq InUse(doc)
  BY <1>1, IdsApart
<1>8. /\ Trailer(doc).size \in Nat /\ NewSize = Trailer(doc).size + Len(newXrefEntries) + 1
      /\ LastObjectID(doc) <= Trailer(doc).size
  BY <1>1, ItemCountIsSize, TrailerType DEF NewSize
<1>9. \A id \in S : id < NewSize
  <2>1. \A id \in InUse(doc) : id \in Nat /\ id < Trailer(doc).size
    BY <1>1, InUseFacts DEF WellFormed, SizeIsExact
  <2> QED  BY <1>7, <1>8, <2>1 DEF Allocated
<1>10. {ids.sig, ids.widget, ids.catalog} \subseteq Allocated
  BY <1>1 DEF IdsKnown
<1>11. doc.xref = "table" => NewSize - 1 \in S
  <2>1. ASSUME doc.xref = "table"
        PROVE  NewSize - 1 \in Allocated
    <3>1. Trailer(doc).size = LastObjectID(doc)
      BY <2>1 DEF WellFormed, SizeIsExact
    <3>2. Len(newXrefEntries) # 0
      BY <1>7, <1>10 DEF Allocated
    <3> QED  BY <1>7, <1>8, <3>1, <3>2 DEF Allocated
  <2> QED  BY <2>1
<1>12. \A p \in Appended' : RefersWithin(buf'[p], InUse(doc) \union S)
  <2>1. \A p \in Appended : RefersWithin(buf[p], InUse(doc) \union Allocated)
    BY <1>1 DEF RefsKnown, Known
  <2> QED  BY <1>6, <2>1 DEF RefersWithin
<1>13. \A i \in DOMAIN section'.entries :
         LET e == section'.entries[i] IN
           e.gen = 0 /\ e.pos \in Appended' /\ buf'[e.pos].id = e.id
  BY <1>2, <1>3, <1>6
<1>14. /\ Rewritten' \subseteq EntryIds(section')
       /\ EntryIds(section') \subseteq Rewritten' \union Allocated'
       /\ {ids'.sig, ids'.widget, ids'.catalog} \subseteq EntryIds(section')
  BY <1>4, <1>6, <1>10
<1>15. /\ section'.root = New(ids'.catalog)
       /\ \A id \in EntryIds(section') : id < section'.size
       /\ Trailer(doc').size <= section'.size
       /\ doc'.xref = "table" => section'.size - 1 \in EntryIds(section')
  BY <1>3, <1>4, <1>7, <1>8, <1>9, <1>11
<1>16. \A p \in Appended' : RefersWithin(buf'[p], InUse(doc') \union EntryIds(section'))
  BY <1>4, <1>12
<1>17. \A p \in Appended' :
         buf'[p].id \in EntryIds(section') \/ (buf'[p].kind = "XRef" /\ buf'[p].refs = {})
  <2>1. \A p \in Appended : buf[p].id \in S
    BY <1>1 DEF CoreInv, ObjectsKnown
  <2> QED  BY <1>4, <1>6, <2>1
<1>18. \A id \in Allocated' : id \in EntryIds(section') \/ id - 1 \in EntryIds(section')
  <2>1. NextObjectID - 1 \in Allocated
    <3>1. NextObjectID = LastObjectID(doc) + Len(newXrefEntries) + 1
      BY <1>1, IdsApart
    <3>2. Len(newXrefEntries) # 0
      BY <1>7, <1>10 DEF Allocated
    <3> QED  BY <1>7, <3>1, <3>2 DEF Allocated
  <2> QED  BY <1>4, <1>6, <2>1
<1> QED  BY <1>13, <1>14, <1>15, <1>16, <1>17, <1>18 DEF SectionKnown

\* The document that is delivered is the next revision of the one that was given.
LEMMA SignedFileAppends ==
  ASSUME IInv, pc = "replace", WellFormed(doc), CallInv
  PROVE  /\ Appends(doc, SignedFile, section)
         /\ LiveIds(section) = EntryIds(section)
         /\ SignedFile.objs = buf /\ SignedFile.xref = doc.xref
<1>1. /\ Allocating /\ EntriesExact(doc) /\ CoreInv /\ EntriesKnown /\ SectionKnown /\ ObjectsKnown
      /\ doc \in File /\ section \in Section /\ SignedFile \in File /\ Copied
  BY SignedFileType DEF IInv, Working, TypeOK, WellFormed, CallInv, CoreInv, Allocating
<1>2. /\ SignedFile.objs = buf /\ SignedFile.sections = Append(doc.sections, section)
      /\ SignedFile.xref = doc.xref
  BY <1>1 DEF SignedFile, File
<1>3. /\ \A id \in EntryIds(section) : id \in Nat \ {0}
      /\ Len(doc.objs) \in Nat /\ Len(doc.objs) <= Len(buf) /\ Len(buf) \in Nat
  <2>1. /\ \A id \in Allocated : id \in Nat \ {0}
        /\ \A id \in InUse(doc) : id # 0
        /\ Rewritten \subseteq InUse(doc)
        /\ Len(doc.objs) \in Nat /\ Len(doc.objs) <= Len(buf) /\ Len(buf) \in Nat
    BY <1>1, IdsApart
  <2>2. \A id \in InUse(doc) : id \in Nat
    BY <1>1, InUseFacts
  <2> QED  BY <1>1, <2>1, <2>2 DEF SectionKnown
<1>4. \A i \in DOMAIN section.entries :
        /\ section.entries[i].pos # 0 /\ section.entries[i].gen = 0
        /\ section.entries[i].pos \in (Len(doc.objs) + 1)..Len(buf)
        /\ buf[section.entries[i].pos].id = section.entries[i].id
        /\ section.entries[i].id > 0
  <2> TAKE i \in DOMAIN section.entries
  <2>1. /\ section.entries[i].gen = 0 /\ section.entries[i].pos \in Appended
        /\ buf[section.entries[i].pos].id = section.entries[i].id
    BY <1>1 DEF SectionKnown
  <2>2. section.entries[i].id \in EntryIds(section)
    BY DEF EntryIds
  <2> QED  BY <1>3, <2>1, <2>2 DEF Appended
<1>5. LiveIds(section) = EntryIds(section)
  BY <1>4 DEF LiveIds, EntryIds
<1>6. \A p \in (Len(doc.objs) + 1)..Len(buf) : buf[p].gen = 0
  BY <1>1 DEF ObjectsKnown, Appended
<1>7. (\A id \in EntryIds(section) : id < section.size) /\ Trailer(doc).size <= section.size
  BY <1>1 DEF SectionKnown
<1>8. Len(doc.objs) <= Len(buf) /\ \A p \in 1..Len(doc.objs) : buf[p] = doc.objs[p]
  BY <1>1 DEF Copied
<1> QED  BY <1>1, <1>2, <1>4, <1>5, <1>6, <1>7, <1>8 DEF Appends

\* What the reader finds in it: the objects appended, and otherwise what it found
\* before; an object that is rewritten keeps its kind and, but for pages, its array.
LEMMA SignedFileReads ==
  ASSUME IInv, pc = "replace", WellFormed(doc), CallInv
  PROVE  /\ SignedFile \in File /\ EntriesExact(SignedFile)
         /\ Trailer(SignedFile) = section
         /\ ListedIds(SignedFile) = ListedIds(doc) \union EntryIds(section)
         /\ InUse(SignedFile) = InUse(doc) \union EntryIds(section)
         /\ \A id \in EntryIds(section) : \E p \in Appended :
              /\ Entry(SignedFile, id).pos = p /\ Latest(SignedFile, id) = buf[p]
              /\ buf[p].id = id
         /\ \A id \in InUse(doc) \ EntryIds(section) :
              /\ Entry(SignedFile, id) = Entry(doc, id)
              /\ Latest(SignedFile, id) = Latest(doc, id)
         /\ \A id \in InUse(doc) :
              /\ Latest(SignedFile, id).kind = Latest(doc, id).kind
              /\ Latest(doc, id).kind # "Page" =>
                   Latest(SignedFile, id).kids = Latest(doc, id).kids
<1> DEFINE g == SignedFile
<1>1. Appends(doc, g, section) /\ LiveIds(section) = EntryIds(section) /\ g.objs = buf
  BY SignedFileAppends
<1>2. EntriesExact(doc) /\ (\A id \in ListedIds(doc) : id < Trailer(doc).size) /\ RewritesKept
  BY DEF WellFormed, SizeIsExact, CallInv, CoreInv
<1> HIDE DEF g
<1>3. g \in File
  BY <1>1 DEF Appends
<1>4. Trailer(g) = section /\ ListedIds(g) = ListedIds(doc) \union EntryIds(section)
  BY <1>1, SectionsKept
<1>5. InUse(g) = InUse(doc) \union EntryIds(section)
  BY <1>1, <1>2, InUseGrows
<1>6. /\ EntriesExact(g)
      /\ \A id \in EntryIds(section) : \E p \in (Len(doc.objs) + 1)..Len(g.objs) :
           Entry(g, id).pos = p /\ Latest(g, id) = g.objs[p] /\ g.objs[p].id = id
      /\ \A id \in InUse(doc) \ EntryIds(section) :
           Entry(g, id) = Entry(doc, id) /\ Latest(g, id) = Latest(doc, id)
  BY <1>1, <1>2, RevisionExact
<1>7. \A id \in EntryIds(section) : \E p \in Appended :
        Entry(g, id).pos = p /\ Latest(g, id) = buf[p] /\ buf[p].id = id
  BY <1>1, <1>6 DEF Appended
<1>8. ASSUME NEW id \in InUse(doc)
      PROVE  /\ Latest(g, id).kind = Latest(doc, id).kind
             /\ Latest(doc, id).kind # "Page" => Latest(g, id).kids = Latest(doc, id).kids
  <2>1. CASE id \in EntryIds(section)
    <3>1. PICK p \in Appended : Latest(g, id) = buf[p] /\ buf[p].id = id
      BY <1>7, <2>1
    <3> QED  BY <1>2, <3>1 DEF RewritesKept
  <2>2. CASE id \notin EntryIds(section)
    BY <1>6, <2>2
  <2> QED  BY <2>1, <2>2
<1> QED  BY <1>3, <1>4, <1>5, <1>6, <1>7, <1>8 DEF g

\* The signature, its field and the catalog are found in it.
LEMMA SignedFileHolds ==
  ASSUME IInv, pc = "replace", WellFormed(doc), CallInv
  PROVE  /\ Trailer(SignedFile).root = New(ids.catalog)
         /\ \A id \in {ids.sig, ids.widget, ids.catalog} :
              /\ id \in EntryIds(section) /\ id \notin InUse(doc) /\ id \in Nat
              /\ Resolves(SignedFile, New(id))
              /\ Deref(SignedFile, New(id)) = Latest(SignedFile, id)
         /\ Latest(SignedFile, ids.sig).kind = SignatureKind
         /\ IsFieldOf(Latest(SignedFile, ids.widget), ids.sig)
         /\ IsCatalogWith(Latest(SignedFile, ids.catalog), Append(Fields, New(ids.widget)), KnownStores(doc))
<1> DEFINE g == SignedFile
<1>1. /\ g \in File /\ EntriesExact(g) /\ Trailer(g) = section
      /\ InUse(g) = InUse(doc) \union EntryIds(section)
      /\ \A id \in EntryIds(section) : \E p \in Appended :
           Latest(g, id) = buf[p] /\ buf[p].id = id
  BY SignedFileReads
<1> HIDE DEF g
<1>2. SectionKnown /\ IdsKnown /\ ObjectsMade /\ CoreInv /\ Allocating /\ EntriesExact(doc)
  BY DEF CallInv, IInv, Working, WellFormed
<1>3. /\ \A id \in Allocated : id \in Nat \ {0}
      /\ \A id \in InUse(doc) : id \notin Allocated
  BY <1>2, IdsApart DEF CoreInv
<1>4. {ids.sig, ids.widget, ids.catalog} \subseteq Allocated
  BY <1>2 DEF IdsKnown
<1>5. section.root = New(ids.catalog) /\ {ids.sig, ids.widget, ids.catalog} \subseteq EntryIds(section)
  BY <1>2 DEF SectionKnown
<1>6. ASSUME NEW id \in {ids.sig, ids.widget, ids.catalog}
      PROVE  /\ id \in EntryIds(section) /\ id \notin InUse(doc) /\ id \in Nat
             /\ Resolves(g, New(id)) /\ Deref(g, New(id)) = Latest(g, id)
  <2>1. id \in EntryIds(section) /\ id \in InUse(g) /\ id \in Nat /\ id \notin InUse(doc)
    BY <1>1, <1>3, <1>4, <1>5
  <2>2. New(id) \in Ref /\ New(id).gen = 0 /\ New(id).id = id
    BY <2>1, NewType DEF New
  <2> QED  BY <1>1, <2>1, <2>2, ResolvesExactly
<1>7. /\ Latest(g, ids.sig).kind = SignatureKind
      /\ IsFieldOf(Latest(g, ids.widget), ids.sig)
      /\ IsCatalogWith(Latest(g, ids.catalog), Append(Fields, New(ids.widget)), KnownStores(doc))
  <2>1. PICK p \in Appended : Latest(g, ids.sig) = buf[p] /\ buf[p].id = ids.sig
    BY <1>1, <1>5
  <2>2. PICK q \in Appended : Latest(g, ids.widget) = buf[q] /\ buf[q].id = ids.widget
    BY <1>1, <1>5
  <2>3. PICK k \in Appended : Latest(g, ids.catalog) = buf[k] /\ buf[k].id = ids.catalog
    BY <1>1, <1>5
  <2> QED  BY <1>2, <2>1, <2>2, <2>3 DEF ObjectsMade
<1> QED  BY <1>1, <1>5, <1>6, <1>7 DEF g

\* The fields of the document that is delivered are those that were there, with what
\* was in them, and the new one.
LEMMA SignedFileFields ==
  ASSUME IInv, pc = "replace", WellFormed(doc), CallInv
  PROVE  /\ Fields \in Seq(Ref)
         /\ Catalog(SignedFile).kids = Append(Fields, New(ids.widget))
         /\ Catalog(SignedFile).kind = "Catalog"
         /\ \A i \in DOMAIN Fields :
              /\ Deref(SignedFile, Fields[i]).kind = Deref(doc, Fields[i]).kind
              /\ Deref(doc, Fields[i]).kind # "Page" =>
                   Deref(SignedFile, Fields[i]).kids = Deref(doc, Fields[i]).kids
<1> DEFINE g == SignedFile
<1>1. /\ g \in File /\ EntriesExact(g) /\ InUse(g) = InUse(doc) \union EntryIds(section)
      /\ \A id \in InUse(doc) :
           /\ Latest(g, id).kind = Latest(doc, id).kind
           /\ Latest(doc, id).kind # "Page" => Latest(g, id).kids = Latest(doc, id).kids
  BY SignedFileReads
<1>2. /\ Trailer(g).root = New(ids.catalog)
      /\ Deref(g, New(ids.catalog)) = Latest(g, ids.catalog)
      /\ IsCatalogWith(Latest(g, ids.catalog), Append(Fields, New(ids.widget)), KnownStores(doc))
  BY SignedFileHolds
<1>3. /\ doc \in File /\ EntriesExact(doc) /\ ReferencesFound(doc) /\ Trailer(doc).root \in Ref
  BY TrailerType DEF IInv, TypeOK, WellFormed
<1> HIDE DEF g
<1>4. Catalog(g).kids = Append(Fields, New(ids.widget)) /\ Catalog(g).kind = "Catalog"
  BY <1>2 DEF Catalog, IsCatalogWith
<1>5. /\ Catalog(doc) \in Object /\ \A x \in RefsOf(Catalog(doc)) : Resolves(doc, x)
  BY <1>3, FoundRefers DEF Catalog, ReferencesFound
<1>6. /\ Fields \in Seq(Ref) /\ \A i \in DOMAIN Fields : Fields[i] \in Ref /\ Resolves(doc, Fields[i])
  BY <1>5, RefsType DEF Fields
<1>7. ASSUME NEW i \in DOMAIN Fields
      PROVE  /\ Deref(g, Fields[i]).kind = Deref(doc, Fields[i]).kind
             /\ Deref(doc, Fields[i]).kind # "Page" =>
                  Deref(g, Fields[i]).kids = Deref(doc, Fields[i]).kids
  <2>1. /\ Fields[i].gen = 0 /\ Fields[i].id \in InUse(doc)
        /\ Deref(doc, Fields[i]) = Latest(doc, Fields[i].id)
    BY <1>3, <1>6, ResolvesExactly
  <2>2. Fields[i].id \in InUse(g)
    BY <1>1, <2>1
  <2>3. Deref(g, Fields[i]) = Latest(g, Fields[i].id)
    BY <1>1, <1>6, <2>1, <2>2, ResolvesExactly
  <2> QED  BY <1>1, <2>1, <2>3
<1> QED  BY <1>4, <1>6, <1>7 DEF g

\* What a reference found before is still of that kind.
LEMMA SignedFileKinds ==
  ASSUME IInv, pc = "replace", WellFormed(doc), CallInv, NEW r \in Ref, Resolves(doc, r)
  PROVE  Deref(SignedFile, r).kind = Deref(doc, r).kind
<1> DEFINE g == SignedFile
<1>1. /\ g \in File /\ EntriesExact(g) /\ InUse(g) = InUse(doc) \union EntryIds(section)
      /\ \A id \in InUse(doc) : Latest(g, id).kind = Latest(doc, id).kind
  BY SignedFileReads
<1>2. doc \in File /\ EntriesExact(doc)
  BY DEF IInv, TypeOK, WellFormed
<1> HIDE DEF g
<1>3. r.gen = 0 /\ r.id \in InUse(doc) /\ Deref(doc, r) = Latest(doc, r.id)
  BY <1>2, ResolvesExactly
<1>4. r.id \in InUse(g)
  BY <1>1, <1>3
<1>5. Deref(g, r) = Latest(g, r.id)
  BY <1>1, <1>3, <1>4, ResolvesExactly
<1> QED  BY <1>1, <1>3, <1>5 DEF g

\* The fields that the next signature may fill are those that this one might.
LEMMA SignedFileApart ==
  ASSUME IInv, pc = "replace", WellFormed(doc), CallInv
  PROVE  FieldsApart(SignedFile)
<1> DEFINE g == SignedFile
           n == Len(Fields)
<1>1. /\ Fields \in Seq(Ref) /\ Catalog(g).kids = Append(Fields, New(ids.widget))
      /\ \A i \in DOMAIN Fields :
           /\ Deref(g, Fields[i]).kind = Deref(doc, Fields[i]).kind
           /\ Deref(doc, Fields[i]).kind # "Page" => Deref(g, Fields[i]).kids = Deref(doc, Fields[i]).kids
  BY SignedFileFields
<1>2. Deref(g, New(ids.widget)).kind = "Widget" /\ ids.widget \in Nat
  BY SignedFileHolds DEF IsFieldOf
<1>3. doc \in File /\ FieldsApart(doc) /\ Fields = Catalog(doc).kids
  BY DEF IInv, TypeOK, WellFormed, Fields
<1>4. /\ DOMAIN Catalog(g).kids = 1..(n + 1) /\ DOMAIN Fields = 1..n /\ n \in Nat
      /\ Catalog(g).kids[n + 1] = New(ids.widget)
      /\ \A i \in 1..n : Catalog(g).kids[i] = Fields[i]
  BY <1>1, <1>2, NewType, AppendProperties
<1>5. ASSUME NEW r \in Ref, Deref(doc, r).kind \in {"Initials", "Date", "Text"}
      PROVE  Deref(g, r).kind = Deref(doc, r).kind
  <2>1. Resolves(doc, r)
    BY <1>5 DEF Deref, Null
  <2> QED  BY <2>1, SignedFileKinds
<1> HIDE DEF g, n
<1>6. ASSUME NEW i \in Fillable(g)
      PROVE  i \in Fillable(doc) /\ FamilyOf(g, i) = FamilyOf(doc, i)
  <2>1. i \in 1..(n + 1) /\ Deref(g, Catalog(g).kids[i]).kind \in {"Initials", "Date"}
    BY <1>4 DEF Fillable
  <2>2. i # n + 1
    BY <1>2, <1>4, <2>1
  <2>3. i \in 1..n
    BY <1>4, <2>1, <2>2
  <2>4. Catalog(g).kids[i] = Fields[i] /\ i \in DOMAIN Fields
    BY <1>4, <2>3
  <2>5. /\ Deref(doc, Fields[i]).kind \in {"Initials", "Date"}
        /\ Deref(g, Fields[i]).kids = Deref(doc, Fields[i]).kids
    BY <1>1, <2>1, <2>4
  <2> QED  BY <1>3, <2>4, <2>5 DEF Fillable, FamilyOf
<1>7. ASSUME NEW i \in Fillable(doc), NEW k \in DOMAIN FamilyOf(doc, i)
      PROVE  FamilyOf(doc, i)[k] \in Ref
  <2>1. i \in DOMAIN Fields /\ Deref(doc, Fields[i]) \in Object
    BY <1>3, DerefType DEF Fillable
  <2>2. Deref(doc, Fields[i]).kids \in Seq(Ref) /\ Fields[i] \in Ref
    BY <1>1, <2>1 DEF Object
  <2>3. FamilyOf(doc, i) \in Seq(Ref)
    BY <1>3, <2>2, AppendProperties DEF FamilyOf
  <2> QED  BY <2>3
<1>8. SUFFICES ASSUME NEW i \in Fillable(g), NEW k \in DOMAIN FamilyOf(g, i)
               PROVE  /\ Deref(g, FamilyOf(g, i)[k]).kind \in {"Initials", "Date", "Text"}
                      /\ \A j \in Fillable(g) : \A l \in DOMAIN FamilyOf(g, j) :
                           FamilyOf(g, i)[k].id = FamilyOf(g, j)[l].id => i = j /\ k = l
  BY DEF FieldsApart, g
<1>9. /\ i \in Fillable(doc) /\ k \in DOMAIN FamilyOf(doc, i) /\ FamilyOf(g, i) = FamilyOf(doc, i)
  BY <1>6, <1>8
<1>10. Deref(doc, FamilyOf(doc, i)[k]).kind \in {"Initials", "Date", "Text"}
  BY <1>3, <1>9 DEF FieldsApart
<1>11. Deref(g, FamilyOf(g, i)[k]).kind \in {"Initials", "Date", "Text"}
  BY <1>5, <1>7, <1>9, <1>10
<1>12. ASSUME NEW j \in Fillable(g), NEW l \in DOMAIN FamilyOf(g, j),
              FamilyOf(g, i)[k].id = FamilyOf(g, j)[l].id
       PROVE  i = j /\ k = l
  <2>1. j \in Fillable(doc) /\ FamilyOf(g, j) = FamilyOf(doc, j)
    BY <1>6, <1>12
  <2> QED  BY <1>3, <1>9, <1>12, <2>1 DEF FieldsApart
<1> QED  BY <1>11, <1>12

\* Signing keeps a document well formed.
LEMMA SignedFileWellFormed ==
  ASSUME IInv, pc = "replace", WellFormed(doc), CallInv
  PROVE  WellFormed(SignedFile)
<1> DEFINE g == SignedFile
           S == EntryIds(section)
<1>1. /\ g \in File /\ EntriesExact(g) /\ Trailer(g) = section
      /\ ListedIds(g) = ListedIds(doc) \union S /\ InUse(g) = InUse(doc) \union S
      /\ \A id \in S : \E p \in Appended : Latest(g, id) = buf[p] /\ buf[p].id = id
      /\ \A id \in InUse(doc) \ S : Latest(g, id) = Latest(doc, id)
  BY SignedFileReads
<1>2. /\ SectionKnown /\ doc \in File /\ SizeIsExact(doc) /\ EntriesExact(doc)
      /\ ReferencesFound(doc) /\ section \in Section
  BY DEF CallInv, IInv, TypeOK, WellFormed
<1>3. g.xref = doc.xref
  BY SignedFileAppends
<1>4. FieldsApart(g)
  BY SignedFileApart
<1>5. /\ Trailer(g).root = New(ids.catalog)
      /\ Resolves(g, New(ids.catalog)) /\ Catalog(g).kind = "Catalog"
  BY SignedFileHolds, SignedFileFields
<1> HIDE DEF g
<1>6. SizeIsExact(g)
  <2>1. /\ Trailer(doc).size \in Nat /\ section.size \in Nat /\ Trailer(doc).size <= section.size
        /\ \A id \in S : id < section.size
        /\ doc.xref = "table" => section.size - 1 \in S
    BY <1>2, TrailerType DEF SectionKnown, Section
  <2>2. \A id \in ListedIds(doc) : id \in Nat /\ id < Trailer(doc).size
    <3>1. \A id \in ListedIds(doc) : id \in Nat
      <4> TAKE id \in ListedIds(doc)
      <4>1. PICK s \in DOMAIN doc.sections : id \in EntryIds(doc.sections[s])
        BY DEF ListedIds
      <4>2. PICK i \in DOMAIN doc.sections[s].entries : id = doc.sections[s].entries[i].id
        BY <4>1 DEF EntryIds
      <4>3. doc.sections[s] \in Section
        BY <1>2, <4>1 DEF File
      <4>4. doc.sections[s].entries[i] \in XrefEntry
        BY <4>2, <4>3 DEF Section
      <4> QED  BY <4>2, <4>4 DEF XrefEntry
    <3> QED  BY <1>2, <3>1 DEF SizeIsExact
  <2>3. \A id \in ListedIds(g) : id < section.size
    BY <1>1, <2>1, <2>2
  <2>4. ASSUME doc.xref = "table"
        PROVE  LastObjectID(g) = section.size
    <3> DEFINE Ids == {0} \union InUse(g)
    <3>1. section.size - 1 \in InUse(g)
      BY <1>1, <2>1, <2>4
    <3>2. Ids \in SUBSET (0..section.size) /\ Ids # {}
      BY <1>1, <2>1, <2>3, InUseListed
    <3>3. \A id \in InUse(g) : id \in Nat /\ id < section.size
      BY <1>1, <2>3, InUseFacts
    <3>4. LastObjectID(g) = Max(Ids) + 1
      BY DEF LastObjectID
    <3> HIDE DEF Ids
    <3>5. Max(Ids) \in Ids /\ \A y \in Ids : y <= Max(Ids)
      BY <2>1, <3>2, MaxOfBounded
    <3>6. section.size - 1 \in Ids
      BY <3>1 DEF Ids
    <3>7. Max(Ids) \in Nat /\ Max(Ids) <= section.size - 1
      <4>1. CASE Max(Ids) = 0
        BY <2>1, <3>1, <3>3, <4>1
      <4>2. CASE Max(Ids) # 0
        BY <2>1, <3>3, <3>5, <4>2 DEF Ids
      <4> QED  BY <4>1, <4>2
    <3> QED  BY <2>1, <3>4, <3>5, <3>6, <3>7
  <2> QED  BY <1>1, <1>3, <2>3, <2>4 DEF SizeIsExact
<1>7. ASSUME NEW id \in InUse(g), NEW r \in RefsOf(Latest(g, id))
      PROVE  Resolves(g, r)
  <2>1. Latest(g, id) \in Object /\ r \in Ref
    BY <1>1, LatestFacts, RefsType
  <2>2. r.gen = 0 /\ r.id \in InUse(g)
    <3>1. CASE id \in S
      <4>1. PICK p \in Appended : Latest(g, id) = buf[p]
        BY <1>1, <3>1
      <4>2. RefersWithin(buf[p], InUse(doc) \union S)
        BY <1>2 DEF SectionKnown
      <4> QED  BY <1>1, <1>7, <4>1, <4>2 DEF RefersWithin
    <3>2. CASE id \notin S
      <4>1. id \in InUse(doc) /\ Latest(g, id) = Latest(doc, id)
        BY <1>1, <1>7, <3>2
      <4>2. RefersWithin(Latest(doc, id), InUse(doc))
        BY <1>2, <4>1, LatestRefers
      <4> QED  BY <1>1, <1>7, <4>1, <4>2 DEF RefersWithin
    <3> QED  BY <3>1, <3>2
  <2> QED  BY <1>1, <2>1, <2>2, ResolvesExactly
<1>8. ReferencesFound(g)
  BY <1>5, <1>7 DEF ReferencesFound
<1> QED  BY <1>1, <1>4, <1>6, <1>8 DEF WellFormed, g

\* The ids of pages, of fields that are filled and of their widgets are those that
\* the first document has for them.
RewritableKnown(f) ==
  \A p \in DOMAIN f.objs : f.objs[p].kind \in RewritableKinds => f.objs[p].id \in RewritableIds

LEMMA SignedFileRewritable ==
  ASSUME IInv, pc = "replace", WellFormed(doc), CallInv, RewritableKnown(doc)
  PROVE  RewritableKnown(SignedFile)
<1>1. /\ Allocating /\ EntriesExact(doc) /\ CoreInv /\ EntriesKnown /\ RewritesKept
      /\ doc \in File /\ Copied
  BY DEF IInv, Working, TypeOK, WellFormed, CallInv, CoreInv, Allocating
<1>2. Len(doc.objs) \in Nat /\ Len(buf) \in Nat /\ DOMAIN buf = 1..Len(buf)
      /\ DOMAIN doc.objs = 1..Len(doc.objs)
  BY <1>1, IdsApart DEF File
<1>3. SUFFICES ASSUME NEW p \in DOMAIN buf, buf[p].kind \in RewritableKinds
               PROVE  buf[p].id \in RewritableIds
  BY SignedFileAppends DEF RewritableKnown
<1>4. CASE p \in 1..Len(doc.objs)
  BY <1>1, <1>2, <1>3, <1>4 DEF Copied, RewritableKnown
<1>5. CASE p \notin 1..Len(doc.objs)
  <2>1. p \in Appended
    BY <1>2, <1>5 DEF Appended
  <2>2. buf[p].id \in InUse(doc) /\ Latest(doc, buf[p].id).kind \in RewritableKinds
    BY <1>1, <1>3, <2>1 DEF RewritesKept
  <2>3. /\ Entry(doc, buf[p].id).pos \in DOMAIN doc.objs
        /\ Latest(doc, buf[p].id).id = buf[p].id
    BY <1>1, <2>2, LatestFacts
  <2> QED  BY <2>2, <2>3 DEF Latest, RewritableKnown
<1> QED  BY <1>4, <1>5

\* What SignatureReachable says of a signed document.
SignatureFound(f) ==
  /\ Resolves(f, Trailer(f).root)
  /\ Catalog(f).kind = "Catalog"
  /\ Resolves(f, Last(Catalog(f).kids))
  /\ LET field == Deref(f, Last(Catalog(f).kids)) IN
       /\ field.kind = "Widget"
       /\ Resolves(f, Under(field, "V"))
       /\ Deref(f, Under(field, "V")).kind \in {"Sig", "DocTimeStamp"}
       /\ Under(field, "V").id \in EntryIds(Trailer(f))

LEMMA SignedFileSignature ==
  ASSUME IInv, pc = "replace", WellFormed(doc), CallInv
  PROVE  SignatureFound(SignedFile)
<1> DEFINE g == SignedFile
<1>1. /\ Trailer(g).root = New(ids.catalog)
      /\ \A id \in {ids.sig, ids.widget, ids.catalog} :
           /\ id \in EntryIds(section) /\ Resolves(g, New(id)) /\ Deref(g, New(id)) = Latest(g, id)
           /\ id \in Nat
      /\ Latest(g, ids.sig).kind = SignatureKind
      /\ IsFieldOf(Latest(g, ids.widget), ids.sig)
  BY SignedFileHolds
<1>2. /\ Catalog(g).kids = Append(Fields, New(ids.widget)) /\ Catalog(g).kind = "Catalog"
      /\ Fields \in Seq(Ref)
  BY SignedFileFields
<1>3. Trailer(g) = section
  BY SignedFileReads
<1> HIDE DEF g
<1>4. Last(Catalog(g).kids) = New(ids.widget)
  <2>1. New(ids.widget) \in Ref
    BY <1>1, NewType
  <2> QED  BY <1>2, <2>1, AppendProperties DEF Last
<1>5. /\ Deref(g, New(ids.widget)).kind = "Widget"
      /\ Under(Deref(g, New(ids.widget)), "V") = New(ids.sig)
  BY <1>1 DEF IsFieldOf
<1>6. Deref(g, New(ids.sig)).kind \in {"Sig", "DocTimeStamp"} /\ New(ids.sig).id = ids.sig
  BY <1>1 DEF SignatureKind, New
<1> QED  BY <1>1, <1>2, <1>3, <1>4, <1>5, <1>6 DEF SignatureFound, g

-----------------------------------------------------------------------------
(* The steps of a call.                                                    *)

\* A new object refers to nothing, encrypted or not.
LEMMA PlainRefers ==
  ASSUME NEW kind \in Kinds
  PROVE  /\ Plain(kind).kind = kind /\ RefsOf(Plain(kind)) = {}
         /\ \A id \in Nat :
              /\ [Plain(kind) EXCEPT !.keys = {id}].kind = kind
              /\ [Plain(kind) EXCEPT !.keys = {id}].kids = <<>>
              /\ [Plain(kind) EXCEPT !.keys = {id}].dss = <<>>
              /\ RefsOf([Plain(kind) EXCEPT !.keys = {id}]) = {}
<1> DEFINE o == Plain(kind)
<1>1. o \in Object /\ o.kind = kind /\ o.kids = <<>> /\ o.refs = {} /\ o.dss = <<>>
  BY PlainType DEF Plain
<1> HIDE DEF o
<1>2. RefsOf(o) = {}
  BY <1>1 DEF RefsOf, Range
<1>3. ASSUME NEW id \in Nat
      PROVE  /\ [o EXCEPT !.keys = {id}].kind = kind /\ [o EXCEPT !.keys = {id}].kids = <<>>
             /\ [o EXCEPT !.keys = {id}].dss = <<>> /\ RefsOf([o EXCEPT !.keys = {id}]) = {}
  <2> DEFINE keyed == [o EXCEPT !.keys = {id}]
  <2>1. keyed.kind = kind /\ keyed.kids = <<>> /\ keyed.refs = {} /\ keyed.dss = <<>>
    BY <1>1 DEF Object
  <2> HIDE DEF keyed
  <2>2. RefsOf(keyed) = {}
    BY <2>1 DEF RefsOf, Range
  <2> QED  BY <2>1, <2>2 DEF keyed
<1> QED  BY <1>1, <1>2, <1>3 DEF o

\* With references it refers to those.
LEMMA ReferringRefers ==
  ASSUME NEW o \in Object, o.kids = <<>>, o.dss = <<>>, NEW refs \in SUBSET [key: Keys, to: Ref]
  PROVE  /\ [o EXCEPT !.refs = refs].kind = o.kind
         /\ RefsOf([o EXCEPT !.refs = refs]) = {e.to : e \in refs}
<1> DEFINE referring == [o EXCEPT !.refs = refs]
<1>1. /\ referring.kind = o.kind /\ referring.refs = refs
      /\ referring.kids = <<>> /\ referring.dss = <<>>
  BY DEF Object
<1> HIDE DEF referring
<1>2. RefsOf(referring) = {e.to : e \in refs}
  BY <1>1 DEF RefsOf, Range
<1> QED  BY <1>1, <1>2 DEF referring

\* What addObject leaves to be shown of each step that calls it.
LEMMA AddKeepsCall ==
  ASSUME IInv, Working, WellFormed(doc), CallInv,
         NEW object \in Object, AddObject(object), object.kind \notin RewritableKinds,
         UNCHANGED <<doc, req, updatedXrefEntries>>, RefersWithin(object, Known'),
         \/ ids'.sig = ids.sig /\ object.kind \notin SignatureKinds
         \/ ids'.sig = NextObjectID /\ object.kind = SignatureKind /\ ids.sig = 0 /\ ids.widget = 0,
         \/ ids'.widget = ids.widget
         \/ /\ ids'.widget = NextObjectID /\ ids'.sig = ids.sig /\ ids.catalog = 0
            /\ IsFieldOf(object, ids.sig),
         \/ ids'.catalog = ids.catalog
         \/ /\ ids'.catalog = NextObjectID /\ ids'.widget = ids.widget
            /\ IsCatalogWith(object, Append(Fields, New(ids.widget)), KnownStores(doc)),
         FillKnown', IdsKnown', pc' = "replace" => SectionKnown'
  PROVE  CallInv'
<1>1. Allocating /\ EntriesExact(doc) /\ CoreInv /\ RefsKnown /\ ObjectsMade
      /\ {ids.sig, ids.widget, ids.catalog} \subseteq Allocated \union {0}
  BY DEF IInv, WellFormed, CallInv, IdsKnown
<1>2. CoreInv'
  BY <1>1, AddKeepsCore
<1>3. RefsKnown'
  BY <1>1, AddKeepsRefs
<1>4. ObjectsMade'
  BY <1>1, AddKeepsMade
<1> QED  BY <1>2, <1>3, <1>4 DEF CallInv

\* What the ids are after addObject, whatever it adds.
LEMMA AddedIds ==
  ASSUME IInv, Working, WellFormed(doc), CallInv,
         NEW object \in Object, AddObject(object), UNCHANGED <<doc, updatedXrefEntries>>
  PROVE  /\ Allocated' = Allocated \union {NextObjectID} /\ Rewritten' = Rewritten
         /\ NextObjectID \in Nat \ {0} /\ 0 \notin Allocated
         /\ object.keys \subseteq {0, NextObjectID} => NextObjectID' = NextObjectID + 1
         /\ InUse(doc') = InUse(doc)
<1>1. Allocating /\ EntriesExact(doc) /\ EntriesKnown
  BY DEF IInv, WellFormed, CallInv, CoreInv
<1>2. Allocated' = Allocated \union {NextObjectID} /\ Rewritten' = Rewritten
  BY <1>1, AddShape
<1>3. NextObjectID \in Nat \ {0} /\ 0 \notin Allocated
  BY <1>1, IdsApart, AddedType
<1>4. object.keys \subseteq {0, NextObjectID} => NextObjectID' = NextObjectID + 1
  BY <1>1, AddObjectKeepsAllocating
<1> QED  BY <1>2, <1>3, <1>4

Early == {"signature", "visual", "mask", "appearance", "widget"}

Filling == {"fill", "field", "page"}

\* What is left to fill is not disturbed by the steps that rewrite nothing.
LEMMA FillStays ==
  ASSUME FillKnown, UNCHANGED <<doc, updatedXrefEntries, todo>>,
         pc' \in Early => pc \in Early, pc' \in Filling => pc \in Early \union Filling
  PROVE  FillKnown'
<1>1. Rewritten' = Rewritten
  BY DEF Rewritten
<1>2. pc \in Early => Rewritten = {}
  BY DEF FillKnown, Early, Rewritten
<1>3. \A t \in todo' : /\ t[2] \in Matching(t[1])' /\ t[3] \in Present(t[2])'
                       /\ Target(t)'.id \notin Rewritten'
  BY <1>1 DEF FillKnown, Matching, Present, Target, Family, Fields
<1>4. pc' \in Filling => \A id \in Rewritten' : Latest(doc', id).kind # "Page"
  BY <1>1, <1>2 DEF FillKnown, Filling
<1> QED  BY <1>3, <1>4 DEF FillKnown, Early, Filling

\* Nothing is known to be wrong with an attempt that has only copied the document.
LEMMA BeginKeepsCall ==
  ASSUME IInv, BeginAttempt
  PROVE  CallInv'
<1>1. Cleared /\ doc \in File /\ Len(doc.objs) \in Nat
  BY DEF BeginAttempt, IInv, Working, TypeOK, File
<1>2. /\ buf' = doc.objs /\ doc' = doc /\ newXrefEntries' = <<>> /\ updatedXrefEntries' = <<>>
      /\ ids' = NoIds /\ todo' = {} /\ pc' = "signature"
  BY <1>1 DEF BeginAttempt, Cleared, CopiedInput
<1>3. Appended' = {} /\ Rewritten' = {}
  BY <1>1, <1>2 DEF Appended, Rewritten
<1>4. CoreInv'
  BY <1>2, <1>3 DEF CoreInv, EntriesKnown, ObjectsKnown, WrittenOnce, RewritesKept, Appended
<1>5. RefsKnown' /\ ObjectsMade'
  BY <1>3 DEF RefsKnown, ObjectsMade
<1>6. FillKnown'
  BY <1>2, <1>3 DEF FillKnown
<1>7. IdsKnown'
  BY <1>2 DEF IdsKnown, NoIds
<1> QED  BY <1>2, <1>4, <1>5, <1>6, <1>7 DEF CallInv

LEMMA SignatureKeepsCall ==
  ASSUME IInv, WellFormed(doc), CallInv, AddSignature
  PROVE  CallInv'
<1> DEFINE object == IF req.certType = "TimeStamp"
                     THEN Plain("DocTimeStamp")
                     ELSE [Plain("Sig") EXCEPT !.keys = {NextObjectID}]
<1>1. Working /\ FillKnown /\ IdsKnown
  BY DEF AddSignature, Working, CallInv
<1>2. object \in Object /\ object.kind = SignatureKind /\ RefsOf(object) = {}
  <2>1. NextObjectID \in Nat /\ "Sig" \in Kinds /\ "DocTimeStamp" \in Kinds
    BY <1>1, AddedType DEF Kinds
  <2>2. /\ Plain("DocTimeStamp") \in Object /\ Plain("DocTimeStamp").kind = "DocTimeStamp"
        /\ RefsOf(Plain("DocTimeStamp")) = {}
    BY <2>1, PlainRefers, PlainType
  <2> DEFINE sig == [Plain("Sig") EXCEPT !.keys = {NextObjectID}]
  <2>3. sig \in Object /\ sig.kind = "Sig" /\ RefsOf(sig) = {}
    BY <2>1, PlainRefers, EncryptedType
  <2> HIDE DEF sig
  <2> QED  BY <2>2, <2>3 DEF SignatureKind, sig
<1> HIDE DEF object
<1>3. AddObject(object) /\ UNCHANGED <<doc, req, updatedXrefEntries, todo>> /\ pc' = "visual"
      /\ pc = "signature" /\ ids' = [ids EXCEPT !.sig = NextObjectID] /\ ids \in IdsType
  BY <1>1, AddedType DEF AddSignature, object
<1>4. Allocated' = Allocated \union {NextObjectID} /\ NextObjectID \in Nat \ {0}
  BY <1>1, <1>2, <1>3, AddedIds
<1>5. /\ ids'.sig = NextObjectID /\ ids'.image = ids.image /\ ids'.ap = ids.ap
      /\ ids'.widget = ids.widget /\ ids'.catalog = ids.catalog /\ ids'.page = ids.page
  BY <1>3 DEF IdsType
<1>6. FillKnown'
  BY <1>1, <1>3, FillStays DEF Early, Filling
<1>7. IdsKnown'
  BY <1>1, <1>3, <1>4, <1>5 DEF IdsKnown
<1>8. /\ object.kind \notin RewritableKinds /\ RefersWithin(object, Known')
      /\ ids.sig = 0 /\ ids.widget = 0
  BY <1>1, <1>2, <1>3 DEF SignatureKind, RewritableKinds, RefersWithin, IdsKnown
<1> QED  BY <1>1, <1>2, <1>3, <1>5, <1>6, <1>7, <1>8, AddKeepsCall

LEMMA ImageKeepsCall ==
  ASSUME IInv, WellFormed(doc), CallInv, AddImage
  PROVE  CallInv'
<1> DEFINE image == [Plain("Image") EXCEPT !.keys = {NextObjectID}]
           refs == {At("SMask", New(MaskID))}
           object == IF req.image = "alpha" THEN [image EXCEPT !.refs = refs] ELSE image
<1>1. Working /\ FillKnown /\ IdsKnown
  BY DEF AddImage, Working, CallInv
<1>2. /\ object \in Object /\ object.kind = "Image"
      /\ \A r \in RefsOf(object) : req.image = "alpha" /\ r = New(MaskID)
      /\ object.keys \subseteq {0, NextObjectID}
  <2>1. NextObjectID \in Nat /\ MaskID \in Nat /\ refs \in SUBSET [key: Keys, to: Ref] /\ "Image" \in Kinds
    BY <1>1, AddedType DEF MaskID, Keys, Kinds
  <2>2. /\ image \in Object /\ image.keys = {NextObjectID} /\ image.kind = "Image"
        /\ RefsOf(image) = {} /\ image.kids = <<>> /\ image.dss = <<>>
    BY <2>1, EncryptedType, PlainRefers
  <2>3. /\ [image EXCEPT !.refs = refs] \in Object /\ [image EXCEPT !.refs = refs].kind = "Image"
        /\ RefsOf([image EXCEPT !.refs = refs]) = {e.to : e \in refs}
        /\ [image EXCEPT !.refs = refs].keys = image.keys
    <3> HIDE DEF image, refs
    <3> QED  BY <2>1, <2>2, ReferringType, ReferringRefers
  <2>4. \A r \in {e.to : e \in refs} : r = New(MaskID)
    BY DEF At
  <2> HIDE DEF image, refs
  <2> QED  BY <2>2, <2>3, <2>4
<1> HIDE DEF object
<1>3. /\ AddObject(object) /\ UNCHANGED <<doc, req, updatedXrefEntries, todo>> /\ pc = "visual"
      /\ pc' = IF req.image = "alpha" THEN "mask" ELSE "appearance"
      /\ ids' = [ids EXCEPT !.image = NextObjectID, !.mask = MaskID] /\ ids \in IdsType
  BY <1>1, AddedType DEF AddImage, object
<1>4. /\ Allocated' = Allocated \union {NextObjectID} /\ NextObjectID \in Nat \ {0}
      /\ NextObjectID' = MaskID
  BY <1>1, <1>2, <1>3, AddedIds DEF MaskID
<1>5. /\ ids'.sig = ids.sig /\ ids'.image = NextObjectID /\ ids'.ap = ids.ap
      /\ ids'.widget = ids.widget /\ ids'.catalog = ids.catalog /\ ids'.page = ids.page
  BY <1>3 DEF IdsType
<1>6. FillKnown'
  BY <1>1, <1>3, FillStays DEF Early, Filling
<1>7. IdsKnown'
  BY <1>1, <1>3, <1>4, <1>5 DEF IdsKnown
<1>8. object.kind \notin RewritableKinds \union SignatureKinds /\ RefersWithin(object, Known')
  BY <1>2, <1>3, <1>4 DEF RewritableKinds, SignatureKinds, RefersWithin, Known, New
<1> QED  BY <1>1, <1>2, <1>3, <1>5, <1>6, <1>7, <1>8, AddKeepsCall

LEMMA MaskKeepsCall ==
  ASSUME IInv, WellFormed(doc), CallInv, AddMask
  PROVE  CallInv'
<1> DEFINE object == [Plain("Mask") EXCEPT !.keys = {ids.mask}]
<1>1. Working /\ FillKnown /\ IdsKnown
  BY DEF AddMask, Working, CallInv
<1>2. object \in Object /\ object.kind = "Mask" /\ RefsOf(object) = {}
  <2>1. ids.mask \in Nat /\ "Mask" \in Kinds
    BY <1>1, AddedType DEF IdsType, Kinds
  <2> QED  BY <2>1, PlainRefers, EncryptedType
<1> HIDE DEF object
<1>3. AddObject(object) /\ UNCHANGED <<doc, req, updatedXrefEntries, todo, ids>> /\ pc' = "appearance"
      /\ pc = "mask"
  BY DEF AddMask, object
<1>4. Allocated' = Allocated \union {NextObjectID}
  BY <1>1, <1>2, <1>3, AddedIds
<1>6. FillKnown'
  BY <1>1, <1>3, FillStays DEF Early, Filling
<1>7. IdsKnown'
  BY <1>1, <1>3, <1>4 DEF IdsKnown
<1>8. object.kind \notin RewritableKinds \union SignatureKinds /\ RefersWithin(object, Known')
  BY <1>2 DEF RewritableKinds, SignatureKinds, RefersWithin
<1> QED  BY <1>1, <1>2, <1>3, <1>6, <1>7, <1>8, AddKeepsCall

LEMMA AppearanceKeepsCall ==
  ASSUME IInv, WellFormed(doc), CallInv, AddAppearance
  PROVE  CallInv'
<1> DEFINE appearance == [Plain("Appearance") EXCEPT !.keys = {NextObjectID}]
           refs == {At("XObject", New(ids.image))}
           object == IF pc = "appearance" THEN [appearance EXCEPT !.refs = refs] ELSE appearance
<1>1. Working /\ FillKnown /\ IdsKnown
  BY DEF AddAppearance, Working, CallInv
<1>2. /\ object \in Object /\ object.kind = "Appearance"
      /\ \A r \in RefsOf(object) : pc = "appearance" /\ r = New(ids.image)
  <2>1. NextObjectID \in Nat /\ refs \in SUBSET [key: Keys, to: Ref] /\ "Appearance" \in Kinds
    BY <1>1, AddedType DEF IdsType, Keys, Kinds
  <2>2. /\ appearance \in Object /\ appearance.kind = "Appearance" /\ RefsOf(appearance) = {}
        /\ appearance.kids = <<>> /\ appearance.dss = <<>>
    BY <2>1, EncryptedType, PlainRefers
  <2>3. \A r \in {e.to : e \in refs} : r = New(ids.image)
    BY DEF At
  <2> HIDE DEF appearance, refs
  <2>4. /\ [appearance EXCEPT !.refs = refs] \in Object
        /\ [appearance EXCEPT !.refs = refs].kind = "Appearance"
        /\ RefsOf([appearance EXCEPT !.refs = refs]) = {e.to : e \in refs}
    BY <2>1, <2>2, ReferringType, ReferringRefers
  <2> QED  BY <2>2, <2>3, <2>4
<1> HIDE DEF object
<1>3. /\ AddObject(object) /\ UNCHANGED <<doc, req, updatedXrefEntries, todo>>
      /\ pc \in {"visual", "appearance"} /\ pc' = "widget"
      /\ ids' = [ids EXCEPT !.ap = NextObjectID] /\ ids \in IdsType
  BY <1>1, AddedType DEF AddAppearance, object
<1>4. Allocated' = Allocated \union {NextObjectID} /\ NextObjectID \in Nat \ {0}
  BY <1>1, <1>2, <1>3, AddedIds
<1>5. /\ ids'.sig = ids.sig /\ ids'.image = ids.image /\ ids'.ap = NextObjectID
      /\ ids'.widget = ids.widget /\ ids'.catalog = ids.catalog /\ ids'.page = ids.page
  BY <1>3 DEF IdsType
<1>6. FillKnown'
  BY <1>1, <1>3, FillStays DEF Early, Filling
<1>7. IdsKnown'
  BY <1>1, <1>3, <1>4, <1>5 DEF IdsKnown
<1>8. object.kind \notin RewritableKinds \union SignatureKinds /\ RefersWithin(object, Known')
  <2>1. pc = "appearance" => ids.image \in Allocated
    BY <1>1 DEF IdsKnown
  <2> QED  BY <1>2, <1>4, <2>1 DEF RewritableKinds, SignatureKinds, RefersWithin, Known, New
<1> QED  BY <1>1, <1>2, <1>3, <1>5, <1>6, <1>7, <1>8, AddKeepsCall

\* What is chosen to be filled are fields and widgets of the document; a field that
\* is left to fill is not a page, and no two of them are one.
LEMMA TodoFacts ==
  ASSUME doc \in File, WellFormed(doc), todo \subseteq (1..2) \X Nat \X Nat, FillKnown
  PROVE  /\ \A t \in todo :
              /\ Resolves(doc, Target(t)) /\ Target(t).id \notin Rewritten
              /\ Deref(doc, Target(t)).kind \in {"Initials", "Date", "Text"}
         /\ \A t, u \in todo : Target(t).id = Target(u).id => t = u
<1>1. ASSUME NEW t \in todo
      PROVE  /\ t = <<t[1], t[2], t[3]>> /\ t[1] \in 1..2
             /\ Target(t) = FamilyOf(doc, t[2])[t[3]] /\ t[3] \in DOMAIN FamilyOf(doc, t[2])
             /\ t[2] \in Fillable(doc)
             /\ Deref(doc, Fields[t[2]]).kind = <<"Initials", "Date">>[t[1]]
             /\ Resolves(doc, Target(t)) /\ Target(t).id \notin Rewritten
  <2>1. t \in (1..2) \X Nat \X Nat
    OBVIOUS
  <2>2. t[2] \in Matching(t[1]) /\ t[3] \in Present(t[2]) /\ Target(t).id \notin Rewritten
    BY DEF FillKnown
  <2>3. t[2] \in DOMAIN Fields /\ Deref(doc, Fields[t[2]]).kind = <<"Initials", "Date">>[t[1]]
    BY <2>2 DEF Matching
  <2>4. <<"Initials", "Date">>[t[1]] \in {"Initials", "Date"}
    BY <2>1
  <2>5. Family(t[2]) = FamilyOf(doc, t[2])
    BY DEF Family, FamilyOf, Fields
  <2>6. t[2] \in Fillable(doc)
    BY <2>3, <2>4 DEF Fillable, Fields
  <2> QED  BY <2>1, <2>2, <2>3, <2>5, <2>6 DEF Present, Target
<1>2. FieldsApart(doc)
  BY DEF WellFormed
<1>3. \A t \in todo : Deref(doc, Target(t)).kind \in {"Initials", "Date", "Text"}
  BY <1>1, <1>2 DEF FieldsApart
<1>4. ASSUME NEW t \in todo, NEW u \in todo, Target(t).id = Target(u).id
      PROVE  t = u
  <2>1. t[2] = u[2] /\ t[3] = u[3]
    BY <1>1, <1>2, <1>4 DEF FieldsApart
  <2>2. <<"Initials", "Date">>[t[1]] = <<"Initials", "Date">>[u[1]] /\ t[1] \in 1..2 /\ u[1] \in 1..2
    BY <1>1, <2>1
  <2>3. t[1] = u[1]
    BY <2>2
  <2> QED  BY <1>1, <2>1, <2>3
<1> QED  BY <1>1, <1>3, <1>4

\* The field refers to the signature, to the page found and to the appearance made.
LEMMA SignatureFieldRefers ==
  ASSUME doc \in File, ids \in IdsType, NextObjectID \in Nat, NEW page \in Ref
  PROVE  /\ IsFieldOf(SignatureField(page), ids.sig)
         /\ \A r \in RefsOf(SignatureField(page)) :
              r \in {New(ids.sig), page} \/ (req.visible /\ r = New(ids.ap))
<1> DEFINE refs == {At("V", FieldValue), At("P", page)}
                     \union (IF req.visible THEN {At("AP", New(ids.ap))} ELSE {})
           o == Plain("Widget")
           field == SignatureField(page)
<1>1. o \in Object /\ o.kind = "Widget" /\ o.kids = <<>> /\ o.dss = <<>>
  BY PlainType DEF Kinds, Plain
<1>2. field = [o EXCEPT !.keys = {NextObjectID}, !.refs = refs]
  BY DEF SignatureField
<1> HIDE DEF o, field
<1>3. \A e \in refs : \/ e.key = "V" /\ e.to = New(ids.sig)
                      \/ e.key = "P" /\ e.to = page
                      \/ e.key = "AP" /\ e.to = New(ids.ap) /\ req.visible
  BY DEF At, FieldValue
<1>4. \E e \in refs : e.key = "V"
  <2>1. At("V", FieldValue) \in refs
    OBVIOUS
  <2>2. At("V", FieldValue).key = "V"
    BY DEF At
  <2> QED  BY <2>1, <2>2
<1> HIDE DEF refs
<1>5. field.kind = "Widget" /\ field.kids = <<>> /\ field.dss = <<>> /\ field.refs = refs
  BY <1>1, <1>2 DEF Object
<1>6. RefsOf(field) = {e.to : e \in refs}
  BY <1>5 DEF RefsOf, Range
<1>7. Under(field, "V") = New(ids.sig)
  <2>1. Under(field, "V") = (CHOOSE e \in refs : e.key = "V").to
    BY <1>4, <1>5 DEF Under, HasKey
  <2>2. (CHOOSE e \in refs : e.key = "V") \in refs /\ (CHOOSE e \in refs : e.key = "V").key = "V"
    BY <1>4
  <2> QED  BY <1>3, <2>1, <2>2
<1> QED  BY <1>3, <1>5, <1>6, <1>7 DEF IsFieldOf, field

LEMMA WidgetKeepsCall ==
  ASSUME IInv, WellFormed(doc), CallInv, AddWidget
  PROVE  CallInv'
<1>1. /\ Working /\ FillKnown /\ IdsKnown /\ doc \in File /\ EntriesExact(doc) /\ ids \in IdsType
      /\ NextObjectID \in Nat \ {0}
  <2>1. Working
    BY DEF AddWidget, Working
  <2> QED  BY <2>1, AddedType DEF CallInv, WellFormed
<1>2. PICK i \in DOMAIN PageTree(doc) :
        /\ IsPage(doc, req.page, i)
        /\ AddObject(SignatureField(PageTree(doc)[i]))
        /\ ids' = [ids EXCEPT !.widget = NextObjectID, !.page = PageTree(doc)[i], !.ap = 0]
  BY DEF AddWidget
<1> DEFINE page == PageTree(doc)[i]
           object == SignatureField(page)
<1>3. page \in Ref /\ Deref(doc, page).kind = "Page"
  <2>1. PageTree(doc) \in Seq(Ref)
    BY <1>1, DerefType DEF PageTree, Object
  <2> QED  BY <1>2, <2>1 DEF IsPage
<1>4. Resolves(doc, page) /\ page.gen = 0 /\ page.id \in InUse(doc)
  <2>1. Resolves(doc, page)
    BY <1>3 DEF Deref, Null
  <2> QED  BY <1>1, <1>3, <2>1, ResolvesExactly
<1>5. object \in Object /\ object.kind = "Widget" /\ IsFieldOf(object, ids.sig)
  BY <1>1, <1>3, SignatureFieldType, SignatureFieldRefers DEF IsFieldOf
<1>6. /\ AddObject(object) /\ UNCHANGED <<doc, req, updatedXrefEntries>> /\ pc' = "fill"
      /\ \/ pc = "widget"
         \/ pc = "visual" /\ ~req.visible
      /\ todo' = IF req.fill THEN FillTargets ELSE {}
  BY <1>2 DEF AddWidget
<1> HIDE DEF page, object
<1>7. /\ Allocated' = Allocated \union {NextObjectID} /\ Rewritten' = Rewritten
  BY <1>1, <1>5, <1>6, AddedIds
<1>8. /\ ids'.sig = ids.sig /\ ids'.image = ids.image /\ ids'.ap = 0
      /\ ids'.widget = NextObjectID /\ ids'.catalog = ids.catalog /\ ids'.page = page
  BY <1>1, <1>2 DEF IdsType, page
<1>9. Rewritten = {}
  BY <1>1, <1>6 DEF FillKnown, Rewritten
<1>10. FillKnown'
  <2>1. ASSUME NEW t \in FillTargets
        PROVE  t[2] \in Matching(t[1]) /\ t[3] \in Present(t[2])
    <3>1. PICK pass \in 1..2 : t \in UNION {{<<pass, j, k>> : k \in Present(j)} : j \in Matching(pass)}
      BY <2>1 DEF FillTargets
    <3>2. PICK j \in Matching(pass) : t \in {<<pass, j, k>> : k \in Present(j)}
      BY <3>1
    <3>3. PICK k \in Present(j) : t = <<pass, j, k>>
      BY <3>2
    <3> QED  BY <3>3
  <2>2. \A t \in todo' : t[2] \in Matching(t[1])' /\ t[3] \in Present(t[2])'
    BY <1>6, <2>1 DEF Matching, Present, Family, Fields
  <2> QED  BY <1>6, <1>7, <1>9, <2>2 DEF FillKnown
<1>11. IdsKnown'
  BY <1>1, <1>3, <1>4, <1>6, <1>7, <1>8 DEF IdsKnown
<1>12. /\ object.kind \notin RewritableKinds \union SignatureKinds
       /\ RefersWithin(object, Known') /\ ids.catalog = 0
  <2>1. {ids.sig} \subseteq Allocated /\ (req.visible => ids.ap \in Allocated) /\ ids.catalog = 0
    BY <1>1, <1>6 DEF IdsKnown
  <2>2. \A r \in RefsOf(object) : r \in {New(ids.sig), page} \/ (req.visible /\ r = New(ids.ap))
    BY <1>1, <1>3, SignatureFieldRefers DEF object
  <2> QED  BY <1>4, <1>5, <1>6, <1>7, <2>1, <2>2 DEF RewritableKinds, SignatureKinds, RefersWithin, Known, New
<1> QED  BY <1>1, <1>5, <1>6, <1>8, <1>10, <1>11, <1>12, AddKeepsCall

LEMMA FieldAppearanceKeepsCall ==
  ASSUME IInv, WellFormed(doc), CallInv, AddFieldAppearance
  PROVE  CallInv'
<1> DEFINE object == [Plain("Appearance") EXCEPT !.keys = {NextObjectID}]
<1>1. Working /\ FillKnown /\ IdsKnown
  BY DEF AddFieldAppearance, Working, CallInv
<1>2. object \in Object /\ object.kind = "Appearance" /\ RefsOf(object) = {}
  <2>1. NextObjectID \in Nat /\ "Appearance" \in Kinds
    BY <1>1, AddedType DEF Kinds
  <2> QED  BY <2>1, PlainRefers, EncryptedType
<1> HIDE DEF object
<1>3. /\ AddObject(object) /\ UNCHANGED <<doc, req, updatedXrefEntries, todo>> /\ pc = "fill" /\ pc' = "field"
      /\ ids' = [ids EXCEPT !.ap = NextObjectID] /\ ids \in IdsType
  BY <1>1, AddedType DEF AddFieldAppearance, object
<1>4. Allocated' = Allocated \union {NextObjectID} /\ NextObjectID \in Nat \ {0}
  BY <1>1, <1>2, <1>3, AddedIds
<1>5. /\ ids'.sig = ids.sig /\ ids'.image = ids.image /\ ids'.ap = NextObjectID
      /\ ids'.widget = ids.widget /\ ids'.catalog = ids.catalog /\ ids'.page = ids.page
  BY <1>3 DEF IdsType
<1>6. FillKnown'
  BY <1>1, <1>3, FillStays DEF Early, Filling
<1>7. IdsKnown'
  BY <1>1, <1>3, <1>4, <1>5 DEF IdsKnown
<1>8. object.kind \notin RewritableKinds \union SignatureKinds /\ RefersWithin(object, Known')
  BY <1>2 DEF RewritableKinds, SignatureKinds, RefersWithin
<1> QED  BY <1>1, <1>2, <1>3, <1>5, <1>6, <1>7, <1>8, AddKeepsCall

\* The steps that write nothing leave everything as it was.
LEMMA StayKeepsCall ==
  ASSUME CallInv, UNCHANGED <<doc, req, context>>, pc \in Filling, pc' \in Filling \union {"catalog"}
  PROVE  CallInv'
<1>1. /\ Appended' = Appended /\ Rewritten' = Rewritten /\ Allocated' = Allocated
      /\ buf' = buf /\ ids' = ids /\ doc' = doc /\ updatedXrefEntries' = updatedXrefEntries
      /\ newXrefEntries' = newXrefEntries /\ todo' = todo /\ Fields' = Fields
      /\ SignatureKind' = SignatureKind
  BY DEF context, Appended, Rewritten, Allocated, Fields, SignatureKind
<1>2. CoreInv'
  BY <1>1 DEF CallInv, CoreInv, EntriesKnown, ObjectsKnown, WrittenOnce, RewritesKept
<1>3. RefsKnown'
  BY <1>1 DEF CallInv, RefsKnown, Known, Filling
<1>4. FillKnown'
  BY <1>1, FillStays DEF CallInv, Early, Filling
<1>5. IdsKnown' /\ ObjectsMade'
  BY <1>1 DEF CallInv, IdsKnown, ObjectsMade, Filling
<1> QED  BY <1>2, <1>3, <1>4, <1>5 DEF CallInv, Filling

LEMMA FieldKeepsCall ==
  ASSUME IInv, WellFormed(doc), CallInv, UpdateField
  PROVE  CallInv'
<1>1. /\ Working /\ Allocating /\ EntriesExact(doc) /\ CoreInv /\ RefsKnown /\ ObjectsMade /\ FillKnown
      /\ IdsKnown /\ updatedXrefEntries \in Seq(XrefEntry)
      /\ doc \in File /\ ids \in IdsType /\ todo \subseteq (1..2) \X Nat \X Nat /\ TodoInFields
  BY AddedType DEF UpdateField, Working, IInv, TypeOK, WellFormed, CallInv, IdsType
<1>2. PICK t \in todo : UpdateObject(Target(t).id, FilledField(Target(t))) /\ todo' = todo \ {t}
  BY DEF UpdateField
<1> DEFINE r == Target(t)
           id == r.id
           object == FilledField(r)
<1>3. /\ r \in Ref /\ Resolves(doc, r) /\ id \notin Rewritten
      /\ Deref(doc, r).kind \in {"Initials", "Date", "Text"}
      /\ \A u \in todo : Target(u).id = id => u = t
  BY <1>1, TargetType, TodoFacts
<1>4. id \in InUse(doc) /\ Deref(doc, r) = Latest(doc, id)
  BY <1>1, <1>3, ResolvesExactly
<1>5. /\ object \in Object /\ object.kind = Latest(doc, id).kind /\ object.kids = Latest(doc, id).kids
      /\ RefersWithin(object, InUse(doc) \union Allocated)
  <2>1. ids.ap \in Allocated \union {0}
    BY <1>1 DEF IdsKnown
  <2> QED  BY <1>1, <1>3, <2>1, FilledFieldType, FilledFieldKeeps
<1>6. /\ UpdateObject(id, object) /\ UNCHANGED <<doc, req, lastXrefID, newXrefEntries>>
      /\ pc = "field" /\ pc' = "fill" /\ ids' = [ids EXCEPT !.ap = 0]
  BY <1>2 DEF UpdateField
<1> HIDE DEF r, id, object
<1>7. /\ ids'.sig = ids.sig /\ ids'.image = ids.image /\ ids'.ap = 0
      /\ ids'.widget = ids.widget /\ ids'.catalog = ids.catalog /\ ids'.page = ids.page
  BY <1>1, <1>6 DEF IdsType
<1>8. {ids.sig, ids.widget, ids.catalog} \subseteq Allocated \union {0}
  BY <1>1 DEF IdsKnown
<1>9. CoreInv' /\ RefsKnown' /\ ObjectsMade'
  BY <1>1, <1>3, <1>4, <1>5, <1>6, <1>7, <1>8, UpdateKeeps DEF RewritableKinds
<1>10. Allocated' = Allocated /\ Rewritten' = Rewritten \union {id}
  <2>1. id \in Nat
    BY <1>1, <1>4, InUseFacts
  <2> QED  BY <1>1, <1>5, <1>6, <2>1, UpdateShape DEF CoreInv
<1>11. FillKnown'
  <2>1. ASSUME NEW u \in todo'
        PROVE  u[2] \in Matching(u[1])' /\ u[3] \in Present(u[2])' /\ Target(u)'.id \notin Rewritten'
    <3>1. u \in todo /\ u # t
      BY <1>2
    <3>2. u[2] \in Matching(u[1]) /\ u[3] \in Present(u[2]) /\ Target(u).id \notin Rewritten \union {id}
      BY <1>1, <1>3, <3>1 DEF FillKnown
    <3> QED  BY <1>6, <1>10, <3>2 DEF Matching, Present, Target, Family, Fields
  <2>2. \A x \in Rewritten' : Latest(doc', x).kind # "Page"
    BY <1>1, <1>3, <1>4, <1>6, <1>10 DEF FillKnown
  <2> QED  BY <1>6, <2>1, <2>2 DEF FillKnown
<1>12. IdsKnown'
  BY <1>1, <1>6, <1>7, <1>10 DEF IdsKnown
<1> QED  BY <1>6, <1>9, <1>11, <1>12 DEF CallInv

LEMMA PageKeepsCall ==
  ASSUME IInv, WellFormed(doc), CallInv, UpdatePage
  PROVE  CallInv'
<1>1. /\ Working /\ Allocating /\ EntriesExact(doc) /\ CoreInv /\ RefsKnown /\ ObjectsMade /\ FillKnown
      /\ IdsKnown /\ updatedXrefEntries \in Seq(XrefEntry)
      /\ doc \in File /\ ids \in IdsType /\ todo \subseteq (1..2) \X Nat \X Nat
  BY AddedType DEF UpdatePage, Working, IInv, TypeOK, WellFormed, CallInv, IdsType
<1> DEFINE id == ids.page.id
<1>2. /\ UpdateObject(id, UpdatedPage) /\ UNCHANGED <<doc, req, lastXrefID, newXrefEntries, ids, todo>>
      /\ pc = "page" /\ pc' = "catalog"
  BY DEF UpdatePage
<1>3. /\ Resolves(doc, ids.page) /\ ids.page \in Ref /\ ids.widget \in Allocated
      /\ Deref(doc, ids.page).kind = "Page"
      /\ {ids.sig, ids.widget, ids.catalog} \subseteq Allocated \union {0}
  BY <1>1, <1>2 DEF IdsKnown, IdsType
<1>4. id \in InUse(doc) /\ Deref(doc, ids.page) = Latest(doc, id)
  BY <1>1, <1>3, ResolvesExactly
<1>5. id \notin Rewritten
  BY <1>1, <1>2, <1>3, <1>4 DEF FillKnown
<1>6. /\ UpdatedPage \in Object /\ UpdatedPage.kind = "Page"
      /\ RefersWithin(UpdatedPage, InUse(doc) \union Allocated)
  BY <1>1, <1>3, <1>4, UpdatedPageType, UpdatedPageKeeps
<1>7. id \in Nat
  BY <1>1, <1>4, InUseFacts
<1> HIDE DEF id
<1>8. CoreInv' /\ RefsKnown' /\ ObjectsMade'
  BY <1>1, <1>2, <1>3, <1>4, <1>5, <1>6, UpdateKeeps DEF RewritableKinds
<1>9. Allocated' = Allocated /\ Rewritten' = Rewritten \union {id}
  BY <1>1, <1>2, <1>6, <1>7, UpdateShape DEF CoreInv
<1>10. FillKnown'
  <2>1. ASSUME NEW u \in todo'
        PROVE  u[2] \in Matching(u[1])' /\ u[3] \in Present(u[2])' /\ Target(u)'.id \notin Rewritten'
    <3>1. u \in todo
      BY <1>2
    <3>2. u[2] \in Matching(u[1]) /\ u[3] \in Present(u[2]) /\ Target(u).id \notin Rewritten
      BY <1>1, <3>1 DEF FillKnown
    <3>3. Target(u).id # id
      <4>1. Resolves(doc, Target(u)) /\ Deref(doc, Target(u)).kind \in {"Initials", "Date", "Text"}
        BY <1>1, <3>1, TodoFacts
      <4>2. Target(u) \in Ref
        BY <1>1, <3>1, TargetType DEF IInv
      <4>3. Deref(doc, Target(u)) = Latest(doc, Target(u).id)
        BY <1>1, <4>1, <4>2, ResolvesExactly
      <4> QED  BY <1>3, <1>4, <4>1, <4>3
    <3> QED  BY <1>2, <1>9, <3>2, <3>3 DEF Matching, Present, Target, Family, Fields
  <2> QED  BY <1>2, <2>1 DEF FillKnown
<1>11. IdsKnown'
  BY <1>1, <1>2, <1>9 DEF IdsKnown
<1> QED  BY <1>2, <1>8, <1>10, <1>11 DEF CallInv

LEMMA CatalogKeepsCall ==
  ASSUME IInv, WellFormed(doc), CallInv, AddCatalog
  PROVE  CallInv'
<1>1. /\ Working /\ Allocating /\ CoreInv /\ FillKnown /\ IdsKnown /\ ids \in IdsType
      /\ NextObjectID \in Nat \ {0}
  <2>1. Working
    BY DEF AddCatalog, Working
  <2> QED  BY <2>1, AddedType DEF CallInv, IInv
<1>2. /\ AddObject(NewCatalog) /\ UNCHANGED <<doc, req, updatedXrefEntries, todo>>
      /\ pc = "catalog" /\ pc' = "xref" /\ ids' = [ids EXCEPT !.catalog = NextObjectID]
  BY DEF AddCatalog
<1>3. ids.widget \in Allocated /\ ids.catalog = 0
  BY <1>1, <1>2 DEF IdsKnown
<1>4. /\ NewCatalog \in Object /\ IsCatalogWith(NewCatalog, Append(Fields, New(ids.widget)), KnownStores(doc))
      /\ RefersWithin(NewCatalog, InUse(doc) \union Allocated)
  BY <1>1, <1>3, NewCatalogType, NewCatalogKeeps, AddedType DEF IInv
<1>5. Allocated' = Allocated \union {NextObjectID}
  BY <1>1, <1>2, <1>4, AddedIds
<1>6. /\ ids'.sig = ids.sig /\ ids'.image = ids.image /\ ids'.ap = ids.ap
      /\ ids'.widget = ids.widget /\ ids'.catalog = NextObjectID /\ ids'.page = ids.page
  BY <1>1, <1>2 DEF IdsType
<1>7. FillKnown'
  BY <1>1, <1>2, FillStays DEF Early, Filling
<1>8. IdsKnown'
  BY <1>1, <1>2, <1>5, <1>6 DEF IdsKnown
<1>9. /\ NewCatalog.kind \notin RewritableKinds \union SignatureKinds
      /\ RefersWithin(NewCatalog, Known')
  BY <1>2, <1>4, <1>5 DEF IsCatalogWith, RewritableKinds, SignatureKinds, RefersWithin, Known
<1> QED  BY <1>1, <1>2, <1>4, <1>6, <1>7, <1>8, <1>9, AddKeepsCall

\* The section of a table repeats the old trailer, whose /Size is the item count.
LEMMA TableKeepsCall ==
  ASSUME IInv, WellFormed(doc), CallInv, WriteXrefTable
  PROVE  CallInv'
<1>1. /\ doc.xref = "table" /\ pc = "xref" /\ pc' = "replace" /\ doc' = doc
      /\ UNCHANGED <<req, newXrefEntries, updatedXrefEntries, buf, ids, todo>>
  BY DEF WriteXrefTable
<1>2. section' = NewSection(NewSize)
  <2>1. Trailer(doc).size = ItemCount(doc)
    BY ItemCountIsSize DEF IInv, TypeOK
  <2> QED  BY <2>1 DEF WriteXrefTable
<1>3. SectionKnown'
  BY <1>1, <1>2, SectionMade
<1>4. Appended' = Appended /\ Rewritten' = Rewritten /\ Allocated' = Allocated /\ Fields' = Fields
      /\ SignatureKind' = SignatureKind
  BY <1>1 DEF Appended, Rewritten, Allocated, Fields, SignatureKind
<1>5. CoreInv' /\ RefsKnown' /\ ObjectsMade' /\ IdsKnown'
  <2>1. CoreInv'
    BY <1>1, <1>4 DEF CallInv, CoreInv, EntriesKnown, ObjectsKnown, WrittenOnce, RewritesKept
  <2>2. RefsKnown'
    BY <1>1, <1>4 DEF CallInv, RefsKnown, Known
  <2>3. IdsKnown' /\ ObjectsMade'
    BY <1>1, <1>4 DEF CallInv, IdsKnown, ObjectsMade
  <2> QED  BY <2>1, <2>2, <2>3
<1>6. FillKnown'
  BY <1>1, FillStays DEF CallInv, Early, Filling
<1> QED  BY <1>3, <1>5, <1>6 DEF CallInv

LEMMA StreamKeepsCall ==
  ASSUME IInv, WellFormed(doc), CallInv, WriteXrefStream
  PROVE  CallInv'
<1>1. Working /\ FillKnown /\ IdsKnown
  BY DEF WriteXrefStream, Working, CallInv
<1>2. /\ doc.xref = "stream" /\ pc = "xref" /\ pc' = "replace"
      /\ UNCHANGED <<doc, req, updatedXrefEntries, ids, todo>>
      /\ section' = NewSection(NewSize) /\ AddObject(Plain("XRef"))
  BY DEF WriteXrefStream
<1>3. /\ Plain("XRef") \in Object /\ Plain("XRef").kind = "XRef" /\ RefsOf(Plain("XRef")) = {}
  BY PlainType, PlainRefers DEF Kinds
<1>4. SectionKnown'
  BY <1>2, SectionMade
<1>5. Allocated' = Allocated \union {NextObjectID}
  BY <1>1, <1>2, <1>3, AddedIds
<1>6. FillKnown'
  BY <1>1, <1>2, FillStays DEF Early, Filling
<1>7. IdsKnown'
  BY <1>1, <1>2, <1>5 DEF IdsKnown
<1>8. /\ Plain("XRef").kind \notin RewritableKinds \union SignatureKinds
      /\ RefersWithin(Plain("XRef"), Known')
  BY <1>3 DEF RewritableKinds, SignatureKinds, RefersWithin
<1> QED  BY <1>1, <1>2, <1>3, <1>4, <1>6, <1>7, <1>8, AddKeepsCall

-----------------------------------------------------------------------------
(* The invariant holds.                                                    *)

\* The document is one that may be signed, and what a call has done so far is known.
SoundInv ==
  /\ WellFormed(doc) /\ RewritableKnown(doc)
  /\ Working => CallInv

FileInv == SoundInv /\ (doc \notin InputFiles => SignatureFound(doc))

\* A document that the first call may be given has only the ids that it has.
LEMMA InitFileInv ==
  ASSUME InputsWellFormed, Init
  PROVE  FileInv
<1>1. doc \in InputFiles /\ doc \in File /\ ~Working
  BY InputFilesAssumption DEF Init, Working
<1>2. RewritableKnown(doc)
  <2> SUFFICES ASSUME NEW p \in DOMAIN doc.objs, doc.objs[p].kind \in RewritableKinds
               PROVE  doc.objs[p].id \in RewritableIds
    BY DEF RewritableKnown
  <2> DEFINE all == UNION {Range(f.objs) : f \in InputFiles}
             o == doc.objs[p]
  <2>1. o \in Range(doc.objs)
    BY DEF Range
  <2>2. o \in all
    BY <1>1, <2>1
  <2> HIDE DEF all, o
  <2>3. o \in {x \in all : x.kind \in {"Page", "Initials", "Date", "Text"}}
    BY <2>2 DEF RewritableKinds, o
  <2> QED  BY <2>3 DEF RewritableIds, all, o
<1> QED  BY <1>1, <1>2 DEF FileInv, SoundInv, InputsWellFormed

\* Whatever a call does before it delivers, the document stays what it was.
LEMMA CallKeepsSound ==
  ASSUME SoundInv, UNCHANGED doc, Working' => CallInv'
  PROVE  SoundInv'
<1>1. RewritableKnown(doc') /\ WellFormed(doc')
  BY DEF SoundInv
<1> QED  BY <1>1 DEF SoundInv

LEMMA StepSoundInv == IInv /\ SoundInv /\ [Next]_vars => SoundInv'
<1> SUFFICES ASSUME IInv, SoundInv, [Next]_vars PROVE SoundInv'
  OBVIOUS
<1>1. WellFormed(doc) /\ RewritableKnown(doc) /\ (Working => CallInv)
  BY DEF SoundInv
<1>2. CASE UNCHANGED vars
  <2>1. /\ Appended' = Appended /\ Rewritten' = Rewritten /\ Allocated' = Allocated
        /\ Fields' = Fields /\ NextObjectID' = NextObjectID /\ SignatureKind' = SignatureKind
    BY <1>2 DEF vars, context, Appended, Rewritten, Allocated, Fields, NextObjectID, LastID, SignatureKind
  <2>2. CoreInv => CoreInv'
    BY <1>2, <2>1 DEF vars, context, CoreInv, EntriesKnown, ObjectsKnown, WrittenOnce, RewritesKept
  <2>3. (RefsKnown => RefsKnown') /\ (IdsKnown => IdsKnown') /\ (ObjectsMade => ObjectsMade')
    BY <1>2, <2>1 DEF vars, context, RefsKnown, Known, IdsKnown, ObjectsMade
  <2>4. FillKnown => FillKnown'
    BY <1>2, FillStays DEF vars, context
  <2>5. SectionKnown => SectionKnown'
    BY <1>2, <2>1 DEF vars, context, SectionKnown
  <2>6. CallInv => CallInv'
    BY <1>2, <2>2, <2>3, <2>4, <2>5 DEF vars, CallInv
  <2>7. doc' = doc /\ (Working' <=> Working)
    BY <1>2 DEF vars, Working
  <2> QED  BY <1>1, <2>6, <2>7, CallKeepsSound
<1>3. CASE \/ \E r \in Requests : StartSign(r)
           \/ EnvironmentError \/ GiveUp \/ RejectVisible \/ PageMissing \/ SignatureTooLong
  <2>1. doc' = doc /\ ~Working'
    BY <1>3 DEF StartSign, EnvironmentError, GiveUp, RejectVisible, PageMissing, SignatureTooLong,
                ReturnError, Working
  <2> QED  BY <2>1, CallKeepsSound
<1>4. CASE BeginAttempt
  <2>1. doc' = doc
    BY <1>4 DEF BeginAttempt
  <2> QED  BY <1>4, <2>1, BeginKeepsCall, CallKeepsSound
<1>5. CASE AddSignature \/ AddImage \/ AddMask \/ AddAppearance \/ AddWidget \/ AddFieldAppearance
  <2>1. Working /\ doc' = doc
    BY <1>5 DEF AddSignature, AddImage, AddMask, AddAppearance, AddWidget, AddFieldAppearance, Working
  <2>2. CallInv'
    BY <1>1, <1>5, <2>1, SignatureKeepsCall, ImageKeepsCall, MaskKeepsCall, AppearanceKeepsCall,
       WidgetKeepsCall, FieldAppearanceKeepsCall
  <2> QED  BY <2>1, <2>2, CallKeepsSound
<1>6. CASE SkipFieldAppearance \/ FieldsFilled
  <2>1. /\ Working /\ UNCHANGED <<doc, req, context>> /\ pc \in Filling
        /\ pc' \in Filling \union {"catalog"}
    BY <1>6 DEF SkipFieldAppearance, FieldsFilled, Working, Filling
  <2>2. CallInv'
    BY <1>1, <2>1, StayKeepsCall
  <2> QED  BY <2>1, <2>2, CallKeepsSound
<1>7. CASE UpdateField \/ UpdatePage \/ AddCatalog \/ WriteXrefTable \/ WriteXrefStream
  <2>1. Working /\ doc' = doc
    BY <1>7 DEF UpdateField, UpdatePage, AddCatalog, WriteXrefTable, WriteXrefStream, Working
  <2>2. CallInv'
    BY <1>1, <1>7, <2>1, FieldKeepsCall, PageKeepsCall, CatalogKeepsCall, TableKeepsCall,
       StreamKeepsCall
  <2> QED  BY <2>1, <2>2, CallKeepsSound
<1>8. CASE ReplaceSignature
  <2>1. pc = "replace" /\ Working /\ doc' = SignedFile /\ ~Working'
    BY <1>8 DEF ReplaceSignature, Working
  <2>2. WellFormed(SignedFile) /\ RewritableKnown(SignedFile)
    BY <1>1, <2>1, SignedFileWellFormed, SignedFileRewritable
  <2>3. RewritableKnown(doc')
    BY <2>1, <2>2
  <2> QED  BY <2>1, <2>2, <2>3 DEF SoundInv
<1> QED
  BY <1>2, <1>3, <1>4, <1>5, <1>6, <1>7, <1>8 DEF Next, Step

\* The document changes only when a signature is delivered.
LEMMA DocumentChanges ==
  ASSUME [Next]_vars
  PROVE  UNCHANGED doc \/ ReplaceSignature
BY DEF Next, Step, vars, StartSign, ReturnError, EnvironmentError, GiveUp, BeginAttempt,
       AddSignature, RejectVisible, AddImage, AddMask, AddAppearance, PageMissing,
       AddWidget, AddFieldAppearance, SkipFieldAppearance, UpdateField, FieldsFilled,
       UpdatePage, AddCatalog, WriteXrefTable, WriteXrefStream, SignatureTooLong

LEMMA StepFileInv == IInv /\ FileInv /\ [Next]_vars => FileInv'
<1> SUFFICES ASSUME IInv, FileInv, [Next]_vars PROVE FileInv'
  OBVIOUS
<1>1. SoundInv'
  BY StepSoundInv DEF FileInv
<1>2. CASE UNCHANGED doc
  <2>1. doc' \notin InputFiles => SignatureFound(doc')
    BY <1>2 DEF FileInv
  <2> QED  BY <1>1, <2>1 DEF FileInv
<1>3. CASE ReplaceSignature
  <2>1. pc = "replace" /\ Working /\ doc' = SignedFile
    BY <1>3 DEF ReplaceSignature, Working
  <2>2. SignatureFound(doc')
    BY <2>1, SignedFileSignature DEF FileInv, SoundInv
  <2> QED  BY <1>1, <2>2 DEF FileInv
<1> QED  BY <1>2, <1>3, DocumentChanges

LEMMA SpecFileInv == InputsWellFormed => (Spec => [](IInv /\ FileInv))
<1> SUFFICES ASSUME InputsWellFormed
             PROVE  Spec => [](IInv /\ FileInv)
  OBVIOUS
<1>1. Init => IInv /\ FileInv
  BY InitIInv, InitFileInv
<1>2. (IInv /\ FileInv) /\ [Next]_vars => (IInv /\ FileInv)'
  BY StepIInv, StepFileInv
<1> QED  BY <1>1, <1>2, PTL DEF Spec

-----------------------------------------------------------------------------
(* What follows from it.                                                   *)

\* No revision holds two objects of one id: what was predicted and what is filled
\* never meet, and neither do a field, its widgets and the page.
THEOREM WrittenOnlyOnce == InputsWellFormed => (Spec => []WrittenOnce)
<1>1. IInv /\ FileInv => WrittenOnce
  <2> SUFFICES ASSUME IInv, FileInv PROVE WrittenOnce
    OBVIOUS
  <2>1. CASE Working
    BY <2>1 DEF FileInv, SoundInv, CallInv, CoreInv
  <2>2. CASE ~Working
    <3>1. buf = <<>> /\ doc \in File
      BY <2>2 DEF IInv, Cleared, TypeOK
    <3>2. Len(doc.objs) \in Nat /\ Len(buf) = 0
      BY <3>1 DEF File
    <3> QED  BY <3>2 DEF WrittenOnce
  <2> QED  BY <2>1, <2>2
<1> QED  BY <1>1, SpecFileInv, PTL

\* A reader of a well-formed document finds all of its last section, and whatever the
\* objects in use refer to.
LEMMA WellFormedReads ==
  ASSUME doc \in File, WellFormed(doc)
  PROVE  SizeCoversEntries /\ ReferencesResolve
<1>1. ASSUME NEW id \in EntryIds(Trailer(doc))
      PROVE  id < Trailer(doc).size
  <2>1. Len(doc.sections) \in DOMAIN doc.sections
    BY DEF File
  <2>2. id \in ListedIds(doc)
    BY <2>1 DEF ListedIds, Trailer
  <2> QED  BY <2>2 DEF WellFormed, SizeIsExact
<1>2. ReferencesResolve
  BY DEF WellFormed, ReferencesFound, Latest, ReferencesResolve
<1> QED  BY <1>1, <1>2 DEF SizeCoversEntries

\* However often a document is signed, its trailer's /Size is above every id that
\* the last section lists, so that the reader cuts nothing of the signature off.
THEOREM SizeAlwaysCovers == InputsWellFormed => (Spec => []SizeCoversEntries)
<1>1. IInv /\ FileInv => SizeCoversEntries
  BY WellFormedReads DEF IInv, TypeOK, FileInv, SoundInv
<1> QED  BY <1>1, SpecFileInv, PTL

\* Whatever is in use of a document that was signed any number of times refers to
\* nothing that is not there.
THEOREM ReferencesAlwaysResolve == InputsWellFormed => (Spec => []ReferencesResolve)
<1>1. IInv /\ FileInv => ReferencesResolve
  BY WellFormedReads DEF IInv, TypeOK, FileInv, SoundInv
<1> QED  BY <1>1, SpecFileInv, PTL

\* The newest field of a signed document is the signature field, and its /V the
\* signature that the same revision holds.
THEOREM SignatureIsReachable == InputsWellFormed => (Spec => []SignatureReachable)
<1>1. IInv /\ FileInv => SignatureReachable
  BY DEF FileInv, SignatureFound, SignatureReachable
<1> QED  BY <1>1, SpecFileInv, PTL

-----------------------------------------------------------------------------
(* The document implements IncrementalFile.                                *)

\* The objects in use, and the ids of the fields, as IncrementalFile sees them.
LiveOf(f) == {[id |-> id, pos |-> Entry(f, id).pos] : id \in InUse(f)}

FieldIdsOf(f) == [i \in DOMAIN Catalog(f).kids |-> Catalog(f).kids[i].id]

\* What a revision, or several, may change of what is in use.
KeepsLive(f, g, rewritten) ==
  /\ InUse(f) \subseteq InUse(g)
  /\ \A id \in InUse(f) : Entry(g, id).pos # Entry(f, id).pos => id \in rewritten
  /\ \A id \in InUse(g) : \/ id \in InUse(f) /\ Entry(g, id).pos = Entry(f, id).pos
                          \/ Entry(g, id).pos \in (Len(f.objs) + 1)..Len(g.objs)

LEMMA LiveIdsOf ==
  ASSUME NEW f
  PROVE  {o.id : o \in LiveOf(f)} = InUse(f)
<1>1. \A id \in InUse(f) : [id |-> id, pos |-> Entry(f, id).pos] \in LiveOf(f)
  BY DEF LiveOf
<1>2. \A o \in LiveOf(f) : o.id \in InUse(f)
  BY DEF LiveOf
<1>3. \A id \in InUse(f) : \E o \in LiveOf(f) : o.id = id
  <2> TAKE id \in InUse(f)
  <2>1. [id |-> id, pos |-> Entry(f, id).pos].id = id
    OBVIOUS
  <2> QED  BY <1>1, <2>1
<1> QED  BY <1>2, <1>3

LEMMA LiveKept ==
  ASSUME NEW f, NEW g, NEW rewritten, KeepsLive(f, g, rewritten)
  PROVE  /\ {o.id : o \in LiveOf(f) \ LiveOf(g)} \subseteq rewritten
         /\ \A o \in LiveOf(g) \ LiveOf(f) : o.pos \in (Len(f.objs) + 1)..Len(g.objs)
<1>1. ASSUME NEW o \in LiveOf(f), o \notin LiveOf(g)
      PROVE  o.id \in rewritten
  <2>1. PICK id \in InUse(f) : o = [id |-> id, pos |-> Entry(f, id).pos]
    BY DEF LiveOf
  <2>2. id \in InUse(g)
    BY DEF KeepsLive
  <2>3. [id |-> id, pos |-> Entry(g, id).pos] \in LiveOf(g)
    BY <2>2 DEF LiveOf
  <2>4. Entry(g, id).pos # Entry(f, id).pos
    BY <1>1, <2>1, <2>3
  <2> QED  BY <2>1, <2>4 DEF KeepsLive
<1>2. ASSUME NEW o \in LiveOf(g), o \notin LiveOf(f)
      PROVE  o.pos \in (Len(f.objs) + 1)..Len(g.objs)
  <2>1. PICK id \in InUse(g) : o = [id |-> id, pos |-> Entry(g, id).pos]
    BY DEF LiveOf
  <2>2. id \in InUse(f) => [id |-> id, pos |-> Entry(f, id).pos] \in LiveOf(f)
    BY DEF LiveOf
  <2>3. ~(id \in InUse(f) /\ Entry(g, id).pos = Entry(f, id).pos)
    BY <1>2, <2>1, <2>2
  <2> QED  BY <2>1, <2>3 DEF KeepsLive
<1> QED  BY <1>1, <1>2

\* A well-formed document is one that IncrementalFile may begin with.
LEMMA AbstractFacts ==
  ASSUME NEW f \in File, WellFormed(f)
  PROVE  /\ Len(f.objs) \in Nat
         /\ \A o \in LiveOf(f) : o.pos \in 1..Len(f.objs)
         /\ Trailer(f).root.id \in InUse(f)
         /\ FieldIdsOf(f) \in Seq(Nat) /\ Catalog(f).kids \in Seq(Ref)
         /\ Len(FieldIdsOf(f)) = Len(Catalog(f).kids)
<1>1. Len(f.objs) \in Nat /\ DOMAIN f.objs = 1..Len(f.objs)
  BY DEF File
<1>2. \A id \in InUse(f) : Entry(f, id).pos \in 1..Len(f.objs)
  BY <1>1, LatestFacts DEF WellFormed
<1>3. Trailer(f).root.id \in InUse(f)
  BY ResolvedInUse DEF WellFormed, ReferencesFound
<1>4. Catalog(f).kids \in Seq(Ref)
  BY DerefType DEF Catalog, Object
<1>5. FieldIdsOf(f) \in Seq(Nat) /\ Len(FieldIdsOf(f)) = Len(Catalog(f).kids)
  <2> DEFINE kids == Catalog(f).kids
             fieldIds == [i \in DOMAIN kids |-> kids[i].id]
  <2>1. kids \in Seq(Ref) /\ Len(kids) \in Nat /\ DOMAIN kids = 1..Len(kids)
    BY <1>4
  <2> HIDE DEF kids
  <2>2. \A i \in 1..Len(kids) : kids[i].id \in Nat
    <3>1. \A i \in 1..Len(kids) : kids[i] \in Ref
      BY <2>1
    <3> QED  BY <3>1 DEF Ref
  <2>3. fieldIds \in [1..Len(kids) -> Nat]
    BY <2>1, <2>2
  <2>4. fieldIds \in Seq(Nat) /\ Len(fieldIds) = Len(kids)
    BY <2>1, <2>3
  <2> QED  BY <2>4 DEF FieldIdsOf, kids
<1> QED  BY <1>1, <1>2, <1>3, <1>4, <1>5 DEF LiveOf

\* A signature appends its objects, rewrites only what may be rewritten, and adds
\* one field after those that were there.
LEMMA SignedFileKeeps ==
  ASSUME IInv, pc = "replace", WellFormed(doc), CallInv, RewritableKnown(doc)
  PROVE  /\ Len(SignedFile.objs) > Len(doc.objs)
         /\ KeepsLive(doc, SignedFile, RewritableIds)
         /\ FieldIdsOf(SignedFile) = Append(FieldIdsOf(doc), ids.widget)
         /\ {Trailer(SignedFile).root.id, ids.widget} \subseteq InUse(SignedFile) \ InUse(doc)
<1> DEFINE g == SignedFile
           S == EntryIds(section)
<1>1. /\ g \in File /\ EntriesExact(g) /\ InUse(g) = InUse(doc) \union S
      /\ \A id \in S : \E p \in Appended :
           Entry(g, id).pos = p /\ Latest(g, id) = buf[p] /\ buf[p].id = id
      /\ \A id \in InUse(doc) \ S : Entry(g, id) = Entry(doc, id)
  BY SignedFileReads
<1>2. /\ Trailer(g).root = New(ids.catalog)
      /\ \A id \in {ids.widget, ids.catalog} : id \in S /\ id \notin InUse(doc) /\ id \in Nat
  BY SignedFileHolds
<1>3. Catalog(g).kids = Append(Fields, New(ids.widget)) /\ Fields \in Seq(Ref) /\ Fields = Catalog(doc).kids
  BY SignedFileFields DEF Fields
<1>4. g.objs = buf
  BY SignedFileAppends
<1>5. doc \in File /\ EntriesExact(doc) /\ RewritesKept /\ Allocating /\ EntriesKnown
  BY DEF IInv, TypeOK, WellFormed, CallInv, CoreInv, Working
<1>6. Len(doc.objs) \in Nat /\ Len(buf) \in Nat /\ Appended = (Len(doc.objs) + 1)..Len(buf)
  BY <1>5, IdsApart DEF Appended
<1> HIDE DEF g, S
<1>7. Len(g.objs) > Len(doc.objs)
  <2>1. PICK p \in Appended : Entry(g, ids.catalog).pos = p
    BY <1>1, <1>2
  <2> QED  BY <1>4, <1>6, <2>1
<1>8. KeepsLive(doc, g, RewritableIds)
  <2>1. ASSUME NEW id \in InUse(doc), Entry(g, id).pos # Entry(doc, id).pos
        PROVE  id \in RewritableIds
    <3>1. id \in S
      BY <1>1, <2>1
    <3>2. PICK p \in Appended : buf[p].id = id
      BY <1>1, <3>1
    <3>3. Latest(doc, id).kind \in RewritableKinds
      BY <1>5, <3>2 DEF RewritesKept
    <3>4. Entry(doc, id).pos \in DOMAIN doc.objs /\ Latest(doc, id).id = id
      BY <1>5, LatestFacts
    <3> QED  BY <3>3, <3>4 DEF RewritableKnown, Latest
  <2>2. ASSUME NEW id \in InUse(g)
        PROVE  \/ id \in InUse(doc) /\ Entry(g, id).pos = Entry(doc, id).pos
               \/ Entry(g, id).pos \in (Len(doc.objs) + 1)..Len(g.objs)
    BY <1>1, <1>4, <1>6
  <2> QED  BY <1>1, <2>1, <2>2 DEF KeepsLive
<1>9. FieldIdsOf(g) = Append(FieldIdsOf(doc), ids.widget)
  <2> DEFINE n == Len(Fields)
             kids == Catalog(g).kids
             old == FieldIdsOf(doc)
             new == Append(old, ids.widget)
  <2>1. /\ n \in Nat /\ DOMAIN Fields = 1..n /\ DOMAIN kids = 1..(n + 1)
        /\ kids[n + 1] = New(ids.widget) /\ \A i \in 1..n : kids[i] = Fields[i]
    BY <1>2, <1>3, NewType, AppendProperties
  <2>2. old \in Seq(Nat) /\ Len(old) = n
    BY <1>3, <1>5, AbstractFacts
  <2>3. \A i \in 1..n : old[i] = Fields[i].id
    BY <1>3, <2>1 DEF FieldIdsOf
  <2>4. FieldIdsOf(g) = [i \in DOMAIN kids |-> kids[i].id]
    BY DEF FieldIdsOf
  <2> HIDE DEF kids, old
  <2>5. /\ new \in Seq(Nat) /\ Len(new) = n + 1 /\ new[n + 1] = ids.widget
        /\ \A i \in 1..n : new[i] = old[i]
    BY <1>2, <2>2, AppendProperties
  <2> HIDE DEF new, n
  <2>6. DOMAIN new = 1..(n + 1) /\ new = [i \in 1..(n + 1) |-> new[i]]
    BY <2>1, <2>5
  <2>7. \A i \in 1..(n + 1) : new[i] = kids[i].id
    <3> TAKE i \in 1..(n + 1)
    <3>1. CASE i = n + 1
      BY <2>1, <2>5, <3>1 DEF New
    <3>2. CASE i # n + 1
      <4>1. i \in 1..n
        BY <2>1, <3>2
      <4> QED  BY <2>1, <2>3, <2>5, <4>1
    <3> QED  BY <3>1, <3>2
  <2> QED  BY <2>1, <2>4, <2>6, <2>7 DEF new, old
<1>10. {Trailer(g).root.id, ids.widget} \subseteq InUse(g) \ InUse(doc)
  BY <1>1, <1>2 DEF New
<1> QED  BY <1>7, <1>8, <1>9, <1>10 DEF g

LEMMA ReplaceSignatureAppends ==
  ASSUME IInv, FileInv, ReplaceSignature
  PROVE  Promise!AppendSignature
<1>1. pc = "replace" /\ Working /\ doc' = SignedFile
  BY DEF ReplaceSignature, Working
<1>2. /\ Len(doc'.objs) > Len(doc.objs) /\ KeepsLive(doc, doc', RewritableIds)
      /\ FieldIdsOf(doc') = Append(FieldIdsOf(doc), ids.widget)
      /\ {Trailer(doc').root.id, ids.widget} \subseteq InUse(doc') \ InUse(doc)
  BY <1>1, SignedFileKeeps DEF FileInv, SoundInv
<1>3. /\ {o.id : o \in LiveOf(doc)} = InUse(doc) /\ {o.id : o \in LiveOf(doc')} = InUse(doc')
      /\ {o.id : o \in LiveOf(doc) \ LiveOf(doc')} \subseteq RewritableIds
      /\ \A o \in LiveOf(doc') \ LiveOf(doc) : o.pos \in (Len(doc.objs) + 1)..Len(doc'.objs)
  BY <1>2, LiveIdsOf, LiveKept
<1>4. InUse(doc) \subseteq InUse(doc')
  BY <1>2 DEF KeepsLive
<1>5. ids.widget \in Promise!Range(FieldIdsOf(doc'))
  <2>1. FieldIdsOf(doc) \in Seq(Nat) /\ ids.widget \in Nat
    BY AbstractFacts DEF IInv, TypeOK, FileInv, SoundInv
  <2>2. Len(FieldIdsOf(doc')) \in DOMAIN FieldIdsOf(doc') /\ FieldIdsOf(doc')[Len(FieldIdsOf(doc'))] = ids.widget
    BY <1>2, <2>1, AppendProperties
  <2> QED  BY <2>2 DEF Promise!Range
<1>6. Promise!NewIds = InUse(doc') \ InUse(doc)
  BY <1>3 DEF Promise!NewIds, Promise!Ids, LiveOf
<1>7. Promise!Keeps(RewritableIds)
  BY <1>3, <1>4 DEF Promise!Keeps, Promise!Ids, LiveOf
<1> DEFINE id == ids.widget
<1>8. id \in Promise!Range(FieldIdsOf(doc')) /\ FieldIdsOf(doc') = Append(FieldIdsOf(doc), id)
      /\ {Trailer(doc').root.id, id} \subseteq Promise!NewIds
  BY <1>2, <1>5, <1>6
<1> HIDE DEF id
<1> QED  BY <1>2, <1>7, <1>8, Zenon DEF Promise!AppendSignature, FieldIdsOf

\* Whatever a caller does, each document is the one before it with one signature
\* appended: a call that retries, fails or gives up leaves the document alone.
THEOREM SigningAsPromised == InputsWellFormed => (Spec => ImplementsPromise)
<1>1. IInv /\ FileInv => Promise!Init
  <2> SUFFICES ASSUME IInv, FileInv PROVE Promise!Init
    OBVIOUS
  <2>1. doc \in File /\ WellFormed(doc)
    BY DEF IInv, TypeOK, FileInv, SoundInv
  <2>2. {o.id : o \in LiveOf(doc)} = InUse(doc)
    BY LiveIdsOf
  <2> QED  BY <2>1, <2>2, AbstractFacts DEF Promise!Init, Promise!Ids, LiveOf, FieldIdsOf
<1>2. IInv /\ FileInv /\ [Next]_vars => [Promise!AppendSignature]_Promise!vars
  <2> SUFFICES ASSUME IInv, FileInv, [Next]_vars PROVE [Promise!AppendSignature]_Promise!vars
    OBVIOUS
  <2>1. CASE UNCHANGED doc
    BY <2>1 DEF Promise!vars
  <2>2. CASE ReplaceSignature
    BY <2>2, ReplaceSignatureAppends
  <2> QED  BY <2>1, <2>2, DocumentChanges
<1> QED  BY <1>1, <1>2, SpecFileInv, PTL DEF Spec, ImplementsPromise, Promise!Spec

=============================================================================
