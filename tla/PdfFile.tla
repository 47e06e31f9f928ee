------------------------------- MODULE PdfFile -------------------------------
(***************************************************************************)
(* A PDF file as the vendored reader (third_party/pdf) sees it: objects in *)
(* file order, and one cross-reference section per revision, oldest first. *)
(* A byte offset is the position of the object in that order; a reference  *)
(* is an object id with a generation. Everything here is an operator: the  *)
(* state machines that write files extend this module.                     *)
(***************************************************************************)
EXTENDS Integers, Sequences, FiniteSetsExt

Ref == [id: Nat, gen: Nat]

\* What serializeCatalogEntry writes for a value that resolved to nothing. Where
\* object 0 is listed as free its generation may read 65535; that finds nothing too.
NullRef == [id |-> 0, gen |-> 0]

Kinds == {"Catalog", "Pages", "Page", "Widget", "Initials", "Date", "Text",
          "Sig", "DocTimeStamp", "Appearance", "Image", "Mask", "XRef",
          "Stream", "DSS", "Null"}

\* The dictionary keys under which an object refers to one other object.
Keys == {"Pages", "Parent", "V", "P", "AP", "SMask", "XObject", "Contents", "VRI"}

(***************************************************************************)
(* An object of the file.                                                  *)
(*   keys   the object ids whose encryption key its strings and streams    *)
(*          were written with, 0 standing for plain text; in a document    *)
(*          without encryption, the ids that key would have been made from *)
(*   kids   the array of the object that grows or is walked: /Kids of a    *)
(*          page node or field, /Annots of a page, /AcroForm /Fields       *)
(*   refs   its single references, each with its dictionary key            *)
(*   dss    the values of the /DSS keys of a catalog, in textual order     *)
(* Under VRI a /DSS names the object from whose /Contents its key is made. *)
(***************************************************************************)
Object == [id: Nat, gen: Nat, kind: Kinds, keys: SUBSET Nat,
           kids: Seq(Ref), refs: SUBSET [key: Keys, to: Ref], dss: Seq(Ref)]

\* The null value, which is what a reference that does not resolve stands for.
Null == [id |-> 0, gen |-> 0, kind |-> "Null", keys |-> {},
         kids |-> <<>>, refs |-> {}, dss |-> <<>>]

\* A cross-reference entry; pos = 0 marks a free entry.
XrefEntry == [id: Nat, gen: Nat, pos: Nat]

Section == [entries: Seq(XrefEntry), size: Nat, root: Ref]

File == [xref: {"table", "stream"}, objs: Seq(Object),
         sections: Seq(Section) \ {<<>>}]

-----------------------------------------------------------------------------
(* The references of an object.                                            *)

At(key, r) == [key |-> key, to |-> r]

HasKey(o, key) == \E e \in o.refs : e.key = key

Under(o, key) ==
  IF HasKey(o, key) THEN (CHOOSE e \in o.refs : e.key = key).to ELSE NullRef

RefsOf(o) == Range(o.kids) \union {e.to : e \in o.refs} \union Range(o.dss)

-----------------------------------------------------------------------------
(* The reader: the merged cross-reference table and what resolves in it.   *)

Trailer(f) == f.sections[Len(f.sections)]

EntryIds(section) == {section.entries[i].id : i \in DOMAIN section.entries}

ListedIds(f) == UNION {EntryIds(f.sections[s]) : s \in DOMAIN f.sections}

\* len(r.xref): a stream's table has /Size slots, and grows for an id that needs more (where
\* it does not grow enough the reader panics, and there is no document); a classic table has
\* one per listed id, cut off at /Size.
ItemCount(f) ==
  LET size == Trailer(f).size IN
  CASE f.xref = "stream" -> Max({size} \union {id + 1 : id \in ListedIds(f)})
    [] f.xref = "table" /\ (\E id \in ListedIds(f) : id >= size - 1) -> size
    [] OTHER -> 1 + Max({0} \union {id \in ListedIds(f) : id < size})

\* A place in the table, as <<section, line>>.
EntryAt(f, a) == f.sections[a[1]].entries[a[2]]

\* The lines of section s for id. A classic table's "f" lines never fill a slot of
\* the table, so they do not hide an older entry; a stream's type 0 does.
Lines(f, s, id) ==
  {i \in DOMAIN f.sections[s].entries :
     /\ EntryAt(f, <<s, i>>).id = id
     /\ f.xref = "table" => EntryAt(f, <<s, i>>).pos # 0}

Listings(f, id) == UNION {{s} \X Lines(f, s, id) : s \in DOMAIN f.sections}

\* The slot is filled by the newest section, and within it by its first line.
Wins(a, b) == a[1] > b[1] \/ (a[1] = b[1] /\ a[2] <= b[2])

Entry(f, id) ==
  EntryAt(f, CHOOSE a \in Listings(f, id) : \A b \in Listings(f, id) : Wins(a, b))

IsInUse(f, id) ==
  /\ f.xref = "table" => id < Trailer(f).size
  /\ Listings(f, id) # {} /\ Entry(f, id).pos # 0

InUse(f) == {id \in ListedIds(f) : IsInUse(f, id)}

\* resolve: the entry must carry the generation of the reference, and the object
\* found at its offset must carry both numbers.
Resolves(f, r) ==
  /\ IsInUse(f, r.id)
  /\ LET e == Entry(f, r.id) IN
       /\ e.gen = r.gen
       /\ e.pos \in DOMAIN f.objs
       /\ f.objs[e.pos].id = r.id /\ f.objs[e.pos].gen = r.gen

Deref(f, r) == IF Resolves(f, r) THEN f.objs[Entry(f, r.id).pos] ELSE Null

Catalog(f) == Deref(f, Trailer(f).root)

-----------------------------------------------------------------------------
(* What the writer asks of the file.                                       *)

\* getLastObjectIDFromXref: one more than the highest id in use.
LastObjectID(f) == Max({0} \union InUse(f)) + 1

\* latestObjectGeneration: over the reader's table and the "<id> <gen> obj"
\* headers of the bytes written so far.
LatestGeneration(f, written, id) ==
  Max({0} \union {written[p].gen : p \in {q \in DOMAIN written : written[q].id = id}}
          \union {Entry(f, i).gen : i \in {id} \cap InUse(f)})

\* A reference copied by serializeCatalogEntry or createCatalog: the generation
\* is looked up anew, and a reference the reader could not resolve is lost.
CopyRef(f, written, r) ==
  IF Resolves(f, r)
  THEN [id |-> r.id, gen |-> LatestGeneration(f, written, r.id)]
  ELSE NullRef

CopyRefs(f, written, array) == [i \in DOMAIN array |-> CopyRef(f, written, array[i])]

CopyKeys(f, written, refs) == {At(e.key, CopyRef(f, written, e.to)) : e \in refs}

\* A reference written as "<id> 0 R" whatever its generation (createIncPageUpdate).
ZeroGen(f, r) == IF Resolves(f, r) THEN [id |-> r.id, gen |-> 0] ELSE NullRef

\* findPageByNumber: kid i of the page tree is page n, the kids that do not
\* resolve being passed over. A tree of one level stands for any that flattens to it.
PageTree(f) == Deref(f, Under(Catalog(f), "Pages")).kids

IsPage(f, n, i) ==
  LET tree == PageTree(f)
      pages == {k \in DOMAIN tree : Deref(f, tree[k]).kind = "Page"}
  IN  i \in pages /\ Cardinality({k \in pages : k <= i}) = n

\* fetchExistingSignatures: the top-level fields with /FT /Sig.
ExistingSignatures(f) ==
  LET fields == Catalog(f).kids
  IN  {i \in DOMAIN fields : Deref(f, fields[i]).kind = "Widget"}
=============================================================================
