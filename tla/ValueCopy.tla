------------------------------ MODULE ValueCopy ------------------------------
(***************************************************************************)
(* How the signer copies the values of an object that it writes anew: the  *)
(* catalog and its form (sign/pdfcatalog.go), a page                       *)
(* (sign/pdfvisualsignature.go), a field (sign/fillable_fields_common.go). *)
(* The reader (third_party/pdf) resolves references as it goes, and a      *)
(* value no longer says whether it was one: all it has is the id of the    *)
(* object it was found in, which for a direct value is that of its holder. *)
(* Strings and names are decoded when they are read, and written without   *)
(* the escapes they may have had: a copy here is what a reader will take   *)
(* for the value.                                                          *)
(***************************************************************************)
EXTENDS Integers, SequencesExt

CONSTANTS
  Unescaped, \* what is read where a name that has to be escaped is written as it is
  NoName     \* that is no name: the name ends early, at a space or a delimiter

\* A value: a reference has an id, a string its characters, a name itself, a real how many 10^-7
\* it is, an atom what it is; the others have items, and a key for each, or none in an array.
Value(kind, of, keys, items) ==
  [kind |-> kind, of |-> of, text |-> <<>>, keys |-> keys, items |-> items]
Atom(of) == Value("atom", of, <<>>, <<>>)
Text(characters) == [Value("string", 0, <<>>, <<>>) EXCEPT !.text = characters]
Name(name) == [Value("name", 0, <<>>, <<>>) EXCEPT !.text = <<name>>]
Real(of) == Value("real", of, <<>>, <<>>)
Ref(id) == Value("ref", id, <<>>, <<>>)
NullValue == Value("null", 0, <<>>, <<>>)

\* Text of which no reader makes the value, and text that is never finished.
Torn == Value("torn", 0, <<>>, <<>>)
Endless == Value("endless", 0, <<>>, <<>>)

RECURSIVE DirectParts(_)
DirectParts(value) == {value} \union UNION {DirectParts(item) : item \in ToSet(value.items)}

\* pdf.Value: the value with the id of the object it is in.
In(ptr, value) == [ptr |-> ptr, value |-> value]

Resolve(objects, parent, value) ==
  CASE value.kind # "ref" -> In(parent, value)
    [] value.kind = "ref" /\ value.of \in DOMAIN objects -> In(value.of, objects[value.of])
    [] OTHER -> In(0, NullValue)

Index(objects, holder, i) == Resolve(objects, holder.ptr, holder.value.items[i])

AtKey(value, key) == value.items[SelectInSeq(value.keys, LAMBDA k : k = key)]

Key(objects, holder, key) == Resolve(objects, holder.ptr, AtKey(holder.value, key))

ObjectAt(objects, id) == In(id, objects[id])

-----------------------------------------------------------------------------
(* What is read of a string between parentheses, a name after a solidus, a number *)

\* What follows a backslash; for anything else the reader panics. Octal digits and line ends
\* are left out.
Escapes == [c \in {"n", "(", ")", "\\"} |-> IF c = "n" THEN "newline" ELSE c]

\* "depth" is 0 when the string is over; text that comes after that, or that makes the reader
\* panic, makes it less.
ReadChar(state, c) ==
  IF state.depth < 1 \/ (state.escaped /\ c \notin DOMAIN Escapes) THEN [state EXCEPT !.depth = -1]
  ELSE IF state.escaped THEN [state EXCEPT !.escaped = FALSE, !.read = Append(@, Escapes[c])]
  ELSE CASE c = "\\" -> [state EXCEPT !.escaped = TRUE]
         [] c = ")" -> [state EXCEPT !.depth = @ - 1, !.read = Append(@, c)]
         [] c = "(" -> [state EXCEPT !.depth = @ + 1, !.read = Append(@, c)]
         [] OTHER -> [state EXCEPT !.read = Append(@, c)]

Unread == [depth |-> 1, escaped |-> FALSE, read |-> <<>>]

\* The closing parenthesis that is written ends the string, neither one before nor one after it.
ReadLiteral(text) ==
  LET end == FoldLeft(ReadChar, Unread, Append(text, ")"))
  IN IF end.depth = 0 THEN Text(Front(end.read)) ELSE Torn

NameRead(name) == IF name \in DOMAIN Unescaped THEN Unescaped[name] ELSE name

ReadName(name) == IF NameRead(name) = NoName THEN Torn ELSE Name(NameRead(name))

ReadKeys(value) ==
  IF \E key \in ToSet(value.keys) : NameRead(key) = NoName THEN Torn
  ELSE [value EXCEPT !.keys = [i \in DOMAIN @ |-> NameRead(@[i])]]

\* %f writes six places.
SixPlaces(real) == 10 * ((real + 5) \div 10)

\* The entries of an object in its new text, one for each key.
NewDictionary(keys, entry) == ReadKeys(Value("dict", 0, keys, [i \in DOMAIN keys |-> entry[keys[i]]]))

Without(value, left) == SelectSeq(value.keys, LAMBDA key : key \notin left)

-----------------------------------------------------------------------------
(* serializeCatalogEntry, for the object "owner" *)

\* Mutant: whatever has an id is taken for a reference.
HasPointer(owner, found) == found.ptr # 0

IsReference(owner, found) == found.ptr # owner

\* What a reference to the owner leads to is written out in its place, and that has the same
\* reference in it.
RefersToItself(objects, owner) == Ref(owner) \in DirectParts(objects[owner])

RECURSIVE SerializeCatalogEntry(_, _, _)
SerializeCatalogEntry(document, owner, found) ==
  LET value == found.value
      objects == document.objects
  IN IF IsReference(owner, found) THEN Ref(found.ptr)
     ELSE IF value = objects[owner] /\ RefersToItself(objects, owner) THEN Endless
     ELSE CASE value.kind = "string" /\ ~document.encrypted -> ReadLiteral(value.text)
            [] value.kind = "name" -> ReadName(value.text[1])
            [] value.kind = "real" -> Real(SixPlaces(value.of))
            [] OTHER ->
                 ReadKeys([value EXCEPT
                             !.items = [i \in DOMAIN @ |->
                               SerializeCatalogEntry(document, owner, Index(objects, found, i))]])

\* createCatalog: the entries other than the form's, and the form's other than those that are
\* made anew. The form becomes a direct value of the catalog, if it was not.
CatalogLeft == {"Type", "AcroForm"}

CatalogEntries(document, root) ==
  LET catalog == ObjectAt(document.objects, root)
      keys == Without(catalog.value, CatalogLeft)
  IN NewDictionary(keys, [key \in ToSet(keys) |->
       SerializeCatalogEntry(document, root, Key(document.objects, catalog, key))])

FormAt(objects, root) == Key(objects, ObjectAt(objects, root), "AcroForm")

\* A default appearance that is a dictionary is dropped.
FormLeft(objects, form) ==
  {"SigFlags", "Fields"}
    \union {key \in {"DA"} \intersect ToSet(form.value.keys) : Key(objects, form, key).value.kind = "dict"}

\* One that is a string is escaped.
FormEntries(document, root) ==
  LET form == FormAt(document.objects, root)
      found(key) == Key(document.objects, form, key)
      keys == Without(form.value, FormLeft(document.objects, form))
  IN NewDictionary(keys, [key \in ToSet(keys) |->
       IF key = "DA" /\ found(key).value.kind = "string" THEN found(key).value
       ELSE SerializeCatalogEntry(document, root, found(key))])

\* updateFieldObject and updateFieldWidget: the entries that are not about the text.
FieldLeft == {"V", "Ff", "AP", "AS", "T", "DA"}

FieldEntries(document, field) ==
  LET holder == ObjectAt(document.objects, field)
      keys == Without(holder.value, FieldLeft)
  IN NewDictionary(keys, [key \in ToSet(keys) |->
       SerializeCatalogEntry(document, field, Key(document.objects, holder, key))])

-----------------------------------------------------------------------------
(* createIncPageUpdate, but for the annotations *)

\* Value.String: a value as it was found, the references in it as they are; its strings are
\* decrypted, which to a reader of an encrypted document is what they are not.
RECURSIVE FormatObject(_, _)
FormatObject(document, value) ==
  CASE value.kind = "string" -> IF document.encrypted THEN Torn ELSE ReadLiteral(value.text)
    [] value.kind = "name" -> ReadName(value.text[1])
    [] OTHER ->
         ReadKeys([value EXCEPT !.items = [i \in DOMAIN @ |-> FormatObject(document, @[i])]])

\* A stream is referred to, anything else is written out.
PageLeft == {"Annots"}

PageEntries(document, page) ==
  LET objects == document.objects
      holder == ObjectAt(objects, page)
      found(key) == Key(objects, holder, key)
      isArray(key) == key = "Contents" /\ found(key).value.kind = "array"
      isReferred(key) == key \in {"Parent", "Contents"} \/ found(key).value.kind = "stream"
      keys == Without(holder.value, PageLeft)
  IN NewDictionary(keys, [key \in ToSet(keys) |->
       CASE isArray(key) ->
              [found(key).value EXCEPT
                 !.items = [i \in DOMAIN @ |-> Ref(Index(objects, found(key), i).ptr)]]
         [] ~isArray(key) /\ isReferred(key) -> Ref(found(key).ptr)
         [] OTHER -> FormatObject(document, found(key).value)])

-----------------------------------------------------------------------------
(* What a value says, to a depth: references followed, nothing kept of where it was. *)

RECURSIVE Unfolded(_, _, _)
Unfolded(objects, value, depth) ==
  LET found == Resolve(objects, 0, value).value
  IN IF depth = 0 THEN [found EXCEPT !.keys = <<>>, !.items = <<>>]
     ELSE [found EXCEPT !.items = [i \in DOMAIN @ |-> Unfolded(objects, @[i], depth - 1)]]

\* For each key of the original that is not left, the copy has an entry that says the same.
SameEntries(objects, copy, original, left, depth) ==
  \A key \in ToSet(original.keys) \ left :
     /\ key \in ToSet(copy.keys)
     /\ Unfolded(objects, AtKey(copy, key), depth) = Unfolded(objects, AtKey(original, key), depth)

\* Without escapes every name, number and string of the document is read as it was. The
\* strings of an encrypted document may be any: encrypted, they are written in hexadecimal digits.
PlainlyWritten(document) ==
  \A object \in ToSet(document.objects) : \A part \in DirectParts(object) :
     /\ ReadKeys(part).keys = part.keys
     /\ part.kind = "name" => ReadName(part.text[1]) = part
     /\ part.kind = "real" => SixPlaces(part.of) = part.of
     /\ part.kind = "string" => document.encrypted \/ ReadLiteral(part.text) = part
=============================================================================
