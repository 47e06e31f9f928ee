--------------------------- MODULE MCPureFunctions ---------------------------
(***************************************************************************)
(* NestedFunctions with arguments small enough to take them all, or chosen *)
(* where a result turns: the last offset that fits, the hour that is       *)
(* repeated, noon, the first half hour of an offset, digits that spell     *)
(* other digits, empty nodes.                                              *)
(***************************************************************************)
EXTENDS NestedFunctions

\* Bytes of one bit: an offset is below 16, a generation below 4.
At(id, offset, generation) == [id |-> id, offset |-> offset, generation |-> generation]

Signature(updated, new, last) ==
  [by |-> "signature", updated |-> updated, new |-> new, last |-> last]
Validation(catalog, new) ==
  [by |-> "validation", updated |-> <<catalog>>, new |-> new, last |-> 0]

\* What a signature rewrites: nothing, a page, two objects in either order, one of them
\* twice, one of a generation that fits or does not.
Rewritten ==
  {<<>>, <<At(2, 9, 3)>>, <<At(2, 9, 0), At(1, 10, 2)>>, <<At(1, 9, 0), At(2, 10, 0)>>,
   <<At(1, 9, 0), At(2, 10, 0), At(1, 11, 0)>>, <<At(1, 9, 4)>>}

Olds == {Signature(u, <<At(4, 5, 0), At(5, o, 0)>>, 3) : u \in Rewritten, o \in {6, 15}}
Seconds ==
  {Signature(u, n, 5) : u \in Rewritten, n \in {<<At(6, 12, 0)>>, <<At(6, 12, 0), At(7, 15, 0)>>}}
    \union {Validation(At(c, 14, g), n) :
              c \in {1, 4, 5}, g \in {0, 3},
              n \in {<<At(7, 12, 0)>>, <<At(6, 11, 0), At(7, 12, 0), At(8, 13, 0)>>}}

SomeRevisions == {[ids |-> 1..8, revisions |-> <<second, old>>] : second \in Seconds, old \in Olds}

\* Around the end of a year.
SomeCalendar ==
  <<[day |-> 30, month |-> 12, year |-> 23], [day |-> 31, month |-> 12, year |-> 23],
    [day |-> 1, month |-> 1, year |-> 24], [day |-> 2, month |-> 1, year |-> 24]>>

SomeLayouts ==
  [locale \in {"en-US", "fr-FR", "de-DE"} |->
     IF locale = "en-US" THEN <<"month", "day", "year", "clock">>
     ELSE <<"day", "month", "year", "clock">>]

UsualLayout == <<"month", "day", "year", "clock">>

SomeLanguages == [locale \in {"en-US", "fr-FR", "de-DE"} |->
                    CASE locale = "en-US" -> "en" [] locale = "fr-FR" -> "fr"
                      [] locale = "de-DE" -> "de"]

SignedNumericNames == {"", "-03", "+0530"}

Zone(name, offset) == [name |-> name, offset |-> offset]

Offsets == {0, 30, 60, 90, 330, -30, -60, -210, 765, -720}

SomeSigningDates ==
  {[time |-> Day + t, zone |-> Zone("", 60 * o)] : t \in {0, 1, 43200, 86399}, o \in Offsets}

\* Clocks put back and forward, to and from UTC, without an abbreviation, with one for both.
Locations ==
  { [change |-> 2 * Day, before |-> Zone("CEST", 2 * Hour), after |-> Zone("CET", Hour)],
    [change |-> 2 * Day, before |-> Zone("CET", Hour), after |-> Zone("CEST", 2 * Hour)],
    [change |-> 2 * Day, before |-> Zone("BST", Hour), after |-> Zone("GMT", 0)],
    [change |-> 2 * Day, before |-> Zone("", -1800), after |-> Zone("", -5400)],
    [change |-> 2 * Day, before |-> Zone("+0530", 19800), after |-> Zone("+0530", 16200)],
    [change |-> 2 * Day, before |-> Zone("MSK", 4 * Hour), after |-> Zone("MSK", 3 * Hour)] }

Styles ==
  {[dateFormat |-> <<>>, dateStyle |-> s, dateOmitTime |-> o, locale |-> l] :
     s \in {"numeric", "dateOnly", "long", "human"}, o \in BOOLEAN,
     l \in {"en-US", "fr-FR", "de-DE", "pt-BR"}}
    \union {[dateFormat |-> f, dateStyle |-> "long", dateOmitTime |-> TRUE, locale |-> "en-US"] :
              f \in {<<"year", "month", "day", "clock">>, <<"day", "month">>}}

\* Around midnight, the change of the clocks, and noon of either day.
Times ==
  {2 * Day + 60 * t : t \in {-1500, -780, -720, -719, -90, -60, -30, 0, 30, 60, 720, 721, 779}}

SomeFieldDates ==
  {[app |-> a, location |-> l, first |-> t, second |-> u] :
     a \in Styles, l \in Locations, t \in Times, u \in Times}

\* 3, 4, 6, F, O and f are the characters 33, 34, 36, 46, 4f and 66.
SomeHexCode ==
  [c \in {"3", "4", "6", "F", "O", "f"} |->
     CASE c = "3" -> <<"3", "3">> [] c = "4" -> <<"3", "4">> [] c = "6" -> <<"3", "6">>
       [] c = "F" -> <<"4", "6">> [] c = "O" -> <<"4", "f">> [] c = "f" -> <<"6", "6">>]

SomeLowerCase == [c \in {"3", "4", "6", "F", "f"} |-> IF c = "F" THEN "f" ELSE c]

Texts(length) == UNION {[1..n -> DOMAIN SomeHexCode] : n \in 1..length}

SomeSigners == Texts(2) \union {EncodeToString(u) : u \in Texts(2)}

Names(tails) ==
  [lead: BOOLEAN, family: {"initials_page_", "date_id_", "other"}, numbered: BOOLEAN,
   signer: BOOLEAN, tail: tails]

Plain == [lead |-> FALSE, family |-> "date_id_", numbered |-> TRUE, signer |-> TRUE, tail |-> <<>>]

SomeNamedFields ==
  {[family |-> f, name |-> n] :
     f \in {"date_id_"},
     n \in Names({<<>>, <<"O">>, <<"O", "4", "F", "O", "3">>, <<"4", "f">>, <<"4">>})
             \union {[Plain EXCEPT !.tail = t, !.numbered = b] :
                       t \in [1..4 -> DOMAIN SomeHexCode], b \in BOOLEAN}}

Leaf == [type |-> "Page", kids |-> <<>>]
Unknown == [type |-> "Font", kids |-> <<>>]
Over(kids) == [type |-> "Pages", kids |-> kids]

Kids(nodes) == UNION {[1..n -> nodes] : n \in 0..2}
Depth1 == {Leaf, Unknown} \union {Over(k) : k \in Kids({Leaf, Unknown})}
Depth2 == Depth1 \union {Over(k) : k \in Kids(Depth1)}

Depth3 == Depth2 \union {Over(<<a, b, Leaf>>) : a \in Depth2, b \in Depth1}

Heights ==
  [node \in Depth3 |->
     CASE node \in {Leaf, Unknown} -> 0
       [] node \in Depth1 \ {Leaf, Unknown} -> 1
       [] node \in Depth2 \ Depth1 -> 2
       [] OTHER -> 3]

SomePageTrees == [root: Depth3, number: 1..5]

OldText(root, size, prev) ==
  {<<r, s>> \o p : r \in root, s \in size, p \in prev} \union {p \o <<s, r>> : r \in root, s \in size, p \in prev}

SomeTrailers ==
  {[text |-> t, itemCount |-> c, added |-> 3, newRoot |-> Decimal[9] \o Indirect, start |-> <<1, 1, 7>>] :
     c \in {1, 7, 12},
     t \in OldText({Entry("Root", b, Decimal[1] \o Indirect) : b \in BOOLEAN},
                   {Entry("Size", b, v) : b \in BOOLEAN, v \in {<<7>>, <<1, 2>>}},
                   {<<>>} \union {<<Entry("Prev", b, <<1, 1>>)>> : b \in BOOLEAN})}

DictOf(keys, items) == Value("dict", 0, keys, items)
ArrayOf(items) == Value("array", 0, <<>>, items)

\* A#42 would have to be written as A#2342, and is read as AB; what follows the A of "A B" is
\* not its name.
SomeUnescaped == [name \in {"A#42", "A B"} |-> IF name = "A#42" THEN "AB" ELSE NoName]

\* References to a dictionary, an array, a stream, and to nothing, alone and inside of direct
\* dictionaries and arrays.
Structures ==
  {Atom(1), Ref(4), Ref(5), Ref(6), Ref(99), DictOf(<<"Font">>, <<Ref(4)>>),
   DictOf(<<"Font">>, <<DictOf(<<"Helv", "Size">>, <<Ref(4), Atom(2)>>)>>),
   ArrayOf(<<Atom(1), Ref(6), DictOf(<<"Next">>, <<Ref(99)>>)>>)}

\* Strings with nothing to escape, with parentheses that match and that do not, with a backslash
\* before what it is read with, before anything else, and last; names and keys that are regular,
\* are another's, and are none; reals of six places and of seven.
Leaves ==
  {Text(<<"a", "n">>), Text(<<"(", "a", ")">>), Text(<<"a", ")">>), Text(<<"(", "a">>),
   Text(<<"a", ")", "(", "a">>), Text(<<"\\", "n">>), Text(<<"\\", "a">>), Text(<<"a", "\\">>),
   Name("AB"), Name("A#42"), Name("A B"), DictOf(<<"A#42">>, <<Atom(1)>>),
   DictOf(<<"A B">>, <<Ref(4)>>), Real(25000000), Real(3)}

\* References to the catalog, the page and the field, which for one of them is its own.
ToHolders ==
  {Ref(1), Ref(8), Ref(9), DictOf(<<"S", "T">>, <<Name("Hide"), Ref(9)>>),
   ArrayOf(<<Ref(1), Ref(8)>>)}

CopiedValues == Structures \union Leaves \union ToHolders

PageContents == {Ref(5), Ref(7), ArrayOf(<<Ref(5), Ref(5)>>)}

Appearances == {Text(<<"a", "(">>), Ref(10), DictOf(<<>>, <<>>)}

Form(appearance, value) ==
  DictOf(<<"Fields", "DA", "DR">>, <<ArrayOf(<<Ref(9)>>), appearance, value>>)

Copied(value, form, contents, appearance) ==
  <<DictOf(<<"Type", "Pages", "Names", "AcroForm">>, <<Name("Catalog"), Ref(2), value, form>>),
    DictOf(<<"Type", "Kids">>, <<Name("Pages"), ArrayOf(<<Ref(8)>>)>>),
    Form(appearance, value),
    DictOf(<<"Helv">>, <<Atom(6)>>),
    Value("stream", 7, <<"Length">>, <<Ref(99)>>),
    ArrayOf(<<Atom(8), Ref(4)>>),
    ArrayOf(<<Ref(5)>>),
    DictOf(<<"Type", "Parent", "Contents", "Resources", "PieceInfo">>,
           <<Name("Page"), Ref(2), contents, value, Ref(5)>>),
    DictOf(<<"FT", "T", "MK", "P">>, <<Name("Tx"), Text(<<"n">>), value, Ref(8)>>),
    Text(<<"n">>)>>

SomeCopiedDocuments ==
  {[objects |-> Copied(v, f, c, a), encrypted |-> e, catalog |-> 1, page |-> 8, field |-> 9] :
     v \in CopiedValues, f \in {Ref(3)} \union {Form(Text(<<"n">>), w) : w \in Structures},
     c \in PageContents, a \in {Text(<<"n">>)}, e \in BOOLEAN}
    \union
  {[objects |-> Copied(v, f, Ref(5), Text(<<"n">>)), encrypted |-> e,
    catalog |-> 1, page |-> 8, field |-> 9] :
     v \in {Atom(1)}, f \in {Form(b, w) : b \in Appearances, w \in CopiedValues}, e \in BOOLEAN}
=============================================================================
