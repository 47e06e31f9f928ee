----------------------------- MODULE TrailerText -----------------------------
(***************************************************************************)
(* The trailer of a document with a table, which the signer makes by       *)
(* replacing text in the old one (sign/pdftrailer.go). The text is a       *)
(* sequence of entries: a key, whether one space separates it from its     *)
(* value, and the value, whose numbers are sequences of digits.            *)
(***************************************************************************)
EXTENDS Integers, SequencesExt

TrailerEntry == [key: STRING, plain: BOOLEAN, value: Seq(Int)]

Entry(key, plain, value) == [key |-> key, plain |-> plain, value |-> value]

\* What follows the number of a reference, and what a number never is.
Indirect == <<-1>>
NoNumber == <<-2>>

Decimal[n \in Nat] == IF n < 10 THEN <<n>> ELSE Append(Decimal[n \div 10], n % 10)

\* "key digits" occurs in an entry, which may go on with further digits.
Occurs(entry, key, digits) == entry.key = key /\ entry.plain /\ IsPrefix(digits, entry.value)

\* strings.ReplaceAll(text, "key old", "key new")
ReplacedAll(text, key, old, new) ==
  [i \in DOMAIN text |->
     IF Occurs(text[i], key, old)
     THEN [text[i] EXCEPT !.value = new \o SubSeq(@, Len(old) + 1, Len(@))]
     ELSE text[i]]

\* Without a /Prev that can be replaced, one is put after each /Root that was.
WithPrev(text, root, start) ==
  FlattenSeq([i \in DOMAIN text |->
                <<text[i]>> \o IF Occurs(text[i], "Root", root)
                               THEN <<Entry("Prev", TRUE, start)>> ELSE <<>>])

\* Mutant: a /Prev is replaced, and none is added.
NewPrevReplaced(text, prev, root, start) == ReplacedAll(text, "Prev", prev, start)

NewPrev(text, prev, root, start) ==
  IF \E i \in DOMAIN text : Occurs(text[i], "Prev", prev)
  THEN ReplacedAll(text, "Prev", prev, start)
  ELSE WithPrev(text, root, start)

\* The reader takes the last of equal keys.
ValueOf(text, key) ==
  LET at == SelectLastInSeq(text, LAMBDA entry : entry.key = key)
  IN IF at = 0 THEN NoNumber ELSE text[at].value

\* The root is that of the reader, the item count its number of entries.
NewTrailer(text, itemCount, entriesAdded, newRoot, start) ==
  LET withRoot == ReplacedAll(text, "Root", ValueOf(text, "Root"), newRoot)
      withSize == ReplacedAll(withRoot, "Size", Decimal[itemCount],
                              Decimal[itemCount + entriesAdded + 1])
  IN NewPrev(withSize, ValueOf(text, "Prev"), newRoot, start)
=============================================================================
