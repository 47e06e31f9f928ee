------------------------------ MODULE XrefStream ------------------------------
(***************************************************************************)
(* The cross-reference streams that the signer writes, at a signature      *)
(* (sign/pdfxref_stream.go) and with validation data (sign/revocation.go), *)
(* and the reading of them (third_party/pdf/read.go). A stream is rows     *)
(* without ids; /Index, of which a pair is the first of consecutive ids    *)
(* and their number, says of which ids they are. A row is a sequence of    *)
(* bytes, and the operators are those of the code on sequences of bytes.   *)
(***************************************************************************)
EXTENDS Integers, SequencesExt, FiniteSetsExt

CONSTANT Radix   \* how many values a byte has

ASSUME RadixAssumption == Radix \in Nat \ {0, 1}

\* /W: the type of an entry, its offset, its generation.
TypeWidth == 1
OffsetWidth == 4
GenerationWidth == 2

\* A number shifted by no byte, by one byte, and so on.
Shifted(number) ==
  <<number, number \div Radix, (number \div Radix) \div Radix,
    ((number \div Radix) \div Radix) \div Radix>>

\* A number of too many digits loses the first ones.
Bytes(number, width) == [i \in 1..width |-> Shifted(number)[width - i + 1] % Radix]

Fits(number, width) == number \in Nat /\ Shifted(number)[width] < Radix

Row(entry) ==
  Bytes(1, TypeWidth) \o Bytes(entry.offset, OffsetWidth)
    \o Bytes(entry.generation, GenerationWidth)

Rows(entries) == [i \in DOMAIN entries |-> Row(entries[i])]

InRange(generation) == Fits(generation, GenerationWidth)

-----------------------------------------------------------------------------
(* The stream of a signature: a pair of /Index for each updated object, one for all new
   ones, whose ids follow the last of the old table. *)

\* Mutant: the pair of the new objects before those of the updated ones.
SignatureIndexNewFirst(updated, new, last) ==
  <<<<last + 1, Len(new)>>>> \o [i \in DOMAIN updated |-> <<updated[i].id, 1>>]

SignatureIndex(updated, new, last) ==
  [i \in DOMAIN updated |-> <<updated[i].id, 1>>]
    \o IF new = <<>> THEN <<>> ELSE <<<<last + 1, Len(new)>>>>

\* An error leaves no stream, and nothing to read.
Rejected == [index |-> <<>>, rows |-> <<>>]

Accepted(updated, new) == \A entry \in ToSet(updated \o new) : InRange(entry.generation)

SignatureStream(updated, new, last) ==
  IF Accepted(updated, new)
  THEN [index |-> SignatureIndex(updated, new, last), rows |-> Rows(updated \o new)]
  ELSE Rejected

-----------------------------------------------------------------------------
(* The stream of validation data: all its objects sorted by id, a pair of /Index for each
   run of consecutive ids. Only the catalog may have a generation. *)

\* The runs of more ids: one more id of the last run, or a run of its own.
Extended(runs, id) ==
  LET last == runs[Len(runs)]
      before == SubSeq(runs, 1, Len(runs) - 1)
  IN IF runs # <<>> /\ id = last[1] + last[2]
     THEN Append(before, <<last[1], last[2] + 1>>)
     ELSE Append(runs, <<id, 1>>)

ContiguousRuns(ids) ==
  LET runs[n \in 0..Len(ids)] == IF n = 0 THEN <<>> ELSE Extended(runs[n - 1], ids[n])
  IN runs[Len(ids)]

\* The objects are different ones: that of the i-th least id has i ids up to its own.
Sorted(entries) ==
  LET all == ToSet(entries)
  IN [i \in DOMAIN entries |->
        CHOOSE entry \in all : Cardinality({other \in all : other.id <= entry.id}) = i]

ValidationStream(entries) ==
  LET sorted == Sorted(entries)
  IN [index |-> ContiguousRuns([i \in DOMAIN sorted |-> sorted[i].id]), rows |-> Rows(sorted)]

-----------------------------------------------------------------------------
(* The reader. A table is a function of the ids; what it has already of an id comes from a
   newer stream, or from an earlier row, and stays. *)

Number(bytes) ==
  LET number[i \in 0..Len(bytes)] == IF i = 0 THEN 0 ELSE number[i - 1] * Radix + bytes[i]
  IN number[Len(bytes)]

IndexedIds(index) ==
  FlattenSeq([k \in DOMAIN index |-> [i \in 1..index[k][2] |-> index[k][1] + i - 1]])

\* Nothing is known of an id, or its entry.
NoEntry == {}

DecodedRow(row) ==
  LET field(before, width) == Number(SubSeq(row, before + 1, before + width))
  IN [offset |-> field(TypeWidth, OffsetWidth),
      generation |-> field(TypeWidth + OffsetWidth, GenerationWidth)]

\* The first row of an id.
RowOf(ids, id) == SelectInSeq(ids, LAMBDA x : x = id)

ReadStream(table, stream) ==
  LET ids == IndexedIds(stream.index)
  IN [id \in DOMAIN table |->
        IF table[id] # NoEntry \/ id \notin ToSet(ids) THEN table[id]
        ELSE {DecodedRow(stream.rows[RowOf(ids, id)])}]

\* The streams of a document, the newest first, as /Prev chains them.
ReadStreams(ids, streams) ==
  LET read[n \in 0..Len(streams)] ==
        IF n = 0 THEN [id \in ids |-> NoEntry] ELSE ReadStream(read[n - 1], streams[n])
  IN read[Len(streams)]
=============================================================================
