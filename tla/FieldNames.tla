------------------------------ MODULE FieldNames ------------------------------
(***************************************************************************)
(* Which form fields a signer fills (matchFieldSigner in                   *)
(* sign/fillable_fields_common.go). A field says in its name of which      *)
(* family it is and, after "_signer_", of whom, as an identifier or as the *)
(* hexadecimal digits of one. An identifier is a sequence of characters.   *)
(***************************************************************************)
EXTENDS Integers, SequencesExt

CONSTANTS
  HexCode,      \* each character as two lower-case hexadecimal digits
  LowerCase     \* each upper- or lower-case hexadecimal digit as a lower-case one

\* A character is known by its digits, which are lower-case ones.
ASSUME HexCodeAssumption ==
  /\ \A c \in DOMAIN HexCode :
       HexCode[c] \in [1..2 -> {d \in DOMAIN LowerCase : LowerCase[d] = d}]
  /\ \A c, d \in DOMAIN HexCode : HexCode[c] = HexCode[d] => c = d

\* What comes before the family ("lead"), whether the family is followed by a number, whether
\* "_signer_" comes next, and the tail after that.
FieldName ==
  [lead: BOOLEAN, family: {"initials_page_", "date_id_", "other"}, numbered: BOOLEAN,
   signer: BOOLEAN, tail: Seq(DOMAIN HexCode)]

NoSigner == <<>>

\* family(\d+)_signer_(.+), found anywhere in the name.
MatchesPattern(name, family) ==
  name.family = family /\ name.numbered /\ name.signer /\ name.tail # <<>>

IsHexDigit(character) == character \in DOMAIN LowerCase

FirstHexRun(tail) ==
  LET first == SelectInSeq(tail, IsHexDigit)
      end == SelectInSubSeq(tail, first, Len(tail), LAMBDA c : ~IsHexDigit(c))
  IN CASE first = 0 -> <<>>
       [] first # 0 /\ end = 0 -> SubSeq(tail, first, Len(tail))
       [] OTHER -> SubSeq(tail, first, end - 1)

FieldSigner(name, family) ==
  CASE MatchesPattern(name, family) -> name.tail
    [] ~MatchesPattern(name, family) /\ name.family = family /\ ~name.lead /\ name.signer ->
         FirstHexRun(name.tail)
    [] OTHER -> NoSigner

EncodeToString(uid) ==
  [i \in 1..(2 * Len(uid)) |-> HexCode[uid[(i + 1) \div 2]][IF i % 2 = 1 THEN 1 ELSE 2]]

\* hex.DecodeString, which takes digits of either case.
DecodesTo(digits, uid) ==
  /\ Len(digits) = 2 * Len(uid)
  /\ \A i \in DOMAIN digits : IsHexDigit(digits[i])
  /\ [i \in DOMAIN digits |-> LowerCase[digits[i]]] = EncodeToString(uid)

Folded(text) ==
  [i \in DOMAIN text |-> IF IsHexDigit(text[i]) THEN LowerCase[text[i]] ELSE text[i]]

\* Mutant: identifiers are compared without regard to case.
SameUIDFolded(uid, signer) == Folded(uid) = Folded(signer)

SameUID(uid, signer) == uid = signer

MatchFieldSigner(name, family, uid) ==
  LET signer == FieldSigner(name, family)
  IN /\ signer # NoSigner
     /\ \/ SameUID(uid, signer)
        \/ EncodeToString(uid) = signer
        \/ DecodesTo(signer, uid)
=============================================================================
