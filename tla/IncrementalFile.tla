--------------------------- MODULE IncrementalFile ---------------------------
(***************************************************************************)
(* What signing promises about a document, whatever its bytes look like:   *)
(* the file only grows, one revision at a time; a signature adds one field *)
(* after the fields that were there; validation data change no field; and  *)
(* what a reference finds is either what it found before or a rewrite that *)
(* the appended part itself holds.                                         *)
(***************************************************************************)
EXTENDS Integers, Sequences, SequencesExt

CONSTANT Rewritable   \* the object ids a signature may rewrite

VARIABLES
  length,   \* how many objects the file holds
  live,     \* the ids in use, each with the position of its object in the file
  root,     \* the id of the catalog
  fields    \* the ids of the form's fields

vars == <<length, live, root, fields>>

Ids(objects) == {o.id : o \in objects}

Init ==
  /\ length \in Nat
  /\ \A o \in live : o.pos \in 1..length
  /\ root \in Ids(live)
  /\ fields \in Seq(Nat)

NewIds == Ids(live') \ Ids(live)

\* Every id in use stays so; what it stands for changes only where it may, and
\* only to something that is appended.
Keeps(rewritten) ==
  LET old == live
      new == live'
  IN  /\ Ids(old) \subseteq Ids(new)
      /\ Ids(old \ new) \subseteq rewritten
      /\ \A o \in new \ old : o.pos \in (length + 1)..length'

\* A signature comes with a catalog of its own and one new field, the last.
AppendSignature ==
  /\ length' > length
  /\ \E id \in Range(fields') :
       fields' = Append(fields, id) /\ {root', id} \subseteq NewIds
  /\ Keeps(Rewritable)

\* A signature and the time-stamp that archives it, delivered together.
AppendArchived ==
  /\ length' > length
  /\ \E id, ts \in Range(fields') :
       fields' = fields \o <<id, ts>> /\ id # ts /\ {root', id, ts} \subseteq NewIds
  /\ Keeps(Rewritable)

\* Validation data for signatures that are there: only the catalog is rewritten.
AppendValidationData ==
  /\ length' > length
  /\ UNCHANGED <<root, fields>>
  /\ Keeps({root})

Spec == Init /\ [][AppendSignature]_vars

LongTermNext == AppendSignature \/ AppendArchived \/ AppendValidationData
=============================================================================
