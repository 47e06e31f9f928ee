---------------------------- MODULE PureFunctions ----------------------------
(***************************************************************************)
(* The functions of the signer and the verifier that compute a result from *)
(* their arguments alone. Each call is one step, from its arguments to its *)
(* result; the modules extended here have the functions, and the           *)
(* properties say what a result is for without saying how it is computed.  *)
(***************************************************************************)
EXTENDS XrefStream, DateText, FieldNames, PageTree, TrailerText

CONSTANTS
  Revisions,      \* cross-reference streams of documents: sequences of revisions, newest first
  SigningDates,   \* times with the zone of the signer
  FieldDates,     \* pairs of times that are put in the same field
  NamedFields,    \* names of fields
  Signers,        \* the identifiers of all signers
  PageTrees,      \* trees and the number of the page that is looked for
  Trailers        \* trailers of tables with what the signer has to put in them

\* Object 0 is always free: to the reader it would be one of which nothing is known.
XrefEntry == [id: Nat \ {0}, offset: Nat, generation: Nat]

Revision ==
  [by: {"signature", "validation"}, updated: Seq(XrefEntry), new: Seq(XrefEntry), last: Nat]

Recorded(revision) == revision.updated \o revision.new

\* A file has no offset of more than four bytes. The new ids of a signature follow the last one;
\* validation data writes no object twice, and no generation of more than two bytes.
Writable(revision) ==
  LET recorded == Recorded(revision)
  IN /\ \A i \in DOMAIN recorded : Fits(recorded[i].offset, OffsetWidth)
     /\ revision.by = "signature" =>
          \A i \in DOMAIN revision.new : revision.new[i].id = revision.last + i
     /\ revision.by = "validation" =>
          /\ \A i, j \in DOMAIN recorded : recorded[i].id = recorded[j].id => i = j
          /\ \A i \in DOMAIN recorded : InRange(recorded[i].generation)

ASSUME RevisionsAssumption ==
  \A of \in Revisions :
     /\ of.revisions \in Seq(Revision)
     /\ \A i \in DOMAIN of.revisions : Writable(of.revisions[i])

\* A zone is whole minutes from UTC.
ZoneOK(zone) ==
  zone.offset \in Int /\ zone.offset % 60 = 0 /\ (zone.offset # 0 => zone.name # "UTC")

\* A time as the clocks of a location show it.
LocalTime(location, time) == time + ZoneAt(location, time).offset

\* Local dates are in the calendar.
ASSUME FieldDatesAssumption ==
  \A of \in FieldDates :
     /\ ZoneOK(of.location.before) /\ ZoneOK(of.location.after)
     /\ \A time \in {of.first, of.second} :
          time \in Int /\ LocalTime(of.location, time) \div Day + 1 \in DOMAIN Calendar

ASSUME SignersAssumption == Signers \subseteq Seq(DOMAIN HexCode)

ASSUME PageTreesAssumption == PageTrees \subseteq [root: Nodes, number: PageNumbers]

\* A trailer that could be read has a /Root.
ASSUME TrailersAssumption ==
  \A of \in Trailers :
     /\ of.text \in Seq(TrailerEntry) /\ \E i \in DOMAIN of.text : of.text[i].key = "Root"
     /\ of.itemCount \in Nat /\ of.added \in Nat
     /\ of.newRoot \in Seq(Int) /\ of.start \in Seq(Int)

VARIABLES arguments, result

vars == <<arguments, result>>

Pending == <<>>

Arguments ==
  [call: {"writeXrefStream"}, of: Revisions] \union [call: {"parseDate"}, of: SigningDates]
    \union [call: {"formatFillableDate"}, of: FieldDates]
    \union [call: {"matchFieldSigner"}, of: NamedFields]
    \union [call: {"findPageByNumber"}, of: PageTrees]
    \union [call: {"writeTrailer"}, of: Trailers]

Init == arguments \in Arguments /\ result = Pending

Returns(call, value) ==
  arguments.call = call /\ result = Pending /\ result' = <<value>> /\ UNCHANGED arguments

-----------------------------------------------------------------------------
(* The calls *)

Fails(revision) == revision.by = "signature" /\ ~Accepted(revision.updated, revision.new)

StreamOf(revision) ==
  IF revision.by = "signature"
  THEN SignatureStream(revision.updated, revision.new, revision.last)
  ELSE ValidationStream(revision.updated \o revision.new)

\* Every stream is written by the call that made its revision, all are read by a later one.
WriteXrefStreams ==
  LET revisions == arguments.of.revisions
  IN Returns("writeXrefStream",
             [table |-> ReadStreams(arguments.of.ids,
                                    [i \in DOMAIN revisions |-> StreamOf(revisions[i])]),
              rejected |-> {i \in DOMAIN revisions : Fails(revisions[i])}])

ReadSigningDate ==
  Returns("parseDate", ParseDate(FormatPdfDateString(arguments.of.time, arguments.of.zone)))

FillDates ==
  Returns("formatFillableDate",
          LET of == arguments.of
              text(time) == FormatFillableDate(time, of.location, of.app)
          IN <<text(of.first), text(of.second)>>)

MatchSigners ==
  Returns("matchFieldSigner",
          {uid \in Signers : MatchFieldSigner(arguments.of.name, arguments.of.family, uid)})

FindPage == Returns("findPageByNumber", FindPageByNumber(arguments.of.root, arguments.of.number))

WriteTrailer ==
  Returns("writeTrailer",
          LET of == arguments.of
          IN NewTrailer(of.text, of.itemCount, of.added, of.newRoot, of.start))

Next ==
  \/ WriteXrefStreams
  \/ ReadSigningDate
  \/ FillDates
  \/ MatchSigners
  \/ FindPage
  \/ WriteTrailer

Spec == Init /\ [][Next]_vars

-----------------------------------------------------------------------------
(* What the results are for *)

Returned(call) == arguments.call = call /\ result # Pending

\* The first entry of an id in a revision, as the objects were recorded.
FirstOf(revision, id) ==
  LET entries == Recorded(revision)
  IN entries[SelectInSeq(entries, LAMBDA entry : entry.id = id)]

Writes(revision, id) == \E entry \in ToSet(Recorded(revision)) : entry.id = id

\* Whoever reads the streams of several signatures and of validation data, the newest first,
\* finds each object where the last revision that wrote it has put it, and with its
\* generation; nothing is found of an object that no revision wrote.
EntriesReadBack ==
  Returned("writeXrefStream") =>
    LET revisions == arguments.of.revisions
    IN \A id \in arguments.of.ids :
         LET writing == {i \in DOMAIN revisions :
                           i \notin result[1].rejected /\ Writes(revisions[i], id)}
             entry == FirstOf(revisions[Min(writing)], id)
         IN result[1].table[id]
              = IF writing = {} THEN NoEntry
                ELSE {[offset |-> entry.offset, generation |-> entry.generation]}

\* sign/pdfsignature.go writes the time of a signature with the offset of its zone, in hours and
\* minutes, and verify/document.go reads it: the verifier reports the time that was written.
SigningTimeReadBack == Returned("parseDate") => result[1] = arguments.of.time

ShowsMinute(app) ==
  IF app.dateFormat # <<>> THEN ShowsAll(app.dateFormat)
  ELSE /\ app.dateStyle # "dateOnly"
       /\ app.dateStyle \in {"long", "human"} => ~app.dateOmitTime

\* Two zones of a location that are shown by a name have names of their own. A change of offset
\* need not be one of the name: that of Moscow was MSK before and after October 2014.
HasOwnNames(location) ==
  IsUsableTimezoneAbbrev(location.before.name) /\ location.before.name = location.after.name =>
    location.before.offset = location.after.offset

\* Dates that a signer sees in a field tell when they signed: two that read the same, in
\* whatever style and language, are of the same minute of the local clock and calendar, and noon
\* is not taken for midnight. Where each zone has a name of its own or none, they are of the same
\* minute, and the hour that a change of clocks repeats is not taken for the one before.
ShownDateIdentifiesMinute ==
  Returned("formatFillableDate") =>
    LET of == arguments.of
        local(time) == LocalTime(of.location, time)
    IN ShowsMinute(of.app) /\ result[1][1] = result[1][2] =>
         /\ local(of.first) \div 60 = local(of.second) \div 60
         /\ HasOwnNames(of.location) => of.first \div 60 = of.second \div 60

\* One identifier is what the other is as hexadecimal digits, of either case.
SpelledAs(uid, digits) == DecodesTo(digits, uid)

\* The form that the documentation gives a name: the family with a number, then the signer.
NamedFor(name, family, uid) ==
  /\ name.family = family /\ name.numbered /\ name.signer
  /\ name.tail # <<>> /\ name.tail \in {uid, EncodeToString(uid)}

\* A field belongs to one signer, the one it is named for: with a number in its name it is filled
\* by that signer, whether the name has their identifier or its hexadecimal digits. Two that both
\* fill a field are the same, but for one writing the other's identifier in such digits. A field
\* of the other family, or of none, is nobody's. (To whom a name without a number belongs, its
\* first digits decide, be they the whole of what follows "_signer_" or not.)
FieldHasOneSigner ==
  Returned("matchFieldSigner") =>
    LET of == arguments.of
    IN /\ \A uid \in Signers : NamedFor(of.name, of.family, uid) => uid \in result[1]
       /\ \A u, v \in result[1] : u = v \/ SpelledAs(u, v) \/ SpelledAs(v, u)
       /\ result[1] # {} => of.name.family = of.family

\* The pages of a tree in the order they are shown, those below each kid in turn.
PagesOf(kids, pagesIn) ==
  FlattenSeq([k \in DOMAIN kids |->
                [i \in DOMAIN pagesIn[kids[k]] |-> <<k>> \o pagesIn[kids[k]][i]]])

Pages[node \in Nodes] ==
  CASE node.type = "Pages" -> PagesOf(node.kids, Pages)
    [] node.type = "Page" -> <<<<>>>>
    [] OTHER -> <<>>

\* A signature on page n is put on the n-th page of the document, however the pages are grouped
\* into nodes, empty ones and unknown ones among them; past the last there is no page.
FindsNthPage ==
  Returned("findPageByNumber") =>
    LET pages == Pages[arguments.of.root]
        number == arguments.of.number
    IN result[1] = IF number \in DOMAIN pages THEN pages[number] ELSE NoPage

WrittenPlainly(text, key) == \A i \in DOMAIN text : text[i].key = key => text[i].plain

\* If the old trailer separates its keys by one space, the new one leads to the new catalog, and
\* by /Prev to the section before, be there a /Prev to replace or not; and where /Size was the
\* number of entries, it covers those added.
TrailerLeadsToRevision ==
  Returned("writeTrailer") =>
    LET of == arguments.of
        plain == WrittenPlainly(of.text, "Root") /\ WrittenPlainly(of.text, "Prev")
        counted == /\ WrittenPlainly(of.text, "Size")
                   /\ ValueOf(of.text, "Size") = Decimal[of.itemCount]
    IN /\ plain => /\ ValueOf(result[1], "Root") = of.newRoot
                   /\ ValueOf(result[1], "Prev") = of.start
       /\ counted => ValueOf(result[1], "Size") = Decimal[of.itemCount + of.added + 1]

=============================================================================
