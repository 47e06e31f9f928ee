------------------------------- MODULE DateText -------------------------------
(***************************************************************************)
(* How times are put into text: the /M of a signature (sign/helpers.go),   *)
(* which the verifier reads again (verify/document.go), and the date that  *)
(* a signer sees in the fields filled for them                             *)
(* (sign/fillable_fields_dates.go). A text is the record or the sequence   *)
(* of the values in it; how many digits a value takes and what stands      *)
(* between the values are left out, where the parser does not care.        *)
(***************************************************************************)
EXTENDS Integers, SequencesExt

CONSTANTS
  Calendar,       \* the date of each day, a sequence of records of day, month and year
  Layouts,        \* localeToDateLayout: the parts that a locale's layout shows, in order
  Usual,          \* the layout without a locale, or with one that is not known
  Languages,      \* the locales by the language they begin with
  NumericNames    \* names of time zones with a sign or a digit in them, and the empty one

Parts == {"day", "month", "year", "clock"}

\* What shows a date and a clock completely.
ShowsAll(layout) == layout \in Seq(Parts) /\ Parts \subseteq ToSet(layout)

\* No two days have the same date.
ASSUME CalendarAssumption ==
  \A i, j \in DOMAIN Calendar :
     /\ Calendar[i].day = Calendar[j].day
     /\ Calendar[i].month = Calendar[j].month
     /\ Calendar[i].year = Calendar[j].year
     => i = j

\* The layout of every locale shows a date and a clock.
ASSUME LayoutAssumption ==
  ShowsAll(Usual) /\ \A locale \in DOMAIN Layouts : ShowsAll(Layouts[locale])

\* Times and offsets are in seconds; a zone has a name and an offset. A location has one
\* zone before a change of its clocks and one after.
Hour == 3600
Day == 24 * Hour

Magnitude(n) == IF n < 0 THEN -n ELSE n

\* Go's division drops the fraction, its remainder has the sign of the dividend.
Quotient(n, d) == IF n < 0 THEN -((-n) \div d) ELSE n \div d
Remainder(n, d) == n - d * Quotient(n, d)

ZoneAt(location, time) == IF time < location.change THEN location.before ELSE location.after

-----------------------------------------------------------------------------
(* The time of a signature, D:YYYYMMDDHHmmSSOHH'mm' *)

FormatPdfDateString(time, zone) ==
  LET offset == Magnitude(zone.offset)
      hours == offset \div Hour
  IN [local |-> time + zone.offset, sign |-> IF zone.offset < 0 THEN -1 ELSE 1,
      hours |-> hours, minutes |-> offset \div 60 - hours * 60]

NoTime == -1

\* The layout ends in Z07'00': the hours of the offset are read, the minutes must be 00.
ParseDate(text) ==
  IF text.minutes = 0 THEN text.local - text.sign * text.hours * Hour ELSE NoTime

-----------------------------------------------------------------------------
(* The date in a field *)

DateAt(local) == Calendar[local \div Day + 1]
HourAt(local) == (local % Day) \div Hour
MinuteAt(local) == (local % Hour) \div 60

Clock24(local) == <<HourAt(local), MinuteAt(local)>>

\* Mutant: noon counts as morning.
HalfOfDayAfterNoon(hour) == IF hour > 12 THEN "PM" ELSE "AM"

HalfOfDay(hour) == IF hour >= 12 THEN "PM" ELSE "AM"

FormatTime12h(hour, minute) ==
  <<IF hour = 0 THEN 12 ELSE IF hour > 12 THEN hour - 12 ELSE hour, minute, HalfOfDay(hour)>>

\* time.Format of a layout, given by the parts it has.
Format(local, layout) ==
  [i \in DOMAIN layout |->
     CASE layout[i] = "day" -> DateAt(local).day
       [] layout[i] = "month" -> DateAt(local).month
       [] layout[i] = "year" -> DateAt(local).year
       [] layout[i] = "clock" -> Clock24(local)]

ResolveDateLayout(locale) == IF locale \in DOMAIN Layouts THEN Layouts[locale] ELSE Usual

\* The layout up to its last space, which is before the clock.
ResolveDateOnlyLayout(locale) == Front(ResolveDateLayout(locale))

Language(locale) == IF locale \in DOMAIN Languages THEN Languages[locale] ELSE "en"

\* The long and the human style differ in the words between the values.
FormatInWords(local, locale, includeTime, words) ==
  LET date == DateAt(local)
      french == Language(locale) = "fr"
  IN IF french
     THEN <<words, date.day, <<"fr", date.month>>, date.year>>
            \o IF includeTime THEN <<Clock24(local)>> ELSE <<>>
     ELSE <<words, <<"en", date.month>>, date.day, date.year>>
            \o IF includeTime THEN <<FormatTime12h(HourAt(local), MinuteAt(local))>> ELSE <<>>

FormatDatePart(local, app) ==
  CASE app.dateFormat # <<>> -> Format(local, app.dateFormat)
    [] app.dateFormat = <<>> /\ app.dateStyle = "dateOnly" ->
         Format(local, ResolveDateOnlyLayout(app.locale))
    [] app.dateFormat = <<>> /\ app.dateStyle \in {"long", "human"} ->
         FormatInWords(local, app.locale, ~app.dateOmitTime, app.dateStyle)
    [] OTHER -> Format(local, ResolveDateLayout(app.locale))

FormatNumericOffset(offset) ==
  <<IF offset < 0 THEN "-" ELSE "+", Magnitude(Quotient(offset, Hour)),
    Magnitude(Quotient(Remainder(offset, Hour), 60))>>

IsUsableTimezoneAbbrev(name) == name \notin NumericNames

FormatTimezoneSuffix(zone) ==
  CASE zone.offset = 0 -> <<"UTC">>
    [] zone.offset # 0 /\ IsUsableTimezoneAbbrev(zone.name) -> <<zone.name>>
    [] OTHER -> FormatNumericOffset(zone.offset)

FormatFillableDate(time, location, app) ==
  LET zone == ZoneAt(location, time)
  IN FormatDatePart(time + zone.offset, app) \o FormatTimezoneSuffix(zone)
=============================================================================
