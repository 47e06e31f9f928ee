------------------------ MODULE PureFunctions_proofs ------------------------
(***************************************************************************)
(* For every set of arguments that the assumptions of the modules allow: a *)
(* field has one signer, dates that read the same are of the same minute,  *)
(* a new trailer leads to the revision that it is written for, what is read*)
(* from cross-reference streams is what the last revision wrote, and the   *)
(* number of a page finds the page.                                        *)
(***************************************************************************)
EXTENDS PureFunctions, Extrema, SequenceTheorems, FiniteSetTheorems, TLAPS

-----------------------------------------------------------------------------
(* A call that has returned has returned the value of its function.        *)

ReadBack(of) ==
  LET revisions == of.revisions
  IN [table |-> ReadStreams(of.ids, [i \in DOMAIN revisions |-> StreamOf(revisions[i])]),
      rejected |-> {i \in DOMAIN revisions : Fails(revisions[i])}]

MatchedSigners(of) == {uid \in Signers : MatchFieldSigner(of.name, of.family, uid)}

DateTexts(of) ==
  <<FormatFillableDate(of.first, of.location, of.app),
    FormatFillableDate(of.second, of.location, of.app)>>

PageFound(of) == FindPageByNumber(of.root, of.number)

WrittenTrailer(of) == NewTrailer(of.text, of.itemCount, of.added, of.newRoot, of.start)

\* Nothing changes the arguments, and only its own call gives a result.
AnswerInv ==
  /\ arguments \in Arguments
  /\ Returned("writeXrefStream") => result = <<ReadBack(arguments.of)>>
  /\ Returned("matchFieldSigner") => result = <<MatchedSigners(arguments.of)>>
  /\ Returned("formatFillableDate") => result = <<DateTexts(arguments.of)>>
  /\ Returned("findPageByNumber") => result = <<PageFound(arguments.of)>>
  /\ Returned("writeTrailer") => result = <<WrittenTrailer(arguments.of)>>

\* Before a call returns, no result is claimed of it.
LEMMA InitAnswers == Init => AnswerInv
BY DEF Init, AnswerInv, Returned

\* Each call returns what its function gives; the others have no result to return.
LEMMA NextAnswers == AnswerInv /\ [Next]_vars => AnswerInv'
<1> SUFFICES ASSUME AnswerInv, [Next]_vars PROVE AnswerInv'
  OBVIOUS
<1>1. CASE WriteXrefStreams
  BY <1>1, Zenon DEF AnswerInv, WriteXrefStreams, Returns, Returned, ReadBack
<1>2. CASE ReadSigningDate
  BY <1>2, Zenon DEF AnswerInv, ReadSigningDate, Returns, Returned
<1>3. CASE FillDates
  BY <1>3, Zenon DEF AnswerInv, FillDates, Returns, Returned, DateTexts
<1>4. CASE MatchSigners
  BY <1>4, Zenon DEF AnswerInv, MatchSigners, Returns, Returned, MatchedSigners
<1>5. CASE FindPage
  BY <1>5, Zenon DEF AnswerInv, FindPage, Returns, Returned, PageFound
<1>6. CASE WriteTrailer
  BY <1>6, Zenon DEF AnswerInv, WriteTrailer, Returns, Returned, WrittenTrailer
<1>7. CASE UNCHANGED vars
  BY <1>7, Zenon DEF AnswerInv, vars, Returned
<1> QED  BY <1>1, <1>2, <1>3, <1>4, <1>5, <1>6, <1>7 DEF Next

\* In every behaviour, a result is that of the function called.
LEMMA AnswersInvariant == Spec => []AnswerInv
BY InitAnswers, NextAnswers, PTL DEF Spec

-----------------------------------------------------------------------------
(* Names of fields.                                                        *)

\* An encoding has two digits for each character, which are lower-case ones.
LEMMA EncodeType ==
  ASSUME NEW u \in Seq(DOMAIN HexCode)
  PROVE  /\ EncodeToString(u) \in Seq(DOMAIN LowerCase)
         /\ Len(EncodeToString(u)) = 2 * Len(u)
         /\ DOMAIN EncodeToString(u) = 1..(2 * Len(u))
         /\ \A i \in 1..(2 * Len(u)) : LowerCase[EncodeToString(u)[i]] = EncodeToString(u)[i]
<1> DEFINE digit(i) == HexCode[u[(i + 1) \div 2]][IF i % 2 = 1 THEN 1 ELSE 2]
<1>1. \A i \in 1..(2 * Len(u)) : digit(i) \in DOMAIN LowerCase /\ LowerCase[digit(i)] = digit(i)
  <2> TAKE i \in 1..(2 * Len(u))
  <2>1. (i + 1) \div 2 \in 1..Len(u)
    OBVIOUS
  <2>2. u[(i + 1) \div 2] \in DOMAIN HexCode
    BY <2>1
  <2>3. HexCode[u[(i + 1) \div 2]] \in [1..2 -> {d \in DOMAIN LowerCase : LowerCase[d] = d}]
    BY <2>2, HexCodeAssumption
  <2>4. (IF i % 2 = 1 THEN 1 ELSE 2) \in 1..2
    OBVIOUS
  <2> QED  BY <2>3, <2>4
<1>2. 2 * Len(u) \in Nat
  OBVIOUS
<1>3. EncodeToString(u) = [i \in 1..(2 * Len(u)) |-> digit(i)]
  BY DEF EncodeToString
<1> HIDE DEF digit
<1> QED  BY <1>1, <1>2, <1>3

\* The first and the second digit of a character.
LEMMA EncodeDigits ==
  ASSUME NEW u \in Seq(DOMAIN HexCode), NEW k \in 1..Len(u)
  PROVE  /\ 2 * k - 1 \in 1..(2 * Len(u)) /\ 2 * k \in 1..(2 * Len(u))
         /\ EncodeToString(u)[2 * k - 1] = HexCode[u[k]][1]
         /\ EncodeToString(u)[2 * k] = HexCode[u[k]][2]
<1>1. 2 * k - 1 \in 1..(2 * Len(u)) /\ 2 * k \in 1..(2 * Len(u))
  OBVIOUS
<1>2. ((2 * k - 1) + 1) \div 2 = k /\ (2 * k - 1) % 2 = 1
  OBVIOUS
<1>3. (2 * k + 1) \div 2 = k /\ (2 * k) % 2 # 1
  OBVIOUS
<1> QED  BY <1>1, <1>2, <1>3 DEF EncodeToString

\* Different identifiers have different encodings.
LEMMA EncodeInjective ==
  ASSUME NEW u \in Seq(DOMAIN HexCode), NEW v \in Seq(DOMAIN HexCode),
         EncodeToString(u) = EncodeToString(v)
  PROVE  u = v
<1>1. Len(u) = Len(v)
  <2>1. 2 * Len(u) = 2 * Len(v)
    BY EncodeType
  <2> QED  BY <2>1
<1>2. \A k \in 1..Len(u) : u[k] = v[k]
  <2> TAKE k \in 1..Len(u)
  <2>1. u[k] \in DOMAIN HexCode /\ v[k] \in DOMAIN HexCode
    BY <1>1
  <2>2. HexCode[u[k]][1] = HexCode[v[k]][1] /\ HexCode[u[k]][2] = HexCode[v[k]][2]
    <3>1. /\ EncodeToString(u)[2 * k - 1] = HexCode[u[k]][1]
          /\ EncodeToString(u)[2 * k] = HexCode[u[k]][2]
      BY EncodeDigits
    <3>2. /\ EncodeToString(v)[2 * k - 1] = HexCode[v[k]][1]
          /\ EncodeToString(v)[2 * k] = HexCode[v[k]][2]
      BY <1>1, EncodeDigits
    <3> QED  BY <3>1, <3>2
  <2>3. /\ HexCode[u[k]] \in [1..2 -> {d \in DOMAIN LowerCase : LowerCase[d] = d}]
        /\ HexCode[v[k]] \in [1..2 -> {d \in DOMAIN LowerCase : LowerCase[d] = d}]
    BY <2>1, HexCodeAssumption
  <2>4. \A i \in 1..2 : HexCode[u[k]][i] = HexCode[v[k]][i]
    BY <2>2
  <2>5. HexCode[u[k]] = HexCode[v[k]]
    BY <2>3, <2>4
  <2> QED  BY <2>1, <2>5, HexCodeAssumption
<1> QED  BY <1>1, <1>2, SeqEqual

\* What an identifier's encoding decodes to is the identifier, and nothing else.
LEMMA DecodesEncoding ==
  ASSUME NEW u \in Seq(DOMAIN HexCode), NEW v \in Seq(DOMAIN HexCode)
  PROVE  /\ DecodesTo(EncodeToString(u), u)
         /\ DecodesTo(EncodeToString(u), v) => u = v
<1> DEFINE e == EncodeToString(u)
<1>1. e \in Seq(DOMAIN LowerCase) /\ Len(e) = 2 * Len(u) /\ DOMAIN e = 1..(2 * Len(u))
  BY EncodeType
<1>2. [i \in DOMAIN e |-> LowerCase[e[i]]] = e
  <2>1. \A i \in DOMAIN e : LowerCase[e[i]] = e[i]
    BY EncodeType
  <2> QED  BY <1>1, <2>1
<1>3. \A i \in DOMAIN e : e[i] \in DOMAIN LowerCase
  BY <1>1
<1> HIDE DEF e
<1>4. DecodesTo(e, u)
  BY <1>1, <1>2, <1>3 DEF DecodesTo, IsHexDigit, e
<1>5. DecodesTo(e, v) => e = EncodeToString(v)
  BY <1>2 DEF DecodesTo
<1> QED  BY <1>4, <1>5, EncodeInjective DEF e

\* Two identifiers that one text stands for are the same, or one spells the other.
LEMMA OneSigner ==
  ASSUME NEW u \in Seq(DOMAIN HexCode), NEW v \in Seq(DOMAIN HexCode), NEW s,
         u = s \/ EncodeToString(u) = s \/ DecodesTo(s, u),
         v = s \/ EncodeToString(v) = s \/ DecodesTo(s, v)
  PROVE  u = v \/ SpelledAs(u, v) \/ SpelledAs(v, u)
<1>1. CASE DecodesTo(s, u) /\ DecodesTo(s, v)
  BY <1>1, EncodeInjective DEF DecodesTo
<1> QED  BY <1>1, EncodeInjective, DecodesEncoding DEF SpelledAs

\* A field belongs to one signer: whatever identifiers there are, a field with a number is filled
\* by the signer it is named for, of those that fill a field one spells the other, and a field of
\* another family is filled by nobody.
THEOREM FieldHasOneSignerAlways == Spec => []FieldHasOneSigner
<1>1. AnswerInv => FieldHasOneSigner
  <2> SUFFICES ASSUME AnswerInv, Returned("matchFieldSigner") PROVE
        /\ \A uid \in Signers :
             NamedFor(arguments.of.name, arguments.of.family, uid) => uid \in result[1]
        /\ \A u, v \in result[1] : u = v \/ SpelledAs(u, v) \/ SpelledAs(v, u)
        /\ result[1] # {} => arguments.of.name.family = arguments.of.family
    BY DEF FieldHasOneSigner
  <2> DEFINE of == arguments.of
             signer == FieldSigner(of.name, of.family)
  <2>1. result[1] = MatchedSigners(of)
    BY DEF AnswerInv
  <2> HIDE DEF of
  <2>2. \A u \in MatchedSigners(of) :
          /\ u \in Seq(DOMAIN HexCode) /\ signer # NoSigner
          /\ u = signer \/ EncodeToString(u) = signer \/ DecodesTo(signer, u)
    BY SignersAssumption DEF MatchedSigners, MatchFieldSigner, SameUID
  <2>3. signer # NoSigner => of.name.family = of.family
    BY DEF FieldSigner, MatchesPattern, NoSigner
  <2>4. ASSUME NEW uid \in Signers, NamedFor(of.name, of.family, uid)
        PROVE  uid \in MatchedSigners(of)
    <3>1. signer = of.name.tail
      BY <2>4 DEF FieldSigner, MatchesPattern, NamedFor
    <3>2. /\ signer # NoSigner
          /\ uid = signer \/ EncodeToString(uid) = signer
      BY <2>4, <3>1 DEF NamedFor, NoSigner
    <3> QED  BY <3>2 DEF MatchedSigners, MatchFieldSigner, SameUID
  <2> HIDE DEF signer
  <2>5. \A u, v \in MatchedSigners(of) : u = v \/ SpelledAs(u, v) \/ SpelledAs(v, u)
    BY <2>2, OneSigner
  <2> QED  BY <2>1, <2>2, <2>3, <2>5, <2>4 DEF of
<1> QED  BY <1>1, AnswersInvariant, PTL

-----------------------------------------------------------------------------
(* Sequences of whatever values.                                           *)

\* A function on 1..n is a sequence of its values.
LEMMA SeqOfValues ==
  ASSUME NEW n \in Nat, NEW f, f = [i \in 1..n |-> f[i]], NEW S, {f[i] : i \in 1..n} \subseteq S
  PROVE  f \in Seq(S) /\ Len(f) = n
<1>1. \A i \in 1..n : f[i] \in S
  OBVIOUS
<1>2. f \in [1..n -> S]
  BY <1>1
<1> QED  BY <1>2, SeqDef

\* Two texts whose first parts are equally long are equal only part by part.
LEMMA SameParts ==
  ASSUME NEW S, NEW a \in Seq(S), NEW b \in Seq(S), NEW c \in Seq(S), NEW d \in Seq(S),
         Len(a) = Len(b), a \o c = b \o d
  PROVE  a = b /\ c = d
<1>1. /\ Len(a \o c) = Len(a) + Len(c) /\ Len(b \o d) = Len(b) + Len(d)
      /\ Len(a) \in Nat /\ Len(c) \in Nat /\ Len(d) \in Nat
  BY ConcatProperties, LenProperties
<1>2. Len(c) = Len(d)
  BY <1>1
<1>3. \A i \in 1..Len(a) : a[i] = b[i]
  <2> TAKE i \in 1..Len(a)
  <2>1. (a \o c)[i] = a[i] /\ (b \o d)[i] = b[i]
    BY <1>1, ConcatProperties
  <2> QED  BY <2>1
<1>4. \A i \in 1..Len(c) : c[i] = d[i]
  <2> TAKE i \in 1..Len(c)
  <2>1. Len(a) + i \in 1..(Len(a) + Len(c)) /\ ~(Len(a) + i <= Len(a)) /\ (Len(a) + i) - Len(a) = i
    BY <1>1
  <2>2. (a \o c)[Len(a) + i] = c[i]
    BY <1>1, <2>1, ConcatProperties
  <2>3. (b \o d)[Len(a) + i] = d[i]
    BY <1>1, <1>2, <2>1, ConcatProperties
  <2> QED  BY <2>2, <2>3
<1> QED  BY <1>2, <1>3, <1>4, SeqEqual

-----------------------------------------------------------------------------
(* Dates in fields.                                                        *)

\* The day, the hour and the minute are those of the minute.
LEMMA MinuteOfClock ==
  ASSUME NEW l \in Int, NEW k \in Int, l \div Day = k \div Day,
         HourAt(l) = HourAt(k), MinuteAt(l) = MinuteAt(k)
  PROVE  l \div 60 = k \div 60
<1>1. /\ l \div 86400 = k \div 86400
      /\ (l % 86400) \div 3600 = (k % 86400) \div 3600
      /\ (l % 3600) \div 60 = (k % 3600) \div 60
  BY DEF Day, Hour, HourAt, MinuteAt
<1>2. l \div 3600 = 24 * (l \div 86400) + (l % 86400) \div 3600
  OBVIOUS
<1>3. k \div 3600 = 24 * (k \div 86400) + (k % 86400) \div 3600
  OBVIOUS
<1>4. l \div 60 = 60 * (l \div 3600) + (l % 3600) \div 60
  OBVIOUS
<1>5. k \div 60 = 60 * (k \div 3600) + (k % 3600) \div 60
  OBVIOUS
<1> QED  BY <1>1, <1>2, <1>3, <1>4, <1>5

\* A day has 24 hours.
LEMMA HourType == ASSUME NEW l \in Int PROVE HourAt(l) \in 0..23
<1>1. (l % 86400) \div 3600 \in 0..23
  OBVIOUS
<1> QED  BY <1>1 DEF HourAt, Day, Hour

\* A clock of twelve hours with its half of the day shows the hour.
LEMMA TwelveHoursTell ==
  ASSUME NEW h \in 0..23, NEW g \in 0..23, NEW m, NEW n,
         FormatTime12h(h, m) = FormatTime12h(g, n)
  PROVE  h = g /\ m = n
<1> DEFINE shown(x) == IF x = 0 THEN 12 ELSE IF x > 12 THEN x - 12 ELSE x
<1>1. shown(h) = shown(g) /\ m = n /\ HalfOfDay(h) = HalfOfDay(g)
  BY Zenon DEF FormatTime12h
<1>2. h >= 12 <=> g >= 12
  BY <1>1 DEF HalfOfDay
<1>3. h = g
  BY <1>1, <1>2
<1> QED  BY <1>1, <1>3

\* Whoever reads the same date and the same clock reads the same minute.
LEMMA DateAndClockTell ==
  ASSUME NEW l \in Int, NEW k \in Int,
         l \div Day + 1 \in DOMAIN Calendar, k \div Day + 1 \in DOMAIN Calendar,
         DateAt(l).day = DateAt(k).day, DateAt(l).month = DateAt(k).month,
         DateAt(l).year = DateAt(k).year,
         HourAt(l) = HourAt(k), MinuteAt(l) = MinuteAt(k)
  PROVE  l \div 60 = k \div 60
<1>1. l \div Day + 1 = k \div Day + 1
  BY CalendarAssumption DEF DateAt
<1>2. l \div Day \in Int /\ k \div Day \in Int
  BY DEF Day, Hour
<1> QED  BY <1>1, <1>2, MinuteOfClock

\* A layout that shows everything tells the minute.
LEMMA LayoutTells ==
  ASSUME NEW layout, ShowsAll(layout), NEW l, NEW k, Format(l, layout) = Format(k, layout)
  PROVE  /\ DateAt(l).day = DateAt(k).day /\ DateAt(l).month = DateAt(k).month
         /\ DateAt(l).year = DateAt(k).year
         /\ HourAt(l) = HourAt(k) /\ MinuteAt(l) = MinuteAt(k)
<1> DEFINE part(x, p) == CASE p = "day" -> DateAt(x).day
                           [] p = "month" -> DateAt(x).month
                           [] p = "year" -> DateAt(x).year
                           [] p = "clock" -> Clock24(x)
<1>1. \A x : Format(x, layout) = [i \in DOMAIN layout |-> part(x, layout[i])]
  BY DEF Format
<1>2. \A p \in Parts : part(l, p) = part(k, p)
  <2> TAKE p \in Parts
  <2>1. PICK i \in DOMAIN layout : layout[i] = p
    BY DEF ShowsAll, ToSet
  <2> HIDE DEF part
  <2>2. Format(l, layout)[i] = part(l, p) /\ Format(k, layout)[i] = part(k, p)
    BY <1>1, <2>1
  <2> QED  BY <2>2
<1>3. DateAt(l).day = DateAt(k).day /\ DateAt(l).month = DateAt(k).month
  BY <1>2 DEF Parts
<1>4. DateAt(l).year = DateAt(k).year
  BY <1>2 DEF Parts
<1>5. Clock24(l) = Clock24(k)
  BY <1>2 DEF Parts
<1> HIDE DEF part
<1> QED  BY <1>3, <1>4, <1>5 DEF Clock24

\* What a style writes has the same length at all times.
LEMMA LayoutType ==
  ASSUME NEW layout, ShowsAll(layout), NEW l, NEW S,
         ToSet(Format(l, layout)) \subseteq S
  PROVE  Format(l, layout) \in Seq(S) /\ Len(Format(l, layout)) = Len(layout)
<1> DEFINE f == Format(l, layout)
           part(i) == CASE layout[i] = "day" -> DateAt(l).day
                        [] layout[i] = "month" -> DateAt(l).month
                        [] layout[i] = "year" -> DateAt(l).year
                        [] layout[i] = "clock" -> Clock24(l)
<1>1. DOMAIN layout = 1..Len(layout) /\ Len(layout) \in Nat
  BY LenProperties DEF ShowsAll
<1>2. f = [i \in 1..Len(layout) |-> f[i]] /\ DOMAIN f = 1..Len(layout)
  <2>1. f = [i \in 1..Len(layout) |-> part(i)]
    BY <1>1 DEF Format
  <2> HIDE DEF part, f
  <2> QED  BY <2>1
<1> HIDE DEF f
<1>3. {f[i] : i \in 1..Len(layout)} \subseteq S
  BY <1>2 DEF ToSet, f
<1> QED  BY <1>1, <1>2, <1>3, SeqOfValues DEF f

\* A clock after four words.
LEMMA WordsAndClock ==
  ASSUME NEW a, NEW b, NEW c, NEW d, NEW e
  PROVE  <<a, b, c, d>> \o <<e>> = <<a, b, c, d, e>>
<1> DEFINE S == {a, b, c, d, e}
<1>1. <<a, b, c, d>> \in Seq(S) /\ <<e>> \in Seq(S) /\ <<a, b, c, d, e>> \in Seq(S)
  OBVIOUS
<1>2. Len(<<a, b, c, d>>) = 4 /\ Len(<<e>>) = 1 /\ Len(<<a, b, c, d, e>>) = 5
  OBVIOUS
<1> HIDE DEF S
<1>3. \A i \in 1..5 : (<<a, b, c, d>> \o <<e>>)[i] = <<a, b, c, d, e>>[i]
  <2>1. \A i \in 1..5 : (<<a, b, c, d>> \o <<e>>)[i]
                           = IF i <= 4 THEN <<a, b, c, d>>[i] ELSE <<e>>[i - 4]
    BY <1>1, <1>2, ConcatProperties
  <2>2. 1..5 = {1, 2, 3, 4, 5}
    OBVIOUS
  <2>3. \A i \in {1, 2, 3, 4} : (<<a, b, c, d>> \o <<e>>)[i] = <<a, b, c, d>>[i]
    BY <2>1
  <2>4. (<<a, b, c, d>> \o <<e>>)[5] = <<e>>[1]
    BY <2>1
  <2> QED  BY <2>2, <2>3, <2>4
<1>4. /\ <<a, b, c, d>> \o <<e>> \in Seq(S) /\ Len(<<a, b, c, d>> \o <<e>>) = 5
  BY <1>1, <1>2, ConcatProperties
<1> QED  BY <1>1, <1>2, <1>3, <1>4, SeqEqual

\* The date in the words of a style, with a clock of 24 or of twelve hours.
LEMMA WordsTell ==
  ASSUME NEW l \in Int, NEW k \in Int, NEW locale, NEW words, NEW includeTime, includeTime,
         FormatInWords(l, locale, includeTime, words)
           = FormatInWords(k, locale, includeTime, words)
  PROVE  /\ DateAt(l).day = DateAt(k).day /\ DateAt(l).month = DateAt(k).month
         /\ DateAt(l).year = DateAt(k).year
         /\ HourAt(l) = HourAt(k) /\ MinuteAt(l) = MinuteAt(k)
<1> DEFINE D(x) == DateAt(x)
<1>1. CASE Language(locale) = "fr"
  <2>1. \A x : FormatInWords(x, locale, includeTime, words)
                 = <<words, D(x).day, <<"fr", D(x).month>>, D(x).year, Clock24(x)>>
    <3> TAKE x
    <3>1. FormatInWords(x, locale, includeTime, words)
            = <<words, D(x).day, <<"fr", D(x).month>>, D(x).year>> \o <<Clock24(x)>>
      BY <1>1, Zenon DEF FormatInWords
    <3> QED  BY <3>1, WordsAndClock
  <2> DEFINE text(x) == <<words, D(x).day, <<"fr", D(x).month>>, D(x).year, Clock24(x)>>
  <2>2. text(l) = text(k)
    BY <2>1, Zenon
  <2>3. /\ D(l).day = D(k).day /\ <<"fr", D(l).month>> = <<"fr", D(k).month>>
        /\ D(l).year = D(k).year /\ Clock24(l) = Clock24(k)
    BY <2>2, Zenon
  <2> QED  BY <2>3 DEF Clock24
<1>2. CASE Language(locale) # "fr"
  <2> DEFINE clock(x) == FormatTime12h(HourAt(x), MinuteAt(x))
  <2>1. \A x : FormatInWords(x, locale, includeTime, words)
                 = <<words, <<"en", D(x).month>>, D(x).day, D(x).year, clock(x)>>
    <3> TAKE x
    <3>1. FormatInWords(x, locale, includeTime, words)
            = <<words, <<"en", D(x).month>>, D(x).day, D(x).year>> \o <<clock(x)>>
      BY <1>2, Zenon DEF FormatInWords
    <3> QED  BY <3>1, WordsAndClock
  <2> HIDE DEF clock
  <2> DEFINE text(x) == <<words, <<"en", D(x).month>>, D(x).day, D(x).year, clock(x)>>
  <2>2. text(l) = text(k)
    BY <2>1, Zenon
  <2>3. /\ D(l).day = D(k).day /\ <<"en", D(l).month>> = <<"en", D(k).month>>
        /\ D(l).year = D(k).year /\ clock(l) = clock(k)
    BY <2>2, Zenon
  <2>4. HourAt(l) = HourAt(k) /\ MinuteAt(l) = MinuteAt(k)
    BY <2>3, HourType, TwelveHoursTell DEF clock
  <2> QED  BY <2>3, <2>4
<1> QED  BY <1>1, <1>2

\* It is five words at all times.
LEMMA WordsType ==
  ASSUME NEW l, NEW locale, NEW words, NEW includeTime, includeTime,
         NEW S, ToSet(FormatInWords(l, locale, includeTime, words)) \subseteq S
  PROVE  /\ FormatInWords(l, locale, includeTime, words) \in Seq(S)
         /\ Len(FormatInWords(l, locale, includeTime, words)) = 5
<1>1. ASSUME NEW a, NEW b, NEW c, NEW d, NEW e, ToSet(<<a, b, c, d, e>>) \subseteq S
      PROVE  <<a, b, c, d, e>> \in Seq(S) /\ Len(<<a, b, c, d, e>>) = 5
  <2> DEFINE f == <<a, b, c, d, e>>
  <2>1. DOMAIN f = 1..5 /\ f = [i \in 1..5 |-> f[i]]
    OBVIOUS
  <2> HIDE DEF f
  <2>2. {f[i] : i \in 1..5} \subseteq S
    BY <1>1, <2>1 DEF ToSet, f
  <2>3. f \in Seq(S) /\ Len(f) = 5
    BY <2>1, <2>2, SeqOfValues
  <2> QED  BY <2>3 DEF f
<1>2. CASE Language(locale) = "fr"
  <2> DEFINE text == <<words, DateAt(l).day, <<"fr", DateAt(l).month>>, DateAt(l).year>>
                       \o <<Clock24(l)>>
  <2>1. FormatInWords(l, locale, includeTime, words) = text
    BY <1>2, Zenon DEF FormatInWords
  <2>2. text = <<words, DateAt(l).day, <<"fr", DateAt(l).month>>, DateAt(l).year, Clock24(l)>>
    BY WordsAndClock
  <2> HIDE DEF text
  <2> QED  BY <1>1, <2>1, <2>2
<1>3. CASE Language(locale) # "fr"
  <2> DEFINE clock == FormatTime12h(HourAt(l), MinuteAt(l))
             text == <<words, <<"en", DateAt(l).month>>, DateAt(l).day, DateAt(l).year>>
                       \o <<clock>>
  <2>1. FormatInWords(l, locale, includeTime, words) = text
    BY <1>3, Zenon DEF FormatInWords
  <2>2. text = <<words, <<"en", DateAt(l).month>>, DateAt(l).day, DateAt(l).year, clock>>
    BY WordsAndClock
  <2> HIDE DEF text, clock
  <2> QED  BY <1>1, <2>1, <2>2
<1> QED  BY <1>2, <1>3

\* A date that shows the minute is written in a layout that shows everything, or in words.
LEMMA PartCases ==
  ASSUME NEW app, ShowsMinute(app)
  PROVE  \/ \E layout : ShowsAll(layout) /\ \A x : FormatDatePart(x, app) = Format(x, layout)
         \/ \E includeTime : /\ includeTime
                             /\ \A x : FormatDatePart(x, app)
                                  = FormatInWords(x, app.locale, includeTime, app.dateStyle)
<1>1. CASE app.dateFormat # <<>>
  <2>1. ShowsAll(app.dateFormat) /\ \A x : FormatDatePart(x, app) = Format(x, app.dateFormat)
    BY <1>1, Zenon DEF FormatDatePart, ShowsMinute
  <2> QED  BY <2>1, Zenon
<1>2. CASE app.dateFormat = <<>> /\ app.dateStyle \in {"long", "human"}
  <2>1. ~app.dateOmitTime /\ app.dateStyle # "dateOnly"
    BY <1>2 DEF ShowsMinute
  <2>2. \A x : FormatDatePart(x, app)
                 = FormatInWords(x, app.locale, ~app.dateOmitTime, app.dateStyle)
    BY <1>2, <2>1, Zenon DEF FormatDatePart
  <2> QED  BY <2>1, <2>2, Zenon
<1>3. CASE app.dateFormat = <<>> /\ app.dateStyle \notin {"long", "human"}
  <2>1. app.dateStyle # "dateOnly"
    BY <1>3 DEF ShowsMinute
  <2>2. \A x : FormatDatePart(x, app) = Format(x, ResolveDateLayout(app.locale))
    BY <1>3, <2>1, Zenon DEF FormatDatePart
  <2>3. ShowsAll(ResolveDateLayout(app.locale))
    BY LayoutAssumption, Zenon DEF ResolveDateLayout
  <2> QED  BY <2>2, <2>3, Zenon
<1> QED  BY <1>1, <1>2, <1>3

\* The text of the date at two times: as long for one as for the other, and telling the minute.
LEMMA PartsTell ==
  ASSUME NEW app, ShowsMinute(app), NEW l \in Int, NEW k \in Int, NEW S,
         ToSet(FormatDatePart(l, app)) \subseteq S, ToSet(FormatDatePart(k, app)) \subseteq S
  PROVE  /\ FormatDatePart(l, app) \in Seq(S) /\ FormatDatePart(k, app) \in Seq(S)
         /\ Len(FormatDatePart(l, app)) = Len(FormatDatePart(k, app))
         /\ FormatDatePart(l, app) = FormatDatePart(k, app) =>
              /\ DateAt(l).day = DateAt(k).day /\ DateAt(l).month = DateAt(k).month
              /\ DateAt(l).year = DateAt(k).year
              /\ HourAt(l) = HourAt(k) /\ MinuteAt(l) = MinuteAt(k)
<1>1. CASE \E layout : ShowsAll(layout) /\ \A x : FormatDatePart(x, app) = Format(x, layout)
  <2>1. PICK layout : ShowsAll(layout) /\ \A x : FormatDatePart(x, app) = Format(x, layout)
    BY <1>1
  <2>2. FormatDatePart(l, app) = Format(l, layout) /\ FormatDatePart(k, app) = Format(k, layout)
    BY <2>1
  <2>3. /\ Format(l, layout) \in Seq(S) /\ Format(k, layout) \in Seq(S)
        /\ Len(Format(l, layout)) = Len(Format(k, layout))
    BY <2>1, <2>2, LayoutType
  <2> QED  BY <2>1, <2>2, <2>3, LayoutTells
<1>2. CASE \E includeTime : /\ includeTime
                            /\ \A x : FormatDatePart(x, app)
                                 = FormatInWords(x, app.locale, includeTime, app.dateStyle)
  <2>1. PICK includeTime : /\ includeTime
                           /\ \A x : FormatDatePart(x, app)
                                = FormatInWords(x, app.locale, includeTime, app.dateStyle)
    BY <1>2
  <2> DEFINE text(x) == FormatInWords(x, app.locale, includeTime, app.dateStyle)
  <2>2. FormatDatePart(l, app) = text(l) /\ FormatDatePart(k, app) = text(k)
    BY <2>1
  <2>3. text(l) \in Seq(S) /\ text(k) \in Seq(S) /\ Len(text(l)) = 5 /\ Len(text(k)) = 5
    BY <2>1, <2>2, WordsType
  <2>4. text(l) = text(k) =>
          /\ DateAt(l).day = DateAt(k).day /\ DateAt(l).month = DateAt(k).month
          /\ DateAt(l).year = DateAt(k).year
          /\ HourAt(l) = HourAt(k) /\ MinuteAt(l) = MinuteAt(k)
    <3>1. includeTime
      BY <2>1
    <3>2. SUFFICES ASSUME text(l) = text(k)
                   PROVE  /\ DateAt(l).day = DateAt(k).day
                          /\ DateAt(l).month = DateAt(k).month
                          /\ DateAt(l).year = DateAt(k).year
                          /\ HourAt(l) = HourAt(k) /\ MinuteAt(l) = MinuteAt(k)
      OBVIOUS
    <3>3. FormatInWords(l, app.locale, includeTime, app.dateStyle)
            = FormatInWords(k, app.locale, includeTime, app.dateStyle)
      BY <3>2
    <3> HIDE DEF text
    <3> QED  BY <3>1, <3>3, WordsTell, ZenonT(60)
  <2> HIDE DEF text
  <2> QED  BY <2>2, <2>3, <2>4
<1> QED  BY <1>1, <1>2, PartCases

\* An offset of whole minutes is known by its sign, hours and minutes.
LEMMA NumericOffsetTells ==
  ASSUME NEW o \in Int, NEW p \in Int, o % 60 = 0, p % 60 = 0,
         FormatNumericOffset(o) = FormatNumericOffset(p)
  PROVE  o = p
<1>1. ASSUME NEW n \in Int
      PROVE  /\ Magnitude(n) \in Nat
             /\ Magnitude(Quotient(n, Hour)) = Magnitude(n) \div Hour
             /\ Magnitude(Quotient(Remainder(n, Hour), 60)) = (Magnitude(n) % Hour) \div 60
  <2>1. CASE n >= 0
    <3>1. Magnitude(n) = n /\ Quotient(n, Hour) = n \div 3600 /\ n \div 3600 >= 0
      BY <2>1 DEF Magnitude, Quotient, Hour
    <3>2. Remainder(n, Hour) = n - 3600 * (n \div 3600)
      BY <3>1 DEF Remainder, Hour
    <3>3. n - 3600 * (n \div 3600) = n % 3600 /\ n % 3600 >= 0 /\ n % 3600 \in Int
      BY <2>1
    <3>4. Quotient(Remainder(n, Hour), 60) = (n % 3600) \div 60
      BY <3>2, <3>3 DEF Quotient
    <3>5. (n % 3600) \div 60 >= 0 /\ (n % 3600) \div 60 \in Int
      BY <3>3
    <3> QED  BY <2>1, <3>1, <3>4, <3>5 DEF Magnitude, Hour
  <2>2. CASE n < 0
    <3> DEFINE a == -n
    <3>0. a \in Int /\ a > 0 /\ n = -a
      BY <2>2
    <3> HIDE DEF a
    <3>1. Magnitude(n) = a /\ Quotient(n, Hour) = -(a \div 3600) /\ a \div 3600 >= 0
      BY <2>2, <3>0 DEF Magnitude, Quotient, Hour
    <3>2. Remainder(n, Hour) = -(a - 3600 * (a \div 3600))
      BY <3>0, <3>1 DEF Remainder, Hour
    <3>3. a - 3600 * (a \div 3600) = a % 3600 /\ a % 3600 >= 0 /\ a % 3600 \in Int
      BY <3>0
    <3>4. Quotient(Remainder(n, Hour), 60) = -((a % 3600) \div 60)
      BY <3>2, <3>3 DEF Quotient
    <3>5. (a % 3600) \div 60 >= 0 /\ (a % 3600) \div 60 \in Int /\ a \div 3600 \in Int
      BY <3>0, <3>3
    <3> QED  BY <3>0, <3>1, <3>4, <3>5 DEF Magnitude, Hour
  <2> QED  BY <2>1, <2>2
<1>2. /\ (o < 0) = (p < 0)
      /\ Magnitude(Quotient(o, Hour)) = Magnitude(Quotient(p, Hour))
      /\ Magnitude(Quotient(Remainder(o, Hour), 60)) = Magnitude(Quotient(Remainder(p, Hour), 60))
  <2>1. (IF o < 0 THEN "-" ELSE "+") = (IF p < 0 THEN "-" ELSE "+")
    BY Zenon DEF FormatNumericOffset
  <2>2. (o < 0) = (p < 0)
    BY <2>1
  <2> QED  BY <2>2, Zenon DEF FormatNumericOffset
<1> DEFINE a == Magnitude(o)
           b == Magnitude(p)
<1>3. a \in Nat /\ b \in Nat /\ a \div 3600 = b \div 3600 /\ (a % 3600) \div 60 = (b % 3600) \div 60
  <2>1. /\ a \in Nat /\ Magnitude(Quotient(o, Hour)) = a \div Hour
        /\ Magnitude(Quotient(Remainder(o, Hour), 60)) = (a % Hour) \div 60
    BY <1>1, Zenon
  <2>2. /\ b \in Nat /\ Magnitude(Quotient(p, Hour)) = b \div Hour
        /\ Magnitude(Quotient(Remainder(p, Hour), 60)) = (b % Hour) \div 60
    BY <1>1, Zenon
  <2> HIDE DEF a, b
  <2>3. /\ a \in Nat /\ b \in Nat
        /\ a \div Hour = b \div Hour /\ (a % Hour) \div 60 = (b % Hour) \div 60
    BY <1>2, <2>1, <2>2, Zenon
  <2> QED  BY <2>3 DEF Hour
<1>4. a % 60 = 0 /\ b % 60 = 0
  <2>1. \A n \in Int : n % 60 = 0 => (-n) % 60 = 0
    OBVIOUS
  <2> QED  BY <2>1 DEF Magnitude
<1> HIDE DEF a, b
<1>5. a = b
  <2>1. a = 3600 * (a \div 3600) + 60 * ((a % 3600) \div 60)
    BY <1>3, <1>4
  <2>2. b = 3600 * (b \div 3600) + 60 * ((b % 3600) \div 60)
    BY <1>3, <1>4
  <2> QED  BY <1>3, <2>1, <2>2
<1> QED  BY <1>2, <1>5 DEF a, b, Magnitude

\* A suffix is a word or a numeric offset.
LEMMA SuffixCases ==
  ASSUME NEW zone
  PROVE  \/ zone.offset = 0 /\ FormatTimezoneSuffix(zone) = <<"UTC">>
         \/ /\ zone.offset # 0 /\ IsUsableTimezoneAbbrev(zone.name)
            /\ FormatTimezoneSuffix(zone) = <<zone.name>>
         \/ /\ zone.offset # 0 /\ ~IsUsableTimezoneAbbrev(zone.name)
            /\ FormatTimezoneSuffix(zone) = FormatNumericOffset(zone.offset)
BY Zenon DEF FormatTimezoneSuffix

\* The suffix of a zone is a sequence of its parts.
LEMMA SuffixType ==
  ASSUME NEW zone, NEW S, ToSet(FormatTimezoneSuffix(zone)) \subseteq S
  PROVE  FormatTimezoneSuffix(zone) \in Seq(S)
<1>1. ASSUME NEW a, ToSet(<<a>>) \subseteq S PROVE <<a>> \in Seq(S)
  BY <1>1 DEF ToSet
<1>2. ASSUME NEW a, NEW b, NEW c, ToSet(<<a, b, c>>) \subseteq S PROVE <<a, b, c>> \in Seq(S)
  <2> DEFINE f == <<a, b, c>>
  <2>1. DOMAIN f = 1..3 /\ f = [i \in 1..3 |-> f[i]]
    OBVIOUS
  <2> HIDE DEF f
  <2>2. {f[i] : i \in 1..3} \subseteq S
    BY <1>2, <2>1 DEF ToSet, f
  <2>3. f \in Seq(S)
    BY <2>1, <2>2, SeqOfValues
  <2> QED  BY <2>3 DEF f
<1>3. CASE FormatTimezoneSuffix(zone) = FormatNumericOffset(zone.offset)
  BY <1>2, <1>3, Zenon DEF FormatNumericOffset
<1> QED  BY <1>1, <1>3, SuffixCases

\* The two zones of a location do not read the same.
LEMMA SuffixTells ==
  ASSUME NEW y, NEW z, ZoneOK(y), ZoneOK(z),
         IsUsableTimezoneAbbrev(y.name) /\ y.name = z.name => y.offset = z.offset,
         FormatTimezoneSuffix(y) = FormatTimezoneSuffix(z)
  PROVE  y.offset = z.offset
<1>1. \A a, b : <<a>> = <<b>> => a = b
  OBVIOUS
<1>2. \A a, o : <<a>> # FormatNumericOffset(o)
  <2> TAKE a, o
  <2>1. \A b, c, d : <<a>> # <<b, c, d>>
    OBVIOUS
  <2> QED  BY <2>1 DEF FormatNumericOffset
<1>3. /\ y.offset \in Int /\ y.offset % 60 = 0 /\ (y.offset # 0 => y.name # "UTC")
      /\ z.offset \in Int /\ z.offset % 60 = 0 /\ (z.offset # 0 => z.name # "UTC")
  BY DEF ZoneOK
<1>4. CASE /\ ~IsUsableTimezoneAbbrev(y.name) /\ ~IsUsableTimezoneAbbrev(z.name)
           /\ y.offset # 0 /\ z.offset # 0
  <2>1. FormatNumericOffset(y.offset) = FormatNumericOffset(z.offset)
    BY <1>4, SuffixCases, Zenon
  <2> QED  BY <1>3, <2>1, NumericOffsetTells
<1>5. CASE ~(/\ ~IsUsableTimezoneAbbrev(y.name) /\ ~IsUsableTimezoneAbbrev(z.name)
             /\ y.offset # 0 /\ z.offset # 0)
  <2> HIDE DEF FormatNumericOffset
  <2>1. /\ \/ y.offset = 0 /\ FormatTimezoneSuffix(y) = <<"UTC">>
           \/ y.offset # 0 /\ FormatTimezoneSuffix(y) = <<y.name>>
           \/ /\ y.offset # 0 /\ ~IsUsableTimezoneAbbrev(y.name)
              /\ FormatTimezoneSuffix(y) = FormatNumericOffset(y.offset)
        /\ \/ z.offset = 0 /\ FormatTimezoneSuffix(z) = <<"UTC">>
           \/ z.offset # 0 /\ FormatTimezoneSuffix(z) = <<z.name>>
           \/ /\ z.offset # 0 /\ ~IsUsableTimezoneAbbrev(z.name)
              /\ FormatTimezoneSuffix(z) = FormatNumericOffset(z.offset)
    BY SuffixCases, Zenon
  <2> QED  BY <1>1, <1>2, <1>3, <1>5, <2>1, Zenon
<1> QED  BY <1>4, <1>5

\* Two dates in a field that read the same are of the same local minute, whatever the style, the
\* locale and the location, and of the same minute if no zones of the location share a name.
THEOREM ShownDateIdentifiesMinuteAlways == Spec => []ShownDateIdentifiesMinute
<1>1. ASSUME NEW of \in FieldDates, ShowsMinute(of.app),
             FormatFillableDate(of.first, of.location, of.app)
               = FormatFillableDate(of.second, of.location, of.app)
      PROVE  /\ LocalTime(of.location, of.first) \div 60
                  = LocalTime(of.location, of.second) \div 60
             /\ HasOwnNames(of.location) => of.first \div 60 = of.second \div 60
  <2> DEFINE y == ZoneAt(of.location, of.first)
             z == ZoneAt(of.location, of.second)
             l == of.first + y.offset
             k == of.second + z.offset
             p == FormatDatePart(l, of.app)
             q == FormatDatePart(k, of.app)
             s == FormatTimezoneSuffix(y)
             t == FormatTimezoneSuffix(z)
             S == ToSet(p) \union ToSet(q) \union ToSet(s) \union ToSet(t)
  <2>1. /\ ZoneOK(of.location.before) /\ ZoneOK(of.location.after)
        /\ of.first \in Int /\ l \div Day + 1 \in DOMAIN Calendar
        /\ of.second \in Int /\ k \div Day + 1 \in DOMAIN Calendar
    BY FieldDatesAssumption DEF LocalTime
  <2>2. /\ y \in {of.location.before, of.location.after}
        /\ z \in {of.location.before, of.location.after}
    BY Zenon DEF ZoneAt
  <2>3. /\ ZoneOK(y) /\ ZoneOK(z)
        /\ HasOwnNames(of.location) =>
             (IsUsableTimezoneAbbrev(y.name) /\ y.name = z.name => y.offset = z.offset)
    BY <2>1, <2>2 DEF HasOwnNames
  <2>4. p \o s = q \o t
    BY <1>1, Zenon DEF FormatFillableDate
  <2>5. /\ y.offset \in Int /\ y.offset % 60 = 0 /\ z.offset \in Int
        /\ l \in Int /\ k \in Int
    BY <2>1, <2>3 DEF ZoneOK
  <2>12. /\ l = LocalTime(of.location, of.first) /\ k = LocalTime(of.location, of.second)
    BY Zenon DEF LocalTime
  <2> HIDE DEF y, z
  <2>6. ToSet(p) \subseteq S /\ ToSet(q) \subseteq S /\ ToSet(s) \subseteq S /\ ToSet(t) \subseteq S
    BY Zenon
  <2> HIDE DEF S
  <2>7. s \in Seq(S) /\ t \in Seq(S)
    BY <2>6, SuffixType
  <2> HIDE DEF s, t, l, k
  <2>8. /\ p \in Seq(S) /\ q \in Seq(S) /\ Len(p) = Len(q)
        /\ p = q =>
             /\ DateAt(l).day = DateAt(k).day /\ DateAt(l).month = DateAt(k).month
             /\ DateAt(l).year = DateAt(k).year
             /\ HourAt(l) = HourAt(k) /\ MinuteAt(l) = MinuteAt(k)
    <3>1. ShowsMinute(of.app)
      BY <1>1
    <3>2. ToSet(p) \subseteq S /\ ToSet(q) \subseteq S
      BY <2>6
    <3>3. l \in Int /\ k \in Int
      BY <2>5
    <3> QED  BY <3>1, <3>2, <3>3, PartsTell
  <2> HIDE DEF p, q
  <2>9. p = q /\ s = t
    BY <2>4, <2>7, <2>8, SameParts
  <2>10. HasOwnNames(of.location) => y.offset = z.offset
    BY <2>3, <2>9, SuffixTells DEF s, t
  <2>11. l \div 60 = k \div 60
    BY <2>1, <2>5, <2>8, <2>9, DateAndClockTell
  <2>13. HasOwnNames(of.location) => of.first \div 60 = of.second \div 60
    BY <2>1, <2>5, <2>10, <2>11 DEF l, k
  <2> QED  BY <2>11, <2>12, <2>13
<1>2. AnswerInv => ShownDateIdentifiesMinute
  <2> SUFFICES ASSUME AnswerInv, Returned("formatFillableDate"), ShowsMinute(arguments.of.app),
                      result[1][1] = result[1][2]
               PROVE  /\ LocalTime(arguments.of.location, arguments.of.first) \div 60
                           = LocalTime(arguments.of.location, arguments.of.second) \div 60
                      /\ HasOwnNames(arguments.of.location) =>
                           arguments.of.first \div 60 = arguments.of.second \div 60
    BY DEF ShownDateIdentifiesMinute
  <2> DEFINE of == arguments.of
  <2>1. of \in FieldDates
    BY DEF AnswerInv, Arguments, Returned
  <2>2. result[1] = DateTexts(of)
    BY DEF AnswerInv
  <2> HIDE DEF of
  <2>3. FormatFillableDate(of.first, of.location, of.app)
          = FormatFillableDate(of.second, of.location, of.app)
    BY <2>2 DEF DateTexts
  <2> QED  BY <1>1, <2>1, <2>3 DEF of
<1> QED  BY <1>2, AnswersInvariant, PTL

-----------------------------------------------------------------------------
(* Repetition.                                                             *)

\* Induction, over a set in place of a predicate.
LEMMA InductiveSet ==
  ASSUME NEW S \in SUBSET Nat, 0 \in S, \A n \in S : n + 1 \in S
  PROVE  \A n \in Nat : n \in S
<1> SUFFICES ASSUME Nat \ S # {} PROVE FALSE
  OBVIOUS
<1>1. PICK m \in Nat \ S : \A k \in Nat \ S : m <= k
  BY LeastNat
<1>2. m # 0
  BY <1>1
<1>3. m - 1 \in Nat /\ ~(m <= m - 1)
  BY <1>1, <1>2
<1>4. m - 1 \in S
  BY <1>1, <1>3
<1>5. (m - 1) + 1 = m
  BY <1>1
<1>6. m \in S
  BY <1>4, <1>5
<1> QED  BY <1>1, <1>6

\* Each value comes of the one before by a step.
Iterates(g, step) == \A n \in Nat : g[n + 1] = step[n][g[n]]

\* A step can be repeated for ever from a first value.
LEMMA Iteration ==
  \A T : \A first \in T : \A step \in [Nat -> [T -> T]] :
    \E g \in [Nat -> T] : g[0] = first /\ Iterates(g, step)
<1> TAKE T
<1> TAKE first \in T
<1> TAKE step \in [Nat -> [T -> T]]
<1> DEFINE Partial(m, g) == /\ g \in [0..m -> T] /\ g[0] = first
                            /\ \A i \in 0..(m - 1) : g[i + 1] = step[i][g[i]]
           Unique(m) == \A g, h : Partial(m, g) /\ Partial(m, h) => g = h
           S == {m \in Nat : \E g : Partial(m, g)}
           U == {m \in Nat : \A n \in Nat : n >= m =>
                   \A g, h : Partial(m, g) /\ Partial(n, h) => g[m] = h[m]}
<1>1. \A m \in Nat : m \in S
  <2>1. 0 \in S
    <3>1. Partial(0, [i \in 0..0 |-> first])
      OBVIOUS
    <3> HIDE DEF Partial
    <3> QED  BY <3>1
  <2>2. ASSUME NEW m \in S PROVE m + 1 \in S
    <3>1. m \in Nat /\ \E g : Partial(m, g)
      OBVIOUS
    <3>2. PICK g : Partial(m, g)
      BY <3>1
    <3> DEFINE h == [i \in 0..(m + 1) |-> IF i = m + 1 THEN step[m][g[m]] ELSE g[i]]
    <3>3. m \in 0..m /\ g[m] \in T /\ step[m][g[m]] \in T
      BY <3>1, <3>2
    <3>4. h \in [0..(m + 1) -> T] /\ h[0] = first
      BY <3>1, <3>2, <3>3
    <3>5. \A i \in 0..((m + 1) - 1) : h[i + 1] = step[i][h[i]]
      <4> TAKE i \in 0..((m + 1) - 1)
      <4>1. i \in 0..(m + 1) /\ i + 1 \in 0..(m + 1) /\ i # m + 1
        BY <3>1
      <4>2. CASE i = m
        BY <4>1, <4>2
      <4>3. CASE i # m
        <5>1. i \in 0..(m - 1) /\ i + 1 # m + 1
          BY <3>1, <4>3
        <5>2. g[i + 1] = step[i][g[i]]
          BY <3>2, <5>1
        <5> QED  BY <4>1, <5>1, <5>2
      <4> QED  BY <4>2, <4>3
    <3>6. Partial(m + 1, h)
      BY <3>4, <3>5
    <3> HIDE DEF Partial
    <3> QED  BY <3>1, <3>6
  <2> HIDE DEF S
  <2>3. S \in SUBSET Nat
    BY DEF S
  <2> QED  BY <2>1, <2>2, <2>3, InductiveSet
<1>2. \A m \in Nat : m \in U
  <2>1. 0 \in U
    OBVIOUS
  <2>2. ASSUME NEW m \in U PROVE m + 1 \in U
    <3>1. m \in Nat
      OBVIOUS
    <3>2. ASSUME NEW n \in Nat, n >= m + 1, NEW g, NEW h, Partial(m + 1, g), Partial(n, h)
          PROVE  g[m + 1] = h[m + 1]
      <4> DEFINE f == [i \in 0..m |-> g[i]]
      <4>1. Partial(m, f)
        BY <3>1, <3>2
      <4>2. f[m] = h[m]
        <5>1. n >= m
          BY <3>1, <3>2
        <5> HIDE DEF Partial, f
        <5> QED  BY <3>2, <4>1, <5>1
      <4>3. f[m] = g[m]
        BY <3>1
      <4>4. m \in 0..((m + 1) - 1) /\ m \in 0..(n - 1)
        BY <3>1, <3>2
      <4>5. g[m + 1] = step[m][g[m]] /\ h[m + 1] = step[m][h[m]]
        BY <3>2, <4>4
      <4> QED  BY <4>2, <4>3, <4>5
    <3> HIDE DEF Partial
    <3> QED  BY <3>1, <3>2
  <2> HIDE DEF U
  <2>3. U \in SUBSET Nat
    BY DEF U
  <2> QED  BY <2>1, <2>2, <2>3, InductiveSet
<1> DEFINE p(m) == CHOOSE g : Partial(m, g)
           r == [m \in Nat |-> p(m)[m]]
<1>3. \A m \in Nat : Partial(m, p(m))
  <2> HIDE DEF Partial
  <2>1. \A m \in Nat : \E g : Partial(m, g)
    BY <1>1
  <2> QED  BY <2>1
<1> HIDE DEF p
<1>4. r \in [Nat -> T]
  <2>1. \A m \in Nat : p(m)[m] \in T
    BY <1>3
  <2> QED  BY <2>1
<1>5. r[0] = first
  BY <1>3
<1>6. \A n \in Nat : r[n + 1] = step[n][r[n]]
  <2> TAKE n \in Nat
  <2>1. n + 1 \in Nat /\ n \in 0..((n + 1) - 1) /\ n + 1 >= n
    OBVIOUS
  <2>2. p(n + 1)[n + 1] = step[n][p(n + 1)[n]]
    BY <1>3, <2>1
  <2>3. p(n)[n] = p(n + 1)[n]
    <3> HIDE DEF Partial
    <3> QED  BY <1>2, <1>3, <2>1
  <2> QED  BY <2>1, <2>2, <2>3
<1> QED  BY <1>4, <1>5, <1>6 DEF Iterates

-----------------------------------------------------------------------------
(* Sequences of pieces.                                                    *)

\* FlattenSeq puts each piece after those before it.
LEMMA Flattened ==
  ASSUME NEW V, NEW ss \in Seq(Seq(V))
  PROVE  \E g \in [Nat -> Seq(V)] :
           /\ g[0] = <<>>
           /\ \A i \in 1..Len(ss) : g[i] = g[i - 1] \o ss[i]
           /\ FlattenSeq(ss) = g[Len(ss)]
<1> DEFINE step == [n \in Nat |-> [s \in Seq(V) |-> IF n + 1 <= Len(ss) THEN s \o ss[n + 1] ELSE s]]
<1>0. Len(ss) \in Nat /\ \A i \in 1..Len(ss) : ss[i] \in Seq(V)
  BY LenProperties, ElementOfSeq
<1>1. step \in [Nat -> [Seq(V) -> Seq(V)]]
  <2>1. \A n \in Nat, s \in Seq(V) :
          (IF n + 1 <= Len(ss) THEN s \o ss[n + 1] ELSE s) \in Seq(V)
    <3> TAKE n \in Nat, s \in Seq(V)
    <3>1. CASE n + 1 <= Len(ss)
      <4>1. ss[n + 1] \in Seq(V)
        BY <1>0, <3>1
      <4> QED  BY <3>1, <4>1, ConcatProperties
    <3> QED  BY <3>1
  <2> QED  BY <2>1
<1>2. PICK g \in [Nat -> Seq(V)] : g[0] = <<>> /\ Iterates(g, step)
  <2>1. <<>> \in Seq(V)
    OBVIOUS
  <2> HIDE DEF step
  <2> QED  BY <1>1, <2>1, Iteration
<1>3. \A i \in 1..Len(ss) : g[i] = g[i - 1] \o ss[i]
  <2> TAKE i \in 1..Len(ss)
  <2>1. i - 1 \in Nat /\ (i - 1) + 1 = i /\ i <= Len(ss)
    BY <1>0
  <2>2. g[i - 1] \in Seq(V)
    BY <2>1
  <2>3. g[i] = step[i - 1][g[i - 1]]
    BY <1>2, <2>1 DEF Iterates
  <2> QED  BY <2>1, <2>2, <2>3
<1>9. Len(ss) # 0 => g[1] = ss[1]
  <2> SUFFICES ASSUME Len(ss) # 0 PROVE g[1] = ss[1]
    OBVIOUS
  <2>1. 1 \in 1..Len(ss) /\ 1 - 1 = 0
    BY <1>0
  <2>2. g[1] = g[0] \o ss[1] /\ ss[1] \in Seq(V)
    BY <1>0, <1>3, <2>1
  <2> QED  BY <1>2, <2>2, ConcatEmptySeq
<1>4. CASE Len(ss) = 0
  <2>1. ss = <<>> /\ FlattenSeq(ss) = ss
    BY <1>4 DEF FlattenSeq
  <2> QED  BY <1>2, <1>3, <1>4, <2>1
<1>5. CASE Len(ss) # 0
  <2> DEFINE flatten[i \in 1..Len(ss)] == IF i = 1 THEN ss[i] ELSE flatten[i - 1] \o ss[i]
             IsFlatten(f) == f = [i \in 1..Len(ss) |->
                                    IF i = 1 THEN ss[i] ELSE f[i - 1] \o ss[i]]
             h == [i \in 1..Len(ss) |-> g[i]]
  <2>1. FlattenSeq(ss) = flatten[Len(ss)]
    BY <1>5 DEF FlattenSeq
  <2>2. IsFlatten(h)
    <3>1. \A i \in 1..Len(ss) : g[i] = IF i = 1 THEN ss[i] ELSE h[i - 1] \o ss[i]
      <4> TAKE i \in 1..Len(ss)
      <4>1. CASE i = 1
        BY <1>5, <1>9, <4>1
      <4>2. CASE i # 1
        <5>1. i - 1 \in 1..Len(ss)
          BY <1>0, <4>2
        <5>2. h[i - 1] = g[i - 1]
          BY <5>1
        <5> HIDE DEF h
        <5> QED  BY <1>3, <4>2, <5>2
      <4> QED  BY <4>1, <4>2
    <3> QED  BY <3>1
  <2>3. flatten = CHOOSE f : IsFlatten(f)
    OBVIOUS
  <2> HIDE DEF flatten, h
  <2>4. IsFlatten(flatten)
    <3> HIDE DEF IsFlatten
    <3> QED  BY <2>2, <2>3
  <2> DEFINE S == {n \in Nat : n \in 1..Len(ss) => flatten[n] = g[n]}
  <2>5. \A n \in Nat : n \in S
    <3>1. 0 \in S
      OBVIOUS
    <3>2. ASSUME NEW n \in S PROVE n + 1 \in S
      <4>1. n \in Nat /\ (n \in 1..Len(ss) => flatten[n] = g[n])
        OBVIOUS
      <4>2. ASSUME n + 1 \in 1..Len(ss) PROVE flatten[n + 1] = g[n + 1]
        <5>1. CASE n = 0
          <6>1. flatten[1] = ss[1]
            BY <2>4, <4>2, <5>1
          <6> QED  BY <1>5, <1>9, <5>1, <6>1
        <5>2. CASE n # 0
          <6>1. n \in 1..Len(ss) /\ (n + 1) - 1 = n /\ n + 1 # 1
            BY <1>0, <4>1, <4>2, <5>2
          <6>2. flatten[n + 1] = flatten[n] \o ss[n + 1]
            BY <2>4, <4>2, <6>1
          <6>3. g[n + 1] = g[n] \o ss[n + 1]
            BY <1>3, <4>2, <6>1
          <6> QED  BY <4>1, <6>1, <6>2, <6>3
        <5> QED  BY <5>1, <5>2
      <4> QED  BY <4>1, <4>2
    <3> HIDE DEF S
    <3>3. S \in SUBSET Nat
      BY DEF S
    <3> QED  BY <3>1, <3>2, <3>3, InductiveSet
  <2>6. flatten[Len(ss)] = g[Len(ss)]
    BY <1>0, <1>5, <2>5
  <2> QED  BY <1>2, <1>3, <2>1, <2>6
<1> QED  BY <1>4, <1>5

\* Each of the first n pieces starts where the one before it ends.
Starts(pieces, n, start) ==
  \A i \in 1..n : /\ start[i] \in Nat /\ Len(pieces[i]) \in Nat
                 /\ start[i + 1] = start[i] + Len(pieces[i])

\* A whole is one of that length and a piece behind it.
Joins(longer, longest, whole, length, piece) ==
  \A k \in 1..longest : longer[k] = IF k <= length THEN whole[k] ELSE piece[k - length]

\* The elements of the first n pieces are those of a whole of that length, each piece from its start.
Placed(pieces, n, start, whole, length) ==
  /\ \A i \in 1..n : start[i + 1] <= length
  /\ \A i \in 1..n : \A j \in 1..Len(pieces[i]) : whole[start[i] + j] = pieces[i][j]
  /\ \A k \in 1..length : \E i \in 1..n : \E j \in 1..Len(pieces[i]) : k = start[i] + j

\* A place in a piece that ends before the length of a whole is a place of the longer one.
LEMMA InPiece ==
  \A a, b, c, d, e \in Nat : c = a + b /\ c <= d /\ d <= e =>
    \A j \in 1..b : a + j <= d /\ a + j \in 1..e
OBVIOUS

\* One more piece is put after those that have their place.
LEMMA OnePlacedMore ==
  ASSUME NEW pieces, NEW n \in Nat, NEW start,
         NEW whole, NEW length \in Nat, NEW longer, NEW longest \in Nat,
         Starts(pieces, n + 1, start),
         length = start[n + 1], longest = length + Len(pieces[n + 1]),
         Joins(longer, longest, whole, length, pieces[n + 1]),
         Placed(pieces, n, start, whole, length)
  PROVE  Placed(pieces, n + 1, start, longer, longest)
<1>1. n + 1 \in 1..(n + 1) /\ Len(pieces[n + 1]) \in Nat
  BY DEF Starts
<1>2. \A i \in 1..(n + 1) : i = n + 1 \/ i \in 1..n
  OBVIOUS
<1>3. \A i \in 1..n : i \in 1..(n + 1) /\ start[i + 1] <= length
  BY DEF Placed
<1>4. \A i \in 1..(n + 1) : start[i + 1] <= longest
  <2> TAKE i \in 1..(n + 1)
  <2>1. CASE i = n + 1
    <3>1. start[i + 1] = start[i] + Len(pieces[i])
      BY DEF Starts
    <3> QED  BY <2>1, <3>1
  <2>2. CASE i \in 1..n
    <3>1. start[i + 1] <= length
      BY <1>3, <2>2
    <3>2. start[i + 1] = start[i] + Len(pieces[i]) /\ start[i] \in Nat /\ Len(pieces[i]) \in Nat
      BY DEF Starts
    <3>3. start[i + 1] \in Nat
      BY <3>2
    <3> QED  BY <1>1, <3>1, <3>3
  <2> QED  BY <1>2, <2>1, <2>2
<1>5. \A i \in 1..(n + 1) : \A j \in 1..Len(pieces[i]) : longer[start[i] + j] = pieces[i][j]
  <2> TAKE i \in 1..(n + 1)
  <2> TAKE j \in 1..Len(pieces[i])
  <2>0. /\ start[i] \in Nat /\ Len(pieces[i]) \in Nat /\ start[i + 1] \in Nat
        /\ start[i + 1] = start[i] + Len(pieces[i])
    BY DEF Starts
  <2>1. CASE i = n + 1
    <3>1. length + j \in 1..longest /\ ~(length + j <= length) /\ (length + j) - length = j
      BY <1>1, <2>1
    <3> QED  BY <2>1, <3>1 DEF Joins
  <2>2. CASE i \in 1..n
    <3>1. whole[start[i] + j] = pieces[i][j]
      BY <2>2 DEF Placed
    <3>2. start[i + 1] <= length
      BY <1>3, <2>2
    <3>3. length <= longest
      BY <1>1
    <3>4. start[i] + j <= length /\ start[i] + j \in 1..longest
      <4> DEFINE a == start[i]  b == Len(pieces[i])  c == start[i + 1]
      <4>1. a \in Nat /\ b \in Nat /\ c \in Nat /\ c = a + b /\ c <= length /\ length <= longest
        BY <2>0, <3>2, <3>3
      <4>2. j \in 1..b
        OBVIOUS
      <4> HIDE DEF a, b, c
      <4>3. a + j <= length /\ a + j \in 1..longest
        BY <4>1, <4>2, InPiece
      <4> QED  BY <4>3 DEF a
    <3> QED  BY <3>1, <3>4 DEF Joins
  <2> QED  BY <1>2, <2>1, <2>2
<1>6. \A k \in 1..longest : \E i \in 1..(n + 1) : \E j \in 1..Len(pieces[i]) : k = start[i] + j
  <2> TAKE k \in 1..longest
  <2>1. CASE k <= length
    <3>1. k \in 1..length
      BY <2>1
    <3>2. PICK i \in 1..n : \E j \in 1..Len(pieces[i]) : k = start[i] + j
      BY <3>1 DEF Placed
    <3> QED  BY <1>3, <3>2
  <2>2. CASE ~(k <= length)
    <3>1. k - length \in 1..Len(pieces[n + 1]) /\ k = start[n + 1] + (k - length)
      BY <1>1, <2>2
    <3> QED  BY <1>1, <3>1
  <2> QED  BY <2>1, <2>2
<1> QED  BY <1>4, <1>5, <1>6 DEF Placed

\* Every element of a flattened sequence is at its place in its piece, and there is no other.
LEMMA FlattenParts ==
  ASSUME NEW V, NEW ss \in Seq(Seq(V))
  PROVE  /\ FlattenSeq(ss) \in Seq(V)
         /\ \E start :
              /\ Starts(ss, Len(ss), start)
              /\ Placed(ss, Len(ss), start, FlattenSeq(ss), Len(FlattenSeq(ss)))
<1>0. Len(ss) \in Nat /\ \A i \in 1..Len(ss) : ss[i] \in Seq(V) /\ Len(ss[i]) \in Nat
  BY LenProperties, ElementOfSeq
<1>1. PICK g \in [Nat -> Seq(V)] :
        /\ g[0] = <<>>
        /\ \A i \in 1..Len(ss) : g[i] = g[i - 1] \o ss[i]
        /\ FlattenSeq(ss) = g[Len(ss)]
  BY Flattened
<1> DEFINE start == [i \in Nat |-> IF i = 0 THEN 0 ELSE Len(g[i - 1])]
<1>2. \A n \in Nat : g[n] \in Seq(V) /\ Len(g[n]) \in Nat
  BY LenProperties
<1>3. \A n \in Nat : start[n + 1] = Len(g[n])
  <2>1. \A n \in Nat : n + 1 # 0 /\ (n + 1) - 1 = n
    OBVIOUS
  <2> QED  BY <2>1
<1>4. start \in [Nat -> Nat]
  <2>1. \A n \in Nat : n # 0 => n - 1 \in Nat
    OBVIOUS
  <2> QED  BY <1>2, <2>1
<1>6. \A i \in 1..Len(ss) : start[i] \in Nat /\ start[i + 1] = start[i] + Len(ss[i])
  <2> TAKE i \in 1..Len(ss)
  <2>1. i - 1 \in Nat /\ (i - 1) + 1 = i /\ i \in Nat
    BY <1>0
  <2>2. start[i + 1] = Len(g[i]) /\ start[i] = Len(g[i - 1])
    BY <1>3, <2>1
  <2>3. Len(g[i]) = Len(g[i - 1]) + Len(ss[i])
    <3>1. g[i] = g[i - 1] \o ss[i] /\ g[i - 1] \in Seq(V) /\ ss[i] \in Seq(V)
      BY <1>0, <1>1, <2>1
    <3> QED  BY <3>1, ConcatProperties
  <2> QED  BY <1>2, <1>4, <2>1, <2>2, <2>3
<1> HIDE DEF start
<1> DEFINE Good(n) == Placed(ss, n, start, g[n], Len(g[n]))
<1>7. ASSUME NEW n \in Nat, n + 1 \in 0..Len(ss), Good(n) PROVE Good(n + 1)
  <2>1. n + 1 \in 1..Len(ss) /\ (n + 1) - 1 = n /\ n + 1 \in Nat
    BY <1>0, <1>7
  <2>2. g[n + 1] = g[n] \o ss[n + 1] /\ ss[n + 1] \in Seq(V) /\ g[n] \in Seq(V)
    BY <1>0, <1>1, <1>2, <2>1
  <2>3. /\ Len(g[n + 1]) = Len(g[n]) + Len(ss[n + 1])
        /\ \A k \in 1..(Len(g[n]) + Len(ss[n + 1])) :
             g[n + 1][k] = IF k <= Len(g[n]) THEN g[n][k] ELSE ss[n + 1][k - Len(g[n])]
    BY <2>2, ConcatProperties
  <2>4. Len(g[n]) \in Nat /\ Len(g[n + 1]) \in Nat
    BY <1>2, <2>1
  <2>5. start[n + 1] = Len(g[n])
    BY <1>3
  <2>6. \A i \in 1..(n + 1) : i \in 1..Len(ss)
    BY <1>0, <2>1
  <2>7. Starts(ss, n + 1, start)
    BY <1>0, <1>6, <2>6 DEF Starts
  <2>8. Joins(g[n + 1], Len(g[n + 1]), g[n], Len(g[n]), ss[n + 1])
    BY <2>3, Zenon DEF Joins
  <2> QED  BY <1>4, <1>7, <2>3, <2>4, <2>5, <2>7, <2>8, OnePlacedMore
<1>8. Good(Len(ss))
  <2> DEFINE S == {n \in Nat : n \in 0..Len(ss) => Good(n)}
  <2>1. 0 \in S
    <3>1. Len(g[0]) = 0
      BY <1>1
    <3> QED  BY <3>1 DEF Placed
  <2> HIDE DEF Good
  <2>2. ASSUME NEW n \in S PROVE n + 1 \in S
    <3>1. n \in Nat /\ n + 1 \in Nat /\ (n + 1 \in 0..Len(ss) => n \in 0..Len(ss))
      BY <1>0
    <3> QED  BY <1>7, <3>1
  <2> HIDE DEF S
  <2>3. S \in SUBSET Nat
    BY DEF S
  <2>4. Len(ss) \in S
    BY <1>0, <2>1, <2>2, <2>3, InductiveSet
  <2> QED  BY <1>0, <2>4 DEF S
<1>9. FlattenSeq(ss) \in Seq(V)
  BY <1>0, <1>1, <1>2
<1>10. Placed(ss, Len(ss), start, FlattenSeq(ss), Len(FlattenSeq(ss)))
  BY <1>1, <1>8, Zenon
<1>11. Starts(ss, Len(ss), start)
  BY <1>0, <1>6 DEF Starts
<1> QED  BY <1>9, <1>10, <1>11, Zenon

-----------------------------------------------------------------------------
(* Entries of a trailer.                                                   *)

\* Entry i is the last of its key.
LastOf(text, key, i) ==
  /\ i \in 1..Len(text) /\ text[i].key = key
  /\ \A j \in 1..Len(text) : text[j].key = key => j <= i

\* The entry that the reader takes is the last of the key.
LEMMA ValueOfLast ==
  ASSUME NEW text, Len(text) \in Nat, NEW key, NEW i, LastOf(text, key, i)
  PROVE  ValueOf(text, key) = text[i].value
<1> DEFINE I == {j \in 1..Len(text) : text[j].key = key}
<1>1. I \in SUBSET (0..Len(text)) /\ i \in I /\ \A j \in I : j <= i
  BY DEF LastOf
<1>2. Max(I) \in I /\ Max(I) \in Nat /\ \A j \in I : j <= Max(I)
  <2> HIDE DEF I
  <2> QED  BY <1>1, MaxOfBounded
<1>3. Max(I) = i
  <2> HIDE DEF I
  <2>1. i \in Nat
    BY DEF LastOf
  <2> QED  BY <1>1, <1>2, <2>1
<1>4. SelectLastInSeq(text, LAMBDA entry : entry.key = key) = i
  BY <1>1, <1>3, Zenon DEF SelectLastInSeq
<1>5. i # 0
  BY DEF LastOf
<1> QED  BY <1>4, <1>5 DEF ValueOf

\* A key that occurs has a last entry; of one that does not, the reader has no number.
LEMMA ValueOfAny ==
  ASSUME NEW text, Len(text) \in Nat, NEW key
  PROVE  /\ (\E i \in 1..Len(text) : text[i].key = key) => \E i : LastOf(text, key, i)
         /\ (\A i \in 1..Len(text) : text[i].key # key) => ValueOf(text, key) = NoNumber
<1> DEFINE I == {j \in 1..Len(text) : text[j].key = key}
<1>1. ASSUME NEW i \in 1..Len(text), text[i].key = key PROVE \E m : LastOf(text, key, m)
  <2>1. I \in SUBSET (0..Len(text)) /\ I # {}
    BY <1>1
  <2>2. Max(I) \in I /\ \A j \in I : j <= Max(I)
    <3> HIDE DEF I
    <3> QED  BY <2>1, MaxOfBounded
  <2>3. LastOf(text, key, Max(I))
    BY <2>2 DEF LastOf
  <2> QED  BY <2>3
<1>2. ASSUME \A i \in 1..Len(text) : text[i].key # key PROVE ValueOf(text, key) = NoNumber
  <2>1. I = {}
    BY <1>2
  <2>2. SelectLastInSeq(text, LAMBDA entry : entry.key = key) = 0
    BY <2>1, Zenon DEF SelectLastInSeq
  <2> QED  BY <2>2 DEF ValueOf
<1> QED  BY <1>1, <1>2

\* A key, its spelling and its value make an entry.
LEMMA EntryType ==
  ASSUME NEW key \in STRING, NEW plain \in BOOLEAN, NEW value \in Seq(Int)
  PROVE  [key |-> key, plain |-> plain, value |-> value] \in TrailerEntry
BY DEF TrailerEntry

\* The parts of an entry, which are all there is of it.
LEMMA EntryFields ==
  ASSUME NEW entry \in TrailerEntry
  PROVE  /\ entry.key \in STRING /\ entry.plain \in BOOLEAN /\ entry.value \in Seq(Int)
         /\ entry = [key |-> entry.key, plain |-> entry.plain, value |-> entry.value]
BY DEF TrailerEntry

\* What a replacement does to each entry.
LEMMA ReplacedEntries ==
  ASSUME NEW text \in Seq(TrailerEntry), NEW key, NEW old \in Seq(Int), NEW new \in Seq(Int)
  PROVE  LET t == ReplacedAll(text, key, old, new)
         IN /\ t \in Seq(TrailerEntry) /\ Len(t) = Len(text) /\ DOMAIN t = 1..Len(text)
            /\ \A i \in 1..Len(text) :
                 /\ t[i].key = text[i].key /\ t[i].plain = text[i].plain
                 /\ ~Occurs(text[i], key, old) => t[i] = text[i]
                 /\ text[i].key # key => t[i] = text[i]
                 /\ Occurs(text[i], key, old) /\ text[i].value = old => t[i].value = new
<1> DEFINE t == ReplacedAll(text, key, old, new)
<1>1. Len(text) \in Nat /\ DOMAIN text = 1..Len(text)
  BY LenProperties
<1>2. ASSUME NEW i \in 1..Len(text)
      PROVE  /\ t[i] \in TrailerEntry
             /\ t[i].key = text[i].key /\ t[i].plain = text[i].plain
             /\ ~Occurs(text[i], key, old) => t[i] = text[i]
             /\ text[i].key # key => t[i] = text[i]
             /\ Occurs(text[i], key, old) /\ text[i].value = old => t[i].value = new
  <2>1. /\ text[i] \in TrailerEntry
        /\ text[i].key \in STRING /\ text[i].plain \in BOOLEAN /\ text[i].value \in Seq(Int)
        /\ text[i] = [key |-> text[i].key, plain |-> text[i].plain, value |-> text[i].value]
    BY EntryFields, ElementOfSeq
  <2>2. t[i] = IF Occurs(text[i], key, old)
               THEN [text[i] EXCEPT !.value = new \o SubSeq(@, Len(old) + 1, Len(@))]
               ELSE text[i]
    BY <1>1 DEF ReplacedAll
  <2>3. CASE Occurs(text[i], key, old)
    <3> DEFINE rest == SubSeq(text[i].value, Len(old) + 1, Len(text[i].value))
    <3>1. Len(text[i].value) \in Nat
      BY <2>1, LenProperties
    <3>2. text[i].key = key
      BY <2>3 DEF Occurs
    <3>3. rest \in Seq(Int)
      <4>1. Len(old) \in Nat /\ Len(old) + 1 \in 1..(Len(text[i].value) + 1)
        <5>1. Len(old) \in Nat /\ Len(old) <= Len(text[i].value)
          BY <2>3, LenProperties DEF Occurs, IsPrefix
        <5> QED  BY <3>1, <5>1
      <4>2. \A k \in (Len(old) + 1)..Len(text[i].value) : text[i].value[k] \in Int
        BY <2>1, <3>1, <4>1, ElementOfSeq
      <4>3. Len(old) + 1 \in Int /\ Len(text[i].value) \in Int
        BY <3>1, <4>1
      <4> QED  BY <4>2, <4>3, SubSeqProperties
    <3>4. text[i].value = old => rest = <<>>
      <4>1. Len(text[i].value) + 1 \in Int /\ Len(text[i].value) < Len(text[i].value) + 1
        BY <3>1
      <4>2. SubSeq(text[i].value, Len(text[i].value) + 1, Len(text[i].value)) = <<>>
        BY <3>1, <4>1, SubSeqEmpty
      <4> QED  BY <4>2, Zenon
    <3>5. t[i] = [text[i] EXCEPT !.value = new \o rest]
      BY <2>2, <2>3
    <3> HIDE DEF t, rest
    <3>6. new \o rest \in Seq(Int) /\ (text[i].value = old => new \o rest = new)
      BY <3>3, <3>4, ConcatProperties, ConcatEmptySeq
    <3>7. t[i] = [key |-> text[i].key, plain |-> text[i].plain, value |-> new \o rest]
      BY <2>1, <3>5
    <3>9. t[i] \in TrailerEntry
      <4>1. [key |-> text[i].key, plain |-> text[i].plain, value |-> new \o rest] \in TrailerEntry
        BY <2>1, <3>6, EntryType
      <4> QED  BY <3>7, <4>1, Zenon
    <3>10. t[i].key = text[i].key /\ t[i].plain = text[i].plain /\ t[i].value = new \o rest
      BY <3>7
    <3> QED  BY <2>3, <3>2, <3>6, <3>9, <3>10, Zenon
  <2>4. CASE ~Occurs(text[i], key, old)
    <3>1. t[i] = text[i]
      BY <2>2, <2>4
    <3> HIDE DEF t
    <3> QED  BY <2>1, <2>4, <3>1
  <2> QED  BY <2>3, <2>4
<1>3. t = [i \in 1..Len(text) |-> t[i]]
  BY <1>1 DEF ReplacedAll
<1> HIDE DEF t
<1>4. t \in Seq(TrailerEntry) /\ Len(t) = Len(text) /\ DOMAIN t = 1..Len(text)
  <2>1. t \in [1..Len(text) -> TrailerEntry]
    BY <1>2, <1>3
  <2> QED  BY <1>1, <2>1, SeqDef, LenProperties
<1> QED  BY <1>2, <1>4 DEF t

\* The last entry of a key is at the same place after a replacement.
LEMMA LastReplaced ==
  ASSUME NEW text \in Seq(TrailerEntry), NEW key, NEW old \in Seq(Int), NEW new \in Seq(Int),
         NEW any, NEW i, LastOf(text, any, i)
  PROVE  LastOf(ReplacedAll(text, key, old, new), any, i)
<1> DEFINE t == ReplacedAll(text, key, old, new)
<1>1. Len(t) = Len(text) /\ \A j \in 1..Len(text) : t[j].key = text[j].key
  BY ReplacedEntries
<1> HIDE DEF t
<1>2. LastOf(t, any, i)
  BY <1>1, Zenon DEF LastOf
<1> QED  BY <1>2 DEF t

\* A value that is the whole of what is replaced is the new one.
LEMMA LastValueReplaced ==
  ASSUME NEW text \in Seq(TrailerEntry), NEW key, NEW old \in Seq(Int), NEW new \in Seq(Int),
         NEW i, LastOf(text, key, i), text[i].plain, text[i].value = old
  PROVE  ValueOf(ReplacedAll(text, key, old, new), key) = new
<1> DEFINE t == ReplacedAll(text, key, old, new)
<1>1. i \in 1..Len(text) /\ text[i].key = key
  BY Zenon DEF LastOf
<1>2. Occurs(text[i], key, old)
  <2>1. Len(old) <= Len(old)
    BY LenProperties
  <2> QED  BY <1>1, <2>1, Zenon DEF Occurs, IsPrefix
<1>3. t[i].value = new
  <2>1. Occurs(text[i], key, old) /\ text[i].value = old => t[i].value = new
    BY <1>1, ReplacedEntries
  <2> QED  BY <1>2, <2>1, Zenon
<1>4. LastOf(t, key, i)
  BY LastReplaced
<1>5. Len(t) \in Nat
  <2>1. t \in Seq(TrailerEntry)
    BY ReplacedEntries
  <2> QED  BY <2>1, LenProperties
<1> HIDE DEF t
<1>6. ValueOf(t, key) = new
  BY <1>3, <1>4, <1>5, ValueOfLast
<1> QED  BY <1>6 DEF t

\* A value of another key is not touched.
LEMMA OtherValueKept ==
  ASSUME NEW text \in Seq(TrailerEntry), NEW key, NEW old \in Seq(Int), NEW new \in Seq(Int),
         NEW other, other # key
  PROVE  ValueOf(ReplacedAll(text, key, old, new), other) = ValueOf(text, other)
<1> DEFINE t == ReplacedAll(text, key, old, new)
<1>1. /\ t \in Seq(TrailerEntry) /\ Len(t) = Len(text)
      /\ \A j \in 1..Len(text) : /\ t[j].key = text[j].key
                                 /\ text[j].key # key => t[j] = text[j]
  BY ReplacedEntries
<1>2. Len(text) \in Nat /\ Len(t) \in Nat
  BY <1>1, LenProperties
<1>3. CASE \E i \in 1..Len(text) : text[i].key = other
  <2>1. PICK i : LastOf(text, other, i)
    BY <1>2, <1>3, ValueOfAny
  <2>2. LastOf(t, other, i)
    BY <2>1, LastReplaced
  <2>3. t[i] = text[i]
    BY <1>1, <2>1 DEF LastOf
  <2> HIDE DEF t
  <2>4. ValueOf(t, other) = t[i].value
    BY <1>2, <2>2, ValueOfLast
  <2>5. ValueOf(text, other) = text[i].value
    BY <1>2, <2>1, ValueOfLast
  <2> QED  BY <2>3, <2>4, <2>5 DEF t
<1>4. CASE \A i \in 1..Len(text) : text[i].key # other
  <2> HIDE DEF t
  <2>1. \A i \in 1..Len(t) : t[i].key # other
    BY <1>1, <1>4
  <2>2. ValueOf(t, other) = NoNumber
    BY <1>2, <2>1, ValueOfAny
  <2>3. ValueOf(text, other) = NoNumber
    BY <1>2, <1>4, ValueOfAny
  <2> QED  BY <2>2, <2>3 DEF t
<1> QED  BY <1>3, <1>4

\* A piece that is not empty moves the start of those behind it.
LEMMA StartsGrow ==
  ASSUME NEW pieces, NEW n \in Nat, NEW start, Starts(pieces, n, start),
         NEW i \in 1..n, NEW m \in 1..n, i < m
  PROVE  start[i] + Len(pieces[i]) <= start[m]
<1> DEFINE S == {d \in Nat : i + 1 + d <= n => start[i + 1] <= start[i + 1 + d]}
<1>1. \A l \in 1..n : /\ start[l] \in Nat /\ Len(pieces[l]) \in Nat
                      /\ start[l + 1] = start[l] + Len(pieces[l])
  BY DEF Starts
<1>2. 0 \in S
  <2>1. ASSUME i + 1 <= n PROVE start[i + 1] <= start[i + 1]
    <3>1. i + 1 \in 1..n
      BY <2>1
    <3>2. start[i + 1] \in Nat
      BY <1>1, <3>1
    <3> QED  BY <3>2
  <2>2. i + 1 + 0 = i + 1
    OBVIOUS
  <2> QED  BY <2>1, <2>2
<1>3. ASSUME NEW d \in Nat, d \in S PROVE d + 1 \in S
  <2>1. ASSUME i + 1 + (d + 1) <= n PROVE start[i + 1] <= start[i + 1 + (d + 1)]
    <3>1. i + 1 \in 1..n /\ i + 1 + d \in 1..n /\ i + 1 + (d + 1) \in 1..n
      BY <2>1
    <3>2. i + 1 + (d + 1) = (i + 1 + d) + 1 /\ i + 1 + d <= n
      BY <2>1
    <3>3. start[i + 1] <= start[i + 1 + d]
      BY <1>3, <3>2
    <3>4. /\ start[i + 1 + d] \in Nat /\ Len(pieces[i + 1 + d]) \in Nat
          /\ start[(i + 1 + d) + 1] = start[i + 1 + d] + Len(pieces[i + 1 + d])
      BY <1>1, <3>1
    <3>5. start[i + 1] \in Nat
      BY <1>1, <3>1
    <3> QED  BY <3>2, <3>3, <3>4, <3>5
  <2> QED  BY <2>1
<1>4. \A d \in Nat : d \in S
  <2> HIDE DEF S
  <2>1. S \in SUBSET Nat
    BY DEF S
  <2>2. \A d \in S : d + 1 \in S
    BY <1>3, <2>1
  <2> QED  BY <1>2, <2>1, <2>2, InductiveSet
<1>5. m - (i + 1) \in Nat /\ i + 1 + (m - (i + 1)) = m /\ m <= n
  OBVIOUS
<1>6. start[i + 1] <= start[m]
  <2>1. m - (i + 1) \in S
    <3> HIDE DEF S
    <3> QED  BY <1>4, <1>5
  <2>2. i + 1 + (m - (i + 1)) <= n => start[i + 1] <= start[i + 1 + (m - (i + 1))]
    BY <2>1, Zenon
  <2> QED  BY <1>5, <2>2, Zenon
<1> QED  BY <1>1, <1>6

\* What WithPrev puts behind an entry that leads to the new root.
PrevAt(start) == Entry("Prev", TRUE, start)

\* An entry and what WithPrev puts behind it.
Behind(entry, root, start) ==
  <<entry>> \o IF Occurs(entry, "Root", root) THEN <<PrevAt(start)>> ELSE <<>>

\* Two pieces of one element each, one behind the other.
LEMMA PairOf ==
  ASSUME NEW S, NEW x \in S, NEW y \in S
  PROVE  /\ <<x>> \o <<y>> \in Seq(S) /\ Len(<<x>> \o <<y>>) = 2
         /\ (<<x>> \o <<y>>)[1] = x /\ (<<x>> \o <<y>>)[2] = y
<1>1. <<x>> \in Seq(S) /\ <<y>> \in Seq(S) /\ Len(<<x>>) = 1 /\ Len(<<y>>) = 1
  OBVIOUS
<1>2. 1 \in 1..(1 + 1) /\ 2 \in 1..(1 + 1) /\ ~(2 <= 1) /\ 2 - 1 = 1 /\ 1 <= 1
  OBVIOUS
<1>3. /\ <<x>> \o <<y>> \in Seq(S) /\ Len(<<x>> \o <<y>>) = Len(<<x>>) + Len(<<y>>)
      /\ \A i \in 1..(Len(<<x>>) + Len(<<y>>)) :
           (<<x>> \o <<y>>)[i] = IF i <= Len(<<x>>) THEN <<x>>[i] ELSE <<y>>[i - Len(<<x>>)]
  BY <1>1, ConcatProperties, Zenon
<1>4. <<x>>[1] = x /\ <<y>>[1] = y
  OBVIOUS
<1>5. (<<x>> \o <<y>>)[1] = x
  <2>1. (<<x>> \o <<y>>)[1] = IF 1 <= Len(<<x>>) THEN <<x>>[1] ELSE <<y>>[1 - Len(<<x>>)]
    BY <1>1, <1>2, <1>3
  <2> QED  BY <1>1, <1>2, <1>4, <2>1
<1>6. (<<x>> \o <<y>>)[2] = y
  <2>1. (<<x>> \o <<y>>)[2] = IF 2 <= Len(<<x>>) THEN <<x>>[2] ELSE <<y>>[2 - Len(<<x>>)]
    BY <1>1, <1>2, <1>3
  <2>2. ~(2 <= Len(<<x>>)) /\ 2 - Len(<<x>>) = 1
    BY <1>1
  <2> QED  BY <1>4, <2>1, <2>2, Zenon
<1> QED  BY <1>1, <1>3, <1>5, <1>6

\* An entry of the new trailer is followed by the added /Prev or by nothing.
LEMMA BehindEntry ==
  ASSUME NEW V, NEW entry \in V, NEW root, NEW start, PrevAt(start) \in V
  PROVE  LET piece == Behind(entry, root, start)
         IN /\ piece \in Seq(V) /\ (Len(piece) = 1 \/ Len(piece) = 2)
            /\ piece[1] = entry
            /\ Occurs(entry, "Root", root) => Len(piece) = 2
            /\ Len(piece) = 2 => piece[2] = PrevAt(start)
<1>1. CASE Occurs(entry, "Root", root)
  <2>1. Behind(entry, root, start) = <<entry>> \o <<PrevAt(start)>>
    BY <1>1, Zenon DEF Behind
  <2>2. /\ <<entry>> \o <<PrevAt(start)>> \in Seq(V)
        /\ Len(<<entry>> \o <<PrevAt(start)>>) = 2
        /\ (<<entry>> \o <<PrevAt(start)>>)[1] = entry
        /\ (<<entry>> \o <<PrevAt(start)>>)[2] = PrevAt(start)
    BY PairOf, SMT
  <2> QED  BY <2>1, <2>2, Zenon
<1>2. CASE ~Occurs(entry, "Root", root)
  <2>1. Behind(entry, root, start) = <<entry>> \o <<>>
    BY <1>2, Zenon DEF Behind
  <2>2. <<entry>> \in Seq(V) /\ Len(<<entry>>) = 1 /\ <<entry>>[1] = entry /\ 1 # 2
    OBVIOUS
  <2>3. Behind(entry, root, start) = <<entry>>
    BY <2>1, <2>2, ConcatEmptySeq, Zenon
  <2> QED  BY <1>2, <2>2, <2>3, Zenon
<1> QED  BY <1>1, <1>2, Zenon

\* Each piece is an element, with an addition behind it or not.
OneOrTwo(pieces, n, elements, addition) ==
  \A i \in 1..n : /\ Len(pieces[i]) = 1 \/ Len(pieces[i]) = 2
                  /\ pieces[i][1] = elements[i]
                  /\ Len(pieces[i]) = 2 => pieces[i][2] = addition

\* The places of a piece of one or two elements.
LEMMA OneOrTwoPlaces ==
  \A a, b, l \in Nat : (l = 1 \/ l = 2) /\ a + l <= b =>
    /\ 1 \in 1..l /\ (l = 2 => 2 \in 1..l)
    /\ a + 1 \in 1..b /\ (l = 2 => a + 2 \in 1..b)
    /\ a + 1 <= b
    /\ \A j \in 1..l : j = 1 \/ (j = 2 /\ l = 2)
OBVIOUS

\* The elements are in their order in the whole, an addition behind each piece of two, and no more.
AddedTo(pieces, n, at, t, length, elements, addition) ==
  /\ \A i \in 1..n : /\ at[i] \in Nat /\ at[i] + 1 \in 1..length
                     /\ t[at[i] + 1] = elements[i]
  /\ \A i \in 1..n : Len(pieces[i]) = 2 =>
       at[i] + 2 \in 1..length /\ t[at[i] + 2] = addition
  /\ \A i, m \in 1..n : i < m => at[i] + 1 <= at[m]
  /\ \A k \in 1..length : \/ \E i \in 1..n : k = at[i] + 1 /\ t[k] = elements[i]
                          \/ t[k] = addition

\* Where the elements and the additions are in the whole.
LEMMA PlacesOfPieces ==
  ASSUME NEW pieces, NEW n \in Nat, NEW at, NEW t, NEW length \in Nat, NEW elements, NEW addition,
         Starts(pieces, n, at), Placed(pieces, n, at, t, length),
         OneOrTwo(pieces, n, elements, addition)
  PROVE  AddedTo(pieces, n, at, t, length, elements, addition)
<1>1. \A i \in 1..n : /\ at[i] \in Nat /\ Len(pieces[i]) \in Nat /\ at[i] + Len(pieces[i]) <= length
                      /\ \A j \in 1..Len(pieces[i]) : t[at[i] + j] = pieces[i][j]
                      /\ Len(pieces[i]) = 1 \/ Len(pieces[i]) = 2
  BY DEF Starts, Placed, OneOrTwo
<1>2. ASSUME NEW i \in 1..n
      PROVE  /\ at[i] \in Nat /\ at[i] + 1 \in 1..length /\ t[at[i] + 1] = elements[i]
             /\ Len(pieces[i]) = 2 => at[i] + 2 \in 1..length /\ t[at[i] + 2] = addition
  <2>1. 1 \in 1..Len(pieces[i]) /\ (Len(pieces[i]) = 2 => 2 \in 1..Len(pieces[i]))
    BY <1>1, OneOrTwoPlaces, Zenon
  <2>2. at[i] + 1 \in 1..length /\ (Len(pieces[i]) = 2 => at[i] + 2 \in 1..length)
    BY <1>1, OneOrTwoPlaces, Zenon
  <2>3. t[at[i] + 1] = pieces[i][1] /\ (Len(pieces[i]) = 2 => t[at[i] + 2] = pieces[i][2])
    BY <1>1, <2>1
  <2>4. pieces[i][1] = elements[i] /\ (Len(pieces[i]) = 2 => pieces[i][2] = addition)
    BY DEF OneOrTwo
  <2> QED  BY <1>1, <2>2, <2>3, <2>4
<1>3. ASSUME NEW i \in 1..n, NEW m \in 1..n, i < m PROVE at[i] + 1 <= at[m]
  <2>1. at[i] + Len(pieces[i]) <= at[m]
    BY <1>3, StartsGrow
  <2> QED  BY <1>1, <2>1, OneOrTwoPlaces, Zenon
<1>4. ASSUME NEW k \in 1..length
      PROVE  \/ \E i \in 1..n : k = at[i] + 1 /\ t[k] = elements[i]
             \/ t[k] = addition
  <2>1. PICK i \in 1..n : \E j \in 1..Len(pieces[i]) : k = at[i] + j
    BY DEF Placed
  <2>2. PICK j \in 1..Len(pieces[i]) : k = at[i] + j
    BY <2>1
  <2>3. t[k] = pieces[i][j]
    BY <1>1, <2>2
  <2>4. j = 1 \/ (j = 2 /\ Len(pieces[i]) = 2)
    BY <1>1, OneOrTwoPlaces, Zenon
  <2>5. pieces[i][1] = elements[i] /\ (Len(pieces[i]) = 2 => pieces[i][2] = addition)
    BY DEF OneOrTwo
  <2> QED  BY <2>2, <2>3, <2>4, <2>5, Zenon
<1> QED  BY <1>2, <1>3, <1>4, Zenon DEF AddedTo

\* The entries of a trailer with /Prev are those there were, in their order, and the new ones.
Interleaves(t, text, root, start, at) ==
  /\ \A i \in 1..Len(text) : /\ at[i] \in Nat /\ at[i] + 1 \in 1..Len(t)
                             /\ t[at[i] + 1] = text[i]
  /\ \A i \in 1..Len(text) : Occurs(text[i], "Root", root) =>
       at[i] + 2 \in 1..Len(t) /\ t[at[i] + 2] = PrevAt(start)
  /\ \A i, m \in 1..Len(text) : i < m => at[i] + 1 <= at[m]
  /\ \A k \in 1..Len(t) : \/ \E i \in 1..Len(text) : k = at[i] + 1 /\ t[k] = text[i]
                          \/ t[k] = PrevAt(start)

\* The trailer with the added /Prev interleaves the old entries with it.
LEMMA WithPrevPlaces ==
  ASSUME NEW text \in Seq(TrailerEntry), NEW root, NEW start \in Seq(Int)
  PROVE  /\ Len(WithPrev(text, root, start)) \in Nat
         /\ \E at : Interleaves(WithPrev(text, root, start), text, root, start, at)
<1> DEFINE pieces == [i \in DOMAIN text |-> Behind(text[i], root, start)]
           t == WithPrev(text, root, start)
           V == TrailerEntry \union {PrevAt(start)}
<1>0. PrevAt(start) \in V
  OBVIOUS
<1>1. Len(text) \in Nat /\ DOMAIN text = 1..Len(text) /\ \A i \in 1..Len(text) : text[i] \in V
  BY LenProperties, ElementOfSeq
<1>2. ASSUME NEW i \in 1..Len(text)
      PROVE  /\ pieces[i] \in Seq(V) /\ (Len(pieces[i]) = 1 \/ Len(pieces[i]) = 2)
             /\ pieces[i][1] = text[i]
             /\ Occurs(text[i], "Root", root) => Len(pieces[i]) = 2
             /\ Len(pieces[i]) = 2 => pieces[i][2] = PrevAt(start)
  <2>1. text[i] \in V /\ pieces[i] = Behind(text[i], root, start)
    BY <1>1
  <2> HIDE DEF pieces, V
  <2> QED  BY <1>0, <2>1, BehindEntry
<1>3. pieces \in Seq(Seq(V)) /\ Len(pieces) = Len(text)
  <2>1. pieces = [i \in 1..Len(text) |-> pieces[i]]
    BY <1>1
  <2> HIDE DEF pieces, V
  <2>2. pieces \in [1..Len(text) -> Seq(V)]
    BY <1>2, <2>1, Zenon
  <2>3. pieces \in Seq(Seq(V))
    BY <1>1, <2>2, SeqDef
  <2> QED  BY <1>1, <2>2, <2>3, LenProperties
<1>4. t = FlattenSeq(pieces)
  BY DEF WithPrev, Behind, PrevAt
<1> HIDE DEF pieces, t, V
<1>5. Len(t) \in Nat
  <2>1. t \in Seq(V)
    BY <1>3, <1>4, FlattenParts
  <2> QED  BY <2>1, LenProperties
<1>6. PICK at : Starts(pieces, Len(text), at) /\ Placed(pieces, Len(text), at, t, Len(t))
  BY <1>3, <1>4, FlattenParts, Zenon
<1>7. OneOrTwo(pieces, Len(text), text, PrevAt(start))
  BY <1>2, Zenon DEF OneOrTwo
<1>8. AddedTo(pieces, Len(text), at, t, Len(t), text, PrevAt(start))
  BY <1>1, <1>5, <1>6, <1>7, PlacesOfPieces
<1>9. \A i \in 1..Len(text) : Occurs(text[i], "Root", root) =>
        at[i] + 2 \in 1..Len(t) /\ t[at[i] + 2] = PrevAt(start)
  BY <1>2, <1>8, Zenon DEF AddedTo
<1>10. Interleaves(t, text, root, start, at)
  BY <1>8, <1>9, Zenon DEF AddedTo, Interleaves
<1> QED  BY <1>5, <1>10, Zenon DEF t

\* The key and the value of the added entry.
LEMMA PrevEntry ==
  ASSUME NEW start
  PROVE  PrevAt(start).key = "Prev" /\ PrevAt(start).value = start
BY DEF PrevAt, Entry

\* A /Prev behind a /Root leaves the other values as they were.
LEMMA WithPrevKeeps ==
  ASSUME NEW text \in Seq(TrailerEntry), NEW root, NEW start \in Seq(Int), NEW other, other # "Prev"
  PROVE  ValueOf(WithPrev(text, root, start), other) = ValueOf(text, other)
<1> DEFINE t == WithPrev(text, root, start)
<1>1. Len(t) \in Nat /\ \E at : Interleaves(t, text, root, start, at)
  BY WithPrevPlaces
<1> HIDE DEF t
<1>2. Len(text) \in Nat
  BY LenProperties
<1>3. PICK at :
        /\ \A i \in 1..Len(text) : at[i] \in Nat /\ at[i] + 1 \in 1..Len(t) /\ t[at[i] + 1] = text[i]
        /\ \A i, m \in 1..Len(text) : i < m => at[i] + 1 <= at[m]
        /\ \A k \in 1..Len(t) : \/ \E i \in 1..Len(text) : k = at[i] + 1 /\ t[k] = text[i]
                                \/ t[k] = PrevAt(start)
  BY <1>1, Zenon DEF Interleaves
<1>4. \A k \in 1..Len(t) : t[k].key = other => \E i \in 1..Len(text) : k = at[i] + 1 /\ t[k] = text[i]
  BY <1>3, PrevEntry, Zenon
<1>5. CASE \E i \in 1..Len(text) : text[i].key = other
  <2>1. PICK i : LastOf(text, other, i)
    BY <1>2, <1>5, ValueOfAny
  <2>2. i \in 1..Len(text) /\ text[i].key = other /\ \A j \in 1..Len(text) : text[j].key = other => j <= i
    BY <2>1, Zenon DEF LastOf
  <2>3. at[i] \in Nat /\ at[i] + 1 \in 1..Len(t) /\ t[at[i] + 1] = text[i]
    BY <1>3, <2>2, Zenon
  <2>4. ASSUME NEW k \in 1..Len(t), t[k].key = other PROVE k <= at[i] + 1
    <3>1. PICK m \in 1..Len(text) : k = at[m] + 1 /\ t[k] = text[m]
      BY <1>4, <2>4, Zenon
    <3>2. m <= i
      BY <2>2, <2>4, <3>1, Zenon
    <3>3. CASE m = i
      <4>1. at[i] + 1 <= at[i] + 1
        BY <2>3
      <4> QED  BY <3>1, <3>3, <4>1, Zenon
    <3>4. CASE m # i
      <4>1. m < i
        BY <2>2, <3>2, <3>4
      <4>2. at[m] + 1 <= at[i] /\ at[m] \in Nat
        BY <1>3, <2>2, <4>1, Zenon
      <4> QED  BY <2>3, <3>1, <4>2
    <3> QED  BY <3>3, <3>4
  <2>5. LastOf(t, other, at[i] + 1)
    BY <2>2, <2>3, <2>4, Zenon DEF LastOf
  <2>6. ValueOf(t, other) = t[at[i] + 1].value
    BY <1>1, <2>5, ValueOfLast
  <2>7. ValueOf(text, other) = text[i].value
    BY <1>2, <2>1, ValueOfLast
  <2> QED  BY <2>3, <2>6, <2>7 DEF t
<1>6. CASE \A i \in 1..Len(text) : text[i].key # other
  <2>1. \A k \in 1..Len(t) : t[k].key # other
    BY <1>4, <1>6, Zenon
  <2>2. ValueOf(t, other) = NoNumber
    BY <1>1, <2>1, ValueOfAny
  <2>3. ValueOf(text, other) = NoNumber
    BY <1>2, <1>6, ValueOfAny
  <2> QED  BY <2>2, <2>3 DEF t
<1> QED  BY <1>5, <1>6

\* Where there was no /Prev, the one behind a /Root is the only value.
LEMMA WithPrevAdds ==
  ASSUME NEW text \in Seq(TrailerEntry), NEW root, NEW start \in Seq(Int),
         \A i \in 1..Len(text) : text[i].key # "Prev",
         NEW i \in 1..Len(text), Occurs(text[i], "Root", root)
  PROVE  ValueOf(WithPrev(text, root, start), "Prev") = start
<1> DEFINE t == WithPrev(text, root, start)
<1>1. Len(t) \in Nat /\ \E at : Interleaves(t, text, root, start, at)
  BY WithPrevPlaces
<1> HIDE DEF t
<1>2. PICK at :
        /\ \A m \in 1..Len(text) : Occurs(text[m], "Root", root) =>
             at[m] + 2 \in 1..Len(t) /\ t[at[m] + 2] = PrevAt(start)
        /\ \A k \in 1..Len(t) : \/ \E m \in 1..Len(text) : k = at[m] + 1 /\ t[k] = text[m]
                                \/ t[k] = PrevAt(start)
  BY <1>1, Zenon DEF Interleaves
<1>3. at[i] + 2 \in 1..Len(t) /\ t[at[i] + 2].key = "Prev"
  BY <1>2, PrevEntry, Zenon
<1>4. PICK k : LastOf(t, "Prev", k)
  BY <1>1, <1>3, ValueOfAny
<1>5. k \in 1..Len(t) /\ t[k].key = "Prev"
  BY <1>4, Zenon DEF LastOf
<1>6. t[k] = PrevAt(start)
  BY <1>2, <1>5, Zenon
<1>7. ValueOf(t, "Prev") = t[k].value
  BY <1>1, <1>4, ValueOfLast
<1> QED  BY <1>6, <1>7, PrevEntry DEF t

\* What the reader takes is a sequence of digits.
LEMMA ValueOfType ==
  ASSUME NEW text \in Seq(TrailerEntry), NEW key
  PROVE  ValueOf(text, key) \in Seq(Int)
<1>1. Len(text) \in Nat
  BY LenProperties
<1>2. CASE \E i \in 1..Len(text) : text[i].key = key
  <2>1. PICK i : LastOf(text, key, i)
    BY <1>1, <1>2, ValueOfAny
  <2>2. ValueOf(text, key) = text[i].value
    BY <1>1, <2>1, ValueOfLast
  <2>3. i \in 1..Len(text)
    BY <2>1, Zenon DEF LastOf
  <2>4. text[i] \in TrailerEntry
    BY <2>3, ElementOfSeq
  <2> QED  BY <2>2, <2>4, EntryFields
<1>3. CASE \A i \in 1..Len(text) : text[i].key # key
  <2>1. ValueOf(text, key) = NoNumber
    BY <1>1, <1>3, ValueOfAny
  <2>2. NoNumber \in Seq(Int)
    BY DEF NoNumber
  <2> QED  BY <2>1, <2>2
<1> QED  BY <1>2, <1>3

-----------------------------------------------------------------------------
(* Decimal digits.                                                         *)

\* The tenth part of a number of two digits or more is a smaller number.
LEMMA Tenth ==
  \A n \in Nat : n \div 10 \in Nat /\ n % 10 \in Nat /\ (~(n < 10) => n \div 10 < n)
OBVIOUS

\* One equation of the digits of a number, from those of its tenth part.
DigitsFrom(f, n) == IF n < 10 THEN <<n>> ELSE Append(f[n \div 10], n % 10)

\* The digits of a number are numbers when those of its tenth part are.
LEMMA DigitsFromType ==
  ASSUME NEW f \in [Nat -> Seq(Nat)], NEW n \in Nat
  PROVE  DigitsFrom(f, n) \in Seq(Nat)
<1>1. n \div 10 \in Nat /\ n % 10 \in Nat
  BY Tenth
<1>2. f[n \div 10] \in Seq(Nat)
  BY <1>1
<1>3. Append(f[n \div 10], n % 10) \in Seq(Nat)
  BY <1>1, <1>2, AppendProperties
<1> QED  BY <1>3 DEF DigitsFrom

\* There is a function with the equation of Decimal.
LEMMA DigitsExist ==
  \E d \in [Nat -> Seq(Nat)] : \A n \in Nat : d[n] = DigitsFrom(d, n)
<1> DEFINE F == [Nat -> Seq(Nat)]
           first == [n \in Nat |-> <<>>]
           step == [m \in Nat |-> [f \in F |-> [n \in Nat |-> DigitsFrom(f, n)]]]
<1>1. first \in F
  OBVIOUS
<1>2. step \in [Nat -> [F -> F]]
  BY DigitsFromType
<1>3. PICK g \in [Nat -> F] : g[0] = first /\ Iterates(g, step)
  <2> HIDE DEF F, first, step
  <2> QED  BY <1>1, <1>2, Iteration
<1>4. \A m \in Nat : g[m] \in F
  OBVIOUS
<1>5. \A m, n \in Nat : g[m + 1][n] = DigitsFrom(g[m], n)
  <2> TAKE m, n \in Nat
  <2>1. g[m + 1] = step[m][g[m]]
    BY <1>3 DEF Iterates
  <2> QED  BY <1>4, <2>1
<1> HIDE DEF F, first, step
<1> DEFINE Stable(m) == \A n \in Nat : n < m => g[m][n] = g[n + 1][n]
           S == {m \in Nat : \A k \in 0..m : Stable(k)}
<1>6. \A m \in Nat : Stable(m)
  <2>1. 0 \in S
    <3>1. \A k \in 0..0 : \A n \in Nat : ~(n < k)
      OBVIOUS
    <3> QED  BY <3>1
  <2>2. ASSUME NEW m \in Nat, m \in S PROVE m + 1 \in S
    <3>1. Stable(m + 1)
      <4>1. ASSUME NEW n \in Nat, n < m + 1 PROVE g[m + 1][n] = g[n + 1][n]
        <5>1. CASE n = m
          BY <5>1
        <5>2. CASE n < m
          <6>1. g[m + 1][n] = DigitsFrom(g[m], n) /\ g[n + 1][n] = DigitsFrom(g[n], n)
            BY <1>5
          <6>2. ASSUME ~(n < 10) PROVE g[m][n \div 10] = g[n][n \div 10]
            <7>1. n \div 10 \in Nat /\ n \div 10 < n
              BY <6>2, Tenth
            <7>2. m \in 0..m /\ n \in 0..m /\ n \div 10 < m
              BY <5>2, <7>1
            <7>3. Stable(m) /\ Stable(n)
              BY <2>2, <7>2
            <7> QED  BY <7>1, <7>2, <7>3, Zenon
          <6> QED  BY <6>1, <6>2, Zenon DEF DigitsFrom
        <5>3. n = m \/ n < m
          BY <4>1
        <5> QED  BY <5>1, <5>2, <5>3
      <4> QED  BY <4>1
    <3>2. \A k \in 0..(m + 1) : k = m + 1 \/ k \in 0..m
      OBVIOUS
    <3>3. \A k \in 0..(m + 1) : Stable(k)
      <4> HIDE DEF Stable
      <4> QED  BY <2>2, <3>1, <3>2
    <3> HIDE DEF Stable
    <3> QED  BY <3>3
  <2> HIDE DEF S
  <2>3. S \in SUBSET Nat
    BY DEF S
  <2>4. \A m \in S : m + 1 \in S
    BY <2>2, <2>3
  <2>5. \A m \in Nat : m \in S
    BY <2>1, <2>3, <2>4, InductiveSet
  <2>6. \A m \in Nat : m \in 0..m
    OBVIOUS
  <2> HIDE DEF Stable
  <2> QED  BY <2>5, <2>6 DEF S
<1> DEFINE d == [n \in Nat |-> g[n + 1][n]]
<1>7. d \in [Nat -> Seq(Nat)]
  <2>1. \A n \in Nat : g[n + 1][n] \in Seq(Nat)
    BY <1>4 DEF F
  <2> QED  BY <2>1
<1>8. ASSUME NEW n \in Nat PROVE d[n] = DigitsFrom(d, n)
  <2>1. d[n] = DigitsFrom(g[n], n)
    BY <1>5
  <2>2. ASSUME ~(n < 10) PROVE g[n][n \div 10] = d[n \div 10]
    <3>1. n \div 10 \in Nat /\ n \div 10 < n
      BY <2>2, Tenth
    <3>2. Stable(n)
      BY <1>6
    <3>3. g[n][n \div 10] = g[n \div 10 + 1][n \div 10]
      BY <3>1, <3>2, Zenon
    <3> QED  BY <3>1, <3>3
  <2> HIDE DEF d
  <2> QED  BY <2>1, <2>2, Zenon DEF DigitsFrom
<1> QED  BY <1>7, <1>8

\* The digits of every number satisfy that equation.
LEMMA DecimalDigits ==
  \A n \in Nat : Decimal[n] = DigitsFrom(Decimal, n)
<1> DEFINE IsDecimal(f) == f = [n \in Nat |-> IF n < 10 THEN <<n>> ELSE Append(f[n \div 10], n % 10)]
<1>1. PICK d \in [Nat -> Seq(Nat)] : \A n \in Nat : d[n] = DigitsFrom(d, n)
  BY DigitsExist
<1>2. IsDecimal(d)
  BY <1>1 DEF DigitsFrom
<1>3. Decimal = CHOOSE f : IsDecimal(f)
  BY DEF Decimal
<1>4. IsDecimal(Decimal)
  <2> HIDE DEF IsDecimal
  <2> QED  BY <1>2, <1>3
<1>5. \A n \in Nat : Decimal[n] = IF n < 10 THEN <<n>> ELSE Append(Decimal[n \div 10], n % 10)
  BY <1>4
<1> QED  BY <1>5 DEF DigitsFrom

\* A number is written with digits that are no sign, so it is not what the reader has of no key.
LEMMA DecimalType ==
  \A n \in Nat : Decimal[n] \in Seq(Nat)
<1> DEFINE S == {n \in Nat : \A k \in 0..n : Decimal[k] \in Seq(Nat)}
<1>1. \A k \in Nat : k < 10 => Decimal[k] \in Seq(Nat)
  <2> SUFFICES ASSUME NEW k \in Nat, k < 10 PROVE Decimal[k] \in Seq(Nat)
    OBVIOUS
  <2>1. Decimal[k] = <<k>>
    BY DecimalDigits DEF DigitsFrom
  <2>2. <<k>> \in Seq(Nat)
    OBVIOUS
  <2> QED  BY <2>1, <2>2
<1>2. 0 \in S
  BY <1>1
<1>3. ASSUME NEW n \in Nat, n \in S PROVE n + 1 \in S
  <2>1. Decimal[n + 1] \in Seq(Nat)
    <3>1. CASE n + 1 < 10
      BY <1>1, <3>1
    <3>2. CASE ~(n + 1 < 10)
      <4>1. n + 1 \in Nat
        OBVIOUS
      <4>2. (n + 1) \div 10 \in Nat /\ (n + 1) % 10 \in Nat /\ (n + 1) \div 10 < n + 1
        BY <3>2, <4>1, Tenth
      <4>3. (n + 1) \div 10 \in 0..n
        BY <4>2
      <4>4. Decimal[(n + 1) \div 10] \in Seq(Nat)
        BY <1>3, <4>3
      <4>5. Decimal[n + 1] = Append(Decimal[(n + 1) \div 10], (n + 1) % 10)
        BY <3>2, <4>1, DecimalDigits DEF DigitsFrom
      <4> QED  BY <4>2, <4>4, <4>5, AppendProperties
    <3> QED  BY <3>1, <3>2
  <2>2. \A k \in 0..(n + 1) : k = n + 1 \/ k \in 0..n
    OBVIOUS
  <2> QED  BY <1>3, <2>1, <2>2
<1> HIDE DEF S
<1>4. S \in SUBSET Nat
  BY DEF S
<1>5. \A n \in S : n + 1 \in S
  BY <1>3, <1>4
<1>6. \A n \in Nat : n \in S
  BY <1>2, <1>4, <1>5, InductiveSet
<1>7. \A n \in Nat : n \in 0..n
  OBVIOUS
<1> QED  BY <1>6, <1>7 DEF S

-----------------------------------------------------------------------------
(* The new trailer.                                                        *)

\* The new /Prev, if the old ones have one space behind them: it is put in the place of the old
\* one, or there was none and it is put behind the root.
LEMMA NewPrevLeads ==
  ASSUME NEW text \in Seq(TrailerEntry), NEW root, NEW start \in Seq(Int),
         NEW last, LastOf(text, "Root", last), text[last].plain, text[last].value = root,
         root \in Seq(Int), WrittenPlainly(text, "Prev")
  PROVE  ValueOf(NewPrev(text, ValueOf(text, "Prev"), root, start), "Prev") = start
<1> DEFINE prev == ValueOf(text, "Prev")
<1>1. Len(text) \in Nat /\ DOMAIN text = 1..Len(text)
  BY LenProperties
<1>2. prev \in Seq(Int)
  BY ValueOfType
<1>3. CASE \E i \in 1..Len(text) : text[i].key = "Prev"
  <2>1. PICK i : LastOf(text, "Prev", i)
    BY <1>1, <1>3, ValueOfAny
  <2>2. i \in 1..Len(text) /\ text[i].key = "Prev"
    BY <2>1, Zenon DEF LastOf
  <2>3. prev = text[i].value
    BY <1>1, <2>1, ValueOfLast
  <2>4. text[i].plain
    BY <1>1, <2>2, Zenon DEF WrittenPlainly
  <2> HIDE DEF prev
  <2>5. Len(prev) <= Len(prev)
    BY <1>2, LenProperties
  <2>6. Occurs(text[i], "Prev", prev)
    BY <2>2, <2>3, <2>4, <2>5, Zenon DEF Occurs, IsPrefix
  <2>7. NewPrev(text, prev, root, start) = ReplacedAll(text, "Prev", prev, start)
    BY <1>1, <2>2, <2>6, Zenon DEF NewPrev
  <2>8. ValueOf(ReplacedAll(text, "Prev", prev, start), "Prev") = start
    BY <1>2, <2>1, <2>3, <2>4, LastValueReplaced
  <2> QED  BY <2>7, <2>8 DEF prev
<1>4. CASE \A i \in 1..Len(text) : text[i].key # "Prev"
  <2> HIDE DEF prev
  <2>1. NewPrev(text, prev, root, start) = WithPrev(text, root, start)
    BY <1>1, <1>4, Zenon DEF NewPrev, Occurs
  <2>2. last \in 1..Len(text) /\ text[last].key = "Root"
    BY Zenon DEF LastOf
  <2>3. Len(root) <= Len(root)
    BY LenProperties
  <2>4. Occurs(text[last], "Root", root)
    BY <2>2, <2>3, Zenon DEF Occurs, IsPrefix
  <2>5. ValueOf(WithPrev(text, root, start), "Prev") = start
    BY <1>4, <2>2, <2>4, WithPrevAdds
  <2> QED  BY <2>1, <2>5 DEF prev
<1> QED  BY <1>3, <1>4

\* The new /Prev leaves the other values as they were.
LEMMA NewPrevKeeps ==
  ASSUME NEW text \in Seq(TrailerEntry), NEW prev \in Seq(Int), NEW root, NEW start \in Seq(Int),
         NEW other, other # "Prev"
  PROVE  ValueOf(NewPrev(text, prev, root, start), other) = ValueOf(text, other)
<1>1. ValueOf(ReplacedAll(text, "Prev", prev, start), other) = ValueOf(text, other)
  BY OtherValueKept
<1>2. ValueOf(WithPrev(text, root, start), other) = ValueOf(text, other)
  BY WithPrevKeeps
<1> QED  BY <1>1, <1>2, Zenon DEF NewPrev

\* What a replacement leaves plain.
LEMMA PlainlyReplaced ==
  ASSUME NEW text \in Seq(TrailerEntry), NEW key, NEW old \in Seq(Int), NEW new \in Seq(Int),
         NEW any, WrittenPlainly(text, any)
  PROVE  WrittenPlainly(ReplacedAll(text, key, old, new), any)
<1> DEFINE t == ReplacedAll(text, key, old, new)
<1>1. /\ DOMAIN t = 1..Len(text) /\ DOMAIN text = 1..Len(text)
      /\ \A i \in 1..Len(text) : t[i].key = text[i].key /\ t[i].plain = text[i].plain
  BY ReplacedEntries, LenProperties
<1> HIDE DEF t
<1>2. WrittenPlainly(t, any)
  BY <1>1, Zenon DEF WrittenPlainly
<1> QED  BY <1>2 DEF t

\* A new trailer leads to the new root and to the section before, and counts the new objects.
LEMMA NewTrailerLeads ==
  ASSUME NEW of \in Trailers
  PROVE  LET t == NewTrailer(of.text, of.itemCount, of.added, of.newRoot, of.start)
             plain == WrittenPlainly(of.text, "Root") /\ WrittenPlainly(of.text, "Prev")
             counted == /\ WrittenPlainly(of.text, "Size")
                        /\ ValueOf(of.text, "Size") = Decimal[of.itemCount]
         IN /\ plain => ValueOf(t, "Root") = of.newRoot /\ ValueOf(t, "Prev") = of.start
            /\ counted => ValueOf(t, "Size") = Decimal[of.itemCount + of.added + 1]
<1> DEFINE text == of.text
           old == ValueOf(text, "Root")
           withRoot == ReplacedAll(text, "Root", old, of.newRoot)
           count == Decimal[of.itemCount]
           size == Decimal[of.itemCount + of.added + 1]
           withSize == ReplacedAll(withRoot, "Size", count, size)
           prev == ValueOf(text, "Prev")
           t == NewPrev(withSize, prev, of.newRoot, of.start)
<1>1. /\ text \in Seq(TrailerEntry) /\ \E i \in DOMAIN text : text[i].key = "Root"
      /\ of.itemCount \in Nat /\ of.added \in Nat /\ of.newRoot \in Seq(Int) /\ of.start \in Seq(Int)
  BY TrailersAssumption
<1>2. NewTrailer(of.text, of.itemCount, of.added, of.newRoot, of.start) = t
  BY DEF NewTrailer
<1>3. Len(text) \in Nat /\ DOMAIN text = 1..Len(text) /\ old \in Seq(Int) /\ prev \in Seq(Int)
  BY <1>1, ValueOfType, LenProperties
<1>4. count \in Seq(Int) /\ size \in Seq(Int) /\ count \in Seq(Nat)
  <2>1. of.itemCount + of.added + 1 \in Nat
    BY <1>1
  <2>2. count \in Seq(Nat) /\ size \in Seq(Nat)
    BY <1>1, <2>1, DecimalType
  <2>3. Seq(Nat) \subseteq Seq(Int)
    OBVIOUS
  <2> QED  BY <2>2, <2>3
<1> HIDE DEF text, old, count, size, prev
<1>5. withRoot \in Seq(TrailerEntry)
  BY <1>1, <1>3, ReplacedEntries
<1>6. withSize \in Seq(TrailerEntry)
  <2> HIDE DEF withRoot
  <2> QED  BY <1>4, <1>5, ReplacedEntries
<1>7. PICK last : LastOf(text, "Root", last)
  BY <1>1, <1>3, ValueOfAny
<1>8. last \in 1..Len(text) /\ text[last].key = "Root" /\ old = text[last].value
  <2>1. last \in 1..Len(text) /\ text[last].key = "Root"
    BY <1>7, Zenon DEF LastOf
  <2>2. ValueOf(text, "Root") = text[last].value
    BY <1>3, <1>7, ValueOfLast
  <2> QED  BY <2>1, <2>2 DEF old
<1>9. ValueOf(withSize, "Prev") = prev
  <2>1. ValueOf(withRoot, "Prev") = ValueOf(text, "Prev")
    BY <1>1, <1>3, OtherValueKept
  <2> HIDE DEF withRoot
  <2>2. ValueOf(withSize, "Prev") = ValueOf(withRoot, "Prev")
    BY <1>4, <1>5, OtherValueKept
  <2> QED  BY <2>1, <2>2 DEF prev
<1>10. ASSUME WrittenPlainly(text, "Root"), WrittenPlainly(text, "Prev")
       PROVE  ValueOf(t, "Root") = of.newRoot /\ ValueOf(t, "Prev") = of.start
  <2>1. text[last].plain
    BY <1>3, <1>8, <1>10, Zenon DEF WrittenPlainly
  <2>2. ValueOf(withRoot, "Root") = of.newRoot
    BY <1>1, <1>3, <1>7, <1>8, <2>1, LastValueReplaced
  <2>3. LastOf(withRoot, "Root", last)
    BY <1>1, <1>3, <1>7, LastReplaced
  <2>4. WrittenPlainly(withRoot, "Prev") /\ WrittenPlainly(withRoot, "Root")
    BY <1>1, <1>3, <1>10, PlainlyReplaced
  <2> HIDE DEF withRoot
  <2>5. ValueOf(withSize, "Root") = of.newRoot
    <3>1. ValueOf(withSize, "Root") = ValueOf(withRoot, "Root")
      BY <1>4, <1>5, OtherValueKept
    <3> QED  BY <2>2, <3>1
  <2>6. LastOf(withSize, "Root", last)
    BY <1>4, <1>5, <2>3, LastReplaced
  <2>7. WrittenPlainly(withSize, "Prev") /\ WrittenPlainly(withSize, "Root")
    BY <1>4, <1>5, <2>4, PlainlyReplaced
  <2> HIDE DEF withSize
  <2>8. Len(withSize) \in Nat /\ DOMAIN withSize = 1..Len(withSize)
    BY <1>6, LenProperties
  <2>9. withSize[last].value = of.newRoot /\ withSize[last].plain
    <3>1. ValueOf(withSize, "Root") = withSize[last].value
      BY <2>6, <2>8, ValueOfLast
    <3>2. last \in 1..Len(withSize) /\ withSize[last].key = "Root"
      BY <2>6, Zenon DEF LastOf
    <3>3. withSize[last].plain
      BY <2>7, <2>8, <3>2, Zenon DEF WrittenPlainly
    <3> QED  BY <2>5, <3>1, <3>3, Zenon
  <2>10. ValueOf(NewPrev(withSize, ValueOf(withSize, "Prev"), of.newRoot, of.start), "Prev") = of.start
    BY <1>1, <1>6, <2>6, <2>7, <2>9, NewPrevLeads
  <2>11. ValueOf(t, "Root") = ValueOf(withSize, "Root")
    BY <1>1, <1>3, <1>6, NewPrevKeeps
  <2> QED  BY <1>9, <2>5, <2>10, <2>11, Zenon
<1>11. ASSUME WrittenPlainly(text, "Size"), ValueOf(text, "Size") = count
       PROVE  ValueOf(t, "Size") = size
  <2>1. ValueOf(withRoot, "Size") = count
    <3>1. ValueOf(withRoot, "Size") = ValueOf(text, "Size")
      BY <1>1, <1>3, OtherValueKept
    <3> QED  BY <1>11, <3>1
  <2>2. WrittenPlainly(withRoot, "Size")
    BY <1>1, <1>3, <1>11, PlainlyReplaced
  <2> HIDE DEF withRoot
  <2>3. Len(withRoot) \in Nat /\ DOMAIN withRoot = 1..Len(withRoot)
    BY <1>5, LenProperties
  <2>4. CASE \E i \in 1..Len(withRoot) : withRoot[i].key = "Size"
    <3>1. PICK i : LastOf(withRoot, "Size", i)
      BY <2>3, <2>4, ValueOfAny
    <3>2. i \in 1..Len(withRoot) /\ withRoot[i].key = "Size"
      BY <3>1, Zenon DEF LastOf
    <3>3. withRoot[i].plain
      BY <2>2, <2>3, <3>2, Zenon DEF WrittenPlainly
    <3>4. withRoot[i].value = count
      <4>1. ValueOf(withRoot, "Size") = withRoot[i].value
        BY <2>3, <3>1, ValueOfLast
      <4> QED  BY <2>1, <4>1
    <3>5. ValueOf(withSize, "Size") = size
      BY <1>4, <1>5, <3>1, <3>3, <3>4, LastValueReplaced
    <3> HIDE DEF withSize
    <3>6. ValueOf(t, "Size") = ValueOf(withSize, "Size")
      BY <1>1, <1>3, <1>6, NewPrevKeeps
    <3> QED  BY <3>5, <3>6
  <2>5. CASE \A i \in 1..Len(withRoot) : withRoot[i].key # "Size"
    <3>1. ValueOf(withRoot, "Size") = NoNumber
      BY <2>3, <2>5, ValueOfAny
    <3>2. count = <<-2>>
      BY <2>1, <3>1 DEF NoNumber
    <3>3. <<-2>> \notin Seq(Nat)
      OBVIOUS
    <3> QED  BY <1>4, <3>2, <3>3
  <2> QED  BY <2>4, <2>5
<1> HIDE DEF t
<1> QED  BY <1>2, <1>10, <1>11 DEF text, count, size

\* TrailerLeadsToRevision of PureFunctions: whatever trailer could be read, if its keys have one
\* space behind them, the reader of the new one finds the new catalog and, by /Prev, the section
\* before, and a /Size that covered the old objects covers those added.
THEOREM TrailerLeadsToRevisionAlways == Spec => []TrailerLeadsToRevision
<1>1. AnswerInv => TrailerLeadsToRevision
  <2> SUFFICES ASSUME AnswerInv, Returned("writeTrailer") PROVE TrailerLeadsToRevision
    BY DEF TrailerLeadsToRevision
  <2>1. arguments.of \in Trailers
    BY DEF AnswerInv, Arguments, Returned
  <2>2. result = <<WrittenTrailer(arguments.of)>>
    BY DEF AnswerInv
  <2>3. result[1] = WrittenTrailer(arguments.of)
    BY <2>2
  <2> QED  BY <2>1, <2>3, NewTrailerLeads DEF TrailerLeadsToRevision, WrittenTrailer
<1> QED  BY <1>1, AnswersInvariant, PTL

-----------------------------------------------------------------------------
(* Functions defined by recursion.                                         *)

\* Two functions that go on alike are the same, as far as they do.
LEMMA SameRecursion ==
  ASSUME NEW l \in Nat, NEW f, NEW g, f[0] = g[0],
         \A i \in 1..l : f[i - 1] = g[i - 1] => f[i] = g[i]
  PROVE  f[l] = g[l]
<1> DEFINE S == {n \in Nat : n \in 0..l => f[n] = g[n]}
<1>1. 0 \in S
  OBVIOUS
<1>2. ASSUME NEW n \in S PROVE n + 1 \in S
  <2>1. n \in Nat /\ (n \in 0..l => f[n] = g[n])
    OBVIOUS
  <2>2. ASSUME n + 1 \in 0..l PROVE f[n + 1] = g[n + 1]
    <3>1. n \in 0..l /\ (n + 1) - 1 = n /\ n + 1 \in 1..l
      BY <2>1, <2>2
    <3> QED  BY <2>1, <3>1
  <2> QED  BY <2>1, <2>2
<1> HIDE DEF S
<1>3. S \in SUBSET Nat
  BY DEF S
<1>4. l \in S
  BY <1>1, <1>2, <1>3, InductiveSet
<1> QED  BY <1>4 DEF S

-----------------------------------------------------------------------------
(* Bytes of a number.                                                      *)

\* A number is its last byte and the others.
LEMMA LastByte ==
  \A n, r \in Nat : r > 1 =>
    /\ n \div r \in Nat /\ n % r \in Nat /\ n = (n \div r) * r + (n % r)
    /\ n < r => n % r = n
<1> TAKE n, r \in Nat
<1> SUFFICES ASSUME r > 1
             PROVE  /\ n \div r \in Nat /\ n % r \in Nat /\ n = (n \div r) * r + (n % r)
                    /\ n < r => n % r = n
  OBVIOUS
<1>1. n \div r \in Int /\ n % r \in 0..(r - 1) /\ n = (n \div r) * r + (n % r)
  OBVIOUS
<1>2. n \div r >= 0
  BY <1>1
<1>3. n < r => n % r = n
  OBVIOUS
<1> QED  BY <1>1, <1>2, <1>3

\* What reading bytes computes, byte by byte.
LEMMA NumberByByte ==
  ASSUME NEW bytes \in Seq(Nat)
  PROVE  \E g \in [Nat -> Nat] :
           /\ g[0] = 0 /\ Number(bytes) = g[Len(bytes)]
           /\ \A i \in 1..Len(bytes) : g[i] = g[i - 1] * Radix + bytes[i]
<1> DEFINE step == [n \in Nat |-> [x \in Nat |-> IF n + 1 \in 1..Len(bytes)
                                                THEN x * Radix + bytes[n + 1] ELSE x]]
<1>0. /\ Len(bytes) \in Nat /\ \A i \in 1..Len(bytes) : bytes[i] \in Nat
      /\ Radix \in Nat
  BY LenProperties, ElementOfSeq, RadixAssumption
<1> HIDE DEF step
<1>1. step \in [Nat -> [Nat -> Nat]]
  <2>1. \A n \in Nat, x \in Nat :
          (IF n + 1 \in 1..Len(bytes) THEN x * Radix + bytes[n + 1] ELSE x) \in Nat
    <3> TAKE n \in Nat, x \in Nat
    <3>1. CASE n + 1 \in 1..Len(bytes)
      <4>1. bytes[n + 1] \in Nat
        BY <1>0, <3>1
      <4>2. x * Radix \in Nat
        BY <1>0
      <4> QED  BY <3>1, <4>1, <4>2
    <3> QED  BY <3>1
  <2> QED  BY <2>1 DEF step
<1>2. PICK g \in [Nat -> Nat] : g[0] = 0 /\ Iterates(g, step)
  BY <1>1, Iteration
<1>3. \A i \in 1..Len(bytes) : g[i] = g[i - 1] * Radix + bytes[i]
  <2> TAKE i \in 1..Len(bytes)
  <2>1. i - 1 \in Nat /\ (i - 1) + 1 = i
    BY <1>0
  <2>2. g[i] = step[i - 1][g[i - 1]] /\ g[i - 1] \in Nat
    BY <1>2, <2>1 DEF Iterates
  <2> QED  BY <2>1, <2>2 DEF step
<1> DEFINE number[i \in 0..Len(bytes)] ==
             IF i = 0 THEN 0 ELSE number[i - 1] * Radix + bytes[i]
           IsNumber(f) == f = [i \in 0..Len(bytes) |->
                                 IF i = 0 THEN 0 ELSE f[i - 1] * Radix + bytes[i]]
           h == [i \in 0..Len(bytes) |-> g[i]]
<1>4. Number(bytes) = number[Len(bytes)]
  BY DEF Number
<1>5. IsNumber(h)
  <2>1. \A i \in 0..Len(bytes) : g[i] = IF i = 0 THEN 0 ELSE h[i - 1] * Radix + bytes[i]
    <3> TAKE i \in 0..Len(bytes)
    <3>1. CASE i = 0
      BY <1>2, <3>1
    <3>2. CASE i # 0
      <4>1. i \in 1..Len(bytes) /\ i - 1 \in 0..Len(bytes)
        BY <1>0, <3>2
      <4>2. h[i - 1] = g[i - 1]
        BY <4>1
      <4> HIDE DEF h
      <4> QED  BY <1>3, <3>2, <4>1, <4>2
    <3> QED  BY <3>1, <3>2
  <2> QED  BY <2>1
<1>6. number = CHOOSE f : IsNumber(f)
  OBVIOUS
<1> HIDE DEF number, h
<1>7. IsNumber(number)
  <2> HIDE DEF IsNumber
  <2> QED  BY <1>5, <1>6
<1>8. \A i \in 1..Len(bytes) : number[i - 1] = g[i - 1] => number[i] = g[i]
  <2> TAKE i \in 1..Len(bytes)
  <2>1. i \in 0..Len(bytes) /\ i # 0
    OBVIOUS
  <2>2. number[i] = number[i - 1] * Radix + bytes[i]
    BY <1>7, <2>1
  <2> QED  BY <1>3, <2>2
<1>9. number[Len(bytes)] = g[Len(bytes)]
  <2>1. 0 \in 0..Len(bytes) /\ number[0] = 0
    BY <1>0, <1>7
  <2> QED  BY <1>0, <1>2, <1>8, <2>1, SameRecursion
<1> QED  BY <1>2, <1>3, <1>4, <1>9

\* Each shift is by one byte.
LEMMA ShiftedOnce ==
  ASSUME NEW n \in Nat
  PROVE  /\ Shifted(n)[1] = n
         /\ \A k \in 1..4 : Shifted(n)[k] \in Nat
         /\ \A k \in 1..3 : Shifted(n)[k + 1] = Shifted(n)[k] \div Radix
<1> DEFINE a == n \div Radix
           b == a \div Radix
           c == b \div Radix
<1>1. a \in Nat /\ b \in Nat /\ c \in Nat
  <2>0. Radix \in Nat /\ Radix > 1
    BY RadixAssumption
  <2>1. a \in Nat
    BY <2>0, LastByte
  <2> HIDE DEF a
  <2>2. b \in Nat
    BY <2>0, <2>1, LastByte
  <2> HIDE DEF b
  <2> QED  BY <2>0, <2>1, <2>2, LastByte
<1>2. Shifted(n) = <<n, a, b, c>>
  BY Zenon DEF Shifted
<1>3. /\ Shifted(n)[1] = n /\ Shifted(n)[2] = a /\ Shifted(n)[3] = b /\ Shifted(n)[4] = c
  <2> HIDE DEF a, b, c
  <2> QED  BY <1>2
<1>4. b = a \div Radix /\ c = b \div Radix
  OBVIOUS
<1>5. a = n \div Radix
  OBVIOUS
<1> HIDE DEF a, b, c
<1>6. \A k \in 1..4 : k = 1 \/ k = 2 \/ k = 3 \/ k = 4
  OBVIOUS
<1>7. \A k \in 1..3 : (k = 1 /\ k + 1 = 2) \/ (k = 2 /\ k + 1 = 3) \/ (k = 3 /\ k + 1 = 4)
  OBVIOUS
<1>8. \A k \in 1..4 : Shifted(n)[k] \in Nat
  BY <1>1, <1>3, <1>6
<1>9. \A k \in 1..3 : Shifted(n)[k + 1] = Shifted(n)[k] \div Radix
  <2> HIDE DEF Shifted
  <2> QED  BY <1>3, <1>4, <1>5, <1>7, Zenon
<1> QED  BY <1>3, <1>8, <1>9

\* The places of a byte from the front and of the shift that it ends.
LEMMA PlaceOfShift ==
  \A width \in 1..4 : \A i \in 1..width :
    /\ width - i + 1 \in 1..4
    /\ i # 1 => /\ i - 1 # 0 /\ width - i + 1 \in 1..3
                /\ width - (i - 1) + 1 = (width - i + 1) + 1
    /\ i = 1 => width - i + 1 = width
OBVIOUS

\* A number that fits is read back from its bytes.
LEMMA BytesReadBack ==
  ASSUME NEW n, NEW width \in 1..4, Fits(n, width)
  PROVE  Number(Bytes(n, width)) = n
<1>1. n \in Nat /\ Shifted(n)[width] < Radix /\ Radix \in Nat /\ Radix > 1
  BY RadixAssumption DEF Fits
<1> DEFINE bytes == Bytes(n, width)
<1>2. \A i \in 1..width : Shifted(n)[width - i + 1] \in Nat
  BY <1>1, PlaceOfShift, ShiftedOnce
<1>3. bytes = [i \in 1..width |-> Shifted(n)[width - i + 1] % Radix]
  BY Zenon DEF Bytes
<1>4. bytes \in Seq(Nat) /\ Len(bytes) = width
  <2>1. \A i \in 1..width : Shifted(n)[width - i + 1] % Radix \in Nat
    BY <1>1, <1>2, LastByte
  <2>2. width \in Nat
    OBVIOUS
  <2> HIDE DEF bytes
  <2> QED  BY <1>3, <2>1, <2>2
<1> HIDE DEF bytes
<1>5. PICK g \in [Nat -> Nat] :
        /\ g[0] = 0 /\ Number(bytes) = g[Len(bytes)]
        /\ \A i \in 1..Len(bytes) : g[i] = g[i - 1] * Radix + bytes[i]
  BY <1>4, NumberByByte
<1> DEFINE f == [i \in 0..width |-> IF i = 0 THEN 0 ELSE Shifted(n)[width - i + 1]]
<1>6. f[0] = 0 /\ \A i \in 1..width : f[i] = Shifted(n)[width - i + 1]
  <2>1. 0 \in 0..width /\ \A i \in 1..width : i \in 0..width /\ i # 0
    OBVIOUS
  <2> QED  BY <2>1, Zenon
<1> HIDE DEF f
<1>7. \A i \in 1..width : f[i] = f[i - 1] * Radix + bytes[i]
  <2> TAKE i \in 1..width
  <2> DEFINE m == Shifted(n)[width - i + 1]
  <2>1. m \in Nat /\ f[i] = m /\ bytes[i] = m % Radix
    BY <1>2, <1>3, <1>6
  <2>2. CASE i = 1
    <3>1. m < Radix
      BY <1>1, <2>2, PlaceOfShift
    <3>2. m % Radix = m
      BY <1>1, <2>1, <3>1, LastByte
    <3>3. f[i - 1] = 0
      BY <1>6, <2>2
    <3> HIDE DEF m
    <3>4. 0 * Radix + m = m
      BY <1>1, <2>1
    <3> QED  BY <2>1, <3>2, <3>3, <3>4
  <2>3. CASE i # 1
    <3>1. /\ i - 1 \in 1..width /\ width - i + 1 \in 1..3
          /\ width - (i - 1) + 1 = (width - i + 1) + 1
      BY <2>3, PlaceOfShift
    <3>2. Shifted(n)[(width - i + 1) + 1] = m \div Radix
      BY <1>1, <3>1, ShiftedOnce
    <3>3. f[i - 1] = m \div Radix
      BY <1>6, <3>1, <3>2
    <3> HIDE DEF m
    <3>4. m = (m \div Radix) * Radix + (m % Radix)
      BY <1>1, <2>1, LastByte
    <3> QED  BY <2>1, <3>3, <3>4
  <2> QED  BY <2>2, <2>3
<1>8. f[width] = g[width]
  <2>1. \A i \in 1..width : f[i - 1] = g[i - 1] => f[i] = g[i]
    <3> TAKE i \in 1..width
    <3>1. g[i] = g[i - 1] * Radix + bytes[i]
      BY <1>4, <1>5
    <3>2. f[i] = f[i - 1] * Radix + bytes[i]
      BY <1>7
    <3> QED  BY <3>1, <3>2, Zenon
  <2>2. width \in Nat
    OBVIOUS
  <2>3. f[0] = g[0]
    BY <1>5, <1>6, Zenon
  <2> QED  BY <2>1, <2>2, <2>3, SameRecursion, Zenon
<1>9. f[width] = n
  <2>1. width \in 1..width /\ width - width + 1 = 1
    OBVIOUS
  <2>2. Shifted(n)[1] = n
    BY <1>1, ShiftedOnce
  <2> QED  BY <1>6, <2>1, <2>2
<1> QED  BY <1>4, <1>5, <1>8, <1>9 DEF bytes

\* Bytes are as many as their width.
LEMMA BytesType ==
  ASSUME NEW n \in Nat, NEW width \in 1..4
  PROVE  Bytes(n, width) \in Seq(Nat) /\ Len(Bytes(n, width)) = width
<1>1. Radix \in Nat /\ Radix > 1 /\ width \in Nat
  BY RadixAssumption
<1>2. \A i \in 1..width : Shifted(n)[width - i + 1] % Radix \in Nat
  <2> TAKE i \in 1..width
  <2>1. Shifted(n)[width - i + 1] \in Nat
    BY PlaceOfShift, ShiftedOnce
  <2> HIDE DEF Shifted
  <2> QED  BY <1>1, <2>1, LastByte
<1>3. Bytes(n, width) = [i \in 1..width |-> Shifted(n)[width - i + 1] % Radix]
  BY Zenon DEF Bytes
<1> QED  BY <1>1, <1>2, <1>3

\* A part of the second of two sequences.
LEMMA PartOfSecond ==
  ASSUME NEW s \in Seq(Nat), NEW t \in Seq(Nat), NEW m \in 1..Len(t), NEW n \in 1..Len(t)
  PROVE  SubSeq(s \o t, Len(s) + m, Len(s) + n) = SubSeq(t, m, n)
<1> DEFINE k == Len(s)  l == Len(t)
<1>1. k \in Nat /\ l \in Nat
  BY LenProperties, Zenon
<1> HIDE DEF k, l
<1>2. \A i \in 1..l : k + i \in (k + 1)..(k + l) /\ (k + i) - k = i
  BY <1>1
<1>3. m \in 1..l /\ n \in 1..l
  BY DEF l
<1>4. k + m \in (k + 1)..(k + l) /\ k + n \in (k + 1)..(k + l)
  BY <1>2, <1>3
<1>5. SubSeq(s \o t, k + m, k + n) = SubSeq(t, (k + m) - k, (k + n) - k)
  BY <1>4, SubSeqOfConcat2, Zenon DEF k, l
<1>6. (k + m) - k = m /\ (k + n) - k = n
  BY <1>2, <1>3
<1> QED  BY <1>5, <1>6, Zenon DEF k

\* The middle and the end of three sequences of one, four and two elements.
LEMMA FieldsOfRow ==
  ASSUME NEW a \in Seq(Nat), NEW b \in Seq(Nat), NEW c \in Seq(Nat),
         Len(a) = 1, Len(b) = 4, Len(c) = 2
  PROVE  SubSeq(a \o b \o c, 2, 5) = b /\ SubSeq(a \o b \o c, 6, 7) = c
<1>1. a \o b \in Seq(Nat) /\ Len(a \o b) = Len(a) + Len(b)
  BY ConcatProperties, Zenon
<1> DEFINE d == a \o b
<1>2. d \in Seq(Nat) /\ Len(d) = 5
  BY <1>1
<1> HIDE DEF d
<1>3. SubSeq(d \o c, 2, 5) = SubSeq(d, 2, 5)
  <2>1. 2 \in 1..Len(d) /\ 5 \in 1..Len(d)
    BY <1>2
  <2> QED  BY <1>2, <2>1, SubSeqOfConcat1, Zenon
<1>4. SubSeq(d, 2, 5) = SubSeq(b, 1, 4)
  <2>1. 1 \in 1..Len(b) /\ 4 \in 1..Len(b) /\ Len(a) + 1 = 2 /\ Len(a) + 4 = 5
    OBVIOUS
  <2>2. SubSeq(a \o b, Len(a) + 1, Len(a) + 4) = SubSeq(b, 1, 4)
    BY <2>1, PartOfSecond, Zenon
  <2> QED  BY <2>1, <2>2, Zenon DEF d
<1>6. SubSeq(d \o c, 6, 7) = SubSeq(c, 1, 2)
  <2>1. 1 \in 1..Len(c) /\ 2 \in 1..Len(c) /\ Len(d) + 1 = 6 /\ Len(d) + 2 = 7
    BY <1>2
  <2>2. SubSeq(d \o c, Len(d) + 1, Len(d) + 2) = SubSeq(c, 1, 2)
    BY <1>2, <2>1, PartOfSecond, Zenon
  <2> QED  BY <2>1, <2>2, Zenon
<1>5. SubSeq(b, 1, 4) = b /\ SubSeq(c, 1, 2) = c
  BY SubSeqFull
<1> QED  BY <1>3, <1>4, <1>5, <1>6 DEF d

\* What the reader makes of an entry.
ReadEntry(entry) == [offset |-> entry.offset, generation |-> entry.generation]

\* The row of an entry, whose numbers fit, is decoded to it.
LEMMA RowReadBack ==
  ASSUME NEW entry, Fits(entry.offset, OffsetWidth), InRange(entry.generation)
  PROVE  DecodedRow(Row(entry)) = ReadEntry(entry)
<1> DEFINE a == Bytes(1, 1)
           b == Bytes(entry.offset, 4)
           c == Bytes(entry.generation, 2)
<1>1. /\ Fits(entry.offset, 4) /\ Fits(entry.generation, 2)
      /\ entry.offset \in Nat /\ entry.generation \in Nat
  BY DEF OffsetWidth, InRange, GenerationWidth, Fits
<1>2. 1 \in 1..4 /\ 2 \in 1..4 /\ 4 \in 1..4 /\ 1 \in Nat
  OBVIOUS
<1>3. /\ a \in Seq(Nat) /\ b \in Seq(Nat) /\ c \in Seq(Nat)
      /\ Len(a) = 1 /\ Len(b) = 4 /\ Len(c) = 2
  BY <1>1, <1>2, BytesType
<1>4. Number(b) = entry.offset /\ Number(c) = entry.generation
  BY <1>1, <1>2, BytesReadBack
<1>5. Row(entry) = a \o b \o c
  BY Zenon DEF Row, TypeWidth, OffsetWidth, GenerationWidth
<1> HIDE DEF a, b, c
<1>6. SubSeq(Row(entry), 2, 5) = b /\ SubSeq(Row(entry), 6, 7) = c
  BY <1>3, <1>5, FieldsOfRow
<1>7. /\ TypeWidth + 1 = 2 /\ TypeWidth + OffsetWidth = 5
      /\ 5 + 1 = 6 /\ 5 + GenerationWidth = 7
  BY DEF TypeWidth, OffsetWidth, GenerationWidth
<1> QED  BY <1>4, <1>6, <1>7, Zenon DEF DecodedRow, ReadEntry

-----------------------------------------------------------------------------
(* Ids of the rows.                                                        *)

\* One more piece goes behind the others.
LEMMA FlattenMore ==
  ASSUME NEW V, NEW ss \in Seq(Seq(V)), NEW piece \in Seq(V)
  PROVE  /\ Append(ss, piece) \in Seq(Seq(V))
         /\ FlattenSeq(Append(ss, piece)) = FlattenSeq(ss) \o piece
<1> DEFINE tt == Append(ss, piece)
           l == Len(ss)
<1>1. /\ tt \in Seq(Seq(V)) /\ Len(tt) = l + 1 /\ l \in Nat
      /\ \A i \in 1..l : tt[i] = ss[i]
      /\ tt[l + 1] = piece
  BY AppendProperties, LenProperties
<1> HIDE DEF tt, l
<1>2. PICK f \in [Nat -> Seq(V)] :
        /\ f[0] = <<>>
        /\ \A i \in 1..l : f[i] = f[i - 1] \o ss[i]
        /\ FlattenSeq(ss) = f[l]
  BY Flattened DEF l
<1>3. PICK g \in [Nat -> Seq(V)] :
        /\ g[0] = <<>>
        /\ \A i \in 1..(l + 1) : g[i] = g[i - 1] \o tt[i]
        /\ FlattenSeq(tt) = g[l + 1]
  <2>1. \E g \in [Nat -> Seq(V)] :
           /\ g[0] = <<>>
           /\ \A i \in 1..Len(tt) : g[i] = g[i - 1] \o tt[i]
           /\ FlattenSeq(tt) = g[Len(tt)]
    BY <1>1, Flattened
  <2> QED  BY <1>1, <2>1
<1>4. f[l] = g[l]
  <2>1. \A i \in 1..l : f[i - 1] = g[i - 1] => f[i] = g[i]
    <3> TAKE i \in 1..l
    <3>1. i \in 1..(l + 1)
      BY <1>1
    <3>2. f[i] = f[i - 1] \o ss[i] /\ g[i] = g[i - 1] \o tt[i] /\ tt[i] = ss[i]
      BY <1>1, <1>2, <1>3, <3>1, Zenon
    <3> QED  BY <3>2, Zenon
  <2>2. f[0] = g[0]
    BY <1>2, <1>3, Zenon
  <2> QED  BY <1>1, <2>1, <2>2, SameRecursion, Zenon
<1>5. g[l + 1] = g[l] \o piece
  <2>1. l + 1 \in 1..(l + 1) /\ (l + 1) - 1 = l
    BY <1>1
  <2> QED  BY <1>1, <1>3, <2>1
<1> QED  BY <1>1, <1>2, <1>3, <1>4, <1>5, Zenon DEF tt

\* The ids of a pair of /Index.
IdsOfPair(pair) == [i \in 1..pair[2] |-> pair[1] + i - 1]

Pair == Nat \X Nat

\* The ids of a pair are natural numbers, as many as the pair says.
LEMMA PairType ==
  ASSUME NEW pair \in Pair
  PROVE  /\ pair[1] \in Nat /\ pair[2] \in Nat
         /\ IdsOfPair(pair) \in Seq(Nat) /\ Len(IdsOfPair(pair)) = pair[2]
         /\ \A i \in 1..pair[2] : IdsOfPair(pair)[i] = pair[1] + i - 1
<1>1. pair[1] \in Nat /\ pair[2] \in Nat
  BY DEF Pair
<1>2. \A a, b \in Nat : \A i \in 1..b : a + i - 1 \in Nat
  OBVIOUS
<1>3. \A i \in 1..pair[2] : pair[1] + i - 1 \in Nat
  BY <1>1, <1>2
<1>4. IdsOfPair(pair) = [i \in 1..pair[2] |-> pair[1] + i - 1]
  BY Zenon DEF IdsOfPair
<1> DEFINE first == pair[1]  count == pair[2]  ids == [i \in 1..count |-> first + i - 1]
<1>5. first \in Nat /\ count \in Nat
  BY <1>1
<1> HIDE DEF first, count
<1>6. ids \in Seq(Nat) /\ Len(ids) = count /\ \A i \in 1..count : ids[i] = first + i - 1
  BY <1>2, <1>5
<1> HIDE DEF ids
<1> QED  BY <1>1, <1>4, <1>6, Zenon DEF first, count, ids

\* One more pair adds its ids.
LEMMA IndexedMore ==
  ASSUME NEW index \in Seq(Pair), NEW pair \in Pair
  PROVE  /\ IndexedIds(<<>>) = <<>>
         /\ IndexedIds(index) \in Seq(Nat)
         /\ IndexedIds(Append(index, pair)) = IndexedIds(index) \o IdsOfPair(pair)
<1> DEFINE Pieces(x) == [k \in DOMAIN x |-> IdsOfPair(x[k])]
<1>1. \A x : IndexedIds(x) = FlattenSeq(Pieces(x))
  BY Zenon DEF IndexedIds, IdsOfPair
<1>2. \A x \in Seq(Pair) : /\ Pieces(x) \in Seq(Seq(Nat)) /\ Len(Pieces(x)) = Len(x)
                           /\ \A k \in 1..Len(x) : Pieces(x)[k] = IdsOfPair(x[k])
  <2> TAKE x \in Seq(Pair)
  <2>1. Len(x) \in Nat /\ DOMAIN x = 1..Len(x) /\ \A k \in 1..Len(x) : IdsOfPair(x[k]) \in Seq(Nat)
    <3>1. Len(x) \in Nat /\ DOMAIN x = 1..Len(x) /\ \A k \in 1..Len(x) : x[k] \in Pair
      BY LenProperties, ElementOfSeq
    <3> QED  BY <3>1, PairType
  <2>2. Pieces(x) = [k \in 1..Len(x) |-> IdsOfPair(x[k])]
    BY <2>1
  <2> HIDE DEF Pieces
  <2> QED  BY <2>1, <2>2
<1>3. Pieces(<<>>) = <<>>
  OBVIOUS
<1> HIDE DEF Pieces
<1>4. FlattenSeq(Pieces(index)) \in Seq(Nat)
  BY <1>2, FlattenParts
<1>5. IndexedIds(<<>>) = <<>>
  <2>1. Len(<<>>) = 0 /\ FlattenSeq(<<>>) = <<>>
    BY DEF FlattenSeq
  <2> QED  BY <1>1, <1>3, <2>1
<1>6. Pieces(Append(index, pair)) = Append(Pieces(index), IdsOfPair(pair))
  <2> DEFINE x == Append(index, pair)
             l == Len(index)
             y == Append(Pieces(index), IdsOfPair(pair))
  <2>1. /\ x \in Seq(Pair) /\ Len(x) = l + 1 /\ l \in Nat
        /\ \A i \in 1..l : x[i] = index[i]
        /\ x[l + 1] = pair
    BY AppendProperties, LenProperties
  <2>2. /\ Pieces(index) \in Seq(Seq(Nat)) /\ IdsOfPair(pair) \in Seq(Nat) /\ Len(Pieces(index)) = l
        /\ \A k \in 1..l : Pieces(index)[k] = IdsOfPair(index[k])
    BY <1>2, PairType
  <2>3. /\ y \in Seq(Seq(Nat)) /\ Len(y) = l + 1
        /\ \A i \in 1..l : y[i] = Pieces(index)[i]
        /\ y[l + 1] = IdsOfPair(pair)
    <3> DEFINE p == Pieces(index)  q == IdsOfPair(pair)  T == Seq(Nat)
    <3>1. p \in Seq(T) /\ q \in T /\ Len(p) = l
      BY <2>2
    <3> HIDE DEF p, q, T, l
    <3>2. /\ Append(p, q) \in Seq(T) /\ Len(Append(p, q)) = Len(p) + 1
          /\ \A i \in 1..Len(p) : Append(p, q)[i] = p[i]
          /\ Append(p, q)[Len(p) + 1] = q
      BY <3>1, AppendProperties
    <3> QED  BY <3>1, <3>2 DEF p, q, T
  <2> HIDE DEF x, y, l
  <2>4. /\ Pieces(x) \in Seq(Seq(Nat)) /\ Len(Pieces(x)) = l + 1
        /\ \A k \in 1..(l + 1) : Pieces(x)[k] = IdsOfPair(x[k])
    BY <1>2, <2>1
  <2>5. \A k \in 1..(l + 1) : Pieces(x)[k] = y[k]
    <3> TAKE k \in 1..(l + 1)
    <3>1. k \in 1..l \/ k = l + 1
      BY <2>1
    <3>2. CASE k \in 1..l
      <4>1. Pieces(x)[k] = IdsOfPair(x[k])
        BY <2>4, Zenon
      <4>2. IdsOfPair(x[k]) = IdsOfPair(index[k])
        BY <2>1, <3>2, Zenon
      <4>3. y[k] = IdsOfPair(index[k])
        BY <2>2, <2>3, <3>2, Zenon
      <4> QED  BY <4>1, <4>2, <4>3
    <3>3. CASE k = l + 1
      BY <2>1, <2>3, <2>4, <3>3, Zenon
    <3> QED  BY <3>1, <3>2, <3>3
  <2>6. Pieces(x) = y
    BY <2>3, <2>4, <2>5, SeqEqual
  <2> QED  BY <2>6 DEF x, y
<1>7. FlattenSeq(Append(Pieces(index), IdsOfPair(pair))) = FlattenSeq(Pieces(index)) \o IdsOfPair(pair)
  BY <1>2, PairType, FlattenMore
<1> QED  BY <1>1, <1>4, <1>5, <1>6, <1>7, Zenon

\* The ids of entries.
IdsOf(entries) == [i \in DOMAIN entries |-> entries[i].id]

\* The ids of entries are natural numbers, one for each entry.
LEMMA IdsOfType ==
  ASSUME NEW entries \in Seq(XrefEntry)
  PROVE  /\ IdsOf(entries) \in Seq(Nat) /\ Len(IdsOf(entries)) = Len(entries)
         /\ Len(entries) \in Nat
         /\ \A i \in 1..Len(entries) : IdsOf(entries)[i] = entries[i].id /\ entries[i].id \in Nat
                                       /\ entries[i] \in XrefEntry
<1>1. /\ Len(entries) \in Nat /\ DOMAIN entries = 1..Len(entries)
      /\ \A i \in 1..Len(entries) : entries[i] \in XrefEntry
  BY LenProperties, ElementOfSeq
<1>2. \A i \in 1..Len(entries) : entries[i].id \in Nat
  BY <1>1 DEF XrefEntry
<1>3. IdsOf(entries) = [i \in 1..Len(entries) |-> entries[i].id]
  BY <1>1 DEF IdsOf
<1> QED  BY <1>1, <1>2, <1>3

\* One element behind a beginning of a sequence is a longer beginning.
LEMMA LongerBeginning ==
  ASSUME NEW V, NEW s \in Seq(V), NEW i \in 1..Len(s)
  PROVE  /\ s[i] \in V /\ i - 1 \in 0..Len(s)
         /\ SubSeq(s, 1, i - 1) \in Seq(V)
         /\ SubSeq(s, 1, i) = SubSeq(s, 1, i - 1) \o <<s[i]>>
         /\ SubSeq(s, 1, i) = Append(SubSeq(s, 1, i - 1), s[i])
<1>1. Len(s) \in Nat /\ 1 \in 1..Len(s) /\ i \in 1..Len(s) /\ i - 1 \in Int /\ 1 \in Int
  BY LenProperties
<1>2. \A j \in 1..(i - 1) : s[j] \in V
  BY <1>1, ElementOfSeq
<1>3. SubSeq(s, 1, i - 1) \in Seq(V)
  BY <1>1, <1>2, SubSeqProperties, Zenon
<1>4. s[i] \in V
  BY ElementOfSeq
<1>5. SubSeq(s, 1, i) = SubSeq(s, 1, i - 1) \o <<s[i]>>
  <2>1. i \in 1..Len(s)
    OBVIOUS
  <2> QED  BY <1>1, <2>1, SubSeqRecursiveSecond, Zenon
<1>6. Append(SubSeq(s, 1, i - 1), s[i]) = SubSeq(s, 1, i - 1) \o <<s[i]>>
  BY <1>3, <1>4, AppendIsConcat, Zenon
<1>7. i - 1 \in 0..Len(s)
  BY <1>1
<1> QED  BY <1>3, <1>4, <1>5, <1>6, <1>7, Zenon

\* A pair of one id.
LEMMA SingleId ==
  ASSUME NEW id \in Nat
  PROVE  <<id, 1>> \in Pair /\ IdsOfPair(<<id, 1>>) = <<id>>
<1>1. <<id, 1>> \in Pair
  BY DEF Pair
<1>2. IdsOfPair(<<id, 1>>) = [i \in 1..1 |-> id + i - 1]
  BY DEF IdsOfPair
<1>3. \A i \in 1..1 : id + i - 1 = id
  OBVIOUS
<1>4. <<id>> = [i \in 1..1 |-> id]
  OBVIOUS
<1> QED  BY <1>1, <1>2, <1>3, <1>4

\* Pairs of one id each.
LEMMA SingleIds ==
  ASSUME NEW ids \in Seq(Nat), NEW pairs \in Seq(Pair), Len(pairs) = Len(ids),
         \A i \in 1..Len(ids) : pairs[i] = <<ids[i], 1>>
  PROVE  IndexedIds(pairs) = ids
<1>1. Len(ids) \in Nat
  BY LenProperties
<1> DEFINE f == [n \in 0..Len(ids) |-> IndexedIds(SubSeq(pairs, 1, n))]
           g == [n \in 0..Len(ids) |-> SubSeq(ids, 1, n)]
<1>2. \A n \in 0..Len(ids) : f[n] = IndexedIds(SubSeq(pairs, 1, n)) /\ g[n] = SubSeq(ids, 1, n)
  BY Zenon
<1> HIDE DEF f, g
<1>3. f[0] = g[0]
  <2>1. 0 \in 0..Len(ids)
    BY <1>1
  <2>2. SubSeq(pairs, 1, 0) = <<>> /\ SubSeq(ids, 1, 0) = <<>>
    BY SubSeqEmpty
  <2>3. IndexedIds(<<>>) = <<>>
    BY DEF IndexedIds, FlattenSeq
  <2> QED  BY <1>2, <2>1, <2>2, <2>3, Zenon
<1>4. \A i \in 1..Len(ids) : f[i - 1] = g[i - 1] => f[i] = g[i]
  <2> TAKE i \in 1..Len(ids)
  <2> SUFFICES ASSUME f[i - 1] = g[i - 1] PROVE f[i] = g[i]
    OBVIOUS
  <2>1. i - 1 \in 0..Len(ids) /\ i \in 0..Len(ids) /\ i \in 1..Len(pairs)
    BY <1>1
  <2>2. ids[i] \in Nat /\ SubSeq(ids, 1, i) = SubSeq(ids, 1, i - 1) \o <<ids[i]>>
    BY LongerBeginning, Zenon
  <2>3. /\ SubSeq(pairs, 1, i - 1) \in Seq(Pair)
        /\ SubSeq(pairs, 1, i) = Append(SubSeq(pairs, 1, i - 1), pairs[i])
    BY <2>1, LongerBeginning, Zenon
  <2>4. pairs[i] \in Pair /\ IdsOfPair(pairs[i]) = <<ids[i]>>
    BY <2>2, SingleId, Zenon
  <2>5. IndexedIds(SubSeq(pairs, 1, i)) = IndexedIds(SubSeq(pairs, 1, i - 1)) \o <<ids[i]>>
    BY <2>3, <2>4, IndexedMore, Zenon
  <2>6. f[i] = f[i - 1] \o <<ids[i]>> /\ g[i] = g[i - 1] \o <<ids[i]>>
    BY <1>2, <2>1, <2>2, <2>5, Zenon
  <2> QED  BY <2>6, Zenon
<1>5. f[Len(ids)] = g[Len(ids)]
  BY <1>1, <1>3, <1>4, SameRecursion, Zenon
<1>6. SubSeq(pairs, 1, Len(ids)) = pairs /\ SubSeq(ids, 1, Len(ids)) = ids
  BY SubSeqFull
<1>7. Len(ids) \in 0..Len(ids)
  BY <1>1
<1> QED  BY <1>2, <1>5, <1>6, <1>7, Zenon

\* The ids of entries behind others.
LEMMA IdsOfConcat ==
  ASSUME NEW s \in Seq(XrefEntry), NEW t \in Seq(XrefEntry)
  PROVE  /\ s \o t \in Seq(XrefEntry)
         /\ IdsOf(s \o t) = IdsOf(s) \o IdsOf(t)
<1>1. /\ s \o t \in Seq(XrefEntry) /\ Len(s \o t) = Len(s) + Len(t)
      /\ \A i \in 1..(Len(s) + Len(t)) :
           (s \o t)[i] = IF i <= Len(s) THEN s[i] ELSE t[i - Len(s)]
  BY ConcatProperties
<1>2. /\ IdsOf(s) \in Seq(Nat) /\ Len(IdsOf(s)) = Len(s) /\ Len(s) \in Nat
      /\ \A i \in 1..Len(s) : IdsOf(s)[i] = s[i].id
  BY IdsOfType
<1>3. /\ IdsOf(t) \in Seq(Nat) /\ Len(IdsOf(t)) = Len(t) /\ Len(t) \in Nat
      /\ \A i \in 1..Len(t) : IdsOf(t)[i] = t[i].id
  BY IdsOfType
<1>4. /\ IdsOf(s \o t) \in Seq(Nat) /\ Len(IdsOf(s \o t)) = Len(s) + Len(t)
      /\ \A i \in 1..(Len(s) + Len(t)) : IdsOf(s \o t)[i] = (s \o t)[i].id
  BY <1>1, IdsOfType
<1> DEFINE u == IdsOf(s)  v == IdsOf(t)  w == IdsOf(s \o t)
<1>5. /\ u \o v \in Seq(Nat) /\ Len(u \o v) = Len(s) + Len(t)
      /\ \A i \in 1..(Len(s) + Len(t)) :
           (u \o v)[i] = IF i <= Len(s) THEN u[i] ELSE v[i - Len(s)]
  <2> HIDE DEF u, v
  <2>1. u \in Seq(Nat) /\ v \in Seq(Nat) /\ Len(u) = Len(s) /\ Len(v) = Len(t)
    BY <1>2, <1>3 DEF u, v
  <2>2. /\ u \o v \in Seq(Nat) /\ Len(u \o v) = Len(u) + Len(v)
        /\ \A i \in 1..(Len(u) + Len(v)) :
             (u \o v)[i] = IF i <= Len(u) THEN u[i] ELSE v[i - Len(u)]
    BY <2>1, ConcatProperties
  <2> QED  BY <2>1, <2>2
<1>6. \A i \in 1..(Len(s) + Len(t)) : w[i] = (u \o v)[i]
  <2> TAKE i \in 1..(Len(s) + Len(t))
  <2>1. w[i] = (s \o t)[i].id
    BY <1>4
  <2>2. CASE i <= Len(s)
    <3>1. i \in 1..Len(s)
      BY <1>2, <2>2
    <3> HIDE DEF u, v, w
    <3> QED  BY <1>1, <1>5, <2>1, <2>2, <3>1, <1>2, Zenon DEF u
  <2>3. CASE ~(i <= Len(s))
    <3>1. i - Len(s) \in 1..Len(t)
      BY <1>2, <1>3, <2>3
    <3> HIDE DEF u, v, w
    <3> QED  BY <1>1, <1>5, <2>1, <2>3, <3>1, <1>3, Zenon DEF v
  <2> QED  BY <2>2, <2>3
<1>7. w = u \o v
  <2> HIDE DEF u, v
  <2>1. w \in Seq(Nat) /\ Len(w) = Len(u \o v)
    BY <1>4, <1>5
  <2>2. \A i \in 1..Len(w) : w[i] = (u \o v)[i]
    BY <1>4, <1>6
  <2> HIDE DEF w
  <2> QED  BY <1>5, <2>1, <2>2, SeqEqual, Zenon
<1> QED  BY <1>1, <1>7

\* The /Index of a signature lists the ids of its rows.
LEMMA SignatureIds ==
  ASSUME NEW updated \in Seq(XrefEntry), NEW new \in Seq(XrefEntry), NEW last \in Nat,
         \A i \in DOMAIN new : new[i].id = last + i
  PROVE  IndexedIds(SignatureIndex(updated, new, last)) = IdsOf(updated \o new)
<1> DEFINE pairs == [i \in DOMAIN updated |-> <<updated[i].id, 1>>]
           pair == <<last + 1, Len(new)>>
           ids == IdsOf(updated)
<1>1. /\ ids \in Seq(Nat) /\ Len(ids) = Len(updated) /\ Len(updated) \in Nat
      /\ DOMAIN updated = 1..Len(updated)
      /\ \A i \in 1..Len(updated) : ids[i] = updated[i].id /\ updated[i].id \in Nat
  BY IdsOfType, LenProperties
<1>2. /\ IdsOf(new) \in Seq(Nat) /\ Len(IdsOf(new)) = Len(new) /\ Len(new) \in Nat
      /\ DOMAIN new = 1..Len(new)
      /\ \A i \in 1..Len(new) : IdsOf(new)[i] = new[i].id
  BY IdsOfType, LenProperties
<1>3. /\ pairs \in Seq(Pair) /\ Len(pairs) = Len(ids)
      /\ \A i \in 1..Len(ids) : pairs[i] = <<ids[i], 1>>
  <2>1. \A i \in 1..Len(updated) : <<updated[i].id, 1>> \in Pair
    BY <1>1, SingleId, Zenon
  <2>2. pairs = [i \in 1..Len(updated) |-> <<updated[i].id, 1>>]
    BY <1>1
  <2> HIDE DEF pairs, ids
  <2>3. pairs \in Seq(Pair) /\ Len(pairs) = Len(updated)
    BY <1>1, <2>1, <2>2
  <2>4. \A i \in 1..Len(ids) : pairs[i] = <<ids[i], 1>>
    BY <1>1, <2>2
  <2> QED  BY <1>1, <2>3, <2>4
<1>4. SignatureIndex(updated, new, last) = pairs \o IF new = <<>> THEN <<>> ELSE <<pair>>
  BY Zenon DEF SignatureIndex
<1>5. IndexedIds(pairs) = ids
  <2> HIDE DEF pairs, ids
  <2> QED  BY <1>1, <1>3, SingleIds, Zenon
<1>6. IdsOf(updated \o new) = ids \o IdsOf(new)
  BY IdsOfConcat
<1> HIDE DEF pairs, ids
<1>7. CASE new = <<>>
  <2>1. pairs \o <<>> = pairs
    BY <1>3, ConcatEmptySeq, Zenon
  <2>2. IdsOf(new) = <<>>
    BY <1>7 DEF IdsOf
  <2>3. ids \o <<>> = ids
    BY <1>1, ConcatEmptySeq, Zenon
  <2> QED  BY <1>4, <1>5, <1>6, <1>7, <2>1, <2>2, <2>3, Zenon
<1>8. CASE new # <<>>
  <2>1. pair \in Pair /\ pair[1] = last + 1 /\ pair[2] = Len(new)
    BY <1>2 DEF Pair
  <2> HIDE DEF pair
  <2>2. pairs \o <<pair>> = Append(pairs, pair)
    BY <1>3, <2>1, AppendIsConcat, Zenon
  <2>3. IndexedIds(Append(pairs, pair)) = ids \o IdsOfPair(pair)
    BY <1>3, <1>5, <2>1, IndexedMore, Zenon
  <2>4. IdsOfPair(pair) = IdsOf(new)
    <3>1. /\ IdsOfPair(pair) \in Seq(Nat) /\ Len(IdsOfPair(pair)) = Len(new)
          /\ \A i \in 1..Len(new) : IdsOfPair(pair)[i] = last + 1 + i - 1
      BY <2>1, PairType
    <3>2. \A i \in 1..Len(new) : IdsOf(new)[i] = last + i
      BY <1>2
    <3>3. \A i \in 1..Len(new) : last + 1 + i - 1 = last + i
      BY <1>2
    <3>4. \A i \in 1..Len(new) : IdsOfPair(pair)[i] = IdsOf(new)[i]
      BY <3>1, <3>2, <3>3, Zenon
    <3> DEFINE u == IdsOfPair(pair)  v == IdsOf(new)
    <3>5. /\ u \in Seq(Nat) /\ v \in Seq(Nat) /\ Len(u) = Len(v)
          /\ \A i \in 1..Len(u) : u[i] = v[i]
      BY <1>2, <3>1, <3>4
    <3> HIDE DEF u, v
    <3>6. u = v
      BY <3>5, SeqEqual, Zenon
    <3> QED  BY <3>6 DEF u, v
  <2> QED  BY <1>4, <1>6, <1>8, <2>2, <2>3, <2>4, Zenon
<1> QED  BY <1>7, <1>8

\* Three sequences in a row.
LEMMA Regrouped ==
  \A u, v, w \in Seq(Nat) : (u \o v) \o w = u \o (v \o w)
<1> TAKE u, v, w \in Seq(Nat)
<1> QED  BY SMT

\* The runs of one more id.
LEMMA ExtendedIds ==
  ASSUME NEW runs \in Seq(Pair), NEW id \in Nat
  PROVE  /\ Extended(runs, id) \in Seq(Pair)
         /\ IndexedIds(Extended(runs, id)) = IndexedIds(runs) \o <<id>>
<1> DEFINE last == runs[Len(runs)]
           before == SubSeq(runs, 1, Len(runs) - 1)
           longer == <<last[1], last[2] + 1>>
<1>1. CASE runs # <<>> /\ id = last[1] + last[2]
  <2>1. Len(runs) \in 1..Len(runs)
    BY <1>1
  <2>2. /\ last \in Pair /\ before \in Seq(Pair)
        /\ SubSeq(runs, 1, Len(runs)) = Append(before, last)
    BY <2>1, LongerBeginning, Zenon
  <2>3. runs = Append(before, last)
    BY <2>2, SubSeqFull
  <2>4. Extended(runs, id) = Append(before, longer)
    BY <1>1, Zenon DEF Extended
  <2>5. id = last[1] + last[2]
    BY <1>1
  <2> HIDE DEF last, before
  <2>6. /\ last[1] \in Nat /\ last[2] \in Nat
        /\ longer \in Pair /\ longer[1] = last[1] /\ longer[2] = last[2] + 1
    BY <2>2 DEF Pair
  <2> HIDE DEF longer
  <2>7. IdsOfPair(longer) = IdsOfPair(last) \o <<id>>
    <3> DEFINE u == IdsOfPair(longer)  v == IdsOfPair(last)  w == Append(v, id)
               l == last[2]
    <3>1. /\ u \in Seq(Nat) /\ Len(u) = l + 1
          /\ \A i \in 1..(l + 1) : u[i] = last[1] + i - 1
      BY <2>6, PairType
    <3>2. /\ v \in Seq(Nat) /\ Len(v) = l
          /\ \A i \in 1..l : v[i] = last[1] + i - 1
      BY <2>2, PairType
    <3> HIDE DEF u, v
    <3>3. /\ w \in Seq(Nat) /\ Len(w) = l + 1 /\ w[l + 1] = id
          /\ \A i \in 1..l : w[i] = v[i]
      BY <3>2, AppendProperties
    <3>4. w = v \o <<id>>
      BY <3>2, AppendIsConcat
    <3> HIDE DEF w, l
    <3>5. l \in Nat /\ id = last[1] + l /\ last[1] \in Nat
      BY <2>5, <2>6 DEF l
    <3>6. \A i \in 1..(l + 1) : u[i] = w[i]
      <4> TAKE i \in 1..(l + 1)
      <4>1. CASE i \in 1..l
        BY <3>1, <3>2, <3>3, <4>1
      <4>2. CASE i = l + 1
        <5>1. last[1] + (l + 1) - 1 = id
          BY <3>5
        <5>2. l + 1 \in 1..(l + 1)
          BY <3>5
        <5> QED  BY <3>1, <3>3, <4>2, <5>1, <5>2
      <4> QED  BY <3>5, <4>1, <4>2
    <3>7. u = w
      BY <3>1, <3>3, <3>6, SeqEqual
    <3> QED  BY <3>4, <3>7 DEF u, v
  <2>8. IndexedIds(runs) = IndexedIds(before) \o IdsOfPair(last)
    BY <2>2, <2>3, IndexedMore, Zenon
  <2>9. IndexedIds(Append(before, longer)) = IndexedIds(before) \o (IdsOfPair(last) \o <<id>>)
    BY <2>2, <2>6, <2>7, IndexedMore, Zenon
  <2>10. (IndexedIds(before) \o IdsOfPair(last)) \o <<id>>
           = IndexedIds(before) \o (IdsOfPair(last) \o <<id>>)
    <3>1. IndexedIds(before) \in Seq(Nat) /\ IdsOfPair(last) \in Seq(Nat) /\ <<id>> \in Seq(Nat)
      BY <2>2, IndexedMore, PairType
    <3> DEFINE u == IndexedIds(before)  v == IdsOfPair(last)  w == <<id>>
    <3>2. u \in Seq(Nat) /\ v \in Seq(Nat) /\ w \in Seq(Nat)
      BY <3>1
    <3> HIDE DEF u, v, w
    <3>3. (u \o v) \o w = u \o (v \o w)
      BY <3>2, Regrouped, Zenon
    <3> QED  BY <3>3 DEF u, v, w
  <2>11. Append(before, longer) \in Seq(Pair)
    BY <2>2, <2>6, AppendProperties, Zenon
  <2> QED  BY <2>4, <2>8, <2>9, <2>10, <2>11, Zenon
<1>2. CASE ~(runs # <<>> /\ id = last[1] + last[2])
  <2>1. Extended(runs, id) = Append(runs, <<id, 1>>)
    BY <1>2, Zenon DEF Extended
  <2>2. <<id, 1>> \in Pair /\ IdsOfPair(<<id, 1>>) = <<id>>
    BY SingleId
  <2>3. Append(runs, <<id, 1>>) \in Seq(Pair)
    BY <2>2, AppendProperties, Zenon
  <2> QED  BY <2>1, <2>2, <2>3, IndexedMore, Zenon
<1> QED  BY <1>1, <1>2

\* The runs of ids, one id after the other.
LEMMA RunsById ==
  ASSUME NEW ids \in Seq(Nat)
  PROVE  \E g \in [Nat -> Seq(Pair)] :
           /\ g[0] = <<>> /\ ContiguousRuns(ids) = g[Len(ids)]
           /\ \A i \in 1..Len(ids) : g[i] = Extended(g[i - 1], ids[i])
<1> DEFINE step == [n \in Nat |-> [x \in Seq(Pair) |-> IF n + 1 \in 1..Len(ids)
                                                     THEN Extended(x, ids[n + 1]) ELSE x]]
           T == Seq(Pair)
<1>0. Len(ids) \in Nat /\ \A i \in 1..Len(ids) : ids[i] \in Nat
  BY LenProperties, ElementOfSeq
<1> HIDE DEF step
<1>1. step \in [Nat -> [T -> T]]
  <2>1. \A n \in Nat, x \in T :
          (IF n + 1 \in 1..Len(ids) THEN Extended(x, ids[n + 1]) ELSE x) \in T
    <3> TAKE n \in Nat, x \in T
    <3>1. CASE n + 1 \in 1..Len(ids)
      <4>1. ids[n + 1] \in Nat
        BY <1>0, <3>1
      <4>2. Extended(x, ids[n + 1]) \in T
        BY <4>1, ExtendedIds, Zenon
      <4> QED  BY <3>1, <4>2, Zenon
    <3> QED  BY <3>1
  <2> QED  BY <2>1, Zenon DEF step
<1>2. PICK g \in [Nat -> T] : g[0] = <<>> /\ Iterates(g, step)
  <2>1. <<>> \in T
    OBVIOUS
  <2> HIDE DEF T
  <2> QED  BY <1>1, <2>1, Iteration
<1>3. \A i \in 1..Len(ids) : g[i] = Extended(g[i - 1], ids[i])
  <2> TAKE i \in 1..Len(ids)
  <2>1. i - 1 \in Nat /\ (i - 1) + 1 = i
    BY <1>0
  <2>2. g[i - 1] \in T
    BY <2>1
  <2>3. g[i] = step[i - 1][g[i - 1]]
    BY <1>2, <2>1 DEF Iterates
  <2>4. step[i - 1][g[i - 1]] = IF (i - 1) + 1 \in 1..Len(ids)
                                THEN Extended(g[i - 1], ids[(i - 1) + 1]) ELSE g[i - 1]
    BY <2>1, <2>2, Zenon DEF step
  <2>5. i \in 1..Len(ids)
    OBVIOUS
  <2> QED  BY <2>1, <2>3, <2>4, <2>5, Zenon
<1> DEFINE runs[n \in 0..Len(ids)] == IF n = 0 THEN <<>> ELSE Extended(runs[n - 1], ids[n])
           IsRuns(f) == f = [n \in 0..Len(ids) |->
                               IF n = 0 THEN <<>> ELSE Extended(f[n - 1], ids[n])]
           h == [i \in 0..Len(ids) |-> g[i]]
<1>4. ContiguousRuns(ids) = runs[Len(ids)]
  BY DEF ContiguousRuns
<1>5. IsRuns(h)
  <2>1. \A i \in 0..Len(ids) : g[i] = IF i = 0 THEN <<>> ELSE Extended(h[i - 1], ids[i])
    <3> TAKE i \in 0..Len(ids)
    <3>1. CASE i = 0
      BY <1>2, <3>1
    <3>2. CASE i # 0
      <4>1. i \in 1..Len(ids) /\ i - 1 \in 0..Len(ids)
        BY <1>0, <3>2
      <4>2. h[i - 1] = g[i - 1]
        BY <4>1
      <4> HIDE DEF h
      <4> QED  BY <1>3, <3>2, <4>1, <4>2
    <3> QED  BY <3>1, <3>2
  <2> QED  BY <2>1, Zenon
<1>6. runs = CHOOSE f : IsRuns(f)
  OBVIOUS
<1> HIDE DEF runs, h
<1>7. IsRuns(runs)
  <2> HIDE DEF IsRuns
  <2> QED  BY <1>5, <1>6
<1>8. \A i \in 1..Len(ids) : runs[i - 1] = g[i - 1] => runs[i] = g[i]
  <2> TAKE i \in 1..Len(ids)
  <2>1. i \in 0..Len(ids) /\ i # 0
    BY <1>0
  <2>2. runs[i] = Extended(runs[i - 1], ids[i])
    BY <1>7, <2>1
  <2> QED  BY <1>3, <2>2, Zenon
<1>9. runs[Len(ids)] = g[Len(ids)]
  <2>1. 0 \in 0..Len(ids)
    BY <1>0
  <2>2. runs[0] = <<>>
    BY <1>7, <2>1
  <2>3. runs[0] = g[0]
    BY <1>2, <2>2, Zenon
  <2> QED  BY <1>0, <1>8, <2>3, SameRecursion, Zenon
<1>10. g \in [Nat -> Seq(Pair)]
  OBVIOUS
<1> HIDE DEF T
<1> QED  BY <1>2, <1>3, <1>4, <1>9, <1>10, Zenon

\* The /Index of validation data lists the ids of its rows.
LEMMA RunsIds ==
  ASSUME NEW ids \in Seq(Nat)
  PROVE  IndexedIds(ContiguousRuns(ids)) = ids
<1>1. PICK g \in [Nat -> Seq(Pair)] :
           /\ g[0] = <<>> /\ ContiguousRuns(ids) = g[Len(ids)]
           /\ \A i \in 1..Len(ids) : g[i] = Extended(g[i - 1], ids[i])
  BY RunsById
<1>2. Len(ids) \in Nat
  BY LenProperties
<1> DEFINE f == [n \in 0..Len(ids) |-> IndexedIds(g[n])]
           h == [n \in 0..Len(ids) |-> SubSeq(ids, 1, n)]
<1>3. \A n \in 0..Len(ids) : f[n] = IndexedIds(g[n]) /\ h[n] = SubSeq(ids, 1, n)
  BY Zenon
<1> HIDE DEF f, h
<1>4. f[0] = h[0]
  <2>1. 0 \in 0..Len(ids)
    BY <1>2
  <2>2. SubSeq(ids, 1, 0) = <<>>
    BY SubSeqEmpty
  <2>3. IndexedIds(<<>>) = <<>>
    BY DEF IndexedIds, FlattenSeq
  <2> QED  BY <1>1, <1>3, <2>1, <2>2, <2>3, Zenon
<1>5. \A i \in 1..Len(ids) : f[i - 1] = h[i - 1] => f[i] = h[i]
  <2> TAKE i \in 1..Len(ids)
  <2> SUFFICES ASSUME f[i - 1] = h[i - 1] PROVE f[i] = h[i]
    OBVIOUS
  <2>1. i - 1 \in 0..Len(ids) /\ i \in 0..Len(ids) /\ i - 1 \in Nat
    BY <1>2
  <2>2. ids[i] \in Nat /\ SubSeq(ids, 1, i) = SubSeq(ids, 1, i - 1) \o <<ids[i]>>
    BY LongerBeginning, Zenon
  <2>3. g[i - 1] \in Seq(Pair) /\ g[i] = Extended(g[i - 1], ids[i])
    BY <1>1, <2>1
  <2>4. IndexedIds(g[i]) = IndexedIds(g[i - 1]) \o <<ids[i]>>
    BY <2>2, <2>3, ExtendedIds, Zenon
  <2>5. f[i] = f[i - 1] \o <<ids[i]>> /\ h[i] = h[i - 1] \o <<ids[i]>>
    BY <1>3, <2>1, <2>2, <2>4, Zenon
  <2> QED  BY <2>5, Zenon
<1>6. f[Len(ids)] = h[Len(ids)]
  BY <1>2, <1>4, <1>5, SameRecursion, Zenon
<1>7. SubSeq(ids, 1, Len(ids)) = ids
  BY SubSeqFull
<1>8. Len(ids) \in 0..Len(ids)
  BY <1>2
<1> QED  BY <1>1, <1>3, <1>6, <1>7, <1>8, Zenon

-----------------------------------------------------------------------------
(* Entries by id.                                                          *)

Different(entries) == \A i, j \in DOMAIN entries : entries[i].id = entries[j].id => i = j

\* How many entries have an id up to that of an entry.
Rank(all, entry) == Cardinality({other \in all : other.id <= entry.id})

\* Different entries are as many as their places.
LEMMA CountEntries ==
  ASSUME NEW entries \in Seq(XrefEntry), Different(entries)
  PROVE  /\ IsFiniteSet(ToSet(entries)) /\ Cardinality(ToSet(entries)) = Len(entries)
         /\ ToSet(entries) \subseteq XrefEntry
         /\ \A a, b \in ToSet(entries) : a.id = b.id => a = b
<1> DEFINE n == Len(entries)
           all == ToSet(entries)
<1>1. /\ n \in Nat /\ DOMAIN entries = 1..n /\ \A i \in 1..n : entries[i] \in XrefEntry
  BY LenProperties, ElementOfSeq
<1>2. all = {entries[i] : i \in 1..n}
  BY <1>1 DEF ToSet
<1>3. \A i, j \in 1..n : entries[i].id = entries[j].id => i = j
  BY <1>1 DEF Different
<1> HIDE DEF n, all
<1> DEFINE f == [i \in 1..n |-> entries[i]]
<1>4. f \in Injection(1..n, all)
  <2>1. f \in [1..n -> all]
    BY <1>2
  <2>2. \A i, j \in 1..n : f[i] = f[j] => i = j
    BY <1>3
  <2> HIDE DEF f
  <2>3. DOMAIN f = 1..n
    BY <2>1
  <2> QED  BY <2>1, <2>2, <2>3, Zenon DEF Injection, IsInjective
<1>5. f \in Surjection(1..n, all)
  <2>1. f \in [1..n -> all]
    BY <1>2
  <2>2. \A e \in all : \E i \in 1..n : f[i] = e
    BY <1>2
  <2> QED  BY <2>1, <2>2, Zenon DEF Surjection
<1>6. ExistsBijection(1..n, all)
  BY <1>4, <1>5, Zenon DEF ExistsBijection, Bijection
<1>7. Cardinality(all) = n
  BY <1>1, <1>6, FS_CountingElements, Zenon
<1>8. IsFiniteSet(all)
  BY <1>1, <1>6, FS_NatBijection, Zenon
<1>9. all \subseteq XrefEntry
  BY <1>1, <1>2
<1>10. \A a, b \in all : a.id = b.id => a = b
  BY <1>2, <1>3
<1> QED  BY <1>7, <1>8, <1>9, <1>10, Zenon DEF n, all

\* Every place has an entry of its rank.
LEMMA RankedEntry ==
  ASSUME NEW all, NEW n \in Nat, IsFiniteSet(all), Cardinality(all) = n,
         \A a \in all : a.id \in Nat, \A a, b \in all : a.id = b.id => a = b
  PROVE  /\ \A i \in 1..n : \E a \in all : Rank(all, a) = i
         /\ \A a \in all : Rank(all, a) \in 1..n
         /\ \A a, b \in all : Rank(all, a) = Rank(all, b) => a = b
<1> DEFINE Upto(a) == {other \in all : other.id <= a.id}
<1>1. \A a \in all : /\ Upto(a) \in SUBSET all /\ a \in Upto(a) /\ IsFiniteSet(Upto(a))
                     /\ Cardinality(Upto(a)) = Rank(all, a)
  <2> TAKE a \in all
  <2>1. Upto(a) \in SUBSET all /\ a \in Upto(a)
    OBVIOUS
  <2>2. IsFiniteSet(Upto(a))
    <3> HIDE DEF Upto
    <3> QED  BY <2>1, FS_Subset, Zenon
  <2>3. Cardinality(Upto(a)) = Rank(all, a)
    BY Zenon DEF Rank
  <2> QED  BY <2>1, <2>2, <2>3
<1>2. \A a \in all : Rank(all, a) \in 1..n
  <2> TAKE a \in all
  <2> HIDE DEF Upto
  <2>1. Rank(all, a) \in Nat
    BY <1>1, FS_CardinalityType
  <2>2. Rank(all, a) <= n
    BY <1>1, FS_Subset
  <2>3. Rank(all, a) # 0
    BY <1>1, FS_EmptySet
  <2> QED  BY <2>1, <2>2, <2>3
<1>3. \A a, b \in all : a.id < b.id => Rank(all, a) # Rank(all, b)
  <2> TAKE a, b \in all
  <2> SUFFICES ASSUME a.id < b.id, Rank(all, a) = Rank(all, b) PROVE FALSE
    OBVIOUS
  <2>1. Upto(a) \in SUBSET Upto(b) /\ b \notin Upto(a)
    OBVIOUS
  <2>2. Upto(a) = Upto(b)
    <3> DEFINE S == Upto(b)  T == Upto(a)
    <3>1. IsFiniteSet(S) /\ T \in SUBSET S /\ Cardinality(S) = Cardinality(T)
      BY <1>1, <2>1, Zenon
    <3> HIDE DEF S, T
    <3>2. S = T
      BY <3>1, FS_Subset, Zenon
    <3> QED  BY <3>2 DEF S, T
  <2> HIDE DEF Upto
  <2> QED  BY <1>1, <2>1, <2>2, Zenon
<1>4. \A a, b \in all : Rank(all, a) = Rank(all, b) => a = b
  <2> TAKE a, b \in all
  <2>1. a.id = b.id \/ a.id < b.id \/ b.id < a.id
    OBVIOUS
  <2> QED  BY <1>3, <2>1
<1> HIDE DEF Upto
<1> DEFINE f == [a \in all |-> Rank(all, a)]
<1>5. f \in Injection(all, 1..n)
  <2>1. f \in [all -> 1..n]
    BY <1>2
  <2>2. \A a, b \in all : f[a] = f[b] => a = b
    BY <1>4, Zenon
  <2> HIDE DEF f
  <2>3. DOMAIN f = all
    BY <2>1
  <2> QED  BY <2>1, <2>2, <2>3, Zenon DEF Injection, IsInjective
<1>6. IsFiniteSet(1..n) /\ Cardinality(1..n) = n
  <2>1. 1 \in Int /\ n \in Int
    OBVIOUS
  <2>2. IsFiniteSet(1..n) /\ Cardinality(1..n) = IF 1 > n THEN 0 ELSE n - 1 + 1
    BY <2>1, FS_Interval
  <2> QED  BY <2>2
<1>7. f \in Surjection(all, 1..n)
  <2> HIDE DEF f
  <2> QED  BY <1>5, <1>6, FS_Injection, Zenon
<1>8. \A i \in 1..n : \E a \in all : f[a] = i
  <2> HIDE DEF f
  <2> QED  BY <1>7, Zenon DEF Surjection
<1>9. \A i \in 1..n : \E a \in all : Rank(all, a) = i
  BY <1>8, Zenon
<1> QED  BY <1>2, <1>4, <1>9

\* Sorting keeps the entries, all different.
LEMMA SortedKeeps ==
  ASSUME NEW entries \in Seq(XrefEntry), Different(entries)
  PROVE  /\ Sorted(entries) \in Seq(XrefEntry)
         /\ ToSet(Sorted(entries)) = ToSet(entries)
         /\ Different(Sorted(entries))
<1> DEFINE n == Len(entries)
           all == ToSet(entries)
           s == Sorted(entries)
<1>1. /\ IsFiniteSet(all) /\ Cardinality(all) = n /\ all \subseteq XrefEntry
      /\ \A a, b \in all : a.id = b.id => a = b
  BY CountEntries, Zenon
<1>2. n \in Nat /\ DOMAIN entries = 1..n
  BY LenProperties
<1> HIDE DEF n, all
<1>3. \A a \in all : a.id \in Nat
  BY <1>1 DEF XrefEntry
<1>4. /\ \A i \in 1..n : \E a \in all : Rank(all, a) = i
      /\ \A a \in all : Rank(all, a) \in 1..n
      /\ \A a, b \in all : Rank(all, a) = Rank(all, b) => a = b
  BY <1>1, <1>2, <1>3, RankedEntry, Zenon
<1>5. s = [i \in 1..n |-> CHOOSE a \in all : Rank(all, a) = i]
  BY <1>2, Zenon DEF Sorted, Rank, all
<1> HIDE DEF s
<1>6. \A i \in 1..n : s[i] \in all /\ Rank(all, s[i]) = i
  BY <1>4, <1>5
<1>7. s \in Seq(XrefEntry) /\ Len(s) = n /\ DOMAIN s = 1..n
  <2>1. \A i \in 1..n : s[i] \in XrefEntry
    BY <1>1, <1>6
  <2> QED  BY <1>2, <1>5, <2>1
<1>8. ToSet(s) = all
  <2>1. \A a \in all : \E i \in 1..n : s[i] = a
    <3> TAKE a \in all
    <3>1. Rank(all, a) \in 1..n
      BY <1>4
    <3>2. s[Rank(all, a)] = a
      BY <1>4, <1>6, <3>1
    <3> QED  BY <3>1, <3>2
  <2>2. ToSet(s) = {s[i] : i \in 1..n}
    BY <1>7 DEF ToSet
  <2> QED  BY <1>6, <2>1, <2>2
<1>9. Different(s)
  <2>1. \A i, j \in 1..n : s[i].id = s[j].id => i = j
    BY <1>1, <1>6
  <2> QED  BY <1>7, <2>1 DEF Different
<1> QED  BY <1>7, <1>8, <1>9 DEF s, all

\* The first place of an id.
PlaceOf(entries, id) == SelectInSeq(entries, LAMBDA entry : entry.id = id)

\* The first row of an id is the first place of its entry.
LEMMA FirstPlace ==
  ASSUME NEW entries \in Seq(XrefEntry), NEW id, \E i \in 1..Len(entries) : entries[i].id = id
  PROVE  /\ PlaceOf(entries, id) \in 1..Len(entries) /\ entries[PlaceOf(entries, id)].id = id
         /\ RowOf(IdsOf(entries), id) = PlaceOf(entries, id)
<1> DEFINE I == {i \in 1..Len(entries) : entries[i].id = id}
<1>1. /\ Len(IdsOf(entries)) = Len(entries) /\ Len(entries) \in Nat
      /\ \A i \in 1..Len(entries) : IdsOf(entries)[i] = entries[i].id
  BY IdsOfType
<1>2. {i \in 1..Len(IdsOf(entries)) : IdsOf(entries)[i] = id} = I
  BY <1>1
<1>3. I # {} /\ I \in SUBSET Nat
  OBVIOUS
<1>4. PlaceOf(entries, id) = Min(I)
  BY <1>3, Zenon DEF PlaceOf, SelectInSeq
<1>5. RowOf(IdsOf(entries), id) = Min(I)
  BY <1>2, <1>3, Zenon DEF RowOf, SelectInSeq
<1>6. Min(I) \in I
  <2> HIDE DEF I
  <2>1. \E x \in I : \A y \in I : x <= y
    BY <1>3, LeastNat, Zenon
  <2> QED  BY <2>1, Zenon DEF Min
<1> QED  BY <1>4, <1>5, <1>6

\* A stream has these entries in its rows, with their ids in its /Index.
Lists(stream, entries) ==
  IndexedIds(stream.index) = IdsOf(entries) /\ stream.rows = Rows(entries)

\* What a stream has to list of a revision, in whatever order.
ListsRevision(entries, revision) ==
  /\ \A i \in 1..Len(entries) : Fits(entries[i].offset, OffsetWidth) /\ InRange(entries[i].generation)
  /\ \A id : (\E i \in 1..Len(entries) : entries[i].id = id) <=> Writes(revision, id)
  /\ \A id : Writes(revision, id) => entries[PlaceOf(entries, id)] = FirstOf(revision, id)

\* A revision is by a signature or by validation data, and what it records is entries.
LEMMA RecordedType ==
  ASSUME NEW revision \in Revision
  PROVE  /\ revision.updated \in Seq(XrefEntry) /\ revision.new \in Seq(XrefEntry)
         /\ revision.last \in Nat
         /\ revision.by = "signature" \/ revision.by = "validation"
         /\ Recorded(revision) \in Seq(XrefEntry)
         /\ DOMAIN Recorded(revision) = 1..Len(Recorded(revision))
         /\ Len(Recorded(revision)) \in Nat
<1>1. /\ revision.updated \in Seq(XrefEntry) /\ revision.new \in Seq(XrefEntry)
      /\ revision.last \in Nat
      /\ revision.by = "signature" \/ revision.by = "validation"
  BY DEF Revision
<1>2. Recorded(revision) \in Seq(XrefEntry)
  BY <1>1, IdsOfConcat, Zenon DEF Recorded
<1> QED  BY <1>1, <1>2, LenProperties, Zenon

\* Which entries a revision writes and which is found first, by their places.
LEMMA WritesAtPlace ==
  ASSUME NEW revision \in Revision, NEW id
  PROVE  /\ Writes(revision, id)
              <=> \E i \in 1..Len(Recorded(revision)) : Recorded(revision)[i].id = id
         /\ FirstOf(revision, id) = Recorded(revision)[PlaceOf(Recorded(revision), id)]
<1>1. DOMAIN Recorded(revision) = 1..Len(Recorded(revision))
  BY RecordedType
<1>2. Writes(revision, id) <=> \E i \in 1..Len(Recorded(revision)) : Recorded(revision)[i].id = id
  BY <1>1, Zenon DEF Writes, ToSet
<1>3. FirstOf(revision, id) = Recorded(revision)[PlaceOf(Recorded(revision), id)]
  BY Zenon DEF FirstOf, PlaceOf
<1> QED  BY <1>2, <1>3

\* The stream of a signature lists what it recorded, in that order.
LEMMA SignatureLists ==
  ASSUME NEW revision \in Revision, Writable(revision), revision.by = "signature", ~Fails(revision)
  PROVE  /\ Lists(StreamOf(revision), Recorded(revision))
         /\ ListsRevision(Recorded(revision), revision)
<1> DEFINE u == revision.updated  n == revision.new  r == Recorded(revision)
<1>1. u \in Seq(XrefEntry) /\ n \in Seq(XrefEntry) /\ revision.last \in Nat /\ DOMAIN r = 1..Len(r)
  BY RecordedType
<1>2. Accepted(u, n)
  BY DEF Fails
<1>3. StreamOf(revision) = [index |-> SignatureIndex(u, n, revision.last), rows |-> Rows(u \o n)]
  BY <1>2, Zenon DEF StreamOf, SignatureStream
<1>4. r = u \o n
  BY Zenon DEF Recorded
<1>5. IndexedIds(SignatureIndex(u, n, revision.last)) = IdsOf(u \o n)
  <2>1. \A i \in DOMAIN n : n[i].id = revision.last + i
    BY Zenon DEF Writable
  <2> HIDE DEF u, n
  <2> QED  BY <1>1, <2>1, SignatureIds, Zenon
<1> HIDE DEF u, n
<1>6. Lists(StreamOf(revision), r)
  <2>1. StreamOf(revision).index = SignatureIndex(u, n, revision.last)
    BY <1>3
  <2>2. StreamOf(revision).rows = Rows(u \o n)
    BY <1>3
  <2> QED  BY <1>4, <1>5, <2>1, <2>2, Zenon DEF Lists
<1>7. \A i \in 1..Len(r) : Fits(r[i].offset, OffsetWidth) /\ InRange(r[i].generation)
  <2> TAKE i \in 1..Len(r)
  <2>1. Fits(r[i].offset, OffsetWidth)
    BY <1>1, Zenon DEF Writable
  <2>2. r[i] \in ToSet(u \o n)
    BY <1>1, <1>4, Zenon DEF ToSet
  <2> QED  BY <1>2, <2>1, <2>2, Zenon DEF Accepted
<1>8. ListsRevision(r, revision)
  BY <1>7, WritesAtPlace, Zenon DEF ListsRevision
<1> QED  BY <1>6, <1>8

\* That of validation data lists them by id.
LEMMA ValidationLists ==
  ASSUME NEW revision \in Revision, Writable(revision), revision.by = "validation"
  PROVE  /\ Sorted(Recorded(revision)) \in Seq(XrefEntry)
         /\ Lists(StreamOf(revision), Sorted(Recorded(revision)))
         /\ ListsRevision(Sorted(Recorded(revision)), revision)
<1> DEFINE r == Recorded(revision)
           s == Sorted(r)
<1>1. r \in Seq(XrefEntry) /\ DOMAIN r = 1..Len(r)
  BY RecordedType
<1>2. Different(r)
  BY Zenon DEF Writable, Different
<1>3. s \in Seq(XrefEntry) /\ ToSet(s) = ToSet(r) /\ Different(s)
  <2> HIDE DEF r
  <2> QED  BY <1>1, <1>2, SortedKeeps, Zenon
<1>4. DOMAIN s = 1..Len(s)
  BY <1>3, LenProperties, Zenon
<1>5. StreamOf(revision)
        = [index |-> ContiguousRuns([i \in DOMAIN s |-> s[i].id]), rows |-> Rows(s)]
  <2>1. revision.by # "signature"
    OBVIOUS
  <2> QED  BY <2>1, Zenon DEF StreamOf, ValidationStream, Recorded
<1>6. Lists(StreamOf(revision), s)
  <2> HIDE DEF s
  <2>1. IdsOf(s) \in Seq(Nat)
    BY <1>3, IdsOfType
  <2>2. IndexedIds(ContiguousRuns(IdsOf(s))) = IdsOf(s)
    BY <2>1, RunsIds, Zenon
  <2>3. [i \in DOMAIN s |-> s[i].id] = IdsOf(s)
    BY Zenon DEF IdsOf
  <2>4. StreamOf(revision).index = ContiguousRuns([i \in DOMAIN s |-> s[i].id])
    BY <1>5
  <2>5. StreamOf(revision).rows = Rows(s)
    BY <1>5
  <2> QED  BY <2>2, <2>3, <2>4, <2>5, Zenon DEF Lists
<1>7. \A e \in ToSet(r) : \E i \in 1..Len(r) : e = r[i]
  BY <1>1, Zenon DEF ToSet
<1>8. \A e \in ToSet(s) : \E i \in 1..Len(s) : e = s[i]
  <2> HIDE DEF s
  <2> QED  BY <1>4, Zenon DEF ToSet
<1>9. (\A i \in 1..Len(s) : s[i] \in ToSet(s)) /\ (\A i \in 1..Len(r) : r[i] \in ToSet(r))
  <2> HIDE DEF s, r
  <2> QED  BY <1>1, <1>4, Zenon DEF ToSet
<1>10. \A i \in 1..Len(s) : Fits(s[i].offset, OffsetWidth) /\ InRange(s[i].generation)
  <2>1. \A i \in 1..Len(r) : Fits(r[i].offset, OffsetWidth) /\ InRange(r[i].generation)
    BY <1>1, Zenon DEF Writable
  <2> HIDE DEF s, r
  <2> QED  BY <1>3, <1>7, <1>9, <2>1, Zenon
<1>11. \A id : (\E i \in 1..Len(s) : s[i].id = id) <=> Writes(revision, id)
  <2> TAKE id
  <2>1. Writes(revision, id) <=> \E i \in 1..Len(r) : r[i].id = id
    BY WritesAtPlace
  <2> HIDE DEF s, r
  <2>2. ASSUME NEW i \in 1..Len(s), s[i].id = id PROVE \E j \in 1..Len(r) : r[j].id = id
    <3>1. PICK j \in 1..Len(r) : s[i] = r[j]
      BY <1>3, <1>7, <1>9, Zenon
    <3> QED  BY <2>2, <3>1, Zenon
  <2>3. ASSUME NEW i \in 1..Len(r), r[i].id = id PROVE \E j \in 1..Len(s) : s[j].id = id
    <3>1. PICK j \in 1..Len(s) : r[i] = s[j]
      BY <1>3, <1>8, <1>9, Zenon
    <3> QED  BY <2>3, <3>1, Zenon
  <2> QED  BY <2>1, <2>2, <2>3, Zenon
<1>12. \A a, b \in ToSet(r) : a.id = b.id => a = b
  <2> HIDE DEF r
  <2> QED  BY <1>1, <1>2, CountEntries, Zenon
<1>13. \A id : Writes(revision, id) => s[PlaceOf(s, id)] = FirstOf(revision, id)
  <2> TAKE id
  <2> SUFFICES ASSUME Writes(revision, id) PROVE s[PlaceOf(s, id)] = FirstOf(revision, id)
    OBVIOUS
  <2>1. /\ \E i \in 1..Len(r) : r[i].id = id
        /\ FirstOf(revision, id) = r[PlaceOf(r, id)]
    BY WritesAtPlace
  <2>2. \E i \in 1..Len(s) : s[i].id = id
    BY <1>11
  <2> HIDE DEF s, r
  <2>3. PlaceOf(r, id) \in 1..Len(r) /\ r[PlaceOf(r, id)].id = id
    BY <1>1, <2>1, FirstPlace, Zenon
  <2>4. PlaceOf(s, id) \in 1..Len(s) /\ s[PlaceOf(s, id)].id = id
    BY <1>3, <2>2, FirstPlace, Zenon
  <2> QED  BY <1>3, <1>9, <1>12, <2>1, <2>3, <2>4, Zenon
<1> HIDE DEF s
<1> QED  BY <1>3, <1>6, <1>10, <1>11, <1>13, Zenon DEF ListsRevision, s

\* What reading the stream of a revision makes of a table.
AfterRevision(table, revision) ==
  [id \in DOMAIN table |->
     IF table[id] # NoEntry \/ Fails(revision) \/ ~Writes(revision, id) THEN table[id]
     ELSE {ReadEntry(FirstOf(revision, id))}]

\* A stream that lists the entries of its revision adds the first of each id that is not read yet.
LEMMA ReadLists ==
  ASSUME NEW revision, NEW entries \in Seq(XrefEntry), NEW table,
         Lists(StreamOf(revision), entries), ListsRevision(entries, revision), ~Fails(revision)
  PROVE  ReadStream(table, StreamOf(revision)) = AfterRevision(table, revision)
<1> DEFINE stream == StreamOf(revision)
           ids == IndexedIds(stream.index)
<1>1. ids = IdsOf(entries) /\ stream.rows = Rows(entries)
  BY Zenon DEF Lists
<1>2. /\ IdsOf(entries) \in Seq(Nat) /\ Len(IdsOf(entries)) = Len(entries)
      /\ \A i \in 1..Len(entries) : IdsOf(entries)[i] = entries[i].id
  BY IdsOfType
<1>3. DOMAIN IdsOf(entries) = 1..Len(entries) /\ DOMAIN entries = 1..Len(entries)
  BY <1>2, LenProperties
<1>4. ReadStream(table, stream)
        = [id \in DOMAIN table |->
             IF table[id] # NoEntry \/ id \notin ToSet(ids) THEN table[id]
             ELSE {DecodedRow(stream.rows[RowOf(ids, id)])}]
  BY Zenon DEF ReadStream
<1>5. \A id : id \in ToSet(ids) <=> Writes(revision, id)
  <2> TAKE id
  <2>1. id \in ToSet(ids) <=> \E i \in 1..Len(entries) : entries[i].id = id
    <3>1. ToSet(ids) = {ids[i] : i \in 1..Len(entries)}
      BY <1>1, <1>3, Zenon DEF ToSet
    <3> HIDE DEF ids
    <3> QED  BY <1>1, <1>2, <3>1
  <2> QED  BY <2>1, Zenon DEF ListsRevision
<1>6. ASSUME NEW id, Writes(revision, id)
      PROVE  DecodedRow(stream.rows[RowOf(ids, id)]) = ReadEntry(FirstOf(revision, id))
  <2> DEFINE k == PlaceOf(entries, id)
  <2>1. \E i \in 1..Len(entries) : entries[i].id = id
    BY <1>6, Zenon DEF ListsRevision
  <2>2. k \in 1..Len(entries) /\ RowOf(IdsOf(entries), id) = k
    BY <2>1, FirstPlace, Zenon
  <2>3. stream.rows[k] = Row(entries[k])
    <3>1. Rows(entries) = [i \in 1..Len(entries) |-> Row(entries[i])]
      BY <1>3, Zenon DEF Rows
    <3> HIDE DEF k, stream
    <3> QED  BY <1>1, <2>2, <3>1, Zenon
  <2>4. entries[k] = FirstOf(revision, id)
    BY <1>6, Zenon DEF ListsRevision
  <2>5. Fits(entries[k].offset, OffsetWidth) /\ InRange(entries[k].generation)
    BY <2>2, Zenon DEF ListsRevision
  <2> HIDE DEF k, ids, stream
  <2>6. DecodedRow(Row(entries[k])) = ReadEntry(entries[k])
    BY <2>5, RowReadBack, Zenon
  <2> QED  BY <1>1, <2>2, <2>3, <2>4, <2>6, Zenon
<1> HIDE DEF ids
<1>7. \A id \in DOMAIN table :
        (IF table[id] # NoEntry \/ id \notin ToSet(ids) THEN table[id]
         ELSE {DecodedRow(stream.rows[RowOf(ids, id)])})
        = IF table[id] # NoEntry \/ Fails(revision) \/ ~Writes(revision, id) THEN table[id]
          ELSE {ReadEntry(FirstOf(revision, id))}
  BY <1>5, <1>6, Zenon
<1> HIDE DEF stream
<1>8. ReadStream(table, stream) = AfterRevision(table, revision)
  BY <1>4, <1>7, Zenon DEF AfterRevision
<1> QED  BY <1>8 DEF stream

\* So does every stream, and one with an error adds nothing.
LEMMA ReadRevision ==
  ASSUME NEW revision \in Revision, Writable(revision), NEW table
  PROVE  ReadStream(table, StreamOf(revision)) = AfterRevision(table, revision)
<1>0. revision.by = "signature" \/ revision.by = "validation"
  BY RecordedType
<1>1. CASE Fails(revision)
  <2>1. revision.by = "signature" /\ ~Accepted(revision.updated, revision.new)
    BY <1>1, Zenon DEF Fails
  <2>2. StreamOf(revision) = [index |-> <<>>, rows |-> <<>>]
    BY <2>1, Zenon DEF StreamOf, SignatureStream, Rejected
  <2>3. IndexedIds(StreamOf(revision).index) = <<>>
    <3>1. StreamOf(revision).index = <<>>
      BY <2>2
    <3>2. IndexedIds(<<>>) = <<>>
      BY DEF IndexedIds, FlattenSeq
    <3> QED  BY <3>1, <3>2, Zenon
  <2>4. ToSet(<<>>) = {}
    BY DEF ToSet
  <2>5. \A id : id \notin ToSet(IndexedIds(StreamOf(revision).index))
    <3> HIDE DEF IndexedIds
    <3> QED  BY <2>3, <2>4
  <2> DEFINE ids == IndexedIds(StreamOf(revision).index)
             row(id) == DecodedRow(StreamOf(revision).rows[RowOf(ids, id)])
  <2>6. ReadStream(table, StreamOf(revision))
        = [id \in DOMAIN table |->
             IF table[id] # NoEntry \/ id \notin ToSet(ids) THEN table[id]
             ELSE {row(id)}]
    BY Zenon DEF ReadStream
  <2> HIDE DEF ids, row
  <2>7. \A id \in DOMAIN table :
          (IF table[id] # NoEntry \/ id \notin ToSet(ids) THEN table[id] ELSE {row(id)})
          = IF table[id] # NoEntry \/ Fails(revision) \/ ~Writes(revision, id) THEN table[id]
            ELSE {ReadEntry(FirstOf(revision, id))}
    BY <1>1, <2>5, Zenon DEF ids
  <2> QED  BY <2>6, <2>7, Zenon DEF AfterRevision
<1>2. CASE ~Fails(revision) /\ revision.by = "signature"
  <2>1. Recorded(revision) \in Seq(XrefEntry)
    BY RecordedType
  <2> QED  BY <1>2, <2>1, SignatureLists, ReadLists, Zenon
<1>3. CASE ~Fails(revision) /\ revision.by = "validation"
  BY <1>3, ValidationLists, ReadLists, Zenon
<1> QED  BY <1>0, <1>1, <1>2, <1>3

-----------------------------------------------------------------------------
(* All streams.                                                            *)

\* The first n revisions that write an id, and what a reader has of it after them.
WritingUpto(revisions, n, id) ==
  {i \in 1..n : ~Fails(revisions[i]) /\ Writes(revisions[i], id)}

ReadUpto(revisions, n, id) ==
  LET writing == WritingUpto(revisions, n, id)
  IN IF writing = {} THEN NoEntry ELSE {ReadEntry(FirstOf(revisions[Min(writing)], id))}

\* One revision more counts only if no newer one writes the id.
LEMMA OneMoreRevision ==
  ASSUME NEW revisions, NEW n \in Nat, n # 0, NEW id
  PROVE  ReadUpto(revisions, n, id)
           = IF ReadUpto(revisions, n - 1, id) # NoEntry \/ Fails(revisions[n])
                  \/ ~Writes(revisions[n], id)
             THEN ReadUpto(revisions, n - 1, id)
             ELSE {ReadEntry(FirstOf(revisions[n], id))}
<1> DEFINE W == WritingUpto(revisions, n - 1, id)
           V == WritingUpto(revisions, n, id)
           entry(k) == {ReadEntry(FirstOf(revisions[k], id))}
           more == ~Fails(revisions[n]) /\ Writes(revisions[n], id)
<1>1. ReadUpto(revisions, n - 1, id) = IF W = {} THEN {} ELSE entry(Min(W))
  BY Zenon DEF ReadUpto, NoEntry
<1>2. ReadUpto(revisions, n, id) = IF V = {} THEN {} ELSE entry(Min(V))
  BY Zenon DEF ReadUpto, NoEntry
<1>3. V = IF more THEN W \union {n} ELSE W
  <2>1. \A i : i \in 1..n <=> i \in 1..(n - 1) \/ i = n
    OBVIOUS
  <2>2. \A i : i \in V <=> i \in 1..n /\ ~Fails(revisions[i]) /\ Writes(revisions[i], id)
    BY Zenon DEF WritingUpto
  <2>3. \A i : i \in W <=> i \in 1..(n - 1) /\ ~Fails(revisions[i]) /\ Writes(revisions[i], id)
    BY Zenon DEF WritingUpto
  <2> HIDE DEF V, W
  <2>4. CASE more
    <3>1. \A i : i \in V <=> i \in W \/ i = n
      BY <2>1, <2>2, <2>3, <2>4, Zenon
    <3> HIDE DEF more
    <3> QED  BY <2>4, <3>1
  <2>5. CASE ~more
    <3>1. \A i : i \in V <=> i \in W
      BY <2>1, <2>2, <2>3, <2>5, Zenon
    <3> HIDE DEF more
    <3> QED  BY <2>5, <3>1
  <2> QED  BY <2>4, <2>5
<1>4. W \in SUBSET (1..(n - 1))
  BY Zenon DEF WritingUpto
<1>5. \A k : entry(k) # {}
  OBVIOUS
<1> HIDE DEF W, V, entry, more
<1>6. W # {} /\ more => Min(V) = Min(W)
  <2> SUFFICES ASSUME W # {}, more PROVE Min(V) = Min(W)
    OBVIOUS
  <2>1. W \in SUBSET Nat /\ \A y \in W : y <= n
    BY <1>4
  <2>2. Min(W) \in W /\ \A y \in W : Min(W) <= y
    <3>1. \E x \in W : \A y \in W : x <= y
      BY <2>1, LeastNat, Zenon
    <3> QED  BY <3>1, Zenon DEF Min
  <2>3. Min(W) <= n
    BY <2>1, <2>2
  <2>4. V = W \union {n}
    BY <1>3
  <2>5. Min(W) \in V /\ \A y \in V : Min(W) <= y
    BY <2>2, <2>3, <2>4
  <2>6. Min(V) \in V /\ \A y \in V : Min(V) <= y
    BY <2>5, Zenon DEF Min
  <2>7. Min(W) <= Min(V) /\ Min(V) <= Min(W)
    BY <2>5, <2>6
  <2>8. Min(W) \in Nat /\ Min(V) \in Nat
    BY <2>1, <2>4, <2>5, <2>6
  <2> QED  BY <2>7, <2>8
<1>7. W = {} /\ more => Min(V) = n
  <2> SUFFICES ASSUME W = {}, more PROVE Min(V) = n
    OBVIOUS
  <2>1. V = {n}
    BY <1>3
  <2>2. \E x \in V : \A y \in V : x <= y
    BY <2>1
  <2>3. Min(V) \in V
    BY <2>2, Zenon DEF Min
  <2> QED  BY <2>1, <2>3
<1>8. more <=> ~(Fails(revisions[n]) \/ ~Writes(revisions[n], id))
  BY Zenon DEF more
<1>9. entry(n) = {ReadEntry(FirstOf(revisions[n], id))}
  BY DEF entry
<1>10. CASE more
  <2>1. V # {} /\ (W # {} => Min(V) = Min(W)) /\ (W = {} => Min(V) = n)
    BY <1>3, <1>6, <1>7, <1>10
  <2> QED  BY <1>1, <1>2, <1>5, <1>8, <1>9, <1>10, <2>1, Zenon DEF NoEntry
<1>11. CASE ~more
  <2>1. V = W
    BY <1>3, <1>11
  <2> QED  BY <1>1, <1>2, <1>8, <1>11, <2>1, Zenon DEF NoEntry
<1> QED  BY <1>10, <1>11

\* Reading all streams, the newest first, leaves of each id the entry of the newest revision
\* that writes it.
LEMMA AllRead ==
  ASSUME NEW revisions \in Seq(Revision), NEW ids,
         \A i \in 1..Len(revisions) : Writable(revisions[i])
  PROVE  ReadStreams(ids, [i \in 1..Len(revisions) |-> StreamOf(revisions[i])])
           = [id \in ids |-> ReadUpto(revisions, Len(revisions), id)]
<1> DEFINE N == Len(revisions)
           streams == [i \in 1..N |-> StreamOf(revisions[i])]
           IsRead(f) == f = [n \in 0..N |->
                               IF n = 0 THEN [id \in ids |-> NoEntry]
                               ELSE ReadStream(f[n - 1], streams[n])]
           read == CHOOSE f : IsRead(f)
           upto(n) == [id \in ids |-> ReadUpto(revisions, n, id)]
           h == [n \in 0..N |-> upto(n)]
<1>1. N \in Nat /\ \A i \in 1..N : revisions[i] \in Revision
  BY LenProperties, ElementOfSeq
<1>2. Len(streams) = N
  <2> DEFINE stream(i) == StreamOf(revisions[i])
  <2>1. streams = [i \in 1..N |-> stream(i)]
    OBVIOUS
  <2> HIDE DEF N, stream, streams
  <2> QED  BY <1>1, <2>1
<1>3. ReadStreams(ids, streams) = read[N]
  <2>1. ReadStreams(ids, streams) = (CHOOSE f : f = [n \in 0..Len(streams) |->
                                       IF n = 0 THEN [id \in ids |-> NoEntry]
                                       ELSE ReadStream(f[n - 1], streams[n])])[Len(streams)]
    BY Zenon DEF ReadStreams
  <2> HIDE DEF streams
  <2> QED  BY <1>2, <2>1, Zenon
<1>4. upto(0) = [id \in ids |-> NoEntry]
  <2>1. \A id : ReadUpto(revisions, 0, id) = NoEntry
    <3> TAKE id
    <3>1. WritingUpto(revisions, 0, id) = {}
      BY DEF WritingUpto
    <3> QED  BY <3>1, Zenon DEF ReadUpto
  <2> QED  BY <2>1, Zenon
<1>5. \A n \in 1..N : ReadStream(upto(n - 1), streams[n]) = upto(n)
  <2> TAKE n \in 1..N
  <2>1. n \in Nat /\ n # 0
    BY <1>1
  <2>2. streams[n] = StreamOf(revisions[n])
    OBVIOUS
  <2>3. revisions[n] \in Revision /\ Writable(revisions[n])
    BY <1>1
  <2> HIDE DEF upto, streams
  <2>4. ReadStream(upto(n - 1), streams[n]) = AfterRevision(upto(n - 1), revisions[n])
    BY <2>2, <2>3, ReadRevision, Zenon
  <2>5. /\ DOMAIN upto(n - 1) = ids
        /\ \A id \in ids : upto(n - 1)[id] = ReadUpto(revisions, n - 1, id)
    BY Zenon DEF upto
  <2>6. \A id \in ids :
          (IF upto(n - 1)[id] # NoEntry \/ Fails(revisions[n]) \/ ~Writes(revisions[n], id)
           THEN upto(n - 1)[id] ELSE {ReadEntry(FirstOf(revisions[n], id))})
          = ReadUpto(revisions, n, id)
    <3> TAKE id \in ids
    <3>1. upto(n - 1)[id] = ReadUpto(revisions, n - 1, id)
      BY <2>5, Zenon
    <3>2. ReadUpto(revisions, n, id)
            = IF ReadUpto(revisions, n - 1, id) # NoEntry \/ Fails(revisions[n])
                   \/ ~Writes(revisions[n], id)
              THEN ReadUpto(revisions, n - 1, id)
              ELSE {ReadEntry(FirstOf(revisions[n], id))}
      <4> HIDE DEF N, h, read
      <4> QED  BY <2>1, OneMoreRevision
    <3> QED  BY <3>1, <3>2, Zenon
  <2>7. AfterRevision(upto(n - 1), revisions[n])
          = [id \in ids |->
               IF upto(n - 1)[id] # NoEntry \/ Fails(revisions[n]) \/ ~Writes(revisions[n], id)
               THEN upto(n - 1)[id] ELSE {ReadEntry(FirstOf(revisions[n], id))}]
    BY <2>5, Zenon DEF AfterRevision
  <2>8. AfterRevision(upto(n - 1), revisions[n]) = upto(n)
    BY <2>6, <2>7, Zenon DEF upto
  <2> QED  BY <2>4, <2>8, Zenon
<1> HIDE DEF streams, upto
<1>6. \A n \in 0..N : h[n] = upto(n)
  BY Zenon
<1>7. \A n \in 0..N : n = 0 \/ (n # 0 /\ n \in 1..N /\ n - 1 \in 0..N)
  BY <1>1
<1>8. IsRead(h)
  <2>1. \A n \in 0..N : upto(n) = IF n = 0 THEN [id \in ids |-> NoEntry]
                                  ELSE ReadStream(h[n - 1], streams[n])
    <3> TAKE n \in 0..N
    <3> HIDE DEF N
    <3>1. CASE n = 0
      BY <1>4, <3>1, Zenon
    <3>2. CASE n # 0
      <4>1. n \in 1..N /\ n - 1 \in 0..N
        BY <1>7, <3>2, Zenon
      <4>2. h[n - 1] = upto(n - 1)
        BY <1>6, <4>1, Zenon
      <4> HIDE DEF h
      <4> QED  BY <1>5, <3>2, <4>1, <4>2, Zenon
    <3> QED  BY <3>1, <3>2, Zenon
  <2> QED  BY <2>1, Zenon
<1>9. IsRead(read)
  <2> HIDE DEF IsRead, h
  <2> QED  BY <1>8, Zenon
<1> HIDE DEF h, read, N
<1>10. read[0] = upto(0) /\ \A n \in 1..N : read[n] = ReadStream(read[n - 1], streams[n])
  <2>1. \A n \in 0..N : read[n] = IF n = 0 THEN [id \in ids |-> NoEntry]
                                  ELSE ReadStream(read[n - 1], streams[n])
    BY <1>9, Zenon
  <2>2. 0 \in 0..N /\ \A n \in 1..N : n \in 0..N /\ n # 0
    BY <1>1
  <2> QED  BY <1>4, <2>1, <2>2, Zenon
<1>11. read[0] = h[0] /\ \A n \in 1..N : read[n - 1] = h[n - 1] => read[n] = h[n]
  <2>1. 0 \in 0..N /\ \A n \in 1..N : n \in 0..N /\ n - 1 \in 0..N
    BY <1>1
  <2> QED  BY <1>5, <1>6, <1>10, <2>1, Zenon
<1>12. read[N] = h[N]
  BY <1>1, <1>11, SameRecursion, Zenon
<1>13. N \in 0..N
  BY <1>1
<1>14. read[N] = upto(N)
  BY <1>6, <1>12, <1>13, Zenon
<1> QED  BY <1>3, <1>14, Zenon DEF streams, upto, N

\* EntriesReadBack of PureFunctions: whatever revisions a document has, of signatures and of
\* validation data, its reader finds every object where the newest revision that wrote it has put
\* it, with its generation, and finds nothing of an object that none wrote.
THEOREM EntriesReadBackAlways == Spec => []EntriesReadBack
<1>1. AnswerInv => EntriesReadBack
  <2> SUFFICES ASSUME AnswerInv, Returned("writeXrefStream") PROVE EntriesReadBack
    BY DEF EntriesReadBack
  <2> DEFINE of == arguments.of
             revisions == of.revisions
             N == Len(revisions)
             table == [id \in of.ids |-> ReadUpto(revisions, N, id)]
             rejected == {i \in 1..N : Fails(revisions[i])}
  <2>1. of \in Revisions
    BY DEF AnswerInv, Arguments, Returned
  <2>2. result = <<ReadBack(of)>>
    BY DEF AnswerInv
  <2>3. revisions \in Seq(Revision) /\ \A i \in DOMAIN revisions : Writable(revisions[i])
    BY <2>1, RevisionsAssumption, Zenon
  <2>4. DOMAIN revisions = 1..N
    BY <2>3, LenProperties, Zenon
  <2>5. ReadStreams(of.ids, [i \in 1..N |-> StreamOf(revisions[i])]) = table
    <3>1. \A i \in 1..Len(revisions) : Writable(revisions[i])
      BY <2>3, <2>4, Zenon
    <3> QED  BY <2>3, <3>1, AllRead, Zenon
  <2>6. ReadBack(of) = [table |-> table, rejected |-> rejected]
    <3>1. ReadBack(of)
            = [table |-> ReadStreams(of.ids, [i \in DOMAIN revisions |-> StreamOf(revisions[i])]),
               rejected |-> {i \in DOMAIN revisions : Fails(revisions[i])}]
      BY Zenon DEF ReadBack
    <3> HIDE DEF revisions, table
    <3> QED  BY <2>4, <2>5, <3>1, Zenon
  <2>7. result[1].table = table /\ result[1].rejected = rejected
    <3> HIDE DEF table, rejected
    <3> QED  BY <2>2, <2>6
  <2>8. ASSUME NEW id \in of.ids
        PROVE  LET writing == {i \in DOMAIN revisions :
                                 i \notin result[1].rejected /\ Writes(revisions[i], id)}
                   entry == FirstOf(revisions[Min(writing)], id)
               IN result[1].table[id]
                    = IF writing = {} THEN NoEntry
                      ELSE {[offset |-> entry.offset, generation |-> entry.generation]}
    <3> DEFINE writing == {i \in DOMAIN revisions :
                             i \notin result[1].rejected /\ Writes(revisions[i], id)}
    <3>1. writing = WritingUpto(revisions, N, id)
      <4>1. \A i : i \in rejected <=> i \in 1..N /\ Fails(revisions[i])
        BY Zenon
      <4>2. \A i : i \in writing
                     <=> i \in 1..N /\ i \notin rejected /\ Writes(revisions[i], id)
        BY <2>4, <2>7, Zenon
      <4>3. \A i : i \in WritingUpto(revisions, N, id)
                     <=> i \in 1..N /\ ~Fails(revisions[i]) /\ Writes(revisions[i], id)
        BY Zenon DEF WritingUpto
      <4>4. \A i : i \in writing <=> i \in WritingUpto(revisions, N, id)
        BY <4>1, <4>2, <4>3, Zenon
      <4> HIDE DEF writing
      <4> QED  BY <4>4
    <3>2. result[1].table[id] = ReadUpto(revisions, N, id)
      BY <2>7, Zenon
    <3> HIDE DEF writing, N, revisions
    <3> QED  BY <3>1, <3>2, Zenon DEF ReadUpto, ReadEntry, writing
  <2> QED  BY <2>8, Zenon DEF EntriesReadBack
<1> QED  BY <1>1, AnswersInvariant, PTL

-----------------------------------------------------------------------------
(* Trees of pages.                                                         *)

Path == Seq(Nat)

\* Pages below a kid, as they are named above it.
Below(k, pages) == [i \in DOMAIN pages |-> <<k>> \o pages[i]]

\* A page keeps its number among those of its kid.
LEMMA BelowPages ==
  ASSUME NEW k \in Nat, NEW pages \in Seq(Path)
  PROVE  /\ Below(k, pages) \in Seq(Path) /\ Len(Below(k, pages)) = Len(pages)
         /\ \A i \in 1..Len(pages) : Below(k, pages)[i] = <<k>> \o pages[i]
<1> DEFINE f == Below(k, pages)
           n == Len(pages)
           name(i) == <<k>> \o pages[i]
<1>1. n \in Nat /\ DOMAIN pages = 1..n /\ \A i \in 1..n : pages[i] \in Path
  BY LenProperties, ElementOfSeq
<1>2. \A i \in 1..n : name(i) \in Path
  <2> TAKE i \in 1..n
  <2>1. pages[i] \in Seq(Nat) /\ <<k>> \in Seq(Nat)
    BY <1>1 DEF Path
  <2> QED  BY <2>1, ConcatProperties DEF Path
<1>3. f = [i \in 1..n |-> name(i)]
  BY <1>1, Zenon DEF Below
<1> HIDE DEF f, n, name
<1>4. /\ f = [i \in 1..n |-> f[i]] /\ {f[i] : i \in 1..n} \subseteq Path
      /\ \A i \in 1..n : f[i] = name(i)
  BY <1>2, <1>3
<1>5. f \in Seq(Path) /\ Len(f) = n
  BY <1>1, <1>4, SeqOfValues
<1> QED  BY <1>4, <1>5 DEF f, n, name

Pieces(kids, pagesIn) == [k \in DOMAIN kids |-> Below(k, pagesIn[kids[k]])]

\* The pages of a node are the pieces of its kids, one behind the other.
LEMMA PagesOfPieces ==
  ASSUME NEW kids \in Seq(Nodes), NEW pagesIn,
         \A k \in 1..Len(kids) : pagesIn[kids[k]] \in Seq(Path)
  PROVE  /\ Pieces(kids, pagesIn) \in Seq(Seq(Path))
         /\ Len(Pieces(kids, pagesIn)) = Len(kids)
         /\ \A k \in 1..Len(kids) : Pieces(kids, pagesIn)[k] = Below(k, pagesIn[kids[k]])
         /\ PagesOf(kids, pagesIn) = FlattenSeq(Pieces(kids, pagesIn))
         /\ PagesOf(kids, pagesIn) \in Seq(Path)
<1> DEFINE f == Pieces(kids, pagesIn)
           n == Len(kids)
           piece(k) == Below(k, pagesIn[kids[k]])
<1>1. n \in Nat /\ DOMAIN kids = 1..n
  BY LenProperties
<1>2. \A k \in 1..n : piece(k) \in Seq(Path)
  <2> TAKE k \in 1..n
  <2>1. k \in Nat /\ pagesIn[kids[k]] \in Seq(Path)
    BY <1>1
  <2> QED  BY <2>1, BelowPages
<1>3. f = [k \in 1..n |-> piece(k)]
  BY <1>1, Zenon DEF Pieces
<1>4. PagesOf(kids, pagesIn) = FlattenSeq(f)
  BY Zenon DEF PagesOf, Pieces, Below
<1> HIDE DEF f, n, piece
<1>5. /\ f = [k \in 1..n |-> f[k]] /\ {f[k] : k \in 1..n} \subseteq Seq(Path)
      /\ \A k \in 1..n : f[k] = piece(k)
  BY <1>2, <1>3
<1>6. f \in Seq(Seq(Path)) /\ Len(f) = n
  BY <1>1, <1>5, SeqOfValues
<1>7. FlattenSeq(f) \in Seq(Path)
  BY <1>6, FlattenParts
<1> QED  BY <1>4, <1>5, <1>6, <1>7 DEF f, n, piece

\* One equation of the pages of a node, from those of its kids.
PagesFrom(f, node) ==
  CASE node.type = "Pages" -> PagesOf(node.kids, f)
    [] node.type = "Page" -> <<<<>>>>
    [] OTHER -> <<>>

\* The kids of a node are nodes of less height.
LEMMA KidsOfNode ==
  ASSUME NEW node \in Nodes
  PROVE  /\ node.kids \in Seq(Nodes) /\ Len(node.kids) \in Nat /\ Height[node] \in Nat
         /\ DOMAIN node.kids = 1..Len(node.kids)
         /\ \A k \in 1..Len(node.kids) :
              /\ node.kids[k] \in Nodes /\ Height[node.kids[k]] \in Nat
              /\ Height[node.kids[k]] < Height[node]
<1>1. /\ node.kids \in Seq(Nodes) /\ Height[node] \in Nat
      /\ \A k \in DOMAIN node.kids : Height[node.kids[k]] < Height[node]
  BY NodesAssumption, Zenon
<1>2. /\ Len(node.kids) \in Nat /\ DOMAIN node.kids = 1..Len(node.kids)
      /\ \A k \in 1..Len(node.kids) : node.kids[k] \in Nodes
  BY <1>1, LenProperties, ElementOfSeq
<1>3. \A kid \in Nodes : Height[kid] \in Nat
  BY NodesAssumption, Zenon
<1> QED  BY <1>1, <1>2, <1>3, Zenon

\* The pages of a node are of the right kind when those of its kids are.
LEMMA PagesFromType ==
  ASSUME NEW node \in Nodes, NEW f,
         \A k \in 1..Len(node.kids) : f[node.kids[k]] \in Seq(Path)
  PROVE  PagesFrom(f, node) \in Seq(Path)
<1>1. PagesOf(node.kids, f) \in Seq(Path)
  BY KidsOfNode, PagesOfPieces, Zenon
<1>2. <<<<>>>> \in Seq(Path) /\ <<>> \in Seq(Path)
  <2>1. <<>> \in Path
    BY DEF Path
  <2> QED  BY <2>1
<1> QED  BY <1>1, <1>2, Zenon DEF PagesFrom

\* They depend on the pages of its kids alone.
LEMMA PagesFromKids ==
  ASSUME NEW node \in Nodes, NEW f, NEW g,
         \A k \in 1..Len(node.kids) : f[node.kids[k]] = g[node.kids[k]]
  PROVE  PagesFrom(f, node) = PagesFrom(g, node)
<1>1. DOMAIN node.kids = 1..Len(node.kids)
  BY KidsOfNode
<1> DEFINE p(h) == [k \in DOMAIN node.kids |->
                      [i \in DOMAIN h[node.kids[k]] |-> <<k>> \o h[node.kids[k]][i]]]
<1>2. p(f) = p(g)
  BY <1>1, Zenon
<1>3. PagesOf(node.kids, f) = FlattenSeq(p(f)) /\ PagesOf(node.kids, g) = FlattenSeq(p(g))
  BY Zenon DEF PagesOf
<1> HIDE DEF p
<1>4. PagesOf(node.kids, f) = PagesOf(node.kids, g)
  BY <1>2, <1>3, Zenon
<1> QED  BY <1>4, Zenon DEF PagesFrom

\* Induction over a tree, from the kids to the node.
LEMMA TreeInduction ==
  ASSUME NEW S,
         \A node \in Nodes : (\A k \in 1..Len(node.kids) : node.kids[k] \in S) => node \in S
  PROVE  \A node \in Nodes : node \in S
<1> DEFINE U == {n \in Nat : \A node \in Nodes : Height[node] < n => node \in S}
<1>1. \A node \in Nodes : Height[node] \in Nat
  BY KidsOfNode
<1>2. 0 \in U
  <2>1. \A node \in Nodes : ~(Height[node] < 0)
    BY <1>1
  <2> QED  BY <2>1
<1>3. ASSUME NEW n \in Nat, n \in U PROVE n + 1 \in U
  <2>1. ASSUME NEW node \in Nodes, Height[node] < n + 1 PROVE node \in S
    <3>1. ASSUME NEW k \in 1..Len(node.kids) PROVE node.kids[k] \in S
      <4>1. /\ node.kids[k] \in Nodes /\ Height[node.kids[k]] \in Nat
            /\ Height[node.kids[k]] < Height[node] /\ Height[node] \in Nat
        BY KidsOfNode
      <4>2. Height[node.kids[k]] < n
        BY <2>1, <4>1
      <4> QED  BY <1>3, <4>1, <4>2
    <3> QED  BY <3>1, Zenon
  <2> QED  BY <2>1
<1> HIDE DEF U
<1>4. U \in SUBSET Nat
  BY DEF U
<1>5. \A n \in U : n + 1 \in U
  BY <1>3, <1>4
<1>6. \A n \in Nat : n \in U
  BY <1>2, <1>4, <1>5, InductiveSet
<1> SUFFICES ASSUME NEW node \in Nodes PROVE node \in S
  OBVIOUS
<1>7. Height[node] + 1 \in Nat /\ Height[node] < Height[node] + 1
  BY <1>1
<1>8. Height[node] + 1 \in U
  BY <1>6, <1>7
<1> QED  BY <1>7, <1>8 DEF U

\* There is a function with the equation of Pages.
LEMMA PagesExist ==
  \E f \in [Nodes -> Seq(Path)] : \A node \in Nodes : f[node] = PagesFrom(f, node)
<1> DEFINE F == [Nodes -> Seq(Path)]
           first == [node \in Nodes |-> <<>>]
           step == [m \in Nat |-> [f \in F |-> [node \in Nodes |-> PagesFrom(f, node)]]]
<1>1. first \in F
  OBVIOUS
<1>2. step \in [Nat -> [F -> F]]
  <2>1. \A f \in F : \A node \in Nodes : PagesFrom(f, node) \in Seq(Path)
    <3> TAKE f \in F
    <3> TAKE node \in Nodes
    <3>1. \A k \in 1..Len(node.kids) : f[node.kids[k]] \in Seq(Path)
      BY KidsOfNode
    <3> QED  BY <3>1, PagesFromType
  <2> QED  BY <2>1
<1>3. PICK g \in [Nat -> F] : g[0] = first /\ Iterates(g, step)
  <2> HIDE DEF F, first, step
  <2> QED  BY <1>1, <1>2, Iteration
<1>4. \A m \in Nat : g[m] \in F
  OBVIOUS
<1>5. \A m \in Nat : \A node \in Nodes : g[m + 1][node] = PagesFrom(g[m], node)
  <2> TAKE m \in Nat
  <2> TAKE node \in Nodes
  <2>1. g[m + 1] = step[m][g[m]]
    BY <1>3 DEF Iterates
  <2> QED  BY <1>4, <2>1
<1> HIDE DEF F, first, step
<1>6. \A node \in Nodes : Height[node] \in Nat
  BY KidsOfNode
<1> DEFINE Stable(m) == \A node \in Nodes : Height[node] < m => g[m][node] = g[Height[node] + 1][node]
           S == {m \in Nat : \A k \in 0..m : Stable(k)}
<1>7. \A m \in Nat : Stable(m)
  <2>1. 0 \in S
    <3>1. \A k \in 0..0 : \A node \in Nodes : ~(Height[node] < k)
      BY <1>6
    <3> QED  BY <3>1
  <2>2. ASSUME NEW m \in Nat, m \in S PROVE m + 1 \in S
    <3>1. Stable(m + 1)
      <4>1. ASSUME NEW node \in Nodes, Height[node] < m + 1
            PROVE  g[m + 1][node] = g[Height[node] + 1][node]
        <5> DEFINE n == Height[node]
        <5>1. n \in Nat
          BY <1>6
        <5>2. CASE n = m
          BY <5>2
        <5>3. CASE n < m
          <6>1. g[m + 1][node] = PagesFrom(g[m], node) /\ g[n + 1][node] = PagesFrom(g[n], node)
            BY <1>5, <5>1
          <6>2. \A k \in 1..Len(node.kids) : g[m][node.kids[k]] = g[n][node.kids[k]]
            <7> TAKE k \in 1..Len(node.kids)
            <7>1. /\ node.kids[k] \in Nodes /\ Height[node.kids[k]] \in Nat
                  /\ Height[node.kids[k]] < n
              BY KidsOfNode
            <7> HIDE DEF n
            <7>2. m \in 0..m /\ n \in 0..m /\ Height[node.kids[k]] < m
              BY <5>1, <5>3, <7>1
            <7>3. Stable(m) /\ Stable(n)
              BY <2>2, <7>2
            <7> DEFINE kid == node.kids[k]
            <7> HIDE DEF kid
            <7>4. kid \in Nodes /\ Height[kid] < n /\ Height[kid] < m
              BY <7>1, <7>2 DEF kid
            <7>5. g[m][kid] = g[Height[kid] + 1][kid] /\ g[n][kid] = g[Height[kid] + 1][kid]
              BY <7>3, <7>4, Zenon
            <7> QED  BY <7>5, Zenon DEF kid
          <6> QED  BY <6>1, <6>2, PagesFromKids, Zenon
        <5>4. n = m \/ n < m
          BY <4>1, <5>1
        <5> QED  BY <5>2, <5>3, <5>4
      <4> QED  BY <4>1
    <3>2. \A k \in 0..(m + 1) : k = m + 1 \/ k \in 0..m
      OBVIOUS
    <3>3. \A k \in 0..(m + 1) : Stable(k)
      <4> HIDE DEF Stable
      <4> QED  BY <2>2, <3>1, <3>2
    <3> HIDE DEF Stable
    <3> QED  BY <3>3
  <2> HIDE DEF S
  <2>3. S \in SUBSET Nat
    BY DEF S
  <2>4. \A m \in S : m + 1 \in S
    BY <2>2, <2>3
  <2>5. \A m \in Nat : m \in S
    BY <2>1, <2>3, <2>4, InductiveSet
  <2>6. \A m \in Nat : m \in 0..m
    OBVIOUS
  <2> HIDE DEF Stable
  <2> QED  BY <2>5, <2>6 DEF S
<1> DEFINE f == [node \in Nodes |-> g[Height[node] + 1][node]]
<1>8. f \in [Nodes -> Seq(Path)]
  <2>1. \A node \in Nodes : g[Height[node] + 1][node] \in Seq(Path)
    <3> TAKE node \in Nodes
    <3>1. Height[node] + 1 \in Nat
      BY <1>6
    <3> QED  BY <1>4, <3>1 DEF F
  <2> QED  BY <2>1
<1>9. \A node \in Nodes : f[node] = PagesFrom(f, node)
  <2> TAKE node \in Nodes
  <2>1. f[node] = PagesFrom(g[Height[node]], node)
    BY <1>5, <1>6
  <2>2. \A k \in 1..Len(node.kids) : g[Height[node]][node.kids[k]] = f[node.kids[k]]
    <3> TAKE k \in 1..Len(node.kids)
    <3>1. node.kids[k] \in Nodes /\ Height[node.kids[k]] < Height[node]
      BY KidsOfNode
    <3>2. Stable(Height[node])
      BY <1>6, <1>7
    <3> QED  BY <3>1, <3>2
  <2> HIDE DEF f
  <2> QED  BY <2>1, <2>2, PagesFromKids, Zenon
<1> QED  BY <1>8, <1>9

\* The pages of a node are those of its kids, and sequences of positions.
LEMMA PagesDefined ==
  \A node \in Nodes : Pages[node] \in Seq(Path) /\ Pages[node] = PagesFrom(Pages, node)
<1> DEFINE IsPages(f) == f = [node \in Nodes |-> PagesFrom(f, node)]
<1>1. Pages = CHOOSE f : IsPages(f)
  BY Zenon DEF Pages, PagesFrom
<1>2. PICK f \in [Nodes -> Seq(Path)] : \A node \in Nodes : f[node] = PagesFrom(f, node)
  BY PagesExist
<1>3. IsPages(f)
  <2>1. f = [node \in Nodes |-> f[node]]
    OBVIOUS
  <2> QED  BY <1>2, <2>1, Zenon
<1>4. IsPages(Pages)
  <2> HIDE DEF IsPages
  <2> QED  BY <1>1, <1>3, Zenon
<1>5. \A node \in Nodes : Pages[node] = PagesFrom(Pages, node)
  BY <1>4, Zenon
<1> DEFINE S == {node \in Nodes : Pages[node] \in Seq(Path)}
<1>6. ASSUME NEW node \in Nodes, \A k \in 1..Len(node.kids) : node.kids[k] \in S
      PROVE  node \in S
  BY <1>5, <1>6, PagesFromType, Zenon
<1>7. \A node \in Nodes : node \in S
  <2> HIDE DEF S
  <2> QED  BY <1>6, TreeInduction, Zenon
<1> QED  BY <1>5, <1>7, Zenon

\* What the search below a node is for, whatever number it is given: the page of that number, or
\* how many pages are left to go.
Searched(pages, number, type) ==
  IF number \in 1..Len(pages) THEN Found(pages[number])
  ELSE [page |-> NoPage, remaining |-> number - Len(pages), failed |-> type # "Page"]

\* A search that gives a page is one that ends, and the others go on by a number that is left.
LEMMA SearchedEnds ==
  ASSUME NEW pages \in Seq(Path), NEW number \in PageNumbers, NEW type
  PROVE  LET search == Searched(pages, number, type)
         IN IF number \in 1..Len(pages)
            THEN IsFound(search) /\ search.page = pages[number]
            ELSE ~IsFound(search) /\ search.remaining = number - Len(pages)
                 /\ search.remaining \in PageNumbers
<1>1. Len(pages) \in Nat /\ number \in Nat /\ number # 0
  BY LenProperties DEF PageNumbers
<1>2. CASE number \in 1..Len(pages)
  BY <1>2 DEF Searched, IsFound, Found
<1>3. CASE number \notin 1..Len(pages)
  <2> DEFINE l == Len(pages)
  <2> HIDE DEF l
  <2>1. number - l \in Nat \ {0}
    BY <1>1, <1>3 DEF l
  <2>2. Searched(pages, number, type)
          = [page |-> NoPage, remaining |-> number - l, failed |-> type # "Page"]
    BY <1>3, Zenon DEF Searched, l
  <2>3. /\ Searched(pages, number, type).remaining = number - l
        /\ ~IsFound(Searched(pages, number, type))
    BY <2>1, <2>2 DEF IsFound
  <2> QED  BY <1>3, <2>1, <2>3, Zenon DEF PageNumbers, l
<1> QED  BY <1>2, <1>3

\* A search that has not ended goes on with what was found below the next kid.
Onward(last, k, search) ==
  IF IsFound(last) THEN last
  ELSE IF IsFound(search) THEN Found(<<k>> \o search.page) ELSE NotFound(search.remaining)

\* The search among the pages of one more kid, that has some pages before it.
GoesOn(before, k, pages, number, type) ==
  Searched(before \o Below(k, pages), number, "Pages")
    = Onward(Searched(before, number, "Pages"), k,
             Searched(pages, Searched(before, number, "Pages").remaining, type))

\* One more kid: the search ends in the pages before it, or in its own, or goes on behind them.
LEMMA OneMoreKid ==
  ASSUME NEW before \in Seq(Path), NEW k \in Nat, NEW pages \in Seq(Path),
         NEW number \in PageNumbers, NEW type
  PROVE  GoesOn(before, k, pages, number, type)
<1> DEFINE all == before \o Below(k, pages)
           last == Searched(before, number, "Pages")
           search == Searched(pages, last.remaining, type)
           l == Len(before)
           m == Len(pages)
<1>1. /\ Below(k, pages) \in Seq(Path) /\ Len(Below(k, pages)) = m
      /\ \A i \in 1..m : Below(k, pages)[i] = <<k>> \o pages[i]
  BY BelowPages
<1>2. l \in Nat /\ m \in Nat /\ number \in Nat /\ number # 0
  BY LenProperties DEF PageNumbers
<1>3. /\ all \in Seq(Path) /\ Len(all) = l + m
      /\ \A i \in 1..(l + m) : all[i] = IF i <= l THEN before[i] ELSE Below(k, pages)[i - l]
  <2> DEFINE below == Below(k, pages)
  <2>1. below \in Seq(Path) /\ Len(below) = m
    BY <1>1
  <2> HIDE DEF below, m
  <2> QED  BY <1>2, <2>1, ConcatProperties DEF below
<1> HIDE DEF all, l, m
<1>4. CASE number \in 1..l
  <2>1. IsFound(last)
    BY <1>4, SearchedEnds, Zenon DEF l
  <2>2. number \in 1..(l + m) /\ number <= l
    BY <1>2, <1>4
  <2>3. all[number] = before[number]
    BY <1>3, <2>2
  <2>4. Searched(all, number, "Pages") = last
    BY <1>3, <1>4, <2>2, <2>3, Zenon DEF Searched, l
  <2> QED  BY <2>1, <2>4, Zenon DEF all, Onward, GoesOn
<1>5. CASE number \notin 1..l
  <2> DEFINE left == number - l
  <2>1. ~IsFound(last) /\ last.remaining = left /\ left \in PageNumbers
    BY <1>5, SearchedEnds, Zenon DEF l
  <2> HIDE DEF last
  <2>2. left \in Nat /\ left # 0 /\ number = l + left
    BY <1>2, <2>1 DEF PageNumbers
  <2>3. search = Searched(pages, left, type)
    BY <2>1, Zenon
  <2> HIDE DEF left
  <2>4. CASE left \in 1..m
    <3>1. IsFound(search) /\ search.page = pages[left]
      BY <2>1, <2>3, <2>4, SearchedEnds, Zenon DEF m
    <3>2. number \in 1..(l + m) /\ ~(number <= l) /\ number - l = left
      BY <1>2, <2>2, <2>4
    <3>3. all[number] = <<k>> \o pages[left]
      BY <1>1, <1>3, <2>4, <3>2
    <3>4. Searched(all, number, "Pages") = Found(<<k>> \o pages[left])
      BY <1>3, <3>2, <3>3, Zenon DEF Searched
    <3> HIDE DEF search
    <3> QED  BY <2>1, <3>1, <3>4, Zenon DEF all, last, search, Onward, GoesOn
  <2>5. CASE left \notin 1..m
    <3>1. ~IsFound(search) /\ search.remaining = left - m
      BY <2>1, <2>3, <2>5, SearchedEnds, Zenon DEF m
    <3>2. number \notin 1..(l + m) /\ number - (l + m) = left - m
      BY <1>2, <2>2, <2>5
    <3>3. Searched(all, number, "Pages") = NotFound(left - m)
      BY <1>3, <3>2, Zenon DEF Searched, NotFound
    <3> HIDE DEF search
    <3> QED  BY <2>1, <3>1, <3>3, Zenon DEF all, last, search, Onward, GoesOn
  <2> QED  BY <2>4, <2>5
<1> QED  BY <1>4, <1>5

\* If the search below each kid is right, that of the kids in turn is.
LEMMA SearchKidsRight ==
  ASSUME NEW kids \in Seq(Nodes), NEW searchIn, NEW number \in PageNumbers,
         \A k \in 1..Len(kids) : \A left \in PageNumbers :
           searchIn[kids[k]][left] = Searched(Pages[kids[k]], left, kids[k].type)
  PROVE  SearchKids(kids, searchIn, number) = Searched(PagesOf(kids, Pages), number, "Pages")
<1> DEFINE N == Len(kids)
           pieces == Pieces(kids, Pages)
           following(last, k) == Onward(last, k, searchIn[kids[k]][last.remaining])
           IsAfter(f) == f = [k \in 0..N |-> IF k = 0 THEN NotFound(number)
                                             ELSE following(f[k - 1], k)]
           after == CHOOSE f : IsAfter(f)
<1>1. N \in Nat /\ \A k \in 1..N : kids[k] \in Nodes
  BY LenProperties, ElementOfSeq
<1>2. \A k \in 1..N : Pages[kids[k]] \in Seq(Path)
  BY <1>1, PagesDefined, Zenon
<1>3. /\ pieces \in Seq(Seq(Path)) /\ Len(pieces) = N
      /\ \A k \in 1..N : pieces[k] = Below(k, Pages[kids[k]])
      /\ PagesOf(kids, Pages) = FlattenSeq(pieces)
  BY <1>2, PagesOfPieces, Zenon
<1>4. /\ \A k \in 1..N : k \in Nat /\ k - 1 \in Nat /\ k \in 0..N /\ k - 1 \in 0..N /\ k # 0
      /\ \A k \in 0..N : k = 0 \/ (k # 0 /\ k \in 1..N /\ k - 1 \in 0..N)
      /\ 0 \in 0..N /\ N \in 0..N
  <2> HIDE DEF N
  <2> QED  BY <1>1
<1> HIDE DEF pieces
<1>5. PICK g \in [Nat -> Seq(Path)] :
        /\ g[0] = <<>>
        /\ \A k \in 1..Len(pieces) : g[k] = g[k - 1] \o pieces[k]
        /\ FlattenSeq(pieces) = g[Len(pieces)]
  BY <1>3, Flattened
<1> DEFINE state(k) == Searched(g[k], number, "Pages")
           h == [k \in 0..N |-> state(k)]
<1>6. SearchKids(kids, searchIn, number) = after[N]
  BY Zenon DEF SearchKids, Onward
<1>7. state(0) = NotFound(number)
  <2>1. Len(g[0]) = 0 /\ number \notin 1..0 /\ number - 0 = number
    BY <1>5 DEF PageNumbers
  <2> QED  BY <2>1, Zenon DEF Searched, NotFound
<1>8. \A k \in 1..N : state(k) = following(state(k - 1), k)
  <2> TAKE k \in 1..N
  <2> DEFINE before == g[k - 1]
             last == Searched(before, number, "Pages")
             search == Searched(Pages[kids[k]], last.remaining, kids[k].type)
  <2>1. k \in Nat /\ k - 1 \in Nat /\ Pages[kids[k]] \in Seq(Path)
    BY <1>2, <1>4, Zenon
  <2>2. before \in Seq(Path)
    BY <2>1
  <2>3. g[k] = before \o Below(k, Pages[kids[k]])
    BY <1>3, <1>5, Zenon
  <2>4. Searched(g[k], number, "Pages") = Onward(last, k, search)
    <3>1. GoesOn(before, k, Pages[kids[k]], number, kids[k].type)
      <4> HIDE DEF before
      <4> QED  BY <2>1, <2>2, OneMoreKid, Zenon
    <3> QED  BY <2>3, <3>1, Zenon DEF GoesOn
  <2>5. ~IsFound(last) => searchIn[kids[k]][last.remaining] = search
    <3>1. ~IsFound(last) => last.remaining \in PageNumbers
      <4> HIDE DEF before
      <4> QED  BY <2>2, SearchedEnds, Zenon
    <3> HIDE DEF last
    <3> QED  BY <3>1, Zenon
  <2> HIDE DEF last, search
  <2>6. state(k - 1) = last
    BY Zenon DEF last
  <2> HIDE DEF state
  <2>7. following(state(k - 1), k) = Onward(last, k, search)
    BY <2>5, <2>6, Zenon DEF Onward
  <2> QED  BY <2>4, <2>7, Zenon DEF state
<1> HIDE DEF state, following
<1>9. \A k \in 0..N : h[k] = state(k)
  BY Zenon
<1>10. IsAfter(h)
  <2>1. \A k \in 0..N : state(k) = IF k = 0 THEN NotFound(number) ELSE following(h[k - 1], k)
    <3> TAKE k \in 0..N
    <3> HIDE DEF N, h
    <3> QED  BY <1>7, <1>8, <1>9, <1>4, Zenon
  <2> QED  BY <2>1, Zenon
<1>11. IsAfter(after)
  <2> HIDE DEF IsAfter, h
  <2> QED  BY <1>10, Zenon
<1> HIDE DEF h, after, N
<1>12. \A k \in 0..N : after[k] = IF k = 0 THEN NotFound(number) ELSE following(after[k - 1], k)
  BY <1>11, Zenon
<1>13. after[0] = h[0]
  BY <1>7, <1>9, <1>4, <1>12, Zenon
<1>14. \A k \in 1..N : after[k - 1] = h[k - 1] => after[k] = h[k]
  <2> TAKE k \in 1..N
  <2>1. after[k] = following(after[k - 1], k)
    BY <1>4, <1>12, Zenon
  <2>2. h[k] = following(h[k - 1], k)
    BY <1>8, <1>9, <1>4, Zenon
  <2> QED  BY <2>1, <2>2, Zenon
<1>15. after[N] = h[N]
  BY <1>1, <1>13, <1>14, SameRecursion, Zenon
<1> QED  BY <1>3, <1>5, <1>6, <1>9, <1>4, <1>15, Zenon DEF state

\* One equation of the search, from those below the kids.
SearchFrom(f, node, number) ==
  CASE node.type = "Pages" -> SearchKids(node.kids, f, number)
    [] node.type = "Page" /\ number = 1 -> Found(<<>>)
    [] node.type = "Page" /\ number # 1 -> Missed(number - 1)
    [] OTHER -> NotFound(number)

\* If the search below each kid of a node is right, that below the node is.
LEMMA SearchFromRight ==
  ASSUME NEW node \in Nodes, NEW f, NEW number \in PageNumbers,
         \A k \in 1..Len(node.kids) : \A left \in PageNumbers :
           f[node.kids[k]][left]
             = Searched(Pages[node.kids[k]], left, node.kids[k].type)
  PROVE  SearchFrom(f, node, number) = Searched(Pages[node], number, node.type)
<1>1. Pages[node] = PagesFrom(Pages, node)
  BY PagesDefined
<1>2. number \in Nat /\ number # 0
  BY DEF PageNumbers
<1>3. CASE node.type = "Pages"
  <2>1. SearchKids(node.kids, f, number) = Searched(PagesOf(node.kids, Pages), number, "Pages")
    BY KidsOfNode, SearchKidsRight, Zenon
  <2>2. Pages[node] = PagesOf(node.kids, Pages) /\ SearchFrom(f, node, number) = SearchKids(node.kids, f, number)
    BY <1>1, <1>3, Zenon DEF PagesFrom, SearchFrom
  <2> QED  BY <1>3, <2>1, <2>2, Zenon
<1>4. CASE node.type = "Page"
  <2>1. Pages[node] = <<<<>>>>
    <3>1. node.type # "Pages"
      BY <1>4
    <3> QED  BY <1>1, <1>4, <3>1, Zenon DEF PagesFrom
  <2>2. Len(Pages[node]) = 1 /\ Pages[node][1] = <<>>
    BY <2>1
  <2>3. SearchFrom(f, node, number) = IF number = 1 THEN Found(<<>>) ELSE Missed(number - 1)
    BY <1>4 DEF SearchFrom
  <2>4. number \in 1..1 <=> number = 1
    BY <1>2
  <2>5. CASE number = 1
    BY <2>2, <2>3, <2>4, <2>5, Zenon DEF Searched
  <2>6. CASE number # 1
    BY <1>4, <2>2, <2>3, <2>4, <2>6 DEF Searched, Missed
  <2> QED  BY <2>5, <2>6
<1>5. CASE node.type # "Pages" /\ node.type # "Page"
  <2>1. Pages[node] = <<>>
    BY <1>1, <1>5, Zenon DEF PagesFrom
  <2>2. Len(Pages[node]) = 0 /\ number \notin 1..0 /\ number - 0 = number
    BY <1>2, <2>1
  <2>3. SearchFrom(f, node, number) = NotFound(number)
    BY <1>5, Zenon DEF SearchFrom
  <2> QED  BY <1>5, <2>2, <2>3 DEF Searched, NotFound
<1> QED  BY <1>3, <1>4, <1>5

\* The search for a page is right below every node.
LEMMA SearchRight ==
  \A node \in Nodes : \A number \in PageNumbers :
    FindPageByNumberRec[node][number] = Searched(Pages[node], number, node.type)
<1> DEFINE right(node, number) == Searched(Pages[node], number, node.type)
           h == [node \in Nodes |-> [number \in PageNumbers |-> right(node, number)]]
           IsSearch(f) == f = [node \in Nodes |-> [number \in PageNumbers |-> SearchFrom(f, node, number)]]
           Right(f, node) == \A number \in PageNumbers : f[node][number] = right(node, number)
<1>1. FindPageByNumberRec = CHOOSE f : IsSearch(f)
  BY Zenon DEF FindPageByNumberRec, SearchFrom
<1>2. ASSUME NEW f, NEW node \in Nodes, \A k \in 1..Len(node.kids) : Right(f, node.kids[k])
      PROVE  \A number \in PageNumbers : SearchFrom(f, node, number) = right(node, number)
  BY <1>2, SearchFromRight, Zenon
<1> HIDE DEF right
<1>3. \A node \in Nodes : Right(h, node)
  BY Zenon
<1>4. \A node \in Nodes : \A number \in PageNumbers : SearchFrom(h, node, number) = right(node, number)
  <2> TAKE node \in Nodes
  <2>1. \A k \in 1..Len(node.kids) : Right(h, node.kids[k])
    BY <1>3, KidsOfNode, Zenon
  <2> HIDE DEF Right, h
  <2> QED  BY <1>2, <2>1, Zenon
<1>5. IsSearch(h)
  BY <1>4, Zenon
<1>6. IsSearch(FindPageByNumberRec)
  <2> HIDE DEF IsSearch, h
  <2> QED  BY <1>1, <1>5, Zenon
<1> DEFINE S == {node \in Nodes : Right(FindPageByNumberRec, node)}
<1>7. ASSUME NEW node \in Nodes, \A k \in 1..Len(node.kids) : node.kids[k] \in S
      PROVE  node \in S
  <2>1. \A k \in 1..Len(node.kids) : Right(FindPageByNumberRec, node.kids[k])
    BY <1>7, Zenon
  <2>2. \A number \in PageNumbers : SearchFrom(FindPageByNumberRec, node, number) = right(node, number)
    <3> HIDE DEF Right
    <3> QED  BY <1>2, <2>1, Zenon
  <2>3. \A number \in PageNumbers :
          FindPageByNumberRec[node][number] = SearchFrom(FindPageByNumberRec, node, number)
    <3>1. FindPageByNumberRec[node]
            = [number \in PageNumbers |-> SearchFrom(FindPageByNumberRec, node, number)]
      BY <1>6, Zenon
    <3> QED  BY <3>1, Zenon
  <2> QED  BY <2>2, <2>3, Zenon
<1>8. \A node \in Nodes : node \in S
  <2> HIDE DEF S
  <2> QED  BY <1>7, TreeInduction, Zenon
<1> QED  BY <1>8, Zenon DEF right

\* FindsNthPage of PureFunctions: in every tree of finite depth, whatever empty and unknown nodes
\* it has, the number of a page finds the page that is shown at that place, and a number past
\* the last finds none.
THEOREM FindsNthPageAlways == Spec => []FindsNthPage
<1>1. AnswerInv => FindsNthPage
  <2> SUFFICES ASSUME AnswerInv, Returned("findPageByNumber") PROVE FindsNthPage
    BY DEF FindsNthPage
  <2> DEFINE of == arguments.of
             pages == Pages[of.root]
  <2>1. of \in PageTrees
    BY DEF AnswerInv, Arguments, Returned
  <2>2. of.root \in Nodes /\ of.number \in PageNumbers
    BY <2>1, PageTreesAssumption
  <2>3. result = <<PageFound(of)>>
    BY DEF AnswerInv
  <2> HIDE DEF of
  <2>4. result[1] = FindPageByNumberRec[of.root][of.number].page
    BY <2>3 DEF PageFound, FindPageByNumber
  <2>5. FindPageByNumberRec[of.root][of.number]
          = Searched(pages, of.number, of.root.type)
    BY <2>2, SearchRight, Zenon
  <2>6. DOMAIN pages = 1..Len(pages)
    <3>1. pages \in Seq(Path)
      BY <2>2, PagesDefined, Zenon
    <3> QED  BY <3>1, LenProperties, Zenon
  <2> HIDE DEF pages
  <2>7. Searched(pages, of.number, of.root.type).page
          = IF of.number \in DOMAIN pages THEN pages[of.number] ELSE NoPage
    BY <2>6 DEF Searched, Found
  <2>8. result[1] = IF of.number \in DOMAIN pages THEN pages[of.number] ELSE NoPage
    BY <2>4, <2>5, <2>7, Zenon
  <2> QED  BY <2>8, Zenon DEF FindsNthPage, pages, of
<1> QED  BY <1>1, AnswersInvariant, PTL

=============================================================================
