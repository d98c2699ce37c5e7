------------------------------ MODULE JodaTime ------------------------------
(***************************************************************************)
(* src/jodatime: Format writes a time after a pattern of letters, GetLayout *)
(* turns the same pattern into a layout of Go's time package, with which   *)
(* Parse reads the text back.  The two are separate loops over the runs of *)
(* equal letters of the pattern.  TLC evaluates \o, Len and SubSeq on      *)
(* strings.                                                                *)
(***************************************************************************)
EXTENDS Integers, Sequences, FiniteSets, TLC

CONSTANTS
    Patterns,   \* patterns, as strings
    Dates       \* times: records of what package time says of a time.Time

VARIABLES
    pattern, date,
    pos,        \* the next letter of the pattern
    out,        \* what Format has written
    layout,     \* what GetLayout has written
    phase,      \* the loop that runs: Format, GetLayout, Parse, or "done"
    rest,       \* the part of the text that Parse has not read
    parsed,     \* fields Parse has read
    ok,         \* Parse has met no error
    seen        \* the fields and texts of the pattern (history)

vars == <<pattern, date, pos, out, layout, phase, rest, parsed, ok, seen>>

At(s, i) == IF i \in 1..Len(s) THEN SubSeq(s, i, i) ELSE ""
From(s, i) == SubSeq(s, i, Len(s))
StartsWith(s, i, t) == Len(s) >= i + Len(t) - 1 /\ SubSeq(s, i, i + Len(t) - 1) = t
DigitValue == [c \in {"0", "1", "2", "3", "4", "5", "6", "7", "8", "9"} |->
    CHOOSE n \in 0..9 : ToString(n) = c]
IsDigit(c) == c \in DOMAIN DigitValue

\* The length of the run of equal letters that begins at i.
Run(s, i) ==
    LET n == {j \in i..Len(s) : \A k \in i..j : At(s, k) = At(s, i)} IN Cardinality(n)

\* Text in quotes: what is written for it and where the pattern goes on.  Two
\* quotes are one; a quote that is not closed quotes the rest.
Quoted(s, i) ==
    IF At(s, i + 1) = "'" THEN [text |-> "'", next |-> i + 2]
    ELSE LET ends == {j \in i + 1..Len(s) + 1 : At(s, j) \in {"'", ""}}
             end  == CHOOSE j \in ends : \A k \in ends : j <= k
         IN  [text |-> SubSeq(s, i + 1, end - 1), next |-> end + 1]

Init ==
    /\ pattern \in Patterns /\ date \in Dates
    /\ pos = 1 /\ out = "" /\ layout = "" /\ phase = "format"
    /\ rest = "" /\ parsed = <<>> /\ ok = TRUE /\ seen = <<>>

----------------------------------------------------------------------------
(***************************************************************************)
(* Format: what is written for a run of n letters.                         *)
(***************************************************************************)
TwoDigits(v) == IF v < 10 THEN "0" \o ToString(v) ELSE ToString(v)

\* One letter: the number; two: at least two digits; more: nothing.
Number(v, n) == IF n = 1 THEN ToString(v) ELSE IF n = 2 THEN TwoDigits(v) ELSE ""

Year(n) ==
    IF n = 2 THEN TwoDigits(date.year % 100)
    ELSE IF n \in {1, 3, 4} THEN ToString(date.year) ELSE ""
YearDay(n) == Number(date.yearDay, n)
Week(n) == Number(date.week, n)

MonthNames == <<"January", "February", "March", "April", "May", "June", "July",
    "August", "September", "October", "November", "December">>
DayNames == <<"Sunday", "Monday", "Tuesday", "Wednesday", "Thursday", "Friday", "Saturday">>
Short(name) == SubSeq(name, 1, 3)

Month(n) ==
    IF n = 3 THEN Short(MonthNames[date.month])
    ELSE IF n = 4 THEN MonthNames[date.month] ELSE Number(date.month, n)
Day(n) == Number(date.day, n)
WeekdayNumber(n) == Number(date.weekday, n)
Weekday(n) ==
    IF n <= 3 THEN Short(DayNames[date.weekday + 1])
    ELSE IF n = 4 THEN DayNames[date.weekday + 1] ELSE ""

ClockhourOfHalfday(n) ==
    Number(IF date.hour > 12 THEN date.hour - 12 ELSE IF date.hour = 0 THEN 12 ELSE date.hour, n)
HourOfDay(n) == Number(date.hour, n)
HalfdayOfDay == IF date.hour >= 12 THEN "PM" ELSE "AM"
Minute(n) == Number(date.minute, n)
Second(n) == Number(date.second, n)
Fraction(n) ==
    CASE n = 1 -> ToString(date.milli \div 100)
      [] n = 2 -> TwoDigits(date.milli \div 10)
      [] n = 3 -> (IF date.milli < 10 THEN "00" ELSE IF date.milli < 100 THEN "0" ELSE "")
                  \o ToString(date.milli)
      [] OTHER -> ""

\* The offset in minutes; the table of zone names is a field of the date.
Offset(n) ==
    LET minutes == IF date.offset < 0 THEN -date.offset ELSE date.offset
        sign    == IF date.offset < 0 THEN "-" ELSE "+"
        h == TwoDigits(minutes \div 60)
        m == TwoDigits(minutes % 60)
    IN  CASE n = 1 -> sign \o h \o m
          [] n = 2 -> sign \o h \o ":" \o m
          [] n = 3 -> date.zoneID
          [] OTHER -> ""
Century == SubSeq(ToString(date.year), 1, 2)
HourOfHalfday(n) == Number(IF date.hour >= 12 THEN date.hour - 12 ELSE date.hour, n)
ClockhourOfDay(n) == Number(IF date.hour = 0 THEN 24 ELSE date.hour, n)

\* Letters that stand for themselves once each.
Single == {"a", "z", "G", "C"}
Letters == Single \cup {"Y", "y", "x", "D", "w", "M", "d", "e", "E", "h", "H", "m", "s", "S",
                        "Z", "K", "k"}

Field(r, n) ==
    CASE r \in {"Y", "y", "x"} -> Year(n)
      [] r = "D" -> YearDay(n)
      [] r = "w" -> Week(n)
      [] r = "M" -> Month(n)
      [] r = "d" -> Day(n)
      [] r = "e" -> WeekdayNumber(n)
      [] r = "E" -> Weekday(n)
      [] r = "h" -> ClockhourOfHalfday(n)
      [] r = "H" -> HourOfDay(n)
      [] r = "a" -> HalfdayOfDay
      [] r = "m" -> Minute(n)
      [] r = "s" -> Second(n)
      [] r = "S" -> Fraction(n)
      [] r = "z" -> date.zone
      [] r = "Z" -> Offset(n)
      [] r = "G" -> "AD"
      [] r = "C" -> Century
      [] r = "K" -> HourOfHalfday(n)
      [] r = "k" -> ClockhourOfDay(n)

\* One round of the loop: a run of letters, text in quotes, or another sign.
Format ==
    /\ phase = "format" /\ pos <= Len(pattern)
    /\ LET r == At(pattern, pos)
           n == IF r \in Single THEN 1 ELSE Run(pattern, pos) IN
       CASE r \in Letters ->
              /\ out' = out \o Field(r, n) /\ pos' = pos + n
              /\ seen' = Append(seen, [field |-> r, n |-> n])
         [] r = "'" -> LET q == Quoted(pattern, pos) IN
              /\ out' = out \o q.text /\ pos' = q.next
              /\ seen' = Append(seen, [field |-> q.text, n |-> 0])
         [] OTHER ->
              /\ out' = out \o r /\ pos' = pos + 1
              /\ seen' = Append(seen, [field |-> r, n |-> 0])
    /\ UNCHANGED <<pattern, date, layout, phase, rest, parsed, ok>>

Formatted ==
    /\ phase = "format" /\ pos > Len(pattern)
    /\ phase' = "layout" /\ pos' = 1
    /\ UNCHANGED <<pattern, date, out, layout, rest, parsed, ok, seen>>

----------------------------------------------------------------------------
(***************************************************************************)
(* GetLayout: the element of Go's layout for a run of n letters.  Letters  *)
(* that only Format knows are copied.                                      *)
(***************************************************************************)
Wide(n, one, more) == IF n = 1 THEN one ELSE more

\* Mutant of LayoutMonth: names are not told apart by their length.
LayoutMonthLong(n) == IF n <= 2 THEN Wide(n, "1", "01") ELSE "January"

LayoutMonth(n) ==
    CASE n = 1 -> "1" [] n = 2 -> "01" [] n = 3 -> "Jan" [] n = 4 -> "January" [] OTHER -> ""

Nines(n) == SubSeq("999999999", 1, n)

LayoutElement(r, n) ==
    CASE r = "h" -> Wide(n, "3", "03")
      [] r = "H" -> "15"
      [] r = "m" -> Wide(n, "4", "04")
      [] r = "s" -> Wide(n, "5", "05")
      [] r = "d" -> Wide(n, "2", "02")
      [] r = "E" -> IF n <= 3 THEN "Mon" ELSE "Monday"
      [] r = "M" -> LayoutMonth(n)
      [] r \in {"Y", "y", "x"} -> IF n = 2 THEN "06" ELSE "2006"
      [] r = "S" -> Nines(n)
      [] r = "a" -> "PM"
      [] r = "Z" -> IF n = 1 THEN "-0700" ELSE IF n = 2 THEN "-07:00" ELSE ""

ForLayout == {"h", "H", "m", "s", "d", "E", "M", "Y", "y", "x", "S", "a", "Z"}

GetLayout ==
    /\ phase = "layout" /\ pos <= Len(pattern)
    /\ LET r == At(pattern, pos) n == Run(pattern, pos) IN
       CASE r \in ForLayout ->
              /\ layout' = layout \o LayoutElement(r, n)
              /\ pos' = pos + (IF r = "a" THEN 1 ELSE n)
         [] r = "'" -> LET q == Quoted(pattern, pos) IN layout' = layout \o q.text /\ pos' = q.next
         [] OTHER -> layout' = layout \o r /\ pos' = pos + 1
    /\ UNCHANGED <<pattern, date, out, phase, rest, parsed, ok, seen>>

\* Parse, ParseInLocation and ParseInLocationDirect hand the layout to package time.
Parse ==
    /\ phase = "layout" /\ pos > Len(pattern)
    /\ phase' = "parse" /\ pos' = 1 /\ rest' = out
    /\ UNCHANGED <<pattern, date, out, layout, parsed, ok, seen>>

----------------------------------------------------------------------------
(***************************************************************************)
(* time.Parse reads the text element by element of the layout.             *)
(***************************************************************************)
Elements == {"January", "Jan", "Monday", "Mon", "01", "02", "03", "04", "05", "06", "15", "1",
             "2006", "_2", "2", "3", "4", "5", "PM", "-0700", "-07:00"}

Lower == {"a", "b", "c", "d", "e", "f", "g", "h", "i", "j", "k", "l", "m",
          "n", "o", "p", "q", "r", "s", "t", "u", "v", "w", "x", "y", "z"}

\* The element at the beginning of what is left of the layout: the longest,
\* and a short name only if no small letter follows.
IsFraction(i) == At(layout, i) \in {".", ","} /\ At(layout, i + 1) = "9"
                 /\ ~IsDigit(At(layout, i + 1 + Run(layout, i + 1)))
Element ==
    LET here == {e \in Elements : StartsWith(layout, pos, e)
                    /\ (e \in {"Jan", "Mon"} => At(layout, pos + 3) \notin Lower)} IN
    IF IsFraction(pos) THEN SubSeq(layout, pos, pos + Run(layout, pos + 1))
    ELSE IF here = {} THEN "" ELSE CHOOSE e \in here : \A f \in here : Len(f) <= Len(e)

\* A number of one or two digits, or of exactly w.
Digits(s, w) == \A i \in 1..w : IsDigit(At(s, i))
Value(s, w) ==
    LET sum[i \in 0..w] == IF i = 0 THEN 0 ELSE 10 * sum[i - 1] + DigitValue[At(s, i)] IN sum[w]
GetNum(fixed) == IF Digits(rest, 2) THEN 2 ELSE IF Digits(rest, 1) /\ ~fixed THEN 1 ELSE 0

Numeric == "01" :> "month" @@ "1" :> "month" @@ "02" :> "day" @@ "2" :> "day" @@ "_2" :> "day"
           @@ "03" :> "hour12" @@ "3" :> "hour12" @@ "15" :> "hour" @@ "04" :> "minute"
           @@ "4" :> "minute" @@ "05" :> "second" @@ "5" :> "second"

\* The text begins with a value v of w signs, or is not what the layout says.
Keep(name, v, w) ==
    /\ parsed' = Append(parsed, [name |-> name, value |-> v])
    /\ rest' = From(rest, w + 1) /\ UNCHANGED ok
Fail == ok' = FALSE /\ UNCHANGED <<parsed, rest>>

Shortened(names) == [i \in DOMAIN names |-> Short(names[i])]
Name(field, names) ==
    LET is == {i \in DOMAIN names : StartsWith(rest, 1, names[i])} IN
    IF is = {} THEN Fail
    ELSE LET i == CHOOSE i \in is : TRUE IN Keep(field, i, Len(names[i]))

\* As many digits as there are; a fraction may be missing.
ReadFraction ==
    LET end == CHOOSE j \in 2..Len(rest) + 1 : ~IsDigit(At(rest, j)) /\ \A k \in 2..j - 1 : IsDigit(At(rest, k))
        w   == end - 2
    IN  IF At(rest, 1) \notin {".", ","} \/ w = 0 THEN UNCHANGED <<parsed, rest, ok>>
        ELSE Keep("milli", Value(From(rest, 2), w) * (CASE w = 1 -> 100 [] w = 2 -> 10 [] OTHER -> 1), end - 1)

ReadOffset(colon) ==
    LET m == IF colon THEN 5 ELSE 4
        minutes == 60 * Value(From(rest, 2), 2) + Value(From(rest, m), 2)
    IN  IF At(rest, 1) \notin {"+", "-"} THEN Fail
        ELSE Keep("offset", IF At(rest, 1) = "-" THEN -minutes ELSE minutes, m + 1)

\* Seconds take a fraction along of which the layout does not speak.
Swallowed(e, w) ==
    IF /\ Numeric[e] = "second" /\ ~IsFraction(pos + Len(e))
       /\ At(rest, w + 1) \in {".", ","} /\ IsDigit(At(rest, w + 2))
    THEN 1 + CHOOSE k \in 1..Len(rest) - w - 1 :
               /\ ~IsDigit(At(rest, w + 2 + k))
               /\ \A j \in 0..k - 1 : IsDigit(At(rest, w + 2 + j))
    ELSE 0

ReadElement(e) ==
    CASE e \in DOMAIN Numeric ->
            LET w == GetNum(At(e, 1) = "0") IN
            IF w = 0 THEN Fail ELSE Keep(Numeric[e], Value(rest, w), w + Swallowed(e, w))
      [] e = "2006" -> IF Digits(rest, 4) THEN Keep("year", Value(rest, 4), 4) ELSE Fail
      [] e = "06" ->
            IF Digits(rest, 2)
            THEN Keep("year", Value(rest, 2) + (IF Value(rest, 2) >= 69 THEN 1900 ELSE 2000), 2)
            ELSE Fail
      [] e = "January" -> Name("month", MonthNames)
      [] e = "Jan"     -> Name("month", Shortened(MonthNames))
      [] e = "Monday"  -> Name("weekday", DayNames)
      [] e = "Mon"     -> Name("weekday", Shortened(DayNames))
      [] e = "PM" ->
            IF SubSeq(rest, 1, 2) \in {"AM", "PM"}
            THEN Keep("pm", IF At(rest, 1) = "P" THEN 1 ELSE 0, 2) ELSE Fail
      [] e = "-0700"  -> ReadOffset(FALSE)
      [] e = "-07:00" -> ReadOffset(TRUE)
      [] OTHER -> ReadFraction

ReadLiteral ==
    IF At(rest, 1) = At(layout, pos)
    THEN rest' = From(rest, 2) /\ UNCHANGED <<parsed, ok>>
    ELSE Fail

Read ==
    /\ phase = "parse" /\ ok /\ pos <= Len(layout)
    /\ IF Element = "" THEN ReadLiteral /\ pos' = pos + 1
       ELSE ReadElement(Element) /\ pos' = pos + Len(Element)
    /\ UNCHANGED <<pattern, date, out, layout, phase, seen>>

Parsed ==
    /\ phase = "parse" /\ (~ok \/ pos > Len(layout))
    /\ phase' = "done" /\ ok' = (ok /\ rest = "")
    /\ UNCHANGED <<pattern, date, pos, out, layout, rest, parsed, seen>>

Next == Format \/ Formatted \/ GetLayout \/ Parse \/ Read \/ Parsed

Spec == Init /\ [][Next]_vars

----------------------------------------------------------------------------
(***************************************************************************)
(* Properties.                                                             *)
(***************************************************************************)

\* Widths of the fields that GetLayout knows, and fields whose width varies.
Known(f) ==
    CASE f.field = "M" -> f.n <= 4 [] f.field = "E" -> f.n <= 4
      [] f.field \in {"Y", "y", "x"} -> f.n <= 4
      [] f.field = "S" -> f.n <= 3 [] f.field = "a" -> TRUE
      [] f.field \in {"h", "H", "m", "s", "d", "Z"} -> f.n <= 2
      [] OTHER -> FALSE
Varies(f) == f.field = "S" \/ (f.n = 1 /\ f.field \in {"h", "H", "m", "s", "d", "M"})

\* Patterns from which a time can be read back: fields GetLayout knows, no
\* digits behind one whose width varies, "." or "," before a fraction and
\* behind seconds only before one, and texts without a sign that package time takes for an element.
Nothing == [field |-> "", n |-> 0]
Readable ==
    \A k \in DOMAIN seen :
        LET f == seen[k]
            next == IF k < Len(seen) THEN seen[k + 1] ELSE Nothing
        IN  /\ f.n > 0 => Known(f)
            /\ Varies(f) => next.n = 0
            /\ f.field = "S" => k > 1 /\ seen[k - 1].field \in {".", ","}
            /\ f.field = "s" /\ next.field \in {".", ","} => k + 1 < Len(seen) /\ seen[k + 2].field = "S"
            /\ f.n = 3 /\ f.field \in {"M", "E"} => At(next.field, 1) \notin Lower
            /\ f.n = 0 => \A i \in 1..Len(f.field) :
                             At(f.field, i) \notin DOMAIN DigitValue \cup {"_", "J", "M", "P", "Z", "p"}

Truncated(v, n) == CASE n = 1 -> v - (v % 100) [] n = 2 -> v - (v % 10) [] OTHER -> v
Fields(name) == {parsed[k].value : k \in {k \in DOMAIN parsed : parsed[k].name = name}}

\* Parse reads from the text that Format writes after the same pattern the
\* fields of the time that was written, although the two are separate loops
\* over the pattern: no field is missed, misread or taken for another one.
FormattedIsParsed ==
    phase = "done" /\ Readable =>
        /\ ok
        /\ Len(parsed) = Cardinality({k \in DOMAIN seen : seen[k].n > 0})
        /\ \A name \in {"year", "month", "day", "hour", "minute", "second", "offset"} :
             Fields(name) \subseteq {date[name]}
        /\ Fields("pm") # {} =>
             \A h \in Fields("hour12"), pm \in Fields("pm") : (h % 12) + 12 * pm = date.hour
        /\ \A k \in DOMAIN seen : seen[k].field = "S" =>
             Fields("milli") = {Truncated(date.milli, seen[k].n)}
        /\ Fields("weekday") \subseteq {date.weekday + 1}
=============================================================================
