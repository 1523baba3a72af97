--------------------------- MODULE MCBuiltins ---------------------------
(* BuiltinHost for TLC: eight catalogs whose calls share few formatters. *)
EXTENDS BuiltinHost, FiniteSets, TLC

MCCanBuild(fields) == fields.zone # "longGeneric"
(* Locale data is missing for one request of each kind of cache *)
MCSupports(request) ==
  request \notin {[cache |-> "decimal", key |-> [grouping |-> "never", numbering |-> "arab"]],
                  [cache |-> "date", key |-> [date |-> "long"]],
                  [cache |-> "datetime", key |-> [date |-> "long", time |-> "second"]]}

Dec(sign, int, frac) == Number(Text(sign, int, frac))
Whole(n) == [kind |-> "int", n |-> n]
Txt(t) == [kind |-> "text", text |-> t]
Entry(name, static) == IndexEntry(name, static)
Lit(text) == [text |-> text, fallback |-> FALSE]
Unresolved == [text |-> None, fallback |-> TRUE]
NoStatic == [key \in {} |-> ""]

(* Numbers: every format option, selection modes, operands of every kind *)
NumberOperands ==
  {Whole(0), Whole(-5), Whole(99), Txt(Dec("", <<9>>, <<9, 5>>)), Txt(Dec("-", <<0>>, <<0, 4, 5>>)),
   Txt(Dec("", <<1>>, <<0, 0>>)), Txt(Dec("", <<1, 2, 8>>, << >>)), Txt(Dec("+", <<1>>, << >>)), Txt(Word("w")),
   [kind |-> "float", d |-> Text("-", <<0>>, << >>)], [kind |-> "float", d |-> Text("", <<0>>, <<9, 9, 9>>)],
   [kind |-> "nonfinite"], [kind |-> "fallback"], [kind |-> "null"], [kind |-> "dangling"]}
NumberEntries ==
  {Entry("number", NoStatic), Entry("integer", NoStatic), Entry("percent", NoStatic), Entry("unknown", NoStatic),
   Entry("number", "minimumFractionDigits" :> "2"), Entry("number", "maximumFractionDigits" :> "1"),
   Entry("number", "maximumSignificantDigits" :> "2"), Entry("number", "minimumSignificantDigits" :> "3"),
   Entry("number", "minimumIntegerDigits" :> "3" @@ "signDisplay" :> "exceptZero"),
   Entry("number", "notation" :> "scientific" @@ "signDisplay" :> "negative"),
   Entry("number", "notation" :> "engineering"), Entry("number", "style" :> "percent"),
   Entry("percent", "maximumFractionDigits" :> "1"), Entry("integer", "signDisplay" :> "never"),
   Entry("offset", "add" :> "2"), Entry("offset", "subtract" :> "20"), Entry("offset", "add" :> "x"),
   Entry("number", "select" :> "ordinal" @@ "minimumFractionDigits" :> "1"), Entry("number", "select" :> "exact"),
   Entry("number", "select" :> "x"),
   Entry("integer", "minimumFractionDigits" :> "22")}
NumberRaw == {NoOptions, "maximumFractionDigits" :> Lit("0")}

(* Annotations of annotated values *)
ChainEntries ==
  {Entry("number", NoStatic), Entry("number", "minimumFractionDigits" :> "2"), Entry("number", "maximumFractionDigits" :> "1"),
   Entry("integer", "select" :> "exact"), Entry("number", "select" :> "ordinal"), Entry("percent", NoStatic),
   Entry("offset", "add" :> "1"), Entry("string", NoStatic)}
ChainOperands == {Whole(99), Txt(Dec("", <<9>>, <<9, 5>>))}
ChainRaw == {NoOptions, "select" :> Lit("plural"), "select" :> Unresolved}

(* Formatters: groupings, numbering systems, displays *)
FormatterEntries ==
  {Entry("number", NoStatic), Entry("percent", NoStatic), Entry("number", "useGrouping" :> "never"),
   Entry("number", "numberingSystem" :> "arab"), Entry("percent", "signDisplay" :> "always"),
   Entry("number", "useGrouping" :> "never" @@ "numberingSystem" :> "arab")}
CurrencyEntries ==
  {Entry("currency", "currency" :> "EUR"), Entry("currency", "currency" :> "USD" @@ "currencyDisplay" :> "name"),
   Entry("currency", NoStatic), Entry("currency", "currencySign" :> "accounting"), Entry("currency", "currency" :> "x")}
FormatterOperands == {Whole(3), Txt(Dec("", <<2>>, <<5>>)), [kind |-> "functionFallback"]}
FormatterRaw == {NoOptions, "u:id" :> Lit("i"), NoKey :> Lit("1")}

(* Points in time: with or without a time, one of hours alone, and texts that are none *)
Moment0 == [day |-> "d1", yearDash |-> TRUE, dashes |-> TRUE, hasT |-> FALSE, colon |-> FALSE, valid |-> TRUE,
            timed |-> TRUE, time |-> "none", zone |-> "utc"]
DateText(changes) == Txt([as |-> "date", date |-> changes @@ Moment0])
Date(day) == DateText("day" :> day)
DateTime(zone) == DateText("day" :> "d2" @@ "hasT" :> TRUE @@ "colon" :> TRUE @@ "time" :> "t2" @@ "zone" :> zone)
HourAlone(zone, timed) ==
  DateText("hasT" :> TRUE @@ "time" :> "t3" @@ "zone" :> zone @@ "timed" :> timed)
MomentOperands ==
  {Date("d1"), DateTime("+01"), DateTime("bad"), HourAlone("utc", TRUE), HourAlone("utc", FALSE),
   HourAlone("+01", TRUE), DateText("dashes" :> FALSE @@ "hasT" :> TRUE @@ "colon" :> TRUE @@ "time" :> "t4"),
   DateText("dashes" :> FALSE @@ "yearDash" :> FALSE @@ "hasT" :> TRUE @@ "colon" :> TRUE @@ "valid" :> FALSE), Whole(1)}
DayEntries ==
  {Entry("date", NoStatic), Entry("date", "length" :> "long"), Entry("date", "style" :> "short"), Entry("time", NoStatic),
   Entry("time", "precision" :> "hour"), Entry("time", "style" :> "full")}
StyleEntries ==
  {Entry("datetime", NoStatic), Entry("datetime", "dateLength" :> "long" @@ "timePrecision" :> "second"),
   Entry("datetime", "timePrecision" :> "hour"), Entry("datetime", "dateStyle" :> "x"), Entry("datetime", "style" :> "full"),
   Entry("datetime", "year" :> "numeric" @@ "month" :> "long" @@ "day" :> "2-digit")}
FieldEntries ==
  {Entry("datetime", "year" :> "numeric" @@ "month" :> "long" @@ "day" :> "2-digit"),
   Entry("datetime", "hour" :> "numeric" @@ "hourCycle" :> "h12"), Entry("datetime", "hour" :> "numeric" @@ "hourCycle" :> "h23"),
   Entry("datetime", "year" :> "numeric" @@ "day" :> "numeric"), Entry("datetime", "era" :> "long"),
   Entry("datetime", "timeZoneName" :> "longGeneric"), Entry("datetime", "fractionalSecondDigits" :> "2")}
MomentRaw == {NoOptions, "dateStyle" :> Lit("short"), "hourCycle" :> Unresolved}

(* Strings and the test functions *)
StringEntries ==
  {Entry("string", NoStatic), Entry("string", "u:dir" :> "inherit"), Entry("string", "u:dir" :> "rtl"),
   Entry("test:select", NoStatic), Entry("test:select", "decimalPlaces" :> "1"), Entry("test:select", "fails" :> "select"),
   Entry("test:function", NoStatic), Entry("test:function", "fails" :> "format"), Entry("test:format", NoStatic),
   Entry("number", NoStatic), Entry("date", NoStatic)}
StringOperands == {Whole(7), Whole(200), Txt(Dec("", <<1>>, <<5>>)), Txt(Word("w")), Date("d1"), [kind |-> "null"]}

Calling(operands, entries, raw, bound) == [operands |-> operands, entries |-> entries, raw |-> raw, bound |-> bound]
MCCatalogs ==
  {Calling(NumberOperands, NumberEntries, NumberRaw, 1), Calling(ChainOperands, ChainEntries, ChainRaw, 2),
   Calling(FormatterOperands, FormatterEntries, FormatterRaw, 1), Calling(FormatterOperands, CurrencyEntries, FormatterRaw, 2),
   Calling(MomentOperands, DayEntries, MomentRaw, 1), Calling(MomentOperands, StyleEntries, MomentRaw, 1),
   Calling(MomentOperands, FieldEntries, MomentRaw, 2), Calling(StringOperands, StringEntries, {NoOptions}, 2)}
=============================================================================
