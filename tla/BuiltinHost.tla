-------------------------- MODULE BuiltinHost --------------------------
(***************************************************************************)
(* BuiltinHost of runtime/builtin.rs: the functions a message may call, as  *)
(* the interpreter calls them.  A call resolves a value (call), writes it    *)
(* at once (call_to), or gives what a selector compares (call_select); a     *)
(* value resolved earlier is shown (format_default_to), selected on          *)
(* (project_select), or annotated again by another call.  All of these       *)
(* share one cache of ICU formatters, the only state of the host.            *)
(*                                                                           *)
(* ICU is external: a formatter is the request it was built for, and what it *)
(* writes is that request together with the decimal or the time formatted.   *)
(***************************************************************************)
EXTENDS BuiltinOptions

CONSTANTS
  Catalogs,      \* records of the operands of a catalog's calls, its function
                 \* entries (None for a name that is no builtin), the
                 \* variable options its calls come with, and a bound on
                 \* calls whose value is called with again
  MaxExact,      \* the largest n such that every integer up to n is an f64
  Supports(_)    \* the requests ICU has locale data for

(* Operands come from outside, where nothing has been formatted: an integer, *)
(* the decimal text of a float, a text, which may be a number's or, with the  *)
(* dashes of its year, month and day, a date's, or a value without content.   *)
(* An entry of the index names a builtin.                                     *)
Contentless == {"nonfinite", "fallback", "functionFallback", "null", "dangling"}
IsText(text) == /\ text.as = "number" => IsDecimal(text.d)
                /\ text.as = "date" => (text.date.dashes => text.date.yearDash)
IsOperand(v) ==
  \/ v.kind = "int" /\ v.n \in Int
  \/ v.kind = "float" /\ IsDecimal(v.d)
  \/ v.kind = "text" /\ IsText(v.text)
  \/ v.kind \in Contentless
ASSUME CatalogsAssumption ==
  \A c \in Catalogs :
    /\ \A v \in c.operands : "kind" \in DOMAIN v /\ IsOperand(v)
    /\ \A entry \in c.entries : entry # None => entry.func \in Functions

VARIABLES
  catalog,       \* the catalog the host works for
  caches,        \* icu_formatters
  value,         \* the value in hand: an operand, or what a call resolved
  annotations    \* the number of calls that made it

vars == <<catalog, caches, value, annotations>>

Ok(v) == [value |-> v]
Fail(e) == [error |-> e]
Failed(r) == "error" \in DOMAIN r
Answer(r, c, reports) == [result |-> r, caches |-> c, reports |-> reports]

UnknownFunction == "UnknownFunction"
HostFailure == "ImplementationFailure::Host"
TestFailure == "ImplementationFailure::TestSelect"

-----------------------------------------------------------------------------
(* Formatters and their caches.  A slot holds the key it is compared by and  *)
(* the request its formatter was built for.                                  *)
NoFormatters ==
  [decimal |-> None, percent |-> None, currency |-> None, fields |-> None,
   date |-> [s \in Lengths |-> None], time |-> [p \in Precisions |-> None],
   datetime |-> [sp \in Lengths \X Precisions |-> None]]

DecimalKey(f) == [grouping |-> f.grouping, numbering |-> f.numbering]
PercentKey(f, display) == [grouping |-> f.grouping, numbering |-> f.numbering, display |-> display]

SameKeyButNumbering(slot, key) ==    \* a mutant: the numbering system is not compared
  slot # None /\ \A option \in DOMAIN key \ {"numbering"} : slot.key[option] = key[option]
SameKey(slot, key) == slot # None /\ slot.key = key

(* cached_decimal_, cached_percent_, cached_currency_, cached_datetime_fields_formatter *)
Cached(c, cache, key, failure) ==
  IF SameKey(c[cache], key) THEN Answer(Ok(c[cache].formatter), c, 0)
  ELSE IF Supports([cache |-> cache, key |-> key])
       THEN Answer(Ok([by |-> cache, for |-> key]),
                   [c EXCEPT ![cache] = [key |-> key, formatter |-> [by |-> cache, for |-> key]]], 0)
       ELSE Answer(Fail(failure), c, 0)

(* cached_date_, cached_time_, cached_datetime_formatter: a slot per request *)
Slotted(c, cache, slot, request, failure) ==
  IF c[cache][slot] # None THEN Answer(Ok(c[cache][slot]), c, 0)
  ELSE IF Supports([cache |-> cache, key |-> request])
       THEN Answer(Ok([by |-> cache, for |-> request]), [c EXCEPT ![cache][slot] = [by |-> cache, for |-> request]], 0)
       ELSE Answer(Fail(failure), c, 0)

(* What is written when formatter answer a formats x *)
Written(a, x) == IF Failed(a.result) THEN a
                 ELSE [a EXCEPT !.result = Ok([formatter |-> a.result.value, of |-> x])]

-----------------------------------------------------------------------------
(* Texts: a number literal, a point in time, or a word. *)
Number(d) == [as |-> "number", d |-> d]
Word(w) == [as |-> "word", word |-> w]

(* numeric_source: constructors of formatted values never nest them *)
Source(v) == IF v.kind = "formatted" THEN v.source ELSE v

(* value_text *)
TextOf(v) == LET s == Source(v) IN IF s.kind \in {"text", "string", "select"} THEN s.text ELSE None

NumberText(n) == CASE n.is = "integer" -> Number(IntText(n.n))
                   [] n.is = "decimal" -> Number(n.d)
                   [] n.is = "nonfinite" -> Word("NaN")
DecimalOf(n) == IF n.is = "integer" THEN IntText(n.n) ELSE n.d

(* plain_text *)
PlainText(v) ==
  IF v.kind = "int" THEN Number(IntText(v.n))
  ELSE IF v.kind = "float" THEN Number(v.d)
  ELSE IF v.kind = "number" THEN NumberText(v.number)
  ELSE IF v.kind = "formatted" THEN [as |-> "shown", shown |-> v.shown]
  ELSE IF v.kind \in {"text", "string", "select"} THEN v.text ELSE Word(v.kind)

(* parse_number_text, parse_number_value: integers stay exact *)
Integer(n) == [is |-> "integer", n |-> n]
Decimal(d) == [is |-> "decimal", d |-> d]
NonFinite == [is |-> "nonfinite"]

IsLiteral(d) == d.sign # "+" /\ d.int = Canonical(d.int)
ParseText(d) ==
  IF ~ IsLiteral(d) THEN Fail(BadOperand)
  ELSE IF d.frac = << >> /\ ~ (d.sign = "-" /\ IsZero(d)) /\ FitsInt(Units(d, 0)) THEN Ok(Integer(Units(d, 0)))
  ELSE Ok(Decimal(TrimEnd(d)))
ExactIntegral(d) == d.frac = << >> /\ Units(d, 0) \in -MaxExact..MaxExact

FloatNumber(d) == IF d.sign = "-" /\ IsZero(d) THEN Ok(Decimal(Text("-", <<0>>, << >>)))
                  ELSE IF ExactIntegral(d) THEN Ok(Integer(Units(d, 0))) ELSE ParseText(d)
TextNumber(text) == IF text = None \/ text.as # "number" THEN Fail(BadOperand) ELSE ParseText(text.d)

ParseNumber(v) ==
  LET s == Source(v) IN
  IF s.kind = "nonfinite" THEN Ok(NonFinite)
  ELSE IF s.kind = "float" THEN FloatNumber(s.d)
  ELSE IF s.kind = "int" THEN Ok(Integer(s.n))
  ELSE IF s.kind = "number" THEN Ok(s.number)
  ELSE IF s.kind = "string" /\ s.hint # None THEN Ok(Integer(s.hint)) ELSE TextNumber(TextOf(s))

(* resolve_number: what :number and :integer make of their operand *)
ResolvedNumber(n, format, selection, explicit) ==
  [kind |-> "number", number |-> n, format |-> format, selection |-> selection, explicit |-> explicit]
Inherited(v, selection) ==
  LET s == Source(v)
  IN  IF s.kind = "number" THEN [format |-> s.format, selection |-> s.selection, explicit |-> s.explicit]
      ELSE [format |-> NumberDefault, selection |-> selection, explicit |-> FALSE]

AsInteger(n) == IF n.is = "decimal"
                THEN LET d == Truncated(n.d)
                     IN  IF FitsInt(Units(d, 0)) THEN Integer(Units(d, 0)) ELSE Decimal(d)
                ELSE n

NumberOf(parsed, inherited, merged, select, opts, integerOnly) ==
  IF Failed(parsed) THEN [result |-> parsed, reports |-> 0]
  ELSE IF Failed(merged) THEN [result |-> Fail(merged.error), reports |-> 0]
  ELSE IF Failed(select) THEN [result |-> Fail(select.error), reports |-> 0]
  ELSE [result  |-> Ok(ResolvedNumber(IF integerOnly THEN AsInteger(parsed.value) ELSE parsed.value, merged.format,
                                      select.selection, inherited.explicit \/ Given(opts, "select"))),
        reports |-> IF select.reports THEN 1 ELSE 0]
ResolveInheriting(v, inherited, opts, integerOnly) ==
  NumberOf(ParseNumber(v), inherited, MergedFormat(inherited.format, opts, integerOnly),
           MergedSelection(inherited, opts), opts, integerOnly)
ResolveNumber(v, opts, integerOnly) == ResolveInheriting(v, Inherited(v, "none"), opts, integerOnly)

(* resolve_percent: the value shown, and the scaled one that is selected on *)
PercentStart(format) == [format EXCEPT !.minFrac = IF @ = None THEN 0 ELSE @, !.minInt = None]
PercentOf(parsed, merged) ==
  IF Failed(parsed) THEN parsed
  ELSE IF Failed(merged) THEN merged
  ELSE LET number(n) == ResolvedNumber(n, [merged.format EXCEPT !.maxFrac = IF @ = None THEN merged.format.minFrac ELSE @],
                                       "plural", FALSE)
       IN  Ok([shown     |-> number(parsed.value),
               selection |-> number(IF parsed.value.is = "nonfinite" THEN NonFinite
                                    ELSE ParseText(TimesHundred(DecimalOf(parsed.value))).value)])
ResolvePercent(v, opts) ==
  PercentOf(ParseNumber(v), MergedFormat(PercentStart(Inherited(v, "none").format), opts, FALSE))

(* resolve_offset: exactly one of add and subtract, an integer *)
Adjustments == [t \in {"0", "1", "2", "3", "20", "-1"} |-> IF t = "-1" THEN -1 ELSE DigitTexts[t]]
Sum(parsed, text, subtract) ==
  IF parsed.value.is = "nonfinite" THEN [nonfinite |-> TRUE]
  ELSE Offset(DecimalOf(parsed.value), Adjustments[text], subtract)
OffsetOf(parsed, inherited, merged, sum) ==
  IF "failed" \in DOMAIN sum THEN Fail(sum.failed)
  ELSE IF Failed(merged) THEN merged
  ELSE Ok(ResolvedNumber(IF "nonfinite" \in DOMAIN sum THEN NonFinite
                         ELSE IF "integer" \in DOMAIN sum THEN Integer(sum.integer) ELSE Decimal(sum.decimal),
                         merged.format,
                         IF inherited.selection = "none" THEN "plural" ELSE inherited.selection,
                         inherited.explicit))
OffsetInheriting(parsed, inherited, opts, text, subtract) ==
  IF Failed(parsed) THEN parsed
  ELSE IF (Given(opts, "add") <=> subtract) \/ text \notin DOMAIN Adjustments THEN Fail(BadOption)
  ELSE OffsetOf(parsed, inherited, MergedFormat(inherited.format, opts, FALSE), Sum(parsed, text, subtract))
ResolveOffset(v, opts) ==
  OffsetInheriting(ParseNumber(v), Inherited(v, "plural"), opts,
                   Get(opts, IF Given(opts, "subtract") THEN "subtract" ELSE "add"), Given(opts, "subtract"))

-----------------------------------------------------------------------------
(* render_resolved_number_inner: the text that is shown of a number, in the  *)
(* three ways of the source: non-finite, scientific, and through ICU.        *)
Rounded(d, format) ==
  IF format.minSig # None \/ format.maxSig # None THEN Significant(d, format.minSig, format.maxSig)
  ELSE AtMost(AtLeast(d, IF format.minFrac = None THEN 0 ELSE format.minFrac), format.maxFrac)

RenderScientific(c, format, science) ==
  Answer(Ok([mantissa |-> Signed(format.sign, science.mantissa), exp |-> science.exp,
             percent |-> format.style = "percent"]), c, 0)
RenderWith(c, format, shown) ==
  IF format.style = "percent"
  THEN Written(Cached(c, "percent", PercentKey(format, IF shown.sign = "+" THEN "explicitSign" ELSE "standard"),
                      HostFailure), shown)
  ELSE Written(Cached(c, "decimal", DecimalKey(format), HostFailure), shown)
RenderDecimal(c, format, d) ==
  IF format.notation \in {"scientific", "engineering"}
  THEN RenderScientific(c, format,
         Scientific(IF format.minSig # None \/ format.maxSig # None
                    THEN Significant(d, format.minSig, format.maxSig) ELSE d,
                    format.minSig # None, format.notation = "engineering"))
  ELSE RenderWith(c, format, Widened(Signed(format.sign, Rounded(d, format)), format.minInt))
Render(c, number) ==
  IF number.number.is = "nonfinite"
  THEN Answer(Ok([nonfinite |-> number.format.sign, percent |-> number.format.style = "percent"]), c, 0)
  ELSE RenderDecimal(c, number.format, IF number.format.style = "percent" THEN TimesHundred(DecimalOf(number.number))
                                       ELSE DecimalOf(number.number))

(* a mutant: the maximum of fraction digits is forgotten *)
PluralOperandUnrounded(number) ==
  LET d == DecimalOf(number.number)
  IN  IF number.number.is = "nonfinite" THEN Fail(BadOperand)
      ELSE Ok(IF number.format.minFrac # None THEN PadTo(d, -number.format.minFrac) ELSE d)
(* resolved_plural_category: the decimal that the plural rules are asked about *)
Padded(d, min) == IF min # None THEN PadTo(d, -min) ELSE d
RoundedAfter(d, max) == IF max # None /\ Len(d.frac) > max THEN RoundAt(d, -max) ELSE d
PluralOperand(number) ==
  LET d == DecimalOf(number.number)   f == number.format
  IN  IF number.number.is = "nonfinite" THEN Fail(BadOperand)
      ELSE IF f.minSig # None \/ f.maxSig # None THEN Ok(Significant(d, f.minSig, f.maxSig))
      ELSE IF ~ Ordered(f.minFrac, f.maxFrac) THEN Fail(BadOption)
      ELSE Ok(RoundedAfter(Padded(d, f.minFrac), f.maxFrac))

(* project_resolved_number: what a selector compares its keys with *)
NullSelector == [kind |-> "null"]
Category(rules, operand) ==
  IF Failed(operand) THEN operand ELSE Ok([kind |-> "category", rules |-> rules, of |-> operand.value])
Project(number) ==
  CASE number.selection \in {"exact", "none"} -> Ok(number)
    [] number.selection = "invalid" -> Ok(NullSelector)
    [] number.selection \in {"plural", "ordinal"} -> Category(number.selection, PluralOperand(number))

-----------------------------------------------------------------------------
(* render_currency: code, display and sign come from the options or from an  *)
(* operand that is a currency value already                                  *)
CurrencyOptions(v, opts) ==
  LET inherits == v.kind = "formatted" /\ "currency" \in DOMAIN v
      option(key, default) == IF Given(opts, key) THEN Get(opts, key)
                              ELSE IF inherits THEN v.currency[key] ELSE default
  IN  [currency |-> option("currency", None), currencyDisplay |-> option("currencyDisplay", "symbol"),
       currencySign |-> option("currencySign", "standard")]
CurrencyCodes == {"EUR", "USD"}

CurrencyWritten(c, parsed, key) ==
  IF key.currency = None THEN Answer(Fail(BadOperand), c, 0)
  ELSE IF key.currency \notin CurrencyCodes THEN Answer(Fail(BadOption), c, 0)
  ELSE IF Failed(parsed) \/ parsed.value.is = "nonfinite" THEN Answer(Fail(BadOperand), c, 0)
  ELSE Written(Cached(c, "currency", key, HostFailure), DecimalOf(parsed.value))
RenderCurrency(c, v, opts) == CurrencyWritten(c, ParseNumber(v), CurrencyOptions(v, opts))

(* parse_iso_datetime, and parse_iso_utc_offset for the zone; a text without  *)
(* a time is one of midnight                                                 *)
ParsedMoment(date) ==
  IF ~ date.valid \/ (date.hasT /\ ~ date.timed) THEN Fail(BadOperand)
  ELSE Ok([day |-> date.day, time |-> IF date.hasT THEN date.time ELSE "midnight", zone |-> date.zone])

(* validate_date_, validate_time_, validate_datetime_operand: a text that is  *)
(* not taken as it is gets the time of midnight appended, which is read       *)
(* instead of its own: of an hour alone, unless an offset follows it.         *)
TakenAsIs(date, func) == CASE func = "date" -> date.dashes
                           [] func = "time" -> date.hasT /\ date.colon
                           [] func = "datetime" -> date.hasT /\ date.yearDash
HourIsLost(date, func) == date.hasT /\ ~ TakenAsIs(date, func) /\ date.zone = "utc"
Moment(v, func) ==
  LET text == TextOf(v)
      date == text.date
  IN  IF text = None \/ text.as # "date" THEN Fail(BadOperand)
      ELSE IF ~ (TakenAsIs(date, func) \/ date.dashes) THEN Fail(BadOperand)
      ELSE ParsedMoment(IF HourIsLost(date, func) THEN [date EXCEPT !.hasT = FALSE] ELSE date)

DateFailure(func) == CASE func = "date" -> "DateFormattingForLocale" [] func = "time" -> "TimeFormattingForLocale"
                       [] func = "datetime" -> DateTimeForLocale

(* What the ICU formatter of a function is given of a moment *)
Part(func, m) == CASE func = "date" -> m.day [] func = "time" -> m.time [] func = "datetime" -> <<m.day, m.time>>

(* render_date, render_time, render_datetime.  The answer's `options` is what *)
(* the resolved value remembers of its presentation.                          *)
FormatMoment(c, func, options, m) ==
  CASE func = "date" -> Written(Slotted(c, "date", options.date, [date |-> options.date], DateFailure(func)), Part(func, m))
    [] func = "time" -> Written(Slotted(c, "time", options.time, [time |-> options.time], DateFailure(func)), Part(func, m))
    [] func = "datetime" /\ "fields" \in DOMAIN options ->
         IF m.zone = "bad" THEN Answer(Fail(BadOperand), c, 0)
         ELSE Written(Cached(c, "fields", options, DateFailure(func)), <<m.day, m.time, m.zone>>)
    [] OTHER -> Written(Slotted(c, "datetime", <<options.date, options.time>>, options, DateFailure(func)), Part(func, m))

OkFields(fields) == IF Failed(fields) THEN fields ELSE Ok(fields)
MomentOptions(func, opts) ==
  CASE func = "date" -> Ok([date |-> DateStyle(opts, FALSE)])
    [] func = "time" -> Ok([time |-> TimePrecisionOf(opts, FALSE)])
    [] func = "datetime" -> IF HasFields(opts)
                            THEN OkFields(FieldSet(opts))
                            ELSE Ok([date |-> DateStyle(opts, TRUE), time |-> TimePrecisionOf(opts, TRUE)])

MomentWritten(c, func, m, opts, options) ==
  IF func = "datetime" /\ StyleAndFields(opts) THEN Answer(Fail(BadOption), c, 0)
  ELSE IF Failed(m) THEN Answer(m, c, 0)
  ELSE IF func = "datetime" /\ HasFields(opts) /\ m.value.zone = "bad" THEN Answer(Fail(BadOperand), c, 0)
  ELSE IF Failed(options) THEN Answer(options, c, 0)
  ELSE FormatMoment(c, func, options.value, m.value)
RenderMoment(c, func, v, opts) == MomentWritten(c, func, Moment(v, func), opts, MomentOptions(func, opts))

RenderInto(c, func, v, opts) ==
  IF func = "currency" THEN RenderCurrency(c, v, opts) ELSE RenderMoment(c, func, v, opts)

(* resolved_datetime, ResolvedFormatted::currency and ::selectable *)
FormattedMoment(source, shown, func, options) ==
  [kind |-> "formatted", source |-> source, shown |-> shown, datetime |-> [func |-> func, options |-> options]]
FormattedCurrency(source, shown, currency) ==
  [kind |-> "formatted", source |-> source, shown |-> shown, currency |-> currency]
FormattedNumber(source, shown, number) ==
  [kind |-> "formatted", source |-> source, shown |-> shown, selection |-> number]
Selectable(v) == v.kind = "formatted" /\ "selection" \in DOMAIN v

-----------------------------------------------------------------------------
(* format_string *)
String(text, hint, dir) == [kind |-> "string", text |-> text, hint |-> hint, dir |-> dir]
ResolveString(v, opts) ==
  LET asked == Get(opts, "u:dir")
      dir   == IF asked = None THEN "unspecified" ELSE IF asked = "inherit" THEN "auto" ELSE asked
  IN  IF v.kind = "string" /\ asked = "inherit" THEN [v EXCEPT !.dir = IF @ = "unspecified" THEN "auto" ELSE @]
      ELSE String(PlainText(v), IF v.kind = "int" THEN v.n ELSE None, dir)

(* numeric_operand: the f64 of the test functions, refused where inexact *)
FloatOperand(v) ==
  LET s == Source(v) IN
  IF s.kind = "int" THEN IF Magnitude(s.n) <= MaxExact THEN Ok(Number(IntText(s.n))) ELSE Fail(BadOperand)
  ELSE IF s.kind = "float" THEN Ok(Number(TrimEnd(s.d)))
  ELSE IF s.kind = "nonfinite" THEN Ok(Word("NaN"))
  ELSE IF s.kind = "number" THEN Ok(NumberText(s.number))
  ELSE IF TextOf(s) # None /\ TextOf(s).as = "number" /\ IsLiteral(TextOf(s).d)
       THEN Ok(Number(TrimEnd(TextOf(s).d))) ELSE Fail(BadOperand)

(* format_test_select; the operands of the model have no ties to round *)
Places == [t \in {"0", "1", "2", "3"} |-> DigitTexts[t]]
TestSelect(v, opts, selecting) ==
  LET places == Get(opts, "decimalPlaces")
      number == FloatOperand(v)
      fixed  == IF number.value.as # "number" THEN number.value
                ELSE Number(AtLeast(RoundText(number.value.d, Places[places]), Places[places]))
  IN  IF selecting /\ Get(opts, "fails") = "select" THEN Fail(TestFailure)
      ELSE IF places = None /\ v.kind = "select" THEN Ok(v)
      ELSE IF Failed(number) THEN number
      ELSE IF places = None THEN Ok([kind |-> "select", text |-> number.value])
      ELSE IF places \notin DOMAIN Places THEN Fail(BadOption)
      ELSE Ok([kind |-> "select", text |-> fixed])

(* format_test_function *)
TestFunction(v, opts) ==
  IF Get(opts, "fails") = "format" THEN Fail(IF Failed(FloatOperand(v)) THEN BadOperand ELSE BadOption)
  ELSE Ok([kind |-> "text", text |-> PlainText(v)])

-----------------------------------------------------------------------------
(* apply *)
Resolving(a, resolved) == IF Failed(a.result) THEN a ELSE [a EXCEPT !.result = Ok(resolved)]
FormattedAs(a, func, v, opts) ==
  Resolving(a, IF func = "currency" THEN FormattedCurrency(Source(v), a.result.value, CurrencyOptions(v, opts))
               ELSE FormattedMoment(Source(v), a.result.value, func, MomentOptions(func, opts).value))
ResolveRendered(c, func, v, opts) == FormattedAs(RenderInto(c, func, v, opts), func, v, opts)

AsPercent(number) == [number EXCEPT !.format.style = "percent"]
PercentShown(a, numbers) ==
  Resolving(a, FormattedNumber(numbers.shown, a.result.value, numbers.selection))
PercentRendered(c, resolved) ==
  IF Failed(resolved) THEN Answer(resolved, c, 0)
  ELSE PercentShown(Render(c, AsPercent(resolved.value.shown)), resolved.value)
ApplyPercent(c, v, opts) == PercentRendered(c, ResolvePercent(v, opts))

ReportingSelect(a, c, raw) == Answer(a.result, c, a.reports + IF ReportsDynamicSelect(raw) THEN 1 ELSE 0)
ApplyNumber(c, entry, v, opts) ==
  ReportingSelect(ResolveNumber(v, opts, entry.func = "integer"), c, opts.raw)

Apply(c, entry, v, raw, selecting) ==
  LET opts == Effective(entry, raw)   func == entry.func IN
  IF v.kind = "functionFallback" THEN Answer(Fail(BadOperand), c, 0)
  ELSE IF ~ Valid(func, opts) THEN Answer(Fail(BadOption), c, 0)
  ELSE IF func = "string"               THEN Answer(Ok(ResolveString(v, opts)), c, 0)
  ELSE IF func \in {"number", "integer"} THEN ApplyNumber(c, entry, v, opts)
  ELSE IF func = "percent"              THEN ApplyPercent(c, v, opts)
  ELSE IF func = "offset"               THEN Answer(ResolveOffset(v, opts), c, 0)
  ELSE IF func = "test:select"          THEN Answer(TestSelect(v, opts, selecting), c, 0)
  ELSE IF func = "test:function"        THEN Answer(TestFunction(v, opts), c, 0)
  ELSE IF func = "test:format"
       THEN Answer(IF selecting THEN Fail(TestFailure) ELSE TestSelect(v, opts, FALSE), c, 0)
  ELSE ResolveRendered(c, func, v, opts)

(* call: an integer without options takes a short way to the same value *)
PlainButOptions(entry, v, raw) == DOMAIN raw = {} /\ v.kind = "int"   \* a mutant
Plain(entry, v, raw) == DOMAIN raw = {} /\ DOMAIN entry.base = {} /\ v.kind = "int"
IntegerNumber(v) == ResolvedNumber(Integer(v.n), NumberDefault, "plural", FALSE)
Call(c, entry, v, raw) ==
  IF entry = None THEN Answer(Fail(UnknownFunction), c, 0)
  ELSE IF entry.func \in {"number", "integer"} /\ Plain(entry, v, raw) THEN Answer(Ok(IntegerNumber(v)), c, 0)
  ELSE Apply(c, entry, v, raw, FALSE)

(* call_to: what is written, or a value for the caller to show *)
Wrote(a) == IF Failed(a.result) THEN a ELSE [a EXCEPT !.result = [written |-> @.value]]
CallTo(c, entry, v, raw) ==
  LET opts == Effective(entry, raw) IN
  IF entry = None THEN Answer(Fail(UnknownFunction), c, 0)
  ELSE IF entry.func \in {"number", "integer"} /\ Plain(entry, v, raw)
       THEN Wrote(Written(Cached(c, "decimal", DecimalKey(NumberDefault), HostFailure), IntText(v.n)))
  ELSE IF entry.func = "percent" /\ Plain(entry, v, raw)
       THEN Wrote(Written(Cached(c, "percent", PercentKey(NumberDefault, "standard"), HostFailure),
                          TimesHundred(IntText(v.n))))
  ELSE IF entry.func \notin Rendering THEN Call(c, entry, v, raw)
  ELSE IF v.kind = "functionFallback" THEN Answer(Fail(BadOperand), c, 0)
  ELSE IF ~ Valid(entry.func, opts) THEN Answer(Fail(BadOption), c, 0)
  ELSE Wrote(RenderInto(c, entry.func, v, opts))

(* call_select *)
OnlyRuntimeOptions(entry) == TRUE    \* a mutant: literal options are not looked at
OnlySelect(entry) == DOMAIN entry.base \subseteq {"select"}
ProjectAnswer(a) == IF Failed(a.result) \/ a.result.value.kind # "number" THEN a
                    ELSE [a EXCEPT !.result = Project(@.value)]
ProjectIfNumeric(entry, a) == IF entry.func \in Numeric THEN ProjectAnswer(a) ELSE a
ProjectPercent(resolved) == IF Failed(resolved) THEN resolved ELSE Project(resolved.value.selection)
SelectPercent(c, entry, v, raw) ==
  IF ~ Valid("percent", Effective(entry, raw)) THEN Answer(Fail(BadOption), c, 0)
  ELSE Answer(ProjectPercent(ResolvePercent(v, Effective(entry, raw))), c, 0)

CallSelect(c, entry, v, raw) ==
  IF entry = None THEN Answer(Fail(UnknownFunction), c, 0)
  ELSE IF /\ DOMAIN raw = {} /\ OnlySelect(entry) /\ v.kind = "int"
          /\ entry.func \in {"number", "integer"} /\ SelectMode(entry) \in {"plural", "ordinal"}
       THEN Answer(Ok([kind |-> "category", rules |-> SelectMode(entry), of |-> IntText(v.n)]), c, 0)
  ELSE IF WasDynamic(raw, "select")
       THEN Answer(Ok(NullSelector), c, IF WasUnresolved(raw, "select") THEN 0 ELSE 1)
  ELSE IF entry.func = "percent" THEN SelectPercent(c, entry, v, raw)
  ELSE IF entry.func \in Rendering THEN Answer(Ok(NullSelector), c, 0)
  ELSE ProjectIfNumeric(entry, Apply(c, entry, v, raw, TRUE))

(* project_select: the selector of a value that was resolved before *)
Fallbacks == {"fallback", "functionFallback"}
NoOptions == [key \in {} |-> None]
ProjectSelect(c, entry, v) ==
  IF entry = None THEN Answer(Fail(UnknownFunction), c, 0)
  ELSE IF entry.func = "percent" /\ Selectable(v)
       THEN Answer(Project(v.selection), c, 0)
  ELSE IF entry.func \in Numeric /\ v.kind \in Fallbacks THEN Answer(Ok(NullSelector), c, 0)
  ELSE IF entry.func \in Numeric /\ v.kind = "number" /\ v.selection # "none" THEN Answer(Project(v), c, 0)
  ELSE CallSelect(c, entry, v, NoOptions)

(* format_default: values the host does not render are left to the caller *)
Shown(a) == IF Failed(a.result) THEN [a EXCEPT !.result = Ok(None)] ELSE a
FormatDefault(c, v) ==
  LET parsed == ParseNumber(v) IN
  IF v.kind = "number" THEN Shown(Render(c, v))
  ELSE IF v.kind = "formatted" THEN Answer(Ok(v.shown), c, 0)
  ELSE IF v.kind = "string" THEN Answer(Ok([text |-> v.text, dir |-> v.dir]), c, 0)
  ELSE IF v.kind \notin {"int", "float", "nonfinite"} \/ Failed(parsed) THEN Answer(Ok(None), c, 0)
  ELSE Shown(Render(c, ResolvedNumber(parsed.value, NumberDefault, "none", FALSE)))

(* The fields of a formatted value are made from its source once more:       *)
(* format_resolved_datetime_parts, format_resolved_currency_parts, and for a  *)
(* percentage its number.  Other formatted values have none.                  *)
SourceMoment(v) == ParsedMoment(TextOf(v).date)
MomentParts(c, func, options, m) == IF Failed(m) THEN Answer(m, c, 0) ELSE FormatMoment(c, func, options, m.value)
FormattedParts(c, v) ==
  IF "datetime" \in DOMAIN v THEN MomentParts(c, v.datetime.func, v.datetime.options, SourceMoment(v))
  ELSE IF "currency" \in DOMAIN v
       THEN Written(Cached(c, "currency", v.currency, HostFailure), DecimalOf(ParseNumber(v).value))
  ELSE IF Selectable(v) THEN Render(c, AsPercent(v.source))
  ELSE Answer(Ok(<< >>), c, 0)

(* NumberFormatOptions::DEFAULT and NumberValue::Integer *)
PlainInteger(v) == v.kind = "number" /\ v.format = NumberDefault /\ v.number.is = "integer"
(* format_default_to, for a sink that takes text and for one that wants fields *)
FormatDefaultTo(c, v, structured) ==
  IF structured /\ v.kind = "formatted" THEN Shown(FormattedParts(c, v))
  ELSE IF structured /\ v.kind = "number" THEN Shown(Render(c, v))
  ELSE IF PlainInteger(v) THEN Answer(Ok([digits |-> IntText(v.number.n)]), c, 0)
  ELSE FormatDefault(c, v)

-----------------------------------------------------------------------------
Init ==
  /\ catalog \in Catalogs
  /\ value \in catalog.operands
  /\ annotations = 0
  /\ caches = NoFormatters

(* An expression of a message: its value, or the fallback of a failed call *)
Annotate(entry, raw) ==
  /\ annotations < catalog.bound
  /\ \E a \in {Call(caches, entry, value, raw)} :
       /\ value' = IF Failed(a.result) THEN [kind |-> "functionFallback"] ELSE a.result.value
       /\ caches' = a.caches
  /\ annotations' = annotations + 1
  /\ UNCHANGED catalog

(* A placeholder that is written at once; its value is not kept *)
WriteCall(entry, raw) ==
  /\ caches' = CallTo(caches, entry, value, raw).caches
  /\ UNCHANGED <<catalog, value, annotations>>

Select(entry, raw) ==
  /\ caches' = CallSelect(caches, entry, value, raw).caches
  /\ UNCHANGED <<catalog, value, annotations>>

ShowValue(structured) ==
  /\ caches' = FormatDefaultTo(caches, value, structured).caches
  /\ UNCHANGED <<catalog, value, annotations>>

(* The next expression starts from another operand, with the same host *)
NextOperand ==
  /\ value' \in catalog.operands
  /\ annotations' = 0
  /\ UNCHANGED <<catalog, caches>>

Next ==
  \/ \E entry \in catalog.entries, raw \in catalog.raw : Annotate(entry, raw) \/ WriteCall(entry, raw) \/ Select(entry, raw)
  \/ \E structured \in BOOLEAN : ShowValue(structured)
  \/ NextOperand

Spec == Init /\ [][Next]_vars

-----------------------------------------------------------------------------
Calls == catalog.entries \X catalog.raw

(***************************************************************************)
(* Whatever was formatted before, with whatever options, a call gives the  *)
(* answer a new host would give: the formatters in the caches are          *)
(* those that the request would build (BuiltinHost, IcuFormatterCache).    *)
(***************************************************************************)
HistoryIndependent ==
  /\ \A call \in Calls :
       LET Same(Method(_, _, _, _)) == Method(caches, call[1], value, call[2]).result
                                       = Method(NoFormatters, call[1], value, call[2]).result
       IN  Same(Call) /\ Same(CallTo) /\ Same(CallSelect)
  /\ \A structured \in BOOLEAN :
       FormatDefaultTo(caches, value, structured).result = FormatDefaultTo(NoFormatters, value, structured).result

(***************************************************************************)
(* A placeholder shows the same however it comes to be shown: written at    *)
(* once by call_to, or resolved by call, stored, and shown later by         *)
(* format_default_to, as a text or as fields; except that a stored integer  *)
(* without options is written as plain digits, by no locale, and that the   *)
(* hour that :time loses of a text without minutes is in its fields.        *)
(***************************************************************************)
ShownOf(a, structured) == IF Failed(a.result) THEN None
                          ELSE FormatDefaultTo(NoFormatters, a.result.value, structured).result.value
AtOnce(a, shown) == IF "written" \in DOMAIN a.result THEN a.result.written ELSE shown

AreDigits(a) == ~ Failed(a.result) /\ PlainInteger(a.result.value)
ShownInBothWays(direct, stored, hourIsLost) ==
  /\ Failed(direct.result) <=> Failed(stored.result)
  /\ AreDigits(stored) \/ \A structured \in BOOLEAN :
       ~ (structured /\ hourIsLost) => AtOnce(direct, ShownOf(direct, FALSE)) = ShownOf(stored, structured)
LosesHour(entry, v) == /\ entry # None /\ entry.func = "time"
                       /\ TextOf(v) # None /\ TextOf(v).as = "date" /\ HourIsLost(TextOf(v).date, "time")
ShownAlikeButDigits ==
  \A call \in Calls :
    ShownInBothWays(CallTo(NoFormatters, call[1], value, call[2]), Call(NoFormatters, call[1], value, call[2]),
                    LosesHour(call[1], value))

(***************************************************************************)
(* A plural selector sees the number the reader sees: the decimal that      *)
(* resolved_plural_category asks the rules about has the digits that        *)
(* rendering shows, which another code path computes from text.             *)
(***************************************************************************)
SameDigits(d, e) == Canonical(d.int) = Canonical(e.int) /\ d.frac = e.frac
SeesShown(projected, shown) ==
  (~ Failed(projected) /\ projected.value.kind = "category" /\ shown # None /\ "of" \in DOMAIN shown)
  => SameDigits(projected.value.of, shown.of)

SelectionSeesWhatIsShown ==
  /\ value.kind = "number" /\ value.format.style = "decimal"
     => SeesShown(Project(value), FormatDefaultTo(NoFormatters, value, TRUE).result.value)
  /\ Selectable(value) => SeesShown(Project(value.selection), value.shown)

(***************************************************************************)
(* Selecting on a call is selecting on its value: call_select, with its     *)
(* short way for integers, agrees with project_select of what call          *)
(* resolves, so a .local in between changes nothing; and as many errors are *)
(* reported.  The exception is a `select` of :offset or :percent that is    *)
(* given by a variable.  The call takes no notice of it, so the value        *)
(* selects by its number and nothing is reported; call_select matches        *)
(* nothing, and reports a BadOption unless the variable was a fallback.     *)
(***************************************************************************)
WithoutSelect(raw) == [key \in DOMAIN raw \ {"select"} |-> raw[key]]
IgnoresSelect(entry, raw) == entry.func \in {"offset", "percent"} /\ WasDynamic(raw, "select")

Projects(entry, stored, select) ==
  ~ Failed(stored.result) =>
    /\ ProjectSelect(NoFormatters, entry, stored.result.value).result = select.result
    /\ stored.reports = select.reports
Ignores(stored, storedWithout, select, raw) ==
  /\ stored = storedWithout
  /\ stored.reports = 0
  /\ select.result = Ok(NullSelector)
  /\ select.reports = IF WasUnresolved(raw, "select") THEN 0 ELSE 1
SelectOfCallIsProjection ==
  \A entry \in catalog.entries \ {None}, raw \in catalog.raw :
    entry.func \in Numeric \cup {"percent"} =>
      IF IgnoresSelect(entry, raw)
      THEN Ignores(Call(NoFormatters, entry, value, raw), Call(NoFormatters, entry, value, WithoutSelect(raw)),
                   CallSelect(NoFormatters, entry, value, raw), raw)
      ELSE Projects(entry, Call(NoFormatters, entry, value, raw), CallSelect(NoFormatters, entry, value, raw))

(***************************************************************************)
(* The number that is shown is the number, rounded half away from zero at   *)
(* the last digit its options allow: carrying, padding, percent scaling and *)
(* the exponent work on text, and lose or add nothing.                      *)
(***************************************************************************)
Unsigned(d) == [d EXCEPT !.sign = ""]
Larger(m, n) == IF m < n THEN n ELSE m
IsHalfAway(rounded, exact, step) == -step < 2 * (rounded - exact) /\ 2 * (rounded - exact) <= step
ShowsRounded(shown, exact, places, f) ==
  /\ IF f.maxFrac # None /\ f.maxFrac < places
     THEN IsHalfAway(Units(Unsigned(shown), places), exact, TenTo[places - f.maxFrac])
     ELSE Units(Unsigned(shown), places) = exact
  /\ f.maxFrac # None => Len(shown.frac) <= f.maxFrac
  /\ f.minFrac # None => Len(shown.frac) >= f.minFrac
  /\ f.minInt # None => Len(shown.int) >= f.minInt
ShowsPower(mantissa, exp, exact, places) ==
  /\ exp >= 0 => Units(Unsigned(mantissa), places) * TenTo[exp] = exact
  /\ exp < 0 => Units(Unsigned(mantissa), places) = exact * TenTo[-exp]
Exact(d, places, f) == (IF f.style = "percent" THEN 100 ELSE 1) * Units(Unsigned(d), places)
ShowsNumber(shown, d, f) ==
  (shown # None /\ f.minSig = None /\ f.maxSig = None) =>
    IF "of" \in DOMAIN shown
    THEN \E places \in {Larger(Len(d.frac), Len(shown.of.frac))} :
           ShowsRounded(shown.of, Exact(d, places, f), places, f)
    ELSE \E places \in {Larger(Len(d.frac), Len(shown.mantissa.frac))} :
           ShowsPower(shown.mantissa, shown.exp, Exact(d, places, f), places)
ShownIsRounded ==
  (value.kind = "number" /\ value.number.is # "nonfinite") =>
    ShowsNumber(FormatDefaultTo(NoFormatters, value, TRUE).result.value, DecimalOf(value.number), value.format)

(***************************************************************************)
(* :offset adds exactly or fails: checked_offset's sum, computed on scaled  *)
(* integers of limited width, is the sum of the numbers.                    *)
(***************************************************************************)
AdjustmentOf(opts) ==
  IF Given(opts, "add") THEN Adjustments[Get(opts, "add")] ELSE -Adjustments[Get(opts, "subtract")]
IsSum(sum, d, adjustment) ==
  /\ Len(sum.frac) <= Len(d.frac)
  /\ Units(sum, Len(d.frac)) = Units(d, Len(d.frac)) + adjustment * TenTo[Len(d.frac)]
IsSumOf(stored, before, opts) ==
  (~ Failed(stored.result) /\ before.value.is # "nonfinite") =>
    IsSum(DecimalOf(stored.result.value.number), DecimalOf(before.value), AdjustmentOf(opts))
OffsetIsExact ==
  \A entry \in catalog.entries \ {None}, raw \in catalog.raw :
    entry.func = "offset" =>
      IsSumOf(Call(NoFormatters, entry, value, raw), ParseNumber(value), Effective(entry, raw))
=============================================================================
