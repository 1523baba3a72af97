------------------------- MODULE BuiltinOptions -------------------------
(***************************************************************************)
(* The options of the builtin functions (runtime/builtin.rs): literal      *)
(* options are parsed when a catalog is indexed, variable options arrive   *)
(* with each call, and EffectiveOptions merges the two.  Names and values  *)
(* of options are those of the source.                                     *)
(***************************************************************************)
EXTENDS Decimals

CONSTANTS CanBuild(_)   \* the field sets icu_datetime's FieldSetBuilder accepts

SelectModes == {"plural", "ordinal", "exact"}

(* Option::None is no text *)
ASSUME NoneAssumption == None \notin SelectModes

Functions == {"string", "number", "integer", "percent", "currency", "offset", "test:select",
              "test:function", "test:format", "date", "time", "datetime"}
Rendering == {"currency", "date", "time", "datetime"}
Numeric == {"number", "integer", "offset"}

FieldKeys == {"year", "month", "day", "weekday", "era", "hour", "minute", "second",
              "fractionalSecondDigits", "hourCycle", "timeZoneName"}
OptionKeys == FieldKeys \cup
  {"u:dir", "u:id", "minimumFractionDigits", "maximumFractionDigits", "minimumSignificantDigits",
   "maximumSignificantDigits", "minimumIntegerDigits", "numberingSystem", "signDisplay", "currency",
   "add", "subtract", "fails", "decimalPlaces", "select", "style", "notation", "useGrouping",
   "dateStyle", "timeStyle", "length", "dateLength", "precision", "timePrecision",
   "currencyDisplay", "currencySign"}

(***************************************************************************)
(* An entry of the catalog's index: a function and its literal options, of *)
(* which those with names no builtin knows are dropped.  A name that is no *)
(* builtin has no entry.                                                   *)
(***************************************************************************)
IndexEntry(name, static) ==
  IF name \notin Functions THEN None
  ELSE [func |-> name, base |-> [key \in DOMAIN static \cap OptionKeys |-> static[key]]]

SelectMode(entry) ==
  IF entry.func \in {"number", "integer"} /\ "select" \in DOMAIN entry.base
     /\ entry.base["select"] \in SelectModes
  THEN entry.base["select"] ELSE "none"

(***************************************************************************)
(* A call's variable options, raw: for each key the text of the value (None *)
(* if its reference dangles) and whether the value is a fallback.  Options  *)
(* that are fallbacks are not iterated, but keys remember them.             *)
(***************************************************************************)
NoKey == "no string has this id"
Resolved(raw) == {key \in DOMAIN raw : ~ raw[key].fallback}
WasDynamic(raw, key) == key \in DOMAIN raw
WasUnresolved(raw, key) == key \in DOMAIN raw /\ raw[key].fallback

Effective(entry, raw) == [base |-> entry.base, raw |-> raw]
Get(opts, key) ==
  IF key \in Resolved(opts.raw) THEN opts.raw[key].text
  ELSE IF key \in DOMAIN opts.base THEN opts.base[key] ELSE None
Given(opts, key) == Get(opts, key) # None
Among(opts, key, allowed) == Given(opts, key) => Get(opts, key) \in allowed

BadOption == "BadOption"
BadOperand == "BadOperand"
DateTimeForLocale == "DateTimeFormattingForLocale"

Styles == {"short", "medium", "long", "full"}
Lengths == {"short", "medium", "long"}
Precisions == {"hour", "minute", "second"}
Widths == {"long", "short", "narrow"}
Numerals == {"numeric", "2-digit"}
Directions == {"ltr", "rtl", "auto", "inherit"}
ZoneNames == {"long", "short", "shortOffset", "longOffset", "shortGeneric", "longGeneric"}
FractionDigits == {"1", "2", "3"}
HourCycles == {"h11", "h12", "h23", "h24"}

(* validate_builtin_option_values: keys with a closed set of values *)
FieldsAmong(opts) ==
  /\ \A key \in {"weekday", "era"} : Among(opts, key, Widths)
  /\ \A key \in {"year", "day", "hour", "minute", "second"} : Among(opts, key, Numerals)
  /\ Among(opts, "month", Numerals \cup Widths)
  /\ Among(opts, "fractionalSecondDigits", FractionDigits)
  /\ Among(opts, "hourCycle", HourCycles)
  /\ Among(opts, "timeZoneName", ZoneNames)

ValidValues(func, opts) ==
  /\ Among(opts, "u:dir", Directions)
  /\ func \in {"date", "time", "datetime"} => Among(opts, "style", Styles)
  /\ func \in {"date", "datetime"} => Among(opts, "dateStyle", Styles)
  /\ func \in {"time", "datetime"} => Among(opts, "timeStyle", Styles)
  /\ func = "date" => Among(opts, "length", Lengths)
  /\ func = "time" => Among(opts, "precision", Precisions)
  /\ func = "datetime" => /\ Among(opts, "dateLength", Lengths)
                          /\ Among(opts, "timePrecision", Precisions)
                          /\ FieldsAmong(opts)
  /\ func = "currency" => /\ Among(opts, "currencyDisplay", {"narrowSymbol", "symbol", "name", "code", "never"})
                          /\ Among(opts, "currencySign", {"accounting", "standard"})

(* validate_keys and validate_builtin_option_values *)
Valid(func, opts) == NoKey \notin Resolved(opts.raw) /\ ValidValues(func, opts)

-----------------------------------------------------------------------------
(* Numbers: NumberFormatOptions and how an annotation merges its options    *)
(* into those the value has from an earlier one.                            *)
MaxFractionDigits == 20
MaxIntegerDigits == 21
MaxSignificantDigits == 21

(* What str::parse makes of the option texts in use; other texts fail *)
DigitTexts == [t \in {"0", "1", "2", "3", "20", "21", "22"} |->
  CASE t = "0" -> 0 [] t = "1" -> 1 [] t = "2" -> 2 [] t = "3" -> 3 [] t = "20" -> 20 [] t = "21" -> 21 [] t = "22" -> 22]

NumberDefault ==
  [minFrac |-> None, maxFrac |-> None, minSig |-> None, maxSig |-> None, minInt |-> None,
   numbering |-> None, style |-> "decimal", sign |-> "auto", notation |-> "standard", grouping |-> "auto"]

DigitKeys == [minFrac |-> "minimumFractionDigits", maxFrac |-> "maximumFractionDigits",
              minInt |-> "minimumIntegerDigits", minSig |-> "minimumSignificantDigits",
              maxSig |-> "maximumSignificantDigits"]
DigitRange == [minFrac |-> 0..MaxFractionDigits, maxFrac |-> 0..MaxFractionDigits,
               minInt |-> 0..MaxIntegerDigits, minSig |-> 1..MaxSignificantDigits,
               maxSig |-> 1..MaxSignificantDigits]
WordKeys == [sign |-> "signDisplay", notation |-> "notation", grouping |-> "useGrouping", style |-> "style"]
WordRange == [sign |-> {"auto", "always", "exceptZero", "negative", "never"},
              notation |-> {"standard", "scientific", "engineering"},
              grouping |-> {"auto", "always", "never", "min2"},
              style |-> {"decimal", "percent"}]
NumberingSystems == {"latn", "arab"}

(* parse_digit_option_or_inherited, parse_significant_digit_option_or_inherited *)
DigitOf(inherited, opts, field) ==
  IF Given(opts, DigitKeys[field]) THEN DigitTexts[Get(opts, DigitKeys[field])] ELSE inherited[field]
GoodDigits(opts) == \A field \in DOMAIN DigitKeys :
  Given(opts, DigitKeys[field]) => /\ Get(opts, DigitKeys[field]) \in DOMAIN DigitTexts
                                   /\ DigitTexts[Get(opts, DigitKeys[field])] \in DigitRange[field]
GoodWords(opts) == /\ \A field \in DOMAIN WordKeys : Among(opts, WordKeys[field], WordRange[field])
                   /\ Among(opts, "numberingSystem", NumberingSystems)

(* validate_digit_range_relationship *)
Ordered(min, max) == min # None /\ max # None => min <= max

(* resolve_number_format_options; :integer drops the fraction digits and the *)
(* minimum of significant digits after they have been validated              *)
MergedFormat(inherited, opts, integerOnly) ==
  LET digit(field) == DigitOf(inherited, opts, field)
      word(field) == IF Given(opts, WordKeys[field]) THEN Get(opts, WordKeys[field]) ELSE inherited[field]
  IN  IF ~ (GoodDigits(opts) /\ GoodWords(opts)) THEN [error |-> BadOption]
      ELSE IF ~ (Ordered(digit("minFrac"), digit("maxFrac")) /\ Ordered(digit("minSig"), digit("maxSig")))
      THEN [error |-> BadOption]
      ELSE [format |->
             [minFrac |-> IF integerOnly THEN None ELSE digit("minFrac"),
              maxFrac |-> IF integerOnly THEN None ELSE digit("maxFrac"),
              minSig  |-> IF integerOnly THEN None ELSE digit("minSig"),
              maxSig  |-> digit("maxSig"), minInt |-> digit("minInt"),
              numbering |-> IF Given(opts, "numberingSystem") THEN Get(opts, "numberingSystem")
                            ELSE inherited.numbering,
              style |-> word("style"), sign |-> word("sign"),
              notation |-> word("notation"), grouping |-> word("grouping")]]

(* The selection mode a :number or :integer annotation leaves on its value: *)
(* one select only, and that one literal.                                   *)
ReportsDynamicSelect(raw) == WasDynamic(raw, "select") /\ ~ WasUnresolved(raw, "select")
MergedSelection(inherited, opts) ==
  IF inherited.explicit THEN [selection |-> "invalid", reports |-> ~ WasDynamic(opts.raw, "select")]
  ELSE IF WasDynamic(opts.raw, "select") THEN [selection |-> "invalid", reports |-> FALSE]
  ELSE IF Given(opts, "select")
       THEN IF Get(opts, "select") \in SelectModes
            THEN [selection |-> Get(opts, "select"), reports |-> FALSE] ELSE [error |-> BadOption]
  ELSE [selection |-> IF inherited.selection = "none" THEN "plural" ELSE inherited.selection, reports |-> FALSE]

-----------------------------------------------------------------------------
(* Dates and times *)
StyleBucket(style) == CASE style = "short" -> "short" [] style \in {"long", "full"} -> "long" [] OTHER -> "medium"

FirstGiven(opts, keys) ==
  IF \E i \in DOMAIN keys : Given(opts, keys[i])
  THEN Get(opts, keys[CHOOSE i \in DOMAIN keys : Given(opts, keys[i]) /\ \A j \in 1..i - 1 : ~ Given(opts, keys[j])])
  ELSE None

DateStyle(opts, datetime) ==
  StyleBucket(FirstGiven(opts, <<IF datetime THEN "dateLength" ELSE "length", "dateStyle", "style">>))

TimePrecisionOf(opts, datetime) ==
  LET precision == Get(opts, IF datetime THEN "timePrecision" ELSE "precision")
  IN  IF precision \in Precisions THEN precision
      ELSE IF FirstGiven(opts, <<"timeStyle", "style">>) \in {"medium", "long", "full"} THEN "second" ELSE "minute"

HasFields(opts) == \E key \in FieldKeys : Given(opts, key)
StyleAndFields(opts) == (Given(opts, "dateStyle") \/ Given(opts, "timeStyle")) /\ HasFields(opts)

DateFieldSets ==   \* the values of DateFields
  {{}, {"day"}, {"month", "day"}, {"year", "month", "day"}, {"day", "weekday"}, {"month", "day", "weekday"},
   {"year", "month", "day", "weekday"}, {"weekday"}, {"month"}, {"year", "month"}, {"year"}}

FieldPrecision(opts) ==
  IF Given(opts, "fractionalSecondDigits") THEN Get(opts, "fractionalSecondDigits")
  ELSE IF Given(opts, "second") THEN "second"
  ELSE IF Given(opts, "minute") THEN "minute"
  ELSE IF Given(opts, "hour") THEN "hour" ELSE None

(* resolve_datetime_field_set *)
FieldSet(opts) ==
  LET date == {key \in {"year", "month", "day", "weekday"} : Given(opts, key)}
      asked == {Get(opts, key) : key \in FieldKeys \ {"fractionalSecondDigits", "hourCycle", "timeZoneName"}}
      fields == [date |-> date, time |-> FieldPrecision(opts),
                 length |-> IF "long" \in asked THEN "long" ELSE IF "short" \in asked THEN "medium" ELSE "short",
                 aligned |-> "2-digit" \in asked,
                 year |-> IF Given(opts, "era") THEN "withEra"
                          ELSE IF Get(opts, "year") = "numeric" THEN "full" ELSE None,
                 zone |-> Get(opts, "timeZoneName")]
  IN  IF date \notin DateFieldSets \/ (Given(opts, "era") /\ ~ Given(opts, "year"))
      THEN [error |-> DateTimeForLocale]
      ELSE IF date = {} /\ fields.time = None /\ fields.zone = None THEN [error |-> BadOption]
      ELSE IF Get(opts, "hourCycle") = "h24" \/ ~ CanBuild(fields) THEN [error |-> DateTimeForLocale]
      ELSE [fields |-> fields, cycle |-> Get(opts, "hourCycle")]
=============================================================================
