------------------------- MODULE BuiltinHostProofs -------------------------
(***************************************************************************)
(* What the built-in host promises of every operand, option and history.     *)
(*                                                                           *)
(* Its caches are not seen: every answer is the one a new host would give.   *)
(* The invariant is that a slot holds the formatter its key requests, and no *)
(* other (Sound); each operation keeps it, and answers alike over any caches *)
(* for which it holds.  Its values stay typed, and a percentage shows the    *)
(* number it was made from (RichValue), from which follow what selectors      *)
(* see, what offsets add, and that placeholders show alike.                  *)
(***************************************************************************)
EXTENDS BuiltinHost, DecimalsProofs

KeyedCaches == {"decimal", "percent", "currency", "fields"}
CacheNames == KeyedCaches \cup {"date", "time", "datetime"}

\* A formatter in a cache is the one that the request is answered with.
Requested(formatter, cache, request) ==
  /\ formatter = [by |-> cache, for |-> request]
  /\ Supports([cache |-> cache, key |-> request])
KeyedSlot(slot, cache) == slot # None => Requested(slot.formatter, cache, slot.key)
Slot(formatter, cache, request) == formatter # None => Requested(formatter, cache, request)

Sound(c) ==
  /\ c = [cache \in CacheNames |-> c[cache]]
  /\ \A cache \in KeyedCaches : KeyedSlot(c[cache], cache)
  /\ c["date"] = [s \in Lengths |-> c["date"][s]]
  /\ \A s \in Lengths : Slot(c["date"][s], "date", [date |-> s])
  /\ c["time"] = [p \in Precisions |-> c["time"][p]]
  /\ \A p \in Precisions : Slot(c["time"][p], "time", [time |-> p])
  /\ c["datetime"] = [sp \in Lengths \X Precisions |-> c["datetime"][sp]]
  /\ \A s \in Lengths, p \in Precisions :
       Slot(c["datetime"][<<s, p>>], "datetime", [date |-> s, time |-> p])

\* Answer a, over caches that are sound, says what b says, and leaves them sound.
IsAnswer(a) == a = [result |-> a.result, caches |-> a.caches, reports |-> a.reports]
Alike(a, b) ==
  /\ IsAnswer(a) /\ IsAnswer(b)
  /\ a.result = b.result
  /\ Sound(a.caches)

-----------------------------------------------------------------------------
(* Formatters. *)

LEMMA NewIsSound == Sound(NoFormatters)
BY DEF Sound, NoFormatters, CacheNames, KeyedCaches, KeyedSlot, Slot

LEMMA AnswersAlike ==
  ASSUME NEW c, Sound(c), NEW r, NEW reports
  PROVE  Alike(Answer(r, c, reports), Answer(r, NoFormatters, reports))
BY DEF Alike, IsAnswer, Answer

LEMMA CachedAlike ==
  ASSUME NEW c, Sound(c), NEW cache \in KeyedCaches, NEW key, NEW failure
  PROVE  Alike(Cached(c, cache, key, failure), Cached(NoFormatters, cache, key, failure))
<1> DEFINE new == [by |-> cache, for |-> key]
           kept == [c EXCEPT ![cache] = [key |-> key, formatter |-> new]]
<1>1. ~ SameKey(NoFormatters[cache], key)
  BY DEF NoFormatters, SameKey, KeyedCaches
<1>2. SameKey(c[cache], key) => Requested(c[cache].formatter, cache, key)
  BY DEF SameKey, Sound, KeyedSlot
<1>3. Supports([cache |-> cache, key |-> key]) => Sound(kept)
  <2> SUFFICES ASSUME Supports([cache |-> cache, key |-> key]) PROVE Sound(kept)
    OBVIOUS
  <2>1. kept = [n \in CacheNames |-> IF n = cache THEN [key |-> key, formatter |-> new] ELSE c[n]]
    BY DEF Sound, CacheNames
  <2>2. \A n \in CacheNames \ {cache} : kept[n] = c[n]
    BY <2>1
  <2>3. kept[cache] = [key |-> key, formatter |-> new]
    BY <2>1 DEF CacheNames
  <2>4. \A n \in KeyedCaches : KeyedSlot(kept[n], n)
    BY <2>2, <2>3 DEF KeyedSlot, Requested, Sound, CacheNames
  <2>5. /\ kept["date"] = c["date"] /\ kept["time"] = c["time"] /\ kept["datetime"] = c["datetime"]
    BY <2>2 DEF KeyedCaches, CacheNames
  <2>6. kept = [n \in CacheNames |-> kept[n]]
    BY <2>1
  <2> HIDE DEF kept
  <2> QED BY <2>4, <2>5, <2>6 DEF Sound
<1> QED BY <1>1, <1>2, <1>3 DEF Cached, Alike, IsAnswer, Answer, Ok, Fail, Requested

LEMMA SlottedAlike ==
  ASSUME NEW c, Sound(c), NEW failure, NEW cache, NEW slot, NEW request,
         \/ cache = "date" /\ slot \in Lengths /\ request = [date |-> slot]
         \/ cache = "time" /\ slot \in Precisions /\ request = [time |-> slot]
         \/ \E s \in Lengths, p \in Precisions :
              cache = "datetime" /\ slot = <<s, p>> /\ request = [date |-> s, time |-> p]
  PROVE  Alike(Slotted(c, cache, slot, request, failure), Slotted(NoFormatters, cache, slot, request, failure))
<1> DEFINE new == [by |-> cache, for |-> request]
           kept == [c EXCEPT ![cache][slot] = new]
<1>1. NoFormatters[cache][slot] = None
  BY DEF NoFormatters
<1>2. Slot(c[cache][slot], cache, request)
  BY DEF Sound
<1>3. Supports([cache |-> cache, key |-> request]) => Sound(kept)
  <2> SUFFICES ASSUME Supports([cache |-> cache, key |-> request]) PROVE Sound(kept)
    OBVIOUS
  <2>1. kept = [n \in CacheNames |-> IF n = cache THEN [c[cache] EXCEPT ![slot] = new] ELSE c[n]]
    BY DEF Sound, CacheNames
  <2>2. \A n \in CacheNames \ {cache} : kept[n] = c[n]
    BY <2>1
  <2>3. kept[cache] = [c[cache] EXCEPT ![slot] = new]
    BY <2>1 DEF CacheNames
  <2>4. kept = [n \in CacheNames |-> kept[n]]
    BY <2>1
  <2>5. Slot(new, cache, request)
    BY DEF Slot, Requested
  <2> HIDE DEF kept, new
  <2>6. CASE cache = "date" /\ slot \in Lengths /\ request = [date |-> slot]
    BY <2>2, <2>3, <2>4, <2>5, <2>6 DEF Sound, KeyedCaches, CacheNames
  <2>7. CASE cache = "time" /\ slot \in Precisions /\ request = [time |-> slot]
    BY <2>2, <2>3, <2>4, <2>5, <2>7 DEF Sound, KeyedCaches, CacheNames
  <2>8. CASE \E s \in Lengths, p \in Precisions :
               cache = "datetime" /\ slot = <<s, p>> /\ request = [date |-> s, time |-> p]
    <3>1. PICK s \in Lengths, p \in Precisions :
            cache = "datetime" /\ slot = <<s, p>> /\ request = [date |-> s, time |-> p]
      BY <2>8
    <3>2. kept["datetime"] = [sp \in Lengths \X Precisions |-> kept["datetime"][sp]]
      BY <2>3, <3>1 DEF Sound
    <3>3. \A t \in Lengths, q \in Precisions :
            Slot(kept["datetime"][<<t, q>>], "datetime", [date |-> t, time |-> q])
      BY <2>3, <2>5, <3>1 DEF Sound
    <3>4. \A n \in CacheNames \ {"datetime"} : kept[n] = c[n]
      BY <2>2, <3>1
    <3> QED BY <2>4, <3>2, <3>3, <3>4 DEF Sound, KeyedCaches, CacheNames
  <2> QED BY <2>6, <2>7, <2>8
<1> QED BY <1>1, <1>2, <1>3 DEF Slotted, Alike, IsAnswer, Answer, Ok, Fail, Slot, Requested

LEMMA WrittenAlike ==
  ASSUME NEW a, NEW b, Alike(a, b), NEW x
  PROVE  Alike(Written(a, x), Written(b, x))
BY DEF Alike, IsAnswer, Written

-----------------------------------------------------------------------------
(* Rendering. *)

LEMMA RenderAlike ==
  ASSUME NEW c, Sound(c), NEW number
  PROVE  Alike(Render(c, number), Render(NoFormatters, number))
<1>1. \A format, shown : Alike(RenderWith(c, format, shown), RenderWith(NoFormatters, format, shown))
  BY CachedAlike, WrittenAlike DEF RenderWith, KeyedCaches
<1>2. \A format, science :
        Alike(RenderScientific(c, format, science), RenderScientific(NoFormatters, format, science))
  BY AnswersAlike DEF RenderScientific
<1>3. \A format, d : Alike(RenderDecimal(c, format, d), RenderDecimal(NoFormatters, format, d))
  BY <1>1, <1>2 DEF RenderDecimal
<1> QED BY <1>3, AnswersAlike DEF Render

LEMMA RenderCurrencyAlike ==
  ASSUME NEW c, Sound(c), NEW v, NEW opts
  PROVE  Alike(RenderCurrency(c, v, opts), RenderCurrency(NoFormatters, v, opts))
BY CachedAlike, WrittenAlike, AnswersAlike DEF RenderCurrency, CurrencyWritten, KeyedCaches

\* The options a moment is formatted by, as the source's types have them.
MomentFunctions == {"date", "time", "datetime"}
TypedOptions(func, options) ==
  CASE func = "date" -> options.date \in Lengths
    [] func = "time" -> options.time \in Precisions
    [] func = "datetime" ->
         "fields" \notin DOMAIN options =>
           \E s \in Lengths, p \in Precisions : options = [date |-> s, time |-> p]
    [] OTHER -> FALSE

LEMMA OptionsAreTyped ==
  ASSUME NEW func \in MomentFunctions, NEW opts, ~ Failed(MomentOptions(func, opts))
  PROVE  TypedOptions(func, MomentOptions(func, opts).value)
<1>1. \A datetime \in BOOLEAN : DateStyle(opts, datetime) \in Lengths
  BY DEF DateStyle, StyleBucket, Lengths
<1>2. \A datetime \in BOOLEAN : TimePrecisionOf(opts, datetime) \in Precisions
  BY DEF TimePrecisionOf, Precisions
<1>3. Failed(FieldSet(opts)) \/ "fields" \in DOMAIN FieldSet(opts)
  BY DEF FieldSet, Failed
<1> QED BY <1>1, <1>2, <1>3 DEF TypedOptions, MomentOptions, MomentFunctions, OkFields, Ok, Failed

LEMMA FormatMomentAlike ==
  ASSUME NEW c, Sound(c), NEW func, NEW options, NEW m, TypedOptions(func, options)
  PROVE  Alike(FormatMoment(c, func, options, m), FormatMoment(NoFormatters, func, options, m))
<1>1. CASE func = "date"
  BY <1>1, SlottedAlike, WrittenAlike DEF FormatMoment, TypedOptions
<1>2. CASE func = "time"
  BY <1>2, SlottedAlike, WrittenAlike DEF FormatMoment, TypedOptions
<1>3. CASE func = "datetime" /\ "fields" \in DOMAIN options
  BY <1>3, CachedAlike, WrittenAlike, AnswersAlike DEF FormatMoment, KeyedCaches
<1>4. CASE func = "datetime" /\ "fields" \notin DOMAIN options
  <2>1. PICK s \in Lengths, p \in Precisions : options = [date |-> s, time |-> p]
    BY <1>4 DEF TypedOptions
  <2>2. Alike(Slotted(c, "datetime", <<s, p>>, options, DateFailure(func)),
              Slotted(NoFormatters, "datetime", <<s, p>>, options, DateFailure(func)))
    BY <2>1, SlottedAlike
  <2> QED BY <1>4, <2>1, <2>2, WrittenAlike DEF FormatMoment
<1> QED BY <1>1, <1>2, <1>3, <1>4 DEF TypedOptions

LEMMA RenderMomentAlike ==
  ASSUME NEW c, Sound(c), NEW func \in MomentFunctions, NEW v, NEW opts
  PROVE  Alike(RenderMoment(c, func, v, opts), RenderMoment(NoFormatters, func, v, opts))
<1> DEFINE options == MomentOptions(func, opts)
<1>1. ~ Failed(options) =>
        \A m : Alike(FormatMoment(c, func, options.value, m), FormatMoment(NoFormatters, func, options.value, m))
  BY OptionsAreTyped, FormatMomentAlike
<1> HIDE DEF options
<1> QED BY <1>1, AnswersAlike DEF RenderMoment, MomentWritten, options

LEMMA RenderIntoAlike ==
  ASSUME NEW c, Sound(c), NEW func \in Rendering, NEW v, NEW opts
  PROVE  Alike(RenderInto(c, func, v, opts), RenderInto(NoFormatters, func, v, opts))
BY RenderCurrencyAlike, RenderMomentAlike DEF RenderInto, Rendering, MomentFunctions

-----------------------------------------------------------------------------
(* Calls. *)

LEMMA ResolvingAlike ==
  ASSUME NEW a, NEW b, Alike(a, b), NEW resolved
  PROVE  Alike(Resolving(a, resolved), Resolving(b, resolved))
BY DEF Alike, IsAnswer, Resolving

LEMMA ResolveRenderedAlike ==
  ASSUME NEW c, Sound(c), NEW func \in Rendering, NEW v, NEW opts
  PROVE  Alike(ResolveRendered(c, func, v, opts), ResolveRendered(NoFormatters, func, v, opts))
BY RenderIntoAlike, ResolvingAlike DEF ResolveRendered, FormattedAs, Alike

LEMMA ApplyPercentAlike ==
  ASSUME NEW c, Sound(c), NEW v, NEW opts
  PROVE  Alike(ApplyPercent(c, v, opts), ApplyPercent(NoFormatters, v, opts))
BY RenderAlike, ResolvingAlike, AnswersAlike DEF ApplyPercent, PercentRendered, PercentShown, Alike

LEMMA ApplyAlike ==
  ASSUME NEW c, Sound(c), NEW entry, entry.func \in Functions, NEW v, NEW raw, NEW selecting
  PROVE  Alike(Apply(c, entry, v, raw, selecting), Apply(NoFormatters, entry, v, raw, selecting))
<1>1. \A opts : Alike(ApplyNumber(c, entry, v, opts), ApplyNumber(NoFormatters, entry, v, opts))
  BY AnswersAlike DEF ApplyNumber, ReportingSelect
<1> QED BY <1>1, AnswersAlike, ApplyPercentAlike, ResolveRenderedAlike DEF Apply, Functions, Rendering

LEMMA CallAlike ==
  ASSUME NEW c, Sound(c), NEW entry, entry # None => entry.func \in Functions, NEW v, NEW raw
  PROVE  Alike(Call(c, entry, v, raw), Call(NoFormatters, entry, v, raw))
BY AnswersAlike, ApplyAlike DEF Call

LEMMA WroteAlike ==
  ASSUME NEW a, NEW b, Alike(a, b)
  PROVE  Alike(Wrote(a), Wrote(b))
BY DEF Alike, IsAnswer, Wrote

LEMMA CallToAlike ==
  ASSUME NEW c, Sound(c), NEW entry, entry # None => entry.func \in Functions, NEW v, NEW raw
  PROVE  Alike(CallTo(c, entry, v, raw), CallTo(NoFormatters, entry, v, raw))
<1>1. \A cache \in KeyedCaches : \A key, x :
        Alike(Wrote(Written(Cached(c, cache, key, HostFailure), x)),
              Wrote(Written(Cached(NoFormatters, cache, key, HostFailure), x)))
  BY CachedAlike, WrittenAlike, WroteAlike
<1>2. \A func \in Rendering : \A opts :
        Alike(Wrote(RenderInto(c, func, v, opts)), Wrote(RenderInto(NoFormatters, func, v, opts)))
  BY RenderIntoAlike, WroteAlike
<1> QED BY <1>1, <1>2, AnswersAlike, CallAlike DEF CallTo, KeyedCaches

LEMMA CallSelectAlike ==
  ASSUME NEW c, Sound(c), NEW entry, entry # None => entry.func \in Functions, NEW v, NEW raw
  PROVE  Alike(CallSelect(c, entry, v, raw), CallSelect(NoFormatters, entry, v, raw))
<1>1. \A a, b : Alike(a, b) => Alike(ProjectIfNumeric(entry, a), ProjectIfNumeric(entry, b))
  BY DEF Alike, IsAnswer, ProjectIfNumeric, ProjectAnswer
<1>2. Alike(SelectPercent(c, entry, v, raw), SelectPercent(NoFormatters, entry, v, raw))
  BY AnswersAlike DEF SelectPercent
<1> QED BY <1>1, <1>2, AnswersAlike, ApplyAlike DEF CallSelect

-----------------------------------------------------------------------------
(* Values: what a formatted one remembers of its presentation is typed. *)

TypedMoment(moment) == TypedOptions(moment.func, moment.options)
TypedValue(v) ==
  /\ "kind" \in DOMAIN v
  /\ v.kind = "formatted" /\ "datetime" \in DOMAIN v => TypedMoment(v.datetime)

LEMMA RenderedIsTyped ==
  ASSUME NEW c, Sound(c), NEW func \in Rendering, NEW v, NEW opts,
         ~ Failed(ResolveRendered(c, func, v, opts).result)
  PROVE  TypedValue(ResolveRendered(c, func, v, opts).result.value)
<1> DEFINE a == RenderInto(c, func, v, opts)
<1>1. IsAnswer(a)
  BY RenderIntoAlike DEF Alike
<1>2. ~ Failed(a.result)
  BY <1>1 DEF ResolveRendered, FormattedAs, Resolving
<1>3. func # "currency" => TypedOptions(func, MomentOptions(func, opts).value)
  <2> SUFFICES ASSUME func # "currency" PROVE ~ Failed(MomentOptions(func, opts))
    BY OptionsAreTyped DEF Rendering, MomentFunctions
  <2> QED BY <1>2 DEF RenderInto, RenderMoment, MomentWritten, Answer, Fail, Failed
<1> HIDE DEF a
<1> QED BY <1>1, <1>2, <1>3 DEF ResolveRendered, FormattedAs, Resolving, a, IsAnswer,
                                FormattedMoment, FormattedCurrency, Ok, TypedValue, TypedMoment

LEMMA CallIsTyped ==
  ASSUME NEW c, Sound(c), NEW entry, entry # None => entry.func \in Functions, NEW v, TypedValue(v), NEW raw,
         ~ Failed(Call(c, entry, v, raw).result)
  PROVE  TypedValue(Call(c, entry, v, raw).result.value)
<1> DEFINE opts == Effective(entry, raw)
           Typed(a) == ~ Failed(a.result) => TypedValue(a.result.value)
<1>1. TypedValue(ResolveString(v, opts))
  BY DEF ResolveString, String, TypedValue
<1>2. \A n, format, selection, explicit : TypedValue(ResolvedNumber(n, format, selection, explicit))
  BY DEF ResolvedNumber, TypedValue
<1>3. Typed(ApplyNumber(c, entry, v, opts))
  BY <1>2 DEF ApplyNumber, ReportingSelect, ResolveNumber, ResolveInheriting, NumberOf, Answer, Ok, Fail, Failed
<1>4. Typed(ApplyPercent(c, v, opts))
  <2>1. \A number : IsAnswer(Render(c, number))
    BY RenderAlike DEF Alike
  <2> QED BY <2>1 DEF ApplyPercent, PercentRendered, PercentShown, Resolving, IsAnswer, FormattedNumber, Answer,
                      Ok, Failed, TypedValue
<1>5. Typed(Answer(ResolveOffset(v, opts), c, 0))
  BY <1>2 DEF ResolveOffset, OffsetInheriting, OffsetOf, Answer, Ok, Fail, Failed
<1>6. \A selecting : Typed(Answer(TestSelect(v, opts, selecting), c, 0))
  BY DEF TestSelect, Answer, Ok, Fail, Failed, TypedValue
<1>7. Typed(Answer(TestFunction(v, opts), c, 0))
  BY DEF TestFunction, Answer, Ok, Fail, Failed, TypedValue
<1>8. \A func \in Rendering : Typed(ResolveRendered(c, func, v, opts))
  BY RenderedIsTyped
<1>9. entry # None => Typed(Apply(c, entry, v, raw, FALSE))
  <2> HIDE DEF opts
  <2> SUFFICES ASSUME entry # None PROVE Typed(Apply(c, entry, v, raw, FALSE))
    OBVIOUS
  <2>1. Typed(Answer(Ok(ResolveString(v, opts)), c, 0))
    BY <1>1 DEF Answer, Ok
  <2>2. \A e : Typed(Answer(Fail(e), c, 0))
    BY DEF Answer, Fail, Failed
  <2> HIDE DEF Typed
  <2> QED BY <1>3, <1>4, <1>5, <1>6, <1>7, <1>8, <2>1, <2>2 DEF Apply, Functions, Rendering, opts
<1>10. Typed(Answer(Ok(IntegerNumber(v)), c, 0))
  BY <1>2 DEF IntegerNumber, Answer, Ok
<1>11. Typed(Answer(Fail(UnknownFunction), c, 0))
  BY DEF Answer, Fail, Failed
<1>12. Typed(Call(c, entry, v, raw))
  <2> HIDE DEF Typed
  <2> QED BY <1>9, <1>10, <1>11 DEF Call
<1> QED BY <1>12

-----------------------------------------------------------------------------
(* Showing a value. *)

LEMMA ShownAlike ==
  ASSUME NEW a, NEW b, Alike(a, b)
  PROVE  Alike(Shown(a), Shown(b))
BY DEF Alike, IsAnswer, Shown

LEMMA FormatDefaultAlike ==
  ASSUME NEW c, Sound(c), NEW v
  PROVE  Alike(FormatDefault(c, v), FormatDefault(NoFormatters, v))
<1>1. \A number : Alike(Shown(Render(c, number)), Shown(Render(NoFormatters, number)))
  BY RenderAlike, ShownAlike
<1> QED BY <1>1, AnswersAlike DEF FormatDefault

LEMMA FormattedPartsAlike ==
  ASSUME NEW c, Sound(c), NEW v, v.kind = "formatted", TypedValue(v)
  PROVE  Alike(FormattedParts(c, v), FormattedParts(NoFormatters, v))
<1>1. CASE "datetime" \in DOMAIN v
  BY <1>1, FormatMomentAlike, AnswersAlike DEF FormattedParts, MomentParts, TypedValue, TypedMoment
<1>2. CASE "datetime" \notin DOMAIN v /\ "currency" \in DOMAIN v
  BY <1>2, CachedAlike, WrittenAlike DEF FormattedParts, KeyedCaches
<1>3. CASE "datetime" \notin DOMAIN v /\ "currency" \notin DOMAIN v
  BY <1>3, RenderAlike, AnswersAlike DEF FormattedParts
<1> QED BY <1>1, <1>2, <1>3

LEMMA FormatDefaultToAlike ==
  ASSUME NEW c, Sound(c), NEW v, TypedValue(v), NEW structured
  PROVE  Alike(FormatDefaultTo(c, v, structured), FormatDefaultTo(NoFormatters, v, structured))
BY FormattedPartsAlike, ShownAlike, RenderAlike, AnswersAlike, FormatDefaultAlike DEF FormatDefaultTo

-----------------------------------------------------------------------------
HostInv == catalog \in Catalogs /\ Sound(caches) /\ TypedValue(value)

LEMMA OperandsAreTyped ==
  ASSUME NEW c \in Catalogs, NEW v \in c.operands
  PROVE  TypedValue(v)
BY CatalogsAssumption DEF TypedValue, IsOperand, Contentless

LEMMA EntriesAreBuiltins ==
  ASSUME NEW c \in Catalogs, NEW entry \in c.entries, entry # None
  PROVE  entry.func \in Functions
BY CatalogsAssumption

LEMMA HostInvHolds == Spec => []HostInv
<1>1. Init => HostInv
  BY NewIsSound, OperandsAreTyped DEF Init, HostInv
<1>2. HostInv /\ [Next]_vars => HostInv'
  <2> SUFFICES ASSUME HostInv, [Next]_vars PROVE HostInv'
    OBVIOUS
  <2>1. ASSUME NEW entry \in catalog.entries, NEW raw \in catalog.raw, Annotate(entry, raw)
        PROVE  HostInv'
    <3>1. PICK a \in {Call(caches, entry, value, raw)} :
            /\ value' = IF Failed(a.result) THEN [kind |-> "functionFallback"] ELSE a.result.value
            /\ caches' = a.caches
      BY <2>1 DEF Annotate
    <3>2. entry # None => entry.func \in Functions
      BY EntriesAreBuiltins DEF HostInv
    <3>3. Sound(a.caches)
      BY <3>2, CallAlike DEF HostInv, Alike
    <3>4. TypedValue(value')
      BY <3>1, <3>2, CallIsTyped DEF HostInv, TypedValue
    <3> QED BY <2>1, <3>1, <3>3, <3>4 DEF HostInv, Annotate
  <2>2. ASSUME NEW entry \in catalog.entries, NEW raw \in catalog.raw, WriteCall(entry, raw)
        PROVE  HostInv'
    BY <2>2, EntriesAreBuiltins, CallToAlike DEF WriteCall, HostInv, Alike
  <2>3. ASSUME NEW entry \in catalog.entries, NEW raw \in catalog.raw, Select(entry, raw)
        PROVE  HostInv'
    BY <2>3, EntriesAreBuiltins, CallSelectAlike DEF Select, HostInv, Alike
  <2>4. ASSUME NEW structured \in BOOLEAN, ShowValue(structured)
        PROVE  HostInv'
    BY <2>4, FormatDefaultToAlike DEF ShowValue, HostInv, Alike
  <2>5. CASE NextOperand
    BY <2>5, OperandsAreTyped DEF NextOperand, HostInv
  <2>6. CASE UNCHANGED vars
    BY <2>6 DEF vars, HostInv
  <2> QED BY <2>1, <2>2, <2>3, <2>4, <2>5, <2>6 DEF Next
<1> QED BY <1>1, <1>2, PTL DEF Spec

(***************************************************************************)
(* For every catalog, operand, option and ICU: what was formatted before     *)
(* does not change an answer (IcuFormatterCache).                            *)
(***************************************************************************)
THEOREM CachesAreNotSeen == Spec => []HistoryIndependent
<1>1. HostInv => HistoryIndependent
  <2> SUFFICES ASSUME HostInv PROVE HistoryIndependent
    OBVIOUS
  <2>1. ASSUME NEW call \in Calls
        PROVE  /\ Call(caches, call[1], value, call[2]).result = Call(NoFormatters, call[1], value, call[2]).result
               /\ CallTo(caches, call[1], value, call[2]).result
                    = CallTo(NoFormatters, call[1], value, call[2]).result
               /\ CallSelect(caches, call[1], value, call[2]).result
                    = CallSelect(NoFormatters, call[1], value, call[2]).result
    BY EntriesAreBuiltins, CallAlike, CallToAlike, CallSelectAlike DEF HostInv, Alike, Calls
  <2>2. \A structured \in BOOLEAN :
          FormatDefaultTo(caches, value, structured).result = FormatDefaultTo(NoFormatters, value, structured).result
    BY FormatDefaultToAlike DEF HostInv, Alike
  <2> QED BY <2>1, <2>2 DEF HistoryIndependent
<1> QED BY <1>1, HostInvHolds, PTL

-----------------------------------------------------------------------------
(* Selecting: call_select and project_select of what call resolves. *)

\* Without options a number keeps the format it has.
LEMMA FormatIsKept ==
  ASSUME NEW opts, NEW integerOnly \in BOOLEAN,
         \A key \in OptionKeys : key # "select" => ~ Given(opts, key)
  PROVE  MergedFormat(NumberDefault, opts, integerOnly) = [format |-> NumberDefault]
<1>1. \A field \in DOMAIN DigitKeys : ~ Given(opts, DigitKeys[field])
  BY DEF DigitKeys, OptionKeys
<1>2. \A field \in DOMAIN WordKeys : ~ Given(opts, WordKeys[field])
  BY DEF WordKeys, OptionKeys
<1>3. ~ Given(opts, "numberingSystem")
  BY DEF OptionKeys
<1>4. GoodDigits(opts) /\ GoodWords(opts)
  BY <1>1, <1>2, <1>3 DEF GoodDigits, GoodWords, Among
<1>5. \A field \in DOMAIN DigitKeys : DigitOf(NumberDefault, opts, field) = NumberDefault[field]
  BY <1>1 DEF DigitOf
<1>6. \A field \in {"minFrac", "maxFrac", "minSig", "maxSig", "minInt"} :
        DigitOf(NumberDefault, opts, field) = None
  BY <1>5 DEF DigitKeys, NumberDefault
<1>7. \A field \in {"style", "sign", "notation", "grouping"} : ~ Given(opts, WordKeys[field])
  BY <1>2 DEF WordKeys
<1> QED BY <1>3, <1>4, <1>6, <1>7 DEF MergedFormat, Ordered, NumberDefault

\* The category of an integer without a format is asked for the integer.
LEMMA IntegerProjects ==
  ASSUME NEW n, NEW mode \in {"plural", "ordinal"}, NEW explicit
  PROVE  Project(ResolvedNumber(Integer(n), NumberDefault, mode, explicit))
           = Ok([kind |-> "category", rules |-> mode, of |-> IntText(n)])
BY DEF Project, ResolvedNumber, Integer, NumberDefault, Category, PluralOperand, DecimalOf, Ordered,
       RoundedAfter, Padded, Ok, Fail, Failed

(* The functions that read the select option. *)
Choosing == {"number", "integer"}

\* What :number and :integer make of an integer, if at most select is given.
LEMMA IntegerCalled ==
  ASSUME NEW c, NEW entry, entry.func \in Choosing, OnlySelect(entry),
         NEW raw, DOMAIN raw = {}, NEW v, v.kind = "int",
         NEW mode, mode = Get(Effective(entry, raw), "select"), mode = None \/ mode \in SelectModes
  PROVE  /\ Apply(c, entry, v, raw, FALSE)
              = Answer(Ok(ResolvedNumber(Integer(v.n), NumberDefault,
                                         IF mode = None THEN "plural" ELSE mode, mode # None)), c, 0)
         /\ Apply(c, entry, v, raw, TRUE) = Apply(c, entry, v, raw, FALSE)
<1>1. PICK opts : opts = Effective(entry, raw)
  OBVIOUS
<1>2. opts.raw = raw /\ opts.base = entry.base /\ Resolved(raw) = {}
  BY <1>1 DEF Effective, Resolved
<1>3. \A key : key # "select" => ~ Given(opts, key)
  BY <1>2 DEF Given, Get, OnlySelect
<1>4. Valid(entry.func, opts)
  BY <1>2, <1>3 DEF Valid, ValidValues, Among, Choosing
<1>5. PICK integerOnly \in BOOLEAN : integerOnly = (entry.func = "integer")
  OBVIOUS
<1>6. MergedFormat(NumberDefault, opts, integerOnly) = [format |-> NumberDefault]
  BY <1>3, FormatIsKept
<1>7. Inherited(v, "none") = [format |-> NumberDefault, selection |-> "none", explicit |-> FALSE]
  BY DEF Inherited, Source
<1>8. ParseNumber(v) = Ok(Integer(v.n)) /\ AsInteger(Integer(v.n)) = Integer(v.n)
  BY DEF ParseNumber, Source, AsInteger, Integer
<1>9. MergedSelection(Inherited(v, "none"), opts)
        = [selection |-> IF mode = None THEN "plural" ELSE mode, reports |-> FALSE]
  <2>1. ~ WasDynamic(opts.raw, "select")
    BY <1>2 DEF WasDynamic
  <2>2. mode \in SelectModes => mode # None
    BY NoneAssumption
  <2>3. Get(opts, "select") = mode /\ (Given(opts, "select") <=> mode # None)
    BY <1>1 DEF Given
  <2>4. PICK inherited : inherited = Inherited(v, "none")
    OBVIOUS
  <2>5. ~ inherited.explicit
    BY <1>7, <2>4
  <2>6. inherited.selection = "none"
    BY <1>7, <2>4
  <2>7. CASE mode = None
    <3>1. MergedSelection(inherited, opts) = [selection |-> "plural", reports |-> FALSE]
      BY <2>1, <2>3, <2>5, <2>6, <2>7, Zenon DEF MergedSelection
    <3> QED BY <2>4, <2>7, <3>1
  <2>8. CASE mode \in SelectModes
    <3>1. MergedSelection(inherited, opts) = [selection |-> mode, reports |-> FALSE]
      BY <2>1, <2>2, <2>3, <2>5, <2>6, <2>8, Zenon DEF MergedSelection
    <3> QED BY <2>2, <2>4, <2>8, <3>1
  <2> QED BY <2>7, <2>8
<1>10. Given(opts, "select") <=> mode # None
  BY <1>1 DEF Given
<1>11. ResolveNumber(v, opts, integerOnly)
         = [result  |-> Ok(ResolvedNumber(Integer(v.n), NumberDefault,
                                          IF mode = None THEN "plural" ELSE mode, mode # None)),
            reports |-> 0]
  <2>1. PICK selection : selection = IF mode = None THEN "plural" ELSE mode
    OBVIOUS
  <2>2. /\ ~ Failed(Ok(Integer(v.n))) /\ Ok(Integer(v.n)).value = Integer(v.n)
        /\ ~ Failed([format |-> NumberDefault]) /\ ~ Failed([selection |-> selection, reports |-> FALSE])
    BY DEF Failed, Ok
  <2>3. (FALSE \/ Given(opts, "select")) = (mode # None)
    BY <1>10
  <2>4. PICK inherited : inherited = [format |-> NumberDefault, selection |-> "none", explicit |-> FALSE]
    OBVIOUS
  <2>5. NumberOf(Ok(Integer(v.n)), inherited, [format |-> NumberDefault],
                 [selection |-> selection, reports |-> FALSE], opts, integerOnly)
          = [result |-> Ok(ResolvedNumber(Integer(v.n), NumberDefault, selection, mode # None)), reports |-> 0]
    <3>1. inherited.explicit = FALSE
      BY <2>4
    <3>2. (inherited.explicit \/ Given(opts, "select")) = (mode # None)
      BY <2>3, <3>1
    <3>3. (IF integerOnly THEN AsInteger(Ok(Integer(v.n)).value) ELSE Ok(Integer(v.n)).value) = Integer(v.n)
      BY <1>8, <2>2
    <3> QED BY <2>2, <3>2, <3>3 DEF NumberOf
  <2>6. ResolveNumber(v, opts, integerOnly)
          = NumberOf(Ok(Integer(v.n)), inherited, [format |-> NumberDefault],
                     [selection |-> selection, reports |-> FALSE], opts, integerOnly)
    <3>1. Inherited(v, "none") = inherited /\ inherited.format = NumberDefault
      BY <1>7, <2>4
    <3>2. MergedSelection(inherited, opts) = [selection |-> selection, reports |-> FALSE]
      BY <1>9, <2>1, <3>1
    <3> QED BY <1>6, <1>8, <3>1, <3>2, Zenon DEF ResolveNumber, ResolveInheriting
  <2> QED BY <2>1, <2>5, <2>6
<1>12. ~ ReportsDynamicSelect(raw)
  BY DEF ReportsDynamicSelect, WasDynamic
<1>13. ApplyNumber(c, entry, v, opts)
         = Answer(Ok(ResolvedNumber(Integer(v.n), NumberDefault,
                                    IF mode = None THEN "plural" ELSE mode, mode # None)), c, 0)
  BY <1>2, <1>5, <1>11, <1>12 DEF ApplyNumber, ReportingSelect, Choosing
<1>14. Apply(c, entry, v, raw, FALSE) = ApplyNumber(c, entry, v, opts)
  <2>1. v.kind # "functionFallback" /\ entry.func # "string"
    BY DEF Choosing
  <2>2. CASE entry.func = "number"
    BY <1>1, <1>4, <2>1, <2>2, Zenon DEF Apply
  <2>3. CASE entry.func = "integer"
    BY <1>1, <1>4, <2>1, <2>3, SMT DEF Apply
  <2> QED BY <2>2, <2>3 DEF Choosing
<1>15. Apply(c, entry, v, raw, TRUE) = Apply(c, entry, v, raw, FALSE)
  BY DEF Apply, Choosing
<1> QED BY <1>13, <1>14, <1>15

\* What a numeric function resolves is a number that can be projected.
LEMMA NumericResolved ==
  ASSUME NEW c, NEW entry, entry.func \in Numeric, NEW v, NEW raw,
         ~ Failed(Apply(c, entry, v, raw, FALSE).result)
  PROVE  /\ Apply(c, entry, v, raw, FALSE).result.value.kind = "number"
         /\ Apply(c, entry, v, raw, FALSE).result.value.selection # "none"
         /\ Apply(c, entry, v, raw, TRUE) = Apply(c, entry, v, raw, FALSE)
         /\ IsAnswer(Apply(c, entry, v, raw, FALSE))
         /\ Apply(c, entry, v, raw, FALSE).result
              = Ok(Apply(c, entry, v, raw, FALSE).result.value)
<1>1. PICK opts : opts = Effective(entry, raw)
  OBVIOUS
<1> DEFINE Resolves(a) == /\ IsAnswer(a)
                          /\ ~ Failed(a.result) => /\ a.result.value.kind = "number"
                                                   /\ a.result.value.selection # "none"
                                                   /\ a.result = Ok(a.result.value)
<1>2. \A inherited : ~ Failed(MergedSelection(inherited, opts))
                       => MergedSelection(inherited, opts).selection # "none"
  BY DEF MergedSelection, SelectModes, Failed
<1>3. Resolves(ApplyNumber(c, entry, v, opts))
  BY <1>2 DEF ApplyNumber, ReportingSelect, ResolveNumber, ResolveInheriting, NumberOf, Answer, IsAnswer,
              ResolvedNumber, Ok, Fail, Failed
<1>4. Resolves(Answer(ResolveOffset(v, opts), c, 0))
  BY DEF ResolveOffset, OffsetInheriting, OffsetOf, Answer, IsAnswer, ResolvedNumber, Ok, Fail, Failed
<1>5. \A e : Resolves(Answer(Fail(e), c, 0))
  BY DEF Answer, IsAnswer, Fail, Failed
<1>6. Resolves(Apply(c, entry, v, raw, FALSE))
  <2>1. \/ \E e : Apply(c, entry, v, raw, FALSE) = Answer(Fail(e), c, 0)
        \/ Apply(c, entry, v, raw, FALSE) = ApplyNumber(c, entry, v, opts)
        \/ Apply(c, entry, v, raw, FALSE) = Answer(ResolveOffset(v, opts), c, 0)
    <3>1. CASE v.kind = "functionFallback" \/ ~ Valid(entry.func, opts)
      BY <1>1, <3>1 DEF Apply
    <3>2. CASE v.kind # "functionFallback" /\ Valid(entry.func, opts) /\ entry.func = "offset"
      BY <1>1, <3>2 DEF Apply
    <3>3. CASE v.kind # "functionFallback" /\ Valid(entry.func, opts) /\ entry.func \in {"number", "integer"}
      BY <1>1, <3>3 DEF Apply
    <3> QED BY <3>1, <3>2, <3>3 DEF Numeric
  <2> HIDE DEF Resolves
  <2> QED BY <1>3, <1>4, <1>5, <2>1
<1>7. Apply(c, entry, v, raw, TRUE) = Apply(c, entry, v, raw, FALSE)
  BY DEF Apply, Numeric
<1> QED BY <1>6, <1>7

\* A number of which select was asked at run time selects nothing.
LEMMA DynamicResolved ==
  ASSUME NEW c, NEW entry, entry.func \in Choosing, NEW v, NEW raw, WasDynamic(raw, "select"),
         ~ Failed(Apply(c, entry, v, raw, FALSE).result)
  PROVE  /\ Apply(c, entry, v, raw, FALSE).result.value.selection = "invalid"
         /\ Apply(c, entry, v, raw, FALSE).reports = IF WasUnresolved(raw, "select") THEN 0 ELSE 1
<1>1. PICK opts : opts = Effective(entry, raw)
  OBVIOUS
<1>2. opts.raw = raw
  BY <1>1 DEF Effective
<1>3. \A inherited : MergedSelection(inherited, opts) = [selection |-> "invalid", reports |-> FALSE]
  BY <1>2 DEF MergedSelection
<1> DEFINE Dynamic(a) == ~ Failed(a.result) =>
                           /\ a.result.value.selection = "invalid"
                           /\ a.reports = IF WasUnresolved(raw, "select") THEN 0 ELSE 1
<1>4. Dynamic(ApplyNumber(c, entry, v, opts))
  <2>1. PICK integerOnly : integerOnly = (entry.func = "integer")
    OBVIOUS
  <2>2. PICK r : r = ResolveNumber(v, opts, integerOnly)
    OBVIOUS
  <2>3. ~ Failed(r.result) => r.result.value.selection = "invalid" /\ r.reports = 0
    BY <1>3, <2>2 DEF ResolveNumber, ResolveInheriting, NumberOf, ResolvedNumber, Ok, Fail, Failed
  <2> QED BY <1>2, <2>1, <2>2, <2>3 DEF ApplyNumber, ReportingSelect, ReportsDynamicSelect, Answer,
                                        WasUnresolved, WasDynamic
<1>5. \/ \E e : Apply(c, entry, v, raw, FALSE) = Answer(Fail(e), c, 0)
      \/ Apply(c, entry, v, raw, FALSE) = ApplyNumber(c, entry, v, opts)
  BY <1>1 DEF Apply, Choosing
<1>6. \A e : Failed(Answer(Fail(e), c, 0).result)
  BY DEF Answer, Fail, Failed
<1>7. Dynamic(Apply(c, entry, v, raw, FALSE))
  <2> HIDE DEF Dynamic
  <2>1. \A e : Dynamic(Answer(Fail(e), c, 0))
    BY <1>6 DEF Dynamic
  <2> QED BY <1>4, <1>5, <2>1
<1> QED BY <1>7

\* Rendering a number reports nothing.
LEMMA RenderReports ==
  ASSUME NEW c, NEW number
  PROVE  IsAnswer(Render(c, number)) /\ Render(c, number).reports = 0
<1> DEFINE Silent(a) == IsAnswer(a) /\ a.reports = 0
<1>1. \A r : Silent(Answer(r, c, 0))
  BY DEF Answer, IsAnswer
<1>2. \A cache, key, failure : Silent(Cached(c, cache, key, failure))
  BY DEF Cached, Answer, IsAnswer
<1>3. \A a, x : Silent(a) => Silent(Written(a, x))
  BY DEF Written, IsAnswer
<1>4. \A format, shown : Silent(RenderWith(c, format, shown))
  <2> HIDE DEF Silent
  <2> QED BY <1>2, <1>3 DEF RenderWith
<1>5. \A format, d : Silent(RenderDecimal(c, format, d))
  <2> HIDE DEF Silent
  <2> QED BY <1>1, <1>4 DEF RenderDecimal, RenderScientific
<1>6. Silent(Render(c, number))
  <2> HIDE DEF Silent
  <2> QED BY <1>1, <1>5 DEF Render
<1> QED BY <1>6

\* A selector on a number or an integer.
LEMMA NumberProjects ==
  ASSUME NEW c, NEW entry, entry # None, entry.func \in Numeric, NEW v, NEW raw,
         WasDynamic(raw, "select") => entry.func \in {"number", "integer"},
         ~ Failed(Call(c, entry, v, raw).result)
  PROVE  /\ ProjectSelect(c, entry, Call(c, entry, v, raw).result.value).result
               = CallSelect(c, entry, v, raw).result
         /\ Call(c, entry, v, raw).reports = CallSelect(c, entry, v, raw).reports
<1>1. PICK a : a = Call(c, entry, v, raw)
  OBVIOUS
<1>2. PICK s : s = CallSelect(c, entry, v, raw)
  OBVIOUS
<1>3. entry.func # "percent" /\ entry.func \notin Rendering
  BY DEF Numeric, Rendering
<1>4. \A n : n.kind = "number" /\ n.selection # "none" => ProjectSelect(c, entry, n).result = Project(n)
  BY <1>3 DEF ProjectSelect, Fallbacks, Answer
<1> DEFINE short == /\ DOMAIN raw = {} /\ OnlySelect(entry) /\ v.kind = "int"
                    /\ entry.func \in {"number", "integer"} /\ SelectMode(entry) \in {"plural", "ordinal"}
           plain == entry.func \in {"number", "integer"} /\ Plain(entry, v, raw)
           Agrees == ProjectSelect(c, entry, a.result.value).result = s.result /\ a.reports = s.reports
<1>5. ~ plain => a = Apply(c, entry, v, raw, FALSE)
  BY <1>1, Zenon DEF Call
<1>6. ASSUME plain PROVE Agrees
  <2>1. DOMAIN raw = {} /\ DOMAIN entry.base = {} /\ v.kind = "int"
    BY <1>6 DEF Plain
  <2>2. OnlySelect(entry) /\ SelectMode(entry) = "none" /\ ~ WasDynamic(raw, "select")
    BY <2>1 DEF OnlySelect, SelectMode, WasDynamic
  <2>3. Get(Effective(entry, raw), "select") = None
    BY <2>1 DEF Get, Effective, Resolved
  <2>4. a = Answer(Ok(IntegerNumber(v)), c, 0)
    BY <1>1, <1>6, Zenon DEF Call
  <2>5. Apply(c, entry, v, raw, TRUE) = a
    <3>1. PICK mode : mode = None
      OBVIOUS
    <3>2. /\ Apply(c, entry, v, raw, FALSE)
               = Answer(Ok(ResolvedNumber(Integer(v.n), NumberDefault,
                                          IF mode = None THEN "plural" ELSE mode, mode # None)), c, 0)
          /\ Apply(c, entry, v, raw, TRUE) = Apply(c, entry, v, raw, FALSE)
      <4>1. mode = Get(Effective(entry, raw), "select") /\ entry.func \in Choosing
        BY <1>6, <2>3, <3>1 DEF Choosing
      <4> QED BY <2>1, <2>2, <3>1, <4>1, IntegerCalled, Zenon
    <3>3. (IF mode = None THEN "plural" ELSE mode) = "plural" /\ (mode # None) = FALSE
      BY <3>1
    <3> QED BY <2>4, <3>2, <3>3 DEF IntegerNumber
  <2>6. s = ProjectAnswer(a)
    BY <1>2, <1>3, <2>2, <2>5 DEF CallSelect, ProjectIfNumeric
  <2>7. /\ ~ Failed(a.result) /\ a.result.value.kind = "number" /\ a.result.value.selection # "none"
        /\ IsAnswer(a) /\ a.result = Ok(a.result.value)
    BY <2>4 DEF IntegerNumber, ResolvedNumber, Answer, Ok, Failed, IsAnswer
  <2>8. s.result = Project(a.result.value) /\ s.reports = a.reports
    BY <2>6, <2>7 DEF ProjectAnswer, IsAnswer
  <2> QED BY <1>4, <2>7, <2>8
<1>7. ASSUME ~ plain, short PROVE Agrees
  <2>1. PICK mode \in {"plural", "ordinal"} : mode = SelectMode(entry)
    BY <1>7
  <2>2. mode = Get(Effective(entry, raw), "select") /\ mode \in SelectModes
    BY <1>7, <2>1 DEF SelectMode, Get, Effective, Resolved, SelectModes
  <2>3. mode # None
    BY <2>2, NoneAssumption
  <2>4. a = Answer(Ok(ResolvedNumber(Integer(v.n), NumberDefault, mode, TRUE)), c, 0)
    <3>1. Apply(c, entry, v, raw, FALSE)
            = Answer(Ok(ResolvedNumber(Integer(v.n), NumberDefault, IF mode = None THEN "plural" ELSE mode,
                                       mode # None)), c, 0)
      <4>1. OnlySelect(entry) /\ DOMAIN raw = {} /\ v.kind = "int" /\ entry.func \in Choosing
        BY <1>7 DEF Choosing
      <4> QED BY <2>2, <4>1, IntegerCalled
    <3> QED BY <1>5, <1>7, <2>3, <3>1
  <2>5. s = Answer(Ok([kind |-> "category", rules |-> mode, of |-> IntText(v.n)]), c, 0)
    BY <1>2, <1>7, <2>1 DEF CallSelect
  <2>6. a.result.value = ResolvedNumber(Integer(v.n), NumberDefault, mode, TRUE) /\ a.reports = 0
    BY <2>4 DEF Answer, Ok
  <2>7. a.result.value.kind = "number" /\ a.result.value.selection # "none"
    BY <2>6 DEF ResolvedNumber
  <2>8. ProjectSelect(c, entry, a.result.value).result
          = Ok([kind |-> "category", rules |-> mode, of |-> IntText(v.n)])
    <3>1. Project(ResolvedNumber(Integer(v.n), NumberDefault, mode, TRUE))
            = Ok([kind |-> "category", rules |-> mode, of |-> IntText(v.n)])
      BY IntegerProjects, Zenon
    <3> QED BY <1>4, <2>6, <2>7, <3>1
  <2> QED BY <2>5, <2>6, <2>8 DEF Answer
<1>8. ASSUME ~ plain, ~ short PROVE Agrees
  <2>1. ~ Failed(Apply(c, entry, v, raw, FALSE).result)
    BY <1>1, <1>5, <1>8
  <2>2. a.result.value.kind = "number" /\ a.result.value.selection # "none" /\ IsAnswer(a)
    BY <1>5, <1>8, <2>1, NumericResolved
  <2>3. CASE WasDynamic(raw, "select")
    <3>1. entry.func \in Choosing /\ a = Apply(c, entry, v, raw, FALSE)
      BY <1>5, <1>8, <2>3 DEF Choosing
    <3>2. /\ a.result.value.selection = "invalid"
          /\ a.reports = IF WasUnresolved(raw, "select") THEN 0 ELSE 1
      BY <2>1, <2>3, <3>1, DynamicResolved
    <3>3. s = Answer(Ok(NullSelector), c, IF WasUnresolved(raw, "select") THEN 0 ELSE 1)
      BY <1>2, <1>8, <2>3, Zenon DEF CallSelect
    <3>4. Project(a.result.value) = Ok(NullSelector)
      BY <3>2 DEF Project
    <3> QED BY <1>4, <2>2, <3>2, <3>3, <3>4 DEF Answer
  <2>4. CASE ~ WasDynamic(raw, "select")
    <3>1. Apply(c, entry, v, raw, TRUE) = a
      BY <1>5, <1>8, <2>1, NumericResolved
    <3>2. s = ProjectAnswer(a)
      BY <1>2, <1>3, <1>8, <2>4, <3>1 DEF CallSelect, ProjectIfNumeric
    <3>3. s.result = Project(a.result.value) /\ s.reports = a.reports
      BY <1>1, <2>2, <3>2 DEF ProjectAnswer, IsAnswer
    <3> QED BY <1>4, <2>2, <3>3
  <2> QED BY <2>3, <2>4
<1>9. Agrees
  BY <1>6, <1>7, <1>8
<1> QED BY <1>1, <1>2, <1>9

\* A selector on a percentage: the value remembers the scaled number.
LEMMA PercentProjects ==
  ASSUME NEW c, NEW entry, entry # None, entry.func = "percent", NEW v, NEW raw,
         ~ WasDynamic(raw, "select"), ~ Failed(Call(c, entry, v, raw).result)
  PROVE  /\ ProjectSelect(c, entry, Call(c, entry, v, raw).result.value).result
               = CallSelect(c, entry, v, raw).result
         /\ Call(c, entry, v, raw).reports = CallSelect(c, entry, v, raw).reports
<1>1. PICK a : a = Call(c, entry, v, raw)
  OBVIOUS
<1>2. PICK opts : opts = Effective(entry, raw)
  OBVIOUS
<1>3. PICK resolved : resolved = ResolvePercent(v, opts)
  OBVIOUS
<1>4. a = Apply(c, entry, v, raw, FALSE)
  BY <1>1 DEF Call
<1>5. \A e : Failed(Answer(Fail(e), c, 0).result)
  BY DEF Answer, Fail, Failed
<1>6. Valid("percent", opts) /\ a = PercentRendered(c, resolved)
  BY <1>1, <1>2, <1>3, <1>4, <1>5 DEF Apply, ApplyPercent
<1>7. PICK shown : shown = Render(c, AsPercent(resolved.value.shown))
  OBVIOUS
<1>8. ~ Failed(resolved) /\ a = PercentShown(shown, resolved.value)
  BY <1>1, <1>6, <1>7 DEF PercentRendered, Answer
<1>9. IsAnswer(shown) /\ shown.reports = 0
  BY <1>7, RenderReports
<1>10. PICK value1 : value1 = FormattedNumber(resolved.value.shown, shown.result.value, resolved.value.selection)
  OBVIOUS
<1>11. a = [shown EXCEPT !.result = Ok(value1)]
  BY <1>1, <1>8, <1>10 DEF PercentShown, Resolving
<1>12. a.result.value = value1 /\ a.reports = 0
  BY <1>9, <1>11 DEF IsAnswer, Ok
<1>13. Selectable(value1) /\ value1.selection = resolved.value.selection
  BY <1>10 DEF FormattedNumber, Selectable
<1>14. ProjectSelect(c, entry, value1).result = Project(resolved.value.selection)
  BY <1>13 DEF ProjectSelect, Answer
<1>15. CallSelect(c, entry, v, raw) = SelectPercent(c, entry, v, raw)
  BY DEF CallSelect
<1>16. SelectPercent(c, entry, v, raw) = Answer(Project(resolved.value.selection), c, 0)
  BY <1>2, <1>3, <1>6, <1>8 DEF SelectPercent, ProjectPercent
<1> QED BY <1>1, <1>12, <1>14, <1>15, <1>16 DEF Answer

\* :offset and :percent take no notice of a select option.
LEMMA SelectIsIgnored ==
  ASSUME NEW c, NEW entry, entry # None, entry.func \in {"offset", "percent"}, NEW v, NEW raw
  PROVE  /\ Call(c, entry, v, raw) = Call(c, entry, v, WithoutSelect(raw))
         /\ Call(c, entry, v, raw).reports = 0
<1>1. PICK opts : opts = Effective(entry, raw)
  OBVIOUS
<1>2. PICK less : less = Effective(entry, WithoutSelect(raw))
  OBVIOUS
<1>3. \A key \in OptionKeys \ {"select"} : Get(opts, key) = Get(less, key)
  BY <1>1, <1>2 DEF Get, Effective, Resolved, WithoutSelect
<1>4. NoKey \in Resolved(opts.raw) <=> NoKey \in Resolved(less.raw)
  BY <1>1, <1>2 DEF Effective, Resolved, WithoutSelect, NoKey
<1>5. Valid(entry.func, opts) <=> Valid(entry.func, less)
  <2>1. Among(opts, "u:dir", Directions) <=> Among(less, "u:dir", Directions)
    BY <1>3 DEF Among, Given, OptionKeys
  <2> QED BY <1>4, <2>1 DEF Valid, ValidValues
<1>6. \A inherited : MergedFormat(inherited, opts, FALSE) = MergedFormat(inherited, less, FALSE)
  <2>1. \A field \in DOMAIN DigitKeys : DigitKeys[field] \in OptionKeys \ {"select"}
    BY DEF DigitKeys, OptionKeys
  <2>2. \A field \in DOMAIN WordKeys : WordKeys[field] \in OptionKeys \ {"select"}
    BY DEF WordKeys, OptionKeys
  <2>3. (GoodDigits(opts) <=> GoodDigits(less)) /\ (GoodWords(opts) <=> GoodWords(less))
    <3>1. Among(opts, "numberingSystem", NumberingSystems) <=> Among(less, "numberingSystem", NumberingSystems)
      BY <1>3 DEF Among, Given, OptionKeys
    <3> QED BY <1>3, <2>1, <2>2, <3>1 DEF GoodDigits, GoodWords, Among, Given
  <2>4. \A inherited : \A field \in DOMAIN DigitKeys :
          DigitOf(inherited, opts, field) = DigitOf(inherited, less, field)
    BY <1>3, <2>1 DEF DigitOf, Given
  <2>5. \A field \in {"minFrac", "maxFrac", "minSig", "maxSig", "minInt"} : \A inherited :
          DigitOf(inherited, opts, field) = DigitOf(inherited, less, field)
    BY <2>4 DEF DigitKeys
  <2>6. \A field \in {"style", "sign", "notation", "grouping"} :
          /\ Get(opts, WordKeys[field]) = Get(less, WordKeys[field])
          /\ Given(opts, WordKeys[field]) <=> Given(less, WordKeys[field])
    BY <1>3, <2>2 DEF WordKeys, Given
  <2>7. /\ Get(opts, "numberingSystem") = Get(less, "numberingSystem")
        /\ Given(opts, "numberingSystem") <=> Given(less, "numberingSystem")
    BY <1>3 DEF Given, OptionKeys
  <2> QED BY <2>3, <2>5, <2>6, <2>7 DEF MergedFormat
<1>7. ResolvePercent(v, opts) = ResolvePercent(v, less)
  BY <1>6 DEF ResolvePercent
<1>8. ResolveOffset(v, opts) = ResolveOffset(v, less)
  <2>1. \A key \in {"add", "subtract"} : /\ Get(opts, key) = Get(less, key)
                                         /\ Given(opts, key) <=> Given(less, key)
    BY <1>3 DEF Given, OptionKeys
  <2>2. \A parsed, inherited, text, subtract :
          OffsetInheriting(parsed, inherited, opts, text, subtract)
            = OffsetInheriting(parsed, inherited, less, text, subtract)
    BY <1>6, <2>1 DEF OffsetInheriting
  <2>3. Get(opts, IF Given(opts, "subtract") THEN "subtract" ELSE "add")
          = Get(less, IF Given(less, "subtract") THEN "subtract" ELSE "add")
    BY <2>1
  <2>4. Given(opts, "subtract") = Given(less, "subtract")
    BY <2>1 DEF Given
  <2> QED BY <2>2, <2>3, <2>4, Zenon DEF ResolveOffset
<1>9. Apply(c, entry, v, raw, FALSE) = Apply(c, entry, v, WithoutSelect(raw), FALSE)
  BY <1>1, <1>2, <1>5, <1>7, <1>8 DEF Apply, ApplyPercent
<1>10. \A r : Answer(r, c, 0).reports = 0
  BY DEF Answer
<1>11. PercentRendered(c, ResolvePercent(v, opts)).reports = 0
  <2>1. PICK resolved : resolved = ResolvePercent(v, opts)
    OBVIOUS
  <2>2. PICK shown : shown = Render(c, AsPercent(resolved.value.shown))
    OBVIOUS
  <2>3. IsAnswer(shown) /\ shown.reports = 0
    BY <2>2, RenderReports
  <2>4. PercentShown(shown, resolved.value).reports = 0
    BY <2>3 DEF PercentShown, Resolving, IsAnswer
  <2> QED BY <1>10, <2>1, <2>2, <2>4 DEF PercentRendered
<1>12. Apply(c, entry, v, raw, FALSE).reports = 0
  BY <1>1, <1>10, <1>11 DEF Apply, ApplyPercent
<1>13. \A r : Call(c, entry, v, r) = Apply(c, entry, v, r, FALSE)
  BY DEF Call
<1> QED BY <1>9, <1>12, <1>13

(***************************************************************************)
(* Selecting on a call is selecting on its value, whatever the operand and  *)
(* the options are: call_select, with its short way for integers and its    *)
(* early answer for a select that is chosen at run time, takes the branch    *)
(* that project_select of what call resolves would take, and reports as     *)
(* many errors; but not for a select that :offset or :percent is given by a *)
(* variable, of which the call takes no notice and which call_select         *)
(* answers with nothing (BuiltinHost::call_select, ::project_select).        *)
(***************************************************************************)
THEOREM SelectingIsProjecting == Spec => []SelectOfCallIsProjection
<1>1. SelectOfCallIsProjection
  <2> SUFFICES ASSUME NEW entry \in catalog.entries \ {None}, NEW raw \in catalog.raw,
                      entry.func \in Numeric \cup {"percent"}
               PROVE  IF IgnoresSelect(entry, raw)
                      THEN Ignores(Call(NoFormatters, entry, value, raw),
                                   Call(NoFormatters, entry, value, WithoutSelect(raw)),
                                   CallSelect(NoFormatters, entry, value, raw), raw)
                      ELSE Projects(entry, Call(NoFormatters, entry, value, raw),
                                    CallSelect(NoFormatters, entry, value, raw))
    BY Zenon DEF SelectOfCallIsProjection
  <2>1. CASE IgnoresSelect(entry, raw)
    <3>1. entry.func \in {"offset", "percent"} /\ WasDynamic(raw, "select")
      BY <2>1 DEF IgnoresSelect
    <3>2. CallSelect(NoFormatters, entry, value, raw)
            = Answer(Ok(NullSelector), NoFormatters, IF WasUnresolved(raw, "select") THEN 0 ELSE 1)
      BY <3>1 DEF CallSelect
    <3>3. /\ Call(NoFormatters, entry, value, raw) = Call(NoFormatters, entry, value, WithoutSelect(raw))
          /\ Call(NoFormatters, entry, value, raw).reports = 0
      BY <3>1, SelectIsIgnored
    <3> QED BY <2>1, <3>2, <3>3 DEF Ignores, Answer
  <2>2. CASE ~ IgnoresSelect(entry, raw)
    <3> SUFFICES ASSUME ~ Failed(Call(NoFormatters, entry, value, raw).result)
                 PROVE  /\ ProjectSelect(NoFormatters, entry, Call(NoFormatters, entry, value, raw).result.value).result
                              = CallSelect(NoFormatters, entry, value, raw).result
                        /\ Call(NoFormatters, entry, value, raw).reports
                              = CallSelect(NoFormatters, entry, value, raw).reports
      BY <2>2, Zenon DEF Projects
    <3>1. WasDynamic(raw, "select") => entry.func \in {"number", "integer"}
      BY <2>2 DEF IgnoresSelect, Numeric
    <3>2. CASE entry.func \in Numeric
      BY <3>1, <3>2, NumberProjects
    <3>3. CASE entry.func = "percent"
      BY <3>1, <3>3, PercentProjects
    <3> QED BY <3>2, <3>3
  <2> QED BY <2>1, <2>2
<1> QED BY <1>1, PTL
-----------------------------------------------------------------------------
(* Values that are typed: what the calls have made of the numbers and the    *)
(* options is a number again, that formatting can take.                      *)

TypedNumber(n) ==
  \/ n.is = "integer" /\ n.n \in Int
  \/ n.is = "decimal" /\ IsDecimal(n.d)
  \/ n.is = "nonfinite"
Counts == Nat \cup {None}
FormatFields == {"minFrac", "maxFrac", "minSig", "maxSig", "minInt", "numbering", "style", "sign", "notation", "grouping"}
TypedFormat(f) ==
  /\ f = [field \in FormatFields |-> f[field]]
  /\ f.minFrac \in Counts /\ f.maxFrac \in Counts /\ f.minSig \in Counts /\ f.maxSig \in Counts /\ f.minInt \in Counts
  /\ Ordered(f.minFrac, f.maxFrac)
Selections == SelectModes \cup {"none", "invalid"}
TypedResolved(v) ==
  /\ v = ResolvedNumber(v.number, v.format, v.selection, v.explicit)
  /\ TypedNumber(v.number) /\ TypedFormat(v.format) /\ v.selection \in Selections
TextKinds == {"text", "string", "select"}
TypedContent(v) ==
  /\ v.kind = "int" => v.n \in Int
  /\ v.kind = "float" => IsDecimal(v.d)
  /\ v.kind = "number" => TypedResolved(v)
  /\ v.kind \in TextKinds => IsText(v.text)
  /\ v.kind = "string" => v.hint \in Int \cup {None} /\ v = String(v.text, v.hint, v.dir)
TypedSource(v) == Source(v).kind # "formatted" /\ TypedContent(Source(v))

LEMMA DecimalOfIs ==
  ASSUME NEW n, TypedNumber(n), n.is # "nonfinite"
  PROVE  IsDecimal(DecimalOf(n))
BY IntTextIs DEF TypedNumber, DecimalOf

LEMMA NumberTextIs ==
  ASSUME NEW n, TypedNumber(n)
  PROVE  IsText(NumberText(n))
<1>1. CASE n.is = "integer"
  BY <1>1, IntTextIs DEF TypedNumber, NumberText, IsText, Number
<1>2. CASE n.is = "decimal"
  BY <1>2 DEF TypedNumber, NumberText, IsText, Number
<1>3. CASE n.is = "nonfinite"
  BY <1>3 DEF NumberText, IsText, Word
<1> QED BY <1>1, <1>2, <1>3 DEF TypedNumber

\* str::parse keeps the number, whichever of its two forms it gives it.
LEMMA ParseTextIs ==
  ASSUME NEW d, IsDecimal(d), ~ Failed(ParseText(d))
  PROVE  TypedNumber(ParseText(d).value)
<1>1. d.frac = << >> => Units(d, 0) \in Int
  BY UnitsIs, EmptySeq
<1>2. IsDecimal(TrimEnd(d))
  BY TrimEndIs
<1> QED BY <1>1, <1>2 DEF ParseText, TypedNumber, Integer, Decimal, Ok, Fail, Failed

LEMMA ParseTextKeeps ==
  ASSUME NEW d, IsDecimal(d), d.sign \in PlainSigns, d.int = Canonical(d.int), WithoutTrailing(d.frac) = d.frac
  PROVE  ~ Failed(ParseText(d)) /\ ParseText(d).value.is # "nonfinite" /\ DecimalOf(ParseText(d).value) = d
<1>1. IsLiteral(d)
  BY DEF IsLiteral, PlainSigns
<1>2. TrimEnd(d) = d
  BY TrimEndIs DEF IsDecimal
<1>3. CASE d.frac = << >> /\ ~ (d.sign = "-" /\ IsZero(d)) /\ FitsInt(Units(d, 0))
  <2>1. IntText(Units(d, 0)) = d
    BY <1>3, IntegersStay
  <2> QED BY <1>1, <1>3, <2>1 DEF ParseText, Integer, Ok, Failed, DecimalOf
<1>4. CASE ~ (d.frac = << >> /\ ~ (d.sign = "-" /\ IsZero(d)) /\ FitsInt(Units(d, 0)))
  BY <1>1, <1>2, <1>4 DEF ParseText, Decimal, Ok, Failed, DecimalOf
<1> QED BY <1>3, <1>4

LEMMA ParseNumberIs ==
  ASSUME NEW v, TypedSource(v), ~ Failed(ParseNumber(v))
  PROVE  TypedNumber(ParseNumber(v).value)
<1> DEFINE Typed(r) == ~ Failed(r) => TypedNumber(r.value)
<1>1. \A d : IsDecimal(d) => Typed(ParseText(d))
  BY ParseTextIs
<1>2. \A n \in Int : Typed(Ok(Integer(n)))
  BY DEF Ok, Integer, TypedNumber
<1>3. Typed(Ok(NonFinite)) /\ \A e : Typed(Fail(e))
  BY DEF Ok, NonFinite, Fail, Failed, TypedNumber
<1>4. \A n : TypedNumber(n) => Typed(Ok(n))
  BY DEF Ok
<1>5. \A d : IsDecimal(d) => Typed(FloatNumber(d))
  <2> SUFFICES ASSUME NEW d, IsDecimal(d) PROVE Typed(FloatNumber(d))
    OBVIOUS
  <2>1. Typed(Ok(Decimal(Text("-", <<0>>, << >>))))
    <3>1. <<0>> \in Digits /\ << >> \in Digits
      BY DEF Digits
    <3>2. IsDecimal(Text("-", <<0>>, << >>))
      BY <3>1, TextIs
    <3> QED BY <3>2 DEF Ok, Decimal, TypedNumber
  <2>2. ExactIntegral(d) => Units(d, 0) \in Int
    BY UnitsIs, EmptySeq DEF ExactIntegral
  <2> HIDE DEF Typed
  <2> QED BY <1>1, <1>2, <2>1, <2>2 DEF FloatNumber
<1>6. \A text : (text # None => IsText(text)) => Typed(TextNumber(text))
  <2> HIDE DEF Typed
  <2> QED BY <1>1, <1>3 DEF TextNumber, IsText
<1>7. PICK s : s = Source(v)
  OBVIOUS
<1>8. TypedContent(s) /\ s.kind # "formatted"
  BY <1>7 DEF TypedSource
<1>9. TextOf(s) # None => IsText(TextOf(s))
  <2>1. Source(s) = s
    BY <1>8 DEF Source
  <2> QED BY <1>8, <2>1 DEF TextOf, TypedContent, TextKinds
<1>10. Typed(ParseNumber(v))
  <2> HIDE DEF Typed
  <2>1. CASE s.kind = "nonfinite"
    BY <1>3, <1>7, <2>1 DEF ParseNumber
  <2>2. CASE s.kind = "float"
    BY <1>5, <1>7, <1>8, <2>2 DEF ParseNumber, TypedContent
  <2>3. CASE s.kind = "int"
    BY <1>2, <1>7, <1>8, <2>3 DEF ParseNumber, TypedContent
  <2>4. CASE s.kind = "number"
    BY <1>4, <1>7, <1>8, <2>4 DEF ParseNumber, TypedContent, TypedResolved
  <2>5. CASE s.kind = "string" /\ s.hint # None
    BY <1>2, <1>7, <1>8, <2>5 DEF ParseNumber, TypedContent
  <2>6. CASE /\ s.kind # "float" /\ s.kind # "number" /\ s.kind # "nonfinite" /\ s.kind # "int"
             /\ ~ (s.kind = "string" /\ s.hint # None)
    BY <1>6, <1>7, <1>9, <2>6 DEF ParseNumber
  <2> QED BY <2>1, <2>2, <2>3, <2>4, <2>5, <2>6
<1> QED BY <1>10

-----------------------------------------------------------------------------
(* The values that calls resolve are typed. *)

LEMMA DigitTextIs ==
  ASSUME NEW t \in DOMAIN DigitTexts
  PROVE  DigitTexts[t] \in Nat
BY DEF DigitTexts

LEMMA DefaultIsTyped == TypedFormat(NumberDefault)
BY DEF TypedFormat, NumberDefault, Counts, FormatFields, Ordered

LEMMA MergedFormatIs ==
  ASSUME NEW inherited, TypedFormat(inherited), NEW opts, NEW integerOnly,
         "error" \notin DOMAIN MergedFormat(inherited, opts, integerOnly)
  PROVE  TypedFormat(MergedFormat(inherited, opts, integerOnly).format)
<1>1. GoodDigits(opts)
  BY DEF MergedFormat
<1>2. ASSUME NEW field \in DOMAIN DigitKeys, inherited[field] \in Counts
      PROVE  DigitOf(inherited, opts, field) \in Counts
  BY <1>1, <1>2, DigitTextIs DEF DigitOf, GoodDigits, Counts
<1>3. /\ "minFrac" \in DOMAIN DigitKeys /\ "maxFrac" \in DOMAIN DigitKeys /\ "minSig" \in DOMAIN DigitKeys
      /\ "maxSig" \in DOMAIN DigitKeys /\ "minInt" \in DOMAIN DigitKeys
  BY DEF DigitKeys
<1>4. /\ DigitOf(inherited, opts, "minFrac") \in Counts /\ DigitOf(inherited, opts, "maxFrac") \in Counts
      /\ DigitOf(inherited, opts, "minSig") \in Counts /\ DigitOf(inherited, opts, "maxSig") \in Counts
      /\ DigitOf(inherited, opts, "minInt") \in Counts
  BY <1>2, <1>3 DEF TypedFormat
<1>5. None \in Counts
  BY DEF Counts
<1>6. PICK f : f = MergedFormat(inherited, opts, integerOnly).format
  OBVIOUS
<1>7. Ordered(f.minFrac, f.maxFrac)
  <2>1. Ordered(DigitOf(inherited, opts, "minFrac"), DigitOf(inherited, opts, "maxFrac"))
    BY DEF MergedFormat
  <2>2. f.minFrac = (IF integerOnly THEN None ELSE DigitOf(inherited, opts, "minFrac"))
        /\ f.maxFrac = (IF integerOnly THEN None ELSE DigitOf(inherited, opts, "maxFrac"))
    BY <1>6, <2>1 DEF MergedFormat
  <2> QED BY <2>1, <2>2 DEF Ordered
<1>8. /\ f = [field \in FormatFields |-> f[field]]
      /\ f.minFrac \in Counts /\ f.maxFrac \in Counts /\ f.minSig \in Counts /\ f.maxSig \in Counts /\ f.minInt \in Counts
  BY <1>4, <1>5, <1>6 DEF MergedFormat, FormatFields
<1> QED BY <1>6, <1>7, <1>8 DEF TypedFormat

LEMMA MergedSelectionIs ==
  ASSUME NEW inherited, inherited.selection \in Selections, NEW opts,
         "error" \notin DOMAIN MergedSelection(inherited, opts)
  PROVE  MergedSelection(inherited, opts).selection \in Selections
BY DEF MergedSelection, Selections, SelectModes

LEMMA InheritedIs ==
  ASSUME NEW v, TypedSource(v), NEW selection \in Selections
  PROVE  TypedFormat(Inherited(v, selection).format) /\ Inherited(v, selection).selection \in Selections
BY DefaultIsTyped DEF Inherited, TypedSource, TypedContent, TypedResolved

LEMMA AsIntegerIs ==
  ASSUME NEW n, TypedNumber(n)
  PROVE  TypedNumber(AsInteger(n))
<1>1. CASE n.is = "decimal"
  <2>1. PICK d : d = Truncated(n.d)
    OBVIOUS
  <2>2. IsDecimal(d) /\ d.frac = << >>
    <3>1. IsDecimal(n.d)
      BY <1>1 DEF TypedNumber
    <3>2. << >> \in Digits
      BY DEF Digits
    <3>3. d = Text(n.d.sign, n.d.int, << >>)
      BY <2>1, <3>1, <3>2, WithFraction DEF Truncated
    <3> QED BY <3>1, <3>2, <3>3, TextIs, DecimalParts
  <2>3. Units(d, 0) \in Int
    BY <2>2, UnitsIs, EmptySeq
  <2> QED BY <1>1, <2>1, <2>2, <2>3 DEF AsInteger, Integer, Decimal, TypedNumber
<1>2. CASE n.is # "decimal"
  BY <1>2 DEF AsInteger
<1> QED BY <1>1, <1>2

LEMMA ResolvedIs ==
  ASSUME NEW n, TypedNumber(n), NEW format, TypedFormat(format), NEW selection \in Selections, NEW explicit
  PROVE  LET v == ResolvedNumber(n, format, selection, explicit)
         IN  TypedResolved(v) /\ TypedSource(v) /\ v.kind = "number"
BY DEF ResolvedNumber, TypedResolved, TypedSource, TypedContent, Source, TextKinds

IsResolved(v) == TypedResolved(v) /\ TypedSource(v) /\ v.kind = "number"

LEMMA ResolveNumberIs ==
  ASSUME NEW v, TypedSource(v), NEW opts, NEW integerOnly, ~ Failed(ResolveNumber(v, opts, integerOnly).result)
  PROVE  IsResolved(ResolveNumber(v, opts, integerOnly).result.value)
<1>1. PICK inherited : inherited = Inherited(v, "none")
  OBVIOUS
<1>2. PICK parsed : parsed = ParseNumber(v)
  OBVIOUS
<1>3. PICK merged : merged = MergedFormat(inherited.format, opts, integerOnly)
  OBVIOUS
<1>4. PICK select : select = MergedSelection(inherited, opts)
  OBVIOUS
<1>5. TypedFormat(inherited.format) /\ inherited.selection \in Selections
  BY <1>1, InheritedIs DEF Selections
<1>6. ResolveNumber(v, opts, integerOnly) = NumberOf(parsed, inherited, merged, select, opts, integerOnly)
  BY <1>1, <1>2, <1>3, <1>4 DEF ResolveNumber, ResolveInheriting
<1>7. ~ Failed(parsed) /\ ~ Failed(merged) /\ ~ Failed(select)
  BY <1>6 DEF NumberOf, Fail, Failed
<1>8. TypedNumber(parsed.value) /\ TypedNumber(AsInteger(parsed.value))
  BY <1>2, <1>7, ParseNumberIs, AsIntegerIs
<1>9. TypedFormat(merged.format) /\ select.selection \in Selections
  BY <1>3, <1>4, <1>5, <1>7, MergedFormatIs, MergedSelectionIs DEF Failed
<1>10. PICK n : n = IF integerOnly THEN AsInteger(parsed.value) ELSE parsed.value
  OBVIOUS
<1>11. PICK explicit : explicit = (inherited.explicit \/ Given(opts, "select"))
  OBVIOUS
<1>12. ResolveNumber(v, opts, integerOnly).result.value = ResolvedNumber(n, merged.format, select.selection, explicit)
  BY <1>6, <1>7, <1>10, <1>11 DEF NumberOf, Ok
<1>13. TypedNumber(n)
  BY <1>8, <1>10
<1> QED BY <1>9, <1>12, <1>13, ResolvedIs DEF IsResolved

\* The two numbers of a percentage: that which is shown, and the scaled one,
\* which is the very text that rendering makes of the first.
PercentNumbers(shown, selection) ==
  /\ IsResolved(shown) /\ IsResolved(selection)
  /\ selection.format = shown.format
  /\ selection.selection = "plural"
  /\ (selection.number.is = "nonfinite") <=> (shown.number.is = "nonfinite")
  /\ shown.number.is # "nonfinite" => DecimalOf(selection.number) = TimesHundred(DecimalOf(shown.number))
LEMMA PercentIs ==
  ASSUME NEW v, TypedSource(v), NEW opts, ~ Failed(ResolvePercent(v, opts))
  PROVE  PercentNumbers(ResolvePercent(v, opts).value.shown, ResolvePercent(v, opts).value.selection)
<1>1. PICK parsed : parsed = ParseNumber(v)
  OBVIOUS
<1>2. PICK start : start = PercentStart(Inherited(v, "none").format)
  OBVIOUS
<1>3. PICK merged : merged = MergedFormat(start, opts, FALSE)
  OBVIOUS
<1>4. ResolvePercent(v, opts) = PercentOf(parsed, merged)
  BY <1>1, <1>2, <1>3 DEF ResolvePercent
<1>5. ~ Failed(parsed) /\ ~ Failed(merged)
  BY <1>4 DEF PercentOf
<1>6. TypedFormat(start)
  <2>1. PICK f : f = Inherited(v, "none").format
    OBVIOUS
  <2>2. TypedFormat(f)
    BY <2>1, InheritedIs DEF Selections
  <2>3. PICK g : g = PercentStart(f)
    OBVIOUS
  <2>4. g.minFrac = (IF f.minFrac = None THEN 0 ELSE f.minFrac) /\ g.maxFrac = f.maxFrac
    BY <2>2, <2>3 DEF PercentStart, TypedFormat, FormatFields
  <2>5. Ordered(g.minFrac, g.maxFrac)
    <3>1. f.maxFrac # None => 0 <= f.maxFrac
      BY <2>2 DEF TypedFormat, Counts
    <3> QED BY <2>2, <2>4, <3>1 DEF TypedFormat, Ordered
  <2>6. /\ g = [field \in FormatFields |-> g[field]]
        /\ g.minFrac \in Counts /\ g.maxFrac \in Counts /\ g.minSig \in Counts /\ g.maxSig \in Counts /\ g.minInt \in Counts
    BY <2>2, <2>3 DEF PercentStart, TypedFormat, Counts, FormatFields
  <2> QED BY <1>2, <2>1, <2>3, <2>5, <2>6 DEF TypedFormat
<1>7. TypedFormat(merged.format)
  BY <1>3, <1>5, <1>6, MergedFormatIs DEF Failed
<1>8. PICK format : format = [merged.format EXCEPT !.maxFrac = IF @ = None THEN merged.format.minFrac ELSE @]
  OBVIOUS
<1>9. TypedFormat(format)
  BY <1>7, <1>8 DEF TypedFormat, FormatFields, Counts, Ordered
<1>10. TypedNumber(parsed.value)
  BY <1>1, <1>5, ParseNumberIs
<1>11. PICK scaled : scaled = IF parsed.value.is = "nonfinite" THEN NonFinite
                              ELSE ParseText(TimesHundred(DecimalOf(parsed.value))).value
  OBVIOUS
<1>12. /\ TypedNumber(scaled)
       /\ (scaled.is = "nonfinite") <=> (parsed.value.is = "nonfinite")
       /\ parsed.value.is # "nonfinite" => DecimalOf(scaled) = TimesHundred(DecimalOf(parsed.value))
  <2>1. CASE parsed.value.is = "nonfinite"
    BY <1>11, <2>1 DEF NonFinite, TypedNumber
  <2>2. CASE parsed.value.is # "nonfinite"
    <3>1. PICK d : d = TimesHundred(DecimalOf(parsed.value))
      OBVIOUS
    <3>2. /\ IsDecimal(d) /\ d.sign \in PlainSigns /\ d.int = Canonical(d.int)
          /\ WithoutTrailing(d.frac) = d.frac
      BY <1>10, <2>2, <3>1, DecimalOfIs, TimesHundredIs
    <3>3. scaled = ParseText(d).value
      BY <1>11, <2>2, <3>1
    <3> QED BY <2>2, <3>1, <3>2, <3>3, ParseTextKeeps, ParseTextIs
  <2> QED BY <2>1, <2>2
<1>13. ResolvePercent(v, opts).value = [shown     |-> ResolvedNumber(parsed.value, format, "plural", FALSE),
                                        selection |-> ResolvedNumber(scaled, format, "plural", FALSE)]
  BY <1>4, <1>5, <1>8, <1>11 DEF PercentOf, Ok
<1>14. "plural" \in Selections
  BY DEF Selections, SelectModes
<1>15. /\ IsResolved(ResolvedNumber(parsed.value, format, "plural", FALSE))
       /\ IsResolved(ResolvedNumber(scaled, format, "plural", FALSE))
  BY <1>9, <1>10, <1>12, <1>14, ResolvedIs DEF IsResolved
<1>16. \A n : /\ ResolvedNumber(n, format, "plural", FALSE).number = n
              /\ ResolvedNumber(n, format, "plural", FALSE).format = format
              /\ ResolvedNumber(n, format, "plural", FALSE).selection = "plural"
  BY DEF ResolvedNumber
<1>17. PercentNumbers(ResolvedNumber(parsed.value, format, "plural", FALSE), ResolvedNumber(scaled, format, "plural", FALSE))
  BY <1>12, <1>15, <1>16 DEF PercentNumbers
<1>18. /\ ResolvePercent(v, opts).value.shown = ResolvedNumber(parsed.value, format, "plural", FALSE)
       /\ ResolvePercent(v, opts).value.selection = ResolvedNumber(scaled, format, "plural", FALSE)
  BY <1>13
<1> QED BY <1>17, <1>18, Zenon

\* :offset gives its operand's number increased or diminished, exactly.
LEMMA AdjustmentsAre ==
  ASSUME NEW text \in DOMAIN Adjustments
  PROVE  Adjustments[text] \in Int
BY DEF Adjustments, DigitTexts

LEMMA OffsetNumberIs ==
  ASSUME NEW v, TypedSource(v), NEW opts, ~ Failed(ResolveOffset(v, opts))
  PROVE  /\ IsResolved(ResolveOffset(v, opts).value)
         /\ ~ Failed(ParseNumber(v))
         /\ ParseNumber(v).value.is # "nonfinite" =>
              IsSum(DecimalOf(ResolveOffset(v, opts).value.number), DecimalOf(ParseNumber(v).value), AdjustmentOf(opts))
<1>1. PICK parsed : parsed = ParseNumber(v)
  OBVIOUS
<1>2. PICK inherited : inherited = Inherited(v, "plural")
  OBVIOUS
<1>3. PICK subtract \in BOOLEAN : subtract = Given(opts, "subtract")
  BY DEF Given
<1>4. PICK text : text = Get(opts, IF subtract THEN "subtract" ELSE "add")
  OBVIOUS
<1>5. ResolveOffset(v, opts) = OffsetInheriting(parsed, inherited, opts, text, subtract)
  BY <1>1, <1>2, <1>3, <1>4, Zenon DEF ResolveOffset
<1>6. PICK merged : merged = MergedFormat(inherited.format, opts, FALSE)
  OBVIOUS
<1>7. PICK sum : sum = Sum(parsed, text, subtract)
  OBVIOUS
<1>8. /\ ~ Failed(parsed) /\ text \in DOMAIN Adjustments /\ (Given(opts, "add") <=> ~ subtract)
      /\ ResolveOffset(v, opts) = OffsetOf(parsed, inherited, merged, sum)
  <2>1. ~ Failed(parsed)
    BY <1>5 DEF OffsetInheriting
  <2>2. Failed(Fail(BadOption))
    BY DEF Fail, Failed
  <2>3. ~ ((Given(opts, "add") <=> subtract) \/ text \notin DOMAIN Adjustments)
    BY <1>5, <2>1, <2>2 DEF OffsetInheriting
  <2>4. Given(opts, "add") \in BOOLEAN
    BY DEF Given
  <2> QED BY <1>5, <1>6, <1>7, <2>1, <2>3, <2>4 DEF OffsetInheriting
<1>9. "failed" \notin DOMAIN sum /\ ~ Failed(merged)
  BY <1>8 DEF OffsetOf, Fail, Failed
<1>10. PICK selection : selection = IF inherited.selection = "none" THEN "plural" ELSE inherited.selection
  OBVIOUS
<1>11. PICK n : n = IF "nonfinite" \in DOMAIN sum THEN NonFinite
                    ELSE IF "integer" \in DOMAIN sum THEN Integer(sum.integer) ELSE Decimal(sum.decimal)
  OBVIOUS
<1>12. ResolveOffset(v, opts).value = ResolvedNumber(n, merged.format, selection, inherited.explicit)
  BY <1>8, <1>9, <1>10, <1>11 DEF OffsetOf, Ok
<1>13. "plural" \in Selections
  BY DEF Selections, SelectModes
<1>14. TypedFormat(merged.format) /\ selection \in Selections
  BY <1>2, <1>6, <1>9, <1>10, <1>13, InheritedIs, MergedFormatIs DEF Failed
<1>15. PICK adjustment \in Int : adjustment = Adjustments[text]
  BY <1>8, AdjustmentsAre
<1>16. AdjustmentOf(opts) = IF subtract THEN -adjustment ELSE adjustment
  BY <1>3, <1>4, <1>8, <1>15 DEF AdjustmentOf
<1>17. CASE parsed.value.is = "nonfinite"
  <2>1. n = NonFinite
    BY <1>7, <1>11, <1>17 DEF Sum
  <2>2. TypedNumber(n)
    BY <2>1 DEF NonFinite, TypedNumber
  <2> QED BY <1>1, <1>8, <1>12, <1>14, <1>17, <2>2, ResolvedIs DEF IsResolved
<1>18. CASE parsed.value.is # "nonfinite"
  <2>1. PICK d : d = DecimalOf(parsed.value)
    OBVIOUS
  <2>2. IsDecimal(d)
    BY <1>1, <1>8, <1>18, <2>1, ParseNumberIs, DecimalOfIs
  <2>3. sum = Offset(d, adjustment, subtract)
    BY <1>7, <1>15, <1>18, <2>1 DEF Sum
  <2>4. PICK total : total = Whole(d) + (IF subtract THEN -adjustment ELSE adjustment) * TenTo[Len(d.frac)]
    OBVIOUS
  <2>5. \/ Len(d.frac) = 0 /\ sum = [integer |-> total] /\ total \in Int
        \/ sum = [decimal |-> ScaledText(total, Len(d.frac))] /\ total \in Int
    <3>1. sum # [failed |-> NumericMagnitude]
      BY <1>9
    <3> QED BY <2>2, <2>3, <2>4, <3>1, OffsetIs
  <2>6. Len(d.frac) \in Nat /\ Units(d, Len(d.frac)) = Whole(d)
    BY <2>2, DecimalParts, UnitsIs
  <2>7. TypedNumber(n) /\ Len(DecimalOf(n).frac) <= Len(d.frac) /\ Units(DecimalOf(n), Len(d.frac)) = total
    <3>1. CASE Len(d.frac) = 0 /\ sum = [integer |-> total] /\ total \in Int
      <4>1. n = Integer(total)
        BY <1>11, <3>1
      <4>2. TypedNumber(n) /\ DecimalOf(n) = IntText(total)
        BY <3>1, <4>1 DEF Integer, TypedNumber, DecimalOf
      <4>3. PICK t : t = IntText(total)
        OBVIOUS
      <4>4. IsDecimal(t) /\ t.frac = << >> /\ Whole(t) = total
        BY <3>1, <4>3, IntTextIs
      <4>5. Len(t.frac) = 0 /\ Units(t, Len(t.frac)) = total
        BY <4>4, UnitsIs, EmptySeq
      <4> QED BY <3>1, <4>2, <4>3, <4>5
    <3>2. CASE sum = [decimal |-> ScaledText(total, Len(d.frac))] /\ total \in Int
      <4>1. n = Decimal(ScaledText(total, Len(d.frac)))
        BY <1>11, <3>2
      <4>2. /\ IsDecimal(ScaledText(total, Len(d.frac)))
            /\ Len(ScaledText(total, Len(d.frac)).frac) <= Len(d.frac)
            /\ Units(ScaledText(total, Len(d.frac)), Len(d.frac)) = total
        BY <2>6, <3>2, ScaledTextIs
      <4> QED BY <4>1, <4>2 DEF Decimal, TypedNumber, DecimalOf
    <3> QED BY <2>5, <3>1, <3>2
  <2>8. IsSum(DecimalOf(n), d, AdjustmentOf(opts))
    BY <1>16, <2>4, <2>6, <2>7 DEF IsSum
  <2>9. IsResolved(ResolvedNumber(n, merged.format, selection, inherited.explicit))
    BY <1>14, <2>7, ResolvedIs DEF IsResolved
  <2>10. ResolvedNumber(n, merged.format, selection, inherited.explicit).number = n
    BY DEF ResolvedNumber
  <2> QED BY <1>1, <1>8, <1>12, <2>1, <2>8, <2>9, <2>10
<1> QED BY <1>17, <1>18

-----------------------------------------------------------------------------
(* What a selector sees. *)

\* What is rounded for showing, padded first and then cut, is what the plural
\* rules are asked about: the padding of nothing and the cut at a position are
\* the ways of another code path.
LEMMA RoundedIs ==
  ASSUME NEW d, IsDecimal(d), NEW format, TypedFormat(format)
  PROVE  IsDecimal(Rounded(d, format))
<1>1. /\ format.minSig \in Nat \cup {None} /\ format.maxSig \in Nat \cup {None}
      /\ format.minFrac \in Nat \cup {None} /\ format.maxFrac \in Nat \cup {None}
  BY DEF TypedFormat, Counts
<1>2. IsDecimal(Significant(d, format.minSig, format.maxSig))
  BY <1>1, SignificantIs
<1>3. PICK min \in Nat : min = IF format.minFrac = None THEN 0 ELSE format.minFrac
  <2>1. (IF format.minFrac = None THEN 0 ELSE format.minFrac) \in Nat
    BY <1>1
  <2> QED BY <2>1, Zenon
<1>4. IsDecimal(AtLeast(d, min))
  BY <1>3, AtLeastIs
<1>5. format.maxFrac # None => IsDecimal(RoundText(AtLeast(d, min), format.maxFrac))
  BY <1>1, <1>4, RoundTextIs
<1> QED BY <1>2, <1>3, <1>4, <1>5 DEF Rounded, AtMost

LEMMA PaddedByNone ==
  ASSUME NEW d, IsDecimal(d)
  PROVE  AtLeast(d, 0) = d
<1>1. Len(d.frac) \in Nat /\ d.frac \in Digits
  BY DecimalParts
<1>2. (IF 0 > Len(d.frac) THEN 0 - Len(d.frac) ELSE 0) = 0
  BY <1>1
<1>3. d.frac \o Zeros(0) = d.frac
  BY <1>1, NoZeros, ConcatEmptySeq DEF Digits
<1>4. d.frac \o Zeros(IF 0 > Len(d.frac) THEN 0 - Len(d.frac) ELSE 0) = d.frac
  BY <1>2, <1>3, Zenon
<1>5. [d EXCEPT !.frac = d.frac] = d
  BY DEF IsDecimal, Text
<1>6. AtLeast(d, 0) = [d EXCEPT !.frac = d.frac \o Zeros(IF 0 > Len(d.frac) THEN 0 - Len(d.frac) ELSE 0)]
  BY DEF AtLeast
<1> QED BY <1>4, <1>5, <1>6, Zenon

LEMMA PluralOperandIs ==
  ASSUME NEW number, TypedResolved(number), number.number.is # "nonfinite", ~ Failed(PluralOperand(number))
  PROVE  PluralOperand(number).value = Rounded(DecimalOf(number.number), number.format)
<1>1. PICK d : d = DecimalOf(number.number)
  OBVIOUS
<1>2. PICK f : f = number.format
  OBVIOUS
<1>3. IsDecimal(d) /\ Len(d.frac) \in Nat
  BY <1>1, DecimalOfIs, DecimalParts DEF TypedResolved
<1>4. /\ f.minFrac \in Nat \cup {None} /\ f.maxFrac \in Nat \cup {None}
  BY <1>2 DEF TypedResolved, TypedFormat, Counts
<1>5. CASE f.minSig # None \/ f.maxSig # None
  BY <1>1, <1>2, <1>5 DEF PluralOperand, Rounded, Ok
<1>6. CASE ~ (f.minSig # None \/ f.maxSig # None)
  <2>1. PluralOperand(number).value = RoundedAfter(Padded(d, f.minFrac), f.maxFrac)
    BY <1>1, <1>2, <1>6 DEF PluralOperand, Ok, Fail, Failed
  <2>2. PICK min \in Nat : min = IF f.minFrac = None THEN 0 ELSE f.minFrac
    <3>1. (IF f.minFrac = None THEN 0 ELSE f.minFrac) \in Nat
      BY <1>4
    <3> QED BY <3>1, Zenon
  <2>3. Padded(d, f.minFrac) = AtLeast(d, min)
    <3>1. AtLeast(d, 0) = d
      BY <1>3, PaddedByNone
    <3>2. CASE f.minFrac = None
      BY <2>2, <3>1, <3>2 DEF Padded
    <3>3. CASE f.minFrac # None
      <4>1. min = f.minFrac /\ -(-min) = min
        BY <2>2, <3>3
      <4>2. CASE min > 0
        BY <3>3, <4>1, <4>2 DEF Padded, PadTo
      <4>3. CASE min = 0
        BY <3>1, <3>3, <4>1, <4>3 DEF Padded, PadTo
      <4> QED BY <4>2, <4>3
    <3> QED BY <3>2, <3>3
  <2>4. PICK e : e = AtLeast(d, min)
    OBVIOUS
  <2>5. RoundedAfter(e, f.maxFrac) = AtMost(e, f.maxFrac)
    <3>1. Len(e.frac) \in Nat
      BY <1>3, <2>4, AtLeastIs, DecimalParts
    <3>2. CASE f.maxFrac = None
      BY <3>2 DEF RoundedAfter, AtMost
    <3>3. CASE f.maxFrac # None
      <4>1. f.maxFrac \in Nat /\ -f.maxFrac <= 0 /\ -(-f.maxFrac) = f.maxFrac
        BY <1>4, <3>3
      <4> QED BY <3>1, <3>3, <4>1 DEF RoundedAfter, AtMost, RoundAt, RoundText
    <3> QED BY <3>2, <3>3
  <2>6. Rounded(d, f) = AtMost(AtLeast(d, min), f.maxFrac)
    BY <1>6, <2>2, Zenon DEF Rounded
  <2> QED BY <1>1, <1>2, <2>1, <2>3, <2>4, <2>5, <2>6
<1> QED BY <1>5, <1>6

LEMMA WidenedIs ==
  ASSUME NEW d, IsDecimal(d), NEW display, NEW min \in Counts
  PROVE  SameDigits(d, Widened(Signed(display, d), min))
<1>1. PICK sign : sign = SignShown(display, d)
  OBVIOUS
<1>2. PICK s : s = Signed(display, d)
  OBVIOUS
<1>3. s = Text(sign, d.int, d.frac)
  BY <1>1, <1>2 DEF Signed, IsDecimal, Text
<1>4. IsDecimal(s) /\ s.int = d.int /\ s.frac = d.frac /\ Len(d.int) \in Nat /\ d.int \in Digits
  BY <1>3, TextIs, DecimalParts
<1>5. CASE min = None \/ Len(s.int) >= min
  BY <1>2, <1>4, <1>5 DEF Widened, SameDigits
<1>6. CASE ~ (min = None \/ Len(s.int) >= min)
  <2>1. PICK k \in Nat : k = min - Len(s.int)
    <3>1. min \in Nat
      BY <1>6 DEF Counts
    <3>2. Len(s.int) \in Nat /\ ~ (Len(s.int) >= min)
      BY <1>4, <1>6
    <3>3. min - Len(s.int) \in Nat
      BY <3>1, <3>2
    <3> QED BY <3>3
  <2>2. Zeros(k) \o s.int \in Digits
    BY <1>4, <2>1, ZerosTyped, ConcatProperties DEF Digits
  <2>3. Widened(s, min) = [s EXCEPT !.int = Zeros(k) \o s.int]
    BY <1>6, <2>1 DEF Widened
  <2>4. Widened(s, min) = Text(s.sign, Zeros(k) \o s.int, s.frac)
    BY <1>4, <2>2, <2>3, WithInteger
  <2>5. Widened(s, min).int = Zeros(k) \o d.int /\ Widened(s, min).frac = d.frac
    BY <1>4, <2>4 DEF Text
  <2> QED BY <1>2, <1>4, <2>1, <2>5, CanonicalIs DEF SameDigits
<1> QED BY <1>2, <1>5, <1>6

\* The decimal that a rendered number shows, if it shows one.
LEMMA RenderedOf ==
  ASSUME NEW number, number.number.is # "nonfinite",
         NEW d, d = IF number.format.style = "percent" THEN TimesHundred(DecimalOf(number.number))
                    ELSE DecimalOf(number.number),
         ~ Failed(Render(NoFormatters, number).result),
         "of" \in DOMAIN Render(NoFormatters, number).result.value
  PROVE  Render(NoFormatters, number).result.value.of
           = Widened(Signed(number.format.sign, Rounded(d, number.format)), number.format.minInt)
<1>1. PICK f : f = number.format
  OBVIOUS
<1>2. PICK shown : shown = Widened(Signed(f.sign, Rounded(d, f)), f.minInt)
  OBVIOUS
<1>3. Render(NoFormatters, number) = RenderDecimal(NoFormatters, f, d)
  BY <1>1 DEF Render
<1>4. \A science : "of" \notin DOMAIN RenderScientific(NoFormatters, f, science).result.value
  BY DEF RenderScientific, Answer, Ok
<1>5. RenderDecimal(NoFormatters, f, d) = RenderWith(NoFormatters, f, shown)
  BY <1>2, <1>3, <1>4 DEF RenderDecimal
<1>6. \A cache \in KeyedCaches : \A key, x :
        LET w == Written(Cached(NoFormatters, cache, key, HostFailure), x)
        IN  ~ Failed(w.result) => w.result.value.of = x
  <2> SUFFICES ASSUME NEW cache \in KeyedCaches, NEW key, NEW x
               PROVE  LET w == Written(Cached(NoFormatters, cache, key, HostFailure), x)
                      IN  ~ Failed(w.result) => w.result.value.of = x
    OBVIOUS
  <2>1. PICK a : a = Cached(NoFormatters, cache, key, HostFailure)
    OBVIOUS
  <2>2. IsAnswer(a)
    BY <2>1, CachedAlike, NewIsSound DEF Alike
  <2>3. ~ Failed(Written(a, x).result) => Written(a, x).result.value.of = x
    BY <2>2 DEF Written, IsAnswer, Ok, Failed
  <2> QED BY <2>1, <2>3
<1>7. ~ Failed(RenderWith(NoFormatters, f, shown).result) => RenderWith(NoFormatters, f, shown).result.value.of = shown
  BY <1>6 DEF RenderWith, KeyedCaches
<1>8. Render(NoFormatters, number).result.value.of = shown
  BY <1>3, <1>5, <1>7
<1> QED BY <1>1, <1>2, <1>8

LEMMA RenderedIs ==
  ASSUME NEW number, TypedResolved(number), number.number.is # "nonfinite",
         NEW d, d = IF number.format.style = "percent" THEN TimesHundred(DecimalOf(number.number))
                    ELSE DecimalOf(number.number),
         ~ Failed(Render(NoFormatters, number).result),
         "of" \in DOMAIN Render(NoFormatters, number).result.value
  PROVE  SameDigits(Rounded(d, number.format), Render(NoFormatters, number).result.value.of)
<1>1. PICK f : f = number.format
  OBVIOUS
<1>2. IsDecimal(d)
  BY DecimalOfIs, TimesHundredIs DEF TypedResolved
<1>3. TypedFormat(f)
  BY <1>1 DEF TypedResolved
<1>4. IsDecimal(Rounded(d, f))
  BY <1>2, <1>3, RoundedIs
<1>5. SameDigits(Rounded(d, f), Widened(Signed(f.sign, Rounded(d, f)), f.minInt))
  BY <1>3, <1>4, WidenedIs DEF TypedFormat
<1> QED BY <1>1, <1>5, RenderedOf

-----------------------------------------------------------------------------
(* The texts of calls, and the values of all of them. *)

LEMMA PlainTextIs ==
  ASSUME NEW v, TypedSource(v)
  PROVE  IsText(PlainText(v))
<1>1. v.kind # "formatted" => TypedContent(v)
  BY DEF TypedSource, Source
<1>2. \A d : IsDecimal(d) => IsText(Number(d))
  BY DEF Number, IsText
<1>3. \A w : IsText(Word(w))
  BY DEF Word, IsText
<1>4. CASE v.kind = "int"
  BY <1>1, <1>2, <1>4, IntTextIs DEF PlainText, TypedContent
<1>5. CASE v.kind = "float"
  BY <1>1, <1>2, <1>5 DEF PlainText, TypedContent
<1>6. CASE v.kind = "number"
  BY <1>1, <1>6, NumberTextIs DEF PlainText, TypedContent, TypedResolved
<1>7. CASE v.kind = "formatted"
  BY <1>7 DEF PlainText, IsText
<1>8. CASE v.kind \in TextKinds
  <2>1. PlainText(v) = v.text
    BY <1>8 DEF PlainText, TextKinds
  <2> QED BY <1>1, <1>8, <2>1 DEF TypedContent, TextKinds
<1>9. CASE v.kind \notin TextKinds /\ v.kind # "formatted" /\ v.kind # "number" /\ v.kind # "float" /\ v.kind # "int"
  <2>1. PlainText(v) = Word(v.kind)
    BY <1>9 DEF PlainText, TextKinds
  <2> QED BY <1>3, <2>1
<1> QED BY <1>4, <1>5, <1>6, <1>7, <1>8, <1>9

LEMMA SourceTextIs ==
  ASSUME NEW v, TypedSource(v), TextOf(v) # None
  PROVE  IsText(TextOf(v))
BY DEF TextOf, TypedSource, TypedContent, TextKinds

LEMMA FloatOperandIs ==
  ASSUME NEW v, TypedSource(v), ~ Failed(FloatOperand(v))
  PROVE  IsText(FloatOperand(v).value)
<1> DEFINE Typed(r) == ~ Failed(r) => IsText(r.value)
<1>1. PICK s : s = Source(v)
  OBVIOUS
<1>2. TypedContent(s) /\ s.kind # "formatted"
  BY <1>1 DEF TypedSource
<1>3. \A d : IsDecimal(d) => Typed(Ok(Number(d)))
  BY DEF Ok, Number, IsText
<1>4. \A e : Typed(Fail(e))
  BY DEF Fail, Failed
<1>5. \A d : IsDecimal(d) => IsDecimal(TrimEnd(d))
  BY TrimEndIs
<1>6. Typed(Ok(Word("NaN")))
  BY DEF Ok, Word, IsText
<1>7. \A n : TypedNumber(n) => Typed(Ok(NumberText(n)))
  BY NumberTextIs DEF Ok
<1>8. Typed(FloatOperand(v))
  <2> HIDE DEF Typed
  <2>1. CASE s.kind = "int"
    BY <1>1, <1>2, <1>3, <1>4, <2>1, IntTextIs DEF FloatOperand, TypedContent
  <2>2. CASE s.kind = "float"
    BY <1>1, <1>2, <1>3, <1>5, <2>2 DEF FloatOperand, TypedContent
  <2>3. CASE s.kind = "nonfinite"
    BY <1>1, <1>6, <2>3 DEF FloatOperand
  <2>4. CASE s.kind = "number"
    BY <1>1, <1>2, <1>7, <2>4 DEF FloatOperand, TypedContent, TypedResolved
  <2>5. CASE s.kind # "int" /\ s.kind # "float" /\ s.kind # "nonfinite" /\ s.kind # "number"
    <3>1. PICK text : text = TextOf(s)
      OBVIOUS
    <3>2. text # None => IsText(text)
      <4>1. Source(s) = s
        BY <1>2 DEF Source
      <4> QED BY <1>2, <3>1, <4>1 DEF TextOf, TypedContent, TextKinds
    <3>3. FloatOperand(v) = IF text # None /\ text.as = "number" /\ IsLiteral(text.d)
                            THEN Ok(Number(TrimEnd(text.d))) ELSE Fail(BadOperand)
      BY <1>1, <2>5, <3>1 DEF FloatOperand
    <3> QED BY <1>3, <1>4, <1>5, <3>2, <3>3 DEF IsText
  <2> QED BY <2>1, <2>2, <2>3, <2>4, <2>5
<1> QED BY <1>8

\* A percentage is kept with its two numbers and with what is shown of it.
PercentShows(v) ==
  /\ "datetime" \notin DOMAIN v /\ "currency" \notin DOMAIN v
  /\ PercentNumbers(v.source, v.selection)
  /\ ~ Failed(Render(NoFormatters, AsPercent(v.source)).result)
  /\ v.shown = Render(NoFormatters, AsPercent(v.source)).result.value
RichValue(v) == TypedSource(v) /\ (Selectable(v) => PercentShows(v))

LEMMA UnformattedIsRich ==
  ASSUME NEW v, v.kind # "formatted", TypedContent(v)
  PROVE  RichValue(v)
BY DEF RichValue, TypedSource, Source, Selectable

LEMMA TextIsRich ==
  ASSUME NEW text, IsText(text), NEW kind, kind = "text" \/ kind = "select"
  PROVE  RichValue([kind |-> kind, text |-> text])
<1>1. PICK v : v = [kind |-> kind, text |-> text]
  OBVIOUS
<1>2. v.kind = kind /\ v.text = text
  BY <1>1
<1>3. TypedContent(v) /\ v.kind # "formatted"
  BY <1>2 DEF TypedContent
<1> QED BY <1>1, <1>3, UnformattedIsRich

LEMMA StringIsRich ==
  ASSUME NEW v, TypedSource(v), NEW opts
  PROVE  RichValue(ResolveString(v, opts))
<1>1. \A text, dir : \A hint \in Int \cup {None} : IsText(text) => RichValue(String(text, hint, dir))
  <2> SUFFICES ASSUME NEW text, NEW dir, NEW hint \in Int \cup {None}, IsText(text)
               PROVE  RichValue(String(text, hint, dir))
    OBVIOUS
  <2>1. PICK s : s = String(text, hint, dir)
    OBVIOUS
  <2>2. s.kind = "string" /\ s.text = text /\ s.hint = hint /\ s.dir = dir
    BY <2>1 DEF String
  <2>3. TypedContent(s)
    BY <2>1, <2>2 DEF TypedContent
  <2> QED BY <2>1, <2>2, <2>3, UnformattedIsRich
<1>2. CASE v.kind = "string" /\ Get(opts, "u:dir") = "inherit"
  <2>1. TypedContent(v)
    BY <1>2 DEF TypedSource, Source
  <2>2. PICK dir : dir = IF v.dir = "unspecified" THEN "auto" ELSE v.dir
    OBVIOUS
  <2>3. v = String(v.text, v.hint, v.dir) /\ IsText(v.text) /\ v.hint \in Int \cup {None}
    BY <1>2, <2>1 DEF TypedContent, TextKinds
  <2>4. [v EXCEPT !.dir = dir] = String(v.text, v.hint, dir)
    BY <2>3 DEF String
  <2>5. ResolveString(v, opts) = [v EXCEPT !.dir = dir]
    BY <1>2, <2>2 DEF ResolveString
  <2> QED BY <1>1, <2>3, <2>4, <2>5
<1>3. CASE ~ (v.kind = "string" /\ Get(opts, "u:dir") = "inherit")
  <2>1. PICK hint : hint = IF v.kind = "int" THEN v.n ELSE None
    OBVIOUS
  <2>2. hint \in Int \cup {None}
    BY <2>1 DEF TypedSource, Source, TypedContent
  <2>3. \E dir : ResolveString(v, opts) = String(PlainText(v), hint, dir)
    BY <1>3, <2>1 DEF ResolveString
  <2> QED BY <1>1, <2>2, <2>3, PlainTextIs
<1> QED BY <1>2, <1>3

LEMMA TestsAreRich ==
  ASSUME NEW v, TypedSource(v), NEW opts, NEW selecting
  PROVE  /\ ~ Failed(TestSelect(v, opts, selecting)) => RichValue(TestSelect(v, opts, selecting).value)
         /\ ~ Failed(TestFunction(v, opts)) => RichValue(TestFunction(v, opts).value)
<1> DEFINE Rich(r) == ~ Failed(r) => RichValue(r.value)
<1>1. \A e : Rich(Fail(e))
  BY DEF Fail, Failed
<1>2. \A text : IsText(text) => Rich(Ok([kind |-> "text", text |-> text])) /\ Rich(Ok([kind |-> "select", text |-> text]))
  BY TextIsRich DEF Ok
<1>3. v.kind = "select" => Rich(Ok(v))
  BY UnformattedIsRich DEF TypedSource, Source, Ok
<1>4. PICK number : number = FloatOperand(v)
  OBVIOUS
<1>5. PICK places : places = Get(opts, "decimalPlaces")
  OBVIOUS
<1>6. PICK fixed : fixed = IF number.value.as # "number" THEN number.value
                           ELSE Number(AtLeast(RoundText(number.value.d, Places[places]), Places[places]))
  OBVIOUS
<1>7. ~ Failed(number) => IsText(number.value)
  BY <1>4, FloatOperandIs
<1>8. ~ Failed(number) /\ places \in DOMAIN Places => IsText(fixed)
  <2> SUFFICES ASSUME ~ Failed(number), places \in DOMAIN Places PROVE IsText(fixed)
    OBVIOUS
  <2>1. Places[places] \in Nat
    BY DEF Places, DigitTexts
  <2>2. CASE number.value.as = "number"
    <3>1. IsDecimal(number.value.d)
      BY <1>7, <2>2 DEF IsText
    <3>2. IsDecimal(AtLeast(RoundText(number.value.d, Places[places]), Places[places]))
      BY <2>1, <3>1, RoundTextIs, AtLeastIs
    <3> QED BY <1>6, <2>2, <3>2 DEF Number, IsText
  <2>3. CASE number.value.as # "number"
    BY <1>6, <1>7, <2>3
  <2> QED BY <2>2, <2>3
<1>9. Rich(TestSelect(v, opts, selecting))
  <2> HIDE DEF Rich
  <2>1. Failed(number) => Rich(number)
    BY DEF Rich
  <2>2. TestSelect(v, opts, selecting) =
          IF selecting /\ Get(opts, "fails") = "select" THEN Fail(TestFailure)
          ELSE IF places = None /\ v.kind = "select" THEN Ok(v)
          ELSE IF Failed(number) THEN number
          ELSE IF places = None THEN Ok([kind |-> "select", text |-> number.value])
          ELSE IF places \notin DOMAIN Places THEN Fail(BadOption)
          ELSE Ok([kind |-> "select", text |-> fixed])
    BY <1>4, <1>5, <1>6, Zenon DEF TestSelect
  <2> QED BY <1>1, <1>2, <1>3, <1>7, <1>8, <2>1, <2>2
<1>10. Rich(TestFunction(v, opts))
  <2>1. IsText(PlainText(v))
    BY PlainTextIs
  <2> HIDE DEF Rich
  <2> QED BY <1>1, <1>2, <2>1 DEF TestFunction
<1> QED BY <1>9, <1>10

LEMMA PercentIsRich ==
  ASSUME NEW c, Sound(c), NEW v, TypedSource(v), NEW opts, ~ Failed(ApplyPercent(c, v, opts).result)
  PROVE  RichValue(ApplyPercent(c, v, opts).result.value) /\ Selectable(ApplyPercent(c, v, opts).result.value)
<1>1. PICK resolved : resolved = ResolvePercent(v, opts)
  OBVIOUS
<1>2. \A e : Failed(e) => Failed(Answer(e, c, 0).result)
  BY DEF Answer
<1>3. ~ Failed(resolved)
  BY <1>1, <1>2 DEF ApplyPercent, PercentRendered
<1>4. PICK a : a = Render(c, AsPercent(resolved.value.shown))
  OBVIOUS
<1>5. ApplyPercent(c, v, opts) = PercentShown(a, resolved.value)
  BY <1>1, <1>3, <1>4 DEF ApplyPercent, PercentRendered
<1>6. ~ Failed(a.result)
  BY <1>5 DEF PercentShown, Resolving
<1>7. IsAnswer(a) /\ a.result = Render(NoFormatters, AsPercent(resolved.value.shown)).result
  BY <1>4, RenderAlike DEF Alike
<1>8. PICK w : w = FormattedNumber(resolved.value.shown, a.result.value, resolved.value.selection)
  OBVIOUS
<1>9. ApplyPercent(c, v, opts) = [a EXCEPT !.result = Ok(w)]
  BY <1>5, <1>6, <1>8 DEF PercentShown, Resolving
<1>10. ApplyPercent(c, v, opts).result.value = w
  BY <1>7, <1>9 DEF IsAnswer, Ok
<1>11. /\ w.kind = "formatted" /\ w.source = resolved.value.shown /\ w.selection = resolved.value.selection
       /\ w.shown = a.result.value /\ "datetime" \notin DOMAIN w /\ "currency" \notin DOMAIN w
  BY <1>8 DEF FormattedNumber
<1>12. PercentNumbers(w.source, w.selection)
  BY <1>1, <1>3, <1>11, PercentIs
<1>13. PercentShows(w)
  BY <1>6, <1>7, <1>11, <1>12 DEF PercentShows
<1>14. IsResolved(w.source)
  BY <1>12 DEF PercentNumbers
<1>15. TypedSource(w)
  BY <1>11, <1>14 DEF IsResolved, TypedSource, Source
<1>16. Selectable(w)
  BY <1>8 DEF FormattedNumber, Selectable
<1> QED BY <1>10, <1>13, <1>15, <1>16 DEF RichValue

LEMMA RenderedIsRich ==
  ASSUME NEW c, Sound(c), NEW func \in Rendering, NEW v, TypedSource(v), NEW opts,
         ~ Failed(ResolveRendered(c, func, v, opts).result)
  PROVE  RichValue(ResolveRendered(c, func, v, opts).result.value)
<1>1. PICK a : a = RenderInto(c, func, v, opts)
  OBVIOUS
<1>2. IsAnswer(a)
  BY <1>1, RenderIntoAlike DEF Alike
<1>3. ~ Failed(a.result)
  BY <1>1 DEF ResolveRendered, FormattedAs, Resolving
<1>4. PICK s : s = Source(v)
  OBVIOUS
<1>5. \A x : Resolving(a, x).result.value = x
  BY <1>2, <1>3 DEF Resolving, IsAnswer, Ok
<1>6. \A w : w.kind = "formatted" /\ w.source = s /\ "selection" \notin DOMAIN w => RichValue(w)
  BY <1>4 DEF RichValue, Selectable, TypedSource, Source
<1>7. \A shown, currency : RichValue(FormattedCurrency(s, shown, currency))
  BY <1>6 DEF FormattedCurrency
<1>8. \A shown, options : RichValue(FormattedMoment(s, shown, func, options))
  BY <1>6 DEF FormattedMoment
<1>9. CASE func = "currency"
  BY <1>1, <1>4, <1>5, <1>7, <1>9 DEF ResolveRendered, FormattedAs
<1>10. CASE func # "currency"
  BY <1>1, <1>4, <1>5, <1>8, <1>10 DEF ResolveRendered, FormattedAs
<1> QED BY <1>9, <1>10

LEMMA ResolvedIsRich ==
  ASSUME NEW v, IsResolved(v)
  PROVE  RichValue(v)
BY DEF IsResolved, RichValue, Selectable

LEMMA CallIsRich ==
  ASSUME NEW c, Sound(c), NEW entry, entry # None => entry.func \in Functions, NEW v, TypedSource(v), NEW raw,
         ~ Failed(Call(c, entry, v, raw).result)
  PROVE  RichValue(Call(c, entry, v, raw).result.value)
<1> DEFINE opts == Effective(entry, raw)
           Rich(a) == ~ Failed(a.result) => RichValue(a.result.value)
<1>1. \A r : (~ Failed(r) => RichValue(r.value)) => Rich(Answer(r, c, 0))
  BY DEF Answer
<1>2. \A e : Rich(Answer(Fail(e), c, 0))
  BY DEF Answer, Fail, Failed
<1>3. Rich(ApplyNumber(c, entry, v, opts))
  <2>1. PICK integerOnly : integerOnly = (entry.func = "integer")
    OBVIOUS
  <2>2. ApplyNumber(c, entry, v, opts).result = ResolveNumber(v, opts, integerOnly).result
    BY <2>1 DEF ApplyNumber, ReportingSelect, Answer
  <2> QED BY <2>2, ResolveNumberIs, ResolvedIsRich
<1>4. Rich(ApplyPercent(c, v, opts))
  BY PercentIsRich
<1>5. Rich(Answer(ResolveOffset(v, opts), c, 0))
  <2> HIDE DEF Rich
  <2> QED BY <1>1, OffsetNumberIs, ResolvedIsRich
<1>6. Rich(Answer(Ok(ResolveString(v, opts)), c, 0))
  BY StringIsRich DEF Answer, Ok
<1>7. \A selecting : Rich(Answer(TestSelect(v, opts, selecting), c, 0))
  BY TestsAreRich DEF Answer
<1>8. Rich(Answer(TestFunction(v, opts), c, 0))
  BY TestsAreRich DEF Answer
<1>9. \A func \in Rendering : Rich(ResolveRendered(c, func, v, opts))
  BY RenderedIsRich
<1>10. entry # None => Rich(Apply(c, entry, v, raw, FALSE))
  <2> HIDE DEF opts
  <2> SUFFICES ASSUME entry # None PROVE Rich(Apply(c, entry, v, raw, FALSE))
    OBVIOUS
  <2> HIDE DEF Rich
  <2> QED BY <1>2, <1>3, <1>4, <1>5, <1>6, <1>7, <1>8, <1>9 DEF Apply, Functions, Rendering, opts
<1>11. v.kind = "int" => Rich(Answer(Ok(IntegerNumber(v)), c, 0))
  <2> SUFFICES ASSUME v.kind = "int" PROVE Rich(Answer(Ok(IntegerNumber(v)), c, 0))
    OBVIOUS
  <2>1. v.n \in Int
    BY DEF TypedSource, Source, TypedContent
  <2>2. TypedNumber(Integer(v.n))
    BY <2>1 DEF Integer, TypedNumber
  <2>3. IsResolved(ResolvedNumber(Integer(v.n), NumberDefault, "plural", FALSE))
    <3>1. "plural" \in Selections
      BY DEF Selections, SelectModes
    <3>2. PICK n, f, e : n = Integer(v.n) /\ f = NumberDefault /\ e = FALSE
      OBVIOUS
    <3>3. IsResolved(ResolvedNumber(n, f, "plural", e))
      BY <2>2, <3>1, <3>2, DefaultIsTyped, ResolvedIs DEF IsResolved
    <3> QED BY <3>2, <3>3, Zenon
  <2> QED BY <2>3, ResolvedIsRich DEF IntegerNumber, Answer, Ok
<1>12. Rich(Call(c, entry, v, raw))
  <2> HIDE DEF Rich
  <2> QED BY <1>2, <1>10, <1>11 DEF Call, Plain
<1> QED BY <1>12

LEMMA OperandsAreRich ==
  ASSUME NEW c \in Catalogs, NEW v \in c.operands
  PROVE  RichValue(v)
<1>1. IsOperand(v)
  BY CatalogsAssumption
<1>2. v.kind # "formatted" /\ TypedContent(v)
  BY <1>1 DEF IsOperand, Contentless, TypedContent, TextKinds
<1> QED BY <1>2, UnformattedIsRich

(* The caches hold what they are asked for, and a value is typed and, if it  *)
(* is a percentage, shows the number it was made from.                       *)
RichInv == HostInv /\ RichValue(value)

LEMMA RichInvHolds == Spec => []RichInv
<1>1. Init => RichValue(value)
  BY OperandsAreRich DEF Init
<1>2. HostInv /\ RichValue(value) /\ [Next]_vars => RichValue(value)'
  <2> SUFFICES ASSUME HostInv, RichValue(value), [Next]_vars PROVE RichValue(value)'
    OBVIOUS
  <2>1. ASSUME NEW entry \in catalog.entries, NEW raw \in catalog.raw, Annotate(entry, raw)
        PROVE  RichValue(value')
    <3>1. PICK a \in {Call(caches, entry, value, raw)} :
            value' = IF Failed(a.result) THEN [kind |-> "functionFallback"] ELSE a.result.value
      BY <2>1 DEF Annotate
    <3>2. entry # None => entry.func \in Functions
      BY EntriesAreBuiltins DEF HostInv
    <3>3. CASE Failed(a.result)
      <4>1. value'.kind = "functionFallback"
        BY <3>1, <3>3
      <4>2. value'.kind # "formatted" /\ TypedContent(value')
        BY <4>1 DEF TypedContent, TextKinds
      <4> QED BY <4>2, UnformattedIsRich
    <3>4. CASE ~ Failed(a.result)
      BY <3>1, <3>2, <3>4, CallIsRich DEF HostInv, RichValue
    <3> QED BY <3>3, <3>4
  <2>2. CASE NextOperand
    BY <2>2, OperandsAreRich DEF NextOperand, HostInv
  <2>3. CASE value' = value
    BY <2>3
  <2> QED BY <2>1, <2>2, <2>3 DEF Next, vars, WriteCall, Select, ShowValue
<1> QED BY <1>1, <1>2, HostInvHolds, PTL DEF Spec, RichInv

(***************************************************************************)
(* :offset adds exactly or fails, whatever number it is given and whatever  *)
(* its options are: the sum that checked_offset computes on scaled integers  *)
(* of limited width, and writes back digit by digit, is the sum of the two    *)
(* numbers (BuiltinHost::resolve_offset, checked_offset).                    *)
(***************************************************************************)
THEOREM OffsetAddsExactly == Spec => []OffsetIsExact
<1>1. RichInv => OffsetIsExact
  <2> SUFFICES ASSUME RichInv, NEW entry \in catalog.entries \ {None}, NEW raw \in catalog.raw,
                      entry.func = "offset"
               PROVE  IsSumOf(Call(NoFormatters, entry, value, raw), ParseNumber(value), Effective(entry, raw))
    BY DEF OffsetIsExact
  <2>1. PICK opts : opts = Effective(entry, raw)
    OBVIOUS
  <2>2. PICK a : a = Call(NoFormatters, entry, value, raw)
    OBVIOUS
  <2>3. SUFFICES ASSUME ~ Failed(a.result), ParseNumber(value).value.is # "nonfinite"
                 PROVE  IsSum(DecimalOf(a.result.value.number), DecimalOf(ParseNumber(value).value), AdjustmentOf(opts))
    BY <2>1, <2>2 DEF IsSumOf
  <2>4. a.result = ResolveOffset(value, opts)
    <3>1. \A e : Failed(Answer(Fail(e), NoFormatters, 0).result)
      BY DEF Answer, Fail, Failed
    <3>2. a = Apply(NoFormatters, entry, value, raw, FALSE)
      BY <2>2 DEF Call
    <3>3. a = Answer(ResolveOffset(value, opts), NoFormatters, 0)
      BY <2>1, <2>3, <3>1, <3>2 DEF Apply
    <3> QED BY <3>3 DEF Answer
  <2>5. TypedSource(value)
    BY DEF RichInv, RichValue
  <2> QED BY <2>3, <2>4, <2>5, OffsetNumberIs
<1> QED BY <1>1, RichInvHolds, PTL

\* The number a selector is projected from and the number that is shown.
LEMMA ProjectionSees ==
  ASSUME NEW chosen, TypedResolved(chosen), NEW shown, TypedResolved(shown),
         NEW d, d = IF shown.format.style = "percent" THEN TimesHundred(DecimalOf(shown.number))
                    ELSE DecimalOf(shown.number),
         chosen.number.is # "nonfinite" => shown.number.is # "nonfinite" /\ DecimalOf(chosen.number) = d,
         Rounded(d, chosen.format) = Rounded(d, shown.format),
         ~ Failed(Render(NoFormatters, shown).result)
  PROVE  SeesShown(Project(chosen), Render(NoFormatters, shown).result.value)
<1> SUFFICES ASSUME ~ Failed(Project(chosen)), Project(chosen).value.kind = "category",
                    "of" \in DOMAIN Render(NoFormatters, shown).result.value
             PROVE  SameDigits(Project(chosen).value.of, Render(NoFormatters, shown).result.value.of)
  BY DEF SeesShown
<1>1. chosen.selection \in {"plural", "ordinal"}
  <2>1. CASE chosen.selection \in {"exact", "none"}
    <3>1. Project(chosen) = Ok(chosen)
      BY <2>1 DEF Project
    <3>2. chosen.kind = "number"
      BY DEF TypedResolved, ResolvedNumber
    <3> QED BY <3>1, <3>2 DEF Ok
  <2>2. CASE chosen.selection = "invalid"
    BY <2>2 DEF Project, NullSelector, Ok
  <2> QED BY <2>1, <2>2 DEF TypedResolved, Selections, SelectModes
<1>2. Project(chosen) = Category(chosen.selection, PluralOperand(chosen))
  BY <1>1 DEF Project
<1>3. ~ Failed(PluralOperand(chosen)) /\ Project(chosen).value.of = PluralOperand(chosen).value
  BY <1>2 DEF Category, Ok
<1>4. chosen.number.is # "nonfinite"
  BY <1>3 DEF PluralOperand, Fail, Failed
<1>5. PluralOperand(chosen).value = Rounded(d, shown.format)
  BY <1>3, <1>4, PluralOperandIs
<1> QED BY <1>3, <1>4, <1>5, RenderedIs

(***************************************************************************)
(* A plural selector sees the number the reader sees, whatever the number    *)
(* and its options are: what resolved_plural_category rounds as a decimal    *)
(* has the digits that rendering rounds as text, and the scaled number that   *)
(* a percentage is selected on those that are shown of it.                   *)
(***************************************************************************)
THEOREM SelectorsSeeWhatIsShown == Spec => []SelectionSeesWhatIsShown
<1>1. RichInv => SelectionSeesWhatIsShown
  <2> SUFFICES ASSUME RichInv PROVE SelectionSeesWhatIsShown
    OBVIOUS
  <2>1. ASSUME value.kind = "number", value.format.style = "decimal"
        PROVE  SeesShown(Project(value), FormatDefaultTo(NoFormatters, value, TRUE).result.value)
    <3>1. TypedResolved(value)
      BY <2>1 DEF RichInv, RichValue, TypedSource, Source, TypedContent
    <3>2. FormatDefaultTo(NoFormatters, value, TRUE) = Shown(Render(NoFormatters, value))
      BY <2>1 DEF FormatDefaultTo
    <3>3. PICK a : a = Render(NoFormatters, value)
      OBVIOUS
    <3>4. IsAnswer(a)
      BY <3>3, NewIsSound, RenderAlike DEF Alike
    <3>5. CASE Failed(a.result)
      <4>1. FormatDefaultTo(NoFormatters, value, TRUE).result.value = None
        <5>1. Shown(a) = [a EXCEPT !.result = Ok(None)]
          BY <3>5 DEF Shown
        <5>2. Shown(a).result = Ok(None)
          BY <3>4, <5>1 DEF IsAnswer
        <5>3. Ok(None).value = None
          BY DEF Ok
        <5>4. Shown(a).result.value = None
          BY <5>2, <5>3, Zenon
        <5> QED BY <3>2, <3>3, <5>4, Zenon
      <4> QED BY <4>1 DEF SeesShown
    <3>6. CASE ~ Failed(a.result)
      <4>1. FormatDefaultTo(NoFormatters, value, TRUE).result.value = a.result.value
        BY <3>2, <3>3, <3>6 DEF Shown
      <4>2. PICK d : d = DecimalOf(value.number)
        OBVIOUS
      <4>3. d = IF value.format.style = "percent" THEN TimesHundred(DecimalOf(value.number))
                ELSE DecimalOf(value.number)
        BY <2>1, <4>2
      <4> QED BY <3>1, <3>3, <3>6, <4>1, <4>2, <4>3, ProjectionSees
    <3> QED BY <3>5, <3>6
  <2>2. ASSUME Selectable(value)
        PROVE  SeesShown(Project(value.selection), value.shown)
    <3>1. PercentShows(value)
      BY <2>2 DEF RichInv, RichValue
    <3>2. PICK chosen, source : chosen = value.selection /\ source = value.source
      OBVIOUS
    <3>3. PercentNumbers(source, chosen)
      BY <3>1, <3>2 DEF PercentShows
    <3>4. IsResolved(source) /\ IsResolved(chosen) /\ chosen.format = source.format
      BY <3>3 DEF PercentNumbers
    <3>5. PICK shown : shown = AsPercent(source)
      OBVIOUS
    <3>6. /\ shown.number = source.number /\ shown.selection = source.selection
          /\ shown.format.style = "percent"
          /\ \A field \in FormatFields \ {"style"} : shown.format[field] = source.format[field]
          /\ shown.format = [field \in FormatFields |-> shown.format[field]]
          /\ shown = ResolvedNumber(shown.number, shown.format, shown.selection, shown.explicit)
      <4>1. /\ source = ResolvedNumber(source.number, source.format, source.selection, source.explicit)
            /\ source.format = [field \in FormatFields |-> source.format[field]]
        BY <3>4 DEF IsResolved, TypedResolved, TypedFormat
      <4>2. PICK format : format = [source.format EXCEPT !.style = "percent"]
        OBVIOUS
      <4>3. shown = ResolvedNumber(source.number, format, source.selection, source.explicit)
        BY <3>5, <4>1, <4>2 DEF AsPercent, ResolvedNumber
      <4>4. format = [field \in FormatFields |-> IF field = "style" THEN "percent" ELSE source.format[field]]
        BY <4>1, <4>2
      <4>5. "style" \in FormatFields
        BY DEF FormatFields
      <4>6. /\ format.style = "percent" /\ format = [field \in FormatFields |-> format[field]]
            /\ \A field \in FormatFields \ {"style"} : format[field] = source.format[field]
        BY <4>4, <4>5
      <4>7. shown.format = format /\ shown.number = source.number /\ shown.selection = source.selection
            /\ shown.explicit = source.explicit
        BY <4>3 DEF ResolvedNumber
      <4> QED BY <4>3, <4>6, <4>7
    <3>7. TypedResolved(shown)
      BY <3>4, <3>6 DEF IsResolved, TypedResolved, TypedFormat, FormatFields
    <3>8. PICK d : d = TimesHundred(DecimalOf(shown.number))
      OBVIOUS
    <3>9. Rounded(d, chosen.format) = Rounded(d, shown.format)
      BY <3>4, <3>6 DEF Rounded, FormatFields
    <3>10. chosen.number.is # "nonfinite" => shown.number.is # "nonfinite" /\ DecimalOf(chosen.number) = d
      BY <3>3, <3>6, <3>8 DEF PercentNumbers
    <3>11. d = IF shown.format.style = "percent" THEN TimesHundred(DecimalOf(shown.number))
               ELSE DecimalOf(shown.number)
      BY <3>6, <3>8
    <3>12. ~ Failed(Render(NoFormatters, shown).result) /\ value.shown = Render(NoFormatters, shown).result.value
      BY <3>1, <3>2, <3>5 DEF PercentShows
    <3>13. TypedResolved(chosen)
      BY <3>4 DEF IsResolved
    <3>14. SeesShown(Project(chosen), Render(NoFormatters, shown).result.value)
      BY <3>7, <3>9, <3>10, <3>11, <3>12, <3>13, ProjectionSees
    <3> QED BY <3>2, <3>12, <3>14
  <2> QED BY <2>1, <2>2 DEF SelectionSeesWhatIsShown
<1> QED BY <1>1, RichInvHolds, PTL

-----------------------------------------------------------------------------
(* Showing at once and showing later. *)

\* A stored value shows alike as a text and as fields, or as plain digits.
Shows(w, structured) == FormatDefaultTo(NoFormatters, w, structured).result.value
ShowsAlike(w) == PlainInteger(w) \/ Shows(w, TRUE) = Shows(w, FALSE)

LEMMA UnformattedShows ==
  ASSUME NEW w, w.kind # "formatted"
  PROVE  ShowsAlike(w)
<1>1. PICK yes, no : yes = TRUE /\ no = FALSE
  OBVIOUS
<1>2. CASE w.kind = "number" /\ ~ PlainInteger(w)
  <2>1. FormatDefaultTo(NoFormatters, w, yes) = Shown(Render(NoFormatters, w))
    BY <1>1, <1>2 DEF FormatDefaultTo
  <2>2. FormatDefaultTo(NoFormatters, w, no) = FormatDefault(NoFormatters, w)
    BY <1>1, <1>2 DEF FormatDefaultTo
  <2>3. FormatDefault(NoFormatters, w) = Shown(Render(NoFormatters, w))
    BY <1>2 DEF FormatDefault
  <2>4. Shows(w, yes) = Shows(w, no)
    BY <2>1, <2>2, <2>3 DEF Shows
  <2> QED BY <1>1, <2>4 DEF ShowsAlike
<1>3. CASE w.kind # "number"
  <2>1. \A structured : FormatDefaultTo(NoFormatters, w, structured) = FormatDefault(NoFormatters, w)
    BY <1>3 DEF FormatDefaultTo, PlainInteger
  <2>2. Shows(w, yes) = Shows(w, no)
    BY <2>1 DEF Shows
  <2> QED BY <1>1, <2>2 DEF ShowsAlike
<1> QED BY <1>2, <1>3 DEF ShowsAlike

LEMMA FormattedShows ==
  ASSUME NEW w, w.kind = "formatted"
  PROVE  /\ Shows(w, FALSE) = w.shown
         /\ IsAnswer(FormattedParts(NoFormatters, w)) /\ ~ Failed(FormattedParts(NoFormatters, w).result) =>
              Shows(w, TRUE) = FormattedParts(NoFormatters, w).result.value
<1>1. PICK yes, no : yes = TRUE /\ no = FALSE
  OBVIOUS
<1>2. FormatDefaultTo(NoFormatters, w, no) = Answer(Ok(w.shown), NoFormatters, 0)
  BY <1>1 DEF FormatDefaultTo, FormatDefault, PlainInteger
<1>3. Shows(w, no) = w.shown
  BY <1>2 DEF Shows, Answer, Ok
<1>4. FormatDefaultTo(NoFormatters, w, yes) = Shown(FormattedParts(NoFormatters, w))
  BY <1>1 DEF FormatDefaultTo
<1>5. ~ Failed(FormattedParts(NoFormatters, w).result) => Shows(w, yes) = FormattedParts(NoFormatters, w).result.value
  BY <1>4 DEF Shows, Shown
<1> QED BY <1>1, <1>3, <1>5

LEMMA PercentShowsAlike ==
  ASSUME NEW w, Selectable(w), PercentShows(w)
  PROVE  ShowsAlike(w) /\ Shows(w, FALSE) = w.shown
<1>1. FormattedParts(NoFormatters, w) = Render(NoFormatters, AsPercent(w.source))
  BY DEF FormattedParts, PercentShows
<1>2. IsAnswer(FormattedParts(NoFormatters, w))
  BY <1>1, NewIsSound, RenderAlike DEF Alike
<1>3. ~ Failed(FormattedParts(NoFormatters, w).result) /\ FormattedParts(NoFormatters, w).result.value = w.shown
  BY <1>1 DEF PercentShows
<1>4. w.kind = "formatted"
  BY DEF Selectable
<1> QED BY <1>2, <1>3, <1>4, FormattedShows DEF ShowsAlike

\* What a call resolves without rendering it.
LEMMA UnrenderedShows ==
  ASSUME NEW entry, entry # None => entry.func \in Functions \ Rendering, NEW v, TypedSource(v), NEW raw,
         ~ Failed(Call(NoFormatters, entry, v, raw).result)
  PROVE  ShowsAlike(Call(NoFormatters, entry, v, raw).result.value)
<1> DEFINE c == NoFormatters
           opts == Effective(entry, raw)
           Kept(a) == ~ Failed(a.result) => ShowsAlike(a.result.value)
<1>1. \A r : (~ Failed(r) => r.value.kind # "formatted") => Kept(Answer(r, c, 0))
  BY UnformattedShows DEF Answer
<1>2. \A e : Kept(Answer(Fail(e), c, 0))
  BY DEF Answer, Fail, Failed
<1>3. Kept(ApplyNumber(c, entry, v, opts))
  <2>1. PICK integerOnly : integerOnly = (entry.func = "integer")
    OBVIOUS
  <2>2. ApplyNumber(c, entry, v, opts).result = ResolveNumber(v, opts, integerOnly).result
    BY <2>1 DEF ApplyNumber, ReportingSelect, Answer
  <2> QED BY <2>2, ResolveNumberIs, UnformattedShows DEF IsResolved
<1>4. Kept(ApplyPercent(c, v, opts))
  <2> SUFFICES ASSUME ~ Failed(ApplyPercent(c, v, opts).result)
               PROVE  ShowsAlike(ApplyPercent(c, v, opts).result.value)
    OBVIOUS
  <2>1. PICK w : w = ApplyPercent(c, v, opts).result.value
    OBVIOUS
  <2>2. RichValue(w) /\ Selectable(w)
    BY <2>1, NewIsSound, PercentIsRich
  <2> QED BY <2>1, <2>2, PercentShowsAlike DEF RichValue
<1>5. Kept(Answer(ResolveOffset(v, opts), c, 0))
  <2>1. ~ Failed(ResolveOffset(v, opts)) => ResolveOffset(v, opts).value.kind # "formatted"
    BY OffsetNumberIs DEF IsResolved
  <2> HIDE DEF Kept
  <2> QED BY <1>1, <2>1
<1>6. Kept(Answer(Ok(ResolveString(v, opts)), c, 0))
  <2>1. ResolveString(v, opts).kind = "string"
    <3>1. CASE v.kind = "string" /\ Get(opts, "u:dir") = "inherit"
      <4>1. PICK dir : dir = IF v.dir = "unspecified" THEN "auto" ELSE v.dir
        OBVIOUS
      <4>2. v = String(v.text, v.hint, v.dir)
        BY <3>1 DEF TypedSource, Source, TypedContent
      <4>3. [v EXCEPT !.dir = dir].kind = "string"
        BY <4>2 DEF String
      <4>4. ResolveString(v, opts) = [v EXCEPT !.dir = dir]
        BY <3>1, <4>1 DEF ResolveString
      <4> QED BY <4>3, <4>4
    <3>2. CASE ~ (v.kind = "string" /\ Get(opts, "u:dir") = "inherit")
      BY <3>2 DEF ResolveString, String
    <3> QED BY <3>1, <3>2
  <2>2. Ok(ResolveString(v, opts)).value.kind # "formatted"
    BY <2>1 DEF Ok
  <2> HIDE DEF Kept
  <2> QED BY <1>1, <2>2
<1>7. Kept(Answer(TestSelect(v, opts, FALSE), c, 0))
  <2>1. ~ Failed(TestSelect(v, opts, FALSE)) => TestSelect(v, opts, FALSE).value.kind # "formatted"
    BY DEF TestSelect, Ok, Fail, Failed
  <2> HIDE DEF Kept
  <2> QED BY <1>1, <2>1
<1>8. Kept(Answer(TestFunction(v, opts), c, 0))
  <2>1. ~ Failed(TestFunction(v, opts)) => TestFunction(v, opts).value.kind # "formatted"
    BY DEF TestFunction, Ok, Fail, Failed
  <2> HIDE DEF Kept
  <2> QED BY <1>1, <2>1
<1>9. entry # None => Kept(Apply(c, entry, v, raw, FALSE))
  <2> HIDE DEF opts, c
  <2> SUFFICES ASSUME entry # None PROVE Kept(Apply(c, entry, v, raw, FALSE))
    OBVIOUS
  <2> HIDE DEF Kept
  <2> QED BY <1>2, <1>3, <1>4, <1>5, <1>6, <1>7, <1>8 DEF Apply, Functions, Rendering, opts
<1>10. Kept(Answer(Ok(IntegerNumber(v)), c, 0))
  <2>1. Ok(IntegerNumber(v)).value.kind # "formatted"
    BY DEF IntegerNumber, ResolvedNumber, Ok
  <2> HIDE DEF Kept
  <2> QED BY <1>1, <2>1
<1>11. Kept(Call(c, entry, v, raw))
  <2> HIDE DEF Kept
  <2> QED BY <1>2, <1>9, <1>10 DEF Call
<1> QED BY <1>11

\* A result is a value or an error, and nothing is written yet.
IsResult(r) == DOMAIN r = {"value"} \/ DOMAIN r = {"error"}

LEMMA ResultsAre ==
  /\ \A x : IsResult(Ok(x)) /\ ~ Failed(Ok(x)) /\ Ok(x).value = x
  /\ \A e : IsResult(Fail(e)) /\ Failed(Fail(e))
  /\ \A r, c, n : Answer(r, c, n).result = r
BY DEF IsResult, Ok, Fail, Failed, Answer

LEMMA ParsedIsResult ==
  ASSUME NEW v
  PROVE  IsResult(ParseNumber(v))
<1>1. \A d : IsResult(ParseText(d))
  BY ResultsAre DEF ParseText
<1>2. \A d : IsResult(FloatNumber(d))
  BY <1>1, ResultsAre DEF FloatNumber
<1>3. \A t : IsResult(TextNumber(t))
  BY <1>1, ResultsAre DEF TextNumber
<1> QED BY <1>2, <1>3, ResultsAre DEF ParseNumber

LEMMA RenderIsResult ==
  ASSUME NEW c, NEW number
  PROVE  IsResult(Render(c, number).result)
<1> DEFINE Answered(a) == IsAnswer(a) /\ IsResult(a.result)
<1>1. \A r, n : IsResult(r) => Answered(Answer(r, c, n))
  BY DEF Answer, IsAnswer
<1>2. \A cache, key, failure : Answered(Cached(c, cache, key, failure))
  BY ResultsAre DEF Cached, Answer, IsAnswer
<1>3. \A a, x : Answered(a) => Answered(Written(a, x))
  BY ResultsAre DEF Written, IsAnswer
<1>4. \A format, shown : Answered(RenderWith(c, format, shown))
  <2> HIDE DEF Answered
  <2> QED BY <1>2, <1>3 DEF RenderWith
<1>5. \A format, d : Answered(RenderDecimal(c, format, d))
  <2> HIDE DEF Answered
  <2> QED BY <1>1, <1>4, ResultsAre DEF RenderDecimal, RenderScientific
<1>6. Answered(Render(c, number))
  <2> HIDE DEF Answered
  <2> QED BY <1>1, <1>5, ResultsAre DEF Render
<1> QED BY <1>6

LEMMA UnrenderedIsResult ==
  ASSUME NEW c, NEW entry, entry # None => entry.func \in Functions \ Rendering, NEW v, NEW raw
  PROVE  IsResult(Call(c, entry, v, raw).result)
<1> DEFINE opts == Effective(entry, raw)
           Answered(a) == IsResult(a.result)
<1>1. \A r, n : IsResult(r) => Answered(Answer(r, c, n))
  BY ResultsAre
<1>2. Answered(ApplyNumber(c, entry, v, opts))
  BY ResultsAre, ParsedIsResult DEF ApplyNumber, ReportingSelect, ResolveNumber, ResolveInheriting, NumberOf
<1>3. Answered(ApplyPercent(c, v, opts))
  <2>1. IsResult(ResolvePercent(v, opts))
    <3>1. PICK parsed : parsed = ParseNumber(v)
      OBVIOUS
    <3>2. PICK start : start = PercentStart(Inherited(v, "none").format)
      OBVIOUS
    <3>3. PICK merged : merged = MergedFormat(start, opts, FALSE)
      OBVIOUS
    <3>4. Failed(merged) => IsResult(merged)
      BY <3>3 DEF MergedFormat, Failed, IsResult
    <3>5. IsResult(PercentOf(parsed, merged))
      BY <3>1, <3>4, ParsedIsResult, ResultsAre DEF PercentOf
    <3> QED BY <3>1, <3>2, <3>3, <3>5 DEF ResolvePercent
  <2>2. PICK a : a = Render(c, AsPercent(ResolvePercent(v, opts).value.shown))
    OBVIOUS
  <2>3. IsAnswer(a) /\ IsResult(a.result)
    BY <2>2, RenderIsResult, RenderReports
  <2>4. \A x : Answered(Resolving(a, x))
    BY <2>3, ResultsAre DEF Resolving, IsAnswer
  <2> QED BY <2>1, <2>2, <2>4, ResultsAre DEF ApplyPercent, PercentRendered, PercentShown
<1>4. Answered(Answer(ResolveOffset(v, opts), c, 0))
  <2>1. PICK parsed : parsed = ParseNumber(v)
    OBVIOUS
  <2>2. PICK inherited : inherited = Inherited(v, "plural")
    OBVIOUS
  <2>3. PICK merged : merged = MergedFormat(inherited.format, opts, FALSE)
    OBVIOUS
  <2>4. Failed(merged) => IsResult(merged)
    BY <2>3 DEF MergedFormat, Failed, IsResult
  <2>5. \A sum : IsResult(OffsetOf(parsed, inherited, merged, sum))
    BY <2>4, ResultsAre DEF OffsetOf
  <2>6. \A text, subtract : IsResult(OffsetInheriting(parsed, inherited, opts, text, subtract))
    BY <2>1, <2>3, <2>5, ParsedIsResult, ResultsAre DEF OffsetInheriting
  <2>7. IsResult(ResolveOffset(v, opts))
    BY <2>1, <2>2, <2>6 DEF ResolveOffset
  <2> QED BY <2>7, ResultsAre
<1>5. IsResult(FloatOperand(v))
  BY ResultsAre DEF FloatOperand
<1>6. IsResult(TestSelect(v, opts, FALSE))
  BY <1>5, ResultsAre DEF TestSelect
<1>7. IsResult(TestFunction(v, opts))
  BY ResultsAre DEF TestFunction
<1>8. entry # None => Answered(Apply(c, entry, v, raw, FALSE))
  <2> HIDE DEF opts
  <2> SUFFICES ASSUME entry # None PROVE Answered(Apply(c, entry, v, raw, FALSE))
    OBVIOUS
  <2> HIDE DEF Answered
  <2> QED BY <1>1, <1>2, <1>3, <1>4, <1>6, <1>7, ResultsAre DEF Apply, Functions, Rendering, opts
<1>9. Answered(Call(c, entry, v, raw))
  <2>1. Answered(Answer(Fail(UnknownFunction), c, 0)) /\ Answered(Answer(Ok(IntegerNumber(v)), c, 0))
    BY <1>1, ResultsAre
  <2> HIDE DEF Answered
  <2> QED BY <1>8, <2>1 DEF Call
<1> QED BY <1>9

LEMMA SameAnswerShows ==
  ASSUME NEW a, IsResult(a.result), ~ Failed(a.result) => ShowsAlike(a.result.value), NEW hourIsLost
  PROVE  ShownInBothWays(a, a, hourIsLost)
<1>1. "written" \notin DOMAIN a.result
  BY DEF IsResult
<1>2. CASE Failed(a.result)
  BY <1>1, <1>2 DEF ShownInBothWays, AtOnce, ShownOf
<1>3. CASE ~ Failed(a.result)
  <2>1. PICK w : w = a.result.value
    OBVIOUS
  <2>2. \A structured : ShownOf(a, structured) = Shows(w, structured)
    BY <1>3, <2>1 DEF ShownOf, Shows
  <2>3. CASE PlainInteger(w)
    BY <1>3, <2>1, <2>3 DEF ShownInBothWays, AreDigits
  <2>4. CASE ~ PlainInteger(w)
    <3>1. Shows(w, TRUE) = Shows(w, FALSE)
      BY <1>3, <2>1, <2>4 DEF ShowsAlike
    <3>2. \A structured \in BOOLEAN : Shows(w, FALSE) = Shows(w, structured)
      BY <3>1
    <3>3. \A structured \in BOOLEAN : AtOnce(a, ShownOf(a, FALSE)) = ShownOf(a, structured)
      BY <1>1, <2>2, <3>2 DEF AtOnce
    <3> QED BY <3>3 DEF ShownInBothWays
  <2> QED BY <2>3, <2>4
<1> QED BY <1>2, <1>3

LEMMA WrittenShows ==
  ASSUME NEW direct, NEW stored, NEW hourIsLost, NEW x, direct.result = [written |-> x], ~ Failed(stored.result),
         Shows(stored.result.value, FALSE) = x,
         ~ hourIsLost => Shows(stored.result.value, TRUE) = x
  PROVE  ShownInBothWays(direct, stored, hourIsLost)
<1>1. ~ Failed(direct.result)
  BY DEF Failed
<1>2. \A shown : AtOnce(direct, shown) = x
  BY DEF AtOnce
<1>3. \A structured \in BOOLEAN : ~ (structured /\ hourIsLost) => Shows(stored.result.value, structured) = x
  OBVIOUS
<1>4. \A structured : ShownOf(stored, structured) = Shows(stored.result.value, structured)
  BY DEF ShownOf, Shows
<1> QED BY <1>1, <1>2, <1>3, <1>4 DEF ShownInBothWays

LEMMA FailedShows ==
  ASSUME NEW direct, NEW stored, NEW hourIsLost, IsResult(direct.result), Failed(direct.result), Failed(stored.result)
  PROVE  ShownInBothWays(direct, stored, hourIsLost)
BY DEF ShownInBothWays, AtOnce, ShownOf, IsResult

LEMMA RenderIntoIsResult ==
  ASSUME NEW func \in Rendering, NEW v, NEW opts, Failed(RenderInto(NoFormatters, func, v, opts).result)
  PROVE  IsResult(RenderInto(NoFormatters, func, v, opts).result)
<1> DEFINE Answered(a) == IsAnswer(a) /\ IsResult(a.result)
           c == NoFormatters
<1>1. \A r, n : IsResult(r) => Answered(Answer(r, c, n))
  BY DEF Answer, IsAnswer
<1>2. \A cache, key, failure : Answered(Cached(c, cache, key, failure))
  BY ResultsAre DEF Cached, Answer, IsAnswer
<1>3. \A cache, slot, request, failure : Answered(Slotted(c, cache, slot, request, failure))
  BY ResultsAre DEF Slotted, Answer, IsAnswer
<1>4. \A a, x : Answered(a) => Answered(Written(a, x))
  BY ResultsAre DEF Written, IsAnswer
<1>5. \A parsed, key : Answered(CurrencyWritten(c, parsed, key))
  <2> HIDE DEF Answered, c
  <2> QED BY <1>1, <1>2, <1>4, ResultsAre DEF CurrencyWritten
<1>6. \A options, m : Answered(FormatMoment(c, func, options, m))
  <2> HIDE DEF Answered, c
  <2>1. CASE func = "date"
    BY <1>3, <1>4, <2>1 DEF FormatMoment
  <2>2. CASE func = "time"
    BY <1>3, <1>4, <2>2 DEF FormatMoment
  <2>3. CASE func = "datetime"
    <3> SUFFICES ASSUME NEW options, NEW m PROVE Answered(FormatMoment(c, func, options, m))
      OBVIOUS
    <3>1. CASE "fields" \in DOMAIN options
      BY <1>1, <1>2, <1>4, <2>3, <3>1, ResultsAre DEF FormatMoment
    <3>2. CASE "fields" \notin DOMAIN options
      BY <1>3, <1>4, <2>3, <3>2 DEF FormatMoment
    <3> QED BY <3>1, <3>2
  <2>4. CASE func = "currency"
    <3> SUFFICES ASSUME NEW options, NEW m PROVE Answered(FormatMoment(c, func, options, m))
      OBVIOUS
    <3> QED BY <1>3, <1>4, <2>4 DEF FormatMoment
  <2> QED BY <2>1, <2>2, <2>3, <2>4 DEF Rendering
<1>7. func # "currency" => IsResult(MomentOptions(func, opts))
  <2>1. PICK fields : fields = FieldSet(opts)
    OBVIOUS
  <2>2. Failed(fields) => IsResult(fields)
    BY <2>1 DEF FieldSet, Failed, IsResult
  <2>3. IsResult(OkFields(fields)) 
    BY <2>2, ResultsAre DEF OkFields
  <2>4. CASE func = "date"
    BY <2>4, ResultsAre DEF MomentOptions
  <2>5. CASE func = "time"
    BY <2>5, ResultsAre DEF MomentOptions
  <2>6. CASE func = "datetime"
    BY <2>1, <2>3, <2>6, ResultsAre DEF MomentOptions
  <2> QED BY <2>4, <2>5, <2>6 DEF Rendering
<1>8. IsResult(Moment(v, func))
  <2>1. \A date : IsResult(ParsedMoment(date))
    BY ResultsAre DEF ParsedMoment
  <2> QED BY <2>1, ResultsAre DEF Moment
<1>9. func # "currency" => Answered(RenderMoment(c, func, v, opts))
  <2> HIDE DEF Answered, c
  <2> QED BY <1>1, <1>6, <1>7, <1>8, ResultsAre DEF RenderMoment, MomentWritten
<1>10. Answered(RenderInto(c, func, v, opts))
  <2> HIDE DEF Answered, c
  <2> QED BY <1>5, <1>9 DEF RenderInto, RenderCurrency
<1> QED BY <1>10

LocaleHasDecimals == Supports([cache |-> "decimal", key |-> DecimalKey(NumberDefault)])

\* A new formatter, and what is written with it.
NewFormatter(cache, key) == [by |-> cache, for |-> key]
LEMMA WrittenAnew ==
  ASSUME NEW cache \in KeyedCaches, NEW key, NEW failure, NEW x
  PROVE  LET a == Written(Cached(NoFormatters, cache, key, failure), x)
         IN  /\ IsAnswer(a) /\ IsResult(a.result)
             /\ Failed(a.result) <=> ~ Supports([cache |-> cache, key |-> key])
             /\ ~ Failed(a.result) => a.result.value = [formatter |-> NewFormatter(cache, key), of |-> x]
<1>1. ~ SameKey(NoFormatters[cache], key)
  BY DEF NoFormatters, SameKey, KeyedCaches
<1>2. CASE Supports([cache |-> cache, key |-> key])
  <2>1. PICK f : f = NewFormatter(cache, key)
    OBVIOUS
  <2>2. PICK a : a = Cached(NoFormatters, cache, key, failure)
    OBVIOUS
  <2>3. a.result = Ok(f) /\ IsAnswer(a)
    BY <1>1, <1>2, <2>1, <2>2 DEF Cached, NewFormatter, Answer, IsAnswer
  <2>4. Written(a, x) = [a EXCEPT !.result = Ok([formatter |-> f, of |-> x])]
    BY <2>3, ResultsAre DEF Written
  <2>5. Written(a, x).result = Ok([formatter |-> f, of |-> x]) /\ IsAnswer(Written(a, x))
    BY <2>3, <2>4 DEF IsAnswer
  <2> QED BY <1>2, <2>1, <2>2, <2>5, ResultsAre
<1>3. CASE ~ Supports([cache |-> cache, key |-> key])
  <2>1. Cached(NoFormatters, cache, key, failure) = Answer(Fail(failure), NoFormatters, 0)
    BY <1>1, <1>3 DEF Cached
  <2>2. Written(Answer(Fail(failure), NoFormatters, 0), x) = Answer(Fail(failure), NoFormatters, 0)
    BY ResultsAre DEF Written
  <2>3. IsAnswer(Answer(Fail(failure), NoFormatters, 0))
    BY DEF Answer, IsAnswer
  <2> QED BY <1>3, <2>1, <2>2, <2>3, ResultsAre
<1> QED BY <1>2, <1>3

LEMMA WroteIs ==
  ASSUME NEW a, IsAnswer(a), IsResult(a.result)
  PROVE  /\ Failed(a.result) => Wrote(a) = a
         /\ ~ Failed(a.result) => Wrote(a).result = [written |-> a.result.value]
BY DEF Wrote, IsAnswer

\* An integer without options is written by the locale at once, and kept as plain digits.
LEMMA PlainNumberShows ==
  ASSUME LocaleHasDecimals, NEW entry, entry # None, entry.func \in Choosing, NEW v, NEW raw,
         Plain(entry, v, raw), NEW hourIsLost
  PROVE  ShownInBothWays(CallTo(NoFormatters, entry, v, raw), Call(NoFormatters, entry, v, raw), hourIsLost)
<1>1. PICK key : key = DecimalKey(NumberDefault)
  OBVIOUS
<1>2. PICK w : w = Written(Cached(NoFormatters, "decimal", key, HostFailure), IntText(v.n))
  OBVIOUS
<1>3. IsAnswer(w) /\ IsResult(w.result) /\ ~ Failed(w.result)
  BY <1>1, <1>2, WrittenAnew DEF KeyedCaches, LocaleHasDecimals
<1>4. CallTo(NoFormatters, entry, v, raw) = Wrote(w)
  BY <1>1, <1>2, Zenon DEF CallTo, Choosing
<1>5. ~ Failed(CallTo(NoFormatters, entry, v, raw).result)
  <2>1. Wrote(w).result = [written |-> w.result.value]
    BY <1>3, WroteIs
  <2> QED BY <1>4, <2>1 DEF Failed
<1>6. PICK n : n = IntegerNumber(v)
  OBVIOUS
<1>7. Call(NoFormatters, entry, v, raw) = Answer(Ok(n), NoFormatters, 0)
  BY <1>6, Zenon DEF Call, Choosing
<1>8. PlainInteger(n)
  BY <1>6 DEF PlainInteger, IntegerNumber, ResolvedNumber, Integer
<1>9. AreDigits(Call(NoFormatters, entry, v, raw)) /\ ~ Failed(Call(NoFormatters, entry, v, raw).result)
  BY <1>7, <1>8, ResultsAre DEF AreDigits
<1> QED BY <1>5, <1>9 DEF ShownInBothWays

\* What is written at once of a currency or a moment is what its fields are made of.
LEMMA RenderingShows ==
  ASSUME NEW entry, entry # None, entry.func \in Rendering, NEW v, TypedSource(v), NEW raw
  PROVE  ShownInBothWays(CallTo(NoFormatters, entry, v, raw), Call(NoFormatters, entry, v, raw), LosesHour(entry, v))
<1>1. PICK func \in Rendering : func = entry.func
  OBVIOUS
<1>2. PICK opts : opts = Effective(entry, raw)
  OBVIOUS
<1>3. func \notin {"string", "number", "integer", "percent", "offset", "test:select", "test:function", "test:format"}
  BY <1>1 DEF Rendering
<1>4. CASE v.kind = "functionFallback" \/ ~ Valid(func, opts)
  <2>1. PICK e : CallTo(NoFormatters, entry, v, raw) = Answer(Fail(e), NoFormatters, 0)
    BY <1>1, <1>2, <1>3, <1>4 DEF CallTo
  <2>2. PICK f : Call(NoFormatters, entry, v, raw) = Answer(Fail(f), NoFormatters, 0)
    BY <1>1, <1>2, <1>3, <1>4 DEF Call, Apply
  <2> QED BY <2>1, <2>2, ResultsAre, FailedShows
<1>5. CASE v.kind # "functionFallback" /\ Valid(func, opts)
  <2>1. PICK a : a = RenderInto(NoFormatters, func, v, opts)
    OBVIOUS
  <2>2. CallTo(NoFormatters, entry, v, raw) = Wrote(a)
    BY <1>1, <1>2, <1>3, <1>5, <2>1 DEF CallTo
  <2>3. Call(NoFormatters, entry, v, raw) = FormattedAs(a, func, v, opts)
    BY <1>1, <1>2, <1>3, <1>5, <2>1 DEF Call, Apply, ResolveRendered
  <2>4. IsAnswer(a)
    BY <2>1, NewIsSound, RenderIntoAlike DEF Alike
  <2>5. CASE Failed(a.result)
    <3>1. Wrote(a) = a /\ FormattedAs(a, func, v, opts) = a
      BY <2>5 DEF Wrote, FormattedAs, Resolving
    <3>2. IsResult(a.result)
      BY <2>1, <2>5, RenderIntoIsResult
    <3> QED BY <2>2, <2>3, <2>5, <3>1, <3>2, FailedShows
  <2>6. CASE ~ Failed(a.result)
    <3>1. PICK x : x = a.result.value
      OBVIOUS
    <3>2. Wrote(a).result = [written |-> x]
      BY <2>4, <2>6, <3>1 DEF Wrote, IsAnswer
    <3>3. \A w : Resolving(a, w).result = Ok(w)
      BY <2>4, <2>6 DEF Resolving, IsAnswer
    <3>4. CASE func = "currency"
      <4>1. PICK key : key = CurrencyOptions(v, opts)
        OBVIOUS
      <4>2. PICK w : w = FormattedCurrency(Source(v), x, key)
        OBVIOUS
      <4>3. FormattedAs(a, func, v, opts) = Resolving(a, w)
        BY <3>1, <3>4, <4>1, <4>2 DEF FormattedAs
      <4>4. /\ w.kind = "formatted" /\ w.shown = x /\ w.currency = key /\ Source(w) = Source(v)
            /\ "currency" \in DOMAIN w /\ "datetime" \notin DOMAIN w
        BY <4>2 DEF FormattedCurrency, Source
      <4>5. PICK number : number = DecimalOf(ParseNumber(v).value)
        OBVIOUS
      <4>6. a = Written(Cached(NoFormatters, "currency", key, HostFailure), number)
        <5>1. a = CurrencyWritten(NoFormatters, ParseNumber(v), key)
          BY <2>1, <3>4, <4>1 DEF RenderInto, RenderCurrency
        <5> QED BY <2>6, <4>5, <5>1, ResultsAre DEF CurrencyWritten
      <4>7. ParseNumber(w) = ParseNumber(v)
        BY <4>4 DEF ParseNumber
      <4>8. FormattedParts(NoFormatters, w) = a
        BY <4>4, <4>5, <4>6, <4>7 DEF FormattedParts
      <4>9. Shows(w, FALSE) = x /\ Shows(w, TRUE) = x
        BY <2>4, <2>6, <3>1, <4>4, <4>8, FormattedShows
      <4>10. Call(NoFormatters, entry, v, raw).result = Ok(w)
        BY <2>3, <3>3, <4>3
      <4> QED BY <2>2, <3>2, <4>9, <4>10, ResultsAre, WrittenShows
    <3>5. CASE func # "currency"
      <4>1. PICK options : options = MomentOptions(func, opts)
        OBVIOUS
      <4>2. PICK w : w = FormattedMoment(Source(v), x, func, options.value)
        OBVIOUS
      <4>3. FormattedAs(a, func, v, opts) = Resolving(a, w)
        BY <3>1, <3>5, <4>1, <4>2 DEF FormattedAs
      <4>4. /\ w.kind = "formatted" /\ w.shown = x /\ Source(w) = Source(v)
            /\ "datetime" \in DOMAIN w /\ w.datetime.func = func /\ w.datetime.options = options.value
        BY <4>2 DEF FormattedMoment, Source
      <4>5. PICK m : m = Moment(v, func)
        OBVIOUS
      <4>6. ~ Failed(m) /\ a = FormatMoment(NoFormatters, func, options.value, m.value)
        <5>1. a = MomentWritten(NoFormatters, func, m, opts, options)
          BY <2>1, <3>5, <4>1, <4>5 DEF RenderInto, RenderMoment
        <5> QED BY <2>6, <5>1, ResultsAre DEF MomentWritten
      <4>7. ~ LosesHour(entry, v) => m = SourceMoment(w)
        <5>1. SUFFICES ASSUME ~ LosesHour(entry, v) PROVE m = SourceMoment(w)
          OBVIOUS
        <5>2. PICK text : text = TextOf(v)
          OBVIOUS
        <5>3. text # None /\ text.as = "date" /\ (TakenAsIs(text.date, func) \/ text.date.dashes)
          BY <4>5, <4>6, <5>2, ResultsAre DEF Moment
        <5>4. IsText(text)
          BY <5>2, <5>3, SourceTextIs
        <5>5. ~ HourIsLost(text.date, func)
          <6>1. CASE func = "time"
            BY <1>1, <5>1, <5>2, <5>3, <6>1 DEF LosesHour
          <6>2. CASE func = "date"
            BY <5>3, <6>2 DEF HourIsLost, TakenAsIs
          <6>3. CASE func = "datetime"
            BY <5>3, <5>4, <6>3 DEF HourIsLost, TakenAsIs, IsText
          <6> QED BY <3>5, <6>1, <6>2, <6>3 DEF Rendering
        <5>6. m = ParsedMoment(text.date)
          BY <4>5, <5>2, <5>3, <5>5 DEF Moment
        <5>7. TextOf(w) = text
          BY <4>4, <5>2 DEF TextOf
        <5> QED BY <5>6, <5>7 DEF SourceMoment
      <4>8. ~ LosesHour(entry, v) => FormattedParts(NoFormatters, w) = a
        BY <4>4, <4>6, <4>7 DEF FormattedParts, MomentParts
      <4>9. Shows(w, FALSE) = x /\ (~ LosesHour(entry, v) => Shows(w, TRUE) = x)
        BY <2>4, <2>6, <3>1, <4>4, <4>8, FormattedShows
      <4>10. Call(NoFormatters, entry, v, raw).result = Ok(w)
        BY <2>3, <3>3, <4>3
      <4> QED BY <2>2, <3>2, <4>9, <4>10, ResultsAre, WrittenShows
    <3> QED BY <3>4, <3>5
  <2> QED BY <2>5, <2>6
<1> QED BY <1>4, <1>5

\* The short way of an integer percentage writes what the long way shows.
PercentFormat == [NumberDefault EXCEPT !.minFrac = 0, !.maxFrac = 0]
PercentStyled == [PercentFormat EXCEPT !.style = "percent"]

LEMMA PlainPercentResolved ==
  ASSUME NEW opts, \A key : ~ Given(opts, key), NEW v, v.kind = "int"
  PROVE  ~ Failed(ResolvePercent(v, opts))
         /\ ResolvePercent(v, opts).value.shown = ResolvedNumber(Integer(v.n), PercentFormat, "plural", FALSE)
<1>1. PICK start : start = [NumberDefault EXCEPT !.minFrac = 0]
  OBVIOUS
<1>2. start.minFrac = 0 /\ start.maxFrac = None /\ start.minSig = None /\ start.maxSig = None
  BY <1>1 DEF NumberDefault
<1>3. PercentStart(Inherited(v, "none").format) = start
  <2>1. Inherited(v, "none").format = NumberDefault
    BY DEF Inherited, Source
  <2>2. PercentStart(NumberDefault) = start
    <3>1. NumberDefault.minFrac = None /\ NumberDefault.minInt = None
      BY DEF NumberDefault
    <3>2. PercentStart(NumberDefault) = [NumberDefault EXCEPT !.minFrac = 0, !.minInt = None]
      BY <3>1, Zenon DEF PercentStart
    <3>3. [NumberDefault EXCEPT !.minFrac = 0, !.minInt = None] = [NumberDefault EXCEPT !.minFrac = 0]
      <4>1. PICK d : d = NumberDefault
        OBVIOUS
      <4>2. d = [field \in FormatFields |-> d[field]] /\ d.minInt = None /\ "minInt" # "minFrac"
        BY <4>1 DEF NumberDefault, FormatFields
      <4>3. [d EXCEPT !.minFrac = 0, !.minInt = None]
              = [field \in FormatFields |-> IF field = "minInt" THEN None ELSE IF field = "minFrac" THEN 0 ELSE d[field]]
        BY <4>2
      <4>4. [d EXCEPT !.minFrac = 0] = [field \in FormatFields |-> IF field = "minFrac" THEN 0 ELSE d[field]]
        BY <4>2
      <4>5. \A field \in FormatFields : (IF field = "minInt" THEN None ELSE IF field = "minFrac" THEN 0 ELSE d[field])
                                          = (IF field = "minFrac" THEN 0 ELSE d[field])
        BY <4>2
      <4>6. [d EXCEPT !.minFrac = 0, !.minInt = None] = [d EXCEPT !.minFrac = 0]
        BY <4>3, <4>4, <4>5
      <4> QED BY <4>1, <4>6
    <3> QED BY <1>1, <3>2, <3>3
  <2> QED BY <2>1, <2>2
<1>4. MergedFormat(start, opts, FALSE) = [format |-> start]
  <2>1. GoodDigits(opts) /\ GoodWords(opts)
    BY DEF GoodDigits, GoodWords, Among
  <2>2. \A field : DigitOf(start, opts, field) = start[field]
    BY DEF DigitOf
  <2>3. /\ ~ Given(opts, "numberingSystem")
        /\ \A field \in {"style", "sign", "notation", "grouping"} : ~ Given(opts, WordKeys[field])
    OBVIOUS
  <2>4. /\ Ordered(DigitOf(start, opts, "minFrac"), DigitOf(start, opts, "maxFrac"))
        /\ Ordered(DigitOf(start, opts, "minSig"), DigitOf(start, opts, "maxSig"))
    BY <1>2, <2>2 DEF Ordered
  <2>5. PICK no \in BOOLEAN : no = FALSE
    OBVIOUS
  <2>6. start = [minFrac |-> start.minFrac, maxFrac |-> start.maxFrac, minSig |-> start.minSig,
                 maxSig |-> start.maxSig, minInt |-> start.minInt, numbering |-> start.numbering,
                 style |-> start.style, sign |-> start.sign, notation |-> start.notation,
                 grouping |-> start.grouping]
    BY <1>1 DEF NumberDefault
  <2>7. MergedFormat(start, opts, no) = [format |-> start]
    BY <2>1, <2>2, <2>3, <2>4, <2>5, <2>6 DEF MergedFormat
  <2> QED BY <2>5, <2>7
<1>5. ParseNumber(v) = Ok(Integer(v.n))
  BY DEF ParseNumber, Source
<1>6. [start EXCEPT !.maxFrac = IF @ = None THEN start.minFrac ELSE @] = PercentFormat
  BY <1>1 DEF PercentFormat, NumberDefault
<1>7. ResolvePercent(v, opts) = PercentOf(Ok(Integer(v.n)), [format |-> start])
  BY <1>3, <1>4, <1>5 DEF ResolvePercent
<1>8. PICK parsed, merged : parsed = Ok(Integer(v.n)) /\ merged = [format |-> start]
  OBVIOUS
<1>9. ~ Failed(parsed) /\ ~ Failed(merged) /\ merged.format = start /\ parsed.value = Integer(v.n)
  BY <1>8, ResultsAre DEF Failed
<1>10. PICK scaled : scaled = IF parsed.value.is = "nonfinite" THEN NonFinite
                              ELSE ParseText(TimesHundred(DecimalOf(parsed.value))).value
  OBVIOUS
<1>11. PercentOf(parsed, merged) = Ok([shown     |-> ResolvedNumber(parsed.value, PercentFormat, "plural", FALSE),
                                       selection |-> ResolvedNumber(scaled, PercentFormat, "plural", FALSE)])
  BY <1>6, <1>9, <1>10 DEF PercentOf
<1>12. ~ Failed(PercentOf(parsed, merged))
       /\ PercentOf(parsed, merged).value.shown = ResolvedNumber(parsed.value, PercentFormat, "plural", FALSE)
  <2>1. PICK r : r = [shown     |-> ResolvedNumber(parsed.value, PercentFormat, "plural", FALSE),
                      selection |-> ResolvedNumber(scaled, PercentFormat, "plural", FALSE)]
    OBVIOUS
  <2>2. r.shown = ResolvedNumber(parsed.value, PercentFormat, "plural", FALSE)
    BY <2>1
  <2> QED BY <1>11, <2>1, <2>2, ResultsAre
<1> QED BY <1>7, <1>8, <1>9, <1>12

LEMMA PlainPercentRendered ==
  ASSUME NEW n \in Int
  PROVE  Render(NoFormatters, AsPercent(ResolvedNumber(Integer(n), PercentFormat, "plural", FALSE)))
           = Written(Cached(NoFormatters, "percent", PercentKey(NumberDefault, "standard"), HostFailure),
                     TimesHundred(IntText(n)))
<1>1. PICK d : d = TimesHundred(IntText(n))
  OBVIOUS
<1>2. IsDecimal(d) /\ d.frac = << >> /\ d.sign \in PlainSigns /\ Len(d.int) \in Nat
  BY <1>1, IntTextIs, TimesHundredIs, DecimalParts
<1>3. PICK f : f = PercentStyled
  OBVIOUS
<1>4. /\ f.minSig = None /\ f.maxSig = None /\ f.minFrac = 0 /\ f.maxFrac = 0 /\ f.minInt = None
      /\ f.sign = "auto" /\ f.notation = "standard" /\ f.style = "percent"
      /\ f.grouping = NumberDefault.grouping /\ f.numbering = NumberDefault.numbering
  BY <1>3 DEF PercentStyled, PercentFormat, NumberDefault
<1>5. PICK number : number = AsPercent(ResolvedNumber(Integer(n), PercentFormat, "plural", FALSE))
  OBVIOUS
<1>6. number.format = f /\ number.number = Integer(n)
  BY <1>3, <1>5 DEF AsPercent, ResolvedNumber, PercentStyled, PercentFormat, NumberDefault
<1>7. number.number.is = "integer" /\ DecimalOf(number.number) = IntText(n)
  BY <1>6 DEF Integer, DecimalOf
<1>8. Render(NoFormatters, number) = RenderDecimal(NoFormatters, f, d)
  BY <1>1, <1>4, <1>6, <1>7 DEF Render
<1>9. AtLeast(d, 0) = d
  BY <1>2, PaddedByNone
<1>10. Rounded(d, f) = d
  <2>1. 0 # None
    BY NoneIsNoCount
  <2>2. Rounded(d, f) = AtMost(AtLeast(d, 0), 0)
    BY <1>4, <2>1 DEF Rounded
  <2>3. Len(d.frac) <= 0
    BY <1>2, EmptySeq
  <2> QED BY <1>9, <2>1, <2>2, <2>3 DEF AtMost, RoundText
<1>11. Signed("auto", d) = d
  <2>1. SignShown("auto", d) = d.sign
    BY DEF SignShown
  <2>2. [d EXCEPT !.sign = d.sign] = d
    BY <1>2 DEF IsDecimal, Text
  <2> QED BY <2>1, <2>2 DEF Signed
<1>12. Widened(Signed(f.sign, Rounded(d, f)), f.minInt) = d
  BY <1>4, <1>10, <1>11 DEF Widened
<1>13. RenderDecimal(NoFormatters, f, d) = RenderWith(NoFormatters, f, d)
  BY <1>4, <1>12 DEF RenderDecimal
<1>14. d.sign # "+"
  BY <1>2 DEF PlainSigns
<1>15. PercentKey(f, "standard") = PercentKey(NumberDefault, "standard")
  BY <1>4 DEF PercentKey
<1>16. RenderWith(NoFormatters, f, d)
         = Written(Cached(NoFormatters, "percent", PercentKey(f, "standard"), HostFailure), d)
  BY <1>4, <1>14 DEF RenderWith
<1> QED BY <1>1, <1>5, <1>8, <1>13, <1>15, <1>16

LEMMA PlainPercentShows ==
  ASSUME NEW entry, entry # None, entry.func = "percent", NEW v, TypedSource(v), NEW raw,
         Plain(entry, v, raw), NEW hourIsLost
  PROVE  ShownInBothWays(CallTo(NoFormatters, entry, v, raw), Call(NoFormatters, entry, v, raw), hourIsLost)
<1>1. PICK opts : opts = Effective(entry, raw)
  OBVIOUS
<1>2. /\ v.kind = "int" /\ v.n \in Int
  BY DEF Plain, TypedSource, Source, TypedContent
<1>3. \A key : ~ Given(opts, key)
  BY <1>1 DEF Plain, Given, Get, Effective, Resolved
<1>4. Valid("percent", opts)
  <2>1. NoKey \notin Resolved(opts.raw)
    BY <1>1 DEF Plain, Effective, Resolved
  <2> QED BY <1>3, <2>1 DEF Valid, ValidValues, Among
<1>5. PICK a : a = Written(Cached(NoFormatters, "percent", PercentKey(NumberDefault, "standard"), HostFailure),
                           TimesHundred(IntText(v.n)))
  OBVIOUS
<1>6. IsAnswer(a) /\ IsResult(a.result)
  BY <1>5, WrittenAnew DEF KeyedCaches
<1>7. CallTo(NoFormatters, entry, v, raw) = Wrote(a)
  BY <1>5, Zenon DEF CallTo
<1>8. PICK resolved : resolved = ResolvePercent(v, opts)
  OBVIOUS
<1>9. ~ Failed(resolved) /\ resolved.value.shown = ResolvedNumber(Integer(v.n), PercentFormat, "plural", FALSE)
  BY <1>2, <1>3, <1>8, PlainPercentResolved
<1>10. Render(NoFormatters, AsPercent(resolved.value.shown)) = a
  BY <1>2, <1>5, <1>9, PlainPercentRendered
<1>11. Call(NoFormatters, entry, v, raw) = ApplyPercent(NoFormatters, v, opts)
  BY <1>1, <1>2, <1>4 DEF Call, Apply
<1>12. ApplyPercent(NoFormatters, v, opts) = PercentShown(a, resolved.value)
  BY <1>8, <1>9, <1>10 DEF ApplyPercent, PercentRendered
<1>13. CASE Failed(a.result)
  BY <1>6, <1>7, <1>11, <1>12, <1>13, FailedShows DEF Wrote, PercentShown, Resolving
<1>14. CASE ~ Failed(a.result)
  <2>1. PICK w : w = ApplyPercent(NoFormatters, v, opts).result.value
    OBVIOUS
  <2>2. ApplyPercent(NoFormatters, v, opts).result = Ok(w) /\ w.shown = a.result.value
    <3>1. PICK x : x = FormattedNumber(resolved.value.shown, a.result.value, resolved.value.selection)
      OBVIOUS
    <3>2. ApplyPercent(NoFormatters, v, opts) = [a EXCEPT !.result = Ok(x)]
      BY <1>12, <1>14, <3>1 DEF PercentShown, Resolving
    <3>3. ApplyPercent(NoFormatters, v, opts).result = Ok(x)
      BY <1>6, <3>2 DEF IsAnswer
    <3> QED BY <2>1, <3>1, <3>3, ResultsAre DEF FormattedNumber
  <2>3. RichValue(w) /\ Selectable(w)
    BY <2>1, <2>2, NewIsSound, ResultsAre, PercentIsRich
  <2>4. ShowsAlike(w) /\ Shows(w, FALSE) = w.shown
    BY <2>3, PercentShowsAlike DEF RichValue
  <2>5. w.kind = "formatted"
    BY <2>3 DEF Selectable
  <2>6. Shows(w, TRUE) = w.shown
    BY <2>4, <2>5 DEF ShowsAlike, PlainInteger
  <2>7. CallTo(NoFormatters, entry, v, raw).result = [written |-> a.result.value]
    BY <1>6, <1>7, <1>14, WroteIs
  <2>8. Call(NoFormatters, entry, v, raw).result = Ok(w)
    BY <1>11, <2>2
  <2>9. PICK direct, stored : direct = CallTo(NoFormatters, entry, v, raw) /\ stored = Call(NoFormatters, entry, v, raw)
    OBVIOUS
  <2>10. ~ Failed(stored.result) /\ stored.result.value = w
    BY <2>8, <2>9, ResultsAre
  <2>11. Shows(stored.result.value, FALSE) = w.shown /\ Shows(stored.result.value, TRUE) = w.shown
    BY <2>4, <2>6, <2>10
  <2>12. direct.result = [written |-> w.shown]
    BY <2>2, <2>7, <2>9
  <2>13. ShownInBothWays(direct, stored, hourIsLost)
    BY <2>10, <2>11, <2>12, WrittenShows
  <2> QED BY <2>9, <2>13
<1> QED BY <1>13, <1>14

(***************************************************************************)
(* A placeholder shows the same however it comes to be shown, whatever its   *)
(* operand, options and history are, in a locale that has the data of the     *)
(* decimal formatter: written at once by call_to, or kept by call and shown   *)
(* later as a text or as fields by format_default_to, but for the plain        *)
(* digits of an integer without options and the hour that :time loses          *)
(* (BuiltinHost::call_to, ::format_default_to).                              *)
(***************************************************************************)
THEOREM PlaceholdersShowAlike == LocaleHasDecimals => (Spec => []ShownAlikeButDigits)
<1> SUFFICES ASSUME LocaleHasDecimals PROVE Spec => []ShownAlikeButDigits
  OBVIOUS
<1>1. RichInv => ShownAlikeButDigits
  <2> SUFFICES ASSUME RichInv, NEW call \in Calls
               PROVE  ShownInBothWays(CallTo(NoFormatters, call[1], value, call[2]),
                                      Call(NoFormatters, call[1], value, call[2]), LosesHour(call[1], value))
    BY DEF ShownAlikeButDigits
  <2>1. PICK entry \in catalog.entries, raw \in catalog.raw : entry = call[1] /\ raw = call[2]
    BY DEF Calls
  <2>2. PICK v : v = value /\ TypedSource(v)
    BY DEF RichInv, RichValue
  <2>3. entry # None => entry.func \in Functions
    BY EntriesAreBuiltins DEF RichInv, HostInv
  <2>4. CASE entry # None /\ entry.func \in Choosing /\ Plain(entry, v, raw)
    BY <2>1, <2>2, <2>4, PlainNumberShows
  <2>5. CASE entry # None /\ entry.func = "percent" /\ Plain(entry, v, raw)
    BY <2>1, <2>2, <2>5, PlainPercentShows
  <2>6. CASE entry # None /\ entry.func \in Rendering
    BY <2>1, <2>2, <2>6, RenderingShows
  <2>7. CASE \/ entry = None
             \/ entry # None /\ entry.func \notin Rendering /\ ~ (entry.func \in Choosing /\ Plain(entry, v, raw))
                /\ ~ (entry.func = "percent" /\ Plain(entry, v, raw))
    <3>1. CallTo(NoFormatters, entry, v, raw) = Call(NoFormatters, entry, v, raw)
      <4>1. CASE entry = None
        BY <4>1 DEF CallTo, Call
      <4>2. CASE entry # None
        BY <2>7, <4>2, Zenon DEF CallTo, Choosing
      <4> QED BY <4>1, <4>2
    <3>2. entry # None => entry.func \in Functions \ Rendering
      BY <2>3, <2>7
    <3>3. IsResult(Call(NoFormatters, entry, v, raw).result)
      BY <3>2, UnrenderedIsResult
    <3>4. ~ Failed(Call(NoFormatters, entry, v, raw).result) => ShowsAlike(Call(NoFormatters, entry, v, raw).result.value)
      BY <2>2, <3>2, UnrenderedShows
    <3> QED BY <2>1, <2>2, <3>1, <3>3, <3>4, SameAnswerShows
  <2> QED BY <2>4, <2>5, <2>6, <2>7
<1> QED BY <1>1, RichInvHolds, PTL

-----------------------------------------------------------------------------
(* The number that is shown. *)

LEMMA UnsignedIs ==
  ASSUME NEW d, IsDecimal(d), NEW places \in Nat, Len(d.frac) <= places
  PROVE  Units(Unsigned(d), places) = Amount(d, places) /\ Amount(d, places) \in Nat
<1>1. PICK u : u = Unsigned(d)
  OBVIOUS
<1>2. u.sign = "" /\ u.int = d.int /\ u.frac = d.frac
  BY <1>1 DEF Unsigned, IsDecimal, Text
<1>3. Amount(d, places) \in Nat
  BY AmountIs
<1>4. Units(u, places) = 1 * Amount(d, places)
  BY <1>2 DEF Units, Amount
<1> QED BY <1>1, <1>3, <1>4

\* A sign is no digit.
LEMMA SignedIs ==
  ASSUME NEW d, IsDecimal(d), NEW display
  PROVE  /\ IsDecimal(Signed(display, d)) /\ Signed(display, d).int = d.int /\ Signed(display, d).frac = d.frac
         /\ \A places : Amount(Signed(display, d), places) = Amount(d, places)
<1>1. PICK sign : sign = SignShown(display, d)
  OBVIOUS
<1>2. PICK s : s = Signed(display, d)
  OBVIOUS
<1>3. s = Text(sign, d.int, d.frac)
  BY <1>1, <1>2 DEF Signed, IsDecimal, Text
<1>4. IsDecimal(s) /\ s.int = d.int /\ s.frac = d.frac
  BY <1>3, DecimalParts, TextIs
<1> QED BY <1>2, <1>4 DEF Amount

\* The number that the options scale, in units of any size.
LEMMA ExactIs ==
  ASSUME NEW source, IsDecimal(source), NEW f,
         NEW d, d = IF f.style = "percent" THEN TimesHundred(source) ELSE source
  PROVE  /\ IsDecimal(d) /\ Len(d.frac) <= Len(source.frac)
         /\ \A places \in Nat : places >= Len(source.frac) => Amount(d, places) = Exact(source, places, f)
<1>1. Len(source.frac) \in Nat
  BY DecimalParts
<1>2. \A places \in Nat : places >= Len(source.frac) =>
        Units(Unsigned(source), places) = Amount(source, places) /\ Amount(source, places) \in Nat
  BY <1>1, UnsignedIs
<1>3. CASE f.style = "percent"
  <2>1. IsDecimal(d)
    BY <1>3, TimesHundredIs
  <2>2. Len(d.frac) <= Len(source.frac)
    BY <1>3, HundredTimes
  <2>3. ASSUME NEW places \in Nat, places >= Len(source.frac)
        PROVE  Amount(d, places) = Exact(source, places, f)
    <3>1. Amount(d, places) = 100 * Amount(source, places)
      BY <1>3, <2>3, HundredTimes
    <3> QED BY <1>2, <1>3, <2>3, <3>1 DEF Exact
  <2> QED BY <2>1, <2>2, <2>3
<1>4. CASE f.style # "percent"
  <2>1. Len(source.frac) <= Len(source.frac)
    BY <1>1
  <2>2. ASSUME NEW places \in Nat, places >= Len(source.frac)
        PROVE  Amount(d, places) = Exact(source, places, f)
    <3>1. Exact(source, places, f) = 1 * Amount(source, places) /\ Amount(source, places) \in Nat
      BY <1>2, <1>4, <2>2 DEF Exact
    <3> QED BY <1>4, <3>1
  <2> QED BY <1>4, <2>1, <2>2
<1> QED BY <1>3, <1>4

\* The larger of two lengths is neither.
LEMMA LargerIs ==
  ASSUME NEW m \in Nat, NEW n \in Nat
  PROVE  Larger(m, n) \in Nat /\ Larger(m, n) >= m /\ Larger(m, n) >= n
BY DEF Larger

LEMMA RoundedShows ==
  ASSUME NEW source, IsDecimal(source), NEW f, TypedFormat(f), f.minSig = None, f.maxSig = None,
         NEW d, d = IF f.style = "percent" THEN TimesHundred(source) ELSE source,
         NEW shown, shown = Widened(Signed(f.sign, Rounded(d, f)), f.minInt)
  PROVE  \E places \in {Larger(Len(source.frac), Len(shown.frac))} :
           ShowsRounded(shown, Exact(source, places, f), places, f)
<1>1. /\ f.minFrac \in Nat \cup {None} /\ f.maxFrac \in Nat \cup {None} /\ f.minInt \in Nat \cup {None}
      /\ f.minFrac # None /\ f.maxFrac # None => f.minFrac <= f.maxFrac
  BY DEF TypedFormat, Counts, Ordered
<1>2. IsDecimal(d) /\ Len(d.frac) <= Len(source.frac) /\ Len(d.frac) \in Nat /\ Len(source.frac) \in Nat
  BY ExactIs, DecimalParts
<1>3. PICK r : r = Rounded(d, f)
  OBVIOUS
<1>4. r = AtMost(AtLeast(d, IF f.minFrac = None THEN 0 ELSE f.minFrac), f.maxFrac)
  BY <1>3 DEF Rounded
<1>5. /\ IsDecimal(r)
      /\ \A places \in Nat : (places >= Len(d.frac) /\ places >= Len(r.frac))
                             => FittedWithin(r, d, f.minFrac, f.maxFrac, places)
  <2>1. PICK min, max : min = f.minFrac /\ max = f.maxFrac
    OBVIOUS
  <2>2. /\ min \in Nat \cup {None} /\ max \in Nat \cup {None} /\ (min # None /\ max # None => min <= max)
        /\ r = AtMost(AtLeast(d, IF min = None THEN 0 ELSE min), max)
    BY <1>1, <1>4, <2>1, Zenon
  <2>3. /\ IsDecimal(r)
        /\ \A places \in Nat : (places >= Len(d.frac) /\ places >= Len(r.frac)) => FittedWithin(r, d, min, max, places)
    BY <1>2, <2>2, FittedIs
  <2> QED BY <2>1, <2>3
<1>6. PICK t : t = Signed(f.sign, r)
  OBVIOUS
<1>7. IsDecimal(t) /\ t.frac = r.frac /\ \A places : Amount(t, places) = Amount(r, places)
  BY <1>5, <1>6, SignedIs
<1>8. shown = Widened(t, f.minInt)
  BY <1>3, <1>6
<1>9. /\ IsDecimal(shown) /\ shown.frac = r.frac /\ Len(r.frac) \in Nat
      /\ f.minInt # None => Len(shown.int) >= f.minInt
      /\ \A places \in Nat : places >= Len(r.frac) => Amount(shown, places) = Amount(r, places)
  BY <1>1, <1>5, <1>7, <1>8, Widening, DecimalParts
<1>10. PICK places \in Nat : /\ places = Larger(Len(source.frac), Len(shown.frac))
                             /\ places >= Len(source.frac) /\ places >= Len(r.frac) /\ places >= Len(d.frac)
  <2>1. PICK m \in Nat, n \in Nat : m = Len(source.frac) /\ n = Len(shown.frac)
    BY <1>2, <1>9
  <2>2. Larger(m, n) \in Nat /\ Larger(m, n) >= m /\ Larger(m, n) >= n
    BY LargerIs
  <2> QED BY <1>2, <1>9, <2>1, <2>2
<1>11. PICK exact \in Nat : exact = Exact(source, places, f) /\ Amount(d, places) = exact
  <2>1. Len(d.frac) <= places
    BY <1>10
  <2> QED BY <1>2, <1>10, <2>1, ExactIs, AmountIs
<1>12. PICK amount \in Nat : amount = Amount(r, places) /\ Units(Unsigned(shown), places) = amount
  <2>1. Len(shown.frac) <= places
    BY <1>9, <1>10
  <2> QED BY <1>9, <1>10, <2>1, UnsignedIs
<1>13. FittedWithin(r, d, f.minFrac, f.maxFrac, places)
  BY <1>5, <1>10
<1>14. IF f.maxFrac # None /\ f.maxFrac < places
       THEN IsHalfAway(amount, exact, TenTo[places - f.maxFrac])
       ELSE amount = exact
  BY <1>11, <1>12, <1>13 DEF FittedWithin, IsHalfAway
<1>15. ShowsRounded(shown, exact, places, f)
  BY <1>9, <1>12, <1>13, <1>14 DEF ShowsRounded, FittedWithin
<1> QED BY <1>10, <1>11, <1>15

LEMMA PowerShows ==
  ASSUME NEW source, IsDecimal(source), NEW f,
         NEW d, d = IF f.style = "percent" THEN TimesHundred(source) ELSE source,
         NEW preserve \in BOOLEAN, NEW engineering \in BOOLEAN,
         NEW science, science = Scientific(d, preserve, engineering),
         NEW shown, shown.mantissa = Signed(f.sign, science.mantissa), shown.exp = science.exp
  PROVE  \E places \in {Larger(Len(source.frac), Len(shown.mantissa.frac))} :
           ShowsPower(shown.mantissa, shown.exp, Exact(source, places, f), places)
<1>1. IsDecimal(d) /\ Len(d.frac) <= Len(source.frac) /\ Len(d.frac) \in Nat /\ Len(source.frac) \in Nat
  BY ExactIs, DecimalParts
<1>2. PICK m : m = science.mantissa
  OBVIOUS
<1>3. PICK exp \in Int : exp = science.exp
  BY <1>1, ScientificIs
<1>4. /\ IsDecimal(m)
      /\ \A places \in Nat : (places >= Len(d.frac) /\ places >= Len(m.frac)) => IsPower(m, exp, d, places)
  BY <1>1, <1>2, <1>3, ScientificIs
<1>5. PICK t : t = Signed(f.sign, m)
  OBVIOUS
<1>6. IsDecimal(t) /\ t.frac = m.frac /\ (\A places : Amount(t, places) = Amount(m, places)) /\ Len(m.frac) \in Nat
  BY <1>4, <1>5, SignedIs, DecimalParts
<1>7. shown.mantissa = t /\ shown.exp = exp
  BY <1>2, <1>3, <1>5
<1>8. PICK places \in Nat : /\ places = Larger(Len(source.frac), Len(t.frac))
                            /\ places >= Len(source.frac) /\ places >= Len(m.frac) /\ places >= Len(d.frac)
  <2>1. PICK k \in Nat, n \in Nat : k = Len(source.frac) /\ n = Len(t.frac)
    BY <1>1, <1>6
  <2>2. Larger(k, n) \in Nat /\ Larger(k, n) >= k /\ Larger(k, n) >= n
    BY LargerIs
  <2> QED BY <1>1, <1>6, <2>1, <2>2
<1>9. Amount(d, places) = Exact(source, places, f)
  BY <1>8, ExactIs
<1>10. Units(Unsigned(t), places) = Amount(m, places)
  <2>1. Len(t.frac) <= places
    BY <1>6, <1>8
  <2> QED BY <1>6, <2>1, UnsignedIs
<1>11. IsPower(m, exp, d, places)
  BY <1>4, <1>8
<1>12. ShowsPower(t, exp, Exact(source, places, f), places)
  BY <1>9, <1>10, <1>11 DEF ShowsPower, IsPower
<1> QED BY <1>7, <1>8, <1>12

(***************************************************************************)
(* The number a reader sees is the number that was computed, a hundredfold   *)
(* for a percentage, rounded half away from zero at the last digit allowed    *)
(* and with the digits required: carrying, padding, moving the separator and  *)
(* the exponent, all of them on texts, neither lose nor add anything, however  *)
(* long the number is (BuiltinHost::format_default_to,                       *)
(* render_resolved_number_inner).                                            *)
(***************************************************************************)
THEOREM NumbersShowRounded == Spec => []ShownIsRounded
<1>1. RichInv => ShownIsRounded
  <2> SUFFICES ASSUME RichInv, value.kind = "number", value.number.is # "nonfinite"
               PROVE  ShowsNumber(FormatDefaultTo(NoFormatters, value, TRUE).result.value,
                                  DecimalOf(value.number), value.format)
    BY DEF ShownIsRounded
  <2>1. PICK f : f = value.format
    OBVIOUS
  <2>2. PICK source : source = DecimalOf(value.number)
    OBVIOUS
  <2>3. PICK d : d = IF f.style = "percent" THEN TimesHundred(source) ELSE source
    OBVIOUS
  <2>4. TypedResolved(value) /\ TypedFormat(f) /\ IsDecimal(source)
    <3>1. TypedResolved(value)
      BY DEF RichInv, RichValue, TypedSource, Source, TypedContent
    <3> QED BY <2>1, <2>2, <3>1, DecimalOfIs DEF TypedResolved
  <2>5. PICK rendered : rendered = Render(NoFormatters, value).result
    OBVIOUS
  <2>6. FormatDefaultTo(NoFormatters, value, TRUE).result.value = IF Failed(rendered) THEN None ELSE rendered.value
    <3>1. PICK a : a = Render(NoFormatters, value)
      OBVIOUS
    <3>2. FormatDefaultTo(NoFormatters, value, TRUE) = Shown(a)
      BY <3>1 DEF FormatDefaultTo
    <3>3. IsAnswer(a)
      BY <3>1, NewIsSound, RenderAlike DEF Alike
    <3>4. a = Answer(a.result, a.caches, a.reports)
      BY <3>3 DEF IsAnswer, Answer
    <3>5. Failed(a.result) => Shown(a) = Answer(Ok(None), a.caches, a.reports)
      BY <3>4 DEF Shown, Answer
    <3>6. ~ Failed(a.result) => Shown(a) = a
      BY DEF Shown
    <3>7. Shown(a).result.value = IF Failed(a.result) THEN None ELSE a.result.value
      BY <3>5, <3>6 DEF Ok, Answer
    <3> QED BY <2>5, <3>1, <3>2, <3>7
  <2> SUFFICES ASSUME ~ Failed(rendered), f.minSig = None, f.maxSig = None
               PROVE  ShowsNumber(rendered.value, source, f)
    BY <2>1, <2>2, <2>6 DEF ShowsNumber
  <2>7. PICK shown : shown = rendered.value
    OBVIOUS
  <2>8. CASE "of" \in DOMAIN shown
    <3>1. shown.of = Widened(Signed(f.sign, Rounded(d, f)), f.minInt)
      BY <2>1, <2>2, <2>3, <2>5, <2>7, <2>8, RenderedOf
    <3>2. PICK of : of = shown.of
      OBVIOUS
    <3>3. \E places \in {Larger(Len(source.frac), Len(of.frac))} : ShowsRounded(of, Exact(source, places, f), places, f)
      BY <2>3, <2>4, <3>1, <3>2, RoundedShows
    <3> QED BY <2>7, <2>8, <3>2, <3>3 DEF ShowsNumber
  <2>9. CASE "of" \notin DOMAIN shown
    <3>1. Render(NoFormatters, value) = RenderDecimal(NoFormatters, f, d)
      BY <2>1, <2>2, <2>3 DEF Render
    <3>2. f.notation \in {"scientific", "engineering"}
      <4> SUFFICES ASSUME f.notation \notin {"scientific", "engineering"} PROVE FALSE
        OBVIOUS
      <4>1. PICK x : Render(NoFormatters, value) = RenderWith(NoFormatters, f, x)
        BY <3>1 DEF RenderDecimal
      <4>2. \A a : IsAnswer(a) => (~ Failed(Written(a, x).result) => "of" \in DOMAIN Written(a, x).result.value)
        BY DEF Written, IsAnswer, Ok, Failed
      <4>3. \A cache \in KeyedCaches : \A key : IsAnswer(Cached(NoFormatters, cache, key, HostFailure))
        BY CachedAlike, NewIsSound DEF Alike
      <4>4. \E cache \in KeyedCaches : \E key :
              RenderWith(NoFormatters, f, x) = Written(Cached(NoFormatters, cache, key, HostFailure), x)
        BY DEF RenderWith, KeyedCaches
      <4> QED BY <2>5, <2>7, <2>9, <4>1, <4>2, <4>3, <4>4
    <3>3. PICK engineering \in BOOLEAN : engineering = (f.notation = "engineering")
      OBVIOUS
    <3>4. PICK preserve \in BOOLEAN : preserve = FALSE
      OBVIOUS
    <3>8. PICK science : science = Scientific(d, preserve, engineering)
      OBVIOUS
    <3>5. Render(NoFormatters, value) = RenderScientific(NoFormatters, f, science)
      BY <3>1, <3>2, <3>3, <3>4, <3>8 DEF RenderDecimal
    <3>6. shown = [mantissa |-> Signed(f.sign, science.mantissa), exp |-> science.exp, percent |-> f.style = "percent"]
      BY <2>5, <2>7, <3>5 DEF RenderScientific, Answer, Ok
    <3>7. \E places \in {Larger(Len(source.frac), Len(shown.mantissa.frac))} :
            ShowsPower(shown.mantissa, shown.exp, Exact(source, places, f), places)
      BY <2>3, <2>4, <3>6, <3>8, PowerShows
    <3> QED BY <2>7, <2>9, <3>7 DEF ShowsNumber
  <2> QED BY <2>8, <2>9
<1> QED BY <1>1, RichInvHolds, PTL
=============================================================================
