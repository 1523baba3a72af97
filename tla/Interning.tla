----------------------------- MODULE Interning ------------------------------
(***************************************************************************)
(* The tables of a catalog (compile/interning.rs, the LiteralPool of          *)
(* compile/lowering.rs, encode_messages of compile/mod.rs): the texts in       *)
(* order, the functions by first use, the literals, and for every message the  *)
(* code that refers to them; and the file they are written to                  *)
(* (compile/encoder.rs), which Container reads.                                *)
(*                                                                         *)
(* Of the code only the references are here, in the order of the instructions *)
(* that make them; the instructions are Lowering's.                           *)
(***************************************************************************)
EXTENDS Manifest, Container

CONSTANT LiteralDeduplication      \* "disabled", "detect" or "enabled"

-----------------------------------------------------------------------------
(* Texts. *)

\* A set of texts as a sequence, each put in its place among the others.
Sorted(texts, Before(_, _)) ==
    LET Placed(text, sorted) ==
          LET lower == SelectSeq(sorted, LAMBDA other : Before(other, text))
          IN lower \o <<text>> \o SubSeq(sorted, Len(lower) + 1, Len(sorted))
    IN FoldSet(Placed, <<>>, texts)

InByteOrder(texts) == Sorted(texts, Less)

\* The bytes { } $ : | < > and backslash, and those of "local:".
Brace == 123
EndBrace == 125
Dollar == 36
Colon == 58
Bar == 124
OpenAngle == 60
CloseAngle == 62
Backslash == 92
LocalWord == <<108, 111, 99, 97, 108, 58>>

\* escape_fallback_literal
EscapedFallback(text) ==
    Joined(LAMBDA byte : IF byte \in {Backslash, Bar} THEN <<Backslash, byte>> ELSE <<byte>>,
           text)

VarFallback(name) == <<Brace, Dollar>> \o name \o <<EndBrace>>

\* render_call_fallback, render_operand_fallback; a slot is written as one digit.
RECURSIVE CallFallback(_)
RenderedFallback(operand, func) ==
    CASE operand.kind = "var"   -> VarFallback(operand.name)
      [] operand.kind = "local" ->
           <<Brace, OpenAngle>> \o LocalWord \o <<48 + operand.slot, CloseAngle, EndBrace>>
      [] operand.kind = "call"  -> CallFallback(operand.call)
      [] OTHER -> IF operand.text = <<>> THEN <<Brace, Colon>> \o func.name \o <<EndBrace>>
                  ELSE <<Brace, Bar>> \o EscapedFallback(operand.text) \o <<Bar, EndBrace>>
CallFallback(call) ==
    IF call.fallback # None THEN call.fallback
    ELSE RenderedFallback(call.operand, call.func)

-----------------------------------------------------------------------------
(* References.  A literal is shown from the literals; a text is a constant, an    *)
(* argument's name or a key; a function carries the key it is interned under.     *)

LiteralRef(text)  == [to |-> "literal", text |-> text]
TextRef(text)     == [to |-> "text", text |-> text]
ArgRef(name)      == [to |-> "arg", text |-> name]
FunctionRef(key)  == [to |-> "function", key |-> key]

\* is_optionless_string: resolved by an instruction of its own, not a function.
OptionlessString(func) == func.name = Known.string /\ func.options = <<>>

\* function_catalog_key: of an option that is no literal, the variable's name.
FunctionKey(func) ==
    [name    |-> func.name,
     options |-> Mapped(LAMBDA option :
                          IF option.how = "literal"
                          THEN [key |-> option.key, literal |-> TRUE, text |-> option.text]
                          ELSE [key |-> option.key, literal |-> FALSE, text |-> option.name],
                        func.options)]

\* register_function: what the FUNC chunk says of a function.
StaticOptions(key) == SelectSeq(key.options, LAMBDA option : option.literal)

\* The dynamic options of emit_call and lower_selector.
CallOptionRefs(func) ==
    Joined(LAMBDA option :
             CASE option.how = "literal"  -> <<>>
               [] option.how = "local"    -> <<TextRef(option.key)>>
               [] option.how = "resolved" -> <<TextRef(option.key), TextRef(option.text)>>
               [] OTHER -> <<TextRef(option.key), ArgRef(option.name),
                             TextRef(VarFallback(option.name))>>,
           func.options)

\* emit_operand, emit_call
RECURSIVE OperandRefs(_)
CallRefs(call) ==
    OperandRefs(call.operand)
      \o (IF OptionlessString(call.func) THEN <<TextRef(CallFallback(call))>>
          ELSE Append(Append(CallOptionRefs(call.func), TextRef(CallFallback(call))),
                      FunctionRef(FunctionKey(call.func))))
OperandRefs(operand) ==
    CASE operand.kind = "var"   -> <<ArgRef(operand.name)>>
      [] operand.kind = "local" -> <<>>
      [] operand.kind = "call"  -> CallRefs(operand.call)
      [] OTHER -> <<TextRef(operand.text)>>

\* emit_markup_options
MarkupOptionRefs(options) ==
    Joined(LAMBDA option :
             CASE option.how = "local" -> <<TextRef(option.key)>>
               [] option.how = "var"   -> <<TextRef(option.key), ArgRef(option.name)>>
               [] OTHER                -> <<TextRef(option.key), TextRef(option.text)>>,
           options)

\* builtin_numeric_selector_mode, None for other functions; of several options
\* "select" the last literal counts, and any that is no literal.
NumericMode(func) ==
    LET selects == SelectSeq(func.options, LAMBDA option : option.key = Known.select)
        last    == selects[Len(selects)]
    IN IF func.name \in Known.plurals THEN "keyword"
       ELSE IF func.name \notin Known.numbers THEN None
       ELSE IF selects = <<>> THEN "keyword"
       ELSE IF \E option \in ToSet(selects) : option.how # "literal" THEN "dynamic"
       ELSE IF last.text \in Known.keywords THEN "keyword" ELSE "exact or dynamic"

\* emit_selector_start: a checked local is projected by its function again if it
\* selects by keywords only, or is no number and no plain string.
IsProjected(select) ==
    LET func == select.selector.func
        mode == NumericMode(func)
        keys == {arm.key : arm \in ToSet(select.arms)}
    IN /\ func # None
       /\ \/ mode = "keyword" /\ keys # {} /\ keys \cap KeyTexts["number"] = {}
          \/ mode = None /\ ~OptionlessString(func)

SelectorRefs(select) ==
    LET selector == select.selector
    IN CASE selector.kind = "var"     -> <<ArgRef(selector.name)>>
         [] selector.kind = "literal" -> <<TextRef(selector.text)>>
         [] selector.kind = "local"   -> <<>>
         [] selector.kind = "checked" ->
              IF IsProjected(select) THEN <<FunctionRef(FunctionKey(selector.func))>> ELSE <<>>
         [] OTHER -> OperandRefs(selector.operand)
                       \o (IF OptionlessString(selector.func) THEN <<>>
                           ELSE Append(CallOptionRefs(selector.func),
                                       FunctionRef(FunctionKey(selector.func))))

\* emit_value_part
ValueRefs(value) ==
    CASE value.kind = "literal" -> <<TextRef(value.text)>>
      [] value.kind = "var"     -> <<ArgRef(value.name)>>
      [] value.kind = "call"    -> CallRefs(value)
      [] OTHER                  -> <<>>

\* lower_parts_inner, lower_select: parts that are an enclosing default are a jump
\* to it; the keys of all arms come before their parts.
RECURSIVE References(_, _)
PartRefs(part, defaults) ==
    CASE part.kind \in {"text", "literal"} -> <<LiteralRef(part.text)>>
      [] part.kind = "var"    -> <<ArgRef(part.name)>>
      [] part.kind \in {"local", "check"} -> <<>>
      [] part.kind = "call"   -> CallRefs(part)
      [] part.kind = "bind"   -> Append(ValueRefs(part.value), TextRef(part.fallback))
      [] part.kind = "markup" -> Append(MarkupOptionRefs(part.options), TextRef(part.name))
      [] part.kind = "select" ->
           SelectorRefs(part)
             \o Mapped(LAMBDA arm : TextRef(arm.key), part.arms)
             \o Joined(LAMBDA arm : References(arm.parts, defaults \union {part.default}),
                       part.arms)
             \o References(part.default, defaults)
References(parts, defaults) ==
    IF parts \in defaults THEN <<>>
    ELSE Joined(LAMBDA part : PartRefs(part, defaults), parts)

-----------------------------------------------------------------------------
(* The tables. *)

\* visit_options
OptionTexts(option) ==
    {option.key} \union (IF option.how # "literal" THEN {option.name} ELSE {})
                 \union (IF option.how \in {"literal", "resolved"} THEN {option.text} ELSE {})

\* visit_function
FunctionTexts(func) ==
    {func.name} \union UNION {OptionTexts(option) : option \in ToSet(func.options)}
      \union {VarFallback(o.name) : o \in {p \in ToSet(func.options) : p.how = "var"}}

\* visit_operand, visit_call
OperandTexts(operand) ==
    LET calls     == NestedCalls(operand)
        innermost == IF calls = <<>> THEN operand ELSE calls[1].operand
    IN (CASE innermost.kind = "var"   -> {innermost.name}
          [] innermost.kind = "local" -> {}
          [] OTHER                    -> {innermost.text})
         \union UNION {FunctionTexts(call.func) \union {CallFallback(call)} : call \in ToSet(calls)}
CallTexts(call) ==
    OperandTexts(call.operand) \union FunctionTexts(call.func) \union {CallFallback(call)}

\* visit_selector: nothing of a selector that is a declaration.
SelectorTexts(selector) ==
    CASE selector.kind = "var"     -> {selector.name}
      [] selector.kind = "literal" -> {selector.text}
      [] selector.kind = "call"    -> OperandTexts(selector.operand)
                                        \union FunctionTexts(selector.func)
      [] OTHER                     -> {}

\* visit_parts, for one part and not those within it.
RECURSIVE PartTexts(_)
PartTexts(part) ==
    CASE part.kind = "literal" -> {part.text}
      [] part.kind = "var"     -> {part.name}
      [] part.kind = "bind"    -> {part.fallback} \union PartTexts(part.value)
      [] part.kind = "call"    -> CallTexts(part)
      [] part.kind = "select"  -> SelectorTexts(part.selector)
                                    \union {arm.key : arm \in ToSet(part.arms)}
      [] part.kind = "markup"  -> {part.name}
                                    \union UNION {OptionTexts(o) : o \in ToSet(part.options)}
      [] OTHER                 -> {}

\* collect_catalog_items
StringsOf(message) ==
    {message.id} \union UNION {PartTexts(part) : part \in ToSet(InOrder(message.parts))}

Strings(messages) == InByteOrder(UNION {StringsOf(message) : message \in ToSet(messages)})

\* The calls visit_call and visit_selector register, an operand's before its own.
CallsIn(part) ==
    LET call == IF part.kind = "bind" THEN part.value
                ELSE IF part.kind = "select" THEN part.selector ELSE part
    IN IF call.kind # "call" THEN <<>> ELSE Append(NestedCalls(call.operand), call)

\* register_function: every key once, by its first use.
Functions(messages) ==
    LET calls == Joined(LAMBDA message : Joined(CallsIn, InOrder(message.parts)), messages)
        named == SelectSeq(calls, LAMBDA call : ~OptionlessString(call.func))
        Registered(keys, call) ==
          IF FunctionKey(call.func) \in ToSet(keys) THEN keys
          ELSE Append(keys, FunctionKey(call.func))
    IN FoldLeft(Registered, <<>>, named)

\* Lowering finds everything it refers to in the tables; it fails otherwise.
LookupsSucceed(messages) ==
    LET texts == UNION {StringsOf(message) : message \in ToSet(messages)}
        keys  == ToSet(Functions(messages))
    IN \A message \in ToSet(messages) : \A ref \in ToSet(References(message.parts, {})) :
          CASE ref.to = "function" -> ref.key \in keys
            [] ref.to = "literal"  -> TRUE
            [] OTHER               -> ref.text \in texts

\* span_text
SpanText(bytes, span) == SubSeq(bytes, span.off + 1, span.off + span.len)

\* a mutant: a literal of the same length is taken for it.
SpanIsAsLong(bytes, span, text) == span.len = Len(text)

\* span_matches
SpanMatches(bytes, span, text) == SpanText(bytes, span) = text

\* LiteralPool::intern: the span and the pool after it.
EmptyPool == [bytes |-> <<>>, spans |-> {}]
Intern(pool, text) ==
    LET same     == {s \in pool.spans : SpanMatches(pool.bytes, s, text)}
        appended == [off |-> Len(pool.bytes), len |-> Len(text)]
    IN IF text = <<>> THEN [span |-> [off |-> 0, len |-> 0], pool |-> pool]
       ELSE IF LiteralDeduplication = "enabled" /\ same # {}
       THEN [span |-> [off |-> (CHOOSE s \in same : TRUE).off, len |-> Len(text)],
             pool |-> pool]
       ELSE [span |-> appended,
             pool |-> [bytes |-> pool.bytes \o text, spans |-> pool.spans \union {appended}]]

\* The spans of a sequence of literals, interned one after the other.
Pooled(literals) ==
    FoldLeft(LAMBDA done, text :
               LET next == Intern(done.pool, text)
               IN [pool |-> next.pool, spans |-> Append(done.spans, next.span)],
             [pool |-> EmptyPool, spans |-> <<>>], literals)

-----------------------------------------------------------------------------
(* Writing. *)

IdOf(table, item) == (CHOOSE n \in DOMAIN table : table[n] = item) - 1

\* StringsChunk: an index of offsets and lengths, then the letters.
StringsChunk(strings) ==
    LET Before(n) == Len(FlattenSeq(SubSeq(strings, 1, n - 1)))
    IN <<Len(strings)>>
         \o FlattenSeq(Numbered(LAMBDA n : <<Before(n), Len(strings[n])>>, Len(strings)))
         \o FlattenSeq(strings)

FuncChunk(functions, strings) ==
    LET Pair(option) == <<IdOf(strings, option.key), IdOf(strings, option.text)>>
        Entry(key)   == <<IdOf(strings, key.name), Len(StaticOptions(key))>>
                          \o Joined(Pair, StaticOptions(key))
    IN <<Len(functions)>> \o Joined(Entry, functions)

\* The code of all messages, with the references of each as instructions.  The
\* literals are interned as they come.
Instruction(ref, span, strings, functions) ==
    CASE ref.to = "literal"  -> <<OutSlice, span.off, span.len>>
      [] ref.to = "text"     -> <<PushConst, IdOf(strings, ref.text)>>
      [] ref.to = "arg"      -> <<LoadArg, IdOf(strings, ref.text)>>
      [] ref.to = "function" -> <<CallFunc, IdOf(functions, ref.key)>>

IsLiteral(ref) == ref.to = "literal"

\* lower_parts and Halt, for every message, whose references are given.
LiteralsBefore(refs, m, n) ==
    Len(SelectSeq(FlattenSeq(SubSeq(refs, 1, m - 1)) \o SubSeq(refs[m], 1, n - 1), IsLiteral))
CodeOf(refs, strings, functions, spans) ==
    LET Code(m) == FlattenSeq(Numbered(LAMBDA n :
                      Instruction(refs[m][n],
                                  IF IsLiteral(refs[m][n])
                                  THEN spans[LiteralsBefore(refs, m, n) + 1] ELSE None,
                                  strings, functions), Len(refs[m])))
    IN Numbered(LAMBDA m : Append(Code(m), Halt), Len(refs))

\* sort_messages: by id, then by where their code is.
SortedEntries(entries) ==
    SortSeq(entries, LAMBDA a, b : a[1] < b[1] \/ (a[1] = b[1] /\ a[2] < b[2]))

MessagesChunk(messages, strings, code) ==
    LET EntryPc(m) == Len(FlattenSeq(SubSeq(code, 1, m - 1)))
    IN <<Len(messages)>>
         \o FlattenSeq(SortedEntries(Numbered(LAMBDA m :
                           <<IdOf(strings, messages[m].id), EntryPc(m)>>, Len(messages))))

\* encode_messages, encode_catalog: no FUNC chunk if there is no function.
ChunksOf(messages, strings, functions, pool, code) ==
    <<<<STRS, StringsChunk(strings)>>, <<LITS, pool.bytes>>,
      <<MSGS, MessagesChunk(messages, strings, code)>>,
      <<CODE, <<Len(FlattenSeq(code))>> \o FlattenSeq(code)>>>>
      \o (IF functions = <<>> THEN <<>> ELSE <<<<FUNC, FuncChunk(functions, strings)>>>>)

LowerChunks(messages, refs, strings, functions, literals) ==
    ChunksOf(messages, strings, functions, literals.pool,
             CodeOf(refs, strings, functions, literals.spans))

InternChunks(messages, refs) ==
    LowerChunks(messages, refs, Strings(messages), Functions(messages),
                Pooled(Mapped(LAMBDA ref : ref.text, SelectSeq(FlattenSeq(refs), IsLiteral))))

Chunks(messages) ==
    InternChunks(messages, Mapped(LAMBDA message : References(message.parts, {}), messages))

\* The header, the table of the chunks, and the chunks one after the other.
Assembled(chunks) ==
    LET Offset(n) == HeaderLen + EntryLen * Len(chunks)
                       + Len(FlattenSeq(Mapped(LAMBDA chunk : chunk[2], SubSeq(chunks, 1, n - 1))))
    IN <<Magic, Major, Minor, 0, Len(chunks), HeaderLen>>
         \o FlattenSeq(Numbered(LAMBDA n :
                          <<chunks[n][1], Offset(n), Len(chunks[n][2]), 0>>, Len(chunks)))
         \o FlattenSeq(Mapped(LAMBDA chunk : chunk[2], chunks))

Encoded(messages) == Assembled(Chunks(messages))
=============================================================================
