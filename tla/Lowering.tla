------------------------------ MODULE Lowering ------------------------------
(***************************************************************************)
(* The lowering of resolved message parts to bytecode                       *)
(* (compiler/compile/lowering.rs).  Listings are sequences of instructions  *)
(* whose jumps name the position of their target (linked below); texts and  *)
(* functions are named by the id the pools give them.                      *)
(*                                                                         *)
(* An arm, or a default, that repeats the default of an enclosing select is *)
(* not lowered again: it closes the selects in between and jumps to it.    *)
(***************************************************************************)
EXTENDS Schema, MessageParts, SequencesExt

-----------------------------------------------------------------------------
(* A listing of instructions whose jumps name the position (1, 2, ...) of    *)
(* their target is laid out at the byte offsets it has in CODE, with          *)
(* pc-relative jumps.                                                        *)

\* Instructions of a listing.
Plain(op)            == [op |-> op, id |-> 0, fb |-> 0, rel |-> 0, argc |-> 0, optc |-> 0]
Ref(op, id)          == [Plain(op) EXCEPT !.id = id]
Jump(op, to)         == [Plain(op) EXCEPT !.rel = to]
Case(id, to)         == [Jump("CaseStr", to) EXCEPT !.id = id]
OptionArg(id, fb)    == [Ref("LoadOptionArg", id) EXCEPT !.fb = fb]
Call(op, fn, optc)   == [Ref(op, fn) EXCEPT !.argc = 1, !.optc = optc]
Markup(op, id, optc) == [Ref(op, id) EXCEPT !.optc = optc]

\* A jump that misses the start of its target by skew bytes.
Astray(op, to, skew) == [Jump(op, to) EXCEPT !.fb = skew]

SlotWidth(i) == IF i.op \in Opcode THEN Width(i.op) ELSE 1

Layout(listing) ==
    LET offset[n \in 1..(Len(listing) + 1)] ==
          IF n = 1 THEN 0 ELSE offset[n - 1] + SlotWidth(listing[n - 1])
    IN offset

Linked(listing, n) ==
    LET i == listing[n]
        at == Layout(listing)
    IN IF i.op \in Jumps
         THEN [i EXCEPT !.rel = at[i.rel] + i.fb - at[n + 1], !.fb = 0]
         ELSE i

CodeOf(listing) ==
    LET at == Layout(listing)
        positions == 1..Len(listing)
    IN [pc \in {at[n] : n \in positions} |->
          Linked(listing, CHOOSE n \in positions : at[n] = pc)]

\* The catalog with this code, one message per entry position, and a pool of
\* strings, functions and literals in which every reference below the given
\* size is valid.  cut bytes are missing at the end of the code.
CatalogOf(listing, starts, pool, cut) ==
    LET at == Layout(listing) IN
    [code     |-> CodeOf(listing),
     len      |-> at[Len(listing) + 1] - cut,
     entries  |-> [m \in 1..Len(starts) |-> at[starts[m]]],
     strings  |-> pool, funcs |-> pool, literals |-> 0..(pool - 1)]

-----------------------------------------------------------------------------
(* Expressions. *)

Concat(seqs) == FlattenSeq(seqs)

EmitOptionValue(option) ==
    CASE option.from = "Local" -> Ref("LoadLocal", option.id)
      [] option.from = "Const" -> Ref("PushConst", option.id)
      [] option.from = "Var"   -> OptionArg(option.id, option.fallback)

EmitOptions(options) ==
    Concat([n \in 1..Len(options) |->
              <<Ref("PushConst", options[n].key), EmitOptionValue(options[n])>>])

\* emit_operand, emit_value_part and emit_call.
RECURSIVE EmitValue(_)
EmitValue(value) ==
    CASE value.part = "Literal"    -> <<Ref("PushConst", value.id)>>
      [] value.part = "Var"        -> <<Ref("LoadArg", value.id)>>
      [] value.part = "Local"      -> <<Ref("LoadLocal", value.id)>>
      [] value.part = "StringCall" ->
           EmitValue(value.operand)
             \o <<Ref("ExprFallback", value.fallback), Plain("ResolveString")>>
      [] value.part = "Call"       ->
           EmitValue(value.operand) \o EmitOptions(value.options)
             \o <<Ref("ExprFallback", value.fallback),
                  Call("CallFunc", value.id, Len(value.options))>>

\* Unlike those of a call, the options of markup load an argument like an
\* operand.
EmitMarkupOptions(options) ==
    Concat([n \in 1..Len(options) |->
              <<Ref("PushConst", options[n].key),
                IF options[n].from = "Var" THEN Ref("LoadArg", options[n].id)
                ELSE EmitOptionValue(options[n])>>])

\* emit_selector_start
EmitSelector(s) ==
    CASE s.on = "Var"          -> <<Ref("SelectArg", s.id)>>
      [] s.on = "StringVar"    -> <<Ref("SelectStringArg", s.id)>>
      [] s.on = "Local"        -> <<Ref("LoadLocal", s.id), Plain("SelectBegin")>>
      [] s.on = "CheckedLocal" -> <<Ref("SelectLocal", s.id)>>
      [] s.on = "Projected"    ->
           <<Ref("LoadLocal", s.id), Ref("ProjectSelect", s.fn), Plain("SelectBegin")>>
      [] s.on = "Literal"      -> <<Ref("PushConst", s.id), Plain("SelectBegin")>>
      [] s.on = "StringCall"   ->
           EmitValue(s.operand) \o <<Plain("ResolveString"), Plain("SelectBegin")>>
      [] s.on = "Call"         ->
           EmitValue(s.operand) \o EmitOptions(s.options)
             \o <<Call("CallSelect", s.id, Len(s.options)), Plain("SelectBegin")>>

-----------------------------------------------------------------------------
(* Parts.  A select is known by its path in the message, and its jumps name *)
(* labels: <<path, n>> is the start of its n-th arm, <<path, 0>> that of its *)
(* default and <<path, -1>> its end.                                       *)

Label(name) == [op |-> "Label", name |-> name]

\* The default continuations of the enclosing selects, outermost first: the
\* parts, and the depth of open selects at which they are executed.
Continuation(parts, path, depth) == [parts |-> parts, path |-> path, depth |-> depth]

\* Mutant: only the default of the outermost select is known.
SameDefaultsOfOutermost(parts, defaults) ==
    {n \in 1..Len(defaults) : n = 1 /\ defaults[n].parts = parts}

SameDefaults(parts, defaults) == {n \in 1..Len(defaults) : defaults[n].parts = parts}

\* Mutant: the selects in between stay open.
ForwardStaysOpen(to, depth) == <<Jump("Jmp", <<to.path, 0>>)>>

Forward(to, depth) ==
    [k \in 1..(depth - to.depth) |-> Plain("SelectEnd")] \o <<Jump("Jmp", <<to.path, 0>>)>>

\* lower_parts_inner.  The innermost of the continuations with these parts is used.
RECURSIVE LowerParts(_, _, _, _)

\* Mutant: an arm is not left before the next one.
LowerSelectFallsThrough(s, path, defaults, depth) ==
    LET within == Append(defaults, Continuation(s.default, path, depth + 1))
        LowerArm(n, parts) ==
            <<Label(<<path, n>>)>> \o LowerParts(parts, Append(path, n), within, depth + 1)
    IN EmitSelector(s.selector)
         \o [n \in 1..Len(s.arms) |-> Case(s.arms[n].key, <<path, n>>)]
         \o <<Jump("CaseDefault", <<path, 0>>)>>
         \o Concat([n \in 1..Len(s.arms) |-> LowerArm(n, s.arms[n].parts)])
         \o <<Label(<<path, 0>>)>> \o LowerParts(s.default, Append(path, 0), defaults, depth + 1)
         \o <<Plain("SelectEnd")>>

\* lower_select
LowerSelect(s, path, defaults, depth) ==
    LET within == Append(defaults, Continuation(s.default, path, depth + 1))
        LowerArm(n, parts) ==
            <<Label(<<path, n>>)>> \o LowerParts(parts, Append(path, n), within, depth + 1)
              \o (IF SameDefaults(parts, within) # {} THEN <<>> ELSE <<Jump("Jmp", <<path, -1>>)>>)
    IN EmitSelector(s.selector)
         \o [n \in 1..Len(s.arms) |-> Case(s.arms[n].key, <<path, n>>)]
         \o <<Jump("CaseDefault", <<path, 0>>)>>
         \o Concat([n \in 1..Len(s.arms) |-> LowerArm(n, s.arms[n].parts)])
         \o <<Label(<<path, 0>>)>> \o LowerParts(s.default, Append(path, 0), defaults, depth + 1)
         \o <<Label(<<path, -1>>), Plain("SelectEnd")>>

LowerPart(p, path, defaults, depth) ==
    CASE p.part = "Text"          -> <<Ref("OutSlice", p.id)>>
      [] p.part = "Literal"       -> <<Ref("OutExpr", p.id)>>
      [] p.part = "Var"           -> <<Ref("OutArg", p.id)>>
      [] p.part = "CheckSelector" -> <<Ref("CheckSelector", p.id)>>
      [] p.part \in {"Local", "Call", "StringCall"} -> EmitValue(p) \o <<Plain("OutVal")>>
      [] p.part \in Markups       ->
           EmitMarkupOptions(p.options) \o <<Markup(p.part, p.id, Len(p.options))>>
      [] p.part = "Bind"          ->
           EmitValue(p.value)
             \o <<Ref("ExprFallback", p.fallback), Ref("StoreLocal", p.id)>>
      [] p.part = "Select"        -> LowerSelect(p, path, defaults, depth)

LowerParts(parts, path, defaults, depth) ==
    LET same == SameDefaults(parts, defaults) IN
    IF same # {} THEN Forward(defaults[Max(same)], depth)
    ELSE Concat([n \in 1..Len(parts) |-> LowerPart(parts[n], Append(path, n), defaults, depth)])

\* patch_rel32: the labels are replaced by the positions they mark.
Unlabelled(code) == SelectSeq(code, LAMBDA i : i.op # "Label")

PositionOf(code, name) ==
    LET k == CHOOSE k \in 1..Len(code) : code[k] = Label(name)
    IN Len(Unlabelled(SubSeq(code, 1, k))) + 1

Link(code) ==
    LET Resolved(i) == IF i.op \in Jumps THEN [i EXCEPT !.rel = PositionOf(code, @)] ELSE i
        listing == Unlabelled(code)
    IN [n \in 1..Len(listing) |-> Resolved(listing[n])]

\* encode_messages: the code of one message after that of the other, each ended
\* by Halt.
CompiledCatalog(messages, pool) ==
    LET Code(n)  == Append(LowerParts(messages[n], <<n>>, <<>>, 0), Plain("Halt"))
        Upto(n)  == Concat([m \in 1..n |-> Code(m)])
    IN CatalogOf(Link(Upto(Len(messages))),
                 [n \in 1..Len(messages) |-> Len(Unlabelled(Upto(n - 1))) + 1], pool, 0)
=============================================================================
