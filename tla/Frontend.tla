------------------------------ MODULE Frontend ------------------------------
(***************************************************************************)
(* The front end: from a message as written to the resolved parts that are  *)
(* lowered (compiler/compile/frontend: bindings.rs, pattern.rs, document.rs, *)
(* raw_match.rs, and the scope checks of syntax/semantic.rs).               *)
(*                                                                         *)
(* A declaration that needs a value at run time gets a slot; an alias of    *)
(* one that has a slot shares it, a literal is substituted where it is      *)
(* used, and an optionless :string whose only use is the numeric            *)
(* declaration after it is evaluated inside that one.                       *)
(*                                                                         *)
(* Names are texts in canonical form.                                       *)
(***************************************************************************)
EXTENDS Lowering, Matching

CONSTANT TextCount      \* the texts of the sources are 0 .. TextCount - 1

\* "{$name}" and "{|literal|}", the texts shown for what has no value.
Braced(name) == TextCount + name
Quoted(text) == 2 * TextCount + text

\* Functions: :string without literal options, built-in numeric ones whose select
\* option is plural, exact or read from a variable, :percent, and any other.
Fn(kind, id) == [kind |-> kind, id |-> id]
StringFn     == Fn("string", 0)
NumericConsumers == {"number", "exact", "dynamic"}

\* Expressions.  A reference is an option whose value is a variable; one that is
\* written with white space after its "=" is not seen by collect_var_refs.
VarExpr(name)             == [expr |-> "Var", name |-> name]
LitExpr(text)             == [expr |-> "Literal", text |-> text]
CallOf(f, operand, options) ==
    [expr |-> "Call", f |-> f, operand |-> operand, options |-> options]
MarkupExpr(op, id, options) == [expr |-> op, id |-> id, options |-> options]
TextSegment(id)           == [expr |-> "Text", id |-> id]
Reference(key, name)       == [key |-> key, name |-> name, seen |-> TRUE]
SpacedReference(key, name) == [key |-> key, name |-> name, seen |-> FALSE]

\* Declarations, in source order, and what follows them.
Input(expr) ==
    [kind |-> "input", expr |-> expr,
     name |-> IF expr.expr = "Var" THEN expr.name ELSE expr.operand.name]
Let(name, expr)          == [kind |-> "local", name |-> name, expr |-> expr]
Variant(keys, pattern)   == [keys |-> keys, pattern |-> pattern]
Message(decls, selectors, variants) ==
    [decls |-> decls, selectors |-> selectors, variants |-> variants]

\* A message without .match has one variant without keys.
Quote(decls, pattern)    == Message(decls, <<>>, <<Variant(<<>>, pattern)>>)

IsOptionlessString(f, options) == f.kind = "string" /\ options = <<>>

-----------------------------------------------------------------------------
(* References (collect_var_refs) and the scope of names. *)

Names(options) == [n \in 1..Len(options) |-> options[n].name]

\* collect_var_refs_from_function_options
OptionRefs(e) == Names(SelectSeq(e.options, LAMBDA o : o.seen))

VarRefs(e) ==
    CASE e.expr = "Var"  -> <<e.name>>
      [] e.expr = "Call" ->
           (IF e.operand.expr = "Var" THEN <<e.operand.name>> ELSE <<>>) \o OptionRefs(e)
      [] OTHER           -> <<>>

DeclIs(message, kind) == SelectSeq(message.decls, LAMBDA d : d.kind = kind)
NamesOf(decls)        == {decls[n].name : n \in 1..Len(decls)}

\* validate_declaration_scope: names are declared once, and a .local refers to
\* no later one and not to itself.  The options of an .input are not looked at.
ScopeIsValid(message) ==
    LET inputs == DeclIs(message, "input")
        locals == DeclIs(message, "local")
    IN /\ Cardinality(NamesOf(message.decls)) = Len(message.decls)
       /\ \A n \in 1..Len(locals) : \A name \in ToSet(VarRefs(locals[n].expr)) :
            name \in NamesOf(locals) => name \in NamesOf(SubSeq(locals, 1, n - 1))

\* validate_no_implicit_redeclaration: a name that a .local has referred to is
\* not declared by an .input after it.
NoRedeclaration(message) ==
    \A m, n \in 1..Len(message.decls) :
        /\ m < n
        /\ message.decls[m].kind = "local"
        /\ message.decls[n].kind = "input"
        => message.decls[n].name \notin ToSet(VarRefs(message.decls[m].expr))

IsValid(message) == ScopeIsValid(message) /\ NoRedeclaration(message)

-----------------------------------------------------------------------------
(* How often each name is used (declaration_reference_counts). *)

Occurrences(seq, name) == Len(SelectSeq(seq, LAMBDA x : x = name))

\* The first mention of an .input's own name declares it.
CountInDeclaration(d, name) ==
    Occurrences(VarRefs(d.expr), name)
      - (IF name = d.name /\ Occurrences(VarRefs(d.expr), name) > 0 THEN 1 ELSE 0)

CountInSegment(e, name) ==
    Occurrences(VarRefs(e), name)
      + (IF e.expr \in Markups THEN Occurrences(Names(e.options), name) ELSE 0)

CountInPattern(pattern, name) ==
    FoldLeft(LAMBDA sum, e : sum + CountInSegment(e, name), 0, pattern)

References(message, name) ==
    FoldLeft(LAMBDA sum, d : sum + CountInDeclaration(d, name), 0, message.decls)
      + Occurrences(message.selectors, name)
      + FoldLeft(LAMBDA sum, v : sum + CountInPattern(v.pattern, name), 0, message.variants)

-----------------------------------------------------------------------------
(* The plan (build_declaration_plan). *)

NoSlot == -1
NoName == -1

Argument(name)      == [value |-> "Argument", name |-> name]
Alias(eval, target) == [value |-> "Alias", name |-> eval, target |-> target]
Substituted(text)   == [value |-> "Literal", text |-> text]
Function(call)      == [value |-> "Function", call |-> call]
Unplanned         == [value |-> "Unresolved"]

PlannedInput(d) == IF d.expr.expr = "Call" THEN Function(d.expr) ELSE Argument(d.name)

\* plan_local_value.  planned are the inputs and the locals before this one.
PlannedLocal(e, planned) ==
    CASE e.expr = "Var" ->
           LET target == IF e.name \in DOMAIN planned /\ planned[e.name].value = "Alias"
                           THEN planned[e.name].target ELSE e.name
           IN IF target \in DOMAIN planned /\ planned[target].value = "Literal"
                THEN planned[target] ELSE Alias(e.name, target)
      [] e.expr = "Literal" -> Substituted(e.text)
      [] e.expr = "Call"    -> Function(e)
      [] OTHER              -> Unplanned

Values(message) ==
    LET inputs == DeclIs(message, "input")
        Planned(planned, d) == (d.name :> PlannedLocal(d.expr, planned)) @@ planned
    IN FoldLeft(Planned,
                [name \in NamesOf(inputs) |->
                   PlannedInput(CHOOSE d \in ToSet(inputs) : d.name = name)],
                DeclIs(message, "local"))

\* inlined_string_functions
Inlined(message) ==
    {message.decls[n].name : n \in
       {k \in 1..(Len(message.decls) - 1) :
          LET producer == message.decls[k]
              consumer == message.decls[k + 1].expr
          IN /\ References(message, producer.name) = 1
             /\ producer.expr.expr = "Call"
             /\ IsOptionlessString(producer.expr.f, producer.expr.options)
             /\ consumer.expr = "Call"
             /\ consumer.operand = VarExpr(producer.name)
             /\ consumer.f.kind \in NumericConsumers}}

\* stores_runtime_value
Stores(name, values, inlined) ==
    /\ name \notin inlined
    /\ \/ values[name].value = "Function"
       \/ /\ values[name].value = "Alias"
          /\ ~ (/\ values[name].target \in DOMAIN values
                /\ values[values[name].target].value = "Function"
                /\ values[name].target \notin inlined)

\* Slots are dense, in source order.
Plan(message) ==
    LET values == Values(message)
        inlined == Inlined(message)
        stored == SelectSeq(message.decls, LAMBDA d : Stores(d.name, values, inlined))
        slotOf(name) == IF \E n \in 1..Len(stored) : stored[n].name = name
                          THEN (CHOOSE n \in 1..Len(stored) : stored[n].name = name) - 1
                          ELSE NoSlot
    IN [name \in DOMAIN values |-> [planned |-> values[name], slot |-> slotOf(name)]]

-----------------------------------------------------------------------------
(* References through the plan (DeclarationPlan). *)

\* resolved, resolved_name, slot, literal and function.
IsShared(plan, name) ==
    /\ name \in DOMAIN plan
    /\ plan[name].slot = NoSlot
    /\ plan[name].planned.value = "Alias"

ResolvedName(plan, name) == IF IsShared(plan, name) THEN plan[name].planned.target ELSE name

Knows(plan, name) == ResolvedName(plan, name) \in DOMAIN plan
PlanEntry(plan, name) == plan[ResolvedName(plan, name)]

SlotOf(plan, name) == IF Knows(plan, name) THEN PlanEntry(plan, name).slot ELSE NoSlot
IsPlanned(plan, name, value) ==
    Knows(plan, name) /\ PlanEntry(plan, name).planned.value = value

\* resolve_reference: what a variable stands for, and the name shown if it fails.
\* Within the declaration of excluded, that name is the argument.
ResolveReference(plan, name, excluded) ==
    LET shown == ResolvedName(plan, name) IN
    CASE name = excluded ->
           [to |-> "Argument", name |-> name, shown |-> NoName]
      [] name # excluded /\ shown # excluded /\ SlotOf(plan, name) # NoSlot ->
           [to |-> "Local", slot |-> SlotOf(plan, name), shown |-> shown]
      [] name # excluded /\ IsPlanned(plan, name, "Literal") ->
           [to |-> "Literal", text |-> PlanEntry(plan, name).planned.text, shown |-> shown]
      [] name # excluded /\ IsPlanned(plan, name, "Function") /\ SlotOf(plan, name) = NoSlot ->
           [to |-> "Function", call |-> PlanEntry(plan, name).planned.call, shown |-> shown]
      [] OTHER -> [to |-> "Argument", name |-> shown, shown |-> NoName]

\* Mutant: an option ignores the declarations.
OptionPartOfArgument(plan, o) == VarOption(o.key, o.name, Braced(o.name))

\* resolve_call_options, and lower_markup_options, which resolves nothing.
OptionPart(plan, o) ==
    IF IsPlanned(plan, o.name, "Literal")
      THEN ConstOption(o.key, PlanEntry(plan, o.name).planned.text)
    ELSE IF SlotOf(plan, o.name) # NoSlot THEN LocalOption(o.key, SlotOf(plan, o.name))
    ELSE VarOption(o.key, o.name, Braced(o.name))

MarkupOption(o) == VarOption(o.key, o.name, Braced(o.name))

-----------------------------------------------------------------------------
(* Expressions to parts. *)

\* render_operand_fallback, for literals that are not empty.
Rendered(operand) ==
    CASE operand.part = "Var"     -> Braced(operand.id)
      [] operand.part = "Literal" -> Quoted(operand.id)
      [] operand.part = "Local"   -> 3 * TextCount + operand.id
      [] OTHER                    -> operand.fallback

CallPart(f, operand, options, fb) ==
    IF IsOptionlessString(f, options) THEN StringCall(operand, fb)
    ELSE FnCall(f.id, operand, options, fb)

\* resolve_call and operand_from_reference.  given is the name whose text the
\* call shows if it fails, or NoName: the operand's then.
RECURSIVE ResolveCall(_, _, _, _)
ResolveCall(plan, call, excluded, given) ==
    LET ref == IF call.operand.expr = "Var" THEN ResolveReference(plan, call.operand.name, excluded)
               ELSE [to |-> "Literal", text |-> call.operand.text, shown |-> NoName]
        operand == CASE ref.to = "Argument" -> Var(ref.name)
                     [] ref.to = "Local"    -> Local(ref.slot)
                     [] ref.to = "Literal"  -> Literal(ref.text)
                     [] ref.to = "Function" ->
                          LET inner == ResolveCall(plan, ref.call, ref.shown, NoName)
                          IN [inner EXCEPT !.fallback = Rendered(inner.operand)]
    IN CallPart(call.f, operand, [n \in 1..Len(call.options) |-> OptionPart(plan, call.options[n])],
                IF given # NoName THEN Braced(given)
                ELSE IF ref.shown # NoName THEN Braced(ref.shown) ELSE Rendered(operand))

\* part_from_reference
ResolveVar(plan, name, excluded) ==
    LET ref == ResolveReference(plan, name, excluded) IN
    CASE ref.to = "Argument" -> Var(ref.name)
      [] ref.to = "Local"    -> Local(ref.slot)
      [] ref.to = "Literal"  -> Literal(ref.text)
      [] ref.to = "Function" -> ResolveCall(plan, ref.call, ref.shown, ref.shown)

\* lower_expression_payload_node_to_part, for a pattern and without the default
\* isolation of placeholders.
Resolve(plan, e) ==
    CASE e.expr = "Text"    -> Text(e.id)
      [] e.expr = "Literal" -> Literal(e.text)
      [] e.expr = "Var"     -> ResolveVar(plan, e.name, NoName)
      [] e.expr = "Call"    -> ResolveCall(plan, e, NoName, NoName)
      [] e.expr \in Markups ->
           MarkupPart(e.expr, e.id, [n \in 1..Len(e.options) |-> MarkupOption(e.options[n])])

ResolvePattern(plan, pattern) == [n \in 1..Len(pattern) |-> Resolve(plan, pattern[n])]

\* lower_declaration_prelude and materialize_planned_value.
Prelude(message, plan) ==
    LET stored == SelectSeq(message.decls, LAMBDA d : plan[d.name].slot # NoSlot)
        Materialized(name) ==
          LET v == plan[name].planned IN
          IF v.value = "Function" THEN ResolveCall(plan, v.call, name, name)
          ELSE ResolveVar(plan, v.name, name)
    IN [n \in 1..Len(stored) |->
          Bind(plan[stored[n].name].slot, Braced(stored[n].name), Materialized(stored[n].name))]

-----------------------------------------------------------------------------
(* Matches, and whole messages (document.rs, raw_match.rs). *)


\* builtin_numeric_selector_mode, and the optionless :string.
ModeOf(call) ==
    CASE call.f.kind \in {"number", "percent"} -> "plural"
      [] call.f.kind \in {"exact", "dynamic"}  -> call.f.kind
      [] IsOptionlessString(call.f, call.options) -> "text"
      [] OTHER                                 -> "projected"

\* analyze_selector: a selector is a declaration with a function and a slot.
IsAnnotated(plan, name) == IsPlanned(plan, name, "Function") /\ SlotOf(plan, name) # NoSlot

AnalyzedSelector(plan, name) ==
    LET call == PlanEntry(plan, name).planned.call
    IN Matched(SlotOf(plan, name), call.f.id, ModeOf(call))

Selectors(message, plan) ==
    [n \in 1..Len(message.selectors) |-> AnalyzedSelector(plan, message.selectors[n])]

\* lower_match_arm_patterns
ResolvedArms(message, plan) ==
    [n \in 1..Len(message.variants) |->
       MatchArm(message.variants[n].keys, ResolvePattern(plan, message.variants[n].pattern))]

\* build_nested_match_ir, which calls itself.
RECURSIVE BuildTree(_, _, _, _, _)
BuildTree(selectors, arms, level, candidates, fallback) ==
    BuildNested(BuildTree, selectors, arms, level, candidates, fallback)

\* What the front end accepts (validate_and_parse_declarations, validate_match_arms).
Compiles(message) ==
    /\ IsValid(message)
    /\ message.selectors # <<>> =>
         LET plan == Plan(message) IN
         /\ \A n \in 1..Len(message.selectors) : IsAnnotated(plan, message.selectors[n])
         /\ IsTable(Selectors(message, plan), ResolvedArms(message, plan))

\* parse_single_message
PartsOf(message) ==
    LET plan == Plan(message) IN
    Prelude(message, plan)
      \o (IF message.selectors = <<>>
            THEN ResolvePattern(plan, message.variants[1].pattern)
            ELSE MatchParts(BuildTree, Selectors(message, plan), ResolvedArms(message, plan)))
=============================================================================
