------------------------------ MODULE Manifest ------------------------------
(***************************************************************************)
(* What a build refuses in a message: the values of the built-in functions'  *)
(* options (compile/mod.rs), and the uses, operands, options and keys of all  *)
(* functions against a manifest (manifest.rs, compile/mod.rs), for which the   *)
(* uses of every declaration are found first (compile/analysis.rs).            *)
(*                                                                         *)
(* A manifest is a function from names to schemas; a schema has                *)
(*   formats, selects  whether it may format, whether it may select            *)
(*   operand           "any", "string" or "number"                             *)
(*   keys              "any" or a kind of key, whose texts KeyTexts gives      *)
(*   open              whether options it does not list are accepted           *)
(*   options           from keys to [value, required].                         *)
(***************************************************************************)
EXTENDS Parts

-----------------------------------------------------------------------------
(* The walk every pass of the compiler makes. *)

\* Every part, a select before its arms and those before its default, and a
\* declaration without its value.
RECURSIVE InOrder(_)
InOrder(parts) ==
    LET Within(part) ==
          IF part.kind # "select" THEN <<part>>
          ELSE <<part>> \o Joined(LAMBDA arm : InOrder(arm.parts), part.arms)
                 \o InOrder(part.default)
    IN Joined(Within, parts)

\* The calls within an operand, the innermost first.
RECURSIVE NestedCalls(_)
NestedCalls(operand) ==
    IF operand.kind # "call" THEN <<>>
    ELSE NestedCalls(operand.call.operand) \o <<operand.call>>

-----------------------------------------------------------------------------

\* A fault: the error, the source it names, and whether it names its message.  The
\* origin of a key is in the source of its function's.
Fault(error, source) == [error |-> error, source |-> source, named |-> TRUE]
KeyFault(source) == [error |-> "InvalidVariantKey", source |-> source, named |-> FALSE]

SourceOf(func, message) == IF func.origin # None THEN func.origin ELSE message.origin

-----------------------------------------------------------------------------
(* Built-in functions. *)

\* collect_builtin_function_errors; \0inherit, which the frontend writes, is in
\* the domain here.
BadLiterals(func) ==
    SelectSeq(func.options,
        LAMBDA option : /\ <<func.name, option.key>> \in DOMAIN LiteralDomain
                        /\ option.how = "literal"
                        /\ option.text \notin LiteralDomain[func.name, option.key])

\* collect_builtin_operand_errors, collect_builtin_part_errors: not into what a
\* local selector carries, nor into markup.
FunctionsCalled(part) ==
    LET called == CASE part.kind = "bind" -> part.value
                    [] part.kind = "select" -> part.selector
                    [] OTHER -> part
    IN IF called.kind # "call" THEN <<>>
       ELSE Append(Mapped(LAMBDA call : call.func, NestedCalls(called.operand)), called.func)

BuiltinFaults(message) ==
    LET OfFunction(func) ==
          Mapped(LAMBDA option : Fault("InvalidBuiltinOptionValue", SourceOf(func, message)),
                 BadLiterals(func))
    IN Joined(LAMBDA part : Joined(OfFunction, FunctionsCalled(part)), InOrder(message.parts))

-----------------------------------------------------------------------------
(* How declarations are used. *)

\* visit_options, visit_operand
RECURSIVE SlotsOfOperand(_)
SlotsOfOptions(options) ==
    {options[n].slot : n \in {k \in DOMAIN options : options[k].how = "local"}}
SlotsOfOperand(operand) ==
    CASE operand.kind = "local" -> {operand.slot}
      [] operand.kind = "call"  -> SlotsOfOperand(operand.call.operand)
                                     \union SlotsOfOptions(operand.call.func.options)
      [] OTHER -> {}
SlotsOfCall(call) == SlotsOfOperand(call.operand) \union SlotsOfOptions(call.func.options)

\* visit_parts, visit_selector: what one part, not an alias, marks.
Marks(part) ==
    LET selector == part.selector
        Formats(slots) == {<<slot, "format">> : slot \in slots}
    IN CASE part.kind = "local"  -> Formats({part.slot})
         [] part.kind = "check"  -> {<<part.slot, "select">>}
         [] part.kind = "call"   -> Formats(SlotsOfCall(part))
         [] part.kind = "bind" /\ part.value.kind = "call" -> Formats(SlotsOfCall(part.value))
         [] part.kind = "select" /\ selector.kind \in {"local", "checked"} ->
                {<<selector.slot, "select">>}
         [] part.kind = "select" /\ selector.kind = "call" -> Formats(SlotsOfCall(selector))
         [] part.kind = "markup" -> Formats(SlotsOfOptions(part.options))
         [] OTHER -> {}

IsAlias(part) == part.kind = "bind" /\ part.value.kind = "local"

\* One round over the aliases, in their order.
MarkAliases(uses, aliases) ==
    FoldLeft(LAMBDA marked, alias :
               marked \union {<<alias.value.slot, use[2]>> :
                                use \in {u \in marked : u[1] = alias.slot}},
             uses, aliases)

\* Rounds until one changes nothing.
RECURSIVE Propagated(_, _)
Propagated(uses, aliases) ==
    LET marked == MarkAliases(uses, aliases)
    IN IF marked = uses THEN uses ELSE Propagated(marked, aliases)

\* a mutant: a single round.
PropagatedOnce(uses, aliases) == MarkAliases(uses, aliases)

\* DeclarationUses::analyze: the uses of every slot.
Analyzed(uses, aliases) == Propagated(uses, aliases)
DeclarationUses(parts) ==
    LET all == InOrder(parts)
    IN Analyzed(UNION {Marks(all[n]) : n \in {k \in DOMAIN all : ~IsAlias(all[k])}},
                SelectSeq(all, IsAlias))

-----------------------------------------------------------------------------
(* Against the manifest. *)

\* validate_function_usage
Allows(schema, use) == IF use = "format" THEN schema.formats ELSE schema.selects

\* validate_function_operand; None for a selector that is a declaration.
OperandAllowed(schema, operand) ==
    \/ operand = None
    \/ schema.operand = "any"
    \/ operand.kind \notin {"string", "number"}
    \/ operand.kind = schema.operand

\* validate_function_option, validate_markup_option
OptionFault(schema, option) ==
    IF option.key \notin DOMAIN schema.options
    THEN IF schema.open THEN <<>> ELSE <<"UnknownFunctionOption">>
    ELSE LET form == IF option.how = "literal" THEN "literal" ELSE "variable"
         IN IF schema.options[option.key].value \in {form, "either"} THEN <<>>
            ELSE <<"InvalidFunctionOptionValue">>

\* validate_required_function_options, validate_required_markup_options: the
\* first missing option only.
RequiredFault(schema, options) ==
    LET given == {options[n].key : n \in DOMAIN options}
    IN IF \E key \in DOMAIN schema.options :
             schema.options[key].required /\ key \notin given
       THEN <<"MissingFunctionOption">> ELSE <<>>

OptionFaults(schema, options) ==
    Joined(LAMBDA option : OptionFault(schema, option), options)
        \o RequiredFault(schema, options)

\* collect_function_spec_errors_into
FunctionFaults(manifest, func, operand, use) ==
    IF func.name \notin DOMAIN manifest THEN <<"UnknownFunction">>
    ELSE LET schema == manifest[func.name]
         IN (IF Allows(schema, use) THEN <<>> ELSE <<"UnsupportedFunctionUsage">>)
              \o (IF OperandAllowed(schema, operand) THEN <<>> ELSE <<"InvalidFunctionOperand">>)
              \o OptionFaults(schema, func.options)

\* collect_markup_manifest_errors_into
MarkupFaults(manifest, part) ==
    IF part.name \notin DOMAIN manifest THEN <<"UnknownFunction">>
    ELSE IF ~manifest[part.name].formats THEN <<"UnsupportedFunctionUsage">>
    ELSE OptionFaults(manifest[part.name], part.options)

\* collect_manifest_part_errors for a declaration: the use it is looked up with,
\* and whether selecting is looked at besides.
UseOfDeclaration(slot, uses) ==
    IF <<slot, "format">> \notin uses /\ <<slot, "select">> \in uses
    THEN "select" ELSE "format"
UsedBothWays(slot, uses) == <<slot, "format">> \in uses /\ <<slot, "select">> \in uses

\* collect_selector_manifest_errors, for its keys
BadKeys(manifest, func, arms) ==
    IF func.name \notin DOMAIN manifest \/ manifest[func.name].keys = "any" THEN <<>>
    ELSE SelectSeq(arms, LAMBDA arm : arm.key \notin KeyTexts[manifest[func.name].keys])

\* collect_manifest_part_errors: what it finds in one part of a message.
PartFaults(manifest, part, uses, message) ==
    LET From(func, errors) ==
          Mapped(LAMBDA error : Fault(error, SourceOf(func, message)), errors)
        OfNested(operand) ==
          Joined(LAMBDA call :
                   From(call.func, FunctionFaults(manifest, call.func, call.operand, "format")),
                 NestedCalls(operand))
        OfCall(call, use) ==
          OfNested(call.operand)
            \o From(call.func, FunctionFaults(manifest, call.func, call.operand, use))
        value    == part.value
        selector == part.selector
    IN CASE part.kind = "call" -> OfCall(part, "format")
         [] part.kind = "bind" /\ value.kind = "call" ->
              OfCall(value, UseOfDeclaration(part.slot, uses))
                \o (IF /\ UsedBothWays(part.slot, uses)
                       /\ value.func.name \in DOMAIN manifest
                       /\ ~manifest[value.func.name].selects
                    THEN From(value.func, <<"UnsupportedFunctionUsage">>) ELSE <<>>)
         [] part.kind = "select" /\ selector.kind \in {"call", "local", "checked"} ->
              (IF selector.kind = "call" THEN OfCall(selector, "select")
               ELSE IF selector.func = None THEN <<>>
               ELSE From(selector.func, FunctionFaults(manifest, selector.func, None, "select")))
                \o (IF selector.func = None THEN <<>>
                    ELSE Mapped(LAMBDA arm : KeyFault(SourceOf(selector.func, message)),
                                BadKeys(manifest, selector.func, part.arms)))
         [] part.kind = "markup" ->
              Mapped(LAMBDA error : Fault(error, message.origin), MarkupFaults(manifest, part))
         [] OTHER -> <<>>

\* collect_manifest_validation_errors
ManifestFaults(manifest, message) ==
    LET uses == DeclarationUses(message.parts)
    IN Joined(LAMBDA part : PartFaults(manifest, part, uses, message), InOrder(message.parts))

-----------------------------------------------------------------------------
(* What a manifest permits, said of a message as a whole: every call in it is *)
(* of a function the manifest has, with operand, options and keys that the    *)
(* schema allows, and whatever becomes of a call's value, there and wherever  *)
(* a declaration carries it, the function may be used for.                    *)

\* The call a slot's value comes from, through any chain of declarations that
\* only rename it, as a position among all parts; None if from no call.
RECURSIVE CallBehind(_, _)
CallBehind(slot, all) ==
    LET here == {n \in DOMAIN all : all[n].kind = "bind" /\ all[n].slot = slot}
        bind == CHOOSE n \in here : TRUE
    IN IF here = {} THEN None
       ELSE CASE all[bind].value.kind = "call"  -> bind
              [] all[bind].value.kind = "local" -> CallBehind(all[bind].value.slot, all)
              [] OTHER -> None

\* The slots whose values the options, an operand or a part hands on.
HandedByOptions(options) ==
    {option.slot : option \in {o \in ToSet(options) : o.how = "local"}}
HandedBy(operand, options) ==
    LET nested    == NestedCalls(operand)
        innermost == IF nested = <<>> THEN operand ELSE nested[1].operand
    IN (IF innermost.kind = "local" THEN {innermost.slot} ELSE {})
         \union HandedByOptions(options)
         \union UNION {HandedByOptions(c.func.options) : c \in ToSet(nested)}

Formatted(part) ==
    LET call == IF part.kind = "bind" THEN part.value
                ELSE IF part.kind = "select" THEN part.selector ELSE part
    IN CASE call.kind = "call"  -> HandedBy(call.operand, call.func.options)
         [] part.kind = "local"  -> {part.slot}
         [] part.kind = "markup" -> HandedByOptions(part.options)
         [] OTHER -> {}

Selected(part) ==
    CASE part.kind = "check" -> {part.slot}
      [] part.kind = "select" /\ part.selector.kind \in {"local", "checked"} ->
            {part.selector.slot}
      [] OTHER -> {}

-----------------------------------------------------------------------------

OptionsRespect(schema, options) ==
    /\ \A option \in ToSet(options) :
          IF option.key \in DOMAIN schema.options
          THEN schema.options[option.key].value
                 \in {"either", IF option.how = "literal" THEN "literal" ELSE "variable"}
          ELSE schema.open
    /\ \A key \in DOMAIN schema.options :
          schema.options[key].required => \E option \in ToSet(options) : option.key = key

\* The function of a call may be called so; of a local selector, whose operand is
\* looked at where it is declared, None.
Respects(manifest, func, operand) ==
    /\ func.name \in DOMAIN manifest
    /\ LET schema == manifest[func.name]
       IN /\ OptionsRespect(schema, func.options)
          /\ (operand # None /\ schema.operand # "any"
                /\ operand.kind \in {"string", "number"}) => operand.kind = schema.operand

MayFormat(manifest, name) == name \in DOMAIN manifest /\ manifest[name].formats
MaySelect(manifest, name) == name \in DOMAIN manifest /\ manifest[name].selects

\* A call, and those in its operand, which format.
CallRespects(manifest, call) ==
    /\ Respects(manifest, call.func, call.operand)
    /\ \A nested \in ToSet(NestedCalls(call.operand)) :
          /\ Respects(manifest, nested.func, nested.operand)
          /\ MayFormat(manifest, nested.func.name)

KeysRespect(manifest, name, arms) ==
    LET kind == manifest[name].keys
    IN kind = "any" \/ \A arm \in ToSet(arms) : arm.key \in KeyTexts[kind]

\* A declared call that nobody uses is made all the same, to be formatted.
DeclarationRespects(manifest, all, n) ==
    LET UsedFor(Slots(_)) ==
          \E part \in ToSet(all) : \E slot \in Slots(part) : CallBehind(slot, all) = n
        name == all[n].value.func.name
    IN /\ CallRespects(manifest, all[n].value)
       /\ (UsedFor(Formatted) \/ ~UsedFor(Selected)) => MayFormat(manifest, name)
       /\ UsedFor(Selected) => MaySelect(manifest, name)

SelectRespects(manifest, selector, arms) ==
    (selector.kind \in {"call", "local", "checked"} /\ selector.func # None) =>
        /\ MaySelect(manifest, selector.func.name)
        /\ KeysRespect(manifest, selector.func.name, arms)
        /\ IF selector.kind = "call" THEN CallRespects(manifest, selector)
           ELSE Respects(manifest, selector.func, None)

Permitted(manifest, message) ==
    LET all == InOrder(message.parts)
    IN \A n \in DOMAIN all :
          CASE all[n].kind = "call" ->
                 CallRespects(manifest, all[n]) /\ MayFormat(manifest, all[n].func.name)
            [] all[n].kind = "bind" ->
                 all[n].value.kind = "call" => DeclarationRespects(manifest, all, n)
            [] all[n].kind = "select" ->
                 SelectRespects(manifest, all[n].selector, all[n].arms)
            [] all[n].kind = "markup" ->
                 /\ MayFormat(manifest, all[n].name)
                 /\ OptionsRespect(manifest[all[n].name], all[n].options)
            [] OTHER -> TRUE

\* No literal is given to an option of a built-in function that it does not know.
LiteralsKnown(message) ==
    LET Calls(part) == IF part.kind = "call" THEN {part}
                       ELSE IF part.kind = "bind" /\ part.value.kind = "call" THEN {part.value}
                       ELSE IF part.kind = "select" /\ part.selector.kind = "call"
                       THEN {part.selector} ELSE {}
    IN \A part \in ToSet(InOrder(message.parts)) : \A call \in Calls(part) :
         \A func \in {call.func} \union {c.func : c \in ToSet(NestedCalls(call.operand))} :
           \A option \in ToSet(func.options) :
             (option.how = "literal" /\ <<func.name, option.key>> \in DOMAIN LiteralDomain)
               => option.text \in LiteralDomain[func.name, option.key]
=============================================================================
