------------------------------ MODULE Meaning -------------------------------
(***************************************************************************)
(* What a message means, by its parts and without code: a reference for    *)
(* lowering and execution together.  An expression yields a value and the   *)
(* errors it reports; whether it failed is known from these alone, never    *)
(* from another expression.  The meaning is a set, for the host is free.   *)
(* An execution that returns Ok must have one of the message's meanings.   *)
(*                                                                         *)
(* Then what a message means as written: its declarations make an          *)
(* environment of names, in source order, and its best variant is shown.   *)
(***************************************************************************)
EXTENDS VM, Frontend

-----------------------------------------------------------------------------
(* Expressions. *)

Result(v, errors, missing) == [v |-> v, errors |-> errors, missing |-> missing]

Failed(r) == r.missing \/ r.v.kind = "Fallback"

\* A host's answers: a value, or an error for which the fallback fb stands.
Answers(errors, fb) ==
    {Result(v, errors \o note, FALSE) : v \in HostValues, note \in HostReports}
      \cup {Result(Val("FunctionFallback", fb), errors \o note \o <<error>>, FALSE) :
              note \in HostReports, error \in HostErrors}

Unresolved(errors) == {errors \o note : note \in {<<>>, <<"UnknownFunction">>, <<"Function">>}}

FailedOption(option, slots) ==
    \/ option.from = "Var" /\ ~HasArg(option.id)
    \/ option.from = "Local" /\ IsFallback(slots[option.id + 1])

OptionErrors(options, slots) ==
    [n \in 1..Cardinality({k \in 1..Len(options) :
                             options[k].from = "Var" /\ ~HasArg(options[k].id)}) |-> "MissingArg"]
      \o [n \in 1..Cardinality({k \in 1..Len(options) : FailedOption(options[k], slots)})
            |-> "BadOption"]

RECURSIVE Evaluate(_, _)
Evaluate(e, slots) ==
    CASE e.part = "Literal" -> {Result(Val("StrRef", e.id), <<>>, FALSE)}
      [] e.part = "Local"   -> {Result(slots[e.id + 1], <<>>, FALSE)}
      [] e.part = "Var"     ->
           {IF HasArg(e.id) THEN Result(Arg(e.id), <<>>, FALSE)
            ELSE Result(Null, <<"MissingArg">>, TRUE)}
      [] e.part = "StringCall" ->
           {IF r.missing \/ IsFallback(r.v)
              THEN Result(Val("Fallback", e.fallback),
                          r.errors \o IF r.v.kind = "FunctionFallback" THEN <<"BadOperand">> ELSE <<>>,
                          FALSE)
              ELSE Result(Val("String", IF IsNull(r.v) THEN EmptyText ELSE r.v.text), r.errors, FALSE) :
            r \in Evaluate(e.operand, slots)}
      [] e.part = "Call" ->
           UNION {IF Failed(r)
                    THEN {Result(Val("Fallback", e.fallback), errors, FALSE) :
                            errors \in Unresolved(r.errors)}
                    ELSE Answers(r.errors \o OptionErrors(e.options, slots), e.fallback) :
                  r \in Evaluate(e.operand, slots)}

\* A declaration that failed shows its own fallback.
DeclaredAs(r, fb) ==
    IF r.v.kind = "FunctionFallback" THEN Val("FunctionFallback", fb)
    ELSE IF Failed(r) THEN Val("Fallback", fb) ELSE r.v

-----------------------------------------------------------------------------
(* Selectors: the value the cases are compared with, and the errors. *)

Selectable(v, errors) == [v |-> v, exact |-> FALSE, errors |-> errors]
Checked(r) == Selectable(r.v, r.errors \o IF Unselectable(r.v) THEN <<"BadSelector">> ELSE <<>>)

Projected(v) ==
    IF Unselectable(v) THEN {Result(Null, <<>>, FALSE)}
    ELSE {Result(p, note \o IF IsNull(p) THEN <<"BadSelector">> ELSE <<>>, FALSE) :
            p \in HostValues \cup {Null}, note \in HostReports}

SelectedByCall(s, slots) ==
    UNION {IF Failed(r)
             THEN {Result(Null, errors \o IF r.missing THEN <<"BadSelector">> ELSE <<>>, FALSE) :
                     errors \in Unresolved(r.errors)}
             ELSE LET errors == r.errors \o OptionErrors(s.options, slots)
                  IN {Result(v, errors \o note \o IF IsNull(v) THEN <<"BadSelector">> ELSE <<>>, FALSE) :
                        v \in HostValues, note \in HostReports}
                     \cup {Result(Null, errors \o note \o <<"BadSelector">>, FALSE) :
                             note \in HostReports} :
           r \in Evaluate(s.operand, slots)}

SelectOn(s, slots) ==
    CASE s.on \in {"Var", "StringVar"} /\ HasArg(s.id) ->
           {[Selectable(IF s.on = "StringVar" /\ IsNull(Arg(s.id)) THEN Val("String", EmptyText)
                        ELSE Arg(s.id), <<>>) EXCEPT !.exact = TRUE]}
      [] s.on = "Var" /\ ~HasArg(s.id)       -> {Selectable(Null, <<"MissingArg", "BadSelector">>)}
      [] s.on = "StringVar" /\ ~HasArg(s.id) -> {Selectable(Null, <<"MissingArg">>)}
      [] s.on = "Literal"      -> {Selectable(Val("StrRef", s.id), <<>>)}
      [] s.on = "Local"        -> {Checked(Result(slots[s.id + 1], <<>>, FALSE))}
      [] s.on = "CheckedLocal" -> {Selectable(slots[s.id + 1], <<>>)}
      [] s.on = "Projected"    -> {Checked(r) : r \in Projected(slots[s.id + 1])}
      [] s.on = "StringCall"   ->
           {IF r.missing \/ IsFallback(r.v)
              THEN Selectable(Null, r.errors \o
                              IF r.v.kind = "FunctionFallback" THEN <<"BadOperand">> ELSE <<>>)
              ELSE Selectable(Val("String", IF IsNull(r.v) THEN EmptyText ELSE r.v.text), r.errors) :
            r \in Evaluate(s.operand, slots)}
      [] s.on = "Call"         -> {Checked(r) : r \in SelectedByCall(s, slots)}

Takeable(on, key) ==
    /\ ~IsNull(on.v) /\ ~IsFallback(on.v)
    /\ on.v.kind \in {"BadNumber", "Formatted"} => on.exact
    /\ on.v.text = key

Choice(s, on) ==
    LET taken == {n \in 1..Len(s.arms) : Takeable(on, s.arms[n].key)}
    IN IF taken = {} THEN s.default ELSE s.arms[Min(taken)].parts

-----------------------------------------------------------------------------
(* Parts: from what was bound, output and reported so far to what is then. *)

Progress(slots, output, errors) == [slots |-> slots, output |-> output, errors |-> errors]

Shows(so, v) == [so EXCEPT !.output = Append(@, [what |-> IF IsFallback(v) THEN "fallback" ELSE "value",
                                              text |-> v.text])]
Writes(so, what, text) == [so EXCEPT !.output = Append(@, [what |-> what, text |-> text])]
Reports(so, errors)    == [so EXCEPT !.errors = @ \o errors]

\* A call whose result is output at once may be written by the host itself.
ShowsCall(so, e) ==
    {Shows(Reports(so, r.errors), r.v) : r \in Evaluate(e, so.slots)}
      \cup UNION {IF Failed(r) \/ call.structured THEN {}
                  ELSE {Writes(Reports(so, r.errors \o OptionErrors(e.options, so.slots) \o note),
                               "direct", e.id) : note \in HostReports} :
                  r \in Evaluate(e.operand, so.slots)}

MarkupErrors(options) == {<<>>} \cup (IF options = <<>> THEN {} ELSE {<<"BadOption">>})

MarkupMissing(options) ==
    [n \in 1..Cardinality({k \in 1..Len(options) :
                             options[k].from = "Var" /\ ~HasArg(options[k].id)}) |-> "MissingArg"]

RECURSIVE Perform(_, _)
Perform(parts, from) ==
    LET Part(p, so) ==
          CASE p.part \in {"Text", "Literal"} -> {Writes(so, "literal", p.id)}
            [] p.part = "Var" ->
                 {IF HasArg(p.id) THEN Shows(so, Arg(p.id))
                  ELSE Reports(Writes(so, "fallback", p.id), <<"MissingArg">>)}
            [] p.part = "Local" -> {Shows(so, so.slots[p.id + 1])}
            [] p.part = "StringCall" ->
                 {Shows(Reports(so, r.errors), r.v) : r \in Evaluate(p, so.slots)}
            [] p.part = "Call" -> ShowsCall(so, p)
            [] p.part \in Markups ->
                 {Reports(Writes(so, "markup", p.id), MarkupMissing(p.options) \o errors) :
                    errors \in MarkupErrors(p.options)}
            [] p.part = "CheckSelector" ->
                 {Reports(so, IF Unselectable(so.slots[p.id + 1]) THEN <<"BadSelector">> ELSE <<>>)}
            [] p.part = "Bind" ->
                 {Reports([so EXCEPT !.slots = Append(@, DeclaredAs(r, p.fallback))], r.errors) :
                    r \in Evaluate(p.value, so.slots)}
            [] p.part = "Select" ->
                 UNION {Perform(Choice(p, on), Reports(so, on.errors)) :
                        on \in SelectOn(p.selector, so.slots)}
    IN FoldLeft(LAMBDA reached, p : UNION {Part(p, so) : so \in reached}, {from}, parts)

Meanings(message) == Perform(message, Progress(<<>>, <<>>, <<>>))

-----------------------------------------------------------------------------
(* Comparison with an execution. *)

\* What is returned for a message compiled from these parts is one of its meanings.
Means(meanings) ==
    \E so \in meanings : out = so.output /\ diags = IF call.diagnostics THEN so.errors ELSE <<>>

MeansMessages(messages) ==
    \E m \in 1..Len(messages) :
        catalog.entries[m] = call.entry /\ Means(Meanings(messages[m]))

-----------------------------------------------------------------------------
(* What a message means as it is written: a reference for the front end too. *)
(* Declarations are evaluated in source order, each once, into an            *)
(* environment of names; there are no slots, nothing is inlined, and of the   *)
(* variants the best one is taken.                                           *)

-----------------------------------------------------------------------------
(* Names.  An alias of a declaration with a function is another name of that *)
(* declaration, and one of a literal is the literal.                        *)

IsDeclared(message, name)    == \E d \in ToSet(message.decls) : d.name = name
DeclarationOf(message, name) == CHOOSE d \in ToSet(message.decls) : d.name = name
IsLet(message, name, kind) ==
    /\ IsDeclared(message, name)
    /\ DeclarationOf(message, name).kind = "local"
    /\ DeclarationOf(message, name).expr.expr = kind

RECURSIVE Denoted(_, _)
Denoted(message, name) ==
    IF ~IsLet(message, name, "Var") THEN name
    ELSE LET of == Denoted(message, DeclarationOf(message, name).expr.name) IN
         IF \/ IsLet(message, of, "Literal")
            \/ IsDeclared(message, of) /\ DeclarationOf(message, of).expr.expr = "Call"
           THEN of ELSE name

IsLiteral(message, name) == IsLet(message, Denoted(message, name), "Literal")
LiteralOf(message, name) == DeclarationOf(message, Denoted(message, name)).expr.text

\* The value of a name in the environment of what was declared so far.
Named(message, name, env) ==
    LET n == Denoted(message, name) IN
    IF IsLiteral(message, n) THEN Result(Val("StrRef", LiteralOf(message, n)), <<>>, FALSE)
    ELSE IF n \in DOMAIN env THEN Result(env[n], <<>>, FALSE)
    ELSE IF HasArg(n) THEN Result(Arg(n), <<>>, FALSE)
    ELSE Result(Null, <<"MissingArg">>, TRUE)

-----------------------------------------------------------------------------
(* Expressions. *)

OperandOf(message, e, env) ==
    IF e.operand.expr = "Literal" THEN Result(Val("StrRef", e.operand.text), <<>>, FALSE)
    ELSE Named(message, e.operand.name, env)

\* A literal shows itself; an alias of a literal shows its own name.
ShownFor(message, e) ==
    IF e.operand.expr = "Literal" THEN Quoted(e.operand.text)
    ELSE IF IsLiteral(message, e.operand.name) THEN Braced(e.operand.name)
    ELSE Braced(Denoted(message, e.operand.name))

WithoutArg(message, options, env) ==
    {n \in 1..Len(options) : Named(message, options[n].name, env).missing}
HasNoValue(r) == r.missing \/ IsFallback(r.v)
Bad(message, options, env) ==
    {n \in 1..Len(options) : HasNoValue(Named(message, options[n].name, env))}
OptionFaults(message, options, env) ==
    [n \in 1..Cardinality(WithoutArg(message, options, env)) |-> "MissingArg"]
      \o [n \in 1..Cardinality(Bad(message, options, env)) |-> "BadOption"]

\* The results of a call that shows fb if it fails.
Called(message, e, env, fb) ==
    LET r == OperandOf(message, e, env) IN
    IF IsOptionlessString(e.f, e.options)
      THEN IF HasNoValue(r)
             THEN {Result(Val("Fallback", fb),
                          r.errors \o IF r.v.kind = "FunctionFallback" THEN <<"BadOperand">> ELSE <<>>,
                          FALSE)}
             ELSE {Result(Val("String", IF IsNull(r.v) THEN EmptyText ELSE r.v.text), r.errors, FALSE)}
    ELSE IF Failed(r)
      THEN {Result(Val("Fallback", fb), errors, FALSE) : errors \in Unresolved(r.errors)}
    ELSE Answers(r.errors \o OptionFaults(message, e.options, env), fb)

\* A declaration: what the environment and the errors are after it.
Declares(message, so, d) ==
    LET bound(r) == [Reports(so, r.errors) EXCEPT
                       !.slots = (d.name :> DeclaredAs(r, Braced(d.name))) @@ @]
    IN IF d.expr.expr = "Call"
         THEN {bound(r) : r \in Called(message, d.expr, so.slots, Braced(d.name))}
       ELSE IF d.kind = "local" /\ Denoted(message, d.name) = d.name /\ d.expr.expr = "Var"
         THEN {bound(Named(message, d.expr.name, so.slots))}
       ELSE {so}

-----------------------------------------------------------------------------
(* Patterns. *)

Interpolates(message, so, e) ==
    CASE e.expr = "Text"    -> {Writes(so, "literal", e.id)}
      [] e.expr = "Literal" -> {Writes(so, "literal", e.text)}
      [] e.expr = "Var"     ->
           LET r == Named(message, e.name, so.slots) IN
           {IF IsLiteral(message, e.name) THEN Writes(so, "literal", LiteralOf(message, e.name))
            ELSE IF r.missing THEN Reports(Writes(so, "fallback", e.name), r.errors)
            ELSE Shows(so, r.v)}
      [] e.expr = "Call" ->
           {Shows(Reports(so, r.errors), r.v) :
              r \in Called(message, e, so.slots, ShownFor(message, e))}
           \cup (IF \/ Failed(OperandOf(message, e, so.slots)) \/ call.structured
                    \/ IsOptionlessString(e.f, e.options) THEN {}
                 ELSE {Writes(Reports(so, OptionFaults(message, e.options, so.slots) \o note),
                              "direct", e.f.id) : note \in HostReports})
      [] e.expr \in Markups ->
           {Reports(Writes(so, "markup", e.id),
                    [n \in 1..Cardinality(WithoutArg(message, e.options, so.slots)) |-> "MissingArg"]
                      \o errors) : errors \in MarkupErrors(e.options)}

-----------------------------------------------------------------------------
(* Matches.  At most the first selector is projected. *)

SelectorCall(message, name) == DeclarationOf(message, Denoted(message, name)).expr
ModeFor(message, n) == ModeOf(SelectorCall(message, message.selectors[n]))
ValueOf(message, n, so) == so.slots[Denoted(message, message.selectors[n])]

Checks(message, so) ==
    FoldLeft(LAMBDA s, n :
               IF ModeFor(message, n) # "text" /\ Unselectable(ValueOf(message, n, so))
                 THEN Reports(s, <<"BadSelector">>) ELSE s,
             so, [n \in 1..Len(message.selectors) |-> n])

\* The best variants if the first selector is projected to projected.
BestVariants(message, so, projected) ==
    LET FitOf(variant) ==
          [n \in 1..Len(message.selectors) |->
             Fit(Matched(0, 0, ModeFor(message, n)),
                 LAMBDA key : Takeable(Selectable(ValueOf(message, n, so), <<>>), key),
                 LAMBDA key : Takeable(Selectable(projected, <<>>), key),
                 variant.keys[n])]
    IN Best([n \in 1..Len(message.variants) |-> FitOf(message.variants[n])])

\* The first selector is projected unless its value alone decides.
IsProjected(message, so) ==
    \/ ModeFor(message, 1) = "projected"
    \/ /\ ModeFor(message, 1) = "plural"
       /\ \E n \in 1..Len(message.variants) :
            message.variants[n].keys[1] \notin NumberKeys \cup {Star}
       /\ \A n \in BestVariants(message, so, Null) :
            message.variants[n].keys[1] = Star

Taken(message, so) ==
    IF message.selectors = <<>> THEN {[so |-> so, variant |-> 1]}
    ELSE LET checked == Checks(message, so) IN
         IF IsProjected(message, so)
           THEN UNION {{[so |-> Reports(checked, p.errors), variant |-> n] :
                          n \in BestVariants(message, so, p.v)} :
                       p \in {Checked(q) : q \in Projected(ValueOf(message, 1, so))}}
           ELSE {[so |-> checked, variant |-> n] : n \in BestVariants(message, so, Null)}

SourceMeanings(message) ==
    LET declared == FoldLeft(LAMBDA reached, d : UNION {Declares(message, so, d) : so \in reached},
                             {Progress(<<>>, <<>>, <<>>)}, message.decls)
    IN UNION {FoldLeft(LAMBDA reached, e : UNION {Interpolates(message, so, e) : so \in reached},
                       {c.so}, message.variants[c.variant].pattern) :
              c \in UNION {Taken(message, so) : so \in declared}}

-----------------------------------------------------------------------------
(* What the front end overlooks: a use that is not seen is not counted, so    *)
(* the declaration it is a use of may be inlined all the same.  The option    *)
(* is then an argument's, which has the name but is not given.                *)

Undeclared == -1
Overlooking(message) ==
    LET inlined == Inlined(message)
        Left(o) == IF ~o.seen /\ o.name \in inlined THEN [o EXCEPT !.name = Undeclared] ELSE o
        Of(e)   == IF e.expr = "Call"
                     THEN [e EXCEPT !.options = [n \in DOMAIN e.options |-> Left(e.options[n])]]
                     ELSE e
        OfDeclaration(d) == [d EXCEPT !.expr = Of(d.expr)]
        OfVariant(v)     == [v EXCEPT !.pattern = [n \in DOMAIN v.pattern |-> Of(v.pattern[n])]]
    IN [message EXCEPT !.decls = [n \in DOMAIN message.decls |-> OfDeclaration(message.decls[n])],
                       !.variants = [n \in DOMAIN message.variants |-> OfVariant(message.variants[n])]]
=============================================================================
