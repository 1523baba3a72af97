------------------------------ MODULE Grammar -------------------------------
(***************************************************************************)
(* Messages as trees, how a tree is written, and which trees are messages:    *)
(* the reference the parser and the checks of the source are compared with    *)
(* (the productions quoted in compiler/syntax/parser.rs and charset.rs, the   *)
(* rules that the errors of compiler/compile/error.rs name).                  *)
(*                                                                         *)
(* A tree is what the parser is to return, without positions:                 *)
(*   [declarations, selectors, variants, body]                               *)
(* with expressions as in Parser, whose options are [name, value].  Without    *)
(* selectors the message is its body, with them its variants.                 *)
(*                                                                         *)
(* A layout says how a tree is written: gap is the white space that must be    *)
(* there, pad what may be, line what is between two declarations, mark the     *)
(* bidi controls around a name, and quoted whether a body that could do        *)
(* without is written in "{{" and "}}".                                       *)
(***************************************************************************)
EXTENDS Syntax

LOCAL Joined(parts) ==
    LET from[n \in 1..Len(parts) + 1] ==
            IF n > Len(parts) THEN <<>> ELSE parts[n] \o from[n + 1]
    IN from[1]
LOCAL Each(list, Write(_)) == Joined([n \in DOMAIN list |-> Write(list[n])])

-----------------------------------------------------------------------------
(* How a tree is written. *)

WrittenName(name, layout) == layout.mark \o name \o layout.mark
WrittenValue(value, layout) ==
    IF value.var THEN <<"$">> \o WrittenName(value.text, layout) ELSE value.text
WrittenOptions(options, layout) ==
    Each(options, LAMBDA option :
        layout.gap \o WrittenName(option.name, layout)
          \o layout.pad \o <<"=">> \o layout.pad \o WrittenValue(option.value, layout))
WrittenFunction(function, layout) ==
    <<":">> \o WrittenName(function.name, layout) \o WrittenOptions(function.options, layout)

WrittenExpression(payload, layout) ==
    LET operand == CASE payload.node = "Literal" -> payload.value
                     [] payload.node \in {"Var", "Call"} ->
                          <<"$">> \o WrittenName(payload.name, layout)
                     [] OTHER -> <<>>
        called  == \/ payload.node = "Call"
                   \/ payload.node = "Literal" /\ payload.function # NoFunction
        gap     == IF operand = <<>> THEN <<>> ELSE layout.gap
    IN <<"{">> \o layout.pad
         \o (IF payload.node = "Markup"
               THEN <<IF payload.kind = "Close" THEN "/" ELSE "#">>
                      \o WrittenName(payload.name, layout)
                      \o WrittenOptions(payload.options, layout) \o layout.pad
                      \o (IF payload.kind = "SelfClose" THEN <<"/">> ELSE <<>>)
             ELSE IF called THEN operand \o gap \o WrittenFunction(payload.function, layout)
                                 \o layout.pad
             ELSE operand \o layout.pad)
         \o <<"}">>

WrittenPattern(segments, layout) ==
    Each(segments, LAMBDA segment :
        IF segment.segment = "Text" THEN segment.value
        ELSE WrittenExpression(segment.payload, layout))
WrittenQuoted(segments, layout) ==
    Open \o WrittenPattern(segments, layout) \o Close

WrittenDeclaration(decl, layout) ==
    <<".", decl.kind>>
      \o (IF decl.kind = "input" THEN layout.pad
          ELSE layout.gap \o <<"$">> \o WrittenName(decl.name, layout)
                 \o layout.pad \o <<"=">> \o layout.pad)
      \o WrittenExpression(decl.expr, layout)

WrittenKey(key) ==
    CASE key.kind = "default" -> <<"*">>
      [] key.kind = "quoted"  -> <<"|">> \o key.text \o <<"|">>
      [] key.kind = "plain"   -> key.text
WrittenVariant(variant, layout) ==
    Each(variant.keys, LAMBDA key : layout.gap \o WrittenKey(key))
      \o layout.pad \o WrittenQuoted(variant.segments, layout)
WrittenMatch(tree, layout) ==
    <<".", "match">> \o Each(tree.selectors, LAMBDA name : layout.gap \o <<"$">> \o name)
      \o Each(tree.variants, LAMBDA variant : WrittenVariant(variant, layout))

Written(tree, layout) ==
    Each(tree.declarations, LAMBDA decl :
        WrittenDeclaration(decl, layout) \o layout.line)
    \o (CASE tree.selectors # <<>> -> WrittenMatch(tree, layout) \o layout.pad
          [] tree.selectors = <<>> /\ (tree.declarations # <<>> \/ layout.quoted) ->
               layout.pad \o WrittenQuoted(tree.body, layout) \o layout.pad
          [] OTHER -> WrittenPattern(tree.body, layout))

-----------------------------------------------------------------------------
(* What the parser has read, as a tree. *)

LOCAL OfOptions(options) ==
    [n \in DOMAIN options |-> [name |-> options[n].name, value |-> options[n].value]]
LOCAL OfPayload(payload) ==
    CASE payload.node = "Markup" -> [payload EXCEPT !.options = OfOptions(@)]
      [] payload.node \in {"Call", "Literal"} ->
           IF payload.function = NoFunction THEN payload
           ELSE [payload EXCEPT !.function.options = OfOptions(@)]
      [] OTHER -> payload
LOCAL OfSegments(segments) ==
    [n \in DOMAIN segments |->
        IF segments[n].segment = "Text" THEN segments[n]
        ELSE [segments[n] EXCEPT !.payload = OfPayload(@)]]
LOCAL OfDeclaration(decl) ==
    IF decl.kind = "input" THEN [kind |-> "input", expr |-> OfPayload(decl.payload.expr)]
    ELSE [kind |-> "local", name |-> decl.payload.name, expr |-> OfPayload(decl.payload.expr)]
LOCAL OfVariant(variant) ==
    [keys |-> variant.keys, segments |-> OfSegments(variant.pattern.segments)]

\* The tree of a source whose declarations are well formed.
Tree(s) ==
    LET doc     == ParseDocument(s)
        decls   == SelectSeq(doc.declarations, LAMBDA d : d.kind # "match")
        matches == DeclsOf(doc, "match")
        match   == IF matches = <<>> THEN [selectors |-> <<>>, variants |-> <<>>]
                   ELSE matches[1].payload
    IN [declarations |-> [n \in DOMAIN decls |-> OfDeclaration(decls[n])],
        selectors    |-> match.selectors,
        variants     |-> [n \in DOMAIN match.variants |-> OfVariant(match.variants[n])],
        body         |-> IF matches # <<>> THEN <<>>
                         ELSE OfSegments(BodyPattern(s, doc).segments)]

\* A malformed declaration is in no tree.
IsRead(s) ==
    LET doc == ParseDocument(s)
    IN \A n \in DOMAIN doc.declarations : doc.declarations[n].payload # NoPayload

-----------------------------------------------------------------------------
(* Which trees are messages. *)

Declared(decl) == IF decl.kind = "input" THEN decl.expr.name ELSE decl.name
OptionVariables(options) ==
    {options[n].value.text : n \in {m \in DOMAIN options : options[m].value.var}}
Variables(payload) ==
    CASE payload.node = "Var"    -> {payload.name}
      [] payload.node = "Call"   ->
           {payload.name} \union OptionVariables(payload.function.options)
      [] payload.node = "Literal" ->
           IF payload.function = NoFunction THEN {}
           ELSE OptionVariables(payload.function.options)
      [] payload.node = "Markup" -> OptionVariables(payload.options)
HasFunction(payload) ==
    \/ payload.node = "Call"
    \/ payload.node = "Literal" /\ payload.function # NoFunction

\* No option twice.
OptionsAreDistinct(payload) ==
    LET options == CASE payload.node = "Markup" -> payload.options
                     [] HasFunction(payload)    -> payload.function.options
                     [] OTHER                   -> <<>>
    IN IsDistinct([n \in DOMAIN options |-> options[n].name])

\* The tree without the variables of the options that its declarations give to
\* functions: a literal in the place of each.
LOCAL WithoutVariables(options) ==
    [n \in DOMAIN options |-> [options[n] EXCEPT !.value.var = FALSE]]
WithoutOptionVariables(tree) ==
    LET decls == tree.declarations
    IN [tree EXCEPT !.declarations =
          [n \in DOMAIN decls |->
              IF HasFunction(decls[n].expr)
              THEN [decls[n] EXCEPT !.expr.function.options = WithoutVariables(@)]
              ELSE decls[n]]]

\* A declaration declares what no declaration has declared and no .local,
\* itself included, has used.
DeclaresNew(decls, n) ==
    \A m \in 1..n :
        /\ m < n => Declared(decls[m]) # Declared(decls[n])
        /\ decls[m].kind = "local" => Declared(decls[n]) \notin Variables(decls[m].expr)

\* The names that have a function, or are another name for one that has.
AnnotatedNames(decls) ==
    LET names == {Declared(decls[n]) : n \in DOMAIN decls}
        Closed(known) ==
            \A n \in DOMAIN decls :
                \/ HasFunction(decls[n].expr)
                \/ /\ decls[n].kind = "local"
                   /\ decls[n].expr.node = "Var"
                   /\ decls[n].expr.name \in known
                => Declared(decls[n]) \in known
    IN {name \in names : \A known \in SUBSET names : Closed(known) => name \in known}

SameKey(key, other) ==
    /\ (key.kind = "default") = (other.kind = "default")
    /\ key.text = other.text
MatchesAreComplete(tree) ==
    LET All == DOMAIN tree.variants
        AllDefault(n) ==
            \A k \in DOMAIN tree.variants[n].keys : tree.variants[n].keys[k].kind = "default"
    IN /\ \A n \in All : Len(tree.variants[n].keys) = Len(tree.selectors)
       /\ \E n \in All : AllDefault(n)
       /\ \A m, n \in All : m # n =>
            \E k \in DOMAIN tree.selectors :
                ~SameKey(tree.variants[m].keys[k], tree.variants[n].keys[k])

PatternsOf(tree) ==
    IF tree.selectors = <<>> THEN {tree.body}
    ELSE {tree.variants[n].segments : n \in DOMAIN tree.variants}
ExpressionsOf(tree) ==
    {tree.declarations[n].expr : n \in DOMAIN tree.declarations} \union
    UNION {{segments[n].payload : n \in {m \in DOMAIN segments :
                segments[m].segment = "Expression"}} : segments \in PatternsOf(tree)}

\* A .match has selectors and variants, and there is no body besides.
IsWhole(tree) ==
    IF tree.selectors = <<>> THEN tree.variants = <<>>
    ELSE tree.variants # <<>> /\ tree.body = <<>>

IsMessage(tree) ==
    /\ IsWhole(tree)
    /\ \A payload \in ExpressionsOf(tree) : OptionsAreDistinct(payload)
    /\ \A n \in DOMAIN tree.declarations : DeclaresNew(tree.declarations, n)
    /\ tree.selectors # <<>> =>
         /\ MatchesAreComplete(tree)
         /\ \A n \in DOMAIN tree.selectors :
              tree.selectors[n] \in AnnotatedNames(tree.declarations)
=============================================================================
