------------------------------- MODULE Syntax -------------------------------
(***************************************************************************)
(* Which sources are messages: what is checked of a parsed document before   *)
(* it is lowered (compiler/syntax/literal.rs and semantic.rs, and            *)
(* compile/frontend: document.rs, pattern.rs, raw_match.rs).                 *)
(*                                                                         *)
(* Some checks look at the tree, some at the text again.  Functions are       *)
(* custom ones, so that any key may be a key of a selector, and the place     *)
(* and wording of an error are left out: a source is accepted or it is not.   *)
(***************************************************************************)
EXTENDS Parser

IsDistinct(list) == \A m, n \in DOMAIN list : m # n => list[m] # list[n]
WithoutBidi(text) == SelectSeq(text, LAMBDA char : char \notin Bidi)

-----------------------------------------------------------------------------
(* Texts and literals. *)

\* What the escapes of a text stand for; a quoted literal has no bar of its own.
Decoded(text, quoted) ==
    LET from[n \in 1..Len(text) + 1] ==
            IF n > Len(text) THEN Found(<<>>, n)
            ELSE LET escaped == text[n] = "\\"
                     char    == At(text, IF escaped THEN n + 1 ELSE n)
                     rest    == from[IF escaped THEN n + 2 ELSE n + 1]
                 IN IF \/ escaped /\ char \notin Escapable
                       \/ ~escaped /\ quoted /\ char = "|"
                    THEN Missing(n)
                    ELSE IF rest.ok THEN Found(<<char>> \o rest.value, n) ELSE rest
    IN from[1]

\* A number is one of these too.
IsUnquotedToken(text) ==
    /\ text # <<>>
    /\ CharsOf(text) \intersect (Whitespace \union {"\\", "nul", "@", ":"}) = {}
    /\ text[1] \notin Sigils
    /\ text[1] = "+" => Len(text) = 1

\* parse_literal_text
LiteralText(raw) ==
    IF At(raw, 1) # "|"
      THEN IF IsUnquotedToken(raw) THEN Found(raw, 1) ELSE Missing(1)
    ELSE IF Len(raw) < 2 \/ raw[Len(raw)] # "|" THEN Missing(1)
    ELSE Decoded(SubSeq(raw, 2, Len(raw) - 1), TRUE)

\* Braces that are not escaped match, whether or not they are quoted.
HasBalancedBraces(text) ==
    LET from[n \in 1..Len(text) + 2, depth \in 0..Len(text)] ==
            CASE n > Len(text)   -> depth = 0
              [] At(text, n) = "\\" -> from[n + 2, depth]
              [] At(text, n) = "{"  -> from[n + 1, depth + 1]
              [] At(text, n) = "}"  -> depth > 0 /\ from[n + 1, depth - 1]
              [] OTHER              -> from[n + 1, depth]
    IN from[1, 0]

PlacesOf(text, two) == {n \in 1..Len(text) : Starts(text, n, two)}

\* ensure_well_formed_quoted_pattern_body
IsWellQuoted(body) ==
    LET inner == Trimmed(body, Ignorable)
    IN PlacesOf(inner, Open) # {} =>
          /\ Starts(inner, 1, Open)
          /\ Starts(inner, Len(inner) - 1, Close)

\* extract_quoted_pattern: from the first "{{" to the last "}}".
QuotedPattern(body) ==
    LET opens  == PlacesOf(body, Open)
        closes == PlacesOf(body, Close)
        first  == CHOOSE n \in opens : \A m \in opens : n <= m
        last   == CHOOSE n \in closes : \A m \in closes : m <= n
    IN IF opens # {} /\ closes # {} /\ last >= first + 2
       THEN Found(SubSeq(body, first + 2, last - 1), last) ELSE Missing(1)

-----------------------------------------------------------------------------
(* Expressions and patterns. *)

\* parse_prefixed_variable_token
IsVariableName(name) ==
    ~HasInnerBidi(name) /\ IsIdentifier(Trimmed(name, Ignorable))

\* A flat option at its first "=".
Split(raw) ==
    LET token == Trimmed(raw, Ignorable)
        at    == While(token, 1, Characters \ {"="})
    IN [key   |-> Trimmed(SubSeq(token, 1, at - 1), Ignorable),
        has   |-> at <= Len(token),
        value |-> Trimmed(LeftOut(token, at + 1), Ignorable)]

IsOptionValue(text) ==
    IF At(text, 1) = "$" THEN IsVariableName(LeftOut(text, 2)) ELSE LiteralText(text).ok

\* parse_function_spec_node and parse_options_tail
FunctionIsValid(function) ==
    LET options == [n \in DOMAIN function.options |-> Split(function.options[n].raw)]
    IN /\ IsFunctionName(function.name)
       /\ \A n \in DOMAIN options :
            /\ options[n].has
            /\ options[n].key # <<>>
            /\ options[n].value # <<>>
            /\ IsOptionValue(options[n].value)
       /\ IsDistinct([n \in DOMAIN options |-> options[n].key])

MarkupIsValid(options) ==
    /\ IsDistinct([n \in DOMAIN options |-> options[n].name])
    /\ \A n \in DOMAIN options :
         ~options[n].value.var => LiteralText(options[n].value.text).ok

\* lower_expression_payload_node_to_part succeeds
ExpressionIsValid(payload) ==
    CASE payload.node = "None"   -> FALSE
      [] payload.node = "Var"    -> IsVariableName(payload.name)
      [] payload.node = "Call"   ->
           IsVariableName(payload.name) /\ FunctionIsValid(payload.function)
      [] payload.node = "Markup" -> MarkupIsValid(payload.options)
      [] payload.node = "Literal" /\ payload.function = NoFunction ->
           LiteralText(payload.value).ok
      [] payload.node = "Literal" /\ payload.function # NoFunction ->
           /\ FunctionIsValid(payload.function)
           /\ payload.value = <<>> \/ LiteralText(payload.value).ok

\* lower_pattern_node_to_parts succeeds
PatternIsValid(pattern) ==
    /\ Trimmed(pattern.source, Whitespace) # <<".">>
    /\ HasBalancedBraces(pattern.source)
    /\ \A n \in DOMAIN pattern.segments :
         LET segment == pattern.segments[n]
         IN IF segment.segment = "Text" THEN Decoded(segment.value, FALSE).ok
            ELSE ExpressionIsValid(segment.payload)

-----------------------------------------------------------------------------
(* Declarations. *)

DeclsOf(doc, kind) == SelectSeq(doc.declarations, LAMBDA d : d.kind = kind)

\* parse_input_declared_source_name: .input is of a variable.
HasDeclaredName(payload) ==
    payload.node \in {"Var", "Call"} /\ IsVariableName(payload.name)

\* The name a declaration declares.
NameOf(decl) == IF decl.kind = "input" THEN decl.payload.expr.name ELSE decl.payload.name

\* collect_var_refs: the variables of an expression.  Those of its options are
\* looked for in their text, right after the "=".
OptionReferences(options) ==
    LET Value(option) == LeftOut(option.raw, While(option.raw, 1, Characters \ {"="}) + 1)
    IN {LeftOut(Value(options[n]), 2) : n \in {m \in DOMAIN options :
            At(Value(options[m]), 1) = "$"}}
References(payload) ==
    LET names ==
            CASE payload.node = "Var"  -> {payload.name}
              [] payload.node = "Call" ->
                   {payload.name} \union OptionReferences(payload.function.options)
              [] payload.node = "Literal" /\ payload.function # NoFunction ->
                   OptionReferences(payload.function.options)
              [] OTHER -> {}
    IN {Trimmed(name, Ignorable) : name \in {n \in names : IsVariableName(n)}}

\* a mutant: a .local may use a later one.
ScopeIsValidOnceDeclared(doc) ==
    LET decls == SelectSeq(doc.declarations, LAMBDA d : d.kind # "match")
    IN IsDistinct([n \in DOMAIN decls |-> NameOf(decls[n])])

\* validate_declaration_scope: all .input first, then each .local in turn.
ScopeIsValid(doc) ==
    LET inputs == DeclsOf(doc, "input")
        locals == DeclsOf(doc, "local")
        Names(decls) == {NameOf(decls[n]) : n \in DOMAIN decls}
        Before(n)    == Names(inputs) \union Names(SubSeq(locals, 1, n - 1))
    IN /\ IsDistinct([n \in DOMAIN inputs |-> NameOf(inputs[n])])
       /\ \A n \in DOMAIN locals :
            /\ NameOf(locals[n]) \notin Before(n)
            /\ \A name \in References(locals[n].payload.expr) :
                 /\ name # NameOf(locals[n])
                 /\ name \in Names(locals) => name \in Before(n)

\* validate_no_implicit_redeclaration: no .input of what a .local before it uses,
\* unless that is declared before the .local.
NothingIsRedeclared(doc) ==
    LET decls == SelectSeq(doc.declarations, LAMBDA d : d.kind # "match")
    IN \A m, n \in DOMAIN decls :
         m < n /\ decls[m].kind = "local" /\ decls[n].kind = "input"
           => NameOf(decls[n]) \notin References(decls[m].payload.expr)
                 \ {NameOf(decls[k]) : k \in 1..m}

\* validate_and_parse_declarations and build_declaration_plan.  The expression of
\* an .input is lowered too, but an error in it is not reported.
DeclarationsAreValid(s, doc) ==
    LET word == While(s, doc.body + 1, Alphabetic)
        decls == SelectSeq(doc.declarations, LAMBDA d : d.kind # "match")
    IN /\ At(s, doc.body) = "." =>
            TextOf(s, doc.body + 1, word - 1) \in {<<w>> : w \in Words}
       /\ \A n \in DOMAIN decls : decls[n].payload # NoPayload
       /\ \A n \in DOMAIN decls :
            IF decls[n].kind = "input" THEN HasDeclaredName(decls[n].payload.expr)
            ELSE ExpressionIsValid(decls[n].payload.expr)
       /\ ScopeIsValid(doc)
       /\ NothingIsRedeclared(doc)

-----------------------------------------------------------------------------
(* .match and the body. *)

\* The text a key is compared by; a default key's is that of the word "other".
KeyText(key) ==
    CASE key.kind = "default" -> <<Other>>
      [] key.kind = "quoted"  -> Decoded(key.text, FALSE).value
      [] key.kind = "plain"   -> WithoutBidi(key.text)
IsDefault(variant) == \A n \in DOMAIN variant.keys : variant.keys[n].kind = "default"

\* A function is declared for the name, or for the one it is an alias of.
IsAnnotated(doc, name) ==
    LET decls == SelectSeq(doc.declarations, LAMBDA d : d.kind # "match")
        annotated[k \in 0..Len(decls)] ==      \* the names whose function is known
            IF k = 0 THEN {}
            ELSE LET expr  == decls[k].payload.expr
                     alias == decls[k].kind = "local" /\ expr.node = "Var"
                 IN annotated[k - 1] \union
                      IF \/ expr.node = "Call" /\ FunctionIsValid(expr.function)
                         \/ expr.node = "Literal" /\ expr.function # NoFunction
                         \/ alias /\ expr.name \in annotated[k - 1]
                      THEN {NameOf(decls[k])} ELSE {}
    IN name \in annotated[Len(decls)]

\* parse_match_declaration_prelude_from_document, validate_match_arms
MatchIsValid(doc, match) ==
    LET selectors == match.selectors
        variants  == match.variants
        Texts(v)  == [n \in DOMAIN v.keys |-> KeyText(v.keys[n])]
        Compared  == IF Len(selectors) > 1 THEN variants
                     ELSE SelectSeq(variants, LAMBDA v : ~IsDefault(v))
    IN /\ \A n \in DOMAIN selectors : IsIdentifier(selectors[n])
       /\ \A n \in DOMAIN variants :
            /\ Len(variants[n].keys) = Len(selectors)
            /\ \A m \in DOMAIN variants[n].keys :
                 variants[n].keys[m].kind = "quoted" =>
                     Decoded(variants[n].keys[m].text, FALSE).ok
       /\ IsDistinct([n \in DOMAIN Compared |-> Texts(Compared[n])])
       /\ \A n \in DOMAIN variants : PatternIsValid(variants[n].pattern)
       /\ \A n \in DOMAIN selectors : IsAnnotated(doc, selectors[n])
       /\ Cardinality({n \in DOMAIN variants : IsDefault(variants[n])}) = 1

\* preprocess_single_message_parts: after declarations the body is quoted.
Body(s, doc) ==
    LET first == IF doc.declarations = <<>> THEN 1 ELSE doc.body
    IN LeftOut(s, first)
BodyPattern(s, doc) ==
    LET body == Body(s, doc)
    IN ParsePattern(IF QuotedPattern(body).ok THEN QuotedPattern(body).value ELSE body)
BodyIsValid(s, doc) ==
    /\ IsWellQuoted(Body(s, doc))
    /\ doc.declarations # <<>> => QuotedPattern(Body(s, doc)).ok
    /\ PatternIsValid(BodyPattern(s, doc))

\* parse_single_message succeeds
Accepted(s) ==
    LET doc     == ParseDocument(s)
        matches == DeclsOf(doc, "match")
    IN /\ DeclarationsAreValid(s, doc)
       /\ IF matches = <<>> THEN BodyIsValid(s, doc)
          ELSE matches[1].payload # NoPayload /\ MatchIsValid(doc, matches[1].payload)
=============================================================================
