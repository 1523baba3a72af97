------------------------------- MODULE Parser -------------------------------
(***************************************************************************)
(* The recursive-descent parser of a message (compiler/syntax/parser.rs),   *)
(* and the characters it tells apart (charset.rs, ident.rs, common/text.rs). *)
(*                                                                         *)
(* A source is a sequence of characters, each standing for its class: "a",  *)
(* "b" and "e" for ASCII letters, "long" for a letter whose UTF-8 form has   *)
(* two bytes, "bidi" for a bidirectional control, "nul" for what no text may *)
(* contain.  "input", "local", "match" and "other" stand for their letters.  *)
(*                                                                         *)
(* An operator stands for the parser's method of that name: it takes the     *)
(* source and the position the cursor is at, and returns where the cursor    *)
(* is afterwards, also when the method found nothing, since some callers go  *)
(* on from there.  Positions count characters from 1; Len(s) + 1 is the end. *)
(***************************************************************************)
EXTENDS Integers, Sequences, FiniteSets

Whitespace  == {" ", "\n", "\r"}
Bidi        == {"bidi"}
Ignorable   == Whitespace \union Bidi
Digits      == {"0", "1"}
Words       == {"input", "local", "match"}
Other       == "other"
Alphabetic  == {"a", "b", "e", Other} \union Words
NameStart   == Alphabetic \union {"_", "long"}
NameChar    == NameStart \union Digits \union {"-", "."}
Sigils      == {"!", "%", "^", "&", "*", "<", ">", "?", "~"}
Punctuation == {"{", "}", "|", "\\", "@", ":", "$", "#", "/", "=", "+"}
Characters  ==
    Ignorable \union NameChar \union Sigils \union Punctuation \union {"nul"}

ContentChar == Characters \ (Whitespace \union {"\\", "{", "}", ".", "@", "|", "nul"})
QuotedChar  == ContentChar \union Whitespace \union {".", "@", "{", "}"}
Escapable   == {"\\", "{", "|", "}"}

\* What an unquoted literal may be made of.
TokenChar ==
    Characters \ (Ignorable \union {"{", "}", "|", "\\", "@", ":", "$", "#", "/"})

-----------------------------------------------------------------------------
(* Texts. *)

TextOf(source, first, last) == SubSeq(source, first, last)
CharsOf(text)     == {text[n] : n \in DOMAIN text}
Shorter(m, n)     == IF m < n THEN m ELSE n
LeftOut(text, p)  == SubSeq(text, p, Len(text))

\* trim_matches: without the characters of a class at both ends.
Trimmed(text, class) ==
    LET kept == {n \in DOMAIN text : text[n] \notin class}
    IN IF kept = {} THEN <<>>
       ELSE SubSeq(text, CHOOSE n \in kept : \A m \in kept : n <= m,
                         CHOOSE n \in kept : \A m \in kept : m <= n)

\* strip_boundary_bidi_controls: what is between them, if it has none inside.
HasInnerBidi(text)  == CharsOf(Trimmed(text, Ignorable)) \intersect Bidi # {}
IsIdentifier(text)  ==
    text # <<>> /\ text[1] \in NameStart /\ CharsOf(text) \subseteq NameChar

\* is_function_name: ASCII segments between colons.
IsFunctionName(text) ==
    LET colons == {n \in DOMAIN text : text[n] = ":"}
    IN /\ CharsOf(text) \subseteq Alphabetic \union Digits \union {"_", "-", ":"}
       /\ \A n \in colons \union {0} : n < Len(text) /\ text[n + 1] \in Alphabetic

\* Bytes of the UTF-8 form.
Bytes(char) ==
    CASE char = "long" -> 2
      [] char = "bidi" -> 3
      [] OTHER         -> 1

-----------------------------------------------------------------------------
Ending == "end"
At(s, p)     == IF p \in 1..Len(s) THEN s[p] ELSE Ending
Ended(s, p)  == p > Len(s)
Starts(s, p, two) == At(s, p) = two[1] /\ At(s, p + 1) = two[2]
Open   == <<"{", "{">>
Close  == <<"}", "}">>

Found(value, next) == [ok |-> TRUE, value |-> value, next |-> next]
Missing(next)      == [ok |-> FALSE, next |-> next]

\* Past every character of a class.
While(s, p, class) ==
    CHOOSE q \in p..Len(s) + 1 :
        (\A n \in p..q - 1 : s[n] \in class) /\ At(s, q) \notin class

-----------------------------------------------------------------------------
(* White space, names, literals. *)

SkipOptional(s, p) == While(s, p, Ignorable)

\* At least one character of white space, with bidi controls around it;
\* the cursor does not move if there is none.
SkipWhitespace(s, p) ==
    IF At(s, While(s, p, Bidi)) \in Whitespace THEN SkipOptional(s, p) ELSE p

\* 0 is no name.
NameEnd(s, p) == IF At(s, p) \in NameStart THEN While(s, p + 1, NameChar) ELSE 0

\* [bidi] [namespace ":"] name [bidi]
Identifier(s, p) ==
    LET start  == While(s, p, Bidi)
        first  == NameEnd(s, start)
        second == IF At(s, first) = ":" THEN NameEnd(s, first + 1) ELSE 0
        stop   == IF second # 0 THEN second ELSE first
    IN IF first = 0 THEN Missing(start)
       ELSE Found(TextOf(s, start, stop - 1), While(s, stop, Bidi))

Variable(s, p) ==
    LET start == While(s, p + 1, Bidi)
        stop  == NameEnd(s, start)
    IN IF stop = 0 THEN Missing(start)
       ELSE Found(TextOf(s, start, stop - 1), While(s, stop, Bidi))

\* a mutant: an escaped bar ends the literal.
QuotedEndAtAnyBar(s, p) == While(s, p, QuotedChar \union Bidi \union {"\\"}) + 1

\* From inside the bars to after the closing one, or to what may not be quoted.
QuotedEnd(s, p) ==
    LET end[q \in 1..Len(s) + 1] ==
            CASE At(s, q) = "\\" -> end[Shorter(q + 2, Len(s) + 1)]
              [] At(s, q) = "|"  -> q + 1
              [] At(s, q) \in QuotedChar \union Bidi -> end[q + 1]
              [] OTHER           -> q
    IN end[p]

\* With its bars, if it has any.  A name or a number is taken only if no
\* character of a token follows, so both are what the broad token would be.
Literal(s, p) ==
    LET stop == IF At(s, p) = "|" THEN QuotedEnd(s, p + 1) ELSE While(s, p, TokenChar)
    IN IF stop = p THEN Missing(p) ELSE Found(TextOf(s, p, stop - 1), stop)

-----------------------------------------------------------------------------
(* Options, attributes, functions and markup. *)

OptionValue(s, p) ==
    LET found == IF At(s, p) = "$" THEN Variable(s, p) ELSE Literal(s, p)
    IN IF ~found.ok THEN found
       ELSE Found([var |-> At(s, p) = "$", text |-> found.value], found.next)

Option(s, p) ==
    LET name  == Identifier(s, p)
        equal == SkipOptional(s, name.next)
        value == OptionValue(s, SkipOptional(s, equal + 1))
    IN IF ~name.ok THEN name
       ELSE IF At(s, equal) # "=" THEN Missing(p)
       ELSE IF ~value.ok THEN value
       ELSE Found([name |-> name.value, value |-> value.value,
                   raw |-> TextOf(s, p, value.next - 1)], value.next)

\* "@" identifier ["=" literal]
Attribute(s, p) ==
    LET name  == Identifier(s, p + 1)
        equal == SkipOptional(s, name.next)
        value == Literal(s, SkipOptional(s, equal + 1))
    IN IF ~name.ok THEN name
       ELSE IF At(s, equal) = "=" THEN value
       ELSE Found(name.value, name.next)

\* Options and attributes after a name, each after white space.  A function
\* also keeps identifiers without a value, which are refused later.
OptionTail(s, p, bare) ==
    LET tail[q \in 1..Len(s) + 1] ==
            LET w    == SkipWhitespace(s, q)
                attr == IF At(s, w) = "@" THEN Attribute(s, w) ELSE Missing(w)
                opt  == Option(s, attr.next)
                name == Identifier(s, opt.next)
                With(kept, next) == [tail[next] EXCEPT !.options = <<kept>> \o @]
            IN IF w # q /\ attr.ok THEN tail[attr.next]
               ELSE IF w # q /\ opt.ok THEN With(opt.value, opt.next)
               ELSE IF w # q /\ bare /\ name.ok
                 THEN With([raw |-> TextOf(s, opt.next, name.next - 1)], name.next)
               ELSE [options |-> <<>>, next |-> q]
    IN tail[p]

\* ":" identifier and its options
Annotation(s, p) ==
    LET name == Identifier(s, p + 1)
        tail == OptionTail(s, name.next, TRUE)
    IN IF ~name.ok THEN name
       ELSE Found([name |-> name.value, options |-> tail.options], tail.next)

\* "#" or "/", identifier, options, and "/" if it stands alone
Markup(s, p) ==
    LET name  == Identifier(s, p + 1)
        tail  == OptionTail(s, name.next, FALSE)
        after == SkipOptional(s, tail.next)
        alone == At(s, p) = "#" /\ At(s, after) = "/"
    IN IF ~name.ok THEN name
       ELSE Found([node |-> "Markup", name |-> name.value, options |-> tail.options,
                   kind |-> IF At(s, p) = "/" THEN "Close"
                            ELSE IF alone THEN "SelfClose" ELSE "Open"],
                  IF alone THEN after + 1 ELSE after)

-----------------------------------------------------------------------------
(* The interior of an expression.  An expression is its payload and where the *)
(* cursor is after it; a malformed one has no payload.                        *)

NoPayload == [node |-> "None"]
VarNode(name)                == [node |-> "Var", name |-> name]
CallNode(name, function)     == [node |-> "Call", name |-> name, function |-> function]
LiteralNode(value, function) ==
    [node |-> "Literal", value |-> value, function |-> function]
NoFunction == [name |-> <<>>]

EatClose(s, p) == IF At(s, p) = "}" THEN p + 1 ELSE p

\* skip_to_expression_end: to the brace that closes, whatever quotes there are.
ExpressionEnd(s, p) ==
    LET end[q \in 1..Len(s) + 1, depth \in 0..Len(s)] ==
            CASE Ended(s, q)       -> q
              [] At(s, q) = "{"    -> end[q + 1, depth + 1]
              [] At(s, q) = "}" /\ depth = 0 -> q
              [] At(s, q) = "}" /\ depth > 0 -> end[q + 1, depth - 1]
              [] At(s, q) = "\\"   -> end[Shorter(q + 2, Len(s) + 1), depth]
              [] OTHER             -> end[q + 1, depth]
    IN end[p, 0]

Broken(s, p) == [payload |-> NoPayload, next |-> EatClose(s, ExpressionEnd(s, p))]

\* Nothing may be left before the closing brace, but the source may end.
Finish(s, p, payload) ==
    LET q == SkipOptional(s, p)
    IN IF At(s, q) \in {"}", Ending} THEN [payload |-> payload, next |-> EatClose(s, q)]
       ELSE Broken(s, q)

\* Attributes of the expression.  After one that is malformed the cursor goes
\* back to it, except after a function on a variable.
Attributes(s, p, stay) ==
    LET past[q \in 1..Len(s) + 1] ==
            LET attr == Attribute(s, q)
            IN IF At(s, q) # "@" THEN q
               ELSE IF attr.ok THEN past[SkipOptional(s, attr.next)]
               ELSE IF stay THEN attr.next ELSE q
    IN past[p]

\* What comes after an operand that ends at p.
AfterOperand(s, p, spaced, stay, Plain, Called(_)) ==
    LET q        == SkipWhitespace(s, p)
        function == Annotation(s, q)
    IN CASE At(s, q) = ":" /\ (q > p \/ ~spaced) ->
              IF function.ok
                THEN Finish(s, Attributes(s, SkipOptional(s, function.next), stay),
                            Called(function.value))
                ELSE Broken(s, function.next)
         [] At(s, q) \in Sigils \union {"+"} -> Broken(s, q)
         [] OTHER -> Finish(s, IF q > p THEN Attributes(s, q, FALSE) ELSE q, Plain)

\* A variable whose name is malformed is read up to where it could end.
VarInterior(s, p) ==
    LET strict == Variable(s, p)
        loose  == While(s, p + 1, Characters \ (Ignorable \union {":", "}", "@"}))
        name   == IF strict.ok THEN strict.value ELSE TextOf(s, p + 1, loose - 1)
        next   == IF strict.ok THEN strict.next ELSE loose
    IN IF name = <<>>
       THEN [payload |-> VarNode(<<>>), next |-> EatClose(s, ExpressionEnd(s, next))]
       ELSE AfterOperand(s, next, FALSE, TRUE, VarNode(name),
                         LAMBDA function : CallNode(name, function))

\* A reserved annotation, or "+" that is not a literal of its own.
IsReserved(s, p) ==
    \/ At(s, p) \in Sigils
    \/ At(s, p) = "+" /\ At(s, p + 1) \notin Ignorable \union {"}", Ending}

\* A malformed markup leaves the cursor after its sign, and what follows is
\* read as if the sign had not been there.
ExpressionInterior(s, open) ==
    LET inner    == SkipOptional(s, open + 1)
        markup   == IF At(s, inner) \in {"#", "/"} THEN Markup(s, inner) ELSE Missing(inner)
        p        == markup.next
        literal  == Literal(s, p)
        function == Annotation(s, p)
    IN IF markup.ok
         THEN [payload |-> markup.value, next |-> EatClose(s, SkipOptional(s, p))]
       ELSE IF IsReserved(s, p) THEN Broken(s, p)
       ELSE IF At(s, p) = "$" THEN VarInterior(s, p)
       ELSE IF literal.ok
         THEN AfterOperand(s, literal.next, TRUE, FALSE,
                           LiteralNode(literal.value, NoFunction),
                           LAMBDA f : LiteralNode(literal.value, f))
       ELSE IF At(s, p) = ":" /\ function.ok
         THEN Finish(s, function.next, LiteralNode(<<>>, function.value))
       ELSE Broken(s, p)

-----------------------------------------------------------------------------
(* Patterns: texts and expressions, in turn. *)

TextSegment(value) == [segment |-> "Text", value |-> value]
ExprSegment(expr)  == [segment |-> "Expression", payload |-> expr.payload]

\* To the next brace that opens and is not escaped.
TextEnd(s, p, stop) ==
    LET end[q \in 1..Len(s) + 1] ==
            IF q >= stop THEN stop
            ELSE CASE At(s, q) = "\\" -> end[Shorter(q + 2, stop)]
                   [] At(s, q) = "{"  -> q
                   [] OTHER           -> end[q + 1]
    IN end[p]

\* The segments between start and stop.  An expression is read to its own end,
\* which may be after stop.
Pattern(s, start, stop) ==
    LET from[q \in 1..Len(s) + 1] ==
            LET t    == TextEnd(s, q, stop)
                text == IF t > q THEN <<TextSegment(TextOf(s, q, t - 1))>> ELSE <<>>
                expr == ExpressionInterior(s, t)
            IN IF q >= stop THEN <<>>
               ELSE IF t = stop THEN text
               ELSE text \o <<ExprSegment(expr)>> \o from[expr.next]
    IN [source |-> TextOf(s, start, stop - 1), segments |-> from[start]]

-----------------------------------------------------------------------------
(* Declarations.  One without a payload is malformed. *)

Declaration(kind, payload, first, next) ==
    [kind |-> kind, payload |-> payload, first |-> first, next |-> next]

\* find_matching_brace: whether the brace at p is closed, outside quotes.
IsClosed(s, p) ==
    LET closed[q \in 1..Len(s) + 1, depth \in 0..Len(s), quoted \in BOOLEAN] ==
            CASE Ended(s, q)                -> FALSE
              [] quoted /\ At(s, q) = "\\"  ->
                   closed[Shorter(q + 2, Len(s) + 1), depth, quoted]
              [] At(s, q) = "|"             -> closed[q + 1, depth, ~quoted]
              [] ~quoted /\ At(s, q) = "{"  -> closed[q + 1, depth + 1, quoted]
              [] ~quoted /\ At(s, q) = "}"  -> depth = 1 \/ closed[q + 1, depth - 1, quoted]
              [] OTHER                      -> closed[q + 1, depth, quoted]
    IN closed[p, 0, FALSE]

\* The expression of a declaration, which must be closed.
DeclaredExpression(s, p) ==
    LET expr == ExpressionInterior(s, p)
    IN IF At(s, p) # "{" THEN Missing(p)
       ELSE IF ~IsClosed(s, p) THEN Missing(Len(s) + 1)
       ELSE Found(expr.payload, expr.next)

InputPayload(s, p) ==
    LET expr == DeclaredExpression(s, SkipOptional(s, p))
    IN IF expr.ok THEN Found([expr |-> expr.value], expr.next) ELSE expr

LocalPayload(s, p) ==
    LET dollar == SkipWhitespace(s, p)
        name   == Variable(s, dollar)
        equal  == SkipOptional(s, name.next)
        expr   == DeclaredExpression(s, SkipOptional(s, equal + 1))
    IN IF dollar = p \/ At(s, dollar) # "$" THEN Missing(dollar)
       ELSE IF ~name.ok THEN name
       ELSE IF At(s, equal) # "=" THEN Missing(equal)
       ELSE IF ~expr.ok THEN expr
       ELSE Found([name |-> name.value, expr |-> expr.value], expr.next)

\* $name $name ...; spaced says whether white space follows the last.
Selectors(s, p) ==
    LET from[q \in 1..Len(s) + 1] ==
            LET stop == NameEnd(s, q + 1)
                next == While(s, stop, Whitespace)
                rest == from[next]
                name == TextOf(s, q + 1, stop - 1)
            IN IF At(s, q) # "$" \/ stop = 0
                 THEN [names |-> <<>>, next |-> q, spaced |-> TRUE]
               ELSE IF next = stop
                 THEN [names |-> <<name>>, next |-> next, spaced |-> FALSE]
               ELSE [rest EXCEPT !.names = <<name>> \o @]
    IN from[p]

Key(kind, text) == [kind |-> kind, text |-> text]

\* "*", a quoted key (any character up to the bar), or anything up to a brace.
MatchKey(s, p) ==
    LET bar[q \in 1..Len(s) + 1] ==
            CASE At(s, q) = "\\" -> bar[Shorter(q + 2, Len(s) + 1)]
              [] At(s, q) = "|" \/ Ended(s, q) -> q
              [] OTHER           -> bar[q + 1]
        quoted == bar[p + 1]
        stop   == While(s, p, Characters \ (Ignorable \union {"{"}))
    IN CASE At(s, p) = "*" -> Found(Key("default", <<>>), p + 1)
         [] At(s, p) = "|" ->
              IF Ended(s, quoted) THEN Missing(quoted)
              ELSE Found(Key("quoted", TextOf(s, p + 1, quoted - 1)), quoted + 1)
         [] OTHER ->
              IF stop = p THEN Missing(p)
              ELSE Found(Key("plain", TextOf(s, p, stop - 1)), stop)

\* The keys of a variant, up to "{{".
Keys(s, p) ==
    LET from[q \in 1..Len(s) + 1, first \in BOOLEAN] ==
            LET w    == IF first THEN SkipOptional(s, q) ELSE SkipWhitespace(s, q)
                key  == MatchKey(s, w)
                rest == from[key.next, FALSE]
            IN IF ~first /\ w = q THEN Found(<<>>, q)
               ELSE IF Ended(s, w) \/ Starts(s, w, Open) THEN Found(<<>>, w)
               ELSE IF ~key.ok THEN key
               ELSE IF ~rest.ok THEN rest
               ELSE Found(<<key.value>> \o rest.value, rest.next)
    IN from[p, TRUE]

\* The end of a variant's pattern, 0 if there is none: braces are counted,
\* whether or not they are quoted or escaped.
VariantEnd(s, p) ==
    LET end[q \in 1..Len(s) + 1, depth \in 1..Len(s), single \in 0..Len(s)] ==
            IF Ended(s, q) THEN 0
            ELSE IF Starts(s, q, Open) THEN end[q + 2, depth + 1, single]
            ELSE IF single = 0 /\ Starts(s, q, Close)
              THEN IF depth = 1 THEN q ELSE end[q + 2, depth - 1, single]
            ELSE end[q + 1, depth, CASE At(s, q) = "{" -> single + 1
                                     [] At(s, q) = "}" /\ single > 0 -> single - 1
                                     [] OTHER -> single]
    IN end[p, 1, 0]

Variants(s, p) ==
    LET from[q \in 1..Len(s) + 1] ==
            LET keys == Keys(s, SkipOptional(s, q))
                open == SkipOptional(s, keys.next)
                stop == VariantEnd(s, open + 2)
                rest == from[stop + 2]
                variant == [keys    |-> keys.value,
                            pattern |-> Pattern(s, open + 2, stop)]
            IN IF ~keys.ok THEN keys
               ELSE IF keys.value = <<>> THEN Found(<<>>, keys.next)
               ELSE IF ~Starts(s, open, Open) THEN Missing(open)
               ELSE IF stop = 0 THEN Missing(Len(s) + 1)
               ELSE IF ~rest.ok THEN rest
               ELSE Found(<<variant>> \o rest.value, rest.next)
    IN from[p]

MatchPayload(s, p) ==
    LET first     == SkipWhitespace(s, p)
        selectors == Selectors(s, first)
        variants  == Variants(s, selectors.next)
    IN IF first = p THEN Missing(p)
       ELSE IF selectors.names = <<>> \/ ~selectors.spaced THEN Missing(selectors.next)
       ELSE IF ~variants.ok THEN variants
       ELSE IF variants.value = <<>> THEN Missing(variants.next)
       ELSE Found([selectors |-> selectors.names, variants |-> variants.value],
                  variants.next)

\* A keyword after "."; nothing else starts a declaration.
Keyword(s, p) ==
    LET stop == While(s, p + 1, Alphabetic)
        word == TextOf(s, p + 1, stop - 1)
    IN IF At(s, p) = "." /\ Len(word) = 1 /\ word[1] \in Words
       THEN Found(word[1], stop) ELSE Missing(p)

\* parse_document.  A malformed .input or .local ends the prelude; a .match does not.
Declarations(s, p) ==
    LET from[q \in 1..Len(s) + 1] ==
            LET first   == SkipOptional(s, q)
                keyword == Keyword(s, first)
                payload == CASE keyword.value = "input" -> InputPayload(s, keyword.next)
                             [] keyword.value = "local" -> LocalPayload(s, keyword.next)
                             [] keyword.value = "match" -> MatchPayload(s, keyword.next)
                decl == Declaration(keyword.value,
                                    IF payload.ok THEN payload.value ELSE NoPayload,
                                    first, payload.next)
                rest == from[payload.next]
            IN IF ~keyword.ok THEN [decls |-> <<>>, next |-> first]
               ELSE IF ~payload.ok /\ keyword.value # "match"
                 THEN [decls |-> <<decl>>, next |-> payload.next]
               ELSE [rest EXCEPT !.decls = <<decl>> \o @]
    IN from[p]

ParseDocument(s) ==
    LET prelude == Declarations(s, 1)
    IN [declarations |-> prelude.decls, body |-> SkipOptional(s, prelude.next)]

ParsePattern(s) == Pattern(s, 1, Len(s) + 1)
=============================================================================
