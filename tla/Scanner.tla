------------------------------ MODULE Scanner -------------------------------
(***************************************************************************)
(* The language server's own reading of a text (scanner.rs, navigate.rs):     *)
(* variables and declarations are found without the parser, so that they can   *)
(* be navigated while the text is not yet a message.                          *)
(*                                                                         *)
(* It works on the bytes of the UTF-8 form, counted from 1: a character's first*)
(* byte is the character itself, the bytes after it are "tail".  A span is its *)
(* first byte and the one after its last; a place counts lines and characters  *)
(* from 0.                                                                  *)
(***************************************************************************)
EXTENDS Grammar

Encoded(text) ==
    LET from[n \in 1..Len(text) + 1] ==
            IF n > Len(text) THEN <<>>
            ELSE <<text[n]>> \o [m \in 1..Bytes(text[n]) - 1 |-> "tail"] \o from[n + 1]
    IN from[1]

\* a mutant: names are of letters and digits.
NameByteOfLetters == Alphabetic \union Digits

\* is_name_char: ASCII only, and no ".".
NameByte == Alphabetic \union Digits \union {"_", "-"}
NameStop(bytes, p) == While(bytes, p, NameByte)

Span(first, next)    == [first |-> first, next |-> next]
Covers(span, p)      == span.first <= p /\ p < span.next
Token(bytes, p)      == TextOf(bytes, p, NameStop(bytes, p) - 1)

\* scan_var_references: every "$" that a name follows.
VarReferences(bytes) ==
    {[name |-> Token(bytes, p + 1), span |-> Span(p, NameStop(bytes, p + 1))] :
        p \in {q \in DOMAIN bytes : bytes[q] = "$" /\ NameStop(bytes, q + 1) > q + 1}}

-----------------------------------------------------------------------------
(* Declarations: at most one of a line. *)

LineEnd(bytes, start) == While(bytes, start, (Characters \ {"\n"}) \union {"tail"})

\* a mutant: white space before the keyword is not counted.
NamePlaceInTrimmed(start, line, rest, dollar) == start + 2 + dollar

\* Where the name after the "$" is looked for: as if all that the line has more
\* than the rest were in front of it.
NamePlace(start, line, rest, dollar) == start + (Len(line) - Len(rest)) + dollar

\* parse_input_declaration, parse_local_declaration of the line at start.
DeclarationOn(bytes, start) ==
    LET stop    == LineEnd(bytes, start)
        line    == TextOf(bytes, start, stop - 1)
        trimmed == Trimmed(line, Whitespace)
        rest    == LeftOut(trimmed, 3)
        dollar  == While(rest, 1, (Characters \ {"$"}) \union {"tail"})
        name    == NamePlace(start, line, rest, dollar)
    IN IF /\ At(trimmed, 1) = "." /\ At(trimmed, 2) \in {"input", "local"}
          /\ dollar <= Len(rest)
          /\ NameStop(bytes, name) > name
       THEN <<[name |-> Token(bytes, name), kind |-> trimmed[2],
               span |-> Span(name, NameStop(bytes, name)), line |-> Span(start, stop)]>>
       ELSE <<>>

\* scan_declarations, over line_byte_ranges.
DeclarationsIn(bytes) ==
    LET from[p \in 1..Len(bytes) + 2] ==
            IF p > Len(bytes) + 1 THEN <<>>
            ELSE DeclarationOn(bytes, p) \o from[LineEnd(bytes, p) + 1]
    IN from[1]

-----------------------------------------------------------------------------
(* Places. *)

Place(line, character) == [line |-> line, character |-> character]

\* offset_to_position
PlaceOf(bytes, p) ==
    LET breaks == {q \in 1..p - 1 : bytes[q] = "\n"}
        start  == IF breaks = {} THEN 1
                  ELSE (CHOOSE q \in breaks : \A r \in breaks : r <= q) + 1
    IN Place(Cardinality(breaks), Cardinality({q \in start..p - 1 : bytes[q] # "tail"}))
RangeOf(bytes, span) ==
    [start |-> PlaceOf(bytes, span.first), end |-> PlaceOf(bytes, span.next)]

\* position_to_offset, 0 for none: a place after the end of a line is that of its
\* line break, but no place after the end of the text is one.
ByteAt(bytes, place) ==
    LET on    == {p \in 1..Len(bytes) + 1 :
                    At(bytes, p) # "tail" /\ PlaceOf(bytes, p).line = place.line}
        exact == {p \in on : PlaceOf(bytes, p) = place}
        break == {p \in on : At(bytes, p) = "\n"}
    IN IF exact # {} THEN CHOOSE p \in exact : TRUE
       ELSE IF break # {} THEN CHOOSE p \in break : TRUE ELSE 0

-----------------------------------------------------------------------------
(* Requests about a variable; scan is what was found in the bytes. *)

\* A declared name with the "$" in front of it.
WithSign(span) == Span(span.first - 1, span.next)

\* var_at_position: of a declaration, or else of a reference; the empty name for
\* none.
VarAt(bytes, scan, place) ==
    LET p        == ByteAt(bytes, place)
        declared == SelectSeq(scan.declarations, LAMBDA d : Covers(WithSign(d.span), p))
        referred == {r \in scan.references : Covers(r.span, p)}
    IN CASE p = 0             -> <<>>
         [] declared # <<>>   -> declared[1].name
         [] OTHER             ->
              IF referred = {} THEN <<>> ELSE (CHOOSE r \in referred : TRUE).name

\* goto_definition: the first declaration of the name.
GotoDefinition(bytes, scan, place) ==
    LET name  == VarAt(bytes, scan, place)
        found == SelectSeq(scan.declarations, LAMBDA d : d.name = name)
    IN IF found = <<>> THEN {} ELSE {RangeOf(bytes, found[1].span)}

\* find_references: the declarations, and all references.
FindReferences(bytes, scan, place) ==
    LET name  == VarAt(bytes, scan, place)
        found == SelectSeq(scan.declarations, LAMBDA d : d.name = name)
    IN IF name = <<>> THEN {}
       ELSE {RangeOf(bytes, WithSign(found[n].span)) : n \in DOMAIN found}
              \union {RangeOf(bytes, r.span) : r \in {s \in scan.references : s.name = name}}

-----------------------------------------------------------------------------
(* The reference: what is to be found in a text, by the parser.  Everything from *)
(* here on counts characters.                                                  *)

DeclarationsOf(text) ==
    SelectSeq(ParseDocument(text).declarations, LAMBDA d : d.kind # "match")

\* A variable, its name without the "$".
NameSpan(text, sign) == Span(sign + 1, sign + 1 + Len(Variable(text, sign).value))
SignsIn(text)        == {p \in DOMAIN text : text[p] = "$" /\ Variable(text, p).ok}

\* A declaration declares the first variable in it.
SignOf(text, decl) == While(text, decl.first, Characters \ {"$"})

\* The tree with another name for a variable.
NewName == <<"_">>
Renaming(tree, old) ==
    LET New(name) == IF name = old THEN NewName ELSE name
        Options(options) ==
            [n \in DOMAIN options |->
               IF options[n].value.var THEN [options[n] EXCEPT !.value.text = New(@)]
               ELSE options[n]]
        Function(function) ==
            IF function = NoFunction THEN function
            ELSE [function EXCEPT !.options = Options(@)]
        Expr(payload) ==
            CASE payload.node = "Var"     -> [payload EXCEPT !.name = New(@)]
              [] payload.node = "Call"    ->
                   [payload EXCEPT !.name = New(@), !.function = Function(@)]
              [] payload.node = "Literal" -> [payload EXCEPT !.function = Function(@)]
              [] payload.node = "Markup"  -> [payload EXCEPT !.options = Options(@)]
        Segments(segments) ==
            [n \in DOMAIN segments |->
               IF segments[n].segment = "Text" THEN segments[n]
               ELSE [segments[n] EXCEPT !.payload = Expr(@)]]
        Decl(decl) ==
            IF decl.kind = "input" THEN [decl EXCEPT !.expr = Expr(@)]
            ELSE [decl EXCEPT !.name = New(@), !.expr = Expr(@)]
    IN [declarations |-> [n \in DOMAIN tree.declarations |-> Decl(tree.declarations[n])],
        selectors    |-> [n \in DOMAIN tree.selectors |-> New(tree.selectors[n])],
        variants     |-> [n \in DOMAIN tree.variants |->
                            [tree.variants[n] EXCEPT !.segments = Segments(@)]],
        body         |-> Segments(tree.body)]

\* The text with the new name for the variables at some signs.
Replaced(text, signs) ==
    LET from[p \in 1..Len(text) + 1] ==
            IF p > Len(text) THEN <<>>
            ELSE IF p \in signs THEN <<"$">> \o NewName \o from[NameSpan(text, p).next]
            ELSE <<text[p]>> \o from[p + 1]
    IN from[1]

\* The texts the scanner is for: messages whose names are of its characters and
\* in which every "$" is of a variable that the parser reads; where what starts a
\* line like a declaration is one, up to the "$" of its name at least, and no
\* white space ends the line.  DeclarationOn takes that for white space in front of
\* the keyword, and does not look for the "$" on the next line.
TextsOf(tree) ==
    UNION {{segments[n].value : n \in {m \in DOMAIN segments :
              segments[m].segment = "Text"}} : segments \in PatternsOf(tree)}
OnlyVariablesHaveSigns(text) ==
    /\ \A value \in TextsOf(Tree(text)) : "$" \notin CharsOf(value)
    /\ \A p \in DOMAIN text : text[p] = "$" =>
         p \in SignsIn(text) /\ Tree(Replaced(text, {p})) # Tree(text)
DeclarationsHaveTheirLines(text) ==
    LET decls  == DeclarationsOf(text)
        starts == {While(text, p, {" "}) : p \in {q \in DOMAIN text :
                      q = 1 \/ text[q - 1] = "\n"}}
    IN /\ {decls[n].first : n \in DOMAIN decls} =
            {p \in starts : At(text, p) = "." /\ At(text, p + 1) \in {"input", "local"}}
       /\ \A n \in DOMAIN decls :
            LET end == While(text, decls[n].first, Characters \ {"\n"})
            IN SignOf(text, decls[n]) < end /\ text[end - 1] # " "
IsPlain(text) ==
    /\ Accepted(text)
    /\ CharsOf(text) \intersect {"\r", "bidi", "|"} = {}
    /\ OnlyVariablesHaveSigns(text)
    /\ \A p \in SignsIn(text) : CharsOf(Variable(text, p).value) \subseteq NameChar \ {".", "long"}
    /\ DeclarationsHaveTheirLines(text)

\* The variable at a place, the empty name for none.
NameAt(text, place) ==
    LET here == {p \in SignsIn(text) : Covers(WithSign(NameSpan(text, p)), ByteAt(text, place))}
    IN IF here = {} THEN <<>> ELSE Variable(text, CHOOSE p \in here : TRUE).value

DeclaredNames(text) ==
    LET decls == DeclarationsOf(text) IN [n \in DOMAIN decls |-> NameOf(decls[n])]
DeclaredRanges(text) ==
    LET decls == DeclarationsOf(text)
    IN {[name  |-> NameOf(decls[n]), range |-> RangeOf(text, NameSpan(text, SignOf(text, decls[n])))] :
          n \in {m \in DOMAIN decls : decls[m].payload # NoPayload}}

\* The uses of a variable are where writing another name gives it that name.
UsedRanges(text) ==
    LET names    == {Variable(text, p).value : p \in SignsIn(text)}
        Uses(name) == CHOOSE signs \in SUBSET SignsIn(text) :
                        Tree(Replaced(text, signs)) = Renaming(Tree(text), name)
    IN {[name   |-> name,
         ranges |-> {RangeOf(text, WithSign(NameSpan(text, p))) : p \in Uses(name)}] :
          name \in names}
=============================================================================
