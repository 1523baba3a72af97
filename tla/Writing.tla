------------------------------ MODULE Writing -------------------------------
(***************************************************************************)
(* An author writes a message, one piece at a time, and a tool may write a    *)
(* plain text as a message (compiler/emit.rs, escape_text).  It is handed to     *)
(* the compiler at any moment, and the properties say what that makes of it.    *)
(***************************************************************************)
EXTENDS Grammar

CONSTANTS
    DeclarationPool,  \* what can be declared
    NamePool,         \* what can be selected on
    VariantPool,      \* the variants that can be written
    SegmentPool,      \* the pieces of a body
    Layouts,          \* the ways to write a tree
    PlainTexts,       \* the texts a tool has to write
    MaxPieces,        \* bound: how many pieces a message has
    MaxEach,          \* bound: and how many of each kind
    None

VARIABLES
    tree, layout,     \* what the author has written, and how
    plain,            \* the text a tool writes, None without
    handed            \* whether the message has been handed to the compiler

vars == <<tree, layout, plain, handed>>

Pieces == Len(tree.declarations) + Len(tree.selectors) + Len(tree.variants) + Len(tree.body)
Empty  == [declarations |-> <<>>, selectors |-> <<>>, variants |-> <<>>, body |-> <<>>]

\* a mutant: white space before a leading "." is not looked past.
EscapedTextAsIs(text) ==
    LET from[n \in 1..Len(text) + 1] ==
            CASE n > Len(text) -> <<>>
              [] n <= Len(text) /\ text[n] \in {"\\", "{", "}"} ->
                   <<"\\", text[n]>> \o from[n + 1]
              [] OTHER -> <<text[n]>> \o from[n + 1]
    IN (IF At(text, 1) = "." THEN <<"{", "|", "|", "}">> ELSE <<>>) \o from[1]

\* escape_text
EscapedText(text) ==
    LET from[n \in 1..Len(text) + 1] ==
            CASE n > Len(text) -> <<>>
              [] n <= Len(text) /\ text[n] \in {"\\", "{", "}"} ->
                   <<"\\", text[n]>> \o from[n + 1]
              [] OTHER -> <<text[n]>> \o from[n + 1]
    IN (IF At(text, SkipOptional(text, 1)) = "." THEN <<"{", "|", "|", "}">> ELSE <<>>)
         \o from[1]

Init ==
    /\ tree = Empty
    /\ layout \in Layouts
    /\ plain = None
    /\ handed = FALSE

Declare(decl) ==
    /\ tree.selectors = <<>> /\ tree.body = <<>>
    /\ Len(tree.declarations) < MaxEach
    /\ tree' = [tree EXCEPT !.declarations = Append(@, decl)]

SelectOn(name) ==
    /\ tree.variants = <<>> /\ tree.body = <<>>
    /\ Len(tree.selectors) < MaxEach
    /\ tree' = [tree EXCEPT !.selectors = Append(@, name)]

AddVariant(variant) ==
    /\ tree.selectors # <<>>
    /\ Len(tree.variants) < MaxEach
    /\ tree' = [tree EXCEPT !.variants = Append(@, variant)]

\* Two texts in a row would be one.
AddSegment(segment) ==
    /\ tree.selectors = <<>>
    /\ segment.segment = "Text" /\ tree.body # <<>> =>
           tree.body[Len(tree.body)].segment # "Text"
    /\ Len(tree.body) < MaxEach
    /\ tree' = [tree EXCEPT !.body = Append(@, segment)]

Write ==
    /\ plain = None
    /\ Pieces < MaxPieces
    /\ \/ \E decl \in DeclarationPool : Declare(decl)
       \/ \E name \in NamePool : SelectOn(name)
       \/ \E variant \in VariantPool : AddVariant(variant)
       \/ \E segment \in SegmentPool : AddSegment(segment)
    /\ UNCHANGED <<layout, plain, handed>>

WritePlain(text) ==
    /\ plain = None /\ tree = Empty
    /\ plain' = text
    /\ UNCHANGED <<tree, layout, handed>>

\* The message, finished or not, goes to the compiler.
HandOver == handed' = TRUE /\ UNCHANGED <<tree, layout, plain>>

Next == ~handed /\ (Write \/ HandOver \/ \E text \in PlainTexts : WritePlain(text))

Spec == Init /\ [][Next]_vars

-----------------------------------------------------------------------------
\* parse_document, parse_pattern: what was written is what is read, every piece
\* of it, whatever the layout.
TreeIsRead ==
    [][HandOver /\ IsWhole(tree) =>
         LET source == Written(tree, layout) IN IsRead(source) /\ Tree(source) = tree]_vars

\* parse_single_message: the checks, each of which looks at the document or at
\* the text in its own way and order, accept the messages and refuse the rest.
\* One thing they overlook: collect_var_refs_from_function_options expects the "$"
\* of an option right after its "=", where the grammar allows white space, so what
\* a declaration uses in an option that is written with white space is not known.
\* Such a source is accepted if the tree without these uses is a message, which
\* lets a .local use itself or a later one.
AsSeen == IF layout.pad = <<>> THEN tree ELSE WithoutOptionVariables(tree)
VerdictIsTheTrees ==
    [][HandOver => (Accepted(Written(tree, layout)) <=> IsMessage(AsSeen))]_vars

\* escape_text: the text comes back, as it was, from the message it is written as.
PlainTextComesBack ==
    [][HandOver /\ plain # None =>
         LET source == EscapedText(plain)
             parts  == BodyPattern(source, ParseDocument(source)).segments
             texts  == SelectSeq(parts, LAMBDA part : part.segment = "Text")
         IN /\ Accepted(source)
            /\ Len(texts) = (IF plain = <<>> THEN 0 ELSE 1)
            /\ \A n \in DOMAIN texts : Decoded(texts[n].value, FALSE).value = plain]_vars
=============================================================================
