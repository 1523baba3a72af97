--------------------------- MODULE SampleSources ----------------------------
(* Small messages as they are written, for the model checker.  The texts are *)
(* those of SampleMessages and three more; a text is also its own name.       *)
EXTENDS Frontend, SampleMessages

Loc == 7
Loc2 == 8
Loc3 == 9
SourceTexts == 10
SourcePool  == 4 * SourceTexts

\* The functions: :string, :number, :integer select=exact, :number select=$x,
\* :percent, :custom and a second function that does not select numbers.
String  == StringFn
Number  == Fn("number", 0)
Exact   == Fn("exact", 1)
Dynamic == Fn("dynamic", 2)
Percent == Fn("percent", 3)
Custom  == Fn("custom", 4)

\* {$name :f}
Of(name, f)         == CallOf(f, VarExpr(name), <<>>)
OfWith(name, f, at) == CallOf(f, VarExpr(name), <<Reference(Key, at)>>)

\* {$name :f key= $at}
OfSpaced(name, f, at) == CallOf(f, VarExpr(name), <<SpacedReference(Key, at)>>)

\* .input {$y :number} .local $l = {$y} .local $m = {$l} {{{$x :custom key= $m} {$l}}}
AliasOfCall ==
    Quote(<<Input(Of(Y, Number)), Let(Loc, VarExpr(Y)), Let(Loc2, VarExpr(Loc))>>,
          <<OfSpaced(X, Custom, Loc2), VarExpr(Loc)>>)

\* .input {$y :string} .local $l = {$y :number} {{{$l} {$x}}}
InlinedInput ==
    Quote(<<Input(Of(Y, String)), Let(Loc, Of(Y, Number))>>, <<VarExpr(Loc), VarExpr(X)>>)

\* .local $l = {$y :string} .local $m = {$l :number} {{{$m}}}
InlinedLocal ==
    Quote(<<Let(Loc, Of(Y, String)), Let(Loc2, Of(Loc, Number))>>, <<VarExpr(Loc2)>>)

\* The same, but the text is used a second time.
NotInlined ==
    Quote(<<Let(Loc, Of(Y, String)), Let(Loc2, Of(Loc, Number))>>,
          <<VarExpr(Loc), VarExpr(Loc2)>>)

\* Literals and their aliases, shown, as operands and as options.
Literals ==
    Quote(<<Let(Loc, LitExpr(Word)), Let(Loc2, VarExpr(Loc))>>,
          <<VarExpr(Loc2), Of(Loc2, String), OfWith(X, Custom, Loc2)>>)
LiteralOperand ==
    Quote(<<Let(Loc, LitExpr(Word)), Let(Loc2, Of(Loc, String))>>,
          <<VarExpr(Loc2), CallOf(Custom, LitExpr(Word), <<Reference(Key, Loc2)>>)>>)

\* .local $l = {$y} .local $m = {$l} {{{$m} {$l :string} {$x :custom key=$m}}}
AliasOfArgument ==
    Quote(<<Let(Loc, VarExpr(Y)), Let(Loc2, VarExpr(Loc))>>,
          <<VarExpr(Loc2), Of(Loc, String), OfWith(X, Custom, Loc2)>>)

\* .local $l = {$y :custom} .local $m = {$l :percent} {{text {$m :string}}}
Chain ==
    Quote(<<Let(Loc, Of(Y, Custom)), Let(Loc2, Of(Loc, Percent))>>,
          <<TextSegment(0), Of(Loc2, String)>>)

\* A declaration that nothing uses, around markup.
Unused ==
    Quote(<<Input(VarExpr(X)), Let(Loc, OfWith(Y, Custom, X))>>,
          <<MarkupExpr("MarkupOpen", Key, <<>>), VarExpr(X), MarkupExpr("MarkupClose", Key, <<>>)>>)

\* An .input with an option of its own that is an argument.
InputOption ==
    Quote(<<Input(OfWith(Y, Number, X))>>, <<VarExpr(Y), Of(Y, String)>>)

\* .local $l = {$y :string} .local $m = {$l :number} {{{$x :custom key= $l}}}
SpacedUse ==
    Quote(<<Let(Loc, Of(Y, String)), Let(Loc2, Of(Loc, Number))>>,
          <<OfSpaced(X, Custom, Loc)>>)

-----------------------------------------------------------------------------
(* Matches.  Word is a number, Key a category and the other keys are texts.  *)

SourceNumberKeys == {Word}
SourceCategories == {Key}
Show(n)  == <<TextSegment(n)>>
MatchOf(decls, selectors, rows) ==
    Message(decls, selectors, [n \in 1..Len(rows) |-> Variant(rows[n], Show(n))])

\* .input {$y :string} .local $l = {$y} .match $l word {{1}} * {{2}}
TextMatch ==
    MatchOf(<<Input(Of(Y, String)), Let(Loc, VarExpr(Y))>>, <<Loc>>, <<<<Word>>, <<Star>>>>)

\* .local $l = {$y :number} .match $l word {{1}} category {{2}} * {{3}}
PluralMatch ==
    MatchOf(<<Let(Loc, Of(Y, Number))>>, <<Loc>>, <<<<Word>>, <<Key>>, <<Star>>>>)

\* .match $l $x, the first a plural and the second a text; the best variant is not
\* the first that fits.
TwoSelectorMatch ==
    MatchOf(<<Input(Of(X, String)), Let(Loc, Of(Y, Number))>>, <<Loc, X>>,
            <<<<Star, Star>>, <<Key, FbX>>, <<Word, Empty>>, <<Star, Word>>>>)

\* The same declaration twice, under two names.
SameTwice ==
    MatchOf(<<Input(Of(Y, Exact)), Let(Loc, VarExpr(Y))>>, <<Loc, Y>>,
            <<<<Star, Word>>, <<Word, Star>>, <<Star, Star>>>>)

\* A projected selector, and a dynamic one.
CustomMatch ==
    MatchOf(<<Let(Loc, Of(Y, Custom))>>, <<Loc>>, <<<<Star>>, <<Word>>>>)
DynamicMatch ==
    MatchOf(<<Let(Loc, OfWith(Y, Dynamic, X))>>, <<Loc>>, <<<<Key>>, <<Star>>, <<Word>>>>)

\* An argument that is text for a number that is matched and shown.
InlinedMatch ==
    Message(<<Let(Loc, Of(Y, String)), Let(Loc2, Of(Loc, Exact))>>, <<Loc2>>,
            <<Variant(<<Word>>, <<VarExpr(Loc2)>>), Variant(<<Star>>, <<TextSegment(1)>>)>>)

SourceSequence ==
    <<AliasOfCall, InlinedInput, InlinedLocal, NotInlined, Literals, LiteralOperand,
      AliasOfArgument, Chain, Unused, InputOption, TextMatch, PluralMatch, TwoSelectorMatch,
      SameTwice, CustomMatch, DynamicMatch, InlinedMatch, SpacedUse>>

ASSUME \A n \in 1..Len(SourceSequence) : Compiles(SourceSequence[n])

\* The n-th has n texts more, by which it is known.
FromSource(message, n) == CompiledCatalog(<<PartsOf(message)>>, SourcePool + n)
FromSources == {FromSource(SourceSequence[n], n) : n \in 1..Len(SourceSequence)}

-----------------------------------------------------------------------------
(* Sources that the findings are about. *)

\* .local $l = {|word|} {{{#key key=$l/} {$x :custom}}}
LocalInMarkup ==
    Quote(<<Let(Loc, LitExpr(Word))>>,
          <<MarkupExpr("MarkupStandalone", Key, <<Reference(Key, Loc)>>), Of(X, Custom)>>)

\* .input {$x :custom key=$l} .local $l = {$y :custom} {{{$x}}}
LaterInOption ==
    Quote(<<Input(OfWith(X, Custom, Loc)), Let(Loc, Of(Y, Custom))>>, <<VarExpr(X)>>)

\* .local $m = {$x :custom key= $l} .local $l = {$y :custom} {{{$m}}}
LaterInSpacedOption ==
    Quote(<<Let(Loc2, OfSpaced(X, Custom, Loc)), Let(Loc, Of(Y, Custom))>>, <<VarExpr(Loc2)>>)

ASSUME Compiles(LaterInOption) /\ Compiles(LaterInSpacedOption)
=============================================================================
