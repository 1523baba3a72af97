--------------------------- MODULE SampleMessages ---------------------------
(* Small messages for the model checker, and small catalogs written as listings. *)
EXTENDS Lowering

\* The string pool: two argument names, an option name, the fallback texts of
\* the two arguments, a word and the empty text.
X == 0
Y == 1
Key == 2
FbX == 3
FbY == 4
Word == 5
Empty == 6
Pool == 7

\* {$y :f key=$y} {$x :f}: a call whose option and operand are missing, and a
\* second call that must not notice.
TwoCalls == <<FnCall(0, Var(Y), <<VarOption(Key, Y, FbY)>>, FbY),
              FnCall(0, Var(X), <<VarOption(Key, Y, FbY)>>, FbX)>>

\* .local with a nested call, and a use of it as operand and as option.
Declarations ==
    <<Bind(0, FbY, FnCall(0, FnCall(1, Var(Y), <<>>, FbY), <<>>, FbY)),
      FnCall(0, Local(0), <<LocalOption(Key, 0)>>, FbX), Local(0), Var(Y)>>

\* .input {$x :string}, .local $y = {$y}, then both in a pattern.
Strings ==
    <<Bind(0, FbX, StringCall(Var(Y), FbY)), Bind(1, FbY, Var(Y)),
      StringCall(Local(1), FbX), Local(0), Literal(1)>>

\* Markup with options that do not fail, around a call.
MarkedUp ==
    <<MarkupPart("MarkupOpen", Key, <<ConstOption(Key, Word)>>),
      FnCall(0, Var(Y), <<>>, FbY), MarkupPart("MarkupClose", Key, <<>>)>>

Match(on) == SelectPart(on, <<Arm(Word, <<Text(0)>>)>>, <<Text(1)>>)

\* .match over each kind of selector.
Declared0      == Bind(0, FbY, FnCall(0, Var(Y), <<>>, FbY))
ArgMatch       == <<Match(ArgSelector(Y))>>
StringArgMatch == <<Match(StringArgSelector(Y))>>
StringMatch    == <<Match(StringSelector(Var(Y)))>>
CallMatch      == <<Match(CallSelector(0, Var(Y), <<VarOption(Key, Y, FbY)>>))>>
CheckedMatch   == <<Declared0, CheckPart(0), Match(CheckedSelector(0))>>
ProjectedMatch == <<Declared0, CheckPart(0), Match(ProjectedSelector(0, 1))>>
LocalMatch     == <<Bind(0, FbY, Var(Y)), Match(LocalSelector(0))>>

\* A match of two selectors: the default of the inner one is that of the outer.
NestedMatch ==
    <<SelectPart(ArgSelector(X),
        <<Arm(Word, <<SelectPart(ArgSelector(Y), <<Arm(Word, <<Text(0)>>)>>, <<Var(Y)>>)>>)>>,
        <<Var(Y)>>)>>

\* Arms and defaults that repeat the default of an enclosing match, one or two
\* levels up, or of none; a key that occurs twice; parts before and after.
Forwarding ==
    <<Text(0),
      SelectPart(ArgSelector(X),
        <<Arm(FbX, <<Text(1)>>),
          Arm(Word, <<Bind(0, FbY, Var(Y)),
                      SelectPart(StringArgSelector(Y),
                        <<Arm(Word, <<Var(X)>>),
                          Arm(Word, <<Text(0)>>),
                          Arm(Empty, <<SelectPart(LocalSelector(0), <<Arm(Word, <<Text(0)>>)>>,
                                                 <<Var(X)>>)>>)>>,
                        <<Var(Y), Text(1)>>)>>)>>,
        <<Var(X)>>),
      Var(X)>>

Sequence == <<TwoCalls, Declarations, Strings, MarkedUp, ArgMatch, StringArgMatch, StringMatch,
              CallMatch, CheckedMatch, ProjectedMatch, LocalMatch, NestedMatch, Forwarding>>

\* The n-th has n strings more, by which it is known.
One(parts, n) == CompiledCatalog(<<parts>>, Pool + n)
SeparatelyCompiled == {One(Sequence[n], n) : n \in 1..Len(Sequence)}
Whole      == {CompiledCatalog(Sequence, Pool)}

-----------------------------------------------------------------------------
(* Listings. *)

\* Every listing of the given length over an alphabet of instructions whose
\* jumps go anywhere in it.
Listings(n, alphabet) == [1..n -> alphabet]

StackAlphabet(n) ==
    {Plain("Halt"), Ref("LoadArg", 0), Plain("OutVal"), Ref("StoreLocal", 0),
     Ref("LoadLocal", 0)}
      \cup {Jump("Jmp", to) : to \in 1..n}
      \cup {Jump("JmpIfFalse", to) : to \in 1..n}

SelectAlphabet(n) ==
    {Plain("Halt"), Ref("SelectArg", 0), Plain("SelectEnd"), Plain("OutVal")}
      \cup {Case(0, to) : to \in 1..n}
      \cup {Jump("CaseDefault", n)}

Entire(n, alphabet) == {CatalogOf(l, <<1>>, 1, 0) : l \in Listings(n, alphabet)}

Catalog(listing) == CatalogOf(listing, <<1>>, 2, 0)

\* Three ways to one join: x after both cases failed, y z w from the first
\* case, and the second case itself.  The join's state is still in the heap
\* when the first case's is popped.
Diamond(x, y, z, w, v) ==
    Catalog(<<Ref("PushConst", 0), Ref("SelectArg", 0), Case(0, 7), Case(1, 10),
              x, Jump("Jmp", 10), y, z, w, Plain("SelectEnd"), v, Plain("Halt")>>)

Diamonds ==
    LET push == Ref("PushConst", 0)  store == Ref("StoreLocal", 0)
        load == Ref("LoadLocal", 0)  lit == Ref("OutLit", 0)
    IN {Diamond(x, y, z, w, v) :
          x \in {push, store, lit, Plain("OutVal"), Ref("SelectArg", 0)},
          y \in {push, store, Ref("SelectArg", 0), Case(0, 9)},
          z \in {push, store, Jump("Jmp", 10)},
          w \in {store, load, lit, Plain("OutVal")},
          v \in {load, lit, Plain("OutVal"), Plain("SelectEnd")}}

\* The first case jumps to w, which underflows the stack at v: that state is
\* pushed while the join's is peeked, and popped in its place.
DroppedState ==
    Diamond(Ref("OutLit", 0), Case(0, 9), Jump("Jmp", 10), Plain("OutVal"), Plain("OutVal"))

\* The shape lower_select gives a match of two selectors, the default of the
\* inner one forwarded to the default of the outer one.
TwoSelectors ==
    Catalog(<<Ref("SelectArg", 0), Case(0, 4), Jump("CaseDefault", 12),
              Ref("SelectArg", 1), Case(0, 7), Jump("CaseDefault", 9),
              Ref("OutLit", 0), Jump("Jmp", 11),
              Plain("SelectEnd"), Jump("Jmp", 12), Plain("SelectEnd"),
              Ref("OutLit", 1), Plain("SelectEnd"), Plain("Halt")>>)

Faulty == {
    Catalog(<<Ref("ExprFallback", 0), Ref("OutLit", 0), Plain("Halt")>>),
    Catalog(<<Ref("ExprFallback", 0), Ref("ExprFallback", 0), Plain("Halt")>>),
    Catalog(<<Plain("Halt"), Ref("ExprFallback", 0)>>),
    Catalog(<<Ref("OutLit", 2), Plain("Halt")>>),
    Catalog(<<Ref("OutSlice", 2), Plain("Halt")>>),
    Catalog(<<OptionArg(0, 2), Plain("OutVal"), Plain("Halt")>>),
    Catalog(<<Ref("PushConst", 0), Call("CallFunc", 2, 0), Plain("OutVal"), Plain("Halt")>>),
    Catalog(<<Astray("Jmp", 2, 1), Ref("OutLit", 0), Plain("Halt")>>),
    Catalog(<<Plain("0x7f"), Plain("Halt")>>),
    CatalogOf(<<Plain("Halt"), Ref("OutLit", 0)>>, <<1>>, 2, 1),
    [Catalog(<<Ref("OutLit", 0), Plain("Halt")>>) EXCEPT !.entries = <<0, 3>>]}

Calls2 == {
    Catalog(<<Ref("LoadArg", 0), Ref("PushConst", 0), OptionArg(0, 1), Ref("ExprFallback", 0),
              Call("CallFunc", 0, 1), Plain("OutVal"), Plain("Halt")>>),
    Catalog(<<Ref("PushConst", 0), Ref("PushConst", 0), Markup("MarkupOpen", 0, 1),
              Markup("MarkupClose", 0, 1), Plain("Halt")>>)}

Chosen == {TwoSelectors} \cup Faulty \cup Calls2
=============================================================================
