-------------------------------- MODULE MCVM --------------------------------
(* Catalogs, arguments and hosts for the model checker. *)
EXTENDS QuietVM, Meaning, SampleSources

\* Code no compiler emits: one fault of execution each.
Raw(listing) == CatalogOf(listing, <<1>>, Pool, 0)
Untidy == {
    Raw(<<Plain("OutVal"), Plain("Halt")>>),
    Raw(<<Ref("PushConst", 0), Jump("JmpIfFalse", 4), Ref("OutLit", 0), Ref("OutLit", 1)>>),
    Raw(<<Ref("PushConst", 0), Ref("StoreLocal", 1), Plain("Halt")>>),
    Raw(<<Ref("LoadLocal", 0), Plain("Halt")>>),
    Raw(<<Ref("PushConst", 0), Ref("StoreLocal", 0), Ref("PushConst", 1), Ref("StoreLocal", 0),
          Ref("LoadLocal", 0), Plain("OutVal"), Plain("Halt")>>),
    Raw(<<Case(0, 2), Plain("Halt")>>),
    Raw(<<Ref("LoadArg", Y), Ref("PushConst", 0), Ref("LoadArg", Y), Ref("PushConst", 0),
          Call("CallFunc", 0, 1), Plain("Halt")>>),
    Raw(<<Ref("LoadArg", Y), Ref("LoadArg", Y), Ref("PushConst", 0),
          Call("CallFunc", 0, 1), Plain("OutVal"), Plain("Halt")>>),
    Raw(<<Ref("LoadArg", Y), Ref("PushConst", 0), Markup("MarkupOpen", 0, 1), Plain("Halt")>>),
    Raw(<<Ref("LoadArg", Y), Call("CallFunc", 0, 0)>>)}

-----------------------------------------------------------------------------
Str == Val("Str", Word)
Others == {Null, Val("Str", Empty), Val("BadNumber", Word)}

With(values) == {(X :> Str), (Y :> Str)} \cup {(X :> Str) @@ (Y :> v) : v \in values}

RequestsWith(entries, arguments, sinks, budgets) ==
    [entry : entries, args : arguments, structured : BOOLEAN, diagnostics : sinks,
     fuel : budgets]

Second       == CompiledCatalog(<<Strings, NestedMatch>>, Pool).entries[2]
MCRequests   == RequestsWith({0, Second}, With(Others \cup {Str}), BOOLEAN, {Unlimited})
MCBudgets    == RequestsWith({0}, With(Others \cup {Str, Val("Number", Word), Val("Str", Pool)}), BOOLEAN,
                             {Unlimited, 0, 3})
MCHostValues == {Null, Val("Number", Word), Val("BadNumber", Word), Val("Str", Key)}
MCEmptyText  == Empty
MCUntidy     == SeparatelyCompiled \cup Untidy

PairOf       == <<Strings, NestedMatch>>
Pair         == CompiledCatalog(PairOf, Pool)
Parts        == [n \in 1..Len(SourceSequence) |-> PartsOf(SourceSequence[n])]
Sources      == [n \in 1..Len(SourceSequence) |-> Overlooking(SourceSequence[n])]
MCCatalogs   == SeparatelyCompiled \cup {Pair} \cup FromSources

\* Lowering writes expressions and selections in one piece.
ASSUME LoweredAssumption ==
    \A c \in MCCatalogs : OperandsTogether(c) /\ SelectionsTogether(c) /\ WellFramed(c)

MCMarkupSource == {FromSource(LocalInMarkup, 0)}

-----------------------------------------------------------------------------
\* Compiled and executed, a message has the output and reports the errors, in
\* this order, that its parts give it: the bytecode, its jumps and the state
\* that instructions leave for each other add nothing and lose nothing.
MeansItsMessage ==
    result = "Ok" =>
        LET n == catalog.strings IN
        MeansMessages(CASE n = Pool -> PairOf
                        [] n \in Pool + 1..Pool + Len(Sequence) -> <<Sequence[n - Pool]>>
                        [] n > SourcePool -> <<Parts[n - SourcePool]>>)

\* Compiled and executed, a message as written has the output and reports the
\* errors that its declarations, in order and each evaluated once, and its best
\* variant give it.  docs/runtime-vm-semantics.md: "Declarations that need runtime
\* evaluation are resolved eagerly in source order, once per message execution."
\* One thing is overlooked: a use in an option that is written with white space
\* after its "=" does not count, so an optionless :string may be inlined although
\* it has this second use, and the option is then that of a missing argument.
MeansItsSource ==
    result = "Ok" /\ catalog.strings > SourcePool =>
        Means(SourceMeanings(Sources[catalog.strings - SourcePool]))

\* A variable in an option of markup is a declared one if there is one, and as
\* long as its value is known, no call after the markup is skipped.
MarkupMeansItsSource ==
    result = "Ok" => Means(SourceMeanings(LocalInMarkup))
=============================================================================
