-------------------------- MODULE MCCatalogRuntime --------------------------
(* Sample code and sample messages, loaded and executed. *)
EXTENDS CatalogRuntime, SampleMessages

Val(kind, text) == [kind |-> kind, text |-> text]

MCCatalogs == SeparatelyCompiled \cup Diamonds \cup Faulty \cup {TwoSelectors} \cup Calls2
                \cup Entire(3, StackAlphabet(3)) \cup Entire(3, SelectAlphabet(3))

\* The argument matches the first case, the second or none, and a jump on a
\* number goes either way.  The budget ends the loops of a catalog of whose
\* states one was dropped.
MCRequests ==
    [entry : {0}, args : {X :> Val("Str", 0), X :> Val("Number", 1), X :> Val("Str", Word)},
     structured : BOOLEAN, diagnostics : {TRUE}, fuel : {20}]
MCHostValues == {Val("Number", Word)}
MCEmptyText  == Empty
=============================================================================
