----------------------------- MODULE MCVerifier -----------------------------
(* Catalogs for the model checker: every short listing over two alphabets,  *)
(* joins of three paths, and catalogs with one fault each.                  *)
EXTENDS LoadedPaths, SampleSources

MCCatalogs == Chosen \cup Diamonds
                \cup Entire(3, StackAlphabet(3)) \cup Entire(4, SelectAlphabet(4))
MCCompiled  == SeparatelyCompiled \cup Whole \cup FromSources
MCAll       == MCCatalogs \cup MCCompiled
MCDropped   == {DroppedState}
MCScope     == {FromSource(LaterInOption, 0)}

-----------------------------------------------------------------------------
\* What the compiler wrote for the samples (lower_parts, encode_messages) the
\* loader accepts (verify_code), and without dropping a state, so that what holds of
\* covered paths holds of it.  A source for which it does not hold, LaterInOption, is
\* in the run loading_scope; LaterInSpacedOption compiles to the like.
\* Compiled catalogs are known by their string pools.
CompiledIsAccepted ==
    pass = "done" /\ catalog.strings >= Pool => verdict = "Accepted" /\ dropped = {}
=============================================================================
