------------------------------ MODULE QuietVM -------------------------------
(***************************************************************************)
(* format_to without a diagnostics sink, as what format_to with one looks  *)
(* like if nobody reads the diagnostics.  ExprStatePendingErrors keeps the  *)
(* errors of an expression in the one case, and only whether there was one  *)
(* in the other.                                                           *)
(***************************************************************************)
EXTENDS VM

\* The same request, without a sink.
Quieted(r) == [entry |-> r.entry, args |-> r.args, structured |-> r.structured,
               diagnostics |-> FALSE, fuel |-> r.fuel]

\* Whatever is asked for with a sink may be asked for without.
ASSUME SinkAssumption == \A r \in Requests : Quieted(r) \in Requests

AnyOf(errors) == IF errors = <<>> THEN <<>> ELSE <<"Any">>

Quiet == INSTANCE VM WITH
    call  <- Quieted(call),
    expr  <- [fallback |-> expr.fallback,
              pending  |-> AnyOf(expr.pending), options |-> AnyOf(expr.options)],
    diags <- <<>>

\* Recording diagnostics is observation only: with a sink attached, format_to
\* takes the steps, and has the output and the result, that it has without.
DiagnosticsAreObservers == Quiet!Spec
=============================================================================
