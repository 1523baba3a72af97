--------------------------- MODULE CatalogRuntime ---------------------------
(***************************************************************************)
(* Loading and execution together: Catalog::from_bytes verifies a catalog, *)
(* and a Formatter over the catalog it returned executes messages.  The VM *)
(* has no checks for much of what the loader has verified.                 *)
(***************************************************************************)
EXTENDS Verifier

CONSTANTS Requests, HostValues, EmptyText   \* see VM

VARIABLES
    \* the formatter (see VM)
    status, call, result, pc, stack, locals, selector, expr, fuel, direct, out, diags, matched

Runtime == INSTANCE VM

executing == <<status, call, result, pc, stack, locals, selector, expr, fuel, direct, out,
               diags, matched>>

SystemInit == Init /\ Runtime!Fresh

Verify == Next /\ UNCHANGED executing

\* Only an accepted catalog is given to a formatter.
Format ==
    /\ verdict = "Accepted"
    /\ Runtime!Next
    /\ UNCHANGED vars

SystemNext == Verify \/ Format

SystemSpec == SystemInit /\ [][SystemNext]_<<vars, executing>>

-----------------------------------------------------------------------------
(* Properties. *)

\* Passes 1 and 2 establish what the VM takes for granted of the code it reads.
AcceptedIsDecoded == verdict = "Accepted" => Runtime!Decoded(catalog)

\* verify() knows of every execution: where one is, pass 3 has been with no
\* more values on the stack and no more slots.  A call that wrote its output
\* counts for the value that it did not push.
Depth == Len(stack) + IF direct THEN 1 ELSE 0
ExecutionIsCovered ==
    status = "running" /\ dropped = {} =>
        \E c \in seen : /\ c.pc = pc
                        /\ c.depth <= Depth
                        /\ c.locals <= Len(locals)

\* docs/runtime-vm-semantics.md: "Catalog verification rejects malformed control
\* flow before execution."  An accepted catalog, if pass 3 dropped no state, does
\* not underflow the stack, miss a local slot or leave the code.
LoadedNeverTraps ==
    dropped = {} => result \notin {"StackUnderflow", "InvalidLocalSlot", "Decode"}
=============================================================================
