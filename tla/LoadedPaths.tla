---------------------------- MODULE LoadedPaths -----------------------------
(***************************************************************************)
(* Verification followed by execution, seen abstractly: once a catalog is  *)
(* accepted, an execution follows any path of the code, one instruction at *)
(* a time and without merging.  It is the reference for pass 3 of the       *)
(* verifier, which looks at merged states only.                             *)
(***************************************************************************)
EXTENDS Verifier

VARIABLES
    at,        \* the abstract state of the execution, or NoState
    visited    \* the pcs it has executed

pathVars == <<vars, at, visited>>

PathInit == Init /\ at = NoState /\ visited = {}

Load == Next /\ UNCHANGED <<at, visited>>

Enter ==
    /\ verdict = "Accepted"
    /\ at = NoState
    /\ \E m \in 1..Len(catalog.entries) : at' = EntryState(catalog.entries[m])
    /\ visited' = {}
    /\ UNCHANGED vars

Walk ==
    /\ at # NoState
    /\ at.pc \notin visited
    /\ Fault(catalog.code, catalog.len, at) = "None"
    /\ at' \in Successors(catalog.code, at)
    /\ visited' = visited \cup {at.pc}
    /\ UNCHANGED vars

Leave ==
    /\ at # NoState
    /\ catalog.code[at.pc].op \in Stop
    /\ at' = NoState /\ visited' = {}
    /\ UNCHANGED vars

PathNext == Load \/ Enter \/ Walk \/ Leave
PathSpec == PathInit /\ [][PathNext]_pathVars
FairPathSpec == PathSpec /\ WF_pathVars(Load)

-----------------------------------------------------------------------------
(* The paths of a catalog's code by length, for checking rejections. *)

Steps(c, states) ==
    UNION {Successors(c.code, s) : s \in {r \in states : Fault(c.code, c.len, r) = "None"}}

PathStates(c, entry) ==
    LET states[n \in Nat] == IF n = 0 THEN {EntryState(entry)} ELSE Steps(c, states[n - 1])
    IN states

\* By counting, a path longer than the number of instructions repeats one.
Instructions(c) == {pc \in DOMAIN c.code : c.code[pc].op \in Opcode}
Loops(c, entry) == PathStates(c, entry)[Cardinality(Instructions(c))] # {}

\* A path pass 3 follows repeats no instruction within a cycle.
Longest(c) == Cardinality(Instructions(c)) * (MaxCycle + 1)
HasFault(c, entry, error) ==
    \E n \in 0..Longest(c) : \E s \in PathStates(c, entry)[n] : Fault(c.code, c.len, s) = error

PathErrors == {"InvalidSelectSequence", "InvalidLocalSlot", "UnterminatedEntry"}

Entries == {catalog.entries[m] : m \in 1..Len(catalog.entries)}

-----------------------------------------------------------------------------
(* Properties. *)

\* Documented in spec/catalog-binary-format.md ("Stack underflow on any
\* reachable path is rejected at catalog load") and the comment on verify():
\* no path of an accepted catalog pops an empty stack, reads an uninitialised
\* slot, breaks the select sequence or runs off the end of the code.
AcceptedPathsAreSafe ==
    verdict = "Accepted" /\ at # NoState => Fault(catalog.code, catalog.len, at) = "None"

\* The same, for catalogs on which the merge in pass 3 never discarded a state
\* other than the one it looked at.
CoveredPathsAreSafe ==
    dropped = {} => AcceptedPathsAreSafe

\* Termination, the first claim of verify()'s comment: no path of such a
\* catalog executes an instruction twice, so none is longer than the code.
CoveredPathsNeverRepeat ==
    verdict = "Accepted" /\ dropped = {} /\ at # NoState => at.pc \notin visited

\* Merging loses no precision: an error pass 3 reports is the error of some
\* path of the code, and an entry is called ambiguously terminated only if it
\* has a path that never ends.
ErrorIsOnAPath ==
    /\ verdict \in PathErrors =>
         \E e \in Entries : HasFault(catalog, e, verdict)
    /\ verdict = "BadPc" =>
         \E e \in Entries : e \notin boundary \/ HasFault(catalog, e, "BadPc")

RejectionsAreJustified ==
    /\ ErrorIsOnAPath
    /\ verdict = "AmbiguouslyTerminatedEntry" => \E e \in Entries : Loops(catalog, e)

\* from_bytes returns: the cycle counter bounds pass 3 whatever the jumps.
VerificationEnds == <>(pass = "done")
=============================================================================
