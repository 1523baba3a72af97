------------------------------ MODULE Verifier ------------------------------
(***************************************************************************)
(* Catalog::from_bytes' code verification (runtime/catalog.rs, verify_code  *)
(* and AbstractExecutionVerifier::verify).                                  *)
(*                                                                         *)
(* Pass 1 decodes the code linearly and checks operands and the            *)
(* ExprFallback adjacency rule, pass 2 checks that jumps land on            *)
(* instruction boundaries, and pass 3 executes each message entry           *)
(* abstractly.  Pass 3 is a worklist algorithm: a cursor runs along the     *)
(* code, each conditional jump leaves its target in a min-heap, and states  *)
(* the cursor meets at its own pc are merged into it.  The merge looks at   *)
(* a copy of the heap's minimum taken when it was last known (heap_peek).   *)
(***************************************************************************)
EXTENDS AbstractExec, FiniteSets

CONSTANTS
    Catalogs,   \* the decoded catalogs whose code is verified
    MaxCycle    \* the largest value of AbstractExecutionState.cycle, u16::MAX

ASSUME MaxCycleAssumption == MaxCycle \in Nat

\* A catalog as from_bytes hands it to verify_code.  code holds the
\* instructions found by decoding linearly from offset 0, an instruction that
\* cannot be decoded having an op outside Opcode: one instruction begins where
\* the one before it ends, so that no two overlap.  len is the length of CODE in
\* bytes, entries the messages' entry pcs in table order, strings and funcs
\* the sizes of the string pool and the function table, and literals the
\* literal references that lie in LITS on character boundaries.
ASSUME CatalogAssumption ==
    \A c \in Catalogs :
        /\ 0 \in DOMAIN c.code
        /\ c.len \in Nat
        /\ c.strings \in Nat /\ c.funcs \in Nat
        /\ c.entries \in Seq(Nat)
        /\ \A pc \in DOMAIN c.code :
             /\ pc \in 0..(c.len - 1)
             /\ c.code[pc].op \in Opcode =>
                  /\ c.code[pc] \in Instruction
                  /\ NextPc(c.code, pc) < c.len => NextPc(c.code, pc) \in DOMAIN c.code
                  /\ \A later \in DOMAIN c.code : later > pc => later >= NextPc(c.code, pc)

VARIABLES
    catalog,    \* the catalog being loaded
    pass,       \* "decode", "jumps", "execute" or "done"
    scan,       \* pass 1: pc
    pending,    \* pass 1: expr_fallback_pending
    boundary,   \* valid_pcs: the instruction boundaries found
    todo,       \* pass 3: the entries not yet verified
    heap,       \* pass 3: the heap
    cursor,     \* pass 3: the state being executed, or NoState
    peek,       \* pass 3: heap_peek, or NoState
    tickets,    \* number of states pushed so far
    verdict,    \* "None", "Accepted" or the CatalogError returned
    seen,       \* history: the abstract states pass 3 has executed
    dropped     \* history: states popped from the heap without being merged

vars == <<catalog, pass, scan, pending, boundary, todo, heap, cursor, peek,
          tickets, verdict, seen, dropped>>

\* A heap entry is an abstract state, the number of backward jumps taken to
\* reach it, and a ticket that keeps equal entries apart: the heap is a multiset.
Entry == [pc : Nat, depth : Nat, locals : Nat, sel : Nat, cycle : Nat, ticket : Nat]
NoState == [pc |-> -1]

StateOf(e) == [pc |-> e.pc, depth |-> e.depth, locals |-> e.locals, sel |-> e.sel]

HeapEntry(s, cycle, ticket) ==
    [pc |-> s.pc, depth |-> s.depth, locals |-> s.locals, sel |-> s.sel,
     cycle |-> cycle, ticket |-> ticket]

\* The derived Ord of AbstractExecutionState: its fields in declaration order.
OrdKey(e) == <<e.cycle, e.pc, e.depth, e.locals, e.sel, e.ticket>>
Before(a, b) ==
    \E n \in 1..6 : /\ OrdKey(a)[n] < OrdKey(b)[n]
                    /\ \A m \in 1..(n - 1) : OrdKey(a)[m] = OrdKey(b)[m]

Minima(h) == {e \in h : \A x \in h : ~Before(x, e)}

\* heap.peek(): the minimum, if there is one.
Peeks(h) == IF h = {} THEN {NoState} ELSE Minima(h)

\* The CatalogErrors of verify_code.
CatalogErrors ==
    {"UnknownOpcode", "TruncatedInstruction", "InvalidStringRef", "InvalidLiteralRef",
     "InvalidFunctionRef", "InvalidExprFallbackSequence", "BadJump", "BadPc",
     "InvalidSelectSequence", "InvalidLocalSlot", "UnterminatedEntry",
     "AmbiguouslyTerminatedEntry"}

Reject(error) ==
    /\ pass' = "done"
    /\ verdict' = error
    /\ heap' = {}
    /\ cursor' = NoState
    /\ peek' = NoState

TypeOK ==
    /\ pass \in {"decode", "jumps", "execute", "done"}
    /\ scan \in Nat
    /\ pending \in BOOLEAN
    /\ boundary \subseteq DOMAIN catalog.code
    /\ todo \in Seq(Nat)
    /\ heap \subseteq Entry
    /\ cursor \in Entry \cup {NoState}
    /\ peek \in Entry \cup {NoState}
    /\ tickets \in Nat
    /\ verdict \in {"None", "Accepted"} \cup CatalogErrors
    /\ seen \subseteq AbstractState
    /\ dropped \subseteq AbstractState

Init ==
    /\ catalog \in Catalogs
    /\ pass = "decode"
    /\ scan = 0
    /\ pending = FALSE
    /\ boundary = {}
    /\ todo = catalog.entries
    /\ heap = {} /\ cursor = NoState /\ peek = NoState
    /\ tickets = 0
    /\ verdict = "None"
    /\ seen = {} /\ dropped = {}

-----------------------------------------------------------------------------
(* Pass 1: linear decoding. *)

StringOps == {"PushConst", "LoadArg", "LoadOptionArg", "OutLit", "OutArg",
              "SelectArg", "SelectStringArg", "CaseStr", "ExprFallback"} \cup Markups

\* validate_instruction_operands
OperandFault(i) ==
    IF \/ i.op \in StringOps /\ i.id >= catalog.strings
       \/ i.op = "LoadOptionArg" /\ i.fb >= catalog.strings
      THEN "InvalidStringRef"
    ELSE IF i.op \in {"OutSlice", "OutExpr"} /\ i.id \notin catalog.literals
      THEN "InvalidLiteralRef"
    ELSE IF i.op \in Calls \cup {"ProjectSelect"} /\ i.id >= catalog.funcs
      THEN "InvalidFunctionRef"
    ELSE "None"

ClearsFallback == Calls \cup {"ResolveString", "StoreLocal"}

\* Mutant: only a second ExprFallback is refused.
FallbackFaultIfRepeated(i) == pending /\ i.op = "ExprFallback"

\* An ExprFallback must be followed at once by an instruction that consumes it.
FallbackFault(i) == pending /\ i.op \notin ClearsFallback

DecodeFault(pc) ==
    LET i == catalog.code[pc] IN
    IF i.op \notin Opcode                       THEN "UnknownOpcode"
    ELSE IF NextPc(catalog.code, pc) > catalog.len THEN "TruncatedInstruction"
    ELSE IF OperandFault(i) # "None"            THEN OperandFault(i)
    ELSE IF FallbackFault(i)                    THEN "InvalidExprFallbackSequence"
    ELSE "None"

DecodeInstruction ==
    /\ pass = "decode"
    /\ scan < catalog.len
    /\ boundary' = boundary \cup {scan}
    /\ IF DecodeFault(scan) # "None"
         THEN Reject(DecodeFault(scan)) /\ UNCHANGED <<scan, pending>>
         ELSE /\ pending' = (catalog.code[scan].op = "ExprFallback")
              /\ scan' = NextPc(catalog.code, scan)
              /\ UNCHANGED <<pass, verdict, heap, cursor, peek>>
    /\ UNCHANGED <<catalog, todo, tickets, seen, dropped>>

FinishDecode ==
    /\ pass = "decode"
    /\ scan >= catalog.len
    /\ IF pending
         THEN Reject("InvalidExprFallbackSequence")
         ELSE pass' = "jumps" /\ UNCHANGED <<verdict, heap, cursor, peek>>
    /\ UNCHANGED <<catalog, scan, pending, boundary, todo, tickets, seen, dropped>>

-----------------------------------------------------------------------------
(* Pass 2: every jump lands on an instruction boundary. *)

BadJumps == {pc \in boundary : /\ catalog.code[pc].op \in Jumps
                               /\ JumpTarget(catalog.code, pc) \notin boundary}

CheckJumps ==
    /\ pass = "jumps"
    /\ IF BadJumps # {}
         THEN Reject("BadJump")
         ELSE pass' = "execute" /\ UNCHANGED <<verdict, heap, cursor, peek>>
    /\ UNCHANGED <<catalog, scan, pending, boundary, todo, tickets, seen, dropped>>

-----------------------------------------------------------------------------
(* Pass 3: abstract execution of each message entry. *)

Idle == pass = "execute" /\ heap = {} /\ cursor = NoState

BeginEntry ==
    /\ Idle
    /\ todo # <<>>
    /\ IF Head(todo) \in boundary
         THEN /\ heap' = {HeapEntry(EntryState(Head(todo)), 0, tickets)}
              /\ tickets' = tickets + 1
              /\ todo' = Tail(todo)
              /\ UNCHANGED <<pass, verdict, cursor, peek>>
         ELSE Reject("BadPc") /\ UNCHANGED <<tickets, todo>>
    /\ UNCHANGED <<catalog, scan, pending, boundary, seen, dropped>>

Accept ==
    /\ Idle
    /\ todo = <<>>
    /\ pass' = "done"
    /\ verdict' = "Accepted"
    /\ UNCHANGED <<catalog, scan, pending, boundary, todo, heap, cursor, peek,
                   tickets, seen, dropped>>

\* The outer loop: pop the least state and look at the next one.
PopState ==
    /\ pass = "execute" /\ cursor = NoState
    /\ \E e \in Minima(heap) :
         /\ cursor' = e
         /\ heap' = heap \ {e}
         /\ peek' \in Peeks(heap')
    /\ UNCHANGED <<catalog, pass, scan, pending, boundary, todo, tickets,
                   verdict, seen, dropped>>

\* Mutant: selections of different depths are merged.
MeetsInAnySelection == /\ peek # NoState
                       /\ peek.pc = cursor.pc
                       /\ peek.cycle <= cursor.cycle

\* The inner while: the state last seen at the top of the heap is at the
\* cursor's pc, in the same selection and no later cycle.
Meets == /\ peek # NoState
         /\ peek.pc = cursor.pc
         /\ peek.cycle <= cursor.cycle
         /\ peek.sel = cursor.sel

Lesser(a, b) == IF a <= b THEN a ELSE b

\* Mutants: the cursor keeps its own bounds; the two bounds are mixed up.
MergedKeepsCursor == cursor
MergedFromLocals  == [cursor EXCEPT !.depth  = Lesser(@, peek.locals),
                                    !.locals = Lesser(@, peek.locals)]

Merged == [cursor EXCEPT !.depth  = Lesser(@, peek.depth),
                         !.locals = Lesser(@, peek.locals)]

\* One iteration of it.  What heap.pop() removes is the heap's minimum now,
\* which is peek only if nothing smaller was pushed since peek was taken.
MergePeeked ==
    /\ pass = "execute" /\ cursor # NoState /\ Meets
    /\ cursor' = Merged
    /\ \E e \in Peeks(heap) :
         /\ heap' = heap \ {e}
         /\ peek' \in Peeks(heap')
         /\ dropped' = dropped \cup (IF e \in {peek, NoState} THEN {} ELSE {StateOf(e)})
    /\ UNCHANGED <<catalog, pass, scan, pending, boundary, todo, tickets, verdict, seen>>

\* The cursor's instruction is executed abstractly.
Executing == pass = "execute" /\ cursor # NoState /\ ~Meets

Here     == StateOf(cursor)
AtOp(ops) == catalog.code[cursor.pc].op \in ops
\* Mutant: a Jmp to itself does not count as backward.
BackwardStrictly ==
    /\ AtOp(Jumps)
    /\ IF AtOp(JumpOnly) THEN JumpTarget(catalog.code, cursor.pc) < cursor.pc
       ELSE JumpTarget(catalog.code, cursor.pc) <= cursor.pc
Backward == AtOp(Jumps) /\ JumpTarget(catalog.code, cursor.pc) <= cursor.pc
NewCycle == IF Backward THEN cursor.cycle + 1 ELSE cursor.cycle

\* The error found at the cursor.  The cycle counter is checked before a
\* conditional jump's fall-through.
CursorFault ==
    LET f == Fault(catalog.code, catalog.len, Here) IN
    IF f \in {"None", "UnterminatedEntry"} /\ NewCycle > MaxCycle
      THEN "AmbiguouslyTerminatedEntry" ELSE f

RejectState ==
    /\ Executing
    /\ CursorFault # "None"
    /\ Reject(CursorFault)
    /\ UNCHANGED <<catalog, scan, pending, boundary, todo, tickets, seen, dropped>>

\* Mutant: a state executed before is not executed again, even if it was
\* executed on the way here.
MoveToNew(pc) ==
    cursor' = IF After(catalog.code, Here, pc) \in seen THEN NoState
              ELSE HeapEntry(After(catalog.code, Here, pc), NewCycle, cursor.ticket)

MoveTo(pc) ==
    cursor' = HeapEntry(After(catalog.code, Here, pc), NewCycle, cursor.ticket)

Proceeds(ops) ==
    /\ Executing
    /\ CursorFault = "None"
    /\ AtOp(ops)
    /\ seen' = seen \cup {Here}
    /\ UNCHANGED <<catalog, pass, scan, pending, boundary, todo, verdict, dropped>>

ExecuteHalt ==
    /\ Proceeds(Stop)
    /\ cursor' = NoState
    /\ UNCHANGED <<heap, peek, tickets>>

ExecuteLinear ==
    /\ Proceeds(Linear)
    /\ MoveTo(NextPc(catalog.code, cursor.pc))
    /\ UNCHANGED <<heap, peek, tickets>>

ExecuteJump ==
    /\ Proceeds(JumpOnly)
    /\ MoveTo(JumpTarget(catalog.code, cursor.pc))
    /\ UNCHANGED <<heap, peek, tickets>>

\* The target is left in the heap, and the cursor falls through.  peek stays.
ExecuteConditional ==
    /\ Proceeds(Conditional)
    /\ heap' = heap \cup
         {HeapEntry(After(catalog.code, Here, JumpTarget(catalog.code, cursor.pc)),
                    NewCycle, tickets)}
    /\ tickets' = tickets + 1
    /\ MoveTo(NextPc(catalog.code, cursor.pc))
    /\ UNCHANGED peek

-----------------------------------------------------------------------------
Next ==
    \/ DecodeInstruction \/ FinishDecode \/ CheckJumps
    \/ BeginEntry \/ Accept \/ PopState \/ MergePeeked
    \/ RejectState \/ ExecuteHalt \/ ExecuteLinear \/ ExecuteJump \/ ExecuteConditional

\* from_bytes is one thread of control: it runs until it returns.
Spec     == Init /\ [][Next]_vars
FairSpec == Spec /\ WF_vars(Next)

-----------------------------------------------------------------------------
(* Properties. *)

\* What the passes establish together: the executed states include a state for
\* each entry and are closed under execution, up to merging (Covers), if pass 3
\* discarded no state other than the one it looked at.
AcceptedCoverage ==
    verdict = "Accepted" /\ dropped = {} =>
      /\ \A m \in 1..Len(catalog.entries) :
           \E c \in seen : Covers(c, EntryState(catalog.entries[m]))
      /\ \A s \in seen :
           /\ Fault(catalog.code, catalog.len, s) = "None"
           /\ \A t \in Successors(catalog.code, s) : \E c \in seen : Covers(c, t)
=============================================================================
