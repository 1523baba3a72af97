--------------------------- MODULE VerifierProofs ---------------------------
(***************************************************************************)
(* Type correctness of the loader's verification, and what pass 3           *)
(* establishes: every abstract state that execution can be in is covered by *)
(* one that pass 3 has executed or still holds.  So no path of an accepted   *)
(* catalog's code goes wrong if pass 3 dropped no state, and no catalog is    *)
(* refused for an error that none of its paths has.                          *)
(***************************************************************************)
EXTENDS LoadedPaths, TLAPS, SequenceTheorems, FiniteSetTheorems, WellFoundedInduction

-----------------------------------------------------------------------------
(* One instruction executed abstractly.  Execution is monotonic: a state that *)
(* promises less (Covers) is faulty whenever one that promises more is, and   *)
(* so are their successors related.                                           *)

\* An instruction has a width of at least one byte: code runs forward.
LEMMA WidthType ==
  ASSUME NEW op \in Opcode
  PROVE  Width(op) \in Nat \ {0}
BY DEF Opcode, OneByte, FiveByte, NineByte, Calls, Markups, Width

\* Pops and pushes are counts.
LEMMA PopsType ==
  ASSUME NEW i \in Instruction
  PROVE  Pops(i) \in Nat /\ Pushes(i) \in Nat
<1>1. i.argc \in Nat /\ i.optc \in Nat
  BY DEF Instruction, Byte
<1>2. i.argc + 2 * i.optc \in Nat /\ 2 * i.optc \in Nat
  BY <1>1
<1> QED
  BY <1>2 DEF Pops, Pushes

\* A fault-free instruction takes an abstract state to abstract states: it
\* neither underflows the stack nor closes a selection that is not open.
LEMMA AfterType ==
  ASSUME NEW code, NEW len, NEW s \in AbstractState, NEW pc \in Nat,
         code[s.pc] \in Instruction, Fault(code, len, s) = "None"
  PROVE  After(code, s, pc) \in AbstractState
<1> DEFINE i == code[s.pc]
<1>1. s.depth \in Nat /\ s.locals \in Nat /\ s.sel \in Nat
  BY DEF AbstractState
<1>2. ~SelectFault(i, s.sel) /\ s.depth >= Pops(i)
  BY <1>1, PopsType DEF Fault
<1>3. NewDepth(i, s.depth) \in Nat
  BY <1>1, <1>2, PopsType DEF NewDepth
<1>4. NewLocals(i, s.locals) \in Nat
  BY <1>1 DEF NewLocals
<1>5. NewSelect(i, s.sel) \in Nat
  BY <1>1, <1>2 DEF NewSelect, SelectFault, OpensSelect
<1> QED
  BY <1>3, <1>4, <1>5 DEF After, AbstractState

\* Covers is a preorder on abstract states.
LEMMA CoversReflexive ==
  ASSUME NEW s \in AbstractState
  PROVE  Covers(s, s)
BY DEF Covers, AbstractState

LEMMA CoversTransitive ==
  ASSUME NEW b \in AbstractState, NEW c \in AbstractState, NEW d \in AbstractState,
         Covers(b, c), Covers(c, d)
  PROVE  Covers(b, d)
BY DEF Covers, AbstractState

\* What is safe from the state that promises less is safe from the other.
LEMMA FaultMonotonic ==
  ASSUME NEW code, NEW len, NEW c \in AbstractState, NEW s \in AbstractState,
         code[s.pc] \in Instruction, Covers(c, s), Fault(code, len, c) = "None"
  PROVE  Fault(code, len, s) = "None"
<1> DEFINE i == code[s.pc]
<1>1. /\ c.pc = s.pc /\ c.sel = s.sel /\ c.depth <= s.depth /\ c.locals <= s.locals
      /\ c.depth \in Nat /\ s.depth \in Nat /\ c.locals \in Nat /\ s.locals \in Nat
  BY DEF Covers, AbstractState
<1>2. i.id \in Nat /\ Pops(i) \in Nat
  BY PopsType DEF Instruction
<1>3. /\ ~SelectFault(i, s.sel) /\ ~LocalFault(i, c.locals) /\ ~(c.depth < Pops(i))
      /\ ~(i.op \in Stop /\ s.sel # 0) /\ ~Unterminated(code, len, s.pc)
  BY <1>1 DEF Fault
<1>4. ~LocalFault(i, s.locals)
  BY <1>1, <1>2, <1>3 DEF LocalFault
<1>5. ~(s.depth < Pops(i))
  BY <1>1, <1>2, <1>3
<1> QED
  BY <1>3, <1>4, <1>5 DEF Fault

\* Executing an instruction keeps two states in the order they were in.
LEMMA AfterMonotonic ==
  ASSUME NEW code, NEW c \in AbstractState, NEW s \in AbstractState, NEW pc,
         code[s.pc] \in Instruction, Covers(c, s)
  PROVE  Covers(After(code, c, pc), After(code, s, pc))
<1> DEFINE i == code[s.pc]
<1>1. /\ c.pc = s.pc /\ c.sel = s.sel /\ c.depth <= s.depth /\ c.locals <= s.locals
      /\ c.depth \in Nat /\ s.depth \in Nat /\ c.locals \in Nat /\ s.locals \in Nat
  BY DEF Covers, AbstractState
<1>2. NewDepth(i, c.depth) <= NewDepth(i, s.depth)
  BY <1>1, PopsType DEF NewDepth
<1>3. NewLocals(i, c.locals) <= NewLocals(i, s.locals)
  BY <1>1 DEF NewLocals, Instruction
<1> QED
  BY <1>1, <1>2, <1>3 DEF After, Covers

-----------------------------------------------------------------------------
(* The passes of the loader. *)

\* What the passes have found out about the code so far.
Parsed ==
    /\ catalog \in Catalogs
    /\ scan \in DOMAIN catalog.code \/ scan >= catalog.len
    /\ pass # "done" =>
         \A pc \in boundary :
            /\ catalog.code[pc].op \in Opcode
            /\ NextPc(catalog.code, pc) \in boundary \cup {scan}
    /\ pass \in {"jumps", "execute"} => scan >= catalog.len
    /\ pass = "execute" => BadJumps = {}

\* Pass 3 is always at an instruction.
InCode ==
    /\ \A e \in heap : e.pc \in boundary
    /\ cursor # NoState => cursor.pc \in boundary

TypeInv == TypeOK /\ Parsed /\ InCode

-----------------------------------------------------------------------------
\* The entries pass 3 handles are entries, and stand for abstract states.
LEMMA EntryTypes ==
  /\ NoState \notin Entry
  /\ \A e \in Entry : StateOf(e) \in AbstractState /\ StateOf(e).pc = e.pc
  /\ \A s \in AbstractState, cycle \in Nat, ticket \in Nat :
        /\ HeapEntry(s, cycle, ticket) \in Entry
        /\ StateOf(HeapEntry(s, cycle, ticket)) = s
        /\ HeapEntry(s, cycle, ticket).pc = s.pc
<1>1. NoState \notin Entry
  <2>1. \A e \in Entry : e.pc \in Nat
    BY DEF Entry
  <2>2. NoState.pc = -1
    BY DEF NoState
  <2> QED BY <2>1, <2>2
<1> QED BY <1>1 DEF Entry, StateOf, AbstractState, HeapEntry

\* What is known of a catalog's code.
LEMMA CodeType ==
  ASSUME TypeOK, Parsed
  PROVE  /\ 0 \in DOMAIN catalog.code
         /\ catalog.len \in Nat
         /\ catalog.entries \in Seq(Nat)
         /\ DOMAIN catalog.code \subseteq Nat
         /\ boundary \subseteq Nat
         /\ \A pc \in DOMAIN catalog.code : pc < catalog.len
         /\ \A pc \in DOMAIN catalog.code : catalog.code[pc].op \in Opcode =>
              /\ catalog.code[pc] \in Instruction
              /\ NextPc(catalog.code, pc) \in Nat
              /\ NextPc(catalog.code, pc) \in DOMAIN catalog.code
                   \/ NextPc(catalog.code, pc) >= catalog.len
<1>1. /\ 0 \in DOMAIN catalog.code
      /\ catalog.len \in Nat
      /\ catalog.entries \in Seq(Nat)
      /\ \A pc \in DOMAIN catalog.code :
           /\ pc \in 0..(catalog.len - 1)
           /\ catalog.code[pc].op \in Opcode =>
                /\ catalog.code[pc] \in Instruction
                /\ NextPc(catalog.code, pc) < catalog.len =>
                     NextPc(catalog.code, pc) \in DOMAIN catalog.code
  BY CatalogAssumption DEF Parsed
<1>2. boundary \subseteq DOMAIN catalog.code
  BY DEF TypeOK
<1>3. \A pc \in DOMAIN catalog.code : pc \in Nat /\ pc < catalog.len
  BY <1>1
<1>4. \A pc \in DOMAIN catalog.code : catalog.code[pc].op \in Opcode =>
        NextPc(catalog.code, pc) \in Nat
  BY <1>3, WidthType DEF NextPc
<1> QED BY <1>1, <1>2, <1>3, <1>4

\* The instruction at the cursor, and the states it leads to if it has no fault:
\* they lie on instruction boundaries, by passes 1 and 2.
LEMMA CursorTypes ==
  ASSUME TypeInv, Executing
  PROVE  /\ cursor \in Entry
         /\ cursor.pc \in boundary
         /\ Here \in AbstractState
         /\ Here.pc = cursor.pc
         /\ catalog.code[cursor.pc] \in Instruction
         /\ NewCycle \in Nat
<1>1. cursor \in Entry /\ cursor.pc \in boundary /\ pass = "execute"
  BY DEF TypeInv, TypeOK, InCode, Executing
<1>2. Here \in AbstractState /\ Here.pc = cursor.pc
  BY <1>1, EntryTypes DEF Here
<1>3. catalog.code[cursor.pc] \in Instruction
  BY <1>1, CodeType DEF TypeInv, Parsed, TypeOK
<1>4. NewCycle \in Nat
  BY <1>1 DEF NewCycle, Entry
<1> QED BY <1>1, <1>2, <1>3, <1>4

LEMMA SuccessorTypes ==
  ASSUME TypeInv, Executing, CursorFault = "None"
  PROVE  /\ Fault(catalog.code, catalog.len, Here) = "None"
         /\ \A pc \in Targets(catalog.code, cursor.pc) :
              /\ pc \in boundary
              /\ After(catalog.code, Here, pc) \in AbstractState
              /\ After(catalog.code, Here, pc).pc = pc
<1> USE CursorTypes
<1>1. Fault(catalog.code, catalog.len, Here) = "None"
  BY DEF CursorFault
<1>2. ~Unterminated(catalog.code, catalog.len, cursor.pc)
  BY <1>1 DEF Fault
<1>3. /\ scan >= catalog.len /\ BadJumps = {}
      /\ NextPc(catalog.code, cursor.pc) \in boundary \cup {scan}
  BY DEF TypeInv, Parsed, Executing
<1>4. ASSUME NEW pc \in Targets(catalog.code, cursor.pc)
      PROVE  pc \in boundary
  <2>1. CASE pc = JumpTarget(catalog.code, cursor.pc) /\ catalog.code[cursor.pc].op \in Jumps
    BY <2>1, <1>3 DEF BadJumps
  <2>2. CASE /\ pc = NextPc(catalog.code, cursor.pc)
             /\ catalog.code[cursor.pc].op \notin Stop \cup JumpOnly
    <3>1. scan \in Nat /\ catalog.len \in Nat /\ pc \in Nat
      BY <2>2, CodeType DEF TypeInv, TypeOK, Instruction
    <3> QED BY <2>2, <3>1, <1>2, <1>3 DEF Unterminated
  <2> QED
    BY <1>4, <2>1, <2>2 DEF Targets, Jumps, Stop, JumpOnly, Conditional
<1>5. ASSUME NEW pc \in Targets(catalog.code, cursor.pc)
      PROVE  After(catalog.code, Here, pc) \in AbstractState
  BY <1>1, <1>4, AfterType, CodeType DEF TypeInv
<1> QED BY <1>1, <1>4, <1>5 DEF After

-----------------------------------------------------------------------------
(* The type invariant. *)

\* A minimum is a member, and a peek finds a member or nothing.
LEMMA PeekMembers ==
  ASSUME NEW h
  PROVE  Minima(h) \subseteq h /\ Peeks(h) \subseteq h \cup {NoState}
BY DEF Minima, Peeks

\* The passes refuse with one of the errors.
LEMMA FaultNames ==
  /\ \A pc : DecodeFault(pc) \in CatalogErrors \cup {"None"}
  /\ CursorFault \in CatalogErrors \cup {"None"}
<1> USE DEF CatalogErrors
<1>1. \A i : OperandFault(i) \in CatalogErrors \cup {"None"}
  BY DEF OperandFault
<1>2. \A s : Fault(catalog.code, catalog.len, s) \in CatalogErrors \cup {"None"}
  BY DEF Fault
<1>3. \A pc : DecodeFault(pc) \in CatalogErrors \cup {"None"}
  BY <1>1 DEF DecodeFault
<1>4. CursorFault \in CatalogErrors \cup {"None"}
  BY <1>2 DEF CursorFault
<1> QED BY <1>3, <1>4

LEMMA TypeInit == Init => TypeInv
<1> SUFFICES ASSUME Init PROVE TypeInv
  OBVIOUS
<1>1. catalog \in Catalogs
  BY DEF Init
<1>2. catalog.entries \in Seq(Nat) /\ 0 \in DOMAIN catalog.code
  BY <1>1, CatalogAssumption
<1> QED BY <1>1, <1>2 DEF Init, TypeInv, TypeOK, Parsed, InCode

\* A refusal leaves nothing to verify.
LEMMA RejectType ==
  ASSUME TypeInv, NEW error \in CatalogErrors, Reject(error), boundary' \subseteq DOMAIN catalog.code,
         scan' = scan, pending' = pending, catalog' = catalog, todo' = todo,
         tickets' = tickets, seen' = seen, dropped' = dropped
  PROVE  TypeInv'
<1>1. TypeOK'
  BY DEF TypeInv, TypeOK, Reject
<1>2. Parsed'
  BY DEF TypeInv, Parsed, Reject
<1>3. InCode'
  BY DEF InCode, Reject
<1> QED BY <1>1, <1>2, <1>3 DEF TypeInv

\* A step of pass 3 that goes on: the states it leaves behind are at instructions.
LEMMA ProceedsType ==
  ASSUME TypeInv, NEW ops, Proceeds(ops),
         tickets' \in Nat,
         cursor' \in Entry \cup {NoState}, cursor' # NoState => cursor'.pc \in boundary,
         heap' \subseteq Entry, \A e \in heap' : e.pc \in boundary,
         peek' = peek
  PROVE  TypeInv'
<1>1. Here \in AbstractState
  BY CursorTypes DEF Proceeds
<1>2. TypeOK'
  BY <1>1 DEF TypeInv, TypeOK, Proceeds
<1>3. Parsed'
  BY DEF TypeInv, Parsed, BadJumps, Proceeds
<1>4. InCode'
  BY DEF TypeInv, InCode, Proceeds
<1> QED BY <1>2, <1>3, <1>4 DEF TypeInv

\* Where MoveTo goes, and what it leaves in the cursor.
LEMMA MoveType ==
  ASSUME TypeInv, Executing, CursorFault = "None",
         NEW pc \in Targets(catalog.code, cursor.pc), NEW ticket \in Nat
  PROVE  LET e == HeapEntry(After(catalog.code, Here, pc), NewCycle, ticket)
         IN  /\ e \in Entry /\ e.pc \in boundary
             /\ StateOf(e) = After(catalog.code, Here, pc)
BY SuccessorTypes, CursorTypes, EntryTypes

LEMMA TypeStep == TypeInv /\ [Next]_vars => TypeInv'
<1> SUFFICES ASSUME TypeInv, [Next]_vars PROVE TypeInv'
  OBVIOUS
<1> USE DEF TypeInv
<1>1. CASE DecodeInstruction
  <2>1. scan \in DOMAIN catalog.code /\ boundary' \subseteq DOMAIN catalog.code
    BY <1>1, CodeType DEF DecodeInstruction, TypeOK, Parsed
  <2>2. CASE DecodeFault(scan) # "None"
    BY <1>1, <2>1, <2>2, RejectType, FaultNames DEF DecodeInstruction
  <2>3. CASE DecodeFault(scan) = "None"
    <3>1. /\ catalog.code[scan].op \in Opcode
          /\ NextPc(catalog.code, scan) <= catalog.len \/ NextPc(catalog.code, scan) > catalog.len
      BY <2>3, <2>1, CodeType DEF DecodeFault
    <3>2. /\ scan' = NextPc(catalog.code, scan) /\ boundary' = boundary \cup {scan}
          /\ pending' \in BOOLEAN
          /\ UNCHANGED <<catalog, pass, verdict, heap, cursor, peek, todo, tickets, seen, dropped>>
          /\ pass = "decode"
      BY <1>1, <2>3 DEF DecodeInstruction
    <3>3. TypeOK'
      BY <2>1, <3>1, <3>2, CodeType DEF TypeOK
    <3>4. Parsed'
      BY <2>1, <3>1, <3>2, CodeType DEF Parsed
    <3>5. InCode'
      BY <3>2 DEF InCode
    <3> QED BY <3>3, <3>4, <3>5
  <2> QED BY <2>2, <2>3
<1>2. CASE FinishDecode
  <2>1. CASE pending
    BY <1>2, <2>1, RejectType DEF FinishDecode, TypeOK, CatalogErrors
  <2>2. CASE ~pending
    BY <1>2, <2>2 DEF FinishDecode, TypeOK, Parsed, InCode
  <2> QED BY <2>1, <2>2
<1>3. CASE CheckJumps
  <2>1. CASE BadJumps # {}
    BY <1>3, <2>1, RejectType DEF CheckJumps, TypeOK, CatalogErrors
  <2>2. CASE BadJumps = {}
    BY <1>3, <2>2 DEF CheckJumps, TypeOK, Parsed, InCode, BadJumps
  <2> QED BY <2>1, <2>2
<1>4. CASE BeginEntry
  <2>1. Head(todo) \in Nat /\ Tail(todo) \in Seq(Nat)
    BY <1>4, HeadTailProperties DEF BeginEntry, TypeOK
  <2>2. CASE Head(todo) \in boundary
    <3> DEFINE e == HeapEntry(EntryState(Head(todo)), 0, tickets)
    <3>1. e \in Entry /\ e.pc \in boundary
      <4>1. EntryState(Head(todo)) \in AbstractState /\ tickets \in Nat
        BY <2>1 DEF EntryState, AbstractState, TypeOK
      <4>2. EntryState(Head(todo)).pc = Head(todo)
        BY DEF EntryState
      <4> QED BY <4>1, <4>2, <2>2, EntryTypes
    <3>2. TypeOK'
      <4> HIDE DEF e
      <4>1. heap' = {e} /\ tickets' = tickets + 1 /\ todo' = Tail(todo)
        BY <1>4, <2>2 DEF BeginEntry, e
      <4> QED BY <1>4, <2>1, <2>2, <3>1, <4>1 DEF BeginEntry, TypeOK
    <3>3. Parsed'
      BY <1>4, <2>2 DEF BeginEntry, Parsed, BadJumps
    <3>4. InCode'
      BY <1>4, <2>2, <3>1 DEF BeginEntry, InCode
    <3> QED BY <3>2, <3>3, <3>4
  <2>3. CASE Head(todo) \notin boundary
    BY <1>4, <2>3, RejectType DEF BeginEntry, TypeOK, CatalogErrors
  <2> QED BY <2>2, <2>3
<1>5. CASE Accept
  BY <1>5 DEF Accept, TypeOK, Parsed, InCode, BadJumps
<1>6. CASE PopState
  <2>1. PICK e \in Minima(heap) : cursor' = e /\ heap' = heap \ {e} /\ peek' \in Peeks(heap')
    BY <1>6 DEF PopState
  <2>2. e \in heap /\ heap' \subseteq heap /\ peek' \in heap \cup {NoState}
    BY <2>1, PeekMembers
  <2> QED BY <1>6, <2>1, <2>2 DEF PopState, TypeOK, Parsed, InCode, BadJumps
<1>7. CASE MergePeeked
  <2>1. cursor \in Entry /\ peek \in Entry
    BY <1>7 DEF MergePeeked, Meets, TypeOK
  <2>2. Merged \in Entry /\ Merged.pc = cursor.pc /\ cursor' = Merged
    BY <1>7, <2>1 DEF MergePeeked, Merged, Lesser, Entry
  <2>3. PICK e \in Peeks(heap) :
          /\ heap' = heap \ {e} /\ peek' \in Peeks(heap')
          /\ dropped' = dropped \cup (IF e \in {peek, NoState} THEN {} ELSE {StateOf(e)})
    BY <1>7 DEF MergePeeked
  <2>4. e \in heap \cup {NoState} /\ heap' \subseteq heap /\ peek' \in heap \cup {NoState}
    BY <2>3, PeekMembers
  <2>5. dropped' \subseteq AbstractState
    BY <2>3, <2>4, EntryTypes DEF TypeOK
  <2>6. TypeOK'
    BY <1>7, <2>2, <2>4, <2>5 DEF MergePeeked, TypeOK
  <2>7. Parsed'
    BY <1>7 DEF MergePeeked, Parsed, BadJumps
  <2>8. InCode'
    BY <1>7, <2>2, <2>4 DEF MergePeeked, InCode
  <2> QED BY <2>6, <2>7, <2>8
<1>8. CASE RejectState
  BY <1>8, RejectType, FaultNames DEF RejectState, TypeOK
<1>9. CASE ExecuteHalt
  BY <1>9, ProceedsType DEF ExecuteHalt, TypeOK, InCode
<1>10. CASE ExecuteLinear
  <2>1. NextPc(catalog.code, cursor.pc) \in Targets(catalog.code, cursor.pc)
    BY <1>10 DEF ExecuteLinear, Proceeds, AtOp, Linear, Jumps, Targets
  <2>2. cursor' \in Entry /\ cursor'.pc \in boundary
    BY <1>10, <2>1, MoveType, CursorTypes DEF ExecuteLinear, Proceeds, MoveTo, Entry
  <2> QED BY <1>10, <2>2, ProceedsType DEF ExecuteLinear, TypeOK, InCode
<1>11. CASE ExecuteJump
  <2>1. JumpTarget(catalog.code, cursor.pc) \in Targets(catalog.code, cursor.pc)
    BY <1>11 DEF ExecuteJump, Proceeds, AtOp, JumpOnly, Stop, Targets
  <2>2. cursor' \in Entry /\ cursor'.pc \in boundary
    BY <1>11, <2>1, MoveType, CursorTypes DEF ExecuteJump, Proceeds, MoveTo, Entry
  <2> QED BY <1>11, <2>2, ProceedsType DEF ExecuteJump, TypeOK, InCode
<1>12. CASE ExecuteConditional
  <2>1. /\ NextPc(catalog.code, cursor.pc) \in Targets(catalog.code, cursor.pc)
        /\ JumpTarget(catalog.code, cursor.pc) \in Targets(catalog.code, cursor.pc)
    BY <1>12 DEF ExecuteConditional, Proceeds, AtOp, JumpOnly, Conditional, Stop, Targets
  <2>2. cursor' \in Entry /\ cursor'.pc \in boundary
    BY <1>12, <2>1, MoveType, CursorTypes DEF ExecuteConditional, Proceeds, MoveTo, Entry
  <2>3. LET e == HeapEntry(After(catalog.code, Here, JumpTarget(catalog.code, cursor.pc)),
                           NewCycle, tickets)
        IN  e \in Entry /\ e.pc \in boundary
    BY <1>12, <2>1, MoveType DEF ExecuteConditional, Proceeds, TypeOK
  <2> QED BY <1>12, <2>2, <2>3, ProceedsType DEF ExecuteConditional, TypeOK, InCode
<1>13. CASE UNCHANGED vars
  BY <1>13 DEF vars, TypeOK, Parsed, InCode, BadJumps
<1> QED
  BY <1>1, <1>2, <1>3, <1>4, <1>5, <1>6, <1>7, <1>8, <1>9, <1>10, <1>11, <1>12, <1>13 DEF Next

\* Catalog::from_bytes keeps its data well-typed: no abstract stack depth, slot
\* count or selection depth goes below zero, and no pc leaves the code.
THEOREM TypeCorrect == Spec => []TypeOK
<1>1. TypeInv => TypeOK
  BY DEF TypeInv
<1> QED BY <1>1, TypeInit, TypeStep, PTL DEF Spec

-----------------------------------------------------------------------------
(* Coverage. *)

\* The states pass 3 has executed, or is going to.
Known == seen \cup {StateOf(e) : e \in heap}
              \cup (IF cursor = NoState THEN {} ELSE {StateOf(cursor)})

Covered(s) == \E c \in Known : Covers(c, s)

\* The entries still to do are the last ones, and nothing remains on acceptance.
Progress ==
    /\ pass # "done" => verdict = "None"
    /\ verdict = "Accepted" => todo = <<>> /\ heap = {} /\ cursor = NoState
    /\ Len(todo) <= Len(catalog.entries)
    /\ \A m \in 1..Len(todo) :
          todo[m] = catalog.entries[Len(catalog.entries) - Len(todo) + m]
    /\ \A s \in seen : s.pc \in DOMAIN catalog.code /\ catalog.code[s.pc] \in Instruction

Begun == 1..(Len(catalog.entries) - Len(todo))

\* Known states cover the entries begun, and what follows an executed state.
Closed ==
    /\ \A m \in Begun : Covered(EntryState(catalog.entries[m]))
    /\ \A s \in seen :
         /\ Fault(catalog.code, catalog.len, s) = "None"
         /\ \A t \in Successors(catalog.code, s) : Covered(t)

CoverInv == Progress /\ (dropped = {} /\ verdict \in {"None", "Accepted"} => Closed)

-----------------------------------------------------------------------------
\* What pass 3 knows of are abstract states.
LEMMA KnownType == TypeInv => Known \subseteq AbstractState
BY EntryTypes DEF TypeInv, TypeOK, Known

\* The states that follow an executed one are abstract states.
LEMMA StatesAfter ==
  ASSUME TypeInv, NEW s \in seen, catalog.code[s.pc] \in Instruction,
         Fault(catalog.code, catalog.len, s) = "None",
         NEW t \in Successors(catalog.code, s), Covered(t)
  PROVE  t \in AbstractState
<1>1. PICK pc \in Targets(catalog.code, s.pc) : t = After(catalog.code, s, pc)
  BY DEF Successors
<1>2. PICK c \in Known : Covers(c, t)
  BY DEF Covered
<1>3. pc = c.pc
  BY <1>1, <1>2 DEF Covers, After
<1>4. c \in AbstractState /\ s \in AbstractState
  BY KnownType DEF TypeInv, TypeOK
<1>5. pc \in Nat
  BY <1>3, <1>4 DEF AbstractState
<1> QED BY <1>1, <1>4, <1>5, AfterType

\* A step after which all that was known is covered loses no coverage.
LEMMA CoverageStays ==
  ASSUME TypeInv, TypeInv', \A k \in Known : \E c \in Known' : Covers(c, k),
         NEW s \in AbstractState, Covered(s)
  PROVE  Covered(s)'
<1>1. PICK k \in Known : Covers(k, s)
  BY DEF Covered
<1>2. PICK c \in Known' : Covers(c, k)
  BY <1>1
<1>3. k \in AbstractState /\ c \in AbstractState
  <2>1. Known \subseteq AbstractState /\ Known' \subseteq AbstractState
    BY EntryTypes DEF TypeInv, TypeOK, Known
  <2> QED BY <1>1, <1>2, <2>1
<1>4. Covers(c, s)
  BY <1>1, <1>2, <1>3, CoversTransitive
<1> QED BY <1>2, <1>4 DEF Covered

\* ... and neither does one after which all that was known still is.
LEMMA KnownStays ==
  ASSUME TypeInv, Known \subseteq Known'
  PROVE  \A k \in Known : \E c \in Known' : Covers(c, k)
BY KnownType, CoversReflexive

-----------------------------------------------------------------------------
(* CoverInv is inductive. *)

LEMMA CoverInit == Init => CoverInv
<1> SUFFICES ASSUME Init PROVE CoverInv
  OBVIOUS
<1>1. catalog.entries \in Seq(Nat) /\ todo = catalog.entries
  BY CatalogAssumption DEF Init
<1>2. /\ Len(catalog.entries) \in Nat
      /\ verdict = "None" /\ seen = {}
  BY <1>1 DEF Init
<1>3. Progress
  BY <1>1, <1>2 DEF Progress
<1>4. Closed
  BY <1>1, <1>2 DEF Closed, Begun
<1> QED BY <1>3, <1>4 DEF CoverInv

\* A refusal promises nothing.
LEMMA RejectCover ==
  ASSUME TypeInv, CoverInv, NEW error \in CatalogErrors, Reject(error),
         catalog' = catalog, todo' = todo, seen' = seen
  PROVE  CoverInv'
<1>1. error \notin {"None", "Accepted"}
  BY DEF CatalogErrors
<1> QED BY <1>1 DEF Reject, CoverInv, Progress

\* A step that executes nothing and begins nothing, and forgets no state unless it
\* says so in dropped.
LEMMA IdleCover ==
  ASSUME TypeInv, TypeInv', CoverInv,
         catalog' = catalog, todo' = todo, seen' = seen,
         pass' # "done" => verdict' = "None",
         verdict' = "Accepted" => todo = <<>> /\ heap' = {} /\ cursor' = NoState,
         dropped' = {} /\ verdict' \in {"None", "Accepted"} =>
            /\ dropped = {} /\ verdict \in {"None", "Accepted"}
            /\ \A k \in Known : \E c \in Known' : Covers(c, k)
  PROVE  CoverInv'
<1>1. Progress'
  BY DEF CoverInv, Progress
<1>2. ASSUME dropped' = {}, verdict' \in {"None", "Accepted"} PROVE Closed'
  <2>1. Closed /\ \A k \in Known : \E c \in Known' : Covers(c, k)
    BY <1>2 DEF CoverInv
  <2>2. ASSUME NEW m \in Begun' PROVE Covered(EntryState(catalog.entries[m]))'
    <3>1. m \in Begun /\ Covered(EntryState(catalog.entries[m]))
      BY <2>1, <2>2 DEF Closed, Begun
    <3>2. catalog.entries[m] \in Nat
      <4>1. catalog.entries \in Seq(Nat) /\ todo \in Seq(Nat)
        BY CodeType DEF TypeInv, TypeOK
      <4>2. m \in 1..Len(catalog.entries)
        BY <4>1, <3>1, LenProperties DEF Begun
      <4> QED BY <4>1, <4>2, ElementOfSeq
    <3>3. EntryState(catalog.entries[m]) \in AbstractState
      BY <3>2 DEF EntryState, AbstractState
    <3> QED BY <2>1, <3>1, <3>3, CoverageStays
  <2>3. ASSUME NEW s \in seen', NEW t \in Successors(catalog.code, s)' PROVE Covered(t)'
    <3>1. s \in seen /\ t \in Successors(catalog.code, s) /\ Covered(t)
      BY <2>1, <2>3 DEF Closed
    <3>2. t \in AbstractState
      BY <2>1, <3>1, StatesAfter DEF CoverInv, Progress, Closed
    <3> QED BY <2>1, <3>1, <3>2, CoverageStays
  <2>4. \A s \in seen' : Fault(catalog.code, catalog.len, s)' = "None"
    BY <2>1 DEF Closed
  <2> QED BY <2>2, <2>3, <2>4 DEF Closed
<1> QED BY <1>1, <1>2 DEF CoverInv

\* The first state of an entry covers the entry.
LEMMA BeginCover ==
  ASSUME TypeInv, TypeInv', CoverInv, BeginEntry
  PROVE  CoverInv'
<1> DEFINE first == EntryState(Head(todo))
           n == Len(catalog.entries) - Len(todo)
<1>1. CASE Head(todo) \notin boundary
  BY <1>1, RejectCover DEF BeginEntry, CatalogErrors
<1>2. CASE Head(todo) \in boundary
  <2>1. /\ heap = {} /\ cursor = NoState /\ cursor' = NoState /\ seen' = seen
        /\ heap' = {HeapEntry(first, 0, tickets)} /\ todo' = Tail(todo)
        /\ catalog' = catalog /\ verdict' = verdict /\ pass' = pass /\ dropped' = dropped
        /\ pass = "execute" /\ verdict = "None" /\ todo # <<>>
    BY <1>2 DEF BeginEntry, Idle, CoverInv, Progress
  <2>2. /\ todo \in Seq(Nat) /\ catalog.entries \in Seq(Nat) /\ Head(todo) \in Nat
        /\ Len(todo) \in Nat \ {0} /\ Len(catalog.entries) \in Nat
        /\ Tail(todo) \in Seq(Nat) /\ Len(Tail(todo)) = Len(todo) - 1
        /\ \A m \in 1..Len(Tail(todo)) : Tail(todo)[m] = todo[m + 1]
        /\ Head(todo) = todo[1]
    BY <2>1, CodeType DEF TypeInv, TypeOK
  <2>lengths. Len(todo) \in Nat /\ Len(catalog.entries) \in Nat
    BY <2>2
  <2>3. /\ first \in AbstractState
        /\ StateOf(HeapEntry(first, 0, tickets)) = first
    <3>1. first \in AbstractState
      BY <2>2 DEF EntryState, AbstractState
    <3> QED BY <3>1, EntryTypes DEF TypeInv, TypeOK
  <2>4. Head(todo) = catalog.entries[n + 1]
    <3>1. 1 \in 1..Len(todo)
      BY <2>2
    <3>2. todo[1] = catalog.entries[Len(catalog.entries) - Len(todo) + 1]
      BY <3>1 DEF CoverInv, Progress
    <3> QED BY <2>2, <3>2
  <2>5. Progress'
    <3>1. Len(todo') <= Len(catalog'.entries)
      BY <2>1, <2>2 DEF CoverInv, Progress
    <3>2. ASSUME NEW m \in 1..Len(todo')
          PROVE  todo'[m] = catalog'.entries[Len(catalog'.entries) - Len(todo') + m]
      <4>0. Len(todo') = Len(todo) - 1 /\ m \in Nat /\ m \in 1..(Len(todo) - 1)
        BY <2>1, <2>2, <3>2
      <4>1. m + 1 \in 1..Len(todo) /\ todo'[m] = todo[m + 1]
        BY <2>1, <2>2, <4>0
      <4>2. Len(catalog.entries) - Len(todo) + (m + 1) =
              Len(catalog.entries) - (Len(todo) - 1) + m
        <5>1. \A a, b, k \in Int : a - b + (k + 1) = a - (b - 1) + k
          OBVIOUS
        <5>2. Len(todo) \in Int /\ Len(catalog.entries) \in Int /\ m \in Int
          BY <2>lengths, <4>0
        <5> QED BY <5>1, <5>2, Zenon
      <4> QED BY <2>1, <4>0, <4>1, <4>2 DEF CoverInv, Progress
    <3> QED BY <2>1, <3>1, <3>2 DEF CoverInv, Progress
  <2>6. ASSUME dropped' = {}, verdict' \in {"None", "Accepted"} PROVE Closed'
    <3>1. Known' = Known \cup {first} /\ Closed
      BY <2>1, <2>3, <2>6 DEF Known, CoverInv
    <3>2. \A s : Covered(s) => Covered(s)'
      BY <3>1 DEF Covered
    <3>3. \E c \in Known' : Covers(c, first)
      BY <2>3, <3>1, CoversReflexive
    <3>4. ASSUME NEW m \in Begun' PROVE Covered(EntryState(catalog.entries[m]))'
      <4>1. Len(todo') = Len(todo) - 1
        BY <2>1, <2>2
      <4>2. m \in 1..(Len(catalog.entries) - (Len(todo) - 1))
        BY <2>1, <3>4, <4>1 DEF Begun
      <4>3. CASE m = n + 1
        BY <2>1, <2>4, <3>3, <4>3 DEF Covered
      <4>4. CASE m # n + 1
        <5>1. m \in Begun
          BY <2>lengths, <4>2, <4>4 DEF Begun
        <5> QED BY <2>1, <3>1, <3>2, <5>1 DEF Closed
      <4> QED BY <4>3, <4>4
    <3>5. ASSUME NEW s \in seen', NEW t \in Successors(catalog.code, s)' PROVE Covered(t)'
      BY <2>1, <3>1, <3>2 DEF Closed
    <3> QED BY <2>1, <3>1, <3>4, <3>5 DEF Closed
  <2> QED BY <2>5, <2>6 DEF CoverInv
<1> QED BY <1>1, <1>2

\* An executed state is covered by itself, and what follows it by the cursor and
\* the heap.
LEMMA ExecuteCover ==
  ASSUME TypeInv, TypeInv', CoverInv, NEW ops, Proceeds(ops),
         \A k \in Known : k \in Known',
         \A pc \in Targets(catalog.code, cursor.pc) : After(catalog.code, Here, pc) \in Known'
  PROVE  CoverInv'
<1>1. /\ catalog' = catalog /\ pass' = pass /\ todo' = todo /\ verdict' = verdict
      /\ dropped' = dropped /\ seen' = seen \cup {Here}
      /\ pass = "execute" /\ verdict = "None"
      /\ Executing /\ CursorFault = "None"
  BY DEF Proceeds, Executing, CoverInv, Progress
<1>2. /\ Here.pc = cursor.pc /\ catalog.code[cursor.pc] \in Instruction
      /\ cursor.pc \in DOMAIN catalog.code
      /\ Fault(catalog.code, catalog.len, Here) = "None"
  BY <1>1, CursorTypes, SuccessorTypes DEF TypeInv, TypeOK
<1>3. Progress'
  BY <1>1, <1>2 DEF CoverInv, Progress
<1>4. ASSUME dropped' = {}, verdict' \in {"None", "Accepted"} PROVE Closed'
  <2>1. Closed /\ \A s : Covered(s) => Covered(s)'
    BY <1>1, <1>4 DEF CoverInv, Covered
  <2>2. \A m \in Begun' : Covered(EntryState(catalog.entries[m]))'
    BY <1>1, <2>1 DEF Closed, Begun
  <2>3. ASSUME NEW s \in seen', NEW t \in Successors(catalog.code, s)' PROVE Covered(t)'
    <3>1. CASE s = Here
      <4>1. t \in Known'
        BY <1>1, <1>2, <2>3, <3>1 DEF Successors
      <4>2. t \in AbstractState
        BY <4>1, EntryTypes DEF TypeInv, TypeOK, Known
      <4> QED BY <4>1, <4>2, CoversReflexive DEF Covered
    <3>2. CASE s # Here
      BY <1>1, <2>1, <2>3, <3>2 DEF Closed
    <3> QED BY <3>1, <3>2
  <2>4. \A s \in seen' : Fault(catalog.code, catalog.len, s)' = "None"
    BY <1>1, <1>2, <2>1 DEF Closed
  <2> QED BY <2>2, <2>3, <2>4 DEF Closed
<1> QED BY <1>3, <1>4 DEF CoverInv

\* The merge: the cursor's new bounds cover the two states that met.
LEMMA MergeCover ==
  ASSUME TypeInv, TypeInv', CoverInv, MergePeeked
  PROVE  CoverInv'
<1>1. /\ catalog' = catalog /\ pass' = pass /\ todo' = todo /\ verdict' = verdict
      /\ seen' = seen /\ pass = "execute" /\ verdict = "None"
      /\ cursor # NoState /\ cursor' = Merged /\ Meets
  BY DEF MergePeeked, CoverInv, Progress
<1>2. PICK e \in Peeks(heap) :
        /\ heap' = heap \ {e}
        /\ dropped' = dropped \cup (IF e \in {peek, NoState} THEN {} ELSE {StateOf(e)})
  BY DEF MergePeeked
<1>3. cursor \in Entry /\ peek \in Entry /\ NoState \notin Entry
  BY <1>1, EntryTypes DEF TypeInv, TypeOK, Meets
<1>4. /\ Merged \in Entry
      /\ Covers(StateOf(Merged), StateOf(cursor)) /\ Covers(StateOf(Merged), StateOf(peek))
  <2>1. /\ cursor.depth \in Nat /\ peek.depth \in Nat
        /\ cursor.locals \in Nat /\ peek.locals \in Nat
        /\ peek.pc = cursor.pc /\ peek.sel = cursor.sel
    BY <1>1, <1>3 DEF Entry, Meets
  <2>2. /\ Merged \in Entry
        /\ Merged.pc = cursor.pc /\ Merged.sel = cursor.sel
        /\ Merged.depth = Lesser(cursor.depth, peek.depth)
        /\ Merged.locals = Lesser(cursor.locals, peek.locals)
    BY <1>3, <2>1 DEF Merged, Lesser, Entry
  <2>3. /\ Merged.depth <= cursor.depth /\ Merged.depth <= peek.depth
        /\ Merged.locals <= cursor.locals /\ Merged.locals <= peek.locals
    BY <2>1, <2>2 DEF Lesser
  <2> QED BY <2>1, <2>2, <2>3 DEF Covers, StateOf
<1>5. StateOf(Merged) \in Known'
  BY <1>1, <1>3, <1>4 DEF Known
<1>6. ASSUME dropped' = {}, NEW k \in Known PROVE \E c \in Known' : Covers(c, k)
  <2>1. e \in {peek, NoState}
    BY <1>2, <1>6
  <2>2. k \in seen \cup {StateOf(x) : x \in heap \ {e}}
          \/ k = StateOf(cursor) \/ (k = StateOf(peek))
    <3>1. NoState \notin heap
      BY <1>3 DEF TypeInv, TypeOK
    <3> QED BY <1>1, <1>6, <2>1, <3>1 DEF Known
  <2>3. CASE k \in seen \cup {StateOf(x) : x \in heap \ {e}}
    <3>1. k \in Known' /\ k \in AbstractState
      BY <1>1, <1>2, <1>6, <2>3, KnownType DEF Known
    <3> QED BY <3>1, CoversReflexive
  <2>4. CASE k = StateOf(cursor) \/ k = StateOf(peek)
    BY <1>4, <1>5, <2>4
  <2> QED BY <2>2, <2>3, <2>4
<1>7. dropped' = {} => dropped = {}
  BY <1>2
<1> QED BY <1>1, <1>6, <1>7, IdleCover

LEMMA CoverStep == TypeInv /\ TypeInv' /\ CoverInv /\ [Next]_vars => CoverInv'
<1> SUFFICES ASSUME TypeInv, TypeInv', CoverInv, [Next]_vars PROVE CoverInv'
  OBVIOUS
<1>1. ASSUME catalog' = catalog, todo' = todo, seen' = seen, heap' = heap, cursor' = cursor,
             dropped' = dropped, verdict' = verdict, pass # "done"
      PROVE  CoverInv'
  <2>1. Known' = Known
    BY <1>1 DEF Known
  <2>2. verdict = "None"
    BY <1>1 DEF CoverInv, Progress
  <2> QED BY <1>1, <2>1, <2>2, KnownStays, IdleCover
<1>2. CASE DecodeInstruction
  <2>1. CASE DecodeFault(scan) # "None"
    BY <1>2, <2>1, RejectCover, FaultNames DEF DecodeInstruction
  <2>2. CASE DecodeFault(scan) = "None"
    BY <1>1, <1>2, <2>2 DEF DecodeInstruction
  <2> QED BY <2>1, <2>2
<1>3. CASE FinishDecode
  <2>1. CASE pending
    BY <1>3, <2>1, RejectCover DEF FinishDecode, CatalogErrors
  <2>2. CASE ~pending
    BY <1>1, <1>3, <2>2 DEF FinishDecode
  <2> QED BY <2>1, <2>2
<1>4. CASE CheckJumps
  <2>1. CASE BadJumps # {}
    BY <1>4, <2>1, RejectCover DEF CheckJumps, CatalogErrors
  <2>2. CASE BadJumps = {}
    BY <1>1, <1>4, <2>2 DEF CheckJumps
  <2> QED BY <2>1, <2>2
<1>5. CASE Accept
  <2>1. /\ todo' = <<>> /\ heap' = {} /\ cursor' = NoState /\ todo = <<>>
        /\ catalog' = catalog /\ seen' = seen /\ dropped' = dropped
        /\ pass' = "done" /\ verdict = "None" /\ Known' = Known
    BY <1>5 DEF Accept, Idle, CoverInv, Progress, Known
  <2> QED BY <2>1, KnownStays, IdleCover
<1>6. CASE BeginEntry
  BY <1>6, BeginCover
<1>7. CASE PopState
  <2>1. PICK e \in Minima(heap) : cursor' = e /\ heap' = heap \ {e}
    BY <1>7 DEF PopState
  <2>2. e \in heap /\ e # NoState
    BY <2>1, PeekMembers, EntryTypes DEF TypeInv, TypeOK
  <2>3. Known \subseteq Known'
    BY <1>7, <2>1, <2>2 DEF PopState, Known
  <2>4. /\ catalog' = catalog /\ todo' = todo /\ seen' = seen /\ dropped' = dropped
        /\ verdict' = verdict /\ verdict = "None" /\ pass' = "execute"
    BY <1>7 DEF PopState, CoverInv, Progress
  <2> QED BY <2>3, <2>4, KnownStays, IdleCover
<1>8. CASE MergePeeked
  BY <1>8, MergeCover
<1>9. CASE RejectState
  BY <1>9, RejectCover, FaultNames DEF RejectState
<1>10. ASSUME NEW ops, Proceeds(ops), heap \subseteq heap',
              \A pc \in Targets(catalog.code, cursor.pc) :
                 After(catalog.code, Here, pc) \in Known'
       PROVE  CoverInv'
  <2>1. \A k \in Known : k \in Known'
    BY <1>10 DEF Proceeds, Known, Here
  <2> QED BY <1>10, <2>1, ExecuteCover
<1>11. CASE ExecuteHalt
  <2>1. Targets(catalog.code, cursor.pc) = {}
    BY <1>11 DEF ExecuteHalt, Proceeds, AtOp, JumpOnly, Conditional, Stop, Targets
  <2> QED BY <1>10, <1>11, <2>1 DEF ExecuteHalt
<1>12. ASSUME NEW ops, Proceeds(ops),
              NEW pc \in Targets(catalog.code, cursor.pc), MoveTo(pc)
       PROVE  After(catalog.code, Here, pc) \in Known'
  <2>1. cursor.ticket \in Nat
    BY <1>12, CursorTypes DEF Proceeds, Entry
  <2>2. cursor' \in Entry /\ StateOf(cursor') = After(catalog.code, Here, pc)
    BY <1>12, <2>1, MoveType DEF Proceeds, MoveTo
  <2> QED BY <2>2, EntryTypes DEF Known
<1>13. CASE ExecuteLinear
  <2>1. Targets(catalog.code, cursor.pc) = {NextPc(catalog.code, cursor.pc)}
    BY <1>13 DEF ExecuteLinear, Proceeds, AtOp, Linear, Jumps, Targets
  <2> QED BY <1>10, <1>12, <1>13, <2>1 DEF ExecuteLinear
<1>14. CASE ExecuteJump
  <2>1. Targets(catalog.code, cursor.pc) = {JumpTarget(catalog.code, cursor.pc)}
    BY <1>14 DEF ExecuteJump, Proceeds, AtOp, JumpOnly, Conditional, Stop, Targets
  <2> QED BY <1>10, <1>12, <1>14, <2>1 DEF ExecuteJump
<1>15. CASE ExecuteConditional
  <2>1. Targets(catalog.code, cursor.pc) =
          {JumpTarget(catalog.code, cursor.pc), NextPc(catalog.code, cursor.pc)}
    BY <1>15 DEF ExecuteConditional, Proceeds, AtOp, JumpOnly, Conditional, Stop, Targets
  <2>2. After(catalog.code, Here, JumpTarget(catalog.code, cursor.pc)) \in Known'
    <3> DEFINE e == HeapEntry(After(catalog.code, Here, JumpTarget(catalog.code, cursor.pc)),
                              NewCycle, tickets)
    <3>1. StateOf(e) = After(catalog.code, Here, JumpTarget(catalog.code, cursor.pc))
      BY <1>15, <2>1, MoveType DEF ExecuteConditional, Proceeds, TypeInv, TypeOK
    <3>2. e \in heap'
      BY <1>15 DEF ExecuteConditional
    <3> HIDE DEF e
    <3> QED BY <3>1, <3>2 DEF Known
  <2> QED BY <1>10, <1>12, <1>15, <2>1, <2>2 DEF ExecuteConditional
<1>16. CASE UNCHANGED vars
  BY <1>16 DEF vars, CoverInv, Progress, Closed, Begun, Covered, Known
<1> QED
  BY <1>2, <1>3, <1>4, <1>5, <1>6, <1>7, <1>8, <1>9, <1>11, <1>13, <1>14, <1>15, <1>16 DEF Next

\* When nothing remains to do, what is known is what was executed.
LEMMA CoverageOnAcceptance == TypeInv /\ CoverInv => AcceptedCoverage
<1> SUFFICES ASSUME TypeInv, CoverInv, verdict = "Accepted", dropped = {}
             PROVE  /\ \A m \in 1..Len(catalog.entries) :
                         \E c \in seen : Covers(c, EntryState(catalog.entries[m]))
                    /\ \A s \in seen :
                         /\ Fault(catalog.code, catalog.len, s) = "None"
                         /\ \A t \in Successors(catalog.code, s) : \E c \in seen : Covers(c, t)
  BY DEF AcceptedCoverage
<1>1. Known = seen /\ todo = <<>> /\ Closed
  BY DEF CoverInv, Progress, Known
<1>2. Begun = 1..Len(catalog.entries)
  <2>1. Len(catalog.entries) \in Nat /\ Len(todo) = 0
    BY <1>1, CodeType DEF TypeInv
  <2> QED BY <2>1 DEF Begun
<1> QED BY <1>1, <1>2 DEF Closed, Covered

\* An acceptance is final: from_bytes does nothing more.
LEMMA AcceptedIsFinal ==
  ASSUME CoverInv, Next, verdict = "Accepted"
  PROVE  FALSE
<1>1. pass = "done"
  BY DEF CoverInv, Progress
<1> QED
  BY <1>1 DEF Next, DecodeInstruction, FinishDecode, CheckJumps, BeginEntry, Idle, Accept,
     PopState, MergePeeked, RejectState, ExecuteHalt, ExecuteLinear, ExecuteJump,
     ExecuteConditional, Proceeds, Executing

\* A state that pass 3 covers has no fault, and neither have those that follow it.
LEMMA CoveredStep ==
  ASSUME TypeInv, CoverInv, verdict = "Accepted", dropped = {},
         NEW s \in AbstractState, NEW c \in seen, Covers(c, s)
  PROVE  /\ Fault(catalog.code, catalog.len, s) = "None"
         /\ \A t \in Successors(catalog.code, s) :
              t \in AbstractState /\ \E d \in seen : Covers(d, t)
<1>1. /\ c \in AbstractState /\ c.pc = s.pc
      /\ catalog.code[s.pc] \in Instruction
      /\ Fault(catalog.code, catalog.len, c) = "None"
  BY CoverageOnAcceptance DEF AcceptedCoverage, TypeInv, TypeOK, CoverInv, Progress, Covers
<1>2. Fault(catalog.code, catalog.len, s) = "None"
  BY <1>1, FaultMonotonic
<1>3. ASSUME NEW t \in Successors(catalog.code, s)
      PROVE  t \in AbstractState /\ \E d \in seen : Covers(d, t)
  <2>1. PICK pc \in Targets(catalog.code, s.pc) : t = After(catalog.code, s, pc)
    BY <1>3 DEF Successors
  <2>2. After(catalog.code, c, pc) \in Successors(catalog.code, c)
    BY <1>1, <2>1 DEF Successors
  <2>3. PICK d \in seen : Covers(d, After(catalog.code, c, pc))
    BY <2>2, CoverageOnAcceptance DEF AcceptedCoverage
  <2>4. d \in AbstractState /\ d.pc = pc
    BY <2>3 DEF TypeInv, TypeOK, Covers, After
  <2>5. pc \in Nat
    BY <2>4 DEF AbstractState
  <2>6. After(catalog.code, c, pc) \in AbstractState /\ t \in AbstractState
    BY <1>1, <1>2, <2>1, <2>5, AfterType
  <2>7. Covers(After(catalog.code, c, pc), t)
    BY <1>1, <2>1, AfterMonotonic
  <2>8. Covers(d, t)
    BY <2>3, <2>4, <2>6, <2>7, CoversTransitive
  <2> QED BY <2>6, <2>8
<1> QED BY <1>2, <1>3

-----------------------------------------------------------------------------
(* Ranks: a measure that grows along every path. *)

Executed == {s.pc : s \in seen}
Waiting  == heap \cup (IF cursor = NoState THEN {} ELSE {cursor})

\* A jump that does not go forward counts one cycle.
Gain(p, q) == IF q <= p THEN 1 ELSE 0

\* Pass 3 is going to execute the instruction at q in cycle n, or a later one.
Awaited(q, n) == \E e \in Waiting : e.pc = q /\ e.cycle >= n

\* K is the last cycle in which an instruction was executed.  The instructions that
\* follow it were executed that late too, or are going to be.
Ranks(K) ==
    /\ K \in [Nat -> Nat]
    /\ \A p \in Nat : p \notin Executed => K[p] = 0
    /\ \A p \in Executed : \A q \in Targets(catalog.code, p) :
          K[q] >= K[p] + Gain(p, q) \/ Awaited(q, K[p] + Gain(p, q))

Ranked == dropped = {} /\ verdict \in {"None", "Accepted"} => \E K : Ranks(K)

LEMMA WaitingType ==
  ASSUME TypeInv
  PROVE  /\ Executed \subseteq Nat
         /\ \A e \in Waiting : e.pc \in Nat /\ e.cycle \in Nat
<1>1. seen \subseteq AbstractState /\ heap \subseteq Entry /\ cursor \in Entry \cup {NoState}
  BY DEF TypeInv, TypeOK
<1>2. Executed \subseteq Nat
  BY <1>1 DEF Executed, AbstractState
<1>3. \A e \in Waiting : e \in Entry
  BY <1>1 DEF Waiting
<1> QED BY <1>2, <1>3 DEF Entry

LEMMA RankedInit == Init => Ranked
<1> SUFFICES ASSUME Init PROVE \E K : Ranks(K)
  BY DEF Ranked
<1> DEFINE K == [p \in Nat |-> 0]
<1>1. Executed = {}
  BY DEF Init, Executed
<1>2. Ranks(K)
  BY <1>1 DEF Ranks
<1> QED BY <1>2

\* A step that executes nothing keeps the ranks if whatever was awaited still is.
LEMMA RanksStay ==
  ASSUME TypeInv, TypeInv', catalog' = catalog, seen' = seen, NEW K, Ranks(K),
         \A e \in Waiting : \E f \in Waiting' : f.pc = e.pc /\ f.cycle >= e.cycle
  PROVE  Ranks(K)'
<1>1. Executed' = Executed
  BY DEF Executed
<1>2. ASSUME NEW q, NEW n \in Nat, Awaited(q, n) PROVE Awaited(q, n)'
  <2>1. PICK e \in Waiting : e.pc = q /\ e.cycle >= n
    BY <1>2 DEF Awaited
  <2>2. PICK f \in Waiting' : f.pc = e.pc /\ f.cycle >= e.cycle
    BY <2>1
  <2>3. e.cycle \in Nat
    BY <2>1, WaitingType
  <2>4. f.cycle \in Nat
    BY <2>2 DEF Waiting, TypeInv, TypeOK, Entry
  <2> QED BY <2>1, <2>2, <2>3, <2>4 DEF Awaited
<1>3. \A p \in Executed : \A q : K[p] + Gain(p, q) \in Nat
  BY WaitingType DEF Ranks, Gain
<1> QED BY <1>1, <1>2, <1>3 DEF Ranks

\* An instruction that is executed is awaited no more, the ones it leads to are.
LEMMA ExecutedRanks ==
  ASSUME TypeInv, NEW ops, Proceeds(ops), NEW K, Ranks(K),
         \A e \in Waiting : e # cursor => e \in Waiting',
         \A q \in Targets(catalog.code, cursor.pc) :
            \E e \in Waiting' : e.pc = q /\ e.cycle >= cursor.cycle + Gain(cursor.pc, q)
  PROVE  \E L : Ranks(L)'
<1> DEFINE c == cursor.pc
<1>0. PICK L : L = [K EXCEPT ![c] = IF K[c] >= cursor.cycle THEN K[c] ELSE cursor.cycle]
  OBVIOUS
<1>1. c \in Nat /\ cursor.cycle \in Nat /\ catalog' = catalog /\ Executed' = Executed \cup {c}
  <2>1. cursor \in Entry /\ Here.pc = c /\ seen' = seen \cup {Here} /\ catalog' = catalog
    BY CursorTypes DEF Proceeds
  <2> QED BY <2>1 DEF Entry, Executed
<1>2. L \in [Nat -> Nat] /\ L[c] >= cursor.cycle
  BY <1>0, <1>1 DEF Ranks
<1>3. \A p \in Nat : p # c => L[p] = K[p]
  BY <1>0, <1>1 DEF Ranks
<1>4. \A q : K[q] \in Nat => L[q] \in Nat /\ L[q] >= K[q]
  BY <1>0, <1>1 DEF Ranks
<1>5. ASSUME NEW q, NEW n \in Nat, K[q] >= n \/ Awaited(q, n)
      PROVE  L[q] >= n \/ Awaited(q, n)'
  <2>1. CASE K[q] >= n
    <3>1. CASE q = c
      BY <1>1, <1>4, <2>1, <3>1 DEF Ranks
    <3>2. CASE q # c
      BY <1>0, <2>1, <3>2 DEF Ranks
    <3> QED BY <3>1, <3>2
  <2>2. CASE Awaited(q, n)
    <3>1. PICK e \in Waiting : e.pc = q /\ e.cycle >= n
      BY <2>2 DEF Awaited
    <3>2. CASE e = cursor
      BY <1>1, <1>2, <3>1, <3>2
    <3>3. CASE e # cursor
      BY <3>1, <3>3 DEF Awaited
    <3> QED BY <3>2, <3>3
  <2> QED BY <1>5, <2>1, <2>2
<1>6. ASSUME NEW p \in Executed', NEW q \in Targets(catalog.code, p)
      PROVE  L[q] >= L[p] + Gain(p, q) \/ Awaited(q, L[p] + Gain(p, q))'
  <2>1. Executed \subseteq Nat /\ p \in Nat /\ Gain(p, q) \in Nat
    BY <1>1, WaitingType DEF Gain
  <2>2. CASE p \in Executed /\ L[p] = K[p]
    <3>1. K[p] + Gain(p, q) \in Nat
      BY <2>1 DEF Ranks
    <3> QED BY <1>5, <2>2, <3>1 DEF Ranks
  <2>3. CASE ~(p \in Executed /\ L[p] = K[p])
    <3>1. p = c
      BY <1>1, <1>3, <2>1, <2>3
    <3>2. L[c] = IF K[c] >= cursor.cycle THEN K[c] ELSE cursor.cycle
      BY <1>0, <1>1 DEF Ranks
    <3>3. L[p] = cursor.cycle
      BY <1>1, <2>3, <3>1, <3>2 DEF Ranks
    <3>4. \E e \in Waiting' : e.pc = q /\ e.cycle >= cursor.cycle + Gain(p, q)
      BY <3>1
    <3> QED BY <3>3, <3>4 DEF Awaited
  <2> QED BY <2>2, <2>3
<1>7. \A p \in Nat : p \notin Executed' => L[p] = 0
  BY <1>1, <1>3 DEF Ranks
<1>8. Ranks(L)'
  BY <1>1, <1>2, <1>6, <1>7 DEF Ranks
<1> QED BY <1>8

\* The cycle counter counts what Gain does.
LEMMA CycleGain ==
  ASSUME TypeInv, Executing, CursorFault = "None", NEW q \in Targets(catalog.code, cursor.pc)
  PROVE  NewCycle >= cursor.cycle + Gain(cursor.pc, q)
<1> DEFINE p == cursor.pc
           op == catalog.code[p].op
<1>1. /\ catalog.code[p] \in Instruction /\ p \in Nat /\ q \in Nat /\ cursor.cycle \in Nat
      /\ op \in Opcode
  <2>1. cursor \in Entry /\ catalog.code[p] \in Instruction
    BY CursorTypes
  <2>2. q \in Nat
    BY SuccessorTypes, CodeType DEF TypeInv
  <2> QED BY <2>1, <2>2 DEF Entry, Instruction
<1>2. NextPc(catalog.code, p) > p
  <2>1. Width(op) \in Nat /\ Width(op) > 0
    BY <1>1 DEF Opcode, Width, OneByte, FiveByte, NineByte, Calls, Markups
  <2> HIDE DEF p, op
  <2> QED BY <1>1, <2>1 DEF NextPc, op, p
<1>3. CASE q = NextPc(catalog.code, p)
  <2>1. ~(q <= p)
    BY <1>1, <1>2, <1>3
  <2> QED BY <1>1, <2>1 DEF NewCycle, Gain
<1>4. CASE q # NextPc(catalog.code, p)
  <2>1. op \in Jumps /\ q = JumpTarget(catalog.code, p)
    BY <1>4 DEF Targets, Jumps, Stop
  <2> QED BY <1>1, <2>1 DEF NewCycle, Gain, Backward, AtOp
<1> QED BY <1>3, <1>4

LEMMA RankedStep == TypeInv /\ TypeInv' /\ CoverInv /\ Ranked /\ [Next]_vars => Ranked'
<1> SUFFICES ASSUME TypeInv, TypeInv', CoverInv, Ranked, [Next]_vars,
                    dropped' = {}, verdict' \in {"None", "Accepted"}
             PROVE  \E K : Ranks(K)'
  BY DEF Ranked
<1>1. ASSUME dropped = {}, verdict \in {"None", "Accepted"}, catalog' = catalog, seen' = seen,
             \A e \in Waiting : \E f \in Waiting' : f.pc = e.pc /\ f.cycle >= e.cycle
      PROVE  \E K : Ranks(K)'
  BY <1>1, RanksStay DEF Ranked
<1>2. ASSUME UNCHANGED <<dropped, catalog, seen, heap, cursor>>, verdict \in {"None", "Accepted"}
      PROVE  \E K : Ranks(K)'
  <2>1. Waiting' = Waiting
    BY <1>2 DEF Waiting
  <2>2. \A e \in Waiting : e.cycle >= e.cycle
    BY WaitingType
  <2> QED BY <1>1, <1>2, <2>1, <2>2
<1>3. pass # "done" => verdict = "None"
  BY DEF CoverInv, Progress
<1>4. ASSUME NEW error, Reject(error), error \in CatalogErrors PROVE FALSE
  BY <1>4 DEF Reject, CatalogErrors
<1>5. CASE DecodeInstruction
  <2>1. CASE DecodeFault(scan) # "None"
    BY <1>4, <1>5, <2>1, FaultNames DEF DecodeInstruction
  <2>2. CASE DecodeFault(scan) = "None"
    BY <1>2, <1>3, <1>5, <2>2 DEF DecodeInstruction
  <2> QED BY <2>1, <2>2
<1>6. CASE FinishDecode
  BY <1>2, <1>3, <1>4, <1>6 DEF FinishDecode, CatalogErrors
<1>7. CASE CheckJumps
  BY <1>2, <1>3, <1>4, <1>7 DEF CheckJumps, CatalogErrors
<1>8. CASE BeginEntry
  <2>1. CASE Head(todo) \notin boundary
    BY <1>4, <1>8, <2>1 DEF BeginEntry, CatalogErrors
  <2>2. CASE Head(todo) \in boundary
    <3>1. Waiting = {}
      BY <1>8 DEF BeginEntry, Idle, Waiting
    <3> QED BY <1>1, <1>3, <1>8, <2>2, <3>1 DEF BeginEntry, Idle
  <2> QED BY <2>1, <2>2
<1>9. CASE Accept
  BY <1>2, <1>3, <1>9 DEF Accept, Idle
<1>10. CASE PopState
  <2>1. PICK e \in Minima(heap) : cursor' = e /\ heap' = heap \ {e}
    BY <1>10 DEF PopState
  <2>2. e \in Entry /\ cursor = NoState
    BY <1>10, <2>1, PeekMembers DEF PopState, TypeInv, TypeOK
  <2>3. Waiting = heap /\ Waiting' = heap
    BY <2>1, <2>2, PeekMembers, EntryTypes DEF Waiting
  <2>4. \A f \in Waiting : f.cycle >= f.cycle
    BY WaitingType
  <2> QED BY <1>1, <1>3, <1>10, <2>3, <2>4 DEF PopState
<1>11. CASE MergePeeked
  <2>1. PICK e \in Peeks(heap) :
          /\ heap' = heap \ {e}
          /\ dropped' = dropped \cup (IF e \in {peek, NoState} THEN {} ELSE {StateOf(e)})
    BY <1>11 DEF MergePeeked
  <2>2. e \in {peek, NoState} /\ dropped = {}
    BY <2>1
  <2>3. cursor \in Entry /\ peek \in Entry /\ NoState \notin Entry /\ cursor' = Merged
    BY <1>11, EntryTypes DEF MergePeeked, Meets, TypeInv, TypeOK
  <2>4. Merged.pc = cursor.pc /\ Merged.cycle = cursor.cycle /\ Merged # NoState
    <3>1. Merged.pc = cursor.pc /\ Merged.cycle = cursor.cycle /\ cursor.pc \in Nat
      BY <2>3 DEF Merged, Entry
    <3> QED BY <3>1 DEF NoState
  <2>5. Waiting' = (heap \ {e}) \cup {Merged} /\ Waiting = heap \cup {cursor}
    BY <2>1, <2>3, <2>4 DEF Waiting
  <2>6. peek.pc = cursor.pc /\ peek.cycle <= cursor.cycle
    BY <1>11 DEF MergePeeked, Meets
  <2>7. ASSUME NEW w \in Waiting PROVE \E f \in Waiting' : f.pc = w.pc /\ f.cycle >= w.cycle
    <3>1. w.cycle \in Nat /\ NoState \notin heap
      BY <2>3, WaitingType DEF TypeInv, TypeOK
    <3>2. CASE w = cursor \/ w = e
      <4>1. w.pc = cursor.pc /\ w.cycle <= cursor.cycle
        BY <2>2, <2>3, <2>5, <2>6, <2>7, <3>1, <3>2
      <4> QED BY <2>3, <2>4, <2>5, <4>1
    <3>3. CASE w # cursor /\ w # e
      BY <2>5, <3>1, <3>3
    <3> QED BY <3>2, <3>3
  <2> QED BY <1>1, <1>3, <1>11, <2>2, <2>7 DEF MergePeeked
<1>12. CASE RejectState
  <2>1. CursorFault \in CatalogErrors
    BY <1>12, FaultNames DEF RejectState
  <2> QED BY <1>4, <1>12, <2>1 DEF RejectState
<1>13. ASSUME NEW ops, Proceeds(ops), \A e \in Waiting : e # cursor => e \in Waiting',
              \A q \in Targets(catalog.code, cursor.pc) :
                 \E e \in Waiting' : e.pc = q /\ e.cycle = NewCycle
       PROVE  \E K : Ranks(K)'
  <2>1. PICK K : Ranks(K)
    BY <1>3, <1>13 DEF Proceeds, Executing, Ranked
  <2>2. \A q \in Targets(catalog.code, cursor.pc) :
           \E e \in Waiting' : e.pc = q /\ e.cycle >= cursor.cycle + Gain(cursor.pc, q)
    BY <1>13, CycleGain DEF Proceeds
  <2> QED BY <1>13, <2>1, <2>2, ExecutedRanks
<1>14. ASSUME NEW ops, Proceeds(ops), heap \subseteq heap'
       PROVE  \A e \in Waiting : e # cursor => e \in Waiting'
  BY <1>14 DEF Waiting
<1>15. ASSUME NEW ops, Proceeds(ops), NEW q \in Targets(catalog.code, cursor.pc), MoveTo(q)
       PROVE  \E e \in Waiting' : e.pc = q /\ e.cycle = NewCycle
  <2>1. cursor' = HeapEntry(After(catalog.code, Here, q), NewCycle, cursor.ticket)
    BY <1>15 DEF MoveTo
  <2>2. cursor'.pc = q /\ cursor'.cycle = NewCycle /\ q \in Nat
    BY <1>15, <2>1, SuccessorTypes, CodeType DEF HeapEntry, After, Proceeds, TypeInv
  <2>3. cursor' # NoState
    BY <2>2 DEF NoState
  <2> QED BY <2>2, <2>3 DEF Waiting
<1>16. CASE ExecuteHalt
  <2>1. Targets(catalog.code, cursor.pc) = {}
    BY <1>16 DEF ExecuteHalt, Proceeds, AtOp, JumpOnly, Conditional, Stop, Targets
  <2> QED BY <1>13, <1>14, <1>16, <2>1 DEF ExecuteHalt
<1>17. CASE ExecuteLinear
  <2>1. Targets(catalog.code, cursor.pc) = {NextPc(catalog.code, cursor.pc)}
    BY <1>17 DEF ExecuteLinear, Proceeds, AtOp, Linear, Jumps, Targets
  <2> QED BY <1>13, <1>14, <1>15, <1>17, <2>1 DEF ExecuteLinear
<1>18. CASE ExecuteJump
  <2>1. Targets(catalog.code, cursor.pc) = {JumpTarget(catalog.code, cursor.pc)}
    BY <1>18 DEF ExecuteJump, Proceeds, AtOp, JumpOnly, Conditional, Stop, Targets
  <2> QED BY <1>13, <1>14, <1>15, <1>18, <2>1 DEF ExecuteJump
<1>19. CASE ExecuteConditional
  <2> DEFINE to == JumpTarget(catalog.code, cursor.pc)
             e  == HeapEntry(After(catalog.code, Here, to), NewCycle, tickets)
  <2>1. Targets(catalog.code, cursor.pc) = {to, NextPc(catalog.code, cursor.pc)}
    BY <1>19 DEF ExecuteConditional, Proceeds, AtOp, JumpOnly, Conditional, Stop, Targets
  <2>2. e.pc = to /\ e.cycle = NewCycle
    BY DEF HeapEntry, After
  <2>3. heap' = heap \cup {e}
    BY <1>19 DEF ExecuteConditional
  <2>4. \E w \in Waiting' : w.pc = to /\ w.cycle = NewCycle
    <3> HIDE DEF e, to
    <3> QED BY <2>2, <2>3 DEF Waiting
  <2> QED BY <1>13, <1>14, <1>15, <1>19, <2>1, <2>3, <2>4 DEF ExecuteConditional
<1>20. CASE UNCHANGED vars
  BY <1>2, <1>20 DEF vars
<1> QED
  BY <1>5, <1>6, <1>7, <1>8, <1>9, <1>10, <1>11, <1>12, <1>16, <1>17, <1>18, <1>19, <1>20 DEF Next

-----------------------------------------------------------------------------
(* Paths. *)

\* A path is taken in an accepted catalog only, and what pass 3 executed covers it.
OnPath ==
    at # NoState =>
      /\ verdict = "Accepted"
      /\ dropped = {} => at \in AbstractState /\ \E c \in seen : Covers(c, at)

\* By cycle, then by pc.
Precedes(K, p, q) == K[p] < K[q] \/ (K[p] = K[q] /\ p < q)

\* Along the path the rank has grown at every step.
Ahead ==
    at # NoState /\ dropped = {} =>
      \E K : Ranks(K) /\ \A p \in visited : p \in Nat /\ Precedes(K, p, at.pc)

PathInv == TypeInv /\ CoverInv /\ Ranked /\ OnPath /\ Ahead

LEMMA PathInitial == PathInit => PathInv
BY TypeInit, CoverInit, RankedInit DEF PathInit, PathInv, OnPath, Ahead

\* On acceptance nothing is awaited, so an executed instruction precedes the next.
LEMMA NextRanksHigher ==
  ASSUME TypeInv, CoverInv, verdict = "Accepted", NEW K, Ranks(K),
         NEW p \in Executed, NEW q \in Targets(catalog.code, p) \cap Nat
  PROVE  Precedes(K, p, q)
<1>1. Waiting = {}
  BY DEF CoverInv, Progress, Waiting
<1>2. K[q] >= K[p] + Gain(p, q) /\ p \in Nat /\ q \in Nat /\ K[p] \in Nat /\ K[q] \in Nat
  BY <1>1, WaitingType DEF Ranks, Awaited
<1>3. CASE q <= p
  <2>1. K[q] >= K[p] + 1
    BY <1>2, <1>3 DEF Gain
  <2> QED BY <1>2, <2>1 DEF Precedes
<1>4. CASE ~(q <= p)
  BY <1>2, <1>4 DEF Gain, Precedes
<1> QED BY <1>3, <1>4

LEMMA PathStep == PathInv /\ [PathNext]_pathVars => PathInv'
<1> SUFFICES ASSUME PathInv, [PathNext]_pathVars PROVE PathInv'
  OBVIOUS
<1>1. [Next]_vars
  BY DEF PathNext, Load, Enter, Walk, Leave, pathVars
<1>2. TypeInv' /\ CoverInv' /\ Ranked'
  BY <1>1, TypeStep, CoverStep, RankedStep DEF PathInv
<1>3. CASE Load
  <2>1. at' = at /\ (at # NoState => FALSE)
    BY <1>3, AcceptedIsFinal DEF Load, PathInv, OnPath
  <2> QED BY <1>2, <2>1 DEF PathInv, OnPath, Ahead
<1>4. CASE Enter
  <2>1. PICK m \in 1..Len(catalog.entries) : at' = EntryState(catalog.entries[m])
    BY <1>4 DEF Enter
  <2>2. at' \in AbstractState
    <3>1. catalog.entries[m] \in Nat
      BY CodeType, ElementOfSeq DEF PathInv, TypeInv
    <3> QED BY <2>1, <3>1 DEF EntryState, AbstractState
  <2>3. verdict' = "Accepted" /\ seen' = seen /\ dropped' = dropped /\ verdict = "Accepted"
    BY <1>4 DEF Enter, vars
  <2>4. dropped = {} => \E c \in seen : Covers(c, at')
    BY <2>1, <2>3, CoverageOnAcceptance DEF AcceptedCoverage, PathInv
  <2>5. dropped' = {} => \E K : Ranks(K)' /\ \A p \in visited' : Precedes(K, p, at'.pc)
    BY <1>2, <1>4, <2>3 DEF Enter, Ranked
  <2>6. Ahead'
    BY <1>4, <2>5 DEF Ahead, Enter
  <2> QED BY <1>2, <2>2, <2>3, <2>4, <2>6 DEF PathInv, OnPath
<1>5. CASE Walk
  <2>1. /\ at # NoState /\ at' \in Successors(catalog.code, at)
        /\ seen' = seen /\ dropped' = dropped /\ verdict' = verdict
    BY <1>5 DEF Walk, vars
  <2>2. verdict' = "Accepted"
    BY <2>1 DEF PathInv, OnPath
  <2>3. dropped = {} => at' \in AbstractState /\ \E c \in seen : Covers(c, at')
    BY <2>1, <2>2, CoveredStep DEF PathInv, OnPath
  <2>4. ASSUME dropped' = {}
        PROVE  \E K : Ranks(K)' /\ \A p \in visited' : p \in Nat /\ Precedes(K, p, at'.pc)
    <3>1. PICK K : Ranks(K) /\ \A p \in visited : p \in Nat /\ Precedes(K, p, at.pc)
      BY <2>1, <2>4 DEF PathInv, Ahead
    <3>2. Ranks(K)'
      BY <1>5, <3>1 DEF Walk, vars, Ranks, Executed, Waiting, Awaited
    <3>3. /\ at'.pc \in Targets(catalog.code, at.pc) /\ at'.pc \in Nat /\ at.pc \in Nat
          /\ at.pc \in Executed
      <4>1. at \in AbstractState /\ at' \in AbstractState /\ \E c \in seen : c.pc = at.pc
        BY <2>1, <2>3, <2>4 DEF PathInv, OnPath, Covers
      <4> QED BY <2>1, <4>1 DEF Successors, After, AbstractState, Executed
    <3>4. Precedes(K, at.pc, at'.pc)
      BY <2>1, <2>2, <3>1, <3>3, NextRanksHigher DEF PathInv
    <3>5. \A p \in visited : Precedes(K, p, at'.pc)
      BY <3>1, <3>3, <3>4 DEF Precedes, Ranks
    <3> QED BY <1>5, <3>1, <3>2, <3>3, <3>4, <3>5 DEF Walk
  <2>5. Ahead'
    BY <2>4 DEF Ahead
  <2> QED BY <1>2, <2>1, <2>2, <2>3, <2>5 DEF PathInv, OnPath
<1>6. CASE Leave
  BY <1>2, <1>6 DEF Leave, PathInv, OnPath, Ahead
<1>7. CASE UNCHANGED pathVars
  <2>1. OnPath'
    BY <1>7 DEF pathVars, vars, PathInv, OnPath
  <2>2. Ahead'
    BY <1>7 DEF pathVars, vars, PathInv, Ahead, Ranks, Executed, Waiting, Awaited
  <2> QED BY <1>2, <2>1, <2>2 DEF PathInv
<1> QED BY <1>3, <1>4, <1>5, <1>6, <1>7 DEF PathNext

LEMMA PathInvariant == PathSpec => []PathInv
BY PathInitial, PathStep, PTL DEF PathSpec

\* What the two passes over the code and the merging worklist establish together,
\* for every catalog: the states executed include one for each entry and are
\* closed under execution, up to merging.
THEOREM Coverage == PathSpec => []AcceptedCoverage
<1>1. PathInv => AcceptedCoverage
  BY CoverageOnAcceptance DEF PathInv
<1> QED BY <1>1, PathInvariant, PTL

\* "Stack underflow on any reachable path is rejected at catalog load", and so are
\* unset slots, bad select sequences and running off the end of the code: for every
\* catalog, provided that the merge never dropped a state.
THEOREM PathsAreSafe == PathSpec => []CoveredPathsAreSafe
<1>1. PathInv => CoveredPathsAreSafe
  BY CoveredStep DEF PathInv, OnPath, CoveredPathsAreSafe, AcceptedPathsAreSafe
<1> QED BY <1>1, PathInvariant, PTL

\* Execution of accepted code ends, with unlimited fuel too: no path executes an
\* instruction twice, for every catalog on which the merge never dropped a state.
\* (verify() counts backward jumps and refuses a state that took too many.)
THEOREM PathsNeverRepeat == PathSpec => []CoveredPathsNeverRepeat
<1>1. PathInv => CoveredPathsNeverRepeat
  <2> SUFFICES ASSUME PathInv, dropped = {}, at # NoState, at.pc \in visited PROVE FALSE
    BY DEF CoveredPathsNeverRepeat
  <2>1. PICK K : Ranks(K) /\ at.pc \in Nat /\ Precedes(K, at.pc, at.pc)
    BY DEF PathInv, Ahead
  <2> QED BY <2>1 DEF Ranks, Precedes
<1> QED BY <1>1, PathInvariant, PTL

-----------------------------------------------------------------------------
(* Rejections.  The paths of each length first: they are defined by recursion *)
(* over the length.                                                           *)

LEMMA LeastNumber ==
  ASSUME NEW T \in SUBSET Nat, T # {}
  PROVE  \E k \in T : \A m \in T : k <= m
<1> DEFINE less == {p \in Nat \X Nat : p[1] < p[2]}
<1>1. less = OpToRel(<, Nat)
  BY DEF OpToRel
<1>2. IsWellFoundedOn(less, Nat)
  BY <1>1, NatLessThanWellFounded
<1>3. PICK k \in T : \A m \in T : <<m, k>> \notin less
  <2> HIDE DEF less
  <2> QED BY <1>2, WFMin
<1>4. ASSUME NEW m \in T PROVE k <= m
  <2>1. m < k => <<m, k>> \in less
    OBVIOUS
  <2> QED BY <1>3, <2>1
<1> QED BY <1>4

\* g computes the states at the end of the paths of up to n steps.
Computes(c, entry, g, n) ==
    /\ g[0] = {EntryState(entry)}
    /\ \A k \in 1..n : g[k] = Steps(c, g[k - 1])

LEMMA ComputedAlike ==
  ASSUME NEW c, NEW entry, NEW g, NEW h, NEW n \in Nat, NEW m \in Nat,
         Computes(c, entry, g, n), Computes(c, entry, h, m), n <= m
  PROVE  \A k \in 0..n : g[k] = h[k]
<1> SUFFICES ASSUME {k \in 0..n : g[k] # h[k]} # {} PROVE FALSE
  OBVIOUS
<1>1. PICK k \in 0..n : g[k] # h[k] /\ \A i \in 0..n : g[i] # h[i] => k <= i
  <2> DEFINE T == {k \in 0..n : g[k] # h[k]}
  <2>1. PICK k \in T : \A i \in T : k <= i
    <3>1. T \in SUBSET Nat /\ T # {}
      OBVIOUS
    <3> QED BY <3>1, LeastNumber
  <2> QED BY <2>1
<1>2. k # 0 /\ k \in 1..n /\ k \in 1..m
  BY <1>1 DEF Computes
<1>3. g[k - 1] = h[k - 1]
  BY <1>1, <1>2
<1> QED BY <1>1, <1>2, <1>3 DEF Computes

LEMMA Computable ==
  ASSUME NEW c, NEW entry, NEW n \in Nat
  PROVE  \E g : Computes(c, entry, g, n)
<1> DEFINE T == {k \in Nat : ~ \E g : Computes(c, entry, g, k)}
<1> SUFFICES ASSUME T # {} PROVE FALSE
  OBVIOUS
<1>1. PICK k \in T : \A m \in T : k <= m
  BY LeastNumber
<1>2. CASE k = 0
  <2>1. Computes(c, entry, [i \in {0} |-> {EntryState(entry)}], 0)
    BY DEF Computes
  <2> QED BY <1>1, <1>2, <2>1
<1>3. CASE k # 0
  <2>1. k - 1 \in Nat /\ k - 1 \notin T
    BY <1>1, <1>3
  <2>2. PICK g : Computes(c, entry, g, k - 1)
    BY <2>1
  <2>3. PICK h : h = [i \in 0..k |-> IF i = k THEN Steps(c, g[k - 1]) ELSE g[i]]
    OBVIOUS
  <2>4. h[0] = {EntryState(entry)}
    BY <1>3, <2>2, <2>3 DEF Computes
  <2>5. ASSUME NEW i \in 1..k PROVE h[i] = Steps(c, h[i - 1])
    <3>1. h[i - 1] = g[i - 1]
      BY <2>3
    <3>2. CASE i = k
      BY <2>3, <3>1, <3>2
    <3>3. CASE i # k
      <4>1. i \in 1..(k - 1)
        BY <1>1, <3>3
      <4> QED BY <2>2, <2>3, <3>1, <3>3, <4>1 DEF Computes
    <3> QED BY <3>2, <3>3
  <2>6. Computes(c, entry, h, k)
    BY <2>4, <2>5 DEF Computes
  <2> QED BY <1>1, <2>6
<1> QED BY <1>2, <1>3

\* The recursive definition defines what it says.
LEMMA PathStatesUnfold ==
  ASSUME NEW c, NEW entry
  PROVE  /\ PathStates(c, entry)[0] = {EntryState(entry)}
         /\ \A n \in Nat : PathStates(c, entry)[n + 1] = Steps(c, PathStates(c, entry)[n])
<1> DEFINE Body(f) == [n \in Nat |-> IF n = 0 THEN {EntryState(entry)} ELSE Steps(c, f[n - 1])]
           G(n)    == CHOOSE g : Computes(c, entry, g, n)
<1>1. PICK f : f = [n \in Nat |-> G(n)[n]]
  OBVIOUS
<1>2. \A n \in Nat : Computes(c, entry, G(n), n)
  BY Computable
<1>3. ASSUME NEW n \in Nat
      PROVE  f[n] = IF n = 0 THEN {EntryState(entry)} ELSE Steps(c, f[n - 1])
  <2>1. CASE n = 0
    BY <1>1, <1>2, <2>1 DEF Computes
  <2>2. CASE n # 0
    <3>1. n - 1 \in Nat /\ n - 1 <= n /\ n \in 1..n /\ n - 1 \in 0..(n - 1)
      BY <2>2
    <3>2. G(n)[n] = Steps(c, G(n)[n - 1])
      <4> HIDE DEF G
      <4> QED BY <1>2, <3>1 DEF Computes
    <3>3. G(n - 1)[n - 1] = G(n)[n - 1]
      <4> HIDE DEF G
      <4> QED BY <1>2, <3>1, ComputedAlike
    <3> HIDE DEF G
    <3> QED BY <1>1, <2>2, <3>1, <3>2, <3>3
  <2> QED BY <2>1, <2>2
<1>4. f = Body(f)
  <2> HIDE DEF G
  <2> QED BY <1>1, <1>3
<1>5. PathStates(c, entry) = CHOOSE g : g = Body(g)
  BY DEF PathStates
<1>6. PathStates(c, entry) = Body(PathStates(c, entry))
  <2> HIDE DEF Body
  <2> QED BY <1>4, <1>5
<1>7. \A n \in Nat : n + 1 \in Nat /\ n + 1 # 0 /\ (n + 1) - 1 = n
  OBVIOUS
<1> QED BY <1>6, <1>7

-----------------------------------------------------------------------------
(* How long a path is. *)

\* The instructions that lie before a pc, and the steps a path can take to get
\* there in some cycle: within a cycle it goes forward.
Preceding(c, p)   == {q \in Instructions(c) : q < p}
Bound(c, cycle, p) == cycle * Cardinality(Instructions(c)) + Cardinality(Preceding(c, p))

LEMMA InstructionsFinite ==
  ASSUME NEW c \in Catalogs
  PROVE  /\ Instructions(c) \subseteq Nat
         /\ IsFiniteSet(Instructions(c)) /\ Cardinality(Instructions(c)) \in Nat
         /\ \A p : IsFiniteSet(Preceding(c, p)) /\ Cardinality(Preceding(c, p)) \in Nat
<1>1. \A pc \in DOMAIN c.code : pc \in 0..(c.len - 1)
  BY CatalogAssumption
<1>2. c.len \in Nat
  BY CatalogAssumption
<1>3. Instructions(c) \in SUBSET (0..(c.len - 1))
  BY <1>1 DEF Instructions
<1>4. IsFiniteSet(0..(c.len - 1))
  BY <1>2, FS_Interval
<1>5. IsFiniteSet(Instructions(c))
  BY <1>3, <1>4, FS_Subset
<1>6. \A p : IsFiniteSet(Preceding(c, p))
  BY <1>5, FS_Subset DEF Preceding
<1> QED BY <1>3, <1>5, <1>6, FS_CardinalityType

\* An instruction itself is not among those before it.
LEMMA PrecedingGrows ==
  ASSUME NEW c \in Catalogs, NEW p \in Instructions(c)
  PROVE  /\ Cardinality(Preceding(c, p)) + 1 <= Cardinality(Instructions(c))
         /\ \A q \in Nat : q > p => Cardinality(Preceding(c, p)) + 1 <= Cardinality(Preceding(c, q))
<1>1. /\ p \in Nat /\ Instructions(c) \subseteq Nat /\ IsFiniteSet(Instructions(c))
      /\ \A q : IsFiniteSet(Preceding(c, q)) /\ Cardinality(Preceding(c, q)) \in Nat
  BY InstructionsFinite
<1>2. Cardinality(Preceding(c, p) \cup {p}) = Cardinality(Preceding(c, p)) + 1
  <2>1. p \notin Preceding(c, p)
    BY <1>1 DEF Preceding
  <2> QED BY <1>1, <2>1, FS_AddElement
<1>3. Preceding(c, p) \cup {p} \in SUBSET Instructions(c)
  BY DEF Preceding
<1>4. ASSUME NEW q \in Nat, q > p
      PROVE  Preceding(c, p) \cup {p} \in SUBSET Preceding(c, q)
  BY <1>1, <1>4 DEF Preceding
<1>5. ASSUME NEW T, IsFiniteSet(T), Preceding(c, p) \cup {p} \in SUBSET T
      PROVE  Cardinality(Preceding(c, p)) + 1 <= Cardinality(T)
  BY <1>2, <1>5, FS_Subset
<1> QED BY <1>1, <1>3, <1>4, <1>5

\* One more step is one more instruction, or one more cycle.
LEMMA BoundGrows ==
  ASSUME NEW c \in Catalogs, NEW p \in Instructions(c), NEW n \in Nat
  PROVE  /\ Bound(c, n, p) \in Nat
         /\ \A q \in Nat : q > p => Bound(c, n, p) + 1 <= Bound(c, n, q)
         /\ \A q \in Nat : Bound(c, n, p) + 1 <= Bound(c, n + 1, q)
         /\ \A m \in Nat : n <= m => Bound(c, n, p) <= Bound(c, m, p)
         /\ n <= MaxCycle => Bound(c, n, p) <= Longest(c)
<1> DEFINE all == Cardinality(Instructions(c))
           before(q) == Cardinality(Preceding(c, q))
<1>1. /\ all \in Nat /\ \A q : before(q) \in Nat
      /\ before(p) + 1 <= all /\ \A q \in Nat : q > p => before(p) + 1 <= before(q)
  BY InstructionsFinite, PrecedingGrows
<1>2. \A x \in Nat : x * all \in Nat /\ (x + 1) * all = x * all + all
  <2> HIDE DEF all
  <2> QED BY <1>1
<1>3. ASSUME NEW m \in Nat, n <= m PROVE n * all <= m * all
  <2>1. PICK d \in Nat : m = n + d
    <3>1. m - n \in Nat /\ m = n + (m - n)
      BY <1>3
    <3> QED BY <3>1
  <2>2. m * all = n * all + d * all
    <3> HIDE DEF all
    <3> QED BY <1>1, <2>1
  <2>3. d * all \in Nat
    BY <1>2
  <2> HIDE DEF all
  <2> QED BY <1>2, <2>2, <2>3
<1>4. n <= MaxCycle => n * all + all <= Longest(c)
  <2>1. Longest(c) = (MaxCycle + 1) * all
    <3>1. Longest(c) = all * (MaxCycle + 1)
      BY DEF Longest
    <3> HIDE DEF all
    <3> QED BY <1>1, <3>1, MaxCycleAssumption
  <2>2. Longest(c) = MaxCycle * all + all
    BY <1>2, <2>1, MaxCycleAssumption
  <2>3. MaxCycle * all \in Nat /\ n * all \in Nat
    BY <1>2, MaxCycleAssumption
  <2>4. n <= MaxCycle => n * all <= MaxCycle * all
    BY <1>3, MaxCycleAssumption
  <2> HIDE DEF all
  <2> QED BY <1>1, <2>2, <2>3, <2>4
<1>5. \A x, q : Bound(c, x, q) = x * all + before(q)
  BY DEF Bound
<1> HIDE DEF all, before
<1>6. n * all \in Nat /\ (n + 1) * all = n * all + all
  BY <1>2
<1>7. Bound(c, n, p) \in Nat
  BY <1>1, <1>5, <1>6
<1>8. ASSUME NEW q \in Nat, q > p PROVE Bound(c, n, p) + 1 <= Bound(c, n, q)
  BY <1>1, <1>5, <1>6, <1>8
<1>9. ASSUME NEW q \in Nat PROVE Bound(c, n, p) + 1 <= Bound(c, n + 1, q)
  BY <1>1, <1>5, <1>6
<1>10. ASSUME NEW m \in Nat, n <= m PROVE Bound(c, n, p) <= Bound(c, m, p)
  <2>1. m * all \in Nat /\ n * all <= m * all
    BY <1>2, <1>3, <1>10
  <2> QED BY <1>1, <1>5, <1>6, <2>1
<1>11. ASSUME n <= MaxCycle PROVE Bound(c, n, p) <= Longest(c)
  <2>1. n * all + all <= Longest(c) /\ Longest(c) \in Nat
    <3>1. Longest(c) = all * (MaxCycle + 1)
      BY DEF Longest, all
    <3> QED BY <1>1, <1>4, <1>11, <3>1, MaxCycleAssumption
  <2> QED BY <1>1, <1>5, <1>6, <2>1
<1> QED BY <1>7, <1>8, <1>9, <1>10, <1>11

\* If a path of some length exists, so do the shorter ones.
LEMMA ShorterPaths ==
  ASSUME NEW c, NEW entry, NEW n \in Nat, NEW k \in Nat, k <= n,
         PathStates(c, entry)[n] # {}
  PROVE  PathStates(c, entry)[k] # {}
<1> DEFINE T == {m \in Nat : k <= m /\ PathStates(c, entry)[m] # {}}
<1> SUFFICES ASSUME PathStates(c, entry)[k] = {} PROVE FALSE
  OBVIOUS
<1>1. PICK m \in T : \A i \in T : m <= i
  <2>1. T \in SUBSET Nat /\ n \in T
    OBVIOUS
  <2> QED BY <2>1, LeastNumber
<1>2. m - 1 \in Nat /\ k <= m - 1 /\ m - 1 \notin T
  BY <1>1
<1>3. PathStates(c, entry)[m - 1] = {}
  BY <1>2
<1>4. PathStates(c, entry)[(m - 1) + 1] = Steps(c, PathStates(c, entry)[m - 1])
  BY <1>2, PathStatesUnfold
<1>5. Steps(c, {}) = {}
  BY DEF Steps
<1> QED BY <1>1, <1>3, <1>4, <1>5

-----------------------------------------------------------------------------
(* What pass 3 holds is merged from paths of the code. *)

Ends(n) == UNION {PathStates(catalog, e)[n] : e \in Entries}

\* The ends of paths of n steps for which x stands.
Promised(x, n) == {s \in Ends(n) : s \in AbstractState /\ Covers(StateOf(x), s)}

\* The least depth and the least number of slots may be those of different paths,
\* and a third one may have taken the jumps that were counted.
Genuine(x) ==
    LET bound == Bound(catalog, x.cycle, x.pc) IN
    /\ x.cycle <= MaxCycle
    /\ \E n \in 0..bound : \E s \in Promised(x, n) : s.depth = x.depth
    /\ \E n \in 0..bound : \E s \in Promised(x, n) : s.locals = x.locals
    /\ \E n \in x.cycle..bound : Promised(x, n) # {}

Held == (heap \cup {cursor, peek}) \ {NoState}

Justified ==
    /\ \A x \in Held : Genuine(x)
    /\ ErrorIsOnAPath
    /\ verdict = "AmbiguouslyTerminatedEntry" /\ Cardinality(Instructions(catalog)) <= MaxCycle =>
         \E e \in Entries : Loops(catalog, e)

\* The pc of what pass 3 is about to execute is one of the instructions counted.
LEMMA CursorCounted ==
  ASSUME TypeInv, pass = "execute", NEW pc \in boundary
  PROVE  catalog \in Catalogs /\ pc \in Instructions(catalog)
BY DEF TypeInv, TypeOK, Parsed, Instructions

\* A path that ends where the cursor is goes on to each of its targets.
LEMMA PathGoesOn ==
  ASSUME TypeInv, Executing, CursorFault = "None", NEW q \in Targets(catalog.code, cursor.pc),
         NEW ticket \in Nat, NEW n \in Nat, NEW s \in Promised(cursor, n)
  PROVE  LET x == HeapEntry(After(catalog.code, Here, q), NewCycle, ticket)
             t == After(catalog.code, s, q)
         IN  /\ t \in Promised(x, n + 1)
             /\ s.depth = cursor.depth => t.depth = x.depth
             /\ s.locals = cursor.locals => t.locals = x.locals
<1> DEFINE x == HeapEntry(After(catalog.code, Here, q), NewCycle, ticket)
           t == After(catalog.code, s, q)
<1>1. /\ Here \in AbstractState /\ Here.pc = cursor.pc /\ Here = StateOf(cursor)
      /\ catalog.code[cursor.pc] \in Instruction
      /\ Fault(catalog.code, catalog.len, Here) = "None"
      /\ q \in Nat
  BY CursorTypes, SuccessorTypes, CodeType DEF TypeInv, Here
<1>2. s \in AbstractState /\ Covers(Here, s) /\ s.pc = cursor.pc /\ s \in Ends(n)
  BY <1>1 DEF Promised, Covers
<1>3. Fault(catalog.code, catalog.len, s) = "None"
  BY <1>1, <1>2, FaultMonotonic
<1>4. t \in AbstractState
  BY <1>1, <1>2, <1>3, AfterType
<1>5. Covers(After(catalog.code, Here, q), t)
  BY <1>1, <1>2, AfterMonotonic
<1>6. StateOf(x) = After(catalog.code, Here, q)
  BY CursorTypes, SuccessorTypes, EntryTypes
<1>7. t \in Ends(n + 1)
  <2>1. PICK e \in Entries : s \in PathStates(catalog, e)[n]
    BY <1>2 DEF Ends
  <2>2. t \in Steps(catalog, PathStates(catalog, e)[n])
    BY <1>2, <1>3, <2>1 DEF Steps, Successors
  <2>3. t \in PathStates(catalog, e)[n + 1]
    BY <2>2, PathStatesUnfold
  <2> QED BY <2>1, <2>3 DEF Ends
<1>8. s.depth = cursor.depth => t.depth = x.depth
  BY <1>1, <1>2 DEF After, HeapEntry, StateOf
<1>9. s.locals = cursor.locals => t.locals = x.locals
  BY <1>1, <1>2 DEF After, HeapEntry, StateOf
<1> HIDE DEF t, x
<1>10. t \in Promised(x, n + 1)
  BY <1>4, <1>5, <1>6, <1>7 DEF Promised
<1> QED BY <1>8, <1>9, <1>10 DEF t, x

LEMMA SuccessorGenuine ==
  ASSUME TypeInv, Executing, CursorFault = "None", NEW q \in Targets(catalog.code, cursor.pc),
         NEW ticket \in Nat, Genuine(cursor)
  PROVE  Genuine(HeapEntry(After(catalog.code, Here, q), NewCycle, ticket))
<1> DEFINE x == HeapEntry(After(catalog.code, Here, q), NewCycle, ticket)
           from == Bound(catalog, cursor.cycle, cursor.pc)
           to   == Bound(catalog, x.cycle, x.pc)
<1>1. x.cycle = NewCycle /\ x.pc = q
  BY DEF HeapEntry, After
<1>2. /\ catalog \in Catalogs /\ cursor.pc \in Instructions(catalog) /\ cursor.cycle \in Nat
      /\ q \in Nat /\ q \in Instructions(catalog) /\ cursor.pc \in Nat
  BY CursorTypes, SuccessorTypes, CursorCounted, CodeType DEF Executing, Entry, TypeInv
<1>3. NewCycle <= MaxCycle
  <2>1. NewCycle \in Nat /\ ~(NewCycle > MaxCycle)
    BY CursorTypes DEF CursorFault
  <2> QED BY <2>1, MaxCycleAssumption
<1>4. NewCycle = cursor.cycle \/ NewCycle = cursor.cycle + 1
  BY DEF NewCycle
<1>5. from \in Nat /\ to \in Nat /\ from + 1 <= to
  <2>1. NewCycle >= cursor.cycle + Gain(cursor.pc, q)
    BY CycleGain
  <2>2. CASE q <= cursor.pc
    <3>1. NewCycle = cursor.cycle + 1
      BY <1>2, <1>4, <2>1, <2>2 DEF Gain
    <3> QED BY <1>1, <1>2, <3>1, BoundGrows
  <2>3. CASE ~(q <= cursor.pc)
    <3>1. CASE NewCycle = cursor.cycle
      BY <1>1, <1>2, <2>3, <3>1, BoundGrows
    <3>2. CASE NewCycle = cursor.cycle + 1
      BY <1>1, <1>2, <3>2, BoundGrows
    <3> QED BY <1>4, <3>1, <3>2
  <2> QED BY <2>2, <2>3
<1>6. \A n \in Nat : \A s \in Promised(cursor, n) :
        \E t \in Promised(x, n + 1) :
           /\ s.depth = cursor.depth => t.depth = x.depth
           /\ s.locals = cursor.locals => t.locals = x.locals
  BY PathGoesOn
<1> HIDE DEF x, from, to
<1>7. \A n \in 0..from : n \in Nat /\ n + 1 \in 0..to
  BY <1>5
<1>8. \E n \in 0..to : \E s \in Promised(x, n) : s.depth = x.depth
  <2>1. PICK n \in 0..from : \E s \in Promised(cursor, n) : s.depth = cursor.depth
    BY DEF Genuine, from
  <2> QED BY <1>6, <1>7, <2>1
<1>9. \E n \in 0..to : \E s \in Promised(x, n) : s.locals = x.locals
  <2>1. PICK n \in 0..from : \E s \in Promised(cursor, n) : s.locals = cursor.locals
    BY DEF Genuine, from
  <2> QED BY <1>6, <1>7, <2>1
<1>10. \E n \in x.cycle..to : Promised(x, n) # {}
  <2>1. PICK n \in cursor.cycle..from : Promised(cursor, n) # {}
    BY DEF Genuine, from
  <2>2. n \in 0..from /\ n + 1 \in x.cycle..to
    BY <1>1, <1>2, <1>4, <1>5, <2>1
  <2> QED BY <1>6, <1>7, <2>1, <2>2
<1> QED BY <1>1, <1>3, <1>8, <1>9, <1>10 DEF Genuine, x, to

\* A merged state keeps a path of each of the two for each of its bounds.
LEMMA MergedGenuine ==
  ASSUME TypeInv, pass = "execute", cursor # NoState, Meets, Genuine(cursor), Genuine(peek)
  PROVE  Genuine(Merged)
<1> DEFINE bound == Bound(catalog, cursor.cycle, cursor.pc)
           small == Bound(catalog, peek.cycle, peek.pc)
<1>1. cursor \in Entry /\ peek \in Entry /\ cursor.pc \in Instructions(catalog) /\ catalog \in Catalogs
  BY CursorCounted DEF TypeInv, TypeOK, InCode, Meets
<1>2. /\ cursor.depth \in Nat /\ peek.depth \in Nat /\ cursor.cycle \in Nat /\ peek.cycle \in Nat
      /\ cursor.locals \in Nat /\ peek.locals \in Nat
      /\ peek.pc = cursor.pc /\ peek.sel = cursor.sel /\ peek.cycle <= cursor.cycle
  BY <1>1 DEF Entry, Meets
<1>3. /\ Merged.pc = cursor.pc /\ Merged.sel = cursor.sel /\ Merged.cycle = cursor.cycle
      /\ Merged.depth = Lesser(cursor.depth, peek.depth)
      /\ Merged.locals = Lesser(cursor.locals, peek.locals)
  BY <1>1 DEF Merged, Entry
<1>4. bound \in Nat /\ small \in Nat /\ small <= bound
  BY <1>1, <1>2, BoundGrows
<1>5. \A n : Promised(cursor, n) \subseteq Promised(Merged, n)
  <2>1. ASSUME NEW s \in AbstractState, Covers(StateOf(cursor), s)
        PROVE  Covers(StateOf(Merged), s)
    BY <1>2, <1>3, <2>1 DEF Covers, StateOf, Lesser, AbstractState
  <2> QED BY <2>1 DEF Promised
<1>6. \A n : Promised(peek, n) \subseteq Promised(Merged, n)
  <2>1. ASSUME NEW s \in AbstractState, Covers(StateOf(peek), s)
        PROVE  Covers(StateOf(Merged), s)
    BY <1>2, <1>3, <2>1 DEF Covers, StateOf, Lesser, AbstractState
  <2> QED BY <2>1 DEF Promised
<1>7. \A n \in 0..small : n \in 0..bound
  BY <1>4
<1>8. Merged.depth \in {cursor.depth, peek.depth} /\ Merged.locals \in {cursor.locals, peek.locals}
  BY <1>3 DEF Lesser
<1>9. Genuine(cursor) /\ Genuine(peek)
  OBVIOUS
<1> HIDE DEF bound, small
<1>10. \E n \in 0..bound : \E s \in Promised(Merged, n) : s.depth = Merged.depth
  BY <1>5, <1>6, <1>7, <1>8, <1>9 DEF Genuine, bound, small
<1>11. \E n \in 0..bound : \E s \in Promised(Merged, n) : s.locals = Merged.locals
  BY <1>5, <1>6, <1>7, <1>8, <1>9 DEF Genuine, bound, small
<1>12. \E n \in cursor.cycle..bound : Promised(Merged, n) # {}
  BY <1>5, <1>9 DEF Genuine, bound
<1> QED BY <1>3, <1>9, <1>10, <1>11, <1>12 DEF Genuine, bound

\* What is wrong with the cursor's bounds is wrong with one of the paths they are from.
LEMMA FaultIsOnAPath ==
  ASSUME TypeInv, Executing, Genuine(cursor)
  PROVE  \E e \in Entries : HasFault(catalog, e, Fault(catalog.code, catalog.len, Here))
<1> DEFINE bound == Bound(catalog, cursor.cycle, cursor.pc)
           i     == catalog.code[cursor.pc]
           F(s)  == Fault(catalog.code, catalog.len, s)
<1>1. /\ Here \in AbstractState /\ Here.pc = cursor.pc /\ i \in Instruction
      /\ Here.depth = cursor.depth /\ Here.locals = cursor.locals
  BY CursorTypes DEF Here, StateOf
<1>2. bound \in Nat /\ bound <= Longest(catalog)
  <2>1. cursor.pc \in Instructions(catalog) /\ catalog \in Catalogs /\ cursor.cycle \in Nat
    BY CursorTypes, CursorCounted DEF Executing, Entry
  <2> QED BY <2>1, BoundGrows DEF Genuine
<1>3. PICK n \in 0..bound : \E s \in Promised(cursor, n) : F(s) = F(Here)
  <2>1. ASSUME NEW n, NEW s \in Promised(cursor, n)
        PROVE  /\ s.pc = Here.pc /\ s.sel = Here.sel
               /\ s.depth \in Nat /\ s.locals \in Nat /\ s.locals >= Here.locals
    BY <2>1 DEF Promised, Covers, Here, AbstractState, StateOf
  <2>2. CASE LocalFault(i, Here.locals)
    <3>1. PICK n \in 0..bound : \E s \in Promised(cursor, n) : s.locals = cursor.locals
      BY DEF Genuine
    <3>2. PICK s \in Promised(cursor, n) : s.locals = Here.locals
      BY <1>1, <3>1
    <3>3. F(s) = F(Here)
      BY <1>1, <2>1, <2>2, <3>2 DEF Fault
    <3> QED BY <3>3
  <2>3. CASE ~LocalFault(i, Here.locals)
    <3>1. PICK n \in 0..bound : \E s \in Promised(cursor, n) : s.depth = cursor.depth
      BY DEF Genuine
    <3>2. PICK s \in Promised(cursor, n) : s.depth = Here.depth
      BY <1>1, <3>1
    <3>3. ~LocalFault(i, s.locals)
      BY <1>1, <2>1, <2>3, <3>2 DEF LocalFault, Instruction, AbstractState
    <3>4. F(s) = F(Here)
      BY <1>1, <2>1, <2>3, <3>2, <3>3 DEF Fault
    <3> QED BY <3>4
  <2> QED BY <2>2, <2>3
<1>4. n \in 0..Longest(catalog)
  <2>1. Longest(catalog) \in Int
    BY CursorTypes, CursorCounted, InstructionsFinite, MaxCycleAssumption DEF Longest, Executing
  <2> QED BY <1>2, <1>3, <2>1
<1>5. PICK s \in Promised(cursor, n) : F(s) = F(Here)
  BY <1>3
<1>6. PICK e \in Entries : s \in PathStates(catalog, e)[n]
  BY DEF Promised, Ends
<1> QED BY <1>4, <1>5, <1>6 DEF HasFault

\* A state in its last cycle is the end of a path of at least so many steps.
LEMMA LoopIsAPath ==
  ASSUME TypeInv, Executing, Genuine(cursor), CursorFault = "AmbiguouslyTerminatedEntry",
         Cardinality(Instructions(catalog)) <= MaxCycle
  PROVE  \E e \in Entries : Loops(catalog, e)
<1> DEFINE all == Cardinality(Instructions(catalog))
<1>1. all \in Nat /\ cursor.cycle \in Nat /\ NewCycle \in Nat
  BY CursorTypes, CursorCounted, InstructionsFinite DEF Executing, Entry
<1>2. NewCycle > MaxCycle
  BY DEF CursorFault, Fault
<1>3. cursor.cycle >= all
  BY <1>1, <1>2, MaxCycleAssumption DEF NewCycle
<1>4. PICK n \in cursor.cycle..Bound(catalog, cursor.cycle, cursor.pc) : Promised(cursor, n) # {}
  BY DEF Genuine
<1>5. PICK e \in Entries : PathStates(catalog, e)[n] # {}
  BY <1>4 DEF Promised, Ends
<1>6. n \in Nat /\ all <= n
  BY <1>1, <1>3, <1>4
<1>7. PathStates(catalog, e)[all] # {}
  BY <1>1, <1>5, <1>6, ShorterPaths
<1> QED BY <1>7 DEF Loops

LEMMA JustifiedInit == Init => Justified
BY DEF Init, Justified, Held, ErrorIsOnAPath, PathErrors

LEMMA JustifiedStep == TypeInv /\ TypeInv' /\ CoverInv /\ Justified /\ [Next]_vars => Justified'
<1> SUFFICES ASSUME TypeInv, TypeInv', CoverInv, Justified, [Next]_vars PROVE Justified'
  OBVIOUS
<1>1. ASSUME catalog' = catalog, NEW x, Genuine(x) PROVE Genuine(x)'
  BY <1>1 DEF Genuine, Promised, Ends, Entries
<1>2. ASSUME catalog' = catalog, verdict' \in {"None", "Accepted"},
             \A x \in Held' : x \in Held \/ Genuine(x)
      PROVE  Justified'
  <2>1. \A x \in Held' : Genuine(x)'
    BY <1>1, <1>2 DEF Justified
  <2> QED BY <1>2, <2>1 DEF Justified, ErrorIsOnAPath, PathErrors
<1>3. pass # "done" => verdict = "None"
  BY DEF CoverInv, Progress
<1>4. ASSUME UNCHANGED <<catalog, heap, cursor, peek>>, verdict' \in {"None", "Accepted"}
      PROVE  Justified'
  BY <1>2, <1>4 DEF Held
<1>5. ASSUME NEW error, Reject(error), error \notin PathErrors,
             error # "BadPc", error # "AmbiguouslyTerminatedEntry"
      PROVE  Justified'
  <2>1. Held' = {} /\ verdict' = error
    BY <1>5 DEF Reject, Held
  <2> QED BY <1>5, <2>1 DEF Justified, ErrorIsOnAPath
<1>6. CASE DecodeInstruction
  <2>1. CASE DecodeFault(scan) # "None"
    <3>1. /\ DecodeFault(scan) \notin PathErrors
          /\ DecodeFault(scan) # "BadPc" /\ DecodeFault(scan) # "AmbiguouslyTerminatedEntry"
      BY DEF DecodeFault, OperandFault, PathErrors
    <3> QED BY <1>5, <1>6, <2>1, <3>1 DEF DecodeInstruction
  <2>2. CASE DecodeFault(scan) = "None"
    BY <1>3, <1>4, <1>6, <2>2 DEF DecodeInstruction
  <2> QED BY <2>1, <2>2
<1>7. CASE FinishDecode
  BY <1>3, <1>4, <1>5, <1>7 DEF FinishDecode, PathErrors
<1>8. CASE CheckJumps
  BY <1>3, <1>4, <1>5, <1>8 DEF CheckJumps, PathErrors
<1>9. CASE BeginEntry
  <2>1. PICK m \in 1..Len(catalog.entries) : Head(todo) = catalog.entries[m]
    <3>1. /\ todo \in Seq(Nat) /\ todo # <<>> /\ Len(todo) \in Nat /\ Len(todo) >= 1
          /\ Head(todo) = todo[1] /\ Len(catalog.entries) \in Nat
      BY <1>9, CodeType DEF BeginEntry, TypeInv, TypeOK
    <3>2. /\ Head(todo) = catalog.entries[Len(catalog.entries) - Len(todo) + 1]
          /\ Len(todo) <= Len(catalog.entries)
      BY <3>1 DEF CoverInv, Progress
    <3>3. Len(catalog.entries) - Len(todo) + 1 \in 1..Len(catalog.entries)
      BY <3>1, <3>2
    <3> QED BY <3>2, <3>3
  <2>2. Head(todo) \in Entries /\ Head(todo) \in Nat /\ pass = "execute" /\ catalog' = catalog
    <3>1. catalog.entries[m] \in Nat
      BY CodeType, ElementOfSeq DEF TypeInv
    <3> QED BY <1>9, <2>1, <3>1 DEF Entries, BeginEntry, Idle
  <2>3. CASE Head(todo) \notin boundary
    <3>1. Held' = {} /\ verdict' = "BadPc" /\ boundary' = boundary
      BY <1>9, <2>3 DEF BeginEntry, Reject, Held
    <3> QED BY <2>2, <2>3, <3>1 DEF Justified, ErrorIsOnAPath, PathErrors, Entries
  <2>4. CASE Head(todo) \in boundary
    <3> DEFINE first == EntryState(Head(todo))
               x == HeapEntry(first, 0, tickets)
    <3>1. /\ first \in AbstractState /\ first.pc = Head(todo)
          /\ x.pc = Head(todo) /\ x.cycle = 0 /\ StateOf(x) = first
          /\ x.depth = first.depth /\ x.locals = first.locals
      <4>1. first \in AbstractState
        BY <2>2 DEF EntryState, AbstractState
      <4> QED BY <4>1 DEF EntryState, HeapEntry, StateOf
    <3>2. first \in Ends(0)
      BY <2>2, PathStatesUnfold DEF Ends
    <3>3. first \in Promised(x, 0)
      BY <3>1, <3>2, CoversReflexive DEF Promised
    <3>4. Bound(catalog, 0, Head(todo)) \in Nat
      BY <2>2, <2>4, CursorCounted, BoundGrows
    <3>5. Genuine(x)
      <4> HIDE DEF x, first
      <4> QED BY <3>1, <3>3, <3>4, MaxCycleAssumption DEF Genuine
    <3>6. /\ heap' = {x} /\ cursor' = cursor /\ peek' = peek
          /\ verdict' = "None"
      BY <1>3, <1>9, <2>2, <2>4 DEF BeginEntry
    <3> HIDE DEF x
    <3>7. \A y \in Held' : y \in Held \/ y = x
      BY <3>6 DEF Held
    <3> QED BY <1>2, <2>2, <3>5, <3>6, <3>7
  <2> QED BY <2>3, <2>4
<1>10. CASE Accept
  BY <1>4, <1>10 DEF Accept
<1>11. CASE PopState
  <2>1. PICK e \in Minima(heap) : cursor' = e /\ heap' = heap \ {e} /\ peek' \in Peeks(heap')
    BY <1>11 DEF PopState
  <2>2. e \in heap /\ heap' \subseteq heap /\ peek' \in heap \cup {NoState}
    BY <2>1, PeekMembers
  <2>3. Held' \subseteq Held
    BY <2>1, <2>2 DEF Held
  <2> QED BY <1>2, <1>3, <1>11, <2>3 DEF PopState
<1>12. CASE MergePeeked
  <2>1. PICK e \in Peeks(heap) : heap' = heap \ {e} /\ peek' \in Peeks(heap')
    BY <1>12 DEF MergePeeked
  <2>2. heap' \subseteq heap /\ peek' \in heap \cup {NoState}
    BY <2>1, PeekMembers
  <2>3. Genuine(cursor) /\ Genuine(peek)
    BY <1>12 DEF MergePeeked, Meets, Justified, Held
  <2>4. Genuine(Merged)
    BY <1>12, <2>3, MergedGenuine DEF MergePeeked
  <2>5. \A x \in Held' : x \in Held \/ x = Merged
    BY <1>12, <2>2 DEF MergePeeked, Held
  <2> QED BY <1>2, <1>3, <1>12, <2>4, <2>5 DEF MergePeeked
<1>13. CASE RejectState
  <2>1. Executing /\ Genuine(cursor) /\ catalog' = catalog /\ verdict' = CursorFault
    BY <1>13 DEF RejectState, Executing, Justified, Held, Reject
  <2>2. Held' = {}
    BY <1>13 DEF RejectState, Reject, Held
  <2>3. CASE CursorFault \in PathErrors \/ CursorFault = "BadPc"
    <3>1. CursorFault = Fault(catalog.code, catalog.len, Here)
      BY <2>3 DEF CursorFault, PathErrors
    <3>2. \E e \in Entries : HasFault(catalog, e, CursorFault)
      BY <2>1, <3>1, FaultIsOnAPath
    <3>3. \E e \in Entries' : HasFault(catalog', e, verdict')
      BY <2>1, <3>2 DEF Entries
    <3> QED BY <2>1, <2>2, <2>3, <3>3 DEF Justified, ErrorIsOnAPath, PathErrors
  <2>4. CASE CursorFault = "AmbiguouslyTerminatedEntry"
    BY <2>1, <2>2, <2>4, LoopIsAPath DEF Justified, ErrorIsOnAPath, PathErrors, Entries
  <2>5. CASE CursorFault \notin PathErrors /\ CursorFault # "BadPc"
               /\ CursorFault # "AmbiguouslyTerminatedEntry"
    BY <1>5, <1>13, <2>5 DEF RejectState
  <2> QED BY <2>3, <2>4, <2>5
<1>14. ASSUME NEW ops, Proceeds(ops),
              \A x \in Held' :
                 \/ x \in Held
                 \/ \E q \in Targets(catalog.code, cursor.pc), ticket \in Nat :
                      x = HeapEntry(After(catalog.code, Here, q), NewCycle, ticket)
       PROVE  Justified'
  <2>1. Executing /\ CursorFault = "None" /\ catalog' = catalog /\ verdict' = "None"
    BY <1>3, <1>14 DEF Proceeds, Executing
  <2>2. Genuine(cursor)
    BY <2>1 DEF Executing, Justified, Held
  <2>3. \A x \in Held' : x \in Held \/ Genuine(x)
    BY <1>14, <2>1, <2>2, SuccessorGenuine
  <2> QED BY <1>2, <2>1, <2>3
<1>15. ASSUME NEW ops, Proceeds(ops) PROVE cursor.ticket \in Nat /\ tickets \in Nat
  BY <1>15, CursorTypes DEF Proceeds, Entry, TypeInv, TypeOK
<1>16. CASE ExecuteHalt
  <2>1. Held' \subseteq Held
    BY <1>16 DEF ExecuteHalt, Held
  <2> QED BY <1>14, <1>16, <2>1 DEF ExecuteHalt
<1>17. CASE ExecuteLinear
  <2>1. NextPc(catalog.code, cursor.pc) \in Targets(catalog.code, cursor.pc)
    BY <1>17 DEF ExecuteLinear, Proceeds, AtOp, Linear, Jumps, Targets
  <2> QED BY <1>14, <1>15, <1>17, <2>1 DEF ExecuteLinear, MoveTo, Held
<1>18. CASE ExecuteJump
  <2>1. JumpTarget(catalog.code, cursor.pc) \in Targets(catalog.code, cursor.pc)
    BY <1>18 DEF ExecuteJump, Proceeds, AtOp, JumpOnly, Stop, Targets
  <2> QED BY <1>14, <1>15, <1>18, <2>1 DEF ExecuteJump, MoveTo, Held
<1>19. CASE ExecuteConditional
  <2>1. /\ NextPc(catalog.code, cursor.pc) \in Targets(catalog.code, cursor.pc)
        /\ JumpTarget(catalog.code, cursor.pc) \in Targets(catalog.code, cursor.pc)
    BY <1>19 DEF ExecuteConditional, Proceeds, AtOp, JumpOnly, Conditional, Stop, Targets
  <2> QED BY <1>14, <1>15, <1>19, <2>1 DEF ExecuteConditional, MoveTo, Held
<1>20. CASE UNCHANGED vars
  <2>1. UNCHANGED <<catalog, verdict, boundary>> /\ Held' = Held
    BY <1>20 DEF vars, Held
  <2> QED BY <1>1, <2>1 DEF Justified, ErrorIsOnAPath, Entries
<1> QED
  BY <1>6, <1>7, <1>8, <1>9, <1>10, <1>11, <1>12, <1>13, <1>16, <1>17, <1>18, <1>19, <1>20 DEF Next

LEMMA JustifiedInvariant == PathSpec => [](TypeInv /\ CoverInv /\ Justified)
<1>1. PathInit => TypeInv /\ CoverInv /\ Justified
  BY TypeInit, CoverInit, JustifiedInit DEF PathInit
<1>2. TypeInv /\ CoverInv /\ Justified /\ [PathNext]_pathVars => (TypeInv /\ CoverInv /\ Justified)'
  <2> SUFFICES ASSUME TypeInv, CoverInv, Justified, [PathNext]_pathVars
               PROVE  (TypeInv /\ CoverInv /\ Justified)'
    OBVIOUS
  <2>1. [Next]_vars
    BY DEF PathNext, Load, Enter, Walk, Leave, pathVars
  <2> QED BY <2>1, TypeStep, CoverStep, JustifiedStep
<1> QED BY <1>1, <1>2, PTL DEF PathSpec

\* No catalog is refused for an error that none of its paths has: for every catalog,
\* the merged bounds pass 3 tests are the bounds of paths (verify(), the merge and the
\* checks of select depth, slots, stack and end of code).
THEOREM ErrorsAreOnPaths == PathSpec => []ErrorIsOnAPath
<1>1. Justified => ErrorIsOnAPath
  BY DEF Justified
<1> QED BY <1>1, JustifiedInvariant, PTL

\* A path can jump back more often than the counter admits and yet end, but not in
\* code of no more instructions than that (u16::MAX).
ShortCode == \A c \in Catalogs : Cardinality(Instructions(c)) <= MaxCycle

\* In catalogs of that size an entry is called ambiguously terminated only if it has a
\* path that repeats an instruction: no error of pass 3 comes of merging.
THEOREM NoFalseRejections == ShortCode => (PathSpec => []RejectionsAreJustified)
<1> SUFFICES ASSUME ShortCode PROVE PathSpec => []RejectionsAreJustified
  OBVIOUS
<1>1. TypeInv /\ Justified => RejectionsAreJustified
  BY DEF ShortCode, TypeInv, Parsed, Justified, RejectionsAreJustified
<1> QED BY <1>1, JustifiedInvariant, PTL
=============================================================================
