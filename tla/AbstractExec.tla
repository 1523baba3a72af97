---------------------------- MODULE AbstractExec ----------------------------
(***************************************************************************)
(* What the loader's third pass knows of one instruction: its effect on the *)
(* depth of the value stack, on the number of initialised local slots and  *)
(* on the depth of open selections (runtime/catalog.rs, stack_effect,      *)
(* update_select_depth and the body of AbstractExecutionVerifier::verify).  *)
(*                                                                         *)
(* An abstract state stands for every execution that is at its pc with at  *)
(* least that many values on the stack and that many initialised slots.    *)
(***************************************************************************)
EXTENDS Schema

CONSTANT MaxSelect   \* the largest select_depth: u8::MAX in the code
ASSUME MaxSelectAssumption == MaxSelect \in Nat

AbstractState == [pc : Nat, depth : Nat, locals : Nat, sel : Nat]

EntryState(entry) == [pc |-> entry, depth |-> 0, locals |-> 0, sel |-> 0]

-----------------------------------------------------------------------------
(* The value stack. *)

Pops(i) ==
    CASE i.op \in {"JmpIfFalse", "OutVal", "SelectBegin", "StoreLocal",
                   "ProjectSelect", "ResolveString"} -> 1
      [] i.op \in Calls   -> i.argc + 2 * i.optc
      [] i.op \in Markups -> 2 * i.optc
      [] OTHER            -> 0

Pushes(i) ==
    IF i.op \in {"PushConst", "LoadArg", "LoadOptionArg", "LoadLocal",
                 "ProjectSelect", "ResolveString"} \cup Calls
      THEN 1 ELSE 0

NewDepth(i, depth) == depth - Pops(i) + Pushes(i)

-----------------------------------------------------------------------------
(* Message-local slots: a dense prefix 0 .. locals-1 is initialised. *)

ReadsLocal == {"CheckSelector", "LoadLocal", "SelectLocal"}

LocalFault(i, locals) ==
    \/ i.op \in ReadsLocal    /\ i.id >= locals
    \/ i.op = "StoreLocal"    /\ i.id > locals

NewLocals(i, locals) ==
    IF i.op = "StoreLocal" /\ i.id = locals THEN locals + 1 ELSE locals

-----------------------------------------------------------------------------
(* Selections. *)

OpensSelect == {"SelectArg", "SelectStringArg", "SelectLocal", "SelectBegin"}

SelectFault(i, sel) ==
    \/ i.op \in OpensSelect /\ sel = MaxSelect
    \/ i.op \in {"CaseStr", "CaseDefault", "SelectEnd"} /\ sel = 0

NewSelect(i, sel) ==
    CASE i.op \in OpensSelect  -> sel + 1
      [] i.op = "SelectEnd"    -> sel - 1
      [] OTHER                 -> sel

-----------------------------------------------------------------------------
(* One instruction from an abstract state: the error verify() returns, in   *)
(* the order it looks for them, or "None" and the states that may follow.   *)

Unterminated(code, len, pc) ==
    code[pc].op \notin Stop \cup JumpOnly /\ NextPc(code, pc) >= len

\* Mutant: the depth of the stack is not compared with what is popped.
FaultWithoutDepth(code, len, s) ==
    LET i == code[s.pc] IN
    IF SelectFault(i, s.sel)               THEN "InvalidSelectSequence"
    ELSE IF LocalFault(i, s.locals)        THEN "InvalidLocalSlot"
    ELSE IF i.op \in Stop /\ s.sel # 0     THEN "InvalidSelectSequence"
    ELSE IF Unterminated(code, len, s.pc)  THEN "UnterminatedEntry"
    ELSE "None"

Fault(code, len, s) ==
    LET i == code[s.pc] IN
    IF SelectFault(i, s.sel)               THEN "InvalidSelectSequence"
    ELSE IF LocalFault(i, s.locals)        THEN "InvalidLocalSlot"
    ELSE IF s.depth < Pops(i)              THEN "BadPc"
    ELSE IF i.op \in Stop /\ s.sel # 0     THEN "InvalidSelectSequence"
    ELSE IF Unterminated(code, len, s.pc)  THEN "UnterminatedEntry"
    ELSE "None"

After(code, s, pc) ==
    LET i == code[s.pc] IN
    [pc     |-> pc,
     depth  |-> NewDepth(i, s.depth),
     locals |-> NewLocals(i, s.locals),
     sel    |-> NewSelect(i, s.sel)]

Targets(code, pc) ==
    LET op == code[pc].op IN
    CASE op \in Stop        -> {}
      [] op \in JumpOnly    -> {JumpTarget(code, pc)}
      [] op \in Conditional -> {JumpTarget(code, pc), NextPc(code, pc)}
      [] OTHER              -> {NextPc(code, pc)}

Successors(code, s) == {After(code, s, pc) : pc \in Targets(code, s.pc)}

\* c promises no more than s does: what is safe from c is safe from s.
Covers(c, s) ==
    /\ c.pc = s.pc
    /\ c.sel = s.sel
    /\ c.depth <= s.depth
    /\ c.locals <= s.locals
=============================================================================
