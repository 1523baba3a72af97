------------------------ MODULE CatalogRuntimeProofs ------------------------
(***************************************************************************)
(* The loader and the VM together, for every catalog: what the loader       *)
(* accepts is code the VM can rely on, and wherever an execution is, pass 3 *)
(* has been there with no more values and no more slots.  So the traps that *)
(* the VM has no other protection from do not occur.                        *)
(***************************************************************************)
EXTENDS CatalogRuntime, VerifierProofs, WellFoundedInduction

-----------------------------------------------------------------------------
(* Decoding: passes 1 and 2 read every instruction. *)

\* As long as no fault was found, all code before scan was read, an ExprFallback
\* is followed by its consumer or is the last one read, and jumps were looked at
\* once pass 2 is over.
Scanned ==
    verdict \in {"None", "Accepted"} =>
      /\ \A place \in DOMAIN catalog.code : place < scan => place \in boundary
      /\ \A place \in boundary : catalog.code[place].op \in Opcode
      /\ \A place \in boundary : catalog.code[place].op = "ExprFallback" =>
           LET next == NextPc(catalog.code, place)
           IN  \/ next \in boundary /\ catalog.code[next].op \in ClearsFallback
               \/ pending /\ next = scan
      /\ pass # "decode" => scan >= catalog.len /\ ~pending
      /\ pass \in {"execute", "done"} => BadJumps = {}

LEMMA ScannedInit == Init => Scanned
<1> SUFFICES ASSUME Init PROVE Scanned
  OBVIOUS
<1>1. \A place \in DOMAIN catalog.code : ~(place < 0)
  BY CatalogAssumption DEF Init
<1> QED BY <1>1 DEF Init, Scanned

\* A step that reads no instruction.
LEMMA ScannedStays ==
  ASSUME Scanned, UNCHANGED <<catalog, scan, pending, boundary>>,
         verdict' \in {"None", "Accepted"} => verdict \in {"None", "Accepted"},
         pass' # "decode" => pass # "decode" \/ (scan >= catalog.len /\ ~pending),
         pass' \in {"execute", "done"} => pass \in {"execute", "done"} \/ BadJumps = {}
  PROVE  Scanned'
BY DEF Scanned, BadJumps

\* A refusal.
LEMMA ScannedReject ==
  ASSUME NEW error \in CatalogErrors, Reject(error)
  PROVE  Scanned'
BY DEF Reject, CatalogErrors, Scanned

LEMMA ScannedDecode ==
  ASSUME TypeInv, CoverInv, Scanned, DecodeInstruction
  PROVE  Scanned'
<1>1. CASE DecodeFault(scan) # "None"
  BY <1>1, FaultNames, ScannedReject DEF DecodeInstruction
<1>2. CASE DecodeFault(scan) = "None"
  <2> DEFINE i == catalog.code[scan]
             next == NextPc(catalog.code, scan)
  <2>1. /\ boundary' = boundary \cup {scan} /\ scan' = next /\ catalog' = catalog
        /\ pending' = (i.op = "ExprFallback") /\ pass = "decode" /\ pass' = pass
        /\ verdict' = verdict /\ scan < catalog.len
    BY <1>2 DEF DecodeInstruction
  <2>2. /\ i.op \in Opcode /\ ~FallbackFault(i)
        /\ verdict = "None"
    BY <1>2, <2>1 DEF DecodeFault, CoverInv, Progress
  <2>3. scan \in DOMAIN catalog.code /\ DOMAIN catalog.code \subseteq Nat
    BY <2>1, CodeType DEF TypeInv, TypeOK, Parsed
  <2>4. \A later \in DOMAIN catalog.code : later > scan => later >= next
    BY <2>2, <2>3, CatalogAssumption DEF TypeInv, Parsed
  <2>5. next \in Nat
    BY <2>2, <2>3, CodeType DEF TypeInv
  <2>6. \A place \in DOMAIN catalog.code : place < next => place < scan \/ place = scan
    BY <2>3, <2>4, <2>5
  <2>7. \A place \in DOMAIN catalog'.code : place < scan' => place \in boundary'
    BY <2>1, <2>2, <2>6 DEF Scanned
  <2>8. pending => i.op \in ClearsFallback
    BY <2>2 DEF FallbackFault
  <2>9. ASSUME NEW place \in boundary', catalog.code[place].op = "ExprFallback"
        PROVE  LET then == NextPc(catalog.code, place)
               IN  \/ then \in boundary' /\ catalog.code[then].op \in ClearsFallback
                   \/ pending' /\ then = scan'
    <3>1. CASE place = scan
      BY <2>1, <2>9, <3>1
    <3>2. CASE place \in boundary
      BY <2>1, <2>2, <2>8, <2>9, <3>2 DEF Scanned
    <3> QED BY <2>1, <3>1, <3>2
  <2> QED BY <2>1, <2>2, <2>7, <2>9 DEF Scanned
<1> QED BY <1>1, <1>2

LEMMA ScannedStep == TypeInv /\ CoverInv /\ Scanned /\ [Next]_vars => Scanned'
<1> SUFFICES ASSUME TypeInv, CoverInv, Scanned, [Next]_vars PROVE Scanned'
  OBVIOUS
<1>1. CASE DecodeInstruction
  BY <1>1, ScannedDecode
<1>2. CASE FinishDecode
  <2>1. "InvalidExprFallbackSequence" \in CatalogErrors
    BY DEF CatalogErrors
  <2>2. CASE pending
    BY <1>2, <2>1, <2>2, ScannedReject DEF FinishDecode
  <2>3. CASE ~pending
    BY <1>2, <2>3, ScannedStays DEF FinishDecode
  <2> QED BY <2>2, <2>3
<1>3. CASE CheckJumps
  <2>1. "BadJump" \in CatalogErrors
    BY DEF CatalogErrors
  <2>2. CASE BadJumps # {}
    BY <1>3, <2>1, <2>2, ScannedReject DEF CheckJumps
  <2>3. CASE BadJumps = {}
    BY <1>3, <2>3, ScannedStays DEF CheckJumps
  <2> QED BY <2>2, <2>3
<1>4. CASE BeginEntry
  <2>1. "BadPc" \in CatalogErrors
    BY DEF CatalogErrors
  <2>2. CASE Head(todo) \in boundary
    BY <1>4, <2>2, ScannedStays DEF BeginEntry
  <2>3. CASE Head(todo) \notin boundary
    BY <1>4, <2>1, <2>3, ScannedReject DEF BeginEntry
  <2> QED BY <2>2, <2>3
<1>5. CASE Accept
  <2>1. verdict = "None" /\ pass = "execute"
    BY <1>5 DEF Accept, Idle, CoverInv, Progress
  <2> QED BY <1>5, <2>1, ScannedStays DEF Accept
<1>6. CASE RejectState
  BY <1>6, FaultNames, ScannedReject DEF RejectState
<1>7. CASE PopState \/ MergePeeked \/ ExecuteHalt \/ ExecuteLinear \/ ExecuteJump
             \/ ExecuteConditional
  BY <1>7, ScannedStays DEF PopState, MergePeeked, ExecuteHalt, ExecuteLinear, ExecuteJump,
     ExecuteConditional, Proceeds
<1>8. CASE UNCHANGED vars
  BY <1>8, ScannedStays DEF vars
<1> QED BY <1>1, <1>2, <1>3, <1>4, <1>5, <1>6, <1>7, <1>8 DEF Next

\* Loader and VM read the same schema.
LEMMA OneSchema ==
  /\ Runtime!Calls = Calls /\ Runtime!Markups = Markups /\ Runtime!Opcode = Opcode
  /\ Runtime!Jumps = Jumps /\ Runtime!Instruction = Instruction
  /\ Runtime!Consumers = ClearsFallback
  /\ \A code, place : /\ Runtime!NextPc(code, place) = NextPc(code, place)
                      /\ Runtime!JumpTarget(code, place) = JumpTarget(code, place)
<1>1. Runtime!Calls = Calls /\ Runtime!Markups = Markups /\ Runtime!OneByte = OneByte
  BY DEF Runtime!Calls, Calls, Runtime!Markups, Markups, Runtime!OneByte, OneByte
<1>2. Runtime!FiveByte = FiveByte /\ Runtime!NineByte = NineByte
  BY <1>1 DEF Runtime!FiveByte, FiveByte, Runtime!NineByte, NineByte
<1>3. Runtime!Opcode = Opcode /\ \A op : Runtime!Width(op) = Width(op)
  BY <1>1, <1>2 DEF Runtime!Opcode, Opcode, Runtime!Width, Width
<1>4. Runtime!Jumps = Jumps
  BY DEF Runtime!Jumps, Jumps, Runtime!JumpOnly, JumpOnly, Runtime!Conditional, Conditional
<1>5. Runtime!Instruction = Instruction
  BY <1>3 DEF Runtime!Instruction, Instruction, Runtime!Byte, Byte
<1>6. Runtime!Consumers = ClearsFallback
  BY <1>1 DEF Runtime!Consumers, ClearsFallback
<1>7. \A code, place : Runtime!NextPc(code, place) = NextPc(code, place)
  BY <1>3 DEF Runtime!NextPc, NextPc
<1>8. \A code, place : Runtime!JumpTarget(code, place) = JumpTarget(code, place)
  BY <1>7 DEF Runtime!JumpTarget, JumpTarget
<1> QED BY <1>1, <1>3, <1>4, <1>5, <1>6, <1>7, <1>8

\* An accepted catalog is one the VM can rely on.
LEMMA DecodedOnAcceptance ==
  ASSUME TypeInv, CoverInv, Scanned, verdict = "Accepted"
  PROVE  Runtime!Decoded(catalog)
<1>1. pass = "done"
  BY DEF CoverInv, Progress
<1>2. DOMAIN catalog.code = boundary
  <2>1. scan >= catalog.len /\ scan \in Nat /\ boundary \subseteq DOMAIN catalog.code
    BY <1>1 DEF Scanned, TypeInv, TypeOK
  <2>2. \A place \in DOMAIN catalog.code : place \in Nat /\ place < catalog.len /\ catalog.len \in Nat
    BY CodeType DEF TypeInv
  <2>3. \A place \in DOMAIN catalog.code : place < scan
    BY <2>1, <2>2
  <2> QED BY <2>1, <2>3 DEF Scanned
<1>3. BadJumps = {} /\ ~pending
  BY <1>1 DEF Scanned
<1>4. SUFFICES ASSUME NEW place \in DOMAIN catalog.code
               PROVE  /\ place \in Nat
                      /\ catalog.code[place] \in Instruction
                      /\ catalog.code[place].op \in Jumps =>
                           JumpTarget(catalog.code, place) \in DOMAIN catalog.code
                      /\ catalog.code[place].op = "ExprFallback" =>
                           /\ NextPc(catalog.code, place) \in DOMAIN catalog.code
                           /\ catalog.code[NextPc(catalog.code, place)].op \in ClearsFallback
  BY OneSchema DEF Runtime!Decoded
<1>5. catalog.code[place].op \in Opcode
  BY <1>2 DEF Scanned
<1>6. place \in Nat /\ catalog.code[place] \in Instruction
  BY <1>5, CodeType DEF TypeInv
<1>7. catalog.code[place].op \in Jumps => JumpTarget(catalog.code, place) \in DOMAIN catalog.code
  BY <1>2, <1>3 DEF BadJumps
<1>8. catalog.code[place].op = "ExprFallback" =>
        /\ NextPc(catalog.code, place) \in DOMAIN catalog.code
        /\ catalog.code[NextPc(catalog.code, place)].op \in ClearsFallback
  BY <1>2, <1>3 DEF Scanned
<1> QED BY <1>6, <1>7, <1>8

-----------------------------------------------------------------------------
(* Stacks and slots are sequences, of whatever values. *)

IsSequence(s) == \E S : s \in Seq(S)

LEMMA SequenceFacts ==
  ASSUME NEW s, IsSequence(s)
  PROVE  /\ Len(s) \in Nat
         /\ \A x : IsSequence(Append(s, x)) /\ Len(Append(s, x)) = Len(s) + 1
         /\ \A n \in Nat : n <= Len(s) => /\ IsSequence(SubSeq(s, 1, Len(s) - n))
                                          /\ Len(SubSeq(s, 1, Len(s) - n)) = Len(s) - n
         /\ \A i, x : IsSequence([s EXCEPT ![i] = x]) /\ Len([s EXCEPT ![i] = x]) = Len(s)
<1>1. PICK S : s \in Seq(S)
  BY DEF IsSequence
<1>2. Len(s) \in Nat /\ s = [n \in 1..Len(s) |-> s[n]]
  BY <1>1, LenProperties
<1>3. ASSUME NEW x PROVE IsSequence(Append(s, x)) /\ Len(Append(s, x)) = Len(s) + 1
  <2>1. s \in Seq(S \cup {x})
    BY <1>1
  <2> QED BY <2>1, AppendProperties DEF IsSequence
<1>4. ASSUME NEW n \in Nat, n <= Len(s)
      PROVE  /\ IsSequence(SubSeq(s, 1, Len(s) - n))
             /\ Len(SubSeq(s, 1, Len(s) - n)) = Len(s) - n
  <2>1. Len(s) - n \in Nat /\ Len(s) - n <= Len(s)
    BY <1>2, <1>4
  <2> QED BY <1>1, <2>1 DEF IsSequence
<1>5. ASSUME NEW i, NEW x
      PROVE  IsSequence([s EXCEPT ![i] = x]) /\ Len([s EXCEPT ![i] = x]) = Len(s)
  <2> DEFINE t == [s EXCEPT ![i] = x]
  <2>1. s \in [1..Len(s) -> S]
    BY <1>1, LenProperties
  <2>2. t \in [1..Len(s) -> S \cup {x}]
    BY <2>1
  <2>3. t \in Seq(S \cup {x})
    <3> HIDE DEF t
    <3> QED BY <1>2, <2>2, SeqDef
  <2>4. Len(t) = Len(s)
    BY <1>2, <2>2, <2>3, LenProperties
  <2> QED BY <2>3, <2>4 DEF IsSequence
<1> QED BY <1>2, <1>3, <1>4, <1>5

-----------------------------------------------------------------------------
(* The invariant. *)

Instr == catalog.code[pc]

SystemInv ==
    /\ TypeInv /\ CoverInv /\ Scanned
    /\ status \in {"idle", "running"} /\ direct \in BOOLEAN
    /\ IsSequence(stack) /\ IsSequence(locals)
    /\ status = "idle" => stack = <<>> /\ locals = <<>> /\ direct = FALSE
    /\ status = "running" => verdict = "Accepted"
    /\ verdict # "Accepted" => result = "None"
    /\ direct => Instr.op = "OutVal"
    /\ ExecutionIsCovered
    /\ LoadedNeverTraps

\* The execution, seen as pass 3 sees it, in a selection of depth sel.
Abstracted(sel) == [pc |-> pc, depth |-> Depth, locals |-> Len(locals), sel |-> sel]

LEMMA DepthType ==
  ASSUME SystemInv
  PROVE  Depth \in Nat /\ Len(stack) \in Nat /\ Len(locals) \in Nat
<1>1. Len(stack) \in Nat /\ Len(locals) \in Nat /\ direct \in BOOLEAN
  BY SequenceFacts DEF SystemInv
<1> QED BY <1>1 DEF Depth

\* Pass 3 has been where the execution is.
LEMMA Located ==
  ASSUME SystemInv, status = "running", dropped = {}
  PROVE  \E c \in seen : Abstracted(c.sel) \in AbstractState /\ Covers(c, Abstracted(c.sel))
<1>1. PICK c \in seen : c.pc = pc /\ c.depth <= Depth /\ c.locals <= Len(locals)
  BY DEF SystemInv, ExecutionIsCovered
<1>2. c \in AbstractState
  BY DEF SystemInv, TypeInv, TypeOK
<1>3. Abstracted(c.sel) \in AbstractState /\ Covers(c, Abstracted(c.sel))
  BY <1>1, <1>2, DepthType DEF Abstracted, AbstractState, Covers
<1> QED BY <1>3

\* So the instruction has the values and the slots that it wants, and one after it.
LEMMA Supplied ==
  ASSUME SystemInv, status = "running", dropped = {}
  PROVE  /\ pc \in DOMAIN catalog.code
         /\ Depth >= Pops(Instr)
         /\ ~LocalFault(Instr, Len(locals))
         /\ Instr.op \notin Stop \cup JumpOnly => NextPc(catalog.code, pc) \in DOMAIN catalog.code
<1>1. PICK c \in seen : Abstracted(c.sel) \in AbstractState /\ Covers(c, Abstracted(c.sel))
  BY Located
<1> DEFINE s == Abstracted(c.sel)
<1>2. s.pc = pc /\ s.depth = Depth /\ s.locals = Len(locals)
  BY DEF Abstracted
<1>3. Fault(catalog.code, catalog.len, s) = "None" /\ verdict = "Accepted"
  BY <1>1, CoveredStep DEF SystemInv
<1>4. catalog.code[pc] \in Instruction /\ c.pc = pc /\ c \in AbstractState
  BY <1>1, <1>2 DEF SystemInv, CoverInv, Progress, Covers, TypeInv, TypeOK
<1>5. /\ ~LocalFault(Instr, Len(locals)) /\ ~(Depth < Pops(Instr))
      /\ ~Unterminated(catalog.code, catalog.len, pc)
  <2> HIDE DEF s
  <2> QED BY <1>2, <1>3 DEF Fault, Instr
<1>6. pc \in DOMAIN catalog.code
  BY <1>1, <1>2 DEF SystemInv, CoverInv, Progress, Covers
<1>7. Instr.op \notin Stop \cup JumpOnly => NextPc(catalog.code, pc) \in DOMAIN catalog.code
  <2>1. NextPc(catalog.code, pc) \in Nat /\ catalog.len \in Nat
    BY <1>4, <1>6, CodeType DEF SystemInv, TypeInv, Instruction
  <2>2. \/ NextPc(catalog.code, pc) \in DOMAIN catalog.code
        \/ NextPc(catalog.code, pc) >= catalog.len
    BY <1>4, <1>6, CodeType DEF SystemInv, TypeInv, Instruction
  <2> QED BY <1>5, <2>1, <2>2 DEF Unterminated, Instr
<1>8. Depth >= Pops(Instr)
  BY <1>4, <1>5, DepthType, PopsType DEF Instr
<1> QED BY <1>5, <1>6, <1>7, <1>8

-----------------------------------------------------------------------------
(* Instructions that execute. *)

\* The instruction the VM is at, and what it takes from the stack: what pass 3
\* counts, but for an output that a call has written already.
LEMMA InstrType ==
  ASSUME SystemInv, Runtime!Running
  PROVE  /\ verdict = "Accepted"
         /\ Runtime!I = Instr /\ Instr \in Instruction
         /\ Instr.argc \in Nat /\ Instr.optc \in Nat /\ Instr.id \in Nat
         /\ Pops(Instr) \in Nat /\ Pushes(Instr) \in Nat
         /\ Runtime!Takes(Instr) = IF direct THEN 0 ELSE Pops(Instr)
         /\ Runtime!Next1 = NextPc(catalog.code, pc)
<1>1. verdict = "Accepted" /\ pc \in DOMAIN catalog.code
  BY DEF SystemInv, Runtime!Running
<1>2. Runtime!I = Instr /\ Runtime!Next1 = NextPc(catalog.code, pc)
  BY OneSchema DEF Runtime!I, Instr, Runtime!Next1
<1>3. Instr \in Instruction
  BY <1>1, DecodedOnAcceptance, OneSchema DEF SystemInv, Runtime!Decoded, Instr
<1>4. Instr.argc \in Nat /\ Instr.optc \in Nat /\ Instr.id \in Nat
  BY <1>3 DEF Instruction, Byte
<1>5. Pops(Instr) \in Nat /\ Pushes(Instr) \in Nat
  BY <1>3, PopsType
<1>6. Runtime!Takes(Instr) = IF direct THEN 0 ELSE Pops(Instr)
  <2>1. CASE direct
    BY <2>1, OneSchema DEF SystemInv, Runtime!Takes, Runtime!Uses, Calls, Markups
  <2>2. CASE ~direct
    BY <2>2, OneSchema DEF Runtime!Takes, Runtime!Uses, Pops, Calls, Markups
  <2> QED BY <2>1, <2>2
<1> QED BY <1>1, <1>2, <1>3, <1>4, <1>5, <1>6

Traps == {"StackUnderflow", "InvalidLocalSlot", "Decode"}

\* Of the option pairs with a fault there is a first one.
LEMMA FirstPairExists ==
  ASSUME SystemInv, Runtime!Running, Runtime!FaultyPairs(Instr) # {}
  PROVE  LET k == Runtime!FirstPair(Runtime!FaultyPairs(Instr))
         IN  k \in Runtime!FaultyPairs(Instr) /\ k \in Nat /\ k <= Instr.optc
<1> DEFINE less == {p \in Nat \X Nat : p[1] < p[2]}
           ks   == Runtime!FaultyPairs(Instr)
<1>1. less = OpToRel(<, Nat)
  BY DEF OpToRel
<1>2. IsWellFoundedOn(less, Nat)
  BY <1>1, NatLessThanWellFounded
<1>3. ks \subseteq 1..Instr.optc /\ Instr.optc \in Nat
  BY InstrType DEF Runtime!FaultyPairs
<1>4. PICK least \in ks : \A other \in ks : <<other, least>> \notin less
  <2> HIDE DEF less, ks
  <2>1. ks \subseteq Nat
    BY <1>3
  <2> QED BY <1>2, <2>1, WFMin DEF ks
<1>5. ASSUME NEW other \in ks PROVE least <= other
  <2>1. least \in Nat /\ other \in Nat
    BY <1>3, <1>4, <1>5
  <2>2. other < least => <<other, least>> \in less
    BY <2>1
  <2> QED BY <1>4, <1>5, <2>1, <2>2
<1>6. Runtime!FirstPair(ks) \in ks
  <2> HIDE DEF ks
  <2> QED BY <1>4, <1>5 DEF Runtime!FirstPair
<1> QED BY <1>3, <1>6

LEMMA NoTrap ==
  ASSUME SystemInv, Runtime!Running, dropped = {}
  PROVE  Runtime!ExecFault(Instr) \notin Traps
<1>1. status = "running"
  BY DEF Runtime!Running
<1>2. /\ Len(stack) >= Runtime!Takes(Instr)
      /\ ~direct => Len(stack) >= Pops(Instr)
  <2>1. CASE direct
    BY <2>1, InstrType, DepthType
  <2>2. CASE ~direct
    BY <1>1, <2>2, Supplied, InstrType, DepthType DEF Depth
  <2> QED BY <2>1, <2>2
<1>3. ~(Runtime!PeeksNext(Instr) /\ Runtime!Next1 \notin DOMAIN catalog.code)
  BY <1>1, Supplied, InstrType DEF Runtime!PeeksNext, Stop, JumpOnly
<1>4. ~(Instr.op \in {"LoadLocal", "CheckSelector", "SelectLocal"} /\ Instr.id >= Len(locals))
  BY <1>1, Supplied DEF LocalFault, ReadsLocal
<1>5. Instr.op \in Calls \cup Markups /\ Runtime!FaultyPairs(Instr) # {} =>
        Runtime!PairFault(Instr, Runtime!FirstPair(Runtime!FaultyPairs(Instr))) \notin Traps
  <2> SUFFICES ASSUME Instr.op \in Calls \cup Markups, Runtime!FaultyPairs(Instr) # {}
               PROVE  Runtime!PairFault(Instr, Runtime!FirstPair(Runtime!FaultyPairs(Instr)))
                        \notin Traps
    OBVIOUS
  <2> DEFINE ks == Runtime!FaultyPairs(Instr)
             k  == Runtime!FirstPair(ks)
  <2>4. k \in Nat /\ k <= Instr.optc
    BY FirstPairExists
  <2>5. ~direct
    BY DEF SystemInv, Calls, Markups
  <2>6. 2 * k <= Pops(Instr)
    BY <2>4, InstrType DEF Pops, Calls, Markups
  <2>7. ~(Len(stack) < 2 * k)
    BY <1>2, <2>4, <2>5, <2>6, InstrType, DepthType
  <2> HIDE DEF k
  <2> QED BY <2>7 DEF Runtime!PairFault, Runtime!KeyFault, Runtime!Depth, Traps, k
<1>6. ~(Runtime!Depth < Runtime!Takes(Instr))
  BY <1>2, InstrType, DepthType DEF Runtime!Depth
<1> QED
  BY <1>3, <1>4, <1>5, <1>6, OneSchema DEF Runtime!ExecFault, Traps

\* What an instruction that executes finds: the values it takes.
LEMMA ExecutesReads ==
  ASSUME SystemInv, NEW ops, Runtime!Executes(ops)
  PROVE  /\ Runtime!Running /\ Runtime!I = Instr /\ Instr.op \in ops
         /\ Len(stack) >= Runtime!Takes(Instr)
         /\ status = "running" /\ UNCHANGED <<status, result>>
<1>1. Runtime!Running /\ Runtime!I = Instr /\ Instr.op \in ops /\ Runtime!ExecFault(Instr) = "None"
  BY InstrType DEF Runtime!Executes
<1>2. ~(Runtime!Depth < Runtime!Takes(Instr))
  <2>1. Runtime!FaultyPairs(Instr) # {} =>
          Runtime!PairFault(Instr, Runtime!FirstPair(Runtime!FaultyPairs(Instr))) # "None"
    BY <1>1, FirstPairExists DEF Runtime!FaultyPairs
  <2> QED BY <1>1, <2>1 DEF Runtime!ExecFault
<1>3. Len(stack) >= Runtime!Takes(Instr)
  BY <1>1, <1>2, InstrType, DepthType DEF Runtime!Depth
<1> QED BY <1>1, <1>3 DEF Runtime!Executes, Runtime!Running

\* An instruction that changes stack and slots as pass 3 says, and goes where pass 3
\* does, keeps the invariant.
LEMMA ExecutesKeeps ==
  ASSUME SystemInv, NEW ops, Runtime!Executes(ops), UNCHANGED vars,
         IsSequence(stack'), IsSequence(locals'),
         direct' \in BOOLEAN, direct' => catalog.code[pc'].op = "OutVal",
         pc' \in Targets(catalog.code, pc),
         Depth' = NewDepth(Instr, Depth),
         Len(locals') = NewLocals(Instr, Len(locals))
  PROVE  SystemInv'
<1>1. /\ status' = "running" /\ status = "running" /\ result' = result
      /\ verdict = "Accepted" /\ verdict' = "Accepted"
      /\ catalog' = catalog /\ seen' = seen /\ dropped' = dropped
  BY ExecutesReads DEF SystemInv, vars
<1>2. TypeInv' /\ CoverInv' /\ Scanned'
  BY TypeStep, CoverStep, ScannedStep DEF SystemInv
<1>3. ASSUME dropped = {} PROVE ExecutionIsCovered'
  <2>1. PICK c \in seen : Abstracted(c.sel) \in AbstractState /\ Covers(c, Abstracted(c.sel))
    BY <1>1, <1>3, Located
  <2> DEFINE s == Abstracted(c.sel)
             t == After(catalog.code, s, pc')
  <2>2. s.pc = pc /\ s.depth = Depth /\ s.locals = Len(locals)
    BY DEF Abstracted
  <2>3. t \in Successors(catalog.code, s)
    BY <2>2 DEF Successors
  <2>4. PICK d \in seen : Covers(d, t)
    <3> HIDE DEF s, t
    <3> QED BY <1>1, <1>3, <2>1, <2>3, CoveredStep DEF SystemInv, s
  <2>5. t.pc = pc' /\ t.depth = Depth' /\ t.locals = Len(locals')
    BY <2>2 DEF After, Instr
  <2>6. d.pc = pc' /\ d.depth <= Depth' /\ d.locals <= Len(locals')
    <3> HIDE DEF t
    <3> QED BY <2>4, <2>5 DEF Covers
  <2> QED BY <1>1, <2>6 DEF ExecutionIsCovered
<1>4. ExecutionIsCovered'
  BY <1>1, <1>3 DEF ExecutionIsCovered
<1>5. LoadedNeverTraps'
  BY <1>1 DEF SystemInv, LoadedNeverTraps
<1> QED BY <1>1, <1>2, <1>4, <1>5 DEF SystemInv, Instr

\* A return with an outcome that is no trap of these keeps it.
LEMMA ReturnKeeps ==
  ASSUME SystemInv, NEW outcome, Runtime!Return(outcome), UNCHANGED vars,
         status = "running", dropped = {} => outcome \notin Traps
  PROVE  SystemInv'
<1>1. /\ status' = "idle" /\ result' = outcome /\ stack' = <<>> /\ locals' = <<>>
      /\ direct' = FALSE /\ verdict' = "Accepted" /\ dropped' = dropped
  BY DEF SystemInv, vars, Runtime!Return
<1>2. TypeInv' /\ CoverInv' /\ Scanned'
  BY TypeStep, CoverStep, ScannedStep DEF SystemInv
<1>3. IsSequence(<<>>)
  BY EmptySeq DEF IsSequence
<1> QED BY <1>1, <1>2, <1>3 DEF SystemInv, ExecutionIsCovered, LoadedNeverTraps, Traps

-----------------------------------------------------------------------------
(* Every step of the formatter keeps the invariant. *)

\* Where execution goes on, and how the instructions count on stack and slots.
LEMMA TargetsOf ==
  ASSUME SystemInv, Runtime!Running
  PROVE  /\ Instr.op \notin Stop \cup JumpOnly => Runtime!Next1 \in Targets(catalog.code, pc)
         /\ Instr.op \in Jumps =>
              Runtime!JumpTarget(catalog.code, pc) \in Targets(catalog.code, pc)
BY InstrType, OneSchema DEF Targets, Stop, JumpOnly, Conditional, Jumps, Instr

LEMMA BeginKeeps == SystemInv /\ verdict = "Accepted" /\ Runtime!Begin /\ UNCHANGED vars => SystemInv'
<1> SUFFICES ASSUME SystemInv, verdict = "Accepted", Runtime!Begin, UNCHANGED vars
             PROVE  SystemInv'
  OBVIOUS
<1>1. TypeInv' /\ CoverInv' /\ Scanned'
  BY TypeStep, CoverStep, ScannedStep DEF SystemInv
<1>2. /\ status = "idle" /\ status' = "running" /\ result' = "None"
      /\ stack' = <<>> /\ locals' = <<>> /\ direct' = FALSE
      /\ IsSequence(stack') /\ IsSequence(locals')
      /\ verdict' = "Accepted" /\ seen' = seen /\ dropped' = dropped
  BY DEF Runtime!Begin, SystemInv, vars
<1>3. PICK m \in 1..Len(catalog.entries) : pc' = catalog.entries[m]
  BY DEF Runtime!Begin
<1>4. ASSUME dropped = {} PROVE ExecutionIsCovered'
  <2>1. PICK c \in seen : Covers(c, EntryState(catalog.entries[m]))
    BY <1>4, CoverageOnAcceptance DEF SystemInv, AcceptedCoverage
  <2>2. c.pc = pc' /\ c.depth <= 0 /\ c.locals <= 0
    BY <1>3, <2>1 DEF Covers, EntryState
  <2>3. Depth' = 0 /\ Len(locals') = 0
    BY <1>2 DEF Depth
  <2> QED BY <1>2, <2>2, <2>3 DEF ExecutionIsCovered
<1>5. ExecutionIsCovered' /\ LoadedNeverTraps'
  BY <1>2, <1>4 DEF ExecutionIsCovered, LoadedNeverTraps
<1> QED BY <1>1, <1>2, <1>5 DEF SystemInv

\* A message that ends does so by Halt, for want of fuel, by a fault other than
\* these, or by an error of the host.
LEMMA EndsKeep ==
  ASSUME SystemInv, UNCHANGED vars,
         Runtime!Halt \/ Runtime!Fail \/ Runtime!StoreNowhere \/ Runtime!CallFails
  PROVE  SystemInv'
<1>1. CASE Runtime!Halt
  BY <1>1, ReturnKeeps DEF Runtime!Halt, Runtime!Running, Traps
<1>2. CASE Runtime!Fail
  <2>1. status = "running"
    BY <1>2 DEF Runtime!Fail
  <2>2. CASE Runtime!Return("FuelExhausted")
    BY <2>1, <2>2, ReturnKeeps DEF Traps
  <2>3. CASE pc \notin DOMAIN catalog.code /\ Runtime!Return("Decode")
    BY <2>1, <2>3, Supplied, ReturnKeeps
  <2>4. CASE Runtime!Running /\ Runtime!Return(Runtime!ExecFault(Runtime!I))
    BY <2>1, <2>4, NoTrap, InstrType, ReturnKeeps
  <2> QED BY <1>2, <2>2, <2>3, <2>4 DEF Runtime!Fail
<1>3. CASE Runtime!StoreNowhere
  <2>1. Runtime!Running /\ status = "running" /\ Runtime!Return("InvalidLocalSlot")
        /\ Instr.op = "StoreLocal" /\ Instr.id > Len(locals)
    BY <1>3, InstrType DEF Runtime!StoreNowhere, Runtime!Running
  <2>2. dropped # {}
    BY <2>1, Supplied DEF LocalFault
  <2> QED BY <2>1, <2>2, ReturnKeeps
<1>4. CASE Runtime!CallFails
  <2>1. PICK error \in Runtime!HostErrors : Runtime!Return(error)
    BY <1>4 DEF Runtime!CallFails
  <2> QED BY <1>4, <2>1, ReturnKeeps DEF Runtime!CallFails, Runtime!Running, Runtime!HostErrors, Traps
<1> QED BY <1>1, <1>2, <1>3, <1>4

\* Instructions that leave stack and slots alone.
LEMMA PlainKeeps ==
  ASSUME SystemInv, UNCHANGED vars, NEW ops, Runtime!Executes(ops),
         ops \cap (Calls \cup Markups \cup {"OutVal", "JmpIfFalse", "SelectBegin", "StoreLocal",
            "ProjectSelect", "ResolveString", "PushConst", "LoadArg", "LoadOptionArg", "LoadLocal"})
           = {},
         UNCHANGED <<stack, locals, direct>>, pc' \in Targets(catalog.code, pc)
  PROVE  SystemInv'
<1>1. Pops(Instr) = 0 /\ Pushes(Instr) = 0 /\ direct = FALSE
  BY ExecutesReads DEF Pops, Pushes, SystemInv
<1>2. Depth' = NewDepth(Instr, Depth) /\ Len(locals') = NewLocals(Instr, Len(locals))
  BY <1>1, ExecutesReads, DepthType DEF NewDepth, NewLocals, Depth
<1> QED BY <1>1, <1>2, ExecutesKeeps DEF SystemInv

\* Instructions that take values from the stack and put others on it.
LEMMA StackKeeps ==
  ASSUME SystemInv, UNCHANGED vars, NEW ops, Runtime!Executes(ops),
         ops \cap {"OutVal", "StoreLocal"} = {},
         \/ Pushes(Instr) = 0 /\ stack' = Runtime!Rest(Runtime!Takes(Instr))
         \/ \E v : Pushes(Instr) = 1 /\ stack' = Append(Runtime!Rest(Runtime!Takes(Instr)), v),
         UNCHANGED locals, direct' = direct \/ direct' = FALSE, pc' \in Targets(catalog.code, pc)
  PROVE  SystemInv'
<1>1. direct = FALSE /\ direct' = FALSE
  BY ExecutesReads DEF SystemInv
<1>2. /\ Runtime!Takes(Instr) = Pops(Instr) /\ Pops(Instr) \in Nat
      /\ Pops(Instr) <= Len(stack) /\ IsSequence(stack) /\ Len(stack) \in Nat
  BY <1>1, ExecutesReads, InstrType, DepthType DEF SystemInv
<1>3. /\ IsSequence(Runtime!Rest(Pops(Instr)))
      /\ Len(Runtime!Rest(Pops(Instr))) = Len(stack) - Pops(Instr)
  BY <1>2, SequenceFacts DEF Runtime!Rest, Runtime!Depth
<1>4. IsSequence(stack') /\ Len(stack') = Len(stack) - Pops(Instr) + Pushes(Instr)
  <2> DEFINE rest == Runtime!Rest(Pops(Instr))
  <2>1. CASE Pushes(Instr) = 0 /\ stack' = rest
    BY <1>2, <1>3, <2>1
  <2>2. CASE \E v : Pushes(Instr) = 1 /\ stack' = Append(rest, v)
    <3>1. PICK v : Pushes(Instr) = 1 /\ stack' = Append(rest, v)
      BY <2>2
    <3>2. \A x : IsSequence(Append(rest, x)) /\ Len(Append(rest, x)) = Len(rest) + 1
      <4> HIDE DEF rest
      <4> QED BY <1>3, SequenceFacts DEF rest
    <3> HIDE DEF rest
    <3> QED BY <1>2, <1>3, <3>1, <3>2 DEF rest
  <2> QED BY <1>2, <2>1, <2>2
<1>5. Depth' = NewDepth(Instr, Depth) /\ Len(locals') = NewLocals(Instr, Len(locals))
  BY <1>1, <1>4, DepthType, ExecutesReads DEF NewDepth, NewLocals, Depth
<1> QED BY <1>1, <1>4, <1>5, ExecutesKeeps DEF SystemInv

LEMMA JumpsKeep ==
  ASSUME SystemInv, UNCHANGED vars, Runtime!TakeJump \/ Runtime!CaseStr
  PROVE  SystemInv'
<1>1. CASE Runtime!TakeJump
  <2>1. Runtime!Executes({"Jmp", "CaseDefault"})
    BY <1>1 DEF Runtime!TakeJump
  <2>2. pc' \in Targets(catalog.code, pc)
    BY <1>1, <2>1, ExecutesReads, TargetsOf DEF Runtime!TakeJump, Runtime!GoTo, Jumps, JumpOnly
  <2> QED BY <1>1, <2>1, <2>2, PlainKeeps DEF Runtime!TakeJump, Calls, Markups
<1>2. CASE Runtime!CaseStr
  <2>1. Runtime!Executes({"CaseStr"})
    BY <1>2 DEF Runtime!CaseStr
  <2>2. pc' \in Targets(catalog.code, pc)
    BY <1>2, <2>1, ExecutesReads, TargetsOf
       DEF Runtime!CaseStr, Runtime!GoTo, Runtime!Advance, Jumps, JumpOnly, Conditional, Stop
  <2> QED BY <1>2, <2>1, <2>2, PlainKeeps DEF Runtime!CaseStr, Calls, Markups
<1> QED BY <1>1, <1>2

\* Instructions that write output, select or set the fallback, and advance.
LEMMA AdvanceKeeps ==
  ASSUME SystemInv, UNCHANGED vars, NEW ops, Runtime!Executes(ops), Runtime!Advance,
         ops \subseteq {"ExprFallback", "OutLit", "OutSlice", "OutExpr", "OutArg", "SelectArg",
            "SelectStringArg", "CheckSelector", "SelectLocal", "SelectEnd"},
         UNCHANGED <<stack, locals, direct>>
  PROVE  SystemInv'
<1>1. pc' \in Targets(catalog.code, pc)
  BY ExecutesReads, TargetsOf DEF Runtime!Advance, Runtime!GoTo, Stop, JumpOnly
<1> QED BY <1>1, PlainKeeps DEF Calls, Markups

LEMMA PlainActionsKeep ==
  ASSUME SystemInv, UNCHANGED vars,
         \/ Runtime!ExprFallback \/ Runtime!OutLiteral \/ Runtime!OutArg \/ Runtime!SelectArg
         \/ Runtime!SelectStringArg \/ Runtime!CheckSelector \/ Runtime!SelectLocal
         \/ Runtime!SelectEnd
  PROVE  SystemInv'
<1>1. CASE Runtime!ExprFallback
  BY <1>1, AdvanceKeeps DEF Runtime!ExprFallback
<1>2. CASE Runtime!OutLiteral
  BY <1>2, AdvanceKeeps DEF Runtime!OutLiteral
<1>3. CASE Runtime!OutArg
  BY <1>3, AdvanceKeeps DEF Runtime!OutArg
<1>4. CASE Runtime!SelectArg
  BY <1>4, AdvanceKeeps DEF Runtime!SelectArg
<1>5. CASE Runtime!SelectStringArg
  BY <1>5, AdvanceKeeps DEF Runtime!SelectStringArg
<1>6. CASE Runtime!CheckSelector
  BY <1>6, AdvanceKeeps DEF Runtime!CheckSelector
<1>7. CASE Runtime!SelectLocal
  BY <1>7, AdvanceKeeps DEF Runtime!SelectLocal
<1>8. CASE Runtime!SelectEnd
  BY <1>8, AdvanceKeeps DEF Runtime!SelectEnd
<1> QED BY <1>1, <1>2, <1>3, <1>4, <1>5, <1>6, <1>7, <1>8

\* Instructions that push a value, take one, or take one for another.
LEMMA PushKeeps ==
  ASSUME SystemInv, UNCHANGED vars, NEW ops, Runtime!Executes(ops), Runtime!Advance,
         ops \subseteq {"PushConst", "LoadArg", "LoadOptionArg", "LoadLocal"},
         NEW v, Runtime!Push(v), UNCHANGED <<locals, direct>>
  PROVE  SystemInv'
<1>1. pc' \in Targets(catalog.code, pc) /\ Pops(Instr) = 0 /\ Pushes(Instr) = 1
  BY ExecutesReads, TargetsOf DEF Runtime!Advance, Runtime!GoTo, Stop, JumpOnly, Pops, Pushes,
     Calls, Markups
<1>2. direct = FALSE
  BY ExecutesReads DEF SystemInv
<1>3. IsSequence(stack) /\ Len(stack) \in Nat
  BY DepthType DEF SystemInv
<1>4. IsSequence(stack') /\ Len(stack') = Len(stack) + 1
  BY <1>3, SequenceFacts DEF Runtime!Push
<1>5. Depth' = NewDepth(Instr, Depth) /\ Len(locals') = NewLocals(Instr, Len(locals))
  BY <1>1, <1>2, <1>3, <1>4, ExecutesReads DEF NewDepth, NewLocals, Depth
<1> QED BY <1>1, <1>2, <1>4, <1>5, ExecutesKeeps DEF SystemInv

LEMMA LoadsKeep ==
  ASSUME SystemInv, UNCHANGED vars,
         \/ Runtime!PushConst \/ Runtime!LoadArg \/ Runtime!LoadOptionArg \/ Runtime!LoadLocal
  PROVE  SystemInv'
<1>1. CASE Runtime!PushConst
  BY <1>1, PushKeeps DEF Runtime!PushConst
<1>2. CASE Runtime!LoadArg
  BY <1>2, PushKeeps DEF Runtime!LoadArg
<1>3. CASE Runtime!LoadOptionArg
  BY <1>3, PushKeeps DEF Runtime!LoadOptionArg
<1>4. CASE Runtime!LoadLocal
  BY <1>4, PushKeeps DEF Runtime!LoadLocal
<1> QED BY <1>1, <1>2, <1>3, <1>4

LEMMA TakesOneKeep ==
  ASSUME SystemInv, UNCHANGED vars,
         \/ Runtime!JmpIfFalse \/ Runtime!SelectBegin \/ Runtime!ResolveString
         \/ Runtime!ProjectSelect
  PROVE  SystemInv'
<1>1. CASE Runtime!JmpIfFalse
  <2>1. Runtime!Executes({"JmpIfFalse"})
    BY <1>1 DEF Runtime!JmpIfFalse
  <2>2. pc' \in Targets(catalog.code, pc)
    BY <1>1, <2>1, ExecutesReads, TargetsOf
       DEF Runtime!JmpIfFalse, Runtime!GoTo, Jumps, JumpOnly, Conditional, Stop
  <2>3. stack' = Runtime!Rest(Runtime!Takes(Instr)) /\ Pushes(Instr) = 0
    BY <1>1, <2>1, ExecutesReads, OneSchema DEF Runtime!JmpIfFalse, Runtime!Takes, Runtime!Uses, Pushes, Calls, Markups
  <2> QED BY <1>1, <2>1, <2>2, <2>3, StackKeeps DEF Runtime!JmpIfFalse
<1>2. CASE Runtime!SelectBegin
  <2>1. Runtime!Executes({"SelectBegin"})
    BY <1>2 DEF Runtime!SelectBegin
  <2>2. pc' \in Targets(catalog.code, pc)
    BY <1>2, <2>1, ExecutesReads, TargetsOf
       DEF Runtime!SelectBegin, Runtime!Advance, Runtime!GoTo, JumpOnly, Stop
  <2>3. stack' = Runtime!Rest(Runtime!Takes(Instr)) /\ Pushes(Instr) = 0
    BY <1>2, <2>1, ExecutesReads, OneSchema DEF Runtime!SelectBegin, Runtime!Takes, Runtime!Uses, Pushes, Calls, Markups
  <2> QED BY <1>2, <2>1, <2>2, <2>3, StackKeeps DEF Runtime!SelectBegin
<1>3. CASE Runtime!ResolveString
  <2>1. Runtime!Executes({"ResolveString"})
    BY <1>3 DEF Runtime!ResolveString
  <2>2. pc' \in Targets(catalog.code, pc)
    BY <1>3, <2>1, ExecutesReads, TargetsOf
       DEF Runtime!ResolveString, Runtime!Advance, Runtime!GoTo, JumpOnly, Stop
  <2>3. Runtime!Takes(Instr) = 1 /\ Pushes(Instr) = 1
    BY <2>1, ExecutesReads, OneSchema DEF Runtime!Takes, Runtime!Uses, Pushes, Calls, Markups
  <2>4. \E v : stack' = Append(Runtime!Rest(1), v)
    BY <1>3 DEF Runtime!ResolveString
  <2> QED BY <1>3, <2>1, <2>2, <2>3, <2>4, StackKeeps DEF Runtime!ResolveString
<1>4. CASE Runtime!ProjectSelect
  <2>1. Runtime!Executes({"ProjectSelect"})
    BY <1>4 DEF Runtime!ProjectSelect
  <2>2. pc' \in Targets(catalog.code, pc)
    BY <1>4, <2>1, ExecutesReads, TargetsOf
       DEF Runtime!ProjectSelect, Runtime!Advance, Runtime!GoTo, JumpOnly, Stop
  <2>3. Runtime!Takes(Instr) = 1 /\ Pushes(Instr) = 1
    BY <2>1, ExecutesReads, OneSchema DEF Runtime!Takes, Runtime!Uses, Pushes, Calls, Markups
  <2>4. \E v : stack' = Append(Runtime!Rest(1), v)
    BY <1>4 DEF Runtime!ProjectSelect
  <2> QED BY <1>4, <2>1, <2>2, <2>3, <2>4, StackKeeps DEF Runtime!ProjectSelect
<1> QED BY <1>1, <1>2, <1>3, <1>4

\* A declaration fills its slot, or the next one.
LEMMA StoreKeeps == ASSUME SystemInv, UNCHANGED vars, Runtime!StoreLocal PROVE SystemInv'
<1>1. Runtime!Executes({"StoreLocal"}) /\ Instr.op = "StoreLocal" /\ Runtime!I = Instr
  BY ExecutesReads DEF Runtime!StoreLocal
<1>2. /\ direct = FALSE /\ direct' = FALSE /\ Instr.id <= Len(locals) /\ Instr.id \in Nat
      /\ Runtime!Running
  BY <1>1, InstrType, ExecutesReads DEF Runtime!StoreLocal, SystemInv
<1>3. pc' \in Targets(catalog.code, pc)
  BY <1>1, ExecutesReads, TargetsOf DEF Runtime!StoreLocal, Runtime!Advance, Runtime!GoTo, JumpOnly, Stop
<1>4. Pops(Instr) = 1 /\ Pushes(Instr) = 0 /\ Len(stack) >= 1
  BY <1>1, <1>2, ExecutesReads, InstrType DEF Pops, Pushes, Calls, Markups
<1>5. IsSequence(stack') /\ Len(stack') = Len(stack) - 1
  <2>1. IsSequence(stack) /\ Len(stack) \in Nat /\ stack' = SubSeq(stack, 1, Len(stack) - 1)
    BY DepthType DEF SystemInv, Runtime!StoreLocal, Runtime!Rest, Runtime!Depth
  <2> QED BY <1>4, <2>1, SequenceFacts
<1>6. IsSequence(locals') /\ Len(locals') = NewLocals(Instr, Len(locals))
  <2>1. IsSequence(locals) /\ Len(locals) \in Nat
    BY DepthType DEF SystemInv
  <2>2. CASE Instr.id = Len(locals)
    <3>1. \E v : locals' = Append(locals, v)
      BY <1>1, <2>2 DEF Runtime!StoreLocal
    <3> QED BY <1>1, <2>1, <2>2, <3>1, SequenceFacts DEF NewLocals
  <2>3. CASE Instr.id # Len(locals)
    <3>1. PICK i, v : locals' = [locals EXCEPT ![i] = v]
      BY <1>1, <2>3 DEF Runtime!StoreLocal
    <3>2. IsSequence(locals') /\ Len(locals') = Len(locals)
      BY <2>1, <3>1, SequenceFacts
    <3> QED BY <2>3, <3>2 DEF NewLocals
  <2> QED BY <2>2, <2>3
<1>7. Depth' = NewDepth(Instr, Depth)
  BY <1>2, <1>4, <1>5, DepthType DEF NewDepth, Depth
<1> QED BY <1>1, <1>2, <1>3, <1>5, <1>6, <1>7, ExecutesKeeps

\* Output of a value, which a call may have written already.
LEMMA OutValKeeps == ASSUME SystemInv, UNCHANGED vars, Runtime!OutVal PROVE SystemInv'
<1>1. Runtime!Executes({"OutVal"}) /\ Instr.op = "OutVal" /\ Runtime!Running
  BY ExecutesReads DEF Runtime!OutVal
<1>2. pc' \in Targets(catalog.code, pc) /\ Pops(Instr) = 1 /\ Pushes(Instr) = 0
  BY <1>1, ExecutesReads, TargetsOf
     DEF Runtime!OutVal, Runtime!Advance, Runtime!GoTo, JumpOnly, Stop, Pops, Pushes, Calls, Markups
<1>3. locals' = locals /\ direct' = FALSE /\ IsSequence(stack) /\ Len(stack) \in Nat
      /\ IsSequence(locals) /\ Len(locals') = NewLocals(Instr, Len(locals))
  BY <1>1, DepthType DEF Runtime!OutVal, SystemInv, NewLocals
<1>4. IsSequence(stack') /\ Depth' = NewDepth(Instr, Depth)
  <2>1. CASE direct
    BY <1>2, <1>3, <2>1 DEF Runtime!OutVal, Depth, NewDepth
  <2>2. CASE ~direct
    <3>1. Len(stack) >= 1 /\ stack' = SubSeq(stack, 1, Len(stack) - 1)
      BY <1>1, <1>2, <2>2, ExecutesReads, InstrType DEF Runtime!OutVal, Runtime!Rest, Runtime!Depth
    <3>2. IsSequence(stack') /\ Len(stack') = Len(stack) - 1
      BY <1>3, <3>1, SequenceFacts
    <3> QED BY <1>2, <1>3, <2>2, <3>2 DEF Depth, NewDepth
  <2> QED BY <2>1, <2>2
<1> QED BY <1>1, <1>2, <1>3, <1>4, ExecutesKeeps

\* Markup and calls take their options, calls their operand too; a call leaves its
\* result, or has written it and leaves word of that to the OutVal that follows.
LEMMA CallsKeep ==
  ASSUME SystemInv, UNCHANGED vars,
         \/ Runtime!EmitMarkup \/ Runtime!SkipCall \/ Runtime!CallReturns \/ Runtime!CallRecovers
         \/ Runtime!CallWrites
  PROVE  SystemInv'
<1>1. CASE Runtime!EmitMarkup
  <2>1. Runtime!Executes(Markups)
    BY <1>1, OneSchema DEF Runtime!EmitMarkup
  <2>2. pc' \in Targets(catalog.code, pc)
    BY <1>1, <2>1, ExecutesReads, TargetsOf
       DEF Runtime!EmitMarkup, Runtime!Advance, Runtime!GoTo, JumpOnly, Stop, Markups
  <2>3. stack' = Runtime!Rest(Runtime!Takes(Instr)) /\ Pushes(Instr) = 0
    BY <1>1, <2>1, ExecutesReads, OneSchema
       DEF Runtime!EmitMarkup, Runtime!Takes, Runtime!Uses, Pushes, Calls, Markups
  <2> QED BY <1>1, <2>1, <2>2, <2>3, StackKeeps DEF Runtime!EmitMarkup, Markups
<1>2. ASSUME Runtime!Executes(Runtime!Calls), Runtime!Advance, NEW v, Runtime!PopCall(v),
             direct' = FALSE, UNCHANGED locals
      PROVE  SystemInv'
  <2>1. Runtime!Executes(Calls)
    BY <1>2, OneSchema
  <2>2. pc' \in Targets(catalog.code, pc)
    BY <1>2, <2>1, ExecutesReads, TargetsOf DEF Runtime!Advance, Runtime!GoTo, JumpOnly, Stop, Calls
  <2>3. stack' = Append(Runtime!Rest(Runtime!Takes(Instr)), v) /\ Pushes(Instr) = 1
    BY <1>2, <2>1, ExecutesReads DEF Runtime!PopCall, Pushes
  <2> QED BY <1>2, <2>1, <2>2, <2>3, StackKeeps DEF Calls
<1>3. CASE Runtime!SkipCall
  BY <1>2, <1>3 DEF Runtime!SkipCall
<1>4. CASE Runtime!CallReturns
  BY <1>2, <1>4 DEF Runtime!CallReturns
<1>5. CASE Runtime!CallRecovers
  BY <1>2, <1>5 DEF Runtime!CallRecovers
<1>6. CASE Runtime!CallWrites
  <2>1. Runtime!Executes(Calls) /\ Instr.op \in Calls /\ Runtime!I = Instr /\ Runtime!Running
    BY <1>6, OneSchema, ExecutesReads DEF Runtime!CallWrites
  <2>2. pc' \in Targets(catalog.code, pc) /\ catalog.code[pc'].op = "OutVal"
    BY <1>6, <2>1, TargetsOf
       DEF Runtime!CallWrites, Runtime!WritesDirectly, Runtime!Advance, Runtime!GoTo, JumpOnly, Stop, Calls
  <2>3. direct = FALSE /\ direct' = TRUE /\ locals' = locals /\ IsSequence(locals)
        /\ IsSequence(stack) /\ Len(stack) \in Nat /\ Pushes(Instr) = 1
        /\ Len(locals') = NewLocals(Instr, Len(locals))
    BY <1>6, <2>1, DepthType DEF Runtime!CallWrites, SystemInv, Calls, Pushes, NewLocals
  <2>4. /\ stack' = SubSeq(stack, 1, Len(stack) - Pops(Instr))
        /\ Pops(Instr) \in Nat /\ Pops(Instr) <= Len(stack)
    BY <1>6, <2>1, <2>3, ExecutesReads, InstrType DEF Runtime!CallWrites, Runtime!Rest, Runtime!Depth
  <2>5. IsSequence(stack') /\ Len(stack') = Len(stack) - Pops(Instr)
    BY <2>3, <2>4, SequenceFacts
  <2>6. Depth' = NewDepth(Instr, Depth)
    BY <2>3, <2>4, <2>5 DEF Depth, NewDepth
  <2> QED BY <2>1, <2>2, <2>3, <2>5, <2>6, ExecutesKeeps
<1> QED BY <1>1, <1>3, <1>4, <1>5, <1>6

-----------------------------------------------------------------------------
(* The invariant holds. *)

LEMMA SystemInitial == SystemInit => SystemInv
<1> SUFFICES ASSUME SystemInit PROVE SystemInv
  OBVIOUS
<1>1. TypeInv /\ CoverInv /\ Scanned /\ verdict = "None"
  BY TypeInit, CoverInit, ScannedInit DEF SystemInit, Init
<1>2. status = "idle" /\ result = "None" /\ stack = <<>> /\ locals = <<>> /\ direct = FALSE
  BY DEF SystemInit, Runtime!Fresh
<1>3. <<>> \in Seq({})
  OBVIOUS
<1>4. IsSequence(stack) /\ IsSequence(locals)
  BY <1>2, <1>3 DEF IsSequence
<1> QED BY <1>1, <1>2, <1>4 DEF SystemInv, ExecutionIsCovered, LoadedNeverTraps

LEMMA VerifyKeeps == ASSUME SystemInv, Verify PROVE SystemInv'
<1>1. /\ [Next]_vars /\ verdict # "Accepted"
  BY AcceptedIsFinal DEF Verify, SystemInv
<1>2. TypeInv' /\ CoverInv' /\ Scanned'
  BY <1>1, TypeStep, CoverStep, ScannedStep DEF SystemInv
<1>3. status = "idle" /\ result = "None" /\ direct = FALSE /\ UNCHANGED <<status, result, direct, stack, locals>>
  BY <1>1 DEF SystemInv, Verify, executing
<1> QED BY <1>2, <1>3 DEF SystemInv, ExecutionIsCovered, LoadedNeverTraps

LEMMA FormatKeeps == ASSUME SystemInv, Format PROVE SystemInv'
<1>1. Runtime!Next /\ UNCHANGED vars /\ verdict = "Accepted"
  BY DEF Format
<1>2. CASE Runtime!Begin
  BY <1>1, <1>2, BeginKeeps
<1>3. CASE Runtime!Halt \/ Runtime!Fail \/ Runtime!StoreNowhere \/ Runtime!CallFails
  BY <1>1, <1>3, EndsKeep
<1>4. CASE Runtime!TakeJump \/ Runtime!CaseStr
  BY <1>1, <1>4, JumpsKeep
<1>5. CASE \/ Runtime!ExprFallback \/ Runtime!OutLiteral \/ Runtime!OutArg \/ Runtime!SelectArg
           \/ Runtime!SelectStringArg \/ Runtime!CheckSelector \/ Runtime!SelectLocal
           \/ Runtime!SelectEnd
  BY <1>1, <1>5, PlainActionsKeep
<1>6. CASE \/ Runtime!PushConst \/ Runtime!LoadArg \/ Runtime!LoadOptionArg \/ Runtime!LoadLocal
  BY <1>1, <1>6, LoadsKeep
<1>7. CASE \/ Runtime!JmpIfFalse \/ Runtime!SelectBegin \/ Runtime!ResolveString
           \/ Runtime!ProjectSelect
  BY <1>1, <1>7, TakesOneKeep
<1>8. CASE Runtime!StoreLocal
  BY <1>1, <1>8, StoreKeeps
<1>9. CASE Runtime!OutVal
  BY <1>1, <1>9, OutValKeeps
<1>10. CASE \/ Runtime!EmitMarkup \/ Runtime!SkipCall \/ Runtime!CallReturns
            \/ Runtime!CallRecovers \/ Runtime!CallWrites
  BY <1>1, <1>10, CallsKeep
<1> QED BY <1>1, <1>2, <1>3, <1>4, <1>5, <1>6, <1>7, <1>8, <1>9, <1>10
           DEF Runtime!Next, Runtime!Instruct

LEMMA SystemStep == SystemInv /\ [SystemNext]_<<vars, executing>> => SystemInv'
<1> SUFFICES ASSUME SystemInv, [SystemNext]_<<vars, executing>> PROVE SystemInv'
  OBVIOUS
<1>1. CASE UNCHANGED <<vars, executing>>
  <2>1. TypeInv' /\ CoverInv' /\ Scanned'
    BY <1>1, TypeStep, CoverStep, ScannedStep DEF SystemInv
  <2>2. UNCHANGED <<catalog, verdict, seen, dropped>>
    BY <1>1 DEF vars
  <2>3. UNCHANGED <<status, result, pc, direct, stack, locals>>
    BY <1>1 DEF executing
  <2> QED BY <2>1, <2>2, <2>3 DEF SystemInv, ExecutionIsCovered, LoadedNeverTraps, Depth, Instr
<1> QED BY <1>1, VerifyKeeps, FormatKeeps DEF SystemNext

LEMMA SystemInvariant == SystemSpec => []SystemInv
BY SystemInitial, SystemStep, PTL DEF SystemSpec

\* What the loader accepts is code that the VM can rely on without checks of its own:
\* every instruction is one, jumps land on instructions, and an ExprFallback precedes
\* an instruction that consumes it (verify_code passes 1 and 2, decode_at in the VM).
THEOREM AcceptedIsDecodable == SystemSpec => []AcceptedIsDecoded
<1>1. SystemInv => AcceptedIsDecoded
  BY DecodedOnAcceptance DEF SystemInv, AcceptedIsDecoded
<1> QED BY <1>1, SystemInvariant, PTL

\* Every execution of an accepted catalog, whatever the host answers and whatever is
\* asked for, is at each instruction in a state that pass 3 covers (verify_code pass 3
\* against run_bytecode).
THEOREM ExecutionCovered == SystemSpec => []ExecutionIsCovered
<1>1. SystemInv => ExecutionIsCovered
  BY DEF SystemInv
<1> QED BY <1>1, SystemInvariant, PTL

\* So it does not underflow the stack, miss a local slot or leave the code.
THEOREM NeverTraps == SystemSpec => []LoadedNeverTraps
<1>1. SystemInv => LoadedNeverTraps
  BY DEF SystemInv
<1> QED BY <1>1, SystemInvariant, PTL
=============================================================================
