------------------------------ MODULE VMProofs ------------------------------
(***************************************************************************)
(* What the interpreter keeps right for all code and hosts: its types, the *)
(* life of the fallback text and of the flag that a call has written its   *)
(* output, and that diagnostics only observe.  And for code as lowering    *)
(* writes it: which operand a failure belongs to, what a bad selector      *)
(* selects, and that a message is always formatted.                        *)
(***************************************************************************)
EXTENDS QuietVM, TLAPS, SequenceTheorems, FiniteSetTheorems, WellFoundedInduction

VMInv ==
    /\ TypeOK
    /\ catalog \in Catalogs
    /\ call \in Requests
    /\ FallbackOnlyAtConsumer
    /\ DirectOutputIsConsumed

-----------------------------------------------------------------------------
(* Types of what instructions read. *)

\* The instruction at pc, and what precedes it on the stack.
LEMMA InstructionType ==
  ASSUME VMInv, Running
  PROVE  /\ I \in Instruction
         /\ I.id \in Nat /\ I.fb \in Nat /\ I.argc \in Nat /\ I.optc \in Nat
         /\ Next1 \in Nat
         /\ I.op \in Jumps => JumpTarget(catalog.code, pc) \in Nat
         /\ I.op = "ExprFallback" => catalog.code[Next1].op \in Consumers
<1>1. /\ I \in Instruction /\ pc \in Nat
      /\ I.op \in Jumps => JumpTarget(catalog.code, pc) \in DOMAIN catalog.code
      /\ I.op = "ExprFallback" => catalog.code[Next1].op \in Consumers
      /\ DOMAIN catalog.code \subseteq Nat
  BY DecodedAssumption DEF VMInv, Running, Decoded, I, Next1
<1>2. Width(I.op) \in Nat
  BY <1>1 DEF Instruction, Opcode, OneByte, FiveByte, NineByte, Calls, Markups, Width
<1>3. Next1 \in Nat
  BY <1>1, <1>2 DEF Next1, NextPc, I
<1> QED BY <1>1, <1>3 DEF Instruction, Byte

LEMMA TakesType ==
  ASSUME VMInv, Running
  PROVE  Takes(I) \in Nat
<1>1. I.argc + 2 * I.optc \in Nat /\ 2 * I.optc \in Nat
  BY InstructionType
<1> QED BY <1>1 DEF Takes, Uses

\* A value of a kind and a text, and those that handlers build of them.
LEMMA ValueType ==
  /\ \A kind \in Kinds, text \in Nat : Val(kind, text) \in Value
  /\ Null \in Value /\ Missing \in Value
BY DEF Val, Value, Kinds, Null, Missing

\* What is left below the popped values is a stack.
LEMMA RestType ==
  ASSUME stack \in Seq(Value), NEW n \in Nat, n <= Depth
  PROVE  Rest(n) \in Seq(Value)
<1>1. Depth \in Nat
  BY LenProperties DEF Depth
<1>2. Depth - n \in Nat /\ Depth - n <= Depth
  BY <1>1
<1> QED BY <1>2 DEF Rest, Depth

LEMMA TopType ==
  ASSUME stack \in Seq(Value), 1 <= Depth
  PROVE  Top \in Value
BY ElementOfSeq, LenProperties DEF Top, Depth

\* The arguments of a request are values.
LEMMA ArgType ==
  ASSUME VMInv, NEW id, HasArg(id)
  PROVE  Arg(id) \in Value
BY VMAssumption DEF VMInv, HasArg, Arg

LEMMA PendingType ==
  ASSUME VMInv
  PROVE  /\ Pending \in Seq(Errors)
         /\ Options \in Seq(Errors)
         /\ expr.fallback \in Nat \cup {NoId} /\ expr.pending \in Seq(Errors)
         /\ expr.options \in Seq(Errors)
         /\ FallbackValue \in Value
         /\ HasFallback => expr.fallback \in Nat
<1>1. /\ expr.fallback \in Nat \cup {NoId} /\ expr.pending \in Seq(Errors)
      /\ expr.options \in Seq(Errors)
  BY DEF VMInv, TypeOK, ExprState
<1>2. HasFallback => expr.fallback \in Nat
  BY <1>1 DEF HasFallback
<1>3. FallbackValue \in Value
  BY <1>2, ValueType DEF FallbackValue, Kinds
<1> QED BY <1>1, <1>2, <1>3 DEF Pending, Options

\* Errors are noted and reported in sequences of errors.
LEMMA NotedType ==
  ASSUME NEW list \in Seq(Errors), NEW error \in Errors
  PROVE  Noted(list, error) \in Seq(Errors)
<1>1. "Any" \in Errors
  BY DEF Errors
<1> QED BY <1>1, AppendProperties DEF Noted

LEMMA ReportType ==
  ASSUME diags \in Seq(Errors), NEW errors \in Seq(Errors), Report(errors)
  PROVE  diags' \in Seq(Errors)
BY ConcatProperties DEF Report

\* An error is reported for each option that failed.
LEMMA BadOptionsType ==
  ASSUME VMInv, Running
  PROVE  BadOptions \in Seq(Errors)
<1> DEFINE bad == {k \in 1..I.optc : IsFallback(stack[Depth - 2 * k + 2])}
<1>1. Cardinality(bad) \in Nat
  <2>1. IsFiniteSet(1..I.optc)
    <3>1. I.optc \in Int
      BY InstructionType
    <3> QED BY <3>1, FS_Interval
  <2>2. IsFiniteSet(bad)
    BY <2>1, FS_Subset
  <2> QED BY <2>2, FS_CardinalityType
<1>2. [n \in 1..Cardinality(bad) |-> "BadOption"] \in Seq(Errors)
  BY <1>1, SeqDef DEF Errors
<1> QED BY <1>2, PendingType, ConcatProperties DEF BadOptions

-----------------------------------------------------------------------------
(* The invariant. *)

\* The state that format_to starts from and returns to.
LEMMA CleanTypes ==
  /\ NoSelector \in Selector /\ CleanExpr \in ExprState
  /\ \A S : <<>> \in Seq(S)
<1>1. NoSelector \in Selector
  BY ValueType DEF NoSelector, Selector
<1>2. CleanExpr \in ExprState
  BY EmptySeq DEF CleanExpr, ExprState, NoId
<1> QED BY <1>1, <1>2, EmptySeq

LEMMA VMInitial == Init => VMInv
<1> SUFFICES ASSUME Init PROVE VMInv
  OBVIOUS
<1>1. TypeOK
  BY CleanTypes DEF Init, Fresh, TypeOK, Quiescent, Outcomes, Unlimited
<1>2. FallbackOnlyAtConsumer /\ DirectOutputIsConsumed
  BY DEF Init, Fresh, FallbackOnlyAtConsumer, DirectOutputIsConsumed
<1> QED BY <1>1, <1>2 DEF Init, Fresh, VMInv

\* Every return leaves the formatter quiescent.
LEMMA ReturnKeeps ==
  ASSUME VMInv, NEW outcome \in Outcomes, Return(outcome),
         out' \in Seq(Chunk), diags' \in Seq(Errors)
  PROVE  VMInv'
<1>1. TypeOK'
  BY CleanTypes DEF VMInv, Return, TypeOK, Quiescent
<1>2. FallbackOnlyAtConsumer' /\ DirectOutputIsConsumed'
  BY DEF Return, FallbackOnlyAtConsumer, DirectOutputIsConsumed
<1> QED BY <1>1, <1>2 DEF VMInv, Return

\* An instruction that proceeds keeps the invariant if what it writes has its type,
\* if it consumes the fallback when it is one that may, or sets one for an
\* instruction that may, and if it leaves the direct flag to an OutVal only.
LEMMA ExecutesKeeps ==
  ASSUME VMInv, NEW ops, Executes(ops),
         pc' \in Nat, stack' \in Seq(Value), locals' \in Seq(Value),
         selector' \in Selector, expr' \in ExprState, direct' \in BOOLEAN,
         out' \in Seq(Chunk), diags' \in Seq(Errors),
         \/ expr'.fallback = NoId
         \/ expr'.fallback = expr.fallback /\ I.op \notin Consumers
         \/ pc' = Next1 /\ catalog.code[Next1].op \in Consumers,
         \/ direct' = FALSE
         \/ direct' = direct /\ I.op # "OutVal"
         \/ pc' = Next1 /\ catalog.code[Next1].op = "OutVal" /\ ~call.structured
  PROVE  VMInv'
<1>1. /\ status' = "running" /\ status = "running" /\ result' = result /\ call' = call
      /\ catalog' = catalog
  BY DEF Executes, Running
<1>2. fuel' \in Nat \cup {Unlimited}
  BY DEF Executes, Running, VMInv, TypeOK, Unlimited
<1>3. TypeOK'
  BY <1>1, <1>2 DEF VMInv, TypeOK, Quiescent
<1>4. FallbackOnlyAtConsumer'
  BY <1>1 DEF VMInv, FallbackOnlyAtConsumer, HasFallback, I, Next1
<1>5. DirectOutputIsConsumed'
  BY <1>1 DEF VMInv, DirectOutputIsConsumed, I, Next1
<1> QED BY <1>1, <1>3, <1>4, <1>5 DEF VMInv

\* Of a non-empty set of option pairs there is a first one.
LEMMA FirstPairExists ==
  ASSUME NEW ks \in SUBSET Nat, ks # {}
  PROVE  FirstPair(ks) \in ks
<1> DEFINE less == {p \in Nat \X Nat : p[1] < p[2]}
<1>1. less = OpToRel(<, Nat)
  BY DEF OpToRel
<1>2. IsWellFoundedOn(less, Nat)
  BY <1>1, NatLessThanWellFounded
<1>3. PICK k \in ks : \A other \in ks : <<other, k>> \notin less
  <2> HIDE DEF less
  <2> QED BY <1>2, WFMin
<1>4. ASSUME NEW other \in ks PROVE k <= other
  <2>1. k \in Nat /\ other \in Nat
    BY <1>3
  <2>2. other < k => <<other, k>> \in less
    BY <2>1
  <2> QED BY <1>3, <2>1, <2>2
<1> QED BY <1>3, <1>4 DEF FirstPair

\* An instruction without a fault has enough operands, and its slot is in use.
LEMMA NoFault ==
  ASSUME VMInv, Running, ExecFault(I) = "None"
  PROVE  /\ ~(Depth < Takes(I))
         /\ ~(I.op \in {"LoadLocal", "CheckSelector", "SelectLocal"} /\ I.id >= Len(locals))
<1>1. ~(I.op \in Calls \cup Markups /\ FaultyPairs(I) # {})
  <2> SUFFICES ASSUME I.op \in Calls \cup Markups, FaultyPairs(I) # {} PROVE FALSE
    OBVIOUS
  <2>1. PairFault(I, FirstPair(FaultyPairs(I))) # "None"
    <3>1. FaultyPairs(I) \in SUBSET Nat
      BY InstructionType DEF FaultyPairs
    <3>2. FirstPair(FaultyPairs(I)) \in FaultyPairs(I)
      BY <3>1, FirstPairExists
    <3> QED BY <3>2 DEF FaultyPairs
  <2> QED BY <2>1 DEF ExecFault
<1> QED BY <1>1 DEF ExecFault

\* An instruction that proceeds finds on the stack what it pops, and in the locals
\* what it reads.
LEMMA ExecutesReads ==
  ASSUME VMInv, NEW ops, Executes(ops)
  PROVE  /\ Running /\ I.op \in ops /\ I \in Instruction /\ I.id \in Nat
         /\ I.argc \in Nat /\ I.optc \in Nat
         /\ Rest(Takes(I)) \in Seq(Value)
         /\ 1 <= Takes(I) => Top \in Value
         /\ I.op \in {"LoadLocal", "CheckSelector", "SelectLocal"} =>
              locals[I.id + 1] \in Value
         /\ stack \in Seq(Value) /\ locals \in Seq(Value) /\ selector \in Selector
         /\ expr \in ExprState /\ direct \in BOOLEAN /\ out \in Seq(Chunk)
         /\ diags \in Seq(Errors)
         /\ Next1 \in Nat
<1>1. Running /\ I.op \in ops /\ ExecFault(I) = "None"
  BY DEF Executes
<1>2. /\ I \in Instruction /\ I.id \in Nat /\ I.argc \in Nat /\ I.optc \in Nat
      /\ Takes(I) \in Nat /\ Next1 \in Nat
  BY <1>1, InstructionType, TakesType
<1>3. /\ stack \in Seq(Value) /\ locals \in Seq(Value) /\ selector \in Selector
      /\ expr \in ExprState /\ direct \in BOOLEAN /\ out \in Seq(Chunk)
      /\ diags \in Seq(Errors)
  BY DEF VMInv, TypeOK
<1>4. ~(Depth < Takes(I))
  BY <1>1, NoFault
<1>5. Depth \in Nat
  BY <1>3, LenProperties DEF Depth
<1>6. Takes(I) <= Depth
  BY <1>2, <1>4, <1>5
<1>7. Rest(Takes(I)) \in Seq(Value)
  BY <1>2, <1>3, <1>6, RestType
<1>8. 1 <= Takes(I) => Top \in Value
  BY <1>2, <1>3, <1>5, <1>6, TopType
<1>9. I.op \in {"LoadLocal", "CheckSelector", "SelectLocal"} => locals[I.id + 1] \in Value
  <2>1. I.op \in {"LoadLocal", "CheckSelector", "SelectLocal"} => ~(I.id >= Len(locals))
    BY <1>1, NoFault
  <2>2. Len(locals) \in Nat
    BY <1>3, LenProperties
  <2> QED BY <1>2, <1>3, <2>1, <2>2, ElementOfSeq
<1> QED BY <1>1, <1>2, <1>3, <1>7, <1>8, <1>9

\* What is output or pushed has its type.
LEMMA EmitType ==
  ASSUME out \in Seq(Chunk), NEW what \in {"literal", "value", "fallback", "direct", "markup"},
         NEW text \in Nat, Emit(what, text)
  PROVE  out' \in Seq(Chunk)
<1>1. [what |-> what, text |-> text] \in Chunk
  BY DEF Chunk
<1> QED BY <1>1, AppendProperties DEF Emit

LEMMA OutputType ==
  ASSUME out \in Seq(Chunk), NEW v \in Value, Output(v)
  PROVE  out' \in Seq(Chunk)
<1>1. v.text \in Nat
  BY DEF Value
<1> QED BY <1>1, EmitType DEF Output

LEMMA PushType ==
  ASSUME NEW s \in Seq(Value), NEW v \in Value
  PROVE  Append(s, v) \in Seq(Value)
BY AppendProperties

\* Most instructions touch neither the fallback nor the flag.
LEMMA PlainKeeps ==
  ASSUME VMInv, NEW ops, Executes(ops), ops \cap (Consumers \cup {"OutVal"}) = {},
         expr' \in ExprState, expr'.fallback = expr.fallback, direct' = direct,
         pc' \in Nat, stack' \in Seq(Value), locals' \in Seq(Value),
         selector' \in Selector, out' \in Seq(Chunk), diags' \in Seq(Errors)
  PROVE  VMInv'
<1>1. I.op \notin Consumers /\ I.op # "OutVal"
  BY ExecutesReads
<1>2. direct' \in BOOLEAN
  BY ExecutesReads
<1> QED BY <1>1, <1>2, ExecutesKeeps

\* Where an instruction of the first group goes, and what selecting leaves.
LEMMA JumpType ==
  ASSUME VMInv, NEW ops, Executes(ops), ops \subseteq Jumps
  PROVE  JumpTarget(catalog.code, pc) \in Nat
BY ExecutesReads, InstructionType

LEMMA SelectType ==
  ASSUME NEW kind \in {"None", "Borrowed", "Invalid", "Stored", "Local"},
         NEW v \in Value, NEW slot \in Nat, Select(kind, v, slot)
  PROVE  selector' \in Selector
BY DEF Select, Selector

LEMMA SilentType == ASSUME VMInv, Silent PROVE diags' \in Seq(Errors)
BY DEF Silent, VMInv, TypeOK

LEMMA FaultType == ExecFault(I) \in Outcomes \cup {"None"}
<1>1. \A i, key : KeyFault(i, key) \in Outcomes \cup {"None"}
  BY DEF KeyFault, Outcomes
<1>2. \A i, k : PairFault(i, k) \in Outcomes \cup {"None"}
  BY <1>1 DEF PairFault, Outcomes
<1> QED BY <1>2 DEF ExecFault, Outcomes

LEMMA ErrorSeqs ==
  /\ \A e \in Errors : <<e>> \in Seq(Errors)
  /\ \A e, f \in Errors : <<e, f>> \in Seq(Errors)
  /\ \A s, t \in Seq(Errors) : s \o t \in Seq(Errors)
  /\ <<>> \in Seq(Errors)
BY ConcatProperties, EmptySeq

-----------------------------------------------------------------------------
(* One lemma per group of instructions. *)

LEMMA EndsKeep == VMInv /\ (Begin \/ Halt \/ Fail) => VMInv'
<1> SUFFICES ASSUME VMInv, Begin \/ Halt \/ Fail PROVE VMInv'
  OBVIOUS
<1>0. out \in Seq(Chunk) /\ diags \in Seq(Errors)
  BY DEF VMInv, TypeOK
<1>1. CASE Begin
  <2>1. PICK request \in Requests :
          call' = request /\ pc' = request.entry /\ fuel' = request.fuel
    BY <1>1 DEF Begin
  <2>2. request.entry \in Nat /\ request.fuel \in Nat \cup {Unlimited}
    BY VMAssumption
  <2>3. /\ status' = "running" /\ result' = "None" /\ out' = <<>> /\ diags' = <<>>
        /\ UNCHANGED <<catalog, stack, locals, selector, expr, direct>>
        /\ expr = CleanExpr /\ direct = FALSE
    BY <1>1 DEF Begin, VMInv, TypeOK, Quiescent
  <2>4. TypeOK'
    BY <2>1, <2>2, <2>3, CleanTypes DEF VMInv, TypeOK, Quiescent, Outcomes
  <2>5. ~HasFallback'
    BY <2>3 DEF HasFallback, CleanExpr
  <2> QED
    BY <2>1, <2>3, <2>4, <2>5 DEF VMInv, FallbackOnlyAtConsumer, DirectOutputIsConsumed
<1>2. CASE Halt
  <2>1. "Ok" \in Outcomes
    BY DEF Outcomes
  <2> QED BY <1>0, <1>2, <2>1, ReturnKeeps DEF Halt
<1>3. CASE Fail
  <2>1. PICK outcome \in Outcomes : Return(outcome)
    <3>1. "FuelExhausted" \in Outcomes /\ "Decode" \in Outcomes
      BY DEF Outcomes
    <3> QED BY <1>3, <3>1, FaultType DEF Fail
  <2> QED BY <1>0, <1>3, <2>1, ReturnKeeps DEF Fail
<1> QED BY <1>1, <1>2, <1>3

LEMMA JumpsKeep == VMInv /\ (TakeJump \/ JmpIfFalse \/ CaseStr) => VMInv'
<1> SUFFICES ASSUME VMInv, TakeJump \/ JmpIfFalse \/ CaseStr PROVE VMInv'
  OBVIOUS
<1>1. CASE TakeJump
  BY <1>1, ExecutesReads, JumpType, PlainKeeps DEF TakeJump, GoTo, Consumers, Calls, Jumps, JumpOnly
<1>2. CASE JmpIfFalse
  <2>1. Executes({"JmpIfFalse"}) /\ stack' = Rest(1)
    BY <1>2 DEF JmpIfFalse
  <2>2. Takes(I) = 1
    BY <2>1, ExecutesReads DEF Takes, Uses, Calls, Markups
  <2>3. stack' \in Seq(Value)
    BY <2>1, <2>2, ExecutesReads
  <2>4. pc' \in Nat
    BY <1>2, <2>1, ExecutesReads, JumpType DEF JmpIfFalse, GoTo, Jumps, Conditional
  <2> QED
    BY <1>2, <2>1, <2>3, <2>4, ExecutesReads, PlainKeeps DEF JmpIfFalse, Consumers, Calls
<1>3. CASE CaseStr
  <2>1. pc' \in Nat
    BY <1>3, ExecutesReads, JumpType DEF CaseStr, GoTo, Advance, Jumps, Conditional
  <2> QED BY <1>3, <2>1, ExecutesReads, PlainKeeps DEF CaseStr, Consumers, Calls
<1> QED BY <1>1, <1>2, <1>3

LEMMA LoadsKeep == VMInv /\ (PushConst \/ LoadArg \/ LoadOptionArg \/ LoadLocal) => VMInv'
<1> SUFFICES ASSUME VMInv, PushConst \/ LoadArg \/ LoadOptionArg \/ LoadLocal PROVE VMInv'
  OBVIOUS
<1>0. \A list \in Seq(Errors) : Noted(list, "MissingArg") \in Seq(Errors)
  BY NotedType DEF Errors
<1>1. CASE PushConst
  <2>1. Val("StrRef", I.id) \in Value
    BY <1>1, ExecutesReads, ValueType DEF PushConst, Kinds
  <2> QED
    BY <1>1, <2>1, ExecutesReads, PushType, PlainKeeps
    DEF PushConst, Push, Advance, GoTo, Consumers, Calls
<1>2. CASE LoadArg
  <2>1. stack' \in Seq(Value)
    BY <1>2, ExecutesReads, PushType, ArgType, ValueType DEF LoadArg, Push
  <2>2. expr' \in ExprState /\ expr'.fallback = expr.fallback
    BY <1>0, <1>2, ExecutesReads DEF LoadArg, ExprState
  <2> QED
    BY <1>2, <2>1, <2>2, ExecutesReads, PlainKeeps DEF LoadArg, Advance, GoTo, Consumers, Calls
<1>3. CASE LoadOptionArg
  <2>1. Val("Fallback", I.fb) \in Value
    BY <1>3, ExecutesReads, InstructionType, ValueType DEF LoadOptionArg, Kinds
  <2>2. stack' \in Seq(Value)
    BY <1>3, <2>1, ExecutesReads, PushType, ArgType DEF LoadOptionArg, Push
  <2>3. expr' \in ExprState /\ expr'.fallback = expr.fallback
    BY <1>0, <1>3, ExecutesReads DEF LoadOptionArg, ExprState
  <2> QED
    BY <1>3, <2>2, <2>3, ExecutesReads, PlainKeeps
    DEF LoadOptionArg, Advance, GoTo, Consumers, Calls
<1>4. CASE LoadLocal
  BY <1>4, ExecutesReads, PushType, PlainKeeps
  DEF LoadLocal, Push, Advance, GoTo, Consumers, Calls
<1> QED BY <1>1, <1>2, <1>3, <1>4

LEMMA DeclarationsKeep ==
  VMInv /\ (StoreLocal \/ StoreNowhere \/ ResolveString \/ ExprFallback) => VMInv'
<1> SUFFICES ASSUME VMInv, StoreLocal \/ StoreNowhere \/ ResolveString \/ ExprFallback
             PROVE  VMInv'
  OBVIOUS
<1>1. CASE StoreLocal
  <2>1. Takes(I) = 1 /\ Executes({"StoreLocal"})
    BY <1>1, ExecutesReads DEF StoreLocal, Takes, Uses, Calls, Markups
  <2>2. stack' \in Seq(Value) /\ Top \in Value
    BY <1>1, <2>1, ExecutesReads DEF StoreLocal
  <2>3. Declared(Top) \in Value
    BY <2>2, PendingType, ValueType DEF Declared, IsFallback, Kinds
  <2>4. locals' \in Seq(Value)
    <3>1. I.id \in Nat /\ Len(locals) \in Nat /\ I.id <= Len(locals) /\ locals \in Seq(Value)
      BY <1>1, <2>1, ExecutesReads, LenProperties DEF StoreLocal
    <3>2. CASE I.id = Len(locals)
      BY <1>1, <2>3, <3>1, <3>2, PushType DEF StoreLocal
    <3>3. CASE I.id # Len(locals)
      <4>1. I.id + 1 \in 1..Len(locals)
        BY <3>1, <3>3
      <4> QED BY <1>1, <2>3, <3>1, <3>3, <4>1, ExceptSeq DEF StoreLocal
    <3> QED BY <3>2, <3>3
  <2>5. diags' \in Seq(Errors)
    BY <1>1, <2>1, PendingType, ReportType, ExecutesReads DEF StoreLocal
  <2>6. expr' \in ExprState /\ expr'.fallback = NoId
    BY <1>1, <2>1, PendingType, ErrorSeqs, ExecutesReads DEF StoreLocal, ExprState
  <2>7. I.op # "OutVal"
    BY <2>1, ExecutesReads
  <2> QED
    BY <1>1, <2>1, <2>2, <2>4, <2>5, <2>6, <2>7, ExecutesReads, ExecutesKeeps
    DEF StoreLocal, Advance, GoTo
<1>2. CASE StoreNowhere
  <2>1. "InvalidLocalSlot" \in Outcomes
    BY DEF Outcomes
  <2>2. diags' \in Seq(Errors) /\ out' \in Seq(Chunk)
    BY <1>2, PendingType, ReportType DEF StoreNowhere, VMInv, TypeOK
  <2> QED BY <1>2, <2>1, <2>2, ReturnKeeps DEF StoreNowhere
<1>3. CASE ResolveString
  <2>1. Takes(I) = 1 /\ Executes({"ResolveString"})
    BY <1>3, ExecutesReads DEF ResolveString, Takes, Uses, Calls, Markups
  <2>2. Rest(1) \in Seq(Value) /\ Top \in Value
    BY <2>1, ExecutesReads
  <2>3. Val("String", IF IsNull(Top) THEN EmptyText ELSE Top.text) \in Value
    <3>1. Top.text \in Nat /\ EmptyText \in Nat
      BY <2>2, VMAssumption DEF Value
    <3> QED BY <3>1, ValueType DEF Kinds
  <2>4. stack' \in Seq(Value)
    BY <1>3, <2>2, <2>3, PendingType, PushType DEF ResolveString
  <2>5. diags' \in Seq(Errors)
    <3>1. "BadOperand" \in Errors
      BY DEF Errors
    <3>2. Pending \o (IF Top.kind = "FunctionFallback" THEN <<"BadOperand">> ELSE <<>>)
            \in Seq(Errors)
      BY <3>1, PendingType, ErrorSeqs
    <3> QED BY <1>3, <2>1, <3>2, ReportType, SilentType, ExecutesReads DEF ResolveString
  <2>6. expr' \in ExprState /\ expr'.fallback = NoId
    BY <1>3, <2>1, ErrorSeqs, ExecutesReads DEF ResolveString, ExprState
  <2>7. I.op # "OutVal"
    BY <2>1, ExecutesReads
  <2> QED
    BY <1>3, <2>1, <2>4, <2>5, <2>6, <2>7, ExecutesReads, ExecutesKeeps
    DEF ResolveString, Advance, GoTo
<1>4. CASE ExprFallback
  <2>1. Executes({"ExprFallback"}) /\ I.op = "ExprFallback"
    BY <1>4, ExecutesReads DEF ExprFallback
  <2>2. expr' \in ExprState
    BY <1>4, <2>1, ExecutesReads DEF ExprFallback, ExprState
  <2>3. pc' = Next1 /\ catalog.code[Next1].op \in Consumers
    BY <1>4, <2>1, ExecutesReads, InstructionType DEF ExprFallback, Advance, GoTo
  <2> QED
    BY <1>4, <2>1, <2>2, <2>3, ExecutesReads, ExecutesKeeps DEF ExprFallback
<1> QED BY <1>1, <1>2, <1>3, <1>4

LEMMA OutputsKeep == VMInv /\ (OutLiteral \/ OutArg \/ OutVal \/ EmitMarkup) => VMInv'
<1> SUFFICES ASSUME VMInv, OutLiteral \/ OutArg \/ OutVal \/ EmitMarkup PROVE VMInv'
  OBVIOUS
<1>1. CASE OutLiteral
  <2>1. out' \in Seq(Chunk)
    BY <1>1, ExecutesReads, EmitType DEF OutLiteral
  <2> QED
    BY <1>1, <2>1, ExecutesReads, PlainKeeps DEF OutLiteral, Advance, GoTo, Consumers, Calls
<1>2. CASE OutArg
  <2>1. Executes({"OutArg"})
    BY <1>2 DEF OutArg
  <2>2. out' \in Seq(Chunk)
    BY <1>2, <2>1, ExecutesReads, EmitType, OutputType, ArgType DEF OutArg
  <2>3. diags' \in Seq(Errors)
    <3>1. <<"MissingArg">> \in Seq(Errors)
      BY ErrorSeqs DEF Errors
    <3> QED BY <1>2, <2>1, <3>1, ExecutesReads, SilentType, ReportType DEF OutArg
  <2> QED
    BY <1>2, <2>1, <2>2, <2>3, ExecutesReads, PlainKeeps
    DEF OutArg, Advance, GoTo, Consumers, Calls
<1>3. CASE OutVal
  <2>1. Executes({"OutVal"}) /\ I.op \notin Consumers /\ Takes(I) = IF direct THEN 0 ELSE 1
    BY <1>3, ExecutesReads DEF OutVal, Consumers, Calls, Markups, Takes, Uses
  <2>2. stack' \in Seq(Value) /\ out' \in Seq(Chunk) /\ direct' = FALSE
    BY <1>3, <2>1, ExecutesReads, OutputType DEF OutVal
  <2> QED BY <1>3, <2>1, <2>2, ExecutesReads, ExecutesKeeps DEF OutVal, Advance, GoTo
<1>4. CASE EmitMarkup
  <2>1. Executes(Markups) /\ Takes(I) = 2 * I.optc
    BY <1>4, ExecutesReads DEF EmitMarkup, Takes, Uses, Calls, Markups
  <2>2. stack' \in Seq(Value) /\ out' \in Seq(Chunk)
    BY <1>4, <2>1, ExecutesReads, EmitType DEF EmitMarkup
  <2>3. diags' \in Seq(Errors)
    <3>1. <<"BadOption">> \in Seq(Errors) /\ <<>> \in Seq(Errors)
      BY ErrorSeqs DEF Errors
    <3> QED BY <1>4, <2>1, <3>1, ExecutesReads, ReportType DEF EmitMarkup
  <2> QED
    BY <1>4, <2>1, <2>2, <2>3, ExecutesReads, PlainKeeps
    DEF EmitMarkup, Advance, GoTo, Consumers, Calls, Markups
<1> QED BY <1>1, <1>2, <1>3, <1>4

LEMMA SelectsKeep ==
  VMInv /\ (SelectArg \/ SelectStringArg \/ CheckSelector \/ SelectBegin \/ SelectLocal
              \/ SelectEnd \/ ProjectSelect) => VMInv'
<1> SUFFICES ASSUME VMInv, SelectArg \/ SelectStringArg \/ CheckSelector \/ SelectBegin
                             \/ SelectLocal \/ SelectEnd \/ ProjectSelect
             PROVE  VMInv'
  OBVIOUS
<1> USE DEF Advance, GoTo, Consumers, Calls
<1>0. /\ <<"MissingArg">> \in Seq(Errors) /\ <<"MissingArg", "BadSelector">> \in Seq(Errors)
      /\ <<"BadSelector">> \in Seq(Errors) /\ <<>> \in Seq(Errors)
      /\ HostReports \subseteq Seq(Errors)
  BY ErrorSeqs DEF Errors, HostReports
<1>1. ASSUME NEW v, Check(v) PROVE diags' \in Seq(Errors)
  BY <1>0, <1>1, ReportType DEF Check, VMInv, TypeOK
<1>2. CASE SelectArg
  <2>1. selector' \in Selector
    BY <1>2, SelectType, ArgType, ValueType DEF SelectArg
  <2>2. diags' \in Seq(Errors)
    BY <1>0, <1>2, SilentType, ReportType DEF SelectArg, VMInv, TypeOK
  <2> QED BY <1>2, <2>1, <2>2, ExecutesReads, PlainKeeps DEF SelectArg
<1>3. CASE SelectStringArg
  <2>1. Val("String", EmptyText) \in Value
    BY VMAssumption, ValueType DEF Kinds
  <2>2. selector' \in Selector
    BY <1>3, <2>1, SelectType, ArgType, ValueType DEF SelectStringArg
  <2>3. diags' \in Seq(Errors)
    BY <1>0, <1>3, SilentType, ReportType DEF SelectStringArg, VMInv, TypeOK
  <2> QED BY <1>3, <2>2, <2>3, ExecutesReads, PlainKeeps DEF SelectStringArg
<1>4. CASE CheckSelector
  <2>1. diags' \in Seq(Errors)
    BY <1>1, <1>4 DEF CheckSelector
  <2> QED BY <1>4, <2>1, ExecutesReads, PlainKeeps DEF CheckSelector
<1>5. CASE SelectBegin
  <2>1. Executes({"SelectBegin"}) /\ Takes(I) = 1
    BY <1>5, ExecutesReads DEF SelectBegin, Takes, Uses, Markups
  <2>2. stack' \in Seq(Value) /\ selector' \in Selector
    BY <1>5, <2>1, ExecutesReads, SelectType DEF SelectBegin
  <2>3. diags' \in Seq(Errors)
    BY <1>1, <1>5 DEF SelectBegin
  <2> QED BY <1>5, <2>1, <2>2, <2>3, ExecutesReads, PlainKeeps DEF SelectBegin
<1>6. CASE SelectLocal
  <2>1. selector' \in Selector
    BY <1>6, ExecutesReads, SelectType, ValueType DEF SelectLocal
  <2> QED BY <1>6, <2>1, ExecutesReads, PlainKeeps DEF SelectLocal
<1>7. CASE SelectEnd
  BY <1>7, CleanTypes, ExecutesReads, PlainKeeps DEF SelectEnd
<1>8. CASE ProjectSelect
  <2>1. Executes({"ProjectSelect"}) /\ Takes(I) = 1
    BY <1>8, ExecutesReads DEF ProjectSelect, Takes, Uses, Markups
  <2>2. PICK v \in HostValues \cup {Null}, host \in HostReports :
          /\ stack' = Append(Rest(1), v)
          /\ Report(IF Unselectable(Top) THEN <<>>
                    ELSE IF IsNull(v) THEN host \o <<"BadSelector">> ELSE host)
    BY <1>8 DEF ProjectSelect
  <2>3. stack' \in Seq(Value)
    BY <2>1, <2>2, ExecutesReads, PushType, VMAssumption, ValueType
  <2>4. host \o <<"BadSelector">> \in Seq(Errors)
    BY <1>0, ErrorSeqs
  <2>5. diags' \in Seq(Errors)
    BY <1>0, <2>2, <2>4, ReportType DEF VMInv, TypeOK
  <2> QED BY <1>8, <2>1, <2>3, <2>5, ExecutesReads, PlainKeeps DEF ProjectSelect
<1> QED BY <1>2, <1>3, <1>4, <1>5, <1>6, <1>7, <1>8

\* A call that returns to the message, whether its function was called or not, clears
\* what was noted for its expression and pushes a value.
LEMMA CallKeeps ==
  ASSUME VMInv, Executes(Calls), NEW v \in Value, PopCall(v), expr' = CleanExpr,
         NEW errors \in Seq(Errors), Report(errors), pc' = Next1,
         direct' = FALSE, UNCHANGED <<locals, selector, out>>
  PROVE  VMInv'
<1>1. stack' \in Seq(Value) /\ diags' \in Seq(Errors)
  BY ExecutesReads, PushType, ReportType DEF PopCall
<1> QED BY <1>1, ExecutesReads, ExecutesKeeps, CleanTypes DEF CleanExpr

LEMMA CallsKeep ==
  VMInv /\ (SkipCall \/ CallReturns \/ CallWrites \/ CallRecovers \/ CallFails) => VMInv'
<1> SUFFICES ASSUME VMInv, SkipCall \/ CallReturns \/ CallWrites \/ CallRecovers \/ CallFails
             PROVE  VMInv'
  OBVIOUS
<1> USE DEF Advance, GoTo
<1>0. /\ <<"UnknownFunction">> \in Seq(Errors) /\ <<"Function">> \in Seq(Errors)
      /\ <<"BadSelector">> \in Seq(Errors) /\ <<>> \in Seq(Errors)
      /\ HostReports \subseteq Seq(Errors)
  BY ErrorSeqs DEF Errors, HostReports
<1>1. CASE SkipCall
  <2>1. PICK host \in {<<>>, <<"UnknownFunction">>, <<"Function">>} :
          Report(Pending \o host \o
                 IF IsSelect /\ expr.pending # <<>> THEN <<"BadSelector">> ELSE <<>>)
    BY <1>1 DEF SkipCall
  <2>2. Pending \o host \o (IF IsSelect /\ expr.pending # <<>> THEN <<"BadSelector">> ELSE <<>>)
          \in Seq(Errors)
    BY <1>0, PendingType, ErrorSeqs
  <2>3. (IF IsSelect THEN Null ELSE FallbackValue) \in Value
    BY PendingType, ValueType
  <2> QED BY <1>1, <2>1, <2>2, <2>3, CallKeeps DEF SkipCall
<1>2. CASE CallReturns
  <2>1. PICK v \in HostValues, host \in HostReports :
          /\ PopCall(v)
          /\ Report(BadOptions \o host \o IF IsSelect /\ IsNull(v) THEN <<"BadSelector">> ELSE <<>>)
    BY <1>2 DEF CallReturns
  <2>2. BadOptions \in Seq(Errors)
    BY <1>2, ExecutesReads, BadOptionsType DEF CallReturns
  <2>3. BadOptions \o host \o (IF IsSelect /\ IsNull(v) THEN <<"BadSelector">> ELSE <<>>)
          \in Seq(Errors)
    BY <1>0, <2>2, ErrorSeqs
  <2>4. v \in Value
    BY VMAssumption
  <2> QED BY <1>2, <2>1, <2>3, <2>4, CallKeeps DEF CallReturns
<1>3. CASE CallWrites
  <2>1. Executes(Calls) /\ I.op # "OutVal" /\ I.id \in Nat
    <3>1. Executes(Calls)
      BY <1>3 DEF CallWrites
    <3>2. I.op \in Calls /\ I.id \in Nat
      BY <3>1, ExecutesReads
    <3> QED BY <3>1, <3>2 DEF Calls
  <2>2. BadOptions \in Seq(Errors)
    BY <2>1, ExecutesReads, BadOptionsType
  <2>3. diags' \in Seq(Errors)
    <3>1. PICK host \in HostReports : Report(BadOptions \o host)
      BY <1>3 DEF CallWrites
    <3>2. BadOptions \o host \in Seq(Errors)
      BY <1>0, <2>2, ErrorSeqs
    <3> QED BY <3>1, <3>2, ReportType DEF VMInv, TypeOK
  <2>4. out' \in Seq(Chunk) /\ stack' \in Seq(Value)
    BY <1>3, <2>1, ExecutesReads, EmitType DEF CallWrites
  <2>5. pc' = Next1 /\ catalog.code[Next1].op = "OutVal" /\ ~call.structured
    BY <1>3 DEF CallWrites, WritesDirectly, PeeksNext
  <2>6. expr' = CleanExpr /\ direct' = TRUE /\ UNCHANGED <<locals, selector>>
    BY <1>3 DEF CallWrites
  <2>7. expr' \in ExprState /\ expr'.fallback = NoId
    BY <2>6, CleanTypes DEF CleanExpr
  <2> QED
    BY <2>1, <2>3, <2>4, <2>5, <2>6, <2>7, ExecutesReads, ExecutesKeeps
<1>4. CASE CallRecovers
  <2>1. PICK error \in HostErrors, host \in HostReports :
          Report(BadOptions \o host \o <<IF IsSelect THEN "BadSelector" ELSE error>>)
    BY <1>4 DEF CallRecovers
  <2>2. BadOptions \in Seq(Errors)
    BY <1>4, ExecutesReads, BadOptionsType DEF CallRecovers
  <2>3. <<IF IsSelect THEN "BadSelector" ELSE error>> \in Seq(Errors)
    BY <1>0 DEF HostErrors
  <2>4. BadOptions \o host \o <<IF IsSelect THEN "BadSelector" ELSE error>> \in Seq(Errors)
    BY <1>0, <2>2, <2>3, ErrorSeqs
  <2>5. (IF IsSelect THEN Null ELSE Val("FunctionFallback", expr.fallback)) \in Value
    BY <1>4, PendingType, ValueType DEF CallRecovers, Kinds
  <2> QED BY <1>4, <2>1, <2>4, <2>5, CallKeeps DEF CallRecovers
<1>5. CASE CallFails
  <2>1. PICK host \in HostReports : Report(BadOptions \o host)
    BY <1>5 DEF CallFails
  <2>2. PICK error \in HostErrors : Return(error)
    BY <1>5 DEF CallFails
  <2>3. BadOptions \o host \in Seq(Errors)
    BY <1>0, <1>5, BadOptionsType, ErrorSeqs DEF CallFails
  <2>4. diags' \in Seq(Errors)
    BY <2>1, <2>3, ReportType DEF VMInv, TypeOK
  <2>5. error \in Outcomes /\ out' \in Seq(Chunk)
    BY <1>5 DEF HostErrors, Outcomes, CallFails, VMInv, TypeOK
  <2> QED BY <2>2, <2>4, <2>5, ReturnKeeps
<1> QED BY <1>1, <1>2, <1>3, <1>4, <1>5

-----------------------------------------------------------------------------
LEMMA VMStep == VMInv /\ [Next]_vmVars => VMInv'
<1> SUFFICES ASSUME VMInv, [Next]_vmVars PROVE VMInv'
  OBVIOUS
<1>1. CASE Next
  BY <1>1, EndsKeep, JumpsKeep, LoadsKeep, DeclarationsKeep, OutputsKeep, SelectsKeep, CallsKeep
  DEF Next, Instruct
<1>2. CASE UNCHANGED vmVars
  BY <1>2 DEF vmVars, exec, VMInv, TypeOK, Quiescent, FallbackOnlyAtConsumer, HasFallback,
     DirectOutputIsConsumed, I
<1> QED BY <1>1, <1>2

LEMMA VMInvariant == Spec => []VMInv
BY VMInitial, VMStep, PTL DEF Spec

\* run_bytecode keeps its stack, slots, selector, expression state and output
\* well-typed for all code that passes 1 and 2 admit, all hosts and all arguments.
THEOREM VMTypeCorrect == Spec => []TypeOK
<1>1. VMInv => TypeOK
  BY DEF VMInv
<1> QED BY <1>1, VMInvariant, PTL

\* A fallback text is never there for another instruction to pick up: it is set for
\* the next one and gone after it, whatever becomes of the expression, and gone when
\* format_to returns in the middle of it.
THEOREM FallbackConsumed == Spec => []FallbackOnlyAtConsumer
<1>1. VMInv => FallbackOnlyAtConsumer
  BY DEF VMInv
<1> QED BY <1>1, VMInvariant, PTL

\* The flag that call_to wrote its output suppresses the OutVal after that call and
\* no other instruction, in no later message either.
THEOREM DirectConsumed == Spec => []DirectOutputIsConsumed
<1>1. VMInv => DirectOutputIsConsumed
  BY DEF VMInv
<1> QED BY <1>1, VMInvariant, PTL

-----------------------------------------------------------------------------
(* No error of another expression skips a call, in code that lowering wrote: *)
(* while an error is pending, the operand that failed is on the stack, below  *)
(* the options loaded since, and the instruction that ends its expression is  *)
(* ahead.                                                                    *)

OperandBelow(at, end) ==
    LET above == Cardinality(LoadsBetween(catalog, at, pc)) IN
    /\ EndsExpression(catalog, at, end)
    /\ at < pc /\ pc <= end
    /\ above < Depth
    /\ stack[Depth - above].kind = "Missing"

OwnOperand ==
    status = "running" /\ expr.pending # <<>> =>
        \E at, end \in DOMAIN catalog.code : OperandBelow(at, end)

OwnInv == VMInv /\ OwnOperand

Lowered == \A c \in Catalogs : OperandsTogether(c)

\* One instruction further there is one option more, or none.
LEMMA LoadsAreCounted ==
  ASSUME VMInv, OperandsTogether(catalog), Running, NEW at \in DOMAIN catalog.code, at <= pc
  PROVE  LET before == LoadsBetween(catalog, at, pc)
             after  == LoadsBetween(catalog, at, Next1)
         IN  /\ Cardinality(before) \in Nat
             /\ at < pc /\ I.op \in OptionLoads => Cardinality(after) = Cardinality(before) + 1
             /\ I.op \notin OptionLoads => after = before
             /\ at = pc => Cardinality(after) = 0
             /\ pc < Next1
             /\ \A end \in DOMAIN catalog.code : pc < end => Next1 <= end
<1> DEFINE before == LoadsBetween(catalog, at, pc)
           after  == LoadsBetween(catalog, at, Next1)
<1>1. /\ DOMAIN catalog.code \subseteq Nat /\ pc \in DOMAIN catalog.code
      /\ I \in Instruction
      /\ Next1 \in Nat /\ Next1 = pc + Width(I.op) /\ I = catalog.code[pc]
  BY InstructionType, DecodedAssumption DEF VMInv, Running, Decoded, Next1, NextPc, I
<1>2. Width(I.op) \in Nat /\ Width(I.op) > 0
  BY <1>1 DEF Instruction, Opcode, OneByte, FiveByte, NineByte, Calls, Markups, Width
<1>3. pc < Next1
  BY <1>1, <1>2
<1>4. \A p \in DOMAIN catalog.code : pc < p => Next1 <= p
  BY <1>1 DEF OperandsTogether, LaidOut, Next1
<1>5. IsFiniteSet(before) /\ Cardinality(before) \in Nat
  <2>1. before \subseteq at..pc
    BY <1>1 DEF LoadsBetween
  <2>2. IsFiniteSet(at..pc)
    <3>1. at \in Int /\ pc \in Int
      BY <1>1
    <3> QED BY <3>1, FS_Interval
  <2> QED BY <2>1, <2>2, FS_Subset, FS_CardinalityType
<1>6. \A p \in DOMAIN catalog.code : p < Next1 <=> p < pc \/ p = pc
  BY <1>1, <1>3, <1>4
<1>7. ASSUME I.op \notin OptionLoads PROVE after = before
  BY <1>1, <1>6, <1>7 DEF LoadsBetween
<1>8. ASSUME at < pc, I.op \in OptionLoads PROVE Cardinality(after) = Cardinality(before) + 1
  <2>1. after = before \cup {pc}
    BY <1>1, <1>6, <1>8 DEF LoadsBetween
  <2>2. pc \notin before
    BY <1>1 DEF LoadsBetween
  <2> QED BY <1>5, <2>1, <2>2, FS_AddElement
<1>9. ASSUME at = pc PROVE Cardinality(after) = 0
  <2>1. after = {}
    BY <1>1, <1>6, <1>9 DEF LoadsBetween
  <2> QED BY <2>1, FS_EmptySet
<1> QED BY <1>3, <1>4, <1>5, <1>7, <1>8, <1>9

\* While an error is pending, an instruction loads an option, sets the fallback or
\* ends the expression.
LEMMA PendingWithin ==
  ASSUME VMInv, OwnOperand, Running, expr.pending # <<>>
  PROVE  I.op \in OptionLoads \cup {"ExprFallback"} \cup Consumers
<1>1. PICK at \in DOMAIN catalog.code, end \in DOMAIN catalog.code : OperandBelow(at, end)
  BY DEF OwnOperand, Running
<1>2. at < pc /\ pc <= end /\ EndsExpression(catalog, at, end)
  BY <1>1 DEF OperandBelow
<1>3. pc \in Nat /\ end \in Nat
  BY DecodedAssumption DEF VMInv, TypeOK, Decoded
<1> QED BY <1>2, <1>3 DEF EndsExpression, Running, I

\* An instruction within an expression keeps the operand in its place.
LEMMA WithinKeeps ==
  ASSUME VMInv, OwnOperand, OperandsTogether(catalog), NEW ops, Executes(ops),
         pc' = Next1, expr'.pending = expr.pending,
         \/ /\ I.op \in OptionLoads
            /\ \E v : stack' = Append(stack, v)
         \/ I.op = "ExprFallback" /\ stack' = stack
  PROVE  OwnOperand'
<1> SUFFICES ASSUME expr.pending # <<>>
             PROVE  \E at, end \in DOMAIN catalog.code : OperandBelow(at, end)'
  BY DEF OwnOperand, Executes
<1>1. Running /\ catalog' = catalog /\ stack \in Seq(Value)
  BY ExecutesReads DEF Executes
<1>2. PICK at \in DOMAIN catalog.code, end \in DOMAIN catalog.code : OperandBelow(at, end)
  BY <1>1 DEF OwnOperand, Running
<1> DEFINE above == Cardinality(LoadsBetween(catalog, at, pc))
           after == Cardinality(LoadsBetween(catalog, at, Next1))
<1>3. /\ EndsExpression(catalog, at, end) /\ at < pc /\ pc <= end
      /\ above < Depth /\ stack[Depth - above].kind = "Missing"
  BY <1>2 DEF OperandBelow
<1>4. pc \in Nat /\ at \in Nat /\ end \in Nat /\ Next1 \in Nat
  BY ExecutesReads, DecodedAssumption DEF VMInv, TypeOK, Decoded
<1>5. pc < end
  <2>1. I.op \notin Consumers
    BY DEF OptionLoads, Consumers, Calls
  <2> QED BY <1>3, <1>4, <2>1 DEF EndsExpression, I
<1>6. /\ above \in Nat /\ pc < Next1 /\ Next1 <= end
      /\ I.op \in OptionLoads => after = above + 1
      /\ I.op \notin OptionLoads => after = above
  BY <1>1, <1>3, <1>4, <1>5, LoadsAreCounted
<1> HIDE DEF above, after
<1>7. Depth \in Nat
  BY <1>1, LenProperties DEF Depth
<1>8. CASE I.op \in OptionLoads
  <2>1. PICK v : stack' = Append(stack, v)
    BY <1>8 DEF OptionLoads
  <2>2. Depth' = Depth + 1 /\ \A n \in 1..Depth : stack'[n] = stack[n]
    BY <1>1, <2>1, AppendProperties DEF Depth
  <2>3. Depth' - after = Depth - above /\ Depth - above \in 1..Depth /\ after < Depth'
    BY <1>3, <1>6, <1>7, <1>8, <2>2
  <2>4. stack'[Depth' - after].kind = "Missing"
    BY <1>3, <2>2, <2>3
  <2> QED BY <1>1, <1>3, <1>4, <1>6, <2>3, <2>4 DEF OperandBelow, after
<1>9. CASE I.op = "ExprFallback"
  <2>1. I.op \notin OptionLoads
    BY <1>9 DEF OptionLoads
  <2>2. stack' = stack /\ Depth' = Depth
    BY <1>9, <2>1 DEF Depth
  <2> QED BY <1>1, <1>3, <1>4, <1>6, <2>1, <2>2 DEF OperandBelow, after
<1> QED BY <1>8, <1>9

LEMMA OwnStep ==
  ASSUME OwnInv, OperandsTogether(catalog), [Next]_vmVars
  PROVE  OwnOperand'
<1>1. VMInv /\ OwnOperand
  BY DEF OwnInv
<1>2. ASSUME expr'.pending = <<>> \/ status' = "idle" PROVE OwnOperand'
  BY <1>2 DEF OwnOperand
<1>3. CASE Begin
  BY <1>1, <1>2, <1>3 DEF Begin, VMInv, TypeOK, Quiescent, CleanExpr
<1>4. CASE Halt \/ Fail \/ StoreNowhere \/ CallFails
  BY <1>2, <1>4 DEF Halt, Fail, StoreNowhere, CallFails, Return
<1>5. CASE StoreLocal \/ ResolveString
  BY <1>1, <1>2, <1>5 DEF StoreLocal, ResolveString, VMInv, TypeOK, ExprState
<1>6. CASE SkipCall \/ CallReturns \/ CallWrites \/ CallRecovers
  BY <1>2, <1>6 DEF SkipCall, CallReturns, CallWrites, CallRecovers, CleanExpr
<1>7. ASSUME NEW ops, Executes(ops), UNCHANGED expr,
             ops \cap (OptionLoads \cup {"ExprFallback"} \cup Consumers) = {}
      PROVE  OwnOperand'
  <2>1. Running /\ I.op \in ops
    BY <1>7 DEF Executes
  <2>2. expr.pending = <<>>
    BY <1>1, <1>7, <2>1, PendingWithin
  <2> QED BY <1>2, <1>7, <2>2
<1>8. CASE TakeJump \/ JmpIfFalse \/ CaseStr
  BY <1>7, <1>8 DEF TakeJump, JmpIfFalse, CaseStr, OptionLoads, Consumers, Calls
<1>9. CASE OutLiteral \/ OutArg \/ OutVal \/ EmitMarkup
  BY <1>7, <1>9 DEF OutLiteral, OutArg, OutVal, EmitMarkup, OptionLoads, Consumers, Calls, Markups
<1>10. CASE SelectArg \/ SelectStringArg \/ CheckSelector \/ SelectBegin \/ SelectLocal
            \/ SelectEnd \/ ProjectSelect
  BY <1>7, <1>10 DEF SelectArg, SelectStringArg, CheckSelector, SelectBegin, SelectLocal, SelectEnd,
                     ProjectSelect, OptionLoads, Consumers, Calls
<1>11. CASE PushConst \/ LoadLocal \/ LoadOptionArg
  <2>1. PICK ops : Executes(ops) /\ ops \subseteq OptionLoads
    BY <1>11 DEF PushConst, LoadLocal, LoadOptionArg, OptionLoads
  <2>2. I.op \in OptionLoads /\ pc' = Next1
    BY <1>11, <2>1 DEF Executes, PushConst, LoadLocal, LoadOptionArg, Advance, GoTo
  <2>3. expr'.pending = expr.pending
    BY <1>1, <1>11 DEF PushConst, LoadLocal, LoadOptionArg, VMInv, TypeOK, ExprState
  <2>4. \E v : stack' = Append(stack, v)
    BY <1>11 DEF PushConst, LoadLocal, LoadOptionArg, Push
  <2> QED BY <1>1, <2>1, <2>2, <2>3, <2>4, WithinKeeps
<1>12. CASE ExprFallback
  <2>1. Executes({"ExprFallback"}) /\ I.op = "ExprFallback" /\ pc' = Next1 /\ stack' = stack
    BY <1>12 DEF ExprFallback, Executes, Advance, GoTo
  <2>2. expr'.pending = expr.pending
    BY <1>1, <1>12 DEF ExprFallback, VMInv, TypeOK, ExprState
  <2> QED BY <1>1, <2>1, <2>2, WithinKeeps
<1>13. CASE LoadArg
  <2>1. Executes({"LoadArg"}) /\ Running /\ I.op = "LoadArg" /\ pc' = Next1 /\ catalog' = catalog
    BY <1>13 DEF LoadArg, Executes, Advance, GoTo
  <2>2. expr.pending = <<>>
    BY <1>1, <2>1, PendingWithin DEF OptionLoads, Consumers, Calls
  <2>3. CASE HasArg(I.id)
    BY <1>2, <1>13, <2>2, <2>3 DEF LoadArg
  <2>4. CASE ~ HasArg(I.id)
    <3>1. PICK at \in DOMAIN catalog.code : at = pc
      BY <2>1 DEF Running
    <3>2. PICK end \in DOMAIN catalog.code : EndsExpression(catalog, at, end)
      BY <2>1, <3>1 DEF OperandsTogether, I
    <3>3. at < end
      BY <3>2 DEF EndsExpression
    <3>4. /\ at < Next1 /\ Next1 <= end
          /\ Cardinality(LoadsBetween(catalog, at, Next1)) = 0
      BY <1>1, <2>1, <3>1, <3>3, LoadsAreCounted DEF VMInv, TypeOK
    <3>5. stack' = Append(stack, Missing) /\ stack \in Seq(Value)
      BY <1>1, <1>13, <2>4 DEF LoadArg, Push, VMInv, TypeOK
    <3>6. Depth' = Depth + 1 /\ Depth \in Nat /\ stack'[Depth + 1] = Missing
      BY <3>5, AppendProperties, LenProperties DEF Depth
    <3>7. stack'[Depth' - 0].kind = "Missing" /\ 0 < Depth'
      BY <3>6 DEF Missing, Val
    <3>8. OperandBelow(at, end)'
      BY <2>1, <3>2, <3>4, <3>7 DEF OperandBelow
    <3> QED BY <2>1, <3>1, <3>2, <3>8 DEF OwnOperand
  <2> QED BY <2>3, <2>4
<1>14. CASE UNCHANGED vmVars
  BY <1>1, <1>14 DEF vmVars, exec, OwnOperand, OperandBelow, Depth
<1> QED
  BY <1>3, <1>4, <1>5, <1>6, <1>8, <1>9, <1>10, <1>11, <1>12, <1>13, <1>14 DEF Next, Instruct

\* A call whose operand is found to have failed has an operand that did.
LEMMA OwnSkips ==
  ASSUME OwnInv
  PROVE  SkipsOnlyItsOwnOperand
<1> SUFFICES ASSUME Running, I.op \in Calls, ExecFault(I) = "None", OperandFailed
             PROVE  \E n \in 1..I.argc : Operands(I)[n].kind \in {"Missing", "Fallback"}
  BY DEF SkipsOnlyItsOwnOperand
<1>1. VMInv /\ OwnOperand
  BY DEF OwnInv
<1>2. I.argc \in Nat /\ I.optc \in Nat /\ stack \in Seq(Value)
  BY <1>1, InstructionType DEF VMInv, TypeOK
<1>3. Depth \in Nat
  BY <1>2, LenProperties DEF Depth
<1>4. I.argc + 2 * I.optc <= Depth
  <2>1. ~ (Depth < Takes(I)) /\ Takes(I) = I.argc + 2 * I.optc
    BY <1>1, NoFault DEF Takes, Uses, Calls, Markups
  <2> QED BY <1>2, <1>3, <2>1
<1>5. \A n \in 1..I.argc : Operands(I)[n] = stack[Depth - 2 * I.optc - I.argc + n]
  <2>1. PICK depth \in Nat, argc \in Nat, options \in Nat :
          depth = Depth /\ argc = I.argc /\ options = 2 * I.optc
    BY <1>2, <1>3
  <2>2. argc + options <= depth
    BY <1>4, <2>1
  <2>3. PICK first \in Nat, last \in Nat : first = depth - options - argc + 1 /\ last = depth - options
    BY <2>2
  <2>4. 1 <= first /\ last <= depth /\ last - first + 1 = argc
    BY <2>2, <2>3
  <2>5. Operands(I) = SubSeq(stack, first, last)
    BY <2>1, <2>3 DEF Operands
  <2>6. \A n \in 1..argc : Operands(I)[n] = stack[first + n - 1]
    <3>1. \A n \in first..last : stack[n] \in Value
      <4>1. depth = Len(stack)
        BY <2>1 DEF Depth
      <4>2. \A n \in first..last : n \in 1..Len(stack)
        BY <2>4, <4>1
      <4> QED BY <1>2, <4>2, ElementOfSeq
    <3>2. first \in Int /\ last \in Int /\ last - first + 1 = argc
      BY <2>4
    <3> QED BY <2>5, <3>1, <3>2, SubSeqProperties
  <2>7. \A n \in 1..argc : first + n - 1 = depth - options - argc + n
    BY <2>3
  <2> QED BY <2>1, <2>6, <2>7
<1>6. CASE I.argc > 0 /\ Head(Operands(I)).kind = "Fallback"
  <2>1. Head(Operands(I)) = Operands(I)[1] /\ 1 \in 1..I.argc
    BY <1>2, <1>6
  <2> QED BY <1>6, <2>1
<1>7. CASE expr.pending # <<>>
  <2>1. PICK at \in DOMAIN catalog.code, end \in DOMAIN catalog.code : OperandBelow(at, end)
    BY <1>1, <1>7 DEF OwnOperand, Running
  <2>2. /\ EndsExpression(catalog, at, end) /\ at < pc /\ pc <= end
        /\ stack[Depth - Cardinality(LoadsBetween(catalog, at, pc))].kind = "Missing"
    BY <2>1 DEF OperandBelow
  <2>3. pc \in Nat /\ end \in Nat
    BY <1>1, DecodedAssumption DEF VMInv, TypeOK, Decoded
  <2>4. pc = end
    <3>1. I.op \notin OptionLoads \cup {"ExprFallback"}
      BY DEF OptionLoads, Calls
    <3> QED BY <2>2, <2>3, <3>1 DEF EndsExpression, Running, I
  <2>5. I.argc = 1 /\ 2 * I.optc = Cardinality(LoadsBetween(catalog, at, pc))
    BY <2>2, <2>4 DEF EndsExpression, I
  <2>6. Operands(I)[1] = stack[Depth - 2 * I.optc]
    BY <1>2, <1>3, <1>5, <2>5
  <2> QED BY <2>2, <2>5, <2>6
<1> QED BY <1>6, <1>7 DEF OperandFailed

\* docs/runtime-vm-semantics.md: "Failure state is attached to the value rather than
\* to the following instruction."  In code whose expressions are in one piece, as
\* lowering writes them but for the options of markup, a call that is skipped has
\* an operand that failed itself, whatever the arguments and whatever hosts answer.
THEOREM OwnOperandSkips == Lowered => (Spec => []SkipsOnlyItsOwnOperand)
<1> SUFFICES ASSUME Lowered PROVE Spec => []SkipsOnlyItsOwnOperand
  OBVIOUS
<1>1. Init => OwnInv
  BY VMInitial DEF Init, Fresh, OwnInv, OwnOperand
<1>2. OwnInv /\ [Next]_vmVars => OwnInv'
  <2> SUFFICES ASSUME OwnInv, [Next]_vmVars PROVE OwnInv'
    OBVIOUS
  <2>1. OperandsTogether(catalog)
    BY DEF OwnInv, VMInv, Lowered
  <2> QED BY <2>1, OwnStep, VMStep DEF OwnInv
<1>3. OwnInv => SkipsOnlyItsOwnOperand
  BY OwnSkips
<1> QED BY <1>1, <1>2, <1>3, PTL DEF Spec

-----------------------------------------------------------------------------
(* A selection that failed takes its default arm.  In code lowering wrote, what *)
(* reported BadSelector is ahead until the selection is reached, and from then *)
(* on the selector matches no case.                                          *)

OtherErrors == Errors \ {"BadSelector"}
NoneBad == diags \in Seq(OtherErrors)

\* A slot that was checked and cannot be selected on.
BadLocal(id) ==
    /\ id < Len(locals) /\ Unselectable(locals[id + 1])
    /\ \E p \in DOMAIN catalog.code :
         p < pc /\ catalog.code[p].op = "CheckSelector" /\ catalog.code[p].id = id

\* The selection at "at" is still to come, and will be of such a slot or of null.
BadAhead(at) ==
    \/ catalog.code[at].op = "SelectLocal" /\ BadLocal(catalog.code[at].id)
    \/ \E load \in DOMAIN catalog.code :
         Projects(catalog, load, at) /\ pc <= load /\ BadLocal(catalog.code[load].id)
    \/ pc \in DOMAIN catalog.code /\ I.op = "ProjectSelect" /\ Unselectable(Top)
    \/ pc = at /\ I.op = "SelectBegin" /\ IsNull(Top)

\* It was, and matches nothing.
BadSelected(at) ==
    \/ selector.kind \in {"None", "Invalid"}
    \/ selector.kind = "Stored" /\ (IsNull(selector.of) \/ Unselectable(selector.of))
    \/ /\ selector.kind = "Local" /\ selector.slot = catalog.code[at].id
       /\ BadLocal(selector.slot)

SelectorAt(at) ==
    /\ matched # {} => NoneBad
    /\ status = "idle" => selector.kind = "None"
    /\ status = "running" =>
         /\ pc <= at => selector.kind = "None" /\ matched = {}
         /\ ~ NoneBad => IF pc <= at THEN BadAhead(at) ELSE BadSelected(at)

SelectorInv ==
    /\ VMInv
    /\ expr.pending \in Seq(OtherErrors) /\ expr.options \in Seq(OtherErrors)
    /\ \A at \in DOMAIN catalog.code : OnlySelection(catalog, at) => SelectorAt(at)

OneAtATime == \A c \in Catalogs : SelectionsTogether(c)

\* What the layout of the code says of the instruction at pc.
LEMMA Onward ==
  ASSUME VMInv, SelectionsTogether(catalog), Running,
         NEW at \in DOMAIN catalog.code, OnlySelection(catalog, at)
  PROVE  /\ at \in Nat /\ pc \in Nat /\ Next1 \in Nat /\ pc < Next1 /\ pc \in DOMAIN catalog.code
         /\ \A q \in DOMAIN catalog.code : pc < q => Next1 <= q
         /\ I.op \in SelectionOps <=> pc = at
         /\ I.op \in Jumps => at < pc /\ pc < JumpTarget(catalog.code, pc)
         /\ I.op \in {"ProjectSelect", "CallSelect"} =>
              Next1 = at /\ catalog.code[at].op = "SelectBegin"
         /\ I.op = "CheckSelector" => pc < at /\ SelectsSlot(catalog, I.id, at)
<1>1. /\ DOMAIN catalog.code \subseteq Nat /\ pc \in DOMAIN catalog.code
      /\ I \in Instruction /\ Next1 \in Nat /\ Next1 = pc + Width(I.op) /\ I = catalog.code[pc]
  BY InstructionType, DecodedAssumption DEF VMInv, Running, Decoded, Next1, NextPc, I
<1>2. Width(I.op) \in Nat /\ Width(I.op) > 0
  BY <1>1 DEF Instruction, Opcode, OneByte, FiveByte, NineByte, Calls, Markups, Width
<1>3. pc < Next1
  BY <1>1, <1>2
<1>4. I.op \in SelectionOps <=> pc = at
  BY <1>1 DEF OnlySelection, SelectionsOf
<1>5. SelectsAt(catalog, at) /\ LaidOut(catalog)
  BY DEF SelectionsTogether
<1>6. \A q \in DOMAIN catalog.code : pc < q => Next1 <= q
  BY <1>1, <1>5 DEF LaidOut, Next1
<1> QED BY <1>1, <1>3, <1>4, <1>5, <1>6 DEF SelectsAt, Next1

\* A projection is two instructions, and nothing is between it and the selection.
LEMMA ProjectionFits ==
  ASSUME VMInv, SelectionsTogether(catalog), Running,
         NEW at \in DOMAIN catalog.code, NEW load \in DOMAIN catalog.code,
         Projects(catalog, load, at)
  PROVE  /\ load < at /\ load \in Nat
         /\ pc < at => pc <= load \/ I.op = "ProjectSelect"
<1> DEFINE middle == NextPc(catalog.code, load)
<1>1. /\ DOMAIN catalog.code \subseteq Nat
      /\ \A p \in DOMAIN catalog.code : catalog.code[p] \in Instruction
  BY DecodedAssumption DEF VMInv, Decoded
<1>2. \A p \in DOMAIN catalog.code : p < NextPc(catalog.code, p)
  <2> SUFFICES ASSUME NEW p \in DOMAIN catalog.code PROVE p < NextPc(catalog.code, p)
    OBVIOUS
  <2>1. Width(catalog.code[p].op) \in Nat /\ Width(catalog.code[p].op) > 0
    BY <1>1 DEF Instruction, Opcode, OneByte, FiveByte, NineByte, Calls, Markups, Width
  <2> QED BY <1>1, <2>1 DEF NextPc
<1>3. /\ middle \in DOMAIN catalog.code /\ catalog.code[middle].op = "ProjectSelect"
      /\ NextPc(catalog.code, middle) = at
  BY DEF Projects
<1>4. load < middle /\ middle < at
  BY <1>2, <1>3
<1>5. LaidOut(catalog) /\ pc \in DOMAIN catalog.code
  BY DEF SelectionsTogether, Running
<1>6. load < pc => middle <= pc
  BY <1>5 DEF LaidOut
<1>7. middle < pc => at <= pc
  BY <1>3, <1>5 DEF LaidOut
<1>8. pc = middle => I.op = "ProjectSelect"
  BY <1>3 DEF I
<1> HIDE DEF middle
<1>9. middle \in Nat /\ pc \in Nat /\ at \in Nat /\ load \in Nat
  BY <1>1, <1>3, <1>5
<1> QED BY <1>4, <1>6, <1>7, <1>8, <1>9

\* A slot that was checked is not declared again.
LEMMA BadLocalKept ==
  ASSUME VMInv, SelectionsTogether(catalog), NEW at \in DOMAIN catalog.code,
         OnlySelection(catalog, at), Running, catalog' = catalog, pc < pc', pc' \in Nat,
         UNCHANGED locals \/ StoreLocal, NEW id \in Nat, BadLocal(id)
  PROVE  BadLocal(id)'
<1>1. PICK p \in DOMAIN catalog.code :
        p < pc /\ catalog.code[p].op = "CheckSelector" /\ catalog.code[p].id = id
  BY DEF BadLocal
<1>2. pc \in Nat /\ p \in Nat /\ pc \in DOMAIN catalog.code
  BY DecodedAssumption DEF VMInv, TypeOK, Decoded, Running
<1>3. p < pc'
  BY <1>1, <1>2
<1>4. id < Len(locals)' /\ locals'[id + 1] = locals[id + 1]
  <2>1. CASE UNCHANGED locals
    BY <2>1 DEF BadLocal
  <2>2. CASE StoreLocal
    <3>1. I.op = "StoreLocal" /\ I.id \in Nat /\ I.id <= Len(locals)
      BY <2>2, ExecutesReads DEF StoreLocal
    <3>2. I.id # id
      BY <1>1, <1>2, <3>1 DEF SelectionsTogether, SelectsAt, I
    <3>3. locals \in Seq(Value) /\ Len(locals) \in Nat /\ id < Len(locals)
      BY LenProperties DEF VMInv, TypeOK, BadLocal
    <3>4. id + 1 \in 1..Len(locals) /\ id + 1 # I.id + 1
      BY <3>1, <3>2, <3>3
    <3>5. CASE I.id = Len(locals)
      <4>1. locals' = Append(locals, Declared(Top))
        BY <2>2, <3>5 DEF StoreLocal
      <4>2. Len(locals') = Len(locals) + 1 /\ locals'[id + 1] = locals[id + 1]
        BY <3>3, <3>4, <4>1, AppendProperties
      <4> QED BY <3>3, <4>2
    <3>6. CASE I.id # Len(locals)
      <4>1. locals' = [locals EXCEPT ![I.id + 1] = Declared(Top)]
        BY <2>2, <3>6 DEF StoreLocal
      <4>2. I.id + 1 \in 1..Len(locals)
        BY <3>1, <3>3, <3>6
      <4>3. locals'[id + 1] = locals[id + 1]
        BY <3>3, <3>4, <4>1
      <4>4. Len(locals') = Len(locals)
        BY <3>3, <4>1
      <4> QED BY <3>3, <4>3, <4>4
    <3> QED BY <3>5, <3>6
  <2> QED BY <2>1, <2>2
<1> QED BY <1>1, <1>3, <1>4 DEF BadLocal, Unselectable

\* Executing code that selects once.
Selecting(at) ==
    /\ VMInv /\ SelectionsTogether(catalog)
    /\ at \in DOMAIN catalog.code /\ OnlySelection(catalog, at)
    /\ SelectorAt(at)

\* An instruction that does not select keeps what is ahead, or selected.
LEMMA PassesBy ==
  ASSUME NEW at, Selecting(at), NEW ops, Executes(ops), NoneBad => NoneBad',
         I.op \notin SelectionOps \cup {"ProjectSelect"},
         \/ pc' = Next1
         \/ I.op \in Jumps /\ pc' = JumpTarget(catalog.code, pc),
         UNCHANGED locals \/ StoreLocal,
         selector' \in {selector, NoSelector},
         \/ matched' = matched
         \/ I.op \in Jumps /\ NoneBad /\ diags' = diags,
         I.op = "LoadLocal" => stack' = Append(stack, locals[I.id + 1])
  PROVE  SelectorAt(at)'
<1>1. /\ Running /\ VMInv /\ SelectionsTogether(catalog)
      /\ OnlySelection(catalog, at) /\ SelectorAt(at)
      /\ catalog' = catalog /\ status = "running" /\ status' = "running"
      /\ stack \in Seq(Value)
  BY ExecutesReads DEF Selecting, Executes, Running
<1>2. PICK sel \in DOMAIN catalog.code : sel = at
  BY DEF Selecting
<1>3. /\ at \in Nat /\ pc \in Nat /\ Next1 \in Nat /\ pc < Next1 /\ pc \in DOMAIN catalog.code
      /\ \A q \in DOMAIN catalog.code : pc < q => Next1 <= q
      /\ pc # at
      /\ I.op \in Jumps => at < pc /\ pc < JumpTarget(catalog.code, pc)
  BY <1>1, <1>2, Onward
<1>4. pc' \in Nat /\ pc < pc' /\ (pc < at => pc' = Next1 /\ pc' <= at) /\ (at < pc => at < pc')
  <2>1. I.op \in Jumps => JumpTarget(catalog.code, pc) \in Nat
    BY <1>1, InstructionType
  <2> QED BY <1>2, <1>3, <2>1
<1>5. \A id \in Nat : BadLocal(id) => BadLocal(id)'
  BY <1>1, <1>2, <1>4, BadLocalKept
<1>6. \A q \in DOMAIN catalog.code : catalog.code[q].id \in Nat
  BY <1>1, DecodedAssumption DEF VMInv, Decoded, Instruction
<1>7. ASSUME pc < at, BadAhead(at) PROVE BadAhead(at)'
  <2>1. CASE catalog.code[at].op = "SelectLocal" /\ BadLocal(catalog.code[at].id)
    BY <1>1, <1>2, <1>5, <1>6, <2>1 DEF BadAhead
  <2>2. ASSUME NEW load \in DOMAIN catalog.code,
               Projects(catalog, load, at), pc <= load, BadLocal(catalog.code[load].id)
        PROVE  BadAhead(at)'
    <3>1. CASE pc < load
      BY <1>1, <1>3, <1>4, <1>5, <1>6, <1>7, <2>2, <3>1 DEF BadAhead
    <3>2. CASE pc = load
      <4>1. I.op = "LoadLocal" /\ pc' \in DOMAIN catalog.code /\ catalog.code[pc'].op = "ProjectSelect"
        BY <1>4, <1>7, <2>2, <3>2 DEF Projects, I, Next1
      <4>2. stack' = Append(stack, locals[I.id + 1]) /\ Unselectable(locals[I.id + 1])
        BY <2>2, <3>2, <4>1 DEF BadLocal, I
      <4>3. Top' = locals[I.id + 1]
        BY <1>1, <4>2, AppendProperties, LenProperties DEF Top, Depth
      <4>4. Unselectable(Top)'
        BY <4>2, <4>3 DEF Unselectable
      <4> QED BY <1>1, <4>1, <4>4 DEF BadAhead, I
    <3>3. load \in Nat
      BY <1>1, <1>2, <2>2, ProjectionFits
    <3> QED BY <1>3, <2>2, <3>1, <3>2, <3>3
  <2> QED BY <1>3, <1>7, <2>1, <2>2 DEF BadAhead
<1>8. ASSUME at < pc, BadSelected(at) PROVE BadSelected(at)'
  <2>1. selector.slot \in Nat
    BY <1>1 DEF VMInv, TypeOK, Selector
  <2> QED BY <1>1, <1>5, <1>8, <2>1 DEF BadSelected, NoSelector, IsNull, Unselectable, IsFallback
<1>9. matched' # {} => NoneBad'
  BY <1>1 DEF SelectorAt, NoneBad
<1>10. pc' <= at => selector'.kind = "None" /\ matched' = {}
  <2> SUFFICES ASSUME pc' <= at PROVE selector'.kind = "None" /\ matched' = {}
    OBVIOUS
  <2>1. pc < at
    BY <1>3, <1>4
  <2> QED BY <1>1, <1>3, <2>1 DEF SelectorAt, NoSelector
<1>11. ~ NoneBad' => IF pc' <= at THEN BadAhead(at)' ELSE BadSelected(at)'
  <2> SUFFICES ASSUME ~ NoneBad' PROVE IF pc' <= at THEN BadAhead(at)' ELSE BadSelected(at)'
    OBVIOUS
  <2>1. IF pc <= at THEN BadAhead(at) ELSE BadSelected(at)
    BY <1>1 DEF SelectorAt
  <2> QED BY <1>3, <1>4, <1>7, <1>8, <2>1
<1> QED BY <1>1, <1>9, <1>10, <1>11 DEF SelectorAt

\* What is projected, or returned by a call that selects, is selected on at once.
LEMMA IsSelectedOn ==
  ASSUME NEW at, Selecting(at), NEW ops, Executes(ops), I.op \in {"ProjectSelect", "CallSelect"},
         pc' = Next1, UNCHANGED <<selector, matched>>,
         NEW s \in Seq(Value), NEW v \in Value, stack' = Append(s, v),
         NoneBad => NoneBad' \/ IsNull(v),
         I.op = "ProjectSelect" /\ Unselectable(Top) => IsNull(v)
  PROVE  SelectorAt(at)'
<1>1. /\ Running /\ VMInv /\ SelectionsTogether(catalog)
      /\ OnlySelection(catalog, at) /\ SelectorAt(at)
      /\ catalog' = catalog /\ status = "running" /\ status' = "running"
  BY DEF Selecting, Executes, Running
<1>2. PICK sel \in DOMAIN catalog.code : sel = at
  BY DEF Selecting
<1>3. /\ at \in Nat /\ pc \in Nat /\ pc < at /\ pc' = at
      /\ catalog.code[at].op = "SelectBegin"
      /\ \A q \in DOMAIN catalog.code : pc < q => at <= q
  BY <1>1, <1>2, Onward
<1>4. selector.kind = "None" /\ matched = {}
  BY <1>1, <1>3 DEF SelectorAt
<1>5. ASSUME ~ NoneBad' PROVE IsNull(v)
  <2>1. CASE NoneBad
    BY <1>5, <2>1
  <2>2. CASE ~ NoneBad
    <3>1. BadAhead(at)
      BY <1>1, <1>3, <2>2 DEF SelectorAt
    <3>2. ASSUME NEW load \in DOMAIN catalog.code, Projects(catalog, load, at), pc <= load
          PROVE  FALSE
      <4>1. load < at /\ load \in Nat
        BY <1>1, <1>2, <3>2, ProjectionFits
      <4>2. I.op # "LoadLocal"
        OBVIOUS
      <4>3. pc # load
        BY <3>2, <4>2 DEF Projects, I
      <4> QED BY <1>3, <3>2, <4>1, <4>3
    <3>3. I.op = "ProjectSelect" /\ Unselectable(Top)
      BY <1>3, <3>1, <3>2 DEF BadAhead
    <3> QED BY <3>3
  <2> QED BY <2>1, <2>2
<1>6. ASSUME ~ NoneBad' PROVE BadAhead(at)'
  <2>1. Top' = v
    BY AppendProperties, LenProperties DEF Top, Depth
  <2>2. IsNull(Top)'
    BY <1>5, <1>6, <2>1 DEF IsNull
  <2>3. pc' \in DOMAIN catalog.code /\ catalog.code[pc'].op = "SelectBegin"
    BY <1>2, <1>3
  <2> QED BY <1>1, <1>3, <2>2, <2>3 DEF BadAhead, I
<1> QED BY <1>1, <1>3, <1>4, <1>6 DEF SelectorAt

\* The selection itself.
LEMMA SelectsHere ==
  ASSUME NEW at, Selecting(at), SelectArg \/ SelectStringArg \/ SelectBegin \/ SelectLocal
  PROVE  SelectorAt(at)'
<1>1. PICK ops : Executes(ops) /\ ops \subseteq SelectionOps
  BY DEF SelectArg, SelectStringArg, SelectBegin, SelectLocal, SelectionOps
<1>2. /\ Running /\ I.op \in SelectionOps /\ VMInv /\ SelectionsTogether(catalog)
      /\ OnlySelection(catalog, at) /\ SelectorAt(at)
      /\ catalog' = catalog /\ status = "running" /\ status' = "running"
  BY <1>1 DEF Selecting, Executes, Running
<1>3. PICK sel \in DOMAIN catalog.code : sel = at
  BY DEF Selecting
<1>4. at \in Nat /\ pc = at /\ pc < Next1 /\ Next1 \in Nat
  BY <1>2, <1>3, Onward
<1>5. matched = {} /\ matched' = {} /\ pc' = Next1 /\ UNCHANGED locals
  BY <1>2, <1>4
  DEF SelectorAt, SelectArg, SelectStringArg, SelectBegin, SelectLocal, Advance, GoTo
<1>6. ASSUME ~ NoneBad
      PROVE  \/ I.op = "SelectLocal" /\ BadLocal(I.id)
             \/ I.op = "SelectBegin" /\ IsNull(Top)
  <2>1. BadAhead(at)
    BY <1>2, <1>4, <1>6 DEF SelectorAt
  <2>2. ASSUME NEW load \in DOMAIN catalog.code, Projects(catalog, load, at), pc <= load
        PROVE  FALSE
    <3>1. load < at /\ load \in Nat
      BY <1>2, <1>3, <2>2, ProjectionFits
    <3> QED BY <1>4, <2>2, <3>1
  <2>3. I.op # "ProjectSelect"
    BY <1>2 DEF SelectionOps
  <2> QED BY <1>4, <2>1, <2>2, <2>3 DEF BadAhead, I
<1>7. ASSUME ~ NoneBad' PROVE BadSelected(at)'
  <2>1. CASE SelectArg
    <3>1. I.op = "SelectArg"
      BY <2>1 DEF SelectArg, Executes
    <3>2. ~ HasArg(I.id)
      BY <1>6, <1>7, <2>1, <3>1 DEF SelectArg, Silent, NoneBad
    <3> QED BY <2>1, <3>2 DEF SelectArg, Select, BadSelected
  <2>2. CASE SelectStringArg
    <3>1. I.op = "SelectStringArg"
      BY <2>2 DEF SelectStringArg, Executes
    <3>2. ~ HasArg(I.id)
      BY <1>6, <1>7, <2>2, <3>1 DEF SelectStringArg, Silent, NoneBad
    <3> QED BY <2>2, <3>2 DEF SelectStringArg, Select, BadSelected
  <2>3. CASE SelectBegin
    <3>1. I.op = "SelectBegin" /\ selector' = [kind |-> "Stored", of |-> Top, slot |-> 0]
      BY <2>3 DEF SelectBegin, Executes, Select
    <3>2. ~ NoneBad \/ Unselectable(Top)
      <4> SUFFICES ASSUME NoneBad, ~ Unselectable(Top) PROVE FALSE
        OBVIOUS
      <4>1. diags' = diags \/ diags' = diags \o <<>>
        BY <2>3 DEF SelectBegin, Check, Report
      <4>2. diags \o <<>> = diags
        BY ConcatEmptySeq DEF NoneBad
      <4> QED BY <1>7, <4>1, <4>2 DEF NoneBad
    <3>3. IsNull(Top) \/ Unselectable(Top)
      BY <1>6, <3>1, <3>2
    <3> QED BY <3>1, <3>3 DEF BadSelected, IsNull, Unselectable, IsFallback
  <2>4. CASE SelectLocal
    <3>1. /\ I.op = "SelectLocal" /\ selector' = [kind |-> "Local", of |-> Null, slot |-> I.id]
          /\ diags' = diags
      BY <2>4 DEF SelectLocal, Executes, Select
    <3>2. BadLocal(I.id) /\ I.id \in Nat
      BY <1>2, <1>6, <1>7, <3>1, InstructionType DEF NoneBad
    <3>3. PICK id \in Nat : id = I.id
      BY <3>2
    <3>4. BadLocal(id)'
      BY <1>2, <1>3, <1>4, <1>5, <3>2, <3>3, BadLocalKept
    <3> QED BY <1>2, <1>4, <3>1, <3>3, <3>4 DEF BadSelected, I
  <2> QED BY <2>1, <2>2, <2>3, <2>4
<1> QED BY <1>2, <1>4, <1>5, <1>7 DEF SelectorAt

\* A slot that is checked is the one selected on.
LEMMA ChecksAhead ==
  ASSUME NEW at, Selecting(at), CheckSelector
  PROVE  SelectorAt(at)'
<1>1. /\ Executes({"CheckSelector"}) /\ Running /\ I.op = "CheckSelector"
      /\ VMInv /\ SelectionsTogether(catalog)
      /\ OnlySelection(catalog, at) /\ SelectorAt(at)
      /\ catalog' = catalog /\ status = "running" /\ status' = "running"
      /\ pc' = Next1 /\ UNCHANGED <<stack, locals, selector, matched>>
  BY DEF CheckSelector, Selecting, Executes, Running, Advance, GoTo
<1>2. PICK sel \in DOMAIN catalog.code : sel = at
  BY DEF Selecting
<1>3. /\ at \in Nat /\ pc \in Nat /\ Next1 \in Nat /\ pc < Next1 /\ Next1 <= at
      /\ pc < at /\ pc \in DOMAIN catalog.code
      /\ \A q \in DOMAIN catalog.code : pc < q => Next1 <= q
      /\ SelectsSlot(catalog, I.id, at)
  BY <1>1, <1>2, Onward
<1>4. CASE NoneBad => NoneBad'
  BY <1>1, <1>4, PassesBy DEF SelectionOps
<1>5. CASE NoneBad /\ ~ NoneBad'
  <2>1. Unselectable(locals[I.id + 1])
    <3> SUFFICES ASSUME ~ Unselectable(locals[I.id + 1]) PROVE FALSE
      OBVIOUS
    <3>1. diags' = diags \/ diags' = diags \o <<>>
      BY DEF CheckSelector, Check, Report
    <3>2. diags \o <<>> = diags
      BY <1>5, ConcatEmptySeq DEF NoneBad
    <3> QED BY <1>5, <3>1, <3>2 DEF NoneBad
  <2>2. I.id < Len(locals)
    <3>1. ExecFault(I) = "None" /\ I.id \in Nat /\ locals \in Seq(Value)
      BY <1>1, ExecutesReads DEF Executes
    <3>2. ~ (I.id >= Len(locals)) /\ Len(locals) \in Nat
      BY <1>1, <3>1, NoFault, LenProperties
    <3> QED BY <3>1, <3>2
  <2>3. PICK id : id = I.id
    OBVIOUS
  <2>4. BadLocal(id)'
    BY <1>1, <1>3, <2>1, <2>2, <2>3 DEF BadLocal, Unselectable, IsFallback, I
  <2>5. ASSUME catalog.code[at].op = "SelectLocal", catalog.code[at].id = I.id
        PROVE  BadAhead(at)'
    BY <1>1, <2>3, <2>4, <2>5 DEF BadAhead
  <2>6. ASSUME NEW load \in DOMAIN catalog.code,
               Projects(catalog, load, at), catalog.code[load].id = I.id
        PROVE  BadAhead(at)'
    <3>1. load \in Nat /\ pc <= load
      BY <1>1, <1>2, <1>3, <2>6, ProjectionFits
    <3>2. pc # load
      BY <1>1, <2>6 DEF Projects, I
    <3>3. pc' <= load
      BY <1>1, <1>3, <3>1, <3>2
    <3> QED BY <1>1, <2>3, <2>4, <2>6, <3>3 DEF BadAhead
  <2>7. BadAhead(at)'
    BY <1>3, <2>5, <2>6 DEF SelectsSlot
  <2> QED BY <1>1, <1>3, <2>7 DEF SelectorAt
<1> QED BY <1>4, <1>5

\* Everything else that is reported is no failure of a selection.
LEMMA OtherSeqs ==
  /\ \A s, t \in Seq(OtherErrors) : s \o t \in Seq(OtherErrors)
  /\ \A e \in OtherErrors : <<e>> \in Seq(OtherErrors)
  /\ <<>> \in Seq(OtherErrors)
  /\ HostReports \subseteq Seq(OtherErrors)
  /\ {"MissingArg", "Any", "BadOption", "BadOperand", "Function", "UnknownFunction"}
       \subseteq OtherErrors
<1>1. {"MissingArg", "Any", "BadOption", "BadOperand", "Function", "UnknownFunction"}
        \subseteq OtherErrors
  BY DEF OtherErrors, Errors
<1> QED BY <1>1, ConcatProperties, EmptySeq DEF HostReports

LEMMA OtherReport ==
  ASSUME NEW errors \in Seq(OtherErrors), Report(errors), NoneBad
  PROVE  NoneBad'
BY ConcatProperties DEF Report, NoneBad

LEMMA OtherPending ==
  ASSUME SelectorInv
  PROVE  Pending \in Seq(OtherErrors) /\ Options \in Seq(OtherErrors)
BY OtherSeqs DEF SelectorInv, Pending, Options

LEMMA OtherOptions ==
  ASSUME SelectorInv, Running
  PROVE  BadOptions \in Seq(OtherErrors)
<1> DEFINE bad == {k \in 1..I.optc : IsFallback(stack[Depth - 2 * k + 2])}
<1>1. Cardinality(bad) \in Nat
  <2>1. IsFiniteSet(1..I.optc)
    <3>1. I.optc \in Int
      BY InstructionType DEF SelectorInv
    <3> QED BY <3>1, FS_Interval
  <2>2. IsFiniteSet(bad)
    BY <2>1, FS_Subset
  <2> QED BY <2>2, FS_CardinalityType
<1>2. [n \in 1..Cardinality(bad) |-> "BadOption"] \in Seq(OtherErrors)
  BY <1>1, SeqDef, OtherSeqs
<1> QED BY <1>2, OtherPending, ConcatProperties DEF BadOptions

\* What is noted for an expression is no failure of a selection either.
LEMMA NotesKept ==
  ASSUME SelectorInv, [Next]_vmVars
  PROVE  expr'.pending \in Seq(OtherErrors) /\ expr'.options \in Seq(OtherErrors)
<1>1. /\ expr.pending \in Seq(OtherErrors) /\ expr.options \in Seq(OtherErrors)
      /\ expr \in ExprState /\ VMInv
  BY DEF SelectorInv, VMInv, TypeOK
<1>2. /\ CleanExpr.pending \in Seq(OtherErrors) /\ CleanExpr.options \in Seq(OtherErrors)
      /\ \A list \in Seq(OtherErrors) : Noted(list, "MissingArg") \in Seq(OtherErrors)
  <2>1. \A list \in Seq(OtherErrors) : Append(list, "MissingArg") \in Seq(OtherErrors)
    BY OtherSeqs, AppendProperties
  <2> QED BY <2>1, OtherSeqs DEF CleanExpr, Noted
<1>3. CASE UNCHANGED expr
  BY <1>1, <1>3
<1>4. CASE expr' = CleanExpr
  BY <1>2, <1>4
<1>5. CASE LoadArg \/ LoadOptionArg
  BY <1>1, <1>2, <1>3, <1>5 DEF LoadArg, LoadOptionArg, ExprState
<1>6. CASE StoreLocal \/ ResolveString \/ ExprFallback
  BY <1>1, <1>6, OtherSeqs DEF StoreLocal, ResolveString, ExprFallback, ExprState
<1>7. CASE Begin \/ TakeJump \/ JmpIfFalse \/ CaseStr \/ PushConst \/ LoadLocal
  BY <1>3, <1>7 DEF Begin, TakeJump, JmpIfFalse, CaseStr, PushConst, LoadLocal
<1>8. CASE OutLiteral \/ OutArg \/ OutVal \/ EmitMarkup
  BY <1>3, <1>8 DEF OutLiteral, OutArg, OutVal, EmitMarkup
<1>9. CASE SelectArg \/ SelectStringArg \/ CheckSelector \/ SelectBegin \/ SelectLocal
           \/ SelectEnd \/ ProjectSelect
  BY <1>3, <1>9 DEF SelectArg, SelectStringArg, CheckSelector, SelectBegin, SelectLocal, SelectEnd,
                    ProjectSelect
<1>10. CASE Halt \/ Fail \/ StoreNowhere \/ CallFails
  BY <1>4, <1>10 DEF Halt, Fail, StoreNowhere, CallFails, Return
<1>11. CASE SkipCall \/ CallReturns \/ CallWrites \/ CallRecovers
  BY <1>4, <1>11 DEF SkipCall, CallReturns, CallWrites, CallRecovers
<1>12. CASE UNCHANGED vmVars
  BY <1>3, <1>12 DEF vmVars, exec
<1> QED
  BY <1>5, <1>6, <1>7, <1>8, <1>9, <1>10, <1>11, <1>12 DEF Next, Instruct

\* format_to starts, and returns, without a selector.
LEMMA SelectorAtEnds ==
  ASSUME SelectorInv, NEW at, Selecting(at), Begin \/ Halt \/ Fail \/ StoreNowhere \/ CallFails
  PROVE  SelectorAt(at)'
<1>1. SelectorAt(at)
  BY DEF Selecting
<1>2. CASE Begin
  BY <1>1, <1>2, OtherSeqs DEF Begin, SelectorAt, NoneBad
<1>3. ASSUME NEW outcome, Return(outcome), UNCHANGED matched, NoneBad => NoneBad'
      PROVE  SelectorAt(at)'
  BY <1>1, <1>3 DEF Return, SelectorAt, NoSelector
<1>4. CASE Halt \/ Fail
  <2>1. \E outcome : Return(outcome)
    BY <1>4 DEF Halt, Fail
  <2> QED BY <1>3, <1>4, <2>1 DEF Halt, Fail, NoneBad
<1>5. CASE StoreNowhere
  BY <1>3, <1>5, OtherPending, OtherReport DEF StoreNowhere
<1>6. CASE CallFails
  <2>1. PICK host \in HostReports : Report(BadOptions \o host)
    BY <1>6 DEF CallFails
  <2>2. BadOptions \o host \in Seq(OtherErrors)
    BY <1>6, OtherOptions, OtherSeqs DEF CallFails
  <2>3. NoneBad => NoneBad'
    BY <2>1, <2>2, OtherReport
  <2> QED BY <1>3, <1>6, <2>3 DEF CallFails
<1> QED BY <1>2, <1>4, <1>5, <1>6

LEMMA SelectorAtCalls ==
  ASSUME SelectorInv, NEW at, Selecting(at),
         SkipCall \/ CallReturns \/ CallWrites \/ CallRecovers
  PROVE  SelectorAt(at)'
<1>1. /\ Executes(Calls) /\ Running /\ I.op \in Calls /\ pc' = Next1
      /\ UNCHANGED <<locals, selector, matched>> /\ VMInv
  BY DEF SkipCall, CallReturns, CallWrites, CallRecovers, Executes, Advance, GoTo, SelectorInv
<1>2. Pending \in Seq(OtherErrors) /\ BadOptions \in Seq(OtherErrors) /\ Rest(Takes(I)) \in Seq(Value)
  BY <1>1, OtherPending, OtherOptions, ExecutesReads
<1>3. CASE ~ IsSelect
  <2>1. PICK errors \in Seq(OtherErrors) : Report(errors)
    <3>1. CASE SkipCall
      <4>1. PICK host \in {<<>>, <<"UnknownFunction">>, <<"Function">>} :
              Report(Pending \o host \o <<>>)
        BY <1>3, <3>1 DEF SkipCall
      <4>2. Pending \o host \o <<>> \in Seq(OtherErrors)
        BY <1>2, OtherSeqs
      <4> QED BY <4>1, <4>2
    <3>2. CASE CallReturns
      <4>1. PICK host \in HostReports : Report(BadOptions \o host \o <<>>)
        BY <1>3, <3>2 DEF CallReturns
      <4>2. BadOptions \o host \o <<>> \in Seq(OtherErrors)
        BY <1>2, OtherSeqs
      <4> QED BY <4>1, <4>2
    <3>3. CASE CallWrites
      <4>1. PICK host \in HostReports : Report(BadOptions \o host)
        BY <3>3 DEF CallWrites
      <4>2. BadOptions \o host \in Seq(OtherErrors)
        BY <1>2, OtherSeqs
      <4> QED BY <4>1, <4>2
    <3>4. CASE CallRecovers
      <4>1. PICK error \in HostErrors, host \in HostReports : Report(BadOptions \o host \o <<error>>)
        BY <1>3, <3>4 DEF CallRecovers
      <4>2. BadOptions \o host \o <<error>> \in Seq(OtherErrors)
        BY <1>2, OtherSeqs DEF HostErrors
      <4> QED BY <4>1, <4>2
    <3> QED BY <3>1, <3>2, <3>3, <3>4
  <2>2. NoneBad => NoneBad'
    BY <2>1, OtherReport
  <2>3. I.op \notin SelectionOps \cup {"ProjectSelect", "LoadLocal"}
    BY <1>1 DEF SelectionOps, Calls
  <2> QED BY <1>1, <2>2, <2>3, PassesBy
<1>4. CASE IsSelect
  <2>1. I.op = "CallSelect"
    BY <1>4 DEF IsSelect
  <2>2. ~ CallWrites
    BY <2>1 DEF CallWrites, WritesDirectly, PeeksNext
  <2>3. CASE SkipCall \/ CallRecovers
    <3>1. stack' = Append(Rest(Takes(I)), Null)
      BY <1>4, <2>3 DEF SkipCall, CallRecovers, PopCall
    <3>2. Null \in Value /\ IsNull(Null)
      BY ValueType DEF IsNull, Null, Val
    <3> QED BY <1>1, <1>2, <2>1, <3>1, <3>2, IsSelectedOn
  <2>4. CASE CallReturns
    <3>1. PICK v \in HostValues, host \in HostReports :
            /\ PopCall(v)
            /\ Report(BadOptions \o host \o IF IsSelect /\ IsNull(v) THEN <<"BadSelector">> ELSE <<>>)
      BY <2>4 DEF CallReturns
    <3>2. stack' = Append(Rest(Takes(I)), v) /\ v \in Value
      BY <3>1, VMAssumption DEF PopCall
    <3>3. ASSUME ~ IsNull(v), NoneBad PROVE NoneBad'
      <4>1. Report(BadOptions \o host \o <<>>)
        BY <3>1, <3>3
      <4>2. BadOptions \o host \o <<>> \in Seq(OtherErrors)
        BY <1>2, OtherSeqs
      <4> QED BY <3>3, <4>1, <4>2, OtherReport
    <3> QED BY <1>1, <1>2, <2>1, <3>2, <3>3, IsSelectedOn
  <2> QED BY <2>2, <2>3, <2>4
<1> QED BY <1>3, <1>4

LEMMA SelectorAtInstructions ==
  ASSUME SelectorInv, NEW at, Selecting(at),
         \/ TakeJump \/ JmpIfFalse \/ CaseStr \/ PushConst \/ LoadArg \/ LoadOptionArg
         \/ StoreLocal \/ LoadLocal \/ ResolveString \/ ExprFallback
         \/ OutLiteral \/ OutArg \/ OutVal \/ EmitMarkup \/ SelectEnd \/ ProjectSelect
  PROVE  SelectorAt(at)'
<1> USE DEF Advance, GoTo
<1>1. CASE TakeJump \/ JmpIfFalse
  <2>1. PICK ops : Executes(ops) /\ I.op \in Jumps
    BY <1>1 DEF TakeJump, JmpIfFalse, Executes, Jumps, JumpOnly, Conditional
  <2>2. I.op \notin SelectionOps \cup {"ProjectSelect", "LoadLocal"}
    BY <1>1 DEF TakeJump, JmpIfFalse, Executes, SelectionOps
  <2> QED BY <1>1, <2>1, <2>2, PassesBy DEF TakeJump, JmpIfFalse, NoneBad
<1>2. CASE CaseStr
  <2>1. Executes({"CaseStr"}) /\ Running /\ I.op = "CaseStr" /\ I.op \in Jumps
    BY <1>2 DEF CaseStr, Executes, Jumps, Conditional
  <2>2. I.op \notin SelectionOps \cup {"ProjectSelect", "LoadLocal"}
    BY <2>1 DEF SelectionOps
  <2>3. ASSUME Matches PROVE NoneBad
    <3>1. PICK sel \in DOMAIN catalog.code : sel = at
      BY DEF Selecting
    <3>2. at \in Nat /\ pc \in Nat /\ at < pc /\ SelectorAt(at) /\ status = "running"
      BY <2>1, <3>1, Onward DEF Selecting, Running
    <3>3. selector.kind # "None"
      BY <2>1 DEF Executes, ExecFault, PeeksNext, Calls, Markups, Takes, Uses
    <3>4. ~ BadSelected(at)
      BY <2>3, <3>3 DEF BadSelected, Matches, Selected, BadLocal, Unselectable
    <3> QED BY <3>2, <3>4 DEF SelectorAt
  <2> QED BY <1>2, <2>1, <2>2, <2>3, PassesBy DEF CaseStr, NoneBad
<1>3. CASE PushConst \/ LoadArg \/ LoadOptionArg \/ ExprFallback \/ OutLiteral \/ OutVal \/ SelectEnd
  <2>1. PICK ops : Executes(ops)
    BY <1>3 DEF PushConst, LoadArg, LoadOptionArg, ExprFallback, OutLiteral, OutVal, SelectEnd
  <2>2. I.op \notin SelectionOps \cup {"ProjectSelect", "LoadLocal"}
    BY <1>3 DEF PushConst, LoadArg, LoadOptionArg, ExprFallback, OutLiteral, OutVal, SelectEnd,
                Executes, SelectionOps
  <2> QED
    BY <1>3, <2>1, <2>2, PassesBy
    DEF PushConst, LoadArg, LoadOptionArg, ExprFallback, OutLiteral, OutVal, SelectEnd, NoneBad
<1>4. CASE LoadLocal
  <2>1. Executes({"LoadLocal"}) /\ I.op \notin SelectionOps \cup {"ProjectSelect"}
    BY <1>4 DEF LoadLocal, Executes, SelectionOps
  <2> QED BY <1>4, <2>1, PassesBy DEF LoadLocal, Push, NoneBad
<1>5. CASE StoreLocal
  <2>1. Executes({"StoreLocal"}) /\ I.op \notin SelectionOps \cup {"ProjectSelect", "LoadLocal"}
    BY <1>5 DEF StoreLocal, Executes, SelectionOps
  <2>2. NoneBad => NoneBad'
    BY <1>5, OtherPending, OtherReport DEF StoreLocal
  <2> QED BY <1>5, <2>1, <2>2, PassesBy DEF StoreLocal
<1>6. CASE ResolveString
  <2>1. Executes({"ResolveString"}) /\ I.op \notin SelectionOps \cup {"ProjectSelect", "LoadLocal"}
    BY <1>6 DEF ResolveString, Executes, SelectionOps
  <2>2. Pending \o (IF Top.kind = "FunctionFallback" THEN <<"BadOperand">> ELSE <<>>)
          \in Seq(OtherErrors)
    BY OtherPending, OtherSeqs
  <2>3. NoneBad => NoneBad'
    BY <1>6, <2>2, OtherReport DEF ResolveString, Silent, NoneBad
  <2> QED BY <1>6, <2>1, <2>3, PassesBy DEF ResolveString
<1>7. CASE OutArg
  <2>1. Executes({"OutArg"}) /\ I.op \notin SelectionOps \cup {"ProjectSelect", "LoadLocal"}
    BY <1>7 DEF OutArg, Executes, SelectionOps
  <2>2. NoneBad => NoneBad'
    BY <1>7, OtherSeqs, OtherReport DEF OutArg, Silent, NoneBad
  <2> QED BY <1>7, <2>1, <2>2, PassesBy DEF OutArg
<1>8. CASE EmitMarkup
  <2>1. Executes(Markups) /\ I.op \notin SelectionOps \cup {"ProjectSelect", "LoadLocal"}
    BY <1>8 DEF EmitMarkup, Executes, SelectionOps, Markups
  <2>2. PICK errors \in Seq(OtherErrors) : Report(errors)
    BY <1>8, OtherSeqs DEF EmitMarkup
  <2>3. NoneBad => NoneBad'
    BY <2>2, OtherReport
  <2> QED BY <1>8, <2>1, <2>3, PassesBy DEF EmitMarkup
<1>9. CASE ProjectSelect
  <2>1. /\ Executes({"ProjectSelect"}) /\ I.op = "ProjectSelect" /\ pc' = Next1
        /\ UNCHANGED <<selector, matched>>
    BY <1>9 DEF ProjectSelect, Executes
  <2>2. PICK v \in HostValues \cup {Null}, host \in HostReports :
          /\ Unselectable(Top) => v = Null
          /\ stack' = Append(Rest(1), v)
          /\ Report(IF Unselectable(Top) THEN <<>>
                    ELSE IF IsNull(v) THEN host \o <<"BadSelector">> ELSE host)
    BY <1>9 DEF ProjectSelect
  <2>3. Rest(1) \in Seq(Value)
    BY <2>1, ExecutesReads DEF Takes, Uses, Calls, Markups, SelectorInv
  <2>4. v \in Value /\ IsNull(Null)
    BY VMAssumption, ValueType DEF IsNull, Null, Val
  <2>5. ASSUME ~ IsNull(v), NoneBad PROVE NoneBad'
    BY <2>2, <2>5, OtherSeqs, OtherReport
  <2> QED BY <2>1, <2>2, <2>3, <2>4, <2>5, IsSelectedOn
<1> QED BY <1>1, <1>2, <1>3, <1>4, <1>5, <1>6, <1>7, <1>8, <1>9

LEMMA SelectorStep ==
  ASSUME SelectorInv, SelectionsTogether(catalog), [Next]_vmVars
  PROVE  SelectorInv'
<1>1. VMInv' /\ catalog' = catalog
  <2>1. VMInv
    BY DEF SelectorInv
  <2>2. catalog' = catalog
    BY DEF vmVars, Next, Instruct, Begin, Fail, Return, Halt, TakeJump, JmpIfFalse, PushConst,
           LoadArg, LoadOptionArg, StoreLocal, StoreNowhere, LoadLocal, ResolveString, ExprFallback,
           OutLiteral, OutArg, OutVal, EmitMarkup, SelectArg, SelectStringArg, CheckSelector,
           SelectBegin, SelectLocal, CaseStr, SelectEnd, ProjectSelect, SkipCall, CallReturns,
           CallWrites, CallRecovers, CallFails, Executes
  <2> QED BY <2>1, <2>2, VMStep
<1>2. ASSUME NEW at \in DOMAIN catalog.code, OnlySelection(catalog, at)
      PROVE  SelectorAt(at)'
  <2>1. Selecting(at)
    BY <1>2 DEF Selecting, SelectorInv
  <2>2. CASE UNCHANGED vmVars
    <3>1. SelectorAt(at)
      BY <2>1 DEF Selecting
    <3> QED BY <2>2, <3>1 DEF vmVars, exec, SelectorAt, NoneBad, BadAhead, BadSelected, BadLocal,
                              I, Top, Depth
  <2> QED
    BY <2>1, <2>2, SelectorAtEnds, SelectorAtCalls, SelectorAtInstructions, SelectsHere, ChecksAhead
    DEF Next, Instruct
<1>3. \A at \in DOMAIN catalog'.code : OnlySelection(catalog', at) => SelectorAt(at)'
  BY <1>1, <1>2
<1> QED BY <1>1, <1>3, NotesKept DEF SelectorInv

\* A selection that reported BadSelector takes its default arm.  In code whose only
\* selection is in one piece, as lowering writes a match, no case is taken in an
\* execution that has reported it, before or after, whether the selector is an
\* argument, a local, a projection or a call, whatever its text and whatever hosts
\* answer.
THEOREM BadSelectorDefaults == OneAtATime => (Spec => []BadSelectorTakesDefault)
<1> SUFFICES ASSUME OneAtATime PROVE Spec => []BadSelectorTakesDefault
  OBVIOUS
<1>1. Init => SelectorInv
  <2> SUFFICES ASSUME Init PROVE SelectorInv
    OBVIOUS
  <2>1. \A at : SelectorAt(at)
    BY OtherSeqs DEF Init, Fresh, SelectorAt, NoneBad, NoSelector
  <2> QED BY <2>1, VMInitial, OtherSeqs DEF Init, Fresh, SelectorInv, CleanExpr
<1>2. SelectorInv /\ [Next]_vmVars => SelectorInv'
  <2> SUFFICES ASSUME SelectorInv, [Next]_vmVars PROVE SelectorInv'
    OBVIOUS
  <2>1. SelectionsTogether(catalog)
    BY DEF SelectorInv, VMInv, OneAtATime
  <2> QED BY <2>1, SelectorStep
<1>3. SelectorInv => BadSelectorTakesDefault
  <2> SUFFICES ASSUME SelectorInv, matched # {},
                      NEW at \in DOMAIN catalog.code, OnlySelection(catalog, at),
                      NEW n \in 1..Len(diags)
               PROVE  diags[n] # "BadSelector"
    BY DEF BadSelectorTakesDefault, SelectionsOf
  <2>1. diags \in Seq(OtherErrors)
    BY DEF SelectorInv, SelectorAt, NoneBad
  <2>2. diags[n] \in OtherErrors
    BY <2>1, ElementOfSeq
  <2> QED BY <2>2 DEF OtherErrors
<1> QED BY <1>1, <1>2, <1>3, PTL DEF Spec

-----------------------------------------------------------------------------
(* A message is always formatted: along a path of the code the stack, the slots, *)
(* the selector and the fallback are what the frames of its instructions say.   *)

\* A call that wrote its output owes the value that the OutVal after it would pop.
Owed == IF direct THEN Append(stack, Null) ELSE stack

MarkedBy(s, marks) ==
    Len(s) = Len(marks) /\ \A n \in 1..Len(s) : marks[n] = "constant" => s[n].kind = "StrRef"

\* The state has what the frame counts on.
Fulfils(f) ==
    /\ f.reached
    /\ MarkedBy(Owed, f.stack)
    /\ f.slots <= Len(locals)
    /\ f.selects => selector.kind # "None"
    /\ f.falls => HasFallback

FramedInv ==
    /\ VMInv
    /\ CompiledAlwaysFormats
    /\ status = "idle" => stack = <<>> /\ locals = <<>> /\ selector = NoSelector
    /\ status = "running" => pc \in DOMAIN catalog.code /\ Fulfils(Frames(catalog)[pc])

Framed == \A c \in Catalogs : WellFramed(c)

LEMMA FrameHere ==
  ASSUME FramedInv, Framed, Running
  PROVE  \E f \in Frame :
           /\ Fulfils(f) /\ Suffices(I, f)
           /\ \A to \in LeadsTo(catalog, pc) :
                to \in DOMAIN catalog.code /\ CountsOnLess(Frames(catalog)[to], FrameAfter(I, f))
BY DEF FramedInv, VMInv, Framed, Running, WellFramed, I, Fulfils

\* A mark stays with its value when others are popped and one is pushed.
LEMMA MarksTaken ==
  ASSUME NEW s \in Seq(Value), NEW marks \in Seq({"constant", "value"}), MarkedBy(s, marks),
         NEW n \in Nat, n <= Len(marks)
  PROVE  MarkedBy(SubSeq(s, 1, Len(s) - n), SubSeq(marks, 1, Len(marks) - n))
<1>1. Len(s) \in Nat /\ Len(s) = Len(marks) /\ Len(s) - n \in 0..Len(s)
  BY LenProperties DEF MarkedBy
<1>2. /\ Len(SubSeq(s, 1, Len(s) - n)) = Len(s) - n
      /\ Len(SubSeq(marks, 1, Len(s) - n)) = Len(s) - n
      /\ \A k \in 1..(Len(s) - n) : SubSeq(s, 1, Len(s) - n)[k] = s[k]
      /\ \A k \in 1..(Len(s) - n) : SubSeq(marks, 1, Len(s) - n)[k] = marks[k]
  BY <1>1, SubSeqProperties
<1> QED BY <1>1, <1>2 DEF MarkedBy

LEMMA MarksMade ==
  ASSUME NEW s \in Seq(Value), NEW marks \in Seq({"constant", "value"}), MarkedBy(s, marks),
         NEW v \in Value, NEW mark \in {"constant", "value"},
         mark = "constant" => v.kind = "StrRef"
  PROVE  MarkedBy(Append(s, v), marks \o <<mark>>)
<1>1. Len(s) \in Nat /\ Len(s) = Len(marks)
  BY LenProperties DEF MarkedBy
<1>2. marks \o <<mark>> = Append(marks, mark)
  OBVIOUS
<1>3. /\ Len(Append(s, v)) = Len(s) + 1 /\ Len(Append(marks, mark)) = Len(s) + 1
      /\ \A k \in 1..(Len(s) + 1) :
           /\ Append(s, v)[k] = IF k <= Len(s) THEN s[k] ELSE v
           /\ Append(marks, mark)[k] = IF k <= Len(s) THEN marks[k] ELSE mark
  BY <1>1, AppendProperties
<1> QED BY <1>1, <1>2, <1>3 DEF MarkedBy

\* What is left of the values below those that an instruction works on.
Below == SubSeq(Owed, 1, Len(Owed) - Uses(I))

LEMMA UsesType == ASSUME VMInv, Running PROVE Uses(I) \in Nat
<1>1. I.argc + 2 * I.optc \in Nat /\ 2 * I.optc \in Nat
  BY InstructionType
<1> QED BY <1>1 DEF Uses

LEMMA OwedType == ASSUME VMInv PROVE Owed \in Seq(Value)
BY AppendProperties, ValueType DEF VMInv, TypeOK, Owed

\* No instruction traps where its frame is fulfilled.
LEMMA NoTrap ==
  ASSUME FramedInv, Framed, Running
  PROVE  /\ ExecFault(I) = "None"
         /\ I.op = "StoreLocal" => I.id <= Len(locals)
         /\ I.op = "CallFunc" => HasFallback
<1>1. PICK f \in Frame :
        /\ Fulfils(f) /\ Suffices(I, f)
        /\ \A to \in LeadsTo(catalog, pc) : to \in DOMAIN catalog.code
  BY FrameHere
<1>2. /\ VMInv /\ I \in Instruction /\ I.id \in Nat /\ I.argc \in Nat /\ I.optc \in Nat
      /\ stack \in Seq(Value) /\ Depth \in Nat /\ Len(locals) \in Nat
      /\ f.slots \in Nat /\ f.stack \in Seq({"constant", "value"}) /\ Len(f.stack) \in Nat
  BY <1>1, InstructionType, LenProperties DEF FramedInv, VMInv, TypeOK, Frame, Depth
<1>3. direct => I.op = "OutVal"
  BY <1>2 DEF VMInv, DirectOutputIsConsumed
<1>4. I.op = "CallFunc" => Next1 \in DOMAIN catalog.code
  BY <1>1 DEF LeadsTo, Next1, I, JumpOnly, Stop
<1>5. ~ direct => Depth = Len(f.stack)
  BY <1>1 DEF Fulfils, MarkedBy, Owed, Depth
<1>6. ASSUME I.op \in Calls \cup Markups, NEW k \in 1..I.optc
      PROVE  PairFault(I, k) = "None"
  <2>1. ~ direct
    BY <1>3, <1>6 DEF Calls, Markups
  <2>2. 2 * I.optc <= Uses(I)
    BY <1>2, <1>6 DEF Uses, Calls, Markups
  <2>3. Uses(I) <= Len(f.stack) /\ f.stack[Len(f.stack) - 2 * k + 1] = "constant"
    BY <1>1, <1>6 DEF Suffices
  <2>4. Depth - 2 * k + 1 \in 1..Depth /\ 2 * k <= Depth /\ k \in Nat
    <3>1. Uses(I) \in Nat
      BY <1>2, UsesType
    <3> QED BY <1>2, <1>5, <1>6, <2>1, <2>2, <2>3, <3>1
  <2>5. PairKey(k).kind = "StrRef"
    BY <1>1, <1>5, <2>1, <2>3, <2>4 DEF Fulfils, MarkedBy, Owed, PairKey, Depth
  <2> QED BY <1>2, <2>4, <2>5 DEF PairFault, KeyFault
<1>7. I.op \in Calls \cup Markups => FaultyPairs(I) = {}
  BY <1>6 DEF FaultyPairs
<1>8. ~ (Depth < Takes(I))
  <2>1. CASE direct
    BY <1>2, <1>3, <2>1 DEF Takes
  <2>2. CASE ~ direct
    <3>1. Takes(I) = Uses(I) /\ Uses(I) <= Depth
      BY <1>1, <1>5, <2>2 DEF Suffices, Takes
    <3>2. Takes(I) \in Nat
      BY <1>2, TakesType
    <3> QED BY <1>2, <3>1, <3>2
  <2> QED BY <2>1, <2>2
<1>9. I.op \in {"LoadLocal", "CheckSelector", "SelectLocal"} => ~ (I.id >= Len(locals))
  BY <1>1, <1>2 DEF Suffices, Fulfils
<1>10. I.op = "CaseStr" => selector.kind # "None"
  BY <1>1 DEF Suffices, Fulfils
<1>11. I.op = "StoreLocal" => I.id <= Len(locals)
  BY <1>1, <1>2 DEF Suffices, Fulfils
<1>12. I.op = "CallFunc" => HasFallback
  BY <1>1 DEF Suffices, Fulfils
<1>13. ExecFault(I) = "None"
  BY <1>4, <1>7, <1>8, <1>9, <1>10 DEF ExecFault, PeeksNext
<1> QED BY <1>11, <1>12, <1>13

\* An instruction that goes where it may, and leaves what its frame says it leaves,
\* fulfils the frame of the next one.
LEMMA FrameKept ==
  ASSUME FramedInv, Framed, VMInv', NEW ops, Executes(ops), pc' \in LeadsTo(catalog, pc),
         \/ I.op \notin Loads \cup Makes /\ Owed' = Below
         \/ /\ I.op \in Loads \cup Makes
            /\ \E v \in Value : Owed' = Append(Below, v) /\ (I.op = "PushConst" => v.kind = "StrRef"),
         Len(locals) <= Len(locals'),
         I.op = "StoreLocal" /\ I.id = Len(locals) => Len(locals') = Len(locals) + 1,
         I.op \in SelectionOps => selector'.kind # "None",
         I.op \notin SelectionOps \cup {"SelectEnd"} => selector' = selector,
         I.op = "ExprFallback" => HasFallback',
         I.op \notin Consumers \cup {"ExprFallback"} => expr'.fallback = expr.fallback
  PROVE  FramedInv'
<1>1. PICK f \in Frame :
        /\ Fulfils(f) /\ Suffices(I, f)
        /\ \A to \in LeadsTo(catalog, pc) :
             to \in DOMAIN catalog.code /\ CountsOnLess(Frames(catalog)[to], FrameAfter(I, f))
  BY FrameHere DEF Executes
<1>2. /\ VMInv /\ status' = "running" /\ result' = result /\ catalog' = catalog
      /\ I.id \in Nat /\ Owed \in Seq(Value)
      /\ Len(locals) \in Nat /\ Len(locals') \in Nat
      /\ f.slots \in Nat /\ f.stack \in Seq({"constant", "value"})
  BY <1>1, ExecutesReads, OwedType, LenProperties
  DEF FramedInv, VMInv, TypeOK, Frame, Executes, Running
<1>3. Uses(I) \in Nat /\ Uses(I) <= Len(f.stack)
  BY <1>1, <1>2, UsesType DEF Suffices, Executes
<1> DEFINE g == FrameAfter(I, f)
           left == SubSeq(f.stack, 1, Len(f.stack) - Uses(I))
<1>4. MarkedBy(Owed', g.stack)
  <2>1. MarkedBy(Below, left) /\ Below \in Seq(Value) /\ left \in Seq({"constant", "value"})
    <3>1. MarkedBy(Owed, f.stack)
      BY <1>1 DEF Fulfils
    <3>2. Len(Owed) = Len(f.stack) /\ Len(Owed) \in Nat /\ Len(Owed) - Uses(I) <= Len(Owed)
      BY <1>2, <1>3, <3>1, LenProperties DEF MarkedBy
    <3>3. Below \in Seq(Value) /\ left \in Seq({"constant", "value"})
      BY <1>2, <1>3, <3>2, SubSeqProperties DEF Below
    <3> QED BY <1>2, <1>3, <3>1, <3>3, MarksTaken DEF Below
  <2>2. CASE I.op \notin Loads \cup Makes /\ Owed' = Below
    <3>1. g.stack = left \o <<>>
      BY <2>2 DEF FrameAfter, Loads
    <3>2. g.stack = left
      BY <2>1, <3>1, ConcatEmptySeq
    <3> QED BY <2>1, <2>2, <3>2
  <2>3. ASSUME NEW v \in Value, I.op \in Loads \cup Makes, Owed' = Append(Below, v),
               I.op = "PushConst" => v.kind = "StrRef"
        PROVE  MarkedBy(Owed', g.stack)
    <3>1. PICK mark \in {"constant", "value"} :
            g.stack = left \o <<mark>> /\ (mark = "constant" => I.op = "PushConst")
      BY <2>3 DEF FrameAfter
    <3> QED BY <2>1, <2>3, <3>1, MarksMade
  <2> QED BY <2>2, <2>3
<1>5. g.slots <= Len(locals')
  BY <1>1, <1>2 DEF FrameAfter, Fulfils
<1>6. g.selects => selector'.kind # "None"
  BY <1>1 DEF FrameAfter, Fulfils
<1>7. g.falls => HasFallback'
  BY <1>1 DEF FrameAfter, Fulfils, HasFallback
<1>8. pc' \in DOMAIN catalog.code /\ CountsOnLess(Frames(catalog)[pc'], g)
  BY <1>1
<1>9. Frames(catalog)[pc'] \in Frame
  BY <1>2, <1>8 DEF Framed, VMInv, WellFramed
<1>10. Fulfils(Frames(catalog)[pc])'
  <2> HIDE DEF g
  <2>1. Frames(catalog)[pc'].slots <= Len(locals')
    <3>1. Frames(catalog)[pc'].slots \in Nat /\ Frames(catalog)[pc'].slots <= g.slots
      BY <1>8, <1>9 DEF CountsOnLess, Frame
    <3>2. g.slots \in Nat
      BY <1>2 DEF FrameAfter, g
    <3> QED BY <1>2, <1>5, <3>1, <3>2
  <2>2. MarkedBy(Owed', Frames(catalog)[pc'].stack)
    BY <1>4, <1>8 DEF CountsOnLess
  <2> QED BY <1>2, <1>6, <1>7, <1>8, <2>1, <2>2 DEF Fulfils, CountsOnLess
<1> QED BY <1>2, <1>8, <1>10 DEF FramedInv, CompiledAlwaysFormats

\* What is below, and where an instruction may go.
LEMMA BelowIs ==
  ASSUME FramedInv, NEW ops, Executes(ops)
  PROVE  /\ I.op # "OutVal" => direct = FALSE /\ Below = Rest(Uses(I)) /\ Takes(I) = Uses(I)
         /\ Rest(0) = stack
         /\ I.op = "OutVal" /\ direct => Below = stack
         /\ I.op = "OutVal" /\ ~ direct => Below = Rest(1)
         /\ I.op \notin JumpOnly \cup Stop => Next1 \in LeadsTo(catalog, pc)
         /\ I.op \in Jumps => JumpTarget(catalog.code, pc) \in LeadsTo(catalog, pc)
<1>1. /\ VMInv /\ stack \in Seq(Value) /\ Len(stack) \in Nat /\ direct \in BOOLEAN
      /\ direct => I.op = "OutVal"
  BY LenProperties DEF FramedInv, VMInv, TypeOK, DirectOutputIsConsumed
<1>2. I.op # "OutVal" => direct = FALSE /\ Below = Rest(Uses(I)) /\ Takes(I) = Uses(I)
  BY <1>1 DEF Below, Owed, Rest, Depth, Takes
<1>3. Rest(0) = stack
  <2>1. SubSeq(stack, 1, Len(stack)) = stack
    BY <1>1, SubSeqFull
  <2> QED BY <1>1, <2>1 DEF Rest, Depth
<1>4. I.op = "OutVal" => Uses(I) = 1
  BY DEF Uses, Calls, Markups
<1>5. I.op = "OutVal" /\ direct => Below = stack
  <2> SUFFICES ASSUME I.op = "OutVal", direct PROVE Below = stack
    OBVIOUS
  <2>1. Below = SubSeq(Append(stack, Null), 1, Len(Append(stack, Null)) - 1)
    BY <1>4 DEF Below, Owed
  <2>2. Len(Append(stack, Null)) - 1 = Len(stack) /\ Append(stack, Null) \in Seq(Value)
    BY <1>1, AppendProperties, ValueType
  <2>3. SubSeq(Append(stack, Null), 1, Len(stack)) = stack
    BY <1>1, ValueType
  <2> QED BY <2>1, <2>2, <2>3
<1>6. I.op = "OutVal" /\ ~ direct => Below = Rest(1)
  BY <1>4 DEF Below, Owed, Rest, Depth
<1>7. /\ I.op \notin JumpOnly \cup Stop => Next1 \in LeadsTo(catalog, pc)
      /\ I.op \in Jumps => JumpTarget(catalog.code, pc) \in LeadsTo(catalog, pc)
  BY DEF LeadsTo, I, Next1
<1> QED BY <1>2, <1>3, <1>5, <1>6, <1>7

\* Where a format starts, and that nothing but fuel and its end stops it.
LEMMA FramedEnds ==
  ASSUME FramedInv, Framed, VMInv', Begin \/ Halt \/ Fail \/ StoreNowhere \/ CallFails
  PROVE  FramedInv'
<1>1. VMInv /\ CompiledAlwaysFormats /\ WellFramed(catalog)
  BY DEF FramedInv, VMInv, Framed
<1>2. CASE Begin
  <2>1. PICK m \in 1..Len(catalog.entries) : catalog.entries[m] = pc'
    BY <1>2 DEF Begin
  <2>2. /\ pc' \in DOMAIN catalog'.code /\ CountsOnLess(Frames(catalog')[pc'], Bare)
        /\ status' = "running" /\ result' = "None"
    BY <1>1, <1>2, <2>1 DEF Begin, WellFramed
  <2>3. Owed' = <<>> /\ locals' = <<>>
    BY <1>1, <1>2 DEF Begin, FramedInv, VMInv, TypeOK, Quiescent, Owed
  <2>4. Fulfils(Frames(catalog)[pc])'
    BY <2>2, <2>3 DEF Fulfils, Bare, MarkedBy, CountsOnLess
  <2> QED BY <2>2, <2>4 DEF FramedInv, CompiledAlwaysFormats
<1>3. ASSUME Return("Ok") \/ Return("FuelExhausted") PROVE FramedInv'
  BY <1>3 DEF Return, FramedInv, CompiledAlwaysFormats
<1>4. CASE Fail
  <2>1. status = "running" => pc \in DOMAIN catalog.code
    BY DEF FramedInv
  <2> QED BY <1>3, <1>4, <2>1, NoTrap DEF Fail
<1>5. ~ StoreNowhere
  <2> SUFFICES ASSUME StoreNowhere PROVE FALSE
    OBVIOUS
  <2>1. Running /\ I.id > Len(locals) /\ I.id <= Len(locals)
    BY NoTrap DEF StoreNowhere
  <2>2. I.id \in Nat /\ Len(locals) \in Nat
    BY <1>1, <2>1, InstructionType, LenProperties DEF VMInv, TypeOK
  <2> QED BY <2>1, <2>2
<1>6. ~ CallFails
  BY NoTrap DEF CallFails
<1> QED BY <1>2, <1>3, <1>4, <1>5, <1>6 DEF Halt

\* What an instruction pushes is a value.
LEMMA Pushed ==
  ASSUME VMInv, VMInv', NEW ops, Executes(ops), Below = Rest(Takes(I)),
         NEW v, stack' = Append(Below, v)
  PROVE  v \in Value
<1>1. Below \in Seq(Value) /\ stack' \in Seq(Value)
  BY ExecutesReads DEF VMInv, TypeOK
<1>2. Len(stack') = Len(Below) + 1 /\ stack'[Len(Below) + 1] = v /\ Len(Below) \in Nat
  BY <1>1, LenProperties
<1> QED BY <1>1, <1>2, ElementOfSeq

LEMMA FramedLoads ==
  ASSUME FramedInv, Framed, VMInv',
         PushConst \/ LoadArg \/ LoadOptionArg \/ LoadLocal \/ ResolveString \/ ProjectSelect
  PROVE  FramedInv'
<1> USE DEF Advance, GoTo
<1>1. VMInv
  BY DEF FramedInv
<1>2. PICK ops : /\ Executes(ops) /\ I.op \in (Loads \cup Makes) \ Calls
                 /\ pc' = Next1 /\ UNCHANGED <<locals, selector, direct>>
                 /\ I.op # "ResolveString" => expr'.fallback = expr.fallback
  <2>1. LoadArg \/ LoadOptionArg => expr'.fallback = expr.fallback
    <3>1. expr \in ExprState
      BY <1>1 DEF VMInv, TypeOK
    <3> QED BY <3>1 DEF LoadArg, LoadOptionArg, ExprState
  <2> QED
    BY <2>1 DEF PushConst, LoadArg, LoadOptionArg, LoadLocal, ResolveString, ProjectSelect,
                Executes, Loads, Makes, Calls
<1>3. /\ I.op \notin {"OutVal", "StoreLocal", "ExprFallback", "SelectEnd"} /\ I.op \notin SelectionOps
      /\ I.op \in Consumers => I.op = "ResolveString"
      /\ I.op \in Loads \cup Makes /\ I.op \notin JumpOnly \cup Stop
      /\ pc' \in LeadsTo(catalog, pc)
  <2>1. /\ I.op \notin {"OutVal", "StoreLocal", "ExprFallback", "SelectEnd"} /\ I.op \notin SelectionOps
        /\ I.op \in Consumers => I.op = "ResolveString"
        /\ I.op \in Loads \cup Makes /\ I.op \notin JumpOnly \cup Stop
    BY <1>2 DEF SelectionOps, Consumers, JumpOnly, Stop, Loads, Makes, Calls
  <2> QED BY <1>2, <2>1, BelowIs
<1>4. /\ direct = FALSE /\ Owed' = stack' /\ Rest(0) = stack
      /\ Below = Rest(Uses(I)) /\ Takes(I) = Uses(I)
  BY <1>2, <1>3, BelowIs DEF Owed
<1>5. PICK v : stack' = Append(Below, v) /\ (I.op = "PushConst" => v.kind = "StrRef")
  <2>1. CASE I.op \in Loads
    <3>1. Uses(I) = 0
      BY <2>1 DEF Uses, Loads, Calls, Markups
    <3> QED
      BY <1>2, <1>4, <2>1, <3>1
      DEF PushConst, LoadArg, LoadOptionArg, LoadLocal, ResolveString, ProjectSelect,
          Executes, Push, Val, Loads
  <2>2. CASE I.op \in {"ResolveString", "ProjectSelect"}
    <3>1. Uses(I) = 1
      BY <2>2 DEF Uses, Calls, Markups
    <3> QED
      BY <1>2, <1>4, <2>2, <3>1
      DEF PushConst, LoadArg, LoadOptionArg, LoadLocal, ResolveString, ProjectSelect, Executes
  <2> QED BY <1>2, <2>1, <2>2 DEF Makes
<1>6. v \in Value
  BY <1>1, <1>2, <1>4, <1>5, Pushed
<1>7. Len(locals) \in Nat
  BY <1>1, LenProperties DEF VMInv, TypeOK
<1>8. \E w \in Value : Owed' = Append(Below, w) /\ (I.op = "PushConst" => w.kind = "StrRef")
  BY <1>4, <1>5, <1>6
<1>9. /\ Len(locals) <= Len(locals') /\ selector' = selector
      /\ I.op \notin Consumers => expr'.fallback = expr.fallback
  BY <1>2, <1>3, <1>7 DEF Consumers
<1> QED BY <1>2, <1>3, <1>8, <1>9, FrameKept

\* An instruction that pushes nothing.
LEMMA FramedPops ==
  ASSUME FramedInv, Framed, VMInv',
         \/ TakeJump \/ JmpIfFalse \/ CaseStr \/ StoreLocal \/ ExprFallback
         \/ OutLiteral \/ OutArg \/ OutVal \/ EmitMarkup
         \/ SelectArg \/ SelectStringArg \/ CheckSelector \/ SelectBegin \/ SelectLocal \/ SelectEnd
  PROVE  FramedInv'
<1> USE DEF Advance, GoTo
<1>1. VMInv /\ Len(locals) \in Nat /\ direct \in BOOLEAN
  BY LenProperties DEF FramedInv, VMInv, TypeOK
<1>2. PICK ops : Executes(ops) /\ I.op \in ops /\ I.op \notin Loads \cup Makes
  BY DEF TakeJump, JmpIfFalse, CaseStr, StoreLocal, ExprFallback, OutLiteral, OutArg, OutVal,
         EmitMarkup, SelectArg, SelectStringArg, CheckSelector, SelectBegin, SelectLocal,
         SelectEnd, Executes, Loads, Makes, Calls, Markups
<1>3. pc' \in LeadsTo(catalog, pc)
  <2>1. CASE TakeJump
    BY <1>2, <2>1, BelowIs DEF TakeJump, Executes, Jumps, JumpOnly
  <2>2. CASE JmpIfFalse \/ CaseStr
    <3>1. /\ I.op \in Jumps /\ I.op \notin JumpOnly \cup Stop
          /\ pc' = JumpTarget(catalog.code, pc) \/ pc' = Next1
      BY <2>2 DEF JmpIfFalse, CaseStr, Executes, Jumps, JumpOnly, Conditional, Stop
    <3> QED BY <1>2, <3>1, BelowIs
  <2>3. CASE ~ (TakeJump \/ JmpIfFalse \/ CaseStr)
    <3>1. pc' = Next1 /\ I.op \notin JumpOnly \cup Stop
      BY <2>3 DEF StoreLocal, ExprFallback, OutLiteral, OutArg, OutVal, EmitMarkup, SelectArg,
                  SelectStringArg, CheckSelector, SelectBegin, SelectLocal, SelectEnd,
                  Executes, JumpOnly, Stop, Markups
    <3> QED BY <1>2, <3>1, BelowIs
  <2> QED BY <2>1, <2>2, <2>3
<1>4. Owed' = Below
  <2>1. CASE OutVal
    <3>1. I.op = "OutVal"
      BY <2>1 DEF OutVal, Executes
    <3> QED BY <1>1, <1>2, <2>1, <3>1, BelowIs DEF OutVal, Owed
  <2>2. CASE ~ OutVal
    <3>1. I.op # "OutVal" /\ UNCHANGED direct
      BY <2>2 DEF TakeJump, JmpIfFalse, CaseStr, StoreLocal, ExprFallback, OutLiteral, OutArg,
                  EmitMarkup, SelectArg, SelectStringArg, CheckSelector, SelectBegin, SelectLocal,
                  SelectEnd, Executes, Markups
    <3>2. direct = FALSE /\ Below = Rest(Uses(I)) /\ Rest(0) = stack /\ Owed' = stack'
      BY <1>2, <3>1, BelowIs DEF Owed
    <3>3. CASE JmpIfFalse \/ StoreLocal \/ SelectBegin
      <4>1. Uses(I) = 1 /\ stack' = Rest(1)
        BY <3>3 DEF JmpIfFalse, StoreLocal, SelectBegin, Executes, Uses, Calls, Markups
      <4> QED BY <3>2, <4>1
    <3>4. CASE EmitMarkup
      <4>1. Uses(I) = 2 * I.optc /\ stack' = Rest(2 * I.optc)
        BY <3>4 DEF EmitMarkup, Executes, Uses, Calls, Markups
      <4> QED BY <3>2, <4>1
    <3>5. CASE TakeJump \/ CaseStr \/ ExprFallback \/ OutLiteral \/ OutArg \/ SelectArg
               \/ SelectStringArg \/ CheckSelector \/ SelectLocal \/ SelectEnd
      <4>1. Uses(I) = 0 /\ stack' = stack
        BY <3>5 DEF TakeJump, CaseStr, ExprFallback, OutLiteral, OutArg, SelectArg,
                    SelectStringArg, CheckSelector, SelectLocal, SelectEnd,
                    Executes, Uses, Calls, Markups
      <4> QED BY <3>2, <4>1
    <3> QED BY <2>2, <3>3, <3>4, <3>5
  <2> QED BY <2>1, <2>2
<1>5. /\ Len(locals) <= Len(locals')
      /\ I.op = "StoreLocal" /\ I.id = Len(locals) => Len(locals') = Len(locals) + 1
  <2>1. CASE StoreLocal
    <3>1. locals \in Seq(Value)
      BY <1>1 DEF VMInv, TypeOK
    <3>2. CASE I.id = Len(locals)
      BY <1>1, <2>1, <3>1, <3>2, AppendProperties DEF StoreLocal
    <3>3. CASE I.id # Len(locals)
      <4>1. locals' = [locals EXCEPT ![I.id + 1] = Declared(Top)]
        BY <2>1, <3>3 DEF StoreLocal
      <4>2. Len(locals') = Len(locals)
        BY <3>1, <4>1, ExceptSeq
      <4> QED BY <1>1, <3>3, <4>2
    <3> QED BY <3>2, <3>3
  <2>2. CASE ~ StoreLocal
    <3>1. locals' = locals /\ I.op # "StoreLocal"
      BY <2>2 DEF TakeJump, JmpIfFalse, CaseStr, ExprFallback, OutLiteral, OutArg, OutVal,
                  EmitMarkup, SelectArg, SelectStringArg, CheckSelector, SelectBegin, SelectLocal,
                  SelectEnd, Executes, Markups
    <3> QED BY <1>1, <3>1
  <2> QED BY <2>1, <2>2
<1>6. /\ I.op \in SelectionOps => selector'.kind # "None"
      /\ I.op \notin SelectionOps \cup {"SelectEnd"} => selector' = selector
  BY DEF TakeJump, JmpIfFalse, CaseStr, StoreLocal, ExprFallback, OutLiteral, OutArg, OutVal,
         EmitMarkup, SelectArg, SelectStringArg, CheckSelector, SelectBegin, SelectLocal,
         SelectEnd, Executes, Markups, SelectionOps, Select
<1>7. /\ I.op = "ExprFallback" => HasFallback'
      /\ I.op \notin Consumers \cup {"ExprFallback"} => expr'.fallback = expr.fallback
  <2>1. CASE ExprFallback
    <3>1. expr' = [expr EXCEPT !.fallback = I.id] /\ expr \in ExprState /\ I.id \in Nat
          /\ I.op = "ExprFallback"
      BY <1>1, <1>2, <2>1, ExecutesReads DEF ExprFallback, Executes
    <3>2. expr'.fallback = I.id /\ I.id # NoId
      BY <3>1 DEF ExprState, NoId
    <3> QED BY <3>1, <3>2 DEF HasFallback
  <2>2. CASE ~ ExprFallback
    BY <2>2 DEF TakeJump, JmpIfFalse, CaseStr, StoreLocal, OutLiteral, OutArg, OutVal,
                EmitMarkup, SelectArg, SelectStringArg, CheckSelector, SelectBegin, SelectLocal,
                SelectEnd, Executes, Markups, Consumers
  <2> QED BY <2>1, <2>2
<1> QED BY <1>2, <1>3, <1>4, <1>5, <1>6, <1>7, FrameKept

\* A call leaves its value, or owes it to the OutVal that follows.
LEMMA FramedCalls ==
  ASSUME FramedInv, Framed, VMInv', SkipCall \/ CallReturns \/ CallWrites \/ CallRecovers
  PROVE  FramedInv'
<1> USE DEF Advance, GoTo
<1>1. /\ VMInv /\ Executes(Calls) /\ I.op \in Calls /\ pc' = Next1
      /\ UNCHANGED <<locals, selector>>
  BY DEF FramedInv, SkipCall, CallReturns, CallWrites, CallRecovers, Executes
<1>2. /\ I.op \notin {"OutVal", "StoreLocal", "ExprFallback", "SelectEnd", "PushConst"}
      /\ I.op \notin SelectionOps /\ I.op \notin JumpOnly \cup Stop
      /\ I.op \in Consumers /\ I.op \in Loads \cup Makes
  BY <1>1 DEF SelectionOps, Consumers, JumpOnly, Stop, Loads, Makes, Calls
<1>3. /\ Below = Rest(Uses(I)) /\ Takes(I) = Uses(I)
      /\ pc' \in LeadsTo(catalog, pc)
  BY <1>1, <1>2, BelowIs
<1>4. \E v \in Value : Owed' = Append(Below, v)
  <2>1. CASE CallWrites
    <3>1. stack' = Below /\ direct' = TRUE
      BY <1>3, <2>1 DEF CallWrites
    <3> QED BY <3>1, ValueType DEF Owed
  <2>2. CASE SkipCall \/ CallReturns \/ CallRecovers
    <3>1. direct' = FALSE /\ \E v : stack' = Append(Below, v)
      BY <1>3, <2>2 DEF SkipCall, CallReturns, CallRecovers, PopCall
    <3> QED BY <1>1, <1>3, <3>1, Pushed DEF Owed
  <2> QED BY <2>1, <2>2
<1>5. Len(locals) <= Len(locals')
  BY <1>1, LenProperties DEF VMInv, TypeOK
<1> QED BY <1>1, <1>2, <1>3, <1>4, <1>5, FrameKept

LEMMA FramedStep == FramedInv /\ Framed /\ [Next]_vmVars => FramedInv'
<1> SUFFICES ASSUME FramedInv, Framed, [Next]_vmVars PROVE FramedInv'
  OBVIOUS
<1>1. VMInv'
  BY VMStep DEF FramedInv
<1>2. CASE UNCHANGED vmVars
  BY <1>1, <1>2 DEF vmVars, exec, FramedInv, CompiledAlwaysFormats, Fulfils, Owed, HasFallback
<1> QED
  BY <1>1, <1>2, FramedEnds, FramedLoads, FramedPops, FramedCalls DEF Next, Instruct

\* A compiled message always yields its output.  If every instruction of a catalog
\* finds what lowering counts on there, as WellFramed finds of the code it reads, no
\* arguments and no answers or errors of hosts stop a message: format_to returns Ok,
\* unless its fuel is used up.
THEOREM AlwaysFormats == Framed => (Spec => []CompiledAlwaysFormats)
<1> SUFFICES ASSUME Framed PROVE Spec => []CompiledAlwaysFormats
  OBVIOUS
<1>1. Init => FramedInv
  BY VMInitial DEF Init, Fresh, FramedInv, CompiledAlwaysFormats
<1>2. FramedInv /\ [Next]_vmVars => FramedInv'
  BY FramedStep
<1>3. FramedInv => CompiledAlwaysFormats
  BY DEF FramedInv
<1> QED BY <1>1, <1>2, <1>3, PTL DEF Spec

-----------------------------------------------------------------------------
(* Diagnostics are observers: what the quiet interpreter reads is what this   *)
(* one reads, errors apart.                                                  *)

LEMMA QuietSchema ==
  /\ Quiet!Calls = Calls /\ Quiet!Markups = Markups
  /\ \A code, at : Quiet!NextPc(code, at) = NextPc(code, at)
  /\ \A code, at : Quiet!JumpTarget(code, at) = JumpTarget(code, at)
<1>1. Quiet!Calls = Calls /\ Quiet!Markups = Markups /\ Quiet!OneByte = OneByte
  BY DEF Quiet!Calls, Calls, Quiet!Markups, Markups, Quiet!OneByte, OneByte
<1>2. Quiet!FiveByte = FiveByte /\ Quiet!NineByte = NineByte
  BY <1>1 DEF Quiet!FiveByte, FiveByte, Quiet!NineByte, NineByte
<1>3. \A op : Quiet!Width(op) = Width(op)
  BY <1>1, <1>2 DEF Quiet!Width, Width
<1>4. \A code, at : Quiet!NextPc(code, at) = NextPc(code, at)
  BY <1>3 DEF Quiet!NextPc, NextPc
<1>5. \A code, at : Quiet!JumpTarget(code, at) = JumpTarget(code, at)
  BY <1>4 DEF Quiet!JumpTarget, JumpTarget
<1> QED BY <1>1, <1>4, <1>5

LEMMA QuietValues ==
  /\ \A kind, text : Quiet!Val(kind, text) = Val(kind, text)
  /\ Quiet!Null = Null /\ Quiet!Missing = Missing /\ Quiet!NoSelector = NoSelector
  /\ Quiet!NoId = NoId /\ Quiet!Unlimited = Unlimited
  /\ \A v : Quiet!IsNull(v) <=> IsNull(v)
  /\ \A v : Quiet!IsFallback(v) <=> IsFallback(v)
  /\ \A v : Quiet!Unselectable(v) <=> Unselectable(v)
  /\ \A v : Quiet!Falsey(v) = Falsey(v)
<1>1. \A kind, text : Quiet!Val(kind, text) = Val(kind, text)
  BY DEF Quiet!Val, Val
<1>2. Quiet!Null = Null /\ Quiet!Missing = Missing
  BY <1>1 DEF Quiet!Null, Null, Quiet!Missing, Missing
<1>3. /\ Quiet!NoSelector = NoSelector /\ Quiet!NoId = NoId /\ Quiet!Unlimited = Unlimited
  BY <1>2 DEF Quiet!NoSelector, NoSelector, Quiet!NoId, NoId, Quiet!Unlimited, Unlimited
<1>4. \A v : (Quiet!IsNull(v) <=> IsNull(v)) /\ (Quiet!IsFallback(v) <=> IsFallback(v))
  BY DEF Quiet!IsNull, IsNull, Quiet!IsFallback, IsFallback
<1>5. \A v : Quiet!Unselectable(v) <=> Unselectable(v)
  BY <1>4 DEF Quiet!Unselectable, Unselectable
<1>6. \A v : Quiet!Falsey(v) = Falsey(v)
  BY <1>4 DEF Quiet!Falsey, Falsey, Quiet!IsTextual, IsTextual
<1> QED BY <1>1, <1>2, <1>3, <1>4, <1>5, <1>6

LEMMA QuietReads ==
  /\ (Quiet!Running <=> Running) /\ Quiet!I = I /\ Quiet!Next1 = Next1
  /\ Quiet!Depth = Depth /\ Quiet!Top = Top /\ \A n : Quiet!Rest(n) = Rest(n)
  /\ \A id : Quiet!Arg(id) = Arg(id) /\ (Quiet!HasArg(id) <=> HasArg(id))
  /\ Quiet!Takes(I) = Takes(I)
  /\ Quiet!ExecFault(I) = ExecFault(I)
  /\ (Quiet!WritesDirectly <=> WritesDirectly) /\ (Quiet!IsSelect <=> IsSelect)
  /\ Quiet!Selected = Selected /\ (Quiet!Matches <=> Matches)
<1>1. (Quiet!Running <=> Running) /\ Quiet!I = I /\ Quiet!Next1 = Next1
  BY QuietSchema DEF Quiet!Running, Running, Quiet!I, I, Quiet!Next1, Next1
<1>2. Quiet!Depth = Depth /\ Quiet!Top = Top /\ \A n : Quiet!Rest(n) = Rest(n)
  BY DEF Quiet!Depth, Depth, Quiet!Top, Top, Quiet!Rest, Rest
<1>3. \A id : Quiet!Arg(id) = Arg(id) /\ (Quiet!HasArg(id) <=> HasArg(id))
  BY DEF Quiet!Arg, Arg, Quiet!HasArg, HasArg, Quieted
<1>4. Quiet!Takes(I) = Takes(I)
  BY QuietSchema DEF Quiet!Takes, Quiet!Uses, Takes, Uses
<1>5. \A i, key : Quiet!KeyFault(i, key) = KeyFault(i, key)
  BY QuietSchema DEF Quiet!KeyFault, KeyFault
<1>6. \A i, k : Quiet!PairFault(i, k) = PairFault(i, k)
  BY <1>2, <1>5 DEF Quiet!PairFault, PairFault, Quiet!PairKey, PairKey
<1>7. \A i : Quiet!FaultyPairs(i) = FaultyPairs(i)
  BY <1>6 DEF Quiet!FaultyPairs, FaultyPairs
<1>8. \A ks : Quiet!FirstPair(ks) = FirstPair(ks)
  BY DEF Quiet!FirstPair, FirstPair
<1>9. \A i : Quiet!PeeksNext(i) <=> PeeksNext(i)
  BY DEF Quiet!PeeksNext, PeeksNext, Quieted
<1>10. Quiet!ExecFault(I) = ExecFault(I)
  BY <1>1, <1>2, <1>4, <1>6, <1>7, <1>8, <1>9, QuietSchema DEF Quiet!ExecFault, ExecFault
<1>11. (Quiet!WritesDirectly <=> WritesDirectly) /\ (Quiet!IsSelect <=> IsSelect)
  BY <1>1, <1>9 DEF Quiet!WritesDirectly, WritesDirectly, Quiet!IsSelect, IsSelect
<1>12. Quiet!Selected = Selected
  BY DEF Quiet!Selected, Selected
<1>13. Quiet!Matches <=> Matches
  BY <1>1, <1>12, QuietValues DEF Quiet!Matches, Matches
<1> QED BY <1>1, <1>2, <1>3, <1>4, <1>10, <1>11, <1>12, <1>13

\* Whether an expression failed is known without its errors.
LEMMA QuietExpr ==
  /\ (Quiet!HasFallback <=> HasFallback)
  /\ Quiet!FallbackValue = FallbackValue
  /\ \A v : Quiet!Declared(v) = Declared(v)
  /\ (Quiet!OperandFailed <=> OperandFailed)
  /\ \A list, error : Quiet!Noted(list, error) = <<"Any">>
  /\ (AnyOf(expr.pending) # <<>> <=> expr.pending # <<>>)
<1>1. AnyOf(expr.pending) # <<>> <=> expr.pending # <<>>
  BY DEF AnyOf
<1>2. Quiet!HasFallback <=> HasFallback
  BY QuietValues DEF Quiet!HasFallback, HasFallback
<1>3. Quiet!FallbackValue = FallbackValue
  BY <1>2, QuietValues DEF Quiet!FallbackValue, FallbackValue
<1>4. \A v : Quiet!Declared(v) = Declared(v)
  BY <1>1, <1>2, QuietValues DEF Quiet!Declared, Declared
<1>5. Quiet!Operands(I) = Operands(I)
  BY QuietReads DEF Quiet!Operands, Operands
<1>6. Quiet!OperandFailed <=> OperandFailed
  BY <1>1, <1>5, QuietReads DEF Quiet!OperandFailed, OperandFailed
<1>7. \A list, error : Quiet!Noted(list, error) = <<"Any">>
  BY DEF Quiet!Noted, Quieted
<1> QED BY <1>1, <1>2, <1>3, <1>4, <1>6, <1>7

\* The quiet interpreter reports nothing.
LEMMA QuietReports ==
  /\ \A errors : Quiet!Report(errors)
  /\ Quiet!Silent
BY DEF Quiet!Report, Quiet!Silent, Quieted

LEMMA QuietExecutes == ASSUME NEW ops, Executes(ops) PROVE Quiet!Executes(ops)
BY QuietReads, QuietValues DEF Executes, Quiet!Executes, Quieted

LEMMA QuietMoves ==
  /\ \A target : Quiet!GoTo(target) <=> GoTo(target)
  /\ Quiet!Advance <=> Advance
  /\ \A v : Quiet!Push(v) <=> Push(v)
  /\ \A v : Quiet!PopCall(v) <=> PopCall(v)
  /\ \A what, text : Quiet!Emit(what, text) <=> Emit(what, text)
  /\ \A v : Quiet!Output(v) <=> Output(v)
  /\ \A kind, v, slot : Quiet!Select(kind, v, slot) <=> Select(kind, v, slot)
<1>1. \A target : Quiet!GoTo(target) <=> GoTo(target)
  BY DEF Quiet!GoTo, GoTo
<1>2. Quiet!Advance <=> Advance
  BY <1>1, QuietReads DEF Quiet!Advance, Advance
<1>3. \A v : (Quiet!Push(v) <=> Push(v)) /\ (Quiet!PopCall(v) <=> PopCall(v))
  BY QuietReads DEF Quiet!Push, Push, Quiet!PopCall, PopCall
<1>4. \A what, text : Quiet!Emit(what, text) <=> Emit(what, text)
  BY DEF Quiet!Emit, Emit
<1>5. \A v : Quiet!Output(v) <=> Output(v)
  BY <1>4, QuietValues DEF Quiet!Output, Output
<1>6. \A kind, v, slot : Quiet!Select(kind, v, slot) <=> Select(kind, v, slot)
  BY DEF Quiet!Select, Select
<1> QED BY <1>1, <1>2, <1>3, <1>4, <1>5, <1>6

\* A return leaves the same clean state.
LEMMA QuietReturn ==
  ASSUME NEW outcome, Return(outcome)
  PROVE  Quiet!Return(outcome)
<1>1. Quiet!CleanExpr = CleanExpr /\ AnyOf(<<>>) = <<>>
  BY DEF Quiet!CleanExpr, CleanExpr, Quiet!NoId, NoId, AnyOf
<1> QED BY <1>1, QuietValues DEF Quiet!Return, Return, CleanExpr, Quieted

LEMMA ClearedRecord ==
  ASSUME NEW r \in ExprState
  PROVE  [r EXCEPT !.pending = <<>>, !.fallback = NoId]
           = [fallback |-> NoId, pending |-> <<>>, options |-> r.options]
<1> DEFINE cleared == [r EXCEPT !.pending = <<>>, !.fallback = NoId]
<1>1. cleared \in ExprState
  BY ErrorSeqs DEF ExprState
<1>2. cleared.fallback = NoId /\ cleared.pending = <<>> /\ cleared.options = r.options
  BY DEF ExprState
<1> HIDE DEF cleared
<1>3. cleared = [fallback |-> NoId, pending |-> <<>>, options |-> r.options]
  BY <1>1, <1>2 DEF ExprState
<1> QED BY <1>3 DEF cleared

\* The record of failures, reduced, after each of its changes.
QuietRecord == [fallback |-> expr.fallback, pending |-> AnyOf(expr.pending),
                options |-> AnyOf(expr.options)]

LEMMA QuietRecords ==
  ASSUME VMInv
  PROVE  /\ UNCHANGED expr => UNCHANGED QuietRecord
         /\ expr' = CleanExpr => QuietRecord' = Quiet!CleanExpr
         /\ expr' = [expr EXCEPT !.pending = <<>>, !.fallback = NoId] =>
              QuietRecord' = [QuietRecord EXCEPT !.pending = <<>>, !.fallback = Quiet!NoId]
         /\ expr' = [expr EXCEPT !.fallback = I.id] =>
              QuietRecord' = [QuietRecord EXCEPT !.fallback = I.id]
         /\ expr' = [expr EXCEPT !.pending = Noted(@, "MissingArg")] =>
              QuietRecord' = [QuietRecord EXCEPT !.pending = <<"Any">>]
         /\ expr' = [expr EXCEPT !.options = Noted(@, "MissingArg")] =>
              QuietRecord' = [QuietRecord EXCEPT !.options = <<"Any">>]
<1>1. expr \in ExprState /\ AnyOf(<<>>) = <<>> /\ Quiet!NoId = NoId
  BY DEF VMInv, TypeOK, AnyOf, Quiet!NoId, NoId
<1>2. \A list \in Seq(Errors) : AnyOf(Noted(list, "MissingArg")) = <<"Any">>
  <2> SUFFICES ASSUME NEW list \in Seq(Errors) PROVE Noted(list, "MissingArg") # <<>>
    BY DEF AnyOf
  <2>1. "MissingArg" \in Errors
    BY DEF Errors
  <2>2. Append(list, "MissingArg") # <<>>
    BY <2>1
  <2> QED BY <2>2 DEF Noted
<1>3. AnyOf(Noted(expr.pending, "MissingArg")) = <<"Any">>
      /\ AnyOf(Noted(expr.options, "MissingArg")) = <<"Any">>
  BY <1>1, <1>2 DEF ExprState
<1>4. expr = [fallback |-> expr.fallback, pending |-> expr.pending, options |-> expr.options]
  BY <1>1 DEF ExprState
<1>5. UNCHANGED expr => UNCHANGED QuietRecord
  BY DEF QuietRecord
<1>6. expr' = CleanExpr => QuietRecord' = Quiet!CleanExpr
  BY <1>1 DEF QuietRecord, CleanExpr, Quiet!CleanExpr
<1>7. expr' = [expr EXCEPT !.pending = <<>>, !.fallback = NoId] =>
        QuietRecord' = [QuietRecord EXCEPT !.pending = <<>>, !.fallback = Quiet!NoId]
  <2>1. [expr EXCEPT !.pending = <<>>, !.fallback = NoId]
          = [fallback |-> NoId, pending |-> <<>>, options |-> expr.options]
    BY <1>1, ClearedRecord
  <2>2. [QuietRecord EXCEPT !.pending = <<>>, !.fallback = Quiet!NoId]
          = [fallback |-> Quiet!NoId, pending |-> <<>>, options |-> AnyOf(expr.options)]
    <3>1. \A list \in Seq(Errors) : AnyOf(list) \in Seq(Errors)
      BY ErrorSeqs DEF AnyOf, Errors
    <3>2. QuietRecord \in ExprState /\ QuietRecord.options = AnyOf(expr.options)
      BY <1>1, <3>1 DEF QuietRecord, ExprState
    <3> QED BY <1>1, <3>2, ClearedRecord
  <2>3. expr' = [fallback |-> NoId, pending |-> <<>>, options |-> expr.options] =>
          QuietRecord' = [fallback |-> NoId, pending |-> AnyOf(<<>>), options |-> AnyOf(expr.options)]
    BY DEF QuietRecord
  <2> QED BY <1>1, <2>1, <2>2, <2>3
<1>8. expr' = [expr EXCEPT !.fallback = I.id] =>
        QuietRecord' = [QuietRecord EXCEPT !.fallback = I.id]
  BY <1>4 DEF QuietRecord
<1>9. expr' = [expr EXCEPT !.pending = Noted(@, "MissingArg")] =>
        QuietRecord' = [QuietRecord EXCEPT !.pending = <<"Any">>]
  BY <1>3, <1>4 DEF QuietRecord
<1>10. expr' = [expr EXCEPT !.options = Noted(@, "MissingArg")] =>
        QuietRecord' = [QuietRecord EXCEPT !.options = <<"Any">>]
  BY <1>3, <1>4 DEF QuietRecord
<1> QED BY <1>5, <1>6, <1>7, <1>8, <1>9, <1>10

LEMMA QuietJumps ==
  ASSUME VMInv
  PROVE  /\ TakeJump => Quiet!TakeJump
         /\ JmpIfFalse => Quiet!JmpIfFalse
         /\ CaseStr => Quiet!CaseStr
<1> USE QuietExecutes, QuietReads, QuietRecords, QuietMoves DEF QuietRecord
<1>1. TakeJump => Quiet!TakeJump
  BY QuietSchema DEF TakeJump, Quiet!TakeJump
<1>2. JmpIfFalse => Quiet!JmpIfFalse
  BY QuietSchema, QuietValues DEF JmpIfFalse, Quiet!JmpIfFalse
<1>3. CaseStr => Quiet!CaseStr
  BY QuietSchema DEF CaseStr, Quiet!CaseStr
<1> QED BY <1>1, <1>2, <1>3

LEMMA QuietLoads ==
  ASSUME VMInv
  PROVE  /\ PushConst => Quiet!PushConst
         /\ LoadArg => Quiet!LoadArg
         /\ LoadOptionArg => Quiet!LoadOptionArg
         /\ LoadLocal => Quiet!LoadLocal
         /\ StoreLocal => Quiet!StoreLocal
         /\ StoreNowhere => Quiet!StoreNowhere
         /\ ResolveString => Quiet!ResolveString
         /\ ExprFallback => Quiet!ExprFallback
<1> USE QuietExecutes, QuietReads, QuietRecords, QuietMoves DEF QuietRecord
<1>1. PushConst => Quiet!PushConst
  BY QuietValues DEF PushConst, Quiet!PushConst
<1>2. LoadArg => Quiet!LoadArg
  BY QuietExpr, QuietValues DEF LoadArg, Quiet!LoadArg
<1>3. LoadOptionArg => Quiet!LoadOptionArg
  BY QuietExpr, QuietValues DEF LoadOptionArg, Quiet!LoadOptionArg
<1>4. LoadLocal => Quiet!LoadLocal
  BY DEF LoadLocal, Quiet!LoadLocal
<1>5. StoreLocal => Quiet!StoreLocal
  BY QuietExpr, QuietReports DEF StoreLocal, Quiet!StoreLocal
<1>6. StoreNowhere => Quiet!StoreNowhere
  BY QuietReturn, QuietReports DEF StoreNowhere, Quiet!StoreNowhere
<1>7. ResolveString => Quiet!ResolveString
  BY QuietExpr, QuietValues, QuietReports DEF ResolveString, Quiet!ResolveString
<1>8. ExprFallback => Quiet!ExprFallback
  BY DEF ExprFallback, Quiet!ExprFallback
<1> QED BY <1>1, <1>2, <1>3, <1>4, <1>5, <1>6, <1>7, <1>8

LEMMA QuietOutputs ==
  ASSUME VMInv
  PROVE  /\ OutLiteral => Quiet!OutLiteral
         /\ OutArg => Quiet!OutArg
         /\ OutVal => Quiet!OutVal
         /\ EmitMarkup => Quiet!EmitMarkup
<1> USE QuietExecutes, QuietReads, QuietRecords, QuietMoves DEF QuietRecord
<1>1. OutLiteral => Quiet!OutLiteral
  BY DEF OutLiteral, Quiet!OutLiteral
<1>2. OutArg => Quiet!OutArg
  BY QuietReports DEF OutArg, Quiet!OutArg
<1>3. OutVal => Quiet!OutVal
  BY DEF OutVal, Quiet!OutVal
<1>4. EmitMarkup => Quiet!EmitMarkup
  BY QuietSchema, QuietReports DEF EmitMarkup, Quiet!EmitMarkup
<1> QED BY <1>1, <1>2, <1>3, <1>4

LEMMA QuietSelects ==
  ASSUME VMInv
  PROVE  /\ SelectArg => Quiet!SelectArg
         /\ SelectStringArg => Quiet!SelectStringArg
         /\ CheckSelector => Quiet!CheckSelector
         /\ SelectBegin => Quiet!SelectBegin
         /\ SelectLocal => Quiet!SelectLocal
         /\ SelectEnd => Quiet!SelectEnd
         /\ ProjectSelect => Quiet!ProjectSelect
<1> USE QuietExecutes, QuietReads, QuietRecords, QuietMoves DEF QuietRecord
<1>1. SelectArg => Quiet!SelectArg
  BY QuietReports, QuietValues DEF SelectArg, Quiet!SelectArg
<1>2. SelectStringArg => Quiet!SelectStringArg
  BY QuietReports, QuietValues DEF SelectStringArg, Quiet!SelectStringArg
<1>3. CheckSelector => Quiet!CheckSelector
  BY QuietReports DEF CheckSelector, Quiet!CheckSelector, Quiet!Check
<1>4. SelectBegin => Quiet!SelectBegin
  BY QuietReports DEF SelectBegin, Quiet!SelectBegin, Quiet!Check
<1>5. SelectLocal => Quiet!SelectLocal
  BY QuietValues DEF SelectLocal, Quiet!SelectLocal
<1>6. SelectEnd => Quiet!SelectEnd
  BY QuietValues DEF SelectEnd, Quiet!SelectEnd
<1>7. ProjectSelect => Quiet!ProjectSelect
  BY QuietReports, QuietValues DEF ProjectSelect, Quiet!ProjectSelect, Quiet!HostReports
<1> QED BY <1>1, <1>2, <1>3, <1>4, <1>5, <1>6, <1>7

LEMMA QuietCalls ==
  ASSUME VMInv
  PROVE  /\ SkipCall => Quiet!SkipCall
         /\ CallReturns => Quiet!CallReturns
         /\ CallWrites => Quiet!CallWrites
         /\ CallRecovers => Quiet!CallRecovers
         /\ CallFails => Quiet!CallFails
<1> USE QuietExecutes, QuietReads, QuietRecords, QuietMoves, QuietExpr, QuietReports
    DEF QuietRecord
<1>1. SkipCall => Quiet!SkipCall
  BY QuietSchema, QuietValues DEF SkipCall, Quiet!SkipCall
<1>2. CallReturns => Quiet!CallReturns
  BY QuietSchema DEF CallReturns, Quiet!CallReturns, Quiet!HostReports
<1>3. CallWrites => Quiet!CallWrites
  BY QuietSchema DEF CallWrites, Quiet!CallWrites, Quiet!HostReports
<1>4. CallRecovers => Quiet!CallRecovers
  BY QuietSchema, QuietValues
  DEF CallRecovers, Quiet!CallRecovers, Quiet!HostReports, Quiet!HostErrors
<1>5. CallFails => Quiet!CallFails
  BY QuietReturn DEF CallFails, Quiet!CallFails, Quiet!HostReports, HostErrors, Quiet!HostErrors
<1> QED BY <1>1, <1>2, <1>3, <1>4, <1>5

LEMMA QuietEnds ==
  ASSUME VMInv
  PROVE  /\ Begin => Quiet!Begin
         /\ Halt => Quiet!Halt
         /\ Fail => Quiet!Fail
<1> USE QuietReads
<1>1. Begin => Quiet!Begin
  BY SinkAssumption, QuietRecords DEF QuietRecord, Begin, Quiet!Begin, Quieted
<1>2. Halt => Quiet!Halt
  BY QuietReturn DEF Halt, Quiet!Halt
<1>3. Fail => Quiet!Fail
  BY QuietReturn DEF Fail, Quiet!Fail
<1> QED BY <1>1, <1>2, <1>3

\* Every step of the interpreter is a step, or no step, of the quiet one.
LEMMA QuietStep == VMInv /\ [Next]_vmVars => [Quiet!Next]_Quiet!vmVars
<1> SUFFICES ASSUME VMInv, [Next]_vmVars PROVE [Quiet!Next]_Quiet!vmVars
  OBVIOUS
<1>1. CASE Next
  BY <1>1, QuietEnds, QuietJumps, QuietLoads, QuietOutputs, QuietSelects, QuietCalls
  DEF Next, Instruct, Quiet!Next, Quiet!Instruct
<1>2. CASE UNCHANGED vmVars
  BY <1>2 DEF vmVars, exec, Quiet!vmVars, Quiet!exec, Quieted
<1> QED BY <1>1, <1>2

LEMMA QuietInit == Init => Quiet!Init
<1> SUFFICES ASSUME Init PROVE Quiet!Init
  OBVIOUS
<1>1. Quiet!CleanExpr = CleanExpr /\ AnyOf(<<>>) = <<>>
  BY DEF Quiet!CleanExpr, CleanExpr, Quiet!NoId, NoId, AnyOf
<1>2. Quiet!Fresh
  BY <1>1, QuietValues, SinkAssumption DEF Init, Fresh, Quiet!Fresh, CleanExpr
<1> QED BY <1>2 DEF Init, Quiet!Init

\* A diagnostics sink changes nothing but what it receives: for all code, arguments,
\* budgets and hosts, format_to with a sink implements format_to without one, whose
\* errors are kept as one bit (ExprStatePendingErrors).
THEOREM DiagnosticsObserve == Spec => DiagnosticsAreObservers
<1>1. Spec => Quiet!Spec
  BY QuietInit, QuietStep, VMInvariant, PTL DEF Spec, Quiet!Spec
<1> QED BY <1>1 DEF DiagnosticsAreObservers
=============================================================================
