------------------------------- MODULE Schema -------------------------------
(***************************************************************************)
(* The executable schema shared by compiler, loader and VM                 *)
(* (runtime/schema.rs): opcodes, instruction widths and control-flow kinds. *)
(*                                                                         *)
(* Code is a function from the byte offset at which an instruction starts  *)
(* to the decoded instruction.  Offsets are bytes, with the widths of the  *)
(* source, so that a jump into the middle of an instruction is a target    *)
(* outside the function's domain.  String, slot, function and literal      *)
(* operands are natural numbers in the field id.                           *)
(***************************************************************************)
EXTENDS Integers, Sequences

Calls   == {"CallFunc", "CallSelect"}
Markups == {"MarkupOpen", "MarkupClose", "MarkupStandalone"}

OneByte  == {"Halt", "ResolveString", "OutVal", "SelectBegin", "SelectEnd"}
FiveByte == {"Jmp", "JmpIfFalse", "PushConst", "LoadArg", "CheckSelector",
             "StoreLocal", "LoadLocal", "SelectLocal", "OutLit", "OutArg",
             "SelectArg", "SelectStringArg", "CaseDefault", "ExprFallback"} \cup Calls
NineByte == {"LoadOptionArg", "OutSlice", "OutExpr", "CaseStr"}

Opcode == OneByte \cup FiveByte \cup NineByte \cup Markups \cup {"ProjectSelect"}

\* Opcode::bytes
Width(op) ==
    CASE op \in OneByte       -> 1
      [] op = "ProjectSelect" -> 3
      [] op \in FiveByte      -> 5
      [] op \in Markups       -> 6
      [] op \in NineByte      -> 9

\* Decoded::flow_kind: one set of opcodes per FlowKind.
JumpOnly    == {"Jmp", "CaseDefault"}
Conditional == {"JmpIfFalse", "CaseStr"}
Jumps       == JumpOnly \cup Conditional
Stop        == {"Halt"}
Linear      == Opcode \ (Stop \cup Jumps)

\* argc and optc are single operand bytes.
Byte == 0..255

\* A decoded instruction.  A field an opcode has no operand for is zero.
Instruction ==
    [op : Opcode, id : Nat, fb : Nat, rel : Int, argc : Byte, optc : Byte]

\* Decoded.next_pc and Decoded::jump_target.
NextPc(code, pc)     == pc + Width(code[pc].op)
JumpTarget(code, pc) == NextPc(code, pc) + code[pc].rel
=============================================================================
