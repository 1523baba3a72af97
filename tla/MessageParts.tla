---------------------------- MODULE MessageParts ----------------------------
(***************************************************************************)
(* The parts of a message between the frontend and lowering                  *)
(* (compiler/semantic.rs), as lowering and the matching of variants use them: *)
(* texts, names, functions and slots are numbers.                           *)
(***************************************************************************)

\* An operand is also the value of a declaration.
Text(id)               == [part |-> "Text", id |-> id]
Literal(id)            == [part |-> "Literal", id |-> id]
Var(id)                == [part |-> "Var", id |-> id]
Local(slot)            == [part |-> "Local", id |-> slot]
CheckPart(slot)        == [part |-> "CheckSelector", id |-> slot]
Bind(slot, fb, value)  == [part |-> "Bind", id |-> slot, fallback |-> fb, value |-> value]
MarkupPart(op, id, options) == [part |-> op, id |-> id, options |-> options]

\* A call of function fn; the optionless :string is not a function call.
FnCall(fn, operand, options, fb) ==
    [part |-> "Call", id |-> fn, operand |-> operand, options |-> options, fallback |-> fb]
StringCall(operand, fb) == [part |-> "StringCall", operand |-> operand, fallback |-> fb]

\* Options whose value is known only at run time, and literal ones of markup.
VarOption(key, id, fb) == [key |-> key, from |-> "Var", id |-> id, fallback |-> fb]
LocalOption(key, slot) == [key |-> key, from |-> "Local", id |-> slot]
ConstOption(key, id)   == [key |-> key, from |-> "Const", id |-> id]

\* Selectors.
ArgSelector(id)         == [on |-> "Var", id |-> id]
StringArgSelector(id)   == [on |-> "StringVar", id |-> id]
LocalSelector(slot)     == [on |-> "Local", id |-> slot]
CheckedSelector(slot)   == [on |-> "CheckedLocal", id |-> slot]
ProjectedSelector(slot, fn) == [on |-> "Projected", id |-> slot, fn |-> fn]
LiteralSelector(id)     == [on |-> "Literal", id |-> id]
StringSelector(operand) == [on |-> "StringCall", operand |-> operand]
CallSelector(fn, operand, options) ==
    [on |-> "Call", id |-> fn, operand |-> operand, options |-> options]
Arm(key, parts) == [key |-> key, parts |-> parts]
SelectPart(selector, arms, default) ==
    [part |-> "Select", selector |-> selector, arms |-> arms, default |-> default]
=============================================================================
