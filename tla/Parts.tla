------------------------------- MODULE Parts --------------------------------
(***************************************************************************)
(* Messages as the compiler holds them between its frontend and lowering    *)
(* (compiler/semantic.rs).  A text is a sequence of numbers, its bytes, and  *)
(* None stands where the code has an Option's None.  Origins keep the source *)
(* and leave out the place within it.                                        *)
(***************************************************************************)
EXTENDS Integers, Sequences, FiniteSets, SequencesExt

CONSTANTS
    None,
    KeyTexts,      \* by kind of key, the texts of it: identifiers, numbers, ...
    LiteralDomain, \* from <<function, key>> to the texts a literal there may be
    Known          \* the function names and option texts the compiler knows

\* Operand
VarOperand(name)           == [kind |-> "var", name |-> name]
LocalOperand(slot)         == [kind |-> "local", slot |-> slot]
StringOperand(text)        == [kind |-> "string", text |-> text]
NumberOperand(text)        == [kind |-> "number", text |-> text]
CallOperand(call)          == [kind |-> "call", call |-> call]

\* FunctionOption
LiteralOption(key, text)        == [key |-> key, how |-> "literal", text |-> text]
VarOption(key, name)            == [key |-> key, how |-> "var", name |-> name]
ResolvedOption(key, name, text) ==
    [key |-> key, how |-> "resolved", name |-> name, text |-> text]
LocalOption(key, name, slot)    ==
    [key |-> key, how |-> "local", name |-> name, slot |-> slot]

\* FunctionSpec: its origin is a source or None.
FunctionSpec(name, options, origin) ==
    [name |-> name, options |-> options, origin |-> origin]

\* CallExpr: its fallback is a text or None.
Call(operand, func, fallback) ==
    [kind |-> "call", operand |-> operand, func |-> func, fallback |-> fallback]

\* SelectorExpr
VarSelector(name)           == [kind |-> "var", name |-> name]
LiteralSelector(text)       == [kind |-> "literal", text |-> text]
CallSelector(operand, func) == [kind |-> "call", operand |-> operand, func |-> func]
LocalSelector(slot, func)   == [kind |-> "local", slot |-> slot, func |-> func]
CheckedSelector(slot, func) == [kind |-> "checked", slot |-> slot, func |-> func]

\* Part
TextPart(text)          == [kind |-> "text", text |-> text]
LiteralPart(text)       == [kind |-> "literal", text |-> text]
VarPart(name)           == [kind |-> "var", name |-> name]
LocalPart(slot)         == [kind |-> "local", slot |-> slot]
CheckPart(slot)         == [kind |-> "check", slot |-> slot]
BindPart(slot, fallback, value) ==
    [kind |-> "bind", slot |-> slot, fallback |-> fallback, value |-> value]
SelectArm(key, parts)   == [key |-> key, parts |-> parts]
SelectPart(selector, arms, default) ==
    [kind |-> "select", selector |-> selector, arms |-> arms, default |-> default]
MarkupPart(name, options) == [kind |-> "markup", name |-> name, options |-> options]

\* Message: its origin is a source or None.
Message(id, parts, origin) == [id |-> id, parts |-> parts, origin |-> origin]

-----------------------------------------------------------------------------
(* Sequences made of others. *)

Mapped(F(_), seq) == <<>> \o [n \in DOMAIN seq |-> F(seq[n])]
Numbered(F(_), count) == <<>> \o [n \in 1 .. count |-> F(n)]
Joined(F(_), seq) == FlattenSeq(Mapped(F, seq))
=============================================================================
