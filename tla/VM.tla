--------------------------------- MODULE VM ---------------------------------
(***************************************************************************)
(* The bytecode interpreter (runtime/vm.rs, run_bytecode and the handlers   *)
(* it calls) as Formatter::format_to runs it (runtime/formatter.rs): one    *)
(* action per kind of instruction, over the operand stack, the message's    *)
(* local slots, the current selector and ExprState, the record of failures  *)
(* that the instructions of one expression leave for the one that ends it.  *)
(*                                                                         *)
(* Texts are natural numbers: below catalog.strings they are the texts of  *)
(* the string pool.  The value arena is not modelled: stack and locals hold *)
(* the values its indices stand for.  The host is any host: its answers are *)
(* chosen from HostValues or are errors.                                   *)
(***************************************************************************)
EXTENDS Schema, FiniteSets

CONSTANTS
    Catalogs,     \* the decoded catalogs that are executed
    Requests,     \* the calls of format_to
    HostValues,   \* the values a host function may return
    EmptyText     \* the text ""

\* Value.  "Missing" is the Value::Null that LoadArg pushes for an absent
\* argument, kept apart from other nulls so that properties can speak of it.
\* BadNumber is a number whose selection is invalid, Int an integer that is an id.
Kinds == {"Null", "Missing", "StrRef", "Str", "Int", "Number", "BadNumber", "String",
          "Formatted", "Select", "Fallback", "FunctionFallback"}
Value == [kind : Kinds, text : Nat]
Val(kind, text) == [kind |-> kind, text |-> text]
Null    == Val("Null", 0)
Missing == Val("Missing", 0)

IsNull(v)     == v.kind \in {"Null", "Missing"}
IsFallback(v) == v.kind \in {"Fallback", "FunctionFallback"}

\* A call of format_to: the message's entry, the arguments, whether the sink
\* wants structured output, whether a diagnostics sink is attached, and the
\* instruction budget (Unlimited for None).
Unlimited == -1
Request == [entry : Nat, structured : BOOLEAN, diagnostics : BOOLEAN, fuel : Nat \cup {Unlimited}]

Errors == {"MissingArg", "BadSelector", "BadOperand", "BadOption", "Function",
           "UnknownFunction", "Any"}

NoId == -1
ExprState == [fallback : Nat \cup {NoId}, pending : Seq(Errors), options : Seq(Errors)]
CleanExpr == [fallback |-> NoId, pending |-> <<>>, options |-> <<>>]

\* SelectorValue: what SelectArg, SelectStringArg (Borrowed, ExactText,
\* InvalidBorrowed), SelectBegin (Stored) and SelectLocal (Local) leave.
Selector == [kind : {"None", "Borrowed", "Invalid", "Stored", "Local"}, of : Value, slot : Nat]
NoSelector == [kind |-> "None", of |-> Null, slot |-> 0]

Chunk == [what : {"literal", "value", "fallback", "direct", "markup"}, text : Nat]

ASSUME VMAssumption ==
    /\ EmptyText \in Nat
    /\ HostValues \subseteq Value
    /\ \A r \in Requests :
         /\ r.entry \in Nat /\ r.structured \in BOOLEAN /\ r.diagnostics \in BOOLEAN
         /\ r.fuel \in Nat \cup {Unlimited}
         /\ \A key \in DOMAIN r.args : r.args[key] \in Value

\* What passes 1 and 2 of the loader leave to rely on: jumps land on
\* instructions, and an ExprFallback precedes an instruction that consumes it.
\* (That the ids of strings, literals and functions are valid, which pass 1 also
\* checks, is taken for granted: InvalidFallbackStringId and its like are left out.)
Consumers == Calls \cup {"ResolveString", "StoreLocal"}

Decoded(c) ==
    \A at \in DOMAIN c.code :
        /\ at \in Nat
        /\ c.code[at] \in Instruction
        /\ c.code[at].op \in Jumps => JumpTarget(c.code, at) \in DOMAIN c.code
        /\ c.code[at].op = "ExprFallback" =>
             /\ NextPc(c.code, at) \in DOMAIN c.code
             /\ c.code[NextPc(c.code, at)].op \in Consumers

ASSUME DecodedAssumption == \A c \in Catalogs : Decoded(c)

\* What lowering writes of an expression: an operand that is an argument is
\* followed by the options, a key and a value each, and by the instruction that
\* ends the expression, which takes them.  The options of markup are the
\* exception: their arguments are loaded like operands, and no code of them is
\* of this form.
OptionLoads == {"PushConst", "LoadLocal", "LoadOptionArg"}

LoadsBetween(c, at, end) ==
    {p \in DOMAIN c.code : at < p /\ p < end /\ c.code[p].op \in OptionLoads}

EndsExpression(c, at, end) ==
    /\ at < end
    /\ c.code[end].op \in Consumers
    /\ \A p \in DOMAIN c.code :
         at < p /\ p < end => c.code[p].op \in OptionLoads \cup {"ExprFallback"}
    /\ c.code[end].op \in Calls =>
         /\ c.code[end].argc = 1
         /\ 2 * c.code[end].optc = Cardinality(LoadsBetween(c, at, end))

LaidOut(c) == \A p, q \in DOMAIN c.code : p < q => NextPc(c.code, p) <= q

OperandsTogether(c) ==
    /\ LaidOut(c)
    /\ \A at \in DOMAIN c.code :
         c.code[at].op = "LoadArg" => \E end \in DOMAIN c.code : EndsExpression(c, at, end)

\* What lowering writes of a match on one selector: up to the selection there are
\* no jumps, and after it they go forward.  The value of a call is selected on at
\* once.  A local that is checked is selected on, as it is or projected, and is
\* not declared again.
SelectionOps == {"SelectArg", "SelectStringArg", "SelectLocal", "SelectBegin"}
SelectionsOf(c) == {p \in DOMAIN c.code : c.code[p].op \in SelectionOps}
OnlySelection(c, at) == SelectionsOf(c) = {at}

Projects(c, load, at) ==
    /\ c.code[load].op = "LoadLocal"
    /\ NextPc(c.code, load) \in DOMAIN c.code
    /\ c.code[NextPc(c.code, load)].op = "ProjectSelect"
    /\ NextPc(c.code, NextPc(c.code, load)) = at

SelectsSlot(c, id, at) ==
    \/ c.code[at].op = "SelectLocal" /\ c.code[at].id = id
    \/ \E load \in DOMAIN c.code : Projects(c, load, at) /\ c.code[load].id = id

SelectsAt(c, at) ==
    /\ \A p \in DOMAIN c.code :
         /\ c.code[p].op \in Jumps => at < p /\ p < JumpTarget(c.code, p)
         /\ c.code[p].op \in {"ProjectSelect", "CallSelect"} =>
              NextPc(c.code, p) = at /\ c.code[at].op = "SelectBegin"
         /\ c.code[p].op = "CheckSelector" => p < at /\ SelectsSlot(c, c.code[p].id, at)
    /\ \A p, q \in DOMAIN c.code :
         c.code[p].op = "CheckSelector" /\ c.code[q].op = "StoreLocal" /\ p < q =>
           c.code[q].id # c.code[p].id

SelectionsTogether(c) ==
    LaidOut(c) /\ \A at \in DOMAIN c.code : OnlySelection(c, at) => SelectsAt(c, at)

\* The number of values an instruction works on.  Mutant of Takes: OutVal pops one
\* although the call before it pushed none.
Uses(i) ==
    CASE i.op \in {"JmpIfFalse", "StoreLocal", "ResolveString", "OutVal", "SelectBegin",
                   "ProjectSelect"} -> 1
      [] i.op \in Calls   -> i.argc + 2 * i.optc
      [] i.op \in Markups -> 2 * i.optc
      [] OTHER -> 0

\* What lowering counts on at an instruction it means to be reached: the values on the
\* stack, and which of them are constants, the slots in use, whether a selection is
\* open and whether a fallback is set.
Frame == [reached : BOOLEAN, stack : Seq({"constant", "value"}), slots : Nat,
          selects : BOOLEAN, falls : BOOLEAN]
Bare  == [reached |-> TRUE, stack |-> <<>>, slots |-> 0, selects |-> FALSE, falls |-> FALSE]
Nowhere == [Bare EXCEPT !.reached = FALSE]

Loads == {"PushConst", "LoadArg", "LoadOptionArg", "LoadLocal"}
Makes == {"ResolveString", "ProjectSelect"} \cup Calls

\* The frame an instruction leaves.
FrameAfter(i, f) ==
    [reached |-> f.reached,
     stack |-> SubSeq(f.stack, 1, Len(f.stack) - Uses(i))
                 \o (IF i.op = "PushConst" THEN <<"constant">>
                     ELSE IF i.op \in Loads \cup Makes THEN <<"value">> ELSE <<>>),
     slots |-> IF i.op = "StoreLocal" /\ i.id = f.slots THEN f.slots + 1 ELSE f.slots,
     selects |-> i.op \in SelectionOps \/ (f.selects /\ i.op # "SelectEnd"),
     falls |-> i.op = "ExprFallback" \/ (f.falls /\ i.op \notin Consumers)]

\* The frame suffices: the options of a call or of markup have constants for keys,
\* a slot is in use before it is read, cases follow a selector, and a function has
\* something to fall back to.
Suffices(i, f) ==
    /\ Uses(i) <= Len(f.stack)
    /\ i.op \in Calls \cup Markups =>
         \A k \in 1..i.optc : f.stack[Len(f.stack) - 2 * k + 1] = "constant"
    /\ i.op \in {"LoadLocal", "CheckSelector", "SelectLocal"} => i.id < f.slots
    /\ i.op = "StoreLocal" => i.id <= f.slots
    /\ i.op = "CaseStr" => f.selects
    /\ i.op = "CallFunc" => f.falls

LeadsTo(c, at) ==
    (IF c.code[at].op \in Jumps THEN {JumpTarget(c.code, at)} ELSE {})
      \cup (IF c.code[at].op \in JumpOnly \cup Stop THEN {} ELSE {NextPc(c.code, at)})

\* Where paths meet, what all of them leave.
Meet(frames) ==
    [reached |-> TRUE,
     stack   |-> (CHOOSE f \in frames : TRUE).stack,
     slots   |-> CHOOSE n \in {f.slots : f \in frames} : \A f \in frames : n <= f.slots,
     selects |-> \A f \in frames : f.selects,
     falls   |-> \A f \in frames : f.falls]

\* The frames of all instructions, each found from those before it.
Frames(c) ==
    LET frame[at \in DOMAIN c.code] ==
          LET before == {p \in DOMAIN c.code : p < at /\ at \in LeadsTo(c, p)}
              left   == {f \in {FrameAfter(c.code[p], frame[p]) : p \in before} : f.reached}
              starts == \E m \in 1..Len(c.entries) : c.entries[m] = at
          IN IF starts THEN Meet(left \cup {Bare})
             ELSE IF left = {} THEN Nowhere ELSE Meet(left)
    IN frame

\* f counts on no more than g gives.
CountsOnLess(f, g) ==
    /\ f.reached
    /\ f.stack = g.stack /\ f.slots <= g.slots
    /\ f.selects => g.selects
    /\ f.falls => g.falls

\* Messages start from nothing, the frame of every instruction suffices for it, and
\* wherever it leads the code counts on no more than it leaves.
WellFramed(c) ==
    LET frame == Frames(c) IN
    /\ \A m \in 1..Len(c.entries) :
         c.entries[m] \in DOMAIN c.code /\ CountsOnLess(frame[c.entries[m]], Bare)
    /\ \A at \in DOMAIN c.code :
         /\ frame[at] \in Frame
         /\ frame[at].reached =>
              /\ Suffices(c.code[at], frame[at])
              /\ \A to \in LeadsTo(c, at) :
                   /\ to \in DOMAIN c.code
                   /\ CountsOnLess(frame[to], FrameAfter(c.code[at], frame[at]))

VARIABLES
    catalog,    \* the catalog of the formatter
    status,     \* "idle" or "running"
    call,       \* the request being served, or the last one
    result,     \* what format_to returned, "None" before the first return
    pc, stack, locals, selector, expr, fuel,
    direct,     \* direct_call_output
    out,        \* the events the sink received
    diags,      \* the diagnostics recorded
    matched     \* history: the cases taken, as <<pc of the case, selected value>>

\* What format_to has returned: "Ok", a host's error or a trap.
Outcomes == {"None", "Ok", "FuelExhausted", "Decode", "StackUnderflow", "InvalidLocalSlot",
             "CaseStringWithoutSelector", "MarkupOptionKeyWrongType", "CallOptionKeyUnknown",
             "CallOptionKeyWrongType", "UnknownFunction", "Function"}

exec == <<pc, stack, locals, selector, expr, fuel, direct>>
vmVars == <<catalog, status, call, result, exec, out, diags, matched>>

\* An idle formatter holds nothing over from its last call.
Quiescent ==
    status = "idle" =>
        /\ stack = <<>> /\ locals = <<>>
        /\ selector = NoSelector /\ expr = CleanExpr /\ direct = FALSE

\* The state of a Formatter is of its types, and clear between two calls
\* (clear_execution), whatever ended the last one.
TypeOK ==
    /\ status \in {"idle", "running"}
    /\ result \in Outcomes
    /\ pc \in Nat
    /\ stack \in Seq(Value)
    /\ locals \in Seq(Value)
    /\ selector \in Selector
    /\ expr \in ExprState
    /\ fuel \in Nat \cup {Unlimited}
    /\ direct \in BOOLEAN
    /\ out \in Seq(Chunk)
    /\ diags \in Seq(Errors)
    /\ Quiescent

\* A formatter that has not been called.
Fresh ==
    /\ status = "idle" /\ result = "None"
    /\ call \in Requests
    /\ pc = 0 /\ stack = <<>> /\ locals = <<>>
    /\ selector = NoSelector /\ expr = CleanExpr
    /\ fuel = Unlimited /\ direct = FALSE
    /\ out = <<>> /\ diags = <<>> /\ matched = {}

Init == catalog \in Catalogs /\ Fresh

-----------------------------------------------------------------------------
(* Entry and exit of format_to. *)

\* The formatter is idle, its buffers are clear, and the caller asks for a
\* message of the catalog.
Begin ==
    /\ status = "idle"
    /\ \E request \in Requests :
         /\ \E m \in 1..Len(catalog.entries) : catalog.entries[m] = request.entry
         /\ call' = request
         /\ pc' = request.entry
         /\ fuel' = request.fuel
    /\ status' = "running" /\ result' = "None"
    /\ out' = <<>> /\ diags' = <<>> /\ matched' = {}
    /\ UNCHANGED <<catalog, stack, locals, selector, expr, direct>>

\* clear_execution, and the locals of run_bytecode going out of scope.
Return(outcome) ==
    /\ status' = "idle" /\ result' = outcome
    /\ stack' = <<>> /\ locals' = <<>>
    /\ selector' = NoSelector /\ expr' = CleanExpr /\ direct' = FALSE
    /\ UNCHANGED <<catalog, call, pc, fuel>>

-----------------------------------------------------------------------------
(* Helpers. *)

Running == status = "running" /\ fuel # 0 /\ pc \in DOMAIN catalog.code
I       == catalog.code[pc]
Next1   == NextPc(catalog.code, pc)

\* record_diagnostic
Report(errors) == diags' = IF call.diagnostics THEN diags \o errors ELSE diags
Silent         == UNCHANGED diags

\* Mutant: without a diagnostics sink nothing is noted.
NotedForSink(list, error) == IF call.diagnostics THEN Append(list, error) ELSE list

\* ExprStatePendingErrors: every error with a diagnostics sink, else whether
\* there was one.
Noted(list, error) == IF call.diagnostics THEN Append(list, error) ELSE <<"Any">>

Depth  == Len(stack)
Top    == stack[Depth]
Rest(n) == SubSeq(stack, 1, Depth - n)

Arg(id)     == call.args[id]
HasArg(id)  == id \in DOMAIN call.args

\* resolve_call_option_key, resolve_markup_option_key: the trap for a key.
KeyFault(i, key) ==
    IF key.kind \in {"StrRef", "Int"}       THEN "None"
    ELSE IF i.op \in Markups                THEN "MarkupOptionKeyWrongType"
    ELSE IF key.kind # "Str"                THEN "CallOptionKeyWrongType"
    ELSE IF key.text >= catalog.strings     THEN "CallOptionKeyUnknown"
    ELSE "None"

\* decode_option_pairs, decode_call_option_pairs: the last pair first, its value
\* above its key.
PairKey(k) == stack[Depth - 2 * k + 1]
PairFault(i, k) == IF Depth < 2 * k THEN "StackUnderflow" ELSE KeyFault(i, PairKey(k))
FaultyPairs(i)  == {k \in 1..i.optc : PairFault(i, k) # "None"}
FirstPair(ks)   == CHOOSE k \in ks : \A other \in ks : k <= other

OptionValues(i) == {stack[Depth - 2 * k + 2] : k \in 1..i.optc}

\* The number of values an instruction pops: none for an OutVal whose output the
\* call before it has written.
Takes(i) == IF i.op = "OutVal" /\ direct THEN 0 ELSE Uses(i)

\* call_to is used for a CallFunc whose result is output at once.  The peek at
\* the next instruction is the first thing a call does, and may fail to decode.
PeeksNext(i) == i.op = "CallFunc" /\ ~call.structured
\* Mutant: the next instruction is not looked at.
WritesAlways   == PeeksNext(I)
WritesDirectly == PeeksNext(I) /\ catalog.code[Next1].op = "OutVal"

\* The error an instruction returns before it has any effect that outlives
\* the execution, or "None".
ExecFault(i) ==
    IF PeeksNext(i) /\ Next1 \notin DOMAIN catalog.code THEN "Decode"
    ELSE IF i.op \in Calls \cup Markups /\ FaultyPairs(i) # {}
      THEN PairFault(i, FirstPair(FaultyPairs(i)))
    ELSE IF Depth < Takes(i) THEN "StackUnderflow"
    ELSE IF i.op \in {"LoadLocal", "CheckSelector", "SelectLocal"} /\ i.id >= Len(locals)
      THEN "InvalidLocalSlot"
    ELSE IF i.op = "CaseStr" /\ selector.kind = "None" THEN "CaseStringWithoutSelector"
    ELSE "None"

\* An instruction that proceeds: one unit of fuel is used.
Executes(ops) ==
    /\ Running
    /\ I.op \in ops
    /\ ExecFault(I) = "None"
    /\ fuel' = IF fuel = Unlimited THEN fuel ELSE fuel - 1
    /\ UNCHANGED <<catalog, status, call, result>>

GoTo(target) == pc' = target
Advance      == GoTo(Next1)

-----------------------------------------------------------------------------
(* The end of an execution. *)

Halt ==
    /\ Running /\ I.op = "Halt"
    /\ Return("Ok")
    /\ UNCHANGED <<out, diags, matched>>

\* The fuel check precedes decoding.
Fail ==
    /\ status = "running"
    /\ \/ fuel = 0 /\ Return("FuelExhausted")
       \/ fuel # 0 /\ pc \notin DOMAIN catalog.code /\ Return("Decode")
       \/ Running /\ ExecFault(I) # "None" /\ Return(ExecFault(I))
    /\ UNCHANGED <<out, diags, matched>>

-----------------------------------------------------------------------------
(* Jumps, values and local slots. *)

TakeJump ==
    /\ Executes({"Jmp", "CaseDefault"})
    /\ GoTo(JumpTarget(catalog.code, pc))
    /\ UNCHANGED <<stack, locals, selector, expr, direct, out, diags, matched>>

\* is_falsey, for texts; whether a number is zero is not modelled.
IsTextual(v) == v.kind \in {"StrRef", "Str", "String", "Fallback", "FunctionFallback"}
Falsey(v)    == {b \in BOOLEAN : /\ IsNull(v) => b
                                 /\ IsTextual(v) => b = (v.text = EmptyText)}

JmpIfFalse ==
    /\ Executes({"JmpIfFalse"})
    /\ stack' = Rest(1)
    /\ \E falsey \in Falsey(Top) :
         GoTo(IF falsey THEN JumpTarget(catalog.code, pc) ELSE Next1)
    /\ UNCHANGED <<locals, selector, expr, direct, out, diags, matched>>

Push(v) == stack' = Append(stack, v)

PushConst ==
    /\ Executes({"PushConst"})
    /\ Push(Val("StrRef", I.id))
    /\ Advance
    /\ UNCHANGED <<locals, selector, expr, direct, out, diags, matched>>

LoadArg ==
    /\ Executes({"LoadArg"})
    /\ IF HasArg(I.id)
         THEN Push(Arg(I.id)) /\ UNCHANGED expr
         ELSE Push(Missing) /\ expr' = [expr EXCEPT !.pending = Noted(@, "MissingArg")]
    /\ Advance
    /\ UNCHANGED <<locals, selector, direct, out, diags, matched>>

\* Mutant: the error of an option is recorded as the operand's.
LoadOptionArgAsOperand ==
    /\ Executes({"LoadOptionArg"})
    /\ IF HasArg(I.id)
         THEN Push(Arg(I.id)) /\ UNCHANGED expr
         ELSE /\ Push(Val("Fallback", I.fb))
              /\ expr' = [expr EXCEPT !.pending = Noted(@, "MissingArg")]
    /\ Advance
    /\ UNCHANGED <<locals, selector, direct, out, diags, matched>>

LoadOptionArg ==
    /\ Executes({"LoadOptionArg"})
    /\ IF HasArg(I.id)
         THEN Push(Arg(I.id)) /\ UNCHANGED expr
         ELSE /\ Push(Val("Fallback", I.fb))
              /\ expr' = [expr EXCEPT !.options = Noted(@, "MissingArg")]
    /\ Advance
    /\ UNCHANGED <<locals, selector, direct, out, diags, matched>>

\* The errors take_pending_errors hands over: none without a diagnostics sink.
Pending == IF call.diagnostics THEN expr.pending ELSE <<>>
HasFallback == expr.fallback # NoId

\* finish_declaration
Declared(v) ==
    IF HasFallback /\ (IsFallback(v) \/ expr.pending # <<>>)
      THEN Val(IF v.kind = "FunctionFallback" THEN v.kind ELSE "Fallback", expr.fallback)
      ELSE v

\* Mutant: the fallback of a declaration that did not fail is not cleared.
StoreLocalKeepsFallback ==
    /\ Executes({"StoreLocal"})
    /\ I.id <= Len(locals)
    /\ stack' = Rest(1)
    /\ locals' = IF I.id = Len(locals) THEN Append(locals, Declared(Top))
                 ELSE [locals EXCEPT ![I.id + 1] = Declared(Top)]
    /\ Report(Pending)
    /\ expr' = [expr EXCEPT !.pending = <<>>]
    /\ Advance
    /\ UNCHANGED <<selector, direct, out, matched>>

StoreLocal ==
    /\ Executes({"StoreLocal"})
    /\ I.id <= Len(locals)
    /\ stack' = Rest(1)
    /\ locals' = IF I.id = Len(locals) THEN Append(locals, Declared(Top))
                 ELSE [locals EXCEPT ![I.id + 1] = Declared(Top)]
    /\ Report(Pending)
    /\ expr' = [expr EXCEPT !.pending = <<>>, !.fallback = NoId]
    /\ Advance
    /\ UNCHANGED <<selector, direct, out, matched>>

\* The slot is looked at after the declaration is finished.
StoreNowhere ==
    /\ Running /\ I.op = "StoreLocal" /\ ExecFault(I) = "None"
    /\ I.id > Len(locals)
    /\ Report(Pending)
    /\ Return("InvalidLocalSlot")
    /\ UNCHANGED <<out, matched>>

LoadLocal ==
    /\ Executes({"LoadLocal"})
    /\ Push(locals[I.id + 1])
    /\ Advance
    /\ UNCHANGED <<locals, selector, expr, direct, out, diags, matched>>

\* Mutant: a fallback that was not set is used.
FallbackUnchecked == Val("Fallback", expr.fallback)

\* take_fallback
FallbackValue == IF HasFallback THEN Val("Fallback", expr.fallback) ELSE Null

\* resolve_optionless_string
ResolveString ==
    /\ Executes({"ResolveString"})
    /\ IF expr.pending # <<>> \/ IsFallback(Top)
         THEN /\ stack' = Append(Rest(1), FallbackValue)
              /\ Report(Pending \o IF Top.kind = "FunctionFallback" THEN <<"BadOperand">> ELSE <<>>)
         ELSE /\ stack' = Append(Rest(1), Val("String", IF IsNull(Top) THEN EmptyText ELSE Top.text))
              /\ Silent
    /\ expr' = [expr EXCEPT !.pending = <<>>, !.fallback = NoId]
    /\ Advance
    /\ UNCHANGED <<locals, selector, direct, out, matched>>

ExprFallback ==
    /\ Executes({"ExprFallback"})
    /\ expr' = [expr EXCEPT !.fallback = I.id]
    /\ Advance
    /\ UNCHANGED <<stack, locals, selector, direct, out, diags, matched>>

-----------------------------------------------------------------------------
(* Output. *)

Emit(what, text) == out' = Append(out, [what |-> what, text |-> text])
Output(v)     == Emit(IF IsFallback(v) THEN "fallback" ELSE "value", v.text)

OutLiteral ==
    /\ Executes({"OutLit", "OutSlice", "OutExpr"})
    /\ Emit("literal", I.id)
    /\ Advance
    /\ UNCHANGED <<stack, locals, selector, expr, direct, diags, matched>>

OutArg ==
    /\ Executes({"OutArg"})
    /\ IF HasArg(I.id) THEN Output(Arg(I.id)) /\ Silent
       ELSE Emit("fallback", I.id) /\ Report(<<"MissingArg">>)
    /\ Advance
    /\ UNCHANGED <<stack, locals, selector, expr, direct, matched>>

\* The call before it may have written its output already.
OutVal ==
    /\ Executes({"OutVal"})
    /\ IF direct
         THEN direct' = FALSE /\ UNCHANGED <<stack, out>>
         ELSE stack' = Rest(1) /\ Output(Top) /\ UNCHANGED direct
    /\ Advance
    /\ UNCHANGED <<locals, selector, expr, diags, matched>>

\* An option named u:dir is reported and left out.
EmitMarkup ==
    /\ Executes(Markups)
    /\ stack' = Rest(2 * I.optc)
    /\ Emit("markup", I.id)
    /\ \E errors \in {<<>>} \cup (IF I.optc > 0 THEN {<<"BadOption">>} ELSE {}) : Report(errors)
    /\ Advance
    /\ UNCHANGED <<locals, selector, expr, direct, matched>>

-----------------------------------------------------------------------------
(* Selection. *)

Select(kind, v, slot) == selector' = [kind |-> kind, of |-> v, slot |-> slot]

\* load_selector_value
SelectArg ==
    /\ Executes({"SelectArg"})
    /\ IF HasArg(I.id) THEN Select("Borrowed", Arg(I.id), 0) /\ Silent
       ELSE Select("Invalid", Null, 0) /\ Report(<<"MissingArg", "BadSelector">>)
    /\ Advance
    /\ UNCHANGED <<stack, locals, expr, direct, out, matched>>

\* load_string_selector_value
SelectStringArg ==
    /\ Executes({"SelectStringArg"})
    /\ IF ~HasArg(I.id) THEN Select("Invalid", Null, 0) /\ Report(<<"MissingArg">>)
       ELSE /\ Select("Borrowed", IF IsNull(Arg(I.id)) THEN Val("String", EmptyText)
                                  ELSE Arg(I.id), 0)
            /\ Silent
    /\ Advance
    /\ UNCHANGED <<stack, locals, expr, direct, out, matched>>

\* check_selector_value
Unselectable(v) == v.kind = "BadNumber" \/ IsFallback(v)
Check(v) == Report(IF Unselectable(v) THEN <<"BadSelector">> ELSE <<>>)

CheckSelector ==
    /\ Executes({"CheckSelector"})
    /\ Check(locals[I.id + 1])
    /\ Advance
    /\ UNCHANGED <<stack, locals, selector, expr, direct, out, matched>>

SelectBegin ==
    /\ Executes({"SelectBegin"})
    /\ stack' = Rest(1)
    /\ Check(Top)
    /\ Select("Stored", Top, 0)
    /\ Advance
    /\ UNCHANGED <<locals, expr, direct, out, matched>>

SelectLocal ==
    /\ Executes({"SelectLocal"})
    /\ Select("Local", Null, I.id)
    /\ Advance
    /\ UNCHANGED <<stack, locals, expr, direct, out, diags, matched>>

\* A local selector is read anew for each case.
Selected == IF selector.kind = "Local" THEN locals[selector.slot + 1] ELSE selector.of

\* Mutant: a number is compared by its text wherever it comes from.
MatchesByText ==
    /\ selector.kind # "Invalid"
    /\ ~IsNull(Selected) /\ ~IsFallback(Selected)
    /\ Selected.text = I.id

\* SelectorValue::case_match.  An unselectable number and a formatted value
\* match their own text only as a borrowed argument.
Matches ==
    /\ selector.kind # "Invalid"
    /\ ~IsNull(Selected) /\ ~IsFallback(Selected)
    /\ Selected.kind \in {"BadNumber", "Formatted"} => selector.kind = "Borrowed"
    /\ Selected.text = I.id

\* Mutant: a case that does not match is tried again.
CaseStrStays ==
    /\ Executes({"CaseStr"})
    /\ IF Matches
         THEN GoTo(JumpTarget(catalog.code, pc)) /\ matched' = matched \cup {<<pc, Selected>>}
         ELSE GoTo(pc) /\ UNCHANGED matched
    /\ UNCHANGED <<stack, locals, selector, expr, direct, out, diags>>

CaseStr ==
    /\ Executes({"CaseStr"})
    /\ IF Matches
         THEN GoTo(JumpTarget(catalog.code, pc)) /\ matched' = matched \cup {<<pc, Selected>>}
         ELSE Advance /\ UNCHANGED matched
    /\ UNCHANGED <<stack, locals, selector, expr, direct, out, diags>>

SelectEnd ==
    /\ Executes({"SelectEnd"})
    /\ selector' = NoSelector
    /\ Advance
    /\ UNCHANGED <<stack, locals, expr, direct, out, diags, matched>>

\* What the host may report through on_error.
HostReports == {<<>>, <<"Function">>}

\* handle_project_select
ProjectSelect ==
    /\ Executes({"ProjectSelect"})
    /\ \E v \in HostValues \cup {Null} :
         /\ Unselectable(Top) => v = Null
         /\ stack' = Append(Rest(1), v)
         /\ \E host \in HostReports :
              Report(IF Unselectable(Top) THEN <<>>
                     ELSE IF IsNull(v) THEN host \o <<"BadSelector">> ELSE host)
    /\ Advance
    /\ UNCHANGED <<locals, selector, expr, direct, out, matched>>

-----------------------------------------------------------------------------
(* Function calls. *)

Operands(i) == SubSeq(stack, Depth - 2 * i.optc - i.argc + 1, Depth - 2 * i.optc)

OperandFailed == \/ expr.pending # <<>>
                 \/ I.argc > 0 /\ Head(Operands(I)).kind = "Fallback"

IsSelect == I.op = "CallSelect"
PopCall(v) == stack' = Append(Rest(Takes(I)), v)

\* handle_call_instruction when the operand failed: the function is not called.
\* The host may say that it is unknown, or what the operand's failure means.
SkipCall ==
    /\ Executes(Calls)
    /\ OperandFailed
    /\ PopCall(IF IsSelect THEN Null ELSE FallbackValue)
    /\ \E host \in {<<>>, <<"UnknownFunction">>, <<"Function">>} :
         Report(Pending \o host \o
                IF IsSelect /\ expr.pending # <<>> THEN <<"BadSelector">> ELSE <<>>)
    /\ direct' = FALSE
    /\ expr' = CleanExpr
    /\ Advance
    /\ UNCHANGED <<locals, selector, out, matched>>

Options == IF call.diagnostics THEN expr.options ELSE <<>>

\* What handle_resolved_call reports before it calls the host.
BadOptions ==
    LET bad == {k \in 1..I.optc : IsFallback(stack[Depth - 2 * k + 2])}
    IN Options \o [n \in 1..Cardinality(bad) |-> "BadOption"]

CallReturns ==
    /\ Executes(Calls)
    /\ ~OperandFailed
    /\ \E v \in HostValues, host \in HostReports :
         /\ PopCall(v)
         /\ Report(BadOptions \o host \o
                   IF IsSelect /\ IsNull(v) THEN <<"BadSelector">> ELSE <<>>)
    /\ direct' = FALSE
    /\ expr' = CleanExpr
    /\ Advance
    /\ UNCHANGED <<locals, selector, out, matched>>

\* call_to wrote the output: no value is pushed, the next OutVal is skipped.
CallWrites ==
    /\ Executes(Calls)
    /\ ~OperandFailed
    /\ WritesDirectly
    /\ stack' = Rest(Takes(I))
    /\ Emit("direct", I.id)
    /\ \E host \in HostReports : Report(BadOptions \o host)
    /\ direct' = TRUE
    /\ expr' = CleanExpr
    /\ Advance
    /\ UNCHANGED <<locals, selector, matched>>

HostErrors == {"UnknownFunction", "Function"}

\* The host returned an error that the call recovers from.
CallRecovers ==
    /\ Executes(Calls)
    /\ ~OperandFailed
    /\ IsSelect \/ HasFallback
    /\ PopCall(IF IsSelect THEN Null ELSE Val("FunctionFallback", expr.fallback))
    /\ \E error \in HostErrors, host \in HostReports :
         Report(BadOptions \o host \o <<IF IsSelect THEN "BadSelector" ELSE error>>)
    /\ direct' = FALSE
    /\ expr' = CleanExpr
    /\ Advance
    /\ UNCHANGED <<locals, selector, out, matched>>

\* A CallFunc without an ExprFallback fails the whole message.
CallFails ==
    /\ Running /\ I.op = "CallFunc" /\ ExecFault(I) = "None"
    /\ ~OperandFailed /\ ~HasFallback
    /\ \E host \in HostReports : Report(BadOptions \o host)
    /\ \E error \in HostErrors : Return(error)
    /\ UNCHANGED <<out, matched>>

-----------------------------------------------------------------------------
Instruct ==
    \/ Halt \/ TakeJump \/ JmpIfFalse \/ PushConst \/ LoadArg \/ LoadOptionArg \/ StoreLocal
    \/ StoreNowhere \/ LoadLocal \/ ResolveString \/ ExprFallback
    \/ OutLiteral \/ OutArg \/ OutVal \/ EmitMarkup
    \/ SelectArg \/ SelectStringArg \/ CheckSelector \/ SelectBegin \/ SelectLocal
    \/ CaseStr \/ SelectEnd \/ ProjectSelect
    \/ SkipCall \/ CallReturns \/ CallWrites \/ CallRecovers \/ CallFails

Next == Begin \/ Fail \/ Instruct

\* format_to runs until it returns; a caller need not call it.
Spec     == Init /\ [][Next]_vmVars
FairSpec == Spec /\ WF_vmVars(Fail \/ Instruct)

-----------------------------------------------------------------------------
(* Properties. *)

\* docs/runtime-vm-semantics.md: "Failure state is attached to the value rather
\* than to the following instruction."  A call that handle_call_instruction
\* skips has an operand that failed: no error of another expression skips it.
SkipsOnlyItsOwnOperand ==
    Running /\ I.op \in Calls /\ ExecFault(I) = "None" /\ OperandFailed =>
        \E n \in 1..I.argc : Operands(I)[n].kind \in {"Missing", "Fallback"}

\* ExprFallback sets the text that one instruction may fall back to, and
\* whatever becomes of that instruction the text does not outlive it.
FallbackOnlyAtConsumer ==
    status = "running" /\ HasFallback => I.op \in Consumers

\* Output written by call_to stands for exactly the OutVal that follows: the flag
\* never reaches another instruction, where it would suppress other output.
DirectOutputIsConsumed ==
    direct => I.op = "OutVal" /\ ~call.structured

\* A selection that reported BadSelector takes its default arm, whichever way
\* the selector came and whatever its text.  (For messages of one selection.)
BadSelectorTakesDefault ==
    matched # {} /\ (\E at \in SelectionsOf(catalog) : OnlySelection(catalog, at)) =>
        \A n \in 1..Len(diags) : diags[n] # "BadSelector"

\* A compiled message always yields its output: neither the code nor a host that
\* fails stops it, only fuel does.
CompiledAlwaysFormats == result \in {"None", "Ok", "FuelExhausted"}

\* format_to returns, with unlimited fuel too.
FormatReturns == status = "running" ~> status = "idle"
=============================================================================
