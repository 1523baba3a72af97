---------------------------- MODULE CatalogBuild ----------------------------
(***************************************************************************)
(* A build of one catalog (compile/mod.rs CatalogBuilder, compile_inputs and *)
(* compile_resources, with or without a manifest).  Sources are registered   *)
(* and messages added one call after the other; a build that collects keeps   *)
(* the errors of those calls and goes on, a builder returns them to its       *)
(* caller, who may go on; in the end everything added is validated and, if    *)
(* nothing is wrong, encoded.                                                *)
(*                                                                         *)
(* An input is [id, located, body]: its body is what the frontend makes of    *)
(* its text in each source, None where it refuses the text.                   *)
(***************************************************************************)
EXTENDS Interning

CONSTANTS
    Manifests,      \* the manifests a build may have, None without
    Inputs,         \* the inputs that may be added
    Resources,      \* the sequences of inputs that may be added as a resource
    Structured,     \* the messages that may be added as they are
    MaxOptions,     \* the options the count byte of a call or of markup can say
    MaxAdded        \* bound: the calls that add

VARIABLES
    build,          \* [collect, manifest]: how this build was started
    sources,        \* how many sources are registered: they are 0 .. sources - 1
    messages,
    errors,         \* what the calls that added have found
    report,         \* None until compile, then [compiled, diagnostics]
    added           \* the calls that have added, over all builds

buildVars == <<build, sources, messages, errors, report, added>>

Started(collect, manifest) == [collect |-> collect, manifest |-> manifest]

-----------------------------------------------------------------------------
(* Diagnostics.  of is the message at fault, by its place, None for an input    *)
(* that never became one; context names the message the report shows.          *)

Diagnostic(error, of, context) == [error |-> error, of |-> of, context |-> context]

\* a mutant: the message id is compared alone.
AnySource(message, source) == TRUE

\* message_context_for_error: source_id is compared only if the error has one.
SameSource(message, source) == source = None \/ message.origin = source

Matches(message, id, source) == message.id = id /\ SameSource(message, source)

\* source_for_error, build_error_for_compile: no context without a source.
ContextOf(fault, id) ==
    LET found == {n \in DOMAIN messages : Matches(messages[n], id, fault.source)}
    IN IF ~fault.named \/ fault.source \notin 0 .. sources - 1 \/ found = {} THEN None
       ELSE [message |-> CHOOSE n \in found : \A k \in found : n <= k,
             source  |-> fault.source]

\* ensure_unique_message_ids: the first message whose id an earlier one has.
Duplicates ==
    SelectSeq([n \in DOMAIN messages |-> n],
              LAMBDA n : \E k \in 1 .. n - 1 : messages[k].id = messages[n].id)
DuplicateErrors ==
    IF Duplicates = <<>> THEN <<>>
    ELSE <<Diagnostic("DuplicateMessageId", Duplicates[1], None)>>

FaultErrors(Faults(_)) ==
    Joined(LAMBDA n : Mapped(LAMBDA fault :
                               Diagnostic(fault.error, n, ContextOf(fault, messages[n].id)),
                             Faults(messages[n])),
           [n \in DOMAIN messages |-> n])

\* collect_build_errors
ValidationErrors ==
    DuplicateErrors \o FaultErrors(BuiltinFaults)
      \o (IF build.manifest = None THEN <<>>
          ELSE FaultErrors(LAMBDA message : ManifestFaults(build.manifest, message)))

\* u8::try_from(dynamic_options.len()) and of markup's options, in lowering.
Dynamic(func) == Cardinality({n \in DOMAIN func.options : func.options[n].how # "literal"})
FitsOptionCount(message) ==
    \A part \in ToSet(InOrder(message.parts)) :
        /\ \A func \in ToSet(FunctionsCalled(part)) : Dynamic(func) <= MaxOptions
        /\ part.kind = "markup" => Len(part.options) <= MaxOptions

-----------------------------------------------------------------------------

Open == report = None
MayAdd == Open /\ added < MaxAdded /\ added' = added + 1

\* An input that the frontend refuses: its context is the input's own.
Refused(source) == Diagnostic("Syntax", None, [message |-> None, source |-> source])

\* register_source
RegisterSource ==
    /\ MayAdd /\ ~build.collect
    /\ sources' = sources + 1
    /\ UNCHANGED <<build, messages, errors, report>>

\* add_input: the source stays registered if the text is refused.
AddInput(input) ==
    /\ MayAdd
    /\ sources' = sources + 1
    /\ IF input.body = None
       THEN errors' = Append(errors, Refused(sources)) /\ UNCHANGED messages
       ELSE /\ messages' = Append(messages, Message(input.id, input.body[sources], sources))
            /\ UNCHANGED errors
    /\ UNCHANGED <<build, report>>

\* parse_message_resource: the origin is the container's, if it gave one.
ResourceMessage(input) ==
    Message(input.id, input.body[sources], IF input.located THEN sources ELSE None)

\* add_resource_input stops at the first refused text and keeps what came before;
\* collect_resource_input goes on.
AddResource(resource) ==
    LET refused == {n \in DOMAIN resource : resource[n].body = None}
        taken   == IF build.collect \/ refused = {} THEN resource
                   ELSE SubSeq(resource, 1, CHOOSE n \in refused : \A k \in refused : n <= k)
        Parsed(input) == input.body # None
    IN /\ MayAdd
       /\ sources' = sources + 1
       /\ messages' = messages \o Mapped(ResourceMessage, SelectSeq(taken, Parsed))
       /\ errors' = errors \o Mapped(LAMBDA input : Refused(sources),
                                     SelectSeq(taken, LAMBDA input : ~Parsed(input)))
       /\ UNCHANGED <<build, report>>

\* ensure_source_registered
Registered(message) == message.origin = None \/ message.origin \in 0 .. sources - 1

\* add_message
AddMessage(message) ==
    /\ MayAdd /\ ~build.collect
    /\ IF Registered(message)
       THEN messages' = Append(messages, message) /\ UNCHANGED errors
       ELSE errors' = Append(errors, Diagnostic("Internal", None, None)) /\ UNCHANGED messages
    /\ UNCHANGED <<build, sources, report>>

\* compile_builder_report, encode_messages as far as it can fail.
Compile ==
    LET found    == (IF build.collect THEN errors ELSE <<>>) \o ValidationErrors
        Failed(diagnostics) == [compiled |-> FALSE, diagnostics |-> diagnostics]
    IN /\ Open
       /\ report' =
            IF found # <<>> THEN Failed(found)
            ELSE IF ~LookupsSucceed(messages)
            THEN Failed(<<Diagnostic("Internal", None, None)>>)
            ELSE IF \E message \in ToSet(messages) : ~FitsOptionCount(message)
            THEN Failed(<<Diagnostic("SizeOverflow", None, None)>>)
            ELSE [compiled |-> TRUE, diagnostics |-> <<>>]
       /\ UNCHANGED <<build, sources, messages, errors, added>>

NewBuild(collect, manifest) ==
    /\ build' = Started(collect, manifest)
    /\ sources' = 0 /\ messages' = <<>> /\ errors' = <<>> /\ report' = None

BuildInit ==
    /\ build \in {Started(collect, manifest) : collect \in BOOLEAN, manifest \in Manifests}
    /\ sources = 0 /\ messages = <<>> /\ errors = <<>> /\ report = None /\ added = 0

BuildNext ==
    \/ RegisterSource
    \/ \E input \in Inputs : AddInput(input)
    \/ \E resource \in Resources : AddResource(resource)
    \/ \E message \in Structured : AddMessage(message)
    \/ Compile
=============================================================================
