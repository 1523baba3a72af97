# TLA+ specifications of message-format

Specifications of this repository's message compiler (parser, checks, frontend,
manifest validation, lowering, encoding), its runtime (catalog loader, bytecode
interpreter, built-in functions, bundles of locales) and its language server, the
TLC configurations that check them on small instances, and proofs for TLAPS. Paths
below are relative to the repository; `mf/` stands for
`crates/message-format/src/`, `rt/` for `mf/runtime/`, `cc/` for
`mf/compiler/compile/`, `cs/` for `mf/compiler/syntax/` and `lsp/` for
`apps/message-format-lsp/src/`.

    tlc -workers 2 -config MCVM.cfg MCVM.tla      # a run
    tlapm VMProofs.tla                            # the proofs of a module

`PROJECT.json` lists the runs with their properties, the mutant that shows each
property can fail, the source lines behind each definition, the hazards the
properties are for, and the findings.

## 1. The system

A message goes through three programs that share only a byte format, and a fourth
reads it while it is written:

    text / Message --compile--> bytes --load--> Catalog --format_to--> sink events
                    (parser, checks,   (container,      (run_bytecode with
                     frontend,          verify_code)     arguments and a Host)
                     validation,
                     lowering, encode)
    text --language server--> problems, definitions, references, symbols

| component | state it keeps | operations | how it interacts |
|---|---|---|---|
| parser and checks (`cs/`, `cc/frontend/`) | cursor in the text | parse a document, check declarations, selectors, variants, literals | feeds the frontend; the server asks it for problems |
| frontend (`cc/frontend/`) | declaration plan: slots, inlined and shared values, reference counts | declarations, expressions, match table to nested selects | yields `Part`s |
| manifest validation (`manifest.rs`, `cc/analysis.rs`, `cc/mod.rs`) | uses of each declaration | walk of parts, propagation through aliases, checks against schemas | before encoding |
| builder (`cc/mod.rs`) | sources, messages, collected errors | add an input, a resource, a message; compile | finds the message a diagnostic shows |
| lowering (`cc/lowering.rs`) | code buffer, enclosing defaults, select depth, literal pool | `lower_parts`, `lower_select`, `emit_*`, `patch_rel32` | writes the code the loader checks |
| encoding, interning (`cc/mod.rs`, `encoder.rs`, `interning.rs`) | string, function and literal tables | `encode_messages`, `encode_catalog` | fixes entry pcs and table order |
| loader (`rt/catalog.rs`) | chunk table; boundaries, worklist heap, cursor, copy of the heap's top | `from_bytes`: container decoding, three passes of `verify_code`; `message_pc`, `string_id` | its promises are the VM's preconditions |
| schema (`rt/schema.rs`) | none | opcode widths, flow kinds, decode | shared by lowering, loader and VM |
| VM and Formatter (`rt/vm.rs`, `rt/formatter.rs`) | stack, local slots, value arena, selector, expression state (fallback, pending errors), fuel, direct-output flag; buffers live on between calls | one handler per opcode; `format_to` | calls the `Host`, writes to sink and diagnostics |
| builtin host (`rt/builtin.rs`) | indexed functions, formatter caches | `call`, `call_select`, `call_to`, `project_select`, `format_default_to` | called by the VM, reports through `on_error` |
| bundles (`catalog.rs`, `formatter.rs`, `args.rs`) | catalogs in fallback order, one index per catalog | open, `resolve`, `format` by handle | several catalogs, one VM state |
| language server (`lsp/`) | document store with analyses, manifest | requests, open, change, save, close | single-threaded loop over messages |

No part has threads and none persists anything but the file the compiler writes. What
is hard here is of another kind: a worklist algorithm that merges states it has not
yet compared, a compiler and a loader that must agree with an interpreter that no
longer checks, an interpreter whose record of failures belongs to an expression but
is kept per execution, executions that stop in the middle of an expression in a
formatter that is used again, a parser that goes back and recovers, two passes that
must visit the same references, caches that must not be seen, arithmetic on texts,
and a server and an editor that are not at the same point of their conversation.

What makes each component correct:

* **parser and checks**: what the grammar writes is read back, whatever the layout;
  exactly the well-formed declarations, selectors and variants are accepted.
* **frontend**: a declaration is evaluated once, in source order, and every use sees
  that value; the selects it builds choose the best variant; what it passes on
  compiles to a catalog that loads.
* **builder and validation**: what the manifest permits compiles and nothing else; a
  diagnostic shows the message at fault.
* **lowering and encoding**: the code of a message has the meaning of its parts; it
  is always accepted by the loader and refers to its own texts.
* **loader**: it returns; what it accepts can be executed without underflow,
  uninitialised slots, cases without a selection or an end of the code, on every
  path; what it rejects has such a path, or one that does not end; what it accepts of
  the tables can be searched.
* **VM**: an expression's failure affects that expression, its value and its
  diagnostics and nothing else; diagnostics do not change the result; a compiled
  message always produces its output; calls of one formatter are independent.
* **builtin host**: an answer depends on the value and the options, not on what was
  formatted before; showing, storing and selecting agree; numbers are exact.
* **bundles**: the message of the most specific locale that has it is shown.
* **language server**: what it keeps and publishes is of the present text;
  navigation finds what the parser reads; every offered request is answered.

## 2. Modules

Compilation and execution:

| module | models | state and actions |
|---|---|---|
| `Schema` | opcodes, widths, flow kinds, jump targets | operators; code is a function from byte offsets to instructions, so a jump between instructions is visible |
| `AbstractExec` | what pass 3 knows of one instruction: `stack_effect`, `update_select_depth`, slots | `Fault` is the error `verify` returns for a state, `Successors` the states after it, `Covers` the order in which a merged state stands for others |
| `Verifier` | `verify_code` and `AbstractExecutionVerifier::verify` | `DecodeInstruction`, `FinishDecode` (pass 1), `CheckJumps` (pass 2), `BeginEntry`, `PopState`, `MergePeeked`, `Execute*`, `RejectState`, `Accept` (pass 3). `heap`, `cursor` and `peek` are the heap, the loop's local variables and `heap_peek`. `seen` and `dropped` are history variables |
| `LoadedPaths` | the reference for pass 3: walks of an accepted catalog, one instruction at a time, unmerged | `Enter`, `Walk`, `Leave`; states the properties of the verifier |
| `VM` | `run_bytecode` and every handler it calls, as `format_to` runs it | one action per kind of instruction; a call splits by what becomes of it (`SkipCall`, `CallReturns`, `CallWrites`, `CallRecovers`, `CallFails`); `Begin` and `Return` enter and leave `format_to` |
| `MessageParts` | the parts, expressions and selectors of `compiler/semantic.rs` as lowering and matching hold them | records |
| `Lowering` | `lower_parts` and below, `encode_messages` | operators from parts to code; jumps go to labels that `Link` resolves as `patch_rel32` does |
| `QuietVM` | the interpreter without a diagnostics sink, as an abstraction of the one with | an instance of `VM` under a refinement mapping |
| `Meaning` | references: what a message means, by its parts, without code, and as it is written | operators from parts, arguments and host answers to sets of results; of a message as written, an environment of names evaluated in source order, without slots, inlining or selects |
| `Matching` | `build_nested_match_ir` and its numeric, string and leaf cases (`matching.rs`) | operators from selectors and arms to nested `Select` parts; `BuildNested` is the function with its recursive calls as an operator parameter, `Rest`; `MatchParts` adds the selector checks |
| `Selection` | a walk of those selects, against the best-match rule | `TakeCase`, `TakeDefault` descend one select; the rule compares whole variants and knows no tree |
| `Frontend` | the declaration plan of `bindings.rs`, expressions of `pattern.rs`, scope checks of `cs/semantic.rs`; `document.rs` and `raw_match.rs`, which put these and `Matching` together | operators from a message as written to its prelude and patterns; an inlined call is `ResolveCall` of a `ResolveCall`; `BuildTree` ties the recursion of `BuildNested`; `PartsOf(message)`, `Compiles(message)` |
| `CatalogRuntime` | loader and VM composed over one catalog | extends `Verifier` and has an instance of `VM`: `Verify` is a step of the one, `Format` of the other, after acceptance |

Built-in functions:

| module | models | state and actions |
|---|---|---|
| `Decimals` | the decimal texts: rounding, padding, scaling, signs, plural operands | operators on texts, digit by digit as the code works; `Units` says what number a text is |
| `BuiltinOptions` | option parsing, inheritance from an annotated value, validation | operators; errors and where they are reported |
| `BuiltinHost` | `BuiltinHost` of `rt/builtin.rs` with its caches | `caches` is `IcuFormatterCache`; `Annotate` calls and takes the result in hand, `WriteCall`, `Select` and `ShowValue` only leave formatters behind, `NextOperand` starts another expression with the same host |

Syntax:

| module | models | state and actions |
|---|---|---|
| `Parser` | `cs/parser.rs`, `charset.rs`, `ident.rs` | one operator per parser method, from a source and a position to a result and a position, so that backtracking and recovery are visible |
| `Syntax` | checks of the parsed document (`literal.rs`, `semantic.rs`, `document.rs`, `pattern.rs`, `raw_match.rs`) | `Accepted(source)` |
| `Grammar` | reference: trees, how a tree is written in a layout, which trees are messages | operators |
| `Writing` | an author who adds one piece at a time, or a text that `escape_text` of `emit.rs` writes | `Write`, `WritePlain`; `HandOver` gives the message to the compiler, and the properties are about that step |

Language server:

| module | models | state and actions |
|---|---|---|
| `Scanner` | `scanner.rs`, `navigate.rs`: its own reading of bytes, lines and positions; and the reference, declarations and uses as the parser reads them | operators |
| `LanguageServer` | `server.rs`, `document.rs`, `analysis.rs` and the editor | `Edit` sends, `Serve` takes one message and does all its handler does. Problems are told by what they are found in: the manifest, kind and content that were analysed |

Delivery, from inputs to what is shown:

| module | models | state and actions |
|---|---|---|
| `Parts` | `semantic.rs`'s messages, as the modules below hold them | records |
| `Manifest` | validation against schemas, uses through aliases (`analysis.rs`), built-in options | operators in the code's order: the first fault is the one reported. At its end the reference, what a manifest permits of a whole message, which follows each value to its call |
| `Interning` | what each pass collects and looks up, the literal pool in its three modes, table order, the encoder that writes the file | operators |
| `CatalogBuild` | `CatalogBuilder`, `compile_inputs`, `compile_resources`, diagnostics' contexts | `AddInput`, `AddResource`, `AddMessage`, compile |
| `Container` | the file as it is read: `from_bytes` without the control flow, searches | operators; a file is a sequence of cells. What is read one after the other (functions, instructions, probes) is a recursive function |
| `Delivery` | one or two builds, their files intact or damaged, `CatalogBundle`, `MultiFormatter`, `MessageArgs` | ship, damage, open, resolve a handle, format |

The rest: `SampleMessages` and `SampleSources` model nothing of the code: they hold
sample catalogs and messages, laid out with the first operators of `Lowering`. The
`MC*` modules give the constants their values; `MCVerifier` and `MCVM` also state the
properties that relate code to the sample it was compiled from, and `MCSelection` the
one that relates a match to its code. `VerifierProofs`, `CatalogRuntimeProofs`,
`ContainerProofs`, `VMProofs`, `SelectionProofs`, `DecimalsProofs`,
`BuiltinHostProofs` and `LanguageServerProofs` hold the proofs.

`Verifier`, `VM`, `Container`, `BuiltinHost`, `Selection`, `LanguageServer` and their
helpers declare no RECURSIVE operator, so that they can be proved about: what they
compute step by step (the digits of an integer, paths of any length, the keys of a
select, the probes of a search) is a recursive function. The recursion of
`build_nested_match_ir` yields trees of no fixed set, which a function needs, so
`BuildNested` takes it as a parameter: `Frontend` passes the RECURSIVE `BuildTree`,
and `Selection` a constant, `Build`, whose value in the run is `BuildTree`. The
modules that follow the recursion of the code with a RECURSIVE operator are only
checked. A reference is written from what a document, a grammar or a comment claims
and shares with the model only what one operation does (`Meaning` shares a call and a
selector check with `VM`; `Grammar` takes the shape of a tree from the parser's
results).

Abstractions, and why the properties do not see them:

* Compilation and execution: texts, names, literals and functions are numbers, the
  ids of the pools; formatted values are a kind and a text. The properties there
  speak of which value is used, never of how it is written. The value arena is gone:
  stack and slots hold values, not indices, and values never change once stored.
  Pass 1 validates string, function and literal ids; the VM model takes valid ids
  for granted. Of two heap entries that differ only in their ticket either may be
  popped first; the code cannot tell them apart. `u8` and `u16` limits (`MaxSelect`,
  `MaxCycle`) are constants. A message as written is its syntax tree, names in
  canonical form, keys sorted into numbers, categories and others. The default
  isolation of placeholders is left out. Hosts answer with any value of `HostValues`
  or either error, at each call anew, and may report an error or not.
* Built-in functions: ICU is external. A formatter is the request it was built for,
  and what it writes is that request with the number or time given to it; so two
  results are equal exactly if the same was asked of ICU. `i64` and `i128` are
  constants. Floats are decimals with few digits; exponents in number literals, ties
  of binary floats and the split of a rendered text into parts are left out.
* Syntax: a character stands for its class; spans and the wording of errors are left
  out, the place where a parser method stops is not.
* Delivery: a number, a tag or a letter is one cell of a file, and of the code only
  references are encoded (control flow is `Verifier`'s). Fallback chains are given.
* Language server: a text is one of a few; problems are those of `Syntax`, resource
  entries and manifests are given as their readers yield them. The version of a
  document, which nothing reads, is left out.

## 3. Runs

| run | question | result |
|---|---|---|
| `verifier` | does the verifier return, is acceptance sound, are rejections justified, does it accept what the compiler writes? | holds; soundness where no state was dropped |
| `verifier_dropped` | is acceptance sound without that condition? | violated, finding 1 |
| `loading_scope` | is compiled code accepted for an `.input` option that names a later `.local`? | violated, finding 2 |
| `vm` | do resolved messages and messages as written keep their meaning, do failures stay with their expression, do they always format and return? | holds |
| `vm_untidy` | does anything leak out of an execution that traps? do diagnostics change behaviour? | no |
| `vm_markup_source` | do markup options see declared names? | violated, finding 3 |
| `selection` | do the selects of a match choose the best variant, each written once? | holds |
| `runtime` | do the loader's promises cover what the VM relies on? | holds where no state was dropped |
| `builtins` | are the caches unobservable, do showing, storing and selecting agree, is arithmetic exact? | holds, with the exceptions the properties name |
| `syntax` | is what the grammar writes read back and judged rightly? | holds, but for uses behind white space |
| `language_server` | is what is stored, published and answered of the present text? | holds, navigation for plain texts |
| `delivery` | is exactly what is permitted compiled, can accepted files be searched, is the right locale's message shown? | holds |

Bounds and why they are enough:

* `verifier`: all listings of three instructions over the stack alphabet (push,
  store, load, output, jumps to anywhere) and of four over the selection alphabet
  contain every loop, join, self-jump and missing terminator of that size;
  `Diamonds` adds joins of three paths, the smallest shape in which a state waits in
  the heap while a smaller one is pushed; every sample message is compiled too.
  `MaxSelect` = 3 is reached by these listings; `MaxCycle` = 8 exceeds the number of
  backward jumps on any of their simple paths, so that no catalog is rejected for the
  bound alone. Lowering writes no backward jump.
* `vm`, `vm_untidy`: thirteen resolved messages with each kind of expression,
  option, markup, declaration and selector, and with defaults forwarded one and
  two levels up, and a catalog of two of them. `vm` adds messages as
  written: aliases of calls, of literals, of inlined and of undeclared names, calls
  evaluated inside the next declaration and such that must not be, shadowed
  arguments, options that name declarations, written with white space after `=` and
  without, and matches of each selector mode.
  Arguments are present or missing, null, empty, matching, a number that is
  selectable or not; hosts return null, a number or an unselectable one, or fail.
  Budgets of 0 and 3 stop executions at the start and inside expressions.
* `selection`: tables of up to four variants over two plural selectors, of up to
  three over a plural and a string or projected one, with one number, one category
  and the catch-all as keys; of up to four over an exact and a dynamic selector and
  over three selectors with one key. The default comes first or last, the rest in
  any order, and the selectors match every combination of keys. A branch that must
  fall back across two levels needs two keys and three variants.
* `runtime`: sample code and compiled messages, with a budget of 20 instructions
  that only ends loops of catalogs of which a state was dropped.
* `builtins`: eight catalogs (numbers, annotations of annotated values, formatters of
  numbers, currencies, dates and times by day, by style and by field, strings and test
  functions), which between them have every option at values on both sides of each
  branch, operands of every kind, and as many annotations in a row as inheritance has
  levels to differ at. The functions of different catalogs have few formatters in
  common, so that each catalog is explored with all states of its own. Widths of 127
  and 32,767 overflow with the digits of the samples; `MaxExact` = 100 separates
  integers that are an `f64` from those that are not. Locale data is missing for one
  request of each of three caches.
* `syntax`: up to five pieces, at most two of a kind: two declarations that shadow,
  alias or refer forward, two selectors, two variants of one and two keys, two
  segments, in each layout (no optional white space, much of it, also on both sides
  of `=`, line breaks, bidi controls, quoted bodies). Two of a kind suffice for every check that compares
  (redeclaration, duplicate variants and options, key counts).
* `language_server`: one message document of four contents (complete, with a
  match, unfinished, and one that is accepted but not plain: white space ends the line
  of one declaration, and the name of another is on its next line) and one resource of two contents, three places (on a reference,
  on a declared name, on an option of a function), three messages of the editor in any
  order, each of which may wait while more are sent: open, change and a request, or a
  request before, between and after a close.
* `delivery`: up to three additions to a build, of inputs with and without source,
  two resources and structured messages; with every manifest for the first build.
  Bounds on the combinations, chosen so that each feature meets the others once: a
  build after the first collects its errors and has no manifest; a bundle is opened
  once, after the first or the last build; a file is damaged only for a first build
  with two messages, at one cell, which becomes 0 or one more, or cut short; at most
  two catalogs are shipped (`MaxShipped`), for one locale or for two. One option per
  call is the limit of the option count byte (`MaxOptions` stands for 255).

Deadlock checking is off where the system may stop: a loaded catalog need not be
used, walks stop at faults or in a variant, an author may stop writing, an editor may
stop sending, a build ends. It is on in the runs of `VM` and `BuiltinHost`.

Fairness. `VerificationEnds` assumes weak fairness of the loader's steps and
`FormatReturns` of the interpreter's (`Fail \/ Instruct`, not `Begin`): both are
single-threaded functions that run until they return, and nothing obliges a caller
to call again. Hosts are assumed to return from each call. `RequestsAreAnswered`
assumes weak fairness of `Receive`, the part of `Serve` that takes the next message: the
server's loop takes the next message as soon as it has finished the last
(`lsp/server.rs`), and nothing obliges the editor to send.

## 4. What the properties say

Loading and executing:

* `AcceptedCoverage`, `CoveredPathsAreSafe`, `CoveredPathsNeverRepeat`,
  `RejectionsAreJustified`, `VerificationEnds`: soundness, termination and precision
  of pass 3, the claims of the comment on `verify` and of
  `spec/catalog-binary-format.md`. The first three are stated for catalogs of which the
  merge dropped no state (`dropped = {}`), because of finding 1. `CompiledIsAccepted`
  shows the condition for compiled samples; a source it does not hold for is finding 2.
* `AcceptedIsDecoded`, `ExecutionIsCovered`, `LoadedNeverTraps`: the contract
  between loader and VM.
* `SkipsOnlyItsOwnOperand`: pending errors belong to an operand;
  `docs/runtime-vm-semantics.md` on failure state and missing arguments.
* `FallbackOnlyAtConsumer`, `DirectOutputIsConsumed`: the two registers that one
  instruction sets for the next one do not survive it.
* `BadSelectorTakesDefault`, `CompiledAlwaysFormats`, `FormatReturns`: a message
  degrades and ends, whatever host and arguments do.
* `TypeOK` of `VM` says besides the types that an idle formatter is clear (`Quiescent`):
  no stack, slots, selector, fallback, pending error or flag of the last call is left.
* `DiagnosticsAreObservers`: refinement; with a sink attached the VM takes the
  steps it takes without. The abstraction is the VM itself under a mapping that
  forgets which errors are pending.

Compiling:

* `MeansItsMessage`: output and reports of an execution are one of the meanings of
  the message in `Meaning`, which knows nothing of code, registers or jumps.
* `MeansItsSource`: the same from the message as written, so that the plan of slots,
  inlining and sharing, the order of the prelude and the tree of selects are checked
  together with lowering and execution. The uses that the count overlooks (section 6)
  are taken out of the source first, by `Overlooking`. `docs/runtime-vm-semantics.md`: declarations
  are resolved eagerly, in source order, once. `MarkupMeansItsSource` states it for
  the sample of finding 3.
* `BestVariantIsSelected`, `EachVariantOnce`: the tree built for a match selects by
  the best-match rule of MessageFormat 2, and falling back to another branch jumps
  to it instead of copying it.
* `TreeIsRead`, `VerdictIsTheTrees`, `PlainTextComesBack`: parser and checks against
  the grammar; the checks look partly at the tree and partly at the text again. In a
  layout with white space after `=` the verdict is that of the tree `AsSeen`, without
  the variables in options of declarations, which the checks overlook (section 6).
* `CompiledIsPermitted`: a build succeeds exactly if nothing was refused, ids are
  distinct, options can be counted and the manifest permits each call wherever its
  value goes. `ContextIsTheFaultys`: what a diagnostic shows.

Delivering:

* `LoadedTablesAreSound`: in a file that was accepted, intact or damaged, every name
  is found at its own entry and no other, and a message can be run to its end.
* `ShownIsTheMostSpecific`: handle, catalog index, host index, ids of arguments and
  literals all belong to the catalog of the locale that has the message.

Built-in functions: `HistoryIndependent` (caches), `ShownAlikeButDigits` (written at
once or stored), `SelectOfCallIsProjection` (selected at once or stored),
`SelectionSeesWhatIsShown` (plural operands are those of the digits shown),
`ShownIsRounded`, `OffsetIsExact` (arithmetic on texts against arithmetic).
`SelectOfCallIsProjection` is stated of every numeric function and says what happens in
the one case in which the two disagree, `IgnoresSelect` (section 6). `ShownIsRounded`
leaves out significant-digit options.

Language server: `AnalysisIsOfTheText`, `PublishedIsForTheText` (after the server has
caught up), `DefinitionsAreDeclared`, `ReferencesAreTheUses` (for the texts
`IsPlain` describes, see section 6), `RequestsAreAnswered`.

## 5. What is proved

The theorems hold for all constants: any set of decoded catalogs, any requests, any
host values, any `MaxSelect` and `MaxCycle`; for the built-in host any catalogs,
operands, options and locale data; for a file any cells; for a match any variants,
selectors, keys and values; for the language server any documents, contents and number
of messages. What is assumed of the constants is named in the modules that declare
them, and TLC evaluates it in the runs:

* `CatalogAssumption` (`Verifier`): what decoding from offset 0 yields, namely
  instructions with operands in range, one after the other without overlap. The loader
  decodes nothing else, since pass 1 goes from each instruction to the next.
* `DecodedAssumption` (`VM`): code that passes 1 and 2 admit; that they do is
  `AcceptedIsDecodable`. `SinkAssumption` (`QuietVM`): a request with a sink can also
  be made without one.
* `CatalogsAssumption` (`BuiltinHost`): operands come from outside, where nothing has
  been formatted; they are texts, integers, dates or nothing, and their digits are
  digits. Entries of the index name builtins. `NoneAssumption` (`BuiltinOptions`) and
  `NoneIsNoCount` (`Decimals`): the model value for nothing is none of the ways to
  select and no count. `WidthsAssumption` (`Decimals`): `i64` is no wider than `i128`.
* `TablesAssumption` (`Selection`): what `validate_match_arms` and the validation of keys
  accept, of functions with one of the five ways to select; there is a selector, and no
  variant's pattern is itself a select.
* `ContentsAssumption` (`LanguageServer`): a document has a kind, and a content is not
  the model value that stands for no content.

The loader (`VerifierProofs`):

* `TypeCorrect`. `TypeOK` is not inductive: that the cursor can
  decode its instruction needs that every pc in heap and cursor is a boundary
  (`InCode`) and that boundaries, once pass 1 is over, are decoded instructions with
  jumps among them (`Parsed`). That depths stay natural follows from `Fault`, which
  is what pass 3 tests before it subtracts.
* `Coverage`: acceptance means `seen` is closed. The invariant `CoverInv` says that
  every entry begun is covered by a state executed or waiting (`Begun`), that every
  successor of an executed state is covered likewise (`Closed`), and that, as long as
  nothing was dropped, the waiting states are the cursor and the heap. The step that
  matters is `MergePeeked`: the merged cursor covers both states (`Covers` is a
  preorder), which fails exactly if the state popped is not the state compared.
* `PathsAreSafe`: from `Coverage` by simulation. A walk's state is covered by a
  state of `seen` (`OnPath`), a covered state faults only if the covering one does
  (`FaultMonotonic`), and a step of both keeps the covering (`AfterMonotonic`).
  Walks are of any length; pass 3 itself is never unfolded again.
* `PathsNeverRepeat`: the cycle counter of pass 3 bounds the walks of the catalogs it
  accepts, although it counts per state and walks are not merged. `Ranks(K)` says of
  the last cycle `K[p]` in which the instruction at `p` was executed that each of its
  targets was executed in that cycle, or the next one if the jump is not forward, or
  that such an execution is still awaited by heap or cursor (`Awaited`). The measure
  may rise when an instruction is executed again (`ExecutedRanks`), then its targets
  are awaited anew. On acceptance nothing waits, so that along a walk (cycle, pc) grows
  lexicographically (`NextRanksHigher`), and what was visited precedes what comes.
* `ErrorsAreOnPaths`, `NoFalseRejections`: the other direction, with or without dropped
  states. A merged state is the state of no path, so the invariant `Justified` gives each
  state that pass 3 holds three of them (`Genuine`): one with its depth, one with its
  slots, and one as long as its cycle, all at its pc, in its selection and with no fewer
  values or slots. The merge keeps a path of one state or the other for each bound
  (`MergedGenuine`), a step prolongs all three (`PathGoesOn`), and a fault of the state
  is one of the first two (`FaultIsOnAPath`). A path to a state in cycle `n` has no more
  steps than `n` times the code's instructions and those before its pc (`Bound`), hence
  `Longest`. The paths are a recursive function of their length (`PathStates`), whose
  equations are derived from its definition (`PathStatesUnfold`). That an entry called
  ambiguously terminated has a path that repeats an instruction is proved for code of at
  most `MaxCycle` instructions (`ShortCode`): in longer code a path may jump back 65,536
  times and end, and pass 3 refuses that entry too.

The interpreter:

* `VMTypeCorrect`, `FallbackConsumed`, `DirectConsumed` (`VMProofs`) from one
  inductive invariant `VMInv`: `TypeOK`, of which `Quiescent`, that an idle formatter
  is clear, is a part, and both register properties. These need each
  other's context: `ExprFallback` establishes the first because pass 1 admits it only
  before a consumer (`DecodedAssumption`), and every consumer clears it; a call sets
  the flag only after its peek found the `OutVal` that clears it.
* `DiagnosticsObserve` (`VMProofs`): the refinement `DiagnosticsAreObservers`. Every
  initial state maps to one of the interpreter without a sink, and every action to the
  action of the same name (lemmas `Quiet*`), under `VMInv`. The mapping keeps whether
  an error is pending and forgets which; the actions whose guards ask for pending
  errors ask only for that.
* `OwnOperandSkips`, `BadSelectorDefaults`, `AlwaysFormats` (`VMProofs`): three properties
  that hold of code as lowering writes it and not of all decoded code (the run
  `vm_untidy` has code that is laid out otherwise, and the code of finding 3 breaks the
  first). Their hypotheses say what is needed of the code and nothing of executions:
  `OperandsTogether`, that an operand is followed by its options and by the instruction
  that takes them all; `SelectionsTogether`, that before the only selection there are no
  jumps and after it they go forward, that a projection or a call is selected on at once,
  and that a slot that is checked is the one selected on and is not declared again;
  `WellFramed`, a typing of the code: from what each instruction takes and leaves,
  `Frames` finds what there is before every instruction that is reached (how many
  values, which of them are constants, how many slots, whether a selection is open,
  whether a fallback is set), and that must suffice for it, on whatever path it is
  reached. That compiled
  catalogs are like this rests on lowering, a recursive definition; TLC evaluates it on
  every catalog of the run `vm` (`LoweredAssumption` in `MCVM`). Hosts, arguments,
  requests and entry points are arbitrary.
  * `OwnOperand` says where the failed operand is: as deep below the top as options were
    loaded since, with the end of its expression still ahead. The step is to count
    the options on both sides (`LoadsAreCounted`).
  * `SelectorInv` follows a reported `BadSelector` to the selection: until the selection
    the slot or the value that failed is still to be selected on (`BadAhead`), afterwards
    the selector matches no text (`BadSelected`). A local is read again for each case,
    so its slot must not have changed in between (`BadLocalKept`). That no case was
    taken before is part of the invariant, for the property is about both orders.
  * `FramedInv` says that the state has what the frame of its instruction counts on
    (`Fulfils`). With it no instruction traps (`NoTrap`), and an instruction leaves what
    its frame says (`FrameKept`), so the next one finds what it counts on. A call that
    has written its output owes the value that its `OutVal` takes (`Owed`), so that one
    frame describes both. Missing arguments, failed operands and errors of the host
    change the values and never the frame, which is why they cannot stop a message.

Loader and interpreter together (`CatalogRuntimeProofs`), without an assumption on the
code but `CatalogAssumption`, and none on hosts, arguments or requests:

* `AcceptedIsDecodable`: the invariant `Scanned` says that the code before pass 1's
  offset was read, that an `ExprFallback` read has its consumer after it or is the
  last instruction read and pending, and that no jump is bad once pass 2 is over.
* `ExecutionCovered`, `NeverTraps`: from one inductive invariant, `SystemInv`. While an
  execution runs, some executed state of pass 3 has its pc and no more values and slots
  (`ExecutionIsCovered`); as pass 3 found no fault in that state (`CoverInv`), the stack
  and the slots suffice (`Supplied`), and the state after it is covered by another
  executed one. A call that has written its output is ahead of pass 3 by one value,
  which `Depth` counts until the `OutVal` takes the flag, so the invariant also says
  that the flag is up only there. The select sequence is not part of it: the VM keeps
  one selector where pass 3 counts a depth (section 6).

The catalog file (`ContainerProofs`), without any assumption: a file is any sequence of
numbers, and nothing is said of how it came about.

* `AcceptedIsSearched` is `SearchFinds`, which `LoadedTablesAreSound` asks of the files
  of the run `delivery`. An accepted file's chunks lie within it, so its strings and
  entries are typed (`Accepted`). The order of byte strings is strict and total
  (`LessTransitive`, `LessTotal`), so that names that ascend from entry to entry ascend
  along the table (`NamesAscend`), which no two entries under one name could. After `k`
  probes the entries below the range are less than the id and those above it greater,
  and the range has lost `k` entries or its middle is the id (`Narrowed`).
* `AcceptedIsShown`: from its entry each message's code is sound instructions up to a
  `Halt` (`EndsInHalt`); jumps are left to `PathsAreSafe`. Reading from the first cell
  to the last leaves no instruction within another (`ReadFrom`), so that going on from
  an entry one cannot step over the `Halt` after it.

The match of variants:

* `BestVariant` (`SelectionProofs`) is `BestVariantIsSelected`, under the hypothesis
  `Recurs`, that `Build` satisfies the equation of `build_nested_match_ir` on the tables'
  selectors, arms and levels. It has exactly one solution there, since every call is one
  level deeper and the level after the last makes none, and `BuildTree`, the value of
  `Build` in the run and what `Frontend` uses, is that solution: the hypothesis stands
  for a RECURSIVE definition, which the prover does not take. `Leads` says of a
  tree and a set of ends that a set of trees contains it, is closed under what a walk does
  next, and has no other leaves than those ends; so the invariant of the walk is that
  what is left of the tree leads to the best of all variants. It is established by an
  induction from the last level to the first (`BuildsLast`, `BuildsLevel`): what is built
  of candidates that fit alike so far leads to the best of them and of the variants that
  the fallback covers, provided that none of these beats a candidate (`Ready`). Within a
  level the order of the cases is what keeps the proviso: a variant with `*` fits less
  than one with a category, and that less than one with a number (`Unbeatable`), so
  each select may fall back to the next. A key of a select fits exactly if the select
  compares it equal (`SelectIs`), which depends on whether its keys are all numbers or
  all categories (`Alike`). That a select has each wanted key is proved of the recursive
  function that lists them (`KeysInOrderAre`).

The rest:

* `CachesAreNotSeen` (`BuiltinHostProofs`) is `HistoryIndependent`. The invariant
  `HostInv` says that every slot of the caches holds the formatter its key requests
  (`Sound`), and that a formatted date or time in hand remembers options its function
  admits (`TypedValue`), since they choose the slot when it is formatted again. Each
  operation over sound caches is shown to answer as over new ones and to leave sound
  caches behind (`Alike`). A key that omits one of the options the formatter was made
  from breaks the lemma on the slot.
* `SelectingIsProjecting` (`BuiltinHostProofs`) is `SelectOfCallIsProjection`, by cases on
  the function, on the operand (the short way of `call_select` for an integer without
  options) and on whether the select is chosen at run time. For `:offset` and `:percent`
  with a variable `select` it says instead how the two differ (`SelectIsIgnored`).
* `DecimalsProofs` is about the texts of numbers. `DigitsOf`, `Natural` and `TenTo` are
  recursive functions, and the library's theorems about recursion and induction take an
  operator as a parameter, which the provers cannot instantiate. They are derived anew
  for a set: a set of naturals that is not empty has a least element (`LeastOf`), hence
  induction (`InductionOn`), hence a function that satisfies its equations
  (`RecursionSolved`). From there on: the digits of an integer are digits and mean the
  integer (`DigitsOfIs`, `NaturalOfDigits`), leading and trailing zeros may be dropped,
  and each operator on texts yields a text of so many digits. What the operators make of
  the number is said in units of any size (`Amount`): carrying through nines adds one
  (`CarriedAddsOne`), cutting digits off rounds (`RoundingIs`), moving the separator
  scales (`HundredTimes`), a mantissa and its exponent are the number (`ScientificIs`).
* `NumbersShowRounded` (`BuiltinHostProofs`) is `ShownIsRounded`, from these lemmas and
  from `RichInv` (below), by which a stored format requires no more fraction digits than
  it allows (`TypedFormat`), so that padding is never cut off again.
* `OffsetAddsExactly` (`BuiltinHostProofs`) is `OffsetIsExact`. An operand's digits as an
  integer, scaled, plus or minus the adjustment is the sum (`OffsetIs`), whether the
  result is a text or, when it fits, an integer again; where the width does not suffice
  the call fails.
* `SelectorsSeeWhatIsShown` is `SelectionSeesWhatIsShown`: the decimal that the plural
  rules are asked about and the text that is shown are rounded at different places of
  the code and have the same digits.
* `PlaceholdersShowAlike` is `ShownAlikeButDigits`, under the hypothesis
  `LocaleHasDecimals`: in a locale without the data of the decimal formatter, writing a
  plain integer at once fails, and keeping it as digits does not. The invariant
  `RichInv` adds to `HostInv` that the value in hand is one that the functions make
  (`RichValue`): a number as percent shows, stored, what its source would show. Dates
  that were parsed once are shown as they are parsed, except for the hour that `:time`
  loses (section 6), which is the case `LosesHour` of the property.
* `AnalysisIsCurrent`, `ShownIsPresent` (`LanguageServerProofs`) from one inductive
  invariant, `ServerInv`. What the editor's documents contained after each of its
  messages is not in the state; the invariant says that there is such a `History`,
  that every message fits into it (`MaySend`: a saved text is the one the document
  had), that its end is what the editor has now, and that the store is where the
  history was when the last message taken was sent (`Stored`). When the two are at the
  same point, what is published is of the editor's text. Nothing is said of the
  messages under way but that, however many they are and whatever order they come in.

Model-checked only:

* the liveness properties, `VerificationEnds`, `FormatReturns` and
  `RequestsAreAnswered` (fairness is out of the prover's reach);
* what rests on modules with recursive operators: frontend and lowering
  (`MeansItsMessage`, `MeansItsSource`, `CompiledIsAccepted`, `EachVariantOnce`), grammar
  and checks (`TreeIsRead`, `VerdictIsTheTrees`, `PlainTextComesBack`), validation,
  interning and what is written or shown of a file (the properties of `delivery`, among
  them that what a build has compiled is accepted): the prover takes no module with
  such an operator. `DefinitionsAreDeclared` and `ReferencesAreTheUses` compare the
  server's reading with the parser's.

## 6. Findings and observations

Findings, each with a run that shows it:

1. **The merge in `verify` may drop a state** (`rt/catalog.rs:757-767`). The loop
   compares the cursor with `heap_peek`, taken before the cursor pushed anything, and
   removes `heap.pop()`. If a conditional jump pushed a smaller state meanwhile, that
   state is discarded without being executed. `DroppedState` in `SampleMessages` is a
   catalog of twelve instructions that is accepted and underflows.
2. **The scope of `.input` options is not checked** (`cs/semantic.rs:292`).
   `.input {$x :f key=$l} .local $l = {$y :f}` compiles, its code loads the slot of
   `$l` before it is stored, and the loader rejects it with `InvalidLocalSlot`. In a
   `.local` the same reference is an error of the compiler, unless white space hides it:
   `.local $m = {$x :f key= $l}` before `.local $l` compiles to the like
   (`LaterInSpacedOption` in `SampleSources`).
3. **Markup options do not see declarations** (`cc/frontend/pattern.rs:484`). An
   option of a call is resolved through the declaration plan, one of markup is not: a
   `.local` is looked up as an argument of that name, which is missing. Markup loads
   it with `LoadArg` (`cc/lowering.rs:328`), which notes an operand error that no
   markup instruction consumes, so that the next call is skipped as well.

Observations made while modelling, which the models contain and no run singles out:

* The loader counts the depth of open selections, the VM keeps one selector
  (`rt/catalog.rs:866`, `rt/vm.rs:1185`): `SelectArg, SelectArg, SelectEnd, CaseStr`
  is accepted and traps. No compiled message is like that (`CompiledAlwaysFormats`).
* A part after a select whose default repeats the enclosing default is never
  executed (`cc/lowering.rs:165`): reachable through `CatalogBuilder::add_message`,
  not through the text front end, which puts a nested select last in its arm.
* A number literal resolved by `:number` without options and stored is shown as plain
  digits (`.local $n = {1234 :number} {{{$n}}}`), written at once it is grouped by the
  locale; `ShownAlikeButDigits` leaves this case out. `style=percent` asks for the
  plural category of the unscaled value.
* `:time` of a dated text without a colon, `2024-05-01T14`, is midnight when it is
  formatted, for `validate_time_operand` appends `T00:00:00` to it
  (`rt/builtin.rs:3188`), while `format_resolved_datetime_parts` (3591) reads hour 14.
  The test at `rt/builtin.rs:5108` says that the fields reconstruct the text; it has
  minutes. `ShownAlikeButDigits` names the exception, `LosesHour`.
* An option is searched for a variable right after its `=` (`cs/semantic.rs:796`), while
  the grammar (`cs/parser.rs:450`) and the parser allow white space there. A use that is
  written `b= $a` is not seen: `.local $a = {1 :e b= $a}`, which uses itself, a use of a
  later `.local`, and an `.input` after it that declares what was used, are accepted. In
  a pattern such a use is resolved but not counted, so an optionless `:string` that
  is used once besides is inlined, and the option then names an argument that nobody
  gives (`SpacedUse` in `SampleSources`). `AsSeen` and `Overlooking` are the exceptions
  that `VerdictIsTheTrees` and `MeansItsSource` make for this; without them the runs
  `syntax` and `vm` show it.
* A `select` of `:offset` or `:percent` that is given by a variable is ignored when the
  call is resolved: its value selects by the number and nothing is reported
  (`rt/builtin.rs:962-1013`). Selecting on the call itself matches no key and reports a
  `BadOption`, unless the variable was a fallback (`rt/builtin.rs:896-908`). So a
  `.local` in between changes the result. `IgnoresSelect` is this case of
  `SelectOfCallIsProjection`.
* The comment at `cc/lowering.rs:557`, that errors of selectors abort, is out of
  date: the VM reports `BadSelector` and takes the default.
* A diagnostic of `InvalidVariantKey` or `DuplicateMessageId` carries no message and
  is shown without one; one of markup shows only the message's origin; a fault in a
  resource entry without a location has no context or that of another entry of its
  id. After a refused `add` a builder may go on and compile what it has.
* Without `manifest.toml` the language server analyses a message against an empty
  manifest, so that every function is unknown, and a resource against none
  (`lsp/analysis.rs:116`).
* The server finds variables and declarations without the parser. White space or a CR
  at the end of a declaration's line is taken for white space before its keyword
  (`lsp/scanner.rs:138`, `:164`), so the name is looked for too far right: of
  `.local $b-1 = {1} ` it finds `-1`, and a name of one letter not at all. A declaration
  whose `$` is on the next line and all but the first of a line are not found; a `$` in
  text, in a literal or in what the parser drops counts; so does a line of a body that
  starts like a declaration, or a line with `.inputx`; names end at a dot or a letter
  outside ASCII. `IsPlain` in
  `Scanner` excludes these texts, and `DefinitionsAreDeclared` and `ReferencesAreTheUses`
  say nothing about them; one content of the run is such a text, and with the part of
  `IsPlain` that is about lines taken out the first is violated. Places count characters, not UTF-16 units; the
  list of references has the declaration twice, so answers are compared as sets; a
  request of an unknown method or without valid parameters is never answered; of a
  change only the first content is applied.
* The parser reads more than the grammar writes: no space before an annotation,
  malformed attributes and trailing text dropped after a variable's function or in an
  `.input`, markup with trailing text split in two, `{/|x|}` and `{#$a}` without their
  sign, an unclosed literal `{|}|}`, attributes without a space, broad unquoted
  tokens, a variant's expression past `}}`. And less: braces in quoted literals
  (`cs/literal.rs:74`), an escaped brace in a variant, variants `other other` beside
  `* *`, the pattern `{{.}}`, bidi controls after `$`, function names that start with
  `_` or a letter outside ASCII. The `Grammar` leaves these forms out, so `syntax`
  says nothing about them.

## 7. Not modelled

* The command line, the JSON and TOML readers, the conformance harness, benches and
  tools: input and output around the library. A resource is modelled from the
  messages a reader yields.
* Rendering of diagnostics (`error.rs` layout): formatting without decisions; which
  message and source it shows is modelled.
* What ICU computes (number, date and currency formats, plural rules, locale data)
  and the fallback chains of locales: external libraries.
* Default isolation of placeholders, source spans and origins within a source,
  UTF-8 validation, `Invalid*Id` traps, exponents in number literals.
* A handle used with a formatter of other catalogs: documented misuse.
* The order of answers and notifications that a server writes to one connection: both
  leave in the order of its steps, nothing in the code reorders them.

One hazard has no property: what a sink has received when a call ends in an error
(`rt/vm.rs:1217`). The code promises nothing about it; the model keeps the output.

## 8. What is left to do

Proofs: nothing is planned beyond section 5.

Models: the default isolation of placeholders, and the server for the texts that
`IsPlain` excludes once its scanner agrees with the parser.
