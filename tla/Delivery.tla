------------------------------ MODULE Delivery ------------------------------
(***************************************************************************)
(* From the texts of messages to what is shown: builds (CatalogBuild), their  *)
(* files written and read (Container), the catalogs of several locales in a    *)
(* bundle (catalog.rs), the formatter over them (formatter.rs,                *)
(* runtime/formatter.rs), and the arguments it is given (args.rs).             *)
(*                                                                         *)
(* What a message does with its references is the VM's business (VM): here it  *)
(* shows them in their order, a function by its name and static options.        *)
(***************************************************************************)
EXTENDS CatalogBuild

CONSTANTS
    Chain,          \* external: from locales to their fallback chains
    HostLocales,    \* external: the locales the built-in host can be made for
    Ids,            \* the message ids that are asked for
    Given,          \* the arguments, as <<name, value>> in the order of insertion
    Damages,        \* what a number in a damaged file may become, by what it was
    DamagedLength,  \* bound: the messages of a catalog that is damaged
    MaxShipped      \* bound: the catalogs that are shipped

VARIABLES
    shipped,        \* [locale, catalog, messages], in the order of loading
    spare,          \* what a damaged file was read as, None without or if refused
    bundle,         \* [catalogs, candidates, locale, alone], None before; refused it has
                    \* no catalogs; alone is the catalog that is used without a bundle
    formatter,      \* [catalogs, indexes, host], None before; refused it has no host
    handle,         \* [id, slot, pc], None before; slot and pc are None if unknown
    shown           \* None until a message has been formatted

deliveryVars == <<shipped, spare, bundle, formatter, handle, shown>>
vars == <<buildVars, deliveryVars>>

-----------------------------------------------------------------------------
(* Arguments. *)

\* MessageArgs::insert, insert_id
Inserted(values, key, value) ==
    IF \E n \in DOMAIN values : values[n][1] = key
    THEN Mapped(LAMBDA pair : IF pair[1] = key THEN <<key, value>> ELSE pair, values)
    ELSE Append(values, <<key, value>>)

\* MessageArgs::resolve: a name that the catalog has no text for is left out.
Resolved(given, catalog) ==
    FoldLeft(LAMBDA values, pair :
               IF StringId(catalog, pair[1]) = None THEN values
               ELSE Inserted(values, StringId(catalog, pair[1]), pair[2]),
             <<>>, given)

\* Args::get_ref
ValueOf(values, key) ==
    LET of == {n \in DOMAIN values : values[n][1] = key}
    IN IF of = {} THEN None ELSE values[CHOOSE n \in of : TRUE][2]

-----------------------------------------------------------------------------
(* Running. *)

\* BuiltinHostCatalogIndex::new: the functions of one catalog as the host knows
\* them, by their texts.
HostIndex(catalog) ==
    LET Text(n)  == catalog.strings[n + 1]
        Entry(f) == [name |-> Text(f.name),
                     options |-> Mapped(LAMBDA pair : <<Text(pair[1]), Text(pair[2])>>,
                                        f.options)]
    IN Mapped(Entry, catalog.funcs)

Item(code, pc, catalog, index, values) ==
    LET operand == code[pc + 2]
    IN CASE code[pc + 1] = OutSlice ->
              SpanText(catalog.literals, [off |-> operand, len |-> code[pc + 3]])
         [] code[pc + 1] = PushConst -> catalog.strings[operand + 1]
         [] code[pc + 1] = LoadArg   -> ValueOf(values, operand)
         [] code[pc + 1] = CallFunc  -> index[operand + 1]

\* run_bytecode, for what is here of the code.
RECURSIVE Run(_, _, _, _)
Run(pc, catalog, index, values) ==
    IF catalog.code[pc + 1] = Halt THEN <<>>
    ELSE <<Item(catalog.code, pc, catalog, index, values)>>
           \o Run(pc + WidthOf(catalog.code[pc + 1]), catalog, index, values)

-----------------------------------------------------------------------------

\* The program builds, and between two builds it may open a bundle, once.
Building == bundle = None /\ spare = None
BetweenBuilds == Building /\ shipped # <<>> /\ sources = 0 /\ messages = <<>> /\ Open

\* Catalog::compile_inputs and its kin: compile, then read the file again.  The
\* next catalog is another build; as a bound, one that collects and has no manifest.
Ship(locale) ==
    /\ Building /\ ~Open /\ report.compiled
    /\ Len(shipped) < MaxShipped
    /\ shipped' = Append(shipped, [locale |-> locale, catalog |-> FromBytes(Encoded(messages)),
                                   messages |-> messages])
    /\ NewBuild(TRUE, None)
    /\ UNCHANGED <<added, spare, bundle, formatter, handle, shown>>

\* A file that is not as it was written: one number is another, or the end is
\* missing.
LoadDamaged ==
    /\ Building /\ ~Open /\ report.compiled /\ shipped = <<>>
    /\ Len(messages) = DamagedLength
    /\ \E file \in {Encoded(messages)} : \E n \in DOMAIN file :
          \/ \E value \in Damages[file[n]] : spare' = FromBytes([file EXCEPT ![n] = value])
          \/ spare' = FromBytes(SubSeq(file, 1, n - 1))
    /\ UNCHANGED <<buildVars, shipped, bundle, formatter, handle, shown>>

\* CatalogBundle::new: a slot for every candidate, and the last catalog of a locale
\* in its slot.
Slotted(catalogs, candidates) ==
    FoldLeft(LAMBDA slots, lc :
               LET at == {n \in DOMAIN candidates : candidates[n] = lc.locale}
               IN IF at = {} THEN slots
                  ELSE [slots EXCEPT ![CHOOSE n \in at : \A k \in at : n <= k] = lc.catalog],
             [n \in DOMAIN candidates |-> None], catalogs)

\* CatalogBundle::new, CatalogBundle::from_lookup when they have collected: without
\* a catalog they fail.
Bundled(slots, locale) ==
    [catalogs |-> SelectSeq(slots, LAMBDA catalog : catalog # None),
     candidates |-> Chain[locale], locale |-> locale, alone |-> None]

OpenBundle(locale) ==
    /\ BetweenBuilds
    /\ bundle' = Bundled(Slotted(shipped, Chain[locale]), locale)
    /\ UNCHANGED <<buildVars, shipped, spare, formatter, handle, shown>>

\* CatalogBundle::from_lookup: fetch, which gives the catalog loaded last for a
\* locale, is called for one candidate after the other until it fails.
LookUpBundle(locale) ==
    LET Fetched(candidate) ==
          LET of == {n \in DOMAIN shipped : shipped[n].locale = candidate}
          IN IF of = {} THEN None ELSE shipped[CHOOSE n \in of : \A k \in of : k <= n].catalog
    IN /\ BetweenBuilds
       /\ \/ bundle' = Bundled(Mapped(Fetched, Chain[locale]), locale)
          \/ bundle' = Bundled(<<>>, locale)
       /\ UNCHANGED <<buildVars, shipped, spare, formatter, handle, shown>>

\* Catalog::formatter_for_locale: one catalog, of whatever locale.
OpenAlone(locale) ==
    /\ BetweenBuilds
    /\ \E n \in DOMAIN shipped :
          bundle' = [Bundled(<<shipped[n].catalog>>, locale) EXCEPT !.alone = n]
    /\ UNCHANGED <<buildVars, shipped, spare, formatter, handle, shown>>

\* MessageFormatter::new: the host of the first candidate that has one; and
\* MultiFormatter::new, which has it index every catalog.
HostOf(candidates) ==
    LET made == SelectSeq(candidates, LAMBDA candidate : candidate \in HostLocales)
    IN IF made = <<>> THEN None ELSE made[1]
MakeFormatter ==
    /\ bundle # None /\ bundle.catalogs # <<>> /\ formatter = None
    /\ formatter' = [catalogs |-> bundle.catalogs,
                     indexes  |-> Mapped(HostIndex, bundle.catalogs),
                     host     |-> HostOf(bundle.candidates)]
    /\ UNCHANGED <<buildVars, shipped, spare, bundle, handle, shown>>

\* MultiFormatter::resolve: the first catalog that has the message.
Resolve(id) ==
    LET having == {n \in DOMAIN formatter.catalogs :
                      MessagePc(formatter.catalogs[n], id) # None}
        slot   == CHOOSE n \in having : \A k \in having : n <= k
    IN /\ formatter # None /\ formatter.host # None /\ handle = None
       /\ handle' = IF having = {} THEN [id |-> id, slot |-> None, pc |-> None]
                    ELSE [id |-> id, slot |-> slot,
                          pc |-> MessagePc(formatter.catalogs[slot], id)]
       /\ UNCHANGED <<buildVars, shipped, spare, bundle, formatter, shown>>

\* MessageFormatter::format
Format ==
    LET catalog == formatter.catalogs[handle.slot]
    IN /\ handle # None /\ shown = None
       /\ handle.slot # None
       /\ shown' = Run(handle.pc, catalog, formatter.indexes[handle.slot], Resolved(Given, catalog))
       /\ UNCHANGED <<buildVars, shipped, spare, bundle, formatter, handle>>

Init ==
    /\ BuildInit
    /\ shipped = <<>> /\ spare = None /\ bundle = None /\ formatter = None
    /\ handle = None /\ shown = None

Next ==
    \/ Building /\ BuildNext /\ UNCHANGED deliveryVars
    \/ \E locale \in DOMAIN Chain :
          Ship(locale) \/ OpenBundle(locale) \/ LookUpBundle(locale) \/ OpenAlone(locale)
    \/ LoadDamaged
    \/ MakeFormatter
    \/ \E id \in Ids : Resolve(id)
    \/ Format

Spec == Init /\ [][Next]_vars

-----------------------------------------------------------------------------
(* Builds. *)

\* A build compiles exactly what is permitted: no input was refused (where it
\* collects), no id comes twice, no literal is unknown, the manifest permits every
\* call wherever its value goes, and the options can be counted.  In particular
\* lowering never misses a text or a function in the tables.
CompiledIsPermitted ==
    ~Open =>
        (report.compiled <=>
           /\ build.collect => errors = <<>>
           /\ \A n, k \in DOMAIN messages : messages[n].id = messages[k].id => n = k
           /\ \A message \in ToSet(messages) :
                 /\ LiteralsKnown(message) /\ FitsOptionCount(message)
                 /\ build.manifest # None => Permitted(build.manifest, message))

\* A diagnostic that shows a message shows the one at fault, or another of its id in
\* the same source, never one of another source; and it shows one whenever the error
\* names its message and that came from a source.
ContextIsTheFaultys ==
    ~Open => \A found \in ToSet(report.diagnostics) :
        found.of # None =>
            LET faulty == messages[found.of]
            IN /\ found.context # None =>
                     LET meant == messages[found.context.message]
                     IN /\ meant.id = faulty.id
                        /\ meant.origin = found.context.source
                        /\ faulty.origin \in {None, meant.origin}
               /\ (faulty.origin # None /\ found.error \notin
                      {"DuplicateMessageId", "InvalidVariantKey"}) => found.context # None

-----------------------------------------------------------------------------
(* Files and bundles. *)

\* A file that is accepted, damaged or not, has every message under its name and no
\* other, and every message can be shown from it, to its end.  What a build has
\* compiled is accepted.
LoadedTablesAreSound ==
    /\ \A n \in DOMAIN shipped :
          shipped[n].catalog # None /\ SearchFinds(shipped[n].catalog, Ids)
    /\ spare # None =>
          /\ SearchFinds(spare, Ids)
          /\ \A entry \in ToSet(spare.entries) :
                Len(Run(entry[2], spare, HostIndex(spare), <<>>)) < Len(spare.code)

\* What a message says: its literals and texts, its arguments by name, and its
\* functions by name and static options.
ValueNamed(name) ==
    LET of == {n \in DOMAIN Given : Given[n][1] = name}
    IN IF of = {} THEN None ELSE Given[CHOOSE n \in of : \A k \in of : k <= n][2]
Said(message) ==
    Mapped(LAMBDA ref :
             CASE ref.to \in {"literal", "text"} -> ref.text
               [] ref.to = "arg" -> ValueNamed(ref.text)
               [] ref.to = "function" ->
                    [name    |-> ref.key.name,
                     options |-> Mapped(LAMBDA option : <<option.key, option.text>>,
                                        StaticOptions(ref.key))],
           References(message.parts, {}))

\* The catalogs that have a message: the one that is used alone, or of every locale of
\* the chain the last that was loaded.
Having(id) ==
    {n \in DOMAIN shipped :
        /\ \E message \in ToSet(shipped[n].messages) : message.id = id
        /\ IF bundle.alone # None THEN n = bundle.alone
           ELSE /\ shipped[n].locale \in ToSet(bundle.candidates)
                /\ \A k \in n + 1 .. Len(shipped) : shipped[k].locale # shipped[n].locale}
PlaceOf(n) ==
    CHOOSE k \in DOMAIN bundle.candidates : bundle.candidates[k] = shipped[n].locale

\* The message that is shown is the one of the most specific locale that has it, as
\* it was compiled and with the arguments of its names, and none is found only if no
\* locale of the chain has it.
ShownIsTheMostSpecific ==
    handle # None =>
        LET having == Having(handle.id)
            best   == CHOOSE n \in having : \A k \in having \ {n} : PlaceOf(n) < PlaceOf(k)
        IN IF having = {} THEN handle.slot = None
           ELSE /\ handle.slot # None
                /\ shown # None => \E message \in ToSet(shipped[best].messages) :
                                      message.id = handle.id /\ shown = Said(message)
=============================================================================
