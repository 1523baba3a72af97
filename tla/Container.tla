----------------------------- MODULE Container ------------------------------
(***************************************************************************)
(* The catalog file: how it is read (runtime/catalog.rs), found sound or      *)
(* refused, and searched.  How it is written is Interning's.                   *)
(*                                                                         *)
(* A file is a sequence of cells.  A number, a tag, an opcode or a letter is   *)
(* one cell, so that offsets and lengths count cells where the file counts      *)
(* bytes.  Offsets count from 0.  Which error a refusal is, UTF-8, and what the *)
(* verifier says of control flow (Verifier) are left out.                       *)
(***************************************************************************)
EXTENDS Parts

\* Magic, major and minor version, flags, number of chunks, offset of the table.
Magic == 777
Major == 1
Minor == 0
HeaderLen == 6

\* A chunk's entry: its tag, offset, length, and an unused cell.
EntryLen == 4
STRS == 501
LITS == 502
MSGS == 503
CODE == 504
FUNC == 505
Tags == {STRS, LITS, MSGS, CODE, FUNC}

\* The instructions that refer to something, by what they refer to; any other is
\* left out but Halt.
OutSlice == 601
PushConst == 602
LoadArg == 603
CallFunc == 604
Halt == 605
Opcodes == {OutSlice, PushConst, LoadArg, CallFunc, Halt}
WidthOf(opcode) ==
    CASE opcode = Halt -> 1 [] opcode = OutSlice -> 3 [] OTHER -> 2

-----------------------------------------------------------------------------
\* The order of byte strings.
Less(a, b) ==
    \E k \in 1 .. Len(b) :
        /\ \A j \in 1 .. k - 1 : j <= Len(a) /\ a[j] = b[j]
        /\ k <= Len(a) => a[k] < b[k]

-----------------------------------------------------------------------------
(* Reading: every cell is looked at within the bounds found before. *)

Slice(cells, range) == SubSeq(cells, range.start + 1, range.end)

\* The chunk table, as ranges.
Entries(file) ==
    LET At(n) == file[6] + EntryLen * (n - 1)
        Entry(n) == [tag |-> file[At(n) + 1], start |-> file[At(n) + 2],
                     end |-> file[At(n) + 2] + file[At(n) + 3]]
    IN Numbered(Entry, file[5])

HeaderIsSound(file) ==
    /\ Len(file) >= HeaderLen
    /\ file[1] = Magic /\ file[2] = Major
    /\ file[6] + EntryLen * file[5] <= Len(file)

\* has_overlapping_chunks: sorted by where they start, which keeps the order of the
\* table among equals.
Overlapping(entries) ==
    \E a, b \in DOMAIN entries :
        /\ \/ entries[a].start < entries[b].start
           \/ entries[a].start = entries[b].start /\ a < b
        /\ entries[a].end > entries[b].start

\* Unknown tags are passed over, known ones occur once, and only LITS and FUNC may
\* be missing.
ChunksAreSound(file) ==
    LET entries == Entries(file)
        Tagged(tag) == {n \in DOMAIN entries : entries[n].tag = tag}
    IN /\ \A n \in DOMAIN entries :
             /\ entries[n].end <= Len(file)
             /\ entries[n].start >= file[6] + EntryLen * file[5]
       /\ \A tag \in Tags : Cardinality(Tagged(tag)) <= 1
       /\ ~Overlapping(entries)
       /\ \A tag \in {STRS, MSGS, CODE} : Tagged(tag) # {}

\* The cells of a chunk, None if there is none.
Body(file, tag) ==
    LET entries == Entries(file)
        tagged  == {n \in DOMAIN entries : entries[n].tag = tag}
    IN IF tagged = {} THEN None ELSE Slice(file, entries[CHOOSE n \in tagged : TRUE])

Pairs(cells, count) == Numbered(LAMBDA n : <<cells[2 * n], cells[2 * n + 1]>>, count)

\* A chunk that begins with the number of its pairs has them all.
HoldsPairs(body) == Len(body) >= 1 /\ 1 + 2 * body[1] <= Len(body)

\* decode_strings
StringsAreSound(body) ==
    /\ HoldsPairs(body)
    /\ \A pair \in ToSet(Pairs(body, body[1])) :
          pair[1] + pair[2] <= Len(body) - (1 + 2 * body[1])
DecodedStrings(body) ==
    LET letters == SubSeq(body, 2 + 2 * body[1], Len(body))
    IN Mapped(LAMBDA pair : SubSeq(letters, pair[1] + 1, pair[1] + pair[2]),
              Pairs(body, body[1]))

\* decode_funcs: where its entries end, one after the other, None when one does not
\* fit.
FuncEnds(body) ==
    LET end[n \in 0 .. body[1]] ==
          IF n = 0 THEN 1
          ELSE LET pos   == end[n - 1]
                   after == pos + 2 + 2 * body[pos + 2]
               IN IF pos = None \/ pos + 2 > Len(body) \/ after > Len(body) THEN None ELSE after
    IN end
DecodedFuncs(body) ==
    LET end == FuncEnds(body)
        Func(n) == [name    |-> body[end[n - 1] + 1],
                    options |-> Pairs(SubSeq(body, end[n - 1] + 2, end[n]), body[end[n - 1] + 2])]
    IN IF end[body[1]] = None THEN None ELSE Numbered(Func, body[1])
FuncsOf(file) ==
    LET body == Body(file, FUNC)
    IN IF body = None THEN <<>> ELSE IF body = <<>> THEN None ELSE DecodedFuncs(body)

\* decode_code_range
CodeIsSound(body) == Len(body) >= 1 /\ 1 + body[1] <= Len(body)

\* a mutant: a name may come twice.
DoesNotDescend(a, b) == ~Less(b, a)

\* validate_message_table: names are in the table, and strictly ascend.
Ascends(a, b) == Less(a, b)

MessageTableIsSound(entries, strings) ==
    /\ \A n \in DOMAIN entries : entries[n][1] < Len(strings)
    /\ \A n \in 2 .. Len(entries) :
          Ascends(strings[entries[n - 1][1] + 1], strings[entries[n][1] + 1])

\* validate_func_table
FuncTableIsSound(funcs, strings) ==
    \A func \in ToSet(funcs) :
        /\ func.name < Len(strings)
        /\ \A pair \in ToSet(func.options) : pair[1] < Len(strings) /\ pair[2] < Len(strings)

\* validate_instruction_operands, validate_literal_ref
OperandIsSound(catalog, pc) ==
    LET code    == catalog.code
        operand == code[pc + 2]
    IN CASE code[pc + 1] = OutSlice ->
              catalog.literals # None /\ operand + code[pc + 3] <= Len(catalog.literals)
         [] code[pc + 1] \in {PushConst, LoadArg} -> operand < Len(catalog.strings)
         [] code[pc + 1] = CallFunc -> operand < Len(catalog.funcs)
         [] OTHER -> TRUE

NextPc(catalog, pc) == pc + WidthOf(catalog.code[pc + 1])

InstructionIsSound(catalog, pc) ==
    /\ catalog.code[pc + 1] \in Opcodes
    /\ NextPc(catalog, pc) <= Len(catalog.code)
    /\ OperandIsSound(catalog, pc)

\* verify_code: where instructions begin, None if one is not sound.
Boundaries(catalog) ==
    LET from[pc \in 0 .. Len(catalog.code)] ==
          IF pc = Len(catalog.code) THEN {}
          ELSE IF ~InstructionIsSound(catalog, pc) THEN None
          ELSE LET rest == from[NextPc(catalog, pc)]
               IN IF rest = None THEN None ELSE {pc} \union rest
    IN from[0]

\* verify_code: every entry is the start of an instruction, and its path ends in Halt.
CodeIsVerified(catalog, starts) ==
    /\ starts # None
    /\ \A entry \in ToSet(catalog.entries) :
          entry[2] \in starts /\ \E end \in starts : end >= entry[2] /\ catalog.code[end + 1] = Halt

BodiesAreSound(strs, msgs, coded, funcs) ==
    StringsAreSound(strs) /\ HoldsPairs(msgs) /\ funcs # None /\ CodeIsSound(coded)

Decoded(strs, msgs, coded, literals, funcs) ==
    [strings |-> DecodedStrings(strs), literals |-> literals,
     entries |-> Pairs(msgs, msgs[1]), funcs |-> funcs,
     code |-> SubSeq(coded, 2, 1 + coded[1])]

\* A catalog whose tables, operands and entries are sound.
Verified(catalog) ==
    IF /\ MessageTableIsSound(catalog.entries, catalog.strings)
       /\ FuncTableIsSound(catalog.funcs, catalog.strings)
       /\ CodeIsVerified(catalog, Boundaries(catalog))
    THEN catalog ELSE None

\* Catalog::from_bytes: the catalog of a file, None if it is refused.
FromBodies(strs, msgs, coded, literals, funcs) ==
    IF BodiesAreSound(strs, msgs, coded, funcs)
    THEN Verified(Decoded(strs, msgs, coded, literals, funcs)) ELSE None
FromBytes(file) ==
    IF HeaderIsSound(file) /\ ChunksAreSound(file)
    THEN FromBodies(Body(file, STRS), Body(file, MSGS), Body(file, CODE), Body(file, LITS),
                    FuncsOf(file))
    ELSE None

-----------------------------------------------------------------------------
(* Looking up. *)

NameOf(catalog, n) == catalog.strings[catalog.entries[n][1] + 1]

Middle(range) == (range.low + range.high) \div 2

\* message_pc: a binary search over the entries.  One probe leaves this of a range.
Probed(catalog, id, range) ==
    LET name == NameOf(catalog, Middle(range))
    IN IF range.low > range.high \/ name = id THEN range
       ELSE IF Less(name, id) THEN [range EXCEPT !.low = Middle(range) + 1]
       ELSE [range EXCEPT !.high = Middle(range) - 1]

\* What is left after as many probes as there are entries, which are enough.
Searched(catalog, id) ==
    LET count == Len(catalog.entries)
        left[n \in 0 .. count] ==
          IF n = 0 THEN [low |-> 1, high |-> count] ELSE Probed(catalog, id, left[n - 1])
    IN left[count]

MessagePc(catalog, id) ==
    LET range == Searched(catalog, id)
    IN IF range.low > range.high THEN None ELSE catalog.entries[Middle(range)][2]

\* The search finds every entry under its name, and no other of the ids.
SearchFinds(catalog, ids) ==
    LET names == {NameOf(catalog, n) : n \in DOMAIN catalog.entries}
    IN /\ \A n \in DOMAIN catalog.entries :
             MessagePc(catalog, NameOf(catalog, n)) = catalog.entries[n][2]
       /\ \A id \in ids \ names : MessagePc(catalog, id) = None

\* string_id: the first text that is equal, None without one.
StringId(catalog, text) ==
    LET same == {n \in DOMAIN catalog.strings : catalog.strings[n] = text}
    IN IF same = {} THEN None ELSE (CHOOSE n \in same : \A k \in same : n <= k) - 1
=============================================================================
