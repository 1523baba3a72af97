----------------------------- MODULE MCSelection ----------------------------
(* Small match tables for the model checker. *)
EXTENDS Selection, Frontend

One == 1
Many == 2
Text1 == 3
MCNumberKeys == {One}
MCCategories == {Many}

Modes(modes) == [n \in 1..Len(modes) |-> Matched(n - 1, 0, modes[n])]

\* Variants with these keys, in every order but the default first or last, each a
\* text of its own.
Arms(rows)    == [n \in 1..Len(rows) |-> MatchArm(rows[n], <<Text(n)>>)]
Rows(keys, count, most) ==
    {s \in UNION {[1..n -> [1..count -> keys]] : n \in 1..most} :
       /\ IsInjective(s)
       /\ [k \in 1..count |-> Star] \in {s[1], s[Len(s)]}}

TablesOf(modes, keys, most) ==
    {t \in {[selectors |-> Modes(modes), arms |-> Arms(rows)] :
              rows \in Rows(keys, Len(modes), most)} : IsTable(t.selectors, t.arms)}

MCTables ==
    TablesOf(<<"plural", "plural">>, {One, Many, Star}, 4)
      \cup TablesOf(<<"plural", "text">>, {One, Many, Star}, 3)
      \cup TablesOf(<<"projected", "plural">>, {One, Many, Star}, 3)
      \cup TablesOf(<<"exact", "dynamic">>, {One, Star}, 4)
      \cup TablesOf(<<"text", "plural", "projected">>, {One, Star}, 4)
MCOutcomes == [text : {One, Text1}, category : {Many, One}]

\* Falling back does not copy variants: in the code of the match each variant is
\* lowered exactly once, because a branch that ends where an enclosing default
\* begins jumps to it (lower_parts_inner).
EachVariantOnce ==
    at = Dispatch(Build, table.selectors, table.arms) =>
      LET code == LowerParts(at, <<1>>, <<>>, 0) IN
      \A n \in 1..Len(table.arms) :
        Cardinality({k \in 1..Len(code) :
                       code[k].op = "OutSlice" /\ code[k].id = table.arms[n].parts[1].id}) = 1
=============================================================================
