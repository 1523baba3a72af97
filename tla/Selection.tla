----------------------------- MODULE Selection ------------------------------
(***************************************************************************)
(* The selects built for a .match, walked with what the selectors resolve   *)
(* to, against the rule for the best variant.                               *)
(***************************************************************************)
EXTENDS Matching

CONSTANT Tables     \* the matches: [selectors, arms]
CONSTANT Outcomes   \* what a slot may resolve to: [text, category]
CONSTANT Build(_, _, _, _, _)   \* build_nested_match_ir, with its recursion

\* No pattern has a select in it (pattern.rs).
ASSUME TablesAssumption ==
    \A t \in Tables :
      /\ Len(t.selectors) \in Nat \ {0} /\ Len(t.arms) \in Nat
      /\ \A k \in 1..Len(t.selectors) :
           t.selectors[k].mode \in {"text", "plural", "exact", "dynamic", "projected"}
      /\ IsTable(t.selectors, t.arms)
      /\ \A n \in 1..Len(t.arms) :
           Len(t.arms[n].parts) = 1 => t.arms[n].parts[1].part # "Select"

VARIABLES
    table,   \* the match
    on,      \* what the slots of its selectors resolve to
    at       \* the parts to be executed

vars == <<table, on, at>>

Init ==
    /\ table \in Tables
    /\ on \in [{table.selectors[k].slot : k \in 1..Len(table.selectors)} -> Outcomes]
    /\ at = Dispatch(Build, table.selectors, table.arms)

IsSelect == Len(at) = 1 /\ at[1].part = "Select"

\* A projected selector is compared with keys by its category.
Fits(select, key) ==
    LET v == on[select.selector.id] IN
    key = IF select.selector.on = "Projected" THEN v.category ELSE v.text

\* CaseStr: the first case that fits.
TakeCase ==
    /\ IsSelect
    /\ \E n \in 1..Len(at[1].arms) :
         /\ Fits(at[1], at[1].arms[n].key)
         /\ \A m \in 1..(n - 1) : ~Fits(at[1], at[1].arms[m].key)
         /\ at' = at[1].arms[n].parts
    /\ UNCHANGED <<table, on>>

\* CaseDefault
TakeDefault ==
    /\ IsSelect
    /\ \A n \in 1..Len(at[1].arms) : ~Fits(at[1], at[1].arms[n].key)
    /\ at' = at[1].default
    /\ UNCHANGED <<table, on>>

Next == TakeCase \/ TakeDefault
Spec == Init /\ [][Next]_vars

\* Build recurs as BuildNested says: from level to level, until the last.
Recurs ==
    \A t \in Tables :
      \A level \in 1..(Len(t.selectors) + 1), candidates \in SUBSET (1..Len(t.arms)) :
        \A fallback :
          Build(t.selectors, t.arms, level, candidates, fallback)
            = BuildNested(Build, t.selectors, t.arms, level, candidates, fallback)

-----------------------------------------------------------------------------
(* Properties. *)

FitOf(arm) ==
    [k \in 1..Len(table.selectors) |->
       LET v == on[table.selectors[k].slot] IN
       Fit(table.selectors[k], LAMBDA key : key = v.text, LAMBDA key : key = v.category,
           arm.keys[k])]

BestArms == Best([n \in 1..Len(table.arms) |-> FitOf(table.arms[n])])

\* Whatever the selectors resolve to, the walk ends in the variant whose keys all
\* fit, and fit best by the first selector, then the second and so on: a branch
\* whose later keys do not fit falls back to the best of the others
\* (build_nested_match_ir).
BestVariantIsSelected ==
    ~IsSelect => \E n \in BestArms : at = table.arms[n].parts
=============================================================================
