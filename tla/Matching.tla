------------------------------ MODULE Matching ------------------------------
(***************************************************************************)
(* From the variants of a .match to nested selects                          *)
(* (compiler/compile/frontend: matching.rs, raw_match.rs).                  *)
(*                                                                         *)
(* A select looks at one selector.  Each of its arms goes on with the        *)
(* variants that have the arm's key, and if the selectors after it fit none *)
(* of these, with what this select would have done without that key: such a *)
(* continuation is the same tree of parts as the select's default.          *)
(***************************************************************************)
EXTENDS MessageParts, Integers, Sequences, FiniteSets

CONSTANTS NumberKeys,   \* the keys that are number literals
          Categories    \* the keys that name a plural category

Star == -1

\* A selector is a declaration's slot and how its values are compared with keys:
\* "text" for an optionless :string, "plural", "exact" and "dynamic" for built-in
\* numeric functions (builtin_numeric_selector_mode), "projected" for any other.
Matched(slot, fn, mode)    == [slot |-> slot, fn |-> fn, mode |-> mode]
MatchArm(keys, parts)      == [keys |-> keys, parts |-> parts]

\* validate_builtin_selector_variant_keys
KeyFits(selector, key) ==
    \/ key = Star \/ key \in NumberKeys
    \/ selector.mode \in {"plural", "dynamic"} /\ key \in Categories
    \/ selector.mode \in {"text", "projected"}

\* validate_match_arms and validate_no_duplicate_variant_tuples
IsTable(selectors, arms) ==
    /\ \E n \in 1..Len(arms) : \A k \in 1..Len(selectors) : arms[n].keys[k] = Star
    /\ \A m, n \in 1..Len(arms) : arms[m].keys = arms[n].keys => m = n
    /\ \A n \in 1..Len(arms), k \in 1..Len(selectors) : KeyFits(selectors[k], arms[n].keys[k])

-----------------------------------------------------------------------------
\* Mutant: numbers too are looked for in what is projected.
SelectorForProjects(selector, arms) ==
    IF selector.mode \in {"projected", "plural"} /\ arms # <<>>
      THEN ProjectedSelector(selector.slot, selector.fn)
      ELSE CheckedSelector(selector.slot)

\* emit_selector_start for a local that was checked: a category, or what a
\* function that is not built in selects on, is projected from the value; numbers
\* and strings are compared as they are.
SelectorFor(selector, arms) ==
    IF \/ selector.mode = "projected"
       \/ /\ selector.mode = "plural"
          /\ arms # <<>>
          /\ \A n \in 1..Len(arms) : arms[n].key \notin NumberKeys
      THEN ProjectedSelector(selector.slot, selector.fn)
      ELSE CheckedSelector(selector.slot)

\* Stands for a missing fallback and for CompileError::invalid_expr.
InvalidExpr == <<[part |-> "InvalidExpr"]>>

\* Among the candidates, those with this key.
Having(arms, candidates, level, key) == {n \in candidates : arms[n].keys[level] = key}

KeysOf(arms, candidates, level) == {arms[n].keys[level] : n \in candidates} \ {Star}

\* The wanted keys, each once, in the order of the candidates.
KeysInOrder(arms, candidates, level, wanted) ==
    LET IsFirst(n) == /\ n \in candidates
                      /\ arms[n].keys[level] \in wanted
                      /\ \A m \in candidates : m < n => arms[m].keys[level] # arms[n].keys[level]
        upto[n \in 0..Len(arms)] ==
          IF n = 0 THEN <<>>
          ELSE IF IsFirst(n) THEN Append(upto[n - 1], arms[n].keys[level]) ELSE upto[n - 1]
    IN upto[Len(arms)]

\* The select that looks for these keys, and goes on as missing has it without
\* them.
SelectAmong(Rest(_, _, _, _, _), selectors, arms, level, candidates, wanted, missing) ==
    LET keys     == KeysInOrder(arms, candidates, level, wanted)
        branches == [n \in 1..Len(keys) |->
                       Arm(keys[n], Rest(selectors, arms, level + 1,
                                         Having(arms, candidates, level, keys[n]), missing))]
    IN <<SelectPart(SelectorFor(selectors[level], branches), branches, missing)>>

\* One level of build_nested_match_ir, of which build_leaf_match_ir is the last,
\* and build_numeric_match_ir: numbers are tried first, then categories.
BuildLevel(Rest(_, _, _, _, _), selectors, arms, level, candidates, fallback) ==
    LET default     == Rest(selectors, arms, level + 1, Having(arms, candidates, level, Star),
                            fallback)
        keys        == KeysOf(arms, candidates, level)
        Select(wanted, missing) ==
          SelectAmong(Rest, selectors, arms, level, candidates, wanted, missing)
    IN IF selectors[level].mode # "plural" \/ keys \subseteq NumberKeys THEN Select(keys, default)
       ELSE IF keys \cap NumberKeys = {} THEN Select(keys, default)
       ELSE Select(keys \cap NumberKeys, Select(keys \ NumberKeys, default))

\* build_nested_match_ir.  candidates are the arms that fit so far; Rest is the
\* function itself, for the selectors after this one.
BuildNested(Rest(_, _, _, _, _), selectors, arms, level, candidates, fallback) ==
    IF candidates = {} THEN fallback
    ELSE IF level > Len(selectors)
      THEN arms[CHOOSE n \in candidates : \A m \in candidates : n <= m].parts
    ELSE BuildLevel(Rest, selectors, arms, level, candidates, fallback)

\* lower_raw_match_ir: every selector but an optionless :string is checked once,
\* before any is looked at.
Dispatch(Build(_, _, _, _, _), selectors, arms) ==
    Build(selectors, arms, 1, 1..Len(arms), InvalidExpr)

MatchParts(Build(_, _, _, _, _), selectors, arms) ==
    LET checked == SelectSeq(selectors, LAMBDA s : s.mode # "text")
    IN [n \in 1..Len(checked) |-> CheckPart(checked[n].slot)] \o Dispatch(Build, selectors, arms)

-----------------------------------------------------------------------------
(* The rule for the best variant.  A fitness has one number per selector:   *)
(* 1 where the value itself is the key, 2 where a category or a projected    *)
(* value is, 3 for *, and 0 where the key does not fit.                     *)

\* is(key): the value is the key; projects(key): what is projected from it is.
Fit(selector, is(_), projects(_), key) ==
    CASE key = Star -> 3
      [] key # Star /\ (selector.mode \in {"text", "exact", "dynamic"} \/ key \in NumberKeys)
                    /\ selector.mode # "projected" -> IF is(key) THEN 1 ELSE 0
      [] OTHER -> IF projects(key) THEN 2 ELSE 0

\* The earlier selectors count for more.
BetterFit(f, g) ==
    \E k \in 1..Len(f) : f[k] < g[k] /\ \A j \in 1..(k - 1) : f[j] = g[j]

\* The best of a sequence of fitnesses.
Best(fitness) ==
    LET fitting == {n \in 1..Len(fitness) : \A k \in DOMAIN fitness[n] : fitness[n][k] # 0}
    IN {n \in fitting : \A m \in fitting : ~BetterFit(fitness[m], fitness[n])}
=============================================================================
