---------------------------- MODULE MCDelivery -----------------------------
(* Messages, manifests and locales for the model checker: texts are short sequences *)
(* of letters, so that orders and prefixes of them differ.                          *)
EXTENDS Delivery, TLC

\* Message ids: by length the third would come before the second.
LOCAL A == <<1>>
LOCAL B == <<1, 2>>
LOCAL C == <<2>>
MCIds == {A, B, C}

\* Functions, option keys, option texts and argument names.
LOCAL number == <<10>>
LOCAL string == <<11>>
LOCAL f      == <<12>>
LOCAL g      == <<12, 1>>
LOCAL select == <<13>>
LOCAL style  == <<14>>
LOCAL exact  == <<15>>
LOCAL plural == <<16>>
LOCAL n      == <<3>>
LOCAL m      == <<3, 3>>

MCKnown ==
    [string |-> string, select |-> select, plurals |-> {}, numbers |-> {number},
     keywords |-> {plural}]
MCLiteralDomain == (<<number, select>> :> {exact, plural})
MCKeyTexts == [number |-> {<<48>>, <<49>>}, word |-> {<<4>>, plural}]

MCGiven == <<<<m, <<7>>>>, <<n, <<8>>>>, <<A, <<9>>>>, <<m, <<5>>>>>>

-----------------------------------------------------------------------------

LOCAL Of(name, options, s) == FunctionSpec(name, options, s)
LOCAL Show(operand, func) == Call(operand, func, None)

\* Literals, two of a length and one of them twice, around an argument.
LOCAL Texts(s) ==
    <<TextPart(<<5, 6>>), VarPart(m), LiteralPart(<<6, 5>>), TextPart(<<5, 6>>), VarPart(n),
      TextPart(<<>>)>>

\* Functions whose place in the table depends on what is before them, nested and
\* with options of every kind.
LOCAL Calls(s) ==
    <<Show(CallOperand(Show(NumberOperand(<<48>>),
                            Of(number, <<LiteralOption(select, exact)>>, s))),
           Of(g, <<LiteralOption(style, <<4>>), VarOption(select, m)>>, s)),
      Show(VarOperand(n), Of(string, <<>>, s)),
      Show(VarOperand(m), Of(number, <<>>, s))>>

\* A match on a declared value, whose inner default is the outer one's.
LOCAL Match(s) ==
    LET default == <<TextPart(<<6>>), MarkupPart(g, <<VarOption(style, n)>>)>>
    IN <<BindPart(0, VarFallback(n), Show(VarOperand(n), Of(number, <<>>, s))),
         SelectPart(CheckedSelector(0, Of(number, <<>>, s)),
                    <<SelectArm(<<48>>,
                        <<SelectPart(CallSelector(VarOperand(m), Of(f, <<>>, s)),
                                     <<SelectArm(<<4>>, <<LocalPart(0)>>)>>, default)>>)>>,
                    default)>>

\* A function that the manifest has only for formatting, selected on behind two
\* declarations that rename it.
LOCAL Renamed(s) ==
    <<BindPart(0, VarFallback(n), Show(StringOperand(<<4>>), Of(f, <<>>, s))),
      BindPart(1, VarFallback(m), LocalPart(0)),
      BindPart(2, VarFallback(A), LocalPart(1)),
      SelectPart(LocalSelector(2, None), <<SelectArm(plural, <<>>)>>, <<TextPart(<<5>>)>>)>>

LOCAL Unknown(s) ==
    <<Show(VarOperand(n), Of(number, <<LiteralOption(select, <<4>>)>>, s))>>
LOCAL TwoOptions(s) ==
    <<Show(StringOperand(<<>>), Of(g, <<VarOption(style, n), ResolvedOption(select, m, <<4>>)>>, s))>>

LOCAL MaxSource == 3
LOCAL Input(id, located, Written(_)) ==
    [id |-> id, located |-> located, body |-> [s \in 0 .. MaxSource |-> Written(s)]]
LOCAL Malformed == [id |-> B, located |-> TRUE, body |-> None]

MCInputs == {Input(A, TRUE, Texts), Input(C, TRUE, Calls), Input(B, TRUE, Match),
             Input(A, TRUE, Unknown), Malformed}
MCResources == {<<Input(A, FALSE, Unknown), Malformed, Input(C, TRUE, Texts)>>,
                <<Input(C, TRUE, Calls), Input(B, FALSE, Match), Input(A, TRUE, Texts)>>}
MCStructured == {Message(C, Renamed(None), None), Message(A, Renamed(0), 0),
                 Message(B, TwoOptions(None), 1)}

LOCAL Schema(formats, selects, operand, keys, open, options) ==
    [formats |-> formats, selects |-> selects, operand |-> operand, keys |-> keys,
     open |-> open, options |-> options]
LOCAL NoOptions == [key \in {} |-> None]
MCManifests ==
    {None,
     (number :> Schema(TRUE, TRUE, "number", "number", FALSE,
                       (select :> [value |-> "literal", required |-> FALSE])))
       @@ (f :> Schema(TRUE, FALSE, "any", "any", TRUE, NoOptions))
       @@ (string :> Schema(TRUE, TRUE, "any", "any", FALSE, NoOptions))
       @@ (g :> Schema(TRUE, FALSE, "any", "any", TRUE,
                       (style :> [value |-> "either", required |-> TRUE]))),
     (number :> Schema(TRUE, TRUE, "any", "any", TRUE, NoOptions))
       @@ (f :> Schema(TRUE, TRUE, "string", "word", FALSE, NoOptions))
       @@ (string :> Schema(TRUE, TRUE, "any", "any", FALSE, NoOptions))
       @@ (g :> Schema(TRUE, TRUE, "any", "any", FALSE,
                       (select :> [value |-> "variable", required |-> FALSE])
                         @@ (style :> [value |-> "either", required |-> FALSE])))}

-----------------------------------------------------------------------------

MCChain == ("de-AT" :> <<"de-AT", "de", "und">>) @@ ("de" :> <<"de", "und">>)
             @@ ("fr" :> <<"fr", "und">>)
MCHostLocales == {"de", "de-AT"}

MCDamages == [cell \in 0 .. 999 |-> {0, cell + 1} \ {cell}]
=============================================================================
