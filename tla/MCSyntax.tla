------------------------------ MODULE MCSyntax ------------------------------
(* Messages of a few pieces for the model checker.                          *)
EXTENDS Writing

LOCAL a == <<"a">>
LOCAL b == <<"b">>
LOCAL c == <<"long", "-", ".">>
LOCAL one    == <<"1">>
LOCAL quoted == <<"|", "\\", "|", " ", "@", "|">>

LOCAL Opt(name, var, text) == [name |-> name, value |-> [var |-> var, text |-> text]]
LOCAL F(options) == [name |-> <<"e">>, options |-> options]
LOCAL G(options) == [name |-> <<"e", ":", "b">>, options |-> options]
LOCAL Input(expr) == [kind |-> "input", expr |-> expr]
LOCAL Local(name, expr) == [kind |-> "local", name |-> name, expr |-> expr]
LOCAL MarkupOf(kind, options) ==
    [node |-> "Markup", name |-> b, options |-> options, kind |-> kind]

MCDeclarations ==
    {Input(CallNode(a, F(<<>>))), Input(VarNode(b)),
     Input(CallNode(c, G(<<Opt(a, FALSE, one)>>))),
     Local(b, VarNode(a)), Local(c, VarNode(b)),
     Local(b, CallNode(a, F(<<Opt(b, TRUE, c)>>))),
     Local(a, LiteralNode(one, F(<<Opt(a, TRUE, b), Opt(a, FALSE, one)>>))),
     Local(a, LiteralNode(<<>>, F(<<Opt(a, TRUE, a)>>)))}

MCNames == {a, b, c}

LOCAL Any == Key("default", <<>>)
LOCAL Text(text) == TextSegment(text)
LOCAL Expr(payload) == [segment |-> "Expression", payload |-> payload]
LOCAL Variant(keys, segments) == [keys |-> keys, segments |-> segments]

MCVariants ==
    {Variant(<<Any>>, <<Text(a)>>), Variant(<<Key("plain", a)>>, <<Expr(VarNode(a))>>),
     Variant(<<Key("quoted", a)>>, <<>>),
     Variant(<<Any, Any>>, <<Expr(VarNode(b)), Text(<<".", " ">>)>>),
     Variant(<<Any, Key("plain", one)>>, <<Text(<<"@", "|">>)>>),
     Variant(<<Key("quoted", <<" ", "{">>), Any>>, <<Expr(MarkupOf("Open", <<>>))>>)}

MCSegments ==
    {Text(<<"a", "\\", "{", "|", "@">>), Text(<<" ", "\\", "\\">>),
     Expr(VarNode(c)), Expr(LiteralNode(quoted, NoFunction)),
     Expr(LiteralNode(<<"-", "1", ".", "0">>, F(<<Opt(b, TRUE, b)>>))),
     Expr(LiteralNode(<<>>, G(<<Opt(a, FALSE, quoted), Opt(b, FALSE, one)>>))),
     Expr(CallNode(a, F(<<Opt(a, TRUE, c), Opt(b, FALSE, one), Opt(a, TRUE, b)>>))),
     Expr(MarkupOf("SelfClose", <<Opt(a, TRUE, a)>>)),
     Expr(MarkupOf("Close", <<Opt(a, FALSE, one), Opt(a, FALSE, quoted)>>))}

MCLayouts ==
    {[gap |-> <<" ">>, pad |-> <<>>, line |-> <<>>, mark |-> <<>>, quoted |-> FALSE],
     [gap |-> <<"\r", "\n">>, pad |-> <<>>, line |-> <<"\n">>, mark |-> <<"bidi">>, quoted |-> TRUE],
     [gap |-> <<" ", "\n">>, pad |-> <<" ">>, line |-> <<" ", "bidi">>,
      mark |-> <<"bidi">>, quoted |-> TRUE]}

LOCAL Special == {"a", ".", "\\", "{", "}", "|", " ", "match", "bidi", "@"}
MCPlainTexts == {<<>>} \union [1..1 -> Special] \union [1..2 -> Special] \union [1..3 -> Special]
=============================================================================
