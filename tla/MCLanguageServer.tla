-------------------------- MODULE MCLanguageServer --------------------------
(* An editor with a message and a resource file open.                        *)
EXTENDS LanguageServer

LOCAL Joined(lines) ==
    LET from[n \in 1..Len(lines)] ==
            IF n = Len(lines) THEN lines[n] ELSE lines[n] \o <<"\n">> \o from[n + 1]
    IN from[1]
LOCAL Text(text) == [text |-> text, entries |-> <<>>]

LOCAL Called == <<"{", "$", "a", " ", ":", "e", "}">>

\* .input {$a :e} / " ".local $b-1 = {$a :e e=$a} / {{long {$b-1}{$a}}}
LOCAL Complete == Joined(
    << <<".", "input", " ">> \o Called,
       <<" ", ".", "local", " ", "$", "b", "-", "1", "=", "{", "$", "a", " ",
         ":", "e", " ", "e", "=", "$", "a", "}">>,
       <<"{", "{", "long", "{", "$", "b", "-", "1", "}", "{", "$", "a", "}", "}", "}">> >>)
\* .input {$a :e} / .match $a / * {{{#b e=$a /}}}
LOCAL Matched == Joined(
    << <<".", "input", " ">> \o Called, <<".", "match", " ", "$", "a">>,
       <<"*", "{", "{", "{", "#", "b", " ", "e", "=", "$", "a", " ", "/", "}", "}", "}">> >>)
\* Not one: .input {$a :e} / {{ {$ }}
LOCAL Unfinished == Joined(<< <<".", "input", " ">> \o Called,
                              <<"{", "{", " ", "{", "$", " ", "}", "}">> >>)

\* Not plain, though a message: a line that ends in a space, a "$" on the next line.
\* .input {$a :e}" " / .local / $b-1={$a} / {{{$b-1}}}
LOCAL Shifted == Joined(
    << <<".", "input", " ">> \o Called \o <<" ">>, <<".", "local">>,
       <<"$", "b", "-", "1", "=", "{", "$", "a", "}">>,
       <<"{", "{", "{", "$", "b", "-", "1", "}", "}", "}">> >>)

LOCAL Entry(id, text) == [id |-> id, text |-> text]
MCContents ==
    [message  |-> {Text(Complete), Text(Matched), Text(Unfinished), Text(Shifted)},
     resource |-> {[text    |-> <<"a", "=">> \o Matched \o <<"\n", "b", "=">> \o Unfinished,
                    entries |-> <<Entry("a", Matched), Entry("b", Unfinished)>>],
                   [text |-> Called, entries |-> None]}]

MCUris   == {"m.mf2", "r.mf2.toml"}
MCKindOf == [uri \in MCUris |-> IF uri = "m.mf2" THEN "message" ELSE "resource"]
MCPlaces == {Place(0, 10), Place(1, 8), Place(2, 5)}
MCManifests == {{<<"e">>}}

ASSUME PlainAssumption ==
    /\ IsPlain(Complete) /\ IsPlain(Matched)
    /\ ~Accepted(Unfinished)
    /\ Accepted(Shifted) /\ ~IsPlain(Shifted)
=============================================================================
