----------------------------- MODULE MCFanPage -----------------------------
(***************************************************************************)
(* Templates for model checking FanPage, each with the page it stands for: *)
(* on when the conditions in it hold, off when they do not.                *)
(***************************************************************************)
EXTENDS FanPage

Raw(s) == [i \in 1..Len(s) |-> <<"raw", s[i]>>]
Piece(s, on, off) == [src |-> s, on |-> on, off |-> off]
Shown(s) == Piece(s, Raw(s), Raw(s))
Silent(s) == Piece(s, <<>>, <<>>)
Gives(s, t) == Piece(s, t, t)
Then(p, q) == Piece(p.src \o q.src, p.on \o q.on, p.off \o q.off)
Between(a, p, z) == Then(Shown(a), Then(p, Shown(z)))

Core == {
    Shown(<<"x", " ">>), Gives(<<"@:", "v", ";">>, <<<<"enc", "v">>>>),
    Gives(<<"@*", "x", "}", "*@", " ">>, Raw(<<" ">>)),
    Silent(<<"@{", "f", "(", "a", ",", " ", "\"", "\\", "\"", "}", "\"", ")", ";", "}">>)}
Leaves == Core \cup {
    Shown(<<"<", "br", ">">>), Shown(<<"part", " ">>), Shown(<<"\"", "{", "\n">>),
    Gives(<<"@::", "v", ";">>, Raw(<<"v">>)),
    Gives(<<"@get", "(", "k", ")">>, <<<<"enc", "k">>>>),
    Gives(<<"@body", "\n">>, <<<<"body", "B">>, <<"raw", "\n">>>>),
    Silent(<<"@**", "x", "\n">>)}

Partial == Gives(<<"@>", "part", ";">>, <<<<"@>", "part">>>>)

Directives == {
    Silent(<<"@name", " ", "n", "\n">>), Silent(<<"@header", "{", "h", "}">>),
    Silent(<<"@funi", "{", "f", "}", "\n">>)}

Html(p) == Between(<<"<", "p", ">">>, p, <<"</", "p", ">">>)
Attribute(p) == Between(<<"<", "a", " ", "\"">>, p, <<"\"", "/>">>)
Markup(lang, p) == [p EXCEPT !.src = <<"@(", lang, ")", "{">> \o @ \o <<"}">>]
Parsed(lang, p) ==
    LET wrap(t) == <<<<"parsed", lang>>>> \o t \o <<<<"end", lang>>>>
    IN [Markup(lang, p) EXCEPT !.on = wrap(@), !.off = wrap(@)]
If(p) == Piece(<<"@if", "(", "c", ")", "{">> \o Markup("html", p).src \o <<"}", "\n">>,
               p.on, <<>>)
IfElse(p, q) ==
    Piece(<<"@if", "(", "c", ")", "{">> \o Markup("html", p).src
            \o <<"}", " ", "else", "{">> \o Markup("html", q).src \o <<"}", "\n">>,
          p.on, q.off)
Nested(p) ==
    Piece(<<"@{", "for", "(", "i", ";", "j", ")", "{">> \o Markup("html", p).src
            \o <<"}", "g", ";", "}">>, p.on, <<>>)
Do(p) == [p EXCEPT !.src = <<"@do", "{">> \o Markup("html", p).src
                             \o <<"}", "while", "(", "c", ")", ";">>]
Section(p) ==
    [p EXCEPT !.src = <<"@add-section", "(", "s", ")", "{">> \o @
                        \o <<"}", "@write-section", "(", "s", ")", ";", "\n">>]
Default(p) == [p EXCEPT !.src = <<"@write-section", "(", "t", ")", "{">> \o @ \o <<"}">>]

Wraps(p) == {Html(p), Markup("html", p), Parsed("md", p), If(p), Nested(p), Do(p),
             Section(p), Default(p), IfElse(p, Shown(<<"y">>))}

(* Statements, functions and calls that show nothing where they stand, and *)
(* markup with quoted or escaped braces.                                   *)
Others == {
    Silent(<<"@func", "{", "f", "}", "\n">>),
    Silent(<<"@set", "(", "k", ")">>), Silent(<<"@style", "(", "f", ")">>),
    Silent(<<"@while", "(", "a", "==", " ", "f", "(", ")", ")", "{", "}", "\n">>),
    Gives(<<"@script", "(", "f", ")", "@scripts", "\n">>, <<<<"script", "f">>, <<"raw", "\n">>>>),
    Gives(<<"@fmt-raw", "(", "f", ")">>, Raw(<<"f">>)),
    Gives(<<"@import", "(", "f", ")">>, <<<<"@import", "f">>>>),
    Markup("tex", Shown(<<"\\", "{", "{", "a", "}">>)),
    Parsed("md", Shown(<<"\n", " ", " ", " ", " ", "}", "\n", "~~", "}", "~~">>)),
    Parsed("md", Shown(<<"\n", "~~~", "}", "\n", "~~~">>)),
    Markup("json", Shown(<<"<", "x", " ">>))}

(* Code that leaves the render function: nothing is shown at all.          *)
Leaving == {
    Silent(<<"x", " ", "@{", "return", " ", "r", ";", "}", "\n">>),
    Piece(<<"x", "@if", "(", "c", ")", "{", "throw", " ", "e", ";", "}", "\n", "y", " ", "\n">>,
          <<>>, Raw(<<"x", "y", " ", "\n">>))}

(* Statements whose code does not compile.                                 *)
Uncompiled == {
    Silent(<<"@region", " ", "r", "\n">>), If(Partial), Default(Partial),
    Then(Partial, Silent(<<"@funi", "{", "f", "}", "\n">>)),
    Html(Silent(<<"@funi", "{", "f", "}", "\n">>)),
    Silent(<<"@try", "{", "f", ";", "}", "catch", "(", "e", ")", "{", "g", "}", "\n">>),
    Silent(<<"@{", "@<", "T", "<", "U", ">", ">", "f", "(", "a", ")", "{", "g", "}", "\n", "}">>),
    Silent(<<"@{", "@await", " ", "r", "(", "a", ")", ";", "}">>)}

InAttribute == {p \in Leaves : p.src[1] \in StringOpens}
Flat == Leaves \cup {Attribute(p) : p \in InAttribute}
Once == UNION {Wraps(p) : p \in Flat}
Twice == UNION {Wraps(p) : p \in UNION {Wraps(q) : q \in Core}}

Templates ==
    Twice \cup {Then(p, q) : p \in Flat \cup Directives, q \in Flat}
          \cup {Then(p, q) : p \in Once, q \in {Shown(<<"x", " ">>)}}
          \cup {Partial, Html(Partial), Attribute(Partial), Section(Partial), Then(Partial, Partial)}
          \cup Directives \cup Others \cup UNION {Wraps(p) : p \in Others}

(* Files that were cut short, or whose parts were put together wrongly.    *)
CutOff ==
    UNION {{SubSeq(p.src, 1, n) : n \in 1..Len(p.src)} :
             p \in Others \cup Leaving \cup Uncompiled \cup Wraps(Shown(<<"x">>))
                    \cup Wraps(Markup("html", Silent(<<"@*", "x">>))) \cup Wraps(Silent(<<"@**", "x">>))}
    \cup {Then(p, p).src : p \in Directives}
    \cup {Markup("html", p).src : p \in Directives}

(* A template is a text file: it ends with a newline.                      *)
File(p) == Then(p, Shown(<<"\n">>))
Page(p, ok) ==
    [src |-> p.src, ok |-> ok, shown |-> [c \in BOOLEAN |-> IF c THEN p.on ELSE p.off]]
MCPages == {Page(File(p), TRUE) : p \in Templates}
           \cup {Page(p, TRUE) : p \in Leaving}
           \cup {Page(Silent(s), FALSE) : s \in CutOff}

(* The texts of these templates that are no tokens.                        *)
MCWords ==
    [w \in {"x", "y", "v", "k", "n", "h", "f", "c", "j", "r", "e", "t", "T", "U", "B",
            "@", "@@"} |-> IF w = "@@" THEN <<"@", "@">> ELSE <<w>>]
    @@ "part" :> <<"p", "a", "r", "t">> @@ "pa" :> <<"p", "a">> @@ "md" :> <<"m", "d">>
    @@ "retry" :> <<"r", "e", "t", "r", "y">> @@ "re" :> <<"r", "e">>
    @@ "tex" :> <<"t", "e", "x">> @@ "json" :> <<"j", "s", "o", "n">>

(* Texts with an escaped "@", shown as "@".                                *)
Escaped ==
    {Gives(<<"x", " ", "@@">> \o s, Raw(<<"x", " ", "@">> \o s)) :
       s \in {<<" ", "x">>, <<"if">>, <<"{", "x", "}">>}}
MCEscapedPages == {Page(File(p), TRUE) : p \in Escaped}

(* The two outputs as doc-evmvc/README.md tells them apart.                *)
Documented ==
    {Gives(<<"@::", "v", ";">>, <<<<"enc", "v">>>>), Gives(<<"@:", "v", ";">>, Raw(<<"v">>))}
MCDocumentedPages == {Page(File(p), TRUE) : p \in Documented}

(* The statements of its table that do not compile.                        *)
MCStatementPages ==
    {Page(File(p), TRUE) : p \in {q \in Uncompiled : ToSet(q.src) \cap {"@funi", "@>"} = {}}}

(* Text right after the last brace of a statement, or after a section.     *)
WithoutNewline(p) == [p EXCEPT !.src = Front(@)]
MCAfterPages ==
    {Page(File(Then(WithoutNewline(p), Shown(<<"y", " ">>))), TRUE) :
       p \in {If(Shown(<<"x">>)), Section(Shown(<<"x">>))}}

(* A word that ends with a keyword of C++.                                 *)
MCWordPages ==
    {Page(File(Silent(<<"@{", "retry", "(", "a", ")", ";", "}">>)), TRUE)}

MCBody == <<<<"body", "B">>>>
=============================================================================
