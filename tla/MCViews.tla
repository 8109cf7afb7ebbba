------------------------------ MODULE MCViews ------------------------------
(***************************************************************************)
(* A small site: the views of namespace "app" are precompiled, those of    *)
(* "lib" come with the program.                                            *)
(***************************************************************************)
EXTENDS Views

Ref(ns, path) == [ns |-> ns, path |-> path]
V(id, ns, dir, name, layout, items) ==
    [id |-> id, ns |-> ns, dir |-> dir, name |-> name, layout |-> layout, items |-> items]
T(t) == <<"text", t>>
P(ns, path) == <<"partial", Ref(ns, path)>>
Body == <<"body">>

(* home/index is a template, with a helper it inherits from; lib has       *)
(* layouts in layouts, partial views of one name at two levels and twice   *)
(* at one level, views with a missing partial view, with one that throws,  *)
(* a view that finds itself as its layout, and one that renders a partial  *)
(* view with a layout.                                                     *)
MCView == {
    V("index", "app", <<"home">>, "index", Ref("lib", <<"frame">>),
                 <<T("a"), P("lib", <<"foot">>), T("b")>>),
    V("helper", "app", <<"helpers">>, "base", NoLayout, <<>>),
    V("frame", "lib", <<"layouts">>, "frame", Ref("lib", <<"outer">>), <<T("<"), Body, T(">")>>),
    V("outer", "lib", <<"layouts">>, "outer", NoLayout, <<T("["), Body, P("", <<"foot">>), T("]")>>),
    V("foot", "lib", <<"partials">>, "foot", NoLayout, <<T("f")>>),
    V("near", "lib", <<"a", "b">>, "page", NoLayout, <<P("", <<"foot">>), P("", <<"", "foot">>), P("", <<"x">>)>>),
    V("foot2", "lib", <<"a", "partials">>, "foot", NoLayout, <<T("n")>>),
    V("x1", "lib", <<"a">>, "x", NoLayout, <<T("1")>>),
    V("x2", "lib", <<"a", "helpers", "partials">>, "x", NoLayout, <<T("3")>>),
    V("x3", "lib", <<"a", "layouts">>, "x", NoLayout, <<T("2")>>),
    V("lost", "lib", <<>>, "lost", Ref("", <<"outer">>), <<T("("), P("", <<"none">>), T(")")>>),
    V("deep", "lib", <<>>, "deep", NoLayout, <<P("", <<"lost">>), P("none", <<"x">>), T("d")>>),
    V("thrown", "lib", <<>>, "thrown", NoLayout, <<T("t"), P("", <<"throws">>)>>),
    V("throws", "lib", <<>>, "throws", NoLayout, <<T("u"), <<"throw">>>>),
    V("self", "lib", <<"a">>, "self", Ref("", <<"layouts", "self">>), <<T("s")>>),
    V("card", "lib", <<"partials">>, "card", Ref("lib", <<"frame2">>), <<T("c")>>),
    V("frame2", "lib", <<"layouts">>, "frame2", NoLayout, <<T("{"), Body, T("}")>>),
    V("deck", "lib", <<>>, "deck", NoLayout, <<P("", <<"card">>), T("k")>>),
    V("outer2", "lib", <<"layouts">>, "self", NoLayout, <<Body>>)}

MCFiles == {"index", "helper"}
MCDir(f) == IF f = "index" THEN <<"home">> ELSE <<"helpers">>
MCName(f) == IF f = "index" THEN "index" ELSE "base"
MCInherits(f) == IF f = "index" THEN {<<"base">>} ELSE {}

MCRequests ==
    {Ref("app", <<"home", "index">>), Ref("lib", <<"a", "b", "page">>), Ref("lib", <<"lost">>),
     Ref("lib", <<"deep">>), Ref("lib", <<"deck">>), Ref("lib", <<"thrown">>), Ref("lib", <<"a", "self">>),
     Ref("lib", <<"none">>), Ref("none", <<"x">>), Ref("", <<"home", "index">>),
     Ref("", <<"zz", "foot">>)}

=============================================================================
