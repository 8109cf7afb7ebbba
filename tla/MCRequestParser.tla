--------------------------- MODULE MCRequestParser ---------------------------
(***************************************************************************)
(* Requests for RequestParser.                                             *)
(***************************************************************************)
EXTENDS RequestParser, Integers

MCSize(n) == CASE n = "0" -> 0 [] n = "3" -> 3 [] n = "9" -> 9 [] n = "none" -> -1 [] OTHER -> 99

Req(kind, head, body) == [kind |-> kind, head |-> << <<"Host:", "h">> >> \o head, body |-> body]
Sized(n, type) == << <<"Length:", n>>, <<"Type:", type>> >>
Pair(k, v) == [key |-> k, value |-> v]
Part(kind, lines) == [head |-> << <<kind, "n">> >>, lines |-> lines]

Plain == Req("plain", Sized("3", "plain") \o << <<"X:", "x">> >>, <<"CR", "LF", "REQ">>)
Get == Req("none", <<>>, <<>>)
Empty == Req("plain", Sized("0", "plain"), <<>>)
Text == Req("text", Sized("3", "text"), <<"a", "b", "c">>)
Form == Req("urlencoded", Sized("9", "urlencoded"),
            <<Pair(<<"a", "+">>, <<"1", "2">>), Pair(<<"b">>, <<"3">>)>>)
Values == Req("multipart", Sized("", "multipart"),
              <<Part("form:", << <<"1">>, <<"2">> >>), Part("file:", << <<"a", "b">>, <<>>, <<"c">> >>)>>)
Upload == Req("multipart", Sized("", "multipart"),
              <<Part("file:", << <<"a", "b", "c", "d">>, <<"e", "CR", "f">>, <<"--b", "x">> >>)>>)

(* No host, a line that is no header, no type, a body that does not begin  *)
(* with a boundary, a part without a head, parts within a part, a file     *)
(* that cannot be opened, a type without a boundary, and a length that is  *)
(* not a number.                                                           *)
NoHost == [Get EXCEPT !.head = << <<"X:", "x">> >>]
NoName == Req("broken", << <<"x">> >>, <<>>)
NoType == Req("plain", << <<"Length:", "3">> >>, <<"a", "b", "c">>)
NoStart == Req("broken", Sized("", "multipart"), Line(<<"a">>))
NoHead == Req("broken", Sized("", "multipart"), Line(<<"--b">>) \o Line(<<"--b--">>))
Nested == Req("broken", Sized("", "multipart"),
              Line(<<"--b">>) \o Line(<<"mixed:", "c">>) \o EOL \o Line(<<"--c">>))
Full == Req("broken", Sized("", "multipart"),
            Line(<<"--b">>) \o Line(<<"file!:", "n">>) \o EOL \o Line(<<"a">>))
Unbounded == Req("broken", Sized("", "unbounded"), Line(<<"--b">>) \o Line(<<"REQ">>))

NoNumber == Req("broken", Sized("none", "plain"), <<"a", "b", "c">>)

MCSessions == {<<Plain, Get>>, <<Form, Empty>>, <<Get, Text, Values>>, <<Upload, Get>>,
               <<Get, NoHost, Get>>, <<Empty, NoName>>, <<NoType>>, <<NoStart, Plain>>, <<NoHead, Get>>,
               <<Nested, Get>>, <<Full, Form>>, <<Unbounded, Get>>, <<NoNumber, Get>>}

MCUploadSessions == {<<Upload>>}
MCRefusedSessions == {<<Full, Form>>}

(* One that is well formed, to be cut anywhere.                            *)
MCCutSessions == {<<Plain, Get>>}

=============================================================================
