---------------------------- MODULE RequestParser ----------------------------
(***************************************************************************)
(* Requests out of a stream of bytes that is read in pieces: the head line *)
(* by line, then the body, plain, a form, or multipart (http_parser,       *)
(* on_connection_read, multipart_utils.h, _load_multipart_params).         *)
(*                                                                         *)
(* The client sends one request after the other was answered.  A byte is a *)
(* symbol: "CR", "LF", or one that stands for a piece of text, such as     *)
(* "REQ" for a request line or "--b" and "--b--" for the boundaries.  A    *)
(* request is                                                              *)
(*   head    its header lines: a name and a value                          *)
(*   kind    "none", "plain", "text", "urlencoded", "multipart", or        *)
(*           "broken" for what is no request                               *)
(*   body    the bytes, the pairs, or the parts: see Encode                *)
(***************************************************************************)
EXTENDS Naturals, Sequences, SequencesExt, FiniteSets

CONSTANTS
    Sessions,       \* sequences of requests a client may send
    Size(_),        \* the number a Content-Length stands for
    MaxBuf,         \* EVMVC_MAX_CONTENT_BUF_LEN
    CutHeads        \* may a read end between two lines of a head?

VARIABLES
    reqs,           \* the requests of this client
    turn,           \* which of them it is sending
    sent,           \* how many bytes of that one it has sent
    answered,       \* it has an answer while it sends that one
    in,             \* the input buffer
    event,          \* there is something new in it
    p,              \* the parser
    paused,         \* the request waits for the access policies
    got,            \* the requests that were executed, as the program saw them
    closed,         \* the connection was closed for a parse error
    early,          \* the headers were validated before all had been read
    cutcr           \* part of a file was moved out with half of a line end
pvars == <<reqs, turn, sent, answered, in, event, p, paused, got, closed, early, cutcr>>

-----------------------------------------------------------------------------
(* The client.                                                             *)
EOL == <<"CR", "LF">>
Line(s) == s \o EOL

(* The pairs of a form; the parts of a multipart body.                     *)
Pairs(prs) ==
    FlattenSeq([i \in DOMAIN prs |->
        prs[i].key \o <<"=">> \o prs[i].value \o IF i < Len(prs) THEN <<"&">> ELSE <<>>])

JoinLines(ls) ==
    FlattenSeq([i \in DOMAIN ls |-> IF i < Len(ls) THEN Line(ls[i]) ELSE ls[i]])

Parts(parts) ==
    FlattenSeq([i \in DOMAIN parts |->
        Line(<<"--b">>) \o FlattenSeq([j \in DOMAIN parts[i].head |-> Line(parts[i].head[j])])
            \o EOL \o Line(JoinLines(parts[i].lines))])
      \o Line(<<"--b--">>)

Body(r) == CASE r.kind = "none" -> <<>>
             [] r.kind \in {"plain", "text"} -> r.body
             [] r.kind = "urlencoded" -> Pairs(r.body)
             [] r.kind = "multipart" -> Parts(r.body)
             [] r.kind = "broken" -> r.body

HeadOf(r) == Line(<<"REQ">>) \o FlattenSeq([i \in DOMAIN r.head |-> Line(r.head[i])]) \o EOL
Encode(r) == HeadOf(r) \o Body(r)

-----------------------------------------------------------------------------
(* The parser.                                                             *)
NoPart == [kind |-> "unset", head |-> <<>>, data |-> <<>>, crlf |-> FALSE]
NewParser ==
    [status |-> "req_line", head |-> <<>>, size |-> 0, buf |-> <<>>, body |-> <<>>,
     mp |-> "init", part |-> NoPart, parts |-> <<>>, completed |-> FALSE,
     fds |-> 0, asked |-> FALSE, caught |-> FALSE, ec |-> FALSE]

(* Where the next line of the data ends, 0 if it does not.                 *)
Eol(data, from) ==
    LET ends == {i \in from..(Len(data) - 1) : data[i] = "CR" /\ data[i + 1] = "LF"}
    IN IF ends = {} THEN 0 ELSE CHOOSE i \in ends : \A j \in ends : i <= j

(* parse_req_line: read from its end.  What is not a request line is       *)
(* skipped.                                                                *)
ParseReqLine(s, line) ==
    IF line = <<>> THEN [s EXCEPT !.status = "error", !.ec = TRUE]
    ELSE IF Last(line) = "REQ" THEN [s EXCEPT !.status = "header", !.head = <<>>]
    ELSE s

HasHeader(s, name) == \E i \in DOMAIN s.head : s.head[i][1] = name
HeaderOf(s, name) ==
    s.head[CHOOSE i \in DOMAIN s.head :
             s.head[i][1] = name /\ \A j \in 1..(i - 1) : s.head[j][1] # name][2]

(* validate_headers: without a host there is no answer.  Otherwise the     *)
(* response is made and paused, and the policies are asked.                *)
ValidateHeaders(s) ==
    IF HasHeader(s, "Host:") THEN [s EXCEPT !.asked = TRUE] ELSE [s EXCEPT !.status = "error"]

(* post_headers_validation, init_body and init_multip.  A Content-Length   *)
(* that is not a number throws, and parse_headers resets the parser, with  *)
(* the policies asked already.  Without a Content-Type there will be no    *)
(* buffer to read the body into, and without a boundary in it no parts.    *)
PostHeaders(s) ==
    IF s.status # "header" THEN s
    ELSE IF ~HasHeader(s, "Length:") THEN [s EXCEPT !.status = "ready"]
    ELSE IF Size(HeaderOf(s, "Length:")) \notin Nat THEN [NewParser EXCEPT !.caught = TRUE]
    ELSE LET t == [s EXCEPT !.size = Size(HeaderOf(s, "Length:"))]
             type == HeaderOf(s, "Type:")
         IN IF ~HasHeader(s, "Type:") THEN [t EXCEPT !.status = "no buffer"]
            ELSE IF type = "unbounded" THEN [t EXCEPT !.status = "error"]
            ELSE IF type = "multipart" THEN [t EXCEPT !.status = "multipart"]
            ELSE IF t.size = 0 THEN [t EXCEPT !.status = "ready", !.completed = TRUE]
            ELSE [t EXCEPT !.status = type]

ColonNames == {"Host:", "Length:", "Type:", "X:"}

(* parse_headers.                                                          *)
ParseHeaders(s, line) ==
    IF line = <<>> THEN PostHeaders(ValidateHeaders(s))
    ELSE IF line[1] \notin ColonNames THEN [s EXCEPT !.status = "error", !.ec = TRUE]
    ELSE [s EXCEPT !.head = Append(@, line)]

(* What the two return: the length of the request line is without its end, *)
(* that of the empty line is with two, unless it was caught.               *)
EOLSIZE == 2
EOHSIZE == 4
BytesReadWithEol(s, line) ==
    IF s.status = "req_line" THEN Len(line) + EOLSIZE
    ELSE IF line = <<>> THEN EOHSIZE ELSE Len(line) + EOLSIZE
BytesRead(s, line) ==
    IF s.status = "req_line" THEN Len(line)
    ELSE IF line = <<>> THEN EOHSIZE ELSE Len(line) + EOLSIZE

(* parse, for a head: line after line until the data ends, a line is       *)
(* wrong, or the head is complete and the response has been paused.        *)
RECURSIVE ParseLines(_, _, _, _)
ParseLines(s, data, from, read) ==
    LET eol == Eol(data, from)
        line == SubSeq(data, from, eol - 1)
        t == IF s.status = "req_line" THEN ParseReqLine(s, line) ELSE ParseHeaders(s, line)
        n == read + IF t.caught /\ s.status = "header" THEN EOLSIZE ELSE BytesRead(s, line)
    IN IF eol = 0 THEN [p |-> s, read |-> read]
       ELSE IF t.status = "error" THEN [p |-> t, read |-> 0]
       ELSE IF t.asked THEN [p |-> t, read |-> n]
       ELSE CHOOSE r \in {ParseLines(u, data, eol + EOLSIZE, n) : u \in {t}} : TRUE

(* parse_form_urlenc: the pairs of the body.                               *)
AddPair(s) == [s EXCEPT !.out = Append(@, [key |-> s.k, value |-> s.v]),
                        !.k = <<>>, !.v = <<>>, !.inkey = TRUE]
UrlencStep(s, c) ==
    LET ch == IF c = "+" THEN "SP" ELSE c
    IN IF ch = "=" THEN [s EXCEPT !.inkey = FALSE]
       ELSE IF ch = "&" THEN AddPair(s)
       ELSE IF s.inkey THEN [s EXCEPT !.k = Append(@, ch)]
       ELSE [s EXCEPT !.v = Append(@, ch)]
UrlencPairs(data) ==
    LET end == FoldLeft(UrlencStep, [out |-> <<>>, k |-> <<>>, v |-> <<>>, inkey |-> TRUE], data)
    IN IF end.k # <<>> \/ end.v # <<>> THEN AddPair(end).out ELSE end.out

(* read_body, and parse_body, parse_form_urlenc or parse_form_txtpln once  *)
(* it is complete; the last keeps nothing.                                 *)
ReadBody(s, data) ==
    LET room == s.size - Len(s.buf)
    IN [s EXCEPT !.buf = @ \o SubSeq(data, 1, IF Len(data) > room THEN room ELSE Len(data))]
ParseBody(s, data) ==
    LET t == ReadBody(s, data)
        kept == CASE s.status = "plain" -> t.buf
                  [] s.status = "urlencoded" -> UrlencPairs(t.buf)
                  [] s.status = "text" -> <<>>
    IN [p |-> IF Len(t.buf) >= s.size
              THEN [t EXCEPT !.body = kept, !.buf = <<>>, !.status = "ready"] ELSE t,
        read |-> Len(t.buf) - Len(s.buf)]

-----------------------------------------------------------------------------
(* A multipart body.  All that is read goes to a buffer of its own.        *)
HeadLine(line) == line # <<>> /\ line[1] \in {"form:", "file:", "file!:", "mixed:", "x:"}
PartIs(s, name) == \E i \in DOMAIN s.part.head : s.part.head[i][1] = name

(* _mp_assign_content_type: a file is opened, a value begins; after the    *)
(* head of a part with parts the head of the first is expected.  "file!:"  *)
(* is the head of a file that cannot be opened.                            *)
AssignContentType(s) ==
    IF PartIs(s, "mixed:") THEN [s EXCEPT !.part.kind = "mixed"]
    ELSE IF PartIs(s, "file!:") THEN [s EXCEPT !.mp = "failed"]
    ELSE IF PartIs(s, "file:")
    THEN [s EXCEPT !.part.kind = "file", !.mp = "content", !.fds = @ + 1]
    ELSE [s EXCEPT !.part.kind = "form", !.mp = "content"]

(* _mp_parse_end_of_section; _mp_on_read_file_data closes the file.        *)
IsBoundary(line) == line \in {<<"--b">>, <<"--b--">>}
EndSection(s, line) ==
    [s EXCEPT !.parts = Append(@, [s.part EXCEPT !.crlf = FALSE]),
              !.part = NoPart,
              !.mp = "headers",
              !.fds = IF s.part.kind = "file" THEN @ - 1 ELSE @,
              !.completed = line = <<"--b--">>]

(* _mp_on_read_form_data and _mp_on_read_file_data, for a line.  The ends  *)
(* of the lines of a value are dropped; those of a file are written before *)
(* the next line.                                                          *)
ContentLine(s, line) ==
    IF IsBoundary(line) THEN EndSection(s, line)
    ELSE IF s.part.kind = "form" THEN [s EXCEPT !.part.data = @ \o line]
    ELSE [s EXCEPT !.part.data = @ \o (IF s.part.crlf THEN EOL ELSE <<>>) \o line,
                   !.part.crlf = TRUE]

(* Without a line: a file takes what there is, if that is much.            *)
Overfull(s) == s.mp = "content" /\ s.part.kind = "file" /\ Len(s.buf) >= MaxBuf
MoveOutKeepsCrlf(s) ==
    [s EXCEPT !.part.data = @ \o (IF s.part.crlf THEN EOL ELSE <<>>) \o s.buf, !.buf = <<>>]
MoveOut(s) ==
    [s EXCEPT !.part.data = @ \o (IF s.part.crlf THEN EOL ELSE <<>>) \o s.buf,
              !.part.crlf = FALSE, !.buf = <<>>]

MultipLine(s, line) ==
    CASE s.mp = "init" ->
           IF line = <<"--b">> THEN [s EXCEPT !.mp = "headers", !.part = NoPart]
           ELSE [s EXCEPT !.mp = "failed"]
      [] s.mp = "headers" ->
           IF line = <<>> THEN AssignContentType(s)
           ELSE IF HeadLine(line) THEN [s EXCEPT !.part.head = Append(@, line)]
           ELSE [s EXCEPT !.mp = "failed"]
      [] s.mp = "content" -> ContentLine(s, line)

(* parse_form_multip: the lines there are, until the last boundary or an   *)
(* error.                                                                  *)
RECURSIVE MultipLines(_)
MultipLines(s) ==
    LET eol == Eol(s.buf, 1)
        line == SubSeq(s.buf, 1, eol - 1)
    IN IF s.mp = "failed" \/ s.completed THEN s
       ELSE IF eol = 0 THEN IF Overfull(s) THEN MoveOut(s) ELSE s
       ELSE CHOOSE t \in {MultipLines(u) :
                u \in {MultipLine([s EXCEPT !.buf = SubSeq(@, eol + EOLSIZE, Len(@))], line)}} : TRUE

(* _load_multipart_params: the values and the files.                       *)
LoadParams(s) == [i \in DOMAIN s.parts |-> [kind |-> s.parts[i].kind, head |-> s.parts[i].head,
                                            data |-> s.parts[i].data]]

(* An error is answered, which completes the response; the rest of the     *)
(* body finds the parser ended, and is read as the next request.           *)
ParseMultipart(s, data) ==
    LET t == MultipLines([s EXCEPT !.buf = @ \o data])
    IN [p |-> IF t.mp = "failed" THEN [t EXCEPT !.status = "completed"]
              ELSE IF t.completed
              THEN [t EXCEPT !.status = "ready", !.body = LoadParams(t), !.buf = <<>>]
              ELSE t,
        read |-> Len(data)]

(* parse.                                                                  *)
Parse(s, data) ==
    CASE s.status \in {"req_line", "header"} -> ParseLines(s, data, 1, 0)
      [] s.status \in {"plain", "urlencoded", "text"} -> ParseBody(s, data)
      [] s.status = "multipart" -> ParseMultipart(s, data)
      [] s.status = "no buffer" -> [p |-> [s EXCEPT !.status = "undefined"], read |-> 0]
      [] OTHER -> [p |-> s, read |-> 0]

-----------------------------------------------------------------------------
(* The connection.                                                         *)
Client == reqs[turn]
Result(s) == [turn |-> turn, head |-> s.head, body |-> s.body, fds |-> s.fds]
Executed(s) == IF s.status = "ready" THEN [s EXCEPT !.status = "responding"] ELSE s

ParserInit ==
    /\ reqs \in Sessions
    /\ turn = 1 /\ sent = 0 /\ answered = FALSE
    /\ in = <<>> /\ event = FALSE
    /\ p = NewParser /\ paused = FALSE /\ got = <<>>
    /\ closed = FALSE /\ early = FALSE /\ cutcr = FALSE

(* A piece of the request arrives; see CutHeads.                           *)
Whole(n) == CutHeads \/ n < Len(Line(<<"REQ">>)) \/ n >= Len(HeadOf(Client))
Deliver ==
    /\ ~closed /\ p.status # "responding"
    /\ \E bytes \in {Encode(Client)} : \E n \in (sent + 1)..Len(bytes) :
         /\ Whole(n)
         /\ sent' = n
         /\ in' = in \o SubSeq(bytes, sent + 1, n)
    /\ event' = TRUE
    /\ UNCHANGED <<reqs, turn, answered, p, paused, got, closed, early, cutcr>>

(* It has its answer and has sent the request: it sends the next one.      *)
NextRequest ==
    /\ answered /\ ~closed /\ sent = Len(Encode(Client)) /\ turn < Len(reqs)
    /\ turn' = turn + 1 /\ sent' = 0 /\ answered' = FALSE
    /\ UNCHANGED <<reqs, in, event, p, paused, got, closed, early, cutcr>>

(* on_connection_read: what was parsed is drained, and everything after an *)
(* error; a request that is ready is executed, unless it is paused, and a  *)
(* multipart body that is wrong has been answered.                         *)
Read(s0) ==
    LET s == IF s0.status \in {"completed", "error"} THEN NewParser ELSE s0
    IN \E r \in {Parse(s, in)}, asks \in BOOLEAN :
       /\ asks = ((r.p.asked /\ ~s.asked) \/ (r.p.caught /\ ~s.caught))
       /\ in' = IF r.p.status = "error" THEN <<>> ELSE SubSeq(in, r.read + 1, Len(in))
       /\ closed' = r.p.ec
       /\ paused' = asks
       /\ early' = (early \/ (asks /\ r.p.asked /\ r.p.head # Client.head))
       /\ answered' = (answered \/ r.p.status = "completed")
       /\ cutcr' = (cutcr \/ (s.status = "multipart" /\ Last(in) = "CR" /\ r.p.buf = <<>>))
       /\ p' = IF asks THEN r.p ELSE Executed(r.p)
       /\ got' = IF ~asks /\ r.p.status = "ready" THEN Append(got, Result(r.p)) ELSE got

OnRead ==
    /\ event /\ ~closed /\ ~paused
    /\ p.status # "responding" /\ in # <<>>
    /\ Read(p)
    /\ event' = FALSE
    /\ UNCHANGED <<reqs, turn, sent>>

(* The policies have granted: on_resume executes the request or reads on.  *)
OnResume ==
    /\ paused
    /\ IF p.status # "ready" /\ in # <<>> THEN Read(p)
       ELSE /\ paused' = FALSE
            /\ p' = Executed(p)
            /\ got' = IF p.status = "ready" THEN Append(got, Result(p)) ELSE got
            /\ UNCHANGED <<answered, in, closed, early, cutcr>>
    /\ event' = FALSE
    /\ UNCHANGED <<reqs, turn, sent>>

(* The response is complete.                                               *)
Respond ==
    /\ p.status = "responding"
    /\ p' = [p EXCEPT !.status = "completed"]
    /\ answered' = TRUE
    /\ UNCHANGED <<reqs, turn, sent, in, event, paused, got, closed, early, cutcr>>

ParserNext ==
    \/ Deliver \/ NextRequest \/ OnRead \/ OnResume \/ Respond

ParserSpec == ParserInit /\ [][ParserNext]_pvars

(* The client sends, and the loop runs its callbacks.                      *)
ParserFairSpec ==
    /\ ParserSpec
    /\ WF_pvars(Deliver) /\ WF_pvars(NextRequest)
    /\ WF_pvars(OnRead) /\ WF_pvars(OnResume) /\ WF_pvars(Respond)

-----------------------------------------------------------------------------
(* Properties                                                              *)

(* A request the program can be expected to understand.                    *)
Proper(r) ==
    /\ r.kind # "broken"
    /\ \E i \in DOMAIN r.head : r.head[i][1] = "Host:"
    /\ r.kind # "none" => \E i \in DOMAIN r.head : r.head[i][1] = "Type:"

(* What a handler finds: a plus sign is a space, a text form is lost, the  *)
(* lines of a value are run together, and a file is as it was sent.        *)
Spaces(t) == [i \in DOMAIN t |-> IF t[i] = "+" THEN "SP" ELSE t[i]]
MeantPart(t) ==
    LET file == \E i \in DOMAIN t.head : t.head[i][1] = "file:"
    IN [kind |-> IF file THEN "file" ELSE "form", head |-> t.head,
        data |-> IF file THEN JoinLines(t.lines) ELSE FlattenSeq(t.lines)]
MeantBody(r) ==
    CASE r.kind \in {"none", "text"} -> <<>>
      [] r.kind = "plain" -> r.body
      [] r.kind = "urlencoded" ->
           [i \in DOMAIN r.body |-> [key |-> Spaces(r.body[i].key), value |-> Spaces(r.body[i].value)]]
      [] r.kind = "multipart" -> [i \in DOMAIN r.body |-> MeantPart(r.body[i])]

(* What a handler found is what was sent.                                  *)
AsSent(g) == g.body = MeantBody(reqs[g.turn]) /\ g.fds = 0

(* However the bytes of a request are cut into reads, a handler that runs  *)
(* finds the headers, the pairs, the values and the files that were sent,  *)
(* the temporary files are closed, no handler runs twice for a request,    *)
(* and none for one that is not well formed.  A head is not cut between    *)
(* its lines (see ValidatedWhenEnded), no more than MaxBuf bytes of a file *)
(* without a line end are read up to the middle of one, and what follows   *)
(* on the connection after a request that is not well formed has its       *)
(* headers, but maybe not its body.  In the sessions no refused body holds *)
(* the whole head of a request, which parse would take for the next one    *)
(* (parse, parse_req_line, parse_form_multip).                             *)
ParsedAsSent ==
    ~cutcr => \A i \in DOMAIN got :
        /\ Proper(reqs[got[i].turn])
        /\ got[i].head = reqs[got[i].turn].head
        /\ (\A k \in 1..(got[i].turn - 1) : Proper(reqs[k])) => AsSent(got[i])
        /\ \A j \in DOMAIN got : got[j].turn = got[i].turn => i = j

(* The bodies after a refused request too: what it left in the stream does *)
(* not shift the next one (parse_req_line, parse_form_multip).             *)
BodiesAsSent == ~cutcr => \A i \in DOMAIN got : AsSent(got[i])

(* Every well formed request is executed in the end, up to one that is     *)
(* not: none is left waiting for bytes that were drained with another line *)
(* or part (on_connection_read, parse).                                    *)
EveryRequestParsed == <>(cutcr \/ Len(got) = Len(reqs) \/ ~Proper(Client))

(* The same of files that are moved out with half of a line end: boundary  *)
(* and request are found however the bytes are cut (parse_form_multip).    *)
EveryUploadParsed == <>(Len(got) = Len(reqs) \/ ~Proper(Client))

(* validate_headers is called when the header section has ended, as the    *)
(* comment in parse_headers has it.                                        *)
ValidatedWhenEnded == ~early

=============================================================================
