----------------------------- MODULE Connection -----------------------------
(***************************************************************************)
(* One HTTP connection inside a worker process: the bufferevent callbacks, *)
(* the parser's status, the responses and the resume event, run by one     *)
(* single-threaded libevent loop (connection.h, connection_impl.h,         *)
(* parser.h, parser_impl.h, response.h, response_impl.h).                  *)
(*                                                                         *)
(* A callback runs to completion, so each is one step.  Everything the     *)
(* callbacks read and write is the record w; an operator that stands for a *)
(* C++ function maps the record before the call to the record after it.    *)
(*                                                                         *)
(* Data: a request is its number; what arrives of it is a "head" token     *)
(* and, when it has one, a "body" token.  A head or a body is in one       *)
(* segment, and a body holds no end-of-line.                               *)
(***************************************************************************)
EXTENDS Naturals, Sequences, FiniteSets, Functions

CONSTANTS NReq,        \* requests the client sends on this connection
          Profiles,    \* the kinds of requests it chooses from
          Pipelining,  \* TRUE: it may send a request before the last answer
          MaxChunks    \* bound on the chunks of a file

Req == 1..NReq

(* What the request and the application code that serves it do:            *)
(*   route    the router resolves the url, does not, there is no Host      *)
(*            header, or the head is malformed                             *)
(*   access   the access policies answer within the call or from a timer   *)
(*   verdict  what they answer                                             *)
(*   body     no Content-Length, Content-Length 0, or a body (both of the  *)
(*            latter with a Content-Type); a Content-Length that is not a  *)
(*            number; a multipart body whose Content-Type has no boundary, *)
(*            or that does not start with it                               *)
(*   handler  answers within the call (a 204 or a 500 when it calls its    *)
(*            callback or throws without an answer of its own), answers    *)
(*            and then fails, answers from a timer, pauses and resumes     *)
(*            from a timer, sends a file, or sends one that opens but      *)
(*            cannot be read                                               *)
(*   alive    the request asks to keep the connection                      *)
AllProfiles ==
    [route   : {"found", "missing", "nohost", "bad"},
     access  : {"now", "later"},
     verdict : {"grant", "deny"},
     body    : {"none", "empty", "data",
                "unnumbered", "unbounded", "malformed"},
     handler : {"send", "fail", "later", "pause", "file", "unreadable"},
     alive   : BOOLEAN]

(* The kinds of requests that have bytes after their head.                 *)
HasBody == {"data", "unbounded", "malformed"}

ASSUME NReqAssumption == NReq \in Nat
ASSUME ProfilesAssumption == Profiles \subseteq AllProfiles
ASSUME PipeliningAssumption == Pipelining \in BOOLEAN
ASSUME MaxChunksAssumption == MaxChunks \in Nat

VARIABLES prof,   \* the profile of each request
          w,      \* the state of the worker's side of the connection
          net,    \* tokens in the socket, not yet in the input evbuffer
          sent,   \* number of requests whose head the client has sent
          due,    \* the client still has to send the body of request sent
          open,   \* the client has not closed its end
          rcvd    \* what the client received

vars == <<prof, w, net, sent, due, open, rcvd>>

Token(part, i) == [part |-> part, req |-> i]
Event(kind, i) == [kind |-> kind, req |-> i]
Resume == Event("resume", 0)
Deferred == Event("deferred", 0)
Application == {"access", "handler"}

Tokens == [part : {"head", "eol", "body", "data", "end"}, req : Req]
Timers == [kind : Application, req : Req]
Events == [kind : {"read", "write", "timeout", "resume", "deferred"},
           req : {0}] \cup Timers

-----------------------------------------------------------------------------
(* The record w.                                                           *)

Status == {"parse_req_line", "parse_header", "parse_body", "ready_to_exec",
           "responding", "completed", "error"}

(* conn_flags that the code tests, _closed, whether a null response was    *)
(* dereferenced, and whether libevent has disabled reading or writing      *)
(* after an error on the socket.                                           *)
Flags == {"paused", "keepalive", "error", "closed", "crashed", "deaf", "mute"}

(* A new connection: initialize() has set the socket options, made the     *)
(* parser, the bufferevent and the resume event, and enabled reading.      *)
Initialize ==
    [status   |-> "parse_req_line",   \* _parser->_status
     cur      |-> 0,                  \* request of _parser->_res, 0: null
     flags    |-> {"keepalive"},
     in       |-> <<>>,               \* input and output evbuffers
     out      |-> <<>>,
     file     |-> 0,                  \* request whose file is being sent
     chunks   |-> 0,                  \* chunks of that file so far
     active   |-> <<>>,               \* libevent's active queue
     pending  |-> {},                 \* callbacks the deferred event owes
     timers   |-> {},                 \* set_timeout callbacks still armed
     started  |-> {},                 \* responses with _started set,
     ended    |-> {},                 \* _ended,
     held     |-> {},                 \* _paused
     resuming |-> {},                 \* and _resuming, and what
     cb       |-> [i \in Req |-> "none"],    \* _resume_cb is
     access   |-> [i \in Req |-> "none"],    \* answer of the policies so far
     ran      |-> {}]                 \* requests whose handler was called

WorkerState ==
    [status : Status, cur : {0} \cup Req, flags : SUBSET Flags,
     in : Seq(Tokens), out : Seq(Tokens), file : {0} \cup Req, chunks : Nat,
     active : Seq(Events),
     pending : SUBSET {"read", "write", "eof", "timeout", "error"},
     timers : SUBSET Timers,
     started : SUBSET Req, ended : SUBSET Req,
     held : SUBSET Req, resuming : SUBSET Req,
     cb : [Req -> {"none", "access", "handler"}],
     access : [Req -> {"none", "granted", "denied"}],
     ran : SUBSET Req]

SetFlag(s, f) == [s EXCEPT !.flags = @ \cup {f}]
UnsetFlag(s, f) == [s EXCEPT !.flags = @ \ {f}]
Closed(s) == "closed" \in s.flags
Paused(s) == "paused" \in s.flags

-----------------------------------------------------------------------------
(* libevent: event_active and the deferral of bufferevent callbacks.       *)

Activate(s, e) ==
    IF e \in Range(s.active)
    THEN s
    ELSE [s EXCEPT !.active = Append(@, e)]

-----------------------------------------------------------------------------
(* response.h, response_impl.h and the connection calls they make.         *)

(* The constructor of a response.                                          *)
NewResponse(s, i) ==
    [s EXCEPT !.started = @ \ {i}, !.ended = @ \ {i}, !.held = @ \ {i},
              !.resuming = @ \ {i}, !.cb[i] = "none"]

(* response_t::pause.                                                      *)
Pause(s, i) ==
    IF i \in s.held
    THEN s
    ELSE LET t == [s EXCEPT !.held = @ \cup {i}]
         IN IF Closed(s) THEN t ELSE SetFlag(t, "paused")

(* Bytes for the socket; a closed connection has none.                     *)
Put(s, token) == IF Closed(s) THEN s ELSE [s EXCEPT !.out = Append(@, token)]

(* connection::keep_alive.                                                 *)
KeepAlive(s, en) ==
    IF en THEN SetFlag(s, "keepalive") ELSE UnsetFlag(s, "keepalive")

(* _reply_start and _prepare_headers.                                      *)
ReplyStart(s, i) ==
    IF i \in s.started
    THEN s
    ELSE LET t == [s EXCEPT !.started = @ \cup {i}]
         IN IF Closed(s) THEN t
            ELSE Put(KeepAlive(t, prof[i].alive), Token("head", i))

(* complete_response when the connection is not paused.                    *)
CompleteUnpaused(s) == Activate([s EXCEPT !.status = "completed"], Resume)

(* send, when neither the response nor the connection is paused.           *)
SendUnpaused(s, i) ==
    LET d == Put(ReplyStart(s, i), Token("end", i))
        e == [d EXCEPT !.ended = @ \cup {i}]
    IN IF i \in s.ended THEN d
       ELSE IF Closed(s) THEN e
       ELSE CompleteUnpaused(e)

(* The callback given to resume(cb): the end of access validation answers  *)
(* a denied request, or one without a route, and leaves a granted one to   *)
(* the resume event; a handler's callback sends its answer.                *)
RunResumeCb(s, i) ==
    IF \/ s.cb[i] = "handler"
       \/ s.cb[i] = "access" /\ \/ s.access[i] = "denied"
                                \/ prof[i].route = "missing"
                                   /\ i \notin s.started
    THEN SendUnpaused(s, i)
    ELSE s

(* response_t::_resume.                                                    *)
FinishResume(s, i) ==
    IF i \notin s.held \/ i \notin s.resuming
    THEN s
    ELSE LET t == [s EXCEPT !.held = @ \ {i}, !.resuming = @ \ {i}]
         IN [RunResumeCb(t, i) EXCEPT !.cb[i] = "none"]

(* connection::resume: it resumes the parser's current response, whichever *)
(* response asked for it.                                                  *)
ConnResume(s) ==
    LET t == UnsetFlag(s, "paused")
    IN IF ~Paused(s) THEN SetFlag(s, "error")
       ELSE IF s.cur = 0 THEN SetFlag(t, "crashed")
       ELSE Activate(FinishResume(t, s.cur), Resume)

(* response_t::resume().                                                   *)
ResumeResponse(s, i) ==
    IF i \notin s.held \/ i \in s.resuming
    THEN s
    ELSE LET t == [s EXCEPT !.resuming = @ \cup {i}]
         IN IF Closed(s)
            THEN [t EXCEPT !.cb[i] = "none"]
            ELSE ConnResume(t)

(* response_t::resume(cb).                                                 *)
ResumeWith(s, i, cb) ==
    IF i \notin s.held \/ i \in s.resuming
    THEN s
    ELSE ResumeResponse([s EXCEPT !.cb[i] = cb], i)

(* A mutated CompleteResponse: it resumes without testing the pause.       *)
CompleteResponseAlwaysResumes(s) ==
    ConnResume([s EXCEPT !.status = "completed"])

(* connection::complete_response.                                          *)
CompleteResponse(s) ==
    IF Paused(s)
    THEN ConnResume([s EXCEPT !.status = "completed"])
    ELSE CompleteUnpaused(s)

(* response_t::send, with error(), send_status() and the other forms that  *)
(* end in it.                                                              *)
Send(s, i) ==
    LET a == IF i \in s.held THEN ResumeResponse(s, i) ELSE s
        d == Put(ReplyStart(a, i), Token("end", i))
        e == [d EXCEPT !.ended = @ \cup {i}]
    IN IF i \in a.ended THEN d
       ELSE IF Closed(s) THEN e
       ELSE CompleteResponse(e)

(* response_t::send_file and connection::send_file; a second file on the   *)
(* connection throws, which the caller of the handler answers with error().*)
SendFile(s, i) ==
    IF s.file # 0
    THEN Send(s, i)
    ELSE [ReplyStart(s, i) EXCEPT !.file = i, !.chunks = 0]

(* _send_chunk of what was read from the file; nothing is also what a      *)
(* failure of zlib leaves to send.                                         *)
SendChunk(s, i, read) ==
    IF read = "nothing" THEN s
    ELSE [Put(s, Token("data", i)) EXCEPT !.chunks = @ + 1]

(* A mutated SendFileChunk: the file is released before its end is sent.   *)
SendFileChunkReleasedEarly(s, read) ==
    LET d == SendChunk(s, s.file, read)
        e == [d EXCEPT !.file = 0]
    IN IF read = "more" THEN d
       ELSE CompleteResponse(Put(e, Token("end", e.file)))

(* A mutated SendFileChunk: the end goes out before the last chunk.        *)
SendFileChunkEndFirst(s, read) ==
    IF read = "more" THEN SendChunk(s, s.file, read)
    ELSE CompleteResponse(
           [SendChunk(Put(s, Token("end", s.file)), s.file, read)
              EXCEPT !.file = 0])

(* _send_file_chunk: what the read gives, and _send_file_chunk_end when it *)
(* meets the end of the file.  A read that fails gives neither: nothing is *)
(* written, so no write callback follows.                                  *)
SendFileChunk(s, read) ==
    LET d == SendChunk(s, s.file, read)
    IN IF prof[s.file].handler = "unreadable" THEN s
       ELSE IF read = "more" THEN d
       ELSE CompleteResponse([Put(d, Token("end", s.file)) EXCEPT !.file = 0])

-----------------------------------------------------------------------------
(* http_parser.                                                            *)

ParserReset(s) ==
    LET t == [s EXCEPT !.status = "parse_req_line", !.cur = 0]
    IN IF s.cur = 0 THEN t ELSE [t EXCEPT !.cb[s.cur] = "none"]

(* connection::close: frees the parser, the resume event and the           *)
(* bufferevent; the timers of the application that had expired stay due.   *)
Close(s) ==
    [SetFlag(ParserReset(s), "closed") EXCEPT
        !.in = <<>>, !.out = <<>>, !.file = 0, !.pending = {},
        !.timers = @ \cup {e \in Range(s.active) : e.kind \in Application},
        !.active = <<>>]

(* set_timeout, by a handler or a policy.                                  *)
SetTimer(s, kind, i) == [s EXCEPT !.timers = @ \cup {Event(kind, i)}]

(* exec: the route's handler, and the callback that answers its failure    *)
(* whether or not the handler has answered.                                *)
Exec(s) ==
    LET i == s.cur
        t == [s EXCEPT !.status = "responding", !.ran = @ \cup {i}]
        h == prof[i].handler
    IN IF h = "send" THEN Send(t, i)
       ELSE IF h = "fail" THEN Send(Send(t, i), i)
       ELSE IF h \in {"file", "unreadable"} THEN SendFile(t, i)
       ELSE IF h = "pause" THEN SetTimer(Pause(t, i), "handler", i)
       ELSE SetTimer(t, "handler", i)

(* The answer of the access policies.                                      *)
AccessAnswer(s, i) ==
    ResumeWith([s EXCEPT !.access[i] = IF prof[i].verdict = "grant"
                                       THEN "granted" ELSE "denied"],
               i, "access")

(* validate_headers: resolve the url, make the response, pause it and ask  *)
(* the access policies.                                                    *)
ValidateHeaders(s, i) ==
    LET t == Pause([NewResponse(s, i) EXCEPT
                        !.cur = i,
                        !.status = IF prof[i].route = "missing"
                                   THEN "error" ELSE @], i)
    IN IF prof[i].access = "now"
       THEN AccessAnswer(t, i)
       ELSE SetTimer(t, "access", i)

(* post_headers_validation, init_body and init_multip.  A Content-Length   *)
(* that does not convert throws; parse_headers catches it, resets the      *)
(* parser, paused or not, and counts a line end too few.  A multipart body *)
(* without a boundary is an error that nobody answers.                     *)
PostHeaders(s, i) ==
    LET ready == [s EXCEPT !.status = "ready_to_exec"]
        body == prof[i].body
    IN IF s.status # "parse_header" THEN s
       ELSE IF body = "none" THEN ready
       ELSE IF body = "empty" THEN ResumeResponse(ready, i)
       ELSE IF body = "unnumbered"
       THEN [ParserReset(s) EXCEPT !.in = <<Token("eol", i)>> \o @]
       ELSE IF body = "unbounded" THEN [s EXCEPT !.status = "error"]
       ELSE [s EXCEPT !.status = "parse_body"]

(* parse_req_line and parse_headers.  A malformed line is an error that    *)
(* on_connection_read closes the connection for; a request without a Host  *)
(* is an error without a response.                                         *)
ParseHead(s, i) ==
    LET t == [s EXCEPT !.status = "parse_header"]
    IN IF prof[i].route = "bad" THEN Close(s)
       ELSE IF prof[i].route = "nohost" THEN [s EXCEPT !.status = "error"]
       ELSE PostHeaders(ValidateHeaders(t, i), i)

(* read_body and parse_body, parse_form_urlenc, parse_form_txtpln or       *)
(* parse_form_multip.  A malformed multipart body is answered at once with *)
(* an error, whether or not the access policies have answered.             *)
ParseBody(s) ==
    LET t == [s EXCEPT !.in = Tail(@)]
    IN IF s.in = <<>> THEN s
       ELSE IF prof[s.cur].body = "malformed" THEN Send(t, s.cur)
       ELSE [t EXCEPT !.status = "ready_to_exec"]

(* Where the first request line of the buffer is, if there is one.         *)
FirstHead(q) == {n \in DOMAIN q : /\ q[n].part = "head"
                                  /\ \A m \in 1..(n - 1) : q[m].part # "head"}

(* parse, and the draining of what it consumed.  The request line is       *)
(* searched from its end, so what precedes it in the buffer is skipped; a  *)
(* failed parse drains everything.                                         *)
ParseLines(s) ==
    LET n == CHOOSE n \in FirstHead(s.in) : TRUE
        t == ParseHead([s EXCEPT !.in = SubSeq(@, n + 1, Len(@))],
                       s.in[n].req)
    IN IF t.status = "error" THEN [t EXCEPT !.in = <<>>]
       ELSE IF t.status = "parse_body" /\ t.cur \notin t.held THEN ParseBody(t)
       ELSE t

(* An empty line where a request line is expected is an error that closes. *)
Parse(s) ==
    IF s.status = "parse_body" THEN ParseBody(s)
    ELSE IF s.status # "parse_req_line" THEN s
    ELSE IF s.in # <<>> /\ s.in[1].part = "eol" THEN Close(s)
    ELSE IF FirstHead(s.in) # {} THEN ParseLines(s)
    ELSE s

-----------------------------------------------------------------------------
(* The callbacks of the connection.                                        *)

(* A mutated OnRead: the pause is not tested.                              *)
OnReadIgnoresPause(s) ==
    LET a == IF s.status \in {"completed", "error"} THEN ParserReset(s) ELSE s
        b == Parse(a)
    IN IF a.status = "responding" \/ a.in = <<>> THEN a
       ELSE IF Closed(b) THEN b
       ELSE IF b.status = "ready_to_exec" THEN Exec(b)
       ELSE b

(* A mutated OnRead: a failed parse resets the parser at once.             *)
OnReadResetsOnError(s) ==
    LET a == IF s.status \in {"completed", "error"} THEN ParserReset(s) ELSE s
        b == Parse(a)
    IN IF a.status = "responding" \/ a.in = <<>> THEN a
       ELSE IF b.status = "error" THEN ParserReset(b)
       ELSE IF Closed(b) \/ Paused(b) THEN b
       ELSE IF b.status = "ready_to_exec" THEN Exec(b)
       ELSE b

(* A mutated OnRead: a request that is being answered is not waited for.   *)
OnReadWhileResponding(s) ==
    LET a == IF s.status \in {"completed", "error", "responding"}
             THEN ParserReset(s) ELSE s
        b == Parse(a)
    IN IF a.in = <<>> THEN a
       ELSE IF Closed(b) \/ Paused(b) THEN b
       ELSE IF b.status = "ready_to_exec" THEN Exec(b)
       ELSE b

(* on_connection_read.                                                     *)
OnRead(s) ==
    LET a == IF s.status \in {"completed", "error"} THEN ParserReset(s) ELSE s
        b == Parse(a)
    IN IF a.status = "responding" \/ a.in = <<>> THEN a
       ELSE IF Closed(b) \/ Paused(b) THEN b
       ELSE IF b.status = "ready_to_exec" THEN Exec(b)
       ELSE b

(* A mutated OnWrite: the flag of a file is not tested.                    *)
OnWriteForgetsFile(s, read) ==
    IF Paused(s) THEN s
    ELSE IF s.status = "ready_to_exec" THEN Exec(s)
    ELSE IF "keepalive" \in s.flags THEN ParserReset(s)
    ELSE Close(s)

(* on_connection_write: the output is drained.                             *)
OnWrite(s, read) ==
    IF Paused(s) THEN s
    ELSE IF s.status = "ready_to_exec" THEN Exec(s)
    ELSE IF s.file # 0 THEN SendFileChunk(s, read)
    ELSE IF "keepalive" \in s.flags THEN ParserReset(s)
    ELSE Close(s)

(* A mutated OnResume: buffered input is left for the next read event.     *)
OnResumeLeavesInput(s) ==
    LET a == UnsetFlag(s, "paused")
    IN IF a.status = "ready_to_exec" THEN Exec(a) ELSE a

(* on_connection_resume, which enables writing or both directions again;   *)
(* wait_release, which it tests, is set nowhere.                           *)
OnResume(s) ==
    LET a == UnsetFlag(s, "paused")
        b == UnsetFlag(a, "mute")
        c == IF "deaf" \in a.flags THEN UnsetFlag(b, "deaf") ELSE a
    IN IF a.status = "ready_to_exec" THEN Exec(a)
       ELSE IF a.out # <<>> THEN b
       ELSE IF c.in # <<>> THEN OnRead(c)
       ELSE c

(* on_connection_event: a timeout closes; an end of file closes unless     *)
(* it is reported alone while errno holds EAGAIN; an error that is neither *)
(* does nothing.                                                           *)
OnEvent(s, stale) ==
    IF \/ "timeout" \in s.pending
       \/ "eof" \in s.pending /\ (~stale \/ "error" \in s.pending)
    THEN Close(s)
    ELSE [s EXCEPT !.pending = {}]

(* libevent runs the deferred callbacks of a bufferevent in this order.    *)
RunDeferred(s, read, stale) ==
    LET a == IF "read" \in s.pending
             THEN OnRead([s EXCEPT !.pending = @ \ {"read"}]) ELSE s
        b == IF "write" \in a.pending
             THEN OnWrite([a EXCEPT !.pending = @ \ {"write"}], read) ELSE a
    IN IF b.pending \cap {"eof", "timeout", "error"} # {}
       THEN OnEvent(b, stale) ELSE b

(* A timer armed by a handler: it sends, or resumes the response it had    *)
(* paused and sends from the resume callback.                              *)
HandlerTimer(s, i) ==
    IF prof[i].handler = "pause"
    THEN ResumeWith(s, i, "handler")
    ELSE Send(s, i)

-----------------------------------------------------------------------------
(* The event loop.  It polls only when its active queue is empty, and runs *)
(* everything that queue holds, what callbacks add to it included, before  *)
(* it polls again.                                                         *)

Read == Event("read", 0)
Write == Event("write", 0)
Timeout == Event("timeout", 0)

Readable == w.flags \cap {"closed", "deaf"} = {} /\ (net # <<>> \/ ~open)
Writable == w.flags \cap {"closed", "mute"} = {} /\ w.out # <<>>

(* What one poll may report: the socket events that are ready, the timers  *)
(* that have expired, and the read timeout of a silent socket.             *)
Reports ==
    LET sockets == {e \in {Read, Write} : IF e = Read THEN Readable
                                                      ELSE Writable}
        idle == IF Readable \/ w.flags \cap {"closed", "deaf"} # {}
                THEN {} ELSE {Timeout}
    IN {sockets \cup x : x \in SUBSET (w.timers \cup idle)} \ {{}}

Poll ==
    /\ w.active = <<>>
    /\ \E ready \in Reports :
         \E q \in Bijection(1..Cardinality(ready), ready) :
             w' = [w EXCEPT !.active = q, !.timers = @ \ ready]
    /\ UNCHANGED <<prof, net, sent, due, open, rcvd>>

(* The next event to run, and w without it.                                *)
Running(kind) == w.active # <<>> /\ Head(w.active).kind = kind
Popped == [w EXCEPT !.active = Tail(@)]

(* The socket becomes readable: bytes go to the input evbuffer, and the    *)
(* read callback is deferred.                                              *)
RunRead ==
    /\ Running("read")
    /\ net # <<>>
    /\ \E k \in 1..Len(net) :
         /\ w' = Activate([Popped EXCEPT !.in = @ \o SubSeq(net, 1, k),
                                         !.pending = @ \cup {"read"}], Deferred)
         /\ net' = SubSeq(net, k + 1, Len(net))
    /\ UNCHANGED <<prof, sent, due, open, rcvd>>

(* Nothing to read on a readable socket is the end of file.                *)
RunEof ==
    /\ Running("read")
    /\ net = <<>>
    /\ w' = Activate([Popped EXCEPT !.pending = @ \cup {"eof"}], Deferred)
    /\ UNCHANGED <<prof, net, sent, due, open, rcvd>>

(* The client has gone, and the socket reports that as an error: libevent  *)
(* disables the direction it met it in.                                    *)
RunError ==
    /\ ~open
    /\ \/ Running("read") /\ net = <<>>
       \/ Running("write")
    /\ LET way == IF Running("read") THEN "deaf" ELSE "mute"
       IN w' = Activate([SetFlag(Popped, way) EXCEPT
                            !.pending = @ \cup {"error"}], Deferred)
    /\ UNCHANGED <<prof, net, sent, due, open, rcvd>>

RunTimeout ==
    /\ Running("timeout")
    /\ w' = Activate([Popped EXCEPT !.pending = @ \cup {"timeout"}], Deferred)
    /\ UNCHANGED <<prof, net, sent, due, open, rcvd>>

(* The socket takes some output; the write callback is deferred when the   *)
(* output evbuffer is empty.                                               *)
RunWrite ==
    /\ Running("write")
    /\ \E k \in 1..Len(w.out) :
         LET t == [Popped EXCEPT !.out = SubSeq(@, k + 1, Len(@))]
         IN /\ w' = IF t.out # <<>> THEN t
                    ELSE Activate([t EXCEPT !.pending = @ \cup {"write"}], Deferred)
            /\ rcvd' = rcvd \o SubSeq(w.out, 1, k)
    /\ UNCHANGED <<prof, net, sent, due, open>>

(* The deferred callbacks; a chunk of a file is followed by more of it, is *)
(* the last one, or the file has nothing left.                             *)
RunCallbacks ==
    /\ Running("deferred")
    /\ \E read \in {"more", "last", "nothing"}, stale \in BOOLEAN :
         /\ read = "more" => w.chunks < MaxChunks
         /\ read = "last" => w.chunks <= MaxChunks
         /\ w' = RunDeferred(Popped, read, stale)
    /\ UNCHANGED <<prof, net, sent, due, open, rcvd>>

RunResume ==
    /\ Running("resume")
    /\ w' = OnResume(Popped)
    /\ UNCHANGED <<prof, net, sent, due, open, rcvd>>

RunAccess ==
    /\ Running("access")
    /\ w' = AccessAnswer(Popped, Head(w.active).req)
    /\ UNCHANGED <<prof, net, sent, due, open, rcvd>>

RunHandler ==
    /\ Running("handler")
    /\ w' = HandlerTimer(Popped, Head(w.active).req)
    /\ UNCHANGED <<prof, net, sent, due, open, rcvd>>

-----------------------------------------------------------------------------
(* The client.                                                             *)

Answered(i) == Token("end", i) \in Range(rcvd)

ClientHead ==
    /\ open /\ ~due /\ sent < NReq
    /\ Pipelining \/ sent = 0 \/ Answered(sent)
    /\ sent' = sent + 1
    /\ net' = Append(net, Token("head", sent + 1))
    /\ due' = (prof[sent + 1].body \in HasBody)
    /\ UNCHANGED <<prof, w, open, rcvd>>

ClientBody ==
    /\ open /\ due
    /\ net' = Append(net, Token("body", sent))
    /\ due' = FALSE
    /\ UNCHANGED <<prof, w, sent, open, rcvd>>

ClientClose ==
    /\ open
    /\ open' = FALSE
    /\ UNCHANGED <<prof, w, net, sent, due, rcvd>>

-----------------------------------------------------------------------------
Init ==
    /\ prof \in [Req -> Profiles]
    /\ w = Initialize
    /\ net = <<>>
    /\ sent = 0
    /\ due = FALSE
    /\ open = TRUE
    /\ rcvd = <<>>

Run == \/ RunRead \/ RunEof \/ RunError \/ RunTimeout \/ RunWrite
       \/ RunCallbacks \/ RunResume \/ RunAccess \/ RunHandler

Next == Poll \/ Run \/ ClientHead \/ ClientBody \/ ClientClose

Spec == Init /\ [][Next]_vars

(* A worker's loop runs as long as the process does: it does not leave its *)
(* active queue, or a socket event or timer that the poll could report,    *)
(* waiting forever.  (Weak fairness of Run and of Poll, with what enables  *)
(* them written out; nothing obliges the read timeout to expire.)  A       *)
(* client that has announced a body sends it.                              *)
Fairness ==
    /\ <>[](w.active # <<>>) => []<><<Run>>_vars
    /\ <>[](w.active = <<>> /\ (Readable \/ Writable \/ w.timers # {}))
         => []<><<Poll>>_vars
    /\ WF_vars(ClientBody)

FairSpec == Spec /\ Fairness

-----------------------------------------------------------------------------
(* Properties.                                                             *)

(* Every variable keeps the shape the code gives it.                       *)
TypeOK ==
    /\ prof \in [Req -> Profiles]
    /\ w \in WorkerState
    /\ net \in Seq(Tokens)
    /\ sent \in {0} \cup Req
    /\ due \in BOOLEAN
    /\ open \in BOOLEAN
    /\ rcvd \in Seq(Tokens)

(* exec() calls a route's handler only after its access policies granted   *)
(* the request: the pause of validate_headers keeps the read, write and    *)
(* resume callbacks from reaching exec() until the answer is there.        *)
HandlerRunsOnlyWhenGranted ==
    \A i \in w.ran : w.access[i] = "granted"

(* connection::resume() never dereferences a null response: whoever        *)
(* resumes the connection finds the parser still holding a response.       *)
NoNullResponse == "crashed" \notin w.flags

(* connection::resume() is only called on a paused connection; it logs     *)
(* "Resuming unpaused connection!" otherwise.                              *)
ResumedOnlyWhenPaused == "error" \notin w.flags

(* What the client receives is a sequence of whole responses in the order  *)
(* of their requests: no response starts inside another, none continues    *)
(* after its end, whatever callbacks produced its pieces.                  *)
WireOrder ==
    LET q == rcvd \o w.out
    IN \A n \in DOMAIN q :
         IF q[n].part = "head"
         THEN n = 1 \/ (q[n - 1].part = "end" /\ q[n - 1].req < q[n].req)
         ELSE n > 1 /\ q[n - 1].part # "end" /\ q[n - 1].req = q[n].req

(* A response has one end: once response_t::end() has run, nothing more is *)
(* written for the request ("MUST NOT END, ended: true").                  *)
AnsweredOnce ==
    \A i \in Req : Len(SelectSeq(rcvd \o w.out,
                                 LAMBDA t : t = Token("end", i))) <= 1

(* A request that validate_headers has made a response for: the access     *)
(* policies have answered it, or are about to.                             *)
Begun(i) ==
    \/ w.access[i] # "none"
    \/ Event("access", i) \in w.timers \cup Range(w.active)

(* The parser lets go of a response only when all of it was handed to the  *)
(* connection or the connection is closed: no write callback resets the    *)
(* parser under a response still being made, neither one that drains the   *)
(* output early nor the one of the response before, which may run in the   *)
(* same deferred event as the read that began this one.                    *)
ResetOnlyWhenAnswered ==
    Closed(w) \/ \A i \in Req :
        Begun(i) => w.cur = i \/ Token("end", i) \in Range(rcvd \o w.out)

(* The server closes a connection whose client is still there only when    *)
(* nothing is left to send: every request it had begun to serve, in the    *)
(* closing step included, was answered and the answer received to its end. *)
CloseOnlyWhenSent ==
    [][~Closed(w) /\ Closed(w') /\ w.pending \cap {"eof", "timeout"} = {}
         => \A i \in Req : Begun(i)' => Answered(i)]_vars

(* Every request is answered to its last byte, or the connection closes.   *)
EveryRequestAnswered ==
    \A i \in Req : (sent >= i /\ ~(sent = i /\ due))
                       ~> (Answered(i) \/ Closed(w) \/ ~open)

=============================================================================
