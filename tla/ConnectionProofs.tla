-------------------------- MODULE ConnectionProofs --------------------------
(***************************************************************************)
(* Proofs about Connection.                                                *)
(***************************************************************************)
EXTENDS Connection, FiniteSetTheorems, TLAPS

(* What every operation on a response leaves alone: it changes neither the *)
(* parser's current response nor what is known of access and handlers, and *)
(* the parser's status at most to completed; on a closed connection it     *)
(* activates nothing.                                                      *)
Keeps(s, t) ==
    /\ t \in WorkerState
    /\ t.cur = s.cur
    /\ t.access = s.access
    /\ t.ran = s.ran
    /\ Closed(t) <=> Closed(s)
    /\ Closed(s) => t.active = s.active
    /\ t.pending = s.pending
    /\ t.status \in {s.status, "completed"}

LEMMA KeepsTransitive ==
    ASSUME NEW s, NEW t, NEW u, Keeps(s, t), Keeps(t, u)
    PROVE  Keeps(s, u)
BY DEF Keeps

LEMMA FlagKeeps ==
    ASSUME NEW s \in WorkerState, NEW f \in Flags \ {"closed"}
    PROVE  Keeps(s, SetFlag(s, f)) /\ Keeps(s, UnsetFlag(s, f))
BY DEF SetFlag, UnsetFlag, Flags, WorkerState, Keeps, Closed

LEMMA ActivateKeeps ==
    ASSUME NEW s \in WorkerState, NEW e \in Events, ~Closed(s)
    PROVE  Keeps(s, Activate(s, e))
<1>1. Keeps(s, s)
  BY DEF Keeps, WorkerState
<1>2. Append(s.active, e) \in Seq(Events)
  BY DEF WorkerState
<1>3. Keeps(s, [s EXCEPT !.active = Append(@, e)])
  BY <1>2 DEF WorkerState, Keeps, Closed
<1> QED
  BY <1>1, <1>3 DEF Activate

LEMMA PauseKeeps ==
    ASSUME NEW s \in WorkerState, NEW i \in Req
    PROVE  Keeps(s, Pause(s, i))
<1> DEFINE t == [s EXCEPT !.held = @ \cup {i}]
<1>1. Keeps(s, s)
  BY DEF Keeps, WorkerState
<1>2. Keeps(s, t)
  BY DEF WorkerState, Keeps, Closed
<1>3. Keeps(t, SetFlag(t, "paused"))
  BY <1>2, FlagKeeps DEF Keeps, Flags
<1> QED
  BY <1>1, <1>2, <1>3, KeepsTransitive DEF Pause

LEMMA PutKeeps ==
    ASSUME NEW s \in WorkerState, NEW token \in Tokens
    PROVE  Keeps(s, Put(s, token))
<1>1. Keeps(s, s)
  BY DEF Keeps, WorkerState
<1>2. Append(s.out, token) \in Seq(Tokens)
  BY DEF WorkerState
<1>3. Keeps(s, [s EXCEPT !.out = Append(@, token)])
  BY <1>2 DEF WorkerState, Keeps, Closed
<1> QED
  BY <1>1, <1>3 DEF Put

LEMMA ReplyStartKeeps ==
    ASSUME NEW s \in WorkerState, NEW i \in Req
    PROVE  Keeps(s, ReplyStart(s, i))
<1> DEFINE t == [s EXCEPT !.started = @ \cup {i}]
           k == KeepAlive(t, prof[i].alive)
<1>1. Keeps(s, s) /\ Keeps(s, t)
  BY DEF WorkerState, Keeps, Closed
<1>2. Keeps(t, k)
  BY <1>1, FlagKeeps, ZenonT(60) DEF KeepAlive, Keeps, Flags
<1>3. Token("head", i) \in Tokens
  BY DEF Token, Tokens
<1>4. Keeps(k, Put(k, Token("head", i)))
  BY <1>2, <1>3, PutKeeps DEF Keeps
<1>5. Keeps(s, Put(k, Token("head", i)))
  BY <1>1, <1>2, <1>4, KeepsTransitive
<1> QED
  BY <1>1, <1>5 DEF ReplyStart

LEMMA CompleteUnpausedKeeps ==
    ASSUME NEW s \in WorkerState, ~Closed(s)
    PROVE  /\ Keeps(s, CompleteUnpaused(s))
           /\ CompleteUnpaused(s).status = "completed"
<1> DEFINE t == [s EXCEPT !.status = "completed"]
<1>1. Keeps(s, t) /\ t.status = "completed"
  BY DEF WorkerState, Status, Keeps, Closed
<1>2. Resume \in Events
  BY DEF Resume, Event, Events
<1>3. Keeps(t, Activate(t, Resume))
  BY <1>1, <1>2, ActivateKeeps DEF Keeps
<1> QED
  BY <1>1, <1>3, KeepsTransitive DEF CompleteUnpaused, Keeps

LEMMA FieldKeeps ==
    ASSUME NEW s \in WorkerState, NEW i \in Req
    PROVE  /\ Keeps(s, [s EXCEPT !.ended = @ \cup {i}])
           /\ Keeps(s, [s EXCEPT !.started = @ \cup {i}])
           /\ Keeps(s, [s EXCEPT !.held = @ \ {i}, !.resuming = @ \ {i}])
           /\ Keeps(s, [s EXCEPT !.resuming = @ \cup {i}])
<1>1. Keeps(s, [s EXCEPT !.ended = @ \cup {i}])
  BY DEF WorkerState, Keeps, Closed
<1>2. Keeps(s, [s EXCEPT !.started = @ \cup {i}])
  BY DEF WorkerState, Keeps, Closed
<1>3. Keeps(s, [s EXCEPT !.held = @ \ {i}, !.resuming = @ \ {i}])
  BY DEF WorkerState, Keeps, Closed
<1>4. Keeps(s, [s EXCEPT !.resuming = @ \cup {i}])
  BY DEF WorkerState, Keeps, Closed
<1> QED
  BY <1>1, <1>2, <1>3, <1>4

LEMMA CallbackKeeps ==
    ASSUME NEW s \in WorkerState, NEW i \in Req,
           NEW cb \in {"none", "access", "handler"}
    PROVE  Keeps(s, [s EXCEPT !.cb[i] = cb])
BY DEF WorkerState, Keeps, Closed

LEMMA EndKeeps ==
    ASSUME NEW s \in WorkerState, NEW i \in Req
    PROVE  LET d == Put(ReplyStart(s, i), Token("end", i))
           IN  Keeps(s, d) /\ Keeps(s, [d EXCEPT !.ended = @ \cup {i}])
<1> DEFINE r == ReplyStart(s, i)
           d == Put(r, Token("end", i))
<1>1. Keeps(s, r)
  BY ReplyStartKeeps
<1>2. Token("end", i) \in Tokens
  BY DEF Token, Tokens
<1>3. Keeps(r, d)
  BY <1>1, <1>2, PutKeeps DEF Keeps
<1>4. Keeps(s, d)
  BY <1>1, <1>3, KeepsTransitive
<1>5. Keeps(d, [d EXCEPT !.ended = @ \cup {i}])
  BY <1>4, FieldKeeps, ZenonT(60) DEF Keeps
<1> QED
  BY <1>4, <1>5, KeepsTransitive

LEMMA SendUnpausedKeeps ==
    ASSUME NEW s \in WorkerState, NEW i \in Req
    PROVE  /\ Keeps(s, SendUnpaused(s, i))
           /\ i \notin s.ended /\ ~Closed(s)
                => SendUnpaused(s, i).status = "completed"
<1> DEFINE d == Put(ReplyStart(s, i), Token("end", i))
           e == [d EXCEPT !.ended = @ \cup {i}]
<1>1. Keeps(s, d) /\ Keeps(s, e)
  BY EndKeeps
<1>2. ~Closed(s) => /\ Keeps(e, CompleteUnpaused(e))
                    /\ CompleteUnpaused(e).status = "completed"
  <2> HIDE DEF e
  <2> QED BY <1>1, CompleteUnpausedKeeps DEF Keeps
<1>3. ~Closed(s) => Keeps(s, CompleteUnpaused(e))
  BY <1>1, <1>2, KeepsTransitive
<1> QED
  BY <1>1, <1>2, <1>3 DEF SendUnpaused

(* A response whose resume callback reports a denial.                      *)
Refused(s, i) ==
    s.cb[i] = "access" /\ s.access[i] = "denied" /\ i \notin s.ended

LEMMA RunResumeCbKeeps ==
    ASSUME NEW s \in WorkerState, NEW i \in Req
    PROVE  /\ Keeps(s, RunResumeCb(s, i))
           /\ Refused(s, i) /\ ~Closed(s)
                => RunResumeCb(s, i).status = "completed"
<1>1. Keeps(s, s)
  BY DEF Keeps, WorkerState
<1>2. CASE RunResumeCb(s, i) = s
  BY <1>1, <1>2, SendUnpausedKeeps DEF RunResumeCb, Refused
<1>3. CASE RunResumeCb(s, i) = SendUnpaused(s, i)
  BY <1>3, SendUnpausedKeeps DEF Refused
<1> QED
  BY <1>2, <1>3 DEF RunResumeCb

LEMMA FinishResumeKeeps ==
    ASSUME NEW s \in WorkerState, NEW i \in Req
    PROVE  /\ Keeps(s, FinishResume(s, i))
           /\ Refused(s, i) /\ ~Closed(s) /\ i \in s.held /\ i \in s.resuming
                => FinishResume(s, i).status = "completed"
<1> DEFINE t == [s EXCEPT !.held = @ \ {i}, !.resuming = @ \ {i}]
           r == RunResumeCb(t, i)
           f == [r EXCEPT !.cb[i] = "none"]
<1>1. Keeps(s, s)
  BY DEF WorkerState, Keeps
<1>2. Keeps(s, t)
  BY FieldKeeps
<1>3. Refused(s, i) => Refused(t, i)
  BY DEF WorkerState, Refused
<1>4. Keeps(t, r) /\ (Refused(t, i) /\ ~Closed(t) => r.status = "completed")
  BY <1>2, RunResumeCbKeeps DEF Keeps
<1>5. Keeps(r, f) 
  BY <1>4, CallbackKeeps DEF Keeps
<1>6. r.status = "completed" => f.status = "completed"
  BY <1>5 DEF Keeps
<1>7. Keeps(s, f)
  BY <1>2, <1>4, <1>5, KeepsTransitive
<1>8. Closed(t) <=> Closed(s)
  BY <1>2 DEF Keeps
<1> QED
  BY <1>1, <1>3, <1>4, <1>6, <1>7, <1>8 DEF FinishResume

LEMMA ConnResumeKeeps ==
    ASSUME NEW s \in WorkerState, ~Closed(s)
    PROVE  /\ Keeps(s, ConnResume(s))
           /\ /\ s.cur # 0 /\ Paused(s) /\ Refused(s, s.cur)
              /\ s.cur \in s.held /\ s.cur \in s.resuming
              => ConnResume(s).status = "completed"
<1> DEFINE t == UnsetFlag(s, "paused")
           f == FinishResume(t, s.cur)
<1>1. Keeps(s, t) /\ Keeps(s, SetFlag(s, "error"))
  BY FlagKeeps DEF Flags
<1>2. Keeps(t, SetFlag(t, "crashed"))
  BY <1>1, FlagKeeps DEF Keeps, Flags
<1>3. t.held = s.held /\ t.resuming = s.resuming
      /\ (Refused(s, s.cur) => Refused(t, s.cur))
  BY DEF UnsetFlag, WorkerState, Refused
<1>4. ~Closed(t)
  BY <1>1 DEF Keeps
<1>5. ASSUME s.cur # 0
      PROVE  /\ Keeps(s, Activate(f, Resume))
             /\ /\ Refused(s, s.cur)
                /\ s.cur \in s.held /\ s.cur \in s.resuming
                => Activate(f, Resume).status = "completed"
  <2>1. s.cur \in Req /\ t \in WorkerState
    BY <1>1, <1>5 DEF WorkerState, Keeps
  <2>2. Keeps(t, f)
    BY <2>1, FinishResumeKeeps
  <2>3. /\ Refused(s, s.cur)
        /\ s.cur \in s.held /\ s.cur \in s.resuming
        => f.status = "completed"
    BY <1>3, <1>4, <2>1, FinishResumeKeeps
  <2>4. Resume \in Events
    BY DEF Resume, Event, Events
  <2>5. Keeps(f, Activate(f, Resume))
    BY <1>4, <2>2, <2>4, ActivateKeeps DEF Keeps
  <2>6. Keeps(s, Activate(f, Resume))
    BY <1>1, <2>2, <2>5, KeepsTransitive
  <2>7. f.status = "completed" => Activate(f, Resume).status = "completed"
    BY <2>5 DEF Keeps
  <2> QED
    BY <2>3, <2>6, <2>7
<1>6. Keeps(s, SetFlag(t, "crashed"))
  BY <1>1, <1>2, KeepsTransitive
<1> QED
  BY <1>1, <1>5, <1>6 DEF ConnResume

LEMMA ResumeResponseKeeps ==
    ASSUME NEW s \in WorkerState, NEW i \in Req
    PROVE  /\ Keeps(s, ResumeResponse(s, i))
           /\ /\ s.cur = i /\ Paused(s) /\ ~Closed(s) /\ Refused(s, i)
              /\ i \in s.held /\ i \notin s.resuming
              => ResumeResponse(s, i).status = "completed"
<1> DEFINE t == [s EXCEPT !.resuming = @ \cup {i}]
<1>1. Keeps(s, s)
  BY DEF WorkerState, Keeps
<1>2. Keeps(s, t)
  BY FieldKeeps
<1>3. Keeps(t, [t EXCEPT !.cb[i] = "none"])
  BY <1>2, CallbackKeeps DEF Keeps
<1>4. Keeps(s, [t EXCEPT !.cb[i] = "none"])
  BY <1>2, <1>3, KeepsTransitive
<1>5. ~Closed(s) => Keeps(s, ConnResume(t))
  BY <1>2, ConnResumeKeeps, KeepsTransitive DEF Keeps
<1>6. ASSUME s.cur = i, Paused(s), ~Closed(s), Refused(s, i), i \in s.held
      PROVE  ConnResume(t).status = "completed"
  <2>1. /\ t.cur = i /\ t.held = s.held /\ t.resuming = s.resuming \cup {i}
        /\ Paused(t) /\ Refused(t, i)
    BY <1>6 DEF WorkerState, Refused, Paused
  <2>2. ~Closed(t) /\ t \in WorkerState /\ i # 0
    BY <1>2, <1>6, NReqAssumption DEF Keeps, Req
  <2> QED
    BY <1>6, <2>1, <2>2, ConnResumeKeeps
<1> QED
  BY <1>1, <1>4, <1>5, <1>6 DEF ResumeResponse

LEMMA ResumeWithKeeps ==
    ASSUME NEW s \in WorkerState, NEW i \in Req,
           NEW cb \in {"none", "access", "handler"}
    PROVE  /\ Keeps(s, ResumeWith(s, i, cb))
           /\ /\ s.cur = i /\ Paused(s) /\ ~Closed(s)
              /\ cb = "access" /\ s.access[i] = "denied" /\ i \notin s.ended
              /\ i \in s.held /\ i \notin s.resuming
              => ResumeWith(s, i, cb).status = "completed"
<1> DEFINE t == [s EXCEPT !.cb[i] = cb]
<1>1. Keeps(s, s)
  BY DEF WorkerState, Keeps
<1>2. Keeps(s, t)
  BY CallbackKeeps
<1>3. Keeps(t, ResumeResponse(t, i))
  BY <1>2, ResumeResponseKeeps DEF Keeps
<1>4. Keeps(s, ResumeResponse(t, i))
  BY <1>2, <1>3, KeepsTransitive
<1>5. ASSUME s.cur = i, Paused(s), ~Closed(s), cb = "access",
             s.access[i] = "denied", i \notin s.ended,
             i \in s.held, i \notin s.resuming
      PROVE  ResumeResponse(t, i).status = "completed"
  <2>1. /\ t.cur = i /\ t.held = s.held /\ t.resuming = s.resuming
        /\ Paused(t) /\ Refused(t, i)
    BY <1>5 DEF WorkerState, Refused, Paused
  <2>2. ~Closed(t) /\ t \in WorkerState
    BY <1>2, <1>5 DEF Keeps
  <2> QED
    BY <1>5, <2>1, <2>2, ResumeResponseKeeps
<1> QED
  BY <1>1, <1>4, <1>5 DEF ResumeWith

LEMMA CompleteResponseKeeps ==
    ASSUME NEW s \in WorkerState, ~Closed(s)
    PROVE  Keeps(s, CompleteResponse(s))
<1> DEFINE t == [s EXCEPT !.status = "completed"]
<1>1. Keeps(s, t)
  BY DEF WorkerState, Status, Keeps, Closed
<1>2. Keeps(t, ConnResume(t))
  BY <1>1, ConnResumeKeeps DEF Keeps
<1>3. Keeps(s, ConnResume(t))
  BY <1>1, <1>2, KeepsTransitive
<1> QED
  BY <1>3, CompleteUnpausedKeeps DEF CompleteResponse

LEMMA SendKeeps ==
    ASSUME NEW s \in WorkerState, NEW i \in Req
    PROVE  Keeps(s, Send(s, i))
<1> DEFINE a == IF i \in s.held THEN ResumeResponse(s, i) ELSE s
           d == Put(ReplyStart(a, i), Token("end", i))
           e == [d EXCEPT !.ended = @ \cup {i}]
<1>1. Keeps(s, a)
  <2>1. Keeps(s, s)
    BY DEF WorkerState, Keeps
  <2> QED
    BY <2>1, ResumeResponseKeeps
<1>2. Keeps(a, d) /\ Keeps(a, e)
  <2>1. a \in WorkerState
    BY <1>1 DEF Keeps
  <2> HIDE DEF a
  <2> QED BY <2>1, EndKeeps
<1>3. Keeps(s, d) /\ Keeps(s, e)
  BY <1>1, <1>2, KeepsTransitive
<1>4. ~Closed(s) => Keeps(e, CompleteResponse(e))
  <2> HIDE DEF e
  <2> QED BY <1>3, CompleteResponseKeeps DEF Keeps
<1>5. ~Closed(s) => Keeps(s, CompleteResponse(e))
  BY <1>3, <1>4, KeepsTransitive
<1> QED
  BY <1>3, <1>5 DEF Send

LEMMA SendFileKeeps ==
    ASSUME NEW s \in WorkerState, NEW i \in Req
    PROVE  Keeps(s, SendFile(s, i))
<1> DEFINE r == ReplyStart(s, i)
           f == [r EXCEPT !.file = i, !.chunks = 0]
<1>1. Keeps(s, r)
  BY ReplyStartKeeps
<1>2. Keeps(r, f)
  <2>1. r \in WorkerState
    BY <1>1 DEF Keeps
  <2> HIDE DEF r
  <2> QED BY <2>1 DEF WorkerState, Keeps, Closed
<1>3. Keeps(s, f)
  BY <1>1, <1>2, KeepsTransitive
<1> QED
  BY <1>3, SendKeeps DEF SendFile

LEMMA SendFileChunkKeeps ==
    ASSUME NEW s \in WorkerState, ~Closed(s), s.file # 0, NEW read
    PROVE  Keeps(s, SendFileChunk(s, read))
<1> DEFINE i == s.file
           p == Put(s, Token("data", i))
           d == SendChunk(s, i, read)
           q == Put(d, Token("end", i))
           e == [q EXCEPT !.file = 0]
<1>1. Token("data", i) \in Tokens /\ Token("end", i) \in Tokens
  BY DEF WorkerState, Token, Tokens
<1>2. Keeps(s, s) /\ Keeps(s, p)
  BY <1>1, PutKeeps DEF Keeps
<1>3. Keeps(p, [p EXCEPT !.chunks = @ + 1])
  <2>1. p \in WorkerState
    BY <1>2 DEF Keeps
  <2> HIDE DEF p
  <2>2. p.chunks + 1 \in Nat
    BY <2>1 DEF WorkerState
  <2> QED BY <2>1, <2>2 DEF WorkerState, Keeps, Closed
<1>4. Keeps(s, d)
  BY <1>2, <1>3, KeepsTransitive DEF SendChunk
<1>5. Keeps(d, q)
  BY <1>1, <1>4, PutKeeps DEF Keeps
<1>6. Keeps(q, e)
  <2>1. q \in WorkerState
    BY <1>5 DEF Keeps
  <2> HIDE DEF q
  <2> QED BY <2>1 DEF WorkerState, Keeps, Closed
<1>7. Keeps(s, e)
  BY <1>4, <1>5, <1>6, KeepsTransitive
<1>8. Keeps(e, CompleteResponse(e))
  <2> HIDE DEF e
  <2> QED BY <1>7, CompleteResponseKeeps DEF Keeps
<1>9. Keeps(s, CompleteResponse(e))
  BY <1>7, <1>8, KeepsTransitive
<1> QED
  BY <1>2, <1>4, <1>9 DEF SendFileChunk

-----------------------------------------------------------------------------
(* The application's policies all answer within the call.                  *)
PromptAccess == \A p \in Profiles : p.access = "now"

(* The inductive invariant, of the state a callback starts from and leaves *)
(* behind.  A request whose body is awaited or that is ready to be         *)
(* executed is the parser's current one; a closed connection has no event  *)
(* of its own left in the queue and owes no callback.  When the policies   *)
(* are prompt, every handler called was granted, an answer to grant is the *)
(* one the policies give, and the current request was granted before its   *)
(* body is read or it becomes ready.                                       *)
GrantedInv(s) ==
    /\ s \in WorkerState
    /\ PromptAccess => \A i \in s.ran : s.access[i] = "granted"
    /\ \A i \in Req : s.access[i] = "granted" => prof[i].verdict = "grant"
    /\ s.status \in {"parse_body", "ready_to_exec"}
         => s.cur # 0 /\ (PromptAccess => s.access[s.cur] = "granted")
    /\ Closed(s) => \A e \in Range(s.active) : e.kind \in Application
    /\ Closed(s) => s.pending = {}

LEMMA KeepsInv ==
    ASSUME NEW s, NEW t, GrantedInv(s), Keeps(s, t)
    PROVE  GrantedInv(t)
BY DEF GrantedInv, Keeps

LEMMA ParserResetInv ==
    ASSUME NEW s, GrantedInv(s)
    PROVE  /\ GrantedInv(ParserReset(s))
           /\ Closed(ParserReset(s)) <=> Closed(s)
<1> DEFINE t == [s EXCEPT !.status = "parse_req_line", !.cur = 0]
<1>1. GrantedInv(t) /\ (Closed(t) <=> Closed(s))
  BY ZenonT(60) DEF GrantedInv, WorkerState, Status, Closed
<1>2. ASSUME s.cur # 0
      PROVE  Keeps(t, [t EXCEPT !.cb[s.cur] = "none"])
  <2>1. s.cur \in Req
    BY <1>2 DEF GrantedInv, WorkerState
  <2> QED
    BY <1>1, <2>1, CallbackKeeps DEF GrantedInv
<1>3. ASSUME s.cur # 0
      PROVE  /\ GrantedInv([t EXCEPT !.cb[s.cur] = "none"])
             /\ Closed([t EXCEPT !.cb[s.cur] = "none"]) <=> Closed(t)
  <2> HIDE DEF t
  <2> QED BY <1>1, <1>2, <1>3, KeepsInv DEF Keeps
<1> QED
  BY <1>1, <1>3 DEF ParserReset

LEMMA CloseInv ==
    ASSUME NEW s, GrantedInv(s)
    PROVE  GrantedInv(Close(s)) /\ Closed(Close(s))
<1> DEFINE p == ParserReset(s)
           c == SetFlag(p, "closed")
           expired == {e \in Range(s.active) : e.kind \in Application}
<1>1. GrantedInv(p)
  BY ParserResetInv
<1>2. /\ c \in WorkerState /\ c.status = p.status /\ c.cur = p.cur
      /\ c.ran = p.ran /\ c.access = p.access /\ Closed(c)
  <2> HIDE DEF p
  <2> QED BY <1>1 DEF GrantedInv, SetFlag, WorkerState, Flags, Closed
<1>3. expired \in SUBSET Timers
  <2>1. \A e \in Range(s.active) : e \in Events
    BY DEF GrantedInv, WorkerState, Range
  <2> QED
    BY <2>1 DEF Events, Timers, Application
<1>4. ASSUME NEW x \in WorkerState, NEW d \in SUBSET Timers
      PROVE  LET y == [x EXCEPT !.in = <<>>, !.out = <<>>, !.file = 0,
                                !.pending = {}, !.timers = @ \cup d,
                                !.active = <<>>]
             IN /\ y \in WorkerState /\ y.status = x.status /\ y.cur = x.cur
                /\ y.ran = x.ran /\ y.access = x.access
                /\ y.flags = x.flags /\ y.active = <<>> /\ y.pending = {}
  <2> DEFINE y == [x EXCEPT !.in = <<>>, !.out = <<>>, !.file = 0,
                            !.pending = {}, !.timers = @ \cup d,
                            !.active = <<>>]
  <2>1. /\ <<>> \in Seq(Tokens) /\ <<>> \in Seq(Events)
        /\ x.timers \cup d \in SUBSET Timers
    BY DEF WorkerState
  <2>2. y \in WorkerState
    BY <2>1 DEF WorkerState
  <2>3. /\ y.status = x.status /\ y.cur = x.cur
        /\ y.ran = x.ran /\ y.access = x.access
        /\ y.flags = x.flags /\ y.active = <<>> /\ y.pending = {}
    BY DEF WorkerState
  <2> QED
    BY <2>2, <2>3
<1>5. /\ Close(s) \in WorkerState /\ Close(s).status = c.status
      /\ Close(s).cur = c.cur /\ Close(s).ran = c.ran
      /\ Close(s).access = c.access /\ Close(s).flags = c.flags
      /\ Close(s).active = <<>> /\ Close(s).pending = {}
  BY <1>2, <1>3, <1>4 DEF Close
<1>6. Range(Close(s).active) = {}
  BY <1>5 DEF Range
<1> QED
  BY <1>1, <1>2, <1>5, <1>6 DEF GrantedInv, Closed

LEMMA SetTimerKeeps ==
    ASSUME NEW s \in WorkerState, NEW kind \in Application, NEW i \in Req
    PROVE  Keeps(s, SetTimer(s, kind, i))
<1>1. s.timers \cup {Event(kind, i)} \in SUBSET Timers
  BY DEF WorkerState, Event, Timers
<1> QED
  BY <1>1 DEF SetTimer, WorkerState, Keeps, Closed

(* exec() keeps the invariant: it is called for a granted request.         *)
LEMMA ExecInv ==
    ASSUME NEW s, GrantedInv(s), s.status = "ready_to_exec"
    PROVE  GrantedInv(Exec(s)) /\ (Closed(Exec(s)) <=> Closed(s))
<1> DEFINE i == s.cur
           t == [s EXCEPT !.status = "responding", !.ran = @ \cup {i}]
<1>1. /\ i \in Req /\ s \in WorkerState
      /\ PromptAccess => s.access[i] = "granted"
  BY DEF GrantedInv, WorkerState
<1>2. /\ t \in WorkerState /\ t.status = "responding" /\ t.cur = s.cur
      /\ t.ran = s.ran \cup {i} /\ t.access = s.access
      /\ t.flags = s.flags /\ t.active = s.active /\ t.pending = s.pending
  BY <1>1 DEF WorkerState, Status
<1>3. GrantedInv(t) /\ (Closed(t) <=> Closed(s))
  <2> HIDE DEF t
  <2> QED BY <1>1, <1>2 DEF GrantedInv, Closed
<1>4. Keeps(t, Exec(s))
  <2> HIDE DEF t, i
  <2>1. Keeps(t, Send(t, i)) /\ Keeps(t, SendFile(t, i)) /\ Keeps(t, Pause(t, i))
    BY <1>1, <1>2, SendKeeps, SendFileKeeps, PauseKeeps
  <2>2. Keeps(Send(t, i), Send(Send(t, i), i))
    BY <1>1, <2>1, SendKeeps DEF Keeps
  <2>3. Keeps(t, SetTimer(t, "handler", i))
    BY <1>1, <1>2, SetTimerKeeps DEF Application
  <2>4. Keeps(Pause(t, i), SetTimer(Pause(t, i), "handler", i))
    BY <1>1, <2>1, SetTimerKeeps DEF Application, Keeps
  <2>5. Keeps(t, Send(Send(t, i), i))
        /\ Keeps(t, SetTimer(Pause(t, i), "handler", i))
    BY <2>1, <2>2, <2>4, KeepsTransitive
  <2> QED
    BY <2>1, <2>3, <2>5 DEF Exec, t, i
<1> QED
  BY <1>3, <1>4, KeepsInv DEF Keeps

LEMMA AccessAnswerInv ==
    ASSUME NEW s, GrantedInv(s), NEW i \in Req
    PROVE  LET t == [s EXCEPT !.access[i] = IF prof[i].verdict = "grant"
                                            THEN "granted" ELSE "denied"]
           IN /\ GrantedInv(t)
              /\ Keeps(t, AccessAnswer(s, i))
              /\ GrantedInv(AccessAnswer(s, i))
<1> DEFINE v == IF prof[i].verdict = "grant" THEN "granted" ELSE "denied"
           t == [s EXCEPT !.access[i] = v]
<1>1. /\ t \in WorkerState /\ t.status = s.status /\ t.cur = s.cur
      /\ t.ran = s.ran /\ t.flags = s.flags /\ t.active = s.active
      /\ t.pending = s.pending
      /\ t.access = [s.access EXCEPT ![i] = v]
  BY ZenonT(60) DEF GrantedInv, WorkerState
<1>2. /\ s \in WorkerState /\ s.access \in [Req -> {"none", "granted", "denied"}]
      /\ s.ran \subseteq Req /\ s.cur \in {0} \cup Req
  BY DEF GrantedInv, WorkerState
<1>3. GrantedInv(t)
  <2> HIDE DEF t
  <2> QED BY <1>1, <1>2 DEF GrantedInv, Closed
<1>4. Keeps(t, AccessAnswer(s, i))
  BY <1>1, ResumeWithKeeps DEF AccessAnswer
<1> QED
  BY <1>3, <1>4, KeepsInv

(* validate_headers: when the policies answer within the call, a denied    *)
(* request is answered before it returns.                                  *)
LEMMA ValidateHeadersInv ==
    ASSUME prof \in [Req -> Profiles],
           NEW s, GrantedInv(s), ~Closed(s), NEW i \in Req,
           s.status = "parse_header"
    PROVE  LET v == ValidateHeaders(s, i)
           IN /\ GrantedInv(v) /\ ~Closed(v) /\ v.cur = i
              /\ v.status \in {"parse_header", "error", "completed"}
              /\ v.status = "parse_header" /\ PromptAccess
                   => v.access[i] = "granted"
<1> DEFINE n == NewResponse(s, i)
           st == IF prof[i].route = "missing" THEN "error" ELSE n.status
           m == [n EXCEPT !.cur = i, !.status = st]
           p == Pause(m, i)
           ans == IF prof[i].verdict = "grant" THEN "granted" ELSE "denied"
           a == [p EXCEPT !.access[i] = ans]
           v == AccessAnswer(p, i)
<1>1. /\ n \in WorkerState /\ n.status = "parse_header" /\ n.ran = s.ran
      /\ n.access = s.access /\ n.flags = s.flags /\ n.active = s.active
      /\ n.pending = s.pending
      /\ i \notin n.ended /\ i \notin n.held /\ i \notin n.resuming
  BY DEF GrantedInv, WorkerState, NewResponse
<1>2. /\ m \in WorkerState /\ m.status \in {"parse_header", "error"}
      /\ m.cur = i /\ m.ran = s.ran
      /\ m.access = s.access /\ m.flags = s.flags /\ m.active = s.active
      /\ m.pending = s.pending
      /\ i \notin m.ended /\ i \notin m.held /\ i \notin m.resuming
  <2> HIDE DEF n
  <2> QED BY <1>1, ZenonT(60) DEF WorkerState, Status
<1>3. GrantedInv(m) /\ ~Closed(m)
  <2> HIDE DEF m
  <2> QED BY <1>2 DEF GrantedInv, Closed
<1>4. Keeps(m, p)
  BY <1>2, PauseKeeps
<1>5. GrantedInv(p) /\ ~Closed(p) /\ p.cur = i
      /\ p.status \in {m.status, "completed"}
  <2> HIDE DEF m, p
  <2>1. GrantedInv(p)
    BY <1>3, <1>4, KeepsInv
  <2> QED BY <1>2, <1>3, <1>4, <2>1 DEF Keeps
<1>6. /\ Paused(p) /\ i \in p.held /\ i \notin p.resuming /\ i \notin p.ended
      /\ p.status = m.status
  <2> HIDE DEF m
  <2> QED BY <1>2, <1>3 DEF Pause, SetFlag, WorkerState, Paused
<1>7. GrantedInv(a) /\ Keeps(a, v) /\ GrantedInv(v)
  <2> HIDE DEF p
  <2> QED BY <1>5, AccessAnswerInv
<1>8. /\ a \in WorkerState /\ a.status = p.status /\ a.cur = i
      /\ a.access[i] = ans /\ a.flags = p.flags
      /\ i \in a.held /\ i \notin a.resuming /\ i \notin a.ended
  <2>1. a \in WorkerState /\ p \in WorkerState
    BY <1>5, <1>7 DEF GrantedInv
  <2> HIDE DEF p, ans
  <2>2. /\ a.status = p.status /\ a.cur = p.cur /\ a.flags = p.flags
        /\ a.held = p.held /\ a.resuming = p.resuming /\ a.ended = p.ended
    BY <2>1 DEF WorkerState
  <2>3. a.access[i] = ans
    BY <2>1 DEF WorkerState
  <2> QED BY <1>5, <1>6, <2>1, <2>2, <2>3
<1>9. Paused(a) /\ ~Closed(a)
  BY <1>5, <1>6, <1>8 DEF Paused, Closed
<1>10. ans = "denied" => v.status = "completed"
  <2>1. v = ResumeWith(a, i, "access")
    BY DEF AccessAnswer
  <2> HIDE DEF a, v, ans
  <2> QED BY <1>8, <1>9, <2>1, ResumeWithKeeps
<1>11. /\ ~Closed(v) /\ v.cur = i /\ v.access[i] = ans
       /\ v.status \in {"parse_header", "error", "completed"}
  <2> HIDE DEF a, v, ans, m, p
  <2> QED BY <1>2, <1>6, <1>7, <1>8, <1>9 DEF Keeps
<1>12. ValidateHeaders(s, i) = IF prof[i].access = "now" THEN v
                               ELSE SetTimer(p, "access", i)
  BY DEF ValidateHeaders
<1>13. Keeps(p, SetTimer(p, "access", i))
  BY <1>5, SetTimerKeeps DEF GrantedInv, Application
<1>14. LET l == SetTimer(p, "access", i)
       IN /\ GrantedInv(l) /\ ~Closed(l) /\ l.cur = i
          /\ l.status \in {"parse_header", "error", "completed"}
  <2> HIDE DEF p, m
  <2> QED BY <1>2, <1>5, <1>6, <1>13, KeepsInv DEF Keeps
<1>15. prof[i].access # "now" => ~PromptAccess
  BY DEF PromptAccess
<1> QED
  <2> HIDE DEF v, p
  <2> QED BY <1>7, <1>10, <1>11, <1>12, <1>14, <1>15

-----------------------------------------------------------------------------
LEMMA StatusInv ==
    ASSUME NEW s, GrantedInv(s), NEW st \in Status,
           st \in {"parse_body", "ready_to_exec"}
             => s.cur # 0 /\ (PromptAccess => s.access[s.cur] = "granted")
    PROVE  /\ GrantedInv([s EXCEPT !.status = st])
           /\ Closed([s EXCEPT !.status = st]) <=> Closed(s)
<1> DEFINE t == [s EXCEPT !.status = st]
<1>1. /\ t \in WorkerState /\ t.status = st /\ t.cur = s.cur
      /\ t.ran = s.ran /\ t.flags = s.flags /\ t.active = s.active
      /\ t.pending = s.pending /\ t.access = s.access
  BY DEF GrantedInv, WorkerState
<1>2. GrantedInv(t) /\ (Closed(t) <=> Closed(s))
  <2> HIDE DEF t
  <2> QED BY <1>1 DEF GrantedInv, Closed
<1> QED
  BY <1>2

LEMMA InputInv ==
    ASSUME NEW s, GrantedInv(s), NEW q \in Seq(Tokens)
    PROVE  Keeps(s, [s EXCEPT !.in = q]) /\ [s EXCEPT !.in = q].in = q
BY DEF GrantedInv, WorkerState, Keeps, Closed

LEMMA ParseHeadInv ==
    ASSUME prof \in [Req -> Profiles],
           NEW s, GrantedInv(s), ~Closed(s), NEW i \in Req
    PROVE  GrantedInv(ParseHead(s, i))
<1> DEFINE t == [s EXCEPT !.status = "parse_header"]
           v == ValidateHeaders(t, i)
           ready == [v EXCEPT !.status = "ready_to_exec"]
<1>1. GrantedInv(t) /\ ~Closed(t) /\ t.status = "parse_header"
  <2>1. GrantedInv(t) /\ ~Closed(t)
    BY StatusInv DEF Status
  <2> QED
    BY <2>1 DEF GrantedInv, WorkerState
<1>3. /\ GrantedInv(v) /\ v.cur = i
      /\ v.status = "parse_header" /\ PromptAccess
           => v.access[i] = "granted"
  <2> HIDE DEF t
  <2> QED BY <1>1, ValidateHeadersInv
<1>4. i # 0
  BY NReqAssumption DEF Req
<1>5. GrantedInv(PostHeaders(v, i))
  <2> HIDE DEF v
  <2>1. CASE v.status # "parse_header"
    BY <1>3, <2>1 DEF PostHeaders
  <2>2. CASE v.status = "parse_header"
    <3>1. GrantedInv(ready) /\ GrantedInv([v EXCEPT !.status = "parse_body"])
      BY <1>3, <1>4, <2>2, StatusInv DEF Status
    <3>2. Keeps(ready, ResumeResponse(ready, i))
      BY <3>1, ResumeResponseKeeps DEF GrantedInv
    <3>3. GrantedInv(ResumeResponse(ready, i))
      BY <3>1, <3>2, KeepsInv
    <3>4. GrantedInv([v EXCEPT !.status = "error"])
      BY <1>3, StatusInv DEF Status
    <3>5. GrantedInv([ParserReset(v) EXCEPT !.in = <<Token("eol", i)>> \o @])
      <4> DEFINE r == ParserReset(v)
                 q == <<Token("eol", i)>> \o r.in
      <4>1. GrantedInv(r)
        BY <1>3, ParserResetInv
      <4> HIDE DEF r
      <4>2. Token("eol", i) \in Tokens /\ r.in \in Seq(Tokens)
        BY <4>1 DEF Token, Tokens, GrantedInv, WorkerState
      <4>3. q \in Seq(Tokens)
        BY <4>2
      <4>4. Keeps(r, [r EXCEPT !.in = q])
        BY <4>1, <4>3, InputInv
      <4>5. GrantedInv([r EXCEPT !.in = q])
        BY <4>1, <4>4, KeepsInv
      <4> QED BY <4>5 DEF r
    <3> QED
      BY <2>2, <3>1, <3>3, <3>4, <3>5 DEF PostHeaders
  <2> QED BY <2>1, <2>2
<1>6. GrantedInv(Close(s)) /\ GrantedInv([s EXCEPT !.status = "error"])
  BY CloseInv, StatusInv DEF Status
<1> QED
  BY <1>5, <1>6 DEF ParseHead

LEMMA ParseBodyInv ==
    ASSUME NEW s, GrantedInv(s), s.status = "parse_body"
    PROVE  GrantedInv(ParseBody(s))
<1>1. CASE s.in = <<>>
  BY <1>1 DEF ParseBody
<1>2. CASE s.in # <<>>
  <2> DEFINE u == [s EXCEPT !.in = Tail(@)]
  <2>1. Tail(s.in) \in Seq(Tokens)
    BY <1>2 DEF GrantedInv, WorkerState
  <2>2. Keeps(s, u)
    BY <2>1, InputInv
  <2>3. GrantedInv(u)
    BY <2>2, KeepsInv
  <2>4. u.cur # 0 /\ (PromptAccess => u.access[u.cur] = "granted")
    BY <2>2 DEF Keeps, GrantedInv
  <2>5. GrantedInv([u EXCEPT !.status = "ready_to_exec"])
    <3> HIDE DEF u
    <3> QED BY <2>3, <2>4, StatusInv DEF Status
  <2>6. s.cur \in Req
    BY DEF GrantedInv, WorkerState
  <2>7. GrantedInv(Send(u, s.cur))
    <3> HIDE DEF u
    <3>1. Keeps(u, Send(u, s.cur))
      BY <2>3, <2>6, SendKeeps DEF GrantedInv
    <3> QED BY <2>3, <3>1, KeepsInv
  <2> QED
    BY <1>2, <2>5, <2>7 DEF ParseBody
<1> QED BY <1>1, <1>2

LEMMA ParseInv ==
    ASSUME prof \in [Req -> Profiles],
           NEW s, GrantedInv(s), ~Closed(s)
    PROVE  GrantedInv(Parse(s))
<1>1. ASSUME FirstHead(s.in) # {}
      PROVE  GrantedInv(ParseLines(s))
  <2> DEFINE n == CHOOSE n \in FirstHead(s.in) : TRUE
             q == SubSeq(s.in, n + 1, Len(s.in))
             r == [s EXCEPT !.in = SubSeq(@, n + 1, Len(@))]
             i == s.in[n].req
             t == ParseHead(r, i)
  <2>1. s.in \in Seq(Tokens)
    BY DEF GrantedInv, WorkerState
  <2>2. n \in FirstHead(s.in)
    BY <1>1
  <2>3. n \in 1..Len(s.in) /\ i \in Req
    <3> HIDE DEF n
    <3>1. n \in 1..Len(s.in)
      BY <2>1, <2>2 DEF FirstHead
    <3>2. s.in[n] \in Tokens
      BY <2>1, <3>1
    <3> QED BY <3>1, <3>2 DEF Tokens
  <2>4. q \in Seq(Tokens)
    <3> HIDE DEF n
    <3> QED BY <2>1, <2>3
  <2>5. Keeps(s, r)
    BY <2>4, InputInv
  <2>6. GrantedInv(r) /\ ~Closed(r)
    BY <2>5, KeepsInv DEF Keeps
  <2>7. GrantedInv(t)
    <3> HIDE DEF r, i
    <3> QED BY <2>3, <2>6, ParseHeadInv
  <2>8. GrantedInv([t EXCEPT !.in = <<>>])
    <3> HIDE DEF t
    <3>1. Keeps(t, [t EXCEPT !.in = <<>>])
      <4>1. <<>> \in Seq(Tokens)
        OBVIOUS
      <4> QED BY <2>7, <4>1, InputInv
    <3> QED BY <2>7, <3>1, KeepsInv
  <2>9. t.status = "parse_body" => GrantedInv(ParseBody(t))
    <3> HIDE DEF t
    <3> QED BY <2>7, ParseBodyInv
  <2> QED
    BY <2>7, <2>8, <2>9 DEF ParseLines
<1> QED
  BY <1>1, ParseBodyInv, CloseInv DEF Parse

-----------------------------------------------------------------------------
(* The callbacks.                                                          *)

LEMMA OnReadInv ==
    ASSUME prof \in [Req -> Profiles],
           NEW s, GrantedInv(s), ~Closed(s)
    PROVE  GrantedInv(OnRead(s))
<1> DEFINE a == IF s.status \in {"completed", "error"}
                THEN ParserReset(s) ELSE s
           b == Parse(a)
<1>1. GrantedInv(a) /\ ~Closed(a)
  BY ParserResetInv
<1>2. GrantedInv(b)
  <2> HIDE DEF a
  <2> QED BY <1>1, ParseInv
<1>3. b.status = "ready_to_exec" => GrantedInv(Exec(b))
  <2> HIDE DEF b
  <2> QED BY <1>2, ExecInv
<1> QED
  BY <1>1, <1>2, <1>3 DEF OnRead

LEMMA OnWriteInv ==
    ASSUME NEW s, GrantedInv(s), ~Closed(s), NEW read
    PROVE  GrantedInv(OnWrite(s, read))
<1>1. s.status = "ready_to_exec" => GrantedInv(Exec(s))
  BY ExecInv
<1>2. s.file # 0 => GrantedInv(SendFileChunk(s, read))
  <2>1. s \in WorkerState
    BY DEF GrantedInv
  <2> QED
    BY <2>1, SendFileChunkKeeps, KeepsInv
<1>3. GrantedInv(ParserReset(s)) /\ GrantedInv(Close(s))
  BY ParserResetInv, CloseInv
<1> QED
  BY <1>1, <1>2, <1>3 DEF OnWrite

LEMMA OnResumeInv ==
    ASSUME prof \in [Req -> Profiles],
           NEW s, GrantedInv(s), ~Closed(s)
    PROVE  GrantedInv(OnResume(s))
<1> DEFINE a == UnsetFlag(s, "paused")
           b == UnsetFlag(a, "mute")
           c == IF "deaf" \in a.flags THEN UnsetFlag(b, "deaf") ELSE a
<1>1. Keeps(s, a)
  BY FlagKeeps DEF Flags, GrantedInv
<1>2. GrantedInv(a) /\ ~Closed(a)
  <2> HIDE DEF a
  <2> QED BY <1>1, KeepsInv DEF Keeps
<1>3. a.status = "ready_to_exec" => GrantedInv(Exec(a))
  <2> HIDE DEF a
  <2> QED BY <1>2, ExecInv
<1>4. GrantedInv(b) /\ GrantedInv(c) /\ ~Closed(c)
  <2> HIDE DEF a
  <2>1. Keeps(a, b)
    BY <1>2, FlagKeeps DEF Flags, GrantedInv
  <2>2. GrantedInv(b) /\ ~Closed(b)
    <3> HIDE DEF b
    <3> QED BY <1>2, <2>1, KeepsInv DEF Keeps
  <2>3. Keeps(b, UnsetFlag(b, "deaf"))
    <3> HIDE DEF b
    <3> QED BY <2>2, FlagKeeps DEF Flags, GrantedInv
  <2>4. GrantedInv(UnsetFlag(b, "deaf")) /\ ~Closed(UnsetFlag(b, "deaf"))
    BY <2>2, <2>3, KeepsInv DEF Keeps
  <2> QED
    BY <1>2, <2>2, <2>4
<1>5. GrantedInv(OnRead(c))
  <2> HIDE DEF c
  <2> QED BY <1>4, OnReadInv
<1> QED
  BY <1>3, <1>4, <1>5 DEF OnResume

(* Taking callbacks off the ones the bufferevent owes.                     *)
LEMMA PendingInv ==
    ASSUME NEW s, GrantedInv(s), NEW x \in s.pending, NEW p \in SUBSET s.pending
    PROVE  /\ GrantedInv([s EXCEPT !.pending = p])
           /\ ~Closed([s EXCEPT !.pending = p])
<1> DEFINE t == [s EXCEPT !.pending = p]
<1>1. s \in WorkerState /\ ~Closed(s)
  BY DEF GrantedInv
<1>2. p \in SUBSET {"read", "write", "eof", "timeout", "error"}
  BY <1>1 DEF WorkerState
<1>3. /\ t \in WorkerState /\ t.status = s.status /\ t.cur = s.cur
      /\ t.ran = s.ran /\ t.flags = s.flags /\ t.active = s.active
      /\ t.access = s.access
  BY <1>1, <1>2 DEF WorkerState
<1>4. GrantedInv(t) /\ ~Closed(t)
  <2> HIDE DEF t
  <2> QED BY <1>1, <1>3 DEF GrantedInv, Closed
<1> QED
  BY <1>4

LEMMA RunDeferredInv ==
    ASSUME prof \in [Req -> Profiles],
           NEW s, GrantedInv(s), NEW read, NEW stale
    PROVE  GrantedInv(RunDeferred(s, read, stale))
<1> DEFINE c == [s EXCEPT !.pending = @ \ {"read"}]
           a == IF "read" \in s.pending THEN OnRead(c) ELSE s
           d == [a EXCEPT !.pending = @ \ {"write"}]
           b == IF "write" \in a.pending THEN OnWrite(d, read) ELSE a
           e == [b EXCEPT !.pending = {}]
<1>1. GrantedInv(a)
  <2>1. ASSUME "read" \in s.pending PROVE GrantedInv(OnRead(c))
    <3>1. GrantedInv(c) /\ ~Closed(c)
      BY <2>1, PendingInv
    <3> HIDE DEF c
    <3> QED BY <3>1, OnReadInv
  <2> QED
    BY <2>1
<1>2. GrantedInv(b)
  <2>1. ASSUME "write" \in a.pending PROVE GrantedInv(OnWrite(d, read))
    <3>1. GrantedInv(d) /\ ~Closed(d)
      <4> HIDE DEF a
      <4> QED BY <1>1, <2>1, PendingInv
    <3> HIDE DEF d
    <3> QED BY <3>1, OnWriteInv
  <2> HIDE DEF a
  <2> QED
    BY <1>1, <2>1
<1>3. ASSUME b.pending \cap {"eof", "timeout", "error"} # {}
      PROVE  GrantedInv(OnEvent(b, stale))
  <2> HIDE DEF b
  <2>1. GrantedInv(e)
    BY <1>2, <1>3, PendingInv
  <2> QED
    BY <1>2, <1>3, <2>1, CloseInv DEF OnEvent
<1> QED
  <2> HIDE DEF b
  <2>1. RunDeferred(s, read, stale)
          = IF b.pending \cap {"eof", "timeout", "error"} # {}
            THEN OnEvent(b, stale) ELSE b
    BY DEF RunDeferred, b
  <2> QED BY <1>2, <1>3, <2>1

LEMMA HandlerTimerInv ==
    ASSUME NEW s, GrantedInv(s), NEW i \in Req
    PROVE  GrantedInv(HandlerTimer(s, i))
<1>1. Keeps(s, ResumeWith(s, i, "handler")) /\ Keeps(s, Send(s, i))
  BY ResumeWithKeeps, SendKeeps DEF GrantedInv
<1> QED
  BY <1>1, KeepsInv DEF HandlerTimer

-----------------------------------------------------------------------------
(* The steps of the loop.                                                  *)

LEMMA TimersFinite == IsFiniteSet(Timers)
<1> DEFINE f == [t \in Timers |-> IF t.kind = "access" THEN t.req
                                                       ELSE NReq + t.req]
<1>1. \A t \in Timers : /\ t = [kind |-> t.kind, req |-> t.req]
                        /\ t.kind \in {"access", "handler"}
                        /\ t.req \in 1..NReq
  BY DEF Timers, Application, Req
<1>2. f \in [Timers -> 1..(NReq + NReq)]
  BY <1>1, NReqAssumption
<1>3. ASSUME NEW t \in Timers, NEW u \in Timers, f[t] = f[u]
      PROVE  t = u
  <2>1. t.kind = u.kind /\ t.req = u.req
    BY <1>1, <1>3, NReqAssumption
  <2> QED
    BY <1>1, <2>1
<1>4. f \in Injection(Timers, 1..(NReq + NReq))
  BY <1>2, <1>3, Zenon DEF Injection, IsInjective
<1>5. IsFiniteSet(1..(NReq + NReq))
  BY FS_Interval, NReqAssumption
<1> QED
  BY <1>4, <1>5, FS_Injection

(* Taking the first event off the active queue.                            *)
LEMMA PoppedInv ==
    ASSUME GrantedInv(w), w.active # <<>>
    PROVE  /\ GrantedInv(Popped)
           /\ Popped.flags = w.flags /\ Popped.in = w.in /\ Popped.out = w.out
           /\ Head(w.active) \in Events
           /\ Closed(w) => Head(w.active).kind \in Application
<1>1. w \in WorkerState /\ w.active \in Seq(Events)
  BY DEF GrantedInv, WorkerState
<1>2. /\ Tail(w.active) \in Seq(Events) /\ Head(w.active) \in Events
      /\ Head(w.active) = w.active[1] /\ 1 \in DOMAIN w.active
      /\ \A n \in DOMAIN Tail(w.active) : /\ n + 1 \in DOMAIN w.active
                                          /\ Tail(w.active)[n] = w.active[n + 1]
  BY <1>1
<1>3. Range(Tail(w.active)) \subseteq Range(w.active)
      /\ Head(w.active) \in Range(w.active)
  BY <1>2 DEF Range
<1>4. /\ Popped \in WorkerState /\ Popped.status = w.status
      /\ Popped.cur = w.cur /\ Popped.ran = w.ran
      /\ Popped.access = w.access /\ Popped.flags = w.flags
      /\ Popped.pending = w.pending /\ Popped.active = Tail(w.active)
      /\ Popped.in = w.in /\ Popped.out = w.out
  BY <1>1, <1>2 DEF Popped, WorkerState
<1> QED
  BY <1>2, <1>3, <1>4 DEF GrantedInv, Closed

LEMMA PollInv ==
    ASSUME GrantedInv(w), Poll
    PROVE  GrantedInv(w')
<1>1. PICK ready \in Reports :
        \E q \in Bijection(1..Cardinality(ready), ready) :
            w' = [w EXCEPT !.active = q, !.timers = @ \ ready]
  BY DEF Poll
<1>2. PICK q \in Bijection(1..Cardinality(ready), ready) :
            w' = [w EXCEPT !.active = q, !.timers = @ \ ready]
  BY <1>1
<1>3. w \in WorkerState /\ w.timers \subseteq Timers
  BY DEF GrantedInv, WorkerState
<1>4. /\ ready \subseteq {Read, Write, Timeout} \cup w.timers
      /\ Closed(w) => ready \subseteq w.timers
  <2>1. /\ Closed(w) => ~Readable /\ ~Writable
        /\ Closed(w) => w.flags \cap {"closed", "deaf"} # {}
    BY Zenon DEF Closed, Readable, Writable
  <2> QED
    BY <2>1 DEF Reports
<1>5. /\ {Read, Write, Timeout} \subseteq Events /\ Timers \subseteq Events
      /\ \A e \in Timers : e.kind \in Application
  BY DEF Read, Write, Timeout, Event, Events, Timers
<1>6. Cardinality(ready) \in Nat
  <2>1. IsFiniteSet(Timers \cup {Read} \cup {Write} \cup {Timeout})
    BY TimersFinite, FS_AddElement
  <2>2. ready \in SUBSET (Timers \cup {Read} \cup {Write} \cup {Timeout})
    BY <1>3, <1>4
  <2> QED
    BY <2>1, <2>2, FS_Subset, FS_CardinalityType
<1>7. q \in [1..Cardinality(ready) -> ready]
  BY <1>2 DEF Bijection, Injection
<1>8. q \in Seq(Events) /\ \A e \in Range(q) : e \in ready
  <2>1. ready \subseteq Events
    BY <1>3, <1>4, <1>5
  <2>2. q \in [1..Cardinality(ready) -> Events]
    BY <1>7, <2>1
  <2>3. q \in Seq(Events)
    BY <1>6, <2>2
  <2> QED
    BY <1>7, <2>3 DEF Range
<1>9. w.timers \ ready \in SUBSET Timers
  BY <1>3
<1>10. /\ w' \in WorkerState /\ w'.status = w.status /\ w'.cur = w.cur
       /\ w'.ran = w.ran /\ w'.flags = w.flags /\ w'.active = q
       /\ w'.access = w.access /\ w'.pending = w.pending
  BY <1>2, <1>3, <1>8, <1>9 DEF WorkerState
<1>11. Closed(w) => \A e \in Range(q) : e.kind \in Application
  BY <1>3, <1>4, <1>5, <1>8
<1> QED
  BY <1>10, <1>11 DEF GrantedInv, Closed

(* The bufferevent owes another callback, and has deferred it.             *)
LEMMA OweInv ==
    ASSUME NEW s, GrantedInv(s), ~Closed(s), NEW q \in Seq(Tokens),
           NEW x \in {"read", "write", "eof", "timeout", "error"}
    PROVE  /\ GrantedInv(Activate([s EXCEPT !.in = q,
                                            !.pending = @ \cup {x}], Deferred))
           /\ GrantedInv(Activate([s EXCEPT !.pending = @ \cup {x}], Deferred))
<1> DEFINE t == [s EXCEPT !.in = q, !.pending = @ \cup {x}]
           u == [s EXCEPT !.pending = @ \cup {x}]
<1>1. s \in WorkerState
  BY DEF GrantedInv
<1>2. s.pending \cup {x}
        \in SUBSET {"read", "write", "eof", "timeout", "error"}
  BY <1>1 DEF WorkerState
<1>3. /\ t \in WorkerState /\ t.status = s.status /\ t.cur = s.cur
      /\ t.ran = s.ran /\ t.flags = s.flags /\ t.access = s.access
  BY <1>1, <1>2 DEF WorkerState
<1>4. /\ u \in WorkerState /\ u.status = s.status /\ u.cur = s.cur
      /\ u.ran = s.ran /\ u.flags = s.flags /\ u.access = s.access
  BY <1>1, <1>2 DEF WorkerState
<1>5. GrantedInv(t) /\ ~Closed(t) /\ GrantedInv(u) /\ ~Closed(u)
  <2> HIDE DEF t, u
  <2> QED BY <1>3, <1>4 DEF GrantedInv, Closed
<1>6. Deferred \in Events
  BY DEF Deferred, Event, Events
<1>7. Keeps(t, Activate(t, Deferred)) /\ Keeps(u, Activate(u, Deferred))
  BY <1>3, <1>4, <1>5, <1>6, ActivateKeeps
<1> QED
  <2> HIDE DEF t, u
  <2>1. GrantedInv(Activate(t, Deferred)) /\ GrantedInv(Activate(u, Deferred))
    BY <1>5, <1>7, KeepsInv
  <2> QED BY <2>1 DEF t, u

LEMMA OutputInv ==
    ASSUME NEW s, GrantedInv(s), NEW q \in Seq(Tokens)
    PROVE  Keeps(s, [s EXCEPT !.out = q])
BY DEF GrantedInv, WorkerState, Keeps, Closed

(* A prefix and what is left of a sequence of tokens.                      *)
LEMMA SplitTokens ==
    ASSUME NEW q \in Seq(Tokens), NEW k \in 1..Len(q)
    PROVE  /\ SubSeq(q, 1, k) \in Seq(Tokens)
           /\ SubSeq(q, k + 1, Len(q)) \in Seq(Tokens)
OBVIOUS

-----------------------------------------------------------------------------
(* The theorems.                                                           *)

(* A client owes a body only for a request it has sent.                    *)
Inv == TypeOK /\ GrantedInv(w) /\ (due => sent # 0)

LEMMA InitInv == Init => Inv
<1> SUFFICES ASSUME Init PROVE Inv
  OBVIOUS
<1>1. <<>> \in Seq(Tokens) /\ <<>> \in Seq(Events) /\ 0 \in Nat
  OBVIOUS
<1>2. /\ [i \in Req |-> "none"] \in [Req -> {"none", "access", "handler"}]
      /\ [i \in Req |-> "none"] \in [Req -> {"none", "granted", "denied"}]
  OBVIOUS
<1>3. w \in WorkerState
  BY <1>1, <1>2 DEF Init, Initialize, WorkerState, Status, Flags
<1>4. TypeOK
  BY <1>1, <1>3 DEF Init, TypeOK
<1>5. /\ w.ran = {} /\ w.status = "parse_req_line" /\ ~Closed(w)
      /\ \A i \in Req : w.access[i] = "none"
  BY DEF Init, Initialize, Closed
<1> QED
  BY <1>3, <1>4, <1>5 DEF Inv, GrantedInv, Init

LEMMA RunInv ==
    ASSUME Inv, Run
    PROVE  Inv'
<1>1. /\ prof \in [Req -> Profiles] /\ net \in Seq(Tokens)
      /\ rcvd \in Seq(Tokens) /\ GrantedInv(w)
      /\ w.in \in Seq(Tokens) /\ w.out \in Seq(Tokens)
  BY DEF Inv, TypeOK, WorkerState
<1>2. UNCHANGED <<prof, sent, due, open>>
  BY DEF Run, RunRead, RunEof, RunError, RunTimeout, RunWrite, RunCallbacks,
         RunResume, RunAccess, RunHandler
<1>3. /\ w.active # <<>>
      /\ Head(w.active).kind \in {"read", "timeout", "write", "deferred",
                                  "resume", "access", "handler"}
  BY DEF Run, RunRead, RunEof, RunError, RunTimeout, RunWrite, RunCallbacks,
         RunResume, RunAccess, RunHandler, Running
<1>4. /\ GrantedInv(Popped) /\ Head(w.active) \in Events
      /\ Popped.in = w.in /\ Popped.out = w.out
      /\ Head(w.active).kind \notin Application => ~Closed(Popped)
  BY <1>1, <1>3, PoppedInv DEF Closed
<1>5. Head(w.active).kind \in Application => Head(w.active).req \in Req
  BY <1>4 DEF Events, Timers, Application
<1>6. /\ GrantedInv(w') /\ net' \in Seq(Tokens) /\ rcvd' \in Seq(Tokens)
  <2>1. CASE RunRead
    <3>1. PICK k \in 1..Len(net) :
            /\ w' = Activate([Popped EXCEPT !.in = @ \o SubSeq(net, 1, k),
                                     !.pending = @ \cup {"read"}], Deferred)
            /\ net' = SubSeq(net, k + 1, Len(net))
      BY <2>1 DEF RunRead
    <3>2. SubSeq(net, 1, k) \in Seq(Tokens) /\ net' \in Seq(Tokens)
      BY <1>1, <3>1, SplitTokens
    <3>3. Popped.in \o SubSeq(net, 1, k) \in Seq(Tokens)
      BY <1>1, <1>4, <3>2
    <3>4. ~Closed(Popped)
      BY <1>4, <2>1 DEF RunRead, Running, Application
    <3>5. GrantedInv(w')
      BY <1>4, <3>1, <3>3, <3>4, OweInv
    <3> QED
      BY <1>1, <2>1, <3>2, <3>5 DEF RunRead
  <2>2. CASE RunEof \/ RunTimeout
    <3>1. ~Closed(Popped)
      BY <1>4, <2>2 DEF RunEof, RunTimeout, Running, Application
    <3>2. <<>> \in Seq(Tokens)
      OBVIOUS
    <3>3. GrantedInv(w')
      BY <1>4, <2>2, <3>1, <3>2, OweInv DEF RunEof, RunTimeout
    <3> QED
      BY <1>1, <2>2, <3>3 DEF RunEof, RunTimeout
  <2>3. CASE RunWrite
    <3> DEFINE t(k) == [Popped EXCEPT !.out = SubSeq(@, k + 1, Len(@))]
    <3>1. PICK k \in 1..Len(w.out) :
            /\ w' = IF t(k).out # <<>> THEN t(k)
                    ELSE Activate([t(k) EXCEPT !.pending = @ \cup {"write"}],
                                  Deferred)
            /\ rcvd' = rcvd \o SubSeq(w.out, 1, k)
      BY <2>3 DEF RunWrite
    <3>2. /\ SubSeq(w.out, 1, k) \in Seq(Tokens)
          /\ SubSeq(Popped.out, k + 1, Len(Popped.out)) \in Seq(Tokens)
      BY <1>1, <1>4, SplitTokens
    <3>3. ~Closed(Popped)
      BY <1>4, <2>3 DEF RunWrite, Running, Application
    <3>4. Keeps(Popped, t(k))
      BY <1>4, <3>2, OutputInv
    <3>5. GrantedInv(t(k)) /\ ~Closed(t(k))
      BY <1>4, <3>3, <3>4, KeepsInv DEF Keeps
    <3>6. GrantedInv(w')
      <4> HIDE DEF t
      <4>1. <<>> \in Seq(Tokens)
        OBVIOUS
      <4> QED BY <3>1, <3>5, <4>1, OweInv
    <3>7. rcvd' \in Seq(Tokens)
      BY <1>1, <3>1, <3>2
    <3> QED
      BY <1>1, <2>3, <3>6, <3>7 DEF RunWrite
  <2>4. CASE RunCallbacks
    BY <1>1, <1>4, <2>4, RunDeferredInv DEF RunCallbacks
  <2>5. CASE RunResume
    BY <1>1, <1>4, <2>5, OnResumeInv DEF RunResume, Running, Application
  <2>6. CASE RunAccess
    BY <1>1, <1>4, <1>5, <2>6, AccessAnswerInv
       DEF RunAccess, Running, Application
  <2>7. CASE RunHandler
    BY <1>1, <1>4, <1>5, <2>7, HandlerTimerInv
       DEF RunHandler, Running, Application
  <2>8. CASE RunError
    <3>1. PICK way \in {"deaf", "mute"} :
            w' = Activate([SetFlag(Popped, way) EXCEPT
                              !.pending = @ \cup {"error"}], Deferred)
      BY <2>8 DEF RunError
    <3> DEFINE f == SetFlag(Popped, way)
    <3>2. ~Closed(Popped)
      BY <1>4, <2>8 DEF RunError, Running, Application
    <3>3. Keeps(Popped, f)
      BY <1>4, FlagKeeps DEF Flags, GrantedInv
    <3>4. GrantedInv(f) /\ ~Closed(f)
      <4> HIDE DEF f
      <4> QED BY <1>4, <3>2, <3>3, KeepsInv DEF Keeps
    <3>5. GrantedInv(w')
      <4> HIDE DEF f
      <4>1. <<>> \in Seq(Tokens)
        OBVIOUS
      <4>2. w' = Activate([f EXCEPT !.pending = @ \cup {"error"}], Deferred)
        BY <3>1 DEF f
      <4> QED BY <3>4, <4>1, <4>2, OweInv
    <3> QED
      BY <1>1, <2>8, <3>5 DEF RunError
  <2> QED
    BY <2>1, <2>2, <2>3, <2>4, <2>5, <2>6, <2>7, <2>8 DEF Run
<1>7. GrantedInv(w)' <=> GrantedInv(w')
  BY <1>2 DEF GrantedInv
<1> QED
  BY <1>2, <1>6, <1>7 DEF Inv, TypeOK, GrantedInv

(* Every step of the loop, of the client, or of neither keeps Inv.         *)
LEMMA NextInv == Inv /\ [Next]_vars => Inv'
<1> SUFFICES ASSUME Inv, [Next]_vars PROVE Inv'
  OBVIOUS
<1>1. CASE Poll
  <2>1. GrantedInv(w')
    BY <1>1, PollInv DEF Inv
  <2>2. UNCHANGED <<prof, net, sent, due, open, rcvd>>
    BY <1>1 DEF Poll
  <2>3. GrantedInv(w)' <=> GrantedInv(w')
    BY <2>2 DEF GrantedInv
  <2> QED
    BY <2>1, <2>2, <2>3 DEF Inv, TypeOK, GrantedInv
<1>2. CASE Run
  BY <1>2, RunInv
<1>3. CASE ClientHead \/ ClientBody \/ ClientClose
  <2>1. w' = w /\ prof' = prof /\ rcvd' = rcvd
    BY <1>3 DEF ClientHead, ClientBody, ClientClose
  <2>2. GrantedInv(w)'
    BY <2>1 DEF Inv, GrantedInv
  <2>3. net' \in Seq(Tokens) /\ sent' \in {0} \cup Req
        /\ due' \in BOOLEAN /\ open' \in BOOLEAN /\ (due' => sent' # 0)
    <3>1. CASE ClientHead
      <4>1. sent + 1 \in Req /\ sent + 1 # 0
        BY <3>1, NReqAssumption DEF ClientHead, Inv, TypeOK, Req
      <4>2. Append(net, Token("head", sent + 1)) \in Seq(Tokens)
        BY <4>1 DEF Inv, TypeOK, Token, Tokens
      <4> QED
        <5>1. net' \in Seq(Tokens) /\ sent' \in Req /\ sent' # 0
          BY <3>1, <4>1, <4>2 DEF ClientHead
        <5>2. open' \in BOOLEAN
          BY <3>1, Zenon DEF ClientHead, Inv, TypeOK
        <5>3. due' = (prof[sent + 1].body \in HasBody)
          BY <3>1, Zenon DEF ClientHead
        <5>4. due' \in BOOLEAN
          BY <5>3 DEF HasBody
        <5> QED BY <5>1, <5>2, <5>4
    <3>2. CASE ClientBody
      <4>1. sent \in Req => Append(net, Token("body", sent)) \in Seq(Tokens)
        BY DEF Inv, TypeOK, Token, Tokens
      <4> QED
        BY <3>2, <4>1 DEF ClientBody, Inv, TypeOK
    <3>3. CASE ClientClose
      BY <3>3 DEF ClientClose, Inv, TypeOK
    <3> QED
      BY <1>3, <3>1, <3>2, <3>3
  <2> QED
    BY <2>1, <2>2, <2>3 DEF Inv, TypeOK
<1>4. CASE UNCHANGED vars
  BY <1>4 DEF vars, Inv, TypeOK, GrantedInv
<1> QED
  BY <1>1, <1>2, <1>3, <1>4 DEF Next

(* The type invariant: whatever order the callbacks of libevent, the       *)
(* application's timers and the client take, every field of the            *)
(* connection, the parser and the responses keeps its shape; in particular *)
(* exec() and _send_file_chunk never run without a request to run for.     *)
THEOREM TypeCorrect == Spec => []TypeOK
<1>1. Inv => TypeOK
  BY DEF Inv
<1> QED
  BY <1>1, InitInv, NextInv, PTL DEF Spec

(* When no access policy answers later than its call, exec() only ever     *)
(* calls the handler of a request that its policies granted: with or       *)
(* without pipelining, for any number of requests and of file chunks.      *)
THEOREM PromptPoliciesGuardHandlers ==
    ASSUME PromptAccess
    PROVE  Spec => []HandlerRunsOnlyWhenGranted
<1>1. Inv => HandlerRunsOnlyWhenGranted
  BY DEF Inv, GrantedInv, HandlerRunsOnlyWhenGranted
<1> QED
  BY <1>1, InitInv, NextInv, PTL DEF Spec

=============================================================================
