--------------------------- MODULE ViewEngineProofs ---------------------------
(***************************************************************************)
(* How often the callback of a rendering is called, for all views.         *)
(*                                                                         *)
(* Until a partial view is missing or throws, one thing at most remains to *)
(* be done, and the calls under way are a stack: each was made by the one  *)
(* before it, from a view whose buffer is still open, so what a call gives *)
(* back can be written there.                                              *)
(***************************************************************************)
EXTENDS ViewEngine, TLAPS

IsSeq(s) == Len(s) \in Nat /\ s = [i \in 1..Len(s) |-> s[i]]

(* The calls cs: one of them, a point in them, and whether the view at a   *)
(* point has an open buffer.                                               *)
Fields == {"path", "views", "laid", "bufs", "pages", "ret"}
IsCall(c) == c = [f \in Fields |-> c[f]]
Shape(c) ==
    /\ IsCall(c)
    /\ IsSeq(c.views) /\ IsSeq(c.bufs) /\ IsSeq(c.pages)
    /\ Len(c.bufs) = Len(c.views) /\ Len(c.pages) = Len(c.views)
IsPoint(cs, p) ==
    /\ p = Point(p.call, p.view, p.item)
    /\ p.call \in DOMAIN cs /\ p.view \in 1..Len(cs[p.call].views) /\ p.item \in Nat
Open(cs, p) == 1 \in DOMAIN cs[p.call].bufs[p.view]

(* The calls in U are under way, p is in the last of them, and each was    *)
(* made by the one before it, from a view whose buffer is open.            *)
MadeBy(cs, U, c, r) ==
    /\ IsPoint(cs, r) /\ Open(cs, r) /\ r.call \in U /\ r.call < c
    /\ \A d \in U : d < c => d <= r.call
Stack(cs, p, U) ==
    /\ U \subseteq DOMAIN cs /\ \A c \in U : Shape(cs[c])
    /\ IsPoint(cs, p) /\ p.call \in U /\ \A c \in U : c <= p.call
    /\ p.item # 0 => Open(cs, p)
    /\ \A c \in U : cs[c].ret # Client => MadeBy(cs, U, c, cs[c].ret)

Rendering(cs, p) == \E U \in SUBSET DOMAIN cs : Stack(cs, p, U)

(* The client was answered, and again only with what it threw itself.      *)
Settled(as) == Len(as) = 1 \/ (Len(as) = 2 /\ as[2].caught)

EngineInv ==
    /\ IsSeq(answers)
    /\ failed => answers # <<>> /\ answers[1].err
    /\ ~failed =>
         /\ ~broken /\ IsSeq(calls)
         /\ \/ agenda = <<>> /\ answers = <<>> /\ calls = <<>>
            \/ agenda = <<>> /\ Settled(answers)
            \/ answers = <<>> /\ agenda = <<agenda[1]>> /\ Rendering(calls, agenda[1])

-----------------------------------------------------------------------------
LEMMA SeqTyped ==
    ASSUME NEW s, IsSeq(s), NEW S, \A i \in 1..Len(s) : s[i] \in S
    PROVE  s \in Seq(S) /\ DOMAIN s = 1..Len(s)
<1>1. s = [i \in 1..Len(s) |-> s[i]] /\ Len(s) \in Nat
  BY DEF IsSeq
<1>2. [i \in 1..Len(s) |-> s[i]] \in [1..Len(s) -> S]
  OBVIOUS
<1>3. [i \in 1..Len(s) |-> s[i]] \in Seq(S)
  BY <1>1, <1>2
<1>4. DOMAIN [i \in 1..Len(s) |-> s[i]] = 1..Len(s)
  OBVIOUS
<1> QED BY <1>1, <1>3, <1>4

LEMMA SeqDomain ==
    ASSUME NEW s, IsSeq(s)
    PROVE  DOMAIN s = 1..Len(s)
BY SeqTyped

LEMMA IsSeqSeq ==
    ASSUME NEW S, NEW s \in Seq(S)
    PROVE  IsSeq(s)
BY DEF IsSeq

LEMMA AppendSeq ==
    ASSUME NEW s, IsSeq(s), NEW e
    PROVE  /\ IsSeq(Append(s, e)) /\ Len(Append(s, e)) = Len(s) + 1
           /\ \A i \in 1..Len(s) : Append(s, e)[i] = s[i]
           /\ Append(s, e)[Len(s) + 1] = e /\ Append(s, e) # <<>>
           /\ DOMAIN Append(s, e) = 1..(Len(s) + 1)
<1> DEFINE S == {s[i] : i \in 1..Len(s)} \cup {e}
<1>1. s \in Seq(S) /\ e \in S /\ DOMAIN s = 1..Len(s)
  <2>1. e \in S /\ \A i \in 1..Len(s) : s[i] \in S
    OBVIOUS
  <2> HIDE DEF S
  <2> QED BY <2>1, SeqTyped
<1> HIDE DEF S
<1>2. Append(s, e) \in Seq(S)
  BY <1>1
<1>3. IsSeq(Append(s, e))
  BY <1>2, IsSeqSeq
<1> QED BY <1>1, <1>2, <1>3

(* Elements replaced.                                                      *)
LEMMA ReplacedInSeq ==
    ASSUME NEW s, IsSeq(s), NEW k \in 1..Len(s), NEW e, NEW u, u = [s EXCEPT ![k] = e]
    PROVE  /\ IsSeq(u) /\ Len(u) = Len(s) /\ DOMAIN u = DOMAIN s /\ u[k] = e
           /\ \A i \in 1..Len(s) : i # k => u[i] = s[i]
<1>1. DOMAIN s = 1..Len(s) /\ Len(s) \in Nat
  BY DEF IsSeq
<1>2. u = [i \in 1..Len(s) |-> IF i = k THEN e ELSE s[i]]
  BY <1>1
<1>3. Len(u) = Len(s) /\ DOMAIN u = 1..Len(s)
  BY <1>1, <1>2
<1>4. IsSeq(u)
  BY <1>1, <1>2, <1>3 DEF IsSeq
<1>5. u[k] = e /\ \A i \in 1..Len(s) : i # k => u[i] = s[i]
  BY <1>1
<1> QED BY <1>1, <1>3, <1>4, <1>5

LEMMA PointFields ==
    ASSUME NEW c, NEW v, NEW i
    PROVE  Point(c, v, i).call = c /\ Point(c, v, i).view = v /\ Point(c, v, i).item = i
BY DEF Point

(* A stack of one.                                                         *)
LEMMA OneOnly ==
    ASSUME NEW p, NEW s, s = <<p>>
    PROVE  /\ Last(s) = p /\ Front(s) = <<>> /\ s[1] = p /\ Len(s) = 1 /\ s # <<>>
           /\ \A q : Append(Front(s), q) = <<q>>
           /\ \A q : [s EXCEPT ![Len(s)] = q] = <<q>>
<1>1. s = <<p>> /\ Len(s) = 1 /\ s[1] = p /\ s # <<>>
  OBVIOUS
<1>2. Front(s) = <<>>
  BY <1>1 DEF Front
<1>3. Last(s) = p
  BY <1>1 DEF Last
<1>4. ASSUME NEW q PROVE Append(Front(s), q) = <<q>>
  BY <1>2
<1>5. ASSUME NEW q PROVE [s EXCEPT ![Len(s)] = q] = <<q>>
  BY <1>1
<1> QED BY <1>1, <1>2, <1>3, <1>4, <1>5

-----------------------------------------------------------------------------
(* The call p is in changes, and p moves on in it.                         *)
LEMMA StackInCall ==
    ASSUME NEW cs, IsSeq(cs), NEW p, NEW U, Stack(cs, p, U),
           NEW c, Shape(c), c.ret = cs[p.call].ret,
           NEW q, q = Point(p.call, q.view, q.item),
           q.view \in 1..Len(c.views), q.item \in Nat,
           q.item # 0 => 1 \in DOMAIN c.bufs[q.view]
    PROVE  Stack([cs EXCEPT ![p.call] = c], q, U)
<1> DEFINE ds == [cs EXCEPT ![p.call] = c]
<1>1. p.call \in DOMAIN cs /\ p.call \in 1..Len(cs) /\ p.call \in U /\ U \subseteq 1..Len(cs)
  BY SeqDomain DEF Stack, IsPoint
<1>2. /\ DOMAIN ds = DOMAIN cs /\ ds[p.call] = c
      /\ \A i \in DOMAIN cs : i # p.call => ds[i] = cs[i]
  BY <1>1
<1> HIDE DEF ds
<1>3. q.call = p.call
  BY PointFields
<1>4. IsPoint(ds, q) /\ (q.item # 0 => Open(ds, q))
  BY <1>1, <1>2, <1>3 DEF IsPoint, Open
<1>5. U \subseteq DOMAIN ds /\ (\A d \in U : Shape(ds[d])) /\ \A d \in U : d <= q.call
  BY <1>1, <1>2, <1>3 DEF Stack
<1>6. ASSUME NEW d \in U, ds[d].ret # Client
      PROVE  MadeBy(ds, U, d, ds[d].ret)
  <2>1. ds[d].ret = cs[d].ret
    BY <1>1, <1>2 DEF Stack
  <2>2. MadeBy(cs, U, d, cs[d].ret)
    BY <1>6, <2>1 DEF Stack
  <2>3. cs[d].ret.call # p.call
    <3>1. cs[d].ret.call < d /\ d <= p.call
      BY <2>2 DEF MadeBy, Stack
    <3>2. d \in Int /\ p.call \in Int /\ cs[d].ret.call \in Int
      <4>1. cs[d].ret.call \in U
        BY <2>2 DEF MadeBy
      <4>2. U \subseteq Int
        BY <1>1 DEF IsSeq
      <4> QED BY <1>1, <4>1, <4>2
    <3> QED BY <3>1, <3>2
  <2> QED BY <1>2, <2>1, <2>2, <2>3 DEF MadeBy, IsPoint, Open
<1> QED BY <1>1, <1>3, <1>4, <1>5, <1>6 DEF Stack, ds

(* A call is made at p.                                                    *)
LEMMA StackCalls ==
    ASSUME NEW cs, IsSeq(cs), NEW p, NEW U, Stack(cs, p, U), p.item # 0,
           NEW c, Shape(c), c.ret = p, Len(c.views) = 1
    PROVE  Stack(Append(cs, c), Point(Len(cs) + 1, 1, 0), U \cup {Len(cs) + 1})
<1> DEFINE ds == Append(cs, c)
           n == Len(cs) + 1
           V == U \cup {n}
<1>1. p.call \in U /\ U \subseteq 1..Len(cs) /\ p.call \in DOMAIN cs /\ Len(cs) \in Nat
  BY SeqDomain DEF Stack, IsPoint, IsSeq
<1>2. DOMAIN ds = 1..n /\ ds[n] = c /\ (\A i \in 1..Len(cs) : ds[i] = cs[i]) /\ DOMAIN cs = 1..Len(cs)
  BY AppendSeq, SeqDomain
<1> HIDE DEF ds
<1>3. /\ V \subseteq DOMAIN ds /\ \A d \in V : Shape(ds[d])
      /\ \A d \in V : d <= n /\ d \in Int
  BY <1>1, <1>2 DEF Stack
<1>4. IsPoint(ds, Point(n, 1, 0)) /\ Point(n, 1, 0).item = 0 /\ Point(n, 1, 0).call = n
  BY <1>1, <1>2, PointFields DEF IsPoint
<1>5. ASSUME NEW d \in V, ds[d].ret # Client
      PROVE  MadeBy(ds, V, d, ds[d].ret)
  <2>1. CASE d = n
    <3>1. ds[d].ret = p
      BY <1>2, <2>1
    <3>2. IsPoint(ds, p) /\ Open(ds, p)
      BY <1>1, <1>2 DEF Stack, IsPoint, Open
    <3>3. p.call \in V /\ p.call < n /\ \A e \in V : e < n => e <= p.call
      BY <1>1 DEF Stack
    <3> QED BY <2>1, <3>1, <3>2, <3>3 DEF MadeBy
  <2>2. CASE d \in U
    <3>1. ds[d] = cs[d] /\ d < n
      BY <1>1, <1>2, <2>2
    <3>2. MadeBy(cs, U, d, cs[d].ret)
      BY <1>5, <2>2, <3>1 DEF Stack
    <3>3. IsPoint(ds, cs[d].ret) /\ Open(ds, cs[d].ret)
      <4>1. cs[d].ret.call \in 1..Len(cs)
        BY <1>1, <3>2 DEF MadeBy
      <4>2. ds[cs[d].ret.call] = cs[cs[d].ret.call] /\ cs[d].ret.call \in DOMAIN ds
        BY <1>1, <1>2, <4>1
      <4> QED BY <3>2, <4>2 DEF MadeBy, IsPoint, Open
    <3>4. \A e \in V : e < d => e <= cs[d].ret.call
      <4>1. d \in Int /\ n \in Int
        BY <1>1, <2>2
      <4> QED BY <3>1, <3>2, <4>1 DEF MadeBy
    <3> QED BY <3>1, <3>2, <3>3, <3>4 DEF MadeBy
  <2> QED BY <2>1, <2>2
<1> QED BY <1>3, <1>4, <1>5 DEF Stack, ds

(* The call p is in gives back to the point that made it.                  *)
LEMMA StackReturns ==
    ASSUME NEW cs, IsSeq(cs), NEW p, NEW U, Stack(cs, p, U), cs[p.call].ret # Client, NEW c
    PROVE  /\ Stack([cs EXCEPT ![p.call] = c], cs[p.call].ret, U \ {p.call})
           /\ Open(cs, cs[p.call].ret) /\ cs[p.call].ret.call \in DOMAIN cs
           /\ cs[p.call].ret.call # p.call
<1> DEFINE ds == [cs EXCEPT ![p.call] = c]
           r == cs[p.call].ret
           V == U \ {p.call}
<1>1. p.call \in U /\ U \subseteq 1..Len(cs) /\ p.call \in DOMAIN cs /\ Len(cs) \in Nat
  BY SeqDomain DEF Stack, IsPoint, IsSeq
<1>2. DOMAIN ds = DOMAIN cs /\ \A i \in DOMAIN cs : i # p.call => ds[i] = cs[i]
  BY <1>1
<1>3. MadeBy(cs, U, p.call, r)
  BY <1>1 DEF Stack
<1>4. r.call \in V /\ IsPoint(cs, r) /\ Open(cs, r) /\ r.call \in DOMAIN cs /\ r.call # p.call
  <2>1. r.call \in U /\ r.call < p.call /\ IsPoint(cs, r) /\ Open(cs, r)
    BY <1>3 DEF MadeBy
  <2>2. U \subseteq Int
    BY <1>1
  <2> QED BY <1>1, <2>1, <2>2 DEF Stack
<1> HIDE DEF ds, r
<1>5. IsPoint(ds, r) /\ Open(ds, r)
  BY <1>2, <1>4 DEF IsPoint, Open
<1>6. V \subseteq DOMAIN ds /\ \A d \in V : Shape(ds[d])
  BY <1>2 DEF Stack
<1>7. \A d \in V : d <= r.call /\ d \in Int
  <2>1. \A d \in U : d \in Int /\ d <= p.call
    BY <1>1 DEF Stack
  <2> QED BY <1>1, <1>3, <2>1 DEF MadeBy
<1>8. ASSUME NEW d \in V, ds[d].ret # Client
      PROVE  MadeBy(ds, V, d, ds[d].ret)
  <2>1. ds[d] = cs[d] /\ d \in U /\ d # p.call
    BY <1>2 DEF Stack
  <2>2. MadeBy(cs, U, d, cs[d].ret)
    BY <1>8, <2>1 DEF Stack
  <2>3. cs[d].ret.call # p.call
    <3>1. cs[d].ret.call < d /\ d <= p.call /\ cs[d].ret.call \in U
      BY <2>1, <2>2 DEF MadeBy, Stack
    <3>2. U \subseteq Int
      BY <1>1
    <3> QED BY <1>1, <2>1, <3>1, <3>2
  <2> QED BY <1>2, <2>1, <2>2, <2>3 DEF MadeBy, IsPoint, Open
<1> QED BY <1>4, <1>5, <1>6, <1>7, <1>8 DEF Stack, ds, r

-----------------------------------------------------------------------------
(* The steps.                                                              *)
LEMMA Working ==
    ASSUME EngineInv, ~failed, agenda # <<>>
    PROVE  /\ ~broken /\ answers = <<>> /\ IsSeq(calls) /\ Rendering(calls, Here)
           /\ Len(agenda) = 1 /\ agenda[1] = Here /\ agenda = <<Here>> /\ Front(agenda) = <<>>
           /\ \A q : Append(Front(agenda), q) = <<q>>
           /\ \A q : [agenda EXCEPT ![Len(agenda)] = q] = <<q>>
<1>1. answers = <<>> /\ agenda = <<agenda[1]>> /\ Rendering(calls, agenda[1]) /\ ~broken /\ IsSeq(calls)
  BY DEF EngineInv
<1>2. /\ Last(agenda) = agenda[1] /\ Front(agenda) = <<>> /\ Len(agenda) = 1
      /\ \A q : Append(Front(agenda), q) = <<q>>
      /\ \A q : [agenda EXCEPT ![Len(agenda)] = q] = <<q>>
  BY <1>1, OneOnly
<1>3. Here = agenda[1]
  BY <1>2 DEF Here
<1> QED BY <1>1, <1>2, <1>3

LEMMA GoesOn ==
    ASSUME EngineInv, ~failed, answers = <<>>, UNCHANGED <<answers, failed>>, ~broken', IsSeq(calls'),
           NEW q, agenda' = <<q>>, NEW U, Stack(calls', q, U)
    PROVE  EngineInv'
<1>1. agenda'[1] = q /\ Rendering(calls', q)
  BY DEF Rendering, Stack
<1> QED BY <1>1 DEF EngineInv

LEMMA PassKeeps ==
    ASSUME EngineInv, NEW p, Pass(p), ~failed => answers = <<>>
    PROVE  EngineInv'
<1> DEFINE a == Answer(TRUE, <<>>, FALSE)
<1>1. answers' = Append(answers, a) /\ failed' = TRUE /\ IsSeq(answers) /\ a.err
  BY DEF Pass, EngineInv, Answer
<1> HIDE DEF a
<1>2. /\ IsSeq(answers') /\ answers' # <<>> /\ answers'[Len(answers) + 1] = a
      /\ \A i \in 1..Len(answers) : answers'[i] = answers[i]
  BY <1>1, AppendSeq
<1>3. answers'[1].err
  <2>1. CASE answers = <<>>
    BY <1>1, <1>2, <2>1
  <2>2. CASE answers # <<>>
    <3>1. 1 \in 1..Len(answers)
      BY <1>1, <2>2 DEF IsSeq
    <3>2. answers[1].err
      BY <2>2 DEF EngineInv
    <3> QED BY <1>2, <3>1, <3>2
  <2> QED BY <2>1, <2>2
<1> QED BY <1>1, <1>2, <1>3 DEF EngineInv

(* Once it has failed, it stays so, and the first answer does.             *)
LEMMA FailedStays ==
    ASSUME EngineInv, failed, EngineNext
    PROVE  EngineInv'
<1>1. IsSeq(answers) /\ answers # <<>> /\ answers[1].err
  BY DEF EngineInv
<1>2. /\ failed'
      /\ \/ answers' = answers
         \/ \E a : answers' = Append(answers, a)
         \/ \E a, b : answers' = Append(Append(answers, a), b)
  <2>1. CASE RenderStep
    <3>1. CASE PartialMissing \/ Throw
      BY <3>1 DEF PartialMissing, Throw, Pass
    <3>2. CASE Complete
      BY <3>2 DEF Complete
    <3>3. CASE AddLayout \/ Begin \/ WriteText \/ WriteBody \/ RenderPartial \/ Commit
      BY <3>3 DEF AddLayout, Begin, WriteText, WriteBody, RenderPartial, Commit
    <3> QED BY <2>1, <3>1, <3>2, <3>3 DEF RenderStep
  <2>2. CASE \E ns \in DOMAIN engines' : RegisterEngine(ns, engines'[ns])
    BY <2>2 DEF RegisterEngine
  <2>3. CASE \E ref \in Requests : Render(ref)
    BY <1>1, <2>3 DEF Render
  <2> QED BY <2>1, <2>2, <2>3 DEF EngineNext
<1>3. CASE answers' = answers
  BY <1>1, <1>2, <1>3 DEF EngineInv
<1>4. ASSUME NEW a, answers' = Append(answers, a)
      PROVE  EngineInv'
  <2>1. 1 \in 1..Len(answers)
    BY <1>1 DEF IsSeq
  <2>2. IsSeq(answers') /\ answers' # <<>> /\ answers'[1] = answers[1]
    BY <1>1, <1>4, <2>1, AppendSeq
  <2> QED BY <1>1, <1>2, <2>2 DEF EngineInv
<1>5. ASSUME NEW a, NEW b, answers' = Append(Append(answers, a), b)
      PROVE  EngineInv'
  <2>1. 1 \in 1..Len(answers)
    BY <1>1 DEF IsSeq
  <2> DEFINE given == Append(answers, a)
  <2>2. IsSeq(given) /\ given[1] = answers[1] /\ 1 \in 1..Len(given)
    BY <1>1, <2>1, AppendSeq DEF IsSeq
  <2>3. answers' = Append(given, b)
    BY <1>5
  <2> HIDE DEF given
  <2>4. IsSeq(answers') /\ answers' # <<>> /\ answers'[1] = answers[1]
    BY <2>2, <2>3, AppendSeq
  <2> QED BY <1>1, <1>2, <2>4 DEF EngineInv
<1> QED BY <1>2, <1>3, <1>4, <1>5

(* What is known of the call p is in.                                      *)
LEMMA InCall ==
    ASSUME NEW cs, IsSeq(cs), NEW p, NEW U, Stack(cs, p, U)
    PROVE  /\ p.call \in 1..Len(cs) /\ p.call \in DOMAIN cs /\ Shape(cs[p.call])
           /\ p = Point(p.call, p.view, p.item) /\ p.item \in Nat
           /\ p.view \in 1..Len(cs[p.call].views) /\ Len(cs[p.call].views) \in Nat
           /\ p.view \in 1..Len(cs[p.call].bufs)
BY SeqDomain DEF Stack, IsPoint, Shape, IsSeq

LEMMA InCallStep ==
    ASSUME EngineInv, ~failed, agenda # <<>>, UNCHANGED <<answers, failed>>, ~broken',
           NEW c, Shape(c), c.ret = Call.ret, calls' = [calls EXCEPT ![Here.call] = c],
           NEW q, agenda' = <<q>>, q = Point(Here.call, q.view, q.item),
           q.view \in 1..Len(c.views), q.item \in Nat,
           q.item # 0 => 1 \in DOMAIN c.bufs[q.view]
    PROVE  EngineInv'
<1>1. answers = <<>> /\ IsSeq(calls) /\ Rendering(calls, Here)
  BY Working
<1>2. PICK U \in SUBSET DOMAIN calls : Stack(calls, Here, U)
  BY <1>1 DEF Rendering
<1>3. Stack(calls', q, U)
  BY <1>1, <1>2, StackInCall DEF Call
<1>4. IsSeq(calls')
  BY <1>1, <1>2, InCall, ReplacedInSeq
<1> QED BY <1>1, <1>3, <1>4, GoesOn

(* The call p is in, and what it is made of.                               *)
LEMMA CallHere ==
    ASSUME EngineInv, ~failed, agenda # <<>>
    PROVE  /\ Shape(Call) /\ Here.call \in DOMAIN calls
           /\ Here = Point(Here.call, Here.view, Here.item) /\ Here.item \in Nat
           /\ Here.view \in 1..Len(Call.views) /\ Len(Call.views) \in Nat
           /\ Here.view \in 1..Len(Call.bufs) /\ Len(Call.bufs) = Len(Call.views)
           /\ Len(Call.pages) = Len(Call.views)
           /\ IsSeq(Call.views) /\ IsSeq(Call.bufs) /\ IsSeq(Call.pages)
           /\ Here.item # 0 => 1 \in DOMAIN Buffer
<1>1. IsSeq(calls) /\ Rendering(calls, Here)
  BY Working
<1>2. PICK U \in SUBSET DOMAIN calls : Stack(calls, Here, U)
  BY <1>1 DEF Rendering
<1>3. Here.item # 0 => 1 \in DOMAIN Buffer
  BY <1>2 DEF Stack, Open, Buffer, Call
<1> QED BY <1>1, <1>2, <1>3, InCall DEF Call, Shape

LEMMA AddLayoutKeeps == ASSUME EngineInv, ~failed, AddLayout PROVE EngineInv'
<1>0. agenda # <<>> /\ UNCHANGED <<agenda, answers, failed, broken>>
  BY DEF AddLayout, Idle
<1>1. /\ Shape(Call) /\ Here.call \in DOMAIN calls
      /\ Here = Point(Here.call, Here.view, Here.item) /\ Here.item \in Nat
      /\ Here.view \in 1..Len(Call.views) /\ Len(Call.views) \in Nat
      /\ Here.view \in 1..Len(Call.bufs) /\ Len(Call.bufs) = Len(Call.views)
      /\ Len(Call.pages) = Len(Call.views)
      /\ IsSeq(Call.views) /\ IsSeq(Call.bufs) /\ IsSeq(Call.pages)
      /\ Here.item # 0 => 1 \in DOMAIN Buffer
  BY <1>0, CallHere
<1>2. ~broken' /\ agenda' = <<Here>>
  BY <1>0, Working
<1>4. ASSUME NEW c, Shape(c), c.ret = Call.ret, calls' = [calls EXCEPT ![Here.call] = c],
             Here.view \in 1..Len(c.views), c.bufs[Here.view] = Buffer
      PROVE  EngineInv'
  BY <1>0, <1>1, <1>2, <1>4, InCallStep
<1>5. CASE calls' = [calls EXCEPT ![Here.call].laid = TRUE]
  <2> DEFINE c == [Call EXCEPT !.laid = TRUE]
  <2>1. calls' = [calls EXCEPT ![Here.call] = c]
    BY <1>5 DEF Call
  <2>2. /\ IsCall(c) /\ c.views = Call.views /\ c.bufs = Call.bufs /\ c.pages = Call.pages
        /\ c.ret = Call.ret
    BY <1>1 DEF IsCall, Fields, Shape
  <2> HIDE DEF c
  <2>3. Shape(c)
    BY <1>1, <2>2 DEF Shape
  <2> QED BY <1>1, <1>4, <2>1, <2>2, <2>3 DEF Buffer
<1>6. ASSUME NEW v,
             calls' = [calls EXCEPT ![Here.call].views = Append(@, v),
                                    ![Here.call].bufs = Append(@, <<>>),
                                    ![Here.call].pages = Append(@, <<>>)]
      PROVE  EngineInv'
  <2> DEFINE views == Append(Call.views, v)
             bufs == Append(Call.bufs, <<>>)
             pages == Append(Call.pages, <<>>)
             c == [Call EXCEPT !.views = views, !.bufs = bufs, !.pages = pages]
  <2>1. /\ IsSeq(views) /\ Len(views) = Len(Call.views) + 1
        /\ IsSeq(bufs) /\ Len(bufs) = Len(Call.bufs) + 1 /\ bufs[Here.view] = Call.bufs[Here.view]
        /\ IsSeq(pages) /\ Len(pages) = Len(Call.pages) + 1
    BY <1>1, AppendSeq
  <2>2. calls' = [calls EXCEPT ![Here.call] = c]
    BY <1>1, <1>6 DEF Call, Shape, IsCall, Fields
  <2> HIDE DEF views, bufs, pages
  <2>3. /\ IsCall(c) /\ c.views = views /\ c.bufs = bufs /\ c.pages = pages
        /\ c.ret = Call.ret
    BY <1>1 DEF IsCall, Fields, Shape
  <2> HIDE DEF c
  <2>4. Shape(c)
    BY <1>1, <2>1, <2>3 DEF Shape
  <2>5. Here.view \in 1..Len(views)
    BY <1>1, <2>1
  <2> QED BY <1>4, <2>1, <2>2, <2>3, <2>4, <2>5 DEF Buffer
<1> QED BY <1>5, <1>6 DEF AddLayout

(* The buffer of a view is replaced, and its page may be.                  *)
WithBuffer(c, k, x) == [c EXCEPT !.bufs = [c.bufs EXCEPT ![k] = x]]
WithPage(c, k, x, y) == [c EXCEPT !.bufs = [c.bufs EXCEPT ![k] = x],
                                  !.pages = [c.pages EXCEPT ![k] = y]]

LEMMA WithBufferShape ==
    ASSUME NEW c, Shape(c), NEW k \in 1..Len(c.bufs), NEW x
    PROVE  /\ Shape(WithBuffer(c, k, x)) /\ WithBuffer(c, k, x).ret = c.ret
           /\ WithBuffer(c, k, x).views = c.views /\ WithBuffer(c, k, x).bufs[k] = x
<1> DEFINE bufs == [c.bufs EXCEPT ![k] = x]
           d == [c EXCEPT !.bufs = bufs]
<1>0. IsSeq(c.bufs) /\ bufs = [c.bufs EXCEPT ![k] = x]
  BY DEF Shape
<1> HIDE DEF bufs
<1>1. IsSeq(bufs) /\ Len(bufs) = Len(c.bufs) /\ bufs[k] = x
  BY <1>0, ReplacedInSeq
<1>2. /\ IsCall(d) /\ d.views = c.views /\ d.bufs = bufs /\ d.pages = c.pages
      /\ d.ret = c.ret
  BY DEF IsCall, Fields, Shape
<1>3. d = WithBuffer(c, k, x)
  BY DEF WithBuffer, bufs
<1> HIDE DEF d
<1>4. Shape(d)
  BY <1>1, <1>2 DEF Shape
<1> QED BY <1>1, <1>2, <1>3, <1>4

LEMMA WithPageShape ==
    ASSUME NEW c, Shape(c), NEW k \in 1..Len(c.bufs), NEW x, NEW y
    PROVE  /\ Shape(WithPage(c, k, x, y)) /\ WithPage(c, k, x, y).ret = c.ret
           /\ WithPage(c, k, x, y).views = c.views
<1> DEFINE bufs == [c.bufs EXCEPT ![k] = x]
           pages == [c.pages EXCEPT ![k] = y]
           d == [c EXCEPT !.bufs = bufs, !.pages = pages]
<1>1. IsSeq(bufs) /\ Len(bufs) = Len(c.bufs)
  <2>1. IsSeq(c.bufs) /\ bufs = [c.bufs EXCEPT ![k] = x]
    BY DEF Shape
  <2> HIDE DEF bufs
  <2> QED BY <2>1, ReplacedInSeq
<1>2. IsSeq(pages) /\ Len(pages) = Len(c.pages)
  <2>1. IsSeq(c.pages) /\ k \in 1..Len(c.pages) /\ pages = [c.pages EXCEPT ![k] = y]
    BY DEF Shape
  <2> HIDE DEF pages
  <2> QED BY <2>1, ReplacedInSeq
<1> HIDE DEF bufs, pages
<1>3. /\ IsCall(d) /\ d.views = c.views /\ d.bufs = bufs /\ d.pages = pages
      /\ d.ret = c.ret
  BY DEF IsCall, Fields, Shape
<1>4. d = WithPage(c, k, x, y)
  BY DEF WithPage, bufs, pages
<1> HIDE DEF d
<1>5. Shape(d)
  BY <1>1, <1>2, <1>3 DEF Shape
<1> QED BY <1>3, <1>4, <1>5

LEMMA BeginKeeps == ASSUME EngineInv, ~failed, Begin PROVE EngineInv'
<1>0. /\ agenda # <<>> /\ UNCHANGED <<answers, failed, broken>>
      /\ calls' = [calls EXCEPT ![Here.call].bufs[Here.view] = <<<<>>>>]
      /\ agenda' = [agenda EXCEPT ![Len(agenda)].item = 1]
  BY DEF Begin, Idle
<1>1. /\ Shape(Call) /\ Here.call \in DOMAIN calls
      /\ Here = Point(Here.call, Here.view, Here.item)
      /\ Here.view \in 1..Len(Call.views) /\ Here.view \in 1..Len(Call.bufs)
  BY <1>0, CallHere
<1> DEFINE q == Point(Here.call, Here.view, 1)
           c == WithBuffer(Call, Here.view, <<<<>>>>)
<1>2. agenda' = <<q>> /\ ~broken'
  <2>1. agenda' = [agenda EXCEPT ![Len(agenda)] = [Here EXCEPT !.item = 1]]
    BY <1>0, Working
  <2>2. [Here EXCEPT !.item = 1] = q
    BY <1>1 DEF Point
  <2>3. ~broken /\ [agenda EXCEPT ![Len(agenda)] = q] = <<q>>
    BY <1>0, Working
  <2> QED BY <1>0, <2>1, <2>2, <2>3
<1>3. calls' = [calls EXCEPT ![Here.call] = c]
  BY <1>0 DEF Call, WithBuffer
<1>4. Shape(c) /\ c.ret = Call.ret /\ c.views = Call.views /\ c.bufs[Here.view] = <<<<>>>>
  BY <1>1, WithBufferShape
<1>5. q.call = Here.call /\ q.view = Here.view /\ q.item = 1
  BY PointFields
<1>6. q = Point(Here.call, q.view, q.item) /\ q.view \in 1..Len(c.views) /\ q.item \in Nat
  BY <1>1, <1>4, <1>5
<1>7. 1 \in DOMAIN c.bufs[q.view]
  BY <1>4, <1>5
<1> HIDE DEF c, q
<1> QED BY <1>0, <1>2, <1>3, <1>4, <1>6, <1>7, InCallStep

(* Text is written at p.                                                   *)
WrittenAt(cs, p, text) == [cs EXCEPT ![p.call].bufs[p.view][1] = @ \o text]

LEMMA StackWrites ==
    ASSUME NEW cs, IsSeq(cs), NEW p, NEW U, Stack(cs, p, U), Open(cs, p), NEW text
    PROVE  /\ Stack(WrittenAt(cs, p, text), Point(p.call, p.view, p.item + 1), U)
           /\ IsSeq(WrittenAt(cs, p, text))
<1> DEFINE old == cs[p.call]
           b == [old.bufs[p.view] EXCEPT ![1] = @ \o text]
           c == WithBuffer(old, p.view, b)
           q == Point(p.call, p.view, p.item + 1)
<1>1. /\ p.call \in 1..Len(cs) /\ Shape(old) /\ p.item \in Nat
      /\ p.view \in 1..Len(old.views) /\ p.view \in 1..Len(old.bufs)
  BY InCall
<1>2. WrittenAt(cs, p, text) = [cs EXCEPT ![p.call] = c]
  BY DEF WrittenAt, WithBuffer
<1>3. 1 \in DOMAIN b
  BY DEF Open
<1> HIDE DEF b, old
<1>4. Shape(c) /\ c.ret = old.ret /\ c.views = old.views /\ c.bufs[p.view] = b
  BY <1>1, WithBufferShape
<1>5. q.call = p.call /\ q.view = p.view /\ q.item = p.item + 1
  BY PointFields
<1>6. q = Point(p.call, q.view, q.item) /\ q.view \in 1..Len(c.views) /\ q.item \in Nat
  BY <1>1, <1>4, <1>5
<1>7. 1 \in DOMAIN c.bufs[q.view]
  BY <1>3, <1>4, <1>5
<1> HIDE DEF c, q
<1>8. Stack([cs EXCEPT ![p.call] = c], q, U)
  BY <1>4, <1>6, <1>7, StackInCall DEF old
<1>9. IsSeq([cs EXCEPT ![p.call] = c])
  BY <1>1, ReplacedInSeq
<1> QED BY <1>2, <1>8, <1>9 DEF q

LEMMA PointNext ==
    ASSUME NEW p, p = Point(p.call, p.view, p.item)
    PROVE  [p EXCEPT !.item = @ + 1] = Point(p.call, p.view, p.item + 1)
BY DEF Point

LEMMA WriteKeeps ==
    ASSUME EngineInv, ~failed, agenda # <<>>, UNCHANGED <<answers, failed>>, Here.item # 0,
           NEW text, WriteAt(Here, text, Front(agenda))
    PROVE  EngineInv'
<1>1. /\ ~broken /\ answers = <<>> /\ IsSeq(calls) /\ Rendering(calls, Here)
      /\ \A q : Append(Front(agenda), q) = <<q>>
  BY Working
<1>2. PICK U \in SUBSET DOMAIN calls : Stack(calls, Here, U)
  BY <1>1 DEF Rendering
<1>3. Open(calls, Here) /\ Here = Point(Here.call, Here.view, Here.item)
  BY <1>1, <1>2, InCall DEF Stack
<1>4. calls[Here.call].bufs[Here.view] # <<>>
  BY <1>3 DEF Open
<1>5. /\ calls' = WrittenAt(calls, Here, text)
      /\ agenda' = Append(Front(agenda), [Here EXCEPT !.item = @ + 1])
      /\ UNCHANGED broken
  BY <1>4 DEF WriteAt, WrittenAt
<1> DEFINE q == Point(Here.call, Here.view, Here.item + 1)
<1>6. agenda' = <<q>>
  BY <1>1, <1>3, <1>5, PointNext
<1>7. Stack(calls', q, U) /\ IsSeq(calls')
  BY <1>1, <1>2, <1>3, <1>5, StackWrites
<1> HIDE DEF q
<1> QED BY <1>1, <1>5, <1>6, <1>7, GoesOn

LEMMA WriteTextKeeps == ASSUME EngineInv, ~failed, WriteText PROVE EngineInv'
<1>1. agenda # <<>> /\ UNCHANGED <<answers, failed>> /\ Here.item # 0
  BY DEF WriteText, AtItem, Idle
<1> QED BY <1>1, WriteKeeps DEF WriteText

LEMMA WriteBodyKeeps == ASSUME EngineInv, ~failed, WriteBody PROVE EngineInv'
<1>1. agenda # <<>> /\ UNCHANGED <<answers, failed>> /\ Here.item # 0
  BY DEF WriteBody, AtItem, Idle
<1> QED BY <1>1, WriteKeeps DEF WriteBody

LEMMA NewCallShape ==
    ASSUME NEW path, NEW v, NEW ret
    PROVE  /\ Shape(NewCall(path, v, ret)) /\ NewCall(path, v, ret).ret = ret
           /\ Len(NewCall(path, v, ret).views) = 1
<1> DEFINE c == NewCall(path, v, ret)
<1>1. IsSeq(<<v>>) /\ IsSeq(<<<<>>>>) /\ Len(<<v>>) = 1 /\ Len(<<<<>>>>) = 1
  BY DEF IsSeq
<1>2. IsCall(c) /\ c.views = <<v>> /\ c.bufs = <<<<>>>> /\ c.pages = <<<<>>>> /\ c.ret = ret
  BY DEF NewCall, IsCall, Fields
<1> HIDE DEF c
<1>3. Shape(c) /\ Len(c.views) = 1
  BY <1>1, <1>2 DEF Shape
<1> QED BY <1>2, <1>3 DEF c

LEMMA RenderPartialKeeps == ASSUME EngineInv, ~failed, RenderPartial PROVE EngineInv'
<1>0. agenda # <<>> /\ UNCHANGED <<answers, failed, broken>> /\ Here.item # 0
  BY DEF RenderPartial, AtItem, Idle
<1>1. PICK path, v : /\ calls' = Append(calls, NewCall(path, v, Here))
                     /\ agenda' = Append(Front(agenda), Point(Len(calls) + 1, 1, 0))
  BY DEF RenderPartial
<1> DEFINE c == NewCall(path, v, Here)
           q == Point(Len(calls) + 1, 1, 0)
<1>2. ~broken /\ answers = <<>> /\ IsSeq(calls) /\ Rendering(calls, Here) /\ agenda' = <<q>>
  BY <1>0, <1>1, Working
<1>3. PICK U \in SUBSET DOMAIN calls : Stack(calls, Here, U)
  BY <1>2 DEF Rendering
<1>4. Shape(c) /\ c.ret = Here /\ Len(c.views) = 1
  BY NewCallShape
<1> HIDE DEF c
<1>5. Stack(Append(calls, c), q, U \cup {Len(calls) + 1})
  BY <1>0, <1>2, <1>3, <1>4, StackCalls
<1>6. calls' = Append(calls, c)
  BY <1>1 DEF c
<1>7. IsSeq(calls')
  BY <1>2, <1>6, AppendSeq
<1> HIDE DEF q
<1> QED BY <1>0, <1>2, <1>5, <1>6, <1>7, GoesOn

LEMMA CommitKeeps == ASSUME EngineInv, ~failed, Commit PROVE EngineInv'
<1>0. /\ agenda # <<>> /\ UNCHANGED <<answers, failed>> /\ Here.view < Len(Call.views)
      /\ Here.item = Len(Code) + 1
  BY DEF Commit, AtEnd, Idle
<1>1. /\ Shape(Call) /\ Here.call \in DOMAIN calls /\ Here.item \in Nat
      /\ Here.view \in 1..Len(Call.views) /\ Len(Call.views) \in Nat
      /\ Here.view \in 1..Len(Call.bufs)
      /\ Here.item # 0 => 1 \in DOMAIN Buffer
  BY <1>0, CallHere
<1>2. ~broken /\ \A q : [agenda EXCEPT ![Len(agenda)] = q] = <<q>>
  BY <1>0, Working
<1>3. Here.item # 0
  BY <1>0 DEF Code
<1>4. Buffer # <<>>
  BY <1>1, <1>3
<1> DEFINE q == Point(Here.call, Here.view + 1, 0)
           c == WithPage(Call, Here.view, <<>>, Call.pages[Here.view] \o Buffer[1])
<1>5. agenda' = <<q>> /\ ~broken'
  BY <1>2, <1>4 DEF Commit
<1>6. calls' = [calls EXCEPT ![Here.call] = c]
  BY <1>1, <1>4 DEF Commit, Call, WithPage, Shape, IsCall, Fields
<1>7. Shape(c) /\ c.ret = Call.ret /\ c.views = Call.views
  BY <1>1, WithPageShape
<1>8. q.call = Here.call /\ q.view = Here.view + 1 /\ q.item = 0
  BY PointFields
<1>9. q = Point(Here.call, q.view, q.item) /\ q.view \in 1..Len(c.views) /\ q.item \in Nat
  BY <1>0, <1>1, <1>7, <1>8
<1> HIDE DEF c, q
<1> QED BY <1>0, <1>5, <1>6, <1>7, <1>8, <1>9, InCallStep

(* The page is written where the call was made.                            *)
LEMMA ReturnKeeps ==
    ASSUME EngineInv, ~failed, agenda # <<>>, UNCHANGED <<answers, failed, broken>>,
           Call.ret # Client, NEW c, NEW page, NEW done, done = [calls EXCEPT ![Here.call] = c],
           calls' = WrittenAt(done, Call.ret, page),
           agenda' = Append(Front(agenda), [Call.ret EXCEPT !.item = @ + 1])
    PROVE  EngineInv'
<1>1. /\ ~broken /\ answers = <<>> /\ IsSeq(calls) /\ Rendering(calls, Here)
      /\ \A q : Append(Front(agenda), q) = <<q>>
  BY Working
<1>2. PICK U \in SUBSET DOMAIN calls : Stack(calls, Here, U)
  BY <1>1 DEF Rendering
<1> DEFINE up == Call.ret
           V == U \ {Here.call}
           q == Point(up.call, up.view, up.item + 1)
<1>3. /\ Stack(done, up, V)
      /\ Open(calls, up) /\ up.call \in DOMAIN calls /\ up.call # Here.call
  BY <1>1, <1>2, StackReturns DEF Call
<1>4. IsSeq(done)
  BY <1>1, <1>2, InCall, ReplacedInSeq
<1>5. Open(done, up)
  BY <1>3 DEF Open
<1> HIDE DEF up, V
<1>6. Stack(WrittenAt(done, up, page), q, V) /\ IsSeq(WrittenAt(done, up, page))
  BY <1>3, <1>4, <1>5, StackWrites
<1>7. up = Point(up.call, up.view, up.item)
  BY <1>3, <1>4, InCall
<1>8. agenda' = <<q>>
  BY <1>1, <1>7, PointNext DEF up
<1>9. calls' = WrittenAt(done, up, page)
  BY DEF up
<1> HIDE DEF q
<1> QED BY <1>1, <1>6, <1>8, <1>9, GoesOn

LEMMA CompleteKeeps == ASSUME EngineInv, ~failed, Complete PROVE EngineInv'
<1>0. /\ agenda # <<>> /\ UNCHANGED failed /\ Here.view = Len(Call.views)
      /\ Here.item = Len(Code) + 1
  BY DEF Complete, AtEnd, Idle
<1>1. /\ Shape(Call) /\ Here.call \in DOMAIN calls /\ Here.item \in Nat
      /\ Here.view \in 1..Len(Call.bufs)
      /\ Here.item # 0 => 1 \in DOMAIN Buffer
  BY <1>0, CallHere
<1>2. ~broken /\ answers = <<>> /\ Front(agenda) = <<>> /\ IsSeq(calls) /\ Rendering(calls, Here)
  BY <1>0, Working
<1>3. Here.item # 0
  BY <1>0 DEF Code
<1>4. Buffer # <<>>
  BY <1>1, <1>3
<1> DEFINE page == Call.pages[Here.view] \o Buffer[1]
           c == WithPage(Call, Here.view, <<>>, page)
           done == [calls EXCEPT ![Here.call] = c]
<1>5. done = [calls EXCEPT ![Here.call].bufs[Here.view] = <<>>,
                           ![Here.call].pages[Here.view] = page]
  BY <1>1 DEF Call, WithPage, Shape, IsCall, Fields
<1>6. CASE Call.ret = Client
  <2> DEFINE a == Answer(FALSE, page, FALSE)
             b == Answer(TRUE, <<>>, TRUE)
  <2>1. /\ calls' = done /\ agenda' = <<>> /\ UNCHANGED broken
        /\ answers' \in {Append(answers, a), Append(Append(answers, a), b)}
    BY <1>2, <1>4, <1>5, <1>6 DEF Complete
  <2>2. b.caught
    BY DEF Answer
  <2> HIDE DEF a, b
  <2>3. IsSeq(answers') /\ Settled(answers')
    <3>1. answers' = <<a>> \/ answers' = <<a, b>>
      BY <1>2, <2>1
    <3> QED BY <2>2, <3>1 DEF IsSeq, Settled
  <2>4. IsSeq(calls')
    <3>1. Here.call \in 1..Len(calls)
      BY <1>1, <1>2, SeqDomain
    <3> HIDE DEF c
    <3> QED BY <1>2, <2>1, <3>1, ReplacedInSeq
  <2> QED BY <1>0, <1>2, <2>1, <2>3, <2>4 DEF EngineInv
<1>7. CASE Call.ret # Client
  <2>1. PICK U \in SUBSET DOMAIN calls : Stack(calls, Here, U)
    BY <1>2 DEF Rendering
  <2>2. /\ Open(calls, Call.ret) /\ Call.ret.call \in DOMAIN calls /\ Call.ret.call # Here.call
    BY <1>2, <1>7, <2>1, StackReturns DEF Call
  <2>3. done[Call.ret.call].bufs[Call.ret.view] # <<>>
    BY <2>2 DEF Open
  <2>4. /\ calls' = WrittenAt(done, Call.ret, page)
        /\ agenda' = Append(Front(agenda), [Call.ret EXCEPT !.item = @ + 1])
        /\ UNCHANGED <<answers, failed, broken>>
    <3> HIDE DEF c
    <3> QED BY <1>0, <1>4, <1>5, <1>7, <2>3 DEF Complete, WrittenAt
  <2>5. done = [calls EXCEPT ![Here.call] = c]
    OBVIOUS
  <2> HIDE DEF done, c, page
  <2> QED BY <1>0, <1>7, <2>4, <2>5, ReturnKeeps
<1> QED BY <1>6, <1>7

LEMMA FailsKeeps == ASSUME EngineInv, ~failed, PartialMissing \/ Throw PROVE EngineInv'
<1>1. agenda # <<>>
  BY DEF PartialMissing, Throw, AtItem, Idle
<1>2. answers = <<>>
  BY <1>1, Working
<1>3. CASE PartialMissing
  BY <1>2, <1>3, PassKeeps DEF PartialMissing
<1>4. CASE Throw
  BY <1>2, <1>4, PassKeeps DEF Throw
<1> QED BY <1>3, <1>4

LEMMA RenderKeeps ==
    ASSUME EngineInv, ~failed, NEW ref, Render(ref) PROVE EngineInv'
<1>0. calls = <<>> /\ answers = <<>> /\ UNCHANGED <<failed, broken>> /\ ~broken /\ ~failed'
  BY DEF Render, EngineInv
<1>1. agenda = <<>>
  <2>1. ~Rendering(calls, agenda[1])
    <3>1. DOMAIN calls = {}
      BY <1>0
    <3> QED BY <3>1 DEF Rendering, Stack, IsPoint
  <2> QED BY <2>1 DEF EngineInv
<1>2. ASSUME NEW path, NEW v,
             calls' = <<NewCall(path, v, Client)>>, agenda' = <<Point(1, 1, 0)>>, UNCHANGED answers
      PROVE  EngineInv'
  <2> DEFINE c == NewCall(path, v, Client)
             p == Point(1, 1, 0)
  <2>1. Shape(c) /\ c.ret = Client /\ Len(c.views) = 1
    BY NewCallShape
  <2> HIDE DEF c
  <2>2. calls' = <<c>>
    BY <1>2 DEF c
  <2>3. IsSeq(calls') /\ DOMAIN calls' = {1} /\ calls'[1] = c
    BY <2>2 DEF IsSeq
  <2>4. p.call = 1 /\ p.view = 1 /\ p.item = 0 /\ p = Point(p.call, p.view, p.item)
    BY PointFields
  <2> HIDE DEF p
  <2>5. IsPoint(calls', p)
    <3>1. calls'[p.call] = c /\ p.call \in DOMAIN calls' /\ p.view \in 1..Len(c.views)
      BY <2>1, <2>3, <2>4
    <3>2. p.item \in Nat
      BY <2>4
    <3> QED BY <2>4, <3>1, <3>2 DEF IsPoint
  <2>6. Stack(calls', p, {1})
    BY <2>1, <2>3, <2>4, <2>5 DEF Stack
  <2>7. agenda' = <<p>>
    BY <1>2 DEF p
  <2> QED BY <1>0, <1>2, <2>3, <2>6, <2>7, GoesOn
<1>3. CASE /\ answers' = <<Answer(TRUE, <<>>, FALSE)>>
           /\ UNCHANGED <<calls, agenda>>
  <2>1. IsSeq(answers') /\ Len(answers') = 1 /\ IsSeq(calls')
    BY <1>0, <1>3 DEF IsSeq
  <2> QED BY <1>0, <1>1, <1>3, <2>1 DEF EngineInv, Settled
<1> QED BY <1>2, <1>3 DEF Render

(* Nothing but the registry changes.                                       *)
LEMMA ElsewhereKeeps ==
    ASSUME EngineInv, UNCHANGED <<calls, agenda, answers, failed, broken>>
    PROVE  EngineInv'
BY DEF EngineInv

LEMMA EngineInvInit == ASSUME EngineInit PROVE EngineInv
BY DEF EngineInit, EngineInv, IsSeq

LEMMA EngineInvNext == ASSUME EngineInv, [EngineNext]_evars PROVE EngineInv'
<1>1. CASE UNCHANGED evars
  BY <1>1, ElsewhereKeeps DEF evars
<1>2. CASE EngineNext /\ failed
  BY <1>2, FailedStays
<1>3. CASE \E ns \in DOMAIN engines' : RegisterEngine(ns, engines'[ns])
  BY <1>3, ElsewhereKeeps DEF RegisterEngine
<1>4. CASE ~failed /\ \E ref \in Requests : Render(ref)
  BY <1>4, RenderKeeps
<1>5. CASE ~failed /\ RenderStep
  BY <1>5, AddLayoutKeeps, BeginKeeps, WriteTextKeeps, WriteBodyKeeps, RenderPartialKeeps,
     FailsKeeps, CommitKeeps, CompleteKeeps DEF RenderStep
<1> QED BY <1>1, <1>2, <1>3, <1>4, <1>5 DEF EngineNext

(* One answer at most but for what the client throws, and no view written  *)
(* to that has no open buffer, unless it failed.                           *)
LEMMA OnceFromInv == ASSUME EngineInv PROVE AnsweredOnceUnlessFailed
<1>1. failed => answers # <<>> /\ answers[1].err
  BY DEF EngineInv
<1>2. ASSUME ~failed PROVE ~broken /\ (Len(answers) < 2 \/ (Len(answers) = 2 /\ answers[2].caught))
  <2>1. ~broken /\ (answers = <<>> \/ Settled(answers))
    BY <1>2 DEF EngineInv
  <2>2. CASE answers = <<>>
    BY <2>1, <2>2
  <2>3. CASE Settled(answers)
    BY <2>1, <2>3 DEF Settled
  <2> QED BY <2>1, <2>2, <2>3
<1> QED BY <1>1, <1>2 DEF AnsweredOnceUnlessFailed

(* Whatever the views, their layouts and their partial views are: the      *)
(* callback of response_t::render is called once, or twice if it throws    *)
(* when it is given the page, unless a partial view is missing or a view   *)
(* throws; then the first call is given the error.                         *)
THEOREM RenderedOnce == EngineSpec => []AnsweredOnceUnlessFailed
<1>1. EngineInit => EngineInv
  BY EngineInvInit
<1>2. EngineInv /\ [EngineNext]_evars => EngineInv'
  BY EngineInvNext
<1>3. EngineInv => AnsweredOnceUnlessFailed
  BY OnceFromInv
<1> QED BY <1>1, <1>2, <1>3, PTL DEF EngineSpec
===============================================================================
