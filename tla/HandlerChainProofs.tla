------------------------- MODULE HandlerChainProofs -------------------------
(***************************************************************************)
(* The order of rules, handlers and answer, for every plan.                *)
(*                                                                         *)
(* Moves says of a place to go on from all that the order rests on: where  *)
(* it may lie, that the response only gets further, and that the rules are *)
(* left by their end only.  The lemmas show it of each operator that       *)
(* computes a place; the invariant then follows action by action.          *)
(*                                                                         *)
(* AfterInv counts the handlers that ran after the answer: what has run so *)
(* far, and where the chain stands, tell which handlers are still to come. *)
(***************************************************************************)
EXTENDS HandlerChain, FiniteSetTheorems, TLAPS

Pos == Nat \ {0}
Stages == {"setup", "access", "pre", "exec", "post", "done"}
HandlerStages == {"pre", "exec", "post"}
Response == [started : BOOLEAN, ended : BOOLEAN, error : BOOLEAN, answers : Nat,
             late : BOOLEAN, async : BOOLEAN, undefined : BOOLEAN]
Sane(rs) == rs \in Response /\ (rs.ended => rs.started)

(* A handler stands at this place.                                         *)
InGroup(st, a) ==
    st \in HandlerStages =>
        plan.found /\ a[1] \in DOMAIN plan[st] /\ a[2] \in DOMAIN plan[st][a[1]]

Typed ==
    /\ stage \in Stages /\ at \in Pos \X Pos /\ waiting \in BOOLEAN /\ Sane(res)
    /\ log \in Seq((Stages \ {"setup"}) \X Pos \X Pos)
    /\ stage = "setup" => log = <<>> /\ ~waiting /\ at = <<1, 1>> /\ ~res.started
    /\ stage # "setup" => IsPlan(plan)
    /\ stage = "access" => at[1] = 1 /\ (waiting => at[2] <= Len(plan.access[1]))
    /\ InGroup(stage, at)

Logged(k) == \E i \in DOMAIN log : log[i] = <<"access", 1, k>>

(* The rules before the current one were asked and granted, and all were   *)
(* when the handlers run.                                                  *)
Asked ==
    /\ stage = "access" =>
         /\ \A i \in DOMAIN log : log[i][1] = "access"
         /\ \A k \in DOMAIN plan.access[1] :
              /\ k < at[2] => Grants(plan.access[1][k]) /\ Logged(k)
              /\ waiting /\ k = at[2] => Logged(k)
    /\ stage \in HandlerStages =>
         \A k \in DOMAIN plan.access[1] : Grants(plan.access[1][k]) /\ Logged(k)

(* Whoever answers ends the response, and a file starts it.  A handler of  *)
(* the route runs only when it has not ended, and no router sent a file.   *)
NoFileBefore == \A i \in DOMAIN log : log[i][1] = "pre" => Does(log[i]) \notin FileKinds
Unstarted ==
    (stage = "exec" /\ ~res.undefined /\ (waiting => Group[at[2]] = "later"))
        => ~res.ended /\ NoFileBefore
Starts ==
    \A i \in DOMAIN log : log[i][1] # "access" =>
        /\ Does(log[i]) \in AnswerKinds => res.ended
        /\ Does(log[i]) \in FileKinds => res.started

Inv == Typed /\ Asked /\ GrantedFirst /\ Unstarted /\ Starts /\ AnswerEndsWork

-----------------------------------------------------------------------------
Moves(p, rs) ==
    /\ p.stage \in Stages \ {"setup"} /\ p.at \in Pos \X Pos /\ Sane(p.res)
    /\ rs.started => p.res.started
    /\ rs.ended => p.res.ended
    /\ InGroup(p.stage, p.at)
    /\ p.stage = "access" =>
         stage = "access" /\ p.at = <<1, at[2] + 1>> /\ at[2] < Len(plan.access[1])
    /\ p.stage \in HandlerStages /\ stage = "access" => at[2] >= Len(plan.access[1])

(* The handlers of the route are only gone to with a response that has not *)
(* started, and gone on with while it has not ended.                       *)
Fresh(p) == p.stage = "exec" => ~p.res.ended /\ (stage # "exec" => ~p.res.started)

(* What holds wherever the request goes on from.                           *)
Here == Typed /\ stage # "setup"

LEMMA PlaceFields ==
    ASSUME NEW st, NEW g, NEW i, NEW rs
    PROVE  /\ Place(st, g, i, rs).stage = st /\ Place(st, g, i, rs).at = <<g, i>>
           /\ Place(st, g, i, rs).res = rs
BY DEF Place

LEMMA AnsweredStarts ==
    ASSUME NEW rs, Sane(rs)
    PROVE  /\ Sane(Answered(rs)) /\ Answered(rs).started /\ Answered(rs).ended
           /\ Answered(rs).undefined = rs.undefined
<1>1. Answered(rs) \in Response
  <2>1. Answered(rs) = [started |-> TRUE, ended |-> TRUE, error |-> rs.error,
                        answers |-> rs.answers + 1, late |-> rs.late,
                        async |-> rs.async, undefined |-> rs.undefined]
    <3>1. rs = [started |-> rs.started, ended |-> rs.ended, error |-> rs.error,
                answers |-> rs.answers, late |-> rs.late,
                async |-> rs.async, undefined |-> rs.undefined]
      BY DEF Sane, Response
    <3>2. Answered(rs) = [rs EXCEPT !.answers = rs.answers + 1, !.started = TRUE, !.ended = TRUE]
      BY DEF Answered
    <3> QED BY <3>1, <3>2
  <2>2. rs.answers + 1 \in Nat
    BY DEF Sane, Response
  <2>3. /\ rs.error \in BOOLEAN /\ rs.late \in BOOLEAN /\ rs.async \in BOOLEAN
        /\ rs.undefined \in BOOLEAN
    BY DEF Sane, Response
  <2> QED BY <2>1, <2>2, <2>3 DEF Response
<1>2. Answered(rs).started = TRUE /\ Answered(rs).ended = TRUE
  BY DEF Answered, Sane, Response
<1>3. Answered(rs).undefined = rs.undefined
  BY DEF Answered, Sane, Response
<1> QED BY <1>1, <1>2, <1>3 DEF Sane

LEMMA StartedStarts ==
    ASSUME NEW rs, Sane(rs)
    PROVE  /\ Sane(Started(rs)) /\ Started(rs).started /\ Started(rs).ended = rs.ended
           /\ Started(rs).answers = rs.answers + 1
<1>1. Started(rs) = [started |-> TRUE, ended |-> rs.ended, error |-> rs.error,
                     answers |-> rs.answers + 1, late |-> rs.late,
                     async |-> rs.async, undefined |-> rs.undefined]
  <2>1. rs = [started |-> rs.started, ended |-> rs.ended, error |-> rs.error,
              answers |-> rs.answers, late |-> rs.late,
              async |-> rs.async, undefined |-> rs.undefined]
    BY DEF Sane, Response
  <2>2. Started(rs) = [rs EXCEPT !.answers = rs.answers + 1, !.started = TRUE]
    BY DEF Started
  <2> QED BY <2>1, <2>2
<1>2. /\ rs.answers + 1 \in Nat /\ rs.ended \in BOOLEAN /\ rs.error \in BOOLEAN
      /\ rs.late \in BOOLEAN /\ rs.async \in BOOLEAN /\ rs.undefined \in BOOLEAN
  BY DEF Sane, Response
<1> QED BY <1>1, <1>2 DEF Sane, Response

(* What a handler leaves of the response.                                  *)
LEMMA AfterStarts ==
    ASSUME NEW rs, Sane(rs), NEW does
    PROVE  /\ Sane(After(does, rs))
           /\ rs.started => After(does, rs).started
           /\ rs.ended => After(does, rs).ended
           /\ does \in AnswerKinds => After(does, rs).ended
           /\ does \in FileKinds => After(does, rs).started /\ After(does, rs).ended = rs.ended
           /\ does \notin AnswerKinds \cup FileKinds => After(does, rs) = rs
<1>1. AnswerKinds \cap FileKinds = {}
  BY DEF AnswerKinds, FileKinds
<1> QED BY <1>1, AnsweredStarts, StartedStarts DEF After

LEMMA OverMoves ==
    ASSUME NEW rs, Sane(rs), NEW rt, Sane(rt), rs.started => rt.started, rs.ended => rt.ended
    PROVE  Moves(Place("done", 1, 1, rt), rs) /\ Fresh(Place("done", 1, 1, rt))
BY DEF Place, Moves, Fresh, InGroup, Stages, HandlerStages, Pos

LEMMA DoneMoves ==
    ASSUME NEW rs, Sane(rs), NEW err
    PROVE  Moves(Done(rs, err), rs) /\ Fresh(Done(rs, err))
BY AnsweredStarts, OverMoves DEF Done

(* The first place of a stage with handlers.                               *)
LEMMA FirstPlace ==
    ASSUME NEW st \in HandlerStages, NEW rs, Sane(rs), IsPlan(plan), plan.found, plan[st] # <<>>,
           stage = "access" => at[2] >= Len(plan.access[1])
    PROVE  Moves(Place(st, 1, 1, rs), rs)
<1>1. 1 \in DOMAIN plan[st] /\ 1 \in DOMAIN plan[st][1]
  BY DEF IsPlan, Groups, HandlerStages
<1> QED BY <1>1 DEF Moves, Place, InGroup, Stages, HandlerStages, Pos

LEMMA AfterExecMoves ==
    ASSUME NEW rs, Sane(rs), IsPlan(plan), plan.found, stage # "access"
    PROVE  Moves(AfterExec(rs), rs) /\ AfterExec(rs).stage # "exec"
<1>1. CASE plan.post = <<>>
  BY <1>1, DoneMoves, PlaceFields DEF AfterExec, Done
<1>2. CASE plan.post # <<>>
  <2>1. plan["post"] # <<>> /\ "post" \in HandlerStages
    BY <1>2 DEF HandlerStages
  <2>2. Moves(Place("post", 1, 1, rs), rs)
    BY <2>1, FirstPlace
  <2> QED BY <1>2, <2>2 DEF AfterExec, Place
<1> QED BY <1>1, <1>2

LEMMA AfterPreMoves ==
    ASSUME NEW rs, Sane(rs), IsPlan(plan), plan.found,
           stage = "access" => at[2] >= Len(plan.access[1])
    PROVE  Moves(AfterPre(rs), rs) /\ Fresh(AfterPre(rs))
<1>1. CASE rs.started
  BY <1>1, DoneMoves DEF AfterPre
<1>2. CASE ~rs.started
  <2>1. plan["exec"] # <<>> /\ "exec" \in HandlerStages
    BY DEF HandlerStages, IsPlan
  <2>2. Moves(Place("exec", 1, 1, rs), rs)
    BY <2>1, FirstPlace
  <2> QED BY <1>2, <2>2 DEF AfterPre, Fresh, Place, Sane
<1> QED BY <1>1, <1>2

LEMMA AfterAccessMoves ==
    ASSUME NEW rs, Sane(rs), IsPlan(plan), at[2] >= Len(plan.access[1])
    PROVE  Moves(AfterAccess(rs), rs) /\ Fresh(AfterAccess(rs))
<1>1. CASE ~plan.found
  BY <1>1, AnsweredStarts, OverMoves DEF AfterAccess
<1>2. CASE plan.found /\ plan.pre = <<>>
  BY <1>2, AfterPreMoves DEF AfterAccess
<1>3. CASE plan.found /\ plan.pre # <<>>
  <2>1. plan["pre"] # <<>> /\ "pre" \in HandlerStages
    BY <1>3 DEF HandlerStages
  <2>2. Moves(Place("pre", 1, 1, rs), rs)
    BY <1>3, <2>1, FirstPlace
  <2> QED BY <1>3, <2>2 DEF AfterAccess, Fresh, Place
<1> QED BY <1>1, <1>2, <1>3

LEMMA NextGroupMoves ==
    ASSUME Here, NEW rs, Sane(rs), stage # "done",
           stage = "access" => at[2] >= Len(plan.access[1])
    PROVE  Moves(NextGroup(rs), rs) /\ Fresh(NextGroup(rs))
<1>1. IsPlan(plan) /\ stage \in Stages /\ (stage \in HandlerStages => plan.found)
  BY DEF Here, Typed, InGroup
<1>2. CASE stage = "access"
  <2>1. ~(at[1] < Len(plan[stage]))
    <3>1. plan[stage] = plan.access /\ Len(plan.access) = 1 /\ at[1] = 1
      BY <1>1, <1>2 DEF Here, Typed, IsPlan
    <3> QED BY <3>1
  <2>2. NextGroup(rs) = AfterAccess(rs)
    BY <1>2, <2>1 DEF NextGroup
  <2> QED BY <1>1, <1>2, <2>2, AfterAccessMoves
<1>3. CASE stage = "exec"
  <2>1. ~(at[1] < Len(plan[stage]))
    <3>1. plan[stage] = plan.exec /\ Len(plan.exec) = 1
      BY <1>1, <1>3 DEF IsPlan
    <3>2. at[1] \in Pos
      BY DEF Here, Typed
    <3> QED BY <3>1, <3>2 DEF Pos
  <2>2. NextGroup(rs) = AfterExec(rs)
    BY <1>3, <2>1 DEF NextGroup
  <2> QED BY <1>1, <1>3, <2>2, AfterExecMoves DEF HandlerStages, Fresh
<1>4. CASE stage \in {"pre", "post"}
  <2>1. CASE at[1] < Len(plan[stage])
    <3>1. at[1] + 1 \in Pos /\ at[1] + 1 \in DOMAIN plan[stage] /\ 1 \in DOMAIN plan[stage][at[1] + 1]
      <4>1. plan[stage] \in Groups
        BY <1>1, <1>4 DEF IsPlan
      <4>2. at[1] \in Pos
        BY DEF Here, Typed
      <4>3. at[1] + 1 \in Pos /\ at[1] + 1 \in DOMAIN plan[stage]
        BY <2>1, <4>1, <4>2 DEF Groups, Pos
      <4>4. plan[stage][at[1] + 1] \in Seq(HandlerKinds) \ {<<>>}
        BY <4>1, <4>3 DEF Groups
      <4> QED BY <4>3, <4>4
    <3>2. NextGroup(rs) = Place(stage, at[1] + 1, 1, rs)
      BY <2>1 DEF NextGroup
    <3> QED BY <1>1, <1>4, <3>1, <3>2 DEF Moves, Fresh, Place, InGroup, Stages, HandlerStages, Pos
  <2>2. CASE ~(at[1] < Len(plan[stage])) /\ stage = "pre"
    <3>1. NextGroup(rs) = AfterPre(rs)
      BY <2>2 DEF NextGroup
    <3> QED BY <1>1, <2>2, <3>1, AfterPreMoves DEF HandlerStages
  <2>3. CASE ~(at[1] < Len(plan[stage])) /\ stage = "post"
    <3>1. NextGroup(rs) = Done(rs, FALSE)
      BY <2>3 DEF NextGroup
    <3> QED BY <3>1, DoneMoves
  <2> QED BY <1>4, <2>1, <2>2, <2>3
<1> QED BY <1>1, <1>2, <1>3, <1>4 DEF Here, Stages

LEMMA NextInGroupMoves ==
    ASSUME Here, NEW rs, Sane(rs), stage # "done",
           stage = "access" => at[2] <= Len(plan.access[1])
    PROVE  Moves(NextInGroup(rs), rs) /\ Fresh(NextInGroup(rs))
<1>1. IsPlan(plan) /\ stage \in Stages /\ at \in Pos \X Pos
  BY DEF Here, Typed
<1>2. stage = "access" => Group = plan.access[1] /\ Len(Group) \in Nat
  BY <1>1 DEF Here, Typed, Group, IsPlan
<1>3. CASE at[2] >= Len(Group) \/ Stops(rs)
  <2>1. stage = "access" => at[2] >= Len(plan.access[1])
    BY <1>2, <1>3 DEF Stops
  <2> QED BY <1>3, <2>1, NextGroupMoves DEF NextInGroup
<1>4. CASE ~(at[2] >= Len(Group) \/ Stops(rs))
  <2>1. NextInGroup(rs) = Place(stage, at[1], at[2] + 1, rs)
    BY <1>4 DEF NextInGroup
  <2>2. at[2] + 1 \in Pos /\ at[1] \in Pos
    BY <1>1 DEF Pos
  <2>3. CASE stage = "access"
    <3>1. at[1] = 1 /\ at[2] < Len(plan.access[1])
      BY <1>1, <1>2, <1>4, <2>3 DEF Here, Typed, Pos
    <3> QED BY <1>1, <2>1, <2>2, <2>3, <3>1 DEF Moves, Fresh, Place, InGroup, Stages, HandlerStages
  <2>4. CASE stage \in HandlerStages
    <3>1. Len(Group) \in Nat /\ DOMAIN Group = 1..Len(Group)
      BY <1>1, <2>4 DEF Here, Typed, InGroup, Group, HandlerStages, IsPlan, Groups
    <3>2. at[2] + 1 \in DOMAIN plan[stage][at[1]]
      BY <1>4, <3>1, <2>2, <1>1 DEF Group, Pos
    <3>3. InGroup(stage, <<at[1], at[2] + 1>>)
      BY <3>2, <2>4 DEF Here, Typed, InGroup
    <3>4. stage = "exec" => ~rs.ended
      BY <1>4 DEF Stops
    <3> QED BY <1>1, <2>1, <2>2, <2>4, <3>3, <3>4 DEF Moves, Fresh, Place, HandlerStages
  <2> QED BY <1>1, <2>3, <2>4 DEF Here, Stages, HandlerStages
<1> QED BY <1>3, <1>4

-----------------------------------------------------------------------------
(* The steps.                                                              *)
LEMMA LogGrows ==
    ASSUME Typed, stage # "setup", Ran
    PROVE  /\ log' \in Seq((Stages \ {"setup"}) \X Pos \X Pos)
           /\ Len(log') = Len(log) + 1 /\ Len(log) \in Nat
           /\ DOMAIN log' = DOMAIN log \cup {Len(log) + 1}
           /\ \A i \in DOMAIN log : log'[i] = log[i] /\ i < Len(log) + 1
           /\ log'[Len(log) + 1] = <<stage, at[1], at[2]>>
BY DEF Typed, Ran, Stages

(* A handler runs and the request goes on from p.                          *)
LEMMA HandlerStep ==
    ASSUME Inv, AtHandler, Ran, UNCHANGED plan, waiting' \in BOOLEAN,
           NEW p, GoTo(p), Moves(p, res),
           Group[at[2]] \in AnswerKinds => p.res.ended,
           Group[at[2]] \in FileKinds => p.res.started,
           (p.stage = "exec" /\ ~p.res.undefined
              /\ (waiting' => plan[p.stage][p.at[1]][p.at[2]] = "later"))
                => ~p.res.ended /\ (stage # "exec" => ~p.res.started)
    PROVE  Inv'
<1>0. /\ stage \in HandlerStages /\ stage # "setup" /\ stage # "access"
      /\ stage' = p.stage /\ at' = p.at /\ res' = p.res
      /\ ~waiting /\ ~res.undefined
  BY DEF AtHandler, Alive, GoTo, HandlerStages
<1>1. /\ log' \in Seq((Stages \ {"setup"}) \X Pos \X Pos)
      /\ Len(log) \in Nat /\ DOMAIN log' = DOMAIN log \cup {Len(log) + 1}
      /\ \A i \in DOMAIN log : log'[i] = log[i] /\ i < Len(log) + 1
      /\ log'[Len(log) + 1] = <<stage, at[1], at[2]>>
  BY <1>0, LogGrows DEF Inv
<1>2. stage' # "access" /\ stage' # "setup"
  BY <1>0 DEF Moves
<1>3. Typed'
  BY <1>0, <1>1, <1>2 DEF Inv, Typed, Moves, InGroup
<1>4. \A k : Logged(k) => Logged(k)'
  BY <1>1 DEF Logged
<1>5. /\ plan' = plan
      /\ \A k \in DOMAIN plan.access[1] : Grants(plan.access[1][k]) /\ Logged(k)
  BY <1>0 DEF Inv, Asked
<1>6. Asked'
  BY <1>2, <1>4, <1>5 DEF Asked, Grants
<1>7. GrantedFirst'
  <2> SUFFICES ASSUME NEW j \in DOMAIN log', log'[j][1] # "access",
                      NEW k \in DOMAIN plan.access[1]
               PROVE  /\ Grants(plan.access[1][k])
                      /\ \E i \in DOMAIN log' : i < j /\ log'[i] = <<"access", 1, k>>
    BY <1>5 DEF GrantedFirst, Grants
  <2>1. CASE j \in DOMAIN log
    <3>1. /\ Grants(plan.access[1][k])
          /\ \E i \in DOMAIN log : i < j /\ log[i] = <<"access", 1, k>>
      BY <2>1, <1>1 DEF Inv, GrantedFirst
    <3> QED BY <3>1, <1>1
  <2>2. CASE j = Len(log) + 1
    BY <2>2, <1>1, <1>5 DEF Logged
  <2> QED BY <2>1, <2>2, <1>1
<1>8. \A i \in DOMAIN log : Does(log'[i]) = Does(log[i])
  BY <1>1 DEF Does
<1>9. \A i : Does(log[i])' = Does(log'[i])
  BY <1>5 DEF Does
<1>10. Starts'
  <2> SUFFICES ASSUME NEW i \in DOMAIN log', log'[i][1] # "access"
               PROVE  /\ Does(log'[i]) \in AnswerKinds => res'.ended
                      /\ Does(log'[i]) \in FileKinds => res'.started
    BY <1>9 DEF Starts
  <2>1. CASE i \in DOMAIN log
    <3>1. /\ Does(log'[i]) \in AnswerKinds => res.ended
          /\ Does(log'[i]) \in FileKinds => res.started
      BY <2>1, <1>1, <1>8 DEF Inv, Starts
    <3> QED BY <3>1, <1>0 DEF Moves
  <2>2. CASE i = Len(log) + 1
    <3>1. Does(log'[i]) = Group[at[2]]
      BY <2>2, <1>1 DEF Group, Does
    <3> QED BY <3>1, <1>0
  <2> QED BY <2>1, <2>2, <1>1
<1>11. Unstarted'
  <2> SUFFICES ASSUME p.stage = "exec", ~p.res.undefined,
                      waiting' => plan[p.stage][p.at[1]][p.at[2]] = "later"
               PROVE  ~p.res.ended /\ NoFileBefore'
    BY <1>0, <1>5 DEF Unstarted, Group
  <2>1. ~p.res.ended /\ (stage # "exec" => ~p.res.started)
    OBVIOUS
  <2>2. CASE stage # "exec"
    <3>1. ~res'.started
      BY <1>0, <2>1, <2>2
    <3> QED BY <1>10, <2>1, <3>1 DEF Starts, NoFileBefore
  <2>3. CASE stage = "exec"
    <3>1. NoFileBefore
      BY <1>0, <2>3 DEF Inv, Unstarted
    <3>2. log'[Len(log) + 1][1] # "pre"
      BY <1>1, <2>3
    <3> QED BY <1>1, <1>8, <1>9, <2>1, <3>1, <3>2 DEF NoFileBefore
  <2> QED BY <2>2, <2>3
<1>12. AnswerEndsWork'
  <2> SUFFICES ASSUME NEW i \in DOMAIN log', NEW j \in DOMAIN log', i < j,
                      log'[i][1] # "access", log'[j][1] = "exec"
               PROVE  /\ Does(log'[i]) \notin AnswerKinds
                      /\ log'[i][1] = "pre" => Does(log'[i]) \notin FileKinds
    BY <1>9 DEF AnswerEndsWork
  <2>1. i \in DOMAIN log /\ log'[i] = log[i] /\ Does(log'[i]) = Does(log[i])
    BY <1>1, <1>8 DEF Inv, Typed
  <2>2. CASE j \in DOMAIN log
    BY <2>1, <2>2, <1>1 DEF Inv, AnswerEndsWork
  <2>3. CASE j = Len(log) + 1
    <3>1. stage = "exec"
      BY <2>3, <1>1
    <3>2. ~res.ended /\ NoFileBefore
      BY <3>1, <1>0 DEF Inv, Unstarted
    <3> QED BY <2>1, <3>2 DEF Inv, Starts, NoFileBefore
  <2> QED BY <2>2, <2>3, <1>1
<1> QED BY <1>3, <1>6, <1>7, <1>10, <1>11, <1>12 DEF Inv

(* A callback: nothing is added to the log.                                *)
LEMMA QuietStep ==
    ASSUME Inv, stage \in {"access"} \cup HandlerStages, UNCHANGED <<plan, log>>, waiting' \in BOOLEAN,
           NEW p, GoTo(p), Moves(p, res), (p.stage = "exec" => ~p.res.started) \/ p.res.undefined,
           p.stage = "access" =>
             ~waiting' /\ \A k \in DOMAIN plan.access[1] :
                            k <= at[2] => Grants(plan.access[1][k]) /\ Logged(k),
           p.stage \in HandlerStages =>
             \A k \in DOMAIN plan.access[1] : Grants(plan.access[1][k]) /\ Logged(k)
    PROVE  Inv'
<1>0. /\ stage # "setup" /\ stage' = p.stage /\ at' = p.at /\ res' = p.res /\ plan' = plan /\ log' = log
  BY DEF GoTo, HandlerStages
<1>1. stage' # "setup" /\ (stage' = "access" => stage = "access")
  BY <1>0 DEF Moves
<1>2. Typed'
  BY <1>0, <1>1 DEF Inv, Typed, Moves, InGroup
<1>3. \A k : Logged(k)' <=> Logged(k)
  BY <1>0 DEF Logged
<1>4. Asked'
  <2>1. ASSUME stage' = "access"
        PROVE  /\ \A i \in DOMAIN log' : log'[i][1] = "access"
               /\ \A k \in DOMAIN plan.access[1] :
                    /\ k < at'[2] => Grants(plan.access[1][k]) /\ Logged(k)
                    /\ ~waiting'
    <3>1. at'[2] = at[2] + 1 /\ at[2] \in Nat
      BY <2>1, <1>0 DEF Moves, Inv, Typed, Pos
    <3>2. \A k \in DOMAIN plan.access[1] : k \in Nat
      BY <1>0 DEF Inv, Typed, IsPlan
    <3> QED BY <2>1, <1>0, <1>1, <3>1, <3>2 DEF Inv, Asked
  <2> QED BY <2>1, <1>0, <1>3 DEF Asked, Grants
<1>5. GrantedFirst' /\ AnswerEndsWork'
  BY <1>0 DEF Inv, GrantedFirst, AnswerEndsWork, Grants, Does
<1>6. Starts'
  BY <1>0 DEF Inv, Starts, Does, Moves
<1>7. Unstarted'
  <2>1. (p.stage = "exec" /\ ~p.res.undefined) => ~res'.started /\ ~res'.ended
    BY <1>0 DEF Moves, Sane
  <2> QED BY <1>0, <1>6, <2>1 DEF Unstarted, Starts, NoFileBefore
<1> QED BY <1>2, <1>4, <1>5, <1>6, <1>7 DEF Inv

(* AskRule for a rule that waits, and LateCallback, move nothing.          *)
LEMMA WaitStep ==
    ASSUME Inv, AtRule, Ran, waiting' = TRUE, UNCHANGED <<plan, stage, at, res>>
    PROVE  Inv'
<1>0. stage = "access" /\ at[2] <= Len(plan.access[1]) /\ Typed /\ at[1] = 1 /\ at \in Pos \X Pos
  BY DEF Inv, Typed, AtRule, Group
<1>1. /\ log' \in Seq((Stages \ {"setup"}) \X Pos \X Pos)
      /\ Len(log) \in Nat /\ DOMAIN log' = DOMAIN log \cup {Len(log) + 1}
      /\ \A i \in DOMAIN log : log'[i] = log[i] /\ i < Len(log) + 1
      /\ log'[Len(log) + 1] = <<stage, at[1], at[2]>>
  BY <1>0, LogGrows
<1>2. Typed'
  BY <1>0, <1>1 DEF Typed, InGroup, HandlerStages
<1>3. /\ \A i \in DOMAIN log' : log'[i][1] = "access"
      /\ \A k : Logged(k) => Logged(k)'
      /\ \E i \in DOMAIN log' : log'[i] = <<"access", 1, at[2]>>
  <2>1. \A i \in DOMAIN log : log[i][1] = "access"
    BY <1>0 DEF Inv, Asked
  <2>2. \A k : Logged(k) => Logged(k)'
    BY <1>1 DEF Logged
  <2> QED BY <2>1, <2>2, <1>0, <1>1
<1>4. Asked'
  BY <1>0, <1>3 DEF Inv, Asked, Grants, Logged, HandlerStages
<1>5. GrantedFirst' /\ AnswerEndsWork' /\ Starts' /\ Unstarted'
  BY <1>0, <1>3 DEF GrantedFirst, AnswerEndsWork, Starts, Unstarted
<1> QED BY <1>2, <1>4, <1>5 DEF Inv

(* A rule has answered within the call, and the request goes on from p.    *)
LEMMA RuleStep ==
    ASSUME Inv, AtRule, Ran, UNCHANGED <<plan, waiting>>,
           NEW p, GoTo(p), Moves(p, res), Fresh(p),
           p.stage # "done" => Grants(plan.access[1][at[2]])
    PROVE  Inv'
<1>0. /\ stage = "access" /\ at[2] <= Len(plan.access[1]) /\ Typed /\ at[1] = 1 /\ at \in Pos \X Pos
      /\ stage' = p.stage /\ at' = p.at /\ res' = p.res /\ ~waiting
  BY DEF Inv, Typed, AtRule, Group, GoTo, Alive
<1>1. /\ log' \in Seq((Stages \ {"setup"}) \X Pos \X Pos)
      /\ Len(log) \in Nat /\ DOMAIN log' = DOMAIN log \cup {Len(log) + 1}
      /\ \A i \in DOMAIN log : log'[i] = log[i] /\ i < Len(log) + 1
      /\ log'[Len(log) + 1] = <<stage, at[1], at[2]>>
  BY <1>0, LogGrows
<1>2. Typed'
  BY <1>0, <1>1 DEF Typed, InGroup, Moves
<1>3. /\ \A i \in DOMAIN log' : log'[i][1] = "access"
      /\ \A k : Logged(k) => Logged(k)'
      /\ \E i \in DOMAIN log' : log'[i] = <<"access", 1, at[2]>>
  <2>1. \A i \in DOMAIN log : log[i][1] = "access"
    BY <1>0 DEF Inv, Asked
  <2>2. \A k : Logged(k) => Logged(k)'
    BY <1>1 DEF Logged
  <2> QED BY <2>1, <2>2, <1>0, <1>1
<1>4. ASSUME p.stage # "done", NEW k \in DOMAIN plan.access[1], k <= at[2]
      PROVE  Grants(plan.access[1][k]) /\ Logged(k)'
  <2>1. k \in Nat /\ at[2] \in Nat
    BY <1>0 DEF Typed, IsPlan, Pos
  <2>2. CASE k < at[2]
    BY <1>0, <1>3, <2>2 DEF Inv, Asked
  <2>3. CASE k = at[2]
    BY <1>3, <1>4, <2>3 DEF Logged
  <2> QED BY <1>4, <2>1, <2>2, <2>3
<1>5. Asked'
  <2>1. ASSUME stage' = "access", NEW k \in DOMAIN plan.access[1], k < at'[2]
        PROVE  k <= at[2]
    BY <1>0, <2>1 DEF Moves, Typed, IsPlan, Pos
  <2>2. ASSUME stage' \in HandlerStages, NEW k \in DOMAIN plan.access[1]
        PROVE  k <= at[2]
    BY <1>0, <2>2 DEF Moves, Typed, IsPlan, Pos
  <2> QED BY <1>0, <1>3, <1>4, <2>1, <2>2 DEF Asked, Grants, HandlerStages
<1>6. GrantedFirst' /\ AnswerEndsWork' /\ Starts'
  BY <1>3 DEF GrantedFirst, AnswerEndsWork, Starts
<1>7. Unstarted'
  BY <1>0, <1>3 DEF Unstarted, Fresh, NoFileBefore
<1> QED BY <1>2, <1>5, <1>6, <1>7 DEF Inv

LEMMA VerdictMoves ==
    ASSUME Inv, stage = "access", at[2] <= Len(plan.access[1]), NEW rule
    PROVE  /\ Moves(Verdict(rule), res) /\ Fresh(Verdict(rule))
           /\ Verdict(rule).stage # "done" => Grants(rule)
<1>1. Here /\ Sane(res)
  BY DEF Inv, Typed, Here
<1>2. CASE Grants(rule)
  BY <1>1, <1>2, NextInGroupMoves DEF Verdict
<1>3. CASE ~Grants(rule)
  BY <1>1, <1>3, AnsweredStarts, OverMoves, PlaceFields DEF Verdict
<1> QED BY <1>2, <1>3

LEMMA AskRuleKeeps == ASSUME Inv, AskRule PROVE Inv'
<1>1. stage = "access" /\ Group = plan.access[1] /\ at[2] <= Len(plan.access[1])
  BY DEF AskRule, AtRule, Group, Inv, Typed
<1>2. CASE Group[at[2]].now
  <2>1. GoTo(Verdict(Group[at[2]])) /\ AtRule /\ Ran /\ UNCHANGED <<plan, waiting>>
    BY <1>2 DEF AskRule
  <2> QED BY <1>1, <2>1, VerdictMoves, RuleStep
<1>3. CASE ~Group[at[2]].now
  BY <1>3, WaitStep DEF AskRule
<1> QED BY <1>2, <1>3

LEMMA RuleAnswersKeeps == ASSUME Inv, RuleAnswers PROVE Inv'
<1>1. /\ stage = "access" /\ Group = plan.access[1] /\ at[2] <= Len(plan.access[1])
      /\ waiting /\ waiting' = FALSE /\ UNCHANGED <<plan, log>>
      /\ IsPlan(plan) /\ at \in Pos \X Pos
  BY DEF RuleAnswers, Group, Inv, Typed
<1> DEFINE p == Verdict(plan.access[1][at[2]])
<1>2. GoTo(p) /\ Moves(p, res) /\ Fresh(p) /\ (p.stage # "done" => Grants(plan.access[1][at[2]]))
  BY <1>1, VerdictMoves DEF RuleAnswers
<1> HIDE DEF p
<1>3. ASSUME p.stage # "done", NEW k \in DOMAIN plan.access[1], k <= at[2]
      PROVE  Grants(plan.access[1][k]) /\ Logged(k)
  <2>1. k \in Nat /\ at[2] \in Nat
    BY <1>1 DEF IsPlan, Pos
  <2> QED BY <1>1, <1>2, <1>3, <2>1 DEF Inv, Asked
<1>4. ASSUME p.stage \in HandlerStages, NEW k \in DOMAIN plan.access[1]
      PROVE  k <= at[2]
  BY <1>1, <1>2, <1>4 DEF Moves, IsPlan, Pos
<1>5. /\ p.stage = "access" =>
           ~waiting' /\ \A k \in DOMAIN plan.access[1] :
                          k <= at[2] => Grants(plan.access[1][k]) /\ Logged(k)
      /\ p.stage \in HandlerStages =>
           \A k \in DOMAIN plan.access[1] : Grants(plan.access[1][k]) /\ Logged(k)
  BY <1>1, <1>3, <1>4 DEF HandlerStages
<1>6. p.stage = "exec" => ~p.res.started
  BY <1>1, <1>2 DEF Fresh
<1> QED BY <1>1, <1>2, <1>5, <1>6, QuietStep

LEMMA NoRulesKeeps == ASSUME Inv, NoRules PROVE Inv'
<1>1. /\ stage = "access" /\ plan.access[1] = <<>> /\ IsPlan(plan) /\ Sane(res)
      /\ at[2] >= Len(plan.access[1]) /\ UNCHANGED <<plan, log>> /\ waiting' \in BOOLEAN
  BY DEF NoRules, Group, Inv, Typed, Pos
<1> DEFINE p == AfterAccess(res)
<1>2. GoTo(p) /\ Moves(p, res) /\ Fresh(p)
  BY <1>1, AfterAccessMoves DEF NoRules
<1> HIDE DEF p
<1>3. p.stage # "access" /\ DOMAIN plan.access[1] = {}
  BY <1>1, <1>2 DEF Moves, Inv, Typed, Pos
<1>4. p.stage = "exec" => ~p.res.started
  BY <1>1, <1>2 DEF Fresh
<1> QED BY <1>1, <1>2, <1>3, <1>4, QuietStep

LEMMA RunHandlerKeeps == ASSUME Inv, RunHandler PROVE Inv'
<1> DEFINE does == Group[at[2]]
<1>0. /\ AtHandler /\ Ran /\ UNCHANGED plan /\ stage \in HandlerStages /\ Here /\ Sane(res)
      /\ stage # "done" /\ stage # "access" /\ IsPlan(plan) /\ plan.found
      /\ ~waiting /\ waiting \in BOOLEAN
  BY DEF RunHandler, AtHandler, Alive, HandlerStages, Inv, Typed, Here, InGroup
<1>1. does \in HandlerKinds
  <2>1. at[1] \in DOMAIN plan[stage] /\ at[2] \in DOMAIN plan[stage][at[1]]
    BY <1>0 DEF Here, Typed, InGroup
  <2>2. plan[stage] \in Seq(Seq(HandlerKinds))
    BY <1>0 DEF IsPlan, Groups, HandlerStages
  <2>3. plan[stage][at[1]] \in Seq(HandlerKinds)
    BY <2>1, <2>2
  <2> QED BY <2>1, <2>3 DEF Group
<1>2. ASSUME NEW p, GoTo(p), Moves(p, res), Fresh(p), waiting' \in BOOLEAN,
             does \in AnswerKinds => p.res.ended,
             does \in FileKinds => p.res.started
      PROVE  Inv'
  BY <1>0, <1>2, HandlerStep DEF Fresh
<1> DEFINE ra == After(does, res)
<1>3. /\ Sane(ra) /\ (res.started => ra.started) /\ (res.ended => ra.ended)
      /\ does \in AnswerKinds => ra.ended
      /\ does \in FileKinds => ra.started /\ ra.ended = res.ended
      /\ does \notin AnswerKinds \cup FileKinds => ra = res
  BY <1>0, AfterStarts
<1>4. CASE does \in {"next", "send", "file"} /\ ~Throws(does)
  <2>1. GoTo(NextInGroup(ra)) /\ UNCHANGED waiting
    BY <1>4 DEF RunHandler, Throws
  <2> HIDE DEF ra
  <2>2. Moves(NextInGroup(ra), ra) /\ Fresh(NextInGroup(ra))
    BY <1>0, <1>3, NextInGroupMoves
  <2>3. /\ Moves(NextInGroup(ra), res)
        /\ does \in AnswerKinds => NextInGroup(ra).res.ended
        /\ does \in FileKinds => NextInGroup(ra).res.started
    BY <1>3, <2>2 DEF Moves
  <2> QED BY <1>0, <1>2, <2>1, <2>2, <2>3
<1>5. CASE does = "fail"
  <2>0. does \notin AnswerKinds /\ does \notin FileKinds
    BY <1>5 DEF AnswerKinds, FileKinds
  <2>1. GoTo(Failed(res)) /\ UNCHANGED waiting
    BY <1>5 DEF RunHandler, Throws, FileKinds
  <2>2. CASE stage = "exec"
    <3> DEFINE rs == [res EXCEPT !.error = TRUE]
    <3>1. Sane(rs) /\ rs.started = res.started /\ rs.ended = res.ended
      BY <1>0 DEF Sane, Response
    <3>2. Moves(AfterExec(rs), rs) /\ Fresh(AfterExec(rs))
      BY <1>0, <3>1, AfterExecMoves DEF Fresh
    <3>3. Moves(AfterExec(rs), res) /\ Failed(res) = AfterExec(rs)
      BY <2>2, <3>1, <3>2 DEF Moves, Failed
    <3> QED BY <1>0, <1>2, <2>0, <2>1, <3>2, <3>3
  <2>3. CASE stage # "exec"
    <3>1. Failed(res) = Done(res, TRUE)
      BY <2>3 DEF Failed
    <3> QED BY <1>0, <1>2, <2>0, <2>1, <3>1, DoneMoves
  <2> QED BY <2>2, <2>3
<1>6. CASE Throws(does)
  <2>0. does \notin AnswerKinds /\ (does \in FileKinds => res.started)
    BY <1>6 DEF AnswerKinds, FileKinds, Throws
  <2>1. GoTo(Thrown(res)) /\ UNCHANGED waiting
    BY <1>6 DEF RunHandler, Throws, FileKinds
  <2>2. CASE res.async
    <3> DEFINE rs == [res EXCEPT !.undefined = TRUE]
               p == Place(stage, at[1], at[2], rs)
    <3>1. Sane(rs) /\ rs.started = res.started /\ rs.ended = res.ended /\ rs.undefined
      BY <1>0 DEF Sane, Response
    <3>2. p.stage = stage /\ p.at = at /\ p.res = rs
      BY <1>0 DEF Place, Here, Typed
    <3>3. GoTo(p)
      BY <2>1, <2>2 DEF Thrown
    <3> HIDE DEF rs, p
    <3>4. Moves(p, res)
      BY <1>0, <3>1, <3>2 DEF Moves, Here, Typed
    <3>5. waiting' \in BOOLEAN /\ p.res.undefined /\ p.res.started = res.started
      BY <1>0, <2>1, <3>1, <3>2
    <3> QED BY <1>0, <2>0, <3>3, <3>4, <3>5, HandlerStep
  <2>3. CASE ~res.async
    <3>1. Thrown(res) = Place("done", 1, 1, Answered(res))
      BY <2>3 DEF Thrown
    <3>2. Sane(Answered(res)) /\ Answered(res).started /\ Answered(res).ended
      BY <1>0, AnsweredStarts
    <3>3. /\ Moves(Thrown(res), res) /\ Fresh(Thrown(res))
          /\ Thrown(res).res.started /\ Thrown(res).res.ended
      BY <1>0, <3>1, <3>2, OverMoves, PlaceFields
    <3> QED BY <1>0, <1>2, <2>1, <3>3
  <2> QED BY <2>2, <2>3
<1>7. CASE does \in {"quiet", "end", "lone file", "later"} /\ ~Throws(does)
  <2> DEFINE rs == [ra EXCEPT !.late = @ \/ (does = "later" /\ stage # "exec")]
  <2>2. IF stage = "exec" THEN GoTo(Place(stage, at[1], at[2], rs)) /\ waiting' = TRUE
        ELSE GoTo(NextGroup(rs)) /\ UNCHANGED waiting
    BY <1>7 DEF RunHandler, Throws
  <2> HIDE DEF ra
  <2>3. Sane(rs) /\ rs.started = ra.started /\ rs.ended = ra.ended
    <3>1. rs \in Response
      BY <1>3 DEF Sane, Response
    <3>2. rs.started = ra.started /\ rs.ended = ra.ended
      BY <1>3 DEF Sane, Response
    <3> QED BY <1>3, <3>1, <3>2 DEF Sane
  <2> HIDE DEF rs
  <2>4. CASE stage = "exec"
    <3> DEFINE p == Place(stage, at[1], at[2], rs)
    <3>1. p.stage = stage /\ p.at = at /\ p.res = rs
      BY <1>0 DEF Place, Here, Typed
    <3>2. GoTo(p) /\ waiting' = TRUE
      BY <2>2, <2>4
    <3> HIDE DEF p
    <3>3. Moves(p, res)
      BY <1>0, <1>3, <2>3, <3>1 DEF Moves, Here, Typed
    <3>4. does = "later" => ~p.res.ended
      <4>1. ~res.ended
        BY <1>0, <2>4 DEF Inv, Unstarted, AtHandler, Alive
      <4>2. does = "later" => ra = res
        BY <1>3 DEF AnswerKinds, FileKinds
      <4> QED BY <4>1, <4>2, <2>3, <3>1
    <3>5. plan[p.stage][p.at[1]][p.at[2]] = does
      BY <3>1 DEF Group
    <3>6. /\ does \in AnswerKinds => p.res.ended
          /\ does \in FileKinds => p.res.started
      BY <1>3, <2>3, <3>1
    <3> QED BY <1>0, <2>4, <3>2, <3>3, <3>4, <3>5, <3>6, HandlerStep
  <2>5. CASE stage # "exec"
    <3>1. GoTo(NextGroup(rs)) /\ UNCHANGED waiting
      BY <2>2, <2>5
    <3>2. Moves(NextGroup(rs), rs) /\ Fresh(NextGroup(rs))
      BY <1>0, <2>3, NextGroupMoves
    <3>3. Moves(NextGroup(rs), res)
      BY <1>3, <2>3, <3>2 DEF Moves
    <3>4. /\ does \in AnswerKinds => NextGroup(rs).res.ended
          /\ does \in FileKinds => NextGroup(rs).res.started
      BY <1>3, <2>3, <3>2 DEF Moves
    <3> QED BY <1>0, <1>2, <3>1, <3>2, <3>3, <3>4
  <2> QED BY <2>4, <2>5
<1>8. \/ Throws(does) \/ does = "fail"
      \/ does \in {"next", "send", "file"} \/ does \in {"quiet", "end", "lone file", "later"}
  BY <1>1 DEF HandlerKinds, AnswerKinds, FileKinds, Throws
<1> QED BY <1>4, <1>5, <1>6, <1>7, <1>8

LEMMA HandlerCallsBackKeeps == ASSUME Inv, HandlerCallsBack PROVE Inv'
<1> DEFINE rs == [res EXCEPT !.async = TRUE]
<1>0. /\ stage = "exec" /\ stage \in HandlerStages /\ stage # "access" /\ Here /\ Sane(res)
      /\ IsPlan(plan) /\ plan.found /\ waiting' = FALSE /\ UNCHANGED <<plan, log>>
      /\ \A k \in DOMAIN plan.access[1] : Grants(plan.access[1][k]) /\ Logged(k)
  BY DEF HandlerCallsBack, HandlerStages, Inv, Typed, Here, InGroup, Asked
<1>1. Sane(rs) /\ rs.started = res.started /\ rs.ended = res.ended
  BY <1>0 DEF Sane, Response
<1>2. ASSUME NEW p, GoTo(p), Moves(p, res), (p.stage = "exec" => ~p.res.started) \/ p.res.undefined
      PROVE  Inv'
  <2>1. p.stage # "access"
    BY <1>0, <1>2 DEF Moves
  <2> QED BY <1>0, <1>2, <2>1, QuietStep
<1>3. CASE at[2] = Len(Group)
  <2>1. GoTo(AfterExec(rs))
    BY <1>3 DEF HandlerCallsBack
  <2>2. Moves(AfterExec(rs), rs) /\ AfterExec(rs).stage # "exec"
    BY <1>0, <1>1, AfterExecMoves
  <2>3. Moves(AfterExec(rs), res)
    BY <1>1, <2>2 DEF Moves
  <2> QED BY <1>2, <2>1, <2>2, <2>3
<1>4. CASE at[2] # Len(Group)
  <2> DEFINE ru == [rs EXCEPT !.undefined = TRUE]
             p == Place(stage, at[1], at[2], ru)
  <2>1. GoTo(p)
    BY <1>4 DEF HandlerCallsBack
  <2> HIDE DEF rs
  <2>2. Sane(ru) /\ ru.started = rs.started /\ ru.ended = rs.ended /\ ru.undefined
    BY <1>1 DEF Sane, Response
  <2>3. p.stage = stage /\ p.at = at /\ p.res = ru
    BY <1>0 DEF Place, Here, Typed
  <2> HIDE DEF p, ru
  <2>4. Moves(p, res)
    BY <1>0, <1>1, <2>2, <2>3 DEF Moves, Here, Typed
  <2> QED BY <1>2, <2>1, <2>2, <2>3, <2>4
<1> QED BY <1>3, <1>4

LEMMA LateCallbackKeeps == ASSUME Inv, LateCallback PROVE Inv'
<1>0. res' = [res EXCEPT !.undefined = TRUE] /\ UNCHANGED <<plan, stage, at, waiting, log>> /\ Sane(res)
  BY DEF LateCallback, Inv, Typed
<1>1. Sane(res') /\ res'.started = res.started /\ res'.ended = res.ended /\ res'.undefined
  BY <1>0 DEF Sane, Response
<1>2. Typed'
  BY <1>0, <1>1 DEF Inv, Typed, InGroup, Sane
<1>3. Asked' /\ GrantedFirst' /\ AnswerEndsWork'
  BY <1>0 DEF Inv, Asked, GrantedFirst, AnswerEndsWork, Grants, Logged, Does
<1>4. Starts' /\ Unstarted'
  BY <1>0, <1>1 DEF Inv, Starts, Unstarted, Does
<1> QED BY <1>2, <1>3, <1>4 DEF Inv

LEMMA BeginKeeps == ASSUME Inv, Begin PROVE Inv'
<1>0. /\ IsPlan(plan') /\ stage = "setup" /\ stage' = "access" /\ UNCHANGED <<at, waiting, log, res>>
      /\ log = <<>> /\ ~waiting /\ at = <<1, 1>>
  BY DEF Begin, BeginChain, Inv, Typed
<1>1. Typed'
  BY <1>0 DEF Inv, Typed, Stages, InGroup, HandlerStages, Sane
<1>2. Asked'
  <2>1. \A k \in DOMAIN plan'.access[1] : ~(k < at'[2])
    BY <1>0 DEF IsPlan
  <2> QED BY <1>0, <2>1 DEF Asked, HandlerStages
<1>3. GrantedFirst' /\ AnswerEndsWork' /\ Starts' /\ Unstarted'
  BY <1>0 DEF GrantedFirst, AnswerEndsWork, Starts, Unstarted
<1> QED BY <1>1, <1>2, <1>3 DEF Inv

LEMMA InvInitial == ChainInit => Inv
<1> SUFFICES ASSUME ChainInit PROVE Inv
  OBVIOUS
<1>1. Sane(res) /\ ~res.started
  BY DEF ChainInit, NewResponse, Sane, Response
<1>2. Typed
  <2>1. stage = "setup" /\ at = <<1, 1>> /\ waiting = FALSE /\ log = <<>>
    BY DEF ChainInit
  <2>2. log \in Seq((Stages \ {"setup"}) \X Pos \X Pos) /\ at \in Pos \X Pos
    BY <2>1 DEF Pos
  <2>3. InGroup(stage, at) /\ stage \in Stages
    BY <2>1 DEF InGroup, HandlerStages, Stages
  <2> QED BY <1>1, <2>1, <2>2, <2>3 DEF Typed
<1>3. Asked /\ GrantedFirst /\ Unstarted /\ Starts /\ AnswerEndsWork
  BY DEF ChainInit, Asked, GrantedFirst, Unstarted, Starts, AnswerEndsWork, HandlerStages
<1> QED BY <1>2, <1>3 DEF Inv

LEMMA InvAlways == ChainSpec => []Inv
<1>1. Inv /\ [ChainNext]_cvars => Inv'
  <2> SUFFICES ASSUME Inv, [ChainNext]_cvars PROVE Inv'
    OBVIOUS
  <2>1. CASE UNCHANGED cvars
    <3>1. Typed'
      BY <2>1 DEF cvars, Inv, Typed, InGroup, Sane
    <3>2. Asked' /\ GrantedFirst'
      BY <2>1 DEF cvars, Inv, Asked, GrantedFirst, Grants, Logged
    <3>3. Unstarted' /\ Starts' /\ AnswerEndsWork'
      BY <2>1 DEF cvars, Inv, Unstarted, Starts, NoFileBefore, AnswerEndsWork, Does, Group
    <3> QED BY <3>1, <3>2, <3>3 DEF Inv
  <2> QED
    BY <2>1, BeginKeeps, AskRuleKeeps, RuleAnswersKeeps, NoRulesKeeps, RunHandlerKeeps,
       HandlerCallsBackKeeps, LateCallbackKeeps
    DEF ChainNext, ServeNext
<1> QED BY <1>1, InvInitial, PTL DEF ChainSpec

(* For every plan: once a handler has sent the response, or a handler of a *)
(* router has begun to send a file, no handler of the route runs any more, *)
(* whoever calls back from a timer and whenever (execute, _exec,           *)
(* _run_pre_handlers).                                                     *)
THEOREM AnswerIsFinal == ChainSpec => []AnswerEndsWork
<1>1. Inv => AnswerEndsWork
  BY DEF Inv
<1> QED BY <1>1, InvAlways, PTL

(* For every plan: no handler runs, of a router or of the route, before    *)
(* each of the access rules was asked and granted, whether the rules       *)
(* answer within the call or from a timer (validate_access, execute).      *)
(* It takes exec to follow the answer of the rules: what a connection does *)
(* while they are out is the matter of Connection.                         *)
THEOREM RulesGuardHandlers == ChainSpec => []GrantedFirst
<1>1. Inv => GrantedFirst
  BY DEF Inv
<1> QED BY <1>1, InvAlways, PTL

-----------------------------------------------------------------------------
(* What runs afterwards: the handlers that end the work, and whether each  *)
(* is the only one.                                                        *)
NoExec == \A i \in DOMAIN log : log[i][1] # "exec"
PostRan(g) == \E i \in DOMAIN log : log[i] = <<"post", g, 1>>
Ends(e) == e[1] # "access" /\ (Sends(e) \/ Does(e) \in {"fail", "throw"})
NoneSends == \A i \in DOMAIN log : ~Sends(log[i])
NoneEnds == \A i \in DOMAIN log : ~Ends(log[i])
OneEnds == \A i, j \in DOMAIN log : Ends(log[i]) /\ Ends(log[j]) => i = j
NoneBreaks == \A i \in DOMAIN log : Ends(log[i]) => ~Breaks(i)

Early == stage \in {"setup", "access", "pre"} => NoExec
Counted ==
    stage # "done" =>
        /\ NoneSends => ~res.started
        /\ OneEnds => res.answers = IF res.started THEN 1 ELSE 0
PostSoFar ==
    stage = "post" =>
        /\ \A g \in 1..(at[1] - 1) : PostRan(g)
        /\ at[2] > 1 => PostRan(at[1])
Ended ==
    (stage = "done" /\ ~NoExec) =>
        /\ OneEnds => res.answers = 1
        /\ NoneBreaks => \A g \in DOMAIN plan.post : PostRan(g)

AfterInv == Early /\ Counted /\ PostSoFar /\ Ended

(* Where the request goes on from with the response rs, once it is past    *)
(* the rules: forward only, group by group, and to the end with an answer. *)
Onward(p, rs) ==
    /\ p.stage = "done" =>
         /\ stage = "exec" => plan.post = <<>>
         /\ stage = "post" => at[1] >= Len(plan.post)
         /\ stage # "access" => p.res.answers = IF rs.started THEN rs.answers ELSE rs.answers + 1
    /\ p.stage # "done" => p.res.answers = rs.answers /\ p.res.started = rs.started
    /\ p.stage = "pre" => stage \in {"access", "pre"}
    /\ p.stage = "exec" => stage \in {"access", "pre", "exec"}
    /\ p.stage = "post" =>
         \/ stage = "exec" /\ p.at = <<1, 1>>
         \/ stage = "post" /\ p.at \in {at, <<at[1], at[2] + 1>>, <<at[1] + 1, 1>>}

LEMMA AnsweredCounts ==
    ASSUME NEW rs, Sane(rs)
    PROVE  Answered(rs).answers = rs.answers + 1
BY DEF Answered, Sane, Response

LEMMA AfterCounts ==
    ASSUME NEW rs, Sane(rs), NEW does
    PROVE  /\ does \in AnswerKinds \cup FileKinds =>
                After(does, rs).started /\ After(does, rs).answers = rs.answers + 1
           /\ does \notin AnswerKinds \cup FileKinds => After(does, rs) = rs
BY AnsweredStarts, AnsweredCounts, StartedStarts DEF After

LEMMA DoneOnward ==
    ASSUME NEW rs, Sane(rs), stage = "exec" => plan.post = <<>>,
           stage = "post" => at[1] >= Len(plan.post)
    PROVE  Onward(Done(rs, FALSE), rs)
BY AnsweredCounts, PlaceFields DEF Onward, Done

LEMMA AfterExecOnward ==
    ASSUME NEW rs, Sane(rs), stage = "exec"
    PROVE  Onward(AfterExec(rs), rs)
<1>1. CASE plan.post = <<>>
  BY <1>1, DoneOnward DEF AfterExec
<1>2. CASE plan.post # <<>>
  BY <1>2, PlaceFields DEF AfterExec, Onward
<1> QED BY <1>1, <1>2

LEMMA AfterPreOnward ==
    ASSUME NEW rs, Sane(rs), stage \in {"access", "pre"}
    PROVE  Onward(AfterPre(rs), rs)
<1>1. CASE rs.started
  BY <1>1, DoneOnward DEF AfterPre
<1>2. CASE ~rs.started
  BY <1>2, PlaceFields DEF AfterPre, Onward
<1> QED BY <1>1, <1>2

LEMMA AfterAccessOnward ==
    ASSUME NEW rs, Sane(rs), stage = "access"
    PROVE  Onward(AfterAccess(rs), rs)
<1>1. CASE ~plan.found
  BY <1>1, PlaceFields DEF AfterAccess, Onward
<1>2. CASE plan.found /\ plan.pre = <<>>
  BY <1>2, AfterPreOnward DEF AfterAccess
<1>3. CASE plan.found /\ plan.pre # <<>>
  BY <1>3, PlaceFields DEF AfterAccess, Onward
<1> QED BY <1>1, <1>2, <1>3

LEMMA NextGroupOnward ==
    ASSUME Here, NEW rs, Sane(rs), stage # "done"
    PROVE  Onward(NextGroup(rs), rs)
<1>1. IsPlan(plan) /\ stage \in Stages \ {"setup", "done"} /\ at \in Pos \X Pos
  BY DEF Here, Typed
<1>2. CASE at[1] < Len(plan[stage])
  <2>1. stage # "exec"
    <3> SUFFICES ASSUME stage = "exec" PROVE FALSE
      OBVIOUS
    <3>1. plan[stage] = plan.exec /\ Len(plan.exec) = 1
      BY <1>1 DEF IsPlan
    <3>2. at[1] \in Pos
      BY <1>1
    <3> QED BY <1>2, <3>1, <3>2 DEF Pos
  <2> DEFINE p == Place(stage, at[1] + 1, 1, rs)
  <2>2. NextGroup(rs) = p
    BY <1>2 DEF NextGroup
  <2>3. p.stage = stage /\ p.at = <<at[1] + 1, 1>> /\ p.res = rs
    BY PlaceFields
  <2> HIDE DEF p
  <2> QED BY <1>1, <2>1, <2>2, <2>3 DEF Onward
<1>3. CASE ~(at[1] < Len(plan[stage])) /\ stage = "post"
  <2>1. Len(plan.post) \in Nat /\ plan["post"] = plan.post
    BY <1>1 DEF IsPlan, Groups
  <2>2. at[1] >= Len(plan.post)
    BY <1>1, <1>3, <2>1 DEF Pos
  <2> QED BY <1>3, <2>2, DoneOnward DEF NextGroup
<1>4. CASE ~(at[1] < Len(plan[stage])) /\ stage # "post"
  BY <1>1, <1>4, AfterExecOnward, AfterPreOnward, AfterAccessOnward DEF NextGroup, Stages
<1> QED BY <1>2, <1>3, <1>4

LEMMA NextInGroupOnward ==
    ASSUME Here, NEW rs, Sane(rs), stage # "done"
    PROVE  Onward(NextInGroup(rs), rs)
<1>1. CASE at[2] >= Len(Group) \/ Stops(rs)
  BY <1>1, NextGroupOnward DEF NextInGroup
<1>2. CASE ~(at[2] >= Len(Group) \/ Stops(rs))
  <2> DEFINE p == Place(stage, at[1], at[2] + 1, rs)
  <2>1. NextInGroup(rs) = p
    BY <1>2 DEF NextInGroup
  <2>2. p.stage = stage /\ p.at = <<at[1], at[2] + 1>> /\ p.res = rs
    BY PlaceFields
  <2> HIDE DEF p
  <2> QED BY <2>1, <2>2 DEF Onward
<1> QED BY <1>1, <1>2

-----------------------------------------------------------------------------
(* What has run, when one more has.                                        *)
Now == <<stage, at[1], at[2]>>

Halts(e) ==
    \/ Does(e) = "throw" \/ (Does(e) = "fail" /\ e[1] = "post")
    \/ Does(e) \in FileKinds /\ ~NoneSends

LEMMA RanOne ==
    ASSUME Inv, stage # "setup", Ran, UNCHANGED plan
    PROVE  /\ \A g : PostRan(g) => \E i \in DOMAIN log' : log'[i] = <<"post", g, 1>>
           /\ \E i \in DOMAIN log' : log'[i] = Now
           /\ NoExec /\ stage # "exec" => NoExec'
           /\ NoneSends' => NoneSends /\ ~Sends(Now)
           /\ OneEnds' => OneEnds /\ (Ends(Now) => NoneEnds)
           /\ NoneBreaks' /\ Ends(Now) => ~Halts(Now)
<1>1. /\ Len(log) \in Nat /\ DOMAIN log' = DOMAIN log \cup {Len(log) + 1}
      /\ \A i \in DOMAIN log : log'[i] = log[i] /\ i < Len(log) + 1
      /\ log'[Len(log) + 1] = Now /\ DOMAIN log = 1..Len(log)
  BY LogGrows DEF Inv, Now, Typed
<1>2. /\ \A g : PostRan(g) => \E i \in DOMAIN log' : log'[i] = <<"post", g, 1>>
      /\ \E i \in DOMAIN log' : log'[i] = Now
  BY <1>1 DEF PostRan
<1>3. NoExec /\ stage # "exec" => NoExec'
  BY <1>1 DEF NoExec, Now
<1>4. /\ \A i : Does(log[i])' = Does(log'[i])
      /\ \A i : Sends(log[i])' <=> Sends(log'[i])
      /\ \A i : Ends(log[i])' <=> Ends(log'[i])
  BY DEF Sends, Ends, Does
<1>5. NoneSends' => NoneSends /\ ~Sends(Now)
  BY <1>1, <1>4 DEF NoneSends
<1>6. NoneBreaks' /\ Ends(Now) => ~Halts(Now)
  <2> SUFFICES ASSUME NoneBreaks', Ends(Now) PROVE ~Halts(Now)
    OBVIOUS
  <2>0. PICK n : n = Len(log) + 1
    OBVIOUS
  <2>1. ~Breaks(n)' /\ log'[n] = Now
    BY <1>1, <1>4, <2>0 DEF NoneBreaks
  <2>2. /\ Does(Now) # "throw" /\ ~(Does(Now) = "fail" /\ Now[1] = "post")
        /\ Does(Now) \in FileKinds =>
             ~\E j \in DOMAIN log' : j < Len(log) + 1 /\ Sends(log'[j])
    BY <1>4, <2>0, <2>1 DEF Breaks
  <2>3. Does(Now) \in FileKinds => NoneSends
    BY <1>1, <2>2 DEF NoneSends
  <2> QED BY <2>2, <2>3 DEF Halts
<1>7. OneEnds' => OneEnds /\ (Ends(Now) => NoneEnds)
  <2> SUFFICES ASSUME OneEnds' PROVE OneEnds /\ (Ends(Now) => NoneEnds)
    OBVIOUS
  <2>1. \A i, j \in DOMAIN log' : Ends(log'[i]) /\ Ends(log'[j]) => i = j
    BY <1>4 DEF OneEnds
  <2>2. OneEnds
    BY <1>1, <2>1 DEF OneEnds
  <2>3. Ends(Now) => NoneEnds
    BY <1>1, <2>1 DEF NoneEnds
  <2> QED BY <2>2, <2>3
<1> QED BY <1>2, <1>3, <1>5, <1>6, <1>7

LEMMA NoEndNoSend == NoneEnds => NoneSends
BY DEF NoneEnds, NoneSends, Ends, Sends

(* A handler runs, leaves the response rs, and the request goes on.        *)
LEMMA HandlerAfter ==
    ASSUME Inv, AfterInv, AtHandler, Ran, UNCHANGED plan,
           NEW p, GoTo(p), Moves(p, res), NEW rs, Sane(rs), Onward(p, rs),
           \/ rs.started = res.started /\ rs.answers = res.answers
           \/ /\ rs.started /\ rs.answers = res.answers + 1
              /\ Group[at[2]] \in AnswerKinds \cup FileKinds
    PROVE  AfterInv'
<1>0. /\ stage \in HandlerStages /\ stage # "setup" /\ stage # "access" /\ stage # "done"
      /\ stage' = p.stage /\ at' = p.at /\ res' = p.res /\ plan' = plan
      /\ Sane(res) /\ at \in Pos \X Pos /\ IsPlan(plan) /\ p.stage \in Stages \ {"setup"}
      /\ p.stage # "access"
  BY DEF AtHandler, GoTo, HandlerStages, Inv, Typed, Moves
<1>1. /\ \A g : PostRan(g) => \E i \in DOMAIN log' : log'[i] = <<"post", g, 1>>
      /\ \E i \in DOMAIN log' : log'[i] = Now
      /\ NoExec /\ stage # "exec" => NoExec'
      /\ NoneSends' => NoneSends /\ ~Sends(Now)
      /\ OneEnds' => OneEnds /\ (Ends(Now) => NoneEnds)
  BY <1>0, RanOne
<1>2. Does(Now) = Group[at[2]] /\ Now[1] # "access"
  BY <1>0 DEF Does, Now, Group
<1>3. Early'
  BY <1>0, <1>1 DEF AfterInv, Early, Onward, HandlerStages
<1>4. /\ res.answers \in Nat /\ rs.answers \in Nat
      /\ NoneSends => ~res.started
      /\ OneEnds => res.answers = IF res.started THEN 1 ELSE 0
  BY <1>0 DEF AfterInv, Counted, Sane, Response
<1>5. NoneSends' => ~rs.started
  BY <1>1, <1>2, <1>4 DEF Sends
<1>6. OneEnds' => rs.answers = IF rs.started THEN 1 ELSE 0
  <2>1. CASE /\ rs.started /\ rs.answers = res.answers + 1
             /\ Group[at[2]] \in AnswerKinds \cup FileKinds
    <3>1. OneEnds' => NoneSends /\ OneEnds
      BY <1>1, <1>2, <2>1, NoEndNoSend DEF Ends, Sends
    <3> QED BY <1>4, <2>1, <3>1
  <2>2. CASE rs.started = res.started /\ rs.answers = res.answers
    BY <1>1, <1>4, <2>2
  <2> QED BY <2>1, <2>2
<1>7. Counted'
  BY <1>0, <1>5, <1>6 DEF Counted, Onward
<1>8. ASSUME stage = "post"
      PROVE  \A g \in 1..at[1] : \E i \in DOMAIN log' : log'[i] = <<"post", g, 1>>
  <2> SUFFICES ASSUME NEW g \in 1..at[1]
               PROVE  \E i \in DOMAIN log' : log'[i] = <<"post", g, 1>>
    OBVIOUS
  <2>1. CASE g < at[1]
    BY <1>0, <1>1, <1>8, <2>1 DEF AfterInv, PostSoFar, Pos
  <2>2. CASE g = at[1] /\ at[2] > 1
    BY <1>1, <1>8, <2>2 DEF AfterInv, PostSoFar
  <2>3. CASE g = at[1] /\ at[2] = 1
    BY <1>1, <1>8, <2>3 DEF Now
  <2> QED BY <1>0, <2>1, <2>2, <2>3 DEF Pos
<1>9. PostSoFar'
  <2> SUFFICES ASSUME p.stage = "post"
               PROVE  /\ \A g \in 1..(p.at[1] - 1) : \E i \in DOMAIN log' : log'[i] = <<"post", g, 1>>
                      /\ p.at[2] > 1 => \E i \in DOMAIN log' : log'[i] = <<"post", p.at[1], 1>>
    BY <1>0 DEF PostSoFar, PostRan
  <2>1. CASE stage = "exec" /\ p.at = <<1, 1>>
    BY <2>1
  <2>2. CASE stage = "post" /\ p.at \in {at, <<at[1], at[2] + 1>>, <<at[1] + 1, 1>>}
    <3>1. at[1] \in 1..at[1] /\ (p.at[1] = at[1] \/ (p.at[1] = at[1] + 1 /\ p.at[2] = 1))
      BY <1>0, <2>2 DEF Pos
    <3> QED BY <1>0, <1>8, <2>2, <3>1 DEF Pos
  <2> QED BY <2>1, <2>2 DEF Onward
<1>10. Ended'
  <2> SUFFICES ASSUME p.stage = "done", ~NoExec'
               PROVE  /\ OneEnds' => p.res.answers = 1
                      /\ \A g \in DOMAIN plan.post :
                           \E i \in DOMAIN log' : log'[i] = <<"post", g, 1>>
    BY <1>0 DEF Ended, PostRan
  <2>1. OneEnds' => p.res.answers = 1
    BY <1>0, <1>4, <1>6 DEF Onward
  <2>2. stage \in {"exec", "post"}
    BY <1>0, <1>1 DEF AfterInv, Early, HandlerStages
  <2>3. CASE stage = "exec"
    <3>1. DOMAIN plan.post = {}
      BY <2>3 DEF Onward
    <3> QED BY <2>1, <3>1
  <2>4. CASE stage = "post"
    <3>1. DOMAIN plan.post = 1..Len(plan.post) /\ Len(plan.post) \in Nat
      BY <1>0 DEF IsPlan, Groups
    <3>2. DOMAIN plan.post \subseteq 1..at[1]
      BY <1>0, <2>4, <3>1 DEF Onward, Pos
    <3> QED BY <1>8, <2>1, <2>4, <3>2
  <2> QED BY <2>2, <2>3, <2>4
<1> QED BY <1>3, <1>7, <1>9, <1>10 DEF AfterInv

(* A handler whose failure is answered at once.                            *)
LEMMA BrokenAfter ==
    ASSUME Inv, AfterInv, AtHandler, Ran, UNCHANGED plan,
           NEW p, GoTo(p), p.stage = "done", p.res = Answered(res),
           Throws(Group[at[2]]) \/ (Group[at[2]] = "fail" /\ stage # "exec")
    PROVE  AfterInv'
<1>0. /\ stage \in HandlerStages /\ stage # "setup" /\ stage # "access" /\ stage # "done"
      /\ stage' = p.stage /\ at' = p.at /\ res' = p.res /\ plan' = plan /\ Sane(res)
  BY DEF AtHandler, GoTo, HandlerStages, Inv, Typed
<1>1. /\ NoExec /\ stage # "exec" => NoExec'
      /\ OneEnds' => OneEnds /\ (Ends(Now) => NoneEnds)
      /\ NoneBreaks' /\ Ends(Now) => ~Halts(Now)
  BY <1>0, RanOne
<1>2. Does(Now) = Group[at[2]] /\ Now[1] = stage
  BY <1>0 DEF Does, Now, Group
<1>3. Ends(Now)
  BY <1>0, <1>2 DEF Ends, Sends, Throws
<1>4. NoneSends => ~res.started
  BY <1>0 DEF AfterInv, Counted
<1>5. OneEnds' => res'.answers = 1
  <2>1. OneEnds' => res.answers = 0
    BY <1>0, <1>1, <1>3, <1>4, NoEndNoSend DEF AfterInv, Counted
  <2> QED BY <1>0, <2>1, AnsweredCounts
<1>6. NoneBreaks' => NoExec'
  <2>1. stage # "pre" => Halts(Now)
    BY <1>0, <1>2, <1>4 DEF Halts, Throws, HandlerStages
  <2> QED BY <1>0, <1>1, <1>3, <2>1 DEF AfterInv, Early
<1> QED BY <1>0, <1>5, <1>6 DEF AfterInv, Early, Counted, PostSoFar, Ended

(* A step among the rules.                                                 *)
LEMMA RuleAfter ==
    ASSUME Inv, AfterInv, stage = "access", UNCHANGED plan,
           NEW p, GoTo(p), p.stage # "done" => p.res = res /\ p.stage # "post",
           \A i \in DOMAIN log' : log'[i][1] = "access"
    PROVE  AfterInv'
<1>0. stage' = p.stage /\ at' = p.at /\ res' = p.res
  BY DEF GoTo
<1>1. NoExec'
  BY DEF NoExec
<1>2. \A i \in DOMAIN log : log[i][1] = "access"
  BY DEF Inv, Asked
<1>3. NoneSends /\ OneEnds
  BY <1>2 DEF NoneSends, OneEnds, Ends, Sends
<1>4. ~res.started /\ res.answers = 0
  BY <1>3 DEF AfterInv, Counted
<1> QED BY <1>0, <1>1, <1>4 DEF AfterInv, Early, Counted, PostSoFar, Ended

LEMMA VerdictOnward ==
    ASSUME Inv, stage = "access", NEW rule
    PROVE  Verdict(rule).stage # "done" =>
             Verdict(rule).res = res /\ Verdict(rule).stage # "post"
<1>1. Here /\ Sane(res) /\ IsPlan(plan) /\ at[1] = 1
  BY DEF Inv, Typed, Here
<1>2. CASE ~Grants(rule)
  BY <1>2, PlaceFields DEF Verdict
<1>3. CASE Grants(rule)
  <2>1. Verdict(rule) = NextInGroup(res)
    BY <1>3 DEF Verdict
  <2>2. NextInGroup(res) \in {Place(stage, at[1], at[2] + 1, res), NextGroup(res)}
    BY DEF NextInGroup
  <2>3. NextGroup(res) = AfterAccess(res)
    <3>1. plan[stage] = plan.access /\ Len(plan.access) = 1
      BY <1>1 DEF IsPlan
    <3>2. ~(at[1] < Len(plan[stage]))
      BY <1>1, <3>1
    <3> QED BY <3>2 DEF NextGroup
  <2>4. AfterAccess(res).stage # "done" =>
          AfterAccess(res).res = res /\ AfterAccess(res).stage # "post"
    BY PlaceFields DEF AfterAccess, AfterPre, Done
  <2>5. Place(stage, at[1], at[2] + 1, res).stage = "access"
        /\ Place(stage, at[1], at[2] + 1, res).res = res
    BY PlaceFields
  <2> QED BY <2>1, <2>2, <2>3, <2>4, <2>5
<1> QED BY <1>2, <1>3

LEMMA AskRuleAfter == ASSUME Inv, AfterInv, AskRule PROVE AfterInv'
<1>1. /\ stage = "access" /\ Ran /\ UNCHANGED plan /\ Typed
      /\ \A i \in DOMAIN log : log[i][1] = "access"
  BY DEF AskRule, AtRule, Inv, Asked
<1>2. \A i \in DOMAIN log' : log'[i][1] = "access"
  BY <1>1, LogGrows
<1>3. CASE Group[at[2]].now
  <2>1. GoTo(Verdict(Group[at[2]]))
    BY <1>3 DEF AskRule
  <2> QED BY <1>1, <1>2, <2>1, VerdictOnward, RuleAfter
<1>4. CASE ~Group[at[2]].now
  <2> DEFINE p == Place(stage, at[1], at[2], res)
  <2>1. p.stage = stage /\ p.at = at /\ p.res = res
    BY <1>1, PlaceFields DEF Typed
  <2>2. GoTo(p)
    BY <1>4, <2>1 DEF AskRule, GoTo
  <2> HIDE DEF p
  <2> QED BY <1>1, <1>2, <2>1, <2>2, RuleAfter
<1> QED BY <1>3, <1>4

LEMMA RuleAnswersAfter == ASSUME Inv, AfterInv, RuleAnswers PROVE AfterInv'
<1>1. /\ stage = "access" /\ UNCHANGED <<plan, log>> /\ GoTo(Verdict(Group[at[2]]))
      /\ \A i \in DOMAIN log : log[i][1] = "access"
  BY DEF RuleAnswers, Inv, Asked
<1> QED BY <1>1, VerdictOnward, RuleAfter

LEMMA NoRulesAfter == ASSUME Inv, AfterInv, NoRules PROVE AfterInv'
<1>1. /\ stage = "access" /\ UNCHANGED <<plan, log>> /\ GoTo(AfterAccess(res))
      /\ \A i \in DOMAIN log : log[i][1] = "access"
  BY DEF NoRules, Inv, Asked
<1>2. AfterAccess(res).stage # "done" =>
        AfterAccess(res).res = res /\ AfterAccess(res).stage # "post"
  BY PlaceFields DEF AfterAccess, AfterPre, Done
<1> QED BY <1>1, <1>2, RuleAfter

LEMMA RunHandlerAfter == ASSUME Inv, AfterInv, RunHandler PROVE AfterInv'
<1> DEFINE does == Group[at[2]]
<1>0. /\ AtHandler /\ Ran /\ UNCHANGED plan /\ stage \in HandlerStages /\ Here /\ Sane(res)
      /\ stage # "done" /\ stage # "access" /\ IsPlan(plan) /\ plan.found
  BY DEF RunHandler, AtHandler, HandlerStages, Inv, Typed, Here, InGroup
<1>1. does \in HandlerKinds
  <2>1. at[1] \in DOMAIN plan[stage] /\ at[2] \in DOMAIN plan[stage][at[1]]
    BY <1>0 DEF Here, Typed, InGroup
  <2>2. plan[stage] \in Seq(Seq(HandlerKinds))
    BY <1>0 DEF IsPlan, Groups, HandlerStages
  <2>3. plan[stage][at[1]] \in Seq(HandlerKinds)
    BY <2>1, <2>2
  <2> QED BY <2>1, <2>3 DEF Group
<1> DEFINE ra == After(does, res)
<1>2. /\ Sane(ra) /\ (res.started => ra.started) /\ (res.ended => ra.ended)
      /\ \/ ra.started = res.started /\ ra.answers = res.answers
         \/ /\ ra.started /\ ra.answers = res.answers + 1
            /\ does \in AnswerKinds \cup FileKinds
  BY <1>0, AfterStarts, AfterCounts
<1>3. ASSUME NEW p, GoTo(p), NEW rs, Sane(rs), Moves(p, rs), Onward(p, rs),
             rs.started = ra.started, rs.ended = ra.ended, rs.answers = ra.answers
      PROVE  AfterInv'
  <2> HIDE DEF ra, does
  <2>1. Moves(p, res)
    BY <1>2, <1>3 DEF Moves
  <2>2. \/ rs.started = res.started /\ rs.answers = res.answers
        \/ /\ rs.started /\ rs.answers = res.answers + 1
           /\ Group[at[2]] \in AnswerKinds \cup FileKinds
    BY <1>2, <1>3 DEF does
  <2> QED BY <1>0, <1>3, <2>1, <2>2, HandlerAfter
<1>4. CASE does \in {"next", "send", "file"} /\ ~Throws(does)
  <2>1. GoTo(NextInGroup(ra))
    BY <1>4 DEF RunHandler, Throws
  <2> HIDE DEF ra
  <2> QED BY <1>0, <1>2, <1>3, <2>1, NextInGroupMoves, NextInGroupOnward
<1>5. CASE does = "fail"
  <2>0. ra = res
    BY <1>0, <1>5, AfterCounts DEF AnswerKinds, FileKinds
  <2>1. GoTo(Failed(res))
    BY <1>5 DEF RunHandler, Throws, FileKinds
  <2>2. CASE stage = "exec"
    <3> DEFINE rs == [res EXCEPT !.error = TRUE]
    <3>1. Sane(rs) /\ rs.started = res.started /\ rs.ended = res.ended /\ rs.answers = res.answers
      BY <1>0 DEF Sane, Response
    <3>2. Failed(res) = AfterExec(rs)
      BY <2>2 DEF Failed
    <3> HIDE DEF rs, ra
    <3> QED BY <1>0, <1>3, <2>0, <2>1, <2>2, <3>1, <3>2, AfterExecMoves, AfterExecOnward
  <2>3. CASE stage # "exec"
    <3>1. Failed(res) = Place("done", 1, 1, Answered(res))
      BY <2>3 DEF Failed, Done
    <3> QED BY <1>0, <1>5, <2>1, <2>3, <3>1, PlaceFields, BrokenAfter
  <2> QED BY <2>2, <2>3
<1>6. CASE Throws(does)
  <2>1. GoTo(Thrown(res))
    BY <1>6 DEF RunHandler, Throws, FileKinds
  <2>2. CASE res.async
    <3> DEFINE rs == [res EXCEPT !.undefined = TRUE]
               p == Place(stage, at[1], at[2], rs)
    <3>1. Sane(rs) /\ rs.started = res.started /\ rs.ended = res.ended /\ rs.answers = res.answers
      BY <1>0 DEF Sane, Response
    <3>2. p.stage = stage /\ p.at = at /\ p.res = rs
      BY <1>0 DEF Place, Here, Typed
    <3>3. GoTo(p)
      BY <2>1, <2>2 DEF Thrown
    <3> HIDE DEF rs, p
    <3>4. Moves(p, res) /\ Onward(p, rs)
      BY <1>0, <3>1, <3>2 DEF Moves, Here, Typed, Onward, HandlerStages
    <3> QED BY <1>0, <3>1, <3>2, <3>3, <3>4, HandlerAfter
  <2>3. CASE ~res.async
    <3>1. Thrown(res) = Place("done", 1, 1, Answered(res))
      BY <2>3 DEF Thrown
    <3> QED BY <1>0, <1>6, <2>1, <3>1, PlaceFields, BrokenAfter
  <2> QED BY <2>2, <2>3
<1>7. CASE does \in {"quiet", "end", "lone file", "later"} /\ ~Throws(does)
  <2> DEFINE rs == [ra EXCEPT !.late = @ \/ (does = "later" /\ stage # "exec")]
  <2>1. IF stage = "exec" THEN GoTo(Place(stage, at[1], at[2], rs)) ELSE GoTo(NextGroup(rs))
    BY <1>7 DEF RunHandler, Throws
  <2> HIDE DEF ra
  <2>2. Sane(rs) /\ rs.started = ra.started /\ rs.ended = ra.ended /\ rs.answers = ra.answers
    <3>1. rs \in Response
      BY <1>2 DEF Sane, Response
    <3>2. rs.started = ra.started /\ rs.ended = ra.ended /\ rs.answers = ra.answers
      BY <1>2 DEF Sane, Response
    <3> QED BY <1>2, <3>1, <3>2 DEF Sane
  <2> HIDE DEF rs
  <2>3. CASE stage = "exec"
    <3> DEFINE p == Place(stage, at[1], at[2], rs)
    <3>1. p.stage = stage /\ p.at = at /\ p.res = rs
      BY <1>0 DEF Place, Here, Typed
    <3>2. GoTo(p)
      BY <2>1, <2>3
    <3> HIDE DEF p
    <3>3. Moves(p, rs) /\ Onward(p, rs)
      BY <1>0, <2>2, <2>3, <3>1 DEF Moves, Here, Typed, Onward
    <3> QED BY <1>3, <2>2, <3>2, <3>3
  <2>4. CASE stage # "exec"
    <3>1. GoTo(NextGroup(rs))
      BY <2>1, <2>4
    <3> QED BY <1>0, <1>3, <2>2, <3>1, NextGroupMoves, NextGroupOnward
  <2> QED BY <2>3, <2>4
<1>8. \/ Throws(does) \/ does = "fail"
      \/ does \in {"next", "send", "file"} \/ does \in {"quiet", "end", "lone file", "later"}
  BY <1>1 DEF HandlerKinds, AnswerKinds, FileKinds, Throws
<1> QED BY <1>4, <1>5, <1>6, <1>7, <1>8

LEMMA HandlerCallsBackAfter == ASSUME Inv, AfterInv, HandlerCallsBack PROVE AfterInv'
<1> DEFINE rs == [res EXCEPT !.async = TRUE]
           ru == [rs EXCEPT !.undefined = TRUE]
<1>0. stage = "exec" /\ UNCHANGED <<plan, log>> /\ Sane(res) /\ at \in Pos \X Pos
  BY DEF HandlerCallsBack, Inv, Typed
<1>1. /\ Sane(rs) /\ rs.started = res.started /\ rs.answers = res.answers
      /\ Sane(ru) /\ ru.started = res.started /\ ru.answers = res.answers
  BY <1>0 DEF Sane, Response
<1>2. GoTo(AfterExec(rs)) \/ GoTo(Place(stage, at[1], at[2], ru))
  BY DEF HandlerCallsBack
<1> HIDE DEF rs, ru
<1>3. \/ stage' = "exec" /\ res'.answers = res.answers /\ res'.started = res.started
      \/ stage' = "post" /\ at' = <<1, 1>> /\ res'.answers = res.answers /\ res'.started = res.started
      \/ /\ stage' = "done" /\ plan.post = <<>>
         /\ res'.answers = IF res.started THEN res.answers ELSE res.answers + 1
  <2>1. CASE GoTo(AfterExec(rs))
    <3>1. Onward(AfterExec(rs), rs) /\ AfterExec(rs).stage \in {"post", "done"}
      BY <1>0, <1>1, AfterExecOnward, PlaceFields DEF AfterExec, Done
    <3> QED BY <1>0, <1>1, <2>1, <3>1 DEF GoTo, Onward
  <2>2. CASE GoTo(Place(stage, at[1], at[2], ru))
    BY <1>0, <1>1, <2>2, PlaceFields DEF GoTo
  <2> QED BY <1>2, <2>1, <2>2
<1>4. (NoExec' <=> NoExec) /\ (NoneSends' <=> NoneSends) /\ (OneEnds' <=> OneEnds)
  BY <1>0 DEF NoExec, NoneSends, OneEnds, Ends, Sends, Does
<1>5. /\ NoneSends => ~res.started
      /\ OneEnds => res.answers = IF res.started THEN 1 ELSE 0
  BY <1>0 DEF AfterInv, Counted
<1>6. Early' /\ Counted'
  BY <1>3, <1>4, <1>5 DEF Early, Counted
<1>7. PostSoFar'
  BY <1>3 DEF PostSoFar
<1>8. Ended'
  BY <1>0, <1>3, <1>4, <1>5 DEF Ended
<1> QED BY <1>6, <1>7, <1>8 DEF AfterInv

LEMMA LateCallbackAfter == ASSUME Inv, AfterInv, LateCallback PROVE AfterInv'
<1>0. /\ UNCHANGED <<plan, stage, at, log>>
      /\ res'.started = res.started /\ res'.answers = res.answers
  BY DEF LateCallback, Inv, Typed, Sane, Response
<1>1. /\ (NoExec' <=> NoExec) /\ (NoneSends' <=> NoneSends) /\ (OneEnds' <=> OneEnds)
      /\ (NoneBreaks' <=> NoneBreaks)
  BY <1>0 DEF NoExec, NoneSends, OneEnds, NoneBreaks, Ends, Sends, Breaks, Does
<1>2. Early' /\ Counted' /\ PostSoFar'
  BY <1>0, <1>1 DEF AfterInv, Early, Counted, PostSoFar, PostRan
<1>3. Ended'
  BY <1>0, <1>1 DEF AfterInv, Ended, PostRan
<1> QED BY <1>2, <1>3 DEF AfterInv

LEMMA BeginAfter == ASSUME Inv, AfterInv, Begin PROVE AfterInv'
<1>0. stage = "setup" /\ stage' = "access" /\ UNCHANGED <<log, res>> /\ log = <<>>
  BY DEF Begin, BeginChain, Inv, Typed
<1>1. NoExec' /\ NoneSends /\ OneEnds
  BY <1>0 DEF NoExec, NoneSends, OneEnds
<1>2. ~res.started /\ res.answers = 0
  BY <1>0, <1>1 DEF AfterInv, Counted
<1> QED BY <1>0, <1>1, <1>2 DEF AfterInv, Early, Counted, PostSoFar, Ended

LEMMA AfterInvAlways == ChainSpec => []AfterInv
<1>1. ChainInit => AfterInv
  BY DEF ChainInit, NewResponse, AfterInv, Early, Counted, PostSoFar, Ended, NoExec
<1>2. Inv /\ AfterInv /\ [ChainNext]_cvars => AfterInv'
  <2> SUFFICES ASSUME Inv, AfterInv, [ChainNext]_cvars PROVE AfterInv'
    OBVIOUS
  <2>1. CASE UNCHANGED cvars
    <3>1. /\ (NoExec' <=> NoExec) /\ (NoneSends' <=> NoneSends) /\ (OneEnds' <=> OneEnds)
          /\ (NoneBreaks' <=> NoneBreaks)
      <4>1. log' = log /\ plan' = plan
        BY <2>1 DEF cvars
      <4>2. NoExec' <=> NoExec
        BY <4>1 DEF NoExec
      <4>3. NoneSends' <=> NoneSends
        BY <4>1 DEF NoneSends, Sends, Does
      <4>4. OneEnds' <=> OneEnds
        BY <4>1 DEF OneEnds, Ends, Sends, Does
      <4>5. NoneBreaks' <=> NoneBreaks
        BY <4>1, Zenon DEF NoneBreaks, Ends, Sends, Breaks, Does
      <4> QED BY <4>2, <4>3, <4>4, <4>5
    <3>2. Early' /\ Counted'
      BY <2>1, <3>1 DEF cvars, AfterInv, Early, Counted
    <3>3. PostSoFar' /\ Ended'
      BY <2>1, <3>1 DEF cvars, AfterInv, PostSoFar, Ended, PostRan
    <3> QED BY <3>2, <3>3 DEF AfterInv
  <2> QED
    BY <2>1, BeginAfter, AskRuleAfter, RuleAnswersAfter, NoRulesAfter, RunHandlerAfter,
       HandlerCallsBackAfter, LateCallbackAfter
    DEF ChainNext, ServeNext
<1> QED BY <1>1, <1>2, InvAlways, PTL DEF ChainSpec

(* Two elements make two.                                                  *)
LEMMA AtMostOne ==
    ASSUME NEW S, IsFiniteSet(S), Cardinality(S) <= 1, NEW x \in S, NEW y \in S
    PROVE  x = y
<1> SUFFICES ASSUME x # y PROVE FALSE
  OBVIOUS
<1>1. IsFiniteSet({x}) /\ Cardinality({x}) = 1
  BY FS_Singleton
<1>2. Cardinality({x} \cup {y}) = 2
  <2>1. Cardinality({x} \cup {y}) = IF y \in {x} THEN Cardinality({x}) ELSE Cardinality({x}) + 1
    BY <1>1, FS_AddElement
  <2> QED BY <1>1, <2>1
<1>3. Cardinality({x} \cup {y}) <= Cardinality(S)
  BY FS_Subset
<1>4. Cardinality(S) \in Nat
  BY FS_CardinalityType
<1> QED BY <1>2, <1>3, <1>4

(* For every plan: when the request is over and the handlers of the route  *)
(* have run, the first handler registered to run afterwards with each      *)
(* router has run, unless one of them failed or a handler threw; and the   *)
(* request was answered exactly once, unless several handlers answered,    *)
(* failed or threw (execute, run_post_handlers).                           *)
THEOREM AfterwardsAlwaysRuns == ChainSpec => []AfterwardsRuns
<1>1. Inv /\ AfterInv => AfterwardsRuns
  <2> SUFFICES ASSUME Inv, AfterInv, stage = "done", RanIn("exec") # {}
               PROVE  LET ending == {i \in DOMAIN log : log[i][1] # "access"
                                        /\ (Sends(log[i]) \/ Does(log[i]) \in {"fail", "throw"})}
                      IN /\ (\A i \in ending : ~Breaks(i)) =>
                              \A g \in DOMAIN plan.post : <<"post", g, 1>> \in Range(log)
                         /\ Cardinality(ending) <= 1 => res.answers = 1
    BY DEF AfterwardsRuns
  <2> DEFINE ending == {i \in DOMAIN log : log[i][1] # "access"
                           /\ (Sends(log[i]) \/ Does(log[i]) \in {"fail", "throw"})}
  <2>1. ~NoExec
    BY DEF RanIn, NoExec
  <2>2. (\A i \in ending : ~Breaks(i)) => \A g \in DOMAIN plan.post : <<"post", g, 1>> \in Range(log)
    <3>1. (\A i \in ending : ~Breaks(i)) => NoneBreaks
      BY DEF NoneBreaks, Ends
    <3>2. \A g : PostRan(g) => <<"post", g, 1>> \in Range(log)
      BY DEF PostRan, Range
    <3> QED BY <2>1, <3>1, <3>2 DEF AfterInv, Ended
  <2>3. Cardinality(ending) <= 1 => OneEnds
    <3>1. DOMAIN log = 1..Len(log) /\ Len(log) \in Nat
      BY DEF Inv, Typed
    <3>2. IsFiniteSet(1..Len(log))
      BY <3>1, FS_Interval
    <3>3. IsFiniteSet(ending)
      BY <3>1, <3>2, FS_Subset
    <3>4. \A i \in DOMAIN log : Ends(log[i]) => i \in ending
      BY DEF Ends
    <3> HIDE DEF ending
    <3> QED BY <3>3, <3>4, AtMostOne DEF OneEnds
  <2> QED BY <2>1, <2>2, <2>3 DEF AfterInv, Ended
<1> QED BY <1>1, InvAlways, AfterInvAlways, PTL

=============================================================================
