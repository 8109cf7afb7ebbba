---------------------------- MODULE HandlerChain ----------------------------
(***************************************************************************)
(* What runs for one request, and in which order: the access rules, the    *)
(* handlers of the routers, those of the route, and those that run         *)
(* afterwards (router.h, router_impl.h, filter_policies.h, parser_impl.h). *)
(*                                                                         *)
(* A rule has the filter type it is for, what it answers, and whether it   *)
(* does so within the call.  A handler is what it does:                    *)
(*   "next"   calls back               "send"   answers, then calls back   *)
(*   "fail"   calls back with an error "throw"  throws                     *)
(*   "quiet"  returns, and that is all "later"  calls back from a timer    *)
(*   "end"    answers, and is quiet                                        *)
(*   "file"   begins to send a file, then calls back                       *)
(*   "lone file"  begins to send a file, and is quiet                      *)
(***************************************************************************)
EXTENDS Integers, Sequences, FiniteSets, Functions

VARIABLES
    plan,           \* what is to run, by stage, and whether there is a route
    stage,          \* where it is: see the actions
    at,             \* the group and the place in it, in this stage
    waiting,        \* a rule or a handler will call back from a timer
    log,            \* what has run: <<stage, group, place>>
    res             \* the response, how often it was answered, and what is
                    \* left of handlers that called back from a timer
cvars == <<plan, stage, at, waiting, log, res>>

NoPlan == [found |-> FALSE, access |-> <<>>, pre |-> <<>>, exec |-> <<>>, post |-> <<>>]
NewResponse == [started |-> FALSE, ended |-> FALSE, error |-> FALSE,
                answers |-> 0, late |-> FALSE, async |-> FALSE, undefined |-> FALSE]

ChainInit ==
    /\ plan = NoPlan
    /\ stage = "setup" /\ at = <<1, 1>> /\ waiting = FALSE
    /\ log = <<>> /\ res = NewResponse

(* The rules of the request are asked.                                     *)
BeginChain(p) ==
    /\ stage = "setup"
    /\ plan' = p
    /\ stage' = "access"
    /\ UNCHANGED <<at, waiting, log, res>>

(* The response is sent: send, error, end.                                 *)
Answered(rs) == [rs EXCEPT !.answers = @ + 1, !.started = TRUE, !.ended = TRUE]

(* send_file only starts it: the chunks follow from the loop, and nothing  *)
(* marks the response as ended when they are out.                          *)
Started(rs) == [rs EXCEPT !.answers = @ + 1, !.started = TRUE]

AnswerKinds == {"send", "end"}
FileKinds == {"file", "lone file"}
After(does, rs) ==
    IF does \in AnswerKinds THEN Answered(rs)
    ELSE IF does \in FileKinds THEN Started(rs) ELSE rs

(* A place to go on from: a stage, a group and a place in it, and the      *)
(* response.  The callback given to execute ends the request: an error is  *)
(* answered, and a request nobody has answered.                            *)
Place(st, g, i, rs) == [stage |-> st, at |-> <<g, i>>, res |-> rs]
DoneOnlyErrors(rs, err) == Place("done", 1, 1, IF err THEN Answered(rs) ELSE rs)
Done(rs, err) ==
    Place("done", 1, 1, IF err \/ ~rs.started THEN Answered(rs) ELSE rs)

(* execute: the handlers of the routers, the route's unless the former     *)
(* have begun to answer, and the handlers that run afterwards.             *)
AfterExecUnlessEnded(rs) ==
    IF plan.post = <<>> \/ rs.ended THEN Done(rs, FALSE) ELSE Place("post", 1, 1, rs)
AfterExec(rs) == IF plan.post = <<>> THEN Done(rs, FALSE) ELSE Place("post", 1, 1, rs)
AfterPreUnchecked(rs) == Place("exec", 1, 1, rs)
AfterPre(rs) == IF rs.started THEN Done(rs, FALSE) ELSE Place("exec", 1, 1, rs)
AfterAccess(rs) ==
    IF ~plan.found THEN Place("done", 1, 1, Answered(rs))
    ELSE IF plan.pre = <<>> THEN AfterPre(rs) ELSE Place("pre", 1, 1, rs)

Group == plan[stage][at[1]]
NextGroup(rs) ==
    IF at[1] < Len(plan[stage]) THEN Place(stage, at[1] + 1, 1, rs)
    ELSE CASE stage = "access" -> AfterAccess(rs)
           [] stage = "pre" -> AfterPre(rs)
           [] stage = "exec" -> AfterExec(rs)
           [] stage = "post" -> Done(rs, FALSE)

(* _run_pre_handlers stops when the response has started, _exec and        *)
(* _run_post_handlers when it has ended.                                   *)
Stops(rs) == IF stage = "pre" THEN rs.started ELSE stage # "access" /\ rs.ended
NextInGroup(rs) ==
    IF at[2] >= Len(Group) \/ Stops(rs) THEN NextGroup(rs)
    ELSE Place(stage, at[1], at[2] + 1, rs)

GoTo(p) == stage' = p.stage /\ at' = p.at /\ res' = p.res
Ran == log' = Append(log, <<stage, at[1], at[2]>>)
Alive == ~waiting /\ ~res.undefined
AtRule == Alive /\ stage = "access" /\ at[2] <= Len(Group)
AtHandler == Alive /\ stage \in {"pre", "exec", "post"}

(* The rules: the first that denies ends the request with a 401.  The      *)
(* token rule lets a request without a route through.                      *)
Grants(rule) == rule.says = "grant" \/ (rule.says = "token" /\ ~plan.found)
Verdict(rule) ==
    IF Grants(rule)
    THEN NextInGroup(res) ELSE Place("done", 1, 1, Answered(res))

AskRule ==
    /\ AtRule
    /\ Ran
    /\ IF Group[at[2]].now
       THEN GoTo(Verdict(Group[at[2]])) /\ UNCHANGED waiting
       ELSE waiting' = TRUE /\ UNCHANGED <<stage, at, res>>
    /\ UNCHANGED plan

RuleAnswers ==
    /\ waiting /\ stage = "access"
    /\ waiting' = FALSE
    /\ GoTo(Verdict(Group[at[2]]))
    /\ UNCHANGED <<plan, log>>

NoRules ==
    /\ Alive /\ stage = "access" /\ Group = <<>>
    /\ GoTo(AfterAccess(res))
    /\ UNCHANGED <<plan, waiting, log>>

(* A handler that calls back within the call, or not at all.  An exception *)
(* ends the request with a 500, unless it comes out of a timer's callback. *)
Failed(rs) ==
    IF stage = "exec" THEN AfterExec([rs EXCEPT !.error = TRUE]) ELSE Done(rs, TRUE)

Thrown(rs) ==
    IF rs.async THEN Place(stage, at[1], at[2], [rs EXCEPT !.undefined = TRUE])
    ELSE Place("done", 1, 1, Answered(rs))

(* _prepare_headers throws when the response has already started.          *)
Throws(does) == does = "throw" \/ (does \in FileKinds /\ res.started)

RunHandler ==
    /\ AtHandler
    /\ LET does == Group[at[2]]
           rs == [After(does, res) EXCEPT !.late = @ \/ (does = "later" /\ stage # "exec")]
       IN CASE Throws(does) -> GoTo(Thrown(res)) /\ UNCHANGED waiting
            [] does = "fail" -> GoTo(Failed(res)) /\ UNCHANGED waiting
            [] does \in {"next", "send", "file"} /\ ~Throws(does) ->
                 GoTo(NextInGroup(After(does, res))) /\ UNCHANGED waiting
            [] does \in {"quiet", "end", "lone file", "later"} /\ ~Throws(does) ->
                 IF stage = "exec" THEN GoTo(Place(stage, at[1], at[2], rs)) /\ waiting' = TRUE
                 ELSE GoTo(NextGroup(rs)) /\ UNCHANGED waiting
    /\ Ran
    /\ UNCHANGED plan

(* A handler of the route calls back from a timer.  Unless it is the last, *)
(* the callback looks at a response that is no longer there.               *)
HandlerCallsBack ==
    /\ waiting /\ stage = "exec" /\ ~res.undefined
    /\ Group[at[2]] = "later"
    /\ waiting' = FALSE
    /\ LET rs == [res EXCEPT !.async = TRUE]
       IN IF at[2] = Len(Group) THEN GoTo(AfterExec(rs))
          ELSE GoTo(Place(stage, at[1], at[2], [rs EXCEPT !.undefined = TRUE]))
    /\ UNCHANGED <<plan, log>>

(* A handler of a router calls back from a timer: _run_pre_handlers has    *)
(* not waited for it, and the variable its callback looks at is gone.      *)
LateCallback ==
    /\ res.late /\ ~res.undefined
    /\ res' = [res EXCEPT !.undefined = TRUE]
    /\ UNCHANGED <<plan, stage, at, waiting, log>>

ServeNext ==
    \/ AskRule \/ RuleAnswers \/ NoRules \/ RunHandler
    \/ HandlerCallsBack \/ LateCallback

(* What validate_headers hands over: the rules in one group, the handlers  *)
(* of the route, which resolve_url finds only if it has any, in another,   *)
(* and a group for each router with handlers of its own.                   *)
HandlerKinds == {"next", "fail", "throw", "quiet", "later"} \cup AnswerKinds \cup FileKinds
RuleKinds == [type : {"access"}, says : {"grant", "deny", "token"}, now : BOOLEAN]
Groups == Seq(Seq(HandlerKinds) \ {<<>>})
IsPlan(p) ==
    /\ p \in [found : BOOLEAN, access : Seq(Seq(RuleKinds)), pre : Groups,
              exec : Seq(Seq(HandlerKinds)), post : Groups]
    /\ Len(p.access) = 1 /\ Len(p.exec) = 1
    /\ p.found => p.exec[1] # <<>>

Begin == BeginChain(plan') /\ IsPlan(plan')
ChainNext == Begin \/ ServeNext
ChainSpec == ChainInit /\ [][ChainNext]_cvars

(***************************************************************************)
(* Properties                                                              *)
(***************************************************************************)
Does(e) == plan[e[1]][e[2]][e[3]]
RanIn(st) == {i \in DOMAIN log : log[i][1] = st}

(* When a handler has run, every access rule was asked before, and granted *)
(* (validate_access, exec).                                                *)
GrantedFirst ==
    \A j \in DOMAIN log : log[j][1] # "access" =>
        \A k \in DOMAIN plan.access[1] :
            /\ Grants(plan.access[1][k])
            /\ \E i \in DOMAIN log : i < j /\ log[i] = <<"access", 1, k>>

(* What has answered the request ends the work on it: no handler of the    *)
(* route runs after one that sent the response, nor after a handler of a   *)
(* router that began to send a file.  A handler of the route that sends a  *)
(* file and calls back does not stop the next: _exec looks at ended(),     *)
(* which send_file leaves alone (execute, _run_pre_handlers, _exec).       *)
AnswerEndsWork ==
    \A i, j \in DOMAIN log :
        i < j /\ log[i][1] # "access" /\ log[j][1] = "exec" =>
            /\ Does(log[i]) \notin AnswerKinds
            /\ log[i][1] = "pre" => Does(log[i]) \notin FileKinds

(* No handler of the route runs once the response has begun, a file or     *)
(* not.  It does not hold: see AnswerEndsWork (_exec).                     *)
NothingAfterFile ==
    \A i, j \in DOMAIN log :
        i < j /\ log[i][1] # "access" /\ log[j][1] = "exec"
            => Does(log[i]) \notin AnswerKinds \cup FileKinds

(* Whatever the handlers of the route did, answer, fail or nothing, the    *)
(* first handler registered to run afterwards with each router runs before *)
(* the request is over, unless a handler throws or one of these fails, and *)
(* the request is answered once, unless several handlers answer, fail or   *)
(* throw.  A file throws where something was sent before it (execute,      *)
(* run_post_handlers, _prepare_headers).                                   *)
Sends(e) == e[1] # "access" /\ Does(e) \in AnswerKinds \cup FileKinds
Breaks(i) ==
    \/ Does(log[i]) = "throw"
    \/ Does(log[i]) = "fail" /\ log[i][1] = "post"
    \/ Does(log[i]) \in FileKinds /\ \E j \in DOMAIN log : j < i /\ Sends(log[j])

AfterwardsRuns ==
    LET ending == {i \in DOMAIN log : log[i][1] # "access"
                        /\ (Sends(log[i]) \/ Does(log[i]) \in {"fail", "throw"})}
    IN (stage = "done" /\ RanIn("exec") # {} /\ ~res.undefined) =>
         /\ (\A i \in ending : ~Breaks(i)) =>
              \A g \in DOMAIN plan.post : <<"post", g, 1>> \in Range(log)
         /\ Cardinality(ending) <= 1 => res.answers = 1

=============================================================================
