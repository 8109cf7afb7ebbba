----------------------------- MODULE ViewEngine -----------------------------
(***************************************************************************)
(* The view engines (view_engine.h, fanjet/fan_view_engine.h) and the      *)
(* rendering of a view with its layouts and partial views.                 *)
(*                                                                         *)
(* A path is the sequence of the names between its slashes; a leading "/"  *)
(* gives an empty first name.  A view is                                   *)
(*   id         its identifier                                             *)
(*   ns         the namespace of its engine                                *)
(*   dir, name  where it is registered                                     *)
(*   layout     a reference, or NoLayout                                   *)
(*   items      what its code does: writes text, writes the body, renders  *)
(*              a partial view, or throws; code that returns or calls the  *)
(*              callback by itself (@cb) is left out                       *)
(* and a reference is a namespace ("" for none) and a path.                *)
(*                                                                         *)
(* A view renders a partial view by a call that is given the rest of the   *)
(* view as its callback, so a callback may run twice.  The calls under way *)
(* are kept in calls; agenda is the stack of what remains to be done:      *)
(* where (which call, which of its views, which item) to go on from.       *)
(***************************************************************************)
EXTENDS Integers, Sequences, SequencesExt, FiniteSets, FiniteSetsExt

CONSTANTS
    View,           \* the views
    Requests,       \* references a handler may render
    MaxLayouts      \* bound on the layouts put around one view

NoLayout == [ns |-> "", path |-> <<>>]

VARIABLES
    engines,        \* _engines: the views registered with each engine, by namespace
    calls,          \* the calls of render_view, by number
    agenda,         \* what remains to be done, the next thing last
    answers,        \* the calls of the callback given to response_t::render
    failed,         \* a partial view was not found, or did not render
    broken          \* text was written to a view that has no open buffer
evars == <<engines, calls, agenda, answers, failed, broken>>

EngineInit ==
    /\ engines = [n \in {} |-> {}]
    /\ calls = <<>> /\ agenda = <<>> /\ answers = <<>>
    /\ failed = FALSE /\ broken = FALSE

(***************************************************************************)
(* The registry.                                                           *)
(***************************************************************************)
RegisteredAs(v) == v.dir \o <<v.name>>

(* register_view_generator throws if the path is taken; register_engine if *)
(* the namespace is.                                                       *)
Registrable(ns, vs) ==
    /\ ns \notin DOMAIN engines
    /\ \A v, w \in vs : RegisteredAs(v) = RegisteredAs(w) => v = w

RegisterEngine(ns, vs) ==
    /\ Registrable(ns, vs)
    /\ engines' = [n \in DOMAIN engines \cup {ns} |-> IF n = ns THEN vs ELSE engines[n]]
    /\ UNCHANGED <<calls, agenda, answers, failed, broken>>

(* find_generator: the views a path may stand for.  Every directory is     *)
(* looked at together with the three special ones in it, the deepest       *)
(* first; among the views of one directory the order is that of a hash map.*)
SpecialDirs == {<<>>, <<"partials">>, <<"layouts">>, <<"helpers">>}

FoundAt(ns, path, i) ==
    {v \in engines[ns] : \E k \in SpecialDirs :
        RegisteredAs(v) = SubSeq(path, 1, i) \o k \o <<Last(path)>>}

FindGenerator(ns, path) ==
    LET levels == {i \in 0..(Len(path) - 1) : FoundAt(ns, path, i) # {}}
    IN IF levels = {} THEN {} ELSE FoundAt(ns, path, Max(levels))

(* view_engine::render and get: without a namespace, every engine is asked *)
(* for the path less its first two characters, which leaves another name   *)
(* in the place of the first.                                              *)
CutName == "cut"
Cut(path) == [path EXCEPT ![1] = CutName]

Candidates(ref) ==
    IF ref.ns # ""
    THEN IF ref.ns \in DOMAIN engines THEN FindGenerator(ref.ns, ref.path) ELSE {}
    ELSE UNION {FindGenerator(n, Cut(ref.path)) : n \in DOMAIN engines}

(***************************************************************************)
(* render_view                                                             *)
(***************************************************************************)
Point(call, view, item) == [call |-> call, view |-> view, item |-> item]
Client == Point(0, 0, 0)

(* A call: the path asked for, the views to render from the inside out,    *)
(* whether their layouts are complete, the buffers of each view (its open  *)
(* buffer, if any, and its page), and where the callback goes on.          *)
NewCall(path, v, ret) ==
    [path |-> path, views |-> <<v>>, laid |-> FALSE,
     bufs |-> <<<<>>>>, pages |-> <<<<>>>>, ret |-> ret]

(* The candidates for the layout of a view: relative to the path that was  *)
(* asked for, then by the path as it is written.                           *)
LayoutOf(c, v) ==
    LET ref == v.layout
        ns == c.views[1].ns
        near == FindGenerator(ns, Front(c.path) \o ref.path)
        far == FindGenerator(ns, ref.path)
    IN IF ref = NoLayout THEN {}
       ELSE IF ref.ns = "" THEN (IF near # {} THEN near ELSE far)
       ELSE Candidates(ref)

Here == Last(agenda)
Call == calls[Here.call]
Idle == agenda = <<>>

AddLayout ==
    /\ ~Idle /\ ~broken
    /\ ~Call.laid
    /\ LET found == LayoutOf(Call, Last(Call.views))
       IN \/ /\ found = {}
             /\ calls' = [calls EXCEPT ![Here.call].laid = TRUE]
          \/ \E v \in found :
             /\ Len(Call.views) <= MaxLayouts
             /\ calls' = [calls EXCEPT ![Here.call].views = Append(@, v),
                                       ![Here.call].bufs = Append(@, <<>>),
                                       ![Here.call].pages = Append(@, <<>>)]
    /\ UNCHANGED <<engines, agenda, answers, failed, broken>>

Code == Call.views[Here.view].items
Item == Code[Here.item]
Buffer == Call.bufs[Here.view]
AtItem == ~Idle /\ ~broken /\ Call.laid /\ Here.item \in 1..Len(Code)

(* The code of a view: begin_write, its items, commit_write.               *)
BeginWithoutBuffer ==
    /\ ~Idle /\ ~broken
    /\ Call.laid /\ Here.item = 0
    /\ agenda' = [agenda EXCEPT ![Len(agenda)].item = 1]
    /\ UNCHANGED <<engines, calls, answers, failed, broken>>
Begin ==
    /\ ~Idle /\ ~broken
    /\ Call.laid /\ Here.item = 0
    /\ calls' = [calls EXCEPT ![Here.call].bufs[Here.view] = <<<<>>>>]
    /\ agenda' = [agenda EXCEPT ![Len(agenda)].item = 1]
    /\ UNCHANGED <<engines, answers, failed, broken>>

(* Text for the view at a point, and on to the next item.  A piece of text *)
(* is marked with the view it comes from.                                  *)
WriteAt(p, text, rest) ==
    IF calls[p.call].bufs[p.view] = <<>>
    THEN /\ broken' = TRUE
         /\ UNCHANGED <<calls, agenda>>
    ELSE /\ calls' = [calls EXCEPT ![p.call].bufs[p.view][1] = @ \o text]
         /\ agenda' = Append(rest, [p EXCEPT !.item = @ + 1])
         /\ UNCHANGED broken

WriteText ==
    /\ AtItem /\ Item[1] = "text"
    /\ WriteAt(Here, <<<<Call.views[Here.view].id, Item[2]>>>>, Front(agenda))
    /\ UNCHANGED <<engines, answers, failed>>

(* write_body: the page of the view the layout is put around.              *)
BodyOfInnermost(c, view) == IF view = 1 THEN <<>> ELSE c.pages[1]
BodyOf(c, view) == IF view = 1 THEN <<>> ELSE c.pages[view - 1]
WriteBody ==
    /\ AtItem /\ Item[1] = "body"
    /\ WriteAt(Here, BodyOf(Call, Here.view), Front(agenda))
    /\ UNCHANGED <<engines, answers, failed>>

(* view_base::render_view: a path that does not begin with "/" is relative *)
(* to the view's own.                                                      *)
Relative(v, path) == IF Head(path) = "" THEN path ELSE v.dir \o path

PartialRef(v, ref) == [ns |-> IF ref.ns = "" THEN v.ns ELSE ref.ns,
                       path |-> Relative(v, ref.path)]
Partial == PartialRef(Call.views[Here.view], Item[2])

RenderPartial ==
    /\ AtItem /\ Item[1] = "partial"
    /\ \E v \in Candidates(Partial) :
         /\ calls' = Append(calls, NewCall(Partial.path, v, Here))
         /\ agenda' = Append(Front(agenda), Point(Len(calls) + 1, 1, 0))
    /\ UNCHANGED <<engines, answers, failed, broken>>

(* The callers of a point, the outermost last.                             *)
Callers(p) ==
    LET up[c \in 0..Len(calls)] ==
            IF c = 0 \/ calls[c].ret = Client THEN <<>>
            ELSE <<calls[c].ret>> \o up[calls[c].ret.call]
    IN IF p = Client THEN <<>> ELSE <<p>> \o up[p.call]

(* A call of the client's callback: with an error or with a page, and      *)
(* whether the error is one the callback itself has thrown.                *)
Answer(err, page, caught) == [err |-> err, page |-> page, caught |-> caught]

(* A callback is given an error: every caller passes it on to its own, up  *)
(* to the client; then each, the outermost first, goes on as if the call   *)
(* had succeeded with an empty page.                                       *)
Pass(p) ==
    /\ answers' = Append(answers, Answer(TRUE, <<>>, FALSE))
    /\ agenda' = Front(agenda) \o
         [i \in DOMAIN Callers(p) |-> [Callers(p)[i] EXCEPT !.item = @ + 1]]
    /\ failed' = TRUE

PartialMissing ==
    /\ AtItem /\ Item[1] = "partial"
    /\ Candidates(Partial) = {}
    /\ Pass(Here)
    /\ UNCHANGED <<engines, calls, broken>>

(* A view's code throws: the innermost catch gives the error to the        *)
(* callback of the call.                                                   *)
ThrowUnreported ==
    /\ AtItem /\ Item[1] = "throw"
    /\ agenda' = Front(agenda)
    /\ UNCHANGED <<engines, calls, answers, failed, broken>>
Throw ==
    /\ AtItem /\ Item[1] = "throw"
    /\ Pass(Call.ret)
    /\ UNCHANGED <<engines, calls, broken>>

(* commit_write of a view that is not the outermost one of its call.       *)
AtEnd == ~Idle /\ ~broken /\ Call.laid /\ Here.item = Len(Code) + 1

Commit ==
    /\ AtEnd /\ Here.view < Len(Call.views)
    /\ IF Buffer = <<>>
       THEN broken' = TRUE /\ UNCHANGED <<calls, agenda>>
       ELSE /\ calls' = [calls EXCEPT ![Here.call].bufs[Here.view] = <<>>,
                                      ![Here.call].pages[Here.view] = @ \o Buffer[1]]
            /\ agenda' = [agenda EXCEPT ![Len(agenda)] = Point(Here.call, Here.view + 1, 0)]
            /\ UNCHANGED broken
    /\ UNCHANGED <<engines, answers, failed>>

(* The last commit_write: the page goes to the callback, which writes it   *)
(* in the calling view and goes on there, or to the client.  The callback  *)
(* is called inside the try of the generated code: when it throws, it is   *)
(* called again, with what it has thrown.                                  *)
Complete ==
    /\ AtEnd /\ Here.view = Len(Call.views)
    /\ LET page == Call.pages[Here.view] \o Buffer[1]
           done == [calls EXCEPT ![Here.call].bufs[Here.view] = <<>>,
                                 ![Here.call].pages[Here.view] = page]
           given == Append(answers, Answer(FALSE, page, FALSE))
           up == Call.ret
       IN CASE Buffer = <<>> -> broken' = TRUE /\ UNCHANGED <<calls, agenda, answers>>
            [] Buffer # <<>> /\ up = Client ->
                 /\ calls' = done
                 /\ answers' \in {given, Append(given, Answer(TRUE, <<>>, TRUE))}
                 /\ agenda' = Front(agenda)
                 /\ UNCHANGED broken
            [] Buffer # <<>> /\ up # Client ->
                 IF done[up.call].bufs[up.view] = <<>>
                 THEN broken' = TRUE /\ UNCHANGED <<calls, agenda, answers>>
                 ELSE /\ calls' = [done EXCEPT ![up.call].bufs[up.view][1] = @ \o page]
                      /\ agenda' = Append(Front(agenda), [up EXCEPT !.item = @ + 1])
                      /\ UNCHANGED <<answers, broken>>
    /\ UNCHANGED <<engines, failed>>

(* response_t::render.                                                     *)
Render(ref) ==
    /\ calls = <<>> /\ answers = <<>>
    /\ \/ \E v \in Candidates(ref) :
            /\ calls' = <<NewCall(IF ref.ns = "" THEN Cut(ref.path) ELSE ref.path, v, Client)>>
            /\ agenda' = <<Point(1, 1, 0)>>
            /\ UNCHANGED answers
       \/ /\ Candidates(ref) = {}
          /\ answers' = <<Answer(TRUE, <<>>, FALSE)>>
          /\ UNCHANGED <<calls, agenda>>
    /\ UNCHANGED <<engines, failed, broken>>

RenderStep ==
    \/ AddLayout \/ Begin \/ WriteText \/ WriteBody \/ RenderPartial
    \/ PartialMissing \/ Throw \/ Commit \/ Complete

(* The engines alone: whatever is registered, and whatever is rendered.    *)
EngineNext ==
    \/ \E ns \in DOMAIN engines' : RegisterEngine(ns, engines'[ns])
    \/ \E ref \in Requests : Render(ref)
    \/ RenderStep
EngineSpec == EngineInit /\ [][EngineNext]_evars

(***************************************************************************)
(* Properties                                                              *)
(***************************************************************************)
(* The callback of response_t::render is called once, with a page or with  *)
(* an error, and once more if it throws when it is given the page, unless  *)
(* a partial view is missing or throws; then it is first called with an    *)
(* error.  Only after such an error may a view be written to that has no   *)
(* open buffer (view_base_impl.h: render_view; root_node_t's try).         *)
AnsweredOnceUnlessFailed ==
    /\ ~failed => Len(answers) < 2 \/ (Len(answers) = 2 /\ answers[2].caught)
    /\ broken => failed
    /\ failed => answers # <<>> /\ answers[1].err

=============================================================================
