-------------------------------- MODULE Views --------------------------------
(***************************************************************************)
(* From templates to pages: the fanjet tool generates the views of one     *)
(* namespace (Precompiler), the program is built with them and registers   *)
(* its engines, and a handler renders one view (ViewEngine).               *)
(***************************************************************************)
EXTENDS Precompiler, ViewEngine

CONSTANTS
    Namespace       \* the namespace given to the tool

VARIABLES
    phase,          \* "files", "starting", "serving"
    request         \* the reference rendered
vars == <<fvars, evars, phase, request>>

ViewsInit ==
    /\ FilesInit /\ EngineInit
    /\ phase = "files" /\ request = NoLayout

ToolStep ==
    /\ phase = "files"
    /\ FilesNext
    /\ UNCHANGED <<evars, phase, request>>

(* doc_type: helper views are only inherited from, and not registered.     *)
IsHelper(v) ==
    LET dirs == {v.dir[i] : i \in DOMAIN v.dir}
    IN "helpers" \in dirs /\ dirs \cap {"layouts", "partials"} = {}

Engine(ns) == {v \in View : v.ns = ns /\ ~IsHelper(v)}

(* The program is built once the tool has exited with 0, from headers that *)
(* are complete.  From then on only the views of the include file matter:  *)
(* what else is known of the files is forgotten.                           *)
Build ==
    /\ phase = "files" /\ proc = "done"
    /\ \A f \in listed : inc[f].ver # 0 /\ hdr[f] # 0
    /\ phase' = "starting"
    /\ now' = 1 /\ edits' = 1
    /\ src' = [f \in Files |-> [ver |-> 0, mtime |-> 0, ok |-> TRUE]]
    /\ inc' = [f \in Files |-> [ver |-> 0, mtime |-> 0]]
    /\ hdr' = [f \in Files |-> 0]
    /\ disturbed' = {}
    /\ UNCHANGED <<listed, proc, todo, doc, skip_gen, cur, evars, request>>

(* register_engine of the include file: the engine and its views.          *)
Register ==
    /\ phase = "starting"
    /\ \E ns \in {v.ns : v \in View} :
         RegisterEngine(ns, {v \in Engine(ns) : ns = Namespace => v.id \in listed})
    /\ UNCHANGED <<fvars, phase, request>>

Serve ==
    /\ phase = "starting"
    /\ DOMAIN engines = {v.ns : v \in View}
    /\ phase' = "serving"
    /\ \E r \in Requests : request' = r /\ Render(r)
    /\ UNCHANGED fvars

ServeStep ==
    /\ phase = "serving"
    /\ RenderStep
    /\ UNCHANGED <<fvars, phase, request>>

ViewsNext == ToolStep \/ Build \/ Register \/ Serve \/ ServeStep

ViewsSpec == ViewsInit /\ [][ViewsNext]_vars

(* The rendering of a page is one synchronous call.                        *)
ViewsFairSpec == ViewsSpec /\ WF_vars(ServeStep)

(***************************************************************************)
(* What a page is meant to be.                                             *)
(***************************************************************************)
(* rules tells two readings apart: whether the special directories of one  *)
(* directory are looked at in the order fan_view_engine.h writes down      *)
(* (ordered), and whether a partial view is rendered without its layout,   *)
(* as doc-evmvc/README.md says (bare).                                     *)

(* The search paths of doc-evmvc/README.md: from the current directory to  *)
(* the top one.                                                            *)
SearchOrder == <<<<>>, <<"partials">>, <<"layouts">>, <<"helpers">>>>

FoundIn(rules, ns, dir, name) ==
    LET at(n) == {v \in engines[ns] : v.name = name /\ v.dir = dir \o SearchOrder[n]}
        some == {n \in DOMAIN SearchOrder : at(n) # {}}
    IN UNION {at(n) : n \in {m \in some : rules.ordered => m = Min(some)}}

RECURSIVE SearchUp(_, _, _, _)
SearchUp(rules, ns, dir, name) ==
    LET here == FoundIn(rules, ns, dir, name)
    IN IF here # {} THEN here
       ELSE IF dir = <<>> THEN {} ELSE SearchUp(rules, ns, Front(dir), name)

Search(rules, ref) ==
    IF ref.ns \in DOMAIN engines
    THEN SearchUp(rules, ref.ns, Front(ref.path), Last(ref.path)) ELSE {}

MeantLayout(rules, path, ns, v) ==
    LET ref == v.layout
        near == Search(rules, [ns |-> ns, path |-> Front(path) \o ref.path])
    IN IF ref = NoLayout THEN {}
       ELSE IF ref.ns # "" THEN Search(rules, ref)
       ELSE IF near # {} THEN near ELSE Search(rules, [ns |-> ns, path |-> ref.path])

(* The pages a view, its items from the k-th on, or a view with its        *)
(* layouts may give, body being what the layout is put around; none if a   *)
(* partial view is missing or throws.                                      *)
RECURSIVE MeantItems(_, _, _, _), MeantPages(_, _, _, _, _)
MeantItems(rules, v, k, body) ==
    IF k > Len(v.items) THEN {<<>>}
    ELSE LET item == v.items[k]
             part(path, w) ==
                 IF rules.bare THEN MeantItems(rules, w, 1, <<>>)
                 ELSE MeantPages(rules, path, w.ns, w, <<>>)
             first == CASE item[1] = "text" -> {<<<<v.id, item[2]>>>>}
                        [] item[1] = "body" -> {body}
                        [] item[1] = "throw" -> {}
                        [] item[1] = "partial" ->
                             LET ref == PartialRef(v, item[2])
                             IN UNION {part(ref.path, w) : w \in Search(rules, ref)}
         IN {a \o b : a \in first, b \in MeantItems(rules, v, k + 1, body)}
MeantPages(rules, path, ns, v, body) ==
    LET pages == MeantItems(rules, v, 1, body)
        layouts == MeantLayout(rules, path, ns, v)
    IN IF layouts = {} THEN pages
       ELSE UNION {MeantPages(rules, path, ns, l, p) : l \in layouts, p \in pages}

Composed(rules) ==
    \A i \in DOMAIN answers :
        ~answers[i].err /\ ~failed /\ request.ns # "" =>
            \E v \in Search(rules, request) :
                answers[i].page \in MeantPages(rules, request.path, v.ns, v, <<>>)

(***************************************************************************)
(* Properties                                                              *)
(***************************************************************************)
(* The page a handler is given is the one the code's own rules give: every *)
(* partial view stands where it is rendered, found from the directory of   *)
(* the view up, and each layout is put around the view it is the layout of *)
(* (find_generator, the layout loop of fan_view_engine.h).  Of two views   *)
(* of one name in one directory and its special ones either may be taken,  *)
(* and a partial view has its layout put around it; the two properties     *)
(* after this one say otherwise.                                           *)
PageComposed == Composed([ordered |-> FALSE, bare |-> FALSE])

(* "look for the file in this order: path dir, partials dir, layouts dir,  *)
(* helpers dir" (fan_view_engine.h): the loop inside goes through a hash   *)
(* map and takes the first view that is in any of them.                    *)
SearchedInOrder == Composed([ordered |-> TRUE, bare |-> FALSE])

(* "when a view is rendered from that call, the layout directive will      *)
(* ignored" (doc-evmvc/README.md, of @>): render_view puts it around.      *)
PartialsBare == Composed([ordered |-> FALSE, bare |-> TRUE])

(* A handler that renders a view gets an answer, unless a view's layouts   *)
(* lead back to one of them: the layout loop then never ends.  (So it is   *)
(* with a partial view that renders itself, which the views of the run do  *)
(* not.)                                                                   *)
LayoutsLoop == \E c \in DOMAIN calls : ~IsInjective(calls[c].views)
RenderAnswered == phase = "serving" ~> (answers # <<>> \/ LayoutsLoop)

=============================================================================
