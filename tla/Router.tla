------------------------------- MODULE Router -------------------------------
(***************************************************************************)
(* The tree of routers and what is registered with each (router_t and      *)
(* route_t of router.h).                                                   *)
(*                                                                         *)
(* A path is the sequence of the names between its slashes; the root       *)
(* router's path "/" is empty.  A handler, a rule or a policy is a value   *)
(* of the application's.                                                   *)
(***************************************************************************)
EXTENDS Naturals, Sequences, FiniteSets, SequencesExt

CONSTANTS
    Routers,        \* the routers the application makes
    Root,           \* the router of the app
    PathOf(_),      \* a router's path, normalised by _norm_path
    None            \* no router

ASSUME RouterAssumption == Root \in Routers /\ PathOf(Root) = <<>> /\ None \notin Routers

VARIABLES
    parent,         \* _parent of each router
    paths,          \* _router_paths
    kids,           \* _routers: the routers of a router, by path
    routes,         \* the routes of _verbs
    policies,       \* _policies of each router
    pre, post,      \* _pre_handlers and _post_handlers
    shadowed        \* a router was given a second one of the same path
rvars == <<parent, paths, kids, routes, policies, pre, post, shadowed>>

Paths == {PathOf(r) : r \in Routers}

RouterInit ==
    /\ parent = [r \in Routers |-> None]
    /\ paths = [r \in Routers |-> <<>>]
    /\ kids = [r \in Routers |-> [x \in Paths |-> None]]
    /\ routes = {}
    /\ policies = [r \in Routers |-> <<>>]
    /\ pre = [r \in Routers |-> <<>>]
    /\ post = [r \in Routers |-> <<>>]
    /\ shadowed = FALSE

(***************************************************************************)
(* register_router                                                         *)
(***************************************************************************)
(* std::sort by decreasing length.  The number of names stands for the     *)
(* length: of two paths that both lead a url, the longer has more of them. *)
SortedNot(s) == s
Sorted(s) == SortSeq(s, LAMBDA x, y : Len(x) > Len(y))

(* The router leaves its previous parent: the first entry of its path, and *)
(* whatever router the parent has at that path.                            *)
Unlink(c) ==
    IF parent[c] = None THEN paths
    ELSE [paths EXCEPT ![parent[c]] = RemoveFirst(@, PathOf(c))]

EraseNothing(c) == kids
Erase(c) ==
    IF parent[c] = None THEN kids
    ELSE [kids EXCEPT ![parent[c]][PathOf(c)] = None]

Emplace(ks, p, c) ==
    IF ks[p][PathOf(c)] = None THEN [ks EXCEPT ![p][PathOf(c)] = c] ELSE ks

(* Nothing keeps a router from being registered below itself: it and what  *)
(* is below it then leave the tree.                                        *)
RegisterRouter(p, c) ==
    /\ PathOf(c) # <<>>
    /\ paths' = [Unlink(c) EXCEPT ![p] = Sorted(Append(@, PathOf(c)))]
    /\ kids' = Emplace(Erase(c), p, c)
    /\ parent' = [parent EXCEPT ![c] = p]
    /\ shadowed' = (shadowed \/ Erase(c)[p][PathOf(c)] # None)
    /\ UNCHANGED <<routes, policies, pre, post>>

(***************************************************************************)
(* Routes, policies and handlers                                           *)
(***************************************************************************)
(* resolve_route and register_route: the route of a verb and a pattern, a  *)
(* new one if there is none.                                               *)
RouteAt(r, verb, pattern) ==
    LET same == {t \in routes : t.router = r /\ t.verb = verb /\ t.pattern = pattern}
    IN IF same # {} THEN CHOOSE t \in same : TRUE
       ELSE [router |-> r, verb |-> verb, pattern |-> pattern,
             handlers |-> <<>>, policies |-> <<>>]

(* register_handler; pol is a sequence of at most one policy.              *)
RegisterHandler(r, verb, pattern, handler, pol) ==
    LET old == RouteAt(r, verb, pattern)
    IN /\ routes' = (routes \ {old}) \cup
            {[old EXCEPT !.policies = @ \o pol, !.handlers = Append(@, handler)]}
       /\ UNCHANGED <<parent, paths, kids, policies, pre, post, shadowed>>

RegisterRoutePolicy(r, verb, pattern, pol) ==
    LET old == RouteAt(r, verb, pattern)
    IN /\ routes' = (routes \ {old}) \cup {[old EXCEPT !.policies = @ \o pol]}
       /\ UNCHANGED <<parent, paths, kids, policies, pre, post, shadowed>>

RegisterPolicy(r, pol) ==
    /\ policies' = [policies EXCEPT ![r] = Append(@, pol)]
    /\ UNCHANGED <<parent, paths, kids, routes, pre, post, shadowed>>

(* use: "before_and_after" only registers the handler to run before.       *)
Use(r, when, handler) ==
    /\ IF when \in {"before", "before_and_after"}
       THEN pre' = [pre EXCEPT ![r] = Append(@, handler)] /\ UNCHANGED post
       ELSE post' = [post EXCEPT ![r] = Append(@, handler)] /\ UNCHANGED pre
    /\ UNCHANGED <<parent, paths, kids, routes, policies, shadowed>>

(* A registration call with a verb, pattern, handler and policy of these.  *)
RouterNext(Verb, Pattern, Handler, Policy) ==
    \/ \E p, c \in Routers : RegisterRouter(p, c)
    \/ \E r \in Routers, pol \in Policy : RegisterPolicy(r, pol)
    \/ \E r \in Routers, handler \in Handler, when \in {"before", "after", "before_and_after"} :
         Use(r, when, handler)
    \/ \E r \in Routers, verb \in Verb, pattern \in Pattern, pol \in {<<>>} \cup {<<q>> : q \in Policy} :
         \/ RegisterRoutePolicy(r, verb, pattern, pol)
         \/ \E handler \in Handler : RegisterHandler(r, verb, pattern, handler, pol)

(***************************************************************************)
(* Properties                                                              *)
(***************************************************************************)
(* A router is in the tree at one place only: a router that has another at *)
(* its path is the parent that one knows, so that what is collected        *)
(* upwards, policies and handlers, is that of the routers the url came     *)
(* down through.  A router is also found by the parent it knows, as long   *)
(* as no two routers of one path were given to the same one                *)
(* (register_router, resolve_url, validate_access).                        *)
LinksAgree ==
    /\ \A r, c \in Routers, x \in Paths :
         kids[r][x] = c => parent[c] = r /\ PathOf(c) = x
    /\ ~shadowed => \A r, c \in Routers :
         parent[c] = r => kids[r][PathOf(c)] = c

=============================================================================
