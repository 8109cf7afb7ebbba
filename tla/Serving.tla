------------------------------- MODULE Serving -------------------------------
(***************************************************************************)
(* From a request to its answer: the application registers its routers,    *)
(* routes, policies and handlers (Router); then one request comes in, its  *)
(* url is resolved, the access rules are asked, and the handlers run       *)
(* (router.h, router_impl.h, filter_policies.h, parser_impl.h).            *)
(*                                                                         *)
(* A url is the sequence of the names between its slashes: "/" is <<"">>,  *)
(* and a trailing slash leaves an empty last name.  A pattern is the       *)
(* sequence of its segments:                                               *)
(*   kind  "name", "param" (:p, :p(re)), "any" (star) or "all" (two stars) *)
(*   of    the names it stands for, for the first two                      *)
(*   opt   it is in square brackets                                        *)
(* The rules and the handlers are those of HandlerChain.  A file router's  *)
(* route is a "lone file": send_file keeps the callback it is given and    *)
(* never calls it.                                                         *)
(***************************************************************************)
EXTENDS Router, HandlerChain, SequencesExt

CONSTANTS
    Setups,         \* applications: sets of registration calls
    RuleSet(_),     \* the rules of a policy
    Requests,       \* the requests: a method and a url
    FilesOf(_)      \* the urls a file router has files for, {} for others

VARIABLES
    setup,          \* registration calls not made yet
    req,            \* the request, NoRequest before it comes
    route           \* the route it was resolved to, NoRoute if none,
                    \* Undefined if a router on its way is not there
svars == <<setup, req, route>>
vars == <<rvars, svars, cvars>>

NoRequest == [method |-> "", url |-> <<>>]
NoRoute == [router |-> None, verb |-> "", pattern |-> <<>>, handlers |-> <<>>, policies |-> <<>>]
Undefined == [NoRoute EXCEPT !.verb = "undefined"]

ServingInit ==
    /\ RouterInit
    /\ setup \in Setups
    /\ req = NoRequest /\ route = NoRoute
    /\ ChainInit

(***************************************************************************)
(* Resolving the url                                                       *)
(***************************************************************************)
Over(rest) == rest \in {<<>>, <<"">>}

(* _build_route_re and match: the segments of the pattern from the k-th on *)
(* against the rest of the url.  "all" takes any text that is not empty.   *)
RECURSIVE MatchFrom(_, _, _)
MatchFrom(p, k, rest) ==
    IF k > Len(p) THEN Over(rest)
    ELSE \/ p[k].opt /\ Over(rest)
         \/ /\ p[k].kind # "all"
            /\ rest # <<>> /\ Head(rest) # ""
            /\ p[k].kind = "any" \/ Head(rest) \in p[k].of
            /\ MatchFrom(p, k + 1, Tail(rest))
         \/ /\ p[k].kind = "all"
            /\ \E n \in 1..Len(rest) :
                 /\ SubSeq(rest, 1, n) # <<"">>
                 /\ MatchFrom(p, k + 1, SubSeq(rest, n + 1, Len(rest)))

(* A route registered for the path "" has no expression and takes any url. *)
Everything == <<[kind |-> "every", of |-> {}, opt |-> FALSE]>>
Match(p, url) == p = Everything \/ MatchFrom(p, 1, url)

(* The child router that a url, less the router's own path, is handed to:  *)
(* the first path that is a proper prefix of it.                           *)
Leads(path, url) ==
    /\ IsPrefix(path, url)
    /\ ~Over(SubSeq(url, Len(path) + 1, Len(url)))

RouterIndex == <<"index">>

(* resolve_url: the routes of the verb that have handlers and match, in    *)
(* the order of a hash map; then those of "ALL".  A file router has a      *)
(* route for each of its files.                                            *)
RoutesFor(r, verb, url) ==
    {t \in routes : t.router = r /\ t.verb = verb /\ t.handlers # <<>> /\ Match(t.pattern, url)}

FileRoute(r) == [NoRoute EXCEPT !.router = r, !.handlers = <<"lone file">>]

LocalRoutes(r, verb, url) ==
    LET local == IF url = <<"">> THEN RouterIndex ELSE url
    IN IF FilesOf(r) # {}
       THEN IF url \in FilesOf(r) THEN {FileRoute(r)} ELSE {}
       ELSE IF RoutesFor(r, verb, local) # {}
       THEN RoutesFor(r, verb, local) ELSE RoutesFor(r, "ALL", local)

NextPath(r, url) == paths[r][Min({i \in DOMAIN paths[r] : Leads(paths[r][i], url)})]
IsHandedOn(r, url) == FilesOf(r) = {} /\ \E i \in DOMAIN paths[r] : Leads(paths[r][i], url)
Below(path, url) == SubSeq(url, Len(path) + 1, Len(url))

(* For a path of _router_paths that _routers does not have, the end of     *)
(* _routers is dereferenced.                                               *)
RECURSIVE ResolveUrl(_, _, _)
ResolveUrl(r, verb, url) ==
    IF r = None THEN {Undefined}
    ELSE IF IsHandedOn(r, url)
    THEN ResolveUrl(kids[r][NextPath(r, url)], verb, Below(NextPath(r, url), url))
    ELSE LocalRoutes(r, verb, url)

(* validate_headers: a HEAD request is served by a route for GET.          *)
Resolve(method, url) ==
    IF ResolveUrl(Root, method, url) = {} /\ method = "HEAD"
    THEN ResolveUrl(Root, "GET", url) ELSE ResolveUrl(Root, method, url)

(***************************************************************************)
(* What is to run                                                          *)
(***************************************************************************)
(* A router's ancestors and itself, the root first.                        *)
RECURSIVE Chain(_)
Chain(r) == IF r = None THEN <<>> ELSE Append(Chain(parent[r]), r)

(* filter_policy_t::_validate: the rules of the type that is asked for.    *)
Rules(pols) ==
    SelectSeq(FlattenSeq([i \in DOMAIN pols |-> RuleSet(pols[i])]),
              LAMBDA rule : rule.type = "access")

(* validate_access: the policies of the routers from the root, then those  *)
(* of the route.  A request without a route is checked by the root's.      *)
AccessRulesOfOwn(t) ==
    IF t = NoRoute THEN Rules(policies[Root]) ELSE Rules(policies[t.router]) \o Rules(t.policies)
AccessRules(t) ==
    IF t = NoRoute THEN Rules(policies[Root])
    ELSE FlattenSeq([i \in DOMAIN Chain(t.router) |-> Rules(policies[Chain(t.router)[i]])])
           \o Rules(t.policies)

Handlers(of, t) ==
    SelectSeq([i \in DOMAIN Chain(t.router) |-> of[Chain(t.router)[i]]],
              LAMBDA hs : hs # <<>>)

PlanFor(t) ==
    [found |-> t # NoRoute, access |-> <<AccessRules(t)>>, pre |-> Handlers(pre, t),
     exec |-> <<t.handlers>>, post |-> Handlers(post, t)]

(***************************************************************************)
(* Actions                                                                 *)
(***************************************************************************)
(* A registration call of the application.                                 *)
Register(call) ==
    /\ req = NoRequest
    /\ setup' = setup \ {call}
    /\ CASE call.op = "router" -> RegisterRouter(call.router, call.child)
         [] call.op = "handler" ->
              RegisterHandler(call.router, call.verb, call.pattern, call.handler, call.policy)
         [] call.op = "route policy" ->
              RegisterRoutePolicy(call.router, call.verb, call.pattern, call.policy)
         [] call.op = "policy" -> RegisterPolicy(call.router, call.policy)
         [] call.op = "use" -> Use(call.router, call.when, call.handler)
    /\ UNCHANGED <<req, route, cvars>>

(* validate_headers: the request is resolved, and its rules are asked.     *)
(* What is undefined is not followed further.                              *)
Receive(q) ==
    /\ req = NoRequest
    /\ req' = q
    /\ LET found == Resolve(q.method, q.url)
       IN \E t \in IF found = {} THEN {NoRoute} ELSE found :
            /\ route' = t
            /\ IF t = Undefined THEN UNCHANGED cvars ELSE BeginChain(PlanFor(t))
    /\ UNCHANGED <<rvars, setup>>

(* A rule or a handler of the request runs, or calls back.                 *)
ServeStep ==
    /\ ServeNext
    /\ UNCHANGED <<rvars, setup, req, route>>

ServingNext ==
    \/ \E call \in setup : Register(call)
    \/ \E q \in Requests : Receive(q)
    \/ ServeStep

ServingSpec == ServingInit /\ [][ServingNext]_vars

(* The loop runs its callbacks, and the timers that are set fire.          *)
ServingFairSpec == ServingSpec /\ WF_vars(ServeStep)

(***************************************************************************)
(* Properties                                                              *)
(***************************************************************************)
(* A pattern matches when the url can be cut into one part for each of its *)
(* segments, or for those before one in brackets; a slash may be left.     *)
Cuts(p, n, url) ==
    {c \in [0..n -> 0..Len(url)] :
        /\ c[0] = 0
        /\ \A k \in 1..n :
             LET part == SubSeq(url, c[k - 1] + 1, c[k])
             IN /\ c[k] > c[k - 1] /\ part # <<"">>
                /\ p[k].kind # "all" => Len(part) = 1
                /\ p[k].kind \in {"name", "param"} => part[1] \in p[k].of
        /\ Over(SubSeq(url, c[n] + 1, Len(url)))}

Matches(p, url) ==
    \/ p = Everything
    \/ \E n \in 0..Len(p) : (n = Len(p) \/ p[n + 1].opt) /\ Cuts(p, n, url) # {}

(* The routers a url goes through: at each the child of the longest path   *)
(* that the url continues.                                                 *)
RECURSIVE Through(_, _)
Through(r, url) ==
    LET under == IF FilesOf(r) # {} THEN {}
                 ELSE {x \in Paths : kids[r][x] # None /\ Leads(x, url)}
        x == CHOOSE y \in under : \A z \in under : Len(z) <= Len(y)
    IN IF under = {} THEN << <<r, url>> >>
       ELSE << <<r, url>> >> \o Through(kids[r][x], Below(x, url))

MeantRoutes(verb, url) ==
    LET end == Last(Through(Root, url))
    IN {t \in routes : /\ t.router = end[1] /\ t.verb = verb /\ t.handlers # <<>>
                       /\ Matches(t.pattern, IF end[2] = <<"">> THEN RouterIndex ELSE end[2])}

MeantVerbs(method) ==
    <<method, "ALL">> \o IF method = "HEAD" THEN <<"GET", "ALL">> ELSE <<>>

(* A request goes to a route with handlers that its url fits, of the       *)
(* router with the longest path at every level of the tree, whatever the   *)
(* order in which the application registered and moved the routers; its    *)
(* own method comes before ALL, and both before GET for a HEAD.  It is     *)
(* refused only if there is none, and no router on its way is missing, as  *)
(* long as no two routers of one path were given to the same one           *)
(* (resolve_url, match, register_router).  Two comments speak of the order *)
(* of registration instead (router.h:556, 1006), which the sort undoes.    *)
ResolvedAsMeant ==
    req # NoRequest /\ ~shadowed =>
        LET end == Last(Through(Root, req.url))
            verbs == MeantVerbs(req.method)
            fits == {i \in DOMAIN verbs : MeantRoutes(verbs[i], req.url) # {}}
        IN IF FilesOf(end[1]) # {} THEN (route.router = end[1]) <=> end[2] \in FilesOf(end[1])
           ELSE IF fits = {} THEN route = NoRoute
           ELSE route \in MeantRoutes(verbs[Min(fits)], req.url)

(* What the documentation says of patterns: one that ends in stars also    *)
(* takes the url that stops before them.  It does not hold: a segment      *)
(* takes at least one name (_build_route_re, doc-evmvc/README.md:11-17).   *)
ResolvedAsDocumented ==
    req # NoRequest /\ ~shadowed /\ route = NoRoute =>
        LET end == Last(Through(Root, req.url))
        IN ~\E t \in routes :
              /\ t.router = end[1] /\ t.verb \in ToSet(MeantVerbs(req.method))
              /\ t.handlers # <<>> /\ t.pattern # <<>>
              /\ Last(t.pattern).kind \in {"any", "all"} /\ Matches(Front(t.pattern), end[2])

(* No handler runs before every access rule of every router the url went   *)
(* through, and of the route, has granted.  The url goes down by _routers  *)
(* and the rules are collected upwards by _parent: that the two agree is   *)
(* what register_router has to keep (validate_access).                     *)
GuardedAlongTheWay ==
    (log # <<>> /\ log[Len(log)][1] # "access") =>
        LET way == Through(Root, req.url)
            asked == {Does(log[i]) : i \in RanIn("access")}
            rules == UNION {ToSet(Rules(policies[way[k][1]])) : k \in DOMAIN way}
                       \cup ToSet(Rules(route.policies))
        IN rules \subseteq asked /\ \A rule \in rules : rule.says = "grant"

(* Every request is answered in the end, unless a handler of its route     *)
(* stays quiet, a callback came from a timer too late, or two routers of   *)
(* one path were given to the same one and the one its url leads to was    *)
(* taken away with the other (exec, register_router, resolve_url).         *)
RequestAnswered ==
    req # NoRequest ~>
        \/ res.answers > 0 \/ res.undefined
        \/ stage = "exec" /\ Group[at[2]] = "quiet"
        \/ route = Undefined /\ shadowed

(* No router on the way of a url is missing.  It does not hold when two    *)
(* routers of one path were given to the same one and one of them is moved *)
(* away: the other's path stays without it (register_router).              *)
NoRouterMissing == route # Undefined

=============================================================================
