------------------------------ MODULE MCServing ------------------------------
(***************************************************************************)
(* Applications for Serving.  Calls are made in any order, and a request   *)
(* may come after any of them.                                             *)
(***************************************************************************)
EXTENDS Serving

MCRouters == {"root", "api", "deep", "sub", "twin", "files"}
MCPathOf(r) ==
    CASE r = "root" -> <<>>
      [] r \in {"api", "twin"} -> <<"api">>
      [] r = "deep" -> <<"api", "v1">>
      [] r = "sub" -> <<"v1">>
      [] r = "files" -> <<"static">>
MCFilesOf(r) == IF r = "files" THEN {<<"a">>, <<"v1", "a">>} ELSE {}

MCRule(type, says, now) == [type |-> type, says |-> says, now |-> now]
MCRuleSet(pol) ==
    CASE pol = "open" -> <<MCRule("file", "deny", TRUE), MCRule("access", "grant", TRUE)>>
      [] pol = "slow" -> <<MCRule("access", "grant", FALSE)>>
      [] pol = "closed" -> <<MCRule("access", "deny", FALSE)>>
      [] pol = "token" -> <<MCRule("access", "token", TRUE)>>

Seg(kind, of, opt) == [kind |-> kind, of |-> of, opt |-> opt]
IsName(n) == Seg("name", {n}, FALSE)
AnyOne == Seg("any", {}, FALSE)
AllRest == Seg("all", {}, FALSE)
Digit == Seg("param", {"1", "2"}, FALSE)
OptDigit == Seg("param", {"1", "2"}, TRUE)
OptName(n) == Seg("name", {n}, TRUE)

Child(p, c) == [op |-> "router", router |-> p, child |-> c]
On(r, verb, pattern, handler, pol) ==
    [op |-> "handler", router |-> r, verb |-> verb, pattern |-> pattern,
     handler |-> handler, policy |-> pol]
Policy(r, pol) == [op |-> "policy", router |-> r, policy |-> pol]
RoutePolicy(r, verb, pattern, pol) ==
    [op |-> "route policy", router |-> r, verb |-> verb, pattern |-> pattern, policy |-> <<pol>>]
Around(r, when, handler) == [op |-> "use", router |-> r, when |-> when, handler |-> handler]

(* The tree: routers that are moved, and whose paths begin alike.          *)
Tree == {Child("root", "api"), Child("root", "deep"), Child("root", "sub"),
         Child("api", "sub"), Child("sub", "api"), Child("root", "files"),
         On("api", "GET", <<IsName("v1"), AnyOne>>, "send", <<>>),
         On("deep", "ALL", <<AnyOne>>, "next", <<>>),
         On("sub", "GET", <<AnyOne>>, "end", <<"slow">>),
         Policy("root", "open"), Policy("sub", "token")}

(* Two routers of one path.                                                *)
Twins == {Child("root", "api"), Child("root", "twin"), Child("api", "sub"), Child("deep", "twin"),
          Child("root", "deep"), On("sub", "ALL", <<AnyOne>>, "send", <<>>), Policy("api", "open"),
          On("twin", "ALL", <<IsName("a")>>, "send", <<>>)}

(* The patterns.                                                           *)
Patterns == {On("root", "GET", <<IsName("v1"), OptDigit, OptName("a")>>, "next", <<>>),
             On("root", "GET", <<AnyOne, Digit>>, "send", <<"open">>),
             On("root", "HEAD", <<IsName("index")>>, "next", <<>>),
             On("root", "ALL", <<AllRest, IsName("a")>>, "next", <<>>),
             On("root", "GET", <<>>, "next", <<>>),
             On("root", "POST", Everything, "fail", <<>>),
             RoutePolicy("root", "ALL", <<AllRest, IsName("a")>>, "token"),
             RoutePolicy("root", "GET", <<IsName("a")>>, "closed")}

(* What the handlers do.                                                   *)
Work(does) == {Child("root", "api"), Policy("api", "slow"),
               Around("root", "before", does[1]), Around("root", "before_and_after", does[2]),
               Around("api", "before", does[3]),
               On("api", "ALL", <<AnyOne>>, does[4], <<>>), On("api", "ALL", <<AnyOne>>, does[5], <<>>),
               Around("root", "after", does[6]), Around("root", "after", does[7]),
               Around("api", "after", does[8])}

MCSetups ==
    {Tree, Twins, Patterns,
     Work(<<"next", "send", "send", "next", "end", "next", "fail", "next">>),
     Work(<<"quiet", "next", "later", "next", "later", "throw", "quiet", "send">>),
     Work(<<"next", "throw", "fail", "fail", "throw", "next", "later", "throw">>),
     Work(<<"end", "fail", "quiet", "quiet", "send", "send", "end", "next">>),
     Work(<<"next", "file", "lone file", "file", "next", "file", "next", "lone file">>)}

MCRequests ==
    {[method |-> m, url |-> u] : m \in {"GET"},
        u \in {<<"api", "v1", "a">>, <<"api", "a">>, <<"v1", "2", "a">>, <<"v1", "api", "v1", "a">>, <<"static", "v1", "a">>}}
    \cup {[method |-> "HEAD", url |-> <<"">>], [method |-> "HEAD", url |-> <<"api", "1", "">>],
          [method |-> "POST", url |-> <<"static", "b">>], [method |-> "GET", url |-> <<"api", "">>], [method |-> "GET", url |-> <<"api", "v1">>]}

=============================================================================
