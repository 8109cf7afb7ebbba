---------------------------- MODULE RouterProofs ----------------------------
(***************************************************************************)
(* The links between routers agree whatever the application registers and  *)
(* moves, for any set of routers and paths.                                *)
(***************************************************************************)
EXTENDS Router, TLAPS

(* What the tree is made of, and LinksAgree.                               *)
RouterInv ==
    /\ parent \in [Routers -> Routers \cup {None}]
    /\ kids \in [Routers -> [Paths -> Routers \cup {None}]]
    /\ shadowed \in BOOLEAN
    /\ LinksAgree

(* Before any call there are no links.                                     *)
LEMMA RouterInitial == RouterInit => RouterInv
  <1> SUFFICES ASSUME RouterInit PROVE RouterInv
    OBVIOUS
  <1>1. parent \in [Routers -> Routers \cup {None}] /\ shadowed \in BOOLEAN
    BY DEF RouterInit
  <1>2. kids \in [Routers -> [Paths -> Routers \cup {None}]]
    BY DEF RouterInit
  <1>3. LinksAgree
    <2>1. \A r \in Routers, x \in Paths : kids[r][x] = None /\ parent[r] = None
      BY DEF RouterInit
    <2>2. \A r \in Routers : parent[r] = None
      BY DEF RouterInit
    <2> QED
      BY <2>1, <2>2, RouterAssumption DEF LinksAgree
  <1> QED
    BY <1>1, <1>2, <1>3 DEF RouterInv

(* Erase leaves every other link as it was, and takes the one its router   *)
(* was found by.                                                           *)
LEMMA EraseLinks ==
  ASSUME RouterInv, NEW c \in Routers
  PROVE  /\ Erase(c) \in [Routers -> [Paths -> Routers \cup {None}]]
         /\ \A r \in Routers, x \in Paths :
              \/ Erase(c)[r][x] = None /\ r = parent[c] /\ x = PathOf(c)
              \/ Erase(c)[r][x] = kids[r][x] /\ ~(r = parent[c] /\ x = PathOf(c))
  <1>1. PathOf(c) \in Paths
    BY DEF Paths
  <1>2. CASE parent[c] = None
    BY <1>1, <1>2, RouterAssumption DEF RouterInv, Erase
  <1>3. CASE parent[c] \in Routers
    BY <1>1, <1>3, RouterAssumption DEF RouterInv, Erase
  <1> QED
    BY <1>2, <1>3 DEF RouterInv

(* After Erase no router has c any more.                                   *)
LEMMA EraseForgets ==
  ASSUME RouterInv, NEW c \in Routers, NEW r \in Routers, NEW x \in Paths
  PROVE  Erase(c)[r][x] # c
  BY EraseLinks, RouterAssumption DEF RouterInv, LinksAgree

(* register_router keeps the links.                                        *)
LEMMA RegisterRouterKeeps ==
  ASSUME RouterInv, NEW p \in Routers, NEW c \in Routers, RegisterRouter(p, c)
  PROVE  RouterInv'
  <1> DEFINE ks == Erase(c)
  <1>0. PathOf(c) \in Paths
    BY DEF Paths
  <1>1. /\ ks \in [Routers -> [Paths -> Routers \cup {None}]]
        /\ \A r \in Routers, x \in Paths :
             \/ ks[r][x] = None /\ r = parent[c] /\ x = PathOf(c)
             \/ ks[r][x] = kids[r][x] /\ ~(r = parent[c] /\ x = PathOf(c))
        /\ \A r \in Routers, x \in Paths : ks[r][x] # c
    BY EraseLinks, EraseForgets
  <1>2. /\ parent' = [parent EXCEPT ![c] = p]
        /\ kids' = IF ks[p][PathOf(c)] = None THEN [ks EXCEPT ![p][PathOf(c)] = c] ELSE ks
        /\ shadowed' = (shadowed \/ ks[p][PathOf(c)] # None)
    BY DEF RegisterRouter, Emplace
  <1> HIDE DEF ks
  <1>3. /\ parent' \in [Routers -> Routers \cup {None}]
        /\ kids' \in [Routers -> [Paths -> Routers \cup {None}]]
        /\ shadowed' \in BOOLEAN
    BY <1>0, <1>1, <1>2 DEF RouterInv
  <1>4. ASSUME NEW r \in Routers, NEW d \in Routers, NEW x \in Paths, kids'[r][x] = d
        PROVE  parent'[d] = r /\ PathOf(d) = x
    <2>1. CASE r = p /\ x = PathOf(c) /\ ks[p][PathOf(c)] = None
      BY <2>1, <1>0, <1>1, <1>2, <1>4 DEF RouterInv
    <2>2. CASE ~(r = p /\ x = PathOf(c) /\ ks[p][PathOf(c)] = None)
      <3>1. ks[r][x] = d
        BY <2>2, <1>0, <1>1, <1>2, <1>4
      <3>2. d # c /\ kids[r][x] = d
        BY <3>1, <1>1, RouterAssumption
      <3>3. parent[d] = r /\ PathOf(d) = x
        BY <3>2 DEF RouterInv, LinksAgree
      <3> QED
        BY <3>2, <3>3, <1>2 DEF RouterInv
    <2> QED
      BY <2>1, <2>2
  <1>5. ASSUME ~shadowed', NEW r \in Routers, NEW d \in Routers, parent'[d] = r
        PROVE  kids'[r][PathOf(d)] = d
    <2>0. PathOf(d) \in Paths /\ ~shadowed /\ ks[p][PathOf(c)] = None
      BY <1>2, <1>5 DEF Paths, RouterInv
    <2>1. CASE d = c
      BY <2>0, <2>1, <1>0, <1>1, <1>2, <1>5 DEF RouterInv
    <2>2. CASE d # c
      <3>1. parent[d] = r
        BY <2>2, <1>2, <1>5 DEF RouterInv
      <3>2. kids[r][PathOf(d)] = d
        BY <3>1, <2>0 DEF RouterInv, LinksAgree
      <3>3. ~(r = parent[c] /\ PathOf(d) = PathOf(c))
        <4> SUFFICES ASSUME r = parent[c], PathOf(d) = PathOf(c)
                     PROVE  FALSE
          OBVIOUS
        <4>1. kids[r][PathOf(c)] = c
          BY <2>0 DEF RouterInv, LinksAgree
        <4> QED
          BY <4>1, <3>2, <2>2
      <3>4. ks[r][PathOf(d)] = d
        BY <3>2, <3>3, <2>0, <1>1
      <3>5. ~(r = p /\ PathOf(d) = PathOf(c))
        BY <3>4, <2>0, RouterAssumption
      <3> QED
        BY <3>4, <3>5, <2>0, <1>0, <1>1, <1>2
    <2> QED
      BY <2>1, <2>2
  <1> QED
    BY <1>3, <1>4, <1>5 DEF RouterInv, LinksAgree

(* The other calls leave the links alone.                                  *)
LEMMA OthersKeep ==
  ASSUME RouterInv, UNCHANGED <<parent, kids, shadowed>>
  PROVE  RouterInv'
  BY DEF RouterInv, LinksAgree

(* Whatever routers, routes, policies and handlers the application         *)
(* registers, in any order and however often it moves a router, the links  *)
(* between routers agree (register_router).                                *)
THEOREM LinksAgreeAlways ==
  ASSUME NEW CONSTANT Verb, NEW CONSTANT Pattern, NEW CONSTANT Handler, NEW CONSTANT Policy
  PROVE  RouterInit /\ [][RouterNext(Verb, Pattern, Handler, Policy)]_rvars => []LinksAgree
  <1>1. RouterInv /\ [RouterNext(Verb, Pattern, Handler, Policy)]_rvars => RouterInv'
    <2> SUFFICES ASSUME RouterInv, [RouterNext(Verb, Pattern, Handler, Policy)]_rvars
                 PROVE  RouterInv'
      OBVIOUS
    <2>1. ASSUME NEW p \in Routers, NEW c \in Routers, RegisterRouter(p, c)
          PROVE  RouterInv'
      BY <2>1, RegisterRouterKeeps
    <2>2. ASSUME NEW r \in Routers, NEW pol \in Policy, RegisterPolicy(r, pol)
          PROVE  RouterInv'
      BY <2>2, OthersKeep DEF RegisterPolicy
    <2>3. ASSUME NEW r \in Routers, NEW handler \in Handler, NEW when, Use(r, when, handler)
          PROVE  RouterInv'
      BY <2>3, OthersKeep DEF Use
    <2>4. ASSUME NEW r \in Routers, NEW verb \in Verb, NEW pattern \in Pattern, NEW pol,
                 RegisterRoutePolicy(r, verb, pattern, pol)
          PROVE  RouterInv'
      BY <2>4, OthersKeep DEF RegisterRoutePolicy
    <2>5. ASSUME NEW r \in Routers, NEW verb \in Verb, NEW pattern \in Pattern, NEW pol,
                 NEW handler \in Handler, RegisterHandler(r, verb, pattern, handler, pol)
          PROVE  RouterInv'
      BY <2>5, OthersKeep DEF RegisterHandler
    <2>6. CASE UNCHANGED rvars
      BY <2>6, OthersKeep DEF rvars
    <2> QED
      BY <2>1, <2>2, <2>3, <2>4, <2>5, <2>6 DEF RouterNext
  <1>2. RouterInv => LinksAgree
    BY DEF RouterInv
  <1> QED
    BY <1>1, <1>2, RouterInitial, PTL

=============================================================================
