-------------------------- MODULE SupervisorProofs --------------------------
(***************************************************************************)
(* Dispatching of connections, for any number of workers and connections.  *)
(***************************************************************************)
EXTENDS Supervisor, TLAPS

(* Once the listeners are open every worker was forked and connected.      *)
Started ==
    /\ app \in {"running", "stopping"} => connected = N
    /\ connected > 0 => forked = N
    /\ \A w \in Workers : w <= forked => child[w] # "none"

(* The fifth failure is the last.                                          *)
Trying == app = "starting" => tries < Tries

(* The master gives up the socket of a worker only after the worker ended. *)
Reachable == \A w \in Workers : w <= connected => w \in usock \/ Ended(w)

Handed == \A s \in Socks : sock[s] # "waiting"
                              => by[s] \in Workers /\ connected = N

(* The workers up to the index have had one turn more than the others.     *)
RoundRobin ==
    \E c \in Nat : \A w \in Workers :
        turns[w] = IF rridx < N /\ w <= rridx + 1 THEN c + 1 ELSE c

Inv == /\ TypeOK /\ Started /\ Trying /\ Reachable /\ Handed /\ DroppedByTheDead
       /\ RoundRobin

LEMMA WorkerCount == N \in Nat /\ N >= 1 /\ FirstIndex \in Nat /\ N <= FirstIndex
<1>1. N \in Nat \ {0} /\ FirstIndex \in Nat /\ N <= FirstIndex
  BY SupervisorAssumption
<1> QED
  BY <1>1

LEMMA InitInv == Init => Inv
<1> SUFFICES ASSUME Init PROVE Inv
  OBVIOUS
<1>1. nested \in BOOLEAN /\ asked \in BOOLEAN /\ ignores \in BOOLEAN
  <2>1. nested = FALSE /\ asked = FALSE /\ ignores \in BOOLEAN
    BY Zenon DEF Init
  <2> QED
    BY <2>1
<1>2. N \in Nat /\ 0 \in Nat /\ N <= FirstIndex /\ FirstIndex \in Nat /\ 0 \in 0..N
  BY WorkerCount
<1>3. TypeOK
  BY <1>1, <1>2 DEF Init, TypeOK, Tries, SockStates
<1>4. Started /\ Trying /\ Reachable /\ Handed /\ DroppedByTheDead
  BY <1>2 DEF Init, Started, Trying, Tries, Reachable, Handed, DroppedByTheDead, Workers
<1>5. \A w \in Workers : turns[w] = IF rridx < N /\ w <= rridx + 1 THEN 0 + 1 ELSE 0
  BY <1>2 DEF Init
<1>6. RoundRobin
  BY <1>2, <1>5 DEF RoundRobin
<1> QED
  BY <1>3, <1>4, <1>6 DEF Inv

-----------------------------------------------------------------------------
(* Each step keeps the type of each variable.                              *)
LEMMA SendType ==
    ASSUME Inv, NEW s \in Socks, NEW w \in Workers, Send(s, w)
    PROVE  /\ sock' \in [Socks -> SockStates]
           /\ usock' \subseteq Workers
           /\ \A t \in Socks : t # s => sock'[t] = sock[t]
           /\ sock'[s] \in {"held", "sent", "dropped", "refused"}
           /\ sock'[s] = "dropped" => w \notin usock \/ Ended(w)
           /\ \A v \in Workers : v \in usock /\ v \notin usock' => Ended(v)
<1> DEFINE x == CASE w \notin usock \/ Ended(w)    -> "dropped"
                  [] Cardinality(Queue(w)) >= Room -> "held"
                  [] OTHER                         -> "sent"
<1>1. x \in {"held", "sent", "dropped"} /\ (x = "dropped" => w \notin usock \/ Ended(w))
  OBVIOUS
<1>2. \/ sock' = [sock EXCEPT ![s] = x] /\ usock' = IF Ended(w) THEN usock \ {w} ELSE usock
      \/ sock' = [sock EXCEPT ![s] = "refused"] /\ usock' = usock
  BY DEF Send
<1> HIDE DEF x
<1> QED
  BY <1>1, <1>2 DEF Inv, TypeOK, SockStates

LEMMA EndType ==
    ASSUME Inv, NEW w \in Workers, Alive(w), NEW how \in {"exited", "signaled", "killed"},
           End(w, how)
    PROVE  /\ child' \in [Workers -> Booting
                            \cup {"none", "running", "exited", "signaled", "killed"}]
           /\ sock' \in [Socks -> SockStates]
           /\ \A v \in Workers : Ended(v) => Ended(v)'
           /\ \A v \in Workers : child[v] # "none" => child'[v] # "none"
           /\ Ended(w)'
           /\ \A s \in Socks : \/ sock'[s] = sock[s]
                               \/ sock[s] # "waiting" /\ by[s] = w
                                    /\ sock'[s] \in {"dropped", "done"}
<1>1. child' = [child EXCEPT ![w] = how]
  BY DEF End
<1>2. child' \in [Workers -> Booting
                    \cup {"none", "running", "exited", "signaled", "killed"}]
  BY <1>1 DEF Inv, TypeOK
<1>3. /\ \A v \in Workers : Ended(v) => Ended(v)'
      /\ \A v \in Workers : child[v] # "none" => child'[v] # "none"
      /\ Ended(w)'
  BY <1>1 DEF Inv, TypeOK, Ended
<1> DEFINE f(s) == CASE by[s] = w /\ sock[s] = "sent"   -> "dropped"
                     [] by[s] = w /\ sock[s] = "served" -> "done"
                     [] OTHER                           -> sock[s]
<1>4. sock' = [s \in Socks |-> f(s)]
  BY DEF End
<1>5. \A s \in Socks : \/ f(s) = sock[s]
                       \/ sock[s] # "waiting" /\ by[s] = w /\ f(s) \in {"dropped", "done"}
  OBVIOUS
<1>6. \A s \in Socks : sock[s] \in SockStates
  BY DEF Inv, TypeOK
<1> HIDE DEF f
<1>7. sock' \in [Socks -> SockStates]
  BY <1>4, <1>5, <1>6 DEF SockStates
<1> QED
  BY <1>2, <1>3, <1>4, <1>5, <1>7

-----------------------------------------------------------------------------
(* Steps that leave the workers and the connections alone.                 *)
LEMMA ControlInv ==
    ASSUME Inv, UNCHANGED <<start, child, usock, clients, ignores>>,
           app' \in {"running", "stopping", "stopped", "dead"},
           app' \in {"running", "stopping"} => app \in {"running", "stopping"},
           reaped' \subseteq Workers, told' \subseteq Workers,
           nested' \in BOOLEAN, asked' \in BOOLEAN
    PROVE  Inv'
<1>1. ignores' \in BOOLEAN
  BY Zenon DEF Inv, TypeOK
<1>2. TypeOK'
  BY <1>1 DEF Inv, TypeOK, start, clients
<1>3. /\ Started' /\ Trying' /\ Reachable' /\ Handed' /\ DroppedByTheDead'
      /\ RoundRobin'
  BY DEF Inv, Started, Trying, Reachable, Handed, DroppedByTheDead, RoundRobin, Ended,
     start, clients
<1> QED
  BY <1>2, <1>3 DEF Inv

LEMMA BeginStopInv ==
    ASSUME Inv, app = "running", NEW inLoop \in BOOLEAN, BeginStop(inLoop),
           reaped' \subseteq Workers, asked' \in BOOLEAN
    PROVE  Inv'
<1>1. /\ app' \in {"stopping", "dead"}
      /\ told' \subseteq Workers
      /\ nested' = inLoop
      /\ UNCHANGED <<start, child, usock, clients, ignores>>
  BY DEF BeginStop
<1> QED
  BY <1>1, ControlInv

(* Steps of the start: a worker is forked, gets further, or is connected.  *)
LEMMA ForkInv == ASSUME Inv, Fork PROVE Inv'
<1>1. nested' \in BOOLEAN /\ asked' \in BOOLEAN /\ ignores' \in BOOLEAN
  <2>1. UNCHANGED <<nested, asked, ignores>>
    BY DEF Fork, control
  <2> QED
    BY <2>1, Zenon DEF Inv, TypeOK
<1>2. /\ UNCHANGED <<connected, tries, reaped, usock, sock, by, rridx, turns, told>>
      /\ app = "starting" /\ forked < N
      /\ \/ /\ forked' = forked + 1 /\ app' = app
            /\ child' = [child EXCEPT ![forked + 1] = "starting"]
         \/ app' = "failed" /\ forked' = forked /\ child' = child
  BY DEF Fork, clients, control
<1>3. /\ forked \in Nat /\ connected = 0 /\ N \in Nat
      /\ forked' \in 0..N /\ forked + 1 \in Workers
  BY <1>2, WorkerCount DEF Inv, TypeOK, Started, Workers
<1>4. child' \in [Workers -> Booting
                    \cup {"none", "running", "exited", "signaled", "killed"}]
  BY <1>2, <1>3 DEF Inv, TypeOK, Booting
<1>5. TypeOK'
  BY <1>1, <1>2, <1>3, <1>4 DEF Inv, TypeOK
<1>6. \A w \in Workers : w <= forked' => child'[w] # "none"
  <2>1. \A w \in Workers : w \in Nat /\ (w <= forked => child[w] # "none")
    BY DEF Inv, Started, Workers
  <2>2. child \in [Workers -> Booting
                     \cup {"none", "running", "exited", "signaled", "killed"}]
    BY DEF Inv, TypeOK
  <2> QED
    BY <1>2, <1>3, <2>1, <2>2
<1>7. Started' /\ Trying' /\ Reachable'
  BY <1>2, <1>3, <1>6, WorkerCount DEF Inv, Started, Trying, Reachable, Workers
<1>8. \A s \in Socks : sock[s] = "waiting"
  BY <1>3, WorkerCount DEF Inv, Handed
<1>9. Handed' /\ DroppedByTheDead' /\ RoundRobin'
  BY <1>2, <1>8 DEF Inv, Handed, DroppedByTheDead, RoundRobin
<1> QED
  BY <1>5, <1>7, <1>9 DEF Inv

LEMMA ConnectInv == ASSUME Inv, Connect PROVE Inv'
<1>1. nested' \in BOOLEAN /\ asked' \in BOOLEAN /\ ignores' \in BOOLEAN
  <2>1. UNCHANGED <<nested, asked, ignores>>
    BY DEF Connect, control
  <2> QED
    BY <2>1, Zenon DEF Inv, TypeOK
<1>2. /\ UNCHANGED <<forked, child, reaped, sock, by, rridx, turns, told>>
      /\ app = "starting" /\ forked = N /\ connected < N
      /\ \/ /\ usock' = usock \cup {connected + 1}
            /\ connected' = connected + 1 /\ tries' = 0
            /\ app' = IF connected + 1 = N THEN "running" ELSE app
         \/ /\ usock' = usock /\ connected' = connected /\ tries' = tries + 1
            /\ app' = IF tries' >= Tries THEN "failed" ELSE app
  BY DEF Connect, clients, control
<1>3. connected \in Nat /\ N \in Nat /\ connected + 1 \in Workers /\ connected' \in 0..N
  BY <1>2, WorkerCount DEF Inv, TypeOK, Workers
<1>4. tries < Tries
  BY <1>2 DEF Inv, Trying
<1>5. tries' \in 0..Tries
  BY <1>2, <1>4 DEF Inv, TypeOK, Tries
<1>6. TypeOK'
  BY <1>1, <1>2, <1>3, <1>5 DEF Inv, TypeOK
<1>7. Started' /\ Trying'
  BY <1>2, <1>3, <1>4, <1>5, WorkerCount DEF Inv, Started, Trying, Tries, TypeOK
<1>8. Reachable'
  BY <1>2, <1>3 DEF Inv, Reachable, Ended, Workers
<1>9. \A s \in Socks : sock[s] = "waiting"
  BY <1>2, <1>3, WorkerCount DEF Inv, Handed
<1>10. Handed' /\ DroppedByTheDead' /\ RoundRobin'
  BY <1>2, <1>9 DEF Inv, Handed, DroppedByTheDead, RoundRobin
<1> QED
  BY <1>6, <1>7, <1>8, <1>10 DEF Inv

LEMMA BootInv ==
    ASSUME Inv, NEW w \in Workers, Listen(w) \/ AcceptMaster(w) PROVE Inv'
<1>1. UNCHANGED <<app, start, reaped, usock, clients, control>>
  BY DEF Listen, AcceptMaster
<1>2. /\ child[w] \in Booting
      /\ child' = [child EXCEPT ![w] = "listening"] \/ child' = [child EXCEPT ![w] = "running"]
  BY DEF Listen, AcceptMaster, Booting
<1>3. nested' \in BOOLEAN /\ asked' \in BOOLEAN /\ ignores' \in BOOLEAN
  <2>1. UNCHANGED <<nested, asked, ignores>>
    BY <1>1 DEF control
  <2> QED
    BY <2>1, Zenon DEF Inv, TypeOK
<1>4. child' \in [Workers -> Booting
                    \cup {"none", "running", "exited", "signaled", "killed"}]
  BY <1>2 DEF Inv, TypeOK, Booting
<1>5. TypeOK'
  BY <1>1, <1>3, <1>4 DEF Inv, TypeOK, start, clients, control
<1>6. /\ \A v \in Workers : Ended(v) => Ended(v)'
      /\ \A v \in Workers : child[v] # "none" => child'[v] # "none"
  BY <1>2 DEF Inv, TypeOK, Ended, Booting
<1>7. /\ Started' /\ Trying' /\ Reachable' /\ Handed' /\ DroppedByTheDead'
      /\ RoundRobin'
  BY <1>1, <1>6 DEF Inv, Started, Trying, Reachable, Handed, DroppedByTheDead,
     RoundRobin, start, clients
<1> QED
  BY <1>5, <1>7 DEF Inv

-----------------------------------------------------------------------------
(* The round robin.                                                        *)
LEMMA TurnInv ==
    ASSUME Inv, rridx' = NextIndex,
           turns' = [turns EXCEPT ![rridx' + 1] = @ + 1]
    PROVE  /\ rridx' \in Nat /\ rridx' + 1 \in Workers
           /\ turns' \in [Workers -> Nat]
           /\ RoundRobin'
<1>1. rridx \in Nat /\ N \in Nat /\ N >= 1 /\ turns \in [Workers -> Nat]
  BY WorkerCount DEF Inv, TypeOK
<1>2. rridx' \in Nat /\ rridx' + 1 \in Workers
  BY <1>1 DEF NextIndex, Workers
<1>3. PICK c \in Nat : \A w \in Workers :
        turns[w] = IF rridx < N /\ w <= rridx + 1 THEN c + 1 ELSE c
  BY DEF Inv, RoundRobin
<1>4. \A w \in Workers : turns'[w] = IF w = rridx' + 1 THEN turns[w] + 1 ELSE turns[w]
  BY <1>1, <1>2
<1>5. CASE rridx + 1 < N
  <2>1. rridx' = rridx + 1
    BY <1>1, <1>5 DEF NextIndex
  <2>2. \A w \in Workers : turns'[w] = IF rridx' < N /\ w <= rridx' + 1 THEN c + 1 ELSE c
    BY <1>1, <1>3, <1>4, <1>5, <2>1 DEF Workers
  <2> QED
    BY <1>1, <1>2, <1>4, <2>2 DEF RoundRobin
<1>6. CASE rridx + 1 >= N
  <2>1. rridx' = 0
    BY <1>1, <1>6 DEF NextIndex
  <2> DEFINE d == IF rridx < N THEN c + 1 ELSE c
  <2>2. \A w \in Workers : turns[w] = d
    BY <1>1, <1>3, <1>6 DEF Workers
  <2>3. d \in Nat
    BY <1>3
  <2> HIDE DEF d
  <2>4. \A w \in Workers : turns'[w] = IF rridx' < N /\ w <= rridx' + 1 THEN d + 1 ELSE d
    BY <1>1, <1>4, <2>1, <2>2, <2>3 DEF Workers
  <2> QED
    BY <1>1, <1>2, <2>3, <2>4 DEF RoundRobin
<1> QED
  BY <1>1, <1>2, <1>5, <1>6

(* A connection is sent, or tried again.                                   *)
LEMMA SendInv ==
    ASSUME Inv, NEW s \in Socks, NEW w \in Workers, Send(s, w), connected = N,
           UNCHANGED <<app, start, child, reaped, control>>,
           by' = [by EXCEPT ![s] = w],
           rridx' \in Nat, turns' \in [Workers -> Nat], RoundRobin'
    PROVE  Inv'
<1>1. nested' \in BOOLEAN /\ asked' \in BOOLEAN /\ ignores' \in BOOLEAN
  <2>1. UNCHANGED <<nested, asked, ignores>>
    BY DEF control
  <2> QED
    BY <2>1, Zenon DEF Inv, TypeOK
<1>2. by' \in [Socks -> 0..N] /\ by'[s] = w /\ \A t \in Socks : t # s => by'[t] = by[t]
  BY WorkerCount DEF Inv, TypeOK, Workers
<1>3. TypeOK'
  BY <1>1, <1>2, SendType DEF Inv, TypeOK, start, control
<1>4. Started' /\ Trying'
  BY DEF Inv, Started, Trying, start
<1>5. Reachable'
  BY SendType DEF Inv, Reachable, Ended, start
<1>6. Handed'
  BY <1>2, SendType DEF Inv, Handed, start
<1>7. w \in usock \/ Ended(w)
  BY DEF Inv, Reachable, Workers
<1>8. DroppedByTheDead'
  <2> SUFFICES ASSUME NEW t \in Socks, sock'[t] = "dropped"
               PROVE  (by[t] # 0 /\ Ended(by[t]))'
    BY DEF DroppedByTheDead
  <2>1. CASE t = s
    BY <1>2, <1>7, <2>1, SendType, WorkerCount DEF Workers, Ended
  <2>2. CASE t # s
    <3>1. sock[t] = "dropped" /\ by'[t] = by[t]
      BY <1>2, <2>2, SendType
    <3>2. by[t] \in Workers /\ by[t] # 0 /\ Ended(by[t])
      BY <3>1 DEF Inv, Handed, DroppedByTheDead
    <3> QED
      BY <3>1, <3>2 DEF Ended
  <2> QED
    BY <2>1, <2>2
<1> QED
  BY <1>3, <1>4, <1>5, <1>6, <1>8 DEF Inv

LEMMA DispatchInv == ASSUME Inv, NEW s \in Socks, Dispatch(s) PROVE Inv'
<1>1. /\ rridx' = NextIndex
      /\ by' = [by EXCEPT ![s] = rridx' + 1]
      /\ turns' = [turns EXCEPT ![rridx' + 1] = @ + 1]
      /\ Send(s, rridx' + 1)
      /\ UNCHANGED <<app, start, child, reaped, control>>
      /\ app \in {"running", "stopping"}
  BY DEF Dispatch, LoopRuns
<1>2. connected = N
  BY <1>1 DEF Inv, Started
<1>3. /\ rridx' \in Nat /\ rridx' + 1 \in Workers
      /\ turns' \in [Workers -> Nat]
      /\ RoundRobin'
  BY <1>1, TurnInv
<1> QED
  BY <1>1, <1>2, <1>3, SendInv

LEMMA RetryInv == ASSUME Inv, NEW s \in Socks, Retry(s) PROVE Inv'
<1>1. /\ Send(s, by[s]) /\ sock[s] = "held"
      /\ UNCHANGED <<app, start, child, reaped, by, rridx, turns, control>>
  BY DEF Retry
<1>2. by[s] \in Workers /\ connected = N
  BY <1>1 DEF Inv, Handed
<1>3. by' = [by EXCEPT ![s] = by[s]] /\ rridx' \in Nat /\ turns' \in [Workers -> Nat]
  BY <1>1 DEF Inv, TypeOK
<1>4. RoundRobin'
  BY <1>1 DEF Inv, RoundRobin
<1> QED
  BY <1>1, <1>2, <1>3, <1>4, SendInv

-----------------------------------------------------------------------------
(* Connections are received and end, and workers end.                      *)
LEMMA SocksInv ==
    ASSUME Inv,
           UNCHANGED <<start, reaped, usock, by, rridx, turns, control>>,
           app' \in {app, "stopped"},
           child' \in [Workers -> Booting
                         \cup {"none", "running", "exited", "signaled", "killed"}],
           sock' \in [Socks -> SockStates],
           \A v \in Workers : Ended(v) => Ended(v)',
           \A v \in Workers : child[v] # "none" => child'[v] # "none",
           \A s \in Socks : sock[s] = "waiting" => sock'[s] = "waiting",
           \A s \in Socks : sock'[s] = "dropped" /\ sock[s] # "dropped"
                               => Ended(by[s])'
    PROVE  Inv'
<1>1. nested' \in BOOLEAN /\ asked' \in BOOLEAN /\ ignores' \in BOOLEAN
  <2>1. UNCHANGED <<nested, asked, ignores>>
    BY DEF control
  <2> QED
    BY <2>1, Zenon DEF Inv, TypeOK
<1>2. TypeOK'
  BY <1>1 DEF Inv, TypeOK, start, control
<1>3. Started' /\ Trying' /\ Reachable' /\ Handed' /\ RoundRobin'
  BY DEF Inv, Started, Trying, Reachable, Handed, RoundRobin, start
<1>4. DroppedByTheDead'
  <2> SUFFICES ASSUME NEW s \in Socks, sock'[s] = "dropped"
               PROVE  (by[s] # 0 /\ Ended(by[s]))'
    BY DEF DroppedByTheDead
  <2>1. by[s] \in Workers /\ by'[s] = by[s] /\ by[s] # 0
    BY WorkerCount DEF Inv, Handed, Workers
  <2>2. CASE sock[s] = "dropped"
    BY <2>1, <2>2 DEF Inv, DroppedByTheDead
  <2>3. CASE sock[s] # "dropped"
    BY <2>1, <2>3
  <2> QED
    BY <2>2, <2>3
<1> QED
  BY <1>2, <1>3, <1>4 DEF Inv

LEMMA NextInv == Inv /\ [Next]_vars => Inv'
<1> SUFFICES ASSUME Inv, [Next]_vars PROVE Inv'
  OBVIOUS
<1>1. CASE Fork
  BY <1>1, ForkInv
<1>2. CASE Connect
  BY <1>2, ConnectInv
<1>3. CASE StopOnRequest
  <2>1. asked' \in BOOLEAN
    BY <1>3, Zenon DEF StopOnRequest, Inv, TypeOK
  <2> QED
    BY <1>3, <2>1, BeginStopInv DEF StopOnRequest, Inv, TypeOK
<1>4. CASE StopCall
  BY <1>4, BeginStopInv DEF StopCall, Inv, TypeOK
<1>5. CASE Verify
  <2>0. asked \in BOOLEAN /\ nested \in BOOLEAN
    BY Zenon DEF Inv, TypeOK
  <2>1. PICK w \in Workers \ reaped :
          /\ reaped' = reaped \cup {w}
          /\ IF child[w] = "killed"
             THEN UNCHANGED <<app, start, child, usock, clients, control>>
             ELSE BeginStop(TRUE) /\ UNCHANGED asked
    BY <1>5 DEF Verify
  <2>2. reaped' \subseteq Workers /\ app = "running"
    BY <1>5, <2>1 DEF Verify, Inv, TypeOK
  <2>3. CASE child[w] = "killed"
    <3>1. UNCHANGED <<app, start, child, usock, clients, control>>
      BY <2>1, <2>3
    <3>2. UNCHANGED <<told, nested, asked, ignores>>
      BY <3>1 DEF control
    <3> QED
      BY <2>0, <2>2, <3>1, <3>2, ControlInv DEF Inv, TypeOK
  <2>4. CASE child[w] # "killed"
    BY <2>0, <2>1, <2>2, <2>4, BeginStopInv
  <2> QED
    BY <2>3, <2>4
<1>6. CASE StopPoll
  <2>0. asked \in BOOLEAN /\ nested \in BOOLEAN
    BY Zenon DEF Inv, TypeOK
  <2>1. /\ app = "stopping" /\ app' \in {"stopping", "stopped"}
        /\ reaped' \subseteq Workers
        /\ UNCHANGED <<start, child, usock, clients, told, nested, asked, ignores>>
    BY <1>6 DEF StopPoll, control, Inv, TypeOK
  <2> QED
    BY <2>0, <2>1, ControlInv DEF Inv, TypeOK
<1>7. CASE StopTimeout
  <2> DEFINE f(s) == CASE sock[s] = "sent"   -> "dropped"
                       [] sock[s] = "served" -> "done"
                       [] OTHER              -> sock[s]
  <2>1. /\ app = "stopping" /\ app' = "stopped"
        /\ child' = [w \in Workers |-> IF Alive(w) THEN "killed" ELSE child[w]]
        /\ sock' = [s \in Socks |-> f(s)]
        /\ UNCHANGED <<start, reaped, usock, by, rridx, turns, control>>
    BY <1>7 DEF StopTimeout
  <2>2. \A s \in Socks : \/ f(s) = sock[s]
                         \/ sock[s] # "waiting" /\ f(s) \in {"dropped", "done"}
    OBVIOUS
  <2> HIDE DEF f
  <2>3. /\ child' \in [Workers -> Booting
                         \cup {"none", "running", "exited", "signaled", "killed"}]
        /\ \A v \in Workers : Ended(v) => Ended(v)'
        /\ \A v \in Workers : child[v] # "none" => child'[v] # "none"
        /\ \A v \in Workers : child[v] # "none" => Ended(v)'
    BY <2>1 DEF Inv, TypeOK, Ended, Alive
  <2>4. /\ sock' \in [Socks -> SockStates]
        /\ \A s \in Socks : sock[s] = "waiting" => sock'[s] = "waiting"
    BY <2>1, <2>2 DEF Inv, TypeOK, SockStates
  <2>5. ASSUME NEW s \in Socks, sock'[s] = "dropped", sock[s] # "dropped"
        PROVE  Ended(by[s])'
    <3>1. sock[s] # "waiting"
      BY <2>1, <2>2, <2>5
    <3>2. by[s] \in Workers /\ by' = by /\ connected = N /\ N \in Nat
      BY <2>1, <3>1, WorkerCount DEF Inv, Handed
    <3>3. forked = N
      BY <3>2, WorkerCount DEF Inv, Started
    <3>4. child[by[s]] # "none"
      BY <3>2, <3>3 DEF Inv, Started, Workers
    <3> QED
      BY <2>3, <3>2, <3>4
  <2> QED
    BY <2>1, <2>3, <2>4, <2>5, SocksInv
<1>8. ASSUME NEW w \in Workers, Listen(w) \/ AcceptMaster(w) PROVE Inv'
  BY <1>8, BootInv
<1>9. ASSUME NEW w \in Workers, Close(w) \/ Die(w) PROVE Inv'
  <2>1. /\ UNCHANGED <<app, start, reaped, usock, by, rridx, turns, control>>
        /\ Alive(w)
        /\ \E how \in {"exited", "signaled", "killed"} : End(w, how)
    BY <1>9 DEF Close, Die, Alive
  <2>2. PICK how \in {"exited", "signaled", "killed"} : End(w, how)
    BY <2>1
  <2>3. /\ child' \in [Workers -> Booting
                         \cup {"none", "running", "exited", "signaled", "killed"}]
        /\ sock' \in [Socks -> SockStates]
        /\ \A v \in Workers : Ended(v) => Ended(v)'
        /\ \A v \in Workers : child[v] # "none" => child'[v] # "none"
        /\ Ended(w)'
        /\ \A s \in Socks : \/ sock'[s] = sock[s]
                            \/ sock[s] # "waiting" /\ by[s] = w
                                 /\ sock'[s] \in {"dropped", "done"}
    BY <2>1, <2>2, EndType
  <2>4. ASSUME NEW s \in Socks, sock'[s] = "dropped", sock[s] # "dropped"
        PROVE  Ended(by[s])'
    <3>1. by[s] = w /\ by' = by
      BY <2>1, <2>3, <2>4
    <3> QED
      BY <2>3, <3>1
  <2>5. \A s \in Socks : sock[s] = "waiting" => sock'[s] = "waiting"
    BY <2>3
  <2> QED
    BY <2>1, <2>3, <2>4, <2>5, SocksInv
<1>10. ASSUME NEW w \in Workers, CloseService(w) PROVE Inv'
  <2>1. nested \in BOOLEAN
    BY Zenon DEF Inv, TypeOK
  <2>2. /\ UNCHANGED <<app, start, child, usock, clients, reaped, told, nested, ignores>>
        /\ asked' \in BOOLEAN
    BY <1>10 DEF CloseService
  <2>3. CASE app \in {"running", "stopping", "stopped", "dead"}
    BY <2>1, <2>2, <2>3, ControlInv DEF Inv, TypeOK
  <2>4. CASE app \in {"starting", "failed"}
    <3>1. ignores' \in BOOLEAN /\ nested' \in BOOLEAN
      BY <2>2, Zenon DEF Inv, TypeOK
    <3>2. TypeOK'
      BY <2>2, <3>1 DEF Inv, TypeOK, start, clients
    <3>3. /\ Started' /\ Trying' /\ Reachable' /\ Handed' /\ DroppedByTheDead'
          /\ RoundRobin'
      BY <2>2 DEF Inv, Started, Trying, Reachable, Handed, DroppedByTheDead,
         RoundRobin, Ended, start, clients
    <3> QED
      BY <3>2, <3>3 DEF Inv
  <2> QED
    BY <2>3, <2>4 DEF Inv, TypeOK
<1>11. ASSUME NEW s \in Socks, Receive(s) \/ Finish(s) PROVE Inv'
  <2>1. /\ UNCHANGED <<app, start, child, reaped, usock, by, rridx, turns, control>>
        /\ sock[s] \in {"sent", "served"}
        /\ \/ sock' = [sock EXCEPT ![s] = "served"]
           \/ sock' = [sock EXCEPT ![s] = "done"]
    BY <1>11 DEF Receive, Finish
  <2>2. /\ sock' \in [Socks -> SockStates]
        /\ \A t \in Socks : sock[t] = "waiting" => sock'[t] = "waiting"
        /\ \A t \in Socks : sock'[t] = "dropped" => sock[t] = "dropped"
    BY <2>1 DEF Inv, TypeOK, SockStates
  <2>3. \A v \in Workers : (Ended(v) => Ended(v)') /\ child'[v] = child[v]
    BY <2>1 DEF Ended
  <2>4. child' \in [Workers -> Booting
                      \cup {"none", "running", "exited", "signaled", "killed"}]
    BY <2>1 DEF Inv, TypeOK
  <2> QED
    BY <2>1, <2>2, <2>3, <2>4, SocksInv
<1>12. ASSUME NEW s \in Socks, Dispatch(s) PROVE Inv'
  BY <1>12, DispatchInv
<1>13. ASSUME NEW s \in Socks, Retry(s) PROVE Inv'
  BY <1>13, RetryInv
<1>14. CASE UNCHANGED vars
  <2>1. UNCHANGED <<app, start, child, reaped, usock, by, rridx, turns, control, sock>>
    BY <1>14 DEF vars, clients
  <2>2. \A v \in Workers : (Ended(v) => Ended(v)') /\ child'[v] = child[v]
    BY <2>1 DEF Ended
  <2> QED
    BY <2>1, <2>2, SocksInv DEF Inv, TypeOK
<1> QED
  BY <1>1, <1>2, <1>3, <1>4, <1>5, <1>6, <1>7, <1>8, <1>9, <1>10, <1>11, <1>12,
     <1>13, <1>14 DEF Next, Master, Worker, Client

-----------------------------------------------------------------------------
(* The variables keep their shape and start() never tries more than five   *)
(* times, for every number of workers and of connections.                  *)
THEOREM TypeCorrect == Spec => []TypeOK
<1>1. Inv => TypeOK
  BY DEF Inv
<1> QED
  BY <1>1, InitInv, NextInv, PTL DEF Spec

(* The round robin of master_listen_cb keeps the workers' turns within one *)
(* of each other, whichever workers end.                                   *)
THEOREM RoundRobinIsFair == Spec => []Balanced
<1>1. Inv => Balanced
  <2> SUFFICES ASSUME Inv, NEW v \in Workers, NEW w \in Workers
               PROVE  turns[v] <= turns[w] + 1
    BY DEF Balanced
  <2>1. PICK c \in Nat : \A x \in Workers :
          turns[x] = IF rridx < N /\ x <= rridx + 1 THEN c + 1 ELSE c
    BY DEF Inv, RoundRobin
  <2>2. turns[v] \in {c, c + 1} /\ turns[w] \in {c, c + 1}
    BY <2>1
  <2> QED
    BY <2>2
<1> QED
  BY <1>1, InitInv, NextInv, PTL DEF Spec

(* A connection that was closed before a worker had it was meant for a     *)
(* worker that has ended, or sendmsg failed for that very connection: a    *)
(* full socket costs none, however many connections and workers there are. *)
THEOREM OnlyTheDeadDrop == Spec => []DroppedByTheDead
<1>1. Inv => DroppedByTheDead
  BY DEF Inv
<1> QED
  BY <1>1, InitInv, NextInv, PTL DEF Spec

=============================================================================
