----------------------------- MODULE Supervisor -----------------------------
(***************************************************************************)
(* The processes of a server: the master forks the workers and connects to *)
(* a unix socket of each (app_t::start), hands them the client connections *)
(* it accepts, in turn (listener::master_listen_cb), watches for workers   *)
(* that end (_verify_child_processes) and stops them (app_t::stop).        *)
(*                                                                         *)
(* The command pipes are the ones of CmdChannel; only CMD_CLOSE and        *)
(* CMD_CLOSE_APP appear here.  The application answers the SIGINT that     *)
(* raise() sends by calling stop(), as examples-evmvc/web-server.cpp does. *)
(***************************************************************************)
EXTENDS Naturals, FiniteSets

CONSTANTS N,       \* worker_count
          Socks,   \* client connections, numbered in the order they come
          Room     \* messages that the socket to a worker can hold

(* The first value of rridx: past the last worker.                         *)
FirstIndex == 100000

ASSUME SupervisorAssumption ==
    /\ N \in Nat \ {0} /\ FirstIndex \in Nat /\ N <= FirstIndex
    /\ Room \in Nat \ {0}
    /\ Socks \subseteq Nat /\ IsFiniteSet(Socks)

Workers == 1..N

Tries == 5

VARIABLES
    app,        \* state of the master
    forked,     \* workers forked
    connected,  \* workers the master has connected to
    tries,      \* failed attempts to connect to the next one
    child,      \* state of the process of each worker
    reaped,     \* workers whose end waitpid has reported
    usock,      \* workers whose usock is not -1 in the master
    told,       \* workers whose pipe took CMD_CLOSE
    sock,       \* state of each client connection
    by,         \* the worker it was handed to, or 0
    rridx,      \* the round-robin index (workers count from 0 in the code)
    turns,      \* how often each worker was selected
    nested,     \* stop() was called by a callback of the event loop
    asked,      \* somebody asked the service to stop
    ignores     \* SIGPIPE is ignored in the master (the application's choice)

start == <<forked, connected, tries>>
clients == <<sock, by, rridx, turns>>
control == <<told, nested, asked, ignores>>
vars == <<app, start, child, reaped, usock, clients, control>>

SockStates == {"waiting", "held", "sent", "served", "done", "dropped", "refused"}
Booting == {"starting", "listening"}
Alive(w) == child[w] \in Booting \cup {"running"}
Ended(w) == child[w] \in {"exited", "signaled", "killed"}

Held == {s \in Socks : sock[s] = "held"}
Queue(w) == {s \in Socks : sock[s] = "sent" /\ by[s] = w}

-----------------------------------------------------------------------------
(* app_t::start.                                                           *)

Fork ==
    /\ app = "starting" /\ forked < N
    /\ \/ /\ forked' = forked + 1
          /\ child' = [child EXCEPT ![forked + 1] = "starting"]
          /\ UNCHANGED app
       \/ /\ app' = "failed"
          /\ UNCHANGED <<forked, child>>
    /\ UNCHANGED <<connected, tries, reaped, usock, clients, control>>

(* A worker binds its unix socket and waits in accept() for the master.    *)
Listen(w) ==
    /\ child[w] = "starting"
    /\ child' = [child EXCEPT ![w] = "listening"]
    /\ UNCHANGED <<app, start, reaped, usock, clients, control>>

AcceptMaster(w) ==
    /\ child[w] = "listening" /\ w \in usock
    /\ child' = [child EXCEPT ![w] = "running"]
    /\ UNCHANGED <<app, start, reaped, usock, clients, control>>

(* A mutated Connect: there is no last attempt.                            *)
ConnectForever ==
    /\ app = "starting" /\ forked = N /\ connected < N
    /\ LET w == connected + 1
       IN IF child[w] = "listening"
          THEN /\ usock' = usock \cup {w}
               /\ connected' = w
               /\ tries' = 0
               /\ app' = IF w = N THEN "running" ELSE app
          ELSE tries' = tries + 1 /\ UNCHANGED <<app, usock, connected>>
    /\ UNCHANGED <<forked, child, reaped, clients, control>>

(* One attempt to connect; the fifth that fails ends start() with -1.      *)
(* After the last worker the listeners are opened.                         *)
Connect ==
    /\ app = "starting" /\ forked = N /\ connected < N
    /\ LET w == connected + 1
       IN IF child[w] = "listening"
          THEN /\ usock' = usock \cup {w}
               /\ connected' = w
               /\ tries' = 0
               /\ app' = IF w = N THEN "running" ELSE app
          ELSE /\ tries' = tries + 1
               /\ app' = IF tries' >= Tries THEN "failed" ELSE app
               /\ UNCHANGED <<usock, connected>>
    /\ UNCHANGED <<forked, child, reaped, clients, control>>

-----------------------------------------------------------------------------
(* listener::master_listen_cb.  The callback does not return while the     *)
(* socket to the worker is full: the connection is "held" meanwhile.       *)

(* A mutated Send: a full socket is taken for an error.                    *)
SendDropsWhenFull(s, w) ==
    /\ sock' = [sock EXCEPT ![s] = IF w \in usock /\ Alive(w)
                                      /\ Cardinality(Queue(w)) < Room
                                   THEN "sent" ELSE "dropped"]
    /\ usock' = IF Ended(w) THEN usock \ {w} ELSE usock

(* A mutated Send: EPIPE is tried again like EAGAIN.                       *)
SendRetriesEpipe(s, w) ==
    /\ sock' = [sock EXCEPT ![s] =
                  CASE w \notin usock                                -> "dropped"
                    [] Ended(w) \/ Cardinality(Queue(w)) >= Room     -> "held"
                    [] OTHER                                         -> "sent"]
    /\ UNCHANGED usock

(* The sendmsg loop: no socket, the connection is closed; a full one, try  *)
(* again; a worker that has ended, EPIPE, and the attempt to connect anew  *)
(* fails because nobody listens, which leaves -1 for the next time.  Any   *)
(* other errno of sendmsg (the kernel is out of buffers or of descriptors  *)
(* in flight), and an exception, close the connection while the worker     *)
(* lives: it is "refused".                                                 *)
Send(s, w) ==
    \/ /\ sock' = [sock EXCEPT ![s] =
                     CASE w \notin usock \/ Ended(w)    -> "dropped"
                       [] Cardinality(Queue(w)) >= Room -> "held"
                       [] OTHER                         -> "sent"]
       /\ usock' = IF Ended(w) THEN usock \ {w} ELSE usock
    \/ /\ w \in usock /\ ~Ended(w)
       /\ sock' = [sock EXCEPT ![s] = "refused"]
       /\ UNCHANGED usock

(* The event loop of the master runs: in start(), or in stop() when that   *)
(* was not called from the loop (libevent refuses a second loop).          *)
LoopRuns ==
    /\ app = "running" \/ (app = "stopping" /\ ~nested)
    /\ Held = {}

(* A mutated NextIndex: the last worker is passed over.                    *)
NextIndexSkipsLast == IF rridx + 1 >= N - 1 THEN 0 ELSE rridx + 1

NextIndex == IF rridx + 1 >= N THEN 0 ELSE rridx + 1

(* Every worker is an http_worker_t, and is_valid() until stop() ends.     *)
Dispatch(s) ==
    /\ LoopRuns
    /\ sock[s] = "waiting" /\ \A r \in Socks : r < s => sock[r] # "waiting"
    /\ rridx' = NextIndex
    /\ LET w == rridx' + 1
       IN /\ by' = [by EXCEPT ![s] = w]
          /\ turns' = [turns EXCEPT ![w] = @ + 1]
          /\ Send(s, w)
    /\ UNCHANGED <<app, start, child, reaped, control>>

Retry(s) ==
    /\ sock[s] = "held" /\ app \in {"running", "stopping"}
    /\ Send(s, by[s])
    /\ UNCHANGED <<app, start, child, reaped, by, rridx, turns, control>>

(* on_http_worker_accept: the worker makes a connection of the socket.     *)
Receive(s) ==
    /\ sock[s] = "sent" /\ child[by[s]] = "running"
    /\ sock' = [sock EXCEPT ![s] = "served"]
    /\ UNCHANGED <<app, start, child, reaped, usock, by, rridx, turns, control>>

(* The connection ends, for the reasons that module Connection has.        *)
Finish(s) ==
    /\ sock[s] = "served"
    /\ sock' = [sock EXCEPT ![s] = "done"]
    /\ UNCHANGED <<app, start, child, reaped, usock, by, rridx, turns, control>>

-----------------------------------------------------------------------------
(* The end of a worker's process: its descriptors are closed, and with     *)
(* them the connections it has or has yet to receive.                      *)
End(w, how) ==
    /\ child' = [child EXCEPT ![w] = how]
    /\ sock' = [s \in Socks |->
                  CASE by[s] = w /\ sock[s] = "sent"   -> "dropped"
                    [] by[s] = w /\ sock[s] = "served" -> "done"
                    [] OTHER                           -> sock[s]]

(* exit() by the application, a signal such as SIGSEGV, SIGKILL or SIGINT. *)
Die(w) ==
    /\ Alive(w)
    /\ \E how \in {"exited", "signaled", "killed"} : End(w, how)
    /\ UNCHANGED <<app, start, reaped, usock, by, rridx, turns, control>>

(* A worker reads CMD_CLOSE: worker_t::stop ends in exit(0).               *)
Close(w) ==
    /\ child[w] = "running" /\ w \in told
    /\ End(w, "exited")
    /\ UNCHANGED <<app, start, reaped, usock, by, rridx, turns, control>>

(* close_service() in a worker: CMD_CLOSE_APP.  A full pipe loses it, and  *)
(* StopOnRequest then never happens.                                       *)
CloseService(w) ==
    /\ child[w] = "running"
    /\ asked' = TRUE
    /\ UNCHANGED <<app, start, child, reaped, usock, clients, told, nested,
                   ignores>>

-----------------------------------------------------------------------------
(* app_t::stop, up to its loop: CMD_CLOSE is written to every worker.  A   *)
(* full pipe refuses the command, which nobody looks at.  The pipe of a    *)
(* worker that has ended has no reader, and the master dies of SIGPIPE     *)
(* unless it ignores that signal.                                          *)
BeginStop(inLoop) ==
    LET broken == {w \in Workers : Ended(w)}
        dies == ~ignores /\ broken # {}
    IN /\ app' = IF dies THEN "dead" ELSE "stopping"
       /\ told' \in SUBSET IF dies THEN {w \in Workers : \A b \in broken : w < b}
                            ELSE Workers
       /\ nested' = inLoop
       /\ UNCHANGED <<start, child, usock, clients, ignores>>

(* The master reads CMD_CLOSE_APP, breaks the loop, and start() stops.     *)
StopOnRequest ==
    /\ app = "running" /\ Held = {} /\ asked
    /\ BeginStop(FALSE)
    /\ UNCHANGED <<reaped, asked>>

(* A callback of the application calls stop().                             *)
StopCall ==
    /\ app = "running" /\ Held = {}
    /\ asked' = TRUE
    /\ BeginStop(TRUE)
    /\ UNCHANGED reaped

(* A mutated Verify: no raise(SIGINT).                                     *)
VerifyOnlyLogs ==
    /\ app = "running" /\ Held = {}
    /\ \E w \in Workers : Ended(w) /\ w \notin reaped /\ reaped' = reaped \cup {w}
    /\ UNCHANGED <<app, start, child, usock, clients, control>>

(* _verify_child_processes, every second: one worker that has ended.  The  *)
(* code that would start another one is not reached.                       *)
Verify ==
    /\ app = "running" /\ Held = {}
    /\ \E w \in Workers \ reaped :
         /\ Ended(w)
         /\ reaped' = reaped \cup {w}
         /\ IF child[w] = "killed"
            THEN UNCHANGED <<app, start, child, usock, clients, control>>
            ELSE BeginStop(TRUE) /\ UNCHANGED asked

(* A mutated StopPoll: the end of a worker is not waited for.              *)
StopPollNeverReaps ==
    /\ app = "stopping" /\ Held = {}
    /\ app' = IF \A w \in Workers \ reaped : child[w] \notin {"signaled", "killed"}
              THEN "stopped" ELSE app
    /\ UNCHANGED <<start, child, reaped, usock, clients, control>>

(* One round of the loop of stop().  A worker that is alive (waitpid       *)
(* returns 0) counts as dead, one that a signal has ended does not in the  *)
(* round that reaps it.                                                    *)
StopPoll ==
    /\ app = "stopping" /\ Held = {}
    /\ LET signaled == {w \in Workers \ reaped : child[w] \in {"signaled", "killed"}}
           seen == {w \in Workers : \A b \in signaled : w <= b}
       IN /\ reaped' = reaped \cup {w \in seen : Ended(w)}
          /\ app' = IF signaled = {} THEN "stopped" ELSE app
    /\ UNCHANGED <<start, child, usock, clients, control>>

(* The loop waited for 30 seconds, which it can only in the event loop.    *)
StopTimeout ==
    /\ app = "stopping" /\ Held = {} /\ ~nested
    /\ app' = "stopped"
    /\ child' = [w \in Workers |-> IF Alive(w) THEN "killed" ELSE child[w]]
    /\ sock' = [s \in Socks |->
                  CASE sock[s] = "sent"   -> "dropped"
                    [] sock[s] = "served" -> "done"
                    [] OTHER              -> sock[s]]
    /\ UNCHANGED <<start, reaped, usock, by, rridx, turns, control>>

-----------------------------------------------------------------------------
Init ==
    /\ app = "starting"
    /\ forked = 0 /\ connected = 0 /\ tries = 0
    /\ child = [w \in Workers |-> "none"]
    /\ reaped = {} /\ usock = {} /\ told = {}
    /\ sock = [s \in Socks |-> "waiting"]
    /\ by = [s \in Socks |-> 0]
    /\ rridx = FirstIndex
    /\ turns = [w \in Workers |-> 0]
    /\ nested = FALSE /\ asked = FALSE
    /\ ignores \in BOOLEAN

Master == Fork \/ Connect \/ StopOnRequest \/ Verify \/ StopPoll
Worker(w) == Listen(w) \/ AcceptMaster(w) \/ Close(w)
Client(s) == Retry(s) \/ Receive(s)

Next ==
    \/ Master \/ StopCall \/ StopTimeout
    \/ \E w \in Workers : Worker(w) \/ Die(w) \/ CloseService(w)
    \/ \E s \in Socks : Client(s) \/ Dispatch(s) \/ Finish(s)

Spec == Init /\ [][Next]_vars

(* The processes keep running: the master goes through start() and stop(), *)
(* wakes up every second for the workers that have ended, and tries again  *)
(* to send; a worker starts, and reads its sockets and its pipe.           *)
FairSpec ==
    /\ Spec
    /\ WF_vars(Fork) /\ WF_vars(Connect) /\ WF_vars(Verify) /\ WF_vars(StopPoll)
    /\ \A w \in Workers : WF_vars(Worker(w))
    /\ \A s \in Socks : WF_vars(Client(s))

-----------------------------------------------------------------------------
(* Properties.                                                             *)

(* Every variable keeps its shape, and start() gives up in time.           *)
TypeOK ==
    /\ app \in {"starting", "failed", "running", "stopping", "stopped", "dead"}
    /\ forked \in 0..N /\ connected \in 0..N /\ tries \in 0..Tries
    /\ child \in [Workers -> Booting
                    \cup {"none", "running", "exited", "signaled", "killed"}]
    /\ reaped \subseteq Workers
    /\ usock \subseteq Workers
    /\ told \subseteq Workers
    /\ sock \in [Socks -> SockStates]
    /\ by \in [Socks -> 0..N]
    /\ rridx \in Nat
    /\ turns \in [Workers -> Nat]
    /\ nested \in BOOLEAN /\ asked \in BOOLEAN /\ ignores \in BOOLEAN

(* The round robin is fair: however often connections come, and whichever  *)
(* workers fail, no worker is selected twice more than another.            *)
Balanced == \A v, w \in Workers : turns[v] <= turns[w] + 1

(* The dispatcher loses no connection of its own accord: one that no       *)
(* worker has served was handed to a worker that has ended, or sendmsg     *)
(* itself failed for it ("refused").  However slow the workers read and    *)
(* however full their sockets are, EAGAIN costs no connection, and a       *)
(* refused one takes no other with it.                                     *)
DroppedByTheDead ==
    \A s \in Socks : sock[s] = "dropped" => by[s] # 0 /\ Ended(by[s])

(* A client connection that was accepted is served or closed in the end.   *)
EveryConnectionSettled ==
    \A s \in Socks : sock[s] \in {"held", "sent"}
                        ~> sock[s] \in {"served", "done", "dropped", "refused"}

(* A worker that ends of its own, or by a signal other than SIGKILL and    *)
(* SIGINT, ends the service ("enable master shutdown").                    *)
CrashEndsService ==
    \A w \in Workers : (app = "running" /\ child[w] \in {"exited", "signaled"})
                          ~> app # "running"

(* stop() comes to its end, and so does every worker whose pipe took       *)
(* CMD_CLOSE, unless SIGPIPE has ended the master.                         *)
ShutdownCompletes ==
    app = "stopping" ~> app = "stopped" /\ \A w \in told : Ended(w)

(* When stop() has ended ("Service stopped"), no worker is left: those     *)
(* that are still there after the 30 seconds it waits are killed.          *)
StoppedMeansDead == app = "stopped" => \A w \in Workers : ~Alive(w)

(* A worker that crashes is started again ("enable child respawn"), unless *)
(* somebody has asked the service to stop.                                 *)
CrashedIsRespawned ==
    \A w \in Workers : (app = "running" /\ child[w] = "signaled")
                          ~> (child[w] = "running" \/ asked)

=============================================================================
