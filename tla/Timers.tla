------------------------------- MODULE Timers -------------------------------
(***************************************************************************)
(* The timers of events.h: set_timeout, set_interval, the functions that   *)
(* clear them, and the registry named_events() in which they are found by  *)
(* name.                                                                   *)
(*                                                                         *)
(* A timer is an event_wrapper, a shared object with three kinds of owner: *)
(* _ewt, which it makes for itself as long as it is armed, the registry,   *)
(* and the application, which may keep the pointer that set_timeout        *)
(* returned.  Its destructor stops it again, and stop() takes the name out *)
(* of the registry whichever timer is registered under it.                 *)
(***************************************************************************)
EXTENDS Naturals, Sequences

CONSTANTS Names,       \* names the application gives to timers
          MaxTimers    \* bound on the timers ever set

ASSUME MaxTimersAssumption == MaxTimers \in Nat

(* The prefixes of the names: "to:" and "iv:".                             *)
Kinds == {"timeout", "interval"}
Keys == Kinds \X Names

VARIABLES key,        \* the kind and the name of each timer ever set
          armed,      \* ev is not null
          pending,    \* libevent has yet to run it
          registry,   \* named_events(): key to timer, 0 where there is none
          kept,       \* the application holds the pointer
          running,    \* the timer whose callback is being run, or 0
          cleared,    \* stopped by the application
          careful     \* how the application chooses names: TRUE when it uses
                      \* one again only after every timer that had it is
                      \* gone, FALSE when it uses any

vars == <<key, armed, pending, registry, kept, running, cleared, careful>>

Kind(i) == key[i][1]

-----------------------------------------------------------------------------
(* A mutated Stop: the name stays in the registry.                         *)
StopForgetsName(i) ==
    /\ armed' = armed \ {i}
    /\ pending' = pending \ {i}
    /\ UNCHANGED registry

(* A mutated Stop: the event is freed and stays in the loop.               *)
StopWithoutDel(i) ==
    /\ armed' = armed \ {i}
    /\ registry' = [registry EXCEPT ![key[i]] = 0]
    /\ UNCHANGED pending

(* stop(), and the destruction of the object when nobody else holds it.    *)
(* The name leaves the registry, whichever timer it leads to.              *)
Stop(i) ==
    /\ armed' = armed \ {i}
    /\ pending' = pending \ {i}
    /\ registry' = [registry EXCEPT ![key[i]] = 0]

(* The application may set a timer under this key.                         *)
Reusable(k) ==
    /\ registry[k] = 0
    /\ \A i \in kept \cup ({running} \ {0}) : key[i] # k

(* set_timeout and set_interval: the timer is armed, then registered; a    *)
(* name in use throws, which the caller catches, and leaves it armed.      *)
SetTimer ==
    /\ Len(key) < MaxTimers
    /\ \E k \in Keys, keep \in BOOLEAN :
         LET i == Len(key) + 1
             free == registry[k] = 0
         IN /\ careful => Reusable(k)
            /\ key' = Append(key, k)
            /\ armed' = armed \cup {i}
            /\ pending' = pending \cup {i}
            /\ registry' = IF free THEN [registry EXCEPT ![k] = i] ELSE registry
            /\ kept' = IF free /\ keep THEN kept \cup {i} ELSE kept
    /\ UNCHANGED <<running, cleared, careful>>

(* A mutated ClearByName: the event is left in the loop.                   *)
ClearByNameUnregisters ==
    /\ \E k \in Keys :
         /\ registry[k] # 0
         /\ registry' = [registry EXCEPT ![k] = 0]
         /\ cleared' = cleared \cup {registry[k]}
    /\ UNCHANGED <<key, armed, pending, kept, running, careful>>

(* clear_timeout and clear_interval, by name or by pointer (one that was   *)
(* kept, or the one a callback is given); a name that is not registered is *)
(* left alone.                                                             *)
ClearByName ==
    /\ \E k \in Keys :
         /\ registry[k] # 0
         /\ Stop(registry[k])
         /\ cleared' = cleared \cup {registry[k]}
    /\ UNCHANGED <<key, kept, running, careful>>

ClearByPointer ==
    /\ \E i \in kept \cup ({running} \ {0}) :
         /\ Stop(i)
         /\ cleared' = cleared \cup {i}
    /\ UNCHANGED <<key, kept, running, careful>>

(* clear_events, clear_timeouts and clear_intervals: everything of the     *)
(* kinds in question is taken out of the registry and then stopped.        *)
ClearAll ==
    /\ \E kinds \in {Kinds, {"timeout"}, {"interval"}} :
         LET gone == {i \in armed : registry[key[i]] = i /\ Kind(i) \in kinds}
         IN /\ registry' = [k \in Keys |-> IF k[1] \in kinds THEN 0
                                                           ELSE registry[k]]
            /\ armed' = armed \ gone
            /\ pending' = pending \ gone
            /\ cleared' = cleared \cup gone
    /\ UNCHANGED <<key, kept, running, careful>>

(* A callback keeps the pointer it is given.                               *)
Keep ==
    /\ running # 0
    /\ kept' = kept \cup {running}
    /\ UNCHANGED <<key, armed, pending, registry, running, cleared, careful>>

(* The application lets go of a pointer; the last owner destroys the timer,*)
(* and the destructor calls stop().                                        *)
Drop ==
    /\ \E i \in kept :
         /\ kept' = kept \ {i}
         /\ IF i \in armed \/ i = running
            THEN UNCHANGED <<armed, pending, registry>>
            ELSE Stop(i)
    /\ UNCHANGED <<key, running, cleared, careful>>

-----------------------------------------------------------------------------
(* The event loop: the callback of a timer that has expired, and what      *)
(* follows it.  An interval stays pending.                                 *)
Fire(i) ==
    /\ running = 0
    /\ i \in pending
    /\ running' = i
    /\ pending' = IF Kind(i) = "timeout" THEN pending \ {i} ELSE pending
    /\ UNCHANGED <<key, armed, registry, kept, cleared, careful>>

(* A mutated Return: a timeout is not stopped after its callback.          *)
ReturnWithoutStop ==
    /\ running # 0
    /\ running' = 0
    /\ UNCHANGED <<key, armed, pending, registry, kept, cleared, careful>>

(* The callback returns: a timeout is stopped, and a timer that nobody     *)
(* holds any more is destroyed.                                            *)
Return ==
    /\ running # 0
    /\ IF Kind(running) = "timeout" \/ (running \notin armed /\ running \notin kept)
       THEN Stop(running)
       ELSE UNCHANGED <<armed, pending, registry>>
    /\ running' = 0
    /\ UNCHANGED <<key, kept, cleared, careful>>

-----------------------------------------------------------------------------
Init ==
    /\ key = <<>>
    /\ armed = {}
    /\ pending = {}
    /\ registry = [k \in Keys |-> 0]
    /\ kept = {}
    /\ running = 0
    /\ cleared = {}
    /\ careful \in BOOLEAN

Loop == Return \/ \E i \in 1..Len(key) : Fire(i)

Next == \/ SetTimer \/ ClearByName \/ ClearByPointer \/ ClearAll \/ Keep
        \/ Drop \/ Loop

Spec == Init /\ [][Next]_vars

(* Callbacks return, and the loop runs the callback of every timer that    *)
(* has expired, in the order of their times, before it waits again: no     *)
(* timer is passed over forever.                                           *)
FairSpec ==
    /\ Spec
    /\ WF_vars(Return)
    /\ \A i \in 1..MaxTimers : SF_vars(i <= Len(key) /\ Fire(i))

-----------------------------------------------------------------------------
(* Properties.                                                             *)

(* Every variable keeps its shape, and libevent runs no event that was     *)
(* freed.                                                                  *)
TypeOK ==
    /\ key \in Seq(Keys) /\ Len(key) <= MaxTimers
    /\ armed \subseteq 1..Len(key)
    /\ pending \subseteq armed
    /\ registry \in [Keys -> 0..Len(key)]
    /\ kept \subseteq 1..Len(key)
    /\ running \in 0..Len(key)
    /\ cleared \subseteq 1..Len(key)
    /\ careful \in BOOLEAN

(* A name in the registry leads to a timer that has this name and whose    *)
(* event exists, so clear_timeout(name) never stops a freed event, however *)
(* names are reused.                                                       *)
RegisteredIsArmed ==
    \A k \in Keys : registry[k] # 0
        => registry[k] \in armed /\ key[registry[k]] = k

(* An application that is careful with its names can find every timer that *)
(* may still run under its name, and clear it.                             *)
ArmedIsRegistered ==
    careful => \A i \in armed : registry[key[i]] = i

(* The callback of a timer that was cleared is not called, not even when   *)
(* its time had come.                                                      *)
ClearedNeverFires ==
    [][running' # running /\ running' # 0 => running' \notin cleared]_vars

(* A timeout's event is freed in the end, by its own callback or by a      *)
(* clear.                                                                  *)
TimeoutReleased ==
    \A i \in 1..MaxTimers :
        (i \in pending /\ Kind(i) = "timeout") ~> i \notin armed

(* A name has one timer: register_event() refuses a second one ("Event:    *)
(* '{}' is already registered!").                                          *)
OneTimerPerName ==
    \A i, j \in armed : key[i] = key[j] => i = j

=============================================================================
