---------------------------- MODULE TimersProofs ----------------------------
(***************************************************************************)
(* The registry of timers, for any names and any number of timers.         *)
(***************************************************************************)
EXTENDS Timers, TLAPS

(* A careful application never holds, or runs, a timer whose name another  *)
(* armed timer has: stop() then takes no registration but the timer's own. *)
Separate ==
    careful => \A i \in kept \cup {running}, j \in armed :
                   i # 0 /\ key[i] = key[j] => i = j

NotCleared == cleared \cap armed = {}

Inv == /\ TypeOK /\ RegisteredIsArmed /\ ArmedIsRegistered /\ Separate
       /\ NotCleared

LEMMA InitInv == Init => Inv
<1> SUFFICES ASSUME Init PROVE Inv
  OBVIOUS
<1>1. careful \in BOOLEAN
  BY DEF Init
<1>2. TypeOK
  BY <1>1, MaxTimersAssumption DEF Init, TypeOK
<1> QED
  BY <1>2 DEF Init, Inv, RegisteredIsArmed, ArmedIsRegistered, Separate,
     NotCleared

(* stop() of a timer the application can reach.                            *)
LEMMA StopInv ==
    ASSUME Inv, NEW i \in 1..Len(key), Stop(i),
           i \in armed \/ i \in kept \/ i = running,
           UNCHANGED <<key, careful>>,
           kept' \subseteq kept, running' \in {0, running},
           cleared' \subseteq cleared \cup {i}
    PROVE  Inv'
<1>0. key[i] \in Keys /\ Len(key) \in Nat
  BY DEF Inv, TypeOK
<1>1. TypeOK'
  <2>1. careful' \in BOOLEAN
    BY Zenon DEF Inv, TypeOK
  <2>2. registry' \in [Keys -> 0..Len(key)]
    BY <1>0 DEF Stop, Inv, TypeOK
  <2>3. running' \in 0..Len(key)
    BY <1>0 DEF Inv, TypeOK
  <2> QED
    BY <2>1, <2>2, <2>3 DEF Stop, Inv, TypeOK
<1>2. \A k \in Keys : registry'[k] = IF k = key[i] THEN 0 ELSE registry[k]
  BY <1>0 DEF Stop, Inv, TypeOK
<1>3. RegisteredIsArmed'
  BY <1>0, <1>2 DEF Stop, Inv, TypeOK, RegisteredIsArmed
<1>4. NotCleared'
  BY DEF Stop, Inv, NotCleared
<1>5. Separate'
  BY DEF Stop, Inv, Separate
<1>6. ArmedIsRegistered'
  <2> SUFFICES ASSUME careful, NEW j \in armed' PROVE registry'[key[j]] = j
    BY DEF ArmedIsRegistered
  <2>1. j \in armed /\ j # i /\ j \in 1..Len(key) /\ key[j] \in Keys /\ i # 0
    BY <1>0 DEF Stop, Inv, TypeOK
  <2>2. registry[key[j]] = j
    BY <2>1 DEF Inv, ArmedIsRegistered
  <2>3. key[j] # key[i]
    <3>1. CASE i \in armed
      BY <2>1, <2>2, <3>1 DEF Inv, ArmedIsRegistered
    <3>2. CASE i \in kept \/ i = running
      BY <2>1, <3>2 DEF Inv, Separate
    <3> QED
      BY <3>1, <3>2
  <2> QED
    BY <1>2, <2>1, <2>2, <2>3
<1> QED
  BY <1>1, <1>3, <1>4, <1>5, <1>6 DEF Inv

LEMMA SetTimerInv == ASSUME Inv, SetTimer PROVE Inv'
<1> DEFINE i == Len(key) + 1
<1>1. PICK k \in Keys, keep \in BOOLEAN :
        /\ careful => Reusable(k)
        /\ key' = Append(key, k)
        /\ armed' = armed \cup {i}
        /\ pending' = pending \cup {i}
        /\ registry' = IF registry[k] = 0 THEN [registry EXCEPT ![k] = i] ELSE registry
        /\ kept' = IF registry[k] = 0 /\ keep THEN kept \cup {i} ELSE kept
  BY DEF SetTimer
<1>2. UNCHANGED <<running, cleared, careful>> /\ Len(key) < MaxTimers
  BY DEF SetTimer
<1>3. /\ Len(key) \in Nat /\ i \in Nat /\ Len(key') = i /\ key' \in Seq(Keys)
      /\ \A j \in 1..Len(key) : key'[j] = key[j] /\ key[j] \in Keys
      /\ key'[i] = k
      /\ armed \subseteq 1..Len(key) /\ pending \subseteq armed
      /\ kept \subseteq 1..Len(key) /\ cleared \subseteq 1..Len(key)
      /\ running \in 0..Len(key)
      /\ registry \in [Keys -> 0..Len(key)]
  BY <1>1 DEF Inv, TypeOK
<1>4. kept' \subseteq kept \cup {i}
  BY <1>1
<1>5. registry' \in [Keys -> 0..i]
  BY <1>1, <1>3
<1> HIDE DEF i
<1>6. TypeOK'
  <2>1. careful' \in BOOLEAN
    BY <1>2, Zenon DEF Inv, TypeOK
  <2>2. i <= MaxTimers
    BY <1>2, <1>3, MaxTimersAssumption DEF i
  <2>3. 1..Len(key) \subseteq 1..i /\ 0..Len(key) \subseteq 0..i /\ i \in 1..i
    BY <1>3 DEF i
  <2> QED
    BY <1>1, <1>2, <1>3, <1>4, <1>5, <2>1, <2>2, <2>3 DEF TypeOK
<1>7. i \notin 1..Len(key) /\ i # 0
  BY <1>3 DEF i
<1>8. RegisteredIsArmed'
  <2> SUFFICES ASSUME NEW x \in Keys, registry'[x] # 0
               PROVE  registry'[x] \in armed' /\ key'[registry'[x]] = x
    BY DEF RegisteredIsArmed
  <2>1. CASE registry'[x] = registry[x]
    <3>1. registry[x] \in armed /\ key[registry[x]] = x
      BY <2>1 DEF Inv, RegisteredIsArmed
    <3> QED
      BY <1>1, <1>3, <2>1, <3>1
  <2>2. CASE registry'[x] # registry[x]
    <3>1. x = k /\ registry'[x] = i
      BY <1>1, <1>3, <2>2
    <3> QED
      BY <1>1, <1>3, <3>1
  <2> QED
    BY <2>1, <2>2
<1>9. ASSUME careful PROVE /\ registry[k] = 0
                           /\ \A j \in armed : key[j] # k
                           /\ \A j \in kept \cup {running} : j # 0 => key[j] # k
  <2>1. Reusable(k)
    BY <1>1, <1>9
  <2>2. \A j \in armed : key[j] # k
    <3> SUFFICES ASSUME NEW j \in armed, key[j] = k PROVE FALSE
      OBVIOUS
    <3>1. registry[k] = j
      BY <1>9 DEF Inv, ArmedIsRegistered
    <3> QED
      BY <1>3, <2>1, <3>1 DEF Reusable
  <2> QED
    BY <2>1, <2>2 DEF Reusable
<1>10. ArmedIsRegistered'
  <2> SUFFICES ASSUME careful, NEW j \in armed' PROVE registry'[key'[j]] = j
    BY <1>2 DEF ArmedIsRegistered
  <2>1. registry' = [registry EXCEPT ![k] = i]
    BY <1>1, <1>9
  <2>2. CASE j = i
    BY <1>3, <2>1, <2>2
  <2>3. CASE j \in armed
    <3>1. key'[j] = key[j] /\ key[j] \in Keys /\ key[j] # k
      BY <1>3, <1>9, <2>3
    <3>2. registry[key[j]] = j
      BY <2>3 DEF Inv, ArmedIsRegistered
    <3> QED
      BY <1>3, <2>1, <3>1, <3>2
  <2> QED
    BY <1>1, <2>2, <2>3
<1>11. Separate'
  <2> SUFFICES ASSUME careful, NEW x \in kept' \cup {running}, NEW j \in armed',
                      x # 0, key'[x] = key'[j]
               PROVE  x = j
    BY <1>2 DEF Separate
  <2>1. CASE x = i /\ j \in armed
    BY <1>3, <1>9, <2>1
  <2>2. CASE x # i /\ j = i
    <3>1. x \in kept \cup {running} /\ x \in 1..Len(key)
      BY <1>3, <1>4, <2>2
    <3> QED
      BY <1>3, <1>9, <2>2, <3>1
  <2>3. CASE x # i /\ j \in armed
    <3>1. x \in kept \cup {running} /\ x \in 1..Len(key)
      BY <1>3, <1>4, <2>3
    <3>2. key[x] = key[j]
      BY <1>3, <2>3, <3>1
    <3> QED
      BY <2>3, <3>1, <3>2 DEF Inv, Separate
  <2>4. CASE x = i /\ j = i
    BY <2>4
  <2> QED
    BY <1>1, <2>1, <2>2, <2>3, <2>4
<1>12. NotCleared'
  BY <1>1, <1>2, <1>3, <1>7 DEF Inv, NotCleared
<1> QED
  BY <1>6, <1>8, <1>10, <1>11, <1>12 DEF Inv

LEMMA ClearAllInv == ASSUME Inv, ClearAll PROVE Inv'
<1>1. PICK kinds \in {Kinds, {"timeout"}, {"interval"}} :
        LET gone == {i \in armed : registry[key[i]] = i /\ Kind(i) \in kinds}
        IN /\ registry' = [k \in Keys |-> IF k[1] \in kinds THEN 0 ELSE registry[k]]
           /\ armed' = armed \ gone
           /\ pending' = pending \ gone
           /\ cleared' = cleared \cup gone
  BY DEF ClearAll
<1> DEFINE gone == {i \in armed : registry[key[i]] = i /\ Kind(i) \in kinds}
<1>2. UNCHANGED <<key, kept, running, careful>>
  BY DEF ClearAll
<1>3. /\ \A k \in Keys : registry'[k] = IF k[1] \in kinds THEN 0 ELSE registry[k]
      /\ armed' = armed \ gone /\ pending' = pending \ gone
      /\ cleared' = cleared \cup gone
  BY <1>1
<1>4. \A i \in armed : key[i] \in Keys
  BY DEF Inv, TypeOK
<1>5. TypeOK'
  <2>1. careful' \in BOOLEAN
    BY <1>2, Zenon DEF Inv, TypeOK
  <2>2. registry' \in [Keys -> 0..Len(key)]
    BY <1>1 DEF Inv, TypeOK
  <2>3. gone \subseteq 1..Len(key)
    BY DEF Inv, TypeOK
  <2> HIDE DEF gone
  <2> QED
    BY <1>2, <1>3, <2>1, <2>2, <2>3 DEF Inv, TypeOK
<1>6. RegisteredIsArmed'
  <2> SUFFICES ASSUME NEW k \in Keys, registry'[k] # 0
               PROVE  registry'[k] \in armed' /\ key[registry'[k]] = k
    BY <1>2 DEF RegisteredIsArmed
  <2>1. registry'[k] = registry[k] /\ k[1] \notin kinds
    BY <1>3
  <2>2. registry[k] \in armed /\ key[registry[k]] = k
    BY <2>1 DEF Inv, RegisteredIsArmed
  <2> QED
    BY <1>3, <2>1, <2>2 DEF Kind
<1>7. ArmedIsRegistered'
  <2> SUFFICES ASSUME careful, NEW i \in armed' PROVE registry'[key[i]] = i
    BY <1>2 DEF ArmedIsRegistered
  <2>1. i \in armed /\ registry[key[i]] = i
    BY <1>3 DEF Inv, ArmedIsRegistered
  <2>2. key[i][1] \notin kinds
    BY <1>3, <2>1 DEF Kind
  <2> QED
    BY <1>3, <1>4, <2>1, <2>2
<1>8. Separate' /\ NotCleared'
  BY <1>2, <1>3 DEF Inv, Separate, NotCleared
<1> QED
  BY <1>5, <1>6, <1>7, <1>8 DEF Inv

LEMMA FireInv == ASSUME Inv, NEW i \in 1..Len(key), Fire(i) PROVE Inv'
<1>1. /\ running' = i /\ pending' \subseteq pending /\ i \in armed /\ i # 0
      /\ UNCHANGED <<key, armed, registry, kept, cleared, careful>>
  BY DEF Fire, Inv, TypeOK
<1>2. TypeOK'
  <2>1. careful' \in BOOLEAN
    BY <1>1, Zenon DEF Inv, TypeOK
  <2>2. i \in 0..Len(key)
    BY DEF Inv, TypeOK
  <2> QED
    BY <1>1, <2>1, <2>2 DEF Inv, TypeOK
<1>3. RegisteredIsArmed' /\ ArmedIsRegistered' /\ NotCleared'
  BY <1>1 DEF Inv, RegisteredIsArmed, ArmedIsRegistered, NotCleared
<1>4. Separate'
  BY <1>1 DEF Inv, Separate, ArmedIsRegistered
<1> QED
  BY <1>2, <1>3, <1>4 DEF Inv

(* Letting go of a pointer, or of a callback, without stopping the timer.  *)
LEMMA ReleaseInv ==
    ASSUME Inv, UNCHANGED <<key, armed, pending, registry, cleared, careful>>,
           kept' \subseteq kept \cup ({running} \ {0}), running' \in {0, running}
    PROVE  Inv'
<1>1. TypeOK'
  <2>1. careful' \in BOOLEAN
    BY Zenon DEF Inv, TypeOK
  <2>2. running' \in 0..Len(key)
    BY DEF Inv, TypeOK
  <2> QED
    BY <2>1, <2>2 DEF Inv, TypeOK
<1>2. RegisteredIsArmed' /\ ArmedIsRegistered' /\ NotCleared' /\ Separate'
  BY DEF Inv, RegisteredIsArmed, ArmedIsRegistered, NotCleared, Separate
<1> QED
  BY <1>1, <1>2 DEF Inv

LEMMA NextInv == Inv /\ [Next]_vars => Inv'
<1> SUFFICES ASSUME Inv, [Next]_vars PROVE Inv'
  OBVIOUS
<1>1. CASE SetTimer
  BY <1>1, SetTimerInv
<1>2. CASE ClearByName
  <2>1. PICK k \in Keys : /\ registry[k] # 0
                          /\ Stop(registry[k])
                          /\ cleared' = cleared \cup {registry[k]}
    BY <1>2 DEF ClearByName
  <2>2. UNCHANGED <<key, kept, running, careful>>
    BY <1>2 DEF ClearByName
  <2>3. registry[k] \in armed /\ registry[k] \in 1..Len(key)
    BY <2>1 DEF Inv, RegisteredIsArmed, TypeOK
  <2> QED
    BY <2>1, <2>2, <2>3, StopInv
<1>3. CASE ClearByPointer
  <2>1. PICK i \in kept \cup ({running} \ {0}) : Stop(i) /\ cleared' = cleared \cup {i}
    BY <1>3 DEF ClearByPointer
  <2>2. UNCHANGED <<key, kept, running, careful>>
    BY <1>3 DEF ClearByPointer
  <2>3. i \in 1..Len(key)
    BY DEF Inv, TypeOK
  <2> QED
    BY <2>1, <2>2, <2>3, StopInv
<1>4. CASE ClearAll
  BY <1>4, ClearAllInv
<1>5. CASE Drop
  <2>1. PICK i \in kept :
          /\ kept' = kept \ {i}
          /\ IF i \in armed \/ i = running
             THEN UNCHANGED <<armed, pending, registry>>
             ELSE Stop(i)
    BY <1>5 DEF Drop
  <2>2. UNCHANGED <<key, running, cleared, careful>>
    BY <1>5 DEF Drop
  <2>3. i \in 1..Len(key)
    BY DEF Inv, TypeOK
  <2>4. CASE i \in armed \/ i = running
    BY <2>1, <2>2, <2>4, ReleaseInv
  <2>5. CASE ~(i \in armed \/ i = running)
    BY <2>1, <2>2, <2>3, <2>5, StopInv
  <2> QED
    BY <2>4, <2>5
<1>6. CASE Return
  <2>1. running # 0 /\ running' = 0 /\ UNCHANGED <<key, kept, cleared, careful>>
    BY <1>6 DEF Return
  <2>2. running \in 1..Len(key)
    BY <2>1 DEF Inv, TypeOK
  <2>3. CASE Stop(running)
    BY <2>1, <2>2, <2>3, StopInv
  <2>4. CASE UNCHANGED <<armed, pending, registry>>
    BY <2>1, <2>4, ReleaseInv
  <2> QED
    BY <1>6, <2>3, <2>4 DEF Return
<1>7. CASE Keep
  BY <1>7, ReleaseInv DEF Keep
<1>8. ASSUME NEW i \in 1..Len(key), Fire(i) PROVE Inv'
  BY <1>8, FireInv
<1>9. CASE UNCHANGED vars
  BY <1>9, ReleaseInv DEF vars
<1> QED
  BY <1>1, <1>2, <1>3, <1>4, <1>5, <1>6, <1>7, <1>8, <1>9
  DEF Next, Loop

-----------------------------------------------------------------------------
(* The variables keep their shape and libevent never holds a freed event,  *)
(* whatever the application does with its names.                           *)
THEOREM TypeCorrect == Spec => []TypeOK
<1>1. Inv => TypeOK
  BY DEF Inv
<1> QED
  BY <1>1, InitInv, NextInv, PTL DEF Spec

(* A registered name leads to an armed timer of that name, whatever the    *)
(* application does with its names.                                        *)
THEOREM RegistryIsSound == Spec => []RegisteredIsArmed
<1>1. Inv => RegisteredIsArmed
  BY DEF Inv
<1> QED
  BY <1>1, InitInv, NextInv, PTL DEF Spec

(* A careful application finds every armed timer under its name.           *)
THEOREM RegistryIsComplete == Spec => []ArmedIsRegistered
<1>1. Inv => ArmedIsRegistered
  BY DEF Inv
<1> QED
  BY <1>1, InitInv, NextInv, PTL DEF Spec

(* No callback of a cleared timer is called.                               *)
THEOREM ClearIsFinal == Spec => ClearedNeverFires
<1>1. Inv /\ [Next]_vars
        => [running' # running /\ running' # 0 => running' \notin cleared]_vars
  <2> SUFFICES ASSUME Inv, Next, running' # running, running' # 0
               PROVE  running' \notin cleared
    BY DEF vars
  <2>1. PICK i \in 1..Len(key) : Fire(i)
    BY DEF Next, Loop, SetTimer, ClearByName, ClearByPointer, ClearAll, Keep,
       Drop, Return
  <2> QED
    BY <2>1 DEF Fire, Inv, NotCleared, TypeOK
<1> QED
  BY <1>1, InitInv, NextInv, PTL DEF Spec, ClearedNeverFires

=============================================================================
