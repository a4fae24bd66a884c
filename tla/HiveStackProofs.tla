-------------------------- MODULE HiveStackProofs --------------------------
(***************************************************************************)
(* Who holds which listener, for any networks, slots and bound: a listener *)
(* that is bound or about to be is the one of the stack, or the one that   *)
(* is being started, unless a failed resume has left one behind.           *)
(***************************************************************************)
EXTENDS HiveStack, TLAPS

-----------------------------------------------------------------------------
\* The two halves of TypeOK, each for the prover that can do it.
Booleans == enabled \in BOOLEAN /\ permit \in BOOLEAN /\ leaked \in BOOLEAN
Shapes ==
    /\ trusted \subseteq Networks
    /\ edit \in (SUBSET Networks) \cup {None}
    /\ network \in Networks \cup {None}
    /\ process \in {"down", "starting", "up", "leaving"}
    /\ mode \in {"on", "off", "no key"}
    /\ guard \in [at : {"asleep", "read", "merging", "discovering"},
                  saw : SUBSET Networks, slot : Slots \cup {None}]
    /\ guard.at = "discovering" => guard.slot \in Slots
    /\ stack \in Slots \cup {None}
    /\ listener \in [Slots -> {"free", "binding", "serving", "closing"}]
    /\ stale \subseteq Slots
    /\ view \in {"none", "current", "old"}
    /\ events \in 0..Events

LEMMA Halves == TypeOK <=> Booleans /\ Shapes
BY Zenon DEF TypeOK, Booleans, Shapes

LEMMA HalvesNext == TypeOK' <=> Booleans' /\ Shapes'
BY Halves, PTL

LEMMA Spending == events \in 0..Events /\ (Spend \/ UNCHANGED events) => events' \in 0..Events
BY ConstantsAssumption DEF Spend

LEMMA TypeInit == Init => TypeOK
<1> SUFFICES ASSUME Init PROVE TypeOK
  OBVIOUS
<1>1. Booleans
  BY Zenon DEF Init, Booleans
<1>2. Shapes
  BY ConstantsAssumption DEF Init, Shapes, Asleep, AllFree
<1> QED
  BY <1>1, <1>2, Halves

LEMMA ExitTypeOK == TypeOK /\ Exit /\ (UNCHANGED events \/ Spend) => TypeOK'
<1> SUFFICES ASSUME TypeOK, Exit, UNCHANGED events \/ Spend PROVE TypeOK'
  OBVIOUS
<1>0. Booleans /\ Shapes
  BY Halves
<1>1. Booleans'
  BY <1>0, Zenon DEF Exit, Booleans
<1>2. Shapes'
  BY <1>0, ConstantsAssumption, Spending DEF Exit, Shapes, Asleep, AllFree
<1> QED
  BY <1>1, <1>2, HalvesNext

LEMMA TypeStep == TypeOK /\ [Next]_vars => TypeOK'
<1> SUFFICES ASSUME TypeOK, [Next]_vars PROVE TypeOK'
  OBVIOUS
<1>0. Booleans /\ Shapes
  BY Halves
<1> USE ConstantsAssumption DEF settings, server, sockets, Asleep
<1>1. ASSUME NEW n \in Networks \cup {None}, Move(n) PROVE TypeOK'
  <2>1. Booleans'
    BY <1>0, <1>1, Zenon DEF Booleans, Move, Spend
  <2>2. Shapes'
    BY <1>0, <1>1, Spending DEF Shapes, Move
  <2> QED
    BY <2>1, <2>2, HalvesNext
<1>2. ASSUME NEW n \in Networks, EditRead(n) \/ EditMeanwhile(n) PROVE TypeOK'
  <2>1. Booleans'
    BY <1>0, <1>2, Zenon DEF Booleans, EditRead, EditMeanwhile, Edited, Spend
  <2>2. Shapes'
    BY <1>0, <1>2, Spending DEF Shapes, EditRead, EditMeanwhile, Edited
  <2> QED
    BY <2>1, <2>2, HalvesNext
<1>3. ASSUME NEW b \in BOOLEAN, SetEnabled(b) PROVE TypeOK'
  <2>1. Booleans'
    BY <1>0, <1>3, Zenon DEF Booleans, SetEnabled, Spend
  <2>2. Shapes'
    BY <1>0, <1>3, Spending DEF Shapes, SetEnabled
  <2> QED
    BY <2>1, <2>2, HalvesNext
<1>4. ASSUME RosterChanges PROVE TypeOK'
  <2>1. Booleans'
    BY <1>0, <1>4, Zenon DEF Booleans, RosterChanges, Spend
  <2>2. Shapes'
    BY <1>0, <1>4, Spending DEF Shapes, RosterChanges
  <2> QED
    BY <2>1, <2>2, HalvesNext
<1>5. ASSUME Crash PROVE TypeOK'
  BY <1>5, ExitTypeOK DEF Crash
<1>6. ASSUME SpawnFails PROVE TypeOK'
  <2>1. CASE process = "starting"
    BY <1>6, <2>1, ExitTypeOK DEF SpawnFails
  <2>2. CASE process # "starting"
    <3>1. Booleans'
      BY <1>0, <1>6, <2>2, Zenon DEF Booleans, SpawnFails
    <3>2. /\ guard' = Asleep /\ Spend
          /\ UNCHANGED <<trusted, edit, network, process, mode, stack, listener, stale, view>>
      BY <1>6, <2>2, Zenon DEF SpawnFails
    <3>3. Shapes'
      BY <1>0, <3>2, Spending DEF Shapes
    <3> QED
      BY <3>1, <3>3, HalvesNext
  <2> QED
    BY <2>1, <2>2
<1>7. ASSUME EditWrite PROVE TypeOK'
  <2>1. Booleans'
    BY <1>0, <1>7, Zenon DEF Booleans, EditWrite
  <2>2. Shapes'
    BY <1>0, <1>7 DEF Shapes, EditWrite
  <2> QED
    BY <2>1, <2>2, HalvesNext
<1>8. ASSUME Boot PROVE TypeOK'
  <2>1. Booleans'
    BY <1>0, <1>8, Zenon DEF Booleans, Boot, Spend
  <2>2. /\ mode' \in {"on", "off", "no key"} /\ (Spend \/ UNCHANGED events)
        /\ UNCHANGED <<trusted, edit, network, stack, listener, stale, view>>
    BY <1>8, Zenon DEF Boot
  <2>3. /\ process' \in {"starting", "up"}
        /\ guard' = guard \/ guard' = [guard EXCEPT !.at = "merging"]
    BY <1>8 DEF Boot
  <2>4. Shapes'
    BY <1>0, <2>2, <2>3, Spending DEF Shapes
  <2> QED
    BY <2>1, <2>4, HalvesNext
<1>9. ASSUME Restart PROVE TypeOK'
  <2>1. Booleans'
    BY <1>0, <1>9, Zenon DEF Booleans, Restart
  <2>2. Shapes'
    BY <1>0, <1>9 DEF Shapes, Restart
  <2> QED
    BY <2>1, <2>2, HalvesNext
<1>10. ASSUME Leave PROVE TypeOK'
  BY <1>10, ExitTypeOK DEF Leave
<1>11. ASSUME SpawnDone PROVE TypeOK'
  <2>1. Booleans'
    BY <1>0, <1>11, Zenon DEF Booleans, SpawnDone
  <2>2. Shapes'
    BY <1>0, <1>11 DEF Shapes, SpawnDone
  <2> QED
    BY <2>1, <2>2, HalvesNext
<1>12. ASSUME NEW l \in Slots, SpawnListener(l) PROVE TypeOK'
  <2>1. Booleans'
    BY <1>0, <1>12, Zenon DEF Booleans, SpawnListener
  <2>2. Shapes'
    BY <1>0, <1>12 DEF Shapes, SpawnListener
  <2> QED
    BY <2>1, <2>2, HalvesNext
<1>13. ASSUME NEW l \in Slots, Bind(l) \/ Close(l) PROVE TypeOK'
  <2>1. Booleans'
    BY <1>0, <1>13, Zenon DEF Booleans, Bind, Close
  <2>2. Shapes'
    BY <1>0, <1>13 DEF Shapes, Bind, Close
  <2> QED
    BY <2>1, <2>2, HalvesNext
<1>14. ASSUME GuardRead PROVE TypeOK'
  <2>1. Booleans'
    BY <1>0, <1>14, Zenon DEF Booleans, GuardRead
  <2>2. Shapes'
    BY <1>0, <1>14 DEF Shapes, GuardRead
  <2> QED
    BY <2>1, <2>2, HalvesNext
<1>15. ASSUME GuardKeep \/ GuardPause \/ GuardResume PROVE TypeOK'
  <2>1. Booleans'
    BY <1>0, <1>15, Zenon DEF Booleans, GuardKeep, GuardPause, GuardResume
  <2>2. CASE GuardKeep
    BY <1>0, <2>1, <2>2, HalvesNext DEF Shapes, GuardKeep
  <2>3. CASE GuardPause
    <3>1. listener' \in [Slots -> {"free", "binding", "serving", "closing"}]
      BY <1>0, <2>3 DEF Shapes, GuardPause
    <3>2. stack' = None /\ view' = "none" /\ guard' = Asleep
      BY <2>3 DEF GuardPause
    <3>3. UNCHANGED <<trusted, edit, network, process, mode, stale, events>>
      BY <2>3 DEF GuardPause
    <3>4. Shapes'
      BY <1>0, <3>1, <3>2, <3>3 DEF Shapes
    <3> QED
      BY <2>1, <3>4, HalvesNext
  <2>4. CASE GuardResume
    BY <1>0, <2>1, <2>4, HalvesNext DEF Shapes, GuardResume
  <2> QED
    BY <1>15, <2>2, <2>3, <2>4
<1>16. ASSUME PingRead \/ PingReload PROVE TypeOK'
  <2>1. Booleans'
    BY <1>0, <1>16, Zenon DEF Booleans, PingRead, PingReload
  <2>2. Shapes'
    BY <1>0, <1>16 DEF Shapes, PingRead, PingReload
  <2> QED
    BY <2>1, <2>2, HalvesNext
<1>17. ASSUME UNCHANGED vars PROVE TypeOK'
  <2>1. Booleans'
    BY <1>0, <1>17, Zenon DEF Booleans, vars
  <2>2. Shapes'
    BY <1>0, <1>17 DEF Shapes, vars
  <2> QED
    BY <2>1, <2>2, HalvesNext
<1> QED
  BY <1>1, <1>2, <1>3, <1>4, <1>5, <1>6, <1>7, <1>8, <1>9, <1>10, <1>11, <1>12, <1>13,
     <1>14, <1>15, <1>16, <1>17 DEF Next, World, Spawn, Sockets, GuardDecide

(* Every reachable state is well typed.                                    *)
THEOREM TypeCorrect == Spec => []TypeOK
BY TypeInit, TypeStep, PTL DEF Spec

-----------------------------------------------------------------------------
(* The invariant.                                                          *)

Starting == guard.at \in {"merging", "discovering"}
Active(l) == listener[l] \in {"binding", "serving"}

\* Nothing of a process that is down is left.
DownIsClean ==
    process = "down" => /\ guard.at = "asleep" /\ stack = None /\ ~leaked
                        /\ \A l \in Slots : listener[l] = "free"

\* A start happens only while no stack runs and no socket is on its way out.
StartsAlone == Starting => stack = None
ClosesAlone ==
    \A l \in Slots : listener[l] = "closing" => guard.at = "asleep" /\ stack = None
StartingProcess == process = "starting" => Starting

\* Who holds an active listener; the listeners that are held are active.
Held(l) == l = stack \/ (guard.at = "discovering" /\ l = guard.slot)
ActiveIffHeld == ~leaked => \A l \in Slots : Active(l) <=> Held(l)

Holding ==
    /\ TypeOK /\ DownIsClean /\ StartsAlone /\ ClosesAlone /\ StartingProcess
    /\ ActiveIffHeld

LEMMA HoldingInit == Init => Holding
BY TypeInit, ConstantsAssumption
   DEF Init, Holding, DownIsClean, StartsAlone, ClosesAlone, StartingProcess, Starting,
       ActiveIffHeld, Held, Active, Asleep, AllFree

LEMMA ExitHolding == TypeOK' /\ Exit => Holding'
BY ConstantsAssumption
   DEF Exit, Holding, DownIsClean, StartsAlone, ClosesAlone, StartingProcess, Starting,
       ActiveIffHeld, Held, Active, Asleep, AllFree

\* The task of the only held listener gets the port.
LEMMA BindHolding ==
    ASSUME Holding, TypeOK', NEW l \in Slots, Bind(l)
    PROVE  Holding'
<1> USE ConstantsAssumption DEF Bind, settings, server
<1>1. DownIsClean' /\ StartsAlone' /\ StartingProcess'
  BY DEF Holding, TypeOK, DownIsClean, StartsAlone, StartingProcess, Starting
<1>2. ClosesAlone'
  BY DEF Holding, TypeOK, ClosesAlone
<1>3. ASSUME ~leaked, NEW k \in Slots, k # l PROVE listener[k] = "free"
  <2>1. Held(l) /\ (Active(k) <=> Held(k))
    BY <1>3 DEF Holding, ActiveIffHeld, Active
  <2>2. ~Held(k)
    BY <1>3, <2>1 DEF Holding, StartsAlone, Starting, Held
  <2>3. listener[k] # "closing"
    BY <2>1 DEF Holding, ClosesAlone, Held
  <2> QED
    BY <2>1, <2>2, <2>3 DEF Active, Holding, TypeOK
<1>4. ActiveIffHeld'
  BY <1>3 DEF Holding, TypeOK, ActiveIffHeld, Active, Held
<1> QED
  BY <1>1, <1>2, <1>4 DEF Holding

LEMMA HoldingStep == Holding /\ [Next]_vars => Holding'
<1> SUFFICES ASSUME Holding, [Next]_vars PROVE Holding'
  OBVIOUS
<1>0. TypeOK'
  BY TypeStep DEF Holding
<1> DEFINE Kept == Exit \/ UNCHANGED <<process, guard, stack, listener, leaked>>
<1>a. ASSUME Kept PROVE Holding'
  BY <1>0, <1>a, ExitHolding
     DEF Holding, DownIsClean, StartsAlone, ClosesAlone, StartingProcess, Starting,
         ActiveIffHeld, Held, Active
<1> HIDE DEF Kept
<1>1. ASSUME World, ~SpawnFails PROVE Kept
  BY <1>1 DEF Kept, World, Move, EditRead, EditMeanwhile, SetEnabled, RosterChanges, Crash,
              server, sockets
<1>2. CASE EditWrite \/ Leave \/ PingRead \/ PingReload \/ UNCHANGED vars
  BY <1>2, <1>a DEF Kept, EditWrite, Leave, PingRead, PingReload, vars, server, sockets
<1>3. CASE SpawnFails
  <2>1. CASE process = "starting"
    BY <1>0, <1>3, <2>1, ExitHolding DEF SpawnFails
  <2>2. CASE process # "starting"
    <3>1. /\ guard' = Asleep /\ UNCHANGED <<process, stack, listener>>
          /\ ~leaked' => ~leaked /\ guard.at # "discovering"
          /\ Starting
      BY <1>3, <2>2, Zenon DEF SpawnFails, server, Starting
    <3>2. process # "down"
      BY <3>1 DEF Holding, DownIsClean, Starting
    <3> QED
      BY <1>0, <2>2, <3>1, <3>2
         DEF Holding, DownIsClean, StartsAlone, ClosesAlone, StartingProcess, Starting,
             ActiveIffHeld, Held, Active, Asleep
  <2> QED
    BY <2>1, <2>2
<1> USE <1>0, ConstantsAssumption
    DEF Holding, TypeOK, DownIsClean, StartsAlone, ClosesAlone, StartingProcess, Starting,
        ActiveIffHeld, Held, Active, Asleep, settings, server, sockets
<1>4. CASE Boot
  <2>1. /\ process = "down" /\ UNCHANGED <<stack, listener, leaked>>
        /\ \/ process' = "starting" /\ guard' = [guard EXCEPT !.at = "merging"]
           \/ process' = "up" /\ guard' = guard
    BY <1>4 DEF Boot
  <2> QED
    BY <2>1
<1>5. CASE Restart
  BY <1>5 DEF Restart
<1>6. CASE SpawnDone
  BY <1>6 DEF SpawnDone
<1>7. ASSUME NEW l \in Slots, SpawnListener(l) PROVE Holding'
  BY <1>7 DEF SpawnListener
<1>8. ASSUME NEW l \in Slots, Bind(l) PROVE Holding'
  BY <1>8, BindHolding
<1>9. ASSUME NEW l \in Slots, Close(l) PROVE Holding'
  BY <1>9 DEF Close
<1>10. CASE GuardRead
  <2>1. /\ guard.at = "asleep" /\ guard'.at = "read" /\ process \in {"up", "leaving"}
        /\ UNCHANGED <<process, stack, listener, leaked>>
        /\ \A l \in Slots : listener[l] \notin {"binding", "closing"}
    BY <1>10 DEF GuardRead, Running
  <2> QED
    BY <2>1
<1>11. CASE GuardKeep
  BY <1>11 DEF GuardKeep
<1>12. CASE GuardPause
  <2>1. /\ guard.at = "read" /\ guard'.at = "asleep" /\ stack \in Slots /\ stack' = None
        /\ UNCHANGED <<process, leaked>>
        /\ listener' = [listener EXCEPT ![stack] = IF @ = "serving" THEN "closing" ELSE "free"]
    BY <1>12 DEF GuardPause
  <2>2. \A l \in Slots : listener[l] # "closing"
    BY <2>1
  <2>3. ClosesAlone' /\ StartsAlone' /\ StartingProcess' /\ DownIsClean'
    BY <2>1, <2>2
  <2>4. ActiveIffHeld'
    BY <2>1
  <2> QED
    BY <2>3, <2>4
<1>13. CASE GuardResume
  BY <1>13 DEF GuardResume
<1> QED
  BY <1>1, <1>2, <1>3, <1>4, <1>5, <1>6, <1>7, <1>8, <1>9, <1>10, <1>11, <1>12, <1>13, <1>a
     DEF Next, Spawn, Sockets, GuardDecide

LEMMA AlwaysHolding == Spec => []Holding
BY HoldingInit, HoldingStep, PTL DEF Spec

(* A paused stack leaves no listener behind, unless a resume has failed.   *)
THEOREM NoStrayListener == Spec => []SilentUnlessLeaked
<1>1. Holding => SilentUnlessLeaked
  BY ConstantsAssumption
     DEF Holding, TypeOK, ActiveIffHeld, Held, Active, SilentUnlessLeaked, PausedIsSilent, Paused
<1> QED
  BY <1>1, AlwaysHolding, PTL

(* A running stack has a listener that serves or is about to.              *)
THEOREM RunningStackServes == Spec => []StackServes
<1>1. Holding => StackServes
  BY ConstantsAssumption DEF Holding, TypeOK, ActiveIffHeld, Held, Active, StackServes
<1> QED
  BY <1>1, AlwaysHolding, PTL

-----------------------------------------------------------------------------
(* The toggle.                                                             *)

Due == IF enabled /\ ~Syncing THEN {"on", "no key"} ELSE {"off"}

(* The safety half of ModeFollowsSetting: a process whose mode is not what *)
(* the toggle was set to last, though its key could be had, has a restart  *)
(* asked for, which no crash, failed start or second toggle loses.         *)
ToggleIsHonoured == process \in {"starting", "up"} => permit \/ mode \in Due

LEMMA HonouredStep == ToggleIsHonoured /\ [Next]_vars => ToggleIsHonoured'
<1> SUFFICES ASSUME ToggleIsHonoured, [Next]_vars PROVE ToggleIsHonoured'
  OBVIOUS
<1>1. ASSUME UNCHANGED <<enabled, process, mode, permit>> PROVE ToggleIsHonoured'
  BY <1>1 DEF ToggleIsHonoured, Due
<1>2. ASSUME process' \in {"down", "leaving"} PROVE ToggleIsHonoured'
  BY <1>2 DEF ToggleIsHonoured
<1>3. CASE (World /\ ~Crash /\ ~SpawnFails /\ ~\E b \in BOOLEAN : SetEnabled(b)) \/ EditWrite
  BY <1>1, <1>3 DEF World, Move, EditRead, EditMeanwhile, EditWrite, RosterChanges, settings, server
<1>4. CASE \E b \in BOOLEAN : SetEnabled(b)
  <2>1. permit' = TRUE
    BY <1>4 DEF SetEnabled
  <2> QED
    BY <2>1 DEF ToggleIsHonoured
<1>5. CASE Crash \/ Leave \/ Restart
  BY <1>2, <1>5 DEF Crash, Leave, Exit, Restart
<1>6. CASE SpawnFails
  <2>1. CASE process = "starting"
    BY <1>2, <1>6, <2>1 DEF SpawnFails, Exit
  <2>2. CASE process # "starting"
    BY <1>1, <1>6, <2>2 DEF SpawnFails, settings, server
  <2> QED
    BY <2>1, <2>2
<1>7. CASE Boot
  <2>1. enabled' = enabled /\ mode' \in Due
    BY <1>7 DEF Boot, settings, Due
  <2>2. Due' = Due
    BY <2>1 DEF Due
  <2> QED
    BY <2>1, <2>2 DEF ToggleIsHonoured
<1>8. CASE SpawnDone
  <2>1. UNCHANGED <<enabled, mode, permit>> /\ (process' = process \/ (process = "starting" /\ process' = "up"))
    BY <1>8 DEF SpawnDone, settings
  <2> QED
    BY <2>1 DEF ToggleIsHonoured, Due
<1>9. CASE Sockets \/ \E l \in Slots : SpawnListener(l)
  BY <1>1, <1>9 DEF SpawnListener, Sockets, Bind, Close, settings, server
<1>10. CASE GuardRead \/ GuardDecide
  BY <1>1, <1>10 DEF GuardRead, GuardDecide, GuardKeep, GuardPause, GuardResume, settings, server
<1>11. CASE PingRead \/ PingReload
  BY <1>1, <1>11 DEF PingRead, PingReload, settings, server
<1>12. CASE UNCHANGED vars
  BY <1>1, <1>12 DEF vars
<1> QED
  BY <1>3, <1>4, <1>5, <1>6, <1>7, <1>8, <1>9, <1>10, <1>11, <1>12 DEF Next, World, Spawn

THEOREM NoToggleIsLost == Spec => []ToggleIsHonoured
<1>1. Init => ToggleIsHonoured
  BY DEF Init, ToggleIsHonoured
<1> QED
  BY <1>1, HonouredStep, PTL DEF Spec

-----------------------------------------------------------------------------
(* Hive Mode.                                                              *)

(* A process without Hive Mode, be it that the user turned it off, that    *)
(* cloud sync forbids it or that there is no key, never runs the stack nor *)
(* has a listener bound, nor does its guard loop ever start one: not after *)
(* crashes, failed starts, and toggles in the middle of a resume.          *)
OffIsSilent ==
    mode # "on" => guard.at = "asleep" /\ stack = None /\ \A l \in Slots : listener[l] = "free"

LEMMA OffStep == Holding /\ OffIsSilent /\ [Next]_vars => OffIsSilent'
<1> SUFFICES ASSUME Holding, OffIsSilent, [Next]_vars, mode' # "on"
             PROVE  (guard.at = "asleep" /\ stack = None /\ \A l \in Slots : listener[l] = "free")'
  BY DEF OffIsSilent
<1>1. ASSUME Exit
      PROVE  (guard.at = "asleep" /\ stack = None /\ \A l \in Slots : listener[l] = "free")'
  BY <1>1 DEF Exit, Asleep, AllFree
<1>2. CASE Boot
  BY <1>2 DEF Boot, Holding, DownIsClean, sockets
<1>3. CASE Crash \/ Leave
  BY <1>1, <1>3 DEF Crash, Leave
<1>4. CASE SpawnFails /\ process = "starting"
  BY <1>1, <1>4 DEF SpawnFails
<1>5. CASE ~Boot /\ ~Crash /\ ~Leave /\ ~(SpawnFails /\ process = "starting")
  <2>1. mode # "on"
    BY <1>5 DEF Next, World, Move, EditRead, EditMeanwhile, SetEnabled, RosterChanges, SpawnFails, EditWrite,
                Restart, Spawn, SpawnDone, SpawnListener, Sockets, Bind, Close, GuardRead, GuardDecide,
                GuardKeep, GuardPause, GuardResume, PingRead, PingReload, settings, server, vars
  <2>2. guard.at = "asleep" /\ stack = None /\ \A l \in Slots : listener[l] = "free"
    BY <2>1 DEF OffIsSilent
  <2>3. UNCHANGED <<guard, stack, listener>>
    BY <1>5, <2>1, <2>2
       DEF Next, World, Move, EditRead, EditMeanwhile, SetEnabled, RosterChanges, SpawnFails, EditWrite,
           Restart, Spawn, SpawnDone, SpawnListener, Sockets, Bind, Close, GuardRead, GuardDecide,
           GuardKeep, GuardPause, GuardResume, PingRead, PingReload, sockets, vars
  <2> QED
    BY <2>2, <2>3
<1> QED
  BY <1>2, <1>3, <1>4, <1>5

THEOREM OffMeansOff == Spec => []OffIsSilent
<1>1. Init => OffIsSilent
  BY DEF Init, OffIsSilent, Asleep, AllFree
<1> QED
  BY <1>1, OffStep, HoldingInit, HoldingStep, PTL DEF Spec
=============================================================================
