---------------------- MODULE SimulationControlProofs -----------------------
(***************************************************************************)
(* Proofs about SimulationControl, for any number of slots, ticks, console *)
(* keys, commands and crashes.                                             *)
(***************************************************************************)
EXTENDS SimulationControl, TLAPS

USE ControlAssumption

SavedStates ==
    [paused : BOOLEAN, stopped : BOOLEAN, areas : BOOLEAN,
     sim_status : {"initializing", "running", "stopped", "finished"},
     slot : 0 .. SlotCount - 1, completed : SUBSET (0 .. SlotCount - 1)]

(* TypeOK, the flags apart from the rest.                                  *)
FlagsTyped ==
    /\ console \in BOOLEAN /\ paused \in BOOLEAN /\ stopped \in BOOLEAN /\ timed_out \in BOOLEAN
    /\ pause_after \in BOOLEAN /\ expired \in BOOLEAN /\ acked \in BOOLEAN /\ cycled \in BOOLEAN
Typed ==
    /\ pc \in PCs /\ slot \in 0 .. SlotCount - 1 /\ tick \in 0 .. TicksPerSlot
    /\ sim_status \in {"initializing", "running", "stopped", "finished"}
    /\ redis \in {"idle", "pausing", "resuming", "stamp"}
    /\ saved \in SavedStates
    /\ published \in {"initializing", "running", "paused", "stopped", "timed-out", "finished"}
    /\ commands \in 0 .. MaxCommands /\ keys \in 0 .. MaxKeys /\ crashes \in 0 .. MaxCrashes
    /\ completed \subseteq 0 .. SlotCount - 1 /\ late_ticks \in Nat

(* The loop over the ticks ends in time. *)
TicksInRange ==
    pc \in {"poll", "enter", "paused", "looped", "timeout", "tick", "check"} => tick < TicksPerSlot

TypeInv == FlagsTyped /\ Typed /\ TicksInRange

(* A tick that is about to begin is the first one since the pause or the   *)
(* stop, and after it a stopped run does not reach another.                *)
Held ==
    /\ late_ticks \in {0, 1}
    /\ pc = "tick" /\ (paused \/ stopped) => late_ticks = 0
    /\ stopped /\ late_ticks = 1 => pc \in {"check", "finishing", "ended", "created"}

(* Whoever goes on from a slot, in this process or from the state last     *)
(* published, finds the slots before it completed.                         *)
Covered ==
    /\ 0 .. slot - 1 \subseteq completed
    /\ saved.areas => 0 .. saved.slot - 1 \subseteq saved.completed
    /\ finished => pc \in {"finishing", "ended"} /\ completed = 0 .. SlotCount - 1

(* Only the console reaches the pause timeout, and a run without it ends   *)
(* with the results of the finish actions.                                 *)
Ending ==
    /\ ~console => ~timed_out /\ pc \notin {"looped", "timeout"}
    /\ pc = "finishing" => finished \/ (sim_status = "stopped" /\ stopped)
    /\ FinalStatus

IInv == TypeInv /\ Held /\ Covered /\ Ending
-----------------------------------------------------------------------------
(* One lemma for each conjunct of IInv, with one step for each action that *)
(* can disturb it.                                                         *)
LEMMA FlagsStep == FlagsTyped /\ Typed /\ [Next]_vars => FlagsTyped'
<1> SUFFICES ASSUME FlagsTyped, Typed, [Next]_vars PROVE FlagsTyped'
  OBVIOUS
<1> USE DEF FlagsTyped, Typed, SavedStates,
           GoTo, flags, pausing, state, bounds
<1>1. ASSUME Run PROVE FlagsTyped'
  BY <1>1, Zenon DEF Run, Publish, CurrentState, Status
<1>2. ASSUME CycleMarkets PROVE FlagsTyped'
  BY <1>2, Zenon DEF CycleMarkets, Silent
<1>3. ASSUME NEW key \in {"none", "p", "s", "r", "q"}, HandleInput(key) PROVE FlagsTyped'
  BY <1>3, Zenon DEF HandleInput, Silent, TogglePause, Pause, Stop, finished
<1>4. ASSUME NEW due \in BOOLEAN, EnterPause(due) PROVE FlagsTyped'
  BY <1>4, Zenon DEF EnterPause, Publish, Silent, CurrentState, Status, Pause
<1>5. ASSUME WhilePaused PROVE FlagsTyped'
  BY <1>5, Zenon DEF WhilePaused
<1>6. ASSUME HandlePauseTimeout PROVE FlagsTyped'
  BY <1>6, Zenon DEF HandlePauseTimeout, Stop, Silent
<1>7. ASSUME DoTick PROVE FlagsTyped'
  BY <1>7, Zenon DEF DoTick, Silent
<1>8. ASSUME CheckStopped PROVE FlagsTyped'
  BY <1>8, Zenon DEF CheckStopped, Silent
<1>9. ASSUME EndSlot PROVE FlagsTyped'
  BY <1>9, Zenon DEF EndSlot, Pause, CurrentState, Status, MoreSlots
<1>10. ASSUME FinishActions PROVE FlagsTyped'
  BY <1>10, Zenon DEF FinishActions, Publish, CurrentState, Status
<1>11. ASSUME NEW command \in {"stop", "pause", "resume"}, Receive(command) PROVE FlagsTyped'
  <2>1. CASE command = "stop"
    BY <1>11, <2>1, Zenon DEF Receive, mainVars, Stop
  <2>2. CASE command = "pause"
    BY <1>11, <2>2, Zenon DEF Receive, mainVars, Stop
  <2>3. CASE command = "resume"
    BY <1>11, <2>3, Zenon DEF Receive, mainVars, Stop
  <2> QED
    BY <1>11, <2>1, <2>2, <2>3
<1>12. ASSUME Toggle PROVE FlagsTyped'
  BY <1>12, Zenon DEF Toggle, mainVars, finished
<1>13. ASSUME Stamp PROVE FlagsTyped'
  BY <1>13, Zenon DEF Stamp, mainVars
<1>14. ASSUME Elapse PROVE FlagsTyped'
  BY <1>14, Zenon DEF Elapse, mainVars
<1>15. ASSUME Crash PROVE FlagsTyped'
  BY <1>15, Zenon DEF Crash, Restorable
<1>16. ASSUME UNCHANGED vars PROVE FlagsTyped'
  BY <1>16, Zenon DEF vars
<1> QED
  BY <1>1, <1>2, <1>3, <1>4, <1>5, <1>6, <1>7, <1>8, <1>9, <1>10, <1>11, <1>12, <1>13, <1>14, <1>15, <1>16 DEF Next, Main, Redis

LEMMA TypedStep == TypeInv /\ [Next]_vars => (Typed /\ TicksInRange)'
<1> SUFFICES ASSUME TypeInv, [Next]_vars PROVE (Typed /\ TicksInRange)'
  OBVIOUS
<1>a. FlagsTyped'
  BY FlagsStep DEF TypeInv
<1> USE DEF TypeInv, FlagsTyped, Typed, TicksInRange, PCs, SavedStates,
           GoTo, flags, pausing, state, bounds
<1>1. ASSUME Run PROVE (Typed /\ TicksInRange)'
  BY <1>1 DEF Run, Publish, CurrentState, Status
<1>2. ASSUME CycleMarkets PROVE (Typed /\ TicksInRange)'
  BY <1>2 DEF CycleMarkets, Silent
<1>3. ASSUME NEW key \in {"none", "p", "s", "r", "q"}, HandleInput(key) PROVE (Typed /\ TicksInRange)'
  BY <1>3 DEF HandleInput, Silent, TogglePause, Pause, Stop, finished
<1>4. ASSUME NEW due \in BOOLEAN, EnterPause(due) PROVE (Typed /\ TicksInRange)'
  <2>1. /\ UNCHANGED <<slot, tick, stopped, timed_out, sim_status, redis, bounds, state>>
        /\ pc = "enter" /\ pc' = "paused"
    BY <1>4 DEF EnterPause, GoTo
  <2>2. late_ticks' \in Nat
    BY <1>4 DEF EnterPause, Pause, pausing
  <2>3. CurrentState' \in SavedStates
    BY <1>a, <2>1 DEF CurrentState, state
  <2>4. Status' \in {"initializing", "running", "paused", "stopped", "timed-out", "finished"}
    BY <1>a, <2>1 DEF Status
  <2>5. saved' \in SavedStates /\ published' \in {"initializing", "running", "paused", "stopped", "timed-out", "finished"}
    <3>. HIDE DEF SavedStates
    <3>1. Publish \/ Silent
      BY <1>4 DEF EnterPause
    <3>. QED BY <3>1, <2>3, <2>4 DEF Publish, Silent
  <2>. QED BY <2>1, <2>2, <2>5 DEF bounds, state
<1>5. ASSUME WhilePaused PROVE (Typed /\ TicksInRange)'
  BY <1>5 DEF WhilePaused
<1>6. ASSUME HandlePauseTimeout PROVE (Typed /\ TicksInRange)'
  BY <1>6 DEF HandlePauseTimeout, Stop, Silent
<1>7. ASSUME DoTick PROVE (Typed /\ TicksInRange)'
  BY <1>7 DEF DoTick, Silent
<1>8. ASSUME CheckStopped PROVE (Typed /\ TicksInRange)'
  BY <1>8 DEF CheckStopped, Silent
<1>9. ASSUME EndSlot PROVE (Typed /\ TicksInRange)'
  BY <1>9 DEF EndSlot, Pause, CurrentState, Status, MoreSlots
<1>10. ASSUME FinishActions PROVE (Typed /\ TicksInRange)'
  BY <1>10 DEF FinishActions, Publish, CurrentState, Status
<1>11. ASSUME NEW command \in {"stop", "pause", "resume"}, Receive(command) PROVE (Typed /\ TicksInRange)'
  <2>1. CASE command = "stop"
    BY <1>11, <2>1 DEF Receive, mainVars, Stop
  <2>2. CASE command = "pause"
    BY <1>11, <2>2 DEF Receive, mainVars, Stop
  <2>3. CASE command = "resume"
    BY <1>11, <2>3 DEF Receive, mainVars, Stop
  <2> QED
    BY <1>11, <2>1, <2>2, <2>3
<1>12. ASSUME Toggle PROVE (Typed /\ TicksInRange)'
  BY <1>12 DEF Toggle, mainVars, finished
<1>13. ASSUME Stamp PROVE (Typed /\ TicksInRange)'
  BY <1>13 DEF Stamp, mainVars
<1>14. ASSUME Elapse PROVE (Typed /\ TicksInRange)'
  BY <1>14 DEF Elapse, mainVars
<1>15. ASSUME Crash PROVE (Typed /\ TicksInRange)'
  BY <1>15 DEF Crash, Restorable
<1>16. ASSUME UNCHANGED vars PROVE (Typed /\ TicksInRange)'
  BY <1>16 DEF vars
<1> QED
  BY <1>1, <1>2, <1>3, <1>4, <1>5, <1>6, <1>7, <1>8, <1>9, <1>10, <1>11, <1>12, <1>13, <1>14, <1>15, <1>16 DEF Next, Main, Redis

LEMMA HeldStep == TypeInv /\ Held /\ [Next]_vars => Held'
<1> SUFFICES ASSUME TypeInv, Held, [Next]_vars PROVE Held'
  OBVIOUS
<1> USE DEF Held, TypeInv, Typed, PCs,
           GoTo, flags, pausing, state, bounds
<1>1. ASSUME Run PROVE Held'
  BY <1>1 DEF Run, Publish, CurrentState, Status
<1>2. ASSUME CycleMarkets PROVE Held'
  BY <1>2 DEF CycleMarkets, Silent
<1>3. ASSUME NEW key \in {"none", "p", "s", "r", "q"}, HandleInput(key) PROVE Held'
  BY <1>3 DEF HandleInput, Silent, TogglePause, Pause, Stop, finished
<1>4. ASSUME NEW due \in BOOLEAN, EnterPause(due) PROVE Held'
  BY <1>4 DEF EnterPause, Publish, Silent, CurrentState, Status, Pause
<1>5. ASSUME WhilePaused PROVE Held'
  BY <1>5 DEF WhilePaused
<1>6. ASSUME HandlePauseTimeout PROVE Held'
  BY <1>6 DEF HandlePauseTimeout, Stop, Silent
<1>7. ASSUME DoTick PROVE Held'
  BY <1>7 DEF DoTick, Silent
<1>8. ASSUME CheckStopped PROVE Held'
  BY <1>8 DEF CheckStopped, Silent
<1>9. ASSUME EndSlot PROVE Held'
  BY <1>9 DEF EndSlot, Pause, CurrentState, Status, MoreSlots
<1>10. ASSUME FinishActions PROVE Held'
  BY <1>10 DEF FinishActions, Publish, CurrentState, Status
<1>11. ASSUME NEW command \in {"stop", "pause", "resume"}, Receive(command) PROVE Held'
  <2>1. CASE command = "stop"
    BY <1>11, <2>1 DEF Receive, mainVars, Stop
  <2>2. CASE command = "pause"
    BY <1>11, <2>2 DEF Receive, mainVars, Stop
  <2>3. CASE command = "resume"
    BY <1>11, <2>3 DEF Receive, mainVars, Stop
  <2> QED
    BY <1>11, <2>1, <2>2, <2>3
<1>12. ASSUME Toggle PROVE Held'
  BY <1>12 DEF Toggle, mainVars, finished
<1>13. ASSUME Stamp PROVE Held'
  BY <1>13 DEF Stamp, mainVars
<1>14. ASSUME Elapse PROVE Held'
  BY <1>14 DEF Elapse, mainVars
<1>15. ASSUME Crash PROVE Held'
  BY <1>15 DEF Crash, Restorable
<1>16. ASSUME UNCHANGED vars PROVE Held'
  BY <1>16 DEF vars
<1> QED
  BY <1>1, <1>2, <1>3, <1>4, <1>5, <1>6, <1>7, <1>8, <1>9, <1>10, <1>11, <1>12, <1>13, <1>14, <1>15, <1>16 DEF Next, Main, Redis

LEMMA CoveredStep == TypeInv /\ Covered /\ [Next]_vars => Covered'
<1> SUFFICES ASSUME TypeInv, Covered, [Next]_vars PROVE Covered'
  OBVIOUS
<1> USE DEF Covered, TypeInv, Typed, PCs, SavedStates, finished,
           GoTo, flags, pausing, state, bounds
<1>1. ASSUME Run PROVE Covered'
  BY <1>1 DEF Run, Publish, CurrentState, Status
<1>2. ASSUME CycleMarkets PROVE Covered'
  BY <1>2 DEF CycleMarkets, Silent
<1>3. ASSUME NEW key \in {"none", "p", "s", "r", "q"}, HandleInput(key) PROVE Covered'
  BY <1>3 DEF HandleInput, Silent, TogglePause, Pause, Stop, finished
<1>4. ASSUME NEW due \in BOOLEAN, EnterPause(due) PROVE Covered'
  BY <1>4 DEF EnterPause, Publish, Silent, CurrentState, Status, Pause
<1>5. ASSUME WhilePaused PROVE Covered'
  BY <1>5 DEF WhilePaused
<1>6. ASSUME HandlePauseTimeout PROVE Covered'
  BY <1>6 DEF HandlePauseTimeout, Stop, Silent
<1>7. ASSUME DoTick PROVE Covered'
  BY <1>7 DEF DoTick, Silent
<1>8. ASSUME CheckStopped PROVE Covered'
  BY <1>8 DEF CheckStopped, Silent
<1>9. ASSUME EndSlot PROVE Covered'
  BY <1>9 DEF EndSlot, Pause, CurrentState, Status, MoreSlots
<1>10. ASSUME FinishActions PROVE Covered'
  BY <1>10 DEF FinishActions, Publish, CurrentState, Status
<1>11. ASSUME NEW command \in {"stop", "pause", "resume"}, Receive(command) PROVE Covered'
  <2>1. CASE command = "stop"
    BY <1>11, <2>1 DEF Receive, mainVars, Stop
  <2>2. CASE command = "pause"
    BY <1>11, <2>2 DEF Receive, mainVars, Stop
  <2>3. CASE command = "resume"
    BY <1>11, <2>3 DEF Receive, mainVars, Stop
  <2> QED
    BY <1>11, <2>1, <2>2, <2>3
<1>12. ASSUME Toggle PROVE Covered'
  BY <1>12 DEF Toggle, mainVars, finished
<1>13. ASSUME Stamp PROVE Covered'
  BY <1>13 DEF Stamp, mainVars
<1>14. ASSUME Elapse PROVE Covered'
  BY <1>14 DEF Elapse, mainVars
<1>15. ASSUME Crash PROVE Covered'
  BY <1>15 DEF Crash, Restorable
<1>16. ASSUME UNCHANGED vars PROVE Covered'
  BY <1>16 DEF vars
<1> QED
  BY <1>1, <1>2, <1>3, <1>4, <1>5, <1>6, <1>7, <1>8, <1>9, <1>10, <1>11, <1>12, <1>13, <1>14, <1>15, <1>16 DEF Next, Main, Redis

LEMMA EndingStep == TypeInv /\ Ending /\ [Next]_vars => Ending'
<1> SUFFICES ASSUME TypeInv, Ending, [Next]_vars PROVE Ending'
  OBVIOUS
<1> USE DEF Ending, FinalStatus, TypeInv, Typed, PCs, finished, Status,
           GoTo, flags, pausing, state, bounds
<1>1. ASSUME Run PROVE Ending'
  BY <1>1 DEF Run, Publish, CurrentState, Status
<1>2. ASSUME CycleMarkets PROVE Ending'
  BY <1>2 DEF CycleMarkets, Silent
<1>3. ASSUME NEW key \in {"none", "p", "s", "r", "q"}, HandleInput(key) PROVE Ending'
  BY <1>3 DEF HandleInput, Silent, TogglePause, Pause, Stop, finished
<1>4. ASSUME NEW due \in BOOLEAN, EnterPause(due) PROVE Ending'
  BY <1>4 DEF EnterPause, Publish, Silent, CurrentState, Status, Pause
<1>5. ASSUME WhilePaused PROVE Ending'
  BY <1>5 DEF WhilePaused
<1>6. ASSUME HandlePauseTimeout PROVE Ending'
  BY <1>6 DEF HandlePauseTimeout, Stop, Silent
<1>7. ASSUME DoTick PROVE Ending'
  BY <1>7 DEF DoTick, Silent
<1>8. ASSUME CheckStopped PROVE Ending'
  BY <1>8 DEF CheckStopped, Silent
<1>9. ASSUME EndSlot PROVE Ending'
  BY <1>9 DEF EndSlot, Pause, CurrentState, Status, MoreSlots
<1>10. ASSUME FinishActions PROVE Ending'
  BY <1>10 DEF FinishActions, Publish, CurrentState, Status
<1>11. ASSUME NEW command \in {"stop", "pause", "resume"}, Receive(command) PROVE Ending'
  <2>1. CASE command = "stop"
    BY <1>11, <2>1 DEF Receive, mainVars, Stop
  <2>2. CASE command = "pause"
    BY <1>11, <2>2 DEF Receive, mainVars, Stop
  <2>3. CASE command = "resume"
    BY <1>11, <2>3 DEF Receive, mainVars, Stop
  <2> QED
    BY <1>11, <2>1, <2>2, <2>3
<1>12. ASSUME Toggle PROVE Ending'
  BY <1>12 DEF Toggle, mainVars, finished
<1>13. ASSUME Stamp PROVE Ending'
  BY <1>13 DEF Stamp, mainVars
<1>14. ASSUME Elapse PROVE Ending'
  BY <1>14 DEF Elapse, mainVars
<1>15. ASSUME Crash PROVE Ending'
  BY <1>15 DEF Crash, Restorable
<1>16. ASSUME UNCHANGED vars PROVE Ending'
  BY <1>16 DEF vars
<1> QED
  BY <1>1, <1>2, <1>3, <1>4, <1>5, <1>6, <1>7, <1>8, <1>9, <1>10, <1>11, <1>12, <1>13, <1>14, <1>15, <1>16 DEF Next, Main, Redis
-----------------------------------------------------------------------------
LEMMA InitInv == Init => IInv
<1> SUFFICES ASSUME Init PROVE IInv
  OBVIOUS
<1>1. FlagsTyped
  BY Zenon DEF Init, FlagsTyped
<1>2. Typed /\ TicksInRange
  BY <1>1 DEF Init, FlagsTyped, Typed, TicksInRange, PCs, SavedStates, CurrentState, Status
<1>3. Held /\ Covered /\ Ending
  BY DEF Init, Held, Covered, Ending, FinalStatus, CurrentState, finished
<1> QED BY <1>1, <1>2, <1>3 DEF IInv, TypeInv

LEMMA NextInv == IInv /\ [Next]_vars => IInv'
BY FlagsStep, TypedStep, HeldStep, CoveredStep, EndingStep DEF IInv, TypeInv

(* The inductive invariant holds in every run.                             *)
LEMMA Invariance == Spec => []IInv
BY InitInv, NextInv, PTL DEF Spec

(* The flags and counters have the values the code gives them, through any *)
(* commands, keys, timeouts and crashes.                                   *)
THEOREM ControlTypeCorrect == Spec => []TypeOK
<1>1. IInv => TypeOK
  BY DEF IInv, TypeInv, Typed, FlagsTyped, TypeOK, SavedStates
<1> QED BY <1>1, Invariance, PTL

(* However the two threads interleave, at most the tick that is under way  *)
(* is run after a pause, and at most one after a stop.                     *)
THEOREM PromptlyHeldTheorem == Spec => []PromptlyHeld
<1>1. IInv => PromptlyHeld
  BY DEF IInv, Held, PromptlyHeld
<1> QED BY <1>1, Invariance, PTL

(* After any number of crashes and restarts from what was published last,  *)
(* a simulation that reports to be finished has run every slot.            *)
THEOREM SlotsCoveredTheorem == Spec => []SlotsCovered
<1>1. IInv => SlotsCovered
  BY DEF IInv, Covered, SlotsCovered
<1> QED BY <1>1, Invariance, PTL

(* The last status a run without console publishes is that of a run which  *)
(* is over, and "stopped" if it was stopped.                               *)
THEOREM FinalStatusTheorem == Spec => []FinalStatus
<1>1. IInv => FinalStatus
  BY DEF IInv, Ending
<1> QED BY <1>1, Invariance, PTL
=============================================================================
