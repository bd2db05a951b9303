------------------------- MODULE SimulationControl --------------------------
(***************************************************************************)
(* The life cycle of a simulation: the loop over slots and ticks in the    *)
(* main thread, the flags of SimulationStatusManager, the console, and the *)
(* Redis thread that receives stop, pause and resume commands.  The two    *)
(* threads share the flags without a lock, so every read or write of a flag*)
(* that the other thread can interleave with is a step of its own.         *)
(* A simulation run from the web application has no console; it publishes  *)
(* its state, and a run that crashed is started again from that state.     *)
(***************************************************************************)
EXTENDS Integers, FiniteSets

CONSTANTS
    SlotCount, TicksPerSlot,
    Consoles,       \* whether the run may have, or may lack, a console
    Incremental,    \* --incremental: pause after each slot
    PauseAfter,     \* --pause-after was given
    MaxCommands,    \* bound: Redis commands received
    MaxKeys,        \* bound: console commands typed
    MaxCrashes,     \* bound: restarts from published state
    EarlyCommands   \* commands may arrive before run() is called

ASSUME ControlAssumption ==
    /\ SlotCount \in Nat \ {0} /\ TicksPerSlot \in Nat \ {0}
    /\ MaxCommands \in Nat /\ MaxKeys \in Nat /\ MaxCrashes \in Nat
    /\ {Incremental, PauseAfter, EarlyCommands} \cup Consoles \subseteq BOOLEAN

VARIABLES
    console,      \* started from the command line
    pc, slot, tick,
    paused, stopped, timed_out, sim_status, pause_after,
    expired,      \* more than SIMULATION_PAUSE_TIMEOUT since _pause_time
    redis,        \* the callback the Redis thread is in
    cycled,       \* this process has created markets, so areas have state
    saved,        \* the state last published, for a restart
    published,    \* the status last published
    commands, keys, crashes,
    acked,        \* history: a stop command was answered with success
    completed,    \* history: the slots whose effect the areas hold
    late_ticks    \* history: ticks begun since the pause or the stop

pausing == <<paused, expired, late_ticks>>
flags == <<pausing, stopped, timed_out, sim_status, pause_after>>
bounds == <<commands, keys, crashes>>
state == <<console, cycled, acked, completed>>
vars == <<pc, slot, tick, flags, redis, saved, published, bounds, state>>

(* poll, enter: _handle_paused before its loop.  paused, looped, timeout:  *)
(* inside the loop.  tick, check: the tick and the test of stopped after   *)
(* it.  finishing: finish actions before the last results are sent.        *)
PCs == {"created", "cycle", "poll", "enter", "paused", "looped", "timeout",
        "tick", "check", "slotEnd", "finishing", "ended"}

finished == sim_status = "finished"

Status_PauseFirst ==
    IF paused THEN "paused" ELSE IF timed_out THEN "timed-out"
    ELSE IF stopped THEN "stopped" ELSE sim_status

Status ==
    IF timed_out THEN "timed-out" ELSE IF stopped THEN "stopped"
    ELSE IF paused THEN "paused" ELSE sim_status

(* current_state and the states of the areas, which are left out until the *)
(* process has created its first markets.                                  *)
CurrentState == [paused |-> paused, stopped |-> stopped,
                 sim_status |-> sim_status, slot |-> slot,
                 areas |-> cycled, completed |-> completed]

(* --paused may be given on the command line. *)
Init ==
    /\ pc = "created" /\ slot = 0 /\ tick = 0
    /\ console \in Consoles /\ paused \in {FALSE, console}
    /\ stopped = FALSE /\ timed_out = FALSE
    /\ sim_status = "initializing" /\ pause_after = (console /\ PauseAfter)
    /\ expired = FALSE
    /\ redis = "idle" /\ cycled = FALSE
    /\ acked = FALSE /\ completed = {} /\ late_ticks = 0
    /\ saved = CurrentState /\ published = Status
    /\ commands = 0 /\ keys = 0 /\ crashes = 0

(* update_and_send_results, which publishes only without a console. *)
Publish ==
    /\ saved' = IF console THEN saved ELSE CurrentState'
    /\ published' = IF console THEN published ELSE Status'
Silent == UNCHANGED <<saved, published>>

(* _pause, where no other thread can see its two assignments apart. *)
Pause == paused' = TRUE /\ expired' = FALSE /\ late_ticks' = 0

(* toggle_pause, from the console. *)
TogglePause ==
    IF finished THEN UNCHANGED pausing
    ELSE IF paused THEN paused' = FALSE /\ UNCHANGED <<expired, late_ticks>>
    ELSE Pause

Stop == /\ stopped' = TRUE
        /\ late_ticks' = IF stopped THEN late_ticks ELSE 0

GoTo(there) == pc' = there
-----------------------------------------------------------------------------
(* The main thread. *)

Run ==
    /\ pc = "created"
    /\ sim_status' = "running" /\ stopped' = FALSE
    /\ UNCHANGED <<slot, tick, pausing, timed_out, pause_after, redis, bounds, state>>
    /\ Publish
    /\ GoTo("cycle")

CycleMarkets ==
    /\ pc = "cycle"
    /\ tick' = 0 /\ cycled' = TRUE
    /\ GoTo("poll") /\ Silent
    /\ UNCHANGED <<console, slot, flags, redis, bounds, acked, completed>>

(* _handle_input, one key or none.  r builds the areas anew and runs the   *)
(* simulation from its start, q leaves run() without the finish actions.   *)
HandleInput(key) ==
    /\ pc \in {"poll", "looped"}
    /\ key # "none" => console /\ keys < MaxKeys
    /\ keys' = IF key = "none" THEN keys ELSE keys + 1
    /\ CASE key = "p" -> TogglePause /\ UNCHANGED stopped
         [] key = "s" -> Stop /\ UNCHANGED <<paused, expired>>
         [] OTHER     -> UNCHANGED <<stopped, pausing>>
    /\ IF key = "r"
       THEN slot' = 0 /\ cycled' = FALSE /\ acked' = FALSE /\ completed' = {}
       ELSE UNCHANGED <<slot, cycled, acked, completed>>
    /\ pc' = CASE key = "r" -> "created"
               [] key = "q" -> "ended"
               [] key = "s" /\ pc = "looped" -> "looped"
               [] OTHER -> IF pc = "poll" THEN "enter" ELSE "timeout"
    /\ Silent
    /\ UNCHANGED <<tick, timed_out, sim_status, pause_after, redis, commands, crashes, console>>

(* handle_pause_after and the head of the loop of _handle_paused. *)
EnterPause(due) ==
    /\ pc = "enter"
    /\ due => pause_after
    /\ IF due THEN Pause /\ pause_after' = FALSE
              ELSE UNCHANGED <<pausing, pause_after>>
    /\ UNCHANGED <<slot, tick, stopped, timed_out, sim_status, redis, bounds, state>>
    /\ IF paused' THEN Publish ELSE Silent
    /\ GoTo("paused")

WhilePaused ==
    /\ pc = "paused"
    /\ GoTo(IF ~paused THEN "tick" ELSE IF console THEN "looped" ELSE "paused")
    /\ UNCHANGED <<slot, tick, flags, redis, saved, published, bounds, state>>

HandlePauseTimeout_IgnoresStop ==
    /\ pc = "timeout"
    /\ timed_out' = (timed_out \/ expired)
    /\ IF expired THEN Stop ELSE UNCHANGED <<stopped, late_ticks>>
    /\ paused' = (paused /\ ~expired)
    /\ GoTo("paused") /\ Silent
    /\ UNCHANGED <<slot, tick, sim_status, pause_after, expired, redis, bounds, state>>

HandlePauseTimeout ==
    /\ pc = "timeout"
    /\ timed_out' = (timed_out \/ expired)
    /\ IF expired THEN Stop ELSE UNCHANGED <<stopped, late_ticks>>
    /\ paused' = (paused /\ ~stopped')
    /\ GoTo("paused") /\ Silent
    /\ UNCHANGED <<slot, tick, sim_status, pause_after, expired, redis, bounds, state>>

(* A tick, in which the other thread may set a flag at any point. *)
DoTick ==
    /\ pc = "tick"
    /\ late_ticks' = IF paused \/ stopped THEN late_ticks + 1 ELSE 0
    /\ GoTo("check") /\ Silent
    /\ UNCHANGED <<slot, tick, paused, expired, stopped, timed_out, sim_status,
                   pause_after, redis, bounds, state>>

CheckStopped_AfterSlot ==
    /\ pc = "check"
    /\ tick' = tick + 1
    /\ IF stopped /\ tick + 1 = TicksPerSlot
       THEN sim_status' = "stopped" /\ GoTo("finishing")
       ELSE /\ UNCHANGED sim_status
            /\ GoTo(IF tick + 1 < TicksPerSlot THEN "poll" ELSE "slotEnd")
    /\ Silent
    /\ UNCHANGED <<slot, pausing, stopped, timed_out, pause_after, redis, bounds, state>>

CheckStopped ==
    /\ pc = "check"
    /\ tick' = tick + 1
    /\ IF stopped
       THEN sim_status' = "stopped" /\ GoTo("finishing")
       ELSE /\ UNCHANGED sim_status
            /\ GoTo(IF tick + 1 < TicksPerSlot THEN "poll" ELSE "slotEnd")
    /\ Silent
    /\ UNCHANGED <<slot, pausing, stopped, timed_out, pause_after, redis, bounds, state>>

MoreSlots(s) == s + 1 < SlotCount

(* handle_incremental_mode, the results of the slot, and the next slot or  *)
(* the end of the loop.  The results name the slot that has just ended.    *)
EndSlot ==
    /\ pc = "slotEnd"
    /\ completed' = completed \cup {slot}
    /\ IF console /\ Incremental THEN Pause ELSE UNCHANGED pausing
    /\ saved' = IF console THEN saved
                ELSE [CurrentState EXCEPT !.completed = completed']
    /\ published' = IF console THEN published ELSE Status
    /\ IF MoreSlots(slot)
       THEN slot' = slot + 1 /\ GoTo("cycle") /\ UNCHANGED sim_status
       ELSE sim_status' = "finished" /\ GoTo("finishing") /\ UNCHANGED slot
    /\ UNCHANGED <<tick, stopped, timed_out, pause_after, redis, bounds, console, cycled, acked>>

FinishActions ==
    /\ pc = "finishing"
    /\ GoTo("ended")
    /\ UNCHANGED <<slot, tick, flags, redis, bounds, state>>
    /\ Publish

Main == \/ Run \/ CycleMarkets \/ \E key \in {"none", "p", "s", "r", "q"} : HandleInput(key)
        \/ \E due \in BOOLEAN : EnterPause(due)
        \/ WhilePaused \/ HandlePauseTimeout \/ DoTick \/ CheckStopped \/ EndSlot
        \/ FinishActions
-----------------------------------------------------------------------------
(* The Redis thread. *)

mainVars == <<pc, slot, tick, timed_out, sim_status, pause_after, saved, published,
              keys, crashes, console, cycled, completed>>

(* A command arrives.  Stopping needs no test; pausing and resuming test   *)
(* paused first and toggle it later.                                       *)
Receive(command) ==
    /\ redis = "idle" /\ pc # "ended"
    /\ pc = "created" => EarlyCommands
    /\ commands < MaxCommands
    /\ commands' = commands + 1
    /\ CASE command = "stop"   -> Stop /\ acked' = TRUE /\ UNCHANGED redis
         [] command = "pause"  -> /\ redis' = IF paused THEN "idle" ELSE "pausing"
                                  /\ UNCHANGED <<stopped, late_ticks, acked>>
         [] command = "resume" -> /\ redis' = IF paused THEN "resuming" ELSE "idle"
                                  /\ UNCHANGED <<stopped, late_ticks, acked>>
    /\ UNCHANGED <<mainVars, paused, expired>>

(* toggle_pause, of which _pause still has to note the time. *)
Toggle ==
    /\ redis \in {"pausing", "resuming"}
    /\ IF finished \/ paused
       THEN /\ paused' = (paused /\ finished)
            /\ redis' = "idle" /\ UNCHANGED late_ticks
       ELSE paused' = TRUE /\ redis' = "stamp" /\ late_ticks' = 0
    /\ UNCHANGED <<mainVars, expired, stopped, commands, acked>>

Stamp ==
    /\ redis = "stamp"
    /\ redis' = "idle" /\ expired' = FALSE
    /\ UNCHANGED <<mainVars, paused, late_ticks, stopped, commands, acked>>

Redis == Toggle \/ Stamp
-----------------------------------------------------------------------------
(* The environment. *)

(* SIMULATION_PAUSE_TIMEOUT passes since the last write of _pause_time. *)
Elapse ==
    /\ ~expired /\ pc # "ended"
    /\ expired' = TRUE
    /\ UNCHANGED <<mainVars, redis, paused, late_ticks, stopped, commands, acked>>

Restorable_AnyAreas == saved.sim_status = "running"
Restorable == saved.sim_status = "running" /\ saved.areas

(* The process dies and a new one is started with the state last published.*)
(* Its constructor publishes a state of its own before it restores that.   *)
Crash ==
    /\ ~console /\ crashes < MaxCrashes /\ pc # "ended"
    /\ crashes' = crashes + 1
    /\ pc' = "created" /\ tick' = 0 /\ redis' = "idle"
    /\ timed_out' = FALSE /\ expired' = FALSE /\ late_ticks' = 0 /\ cycled' = FALSE
    /\ paused' = (Restorable /\ saved.paused)
    /\ stopped' = (Restorable /\ saved.stopped)
    /\ sim_status' = IF Restorable THEN saved.sim_status ELSE "initializing"
    /\ slot' = IF Restorable THEN saved.slot ELSE 0
    /\ completed' = IF Restorable /\ saved.areas THEN saved.completed ELSE {}
    /\ saved' = [paused |-> FALSE, stopped |-> FALSE, sim_status |-> "initializing",
                 slot |-> 0, areas |-> FALSE, completed |-> {}]
    /\ published' = "initializing"
    /\ UNCHANGED <<console, pause_after, commands, keys, acked>>

Next == \/ Main
        \/ \E command \in {"stop", "pause", "resume"} : Receive(command)
        \/ Redis \/ Elapse \/ Crash

Spec == Init /\ [][Next]_vars

(* Both threads keep running; commands and keys need not come. *)
FairSpec == Spec /\ WF_vars(Main) /\ WF_vars(Redis)
-----------------------------------------------------------------------------
(* The flags and counters have the values the code gives them, and the     *)
(* loops over slots and ticks stay inside their ranges.                    *)
TypeOK ==
    /\ pc \in PCs /\ slot \in 0 .. SlotCount - 1 /\ tick \in 0 .. TicksPerSlot
    /\ {console, paused, stopped, timed_out, pause_after, expired, acked, cycled} \subseteq BOOLEAN
    /\ sim_status \in {"initializing", "running", "stopped", "finished"}
    /\ redis \in {"idle", "pausing", "resuming", "stamp"}
    /\ saved \in [paused : BOOLEAN, stopped : BOOLEAN, areas : BOOLEAN,
                  sim_status : {"initializing", "running", "stopped", "finished"},
                  slot : 0 .. SlotCount - 1, completed : SUBSET (0 .. SlotCount - 1)]
    /\ published \in {"initializing", "running", "paused", "stopped", "timed-out", "finished"}
    /\ commands \in 0 .. MaxCommands /\ keys \in 0 .. MaxKeys /\ crashes \in 0 .. MaxCrashes
    /\ completed \subseteq 0 .. SlotCount - 1 /\ late_ticks \in Nat

(* At most the tick already under way is run after the simulation is       *)
(* paused, and at most one after it is stopped, whichever thread asked     *)
(* (the tests of paused and stopped around tick_and_dispatch).             *)
PromptlyHeld == late_ticks <= 1

(* A simulation reported as finished has the effect of every slot in its   *)
(* areas, however often its process crashed and was restored from the      *)
(* published state (run_simulation, restore_global_state).                 *)
SlotsCovered == finished => completed = 0 .. SlotCount - 1

(* The last results of a run without console do not say that it still      *)
(* runs, and say that it was stopped when it was                           *)
(* (_simulation_stopped_finish_actions, SimulationStatusManager.status).   *)
FinalStatus ==
    pc = "ended" /\ ~console =>
        published \in IF stopped THEN {"stopped"} ELSE {"finished", "paused"}

(* A stop that comes while the simulation runs, by key or by command, ends *)
(* a run with a console, a paused one too, unless the console resets the   *)
(* simulation (stop, handle_pause_timeout, the test of stopped).           *)
StopEndsRun == (console /\ stopped /\ pc # "created") ~> (pc = "ended" \/ ~stopped)

(* The same without regard to the console (stop: "Stop simulation.", and   *)
(* _stop_callback, which answers with success: "is stopped.").             *)
AnyStopEndsRun == (stopped /\ pc # "created") ~> (pc = "ended" \/ ~stopped)

(* With a console, a pause that lasts longer than the timeout is over      *)
(* (handle_pause_timeout: "the simulation should be stopped").             *)
PauseTimesOut == (console /\ paused /\ expired) ~> (~paused \/ ~expired \/ pc = "ended")

(* With a console no run hangs: neither a stop nor a pause nobody ends     *)
(* leaves it waiting for ever.                                             *)
HeldRunsEnd == StopEndsRun /\ PauseTimesOut
=============================================================================
