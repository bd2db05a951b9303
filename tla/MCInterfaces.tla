---------------------------- MODULE MCInterfaces ----------------------------
(* Instances for TLC of what enters and what leaves a simulation: requests *)
(* and recommendations of an external matching engine (ExternalMatcher),   *)
(* results for files and for the broker (SimulationResults), and profiles  *)
(* of a database read in chunks (ProfileBuffers).                          *)
EXTENDS ExternalMatcher

VARIABLES
    interface,   \* which of the three a behaviour is about; the others are idle
    phase, now,  \* of the results and of the profiles
    settings, time, stopped, assets, markets, past, deals, lines, plots, core, message, first,
    reported, emptied, counts,
    canary, stored, user_profiles, buffered_times, present, profile, energy, rate, failure,
    refused, events, touched

sharedVars == <<phase, now>>
resultVars == <<settings, time, stopped, assets, markets, past, deals, lines, plots, core,
                message, first, reported, emptied, counts>>
profileVars == <<canary, stored, user_profiles, buffered_times, present, profile, energy, rate,
                 failure, refused, events, touched>>

(* A plant in the grid and a house with a load and, by a live event, a PV; *)
(* three slots of two ticks.                                               *)
MCParentOf == [house |-> "grid", plant |-> "grid", load |-> "house", pv |-> "house"]
MCSetups == {{"plant", "load"}, {"load", "pv"}, {"plant"}}
Deal(area, seller, buyer) == [area |-> area, seller |-> seller, buyer |-> buyer]
MCDeals == {Deal("grid", "plant", "house"), Deal("house", "pv", "load"), Deal("house", "house", "load")}
Setting(export, retain, age, ahead) ==
    [export |-> export, retain |-> retain, age |-> age, ahead |-> ahead]
MCSettings == {Setting(e, FALSE, 0, 0) : e \in BOOLEAN} \cup {Setting(TRUE, TRUE, 0, 0)}
              \cup {Setting(e, FALSE, 1, 1) : e \in BOOLEAN}

Results == INSTANCE SimulationResults WITH
    Markets <- {"grid", "house"}, Root <- "grid", Assets <- {"plant", "load", "pv"},
    ParentOf <- MCParentOf, Setups <- MCSetups, Deals <- MCDeals, Settings <- MCSettings,
    LastSlot <- 2, TicksPerSlot <- 2, MaxTrades <- 2, MaxEvents <- 2, MaxPauses <- 1,
    MaxResets <- 1, pc <- phase, slot <- time, trades <- deals

(* Profiles that cover the whole run, end early, start late, lie in the    *)
(* past or are empty; chunks of three slots.                               *)
MCTreeOrder == <<"load1", "load2", "bus">>
MCProfileOf == [load1 |-> "p", load2 |-> "q", bus |-> "q"]
Contents == {0 .. 8, 0 .. 4, 2 .. 8, 4 .. 8, -4 .. -1, -4 .. 1, {}}
MCDatabases == {[p |-> p, q |-> q] : p \in Contents, q \in Contents}
MCProfileSetups == {{"load1"}, {"load1", "load2"}, {"load2"}, {"load1", "bus"}}

Buffers == INSTANCE ProfileBuffers WITH
    Profiles <- {"p", "q"}, Loads <- {"load1", "load2"}, Buses <- {"bus"},
    TreeOrder <- MCTreeOrder, ProfileOf <- MCProfileOf, Databases <- MCDatabases,
    Setups <- MCProfileSetups, LastSlot <- 8, Window <- 3, Week <- 4, Ahead <- 0,
    MaxEvents <- 2, pc <- phase, failed <- failure
ASSUME Results!ResultsAssumption /\ Buffers!ProfileAssumption

None == "none"
IdleResults ==
    /\ settings = None /\ time = None /\ stopped = None /\ assets = None /\ markets = None
    /\ past = None /\ deals = None /\ lines = None /\ plots = None /\ core = None
    /\ message = None /\ first = None /\ reported = None /\ emptied = None /\ counts = None
IdleProfiles ==
    /\ canary = None /\ stored = None /\ user_profiles = None /\ buffered_times = None
    /\ present = None /\ profile = None /\ energy = None /\ rate = None /\ failure = None
    /\ refused = None /\ events = None /\ touched = None

(* The matcher that is idle stays as it begins.                            *)
InterfacesInit ==
    /\ Init
    /\ \/ interface = "matcher" /\ IdleResults /\ IdleProfiles /\ phase = None /\ now = None
       \/ interface = "results" /\ Results!Init /\ IdleProfiles
       \/ interface = "profiles" /\ Buffers!Init /\ IdleResults
InterfacesNext ==
    \/ interface = "matcher" /\ Next /\ UNCHANGED <<interface, sharedVars, resultVars, profileVars>>
    \/ interface = "results" /\ Results!Next /\ UNCHANGED <<interface, vars, profileVars>>
    \/ interface = "profiles" /\ Buffers!Next /\ UNCHANGED <<interface, vars, resultVars>>
InterfacesSpec ==
    InterfacesInit /\ [][InterfacesNext]_<<vars, interface, sharedVars, resultVars, profileVars>>
-----------------------------------------------------------------------------
(* Files have every row once and in order, and all trades of a run; the    *)
(* broker is sent every trade, in the message of its slot                  *)
(* (RowsWrittenOnce, TradesExported, TradesReported, ReportsOfItsSlot of   *)
(* SimulationResults).                                                     *)
ResultsAreComplete ==
    interface = "results" =>
        /\ Results!RowsWrittenOnce /\ Results!TradesExported
        /\ Results!TradesReported /\ Results!ReportsOfItsSlot

(* Loads consume the data of the database, keep the value of the slot that *)
(* has ended, and fail only without data (EnergyFollowsDatabase,           *)
(* LastSlotKept, FailsOnlyWithoutData of ProfileBuffers).                  *)
ProfilesFollowDatabase ==
    interface = "profiles" =>
        /\ Buffers!EnergyFollowsDatabase /\ Buffers!LastSlotKept
        /\ Buffers!FailsOnlyWithoutData
=============================================================================
