--------------------------- MODULE SimulationResults ---------------------------
(***************************************************************************)
(* What a run leaves behind of its markets: the lines of the csv files, if *)
(* the run exports its results, or the messages to the broker, if a job    *)
(* started it.  The run loop rotates the markets of the area tree, writes  *)
(* the markets that have ended, reports the running one, and may be        *)
(* stopped, paused, reset or interrupted at any tick; live events create   *)
(* and delete areas of a run that reports to the broker.                   *)
(*                                                                         *)
(* Slots are counted from the start of the run.  Of a market only its      *)
(* trades are kept; offers and bids are written by the same code.          *)
(***************************************************************************)
EXTENDS Integers, FiniteSets, FiniteSetsExt, Functions, SequencesExt

CONSTANTS
    Markets, Root,         \* areas that may have children; the root of the tree
    Assets, ParentOf,      \* other areas; area -> its parent
    Setups,                \* initial sets of assets
    Deals,                 \* who trades in which market: [area, seller, buyer]
    Settings,              \* [export, retain, age, ahead]: see settings
    LastSlot, TicksPerSlot,
    MaxTrades, MaxEvents, MaxPauses, MaxResets  \* bounds

ResultsAssumption ==
    /\ Root \in Markets /\ ParentOf \in [(Markets \cup Assets) \ {Root} -> Markets]
    /\ TicksPerSlot > 0 /\ LastSlot \in Nat
    /\ \A s \in Settings : s.age \in Nat /\ s.ahead \in Nat

VARIABLES
    settings,   \* export: results are written to files; retain: past markets are kept;
                \* age, ahead: slots settlement and future markets are open, 0: disabled
    pc,         \* start, run, slot, events, tick, end, finish, save, done, quit
    slot, now,  \* slot of the run loop; ticks that have passed
    stopped,
    assets,     \* assets in the tree
    markets,    \* kind -> market area -> slots of the open markets
    past,       \* kind -> market area -> slots of the past markets
    trades,     \* of all markets of this run
    lines,      \* kind -> area -> lines of its file, of all runs
    plots,      \* market area -> slots collected for the plots
    core,       \* flattened_area_core_stats_dict: area -> kind -> trades
    message,    \* the last message: slot and area uuids it names, core stats
    first,      \* history: kind -> area -> lines written before the last reset
    reported,   \* history: the trades a message has reported for the slot it names
    emptied,    \* history: market areas that have lost their last child
    counts      \* events, pauses, resets so far

vars == <<settings, pc, slot, now, stopped, assets, markets, past, trades, lines, plots, core,
          message, first, reported, emptied, counts>>
book == <<markets, past>>
files == <<lines, plots, first>>
broker == <<core, message, reported>>

Areas == Markets \cup Assets
Kinds == {"spot", "settlement", "future"}
NoSlot == -1
Header == [slot |-> NoSlot, trades |-> {}]
ToEach(v) == [k \in Kinds |-> [a \in Areas |-> v]]
NoStats == [k \in Kinds |-> {}]
-----------------------------------------------------------------------------
Children(a) == {c \in assets \cup (Markets \ {Root}) : ParentOf[c] = a}
Active == {a \in Markets : Children(a) # {}}
TradesIn(a, kind, s) == {t \in trades : t.area = a /\ t.kind = kind /\ t.slot = s}
SpotSlot(a) == IF markets["spot"][a] = {} THEN NoSlot ELSE Max(markets["spot"][a])

(* cycle_markets of an area with children at slot t; deactivated areas open *)
(* no new market.                                                           *)
Ends(kind, s, t) ==
    CASE kind = "spot" -> s < t
      [] kind = "settlement" -> s < t - settings.age
      [] kind = "future" -> s <= t
Kept(kind, s, t) ==
    \/ settings.retain
    \/ kind = "spot" /\ s >= t - (IF settings.age > 0 THEN settings.age ELSE 1)
    \/ kind = "settlement" /\ s >= t - settings.age - 1
Ended(a, kind, t) == {s \in markets[kind][a] : Ends(kind, s, t)}
PastAfter(a, kind, t) ==
    IF kind = "future" THEN {}
    ELSE {s \in past[kind][a] \cup Ended(a, kind, t) : Kept(kind, s, t)}
Opened(a, kind, t, deactivate) ==
    CASE kind = "spot" -> IF deactivate THEN {} ELSE {t}
      [] kind = "settlement" ->
            IF deactivate \/ settings.age = 0 \/ PastAfter(a, "spot", t) = {} THEN {}
            ELSE {Max(PastAfter(a, "spot", t))}
      [] kind = "future" -> IF settings.ahead = 0 THEN {} ELSE t + 1 .. t + settings.ahead
Cycle(cycled, t, deactivate) ==
    /\ markets' = [k \in Kinds |-> [a \in Markets |->
           IF a \notin cycled THEN markets[k][a]
           ELSE (markets[k][a] \ Ended(a, k, t)) \cup Opened(a, k, t, deactivate)]]
    /\ past' = [k \in Kinds |-> [a \in Markets |->
           IF a \in cycled THEN PastAfter(a, k, t) ELSE past[k][a]]]
-----------------------------------------------------------------------------
(* The csv files and the plots. *)

TradesOf(a, m, kind, s) ==
    IF a = m THEN TradesIn(m, kind, s) ELSE {t \in TradesIn(m, kind, s) : a \in {t.seller, t.buyer}}

(* export_data_factory: rows of an area without children are those of its  *)
(* parent's past markets; of the future market there are those of its      *)
(* first slot.                                                             *)
RowMarket(a, kind) == IF a \in Active \cup {Root} \/ kind = "future" THEN a ELSE ParentOf[a]
RowSlots(a, kind) ==
    IF kind # "future" THEN SetToSortSeq(past[kind][RowMarket(a, kind)], <)
    ELSE IF markets["future"][a] = {} THEN <<>> ELSE <<Min(markets["future"][a])>>
RowOf(a, kind, s) == [slot |-> s, trades |-> TradesOf(a, RowMarket(a, kind), kind, s)]
Rows(a, kind) ==
    LET slots == RowSlots(a, kind) IN [i \in 1 .. Len(slots) |-> RowOf(a, kind, slots[i])]

HasFile(a, kind) ==
    CASE kind = "spot" -> TRUE
      [] kind = "settlement" -> settings.age > 0
      [] kind = "future" -> settings.ahead > 0 /\ a \in Markets

(* data_to_csv: files are only ever appended to. *)
DataToCsv(isFirst) ==
    lines' = [k \in Kinds |-> [a \in Areas |->
        IF ~HasFile(a, k) THEN lines[k][a]
        ELSE lines[k][a] \o (IF isFirst THEN <<Header>> ELSE <<>>) \o Rows(a, k)]]

(* FileExportEndpoints: what is collected for the plots at every report. *)
UpdatePlotStats == plots' = [a \in Markets |-> plots[a] \o RowSlots(a, "spot")]
-----------------------------------------------------------------------------
(* The messages to the broker. *)

(* _populate_core_stats_and_sim_state: without a running spot market there *)
(* are no statistics; the past settlement market reported is the last.     *)
MarketOf(a) == IF a \in Markets THEN a ELSE ParentOf[a]
CoreStats(a, spot) ==
    IF spot = NoSlot THEN NoStats
    ELSE [k \in Kinds |->
        CASE k = "spot" -> TradesOf(a, MarketOf(a), k, spot)
          [] k = "settlement" ->
                IF a \in Assets \/ past[k][a] = {} THEN {} ELSE TradesIn(a, k, Max(past[k][a]))
          [] k = "future" -> IF a \in Assets THEN {}
                             ELSE {t \in trades : t.area = a /\ t.kind = k /\ t.slot \in markets[k][a]}]

(* _update_results_area_uuids *)
ResultUuids_WithAllAreas == DOMAIN core'
ResultUuids == Active \cup assets

(* Without a running spot market the last slot named is named again. *)
LastMarketSlot == IF SpotSlot(Root) = NoSlot THEN message.slot ELSE SpotSlot(Root)

ResultReport(stats) == [slot |-> LastMarketSlot, uuids |-> ResultUuids, core |-> stats]

(* update_stats: entries of areas that were deleted stay. *)
UpdateStats ==
    /\ core' = [a \in DOMAIN core \cup assets \cup Markets |->
           IF a \in assets \cup Markets THEN CoreStats(a, SpotSlot(MarketOf(a))) ELSE core[a]]
    /\ message' = ResultReport(core')
    /\ reported' = reported \cup
           {t \in UNION {core'[a][k] : a \in ResultUuids, k \in Kinds} :
               t.kind = "spot" => t.slot = message'.slot}

(* update_and_send_results *)
UpdateAndSendResults ==
    IF settings.export THEN UpdatePlotStats /\ UNCHANGED <<core, message, reported>>
    ELSE UpdateStats /\ UNCHANGED plots
-----------------------------------------------------------------------------
(* _init and the activation of the areas *)
Start ==
    /\ pc = "start" /\ pc' = "run"
    /\ Cycle(Active, 0, FALSE)
    /\ UNCHANGED <<settings, slot, now, stopped, assets, trades, files, broker, emptied, counts>>

(* run: a job reports that it is running. *)
Run ==
    /\ pc = "run" /\ pc' = "slot"
    /\ IF settings.export THEN UNCHANGED <<broker, plots>> ELSE UpdateAndSendResults
    /\ UNCHANGED <<settings, slot, now, stopped, assets, book, trades, lines, first, emptied, counts>>

CycleMarkets ==
    /\ pc = "slot" /\ slot <= LastSlot /\ pc' = "events"
    /\ Cycle(Active, now \div TicksPerSlot, FALSE)
    /\ UNCHANGED <<settings, slot, now, stopped, assets, trades, files, broker, emptied, counts>>

(* The event buffer of the tick; a parent without markets opens them. *)
CreateAsset(a) ==
    /\ pc \in {"events", "end"} /\ ~settings.export /\ a \notin assets
    /\ counts.events < MaxEvents /\ counts' = [counts EXCEPT !.events = @ + 1]
    /\ assets' = assets \cup {a}
    /\ IF markets["spot"][ParentOf[a]] = {} THEN Cycle({ParentOf[a]}, now \div TicksPerSlot, FALSE)
       ELSE UNCHANGED book
    /\ UNCHANGED <<settings, pc, slot, now, stopped, trades, files, broker, emptied>>
DeleteAsset(a) ==
    /\ pc \in {"events", "end"} /\ ~settings.export /\ a \in assets
    /\ counts.events < MaxEvents /\ counts' = [counts EXCEPT !.events = @ + 1]
    /\ assets' = assets \ {a}
    /\ emptied' = emptied \cup {p \in {ParentOf[a]} : Children(p) = {a}}
    /\ UNCHANGED <<settings, pc, slot, now, stopped, book, trades, files, broker>>

BeginTick ==
    /\ pc = "events" /\ pc' = "tick"
    /\ UNCHANGED <<settings, slot, now, stopped, assets, book, trades, files, broker, emptied, counts>>

(* _handle_paused: a paused job reports. *)
Pause ==
    /\ pc = "events" /\ ~settings.export /\ counts.pauses < MaxPauses
    /\ counts' = [counts EXCEPT !.pauses = @ + 1]
    /\ UpdateAndSendResults
    /\ UNCHANGED <<settings, pc, slot, now, stopped, assets, book, trades, lines, first, emptied>>

Trade(d, kind) ==
    /\ pc = "tick" /\ Cardinality(trades) < MaxTrades
    /\ {d.seller, d.buyer} \subseteq Children(d.area) \cup {d.area}
    /\ \E s \in markets[kind][d.area] :
          /\ kind = "spot" => s = SpotSlot(d.area)
          /\ trades' = trades \cup {[n |-> Cardinality(trades), area |-> d.area, kind |-> kind,
                                     slot |-> s, seller |-> d.seller, buyer |-> d.buyer]}
    /\ UNCHANGED <<settings, pc, slot, now, stopped, assets, book, files, broker, emptied, counts>>

Stop ==
    /\ pc = "tick" /\ ~stopped /\ stopped' = TRUE
    /\ UNCHANGED <<settings, pc, slot, now, assets, book, trades, files, broker, emptied, counts>>

EndTick ==
    /\ pc = "tick" /\ now' = now + 1
    /\ pc' = IF stopped THEN "finish" ELSE IF now' % TicksPerSlot = 0 THEN "end" ELSE "events"
    /\ UNCHANGED <<settings, slot, stopped, assets, book, trades, files, broker, emptied, counts>>

EndSlot ==
    /\ pc = "end" /\ slot' = slot + 1
    /\ pc' = IF slot = LastSlot THEN "finish" ELSE "slot"
    /\ IF settings.export THEN DataToCsv(slot = 0) ELSE UNCHANGED lines
    /\ UpdateAndSendResults
    /\ UNCHANGED <<settings, now, stopped, assets, book, trades, first, emptied, counts>>

(* _simulation_stopped_finish_actions: first the areas are deactivated. *)
Deactivate ==
    /\ pc = "finish" /\ pc' = "save"
    /\ Cycle(Active, now \div TicksPerSlot, TRUE)
    /\ UNCHANGED <<settings, slot, now, stopped, assets, trades, files, broker, emptied, counts>>
Save ==
    /\ pc = "save" /\ pc' = "done"
    /\ UpdateAndSendResults
    /\ IF settings.export THEN DataToCsv(FALSE) ELSE UNCHANGED lines
    /\ UNCHANGED <<settings, slot, now, stopped, assets, book, trades, first, emptied, counts>>

(* The console: q leaves the run, r starts it again, in the same files.    *)
Quit ==
    /\ pc = "events" /\ settings.export /\ pc' = "quit"
    /\ UNCHANGED <<settings, slot, now, stopped, assets, book, trades, files, broker, emptied, counts>>
Reset ==
    /\ pc = "events" /\ settings.export /\ counts.resets < MaxResets
    /\ counts' = [counts EXCEPT !.resets = @ + 1]
    /\ pc' = "start" /\ slot' = 0 /\ now' = 0
    /\ markets' = [k \in Kinds |-> [a \in Markets |-> {}]] /\ past' = markets'
    /\ trades' = {} /\ plots' = [a \in Markets |-> <<>>]
    /\ first' = [k \in Kinds |-> [a \in Areas |-> Len(lines[k][a])]]
    /\ UNCHANGED <<settings, stopped, assets, lines, broker, emptied>>
-----------------------------------------------------------------------------
Init ==
    /\ settings \in Settings /\ assets \in Setups
    /\ pc = "start" /\ slot = 0 /\ now = 0 /\ stopped = FALSE
    /\ markets = [k \in Kinds |-> [a \in Markets |-> {}]] /\ past = markets
    /\ trades = {} /\ lines = ToEach(<<>>) /\ plots = [a \in Markets |-> <<>>]
    /\ core = [a \in {} |-> NoStats] /\ message = [slot |-> NoSlot, uuids |-> {}, core |-> core]
    /\ first = ToEach(0) /\ reported = {} /\ emptied = {}
    /\ counts = [events |-> 0, pauses |-> 0, resets |-> 0]

Next ==
    \/ Start \/ Run \/ CycleMarkets \/ BeginTick \/ Pause \/ Stop \/ EndTick \/ EndSlot
    \/ Deactivate \/ Save \/ Quit \/ Reset
    \/ \E a \in Assets : CreateAsset(a) \/ DeleteAsset(a)
    \/ \E d \in Deals, k \in Kinds : Trade(d, k)

Spec == Init /\ [][Next]_vars
-----------------------------------------------------------------------------
(* Slots that have ended. *)
EndedSlots == 0 .. now \div TicksPerSlot - 1

(* A stop is noticed after the last tick of a slot: deactivation then ends *)
(* that slot before the one before it was written and before it was        *)
(* reported itself.                                                        *)
CutShort == stopped /\ now > 0 /\ now % TicksPerSlot = 0 /\ pc \notin {"tick", "events"}

Written(a, kind) == SubSeq(lines[kind][a], first[kind][a] + 1, Len(lines[kind][a]))
WrittenRows(a, kind) == SelectSeq(Written(a, kind), LAMBDA line : line # Header)

(* A market that is kept longer than the slot after it is written again.   *)
WrittenAgain(kind) == settings.retain \/ (kind = "spot" /\ settings.age > 1)

(* A file has its header first, and each row once, in the order of slots,  *)
(* with the trades its market has in the end: though a market is written a *)
(* slot after it has ended, from whichever past or first future market is  *)
(* still there.                                                            *)
RowsWrittenOnce ==
    settings.export /\ ~CutShort => \A k \in Kinds, a \in Areas :
        LET rows == WrittenRows(a, k) IN
        /\ slot > 0 /\ HasFile(a, k) => Written(a, k) # <<>> /\ Written(a, k)[1] = Header
        /\ ~WrittenAgain(k) => \A i \in DOMAIN rows :
              /\ i > 1 => rows[i].slot = rows[i - 1].slot + 1
              /\ rows[i].slot \in EndedSlots => rows[i] = RowOf(a, k, rows[i].slot)

(* When a run has been exported, by finishing or by a stop within a slot,  *)
(* every trade of a slot that has ended is in the files of its area and of *)
(* its parties, and so is every settlement trade of a market that closed.  *)
TradesExported ==
    pc = "done" /\ settings.export /\ ~CutShort => \A t \in trades :
        \/ t.slot \notin EndedSlots
        \/ t.kind = "settlement" /\ ~Ends("settlement", t.slot, now \div TicksPerSlot)
        \/ \E i \in DOMAIN Written(t.area, t.kind) :
              Written(t.area, t.kind)[i].slot = t.slot /\ t \in Written(t.area, t.kind)[i].trades

(* A broker has been sent every trade of the slots that have ended, in a   *)
(* message that names the slot, wherever the run was paused or stopped,    *)
(* and whichever assets were created or deleted; settlement trades when    *)
(* their market has closed, future trades a slot ahead.  Of a market area  *)
(* that has lost its last child the trades are withheld.                   *)
TradesReported ==
    ~settings.export /\ pc \in {"slot", "done"} /\ ~CutShort => \A t \in trades :
        \/ t.slot \notin EndedSlots \/ t.area \in emptied
        \/ t.kind = "settlement" /\ ~Ends("settlement", t.slot, now \div TicksPerSlot - 1)
        \/ t \in reported

(* A message reports for its areas trades of the spot market it names.     *)
ReportsOfItsSlot ==
    \A a \in message.uuids : \A t \in message.core[a]["spot"] :
        t.area \notin emptied => t.slot = message.slot
=============================================================================
