---------------------------- MODULE ProfileBuffers ----------------------------
(***************************************************************************)
(* The profiles of assets that are stored in the profiles database: the    *)
(* buffer the simulation reads in chunks, the profile each asset keeps of  *)
(* it, and the energy or the rate the asset derives for the slots of its   *)
(* spot and future markets.  Assets are created and deleted by live events *)
(* while the simulation runs.                                              *)
(*                                                                         *)
(* Time is counted in slots from the start of the simulation; a database   *)
(* may hold data of earlier or later times.  The value stored for time t   *)
(* is Value(t), which tells every time apart and is never 0, what code     *)
(* reads where there is no value.  A profile has one value per slot.       *)
(***************************************************************************)
EXTENDS Integers, FiniteSets, FiniteSetsExt, Functions, SequencesExt

CONSTANTS
    Profiles, Loads, Buses,  \* profile uuids; assets with an energy, with a rate profile
    TreeOrder,               \* the assets in the order of the area tree
    ProfileOf,               \* asset -> uuid
    Databases,               \* contents of the database: uuid -> set of times
    Setups,                  \* sets of assets in the setup module
    LastSlot, Window,        \* slots simulated, slots of a chunk
    Week,                    \* slots after which a weekly profile repeats
    Ahead,                   \* slots the future markets are open before delivery
    MaxEvents                \* bound on live events

Consumers == Loads \cup Buses
Times == -Week .. LastSlot + Ahead
Value(t) == t + Week + 1

ProfileAssumption ==
    /\ ProfileOf \in [Consumers -> Profiles] /\ ToSet(TreeOrder) = Consumers
    /\ Databases \subseteq [Profiles -> SUBSET Times]
    /\ Window > 0 /\ Week > 0 /\ Ahead \in Nat

VARIABLES
    canary,           \* GlobalConfig.is_canary_network
    stored,           \* the database
    pc, now,          \* phase of the start, spot slot
    user_profiles,    \* the buffer: uuid -> (time -> value), for uuids read so far
    buffered_times,
    present,          \* the assets of the area tree
    profile,          \* StrategyProfile.profile of each asset
    energy,           \* of a load: slot -> desired energy
    rate,             \* of a bus: the rate of its last offer
    failed,           \* an exception has ended the simulation
    refused,          \* the last live event was refused
    events,
    touched           \* history: the assets live events have created or deleted

config == <<canary, stored>>
vars == <<config, pc, now, user_profiles, buffered_times, present, profile, energy, rate,
          failed, refused, events, touched>>

None == [t \in {} |-> 0]
Chunk(times) == [t \in times |-> Value(t)]
Put(f, x, v) == [y \in DOMAIN f \cup {x} |-> IF y = x THEN v ELSE f[y]]
-----------------------------------------------------------------------------
(* ProfileDBConnectionHandler *)

(* get_first_data_from_profile: the first chunk of the profile, moved to   *)
(* start at slot t.  A canary network takes only data of slot t itself.    *)
HasFirstData(u) == canary \/ stored[u] # {}
FirstData(u, t) ==
    IF canary THEN Chunk(stored[u] \cap (t .. t + 1))
    ELSE LET first == Min(stored[u])
             times == stored[u] \cap (first .. first + Window)
         IN  [s \in {x - first + t : x \in times} |-> Value(s - t + first)]
FirstDataIn(u, t) == IF canary /\ t \notin stored[u] THEN None ELSE FirstData(u, t)

(* _get_profile_uuids_from_setup *)
Present(order) == SelectSeq(order, LAMBDA a : a \in present)
SetupUuids == [i \in 1 .. Len(Present(TreeOrder)) |-> ProfileOf[Present(TreeOrder)[i]]]

(* _get_start_end_time *)
ChunkTimes(t) == IF canary THEN t .. t + 1 ELSE t .. t + Window - 1

Buffered(t) ==
    [u \in DOMAIN user_profiles \cup ToSet(SetupUuids) |->
        IF u \in ToSet(SetupUuids) THEN Chunk(stored[u] \cap ChunkTimes(t)) ELSE user_profiles[u]]
Empty(buffer) == {u \in DOMAIN buffer : buffer[u] = None}

(* _buffer_all_profiles: profiles without data for the chunk start over,   *)
(* also those no asset uses any more.                                      *)
BufferAllProfiles(t) ==
    LET buffer == Buffered(t)
    IN  [u \in DOMAIN buffer |->
            IF ~canary /\ u \in Empty(buffer) THEN FirstDataIn(u, t) ELSE buffer[u]]
BufferFails(t) == ~canary /\ \E u \in Empty(Buffered(t)) : ~HasFirstData(u)

(* _buffer_time_slots looks at the first profile only. *)
TimeSlots(buffer) == IF SetupUuids = <<>> THEN {} ELSE DOMAIN buffer[SetupUuids[1]]

ShouldBufferProfiles_EmptyOnly(t) == canary \/ buffered_times = {}
ShouldBufferProfiles(t) == canary \/ buffered_times = {} \/ t \notin buffered_times

(* buffer_profiles_from_db, as the new values of the buffer. *)
BufferProfilesFromDb(t) ==
    IF ~ShouldBufferProfiles(t)
    THEN [fails |-> FALSE, profiles |-> user_profiles, times |-> buffered_times]
    ELSE IF BufferFails(t)
    THEN [fails |-> TRUE, profiles |-> user_profiles, times |-> buffered_times]
    ELSE [fails |-> FALSE, profiles |-> BufferAllProfiles(t), times |-> TimeSlots(BufferAllProfiles(t))]

SetBuffer(b) == user_profiles' = b.profiles /\ buffered_times' = b.times
-----------------------------------------------------------------------------
(* ProfilesHandler and StrategyProfile *)

TimeToRotateProfile(p, t) == t \notin DOMAIN p

(* read_new_datapoints_from_buffer_or_rotate_profile; reading a profile    *)
(* that has never been buffered raises a KeyError.                         *)
Known(a, buffer) == ProfileOf[a] \in DOMAIN buffer
NewDatapoints(a, buffer, t) ==
    IF buffer[ProfileOf[a]] # None THEN buffer[ProfileOf[a]] ELSE FirstDataIn(ProfileOf[a], t)

(* _add_last_slot_value_to_new_profile_rotation *)
WithLastSlotValue(p, chunk) ==
    IF p = None \/ Max(DOMAIN p) \in DOMAIN chunk THEN chunk
    ELSE Put(chunk, Max(DOMAIN p), p[Max(DOMAIN p)])

ReadFails(a, buffer, t) == TimeToRotateProfile(profile[a], t) /\ ~Known(a, buffer)
ReadOrRotate(a, buffer, t) ==
    IF TimeToRotateProfile(profile[a], t)
    THEN WithLastSlotValue(profile[a], NewDatapoints(a, buffer, t))
    ELSE profile[a]

(* get_value; a canary network falls back to the same time of the week. *)
SameTimeOfWeek(p, t) == {s \in DOMAIN p : s % Week = t % Week}
GetValue(p, t) ==
    IF t \in DOMAIN p THEN p[t]
    ELSE IF canary /\ SameTimeOfWeek(p, t) # {} THEN p[Min(SameTimeOfWeek(p, t))]
    ELSE 0

(* update_energy_requirement: a slot whose energy is set keeps it; without *)
(* any profile a canary network sets nothing.  Past slots are deleted.     *)
MarketSlots(t) == t .. t + Ahead
EnergyRequirement(a, p, t) ==
    LET slots == {s \in DOMAIN energy[a] : s >= t - 1} \cup (IF p = None THEN {} ELSE MarketSlots(t))
    IN  [s \in slots |-> IF s \in DOMAIN energy[a] THEN energy[a][s] ELSE GetValue(p, s)]
-----------------------------------------------------------------------------
(* activate and load_setup_module: a bus reads its profile when it is      *)
(* created.                                                                *)
LoadSetup ==
    /\ pc = "load" /\ pc' = "buffer"
    /\ failed' = (\E a \in present \cap Buses : ReadFails(a, user_profiles, 0))
    /\ UNCHANGED <<config, now, user_profiles, buffered_times, present, profile, energy, rate,
                   refused, events, touched>>

FirstBuffer ==
    /\ pc = "buffer" /\ ~failed /\ pc' = "run"
    /\ LET b == BufferProfilesFromDb(0) IN SetBuffer(b) /\ failed' = b.fails
    /\ UNCHANGED <<config, now, present, profile, energy, rate, refused, events, touched>>

(* _cycle_markets of the simulation: the chunk is read, then every asset   *)
(* rotates its profile.                                                    *)
CycleMarkets ==
    /\ pc = "run" /\ ~failed /\ now < LastSlot
    /\ now' = now + 1 /\ refused' = FALSE
    /\ \E b \in {BufferProfilesFromDb(now + 1)} :
          /\ SetBuffer(b)
          /\ failed' = (b.fails \/ \E a \in present :
                \/ ReadFails(a, b.profiles, now + 1)
                \/ ~canary /\ a \in Loads /\ ReadOrRotate(a, b.profiles, now + 1) = None)
          /\ \E active \in {IF failed' THEN {} ELSE present} :
                /\ profile' = [a \in Consumers |->
                       IF a \in active THEN ReadOrRotate(a, b.profiles, now + 1) ELSE None]
                /\ energy' = [a \in Loads |->
                       IF a \in active THEN EnergyRequirement(a, profile'[a], now + 1) ELSE None]
                /\ rate' = [a \in Buses |->
                       IF a \in active THEN GetValue(profile'[a], now + 1) ELSE 0]
    /\ UNCHANGED <<config, pc, present, events, touched>>

(* handle_all_events: the chunk is read for the assets there are before    *)
(* the event is applied.                                                   *)
LiveEvent(a) ==
    /\ touched' = touched \cup {a}
    /\ pc = "run" /\ ~failed /\ now >= 0 /\ events < MaxEvents /\ events' = events + 1
    /\ LET b == BufferProfilesFromDb(now) IN SetBuffer(b) /\ failed' = b.fails
    /\ UNCHANGED <<config, pc, now, rate>>
CreateAsset(a) ==
    /\ LiveEvent(a) /\ a \notin present
    /\ refused' = (~failed' /\ ReadFails(a, user_profiles', now))
    /\ IF failed' \/ refused' THEN UNCHANGED <<present, profile>>
       ELSE /\ present' = present \cup {a}
            /\ profile' = [profile EXCEPT ![a] = ReadOrRotate(a, user_profiles', now)]
    /\ UNCHANGED energy
DeleteAsset(a) ==
    /\ LiveEvent(a) /\ a \in present
    /\ present' = IF failed' THEN present ELSE present \ {a}
    /\ profile' = [profile EXCEPT ![a] = IF failed' THEN @ ELSE None]
    /\ energy' = IF failed' \/ a \in Buses THEN energy ELSE [energy EXCEPT ![a] = None]
    /\ refused' = FALSE
-----------------------------------------------------------------------------
Init ==
    /\ canary \in BOOLEAN /\ stored \in Databases /\ present \in Setups
    /\ pc = "load" /\ now = -1
    /\ user_profiles = [u \in {} |-> None] /\ buffered_times = {}
    /\ profile = [a \in Consumers |-> None] /\ energy = [a \in Loads |-> None]
    /\ rate = [a \in Buses |-> 0]
    /\ failed = FALSE /\ refused = FALSE /\ events = 0 /\ touched = {}

Next ==
    \/ LoadSetup \/ FirstBuffer \/ CycleMarkets
    \/ \E a \in Consumers : CreateAsset(a) \/ DeleteAsset(a)

Spec == Init /\ [][Next]_vars
-----------------------------------------------------------------------------
(* A load that no live event has touched. *)
Settled == {a \in (present \cap Loads) \ touched : now \in DOMAIN energy[a]}

(* As long as the database holds data of the current slot, a load consumes *)
(* these data: whatever the other profiles hold, however often chunks are  *)
(* read, and whichever asset comes first in the tree.  Excepted is a chunk *)
(* whose times are those of a profile moved from another time: it is a     *)
(* slot longer than what was read of the other profiles.                   *)
EnergyFollowsDatabase ==
    ~failed /\ Cardinality(buffered_times) <= Window =>
        \A a \in Settled : now \in stored[ProfileOf[a]] => energy[a][now] = Value(now)

(* When a profile is rotated the value of the slot that has just ended is  *)
(* kept, if the database has it: the settlement market and the statistics  *)
(* measure it against the energy that was traded.  Of a profile moved from *)
(* another time the next chunk may put another value in its place.         *)
LastSlotKept ==
    ~failed => \A a \in Settled :
        now - 1 \in DOMAIN energy[a] \cap stored[ProfileOf[a]] =>
            GetValue(profile[a], now - 1) = energy[a][now - 1]

(* Reading a chunk or a profile ends the simulation only if a profile of   *)
(* the tree has no data at all, or if a bus of the setup reads its profile *)
(* before anything was buffered.                                           *)
FailsOnlyWithoutData ==
    failed => \/ \E u \in Profiles : stored[u] = {}
              \/ pc = "buffer" /\ present \cap Buses # {}

(* A setup all of whose profiles are in the database can be loaded.        *)
SetupIsLoaded == failed => \E u \in Profiles : stored[u] = {}
=============================================================================
