---------------------------- MODULE HotDataIndex ----------------------------
(***************************************************************************)
(* HotDataIndex (hot_data_index.cpp): access counts and heat scores, their *)
(* decay, and the promotions and demotions they lead to.  S3 sessions call *)
(* RecordAccess and then promote an object themselves if its score is      *)
(* above the threshold; decay_loop and tier_maintenance_loop walk all      *)
(* entries.  Everything but the sessions' own promotion runs under mutex_. *)
(*                                                                         *)
(* Age is counted in units; the recency bonus ends at Horizon (24 h), and  *)
(* Horizon + 1 stands for every later time.  PromoteObject and             *)
(* DemoteObject move the object (TieredStore has their steps) or fail,     *)
(* within the budget MaxFaults; of the storage only which objects are in   *)
(* the Hot tier is kept.  The two priority queues are read by nothing but  *)
(* GetTopHotObjects and are left out.                                      *)
(***************************************************************************)
EXTENDS Integers, FiniteSets

CONSTANTS
    Objects, Sessions,
    min_hot_access_count, hot_threshold_score,
    DecayNum, DecayDen,     \* decay_factor_ as a fraction
    Horizon, Weight,        \* the bonus is Weight for each unit left to Horizon
    MaxAccesses,            \* bound on the requests
    MaxFaults               \* bound on moves that fail

\* The configured values are positive.  The constructor replaces others by defaults of
\* its own, but handle_get_object's second test is of the configured threshold: they
\* would then differ.
ASSUME ThresholdAssumption ==
    min_hot_access_count \in Nat \ {0} /\ hot_threshold_score \in Nat \ {0}
ASSUME DecayAssumption == DecayNum \in Nat \ {0} /\ DecayDen \in Nat /\ DecayNum <= DecayDen
ASSUME BoundAssumption == {Horizon, Weight, MaxAccesses, MaxFaults} \subseteq Nat
ASSUME FiniteAssumption == IsFiniteSet(Objects)

VARIABLES
    access_count, age, heat_score, is_hot,  \* the entries; age is now - last_access
    in_hot,             \* objects in the Hot tier
    running, awake,     \* running_; loops that are past their wait
    pc, arg, rounds,    \* each session: position, object, promotions it may still try
    accesses, faults,
    refused,            \* objects whose last move by the index failed (history)
    overtaken           \* objects demoted after a session read their score (history)

entries  == <<access_count, age, heat_score, is_hot>>
loops    == <<running, awake>>
session  == <<pc, arg, rounds>>
history  == <<refused, overtaken>>
vars     == <<entries, in_hot, loops, session, accesses, faults, history>>

\* The type of every variable.
TypeOK ==
    /\ access_count \in [Objects -> Nat]
    /\ age \in [Objects -> 0..Horizon + 1]
    /\ heat_score \in [Objects -> Nat]
    /\ is_hot \in [Objects -> BOOLEAN]
    /\ in_hot \subseteq Objects
    /\ running \in BOOLEAN /\ awake \subseteq {"decay", "maintenance"}
    /\ pc \in [Sessions -> {"idle", "score", "promote"}]
    /\ arg \in [Sessions -> Objects] /\ rounds \in [Sessions -> 0..2]
    /\ accesses \in Nat /\ faults \in Nat
    /\ refused \subseteq Objects /\ overtaken \subseteq Objects

\* An entry that is not in index_ yet reads as one without accesses.
Init ==
    /\ access_count = [o \in Objects |-> 0]
    /\ age = [o \in Objects |-> Horizon + 1]
    /\ heat_score = [o \in Objects |-> 0]
    /\ is_hot = [o \in Objects |-> FALSE]
    /\ in_hot = {}
    /\ running = TRUE /\ awake = {}
    /\ pc = [s \in Sessions |-> "idle"]
    /\ \E o \in Objects : arg = [s \in Sessions |-> o]
    /\ rounds = [s \in Sessions |-> 0]
    /\ accesses = 0 /\ faults = 0
    /\ refused = {} /\ overtaken = {}

\* (mutation) the bonus turns into a penalty
HeatUnclamped(count, a) == count + (Horizon - a) * Weight

\* update_heat_score: a point for each access, and a bonus for recency.
Heat(count, a) == count + (IF a < Horizon THEN (Horizon - a) * Weight ELSE 0)

\* promote_to_hot for the objects in up, demote_from_hot for those in down: the
\* flag changes only if the move succeeds.  A promotion of an object that is in
\* the Hot tier succeeds; any other move may fail.
Move(up, down) ==
    \E bad \in SUBSET ((up \ in_hot) \cup down) :
        /\ faults' = faults + Cardinality(bad) /\ faults' <= MaxFaults
        /\ is_hot' = [o \in Objects |->
              IF o \in bad THEN is_hot[o] ELSE o \in up \/ (is_hot[o] /\ o \notin down)]
        /\ in_hot' = (in_hot \ (down \ bad)) \cup (up \ bad)
        /\ refused' = (refused \ (up \cup down)) \cup bad
        /\ overtaken' = (overtaken \ (up \ bad)) \cup
              {o \in down \ bad : \E s \in Sessions : arg[s] = o /\ pc[s] = "promote"}

-----------------------------------------------------------------------------
(* The sessions: RecordAccess, then one more promotion after a put, up to  *)
(* two after a get.                                                        *)

\* Count the access; promote an entry that is not hot and has become so by count
\* or by score.
RecordAccess(s, o, n) ==
    /\ pc[s] = "idle" /\ accesses < MaxAccesses
    /\ accesses' = accesses + 1
    /\ access_count' = [access_count EXCEPT ![o] = @ + 1]
    /\ age' = [age EXCEPT ![o] = 0]
    /\ heat_score' = [heat_score EXCEPT ![o] = Heat(access_count[o] + 1, 0)]
    /\ Move(IF /\ ~is_hot[o]
               /\ \/ access_count'[o] >= min_hot_access_count
                  \/ heat_score'[o] >= hot_threshold_score
               THEN {o} ELSE {},
            {})
    /\ pc' = [pc EXCEPT ![s] = "score"]
    /\ arg' = [arg EXCEPT ![s] = o]
    /\ rounds' = [rounds EXCEPT ![s] = n]
    /\ UNCHANGED loops

\* Go on to the next look at the score, or to the next request.
Resume(s) ==
    /\ rounds' = [rounds EXCEPT ![s] = @ - 1]
    /\ pc' = [pc EXCEPT ![s] = IF rounds[s] > 1 THEN "score" ELSE "idle"]

\* (mutation) a session promotes whatever it has accessed
PromoteUntested(s) ==
    /\ pc[s] = "score"
    /\ pc' = [pc EXCEPT ![s] = "promote"]
    /\ UNCHANGED <<entries, in_hot, loops, arg, rounds, accesses, faults, history>>

\* The score is read under mutex_, and acted on without it.
GetHeatScore(s) ==
    /\ pc[s] = "score"
    /\ IF heat_score[arg[s]] > hot_threshold_score
          THEN pc' = [pc EXCEPT ![s] = "promote"] /\ UNCHANGED rounds
          ELSE Resume(s)
    /\ UNCHANGED <<entries, in_hot, loops, arg, accesses, faults, history>>

\* storage_.PromoteObject: its result is not looked at, and no flag is set.
PromoteObject(s) ==
    /\ pc[s] = "promote"
    /\ \/ in_hot' = in_hot \cup {arg[s]} /\ UNCHANGED faults
       \/ /\ arg[s] \notin in_hot /\ faults < MaxFaults
          /\ faults' = faults + 1
          /\ UNCHANGED in_hot
    /\ Resume(s)
    /\ UNCHANGED <<entries, loops, arg, accesses, history>>

-----------------------------------------------------------------------------
(* The two loops over all entries.                                         *)

\* The interval has passed: a loop that has tested running_ makes its pass even
\* if Stop comes now.
Wake(loop) ==
    /\ running /\ loop \notin awake
    /\ awake' = awake \cup {loop}
    /\ UNCHANGED <<entries, in_hot, running, session, accesses, faults, history>>

\* Count and score of every entry in counted decay; of these, the hot ones whose
\* score falls below half the threshold are demoted.
Decay(counted) ==
    LET Count(o) == (access_count[o] * DecayNum) \div DecayDen
    IN /\ "decay" \in awake
       /\ awake' = awake \ {"decay"}
       /\ access_count' = [o \in Objects |->
             IF o \in counted THEN Count(o) ELSE access_count[o]]
       /\ heat_score' = [o \in Objects |->
             IF o \in counted THEN Heat(Count(o), age[o]) ELSE heat_score[o]]
       /\ Move({}, {o \in counted :
                      is_hot[o] /\ 2 * Heat(Count(o), age[o]) < hot_threshold_score})
       /\ UNCHANGED <<age, running, session, accesses>>

\* (mutation) the count is decayed while it is above 1
DecayAboveOne == Decay({o \in Objects : access_count[o] > 1})

\* A pass of decay_loop: an entry whose count is 0 is skipped, score and all.
DecayPass == Decay({o \in Objects : access_count[o] > 0})

\* A pass of tier_maintenance_loop, which takes the scores as they are: demote
\* below half the threshold, promote above one and a half.
MaintenancePass ==
    /\ "maintenance" \in awake
    /\ awake' = awake \ {"maintenance"}
    /\ Move({o \in Objects : ~is_hot[o] /\ 2 * heat_score[o] > 3 * hot_threshold_score},
            {o \in Objects : is_hot[o] /\ 2 * heat_score[o] < hot_threshold_score})
    /\ UNCHANGED <<access_count, age, heat_score, running, session, accesses>>

\* Time passes.
Tick ==
    /\ \E o \in Objects : age[o] <= Horizon
    /\ age' = [o \in Objects |-> IF age[o] <= Horizon THEN age[o] + 1 ELSE age[o]]
    /\ UNCHANGED <<access_count, heat_score, is_hot, in_hot, loops, session, accesses,
                   faults, history>>

Stop ==
    /\ running
    /\ running' = FALSE
    /\ UNCHANGED <<entries, in_hot, awake, session, accesses, faults, history>>

Next ==
    \/ \E s \in Sessions :
          \/ \E o \in Objects, n \in 1..2 : RecordAccess(s, o, n)
          \/ GetHeatScore(s) \/ PromoteObject(s)
    \/ Wake("decay") \/ Wake("maintenance")
    \/ DecayPass \/ MaintenancePass \/ Tick \/ Stop

\* The decay thread comes back after decay_interval_, and time passes.  Nothing in
\* the source starts tier_maintenance_loop, and nobody has to send requests.
Fairness == WF_vars(Wake("decay")) /\ WF_vars(DecayPass) /\ WF_vars(Tick)

Spec == Init /\ [][Next]_vars /\ Fairness

-----------------------------------------------------------------------------
(* The index knows what is in the Hot tier: an object there is hot, unless *)
(* the index failed to move it, or demoted it between a session's look at  *)
(* its score and the promotion that followed.  An object the index does    *)
(* not know to be there stays, because only hot entries are demoted.       *)
HotTierIsTracked ==
    \A o \in in_hot \ (refused \cup overtaken) : is_hot[o]

\* No loop will look at the entry again: its count is 0, and its score is stuck
\* too high, or the demotion that came with the last decay failed.
Frozen(o) ==
    /\ access_count[o] = 0
    /\ (2 * heat_score[o] >= hot_threshold_score) \/ (o \in refused)

(* A hot entry cools down or freezes: it is demoted, or its count decays   *)
(* to 0 while the bonus still holds its score at half the threshold or     *)
(* above, or a demotion of it fails; an entry whose count is 0 is not      *)
(* looked at again.                                                        *)
CoolsOrFreezes ==
    \A o \in Objects : is_hot[o] ~> (~is_hot[o] \/ ~running \/ Frozen(o))

-----------------------------------------------------------------------------
(* The inductive invariant behind HotTierIsTracked.                        *)

\* A score is that of the last access or pass, and time only lowers it.
ScoresCover == \A o \in Objects : Heat(access_count[o], age[o]) <= heat_score[o]

\* The entry is hot, or it is noted why it is not.
Known(o) == is_hot[o] \/ o \in refused \/ o \in overtaken

\* Whatever a session is about to promote, or may promote next, is known.
PromotedIsKnown ==
    /\ \A o \in Objects : heat_score[o] > hot_threshold_score => Known(o)
    /\ \A s \in Sessions : pc[s] = "promote" => Known(arg[s])

\* A session that looks at the score may still try a promotion.
RoundsLeft == \A s \in Sessions : pc[s] # "idle" => rounds[s] # 0

Inv == TypeOK /\ ScoresCover /\ PromotedIsKnown /\ RoundsLeft /\ HotTierIsTracked
=============================================================================
