---------------------------- MODULE StageManager ----------------------------
(***************************************************************************)
(* The owner of the match: StageManager of hsl_core/match.py.  It holds    *)
(* the phase and the deadlines of the stage, weighs estimated and official *)
(* events into one outcome, and derives the permission to move.            *)
(*                                                                         *)
(* Every method holds the manager's lock for all of its body, so a call is *)
(* one action.  Each takes the caller's clock: times are the clock values  *)
(* 0..MaxTime, and MaxTime also stands for the largest timestamp           *)
(* (1 << 63) - 1, beyond which no deadline may lie.                        *)
(*                                                                         *)
(* Calls without an effect are not told apart: a call that is repeated,    *)
(* comes when the request records are full, or carries a rejected event    *)
(* moves the clock like Snapshot; a refused request also takes a record;   *)
(* an event that comes when the event records are full changes nothing.    *)
(* The clock epoch changes only together with the stage, so the stage      *)
(* number stands for both, and for stage_id.  Left out: the role, the zone *)
(* the robot starts from, the audit journal and the retained memory.       *)
(***************************************************************************)
EXTENDS Integers, FiniteSets

CONSTANTS
    Events,         \* RuleEvent values a source may deliver, predicate TRUE
    Zones,          \* ids of target zones with an approved reference
    ResetNames,     \* _RESET_ACKS
    EpochNames,     \* _EPOCH_ACKS
    FreezeDuration, StageDuration, ZoneWindow,
    MaxRequests,    \* max_request_records
    MaxEvents,      \* max_event_records
    AllowSimTruth,  \* allow_sim_truth_terminal
    MaxTime,        \* the largest timestamp
    MaxStages,      \* bound: stage identities of a behaviour
    MaxEpochs,      \* bound: localization epochs of a behaviour
    NoZone, NoEvent

Phases == {"INIT", "FREEZE", "ACTIVE", "TERMINAL"}
Evidences == {"ESTIMATE", "SIM_TRUTH", "OFFICIAL"}
EventKinds == {"CAPTURE", "ARRIVAL", "OFFICIAL_ABORT"}
TerminalKinds == EventKinds \cup {"NONE", "TIMEOUT", "AMBIGUOUS"}

Rank(evidence) == CASE evidence = "ESTIMATE" -> 0
                    [] evidence = "SIM_TRUTH" -> 1
                    [] evidence = "OFFICIAL" -> 2

EventType ==
    [id : Nat, stage : 1..MaxStages, epoch : 1..MaxEpochs, kind : EventKinds,
     evidence : Evidences, lower : 0..MaxTime, upper : 0..MaxTime,
     zone : Zones \cup {NoZone}]

(* StageProfile.__post_init__                                              *)
ProfileValid ==
    /\ FreezeDuration \in Nat \ {0}
    /\ StageDuration \in Nat /\ FreezeDuration < StageDuration
    /\ ZoneWindow \in 0..FreezeDuration
    /\ {MaxRequests, MaxEvents} \subseteq Nat \ {0}
    /\ AllowSimTruth \in BOOLEAN

ASSUME StageAssumption ==
    /\ ProfileValid
    /\ Events \subseteq EventType
    /\ \A e \in Events : e.lower <= e.upper
    /\ {MaxStages, MaxEpochs} \subseteq Nat \ {0}
    /\ MaxTime \in Nat
    /\ NoZone \notin Zones
    /\ NoEvent \notin EventType
    /\ ResetNames # {} /\ EpochNames # {}

VARIABLES
    lastNow,      \* _last_now_ns
    stage,        \* _stage_id, also the clock epoch
    started,      \* _stage_started_at_ns; the two deadlines follow from it
    outcome,      \* _phase, _event_hold, _held_event, _terminal_kind, _terminal_evidence
    pending,      \* _pending_estimates
    officials,    \* _official_events
    accepted,     \* _event_ids
    target,       \* the accepted target zone of _zones
    requests,     \* number of _operations
    epoch,        \* profile.localization_epoch
    resetPending, resetAcks,    \* _reset_barrier_pending, _reset_acks
    epochPending, epochAcks     \* _epoch_barrier_pending, _epoch_acks

barriers == <<resetPending, resetAcks, epochPending, epochAcks>>
evidence == <<pending, officials, accepted>>
vars == <<lastNow, stage, started, outcome, pending, officials, accepted,
          target, requests, epoch, resetPending, resetAcks, epochPending, epochAcks>>

FreezeEnds == started + FreezeDuration
StageEnds == started + StageDuration

Undecided(phase) ==
    [phase |-> phase, hold |-> FALSE, held |-> NoEvent,
     kind |-> "NONE", evidence |-> "ESTIMATE"]

Decided(kind, strength) ==
    [phase |-> "TERMINAL", hold |-> kind = "AMBIGUOUS", held |-> NoEvent,
     kind |-> kind, evidence |-> strength]

OfficiallyDecided(o) == o.phase = "TERMINAL" /\ o.evidence = "OFFICIAL"

-----------------------------------------------------------------------------
(* Time.                                                                   *)

(* A deadline that waits until no hold is left.                            *)
PastDeadlineUnheld(o, start, now) ==
    o.phase \in {"FREEZE", "ACTIVE"} /\ now >= start + StageDuration /\ ~o.hold

PastDeadline(o, start, now) ==
    o.phase \in {"FREEZE", "ACTIVE"} /\ now >= start + StageDuration

PastFreeze(o, start, now) ==
    o.phase = "FREEZE" /\ now >= start + FreezeDuration /\ now < start + StageDuration

(* A timeout that leaves the hold of an estimate standing.                 *)
TimedOutHeld(o) == [o EXCEPT !.phase = "TERMINAL", !.kind = "TIMEOUT"]

(* _set_timeout                                                            *)
TimedOut(o) == Decided("TIMEOUT", "ESTIMATE")

(* _advance_time: what the outcome o of a stage has become at time now.    *)
AtTime(o, start, now) ==
    CASE PastDeadline(o, start, now) -> TimedOut(o)
      [] PastFreeze(o, start, now)   -> [o EXCEPT !.phase = "ACTIVE"]
      [] OTHER                       -> o

-----------------------------------------------------------------------------
(* Adjudication.                                                           *)

(* The order in which events are compared: times first, then the ids.      *)
Before(a, b) ==
    \/ a.lower < b.lower
    \/ a.lower = b.lower /\ a.upper < b.upper
    \/ a.lower = b.lower /\ a.upper = b.upper /\ a.id < b.id

(* Intervals that only touch do not conflict.                              *)
ConflictsTouching(events) ==
    {p \in events \X events :
        /\ Before(p[1], p[2])
        /\ p[1].kind # p[2].kind
        /\ p[1].upper > p[2].lower}

Conflicts(events) ==
    {p \in events \X events :
        /\ Before(p[1], p[2])
        /\ p[1].kind # p[2].kind
        /\ p[1].upper >= p[2].lower}

FirstConflict(events) ==
    CHOOSE p \in Conflicts(events) :
        \A q \in Conflicts(events) :
            p = q \/ Before(p[1], q[1]) \/ (p[1] = q[1] /\ Before(p[2], q[2]))

Earliest(events) == CHOOSE e \in events : \A f \in events : e = f \/ Before(e, f)

Strongest(events) ==
    (CHOOSE e \in events : \A f \in events : Rank(f.evidence) <= Rank(e.evidence)).evidence

Sole(events) ==
    IF Cardinality(events) = 1 THEN CHOOSE e \in events : TRUE ELSE NoEvent

(* A hold for the estimate that has a name, and none for several.          *)
HeldForSole(o, pend) ==
    [o EXCEPT !.hold = Sole(pend) # NoEvent, !.held = Sole(pend), !.kind = "NONE"]

HeldFor(o, pend) ==
    [o EXCEPT !.hold = pend # {}, !.held = Sole(pend), !.kind = "NONE"]

Ambiguous(events) ==
    LET p == FirstConflict(events)
    IN  Decided("AMBIGUOUS", Strongest({p[1], p[2]}))

(* _terminalize_official_events, on the outcome o.  An estimate that       *)
(* conflicts with another one holds an active stage; it takes an official  *)
(* event to end it.                                                        *)
Adjudicated(o, off, pend) ==
    IF Conflicts(off \cup pend) # {} THEN
        CASE off # {}           -> Ambiguous(off \cup pend)
          [] off = {} /\ o.phase = "ACTIVE" ->
                [o EXCEPT !.hold = TRUE, !.held = NoEvent, !.kind = "NONE"]
          [] OTHER              -> [o EXCEPT !.held = NoEvent]
    ELSE
        CASE off # {}           -> Decided(Earliest(off).kind, Strongest(off))
          [] off = {} /\ o.phase # "TERMINAL" -> HeldFor(o, pend)
          [] OTHER              -> o

-----------------------------------------------------------------------------
StageInit ==
    /\ lastNow = 0
    /\ stage = 1
    /\ started = 0
    /\ outcome = Undecided("INIT")
    /\ pending = {} /\ officials = {} /\ accepted = {}
    /\ target = NoZone
    /\ requests = 0
    /\ epoch = 1
    /\ resetPending = FALSE /\ resetAcks = {}
    /\ epochPending = FALSE /\ epochAcks = {}

(* snapshot, and every call that has no effect but on the clock.           *)
Snapshot(t) ==
    /\ t \in lastNow..MaxTime
    /\ lastNow' = t
    /\ outcome' = AtTime(outcome, started, t)
    /\ UNCHANGED <<stage, started, evidence, target, requests, epoch, barriers>>

MotionAuthorized ==
    /\ outcome.phase = "ACTIVE"
    /\ ~outcome.hold
    /\ ~resetPending
    /\ ~epochPending

(* MatchState.__post_init__, of what snapshot would hand out.              *)
MatchStateValid ==
    /\ IF outcome.phase = "INIT" THEN started = 0
       ELSE started < FreezeEnds /\ FreezeEnds < StageEnds
    /\ outcome.phase # "TERMINAL" => outcome.kind = "NONE"
    /\ outcome.phase = "TERMINAL" =>
          /\ outcome.kind # "NONE"
          /\ outcome.hold <=> outcome.kind = "AMBIGUOUS"
    /\ outcome.hold => outcome.phase \in {"ACTIVE", "TERMINAL"}
    /\ MotionAuthorized => outcome.phase = "ACTIVE" /\ ~outcome.hold

(* A request remembered without a look at the number of records.           *)
RequestUnbounded(t) ==
    /\ t \in lastNow..MaxTime
    /\ lastNow' = t
    /\ requests' = requests + 1

(* A new request: the clock moves, and the answer takes a record.          *)
Request(t) ==
    /\ t \in lastNow..MaxTime
    /\ lastNow' = t
    /\ requests < MaxRequests
    /\ requests' = requests + 1

RefusedRequest(t) ==
    /\ Request(t)
    /\ outcome' = AtTime(outcome, started, t)
    /\ UNCHANGED <<stage, started, evidence, target, epoch, barriers>>

(* A start that is taken in any phase of the stage.                        *)
StartStageAgain(t, stamp) ==
    /\ Request(t)
    /\ ~resetPending /\ ~epochPending
    /\ stamp <= t
    /\ stamp + StageDuration <= MaxTime
    /\ started' = stamp
    /\ outcome' = AtTime(Undecided("FREEZE"), stamp, t)
    /\ pending' = {} /\ officials' = {} /\ accepted' = {}
    /\ UNCHANGED <<stage, target, epoch, barriers>>

(* stamp is official_start_stamp_ns, which may lie in the past.            *)
StartStage(t, stamp) ==
    /\ Request(t)
    /\ outcome.phase = "INIT"
    /\ ~resetPending /\ ~epochPending
    /\ stamp <= t
    /\ stamp + StageDuration <= MaxTime
    /\ started' = stamp
    /\ outcome' = AtTime(Undecided("FREEZE"), stamp, t)
    /\ pending' = {} /\ officials' = {} /\ accepted' = {}
    /\ UNCHANGED <<stage, target, epoch, barriers>>

(* NoZone: a zone recorded with another status than ACCEPTED.              *)
SetGoalZone(t, zone) ==
    /\ Request(t)
    /\ ~resetPending /\ ~epochPending
    /\ outcome' = AtTime(outcome, started, t)
    /\ outcome'.phase \in {"INIT", "FREEZE"}
    /\ outcome'.phase = "FREEZE" => t <= started + ZoneWindow
    /\ target' = zone
    /\ UNCHANGED <<stage, started, evidence, epoch, barriers>>

-----------------------------------------------------------------------------
(* resolve_event: the events that are taken.                               *)

(* The freeze may be over before the clock of the manager says so; the     *)
(* deadline is only looked at after the event.                             *)
Opened(t) ==
    IF PastFreeze(outcome, started, t)
    THEN [outcome EXCEPT !.phase = "ACTIVE"] ELSE outcome

Admissible(e, t) ==
    /\ t \in lastNow..MaxTime
    /\ \A f \in accepted : f.id # e.id
    /\ Cardinality(accepted) < MaxEvents
    /\ e.stage = stage
    /\ e.epoch = epoch
    /\ outcome.phase # "INIT"
    /\ e.lower >= FreezeEnds
    /\ e.upper <= t
    /\ e.upper < StageEnds
    /\ e.kind = "ARRIVAL" => target # NoZone /\ e.zone = target

Accept(e, t) ==
    /\ lastNow' = t
    /\ accepted' = accepted \cup {e}
    /\ outcome' = AtTime(Adjudicated(Opened(t), officials', pending'), started, t)
    /\ UNCHANGED <<stage, started, target, requests, epoch, barriers>>

RecordEstimate(e, t) ==
    /\ Admissible(e, t)
    /\ e.evidence = "ESTIMATE"
    /\ e.kind # "OFFICIAL_ABORT"
    /\ ~OfficiallyDecided(outcome)
    /\ pending' = pending \cup {e}
    /\ officials' = officials
    /\ Accept(e, t)

RecordOfficial(e, t) ==
    /\ Admissible(e, t)
    /\ e.evidence # "ESTIMATE"
    /\ e.evidence = "SIM_TRUTH" => AllowSimTruth
    /\ officials' = officials \cup {e}
    /\ pending' = pending
    /\ Accept(e, t)

-----------------------------------------------------------------------------
(* resolve_estimate.                                                       *)

(* An organizer's decision backed by any event of its kind.                *)
MayDecideByEstimate(kind, o, t) ==
    /\ o.phase # "INIT"
    /\ OfficiallyDecided(o) => o.kind = "AMBIGUOUS" /\ kind # "OFFICIAL_ABORT"
    /\ kind \in {"CAPTURE", "ARRIVAL"} =>
          \E e \in accepted : e.kind = kind /\ e.upper < StageEnds
    /\ kind = "TIMEOUT" => t >= StageEnds

MayDecide(kind, o, t) ==
    /\ o.phase # "INIT"
    /\ OfficiallyDecided(o) => o.kind = "AMBIGUOUS" /\ kind # "OFFICIAL_ABORT"
    /\ kind \in {"CAPTURE", "ARRIVAL"} =>
          \E e \in accepted :
              e.kind = kind /\ e.evidence = "OFFICIAL" /\ e.upper < StageEnds
    /\ kind = "TIMEOUT" => t >= StageEnds

SetOfficialTerminal(t, kind) ==
    /\ Request(t)
    /\ MayDecide(kind, AtTime(outcome, started, t), t)
    /\ outcome' = Decided(kind, "OFFICIAL")
    /\ UNCHANGED <<stage, started, evidence, target, epoch, barriers>>

DismissEstimate(t, e) ==
    /\ Request(t)
    /\ pending' = pending \ {e}
    /\ outcome' = Adjudicated(AtTime(outcome, started, t), officials, pending')
    /\ UNCHANGED <<stage, started, officials, accepted, target, epoch, barriers>>

Overlap(a, b) == a.lower <= b.upper /\ b.lower <= a.upper

ConfirmOfficial(t, e) ==
    LET confirmed == [e EXCEPT !.evidence = "OFFICIAL"]
    IN  /\ Request(t)
        /\ \A f \in pending \ {e} : f.kind = e.kind \/ ~Overlap(e, f)
        /\ e.upper < StageEnds
        /\ pending' = pending \ {e}
        /\ officials' = officials \cup {confirmed}
        /\ accepted' = (accepted \ {e}) \cup {confirmed}
        /\ outcome' = Adjudicated(AtTime(outcome, started, t), officials', pending')
        /\ UNCHANGED <<stage, started, target, epoch, barriers>>

-----------------------------------------------------------------------------
(* New stages and epochs.                                                  *)

(* What reset_stage and change_clock_epoch have in common.                 *)
Disarm ==
    /\ stage < MaxStages
    /\ stage' = stage + 1
    /\ started' = 0
    /\ outcome' = Undecided("INIT")
    /\ pending' = {} /\ officials' = {} /\ accepted' = {}
    /\ target' = NoZone
    /\ resetPending' = TRUE /\ resetAcks' = {}
    /\ epochPending' = FALSE /\ epochAcks' = {}
    /\ UNCHANGED epoch

ResetStage(t) ==
    /\ Request(t)
    /\ ~resetPending
    /\ AtTime(outcome, started, t).phase \in {"INIT", "TERMINAL"}
    /\ Disarm

(* The new clock may start anywhere; the requests of the old one are       *)
(* forgotten.                                                              *)
ChangeClockEpoch(t) ==
    /\ lastNow' = t
    /\ requests' = 0
    /\ Disarm

AcknowledgeReset(acks) ==
    /\ resetPending
    /\ resetAcks' = resetAcks \cup acks
    /\ resetPending' = (resetAcks' # ResetNames)
    /\ UNCHANGED <<lastNow, stage, started, outcome, evidence, target, requests,
                   epoch, epochPending, epochAcks>>

(* A change that drops the estimate it can name and keeps the others.      *)
ChangeLocalizationEpochOfHeld ==
    /\ epoch < MaxEpochs
    /\ epoch' = epoch + 1
    /\ accepted' = {e \in accepted : e.evidence # "ESTIMATE"}
    /\ pending' = pending \ {outcome.held}
    /\ outcome' = IF outcome.held = NoEvent THEN outcome
                  ELSE [outcome EXCEPT !.hold = FALSE, !.held = NoEvent]
    /\ epochPending' = TRUE /\ epochAcks' = {}
    /\ UNCHANGED <<lastNow, stage, started, officials, target, requests,
                   resetPending, resetAcks>>

ChangeLocalizationEpoch ==
    /\ epoch < MaxEpochs
    /\ epoch' = epoch + 1
    /\ accepted' = {e \in accepted : e.evidence # "ESTIMATE"}
    /\ pending' = {}
    /\ outcome' = IF outcome.held = NoEvent THEN outcome
                  ELSE [outcome EXCEPT !.hold = FALSE, !.held = NoEvent]
    /\ epochPending' = TRUE /\ epochAcks' = {}
    /\ UNCHANGED <<lastNow, stage, started, officials, target, requests,
                   resetPending, resetAcks>>

AcknowledgeEpoch(acks) ==
    /\ epochPending
    /\ epochAcks' = epochAcks \cup acks
    /\ epochPending' = (epochAcks' # EpochNames)
    /\ UNCHANGED <<lastNow, stage, started, outcome, evidence, target, requests,
                   epoch, resetPending, resetAcks>>

-----------------------------------------------------------------------------
StageNext ==
    \/ \E t \in 0..MaxTime :
          \/ Snapshot(t)
          \/ RefusedRequest(t)
          \/ \E stamp \in 0..MaxTime : StartStage(t, stamp)
          \/ \E zone \in Zones \cup {NoZone} : SetGoalZone(t, zone)
          \/ \E e \in Events : RecordEstimate(e, t) \/ RecordOfficial(e, t)
          \/ \E kind \in TerminalKinds \ {"NONE"} : SetOfficialTerminal(t, kind)
          \/ \E e \in pending : DismissEstimate(t, e) \/ ConfirmOfficial(t, e)
          \/ ResetStage(t)
          \/ ChangeClockEpoch(t)
    \/ ChangeLocalizationEpoch
    \/ \E acks \in SUBSET ResetNames : AcknowledgeReset(acks)
    \/ \E acks \in SUBSET EpochNames : AcknowledgeEpoch(acks)

StageSpec == StageInit /\ [][StageNext]_vars

(* The match state is published over and over with a later clock.          *)
LaterSnapshot == \E t \in 0..MaxTime : t > lastNow /\ Snapshot(t)

FairStageSpec == StageSpec /\ WF_vars(LaterSnapshot)

-----------------------------------------------------------------------------
(* Types, and the two storage limits of the profile: the records of        *)
(* requests and of events never outgrow max_request_records and            *)
(* max_event_records.                                                      *)
StageTypeOK ==
    /\ lastNow \in 0..MaxTime
    /\ stage \in 1..MaxStages
    /\ started \in 0..MaxTime
    /\ outcome \in [phase : Phases, hold : BOOLEAN, held : EventType \cup {NoEvent},
                    kind : TerminalKinds, evidence : Evidences]
    /\ pending \subseteq EventType
    /\ officials \subseteq EventType
    /\ accepted \subseteq EventType
    /\ Cardinality(accepted) <= MaxEvents
    /\ target \in Zones \cup {NoZone}
    /\ requests \in 0..MaxRequests
    /\ epoch \in 1..MaxEpochs
    /\ resetPending \in BOOLEAN /\ resetAcks \subseteq ResetNames
    /\ epochPending \in BOOLEAN /\ epochAcks \subseteq EpochNames

(* snapshot never raises: whatever order the calls came in, phase, hold,   *)
(* times and result satisfy the validation of MatchState.                  *)
SnapshotIsValid == MatchStateValid

(* The permission to move is given only inside the active window of the    *)
(* stage, with no estimate waiting and no official event on record, and,   *)
(* after a reset or a clock change, when all consumers have acknowledged.  *)
MotionIsSafe ==
    MotionAuthorized =>
        /\ lastNow >= FreezeEnds /\ lastNow < StageEnds
        /\ pending = {} /\ officials = {}
        /\ stage > 1 => resetAcks = ResetNames

(* No result without its cause: a scored kind has an official or enabled   *)
(* simulation event of that kind, wholly inside the active window and in   *)
(* the past; a timeout is never reported before the deadline.              *)
OutcomeJustified ==
    /\ outcome.kind \in {"CAPTURE", "ARRIVAL"} =>
          \E e \in officials \cup accepted :
              /\ e.kind = outcome.kind
              /\ e.evidence # "ESTIMATE"
              /\ FreezeEnds <= e.lower /\ e.upper < StageEnds /\ e.upper <= lastNow
    /\ outcome.kind = "TIMEOUT" => lastNow >= StageEnds

(* No event outlives its stage, and no estimate its localization epoch;    *)
(* an arrival on record names the target zone of the stage, which cannot   *)
(* have changed since.                                                     *)
NoStaleEvent ==
    /\ \A e \in pending : e.stage = stage /\ e.epoch = epoch
    /\ \A e \in officials \cup accepted : e.stage = stage
    /\ \A e \in pending \cup officials : e.kind = "ARRIVAL" => e.zone = target
    /\ outcome.held # NoEvent => outcome.hold /\ pending = {outcome.held}

(* An official event that is recorded ends the stage, either AMBIGUOUS or  *)
(* with the kind of an official event that provably precedes every one of  *)
(* another kind, and that no pending estimate of another kind overlaps.    *)
NoInventedOrder ==
    [][officials' # officials /\ officials' # {} =>
          /\ outcome'.phase = "TERMINAL"
          /\ \/ outcome'.kind = "AMBIGUOUS"
             \/ \E w \in officials' :
                   /\ w.kind = outcome'.kind
                   /\ \A o \in officials' : o.kind = w.kind \/ w.upper < o.lower
                   /\ \A p \in pending' : p.kind = w.kind \/ ~Overlap(w, p)]_vars

(* A stage that was started ends: its deadline passes, an official event   *)
(* or decision comes, or a new stage replaces it.                          *)
StagesEnd ==
    \A s \in 1..MaxStages :
        stage = s /\ outcome.phase \in {"FREEZE", "ACTIVE"} ~>
            stage # s \/ outcome.phase = "TERMINAL"

(* The technical specification says that a dismissal cannot erase an       *)
(* official terminal.  resolve_estimate adjudicates again whatever the     *)
(* organizer has decided.                                                  *)
DismissKeepsOfficialTerminal ==
    [][\A e \in pending, t \in 0..MaxTime :
          OfficiallyDecided(outcome) /\ outcome.kind # "AMBIGUOUS" /\ DismissEstimate(t, e)
              => outcome' = outcome]_vars

(* The implementation plan says that a localization epoch change           *)
(* invalidates estimate holds.  change_localization_epoch clears the hold  *)
(* only when it knows the one estimate that caused it.                     *)
EpochChangeClearsHolds ==
    [][epoch' # epoch /\ outcome.phase = "ACTIVE" => ~outcome'.hold]_vars
=============================================================================
