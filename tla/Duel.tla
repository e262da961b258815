-------------------------------- MODULE Duel --------------------------------
(***************************************************************************)
(* An episode of the simulation: SILBenchmarkRunner.run_episode of         *)
(* sim/kinematic/benchmark.py steps TwoRobotMatch of                       *)
(* sim/kinematic/match.py.  The two robots have a stage manager each, both *)
(* started at time 0 and never told anything but the time and the capture; *)
(* Guardian and Explorer are instances of the specification of the stage   *)
(* manager, in which nothing else can happen.                              *)
(*                                                                         *)
(* A step of the match is two actions here: the managers are read, the     *)
(* policies asked and the plants checked at its beginning; the referee     *)
(* judges, and the managers are called again, at its end.  What a policy   *)
(* commands and what the referee sees is arbitrary.  The robots can fail   *)
(* an episode: a policy raises or answers what is no command, a plant is   *)
(* commanded to go faster than it can, or the clock of a plant is no       *)
(* longer that of the match.                                               *)
(***************************************************************************)
EXTENDS Integers, FiniteSets

CONSTANTS
    Period,          \* control_period_ns
    FreezeTime,      \* _FREEZE_DURATION_NS
    EpisodeTime,     \* episode_duration_ns
    MatchLease,      \* _LEASE_DURATION_NS
    MaxSteps,        \* max_episode_steps
    Nothing          \* no event

(* BenchmarkConfig.  It also holds the period under the candidate lease,   *)
(* which is shorter than the lease of the match state.  The plants may be  *)
(* slower than the policies believe, which is why a command can be FAST.   *)
ConfigValid ==
    /\ {Period, FreezeTime, EpisodeTime, MatchLease} \subseteq Nat \ {0}
    /\ FreezeTime < EpisodeTime
    /\ Period <= MatchLease
    /\ MaxSteps \in Nat
    /\ (MaxSteps - 1) * Period >= EpisodeTime

ASSUME DuelAssumption == ConfigValid

VARIABLES
    phase,      \* where run_episode is: BEGIN or END of a step, or OVER
    stamp,      \* _stamp_ns of the match
    steps,
    commands,   \* the commands of the step, one for each role
    result,     \* terminal_kind; if the episode ended in an exception,
                \* FAULT if it is a robot's and RAISED if it is the stage's
    gNow, gOutcome, gOfficials, gAccepted,    \* the manager of the guardian
    eNow, eOutcome, eOfficials, eAccepted     \* the manager of the explorer

gVars == <<gNow, gOutcome, gOfficials, gAccepted>>
eVars == <<eNow, eOutcome, eOfficials, eAccepted>>
duelVars == <<phase, stamp, steps, commands, result, gVars, eVars>>

(* _stage_manager: one stage, one epoch, no zones, no barriers.  TLC does  *)
(* not take FALSE for what never changes, but it takes ~TRUE.              *)
Guardian == INSTANCE StageManager WITH
    Events <- {}, Zones <- {}, ResetNames <- {"none"}, EpochNames <- {"none"},
    FreezeDuration <- FreezeTime, StageDuration <- EpisodeTime, ZoneWindow <- FreezeTime,
    MaxRequests <- 16, MaxEvents <- 16, AllowSimTruth <- TRUE,
    MaxTime <- EpisodeTime + Period, MaxStages <- 1, MaxEpochs <- 1,
    NoZone <- "nowhere", NoEvent <- Nothing,
    lastNow <- gNow, stage <- 1, started <- 0, outcome <- gOutcome, pending <- {},
    officials <- gOfficials, accepted <- gAccepted, target <- "nowhere", requests <- 1,
    epoch <- 1, resetPending <- ~TRUE, resetAcks <- {}, epochPending <- ~TRUE,
    epochAcks <- {}

Explorer == INSTANCE StageManager WITH
    Events <- {}, Zones <- {}, ResetNames <- {"none"}, EpochNames <- {"none"},
    FreezeDuration <- FreezeTime, StageDuration <- EpisodeTime, ZoneWindow <- FreezeTime,
    MaxRequests <- 16, MaxEvents <- 16, AllowSimTruth <- TRUE,
    MaxTime <- EpisodeTime + Period, MaxStages <- 1, MaxEpochs <- 1,
    NoZone <- "nowhere", NoEvent <- Nothing,
    lastNow <- eNow, stage <- 1, started <- 0, outcome <- eOutcome, pending <- {},
    officials <- eOfficials, accepted <- eAccepted, target <- "nowhere", requests <- 1,
    epoch <- 1, resetPending <- ~TRUE, resetAcks <- {}, epochPending <- ~TRUE,
    epochAcks <- {}

Roles == {"guardian", "explorer"}

(* FAST is faster than the plant goes.                                     *)
Commands == [Roles -> {"STILL", "STRAIGHT", "TURN", "FAST"}]
Still == [role \in Roles |-> "STILL"]

DuelInit ==
    /\ phase = "BEGIN"
    /\ stamp = 0 /\ steps = 0
    /\ commands = Still
    /\ result = "NONE"
    /\ gNow = 0 /\ gOutcome = Guardian!AtTime(Guardian!Undecided("FREEZE"), 0, 0)
    /\ gOfficials = {} /\ gAccepted = {}
    /\ eNow = 0 /\ eOutcome = Explorer!AtTime(Explorer!Undecided("FREEZE"), 0, 0)
    /\ eOfficials = {} /\ eAccepted = {}

Snapshots(t) == Guardian!Snapshot(t) /\ Explorer!Snapshot(t)

Raise == phase' = "OVER" /\ result' = "RAISED"
Fault == phase' = "OVER" /\ result' = "FAULT"

(* The last step of an episode is cut short at its end.                    *)
StepTime == IF EpisodeTime - stamp < Period THEN EpisodeTime - stamp ELSE Period

-----------------------------------------------------------------------------
(* The beginning of a step.                                                *)

(* _validate_duel_states                                                   *)
Coherent ==
    /\ gOutcome.phase = eOutcome.phase
    /\ gOutcome.hold = eOutcome.hold
    /\ gOutcome.kind = eOutcome.kind

(* Any stage that is under way.                                            *)
AuthorizedOnceStarted(o, end) == o.phase \in {"FREEZE", "ACTIVE"} /\ end <= EpisodeTime

(* The permission of one manager holds for all of the step.                *)
AuthorizedUntil(o, end) ==
    /\ o.phase = "ACTIVE" /\ ~o.hold
    /\ stamp + MatchLease >= end
    /\ end <= EpisodeTime

(* The managers are at different points, or have different results.        *)
Diverged ==
    \/ gOutcome.phase # eOutcome.phase
    \/ gOutcome.phase = "TERMINAL" /\ gOutcome.kind # eOutcome.kind

(* The loop is over without a verdict when the steps are used up, and with *)
(* the one of the managers when the time is.                               *)
BeginStep(wanted, answered) ==
    /\ phase = "BEGIN"
    /\ IF steps >= MaxSteps
       THEN Raise /\ UNCHANGED <<commands, gVars, eVars>>
       ELSE /\ Snapshots(stamp)
            /\ IF stamp >= EpisodeTime
               THEN /\ IF Diverged' \/ gOutcome'.kind \notin {"CAPTURE", "TIMEOUT"}
                       THEN Raise
                       ELSE phase' = "OVER" /\ result' = gOutcome'.kind
                    /\ UNCHANGED commands
               ELSE IF ~Coherent'
               THEN Raise /\ UNCHANGED commands
               ELSE LET given == IF /\ AuthorizedUntil(gOutcome', stamp + StepTime)
                                    /\ AuthorizedUntil(eOutcome', stamp + StepTime)
                                 THEN wanted ELSE Still
                    IN  IF ~answered \/ \E role \in Roles : given[role] = "FAST"
                        THEN Fault /\ UNCHANGED commands
                        ELSE phase' = "END" /\ commands' = given /\ UNCHANGED result
    /\ UNCHANGED <<stamp, steps>>

(* A plant adds up its time in seconds, the match in nanoseconds.          *)
ClockFails ==
    /\ phase = "BEGIN"
    /\ 0 < steps /\ steps < MaxSteps /\ stamp < EpisodeTime
    /\ Fault
    /\ UNCHANGED <<stamp, steps, commands, gVars, eVars>>

-----------------------------------------------------------------------------
(* The end of a step.  The referee only says whether the step holds a      *)
(* capture; first_capture_interval then gives the whole step for its time. *)

CaptureOf(end) ==
    [id |-> end, stage |-> 1, epoch |-> 1, kind |-> "CAPTURE", evidence |-> "SIM_TRUTH",
     lower |-> stamp, upper |-> end, zone |-> "nowhere"]

(* A count of captures up to the end of the episode.                       *)
CountsToTheEnd(captured, end) ==
    /\ captured
    /\ "TURN" \notin {commands["guardian"], commands["explorer"]}
    /\ stamp >= FreezeTime /\ end <= EpisodeTime

Counts(captured, end) ==
    /\ captured
    /\ "TURN" \notin {commands["guardian"], commands["explorer"]}
    /\ stamp >= FreezeTime /\ end < EpisodeTime

(* _resolve_synthetic_capture: a refusal by either manager raises.         *)
Capture(end) ==
    IF Guardian!Admissible(CaptureOf(end), end) /\ Explorer!Admissible(CaptureOf(end), end)
    THEN /\ Guardian!RecordOfficial(CaptureOf(end), end)
         /\ Explorer!RecordOfficial(CaptureOf(end), end)
         /\ phase' = "OVER" /\ result' = "CAPTURE"
    ELSE Raise /\ UNCHANGED <<gVars, eVars>>

(* _stage_states and _shared_terminal_kind                                 *)
ReadVerdict(end) ==
    /\ Snapshots(end)
    /\ IF Diverged'
       THEN Raise
       ELSE IF gOutcome'.kind = "TIMEOUT"
            THEN phase' = "OVER" /\ result' = "TIMEOUT"
            ELSE phase' = "BEGIN" /\ UNCHANGED result

EndStep(captured) ==
    /\ phase = "END"
    /\ LET end == stamp + StepTime
       IN  /\ IF Counts(captured, end) THEN Capture(end) ELSE ReadVerdict(end)
           /\ stamp' = end
    /\ steps' = steps + 1
    /\ UNCHANGED commands

DuelNext ==
    \/ \E wanted \in Commands, answered \in BOOLEAN : BeginStep(wanted, answered)
    \/ ClockFails
    \/ \E captured \in BOOLEAN : EndStep(captured)

(* run_episode is a loop that nothing interrupts.                          *)
DuelFairness == WF_duelVars(DuelNext)

DuelSpec == DuelInit /\ [][DuelNext]_duelVars /\ DuelFairness

-----------------------------------------------------------------------------
(* Every episode is over at some time, with a capture, a timeout or the    *)
(* fault of a robot.  It never runs on, and never raises for what the      *)
(* stage does: two managers and the runner decide each for themselves      *)
(* whether the stage is over, and any disagreement would be an exception.  *)
EpisodeEnds == phase # "BEGIN" ~> phase = "OVER" /\ result # "RAISED"

(* The result is the one of both managers; while the episode goes on, and  *)
(* after a fault, neither has one.  A robot is commanded to move only in a *)
(* step that lies inside the active part of the stage, after the freeze    *)
(* and before the end.                                                     *)
DuelIsOne ==
    /\ result # "RAISED" =>
          LET verdict == IF result = "FAULT" THEN "NONE" ELSE result
          IN  gOutcome.kind = verdict /\ eOutcome.kind = verdict
    /\ phase = "END" /\ commands # Still =>
          stamp >= FreezeTime /\ stamp + StepTime <= EpisodeTime
=============================================================================
