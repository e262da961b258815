-------------------------- MODULE AutonomousPolicy --------------------------
(***************************************************************************)
(* AutonomousPolicy of sim/kinematic/autonomous.py: the decision loop of   *)
(* one robot.  Every control period it is called with a frame, selects an  *)
(* option, drives it through the OptionAuthority, has the candidate        *)
(* admitted and supervised, and returns a command.                         *)
(*                                                                         *)
(* A frame is handled in steps: each call of the authority is a step, with *)
(* what the policy does up to the next call.  pc says which call is next,  *)
(* IDLE that the command has been returned.  The calls are made from one   *)
(* thread; nothing comes between them.                                     *)
(*                                                                         *)
(* Geometry is left open: which nodes have a path, how they compare, how   *)
(* far the rival is, whether the goal is reached and what the safety       *)
(* supervisor makes of the candidate is chosen where the code computes it. *)
(* The authority refuses none of the calls below (EveryCallSucceeds); what *)
(* the code does after a refusal is left out, except at the capacity of    *)
(* the records, which is reached.                                          *)
(***************************************************************************)
EXTENDS OptionAuthority, TacticalSelector, OpponentTrack

CONSTANTS
    Endpoints,      \* the configurations to consider, see EndpointKinds
    FrameShapes,    \* frames without their stamp
    Nodes,          \* node ids, integers
    GoalNode,       \* synthetic_goal_node_id
    Clocks,         \* clock_epoch values
    Localizations,  \* localization_epoch values
    NoOne,          \* None, for an attribute of the policy
    LastStamp       \* bound: the last stamp of a frame

EndpointKinds ==
    {"GUARDIAN",          \* the guardian of a duel, or on its own
     "EXPLORER",          \* the explorer of a duel: simultaneous_sil
     "LONE_EXPLORER"}

Shapes ==
    [match : BOOLEAN,     \* match_state is there
     pose : BOOLEAN,      \* pose_estimate and topology_graph are there
     coherent : BOOLEAN,  \* what _coherent compares agrees
     clock : Clocks, loc : Localizations, stage : Stages, version : Versions,
     phase : StagePhases, stageEnds : Nat, motion : BOOLEAN,
     leaseValid : BOOLEAN,
     ready : BOOLEAN,     \* system_ready as far as pose and coverage go
     forward : BOOLEAN,   \* forward_coverage
     seen : BOOLEAN]      \* the rival: one detection, inside the gate

(* The kinds of options the policy proposes.                               *)
MotionKinds == {"SEARCH_PORTAL", "PRESSURE_ROUTE", "ADVANCE_KNOWN_ROUTE",
                "ADVANCE_BASE", "BREAK_LOS", "KEEP_ESCAPE_ROUTE"}

(* Keys, ids and goals of its proposals.                                   *)
OptionKeys == (MotionKinds \X Nodes) \cup {<<"OBSERVE_SAFE", 0>>}
OptionIds == Stages \X OptionKeys \X Actions
OwnGoals ==
    [inst : OptionIds, kind : {"MOVE", "OBSERVE_SAFE"}, stage : Stages,
     epoch : Epochs, version : Versions,
     deadline : {s.stageEnds : s \in FrameShapes} \ {0}, wellFormed : {TRUE}]

ASSUME PolicyAssumption ==
    /\ Endpoints \subseteq EndpointKinds
    /\ FrameShapes \subseteq Shapes
    /\ \A s \in FrameShapes : s.phase = "INIT" <=> s.stageEnds = 0
    /\ Nodes \subseteq Nat
    /\ GoalNode \in Nodes
    /\ LastStamp \in Nat
    /\ Horizon > LastStamp
    /\ Actions = 1..LastStamp
    /\ MaxGeneration > LastStamp
    /\ 1 \in CancelTimeouts
    /\ Epochs = Clocks \X Localizations
    /\ OptionIds \subseteq Instances
    /\ OwnGoals \subseteq Goals
    /\ NoOne \notin OptionKeys \cup Clocks \cup (Stages \X Localizations \X Versions)

VARIABLES
    endpoint,    \* role and kind of frames of this policy
    mine,        \* _active
    counter,     \* _counter
    latched,     \* _safety_latched
    epochLost,   \* _clock_epoch_invalidated
    clockEpoch,  \* _clock_epoch
    identity,    \* _observation_identity
    completed,   \* _completed_nodes
    lastStamp,   \* _last_policy_stamp_ns
    track,       \* _opponent_filter
    updatedAt,   \* execution_state.updated_at_ns of the authority
    pc, frame,   \* the call to make next and the frame being handled
    choice,      \* the selected proposal to start, if any
    command,     \* the last command: ZERO, MOVE, or RAISED instead of one
    sightings    \* history: frames of this identity in which the rival was seen

authority == <<lease, records, used, active, instance, lastNow, state>>
memory == <<counter, latched, epochLost, clockEpoch, identity, completed,
            lastStamp, track, sightings>>
progress == <<pc, frame, choice>>
policyVars == <<authority, endpoint, mine, memory, updatedAt, progress, command>>

FramesAt(t) == {[stamp |-> t, shape |-> s] : s \in FrameShapes}
NoFrame == [stamp |-> 0, shape |-> NoOne]
NoChoice == [key |-> NoOne, inst |-> NoOne]
NoOption == [key |-> NoOne, inst |-> NoOne, action |-> Nobody, started |-> 0]

PolicyInit ==
    /\ Init
    /\ endpoint \in Endpoints
    /\ mine = NoOption
    /\ counter = 0
    /\ latched = FALSE
    /\ epochLost = FALSE
    /\ clockEpoch = NoOne
    /\ identity = NoOne
    /\ completed = {}
    /\ lastStamp = 0
    /\ track = NoTrack
    /\ updatedAt = 0
    /\ pc = "IDLE" /\ frame = NoFrame /\ choice = NoChoice
    /\ command = "ZERO"
    /\ sightings = 0

Role == IF endpoint = "GUARDIAN" THEN "GUARDIAN" ELSE "EXPLORER"

Identity(s) == <<s.stage, s.loc, s.version>>

-----------------------------------------------------------------------------
(* Snapshots for the authority.                                            *)

(* _context                                                                *)
Context(f, stop, path, effect) ==
    [now |-> f.stamp, stage |-> f.shape.stage, phase |-> f.shape.phase,
     stageEnds |-> f.shape.stageEnds, epoch |-> <<f.shape.clock, f.shape.loc>>,
     version |-> f.shape.version, motion |-> f.shape.motion,
     leaseValid |-> f.shape.leaseValid, safetyStop |-> stop,
     zones |-> Instances, pathValid |-> path, feasibilityLost |-> FALSE,
     effect |-> effect]

Latest(a, b) == IF a > b THEN a ELSE b

RevokeAt(f, goal, now) ==
    LET sameClock == f.shape.match => f.shape.clock = goal.epoch[1]
    IN  [now |-> now, stage |-> goal.stage,
         phase |-> IF f.shape.match /\ sameClock THEN f.shape.phase ELSE "TERMINAL",
         stageEnds |-> Latest(now + 1, goal.deadline),
         epoch |-> goal.epoch, version |-> goal.version, motion |-> FALSE,
         leaseValid |-> FALSE, safetyStop |-> TRUE, zones |-> {},
         pathValid |-> FALSE, feasibilityLost |-> FALSE, effect |-> Nobody]

(* A _revoke_active that takes the stamp of the frame as it comes.         *)
RevokeContextByFrame(f) == RevokeAt(f, mine.goal, f.stamp)

(* _revoke_active: a stamp of another clock has no order with the old ones. *)
RevokeContext(f) ==
    RevokeAt(f, mine.goal,
             IF f.shape.match => f.shape.clock = mine.goal.epoch[1]
             THEN Latest(f.stamp, updatedAt) ELSE updatedAt)

-----------------------------------------------------------------------------
(* Proposals.                                                              *)

(* _active, unless the authority has given it its result.                  *)
Held == IF mine # NoOption /\ HasResult(mine.action) THEN NoOption ELSE mine

(* An id that is given again.                                              *)
ReusedId(key, f) == <<f.shape.stage, key, counter>>

(* option_instance_id of a new option: role, stage, key and a number.      *)
NewId(key, f) == <<f.shape.stage, key, counter + 1>>

(* _make_proposal: an option under way keeps its id and its goal.          *)
Proposal(f, kind, node, urgency, utility) ==
    LET key == <<kind, node>>
        goal == IF Held.key = key THEN Held.goal
                ELSE [inst |-> NewId(key, f), stage |-> f.shape.stage,
                      kind |-> IF kind = "OBSERVE_SAFE" THEN kind ELSE "MOVE",
                      epoch |-> <<f.shape.clock, f.shape.loc>>,
                      version |-> f.shape.version,
                      deadline |-> f.shape.stageEnds, wellFormed |-> TRUE]
    IN  [key |-> key, inst |-> goal.inst, goal |-> goal, kind |-> kind,
         facts |-> OwnGuards[Role][kind], timing |-> "NONE",
         ready |-> CheckInitiation(goal, Context(f, latched, FALSE, Nobody)),
         urgency |-> urgency, utility |-> utility, order |-> node]

(* _proposals of the guardian: a portal that is preferred, or all alike.   *)
SearchEvidence(f, done) ==
    {{Proposal(f, "SEARCH_PORTAL", n, 0,
               IF n = best THEN HysteresisDelta + 1 ELSE 0) : n \in reachable \ done} :
        reachable \in SUBSET Nodes, best \in Nodes}

(* _guardian_pursuit_proposal                                              *)
PursuitEvidence(f) ==
    {{Proposal(f, "PRESSURE_ROUTE", n, 0, 0)} : n \in Nodes}

(* _explorer_proposals with a rival: far away, or near and a way out.      *)
RivalEvidence(f, done) ==
    {{Proposal(f, "ADVANCE_BASE", GoalNode, 0, 0)}} \cup
    {{Proposal(f, kind, n, 1, 0)} :
        kind \in {"BREAK_LOS", "KEEP_ESCAPE_ROUTE"}, n \in Nodes \ done}

(* _usable_opponent_track; reset_navigation has dropped a foreign track.   *)
Usable(f, trk) == trk.status = "TRACKED" /\ ValidUntil(trk) > f.stamp

(* The proposals a frame may give rise to; none where no route is found.   *)
Evidence(f, trk, done) ==
    IF latched THEN {{}}
    ELSE IF endpoint = "LONE_EXPLORER"
         THEN {{Proposal(f, "OBSERVE_SAFE", 0, 0, 0)}}
    ELSE IF ~f.shape.forward THEN {{}}
    ELSE {{}} \cup
         (IF endpoint = "GUARDIAN"
          THEN IF Usable(f, trk) THEN PursuitEvidence(f) ELSE SearchEvidence(f, done)
          ELSE IF Usable(f, trk) THEN RivalEvidence(f, done)
               ELSE {{Proposal(f, "ADVANCE_KNOWN_ROUTE", GoalNode, 0, 0)}})

-----------------------------------------------------------------------------
(* A frame arrives: __call__ up to the first call of the authority.        *)

Handle(f, next) == pc' = next /\ frame' = IF next = "IDLE" THEN NoFrame ELSE f

(* A _stop that forgets the option instead of revoking it.                 *)
StopForgetting(f) ==
    /\ command' = "ZERO"
    /\ Handle(f, "IDLE")
    /\ mine' = NoOption
    /\ UNCHANGED <<authority, endpoint, counter, latched, updatedAt, choice>>

(* _stop                                                                   *)
Stop(f) ==
    /\ command' = "ZERO"
    /\ Handle(f, IF mine = NoOption THEN "IDLE" ELSE "REVOKE")
    /\ UNCHANGED <<authority, endpoint, mine, counter, latched, updatedAt, choice>>

(* A reset that keeps the rival of another time and place.                 *)
ResetKeepingTrack == completed' = {} /\ sightings' = 0 /\ UNCHANGED track

(* _reset_navigation_context                                               *)
ResetNavigation == completed' = {} /\ track' = NoTrack /\ sightings' = 0

KeepNavigation == UNCHANGED <<completed, track, sightings>>

OtherClock(f) ==
    epochLost \/ (clockEpoch # NoOne /\ f.shape.match /\ f.shape.clock # clockEpoch)

ClockEpochLost(f) ==
    /\ OtherClock(f)
    /\ Stop(f)
    /\ epochLost' = TRUE
    /\ IF epochLost THEN KeepNavigation ELSE ResetNavigation
    /\ UNCHANGED <<clockEpoch, identity, lastStamp>>

OutOfOrder(f) ==
    /\ ~OtherClock(f)
    /\ f.stamp <= lastStamp
    /\ Stop(f)
    /\ KeepNavigation
    /\ UNCHANGED <<epochLost, clockEpoch, identity, lastStamp>>

Punctual(f) ==
    /\ ~OtherClock(f)
    /\ f.stamp > lastStamp
    /\ lastStamp' = f.stamp
    /\ UNCHANGED epochLost

(* A frame whose parts are not compared.                                   *)
CompleteOnly(f) == f.shape.match /\ f.shape.pose

Complete(f) == f.shape.match /\ f.shape.pose /\ f.shape.coherent

(* A part is missing, or the parts are of different times or versions.     *)
Unusable(f) ==
    /\ Punctual(f)
    /\ ~Complete(f)
    /\ Stop(f)
    /\ KeepNavigation
    /\ UNCHANGED <<clockEpoch, identity>>

Moved(f) == identity # NoOne /\ identity # Identity(f.shape)

IdentityChanged(f) ==
    /\ Punctual(f)
    /\ Complete(f)
    /\ Moved(f)
    /\ Stop(f)
    /\ ResetNavigation
    /\ clockEpoch' = f.shape.clock
    /\ identity' = Identity(f.shape)

(* Frames that get as far as the choice of an option.                      *)
Considered(f) ==
    /\ Punctual(f)
    /\ Complete(f)
    /\ ~Moved(f)
    /\ clockEpoch' = f.shape.clock
    /\ identity' = Identity(f.shape)
    /\ UNCHANGED <<authority, endpoint, counter, latched, updatedAt>>

Raises(f) ==
    /\ mine' = Held
    /\ command' = "RAISED"
    /\ Handle(f, "IDLE")
    /\ UNCHANGED <<completed, choice>>

(* The filter is asked to predict too far ahead: ValueError.               *)
FilterRaises(f) ==
    /\ Considered(f)
    /\ track.initialized
    /\ ~CanPredict(track, f.stamp)
    /\ Raises(f)
    /\ UNCHANGED <<track, sightings>>

(* _update_opponent_track                                                  *)
TrackAfter(f) ==
    IF endpoint = "LONE_EXPLORER" THEN NoTrack
    ELSE IF track.initialized THEN Updated(track, f.stamp, f.shape.seen)
    ELSE IF f.shape.seen THEN Initialized(f.stamp)
    ELSE track

UpdateTrack(f) ==
    /\ track.initialized => CanPredict(track, f.stamp)
    /\ track' = TrackAfter(f)
    /\ sightings' = IF f.shape.seen /\ sightings < ConfirmationCount
                    THEN sightings + 1 ELSE sightings

(* Before the stage has started it has no end, and OptionGoal accepts no   *)
(* deadline of 0, that of HOLD_SAFE neither: ValueError.                   *)
HoldRaises(f) ==
    /\ Considered(f)
    /\ UpdateTrack(f)
    /\ f.shape.stageEnds = 0
    /\ Raises(f)

Selected(f, proposals) ==
    Select(proposals, Role, Context(f, latched, FALSE, Nobody), f.shape.ready,
           [key |-> Held.key, inst |-> Held.inst, started |-> Held.started], f.stamp)

StartPoint(p) == IF p.kind = "OBSERVE_SAFE" THEN "OBSERVE" ELSE "START"

SelectFrom(f, proposals) ==
    /\ Considered(f)
    /\ UpdateTrack(f)
    /\ f.shape.stageEnds > 0
    /\ mine' = Held
    /\ command' = "ZERO"
    /\ UNCHANGED completed

(* HOLD_SAFE is selected, and the option under way left to its deadline.   *)
ChooseHoldKeeping(f, proposals) ==
    /\ SelectFrom(f, proposals)
    /\ Selected(f, proposals) = Hold
    /\ Handle(f, "IDLE")
    /\ UNCHANGED choice

(* HOLD_SAFE is selected.                                                  *)
ChooseHold(f, proposals) ==
    /\ SelectFrom(f, proposals)
    /\ Selected(f, proposals) = Hold
    /\ Handle(f, IF mine' = NoOption THEN "IDLE" ELSE "CANCEL")
    /\ UNCHANGED choice

(* Another option than the one under way.                                  *)
ChooseNew(f, proposals) ==
    LET p == Selected(f, proposals)
    IN  /\ SelectFrom(f, proposals)
        /\ p # Hold
        /\ p.key # mine'.key \/ p.inst # mine'.inst
        /\ Handle(f, IF mine' = NoOption THEN StartPoint(p) ELSE "CANCEL")
        /\ choice' = p

(* The option under way: it is cancelled if the new path does not lead to  *)
(* its target, done if the robot is there, and replanned otherwise.        *)
ChooseCurrent(f, proposals) ==
    LET p == Selected(f, proposals)
    IN  /\ SelectFrom(f, proposals)
        /\ p # Hold
        /\ p.key = mine'.key /\ p.inst = mine'.inst
        /\ \E next \in {"CANCEL", "EFFECT", "REPLAN"} : Handle(f, next)
        /\ UNCHANGED choice

(* ValueError of the selector, which takes max_proposals proposals at most *)
(* and is given one per node: _stop.  How many nodes there are is left     *)
(* open, so it may happen in any frame.                                    *)
SelectorFails(f, proposals) ==
    /\ SelectFrom(f, proposals)
    /\ Handle(f, IF mine' = NoOption THEN "IDLE" ELSE "REVOKE")
    /\ UNCHANGED choice

Arrival(f) ==
    \/ ClockEpochLost(f)
    \/ OutOfOrder(f)
    \/ Unusable(f)
    \/ IdentityChanged(f)
    \/ FilterRaises(f)
    \/ HoldRaises(f)
    \/ /\ Considered(f)
       /\ \E proposals \in Evidence(f, TrackAfter(f), completed) :
             \/ ChooseHold(f, proposals)
             \/ ChooseNew(f, proposals)
             \/ ChooseCurrent(f, proposals)
             \/ SelectorFails(f, proposals)

(* What the rest of the system guarantees: a stage that has been under way *)
(* does not go back to the phase before its start.                         *)
StageOrder(f) ==
    f.shape.phase = "INIT" /\ mine # NoOption => f.shape.stage # mine.goal.stage

Frame ==
    /\ pc = "IDLE"
    /\ \E t \in 1..LastStamp : \E f \in FramesAt(t) : StageOrder(f) /\ Arrival(f)

-----------------------------------------------------------------------------
(* The calls of the authority, one step each.                              *)

Answered == pc' = "IDLE" /\ frame' = NoFrame /\ choice' = NoChoice

(* execution_state is published by every call that changes it.             *)
Publishes == updatedAt' = IF state' # state THEN lastNow' ELSE updatedAt

Local == <<endpoint, epochLost, clockEpoch, identity, lastStamp, track, sightings>>

Cancelling == pc \in {"REVOKE", "CANCEL", "ABORT"}

(* _revoke_active, _cancel_active, and the end of an option whose local    *)
(* record could not be made.                                               *)
CancelContext ==
    IF pc = "REVOKE" THEN RevokeContext(frame)
    ELSE IF pc = "CANCEL" THEN Context(frame, TRUE, FALSE, Nobody)
    ELSE Context(frame, FALSE, TRUE, Nobody)

Request ==
    /\ Cancelling
    /\ RequestCancel(CancelContext, 1)
    /\ Publishes
    /\ UNCHANGED <<Local, mine, counter, latched, completed, progress, command>>

Acknowledge ==
    /\ Cancelling
    /\ AcknowledgeCancel(CancelContext)
    /\ Publishes
    /\ mine' = NoOption
    /\ IF choice = NoChoice THEN Answered
       ELSE pc' = StartPoint(choice) /\ UNCHANGED <<frame, choice>>
    /\ UNCHANGED <<Local, counter, latched, completed, command>>

(* _start_motion_option and _execute_observation_option, no record left.   *)
StartAtCapacity ==
    /\ pc \in {"START", "OBSERVE"}
    /\ counter' = counter + 1
    /\ SubmitAtCapacity(counter', Context(frame, FALSE, TRUE, Nobody))
    /\ Publishes
    /\ Answered
    /\ UNCHANGED <<Local, mine, latched, completed, command>>

(* A record with the generation of before the submission.                  *)
ActiveOptionEarly(p, action, gen) ==
    [key |-> p.key, inst |-> p.inst, goal |-> p.goal, started |-> frame.stamp,
     action |-> action, gen |-> gen - 1]

ActiveOption(p, action, gen) ==
    [key |-> p.key, inst |-> p.inst, goal |-> p.goal, started |-> frame.stamp,
     action |-> action, gen |-> gen]

(* _start_motion_option: the target does not match the path in the second  *)
(* case, and the option that was just admitted is cancelled.               *)
Start ==
    /\ pc = "START"
    /\ counter' = counter + 1
    /\ SubmitAccepted(counter', choice.goal, Context(frame, FALSE, TRUE, Nobody))
    /\ Publishes
    /\ \/ /\ mine' = ActiveOption(choice, counter', lease'.generation)
          /\ pc' = "MARK"
       \/ pc' = "ABORT" /\ UNCHANGED mine
    /\ choice' = NoChoice
    /\ UNCHANGED <<Local, latched, completed, frame, command>>

Replan ==
    /\ pc = "REPLAN"
    /\ BeginReplan(Context(frame, latched, TRUE, Nobody))
    /\ Publishes
    /\ mine' = [mine EXCEPT !.gen = lease'.generation]
    /\ pc' = "MARK"
    /\ UNCHANGED <<Local, counter, latched, completed, frame, choice, command>>

Mark ==
    /\ pc = "MARK"
    /\ MarkExecuting(Context(frame, latched, TRUE, Nobody))
    /\ Publishes
    /\ pc' = IF state'.authorized THEN "CANDIDATE" ELSE "CANCEL"
    /\ UNCHANGED <<Local, mine, counter, latched, completed, frame, choice, command>>

(* The envelope _execute_candidate passes to the lease.                    *)
Envelope ==
    [inst |-> mine.inst, gen |-> mine.gen, version |-> frame.shape.version,
     epoch |-> <<frame.shape.clock, frame.shape.loc>>,
     validUntil |-> frame.stamp + 1]

(* No candidate for this path, or the lease or the supervisor's contract   *)
(* rejects it.                                                             *)
CandidateRejected ==
    /\ pc = "CANDIDATE"
    /\ pc' = "CANCEL"
    /\ UNCHANGED <<authority, Local, mine, counter, latched, completed,
                   updatedAt, frame, choice, command>>

(* The supervisor's decision is ADMIT or LIMIT.                            *)
CandidateSupervised ==
    /\ pc = "CANDIDATE"
    /\ Admits(lease, Envelope, frame.stamp)
    /\ command' = "MOVE"
    /\ Answered
    /\ UNCHANGED <<authority, Local, mine, counter, latched, completed, updatedAt>>

(* The supervisor's decision is STOP.                                      *)
CandidateStopped ==
    /\ pc = "CANDIDATE"
    /\ Admits(lease, Envelope, frame.stamp)
    /\ latched' = TRUE
    /\ Tick(Context(frame, TRUE, TRUE, Nobody))
    /\ Publishes
    /\ mine' = NoOption
    /\ Answered
    /\ UNCHANGED <<Local, counter, completed, command>>

(* The robot is at the goal.                                               *)
Effect ==
    /\ pc = "EFFECT"
    /\ Tick(Context(frame, latched, TRUE, mine.inst))
    /\ Publishes
    /\ completed' = completed \cup {mine.key[2]}
    /\ mine' = NoOption
    /\ Answered
    /\ UNCHANGED <<Local, counter, latched, command>>

(* _execute_observation_option: submit, mark_executing, tick.              *)
Observe ==
    /\ pc = "OBSERVE"
    /\ counter' = counter + 1
    /\ SubmitAccepted(counter', choice.goal, Context(frame, latched, FALSE, Nobody))
    /\ Publishes
    /\ pc' = "OBSERVE_MARK"
    /\ UNCHANGED <<Local, mine, latched, completed, frame, choice, command>>

ObserveMark ==
    /\ pc = "OBSERVE_MARK"
    /\ MarkExecuting(Context(frame, FALSE, TRUE, Nobody))
    /\ Publishes
    /\ pc' = "OBSERVE_TICK"
    /\ UNCHANGED <<Local, mine, counter, latched, completed, frame, choice, command>>

ObserveTick ==
    /\ pc = "OBSERVE_TICK"
    /\ Tick(Context(frame, FALSE, TRUE, choice.inst))
    /\ Publishes
    /\ Answered
    /\ UNCHANGED <<Local, mine, counter, latched, completed, command>>

PolicyNext ==
    \/ Frame
    \/ Request \/ Acknowledge
    \/ StartAtCapacity \/ Start
    \/ Replan \/ Mark
    \/ CandidateRejected \/ CandidateSupervised \/ CandidateStopped
    \/ Effect
    \/ Observe \/ ObserveMark \/ ObserveTick

PolicySpec == PolicyInit /\ [][PolicyNext]_policyVars

(* A call of the policy runs to its end in its thread, and the match calls *)
(* the policy again in every step, with a later stamp (KinematicMatch.step *)
(* in sim/kinematic/match.py, lines 504-519).  What the frame holds is not *)
(* fair: it may be without a pose, of another stage, or of another clock.  *)
Progress ==
    \/ pc # "IDLE" /\ PolicyNext
    \/ /\ pc = "IDLE"
       /\ \E t \in (lastStamp + 1)..LastStamp :
             \E f \in FramesAt(t) : StageOrder(f) /\ Arrival(f)

FairPolicySpec == PolicySpec /\ WF_policyVars(Progress)

-----------------------------------------------------------------------------
ActiveOptions ==
    [key : MotionKinds \X Nodes, inst : Instances, goal : Goals,
     started : 1..LastStamp, action : Actions, gen : 1..MaxGeneration]

Frames == [stamp : 1..LastStamp, shape : FrameShapes]

Steps == {"IDLE", "REVOKE", "CANCEL", "ABORT", "START", "MARK", "CANDIDATE",
          "EFFECT", "REPLAN", "OBSERVE", "OBSERVE_MARK", "OBSERVE_TICK"}

(* The policy's attributes hold what they can hold.                        *)
PolicyTypeOK ==
    /\ endpoint \in Endpoints
    /\ mine \in ActiveOptions \cup {NoOption}
    /\ counter \in 0..LastStamp
    /\ latched \in BOOLEAN
    /\ epochLost \in BOOLEAN
    /\ clockEpoch \in Clocks \cup {NoOne}
    /\ identity \in (Stages \X Localizations \X Versions) \cup {NoOne}
    /\ completed \subseteq Nodes
    /\ lastStamp \in 0..LastStamp
    /\ track \in Filters
    /\ updatedAt \in 0..LastStamp
    /\ pc \in Steps
    /\ frame \in Frames \cup {NoFrame}
    /\ pc # "IDLE" => frame \in Frames
    /\ command \in {"ZERO", "MOVE", "RAISED"}
    /\ sightings \in 0..ConfirmationCount

(* Between two frames the policy's own record and the authority's agree:   *)
(* the option it holds is the active one, executing, with the goal, the    *)
(* action and the generation it remembers; and where it holds none, the    *)
(* authority has none either, so that no lease is left behind that nobody  *)
(* would cancel.  Every early return of __call__ is a way to break this.   *)
NoOrphan ==
    pc = "IDLE" =>
        IF mine = NoOption
        THEN active = Nobody /\ ~lease.authorized
        ELSE /\ active = mine.action
             /\ instance.phase = "EXECUTING"
             /\ instance.goal = mine.goal
             /\ instance.gen = mine.gen
             /\ lease.authorized

(* Every call is made where the authority will take it: no clock is behind *)
(* its own, no id is used twice, what the selector finds eligible is       *)
(* admitted, validated and confirmed.  The two have rules of their own for *)
(* each of these; a disagreement would show as a refusal in mid-frame.     *)
EveryCallSucceeds ==
    /\ Cancelling =>
          /\ active # Nobody
          /\ ~HasResult(active)
          /\ CancelContext.now >= lastNow
    /\ pc \in {"START", "OBSERVE"} =>
          /\ counter + 1 \notin Known
          /\ active = Nobody
          /\ frame.stamp >= lastNow
          /\ choice.goal.inst \notin used
          /\ CheckInitiation(choice.goal, Context(frame, latched, FALSE, Nobody))
    /\ pc \in {"MARK", "OBSERVE_MARK"} =>
          /\ AwaitingPlan
          /\ frame.stamp >= lastNow
          /\ PlanVerdict(Context(frame, latched, TRUE, Nobody)) = "NONE"
    /\ pc \in {"REPLAN", "EFFECT"} =>
          /\ active = mine.action
          /\ frame.stamp >= lastNow
          /\ TickVerdict(Context(frame, latched, TRUE, Nobody)) = "NONE"
          /\ TickVerdict(Context(frame, latched, TRUE, mine.inst)) = "SUCCESS"
    /\ pc = "CANDIDATE" => Admits(lease, Envelope, frame.stamp)

(* A command to move is the answer to a frame that allows it: the stage is *)
(* active and not over, its lease valid, pose and coverage good, the frame *)
(* newer than any before and of the identity the option was admitted for.  *)
MoveIsWarranted ==
    [][command # "MOVE" /\ command' = "MOVE" =>
          /\ frame.shape.match /\ frame.shape.pose /\ frame.shape.coherent
          /\ frame.shape.phase = "ACTIVE"
          /\ frame.shape.motion /\ frame.shape.leaseValid
          /\ frame.shape.ready /\ frame.shape.forward
          /\ frame.stamp = lastStamp
          /\ frame.stamp < frame.shape.stageEnds
          /\ frame.shape.clock = clockEpoch
          /\ mine.goal.epoch = <<clockEpoch, frame.shape.loc>>
          /\ <<mine.goal.stage, frame.shape.loc, mine.goal.version>> = identity
          /\ mine.inst \notin lease.cancelled
      ]_policyVars

(* After the supervisor has said STOP, or the clock epoch has changed, the *)
(* policy neither moves nor has another option admitted, whatever frames   *)
(* come: only a new policy does.                                           *)
StoppedForGood ==
    [][latched \/ epochLost =>
          /\ latched => latched'
          /\ epochLost => epochLost'
          /\ command' # "MOVE"
          /\ used' = used
          /\ lease'.authorized => lease.authorized
      ]_policyVars

(* The robot moves only where the frame it answers warrants it, and not    *)
(* again once it was told to stop.                                         *)
MotionIsWarranted == MoveIsWarranted /\ StoppedForGood

RivalKinds == {"PRESSURE_ROUTE", "ADVANCE_BASE", "BREAK_LOS", "KEEP_ESCAPE_ROUTE"}

(* The robot reacts to a rival it sees in this very frame and has seen as  *)
(* often as confirmation_count says since the stage, the map, the          *)
(* localization epoch or the clock last changed: not to a shadow of        *)
(* another time, and not to a single detection.                            *)
RivalIsConfirmed ==
    /\ pc \in {"START", "REPLAN", "EFFECT", "MARK", "CANDIDATE"}
    /\ (IF pc = "START" THEN choice.key[1] ELSE mine.key[1]) \in RivalKinds
    => frame.shape.seen /\ sightings >= ConfirmationCount

(* Every option the authority has accepted comes to its result, unless the *)
(* policy raises.  The authority ends nothing by itself: a frame in which  *)
(* nothing is wrong calls begin_replan and mark_executing, never tick, and *)
(* both leave an option alone whose deadline has passed.  It ends because  *)
(* each path through __call__ either goes on with it, cancels it or ticks, *)
(* and because an option past its deadline is not proposed as ready again. *)
OptionsEnd ==
    \A a \in Actions : active = a ~> HasResult(a) \/ command = "RAISED"

(* Every frame is answered with a command.                                 *)
EveryFrameIsAnswered == command # "RAISED"
=============================================================================
