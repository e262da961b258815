-------------------------- MODULE OptionAuthority --------------------------
(***************************************************************************)
(* Admission, lifecycle and candidate authority of tactical options:       *)
(* OptionAuthority and OptionRegistry of hsl_core/tactics/options.py over  *)
(* the ExecutionLease.                                                     *)
(*                                                                         *)
(* Every method holds the authority's lock for all of its body, so a call  *)
(* is one action.  ExecutionLease.admit takes only the lease's own lock    *)
(* and may run in the middle of a call, but each call makes at most one    *)
(* change of the lease that admit can tell apart, and execution_state      *)
(* waits for the authority's lock: what a reader can observe is a state    *)
(* before or after the call, which is what the actions below produce.      *)
(*                                                                         *)
(* Every call is given a snapshot of the match, an OptionContext.  Nothing *)
(* ties one snapshot to the next but the clock: Contexts is any set of     *)
(* them.  role, clock_epoch and localization_epoch are compared together   *)
(* wherever they are compared and are one `epoch'; likewise map and        *)
(* topology versions.  The audit journal and the sequence number of the    *)
(* published state are left out.                                           *)
(***************************************************************************)
EXTENDS ExecutionLease, FiniteSets

CONSTANTS
    Actions,        \* action_id values
    Goals,          \* OptionGoal values a client may submit
    Contexts,       \* OptionContext snapshots
    Stages,         \* stage_id values
    CancelTimeouts, \* cancel_timeout_ns values
    MaxRecords,     \* max_action_records
    Horizon         \* bound: the last clock value of a behaviour

Kinds == {"HOLD_SAFE", "OBSERVE_SAFE", "MOVE"}   \* MOVE: the other eleven
StillKinds == {"HOLD_SAFE", "OBSERVE_SAFE"}
Outcomes == {"SUCCESS", "CANCELED", "TIMEOUT", "FEASIBILITY_LOST",
             "SAFETY_STOP", "STAGE_ENDED", "INTERNAL_ERROR"}
StagePhases == {"INIT", "FREEZE", "ACTIVE", "TERMINAL"}

GoalType ==
    [inst : Instances, kind : Kinds, stage : Stages, epoch : Epochs,
     version : Versions, deadline : Nat,
     wellFormed : BOOLEAN]  \* role, target, tolerance and parameter rules

ContextType ==
    [now : Nat, stage : Stages, phase : StagePhases, stageEnds : Nat,
     epoch : Epochs, version : Versions, motion : BOOLEAN,
     leaseValid : BOOLEAN, safetyStop : BOOLEAN,
     zones : SUBSET Instances,   \* options whose goal zone is accepted
     pathValid : BOOLEAN, feasibilityLost : BOOLEAN,
     effect : Instances \cup {Nobody}]   \* effect_instance_id if satisfied

ASSUME AuthorityAssumption ==
    /\ Goals \subseteq GoalType
    /\ Goals # {}
    /\ Contexts \subseteq ContextType
    /\ Horizon \in Nat
    /\ \A c \in Contexts : c.now <= Horizon
    /\ CancelTimeouts \subseteq Nat \ {0}
    /\ MaxRecords \in Nat \ {0}
    /\ Nobody \notin Actions

VARIABLES
    records,    \* _records: what was answered to each action_id
    used,       \* _used_instance_ids
    active,     \* _active_action_id
    instance,   \* _records[active].instance, the last one when none is active
    lastNow,    \* _last_now_ns
    state       \* execution_state, the published projection

vars == <<lease, records, used, active, instance, lastNow, state>>

(* Where there is no goal yet, its place is filled by an arbitrary one.    *)
AnyGoal == CHOOSE g \in Goals : TRUE

NoRecord == [known |-> FALSE, goal |-> AnyGoal, accepted |-> FALSE, result |-> "NONE"]
Rejection(g) == [known |-> TRUE, goal |-> g, accepted |-> FALSE, result |-> "NONE"]
Acceptance(g) == [known |-> TRUE, goal |-> g, accepted |-> TRUE, result |-> "NONE"]

Known == {a \in Actions : records[a].known}
HasResult(a) == records[a].result # "NONE"

-----------------------------------------------------------------------------
(* OptionRegistry: the predicates of the options.                          *)

DeadlineReached(g, c) == c.now >= g.deadline \/ c.now >= c.stageEnds

AuthorityAvailable(c) == c.motion /\ c.leaseValid /\ ~c.safetyStop

CheckInitiation(g, c) ==
    /\ g.wellFormed
    /\ g.stage = c.stage
    /\ g.epoch = c.epoch
    /\ g.kind # "HOLD_SAFE" =>
          /\ ~DeadlineReached(g, c)
          /\ g.deadline <= c.stageEnds
          /\ c.phase = "ACTIVE"
          /\ AuthorityAvailable(c)
          /\ g.version = c.version
          /\ g.inst \in c.zones

(* A registry that takes an effect before execution for a success.         *)
CheckTerminationEarly(g, c, executing) ==
    IF g.stage # c.stage \/ c.phase \in {"INIT", "TERMINAL"} THEN "STAGE_ENDED"
    ELSE IF g.kind = "HOLD_SAFE" THEN "NONE"
    ELSE IF DeadlineReached(g, c) THEN "TIMEOUT"
    ELSE IF c.safetyStop THEN "SAFETY_STOP"
    ELSE IF c.feasibilityLost THEN "FEASIBILITY_LOST"
    ELSE IF c.effect = g.inst THEN "SUCCESS"
    ELSE "NONE"

CheckTermination(g, c, executing) ==
    IF g.stage # c.stage \/ c.phase \in {"INIT", "TERMINAL"} THEN "STAGE_ENDED"
    ELSE IF g.kind = "HOLD_SAFE" THEN "NONE"
    ELSE IF DeadlineReached(g, c) THEN "TIMEOUT"
    ELSE IF c.safetyStop THEN "SAFETY_STOP"
    ELSE IF c.feasibilityLost THEN "FEASIBILITY_LOST"
    ELSE IF executing /\ c.effect = g.inst THEN "SUCCESS"
    ELSE "NONE"

(* A registry that reports an outdated goal as a failed precondition.      *)
CheckInvariantPrecondition(g, c, executing) ==
    IF g.stage # c.stage THEN "STAGE_ENDED"
    ELSE IF g.epoch # c.epoch THEN "PRECONDITION_FAILED"
    ELSE "NONE"

(* check_invariant with the outcome _finish_from_invariant gives a failure *)
CheckInvariant(g, c, executing) ==
    IF g.stage # c.stage THEN "STAGE_ENDED"
    ELSE IF g.epoch # c.epoch THEN "FEASIBILITY_LOST"
    ELSE IF g.kind = "HOLD_SAFE" THEN "NONE"
    ELSE IF c.phase # "ACTIVE" THEN "STAGE_ENDED"
    ELSE IF DeadlineReached(g, c) THEN "FEASIBILITY_LOST"
    ELSE IF ~c.leaseValid \/ ~c.motion THEN "FEASIBILITY_LOST"
    ELSE IF c.safetyStop THEN "SAFETY_STOP"
    ELSE IF \/ g.version # c.version
            \/ g.inst \notin c.zones
            \/ executing /\ ~c.pathValid
            \/ c.feasibilityLost
         THEN "FEASIBILITY_LOST"
    ELSE "NONE"

(* tick and mark_executing check termination first, then the invariants.   *)
Verdict(g, c, executing) ==
    IF CheckTermination(g, c, executing) # "NONE"
    THEN CheckTermination(g, c, executing)
    ELSE CheckInvariant(g, c, executing)

-----------------------------------------------------------------------------
(* OptionAuthority: one action per way a call can end.                     *)

IdleInstance == [goal |-> AnyGoal, phase |-> "IDLE", gen |-> 0, cancelDeadline |-> 0]
IdleState == [inst |-> Nobody, phase |-> "IDLE", authorized |-> FALSE, gen |-> 0]

Init ==
    /\ lease = InitialLease
    /\ records = [a \in Actions |-> NoRecord]
    /\ used = {}
    /\ active = Nobody
    /\ instance = IdleInstance
    /\ lastNow = 0
    /\ state = IdleState

(* _observe_time: a call whose time is behind raises and changes nothing.  *)
ObserveTime(c) == c.now >= lastNow /\ lastNow' = c.now

(* _publish: the projection of an instance that is still active.           *)
Published(ins, c) ==
    [inst |-> ins.goal.inst, phase |-> ins.phase, gen |-> ins.gen,
     authorized |-> /\ ins.phase = "EXECUTING"
                    /\ ins.goal.kind \notin StillKinds
                    /\ AuthorityAvailable(c)]

(* A grant that forgets that two kinds of options stand still.             *)
ExecutionGrantAnyKind(l, g, c) == WithAuthority(l, AuthorityAvailable(c))

(* set_candidate_authorized(kind moves), then the withdrawal in _publish.  *)
ExecutionGrant(l, g, c) ==
    WithAuthority(l, g.kind \notin StillKinds /\ AuthorityAvailable(c))

(* A replan that keeps the generation of the plan it replaces.             *)
ReplanSameGeneration(l) == WithAuthority(l, FALSE)

(* set_candidate_authorized(False), then advance_generation.               *)
ReplanLease(l) == Advanced(WithAuthority(l, FALSE))

(* A known action_id is answered from its record and changes nothing: only *)
(* new ones are actions here.                                              *)
SubmitAtCapacity(a, c) ==
    /\ a \notin Known
    /\ ObserveTime(c)
    /\ Cardinality(Known) >= MaxRecords
    /\ UNCHANGED <<lease, records, used, active, instance, state>>

SubmitRejected(a, g, c) ==
    /\ a \notin Known
    /\ ObserveTime(c)
    /\ Cardinality(Known) < MaxRecords
    /\ active # Nobody \/ g.inst \in used \/ ~CheckInitiation(g, c)
    /\ records' = [records EXCEPT ![a] = Rejection(g)]
    /\ UNCHANGED <<lease, used, active, instance, state>>

SubmitAccepted(a, g, c) ==
    /\ a \notin Known
    /\ ObserveTime(c)
    /\ Cardinality(Known) < MaxRecords
    /\ active = Nobody
    /\ g.inst \notin used
    /\ CheckInitiation(g, c)
    /\ lease.generation < MaxGeneration
    /\ CanActivate(lease, g.inst)
    /\ lease' = Activated(lease, g.inst, FALSE,
                          [version |-> g.version, epoch |-> g.epoch])
    /\ used' = used \cup {g.inst}
    /\ active' = a
    /\ instance' = [goal |-> g, phase |-> "PLANNING", gen |-> lease'.generation,
                    cancelDeadline |-> 0]
    /\ state' = Published(instance', c)
    /\ records' = [records EXCEPT ![a] = Acceptance(g)]

(* A _finish that leaves the lease to its owner.                           *)
FinishKeepingLease(outcome) ==
    /\ records' = [records EXCEPT ![active].result = outcome]
    /\ instance' = [instance EXCEPT !.phase = "FINISHED"]
    /\ active' = Nobody
    /\ state' = [inst |-> instance.goal.inst, phase |-> "FINISHED",
                 authorized |-> FALSE, gen |-> instance.gen]
    /\ UNCHANGED <<lease, used>>

(* _finish: the lease is revoked before the result is recorded.            *)
Finish(outcome) ==
    /\ lease' = Revoked(lease, instance.goal.inst)
    /\ records' = [records EXCEPT ![active].result = outcome]
    /\ instance' = [instance EXCEPT !.phase = "FINISHED"]
    /\ active' = Nobody
    /\ state' = [inst |-> instance.goal.inst, phase |-> "FINISHED",
                 authorized |-> FALSE, gen |-> instance.gen]
    /\ UNCHANGED used

AwaitingPlan == active # Nobody /\ instance.phase \in {"PLANNING", "REPLANNING"}
Canceling == active # Nobody /\ instance.phase = "CANCELING"

PlanVerdict(c) ==
    IF Verdict(instance.goal, c, FALSE) # "NONE"
    THEN Verdict(instance.goal, c, FALSE)
    ELSE IF ~c.pathValid THEN "FEASIBILITY_LOST" ELSE "NONE"

MarkExecuting(c) ==
    /\ AwaitingPlan
    /\ ObserveTime(c)
    /\ PlanVerdict(c) = "NONE"
    /\ CanSetAuthority(lease, instance.goal.inst, instance.gen,
                       instance.goal.kind \notin StillKinds)
    /\ lease' = ExecutionGrant(lease, instance.goal, c)
    /\ instance' = [instance EXCEPT !.phase = "EXECUTING"]
    /\ state' = Published(instance', c)
    /\ UNCHANGED <<records, used, active>>

MarkExecutingRefused(c) ==
    /\ AwaitingPlan
    /\ ObserveTime(c)
    /\ PlanVerdict(c) # "NONE"
    /\ Finish(PlanVerdict(c))

(* A replan whose instance keeps the old generation.                       *)
BeginReplanStale(c) ==
    /\ active # Nobody
    /\ instance.phase = "EXECUTING"
    /\ ObserveTime(c)
    /\ lease.generation < MaxGeneration
    /\ lease' = ReplanLease(lease)
    /\ instance' = [instance EXCEPT !.phase = "REPLANNING"]
    /\ state' = Published(instance', c)
    /\ UNCHANGED <<records, used, active>>

BeginReplan(c) ==
    /\ active # Nobody
    /\ instance.phase = "EXECUTING"
    /\ ObserveTime(c)
    /\ lease.generation < MaxGeneration
    /\ CanSetAuthority(lease, instance.goal.inst, instance.gen, FALSE)
    /\ CanAdvance(WithAuthority(lease, FALSE), instance.goal.inst, instance.gen)
    /\ lease' = ReplanLease(lease)
    /\ instance' = [instance EXCEPT !.phase = "REPLANNING",
                                    !.gen = lease'.generation]
    /\ state' = Published(instance', c)
    /\ UNCHANGED <<records, used, active>>

RequestCancel(c, timeout) ==
    /\ active # Nobody
    /\ instance.phase # "CANCELING"
    /\ ObserveTime(c)
    /\ c.now + timeout <= Horizon
    /\ lease' = Revoked(lease, instance.goal.inst)
    /\ instance' = [instance EXCEPT !.phase = "CANCELING",
                                    !.cancelDeadline = c.now + timeout]
    /\ state' = Published(instance', c)
    /\ UNCHANGED <<records, used, active>>

AcknowledgeCancel(c) ==
    /\ Canceling
    /\ ObserveTime(c)
    /\ Finish("CANCELED")

(* fail() is accepted in every phase of the active option, CANCELING too.  *)
Fail(c, outcome) ==
    /\ active # Nobody
    /\ ObserveTime(c)
    /\ Finish(outcome)

TickVerdict(c) ==
    IF instance.phase = "CANCELING"
    THEN IF c.now >= instance.cancelDeadline THEN "INTERNAL_ERROR" ELSE "NONE"
    ELSE Verdict(instance.goal, c, instance.phase = "EXECUTING")

Tick(c) ==
    /\ active # Nobody
    /\ ObserveTime(c)
    /\ IF TickVerdict(c) # "NONE"
       THEN Finish(TickVerdict(c))
       ELSE UNCHANGED <<lease, records, used, active, instance, state>>

(* Calls that come to nothing after _observe_time: a tick without active   *)
(* option, a second request_cancel, and the calls that raise because of    *)
(* their action_id or the phase.  They still move the clock.               *)
FruitlessCall(c) ==
    /\ ObserveTime(c)
    /\ UNCHANGED <<lease, records, used, active, instance, state>>

Next ==
    \E c \in Contexts :
        \/ \E a \in Actions : SubmitAtCapacity(a, c)
        \/ \E a \in Actions, g \in Goals : SubmitRejected(a, g, c)
        \/ \E a \in Actions, g \in Goals : SubmitAccepted(a, g, c)
        \/ MarkExecuting(c)
        \/ MarkExecutingRefused(c)
        \/ BeginReplan(c)
        \/ \E timeout \in CancelTimeouts : RequestCancel(c, timeout)
        \/ AcknowledgeCancel(c)
        \/ \E outcome \in {"FEASIBILITY_LOST", "INTERNAL_ERROR"} : Fail(c, outcome)
        \/ Tick(c)
        \/ FruitlessCall(c)

Spec == Init /\ [][Next]_vars

-----------------------------------------------------------------------------
RecordType ==
    [known : BOOLEAN, goal : Goals, accepted : BOOLEAN,
     result : Outcomes \cup {"NONE"}]

InstancePhases ==
    {"IDLE", "PLANNING", "EXECUTING", "REPLANNING", "CANCELING", "FINISHED"}

(* Every variable holds what the attribute it stands for can hold.         *)
TypeOK ==
    /\ lease \in Leases
    /\ records \in [Actions -> RecordType]
    /\ used \subseteq Instances
    /\ active \in Actions \cup {Nobody}
    /\ instance \in [goal : Goals, phase : InstancePhases,
                     gen : 0..MaxGeneration, cancelDeadline : 0..Horizon]
    /\ lastNow \in 0..Horizon
    /\ state \in [inst : Instances \cup {Nobody}, phase : InstancePhases,
                  authorized : BOOLEAN, gen : 0..MaxGeneration]

(* Whatever candidate turns up at the gate, however late: the lease admits *)
(* it only if it was made for the current plan of the one option that is   *)
(* executing, which is of a kind that moves, and for the map and epoch     *)
(* that option was accepted with; and the published execution state says   *)
(* so too.  (ExecutionLease.admit against OptionAuthority's own record.)   *)
Current(e) ==
    /\ active # Nobody
    /\ instance.phase = "EXECUTING"
    /\ instance.goal.kind \notin StillKinds
    /\ e.inst = instance.goal.inst
    /\ e.gen = instance.gen
    /\ e.version = instance.goal.version
    /\ e.epoch = instance.goal.epoch
    /\ state.authorized
    /\ state.inst = e.inst
    /\ state.gen = e.gen

AdmittedIsCurrent ==
    \A i \in Instances, g \in 1..MaxGeneration, v \in Versions, p \in Epochs :
        LET e == [inst |-> i, gen |-> g, version |-> v, epoch |-> p,
                  validUntil |-> 1]
        IN  Admits(lease, e, 0) => Current(e)

(* The lease and the published state are two records of one fact, written  *)
(* by different statements under different locks: they never disagree      *)
(* about whether motion is authorised and for which generation.            *)
StateAgreesWithLease ==
    /\ state.authorized = lease.authorized
    /\ state.authorized =>
          /\ state.inst = lease.owner
          /\ state.gen = lease.generation
          /\ state.phase = "EXECUTING"

(* No call of the lease raises inside a method of the authority: an        *)
(* exception there would leave the option half changed, revoked but        *)
(* without result, or accepted but without record.                         *)
LeaseCallsNeverRaise ==
    /\ active = Nobody =>
          \A g \in Goals : g.inst \notin used => CanActivate(lease, g.inst)
    /\ active # Nobody /\ instance.phase # "CANCELING" =>
          /\ CanSetAuthority(lease, instance.goal.inst, instance.gen, TRUE)
          /\ CanAdvance(WithAuthority(lease, FALSE), instance.goal.inst, instance.gen)

(* An accepted action is the active one or has its result, never both and  *)
(* never neither, and no two accepted actions share an option instance.    *)
EveryActionAccounted ==
    /\ \A a \in Known :
          records[a].accepted => (records[a].result = "NONE") = (a = active)
    /\ \A a, b \in Known :
          /\ records[a].accepted
          /\ records[b].accepted
          /\ a # b
          => records[a].goal.inst # records[b].goal.inst

(* A result is final: _finish cannot run twice for an action, and          *)
(* SUCCESS is given only to an option that is executing.                   *)
ResultsAreFinal ==
    [][\A a \in Actions :
          /\ HasResult(a) => records'[a] = records[a]
          /\ records[a].result # records'[a].result =>
                /\ active = a
                /\ records'[a].result = "SUCCESS" => instance.phase = "EXECUTING"
      ]_vars

(* Every accepted action gets one result, and keeps it: none is forgotten, *)
(* answered twice or answered for another.                                 *)
AccountsAreKept == []EveryActionAccounted /\ ResultsAreFinal

(* The authority implements the token of MotionToken: the lease's owner    *)
(* holds it while candidates are authorised, and a generation is out of    *)
(* reach as soon as its plan is past waiting for validation.               *)
Holder ==
    IF lease.authorized
    THEN [inst |-> lease.owner, gen |-> lease.generation]
    ELSE [inst |-> Nobody, gen |-> 0]

Fence == IF AwaitingPlan THEN lease.generation - 1 ELSE lease.generation

Token ==
    INSTANCE MotionToken
    WITH holder <- Holder, fence <- Fence, MaxFence <- MaxGeneration,
         NoToken <- [inst |-> Nobody, gen |-> 0],
         Tokens <- [inst : Instances, gen : 1..MaxGeneration]

TokenSpec == Token!Spec
=============================================================================
