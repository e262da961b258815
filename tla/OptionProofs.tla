----------------------------- MODULE OptionProofs -----------------------------
(***************************************************************************)
(* Theorems about OptionAuthority, for every set of goals, contexts,       *)
(* actions and options and for every bound, about the ExecutionLease it is *)
(* built on, under any callers, and about AutonomousPolicy, for every set  *)
(* of frames, nodes, maps and clocks and every filter and selector         *)
(* configuration.                                                          *)
(*                                                                         *)
(* The invariants of the authority are not inductive by themselves: a      *)
(* lease that admits nothing but the current candidate follows from what   *)
(* the lease's owner, generation, expectations and cancelled set have to   *)
(* do with the active instance, which is Ownership below.                  *)
(*                                                                         *)
(* The policy and the authority keep separate records of the option under  *)
(* way, of the time and of the ids that were given; the properties relate  *)
(* the two between frames only, or at one call.  The invariant says what   *)
(* each step of a frame may rely on: that the frame being decided passed   *)
(* the checks of __call__ (Handling), that no clock and no id of the       *)
(* authority is ahead of the policy's (Counting), what a choice still to   *)
(* be started is (Choosing), and how far the authority has come with the   *)
(* option when the policy makes its next call (Remembering, Agreeing).     *)
(* It stands on IInv, the authority's own invariant: every step of the     *)
(* policy is a call the authority allows.                                  *)
(***************************************************************************)
EXTENDS AutonomousPolicy, WellFoundedInduction, TLAPS

-----------------------------------------------------------------------------
(* The lease on its own, whatever its callers do: they may follow no       *)
(* protocol at all.                                                        *)

LeaseInv == LeaseTypeOK /\ AuthorityIsUncancelled

(* A lease whose cancelled set and generation have not moved back refuses  *)
(* every candidate that was fenced before.                                 *)
LEMMA FencesFollow ==
    ASSUME NEW l \in Leases, NEW m \in Leases,
           l.cancelled \subseteq m.cancelled, l.generation <= m.generation,
           NEW i \in Instances, NEW g \in 1..MaxGeneration, Fenced(l, i, g)
    PROVE  /\ Fenced(m, i, g)
           /\ \A v \in Versions, e \in Epochs :
                 ~Admits(m, [inst |-> i, gen |-> g, version |-> v,
                             epoch |-> e, validUntil |-> 1], 0)
<1>1. l.generation \in Nat /\ m.generation \in Nat /\ g \in Nat
  BY LeaseAssumption DEF Leases
<1>2. Fenced(m, i, g)
  BY <1>1 DEF Fenced
<1>3. ASSUME NEW v \in Versions, NEW e \in Epochs
      PROVE  ~Admits(m, [inst |-> i, gen |-> g, version |-> v,
                         epoch |-> e, validUntil |-> 1], 0)
  BY <1>1, <1>2 DEF Fenced, Admits
<1> QED
  BY <1>2, <1>3

(* Each operation keeps the invariant and moves no fence back.             *)
LEMMA LeaseStep ==
    ASSUME LeaseInv, [LeaseNext]_lease
    PROVE  /\ LeaseInv'
           /\ lease.cancelled \subseteq lease'.cancelled
           /\ lease.generation <= lease'.generation
<1> USE DEF LeaseInv, LeaseTypeOK, AuthorityIsUncancelled, Leases
<1>1. lease.generation \in Nat
  BY LeaseAssumption
<1>2. CASE UNCHANGED lease
  BY <1>1, <1>2
<1>3. ASSUME NEW i \in Instances, NEW auth \in BOOLEAN,
             NEW exp \in Expectations \cup {NoExpectation}, Activate(i, auth, exp)
      PROVE  /\ LeaseInv'
             /\ lease.cancelled \subseteq lease'.cancelled
             /\ lease.generation <= lease'.generation
  <2>1. lease.generation + 1 \in 0..MaxGeneration
    BY <1>3, LeaseAssumption DEF Activate
  <2>2. lease' = [lease EXCEPT !.generation = @ + 1, !.owner = i,
                               !.authorized = auth, !.expected = exp]
    BY <1>3 DEF Activate, Activated
  <2>3. i \notin lease.cancelled
    BY <1>3 DEF Activate, CanActivate
  <2> HIDE DEF Expectations, NoExpectation
  <2>4. lease' \in Leases
    BY <2>1, <2>2
  <2> QED
    BY <1>1, <2>2, <2>3, <2>4
<1>4. ASSUME NEW i \in Instances, Cancel(i)
      PROVE  /\ LeaseInv'
             /\ lease.cancelled \subseteq lease'.cancelled
             /\ lease.generation <= lease'.generation
  <2>1. lease' = [lease EXCEPT !.cancelled = @ \cup {i},
                               !.authorized = @ /\ lease.owner # i]
    BY <1>4 DEF Cancel, Revoked
  <2>2. (lease.authorized /\ lease.owner # i) \in BOOLEAN
    OBVIOUS
  <2>3. lease' \in Leases
    BY <2>1, <2>2
  <2>4. lease'.authorized => lease.authorized /\ lease.owner # i
    BY <2>1
  <2> QED
    BY <1>1, <2>1, <2>3, <2>4
<1>5. ASSUME NEW i \in Instances, NEW g \in 0..MaxGeneration, NEW auth \in BOOLEAN,
             SetCandidateAuthorized(i, g, auth)
      PROVE  /\ LeaseInv'
             /\ lease.cancelled \subseteq lease'.cancelled
             /\ lease.generation <= lease'.generation
  BY <1>1, <1>5 DEF SetCandidateAuthorized, CanSetAuthority, WithAuthority
<1>6. ASSUME NEW i \in Instances, NEW g \in 0..MaxGeneration, AdvanceGeneration(i, g)
      PROVE  /\ LeaseInv'
             /\ lease.cancelled \subseteq lease'.cancelled
             /\ lease.generation <= lease'.generation
  <2>1. lease.generation + 1 \in 0..MaxGeneration
    BY <1>6, LeaseAssumption DEF AdvanceGeneration
  <2> QED
    BY <1>1, <1>6, <2>1 DEF AdvanceGeneration, CanAdvance, Advanced
<1> QED
  BY <1>2, <1>3, <1>4, <1>5, <1>6 DEF LeaseNext

LEMMA LeaseInvariance == LeaseSpec => []LeaseInv
<1>1. LeaseInit => LeaseInv
  BY LeaseAssumption
  DEF LeaseInit, InitialLease, LeaseInv, LeaseTypeOK, AuthorityIsUncancelled, Leases
<1> QED
  BY <1>1, LeaseStep, PTL DEF LeaseSpec

(* The attributes of the lease stay in their types, whoever calls.         *)
THEOREM LeaseTypeCorrect == LeaseSpec => []LeaseTypeOK
<1>1. LeaseInv => LeaseTypeOK
  BY DEF LeaseInv
<1> QED
  BY <1>1, LeaseInvariance, PTL

(* No sequence of activate, cancel, set_candidate_authorized and           *)
(* advance_generation gives authority to a cancelled option.               *)
THEOREM UncancelledCorrect == LeaseSpec => []AuthorityIsUncancelled
<1>1. LeaseInv => AuthorityIsUncancelled
  BY DEF LeaseInv
<1> QED
  BY <1>1, LeaseInvariance, PTL

(* What the lease refuses because it is cancelled or superseded it refuses *)
(* for ever.                                                               *)
THEOREM FencesCorrect == LeaseSpec => FencesHold
<1> DEFINE Holding ==
      \A i \in Instances, g \in 1..MaxGeneration :
          Fenced(lease, i, g) =>
              /\ Fenced(lease', i, g)
              /\ \A v \in Versions, e \in Epochs :
                    ~Admits(lease', [inst |-> i, gen |-> g, version |-> v,
                                     epoch |-> e, validUntil |-> 1], 0)
<1>1. LeaseInv /\ [LeaseNext]_lease => [Holding]_lease
  <2> SUFFICES ASSUME LeaseInv, [LeaseNext]_lease PROVE Holding
    OBVIOUS
  <2>1. lease \in Leases /\ lease' \in Leases
    BY LeaseStep DEF LeaseInv, LeaseTypeOK
  <2> QED
    BY <2>1, LeaseStep, FencesFollow
<1> QED
  BY <1>1, LeaseInvariance, PTL DEF LeaseSpec, FencesHold

-----------------------------------------------------------------------------
(* The lease in the hands of the authority.                                *)

ActivePhases == {"PLANNING", "EXECUTING", "REPLANNING", "CANCELING"}

(* The lease belongs to the active instance, in its generation, and to     *)
(* nobody who could use it when no instance is active.                     *)
Ownership ==
    /\ lease.cancelled \subseteq used
    /\ lease.owner \in used \cup {Nobody}
    /\ active = Nobody =>
          /\ lease.owner = Nobody \/ lease.owner \in lease.cancelled
          /\ ~lease.authorized
    /\ active # Nobody =>
          /\ instance.phase \in ActivePhases
          /\ lease.owner = instance.goal.inst
          /\ lease.generation = instance.gen
          /\ instance.gen > 0
          /\ lease.expected = [version |-> instance.goal.version,
                               epoch |-> instance.goal.epoch]
          /\ (instance.goal.inst \in lease.cancelled) = (instance.phase = "CANCELING")
    /\ lease.authorized =>
          instance.phase = "EXECUTING" /\ instance.goal.kind \notin StillKinds

(* The published state is the projection of the active instance.           *)
Projection ==
    /\ state.authorized = lease.authorized
    /\ active # Nobody =>
          /\ state.inst = instance.goal.inst
          /\ state.phase = instance.phase
          /\ state.gen = instance.gen

(* Records: the active action is accepted and open, every other accepted   *)
(* one is closed, and accepted goals use up their instances.               *)
Bookkeeping ==
    /\ active # Nobody =>
          /\ active \in Known
          /\ records[active].accepted
          /\ records[active].goal = instance.goal
    /\ \A a \in Actions \ Known : records[a].result = "NONE"
    /\ \A a \in Known :
          records[a].accepted =>
              /\ (records[a].result = "NONE") = (a = active)
              /\ records[a].goal.inst \in used
    /\ \A a, b \in Known :
          records[a].accepted /\ records[b].accepted /\ a # b =>
              records[a].goal.inst # records[b].goal.inst

IInv == TypeOK /\ Ownership /\ Projection /\ Bookkeeping

(* Snapshots of the match, whether Next hands them over or another client. *)
Snapshots == {c \in ContextType : c.now <= Horizon}

-----------------------------------------------------------------------------
(* A goal names a real option, a context a time before the horizon.        *)
LEMMA GoalFacts ==
    ASSUME NEW g \in Goals
    PROVE  /\ g.inst \in Instances /\ g.version \in Versions /\ g.epoch \in Epochs
           /\ g.kind \in Kinds
  BY AuthorityAssumption DEF GoalType

LEMMA ClockFacts ==
    ASSUME NEW c \in Snapshots, ObserveTime(c)
    PROVE  lastNow' \in 0..Horizon
  BY AuthorityAssumption DEF Snapshots, ContextType, ObserveTime

(* The contexts a client may hand over are snapshots of this kind.         *)
LEMMA ContextFacts == Contexts \subseteq Snapshots
  BY AuthorityAssumption DEF Snapshots

(* The registry gives no outcome the result type does not have.            *)
LEMMA VerdictType ==
    ASSUME NEW g, NEW c, NEW executing
    PROVE  Verdict(g, c, executing) \in Outcomes \cup {"NONE"}
  BY DEF Verdict, CheckTermination, CheckInvariant, Outcomes

LEMMA InitInv == Init => IInv
<1> SUFFICES ASSUME Init PROVE IInv
  OBVIOUS
<1>1. AnyGoal \in Goals
  BY AuthorityAssumption DEF AnyGoal
<1>2. TypeOK
  BY <1>1, LeaseAssumption, AuthorityAssumption
  DEF Init, TypeOK, InitialLease, Leases, NoRecord, RecordType, IdleInstance,
      IdleState, InstancePhases
<1>3. Known = {}
  BY DEF Init, Known, NoRecord
<1>4. Ownership /\ Projection
  BY DEF Init, Ownership, Projection, InitialLease, IdleState
<1>5. Bookkeeping
  BY <1>3 DEF Init, Bookkeeping, NoRecord
<1> QED
  BY <1>2, <1>4, <1>5 DEF IInv

(* Every way an active option ends.                                        *)
LEMMA FinishInv ==
    ASSUME IInv, active # Nobody, lastNow' \in 0..Horizon,
           NEW outcome \in Outcomes, Finish(outcome)
    PROVE  IInv'
<1> DEFINE i == instance.goal.inst
<1>1. /\ active \in Actions
      /\ instance.goal \in Goals
      /\ i \in Instances
  BY GoalFacts DEF IInv, TypeOK
<1>2. /\ lease.owner = i
      /\ lease' = [lease EXCEPT !.cancelled = @ \cup {i}, !.authorized = FALSE]
  BY <1>1 DEF IInv, TypeOK, Leases, Ownership, Finish, Revoked
<1>3. TypeOK'
  <2>1. lease' \in Leases
    BY <1>1, <1>2 DEF IInv, TypeOK, Leases
  <2>2. records' \in [Actions -> RecordType]
    BY <1>1 DEF IInv, TypeOK, RecordType, Finish, Bookkeeping, Known, NoRecord
  <2> QED
    BY <1>1, <2>1, <2>2 DEF IInv, TypeOK, Finish, InstancePhases
<1>4. Ownership'
  BY <1>1, <1>2, LeaseAssumption DEF IInv, TypeOK, Leases, Ownership, Finish
<1>5. Projection'
  BY <1>1, <1>2 DEF IInv, TypeOK, Leases, Finish, Projection
<1>6. Bookkeeping'
  <2>1. Known' = Known
    BY <1>1 DEF IInv, TypeOK, RecordType, Finish, Bookkeeping, Known, NoRecord
  <2>2. \A a \in Known :
           /\ records'[a].accepted = records[a].accepted
           /\ records'[a].goal = records[a].goal
           /\ records'[a].result = IF a = active THEN outcome ELSE records[a].result
    BY <1>1 DEF IInv, TypeOK, RecordType, Finish, Bookkeeping, Known, NoRecord
  <2> QED
    BY <2>1, <2>2, <1>1, AuthorityAssumption
    DEF IInv, Bookkeeping, Finish, Outcomes, Known
<1> QED
  BY <1>3, <1>4, <1>5, <1>6 DEF IInv

(* A call that changes nothing but the clock.                              *)
LEMMA IdleCallInv ==
    ASSUME IInv, lastNow' \in 0..Horizon,
           UNCHANGED <<lease, records, used, active, instance, state>>
    PROVE  IInv'
  BY DEF IInv, TypeOK, Ownership, Projection, Bookkeeping, Known

(* A new record for an action_id nobody has used.                          *)
LEMMA RejectedInv ==
    ASSUME IInv, NEW a \in Actions, NEW g \in Goals, NEW c \in Snapshots,
           SubmitRejected(a, g, c)
    PROVE  IInv'
<1>1. lastNow' \in 0..Horizon
  BY ClockFacts DEF SubmitRejected
<1>2. /\ Known' = Known \cup {a}
      /\ \A b \in Known : records'[b] = records[b]
      /\ records'[a] = Rejection(g)
  BY DEF IInv, TypeOK, RecordType, SubmitRejected, Known, Rejection, NoRecord
<1>3. TypeOK'
  BY <1>1 DEF IInv, TypeOK, SubmitRejected, RecordType, Rejection
<1>4. Ownership' /\ Projection'
  BY DEF IInv, Ownership, Projection, SubmitRejected
<1>5. Bookkeeping'
  BY <1>2 DEF IInv, Bookkeeping, SubmitRejected, Rejection
<1> QED
  BY <1>3, <1>4, <1>5 DEF IInv

LEMMA AcceptedInv ==
    ASSUME IInv, NEW a \in Actions, NEW g \in Goals, NEW c \in Snapshots,
           SubmitAccepted(a, g, c)
    PROVE  IInv'
<1>1. lastNow' \in 0..Horizon
  BY ClockFacts DEF SubmitAccepted
<1>2. /\ g.inst \in Instances
      /\ g.inst \notin used
      /\ g.inst # Nobody
      /\ a # Nobody
  BY GoalFacts, LeaseAssumption, AuthorityAssumption DEF SubmitAccepted
<1>3. /\ Known' = Known \cup {a}
      /\ a \notin Known
      /\ \A b \in Known : records'[b] = records[b]
      /\ records'[a] = Acceptance(g)
  BY DEF IInv, TypeOK, RecordType, SubmitAccepted, Known, Acceptance, NoRecord
<1>4. /\ lease'.generation = lease.generation + 1
      /\ lease'.generation \in 1..MaxGeneration
      /\ lease'.owner = g.inst
      /\ lease'.authorized = FALSE
      /\ lease'.cancelled = lease.cancelled
      /\ lease'.expected = [version |-> g.version, epoch |-> g.epoch]
      /\ lease' \in Leases
  <2> DEFINE exp == [version |-> g.version, epoch |-> g.epoch]
  <2>1. lease' = [lease EXCEPT !.generation = lease.generation + 1,
                               !.owner = g.inst, !.authorized = FALSE,
                               !.expected = exp]
    BY DEF SubmitAccepted, Activated
  <2>2. /\ lease \in Leases
        /\ lease.generation + 1 \in 1..MaxGeneration
        /\ lease.generation + 1 \in 0..MaxGeneration
    BY LeaseAssumption DEF IInv, TypeOK, Leases, SubmitAccepted
  <2>3. exp \in Expectations
    BY GoalFacts DEF Expectations
  <2> HIDE DEF exp
  <2>4. /\ lease'.generation = lease.generation + 1
        /\ lease'.owner = g.inst
        /\ lease'.authorized = FALSE
        /\ lease'.cancelled = lease.cancelled
        /\ lease'.expected = exp
    BY <2>1, <2>2 DEF Leases
  <2>5. lease' \in Leases
    <3> DEFINE n == lease.generation + 1
               E == Expectations \cup {NoExpectation}
    <3>1. n \in 0..MaxGeneration /\ exp \in E
      BY <2>2, <2>3
    <3>2. lease' = [lease EXCEPT !.generation = n, !.owner = g.inst,
                                 !.authorized = FALSE, !.expected = exp]
      BY <2>1
    <3>3. lease \in [generation : 0..MaxGeneration, cancelled : SUBSET Instances,
                     owner : Instances \cup {Nobody}, authorized : BOOLEAN,
                     expected : E]
      BY <2>2 DEF Leases
    <3> HIDE DEF n, E
    <3>4. lease' \in [generation : 0..MaxGeneration, cancelled : SUBSET Instances,
                      owner : Instances \cup {Nobody}, authorized : BOOLEAN,
                      expected : E]
      BY <1>2, <3>1, <3>2, <3>3
    <3> QED
      BY <3>4 DEF E, Leases
  <2> QED
    BY <2>2, <2>4, <2>5 DEF exp
<1>5. /\ instance' = [goal |-> g, phase |-> "PLANNING", gen |-> lease'.generation,
                      cancelDeadline |-> 0]
      /\ state' = [inst |-> g.inst, phase |-> "PLANNING",
                   gen |-> lease'.generation, authorized |-> FALSE]
      /\ active' = a
      /\ used' = used \cup {g.inst}
  BY DEF SubmitAccepted, Published
<1>6. TypeOK'
  <2>1. records' \in [Actions -> RecordType]
    BY DEF IInv, TypeOK, SubmitAccepted, RecordType, Acceptance
  <2>2. /\ lease'.generation \in 0..MaxGeneration
        /\ 0 \in 0..Horizon
    BY <1>4, LeaseAssumption, AuthorityAssumption
  <2> QED
    BY <1>1, <1>2, <1>4, <1>5, <2>1, <2>2 DEF IInv, TypeOK, InstancePhases
<1>7. Ownership'
  BY <1>2, <1>4, <1>5 DEF IInv, Ownership, ActivePhases
<1>8. Projection'
  BY <1>4, <1>5 DEF Projection
<1>9. Bookkeeping'
  <2>1. active = Nobody
    BY DEF SubmitAccepted
  <2>2. /\ active' # Nobody =>
              /\ active' \in Known'
              /\ records'[active'].accepted
              /\ records'[active'].goal = instance'.goal
    BY <1>3, <1>5 DEF Acceptance
  <2>3. \A b \in Known' : records'[b].accepted =>
           /\ (records'[b].result = "NONE") = (b = active')
           /\ records'[b].goal.inst \in used'
    <3> SUFFICES ASSUME NEW b \in Known', records'[b].accepted
                 PROVE  /\ (records'[b].result = "NONE") = (b = active')
                        /\ records'[b].goal.inst \in used'
      OBVIOUS
    <3>1. CASE b = a
      BY <3>1, <1>3, <1>5 DEF Acceptance
    <3>2. CASE b # a
      <4>1. b \in Known /\ records'[b] = records[b] /\ b \in Actions
        BY <3>2, <1>3 DEF Known
      <4>2. records[b].result # "NONE"
        BY <4>1, <2>1, AuthorityAssumption DEF IInv, Bookkeeping
      <4> QED
        BY <3>2, <4>1, <4>2, <1>5 DEF IInv, Bookkeeping
    <3> QED
      BY <3>1, <3>2
  <2>4. \A b, d \in Known' : records'[b].accepted /\ records'[d].accepted /\ b # d =>
           records'[b].goal.inst # records'[d].goal.inst
    BY <1>2, <1>3 DEF IInv, Bookkeeping, Acceptance
  <2>5. \A b \in Actions \ Known' : records'[b].result = "NONE"
    BY <1>3 DEF IInv, TypeOK, Bookkeeping, SubmitAccepted
  <2> QED
    BY <2>2, <2>3, <2>4, <2>5 DEF Bookkeeping
<1> QED
  BY <1>6, <1>7, <1>8, <1>9 DEF IInv

(* The calls that move an option on: the records stay, the lease keeps its *)
(* owner and its expectations, the state is published anew.                *)
LEMMA MarkInv ==
    ASSUME IInv, NEW c \in Snapshots, MarkExecuting(c)
    PROVE  IInv'
<1> DEFINE auth == /\ instance.goal.kind \notin StillKinds
                   /\ AuthorityAvailable(c)
<1>1. auth \in BOOLEAN
  BY DEF AuthorityAvailable, Snapshots, ContextType
<1>2. /\ lease' = [lease EXCEPT !.authorized = auth]
      /\ instance' = [instance EXCEPT !.phase = "EXECUTING"]
      /\ state' = [inst |-> instance.goal.inst, phase |-> "EXECUTING",
                   gen |-> instance.gen, authorized |-> auth]
  BY DEF IInv, TypeOK, MarkExecuting, ExecutionGrant, WithAuthority, Published
<1>3. /\ active # Nobody
      /\ instance.phase \in {"PLANNING", "REPLANNING"}
      /\ UNCHANGED <<records, used, active>>
      /\ lastNow' \in 0..Horizon
      /\ instance.goal \in Goals
      /\ instance.goal.inst \in Instances
  BY ClockFacts, GoalFacts DEF IInv, TypeOK, MarkExecuting, AwaitingPlan
<1>4. auth => instance.goal.kind \notin StillKinds
  OBVIOUS
<1> HIDE DEF auth
<1>5. TypeOK'
  BY <1>1, <1>2, <1>3 DEF IInv, TypeOK, Leases, InstancePhases
<1>6. Ownership'
  BY <1>1, <1>2, <1>3, <1>4 DEF IInv, TypeOK, Leases, Ownership, ActivePhases
<1>7. Projection'
  BY <1>1, <1>2, <1>3 DEF IInv, TypeOK, Leases, Projection
<1>8. Bookkeeping'
  BY <1>2, <1>3 DEF IInv, TypeOK, Bookkeeping, Known
<1> QED
  BY <1>5, <1>6, <1>7, <1>8 DEF IInv

LEMMA ReplanInv ==
    ASSUME IInv, NEW c \in Snapshots, BeginReplan(c)
    PROVE  IInv'
<1>1. /\ lease.generation + 1 \in 1..MaxGeneration
      /\ lease.generation + 1 \in 0..MaxGeneration
  BY LeaseAssumption DEF IInv, TypeOK, Leases, BeginReplan
<1>2. /\ lease' = [lease EXCEPT !.generation = lease.generation + 1,
                                !.authorized = FALSE]
      /\ lease'.generation = lease.generation + 1
  BY DEF IInv, TypeOK, Leases, BeginReplan, ReplanLease, Advanced, WithAuthority
<1>3. instance' = [instance EXCEPT !.phase = "REPLANNING",
                                   !.gen = lease.generation + 1]
  BY <1>2 DEF BeginReplan
<1>4. state' = [inst |-> instance.goal.inst, phase |-> "REPLANNING",
                gen |-> lease.generation + 1, authorized |-> FALSE]
  BY <1>3 DEF IInv, TypeOK, BeginReplan, Published
<1>5. /\ active # Nobody
      /\ instance.phase = "EXECUTING"
      /\ UNCHANGED <<records, used, active>>
      /\ lastNow' \in 0..Horizon
      /\ instance.goal \in Goals
      /\ instance.goal.inst \in Instances
  BY ClockFacts, GoalFacts DEF IInv, TypeOK, BeginReplan
<1>6. TypeOK'
  BY <1>1, <1>2, <1>3, <1>4, <1>5 DEF IInv, TypeOK, Leases, InstancePhases
<1>7. Ownership'
  BY <1>1, <1>2, <1>3, <1>5 DEF IInv, TypeOK, Leases, Ownership, ActivePhases
<1>8. Projection'
  BY <1>2, <1>3, <1>4, <1>5 DEF IInv, TypeOK, Leases, Projection
<1>9. Bookkeeping'
  BY <1>3, <1>5 DEF IInv, TypeOK, Bookkeeping, Known
<1> QED
  BY <1>6, <1>7, <1>8, <1>9 DEF IInv

LEMMA CancelInv ==
    ASSUME IInv, NEW c \in Snapshots, NEW timeout \in CancelTimeouts,
           RequestCancel(c, timeout)
    PROVE  IInv'
<1>1. /\ active # Nobody
      /\ UNCHANGED <<records, used, active>>
      /\ lastNow' \in 0..Horizon
      /\ instance.goal \in Goals
      /\ instance.goal.inst \in Instances
      /\ lease.owner = instance.goal.inst
      /\ instance.goal.inst \in used
  BY ClockFacts, GoalFacts, LeaseAssumption
  DEF IInv, TypeOK, Ownership, RequestCancel
<1>2. c.now + timeout \in 0..Horizon
  BY AuthorityAssumption DEF RequestCancel, Snapshots, ContextType
<1>3. lease' = [lease EXCEPT !.cancelled = @ \cup {instance.goal.inst},
                             !.authorized = FALSE]
  BY <1>1 DEF IInv, TypeOK, Leases, RequestCancel, Revoked
<1>4. /\ instance' = [instance EXCEPT !.phase = "CANCELING",
                                      !.cancelDeadline = c.now + timeout]
      /\ state' = [inst |-> instance.goal.inst, phase |-> "CANCELING",
                   gen |-> instance.gen, authorized |-> FALSE]
  BY DEF IInv, TypeOK, RequestCancel, Published
<1>5. TypeOK'
  BY <1>1, <1>2, <1>3, <1>4 DEF IInv, TypeOK, Leases, InstancePhases
<1>6. Ownership'
  BY <1>1, <1>3, <1>4 DEF IInv, TypeOK, Leases, Ownership, ActivePhases
<1>7. Projection'
  BY <1>1, <1>3, <1>4 DEF IInv, TypeOK, Leases, Projection
<1>8. Bookkeeping'
  BY <1>1, <1>4 DEF IInv, TypeOK, Bookkeeping, Known
<1> QED
  BY <1>5, <1>6, <1>7, <1>8 DEF IInv

(* The calls that end the active option.                                   *)
LEMMA EndInv ==
    ASSUME IInv, NEW c \in Snapshots,
           \/ MarkExecutingRefused(c)
           \/ AcknowledgeCancel(c)
           \/ \E outcome \in {"FEASIBILITY_LOST", "INTERNAL_ERROR"} : Fail(c, outcome)
           \/ Tick(c)
    PROVE  IInv'
<1>1. CASE MarkExecutingRefused(c)
  <2>1. PlanVerdict(c) \in Outcomes
    BY <1>1, VerdictType DEF MarkExecutingRefused, PlanVerdict, Outcomes
  <2> QED
    BY <1>1, <2>1, ClockFacts, FinishInv DEF MarkExecutingRefused, AwaitingPlan
<1>2. CASE AcknowledgeCancel(c)
  BY <1>2, ClockFacts, FinishInv DEF AcknowledgeCancel, Canceling, Outcomes
<1>3. CASE \E outcome \in {"FEASIBILITY_LOST", "INTERNAL_ERROR"} : Fail(c, outcome)
  BY <1>3, ClockFacts, FinishInv DEF Fail, Outcomes
<1>4. CASE Tick(c)
  <2>1. CASE TickVerdict(c) # "NONE"
    <3>1. TickVerdict(c) \in Outcomes
      BY <2>1, VerdictType DEF TickVerdict, Outcomes
    <3> QED
      BY <1>4, <2>1, <3>1, ClockFacts, FinishInv DEF Tick
  <2>2. CASE TickVerdict(c) = "NONE"
    BY <1>4, <2>2, ClockFacts, IdleCallInv DEF Tick
  <2> QED
    BY <2>1, <2>2
<1> QED
  BY <1>1, <1>2, <1>3, <1>4

LEMMA NextInv == IInv /\ [Next]_vars => IInv'
<1> SUFFICES ASSUME IInv, [Next]_vars PROVE IInv'
  OBVIOUS
<1>1. CASE UNCHANGED vars
  BY <1>1 DEF IInv, TypeOK, Ownership, Projection, Bookkeeping, Known, vars
<1>2. CASE Next
  <2>1. PICK c \in Snapshots :
           \/ \E a \in Actions : SubmitAtCapacity(a, c)
           \/ \E a \in Actions, g \in Goals : SubmitRejected(a, g, c)
           \/ \E a \in Actions, g \in Goals : SubmitAccepted(a, g, c)
           \/ MarkExecuting(c)
           \/ MarkExecutingRefused(c)
           \/ BeginReplan(c)
           \/ \E timeout \in CancelTimeouts : RequestCancel(c, timeout)
           \/ AcknowledgeCancel(c)
           \/ \E outcome \in {"FEASIBILITY_LOST", "INTERNAL_ERROR"} : Fail(c, outcome)
           \/ Tick(c)
           \/ FruitlessCall(c)
    BY <1>2, ContextFacts DEF Next
  <2>2. CASE \E a \in Actions : SubmitAtCapacity(a, c)
    BY <2>2, ClockFacts, IdleCallInv DEF SubmitAtCapacity
  <2>3. CASE \E a \in Actions, g \in Goals : SubmitRejected(a, g, c)
    BY <2>3, RejectedInv
  <2>4. CASE \E a \in Actions, g \in Goals : SubmitAccepted(a, g, c)
    BY <2>4, AcceptedInv
  <2>5. CASE MarkExecuting(c)
    BY <2>5, MarkInv
  <2>6. CASE BeginReplan(c)
    BY <2>6, ReplanInv
  <2>7. CASE \E timeout \in CancelTimeouts : RequestCancel(c, timeout)
    BY <2>7, CancelInv
  <2>8. CASE FruitlessCall(c)
    BY <2>8, ClockFacts, IdleCallInv DEF FruitlessCall
  <2> QED
    BY <2>1, <2>2, <2>3, <2>4, <2>5, <2>6, <2>7, <2>8, EndInv
<1> QED
  BY <1>1, <1>2

LEMMA Invariance == Spec => []IInv
  BY InitInv, NextInv, PTL DEF Spec

-----------------------------------------------------------------------------
(* Type correctness of the authority, whatever its clients do.             *)
THEOREM TypeCorrect == Spec => []TypeOK
<1>1. IInv => TypeOK
  BY DEF IInv
<1> QED
  BY <1>1, Invariance, PTL

(* The lease admits only a candidate of the current plan of the executing, *)
(* moving option, for the versions it was accepted with.                   *)
THEOREM AdmissionCorrect == Spec => []AdmittedIsCurrent
<1>1. IInv => AdmittedIsCurrent
  <2> SUFFICES ASSUME IInv,
                      NEW i \in Instances, NEW g \in 1..MaxGeneration,
                      NEW v \in Versions, NEW p \in Epochs,
                      Admits(lease, [inst |-> i, gen |-> g, version |-> v,
                                     epoch |-> p, validUntil |-> 1], 0)
               PROVE  Current([inst |-> i, gen |-> g, version |-> v,
                               epoch |-> p, validUntil |-> 1])
    BY DEF AdmittedIsCurrent
  <2>1. /\ g = lease.generation
        /\ i = lease.owner
        /\ lease.authorized
        /\ lease.expected # NoExpectation =>
              lease.expected = [version |-> v, epoch |-> p]
    BY DEF Admits
  <2>2. /\ active # Nobody
        /\ instance.phase = "EXECUTING"
        /\ instance.goal.kind \notin StillKinds
        /\ lease.owner = instance.goal.inst
        /\ lease.generation = instance.gen
        /\ lease.expected = [version |-> instance.goal.version,
                             epoch |-> instance.goal.epoch]
        /\ instance.goal \in Goals
    BY <2>1 DEF IInv, TypeOK, Ownership
  <2>3. v = instance.goal.version /\ p = instance.goal.epoch
    BY <2>1, <2>2, GoalFacts, LeaseAssumption DEF NoExpectation
  <2> QED
    BY <2>1, <2>2, <2>3 DEF IInv, Projection, Current
<1> QED
  BY <1>1, Invariance, PTL

(* The published execution state and the lease never disagree.             *)
THEOREM AgreementCorrect == Spec => []StateAgreesWithLease
<1>1. IInv => StateAgreesWithLease
  BY DEF IInv, Ownership, Projection, StateAgreesWithLease
<1> QED
  BY <1>1, Invariance, PTL

(* No call the authority makes on its lease raises.                        *)
THEOREM NoCallRaises == Spec => []LeaseCallsNeverRaise
<1>1. IInv => LeaseCallsNeverRaise
  BY LeaseAssumption, GoalFacts
  DEF IInv, TypeOK, Leases, Ownership, LeaseCallsNeverRaise, CanActivate,
      CanSetAuthority, CanAdvance, WithAuthority
<1> QED
  BY <1>1, Invariance, PTL

(* Every accepted action is active or closed, and option instances are     *)
(* never shared.                                                           *)
THEOREM ActionsAccounted == Spec => []EveryActionAccounted
<1>1. IInv => EveryActionAccounted
  BY DEF IInv, Bookkeeping, EveryActionAccounted
<1> QED
  BY <1>1, Invariance, PTL

(* Results are final, and SUCCESS is given to an executing option only.    *)
THEOREM FinalResults == Spec => ResultsAreFinal
<1> DEFINE Final(a) ==
      /\ HasResult(a) => records'[a] = records[a]
      /\ records[a].result # records'[a].result =>
            /\ active = a
            /\ records'[a].result = "SUCCESS" => instance.phase = "EXECUTING"
<1>1. ASSUME IInv, NEW a \in Actions, NEW outcome, active # Nobody,
             Finish(outcome),
             outcome = "SUCCESS" => instance.phase = "EXECUTING"
      PROVE  Final(a)
  <2>1. CASE a = active
    BY <1>1, <2>1 DEF IInv, TypeOK, RecordType, Bookkeeping, Finish, HasResult
  <2>2. CASE a # active
    BY <1>1, <2>2 DEF IInv, TypeOK, Finish
  <2> QED
    BY <2>1, <2>2
<1>2. ASSUME NEW g, NEW c, Verdict(g, c, FALSE) = "SUCCESS"
      PROVE  FALSE
  BY <1>2 DEF Verdict, CheckTermination, CheckInvariant
<1>3. ASSUME IInv, [Next]_vars, NEW a \in Actions
      PROVE  Final(a)
  <2>1. CASE UNCHANGED records
    BY <2>1
  <2>2. CASE \E c \in Contexts, b \in Actions, g \in Goals :
                SubmitRejected(b, g, c) \/ SubmitAccepted(b, g, c)
    <3>1. PICK c \in Contexts, b \in Actions, g \in Goals :
             SubmitRejected(b, g, c) \/ SubmitAccepted(b, g, c)
      BY <2>2
    <3>2. b \notin Known
      BY <3>1 DEF SubmitRejected, SubmitAccepted
    <3>3. records' = [records EXCEPT ![b] = Rejection(g)]
             \/ records' = [records EXCEPT ![b] = Acceptance(g)]
      BY <3>1 DEF SubmitRejected, SubmitAccepted
    <3>4. records[b].result = "NONE"
      BY <1>3, <3>2 DEF IInv, Bookkeeping
    <3> QED
      BY <1>3, <3>3, <3>4
      DEF IInv, TypeOK, RecordType, Rejection, Acceptance, HasResult
  <2>3. CASE \E c \in Contexts : MarkExecutingRefused(c)
    <3>1. PICK c \in Contexts : MarkExecutingRefused(c)
      BY <2>3
    <3>2. PlanVerdict(c) # "SUCCESS"
      BY <1>2 DEF PlanVerdict
    <3> QED
      BY <1>1, <1>3, <3>1, <3>2 DEF MarkExecutingRefused, AwaitingPlan
  <2>4. CASE \E c \in Contexts : AcknowledgeCancel(c)
    BY <1>1, <1>3, <2>4 DEF AcknowledgeCancel, Canceling
  <2>5. CASE \E c \in Contexts, outcome \in {"FEASIBILITY_LOST", "INTERNAL_ERROR"} :
                Fail(c, outcome)
    BY <1>1, <1>3, <2>5 DEF Fail
  <2>6. CASE \E c \in Contexts : Tick(c)
    <3>1. PICK c \in Contexts : Tick(c)
      BY <2>6
    <3>2. CASE TickVerdict(c) = "NONE"
      BY <2>1, <3>1, <3>2 DEF Tick
    <3>3. CASE TickVerdict(c) # "NONE"
      <4>1. TickVerdict(c) = "SUCCESS" => instance.phase = "EXECUTING"
        BY <1>2 DEF TickVerdict
      <4> QED
        BY <1>1, <1>3, <3>1, <3>3, <4>1 DEF Tick
    <3> QED
      BY <3>2, <3>3
  <2> QED
    BY <1>3, <2>1, <2>2, <2>3, <2>4, <2>5, <2>6
    DEF Next, vars, SubmitAtCapacity, MarkExecuting, BeginReplan,
        RequestCancel, FruitlessCall
<1>4. IInv /\ [Next]_vars => [\A a \in Actions : Final(a)]_vars
  BY <1>3
<1> QED
  BY <1>4, Invariance, PTL DEF Spec, ResultsAreFinal

(* Both together: the accounts are kept.                                   *)
THEOREM AccountsKept == Spec => AccountsAreKept
  BY ActionsAccounted, FinalResults DEF AccountsAreKept

-----------------------------------------------------------------------------
(* The lease in the hands of the authority keeps what it keeps on its own: *)
(* a cancelled option has no authority,                                    *)
THEOREM AuthorityCorrect == Spec => []AuthorityIsUncancelled
<1>1. IInv => AuthorityIsUncancelled
  <2> SUFFICES ASSUME IInv, lease.authorized
               PROVE  lease.owner \in Instances \ lease.cancelled
    BY DEF AuthorityIsUncancelled
  <2>1. active # Nobody /\ instance.phase = "EXECUTING"
    BY DEF IInv, Ownership
  <2>2. instance.goal \in Goals
    BY DEF IInv, TypeOK
  <2> QED
    BY <2>1, <2>2, GoalFacts DEF IInv, Ownership
<1> QED
  BY <1>1, Invariance, PTL

LEMMA FencesStay ==
    ASSUME IInv, [Next]_vars
    PROVE  /\ lease.cancelled \subseteq lease'.cancelled
           /\ lease.generation <= lease'.generation
<1>1. lease \in Leases /\ lease.generation \in Nat
  BY LeaseAssumption DEF IInv, TypeOK, Leases
<1>2. CASE UNCHANGED lease
  BY <1>1, <1>2
<1>3. CASE lease' = Revoked(lease, instance.goal.inst)
  BY <1>1, <1>3 DEF Revoked, Leases
<1>4. ASSUME NEW a \in Actions, NEW g \in Goals, NEW c \in Contexts,
             SubmitAccepted(a, g, c)
      PROVE  /\ lease.cancelled \subseteq lease'.cancelled
             /\ lease.generation <= lease'.generation
  BY <1>1, <1>4 DEF SubmitAccepted, Activated, Leases
<1>5. ASSUME NEW c \in Contexts, MarkExecuting(c)
      PROVE  /\ lease.cancelled \subseteq lease'.cancelled
             /\ lease.generation <= lease'.generation
  BY <1>1, <1>5 DEF MarkExecuting, ExecutionGrant, WithAuthority, Leases
<1>6. ASSUME NEW c \in Contexts, BeginReplan(c)
      PROVE  /\ lease.cancelled \subseteq lease'.cancelled
             /\ lease.generation <= lease'.generation
  BY <1>1, <1>6 DEF BeginReplan, ReplanLease, Advanced, WithAuthority, Leases
<1>7. ASSUME NEW c \in Contexts, Tick(c)
      PROVE  lease' = lease \/ lease' = Revoked(lease, instance.goal.inst)
  BY <1>7 DEF Tick, Finish
<1> QED
  BY <1>2, <1>3, <1>4, <1>5, <1>6, <1>7
  DEF Next, vars, SubmitAtCapacity, SubmitRejected, MarkExecutingRefused,
      RequestCancel, AcknowledgeCancel, Fail, Finish, FruitlessCall

(* and no call of the authority brings a fence back.                       *)
THEOREM FencesStand == Spec => FencesHold
<1> DEFINE Holding ==
      \A i \in Instances, g \in 1..MaxGeneration :
          Fenced(lease, i, g) =>
              /\ Fenced(lease', i, g)
              /\ \A v \in Versions, e \in Epochs :
                    ~Admits(lease', [inst |-> i, gen |-> g, version |-> v,
                                     epoch |-> e, validUntil |-> 1], 0)
<1>1. IInv /\ [Next]_vars => [Holding]_lease
  <2> SUFFICES ASSUME IInv, [Next]_vars PROVE Holding
    OBVIOUS
  <2>1. lease \in Leases /\ lease' \in Leases
    BY NextInv DEF IInv, TypeOK
  <2> QED
    BY <2>1, FencesStay, FencesFollow
<1> QED
  BY <1>1, Invariance, PTL DEF Spec, FencesHold

-----------------------------------------------------------------------------
(* The authority implements MotionToken: authority to move goes from       *)
(* nobody to one option and back, each time for a higher generation.       *)
LEMMA TokenInit == Init => Token!Init
  BY DEF Init, Token!Init, Holder, Fence, InitialLease, AwaitingPlan

LEMMA TokenStep == IInv /\ [Next]_vars => [Token!Next]_<<Holder, Fence>>
<1> SUFFICES ASSUME IInv, [Next]_vars PROVE [Token!Next]_<<Holder, Fence>>
  OBVIOUS
<1>1. IInv'
  BY NextInv
<1>2. lease \in Leases /\ lease' \in Leases
  BY <1>1 DEF IInv, TypeOK
<1>3. ASSUME ~lease'.authorized, Fence <= Fence', Fence' <= MaxGeneration
      PROVE  Token!Next
  BY <1>2, <1>3, LeaseAssumption
  DEF Token!Next, Token!Withdraw, Holder, Fence, Leases
<1>4. Fence \in 0..MaxGeneration /\ Fence' \in 0..MaxGeneration
  BY <1>1, <1>2, LeaseAssumption
  DEF Fence, Leases, IInv, Ownership, AwaitingPlan
<1>5. ASSUME UNCHANGED <<lease, active, instance>>
      PROVE  UNCHANGED <<Holder, Fence>>
  BY <1>5 DEF Holder, Fence, AwaitingPlan
<1>6. ASSUME NEW outcome, active # Nobody, Finish(outcome)
      PROVE  Token!Next
  <2>1. ~lease'.authorized /\ lease'.generation = lease.generation
    BY <1>1, <1>2, <1>6 DEF Finish, Revoked, IInv, Ownership, Leases
  <2>2. Fence <= Fence' /\ Fence' <= MaxGeneration
    BY <1>2, <1>6, <2>1, LeaseAssumption DEF Finish, Fence, AwaitingPlan, Leases
  <2> QED
    BY <2>1, <2>2, <1>3
<1>7. ASSUME NEW a \in Actions, NEW g \in Goals, NEW c \in Contexts,
             SubmitAccepted(a, g, c)
      PROVE  Token!Next
  <2>1. /\ lease'.generation = lease.generation + 1
        /\ ~lease'.authorized
        /\ active = Nobody
    BY <1>2, <1>7 DEF SubmitAccepted, Activated, Leases
  <2>2. Fence <= Fence' /\ Fence' <= MaxGeneration
    BY <1>2, <1>4, <2>1, LeaseAssumption DEF Fence, AwaitingPlan, Leases
  <2> QED
    BY <2>1, <2>2, <1>3
<1>8. ASSUME NEW c \in Contexts, MarkExecuting(c)
      PROVE  Token!Next
  <2>1. /\ lease'.generation = lease.generation
        /\ lease'.owner = lease.owner
        /\ ~lease.authorized
        /\ AwaitingPlan
        /\ ~AwaitingPlan'
        /\ active # Nobody
    BY <1>2, <1>8
    DEF MarkExecuting, ExecutionGrant, WithAuthority, AwaitingPlan, IInv,
        TypeOK, Ownership, Leases
  <2>2. Fence = lease.generation - 1 /\ Fence' = lease.generation
    BY <2>1 DEF Fence
  <2>3. /\ lease.generation \in 1..MaxGeneration
        /\ lease.owner \in Instances
    BY <1>2, <2>1, GoalFacts DEF IInv, TypeOK, Ownership, Leases
  <2>4. CASE lease'.authorized
    <3> DEFINE t == [inst |-> lease.owner, gen |-> lease.generation]
    <3>1. /\ Holder = [inst |-> Nobody, gen |-> 0]
          /\ Holder' = t
          /\ t \in [inst : Instances, gen : 1..MaxGeneration]
          /\ t.gen > Fence
          /\ Fence' = t.gen
      BY <1>2, <2>1, <2>2, <2>3, <2>4, LeaseAssumption DEF Holder
    <3> QED
      BY <3>1 DEF Token!Next, Token!Grant
  <2>5. CASE ~lease'.authorized
    BY <2>2, <2>3, <2>5, <1>3, LeaseAssumption
  <2> QED
    BY <2>4, <2>5
<1>9. ASSUME NEW c \in Contexts, BeginReplan(c)
      PROVE  Token!Next
  <2>1. /\ lease'.generation = lease.generation + 1
        /\ ~lease'.authorized
        /\ ~AwaitingPlan
    BY <1>2, <1>9
    DEF BeginReplan, ReplanLease, Advanced, WithAuthority, AwaitingPlan, Leases
  <2>2. Fence <= Fence' /\ Fence' <= MaxGeneration
    BY <1>2, <1>4, <2>1, LeaseAssumption DEF Fence, Leases
  <2> QED
    BY <2>1, <2>2, <1>3
<1>10. ASSUME NEW c \in Contexts, NEW timeout \in CancelTimeouts,
              RequestCancel(c, timeout)
       PROVE  Token!Next
  <2>1. /\ lease'.generation = lease.generation
        /\ ~lease'.authorized
        /\ ~AwaitingPlan'
    BY <1>2, <1>10
    DEF RequestCancel, Revoked, AwaitingPlan, IInv, TypeOK, Ownership, Leases
  <2>2. Fence <= Fence' /\ Fence' <= MaxGeneration
    BY <1>2, <1>4, <2>1, LeaseAssumption DEF Fence, Leases
  <2> QED
    BY <2>1, <2>2, <1>3
<1> QED
  <2>1. CASE UNCHANGED vars
    BY <2>1, <1>5 DEF vars
  <2>2. CASE Next
    <3>1. PICK c \in Contexts :
             \/ UNCHANGED <<lease, active, instance>>
             \/ \E a \in Actions, g \in Goals : SubmitAccepted(a, g, c)
             \/ MarkExecuting(c)
             \/ BeginReplan(c)
             \/ \E timeout \in CancelTimeouts : RequestCancel(c, timeout)
             \/ \E outcome : active # Nobody /\ Finish(outcome)
      BY <2>2
      DEF Next, SubmitAtCapacity, SubmitRejected, FruitlessCall, Tick,
          AcknowledgeCancel, Canceling, Fail, MarkExecutingRefused, AwaitingPlan
    <3> QED
      BY <3>1, <1>5, <1>6, <1>7, <1>8, <1>9, <1>10
  <2> QED
    BY <2>1, <2>2

THEOREM ImplementsToken == Spec => TokenSpec
<1>1. IInv /\ [Next]_vars => [Token!Next]_<<Holder, Fence>>
  BY TokenStep
<1> QED
  BY <1>1, TokenInit, Invariance, PTL DEF Spec, TokenSpec, Token!Spec

-----------------------------------------------------------------------------
(* The policy.                                                             *)

(* Steps of a frame that has passed the checks of __call__, and those of   *)
(* the option the policy holds.                                            *)
Deciding == Steps \ {"IDLE", "REVOKE"}
Driving == {"MARK", "CANDIDATE", "EFFECT", "REPLAN"}
Observing == {"OBSERVE_MARK", "OBSERVE_TICK"}

Entitled(goal) == CheckInitiation(goal, Context(frame, latched, FALSE, Nobody))

RivalSeen == frame.shape.seen /\ sightings >= ConfirmationCount

(* The clocks of the authority are not ahead of the frames, and neither    *)
(* the ids nor the action ids of options are ahead of the counter.         *)
Counting ==
    /\ updatedAt <= lastNow
    /\ lastNow <= lastStamp
    /\ counter <= lastStamp
    /\ mine # NoOption /\ pc \in {"IDLE", "REVOKE", "CANDIDATE"} => updatedAt = lastNow
    /\ \A i \in used : i[3] \in 1..counter
    /\ \A a \in Known : a <= counter

(* What is known of the frame being handled.                               *)
Handling ==
    /\ pc \in Deciding =>
          /\ Complete(frame)
          /\ frame.stamp = lastStamp
          /\ frame.shape.clock = clockEpoch
          /\ Identity(frame.shape) = identity
          /\ ~epochLost
    /\ pc = "REVOKE" =>
          \/ frame.stamp <= lastStamp
          \/ frame.shape.match /\ frame.shape.clock # mine.goal.epoch[1]
    /\ epochLost /\ pc # "REVOKE" => mine = NoOption
    /\ pc # "IDLE" => command = "ZERO"
    /\ latched \/ epochLost => command # "MOVE"

(* What the policy remembers of its option.                                *)
Remembering ==
    mine # NoOption =>
        /\ mine.inst = mine.goal.inst
        /\ mine.goal.kind = "MOVE"
        /\ clockEpoch # NoOne
        /\ mine.goal.epoch[1] = clockEpoch
        /\ active = mine.action
        /\ instance.goal = mine.goal
        /\ instance.gen = mine.gen

(* A choice waiting for the option it takes the place of to be cancelled,  *)
(* or to be started: a new id, and a goal the registry accepts.            *)
NewChoice ==
    /\ choice.key \in OptionKeys
    /\ choice.key[1] = choice.kind
    /\ choice.inst = choice.goal.inst
    /\ choice.goal \in OwnGoals
    /\ choice.goal.kind = (IF choice.kind = "OBSERVE_SAFE" THEN "OBSERVE_SAFE" ELSE "MOVE")
    /\ choice.goal.inst[3] = counter + 1
    /\ counter < lastStamp
    /\ Entitled(choice.goal)
    /\ frame.shape.ready
    /\ choice.kind # "OBSERVE_SAFE" => frame.shape.forward
    /\ choice.kind \in RivalKinds => RivalSeen

Choosing ==
    /\ pc \in {"IDLE", "REVOKE", "ABORT"} \cup Driving => choice = NoChoice
    /\ pc \in {"START", "OBSERVE"} => choice # NoChoice
    /\ pc \in {"CANCEL", "START", "OBSERVE"} /\ choice # NoChoice => NewChoice
    /\ pc = "START" => choice.kind # "OBSERVE_SAFE"
    /\ pc = "OBSERVE" => choice.kind = "OBSERVE_SAFE"

(* Where the policy is and where the authority is.                         *)
Agreeing ==
    /\ pc = "IDLE" =>
          IF mine = NoOption THEN active = Nobody
          ELSE instance.phase = "EXECUTING" /\ lease.authorized
    /\ pc \in {"REVOKE", "CANCEL"} => mine # NoOption
    /\ pc = "ABORT" => mine = NoOption /\ active # Nobody
    /\ pc \in {"START", "OBSERVE"} => mine = NoOption /\ active = Nobody
    /\ pc \in Driving =>
          /\ mine # NoOption
          /\ Entitled(mine.goal)
          /\ frame.shape.ready /\ frame.shape.forward
          /\ mine.key[1] \in RivalKinds => RivalSeen
          /\ IF pc = "MARK" THEN instance.phase \in {"PLANNING", "REPLANNING"}
             ELSE instance.phase = "EXECUTING" /\ lease.authorized
    /\ pc \in Observing =>
          /\ mine = NoOption
          /\ active # Nobody
          /\ instance.goal = choice.goal
          /\ choice.inst = choice.goal.inst
          /\ choice.goal.kind = "OBSERVE_SAFE"
          /\ Entitled(choice.goal)
          /\ instance.phase = IF pc = "OBSERVE_MARK" THEN "PLANNING" ELSE "EXECUTING"

(* The filter has confirmed no more than it has seen.                      *)
Tracking ==
    /\ track.confirmation <= sightings
    /\ track.status = "TRACKED" =>
          track.initialized /\ track.confirmation = ConfirmationCount

PolicyInv ==
    /\ PolicyTypeOK /\ Counting /\ Handling /\ Remembering /\ Choosing
    /\ Agreeing /\ Tracking

-----------------------------------------------------------------------------
(* What the constants say of one another.                                  *)
LEMMA PolicyConstants ==
    /\ LastStamp \in Nat /\ Horizon \in Nat /\ LastStamp < Horizon
    /\ MaxGeneration \in Nat /\ ConfirmationCount \in Nat \ {0}
    /\ LostTimeout \in Nat
    /\ Nobody \notin Instances /\ Nobody \notin Actions
    /\ 1 \in CancelTimeouts
  BY PolicyAssumption, AuthorityAssumption, LeaseAssumption, FilterAssumption
  DEF FilterConfigValid

(* The snapshots the policy hands over.                                    *)
LEMMA FrameFacts ==
    ASSUME NEW f \in Frames
    PROVE  /\ f.stamp \in 1..LastStamp
           /\ f.shape \in FrameShapes
           /\ f.shape \in Shapes
  BY PolicyAssumption DEF Frames

LEMMA ContextIsSnapshot ==
    ASSUME NEW f \in Frames, NEW stop \in BOOLEAN, NEW path \in BOOLEAN,
           NEW effect \in Instances \cup {Nobody}
    PROVE  Context(f, stop, path, effect) \in Snapshots
<1>1. /\ f.stamp \in Nat /\ f.stamp <= Horizon
      /\ f.shape \in Shapes
  BY FrameFacts, PolicyConstants
<1>2. <<f.shape.clock, f.shape.loc>> \in Epochs
  BY <1>1, PolicyAssumption DEF Shapes
<1>3. f.shape.motion \in BOOLEAN /\ f.shape.leaseValid \in BOOLEAN
  BY <1>1 DEF Shapes
<1>4. /\ f.shape.stage \in Stages /\ f.shape.phase \in StagePhases
      /\ f.shape.stageEnds \in Nat /\ f.shape.version \in Versions
  BY <1>1 DEF Shapes
<1>5. Context(f, stop, path, effect) \in ContextType
  BY <1>1, <1>2, <1>3, <1>4 DEF Context, ContextType
<1> QED
  BY <1>1, <1>5 DEF Snapshots, Context

LEMMA RevocationIsSnapshot ==
    ASSUME NEW f \in Frames, NEW goal \in Goals, NEW now \in Nat, now <= Horizon
    PROVE  RevokeAt(f, goal, now) \in Snapshots
<1>1. f.shape \in Shapes
  BY FrameFacts
<1>2. goal \in GoalType
  BY AuthorityAssumption
<1>3. /\ goal.stage \in Stages /\ goal.epoch \in Epochs
      /\ goal.version \in Versions /\ goal.deadline \in Nat
  BY <1>2 DEF GoalType
<1>4. Latest(now + 1, goal.deadline) \in Nat
  BY <1>3 DEF Latest
<1>5. (IF f.shape.match /\ (f.shape.match => f.shape.clock = goal.epoch[1])
       THEN f.shape.phase ELSE "TERMINAL") \in StagePhases
  BY <1>1 DEF Shapes, StagePhases
<1> QED
  BY <1>3, <1>4, <1>5 DEF RevokeAt, Snapshots, ContextType

(* What a cancellation is told the time is: no earlier than the last call. *)
LEMMA CancelContextFacts ==
    ASSUME IInv, PolicyInv, Cancelling
    PROVE  /\ CancelContext \in Snapshots
           /\ CancelContext.now \in Nat
           /\ lastNow <= CancelContext.now
           /\ CancelContext.now <= lastStamp
<1>1. /\ frame \in Frames
      /\ frame.stamp \in Nat
      /\ lastStamp \in Nat /\ lastStamp < Horizon
      /\ updatedAt \in Nat /\ lastNow \in Nat
      /\ updatedAt <= lastNow /\ lastNow <= lastStamp
  BY PolicyConstants, FrameFacts
  DEF Cancelling, PolicyInv, PolicyTypeOK, Counting, IInv, TypeOK
<1>2. CASE pc = "REVOKE"
  <2>1. /\ mine # NoOption
        /\ mine \in ActiveOptions
        /\ mine.goal \in Goals
    BY <1>2 DEF PolicyInv, Agreeing, PolicyTypeOK, ActiveOptions
  <2>2. updatedAt = lastNow
    BY <1>2, <2>1 DEF PolicyInv, Counting
  <2>3. \/ frame.stamp <= lastStamp
        \/ frame.shape.match /\ frame.shape.clock # mine.goal.epoch[1]
    BY <1>2 DEF PolicyInv, Handling
  <2>4. PICK now \in Nat : /\ RevokeContext(frame) = RevokeAt(frame, mine.goal, now)
                           /\ lastNow <= now /\ now <= lastStamp
    <3> DEFINE now == IF frame.shape.match => frame.shape.clock = mine.goal.epoch[1]
                      THEN Latest(frame.stamp, updatedAt) ELSE updatedAt
    <3>1. now \in Nat /\ lastNow <= now /\ now <= lastStamp
      BY <1>1, <2>2, <2>3 DEF Latest
    <3> QED
      BY <3>1 DEF RevokeContext
  <2>5. CancelContext = RevokeAt(frame, mine.goal, now) /\ now <= Horizon
    BY <1>1, <1>2, <2>4, PolicyConstants DEF CancelContext
  <2> QED
    BY <1>1, <2>1, <2>4, <2>5, RevocationIsSnapshot DEF RevokeAt
<1>3. CASE pc \in {"CANCEL", "ABORT"}
  <2>1. frame.stamp = lastStamp
    BY <1>3 DEF PolicyInv, Handling, Deciding, Steps
  <2>2. \E stop, path \in BOOLEAN : CancelContext = Context(frame, stop, path, Nobody)
    BY <1>3 DEF CancelContext
  <2>3. CancelContext \in Snapshots
    BY <1>1, <2>2, ContextIsSnapshot
  <2> QED
    BY <1>1, <2>1, <2>2, <2>3 DEF Context
<1> QED
  BY <1>2, <1>3 DEF Cancelling

-----------------------------------------------------------------------------
(* The calls of the authority, one lemma each.                             *)

(* A step that leaves the frame and the choice alone keeps what was known  *)
(* of them.                                                                *)
LEMMA ChoiceStays ==
    ASSUME UNCHANGED <<frame, choice, counter, latched, lastStamp, sightings>>
    PROVE  /\ NewChoice' = NewChoice
           /\ RivalSeen' = RivalSeen
  BY DEF NewChoice, RivalSeen, Entitled

LEMMA RequestKeeps ==
    ASSUME IInv, PolicyInv, Request
    PROVE  IInv' /\ PolicyInv'
<1>1. /\ CancelContext \in Snapshots
      /\ lastNow <= CancelContext.now
      /\ CancelContext.now \in Nat
      /\ CancelContext.now <= lastStamp
  BY CancelContextFacts DEF Request
<1>2. /\ RequestCancel(CancelContext, 1)
      /\ UNCHANGED <<Local, mine, counter, latched, completed, progress, command>>
      /\ Cancelling
  BY DEF Request
<1>3. IInv'
  BY <1>1, <1>2, CancelInv, PolicyConstants
<1>4. /\ active # Nobody
      /\ lastNow' = CancelContext.now
      /\ UNCHANGED <<records, used, active>>
      /\ instance'.goal = instance.goal /\ instance'.gen = instance.gen
  BY <1>2 DEF RequestCancel, ObserveTime, IInv, TypeOK
<1>5. state' # state
  <2>1. instance.phase # "CANCELING" /\ state.phase = instance.phase
    BY <1>2, <1>4 DEF RequestCancel, IInv, Projection
  <2>2. state'.phase = "CANCELING"
    BY <1>2 DEF RequestCancel, Published, IInv, TypeOK
  <2> QED
    BY <2>1, <2>2
<1>6. updatedAt' = lastNow'
  BY <1>5 DEF Request, Publishes
<1>7. UNCHANGED <<endpoint, epochLost, clockEpoch, identity, lastStamp, track, sightings,
                  mine, counter, latched, completed, pc, frame, choice, command>>
  BY <1>2 DEF Local, progress
<1>8. lastStamp \in 0..LastStamp /\ LastStamp \in Nat
  BY PolicyConstants DEF PolicyInv, PolicyTypeOK
<1>9. PolicyTypeOK'
  BY <1>1, <1>4, <1>6, <1>7, <1>8 DEF PolicyInv, PolicyTypeOK
<1>10. Counting'
  BY <1>1, <1>4, <1>6, <1>7, <1>8 DEF PolicyInv, Counting, Known
<1>11. Handling'
  BY <1>7 DEF PolicyInv, Handling, Complete
<1>12. Remembering'
  BY <1>4, <1>7 DEF PolicyInv, Remembering
<1>13. Choosing'
  BY <1>7, ChoiceStays DEF PolicyInv, Choosing
<1>14. Agreeing'
  BY <1>2, <1>4, <1>7 DEF PolicyInv, Agreeing, Cancelling, Driving, Observing
<1>15. Tracking'
  BY <1>7 DEF PolicyInv, Tracking
<1> QED
  BY <1>3, <1>9, <1>10, <1>11, <1>12, <1>13, <1>14, <1>15 DEF PolicyInv

(* What every call that ends the active option does.                       *)
LEMMA FinishFacts ==
    ASSUME IInv, NEW outcome, active # Nobody, Finish(outcome)
    PROVE  /\ active' = Nobody
           /\ used' = used
           /\ Known' = Known
           /\ ~lease'.authorized
<1>1. active \in Actions
  BY DEF IInv, TypeOK
<1>2. /\ active' = Nobody /\ used' = used
      /\ records' = [records EXCEPT ![active].result = outcome]
      /\ lease' = Revoked(lease, instance.goal.inst)
  BY DEF Finish
<1>3. Known' = Known
  BY <1>1, <1>2 DEF Known, IInv, TypeOK, RecordType
<1>4. lease.owner = instance.goal.inst /\ lease \in Leases
  BY DEF IInv, TypeOK, Ownership
<1>5. ~lease'.authorized
  BY <1>2, <1>4 DEF Revoked, Leases
<1> QED
  BY <1>2, <1>3, <1>5

LEMMA AcknowledgeKeeps ==
    ASSUME IInv, PolicyInv, Acknowledge
    PROVE  IInv' /\ PolicyInv'
<1>1. /\ CancelContext \in Snapshots
      /\ lastNow <= CancelContext.now
      /\ CancelContext.now \in Nat
      /\ CancelContext.now <= lastStamp
  BY CancelContextFacts DEF Acknowledge
<1>2. /\ AcknowledgeCancel(CancelContext)
      /\ Cancelling
  BY DEF Acknowledge
<1>3. IInv'
  BY <1>1, <1>2, EndInv
<1>4. /\ active' = Nobody
      /\ used' = used
      /\ Known' = Known
      /\ lastNow' = CancelContext.now
  BY <1>2, FinishFacts DEF AcknowledgeCancel, ObserveTime, Canceling
<1>5. /\ UNCHANGED <<endpoint, epochLost, clockEpoch, identity, lastStamp, track,
                     sightings, counter, latched, completed, command>>
      /\ mine' = NoOption
      /\ \/ /\ choice = NoChoice
            /\ pc' = "IDLE" /\ frame' = NoFrame /\ choice' = NoChoice
         \/ /\ choice # NoChoice
            /\ pc' = StartPoint(choice) /\ UNCHANGED <<frame, choice>>
  BY DEF Acknowledge, Local, Answered
<1>6. /\ updatedAt' \in Nat
      /\ updatedAt' <= lastNow'
      /\ lastNow' <= lastStamp
      /\ lastNow' \in Nat
      /\ lastStamp \in 0..LastStamp /\ LastStamp \in Nat
  BY <1>1, <1>4, PolicyConstants
  DEF Acknowledge, Publishes, PolicyInv, PolicyTypeOK, Counting, IInv, TypeOK
<1>7. choice # NoChoice => pc = "CANCEL" /\ NewChoice
  BY <1>2 DEF Cancelling, PolicyInv, Choosing
<1>8. /\ pc' \in Steps
      /\ choice # NoChoice => pc' \in {"START", "OBSERVE"}
  BY <1>5 DEF Steps, StartPoint
<1>9. frame \in Frames
  BY <1>2 DEF Cancelling, PolicyInv, PolicyTypeOK
<1>10. PolicyTypeOK'
  BY <1>5, <1>6, <1>8, <1>9 DEF PolicyInv, PolicyTypeOK
<1>11. Counting'
  BY <1>4, <1>5, <1>6 DEF PolicyInv, Counting
<1>12. Handling'
  BY <1>5, <1>7, <1>8 DEF PolicyInv, Handling, Deciding, Steps, Complete
<1>13. Remembering'
  BY <1>5 DEF Remembering
<1>14. Choosing'
  <2>1. CASE choice = NoChoice
    BY <1>5, <2>1 DEF Choosing, Driving
  <2>2. CASE choice # NoChoice
    BY <1>5, <1>7, <1>8, <2>2, ChoiceStays DEF Choosing, StartPoint, Driving
  <2> QED
    BY <2>1, <2>2
<1>15. Agreeing'
  BY <1>4, <1>5, <1>8 DEF Agreeing, Driving, Observing
<1>16. Tracking'
  BY <1>5 DEF PolicyInv, Tracking
<1> QED
  BY <1>3, <1>10, <1>11, <1>12, <1>13, <1>14, <1>15, <1>16 DEF PolicyInv

(* A choice that may be submitted.                                         *)
LEMMA NewChoiceFacts ==
    ASSUME IInv, PolicyInv, pc \in {"START", "OBSERVE"}
    PROVE  /\ NewChoice
           /\ mine = NoOption /\ active = Nobody
           /\ counter \in Nat
           /\ counter + 1 \in Actions /\ counter + 1 <= lastStamp
           /\ counter + 1 \notin Known
           /\ choice.goal \in OwnGoals /\ choice.goal \in Goals
           /\ choice.goal.inst \notin used
           /\ choice.goal.inst \in Instances
           /\ frame \in Frames
           /\ frame.stamp = lastStamp
           /\ lastStamp \in 1..LastStamp
           /\ lastNow <= lastStamp
<1>1. NewChoice /\ mine = NoOption /\ active = Nobody
  BY DEF PolicyInv, Choosing, Agreeing
<1>2. /\ counter \in Nat /\ counter < lastStamp
      /\ lastStamp \in 0..LastStamp /\ LastStamp \in Nat
      /\ lastNow <= lastStamp
      /\ frame \in Frames
      /\ frame.stamp = lastStamp
  BY <1>1, PolicyConstants
  DEF PolicyInv, PolicyTypeOK, Counting, NewChoice, Handling, Deciding, Steps
<1>3. counter + 1 \in 1..LastStamp /\ counter + 1 <= lastStamp
  BY <1>2
<1>4. counter + 1 \notin Known
  BY <1>2 DEF PolicyInv, Counting
<1>5. /\ choice.goal \in OwnGoals /\ choice.goal \in Goals
      /\ choice.goal.inst \in Instances
  BY <1>1, PolicyAssumption DEF NewChoice, OwnGoals
<1>6. choice.goal.inst \notin used
  BY <1>1, <1>2 DEF PolicyInv, Counting, NewChoice
<1> QED
  BY <1>1, <1>2, <1>3, <1>4, <1>5, <1>6, PolicyAssumption

LEMMA StartAtCapacityKeeps ==
    ASSUME IInv, PolicyInv, StartAtCapacity
    PROVE  IInv' /\ PolicyInv'
<1> DEFINE c == Context(frame, FALSE, TRUE, Nobody)
<1>1. /\ pc \in {"START", "OBSERVE"}
      /\ counter' = counter + 1
      /\ SubmitAtCapacity(counter', c)
      /\ pc' = "IDLE" /\ frame' = NoFrame /\ choice' = NoChoice
      /\ UNCHANGED <<endpoint, epochLost, clockEpoch, identity, lastStamp, track,
                     sightings, mine, latched, completed, command>>
  BY DEF StartAtCapacity, Answered, Local
<1>2. c \in Snapshots /\ c.now = lastStamp
  BY <1>1, NewChoiceFacts, ContextIsSnapshot DEF Context
<1>3. /\ UNCHANGED <<lease, records, used, active, instance, state>>
      /\ lastNow' = lastStamp
      /\ lastNow' \in 0..Horizon
  BY <1>1, <1>2, ClockFacts DEF SubmitAtCapacity, ObserveTime
<1>4. IInv'
  BY <1>3, IdleCallInv
<1>5. /\ updatedAt' = updatedAt
      /\ updatedAt \in Nat /\ lastNow \in Nat
      /\ updatedAt <= lastStamp
  BY <1>1, <1>3, NewChoiceFacts DEF StartAtCapacity, Publishes, PolicyInv, PolicyTypeOK,
     Counting, IInv, TypeOK
<1>6. Known' = Known /\ Known \subseteq 1..LastStamp
  BY <1>3, PolicyAssumption DEF Known
<1>7. PolicyTypeOK'
  BY <1>1, <1>5, NewChoiceFacts, PolicyConstants, PolicyAssumption
  DEF PolicyInv, PolicyTypeOK, Steps
<1>8. Counting'
  BY <1>1, <1>3, <1>5, <1>6, NewChoiceFacts, PolicyConstants DEF PolicyInv, Counting
<1>9. Handling' /\ Remembering' /\ Choosing' /\ Agreeing' /\ Tracking'
  BY <1>1, <1>3, NewChoiceFacts
  DEF PolicyInv, Handling, Remembering, Choosing, Agreeing, Tracking, Deciding,
      Driving, Observing
<1> QED
  BY <1>4, <1>7, <1>8, <1>9 DEF PolicyInv

(* What an accepted submission of the choice leaves behind.                *)
LEMMA SubmissionFacts ==
    ASSUME IInv, PolicyInv, pc \in {"START", "OBSERVE"},
           counter' = counter + 1, NEW c \in Snapshots, c.now = frame.stamp,
           SubmitAccepted(counter', choice.goal, c), Publishes
    PROVE  /\ IInv'
           /\ lastNow' = lastStamp
           /\ updatedAt' \in Nat /\ updatedAt' <= lastStamp
           /\ active' = counter + 1
           /\ active' # Nobody
           /\ used' = used \cup {choice.goal.inst}
           /\ Known' = Known \cup {counter + 1}
           /\ instance'.goal = choice.goal
           /\ instance'.phase = "PLANNING"
           /\ instance'.gen = lease'.generation
           /\ lease'.generation \in 1..MaxGeneration
           /\ \A i \in used' : i[3] \in 1..counter'
           /\ \A a \in Known' : a <= counter'
<1>1. IInv'
  BY AcceptedInv, NewChoiceFacts
<1>2. /\ lastNow' = lastStamp
      /\ updatedAt' \in {lastNow', updatedAt}
      /\ active' = counter + 1
      /\ active' # Nobody
      /\ used' = used \cup {choice.goal.inst}
      /\ instance' = [goal |-> choice.goal, phase |-> "PLANNING",
                      gen |-> lease'.generation, cancelDeadline |-> 0]
      /\ records' = [records EXCEPT ![counter + 1] = Acceptance(choice.goal)]
  BY NewChoiceFacts, PolicyConstants DEF SubmitAccepted, ObserveTime, Publishes
<1>3. updatedAt' \in Nat /\ updatedAt' <= lastStamp
  BY <1>2, NewChoiceFacts DEF PolicyInv, PolicyTypeOK, Counting, IInv, TypeOK
<1>4. Known' = Known \cup {counter + 1}
  BY <1>2, NewChoiceFacts DEF Known, Acceptance, IInv, TypeOK, RecordType
<1>5. lease'.generation \in 1..MaxGeneration
  BY <1>1, <1>2, PolicyConstants DEF IInv, TypeOK, Leases, Ownership
<1>6. \A i \in used' : i[3] \in 1..counter'
  BY <1>2, NewChoiceFacts DEF PolicyInv, Counting, NewChoice
<1>7. \A a \in Known' : a <= counter'
  BY <1>4, NewChoiceFacts, PolicyAssumption DEF PolicyInv, Counting, Known
<1> QED
  BY <1>1, <1>2, <1>3, <1>4, <1>5, <1>6, <1>7

LEMMA StartKeeps ==
    ASSUME IInv, PolicyInv, Start
    PROVE  IInv' /\ PolicyInv'
<1> DEFINE c == Context(frame, FALSE, TRUE, Nobody)
<1>1. /\ pc = "START"
      /\ counter' = counter + 1
      /\ SubmitAccepted(counter', choice.goal, c)
      /\ Publishes
      /\ \/ mine' = ActiveOption(choice, counter', lease'.generation) /\ pc' = "MARK"
         \/ pc' = "ABORT" /\ mine' = mine
      /\ choice' = NoChoice
      /\ UNCHANGED <<endpoint, epochLost, clockEpoch, identity, lastStamp, track,
                     sightings, latched, completed, frame, command>>
  BY DEF Start, Local
<1>2. c \in Snapshots /\ c.now = frame.stamp
  BY <1>1, NewChoiceFacts, ContextIsSnapshot DEF Context
<1>3. /\ IInv'
      /\ lastNow' = lastStamp
      /\ updatedAt' \in Nat /\ updatedAt' <= lastStamp
      /\ active' = counter + 1
      /\ active' # Nobody
      /\ instance'.goal = choice.goal
      /\ instance'.phase = "PLANNING"
      /\ instance'.gen = lease'.generation
      /\ lease'.generation \in 1..MaxGeneration
      /\ \A i \in used' : i[3] \in 1..counter'
      /\ \A a \in Known' : a <= counter'
  BY <1>1, <1>2, SubmissionFacts
<1>4. /\ NewChoice /\ mine = NoOption
      /\ frame \in Frames /\ frame.stamp = lastStamp
      /\ lastStamp \in 1..LastStamp
      /\ counter + 1 \in Actions /\ counter + 1 <= lastStamp
      /\ counter \in Nat
      /\ choice.goal \in OwnGoals /\ choice.goal \in Goals
      /\ choice.goal.inst \in Instances
  BY <1>1, NewChoiceFacts
<1>5. /\ choice.kind # "OBSERVE_SAFE"
      /\ choice.key \in MotionKinds \X Nodes
      /\ choice.goal.kind = "MOVE"
  BY <1>1, <1>4 DEF PolicyInv, Choosing, NewChoice, OptionKeys
<1>6. CASE mine' = ActiveOption(choice, counter', lease'.generation) /\ pc' = "MARK"
  <2>1. /\ mine'.key = choice.key /\ mine'.inst = choice.inst
        /\ mine'.goal = choice.goal /\ mine'.started = frame.stamp
        /\ mine'.action = counter + 1 /\ mine'.gen = lease'.generation
        /\ mine' \in ActiveOptions
    BY <1>1, <1>3, <1>4, <1>5, <1>6 DEF ActiveOption, ActiveOptions, NewChoice
  <2>2. mine' # NoOption
    BY <2>1, <1>5, PolicyAssumption DEF NoOption, OptionKeys
  <2>3. choice.goal.epoch = <<clockEpoch, frame.shape.loc>> /\ clockEpoch # NoOne
    <3>1. choice.goal.epoch = <<frame.shape.clock, frame.shape.loc>>
      BY <1>4 DEF NewChoice, Entitled, CheckInitiation, Context
    <3>2. frame.shape.clock = clockEpoch
      BY <1>1 DEF PolicyInv, Handling, Deciding, Steps
    <3>3. frame.shape.clock \in Clocks
      BY <1>4, FrameFacts DEF Shapes
    <3> QED
      BY <3>1, <3>2, <3>3, PolicyAssumption
  <2>4. PolicyTypeOK'
    BY <1>1, <1>3, <1>4, <1>6, <2>1, PolicyConstants, PolicyAssumption
    DEF PolicyInv, PolicyTypeOK, Steps
  <2>5. Counting'
    BY <1>1, <1>3, <1>4, <1>6 DEF Counting
  <2>6. Handling'
    BY <1>1, <1>4, <1>6 DEF PolicyInv, Handling, Complete, Deciding, Steps
  <2>7. Remembering'
    BY <1>1, <1>3, <1>4, <1>5, <2>1, <2>3 DEF Remembering, NewChoice
  <2>8. Choosing'
    BY <1>1, <1>6 DEF Choosing
  <2>9. Agreeing'
    BY <1>1, <1>3, <1>4, <1>5, <1>6, <2>1, <2>2
    DEF Agreeing, Driving, Observing, NewChoice, Entitled, RivalSeen
  <2>10. Tracking'
    BY <1>1 DEF PolicyInv, Tracking
  <2> QED
    BY <1>3, <2>4, <2>5, <2>6, <2>7, <2>8, <2>9, <2>10 DEF PolicyInv
<1>7. CASE pc' = "ABORT" /\ mine' = mine
  <2>1. PolicyTypeOK'
    BY <1>1, <1>3, <1>4, <1>7, PolicyConstants, PolicyAssumption
    DEF PolicyInv, PolicyTypeOK, Steps
  <2>2. Counting'
    BY <1>1, <1>3, <1>4, <1>7 DEF Counting
  <2>3. Handling'
    BY <1>1, <1>4, <1>7 DEF PolicyInv, Handling, Complete, Deciding, Steps
  <2>4. Remembering' /\ Choosing' /\ Tracking'
    BY <1>1, <1>4, <1>7 DEF PolicyInv, Remembering, Choosing, Tracking
  <2>5. Agreeing'
    BY <1>1, <1>3, <1>4, <1>7 DEF Agreeing, Driving, Observing
  <2> QED
    BY <1>3, <2>1, <2>2, <2>3, <2>4, <2>5 DEF PolicyInv
<1> QED
  BY <1>1, <1>6, <1>7

(* The option under way when the policy drives it.                         *)
LEMMA DrivingFacts ==
    ASSUME IInv, PolicyInv, pc \in Driving
    PROVE  /\ mine \in ActiveOptions /\ mine # NoOption
           /\ active = mine.action /\ active # Nobody /\ ~HasResult(active)
           /\ instance.goal = mine.goal /\ instance.gen = mine.gen
           /\ mine.inst = mine.goal.inst /\ mine.inst \in Instances
           /\ mine.goal \in Goals
           /\ mine.goal.kind = "MOVE"
           /\ Entitled(mine.goal)
           /\ ~latched /\ latched \in BOOLEAN
           /\ choice = NoChoice
           /\ frame \in Frames /\ frame.stamp = lastStamp
           /\ lastStamp \in 1..LastStamp
           /\ lastNow \in Nat /\ lastNow <= lastStamp
           /\ updatedAt \in Nat /\ updatedAt <= lastNow
<1>1. mine # NoOption /\ Entitled(mine.goal)
  BY DEF PolicyInv, Agreeing
<1>2. mine \in ActiveOptions
  BY <1>1 DEF PolicyInv, PolicyTypeOK
<1>3. /\ active = mine.action /\ mine.goal.kind = "MOVE"
      /\ instance.goal = mine.goal /\ instance.gen = mine.gen
      /\ mine.inst = mine.goal.inst
  BY <1>1 DEF PolicyInv, Remembering
<1>4. active # Nobody /\ mine.inst \in Instances /\ mine.goal \in Goals
  BY <1>2, <1>3, PolicyConstants DEF ActiveOptions
<1>5. ~HasResult(active)
  BY <1>4 DEF IInv, Bookkeeping, HasResult
<1>6. ~latched
  BY <1>1, <1>3 DEF Entitled, CheckInitiation, Context, AuthorityAvailable
<1>10. latched \in BOOLEAN
  BY DEF PolicyInv, PolicyTypeOK
<1>7. choice = NoChoice
  BY DEF PolicyInv, Choosing
<1>8. /\ pc # "IDLE" /\ pc \in Deciding
      /\ frame \in Frames /\ frame.stamp = lastStamp
  BY DEF PolicyInv, PolicyTypeOK, Handling, Driving, Deciding, Steps
<1>9. /\ lastStamp \in 1..LastStamp
      /\ lastNow \in Nat /\ lastNow <= lastStamp
      /\ updatedAt \in Nat /\ updatedAt <= lastNow
  BY <1>8, FrameFacts DEF PolicyInv, PolicyTypeOK, Counting, IInv, TypeOK
<1> QED
  BY <1>1, <1>2, <1>3, <1>4, <1>5, <1>6, <1>7, <1>8, <1>9, <1>10

(* A goal the registry accepts for a frame it does not end for that frame. *)
LEMMA EntitledGoalStands ==
    ASSUME NEW goal \in Goals, Entitled(goal), goal.kind # "HOLD_SAFE",
           NEW executing \in BOOLEAN
    PROVE  /\ Verdict(goal, Context(frame, latched, TRUE, Nobody), executing) = "NONE"
           /\ CheckTermination(goal, Context(frame, latched, TRUE, goal.inst), TRUE) = "SUCCESS"
           /\ ~latched
           /\ AuthorityAvailable(Context(frame, latched, TRUE, Nobody))
<1>1. goal.inst \in Instances /\ goal.inst # Nobody
  BY GoalFacts, LeaseAssumption
<1>2. /\ ~latched
      /\ AuthorityAvailable(Context(frame, latched, TRUE, Nobody))
  BY DEF Entitled, CheckInitiation, Context, AuthorityAvailable
<1>3. \A effect \in {Nobody, goal.inst} :
         /\ goal.stage = frame.shape.stage
         /\ goal.epoch = <<frame.shape.clock, frame.shape.loc>>
         /\ goal.version = frame.shape.version
         /\ frame.shape.phase = "ACTIVE"
         /\ frame.shape.motion /\ frame.shape.leaseValid
         /\ ~DeadlineReached(goal, Context(frame, latched, TRUE, effect))
  BY DEF Entitled, CheckInitiation, Context, AuthorityAvailable, DeadlineReached
<1>4. CheckTermination(goal, Context(frame, latched, TRUE, goal.inst), TRUE) = "SUCCESS"
  BY <1>2, <1>3 DEF CheckTermination, Context
<1>5. CheckTermination(goal, Context(frame, latched, TRUE, Nobody), executing) = "NONE"
  BY <1>1, <1>2, <1>3 DEF CheckTermination, Context
<1>6. CheckInvariant(goal, Context(frame, latched, TRUE, Nobody), executing) = "NONE"
  BY <1>1, <1>2, <1>3 DEF CheckInvariant, Context
<1> QED
  BY <1>2, <1>4, <1>5, <1>6 DEF Verdict

LEMMA ReplanKeeps ==
    ASSUME IInv, PolicyInv, Replan
    PROVE  IInv' /\ PolicyInv'
<1> DEFINE c == Context(frame, latched, TRUE, Nobody)
<1>1. /\ pc = "REPLAN" /\ pc \in Driving
      /\ BeginReplan(c) /\ Publishes
      /\ mine' = [mine EXCEPT !.gen = lease'.generation]
      /\ pc' = "MARK"
      /\ UNCHANGED <<endpoint, epochLost, clockEpoch, identity, lastStamp, track,
                     sightings, counter, latched, completed, frame, choice, command>>
  BY DEF Replan, Local, Driving
<1>2. c \in Snapshots /\ c.now = lastStamp
  BY <1>1, DrivingFacts, ContextIsSnapshot DEF Context
<1>3. IInv'
  BY <1>1, <1>2, ReplanInv
<1>4. /\ lastNow' = lastStamp
      /\ UNCHANGED <<used, active, records>>
      /\ instance' = [instance EXCEPT !.phase = "REPLANNING", !.gen = lease'.generation]
  BY <1>1, <1>2 DEF BeginReplan, ObserveTime
<1>5. /\ instance'.goal = instance.goal
      /\ instance'.gen = lease'.generation
      /\ instance'.phase = "REPLANNING"
  BY <1>4 DEF IInv, TypeOK
<1>6. lease'.generation \in 1..MaxGeneration
  BY <1>1, <1>3, <1>4, <1>5, DrivingFacts, PolicyConstants
  DEF IInv, TypeOK, Leases, Ownership
<1>7. /\ mine' \in ActiveOptions
      /\ mine'.key = mine.key /\ mine'.inst = mine.inst
      /\ mine'.goal = mine.goal /\ mine'.action = mine.action
      /\ mine'.gen = lease'.generation
  BY <1>1, <1>6, DrivingFacts DEF ActiveOptions
<1>8. mine' # NoOption
  BY <1>7, PolicyAssumption DEF NoOption, OptionKeys, ActiveOptions
<1>9. updatedAt' \in Nat /\ updatedAt' <= lastNow'
  BY <1>1, <1>4, DrivingFacts DEF Publishes
<1>10. Known' = Known
  BY <1>4 DEF Known
<1>11. PolicyTypeOK'
  BY <1>1, <1>4, <1>7, <1>9, DrivingFacts, PolicyConstants
  DEF PolicyInv, PolicyTypeOK, Steps
<1>12. Counting'
  BY <1>1, <1>4, <1>9, <1>10, DrivingFacts DEF PolicyInv, Counting
<1>13. Handling'
  BY <1>1, <1>7, DrivingFacts DEF PolicyInv, Handling, Complete, Deciding, Steps
<1>14. Remembering'
  BY <1>1, <1>4, <1>5, <1>7, DrivingFacts DEF PolicyInv, Remembering
<1>15. Choosing'
  BY <1>1, DrivingFacts DEF Choosing
<1>16. Agreeing'
  BY <1>1, <1>5, <1>7, <1>8
  DEF PolicyInv, Agreeing, Driving, Observing, Entitled, RivalSeen
<1>17. Tracking'
  BY <1>1 DEF PolicyInv, Tracking
<1> QED
  BY <1>3, <1>11, <1>12, <1>13, <1>14, <1>15, <1>16, <1>17 DEF PolicyInv

LEMMA MarkKeeps ==
    ASSUME IInv, PolicyInv, Mark
    PROVE  IInv' /\ PolicyInv' /\ pc' = "CANDIDATE" /\ lease'.authorized
<1> DEFINE c == Context(frame, latched, TRUE, Nobody)
<1>1. /\ pc = "MARK" /\ pc \in Driving
      /\ MarkExecuting(c) /\ Publishes
      /\ pc' = IF state'.authorized THEN "CANDIDATE" ELSE "CANCEL"
      /\ UNCHANGED <<endpoint, epochLost, clockEpoch, identity, lastStamp, track,
                     sightings, counter, latched, completed, frame, choice, command, mine>>
  BY DEF Mark, Local, Driving
<1>2. c \in Snapshots /\ c.now = lastStamp
  BY <1>1, DrivingFacts, ContextIsSnapshot DEF Context
<1>3. IInv'
  BY <1>1, <1>2, MarkInv
<1>4. /\ lastNow' = lastStamp
      /\ UNCHANGED <<used, active, records>>
      /\ instance' = [instance EXCEPT !.phase = "EXECUTING"]
      /\ state' = Published(instance', c)
  BY <1>1, <1>2 DEF MarkExecuting, ObserveTime
<1>5. /\ instance'.goal = instance.goal
      /\ instance'.gen = instance.gen
      /\ instance'.phase = "EXECUTING"
  BY <1>4 DEF IInv, TypeOK
<1>6. AuthorityAvailable(c)
  BY <1>1, DrivingFacts, EntitledGoalStands
<1>7. state'.authorized /\ state'.phase = "EXECUTING"
  BY <1>1, <1>4, <1>5, <1>6, DrivingFacts DEF Published, StillKinds
<1>8. lease'.authorized
  BY <1>3, <1>7 DEF IInv, Projection
<1>9. state' # state
  <2>1. state.phase = instance.phase /\ instance.phase # "EXECUTING"
    BY <1>1, DrivingFacts DEF IInv, Projection, PolicyInv, Agreeing
  <2> QED
    BY <1>7, <2>1
<1>10. updatedAt' = lastNow'
  BY <1>1, <1>9 DEF Publishes
<1>11. pc' = "CANDIDATE"
  BY <1>1, <1>7
<1>12. Known' = Known
  BY <1>4 DEF Known
<1>13. PolicyTypeOK'
  BY <1>1, <1>4, <1>10, <1>11, DrivingFacts, PolicyConstants
  DEF PolicyInv, PolicyTypeOK, Steps
<1>14. Counting'
  BY <1>1, <1>4, <1>10, <1>12, DrivingFacts DEF PolicyInv, Counting
<1>15. Handling'
  BY <1>1, <1>11, DrivingFacts DEF PolicyInv, Handling, Complete, Deciding, Steps
<1>16. Remembering'
  BY <1>1, <1>4, <1>5 DEF PolicyInv, Remembering
<1>17. Choosing'
  BY <1>1, <1>11, DrivingFacts DEF Choosing
<1>18. Agreeing'
  BY <1>1, <1>5, <1>8, <1>11, DrivingFacts
  DEF PolicyInv, Agreeing, Driving, Observing, Entitled, RivalSeen
<1>19. Tracking'
  BY <1>1 DEF PolicyInv, Tracking
<1> QED
  BY <1>3, <1>8, <1>11, <1>13, <1>14, <1>15, <1>16, <1>17, <1>18, <1>19 DEF PolicyInv

LEMMA CandidateRejectedKeeps ==
    ASSUME IInv, PolicyInv, CandidateRejected
    PROVE  IInv' /\ PolicyInv'
<1>1. /\ pc = "CANDIDATE" /\ pc \in Driving /\ pc' = "CANCEL"
      /\ UNCHANGED <<lease, records, used, active, instance, lastNow, state>>
      /\ UNCHANGED <<endpoint, epochLost, clockEpoch, identity, lastStamp, track,
                     sightings, counter, latched, completed, frame, choice, command,
                     mine, updatedAt>>
  BY DEF CandidateRejected, Local, Driving, authority
<1>2. IInv'
  BY <1>1, NextInv DEF vars
<1>3. Known' = Known
  BY <1>1 DEF Known
<1>4. PolicyTypeOK'
  BY <1>1, DrivingFacts DEF PolicyInv, PolicyTypeOK, Steps
<1>5. Counting'
  BY <1>1, <1>3 DEF PolicyInv, Counting
<1>6. Handling'
  BY <1>1, DrivingFacts DEF PolicyInv, Handling, Complete, Deciding, Steps
<1>7. Remembering' /\ Choosing' /\ Agreeing' /\ Tracking'
  BY <1>1, DrivingFacts
  DEF PolicyInv, Remembering, Choosing, Agreeing, Tracking, Driving, Observing
<1> QED
  BY <1>2, <1>4, <1>5, <1>6, <1>7 DEF PolicyInv

(* The candidate passes the lease; the supervisor lets it go.              *)
LEMMA CandidateSupervisedKeeps ==
    ASSUME IInv, PolicyInv, CandidateSupervised
    PROVE  IInv' /\ PolicyInv'
<1>1. /\ pc = "CANDIDATE" /\ pc \in Driving
      /\ pc' = "IDLE" /\ frame' = NoFrame /\ choice' = NoChoice
      /\ command' = "MOVE"
      /\ UNCHANGED <<lease, records, used, active, instance, lastNow, state>>
      /\ UNCHANGED <<endpoint, epochLost, clockEpoch, identity, lastStamp, track,
                     sightings, counter, latched, completed, mine, updatedAt>>
  BY DEF CandidateSupervised, Local, Driving, authority, Answered
<1>2. IInv'
  BY <1>1, NextInv DEF vars
<1>3. Known' = Known
  BY <1>1 DEF Known
<1>4. PolicyTypeOK'
  BY <1>1, DrivingFacts DEF PolicyInv, PolicyTypeOK, Steps
<1>5. Counting'
  BY <1>1, <1>3 DEF PolicyInv, Counting
<1>6. Handling'
  BY <1>1, DrivingFacts DEF PolicyInv, Handling, Deciding, Steps
<1>7. Remembering' /\ Choosing' /\ Agreeing' /\ Tracking'
  BY <1>1, DrivingFacts
  DEF PolicyInv, Remembering, Choosing, Agreeing, Tracking, Driving, Observing
<1> QED
  BY <1>2, <1>4, <1>5, <1>6, <1>7 DEF PolicyInv

(* The calls after which nothing is under way and the frame is answered.   *)
LEMMA FinishedKeeps ==
    ASSUME IInv, PolicyInv, IInv', pc \in Driving \cup Observing,
           active # Nobody, active' = Nobody, used' = used, Known' = Known,
           lastNow' = lastStamp, Publishes,
           mine' = NoOption, Answered, UNCHANGED <<Local, counter, command>>,
           latched' \in BOOLEAN, completed' \subseteq Nodes
    PROVE  PolicyInv'
<1>1. /\ pc' = "IDLE" /\ frame' = NoFrame /\ choice' = NoChoice
      /\ UNCHANGED <<endpoint, epochLost, clockEpoch, identity, lastStamp, track,
                     sightings, counter, command>>
  BY DEF Answered, Local
<1>2. /\ updatedAt' \in Nat /\ updatedAt' <= lastNow'
      /\ lastNow' \in Nat /\ lastNow' <= lastStamp
      /\ lastStamp \in 0..LastStamp
  BY PolicyConstants DEF Publishes, PolicyInv, PolicyTypeOK, Counting, IInv, TypeOK
<1>3. command = "ZERO"
  BY DEF PolicyInv, Handling, Driving, Observing
<1>4. PolicyTypeOK'
  BY <1>1, <1>2, PolicyConstants DEF PolicyInv, PolicyTypeOK, Steps
<1>5. Counting'
  BY <1>1, <1>2 DEF PolicyInv, Counting
<1>6. Handling' /\ Remembering' /\ Choosing' /\ Agreeing' /\ Tracking'
  BY <1>1, <1>3
  DEF PolicyInv, Handling, Remembering, Choosing, Agreeing, Tracking, Deciding,
      Driving, Observing
<1> QED
  BY <1>4, <1>5, <1>6 DEF PolicyInv

(* The candidate passes the lease; the supervisor stops it.                *)
LEMMA CandidateStoppedKeeps ==
    ASSUME IInv, PolicyInv, CandidateStopped
    PROVE  IInv' /\ PolicyInv'
<1> DEFINE c == Context(frame, TRUE, TRUE, Nobody)
<1>1. /\ pc = "CANDIDATE" /\ pc \in Driving
      /\ Tick(c) /\ Publishes /\ Answered
      /\ mine' = NoOption /\ latched' = TRUE
      /\ UNCHANGED <<Local, counter, completed, command>>
  BY DEF CandidateStopped, Driving
<1>2. c \in Snapshots /\ c.now = lastStamp
  BY <1>1, DrivingFacts, ContextIsSnapshot DEF Context
<1>3. IInv'
  BY <1>1, <1>2, EndInv
<1>4. instance.phase = "EXECUTING"
  BY <1>1 DEF PolicyInv, Agreeing
<1>5. TickVerdict(c) # "NONE"
  BY <1>1, <1>4, DrivingFacts
  DEF TickVerdict, Verdict, CheckTermination, Context
<1>6. Finish(TickVerdict(c)) /\ lastNow' = lastStamp
  BY <1>1, <1>2, <1>5 DEF Tick, ObserveTime
<1>7. active # Nobody /\ active' = Nobody /\ used' = used /\ Known' = Known
  BY <1>1, <1>6, FinishFacts, DrivingFacts
<1>8. completed' \subseteq Nodes
  BY <1>1 DEF PolicyInv, PolicyTypeOK
<1> QED
  BY <1>1, <1>3, <1>6, <1>7, <1>8, FinishedKeeps

LEMMA EffectKeeps ==
    ASSUME IInv, PolicyInv, Effect
    PROVE  IInv' /\ PolicyInv'
<1> DEFINE c == Context(frame, latched, TRUE, mine.inst)
<1>1. /\ pc = "EFFECT" /\ pc \in Driving
      /\ Tick(c) /\ Publishes /\ Answered
      /\ mine' = NoOption /\ latched' = latched
      /\ completed' = completed \cup {mine.key[2]}
      /\ UNCHANGED <<Local, counter, command>>
  BY DEF Effect, Driving
<1>2. c \in Snapshots /\ c.now = lastStamp
  BY <1>1, DrivingFacts, ContextIsSnapshot DEF Context
<1>3. IInv'
  BY <1>1, <1>2, EndInv
<1>4. instance.phase = "EXECUTING"
  BY <1>1 DEF PolicyInv, Agreeing
<1>5. TickVerdict(c) = "SUCCESS"
  BY <1>1, <1>4, DrivingFacts, EntitledGoalStands DEF TickVerdict, Verdict
<1>6. Finish(TickVerdict(c)) /\ lastNow' = lastStamp
  BY <1>1, <1>2, <1>5 DEF Tick, ObserveTime
<1>7. active # Nobody /\ active' = Nobody /\ used' = used /\ Known' = Known
  BY <1>1, <1>6, FinishFacts, DrivingFacts
<1>8. completed' \subseteq Nodes
  BY <1>1, DrivingFacts DEF PolicyInv, PolicyTypeOK, ActiveOptions
<1> QED
  BY <1>1, <1>3, <1>6, <1>7, <1>8, DrivingFacts, FinishedKeeps

LEMMA ObserveKeeps ==
    ASSUME IInv, PolicyInv, Observe
    PROVE  IInv' /\ PolicyInv'
<1> DEFINE c == Context(frame, latched, FALSE, Nobody)
<1>1. /\ pc = "OBSERVE"
      /\ counter' = counter + 1
      /\ SubmitAccepted(counter', choice.goal, c)
      /\ Publishes
      /\ pc' = "OBSERVE_MARK"
      /\ UNCHANGED <<endpoint, epochLost, clockEpoch, identity, lastStamp, track,
                     sightings, mine, latched, completed, frame, choice, command>>
  BY DEF Observe, Local
<1>2. latched \in BOOLEAN
  BY DEF PolicyInv, PolicyTypeOK
<1>3. c \in Snapshots /\ c.now = frame.stamp
  BY <1>1, <1>2, NewChoiceFacts, ContextIsSnapshot DEF Context
<1>4. /\ IInv'
      /\ lastNow' = lastStamp
      /\ updatedAt' \in Nat /\ updatedAt' <= lastStamp
      /\ active' # Nobody
      /\ instance'.goal = choice.goal
      /\ instance'.phase = "PLANNING"
      /\ \A i \in used' : i[3] \in 1..counter'
      /\ \A a \in Known' : a <= counter'
  BY <1>1, <1>3, SubmissionFacts
<1>5. /\ NewChoice /\ mine = NoOption
      /\ frame \in Frames /\ frame.stamp = lastStamp
      /\ lastStamp \in 1..LastStamp
      /\ counter + 1 \in Actions /\ counter + 1 <= lastStamp
  BY <1>1, NewChoiceFacts
<1>6. choice.kind = "OBSERVE_SAFE"
  BY <1>1 DEF PolicyInv, Choosing
<1>7. PolicyTypeOK'
  BY <1>1, <1>4, <1>5, PolicyConstants, PolicyAssumption
  DEF PolicyInv, PolicyTypeOK, Steps
<1>8. Counting'
  BY <1>1, <1>4, <1>5 DEF Counting
<1>9. Handling'
  BY <1>1, <1>5 DEF PolicyInv, Handling, Complete, Deciding, Steps
<1>10. Remembering' /\ Choosing' /\ Tracking'
  BY <1>1, <1>5 DEF PolicyInv, Remembering, Choosing, Tracking, Driving
<1>11. Agreeing'
  BY <1>1, <1>4, <1>5, <1>6 DEF Agreeing, Driving, Observing, NewChoice, Entitled
<1> QED
  BY <1>4, <1>7, <1>8, <1>9, <1>10, <1>11 DEF PolicyInv

(* The observation under way.                                              *)
LEMMA ObservingFacts ==
    ASSUME IInv, PolicyInv, pc \in Observing
    PROVE  /\ mine = NoOption /\ active # Nobody
           /\ instance.goal = choice.goal /\ choice.inst = choice.goal.inst
           /\ choice.goal \in Goals /\ choice.inst \in Instances
           /\ choice.goal.kind = "OBSERVE_SAFE"
           /\ Entitled(choice.goal)
           /\ ~latched
           /\ frame \in Frames /\ frame.stamp = lastStamp
           /\ lastStamp \in 1..LastStamp
           /\ lastNow \in Nat /\ lastNow <= lastStamp
           /\ updatedAt \in Nat /\ updatedAt <= lastNow
<1>1. /\ mine = NoOption /\ active # Nobody
      /\ instance.goal = choice.goal /\ choice.inst = choice.goal.inst
      /\ choice.goal.kind = "OBSERVE_SAFE"
      /\ Entitled(choice.goal)
  BY DEF PolicyInv, Agreeing
<1>2. choice.goal \in Goals /\ choice.inst \in Instances
  BY <1>1, GoalFacts DEF IInv, TypeOK
<1>3. ~latched
  BY <1>1 DEF Entitled, CheckInitiation, Context, AuthorityAvailable
<1>4. /\ pc # "IDLE" /\ pc \in Deciding
      /\ frame \in Frames /\ frame.stamp = lastStamp
  BY DEF PolicyInv, PolicyTypeOK, Handling, Observing, Deciding, Steps
<1>5. /\ lastStamp \in 1..LastStamp
      /\ lastNow \in Nat /\ lastNow <= lastStamp
      /\ updatedAt \in Nat /\ updatedAt <= lastNow
  BY <1>4, FrameFacts DEF PolicyInv, PolicyTypeOK, Counting, IInv, TypeOK
<1> QED
  BY <1>1, <1>2, <1>3, <1>4, <1>5

LEMMA ObserveMarkKeeps ==
    ASSUME IInv, PolicyInv, ObserveMark
    PROVE  IInv' /\ PolicyInv' /\ ~lease'.authorized
<1> DEFINE c == Context(frame, FALSE, TRUE, Nobody)
<1>1. /\ pc = "OBSERVE_MARK" /\ pc \in Observing
      /\ MarkExecuting(c) /\ Publishes
      /\ pc' = "OBSERVE_TICK"
      /\ UNCHANGED <<endpoint, epochLost, clockEpoch, identity, lastStamp, track,
                     sightings, counter, latched, completed, frame, choice, command, mine>>
  BY DEF ObserveMark, Local, Observing
<1>2. c \in Snapshots /\ c.now = lastStamp
  BY <1>1, ObservingFacts, ContextIsSnapshot DEF Context
<1>3. IInv'
  BY <1>1, <1>2, MarkInv
<1>4. /\ lastNow' = lastStamp
      /\ UNCHANGED <<used, active, records>>
      /\ instance' = [instance EXCEPT !.phase = "EXECUTING"]
  BY <1>1, <1>2 DEF MarkExecuting, ObserveTime
<1>5. /\ instance'.goal = instance.goal
      /\ instance'.phase = "EXECUTING"
  BY <1>4 DEF IInv, TypeOK
<1>6. ~lease'.authorized
  BY <1>1, <1>3, <1>5, ObservingFacts DEF IInv, Ownership, StillKinds
<1>7. updatedAt' \in Nat /\ updatedAt' <= lastNow'
  BY <1>1, <1>4, ObservingFacts DEF Publishes
<1>8. Known' = Known
  BY <1>4 DEF Known
<1>9. PolicyTypeOK'
  BY <1>1, <1>4, <1>7, ObservingFacts, PolicyConstants
  DEF PolicyInv, PolicyTypeOK, Steps
<1>10. Counting'
  BY <1>1, <1>4, <1>7, <1>8, ObservingFacts DEF PolicyInv, Counting
<1>11. Handling'
  BY <1>1, ObservingFacts DEF PolicyInv, Handling, Complete, Deciding, Steps
<1>12. Remembering' /\ Choosing' /\ Tracking'
  BY <1>1, ObservingFacts DEF PolicyInv, Remembering, Choosing, Tracking, Driving
<1>13. Agreeing'
  BY <1>1, <1>4, <1>5, ObservingFacts DEF Agreeing, Driving, Observing, Entitled
<1> QED
  BY <1>3, <1>6, <1>9, <1>10, <1>11, <1>12, <1>13 DEF PolicyInv

LEMMA ObserveTickKeeps ==
    ASSUME IInv, PolicyInv, ObserveTick
    PROVE  IInv' /\ PolicyInv'
<1> DEFINE c == Context(frame, FALSE, TRUE, choice.inst)
<1>1. /\ pc = "OBSERVE_TICK" /\ pc \in Observing
      /\ Tick(c) /\ Publishes /\ Answered
      /\ mine' = mine /\ latched' = latched
      /\ completed' = completed
      /\ UNCHANGED <<Local, counter, command>>
  BY DEF ObserveTick, Observing
<1>2. c \in Snapshots /\ c.now = lastStamp
  BY <1>1, ObservingFacts, ContextIsSnapshot DEF Context
<1>3. IInv'
  BY <1>1, <1>2, EndInv
<1>4. instance.phase = "EXECUTING"
  BY <1>1 DEF PolicyInv, Agreeing
<1>5. TickVerdict(c) = "SUCCESS"
  <2>1. CheckTermination(choice.goal, Context(frame, latched, TRUE, choice.goal.inst), TRUE)
           = "SUCCESS"
    BY <1>1, ObservingFacts, EntitledGoalStands
  <2>2. latched = FALSE
    BY <1>1, ObservingFacts DEF PolicyInv, PolicyTypeOK
  <2> QED
    BY <1>1, <1>4, <2>1, <2>2, ObservingFacts DEF TickVerdict, Verdict
<1>6. Finish(TickVerdict(c)) /\ lastNow' = lastStamp
  BY <1>1, <1>2, <1>5 DEF Tick, ObserveTime
<1>7. active # Nobody /\ active' = Nobody /\ used' = used /\ Known' = Known
  BY <1>1, <1>6, FinishFacts, ObservingFacts
<1>8. completed' \subseteq Nodes /\ latched' \in BOOLEAN /\ mine' = NoOption
  BY <1>1, ObservingFacts DEF PolicyInv, PolicyTypeOK
<1> QED
  BY <1>1, <1>3, <1>6, <1>7, <1>8, FinishedKeeps

-----------------------------------------------------------------------------
(* What is selected.                                                       *)
LEMMA LeastNumber ==
    ASSUME NEW S \in SUBSET Nat, S # {}
    PROVE  \E m \in S : \A n \in S : m <= n
<1>1. PICK m \in S : \A n \in S : ~(<<n, m>> \in OpToRel(<, Nat))
  BY NatLessThanWellFounded, WFMin
<1>2. \A n \in S : ~(n < m)
  BY <1>1 DEF OpToRel
<1> QED
  BY <1>2

(* The parts of a proposal: a goal of its own, or that of the option held. *)
NewGoal(f, key) ==
    [inst |-> NewId(key, f), stage |-> f.shape.stage,
     kind |-> IF key[1] = "OBSERVE_SAFE" THEN key[1] ELSE "MOVE",
     epoch |-> <<f.shape.clock, f.shape.loc>>, version |-> f.shape.version,
     deadline |-> f.shape.stageEnds, wellFormed |-> TRUE]

LEMMA ProposalFields ==
    ASSUME NEW f, NEW kind, NEW n, NEW urgency, NEW utility
    PROVE  LET p == Proposal(f, kind, n, urgency, utility)
           IN  /\ p.key = <<kind, n>> /\ p.kind = kind
               /\ p.goal = IF Held.key = <<kind, n>> THEN Held.goal
                           ELSE NewGoal(f, <<kind, n>>)
               /\ p.inst = p.goal.inst
<1> DEFINE goal == IF Held.key = <<kind, n>> THEN Held.goal
                   ELSE NewGoal(f, <<kind, n>>)
           ready == CheckInitiation(goal, Context(f, latched, FALSE, Nobody))
           facts == OwnGuards[Role][kind]
<1>1. Proposal(f, kind, n, urgency, utility) =
          [key |-> <<kind, n>>, inst |-> goal.inst, goal |-> goal, kind |-> kind,
           facts |-> facts, timing |-> "NONE", ready |-> ready,
           urgency |-> urgency, utility |-> utility, order |-> n]
  BY DEF Proposal, NewGoal
<1> HIDE DEF ready, facts
<1> QED
  BY <1>1

(* Only a goal the registry accepts is marked ready.                       *)
LEMMA ProposalReady ==
    ASSUME NEW f, NEW kind, NEW n, NEW urgency, NEW utility,
           Proposal(f, kind, n, urgency, utility).ready
    PROVE  CheckInitiation(Proposal(f, kind, n, urgency, utility).goal,
                           Context(f, latched, FALSE, Nobody))
<1> DEFINE p == Proposal(f, kind, n, urgency, utility)
           goal == IF Held.key = <<kind, n>> THEN Held.goal
                   ELSE NewGoal(f, <<kind, n>>)
           c == Context(f, latched, FALSE, Nobody)
           facts == OwnGuards[Role][kind]
<1>1. p = [key |-> <<kind, n>>, inst |-> goal.inst, goal |-> goal, kind |-> kind,
           facts |-> facts, timing |-> "NONE", ready |-> CheckInitiation(goal, c),
           urgency |-> urgency, utility |-> utility, order |-> n]
  BY DEF Proposal, NewGoal
<1>2. p.goal = goal
  BY ProposalFields
<1> HIDE DEF p, goal, c, facts
<1>3. p.ready = CheckInitiation(goal, c)
  <2>1. ASSUME NEW r,
               p = [key |-> <<kind, n>>, inst |-> goal.inst, goal |-> goal,
                    kind |-> kind, facts |-> facts, timing |-> "NONE", ready |-> r,
                    urgency |-> urgency, utility |-> utility, order |-> n]
        PROVE  p.ready = r
    BY <2>1
  <2> QED
    BY <1>1, <2>1, Zenon
<1>4. p.ready
  BY DEF p
<1>5. CheckInitiation(p.goal, c)
  BY <1>2, <1>3, <1>4, Zenon
<1> QED
  BY <1>5 DEF p, c

(* Every proposal is one of an observation, or one of a motion for a frame *)
(* with forward coverage, for or against a rival only if the track of it   *)
(* can be used.                                                            *)
LEMMA EvidenceFacts ==
    ASSUME NEW f, NEW trk, NEW done,
           NEW proposals \in Evidence(f, trk, done), NEW p \in proposals
    PROVE  \E kind, n, urgency, utility :
              /\ p = Proposal(f, kind, n, urgency, utility)
              /\ \/ kind = "OBSERVE_SAFE" /\ n = 0 /\ endpoint = "LONE_EXPLORER"
                 \/ /\ kind \in MotionKinds /\ n \in Nodes
                    /\ endpoint # "LONE_EXPLORER"
                    /\ f.shape.forward
                    /\ kind \in RivalKinds => Usable(f, trk)
<1>1. ~latched
  BY DEF Evidence
<1>2. CASE endpoint = "LONE_EXPLORER"
  BY <1>1, <1>2 DEF Evidence
<1>3. CASE endpoint # "LONE_EXPLORER"
  <2>1. f.shape.forward
    BY <1>1, <1>3 DEF Evidence
  <2>2. \/ proposals \in PursuitEvidence(f) /\ Usable(f, trk)
        \/ proposals \in SearchEvidence(f, done)
        \/ proposals \in RivalEvidence(f, done) /\ Usable(f, trk)
        \/ proposals = {Proposal(f, "ADVANCE_KNOWN_ROUTE", GoalNode, 0, 0)}
    BY <1>1, <1>3, <2>1 DEF Evidence
  <2>3. GoalNode \in Nodes
    BY PolicyAssumption
  <2>4. CASE proposals \in PursuitEvidence(f) /\ Usable(f, trk)
    BY <1>3, <2>1, <2>4 DEF PursuitEvidence, MotionKinds
  <2>5. CASE proposals \in SearchEvidence(f, done)
    <3>1. PICK n, utility :
             n \in Nodes /\ p = Proposal(f, "SEARCH_PORTAL", n, 0, utility)
      BY <2>5 DEF SearchEvidence
    <3> QED
      BY <1>3, <2>1, <3>1 DEF MotionKinds, RivalKinds
  <2>6. CASE proposals \in RivalEvidence(f, done) /\ Usable(f, trk)
    BY <1>3, <2>1, <2>3, <2>6 DEF RivalEvidence, MotionKinds
  <2>7. CASE proposals = {Proposal(f, "ADVANCE_KNOWN_ROUTE", GoalNode, 0, 0)}
    BY <1>3, <2>1, <2>3, <2>7 DEF MotionKinds, RivalKinds
  <2> QED
    BY <2>2, <2>4, <2>5, <2>6, <2>7
<1> QED
  BY <1>2, <1>3

(* The order of the selection has a first among any proposals of a frame.  *)
LEMMA BestIsEligible ==
    ASSUME NEW f, NEW trk, NEW done, NEW proposals \in Evidence(f, trk, done),
           NEW eligible \in SUBSET proposals, eligible # {}
    PROVE  Best(eligible) \in eligible
<1> SUFFICES \E p \in eligible : \A q \in eligible \ {p} : Precedes(p, q)
  BY DEF Best
<1>1. CASE \E p : proposals = {p}
  BY <1>1
<1>2. CASE proposals \in SearchEvidence(f, done)
  <2>1. PICK reachable \in SUBSET Nodes, best \in Nodes :
           proposals = {Proposal(f, "SEARCH_PORTAL", n, 0,
                                 IF n = best THEN HysteresisDelta + 1 ELSE 0) :
                           n \in reachable \ done}
    BY <1>2 DEF SearchEvidence
  <2> DEFINE P(n) == Proposal(f, "SEARCH_PORTAL", n, 0,
                              IF n = best THEN HysteresisDelta + 1 ELSE 0)
             T == {n \in reachable \ done : P(n) \in eligible}
  <2>2. /\ \A n \in T : P(n) \in eligible /\ n \in Nat
        /\ \A q \in eligible : \E n \in T : q = P(n)
        /\ T # {}
        /\ T \in SUBSET Nat
    BY <2>1, PolicyAssumption
  <2>3. \A n, k : /\ Priority(P(n)) = Priority(P(k))
                  /\ P(n).urgency = P(k).urgency
                  /\ P(n).order = n
                  /\ P(n).utility = IF n = best THEN HysteresisDelta + 1 ELSE 0
    BY DEF Proposal, Priority
  <2>4. HysteresisDelta \in Nat
    BY SelectorAssumption DEF SelectorValid
  <2> HIDE DEF P, T
  <2>5. CASE best \in T
    <3>1. \A n \in T : n # best => Precedes(P(best), P(n))
      BY <2>3, <2>4 DEF Precedes
    <3> QED
      BY <2>2, <2>5, <3>1
  <2>6. CASE best \notin T
    <3>1. PICK m \in T : \A n \in T : m <= n
      BY <2>2, LeastNumber
    <3>2. \A n \in T : n # m => Precedes(P(m), P(n))
      BY <2>2, <2>3, <2>6, <3>1 DEF Precedes
    <3> QED
      BY <2>2, <3>1, <3>2
  <2> QED
    BY <2>5, <2>6
<1>3. \/ \E p : proposals = {p}
      \/ proposals \in SearchEvidence(f, done)
  BY DEF Evidence, PursuitEvidence, RivalEvidence
<1> QED
  BY <1>1, <1>2, <1>3

(* What is selected is a proposal the selector found ready, for a frame    *)
(* without a reason to stand still.                                        *)
LEMMA SelectionFacts ==
    ASSUME NEW f, NEW trk, NEW done, NEW proposals \in Evidence(f, trk, done),
           Selected(f, proposals) # Hold
    PROVE  /\ Selected(f, proposals) \in proposals
           /\ Selected(f, proposals).ready
           /\ f.shape.ready
<1> DEFINE c == Context(f, latched, FALSE, Nobody)
           current == [key |-> Held.key, inst |-> Held.inst, started |-> Held.started]
           eligible == {p \in proposals : Applicable(Role, p)}
<1>1. /\ ~HardStop(c, f.shape.ready)
      /\ eligible # {}
      /\ Selected(f, proposals) = Chosen(eligible, current, f.stamp)
  BY DEF Selected, Select
<1>2. Best(eligible) \in eligible
  BY <1>1, BestIsEligible
<1>3. Chosen(eligible, current, f.stamp) \in eligible
  BY <1>2 DEF Chosen, Incumbents
<1> QED
  BY <1>1, <1>3 DEF Applicable, HardStop

(* The option the policy remembers has no result yet.                      *)
LEMMA HeldIsMine ==
    ASSUME IInv, PolicyInv
    PROVE  Held = mine
<1>1. CASE mine = NoOption
  BY <1>1 DEF Held
<1>2. CASE mine # NoOption
  <2>1. active = mine.action /\ active # Nobody
    BY <1>2, PolicyConstants
    DEF PolicyInv, PolicyTypeOK, ActiveOptions, Remembering
  <2>2. ~HasResult(mine.action)
    BY <2>1 DEF IInv, Bookkeeping, HasResult
  <2> QED
    BY <2>2 DEF Held
<1> QED
  BY <1>1, <1>2

-----------------------------------------------------------------------------
(* A frame arrives.                                                        *)

(* The track of the rival after a frame: it is confirmed by no more than   *)
(* was seen, and can only be used if the rival is seen in this frame.      *)
LEMMA TrackKeeps ==
    ASSUME PolicyInv, NEW f \in Frames, UpdateTrack(f)
    PROVE  /\ track' \in Filters
           /\ sightings' \in 0..ConfirmationCount
           /\ Tracking'
           /\ track' = TrackAfter(f)
           /\ Usable(f, TrackAfter(f)) =>
                 f.shape.seen /\ sightings' >= ConfirmationCount
<1>1. /\ track \in Filters /\ sightings \in 0..ConfirmationCount
      /\ track.confirmation <= sightings
      /\ track.status = "TRACKED" =>
            track.initialized /\ track.confirmation = ConfirmationCount
      /\ track.confirmation \in 0..ConfirmationCount
  BY DEF PolicyInv, PolicyTypeOK, Tracking, Filters
<1>2. /\ ConfirmationCount \in Nat \ {0}
      /\ f.stamp \in Nat
      /\ f.shape.seen \in BOOLEAN
  BY PolicyConstants, FrameFacts DEF Shapes
<1>3. /\ track' = TrackAfter(f)
      /\ sightings' = IF f.shape.seen /\ sightings < ConfirmationCount
                      THEN sightings + 1 ELSE sightings
  BY DEF UpdateTrack
<1>4. sightings' \in 0..ConfirmationCount
  BY <1>1, <1>2, <1>3
<1>5. CASE track' = NoTrack
  <2>1. NoTrack \in Filters /\ NoTrack.status = "SEARCHING" /\ NoTrack.confirmation = 0
    BY <1>2 DEF NoTrack, Filters, TrackStates
  <2> QED
    BY <1>3, <1>4, <1>5, <2>1 DEF Tracking, Usable
<1>6. CASE track' = Predicted(track, f.stamp) /\ ~f.shape.seen
  <2>1. Aged(f.stamp - track.measured) \in TrackStates \ {"TRACKED"}
    BY DEF Aged, TrackStates
  <2>2. /\ track'.status # "TRACKED"
        /\ track'.confirmation = track.confirmation
        /\ track' \in Filters
    BY <1>1, <1>2, <1>6, <2>1 DEF Predicted, Filters
  <2> QED
    BY <1>1, <1>3, <1>4, <1>6, <2>2 DEF Tracking, Usable
<1>7. CASE track' = Associated(track, f.stamp) /\ f.shape.seen /\ track.initialized
  <2>1. Aged(f.stamp - track.measured) \in TrackStates \ {"TRACKED"}
    BY DEF Aged, TrackStates
  <2> DEFINE q == IF f.stamp > track.predicted THEN Predicted(track, f.stamp) ELSE track
             k == Confirmed(track)
  <2>2. /\ q \in Filters
        /\ q.status = "TRACKED" => track.status = "TRACKED"
        /\ q.status \in TrackStates /\ q.initialized
    BY <1>1, <1>2, <1>7, <2>1 DEF Predicted, Filters
  <2>3. /\ k \in 0..ConfirmationCount
        /\ k <= sightings'
        /\ track.status = "TRACKED" => k = ConfirmationCount
    BY <1>1, <1>2, <1>3, <1>7 DEF Confirmed
  <2>4. track' = [q EXCEPT !.confirmation = k, !.measured = f.stamp,
                           !.status = IF k >= ConfirmationCount THEN "TRACKED" ELSE @]
    BY <1>7 DEF Associated
  <2> HIDE DEF q, k
  <2>5. /\ track'.confirmation = k
        /\ track'.initialized = q.initialized
        /\ track'.status = IF k >= ConfirmationCount THEN "TRACKED" ELSE q.status
        /\ track' \in Filters
    BY <1>2, <2>2, <2>3, <2>4 DEF Filters, TrackStates
  <2>6. track'.status = "TRACKED" => k = ConfirmationCount
    BY <1>2, <2>2, <2>3, <2>5
  <2> QED
    BY <1>2, <2>2, <1>3, <1>4, <1>7, <2>3, <2>5, <2>6 DEF Tracking, Usable
<1>8. CASE track' = Initialized(f.stamp) /\ f.shape.seen
  <2>1. /\ track' \in Filters
        /\ track'.confirmation = 1 /\ track'.initialized
        /\ track'.status = "TRACKED" => ConfirmationCount = 1
    BY <1>2, <1>8 DEF Initialized, Filters, TrackStates
  <2>2. sightings' >= 1
    BY <1>1, <1>2, <1>3, <1>8
  <2> QED
    BY <1>2, <1>3, <1>4, <1>8, <2>1, <2>2 DEF Tracking, Usable
<1>9. CASE track' = track /\ ~track.initialized /\ ~f.shape.seen
  <2>1. track.status # "TRACKED"
    BY <1>1, <1>9
  <2> QED
    BY <1>1, <1>3, <1>4, <1>9, <2>1 DEF Tracking, Usable
<1> QED
  BY <1>3, <1>5, <1>6, <1>7, <1>8, <1>9 DEF TrackAfter, Updated

(* The attributes a frame may change, and those it leaves alone.           *)
LEMMA IdleFacts ==
    ASSUME IInv, PolicyInv, pc = "IDLE"
    PROVE  /\ choice = NoChoice
           /\ mine = NoOption => active = Nobody
           /\ mine # NoOption =>
                 /\ mine \in ActiveOptions
                 /\ instance.phase = "EXECUTING" /\ lease.authorized
                 /\ updatedAt = lastNow
                 /\ clockEpoch # NoOne /\ mine.goal.epoch[1] = clockEpoch
                 /\ ~epochLost
           /\ counter \in Nat /\ counter <= lastStamp
           /\ lastStamp \in 0..LastStamp
           /\ lastNow \in Nat /\ lastNow <= lastStamp
           /\ updatedAt \in Nat /\ updatedAt <= lastNow
  BY PolicyConstants
  DEF PolicyInv, PolicyTypeOK, Choosing, Agreeing, Counting, Remembering,
      Handling, IInv, TypeOK

(* A frame that stops the robot: an option under way is to be revoked.     *)
LEMMA StopKeeps ==
    ASSUME IInv, PolicyInv, pc = "IDLE", NEW f \in Frames, Stop(f),
           lastStamp' \in 0..LastStamp, lastStamp <= lastStamp',
           clockEpoch' \in Clocks \cup {NoOne},
           identity' \in (Stages \X Localizations \X Versions) \cup {NoOne},
           epochLost' \in BOOLEAN, epochLost => epochLost',
           KeepNavigation \/ ResetNavigation,
           mine # NoOption =>
              /\ clockEpoch' = clockEpoch
              /\ \/ f.stamp <= lastStamp'
                 \/ f.shape.match /\ f.shape.clock # clockEpoch
    PROVE  IInv' /\ PolicyInv'
<1>1. /\ command' = "ZERO"
      /\ IF mine = NoOption THEN pc' = "IDLE" /\ frame' = NoFrame
                            ELSE pc' = "REVOKE" /\ frame' = f
      /\ UNCHANGED <<lease, records, used, active, instance, lastNow, state>>
      /\ UNCHANGED <<endpoint, mine, counter, latched, updatedAt, choice>>
  BY DEF Stop, Handle, authority
<1>2. IInv'
  BY <1>1, NextInv DEF vars
<1>3. Known' = Known
  BY <1>1 DEF Known
<1>4. \/ UNCHANGED <<completed, track, sightings>>
      \/ completed' = {} /\ track' = NoTrack /\ sightings' = 0
  BY DEF KeepNavigation, ResetNavigation
<1>5. Tracking' /\ completed' \subseteq Nodes /\ track' \in Filters
      /\ sightings' \in 0..ConfirmationCount
  <2>1. /\ NoTrack \in Filters /\ NoTrack.status = "SEARCHING"
        /\ NoTrack.confirmation = 0
    BY PolicyConstants DEF NoTrack, Filters, TrackStates
  <2> QED
    BY <1>4, <2>1, PolicyConstants DEF PolicyInv, PolicyTypeOK, Tracking
<1>6. PolicyTypeOK'
  BY <1>1, <1>5 DEF PolicyInv, PolicyTypeOK, Steps
<1>7. Counting'
  BY <1>1, <1>3, IdleFacts DEF PolicyInv, Counting
<1>8. Handling'
  BY <1>1, IdleFacts DEF PolicyInv, Handling, Deciding, Steps
<1>9. Remembering'
  BY <1>1 DEF PolicyInv, Remembering
<1>10. Choosing' /\ Agreeing'
  BY <1>1, IdleFacts DEF PolicyInv, Choosing, Agreeing, Driving, Observing
<1> QED
  BY <1>2, <1>5, <1>6, <1>7, <1>8, <1>9, <1>10 DEF PolicyInv

(* A frame whose parts agree, and are of the same stage, map and clock.    *)
LEMMA ConsideredFacts ==
    ASSUME IInv, PolicyInv, pc = "IDLE", NEW f \in Frames, Considered(f)
    PROVE  /\ IInv'
           /\ lastStamp' = f.stamp /\ lastStamp < f.stamp
           /\ lastStamp' \in 1..LastStamp
           /\ clockEpoch' = f.shape.clock /\ clockEpoch' \in Clocks
           /\ identity' = Identity(f.shape)
           /\ identity' \in Stages \X Localizations \X Versions
           /\ ~epochLost /\ epochLost' = epochLost
           /\ Complete(f)
           /\ mine # NoOption => clockEpoch' = clockEpoch
           /\ Known' = Known
           /\ UNCHANGED <<lease, records, used, active, instance, lastNow, state>>
           /\ UNCHANGED <<endpoint, counter, latched, updatedAt>>
<1>1. /\ ~OtherClock(f) /\ f.stamp > lastStamp /\ lastStamp' = f.stamp
      /\ Complete(f) /\ UNCHANGED epochLost
      /\ clockEpoch' = f.shape.clock
      /\ identity' = Identity(f.shape)
      /\ UNCHANGED <<lease, records, used, active, instance, lastNow, state>>
      /\ UNCHANGED <<endpoint, counter, latched, updatedAt>>
  BY DEF Considered, Punctual, authority
<1>2. IInv' /\ Known' = Known
  BY <1>1, NextInv DEF vars, Known
<1>3. /\ f.stamp \in 1..LastStamp
      /\ f.shape.clock \in Clocks
      /\ Identity(f.shape) \in Stages \X Localizations \X Versions
  BY FrameFacts DEF Shapes, Identity
<1>4. ~epochLost /\ (clockEpoch # NoOne => f.shape.clock = clockEpoch)
  BY <1>1 DEF OtherClock, Complete
<1> QED
  BY <1>1, <1>2, <1>3, <1>4, IdleFacts

LEMMA RaiseKeeps ==
    ASSUME IInv, PolicyInv, pc = "IDLE", NEW f \in Frames, Considered(f), Raises(f),
           track' \in Filters, sightings' \in 0..ConfirmationCount, Tracking'
    PROVE  PolicyInv'
<1>1. /\ mine' = mine /\ command' = "RAISED"
      /\ pc' = "IDLE" /\ frame' = NoFrame
      /\ UNCHANGED <<completed, choice>>
  BY HeldIsMine DEF Raises, Handle
<1>2. PolicyTypeOK'
  BY <1>1, ConsideredFacts DEF PolicyInv, PolicyTypeOK
<1>3. Counting'
  BY <1>1, ConsideredFacts, IdleFacts DEF PolicyInv, Counting
<1>4. Handling'
  BY <1>1, ConsideredFacts DEF PolicyInv, Handling, Deciding
<1>5. Remembering'
  BY <1>1, ConsideredFacts DEF PolicyInv, Remembering
<1>6. Choosing' /\ Agreeing'
  BY <1>1, ConsideredFacts, IdleFacts
  DEF PolicyInv, Choosing, Agreeing, Deciding, Driving, Observing
<1> QED
  BY <1>2, <1>3, <1>4, <1>5, <1>6 DEF PolicyInv

(* The selection, whatever comes of it.                                    *)
LEMMA SelectFacts ==
    ASSUME IInv, PolicyInv, pc = "IDLE", NEW f \in Frames, NEW proposals,
           SelectFrom(f, proposals), frame' \in {f, NoFrame},
           pc' \in Steps, pc' # "IDLE" => frame' = f
    PROVE  /\ mine' = mine /\ command' = "ZERO"
           /\ PolicyTypeOK' /\ Handling' /\ Remembering' /\ Tracking'
           /\ (pc' \in {"IDLE", "CANDIDATE"} => updatedAt = lastNow \/ mine = NoOption)
                 => Counting'
<1>1. /\ Considered(f) /\ UpdateTrack(f)
      /\ mine' = mine /\ command' = "ZERO" /\ completed' = completed
  BY HeldIsMine DEF SelectFrom
<1>2. Tracking' /\ track' \in Filters /\ sightings' \in 0..ConfirmationCount
  BY <1>1, TrackKeeps
<1>3. PolicyTypeOK'
  BY <1>1, <1>2, ConsideredFacts DEF PolicyInv, PolicyTypeOK
<1>4. Handling'
  BY <1>1, ConsideredFacts DEF Handling, Complete, Deciding, Steps
<1>5. Remembering'
  BY <1>1, ConsideredFacts DEF PolicyInv, Remembering
<1>6. ASSUME pc' \in {"IDLE", "CANDIDATE"} => updatedAt = lastNow \/ mine = NoOption
      PROVE  Counting'
  BY <1>1, <1>6, ConsideredFacts, IdleFacts DEF PolicyInv, Counting
<1> QED
  BY <1>1, <1>2, <1>3, <1>4, <1>5, <1>6

LEMMA ChooseHoldKeeps ==
    ASSUME IInv, PolicyInv, pc = "IDLE", NEW f \in Frames, NEW proposals,
           ChooseHold(f, proposals)
    PROVE  IInv' /\ PolicyInv'
<1>1. /\ SelectFrom(f, proposals) /\ Considered(f) /\ mine' = mine /\ choice' = choice
      /\ IF mine = NoOption THEN pc' = "IDLE" /\ frame' = NoFrame
                            ELSE pc' = "CANCEL" /\ frame' = f
  BY HeldIsMine DEF ChooseHold, SelectFrom, Handle
<1>2. PolicyTypeOK' /\ Handling' /\ Remembering' /\ Tracking' /\ Counting'
  BY <1>1, SelectFacts DEF Steps
<1>3. IInv'
  BY <1>1, ConsideredFacts
<1>4. Choosing' /\ Agreeing'
  BY <1>1, ConsideredFacts, IdleFacts DEF Choosing, Agreeing, Driving, Observing
<1> QED
  BY <1>2, <1>3, <1>4 DEF PolicyInv

LEMMA SelectorFailsKeeps ==
    ASSUME IInv, PolicyInv, pc = "IDLE", NEW f \in Frames, NEW proposals,
           SelectorFails(f, proposals)
    PROVE  IInv' /\ PolicyInv'
<1>1. /\ SelectFrom(f, proposals) /\ Considered(f) /\ mine' = mine /\ choice' = choice
      /\ IF mine = NoOption THEN pc' = "IDLE" /\ frame' = NoFrame
                            ELSE pc' = "REVOKE" /\ frame' = f
  BY HeldIsMine DEF SelectorFails, SelectFrom, Handle
<1>2. PolicyTypeOK' /\ Handling' /\ Remembering' /\ Tracking' /\ Counting'
  BY <1>1, SelectFacts DEF Steps
<1>3. IInv'
  BY <1>1, ConsideredFacts
<1>4. Choosing' /\ Agreeing'
  BY <1>1, ConsideredFacts, IdleFacts DEF Choosing, Agreeing, Driving, Observing
<1> QED
  BY <1>2, <1>3, <1>4 DEF PolicyInv

(* The proposal chosen, in the words of the frame.                         *)
LEMMA ChosenFacts ==
    ASSUME IInv, PolicyInv, pc = "IDLE", NEW f \in Frames,
           NEW proposals \in Evidence(f, TrackAfter(f), completed),
           SelectFrom(f, proposals), Selected(f, proposals) # Hold
    PROVE  \E kind, n, urgency, utility :
              LET p == Selected(f, proposals)
              IN  /\ p = Proposal(f, kind, n, urgency, utility)
                  /\ <<kind, n>> \in OptionKeys
                  /\ kind = "OBSERVE_SAFE" \/ kind \in MotionKinds
                  /\ kind \in MotionKinds =>
                        n \in Nodes /\ f.shape.forward /\ kind # "OBSERVE_SAFE"
                  /\ kind \in RivalKinds => RivalSeen' \/ frame' # f
                  /\ f.shape.ready
                  /\ CheckInitiation(p.goal, Context(f, latched, FALSE, Nobody))
<1> DEFINE p == Selected(f, proposals)
<1>1. p \in proposals /\ p.ready /\ f.shape.ready
  BY SelectionFacts
<1>2. PICK kind, n, urgency, utility :
         /\ p = Proposal(f, kind, n, urgency, utility)
         /\ \/ kind = "OBSERVE_SAFE" /\ n = 0 /\ endpoint = "LONE_EXPLORER"
            \/ /\ kind \in MotionKinds /\ n \in Nodes
               /\ endpoint # "LONE_EXPLORER"
               /\ f.shape.forward
               /\ kind \in RivalKinds => Usable(f, TrackAfter(f))
  BY <1>1, EvidenceFacts
<1>3. kind \in MotionKinds => kind # "OBSERVE_SAFE"
  BY DEF MotionKinds
<1>4. kind \in RivalKinds => kind \in MotionKinds
  BY DEF RivalKinds, MotionKinds
<1>5. kind \in RivalKinds => RivalSeen' \/ frame' # f
  BY <1>2, <1>3, <1>4, TrackKeeps DEF SelectFrom, RivalSeen
<1>6. CheckInitiation(p.goal, Context(f, latched, FALSE, Nobody))
  BY <1>1, <1>2, ProposalReady
<1>7. <<kind, n>> \in OptionKeys
  BY <1>2 DEF OptionKeys
<1> QED
  BY <1>1, <1>2, <1>3, <1>4, <1>5, <1>6, <1>7

LEMMA ChooseNewKeeps ==
    ASSUME IInv, PolicyInv, pc = "IDLE", NEW f \in Frames,
           NEW proposals \in Evidence(f, TrackAfter(f), completed),
           ChooseNew(f, proposals)
    PROVE  IInv' /\ PolicyInv'
<1> DEFINE p == Selected(f, proposals)
<1>1. /\ SelectFrom(f, proposals) /\ Considered(f) /\ mine' = mine
      /\ p # Hold
      /\ p.key # mine.key \/ p.inst # mine.inst
      /\ choice' = p
      /\ frame' = f
      /\ pc' = IF mine = NoOption THEN StartPoint(p) ELSE "CANCEL"
      /\ f.shape.stageEnds > 0
  BY HeldIsMine DEF ChooseNew, SelectFrom, Handle, StartPoint
<1>2. PICK kind, n, urgency, utility :
         /\ p = Proposal(f, kind, n, urgency, utility)
         /\ <<kind, n>> \in OptionKeys
         /\ kind = "OBSERVE_SAFE" \/ kind \in MotionKinds
         /\ kind \in MotionKinds => f.shape.forward /\ kind # "OBSERVE_SAFE"
         /\ kind \in RivalKinds => RivalSeen'
         /\ f.shape.ready
         /\ CheckInitiation(p.goal, Context(f, latched, FALSE, Nobody))
  BY <1>1, ChosenFacts
<1> HIDE DEF p
<1>3. /\ p.key = <<kind, n>> /\ p.kind = kind /\ p.inst = p.goal.inst
      /\ p.goal = IF mine.key = <<kind, n>> THEN mine.goal ELSE NewGoal(f, <<kind, n>>)
  <2>1. p = Proposal(f, kind, n, urgency, utility)
    BY <1>2
  <2>2. Held = mine
    BY HeldIsMine
  <2> DEFINE q == Proposal(f, kind, n, urgency, utility)
  <2>3. /\ q.key = <<kind, n>> /\ q.kind = kind /\ q.inst = q.goal.inst
        /\ q.goal = IF Held.key = <<kind, n>> THEN Held.goal ELSE NewGoal(f, <<kind, n>>)
    BY ProposalFields
  <2> HIDE DEF q
  <2>4. p = q
    BY <2>1 DEF q
  <2> QED
    BY <2>2, <2>3, <2>4
<1>4. p.goal = NewGoal(f, <<kind, n>>)
  <2>1. CASE mine = NoOption
    BY <1>2, <1>3, <2>1, PolicyAssumption DEF NoOption
  <2>2. CASE mine # NoOption
    BY <1>1, <1>3, <2>2 DEF PolicyInv, Remembering
  <2> QED
    BY <2>1, <2>2
<1>5. /\ p.goal.inst = <<f.shape.stage, <<kind, n>>, counter + 1>>
      /\ p.goal.kind = (IF kind = "OBSERVE_SAFE" THEN "OBSERVE_SAFE" ELSE "MOVE")
  BY <1>4 DEF NewGoal, NewId
<1>6. counter' = counter /\ counter < lastStamp' /\ counter + 1 \in Actions
  BY <1>1, ConsideredFacts, IdleFacts, PolicyConstants, PolicyAssumption
<1>7. p.goal \in OwnGoals
  <2>1. /\ f.shape.stage \in Stages /\ f.shape.version \in Versions
        /\ <<f.shape.clock, f.shape.loc>> \in Epochs
        /\ f.shape \in FrameShapes /\ f.shape.stageEnds # 0
    BY <1>1, FrameFacts, PolicyAssumption DEF Shapes
  <2>2. <<f.shape.stage, <<kind, n>>, counter + 1>> \in OptionIds
    BY <1>2, <1>6, <2>1 DEF OptionIds
  <2> QED
    BY <1>4, <2>1, <2>2 DEF OwnGoals, NewGoal, NewId
<1>8. NewChoice'
  <2>1. /\ choice'.key \in OptionKeys /\ choice'.key[1] = choice'.kind
        /\ choice'.inst = choice'.goal.inst /\ choice'.goal \in OwnGoals
        /\ choice'.goal.kind = (IF choice'.kind = "OBSERVE_SAFE" THEN "OBSERVE_SAFE" ELSE "MOVE")
        /\ choice'.goal.inst[3] = counter' + 1
    BY <1>1, <1>2, <1>3, <1>5, <1>6, <1>7
  <2>2. Entitled(choice.goal)'
    BY <1>1, <1>2, ConsideredFacts DEF Entitled
  <2> QED
    BY <1>1, <1>2, <1>3, <1>6, <2>1, <2>2 DEF NewChoice
<1>9. choice' # NoChoice
  BY <1>1, <1>2, <1>3, PolicyAssumption DEF NoChoice
<1>10. /\ pc' \in {"START", "OBSERVE", "CANCEL"}
       /\ pc' = "START" => kind # "OBSERVE_SAFE" /\ mine = NoOption
       /\ pc' = "OBSERVE" => kind = "OBSERVE_SAFE" /\ mine = NoOption
       /\ pc' = "CANCEL" => mine # NoOption
  BY <1>1, <1>3 DEF StartPoint
<1>11. PolicyTypeOK' /\ Handling' /\ Remembering' /\ Tracking' /\ Counting'
  BY <1>1, <1>10, SelectFacts DEF Steps
<1>12. IInv'
  BY <1>1, ConsideredFacts
<1>13. Choosing'
  BY <1>1, <1>3, <1>8, <1>9, <1>10 DEF Choosing, Driving
<1>14. Agreeing'
  BY <1>1, <1>10, ConsideredFacts, IdleFacts DEF Agreeing, Driving, Observing
<1> QED
  BY <1>11, <1>12, <1>13, <1>14 DEF PolicyInv

LEMMA ChooseCurrentKeeps ==
    ASSUME IInv, PolicyInv, pc = "IDLE", NEW f \in Frames,
           NEW proposals \in Evidence(f, TrackAfter(f), completed),
           ChooseCurrent(f, proposals)
    PROVE  IInv' /\ PolicyInv'
<1> DEFINE p == Selected(f, proposals)
<1>1. /\ SelectFrom(f, proposals) /\ Considered(f) /\ mine' = mine
      /\ p # Hold
      /\ p.key = mine.key /\ p.inst = mine.inst
      /\ choice' = choice
      /\ frame' = f
      /\ pc' \in {"CANCEL", "EFFECT", "REPLAN"}
  BY HeldIsMine DEF ChooseCurrent, SelectFrom, Handle
<1>2. PICK kind, n, urgency, utility :
         /\ p = Proposal(f, kind, n, urgency, utility)
         /\ <<kind, n>> \in OptionKeys
         /\ kind = "OBSERVE_SAFE" \/ kind \in MotionKinds
         /\ kind \in MotionKinds => f.shape.forward /\ kind # "OBSERVE_SAFE"
         /\ kind \in RivalKinds => RivalSeen'
         /\ f.shape.ready
         /\ CheckInitiation(p.goal, Context(f, latched, FALSE, Nobody))
  BY <1>1, ChosenFacts
<1>3. /\ p.key = <<kind, n>>
      /\ p.goal = IF mine.key = <<kind, n>> THEN mine.goal ELSE NewGoal(f, <<kind, n>>)
  BY <1>2, HeldIsMine, ProposalFields
<1>4. mine # NoOption
  BY <1>1, <1>2, <1>3, PolicyAssumption DEF NoOption
<1>5. mine.key \in MotionKinds \X Nodes /\ "OBSERVE_SAFE" \notin MotionKinds
  BY <1>4 DEF PolicyInv, PolicyTypeOK, ActiveOptions, MotionKinds
<1>6. kind \in MotionKinds /\ mine.key[1] = kind /\ p.goal = mine.goal
  BY <1>1, <1>2, <1>3, <1>5
<1>7. PolicyTypeOK' /\ Handling' /\ Remembering' /\ Tracking' /\ Counting'
  BY <1>1, SelectFacts DEF Steps
<1>8. IInv'
  BY <1>1, ConsideredFacts
<1>9. Choosing'
  BY <1>1, IdleFacts DEF Choosing
<1>10. Agreeing'
  BY <1>1, <1>2, <1>4, <1>6, ConsideredFacts, IdleFacts
  DEF Agreeing, Driving, Observing, Entitled
<1> QED
  BY <1>7, <1>8, <1>9, <1>10 DEF PolicyInv

LEMMA FrameKeeps ==
    ASSUME IInv, PolicyInv, Frame
    PROVE  IInv' /\ PolicyInv'
<1>0. PICK t \in 1..LastStamp : \E f \in FramesAt(t) : Arrival(f)
  BY DEF Frame
<1>1. PICK f \in FramesAt(t) : Arrival(f)
  BY <1>0
<1>2. f \in Frames /\ pc = "IDLE"
  BY <1>0, <1>1 DEF Frame, FramesAt, Frames
<1>3. CASE ClockEpochLost(f)
  <2>1. mine # NoOption => f.shape.match /\ f.shape.clock # clockEpoch
    BY <1>2, <1>3, IdleFacts DEF ClockEpochLost, OtherClock
  <2> QED
    BY <1>2, <1>3, <2>1, StopKeeps, IdleFacts
    DEF ClockEpochLost, PolicyInv, PolicyTypeOK
<1>4. CASE OutOfOrder(f)
  BY <1>2, <1>4, StopKeeps, IdleFacts DEF OutOfOrder, PolicyInv, PolicyTypeOK
<1>5. CASE Unusable(f)
  BY <1>2, <1>5, StopKeeps, IdleFacts, FrameFacts
  DEF Unusable, Punctual, PolicyInv, PolicyTypeOK
<1>6. CASE IdentityChanged(f)
  <2>1. /\ Identity(f.shape) \in Stages \X Localizations \X Versions
        /\ f.shape.clock \in Clocks
    BY <1>2, FrameFacts DEF Identity, Shapes
  <2>2. mine # NoOption => f.shape.clock = clockEpoch
    BY <1>2, <1>6, IdleFacts DEF IdentityChanged, Punctual, OtherClock, Complete
  <2> QED
    BY <1>2, <1>6, <2>1, <2>2, StopKeeps, IdleFacts, FrameFacts
    DEF IdentityChanged, Punctual, PolicyInv, PolicyTypeOK
<1>7. CASE FilterRaises(f)
  <2>1. track' \in Filters /\ sightings' \in 0..ConfirmationCount /\ Tracking'
    BY <1>7 DEF FilterRaises, PolicyInv, PolicyTypeOK, Tracking
  <2> QED
    BY <1>2, <1>7, <2>1, RaiseKeeps, ConsideredFacts DEF FilterRaises
<1>8. CASE HoldRaises(f)
  BY <1>2, <1>8, RaiseKeeps, ConsideredFacts, TrackKeeps DEF HoldRaises
<1>9. CASE \E proposals \in Evidence(f, TrackAfter(f), completed) :
              \/ ChooseHold(f, proposals)
              \/ ChooseNew(f, proposals)
              \/ ChooseCurrent(f, proposals)
              \/ SelectorFails(f, proposals)
  BY <1>2, <1>9, ChooseHoldKeeps, ChooseNewKeeps, ChooseCurrentKeeps, SelectorFailsKeeps
<1> QED
  BY <1>1, <1>3, <1>4, <1>5, <1>6, <1>7, <1>8, <1>9 DEF Arrival

-----------------------------------------------------------------------------
LEMMA PolicyInitInv == PolicyInit => IInv /\ PolicyInv
<1> SUFFICES ASSUME PolicyInit PROVE IInv /\ PolicyInv
  OBVIOUS
<1>1. IInv
  BY InitInv DEF PolicyInit
<1>2. used = {} /\ active = Nobody /\ lastNow = 0 /\ Known = {}
  BY DEF PolicyInit, Init, Known, NoRecord
<1>3. track \in Filters /\ Tracking
  BY PolicyConstants DEF PolicyInit, NoTrack, Filters, TrackStates, Tracking
<1>4. PolicyTypeOK
  <2>1. mine = NoOption /\ frame = NoFrame /\ pc = "IDLE" /\ command = "ZERO"
    BY DEF PolicyInit
  <2>2. /\ endpoint \in Endpoints /\ counter = 0 /\ latched = FALSE /\ epochLost = FALSE
        /\ clockEpoch = NoOne /\ identity = NoOne /\ completed = {} /\ lastStamp = 0
        /\ updatedAt = 0 /\ sightings = 0
    BY DEF PolicyInit
  <2>3. frame \in Frames \cup {NoFrame} /\ mine \in ActiveOptions \cup {NoOption}
    BY <2>1
  <2>4. /\ counter \in 0..LastStamp /\ lastStamp \in 0..LastStamp
        /\ updatedAt \in 0..LastStamp /\ sightings \in 0..ConfirmationCount
    BY <2>2, PolicyConstants
  <2> QED
    BY <1>3, <2>1, <2>2, <2>3, <2>4 DEF PolicyTypeOK, Steps
<1>5. Counting
  BY <1>2 DEF PolicyInit, Counting
<1>6. Handling /\ Remembering /\ Choosing /\ Agreeing
  BY <1>2 DEF PolicyInit, Handling, Remembering, Choosing, Agreeing, Deciding,
     Driving, Observing
<1> QED
  BY <1>1, <1>3, <1>4, <1>5, <1>6 DEF PolicyInv

LEMMA PolicyNextInv ==
    IInv /\ PolicyInv /\ [PolicyNext]_policyVars => IInv' /\ PolicyInv'
<1> SUFFICES ASSUME IInv, PolicyInv, [PolicyNext]_policyVars
             PROVE  IInv' /\ PolicyInv'
  OBVIOUS
<1>1. CASE UNCHANGED policyVars
  <2>1. /\ UNCHANGED <<lease, records, used, active, instance, lastNow, state>>
        /\ UNCHANGED <<endpoint, epochLost, clockEpoch, identity, lastStamp, track,
                       sightings, counter, latched, completed, frame, choice, command,
                       mine, updatedAt, pc>>
    BY <1>1 DEF policyVars, authority, memory, progress
  <2>2. IInv' /\ Known' = Known
    BY <2>1, NextInv DEF vars, Known
  <2>3. NewChoice' = NewChoice /\ RivalSeen' = RivalSeen
    BY <2>1, ChoiceStays
  <2>4. PolicyTypeOK' /\ Counting' /\ Handling' /\ Remembering' /\ Tracking' /\ Choosing'
    BY <2>1, <2>2, <2>3
    DEF PolicyInv, PolicyTypeOK, Counting, Handling, Complete, Remembering, Tracking,
        Choosing
  <2>5. Agreeing'
    BY <2>1, <2>3 DEF PolicyInv, Agreeing, Entitled
  <2> QED
    BY <2>2, <2>4, <2>5 DEF PolicyInv
<1>2. CASE PolicyNext
  BY <1>2, FrameKeeps, RequestKeeps, AcknowledgeKeeps, StartAtCapacityKeeps,
     StartKeeps, ReplanKeeps, MarkKeeps, CandidateRejectedKeeps,
     CandidateSupervisedKeeps, CandidateStoppedKeeps, EffectKeeps, ObserveKeeps,
     ObserveMarkKeeps, ObserveTickKeeps
  DEF PolicyNext
<1> QED
  BY <1>1, <1>2

LEMMA PolicyInvariance == PolicySpec => [](IInv /\ PolicyInv)
  BY PolicyInitInv, PolicyNextInv, PTL DEF PolicySpec

-----------------------------------------------------------------------------
(* The attributes of the policy hold what they can hold, whatever frames   *)
(* come; its option, while it has one, is a motion.                        *)
THEOREM PolicyTypeCorrect == PolicySpec => []PolicyTypeOK
<1>1. PolicyInv => PolicyTypeOK
  BY DEF PolicyInv
<1> QED
  BY <1>1, PolicyInvariance, PTL

(* Every early return of __call__ leaves the policy's record and the       *)
(* authority's in agreement: no option and no lease stays behind that      *)
(* nobody would cancel.                                                    *)
THEOREM NoOrphanCorrect == PolicySpec => []NoOrphan
<1>1. IInv /\ PolicyInv => NoOrphan
  <2> SUFFICES ASSUME IInv, PolicyInv, pc = "IDLE"
               PROVE  IF mine = NoOption
                      THEN active = Nobody /\ ~lease.authorized
                      ELSE /\ active = mine.action
                           /\ instance.phase = "EXECUTING"
                           /\ instance.goal = mine.goal
                           /\ instance.gen = mine.gen
                           /\ lease.authorized
    BY DEF NoOrphan
  <2>1. CASE mine = NoOption
    BY <2>1, IdleFacts DEF IInv, Ownership
  <2>2. CASE mine # NoOption
    BY <2>2, IdleFacts DEF PolicyInv, Remembering
  <2> QED
    BY <2>1, <2>2
<1> QED
  BY <1>1, PolicyInvariance, PTL

(* The lease lets the candidate of a frame pass.                           *)
LEMMA CandidateAdmitted ==
    ASSUME IInv, PolicyInv, pc = "CANDIDATE"
    PROVE  Admits(lease, Envelope, frame.stamp)
<1>1. /\ pc \in Driving
      /\ instance.phase = "EXECUTING" /\ lease.authorized
  BY DEF PolicyInv, Agreeing, Driving
<1>2. /\ lease.owner = mine.inst /\ lease.generation = mine.gen
      /\ lease.expected = [version |-> mine.goal.version, epoch |-> mine.goal.epoch]
      /\ mine.inst \notin lease.cancelled
  BY <1>1, DrivingFacts DEF IInv, Ownership
<1>3. /\ mine.goal.version = frame.shape.version
      /\ mine.goal.epoch = <<frame.shape.clock, frame.shape.loc>>
  BY <1>1, DrivingFacts DEF Entitled, CheckInitiation, Context
<1>4. frame.stamp < frame.stamp + 1
  BY <1>1, DrivingFacts
<1> QED
  BY <1>1, <1>2, <1>3, <1>4 DEF Admits, Envelope

(* EveryCallSucceeds follows from the invariant.                           *)
LEMMA EveryCallSucceedsFollows == ASSUME IInv, PolicyInv PROVE EveryCallSucceeds
<1> DEFINE c(effect) == Context(frame, latched, TRUE, effect)
<1>1. ASSUME Cancelling
      PROVE  active # Nobody /\ ~HasResult(active) /\ CancelContext.now >= lastNow
  <2>1. active # Nobody
    <3>1. CASE pc = "ABORT"
      BY <3>1 DEF PolicyInv, Agreeing
    <3>2. CASE pc \in {"REVOKE", "CANCEL"}
      BY <3>2, PolicyConstants
      DEF PolicyInv, Agreeing, Remembering, PolicyTypeOK, ActiveOptions
    <3> QED
      BY <1>1, <3>1, <3>2 DEF Cancelling
  <2>2. ~HasResult(active)
    BY <2>1 DEF IInv, Bookkeeping, HasResult
  <2>3. CancelContext.now >= lastNow
    BY <1>1, CancelContextFacts DEF IInv, TypeOK
  <2> QED
    BY <2>1, <2>2, <2>3
<1>2. ASSUME pc \in {"START", "OBSERVE"}
      PROVE  /\ counter + 1 \notin Known
             /\ active = Nobody
             /\ frame.stamp >= lastNow
             /\ choice.goal.inst \notin used
             /\ CheckInitiation(choice.goal, Context(frame, latched, FALSE, Nobody))
  BY <1>2, NewChoiceFacts DEF NewChoice, Entitled, IInv, TypeOK
<1>3. ASSUME pc \in {"MARK", "OBSERVE_MARK"}
      PROVE  /\ AwaitingPlan
             /\ frame.stamp >= lastNow
             /\ PlanVerdict(c(Nobody)) = "NONE"
  <2>1. /\ active # Nobody /\ instance.goal \in Goals /\ Entitled(instance.goal)
        /\ instance.goal.kind # "HOLD_SAFE"
        /\ frame.stamp >= lastNow
    BY <1>3, DrivingFacts, ObservingFacts DEF Driving, Observing
  <2>2. instance.phase \in {"PLANNING", "REPLANNING"}
    BY <1>3 DEF PolicyInv, Agreeing, Driving, Observing
  <2>3. Verdict(instance.goal, c(Nobody), FALSE) = "NONE" /\ c(Nobody).pathValid
    BY <2>1, EntitledGoalStands DEF Context
  <2> QED
    BY <2>1, <2>2, <2>3 DEF AwaitingPlan, PlanVerdict
<1>4. ASSUME pc \in {"REPLAN", "EFFECT"}
      PROVE  /\ active = mine.action
             /\ frame.stamp >= lastNow
             /\ TickVerdict(c(Nobody)) = "NONE"
             /\ TickVerdict(c(mine.inst)) = "SUCCESS"
  <2>1. pc \in Driving /\ instance.phase = "EXECUTING"
    BY <1>4 DEF PolicyInv, Agreeing, Driving
  <2>2. /\ Verdict(mine.goal, c(Nobody), TRUE) = "NONE"
        /\ CheckTermination(mine.goal, c(mine.goal.inst), TRUE) = "SUCCESS"
    BY <2>1, DrivingFacts, EntitledGoalStands
  <2>3. /\ instance.goal = mine.goal /\ mine.inst = mine.goal.inst
        /\ active = mine.action /\ frame.stamp >= lastNow
    BY <2>1, DrivingFacts
  <2> QED
    BY <2>1, <2>2, <2>3 DEF TickVerdict, Verdict
<1> QED
  BY <1>1, <1>2, <1>3, <1>4, CandidateAdmitted DEF EveryCallSucceeds

(* No call the policy makes of the authority in mid-frame is refused: the  *)
(* selector, the registry, the clocks and the ids of the two agree.        *)
THEOREM CallsSucceed == PolicySpec => []EveryCallSucceeds
  BY EveryCallSucceedsFollows, PolicyInvariance, PTL

(* RivalIsConfirmed follows from the invariant.                            *)
LEMMA RivalIsConfirmedFollows == ASSUME IInv, PolicyInv PROVE RivalIsConfirmed
<1>1. CASE pc = "START"
  <2>1. NewChoice /\ choice.key[1] = choice.kind
    BY <1>1, NewChoiceFacts DEF NewChoice
  <2> QED
    BY <1>1, <2>1 DEF NewChoice, RivalIsConfirmed, RivalSeen
<1>2. CASE pc \in Driving
  BY <1>2 DEF PolicyInv, Agreeing, RivalIsConfirmed, RivalSeen, Driving
<1> QED
  BY <1>1, <1>2 DEF RivalIsConfirmed, Driving

(* The robot starts or goes on with an option for or against the rival     *)
(* only in a frame that shows it, after as many sightings as confirm it.   *)
THEOREM RivalConfirmed == PolicySpec => []RivalIsConfirmed
  BY RivalIsConfirmedFollows, PolicyInvariance, PTL

(* After a stop, and without the clock the policy started with, only the   *)
(* cancellation of an option that is still held is under way.              *)
LEMMA StoppedFacts ==
    ASSUME IInv, PolicyInv, latched \/ epochLost
    PROVE  pc \notin Driving \cup Observing \cup {"START", "OBSERVE"}
<1>1. pc \in Driving \cup Observing \cup {"START", "OBSERVE"} => ~epochLost
  BY DEF PolicyInv, Handling, Deciding, Steps, Driving, Observing
<1>2. pc \in {"START", "OBSERVE"} => ~latched
  BY NewChoiceFacts DEF NewChoice, Entitled, CheckInitiation, Context, AuthorityAvailable
<1> QED
  BY <1>1, <1>2, DrivingFacts, ObservingFacts

(* A frame that arrives is no answer to one, and no call of the authority. *)
LEMMA ArrivalFacts ==
    ASSUME Frame
    PROVE  /\ command' # "MOVE"
           /\ latched' = latched
           /\ epochLost => epochLost'
           /\ UNCHANGED vars
<1>1. PICK t \in 1..LastStamp : \E f \in FramesAt(t) : Arrival(f)
  BY DEF Frame
<1>2. PICK f \in FramesAt(t) : Arrival(f)
  BY <1>1
<1>3. CASE Stop(f) /\ (epochLost => epochLost')
  BY <1>3 DEF Stop, authority, vars
<1>4. CASE Considered(f) /\ command' \in {"ZERO", "RAISED"}
  BY <1>4 DEF Considered, Punctual, authority, vars
<1> QED
  BY <1>2, <1>3, <1>4
  DEF Arrival, ClockEpochLost, OutOfOrder, Unusable, IdentityChanged, Punctual,
      FilterRaises, HoldRaises, Raises, ChooseHold, ChooseNew, ChooseCurrent,
      SelectorFails, SelectFrom

(* The robot moves only in answer to a frame that warrants it, and never   *)
(* again once it was told to stop or has lost its clock.                   *)
THEOREM MotionWarranted == PolicySpec => MotionIsWarranted
<1> DEFINE Warranted ==
              command # "MOVE" /\ command' = "MOVE" =>
                  /\ frame.shape.match /\ frame.shape.pose /\ frame.shape.coherent
                  /\ frame.shape.phase = "ACTIVE"
                  /\ frame.shape.motion /\ frame.shape.leaseValid
                  /\ frame.shape.ready /\ frame.shape.forward
                  /\ frame.stamp = lastStamp
                  /\ frame.stamp < frame.shape.stageEnds
                  /\ frame.shape.clock = clockEpoch
                  /\ mine.goal.epoch = <<clockEpoch, frame.shape.loc>>
                  /\ <<mine.goal.stage, frame.shape.loc, mine.goal.version>> = identity
                  /\ mine.inst \notin lease.cancelled
           Stopped ==
              latched \/ epochLost =>
                  /\ latched => latched'
                  /\ epochLost => epochLost'
                  /\ command' # "MOVE"
                  /\ used' = used
                  /\ lease'.authorized => lease.authorized
<1>1. ASSUME IInv, PolicyInv, PolicyNext PROVE Warranted
  <2> SUFFICES ASSUME command # "MOVE", command' = "MOVE" PROVE Warranted
    OBVIOUS
  <2>1. CandidateSupervised
    BY <1>1, ArrivalFacts
    DEF PolicyNext, Request, Acknowledge, StartAtCapacity, Start, Replan, Mark,
        CandidateRejected, CandidateStopped, Effect, Observe, ObserveMark, ObserveTick
  <2>2. pc = "CANDIDATE" /\ pc \in Driving /\ pc \in Deciding
    BY <2>1 DEF CandidateSupervised, Driving, Deciding, Steps
  <2>3. /\ Complete(frame) /\ frame.stamp = lastStamp
        /\ frame.shape.clock = clockEpoch /\ Identity(frame.shape) = identity
        /\ frame.shape.ready /\ frame.shape.forward
    BY <1>1, <2>2 DEF PolicyInv, Handling, Agreeing
  <2>4. /\ frame \in Frames /\ mine.goal \in Goals /\ mine.goal.kind = "MOVE"
        /\ Entitled(mine.goal)
    BY <1>1, <2>2, DrivingFacts
  <2>5. /\ mine.goal.stage = frame.shape.stage
        /\ mine.goal.epoch = <<frame.shape.clock, frame.shape.loc>>
        /\ mine.goal.version = frame.shape.version
        /\ frame.shape.phase = "ACTIVE"
        /\ frame.shape.motion /\ frame.shape.leaseValid
        /\ ~(frame.stamp >= frame.shape.stageEnds)
    BY <2>4 DEF Entitled, CheckInitiation, Context, DeadlineReached, AuthorityAvailable
  <2>6. frame.stamp < frame.shape.stageEnds
    BY <2>4, <2>5, FrameFacts DEF Shapes
  <2>7. mine.inst \notin lease.cancelled
    BY <1>1, <2>2, CandidateAdmitted DEF Admits, Envelope
  <2> QED
    BY <2>3, <2>5, <2>6, <2>7 DEF Complete, Identity
<1>2. ASSUME IInv, PolicyInv, PolicyNext PROVE Stopped
  <2> SUFFICES ASSUME latched \/ epochLost PROVE Stopped
    OBVIOUS
  <2>1. pc \notin Driving \cup Observing \cup {"START", "OBSERVE"}
    BY <1>2, StoppedFacts
  <2>2. Frame \/ Request \/ Acknowledge
    BY <1>2, <2>1
    DEF PolicyNext, StartAtCapacity, Start, Replan, Mark, CandidateRejected,
        CandidateSupervised, CandidateStopped, Effect, Observe, ObserveMark,
        ObserveTick, Driving, Observing
  <2>3. command # "MOVE"
    BY <1>2 DEF PolicyInv, Handling
  <2>4. CASE Frame
    BY <2>4, ArrivalFacts DEF vars
  <2>5. CASE Request
    <3>1. lease' = Revoked(lease, instance.goal.inst) /\ used' = used
      BY <2>5 DEF Request, RequestCancel
    <3>2. lease \in Leases
      BY <1>2 DEF IInv, TypeOK
    <3>3. lease'.authorized => lease.authorized
      BY <3>1, <3>2 DEF Revoked, Leases
    <3> QED
      BY <2>3, <2>5, <3>1, <3>3 DEF Request, Local
  <2>6. CASE Acknowledge
    <3>1. ~lease'.authorized /\ used' = used
      BY <1>2, <2>6, FinishFacts DEF Acknowledge, AcknowledgeCancel, Canceling
    <3> QED
      BY <2>3, <2>6, <3>1 DEF Acknowledge, Local
  <2> QED
    BY <2>2, <2>4, <2>5, <2>6
<1> HIDE DEF Warranted, Stopped
<1>3. IInv /\ PolicyInv /\ [PolicyNext]_policyVars => [Warranted]_policyVars
  BY <1>1
<1>4. IInv /\ PolicyInv /\ [PolicyNext]_policyVars => [Stopped]_policyVars
  BY <1>2
<1> QED
  BY <1>3, <1>4, PolicyInvariance, PTL
  DEF PolicySpec, MotionIsWarranted, MoveIsWarranted, StoppedForGood, Warranted, Stopped

-----------------------------------------------------------------------------
(* The policy is one of the clients OptionAuthority is specified for, if   *)
(* no snapshot is ruled out: whatever it does to the authority's state is  *)
(* one call of the authority, with the arguments that call allows.  Every  *)
(* theorem about Spec is then one about the policy: what the lease lets    *)
(* through is current, what it has fenced stays out, and every action id   *)
(* gets the one result it keeps.                                           *)
LEMMA PolicyCalls ==
    ASSUME Snapshots \subseteq Contexts, IInv, PolicyInv, PolicyNext
    PROVE  [Next]_vars
<1> DEFINE c(stop, path, effect) == Context(frame, stop, path, effect)
<1>1. CASE Frame
  BY <1>1, ArrivalFacts
<1>2. CASE Request \/ Acknowledge
  <2>1. CancelContext \in Contexts /\ 1 \in CancelTimeouts
    BY <1>2, CancelContextFacts, PolicyConstants DEF Request, Acknowledge
  <2> QED
    BY <1>2, <2>1 DEF Request, Acknowledge, Next
<1>3. CASE StartAtCapacity \/ Start \/ Observe
  <2>1. pc \in {"START", "OBSERVE"} /\ counter' = counter + 1 /\ latched \in BOOLEAN
    BY <1>3 DEF StartAtCapacity, Start, Observe, PolicyInv, PolicyTypeOK
  <2>2. /\ counter' \in Actions /\ choice.goal \in Goals
        /\ c(FALSE, TRUE, Nobody) \in Contexts
        /\ c(latched, FALSE, Nobody) \in Contexts
    BY <2>1, NewChoiceFacts, ContextIsSnapshot
  <2>3. \/ SubmitAtCapacity(counter', c(FALSE, TRUE, Nobody))
        \/ SubmitAccepted(counter', choice.goal, c(FALSE, TRUE, Nobody))
        \/ SubmitAccepted(counter', choice.goal, c(latched, FALSE, Nobody))
    BY <1>3 DEF StartAtCapacity, Start, Observe
  <2> HIDE DEF c
  <2> QED
    BY <2>2, <2>3 DEF Next
<1>4. CASE Replan \/ Mark \/ CandidateStopped \/ Effect
  <2>1. pc \in Driving
    BY <1>4 DEF Replan, Mark, CandidateStopped, Effect, Driving
  <2>2. /\ c(latched, TRUE, Nobody) \in Contexts
        /\ c(TRUE, TRUE, Nobody) \in Contexts
        /\ c(latched, TRUE, mine.inst) \in Contexts
    BY <2>1, DrivingFacts, ContextIsSnapshot
  <2>3. \/ BeginReplan(c(latched, TRUE, Nobody))
        \/ MarkExecuting(c(latched, TRUE, Nobody))
        \/ Tick(c(TRUE, TRUE, Nobody))
        \/ Tick(c(latched, TRUE, mine.inst))
    BY <1>4 DEF Replan, Mark, CandidateStopped, Effect
  <2> HIDE DEF c
  <2> QED
    BY <2>2, <2>3 DEF Next
<1>5. CASE CandidateRejected \/ CandidateSupervised
  BY <1>5 DEF CandidateRejected, CandidateSupervised, authority, vars
<1>6. CASE ObserveMark \/ ObserveTick
  <2>1. pc \in Observing
    BY <1>6 DEF ObserveMark, ObserveTick, Observing
  <2>2. /\ c(FALSE, TRUE, Nobody) \in Contexts
        /\ c(FALSE, TRUE, choice.inst) \in Contexts
    BY <2>1, ObservingFacts, ContextIsSnapshot
  <2>3. \/ MarkExecuting(c(FALSE, TRUE, Nobody))
        \/ Tick(c(FALSE, TRUE, choice.inst))
    BY <1>6 DEF ObserveMark, ObserveTick
  <2> HIDE DEF c
  <2> QED
    BY <2>2, <2>3 DEF Next
<1> QED
  BY <1>1, <1>2, <1>3, <1>4, <1>5, <1>6 DEF PolicyNext

THEOREM PolicyIsClient ==
    ASSUME Snapshots \subseteq Contexts
    PROVE  PolicySpec => Spec
<1>1. PolicyInit => Init
  BY DEF PolicyInit
<1>2. IInv /\ PolicyInv /\ [PolicyNext]_policyVars => [Next]_vars
  BY PolicyCalls DEF policyVars, authority, vars
<1> QED
  BY <1>1, <1>2, PolicyInvariance, PTL DEF PolicySpec, Spec
=============================================================================
