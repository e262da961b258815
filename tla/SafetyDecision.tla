---------------------------- MODULE SafetyDecision ----------------------------
(***************************************************************************)
(* How the safety supervisor comes to a decision: a snapshot is decoded    *)
(* from three records (hsl_safety/adapters.py) or put together by the      *)
(* policy (sim/kinematic/autonomous.py), time passes, and a tick of        *)
(* SupervisorRuntime has SafetySupervisor.evaluate judge it.               *)
(*                                                                         *)
(* Stage, epochs, versions, option and lease generation are compared one   *)
(* by one in the code; here one number, the identity, stands for all of    *)
(* them.  One clock counts for ROS time and for the steady clock.          *)
(*                                                                         *)
(* Speeds, distances and times are integers; a speed the code computes is  *)
(* rounded down.  Stopping distances are given multiplied by 2 * Braking,  *)
(* which makes the parabola of braking.py one of integers.                 *)
(***************************************************************************)
EXTENDS Integers

CONSTANTS
    Inputs,         \* what a snapshot may say: a view and the ages of its records
    CandidateLease, ObstacleLease, EgoLease, Budget, Skew,   \* TimingProfile
    Braking,        \* b_forward_min_mps2
    Response,       \* response_bound_s
    Acceleration,   \* acceleration_delay_mps2
    Margin,         \* clearance_margin_m
    SpeedMax, YawMax, LateralMax,
    HalfSeparation, \* wheel_separation_m / 2
    WheelSpeed,     \* max_wheel_rate_radps * wheel_radius_m
    RotationRadius, RotationMargin, RestTolerance, YawAcceleration, AlignYawMax,
    LastClock,       \* bound: the clock
    LastIdentity    \* bound: identities of a behaviour

Modes == {"HOLD", "TRACK_PATH", "ALIGN", "APPROACH_CAPTURE"}

(* Distances with their coverage: ahead, all around and along the arc.     *)
ViewType ==
    [v : Int, w : Int, ego : Int, egoTurn : Int, mode : Modes,
     ahead : Nat, aheadSeen : BOOLEAN, around : Nat, aroundSeen : BOOLEAN,
     arc : Nat, arcSeen : BOOLEAN, error : Nat, period : Nat]

(* Ages at the time of the snapshot, negative for a stamp in the future;   *)
(* life is what is left of the lease of the candidate, and behind by how   *)
(* many identities the candidate lags.                                     *)
AgeType ==
    [candidate : Int, obstacles : Int, ego : Int, life : Int, behind : Nat]

(* LimitsProfile and TimingProfile, and records that were published before *)
(* their lease ended.                                                      *)
ProfilesValid ==
    /\ {Braking, CandidateLease, ObstacleLease, EgoLease, Budget} \subseteq Nat \ {0}
    /\ HalfSeparation \in Nat \ {0}
    /\ {Response, Acceleration, Margin, SpeedMax, YawMax, LateralMax, WheelSpeed,
        RotationRadius, RotationMargin, RestTolerance, YawAcceleration, AlignYawMax,
        Skew} \subseteq Nat

ASSUME SafetyAssumption ==
    /\ ProfilesValid
    /\ Inputs \subseteq [view : ViewType, age : AgeType]
    /\ \A i \in Inputs : i.age.life + i.age.candidate > 0
    /\ LastClock \in Nat /\ LastIdentity \in Nat \ {0}

VARIABLES
    clock,        \* both clocks
    identity,   \* what is in force: epochs, versions, option and generation
    changedAt,  \* history: when identity changed last
    snapshot,   \* the snapshot of this cycle
    verdict     \* the evaluation of this cycle, with what it was made from

decisionVars == <<clock, identity, changedAt, snapshot, verdict>>

NoSnapshot == [received |-> -1]
NoVerdict == [decision |-> "NONE"]

DecisionInit ==
    /\ clock = 0
    /\ identity = 1
    /\ changedAt = 0
    /\ snapshot = NoSnapshot
    /\ verdict = NoVerdict

-----------------------------------------------------------------------------
(* Arithmetic of braking.py.                                               *)

Abs(x) == IF x < 0 THEN -x ELSE x
Least(S) == CHOOSE x \in S : \A y \in S : x <= y
Root(n) == CHOOSE r \in 0..n : r * r <= n /\ (r + 1) * (r + 1) > n

(* stopping_distance_accelerating                                          *)
StoppingDistance(v) ==
    2 * Braking * v * Response + Braking * Acceleration * Response * Response
        + (v + Acceleration * Response) * (v + Acceleration * Response)

(* The clearance behind the margin, in the unit of StoppingDistance.       *)
Effective(distance) ==
    IF distance > Margin THEN 2 * Braking * (distance - Margin) ELSE 0

(* admissible_speed: the robot keeps its speed during the delay.           *)
ConstantSpeedLimit(distance) ==
    IF Effective(distance) <= 0 THEN 0
    ELSE Least({SpeedMax,
                Root(Braking * Braking * Response * Response + Effective(distance))
                    - Braking * Response})

(* admissible_speed_accelerating                                           *)
AdmissibleSpeed(distance) ==
    IF Effective(distance) <= StoppingDistance(0) THEN 0
    ELSE Least({SpeedMax,
                Root(Braking * (Braking + Acceleration) * Response * Response
                        + Effective(distance))
                    - (Braking + Acceleration) * Response})

(* wheel_rates_within_limits, as speeds of the rims.                       *)
WheelsTurn(v, w) ==
    /\ Abs(v - w * HalfSeparation) <= WheelSpeed
    /\ Abs(v + w * HalfSeparation) <= WheelSpeed

(* The three limits of an arc of curvature w / v.                          *)
ArcSpeed(v, w) ==
    Least({Root((LateralMax * v) \div Abs(w)),
           (YawMax * v) \div Abs(w),
           (WheelSpeed * v) \div (v + Abs(w) * HalfSeparation)})

-----------------------------------------------------------------------------
(* A snapshot is made.                                                     *)

(* A cycle makes at most one snapshot and one decision.                    *)
Between == snapshot = NoSnapshot /\ verdict = NoVerdict

Snapshot(view, age, expected) ==
    [view |-> view, candidateAt |-> clock - age.candidate, until |-> clock + age.life,
     obstaclesAt |-> clock - age.obstacles, egoAt |-> clock - age.ego,
     identity |-> expected - age.behind, expected |-> expected, received |-> clock]

(* A decoder that does not look at the identity of the records.            *)
InForceOfAny(age) == age.candidate >= 0 /\ age.life > 0

(* _validate_meta, on the three records: published, in force, and of the   *)
(* identity that is expected; nothing is said of the other stamps.         *)
InForce(age) == age.candidate >= 0 /\ age.life > 0 /\ age.behind = 0

(* decode_safety_snapshot: the mode and the evidence of rotations and arcs *)
(* are not part of the records and keep their defaults.                    *)
Decoded(view) ==
    [view EXCEPT !.mode = "TRACK_PATH", !.egoTurn = 0, !.around = 0,
                 !.aroundSeen = FALSE, !.arc = 0, !.arcSeen = FALSE,
                 !.error = 0, !.period = 0]

Decode(view, age) ==
    /\ Between
    /\ snapshot' = IF InForce(age) THEN Snapshot(Decoded(view), age, identity)
                   ELSE NoSnapshot
    /\ UNCHANGED <<clock, identity, changedAt, verdict>>

(* _execute_candidate: the candidate has been admitted by the lease, and   *)
(* is judged at once.                                                      *)
Build(view, age) ==
    /\ Between
    /\ age.candidate = 0 /\ age.life > 0
    /\ age.behind < identity
    /\ snapshot' = Snapshot(view, age, identity)
    /\ UNCHANGED <<clock, identity, changedAt, verdict>>

-----------------------------------------------------------------------------
(* SafetySupervisor.evaluate                                               *)

Late(s, t) == t - s.received > Budget

OutOfDate(s, t) ==
    \/ s.received > t + Skew
    \/ s.candidateAt > t \/ t - s.candidateAt > CandidateLease \/ t >= s.until
    \/ s.obstaclesAt > t \/ t - s.obstaclesAt > ObstacleLease
    \/ s.egoAt > t \/ t - s.egoAt > EgoLease

Foreign(s) == s.identity # s.expected

Uncovered(view) ==
    ~view.aheadSeen \/ (view.mode = "ALIGN" /\ ~view.aroundSeen)

(* _validation_reasons is not empty.                                       *)
Invalid(s, t) ==
    OutOfDate(s, t) \/ Foreign(s) \/ Uncovered(s.view) \/ s.view.v < 0 \/ s.view.ego < 0

(* _evaluate_align, up to ADMIT.                                           *)
MayAlign(view) ==
    /\ view.v = 0
    /\ Abs(view.ego) <= RestTolerance
    /\ view.aroundSeen
    /\ RotationRadius > 0 /\ RotationMargin > 0 /\ RestTolerance > 0
    /\ YawAcceleration > 0 /\ view.period > 0
    /\ view.around >= RotationRadius + view.error + RotationMargin
    /\ Abs(view.w) <= Least({YawMax, IF AlignYawMax > 0 THEN AlignYawMax ELSE YawMax})
    /\ WheelsTurn(0, view.w)
    /\ Abs(view.w - view.egoTurn) <= YawAcceleration * view.period

Curved(view) == view.w # 0

Clearance(view) == IF Curved(view) THEN view.arc ELSE view.ahead

(* The ladder of evaluate, up to the choice between ADMIT and LIMIT.       *)
MayTrack(view) ==
    /\ Curved(view) => view.v > 0 /\ LateralMax > 0 /\ view.arcSeen
    /\ ~Curved(view) => WheelsTurn(view.v, 0)
    /\ StoppingDistance(view.ego) <= Effective(Clearance(view))

SafeSpeed(view) ==
    IF Curved(view)
    THEN Least({AdmissibleSpeed(Clearance(view)), ArcSpeed(view.v, view.w)})
    ELSE AdmissibleSpeed(Clearance(view))

Verdict(decision, v, s, t) ==
    [decision |-> decision, v |-> v, of |-> s, at |-> t]

(* v is the applied speed; a LIMIT keeps the curvature of the candidate.   *)
Evaluate(s, t) ==
    CASE Late(s, t) \/ Invalid(s, t) -> Verdict("STOP", 0, s, t)
      [] ~Late(s, t) /\ ~Invalid(s, t) /\ s.view.mode = "ALIGN" ->
            Verdict(IF MayAlign(s.view) THEN "ADMIT" ELSE "STOP", 0, s, t)
      [] OTHER ->
            IF ~MayTrack(s.view) THEN Verdict("STOP", 0, s, t)
            ELSE IF s.view.v <= SafeSpeed(s.view) THEN Verdict("ADMIT", s.view.v, s, t)
            ELSE Verdict("LIMIT", SafeSpeed(s.view), s, t)

(* SupervisorRuntime.tick: whatever is missing or raises makes a STOP.     *)
DecisionTick(healthy) ==
    /\ verdict = NoVerdict
    /\ verdict' = IF snapshot = NoSnapshot \/ ~healthy
                  THEN Verdict("STOP", 0, snapshot, clock)
                  ELSE Evaluate(snapshot, clock)
    /\ snapshot' = NoSnapshot
    /\ UNCHANGED <<clock, identity, changedAt>>

(* The decision has been published and the next cycle begins.              *)
NextCycle ==
    /\ verdict # NoVerdict
    /\ verdict' = NoVerdict
    /\ UNCHANGED <<clock, identity, changedAt, snapshot>>

DecisionTime ==
    /\ clock < LastClock
    /\ clock' = clock + 1
    /\ UNCHANGED <<identity, changedAt, snapshot, verdict>>

(* A new epoch, version, option or generation.                             *)
IdentityChanges ==
    /\ identity < LastIdentity
    /\ identity' = identity + 1
    /\ changedAt' = clock
    /\ UNCHANGED <<clock, snapshot, verdict>>

DecisionNext ==
    \/ \E i \in Inputs : Decode(i.view, i.age) \/ Build(i.view, i.age)
    \/ \E healthy \in BOOLEAN : DecisionTick(healthy)
    \/ NextCycle
    \/ DecisionTime
    \/ IdentityChanges

DecisionSpec == DecisionInit /\ [][DecisionNext]_decisionVars

-----------------------------------------------------------------------------
Moves == verdict.decision \in {"ADMIT", "LIMIT"}

(* The identity is compared when the snapshot is made and not again.  A    *)
(* decision that still lets the robot move for a revoked option, or in an  *)
(* epoch or version that is gone, comes within the processing budget after *)
(* the change, and from evidence that is in force when it is made.         *)
RevocationIsSeen ==
    Moves =>
        /\ verdict.of.identity # identity /\ changedAt <= verdict.at
              => verdict.at - changedAt <= Budget
        /\ verdict.at < verdict.of.until
        /\ verdict.at - verdict.of.candidateAt \in 0..CandidateLease
        /\ verdict.at - verdict.of.obstaclesAt \in 0..ObstacleLease
        /\ verdict.at - verdict.of.egoAt \in 0..EgoLease

(* A robot that is let move can stop: from the speed it has and from the   *)
(* speed it is given, the distance it needs is inside the clearance that   *)
(* was seen where it is heading, less the margin; on an arc it keeps the   *)
(* lateral, yaw and wheel limits; it turns on the spot only at rest and    *)
(* clear all around.                                                       *)
MotionFits ==
    Moves =>
        LET view == verdict.of.view
            v == verdict.v
        IN  IF view.mode = "ALIGN"
            THEN /\ v = 0 /\ Abs(view.ego) <= RestTolerance
                 /\ view.aroundSeen
                 /\ view.around > RotationRadius + view.error
                 /\ Abs(view.w) <= YawMax
            ELSE /\ v \in (0..view.v) \cap (0..SpeedMax)
                 /\ StoppingDistance(v) <= Effective(Clearance(view))
                 /\ StoppingDistance(view.ego) <= Effective(Clearance(view))
                 /\ Curved(view) =>
                       /\ view.arcSeen
                       /\ v * v * Abs(view.w) <= LateralMax * view.v
                       /\ v * Abs(view.w) <= YawMax * view.v
                       /\ v * (view.v + Abs(view.w) * HalfSeparation)
                             <= WheelSpeed * view.v

(* The robot is let move only by a permission that is in force, and only   *)
(* where it can stop.                                                      *)
MotionIsEntitled == RevocationIsSeen /\ MotionFits
=============================================================================
