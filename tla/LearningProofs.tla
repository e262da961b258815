-------------------------- MODULE LearningProofs --------------------------
(***************************************************************************)
(* Theorems about the episodes tactics are bred on, the search that breeds *)
(* them, the fusion of states and the values of recorded options.          *)
(*                                                                         *)
(* An episode has one result, whatever the two policies command, for every *)
(* period, freeze and length.  DuelIsOne is about the end; DuelInv is what *)
(* holds on the way there: the stamp is that of full steps, inside the     *)
(* stage, and both managers were told it and nothing else, so that each    *)
(* still has the outcome that time alone gives (OpenAt), also when a robot *)
(* fails the episode.                                                      *)
(*                                                                         *)
(* A policy that is written was supported by the trials of its own run.    *)
(* SearchInv adds that the finalist already was better in training, that   *)
(* its mean is never negative, and that nothing is validated or selected   *)
(* before the last population is evaluated.  What is chosen by the sums of *)
(* either role must be shown to be better in the sum of the balances, so   *)
(* totals must be shown to add up (TotalAdds).                             *)
(*                                                                         *)
(* Two states are one exactly if nothing that can come of them tells them  *)
(* apart.  What a kernel is worth is summed over its endings, what states  *)
(* are compared by is summed over classes: WorthIs exchanges the sums.     *)
(*                                                                         *)
(* A value lies between outcomes that the training records show.  The code *)
(* integrates rewards segment by segment, the reference adds them up tick  *)
(* by tick (SegmentsAddUp).  LearningInv says of every value, at every     *)
(* number of backups, between which outcomes it lies; outcomes only grow   *)
(* with the number of backups (OutcomesAre), so that what was learned      *)
(* earlier stays among them.                                               *)
(***************************************************************************)
EXTENDS Duel, PolicySearch, OptionLearning, OptionFusion, FiniteSetTheorems, WellFoundedInduction,
        TLAPS

-----------------------------------------------------------------------------
(* The episode of two robots.                                              *)

LEMMA DuelFacts ==
    /\ Period \in Nat /\ FreezeTime \in Nat /\ EpisodeTime \in Nat /\ MatchLease \in Nat
    /\ Period > 0 /\ FreezeTime > 0 /\ FreezeTime < EpisodeTime
    /\ MaxSteps \in Nat /\ (MaxSteps - 1) * Period >= EpisodeTime
  BY DuelAssumption DEF ConfigValid

(* The outcome of a stage that nothing but time has touched.               *)
UndecidedIn(ph) ==
    [phase |-> ph, hold |-> FALSE, held |-> Nothing, kind |-> "NONE", evidence |-> "ESTIMATE"]

OpenAt(t) == UndecidedIn(IF t >= FreezeTime THEN "ACTIVE" ELSE "FREEZE")

(* A manager that was told nothing but the time t.                         *)
GuardianUntold(t) == gNow = t /\ gOutcome = OpenAt(t) /\ gOfficials = {} /\ gAccepted = {}
ExplorerUntold(t) == eNow = t /\ eOutcome = OpenAt(t) /\ eOfficials = {} /\ eAccepted = {}

(* While the episode goes on, the stamp is that of full steps and inside   *)
(* the stage, and both managers have been told it and nothing else.        *)
Going ==
    /\ stamp < EpisodeTime
    /\ stamp = steps * Period
    /\ result = "NONE"
    /\ GuardianUntold(stamp) /\ ExplorerUntold(stamp)

DuelInv ==
    /\ phase \in {"BEGIN", "END", "OVER"}
    /\ stamp \in Nat /\ steps \in Nat
    /\ phase # "OVER" => Going
    /\ phase = "END" /\ commands # Still =>
          stamp >= FreezeTime /\ stamp + StepTime <= EpisodeTime
    /\ phase = "OVER" =>
          \/ /\ result \in {"CAPTURE", "TIMEOUT"}
             /\ gOutcome.kind = result /\ eOutcome.kind = result
          \/ /\ result = "FAULT"
             /\ gOutcome.kind = "NONE" /\ eOutcome.kind = "NONE"

(* What time makes of a stage that was told nothing else.                  *)
LEMMA GuardianTime ==
    ASSUME NEW s \in Nat, NEW t \in Nat, s <= t, s < EpisodeTime
    PROVE  Guardian!AtTime(OpenAt(s), 0, t) =
              IF t >= EpisodeTime THEN Guardian!Decided("TIMEOUT", "ESTIMATE") ELSE OpenAt(t)
<1> DEFINE o == OpenAt(s)
<1>1. /\ o.phase = (IF s >= FreezeTime THEN "ACTIVE" ELSE "FREEZE") /\ o.hold = FALSE
      /\ o = UndecidedIn(o.phase)
  BY DEF OpenAt, UndecidedIn
<1>2. CASE t >= EpisodeTime
  <2>1. Guardian!PastDeadline(o, 0, t) /\ ~Guardian!PastFreeze(o, 0, t)
    BY <1>1, <1>2, DuelFacts DEF Guardian!PastDeadline, Guardian!PastFreeze
  <2> QED
    BY <1>2, <2>1 DEF Guardian!AtTime, Guardian!TimedOut
<1>3. CASE t < EpisodeTime /\ s < FreezeTime /\ t >= FreezeTime
  <2>1. ~Guardian!PastDeadline(o, 0, t) /\ Guardian!PastFreeze(o, 0, t)
    BY <1>1, <1>3, DuelFacts DEF Guardian!PastDeadline, Guardian!PastFreeze
  <2>2. [o EXCEPT !.phase = "ACTIVE"] = OpenAt(t)
    <3>1. o = UndecidedIn("FREEZE") /\ OpenAt(t) = UndecidedIn("ACTIVE")
      BY <1>3, DuelFacts DEF OpenAt
    <3>2. [UndecidedIn("FREEZE") EXCEPT !.phase = "ACTIVE"] = UndecidedIn("ACTIVE")
      <4>1. \A h, n : LET u == [phase |-> "FREEZE", hold |-> h, held |-> n, kind |-> "NONE",
                                evidence |-> "ESTIMATE"]
                     IN  [u EXCEPT !.phase = "ACTIVE"] =
                            [phase |-> "ACTIVE", hold |-> h, held |-> n, kind |-> "NONE",
                             evidence |-> "ESTIMATE"]
        BY SMT
      <4> QED
        BY <4>1, Zenon DEF UndecidedIn
    <3> QED
      BY <3>1, <3>2, Zenon
  <2> QED
    BY <1>3, <2>1, <2>2, DuelFacts DEF Guardian!AtTime
<1>4. CASE t < EpisodeTime /\ (s >= FreezeTime \/ t < FreezeTime)
  <2>1. ~Guardian!PastDeadline(o, 0, t) /\ ~Guardian!PastFreeze(o, 0, t)
    BY <1>1, <1>4, DuelFacts DEF Guardian!PastDeadline, Guardian!PastFreeze
  <2>2. o = OpenAt(t)
    BY <1>4, DuelFacts DEF OpenAt
  <2> QED
    BY <1>4, <2>1, <2>2, DuelFacts DEF Guardian!AtTime
<1> QED
  BY <1>2, <1>3, <1>4, DuelFacts

(* The two managers are of one kind.                                       *)
LEMMA SameTime ==
    ASSUME NEW o, NEW s, NEW t
    PROVE  Explorer!AtTime(o, s, t) = Guardian!AtTime(o, s, t)
  BY DEF Explorer!AtTime, Explorer!PastDeadline, Explorer!PastFreeze, Explorer!TimedOut,
         Explorer!Decided,
         Guardian!AtTime, Guardian!PastDeadline, Guardian!PastFreeze, Guardian!TimedOut,
         Guardian!Decided

(* What both managers hold after they were told the time.                  *)
BothTold(t) ==
    /\ gNow' = t /\ gOutcome' = OpenAt(t) /\ gOfficials' = {} /\ gAccepted' = {}
    /\ eNow' = t /\ eOutcome' = OpenAt(t) /\ eOfficials' = {} /\ eAccepted' = {}

LEMMA SnapshotsTell ==
    ASSUME NEW s \in Nat, s < EpisodeTime, GuardianUntold(s), ExplorerUntold(s),
           NEW t, Snapshots(t)
    PROVE  /\ t \in Nat /\ s <= t
           /\ t < EpisodeTime => BothTold(t)
           /\ t >= EpisodeTime =>
                 /\ gOutcome' = Guardian!Decided("TIMEOUT", "ESTIMATE")
                 /\ eOutcome' = Guardian!Decided("TIMEOUT", "ESTIMATE")
<1>1. /\ t \in s..(EpisodeTime + Period)
      /\ gNow' = t /\ gOutcome' = Guardian!AtTime(OpenAt(s), 0, t)
      /\ gOfficials' = {} /\ gAccepted' = {}
  BY DEF Snapshots, Guardian!Snapshot, Guardian!evidence, GuardianUntold
<1>2. /\ eNow' = t /\ eOutcome' = Explorer!AtTime(OpenAt(s), 0, t)
      /\ eOfficials' = {} /\ eAccepted' = {}
  BY DEF Snapshots, Explorer!Snapshot, Explorer!evidence, ExplorerUntold
<1>3. t \in Nat /\ s <= t
  BY <1>1, DuelFacts
<1>4. Guardian!AtTime(OpenAt(s), 0, t) =
         IF t >= EpisodeTime THEN Guardian!Decided("TIMEOUT", "ESTIMATE") ELSE OpenAt(t)
  BY <1>3, GuardianTime
<1>5. Explorer!AtTime(OpenAt(s), 0, t) = Guardian!AtTime(OpenAt(s), 0, t)
  BY SameTime
<1>6. t >= EpisodeTime =>
         /\ gOutcome' = Guardian!Decided("TIMEOUT", "ESTIMATE")
         /\ eOutcome' = Guardian!Decided("TIMEOUT", "ESTIMATE")
  BY <1>1, <1>2, <1>4, <1>5
<1>7. t < EpisodeTime => gOutcome' = OpenAt(t) /\ eOutcome' = OpenAt(t)
  <2>1. t < EpisodeTime => ~(t >= EpisodeTime)
    BY <1>3, DuelFacts
  <2> QED
    BY <1>1, <1>2, <1>4, <1>5, <2>1
<1> QED
  BY <1>1, <1>2, <1>3, <1>6, <1>7 DEF BothTold

(* A capture that is recorded alone decides.                               *)
LEMMA LoneCaptureDecides ==
    ASSUME NEW o, NEW end
    PROVE  LET e == CaptureOf(end)
           IN  /\ Guardian!Adjudicated(o, {e}, {}).kind = "CAPTURE"
               /\ Guardian!Adjudicated(o, {e}, {}).phase = "TERMINAL"
               /\ Explorer!Adjudicated(o, {e}, {}).kind = "CAPTURE"
               /\ Explorer!Adjudicated(o, {e}, {}).phase = "TERMINAL"
<1> DEFINE e == CaptureOf(end)
<1>1. e.kind = "CAPTURE"
  BY DEF CaptureOf
<1> HIDE DEF e
<1>2. Guardian!Conflicts({e} \cup {}) = {} /\ Explorer!Conflicts({e} \cup {}) = {}
  BY DEF Guardian!Conflicts, Explorer!Conflicts
<1>3. Guardian!Earliest({e}) = e /\ Explorer!Earliest({e}) = e
  BY DEF Guardian!Earliest, Explorer!Earliest
<1>4. /\ Guardian!Adjudicated(o, {e}, {}) = Guardian!Decided("CAPTURE", Guardian!Strongest({e}))
      /\ Explorer!Adjudicated(o, {e}, {}) = Explorer!Decided("CAPTURE", Explorer!Strongest({e}))
  BY <1>1, <1>2, <1>3 DEF Guardian!Adjudicated, Explorer!Adjudicated
<1> QED
  BY <1>4 DEF Guardian!Decided, Explorer!Decided, e

LEMMA DuelInvAtFirst ==
    DuelInit => DuelInv
<1> SUFFICES ASSUME DuelInit PROVE DuelInv
  OBVIOUS
<1>1. Guardian!Undecided("FREEZE") = OpenAt(0) /\ Explorer!Undecided("FREEZE") = OpenAt(0)
  <2>1. OpenAt(0) = UndecidedIn("FREEZE")
    BY DuelFacts DEF OpenAt
  <2>2. /\ Guardian!Undecided("FREEZE") = UndecidedIn("FREEZE")
        /\ Explorer!Undecided("FREEZE") = UndecidedIn("FREEZE")
    BY Zenon DEF Guardian!Undecided, Explorer!Undecided, UndecidedIn
  <2> QED
    BY <2>1, <2>2
<1>2. Guardian!AtTime(OpenAt(0), 0, 0) = OpenAt(0)
  BY GuardianTime, DuelFacts
<1>3. GuardianUntold(0) /\ ExplorerUntold(0)
  BY <1>1, <1>2, SameTime DEF DuelInit, GuardianUntold, ExplorerUntold
<1>4. Going
  BY <1>3, DuelFacts DEF DuelInit, Going
<1> QED
  BY <1>4 DEF DuelInit, DuelInv

LEMMA StepTimeFacts ==
    ASSUME DuelInv, stamp < EpisodeTime
    PROVE  /\ StepTime \in Nat /\ StepTime > 0 /\ StepTime <= Period
           /\ stamp + StepTime <= EpisodeTime
           /\ stamp + StepTime < EpisodeTime => StepTime = Period
  BY DuelFacts DEF DuelInv, StepTime

(* There is always a step left.                                            *)
LEMMA StepsLeft ==
    ASSUME DuelInv, Going
    PROVE  steps < MaxSteps
<1>1. steps \in Nat /\ stamp < EpisodeTime /\ stamp = steps * Period
  BY DEF DuelInv, Going
<1>2. ASSUME steps >= MaxSteps - 1 PROVE FALSE
  <2>1. steps = (MaxSteps - 1) + (steps - (MaxSteps - 1)) /\ steps - (MaxSteps - 1) \in Nat
    BY <1>1, <1>2, DuelFacts
  <2>2. steps * Period = (MaxSteps - 1) * Period + (steps - (MaxSteps - 1)) * Period
    BY <1>1, <2>1, DuelFacts
  <2>3. (steps - (MaxSteps - 1)) * Period \in Nat /\ (MaxSteps - 1) * Period \in Int
    BY <2>1, DuelFacts
  <2> QED
    BY <1>1, <2>2, <2>3, DuelFacts
<1> QED
  BY <1>1, <1>2, DuelFacts

LEMMA BeginStepStep ==
    ASSUME DuelInv, NEW wanted \in Commands, NEW answered \in BOOLEAN,
           BeginStep(wanted, answered)
    PROVE  DuelInv'
<1>1. Going /\ stamp \in Nat /\ steps \in Nat /\ UNCHANGED <<stamp, steps>>
  BY DEF BeginStep, DuelInv
<1>2. stamp < EpisodeTime /\ stamp = steps * Period /\ result = "NONE"
  BY <1>1 DEF Going
<1>3. ~(steps >= MaxSteps) /\ ~(stamp >= EpisodeTime)
  BY <1>1, <1>2, StepsLeft, DuelFacts
<1>4. Snapshots(stamp)
  BY <1>3 DEF BeginStep
<1>5. GuardianUntold(stamp)' /\ ExplorerUntold(stamp)'
  <2>1. GuardianUntold(stamp) /\ ExplorerUntold(stamp)
    BY <1>1 DEF Going
  <2>2. BothTold(stamp)
    BY <1>1, <1>2, <1>4, <2>1, SnapshotsTell
  <2> QED
    BY <1>1, <2>2 DEF BothTold, GuardianUntold, ExplorerUntold, OpenAt
<1>6. Coherent'
  BY <1>5 DEF Coherent, GuardianUntold, ExplorerUntold
<1> DEFINE given == IF /\ AuthorizedUntil(gOutcome', stamp + StepTime)
                       /\ AuthorizedUntil(eOutcome', stamp + StepTime)
                    THEN wanted ELSE Still
<1>7. \/ Fault
      \/ phase' = "END" /\ commands' = given /\ UNCHANGED result
  BY <1>3, <1>6 DEF BeginStep
<1>8. gOutcome' = OpenAt(stamp) /\ eOutcome' = OpenAt(stamp)
  BY <1>1, <1>5 DEF GuardianUntold, ExplorerUntold, OpenAt
<1>9. CASE Fault
  <2>1. gOutcome'.kind = "NONE" /\ eOutcome'.kind = "NONE"
    BY <1>8 DEF OpenAt, UndecidedIn
  <2> QED
    BY <1>1, <1>9, <2>1 DEF DuelInv, Fault
<1>10. CASE phase' = "END" /\ commands' = given /\ UNCHANGED result
  <2>1. commands' # Still => stamp >= FreezeTime /\ stamp + StepTime <= EpisodeTime
    <3>1. commands' # Still => gOutcome'.phase = "ACTIVE" /\ stamp + StepTime <= EpisodeTime
      BY <1>10 DEF AuthorizedUntil
    <3>2. gOutcome'.phase = "ACTIVE" => stamp >= FreezeTime
      BY <1>8 DEF OpenAt, UndecidedIn
    <3> QED
      BY <3>1, <3>2
  <2>2. Going'
    BY <1>1, <1>2, <1>5, <1>10 DEF Going
  <2> QED
    BY <1>1, <1>10, <2>1, <2>2 DEF DuelInv, StepTime
<1> QED
  BY <1>7, <1>9, <1>10

LEMMA ClockFailsStep ==
    ASSUME DuelInv, ClockFails
    PROVE  DuelInv'
<1>1. Going /\ stamp \in Nat /\ steps \in Nat
  BY DEF ClockFails, DuelInv
<1>2. /\ phase' = "OVER" /\ result' = "FAULT"
      /\ gOutcome' = OpenAt(stamp) /\ eOutcome' = OpenAt(stamp)
  BY <1>1 DEF ClockFails, Fault, Going, GuardianUntold, ExplorerUntold, gVars, eVars
<1>3. gOutcome'.kind = "NONE" /\ eOutcome'.kind = "NONE"
  BY <1>2 DEF OpenAt, UndecidedIn
<1> QED
  BY <1>1, <1>2, <1>3 DEF ClockFails, DuelInv

LEMMA EndStepStep ==
    ASSUME DuelInv, NEW captured \in BOOLEAN, EndStep(captured)
    PROVE  DuelInv'
<1> DEFINE end == stamp + StepTime
<1>1. /\ Going /\ stamp \in Nat /\ steps \in Nat
      /\ stamp' = end /\ steps' = steps + 1 /\ commands' = commands
  BY DEF EndStep, DuelInv
<1>2. stamp < EpisodeTime /\ stamp = steps * Period /\ result = "NONE"
  BY <1>1 DEF Going
<1>3. /\ end \in Nat /\ stamp <= end /\ end <= EpisodeTime
      /\ end < EpisodeTime => StepTime = Period
  BY <1>1, <1>2, StepTimeFacts, DuelFacts
<1>4. steps' \in Nat /\ stamp' \in Nat
  BY <1>1, <1>3
<1>5. GuardianUntold(stamp) /\ ExplorerUntold(stamp)
  BY <1>1 DEF Going
<1>6. CASE Counts(captured, end)
  <2> DEFINE e == CaptureOf(end)
  <2>1. Capture(end) /\ stamp >= FreezeTime /\ end < EpisodeTime
    BY <1>6 DEF EndStep, Counts
  <2>2. /\ e.id = end /\ e.stage = 1 /\ e.epoch = 1 /\ e.kind = "CAPTURE"
        /\ e.evidence = "SIM_TRUTH" /\ e.lower = stamp /\ e.upper = end
    BY DEF CaptureOf
  <2> HIDE DEF e, end
  <2>3. OpenAt(stamp).phase = "ACTIVE"
    BY <2>1 DEF OpenAt, UndecidedIn
  <2>4. Guardian!Cardinality({}) = 0 /\ Explorer!Cardinality({}) = 0
    <3>1. /\ Guardian!Cardinality({}) = Cardinality({})
          /\ Explorer!Cardinality({}) = Cardinality({})
      BY DEF Guardian!Cardinality, Explorer!Cardinality, Cardinality
    <3> QED
      BY <3>1, FS_EmptySet
  <2>5. end \in stamp..(EpisodeTime + Period)
    BY <1>1, <1>3, DuelFacts
  <2>6. Guardian!Admissible(e, end)
    <3>1. /\ end \in gNow..(EpisodeTime + Period) /\ gOutcome.phase # "INIT"
          /\ gAccepted = {} /\ Guardian!Cardinality(gAccepted) < 16
      BY <1>5, <2>3, <2>4, <2>5 DEF GuardianUntold
    <3>2. /\ e.lower >= Guardian!FreezeEnds /\ e.upper <= end /\ e.upper < Guardian!StageEnds
      BY <1>1, <1>3, <2>1, <2>2, DuelFacts DEF Guardian!FreezeEnds, Guardian!StageEnds
    <3> QED
      BY <2>2, <3>1, <3>2 DEF Guardian!Admissible
  <2>7. Explorer!Admissible(e, end)
    <3>1. /\ end \in eNow..(EpisodeTime + Period) /\ eOutcome.phase # "INIT"
          /\ eAccepted = {} /\ Explorer!Cardinality(eAccepted) < 16
      BY <1>5, <2>3, <2>4, <2>5 DEF ExplorerUntold
    <3>2. /\ e.lower >= Explorer!FreezeEnds /\ e.upper <= end /\ e.upper < Explorer!StageEnds
      BY <1>1, <1>3, <2>1, <2>2, DuelFacts DEF Explorer!FreezeEnds, Explorer!StageEnds
    <3> QED
      BY <2>2, <3>1, <3>2 DEF Explorer!Admissible
  <2>8. /\ Guardian!RecordOfficial(e, end) /\ Explorer!RecordOfficial(e, end)
        /\ phase' = "OVER" /\ result' = "CAPTURE"
    BY <2>1, <2>6, <2>7 DEF Capture, e
  <2>9. gOutcome'.kind = "CAPTURE"
    <3>1. gOfficials' = {e}
      BY <1>5, <2>8 DEF Guardian!RecordOfficial, GuardianUntold
    <3> DEFINE a == Guardian!Adjudicated(Guardian!Opened(end), {e}, {})
    <3>2. gOutcome' = Guardian!AtTime(a, 0, end)
      BY <2>8, <3>1 DEF Guardian!RecordOfficial, Guardian!Accept
    <3>3. a.phase = "TERMINAL" /\ a.kind = "CAPTURE"
      BY LoneCaptureDecides DEF e
    <3> HIDE DEF a
    <3>4. Guardian!AtTime(a, 0, end) = a
      BY <3>3 DEF Guardian!AtTime, Guardian!PastDeadline, Guardian!PastFreeze
    <3> QED
      BY <3>2, <3>3, <3>4
  <2>10. eOutcome'.kind = "CAPTURE"
    <3>1. eOfficials' = {e}
      BY <1>5, <2>8 DEF Explorer!RecordOfficial, ExplorerUntold
    <3> DEFINE a == Explorer!Adjudicated(Explorer!Opened(end), {e}, {})
    <3>2. eOutcome' = Explorer!AtTime(a, 0, end)
      BY <2>8, <3>1 DEF Explorer!RecordOfficial, Explorer!Accept
    <3>3. a.phase = "TERMINAL" /\ a.kind = "CAPTURE"
      BY LoneCaptureDecides DEF e
    <3> HIDE DEF a
    <3>4. Explorer!AtTime(a, 0, end) = a
      BY <3>3 DEF Explorer!AtTime, Explorer!PastDeadline, Explorer!PastFreeze
    <3> QED
      BY <3>2, <3>3, <3>4
  <2> QED
    BY <1>4, <2>8, <2>9, <2>10 DEF DuelInv
<1>7. CASE ~Counts(captured, end)
  <2>1. ReadVerdict(end)
    BY <1>7 DEF EndStep
  <2>2. Snapshots(end)
    BY <2>1 DEF ReadVerdict
  <2> DEFINE timeout == Guardian!Decided("TIMEOUT", "ESTIMATE")
  <2>3. timeout.phase = "TERMINAL" /\ timeout.kind = "TIMEOUT"
    BY DEF Guardian!Decided
  <2> HIDE DEF timeout, end
  <2>4. CASE end >= EpisodeTime
    <3>1. gOutcome' = timeout /\ eOutcome' = timeout
      BY <1>1, <1>2, <1>5, <2>2, <2>4, SnapshotsTell DEF timeout
    <3>2. phase' = "OVER" /\ result' = "TIMEOUT"
      BY <2>1, <2>3, <3>1 DEF ReadVerdict, Diverged
    <3> QED
      BY <1>4, <2>3, <3>1, <3>2 DEF DuelInv
  <2>5. CASE end < EpisodeTime
    <3>1. BothTold(end)
      BY <1>1, <1>2, <1>5, <2>2, <2>5, SnapshotsTell
    <3>2. /\ gNow' = stamp' /\ gOutcome' = OpenAt(stamp') /\ gOfficials' = {} /\ gAccepted' = {}
          /\ eNow' = stamp' /\ eOutcome' = OpenAt(stamp') /\ eOfficials' = {} /\ eAccepted' = {}
      BY <3>1, <1>1 DEF BothTold
    <3>3. OpenAt(stamp').phase # "TERMINAL" /\ OpenAt(stamp').kind = "NONE"
      BY DEF OpenAt, UndecidedIn
    <3>4. phase' = "BEGIN" /\ result' = result
      BY <2>1, <3>2, <3>3 DEF ReadVerdict, Diverged
    <3>5. stamp' = steps' * Period
      BY <1>1, <1>2, <1>3, <2>5, DuelFacts DEF end
    <3>6. Going'
      BY <1>1, <1>2, <2>5, <3>2, <3>4, <3>5 DEF Going, GuardianUntold, ExplorerUntold, OpenAt
    <3> QED
      BY <1>4, <3>4, <3>6 DEF DuelInv
  <2> QED
    BY <1>3, <2>4, <2>5, DuelFacts
<1> QED
  BY <1>6, <1>7

LEMMA DuelInvIsInductive ==
    DuelInv /\ [DuelNext]_duelVars => DuelInv'
<1>1. DuelInv /\ UNCHANGED duelVars => DuelInv'
  BY DEF DuelInv, Going, GuardianUntold, ExplorerUntold, OpenAt, StepTime, duelVars,
         gVars, eVars
<1> QED
  BY <1>1, BeginStepStep, ClockFailsStep, EndStepStep DEF DuelNext

LEMMA DuelInvariance ==
    DuelSpec => []DuelInv
  BY DuelInvAtFirst, DuelInvIsInductive, PTL DEF DuelSpec

(* Whatever the policies command and the referee sees, in steps of any     *)
(* length: the two managers and the runner agree on the result, no command *)
(* is given outside the active part of the stage, and what they say of the *)
(* stage never makes run_episode raise; only the fault of a robot does.    *)
THEOREM DuelCorrect ==
    DuelSpec => [](DuelIsOne /\ result # "RAISED")
<1>1. ASSUME DuelInv PROVE DuelIsOne /\ result # "RAISED"
  <2>1. CASE phase = "OVER"
    BY <1>1, <2>1 DEF DuelInv, DuelIsOne
  <2>2. CASE phase # "OVER"
    <3>1. result = "NONE" /\ gOutcome = OpenAt(stamp) /\ eOutcome = OpenAt(stamp)
      BY <1>1, <2>2 DEF DuelInv, Going, GuardianUntold, ExplorerUntold
    <3>2. OpenAt(stamp).kind = "NONE"
      BY DEF OpenAt, UndecidedIn
    <3> QED
      BY <1>1, <3>1, <3>2 DEF DuelInv, DuelIsOne
  <2> QED
    BY <2>1, <2>2
<1> QED
  BY <1>1, DuelInvariance, PTL

-----------------------------------------------------------------------------
(* Totals.                                                                 *)

LEMMA LeastNumber ==
    ASSUME NEW T \in SUBSET Nat, T # {}
    PROVE  \E x \in T : \A y \in T : x <= y
<1>1. PICK x \in T : \A y \in T : ~(<<y, x>> \in OpToRel(<, Nat))
  BY NatLessThanWellFounded, WFMin
<1>2. \A y \in T : ~(y < x)
  BY <1>1 DEF OpToRel
<1>3. \A y \in T : y \in Nat
  OBVIOUS
<1> QED
  BY <1>2, <1>3

-----------------------------------------------------------------------------
(* What a total adds up: the sums over sets of places, by the last place.  *)
SumRule(deltas, sum, s) == IF s = {} THEN 0 ELSE sum[s \ {Max(s)}] + deltas[Max(s)]

Sums(deltas) ==
    CHOOSE sum : sum = [s \in SUBSET (DOMAIN deltas) |-> SumRule(deltas, sum, s)]

LEMMA TotalIsSum == \A deltas : Total(deltas) = Sums(deltas)[DOMAIN deltas]
  BY DEF Total, FoldLeft, MapThenFoldSet, Sums, SumRule

LEMMA MaxIs ==
    ASSUME NEW n \in Nat, NEW s \in SUBSET (1..(n + 1)), n + 1 \in s
    PROVE  Max(s) = n + 1
<1>1. \A y \in s : y \in Nat /\ y <= n + 1
  OBVIOUS
<1>2. \A x \in s : (\A y \in s : x >= y) <=> x = n + 1
  BY <1>1
<1>3. (CHOOSE x \in s : \A y \in s : x >= y) = n + 1
  BY <1>2
<1> QED
  BY <1>3 DEF Max

LEMMA SumsExist ==
    ASSUME NEW deltas, NEW n \in Nat
    PROVE  \E sum : sum = [s \in SUBSET (1..n) |-> SumRule(deltas, sum, s)]
<1> DEFINE Good(k) == \E sum : sum = [s \in SUBSET (1..k) |-> SumRule(deltas, sum, s)]
           Bad == {k \in Nat : ~Good(k)}
<1>1. SUFFICES ASSUME Bad # {} PROVE FALSE
  BY <1>1
<1>2. PICK k \in Bad : \A y \in Bad : k <= y
  BY <1>1, LeastNumber
<1>3. k # 0
  <2> DEFINE sum == [s \in SUBSET (1..0) |-> 0]
  <2>1. \A s \in SUBSET (1..0) : s = {}
    OBVIOUS
  <2>2. \A s \in SUBSET (1..0) : SumRule(deltas, sum, s) = 0
    BY <2>1 DEF SumRule
  <2>3. sum = [s \in SUBSET (1..0) |-> sum[s]] /\ \A s \in SUBSET (1..0) : sum[s] = 0
    OBVIOUS
  <2> HIDE DEF sum
  <2>4. sum = [s \in SUBSET (1..0) |-> SumRule(deltas, sum, s)]
    BY <2>2, <2>3
  <2>5. Good(0)
    BY <2>4
  <2> QED
    BY <1>2, <2>5
<1> DEFINE m == k - 1
<1>4. m \in Nat /\ m \notin Bad /\ m + 1 = k
  <2>1. k \in Nat /\ m \in Nat /\ m < k /\ m + 1 = k
    BY <1>2, <1>3
  <2> HIDE DEF m
  <2>2. ~(k <= m)
    BY <2>1
  <2> HIDE DEF Bad
  <2> QED
    BY <1>2, <2>1, <2>2
<1> HIDE DEF m
<1>5. PICK f : f = [s \in SUBSET (1..m) |-> SumRule(deltas, f, s)]
  BY <1>4
<1> DEFINE g == [s \in SUBSET (1..k) |->
                    IF k \in s THEN f[s \ {k}] + deltas[k] ELSE f[s]]
<1>6. ASSUME NEW s \in SUBSET (1..k) PROVE g[s] = SumRule(deltas, g, s)
  <2>1. CASE k \in s
    <3>1. Max(s) = k
      BY <1>4, <2>1, MaxIs
    <3>2. s \ {k} \in SUBSET (1..k) /\ k \notin s \ {k} /\ s # {}
      BY <2>1
    <3>3. g[s \ {k}] = f[s \ {k}]
      <4>1. (s \ {k}) \ {k} = s \ {k}
        OBVIOUS
      <4> QED
        BY <3>2
    <3>4. g[s] = f[s \ {k}] + deltas[k]
      BY <2>1
    <3> HIDE DEF g
    <3> QED
      BY <3>1, <3>2, <3>3, <3>4 DEF SumRule
  <2>2. CASE k \notin s
    <3>1. s \in SUBSET (1..m)
      BY <1>4, <2>2
    <3>2. g[s] = f[s] /\ f[s] = SumRule(deltas, f, s)
      BY <1>5, <2>2, <3>1
    <3>3. g[s \ {Max(s)}] = f[s \ {Max(s)}]
      <4>1. s \ {Max(s)} \in SUBSET (1..k) /\ k \notin s \ {Max(s)}
        BY <2>2
      <4> QED
        BY <4>1
    <3> HIDE DEF g
    <3> QED
      BY <3>2, <3>3 DEF SumRule
  <2> QED
    BY <2>1, <2>2
<1>7. g = [s \in SUBSET (1..k) |-> g[s]]
  OBVIOUS
<1> HIDE DEF g
<1>8. g = [s \in SUBSET (1..k) |-> SumRule(deltas, g, s)]
  BY <1>6, <1>7
<1>9. Good(k)
  BY <1>8
<1> QED
  BY <1>2, <1>9

(* The sum of the first places.                                            *)
LEMMA SumSteps ==
    ASSUME NEW n \in Nat, NEW deltas, DOMAIN deltas = 1..n
    PROVE  /\ Sums(deltas)[1..0] = 0
           /\ \A k \in 1..n : Sums(deltas)[1..k] = Sums(deltas)[1..(k - 1)] + deltas[k]
<1> DEFINE sum == Sums(deltas)
<1>1. sum = [s \in SUBSET (1..n) |-> SumRule(deltas, sum, s)]
  BY SumsExist DEF Sums
<1> HIDE DEF sum
<1>2. \A s \in SUBSET (1..n) : sum[s] = SumRule(deltas, sum, s)
  BY <1>1
<1>3. sum[1..0] = 0
  <2>1. 1..0 \in SUBSET (1..n) /\ 1..0 = {}
    OBVIOUS
  <2> QED
    BY <1>2, <2>1 DEF SumRule
<1>4. ASSUME NEW k \in 1..n PROVE sum[1..k] = sum[1..(k - 1)] + deltas[k]
  <2>1. k - 1 \in Nat /\ (k - 1) + 1 = k
    OBVIOUS
  <2>2. 1..k \in SUBSET (1..n) /\ k \in 1..k /\ 1..k # {}
    OBVIOUS
  <2>3. Max(1..k) = k
    <3>1. 1..k \in SUBSET (1..((k - 1) + 1)) /\ (k - 1) + 1 \in 1..k
      BY <2>1
    <3> QED
      BY <2>1, <3>1, MaxIs
  <2>4. (1..k) \ {k} = 1..(k - 1)
    OBVIOUS
  <2>5. sum[1..k] = SumRule(deltas, sum, 1..k)
    BY <1>2, <2>2
  <2> QED
    BY <2>2, <2>3, <2>4, <2>5 DEF SumRule
<1> QED
  BY <1>3, <1>4 DEF sum

LEMMA TotalAdds ==
    ASSUME NEW n \in Nat, NEW a \in [1..n -> Int], NEW b \in [1..n -> Int],
           NEW c \in [1..n -> Int], \A i \in 1..n : c[i] = a[i] + b[i]
    PROVE  Total(c) = Total(a) + Total(b) /\ Total(a) \in Int /\ Total(b) \in Int
<1> DEFINE A == Sums(a)  B == Sums(b)  C == Sums(c)
           Good(k) == A[1..k] \in Int /\ B[1..k] \in Int /\ C[1..k] = A[1..k] + B[1..k]
           Bad == {k \in 0..n : ~Good(k)}
<1>1. DOMAIN a = 1..n /\ DOMAIN b = 1..n /\ DOMAIN c = 1..n
  OBVIOUS
<1>2. /\ A[1..0] = 0 /\ B[1..0] = 0 /\ C[1..0] = 0
      /\ \A k \in 1..n : /\ A[1..k] = A[1..(k - 1)] + a[k]
                         /\ B[1..k] = B[1..(k - 1)] + b[k]
                         /\ C[1..k] = C[1..(k - 1)] + c[k]
  BY <1>1, SumSteps
<1>3. Total(a) = A[1..n] /\ Total(b) = B[1..n] /\ Total(c) = C[1..n]
  BY <1>1, TotalIsSum
<1> HIDE DEF A, B, C
<1>4. Bad = {}
  <2>1. SUFFICES ASSUME Bad # {} PROVE FALSE
    OBVIOUS
  <2>2. Bad \in SUBSET Nat
    OBVIOUS
  <2>3. PICK k \in Bad : \A y \in Bad : k <= y
    BY <2>1, <2>2, LeastNumber
  <2>4. k \in 0..n /\ ~Good(k)
    BY <2>3
  <2>5. k # 0
    BY <1>2, <2>4
  <2>6. k \in 1..n /\ k - 1 \in 0..n /\ k - 1 \notin Bad
    BY <2>3, <2>4, <2>5
  <2>7. Good(k - 1)
    BY <2>6
  <2>8. a[k] \in Int /\ b[k] \in Int /\ c[k] = a[k] + b[k]
    BY <2>6
  <2>9. /\ A[1..k] = A[1..(k - 1)] + a[k] /\ B[1..k] = B[1..(k - 1)] + b[k]
        /\ C[1..k] = C[1..(k - 1)] + c[k]
    BY <1>2, <2>6
  <2>10. Good(k)
    <3> DEFINE x == A[1..(k - 1)]  y == B[1..(k - 1)]  z == C[1..(k - 1)]
    <3>1. x \in Int /\ y \in Int /\ z = x + y
      BY <2>7
    <3>2. A[1..k] = x + a[k] /\ B[1..k] = y + b[k] /\ C[1..k] = z + c[k]
      BY <2>9
    <3> HIDE DEF x, y, z
    <3>3. x + a[k] \in Int /\ y + b[k] \in Int
      BY <2>8, <3>1
    <3>4. z + c[k] = (x + a[k]) + (y + b[k])
      BY <2>8, <3>1
    <3> QED
      BY <3>2, <3>3, <3>4
  <2> QED
    BY <2>4, <2>10
<1>5. Good(n)
  BY <1>4
<1> QED
  BY <1>3, <1>5

(* What the totals of two sequences have to do with each other follows     *)
(* place by place: R relates the sums of the first k numbers.              *)
LEMMA TotalsFollow ==
    ASSUME NEW n \in Nat, NEW a \in [1..n -> Int], NEW b \in [1..n -> Int],
           NEW R, <<0, 0, 0>> \in R,
           \A k \in 1..n, x, y \in Int :
              <<k - 1, x, y>> \in R => <<k, x + a[k], y + b[k]>> \in R
    PROVE  <<n, Total(a), Total(b)>> \in R /\ Total(a) \in Int /\ Total(b) \in Int
<1> DEFINE A == Sums(a)  B == Sums(b)
           Good(k) == A[1..k] \in Int /\ B[1..k] \in Int /\ <<k, A[1..k], B[1..k]>> \in R
           Bad == {k \in 0..n : ~Good(k)}
<1>1. DOMAIN a = 1..n /\ DOMAIN b = 1..n
  OBVIOUS
<1>2. /\ A[1..0] = 0 /\ B[1..0] = 0
      /\ \A k \in 1..n : A[1..k] = A[1..(k - 1)] + a[k] /\ B[1..k] = B[1..(k - 1)] + b[k]
  BY <1>1, SumSteps
<1>3. Total(a) = A[1..n] /\ Total(b) = B[1..n]
  BY <1>1, TotalIsSum
<1> HIDE DEF A, B
<1>4. Bad = {}
  <2>1. SUFFICES ASSUME Bad # {} PROVE FALSE
    OBVIOUS
  <2>2. Bad \in SUBSET Nat
    OBVIOUS
  <2>3. PICK k \in Bad : \A y \in Bad : k <= y
    BY <2>1, <2>2, LeastNumber
  <2>4. k \in 0..n /\ ~Good(k)
    BY <2>3
  <2>5. k # 0
    <3>1. Good(0)
      BY <1>2
    <3> HIDE DEF Good
    <3> QED
      BY <2>4, <3>1
  <2>6. k \in 1..n /\ k - 1 \in 0..n /\ k - 1 \notin Bad
    BY <2>3, <2>4, <2>5
  <2>7. Good(k - 1)
    BY <2>6
  <2>8. a[k] \in Int /\ b[k] \in Int
    BY <2>6
  <2>9. A[1..k] = A[1..(k - 1)] + a[k] /\ B[1..k] = B[1..(k - 1)] + b[k]
    BY <1>2, <2>6
  <2>10. PICK x, y : x = A[1..(k - 1)] /\ y = B[1..(k - 1)]
    OBVIOUS
  <2>11. x \in Int /\ y \in Int /\ <<k - 1, x, y>> \in R
    BY <2>7, <2>10
  <2>12. <<k, x + a[k], y + b[k]>> \in R
    BY <2>6, <2>11
  <2>13. A[1..k] = x + a[k] /\ B[1..k] = y + b[k]
    BY <2>9, <2>10
  <2>14. Good(k)
    BY <2>8, <2>11, <2>12, <2>13
  <2> QED
    BY <2>4, <2>14
<1>5. Good(n)
  BY <1>4
<1> QED
  BY <1>3, <1>5

LEMMA TotalScales ==
    ASSUME NEW n \in Nat, NEW a \in [1..n -> Int], NEW b \in [1..n -> Int], NEW f \in Int,
           \A i \in 1..n : b[i] = f * a[i]
    PROVE  Total(b) = f * Total(a)
<1> DEFINE R == {r \in Int \X Int \X Int : r[3] = f * r[2]}
<1>1. <<0, 0, 0>> \in R
  OBVIOUS
<1>2. ASSUME NEW k \in 1..n, NEW x \in Int, NEW y \in Int, <<k - 1, x, y>> \in R
      PROVE  <<k, x + a[k], y + b[k]>> \in R
  <2>1. y = f * x /\ b[k] = f * a[k] /\ a[k] \in Int /\ b[k] \in Int
    BY <1>2
  <2>2. y + b[k] = f * (x + a[k])
    BY <2>1
  <2> QED
    BY <2>1, <2>2
<1> HIDE DEF R
<1>3. <<n, Total(a), Total(b)>> \in R
  BY <1>1, <1>2, TotalsFollow
<1> QED
  BY <1>3 DEF R

LEMMA TotalGrows ==
    ASSUME NEW n \in Nat, NEW a \in [1..n -> Int], NEW b \in [1..n -> Int],
           \A i \in 1..n : a[i] <= b[i]
    PROVE  Total(a) <= Total(b) /\ Total(a) \in Int /\ Total(b) \in Int
<1> DEFINE R == {r \in Int \X Int \X Int : r[2] <= r[3]}
<1>1. <<0, 0, 0>> \in R
  OBVIOUS
<1>2. ASSUME NEW k \in 1..n, NEW x \in Int, NEW y \in Int, <<k - 1, x, y>> \in R
      PROVE  <<k, x + a[k], y + b[k]>> \in R
  BY <1>2
<1> HIDE DEF R
<1>3. <<n, Total(a), Total(b)>> \in R /\ Total(a) \in Int /\ Total(b) \in Int
  BY <1>1, <1>2, TotalsFollow
<1> QED
  BY <1>3 DEF R

(* A total with one number that is not zero.                               *)
LEMMA TotalOfOne ==
    ASSUME NEW n \in Nat, NEW a \in [1..n -> Int], NEW i \in 1..n,
           \A j \in 1..n : j # i => a[j] = 0
    PROVE  Total(a) = a[i]
<1> DEFINE R == {r \in Int \X Int \X Int : r[2] = IF r[1] < i THEN 0 ELSE a[i]}
<1>1. <<0, 0, 0>> \in R
  OBVIOUS
<1>2. ASSUME NEW k \in 1..n, NEW x \in Int, NEW y \in Int, <<k - 1, x, y>> \in R
      PROVE  <<k, x + a[k], y + a[k]>> \in R
  <2>1. a[k] \in Int /\ a[i] \in Int /\ k \in Int
    OBVIOUS
  <2>2. x = IF k - 1 < i THEN 0 ELSE a[i]
    BY <1>2
  <2>3. x + a[k] = IF k < i THEN 0 ELSE a[i]
    BY <2>1, <2>2
  <2> QED
    BY <2>1, <2>3
<1> HIDE DEF R
<1>3. <<n, Total(a), Total(a)>> \in R
  BY <1>1, <1>2, TotalsFollow
<1> QED
  BY <1>3 DEF R

LEMMA TotalOfNone ==
    ASSUME NEW n \in Nat, NEW a \in [1..n -> Int], \A i \in 1..n : a[i] = 0
    PROVE  Total(a) = 0
<1>1. \A i \in 1..n : a[i] = a[i] + a[i]
  OBVIOUS
<1>2. Total(a) = Total(a) + Total(a) /\ Total(a) \in Int
  BY <1>1, TotalAdds
<1> QED
  BY <1>2

LEMMA TotalTyped ==
    ASSUME NEW n \in Nat, NEW a \in [1..n -> Int]
    PROVE  Total(a) \in Int
<1>1. \A i \in 1..n : a[i] <= a[i]
  OBVIOUS
<1> QED
  BY <1>1, TotalGrows

-----------------------------------------------------------------------------
(* The search.                                                             *)

(* A genome's support, among given trials.                                 *)
SupportedBy(ts, g, split) ==
    \E t \in ts :
        /\ t.genome = g /\ t.split = split
        /\ \A i \in 1..Fixtures : t.flights[i].safe
        /\ Total(OfGuardian(t.flights)) >= 0 /\ Total(OfExplorer(t.flights)) >= 0
        /\ IF split = "TRAINING" THEN Total(Balanced(t.flights)) > 0 ELSE LowerBoundPositive(t.flights)

Validations == {t \in trials : t.split = "VALIDATION"}

(* A finalist was better than the baseline when it was chosen; nothing is  *)
(* selected, and no validation flown, before the last population is        *)
(* evaluated; a policy is the last file.                                   *)
SearchInv ==
    /\ pc \in {"FILL", "EVALUATE", "WRITE", "DONE", "RAISED"}
    /\ completed \in 0..Generations
    /\ pc = "FILL" => completed < Generations
    /\ files \in {{}, {"DIRECTORY"}, {"DIRECTORY", "REPORT"}, {"DIRECTORY", "REPORT", "POLICY"}}
    /\ "POLICY" \in files <=> pc = "DONE"
    /\ finalist.mean \in Nat
    /\ finalist.genome # Baseline => SupportedBy(trials, finalist.genome, "TRAINING")
    /\ pc \in {"FILL", "EVALUATE"} => selected = Baseline /\ Validations = {}
    /\ pc \in {"WRITE", "DONE"} /\ selected # Baseline =>
          /\ SupportedBy(trials, selected, "TRAINING") /\ SupportedBy(trials, selected, "VALIDATION")
          /\ \E t \in trials : Validations = {t}

LEMMA SearchFacts ==
    /\ PopulationSize \in Nat /\ Generations \in Nat /\ Generations > 0
    /\ Fixtures \in Nat /\ Fixtures > 1
  BY SearchAssumption DEF EvolutionConfigValid, PlanValid

LEMMA ComparedFacts ==
    ASSUME NEW pair \in EvaluationType
    PROVE  Compared(pair).guardian \in Int /\ Compared(pair).explorer \in Int
<1>1. \A role \in RoleNames :
        pair.candidate[role].return \in Int /\ pair.baseline[role].return \in Int
  BY DEF EvaluationType, ResultType
<1>2. Delta(pair, "guardian") \in Int /\ Delta(pair, "explorer") \in Int
  BY <1>1 DEF Delta, RoleNames
<1> QED
  BY <1>2 DEF Compared

LEMMA FlightFacts ==
    ASSUME NEW n \in 0..Generations, NEW flights \in Flights(n)
    PROVE  /\ DOMAIN flights = 1..Fixtures
           /\ \A i \in 1..Fixtures : flights[i].guardian \in Int /\ flights[i].explorer \in Int
<1> DEFINE On(i) == {Compared(RoleSwapped(References[n][i], g, e)) : g, e \in Episodes}
<1>1. /\ flights \in [1..Fixtures -> UNION {On(i) : i \in 1..Fixtures}]
      /\ \A i \in 1..Fixtures : flights[i] \in On(i)
  BY DEF Flights
<1>2. ASSUME NEW i \in 1..Fixtures
      PROVE  flights[i].guardian \in Int /\ flights[i].explorer \in Int
  <2>1. PICK g \in Episodes, e \in Episodes :
          flights[i] = Compared(RoleSwapped(References[n][i], g, e))
    BY <1>1
  <2>2. RoleSwapped(References[n][i], g, e) \in EvaluationType
    BY SearchAssumption
  <2> QED
    BY <2>1, <2>2, ComparedFacts
<1> QED
  BY <1>1, <1>2

(* What an assessment says.                                                *)
LEMMA AssessmentIs ==
    ASSUME NEW flights
    PROVE  /\ Assessment(flights).eligible <=> Eligible(flights)
           /\ Eligible(flights) =>
                 /\ Assessment(flights).guardian = Total(OfGuardian(flights))
                 /\ Assessment(flights).explorer = Total(OfExplorer(flights))
                 /\ Assessment(flights).positive = LowerBoundPositive(flights)
           /\ ~Eligible(flights) =>
                 Assessment(flights).guardian = 0 /\ Assessment(flights).explorer = 0
<1> DEFINE a == Assessment(flights)
<1>1. \A l, g, e, p : a = [eligible |-> l, guardian |-> g, explorer |-> e, positive |-> p] =>
                      a.eligible = l /\ a.guardian = g /\ a.explorer = e /\ a.positive = p
  BY SMT
<1>2. CASE Eligible(flights)
  <2>1. a = [eligible |-> TRUE, guardian |-> Total(OfGuardian(flights)),
             explorer |-> Total(OfExplorer(flights)), positive |-> LowerBoundPositive(flights)]
    BY <1>2, Zenon DEF Assessment
  <2> QED
    <3> HIDE DEF a
    <3>1. /\ a.eligible = TRUE /\ a.guardian = Total(OfGuardian(flights))
          /\ a.explorer = Total(OfExplorer(flights)) /\ a.positive = LowerBoundPositive(flights)
      BY <1>1, <2>1, Zenon
    <3> QED
      BY <1>2, <3>1, Zenon DEF a
<1>3. CASE ~Eligible(flights)
  <2>1. a = [eligible |-> FALSE, guardian |-> 0, explorer |-> 0, positive |-> FALSE]
    BY <1>3, Zenon DEF Assessment
  <2> QED
    <3> HIDE DEF a
    <3>1. a.eligible = FALSE /\ a.guardian = 0 /\ a.explorer = 0
      BY <1>1, <2>1, Zenon
    <3> QED
      BY <1>3, <3>1, Zenon DEF a
<1> QED
  BY <1>2, <1>3

LEMMA MeanIsBalance ==
    ASSUME NEW n \in 0..Generations, NEW flights \in Flights(n)
    PROVE  /\ Mean(Assessment(flights)) \in Int
           /\ Eligible(flights) => Mean(Assessment(flights)) = Total(Balanced(flights))
<1>1. /\ DOMAIN flights = 1..Fixtures /\ Fixtures \in Nat
      /\ \A i \in 1..Fixtures : flights[i].guardian \in Int /\ flights[i].explorer \in Int
  BY FlightFacts, SearchFacts
<1>2. /\ OfGuardian(flights) \in [1..Fixtures -> Int] /\ OfExplorer(flights) \in [1..Fixtures -> Int]
      /\ Balanced(flights) \in [1..Fixtures -> Int]
      /\ \A i \in 1..Fixtures :
            Balanced(flights)[i] = OfGuardian(flights)[i] + OfExplorer(flights)[i]
  BY <1>1 DEF OfGuardian, OfExplorer, Balanced
<1>3. /\ Total(Balanced(flights)) = Total(OfGuardian(flights)) + Total(OfExplorer(flights))
      /\ Total(OfGuardian(flights)) \in Int /\ Total(OfExplorer(flights)) \in Int
  BY <1>1, <1>2, TotalAdds
<1> QED
  BY <1>3, AssessmentIs DEF Mean

(* A trial that was eligible supports its genome.                          *)
LEMMA TrialSupports ==
    ASSUME NEW n \in 0..Generations, NEW flights \in Flights(n),
           Eligible(flights), NoRoleLoses(Assessment(flights))
    PROVE  /\ \A i \in 1..Fixtures : flights[i].safe
           /\ Total(OfGuardian(flights)) >= 0 /\ Total(OfExplorer(flights)) >= 0
<1>1. DOMAIN flights = 1..Fixtures
  BY FlightFacts
<1>2. \A i \in 1..Fixtures : flights[i].safe
  BY <1>1, Zenon DEF Eligible
<1>3. Total(OfGuardian(flights)) >= 0 /\ Total(OfExplorer(flights)) >= 0
  BY AssessmentIs DEF NoRoleLoses
<1> QED
  BY <1>2, <1>3

LEMMA SupportStays ==
    ASSUME NEW g, NEW split, trials \subseteq trials', SupportedBy(trials, g, split)
    PROVE  SupportedBy(trials', g, split)
  BY Zenon DEF SupportedBy

LEMMA SearchStart ==
    ASSUME SearchInit
    PROVE  SearchInv
<1>1. Generations \in Nat /\ Generations > 0
  BY SearchFacts
<1>2. /\ pc = "FILL" /\ completed = 0 /\ files = {} /\ trials = {} /\ selected = Baseline
      /\ finalist.genome = Baseline /\ finalist.mean = 0
  BY DEF SearchInit, NoFinalist
<1>3. Validations = {}
  BY <1>2 DEF Validations
<1> QED
  BY <1>1, <1>2, <1>3 DEF SearchInv

LEMMA EvaluationPreserves ==
    ASSUME SearchInv, EvaluateNext
    PROVE  SearchInv'
<1> DEFINE g == NextCandidate
<1>1. PICK flights \in Flights(completed) :
        /\ finalist' = IF Better(Assessment(flights))
                       THEN [genome |-> g, mean |-> Mean(Assessment(flights))] ELSE finalist
        /\ trials' = trials \cup {[genome |-> g, split |-> "TRAINING", flights |-> flights]}
  BY DEF EvaluateNext
<1>2. /\ pc = "EVALUATE" /\ g # Baseline
      /\ pc' = pc /\ completed' = completed /\ selected' = selected /\ files' = files
  BY DEF EvaluateNext
<1> DEFINE trial == [genome |-> g, split |-> "TRAINING", flights |-> flights]
<1>3. trial.genome = g /\ trial.split = "TRAINING" /\ trial.flights = flights /\ trial \in trials'
  BY <1>1
<1>4. trials \subseteq trials'
  BY <1>1
<1>5. Validations' = {}
  <2>1. \A t \in trials' : t.split # "VALIDATION"
    BY <1>1, <1>2, <1>3 DEF SearchInv, Validations
  <2> QED
    BY <2>1 DEF Validations
<1>6. finalist'.mean \in Nat /\ (finalist'.genome # Baseline => SupportedBy(trials', finalist'.genome, "TRAINING"))
  <2>1. CASE Better(Assessment(flights))
    <3>1. completed \in 0..Generations /\ finalist.mean \in Nat
      BY DEF SearchInv
    <3>2. Mean(Assessment(flights)) \in Int
      BY <3>1, MeanIsBalance
    <3>3. /\ Assessment(flights).eligible /\ NoRoleLoses(Assessment(flights))
          /\ Mean(Assessment(flights)) > finalist.mean
      BY <2>1, Zenon DEF Better
    <3>4. Eligible(flights)
      BY <3>3, AssessmentIs, Zenon
    <3>5. finalist'.genome = g /\ finalist'.mean = Mean(Assessment(flights))
      BY <1>1, <2>1
    <3>6. Mean(Assessment(flights)) > 0
      BY <3>1, <3>2, <3>3
    <3>7. Total(Balanced(flights)) > 0
      BY <3>1, <3>4, <3>6, MeanIsBalance
    <3>8. /\ \A i \in 1..Fixtures : flights[i].safe
          /\ Total(OfGuardian(flights)) >= 0 /\ Total(OfExplorer(flights)) >= 0
      BY <3>1, <3>3, <3>4, TrialSupports
    <3> HIDE DEF trial, g
    <3>9. SupportedBy(trials', g, "TRAINING")
      BY <1>3, <3>7, <3>8, Zenon DEF SupportedBy
    <3> QED
      BY <3>1, <3>2, <3>5, <3>6, <3>9
  <2>2. CASE ~Better(Assessment(flights))
    <3>1. finalist' = finalist
      BY <1>1, <2>2
    <3>2. finalist.genome # Baseline => SupportedBy(trials', finalist.genome, "TRAINING")
      BY <1>4, SupportStays DEF SearchInv
    <3> QED
      BY <3>1, <3>2 DEF SearchInv
  <2> QED
    BY <2>1, <2>2
<1> QED
  BY <1>2, <1>5, <1>6 DEF SearchInv

LEMMA ValidationPreserves ==
    ASSUME SearchInv, Validate
    PROVE  SearchInv'
<1> DEFINE g == finalist.genome
<1>1. PICK flights \in Flights(0) :
        /\ selected' = IF Selected(Assessment(flights)) THEN g ELSE Baseline
        /\ trials' = trials \cup {[genome |-> g, split |-> "VALIDATION", flights |-> flights]}
  BY DEF Validate
<1>2. /\ pc = "EVALUATE" /\ g # Baseline /\ pc' = "WRITE"
      /\ completed' = completed /\ finalist' = finalist /\ files' = files
  BY DEF Validate, Evaluated
<1> DEFINE trial == [genome |-> g, split |-> "VALIDATION", flights |-> flights]
<1>3. trial.genome = g /\ trial.split = "VALIDATION" /\ trial.flights = flights /\ trial \in trials'
  BY <1>1
<1>4. trials \subseteq trials' /\ trials' = trials \cup {trial}
  BY <1>1
<1>5. SupportedBy(trials', g, "TRAINING")
  BY <1>2, <1>4, SupportStays DEF SearchInv
<1>6. Validations' = {trial}
  <2>1. \A t \in trials : t.split # "VALIDATION"
    BY <1>2 DEF SearchInv, Validations
  <2> HIDE DEF trial
  <2> QED
    BY <1>3, <1>4, <2>1 DEF Validations
<1>7. Selected(Assessment(flights)) => SupportedBy(trials', g, "VALIDATION")
  <2>1. SUFFICES ASSUME Selected(Assessment(flights)) PROVE SupportedBy(trials', g, "VALIDATION")
    OBVIOUS
  <2>2. /\ Assessment(flights).eligible /\ NoRoleLoses(Assessment(flights))
        /\ Assessment(flights).positive
    BY <2>1, Zenon DEF Selected
  <2>3. Eligible(flights)
    BY <2>2, AssessmentIs, Zenon
  <2>4. LowerBoundPositive(flights)
    BY <2>2, <2>3, AssessmentIs, Zenon
  <2>5. 0 \in 0..Generations
    BY SearchFacts
  <2>6. /\ \A i \in 1..Fixtures : flights[i].safe
        /\ Total(OfGuardian(flights)) >= 0 /\ Total(OfExplorer(flights)) >= 0
    BY <2>2, <2>3, <2>5, TrialSupports
  <2> HIDE DEF trial, g
  <2> QED
    BY <1>3, <2>4, <2>6, Zenon DEF SupportedBy
<1>8. selected' # Baseline => selected' = g /\ Selected(Assessment(flights))
  BY <1>1
<1>9. /\ pc' = "WRITE" /\ completed' \in 0..Generations /\ finalist'.mean \in Nat
      /\ files' \in {{}, {"DIRECTORY"}, {"DIRECTORY", "REPORT"},
                     {"DIRECTORY", "REPORT", "POLICY"}}
      /\ "POLICY" \notin files'
  BY <1>2 DEF SearchInv
<1>10. finalist'.genome # Baseline => SupportedBy(trials', finalist'.genome, "TRAINING")
  BY <1>2, <1>5
<1>11. selected' # Baseline =>
          /\ SupportedBy(trials', selected', "TRAINING") /\ SupportedBy(trials', selected', "VALIDATION")
          /\ \E t \in trials' : Validations' = {t}
  <2>1. \E t \in trials' : Validations' = {t}
    BY <1>3, <1>6
  <2> QED
    BY <1>5, <1>7, <1>8, <2>1
<1> QED
  BY <1>9, <1>10, <1>11 DEF SearchInv

(* Steps that add no trial and choose nothing.                             *)
LEMMA OthersPreserve ==
    ASSUME SearchInv,
           Fill \/ GiveUp \/ Filled \/ AssessBaseline \/ Breed \/ KeepBaseline \/ Write
    PROVE  SearchInv'
<1>1. trials' = trials /\ finalist' = finalist /\ selected' = selected
  BY DEF Fill, GiveUp, Filled, AssessBaseline, Breed, KeepBaseline, Write
<1>2. Validations' = Validations
  BY <1>1 DEF Validations
<1>3. \A g, split : SupportedBy(trials, g, split) => SupportedBy(trials', g, split)
  BY <1>1, SupportStays
<1>4. Generations \in Nat
  BY SearchFacts
<1>5. CASE Write
  <2>1. /\ pc = "WRITE" /\ files' = files \cup {ToWrite} /\ completed' = completed
        /\ pc' = IF ToWrite = "POLICY" THEN "DONE" ELSE "WRITE"
    BY <1>5 DEF Write
  <2>2. /\ files \in {{}, {"DIRECTORY"}, {"DIRECTORY", "REPORT"},
                      {"DIRECTORY", "REPORT", "POLICY"}}
        /\ "POLICY" \notin files
    BY <2>1 DEF SearchInv
  <2>3. CASE files = {}
    <3>1. ToWrite = "DIRECTORY"
      BY <2>3 DEF ToWrite
    <3>2. files' = {"DIRECTORY"} /\ pc' = "WRITE"
      BY <2>1, <2>3, <3>1
    <3> QED
      BY <1>1, <1>2, <1>3, <2>1, <3>2 DEF SearchInv
  <2>4. CASE files = {"DIRECTORY"}
    <3>1. ToWrite = "REPORT"
      BY <2>4 DEF ToWrite
    <3>2. files' = {"DIRECTORY", "REPORT"} /\ pc' = "WRITE"
      BY <2>1, <2>4, <3>1
    <3> QED
      BY <1>1, <1>2, <1>3, <2>1, <3>2 DEF SearchInv
  <2>5. CASE files = {"DIRECTORY", "REPORT"}
    <3>1. files # {} /\ files # {"DIRECTORY"}
      BY <2>5
    <3>2. ToWrite = "POLICY"
      BY <3>1 DEF ToWrite
    <3>3. files' = {"DIRECTORY", "REPORT", "POLICY"} /\ pc' = "DONE"
      BY <2>1, <2>5, <3>2
    <3> QED
      BY <1>1, <1>2, <1>3, <2>1, <3>3 DEF SearchInv
  <2> QED
    BY <2>2, <2>3, <2>4, <2>5
<1>6. CASE Fill
  <2>1. pc' = pc /\ completed' = completed /\ files' = files
    BY <1>6 DEF Fill
  <2> QED
    BY <1>1, <1>2, <1>3, <2>1 DEF SearchInv
<1>7. CASE GiveUp
  <2>1. pc = "FILL" /\ pc' = "RAISED" /\ completed' = completed /\ files' = files
    BY <1>7 DEF GiveUp
  <2> QED
    BY <1>1, <1>2, <1>3, <2>1 DEF SearchInv
<1>8. CASE Filled
  <2>1. pc = "FILL" /\ pc' = "EVALUATE" /\ completed' = completed + 1 /\ files' = files
    BY <1>8 DEF Filled
  <2>2. completed' \in 0..Generations
    BY <1>4, <2>1 DEF SearchInv
  <2> QED
    BY <1>1, <1>2, <1>3, <2>1, <2>2 DEF SearchInv
<1>9. CASE AssessBaseline
  <2>1. pc' = pc /\ completed' = completed /\ files' = files
    BY <1>9 DEF AssessBaseline
  <2> QED
    BY <1>1, <1>2, <1>3, <2>1 DEF SearchInv
<1>10. CASE Breed
  <2>1. /\ pc = "EVALUATE" /\ pc' = "FILL" /\ completed' = completed /\ files' = files
        /\ completed < Generations
    BY <1>10 DEF Breed, Evaluated
  <2> QED
    BY <1>1, <1>2, <1>3, <2>1 DEF SearchInv
<1>11. CASE KeepBaseline
  <2>1. pc = "EVALUATE" /\ pc' = "WRITE" /\ completed' = completed /\ files' = files
    BY <1>11 DEF KeepBaseline, Evaluated
  <2> QED
    BY <1>1, <1>2, <1>3, <2>1 DEF SearchInv
<1> QED
  BY <1>5, <1>6, <1>7, <1>8, <1>9, <1>10, <1>11

LEMMA RestartPreserves ==
    ASSUME SearchInv, Restart
    PROVE  SearchInv'
<1>1. Generations \in Nat /\ Generations > 0
  BY SearchFacts
<1>2. /\ pc' = (IF files = {} THEN "FILL" ELSE "RAISED") /\ completed' = 0 /\ files' = files
      /\ finalist' = NoFinalist /\ selected' = Baseline /\ trials' = {} /\ pc # "DONE"
  BY DEF Restart
<1>3. finalist'.genome = Baseline /\ finalist'.mean = 0
  BY <1>2 DEF NoFinalist
<1>4. Validations' = {}
  BY <1>2 DEF Validations
<1>5. "POLICY" \notin files
  BY <1>2 DEF SearchInv
<1> QED
  BY <1>1, <1>2, <1>3, <1>4, <1>5 DEF SearchInv

LEMMA SearchInvIsInductive ==
    ASSUME SearchInv, [SearchNext]_searchVars
    PROVE  SearchInv'
<1>1. CASE UNCHANGED searchVars
  <2>1. /\ pc' = pc /\ completed' = completed /\ finalist' = finalist
        /\ selected' = selected /\ files' = files /\ trials' = trials
    BY <1>1 DEF searchVars
  <2>2. Validations' = Validations
    BY <2>1 DEF Validations
  <2>3. \A g, split : SupportedBy(trials, g, split) => SupportedBy(trials', g, split)
    BY <2>1, SupportStays
  <2> QED
    BY <2>1, <2>2, <2>3 DEF SearchInv
<1> QED
  BY <1>1, EvaluationPreserves, ValidationPreserves, OthersPreserve, RestartPreserves
     DEF SearchNext

(* For every set of genomes and fixtures, every outcome of every episode   *)
(* and every moment in which the run may die: a policy other than the      *)
(* baseline is written only with its report, and for a genome that the     *)
(* trials of this very run support.                                        *)
THEOREM SelectionSupported == SearchSpec => []SelectedIsSupported
<1>1. SearchInv => SelectedIsSupported
  <2>1. SUFFICES ASSUME SearchInv, "POLICY" \in files, selected # Baseline
                 PROVE  /\ "REPORT" \in files
                        /\ SupportedBy(trials, selected, "TRAINING") /\ SupportedBy(trials, selected, "VALIDATION")
                        /\ Cardinality(Validations) = 1
    BY DEF SelectedIsSupported, Validations, Supported, SupportedBy
  <2>2. /\ "REPORT" \in files
        /\ SupportedBy(trials, selected, "TRAINING") /\ SupportedBy(trials, selected, "VALIDATION")
        /\ \E t \in trials : Validations = {t}
    BY <2>1 DEF SearchInv
  <2>3. Cardinality(Validations) = 1
    BY <2>2, FS_Singleton
  <2> QED
    BY <2>2, <2>3
<1> QED
  BY <1>1, SearchStart, SearchInvIsInductive, PTL DEF SearchSpec

-----------------------------------------------------------------------------
(* Fusion.                                                                 *)
LEMMA PowersOfTwo ==
    ASSUME NEW t \in Nat
    PROVE  2^t \in Nat /\ 2^t > 0
<1>1. IsFiniteSet(1..t) /\ Cardinality(1..t) = t
  BY FS_Interval
<1>2. IsFiniteSet(SUBSET (1..t)) /\ Cardinality(SUBSET (1..t)) = 2^t
  BY <1>1, FS_SUBSET
<1>3. SUBSET (1..t) # {}
  OBVIOUS
<1>4. Cardinality(SUBSET (1..t)) \in Nat /\ Cardinality(SUBSET (1..t)) # 0
  BY <1>2, <1>3, FS_CardinalityType, FS_EmptySet
<1> QED
  BY <1>2, <1>4

LEMMA KernelFacts ==
    ASSUME NEW kernel \in Seq(AtomType)
    PROVE  /\ Len(kernel) \in Nat /\ DOMAIN kernel = 1..Len(kernel)
           /\ \A i \in 1..Len(kernel) :
                 /\ kernel[i].weight \in Nat /\ kernel[i].reward \in Int
                 /\ kernel[i].next \in NextClasses
                 /\ Halved(kernel[i].duration) \in Nat
                 /\ kernel[i].weight * kernel[i].reward \in Int
                 /\ kernel[i].weight * Halved(kernel[i].duration) \in Int
<1>1. Len(kernel) \in Nat /\ DOMAIN kernel = 1..Len(kernel)
  OBVIOUS
<1>2. ASSUME NEW i \in 1..Len(kernel)
      PROVE  /\ kernel[i].weight \in Nat /\ kernel[i].reward \in Int
             /\ kernel[i].next \in NextClasses
             /\ Halved(kernel[i].duration) \in Nat
             /\ kernel[i].weight * kernel[i].reward \in Int
             /\ kernel[i].weight * Halved(kernel[i].duration) \in Int
  <2>1. kernel[i] \in AtomType
    OBVIOUS
  <2>2. /\ kernel[i].weight \in Nat /\ kernel[i].reward \in Int
        /\ kernel[i].next \in NextClasses /\ kernel[i].duration \in Nat
    BY <2>1 DEF AtomType
  <2>3. Unit \in Nat /\ 2^kernel[i].duration \in Nat /\ 2^kernel[i].duration > 0
    BY <2>2, PowersOfTwo, FusionAssumption
  <2>4. Halved(kernel[i].duration) \in Nat
    BY <2>3 DEF Halved
  <2> HIDE DEF Halved
  <2> QED
    BY <2>2, <2>4
<1> QED
  BY <1>1, <1>2

(* The next classes, counted.                                              *)
Classes == SetToSeq(NextClasses)

LEMMA ClassesAre ==
    /\ Cardinality(NextClasses) \in Nat
    /\ Classes \in [1..Cardinality(NextClasses) -> NextClasses]
    /\ \A i, j \in 1..Cardinality(NextClasses) : Classes[i] = Classes[j] => i = j
    /\ \A c \in NextClasses : \E j \in 1..Cardinality(NextClasses) : Classes[j] = c
<1> DEFINE n == Cardinality(NextClasses)
<1>1. IsFiniteSet(NextClasses)
  BY FusionAssumption
<1>2. n \in Nat /\ ExistsBijection(1..n, NextClasses)
  BY <1>1, FS_CardinalityType
<1>3. \E f \in [1..n -> NextClasses] : IsInjective(f)
  BY <1>2 DEF ExistsBijection, Bijection, Injection
<1>4. Classes \in [1..n -> NextClasses] /\ IsInjective(Classes)
  BY <1>3 DEF Classes, SetToSeq
<1>5. Classes \in Injection(1..n, NextClasses)
  BY <1>4 DEF Injection
<1>6. IsFiniteSet(1..n) /\ Cardinality(1..n) = n
  BY <1>2, FS_Interval
<1>7. Classes \in Surjection(1..n, NextClasses)
  BY <1>1, <1>5, <1>6, FS_Injection
<1> QED
  BY <1>2, <1>4, <1>7 DEF IsInjective, Surjection

(* What an option is worth is its reward and, for every class, what leads  *)
(* there times what that is worth.                                         *)
Numbers(kernel, next) ==
    [i \in DOMAIN kernel |->
        IF kernel[i].next = next THEN kernel[i].weight * Halved(kernel[i].duration) ELSE 0]

Through(kernel, worth, j) ==
    [i \in DOMAIN kernel |->
        kernel[i].weight * kernel[i].reward
          + IF \E m \in 1..j : Classes[m] = kernel[i].next
            THEN (kernel[i].weight * Halved(kernel[i].duration)) * worth[kernel[i].next] ELSE 0]

ByClass(kernel, worth) ==
    [j \in 1..Cardinality(NextClasses) |-> Mass(kernel, Classes[j]) * worth[Classes[j]]]

LEMMA MassIs ==
    ASSUME NEW kernel \in Seq(AtomType), NEW c
    PROVE  /\ Numbers(kernel, c) \in [1..Len(kernel) -> Int]
           /\ Mass(kernel, c) = Total(Numbers(kernel, c)) /\ Mass(kernel, c) \in Int
           /\ Reward(kernel) \in Int
<1>1. Numbers(kernel, c) \in [1..Len(kernel) -> Int]
  BY KernelFacts DEF Numbers
<1>2. Mass(kernel, c) = Total(Numbers(kernel, c))
  BY DEF Mass, Numbers
<1>3. Len(kernel) \in Nat
  BY KernelFacts
<1>4. [i \in DOMAIN kernel |-> kernel[i].weight * kernel[i].reward] \in [1..Len(kernel) -> Int]
  BY KernelFacts
<1> QED
  BY <1>1, <1>2, <1>3, <1>4, TotalTyped DEF Reward

LEMMA WorthIs ==
    ASSUME NEW kernel \in Seq(AtomType), NEW worth \in [NextClasses -> Int]
    PROVE  /\ Worth(kernel, worth) = Reward(kernel) + Total(ByClass(kernel, worth))
           /\ ByClass(kernel, worth) \in [1..Cardinality(NextClasses) -> Int]
<1> DEFINE n == Cardinality(NextClasses)
           N == Len(kernel)
           C == Classes
           a == ByClass(kernel, worth)
           R == {r \in (0..n) \X Int \X Int :
                    Total(Through(kernel, worth, r[1])) = Reward(kernel) + r[2]}
<1>0. /\ n \in Nat /\ N \in Nat /\ DOMAIN kernel = 1..N
      /\ \A j \in 1..n : C[j] \in NextClasses /\ worth[C[j]] \in Int
      /\ Reward(kernel) \in Int /\ \A c : Mass(kernel, c) \in Int
  BY ClassesAre, KernelFacts, MassIs
<1>1. a \in [1..n -> Int]
  BY <1>0 DEF ByClass
<1>2. \A j : Through(kernel, worth, j) \in [1..N -> Int]
  <2> SUFFICES ASSUME NEW j PROVE Through(kernel, worth, j) \in [1..N -> Int]
    OBVIOUS
  <2>1. ASSUME NEW i \in 1..N
        PROVE  kernel[i].weight * kernel[i].reward
          + (IF \E m \in 1..j : Classes[m] = kernel[i].next
            THEN (kernel[i].weight * Halved(kernel[i].duration)) * worth[kernel[i].next] ELSE 0) \in Int
    <3> DEFINE x == kernel[i].weight * kernel[i].reward
               y == kernel[i].weight * Halved(kernel[i].duration)
               z == worth[kernel[i].next]
    <3>1. x \in Int /\ y \in Int /\ z \in Int
      BY KernelFacts
    <3> HIDE DEF x, y, z
    <3>2. y * z \in Int
      BY <3>1
    <3> QED
      BY <3>1, <3>2 DEF x, y, z
  <2> QED
    BY <1>0, <2>1 DEF Through
<1>3. <<0, 0, 0>> \in R
  <2>1. Through(kernel, worth, 0) = [i \in DOMAIN kernel |-> kernel[i].weight * kernel[i].reward]
    <3>1. \A i \in DOMAIN kernel :
             Through(kernel, worth, 0)[i] = kernel[i].weight * kernel[i].reward
      BY <1>0, KernelFacts DEF Through
    <3>2. Through(kernel, worth, 0) = [i \in DOMAIN kernel |-> Through(kernel, worth, 0)[i]]
      BY DEF Through
    <3> QED
      BY <3>1, <3>2
  <2>2. Total(Through(kernel, worth, 0)) = Reward(kernel) + 0
    BY <1>0, <2>1 DEF Reward
  <2> QED
    BY <1>0, <2>2
<1>4. ASSUME NEW k \in 1..n, NEW x \in Int, NEW y \in Int, <<k - 1, x, y>> \in R
      PROVE  <<k, x + a[k], y + a[k]>> \in R
  <2> DEFINE part == [i \in 1..N |-> worth[C[k]] * Numbers(kernel, C[k])[i]]
  <2>1. part \in [1..N -> Int] /\ \A i \in 1..N : part[i] = worth[C[k]] * Numbers(kernel, C[k])[i]
    <3>1. worth[C[k]] \in Int /\ \A i \in 1..N : Numbers(kernel, C[k])[i] \in Int
      BY <1>0, MassIs
    <3> QED
      BY <3>1
  <2> HIDE DEF part
  <2>2. Total(part) = worth[C[k]] * Mass(kernel, C[k])
    <3>1. PICK b, z, L : b = Numbers(kernel, C[k]) /\ z = worth[C[k]] /\ L = N
      OBVIOUS
    <3>2. b \in [1..L -> Int] /\ Mass(kernel, C[k]) = Total(b) /\ z \in Int /\ L \in Nat
      BY <1>0, <3>1, MassIs
    <3>3. part \in [1..L -> Int] /\ \A i \in 1..L : part[i] = z * b[i]
      BY <2>1, <3>1
    <3>4. Total(part) = z * Total(b)
      BY <3>2, <3>3, TotalScales
    <3> QED
      BY <3>1, <3>2, <3>4
  <2>3. ASSUME NEW i \in 1..N
        PROVE  Through(kernel, worth, k)[i] = Through(kernel, worth, k - 1)[i] + part[i]
    <3> DEFINE u == kernel[i].weight * kernel[i].reward
               v == kernel[i].weight * Halved(kernel[i].duration)
               z == worth[kernel[i].next]
               Met(j) == \E m \in 1..j : C[m] = kernel[i].next
    <3>1. /\ Through(kernel, worth, k)[i] = u + (IF Met(k) THEN v * z ELSE 0)
          /\ Through(kernel, worth, k - 1)[i] = u + (IF Met(k - 1) THEN v * z ELSE 0)
      BY <1>0 DEF Through
    <3>2. Met(k) <=> Met(k - 1) \/ C[k] = kernel[i].next
      <4>1. 1..k = (1..(k - 1)) \cup {k}
        OBVIOUS
      <4> QED
        BY <4>1
    <3>3. C[k] = kernel[i].next => ~Met(k - 1)
      BY <1>0, ClassesAre
    <3>4. part[i] = IF C[k] = kernel[i].next THEN z * v ELSE worth[C[k]] * 0
      BY <1>0, <2>1 DEF Numbers
    <3>5. u \in Int /\ v \in Int /\ z \in Int /\ worth[C[k]] \in Int
      BY <1>0, KernelFacts
    <3> HIDE DEF u, v, z, Met
    <3>6. v * z \in Int /\ z * v = v * z /\ worth[C[k]] * 0 = 0
      BY <3>5
    <3> QED
      BY <3>1, <3>2, <3>3, <3>4, <3>5, <3>6
  <2>4. Total(Through(kernel, worth, k)) = Total(Through(kernel, worth, k - 1)) + Total(part)
    <3>1. PICK b, c, L : b = Through(kernel, worth, k - 1) /\ c = Through(kernel, worth, k) /\ L = N
      OBVIOUS
    <3>2. L \in Nat /\ b \in [1..L -> Int] /\ c \in [1..L -> Int] /\ part \in [1..L -> Int]
      BY <1>0, <1>2, <2>1, <3>1
    <3>3. \A i \in 1..L : c[i] = b[i] + part[i]
      BY <2>3, <3>1
    <3>4. Total(c) = Total(b) + Total(part)
      BY <3>2, <3>3, TotalAdds
    <3> QED
      BY <3>1, <3>4
  <2>5. a[k] = Mass(kernel, C[k]) * worth[C[k]]
    BY DEF ByClass
  <2>6. Total(part) = a[k]
    <3> DEFINE p == Mass(kernel, C[k])  q == worth[C[k]]
    <3>1. p \in Int /\ q \in Int
      BY <1>0
    <3> HIDE DEF p, q
    <3>2. q * p = p * q
      BY <3>1
    <3> QED
      BY <2>2, <2>5, <3>2 DEF p, q
  <2>7. a[k] \in Int /\ k \in 0..n /\ Total(Through(kernel, worth, k - 1)) = Reward(kernel) + x
    BY <1>1, <1>4
  <2>8. Total(Through(kernel, worth, k)) = Reward(kernel) + (x + a[k])
    BY <1>0, <2>4, <2>6, <2>7
  <2> QED
    BY <2>7, <2>8
<1>5. Total(Through(kernel, worth, n)) = Reward(kernel) + Total(a)
  <2> HIDE DEF R, a
  <2>1. <<n, Total(a), Total(a)>> \in R
    BY <1>0, <1>1, <1>3, <1>4, TotalsFollow
  <2> QED
    BY <2>1 DEF R
<1>6. Worth(kernel, worth) = Total(Through(kernel, worth, n))
  <2> DEFINE whole == [i \in DOMAIN kernel |->
              kernel[i].weight * (kernel[i].reward
                                    + Halved(kernel[i].duration) * worth[kernel[i].next])]
  <2>1. ASSUME NEW i \in DOMAIN kernel PROVE whole[i] = Through(kernel, worth, n)[i]
    <3> DEFINE w == kernel[i].weight  r == kernel[i].reward
               h == Halved(kernel[i].duration)  z == worth[kernel[i].next]
    <3>1. w \in Int /\ r \in Int /\ h \in Int /\ z \in Int
      BY <1>0, KernelFacts
    <3>2. \E m \in 1..n : C[m] = kernel[i].next
      BY <1>0, ClassesAre, KernelFacts
    <3>3. Through(kernel, worth, n)[i] = w * r + (w * h) * z
      BY <3>2 DEF Through
    <3>4. whole[i] = w * (r + h * z)
      OBVIOUS
    <3> HIDE DEF w, r, h, z, whole
    <3>5. w * (r + h * z) = w * r + (w * h) * z
      BY <3>1
    <3> QED
      BY <3>3, <3>4, <3>5
  <2>2. Through(kernel, worth, n) = [i \in DOMAIN kernel |-> Through(kernel, worth, n)[i]]
    BY DEF Through
  <2>3. whole = Through(kernel, worth, n)
    BY <2>1, <2>2
  <2> HIDE DEF whole
  <2>4. Worth(kernel, worth) = Total(whole)
    BY DEF Worth, whole
  <2> QED
    BY <2>3, <2>4
<1> QED
  BY <1>1, <1>5, <1>6

LEMMA NearTimes ==
    ASSUME NEW p \in Int, NEW q \in Int, NEW x \in Int, NEW t \in Nat, Difference(p, q) <= t
    PROVE  /\ p * x - q * x <= t * Difference(x, 0) /\ -(t * Difference(x, 0)) <= p * x - q * x
           /\ Difference(x, 0) \in Nat
<1> DEFINE d == p - q
<1>1. d \in Int /\ d <= t /\ -t <= d
  BY DEF Difference
<1>2. p * x - q * x = d * x
  OBVIOUS
<1> HIDE DEF d
<1>3. CASE x >= 0
  <2>1. Difference(x, 0) = x
    BY <1>3 DEF Difference
  <2>2. d * x <= t * x /\ (-t) * x <= d * x
    BY <1>1, <1>3
  <2>3. (-t) * x = -(t * x)
    OBVIOUS
  <2> QED
    BY <1>2, <1>3, <2>1, <2>2, <2>3
<1>4. CASE x < 0
  <2> DEFINE y == -x
  <2>1. y \in Nat /\ Difference(x, 0) = y /\ d * x = -(d * y)
    BY <1>1, <1>4 DEF Difference
  <2> HIDE DEF y
  <2>2. d * y <= t * y /\ (-t) * y <= d * y
    BY <1>1, <2>1
  <2>3. (-t) * y = -(t * y) /\ d * y \in Int /\ t * y \in Int
    BY <1>1, <2>1
  <2> QED
    BY <1>2, <2>1, <2>2, <2>3
<1> QED
  BY <1>3, <1>4

(* What two states are alike in bounds what any worth of the classes makes *)
(* of them.                                                                *)
LEMMA AlikeKeepsWorth ==
    ASSUME NEW l \in Seq(AtomType), NEW r \in Seq(AtomType), Alike(l, r),
           NEW worth \in [NextClasses -> Int]
    PROVE  Difference(Worth(l, worth), Worth(r, worth)) <= Tolerance * (1 + Size(worth))
<1>0. PICK n, C, T, a, b :
        /\ n = Cardinality(NextClasses) /\ C = Classes /\ T = Tolerance
        /\ a = ByClass(l, worth) /\ b = ByClass(r, worth)
  OBVIOUS
<1>c. PICK c : c = [j \in 1..n |-> a[j] - b[j]]
  OBVIOUS
<1>s. PICK s : s = [j \in 1..n |-> Difference(worth[C[j]], 0)]
  OBVIOUS
<1>t. PICK t : t = [j \in 1..n |-> T * s[j]]
  OBVIOUS
<1>1. /\ n \in Nat /\ T \in Nat /\ a \in [1..n -> Int] /\ b \in [1..n -> Int]
      /\ \A j \in 1..n : C[j] \in NextClasses /\ worth[C[j]] \in Int
      /\ DOMAIN C = 1..n
  BY <1>0, ClassesAre, WorthIs, FusionAssumption
<1>2. /\ Worth(l, worth) = Reward(l) + Total(a) /\ Worth(r, worth) = Reward(r) + Total(b)
      /\ Reward(l) \in Int /\ Reward(r) \in Int
      /\ Difference(Reward(l), Reward(r)) <= T
  BY <1>0, WorthIs, MassIs DEF Alike
<1>3. ASSUME NEW j \in 1..n
      PROVE  s[j] \in Nat /\ a[j] - b[j] <= T * s[j] /\ -(T * s[j]) <= a[j] - b[j]
  <2>1. PICK p, q, x : p = Mass(l, C[j]) /\ q = Mass(r, C[j]) /\ x = worth[C[j]]
    OBVIOUS
  <2>2. p \in Int /\ q \in Int /\ x \in Int /\ Difference(p, q) <= T
    BY <1>0, <1>1, <2>1, MassIs DEF Alike
  <2>3. a[j] = p * x /\ b[j] = q * x
    BY <1>0, <2>1 DEF ByClass
  <2>4. s[j] = Difference(x, 0)
    BY <1>s, <2>1
  <2> QED
    BY <1>1, <2>2, <2>3, <2>4, NearTimes
<1>4. s \in [1..n -> Int] /\ c \in [1..n -> Int]
  <2>1. \A j \in 1..n : s[j] \in Int /\ a[j] - b[j] \in Int
    BY <1>1, <1>3
  <2> QED
    BY <1>c, <1>s, <2>1
<1>5. t \in [1..n -> Int] /\ \A j \in 1..n : t[j] = T * s[j]
  <2>1. \A j \in 1..n : s[j] \in Int /\ T * s[j] \in Int
    BY <1>1, <1>4
  <2> QED
    BY <1>t, <2>1
<1>6. \A j \in 1..n : a[j] = b[j] + c[j] /\ c[j] <= t[j] /\ -t[j] <= c[j]
  <2>1. \A j \in 1..n : c[j] = a[j] - b[j]
    BY <1>c
  <2> QED
    BY <1>1, <1>3, <1>4, <1>5, <2>1
<1>7. Size(worth) = Total(s)
  BY <1>0, <1>1, <1>s DEF Size, Classes
<1>8. Total(t) = T * Total(s) /\ Total(s) \in Int /\ Total(t) \in Int
  <2>1. n \in Nat /\ T \in Int
    BY <1>1
  <2>2. Total(t) = T * Total(s)
    BY <1>4, <1>5, <2>1, TotalScales
  <2>3. Total(s) \in Int /\ Total(t) \in Int
    BY <1>4, <1>5, <2>1, TotalTyped
  <2> QED
    BY <2>2, <2>3
<1>9. Total(a) = Total(b) + Total(c) /\ Total(b) \in Int /\ Total(c) \in Int
  <2>1. n \in Nat /\ b \in [1..n -> Int] /\ a \in [1..n -> Int]
    BY <1>1
  <2>2. \A j \in 1..n : a[j] = b[j] + c[j]
    BY <1>6
  <2> QED
    BY <1>4, <2>1, <2>2, TotalAdds
<1>10. Total(c) <= Total(t) /\ -Total(t) <= Total(c)
  <2> DEFINE R == {q \in Int \X Int \X Int : q[2] <= q[3] /\ -q[3] <= q[2]}
  <2>1. <<0, 0, 0>> \in R
    OBVIOUS
  <2>2. ASSUME NEW k \in 1..n, NEW x \in Int, NEW y \in Int, <<k - 1, x, y>> \in R
        PROVE  <<k, x + c[k], y + t[k]>> \in R
    <3>1. x <= y /\ -y <= x
      BY <2>2
    <3>2. c[k] \in Int /\ t[k] \in Int /\ c[k] <= t[k] /\ -t[k] <= c[k]
      BY <1>4, <1>5, <1>6
    <3>3. x + c[k] <= y + t[k] /\ -(y + t[k]) <= x + c[k]
      BY <3>1, <3>2
    <3>4. k \in Int /\ x + c[k] \in Int /\ y + t[k] \in Int
      BY <3>2
    <3> QED
      BY <3>3, <3>4
  <2> HIDE DEF R
  <2>3. <<n, Total(c), Total(t)>> \in R
    BY <1>1, <1>4, <1>5, <2>1, <2>2, TotalsFollow
  <2> QED
    BY <2>3 DEF R
<1>11. T * (1 + Size(worth)) = T + Total(t)
  BY <1>1, <1>7, <1>8
<1>12. Worth(l, worth) - Worth(r, worth) = (Reward(l) - Reward(r)) + Total(c)
  BY <1>2, <1>9
<1>13. PICK x, y, p, q, u, v :
         /\ x = Worth(l, worth) /\ y = Worth(r, worth) /\ p = Reward(l) /\ q = Reward(r)
         /\ u = Total(c) /\ v = Total(t)
  OBVIOUS
<1>14. x \in Int /\ y \in Int /\ p \in Int /\ q \in Int /\ u \in Int /\ v \in Int
  BY <1>2, <1>8, <1>9, <1>13
<1>15. x - y = (p - q) + u /\ u <= v /\ -v <= u /\ Difference(p, q) <= T
  BY <1>2, <1>10, <1>12, <1>13
<1>16. Difference(x, y) <= T + v
  BY <1>1, <1>14, <1>15 DEF Difference
<1> QED
  BY <1>0, <1>11, <1>13, <1>16

(* A worth of one class alone.                                             *)
Lone(c, y) == [d \in NextClasses |-> IF d = c THEN y ELSE 0]

LEMMA LoneIs ==
    ASSUME NEW c \in NextClasses, NEW y \in Int, NEW kernel \in Seq(AtomType)
    PROVE  /\ Lone(c, y) \in [NextClasses -> Int]
           /\ Size(Lone(c, y)) = Difference(y, 0)
           /\ Worth(kernel, Lone(c, y)) = Reward(kernel) + Mass(kernel, c) * y
<1>0. PICK n, C, worth : n = Cardinality(NextClasses) /\ C = Classes /\ worth = Lone(c, y)
  OBVIOUS
<1>1. /\ n \in Nat /\ C \in [1..n -> NextClasses] /\ \A i, j \in 1..n : C[i] = C[j] => i = j
  BY <1>0, ClassesAre
<1>2. PICK i \in 1..n : C[i] = c
  BY <1>0, ClassesAre
<1>3. worth \in [NextClasses -> Int] /\ worth[c] = y /\ \A j \in 1..n : j # i => worth[C[j]] = 0
  BY <1>0, <1>1, <1>2 DEF Lone
<1>4. Size(worth) = Difference(y, 0)
  <2>0. PICK s : s = [j \in 1..n |-> Difference(worth[C[j]], 0)]
    OBVIOUS
  <2>1. s \in [1..n -> Int] /\ s[i] = Difference(y, 0) /\ \A j \in 1..n : j # i => s[j] = 0
    <3>1. \A j \in 1..n : worth[C[j]] \in Int
      BY <1>1, <1>3
    <3> QED
      BY <1>2, <1>3, <2>0, <3>1 DEF Difference
  <2>2. Size(worth) = Total(s)
    BY <1>0, <1>1, <2>0 DEF Size, Classes
  <2> QED
    <3>1. n \in Nat /\ i \in 1..n
      BY <1>1
    <3>2. Total(s) = s[i]
      BY <2>1, <3>1, TotalOfOne
    <3> QED
      BY <2>1, <2>2, <3>2
<1>5. Worth(kernel, worth) = Reward(kernel) + Mass(kernel, c) * y
  <2>1. PICK a : a = ByClass(kernel, worth)
    OBVIOUS
  <2>2. a \in [1..n -> Int] /\ Worth(kernel, worth) = Reward(kernel) + Total(a)
    BY <1>0, <1>3, <2>1, WorthIs
  <2>3. a[i] = Mass(kernel, c) * y
    BY <1>0, <1>2, <1>3, <2>1 DEF ByClass
  <2>4. \A j \in 1..n : j # i => a[j] = 0
    <3> SUFFICES ASSUME NEW j \in 1..n, j # i PROVE a[j] = 0
      OBVIOUS
    <3>1. PICK m : m = Mass(kernel, C[j])
      OBVIOUS
    <3>2. a[j] = m * 0 /\ m \in Int
      BY <1>0, <1>3, <2>1, <3>1, MassIs DEF ByClass
    <3> QED
      BY <3>2
  <2>5. Total(a) = a[i]
    BY <1>1, <2>2, <2>4, TotalOfOne
  <2> QED
    BY <2>2, <2>3, <2>5
<1> QED
  BY <1>0, <1>3, <1>4, <1>5

(* What is not alike is told apart by a worth of one class at most.        *)
LEMMA WorthTellsApart ==
    ASSUME NEW l \in Seq(AtomType), NEW r \in Seq(AtomType),
           \A worth \in [NextClasses -> Worths] :
              Difference(Worth(l, worth), Worth(r, worth)) <= Tolerance * (1 + Size(worth))
    PROVE  Alike(l, r)
<1>0. PICK T, L, R : T = Tolerance /\ L = Reward(l) /\ R = Reward(r)
  OBVIOUS
<1>1. T \in Nat /\ L \in Int /\ R \in Int /\ {-(T + 1), 0, T + 1} \subseteq Worths
  BY <1>0, MassIs, FusionAssumption
<1>2. ASSUME NEW c \in NextClasses, NEW y \in {-(T + 1), 0, T + 1}
      PROVE  /\ Mass(l, c) \in Int /\ Mass(r, c) \in Int /\ y \in Int
             /\ Difference(L + Mass(l, c) * y, R + Mass(r, c) * y) <= T * (1 + Difference(y, 0))
  <2>1. y \in Int
    BY <1>1
  <2>2. Lone(c, y) \in [NextClasses -> Worths]
    BY <1>1 DEF Lone
  <2> QED
    BY <1>0, <2>1, <2>2, LoneIs, MassIs
<1>3. Difference(L, R) <= T
  <2>1. CASE NextClasses = {}
    <3> DEFINE worth == [c \in NextClasses |-> 0]
    <3>1. worth \in [NextClasses -> Worths] /\ worth \in [NextClasses -> Int]
      BY <1>1
    <3>2. Cardinality(NextClasses) = 0
      BY <2>1, FS_EmptySet
    <3> HIDE DEF worth
    <3>3. \A k \in Seq(AtomType) : Worth(k, worth) = Reward(k)
      <4> SUFFICES ASSUME NEW k \in Seq(AtomType) PROVE Worth(k, worth) = Reward(k)
        OBVIOUS
      <4>1. PICK a : a = ByClass(k, worth)
        OBVIOUS
      <4>2. a \in [1..0 -> Int] /\ Worth(k, worth) = Reward(k) + Total(a)
        BY <3>1, <3>2, <4>1, WorthIs
      <4>3. Total(a) = 0
        <5>1. \A j \in 1..0 : a[j] = 0
          OBVIOUS
        <5>2. 0 \in Nat
          OBVIOUS
        <5> QED
          BY <4>2, <5>1, <5>2, TotalOfNone
      <4> QED
        BY <4>2, <4>3, MassIs
    <3>4. Size(worth) = 0
      <4>0. PICK s : s = [j \in 1..0 |-> Difference(worth[Classes[j]], 0)]
        OBVIOUS
      <4>1. s \in [1..0 -> Int] /\ \A j \in 1..0 : s[j] = 0
        BY <4>0
      <4>2. Size(worth) = Total(s)
        BY <3>2, <4>0, ClassesAre DEF Size, Classes
      <4> QED
        BY <4>1, <4>2, TotalOfNone
    <3>5. Difference(L, R) <= T * (1 + 0)
      BY <1>0, <3>1, <3>3, <3>4
    <3> QED
      BY <1>1, <3>5
  <2>2. CASE NextClasses # {}
    <3>1. PICK c \in NextClasses : TRUE
      BY <2>2
    <3>2. PICK p, q : p = Mass(l, c) /\ q = Mass(r, c)
      OBVIOUS
    <3>3. p \in Int /\ q \in Int /\ Difference(L + p * 0, R + q * 0) <= T * (1 + Difference(0, 0))
      BY <1>2, <3>2
    <3>4. p * 0 = 0 /\ q * 0 = 0 /\ T * (1 + Difference(0, 0)) = T
      BY <1>1, <3>3 DEF Difference
    <3> QED
      BY <1>1, <3>3, <3>4
  <2> QED
    BY <2>1, <2>2
<1>4. ASSUME NEW c \in NextClasses PROVE Difference(Mass(l, c), Mass(r, c)) <= T
  <2>1. PICK p, q, u : p = Mass(l, c) /\ q = Mass(r, c) /\ u = T + 1
    OBVIOUS
  <2>2. p \in Int /\ q \in Int /\ u \in Nat /\ u = T + 1
    BY <1>1, <1>2, <2>1
  <2>3. /\ Difference(L + p * u, R + q * u) <= T * (1 + u)
        /\ Difference(L + p * (-u), R + q * (-u)) <= T * (1 + u)
    <3>1. Difference(u, 0) = u /\ Difference(-u, 0) = u
      BY <1>1, <2>2 DEF Difference
    <3>2. u \in {-(T + 1), 0, T + 1} /\ -u \in {-(T + 1), 0, T + 1}
      BY <2>2
    <3> QED
      BY <1>2, <2>1, <3>1, <3>2
  <2>4. p * (-u) = -(p * u) /\ q * (-u) = -(q * u) /\ p * u \in Int /\ q * u \in Int
    BY <2>2
  <2>5. PICK d, e : d = p - q /\ e = L - R
    OBVIOUS
  <2>6. p * u - q * u = d * u /\ d \in Int /\ e \in Int
    BY <1>1, <2>2, <2>5
  <2>7. T * (1 + u) = u * u - 1
    BY <1>1, <2>2
  <2>8. /\ e + d * u <= u * u - 1 /\ -(e + d * u) <= u * u - 1
        /\ e - d * u <= u * u - 1 /\ -(e - d * u) <= u * u - 1
    BY <1>1, <2>2, <2>3, <2>4, <2>5, <2>6, <2>7 DEF Difference
  <2>9. d * u <= u * u - 1 /\ -(d * u) <= u * u - 1
    <3>1. PICK v, w : v = d * u /\ w = u * u
      OBVIOUS
    <3>2. v \in Int /\ w \in Int
      <4>1. d * u \in Int /\ u * u \in Int
        BY <2>2, <2>6
      <4> QED
        BY <3>1, <4>1
    <3> QED
      BY <2>6, <2>8, <3>1, <3>2
  <2>10. d < u /\ -d < u
    <3>1. CASE d >= u
      <4>0. d * u \in Int /\ u * u \in Int
        BY <2>2, <2>6
      <4>1. d * u >= u * u
        BY <2>2, <2>6, <3>1
      <4> QED
        BY <2>2, <2>9, <4>1, <4>0
    <3>2. CASE -d >= u
      <4>0. d * u \in Int /\ u * u \in Int
        BY <2>2, <2>6
      <4>1. PICK f : f = -d
        OBVIOUS
      <4>2. f \in Int /\ f >= u
        BY <2>6, <3>2, <4>1
      <4>3. f * u >= u * u
        BY <2>2, <4>2
      <4>4. f * u = -(d * u)
        BY <2>2, <2>6, <4>1
      <4> QED
        BY <2>9, <4>0, <4>3, <4>4
    <3> QED
      BY <2>2, <2>6, <3>1, <3>2
  <2> QED
    BY <1>1, <2>1, <2>2, <2>5, <2>10 DEF Difference
<1> QED
  BY <1>0, <1>3, <1>4 DEF Alike

(* An assessment is that of the two kernels that were declared.            *)
FusionInv ==
    /\ declared \in Seq(Models)
    /\ reason # "none" => Len(declared) = 2 /\ reason = Reason(declared[1], declared[2])

LEMMA FusionStart == FusionInit => FusionInv
BY DEF FusionInit, FusionInv

LEMMA FusionStep == FusionInv /\ [FusionNext]_fusionVars => FusionInv'
<1> SUFFICES ASSUME FusionInv, [FusionNext]_fusionVars PROVE FusionInv'
  OBVIOUS
<1>1. CASE Declare
  BY <1>1 DEF Declare, FusionInv
<1>2. CASE Assess
  BY <1>2 DEF Assess, FusionInv
<1>3. CASE UNCHANGED fusionVars
  BY <1>3 DEF fusionVars, FusionInv
<1> QED
  BY <1>1, <1>2, <1>3 DEF FusionNext

LEMMA AssessmentKeepsWorth == FusionInv => FusionKeepsWorth
<1> SUFFICES ASSUME FusionInv, reason # "none" PROVE FusionKeepsWorth
  BY DEF FusionKeepsWorth
<1>1. PICK l, r : l = declared[1] /\ r = declared[2]
  OBVIOUS
<1>2. l \in Models /\ r \in Models /\ reason = Reason(l, r)
  BY <1>1 DEF FusionInv
<1>3. /\ l.exact \in BOOLEAN /\ r.exact \in BOOLEAN /\ Worths \subseteq Int
      /\ \A o \in DOMAIN l.kernels : l.kernels[o] \in Seq(AtomType)
      /\ \A o \in DOMAIN r.kernels : r.kernels[o] \in Seq(AtomType)
  BY <1>2, FusionAssumption
<1>4. ASSUME l.exact, r.exact, DOMAIN l.kernels = DOMAIN r.kernels
      PROVE  \A o \in DOMAIN l.kernels :
                Alike(l.kernels[o], r.kernels[o]) <=>
                  \A worth \in [NextClasses -> Worths] :
                     Difference(Worth(l.kernels[o], worth), Worth(r.kernels[o], worth))
                        <= Tolerance * (1 + Size(worth))
  <2> SUFFICES ASSUME NEW o \in DOMAIN l.kernels
               PROVE  Alike(l.kernels[o], r.kernels[o]) <=>
                  \A worth \in [NextClasses -> Worths] :
                     Difference(Worth(l.kernels[o], worth), Worth(r.kernels[o], worth))
                        <= Tolerance * (1 + Size(worth))
    OBVIOUS
  <2>1. l.kernels[o] \in Seq(AtomType) /\ r.kernels[o] \in Seq(AtomType)
    BY <1>3, <1>4
  <2>2. \A worth \in [NextClasses -> Worths] : worth \in [NextClasses -> Int]
    BY <1>3
  <2> QED
    BY <2>1, <2>2, AlikeKeepsWorth, WorthTellsApart
<1>5. reason = "match" <=>
        /\ l.exact /\ r.exact /\ DOMAIN l.kernels = DOMAIN r.kernels
        /\ \A o \in DOMAIN l.kernels : Alike(l.kernels[o], r.kernels[o])
  <2>1. CASE ~l.exact \/ ~r.exact
    BY <1>2, <1>3, <2>1 DEF Reason
  <2>2. CASE l.exact /\ r.exact /\ DOMAIN l.kernels # DOMAIN r.kernels
    BY <1>2, <1>3, <2>2 DEF Reason
  <2>3. CASE l.exact /\ r.exact /\ DOMAIN l.kernels = DOMAIN r.kernels
    BY <1>2, <1>3, <2>3 DEF Reason
  <2> QED
    BY <1>3, <2>1, <2>2, <2>3
<1> QED
  BY <1>1, <1>4, <1>5 DEF FusionKeepsWorth

(* For every two models, every finite set of classes and every tolerance:  *)
(* two states are taken for one exactly if no worth of their next classes  *)
(* can tell them further apart than the tolerance allows.                  *)
THEOREM FusionCorrect == FusionSpec => []FusionKeepsWorth
BY FusionStart, FusionStep, AssessmentKeepsWorth, PTL DEF FusionSpec

-----------------------------------------------------------------------------
(* Values.                                                                 *)

LEMMA DiscountTyped ==
    ASSUME NEW t \in Nat
    PROVE  Discount(t) \in Int
  BY PowersOfTwo, LearningAssumption DEF Discount

(* A segment that pays in the tick before t.                               *)
Pays(segment, t) == segment.start <= t - 1 /\ t - 1 < segment.end

Earlier(s, t) == IF s <= t THEN s ELSE t

(* What a segment has paid when t ticks are over.                          *)
Until(component, t) ==
    [k \in DOMAIN component.segments |->
        component.segments[k].rate
          * (Discount(Earlier(component.segments[k].start, t))
               - Discount(Earlier(component.segments[k].end, t)))]

Tick(component, t, weight) ==
    [k \in DOMAIN component.segments |->
        IF Pays(component.segments[k], t) THEN component.segments[k].rate * weight ELSE 0]

LEMMA SegmentFacts ==
    ASSUME NEW c \in ComponentType, ValidComponent(c)
    PROVE  /\ Len(c.segments) \in Nat /\ DOMAIN c.segments = 1..Len(c.segments)
           /\ \A k \in 1..Len(c.segments) :
                 /\ c.segments[k].start \in Nat /\ c.segments[k].end \in Nat
                 /\ c.segments[k].rate \in Int
                 /\ c.segments[k].start < c.segments[k].end
           /\ \A j, k \in 1..Len(c.segments) :
                 j < k => c.segments[j].end <= c.segments[k].start
<1>1. c.segments \in Seq(SegmentType)
  BY DEF ComponentType
<1>2. Len(c.segments) \in Nat /\ DOMAIN c.segments = 1..Len(c.segments)
  BY <1>1
<1>3. \A k \in 1..Len(c.segments) : c.segments[k] \in SegmentType
  BY <1>1
<1> QED
  BY <1>2, <1>3 DEF SegmentType, ValidComponent

(* At most one segment pays in a tick, and the rate of the tick is its.    *)
LEMMA TickIs ==
    ASSUME NEW c \in ComponentType, ValidComponent(c), NEW t \in Nat \ {0}, NEW w \in Int
    PROVE  /\ Tick(c, t, w) \in [1..Len(c.segments) -> Int]
           /\ Total(Tick(c, t, w)) = Rate(c, t - 1) * w
           /\ Rate(c, t - 1) \in Int
<1>0. PICK n, s, a : n = Len(c.segments) /\ s = c.segments /\ a = Tick(c, t, w)
  OBVIOUS
<1>1. /\ n \in Nat /\ DOMAIN s = 1..n
      /\ \A k \in 1..n : /\ s[k].start \in Nat /\ s[k].end \in Nat /\ s[k].rate \in Int
                         /\ s[k].start < s[k].end
      /\ \A j, k \in 1..n : j < k => s[j].end <= s[k].start
  BY <1>0, SegmentFacts
<1>2. a \in [1..n -> Int] /\ \A k \in 1..n : a[k] = IF Pays(s[k], t) THEN s[k].rate * w ELSE 0
  <2>1. \A k \in 1..n : s[k].rate * w \in Int
    BY <1>1
  <2> QED
    BY <1>0, <1>1, <2>1 DEF Tick
<1> DEFINE now == {q \in Range(s) : q.start <= t - 1 /\ t - 1 < q.end}
<1>3. Rate(c, t - 1) = IF now = {} THEN 0 ELSE (CHOOSE q \in now : TRUE).rate
  BY <1>0 DEF Rate
<1>4. now = {s[k] : k \in {j \in 1..n : Pays(s[j], t)}}
  BY <1>1 DEF Range, Pays
<1>5. CASE \E i \in 1..n : Pays(s[i], t)
  <2>1. PICK i \in 1..n : Pays(s[i], t)
    BY <1>5
  <2>2. \A j \in 1..n : Pays(s[j], t) => j = i
    <3> SUFFICES ASSUME NEW j \in 1..n, Pays(s[j], t), j # i PROVE FALSE
      OBVIOUS
    <3>1. j < i \/ i < j
      OBVIOUS
    <3>2. s[j].end <= s[i].start \/ s[i].end <= s[j].start
      BY <1>1, <3>1
    <3> QED
      BY <1>1, <2>1, <3>2 DEF Pays
  <2>3. now = {s[i]}
    BY <1>4, <2>1, <2>2
  <2>4. Rate(c, t - 1) = s[i].rate
    BY <1>3, <2>3
  <2>5. Total(a) = a[i]
    <3>1. \A j \in 1..n : j # i => a[j] = 0
      BY <1>2, <2>2
    <3> QED
      BY <1>1, <1>2, <3>1, TotalOfOne
  <2> QED
    BY <1>0, <1>1, <1>2, <2>1, <2>4, <2>5
<1>6. CASE \A i \in 1..n : ~Pays(s[i], t)
  <2>1. now = {}
    BY <1>4, <1>6
  <2>2. Rate(c, t - 1) = 0
    BY <1>3, <2>1
  <2>3. \A i \in 1..n : a[i] = 0
    BY <1>2, <1>6
  <2>4. Total(a) = 0
    BY <1>1, <1>2, <2>3, TotalOfNone
  <2> QED
    BY <1>0, <1>2, <2>2, <2>4
<1> QED
  BY <1>5, <1>6

Ticks(component, duration) ==
    [t \in 1..duration |-> Rate(component, t - 1) * (Discount(t - 1) - Discount(t))]

Integrals(component) ==
    [k \in DOMAIN component.segments |-> Integral(component.segments[k])]

LEMMA UntilSteps ==
    ASSUME NEW c \in ComponentType, ValidComponent(c), NEW t \in Nat \ {0}
    PROVE  /\ Until(c, t) \in [1..Len(c.segments) -> Int]
           /\ Until(c, t - 1) \in [1..Len(c.segments) -> Int]
           /\ \A k \in 1..Len(c.segments) :
                 Until(c, t)[k] =
                    Until(c, t - 1)[k] + Tick(c, t, Discount(t - 1) - Discount(t))[k]
<1>0. PICK n, s : n = Len(c.segments) /\ s = c.segments
  OBVIOUS
<1>1. /\ n \in Nat /\ DOMAIN s = 1..n
      /\ \A k \in 1..n : /\ s[k].start \in Nat /\ s[k].end \in Nat /\ s[k].rate \in Int
                         /\ s[k].start < s[k].end
  BY <1>0, SegmentFacts
<1>2. \A u \in Nat, v \in Nat : Earlier(v, u) \in Nat /\ Discount(Earlier(v, u)) \in Int
  <2> SUFFICES ASSUME NEW u \in Nat, NEW v \in Nat
               PROVE  Earlier(v, u) \in Nat /\ Discount(Earlier(v, u)) \in Int
    OBVIOUS
  <2>1. Earlier(v, u) \in Nat
    BY DEF Earlier
  <2> QED
    BY <2>1, DiscountTyped
<1>3. ASSUME NEW u \in Nat PROVE Until(c, u) \in [1..n -> Int]
  <2>1. ASSUME NEW k \in 1..n
        PROVE  s[k].rate * (Discount(Earlier(s[k].start, u)) - Discount(Earlier(s[k].end, u))) \in Int
    <3>1. PICK x, y, z : /\ x = s[k].rate /\ y = Discount(Earlier(s[k].start, u))
                         /\ z = Discount(Earlier(s[k].end, u))
      OBVIOUS
    <3>2. x \in Int /\ y \in Int /\ z \in Int
      BY <1>1, <1>2, <3>1
    <3>3. x * (y - z) \in Int
      BY <3>2
    <3> QED
      BY <3>1, <3>3
  <2> QED
    BY <1>0, <1>1, <2>1 DEF Until
<1>4. ASSUME NEW k \in 1..n
      PROVE  Until(c, t)[k] = Until(c, t - 1)[k] + Tick(c, t, Discount(t - 1) - Discount(t))[k]
  <2>1. PICK r, b, e, p, q :
          r = s[k].rate /\ b = s[k].start /\ e = s[k].end /\ p = Discount(t - 1) /\ q = Discount(t)
    OBVIOUS
  <2>2. r \in Int /\ b \in Nat /\ e \in Nat /\ b < e /\ p \in Int /\ q \in Int
    <3>1. t \in Nat /\ t - 1 \in Nat
      OBVIOUS
    <3> QED
      BY <1>1, <2>1, <3>1, DiscountTyped
  <2>3. /\ Until(c, t)[k] = r * (Discount(Earlier(b, t)) - Discount(Earlier(e, t)))
        /\ Until(c, t - 1)[k] = r * (Discount(Earlier(b, t - 1)) - Discount(Earlier(e, t - 1)))
        /\ Tick(c, t, p - q)[k] = IF Pays(s[k], t) THEN r * (p - q) ELSE 0
    BY <1>0, <1>1, <2>1 DEF Until, Tick
  <2>4. Pays(s[k], t) <=> b <= t - 1 /\ t - 1 < e
    BY <2>1 DEF Pays
  <2>5. CASE b <= t - 1 /\ t - 1 < e
    <3>1. /\ Earlier(b, t) = b /\ Earlier(b, t - 1) = b
          /\ Earlier(e, t) = t /\ Earlier(e, t - 1) = t - 1
      BY <2>2, <2>5 DEF Earlier
    <3>2. PICK x : x = Discount(b)
      OBVIOUS
    <3>3. x \in Int
      BY <2>2, <3>2, DiscountTyped
    <3>4. r * (x - q) = r * (x - p) + r * (p - q)
      BY <2>2, <3>3
    <3> QED
      BY <2>1, <2>3, <2>4, <2>5, <3>1, <3>2, <3>4
  <2>6. CASE t - 1 < b
    <3>1. /\ Earlier(b, t) = t /\ Earlier(e, t) = t
          /\ Earlier(b, t - 1) = t - 1 /\ Earlier(e, t - 1) = t - 1
      BY <2>2, <2>6 DEF Earlier
    <3>2. r * (p - p) = 0 /\ r * (q - q) = 0
      BY <2>2
    <3>3. ~(b <= t - 1)
      BY <2>2, <2>6
    <3> QED
      BY <2>1, <2>3, <2>4, <3>1, <3>2, <3>3
  <2>7. CASE e <= t - 1
    <3>1. /\ Earlier(b, t) = b /\ Earlier(e, t) = e
          /\ Earlier(b, t - 1) = b /\ Earlier(e, t - 1) = e
      BY <2>2, <2>7 DEF Earlier
    <3>2. PICK x, y : x = Discount(b) /\ y = Discount(e)
      OBVIOUS
    <3>3. x \in Int /\ y \in Int
      BY <2>2, <3>2, DiscountTyped
    <3>4. r * (x - y) \in Int
      BY <2>2, <3>3
    <3>5. ~(t - 1 < e)
      BY <2>2, <2>7
    <3> QED
      BY <2>1, <2>3, <2>4, <3>1, <3>2, <3>4, <3>5
  <2> QED
    BY <2>2, <2>5, <2>6, <2>7
<1>5. t \in Nat /\ t - 1 \in Nat
  OBVIOUS
<1> QED
  BY <1>0, <1>3, <1>4, <1>5

(* The integrals over the segments are the sum over the ticks.             *)
LEMMA SegmentsAddUp ==
    ASSUME NEW c \in ComponentType, ValidComponent(c), NEW d \in Nat,
           \A k \in DOMAIN c.segments : c.segments[k].end <= d
    PROVE  Total(Integrals(c)) = Total(Ticks(c, d)) /\ Total(Ticks(c, d)) \in Int
<1>0. PICK n, s, a : n = Len(c.segments) /\ s = c.segments /\ a = Ticks(c, d)
  OBVIOUS
<1>1. /\ n \in Nat /\ DOMAIN s = 1..n
      /\ \A k \in 1..n : /\ s[k].start \in Nat /\ s[k].end \in Nat /\ s[k].rate \in Int
                         /\ s[k].start < s[k].end /\ s[k].end <= d
  BY <1>0, SegmentFacts
<1>2. a \in [1..d -> Int]
      /\ \A t \in 1..d : a[t] = Total(Tick(c, t, Discount(t - 1) - Discount(t)))
  <2>1. ASSUME NEW t \in 1..d
        PROVE  /\ Rate(c, t - 1) * (Discount(t - 1) - Discount(t)) \in Int
               /\ Rate(c, t - 1) * (Discount(t - 1) - Discount(t)) =
                     Total(Tick(c, t, Discount(t - 1) - Discount(t)))
    <3>1. t \in Nat \ {0} /\ t \in Nat /\ t - 1 \in Nat
      OBVIOUS
    <3>2. PICK w : w = Discount(t - 1) - Discount(t)
      OBVIOUS
    <3>3. w \in Int
      BY <3>1, <3>2, DiscountTyped
    <3>4. Rate(c, t - 1) \in Int /\ Total(Tick(c, t, w)) = Rate(c, t - 1) * w
      BY <3>1, <3>3, TickIs
    <3>5. Rate(c, t - 1) * w \in Int
      BY <3>3, <3>4
    <3> QED
      BY <3>2, <3>4, <3>5
  <2> QED
    BY <1>0, <2>1 DEF Ticks
<1> DEFINE R == {r \in (0..d) \X Int \X Int : Total(Until(c, r[1])) = r[2]}
<1>3. <<0, 0, 0>> \in R
  <2>1. PICK u : u = Until(c, 0)
    OBVIOUS
  <2>2. u \in [1..n -> Int] /\ \A k \in 1..n : u[k] = 0
    <3>1. ASSUME NEW k \in 1..n
          PROVE  s[k].rate * (Discount(Earlier(s[k].start, 0)) - Discount(Earlier(s[k].end, 0))) = 0
      <4>1. Earlier(s[k].start, 0) = 0 /\ Earlier(s[k].end, 0) = 0
        BY <1>1 DEF Earlier
      <4>2. PICK x, y : x = Discount(0) /\ y = s[k].rate
        OBVIOUS
      <4>3. x \in Int /\ y \in Int
        BY <1>1, <4>2, DiscountTyped
      <4>4. y * (x - x) = 0
        BY <4>3
      <4> QED
        BY <4>1, <4>2, <4>4
    <3> QED
      BY <1>0, <1>1, <2>1, <3>1 DEF Until
  <2>3. Total(u) = 0
    BY <1>1, <2>2, TotalOfNone
  <2> QED
    BY <2>1, <2>3
<1>4. ASSUME NEW t \in 1..d, NEW x \in Int, NEW y \in Int, <<t - 1, x, y>> \in R
      PROVE  <<t, x + a[t], y + a[t]>> \in R
  <2>1. t \in Nat \ {0} /\ t \in 0..d /\ a[t] \in Int
    BY <1>2
  <2>2. PICK u, v, p, w : /\ u = Until(c, t) /\ v = Until(c, t - 1)
                          /\ w = Discount(t - 1) - Discount(t) /\ p = Tick(c, t, w)
    OBVIOUS
  <2>3. w \in Int
    <3>1. t \in Nat /\ t - 1 \in Nat
      OBVIOUS
    <3> QED
      BY <2>2, <3>1, DiscountTyped
  <2>4. p \in [1..n -> Int]
    BY <1>0, <2>1, <2>2, <2>3, TickIs
  <2>5. u \in [1..n -> Int] /\ v \in [1..n -> Int] /\ \A k \in 1..n : u[k] = v[k] + p[k]
    BY <1>0, <2>1, <2>2, UntilSteps
  <2>6. Total(u) = Total(v) + Total(p)
    BY <1>1, <2>4, <2>5, TotalAdds
  <2>7. Total(v) = x /\ Total(p) = a[t]
    BY <1>2, <1>4, <2>2
  <2> QED
    BY <2>1, <2>2, <2>6, <2>7
<1>5. Total(Until(c, d)) = Total(a) /\ Total(a) \in Int
  <2> HIDE DEF R
  <2>1. <<d, Total(a), Total(a)>> \in R /\ Total(a) \in Int
    BY <1>2, <1>3, <1>4, TotalsFollow
  <2> QED
    BY <2>1 DEF R
<1>6. Until(c, d) = Integrals(c)
  <2>1. ASSUME NEW k \in 1..n
        PROVE  s[k].rate * (Discount(Earlier(s[k].start, d)) - Discount(Earlier(s[k].end, d)))
                 = Integral(s[k])
    <3>1. Earlier(s[k].start, d) = s[k].start /\ Earlier(s[k].end, d) = s[k].end
      BY <1>1 DEF Earlier
    <3> QED
      BY <3>1 DEF Integral
  <2> QED
    BY <1>0, <1>1, <2>1 DEF Until, Integrals
<1> QED
  BY <1>0, <1>5, <1>6

(* What an option returns is what it yielded.                              *)
LEMMA ReturnIsYield ==
    ASSUME NEW r \in RecordType, ValidRecord(r)
    PROVE  ReturnOf(r) = Yield(r) /\ Yield(r) \in Int
<1>0. PICK n, c, d, w : /\ c = r.rewards /\ n = Len(c) /\ d = r.duration /\ w = Discount(d)
  OBVIOUS
<1>1. c \in Seq(ComponentType) /\ d \in Int
  BY <1>0 DEF RecordType
<1>2. /\ n \in Nat /\ DOMAIN c = 1..n
      /\ \A i \in 1..n : c[i] \in ComponentType /\ c[i].impulse \in Int
  <2>1. n \in Nat /\ DOMAIN c = 1..n /\ \A i \in 1..n : c[i] \in ComponentType
    BY <1>0, <1>1
  <2>2. \A q \in ComponentType : q.impulse \in Int
    BY DEF ComponentType
  <2> QED
    BY <2>1, <2>2
<1>3. d \in Nat /\ \A i \in 1..n : /\ ValidComponent(c[i])
                                   /\ \A k \in DOMAIN c[i].segments : c[i].segments[k].end <= d
  BY <1>0, <1>1, <1>2 DEF ValidRecord, ValidRewards, ValidComponents
<1>4. w \in Int
  BY <1>0, <1>3, DiscountTyped
<1>5. PICK a, b : /\ a = [i \in DOMAIN c |-> c[i].impulse * w + Total(Integrals(c[i]))]
                  /\ b = [i \in DOMAIN c |-> c[i].impulse * w + Total(Ticks(c[i], d))]
  OBVIOUS
<1>6. ASSUME NEW i \in 1..n
      PROVE  c[i].impulse * w + Total(Integrals(c[i])) = c[i].impulse * w + Total(Ticks(c[i], d))
             /\ c[i].impulse * w + Total(Ticks(c[i], d)) \in Int
  <2>1. Total(Integrals(c[i])) = Total(Ticks(c[i], d)) /\ Total(Ticks(c[i], d)) \in Int
    BY <1>2, <1>3, SegmentsAddUp
  <2>2. c[i].impulse * w \in Int
    BY <1>2, <1>4
  <2> QED
    BY <2>1, <2>2
<1>7. a = b /\ b \in [1..n -> Int]
  BY <1>2, <1>5, <1>6
<1>8. ReturnOf(r) = Total(a) /\ Yield(r) = Total(b)
  BY <1>0, <1>5 DEF ReturnOf, Yield, Integrals, Ticks
<1> QED
  BY <1>2, <1>7, <1>8, TotalTyped

-----------------------------------------------------------------------------
(* Integers and finite sets of them.                                       *)

LEMMA DivisionGrows ==
    ASSUME NEW x \in Int, NEW y \in Int, x <= y, NEW p \in Nat, p > 0
    PROVE  x \div p <= y \div p /\ x \div p \in Int /\ y \div p \in Int
<1>1. PICK a, b : a = x \div p /\ b = y \div p
  OBVIOUS
<1>2. a \in Int /\ b \in Int /\ p * a <= x /\ y < p * a + p * (b - a) + p
  <2>1. a \in Int /\ b \in Int /\ p * a <= x /\ y < p * b + p
    BY <1>1
  <2>2. p * b = p * a + p * (b - a)
    BY <2>1
  <2> QED
    BY <2>1, <2>2
<1>3. a <= b
  <2> SUFFICES ASSUME b + 1 <= a PROVE FALSE
    BY <1>2
  <2>1. PICK c : c = b - a
    OBVIOUS
  <2>2. c \in Int /\ c <= -1
    BY <1>2, <2>1
  <2>3. p * c <= -p
    BY <2>2
  <2>4. p * c \in Int /\ p * a \in Int
    BY <1>2, <2>2
  <2> QED
    BY <1>2, <2>1, <2>3, <2>4
<1> QED
  BY <1>1, <1>2, <1>3

(* A step towards a target stays between the target and where it was.      *)
LEMMA StepStaysBetween ==
    ASSUME NEW old \in Int, NEW target \in Int, NEW p \in Nat, p > 0
    PROVE  LET new == old + (target - old) \div p
           IN  /\ new \in Int
               /\ old <= target => old <= new /\ new <= target
               /\ target <= old => target <= new /\ new <= old
<1>1. PICK z, a : z = target - old /\ a = z \div p
  OBVIOUS
<1>2. z \in Int /\ a \in Int /\ p * a <= z /\ z < p * a + p
  BY <1>1
<1>3. z >= 0 => 0 <= a /\ a <= z
  <2> SUFFICES ASSUME z >= 0 PROVE 0 <= a /\ a <= z
    OBVIOUS
  <2>1. 0 <= a
    <3> SUFFICES ASSUME a <= -1 PROVE FALSE
      BY <1>2
    <3>1. p * a <= -p
      BY <1>2
    <3> QED
      BY <1>2, <3>1
  <2>2. a <= p * a
    BY <1>2, <2>1
  <2> QED
    BY <1>2, <2>1, <2>2
<1>4. z <= 0 => z <= a /\ a <= 0
  <2> SUFFICES ASSUME z <= 0 PROVE z <= a /\ a <= 0
    OBVIOUS
  <2>1. a <= 0
    <3> SUFFICES ASSUME a >= 1 PROVE FALSE
      BY <1>2
    <3>1. p * a >= p
      BY <1>2
    <3> QED
      BY <1>2, <3>1
  <2>2. z <= a
    <3> SUFFICES ASSUME a + 1 <= z PROVE FALSE
      BY <1>2
    <3>1. a + 1 <= 0 /\ a + 1 \in Int
      BY <1>2
    <3>2. p * (a + 1) <= a + 1
      BY <3>1
    <3>3. p * (a + 1) = p * a + p
      BY <1>2
    <3> QED
      BY <1>2, <3>2, <3>3
  <2> QED
    BY <2>1, <2>2
<1> QED
  BY <1>1, <1>2, <1>3, <1>4

Bounded(S) == \E lo, hi \in S : \A x \in S : lo <= x /\ x <= hi

LEMMA FiniteIsBounded ==
    ASSUME NEW S \in SUBSET Int, IsFiniteSet(S), S # {}
    PROVE  Bounded(S)
<1> DEFINE Bad == {n \in Nat : \E T \in SUBSET Int :
                      IsFiniteSet(T) /\ T # {} /\ Cardinality(T) = n /\ ~Bounded(T)}
<1>1. SUFFICES ASSUME ~Bounded(S) PROVE FALSE
  OBVIOUS
<1>2. Bad # {} /\ Bad \in SUBSET Nat
  <2>1. Cardinality(S) \in Bad
    BY <1>1, FS_CardinalityType
  <2> QED
    BY <2>1
<1> HIDE DEF Bad
<1>3. PICK n \in Bad : \A y \in Bad : n <= y
  BY <1>2, LeastNumber
<1>4. PICK T \in SUBSET Int :
         IsFiniteSet(T) /\ T # {} /\ Cardinality(T) = n /\ ~Bounded(T)
  BY <1>3 DEF Bad
<1>5. PICK e \in T : TRUE
  BY <1>4
<1>6. n \in Nat /\ IsFiniteSet(T \ {e}) /\ Cardinality(T \ {e}) = n - 1
  BY <1>2, <1>3, <1>4, <1>5, FS_RemoveElement
<1>7. Cardinality(T \ {e}) \in Nat
  BY <1>6, FS_CardinalityType
<1>8. ~(n <= n - 1) /\ n - 1 \in Nat
  BY <1>6, <1>7
<1>9. n - 1 \notin Bad
  BY <1>3, <1>8
<1>10. CASE T = {e}
  <2>1. e \in Int
    BY <1>5
  <2> QED
    BY <1>4, <1>10, <2>1 DEF Bounded
<1>11. CASE T # {e}
  <2>1. T \ {e} # {} /\ T \ {e} \in SUBSET Int
    BY <1>5, <1>11
  <2>2. Bounded(T \ {e})
    BY <1>6, <1>8, <1>9, <2>1 DEF Bad
  <2>3. PICK lo, hi \in T \ {e} : \A x \in T \ {e} : lo <= x /\ x <= hi
    BY <2>2 DEF Bounded
  <2>4. lo \in Int /\ hi \in Int /\ e \in Int /\ lo \in T /\ hi \in T
    BY <2>3
  <2>5. lo <= hi
    BY <2>3
  <2>6. PICK low, high : /\ low = (IF e <= lo THEN e ELSE lo)
                         /\ high = (IF hi <= e THEN e ELSE hi)
    OBVIOUS
  <2>7. low \in T /\ high \in T /\ low <= e /\ e <= high /\ low <= lo /\ hi <= high
        /\ low \in Int /\ high \in Int
    BY <1>5, <2>4, <2>6
  <2>8. ASSUME NEW x \in T PROVE low <= x /\ x <= high
    <3>1. x \in Int
      OBVIOUS
    <3>2. CASE x = e
      BY <2>7, <3>2
    <3>3. CASE x # e
      <4>1. lo <= x /\ x <= hi
        BY <2>3, <3>3
      <4> QED
        BY <2>4, <2>7, <3>1, <4>1
    <3> QED
      BY <3>2, <3>3
  <2>9. Bounded(T)
    BY <2>7, <2>8 DEF Bounded
  <2> QED
    BY <1>4, <2>9
<1> QED
  BY <1>10, <1>11

LEMMA ExtremesAre ==
    ASSUME NEW S \in SUBSET Int, IsFiniteSet(S), S # {}
    PROVE  /\ Min(S) \in S /\ Max(S) \in S
           /\ \A x \in S : Min(S) <= x /\ x <= Max(S)
<1>1. PICK lo, hi \in S : \A x \in S : lo <= x /\ x <= hi
  BY FiniteIsBounded DEF Bounded
<1>2. Min(S) \in S /\ \A x \in S : Min(S) <= x
  <2>1. \E l \in S : \A x \in S : l <= x
    BY <1>1
  <2> QED
    BY <2>1 DEF Min
<1>3. Max(S) \in S /\ \A x \in S : Max(S) >= x
  <2>1. \E h \in S : \A x \in S : h >= x
    BY <1>1
  <2> QED
    BY <2>1 DEF Max
<1> QED
  BY <1>2, <1>3

LEMMA ImageIsFinite ==
    ASSUME NEW S, IsFiniteSet(S), NEW f, DOMAIN f = S
    PROVE  IsFiniteSet({f[x] : x \in S})
<1> DEFINE T == {f[x] : x \in S}
           g == [x \in S |-> f[x]]
<1>1. g \in Surjection(S, T)
  BY DEF Surjection
<1> HIDE DEF g, T
<1>2. IsFiniteSet(T)
  BY <1>1, FS_Surjection
<1> QED
  BY <1>2 DEF T

-----------------------------------------------------------------------------
(* What could come of options.                                             *)

RecordsAreValid ==
    /\ records \in Seq(Records)
    /\ \A i \in DOMAIN records : ValidRecord(records[i])

ShownKeys == {KeyOf(r) : r \in Shown}

Futures(r, before) ==
    IF r.terminal THEN {0}
    ELSE UNION {IF <<StateId(r.next), k>> \in DOMAIN before
                THEN before[<<StateId(r.next), k>>] ELSE {0} : k \in r.options}

(* Of every key that is shown, finitely many outcomes, and nothing is one. *)
Table(of) ==
    /\ DOMAIN of = ShownKeys
    /\ \A key \in ShownKeys : of[key] \subseteq Int /\ IsFiniteSet(of[key]) /\ 0 \in of[key]

Nil == [key \in ShownKeys |-> {0}]

LEMMA FollowIs ==
    ASSUME NEW r, NEW before
    PROVE  Follow(r, before) = {Yield(r) + x \div 2^r.duration : x \in Futures(r, before)}
  BY DEF Follow, Futures

LEMMA ShownFacts ==
    ASSUME RecordsAreValid
    PROVE  /\ IsFiniteSet(Shown)
           /\ \A r \in Shown :
                 /\ r \in RecordType /\ ValidRecord(r) /\ r.duration \in Nat
                 /\ 2^r.duration \in Nat /\ 2^r.duration > 0
                 /\ ReturnOf(r) = Yield(r) /\ Yield(r) \in Int
                 /\ r.terminal \in BOOLEAN
                 /\ r.options \subseteq Kinds /\ IsFiniteSet(r.options)
                 /\ ~r.terminal => r.options # {}
<1>1. /\ Len(records) \in Nat /\ DOMAIN records = 1..Len(records)
      /\ \A i \in 1..Len(records) : records[i] \in RecordType /\ ValidRecord(records[i])
  BY LearningAssumption DEF RecordsAreValid
<1>2. IsFiniteSet(Shown)
  <2>1. IsFiniteSet(DOMAIN records)
    BY <1>1, FS_Interval
  <2>2. IsFiniteSet({records[i] : i \in DOMAIN records})
    BY <2>1, ImageIsFinite
  <2>3. Shown \in SUBSET {records[i] : i \in DOMAIN records}
    BY DEF Shown, Range
  <2> QED
    BY <2>2, <2>3, FS_Subset
<1>3. ASSUME NEW r \in Shown
      PROVE  /\ r \in RecordType /\ ValidRecord(r) /\ r.duration \in Nat
             /\ 2^r.duration \in Nat /\ 2^r.duration > 0
             /\ ReturnOf(r) = Yield(r) /\ Yield(r) \in Int
             /\ r.terminal \in BOOLEAN
             /\ r.options \subseteq Kinds /\ IsFiniteSet(r.options)
             /\ ~r.terminal => r.options # {}
  <2>1. r \in RecordType /\ ValidRecord(r) /\ r.censoring = "complete"
    BY <1>1 DEF Shown, Range
  <2>2. r.duration \in Int /\ r.terminal \in BOOLEAN /\ r.options \in SUBSET Kinds
    BY <2>1 DEF RecordType
  <2>3. r.duration \in Nat
    BY <2>1, <2>2 DEF ValidRecord
  <2>4. IsFiniteSet(r.options)
    BY <2>2, LearningAssumption, FS_Subset
  <2>5. ~r.terminal => r.options # {}
    BY <2>1, <2>2 DEF ValidRecord, ValidEnding
  <2>6. 2^r.duration \in Nat /\ 2^r.duration > 0
    BY <2>3, PowersOfTwo
  <2> QED
    BY <2>1, <2>2, <2>3, <2>4, <2>5, <2>6, ReturnIsYield
<1> QED
  BY <1>2, <1>3

LEMMA FuturesAre ==
    ASSUME RecordsAreValid, NEW before, Table(before), NEW r \in Shown
    PROVE  Futures(r, before) \subseteq Int /\ IsFiniteSet(Futures(r, before))
<1> DEFINE At(k) == IF <<StateId(r.next), k>> \in DOMAIN before
                    THEN before[<<StateId(r.next), k>>] ELSE {0}
           f == [k \in r.options |-> At(k)]
<1>0. IsFiniteSet({0})
  BY FS_Singleton
<1>1. \A k : At(k) \subseteq Int /\ IsFiniteSet(At(k))
  BY <1>0 DEF Table
<1>2. CASE r.terminal
  BY <1>0, <1>2 DEF Futures
<1>3. CASE ~r.terminal
  <2>1. Futures(r, before) = UNION {At(k) : k \in r.options}
    BY <1>3 DEF Futures
  <2> HIDE DEF At
  <2>2. DOMAIN f = r.options /\ {f[k] : k \in r.options} = {At(k) : k \in r.options}
    OBVIOUS
  <2>3. IsFiniteSet({f[k] : k \in r.options})
    <3>1. IsFiniteSet(r.options)
      BY ShownFacts
    <3> HIDE DEF f
    <3> QED
      BY <2>2, <3>1, ImageIsFinite
  <2>4. IsFiniteSet({At(k) : k \in r.options})
    BY <2>2, <2>3
  <2>5. IsFiniteSet(UNION {At(k) : k \in r.options})
    BY <1>1, <2>4, FS_UNION
  <2> QED
    BY <1>1, <2>1, <2>5
<1> QED
  BY <1>2, <1>3

LEMMA FollowTyped ==
    ASSUME RecordsAreValid, NEW before, Table(before), NEW r \in Shown
    PROVE  Follow(r, before) \subseteq Int /\ IsFiniteSet(Follow(r, before))
<1> DEFINE X == Futures(r, before)
           f == [x \in X |-> Yield(r) + x \div 2^r.duration]
<1>1. X \subseteq Int /\ IsFiniteSet(X)
  BY FuturesAre
<1>2. Follow(r, before) = {Yield(r) + x \div 2^r.duration : x \in X}
  BY FollowIs
<1> HIDE DEF X
<1>3. DOMAIN f = X /\ {f[x] : x \in X} = Follow(r, before)
  BY <1>2
<1>4. IsFiniteSet({f[x] : x \in X})
  <2>1. DOMAIN f = X
    BY <1>3
  <2>2. IsFiniteSet(X)
    BY <1>1
  <2> HIDE DEF f
  <2> QED
    BY <2>1, <2>2, ImageIsFinite, Zenon
<1>5. ASSUME NEW x \in X PROVE Yield(r) + x \div 2^r.duration \in Int
  <2>1. PICK p, y : p = 2^r.duration /\ y = Yield(r)
    OBVIOUS
  <2>2. p \in Nat /\ p > 0 /\ y \in Int /\ x \in Int
    BY <1>1, <2>1, ShownFacts
  <2>3. y + x \div p \in Int
    BY <2>2
  <2> QED
    BY <2>1, <2>3
<1> QED
  BY <1>2, <1>3, <1>4, <1>5

LEMMA FurtherIs ==
    ASSUME RecordsAreValid, NEW before, Table(before)
    PROVE  Table(Further(before))
<1>1. DOMAIN Further(before) = ShownKeys
  BY DEF Further, ShownKeys
<1>2. ASSUME NEW key \in ShownKeys
      PROVE  /\ Further(before)[key] \subseteq Int /\ IsFiniteSet(Further(before)[key])
             /\ 0 \in Further(before)[key]
  <2> DEFINE Q == {q \in Shown : KeyOf(q) = key}
             f == [r \in Q |-> Follow(r, before)]
  <2>1. Further(before)[key] = {0} \cup UNION {Follow(r, before) : r \in Q}
    BY DEF Further, ShownKeys
  <2>2. IsFiniteSet(Q)
    <3>1. Q \in SUBSET Shown
      OBVIOUS
    <3> HIDE DEF Q
    <3> QED
      BY <3>1, ShownFacts, FS_Subset
  <2>3. \A r \in Q : Follow(r, before) \subseteq Int /\ IsFiniteSet(Follow(r, before))
    BY FollowTyped
  <2> HIDE DEF Q
  <2>4. DOMAIN f = Q /\ {f[r] : r \in Q} = {Follow(r, before) : r \in Q}
    OBVIOUS
  <2>5. IsFiniteSet({f[r] : r \in Q})
    <3> HIDE DEF f
    <3> QED
      BY <2>2, <2>4, ImageIsFinite
  <2>6. IsFiniteSet(UNION {Follow(r, before) : r \in Q})
    BY <2>3, <2>4, <2>5, FS_UNION
  <2>7. IsFiniteSet({0} \cup UNION {Follow(r, before) : r \in Q})
    BY <2>6, FS_Singleton, FS_Union
  <2> QED
    BY <2>1, <2>3, <2>7
<1> QED
  BY <1>1, <1>2 DEF Table

(* More outcomes before, more after.                                       *)
LEMMA FurtherGrows ==
    ASSUME NEW before, NEW after, DOMAIN before = ShownKeys, DOMAIN after = ShownKeys,
           \A key \in ShownKeys : before[key] \subseteq after[key]
    PROVE  \A key \in ShownKeys : Further(before)[key] \subseteq Further(after)[key]
<1>1. \A r : Futures(r, before) \subseteq Futures(r, after)
  <2> SUFFICES ASSUME NEW r PROVE Futures(r, before) \subseteq Futures(r, after)
    OBVIOUS
  <2>1. CASE r.terminal
    BY <2>1 DEF Futures
  <2>2. CASE ~r.terminal
    <3> SUFFICES ASSUME NEW x \in Futures(r, before) PROVE x \in Futures(r, after)
      OBVIOUS
    <3>1. PICK k \in r.options :
             x \in IF <<StateId(r.next), k>> \in DOMAIN before
                   THEN before[<<StateId(r.next), k>>] ELSE {0}
      BY <2>2 DEF Futures
    <3>2. x \in IF <<StateId(r.next), k>> \in DOMAIN after
                THEN after[<<StateId(r.next), k>>] ELSE {0}
      BY <3>1
    <3> QED
      BY <2>2, <3>2 DEF Futures
  <2> QED
    BY <2>1, <2>2
<1>2. \A r : Follow(r, before) \subseteq Follow(r, after)
  BY <1>1, FollowIs
<1>3. ASSUME NEW key \in ShownKeys PROVE Further(before)[key] \subseteq Further(after)[key]
  <2>1. /\ Further(before)[key] =
             {0} \cup UNION {Follow(r, before) : r \in {q \in Shown : KeyOf(q) = key}}
        /\ Further(after)[key] =
             {0} \cup UNION {Follow(r, after) : r \in {q \in Shown : KeyOf(q) = key}}
    BY DEF Further, ShownKeys
  <2>2. PICK Q : Q = {q \in Shown : KeyOf(q) = key}
    OBVIOUS
  <2>3. UNION {Follow(r, before) : r \in Q} \subseteq UNION {Follow(r, after) : r \in Q}
    BY <1>2
  <2> QED
    BY <2>1, <2>2, <2>3
<1> QED
  BY <1>3

(* The tables up to one of them.                                           *)
Tables(of, n) == of = [m \in 0..n |-> IF m = 0 THEN Nil ELSE Further(of[m - 1])]

LEMMA TablesExist ==
    ASSUME NEW n \in Nat
    PROVE  \E of : Tables(of, n)
<1> DEFINE Bad == {m \in Nat : ~\E of : Tables(of, m)}
<1>1. SUFFICES ASSUME Bad # {} PROVE FALSE
  OBVIOUS
<1>2. PICK m \in Bad : \A y \in Bad : m <= y
  BY <1>1, LeastNumber
<1>3. m # 0
  <2> DEFINE of == [k \in 0..0 |-> Nil]
  <2>1. of = [k \in 0..0 |-> IF k = 0 THEN Nil ELSE Further(of[k - 1])]
    OBVIOUS
  <2> HIDE DEF of
  <2>2. Tables(of, 0)
    BY <2>1 DEF Tables
  <2> QED
    BY <1>2, <2>2
<1>4. m \in Nat /\ m - 1 \in Nat /\ ~(m <= m - 1)
  BY <1>2, <1>3
<1>5. PICK of : Tables(of, m - 1)
  <2>1. m - 1 \notin Bad
    <3> HIDE DEF Bad
    <3> QED
      BY <1>2, <1>4
  <2> QED
    BY <1>4, <2>1
<1> DEFINE h == [k \in 0..m |-> IF k = m THEN Further(of[m - 1]) ELSE of[k]]
<1>6. ASSUME NEW k \in 0..m
      PROVE  h[k] = IF k = 0 THEN Nil ELSE Further(h[k - 1])
  <2>1. \A j \in 0..(m - 1) : of[j] = IF j = 0 THEN Nil ELSE Further(of[j - 1])
    BY <1>5 DEF Tables
  <2>2. CASE k = m
    <3>1. m - 1 \in 0..m /\ m - 1 # m
      BY <1>4
    <3>2. h[m - 1] = of[m - 1] /\ h[m] = Further(of[m - 1])
      BY <3>1, <2>2
    <3> HIDE DEF h
    <3> QED
      BY <1>3, <2>2, <3>2
  <2>3. CASE k # m
    <3>1. k \in 0..(m - 1) /\ (k # 0 => k - 1 \in 0..m /\ k - 1 # m)
      BY <1>4, <2>3
    <3>2. h[k] = of[k] /\ (k # 0 => h[k - 1] = of[k - 1])
      BY <2>3, <3>1
    <3> HIDE DEF h
    <3> QED
      BY <2>1, <3>1, <3>2
  <2> QED
    BY <2>2, <2>3
<1>7. h = [k \in 0..m |-> h[k]]
  OBVIOUS
<1> HIDE DEF h
<1>8. h = [k \in 0..m |-> IF k = 0 THEN Nil ELSE Further(h[k - 1])]
  BY <1>6, <1>7
<1>9. Tables(h, m)
  BY <1>8 DEF Tables
<1> QED
  BY <1>2, <1>9

LEMMA OutcomesUnfold ==
    /\ Outcomes[0] = Nil
    /\ \A n \in 1..MaxBackups : Outcomes[n] = Further(Outcomes[n - 1])
<1>1. MaxBackups \in Nat
  BY LearningAssumption
<1>2. Outcomes = CHOOSE of : Tables(of, MaxBackups)
  BY DEF Outcomes, Tables, Nil, ShownKeys
<1>3. Tables(Outcomes, MaxBackups)
  BY <1>1, <1>2, TablesExist
<1>4. PICK of : of = Outcomes
  OBVIOUS
<1>5. of = [m \in 0..MaxBackups |-> IF m = 0 THEN Nil ELSE Further(of[m - 1])]
  BY <1>3, <1>4 DEF Tables
<1>6. \A n \in 0..MaxBackups : of[n] = IF n = 0 THEN Nil ELSE Further(of[n - 1])
  BY <1>5
<1>7. \A n \in 1..MaxBackups : n \in 0..MaxBackups /\ n # 0
  OBVIOUS
<1> QED
  BY <1>1, <1>4, <1>6, <1>7

LEMMA OutcomesAre ==
    ASSUME RecordsAreValid, NEW n \in 0..MaxBackups
    PROVE  /\ Table(Outcomes[n])
           /\ n > 0 => \A key \in ShownKeys : Outcomes[n - 1][key] \subseteq Outcomes[n][key]
<1> DEFINE Good(m) ==
             /\ Table(Outcomes[m])
             /\ m > 0 => \A key \in ShownKeys : Outcomes[m - 1][key] \subseteq Outcomes[m][key]
           Bad == {m \in 0..MaxBackups : ~Good(m)}
<1>0. MaxBackups \in Nat
  BY LearningAssumption
<1>1. SUFFICES ASSUME Bad # {} PROVE FALSE
  OBVIOUS
<1>2. Bad \in SUBSET Nat
  OBVIOUS
<1>3. PICK m \in Bad : \A y \in Bad : m <= y
  BY <1>1, <1>2, LeastNumber
<1>4. m \in 0..MaxBackups /\ ~Good(m)
  BY <1>3
<1>5. Table(Nil)
  <2>1. DOMAIN Nil = ShownKeys /\ \A key \in ShownKeys : Nil[key] = {0}
    BY DEF Nil
  <2>2. IsFiniteSet({0})
    BY FS_Singleton
  <2>3. {0} \subseteq Int /\ 0 \in {0}
    OBVIOUS
  <2> QED
    BY <2>1, <2>2, <2>3 DEF Table
<1>6. m # 0
  BY <1>4, <1>5, OutcomesUnfold
<1>7. m \in 1..MaxBackups /\ m - 1 \in 0..MaxBackups /\ ~(m <= m - 1)
  <2>1. m \in 0..MaxBackups
    BY <1>4
  <2> HIDE DEF Good, Bad
  <2> QED
    BY <1>0, <1>6, <2>1
<1>8. Good(m - 1)
  <2>1. m - 1 \notin Bad
    <3> HIDE DEF Bad
    <3> QED
      BY <1>3, <1>7
  <2> QED
    BY <1>7, <2>1
<1>9. PICK a, b : a = Outcomes[m - 1] /\ b = Outcomes[m]
  OBVIOUS
<1>10. Table(a) /\ b = Further(a)
  BY <1>7, <1>8, <1>9, OutcomesUnfold
<1>11. Table(b)
  BY <1>10, FurtherIs
<1>12. \A key \in ShownKeys : a[key] \subseteq b[key]
  <2>1. CASE m = 1
    <3>1. a = Nil
      BY <1>9, <2>1, OutcomesUnfold
    <3> QED
      BY <1>11, <3>1 DEF Nil, Table
  <2>2. CASE m # 1
    <3>1. m - 1 \in 1..MaxBackups /\ m - 1 > 0 /\ (m - 1) - 1 \in 0..MaxBackups
          /\ ~(m <= (m - 1) - 1)
      <4> HIDE DEF Good, Bad
      <4> QED
        BY <1>0, <1>7, <2>2
    <3>2. PICK c : c = Outcomes[(m - 1) - 1]
      OBVIOUS
    <3>3. a = Further(c)
      BY <1>9, <3>1, <3>2, OutcomesUnfold
    <3>4. \A key \in ShownKeys : c[key] \subseteq a[key]
      BY <1>8, <1>9, <3>1, <3>2
    <3>5. Table(c)
      <4>1. (m - 1) - 1 \notin Bad
        <5> HIDE DEF Bad
        <5> QED
          BY <1>3, <3>1
      <4> QED
        BY <3>1, <3>2, <4>1
    <3>6. DOMAIN c = ShownKeys /\ DOMAIN a = ShownKeys
      BY <1>10, <3>5 DEF Table
    <3> QED
      BY <1>10, <3>3, <3>4, <3>6, FurtherGrows
  <2> QED
    BY <2>1, <2>2
<1> QED
  BY <1>4, <1>9, <1>11, <1>12

-----------------------------------------------------------------------------
(* The values that are learned.                                            *)

Between(value, outcomes) == \E lo, hi \in outcomes : lo <= value /\ value <= hi

(* A record may be backed up once the data set is accepted; until then     *)
(* nothing is known.  A value that is known is of a key that is shown, and *)
(* lies between outcomes as far ahead as there were backups.               *)
LearningInv ==
    /\ RecordsAreValid
    /\ accepted \in BOOLEAN /\ (accepted => ValidDataset(records))
    /\ backups \in 0..MaxBackups
    /\ ~accepted => values = <<>> /\ backups = 0
    /\ \A key \in DOMAIN values :
          key \in ShownKeys /\ values[key] \in Int /\ Between(values[key], Outcomes[backups][key])

LEMMA LearningStart == LearningInit => LearningInv
<1> SUFFICES ASSUME LearningInit PROVE LearningInv
  OBVIOUS
<1>1. records = <<>> /\ accepted = FALSE /\ values = <<>> /\ backups = 0
  BY DEF LearningInit
<1>2. DOMAIN values = {} /\ DOMAIN records = {} /\ records \in Seq(Records)
  BY <1>1
<1>3. 0 \in 0..MaxBackups
  BY LearningAssumption
<1> QED
  BY <1>1, <1>2, <1>3 DEF LearningInv, RecordsAreValid

(* What is not known counts as nothing, which is an outcome too.           *)
LEMMA ValueIsBetween ==
    ASSUME LearningInv, NEW state, NEW k
    PROVE  /\ Value(state, k) \in Int
           /\ <<state, k>> \in ShownKeys => Between(Value(state, k), Outcomes[backups][<<state, k>>])
           /\ <<state, k>> \notin ShownKeys => Value(state, k) = 0
<1>1. PICK key : key = <<state, k>>
  OBVIOUS
<1>2. Value(state, k) = IF key \in DOMAIN values THEN values[key] ELSE 0
  BY <1>1 DEF Value
<1>3. key \in DOMAIN values =>
         key \in ShownKeys /\ values[key] \in Int /\ Between(values[key], Outcomes[backups][key])
  BY DEF LearningInv
<1>4. key \in ShownKeys => 0 \in Outcomes[backups][key]
  BY OutcomesAre DEF LearningInv, Table
<1>5. 0 <= 0
  OBVIOUS
<1> QED
  BY <1>1, <1>2, <1>3, <1>4, <1>5 DEF Between

LEMMA BestIsBetween ==
    ASSUME LearningInv, NEW r \in Shown, ~r.terminal
    PROVE  /\ Best(StateId(r.next), r.options) \in Int
           /\ Between(Best(StateId(r.next), r.options), Futures(r, Outcomes[backups]))
<1> DEFINE S == {Value(StateId(r.next), k) : k \in r.options}
           f == [k \in r.options |-> Value(StateId(r.next), k)]
<1>0. RecordsAreValid /\ backups \in 0..MaxBackups
  BY DEF LearningInv
<1>1. IsFiniteSet(r.options) /\ r.options # {}
  BY <1>0, ShownFacts
<1>2. S \in SUBSET Int
  BY ValueIsBetween
<1>3. IsFiniteSet(S)
  <2>1. DOMAIN f = r.options /\ {f[k] : k \in r.options} = S
    OBVIOUS
  <2> HIDE DEF f, S
  <2> QED
    BY <1>1, <2>1, ImageIsFinite
<1>4. S # {} /\ Best(StateId(r.next), r.options) = Max(S)
  BY <1>1 DEF Best
<1>5. Max(S) \in S
  <2> HIDE DEF S
  <2> QED
    BY <1>2, <1>3, <1>4, ExtremesAre
<1>6. PICK k \in r.options : Max(S) = Value(StateId(r.next), k)
  BY <1>5
<1>7. PICK key, v : key = <<StateId(r.next), k>> /\ v = Value(StateId(r.next), k)
  OBVIOUS
<1>8. DOMAIN Outcomes[backups] = ShownKeys
  BY <1>0, OutcomesAre DEF Table
<1>9. (IF key \in ShownKeys THEN Outcomes[backups][key] ELSE {0}) \subseteq Futures(r, Outcomes[backups])
  BY <1>7, <1>8 DEF Futures
<1>10. v \in Int /\ Between(v, IF key \in ShownKeys THEN Outcomes[backups][key] ELSE {0})
  <2>1. 0 <= 0
    OBVIOUS
  <2> QED
    BY <1>7, <2>1, ValueIsBetween DEF Between
<1>11. Between(v, Futures(r, Outcomes[backups]))
  BY <1>9, <1>10 DEF Between
<1> QED
  BY <1>4, <1>6, <1>7, <1>10, <1>11

LEMMA TargetIsBetween ==
    ASSUME LearningInv, NEW r \in Shown
    PROVE  Target(r) \in Int /\ Between(Target(r), Follow(r, Outcomes[backups]))
<1>0. RecordsAreValid /\ backups \in 0..MaxBackups
  BY DEF LearningInv
<1>1. PICK p, y, F, X, best :
        /\ p = 2^r.duration /\ y = Yield(r) /\ F = Follow(r, Outcomes[backups])
        /\ X = Futures(r, Outcomes[backups])
        /\ best = IF r.terminal THEN 0 ELSE Best(StateId(r.next), r.options)
  OBVIOUS
<1>2. p \in Nat /\ p > 0 /\ y \in Int /\ ReturnOf(r) = y
  BY <1>0, <1>1, ShownFacts
<1>3. F = {y + x \div p : x \in X}
  BY <1>1, FollowIs
<1>4. X \subseteq Int
  BY <1>0, <1>1, FuturesAre, OutcomesAre
<1>5. best \in Int /\ Between(best, X)
  <2>1. CASE r.terminal
    <3>1. X = {0} /\ best = 0 /\ 0 <= 0
      BY <1>1, <2>1 DEF Futures
    <3> QED
      BY <3>1 DEF Between
  <2>2. CASE ~r.terminal
    BY <1>1, <2>2, BestIsBetween
  <2> QED
    BY <2>1, <2>2
<1>6. Target(r) = y + best \div p
  <2>1. 0 \div p = 0
    BY <1>2
  <2> QED
    BY <1>1, <1>2, <2>1 DEF Target
<1>7. PICK lo, hi \in X : lo <= best /\ best <= hi
  BY <1>5 DEF Between
<1>8. PICK a, b, c : a = lo \div p /\ b = best \div p /\ c = hi \div p
  OBVIOUS
<1>9. a \in Int /\ b \in Int /\ c \in Int /\ a <= b /\ b <= c
  <2>1. lo \in Int /\ hi \in Int
    BY <1>4
  <2> QED
    BY <1>2, <1>5, <1>7, <1>8, <2>1, DivisionGrows
<1>10. y + a \in F /\ y + c \in F
  BY <1>3, <1>8
<1>11. y + b \in Int /\ y + a <= y + b /\ y + b <= y + c
  BY <1>2, <1>9
<1> QED
  BY <1>1, <1>6, <1>8, <1>10, <1>11 DEF Between

LEMMA BackupStep ==
    ASSUME LearningInv, Learn
    PROVE  LearningInv'
<1>1. PICK i \in DOMAIN records, eta \in Etas :
         SplitFor(records[i]) = "training" /\ Backup(records[i], eta)
  BY DEF Learn
<1>2. PICK r : r = records[i]
  OBVIOUS
<1>3. r \in Shown
  BY <1>1, <1>2 DEF Shown, Backup, Range
<1>4. PICK key, old, target, p :
        /\ key = KeyOf(r) /\ old = Value(StateId(r.input), r.kind)
        /\ target = Target(r) /\ p = 2^eta
  OBVIOUS
<1>5. PICK new : new = old + (target - old) \div p
  OBVIOUS
<1>6. /\ accepted /\ accepted' = accepted /\ records' = records
      /\ backups < MaxBackups /\ backups' = backups + 1
      /\ values' = [k \in DOMAIN values \cup {key} |-> IF k = key THEN new ELSE values[k]]
  BY <1>1, <1>2, <1>4, <1>5 DEF Learn, Backup
<1>7. /\ RecordsAreValid /\ ValidDataset(records) /\ backups \in 0..MaxBackups
      /\ MaxBackups \in Nat /\ Etas \subseteq Nat
  BY <1>6, LearningAssumption DEF LearningInv
<1>8. backups' \in 0..MaxBackups /\ backups' \in 1..MaxBackups /\ backups' - 1 = backups
  BY <1>6, <1>7
<1>9. PICK B, A : B = Outcomes[backups] /\ A = Outcomes[backups + 1]
  OBVIOUS
<1>10. /\ Table(B) /\ Table(A) /\ A = Further(B)
       /\ \A k \in ShownKeys : B[k] \subseteq A[k]
  <2>1. PICK m : m = backups + 1
    OBVIOUS
  <2>2. m \in 1..MaxBackups /\ m \in 0..MaxBackups /\ m - 1 = backups /\ m > 0
    BY <1>6, <1>8, <2>1
  <2>3. Table(Outcomes[m]) /\ \A k \in ShownKeys : Outcomes[m - 1][k] \subseteq Outcomes[m][k]
    BY <1>7, <2>2, OutcomesAre
  <2>4. Outcomes[m] = Further(Outcomes[m - 1])
    BY <2>2, OutcomesUnfold
  <2>5. Table(Outcomes[backups])
    BY <1>7, OutcomesAre
  <2> QED
    BY <1>9, <2>1, <2>2, <2>3, <2>4, <2>5
<1>11. key \in ShownKeys /\ key = <<StateId(r.input), r.kind>>
  BY <1>3, <1>4 DEF ShownKeys, KeyOf
<1>12. old \in Int /\ Between(old, A[key])
  <2>1. old \in Int /\ Between(old, B[key])
    BY <1>4, <1>9, <1>11, ValueIsBetween
  <2> QED
    BY <1>10, <1>11, <2>1 DEF Between
<1>13. target \in Int /\ Between(target, A[key])
  <2>1. target \in Int /\ Between(target, Follow(r, B))
    BY <1>3, <1>4, <1>9, TargetIsBetween
  <2>2. Follow(r, B) \subseteq A[key]
    <3>1. A[key] = {0} \cup UNION {Follow(q, B) : q \in {u \in Shown : KeyOf(u) = key}}
      BY <1>10, <1>11 DEF Further, ShownKeys
    <3> QED
      BY <1>3, <1>4, <3>1
  <2> QED
    BY <2>1, <2>2 DEF Between
<1>14. new \in Int /\ Between(new, A[key])
  <2>1. p \in Nat /\ p > 0
    BY <1>4, <1>7, PowersOfTwo
  <2>2. /\ new \in Int
        /\ old <= target => old <= new /\ new <= target
        /\ target <= old => target <= new /\ new <= old
    BY <1>5, <1>12, <1>13, <2>1, StepStaysBetween
  <2>3. A[key] \subseteq Int
    BY <1>10, <1>11 DEF Table
  <2>4. PICK a, b \in A[key] : a <= old /\ old <= b
    BY <1>12 DEF Between
  <2>5. PICK c, d \in A[key] : c <= target /\ target <= d
    BY <1>13 DEF Between
  <2>6. a \in Int /\ b \in Int /\ c \in Int /\ d \in Int
    BY <2>3
  <2>7. CASE old <= target
    <3>1. a <= new /\ new <= d
      BY <1>12, <1>13, <2>2, <2>4, <2>5, <2>6, <2>7
    <3> QED
      BY <2>2, <3>1 DEF Between
  <2>8. CASE target <= old
    <3>1. c <= new /\ new <= b
      BY <1>12, <1>13, <2>2, <2>4, <2>5, <2>6, <2>8
    <3> QED
      BY <2>2, <3>1 DEF Between
  <2> QED
    BY <1>12, <1>13, <2>7, <2>8
<1>15. ASSUME NEW k \in DOMAIN values'
       PROVE  k \in ShownKeys /\ values'[k] \in Int /\ Between(values'[k], A[k])
  <2>1. CASE k = key
    BY <1>6, <1>11, <1>14, <2>1
  <2>2. CASE k # key
    <3>1. k \in DOMAIN values /\ values'[k] = values[k]
      BY <1>6, <2>2
    <3>2. k \in ShownKeys /\ values[k] \in Int /\ Between(values[k], B[k])
      BY <1>9, <3>1 DEF LearningInv
    <3> QED
      BY <1>10, <3>1, <3>2 DEF Between
  <2> QED
    BY <2>1, <2>2
<1>16. Shown' = Shown /\ ShownKeys' = ShownKeys
  BY <1>6 DEF Shown, ShownKeys
<1>17. Outcomes' = Outcomes
  BY <1>6 DEF Outcomes, Further, Follow, Shown
<1>18. \A k \in DOMAIN values' :
          k \in ShownKeys' /\ values'[k] \in Int /\ Between(values'[k], Outcomes'[backups'][k])
  BY <1>6, <1>9, <1>15, <1>16, <1>17
<1>19. RecordsAreValid' /\ ValidDataset(records)'
  BY <1>6, <1>7 DEF RecordsAreValid, ValidDataset
<1> QED
  BY <1>6, <1>8, <1>18, <1>19 DEF LearningInv, Between

LEMMA LearningStep == LearningInv /\ [LearningNext]_learningVars => LearningInv'
<1> SUFFICES ASSUME LearningInv, [LearningNext]_learningVars PROVE LearningInv'
  OBVIOUS
<1>1. CASE Collect
  <2>1. PICK r \in Records : ValidRecord(r) /\ records' = Append(records, r)
    BY <1>1 DEF Collect
  <2>2. RecordsAreValid'
    <3>1. records \in Seq(Records) /\ \A i \in 1..Len(records) : ValidRecord(records[i])
      BY DEF LearningInv, RecordsAreValid
    <3>2. records' \in Seq(Records)
      BY <2>1, <3>1
    <3>3. \A i \in DOMAIN records' : ValidRecord(records'[i])
      <4>1. /\ Len(records) \in Nat /\ DOMAIN records' = 1..(Len(records) + 1)
            /\ \A i \in 1..Len(records) : records'[i] = records[i]
            /\ records'[Len(records) + 1] = r
        BY <2>1, <3>1
      <4>2. \A i \in 1..(Len(records) + 1) : i \in 1..Len(records) \/ i = Len(records) + 1
        BY <4>1
      <4> QED
        BY <2>1, <3>1, <4>1, <4>2
    <3> QED
      BY <3>2, <3>3 DEF RecordsAreValid
  <2>3. ~accepted /\ accepted' = accepted /\ values' = values /\ backups' = backups
    BY <1>1 DEF Collect
  <2>4. DOMAIN values' = {}
    BY <2>3 DEF LearningInv
  <2> QED
    BY <2>2, <2>3, <2>4 DEF LearningInv
<1>2. CASE MakeDataset
  <2>1. /\ ~accepted /\ accepted' = TRUE /\ records' = records /\ values' = values
        /\ backups' = backups /\ ValidDataset(records)
    BY <1>2 DEF MakeDataset
  <2>2. DOMAIN values' = {}
    BY <2>1 DEF LearningInv
  <2>3. RecordsAreValid' /\ ValidDataset(records)'
    BY <2>1 DEF LearningInv, RecordsAreValid, ValidDataset
  <2> QED
    BY <2>1, <2>2, <2>3 DEF LearningInv
<1>3. CASE Learn
  BY <1>3, BackupStep
<1>4. CASE UNCHANGED learningVars
  <2>1. records' = records /\ accepted' = accepted /\ values' = values /\ backups' = backups
    BY <1>4 DEF learningVars
  <2>2. Shown' = Shown /\ ShownKeys' = ShownKeys
    BY <2>1 DEF Shown, ShownKeys
  <2>3. Outcomes' = Outcomes
    BY <2>1 DEF Outcomes, Further, Follow, Shown
  <2>4. RecordsAreValid' /\ (ValidDataset(records)' <=> ValidDataset(records))
    BY <2>1 DEF LearningInv, RecordsAreValid, ValidDataset
  <2> QED
    BY <2>1, <2>2, <2>3, <2>4 DEF LearningInv, Between
<1> QED
  BY <1>1, <1>2, <1>3, <1>4 DEF LearningNext

(* A record of an accepted data set is in the split of all its banks.      *)
LEMMA SplitIs ==
    ASSUME RecordsAreValid, ValidDataset(records), NEW r \in Range(records), NEW k \in BankKinds
    PROVE  Splits[k][r.banks[k]] = SplitFor(r)
<1>1. Assigned(r) /\ Cardinality(SplitsOf(r)) = 1
  BY DEF ValidDataset, Range
<1>2. SplitsOf(r) \in SUBSET SplitNames
  BY <1>1, LearningAssumption DEF Assigned, SplitsOf
<1>3. IsFiniteSet(SplitNames)
  <2>1. IsFiniteSet({"training"})
    BY FS_Singleton
  <2>2. IsFiniteSet({"training"} \cup {"validation"})
    BY <2>1, FS_AddElement
  <2>3. IsFiniteSet({"training"} \cup {"validation"} \cup {"held_out"})
    BY <2>2, FS_AddElement
  <2>4. SplitNames = {"training"} \cup {"validation"} \cup {"held_out"}
    BY DEF SplitNames
  <2> QED
    BY <2>3, <2>4
<1>4. IsFiniteSet(SplitsOf(r))
  BY <1>2, <1>3, FS_Subset
<1>5. PICK s : SplitsOf(r) = {s}
  BY <1>1, <1>4, FS_Singleton
<1>6. SplitsOf(r) = {SplitFor(r)}
  <2>1. s \in SplitNames
    BY <1>2, <1>5
  <2> QED
    BY <1>5, <2>1 DEF SplitFor
<1> QED
  BY <1>6 DEF SplitsOf

LEMMA ValuesFollow == LearningInv => ValuesAreShown
<1> SUFFICES ASSUME LearningInv, accepted PROVE ValuesAreShown
  BY DEF ValuesAreShown
<1>0. RecordsAreValid /\ ValidDataset(records) /\ backups \in 0..MaxBackups
  BY DEF LearningInv
<1>1. ASSUME NEW key \in DOMAIN values
      PROVE  /\ key \in DOMAIN Outcomes[backups]
             /\ Min(Outcomes[backups][key]) <= values[key]
             /\ values[key] <= Max(Outcomes[backups][key])
  <2>1. PICK S, v : S = Outcomes[backups][key] /\ v = values[key]
    OBVIOUS
  <2>2. key \in ShownKeys /\ v \in Int /\ Between(v, S)
    BY <2>1 DEF LearningInv
  <2>3. Table(Outcomes[backups])
    BY <1>0, OutcomesAre
  <2>4. key \in DOMAIN Outcomes[backups] /\ S \subseteq Int /\ IsFiniteSet(S) /\ S # {}
    BY <2>1, <2>2, <2>3 DEF Table
  <2>5. PICK lo, hi \in S : lo <= v /\ v <= hi
    BY <2>2 DEF Between
  <2>6. PICK a, b : a = Min(S) /\ b = Max(S)
    OBVIOUS
  <2>7. a \in S /\ b \in S /\ a <= lo /\ hi <= b
    BY <2>4, <2>6, ExtremesAre
  <2>8. a \in Int /\ b \in Int /\ lo \in Int /\ hi \in Int
    BY <2>4, <2>7
  <2>9. a <= v /\ v <= b
    BY <2>2, <2>5, <2>7, <2>8
  <2> QED
    BY <2>1, <2>4, <2>6, <2>9
<1>2. ASSUME NEW r \in Shown, NEW q \in Range(records) \ Shown, SplitFor(q) # "training"
      PROVE  r.episode # q.episode /\ \A k \in BankKinds : r.banks[k] # q.banks[k]
  <2>1. r \in Range(records) /\ q \in Range(records) /\ SplitFor(r) = "training"
    BY DEF Shown
  <2>2. r.episode # q.episode
    BY <1>0, <1>2, <2>1 DEF ValidDataset, Range
  <2>3. \A k \in BankKinds : r.banks[k] # q.banks[k]
    BY <1>0, <1>2, <2>1, SplitIs
  <2> QED
    BY <2>2, <2>3
<1> QED
  BY <1>1, <1>2 DEF ValuesAreShown

(* For every set of records and splits, every step size and every order    *)
(* of backups: a value lies between the least and the greatest outcome     *)
(* that the training records show, and no record it comes from shares an   *)
(* episode, a map, an opponent or a seed with one that is not for training.*)
THEOREM ValuesShown == LearningSpec => []ValuesAreShown
BY LearningStart, LearningStep, ValuesFollow, PTL DEF LearningSpec
=============================================================================
