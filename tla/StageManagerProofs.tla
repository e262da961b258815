------------------------- MODULE StageManagerProofs -------------------------
(***************************************************************************)
(* Theorems about StageManager, for every set of events, zones and         *)
(* acknowledgements and for every length of freeze, stage and time.        *)
(*                                                                         *)
(* The invariants hang together: that a decision is justified needs events *)
(* that stay on record, that motion is safe needs what the phase says of   *)
(* the clock and of the pending estimates, and that the choice of a winner *)
(* is a choice at all needs events with different ids.  Records, OutcomeOK *)
(* and Barrier say so; together they are inductive.                        *)
(***************************************************************************)
EXTENDS StageManager, FiniteSetTheorems, WellFoundedInduction, TLAPS

Outcomes ==
    [phase : Phases, hold : BOOLEAN, held : EventType \cup {NoEvent},
     kind : TerminalKinds, evidence : Evidences]

Distinct(S) == \A a, b \in S : a.id = b.id => a = b

Records ==
    /\ pending \cup officials \subseteq accepted
    /\ IsFiniteSet(accepted)
    /\ Distinct(accepted)
    /\ \A e \in pending : e.evidence = "ESTIMATE" /\ e.epoch = epoch
    /\ \A e \in officials : e.evidence # "ESTIMATE"
    /\ \A e \in accepted :
          /\ e.stage = stage
          /\ FreezeEnds <= e.lower /\ e.upper < StageEnds /\ e.upper <= lastNow
          /\ e.kind = "ARRIVAL" => e.zone = target

(* What outcome o may be in a stage that began at start, at time now, with *)
(* the events pend, off and acc on record.                                 *)
OutcomeOK(o, start, now, pend, off, acc) ==
    /\ o \in Outcomes
    /\ o.phase \in {"INIT", "FREEZE"} =>
          /\ o.hold = FALSE /\ o.held = NoEvent /\ o.kind = "NONE"
          /\ acc = {}
    /\ o.phase = "INIT" => start = 0
    /\ o.phase = "FREEZE" => now < start + FreezeDuration
    /\ o.phase = "ACTIVE" =>
          /\ now >= start + FreezeDuration /\ now < start + StageDuration
          /\ off = {}
          /\ pend # {} => o.hold
          /\ o.kind = "NONE"
          /\ o.held # NoEvent => o.hold /\ pend = {o.held}
    /\ o.phase = "TERMINAL" =>
          /\ o.held = NoEvent
          /\ o.kind # "NONE"
          /\ o.hold <=> o.kind = "AMBIGUOUS"
    /\ o.kind \in {"CAPTURE", "ARRIVAL"} =>
          \E e \in acc : e.kind = o.kind /\ e.evidence # "ESTIMATE"
    /\ o.kind = "TIMEOUT" => now >= start + StageDuration

Barrier == stage > 1 /\ ~resetPending => resetAcks = ResetNames

StageInv ==
    /\ StageTypeOK
    /\ Records
    /\ OutcomeOK(outcome, started, lastNow, pending, officials, accepted)
    /\ Barrier

-----------------------------------------------------------------------------
(* Order among events.                                                     *)

LEMMA LeastNatural ==
    ASSUME NEW T \in SUBSET Nat, T # {}
    PROVE  \E x \in T : \A y \in T : x <= y
<1>1. PICK x \in T : \A y \in T : ~(<<y, x>> \in OpToRel(<, Nat))
  BY NatLessThanWellFounded, WFMin
<1>2. \A y \in T : ~(y < x)
  BY <1>1 DEF OpToRel
<1>3. \A y \in T : y \in Nat
  OBVIOUS
<1> QED
  BY <1>2, <1>3

LEMMA Durations ==
    /\ FreezeDuration \in Nat /\ StageDuration \in Nat
    /\ FreezeDuration > 0 /\ FreezeDuration < StageDuration
    /\ MaxTime \in Nat /\ MaxRequests \in Nat /\ MaxEvents \in Nat
    /\ MaxStages \in Nat /\ MaxStages > 0 /\ MaxEpochs \in Nat /\ MaxEpochs > 0
  BY StageAssumption DEF ProfileValid

LEMMA EventFacts ==
    ASSUME NEW e \in EventType
    PROVE  /\ e.id \in Nat /\ e.lower \in Nat /\ e.upper \in Nat
           /\ e.kind \in EventKinds /\ e.evidence \in Evidences
  BY Durations DEF EventType

LEMMA FirstEvent ==
    ASSUME NEW S \in SUBSET EventType, S # {}, Distinct(S)
    PROVE  \E e \in S : \A f \in S : e = f \/ Before(e, f)
<1>1. \A e \in S : e.id \in Nat /\ e.lower \in Nat /\ e.upper \in Nat
  BY EventFacts
<1>2. PICK a \in S : \A f \in S : a.lower <= f.lower
  <2> DEFINE U == {e.lower : e \in S}
  <2>1. U \in SUBSET Nat /\ U # {}
    BY <1>1
  <2>2. PICK u \in U : \A v \in U : u <= v
    BY <2>1, LeastNatural
  <2> QED
    BY <2>2
<1>3. PICK b \in S : /\ b.lower = a.lower
                     /\ \A f \in S : f.lower = a.lower => b.upper <= f.upper
  <2> DEFINE T == {e \in S : e.lower = a.lower}
             U == {e.upper : e \in T}
  <2>1. U \in SUBSET Nat /\ U # {}
    BY <1>1
  <2>2. PICK u \in U : \A v \in U : u <= v
    BY <2>1, LeastNatural
  <2> QED
    BY <2>2
<1>4. PICK c \in S : /\ c.lower = a.lower /\ c.upper = b.upper
                     /\ \A f \in S : f.lower = a.lower /\ f.upper = b.upper => c.id <= f.id
  <2> DEFINE T == {e \in S : e.lower = a.lower /\ e.upper = b.upper}
             U == {e.id : e \in T}
  <2>1. U \in SUBSET Nat /\ U # {}
    BY <1>1, <1>3
  <2>2. PICK u \in U : \A v \in U : u <= v
    BY <2>1, LeastNatural
  <2> QED
    BY <2>2
<1>5. ASSUME NEW f \in S
      PROVE  c = f \/ Before(c, f)
  <2>1. CASE f.lower = a.lower /\ f.upper = b.upper /\ f.id = c.id
    BY <2>1 DEF Distinct
  <2>2. CASE ~(f.lower = a.lower /\ f.upper = b.upper /\ f.id = c.id)
    BY <1>1, <1>2, <1>3, <1>4, <2>2 DEF Before
  <2> QED
    BY <2>1, <2>2
<1> QED
  BY <1>5

LEMMA EarliestIsEvent ==
    ASSUME NEW S \in SUBSET EventType, S # {}, Distinct(S)
    PROVE  Earliest(S) \in S
  BY FirstEvent DEF Earliest

LEMMA StrongestIsEvidence ==
    ASSUME NEW S \in SUBSET EventType, S # {}
    PROVE  Strongest(S) \in Evidences
<1>1. \A e \in S : e.evidence \in Evidences /\ Rank(e.evidence) \in 0..2
  BY EventFacts DEF Evidences, Rank
<1>2. \E e \in S : \A f \in S : Rank(f.evidence) <= Rank(e.evidence)
  <2>1. CASE \E e \in S : Rank(e.evidence) = 2
    BY <1>1, <2>1
  <2>2. CASE (\A e \in S : Rank(e.evidence) # 2) /\ \E e \in S : Rank(e.evidence) = 1
    BY <1>1, <2>2
  <2>3. CASE \A e \in S : Rank(e.evidence) # 2 /\ Rank(e.evidence) # 1
    BY <1>1, <2>3
  <2> QED
    BY <2>1, <2>2, <2>3
<1> HIDE DEF Rank
<1> QED
  BY <1>1, <1>2 DEF Strongest

LEMMA FirstConflictIsPair ==
    ASSUME NEW S \in SUBSET EventType, Distinct(S), Conflicts(S) # {}
    PROVE  FirstConflict(S) \in S \X S
<1>1. Conflicts(S) \subseteq S \X S
  BY DEF Conflicts
<1> DEFINE F == {p[1] : p \in Conflicts(S)}
<1>2. F \in SUBSET EventType /\ F # {} /\ Distinct(F)
  BY <1>1 DEF Distinct
<1>3. PICK a \in F : \A f \in F : a = f \/ Before(a, f)
  BY <1>2, FirstEvent
<1> DEFINE G == {p[2] : p \in {q \in Conflicts(S) : q[1] = a}}
<1>4. G \in SUBSET EventType /\ G # {} /\ Distinct(G)
  BY <1>1 DEF Distinct
<1>5. PICK b \in G : \A f \in G : b = f \/ Before(b, f)
  BY <1>4, FirstEvent
<1>6. <<a, b>> \in Conflicts(S)
  BY <1>1, <1>5
<1>7. ASSUME NEW q \in Conflicts(S)
      PROVE  \/ <<a, b>> = q \/ Before(a, q[1])
             \/ (a = q[1] /\ Before(b, q[2]))
  <2>1. q = <<q[1], q[2]>> /\ q[1] \in F
    BY <1>1
  <2>2. CASE q[1] = a
    BY <1>5, <2>1, <2>2
  <2>3. CASE q[1] # a
    BY <1>3, <2>1, <2>3
  <2> QED
    BY <2>2, <2>3
<1>8. \E p \in Conflicts(S) : \A q \in Conflicts(S) :
          p = q \/ Before(p[1], q[1]) \/ (p[1] = q[1] /\ Before(p[2], q[2]))
  BY <1>6, <1>7
<1> HIDE DEF F, G
<1> QED
  BY <1>1, <1>8 DEF FirstConflict

LEMMA SoleIsMember ==
    ASSUME NEW S, IsFiniteSet(S), NoEvent \notin S
    PROVE  Sole(S) # NoEvent => S = {Sole(S)}
  BY FS_Singleton DEF Sole

-----------------------------------------------------------------------------
(* What the two functions that every call ends with make of an outcome.    *)

LEMMA AtTimeOK ==
    ASSUME NEW o, NEW start \in Nat, NEW now \in Nat, NEW t \in Nat, now <= t,
           NEW pend, NEW off, NEW acc, pend \cup off \subseteq acc,
           OutcomeOK(o, start, now, pend, off, acc)
    PROVE  OutcomeOK(AtTime(o, start, t), start, t, pend, off, acc)
<1>1. o \in Outcomes
  BY DEF OutcomeOK
<1>2. CASE PastDeadline(o, start, t)
  <2>1. t >= start + StageDuration
    BY <1>2 DEF PastDeadline
  <2>2. ~PastFreeze(o, start, t)
    BY <2>1, Durations DEF PastFreeze
  <2> DEFINE d == Decided("TIMEOUT", "ESTIMATE")
  <2>3. AtTime(o, start, t) = d
    BY <1>2, <2>2 DEF AtTime, TimedOut
  <2>4. /\ d.phase = "TERMINAL" /\ d.hold = FALSE /\ d.held = NoEvent
        /\ d.kind = "TIMEOUT" /\ d \in Outcomes
    BY DEF Decided, Outcomes, Phases, TerminalKinds, EventKinds, Evidences
  <2> HIDE DEF d
  <2> QED
    BY <2>1, <2>3, <2>4 DEF OutcomeOK
<1>3. CASE ~PastDeadline(o, start, t) /\ PastFreeze(o, start, t)
  <2>1. AtTime(o, start, t) = [o EXCEPT !.phase = "ACTIVE"]
    BY <1>3 DEF AtTime
  <2>2. o.phase = "FREEZE" /\ t >= start + FreezeDuration /\ t < start + StageDuration
    BY <1>3 DEF PastFreeze
  <2>3. [o EXCEPT !.phase = "ACTIVE"] \in Outcomes
    BY <1>1 DEF Outcomes, Phases
  <2> QED
    BY <1>1, <2>1, <2>2, <2>3 DEF OutcomeOK, Outcomes
<1>4. CASE ~PastDeadline(o, start, t) /\ ~PastFreeze(o, start, t)
  <2>1. AtTime(o, start, t) = o
    BY <1>4 DEF AtTime
  <2>2. o.phase \in {"FREEZE", "ACTIVE"} => t < start + StageDuration
    BY <1>4, Durations DEF PastDeadline
  <2>3. o.phase = "FREEZE" => t < start + FreezeDuration
    BY <1>4, <2>2, Durations DEF PastFreeze
  <2> QED
    BY <2>1, <2>2, <2>3, Durations DEF OutcomeOK
<1> QED
  BY <1>2, <1>3, <1>4

(* The cases of _terminalize_official_events.                              *)
AdjudicatedAs(a, o, off, pend) ==
    /\ off # {} => \E kind \in EventKinds \cup {"AMBIGUOUS"}, s \in Evidences :
          /\ a = Decided(kind, s)
          /\ kind # "AMBIGUOUS" => \E e \in off : e.kind = kind
    /\ off = {} /\ o.phase = "TERMINAL" => a \in {o, [o EXCEPT !.held = NoEvent]}
    /\ off = {} /\ o.phase = "FREEZE" => a.phase = "FREEZE"
    /\ off = {} /\ o.phase = "ACTIVE" =>
          \E h \in BOOLEAN, x \in EventType \cup {NoEvent} :
             /\ a = [o EXCEPT !.hold = h, !.held = x, !.kind = "NONE"]
             /\ pend # {} => h
             /\ x # NoEvent => h /\ pend = {x}

LEMMA AdjudicatedCases ==
    ASSUME NEW o \in Outcomes, NEW off, NEW pend,
           off \cup pend \in SUBSET EventType, Distinct(off \cup pend),
           IsFiniteSet(pend)
    PROVE  AdjudicatedAs(Adjudicated(o, off, pend), o, off, pend)
<1> DEFINE a == Adjudicated(o, off, pend)
<1>1. NoEvent \notin EventType
  BY StageAssumption DEF ProfileValid
<1> DEFINE both == off \cup pend
<1>5. SUFFICES AdjudicatedAs(a, o, off, pend)
  OBVIOUS
<1>2. CASE Conflicts(both) # {}
  <2>1. FirstConflict(both) \in both \X both
    BY <1>2, FirstConflictIsPair
  <2> DEFINE p == FirstConflict(both)
             s == Strongest({p[1], p[2]})
  <2>2. s \in Evidences
    BY <2>1, StrongestIsEvidence
  <2>3. Ambiguous(both) = Decided("AMBIGUOUS", s)
    BY DEF Ambiguous
  <2>4. off # {} => a = Ambiguous(both)
    BY <1>2 DEF Adjudicated
  <2>5. off = {} /\ o.phase = "ACTIVE" =>
            a = [o EXCEPT !.hold = TRUE, !.held = NoEvent, !.kind = "NONE"]
    BY <1>2 DEF Adjudicated
  <2>6. off = {} /\ o.phase # "ACTIVE" =>
            a = [o EXCEPT !.held = NoEvent]
    BY <1>2 DEF Adjudicated
  <2>7. [o EXCEPT !.held = NoEvent].phase = o.phase
    BY DEF Outcomes
  <2> HIDE DEF a, p, s
  <2> QED
    BY <2>2, <2>3, <2>4, <2>5, <2>6, <2>7 DEF AdjudicatedAs
<1>3. CASE Conflicts(both) = {}
  <2>1. ASSUME off # {}
        PROVE  /\ a = Decided(Earliest(off).kind, Strongest(off))
               /\ Earliest(off) \in off /\ Earliest(off).kind \in EventKinds
               /\ Strongest(off) \in Evidences
    <3>1. a = Decided(Earliest(off).kind, Strongest(off))
      BY <1>3, <2>1 DEF Adjudicated
    <3>2. off \in SUBSET EventType /\ Distinct(off)
      BY DEF Distinct
    <3> QED
      BY <2>1, <3>1, <3>2, EarliestIsEvent, StrongestIsEvidence, EventFacts
  <2>2. off = {} /\ o.phase # "TERMINAL" => a = HeldFor(o, pend)
    BY <1>3 DEF Adjudicated
  <2>3. off = {} /\ o.phase = "TERMINAL" => a = o
    BY <1>3 DEF Adjudicated
  <2>4. HeldFor(o, pend) = [o EXCEPT !.hold = (pend # {}), !.held = Sole(pend), !.kind = "NONE"]
    BY DEF HeldFor
  <2>5. Sole(pend) # NoEvent => pend = {Sole(pend)}
    BY <1>1, SoleIsMember
  <2>6. Sole(pend) \in EventType \cup {NoEvent}
    BY <2>5
  <2>7. HeldFor(o, pend).phase = o.phase
    BY <2>4 DEF Outcomes
  <2> HIDE DEF a, both
  <2> QED
    BY <2>1, <2>2, <2>3, <2>4, <2>5, <2>6, <2>7 DEF AdjudicatedAs
<1> QED
  BY <1>2, <1>3

(* What adjudication makes of an open or a finished stage is an outcome    *)
(* for the events that are now on record.                                  *)
LEMMA AdjudicatedOK ==
    ASSUME NEW o, NEW start \in Nat, NEW now \in Nat,
           NEW pend0, NEW off0, NEW acc0, OutcomeOK(o, start, now, pend0, off0, acc0),
           o.phase \in {"ACTIVE", "TERMINAL"},
           NEW pend, NEW off, NEW acc, off \cup pend \subseteq acc,
           acc \in SUBSET EventType, Distinct(acc), IsFiniteSet(acc),
           \A e \in off : e.evidence # "ESTIMATE",
           \A e \in acc0 : e.evidence # "ESTIMATE" => e \in acc
    PROVE  OutcomeOK(Adjudicated(o, off, pend), start, now, pend, off, acc)
<1>1. o \in Outcomes
  BY DEF OutcomeOK
<1>2. /\ off \cup pend \in SUBSET EventType /\ Distinct(off \cup pend)
      /\ IsFiniteSet(pend)
  BY FS_Subset DEF Distinct
<1> DEFINE a == Adjudicated(o, off, pend)
<1>3. AdjudicatedAs(a, o, off, pend)
  BY <1>1, <1>2, AdjudicatedCases
<1>4. SUFFICES OutcomeOK(a, start, now, pend, off, acc)
  OBVIOUS
<1> HIDE DEF a
<1>5. CASE off # {}
  <2>1. PICK kind \in EventKinds \cup {"AMBIGUOUS"}, s \in Evidences :
           /\ a = Decided(kind, s)
           /\ kind # "AMBIGUOUS" => \E e \in off : e.kind = kind
    BY <1>3, <1>5 DEF AdjudicatedAs
  <2> DEFINE d == Decided(kind, s)
  <2>2. /\ d.phase = "TERMINAL" /\ d.hold = (kind = "AMBIGUOUS") /\ d.held = NoEvent
        /\ d.kind = kind /\ d \in Outcomes
    BY DEF Decided, Outcomes, Phases, TerminalKinds
  <2>3. kind # "NONE" /\ kind # "TIMEOUT"
    BY DEF EventKinds
  <2>4. a = d
    BY <2>1
  <2> HIDE DEF d
  <2> QED
    BY <2>1, <2>2, <2>3, <2>4 DEF OutcomeOK
<1>6. CASE off = {} /\ o.phase = "TERMINAL"
  <2>1. o.held = NoEvent
    BY <1>6 DEF OutcomeOK
  <2>2. [o EXCEPT !.held = NoEvent] = o
    BY <1>1, <2>1 DEF Outcomes
  <2>3. a = o
    BY <1>3, <1>6, <2>2 DEF AdjudicatedAs
  <2> QED
    BY <1>6, <2>3 DEF OutcomeOK
<1>7. CASE off = {} /\ o.phase = "ACTIVE"
  <2>1. PICK h \in BOOLEAN, x \in EventType \cup {NoEvent} :
           /\ a =
                 [o EXCEPT !.hold = h, !.held = x, !.kind = "NONE"]
           /\ pend # {} => h
           /\ x # NoEvent => h /\ pend = {x}
    BY <1>3, <1>7 DEF AdjudicatedAs
  <2> DEFINE d == [o EXCEPT !.hold = h, !.held = x, !.kind = "NONE"]
  <2>2. /\ d.phase = "ACTIVE" /\ d.hold = h /\ d.held = x /\ d.kind = "NONE"
        /\ d \in Outcomes
    BY <1>1, <1>7 DEF Outcomes, TerminalKinds
  <2>3. a = d
    BY <2>1
  <2>4. now >= start + FreezeDuration /\ now < start + StageDuration
    BY <1>7 DEF OutcomeOK
  <2> HIDE DEF d
  <2> QED
    BY <1>7, <2>1, <2>2, <2>3, <2>4 DEF OutcomeOK
<1> QED
  BY <1>5, <1>6, <1>7

-----------------------------------------------------------------------------
(* What the parts of the invariant say in a state that satisfies it.       *)

LEMMA StateFacts ==
    ASSUME StageInv
    PROVE  /\ lastNow \in 0..MaxTime /\ lastNow \in Nat
           /\ started \in 0..MaxTime /\ started \in Nat
           /\ outcome \in Outcomes
           /\ pending \cup officials \subseteq accepted
           /\ accepted \in SUBSET EventType
           /\ IsFiniteSet(accepted) /\ Distinct(accepted)
           /\ Cardinality(accepted) \in Nat
           /\ OutcomeOK(outcome, started, lastNow, pending, officials, accepted)
<1>1. Cardinality(accepted) \in Nat
  BY FS_CardinalityType DEF StageInv, Records
<1> QED
  BY <1>1, Durations DEF StageInv, StageTypeOK, Records, Outcomes

LEMMA LaterOutcome ==
    ASSUME StageInv, NEW t \in lastNow..MaxTime
    PROVE  /\ t \in 0..MaxTime /\ t \in Nat /\ lastNow <= t
           /\ OutcomeOK(AtTime(outcome, started, t), started, t,
                        pending, officials, accepted)
<1>1. t \in 0..MaxTime /\ t \in Nat /\ lastNow <= t
  BY StateFacts, Durations
<1> QED
  BY <1>1, StateFacts, AtTimeOK

LEMMA RequestFacts ==
    ASSUME StageInv, NEW t, Request(t)
    PROVE  /\ t \in lastNow..MaxTime /\ lastNow' = t
           /\ requests' \in 0..MaxRequests
  BY Durations DEF Request, StageInv, StageTypeOK

(* Type and records of a call that leaves the events and the stage alone.  *)
LEMMA RecordsLater ==
    ASSUME StageInv, NEW t \in lastNow..MaxTime, lastNow' = t,
           UNCHANGED <<stage, started, evidence, epoch>>, accepted # {} => target' = target
    PROVE  Records'
<1>1. \A e \in accepted : e.upper \in Nat
  BY StateFacts, EventFacts
<1> QED
  BY <1>1, StateFacts, LaterOutcome
     DEF StageInv, Records, evidence, FreezeEnds, StageEnds, Distinct

LEMMA TypeLater ==
    ASSUME StageInv, lastNow' \in 0..MaxTime, outcome' \in Outcomes,
           requests' \in 0..MaxRequests, target' \in Zones \cup {NoZone},
           UNCHANGED <<stage, started, evidence, epoch, barriers>>
    PROVE  StageTypeOK'
  BY DEF StageInv, StageTypeOK, evidence, barriers, Outcomes

-----------------------------------------------------------------------------
(* One lemma per action that touches the events or the outcome.            *)

LEMMA EventStep ==
    ASSUME StageInv, NEW e \in Events, NEW t, Admissible(e, t), Accept(e, t),
           \/ e.evidence = "ESTIMATE" /\ pending' = pending \cup {e} /\ officials' = officials
           \/ e.evidence # "ESTIMATE" /\ officials' = officials \cup {e} /\ pending' = pending
    PROVE  StageInv'
<1>0. e \in EventType /\ e.lower <= e.upper
  BY StageAssumption DEF ProfileValid
<1>1. /\ t \in lastNow..MaxTime /\ lastNow' = t /\ accepted' = accepted \cup {e}
      /\ UNCHANGED <<stage, started, target, requests, epoch, barriers>>
      /\ outcome' = AtTime(Adjudicated(Opened(t), officials', pending'), started, t)
  BY DEF Admissible, Accept
<1>2. t \in 0..MaxTime /\ t \in Nat /\ lastNow <= t
  BY <1>1, LaterOutcome
<1>3. /\ e.stage = stage /\ e.epoch = epoch /\ outcome.phase # "INIT"
      /\ FreezeEnds <= e.lower /\ e.upper <= t /\ e.upper < StageEnds
      /\ e.kind = "ARRIVAL" => e.zone = target
      /\ \A f \in accepted : f.id # e.id
      /\ Cardinality(accepted) < MaxEvents
  BY <1>0, EventFacts, StateFacts, Durations DEF Admissible, FreezeEnds
<1>4. e.lower \in Nat /\ e.upper \in Nat
  BY <1>0, EventFacts
<1>5. /\ accepted' \in SUBSET EventType /\ IsFiniteSet(accepted')
      /\ Distinct(accepted') /\ Cardinality(accepted') <= MaxEvents
      /\ officials' \cup pending' \subseteq accepted'
  <2>1. e \notin accepted
    BY <1>3
  <2>2. IsFiniteSet(accepted') /\ Cardinality(accepted') = Cardinality(accepted) + 1
    BY <1>1, <2>1, StateFacts, FS_AddElement
  <2>3. Distinct(accepted')
    BY <1>1, <1>3, StateFacts DEF Distinct
  <2> QED
    BY <1>0, <1>1, <1>3, <2>2, <2>3, StateFacts, Durations
<1>6. \A f \in officials' : f.evidence # "ESTIMATE"
  BY DEF StageInv, Records
<1>7. Records'
  <2>1. \A f \in accepted : f.upper \in Nat
    BY StateFacts, EventFacts
  <2>2. \A f \in accepted' :
          /\ f.stage = stage /\ FreezeEnds <= f.lower /\ f.upper < StageEnds /\ f.upper <= t
          /\ f.kind = "ARRIVAL" => f.zone = target
    BY <1>1, <1>2, <1>3, <2>1, StateFacts DEF StageInv, Records
  <2>3. \A f \in pending' : f.evidence = "ESTIMATE" /\ f.epoch = epoch
    BY <1>3 DEF StageInv, Records
  <2> QED
    BY <1>1, <1>5, <1>6, <2>2, <2>3 DEF Records, FreezeEnds, StageEnds
<1>8. ASSUME NEW o, NEW now \in Nat, now <= t, o.phase \in {"ACTIVE", "TERMINAL"},
             OutcomeOK(o, started, now, pending, officials, accepted)
      PROVE  OutcomeOK(AtTime(Adjudicated(o, officials', pending'), started, t),
                       started, t, pending', officials', accepted')
  <2>1. OutcomeOK(Adjudicated(o, officials', pending'), started, now,
                  pending', officials', accepted')
    BY <1>1, <1>5, <1>6, <1>8, StateFacts, AdjudicatedOK
  <2> QED
    BY <1>2, <1>5, <1>8, <2>1, StateFacts, AtTimeOK
<1>9. OutcomeOK(outcome', started, t, pending', officials', accepted')
  <2>1. CASE outcome.phase \in {"ACTIVE", "TERMINAL"}
    <3>1. Opened(t) = outcome
      BY <2>1 DEF Opened, PastFreeze
    <3> QED
      BY <1>1, <1>2, <1>8, <2>1, <3>1, StateFacts
  <2>2. CASE outcome.phase = "FREEZE"
    <3> DEFINE open == [outcome EXCEPT !.phase = "ACTIVE"]
               first == started + FreezeDuration
    <3>1. /\ first \in Nat /\ lastNow <= first /\ first <= t
          /\ first < started + StageDuration
      BY <1>0, <1>2, <1>3, <1>4, <2>2, StateFacts, Durations DEF OutcomeOK, FreezeEnds
    <3>2. AtTime(outcome, started, first) = open
      BY <2>2, <3>1, StateFacts, Durations DEF AtTime, PastDeadline, PastFreeze
    <3>3. open.phase = "ACTIVE" /\ open \in Outcomes
      BY StateFacts DEF Outcomes, Phases
    <3>4. OutcomeOK(open, started, first, pending, officials, accepted)
      BY <3>1, <3>2, StateFacts, AtTimeOK
    <3> HIDE DEF open, first
    <3>5. OutcomeOK(AtTime(Adjudicated(open, officials', pending'), started, t),
                    started, t, pending', officials', accepted')
      BY <1>8, <3>1, <3>3, <3>4
    <3>6. CASE t < started + StageDuration
      <4>1. Opened(t) = open
        BY <1>2, <2>2, <3>1, <3>6 DEF Opened, PastFreeze, open, first
      <4> QED
        BY <1>1, <3>5, <4>1
    <3>7. CASE t >= started + StageDuration
      <4> DEFINE a == Adjudicated(outcome, officials', pending')
                 b == Adjudicated(open, officials', pending')
      <4>1. Opened(t) = outcome
        BY <1>2, <3>7, StateFacts, Durations DEF Opened, PastFreeze
      <4>2. officials' # {} => a = b
        BY DEF Adjudicated
      <4>3. officials' = {} => a.phase = "FREEZE" /\ b.phase = "ACTIVE"
        <5>1. /\ officials' \cup pending' \in SUBSET EventType
              /\ Distinct(officials' \cup pending') /\ IsFiniteSet(pending')
          BY <1>5, FS_Subset DEF Distinct
        <5>2. AdjudicatedAs(a, outcome, officials', pending')
          BY <5>1, StateFacts, AdjudicatedCases
        <5>3. AdjudicatedAs(b, open, officials', pending')
          BY <3>3, <5>1, AdjudicatedCases
        <5> HIDE DEF a, b
        <5> QED
          BY <2>2, <3>3, <5>2, <5>3 DEF AdjudicatedAs, Outcomes
      <4>4. officials' = {} => AtTime(a, started, t) = AtTime(b, started, t)
        <5> HIDE DEF a, b
        <5>1. officials' = {} => PastDeadline(a, started, t) /\ PastDeadline(b, started, t)
          BY <3>7, <4>3 DEF PastDeadline
        <5>2. ~PastFreeze(a, started, t) /\ ~PastFreeze(b, started, t)
          BY <1>2, <3>7, StateFacts, Durations DEF PastFreeze
        <5> QED
          BY <5>1, <5>2 DEF AtTime, TimedOut
      <4> QED
        BY <1>1, <3>5, <4>1, <4>2, <4>4
    <3> QED
      BY <1>2, <3>6, <3>7, StateFacts, Durations
  <2> QED
    BY <1>3, <2>1, <2>2, StateFacts DEF Outcomes, Phases
<1>10. StageTypeOK'
  <2>1. outcome' \in Outcomes
    BY <1>9 DEF OutcomeOK
  <2> QED
    BY <1>1, <1>2, <1>5, <2>1 DEF StageInv, StageTypeOK, barriers, Outcomes
<1>11. Barrier'
  BY <1>1 DEF StageInv, Barrier, barriers
<1> QED
  BY <1>1, <1>7, <1>9, <1>10, <1>11 DEF StageInv

LEMMA DismissStep ==
    ASSUME StageInv, NEW t, NEW e \in pending, DismissEstimate(t, e)
    PROVE  StageInv'
<1> DEFINE o == AtTime(outcome, started, t)
<1>1. /\ t \in lastNow..MaxTime /\ lastNow' = t /\ requests' \in 0..MaxRequests
      /\ pending' = pending \ {e}
      /\ outcome' = Adjudicated(o, officials, pending')
      /\ UNCHANGED <<stage, started, officials, accepted, target, epoch, barriers>>
  BY RequestFacts DEF DismissEstimate
<1>2. OutcomeOK(o, started, t, pending, officials, accepted)
  BY <1>1, LaterOutcome
<1>3. t \in 0..MaxTime /\ t \in Nat /\ lastNow <= t
  BY <1>1, LaterOutcome
<1>4. o.phase \in {"ACTIVE", "TERMINAL"}
  BY <1>2, StateFacts DEF OutcomeOK, Outcomes, Phases
<1>5. \A f \in officials : f.evidence # "ESTIMATE"
  BY DEF StageInv, Records
<1>6. OutcomeOK(outcome', started, t, pending', officials, accepted)
  <2> HIDE DEF o
  <2>1. officials \cup pending' \subseteq accepted
    BY <1>1, StateFacts
  <2> QED
    BY <1>1, <1>2, <1>3, <1>4, <1>5, <2>1, StateFacts, AdjudicatedOK
<1>7. Records'
  <2>1. \A f \in accepted : f.upper \in Nat
    BY StateFacts, EventFacts
  <2> QED
    BY <1>1, <1>3, <2>1, StateFacts DEF StageInv, Records, FreezeEnds, StageEnds, Distinct
<1>8. StageTypeOK'
  <2>1. outcome' \in Outcomes
    BY <1>6 DEF OutcomeOK
  <2> QED
    BY <1>1, <1>3, <2>1 DEF StageInv, StageTypeOK, barriers, Outcomes
<1> QED
  BY <1>1, <1>6, <1>7, <1>8 DEF StageInv, Barrier, barriers

LEMMA ConfirmStep ==
    ASSUME StageInv, NEW t, NEW e \in pending, ConfirmOfficial(t, e)
    PROVE  StageInv'
<1> DEFINE o == AtTime(outcome, started, t)
           c == [e EXCEPT !.evidence = "OFFICIAL"]
<1>1. /\ t \in lastNow..MaxTime /\ lastNow' = t /\ requests' \in 0..MaxRequests
      /\ pending' = pending \ {e}
      /\ officials' = officials \cup {c}
      /\ accepted' = (accepted \ {e}) \cup {c}
      /\ outcome' = Adjudicated(o, officials', pending')
      /\ UNCHANGED <<stage, started, target, epoch, barriers>>
  BY RequestFacts DEF ConfirmOfficial
<1>2. OutcomeOK(o, started, t, pending, officials, accepted)
  BY <1>1, LaterOutcome
<1>3. t \in 0..MaxTime /\ t \in Nat /\ lastNow <= t
  BY <1>1, LaterOutcome
<1>4. o.phase \in {"ACTIVE", "TERMINAL"}
  BY <1>2, StateFacts DEF OutcomeOK, Outcomes, Phases
<1>5. e \in EventType /\ e \in accepted /\ e.evidence = "ESTIMATE"
  BY StateFacts DEF StageInv, Records
<1>6. /\ c \in EventType /\ c.evidence = "OFFICIAL" /\ c.id = e.id
      /\ c.stage = e.stage /\ c.lower = e.lower /\ c.upper = e.upper
      /\ c.kind = e.kind /\ c.zone = e.zone
  BY <1>5 DEF EventType, Evidences
<1> HIDE DEF o, c
<1>7. /\ accepted' \in SUBSET EventType /\ IsFiniteSet(accepted')
      /\ Distinct(accepted') /\ Cardinality(accepted') <= MaxEvents
      /\ officials' \cup pending' \subseteq accepted'
  <2>1. /\ IsFiniteSet(accepted \ {e})
        /\ Cardinality(accepted \ {e}) = Cardinality(accepted) - 1
    BY <1>5, StateFacts, FS_RemoveElement
  <2>2. /\ IsFiniteSet(accepted')
        /\ \/ Cardinality(accepted') = Cardinality(accepted)
           \/ Cardinality(accepted') = Cardinality(accepted) - 1
    BY <1>1, <2>1, StateFacts, FS_AddElement
  <2>3. Distinct(accepted')
    BY <1>1, <1>5, <1>6, StateFacts DEF Distinct
  <2>4. e \notin officials
    BY <1>5 DEF StageInv, Records
  <2>5. Cardinality(accepted) <= MaxEvents
    BY DEF StageInv, StageTypeOK
  <2> QED
    BY <1>1, <1>6, <2>2, <2>3, <2>4, <2>5, StateFacts, Durations
<1>8. \A f \in officials' : f.evidence # "ESTIMATE"
  BY <1>1, <1>6 DEF StageInv, Records
<1>9. OutcomeOK(outcome', started, t, pending', officials', accepted')
  <2>1. \A f \in accepted : f.evidence # "ESTIMATE" => f \in accepted'
    BY <1>1, <1>5
  <2> QED
    BY <1>1, <1>2, <1>3, <1>4, <1>7, <1>8, <2>1, StateFacts, AdjudicatedOK
<1>10. Records'
  <2>1. \A f \in accepted : f.upper \in Nat
    BY StateFacts, EventFacts
  <2>2. \A f \in accepted' :
          /\ f.stage = stage /\ FreezeEnds <= f.lower /\ f.upper < StageEnds /\ f.upper <= t
          /\ f.kind = "ARRIVAL" => f.zone = target
    BY <1>1, <1>3, <1>5, <1>6, <2>1, StateFacts DEF StageInv, Records
  <2>3. \A f \in pending' : f.evidence = "ESTIMATE" /\ f.epoch = epoch
    BY <1>1 DEF StageInv, Records
  <2> QED
    BY <1>1, <1>7, <1>8, <2>2, <2>3 DEF Records, FreezeEnds, StageEnds
<1>11. StageTypeOK'
  <2>1. outcome' \in Outcomes
    BY <1>9 DEF OutcomeOK
  <2> QED
    BY <1>1, <1>3, <1>7, <2>1 DEF StageInv, StageTypeOK, barriers, Outcomes
<1> QED
  BY <1>1, <1>9, <1>10, <1>11 DEF StageInv, Barrier, barriers

(* Calls that leave the events, the stage and the target alone.            *)
LEMMA ClockStep ==
    ASSUME StageInv, NEW t \in lastNow..MaxTime, lastNow' = t,
           requests' \in 0..MaxRequests, outcome' = AtTime(outcome, started, t),
           target' \in Zones \cup {NoZone}, accepted # {} => target' = target,
           UNCHANGED <<stage, started, evidence, epoch, barriers>>
    PROVE  StageInv'
<1>1. Records'
  BY RecordsLater
<1>2. OutcomeOK(outcome, started, lastNow, pending, officials, accepted)'
  BY LaterOutcome DEF evidence
<1>3. StageTypeOK'
  <2>1. outcome' \in Outcomes /\ lastNow' \in 0..MaxTime
    BY <1>2, LaterOutcome DEF OutcomeOK
  <2> QED
    BY <2>1, TypeLater
<1> QED
  BY <1>1, <1>2, <1>3 DEF StageInv, Barrier, barriers

(* Calls that empty the records and start the stage anew, armed or not.    *)
LEMMA EmptyOK ==
    ASSUME NEW start \in Nat, NEW now \in Nat, NEW phase \in {"INIT", "FREEZE"},
           phase = "INIT" => start = 0,
           phase = "FREEZE" => now < start + FreezeDuration
    PROVE  OutcomeOK(Undecided(phase), start, now, {}, {}, {})
<1> DEFINE u == Undecided(phase)
<1>1. /\ u \in Outcomes /\ u.phase = phase /\ u.hold = FALSE /\ u.held = NoEvent
      /\ u.kind = "NONE"
  BY DEF Undecided, Outcomes, Phases, TerminalKinds, Evidences
<1>2. SUFFICES OutcomeOK(u, start, now, {}, {}, {})
  OBVIOUS
<1> HIDE DEF u
<1> QED
  BY <1>1 DEF OutcomeOK

LEMMA EmptyRecords ==
    ASSUME pending' = {}, officials' = {}, accepted' = {}
    PROVE  Records'
  BY FS_EmptySet DEF Records, Distinct

LEMMA StartStep ==
    ASSUME StageInv, NEW t, NEW stamp \in 0..MaxTime, StartStage(t, stamp)
    PROVE  StageInv'
<1>1. /\ t \in lastNow..MaxTime /\ lastNow' = t /\ requests' \in 0..MaxRequests
      /\ stamp <= t /\ started' = stamp
      /\ outcome' = AtTime(Undecided("FREEZE"), stamp, t)
      /\ pending' = {} /\ officials' = {} /\ accepted' = {}
      /\ UNCHANGED <<stage, target, epoch, barriers>>
  BY RequestFacts DEF StartStage
<1>2. t \in 0..MaxTime /\ t \in Nat /\ stamp \in Nat
  BY <1>1, LaterOutcome, Durations
<1>3. OutcomeOK(Undecided("FREEZE"), stamp, stamp, {}, {}, {})
  BY <1>2, EmptyOK, Durations
<1>4. OutcomeOK(outcome', stamp, t, {}, {}, {})
  BY <1>1, <1>2, <1>3, AtTimeOK
<1>5. Records'
  BY <1>1, EmptyRecords
<1>6. StageTypeOK'
  <2>1. outcome' \in Outcomes
    BY <1>4 DEF OutcomeOK
  <2> QED
    BY <1>1, <1>2, <2>1, FS_EmptySet, Durations
       DEF StageInv, StageTypeOK, barriers, Outcomes
<1> QED
  BY <1>1, <1>4, <1>5, <1>6 DEF StageInv, Barrier, barriers

LEMMA TerminalStep ==
    ASSUME StageInv, NEW t, NEW kind \in TerminalKinds \ {"NONE"},
           SetOfficialTerminal(t, kind)
    PROVE  StageInv'
<1>1. /\ t \in lastNow..MaxTime /\ lastNow' = t /\ requests' \in 0..MaxRequests
      /\ MayDecide(kind, AtTime(outcome, started, t), t)
      /\ outcome' = Decided(kind, "OFFICIAL")
      /\ UNCHANGED <<stage, started, evidence, target, epoch, barriers>>
  BY RequestFacts DEF SetOfficialTerminal
<1>2. OutcomeOK(outcome', started, t, pending, officials, accepted)
  <2> DEFINE d == Decided(kind, "OFFICIAL")
  <2>1. /\ d.phase = "TERMINAL" /\ d.hold = (kind = "AMBIGUOUS") /\ d.held = NoEvent
        /\ d.kind = kind /\ d \in Outcomes
    BY DEF Decided, Outcomes, Phases, TerminalKinds, Evidences
  <2>2. outcome' = d
    BY <1>1
  <2>3. kind \in {"CAPTURE", "ARRIVAL"} =>
          \E e \in accepted : e.kind = kind /\ e.evidence # "ESTIMATE"
    BY <1>1 DEF MayDecide
  <2>4. kind = "TIMEOUT" => t >= started + StageDuration
    BY <1>1 DEF MayDecide, StageEnds
  <2> HIDE DEF d
  <2> QED
    BY <2>1, <2>2, <2>3, <2>4 DEF OutcomeOK
<1>3. Records'
  BY <1>1, RecordsLater
<1>4. StageTypeOK'
  <2>1. outcome' \in Outcomes /\ lastNow' \in 0..MaxTime
    BY <1>1, <1>2, LaterOutcome DEF OutcomeOK
  <2> QED
    BY <1>1, <2>1, TypeLater DEF StageInv, StageTypeOK
<1> QED
  BY <1>1, <1>2, <1>3, <1>4 DEF StageInv, Barrier, barriers, evidence

LEMMA DisarmStep ==
    ASSUME StageInv, Disarm, lastNow' \in 0..MaxTime, requests' \in 0..MaxRequests
    PROVE  StageInv'
<1>1. /\ stage' \in 1..MaxStages /\ started' = 0 /\ outcome' = Undecided("INIT")
      /\ pending' = {} /\ officials' = {} /\ accepted' = {} /\ target' = NoZone
      /\ resetPending' = TRUE /\ resetAcks' = {} /\ epochPending' = FALSE
      /\ epochAcks' = {} /\ epoch' = epoch
  BY Durations DEF Disarm, StageInv, StageTypeOK
<1>2. lastNow' \in Nat /\ 0 \in Nat /\ 0 \in 0..MaxTime
  BY Durations
<1>3. OutcomeOK(outcome', 0, lastNow', {}, {}, {})
  BY <1>1, <1>2, EmptyOK
<1>4. StageTypeOK'
  <2>1. outcome' \in Outcomes
    BY <1>3 DEF OutcomeOK
  <2> QED
    <3>1. accepted' = {} /\ Cardinality(accepted') = 0 /\ 0 <= MaxEvents
      BY <1>1, FS_EmptySet, Durations
    <3>2. epoch' \in 1..MaxEpochs
      BY <1>1 DEF StageInv, StageTypeOK
    <3>3. lastNow' \in 0..MaxTime /\ started' \in 0..MaxTime /\ requests' \in 0..MaxRequests
      BY <1>1, <1>2
    <3> QED
      BY <1>1, <2>1, <3>1, <3>2, <3>3 DEF StageTypeOK, Outcomes
<1> QED
  BY <1>1, <1>3, <1>4, EmptyRecords DEF StageInv, Barrier

LEMMA EpochStep ==
    ASSUME StageInv, ChangeLocalizationEpoch
    PROVE  StageInv'
<1>1. /\ epoch' \in 1..MaxEpochs
      /\ accepted' = {e \in accepted : e.evidence # "ESTIMATE"}
      /\ pending' = {} /\ epochPending' = TRUE /\ epochAcks' = {}
      /\ outcome' = IF outcome.held = NoEvent THEN outcome
                    ELSE [outcome EXCEPT !.hold = FALSE, !.held = NoEvent]
      /\ UNCHANGED <<lastNow, stage, started, officials, target, requests,
                     resetPending, resetAcks>>
  BY Durations DEF ChangeLocalizationEpoch, StageInv, StageTypeOK
<1>2. officials \subseteq accepted' /\ accepted' \subseteq accepted
  BY <1>1 DEF StageInv, Records
<1>3. /\ IsFiniteSet(accepted') /\ Cardinality(accepted') <= Cardinality(accepted)
      /\ Cardinality(accepted') \in Nat
  BY <1>2, StateFacts, FS_Subset, FS_CardinalityType
<1>4. Records'
  BY <1>1, <1>2, <1>3 DEF StageInv, Records, Distinct, FreezeEnds, StageEnds
<1>5. OutcomeOK(outcome', started, lastNow, {}, officials, accepted')
  <2>1. CASE outcome.held = NoEvent
    BY <1>1, <1>2, <2>1, StateFacts DEF OutcomeOK
  <2>2. CASE outcome.held # NoEvent
    <3> DEFINE d == [outcome EXCEPT !.hold = FALSE, !.held = NoEvent]
    <3>1. outcome.phase = "ACTIVE"
      BY <2>2, StateFacts DEF OutcomeOK, Outcomes, Phases
    <3>2. /\ d.phase = "ACTIVE" /\ d.hold = FALSE /\ d.held = NoEvent
          /\ d.kind = outcome.kind /\ d \in Outcomes
      BY <3>1, StateFacts DEF Outcomes
    <3>3. outcome' = d
      BY <1>1, <2>2
    <3> HIDE DEF d
    <3> QED
      BY <3>1, <3>2, <3>3, StateFacts DEF OutcomeOK
  <2> QED
    BY <2>1, <2>2
<1>6. StageTypeOK'
  <2>1. outcome' \in Outcomes
    BY <1>5 DEF OutcomeOK
  <2>2. Cardinality(accepted) <= MaxEvents
    BY DEF StageInv, StageTypeOK
  <2>3. Cardinality(accepted') <= MaxEvents
    BY <1>3, <2>2, StateFacts, Durations
  <2> QED
    BY <1>1, <1>2, <2>1, <2>3, StateFacts
       DEF StageInv, StageTypeOK, Outcomes
<1> QED
  BY <1>1, <1>4, <1>5, <1>6 DEF StageInv, Barrier

LEMMA ZoneStep ==
    ASSUME StageInv, NEW t, NEW zone \in Zones \cup {NoZone}, SetGoalZone(t, zone)
    PROVE  StageInv'
<1>1. /\ t \in lastNow..MaxTime /\ lastNow' = t /\ requests' \in 0..MaxRequests
      /\ outcome' = AtTime(outcome, started, t)
      /\ outcome'.phase \in {"INIT", "FREEZE"}
      /\ target' = zone
      /\ UNCHANGED <<stage, started, evidence, epoch, barriers>>
  BY RequestFacts DEF SetGoalZone
<1>2. accepted = {}
  BY <1>1, LaterOutcome DEF OutcomeOK
<1> QED
  BY <1>1, <1>2, ClockStep

LEMMA AcknowledgeStep ==
    ASSUME StageInv,
           \/ \E acks \in SUBSET ResetNames : AcknowledgeReset(acks)
           \/ \E acks \in SUBSET EpochNames : AcknowledgeEpoch(acks)
    PROVE  StageInv'
<1>1. CASE \E acks \in SUBSET ResetNames : AcknowledgeReset(acks)
  BY <1>1 DEF AcknowledgeReset, StageInv, StageTypeOK, Records, Barrier, evidence,
              Distinct, FreezeEnds, StageEnds
<1>2. CASE \E acks \in SUBSET EpochNames : AcknowledgeEpoch(acks)
  BY <1>2 DEF AcknowledgeEpoch, StageInv, StageTypeOK, Records, Barrier, evidence,
              Distinct, FreezeEnds, StageEnds
<1> QED
  BY <1>1, <1>2

-----------------------------------------------------------------------------
LEMMA StageInvHoldsAtFirst ==
    StageInit => StageInv
<1> SUFFICES ASSUME StageInit PROVE StageInv
  OBVIOUS
<1>1. OutcomeOK(Undecided("INIT"), 0, 0, {}, {}, {})
  BY EmptyOK, Durations
<1>2. Undecided("INIT") \in Outcomes
  BY <1>1 DEF OutcomeOK
<1>3. StageTypeOK
  <2>1. accepted = {} /\ Cardinality(accepted) = 0
    BY FS_EmptySet DEF StageInit
  <2>2. outcome \in Outcomes
    BY <1>2 DEF StageInit
  <2>3. /\ 0 \in 0..MaxTime /\ 1 \in 1..MaxStages /\ 1 \in 1..MaxEpochs
        /\ 0 \in 0..MaxRequests /\ 0 <= MaxEvents
    BY Durations
  <2> QED
    BY <2>1, <2>2, <2>3 DEF StageInit, StageTypeOK, Outcomes
<1>4. Records
  BY FS_EmptySet DEF StageInit, Records, Distinct
<1> QED
  BY <1>1, <1>3, <1>4 DEF StageInit, StageInv, Barrier

LEMMA StageInvIsInductive ==
    StageInv /\ [StageNext]_vars => StageInv'
<1> SUFFICES ASSUME StageInv, [StageNext]_vars PROVE StageInv'
  OBVIOUS
<1>1. ASSUME NEW t \in 0..MaxTime, Snapshot(t) PROVE StageInv'
  <2>1. requests \in 0..MaxRequests /\ target \in Zones \cup {NoZone}
    BY DEF StageInv, StageTypeOK
  <2> QED
    BY <1>1, <2>1, ClockStep DEF Snapshot
<1>2. ASSUME NEW t \in 0..MaxTime, RefusedRequest(t) PROVE StageInv'
  <2>1. target \in Zones \cup {NoZone}
    BY DEF StageInv, StageTypeOK
  <2> QED
    BY <1>2, <2>1, RequestFacts, ClockStep DEF RefusedRequest
<1>3. ASSUME NEW t \in 0..MaxTime, NEW stamp \in 0..MaxTime, StartStage(t, stamp)
      PROVE  StageInv'
  BY <1>3, StartStep
<1>4. ASSUME NEW t \in 0..MaxTime, NEW zone \in Zones \cup {NoZone}, SetGoalZone(t, zone)
      PROVE  StageInv'
  BY <1>4, ZoneStep
<1>5. ASSUME NEW t \in 0..MaxTime, NEW e \in Events, RecordEstimate(e, t)
      PROVE  StageInv'
  BY <1>5, EventStep DEF RecordEstimate
<1>6. ASSUME NEW t \in 0..MaxTime, NEW e \in Events, RecordOfficial(e, t)
      PROVE  StageInv'
  BY <1>6, EventStep DEF RecordOfficial
<1>7. ASSUME NEW t \in 0..MaxTime, NEW kind \in TerminalKinds \ {"NONE"},
             SetOfficialTerminal(t, kind)
      PROVE  StageInv'
  BY <1>7, TerminalStep
<1>8. ASSUME NEW t \in 0..MaxTime, NEW e \in pending,
             DismissEstimate(t, e) \/ ConfirmOfficial(t, e)
      PROVE  StageInv'
  BY <1>8, DismissStep, ConfirmStep
<1>9. ASSUME NEW t \in 0..MaxTime, ResetStage(t) PROVE StageInv'
  <2>1. Disarm /\ lastNow' \in 0..MaxTime /\ requests' \in 0..MaxRequests
    BY <1>9, RequestFacts DEF ResetStage
  <2> QED
    BY <2>1, DisarmStep
<1>10. ASSUME NEW t \in 0..MaxTime, ChangeClockEpoch(t) PROVE StageInv'
  <2>1. Disarm /\ lastNow' \in 0..MaxTime /\ requests' \in 0..MaxRequests
    BY <1>10, Durations DEF ChangeClockEpoch
  <2> QED
    BY <2>1, DisarmStep
<1>11. CASE UNCHANGED vars
  BY <1>11 DEF vars, evidence, barriers, StageInv, StageTypeOK, Records, Barrier,
               Distinct, FreezeEnds, StageEnds
<1> QED
  BY <1>1, <1>2, <1>3, <1>4, <1>5, <1>6, <1>7, <1>8, <1>9, <1>10, <1>11,
     EpochStep, AcknowledgeStep DEF StageNext

(* Every state StageManager reaches satisfies the invariant the other      *)
(* theorems are read off from.                                             *)
THEOREM StageInvariant ==
    StageSpec => []StageInv
  BY StageInvHoldsAtFirst, StageInvIsInductive, PTL DEF StageSpec

(* Whatever calls come in whatever order, the state has its type, and the  *)
(* records of requests and events stay within max_request_records and      *)
(* max_event_records.                                                      *)
THEOREM StageTypeCorrect ==
    StageSpec => []StageTypeOK
<1>1. StageInv => StageTypeOK
  BY DEF StageInv
<1> QED
  BY <1>1, StageInvariant, PTL

(* snapshot never raises: a MatchState can be made of every state.         *)
THEOREM SnapshotNeverRaises ==
    StageSpec => []SnapshotIsValid
<1>1. ASSUME StageInv PROVE SnapshotIsValid
  <2>1. outcome.phase # "INIT" => started < FreezeEnds /\ FreezeEnds < StageEnds
    BY <1>1, StateFacts, Durations DEF FreezeEnds, StageEnds
  <2>2. outcome.phase = "INIT" => started = 0
    BY <1>1, StateFacts DEF OutcomeOK
  <2> QED
    BY <1>1, <2>1, <2>2, StateFacts
       DEF OutcomeOK, Outcomes, Phases, SnapshotIsValid, MatchStateValid, MotionAuthorized
<1> QED
  BY <1>1, StageInvariant, PTL

(* Motion is authorized only in the active window, with no estimate and no *)
(* official event on record, and after a full reset barrier.               *)
THEOREM MotionSafety ==
    StageSpec => []MotionIsSafe
<1>1. StageInv => MotionIsSafe
  BY StateFacts DEF StageInv, OutcomeOK, Barrier, MotionIsSafe, MotionAuthorized,
     FreezeEnds, StageEnds
<1> QED
  BY <1>1, StageInvariant, PTL

(* Every scored result has its event on record, every timeout its time.    *)
THEOREM OutcomeHasCause ==
    StageSpec => []OutcomeJustified
<1>1. StageInv => OutcomeJustified
  BY StateFacts DEF StageInv, Records, OutcomeOK, OutcomeJustified, StageEnds
<1> QED
  BY <1>1, StageInvariant, PTL

(* No event survives its stage and no estimate its localization epoch.     *)
THEOREM EventsAreCurrent ==
    StageSpec => []NoStaleEvent
<1>1. StageInv => NoStaleEvent
  BY StateFacts DEF StageInv, Records, OutcomeOK, Outcomes, Phases, NoStaleEvent
<1> QED
  BY <1>1, StageInvariant, PTL

-----------------------------------------------------------------------------
(* What is decided when an official event is recorded.                     *)

LEMMA BeforeIsTotal ==
    ASSUME NEW a \in EventType, NEW b \in EventType, a.id # b.id
    PROVE  Before(a, b) \/ Before(b, a)
  BY EventFacts DEF Before

(* With an official event on record the outcome no longer depends on what  *)
(* it was: AMBIGUOUS, or the kind of the first official event.             *)
LEMMA OfficialsDecide ==
    ASSUME NEW o, NEW off, NEW pend, off # {},
           off \cup pend \in SUBSET EventType, Distinct(off \cup pend)
    PROVE  LET a == Adjudicated(o, off, pend)
           IN  /\ a.phase = "TERMINAL"
               /\ \/ a.kind = "AMBIGUOUS"
                  \/ Conflicts(off \cup pend) = {} /\ a.kind = Earliest(off).kind
<1>1. CASE Conflicts(off \cup pend) # {}
  <2>1. Adjudicated(o, off, pend) = Ambiguous(off \cup pend)
    BY <1>1 DEF Adjudicated
  <2> QED
    BY <2>1 DEF Ambiguous, Decided
<1>2. CASE Conflicts(off \cup pend) = {}
  <2>1. Adjudicated(o, off, pend) = Decided(Earliest(off).kind, Strongest(off))
    BY <1>2 DEF Adjudicated
  <2> QED
    BY <1>2, <2>1 DEF Decided
<1> QED
  BY <1>1, <1>2

(* The first official event, where nothing conflicts, lies before every    *)
(* official event of another kind and overlaps no such estimate.           *)
LEMMA EarliestLeads ==
    ASSUME NEW off, NEW pend, off # {},
           off \cup pend \in SUBSET EventType, Distinct(off \cup pend),
           Conflicts(off \cup pend) = {}
    PROVE  LET w == Earliest(off)
           IN  /\ w \in off
               /\ \A x \in off : x.kind = w.kind \/ w.upper < x.lower
               /\ \A p \in pend : p.kind = w.kind \/ ~Overlap(w, p)
<1> DEFINE w == Earliest(off)
<1>1. off \in SUBSET EventType /\ Distinct(off)
  BY DEF Distinct
<1>2. w \in off /\ \A x \in off : w = x \/ Before(w, x)
  BY <1>1, FirstEvent DEF Earliest
<1> HIDE DEF w
<1>3. ASSUME NEW a \in off \cup pend, NEW b \in off \cup pend, Before(a, b),
             a.kind # b.kind
      PROVE  a.upper < b.lower
  <2>1. ~(<<a, b>> \in Conflicts(off \cup pend))
    OBVIOUS
  <2>2. ~(a.upper >= b.lower)
    BY <1>3, <2>1 DEF Conflicts
  <2> QED
    BY <2>2, EventFacts
<1>4. ASSUME NEW x \in off, x.kind # w.kind PROVE w.upper < x.lower
  <2>1. Before(w, x)
    BY <1>2, <1>4
  <2> QED
    BY <1>2, <1>3, <1>4, <2>1
<1>5. ASSUME NEW p \in pend, p.kind # w.kind PROVE ~Overlap(w, p)
  <2>1. w \in EventType /\ p \in EventType /\ w.id # p.id
    BY <1>2, <1>5 DEF Distinct
  <2>2. w.upper < p.lower \/ p.upper < w.lower
    BY <1>2, <1>3, <1>5, <2>1, BeforeIsTotal
  <2> QED
    BY <2>1, <2>2, EventFacts DEF Overlap
<1> QED
  BY <1>2, <1>4, <1>5 DEF w

(* What holds after a step that puts an official event on record.          *)
OrderIsFound ==
    /\ outcome'.phase = "TERMINAL"
    /\ \/ outcome'.kind = "AMBIGUOUS"
       \/ \E w \in officials' :
             /\ w.kind = outcome'.kind
             /\ \A o \in officials' : o.kind = w.kind \/ w.upper < o.lower
             /\ \A p \in pending' : p.kind = w.kind \/ ~Overlap(w, p)

LEMMA AdjudicationFindsOrder ==
    ASSUME StageInv', officials' # {}, NEW o,
           LET a == Adjudicated(o, officials', pending')
           IN  outcome'.phase = a.phase /\ outcome'.kind = a.kind
    PROVE  OrderIsFound
<1>1. /\ officials' \cup pending' \in SUBSET EventType
      /\ Distinct(officials' \cup pending')
  BY DEF StageInv, StageTypeOK, Records, Distinct
<1>2. /\ outcome'.phase = "TERMINAL"
      /\ \/ outcome'.kind = "AMBIGUOUS"
         \/ /\ Conflicts(officials' \cup pending') = {}
            /\ outcome'.kind = Earliest(officials').kind
  BY <1>1, OfficialsDecide
<1> DEFINE w == Earliest(officials')
<1>3. Conflicts(officials' \cup pending') = {} =>
         /\ w \in officials'
         /\ \A x \in officials' : x.kind = w.kind \/ w.upper < x.lower
         /\ \A p \in pending' : p.kind = w.kind \/ ~Overlap(w, p)
  BY <1>1, EarliestLeads
<1> HIDE DEF w
<1> QED
  BY <1>2, <1>3 DEF OrderIsFound, w

LEMMA RecordingFindsOrder ==
    ASSUME StageInv, [StageNext]_vars, officials' # officials, officials' # {}
    PROVE  OrderIsFound
<1>1. StageInv'
  BY StageInvIsInductive
<1>2. ASSUME NEW t, NEW e, RecordOfficial(e, t) PROVE OrderIsFound
  <2> DEFINE a == Adjudicated(Opened(t), officials', pending')
  <2>1. outcome' = AtTime(a, started, t)
    BY <1>2 DEF RecordOfficial, Accept
  <2>2. /\ officials' \cup pending' \in SUBSET EventType
        /\ Distinct(officials' \cup pending')
    BY <1>1 DEF StageInv, StageTypeOK, Records, Distinct
  <2>3. a.phase = "TERMINAL"
    BY <2>2, OfficialsDecide
  <2>4. outcome' = a
    BY <2>1, <2>3 DEF AtTime, PastDeadline, PastFreeze
  <2> QED
    BY <1>1, <2>4, AdjudicationFindsOrder
<1>3. ASSUME NEW t, NEW e, ConfirmOfficial(t, e) PROVE OrderIsFound
  <2>1. outcome' = Adjudicated(AtTime(outcome, started, t), officials', pending')
    BY <1>3 DEF ConfirmOfficial
  <2> QED
    BY <1>1, <2>1, AdjudicationFindsOrder
<1>4. ASSUME NEW t, NEW stamp, StartStage(t, stamp) PROVE FALSE
  BY <1>4 DEF StartStage
<1>5. ASSUME NEW t, ResetStage(t) \/ ChangeClockEpoch(t) PROVE FALSE
  BY <1>5 DEF ResetStage, ChangeClockEpoch, Disarm
<1>6. ASSUME NEW t, \/ Snapshot(t) \/ RefusedRequest(t)
                    \/ \E zone : SetGoalZone(t, zone)
                    \/ \E kind : SetOfficialTerminal(t, kind)
      PROVE  FALSE
  BY <1>6 DEF Snapshot, RefusedRequest, SetGoalZone, SetOfficialTerminal, evidence
<1>7. ASSUME NEW t, NEW e, RecordEstimate(e, t) \/ DismissEstimate(t, e) PROVE FALSE
  BY <1>7 DEF RecordEstimate, DismissEstimate
<1>8. ASSUME \/ ChangeLocalizationEpoch
             \/ \E acks : AcknowledgeReset(acks) \/ AcknowledgeEpoch(acks)
             \/ UNCHANGED vars
      PROVE  FALSE
  BY <1>8 DEF ChangeLocalizationEpoch, AcknowledgeReset, AcknowledgeEpoch, evidence, vars
<1> QED
  BY <1>2, <1>3, <1>4, <1>5, <1>6, <1>7, <1>8 DEF StageNext

(* An official event that is recorded ends the stage, and its kind decides *)
(* only if it provably came before every event of another kind: no order   *)
(* of arrival, no confirmation of an estimate and no number of events      *)
(* makes _terminalize_official_events break a tie that the times leave.    *)
THEOREM NoOrderInvented ==
    StageSpec => NoInventedOrder
<1>1. StageInv /\ [StageNext]_vars =>
         [officials' # officials /\ officials' # {} => OrderIsFound]_vars
  BY RecordingFindsOrder
<1>2. OrderIsFound <=>
          /\ outcome'.phase = "TERMINAL"
          /\ \/ outcome'.kind = "AMBIGUOUS"
             \/ \E w \in officials' :
                   /\ w.kind = outcome'.kind
                   /\ \A o \in officials' : o.kind = w.kind \/ w.upper < o.lower
                   /\ \A p \in pending' : p.kind = w.kind \/ ~Overlap(w, p)
  BY DEF OrderIsFound
<1> QED
  BY <1>1, <1>2, StageInvariant, PTL DEF StageSpec, NoInventedOrder
=============================================================================
