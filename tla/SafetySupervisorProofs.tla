---------------------- MODULE SafetySupervisorProofs ----------------------
(***************************************************************************)
(* Theorems about the parts of the safety supervisor, for every set of     *)
(* stages, hashes and sources, every vehicle, every lease and every bound: *)
(* its watchdog (Watchdog), the records it relies on (RecordGate), its     *)
(* decision (SafetyDecision), and the stop it sends to the multiplexer     *)
(* (SafetyBoundary).                                                       *)
(*                                                                         *)
(* That no bad heartbeat is missed needs to know what an unlatched machine *)
(* remembers: Recall.                                                      *)
(*                                                                         *)
(* Authority never goes back to an older record, for any number of sources *)
(* and records, and however often the sources crash.  Two records of       *)
(* different sessions are at least Downtime apart: that is all a later     *)
(* session owes to an earlier one, since the caches do not know which is   *)
(* which.  A record of an earlier session in the cache after one of a      *)
(* later session is then no longer valid; a record of a later session was  *)
(* observed after all that was published before.                           *)
(*                                                                         *)
(* The decision: the arithmetic comes first, that the rounded speeds of    *)
(* braking.py are safe ones; then the invariant, that an identity which is *)
(* no longer in force was changed after the snapshot was made.             *)
(*                                                                         *)
(* That the stop dominates is a race between two clocks: the time the      *)
(* multiplexer still grants the stop, and the time the next stop needs at  *)
(* most.  Guard says who is ahead, and is kept by every step.              *)
(***************************************************************************)
EXTENDS Watchdog, RecordGate, SafetyDecision, SafetyBoundary, WellFoundedInduction, TLAPS

-----------------------------------------------------------------------------
(* The watchdog.                                                           *)

(* An unlatched machine remembers the last heartbeat since the start or    *)
(* the last rearm.                                                         *)
Recall ==
    machine.state # "FAULT_LATCHED" =>
        /\ heard = <<>> <=> machine.last = NoBeat
        /\ heard # <<>> => machine.last = heard[Len(heard)]

WatchdogInv == WatchdogTypeOK /\ FaultsAreNotMissed /\ Recall

LEMMA WatchdogInitInv == WatchdogInit => WatchdogInv
  BY WatchdogAssumption, MachineAssumption
  DEF WatchdogInit, WatchdogInv, WatchdogTypeOK, FaultsAreNotMissed, InOrder, Recall,
      DisarmedMachine, Machines, States

(* A tick keeps what was heard, and never ends a fault.                    *)
LEMMA TickFacts ==
    ASSUME NEW w \in Machines, NEW t \in Int,
           NEW authorized \in BOOLEAN, NEW healthy \in BOOLEAN
    PROVE  LET v == Ticked(w, t, authorized, healthy) IN
           /\ v \in Machines
           /\ v.last = w.last /\ v.stage = w.stage
           /\ w.state = "FAULT_LATCHED" => v.state = "FAULT_LATCHED"
           /\ v.state = "ACTIVE" /\ w.state # "ACTIVE" =>
                 /\ w.last # NoBeat /\ w.last.permit
                 /\ t - w.last.received <= Lease
           /\ v.state = "ACTIVE" => w.last # NoBeat \/ w.state = "ACTIVE"
<1>1. w.last # NoBeat => w.last.received \in Int
  BY DEF Machines, Beats
<1> QED
  BY <1>1, MachineAssumption DEF Ticked, Unheard, Stale, Latched, Machines, States

(* A heartbeat is remembered, or it latches; it never releases.            *)
LEMMA ObserveFacts ==
    ASSUME NEW w \in Machines, NEW beat \in Beats
    PROVE  LET v == Observed(w, beat) IN
           /\ v \in Machines
           /\ w.state = "FAULT_LATCHED" => v.state = "FAULT_LATCHED"
           /\ v.state = "ACTIVE" => w.state = "ACTIVE"
           /\ v.state # "FAULT_LATCHED" =>
                 Acceptable(w, beat) /\ v.last = beat /\ v.stage = beat.stage
           /\ \/ v.last = beat /\ v.stage = beat.stage
              \/ v.last = w.last /\ v.stage = w.stage
<1>1. beat.stage \in Stages
  BY DEF Beats
<1> QED
  BY <1>1 DEF Observed, Latched, Machines, States

LEMMA ObserveInv ==
    ASSUME WatchdogInv, NEW beat \in Beats, Observe(beat)
    PROVE  WatchdogInv'
<1>1. /\ machine \in Machines /\ heard \in Seq(Beats)
      /\ machine' = Observed(machine, beat)
      /\ heard' = Append(heard, beat)
      /\ now' = now
  BY DEF WatchdogInv, WatchdogTypeOK, Observe
<1>2. /\ machine' \in Machines
      /\ machine.state = "FAULT_LATCHED" => machine'.state = "FAULT_LATCHED"
      /\ machine'.state = "ACTIVE" => machine.state = "ACTIVE"
      /\ machine'.state # "FAULT_LATCHED" =>
            /\ Acceptable(machine, beat)
            /\ machine'.last = beat /\ machine'.stage = beat.stage
      /\ \/ machine'.last = beat /\ machine'.stage = beat.stage
         \/ machine'.last = machine.last /\ machine'.stage = machine.stage
  BY <1>1, ObserveFacts
<1>3. /\ heard' \in Seq(Beats) /\ heard' # <<>>
      /\ Len(heard') = Len(heard) + 1 /\ Len(heard) \in Nat
      /\ heard'[Len(heard')] = beat
      /\ \A i \in 1..Len(heard) : heard'[i] = heard[i] /\ heard[i] \in Beats
  BY <1>1
<1>4. WatchdogTypeOK'
  BY <1>1, <1>2, <1>3, NoBeatAssumption DEF WatchdogInv, WatchdogTypeOK
<1>5. FaultsAreNotMissed'
  <2> SUFFICES ASSUME machine'.state # "FAULT_LATCHED" PROVE InOrder(heard)'
    BY DEF FaultsAreNotMissed
  <2>1. /\ beat.hash = ConfigHash /\ machine'.stage = beat.stage
        /\ machine.stage # NoStage => beat.stage = machine.stage
        /\ machine.last # NoBeat =>
              beat.seq > machine.last.seq /\ beat.received >= machine.last.received
    BY <1>2 DEF Acceptable
  <2>2. InOrder(heard) /\ (heard # <<>> => machine.last = heard[Len(heard)])
        /\ (heard # <<>> => machine.last # NoBeat)
    BY <1>2 DEF WatchdogInv, FaultsAreNotMissed, Recall
  <2>3. heard # <<>> => machine.stage \in Stages /\ machine.stage = beat.stage
    BY <1>1, <2>1, <2>2, MachineAssumption
    DEF WatchdogInv, WatchdogTypeOK, Machines, Beats
  <2>4. \A i \in 1..Len(heard) :
           /\ heard[i].hash = ConfigHash /\ heard[i].stage = beat.stage
           /\ heard[i].seq < beat.seq /\ heard[i].received <= beat.received
    <3> SUFFICES ASSUME NEW i \in 1..Len(heard)
                 PROVE  /\ heard[i].hash = ConfigHash /\ heard[i].stage = beat.stage
                        /\ heard[i].seq < beat.seq /\ heard[i].received <= beat.received
      OBVIOUS
    <3>1. heard # <<>> /\ Len(heard) \in 1..Len(heard) /\ DOMAIN heard = 1..Len(heard)
      BY <1>1
    <3>2. /\ heard[i].hash = ConfigHash /\ heard[i].stage = beat.stage
          /\ i < Len(heard) => /\ heard[i].seq < machine.last.seq
                               /\ heard[i].received <= machine.last.received
          /\ i = Len(heard) => heard[i] = machine.last
      BY <2>2, <2>3, <3>1 DEF InOrder
    <3>3. /\ heard[i].seq \in Nat /\ heard[i].received \in Int
          /\ machine.last.seq \in Nat /\ machine.last.received \in Int
          /\ beat.seq \in Nat /\ beat.received \in Int
      BY <1>3, <2>2, <3>1 DEF Beats
    <3>4. beat.seq > machine.last.seq /\ beat.received >= machine.last.received
      BY <2>1, <2>2, <3>1
    <3> QED
      BY <1>3, <3>2, <3>3, <3>4
  <2>5. DOMAIN heard' = 1..Len(heard) + 1
    BY <1>1
  <2> QED
    BY <1>1, <1>3, <2>1, <2>2, <2>3, <2>4, <2>5 DEF InOrder
<1>6. Recall'
  BY <1>2, <1>3, NoBeatAssumption DEF Recall
<1> QED
  BY <1>4, <1>5, <1>6 DEF WatchdogInv

LEMMA WatchdogTickInv ==
    ASSUME WatchdogInv, NEW authorized \in BOOLEAN, NEW healthy \in BOOLEAN,
           WatchdogTick(authorized, healthy)
    PROVE  WatchdogInv'
<1>1. /\ machine \in Machines /\ now \in Int
      /\ machine' = Ticked(machine, now, authorized, healthy)
      /\ UNCHANGED <<now, heard>>
  BY WatchdogAssumption DEF WatchdogInv, WatchdogTypeOK, WatchdogTick
<1>2. /\ machine' \in Machines
      /\ machine'.last = machine.last /\ machine'.stage = machine.stage
      /\ machine.state = "FAULT_LATCHED" => machine'.state = "FAULT_LATCHED"
      /\ machine'.state = "ACTIVE" => machine.last # NoBeat \/ machine.state = "ACTIVE"
  BY <1>1, TickFacts
<1>3. WatchdogTypeOK'
  BY <1>1, <1>2 DEF WatchdogInv, WatchdogTypeOK
<1>4. FaultsAreNotMissed' /\ Recall'
  BY <1>1, <1>2 DEF WatchdogInv, FaultsAreNotMissed, InOrder, Recall
<1> QED
  BY <1>3, <1>4 DEF WatchdogInv

LEMMA RearmInv ==
    ASSUME WatchdogInv, machine' = Rearmed(machine), heard' = <<>>, UNCHANGED now
    PROVE  WatchdogInv'
<1>1. WatchdogTypeOK'
  <2>1. /\ machine' \in Machines
        /\ machine'.state = "READY" /\ machine'.last = NoBeat
    BY DEF WatchdogInv, WatchdogTypeOK, Rearmed, Machines, States
  <2>2. heard' \in Seq(Beats)
    OBVIOUS
  <2> QED
    BY <2>1, <2>2 DEF WatchdogInv, WatchdogTypeOK
<1>2. FaultsAreNotMissed'
  BY DEF FaultsAreNotMissed, InOrder
<1>3. Recall'
  BY DEF WatchdogInv, WatchdogTypeOK, Recall, Rearmed, Machines
<1> QED
  BY <1>1, <1>2, <1>3 DEF WatchdogInv

(* The steps, with the heartbeat of an observation in Beats.               *)
LEMMA StepCases ==
    ASSUME WatchdogInv, WatchdogNext
    PROVE  \/ \E beat \in Beats : Observe(beat)
           \/ \E authorized, healthy \in BOOLEAN : WatchdogTick(authorized, healthy)
           \/ \E stage \in Stages \cup {NoStage}, hash \in Hashes,
                 authorized, nearZero, dwelled \in BOOLEAN :
                 Rearm(stage, hash, authorized, nearZero, dwelled)
           \/ ClockAdvances
<1>1. ASSUME NEW seq \in 0..MaxSeq, NEW stage \in Stages, NEW hash \in Hashes,
             NEW received \in 0..now, NEW permit \in BOOLEAN
      PROVE  [seq |-> seq, stage |-> stage, hash |-> hash,
              received |-> received, permit |-> permit] \in Beats
  BY WatchdogAssumption DEF WatchdogInv, WatchdogTypeOK, Beats
<1> QED
  BY <1>1 DEF WatchdogNext

LEMMA WatchdogStep == WatchdogInv /\ [WatchdogNext]_watchdogVars => WatchdogInv'
<1> SUFFICES ASSUME WatchdogInv, [WatchdogNext]_watchdogVars PROVE WatchdogInv'
  OBVIOUS
<1>1. CASE \E beat \in Beats : Observe(beat)
  BY <1>1, ObserveInv
<1>2. CASE \E authorized, healthy \in BOOLEAN : WatchdogTick(authorized, healthy)
  BY <1>2, WatchdogTickInv
<1>3. CASE \E stage \in Stages \cup {NoStage}, hash \in Hashes,
              authorized, nearZero, dwelled \in BOOLEAN :
              Rearm(stage, hash, authorized, nearZero, dwelled)
  BY <1>3, RearmInv DEF Rearm
<1>4. CASE ClockAdvances
  BY <1>4, WatchdogAssumption
  DEF ClockAdvances, WatchdogInv, WatchdogTypeOK, FaultsAreNotMissed, InOrder, Recall
<1>5. CASE UNCHANGED watchdogVars
  BY <1>5
  DEF watchdogVars, WatchdogInv, WatchdogTypeOK, FaultsAreNotMissed, InOrder, Recall
<1> QED
  BY <1>1, <1>2, <1>3, <1>4, <1>5, StepCases

(* What an unlatched WatchdogMachine remembers of the heartbeats it was    *)
(* given (observe_heartbeat), in every state.                              *)
THEOREM WatchdogInvariant == WatchdogSpec => []WatchdogInv
  BY WatchdogInitInv, WatchdogStep, PTL DEF WatchdogSpec

(* The machine's types, and no release without a heartbeat (tick).         *)
THEOREM WatchdogTypeCorrect == WatchdogSpec => []WatchdogTypeOK
<1>1. WatchdogInv => WatchdogTypeOK
  BY DEF WatchdogInv
<1> QED
  BY <1>1, WatchdogInvariant, PTL

(* observe_heartbeat overlooks no heartbeat that is foreign, repeated or   *)
(* out of order, in a history of any length.                               *)
THEOREM FaultsCorrect == WatchdogSpec => []FaultsAreNotMissed
<1>1. WatchdogInv => FaultsAreNotMissed
  BY DEF WatchdogInv
<1> QED
  BY <1>1, WatchdogInvariant, PTL

(* tick releases the stop only on a permission heard since the last rearm  *)
(* and within the lease.                                                   *)
THEOREM ReleaseCorrect == WatchdogSpec => ReleaseIsEarned
<1> DEFINE Earned ==
       StopAsserted(machine) /\ ~StopAsserted(machine') =>
          /\ heard # <<>>
          /\ machine.last = heard[Len(heard)]
          /\ machine.last.permit
          /\ now - machine.last.received <= Lease
<1>1. WatchdogInv /\ [WatchdogNext]_watchdogVars => Earned
  <2> SUFFICES ASSUME WatchdogInv, [WatchdogNext]_watchdogVars,
                      machine.state # "ACTIVE", machine'.state = "ACTIVE"
               PROVE  /\ heard # <<>>
                      /\ machine.last = heard[Len(heard)]
                      /\ machine.last.permit
                      /\ now - machine.last.received <= Lease
    BY DEF StopAsserted
  <2>1. machine \in Machines /\ now \in Int
    BY WatchdogAssumption DEF WatchdogInv, WatchdogTypeOK
  <2>2. PICK authorized, healthy \in BOOLEAN : WatchdogTick(authorized, healthy)
    <3>1. ASSUME NEW beat \in Beats, Observe(beat) PROVE FALSE
      BY <2>1, <3>1, ObserveFacts DEF Observe
    <3>2. machine' # Rearmed(machine)
      BY <2>1 DEF Rearmed, Machines
    <3> QED
      BY <3>1, <3>2, StepCases DEF Rearm, ClockAdvances, watchdogVars
  <2>3. /\ machine.last # NoBeat /\ machine.last.permit
        /\ now - machine.last.received <= Lease
        /\ machine.state # "FAULT_LATCHED"
    BY <2>1, <2>2, TickFacts DEF WatchdogTick
  <2> QED
    BY <2>3 DEF WatchdogInv, Recall
<1> QED
  BY <1>1, WatchdogInvariant, PTL DEF WatchdogSpec, ReleaseIsEarned

(* Once latched (_latch), the machine stays so until rearm answers True,   *)
(* and that forgets every heartbeat.                                       *)
THEOREM OnlyRearm == WatchdogSpec => OnlyRearmUnlatches
<1> DEFINE Kept ==
       machine.state = "FAULT_LATCHED" /\ machine'.state # "FAULT_LATCHED" =>
          machine'.state = "READY" /\ heard' = <<>> /\ machine'.last = NoBeat
<1>1. WatchdogInv /\ [WatchdogNext]_watchdogVars => Kept
  <2> SUFFICES ASSUME WatchdogInv, [WatchdogNext]_watchdogVars,
                      machine.state = "FAULT_LATCHED",
                      machine'.state # "FAULT_LATCHED"
               PROVE  machine'.state = "READY" /\ heard' = <<>> /\ machine'.last = NoBeat
    OBVIOUS
  <2>1. machine \in Machines /\ now \in Int
    BY WatchdogAssumption DEF WatchdogInv, WatchdogTypeOK
  <2>2. machine' = Rearmed(machine) /\ heard' = <<>>
    <3>1. ASSUME NEW beat \in Beats, Observe(beat) PROVE FALSE
      BY <2>1, <3>1, ObserveFacts DEF Observe
    <3>2. ASSUME NEW authorized \in BOOLEAN, NEW healthy \in BOOLEAN,
                 WatchdogTick(authorized, healthy)
          PROVE  FALSE
      BY <2>1, <3>2, TickFacts DEF WatchdogTick
    <3> QED
      BY <3>1, <3>2, StepCases DEF Rearm, ClockAdvances, watchdogVars
  <2> QED
    BY <2>1, <2>2 DEF Rearmed, Machines
<1> QED
  BY <1>1, WatchdogInvariant, PTL DEF WatchdogSpec, OnlyRearmUnlatches

-----------------------------------------------------------------------------
(* The records the supervisor relies on.                                   *)

GateTypeOK ==
    /\ time \in Times
    /\ inForce \in 1..LastInForce
    /\ sources \in [Publishers -> [session : 1..LastSession, up : BOOLEAN, crashed : Times,
                                seq : -1..LastSeq, observed : Int]]
    /\ \A s \in Publishers : ~sources[s].up => sources[s].session < LastSession
    /\ wire \in [Publishers -> SUBSET HeardType]
    /\ cache \in [Publishers -> HeardType \cup {Unknown}]
    /\ newest \in [Publishers -> Int]
    /\ former \in [Publishers -> SUBSET (1..LastSession)]

(* Nothing is published before it is observed, or long after, or by a      *)
(* session that is still to come.                                          *)
RecordsOfNow ==
    \A s \in Publishers : \A r \in wire[s] :
        /\ r.observed <= r.published /\ r.published <= r.observed + Delay
        /\ r.published <= time
        /\ r.session <= sources[s].session

(* Between the last record of a session and the start of the next, and so  *)
(* the first record of the next, there is at least the downtime.           *)
RestartsTakeTime ==
    \A s \in Publishers :
        /\ sources[s].crashed <= time
        /\ \A r \in wire[s] :
              /\ r.session < sources[s].session => r.published + Downtime <= sources[s].crashed
              /\ ~sources[s].up => r.published <= sources[s].crashed

SessionsApart ==
    \A s \in Publishers : \A r, q \in wire[s] :
        r.session < q.session => r.published + Downtime <= q.published

(* What is in the cache was published; the latest observation was of a     *)
(* former session, unless it is in the cache.                              *)
Latest(s) ==
    \/ newest[s] = cache[s].observed
    \/ \E r \in wire[s] : r.session \in former[s] /\ r.observed = newest[s]

HeardInOrder ==
    \A s \in Publishers :
        /\ cache[s] = Unknown => newest[s] = -1 /\ former[s] = {}
        /\ cache[s] # Unknown => cache[s] \in wire[s] /\ newest[s] >= cache[s].observed
        /\ cache[s] # Unknown /\ s \notin resumed =>
              cache[s].session \notin former[s] /\ Latest(s)

GateInv ==
    GateTypeOK /\ RecordsOfNow /\ RestartsTakeTime /\ SessionsApart /\ HeardInOrder

LEMMA GateConstants ==
    /\ RecordLease \in Nat /\ Delay \in Nat /\ Downtime \in Nat
    /\ LastTime \in Nat /\ LastSession \in Nat \ {0} /\ LastSeq \in Nat
    /\ LastInForce \in Nat \ {0}
    /\ Downtime >= RecordLease /\ Downtime >= Delay
    /\ Unknown \notin HeardType
  BY GateAssumption DEF GateAssumption

LEMMA GateInitInv == GateInit => GateInv
  BY GateConstants
  DEF GateInit, GateInv, GateTypeOK, Times, RecordsOfNow, RestartsTakeTime, SessionsApart,
      HeardInOrder

-----------------------------------------------------------------------------
(* A new record is of the present session, so it comes after the start of  *)
(* that, and everything of former sessions before it.                      *)
LEMMA PublishKeeps ==
    ASSUME NEW s \in Publishers, GateInv, Publish(s)
    PROVE  GateInv'
<1>1. PICK observed \in {t \in time - Delay .. time : t > sources[s].observed /\ t >= 0},
           known \in 1..inForce, granted \in BOOLEAN :
        /\ wire' = [wire EXCEPT ![s] = @ \cup
                {[session |-> sources[s].session, seq |-> sources[s].seq + 1,
                  observed |-> observed, published |-> time, identity |-> known,
                  granted |-> granted]}]
        /\ sources' = [sources EXCEPT ![s].seq = @ + 1, ![s].observed = observed]
  BY DEF Publish
<1> DEFINE new == [session |-> sources[s].session, seq |-> sources[s].seq + 1,
                   observed |-> observed, published |-> time, identity |-> known,
                   granted |-> granted]
<1>2. /\ sources[s].up /\ sources[s].seq < LastSeq
      /\ UNCHANGED <<time, inForce, cache, newest, former, resumed>>
  BY DEF Publish
<1>3. new \in HeardType
  BY <1>2, GateConstants DEF GateInv, GateTypeOK, HeardType, Times
<1>4. /\ \A q \in Publishers : wire'[q] = IF q = s THEN wire[s] \cup {new} ELSE wire[q]
      /\ \A q \in Publishers :
            /\ sources'[q].session = sources[q].session /\ sources'[q].up = sources[q].up
            /\ sources'[q].crashed = sources[q].crashed
  BY <1>1 DEF GateInv, GateTypeOK
<1>5. GateTypeOK'
  <2>1. sources' \in [Publishers -> [session : 1..LastSession, up : BOOLEAN, crashed : Times,
                                  seq : -1..LastSeq, observed : Int]]
    BY <1>1, <1>2, GateConstants DEF GateInv, GateTypeOK
  <2>2. wire' \in [Publishers -> SUBSET HeardType]
    BY <1>1, <1>3 DEF GateInv, GateTypeOK
  <2> QED
    BY <2>1, <2>2, <1>2, <1>4 DEF GateInv, GateTypeOK
<1>6. RecordsOfNow'
  BY <1>1, <1>2, <1>4, GateConstants DEF GateInv, GateTypeOK, RecordsOfNow, Times
<1>7. RestartsTakeTime'
  <2>1. sources[s].up /\ ~(new.session < sources[s].session)
    BY <1>2 DEF GateInv, GateTypeOK
  <2> QED
    BY <2>1, <1>2, <1>4 DEF GateInv, RestartsTakeTime
<1>8. SessionsApart'
  <2>1. \A r \in wire[s] : r.session < new.session => r.published + Downtime <= new.published
    BY GateConstants DEF GateInv, GateTypeOK, RestartsTakeTime, Times, HeardType
  <2>2. \A r \in wire[s] : ~(new.session < r.session)
    BY DEF GateInv, GateTypeOK, RecordsOfNow, HeardType
  <2> QED
    BY <2>1, <2>2, <1>4 DEF GateInv, GateTypeOK, SessionsApart
<1>9. HeardInOrder'
  BY <1>2, <1>4 DEF GateInv, HeardInOrder, Latest
<1> QED
  BY <1>5, <1>6, <1>7, <1>8, <1>9 DEF GateInv

LEMMA CrashKeeps ==
    ASSUME NEW s \in Publishers, GateInv, Crash(s)
    PROVE  GateInv'
<1>1. /\ UNCHANGED <<time, inForce, wire, cache, newest, former, resumed>>
      /\ sources[s].session < LastSession
      /\ sources' = [sources EXCEPT ![s].up = FALSE, ![s].crashed = time]
  BY DEF Crash
<1>2. \A q \in Publishers :
        /\ sources'[q].session = sources[q].session
        /\ sources'[q].up = (q # s /\ sources[q].up)
        /\ sources'[q].crashed = IF q = s THEN time ELSE sources[q].crashed
  BY <1>1 DEF GateInv, GateTypeOK
<1>3. GateTypeOK'
  <2>1. sources' \in [Publishers -> [session : 1..LastSession, up : BOOLEAN, crashed : Times,
                                  seq : -1..LastSeq, observed : Int]]
    BY <1>1, ZenonT(60) DEF GateInv, GateTypeOK
  <2>2. \A q \in Publishers : ~sources'[q].up => sources'[q].session < LastSession
    BY <1>1, <1>2 DEF GateInv, GateTypeOK
  <2> QED
    BY <2>1, <2>2, <1>1 DEF GateInv, GateTypeOK
<1>4. RecordsOfNow' /\ SessionsApart' /\ HeardInOrder'
  BY <1>1, <1>2 DEF GateInv, RecordsOfNow, SessionsApart, HeardInOrder, Latest
<1>5. RestartsTakeTime'
  BY <1>1, <1>2, GateConstants
  DEF GateInv, GateTypeOK, RestartsTakeTime, RecordsOfNow, HeardType, Times
<1> QED
  BY <1>3, <1>4, <1>5 DEF GateInv

(* The start of a session: all records were published before the crash.    *)
LEMMA StartKeeps ==
    ASSUME NEW s \in Publishers, GateInv, StartAgain(s)
    PROVE  GateInv'
<1>1. /\ UNCHANGED <<time, inForce, wire, cache, newest, former, resumed>>
      /\ ~sources[s].up /\ time >= sources[s].crashed + Downtime
      /\ sources' = [sources EXCEPT ![s] = [session |-> @.session + 1, up |-> TRUE,
                                            crashed |-> time, seq |-> -1, observed |-> -1]]
  BY DEF StartAgain
<1>2. \A q \in Publishers :
        /\ sources'[q].session = IF q = s THEN sources[q].session + 1 ELSE sources[q].session
        /\ sources'[q].up = (q = s \/ sources[q].up)
        /\ sources'[q].crashed = IF q = s THEN time ELSE sources[q].crashed
  BY <1>1 DEF GateInv, GateTypeOK
<1>3. GateTypeOK'
  BY <1>1, <1>2, GateConstants DEF GateInv, GateTypeOK
<1>4. RecordsOfNow' /\ SessionsApart' /\ HeardInOrder'
  BY <1>1, <1>2
  DEF GateInv, GateTypeOK, RecordsOfNow, SessionsApart, HeardInOrder, Latest, HeardType
<1>5. RestartsTakeTime'
  BY <1>1, <1>2, GateConstants
  DEF GateInv, GateTypeOK, RestartsTakeTime, HeardType, Times
<1> QED
  BY <1>3, <1>4, <1>5 DEF GateInv

LEMMA TimeAndIdentityKeep ==
    ASSUME GateInv, GateTick \/ NewIdentity \/ UNCHANGED gateVars
    PROVE  GateInv'
<1>1. /\ UNCHANGED <<sources, wire, cache, newest, former, resumed>>
      /\ time' \in Times /\ time' >= time /\ inForce' \in 1..LastInForce
  BY GateConstants DEF GateInv, GateTypeOK, Times, GateTick, NewIdentity, gateVars
<1>2. GateTypeOK'
  BY <1>1 DEF GateInv, GateTypeOK
<1>3. SessionsApart' /\ HeardInOrder'
  BY <1>1 DEF GateInv, SessionsApart, HeardInOrder, Latest
<1>4. RecordsOfNow' /\ RestartsTakeTime'
  BY <1>1 DEF GateInv, GateTypeOK, RecordsOfNow, RestartsTakeTime, HeardType, Times
<1> QED
  BY <1>2, <1>3, <1>4 DEF GateInv

-----------------------------------------------------------------------------
(* A record replaces one of its own session only if it was observed later; *)
(* one of another session makes the session in the cache a former one.     *)
LEMMA ReceiveKeeps ==
    ASSUME NEW s \in Publishers, NEW r \in wire[s], GateInv, Receive(s, r)
    PROVE  GateInv'
<1>1. /\ UNCHANGED <<time, inForce, sources, wire>>
      /\ r \in HeardType /\ r # Unknown
  BY GateConstants DEF Receive, GateInv, GateTypeOK
<1>2. /\ cache' = [cache EXCEPT ![s] = r]
      /\ newest' = [newest EXCEPT ![s] = IF r.observed > @ THEN r.observed ELSE @]
      /\ former' = [former EXCEPT ![s] =
             IF cache[s] = Unknown \/ cache[s].session = r.session THEN @
             ELSE @ \cup {cache[s].session}]
      /\ resumed' = IF r.session \in former'[s] THEN resumed \cup {s} ELSE resumed
      /\ Replaces(s, r)
  BY DEF Receive
<1>3. GateTypeOK'
  BY <1>1, <1>2 DEF GateInv, GateTypeOK, HeardType, Times
<1>4. RecordsOfNow' /\ RestartsTakeTime' /\ SessionsApart'
  BY <1>1 DEF GateInv, RecordsOfNow, RestartsTakeTime, SessionsApart
<1>5. ASSUME NEW q \in Publishers, q # s
      PROVE  /\ cache'[q] = cache[q] /\ newest'[q] = newest[q] /\ former'[q] = former[q]
             /\ q \notin resumed' => q \notin resumed
  BY <1>2, <1>5 DEF GateInv, GateTypeOK
<1>6. /\ cache'[s] = r /\ newest'[s] >= r.observed
      /\ newest'[s] = r.observed \/ (newest'[s] = newest[s] /\ newest[s] > r.observed)
      /\ newest[s] \in Int /\ r.observed \in Int
  <2>1. newest[s] \in Int /\ r.observed \in Int
    BY <1>1, GateConstants DEF GateInv, GateTypeOK, HeardType, Times
  <2>2. /\ cache'[s] = r
        /\ newest'[s] = IF r.observed > newest[s] THEN r.observed ELSE newest[s]
    BY <1>2 DEF GateInv, GateTypeOK
  <2> QED
    BY <2>1, <2>2
<1>7. ASSUME s \notin resumed'
      PROVE  r.session \notin former'[s] /\ Latest(s)'
  <2>1. r.session \notin former'[s] /\ s \notin resumed
    BY <1>2, <1>7
  <2>2. CASE newest'[s] = r.observed
    BY <2>1, <2>2, <1>6 DEF Latest
  <2>3. CASE newest'[s] = newest[s] /\ newest[s] > r.observed
    <3>1. cache[s] # Unknown
      BY <2>3, <1>1, <1>6 DEF GateInv, HeardInOrder, HeardType, Times
    <3>2. cache[s] \in wire[s] /\ Latest(s)
      BY <3>1, <2>1 DEF GateInv, HeardInOrder
    <3>3. CASE cache[s].session = r.session
      <4>1. r.observed > cache[s].observed /\ former'[s] = former[s]
        BY <3>1, <3>3, <1>2 DEF Replaces, GateInv, GateTypeOK
      <4>2. newest[s] # cache[s].observed
        BY <4>1, <2>3, <1>6, <3>2 DEF GateInv, GateTypeOK, HeardType, Times
      <4> QED
        BY <4>1, <4>2, <3>2, <2>1, <2>3, <1>1 DEF Latest
    <3>4. CASE cache[s].session # r.session
      <4>1. former'[s] = former[s] \cup {cache[s].session}
        BY <3>1, <3>4, <1>2 DEF GateInv, GateTypeOK
      <4> QED
        BY <4>1, <3>2, <2>1, <2>3, <1>1 DEF Latest
    <3> QED
      BY <3>3, <3>4
  <2> QED
    BY <2>2, <2>3, <1>6
<1>8. HeardInOrder'
  <2>1. ASSUME NEW q \in Publishers, q # s
        PROVE  Latest(q)' = Latest(q)
    BY <1>5, <2>1, <1>1 DEF Latest
  <2> QED
    BY <1>1, <1>5, <1>6, <1>7, <2>1 DEF GateInv, HeardInOrder
<1> QED
  BY <1>3, <1>4, <1>8 DEF GateInv

LEMMA GateNextInv == GateInv /\ [GateNext]_gateVars => GateInv'
  BY PublishKeeps, CrashKeeps, StartKeeps, ReceiveKeeps, TimeAndIdentityKeep DEF GateNext

LEMMA GateInvariance == GateSpec => []GateInv
  BY GateInitInv, GateNextInv, PTL DEF GateSpec

-----------------------------------------------------------------------------
(* If the latest observation is not in the cache, it is of another         *)
(* session.  Of an earlier one it cannot be, for that was over before what *)
(* is in the cache was observed; and if it is of a later one, what is in   *)
(* the cache is no longer valid.                                           *)
LEMMA NothingGoesBackFollows == GateInv => NothingGoesBack
<1> SUFFICES ASSUME GateInv, AuthorityGranted, resumed = {}, NEW s \in Publishers
             PROVE  cache[s].observed = newest[s]
  BY DEF NothingGoesBack
<1>1. /\ cache[s] # Unknown /\ ValidMeta(cache[s])
      /\ cache[s] \in wire[s] /\ cache[s] \in HeardType
      /\ newest[s] >= cache[s].observed /\ newest[s] \in Int
      /\ cache[s].session \notin former[s] /\ Latest(s)
  BY DEF AuthorityGranted, GateInv, HeardInOrder, GateTypeOK
<1>2. SUFFICES ASSUME NEW r \in wire[s], r.session \in former[s], r.observed = newest[s],
                      r.observed > cache[s].observed
               PROVE  FALSE
  BY <1>1 DEF Latest, HeardType, Times
<1>3. r \in HeardType /\ r.session # cache[s].session
  BY <1>1, <1>2 DEF GateInv, GateTypeOK
<1>4. CASE r.session < cache[s].session
  BY <1>1, <1>2, <1>3, <1>4, GateConstants
  DEF GateInv, SessionsApart, RecordsOfNow, HeardType, Times
<1>5. CASE cache[s].session < r.session
  BY <1>1, <1>3, <1>5, GateConstants
  DEF GateInv, GateTypeOK, SessionsApart, RecordsOfNow, ValidMeta, HeardType, Times
<1> QED
  BY <1>1, <1>3, <1>4, <1>5, GateConstants DEF HeardType

(* Authority is never read from a record older than one that was heard.    *)
THEOREM NothingGoesBackCorrect == GateSpec => []NothingGoesBack
  BY GateInvariance, NothingGoesBackFollows, PTL

-----------------------------------------------------------------------------
(* The decision of the supervisor: arithmetic.                             *)

LEMMA ProfileFacts ==
    /\ Braking \in Nat /\ Braking > 0 /\ HalfSeparation \in Nat /\ HalfSeparation > 0
    /\ {CandidateLease, ObstacleLease, EgoLease, Budget} \subseteq Nat
    /\ {Response, Acceleration, Margin, SpeedMax, YawMax, LateralMax, WheelSpeed,
        RotationRadius, RotationMargin, RestTolerance, YawAcceleration, AlignYawMax,
        Skew} \subseteq Nat
  BY SafetyAssumption DEF ProfilesValid

LEMMA FirstNatural ==
    ASSUME NEW T \in SUBSET Nat, T # {}
    PROVE  \E x \in T : \A y \in T : x <= y
<1>1. PICK x \in T : \A y \in T : ~(<<y, x>> \in OpToRel(<, Nat))
  BY NatLessThanWellFounded, WFMin
<1>2. \A y \in T : ~(y < x)
  BY <1>1 DEF OpToRel
<1>3. \A y \in T : y \in Nat
  OBVIOUS
<1> QED
  BY <1>2, <1>3

LEMMA SquareGrows ==
    ASSUME NEW a \in Nat, NEW b \in Nat, a <= b
    PROVE  a * a <= b * b
<1>1. b = a + (b - a) /\ b - a \in Nat
  OBVIOUS
<1>2. \A d \in Nat : a * a <= (a + d) * (a + d)
  OBVIOUS
<1> QED
  BY <1>1, <1>2

(* The integer square root is one, and the greatest.                       *)
LEMMA RootIsRoot ==
    ASSUME NEW n \in Nat
    PROVE  /\ Root(n) \in Nat /\ Root(n) * Root(n) <= n
           /\ \A k \in Nat : k * k <= n => k <= Root(n)
<1> DEFINE T == {r \in Nat : (r + 1) * (r + 1) > n}
<1>1. n \in T
  <2>1. (n + 1) * (n + 1) = n * n + 2 * n + 1 /\ n * n \in Nat
    OBVIOUS
  <2> QED
    BY <2>1
<1>2. PICK x \in T : \A y \in T : x <= y
  BY <1>1, FirstNatural
<1>3. x * x <= n
  <2>1. CASE x = 0
    BY <2>1
  <2>2. CASE x # 0
    <3>1. x - 1 \in Nat /\ ~(x - 1 \in T)
      BY <1>2, <2>2
    <3>2. ~(((x - 1) + 1) * ((x - 1) + 1) > n)
      BY <3>1
    <3>3. (x - 1) + 1 = x
      OBVIOUS
    <3> QED
      BY <3>2, <3>3
  <2> QED
    BY <2>1, <2>2
<1>4. x \in 0..n /\ x * x <= n /\ (x + 1) * (x + 1) > n
  BY <1>1, <1>2, <1>3
<1> DEFINE r == Root(n)
<1>5. r \in 0..n /\ r * r <= n /\ (r + 1) * (r + 1) > n
  BY <1>4 DEF Root
<1> HIDE DEF r, T
<1>6. ASSUME NEW k \in Nat, k * k <= n PROVE k <= r
  <2>1. r \in Nat /\ r + 1 \in Nat
    BY <1>5
  <2>2. ASSUME r + 1 <= k PROVE FALSE
    <3>1. (r + 1) * (r + 1) <= k * k
      BY <2>1, <2>2, SquareGrows
    <3>2. (r + 1) * (r + 1) \in Nat /\ k * k \in Nat
      BY <2>1
    <3> QED
      BY <1>5, <1>6, <3>1, <3>2
  <2> QED
    BY <2>1, <2>2
<1> QED
  BY <1>5, <1>6 DEF r

LEMMA LeastOfTwo ==
    ASSUME NEW a \in Int, NEW b \in Int
    PROVE  /\ Least({a, b}) \in {a, b}
           /\ Least({a, b}) <= a /\ Least({a, b}) <= b
<1>1. \E x \in {a, b} : \A y \in {a, b} : x <= y
  <2>1. CASE a <= b
    BY <2>1
  <2>2. CASE b <= a
    BY <2>2
  <2> QED
    BY <2>1, <2>2
<1>2. Least({a, b}) \in {a, b} /\ \A y \in {a, b} : Least({a, b}) <= y
  BY <1>1 DEF Least
<1> QED
  BY <1>2

LEMMA LeastOfThree ==
    ASSUME NEW a \in Int, NEW b \in Int, NEW c \in Int
    PROVE  /\ Least({a, b, c}) \in {a, b, c}
           /\ Least({a, b, c}) <= a /\ Least({a, b, c}) <= b /\ Least({a, b, c}) <= c
<1>1. \E x \in {a, b, c} : \A y \in {a, b, c} : x <= y
  <2>1. CASE a <= b /\ a <= c
    BY <2>1
  <2>2. CASE b <= a /\ b <= c
    BY <2>2
  <2>3. CASE c <= a /\ c <= b
    BY <2>3
  <2> QED
    BY <2>1, <2>2, <2>3
<1>2. Least({a, b, c}) \in {a, b, c} /\ \A y \in {a, b, c} : Least({a, b, c}) <= y
  BY <1>1 DEF Least
<1> QED
  BY <1>2

LEMMA DivisionRoundsDown ==
    ASSUME NEW a \in Nat, NEW b \in Nat, b > 0
    PROVE  a \div b \in Nat /\ \A x \in Nat : x <= a \div b => x * b <= a
<1>1. a \div b \in Nat /\ b * (a \div b) <= a
  OBVIOUS
<1> DEFINE q == a \div b
<1>2. ASSUME NEW x \in Nat, x <= q PROVE x * b <= a
  <2>1. q \in Nat /\ b * q <= a
    BY <1>1
  <2> HIDE DEF q
  <2>2. q = x + (q - x) /\ q - x \in Nat
    BY <1>2, <2>1
  <2>3. b * q = x * b + b * (q - x) /\ b * (q - x) \in Nat /\ x * b \in Nat
    BY <2>1, <2>2
  <2> QED
    BY <2>1, <2>3
<1> QED
  BY <1>1, <1>2

(* The parabola of stopping_distance_accelerating.                         *)
LEMMA StoppingParabola ==
    ASSUME NEW v \in Nat
    PROVE  LET u == v + (Braking + Acceleration) * Response
           IN  /\ StoppingDistance(v) \in Nat
               /\ StoppingDistance(v)
                     = u * u - Braking * (Braking + Acceleration) * Response * Response
<1> DEFINE Parabola(B, A, R) ==
        2 * B * v * R + B * A * R * R + (v + A * R) * (v + A * R)
<1>1. \A B, A, R \in Nat :
         /\ Parabola(B, A, R) \in Nat
         /\ Parabola(B, A, R)
               = (v + (B + A) * R) * (v + (B + A) * R) - B * (B + A) * R * R
  OBVIOUS
<1>2. Braking \in Nat /\ Acceleration \in Nat /\ Response \in Nat
  BY ProfileFacts
<1>3. StoppingDistance(v) = Parabola(Braking, Acceleration, Response)
  BY DEF StoppingDistance
<1> HIDE DEF Parabola
<1> QED
  BY <1>1, <1>2, <1>3

LEMMA StoppingGrows ==
    ASSUME NEW v \in Nat
    PROVE  StoppingDistance(0) <= StoppingDistance(v)
<1> DEFINE c == (Braking + Acceleration) * Response
           d == Braking * (Braking + Acceleration) * Response * Response
<1>1. c \in Nat /\ d \in Nat
  BY ProfileFacts
<1>2. /\ StoppingDistance(0) = (0 + c) * (0 + c) - d
      /\ StoppingDistance(v) = (v + c) * (v + c) - d
  BY StoppingParabola
<1> HIDE DEF c, d
<1>3. (0 + c) * (0 + c) <= (v + c) * (v + c)
  BY <1>1, SquareGrows
<1>4. (0 + c) * (0 + c) \in Nat /\ (v + c) * (v + c) \in Nat
  BY <1>1
<1> QED
  BY <1>1, <1>2, <1>3, <1>4

LEMMA EffectiveIsNatural ==
    ASSUME NEW distance \in Nat
    PROVE  Effective(distance) \in Nat
<1>1. Braking \in Nat /\ Margin \in Nat
  BY ProfileFacts
<1>2. CASE distance > Margin
  <2>1. distance - Margin \in Nat
    BY <1>1, <1>2
  <2> QED
    BY <1>1, <1>2, <2>1 DEF Effective
<1>3. CASE ~(distance > Margin)
  BY <1>3 DEF Effective
<1> QED
  BY <1>2, <1>3

(* From every speed up to the admissible one the robot can stop, if it can *)
(* from standing still.                                                    *)
LEMMA AdmissibleStops ==
    ASSUME NEW distance \in Nat, NEW v \in Nat, v <= AdmissibleSpeed(distance),
           StoppingDistance(0) <= Effective(distance)
    PROVE  v <= SpeedMax /\ StoppingDistance(v) <= Effective(distance)
<1> DEFINE c == (Braking + Acceleration) * Response
           d == Braking * (Braking + Acceleration) * Response * Response
           e == Effective(distance)
           r == Root(d + e)
           s == StoppingDistance(0)
<1>1. c \in Nat /\ d \in Nat /\ e \in Nat /\ SpeedMax \in Nat /\ s \in Nat /\ d + e \in Nat
  <2>1. c \in Nat /\ d \in Nat /\ SpeedMax \in Nat
    BY ProfileFacts
  <2>2. e \in Nat /\ s \in Nat
    BY EffectiveIsNatural, StoppingParabola
  <2> QED
    BY <2>1, <2>2
<1>2. s = (0 + c) * (0 + c) - d /\ StoppingDistance(v) = (v + c) * (v + c) - d
  BY StoppingParabola
<1>3. r \in Nat /\ r * r <= d + e /\ \A k \in Nat : k * k <= d + e => k <= r
  BY <1>1, RootIsRoot
<1>4. /\ e <= s => AdmissibleSpeed(distance) = 0
      /\ ~(e <= s) => AdmissibleSpeed(distance) = Least({SpeedMax, r - c})
  BY DEF AdmissibleSpeed
<1>5. s <= e
  OBVIOUS
<1> HIDE DEF c, d, e, r, s
<1>6. CASE e <= s
  <2>1. v = 0
    BY <1>4, <1>6
  <2> QED
    BY <1>1, <1>5, <2>1 DEF e, s
<1>7. CASE ~(e <= s)
  <2>1. v <= SpeedMax /\ v <= r - c
    <3>1. r - c \in Int /\ SpeedMax \in Int
      BY <1>1, <1>3
    <3>2. /\ Least({SpeedMax, r - c}) \in Int
          /\ Least({SpeedMax, r - c}) <= SpeedMax /\ Least({SpeedMax, r - c}) <= r - c
      BY <3>1, LeastOfTwo
    <3> QED
      BY <1>4, <1>7, <3>1, <3>2
  <2>2. v + c <= r /\ v + c \in Nat
    BY <1>1, <1>3, <2>1
  <2>3. (v + c) * (v + c) <= r * r
    BY <1>3, <2>2, SquareGrows
  <2>4. (v + c) * (v + c) \in Nat /\ r * r \in Nat
    BY <1>3, <2>2
  <2>5. (v + c) * (v + c) - d <= e
    BY <1>1, <1>3, <2>3, <2>4
  <2> QED
    BY <1>2, <2>1, <2>5 DEF e
<1> QED
  BY <1>6, <1>7

(* The limited speed is none that lies below zero.                         *)
LEMMA AdmissibleIsNatural ==
    ASSUME NEW distance \in Nat
    PROVE  AdmissibleSpeed(distance) \in Nat
<1> DEFINE c == (Braking + Acceleration) * Response
           d == Braking * (Braking + Acceleration) * Response * Response
           e == Effective(distance)
           r == Root(d + e)
           s == StoppingDistance(0)
<1>1. c \in Nat /\ d \in Nat /\ e \in Nat /\ SpeedMax \in Nat /\ s \in Nat /\ d + e \in Nat
  <2>1. c \in Nat /\ d \in Nat /\ SpeedMax \in Nat
    BY ProfileFacts
  <2>2. e \in Nat /\ s \in Nat
    BY EffectiveIsNatural, StoppingParabola
  <2> QED
    BY <2>1, <2>2
<1>2. s = (0 + c) * (0 + c) - d
  BY StoppingParabola
<1>3. r \in Nat /\ r * r <= d + e /\ \A k \in Nat : k * k <= d + e => k <= r
  BY <1>1, RootIsRoot
<1>4. /\ e <= s => AdmissibleSpeed(distance) = 0
      /\ ~(e <= s) => AdmissibleSpeed(distance) = Least({SpeedMax, r - c})
  BY DEF AdmissibleSpeed
<1> HIDE DEF c, d, e, r, s
<1>5. CASE ~(e <= s)
  <2>1. c * c \in Nat /\ c * c <= d + e
    BY <1>1, <1>2, <1>5
  <2>2. c <= r
    BY <1>1, <1>3, <2>1
  <2>3. r - c \in Nat
    BY <1>1, <1>3, <2>2
  <2>4. Least({SpeedMax, r - c}) \in {SpeedMax, r - c}
    <3>1. r - c \in Int /\ SpeedMax \in Int
      BY <1>1, <2>3
    <3> QED
      BY <3>1, LeastOfTwo
  <2> QED
    BY <1>1, <1>4, <1>5, <2>3, <2>4
<1> QED
  BY <1>4, <1>5

-----------------------------------------------------------------------------
(* The decision of the supervisor: evaluate.                               *)

LEMMA ViewFacts ==
    ASSUME NEW view \in ViewType
    PROVE  /\ view.v \in Int /\ view.w \in Int /\ view.ego \in Int /\ view.egoTurn \in Int
           /\ view.mode \in Modes
           /\ view.ahead \in Nat /\ view.around \in Nat /\ view.arc \in Nat
           /\ view.error \in Nat /\ view.period \in Nat
           /\ Abs(view.w) \in Nat /\ (Curved(view) => Abs(view.w) > 0)
           /\ Clearance(view) \in Nat
  BY DEF ViewType, Abs, Curved, Clearance

(* What motion under a view has to satisfy (MotionFits).                   *)
Fits(view, v) ==
    IF view.mode = "ALIGN"
    THEN /\ v = 0 /\ Abs(view.ego) <= RestTolerance
         /\ view.aroundSeen
         /\ view.around > RotationRadius + view.error
         /\ Abs(view.w) <= YawMax
    ELSE /\ v \in (0..view.v) \cap (0..SpeedMax)
         /\ StoppingDistance(v) <= Effective(Clearance(view))
         /\ StoppingDistance(view.ego) <= Effective(Clearance(view))
         /\ Curved(view) =>
               /\ view.arcSeen
               /\ v * v * Abs(view.w) <= LateralMax * view.v
               /\ v * Abs(view.w) <= YawMax * view.v
               /\ v * (view.v + Abs(view.w) * HalfSeparation) <= WheelSpeed * view.v

(* The three limits of an arc, and the speed that meets them.              *)
LEMMA ArcSpeedKeeps ==
    ASSUME NEW s \in Nat, s > 0, NEW a \in Nat, a > 0, NEW v \in Nat,
           NEW w \in Int, Abs(w) = a
    PROVE  /\ ArcSpeed(s, w) \in Nat
           /\ v <= ArcSpeed(s, w) =>
                 /\ v * v * a <= LateralMax * s
                 /\ v * a <= YawMax * s
                 /\ v * (s + a * HalfSeparation) <= WheelSpeed * s
<1> DEFINE l == LateralMax * s
           y == YawMax * s
           m == WheelSpeed * s
           b == s + a * HalfSeparation
           r == Root(l \div a)
           limits == {r, y \div a, m \div b}
<1>1. l \in Nat /\ y \in Nat /\ m \in Nat /\ b \in Nat /\ b > 0
  <2>1. LateralMax \in Nat /\ YawMax \in Nat /\ WheelSpeed \in Nat /\ HalfSeparation \in Nat
    BY ProfileFacts
  <2>2. l \in Nat /\ y \in Nat /\ m \in Nat
    BY <2>1
  <2>3. a * HalfSeparation \in Nat
    BY <2>1
  <2> QED
    BY <2>2, <2>3
<1>2. ArcSpeed(s, w) = Least(limits)
  BY DEF ArcSpeed
<1> HIDE DEF l, y, m, b
<1>3. /\ l \div a \in Nat /\ \A x \in Nat : x <= l \div a => x * a <= l
      /\ y \div a \in Nat /\ \A x \in Nat : x <= y \div a => x * a <= y
      /\ m \div b \in Nat /\ \A x \in Nat : x <= m \div b => x * b <= m
  BY <1>1, DivisionRoundsDown
<1>4. r \in Nat /\ r * r <= l \div a
  BY <1>3, RootIsRoot
<1>5. /\ Least(limits) \in Nat
      /\ Least(limits) <= r /\ Least(limits) <= y \div a /\ Least(limits) <= m \div b
  <2>1. r \in Int /\ y \div a \in Int /\ m \div b \in Int
    BY <1>3, <1>4
  <2> QED
    BY <1>3, <1>4, <2>1, LeastOfThree
<1> HIDE DEF r, limits
<1>6. ASSUME v <= Least(limits)
      PROVE  v * v * a <= l /\ v * a <= y /\ v * b <= m
  <2>1. v <= r /\ v <= y \div a /\ v <= m \div b
    BY <1>3, <1>4, <1>5, <1>6
  <2>2. v * v <= r * r
    BY <1>4, <2>1, SquareGrows
  <2>3. v * v \in Nat /\ r * r \in Nat
    BY <1>4
  <2>4. v * v <= l \div a
    BY <1>3, <1>4, <2>2, <2>3
  <2> QED
    BY <1>3, <2>1, <2>3, <2>4
<1> QED
  BY <1>2, <1>5, <1>6 DEF l, y, m, b

(* A candidate that may be tracked fits at every speed up to the safe one. *)
LEMMA SafeSpeedFits ==
    ASSUME NEW view \in ViewType, view.mode # "ALIGN", view.v >= 0, view.ego >= 0,
           MayTrack(view)
    PROVE  /\ SafeSpeed(view) \in Nat
           /\ \A v \in Nat : v <= view.v /\ v <= SafeSpeed(view) => Fits(view, v)
<1> DEFINE d == Clearance(view)
           e == Effective(d)
           arc == ArcSpeed(view.v, view.w)
           adm == AdmissibleSpeed(d)
<1>1. /\ d \in Nat /\ view.v \in Nat /\ view.ego \in Nat /\ SpeedMax \in Nat
      /\ view.w \in Int /\ Abs(view.w) \in Nat /\ (Curved(view) => Abs(view.w) > 0)
  BY ViewFacts, ProfileFacts
<1>2. /\ StoppingDistance(view.ego) <= e
      /\ Curved(view) => view.v > 0 /\ view.arcSeen
  BY DEF MayTrack
<1>3. adm \in Nat
  BY <1>1, AdmissibleIsNatural
<1>4. StoppingDistance(0) <= e
  <2>1. StoppingDistance(0) \in Nat /\ StoppingDistance(view.ego) \in Nat /\ e \in Nat
    BY <1>1, StoppingParabola, EffectiveIsNatural
  <2>2. StoppingDistance(0) <= StoppingDistance(view.ego)
    BY <1>1, StoppingGrows
  <2> QED
    BY <1>2, <2>1, <2>2
<1>5. Curved(view) => arc \in Nat
  BY <1>1, <1>2, ArcSpeedKeeps
<1>6. /\ Curved(view) => SafeSpeed(view) = Least({adm, arc})
      /\ ~Curved(view) => SafeSpeed(view) = adm
  BY DEF SafeSpeed
<1>7. /\ SafeSpeed(view) \in Nat /\ SafeSpeed(view) <= adm
      /\ Curved(view) => SafeSpeed(view) <= arc
  <2>1. CASE Curved(view)
    <3>1. adm \in Int /\ arc \in Int
      BY <1>3, <1>5, <2>1
    <3> QED
      BY <1>3, <1>5, <1>6, <2>1, <3>1, LeastOfTwo
  <2>2. CASE ~Curved(view)
    BY <1>3, <1>6, <2>2
  <2> QED
    BY <2>1, <2>2
<1> HIDE DEF arc, adm
<1>8. ASSUME NEW v \in Nat, v <= view.v, v <= SafeSpeed(view) PROVE Fits(view, v)
  <2>1. v <= adm /\ (Curved(view) => v <= arc)
    BY <1>3, <1>5, <1>7, <1>8
  <2>2. v <= SpeedMax /\ StoppingDistance(v) <= e
    BY <1>1, <1>4, <2>1, AdmissibleStops DEF adm
  <2>3. v \in (0..view.v) \cap (0..SpeedMax)
    BY <1>1, <1>8, <2>2
  <2>4. Curved(view) =>
            /\ v * v * Abs(view.w) <= LateralMax * view.v
            /\ v * Abs(view.w) <= YawMax * view.v
            /\ v * (view.v + Abs(view.w) * HalfSeparation) <= WheelSpeed * view.v
    BY <1>1, <1>2, <2>1, ArcSpeedKeeps DEF arc
  <2> QED
    BY <1>2, <2>2, <2>3, <2>4 DEF Fits
<1> QED
  BY <1>7, <1>8

LEMMA AlignFits ==
    ASSUME NEW view \in ViewType, view.mode = "ALIGN", MayAlign(view)
    PROVE  Fits(view, 0)
<1> DEFINE limit == IF AlignYawMax > 0 THEN AlignYawMax ELSE YawMax
<1>1. YawMax \in Int /\ limit \in Int /\ RotationRadius \in Nat /\ RotationMargin \in Nat
  BY ProfileFacts
<1>2. /\ Abs(view.ego) <= RestTolerance /\ view.aroundSeen /\ RotationMargin > 0
      /\ view.around >= RotationRadius + view.error + RotationMargin
      /\ Abs(view.w) <= Least({YawMax, limit})
  BY DEF MayAlign
<1>3. view.around \in Nat /\ view.error \in Nat /\ Abs(view.w) \in Nat
  BY ViewFacts
<1> HIDE DEF limit
<1>4. Least({YawMax, limit}) \in Int /\ Least({YawMax, limit}) <= YawMax
  BY <1>1, LeastOfTwo
<1>5. Abs(view.w) <= YawMax
  BY <1>1, <1>2, <1>3, <1>4
<1>6. view.around > RotationRadius + view.error
  BY <1>1, <1>2, <1>3
<1> QED
  BY <1>2, <1>5, <1>6 DEF Fits

LEMMA EvaluateFits ==
    ASSUME NEW s, NEW t, s.view \in ViewType,
           Evaluate(s, t).decision # "STOP"
    PROVE  /\ ~Late(s, t) /\ ~Invalid(s, t)
           /\ Evaluate(s, t).of = s /\ Evaluate(s, t).at = t
           /\ Fits(s.view, Evaluate(s, t).v)
<1> DEFINE Judged(d, v) == Verdict(d, v, s, t)
<1>1. \A d, v : /\ Judged(d, v).decision = d /\ Judged(d, v).v = v
                /\ Judged(d, v).of = s /\ Judged(d, v).at = t
  BY DEF Verdict
<1>2. ~Late(s, t) /\ ~Invalid(s, t)
  <2>1. CASE Late(s, t) \/ Invalid(s, t)
    BY <1>1, <2>1 DEF Evaluate
  <2> QED
    BY <2>1
<1>3. s.view.v \in Int /\ s.view.ego \in Int /\ s.view.v >= 0 /\ s.view.ego >= 0
  BY <1>2, ViewFacts DEF Invalid
<1>4. CASE s.view.mode = "ALIGN"
  <2>1. Evaluate(s, t) = Judged(IF MayAlign(s.view) THEN "ADMIT" ELSE "STOP", 0)
    BY <1>2, <1>4 DEF Evaluate
  <2>2. MayAlign(s.view)
    BY <1>1, <2>1
  <2> QED
    BY <1>1, <1>2, <1>4, <2>1, <2>2, AlignFits
<1>5. CASE s.view.mode # "ALIGN"
  <2>1. Evaluate(s, t) =
            IF ~MayTrack(s.view) THEN Judged("STOP", 0)
            ELSE IF s.view.v <= SafeSpeed(s.view) THEN Judged("ADMIT", s.view.v)
            ELSE Judged("LIMIT", SafeSpeed(s.view))
    BY <1>2, <1>5 DEF Evaluate
  <2>2. MayTrack(s.view)
    BY <1>1, <2>1
  <2>3. /\ SafeSpeed(s.view) \in Nat
        /\ \A v \in Nat : v <= s.view.v /\ v <= SafeSpeed(s.view) => Fits(s.view, v)
    BY <1>3, <1>5, <2>2, SafeSpeedFits
  <2>4. CASE s.view.v <= SafeSpeed(s.view)
    <3>1. Evaluate(s, t) = Judged("ADMIT", s.view.v)
      BY <2>1, <2>2, <2>4
    <3>2. Fits(s.view, s.view.v)
      BY <1>3, <2>3, <2>4
    <3> QED
      BY <1>1, <1>2, <3>1, <3>2
  <2>5. CASE ~(s.view.v <= SafeSpeed(s.view))
    <3>1. Evaluate(s, t) = Judged("LIMIT", SafeSpeed(s.view))
      BY <2>1, <2>2, <2>5
    <3>2. Fits(s.view, SafeSpeed(s.view))
      BY <1>3, <2>3, <2>5
    <3> QED
      BY <1>1, <1>2, <3>1, <3>2
  <2> QED
    BY <2>4, <2>5
<1> QED
  BY <1>4, <1>5

-----------------------------------------------------------------------------
(* The decision of the supervisor: the invariant.                          *)

(* A snapshot was made with the identity of its time; if another one is in *)
(* force, it came later.                                                   *)
SnapshotOK(s) ==
    /\ s.view \in ViewType
    /\ {s.candidateAt, s.until, s.obstaclesAt, s.egoAt, s.identity, s.expected} \subseteq Int
    /\ s.received \in 0..clock
    /\ s.expected # identity => s.received <= changedAt

VerdictOK ==
    /\ SnapshotOK(verdict.of)
    /\ ~Foreign(verdict.of)
    /\ verdict.at \in 0..clock
    /\ ~Late(verdict.of, verdict.at) /\ ~OutOfDate(verdict.of, verdict.at)
    /\ Fits(verdict.of.view, verdict.v)

DecisionInv ==
    /\ clock \in Nat /\ identity \in Nat /\ changedAt \in 0..clock
    /\ snapshot # NoSnapshot => SnapshotOK(snapshot)
    /\ verdict.decision \in {"NONE", "STOP", "ADMIT", "LIMIT"}
    /\ Moves => VerdictOK

LEMMA EvaluateDecides ==
    ASSUME NEW s, NEW t
    PROVE  Evaluate(s, t).decision \in {"STOP", "ADMIT", "LIMIT"}
<1> DEFINE Judged(d, v) == Verdict(d, v, s, t)
<1>1. \A d, v : Judged(d, v).decision = d
  BY DEF Verdict
<1>2. \/ Evaluate(s, t) = Judged("STOP", 0)
      \/ Evaluate(s, t) = Judged(IF MayAlign(s.view) THEN "ADMIT" ELSE "STOP", 0)
      \/ Evaluate(s, t) = Judged("ADMIT", s.view.v)
      \/ Evaluate(s, t) = Judged("LIMIT", SafeSpeed(s.view))
  BY DEF Evaluate
<1> HIDE DEF Judged
<1> QED
  BY <1>1, <1>2

LEMMA DecodedIsView ==
    ASSUME NEW view \in ViewType
    PROVE  Decoded(view) \in ViewType
<1>1. \A u \in ViewType :
         /\ [u EXCEPT !.mode = "TRACK_PATH"] \in ViewType
         /\ [u EXCEPT !.egoTurn = 0] \in ViewType
         /\ [u EXCEPT !.around = 0] \in ViewType
         /\ [u EXCEPT !.arc = 0] \in ViewType
         /\ [u EXCEPT !.error = 0] \in ViewType
         /\ [u EXCEPT !.period = 0] \in ViewType
  BY DEF ViewType, Modes
<1>2. \A u \in ViewType :
         /\ [u EXCEPT !.aroundSeen = FALSE] \in ViewType
         /\ [u EXCEPT !.arcSeen = FALSE] \in ViewType
  BY Zenon DEF ViewType
<1> DEFINE a == [view EXCEPT !.mode = "TRACK_PATH"]
           b == [a EXCEPT !.egoTurn = 0]
           c == [b EXCEPT !.around = 0]
           d == [c EXCEPT !.aroundSeen = FALSE]
           e == [d EXCEPT !.arc = 0]
           f == [e EXCEPT !.arcSeen = FALSE]
           g == [f EXCEPT !.error = 0]
           h == [g EXCEPT !.period = 0]
<1>3. Decoded(view) = h
  BY Zenon DEF Decoded
<1> HIDE DEF h
<1>4. h \in ViewType
  <2>1. g \in ViewType => h \in ViewType
    BY <1>1, Zenon DEF h
  <2> HIDE DEF g
  <2>2. f \in ViewType => g \in ViewType
    BY <1>1, Zenon DEF g
  <2> HIDE DEF f
  <2>3. e \in ViewType => f \in ViewType
    BY <1>2, Zenon DEF f
  <2> HIDE DEF e
  <2>4. d \in ViewType => e \in ViewType
    BY <1>1, Zenon DEF e
  <2> HIDE DEF d
  <2>5. c \in ViewType => d \in ViewType
    BY <1>2, Zenon DEF d
  <2> HIDE DEF c
  <2>6. b \in ViewType => c \in ViewType
    BY <1>1, Zenon DEF c
  <2> HIDE DEF b
  <2>7. a \in ViewType /\ (a \in ViewType => b \in ViewType)
    BY <1>1, Zenon DEF b
  <2> QED
    BY <2>1, <2>2, <2>3, <2>4, <2>5, <2>6, <2>7
<1> QED
  BY <1>3, <1>4

LEMMA DecisionInvAtFirst ==
    DecisionInit => DecisionInv
<1> SUFFICES ASSUME DecisionInit PROVE DecisionInv
  OBVIOUS
<1>1. verdict.decision = "NONE"
  BY DEF DecisionInit, NoVerdict
<1> QED
  BY <1>1 DEF DecisionInit, DecisionInv, Moves

(* A snapshot that is made.                                                *)
LEMMA SnapshotStep ==
    ASSUME DecisionInv, NEW view \in ViewType, NEW age \in AgeType,
           snapshot' = Snapshot(view, age, identity) \/ snapshot' = NoSnapshot,
           UNCHANGED <<clock, identity, changedAt, verdict>>
    PROVE  DecisionInv'
<1>1. /\ age.candidate \in Int /\ age.obstacles \in Int /\ age.ego \in Int
      /\ age.life \in Int /\ age.behind \in Nat
  BY DEF AgeType
<1>2. snapshot' # NoSnapshot => SnapshotOK(snapshot)'
  <2>1. CASE snapshot' = Snapshot(view, age, identity)
    <3> DEFINE s == Snapshot(view, age, identity)
    <3>1. /\ s.view = view /\ s.candidateAt = clock - age.candidate
          /\ s.until = clock + age.life /\ s.obstaclesAt = clock - age.obstacles
          /\ s.egoAt = clock - age.ego /\ s.identity = identity - age.behind
          /\ s.expected = identity /\ s.received = clock
      BY DEF Snapshot
    <3> HIDE DEF s
    <3>2. clock \in Nat /\ identity \in Nat
      BY DEF DecisionInv
    <3>3. snapshot' = s
      BY <2>1 DEF s
    <3> QED
      BY <1>1, <3>1, <3>2, <3>3 DEF SnapshotOK
  <2> QED
    BY <2>1
<1>3. VerdictOK => VerdictOK'
  BY DEF VerdictOK, SnapshotOK
<1> QED
  BY <1>2, <1>3 DEF DecisionInv, Moves

LEMMA DecisionTickStep ==
    ASSUME DecisionInv, NEW healthy \in BOOLEAN, DecisionTick(healthy)
    PROVE  DecisionInv'
<1>1. snapshot' = NoSnapshot /\ UNCHANGED <<clock, identity, changedAt>>
  BY DEF DecisionTick
<1>2. CASE snapshot = NoSnapshot \/ ~healthy
  <2>1. verdict' = Verdict("STOP", 0, snapshot, clock)
    BY <1>2 DEF DecisionTick
  <2>2. verdict'.decision = "STOP"
    BY <2>1 DEF Verdict
  <2> QED
    BY <1>1, <2>2 DEF DecisionInv, Moves
<1>3. CASE ~(snapshot = NoSnapshot \/ ~healthy)
  <2>1. verdict' = Evaluate(snapshot, clock)
    BY <1>3 DEF DecisionTick
  <2>2. verdict'.decision \in {"STOP", "ADMIT", "LIMIT"}
    BY <2>1, EvaluateDecides
  <2>3. SnapshotOK(snapshot) /\ clock \in Nat
    BY <1>3 DEF DecisionInv
  <2>4. ASSUME Moves' PROVE VerdictOK'
    <3>1. Evaluate(snapshot, clock).decision # "STOP"
      BY <2>1, <2>4 DEF Moves
    <3>2. /\ ~Late(snapshot, clock) /\ ~Invalid(snapshot, clock)
          /\ verdict'.of = snapshot /\ verdict'.at = clock
          /\ Fits(snapshot.view, verdict'.v)
      BY <2>1, <2>3, <3>1, EvaluateFits DEF SnapshotOK
    <3> QED
      BY <1>1, <2>3, <3>2 DEF VerdictOK, SnapshotOK, Invalid
  <2> QED
    BY <1>1, <2>2, <2>4 DEF DecisionInv
<1> QED
  BY <1>2, <1>3

LEMMA DecisionInvIsInductive ==
    DecisionInv /\ [DecisionNext]_decisionVars => DecisionInv'
<1> SUFFICES ASSUME DecisionInv, [DecisionNext]_decisionVars PROVE DecisionInv'
  OBVIOUS
<1>1. ASSUME NEW i \in Inputs, Decode(i.view, i.age) PROVE DecisionInv'
  <2>1. i.view \in ViewType /\ i.age \in AgeType
    BY SafetyAssumption
  <2>2. Decoded(i.view) \in ViewType
    BY <2>1, DecodedIsView
  <2> QED
    BY <1>1, <2>1, <2>2, SnapshotStep DEF Decode
<1>2. ASSUME NEW i \in Inputs, Build(i.view, i.age) PROVE DecisionInv'
  <2>1. i.view \in ViewType /\ i.age \in AgeType
    BY SafetyAssumption
  <2> QED
    BY <1>2, <2>1, SnapshotStep DEF Build
<1>3. ASSUME NEW healthy \in BOOLEAN, DecisionTick(healthy) PROVE DecisionInv'
  BY <1>3, DecisionTickStep
<1>4. CASE NextCycle
  <2>1. verdict'.decision = "NONE"
    BY <1>4 DEF NextCycle, NoVerdict
  <2> QED
    BY <1>4, <2>1 DEF NextCycle, DecisionInv, Moves, SnapshotOK
<1>5. CASE DecisionTime
  <2>1. clock' = clock + 1 /\ UNCHANGED <<identity, changedAt, snapshot, verdict>>
    BY <1>5 DEF DecisionTime
  <2>2. \A s : SnapshotOK(s) => SnapshotOK(s)'
    BY <2>1 DEF DecisionInv, SnapshotOK
  <2>3. VerdictOK => VerdictOK'
    BY <2>1, <2>2 DEF DecisionInv, VerdictOK
  <2> QED
    BY <2>1, <2>2, <2>3 DEF DecisionInv, Moves
<1>6. CASE IdentityChanges
  <2>1. identity' = identity + 1 /\ changedAt' = clock /\ UNCHANGED <<clock, snapshot, verdict>>
    BY <1>6 DEF IdentityChanges
  <2>2. \A s : SnapshotOK(s) => SnapshotOK(s)'
    BY <2>1 DEF DecisionInv, SnapshotOK
  <2>3. VerdictOK => VerdictOK'
    BY <2>1, <2>2 DEF DecisionInv, VerdictOK
  <2> QED
    BY <2>1, <2>2, <2>3 DEF DecisionInv, Moves
<1>7. CASE UNCHANGED decisionVars
  BY <1>7 DEF decisionVars, DecisionInv, Moves, VerdictOK, SnapshotOK
<1> QED
  BY <1>1, <1>2, <1>3, <1>4, <1>5, <1>6, <1>7 DEF DecisionNext

LEMMA DecisionInvariance ==
    DecisionSpec => []DecisionInv
  BY DecisionInvAtFirst, DecisionInvIsInductive, PTL DEF DecisionSpec

LEMMA EntitlementFollows ==
    ASSUME DecisionInv
    PROVE  MotionIsEntitled
<1>1. SUFFICES ASSUME Moves PROVE MotionIsEntitled
  BY DEF MotionIsEntitled, RevocationIsSeen, MotionFits
<1> DEFINE s == verdict.of
           t == verdict.at
<1>2. /\ s.received \in 0..clock /\ s.expected \in Int /\ s.identity = s.expected
      /\ s.candidateAt \in Int /\ s.until \in Int /\ s.obstaclesAt \in Int /\ s.egoAt \in Int
      /\ s.expected # identity => s.received <= changedAt
      /\ t \in 0..clock /\ clock \in Nat /\ changedAt \in 0..clock
      /\ ~Late(s, t) /\ ~OutOfDate(s, t)
  BY <1>1 DEF DecisionInv, VerdictOK, SnapshotOK, Foreign
<1>3. {Budget, CandidateLease, ObstacleLease, EgoLease} \subseteq Nat
  BY ProfileFacts
<1>4. Fits(s.view, verdict.v)
  BY <1>1 DEF DecisionInv, VerdictOK
<1>5. MotionFits
  BY <1>4 DEF Fits, MotionFits
<1> HIDE DEF s, t
<1>6. s.identity # identity /\ changedAt <= t => t - changedAt <= Budget
  BY <1>2, <1>3 DEF Late
<1>7. /\ t < s.until
      /\ t - s.candidateAt \in 0..CandidateLease
      /\ t - s.obstaclesAt \in 0..ObstacleLease
      /\ t - s.egoAt \in 0..EgoLease
  BY <1>2, <1>3 DEF OutOfDate
<1> QED
  BY <1>5, <1>6, <1>7 DEF MotionIsEntitled, RevocationIsSeen, s, t

(* For every vehicle, every set of leases and every clock: a decision that *)
(* lets the robot move is made from evidence in force, notices a revoked   *)
(* identity within the processing budget, and grants no speed from which   *)
(* the robot cannot stop inside the clearance that was seen; rounding,     *)
(* the limit of an arc and the choice of evaluate between ADMIT and LIMIT  *)
(* never take it further.                                                  *)
THEOREM EntitlementCorrect == DecisionSpec => []MotionIsEntitled
  BY DecisionInvariance, EntitlementFollows, PTL

-----------------------------------------------------------------------------
(* The supervisor beside the multiplexer (SafetyBoundary).                 *)

(* The stop is allowed, and a stop that is on its way, or else the next    *)
(* one, arrives before its timer fires.                                    *)
Guarded ==
    /\ mux.allowed = Stop
    /\ \/ mux.left[Stop] > watchdog.wait + MaxDelay
       \/ \E age \in stops : mux.left[Stop] > MaxDelay - age

(* Otherwise the first stop since the two run together is not due yet, or  *)
(* is on its way.                                                          *)
Guard ==
    /\ watchdog.running =>
          \/ Guarded
          \/ up + watchdog.wait <= StopPeriod
          \/ \E age \in stops : up <= StopPeriod + age
    /\ ~watchdog.running => up = 0

(* The multiplexer's timer of the stop and the observed silence add up to  *)
(* a timeout; and an input other than the stop is allowed only after one.  *)
Quiet ==
    /\ \E c \in Configs : silence + mux.left[Stop] >= c[Stop].timeout
    /\ mux.allowed # Stop => \E c \in Configs : silence >= c[Stop].timeout

(* The heartbeat of an unlatched machine is no older than the lease and    *)
(* the time since the last tick.                                           *)
Heartbeat ==
    watchdog.running
    /\ watchdog.machine.state # "FAULT_LATCHED"
    /\ watchdog.machine.last # NoBeat
        => watchdog.machine.last.received >= -(Lease + StopPeriod - watchdog.wait)

BoundaryInv == BoundaryTypeOK /\ Guard /\ Quiet /\ Heartbeat

-----------------------------------------------------------------------------
(* The multiplexer.                                                        *)
LEMMA ConfigFacts ==
    ASSUME NEW c \in Configs
    PROVE  /\ \A s \in Sources : c[s].timeout \in Nat /\ c[s].priority \in Nat
           /\ c[Stop].timeout > StopPeriod + MaxDelay
           /\ c[Stop].timeout <= LongSilence
           /\ \A s \in Sources \ {Stop} : c[Stop].priority > c[s].priority
           /\ Stop \in Sources
           /\ Vacant # Stop
           /\ StopPeriod \in Nat /\ MaxDelay \in Nat /\ LongSilence \in Nat
  BY MuxAssumption, BoundaryAssumption DEF ParametersAreValid

(* A stop always passes, and its timer starts anew.                        *)
LEMMA StopIsHeard ==
    ASSUME mux \in Muxes
    PROVE  /\ Heard(mux, Stop) \in Muxes
           /\ Heard(mux, Stop).allowed = Stop
           /\ Heard(mux, Stop).left[Stop] = mux.config[Stop].timeout
<1>1. mux.config \in Configs /\ mux.allowed \in Sources \cup {Vacant}
  BY DEF Muxes
<1>2. Passes(mux, Stop)
  BY <1>1, ConfigFacts DEF Passes, Priority
<1> QED
  BY <1>1, <1>2, ConfigFacts DEF Heard, Muxes

(* While the stop is allowed no other input passes, and none can touch     *)
(* the timer of the stop.                                                  *)
LEMMA StopBlocks ==
    ASSUME mux \in Muxes, mux.allowed = Stop, NEW s \in Sources \ {Stop}
    PROVE  ~Passes(mux, s)
<1>1. mux.config \in Configs /\ s # Stop /\ s \in Sources
  BY DEF Muxes
<1> QED
  BY <1>1, ConfigFacts DEF Passes, Priority

LEMMA OtherIsHeard ==
    ASSUME mux \in Muxes, NEW s \in Sources \ {Stop}
    PROVE  /\ Heard(mux, s) \in Muxes
           /\ mux.allowed = Stop => Heard(mux, s).allowed = Stop
           /\ mux.allowed # Stop => Heard(mux, s).allowed # Stop
           /\ Heard(mux, s).left[Stop] = mux.left[Stop]
<1>1. mux.config \in Configs /\ s # Stop /\ s \in Sources
  BY DEF Muxes
<1>2. mux.allowed = Stop => ~Passes(mux, s)
  BY StopBlocks
<1> QED
  BY <1>1, <1>2, ConfigFacts DEF Heard, Muxes

(* A timer that fires for the stop had run out.                            *)
LEMMA TimerFacts ==
    ASSUME mux \in Muxes, NEW s \in Sources
    PROVE  /\ TimerFired(mux, s) \in Muxes
           /\ TimerFired(mux, s).left = mux.left
           /\ s # Stop /\ mux.allowed = Stop => TimerFired(mux, s).allowed = Stop
           /\ mux.allowed # Stop => TimerFired(mux, s).allowed # Stop
  BY BoundaryAssumption, MuxAssumption DEF TimerFired, Muxes

(* A change of parameters leaves the allowed input alone, and leaves the   *)
(* stop its time or gives it a whole timeout.                              *)
LEMMA ReconfiguredFacts ==
    ASSUME mux \in Muxes, NEW c \in Configs
    PROVE  /\ Reconfigured(mux, c) \in Muxes
           /\ Reconfigured(mux, c).allowed = mux.allowed
           /\ Reconfigured(mux, c).left[Stop] \in {mux.left[Stop], c[Stop].timeout}
  BY ConfigFacts DEF Reconfigured, Muxes

LEMMA StartedFacts ==
    ASSUME NEW c \in Configs
    PROVE  StartedMux(c) \in Muxes
  BY ConfigFacts DEF StartedMux, Muxes

LEMMA ElapsedFacts ==
    ASSUME mux \in Muxes
    PROVE  /\ Elapsed(mux) \in Muxes
           /\ Elapsed(mux).allowed = mux.allowed
           /\ Elapsed(mux).left[Stop] =
                 IF mux.left[Stop] > 0 THEN mux.left[Stop] - 1 ELSE 0
  BY BoundaryAssumption DEF Elapsed, Muxes

(* The watchdog machine: a tick keeps its types and its heartbeat, and     *)
(* without an authorization it does not release.                           *)
LEMMA TickedFacts ==
    ASSUME NEW w \in Machines, w.state # "ACTIVE", NEW healthy \in BOOLEAN
    PROVE  /\ Ticked(w, 0, FALSE, healthy) \in Machines
           /\ Ticked(w, 0, FALSE, healthy).state # "ACTIVE"
           /\ Ticked(w, 0, FALSE, healthy).last = w.last
           /\ w.state = "FAULT_LATCHED" =>
                 Ticked(w, 0, FALSE, healthy).state = "FAULT_LATCHED"
           /\ Ticked(w, 0, FALSE, healthy).state # "FAULT_LATCHED" /\ w.last # NoBeat =>
                 w.last.received >= -Lease
<1>1. w.last # NoBeat => w.last.received \in Int
  BY DEF Machines, Beats
<1> QED
  BY <1>1, MachineAssumption DEF Ticked, Unheard, Stale, Latched, Machines, States

LEMMA ObservedFacts ==
    ASSUME NEW w \in Machines, w.state # "ACTIVE", NEW beat \in Beats
    PROVE  /\ Observed(w, beat) \in Machines
           /\ Observed(w, beat).state # "ACTIVE"
           /\ w.state = "FAULT_LATCHED" => Observed(w, beat).state = "FAULT_LATCHED"
           /\ Observed(w, beat).state # "FAULT_LATCHED" => Observed(w, beat).last = beat
<1>1. beat.stage \in Stages
  BY DEF Beats
<1> QED
  BY <1>1 DEF Observed, Latched, Machines, States

(* A heartbeat moves into the past, and stops where it is long stale.      *)
LEMMA OlderFacts ==
    ASSUME NEW w \in Machines
    PROVE  /\ Older(w) \in Machines
           /\ Older(w).state = w.state
           /\ Older(w).last # NoBeat /\ w.last.received >= -(Lease + StopPeriod) =>
                 w.last # NoBeat /\ Older(w).last.received = w.last.received - 1
<1>1. OldBeat \in Int /\ OldBeat < -(Lease + StopPeriod)
  BY MachineAssumption, BoundaryAssumption DEF OldBeat
<1>2. CASE w.last # NoBeat /\ w.last.received > OldBeat
  <2>1. w.last \in Beats /\ w.last.received \in Int
    BY <1>2 DEF Machines, Beats
  <2>2. [w.last EXCEPT !.received = @ - 1] \in Beats
    BY <2>1 DEF Beats
  <2> QED
    BY <1>2, <2>1, <2>2 DEF Older, Machines, Beats
<1>3. CASE ~(w.last # NoBeat /\ w.last.received > OldBeat)
  <2>1. w.last # NoBeat => w.last.received \in Int
    BY DEF Machines, Beats
  <2> QED
    BY <1>1, <1>3, <2>1, MachineAssumption, BoundaryAssumption DEF Older
<1> QED
  BY <1>2, <1>3

-----------------------------------------------------------------------------
LEMMA BoundaryInitInv == BoundaryInit => BoundaryInv
<1> SUFFICES ASSUME BoundaryInit PROVE BoundaryInv
  OBVIOUS
<1>1. PICK c \in Configs : mux = StartedMux(c)
  BY DEF BoundaryInit
<1>2. mux \in Muxes
  BY <1>1, StartedFacts
<1>3. BoundaryTypeOK
  BY <1>2, BoundaryAssumption, MachineAssumption
  DEF BoundaryInit, BoundaryTypeOK, StartedWatchdog, DisarmedMachine, Machines, States,
      Settled
<1>4. Guard
  BY BoundaryAssumption DEF BoundaryInit, Guard, StartedWatchdog
<1>5. mux.left[Stop] \in Nat
  BY <1>2, <1>1, ConfigFacts DEF Muxes
<1>6. Quiet
  BY <1>1, <1>5, ConfigFacts DEF BoundaryInit, Quiet
<1>7. Heartbeat
  BY DEF BoundaryInit, Heartbeat, StartedWatchdog, DisarmedMachine
<1> QED
  BY <1>3, <1>4, <1>6, <1>7 DEF BoundaryInv

(* What every step needs to know of the types.                             *)
LEMMA TypeFacts ==
    ASSUME BoundaryTypeOK
    PROVE  /\ watchdog.wait \in 0..StopPeriod /\ watchdog.machine \in Machines
           /\ watchdog.running \in BOOLEAN /\ watchdog.everHeard \in BOOLEAN
           /\ mux \in Muxes /\ mux.config \in Configs /\ mux.left[Stop] \in Nat
           /\ \A age \in stops : age \in 0..MaxDelay
           /\ up \in Nat /\ silence \in Nat
           /\ StopPeriod \in Nat \ {0} /\ MaxDelay \in Nat /\ LongSilence \in Nat
           /\ Lease \in Nat
  BY BoundaryAssumption, MachineAssumption DEF BoundaryTypeOK, Muxes, Settled

(* A tick of the watchdog sends the stop that the guard was waiting for,   *)
(* and latches a heartbeat that is older than the lease.                   *)
LEMMA TickInv == BoundaryInv /\ WatchdogTicks => BoundaryInv'
<1> SUFFICES ASSUME BoundaryInv, WatchdogTicks PROVE BoundaryInv'
  OBVIOUS
<1> DEFINE w == Ticked(watchdog.machine, 0, FALSE, watchdog.everHeard)
<1>1. BoundaryTypeOK
  BY DEF BoundaryInv
<1>2. /\ watchdog' = [watchdog EXCEPT !.wait = StopPeriod, !.machine = w]
      /\ watchdog'.wait = StopPeriod /\ watchdog'.machine = w
      /\ watchdog'.running = watchdog.running
  BY <1>1 DEF WatchdogTicks, BoundaryTypeOK
<1>3. /\ w \in Machines /\ w.state # "ACTIVE"
      /\ w.last = watchdog.machine.last
      /\ w.state # "FAULT_LATCHED" /\ w.last # NoBeat => w.last.received >= -Lease
  BY <1>1, TypeFacts, TickedFacts DEF BoundaryTypeOK
<1> HIDE DEF w
<1>4. BoundaryTypeOK'
  <2>1. watchdog' \in [running : BOOLEAN, wait : 0..StopPeriod, everHeard : BOOLEAN,
                       machine : Machines]
    <3>1. StopPeriod \in 0..StopPeriod
      BY <1>1, TypeFacts
    <3> QED
      BY <1>1, <1>2, <1>3, <3>1 DEF BoundaryTypeOK
  <2>2. stops' \subseteq 0..MaxDelay
    BY <1>1, TypeFacts DEF BoundaryTypeOK, WatchdogTicks
  <2> QED
    BY <1>1, <1>2, <1>3, <2>1, <2>2 DEF BoundaryTypeOK, WatchdogTicks
<1>5. Guard'
  BY <1>1, <1>2, TypeFacts DEF BoundaryInv, Guard, Guarded, WatchdogTicks
<1>6. Quiet'
  BY DEF BoundaryInv, Quiet, WatchdogTicks
<1>7. Heartbeat'
  BY <1>1, <1>2, <1>3, TypeFacts DEF Heartbeat
<1> QED
  BY <1>4, <1>5, <1>6, <1>7 DEF BoundaryInv

(* A heartbeat that arrives is stamped with the present.                   *)
LEMMA BeatInv ==
    ASSUME BoundaryInv, NEW beat \in beats, BeatArrives(beat)
    PROVE  BoundaryInv'
<1> DEFINE b == [seq |-> beat.seq, stage |-> beat.stage, hash |-> beat.hash,
                 received |-> 0, permit |-> FALSE]
           w == Observed(watchdog.machine, b)
<1>1. BoundaryTypeOK
  BY DEF BoundaryInv
<1>2. /\ watchdog' = [watchdog EXCEPT !.everHeard = TRUE, !.machine = w]
      /\ watchdog'.wait = watchdog.wait /\ watchdog'.machine = w
      /\ watchdog'.running = watchdog.running
  BY <1>1 DEF BeatArrives, BoundaryTypeOK
<1>3. b \in Beats /\ b.received = 0
  BY <1>1, BoundaryAssumption DEF BoundaryTypeOK, Beats
<1>4. /\ w \in Machines /\ w.state # "ACTIVE"
      /\ w.state # "FAULT_LATCHED" => w.last = b
  BY <1>1, <1>3, TypeFacts, ObservedFacts DEF BoundaryTypeOK
<1>5. BoundaryTypeOK'
  BY <1>1, <1>2, <1>4 DEF BoundaryTypeOK, BeatArrives
<1>6. Guard' /\ Quiet'
  BY <1>2 DEF BoundaryInv, Guard, Guarded, Quiet, BeatArrives
<1>7. Heartbeat'
  BY <1>1, <1>2, <1>3, <1>4, TypeFacts DEF Heartbeat
<1> QED
  BY <1>5, <1>6, <1>7 DEF BoundaryInv

(* Steps of the supervisor and its heartbeats that the watchdog and the    *)
(* multiplexer do not see.                                                 *)
LEMMA SupervisorInv ==
    ASSUME BoundaryInv,
           \/ \E beat \in beats : BeatIsLost(beat)
           \/ \E published \in BOOLEAN : SupervisorTicks(published)
           \/ SupervisorRestarts
    PROVE  BoundaryInv'
<1>1. UNCHANGED <<watchdog, mux, stops, up, silence>>
  BY DEF BeatIsLost, SupervisorTicks, SupervisorRestarts
<1>2. BoundaryTypeOK'
  BY <1>1, BoundaryAssumption
  DEF BoundaryInv, BoundaryTypeOK, BeatIsLost, SupervisorTicks, SupervisorRestarts
<1> QED
  BY <1>1, <1>2 DEF BoundaryInv, Guard, Guarded, Quiet, Heartbeat

(* The multiplexer alone moves.                                            *)
LEMMA StopArrivesInv ==
    ASSUME BoundaryInv, NEW age \in stops, StopArrives(age)
    PROVE  BoundaryInv'
<1>1. BoundaryTypeOK
  BY DEF BoundaryInv
<1>2. /\ mux' \in Muxes /\ mux'.allowed = Stop
      /\ mux'.left[Stop] = mux.config[Stop].timeout
  BY <1>1, TypeFacts, StopIsHeard DEF StopArrives
<1>3. mux'.left[Stop] > StopPeriod + MaxDelay /\ mux.config \in Configs
  BY <1>1, <1>2, TypeFacts, ConfigFacts
<1>4. BoundaryTypeOK'
  BY <1>1, <1>2, TypeFacts DEF BoundaryTypeOK, StopArrives
<1>5. Guard'
  <2>1. UNCHANGED <<watchdog, up>>
    BY DEF StopArrives
  <2>2. mux'.left[Stop] > watchdog.wait + MaxDelay
    BY <1>1, <1>2, <1>3, TypeFacts, ConfigFacts
  <2> QED
    BY <1>2, <2>1, <2>2 DEF BoundaryInv, Guard, Guarded
<1>6. Quiet'
  BY <1>1, <1>2, <1>3, TypeFacts, ConfigFacts DEF Quiet, StopArrives
<1> QED
  BY <1>4, <1>5, <1>6 DEF BoundaryInv, Heartbeat, StopArrives

LEMMA CommandInv ==
    ASSUME BoundaryInv, NEW s \in {Teleop, Supervisor}, CommandArrives(s)
    PROVE  BoundaryInv'
<1>1. BoundaryTypeOK
  BY DEF BoundaryInv
<1>2. s \in Sources \ {Stop}
  BY BoundaryAssumption DEF Stop, Teleop, Supervisor
<1>3. /\ mux' \in Muxes /\ mux'.left[Stop] = mux.left[Stop]
      /\ mux.allowed = Stop <=> mux'.allowed = Stop
  BY <1>1, <1>2, TypeFacts, OtherIsHeard DEF CommandArrives
<1> QED
  BY <1>1, <1>3
  DEF BoundaryInv, BoundaryTypeOK, Guard, Guarded, Quiet, Heartbeat, CommandArrives

(* A timer of the stop that had run out was not guarded, and the silence   *)
(* has then lasted a timeout.                                              *)
LEMMA MuxTimerInv ==
    ASSUME BoundaryInv, NEW s \in Sources, MuxTimer(s)
    PROVE  BoundaryInv'
<1>1. BoundaryTypeOK
  BY DEF BoundaryInv
<1>2. /\ mux' \in Muxes /\ mux'.left[Stop] = mux.left[Stop]
      /\ s # Stop /\ mux.allowed = Stop => mux'.allowed = Stop
      /\ mux.allowed # Stop => mux'.allowed # Stop
      /\ mux.left[s] = 0
  BY <1>1, TypeFacts, TimerFacts DEF MuxTimer
<1>3. BoundaryTypeOK'
  BY <1>1, <1>2 DEF BoundaryTypeOK, MuxTimer
<1>4. Guard'
  <2>1. UNCHANGED <<watchdog, up, stops>>
    BY DEF MuxTimer
  <2>2. Guarded => Guarded'
    BY <1>1, <1>2, <2>1, TypeFacts DEF Guarded
  <2> QED
    BY <2>1, <2>2 DEF BoundaryInv, Guard
<1>5. Quiet'
  BY <1>1, <1>2, TypeFacts DEF BoundaryInv, Quiet, MuxTimer
<1> QED
  BY <1>3, <1>4, <1>5 DEF BoundaryInv, Heartbeat, MuxTimer

LEMMA ParametersInv ==
    ASSUME BoundaryInv, NEW c \in Configs, MuxParameters(c)
    PROVE  BoundaryInv'
<1>1. BoundaryTypeOK
  BY DEF BoundaryInv
<1>2. /\ mux' \in Muxes /\ mux'.allowed = mux.allowed
      /\ mux'.left[Stop] \in {mux.left[Stop], c[Stop].timeout}
  BY <1>1, TypeFacts, ReconfiguredFacts DEF MuxParameters
<1>3. BoundaryTypeOK'
  BY <1>1, <1>2 DEF BoundaryTypeOK, MuxParameters
<1>4. Guard'
  <2>1. UNCHANGED <<watchdog, up, stops>>
    BY DEF MuxParameters
  <2>2. c[Stop].timeout > watchdog.wait + MaxDelay
    BY <1>1, TypeFacts, ConfigFacts
  <2>3. Guarded => Guarded'
    BY <1>2, <2>1, <2>2 DEF Guarded
  <2> QED
    BY <2>1, <2>3 DEF BoundaryInv, Guard
<1>5. Quiet'
  <2>1. silence + c[Stop].timeout >= c[Stop].timeout
    BY <1>1, TypeFacts, ConfigFacts
  <2> QED
    BY <1>2, <2>1 DEF BoundaryInv, Quiet, MuxParameters
<1> QED
  BY <1>3, <1>4, <1>5 DEF BoundaryInv, Heartbeat, MuxParameters

(* Crashes and restarts: whoever starts anew starts the race anew.         *)
LEMMA CrashInv ==
    ASSUME BoundaryInv, WatchdogCrashes
    PROVE  BoundaryInv'
<1>1. BoundaryTypeOK /\ watchdog'.running = FALSE
  BY DEF BoundaryInv, BoundaryTypeOK, WatchdogCrashes
<1>2. BoundaryTypeOK'
  <2>1. 0 \in 0..Settled
    BY BoundaryAssumption DEF Settled
  <2>2. watchdog' \in [running : BOOLEAN, wait : 0..StopPeriod, everHeard : BOOLEAN,
                       machine : Machines]
        /\ watchdog'.machine = watchdog.machine
    BY <1>1 DEF BoundaryTypeOK, WatchdogCrashes
  <2> QED
    BY <1>1, <2>1, <2>2 DEF BoundaryTypeOK, WatchdogCrashes
<1> QED
  BY <1>1, <1>2 DEF BoundaryInv, Guard, Quiet, Heartbeat, WatchdogCrashes

LEMMA StartInv ==
    ASSUME BoundaryInv, WatchdogStarts
    PROVE  BoundaryInv'
<1>1. BoundaryTypeOK /\ up = 0
  BY DEF BoundaryInv, Guard, WatchdogStarts
<1>2. BoundaryTypeOK'
  BY <1>1, BoundaryAssumption
  DEF BoundaryTypeOK, WatchdogStarts, StartedWatchdog, DisarmedMachine, Machines, States
<1>3. Guard'
  BY <1>1, BoundaryAssumption DEF Guard, WatchdogStarts, StartedWatchdog
<1>4. Heartbeat'
  BY DEF Heartbeat, WatchdogStarts, StartedWatchdog, DisarmedMachine
<1> QED
  BY <1>2, <1>3, <1>4 DEF BoundaryInv, Quiet, WatchdogStarts

LEMMA MuxRestartInv ==
    ASSUME BoundaryInv, NEW c \in Configs, MuxRestarts(c)
    PROVE  BoundaryInv'
<1>1. BoundaryTypeOK
  BY DEF BoundaryInv
<1>2. mux' \in Muxes /\ mux'.left[Stop] \in Nat
  BY StartedFacts, ConfigFacts DEF MuxRestarts, Muxes
<1>3. BoundaryTypeOK'
  BY <1>1, <1>2, BoundaryAssumption DEF BoundaryTypeOK, MuxRestarts, Settled
<1>4. Guard'
  BY <1>1, TypeFacts DEF Guard, MuxRestarts
<1>5. Quiet'
  BY <1>2, ConfigFacts DEF Quiet, MuxRestarts
<1> QED
  BY <1>3, <1>4, <1>5 DEF BoundaryInv, Heartbeat, MuxRestarts

(* Time: both clocks of the race advance by one.                           *)
LEMMA TimeInv ==
    ASSUME BoundaryInv, TimePasses
    PROVE  BoundaryInv'
<1>1. BoundaryTypeOK
  BY DEF BoundaryInv
<1>2. /\ mux' \in Muxes /\ mux'.allowed = mux.allowed
      /\ mux'.left[Stop] = IF mux.left[Stop] > 0 THEN mux.left[Stop] - 1 ELSE 0
  BY <1>1, TypeFacts, ElapsedFacts DEF TimePasses
<1>3. /\ watchdog'.running = watchdog.running
      /\ watchdog.running => watchdog.wait > 0 /\ watchdog'.wait = watchdog.wait - 1
  BY <1>1 DEF TimePasses, BoundaryTypeOK
<1>4. \A age \in stops : age < MaxDelay /\ age + 1 \in stops'
  BY DEF TimePasses
<1> DEFINE m == watchdog.machine
<1>5. /\ Older(m) \in Machines
      /\ Older(m).state = m.state
      /\ Older(m).last # NoBeat /\ m.last.received >= -(Lease + StopPeriod) =>
            m.last # NoBeat /\ Older(m).last.received = m.last.received - 1
  BY <1>1, TypeFacts, OlderFacts
<1>6. /\ watchdog.running =>
            watchdog' = [watchdog EXCEPT !.wait = @ - 1, !.machine = Older(m)]
      /\ ~watchdog.running => watchdog' = watchdog
  BY DEF TimePasses
<1>7. BoundaryTypeOK'
  <2>1. watchdog' \in [running : BOOLEAN, wait : 0..StopPeriod, everHeard : BOOLEAN,
                       machine : Machines]
    <3>1. watchdog.running => watchdog.wait - 1 \in 0..StopPeriod
      BY <1>1, <1>3, TypeFacts
    <3> QED
      BY <1>1, <1>5, <1>6, <3>1 DEF BoundaryTypeOK
  <2>2. stops' \subseteq 0..MaxDelay
    BY <1>1, TypeFacts DEF TimePasses
  <2>3. up' \in 0..Settled /\ silence' \in 0..LongSilence
    BY <1>1, BoundaryAssumption DEF TimePasses, Later, BoundaryTypeOK, Settled
  <2>4. watchdog'.machine.state # "ACTIVE"
    BY <1>1, <1>5, <1>6 DEF BoundaryTypeOK
  <2> QED
    BY <1>1, <1>2, <2>1, <2>2, <2>3, <2>4 DEF BoundaryTypeOK, TimePasses
<1>8. Guard'
  <2>1. /\ ~watchdog.running => up' = 0
        /\ up' \in Nat /\ up' <= up + 1
    BY <1>1, TypeFacts, BoundaryAssumption DEF TimePasses, Later, Settled
  <2>2. ASSUME watchdog.running, Guarded PROVE Guarded'
    <3>1. CASE mux.left[Stop] > watchdog.wait + MaxDelay
      BY <1>1, <1>2, <1>3, <2>2, <3>1, TypeFacts DEF Guarded
    <3>2. ASSUME NEW age \in stops, mux.left[Stop] > MaxDelay - age PROVE Guarded'
      <4>1. mux'.left[Stop] > MaxDelay - (age + 1)
        BY <1>1, <1>2, <1>4, <3>2, TypeFacts
      <4> QED
        BY <1>2, <1>4, <2>2, <4>1 DEF Guarded
    <3> QED
      BY <2>2, <3>1, <3>2 DEF Guarded
  <2>3. ASSUME watchdog.running, up + watchdog.wait <= StopPeriod
        PROVE  up' + watchdog'.wait <= StopPeriod
    BY <1>1, <1>3, <2>1, <2>3, TypeFacts
  <2>4. ASSUME NEW age \in stops, up <= StopPeriod + age
        PROVE  \E a \in stops' : up' <= StopPeriod + a
    <3>1. up' <= StopPeriod + (age + 1)
      BY <1>1, <2>1, <2>4, TypeFacts
    <3> QED
      BY <1>4, <3>1
  <2> QED
    BY <1>3, <2>1, <2>2, <2>3, <2>4 DEF BoundaryInv, Guard
<1>9. Quiet'
  <2>1. silence' \in {silence + 1, LongSilence}
    BY DEF TimePasses, Later
  <2>2. ASSUME NEW c \in Configs, silence + mux.left[Stop] >= c[Stop].timeout
        PROVE  silence' + mux'.left[Stop] >= c[Stop].timeout
    BY <1>1, <1>2, <2>1, <2>2, TypeFacts, ConfigFacts
  <2>3. ASSUME NEW c \in Configs, silence >= c[Stop].timeout
        PROVE  silence' >= c[Stop].timeout
    BY <1>1, <2>1, <2>3, TypeFacts, ConfigFacts
  <2> QED
    BY <1>2, <2>2, <2>3 DEF BoundaryInv, Quiet
<1>10. Heartbeat'
  <2> SUFFICES ASSUME watchdog'.running,
                      watchdog'.machine.state # "FAULT_LATCHED",
                      watchdog'.machine.last # NoBeat
               PROVE  watchdog'.machine.last.received
                         >= -(Lease + StopPeriod - watchdog'.wait)
    BY DEF Heartbeat
  <2>1. /\ watchdog.running /\ watchdog'.machine = Older(m)
        /\ watchdog'.wait = watchdog.wait - 1
    BY <1>1, <1>3, <1>6 DEF BoundaryTypeOK
  <2>2. m.last # NoBeat
    BY <2>1 DEF Older
  <2>3. /\ m.last.received >= -(Lease + StopPeriod - watchdog.wait)
        /\ m.last.received \in Int
    BY <1>1, <1>5, <2>1, <2>2, TypeFacts DEF BoundaryInv, Heartbeat, Machines, Beats
  <2> QED
    BY <1>1, <1>5, <2>1, <2>3, TypeFacts
<1> QED
  BY <1>7, <1>8, <1>9, <1>10 DEF BoundaryInv

-----------------------------------------------------------------------------
LEMMA BoundaryStep == BoundaryInv /\ [BoundaryNext]_boundaryVars => BoundaryInv'
<1> SUFFICES ASSUME BoundaryInv, [BoundaryNext]_boundaryVars PROVE BoundaryInv'
  OBVIOUS
<1>1. CASE WatchdogTicks
  BY <1>1, TickInv
<1>2. CASE \E beat \in beats : BeatArrives(beat)
  BY <1>2, BeatInv
<1>3. CASE \/ \E beat \in beats : BeatIsLost(beat)
           \/ \E published \in BOOLEAN : SupervisorTicks(published)
           \/ SupervisorRestarts
  BY <1>3, SupervisorInv
<1>4. CASE \E age \in stops : StopArrives(age)
  BY <1>4, StopArrivesInv
<1>5. CASE \E source \in {Teleop, Supervisor} : CommandArrives(source)
  BY <1>5, CommandInv
<1>6. CASE \E source \in Sources : MuxTimer(source)
  BY <1>6, MuxTimerInv
<1>7. CASE \E c \in Configs : MuxParameters(c) \/ MuxRestarts(c)
  BY <1>7, ParametersInv, MuxRestartInv
<1>8. CASE WatchdogCrashes \/ WatchdogStarts
  BY <1>8, CrashInv, StartInv
<1>9. CASE TimePasses
  BY <1>9, TimeInv
<1>10. CASE UNCHANGED boundaryVars
  BY <1>10
  DEF boundaryVars, BoundaryInv, BoundaryTypeOK, Guard, Guarded, Quiet, Heartbeat
<1> QED
  BY <1>1, <1>2, <1>3, <1>4, <1>5, <1>6, <1>7, <1>8, <1>9, <1>10 DEF BoundaryNext

(* The guard of the race between stops and timers, and the watch over the  *)
(* heartbeats, hold in every state (nodes of hsl_safety and cmd_vel_mux).  *)
THEOREM BoundaryInvariant == BoundarySpec => []BoundaryInv
  BY BoundaryInitInv, BoundaryStep, PTL DEF BoundarySpec

(* Every variable of the boundary keeps its type, no stop is older than    *)
(* the delay, and the watchdog of R2 (_on_tick) never becomes active.      *)
THEOREM BoundaryTypeCorrect == BoundarySpec => []BoundaryTypeOK
<1>1. BoundaryInv => BoundaryTypeOK
  BY DEF BoundaryInv
<1> QED
  BY <1>1, BoundaryInvariant, PTL

(* The stop of the watchdog (_on_tick) blocks every other input of the     *)
(* multiplexer (cmdVelCallback) once both have run for a period and the    *)
(* delay, for all configurations in which its priority is the highest and  *)
(* its timeout is longer than that.                                        *)
THEOREM StopCorrect == BoundarySpec => []StopDominates
<1>1. BoundaryInv => StopDominates
  <2> SUFFICES ASSUME BoundaryInv, watchdog.running, up = Settled,
                      NEW s \in Sources \ {Stop}
               PROVE  ~Passes(mux, s)
    BY DEF StopDominates
  <2>1. BoundaryTypeOK
    BY DEF BoundaryInv
  <2>2. mux.allowed = Stop
    BY <2>1, TypeFacts DEF BoundaryInv, Guard, Guarded, Settled
  <2> QED
    BY <2>1, <2>2, TypeFacts, StopBlocks
<1> QED
  BY <1>1, BoundaryInvariant, PTL

(* No other input passes before the multiplexer (timerCallback) has missed *)
(* the stop for a whole timeout of some configuration.                     *)
THEOREM SilenceFirst == BoundarySpec => []MotionNeedsSilence
<1>1. BoundaryInv => MotionNeedsSilence
  <2> SUFFICES ASSUME BoundaryInv, NEW s \in Sources \ {Stop}, Passes(mux, s)
               PROVE  \E c \in Configs : silence >= c[Stop].timeout
    BY DEF MotionNeedsSilence
  <2>1. mux.allowed # Stop
    BY TypeFacts, StopBlocks DEF BoundaryInv
  <2> QED
    BY <2>1 DEF BoundaryInv, Quiet
<1> QED
  BY <1>1, BoundaryInvariant, PTL

(* A supervisor that has been silent for the lease and one period has been *)
(* found out by the watchdog (tick), for every lease and period.           *)
THEOREM SilenceCorrect == BoundarySpec => []SilenceIsNoticed
<1>1. BoundaryInv => SilenceIsNoticed
  <2> SUFFICES ASSUME BoundaryInv, watchdog.running,
                      watchdog.machine.state # "FAULT_LATCHED",
                      watchdog.machine.last # NoBeat
               PROVE  watchdog.machine.last.received >= -(Lease + StopPeriod)
    BY DEF SilenceIsNoticed
  <2>1. watchdog.machine.last.received \in Int
    BY TypeFacts DEF BoundaryInv, Machines, Beats
  <2>2. watchdog.machine.last.received >= -(Lease + StopPeriod - watchdog.wait)
    BY DEF BoundaryInv, Heartbeat
  <2> QED
    BY <2>1, <2>2, TypeFacts DEF BoundaryInv
<1> QED
  BY <1>1, BoundaryInvariant, PTL

(* While the watchdog runs, no message, no restart of another process and  *)
(* no passage of time clears its latched fault (_latch).                   *)
THEOREM FaultStays == BoundarySpec => FaultOutlivesRestart
<1> DEFINE Kept ==
       watchdog.running /\ watchdog.machine.state = "FAULT_LATCHED" =>
          ~watchdog'.running \/ watchdog'.machine.state = "FAULT_LATCHED"
<1>1. BoundaryInv /\ [BoundaryNext]_boundaryVars => Kept
  <2> SUFFICES ASSUME BoundaryInv, [BoundaryNext]_boundaryVars, watchdog.running,
                      watchdog.machine.state = "FAULT_LATCHED"
               PROVE  ~watchdog'.running \/ watchdog'.machine.state = "FAULT_LATCHED"
    OBVIOUS
  <2>1. BoundaryTypeOK
    BY DEF BoundaryInv
  <2>2. CASE WatchdogTicks
    BY <2>1, <2>2, TypeFacts, TickedFacts DEF WatchdogTicks, BoundaryTypeOK
  <2>3. ASSUME NEW beat \in beats, BeatArrives(beat)
        PROVE  watchdog'.machine.state = "FAULT_LATCHED"
    <3> DEFINE b == [seq |-> beat.seq, stage |-> beat.stage, hash |-> beat.hash,
                     received |-> 0, permit |-> FALSE]
    <3>1. b \in Beats
      BY <2>1, BoundaryAssumption DEF BoundaryTypeOK, Beats
    <3> QED
      BY <2>1, <2>3, <3>1, TypeFacts, ObservedFacts DEF BeatArrives, BoundaryTypeOK
  <2>4. CASE TimePasses
    BY <2>1, <2>4, TypeFacts, OlderFacts DEF TimePasses, BoundaryTypeOK
  <2>5. CASE WatchdogCrashes
    BY <2>1, <2>5 DEF WatchdogCrashes, BoundaryTypeOK
  <2>6. CASE UNCHANGED watchdog
    BY <2>6
  <2> QED
    BY <2>2, <2>3, <2>4, <2>5, <2>6
    DEF BoundaryNext, boundaryVars, BeatIsLost, SupervisorTicks, StopArrives,
        CommandArrives, MuxTimer, MuxParameters, WatchdogStarts, SupervisorRestarts,
        MuxRestarts
<1> QED
  BY <1>1, BoundaryInvariant, PTL DEF BoundarySpec, FaultOutlivesRestart

=============================================================================
