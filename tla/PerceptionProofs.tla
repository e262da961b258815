-------------------------- MODULE PerceptionProofs --------------------------
(***************************************************************************)
(* Theorems about BoundedWorker, for any timeout and any number of         *)
(* requests, whatever hangs and whoever submits, invalidates and closes,   *)
(* about Occupancy, for any grid, any evidence and any batches, about      *)
(* LocalMap, for any cloud, any grid and any corridor, about SweptContact, *)
(* for any bodies, any walls and any steps, and about SimPerception, for   *)
(* any scenes and any sights.                                              *)
(*                                                                         *)
(* InFlight is why resources stay bounded: a future that is not done is    *)
(* the one of the item.  Overdue is why a timeout is final although poll   *)
(* reads the clock before it takes the lock: once a request was reported   *)
(* as timed out, the reading of every later poll is past its deadline.     *)
(*                                                                         *)
(* FadeInv is why a moving thing fades although every decay starts from    *)
(* what earlier decays left: a cell a long decay has cleared gets evidence *)
(* only from a return, and a return moves the time it is reckoned from.    *)
(*                                                                         *)
(* Drawn is what the loop over the returns keeps true: occupied is exactly *)
(* what was hit so far, and free is only what a ray crossed before it met  *)
(* a cell hit so far.  The returns of the map are each valid one of the    *)
(* cloud, the nearest first, because their ranks are all different.        *)
(*                                                                         *)
(* Moved is why comparing the ends of two lines, and whether they cross,   *)
(* is enough: from any two near positions one can move along both lines    *)
(* without moving apart, until an end of one is met or the lines cross.    *)
(*                                                                         *)
(* Grouped is what the loop over the beams keeps true: groups are in order *)
(* and too far from each other to be of one body.                          *)
(***************************************************************************)
EXTENDS BoundedWorker, Occupancy, LocalMap, SweptContact, SimPerception,
        FiniteSetTheorems, SequenceTheorems, FunctionTheorems,
        WellFoundedInduction, TLAPS

NotYet ==
    \A r \in Requests : r >= nextId => task[r] = "NONE" /\ answers[r] = {}

InFlight == \A r \in Requests : task[r] \in Unfinished => item.id = r

Overdue ==
    /\ reading.tick <= tick
    /\ \A r \in Requests :
          item.id = r /\ "TIMEOUT" \in answers[r] =>
              /\ item.deadline <= tick
              /\ reading # NoReading => item.deadline <= reading.tick

WorkerInv == WorkerTypeOK /\ NotYet /\ InFlight /\ Overdue /\ AnswersAreFinal

LEMMA Numbers ==
    ASSUME WorkerTypeOK
    PROVE  /\ LastRequest \in Nat /\ nextId \in Nat /\ tick \in Nat
           /\ item.id \in Nat /\ item.deadline \in Nat
           /\ item.id > 0 <=> item # NoItem
           /\ item.id \in Requests => item.id = nextId - 1
           /\ Requests \subseteq Nat \ {0}
           /\ reading.tick \in Int /\ NoReading.tick = -1
<1>1. LastRequest \in Nat /\ LastTick \in Nat
  BY WorkerAssumption
<1>2. /\ nextId \in Nat /\ tick \in Nat
      /\ reading.tick \in Int /\ NoReading.tick = -1
      /\ Requests \subseteq Nat \ {0}
      /\ \A r \in Requests : r \in Nat /\ r > 0
  BY <1>1 DEF WorkerTypeOK, NoReading, Requests
<1>3. NoItem.id = 0 /\ NoItem.deadline = 0
  BY DEF NoItem
<1>4. item = NoItem \/ (item.id \in Requests /\ item.deadline \in Nat)
  BY DEF WorkerTypeOK
<1>5. item.id \in Nat /\ item.deadline \in Nat /\ (item.id > 0 <=> item # NoItem)
  <2>1. CASE item = NoItem
    BY <1>3, <2>1
  <2>2. CASE item.id \in Requests /\ item.deadline \in Nat
    <3>1. item.id \in Nat /\ item.id > 0
      BY <1>2, <2>2
    <3>2. item # NoItem
      BY <1>3, <3>1
    <3> QED
      BY <2>2, <3>1, <3>2
  <2> QED
    BY <1>4, <2>1, <2>2
<1>6. item.id \in Requests => item.id = nextId - 1
  BY <1>2, <1>3 DEF WorkerTypeOK
<1> QED
  BY <1>1, <1>2, <1>5, <1>6

LEMMA WorkerInitInv == WorkerInit => WorkerInv
<1> SUFFICES ASSUME WorkerInit PROVE WorkerInv
  OBVIOUS
<1>1. {LastRequest, LastTick, LastVersion, LastWork} \subseteq Nat
  BY WorkerAssumption
<1>2. /\ nextId \in 1..(LastRequest + 1) /\ generation \in 0..LastWork
      /\ tick \in 0..LastTick /\ versions \in 0..LastVersion
  BY <1>1 DEF WorkerInit
<1>3. /\ task \in [Requests -> {"NONE", "RETURNED", "RAISED", "CANCELLED"} \cup Unfinished]
      /\ answers \in [Requests -> SUBSET (Delivered \cup {"DISCARDED", "TIMEOUT"})]
  BY DEF WorkerInit
<1>4. WorkerTypeOK
  BY <1>2, <1>3 DEF WorkerInit, WorkerTypeOK
<1>5. Overdue
  BY DEF WorkerInit, Overdue, NoReading
<1> QED
  BY <1>4, <1>5
  DEF WorkerInit, WorkerInv, NotYet, InFlight, AnswersAreFinal, Unfinished, Delivered

LEMMA SubmitInv == WorkerInv /\ Submit => WorkerInv'
<1> SUFFICES ASSUME WorkerInv, Submit PROVE WorkerInv'
  OBVIOUS
<1>1. nextId \in Requests /\ nextId + 1 \in 1..(LastRequest + 1) /\ tick + Timeout \in Nat
  <2>1. nextId \in 1..(LastRequest + 1) /\ nextId <= LastRequest /\ LastRequest \in Nat
    BY Numbers DEF WorkerInv, WorkerTypeOK, Submit
  <2>2. tick \in Nat /\ Timeout \in Nat
    BY Numbers, WorkerAssumption DEF WorkerInv
  <2> QED
    BY <2>1, <2>2 DEF Requests
<1>2. item'.id = nextId /\ item' # NoItem
  BY <1>1, Numbers DEF Submit, NoItem, WorkerInv
<1>3. answers[nextId] = {}
  BY <1>1, Numbers DEF WorkerInv, NotYet
<1>4. \A r \in Requests : task[r] \notin Unfinished
  <2> SUFFICES ASSUME NEW r \in Requests, task[r] \in Unfinished PROVE FALSE
    OBVIOUS
  <2>1. item.id = r /\ item # NoItem
    BY Numbers DEF WorkerInv, InFlight
  <2> QED
    BY <2>1 DEF Submit, Free, Done
<1>5. WorkerTypeOK'
  <2>1. item' \in [id : Requests, deadline : Nat,
                   versions : 0..LastVersion, generation : 0..LastWork]
    BY <1>1 DEF Submit, WorkerInv, WorkerTypeOK
  <2>2. item'.id = nextId' - 1
    BY <1>2, Numbers DEF Submit, FreshId, WorkerInv
  <2> QED
    BY <1>1, <2>1, <2>2 DEF Submit, FreshId, WorkerInv, WorkerTypeOK, Unfinished
<1>6. NotYet'
  BY <1>1, Numbers DEF Submit, FreshId, WorkerInv, WorkerTypeOK, NotYet
<1>7. InFlight'
  BY <1>2, <1>4 DEF Submit, WorkerInv, WorkerTypeOK, InFlight
<1>8. Overdue' /\ AnswersAreFinal'
  BY <1>2, <1>3 DEF Submit, WorkerInv, Overdue, AnswersAreFinal
<1> QED
  BY <1>5, <1>6, <1>7, <1>8 DEF WorkerInv

LEMMA EndPollInv == WorkerInv /\ EndPoll => WorkerInv'
<1> SUFFICES ASSUME WorkerInv, EndPoll PROVE WorkerInv'
  OBVIOUS
<1>1. reading # NoReading /\ reading' = NoReading
      /\ UNCHANGED <<task, nextId, generation, closed, tick, versions>>
  BY DEF EndPoll
<1>2. CASE item = NoItem
  <2>1. Overdue'
    BY <1>1, <1>2, Numbers DEF EndPoll, WorkerInv, Overdue
  <2> QED
    BY <1>1, <1>2, <2>1
    DEF EndPoll, WorkerInv, WorkerTypeOK, NotYet, InFlight, AnswersAreFinal, Done
<1>3. CASE item # NoItem
  <2> DEFINE i == item.id
  <2>1. /\ i \in Requests /\ i < nextId
        /\ item' = Kept
        /\ answers' = [answers EXCEPT ![i] = @ \cup ({Status} \ {"NONE"})]
    BY <1>3, Numbers DEF EndPoll, WorkerInv, WorkerTypeOK
  <2>2. /\ Status \in {"COMPLETED", "FAILED", "DISCARDED", "TIMEOUT", "NONE"}
        /\ Status \in Delivered => Done(i) /\ ~(reading.tick >= item.deadline)
        /\ Status = "TIMEOUT" => reading.tick >= item.deadline
    BY DEF Status, Delivered
  <2>3. answers[i] \cap Delivered = {}
    BY <2>1 DEF WorkerInv, AnswersAreFinal
  <2>4. Kept \in {item, NoItem} /\ Kept = (IF Done(i) THEN NoItem ELSE item)
    BY DEF Kept
  <2>5. NoItem.id \notin Requests
    BY Numbers DEF NoItem, WorkerInv
  <2>6. WorkerTypeOK'
    <3>1. answers' \in [Requests -> SUBSET (Delivered \cup {"DISCARDED", "TIMEOUT"})]
      BY <2>1, <2>2 DEF WorkerInv, WorkerTypeOK, Delivered
    <3> QED
      BY <1>1, <2>1, <2>4, <3>1 DEF WorkerInv, WorkerTypeOK
  <2>7. NotYet'
    BY <1>1, <2>1, Numbers DEF WorkerInv, WorkerTypeOK, NotYet
  <2>8. InFlight'
    BY <1>1, <2>1, <2>4 DEF WorkerInv, InFlight, Done
  <2>9. /\ reading.tick <= tick
        /\ reading.tick \in Nat
    BY <1>1 DEF WorkerInv, WorkerTypeOK, Overdue
  <2>10. Overdue'
    <3>1. reading'.tick <= tick'
      BY <1>1, Numbers DEF WorkerInv
    <3>2. ASSUME NEW r \in Requests, item'.id = r, "TIMEOUT" \in answers'[r]
          PROVE  item'.deadline <= tick'
      <4>1. item' = item /\ r = i
        BY <2>1, <2>4, <2>5, <3>2
      <4>2. "TIMEOUT" \in answers[i] \/ Status = "TIMEOUT"
        BY <2>1, <3>2, <4>1 DEF WorkerInv, WorkerTypeOK
      <4> QED
        BY <1>1, <2>1, <2>2, <2>9, <4>1, <4>2, Numbers DEF WorkerInv, Overdue
    <3> QED
      BY <1>1, <3>1, <3>2 DEF Overdue
  <2>11. AnswersAreFinal'
    <3> SUFFICES ASSUME NEW r \in Requests, answers'[r] \cap Delivered # {}
                 PROVE  /\ "TIMEOUT" \notin answers'[r]
                        /\ ~(Delivered \subseteq answers'[r])
                        /\ item'.id # r
      BY DEF AnswersAreFinal
    <3>1. CASE r # i
      BY <2>1, <2>4, <2>5, <3>1 DEF WorkerInv, WorkerTypeOK, AnswersAreFinal
    <3>2. CASE r = i
      <4>1. answers'[i] = answers[i] \cup ({Status} \ {"NONE"})
        BY <2>1 DEF WorkerInv, WorkerTypeOK
      <4>2. Status \in Delivered
        BY <2>2, <2>3, <3>2, <4>1
      <4>3. item'.id # i
        BY <2>1, <2>2, <2>4, <2>5, <4>2
      <4>4. "TIMEOUT" \notin answers[i]
        BY <1>1, <2>1, <2>2, <2>9, <4>2, Numbers DEF WorkerInv, Overdue
      <4> QED
        BY <2>3, <3>2, <4>1, <4>2, <4>3, <4>4 DEF Delivered
    <3> QED
      BY <3>1, <3>2
  <2> QED
    BY <2>6, <2>7, <2>8, <2>10, <2>11 DEF WorkerInv
<1> QED
  BY <1>2, <1>3

LEMMA WorkerNextInv == WorkerInv /\ [WorkerNext]_workerVars => WorkerInv'
<1> SUFFICES ASSUME WorkerInv, [WorkerNext]_workerVars PROVE WorkerInv'
  OBVIOUS
<1>1. CASE UNCHANGED workerVars
  BY <1>1 DEF workerVars, WorkerInv, WorkerTypeOK, NotYet, InFlight, Overdue, AnswersAreFinal
<1>2. CASE Invalidate
  <2>1. generation' \in 0..LastWork
    BY <1>2, WorkerAssumption DEF Invalidate, WorkerInv, WorkerTypeOK
  <2> QED
    BY <1>2, <2>1
    DEF Invalidate, WorkerInv, WorkerTypeOK, NotYet, InFlight, Overdue, AnswersAreFinal
<1>3. CASE Close
  BY <1>3
  DEF Close, WorkerInv, WorkerTypeOK, NotYet, InFlight, Overdue, AnswersAreFinal, Unfinished
<1>4. CASE BeginPoll
  <2>1. reading' \in [tick : 0..LastTick, versions : 0..LastVersion]
    BY <1>4 DEF BeginPoll, WorkerInv, WorkerTypeOK
  <2>2. reading'.tick = tick
    BY <1>4 DEF BeginPoll
  <2>3. Overdue'
    BY <1>4, <2>2, Numbers DEF BeginPoll, WorkerInv, Overdue
  <2> QED
    BY <1>4, <2>1, <2>3
    DEF BeginPoll, WorkerInv, WorkerTypeOK, NotYet, InFlight, Overdue, AnswersAreFinal
<1>5. ASSUME NEW r \in Requests, NEW from, NEW to \in {"RUNNING", "RETURNED", "RAISED"},
             from \in Unfinished, Run(r, from, to)
      PROVE  WorkerInv'
  <2>1. WorkerTypeOK'
    BY <1>5 DEF Run, WorkerInv, WorkerTypeOK, Unfinished
  <2>2. NotYet' /\ InFlight'
    BY <1>5 DEF Run, WorkerInv, WorkerTypeOK, NotYet, InFlight, Unfinished
  <2> QED
    BY <1>5, <2>1, <2>2 DEF Run, WorkerInv, Overdue, AnswersAreFinal
<1>6. CASE Thread
  BY <1>5, <1>6 DEF Thread, Unfinished
<1>7. CASE Tick
  <2>1. tick' \in 0..LastTick /\ tick <= tick'
    BY <1>7, WorkerAssumption DEF Tick, WorkerInv, WorkerTypeOK
  <2>2. Overdue'
    <3>1. /\ tick \in Int /\ tick' \in Int /\ reading.tick \in Int
          /\ item.deadline \in Int
          /\ UNCHANGED <<item, reading, answers>>
      BY <1>7, <2>1, Numbers DEF Tick, WorkerInv
    <3> QED
      BY <2>1, <3>1 DEF WorkerInv, Overdue
  <2> QED
    BY <1>7, <2>1, <2>2 DEF Tick, WorkerInv, WorkerTypeOK, NotYet, InFlight, AnswersAreFinal
<1>8. CASE NewVersions
  <2>1. versions' \in 0..LastVersion
    BY <1>8, WorkerAssumption DEF NewVersions, WorkerInv, WorkerTypeOK
  <2> QED
    BY <1>8, <2>1
    DEF NewVersions, WorkerInv, WorkerTypeOK, NotYet, InFlight, Overdue, AnswersAreFinal
<1> QED
  BY <1>1, <1>2, <1>3, <1>4, <1>6, <1>7, <1>8, SubmitInv, EndPollInv DEF WorkerNext

LEMMA WorkerInvariance == WorkerSpec => []WorkerInv
  BY WorkerInitInv, WorkerNextInv, PTL DEF WorkerSpec

-----------------------------------------------------------------------------
(* The type invariant; what is in flight is the request issued last.       *)
THEOREM WorkerTypeCorrect == WorkerSpec => []WorkerTypeOK
<1>1. WorkerInv => WorkerTypeOK
  BY DEF WorkerInv
<1> QED
  BY <1>1, WorkerInvariance, PTL

(* The executor never holds two tasks that are not done.                   *)
THEOREM OneTask == WorkerSpec => []OneTaskAtATime
<1>1. WorkerInv => OneTaskAtATime
  BY DEF WorkerInv, InFlight, OneTaskAtATime
<1> QED
  BY <1>1, WorkerInvariance, PTL

(* What was reported as timed out is never delivered, and what is          *)
(* delivered is delivered once.                                            *)
THEOREM FinalAnswers == WorkerSpec => []AnswersAreFinal
<1>1. WorkerInv => AnswersAreFinal
  BY DEF WorkerInv
<1> QED
  BY <1>1, WorkerInvariance, PTL

-----------------------------------------------------------------------------
(* Numbers.                                                                *)

(* Induction over the numbers, by the least counterexample.                *)
LEMMA LeastNumber ==
    ASSUME NEW T \in SUBSET Nat, T # {}
    PROVE  \E x \in T : \A y \in T : x <= y
<1>1. PICK x \in T : \A y \in T : ~(<<y, x>> \in OpToRel(<, Nat))
  BY NatLessThanWellFounded, WFMin
<1>2. \A y \in T : ~(y < x)
  BY <1>1 DEF OpToRel
<1>3. \A y \in T : y \in Nat
  OBVIOUS
<1> QED
  BY <1>2, <1>3

(* The same from above, for sets with a bound.                             *)
LEMMA GreatestNumber ==
    ASSUME NEW limit \in Nat, NEW T \in SUBSET (0..limit), T # {}
    PROVE  \E x \in T : \A y \in T : y <= x
<1> DEFINE S == {limit - y : y \in T}
<1>1. \A y \in T : y \in 0..limit
  OBVIOUS
<1>2. S \in SUBSET Nat /\ S # {}
  <2>1. \A y \in T : limit - y \in Nat
    BY <1>1
  <2> QED
    BY <2>1
<1>3. PICK z \in S : \A y \in S : z <= y
  BY <1>2, LeastNumber
<1>4. PICK x \in T : z = limit - x
  BY <1>3
<1>5. \A y \in T : z <= limit - y
  BY <1>3
<1> QED
  BY <1>1, <1>4, <1>5

(* Powers of two: the first n of them, and then all.                       *)
PowerRule(p, n) == IF n = 0 THEN 1 ELSE 2 * p[n - 1]

LEMMA PowersUpTo ==
    ASSUME NEW n \in Nat
    PROVE  \E p \in [0..n -> Nat] : \A k \in 0..n : p[k] = PowerRule(p, k)
<1> DEFINE Good(m) == \E p \in [0..m -> Nat] : \A k \in 0..m : p[k] = PowerRule(p, k)
           Bad == {m \in Nat : ~Good(m)}
<1>1. SUFFICES ASSUME Bad # {} PROVE FALSE
  BY <1>1
<1>2. PICK m \in Bad : \A y \in Bad : m <= y
  BY <1>1, LeastNumber
<1>3. m # 0
  <2> DEFINE p == [k \in 0..0 |-> 1]
  <2>1. p \in [0..0 -> Nat] /\ \A k \in 0..0 : p[k] = PowerRule(p, k)
    BY DEF PowerRule
  <2> HIDE DEF p
  <2>2. Good(0)
    BY <2>1
  <2> QED
    BY <1>2, <2>2
<1>4. m - 1 \in Nat /\ Good(m - 1)
  <2>1. m \in Nat /\ m - 1 \in Nat /\ ~(m <= m - 1)
    BY <1>2, <1>3
  <2>2. m - 1 \notin Bad
    <3> HIDE DEF Bad
    <3> QED
      BY <1>2, <2>1
  <2> QED
    BY <2>1, <2>2
<1>5. PICK p \in [0..(m - 1) -> Nat] : \A k \in 0..(m - 1) : p[k] = PowerRule(p, k)
  BY <1>4
<1> DEFINE q == [k \in 0..m |-> IF k = m THEN 2 * p[m - 1] ELSE p[k]]
<1>6. q \in [0..m -> Nat]
  <2>1. \A k \in 0..m : k # m => k \in 0..(m - 1)
    BY <1>4
  <2>2. m - 1 \in 0..(m - 1)
    BY <1>4
  <2> QED
    BY <1>5, <2>1, <2>2
<1>7. ASSUME NEW k \in 0..m PROVE q[k] = PowerRule(q, k)
  <2>1. CASE k = m
    <3>1. m - 1 \in 0..m /\ m - 1 # m
      BY <1>4
    <3>2. q[m - 1] = p[m - 1] /\ q[m] = 2 * p[m - 1]
      BY <2>1, <3>1
    <3> HIDE DEF q
    <3> QED
      BY <1>3, <2>1, <3>2 DEF PowerRule
  <2>2. CASE k # m
    <3>1. k \in 0..(m - 1) /\ (k # 0 => k - 1 \in 0..m /\ k - 1 # m)
      BY <1>4, <2>2
    <3>2. q[k] = p[k] /\ (k # 0 => q[k - 1] = p[k - 1])
      BY <2>2, <3>1
    <3> HIDE DEF q
    <3> QED
      BY <1>5, <3>1, <3>2 DEF PowerRule
  <2> QED
    BY <2>1, <2>2
<1> HIDE DEF q
<1>8. Good(m)
  BY <1>6, <1>7
<1> QED
  BY <1>2, <1>8

LEMMA PowersAgree ==
    ASSUME NEW m \in Nat, NEW n \in Nat, m <= n,
           NEW p, NEW q,
           \A k \in 0..m : p[k] = PowerRule(p, k), \A k \in 0..n : q[k] = PowerRule(q, k)
    PROVE  p[m] = q[m]
<1> DEFINE Bad == {k \in 0..m : p[k] # q[k]}
<1>1. SUFFICES ASSUME Bad # {} PROVE FALSE
  OBVIOUS
<1>2. PICK k \in Bad : \A y \in Bad : k <= y
  <2>1. Bad \in SUBSET Nat
    OBVIOUS
  <2> QED
    BY <1>1, <2>1, LeastNumber
<1>3. k \in 0..m /\ k \in 0..n /\ p[k] # q[k]
  BY <1>2
<1>4. k # 0
  BY <1>3 DEF PowerRule
<1>5. k - 1 \in 0..m /\ ~(k <= k - 1)
  BY <1>3, <1>4
<1>6. p[k - 1] = q[k - 1]
  <2>1. k - 1 \notin Bad
    <3> HIDE DEF Bad
    <3> QED
      BY <1>2, <1>5
  <2> QED
    BY <1>5, <2>1
<1> QED
  BY <1>3, <1>4, <1>6 DEF PowerRule

Powers(n, p) == p \in [0..n -> Nat] /\ \A k \in 0..n : p[k] = PowerRule(p, k)
PowersOf(n) == CHOOSE p : Powers(n, p)

LEMMA PowersAre ==
    /\ PowerOfTwo[0] = 1
    /\ \A n \in Nat : PowerOfTwo[n] \in Nat
    /\ \A n \in Nat : PowerOfTwo[n + 1] = 2 * PowerOfTwo[n]
<1> DEFINE f == [n \in Nat |-> PowersOf(n)[n]]
<1>1. ASSUME NEW n \in Nat PROVE Powers(n, PowersOf(n))
  <2>1. \E p : Powers(n, p)
    BY PowersUpTo DEF Powers
  <2> QED
    BY <2>1 DEF PowersOf
<1>2. ASSUME NEW n \in Nat PROVE f[n] = PowerRule(f, n)
  <2>1. n \in 0..n /\ f[n] = PowersOf(n)[n]
    OBVIOUS
  <2>2. f[n] = PowerRule(PowersOf(n), n)
    BY <1>1, <2>1 DEF Powers
  <2>3. CASE n = 0
    BY <2>2, <2>3 DEF PowerRule
  <2>4. CASE n # 0
    <3>1. n - 1 \in Nat /\ n - 1 <= n
      BY <2>4
    <3>2. Powers(n, PowersOf(n)) /\ Powers(n - 1, PowersOf(n - 1))
      BY <1>1, <3>1
    <3>3. /\ \A k \in 0..n : PowersOf(n)[k] = PowerRule(PowersOf(n), k)
          /\ \A k \in 0..(n - 1) : PowersOf(n - 1)[k] = PowerRule(PowersOf(n - 1), k)
      BY <3>2 DEF Powers
    <3>4. PowersOf(n - 1)[n - 1] = PowersOf(n)[n - 1]
      BY <3>1, <3>3, PowersAgree
    <3>5. f[n - 1] = PowersOf(n - 1)[n - 1]
      BY <3>1
    <3> HIDE DEF f
    <3> QED
      BY <2>2, <2>4, <3>4, <3>5 DEF PowerRule
  <2> QED
    BY <2>3, <2>4
<1>3. f = [n \in Nat |-> f[n]] /\ \A n \in Nat : f[n] \in Nat
  <2>1. ASSUME NEW n \in Nat PROVE PowersOf(n)[n] \in Nat
    <3>1. n \in 0..n /\ PowersOf(n) \in [0..n -> Nat]
      BY <1>1 DEF Powers
    <3> QED
      BY <3>1
  <2> QED
    BY <2>1
<1> HIDE DEF f
<1>4. f = [n \in Nat |-> IF n = 0 THEN 1 ELSE 2 * f[n - 1]]
  BY <1>2, <1>3 DEF PowerRule
<1> DEFINE g == PowerOfTwo
<1>5. g = [n \in Nat |-> IF n = 0 THEN 1 ELSE 2 * g[n - 1]]
  BY <1>4 DEF PowerOfTwo
<1> HIDE DEF g
<1>6. g[0] = 1 /\ \A n \in Nat : g[n + 1] = 2 * g[n]
  <2>1. g[0] = 1
    BY <1>5
  <2>2. ASSUME NEW n \in Nat PROVE g[n + 1] = 2 * g[n]
    <3>1. n + 1 \in Nat /\ n + 1 # 0 /\ (n + 1) - 1 = n
      OBVIOUS
    <3> QED
      BY <1>5, <3>1
  <2> QED
    BY <2>1, <2>2
<1>7. \A n \in Nat : g[n] \in Nat
  <2> DEFINE Bad == {n \in Nat : g[n] \notin Nat}
  <2>1. SUFFICES ASSUME Bad # {} PROVE FALSE
    OBVIOUS
  <2>2. PICK n \in Bad : \A y \in Bad : n <= y
    BY <2>1, LeastNumber
  <2>3. n \in Nat /\ g[n] \notin Nat
    BY <2>2
  <2>4. n # 0
    BY <1>6, <2>3
  <2>5. n - 1 \in Nat /\ (n - 1) + 1 = n /\ ~(n <= n - 1)
    BY <2>3, <2>4
  <2>6. g[n - 1] \in Nat
    <3>1. n - 1 \notin Bad
      <4> HIDE DEF Bad
      <4> QED
        BY <2>2, <2>5
    <3> QED
      BY <2>5, <3>1
  <2>7. g[n] = 2 * g[n - 1]
    BY <1>6, <2>5
  <2> QED
    BY <2>3, <2>6, <2>7
<1> QED
  BY <1>6, <1>7 DEF g

(* They grow, and faster than their exponents.                             *)
LEMMA PowersGrow ==
    ASSUME NEW m \in Nat, NEW n \in Nat, m <= n
    PROVE  PowerOfTwo[m] <= PowerOfTwo[n] /\ n < PowerOfTwo[n]
<1> DEFINE g == PowerOfTwo
           Bad == {k \in Nat : ~(k < g[k] /\ (m <= k => g[m] <= g[k]))}
<1>1. /\ g[0] = 1 /\ \A k \in Nat : g[k] \in Nat /\ g[k + 1] = 2 * g[k]
  BY PowersAre
<1> HIDE DEF g
<1>2. Bad = {}
  <2>1. SUFFICES ASSUME Bad # {} PROVE FALSE
    OBVIOUS
  <2>2. PICK k \in Bad : \A y \in Bad : k <= y
    BY <2>1, LeastNumber
  <2>3. k \in Nat /\ ~(k < g[k] /\ (m <= k => g[m] <= g[k]))
    BY <2>2
  <2>4. k # 0
    <3>1. SUFFICES ASSUME k = 0 PROVE FALSE
      OBVIOUS
    <3>2. 0 < g[0] /\ (m <= 0 => m = 0)
      BY <1>1
    <3> QED
      BY <1>1, <2>3, <3>1, <3>2
  <2>5. k - 1 \in Nat /\ (k - 1) + 1 = k /\ ~(k <= k - 1)
    BY <2>3, <2>4
  <2>6. k - 1 < g[k - 1] /\ (m <= k - 1 => g[m] <= g[k - 1])
    <3>1. k - 1 \notin Bad
      <4> HIDE DEF Bad
      <4> QED
        BY <2>2, <2>5
    <3> QED
      BY <2>5, <3>1
  <2>7. g[k] = 2 * g[k - 1] /\ g[k - 1] \in Nat /\ g[k] \in Nat /\ g[m] \in Nat
    BY <1>1, <2>3, <2>5
  <2>8. k < g[k]
    BY <2>3, <2>5, <2>6, <2>7
  <2>9. m <= k => g[m] <= g[k]
    <3>1. CASE m = k
      BY <2>7, <3>1
    <3>2. CASE m <= k - 1
      BY <2>6, <2>7, <3>2
    <3>3. m <= k => m = k \/ m <= k - 1
      BY <2>3
    <3> QED
      BY <3>1, <3>2, <3>3
  <2> QED
    BY <2>3, <2>8, <2>9
<1>3. n < g[n] /\ g[m] <= g[n]
  BY <1>2
<1> QED
  BY <1>3 DEF g

LEMMA Halvings ==
    ASSUME NEW a \in Nat, NEW b \in Nat, a <= b,
           NEW p \in Nat, NEW q \in Nat, 0 < p, p <= q
    PROVE  /\ a \div q \in Nat
           /\ a \div q <= a
           /\ a \div q <= b \div p
           /\ b < p => b \div p = 0
<1> DEFINE x == a \div q  y == b \div p
<1>1. x \in Int /\ q * x <= a /\ a < q * (x + 1)
  OBVIOUS
<1>2. y \in Int /\ p * y <= b /\ b < p * (y + 1)
  OBVIOUS
<1> HIDE DEF x, y
<1>3. x >= 0
  BY <1>1
<1>4. p * x <= q * x /\ x <= q * x
  BY <1>1, <1>3
<1>5. x <= a
  BY <1>1, <1>4
<1>6. p * x < p * (y + 1)
  BY <1>1, <1>2, <1>4
<1>7. x < y + 1
  BY <1>1, <1>2, <1>6
<1>8. y >= 0 /\ (b < p => y = 0)
  BY <1>2
<1> QED
  BY <1>1, <1>2, <1>3, <1>5, <1>7, <1>8 DEF x, y

-----------------------------------------------------------------------------
(* The map.                                                                *)

(* Evidence adds up to no more than the bound, and none changes nothing.   *)
LEMMA ClipIs ==
    ASSUME NEW n \in Int, NEW bound \in Nat
    PROVE  /\ Clip(n, bound) \in Int
           /\ Clip(n, bound) \in -bound..bound
           /\ n \in -bound..bound => Clip(n, bound) = n
           /\ n >= 0 => Clip(n, bound) >= 0
<1> DEFINE m == Min({n, bound})
<1>1. m = IF n <= bound THEN n ELSE bound
  <2>1. \A x \in {n, bound} : (\A y \in {n, bound} : x =< y) <=> x = (IF n <= bound THEN n ELSE bound)
    OBVIOUS
  <2>2. (CHOOSE x \in {n, bound} : \A y \in {n, bound} : x =< y) = (IF n <= bound THEN n ELSE bound)
    BY <2>1
  <2> QED
    BY <2>2 DEF Min
<1> HIDE DEF m
<1>2. m \in Int
  BY <1>1
<1>3. Max({-bound, m}) = IF m >= -bound THEN m ELSE -bound
  <2>1. \A x \in {-bound, m} : (\A y \in {-bound, m} : x >= y) <=> x = (IF m >= -bound THEN m ELSE -bound)
    BY <1>2
  <2>2. (CHOOSE x \in {-bound, m} : \A y \in {-bound, m} : x >= y) = (IF m >= -bound THEN m ELSE -bound)
    BY <1>2, <2>1
  <2> QED
    BY <2>2 DEF Max
<1>4. Clip(n, bound) = IF m >= -bound THEN m ELSE -bound
  BY <1>3 DEF Clip, m
<1> QED
  BY <1>1, <1>2, <1>4

(* The latest of a set of times.                                           *)
LEMMA LatestIs ==
    ASSUME NEW limit \in Nat, NEW T \in SUBSET (0..limit), T # {}
    PROVE  Max(T) \in T /\ \A y \in T : y <= Max(T)
<1>1. PICK x \in T : \A y \in T : y <= x
  BY GreatestNumber
<1>2. \A y \in T : x >= y
  BY <1>1
<1>3. Max(T) \in T /\ \A y \in T : Max(T) >= y
  BY <1>2 DEF Max
<1>4. T \subseteq Nat
  OBVIOUS
<1> QED
  BY <1>3, <1>4

LEMMA AgeIs ==
    ASSUME NEW c, lastDynamic[c] \in Nat, NEW now \in Nat
    PROVE  Age(c, now) \in Nat /\ Age(c, now) >= now - lastDynamic[c]
<1> DEFINE d == now - lastDynamic[c]
<1>1. d \in Int
  OBVIOUS
<1> HIDE DEF d
<1>2. \A x \in {0, d} : (\A y \in {0, d} : x >= y) <=> x = (IF d >= 0 THEN d ELSE 0)
  BY <1>1
<1>3. (CHOOSE x \in {0, d} : \A y \in {0, d} : x >= y) = (IF d >= 0 THEN d ELSE 0)
  BY <1>1, <1>2
<1>4. Age(c, now) = IF d >= 0 THEN d ELSE 0
  BY <1>3 DEF Age, Max, d
<1> QED
  BY <1>1, <1>4 DEF d

(* The strongest evidence does not last for ever.                          *)
LEMMA LastsIs ==
    /\ Lasts \in Nat
    /\ MaxLogOdds \div PowerOfTwo[Lasts] < OccupiedThreshold
<1> DEFINE T == {n \in 0..MaxLogOdds : MaxLogOdds \div PowerOfTwo[n] < OccupiedThreshold}
<1>1. MaxLogOdds \in Nat /\ OccupiedThreshold \in Nat /\ 0 < OccupiedThreshold
  BY OccupancyAssumption DEF MapConfigValid
<1>2. MaxLogOdds < PowerOfTwo[MaxLogOdds] /\ PowerOfTwo[MaxLogOdds] \in Nat
  BY <1>1, PowersAre, PowersGrow
<1>3. MaxLogOdds \div PowerOfTwo[MaxLogOdds] = 0
  BY <1>1, <1>2, Halvings
<1>4. MaxLogOdds \in T
  BY <1>1, <1>3
<1>5. T \in SUBSET Nat
  OBVIOUS
<1>6. PICK x \in T : \A y \in T : x <= y
  <2> HIDE DEF T
  <2> QED
    BY <1>4, <1>5, LeastNumber
<1>7. Min(T) \in T
  <2> HIDE DEF T
  <2> QED
    BY <1>6 DEF Min
<1> QED
  BY <1>5, <1>7 DEF Lasts

(* FadeInv: a decay took off what the time since the last return says, and *)
(* an update since then changed a cell only where it set that time anew.   *)
FadeTypeOK ==
    /\ dynamic \in [GridCells -> 0..MaxLogOdds]
    /\ lastDynamic \in [GridCells -> Nat]
    /\ stamp \in Nat /\ decayed \in Nat /\ decayed <= stamp

Faded == \A c \in GridCells : decayed >= lastDynamic[c] + Lasts => dynamic[c] < OccupiedThreshold

FadeInv == FadeTypeOK /\ Faded

LEMMA FadeInitInv == OccupancyInit => FadeInv
<1>1. MaxLogOdds \in Nat /\ OccupiedThreshold \in Nat /\ 0 < OccupiedThreshold
  BY OccupancyAssumption DEF MapConfigValid
<1> QED
  BY <1>1 DEF OccupancyInit, FadeInv, FadeTypeOK, Faded

LEMMA DecayInv ==
    ASSUME FadeInv, NEW now \in Nat, Decay(now)
    PROVE  FadeInv'
<1>1. /\ MaxLogOdds \in Nat /\ OccupiedThreshold \in Nat /\ 0 < OccupiedThreshold
      /\ Lasts \in Nat
      /\ MaxLogOdds \div PowerOfTwo[Lasts] < OccupiedThreshold
  BY OccupancyAssumption, LastsIs DEF MapConfigValid
<1>2. CASE now < stamp
  BY <1>2 DEF Decay, FadeInv, FadeTypeOK, Faded, occupancyVars
<1>3. CASE ~(now < stamp)
  <2>1. /\ dynamic' = [c \in GridCells |-> dynamic[c] \div PowerOfTwo[Age(c, now)]]
        /\ stamp' = now /\ decayed' = now /\ UNCHANGED lastDynamic
    BY <1>3 DEF Decay
  <2>2. ASSUME NEW c \in GridCells
        PROVE  /\ dynamic'[c] \in 0..MaxLogOdds
               /\ decayed' >= lastDynamic'[c] + Lasts => dynamic'[c] < OccupiedThreshold
    <3> DEFINE a == Age(c, now)
               p == PowerOfTwo[a]
    <3>1. dynamic[c] \in 0..MaxLogOdds /\ lastDynamic[c] \in Nat
      BY DEF FadeInv, FadeTypeOK
    <3>2. a \in Nat /\ a >= now - lastDynamic[c]
      BY <3>1, AgeIs
    <3> HIDE DEF a
    <3>3. p \in Nat /\ 0 < p
      <4>1. a < p /\ p \in Nat
        BY <3>2, PowersAre, PowersGrow
      <4> QED
        BY <3>2, <4>1
    <3>4. dynamic'[c] = dynamic[c] \div p
      BY <2>1 DEF a
    <3> HIDE DEF p
    <3>5. dynamic'[c] \in Nat /\ dynamic'[c] <= dynamic[c]
      BY <3>1, <3>3, <3>4, Halvings
    <3>6. ASSUME decayed' >= lastDynamic'[c] + Lasts PROVE dynamic'[c] < OccupiedThreshold
      <4>1. Lasts <= a
        <5>1. now >= lastDynamic[c] + Lasts
          BY <2>1, <3>6
        <5> QED
          BY <1>1, <3>1, <3>2, <5>1
      <4>2. PowerOfTwo[Lasts] <= p /\ Lasts < PowerOfTwo[Lasts] /\ PowerOfTwo[Lasts] \in Nat
        BY <1>1, <3>2, <4>1, PowersAre, PowersGrow DEF p
      <4>3. 0 < PowerOfTwo[Lasts]
        BY <1>1, <4>2
      <4>4. dynamic[c] \div p <= MaxLogOdds \div PowerOfTwo[Lasts]
        <5>1. dynamic[c] \in Nat /\ dynamic[c] <= MaxLogOdds
          BY <1>1, <3>1
        <5> QED
          BY <1>1, <3>3, <4>2, <4>3, <5>1, Halvings
      <4>5. MaxLogOdds \div PowerOfTwo[Lasts] \in Nat
        BY <1>1, <4>2, <4>3, Halvings
      <4> QED
        BY <1>1, <3>4, <3>5, <4>4, <4>5
    <3> QED
      BY <1>1, <3>1, <3>5, <3>6
  <2>3. FadeTypeOK'
    <3>1. dynamic' \in [GridCells -> 0..MaxLogOdds]
      BY <2>1, <2>2
    <3> QED
      BY <2>1, <3>1 DEF FadeInv, FadeTypeOK
  <2> QED
    BY <2>2, <2>3 DEF FadeInv, Faded
<1> QED
  BY <1>2, <1>3

LEMMA UpdateInv ==
    ASSUME FadeInv, NEW batch \in Batches, Update(batch)
    PROVE  FadeInv'
<1>1. /\ {MaxLogOdds, MaxBatchUpdate, OccupiedThreshold, HitEvidence, LastStamp} \subseteq Nat
      /\ batch \in Seq(RayType) /\ Lasts \in Nat
  BY OccupancyAssumption, LastsIs DEF MapConfigValid
<1>2. CASE Rejected(batch) \/ batch = <<>>
  BY <1>2 DEF Update, FadeInv, FadeTypeOK, Faded, occupancyVars
<1>3. CASE ~(Rejected(batch) \/ batch = <<>>)
  <2> DEFINE times(rays) == {batch[r].stamp : r \in rays}
  <2>1. /\ dynamic' = [c \in GridCells |-> UpdatedOdds(dynamic[c], DynamicEvidence(batch, c))]
        /\ lastDynamic' = [c \in GridCells |->
               Latest({lastDynamic[c]}, Hitting(batch, "DYNAMIC", c), batch)]
        /\ stamp' = Latest({}, DOMAIN batch, batch)
        /\ UNCHANGED decayed
    BY <1>3 DEF Update
  <2>2. DOMAIN batch = 1..Len(batch) /\ Len(batch) \in Nat /\ DOMAIN batch # {}
    <3>1. batch # <<>>
      BY <1>3
    <3>2. DOMAIN batch = 1..Len(batch) /\ Len(batch) \in Nat
      BY <1>1
    <3>3. Len(batch) # 0
      BY <1>1, <3>1, EmptySeq
    <3> QED
      BY <3>2, <3>3
  <2>3. \A r \in DOMAIN batch : batch[r].stamp \in 0..LastStamp /\ batch[r].stamp >= stamp
    <3>1. \A r \in DOMAIN batch : batch[r] \in RayType
      BY <1>1, <2>2
    <3>2. \A r \in DOMAIN batch : batch[r].stamp \in 0..LastStamp
      BY <3>1 DEF RayType
    <3>3. stamp \in Nat
      BY DEF FadeInv, FadeTypeOK
    <3> QED
      BY <1>1, <1>3, <3>2, <3>3 DEF Rejected
  <2>4. stamp' \in Nat /\ stamp' >= stamp
    <3> DEFINE T == {} \cup {batch[r].stamp : r \in DOMAIN batch}
    <3>1. T \in SUBSET (0..LastStamp) /\ T # {} /\ \A t \in T : t >= stamp
      BY <2>2, <2>3
    <3>2. stamp' = Max(T)
      BY <2>1 DEF Latest
    <3> HIDE DEF T
    <3>3. Max(T) \in T
      BY <1>1, <3>1, LatestIs
    <3>4. \A t \in T : t \in Nat /\ t >= stamp
      BY <1>1, <3>1
    <3> QED
      BY <3>2, <3>3, <3>4
  <2>5. ASSUME NEW c \in GridCells
        PROVE  /\ dynamic'[c] \in 0..MaxLogOdds /\ lastDynamic'[c] \in Nat
               /\ decayed' >= lastDynamic'[c] + Lasts => dynamic'[c] < OccupiedThreshold
    <3> DEFINE rays == Hitting(batch, "DYNAMIC", c)
               T == {lastDynamic[c]} \cup {batch[r].stamp : r \in rays}
               e == DynamicEvidence(batch, c)
               limit == lastDynamic[c] + LastStamp
    <3>1. dynamic[c] \in 0..MaxLogOdds /\ lastDynamic[c] \in Nat /\ stamp \in Nat /\ decayed \in Nat
      BY DEF FadeInv, FadeTypeOK
    <3>2. rays \subseteq DOMAIN batch
      BY DEF Hitting
    <3>3. IsFiniteSet(rays) /\ Cardinality(rays) \in Nat /\ Cardinality({}) = 0
      <4>1. IsFiniteSet(1..Len(batch))
        BY <2>2, FS_Interval
      <4>2. IsFiniteSet(rays)
        BY <2>2, <3>2, <4>1, FS_Subset
      <4> QED
        BY <4>2, FS_CardinalityType, FS_EmptySet
    <3>4. e = HitEvidence * Cardinality(rays)
      BY DEF DynamicEvidence
    <3>5. lastDynamic'[c] = Max(T) /\ dynamic'[c] = UpdatedOdds(dynamic[c], e)
      BY <2>1 DEF Latest
    <3>6. limit \in Nat /\ T \in SUBSET (0..limit) /\ T # {} /\ lastDynamic[c] \in T
      <4>1. \A t \in T : t = lastDynamic[c] \/ t \in 0..LastStamp
        BY <2>3, <3>2
      <4>2. limit \in Nat /\ lastDynamic[c] \in 0..limit /\ \A t \in 0..LastStamp : t \in 0..limit
        BY <1>1, <3>1
      <4> HIDE DEF limit
      <4>3. \A t \in T : t \in 0..limit
        BY <4>1, <4>2
      <4> QED
        BY <4>2, <4>3
    <3>7. rays # {} => \E t \in T : t >= stamp
      BY <2>3, <3>2
    <3>8. rays = {} => T = {lastDynamic[c]}
      OBVIOUS
    <3> HIDE DEF limit, rays, T, e
    <3>9. Max(T) \in Nat /\ Max(T) >= lastDynamic[c] /\ \A t \in T : t <= Max(T)
      <4>1. Max(T) \in T /\ \A t \in T : t <= Max(T)
        BY <3>6, LatestIs
      <4>2. Max(T) \in Nat
        <5>1. \A t \in T : t \in Nat
          BY <3>6
        <5> QED
          BY <4>1, <5>1
      <4>3. lastDynamic[c] <= Max(T)
        BY <3>6, <4>1
      <4> QED
        BY <3>1, <4>1, <4>2, <4>3
    <3>10. e \in Nat /\ (rays = {} => e = 0)
      <4> DEFINE k == Cardinality(rays)
      <4>1. k \in Nat /\ (rays = {} => k = 0) /\ HitEvidence \in Nat
        BY <1>1, <3>3
      <4>2. e = HitEvidence * k
        BY <3>4
      <4> HIDE DEF k
      <4> QED
        BY <4>1, <4>2
    <3> DEFINE i == Clip(e, MaxBatchUpdate)
    <3>11. i \in Int /\ i >= 0 /\ (rays = {} => i = 0)
      <4>1. 0 \in -MaxBatchUpdate..MaxBatchUpdate /\ MaxBatchUpdate \in Nat
        BY <1>1
      <4>2. i \in Int /\ i >= 0
        BY <3>10, <4>1, ClipIs
      <4>3. Clip(0, MaxBatchUpdate) = 0
        BY <4>1, ClipIs
      <4> QED
        BY <3>10, <4>2, <4>3
    <3>12. dynamic'[c] = Clip(dynamic[c] + i, MaxLogOdds)
      BY <3>5 DEF UpdatedOdds
    <3> HIDE DEF i
    <3>13. dynamic'[c] \in 0..MaxLogOdds
      <4>1. dynamic[c] + i \in Int /\ dynamic[c] + i >= 0
        BY <3>1, <3>11
      <4>2. Clip(dynamic[c] + i, MaxLogOdds) \in -MaxLogOdds..MaxLogOdds
            /\ Clip(dynamic[c] + i, MaxLogOdds) >= 0
        BY <1>1, <4>1, ClipIs
      <4> QED
        BY <1>1, <3>12, <4>2
    <3>14. ASSUME rays = {} PROVE dynamic'[c] = dynamic[c]
      <4>1. dynamic[c] + i = dynamic[c] /\ dynamic[c] \in Int /\ dynamic[c] \in -MaxLogOdds..MaxLogOdds
        BY <1>1, <3>1, <3>11, <3>14
      <4> QED
        BY <1>1, <3>12, <4>1, ClipIs
    <3>15. ASSUME decayed' >= lastDynamic'[c] + Lasts PROVE dynamic'[c] < OccupiedThreshold
      <4>1. decayed >= lastDynamic[c] + Lasts
        <5>1. decayed >= Max(T) + Lasts
          BY <2>1, <3>5, <3>15
        <5> QED
          BY <1>1, <3>1, <3>9, <5>1
      <4>2. CASE rays = {}
        <5>1. dynamic[c] < OccupiedThreshold
          BY <4>1 DEF FadeInv, Faded
        <5> QED
          BY <3>14, <4>2, <5>1
      <4>3. CASE rays # {}
        <5>1. PICK t \in T : t >= stamp
          BY <3>7, <4>3
        <5>2. Max(T) >= stamp
          BY <3>1, <3>6, <3>9, <5>1
        <5>3. decayed <= stamp
          BY DEF FadeInv, FadeTypeOK
        <5>4. Lasts = 0
          BY <1>1, <2>1, <3>1, <3>5, <3>9, <3>15, <5>2, <5>3
        <5>5. MaxLogOdds < OccupiedThreshold
          <6>1. MaxLogOdds \div 1 < OccupiedThreshold
            BY <5>4, LastsIs, PowersAre
          <6> QED
            BY <1>1, <6>1
        <5> QED
          BY <1>1, <3>13, <5>5
      <4> QED
        BY <4>2, <4>3
    <3> QED
      BY <3>5, <3>9, <3>13, <3>15
  <2>6. FadeTypeOK'
    <3>1. dynamic' \in [GridCells -> 0..MaxLogOdds] /\ lastDynamic' \in [GridCells -> Nat]
      BY <2>1, <2>5
    <3>2. decayed' \in Nat /\ decayed' <= stamp'
      BY <2>1, <2>4 DEF FadeInv, FadeTypeOK
    <3> QED
      BY <2>4, <3>1, <3>2 DEF FadeTypeOK
  <2> QED
    BY <2>5, <2>6 DEF FadeInv, Faded
<1> QED
  BY <1>2, <1>3

(* What moved and is gone does not block a cell for ever: a decay that is  *)
(* long enough after the last return leaves the collision layer what the   *)
(* structure says, however often rays have crossed the cell meanwhile.     *)
THEOREM FadingCorrect == OccupancySpec => []MovingThingsFade
<1>1. FadeInv /\ [OccupancyNext]_occupancyVars => FadeInv'
  <2> SUFFICES ASSUME FadeInv, [OccupancyNext]_occupancyVars PROVE FadeInv'
    OBVIOUS
  <2>1. ASSUME NEW batch \in Batches, Update(batch) PROVE FadeInv'
    BY <2>1, UpdateInv
  <2>2. ASSUME NEW now \in 0..LastStamp, Decay(now) PROVE FadeInv'
    <3>1. now \in Nat
      BY OccupancyAssumption
    <3> QED
      BY <2>2, <3>1, DecayInv
  <2>3. CASE UNCHANGED occupancyVars
    BY <2>3 DEF FadeInv, FadeTypeOK, Faded, occupancyVars
  <2> QED
    BY <2>1, <2>2, <2>3 DEF OccupancyNext
<1>2. FadeInv => MovingThingsFade
  <2> SUFFICES ASSUME FadeInv, NEW c \in GridCells, decayed >= lastDynamic[c] + Lasts
               PROVE  Collision(c) = Structural(c)
    BY DEF MovingThingsFade
  <2>1. dynamic[c] \in 0..MaxLogOdds /\ dynamic[c] < OccupiedThreshold
    BY DEF FadeInv, FadeTypeOK, Faded
  <2>2. {MaxLogOdds, OccupiedThreshold, FreeThreshold} \subseteq Nat \ {0}
    BY OccupancyAssumption DEF MapConfigValid
  <2>3. ~(dynamic[c] <= -FreeThreshold) /\ ~(dynamic[c] >= OccupiedThreshold)
    BY <2>1, <2>2
  <2>4. Semantic(c) = "UNKNOWN"
    BY <2>3 DEF Semantic, LayerState
  <2> QED
    BY <2>4 DEF Collision
<1> QED
  BY <1>1, <1>2, FadeInitInv, PTL DEF OccupancySpec

-----------------------------------------------------------------------------
(* The local map.                                                          *)

(* The order of the returns is one: every valid return has its place, and  *)
(* the nearer comes first.                                                 *)
LEMMA BeyondIs ==
    ASSUME NEW p \in Point
    PROVE  Beyond(p) \in Int
BY DEF Point, Beyond, Dot

LEMMA BeforeIs ==
    ASSUME NEW c \in Seq(ReturnType)
    PROVE  /\ \A i, j \in ValidIds(c) : i # j => Before(c, i, j) \/ Before(c, j, i)
           /\ \A i \in ValidIds(c) : ~Before(c, i, i)
           /\ \A i, j, k \in ValidIds(c) : Before(c, i, j) /\ Before(c, j, k) => Before(c, i, k)
           /\ \A i, j \in ValidIds(c) : ~Before(c, i, j) => Beyond(c[j].at) <= Beyond(c[i].at)
<1> DEFINE d(i) == Beyond(c[i].at)
<1>1. \A i \in ValidIds(c) : i \in Nat /\ d(i) \in Int
  <2> SUFFICES ASSUME NEW i \in ValidIds(c) PROVE i \in Nat /\ d(i) \in Int
    OBVIOUS
  <2>1. i \in 1..Len(c) /\ Len(c) \in Nat
    BY DEF ValidIds
  <2>2. c[i] \in ReturnType
    BY <2>1
  <2>3. c[i].at \in Point
    BY <2>2 DEF ReturnType
  <2> QED
    BY <2>1, <2>3, BeyondIs
<1>2. \A i, j : Before(c, i, j) <=> d(i) < d(j) \/ (d(i) = d(j) /\ i < j)
  BY DEF Before
<1> HIDE DEF d
<1>3. \A i, j \in ValidIds(c) : ~Before(c, i, j) => d(j) <= d(i)
  BY <1>1, <1>2
<1>4. \A i, j \in ValidIds(c) : i # j => Before(c, i, j) \/ Before(c, j, i)
  BY <1>1, <1>2
<1>5. \A i, j, k \in ValidIds(c) : Before(c, i, j) /\ Before(c, j, k) => Before(c, i, k)
  BY <1>1, <1>2
<1>6. \A i \in ValidIds(c) : ~Before(c, i, i)
  BY <1>1, <1>2
<1> QED
  BY <1>3, <1>4, <1>5, <1>6 DEF d

LEMMA RanksAre ==
    ASSUME NEW c \in Seq(ReturnType)
    PROVE  /\ Cardinality(ValidIds(c)) \in Nat
           /\ \A i \in ValidIds(c) : Rank(c, i) \in 0..(Cardinality(ValidIds(c)) - 1)
           /\ \A i, j \in ValidIds(c) : Before(c, i, j) => Rank(c, i) < Rank(c, j)
           /\ \A k \in 0..(Cardinality(ValidIds(c)) - 1) : \E i \in ValidIds(c) : Rank(c, i) = k
<1> DEFINE S == ValidIds(c)
           n == Cardinality(S)
           Nearer(i) == {j \in S : Before(c, j, i)}
<1>1. IsFiniteSet(S) /\ n \in Nat
  <2>1. Len(c) \in Nat /\ S \in SUBSET (1..Len(c))
    BY DEF ValidIds
  <2>2. IsFiniteSet(1..Len(c))
    BY <2>1, FS_Interval
  <2>3. IsFiniteSet(S)
    BY <2>1, <2>2, FS_Subset
  <2> QED
    BY <2>3, FS_CardinalityType
<1>2. /\ \A i, j \in S : i # j => Before(c, i, j) \/ Before(c, j, i)
      /\ \A i \in S : ~Before(c, i, i)
      /\ \A i, j, k \in S : Before(c, i, j) /\ Before(c, j, k) => Before(c, i, k)
  BY BeforeIs
<1>3. \A i : Rank(c, i) = Cardinality(Nearer(i))
  BY DEF Rank
<1> HIDE DEF S
<1>4. ASSUME NEW i \in S PROVE IsFiniteSet(Nearer(i)) /\ Rank(c, i) \in 0..(n - 1)
  <2>1. Nearer(i) \in SUBSET S /\ i \notin Nearer(i)
    BY <1>2
  <2>2. /\ IsFiniteSet(Nearer(i)) /\ Cardinality(Nearer(i)) <= n
        /\ (n = Cardinality(Nearer(i)) => S = Nearer(i))
    BY <1>1, <2>1, FS_Subset
  <2>3. Cardinality(Nearer(i)) \in Nat
    BY <2>2, FS_CardinalityType
  <2>4. n # Cardinality(Nearer(i))
    BY <2>1, <2>2
  <2> QED
    BY <1>1, <1>3, <2>2, <2>3, <2>4
<1>5. ASSUME NEW i \in S, NEW j \in S, Before(c, i, j) PROVE Rank(c, i) < Rank(c, j)
  <2>1. Nearer(i) \in SUBSET Nearer(j) /\ i \in Nearer(j) /\ i \notin Nearer(i)
    BY <1>2, <1>5
  <2>2. /\ Cardinality(Nearer(i)) <= Cardinality(Nearer(j))
        /\ (Cardinality(Nearer(j)) = Cardinality(Nearer(i)) => Nearer(j) = Nearer(i))
    BY <1>4, <2>1, FS_Subset
  <2>3. Cardinality(Nearer(i)) \in Nat /\ Cardinality(Nearer(j)) \in Nat
    BY <1>4, FS_CardinalityType
  <2>4. Cardinality(Nearer(j)) # Cardinality(Nearer(i))
    BY <2>1, <2>2
  <2> QED
    BY <1>3, <2>2, <2>3, <2>4
<1>6. ASSUME NEW k \in 0..(n - 1) PROVE \E i \in S : Rank(c, i) = k
  <2> DEFINE f == [i \in S |-> Rank(c, i)]
  <2>1. \A i, j \in S : Rank(c, i) = Rank(c, j) => i = j
    <3> SUFFICES ASSUME NEW i \in S, NEW j \in S, Rank(c, i) = Rank(c, j), i # j PROVE FALSE
      OBVIOUS
    <3>1. Rank(c, i) < Rank(c, j) \/ Rank(c, j) < Rank(c, i)
      BY <1>2, <1>5
    <3>2. Rank(c, i) \in Nat /\ Rank(c, j) \in Nat
      <4>1. Rank(c, i) \in 0..(n - 1) /\ Rank(c, j) \in 0..(n - 1)
        BY <1>4
      <4> HIDE DEF n
      <4> QED
        BY <1>1, <4>1
    <3> QED
      BY <3>1, <3>2
  <2>2. f \in [S -> 0..(n - 1)]
    <3>1. \A i \in S : Rank(c, i) \in 0..(n - 1)
      BY <1>4
    <3> QED
      BY <3>1, Zenon
  <2>3. f \in Injection(S, 0..(n - 1))
    BY <2>1, <2>2 DEF Injection, IsInjective
  <2>4. IsFiniteSet(0..(n - 1)) /\ Cardinality(0..(n - 1)) = n
    <3>1. 0 \in Int /\ n - 1 \in Int
      BY <1>1
    <3>2. /\ IsFiniteSet(0..(n - 1))
          /\ Cardinality(0..(n - 1)) = IF 0 > n - 1 THEN 0 ELSE (n - 1) - 0 + 1
      BY <3>1, FS_Interval
    <3> QED
      BY <1>1, <3>2
  <2> HIDE DEF f
  <2>5. f \in Surjection(S, 0..(n - 1))
    BY <2>3, <2>4, FS_Injection
  <2>6. \E i \in S : f[i] = k
    BY <2>5 DEF Surjection
  <2> QED
    BY <2>6 DEF f
<1> QED
  BY <1>1, <1>4, <1>5, <1>6 DEF S

LEMMA OrderIs ==
    ASSUME NEW c \in Seq(ReturnType)
    PROVE  /\ Cardinality(ValidIds(c)) \in Nat
           /\ InOrder(c) \in Seq(ReturnType)
           /\ \A k \in 1..Len(InOrder(c)) : \E i \in ValidIds(c) : InOrder(c)[k] = c[i]
           /\ \A i \in ValidIds(c) : \E k \in 1..Len(InOrder(c)) : InOrder(c)[k] = c[i]
           /\ \A k, m \in 1..Len(InOrder(c)) :
                 k <= m => Beyond(InOrder(c)[k].at) <= Beyond(InOrder(c)[m].at)
<1> DEFINE n == Cardinality(ValidIds(c))
           At(k) == CHOOSE i \in ValidIds(c) : Rank(c, i) = k - 1
           s == InOrder(c)
<1>1. n \in Nat
  BY RanksAre
<1>2. s = [k \in 1..n |-> c[At(k)]]
  BY DEF InOrder
<1>3. \A k \in 1..n : At(k) \in ValidIds(c) /\ Rank(c, At(k)) = k - 1
  <2> SUFFICES ASSUME NEW k \in 1..n PROVE At(k) \in ValidIds(c) /\ Rank(c, At(k)) = k - 1
    OBVIOUS
  <2>1. k - 1 \in 0..(n - 1)
    BY <1>1
  <2>2. \E i \in ValidIds(c) : Rank(c, i) = k - 1
    BY <2>1, RanksAre
  <2> QED
    BY <2>2
<1>4. \A i \in ValidIds(c) : Rank(c, i) + 1 \in 1..n /\ At(Rank(c, i) + 1) = i
  <2> SUFFICES ASSUME NEW i \in ValidIds(c)
               PROVE  Rank(c, i) + 1 \in 1..n /\ At(Rank(c, i) + 1) = i
    OBVIOUS
  <2> DEFINE k == Rank(c, i) + 1
             j == At(k)
  <2>1. Rank(c, i) \in 0..(n - 1)
    BY RanksAre
  <2>2. k \in 1..n /\ k - 1 = Rank(c, i)
    BY <1>1, <2>1
  <2>3. j \in ValidIds(c) /\ Rank(c, j) = k - 1
    BY <1>3, <2>2
  <2> HIDE DEF j
  <2>4. j = i
    <3> SUFFICES ASSUME j # i PROVE FALSE
      OBVIOUS
    <3>1. Before(c, i, j) \/ Before(c, j, i)
      BY <2>3, BeforeIs
    <3>2. Rank(c, i) < Rank(c, j) \/ Rank(c, j) < Rank(c, i)
      BY <2>3, <3>1, RanksAre
    <3> QED
      BY <2>1, <2>2, <2>3, <3>2
  <2> QED
    BY <2>2, <2>4 DEF j
<1> HIDE DEF At
<1>5. \A i \in ValidIds(c) : i \in 1..Len(c) /\ c[i] \in ReturnType
  BY DEF ValidIds
<1>6. s \in [1..n -> ReturnType]
  BY <1>2, <1>3, <1>5
<1>7. s \in Seq(ReturnType) /\ Len(s) = n /\ \A k \in 1..n : s[k] = c[At(k)]
  BY <1>1, <1>2, <1>6
<1> HIDE DEF s, n
<1>8. ASSUME NEW k \in 1..n, NEW m \in 1..n, k <= m
      PROVE  Beyond(s[k].at) <= Beyond(s[m].at)
  <2>1. At(k) \in ValidIds(c) /\ At(m) \in ValidIds(c) /\ s[k] = c[At(k)] /\ s[m] = c[At(m)]
    BY <1>3, <1>7
  <2>2. ~Before(c, At(m), At(k))
    <3> SUFFICES ASSUME Before(c, At(m), At(k)) PROVE FALSE
      OBVIOUS
    <3>1. Rank(c, At(m)) < Rank(c, At(k))
      BY <2>1, RanksAre
    <3>2. m - 1 < k - 1
      BY <1>3, <3>1
    <3> QED
      BY <1>1, <1>8, <3>2
  <2> QED
    BY <2>1, <2>2, BeforeIs
<1>9. \A i \in ValidIds(c) : \E k \in 1..n : s[k] = c[i]
  BY <1>4, <1>7
<1>10. \A k \in 1..n : \E i \in ValidIds(c) : s[k] = c[i]
  BY <1>3, <1>7
<1> QED
  BY <1>1, <1>7, <1>8, <1>9, <1>10 DEF s, n

(* The grids of the loop, one after each return.                           *)
Blank == [c \in Cells |-> "UNKNOWN"]
Grids(s, g, m) ==
    g = [k \in 0..m |-> IF k = 0 THEN Blank ELSE Integrate(g[k - 1], s[k])]

LEMMA GridsExist ==
    ASSUME NEW s, NEW n \in Nat
    PROVE  \E g : Grids(s, g, n)
<1> DEFINE Bad == {m \in Nat : ~\E g : Grids(s, g, m)}
<1>1. SUFFICES ASSUME Bad # {} PROVE FALSE
  OBVIOUS
<1>2. PICK m \in Bad : \A y \in Bad : m <= y
  BY <1>1, LeastNumber
<1>3. m # 0
  <2> DEFINE g == [k \in 0..0 |-> Blank]
  <2>1. g = [k \in 0..0 |-> IF k = 0 THEN Blank ELSE Integrate(g[k - 1], s[k])]
    OBVIOUS
  <2> HIDE DEF g
  <2>2. Grids(s, g, 0)
    BY <2>1 DEF Grids
  <2> QED
    BY <1>2, <2>2
<1>4. m \in Nat /\ m - 1 \in Nat /\ ~(m <= m - 1)
  BY <1>2, <1>3
<1>5. PICK g : Grids(s, g, m - 1)
  <2>1. m - 1 \notin Bad
    <3> HIDE DEF Bad
    <3> QED
      BY <1>2, <1>4
  <2> QED
    BY <1>4, <2>1
<1> DEFINE h == [k \in 0..m |-> IF k = m THEN Integrate(g[m - 1], s[m]) ELSE g[k]]
<1>6. ASSUME NEW k \in 0..m
      PROVE  h[k] = IF k = 0 THEN Blank ELSE Integrate(h[k - 1], s[k])
  <2>1. \A j \in 0..(m - 1) :
           g[j] = IF j = 0 THEN Blank ELSE Integrate(g[j - 1], s[j])
    BY <1>5 DEF Grids
  <2>2. CASE k = m
    <3>1. m - 1 \in 0..m /\ m - 1 # m
      BY <1>4
    <3>2. h[m - 1] = g[m - 1] /\ h[m] = Integrate(g[m - 1], s[m])
      BY <3>1, <2>2
    <3> HIDE DEF h
    <3> QED
      BY <1>3, <2>2, <3>2
  <2>3. CASE k # m
    <3>1. k \in 0..(m - 1) /\ (k # 0 => k - 1 \in 0..m /\ k - 1 # m)
      BY <1>4, <2>3
    <3>2. h[k] = g[k] /\ (k # 0 => h[k - 1] = g[k - 1])
      BY <2>3, <3>1
    <3> HIDE DEF h
    <3> QED
      BY <2>1, <3>1, <3>2
  <2> QED
    BY <2>2, <2>3
<1>7. h = [k \in 0..m |-> h[k]]
  OBVIOUS
<1> HIDE DEF h
<1>8. Grids(s, h, m)
  BY <1>6, <1>7 DEF Grids
<1> QED
  BY <1>2, <1>8

LEMMA CoverageIs ==
    ASSUME NEW s \in Seq(ReturnType)
    PROVE  \E g : Grids(s, g, Len(s)) /\ Coverage(s) = g[Len(s)]
<1> DEFINE G == CHOOSE g : g = [k \in 0..Len(s) |-> IF k = 0 THEN Blank ELSE Integrate(g[k - 1], s[k])]
<1>1. \E g : g = [k \in 0..Len(s) |-> IF k = 0 THEN Blank ELSE Integrate(g[k - 1], s[k])]
  <2>1. Len(s) \in Nat
    OBVIOUS
  <2>2. \E g : Grids(s, g, Len(s))
    BY <2>1, GridsExist
  <2> QED
    BY <2>2 DEF Grids
<1>2. Grids(s, G, Len(s))
  BY <1>1 DEF Grids
<1>3. Coverage(s) = G[Len(s)]
  BY DEF Coverage, Blank
<1> QED
  BY <1>2, <1>3

(* A ray has as many samples as it needs, and none is before the first.    *)
LEMMA RayDomain ==
    ASSUME NEW p \in Point
    PROVE  DOMAIN RayCells(p) = 1..Steps(p) /\ Steps(p) \in Nat
<1> DEFINE b == Beyond(p)
           T == {n \in 0..(2 * b) : n * n * Resolution * Resolution >= 4 * b}
<1>1. b \in Nat
  <2>1. p[1] \in Int /\ p[2] \in Int
    BY DEF Point
  <2>2. p[1] * p[1] >= 0 /\ p[2] * p[2] >= 0
    BY <2>1
  <2> QED
    BY <2>1, <2>2 DEF Beyond, Dot
<1>2. Resolution \in Nat /\ Resolution >= 1
  BY LocalMapAssumption DEF LocalMapConfigValid
<1> HIDE DEF b
<1>3. 2 * b \in T
  <2> DEFINE n == 2 * b
  <2>1. n \in Nat /\ n * n >= 4 * b
    <3>1. b = 0 \/ b >= 1
      BY <1>1
    <3>2. b * b >= b
      BY <1>1, <3>1
    <3>3. n * n = 4 * (b * b)
      BY <1>1
    <3> QED
      BY <1>1, <3>2, <3>3
  <2> HIDE DEF n
  <2>2. n * n * Resolution >= n * n
    BY <1>2, <2>1
  <2>3. n * n * Resolution * Resolution >= n * n * Resolution
    BY <1>2, <2>1, <2>2
  <2>4. n * n * Resolution * Resolution >= 4 * b
    BY <1>1, <1>2, <2>1, <2>2, <2>3
  <2> QED
    BY <1>1, <2>4 DEF n
<1>4. T \in SUBSET Nat
  BY <1>1
<1> HIDE DEF T
<1>5. PICK x \in T : \A y \in T : x <= y
  BY <1>3, <1>4, LeastNumber
<1>6. Min(T) \in T
  BY <1>5 DEF Min
<1>7. Steps(p) \in Nat
  BY <1>4, <1>6 DEF Steps, T, b
<1> QED
  BY <1>7 DEF RayCells

(* Occupied is what has been hit, and free what was seen through: no hit   *)
(* so far lies on the ray up to there.                                     *)
InGrid(r) == CellOf(r.at, 1) # NoCell

HitUpTo(s, m, c) == \E j \in 1..m : InGrid(s[j]) /\ CellOf(s[j].at, 1) = c

SeenUpTo(s, m, c) ==
    \E j \in 1..m : \E i \in DOMAIN RayCells(s[j].at) :
        /\ InGrid(s[j])
        /\ RayCells(s[j].at)[i] = c
        /\ \A k \in 1..i : ~HitUpTo(s, j - 1, RayCells(s[j].at)[k])

Drawn(s, m, grid) ==
    /\ grid \in [Cells -> {"UNKNOWN", "FREE", "OCCUPIED"}]
    /\ \A c \in Cells : grid[c] = "OCCUPIED" <=> HitUpTo(s, m, c)
    /\ \A c \in Cells : grid[c] = "FREE" => SeenUpTo(s, m, c)

LEMMA IntegrateDraws ==
    ASSUME NEW s \in Seq(ReturnType), NEW m \in 1..Len(s), NEW grid, Drawn(s, m - 1, grid)
    PROVE  Drawn(s, m, Integrate(grid, s[m]))
<1> DEFINE r == s[m]
           hit == CellOf(r.at, 1)
           ray == RayCells(r.at)
           freed == SeenThrough(grid, ray)
           Passed(i) == \A k \in 1..i : ray[k] # NoCell => grid[ray[k]] # "OCCUPIED"
           new == Integrate(grid, r)
<1>1. /\ m \in 1..m /\ m \in Nat /\ m - 1 \in Nat
      /\ \A j \in 1..m : j = m \/ j \in 1..(m - 1)
      /\ \A j \in 1..(m - 1) : j \in 1..m
  OBVIOUS
<1>2. \A c : HitUpTo(s, m, c) <=> HitUpTo(s, m - 1, c) \/ (InGrid(r) /\ hit = c)
  BY <1>1 DEF HitUpTo
<1>3. \A c : SeenUpTo(s, m - 1, c) => SeenUpTo(s, m, c)
  BY <1>1 DEF SeenUpTo
<1>4. /\ grid \in [Cells -> {"UNKNOWN", "FREE", "OCCUPIED"}]
      /\ \A c \in Cells : grid[c] = "OCCUPIED" <=> HitUpTo(s, m - 1, c)
      /\ \A c \in Cells : grid[c] = "FREE" => SeenUpTo(s, m - 1, c)
  BY DEF Drawn
<1>5. \A j : InGrid(s[j]) => CellOf(s[j].at, 1) \in Cells
  BY DEF InGrid, CellOf
<1>6. CASE ~InGrid(r)
  <2>1. new = grid
    BY <1>6 DEF Integrate, InGrid
  <2>2. \A c \in Cells : new[c] = "OCCUPIED" <=> HitUpTo(s, m, c)
    BY <1>2, <1>4, <1>6, <2>1
  <2>3. \A c \in Cells : new[c] = "FREE" => SeenUpTo(s, m, c)
    BY <1>3, <1>4, <2>1
  <2> QED
    BY <1>4, <2>1, <2>2, <2>3 DEF Drawn
<1>7. CASE InGrid(r)
  <2>1. new = [c \in Cells |-> IF c = hit THEN "OCCUPIED"
                               ELSE IF c \in freed THEN "FREE" ELSE grid[c]]
    BY <1>7 DEF Integrate, InGrid
  <2>2. \A c \in freed : \E i \in DOMAIN ray : ray[i] = c /\ Passed(i)
    BY DEF SeenThrough
  <2> HIDE DEF new, freed, ray, hit
  <2>3. new \in [Cells -> {"UNKNOWN", "FREE", "OCCUPIED"}]
    BY <1>4, <2>1
  <2>4. \A c : HitUpTo(s, m - 1, c) => c \in Cells /\ c # NoCell
    BY <1>5 DEF HitUpTo, InGrid
  <2>5. \A i \in DOMAIN ray : Passed(i) =>
            \A k \in 1..i : ~HitUpTo(s, m - 1, ray[k])
    BY <1>4, <2>4
  <2>6. \A c \in freed : SeenUpTo(s, m, c)
    <3> SUFFICES ASSUME NEW c \in freed PROVE SeenUpTo(s, m, c)
      OBVIOUS
    <3>1. PICK i \in DOMAIN ray : ray[i] = c /\ Passed(i)
      BY <2>2
    <3>2. \A k \in 1..i : ~HitUpTo(s, m - 1, ray[k])
      BY <2>5, <3>1
    <3> QED
      BY <1>1, <1>7, <3>1, <3>2 DEF SeenUpTo, ray
  <2>7. \A c \in Cells : c \in freed => ~HitUpTo(s, m - 1, c)
    <3> SUFFICES ASSUME NEW c \in freed, HitUpTo(s, m - 1, c) PROVE FALSE
      OBVIOUS
    <3>1. PICK i \in DOMAIN ray : ray[i] = c /\ Passed(i)
      BY <2>2
    <3>2. DOMAIN ray \subseteq Nat \ {0}
      <4>1. r \in ReturnType
        OBVIOUS
      <4>2. r.at \in Point
        BY <4>1 DEF ReturnType
      <4> QED
        BY <4>2, RayDomain DEF ray
    <3>3. i \in 1..i
      BY <3>2
    <3> QED
      BY <2>5, <3>1, <3>3
  <2>8. \A c \in Cells : new[c] = "OCCUPIED" <=> HitUpTo(s, m, c)
    <3> SUFFICES ASSUME NEW c \in Cells PROVE new[c] = "OCCUPIED" <=> HitUpTo(s, m, c)
      OBVIOUS
    <3>1. CASE c = hit
      BY <1>2, <1>7, <2>1, <3>1
    <3>2. CASE c # hit /\ c \in freed
      BY <1>2, <2>1, <2>7, <3>2
    <3>3. CASE c # hit /\ c \notin freed
      BY <1>2, <1>4, <2>1, <3>3
    <3> QED
      BY <3>1, <3>2, <3>3
  <2>9. \A c \in Cells : new[c] = "FREE" => SeenUpTo(s, m, c)
    BY <1>3, <1>4, <2>1, <2>6
  <2> QED
    BY <2>3, <2>8, <2>9 DEF Drawn, new
<1> QED
  BY <1>6, <1>7

LEMMA CoverageDraws ==
    ASSUME NEW s \in Seq(ReturnType)
    PROVE  Drawn(s, Len(s), Coverage(s))
<1>1. Len(s) \in Nat
  OBVIOUS
<1>2. PICK g : Grids(s, g, Len(s)) /\ Coverage(s) = g[Len(s)]
  BY CoverageIs
<1>3. \A k \in 0..Len(s) : g[k] = IF k = 0 THEN Blank ELSE Integrate(g[k - 1], s[k])
  BY <1>2 DEF Grids
<1> DEFINE Bad == {m \in 0..Len(s) : ~Drawn(s, m, g[m])}
<1>4. Bad = {}
  <2>1. SUFFICES ASSUME Bad # {} PROVE FALSE
    OBVIOUS
  <2>2. PICK m \in Bad : \A y \in Bad : m <= y
    <3>1. Bad \in SUBSET Nat
      OBVIOUS
    <3> HIDE DEF Bad
    <3> QED
      BY <2>1, <3>1, LeastNumber
  <2>3. m \in 0..Len(s) /\ ~Drawn(s, m, g[m])
    BY <2>2
  <2>4. Drawn(s, 0, Blank)
    <3>1. \A c : ~HitUpTo(s, 0, c)
      BY DEF HitUpTo
    <3> QED
      BY <3>1 DEF Drawn, Blank
  <2>5. m # 0
    BY <1>1, <1>3, <2>3, <2>4
  <2>6. m \in 1..Len(s) /\ m - 1 \in 0..Len(s) /\ ~(m <= m - 1)
    BY <1>1, <2>3, <2>5
  <2>7. Drawn(s, m - 1, g[m - 1])
    <3>1. m - 1 \notin Bad
      <4> HIDE DEF Bad
      <4> QED
        BY <2>2, <2>6
    <3> QED
      BY <2>6, <3>1
  <2>8. Drawn(s, m, Integrate(g[m - 1], s[m]))
    BY <2>6, <2>7, IntegrateDraws
  <2> QED
    BY <1>3, <2>3, <2>5, <2>8
<1>5. Len(s) \in 0..Len(s)
  BY <1>1
<1> QED
  BY <1>2, <1>4, <1>5

(* The walk down the corridor.                                             *)
LEMMA ColumnsAre ==
    ASSUME NEW i \in Int, NEW j \in Int
    PROVE  /\ ColumnStart(i) \in Int
           /\ ColumnStart(i) >= 0
           /\ i <= j => ColumnStart(i) <= ColumnStart(j)
           /\ \A x \in Int : x >= 0 /\ x >= Origin[1] + i * Resolution => x >= ColumnStart(i)
           /\ \A x \in Int : x >= ColumnStart(i) => x >= 0 /\ x >= Origin[1] + i * Resolution
<1> DEFINE a == Origin[1] + i * Resolution
           b == Origin[1] + j * Resolution
<1>1. Resolution \in Nat /\ Origin[1] \in Int
  BY LocalMapAssumption DEF LocalMapConfigValid, Point
<1>2. a \in Int /\ b \in Int
  BY <1>1
<1>3. i <= j => a <= b
  <2> SUFFICES ASSUME i <= j PROVE a <= b
    OBVIOUS
  <2> DEFINE d == j - i
  <2>1. d \in Nat /\ j = i + d
    OBVIOUS
  <2> HIDE DEF d
  <2>2. j * Resolution = i * Resolution + d * Resolution
    BY <1>1, <2>1
  <2>3. d * Resolution >= 0
    BY <1>1, <2>1
  <2> QED
    BY <1>1, <2>2, <2>3
<1>4. ColumnStart(i) = Greater(0, a) /\ ColumnStart(j) = Greater(0, b)
  BY DEF ColumnStart
<1> HIDE DEF a, b
<1> QED
  BY <1>2, <1>3, <1>4 DEF Greater, a

(* The cell of a return, and the row of the robot.                         *)
LEMMA CellsAre ==
    ASSUME NEW p \in Point, CellOf(p, 1) # NoCell
    PROVE  /\ CellOf(p, 1) \in Cells
           /\ CellOf(p, 1)[1] = (p[1] - Origin[1]) \div Resolution
           /\ CellOf(p, 1)[2] = (p[2] - Origin[2]) \div Resolution
<1>1. Resolution \in Nat /\ Origin[1] \in Int /\ Origin[2] \in Int /\ p[1] \in Int /\ p[2] \in Int
  BY LocalMapAssumption DEF LocalMapConfigValid, Point
<1>2. 1 * Origin[1] = Origin[1] /\ 1 * Origin[2] = Origin[2] /\ 1 * Resolution = Resolution
  BY <1>1
<1> QED
  BY <1>2 DEF CellOf

LEMMA Quotients ==
    ASSUME NEW a \in Int, NEW r \in Nat \ {0}, NEW q \in Int
    PROVE  /\ a \div r \in Int
           /\ r * (a \div r) <= a /\ a < r * (a \div r) + r
           /\ q * r <= a => q <= a \div r
<1> DEFINE x == a \div r
<1>1. x \in Int /\ r * x <= a /\ a < r * (x + 1)
  OBVIOUS
<1> HIDE DEF x
<1>2. a < r * x + r
  BY <1>1
<1>3. ASSUME q * r <= a PROVE q <= x
  <2>1. q * r < r * (x + 1)
    BY <1>1, <1>3
  <2>2. q < x + 1
    BY <1>1, <2>1
  <2> QED
    BY <1>1, <2>2
<1> QED
  BY <1>1, <1>2, <1>3 DEF x

LEMMA StartIs ==
    ASSUME StartCell # NoCell
    PROVE  StartCell \in Cells /\ StartCell[1] \in 0..(Columns - 1) /\ StartCell[2] \in CorridorRows
<1> DEFINE y == StartCell[2]
           b == 0 - Origin[2]
<1>1. /\ Resolution \in Nat \ {0} /\ Columns \in Nat /\ Rows \in Nat
      /\ Origin[1] \in Int /\ Origin[2] \in Int
      /\ SelfRadius \in Nat /\ CorridorWidth \in Nat /\ CorridorWidth >= Resolution
  BY LocalMapAssumption DEF LocalMapConfigValid, Point
<1>2. <<SelfRadius, 0>> \in Point
  BY <1>1 DEF Point
<1>3. StartCell \in Cells /\ y = b \div Resolution
  BY <1>2, CellsAre DEF StartCell
<1>4. StartCell[1] \in 0..(Columns - 1) /\ y \in 0..(Rows - 1)
  BY <1>3 DEF Cells
<1>5. b \in Int
  BY <1>1
<1>6. Resolution * y <= b /\ b < Resolution * y + Resolution
  BY <1>1, <1>3, <1>5, Quotients
<1>7. y \in Int
  BY <1>1, <1>4
<1> HIDE DEF y
<1> DEFINE ry == Resolution * y
<1>8. ry \in Int /\ 2 * Origin[2] + (2 * y + 1) * Resolution = 2 * Origin[2] + 2 * ry + Resolution
  BY <1>1, <1>7
<1> HIDE DEF ry
<1>9. ry <= 0 - Origin[2] /\ 0 - Origin[2] < ry + Resolution
  BY <1>6 DEF ry, b
<1>10. /\ 2 * Origin[2] + 2 * ry + Resolution <= CorridorWidth
       /\ -(2 * Origin[2] + 2 * ry + Resolution) <= CorridorWidth
  BY <1>1, <1>8, <1>9
<1>11. y \in CorridorRows
  BY <1>4, <1>8, <1>10 DEF CorridorRows, y
<1> QED
  BY <1>3, <1>4, <1>11 DEF y

(* The map is that of the cloud.                                           *)
LocalMapInv ==
    view.made =>
        /\ cloud \in Seq(ReturnType)
        /\ view.cells = Coverage(InOrder(cloud))
        /\ view.corridor = Corridor(view.cells)

LEMMA HitsAre ==
    ASSUME cloud \in Seq(ReturnType)
    PROVE  /\ \A p \in Hits : \E j \in 1..Len(InOrder(cloud)) :
                  p = InOrder(cloud)[j].at /\ InGrid(InOrder(cloud)[j])
           /\ \A j \in 1..Len(InOrder(cloud)) :
                  InGrid(InOrder(cloud)[j]) => InOrder(cloud)[j].at \in Hits
           /\ \A p \in Hits : p \in Point /\ CellOf(p, 1) # NoCell
<1>1. Hits = {p \in {cloud[i].at : i \in ValidIds(cloud)} : CellOf(p, 1) # NoCell}
  BY DEF Hits, Counted, ValidIds
<1>2. \A i \in ValidIds(cloud) : cloud[i].at \in Point
  <2>1. \A i \in ValidIds(cloud) : cloud[i] \in ReturnType
    BY DEF ValidIds
  <2> QED
    BY <2>1 DEF ReturnType
<1> QED
  BY <1>1, <1>2, OrderIs DEF InGrid

LEMMA FreeCells ==
    ASSUME LocalMapInv
    PROVE  FreeCellsAreSeen
<1> SUFFICES ASSUME view.made, NEW c \in Cells
             PROVE  /\ view.cells[c] = "OCCUPIED" <=> \E p \in Hits : CellOf(p, 1) = c
                    /\ view.cells[c] = "FREE" =>
                          \E p \in Hits : \E i \in DOMAIN RayCells(p) :
                              /\ RayCells(p)[i] = c
                              /\ \A q \in Hits : \A k \in 1..i :
                                    CellOf(q, 1) = RayCells(p)[k] => Beyond(q) >= Beyond(p)
  BY DEF FreeCellsAreSeen
<1> DEFINE s == InOrder(cloud)
           n == Len(s)
<1>1. cloud \in Seq(ReturnType) /\ view.cells = Coverage(s)
  BY DEF LocalMapInv
<1>2. s \in Seq(ReturnType) /\ n \in Nat
  BY <1>1, OrderIs
<1>3. Drawn(s, n, view.cells)
  BY <1>1, <1>2, CoverageDraws
<1>4. /\ \A p \in Hits : \E j \in 1..n : p = s[j].at /\ InGrid(s[j])
      /\ \A j \in 1..n : InGrid(s[j]) => s[j].at \in Hits
      /\ \A p \in Hits : p \in Point /\ CellOf(p, 1) # NoCell
  BY <1>1, HitsAre
<1>5. \A k, m \in 1..n : k <= m => Beyond(s[k].at) <= Beyond(s[m].at)
  BY <1>1, OrderIs
<1> HIDE DEF s, n
<1>6. view.cells[c] = "OCCUPIED" <=> \E p \in Hits : CellOf(p, 1) = c
  <2>1. view.cells[c] = "OCCUPIED" <=> HitUpTo(s, n, c)
    BY <1>3 DEF Drawn
  <2>2. HitUpTo(s, n, c) <=> \E p \in Hits : CellOf(p, 1) = c
    BY <1>4 DEF HitUpTo
  <2> QED
    BY <2>1, <2>2
<1>7. ASSUME view.cells[c] = "FREE"
      PROVE  \E p \in Hits : \E i \in DOMAIN RayCells(p) :
                 /\ RayCells(p)[i] = c
                 /\ \A q \in Hits : \A k \in 1..i :
                       CellOf(q, 1) = RayCells(p)[k] => Beyond(q) >= Beyond(p)
  <2>1. SeenUpTo(s, n, c)
    BY <1>3, <1>7 DEF Drawn
  <2>2. PICK j \in 1..n : \E i \in DOMAIN RayCells(s[j].at) :
            /\ InGrid(s[j])
            /\ RayCells(s[j].at)[i] = c
            /\ \A k \in 1..i : ~HitUpTo(s, j - 1, RayCells(s[j].at)[k])
    BY <2>1 DEF SeenUpTo
  <2> DEFINE p == s[j].at
  <2>3. PICK i \in DOMAIN RayCells(p) :
            /\ InGrid(s[j])
            /\ RayCells(p)[i] = c
            /\ \A k \in 1..i : ~HitUpTo(s, j - 1, RayCells(p)[k])
    BY <2>2
  <2>4. p \in Hits
    BY <1>4, <2>3
  <2>5. ASSUME NEW q \in Hits, NEW k \in 1..i, CellOf(q, 1) = RayCells(p)[k]
        PROVE  Beyond(q) >= Beyond(p)
    <3>1. PICK m \in 1..n : q = s[m].at /\ InGrid(s[m])
      BY <1>4
    <3>2. ~(m \in 1..(j - 1))
      <4> SUFFICES ASSUME m \in 1..(j - 1) PROVE FALSE
        OBVIOUS
      <4>1. HitUpTo(s, j - 1, RayCells(p)[k])
        BY <2>5, <3>1 DEF HitUpTo
      <4> QED
        BY <2>3, <4>1
    <3>3. j <= m
      BY <1>2, <3>2
    <3>4. Beyond(s[j].at) <= Beyond(s[m].at)
      BY <1>5, <3>3
    <3>5. Beyond(p) \in Int /\ Beyond(q) \in Int
      BY <1>4, <2>4, BeyondIs
    <3> QED
      BY <3>1, <3>4, <3>5
  <2> QED
    BY <2>3, <2>4, <2>5
<1> QED
  BY <1>6, <1>7

LEMMA ClearAhead ==
    ASSUME LocalMapInv
    PROVE  ClearAheadIsSeen
<1> SUFFICES ASSUME view.made, view.corridor.valid
             PROVE  /\ \A p \in Hits :
                          /\ p[1] >= ColumnStart(StartCell[1])
                          /\ CellOf(p, 1)[2] \in CorridorRows
                          => p[1] >= view.corridor.free
                    /\ \A column \in StartCell[1]..(Columns - 1) :
                          ColumnStart(column) < view.corridor.free =>
                              \E p \in Hits : <<column, StartCell[2]>> \in ToSet(RayCells(p))
  BY DEF ClearAheadIsSeen
<1> DEFINE s == InOrder(cloud)
           n == Len(s)
           grid == view.cells
           first == Min(Blocking(grid))
           start == StartCell[1]
<1>1. cloud \in Seq(ReturnType) /\ grid = Coverage(s) /\ view.corridor = Corridor(grid)
  BY DEF LocalMapInv
<1>2. s \in Seq(ReturnType)
  BY <1>1, OrderIs
<1>3. Drawn(s, n, grid)
  BY <1>1, <1>2, CoverageDraws
<1>4. FreeCellsAreSeen
  BY FreeCells
<1>5. /\ Resolution \in Nat \ {0} /\ Columns \in Nat /\ Rows \in Nat
      /\ Origin[1] \in Int /\ Origin[2] \in Int
  BY LocalMapAssumption DEF LocalMapConfigValid, Point
<1>6. StartCell # NoCell
  <2> SUFFICES ASSUME StartCell = NoCell PROVE FALSE
    OBVIOUS
  <2>1. Corridor(grid).valid = FALSE
    BY DEF Corridor
  <2> QED
    BY <1>1, <2>1
<1>7. StartCell \in Cells /\ start \in 0..(Columns - 1) /\ StartCell[2] \in CorridorRows
  BY <1>6, StartIs
<1>8. StartCell[2] \in 0..(Rows - 1) /\ start \in Int
  BY <1>5, <1>7 DEF CorridorRows
<1>9. Blocking(grid) \in SUBSET (start..(Columns - 1))
  BY DEF Blocking
<1>10. Blocking(grid) # {} =>
          first \in Blocking(grid) /\ \A x \in Blocking(grid) : first <= x
  <2> SUFFICES ASSUME Blocking(grid) # {}
               PROVE  first \in Blocking(grid) /\ \A x \in Blocking(grid) : first <= x
    OBVIOUS
  <2>1. Blocking(grid) \in SUBSET Nat
    BY <1>5, <1>7, <1>9
  <2>2. PICK x \in Blocking(grid) : \A y \in Blocking(grid) : x <= y
    BY <2>1, LeastNumber
  <2> QED
    BY <2>2 DEF Min
<1>11. Blocking(grid) # {} => first > start /\ view.corridor.free = ColumnStart(first)
  <2> SUFFICES ASSUME Blocking(grid) # {}
               PROVE  first > start /\ view.corridor.free = ColumnStart(first)
    OBVIOUS
  <2> DEFINE hit == \E row \in CorridorRows : grid[<<first, row>>] = "OCCUPIED"
  <2>1. Corridor(grid) = [free |-> IF first = start /\ ~hit THEN 0 ELSE ColumnStart(first),
                          valid |-> first > start]
    BY <1>6 DEF Corridor
  <2> HIDE DEF first, hit, grid
  <2>2. /\ Corridor(grid).valid = (first > start)
        /\ Corridor(grid).free = IF first = start /\ ~hit THEN 0 ELSE ColumnStart(first)
    BY <2>1
  <2>3. first > start
    BY <1>1, <2>2
  <2>4. first \in Int
    BY <1>8, <1>9, <1>10 DEF grid
  <2> QED
    BY <1>1, <1>8, <2>2, <2>3, <2>4
(* A hit in the corridor ahead is in a column the walk ends at.            *)
<1>12. ASSUME NEW p \in Hits, p[1] >= ColumnStart(start), CellOf(p, 1)[2] \in CorridorRows
       PROVE  /\ CellOf(p, 1)[1] \in Blocking(grid)
              /\ p[1] \in Int /\ p[1] >= 0
              /\ p[1] >= Origin[1] + CellOf(p, 1)[1] * Resolution
  <2> DEFINE column == CellOf(p, 1)[1]
             a == p[1] - Origin[1]
  <2>1. p \in Point /\ CellOf(p, 1) # NoCell
    BY <1>1, HitsAre
  <2>2. CellOf(p, 1) \in Cells /\ column = a \div Resolution
    BY <2>1, CellsAre
  <2>3. p[1] \in Int /\ a \in Int
    BY <1>5, <2>1 DEF Point
  <2>4. p[1] >= 0 /\ p[1] >= Origin[1] + start * Resolution
    BY <1>8, <1>12, <2>3, ColumnsAre
  <2>5. start * Resolution <= a
    <3> DEFINE r == start * Resolution
    <3>1. r \in Int
      BY <1>5, <1>8
    <3>2. p[1] >= Origin[1] + r
      BY <2>4
    <3> HIDE DEF r
    <3>3. r <= a
      BY <1>5, <2>3, <3>1, <3>2
    <3> QED
      BY <3>3 DEF r
  <2>6. start <= column /\ Resolution * column <= a /\ column \in Int
    BY <1>5, <1>8, <2>2, <2>3, <2>5, Quotients
  <2>7. column \in start..(Columns - 1)
    <3>1. column \in 0..(Columns - 1)
      BY <2>2 DEF Cells
    <3> QED
      BY <1>5, <1>8, <2>6, <3>1
  <2>8. grid[CellOf(p, 1)] = "OCCUPIED" /\ CellOf(p, 1) = <<column, CellOf(p, 1)[2]>>
    <3>1. grid[CellOf(p, 1)] = "OCCUPIED"
      BY <1>4, <2>2 DEF FreeCellsAreSeen
    <3>2. CellOf(p, 1) = <<CellOf(p, 1)[1], CellOf(p, 1)[2]>>
      BY <2>2 DEF Cells
    <3> QED
      BY <3>1, <3>2
  <2>9. column \in Blocking(grid)
    BY <1>12, <2>7, <2>8 DEF Blocking
  <2>10. p[1] >= Origin[1] + column * Resolution
    <3>1. column * Resolution = Resolution * column
      BY <1>5, <2>6
    <3> DEFINE r == Resolution * column
    <3>2. r \in Int /\ r <= p[1] - Origin[1]
      BY <1>5, <2>6
    <3> HIDE DEF r
    <3>3. p[1] >= Origin[1] + r
      BY <1>5, <2>3, <3>2
    <3> QED
      BY <3>1, <3>3 DEF r
  <2> QED
    BY <2>3, <2>4, <2>9, <2>10
<1>13. ASSUME NEW p \in Hits, p[1] >= ColumnStart(start), CellOf(p, 1)[2] \in CorridorRows
       PROVE  p[1] >= view.corridor.free
  <2> DEFINE column == CellOf(p, 1)[1]
  <2>1. column \in Blocking(grid) /\ p[1] \in Int /\ p[1] >= 0 /\ p[1] >= Origin[1] + column * Resolution
    BY <1>12, <1>13
  <2>2. first \in Blocking(grid) /\ first <= column /\ view.corridor.free = ColumnStart(first)
    BY <1>10, <1>11, <2>1
  <2>3. first \in Int /\ column \in Int
    BY <1>8, <1>9, <2>1, <2>2
  <2> HIDE DEF first, column
  <2>4. p[1] >= ColumnStart(column)
    BY <2>1, <2>3, ColumnsAre
  <2>5. ColumnStart(first) <= ColumnStart(column) /\ ColumnStart(first) \in Int /\ ColumnStart(column) \in Int
    BY <2>2, <2>3, ColumnsAre
  <2> QED
    BY <2>1, <2>2, <2>4, <2>5
(* Every column before that has been seen on the robot's row.              *)
<1>14. ASSUME NEW column \in start..(Columns - 1), ColumnStart(column) < view.corridor.free
       PROVE  \E p \in Hits : <<column, StartCell[2]>> \in ToSet(RayCells(p))
  <2>1. column \in Int /\ column \in 0..(Columns - 1)
    BY <1>5, <1>7, <1>8
  <2>2. column \notin Blocking(grid)
    <3> SUFFICES ASSUME column \in Blocking(grid) PROVE FALSE
      OBVIOUS
    <3>1. first <= column /\ first \in Blocking(grid) /\ view.corridor.free = ColumnStart(first)
      BY <1>10, <1>11
    <3>2. first \in Int
      BY <1>8, <1>9, <3>1
    <3> HIDE DEF first
    <3>3. ColumnStart(first) <= ColumnStart(column) /\ ColumnStart(first) \in Int /\ ColumnStart(column) \in Int
      BY <2>1, <3>1, <3>2, ColumnsAre
    <3> QED
      BY <1>14, <3>1, <3>3
  <2> DEFINE cell == <<column, StartCell[2]>>
  <2>3. cell \in Cells
    BY <1>8, <2>1 DEF Cells
  <2>4. grid[cell] # "OCCUPIED" /\ grid[cell] # "UNKNOWN"
    BY <1>7, <2>2 DEF Blocking
  <2> HIDE DEF cell
  <2>5. grid[cell] = "FREE"
    <3>1. grid \in [Cells -> {"UNKNOWN", "FREE", "OCCUPIED"}]
      BY <1>3 DEF Drawn
    <3>2. grid[cell] \in {"UNKNOWN", "FREE", "OCCUPIED"}
      BY <2>3, <3>1
    <3> QED
      BY <2>4, <3>2
  <2>6. PICK p \in Hits : \E i \in DOMAIN RayCells(p) : RayCells(p)[i] = cell
    BY <1>4, <2>3, <2>5 DEF FreeCellsAreSeen
  <2>7. p \in Point
    BY <1>1, HitsAre
  <2>8. cell \in ToSet(RayCells(p))
    BY <2>6, <2>7, RayDomain DEF ToSet
  <2> QED
    BY <2>8 DEF cell
<1> QED
  BY <1>13, <1>14

(* What the map calls free, a cell or the way ahead, was seen to be so,    *)
(* and no return that counts is lost: for any cloud, any grid and any      *)
(* corridor that is at least a cell wide.                                  *)
THEOREM FreeSpaceSeen == LocalMapSpec => []FreeIsSeen
<1>1. LocalMapInit => LocalMapInv
  BY DEF LocalMapInit, LocalMapInv
<1>2. LocalMapInv /\ [LocalMapNext]_localMapVars => LocalMapInv'
  <2> SUFFICES ASSUME LocalMapInv, [LocalMapNext]_localMapVars PROVE LocalMapInv'
    OBVIOUS
  <2>1. CASE UNCHANGED localMapVars
    BY <2>1 DEF LocalMapInv, localMapVars
  <2>2. ASSUME NEW c \in Clouds, BuildMap(c) PROVE LocalMapInv'
    <3>1. c \in Seq(ReturnType) /\ cloud' = c
      BY <2>2, LocalMapAssumption DEF BuildMap
    <3>2. CASE Len(c) > MaxPoints
      <4>1. view' = [made |-> FALSE]
        BY <2>2, <3>2 DEF BuildMap
      <4> QED
        BY <4>1 DEF LocalMapInv
    <3>3. CASE ~(Len(c) > MaxPoints)
      <4> DEFINE grid == Coverage(InOrder(c))
      <4>1. view' = [made |-> TRUE, obstacles |-> InOrder(c), cells |-> grid,
                     corridor |-> Corridor(grid)]
        BY <2>2, <3>3 DEF BuildMap
      <4> HIDE DEF grid
      <4>2. view'.cells = grid /\ view'.corridor = Corridor(grid)
        BY <4>1
      <4> QED
        BY <3>1, <4>2 DEF LocalMapInv, grid
    <3> QED
      BY <3>2, <3>3
  <2> QED
    BY <2>1, <2>2 DEF LocalMapNext
<1>3. LocalMapInv => FreeIsSeen
  BY FreeCells, ClearAhead DEF FreeIsSeen
<1> QED
  BY <1>1, <1>2, <1>3, PTL DEF LocalMapSpec

-----------------------------------------------------------------------------
(* A point q, seen from the start of a segment d, and k of N parts of it.  *)
LEMMA SpreadGap ==
    ASSUME NEW q1 \in Int, NEW q2 \in Int, NEW d1 \in Int, NEW d2 \in Int,
           NEW N \in Int, NEW k \in Int
    PROVE  (N * q1 - k * d1) * (N * q1 - k * d1) + (N * q2 - k * d2) * (N * q2 - k * d2)
             = (N * N) * (q1 * q1 + q2 * q2) - (2 * N * k) * (q1 * d1 + q2 * d2)
                 + (k * k) * (d1 * d1 + d2 * d2)
  OBVIOUS

LEMMA Lagrange ==
    ASSUME NEW q1 \in Int, NEW q2 \in Int, NEW d1 \in Int, NEW d2 \in Int
    PROVE  (q1 * d2 - q2 * d1) * (q1 * d2 - q2 * d1)
             = (d1 * d1 + d2 * d2) * (q1 * q1 + q2 * q2)
                 - (q1 * d1 + q2 * d2) * (q1 * d1 + q2 * d2)
  OBVIOUS

(* g is minimal before the start, past the end and at the foot.            *)
LEMMA BeforeStart ==
    ASSUME NEW N \in Nat, NEW k \in Nat, NEW along \in Int, along <= 0, NEW len \in Nat, NEW qq \in Int
    PROVE  N * N * qq <= (N * N) * qq - (2 * N * k) * along + (k * k) * len
<1>1. PICK x, y, z : x = (N * N) * qq /\ y = (2 * N * k) * (-along) /\ z = (k * k) * len
  OBVIOUS
<1>2. 2 * N * k \in Nat /\ k * k \in Nat /\ -along \in Nat
  OBVIOUS
<1>3. x \in Int /\ y >= 0 /\ z >= 0 /\ y \in Int /\ z \in Int
  BY <1>1, <1>2
<1>4. (2 * N * k) * along = -y
  BY <1>1, <1>2
<1> QED
  BY <1>1, <1>3, <1>4

LEMMA PastEnd ==
    ASSUME NEW N \in Nat, NEW k \in 0..N, NEW along \in Int, NEW len \in Nat, len <= along, NEW qq \in Int
    PROVE  N * N * (qq - 2 * along + len) <= (N * N) * qq - (2 * N * k) * along + (k * k) * len
<1>1. PICK r, e : r = N - k /\ e = along - len
  OBVIOUS
<1>2. r \in Nat /\ e \in Nat /\ k \in Nat
  BY <1>1
<1>3. (N * N) * qq - (2 * N * k) * along + (k * k) * len - N * N * (qq - 2 * along + len)
        = (2 * N * r) * e + (r * r) * len
  <2>1. N = k + r /\ along = len + e
    BY <1>1, <1>2
  <2> QED
    BY <1>2, <2>1
<1>4. (2 * N * r) * e >= 0 /\ (r * r) * len >= 0
  <2>1. 2 * N * r \in Nat /\ r * r \in Nat
    BY <1>2
  <2> QED
    BY <1>2, <2>1
<1>5. PICK x, y, z, w : /\ x = (N * N) * qq - (2 * N * k) * along + (k * k) * len
                        /\ y = N * N * (qq - 2 * along + len)
                        /\ z = (2 * N * r) * e /\ w = (r * r) * len
  OBVIOUS
<1>6. x \in Int /\ y \in Int /\ z \in Int /\ w \in Int
  BY <1>2, <1>5
<1>7. x - y = z + w /\ z >= 0 /\ w >= 0
  BY <1>3, <1>4, <1>5
<1>8. y <= x
  BY <1>6, <1>7
<1> QED
  BY <1>5, <1>8

LEMMA AtFoot ==
    ASSUME NEW N \in Nat, NEW k \in Nat, NEW along \in Int, NEW len \in Nat, NEW qq \in Int
    PROVE  /\ len * ((N * N) * qq - (2 * N * k) * along + (k * k) * len)
                - N * N * (len * qq - along * along) = (N * along - k * len) * (N * along - k * len)
           /\ (N * along - k * len) * (N * along - k * len) >= 0
<1>1. len * ((N * N) * qq - (2 * N * k) * along + (k * k) * len)
                - N * N * (len * qq - along * along) = (N * along - k * len) * (N * along - k * len)
  OBVIOUS
<1>2. PICK x : x = N * along - k * len
  OBVIOUS
<1>3. x \in Int
  BY <1>2
<1>4. x * x >= 0
  BY <1>3
<1> QED
  BY <1>1, <1>2, <1>4

LEMMA Cancels ==
    ASSUME NEW x \in Int, NEW y \in Int, NEW c \in Int, c > 0
    PROVE  /\ c * x <= c * y => x <= y
           /\ c * x = c * y => x = y
           /\ c * x >= 0 => x >= 0
  OBVIOUS

LEMMA Keeps ==
    ASSUME NEW x \in Int, NEW y \in Int, NEW c \in Int, c >= 0, x <= y
    PROVE  c * x <= c * y
<1>1. PICK z : z = y - x
  OBVIOUS
<1>2. z \in Nat /\ c \in Nat
  BY <1>1
<1>3. c * z \in Nat
  BY <1>2
<1>4. c * y = c * x + c * z
  <2>1. y = x + z
    BY <1>1
  <2> QED
    BY <1>2, <2>1
<1>5. PICK u, v, w : u = c * x /\ v = c * y /\ w = c * z
  OBVIOUS
<1>6. u \in Int /\ v \in Int /\ w \in Nat /\ v = u + w
  BY <1>2, <1>3, <1>4, <1>5
<1> QED
  BY <1>5, <1>6

LEMMA Squares ==
    ASSUME NEW x \in Int
    PROVE  x * x \in Nat /\ (x * x = 0 => x = 0)
  OBVIOUS

(* How far p is, N times, from the position after k of N parts from a to b. *)
Gap(p, a, b, k, N) == SquaredDistance(Times(N, p), Way(a, b, k, N))

LEMMA GapIs ==
    ASSUME NEW p \in Point, NEW a \in Point, NEW b \in Point, NEW N \in Int, NEW k \in Int
    PROVE  LET along == Dot(Minus(p, a), Minus(b, a)) IN
           /\ SquaredDistance(p, a) \in Nat /\ SquaredDistance(a, b) \in Nat /\ along \in Int
           /\ Gap(p, a, b, k, N) \in Nat
           /\ Gap(p, a, b, k, N) = (N * N) * SquaredDistance(p, a) - (2 * N * k) * along
                                     + (k * k) * SquaredDistance(a, b)
           /\ SquaredDistance(p, b) = SquaredDistance(p, a) - 2 * along + SquaredDistance(a, b)
           /\ Cross(Minus(p, a), Minus(b, a)) \in Int
           /\ Cross(Minus(p, a), Minus(b, a)) * Cross(Minus(p, a), Minus(b, a))
                = SquaredDistance(a, b) * SquaredDistance(p, a) - along * along
<1>1. PICK q1, q2, d1, d2 : q1 = p[1] - a[1] /\ q2 = p[2] - a[2]
                              /\ d1 = b[1] - a[1] /\ d2 = b[2] - a[2]
  OBVIOUS
<1>2. /\ p[1] \in Int /\ p[2] \in Int /\ a[1] \in Int /\ a[2] \in Int /\ b[1] \in Int /\ b[2] \in Int
      /\ q1 \in Int /\ q2 \in Int /\ d1 \in Int /\ d2 \in Int
  BY <1>1 DEF Point
<1>3. SquaredDistance(p, a) = q1 * q1 + q2 * q2
  BY <1>1 DEF SquaredDistance, Dot, Minus
<1>4. SquaredDistance(a, b) = d1 * d1 + d2 * d2
  <2>1. SquaredDistance(a, b) = (a[1] - b[1]) * (a[1] - b[1]) + (a[2] - b[2]) * (a[2] - b[2])
    BY DEF SquaredDistance, Dot, Minus
  <2>2. a[1] - b[1] = -d1 /\ a[2] - b[2] = -d2
    BY <1>1, <1>2
  <2> QED
    BY <1>2, <2>1, <2>2
<1>5. Dot(Minus(p, a), Minus(b, a)) = q1 * d1 + q2 * d2
  BY <1>1 DEF Dot, Minus
<1>6. Cross(Minus(p, a), Minus(b, a)) = q1 * d2 - q2 * d1
  BY <1>1 DEF Cross, Minus
<1>7. SquaredDistance(p, b) = (q1 - d1) * (q1 - d1) + (q2 - d2) * (q2 - d2)
  <2>1. SquaredDistance(p, b) = (p[1] - b[1]) * (p[1] - b[1]) + (p[2] - b[2]) * (p[2] - b[2])
    BY DEF SquaredDistance, Dot, Minus
  <2>2. p[1] - b[1] = q1 - d1 /\ p[2] - b[2] = q2 - d2
    BY <1>1, <1>2
  <2> QED
    BY <2>1, <2>2
<1>8. Gap(p, a, b, k, N) = (N * q1 - k * d1) * (N * q1 - k * d1) + (N * q2 - k * d2) * (N * q2 - k * d2)
  <2>1. Gap(p, a, b, k, N) =
          (N * p[1] - (N * a[1] + k * (b[1] - a[1]))) * (N * p[1] - (N * a[1] + k * (b[1] - a[1])))
          + (N * p[2] - (N * a[2] + k * (b[2] - a[2]))) * (N * p[2] - (N * a[2] + k * (b[2] - a[2])))
    BY DEF Gap, SquaredDistance, Dot, Minus, Times, Way
  <2>2. /\ N * p[1] - (N * a[1] + k * (b[1] - a[1])) = N * q1 - k * d1
        /\ N * p[2] - (N * a[2] + k * (b[2] - a[2])) = N * q2 - k * d2
    BY <1>1, <1>2
  <2> QED
    BY <2>1, <2>2
<1>9. q1 * q1 + q2 * q2 \in Nat /\ d1 * d1 + d2 * d2 \in Nat
      /\ (N * q1 - k * d1) * (N * q1 - k * d1) + (N * q2 - k * d2) * (N * q2 - k * d2) \in Nat
  <2>1. N * q1 - k * d1 \in Int /\ N * q2 - k * d2 \in Int
    BY <1>2
  <2> QED
    BY <1>2, <2>1, Squares
<1>10. Gap(p, a, b, k, N) = (N * N) * SquaredDistance(p, a)
           - (2 * N * k) * Dot(Minus(p, a), Minus(b, a)) + (k * k) * SquaredDistance(a, b)
  BY <1>2, <1>3, <1>4, <1>5, <1>8, SpreadGap
<1>11. SquaredDistance(p, b) = SquaredDistance(p, a) - 2 * Dot(Minus(p, a), Minus(b, a)) + SquaredDistance(a, b)
  BY <1>2, <1>3, <1>4, <1>5, <1>7
<1>12. Cross(Minus(p, a), Minus(b, a)) * Cross(Minus(p, a), Minus(b, a))
                = SquaredDistance(a, b) * SquaredDistance(p, a)
                    - Dot(Minus(p, a), Minus(b, a)) * Dot(Minus(p, a), Minus(b, a))
  BY <1>2, <1>3, <1>4, <1>5, <1>6, Lagrange
<1> QED
  BY <1>2, <1>3, <1>4, <1>5, <1>6, <1>8, <1>9, <1>10, <1>11, <1>12

LEMMA PointSegmentIs ==
    ASSUME NEW p \in Point, NEW a \in Point, NEW b \in Point
    PROVE  /\ PointSegment(p, a, b)[1] \in Nat
           /\ PointSegment(p, a, b)[2] \in Nat \ {0}
           /\ \A N \in Nat \ {0} : \A k \in 0..N :
                N * N * PointSegment(p, a, b)[1] <= PointSegment(p, a, b)[2] * Gap(p, a, b, k, N)
           /\ LET n == Greater(1, SquaredDistance(a, b))
                  part == Greater(0, Lesser(n, Dot(Minus(p, a), Minus(b, a))))
              IN  /\ n \in Nat \ {0} /\ part \in 0..n
                  /\ n * n * PointSegment(p, a, b)[1] = PointSegment(p, a, b)[2] * Gap(p, a, b, part, n)
<1>1. PICK along, len, qq, off : /\ along = Dot(Minus(p, a), Minus(b, a))
                                 /\ len = SquaredDistance(a, b)
                                 /\ qq = SquaredDistance(p, a)
                                 /\ off = Cross(Minus(p, a), Minus(b, a))
  OBVIOUS
<1>2. PICK f : f = PointSegment(p, a, b)
  OBVIOUS
<1>3. /\ along \in Int /\ len \in Nat /\ qq \in Nat /\ off \in Int
      /\ off * off = len * qq - along * along
      /\ SquaredDistance(p, b) = qq - 2 * along + len
      /\ SquaredDistance(p, b) \in Nat
  <2>1. 0 \in Int
    OBVIOUS
  <2> QED
    BY <1>1, <2>1, GapIs
<1>4. \A N \in Int, k \in Int :
        /\ Gap(p, a, b, k, N) \in Nat
        /\ Gap(p, a, b, k, N) = (N * N) * qq - (2 * N * k) * along + (k * k) * len
  BY <1>1, GapIs
<1>5. f = IF along <= 0 THEN <<qq, 1>>
          ELSE IF along >= len THEN <<qq - 2 * along + len, 1>>
          ELSE <<off * off, len>>
  BY <1>1, <1>2, <1>3 DEF PointSegment
<1>6. f[1] \in Nat /\ f[2] \in Nat \ {0}
  <2>1. off * off \in Nat
    BY <1>3, Squares
  <2> QED
    BY <1>3, <1>5, <2>1
<1>7. ASSUME NEW N \in Nat \ {0}, NEW k \in 0..N
      PROVE  N * N * f[1] <= f[2] * Gap(p, a, b, k, N)
  <2>0. N \in Nat /\ k \in Nat /\ N \in Int /\ k \in Int
    OBVIOUS
  <2>1. CASE along <= 0
    <3>1. N * N * qq <= (N * N) * qq - (2 * N * k) * along + (k * k) * len
      BY <1>3, <2>0, <2>1, BeforeStart
    <3>2. f[1] = qq /\ f[2] = 1
      BY <1>5, <2>1
    <3>3. Gap(p, a, b, k, N) \in Nat /\ N * N * qq <= Gap(p, a, b, k, N)
      BY <1>4, <2>0, <3>1
    <3> QED
      BY <3>2, <3>3
  <2>2. CASE ~(along <= 0) /\ along >= len
    <3>1. N * N * (qq - 2 * along + len) <= (N * N) * qq - (2 * N * k) * along + (k * k) * len
      BY <1>3, <2>0, <2>2, PastEnd
    <3>2. f = <<qq - 2 * along + len, 1>>
      BY <1>5, <2>2
    <3>3. N * N * f[1] = N * N * (qq - 2 * along + len) /\ f[2] = 1
      BY <3>2
    <3>4. Gap(p, a, b, k, N) \in Nat /\ N * N * (qq - 2 * along + len) <= Gap(p, a, b, k, N)
      BY <1>4, <2>0, <3>1
    <3> QED
      BY <3>3, <3>4
  <2>3. CASE ~(along <= 0) /\ ~(along >= len)
    <3>1. f[1] = len * qq - along * along /\ f[2] = len
      BY <1>3, <1>5, <2>3
    <3>2. /\ len * ((N * N) * qq - (2 * N * k) * along + (k * k) * len)
                - N * N * (len * qq - along * along) = (N * along - k * len) * (N * along - k * len)
          /\ (N * along - k * len) * (N * along - k * len) >= 0
      BY <1>3, <2>0, AtFoot
    <3>3. PICK x, y, z : /\ x = len * ((N * N) * qq - (2 * N * k) * along + (k * k) * len)
                         /\ y = N * N * (len * qq - along * along)
                         /\ z = (N * along - k * len) * (N * along - k * len)
      OBVIOUS
    <3>4. x \in Int /\ y \in Int /\ z \in Int
      BY <1>3, <2>0, <3>3
    <3>5. y <= x
      BY <3>2, <3>3, <3>4
    <3> QED
      BY <1>4, <2>0, <3>1, <3>3, <3>5
  <2> QED
    BY <2>1, <2>2, <2>3
<1>8. PICK n, part : n = Greater(1, len) /\ part = Greater(0, Lesser(n, along))
  OBVIOUS
<1>9. n \in Nat \ {0} /\ part \in 0..n
  BY <1>3, <1>8 DEF Greater, Lesser
<1>10. n * n * f[1] = f[2] * Gap(p, a, b, part, n)
  <2>0. Gap(p, a, b, part, n) = (n * n) * qq - (2 * n * part) * along + (part * part) * len
    <3>1. n \in Int /\ part \in Int
      BY <1>9
    <3> QED
      BY <1>4, <3>1
  <2>1. CASE along <= 0
    <3>1. part = 0 /\ f[1] = qq /\ f[2] = 1
      BY <1>3, <1>5, <1>8, <1>9, <2>1 DEF Greater, Lesser
    <3>2. Gap(p, a, b, part, n) = n * n * qq
      BY <1>3, <1>9, <2>0, <3>1
    <3> QED
      BY <1>3, <1>9, <3>1, <3>2
  <2>2. CASE ~(along <= 0) /\ along >= len
    <3>1. part = n
      BY <1>3, <1>8, <1>9, <2>2 DEF Greater, Lesser
    <3>2. f = <<qq - 2 * along + len, 1>>
      BY <1>5, <2>2
    <3>3. f[1] = qq - 2 * along + len /\ f[2] = 1
      BY <3>2
    <3>4. Gap(p, a, b, part, n) = n * n * (qq - 2 * along + len)
      BY <1>3, <1>9, <2>0, <3>1
    <3> QED
      BY <1>3, <1>9, <3>3, <3>4
  <2>3. CASE ~(along <= 0) /\ ~(along >= len)
    <3>1. part = along /\ n = len
      BY <1>3, <1>8, <1>9, <2>3 DEF Greater, Lesser
    <3>2. f[1] = len * qq - along * along /\ f[2] = len
      BY <1>3, <1>5, <2>3
    <3>3. len * len * (len * qq - along * along)
            = len * ((len * len) * qq - (2 * len * along) * along + (along * along) * len)
      BY <1>3
    <3> QED
      BY <2>0, <3>1, <3>2, <3>3
  <2> QED
    BY <2>1, <2>2, <2>3
<1> QED
  BY <1>1, <1>2, <1>6, <1>7, <1>8, <1>9, <1>10

(* No further than the bound exactly when some position on the way is.     *)
LEMMA PointSegmentIsExact ==
    ASSUME NEW p \in Point, NEW a \in Point, NEW b \in Point, NEW bound \in Nat
    PROVE  /\ \A N \in Nat \ {0} : \A k \in 0..N :
                Gap(p, a, b, k, N) <= (N * bound) * (N * bound) => NoFurther(PointSegment(p, a, b), bound)
           /\ LET n == Greater(1, SquaredDistance(a, b))
                  part == Greater(0, Lesser(n, Dot(Minus(p, a), Minus(b, a))))
              IN  /\ n \in Nat \ {0} /\ part \in 0..n
                  /\ NoFurther(PointSegment(p, a, b), bound)
                       <=> Gap(p, a, b, part, n) <= (n * bound) * (n * bound)
<1>1. PICK f1, f2 : f1 = PointSegment(p, a, b)[1] /\ f2 = PointSegment(p, a, b)[2]
  OBVIOUS
<1>2. f1 \in Nat /\ f2 \in Nat \ {0} /\ bound * bound \in Nat
  BY <1>1, PointSegmentIs
<1>3. NoFurther(PointSegment(p, a, b), bound) <=> f1 <= bound * bound * f2
  BY <1>1 DEF NoFurther
<1>4. \A N, k \in Int : Gap(p, a, b, k, N) \in Nat
  BY GapIs
<1>5. ASSUME NEW N \in Nat \ {0}, NEW k \in 0..N,
             N * N * f1 <= f2 * Gap(p, a, b, k, N), Gap(p, a, b, k, N) <= (N * bound) * (N * bound)
      PROVE  f1 <= bound * bound * f2
  <2>1. PICK G : G = Gap(p, a, b, k, N)
    OBVIOUS
  <2>2. G \in Int /\ (N * bound) * (N * bound) \in Int /\ f2 >= 0 /\ f2 \in Int
    <3>1. N \in Int /\ k \in Int
      OBVIOUS
    <3> QED
      BY <1>2, <1>4, <2>1, <3>1
  <2>3. f2 * G <= f2 * ((N * bound) * (N * bound))
    BY <1>5, <2>1, <2>2, Keeps
  <2>4. f2 * ((N * bound) * (N * bound)) = (N * N) * (bound * bound * f2)
    BY <1>2
  <2>5. (N * N) * f1 <= (N * N) * (bound * bound * f2)
    <3>1. PICK x, y, z : x = N * N * f1 /\ y = f2 * G /\ z = (N * N) * (bound * bound * f2)
      OBVIOUS
    <3>2. x \in Int /\ y \in Int /\ z \in Int
      BY <1>2, <2>2, <3>1
    <3>3. x <= y /\ y <= z
      BY <1>5, <2>1, <2>3, <2>4, <3>1
    <3>4. x <= z
      BY <3>2, <3>3
    <3> QED
      BY <3>1, <3>4
  <2>6. N * N \in Int /\ N * N > 0
    OBVIOUS
  <2>7. f1 \in Int /\ bound * bound * f2 \in Int
    BY <1>2
  <2> QED
    BY <2>5, <2>6, <2>7, Cancels
<1>6. ASSUME NEW N \in Nat \ {0}, NEW k \in 0..N,
             N * N * f1 = f2 * Gap(p, a, b, k, N), f1 <= bound * bound * f2
      PROVE  Gap(p, a, b, k, N) <= (N * bound) * (N * bound)
  <2>1. PICK G : G = Gap(p, a, b, k, N)
    OBVIOUS
  <2>2. G \in Int /\ (N * bound) * (N * bound) \in Int /\ f2 > 0 /\ f2 \in Int
    <3>1. N \in Int /\ k \in Int
      OBVIOUS
    <3> QED
      BY <1>2, <1>4, <2>1, <3>1
  <2>3. (N * N) * f1 <= (N * N) * (bound * bound * f2)
    <3>1. N * N \in Int /\ N * N >= 0 /\ f1 \in Int /\ bound * bound * f2 \in Int
      BY <1>2
    <3> QED
      BY <1>6, <3>1, Keeps
  <2>4. f2 * ((N * bound) * (N * bound)) = (N * N) * (bound * bound * f2)
    BY <1>2
  <2>5. f2 * G <= f2 * ((N * bound) * (N * bound))
    BY <1>6, <2>1, <2>3, <2>4
  <2> QED
    BY <2>1, <2>2, <2>5, Cancels
<1>7. PICK n, part : /\ n = Greater(1, SquaredDistance(a, b))
                     /\ part = Greater(0, Lesser(n, Dot(Minus(p, a), Minus(b, a))))
  OBVIOUS
<1>8. /\ n \in Nat \ {0} /\ part \in 0..n
      /\ n * n * f1 = f2 * Gap(p, a, b, part, n)
  BY <1>1, <1>7, PointSegmentIs
<1>9. \A N \in Nat \ {0} : \A k \in 0..N : N * N * f1 <= f2 * Gap(p, a, b, k, N)
  BY <1>1, PointSegmentIs
<1>10. NoFurther(PointSegment(p, a, b), bound) <=> Gap(p, a, b, part, n) <= (n * bound) * (n * bound)
  BY <1>3, <1>5, <1>6, <1>8, <1>9
<1> QED
  BY <1>3, <1>5, <1>7, <1>8, <1>9, <1>10

LEMMA PointsAre ==
    ASSUME NEW p \in Point, NEW q \in Point
    PROVE  /\ p[1] \in Int /\ p[2] \in Int /\ q[1] \in Int /\ q[2] \in Int
           /\ Minus(p, q) \in Point
           /\ Minus(p, q)[1] = p[1] - q[1] /\ Minus(p, q)[2] = p[2] - q[2]
  BY DEF Point, Minus

(* The robots part after k of n parts of the step as the relative motion   *)
(* does from the origin.                                                   *)
LEMMA RobotsGap ==
    ASSUME NEW m \in PairMoveType, NEW n \in Int, NEW k \in Int
    PROVE  /\ RelativeStart(m) \in Point /\ RelativeEnd(m) \in Point /\ <<0, 0>> \in Point
           /\ Gap(<<0, 0>>, RelativeStart(m), RelativeEnd(m), k, n)
                = SquaredDistance(Way(m.g0, m.g1, k, n), Way(m.e0, m.e1, k, n))
           /\ LET delta == Minus(RelativeEnd(m), RelativeStart(m))
                  closest == <<n * RelativeStart(m)[1] + k * delta[1],
                               n * RelativeStart(m)[2] + k * delta[2]>>
              IN  /\ Dot(closest, closest) = Gap(<<0, 0>>, RelativeStart(m), RelativeEnd(m), k, n)
                  /\ Dot(delta, delta) = SquaredDistance(RelativeStart(m), RelativeEnd(m))
                  /\ -Dot(RelativeStart(m), delta)
                       = Dot(Minus(<<0, 0>>, RelativeStart(m)), Minus(RelativeEnd(m), RelativeStart(m)))
<1>1. m.g0 \in Point /\ m.g1 \in Point /\ m.e0 \in Point /\ m.e1 \in Point
  BY DEF PairMoveType
<1>2. PICK s, t, o : s = RelativeStart(m) /\ t = RelativeEnd(m) /\ o = <<0, 0>>
  OBVIOUS
<1>3. /\ s \in Point /\ t \in Point /\ o \in Point
      /\ s[1] = m.e0[1] - m.g0[1] /\ s[2] = m.e0[2] - m.g0[2]
      /\ t[1] = m.e1[1] - m.g1[1] /\ t[2] = m.e1[2] - m.g1[2]
      /\ o[1] = 0 /\ o[2] = 0
  <2>1. o \in Point /\ o[1] = 0 /\ o[2] = 0
    BY <1>2 DEF Point
  <2> QED
    BY <1>1, <1>2, <2>1, PointsAre DEF RelativeStart, RelativeEnd
<1>4. PICK s1, s2, d1, d2 : s1 = s[1] /\ s2 = s[2] /\ d1 = t[1] - s[1] /\ d2 = t[2] - s[2]
  OBVIOUS
<1>5. s1 \in Int /\ s2 \in Int /\ d1 \in Int /\ d2 \in Int /\ t[1] = s1 + d1 /\ t[2] = s2 + d2
  BY <1>3, <1>4 DEF Point
<1>6. PICK x, y : x = n * s1 + k * d1 /\ y = n * s2 + k * d2
  OBVIOUS
<1>7. x \in Int /\ y \in Int
  BY <1>5, <1>6
<1>8. Gap(o, s, t, k, n) = x * x + y * y
  <2>1. Gap(o, s, t, k, n) = (n * o[1] - (n * s[1] + k * (t[1] - s[1]))) * (n * o[1] - (n * s[1] + k * (t[1] - s[1])))
          + (n * o[2] - (n * s[2] + k * (t[2] - s[2]))) * (n * o[2] - (n * s[2] + k * (t[2] - s[2])))
    BY DEF Gap, SquaredDistance, Dot, Minus, Times, Way
  <2>2. /\ n * o[1] - (n * s[1] + k * (t[1] - s[1])) = -x
        /\ n * o[2] - (n * s[2] + k * (t[2] - s[2])) = -y
    BY <1>3, <1>4, <1>5, <1>6, <1>7
  <2> QED
    BY <1>7, <2>1, <2>2
<1>9. SquaredDistance(Way(m.g0, m.g1, k, n), Way(m.e0, m.e1, k, n)) = x * x + y * y
  <2>1. \A i \in {1, 2} : /\ m.g0[i] \in Int /\ m.g1[i] \in Int /\ m.e0[i] \in Int /\ m.e1[i] \in Int
    BY <1>1 DEF Point
  <2>2. PICK v1, v2 :
          /\ v1 = (n * m.g0[1] + k * (m.g1[1] - m.g0[1])) - (n * m.e0[1] + k * (m.e1[1] - m.e0[1]))
          /\ v2 = (n * m.g0[2] + k * (m.g1[2] - m.g0[2])) - (n * m.e0[2] + k * (m.e1[2] - m.e0[2]))
    OBVIOUS
  <2>3. SquaredDistance(Way(m.g0, m.g1, k, n), Way(m.e0, m.e1, k, n)) = v1 * v1 + v2 * v2
    BY <2>2 DEF SquaredDistance, Dot, Minus, Way
  <2>4. v1 = -x /\ v2 = -y
    <3>1. x = n * (m.e0[1] - m.g0[1]) + k * ((m.e1[1] - m.g1[1]) - (m.e0[1] - m.g0[1]))
      BY <1>3, <1>4, <1>6
    <3>2. y = n * (m.e0[2] - m.g0[2]) + k * ((m.e1[2] - m.g1[2]) - (m.e0[2] - m.g0[2]))
      BY <1>3, <1>4, <1>6
    <3>3. \A g, h, e, f \in Int :
            (n * g + k * (h - g)) - (n * e + k * (f - e)) = -(n * (e - g) + k * ((f - h) - (e - g)))
      OBVIOUS
    <3>4. v1 = -(n * (m.e0[1] - m.g0[1]) + k * ((m.e1[1] - m.g1[1]) - (m.e0[1] - m.g0[1])))
      BY <2>1, <2>2, <3>3
    <3>5. v2 = -(n * (m.e0[2] - m.g0[2]) + k * ((m.e1[2] - m.g1[2]) - (m.e0[2] - m.g0[2])))
      BY <2>1, <2>2, <3>3
    <3> QED
      BY <3>1, <3>2, <3>4, <3>5
  <2> QED
    BY <1>7, <2>3, <2>4
<1>10. PICK delta : delta = Minus(t, s)
  OBVIOUS
<1>11. delta[1] = d1 /\ delta[2] = d2
  BY <1>4, <1>10 DEF Minus
<1>12. PICK closest : closest = <<n * s[1] + k * delta[1], n * s[2] + k * delta[2]>>
  OBVIOUS
<1>13. closest[1] = x /\ closest[2] = y
  BY <1>4, <1>6, <1>11, <1>12
<1>14. Dot(closest, closest) = x * x + y * y
  BY <1>13 DEF Dot
<1>15. Dot(delta, delta) = SquaredDistance(s, t)
  <2>1. SquaredDistance(s, t) = (s[1] - t[1]) * (s[1] - t[1]) + (s[2] - t[2]) * (s[2] - t[2])
    BY DEF SquaredDistance, Dot, Minus
  <2>2. s[1] - t[1] = -d1 /\ s[2] - t[2] = -d2
    BY <1>3, <1>4, <1>5
  <2>3. Dot(delta, delta) = d1 * d1 + d2 * d2
    BY <1>11 DEF Dot
  <2> QED
    BY <1>5, <2>1, <2>2, <2>3
<1>16. -Dot(s, delta) = Dot(Minus(o, s), Minus(t, s))
  <2>1. Dot(s, delta) = s1 * d1 + s2 * d2
    BY <1>4, <1>11 DEF Dot
  <2>2. Dot(Minus(o, s), Minus(t, s)) = (o[1] - s[1]) * (t[1] - s[1]) + (o[2] - s[2]) * (t[2] - s[2])
    BY DEF Dot, Minus
  <2>3. o[1] - s[1] = -s1 /\ o[2] - s[2] = -s2 /\ t[1] - s[1] = d1 /\ t[2] - s[2] = d2
    BY <1>3, <1>4, <1>5
  <2> QED
    BY <1>5, <2>1, <2>2, <2>3
<1> QED
  BY <1>2, <1>3, <1>8, <1>9, <1>10, <1>12, <1>14, <1>15, <1>16

LEMMA RobotsAreExact ==
    ASSUME NEW m \in PairMoveType, Radius \in Nat
    PROVE  LET n == Greater(1, SquaredDistance(RelativeStart(m), RelativeEnd(m)))
               bound == n * 2 * Radius
               Touch == \E k \in 0..n :
                           SquaredDistance(Way(m.g0, m.g1, k, n), Way(m.e0, m.e1, k, n))
                               <= bound * bound
           IN  RobotContact(m) = Touch /\ RefereeCollision(m) = Touch
<1>1. PICK n, part, bound : /\ n = Greater(1, SquaredDistance(RelativeStart(m), RelativeEnd(m)))
                     /\ part = Greater(0, Lesser(n, Dot(Minus(<<0, 0>>, RelativeStart(m)),
                                                        Minus(RelativeEnd(m), RelativeStart(m)))))
                     /\ bound = 2 * Radius
  OBVIOUS
<1>2. RelativeStart(m) \in Point /\ RelativeEnd(m) \in Point /\ <<0, 0>> \in Point /\ bound \in Nat
  <2>1. 0 \in Int
    OBVIOUS
  <2>2. RelativeStart(m) \in Point /\ RelativeEnd(m) \in Point /\ <<0, 0>> \in Point
    BY <2>1, RobotsGap
  <2> QED
    BY <1>1, <2>2
<1>3. /\ \A k \in 0..n : Gap(<<0, 0>>, RelativeStart(m), RelativeEnd(m), k, n) <= (n * bound) * (n * bound)
                            => RobotContact(m)
      /\ n \in Nat \ {0} /\ part \in 0..n
      /\ RobotContact(m) <=> Gap(<<0, 0>>, RelativeStart(m), RelativeEnd(m), part, n) <= (n * bound) * (n * bound)
  <2>1. RobotContact(m) <=> NoFurther(PointSegment(<<0, 0>>, RelativeStart(m), RelativeEnd(m)), bound)
    BY <1>1 DEF RobotContact, NearestApproach
  <2>2. n \in Nat \ {0} /\ part \in 0..n
    BY <1>1, <1>2, PointSegmentIsExact
  <2>3. \A k \in 0..n : Gap(<<0, 0>>, RelativeStart(m), RelativeEnd(m), k, n) <= (n * bound) * (n * bound)
             => NoFurther(PointSegment(<<0, 0>>, RelativeStart(m), RelativeEnd(m)), bound)
    BY <1>2, <2>2, PointSegmentIsExact
  <2>4. NoFurther(PointSegment(<<0, 0>>, RelativeStart(m), RelativeEnd(m)), bound)
          <=> Gap(<<0, 0>>, RelativeStart(m), RelativeEnd(m), part, n) <= (n * bound) * (n * bound)
    BY <1>1, <1>2, PointSegmentIsExact
  <2> QED
    BY <2>1, <2>2, <2>3, <2>4
<1>4. \A k \in 0..n : Gap(<<0, 0>>, RelativeStart(m), RelativeEnd(m), k, n)
                        = SquaredDistance(Way(m.g0, m.g1, k, n), Way(m.e0, m.e1, k, n))
  <2>1. n \in Int /\ \A k \in 0..n : k \in Int
    BY <1>3
  <2> QED
    BY <2>1, RobotsGap
<1>5. (n * 2 * Radius) * (n * 2 * Radius) = (n * bound) * (n * bound)
  BY <1>1, <1>3
<1>6. RobotContact(m) <=> \E k \in 0..n :
        SquaredDistance(Way(m.g0, m.g1, k, n), Way(m.e0, m.e1, k, n)) <= (n * 2 * Radius) * (n * 2 * Radius)
  BY <1>3, <1>4, <1>5
<1>7. RefereeCollision(m) <=> RobotContact(m)
  <2>1. PICK delta : delta = Minus(RelativeEnd(m), RelativeStart(m))
    OBVIOUS
  <2>2. PICK closest : closest = <<n * RelativeStart(m)[1] + part * delta[1],
                                   n * RelativeStart(m)[2] + part * delta[2]>>
    OBVIOUS
  <2>3. n \in Int /\ part \in Int
    BY <1>3
  <2>4. /\ Dot(closest, closest) = Gap(<<0, 0>>, RelativeStart(m), RelativeEnd(m), part, n)
        /\ Dot(delta, delta) = SquaredDistance(RelativeStart(m), RelativeEnd(m))
        /\ -Dot(RelativeStart(m), delta)
             = Dot(Minus(<<0, 0>>, RelativeStart(m)), Minus(RelativeEnd(m), RelativeStart(m)))
    BY <2>1, <2>2, <2>3, RobotsGap
  <2>5. n = Greater(1, Dot(delta, delta)) /\ part = Greater(0, Lesser(n, -Dot(RelativeStart(m), delta)))
    BY <1>1, <2>4
  <2>6. RefereeCollision(m) <=> NoFurther(<<Dot(closest, closest), n * n>>, 2 * Radius)
    BY <2>1, <2>2, <2>5 DEF RefereeCollision
  <2>7. NoFurther(<<Dot(closest, closest), n * n>>, 2 * Radius) <=> Dot(closest, closest) <= bound * bound * (n * n)
    BY <1>1 DEF NoFurther
  <2>8. bound * bound * (n * n) = (n * bound) * (n * bound)
    BY <1>2, <1>3
  <2> QED
    BY <1>3, <2>4, <2>6, <2>7, <2>8
<1>8. RobotContact(m) \in BOOLEAN /\ RefereeCollision(m) \in BOOLEAN
  BY DEF RobotContact, RefereeCollision, NoFurther
<1> QED
  BY <1>1, <1>6, <1>7, <1>8

-----------------------------------------------------------------------------
(* How far the position after k of N parts from a to b is from that after  *)
(* j of N parts from c to d, N times.                                      *)
Between(a, b, c, d, N, k, j) == SquaredDistance(Way(a, b, k, N), Way(c, d, j, N))

AnEndIsNear(a, b, c, d, bound) ==
    \/ NoFurther(PointSegment(a, c, d), bound) \/ NoFurther(PointSegment(b, c, d), bound)
    \/ NoFurther(PointSegment(c, a, b), bound) \/ NoFurther(PointSegment(d, a, b), bound)

LEMMA WaysAre ==
    ASSUME NEW a \in Point, NEW b \in Point, NEW N \in Int, NEW k \in Int
    PROVE  /\ Way(a, b, k, N) \in Point /\ Times(N, a) \in Point
           /\ Way(a, b, 0, N) = Times(N, a)
           /\ Way(a, b, N, N) = Times(N, b)
           /\ \A l \in Int : Times(l, Way(a, b, k, N)) = Way(a, b, l * k, N * l)
<1>1. a[1] \in Int /\ a[2] \in Int /\ b[1] \in Int /\ b[2] \in Int
  BY PointsAre
<1>2. \A n, m \in Int : /\ n * a[1] + m * (b[1] - a[1]) \in Int
                        /\ n * a[2] + m * (b[2] - a[2]) \in Int
                        /\ n * a[1] \in Int /\ n * a[2] \in Int
  BY <1>1
<1>3. Way(a, b, k, N) \in Point /\ Times(N, a) \in Point
  BY <1>2 DEF Point, Way, Times
<1>4. Way(a, b, 0, N) = Times(N, a)
  <2>1. N * a[1] + 0 * (b[1] - a[1]) = N * a[1] /\ N * a[2] + 0 * (b[2] - a[2]) = N * a[2]
    BY <1>1
  <2> QED
    BY <2>1 DEF Way, Times
<1>5. Way(a, b, N, N) = Times(N, b)
  <2>1. N * a[1] + N * (b[1] - a[1]) = N * b[1] /\ N * a[2] + N * (b[2] - a[2]) = N * b[2]
    BY <1>1
  <2> QED
    BY <2>1 DEF Way, Times
<1>6. ASSUME NEW l \in Int
      PROVE  Times(l, Way(a, b, k, N)) = Way(a, b, l * k, N * l)
  <2>1. /\ l * (N * a[1] + k * (b[1] - a[1])) = (N * l) * a[1] + (l * k) * (b[1] - a[1])
        /\ l * (N * a[2] + k * (b[2] - a[2])) = (N * l) * a[2] + (l * k) * (b[2] - a[2])
    BY <1>1
  <2> QED
    BY <2>1 DEF Way, Times
<1> QED
  BY <1>3, <1>4, <1>5, <1>6

LEMMA DistanceIsMutual ==
    ASSUME NEW p \in Point, NEW q \in Point
    PROVE  SquaredDistance(p, q) = SquaredDistance(q, p)
<1>1. p[1] \in Int /\ p[2] \in Int /\ q[1] \in Int /\ q[2] \in Int
  BY PointsAre
<1>2. (p[1] - q[1]) * (p[1] - q[1]) + (p[2] - q[2]) * (p[2] - q[2])
        = (q[1] - p[1]) * (q[1] - p[1]) + (q[2] - p[2]) * (q[2] - p[2])
  BY <1>1
<1> QED
  BY <1>2 DEF SquaredDistance, Dot, Minus

LEMMA AtAnEnd ==
    ASSUME NEW a \in Point, NEW b \in Point, NEW c \in Point, NEW d \in Point,
           NEW N \in Int, NEW k \in Int
    PROVE  /\ Between(a, b, c, d, N, 0, k) = Gap(a, c, d, k, N)
           /\ Between(a, b, c, d, N, N, k) = Gap(b, c, d, k, N)
           /\ Between(a, b, c, d, N, k, 0) = Gap(c, a, b, k, N)
           /\ Between(a, b, c, d, N, k, N) = Gap(d, a, b, k, N)
<1>1. Way(a, b, 0, N) = Times(N, a) /\ Way(a, b, N, N) = Times(N, b)
  BY WaysAre
<1>2. Way(c, d, 0, N) = Times(N, c) /\ Way(c, d, N, N) = Times(N, d)
  BY WaysAre
<1>3. Way(a, b, k, N) \in Point /\ Times(N, c) \in Point /\ Times(N, d) \in Point
  BY WaysAre
<1> QED
  BY <1>1, <1>2, <1>3, DistanceIsMutual DEF Between, Gap

LEMMA EndsAreNear ==
    ASSUME NEW a \in Point, NEW b \in Point, NEW c \in Point, NEW d \in Point, NEW bound \in Nat,
           NEW N \in Nat \ {0}, NEW k \in 0..N, NEW j \in 0..N,
           Between(a, b, c, d, N, k, j) <= (N * bound) * (N * bound),
           k = 0 \/ k = N \/ j = 0 \/ j = N
    PROVE  AnEndIsNear(a, b, c, d, bound)
<1>1. N \in Int /\ k \in Int /\ j \in Int
  OBVIOUS
<1>2. CASE k = 0
  BY <1>1, <1>2, AtAnEnd, PointSegmentIsExact DEF AnEndIsNear
<1>3. CASE k = N
  BY <1>1, <1>3, AtAnEnd, PointSegmentIsExact DEF AnEndIsNear
<1>4. CASE j = 0
  BY <1>1, <1>4, AtAnEnd, PointSegmentIsExact DEF AnEndIsNear
<1>5. CASE j = N
  BY <1>1, <1>5, AtAnEnd, PointSegmentIsExact DEF AnEndIsNear
<1> QED
  BY <1>2, <1>3, <1>4, <1>5

(* The nearer of two is near if one of them is.                            *)
LEMMA NearerIs ==
    ASSUME NEW f, NEW g, NEW bound \in Nat,
           f[1] \in Nat, f[2] \in Nat \ {0}, g[1] \in Nat, g[2] \in Nat \ {0}
    PROVE  /\ NearerOf(f, g)[1] \in Nat /\ NearerOf(f, g)[2] \in Nat \ {0}
           /\ NoFurther(NearerOf(f, g), bound) <=> NoFurther(f, bound) \/ NoFurther(g, bound)
<1>1. PICK f1, f2, g1, g2, e : f1 = f[1] /\ f2 = f[2] /\ g1 = g[1] /\ g2 = g[2] /\ e = bound * bound
  OBVIOUS
<1>2. f1 \in Nat /\ f2 \in Nat /\ f2 > 0 /\ g1 \in Nat /\ g2 \in Nat /\ g2 > 0 /\ e \in Nat
  BY <1>1
<1>3. \A x1, x2, y1, y2 \in Nat : x2 > 0 /\ y2 > 0 /\ x1 * y2 <= y1 * x2 /\ y1 <= e * y2 => x1 <= e * x2
  <2> SUFFICES ASSUME NEW x1 \in Nat, NEW x2 \in Nat, NEW y1 \in Nat, NEW y2 \in Nat,
                      x2 > 0, y2 > 0, x1 * y2 <= y1 * x2, y1 <= e * y2
               PROVE  x1 <= e * x2
    OBVIOUS
  <2>1. x2 * y1 <= x2 * (e * y2)
    <3>1. e * y2 \in Int /\ x2 \in Int /\ y1 \in Int /\ x2 >= 0
      BY <1>2
    <3> QED
      BY <3>1, Keeps
  <2>2. y2 * x1 <= y2 * (e * x2)
    <3>1. PICK s, t, r : s = y2 * x1 /\ t = x2 * y1 /\ r = y2 * (e * x2)
      OBVIOUS
    <3>2. s \in Int /\ t \in Int /\ r \in Int
      BY <1>2, <3>1
    <3>3. x1 * y2 = s /\ y1 * x2 = t /\ x2 * (e * y2) = r
      BY <1>2, <3>1
    <3>4. s <= t /\ t <= r
      BY <2>1, <3>1, <3>3
    <3>5. s <= r
      BY <3>2, <3>4
    <3> QED
      BY <3>1, <3>5
  <2>3. x1 \in Int /\ e * x2 \in Int /\ y2 \in Int
    BY <1>2
  <2> QED
    BY <2>2, <2>3, Cancels
<1>4. f1 * g2 \in Int /\ g1 * f2 \in Int
  BY <1>2
<1>5. f1 * g2 <= g1 * f2 \/ g1 * f2 <= f1 * g2
  BY <1>4
<1>6. NoFurther(f, bound) <=> f1 <= e * f2
  BY <1>1 DEF NoFurther
<1>7. NoFurther(g, bound) <=> g1 <= e * g2
  BY <1>1 DEF NoFurther
<1>8. CASE f1 * g2 <= g1 * f2
  <2>1. NearerOf(f, g) = f
    BY <1>1, <1>8 DEF NearerOf
  <2> QED
    BY <1>1, <1>2, <1>3, <1>6, <1>7, <1>8, <2>1
<1>9. CASE ~(f1 * g2 <= g1 * f2)
  <2>1. NearerOf(f, g) = g
    BY <1>1, <1>9 DEF NearerOf
  <2> QED
    BY <1>1, <1>2, <1>3, <1>5, <1>6, <1>7, <1>9, <2>1
<1> QED
  BY <1>8, <1>9

LEMMA SegmentsAreNear ==
    ASSUME NEW a \in Point, NEW b \in Point, NEW c \in Point, NEW d \in Point, NEW bound \in Nat
    PROVE  NoFurther(SegmentDistance(a, b, c, d), bound)
             <=> Intersect(a, b, c, d) \/ AnEndIsNear(a, b, c, d, bound)
<1>1. CASE Intersect(a, b, c, d)
  <2>1. SegmentDistance(a, b, c, d) = <<0, 1>>
    BY <1>1 DEF SegmentDistance
  <2>2. bound * bound \in Nat
    OBVIOUS
  <2> QED
    BY <1>1, <2>1, <2>2 DEF NoFurther
<1>2. CASE ~Intersect(a, b, c, d)
  <2>1. PICK f, g, h, i : /\ f = PointSegment(a, c, d) /\ g = PointSegment(b, c, d)
                          /\ h = PointSegment(c, a, b) /\ i = PointSegment(d, a, b)
    OBVIOUS
  <2>2. /\ f[1] \in Nat /\ f[2] \in Nat \ {0} /\ g[1] \in Nat /\ g[2] \in Nat \ {0}
        /\ h[1] \in Nat /\ h[2] \in Nat \ {0} /\ i[1] \in Nat /\ i[2] \in Nat \ {0}
    BY <2>1, PointSegmentIs
  <2>3. PICK x, y : x = NearerOf(f, g) /\ y = NearerOf(h, i)
    OBVIOUS
  <2>4. /\ x[1] \in Nat /\ x[2] \in Nat \ {0}
        /\ NoFurther(x, bound) <=> NoFurther(f, bound) \/ NoFurther(g, bound)
    BY <2>2, <2>3, NearerIs
  <2>5. /\ y[1] \in Nat /\ y[2] \in Nat \ {0}
        /\ NoFurther(y, bound) <=> NoFurther(h, bound) \/ NoFurther(i, bound)
    BY <2>2, <2>3, NearerIs
  <2>6. SegmentDistance(a, b, c, d) = NearerOf(x, y)
    BY <1>2, <2>1, <2>3 DEF SegmentDistance
  <2>7. NoFurther(NearerOf(x, y), bound) <=> NoFurther(x, bound) \/ NoFurther(y, bound)
    BY <2>4, <2>5, NearerIs
  <2> QED
    BY <1>2, <2>1, <2>4, <2>5, <2>6, <2>7 DEF AnEndIsNear
<1> QED
  BY <1>1, <1>2

Offset(a, b, c, d, N, k, j, i) == N * (a[i] - c[i]) + k * (b[i] - a[i]) - j * (d[i] - c[i])

LEMMA BetweenIs ==
    ASSUME NEW a \in Point, NEW b \in Point, NEW c \in Point, NEW d \in Point,
           NEW N \in Int, NEW k \in Int, NEW j \in Int
    PROVE  /\ Offset(a, b, c, d, N, k, j, 1) \in Int /\ Offset(a, b, c, d, N, k, j, 2) \in Int
           /\ Between(a, b, c, d, N, k, j)
                = Offset(a, b, c, d, N, k, j, 1) * Offset(a, b, c, d, N, k, j, 1)
                    + Offset(a, b, c, d, N, k, j, 2) * Offset(a, b, c, d, N, k, j, 2)
           /\ Between(a, b, c, d, N, k, j) \in Nat
<1>1. /\ a[1] \in Int /\ a[2] \in Int /\ b[1] \in Int /\ b[2] \in Int
      /\ c[1] \in Int /\ c[2] \in Int /\ d[1] \in Int /\ d[2] \in Int
  BY PointsAre
<1>2. PICK x, y : x = Offset(a, b, c, d, N, k, j, 1) /\ y = Offset(a, b, c, d, N, k, j, 2)
  OBVIOUS
<1>3. x = N * (a[1] - c[1]) + k * (b[1] - a[1]) - j * (d[1] - c[1]) /\ x \in Int
  BY <1>1, <1>2 DEF Offset
<1>4. y = N * (a[2] - c[2]) + k * (b[2] - a[2]) - j * (d[2] - c[2]) /\ y \in Int
  BY <1>1, <1>2 DEF Offset
<1>5. /\ (N * a[1] + k * (b[1] - a[1])) - (N * c[1] + j * (d[1] - c[1])) = x
      /\ (N * a[2] + k * (b[2] - a[2])) - (N * c[2] + j * (d[2] - c[2])) = y
  BY <1>1, <1>3, <1>4
<1>6. Between(a, b, c, d, N, k, j) = x * x + y * y
  BY <1>5 DEF Between, SquaredDistance, Dot, Minus, Way
<1>7. x * x \in Nat /\ y * y \in Nat
  BY <1>3, <1>4, Squares
<1> QED
  BY <1>2, <1>3, <1>4, <1>6, <1>7

(* Moving both at once, e of x parts of X backwards on the one and of Y    *)
(* forwards on the other.                                                  *)
MovedBy(a, b, c, d, N, k, j, x, e, X, Y) ==
    \A i \in {1, 2} :
        Offset(a, b, c, d, x * N, x * k - e * X, x * j + e * Y, i)
            = x * Offset(a, b, c, d, N, k, j, i) - e * (X * (b[i] - a[i]) + Y * (d[i] - c[i]))

LEMMA Moved ==
    ASSUME NEW a \in Point, NEW b \in Point, NEW c \in Point, NEW d \in Point,
           NEW N \in Int, NEW k \in Int, NEW j \in Int,
           NEW x \in Int, NEW e \in Int, NEW X \in Int, NEW Y \in Int
    PROVE  MovedBy(a, b, c, d, N, k, j, x, e, X, Y)
<1> SUFFICES ASSUME NEW i \in {1, 2}
             PROVE  Offset(a, b, c, d, x * N, x * k - e * X, x * j + e * Y, i)
                      = x * Offset(a, b, c, d, N, k, j, i) - e * (X * (b[i] - a[i]) + Y * (d[i] - c[i]))
  BY DEF MovedBy
<1>1. a[i] \in Int /\ b[i] \in Int /\ c[i] \in Int /\ d[i] \in Int
  BY PointsAre
<1>2. PICK v, u, w : v = a[i] - c[i] /\ u = b[i] - a[i] /\ w = d[i] - c[i]
  OBVIOUS
<1>3. v \in Int /\ u \in Int /\ w \in Int
  BY <1>1, <1>2
<1>4. (x * N) * v + (x * k - e * X) * u - (x * j + e * Y) * w
        = x * (N * v + k * u - j * w) - e * (X * u + Y * w)
  BY <1>3
<1> QED
  BY <1>2, <1>4 DEF Offset

LEMMA Shrunk ==
    ASSUME NEW a \in Point, NEW b \in Point, NEW c \in Point, NEW d \in Point, NEW bound \in Nat,
           NEW N \in Nat, NEW k \in Int, NEW j \in Int,
           NEW x \in Nat, NEW r \in 0..x, NEW k1 \in Int, NEW j1 \in Int,
           Offset(a, b, c, d, x * N, k1, j1, 1) = r * Offset(a, b, c, d, N, k, j, 1),
           Offset(a, b, c, d, x * N, k1, j1, 2) = r * Offset(a, b, c, d, N, k, j, 2),
           Between(a, b, c, d, N, k, j) <= (N * bound) * (N * bound)
    PROVE  Between(a, b, c, d, x * N, k1, j1) <= ((x * N) * bound) * ((x * N) * bound)
<1>1. PICK p, q, S, S1 : /\ p = Offset(a, b, c, d, N, k, j, 1) /\ q = Offset(a, b, c, d, N, k, j, 2)
                         /\ S = Between(a, b, c, d, N, k, j) /\ S1 = Between(a, b, c, d, x * N, k1, j1)
  OBVIOUS
<1>2. p \in Int /\ q \in Int /\ S = p * p + q * q /\ S \in Nat
  BY <1>1, BetweenIs
<1>3. S1 = (r * p) * (r * p) + (r * q) * (r * q)
  <2>1. x * N \in Int
    OBVIOUS
  <2> QED
    BY <1>1, <2>1, BetweenIs
<1>4. S1 = (r * r) * S
  BY <1>2, <1>3
<1>5. r * r \in Nat /\ x * x \in Nat /\ r * r <= x * x
  OBVIOUS
<1>6. S * (r * r) <= S * (x * x)
  BY <1>2, <1>5, Keeps
<1>7. PICK B : B = (N * bound) * (N * bound)
  OBVIOUS
<1>8. B \in Int /\ S <= B
  BY <1>1, <1>7
<1>9. (x * x) * S <= (x * x) * B
  BY <1>2, <1>5, <1>8, Keeps
<1>10. (x * x) * B = ((x * N) * bound) * ((x * N) * bound)
  BY <1>7
<1>11. S1 <= (x * x) * B
  <2>1. PICK s, t, z : s = S * (r * r) /\ t = S * (x * x) /\ z = (x * x) * B
    OBVIOUS
  <2>2. s \in Int /\ t \in Int /\ z \in Int
    BY <1>2, <1>5, <1>8, <2>1
  <2>3. S1 = s /\ (x * x) * S = t
    BY <1>2, <1>4, <1>5, <2>1
  <2>4. s <= t /\ t <= z
    BY <1>6, <1>9, <2>1, <2>3
  <2>5. s <= z
    BY <2>2, <2>4
  <2> QED
    BY <2>1, <2>3, <2>5
<1> QED
  BY <1>1, <1>10, <1>11

(* The number K of 0..M, going down by X, leaves at the time e / x.        *)
LEMMA OneExit ==
    ASSUME NEW M \in Nat \ {0}, NEW K \in 0..M, NEW X \in Int, X # 0
    PROVE  \E e \in Nat : \E x \in Nat \ {0} :
             /\ x * K - e * X = 0 \/ x * K - e * X = x * M
             /\ \A e1 \in Nat : \A x1 \in Nat \ {0} : e1 * x <= e * x1 => x1 * K - e1 * X \in 0..(x1 * M)
<1>1. CASE X > 0
  <2>1. PICK e, x : e = K /\ x = X
    OBVIOUS
  <2>2. e \in Nat /\ x \in Nat \ {0} /\ x * K - e * X = 0
    BY <1>1, <2>1
  <2>3. ASSUME NEW e1 \in Nat, NEW x1 \in Nat \ {0}, e1 * x <= e * x1
        PROVE  x1 * K - e1 * X \in 0..(x1 * M)
    <3>1. PICK s, t, r : s = x1 * K /\ t = e1 * X /\ r = x1 * M
      OBVIOUS
    <3>2. s \in Int /\ t \in Nat /\ r \in Int
      BY <1>1, <3>1
    <3>3. t <= s
      BY <2>1, <2>3, <3>1
    <3>4. s <= r
      <4>1. x1 >= 0 /\ x1 \in Int /\ K \in Int /\ M \in Int /\ K <= M
        OBVIOUS
      <4> QED
        BY <3>1, <4>1, Keeps
    <3> QED
      BY <3>1, <3>2, <3>3, <3>4
  <2> QED
    BY <2>2, <2>3
<1>2. CASE X < 0
  <2>1. PICK e, x : e = M - K /\ x = -X
    OBVIOUS
  <2>2. e \in Nat /\ x \in Nat \ {0} /\ x * K - e * X = x * M
    <3>1. e \in Nat /\ x \in Nat \ {0} /\ X = -x /\ M = K + e
      BY <1>2, <2>1
    <3>2. x * K - e * (-x) = x * (K + e)
      BY <3>1
    <3> QED
      BY <3>1, <3>2
  <2>3. ASSUME NEW e1 \in Nat, NEW x1 \in Nat \ {0}, e1 * x <= e * x1
        PROVE  x1 * K - e1 * X \in 0..(x1 * M)
    <3>1. PICK s, t, r : s = x1 * K /\ t = e1 * x /\ r = x1 * M
      OBVIOUS
    <3>2. s \in Nat /\ t \in Nat /\ r \in Int
      BY <2>2, <3>1
    <3>3. e1 * X = -t
      BY <1>2, <2>1, <3>1
    <3>4. t <= r - s
      <4>1. e * x1 = r - s
        BY <2>1, <3>1
      <4> QED
        BY <2>3, <3>1, <4>1
    <3>5. s - (-t) \in 0..r
      BY <3>2, <3>4
    <3> QED
      BY <3>1, <3>3, <3>5
  <2> QED
    BY <2>2, <2>3
<1> QED
  BY <1>1, <1>2

LEMMA FirstExit ==
    ASSUME NEW M \in Nat \ {0}, NEW K \in 0..M, NEW J \in 0..M, NEW X \in Int, NEW Y \in Int,
           X # 0 \/ Y # 0
    PROVE  \E e \in Nat : \E x \in Nat \ {0} :
             /\ x * K - e * X \in 0..(x * M) /\ x * J + e * Y \in 0..(x * M)
             /\ \/ x * K - e * X = 0 \/ x * K - e * X = x * M
                \/ x * J + e * Y = 0 \/ x * J + e * Y = x * M
             /\ x <= e => K - X \in 0..M /\ J + Y \in 0..M
<1> DEFINE Exit(L, Z, e, x) ==
             /\ x * L - e * Z = 0 \/ x * L - e * Z = x * M
             /\ \A e1 \in Nat : \A x1 \in Nat \ {0} : e1 * x <= e * x1 => x1 * L - e1 * Z \in 0..(x1 * M)
           Stays(L, Z) == \A e1 \in Nat : \A x1 \in Nat \ {0} : x1 * L - e1 * Z \in 0..(x1 * M)
<1>1. \A L \in 0..M : \A Z \in Int : Z # 0 => \E e \in Nat : \E x \in Nat \ {0} : Exit(L, Z, e, x)
  BY OneExit
<1>2. ASSUME NEW L \in 0..M, NEW Z \in Int, Z = 0
      PROVE  Stays(L, Z)
  <2> SUFFICES ASSUME NEW e1 \in Nat, NEW x1 \in Nat \ {0} PROVE x1 * L - e1 * Z \in 0..(x1 * M)
    OBVIOUS
  <2>1. x1 * L \in Nat /\ x1 * M \in Nat /\ e1 * Z = 0
    BY <1>2
  <2>2. x1 * L <= x1 * M
    <3>1. x1 >= 0 /\ x1 \in Int /\ L \in Int /\ M \in Int /\ L <= M
      OBVIOUS
    <3> QED
      BY <3>1, Keeps
  <2> QED
    BY <2>1, <2>2
<1>3. /\ \A e, x \in Int : x * J - e * (-Y) = x * J + e * Y
      /\ -Y \in Int
      /\ Y # 0 => -Y # 0
      /\ Y = 0 => -Y = 0
      /\ 1 * K - 1 * X = K - X /\ 1 * J - 1 * (-Y) = J + Y /\ 1 * M = M
  OBVIOUS
<1>4. \A L \in Int, Z \in Int, e \in Nat, x \in Nat \ {0} :
        Exit(L, Z, e, x) => /\ x * L - e * Z \in 0..(x * M)
                            /\ x <= e => 1 * L - 1 * Z \in 0..(1 * M)
  <2> SUFFICES ASSUME NEW L \in Int, NEW Z \in Int, NEW e \in Nat, NEW x \in Nat \ {0}, Exit(L, Z, e, x)
               PROVE  /\ x * L - e * Z \in 0..(x * M)
                      /\ x <= e => 1 * L - 1 * Z \in 0..(1 * M)
    OBVIOUS
  <2>1. e * x <= e * x
    OBVIOUS
  <2>2. x <= e => 1 * x <= e * 1
    OBVIOUS
  <2>3. \A f \in Nat : \A y \in Nat \ {0} : f * x <= e * y => y * L - f * Z \in 0..(y * M)
    OBVIOUS
  <2> HIDE DEF Exit, Stays
  <2>4. x * L - e * Z \in 0..(x * M)
    BY <2>1, <2>3
  <2>5. ASSUME x <= e
        PROVE  1 * L - 1 * Z \in 0..(1 * M)
    <3>1. PICK one \in Nat \ {0} : one = 1
      OBVIOUS
    <3>2. one \in Nat /\ one * x <= e * one
      BY <2>2, <2>5, <3>1
    <3>3. one * L - one * Z \in 0..(one * M)
      BY <2>3, <3>2
    <3> QED
      BY <3>1, <3>3
  <2> QED
    BY <2>4, <2>5
<1>5. CASE X # 0 /\ Y = 0
  <2>1. PICK e \in Nat : \E x \in Nat \ {0} : Exit(K, X, e, x)
    BY <1>1, <1>5
  <2>2. PICK x \in Nat \ {0} : Exit(K, X, e, x)
    BY <2>1
  <2>3. Stays(J, -Y)
    BY <1>2, <1>3, <1>5
  <2>4. x * J - e * (-Y) \in 0..(x * M) /\ 1 * J - 1 * (-Y) \in 0..(1 * M)
    BY <2>3
  <2>5. K \in Int /\ x * K - e * X \in 0..(x * M) /\ (x <= e => 1 * K - 1 * X \in 0..(1 * M))
    BY <1>4, <2>2
  <2>6. x * K - e * X = 0 \/ x * K - e * X = x * M
    BY <2>2
  <2>7. x * J + e * Y \in 0..(x * M) /\ J + Y \in 0..M /\ (x <= e => K - X \in 0..M)
    BY <1>3, <2>4, <2>5
  <2> HIDE DEF Exit, Stays
  <2> QED
    BY <2>5, <2>6, <2>7
<1>6. CASE X = 0 /\ Y # 0
  <2>1. PICK e \in Nat : \E x \in Nat \ {0} : Exit(J, -Y, e, x)
    BY <1>1, <1>3, <1>6
  <2>2. PICK x \in Nat \ {0} : Exit(J, -Y, e, x)
    BY <2>1
  <2>3. Stays(K, X)
    BY <1>2, <1>6
  <2>4. x * K - e * X \in 0..(x * M) /\ 1 * K - 1 * X \in 0..(1 * M)
    BY <2>3
  <2>5. J \in Int /\ x * J - e * (-Y) \in 0..(x * M) /\ (x <= e => 1 * J - 1 * (-Y) \in 0..(1 * M))
    BY <1>3, <1>4, <2>2
  <2>6. x * J - e * (-Y) = 0 \/ x * J - e * (-Y) = x * M
    BY <2>2
  <2>7. /\ x * J + e * Y \in 0..(x * M) /\ K - X \in 0..M /\ (x <= e => J + Y \in 0..M)
        /\ x * J + e * Y = 0 \/ x * J + e * Y = x * M
    BY <1>3, <2>4, <2>5, <2>6
  <2> HIDE DEF Exit, Stays
  <2> QED
    BY <2>4, <2>7
<1>7. CASE X # 0 /\ Y # 0
  <2>1. PICK e1 \in Nat : \E x \in Nat \ {0} : Exit(K, X, e1, x)
    BY <1>1, <1>7
  <2>2. PICK x1 \in Nat \ {0} : Exit(K, X, e1, x1)
    BY <2>1
  <2>3. PICK e2 \in Nat : \E x \in Nat \ {0} : Exit(J, -Y, e2, x)
    BY <1>1, <1>3, <1>7
  <2>4. PICK x2 \in Nat \ {0} : Exit(J, -Y, e2, x2)
    BY <2>3
  <2>5. ASSUME NEW e \in Nat, NEW x \in Nat \ {0}, NEW f \in Nat, NEW y \in Nat \ {0},
               e * y <= f * x, x <= e
        PROVE  1 * y <= f * 1
    <3>1. y * x <= y * e
      BY <2>5, Keeps
    <3>2. PICK s, t, r : s = x * y /\ t = e * y /\ r = x * f
      OBVIOUS
    <3>3. s \in Int /\ t \in Int /\ r \in Int
      BY <3>2
    <3>4. y * x = s /\ y * e = t /\ f * x = r
      BY <3>2
    <3>5. s <= t /\ t <= r
      BY <2>5, <3>1, <3>2, <3>4
    <3>6. s <= r
      BY <3>3, <3>5
    <3>7. x * y <= x * f
      BY <3>2, <3>6
    <3>8. y <= f
      BY <3>7, Cancels
    <3> QED
      BY <3>8
  <2>6. K \in Int /\ x1 * K - e1 * X \in 0..(x1 * M) /\ (x1 <= e1 => 1 * K - 1 * X \in 0..(1 * M))
    BY <1>4, <2>2
  <2>7. J \in Int /\ x2 * J - e2 * (-Y) \in 0..(x2 * M) /\ (x2 <= e2 => 1 * J - 1 * (-Y) \in 0..(1 * M))
    BY <1>3, <1>4, <2>4
  <2>8. CASE e1 * x2 <= e2 * x1
    <3>1. x1 * J - e1 * (-Y) \in 0..(x1 * M)
      BY <2>4, <2>8
    <3>2. x1 <= e1 => 1 * J - 1 * (-Y) \in 0..(1 * M)
      BY <2>4, <2>5, <2>8
    <3>3. x1 * K - e1 * X = 0 \/ x1 * K - e1 * X = x1 * M
      BY <2>2
    <3>4. x1 * J + e1 * Y \in 0..(x1 * M) /\ (x1 <= e1 => K - X \in 0..M /\ J + Y \in 0..M)
      BY <1>3, <2>6, <3>1, <3>2
    <3> HIDE DEF Exit, Stays
    <3> QED
      BY <2>6, <3>3, <3>4
  <2>9. CASE e2 * x1 <= e1 * x2
    <3>1. x2 * K - e2 * X \in 0..(x2 * M)
      BY <2>2, <2>9
    <3>2. x2 <= e2 => 1 * K - 1 * X \in 0..(1 * M)
      BY <2>2, <2>5, <2>9
    <3>3. x2 * J - e2 * (-Y) = 0 \/ x2 * J - e2 * (-Y) = x2 * M
      BY <2>4
    <3>4. /\ x2 * J + e2 * Y \in 0..(x2 * M) /\ (x2 <= e2 => K - X \in 0..M /\ J + Y \in 0..M)
          /\ x2 * J + e2 * Y = 0 \/ x2 * J + e2 * Y = x2 * M
      BY <1>3, <2>7, <3>2, <3>3
    <3> HIDE DEF Exit, Stays
    <3> QED
      BY <3>1, <3>4
  <2>10. e1 * x2 \in Int /\ e2 * x1 \in Int
    OBVIOUS
  <2> QED
    BY <2>8, <2>9, <2>10
<1> QED
  BY <1>5, <1>6, <1>7

(* Two lines that are not parallel, and the sides of the ends of each.     *)
LEMMA SidesAre ==
    ASSUME NEW a \in Point, NEW b \in Point, NEW c \in Point, NEW d \in Point
    PROVE  LET Turn == Cross(Minus(b, a), Minus(d, c)) IN
           /\ Turn \in Int
           /\ Turn = (b[1] - a[1]) * (d[2] - c[2]) - (b[2] - a[2]) * (d[1] - c[1])
           /\ Side(a, b, c) \in Int /\ Side(c, d, a) \in Int
           /\ Side(a, b, d) = Side(a, b, c) + Turn
           /\ Side(c, d, b) = Side(c, d, a) - Turn
           /\ \A N, k, j \in Int :
                Offset(a, b, c, d, N, k, j, 1) = 0 /\ Offset(a, b, c, d, N, k, j, 2) = 0
                     => N * Side(c, d, a) = k * Turn /\ N * Side(a, b, c) = -(j * Turn)
           /\ Offset(a, b, c, d, Turn, Side(c, d, a), -Side(a, b, c), 1) = 0
           /\ Offset(a, b, c, d, Turn, Side(c, d, a), -Side(a, b, c), 2) = 0
<1>1. /\ a[1] \in Int /\ a[2] \in Int /\ b[1] \in Int /\ b[2] \in Int
      /\ c[1] \in Int /\ c[2] \in Int /\ d[1] \in Int /\ d[2] \in Int
  BY PointsAre
<1>2. PICK u1, u2, w1, w2, v1, v2 :
        /\ u1 = b[1] - a[1] /\ u2 = b[2] - a[2] /\ w1 = d[1] - c[1] /\ w2 = d[2] - c[2]
        /\ v1 = a[1] - c[1] /\ v2 = a[2] - c[2]
  OBVIOUS
<1>3. u1 \in Int /\ u2 \in Int /\ w1 \in Int /\ w2 \in Int /\ v1 \in Int /\ v2 \in Int
  BY <1>1, <1>2
<1>4. PICK T, r, s : T = Cross(Minus(b, a), Minus(d, c)) /\ r = Side(a, b, c) /\ s = Side(c, d, a)
  OBVIOUS
<1>5. T = u1 * w2 - u2 * w1
  BY <1>2, <1>4 DEF Cross, Minus
<1>6. r = u2 * v1 - u1 * v2
  <2>1. r = u1 * (c[2] - a[2]) - u2 * (c[1] - a[1])
    BY <1>2, <1>4 DEF Side, Cross, Minus
  <2>2. c[1] - a[1] = -v1 /\ c[2] - a[2] = -v2
    BY <1>1, <1>2
  <2> QED
    BY <1>3, <2>1, <2>2
<1>7. s = w1 * v2 - w2 * v1
  BY <1>2, <1>4 DEF Side, Cross, Minus
<1>8. T \in Int /\ r \in Int /\ s \in Int
  BY <1>3, <1>5, <1>6, <1>7
<1>9. Side(a, b, d) = r + T
  <2>1. Side(a, b, d) = u1 * (d[2] - a[2]) - u2 * (d[1] - a[1])
    BY <1>2 DEF Side, Cross, Minus
  <2>2. d[1] - a[1] = w1 - v1 /\ d[2] - a[2] = w2 - v2
    BY <1>1, <1>2
  <2> QED
    BY <1>3, <1>5, <1>6, <2>1, <2>2
<1>10. Side(c, d, b) = s - T
  <2>1. Side(c, d, b) = w1 * (b[2] - c[2]) - w2 * (b[1] - c[1])
    BY <1>2 DEF Side, Cross, Minus
  <2>2. b[1] - c[1] = u1 + v1 /\ b[2] - c[2] = u2 + v2
    BY <1>1, <1>2
  <2> QED
    BY <1>3, <1>5, <1>7, <2>1, <2>2
<1>11. \A N, k, j \in Int : /\ Offset(a, b, c, d, N, k, j, 1) = N * v1 + k * u1 - j * w1
                            /\ Offset(a, b, c, d, N, k, j, 2) = N * v2 + k * u2 - j * w2
  BY <1>2 DEF Offset
<1>12. ASSUME NEW N \in Int, NEW k \in Int, NEW j \in Int,
              N * v1 + k * u1 - j * w1 = 0, N * v2 + k * u2 - j * w2 = 0
       PROVE  N * s = k * T /\ N * r = -(j * T)
  <2>1. PICK p, q : p = N * v1 /\ q = N * v2
    OBVIOUS
  <2>2. p \in Int /\ q \in Int
    BY <1>3, <2>1
  <2>3. p = j * w1 - k * u1 /\ q = j * w2 - k * u2
    BY <1>3, <1>12, <2>1, <2>2
  <2>4. N * s = w1 * q - w2 * p /\ N * r = u2 * p - u1 * q
    BY <1>3, <1>6, <1>7, <2>1
  <2>5. w1 * (j * w2 - k * u2) - w2 * (j * w1 - k * u1) = k * (u1 * w2 - u2 * w1)
    BY <1>3
  <2>6. u2 * (j * w1 - k * u1) - u1 * (j * w2 - k * u2) = -(j * (u1 * w2 - u2 * w1))
    BY <1>3
  <2> QED
    BY <1>5, <2>3, <2>4, <2>5, <2>6
<1>13. /\ T * v1 + s * u1 - (-r) * w1 = 0
       /\ T * v2 + s * u2 - (-r) * w2 = 0
  BY <1>3, <1>5, <1>6, <1>7
<1>14. \A N, k, j \in Int :
         Offset(a, b, c, d, N, k, j, 1) = 0 /\ Offset(a, b, c, d, N, k, j, 2) = 0
              => N * s = k * T /\ N * r = -(j * T)
  BY <1>11, <1>12
<1>16. Offset(a, b, c, d, T, s, -r, 1) = 0 /\ Offset(a, b, c, d, T, s, -r, 2) = 0
  BY <1>2, <1>13 DEF Offset
<1>15. T = (b[1] - a[1]) * (d[2] - c[2]) - (b[2] - a[2]) * (d[1] - c[1])
  BY <1>2, <1>5
<1> QED
  BY <1>4, <1>8, <1>9, <1>10, <1>14, <1>15, <1>16

LEMMA SameSign ==
    ASSUME NEW x \in Int, NEW y \in Int, NEW c \in Int, c > 0, NEW e \in Int, e > 0, c * x = e * y
    PROVE  (x < 0 <=> y < 0) /\ (x > 0 <=> y > 0)
  OBVIOUS

LEMMA CommonPoint ==
    ASSUME NEW a \in Point, NEW b \in Point, NEW c \in Point, NEW d \in Point, NEW bound \in Nat,
           Cross(Minus(b, a), Minus(d, c)) # 0,
           NEW N \in Nat \ {0}, NEW k \in 0..N, NEW j \in 0..N,
           Offset(a, b, c, d, N, k, j, 1) = 0, Offset(a, b, c, d, N, k, j, 2) = 0
    PROVE  Intersect(a, b, c, d) \/ AnEndIsNear(a, b, c, d, bound)
<1>1. N \in Int /\ k \in Int /\ j \in Int
  OBVIOUS
<1>2. CASE k = 0 \/ k = N \/ j = 0 \/ j = N
  <2>1. Between(a, b, c, d, N, k, j) = 0
    BY <1>1, BetweenIs
  <2>2. 0 <= (N * bound) * (N * bound)
    OBVIOUS
  <2> QED
    BY <1>2, <2>1, <2>2, EndsAreNear
<1>3. CASE ~(k = 0 \/ k = N \/ j = 0 \/ j = N)
  <2>1. PICK T, r, s : T = Cross(Minus(b, a), Minus(d, c)) /\ r = Side(a, b, c) /\ s = Side(c, d, a)
    OBVIOUS
  <2>2. /\ T \in Int /\ r \in Int /\ s \in Int /\ T # 0
        /\ Side(a, b, d) = r + T /\ Side(c, d, b) = s - T
        /\ N * s = k * T /\ N * r = -(j * T)
    BY <1>1, <2>1, SidesAre
  <2>3. /\ k > 0 /\ j > 0 /\ N - k > 0 /\ N - j > 0 /\ N > 0
        /\ N - k \in Int /\ N - j \in Int /\ -T \in Int /\ s - T \in Int /\ r + T \in Int
    BY <1>3, <2>2
  <2>4. (s < 0 <=> T < 0) /\ (s > 0 <=> T > 0)
    BY <1>1, <2>2, <2>3, SameSign
  <2>5. (r < 0 <=> -T < 0) /\ (r > 0 <=> -T > 0)
    <3>1. N * r = j * (-T)
      BY <2>2
    <3> QED
      BY <1>1, <2>2, <2>3, <3>1, SameSign
  <2>6. (s - T < 0 <=> -T < 0) /\ (s - T > 0 <=> -T > 0)
    <3>1. N * (s - T) = (N - k) * (-T)
      BY <2>2
    <3> QED
      BY <1>1, <2>2, <2>3, <3>1, SameSign
  <2>7. (r + T < 0 <=> T < 0) /\ (r + T > 0 <=> T > 0)
    <3>1. N * (r + T) = (N - j) * T
      BY <2>2
    <3> QED
      BY <1>1, <2>2, <2>3, <3>1, SameSign
  <2>8. (r < 0) # (r + T < 0) /\ (s < 0) # (s - T < 0)
    BY <2>2, <2>4, <2>5, <2>6, <2>7
  <2> QED
    BY <2>1, <2>2, <2>8 DEF Intersect
<1> QED
  BY <1>2, <1>3

(* The direction in which both can move and keep their distance.           *)
LEMMA Parallel ==
    ASSUME NEW a \in Point, NEW b \in Point, NEW c \in Point, NEW d \in Point, c # d,
           Cross(Minus(b, a), Minus(d, c)) = 0
    PROVE  \E X, Y \in Int : /\ X # 0
                             /\ X * (b[1] - a[1]) + Y * (d[1] - c[1]) = 0
                             /\ X * (b[2] - a[2]) + Y * (d[2] - c[2]) = 0
<1>1. /\ a[1] \in Int /\ a[2] \in Int /\ b[1] \in Int /\ b[2] \in Int
      /\ c[1] \in Int /\ c[2] \in Int /\ d[1] \in Int /\ d[2] \in Int
  BY PointsAre
<1>2. PICK u1, u2, w1, w2 :
        u1 = b[1] - a[1] /\ u2 = b[2] - a[2] /\ w1 = d[1] - c[1] /\ w2 = d[2] - c[2]
  OBVIOUS
<1>3. u1 \in Int /\ u2 \in Int /\ w1 \in Int /\ w2 \in Int
  BY <1>1, <1>2
<1>4. u1 * w2 - u2 * w1 = 0
  BY <1>2 DEF Cross, Minus
<1>5. w1 # 0 \/ w2 # 0
  <2> SUFFICES ASSUME w1 = 0, w2 = 0 PROVE FALSE
    OBVIOUS
  <2>0. d[1] - c[1] = 0 /\ d[2] - c[2] = 0
    BY <1>2
  <2>1. c[1] = d[1] /\ c[2] = d[2]
    BY <1>1, <2>0
  <2>2. c = <<c[1], c[2]>> /\ d = <<d[1], d[2]>>
    BY DEF Point
  <2> QED
    BY <2>1, <2>2
<1>6. CASE w1 # 0
  <2>1. -u1 \in Int /\ w1 * u1 + (-u1) * w1 = 0 /\ w1 * u2 + (-u1) * w2 = 0
    BY <1>3, <1>4
  <2> QED
    BY <1>2, <1>3, <1>6, <2>1
<1>7. CASE w2 # 0
  <2>1. -u2 \in Int /\ w2 * u1 + (-u2) * w1 = 0 /\ w2 * u2 + (-u2) * w2 = 0
    BY <1>3, <1>4
  <2> QED
    BY <1>2, <1>3, <1>7, <2>1
<1> QED
  BY <1>5, <1>6, <1>7

(* Where two lines that are not parallel approach each other straight.     *)
Closes(a, b, c, d, p, q) ==
    \E t \in Nat \ {0}, X \in Int, Y \in Int :
        /\ X * (b[1] - a[1]) + Y * (d[1] - c[1]) = t * p
        /\ X * (b[2] - a[2]) + Y * (d[2] - c[2]) = t * q

LEMMA Closing ==
    ASSUME NEW a \in Point, NEW b \in Point, NEW c \in Point, NEW d \in Point,
           Cross(Minus(b, a), Minus(d, c)) # 0, NEW p \in Int, NEW q \in Int
    PROVE  Closes(a, b, c, d, p, q)
<1>1. /\ a[1] \in Int /\ a[2] \in Int /\ b[1] \in Int /\ b[2] \in Int
      /\ c[1] \in Int /\ c[2] \in Int /\ d[1] \in Int /\ d[2] \in Int
  BY PointsAre
<1>2. PICK u1, u2, w1, w2, T :
        /\ u1 = b[1] - a[1] /\ u2 = b[2] - a[2] /\ w1 = d[1] - c[1] /\ w2 = d[2] - c[2]
        /\ T = u1 * w2 - u2 * w1
  OBVIOUS
<1>3. u1 \in Int /\ u2 \in Int /\ w1 \in Int /\ w2 \in Int /\ T \in Int /\ T # 0
  BY <1>1, <1>2 DEF Cross, Minus
<1>4. PICK X, Y : X = p * w2 - q * w1 /\ Y = u1 * q - u2 * p
  OBVIOUS
<1>5. X \in Int /\ Y \in Int /\ X * u1 + Y * w1 = T * p /\ X * u2 + Y * w2 = T * q
  BY <1>2, <1>3, <1>4
<1>6. CASE T > 0
  <2>1. T \in Nat \ {0}
    BY <1>3, <1>6
  <2> QED
    BY <1>2, <1>5, <2>1 DEF Closes
<1>7. CASE T < 0
  <2>1. PICK t, X1, Y1 : t = -T /\ X1 = -X /\ Y1 = -Y
    OBVIOUS
  <2>2. t \in Nat \ {0} /\ X1 \in Int /\ Y1 \in Int
    BY <1>3, <1>5, <1>7, <2>1
  <2>3. X1 * u1 + Y1 * w1 = t * p /\ X1 * u2 + Y1 * w2 = t * q
    <3>1. X1 * u1 + Y1 * w1 = -(X * u1 + Y * w1) /\ X1 * u2 + Y1 * w2 = -(X * u2 + Y * w2)
      BY <1>3, <1>5, <2>1
    <3>2. -(T * p) = t * p /\ -(T * q) = t * q
      BY <1>3, <2>1
    <3> QED
      BY <1>5, <3>1, <3>2
  <2> QED
    BY <1>2, <2>2, <2>3 DEF Closes
<1> QED
  BY <1>3, <1>6, <1>7

LEMMA ApproachIsSeen ==
    ASSUME NEW a \in Point, NEW b \in Point, NEW c \in Point, NEW d \in Point, NEW bound \in Nat, c # d,
           NEW N \in Nat \ {0}, NEW k \in 0..N, NEW j \in 0..N,
           Between(a, b, c, d, N, k, j) <= (N * bound) * (N * bound)
    PROVE  Intersect(a, b, c, d) \/ AnEndIsNear(a, b, c, d, bound)
<1>1. N \in Int /\ k \in Int /\ j \in Int /\ N \in Nat
  OBVIOUS
<1>2. CASE Cross(Minus(b, a), Minus(d, c)) = 0
  <2>1. PICK X \in Int, Y \in Int : /\ X # 0
                             /\ X * (b[1] - a[1]) + Y * (d[1] - c[1]) = 0
                             /\ X * (b[2] - a[2]) + Y * (d[2] - c[2]) = 0
    BY <1>2, Parallel
  <2>2. PICK e \in Nat : \E x \in Nat \ {0} :
             /\ x * k - e * X \in 0..(x * N) /\ x * j + e * Y \in 0..(x * N)
             /\ \/ x * k - e * X = 0 \/ x * k - e * X = x * N
                \/ x * j + e * Y = 0 \/ x * j + e * Y = x * N
             /\ x <= e => k - X \in 0..N /\ j + Y \in 0..N
    BY <2>1, FirstExit
  <2>3. PICK x \in Nat \ {0} :
             /\ x * k - e * X \in 0..(x * N) /\ x * j + e * Y \in 0..(x * N)
             /\ \/ x * k - e * X = 0 \/ x * k - e * X = x * N
                \/ x * j + e * Y = 0 \/ x * j + e * Y = x * N
    BY <2>2
  <2>4. PICK n, k1, j1 : n = x * N /\ k1 = x * k - e * X /\ j1 = x * j + e * Y
    OBVIOUS
  <2>5. /\ n \in Nat \ {0} /\ k1 \in 0..n /\ j1 \in 0..n
        /\ k1 = 0 \/ k1 = n \/ j1 = 0 \/ j1 = n
        /\ x \in Int /\ e \in Int /\ x \in Nat /\ x \in 0..x /\ k1 \in Int /\ j1 \in Int
    BY <2>3, <2>4
  <2>6. /\ Offset(a, b, c, d, n, k1, j1, 1) = x * Offset(a, b, c, d, N, k, j, 1)
        /\ Offset(a, b, c, d, n, k1, j1, 2) = x * Offset(a, b, c, d, N, k, j, 2)
    <3>0. MovedBy(a, b, c, d, N, k, j, x, e, X, Y)
      BY <1>1, <2>1, <2>5, Moved
    <3>1. \A i \in {1, 2} : Offset(a, b, c, d, n, k1, j1, i)
             = x * Offset(a, b, c, d, N, k, j, i) - e * (X * (b[i] - a[i]) + Y * (d[i] - c[i]))
      BY <2>4, <3>0 DEF MovedBy
    <3>2. Offset(a, b, c, d, N, k, j, 1) \in Int /\ Offset(a, b, c, d, N, k, j, 2) \in Int
      BY <1>1, BetweenIs
    <3>3. x * Offset(a, b, c, d, N, k, j, 1) \in Int /\ x * Offset(a, b, c, d, N, k, j, 2) \in Int
      BY <2>5, <3>2
    <3> QED
      BY <2>1, <2>5, <3>1, <3>3
  <2>7. Between(a, b, c, d, n, k1, j1) <= (n * bound) * (n * bound)
    BY <1>1, <2>4, <2>5, <2>6, Shrunk
  <2> QED
    BY <2>5, <2>7, EndsAreNear
<1>3. CASE Cross(Minus(b, a), Minus(d, c)) # 0
  <2>1. PICK p, q : p = Offset(a, b, c, d, N, k, j, 1) /\ q = Offset(a, b, c, d, N, k, j, 2)
    OBVIOUS
  <2>2. p \in Int /\ q \in Int
    BY <1>1, <2>1, BetweenIs
  <2>3. PICK t \in Nat \ {0}, X \in Int, Y \in Int :
             /\ X * (b[1] - a[1]) + Y * (d[1] - c[1]) = t * p
             /\ X * (b[2] - a[2]) + Y * (d[2] - c[2]) = t * q
    <3>1. Closes(a, b, c, d, p, q)
      BY <1>3, <2>2, Closing
    <3> QED
      BY <3>1 DEF Closes
  <2>4. PICK M, K, J : M = t * N /\ K = t * k /\ J = t * j
    OBVIOUS
  <2>5. /\ M \in Nat \ {0} /\ K \in 0..M /\ J \in 0..M
        /\ t \in Int /\ t \in Nat /\ t \in 0..t /\ K \in Int /\ J \in Int /\ M \in Int /\ M \in Nat
    <3>1. t * k <= t * N /\ t * j <= t * N
      <4>1. t \in Int /\ t >= 0 /\ k <= N /\ j <= N
        OBVIOUS
      <4> QED
        BY <1>1, <4>1, Keeps
    <3>2. t * N \in Nat /\ t * N # 0 /\ t * k \in Nat /\ t * j \in Nat
      OBVIOUS
    <3> QED
      BY <2>4, <3>1, <3>2
  <2>6. Offset(a, b, c, d, M, K, J, 1) = t * p /\ Offset(a, b, c, d, M, K, J, 2) = t * q
    <3>0. MovedBy(a, b, c, d, N, k, j, t, 0, X, Y)
      <4>1. 0 \in Int
        OBVIOUS
      <4> QED
        BY <1>1, <2>3, <2>5, <4>1, Moved
    <3>1. \A i \in {1, 2} : Offset(a, b, c, d, t * N, t * k - 0 * X, t * j + 0 * Y, i)
             = t * Offset(a, b, c, d, N, k, j, i) - 0 * (X * (b[i] - a[i]) + Y * (d[i] - c[i]))
      BY <3>0 DEF MovedBy
    <3>2. t * k - 0 * X = K /\ t * j + 0 * Y = J
      BY <2>4
    <3>3. t * p \in Int /\ t * q \in Int
      BY <2>2
    <3> QED
      BY <2>1, <2>3, <2>4, <3>1, <3>2, <3>3
  <2>7. Between(a, b, c, d, M, K, J) <= (M * bound) * (M * bound)
    BY <1>1, <2>1, <2>4, <2>5, <2>6, Shrunk
  <2>8. \A e, x \in Int :
          /\ Offset(a, b, c, d, x * M, x * K - e * X, x * J + e * Y, 1) = (x - e) * Offset(a, b, c, d, M, K, J, 1)
          /\ Offset(a, b, c, d, x * M, x * K - e * X, x * J + e * Y, 2) = (x - e) * Offset(a, b, c, d, M, K, J, 2)
    <3> SUFFICES ASSUME NEW e \in Int, NEW x \in Int
                 PROVE  /\ Offset(a, b, c, d, x * M, x * K - e * X, x * J + e * Y, 1)
                              = (x - e) * Offset(a, b, c, d, M, K, J, 1)
                        /\ Offset(a, b, c, d, x * M, x * K - e * X, x * J + e * Y, 2)
                              = (x - e) * Offset(a, b, c, d, M, K, J, 2)
      OBVIOUS
    <3>0. MovedBy(a, b, c, d, M, K, J, x, e, X, Y)
      BY <2>3, <2>5, Moved
    <3>1. \A i \in {1, 2} : Offset(a, b, c, d, x * M, x * K - e * X, x * J + e * Y, i)
             = x * Offset(a, b, c, d, M, K, J, i) - e * (X * (b[i] - a[i]) + Y * (d[i] - c[i]))
      BY <3>0 DEF MovedBy
    <3>2. PICK P, Q : P = t * p /\ Q = t * q
      OBVIOUS
    <3>3. P \in Int /\ Q \in Int /\ x * P - e * P = (x - e) * P /\ x * Q - e * Q = (x - e) * Q
      BY <2>2, <3>2
    <3> QED
      BY <2>3, <2>6, <3>1, <3>2, <3>3
  <2>9. CASE K - X \in 0..M /\ J + Y \in 0..M
    <3>1. /\ Offset(a, b, c, d, 1 * M, 1 * K - 1 * X, 1 * J + 1 * Y, 1) = (1 - 1) * Offset(a, b, c, d, M, K, J, 1)
          /\ Offset(a, b, c, d, 1 * M, 1 * K - 1 * X, 1 * J + 1 * Y, 2) = (1 - 1) * Offset(a, b, c, d, M, K, J, 2)
      <4>1. 1 \in Int
        OBVIOUS
      <4> QED
        BY <2>8, <4>1
    <3>2. 1 * M = M /\ 1 * K - 1 * X = K - X /\ 1 * J + 1 * Y = J + Y
      BY <2>5
    <3>3. (1 - 1) * (t * p) = 0 /\ (1 - 1) * (t * q) = 0
      BY <2>2
    <3>4. Offset(a, b, c, d, M, K - X, J + Y, 1) = 0 /\ Offset(a, b, c, d, M, K - X, J + Y, 2) = 0
      BY <2>6, <3>1, <3>2, <3>3
    <3> QED
      BY <1>3, <2>5, <2>9, <3>4, CommonPoint
  <2>10. CASE ~(K - X \in 0..M /\ J + Y \in 0..M)
    <3>1. X # 0 \/ Y # 0
      BY <2>5, <2>10
    <3>2. PICK e \in Nat : \E x \in Nat \ {0} :
             /\ x * K - e * X \in 0..(x * M) /\ x * J + e * Y \in 0..(x * M)
             /\ \/ x * K - e * X = 0 \/ x * K - e * X = x * M
                \/ x * J + e * Y = 0 \/ x * J + e * Y = x * M
             /\ x <= e => K - X \in 0..M /\ J + Y \in 0..M
      BY <2>5, <3>1, FirstExit
    <3>3. PICK x \in Nat \ {0} :
             /\ x * K - e * X \in 0..(x * M) /\ x * J + e * Y \in 0..(x * M)
             /\ \/ x * K - e * X = 0 \/ x * K - e * X = x * M
                \/ x * J + e * Y = 0 \/ x * J + e * Y = x * M
             /\ x <= e => K - X \in 0..M /\ J + Y \in 0..M
      BY <3>2
    <3>4. PICK n, k1, j1 : n = x * M /\ k1 = x * K - e * X /\ j1 = x * J + e * Y
      OBVIOUS
    <3>5. ~(x <= e)
      BY <2>10, <3>3
    <3>6. /\ n \in Nat \ {0} /\ k1 \in 0..n /\ j1 \in 0..n
          /\ k1 = 0 \/ k1 = n \/ j1 = 0 \/ j1 = n
          /\ x \in Int /\ e \in Int /\ x \in Nat /\ x - e \in 0..x /\ k1 \in Int /\ j1 \in Int
      BY <2>5, <3>3, <3>4, <3>5
    <3>7. /\ Offset(a, b, c, d, n, k1, j1, 1) = (x - e) * Offset(a, b, c, d, M, K, J, 1)
          /\ Offset(a, b, c, d, n, k1, j1, 2) = (x - e) * Offset(a, b, c, d, M, K, J, 2)
      BY <2>8, <3>4, <3>6
    <3>8. Between(a, b, c, d, n, k1, j1) <= (n * bound) * (n * bound)
      BY <2>5, <2>7, <3>4, <3>6, <3>7, Shrunk
    <3> QED
      BY <3>6, <3>8, EndsAreNear
  <2> QED
    BY <2>9, <2>10
<1> QED
  BY <1>2, <1>3

(* A number between 0 and u.                                               *)
LEMMA Within ==
    ASSUME NEW q \in Int, NEW u \in Int, (0 <= q /\ q <= u) \/ (u <= q /\ q <= 0)
    PROVE  /\ q * u >= 0 /\ q * u <= u * u
           /\ q * u = 0 => q = 0
           /\ q * u = u * u => q = u
<1>1. CASE 0 <= q /\ q <= u
  <2>1. PICK r : r = u - q
    OBVIOUS
  <2>2. r \in Nat /\ q \in Nat /\ u = q + r
    BY <1>1, <2>1
  <2>3. q * q \in Nat /\ q * r \in Nat /\ r * r \in Nat
    BY <2>2
  <2>4. q * u = q * q + q * r /\ u * u = q * q + 2 * (q * r) + r * r
    BY <2>2
  <2>5. q * u = 0 => q = 0
    <3>1. q * q = 0 => q = 0
      BY Squares
    <3> QED
      BY <2>3, <2>4, <3>1
  <2>6. q * u = u * u => q = u
    <3>1. r * r = 0 => r = 0
      BY <2>2, Squares
    <3>2. q * u = u * u => r * r = 0
      BY <2>3, <2>4
    <3> QED
      BY <2>2, <3>1, <3>2
  <2> QED
    BY <2>3, <2>4, <2>5, <2>6
<1>2. CASE u <= q /\ q <= 0
  <2>1. PICK r, p : r = q - u /\ p = -q
    OBVIOUS
  <2>2. r \in Nat /\ p \in Nat /\ q = -p /\ u = -(p + r)
    BY <1>2, <2>1
  <2>3. p * p \in Nat /\ p * r \in Nat /\ r * r \in Nat
    BY <2>2
  <2>4. q * u = p * p + p * r /\ u * u = p * p + 2 * (p * r) + r * r
    <3>1. (-p) * (-(p + r)) = p * p + p * r /\ (-(p + r)) * (-(p + r)) = p * p + 2 * (p * r) + r * r
      BY <2>2
    <3> QED
      BY <2>2, <3>1
  <2>5. q * u = 0 => q = 0
    <3>1. p * p = 0 => p = 0
      BY <2>2, Squares
    <3> QED
      BY <2>2, <2>3, <2>4, <3>1
  <2>6. q * u = u * u => q = u
    <3>1. r * r = 0 => r = 0
      BY <2>2, Squares
    <3>2. q * u = u * u => r * r = 0
      BY <2>3, <2>4
    <3> QED
      BY <2>2, <3>1, <3>2
  <2> QED
    BY <2>3, <2>4, <2>5, <2>6
<1> QED
  BY <1>1, <1>2

LEMMA OnIsNear ==
    ASSUME NEW p \in Point, NEW a \in Point, NEW b \in Point, NEW bound \in Nat, On(a, p, b)
    PROVE  NoFurther(PointSegment(p, a, b), bound)
<1>1. /\ a[1] \in Int /\ a[2] \in Int /\ b[1] \in Int /\ b[2] \in Int /\ p[1] \in Int /\ p[2] \in Int
  BY PointsAre
<1>2. PICK q1, q2, u1, u2 : /\ q1 = p[1] - a[1] /\ q2 = p[2] - a[2]
                            /\ u1 = b[1] - a[1] /\ u2 = b[2] - a[2]
  OBVIOUS
<1>3. q1 \in Int /\ q2 \in Int /\ u1 \in Int /\ u2 \in Int
  BY <1>1, <1>2
<1>4. u1 * q2 - u2 * q1 = 0
  BY <1>2 DEF On, Side, Cross, Minus
<1>5. \A i \in {1, 2} : Lesser(a[i], b[i]) <= p[i] /\ p[i] <= Greater(a[i], b[i])
  <2>1. 1 \in 1..2 /\ 2 \in 1..2
    OBVIOUS
  <2> QED
    BY <2>1 DEF On
<1>6. (0 <= q1 /\ q1 <= u1) \/ (u1 <= q1 /\ q1 <= 0)
  <2>1. Lesser(a[1], b[1]) <= p[1] /\ p[1] <= Greater(a[1], b[1])
    BY <1>5
  <2> QED
    BY <1>1, <1>2, <2>1 DEF Lesser, Greater
<1>7. (0 <= q2 /\ q2 <= u2) \/ (u2 <= q2 /\ q2 <= 0)
  <2>1. Lesser(a[2], b[2]) <= p[2] /\ p[2] <= Greater(a[2], b[2])
    BY <1>5
  <2> QED
    BY <1>1, <1>2, <2>1 DEF Lesser, Greater
<1>8. PICK x1, x2, y1, y2 : x1 = q1 * u1 /\ x2 = q2 * u2 /\ y1 = u1 * u1 /\ y2 = u2 * u2
  OBVIOUS
<1>9. /\ x1 \in Nat /\ x2 \in Nat /\ y1 \in Nat /\ y2 \in Nat /\ x1 <= y1 /\ x2 <= y2
      /\ x1 = 0 => q1 = 0
      /\ x2 = 0 => q2 = 0
      /\ x1 = y1 => q1 = u1
      /\ x2 = y2 => q2 = u2
  <2>1. q1 * u1 \in Int /\ u1 * u1 \in Int /\ q2 * u2 \in Int /\ u2 * u2 \in Int
    BY <1>3
  <2> QED
    BY <1>3, <1>6, <1>7, <1>8, <2>1, Within
<1>10. PICK along, length, off : /\ along = Dot(Minus(p, a), Minus(b, a))
                                 /\ length = SquaredDistance(a, b)
                                 /\ off = Cross(Minus(p, a), Minus(b, a))
  OBVIOUS
<1>11. along = x1 + x2
  BY <1>2, <1>8, <1>10 DEF Dot, Minus
<1>12. length = y1 + y2
  <2>1. length = (a[1] - b[1]) * (a[1] - b[1]) + (a[2] - b[2]) * (a[2] - b[2])
    BY <1>10 DEF SquaredDistance, Dot, Minus
  <2>2. a[1] - b[1] = -u1 /\ a[2] - b[2] = -u2
    BY <1>1, <1>2
  <2> QED
    BY <1>3, <1>8, <2>1, <2>2
<1>13. off = 0
  <2>1. off = q1 * u2 - q2 * u1
    BY <1>2, <1>10 DEF Cross, Minus
  <2> QED
    BY <1>3, <1>4, <2>1
<1>14. PointSegment(p, a, b) = IF along <= 0 THEN <<SquaredDistance(p, a), 1>>
                               ELSE IF along >= length THEN <<SquaredDistance(p, b), 1>>
                               ELSE <<off * off, length>>
  BY <1>10 DEF PointSegment
<1>15. PointSegment(p, a, b)[1] = 0
  <2>1. CASE along <= 0
    <3>1. x1 = 0 /\ x2 = 0
      BY <1>9, <1>11, <2>1
    <3>2. q1 = 0 /\ q2 = 0
      BY <1>9, <3>1
    <3>3. SquaredDistance(p, a) = q1 * q1 + q2 * q2
      BY <1>2 DEF SquaredDistance, Dot, Minus
    <3> QED
      BY <1>14, <2>1, <3>2, <3>3
  <2>2. CASE ~(along <= 0) /\ along >= length
    <3>1. x1 = y1 /\ x2 = y2
      BY <1>9, <1>11, <1>12, <2>2
    <3>2. q1 = u1 /\ q2 = u2
      BY <1>9, <3>1
    <3>3. p[1] - b[1] = 0 /\ p[2] - b[2] = 0
      BY <1>1, <1>2, <3>2
    <3>4. SquaredDistance(p, b) = (p[1] - b[1]) * (p[1] - b[1]) + (p[2] - b[2]) * (p[2] - b[2])
      BY DEF SquaredDistance, Dot, Minus
    <3>5. SquaredDistance(p, b) = 0
      BY <3>3, <3>4
    <3> QED
      BY <1>14, <2>2, <3>5
  <2>3. CASE ~(along <= 0) /\ ~(along >= length)
    BY <1>13, <1>14, <2>3
  <2> QED
    BY <2>1, <2>2, <2>3
<1>16. PointSegment(p, a, b)[2] \in Nat
  BY PointSegmentIs
<1>17. bound * bound \in Nat
  OBVIOUS
<1>18. bound * bound * PointSegment(p, a, b)[2] \in Nat
  BY <1>16, <1>17
<1> QED
  BY <1>15, <1>18 DEF NoFurther

LEMMA Scaled ==
    ASSUME NEW a \in Point, NEW b \in Point, NEW c \in Point, NEW d \in Point, NEW bound \in Nat,
           NEW N \in Nat, NEW k \in Int, NEW j \in Int, NEW x \in Nat,
           Between(a, b, c, d, N, k, j) <= (N * bound) * (N * bound)
    PROVE  Between(a, b, c, d, x * N, x * k, x * j) <= ((x * N) * bound) * ((x * N) * bound)
<1>1. N \in Int /\ x \in Int /\ 0 \in Int /\ x \in 0..x /\ x * k \in Int /\ x * j \in Int
  OBVIOUS
<1>2. MovedBy(a, b, c, d, N, k, j, x, 0, 0, 0)
  BY <1>1, Moved
<1>3. \A i \in {1, 2} : Offset(a, b, c, d, x * N, x * k, x * j, i) = x * Offset(a, b, c, d, N, k, j, i)
  <2> TAKE i \in {1, 2}
  <2>1. Offset(a, b, c, d, x * N, x * k - 0 * 0, x * j + 0 * 0, i)
            = x * Offset(a, b, c, d, N, k, j, i) - 0 * (0 * (b[i] - a[i]) + 0 * (d[i] - c[i]))
    BY <1>2 DEF MovedBy
  <2>2. x * k - 0 * 0 = x * k /\ x * j + 0 * 0 = x * j
    BY <1>1
  <2>3. 0 * (0 * (b[i] - a[i]) + 0 * (d[i] - c[i])) = 0
    <3>1. a[i] \in Int /\ b[i] \in Int /\ c[i] \in Int /\ d[i] \in Int
      BY PointsAre
    <3> QED
      BY <3>1
  <2>4. Offset(a, b, c, d, N, k, j, i) \in Int
    BY <1>1, BetweenIs
  <2>5. x * Offset(a, b, c, d, N, k, j, i) \in Int
    BY <1>1, <2>4
  <2> QED
    BY <2>1, <2>2, <2>3, <2>5
<1>4. PICK k1, j1 : k1 = x * k /\ j1 = x * j
  OBVIOUS
<1>5. /\ k1 \in Int /\ j1 \in Int
      /\ Offset(a, b, c, d, x * N, k1, j1, 1) = x * Offset(a, b, c, d, N, k, j, 1)
      /\ Offset(a, b, c, d, x * N, k1, j1, 2) = x * Offset(a, b, c, d, N, k, j, 2)
  BY <1>1, <1>3, <1>4
<1>6. Between(a, b, c, d, x * N, k1, j1) <= ((x * N) * bound) * ((x * N) * bound)
  BY <1>1, <1>5, Shrunk
<1> QED
  BY <1>4, <1>6

(* Some of n positions of the one and of l of the other are near.          *)
NearParts(a, b, c, d, n, l, bound) ==
    \E k \in 0..n, j \in 0..l :
        Between(a, b, c, d, n * l, l * k, n * j) <= ((n * l) * bound) * ((n * l) * bound)

LEMMA NearPartsAre ==
    ASSUME NEW a \in Point, NEW b \in Point, NEW c \in Point, NEW d \in Point, NEW bound \in Nat,
           NEW n \in Nat, NEW l \in Nat
    PROVE  NearParts(a, b, c, d, n, l, bound) <=>
             \E k \in 0..n, j \in 0..l :
                SquaredDistance(Times(l, Way(a, b, k, n)), Times(n, Way(c, d, j, l)))
                    <= n * l * bound * n * l * bound
<1>1. ASSUME NEW k \in 0..n, NEW j \in 0..l
      PROVE  SquaredDistance(Times(l, Way(a, b, k, n)), Times(n, Way(c, d, j, l)))
               = Between(a, b, c, d, n * l, l * k, n * j)
  <2>1. n \in Int /\ l \in Int /\ k \in Int /\ j \in Int
    OBVIOUS
  <2>2. Times(l, Way(a, b, k, n)) = Way(a, b, l * k, n * l)
    BY <2>1, WaysAre
  <2>3. Times(n, Way(c, d, j, l)) = Way(c, d, n * j, l * n)
    BY <2>1, WaysAre
  <2>4. l * n = n * l
    BY <2>1
  <2> QED
    BY <2>2, <2>3, <2>4 DEF Between
<1>2. n * l * bound * n * l * bound = ((n * l) * bound) * ((n * l) * bound)
  OBVIOUS
<1> QED
  BY <1>1, <1>2 DEF NearParts

LEMMA NearPartsAreSeen ==
    ASSUME NEW a \in Point, NEW b \in Point, NEW c \in Point, NEW d \in Point, NEW bound \in Nat, c # d,
           NEW n \in Nat \ {0}, NEW l \in Nat \ {0}, NearParts(a, b, c, d, n, l, bound)
    PROVE  Intersect(a, b, c, d) \/ AnEndIsNear(a, b, c, d, bound)
<1>1. PICK k \in 0..n, j \in 0..l :
        Between(a, b, c, d, n * l, l * k, n * j) <= ((n * l) * bound) * ((n * l) * bound)
  BY DEF NearParts
<1>2. PICK N, K, J : N = n * l /\ K = l * k /\ J = n * j
  OBVIOUS
<1>3. N \in Nat \ {0} /\ K \in 0..N /\ J \in 0..N
  <2>1. n \in Int /\ n >= 0 /\ l \in Int /\ l >= 0 /\ k \in Int /\ j \in Int /\ k <= n /\ j <= l
    OBVIOUS
  <2>2. l * k <= l * n /\ n * j <= n * l
    BY <2>1, Keeps
  <2>3. n * l \in Nat /\ n * l # 0 /\ l * k \in Nat /\ n * j \in Nat /\ l * n = n * l
    OBVIOUS
  <2> QED
    BY <1>2, <2>2, <2>3
<1>4. Between(a, b, c, d, N, K, J) <= (N * bound) * (N * bound)
  BY <1>1, <1>2
<1> QED
  BY <1>3, <1>4, ApproachIsSeen

LEMMA SomePartsAreNear ==
    ASSUME NEW a \in Point, NEW b \in Point, NEW c \in Point, NEW d \in Point, NEW bound \in Nat,
           NEW n \in Nat, NEW l \in Nat, NEW N \in Nat, NEW x \in Nat,
           NEW k \in Int, NEW j \in Int, NEW k1 \in 0..n, NEW j1 \in 0..l,
           x * N = n * l, x * k = l * k1, x * j = n * j1,
           Between(a, b, c, d, N, k, j) <= (N * bound) * (N * bound)
    PROVE  NearParts(a, b, c, d, n, l, bound)
<1>1. Between(a, b, c, d, x * N, x * k, x * j) <= ((x * N) * bound) * ((x * N) * bound)
  BY Scaled
<1>2. Between(a, b, c, d, n * l, l * k1, n * j1) <= ((n * l) * bound) * ((n * l) * bound)
  BY <1>1
<1> QED
  BY <1>2 DEF NearParts

LEMMA SeenAtAnEnd ==
    ASSUME NEW a \in Point, NEW b \in Point, NEW c \in Point, NEW d \in Point, NEW bound \in Nat,
           NEW n \in Nat \ {0}, NEW l \in Nat \ {0},
           n = Greater(1, SquaredDistance(a, b)), l = Greater(1, SquaredDistance(c, d)),
           AnEndIsNear(a, b, c, d, bound)
    PROVE  NearParts(a, b, c, d, n, l, bound)
<1>0. n \in Int /\ l \in Int /\ n \in Nat /\ l \in Nat /\ 0 \in 0..n /\ n \in 0..n /\ 0 \in 0..l /\ l \in 0..l
  OBVIOUS
<1>1. \A p \in Point : NoFurther(PointSegment(p, c, d), bound)
        => \E j \in 0..l : Gap(p, c, d, j, l) <= (l * bound) * (l * bound)
  BY PointSegmentIsExact
<1>2. \A p \in Point : NoFurther(PointSegment(p, a, b), bound)
        => \E k \in 0..n : Gap(p, a, b, k, n) <= (n * bound) * (n * bound)
  BY PointSegmentIsExact
<1>3. CASE NoFurther(PointSegment(a, c, d), bound)
  <2>1. PICK j \in 0..l : Gap(a, c, d, j, l) <= (l * bound) * (l * bound)
    BY <1>1, <1>3
  <2>2. j \in Int /\ 0 \in Int /\ n * l = n * l /\ n * 0 = l * 0 /\ n * j = n * j
    OBVIOUS
  <2>3. Between(a, b, c, d, l, 0, j) <= (l * bound) * (l * bound)
    BY <1>0, <2>1, <2>2, AtAnEnd
  <2> QED
    BY <1>0, <2>2, <2>3, SomePartsAreNear
<1>4. CASE NoFurther(PointSegment(b, c, d), bound)
  <2>1. PICK j \in 0..l : Gap(b, c, d, j, l) <= (l * bound) * (l * bound)
    BY <1>1, <1>4
  <2>2. j \in Int /\ n * l = n * l /\ n * l = l * n /\ n * j = n * j
    OBVIOUS
  <2>3. Between(a, b, c, d, l, l, j) <= (l * bound) * (l * bound)
    BY <1>0, <2>1, <2>2, AtAnEnd
  <2> QED
    BY <1>0, <2>2, <2>3, SomePartsAreNear
<1>5. CASE NoFurther(PointSegment(c, a, b), bound)
  <2>1. PICK k \in 0..n : Gap(c, a, b, k, n) <= (n * bound) * (n * bound)
    BY <1>2, <1>5
  <2>2. k \in Int /\ 0 \in Int /\ l * n = n * l /\ l * k = l * k /\ l * 0 = n * 0
    OBVIOUS
  <2>3. Between(a, b, c, d, n, k, 0) <= (n * bound) * (n * bound)
    BY <1>0, <2>1, <2>2, AtAnEnd
  <2> QED
    BY <1>0, <2>2, <2>3, SomePartsAreNear
<1>6. CASE NoFurther(PointSegment(d, a, b), bound)
  <2>1. PICK k \in 0..n : Gap(d, a, b, k, n) <= (n * bound) * (n * bound)
    BY <1>2, <1>6
  <2>2. k \in Int /\ l * n = n * l /\ l * k = l * k
    OBVIOUS
  <2>3. Between(a, b, c, d, n, k, n) <= (n * bound) * (n * bound)
    BY <1>0, <2>1, <2>2, AtAnEnd
  <2> QED
    BY <1>0, <2>2, <2>3, SomePartsAreNear
<1> QED
  BY <1>3, <1>4, <1>5, <1>6 DEF AnEndIsNear

LEMMA CrossingIsSeen ==
    ASSUME NEW a \in Point, NEW b \in Point, NEW c \in Point, NEW d \in Point, NEW bound \in Nat,
           (Side(a, b, c) < 0) # (Side(a, b, d) < 0), (Side(c, d, a) < 0) # (Side(c, d, b) < 0)
    PROVE  LET Turn == Cross(Minus(b, a), Minus(d, c)) IN
           /\ Turn # 0
           /\ NearParts(a, b, c, d, Greater(Turn, -Turn), Greater(Turn, -Turn), bound)
<1>1. PICK T, r, s : T = Cross(Minus(b, a), Minus(d, c)) /\ r = Side(a, b, c) /\ s = Side(c, d, a)
  OBVIOUS
<1>2. /\ T \in Int /\ r \in Int /\ s \in Int
      /\ Side(a, b, d) = r + T /\ Side(c, d, b) = s - T
  BY <1>1, SidesAre
<1>3. (r < 0) # (r + T < 0) /\ (s < 0) # (s - T < 0)
  BY <1>1, <1>2
<1>4. T # 0
  BY <1>2, <1>3
<1>5. Offset(a, b, c, d, T, s, -r, 1) = 0 /\ Offset(a, b, c, d, T, s, -r, 2) = 0
  BY <1>1, SidesAre
<1>6. PICK t, k, j : /\ t = Greater(T, -T)
                     /\ k = IF T > 0 THEN s ELSE -s
                     /\ j = IF T > 0 THEN -r ELSE r
  OBVIOUS
<1>7. t \in Nat /\ k \in 0..t /\ j \in 0..t
  <2>1. CASE T > 0
    BY <1>2, <1>3, <1>6, <2>1 DEF Greater
  <2>2. CASE T < 0
    BY <1>2, <1>3, <1>6, <2>2 DEF Greater
  <2> QED
    BY <1>2, <1>4, <2>1, <2>2
<1>8. Offset(a, b, c, d, t, k, j, 1) = 0 /\ Offset(a, b, c, d, t, k, j, 2) = 0
  <2>1. CASE T > 0
    <3>1. t = T /\ k = s /\ j = -r
      BY <1>2, <1>6, <2>1 DEF Greater
    <3> QED
      BY <1>5, <3>1
  <2>2. CASE T < 0
    <3>1. t = -T /\ k = -s /\ j = -(-r)
      BY <1>2, <1>6, <2>2 DEF Greater
    <3>2. \A i \in {1, 2} : /\ a[i] \in Int /\ b[i] \in Int /\ c[i] \in Int /\ d[i] \in Int
      BY PointsAre
    <3>3. \A v, u, w \in Int : (-T) * v + (-s) * u - (-(-r)) * w = -(T * v + s * u - (-r) * w)
      BY <1>2
    <3>4. \A i \in {1, 2} : /\ a[i] - c[i] \in Int /\ b[i] - a[i] \in Int /\ d[i] - c[i] \in Int
      BY <3>2
    <3>5. \A i \in {1, 2} : Offset(a, b, c, d, -T, -s, -(-r), i) = -Offset(a, b, c, d, T, s, -r, i)
      BY <3>3, <3>4 DEF Offset
    <3> QED
      BY <1>5, <3>1, <3>5
  <2> QED
    BY <1>2, <1>4, <2>1, <2>2
<1>9. t \in Int /\ k \in Int /\ j \in Int
  BY <1>7
<1>10. Between(a, b, c, d, t, k, j) <= (t * bound) * (t * bound)
  <2>1. Between(a, b, c, d, t, k, j) = 0
    BY <1>8, <1>9, BetweenIs
  <2>2. (t * bound) * (t * bound) \in Nat
    BY <1>7
  <2> QED
    BY <2>1, <2>2
<1>11. NearParts(a, b, c, d, t, t, bound)
  BY <1>7, <1>9, <1>10, SomePartsAreNear
<1> QED
  BY <1>1, <1>4, <1>6, <1>11

LEMMA SegmentsAreExact ==
    ASSUME NEW a \in Point, NEW b \in Point, NEW c \in Point, NEW d \in Point, NEW bound \in Nat, c # d
    PROVE  LET Turn == Cross(Minus(b, a), Minus(d, c)) IN
           NoFurther(SegmentDistance(a, b, c, d), bound) <=>
             \/ NearParts(a, b, c, d, Greater(1, SquaredDistance(a, b)), SquaredDistance(c, d), bound)
             \/ /\ Turn # 0
                /\ NearParts(a, b, c, d, Greater(Turn, -Turn), Greater(Turn, -Turn), bound)
<1>1. PICK T, t, n, l : /\ T = Cross(Minus(b, a), Minus(d, c)) /\ t = Greater(T, -T)
                        /\ n = Greater(1, SquaredDistance(a, b)) /\ l = SquaredDistance(c, d)
  OBVIOUS
<1>2. T \in Int /\ n \in Nat \ {0}
  <2>1. T \in Int
    BY <1>1, SidesAre
  <2>2. 0 \in Int /\ SquaredDistance(a, b) \in Nat
    <3>1. 0 \in Int
      OBVIOUS
    <3> QED
      BY <3>1, GapIs
  <2> QED
    BY <1>1, <2>1, <2>2 DEF Greater
<1>3. l \in Nat \ {0} /\ l = Greater(1, l)
  <2>1. PICK w1, w2 : w1 = c[1] - d[1] /\ w2 = c[2] - d[2]
    OBVIOUS
  <2>2. w1 \in Int /\ w2 \in Int
    BY <2>1, PointsAre
  <2>3. l = w1 * w1 + w2 * w2
    BY <1>1, <2>1 DEF SquaredDistance, Dot, Minus
  <2>4. w1 * w1 \in Nat /\ w2 * w2 \in Nat /\ (w1 * w1 = 0 => w1 = 0) /\ (w2 * w2 = 0 => w2 = 0)
    BY <2>2, Squares
  <2>5. ~(w1 = 0 /\ w2 = 0)
    <3> SUFFICES ASSUME w1 = 0, w2 = 0 PROVE FALSE
      OBVIOUS
    <3>1. c[1] - d[1] = 0 /\ c[2] - d[2] = 0
      BY <2>1
    <3>2. c[1] = d[1] /\ c[2] = d[2]
      <4>1. c[1] \in Int /\ c[2] \in Int /\ d[1] \in Int /\ d[2] \in Int
        BY PointsAre
      <4> QED
        BY <3>1, <4>1
    <3>3. c = <<c[1], c[2]>> /\ d = <<d[1], d[2]>>
      BY DEF Point
    <3> QED
      BY <3>2, <3>3
  <2>6. l \in Nat \ {0}
    BY <2>3, <2>4, <2>5
  <2> QED
    BY <2>6 DEF Greater
<1>4. NoFurther(SegmentDistance(a, b, c, d), bound)
        <=> Intersect(a, b, c, d) \/ AnEndIsNear(a, b, c, d, bound)
  BY SegmentsAreNear
<1>5. AnEndIsNear(a, b, c, d, bound) => NearParts(a, b, c, d, n, l, bound)
  BY <1>1, <1>2, <1>3, SeenAtAnEnd
<1>6. Intersect(a, b, c, d) => AnEndIsNear(a, b, c, d, bound) \/ (T # 0 /\ NearParts(a, b, c, d, t, t, bound))
  <2>1. On(a, c, b) \/ On(a, d, b) \/ On(c, a, d) \/ On(c, b, d) => AnEndIsNear(a, b, c, d, bound)
    BY OnIsNear DEF AnEndIsNear
  <2>2. /\ (Side(a, b, c) < 0) # (Side(a, b, d) < 0)
        /\ (Side(c, d, a) < 0) # (Side(c, d, b) < 0)
        => T # 0 /\ NearParts(a, b, c, d, t, t, bound)
    BY <1>1, CrossingIsSeen
  <2> QED
    BY <2>1, <2>2 DEF Intersect
<1>7. NearParts(a, b, c, d, n, l, bound) => Intersect(a, b, c, d) \/ AnEndIsNear(a, b, c, d, bound)
  BY <1>2, <1>3, NearPartsAreSeen
<1>8. T # 0 /\ NearParts(a, b, c, d, t, t, bound) => Intersect(a, b, c, d) \/ AnEndIsNear(a, b, c, d, bound)
  <2>1. T # 0 => t \in Nat \ {0}
    BY <1>1, <1>2 DEF Greater
  <2> QED
    BY <2>1, NearPartsAreSeen
<1> QED
  BY <1>1, <1>4, <1>5, <1>6, <1>7, <1>8

LEMMA WallsAreExact ==
    ASSUME NEW m \in WallMoves, ContactAssumption
    PROVE  LET Turn == Cross(Minus(m.to, m.from), Minus(m.wall[2], m.wall[1]))
               Near(n, l) ==
                   \E k \in 0..n, j \in 0..l :
                       SquaredDistance(Times(l, Way(m.from, m.to, k, n)),
                                       Times(n, Way(m.wall[1], m.wall[2], j, l)))
                           <= n * l * (Radius + PoseError) * n * l * (Radius + PoseError)
           IN  WallContact(m) <=>
                 \/ Near(Greater(1, SquaredDistance(m.from, m.to)),
                         SquaredDistance(m.wall[1], m.wall[2]))
                 \/ Turn # 0 /\ Near(Greater(Turn, -Turn), Greater(Turn, -Turn))
<1>1. PICK a, b, c, d, bound : a = m.from /\ b = m.to /\ c = m.wall[1] /\ d = m.wall[2]
                                 /\ bound = Radius + PoseError
  OBVIOUS
<1>2. /\ a \in Point /\ b \in Point /\ c \in Point /\ d \in Point /\ bound \in Nat /\ c # d
  BY <1>1 DEF ContactAssumption, WallMoveType
<1>3. PICK T, t, n, l : /\ T = Cross(Minus(b, a), Minus(d, c)) /\ t = Greater(T, -T)
                        /\ n = Greater(1, SquaredDistance(a, b)) /\ l = SquaredDistance(c, d)
  OBVIOUS
<1>4. n \in Nat /\ l \in Nat /\ t \in Nat
  <2>1. T \in Int
    BY <1>2, <1>3, SidesAre
  <2>2. SquaredDistance(a, b) \in Nat /\ SquaredDistance(c, d) \in Nat
    <3>1. 0 \in Int
      OBVIOUS
    <3> QED
      BY <1>2, <3>1, GapIs
  <2> QED
    BY <1>3, <2>1, <2>2 DEF Greater
<1>5. WallContact(m) <=> NoFurther(SegmentDistance(a, b, c, d), bound)
  BY <1>1 DEF WallContact
<1>6. NoFurther(SegmentDistance(a, b, c, d), bound)
        <=> NearParts(a, b, c, d, n, l, bound) \/ (T # 0 /\ NearParts(a, b, c, d, t, t, bound))
  BY <1>2, <1>3, SegmentsAreExact
<1>7. NearParts(a, b, c, d, n, l, bound) <=>
        \E k \in 0..n, j \in 0..l :
            SquaredDistance(Times(l, Way(a, b, k, n)), Times(n, Way(c, d, j, l)))
                <= n * l * bound * n * l * bound
  BY <1>2, <1>4, NearPartsAre
<1>8. NearParts(a, b, c, d, t, t, bound) <=>
        \E k \in 0..t, j \in 0..t :
            SquaredDistance(Times(t, Way(a, b, k, t)), Times(t, Way(c, d, j, t)))
                <= t * t * bound * t * t * bound
  BY <1>2, <1>4, NearPartsAre
<1> QED
  BY <1>1, <1>3, <1>5, <1>6, <1>7, <1>8

(* Whatever step of a robot beside a wall, or of two robots, is judged,    *)
(* touching is reported exactly when at some instant of the step the       *)
(* bodies touch: by _swept_wall_contact and _swept_robot_contact of the    *)
(* benchmark, and by the referee of the match.                             *)
THEOREM ContactExact == ContactSpec => []ContactIsExact
<1>1. ContactInit => ContactIsExact
  BY DEF ContactInit, NoMove, ContactIsExact, WallContactIsExact, RobotContactIsExact
<1>2. ContactIsExact /\ [ContactNext]_contactVars => ContactIsExact'
  <2> SUFFICES ASSUME ContactIsExact, [ContactNext]_contactVars PROVE ContactIsExact'
    OBVIOUS
  <2>1. ASSUME NEW m \in WallMoves, JudgeWall(m) PROVE ContactIsExact'
    <3>1. move'.kind = "WALL" /\ move'.of = m /\ touched'.wall = WallContact(m)
      BY <2>1 DEF JudgeWall
    <3>2. RobotContactIsExact'
      BY <3>1 DEF RobotContactIsExact
    <3>3. WallContactIsExact'
      BY <3>1, ContactAssumption, WallsAreExact DEF WallContactIsExact
    <3> QED
      BY <3>2, <3>3 DEF ContactIsExact
  <2>2. ASSUME NEW m \in PairMoves, JudgeRobots(m) PROVE ContactIsExact'
    <3>1. /\ move'.kind = "ROBOTS" /\ move'.of = m
          /\ touched'.benchmark = RobotContact(m) /\ touched'.referee = RefereeCollision(m)
      BY <2>2 DEF JudgeRobots
    <3>2. WallContactIsExact'
      BY <3>1 DEF WallContactIsExact
    <3>3. m \in PairMoveType /\ Radius \in Nat
      BY ContactAssumption DEF ContactAssumption
    <3>4. RobotContactIsExact'
      BY <3>1, <3>3, RobotsAreExact DEF RobotContactIsExact
    <3> QED
      BY <3>2, <3>4 DEF ContactIsExact
  <2>3. CASE UNCHANGED contactVars
    <3>1. move' = move /\ touched' = touched
      BY <2>3 DEF contactVars
    <3>2. WallContactIsExact'
      BY <3>1, SMTT(30) DEF ContactIsExact, WallContactIsExact
    <3>3. RobotContactIsExact'
      BY <3>1, Zenon DEF ContactIsExact, RobotContactIsExact
    <3> QED
      BY <3>2, <3>3 DEF ContactIsExact
  <2> QED
    BY <2>1, <2>2, <2>3 DEF ContactNext
<1> QED
  BY <1>1, <1>2, PTL DEF ContactSpec

-----------------------------------------------------------------------------
(* A number between 0 and n, on either side of it.                         *)
Inside(m, n) == (0 <= m /\ m <= n) \/ (n <= m /\ m <= 0)

LEMMA InsideScaled ==
    ASSUME NEW m \in Int, NEW n \in Int, NEW s \in Int
    PROVE  /\ Inside(m, n) => Inside(m * s, n * s)
           /\ s # 0 /\ Inside(m * s, n * s) => Inside(m, n)
           /\ Inside(m, n) => Inside(-m, -n)
<1>1. \A c, x, y \in Int : c > 0 => (Inside(x, y) <=> Inside(x * c, y * c))
  <2> SUFFICES ASSUME NEW c \in Int, NEW x \in Int, NEW y \in Int, c > 0
               PROVE  Inside(x, y) <=> Inside(x * c, y * c)
    OBVIOUS
  <2>1. \A a, b \in Int : a <= b <=> a * c <= b * c
    <3> SUFFICES ASSUME NEW a \in Int, NEW b \in Int PROVE a <= b <=> a * c <= b * c
      OBVIOUS
    <3>1. a * c = c * a /\ b * c = c * b
      OBVIOUS
    <3>2. a <= b => c * a <= c * b
      BY Keeps
    <3>3. c * a <= c * b => a <= b
      BY Cancels
    <3> QED
      BY <3>1, <3>2, <3>3
  <2>2. 0 \in Int /\ 0 * c = 0
    OBVIOUS
  <2>3. /\ 0 <= x <=> 0 <= x * c
        /\ x <= 0 <=> x * c <= 0
        /\ x <= y <=> x * c <= y * c
        /\ y <= x <=> y * c <= x * c
    BY <2>1, <2>2
  <2> QED
    BY <2>3 DEF Inside
<1>2. \A x, y \in Int : Inside(x, y) <=> Inside(-x, -y)
  BY DEF Inside
<1>3. CASE s > 0
  BY <1>1, <1>2, <1>3
<1>4. CASE s < 0
  <2>1. PICK c : c = -s
    OBVIOUS
  <2>2. c \in Int /\ c > 0 /\ m * s = -(m * c) /\ n * s = -(n * c) /\ m * c \in Int /\ n * c \in Int
    BY <1>4, <2>1
  <2>3. Inside(m, n) <=> Inside(m * c, n * c)
    BY <1>1, <2>2
  <2>4. Inside(m * c, n * c) <=> Inside(m * s, n * s)
    BY <1>2, <2>2
  <2> QED
    BY <1>2, <2>3, <2>4
<1>5. CASE s = 0
  <2>1. m * s = 0 /\ n * s = 0
    BY <1>5
  <2> QED
    BY <1>2, <1>5, <2>1 DEF Inside
<1> QED
  BY <1>3, <1>4, <1>5

(* The sight from one point to another, and a wall, as vectors: d is the   *)
(* sight, q leads from its start to one end of the wall, and s from there  *)
(* to the other.                                                           *)
MeetsAt(d1, d2, q1, q2, s1, s2, k, n) ==
    /\ s1 * (k * d2 - n * q2) - s2 * (k * d1 - n * q1) = 0
    /\ Inside(k * d1 - n * q1, n * s1) /\ Inside(k * d2 - n * q2, n * s2)

(* Vectors that are parallel to another.                                   *)
LEMMA Multiples ==
    ASSUME NEW d1 \in Int, NEW d2 \in Int, NEW v1 \in Int, NEW v2 \in Int,
           d1 * v2 - d2 * v1 = 0
    PROVE  /\ (d1 * d1 + d2 * d2) * v1 = (v1 * d1 + v2 * d2) * d1
           /\ (d1 * d1 + d2 * d2) * v2 = (v1 * d1 + v2 * d2) * d2
<1>1. (d1 * d1 + d2 * d2) * v1 - (v1 * d1 + v2 * d2) * d1 = -(d2 * (d1 * v2 - d2 * v1))
  OBVIOUS
<1>2. (d1 * d1 + d2 * d2) * v2 - (v1 * d1 + v2 * d2) * d2 = d1 * (d1 * v2 - d2 * v1)
  OBVIOUS
<1>3. -(d2 * (d1 * v2 - d2 * v1)) = 0 /\ d1 * (d1 * v2 - d2 * v1) = 0
  OBVIOUS
<1>4. PICK x, y, z, w : /\ x = (d1 * d1 + d2 * d2) * v1 /\ y = (v1 * d1 + v2 * d2) * d1
                        /\ z = (d1 * d1 + d2 * d2) * v2 /\ w = (v1 * d1 + v2 * d2) * d2
  OBVIOUS
<1>5. x \in Int /\ y \in Int /\ z \in Int /\ w \in Int
  BY <1>4
<1>6. x - y = 0 /\ z - w = 0
  BY <1>1, <1>2, <1>3, <1>4
<1> QED
  BY <1>4, <1>5, <1>6

Aligned(v1, v2, w1, w2) == v1 * w2 - v2 * w1 = 0

LEMMA Transitive ==
    ASSUME NEW d1 \in Int, NEW d2 \in Int, NEW q1 \in Int, NEW q2 \in Int, NEW s1 \in Int, NEW s2 \in Int,
           s1 # 0 \/ s2 # 0, Aligned(d1, d2, s1, s2), Aligned(s1, s2, q1, q2)
    PROVE  Aligned(q1, q2, d1, d2)
<1>1. /\ (q1 * d2 - q2 * d1) * s1 + (d1 * s2 - d2 * s1) * q1 + (s1 * q2 - s2 * q1) * d1 = 0
      /\ (q1 * d2 - q2 * d1) * s2 + (d1 * s2 - d2 * s1) * q2 + (s1 * q2 - s2 * q1) * d2 = 0
  OBVIOUS
<1>2. PICK x : x = q1 * d2 - q2 * d1
  OBVIOUS
<1>3. x \in Int /\ x * s1 = 0 /\ x * s2 = 0
  BY <1>1, <1>2 DEF Aligned
<1> QED
  BY <1>2, <1>3 DEF Aligned

(* A wall along the sight.                                                 *)
AlongAgrees(d1, d2, q1, q2, s1, s2, L, f, h) ==
    /\ q1 * d2 - q2 * d1 = 0
    /\ Greater(Lesser(f, h), 0) < Lesser(Greater(f, h), L)
    <=> \E k \in 1..(2 * L - 1) : MeetsAt(d1, d2, q1, q2, s1, s2, k, 2 * L)

LEMMA AlongIsExact ==
    ASSUME NEW d1 \in Int, NEW d2 \in Int, NEW q1 \in Int, NEW q2 \in Int, NEW s1 \in Int, NEW s2 \in Int,
           s1 # 0 \/ s2 # 0, d1 # 0 \/ d2 # 0, d1 * s2 - d2 * s1 = 0,
           NEW L \in Int, L = d1 * d1 + d2 * d2,
           NEW f \in Int, f = q1 * d1 + q2 * d2,
           NEW h \in Int, h = (q1 + s1) * d1 + (q2 + s2) * d2
    PROVE  AlongAgrees(d1, d2, q1, q2, s1, s2, L, f, h)
<1>1. L > 0
  <2>1. d1 * d1 \in Nat /\ d2 * d2 \in Nat /\ (d1 * d1 = 0 => d1 = 0) /\ (d2 * d2 = 0 => d2 = 0)
    BY Squares
  <2>2. PICK x, y : x = d1 * d1 /\ y = d2 * d2
    OBVIOUS
  <2> QED
    BY <2>1, <2>2
<1>2. PICK n : n = 2 * L
  OBVIOUS
<1>3. n \in Int /\ n > 0
  BY <1>1, <1>2
<1>4. PICK g : g = s1 * d1 + s2 * d2
  OBVIOUS
<1>5. g \in Int /\ h = f + g
  BY <1>4
<1>6. L * s1 = g * d1 /\ L * s2 = g * d2
  BY <1>4, Multiples
<1>7. n * s1 = (2 * (h - f)) * d1 /\ n * s2 = (2 * (h - f)) * d2
  <2>1. h - f = g
    BY <1>5
  <2>2. n * s1 = 2 * (L * s1) /\ n * s2 = 2 * (L * s2)
    BY <1>2
  <2>3. 2 * (g * d1) = (2 * g) * d1 /\ 2 * (g * d2) = (2 * g) * d2
    BY <1>5
  <2> QED
    BY <1>6, <2>1, <2>2, <2>3
<1>8. h - f # 0
  <2>1. g = 0 => L * s1 = 0 /\ L * s2 = 0
    BY <1>6
  <2>2. L * s1 = 0 => s1 = 0
    BY <1>1
  <2>3. L * s2 = 0 => s2 = 0
    BY <1>1
  <2> QED
    BY <1>5, <2>1, <2>2, <2>3
<1>9. ASSUME q1 * d2 - q2 * d1 = 0, NEW k \in Int
      PROVE  /\ k * d1 - n * q1 = (k - 2 * f) * d1
             /\ k * d2 - n * q2 = (k - 2 * f) * d2
  <2>1. d1 * q2 - d2 * q1 = 0
    BY <1>9
  <2>2. L * q1 = f * d1 /\ L * q2 = f * d2
    BY <2>1, Multiples
  <2>3. n * q1 = 2 * (L * q1) /\ n * q2 = 2 * (L * q2)
    BY <1>2
  <2>4. k * d1 - 2 * (f * d1) = (k - 2 * f) * d1 /\ k * d2 - 2 * (f * d2) = (k - 2 * f) * d2
    OBVIOUS
  <2> QED
    BY <2>2, <2>3, <2>4
<1>10. ASSUME q1 * d2 - q2 * d1 = 0, Greater(Lesser(f, h), 0) < Lesser(Greater(f, h), L)
       PROVE  \E k \in 1..(n - 1) : MeetsAt(d1, d2, q1, q2, s1, s2, k, n)
  <2>1. PICK k : k = Greater(Lesser(f, h), 0) + Lesser(Greater(f, h), L)
    OBVIOUS
  <2>2. k \in 1..(n - 1) /\ Inside(k - 2 * f, 2 * (h - f))
    BY <1>1, <1>2, <1>10, <2>1 DEF Greater, Lesser, Inside
  <2>3. k \in Int
    BY <2>2
  <2>4. PICK m, w : m = k - 2 * f /\ w = 2 * (h - f)
    OBVIOUS
  <2>5. m \in Int /\ w \in Int /\ Inside(m, w)
    BY <2>2, <2>3, <2>4
  <2>6. Inside(m * d1, w * d1) /\ Inside(m * d2, w * d2)
    BY <2>5, InsideScaled
  <2>7. /\ k * d1 - n * q1 = m * d1 /\ k * d2 - n * q2 = m * d2
        /\ n * s1 = w * d1 /\ n * s2 = w * d2
    BY <1>7, <1>9, <1>10, <2>3, <2>4
  <2>8. s1 * (m * d2) - s2 * (m * d1) = 0
    <3>1. s1 * (m * d2) - s2 * (m * d1) = -(m * (d1 * s2 - d2 * s1))
      BY <2>5
    <3> QED
      BY <2>5, <3>1
  <2>9. MeetsAt(d1, d2, q1, q2, s1, s2, k, n)
    BY <2>6, <2>7, <2>8 DEF MeetsAt
  <2> QED
    BY <2>2, <2>9
<1>11. ASSUME NEW k \in 1..(n - 1), MeetsAt(d1, d2, q1, q2, s1, s2, k, n)
       PROVE  /\ q1 * d2 - q2 * d1 = 0
              /\ Greater(Lesser(f, h), 0) < Lesser(Greater(f, h), L)
  <2>1. k \in Int /\ 0 < k /\ k < n
    BY <1>3
  <2>2. s1 * q2 - s2 * q1 = 0
    <3>1. PICK x : x = s1 * q2 - s2 * q1
      OBVIOUS
    <3>2. s1 * (k * d2 - n * q2) - s2 * (k * d1 - n * q1) = -(k * (d1 * s2 - d2 * s1)) - n * x
      BY <1>3, <2>1, <3>1
    <3>3. x \in Int /\ k * (d1 * s2 - d2 * s1) = 0
      BY <2>1, <3>1
    <3>4. n * x = 0
      BY <1>3, <1>11, <3>2, <3>3 DEF MeetsAt
    <3>5. x = 0
      BY <1>3, <3>3, <3>4
    <3> QED
      BY <3>1, <3>5
  <2>3. q1 * d2 - q2 * d1 = 0
    <3>1. Aligned(d1, d2, s1, s2) /\ Aligned(s1, s2, q1, q2)
      BY <2>2 DEF Aligned
    <3>2. Aligned(q1, q2, d1, d2)
      BY <3>1, Transitive
    <3> QED
      BY <3>2 DEF Aligned
  <2>4. PICK m, w : m = k - 2 * f /\ w = 2 * (h - f)
    OBVIOUS
  <2>5. m \in Int /\ w \in Int
    BY <2>1, <2>4
  <2>6. /\ k * d1 - n * q1 = m * d1 /\ k * d2 - n * q2 = m * d2
        /\ n * s1 = w * d1 /\ n * s2 = w * d2
    BY <1>7, <1>9, <2>1, <2>3, <2>4
  <2>7. Inside(m * d1, w * d1) /\ Inside(m * d2, w * d2)
    BY <1>11, <2>6 DEF MeetsAt
  <2>8. Inside(m, w)
    BY <2>5, <2>7, InsideScaled
  <2>9. Greater(Lesser(f, h), 0) < Lesser(Greater(f, h), L)
    BY <1>1, <1>2, <1>8, <2>1, <2>4, <2>8 DEF Greater, Lesser, Inside
  <2> QED
    BY <2>3, <2>9
<1> QED
  BY <1>2, <1>10, <1>11 DEF AlongAgrees

(* A wall across it.                                                       *)
AcrossAgrees(d1, d2, q1, q2, s1, s2, T, g) ==
    /\ 0 < g * (q1 * s2 - q2 * s1) /\ g * (q1 * s2 - q2 * s1) < g * T
    /\ 0 <= g * (q1 * d2 - q2 * d1) /\ g * (q1 * d2 - q2 * d1) <= g * T
    <=> \E k \in 1..(g * T - 1) : MeetsAt(d1, d2, q1, q2, s1, s2, k, g * T)

LEMMA AcrossIsExact ==
    ASSUME NEW d1 \in Int, NEW d2 \in Int, NEW q1 \in Int, NEW q2 \in Int, NEW s1 \in Int, NEW s2 \in Int,
           s1 # 0 \/ s2 # 0, NEW T \in Int, T = d1 * s2 - d2 * s1, T # 0,
           NEW g \in Int, g = 1 \/ g = -1, g * T > 0
    PROVE  AcrossAgrees(d1, d2, q1, q2, s1, s2, T, g)
<1>1. PICK n, r, w : n = g * T /\ r = g * (q1 * s2 - q2 * s1) /\ w = g * (q1 * d2 - q2 * d1)
  OBVIOUS
<1>2. g \in Int /\ g * g = 1 /\ n \in Int /\ n > 0 /\ r \in Int /\ w \in Int
  BY <1>1
<1>3. r * d1 - n * q1 = w * s1 /\ r * d2 - n * q2 = w * s2
  <2>1. /\ (q1 * s2 - q2 * s1) * d1 - (d1 * s2 - d2 * s1) * q1 = (q1 * d2 - q2 * d1) * s1
        /\ (q1 * s2 - q2 * s1) * d2 - (d1 * s2 - d2 * s1) * q2 = (q1 * d2 - q2 * d1) * s2
    OBVIOUS
  <2>2. PICK x, y : x = q1 * s2 - q2 * s1 /\ y = q1 * d2 - q2 * d1
    OBVIOUS
  <2>3. x \in Int /\ y \in Int
    BY <2>2
  <2>4. x * d1 - T * q1 = y * s1 /\ x * d2 - T * q2 = y * s2
    BY <2>1, <2>2
  <2>5. CASE g = 1
    BY <1>1, <2>2, <2>3, <2>4, <2>5
  <2>6. CASE g = -1
    <3>1. r = -x /\ n = -T /\ w = -y
      BY <1>1, <2>2, <2>3, <2>6
    <3>2. /\ (-x) * d1 - (-T) * q1 = -(x * d1 - T * q1) /\ (-x) * d2 - (-T) * q2 = -(x * d2 - T * q2)
          /\ -(y * s1) = (-y) * s1 /\ -(y * s2) = (-y) * s2
      BY <2>3
    <3> QED
      BY <2>4, <3>1, <3>2
  <2> QED
    BY <2>5, <2>6
<1>4. ASSUME 0 < r, r < n, 0 <= w, w <= n
      PROVE  r \in 1..(n - 1) /\ MeetsAt(d1, d2, q1, q2, s1, s2, r, n)
  <2>1. Inside(w, n)
    BY <1>2, <1>4 DEF Inside
  <2>2. Inside(w * s1, n * s1) /\ Inside(w * s2, n * s2)
    BY <1>2, <2>1, InsideScaled
  <2>3. s1 * (w * s2) - s2 * (w * s1) = 0
    BY <1>2
  <2> QED
    BY <1>2, <1>3, <1>4, <2>2, <2>3 DEF MeetsAt
<1>5. ASSUME NEW k \in 1..(n - 1), MeetsAt(d1, d2, q1, q2, s1, s2, k, n)
      PROVE  0 < r /\ r < n /\ 0 <= w /\ w <= n
  <2>1. k \in Int /\ 0 < k /\ k < n
    BY <1>2
  <2>2. k = r
    <3>1. PICK x : x = q1 * s2 - q2 * s1
      OBVIOUS
    <3>2. x \in Int
      BY <3>1
    <3>3. s1 * (k * d2 - n * q2) - s2 * (k * d1 - n * q1) = n * x - k * T
      BY <1>2, <2>1, <3>1
    <3>4. k * T = n * x
      <4>1. PICK y, z : y = n * x /\ z = k * T
        OBVIOUS
      <4>2. y \in Int /\ z \in Int
        BY <1>2, <2>1, <3>2, <4>1
      <4>3. y - z = 0
        BY <1>5, <3>3, <4>1 DEF MeetsAt
      <4> QED
        BY <4>1, <4>2, <4>3
    <3>5. T * k = T * r
      <4>1. n * x = T * (g * x)
        BY <1>1, <3>2
      <4> QED
        BY <1>1, <2>1, <3>1, <3>4, <4>1
    <3> QED
      BY <1>2, <2>1, <3>5
  <2>3. Inside(w * s1, n * s1) /\ Inside(w * s2, n * s2)
    BY <1>3, <1>5, <2>2 DEF MeetsAt
  <2>4. Inside(w, n)
    BY <1>2, <2>3, InsideScaled
  <2> QED
    BY <1>2, <2>1, <2>2, <2>4 DEF Inside
<1> QED
  BY <1>1, <1>2, <1>4, <1>5 DEF AcrossAgrees

(* The k-th of n parts of the sight is on the wall, and how many parts the *)
(* property looks at.                                                      *)
PointOnWall(from, to, k, n, wall) ==
    LET p == <<n * from[1] + k * (to[1] - from[1]), n * from[2] + k * (to[2] - from[2])>>
        a == <<n * wall[1][1], n * wall[1][2]>>
        b == <<n * wall[2][1], n * wall[2][2]>>
    IN  /\ Cross(Minus(b, a), Minus(p, a)) = 0
        /\ \A i \in 1..2 : /\ Lesser(a[i], b[i]) <= p[i]
                           /\ p[i] <= Greater(a[i], b[i])
PartsOf(from, to, wall) ==
    LET turn == Cross(Minus(to, from), Minus(wall[2], wall[1]))
    IN  IF turn = 0 THEN 2 * SquaredDistance(from, to) ELSE Greater(turn, -turn)

LEMMA OnWallIs ==
    ASSUME NEW x1 \in Int, NEW x2 \in Int, NEW y1 \in Int, NEW y2 \in Int,
           NEW a1 \in Int, NEW a2 \in Int, NEW b1 \in Int, NEW b2 \in Int,
           NEW k \in Int, NEW n \in Int, n > 0
    PROVE  PointOnWall(<<x1, x2>>, <<y1, y2>>, k, n, <<<<a1, a2>>, <<b1, b2>>>>)
           <=> MeetsAt(y1 - x1, y2 - x2, a1 - x1, a2 - x2, b1 - a1, b2 - a2, k, n)
<1>1. PICK A1, A2, B1, B2, P1, P2 :
          /\ A1 = n * a1 /\ A2 = n * a2 /\ B1 = n * b1 /\ B2 = n * b2
          /\ P1 = n * x1 + k * (y1 - x1) /\ P2 = n * x2 + k * (y2 - x2)
  OBVIOUS
<1>2. A1 \in Int /\ A2 \in Int /\ B1 \in Int /\ B2 \in Int /\ P1 \in Int /\ P2 \in Int
  BY <1>1
<1>3. PICK r1, r2, s1, s2 : /\ r1 = k * (y1 - x1) - n * (a1 - x1) /\ r2 = k * (y2 - x2) - n * (a2 - x2)
                            /\ s1 = b1 - a1 /\ s2 = b2 - a2
  OBVIOUS
<1>4. r1 \in Int /\ r2 \in Int /\ s1 \in Int /\ s2 \in Int
  BY <1>3
<1>5. P1 - A1 = r1 /\ P2 - A2 = r2 /\ B1 - A1 = n * s1 /\ B2 - A2 = n * s2
  BY <1>1, <1>3
<1>6. PointOnWall(<<x1, x2>>, <<y1, y2>>, k, n, <<<<a1, a2>>, <<b1, b2>>>>)
      <=> /\ (B1 - A1) * (P2 - A2) - (B2 - A2) * (P1 - A1) = 0
          /\ Lesser(A1, B1) <= P1 /\ P1 <= Greater(A1, B1)
          /\ Lesser(A2, B2) <= P2 /\ P2 <= Greater(A2, B2)
  BY <1>1 DEF PointOnWall, Cross, Minus
<1>7. (n * s1) * r2 - (n * s2) * r1 = 0 <=> s1 * r2 - s2 * r1 = 0
  <2>1. PICK z : z = s1 * r2 - s2 * r1
    OBVIOUS
  <2>2. z \in Int /\ (n * s1) * r2 - (n * s2) * r1 = n * z
    BY <1>4, <2>1
  <2>3. n * z = 0 <=> z = 0
    BY <2>2
  <2> QED
    BY <2>1, <2>2, <2>3
<1>8. /\ Lesser(A1, B1) <= P1 /\ P1 <= Greater(A1, B1) <=> Inside(P1 - A1, B1 - A1)
      /\ Lesser(A2, B2) <= P2 /\ P2 <= Greater(A2, B2) <=> Inside(P2 - A2, B2 - A2)
  BY <1>2 DEF Lesser, Greater, Inside
<1> QED
  BY <1>3, <1>5, <1>6, <1>7, <1>8 DEF MeetsAt

LEMMA HidesIs ==
    ASSUME NEW from \in Point, NEW to \in Point, from # to,
           NEW wall \in Point \X Point, wall[1] # wall[2]
    PROVE  Hides(from, to, wall) <=>
               \E k \in 1..(PartsOf(from, to, wall) - 1) :
                   PointOnWall(from, to, k, PartsOf(from, to, wall), wall)
<1>1. PICK x1 \in Int, x2 \in Int : from = <<x1, x2>>
  BY DEF Point
<1>2. PICK y1 \in Int, y2 \in Int : to = <<y1, y2>>
  BY DEF Point
<1>3. PICK a1 \in Int, a2 \in Int, b1 \in Int, b2 \in Int : wall = <<<<a1, a2>>, <<b1, b2>>>>
  BY DEF Point
<1>4. PICK d1, d2, q1, q2, s1, s2 : /\ d1 = y1 - x1 /\ d2 = y2 - x2 /\ q1 = a1 - x1 /\ q2 = a2 - x2
                                    /\ s1 = b1 - a1 /\ s2 = b2 - a2
  OBVIOUS
<1>5. d1 \in Int /\ d2 \in Int /\ q1 \in Int /\ q2 \in Int /\ s1 \in Int /\ s2 \in Int
  BY <1>4
<1>6. d1 # 0 \/ d2 # 0
  BY <1>1, <1>2, <1>4
<1>7. s1 # 0 \/ s2 # 0
  BY <1>3, <1>4
<1>8. /\ Minus(to, from) = <<d1, d2>> /\ Minus(wall[2], wall[1]) = <<s1, s2>>
      /\ Minus(wall[1], from) = <<q1, q2>> /\ Minus(from, to) = <<-d1, -d2>>
  BY <1>1, <1>2, <1>3, <1>4 DEF Minus
<1>9. Minus(wall[2], from) = <<q1 + s1, q2 + s2>>
  BY <1>1, <1>2, <1>3, <1>4 DEF Minus
<1>10. PICK T : T = d1 * s2 - d2 * s1
  OBVIOUS
<1>11. T \in Int /\ Cross(Minus(to, from), Minus(wall[2], wall[1])) = T
  BY <1>5, <1>8, <1>10 DEF Cross
<1>12. \A k, n \in Int : n > 0 => (PointOnWall(from, to, k, n, wall) <=> MeetsAt(d1, d2, q1, q2, s1, s2, k, n))
  BY <1>1, <1>2, <1>3, <1>4, OnWallIs
<1>13. CASE T = 0
  <2>1. PICK L, f, h : /\ L = d1 * d1 + d2 * d2 /\ f = q1 * d1 + q2 * d2
                       /\ h = (q1 + s1) * d1 + (q2 + s2) * d2
    OBVIOUS
  <2>2. L \in Int /\ f \in Int /\ h \in Int
    BY <1>5, <2>1
  <2>3. L > 0
    <3>1. d1 * d1 \in Nat /\ d2 * d2 \in Nat /\ (d1 * d1 = 0 => d1 = 0) /\ (d2 * d2 = 0 => d2 = 0)
      BY <1>5, Squares
    <3>2. PICK x, y : x = d1 * d1 /\ y = d2 * d2
      OBVIOUS
    <3> QED
      BY <1>6, <2>1, <3>1, <3>2
  <2>4. SquaredDistance(from, to) = L
    <3>1. (-d1) * (-d1) = d1 * d1 /\ (-d2) * (-d2) = d2 * d2
      BY <1>5
    <3> QED
      BY <1>8, <2>1, <3>1 DEF SquaredDistance, Dot
  <2>5. PartsOf(from, to, wall) = 2 * L
    BY <1>11, <1>13, <2>4 DEF PartsOf
  <2>6. CoversSome(from, to, wall) <=> Greater(Lesser(f, h), 0) < Lesser(Greater(f, h), L)
    BY <1>8, <1>9, <2>1, <2>4 DEF CoversSome, Dot
  <2>7. Hides(from, to, wall) <=> q1 * d2 - q2 * d1 = 0 /\ CoversSome(from, to, wall)
    BY <1>8, <1>11, <1>13 DEF Hides, Cross
  <2>8. q1 * d2 - q2 * d1 = 0 /\ CoversSome(from, to, wall)
        <=> \E k \in 1..(2 * L - 1) : MeetsAt(d1, d2, q1, q2, s1, s2, k, 2 * L)
    <3>1. d1 * s2 - d2 * s1 = 0
      BY <1>10, <1>13
    <3>2. AlongAgrees(d1, d2, q1, q2, s1, s2, L, f, h)
      BY <1>5, <1>6, <1>7, <2>1, <2>2, <3>1, AlongIsExact
    <3> QED
      BY <2>6, <3>2 DEF AlongAgrees
  <2>9. \A k \in 1..(2 * L - 1) : PointOnWall(from, to, k, 2 * L, wall) <=> MeetsAt(d1, d2, q1, q2, s1, s2, k, 2 * L)
    BY <1>12, <2>2, <2>3
  <2> QED
    BY <2>5, <2>7, <2>8, <2>9
<1>14. CASE T # 0
  <2>1. PICK g : g = IF T > 0 THEN 1 ELSE -1
    OBVIOUS
  <2>2. g \in {1, -1} /\ g * T > 0 /\ g * T = Greater(T, -T)
    BY <1>11, <1>14, <2>1 DEF Greater
  <2>3. PICK n : n = g * T
    OBVIOUS
  <2>4. n \in Int /\ n > 0 /\ PartsOf(from, to, wall) = n
    BY <1>11, <1>14, <2>2, <2>3 DEF PartsOf
  <2>5. Hides(from, to, wall) <=> CrossesSight(from, to, wall)
    BY <1>11, <1>14 DEF Hides
  <2>6. CrossesSight(from, to, wall) <=>
            /\ 0 < g * (q1 * s2 - q2 * s1) /\ g * (q1 * s2 - q2 * s1) < g * T
            /\ 0 <= g * (q1 * d2 - q2 * d1) /\ g * (q1 * d2 - q2 * d1) <= g * T
    <3>1. /\ Cross(Minus(wall[1], from), Minus(wall[2], wall[1])) = q1 * s2 - q2 * s1
          /\ Cross(Minus(wall[1], from), Minus(to, from)) = q1 * d2 - q2 * d1
      BY <1>8 DEF Cross
    <3> QED
      BY <1>11, <2>1, <3>1 DEF CrossesSight
  <2>7. CrossesSight(from, to, wall)
        <=> \E k \in 1..(n - 1) : MeetsAt(d1, d2, q1, q2, s1, s2, k, n)
    <3>1. AcrossAgrees(d1, d2, q1, q2, s1, s2, T, g)
      <4>1. /\ d1 \in Int /\ d2 \in Int /\ q1 \in Int /\ q2 \in Int /\ s1 \in Int /\ s2 \in Int
            /\ s1 # 0 \/ s2 # 0
            /\ T \in Int /\ T = d1 * s2 - d2 * s1 /\ T # 0 /\ g \in Int /\ g * T > 0
            /\ g = 1 \/ g = -1
        BY <1>5, <1>7, <1>10, <1>11, <1>14, <2>2
      <4> QED
        BY <4>1, AcrossIsExact
    <3> QED
      BY <2>3, <2>6, <3>1 DEF AcrossAgrees
  <2>8. \A k \in 1..(n - 1) : PointOnWall(from, to, k, n, wall) <=> MeetsAt(d1, d2, q1, q2, s1, s2, k, n)
    BY <1>12, <2>4
  <2> QED
    BY <2>4, <2>5, <2>7, <2>8
<1> QED
  BY <1>11, <1>13, <1>14

(* The rule of the sight.                                                  *)
LEMMA SightIs ==
    ASSUME NEW s \in Sights
    PROVE  LineOfSight(s.from, s.to, s.walls) <=>
               \/ s.from = s.to
               \/ \A wall \in s.walls : \A k \in 1..(PartsOf(s.from, s.to, wall) - 1) :
                      ~PointOnWall(s.from, s.to, k, PartsOf(s.from, s.to, wall), wall)
<1>1. s \in SightType /\ \A w \in s.walls : w[1] # w[2]
  BY PerceptionAssumption
<1>2. s.from \in Point /\ s.to \in Point /\ \A w \in s.walls : w \in Point \X Point
  BY <1>1 DEF SightType
<1> QED
  BY <1>1, <1>2, HidesIs DEF LineOfSight

-----------------------------------------------------------------------------
(* Groups of beams.                                                        *)
LEMMA GroupIs ==
    ASSUME NEW g \in Seq(Nat), g # <<>>
    PROVE  /\ ToSet(g) \in SUBSET Nat
           /\ g[1] \in Nat /\ g[1] \in ToSet(g) /\ Head(g) = g[1]
           /\ Last(g) \in Nat /\ Last(g) \in ToSet(g)
<1>1. Len(g) \in Nat /\ Len(g) # 0 /\ DOMAIN g = 1..Len(g) /\ \A i \in 1..Len(g) : g[i] \in Nat
  OBVIOUS
<1>2. 1 \in 1..Len(g) /\ Len(g) \in 1..Len(g)
  BY <1>1
<1> QED
  BY <1>1, <1>2 DEF ToSet, Last

LEMMA LongerIs ==
    ASSUME NEW g \in Seq(Nat), g # <<>>, NEW b \in Nat
    PROVE  /\ Append(g, b) \in Seq(Nat) /\ Append(g, b) # <<>>
           /\ ToSet(Append(g, b)) = ToSet(g) \cup {b}
           /\ Append(g, b)[1] = g[1] /\ Last(Append(g, b)) = b
<1>1. Len(g) \in Nat /\ Len(g) # 0 /\ DOMAIN g = 1..Len(g)
  OBVIOUS
<1>2. PICK h : h = Append(g, b)
  OBVIOUS
<1>3. /\ h \in Seq(Nat) /\ h # <<>> /\ Len(h) = Len(g) + 1 /\ DOMAIN h = 1..(Len(g) + 1)
      /\ \A i \in 1..Len(g) : h[i] = g[i]
      /\ h[Len(g) + 1] = b
  BY <1>1, <1>2
<1>4. ToSet(h) = ToSet(g) \cup {b}
  <2>1. ASSUME NEW i \in 1..(Len(g) + 1) PROVE h[i] \in ToSet(g) \cup {b}
    <3>1. i \in 1..Len(g) \/ i = Len(g) + 1
      BY <1>1
    <3> QED
      BY <1>1, <1>3, <3>1 DEF ToSet
  <2>2. ASSUME NEW i \in 1..Len(g) PROVE g[i] \in ToSet(h)
    <3>1. i \in 1..(Len(g) + 1)
      BY <1>1
    <3> QED
      BY <1>3, <3>1 DEF ToSet
  <2>3. b \in ToSet(h)
    <3>1. Len(g) + 1 \in 1..(Len(g) + 1)
      BY <1>1
    <3> QED
      BY <1>3, <3>1 DEF ToSet
  <2>4. \A x \in ToSet(h) : x \in ToSet(g) \cup {b}
    BY <1>3, <2>1 DEF ToSet
  <2>5. \A x \in ToSet(g) : x \in ToSet(h)
    BY <1>1, <2>2 DEF ToSet
  <2> QED
    BY <2>3, <2>4, <2>5
<1> QED
  BY <1>1, <1>2, <1>3, <1>4 DEF Last

LEMMA AloneIs ==
    ASSUME NEW b \in Nat
    PROVE  /\ <<b>> \in Seq(Nat) /\ <<b>> # <<>> /\ ToSet(<<b>>) = {b}
           /\ <<b>>[1] = b /\ Last(<<b>>) = b
  BY DEF ToSet, Last

(* What has been made of the beams below k.                                *)
Grouped(groups, beams, k) ==
    /\ groups \in Seq(Seq(Nat))
    /\ \A i \in 1..Len(groups) : groups[i] # <<>>
    /\ \A x \in beams : x < k => \E i \in 1..Len(groups) : x \in ToSet(groups[i])
    /\ \A i \in 1..Len(groups) : \A x \in ToSet(groups[i]) :
          x \in beams /\ x < k /\ groups[i][1] <= x /\ x <= Last(groups[i])
    /\ \A i, j \in 1..Len(groups) : i < j => groups[j][1] - Last(groups[i]) > MaximumGap + 1

LEMMA GroupsAre ==
    ASSUME NEW beams, NEW k, NEW groups, Grouped(groups, beams, k)
    PROVE  /\ Len(groups) \in Nat /\ DOMAIN groups = 1..Len(groups)
           /\ \A i \in 1..Len(groups) :
                 /\ groups[i] \in Seq(Nat) /\ groups[i] # <<>> /\ ToSet(groups[i]) \in SUBSET Nat
                 /\ groups[i][1] \in Nat /\ groups[i][1] \in ToSet(groups[i]) /\ Head(groups[i]) = groups[i][1]
                 /\ Last(groups[i]) \in Nat /\ Last(groups[i]) \in ToSet(groups[i])
<1>1. groups \in Seq(Seq(Nat)) /\ \A i \in 1..Len(groups) : groups[i] # <<>>
  BY DEF Grouped
<1>2. /\ Len(groups) \in Nat /\ DOMAIN groups = 1..Len(groups)
      /\ \A i \in 1..Len(groups) : groups[i] \in Seq(Nat)
  BY <1>1
<1> QED
  BY <1>1, <1>2, GroupIs

LEMMA JoinedGroups ==
    ASSUME NEW beams \in SUBSET Nat, NEW k \in beams, NEW groups, Grouped(groups, beams, k)
    PROVE  Grouped(Joined(groups, k), beams, k + 1)
<1> USE PerceptionAssumption DEF ExtractorConfigValid
<1> k \in Nat
  OBVIOUS
<1>1. PICK n : n = Len(groups)
  OBVIOUS
<1>2. /\ groups \in Seq(Seq(Nat)) /\ n \in Nat /\ DOMAIN groups = 1..n
      /\ \A i \in 1..n :
                 /\ groups[i] \in Seq(Nat) /\ groups[i] # <<>> /\ ToSet(groups[i]) \in SUBSET Nat
                 /\ groups[i][1] \in Nat /\ groups[i][1] \in ToSet(groups[i])
                 /\ Last(groups[i]) \in Nat /\ Last(groups[i]) \in ToSet(groups[i])
  <2>1. groups \in Seq(Seq(Nat))
    BY DEF Grouped
  <2> QED
    BY <1>1, <2>1, GroupsAre
<1>3. /\ \A x \in beams : x < k => \E i \in 1..n : x \in ToSet(groups[i])
      /\ \A i \in 1..n : \A x \in ToSet(groups[i]) :
            x \in beams /\ x < k /\ groups[i][1] <= x /\ x <= Last(groups[i])
      /\ \A i, j \in 1..n : i < j => groups[j][1] - Last(groups[i]) > MaximumGap + 1
  BY <1>1 DEF Grouped
<1>4. PICK new : new = Joined(groups, k)
  OBVIOUS
<1>5. \A x \in beams : x < k + 1 => x < k \/ x = k
  OBVIOUS
<1>6. CASE groups # <<>> /\ k - Last(Last(groups)) <= MaximumGap + 1
  <2>1. n \in 1..n /\ Last(groups) = groups[n]
    BY <1>1, <1>2, <1>6 DEF Last
  <2>2. PICK longer : longer = Append(groups[n], k)
    OBVIOUS
  <2>3. /\ longer \in Seq(Nat) /\ longer # <<>> /\ ToSet(longer) = ToSet(groups[n]) \cup {k}
        /\ longer[1] = groups[n][1] /\ Last(longer) = k
    BY <1>2, <2>1, <2>2, LongerIs
  <2>4. new = [groups EXCEPT ![n] = longer]
    BY <1>1, <1>4, <1>6, <2>2 DEF Joined
  <2>5. new \in Seq(Seq(Nat)) /\ Len(new) = n /\ new[n] = longer /\ \A i \in 1..n : i # n => new[i] = groups[i]
    BY <1>1, <1>2, <2>1, <2>3, <2>4
  <2>6. \A i \in 1..n : new[i] # <<>>
    BY <1>2, <2>3, <2>5
  <2>7. ASSUME NEW x \in beams, x < k + 1 PROVE \E i \in 1..n : x \in ToSet(new[i])
    <3>1. CASE x = k
      BY <2>1, <2>3, <2>5, <3>1
    <3>2. CASE x < k
      <4>1. PICK i \in 1..n : x \in ToSet(groups[i])
        BY <1>3, <3>2
      <4> QED
        BY <2>1, <2>3, <2>5, <4>1
    <3> QED
      BY <1>5, <2>7, <3>1, <3>2
  <2>8. ASSUME NEW i \in 1..n, NEW x \in ToSet(new[i])
        PROVE  x \in beams /\ x < k + 1 /\ new[i][1] <= x /\ x <= Last(new[i])
    <3>1. CASE i # n
      <4>1. new[i] = groups[i]
        BY <2>5, <3>1
      <4>2. x \in ToSet(groups[i]) /\ x \in Nat
        BY <1>2, <2>8, <4>1
      <4> QED
        BY <1>3, <4>1, <4>2
    <3>2. CASE i = n
      <4>1. x \in ToSet(groups[n]) \/ x = k
        BY <2>3, <2>5, <3>2
      <4>2. groups[n][1] < k /\ groups[n][1] \in Nat
        BY <1>2, <1>3, <2>1
      <4>3. x \in ToSet(groups[n]) => x \in beams /\ x \in Nat /\ x < k /\ groups[n][1] <= x
        BY <1>2, <1>3, <2>1
      <4> QED
        BY <2>3, <2>5, <3>2, <4>1, <4>2, <4>3
    <3> QED
      BY <3>1, <3>2
  <2>9. ASSUME NEW i \in 1..n, NEW j \in 1..n, i < j
        PROVE  new[j][1] - Last(new[i]) > MaximumGap + 1
    <3>1. i # n /\ new[i] = groups[i]
      BY <1>2, <2>5, <2>9
    <3>2. j # n => new[j] = groups[j]
      BY <2>5
    <3>3. new[j][1] = groups[j][1]
      BY <2>3, <2>5, <3>2
    <3> QED
      BY <1>3, <2>9, <3>1, <3>3
  <2> QED
    BY <1>4, <2>5, <2>6, <2>7, <2>8, <2>9 DEF Grouped
<1>7. CASE ~(groups # <<>> /\ k - Last(Last(groups)) <= MaximumGap + 1)
  <2>1. PICK alone : alone = <<k>>
    OBVIOUS
  <2>2. /\ alone \in Seq(Nat) /\ alone # <<>> /\ ToSet(alone) = {k} /\ alone[1] = k /\ Last(alone) = k
    BY <2>1, AloneIs
  <2>3. new = Append(groups, alone)
    BY <1>4, <1>7, <2>1 DEF Joined
  <2>4. /\ new \in Seq(Seq(Nat)) /\ Len(new) = n + 1 /\ new[n + 1] = alone
        /\ \A i \in 1..n : new[i] = groups[i]
    BY <1>1, <1>2, <2>2, <2>3
  <2>5. \A i \in 1..(n + 1) : i \in 1..n \/ i = n + 1
    BY <1>2
  <2>6. \A i \in 1..n : i \in 1..(n + 1) /\ n + 1 \in 1..(n + 1)
    BY <1>2
  <2>7. n + 1 \in 1..(n + 1)
    BY <1>2
  <2>8. \A i \in 1..(n + 1) : new[i] # <<>>
    BY <1>2, <2>2, <2>4, <2>5
  <2>9. ASSUME NEW x \in beams, x < k + 1 PROVE \E i \in 1..(n + 1) : x \in ToSet(new[i])
    <3>1. CASE x = k
      BY <2>2, <2>4, <2>7, <3>1
    <3>2. CASE x < k
      BY <1>3, <2>4, <2>6, <3>2
    <3> QED
      BY <1>5, <2>9, <3>1, <3>2
  <2>10. ASSUME NEW i \in 1..(n + 1), NEW x \in ToSet(new[i])
        PROVE  x \in beams /\ x < k + 1 /\ new[i][1] <= x /\ x <= Last(new[i])
    <3>1. CASE i \in 1..n
      <4>1. new[i] = groups[i]
        BY <2>4, <3>1
      <4>2. x \in ToSet(groups[i]) /\ x \in Nat
        BY <1>2, <2>10, <3>1, <4>1
      <4> QED
        BY <1>3, <3>1, <4>1, <4>2
    <3>2. CASE i = n + 1
      BY <2>2, <2>4, <2>10, <3>2
    <3> QED
      BY <2>5, <3>1, <3>2
  <2>11. ASSUME NEW i \in 1..n PROVE k - Last(groups[i]) > MaximumGap + 1
    <3>1. n \in 1..n /\ groups # <<>> /\ Last(groups) = groups[n]
      BY <1>1, <1>2 DEF Last
    <3>2. k - Last(groups[n]) > MaximumGap + 1 /\ Last(groups[n]) \in Nat
      <4>1. Last(groups[n]) \in Nat
        BY <1>2, <3>1
      <4>2. Last(Last(groups)) = Last(groups[n])
        BY <3>1
      <4>3. ~(k - Last(groups[n]) <= MaximumGap + 1)
        BY <1>7, <3>1, <4>2
      <4> QED
        BY <4>1, <4>3
    <3>3. CASE i = n
      BY <3>2, <3>3
    <3>4. CASE i # n
      <4>1. i < n
        BY <1>2, <3>4
      <4>2. groups[n][1] - Last(groups[i]) > MaximumGap + 1
        BY <1>3, <3>1, <4>1
      <4>3. groups[n][1] <= Last(groups[n]) /\ groups[n][1] \in Nat /\ Last(groups[i]) \in Nat
        BY <1>2, <1>3, <3>1
      <4> QED
        BY <3>2, <4>2, <4>3
    <3> QED
      BY <3>3, <3>4
  <2>12. ASSUME NEW i \in 1..(n + 1), NEW j \in 1..(n + 1), i < j
        PROVE  new[j][1] - Last(new[i]) > MaximumGap + 1
    <3>1. i \in 1..n /\ new[i] = groups[i]
      BY <1>2, <2>4, <2>12
    <3>2. CASE j \in 1..n
      BY <1>3, <2>4, <2>12, <3>1, <3>2
    <3>3. CASE j = n + 1
      BY <2>2, <2>4, <2>11, <3>1, <3>3
    <3> QED
      BY <2>5, <3>2, <3>3
  <2> QED
    BY <1>4, <2>4, <2>8, <2>9, <2>10, <2>12 DEF Grouped
<1> QED
  BY <1>6, <1>7

(* The groups of the beams below each number, and that they are there.     *)
GroupRule(g, beams, k) ==
    IF k = 0 THEN <<>> ELSE IF k - 1 \in beams THEN Joined(g[k - 1], k - 1) ELSE g[k - 1]

LEMMA RunsExist ==
    ASSUME NEW beams, NEW n \in Nat
    PROVE  \E g : g = [k \in 0..n |-> GroupRule(g, beams, k)]
<1> DEFINE Good(m) == \E g : g = [k \in 0..m |-> GroupRule(g, beams, k)]
           Bad == {m \in Nat : ~Good(m)}
<1>1. SUFFICES ASSUME Bad # {} PROVE FALSE
  BY <1>1
<1>2. PICK m \in Bad : \A y \in Bad : m <= y
  BY <1>1, LeastNumber
<1>3. m # 0
  <2> DEFINE p == [k \in 0..0 |-> <<>>]
  <2>1. \A k \in 0..0 : GroupRule(p, beams, k) = <<>>
    BY DEF GroupRule
  <2>2. p = [k \in 0..0 |-> GroupRule(p, beams, k)]
    BY <2>1
  <2> HIDE DEF p
  <2>3. Good(0)
    BY <2>2
  <2> QED
    BY <1>2, <2>3
<1>4. m - 1 \in Nat /\ Good(m - 1)
  <2>1. m \in Nat /\ m - 1 \in Nat /\ ~(m <= m - 1)
    BY <1>2, <1>3
  <2>2. m - 1 \notin Bad
    <3> HIDE DEF Bad
    <3> QED
      BY <1>2, <2>1
  <2> QED
    BY <2>1, <2>2
<1>5. PICK p : p = [k \in 0..(m - 1) |-> GroupRule(p, beams, k)]
  BY <1>4
<1> DEFINE q == [k \in 0..m |-> IF k = m THEN GroupRule(p, beams, m) ELSE p[k]]
<1>6. \A k \in 0..m : k # 0 => k - 1 \in 0..m /\ k - 1 # m
  BY <1>4
<1>7. \A k \in 0..m : k # 0 => q[k - 1] = p[k - 1]
  <2>1. \A k \in 0..m : q[k] = IF k = m THEN GroupRule(p, beams, m) ELSE p[k]
    OBVIOUS
  <2> HIDE DEF q
  <2> QED
    BY <1>6, <2>1
<1>8. \A k \in 0..m : GroupRule(q, beams, k) = GroupRule(p, beams, k)
  <2> HIDE DEF q
  <2> QED
    BY <1>7 DEF GroupRule
<1>9. \A k \in 0..m : k # m => p[k] = GroupRule(p, beams, k)
  <2>1. \A k \in 0..m : k # m => k \in 0..(m - 1)
    BY <1>4
  <2>2. \A k \in 0..(m - 1) : p[k] = GroupRule(p, beams, k)
    BY <1>5
  <2> QED
    BY <2>1, <2>2
<1>10. \A k \in 0..m : (IF k = m THEN GroupRule(p, beams, m) ELSE p[k]) = GroupRule(q, beams, k)
  <2> HIDE DEF q
  <2> QED
    BY <1>8, <1>9
<1>11. PICK r : r = q
  OBVIOUS
<1>12. \A k \in 0..m : (IF k = m THEN GroupRule(p, beams, m) ELSE p[k]) = GroupRule(r, beams, k)
  <2> HIDE DEF q
  <2> QED
    BY <1>10, <1>11
<1>13. r = [k \in 0..m |-> GroupRule(r, beams, k)]
  BY <1>11, <1>12
<1>14. Good(m)
  BY <1>13
<1> QED
  BY <1>2, <1>14

LEMMA RunsAreGrouped ==
    ASSUME NEW beams \in SUBSET Nat, NEW n \in Nat, NEW m \in 0..n,
           NEW g, g = [k \in 0..n |-> GroupRule(g, beams, k)]
    PROVE  Grouped(g[m], beams, m)
<1> DEFINE Bad == {k \in 0..n : ~Grouped(g[k], beams, k)}
<1>1. SUFFICES ASSUME Bad # {} PROVE FALSE
  OBVIOUS
<1>2. PICK k \in Bad : \A y \in Bad : k <= y
  <2>1. Bad \in SUBSET Nat
    OBVIOUS
  <2> QED
    BY <1>1, <2>1, LeastNumber
<1>3. k \in 0..n /\ ~Grouped(g[k], beams, k)
  BY <1>2
<1>4. g[k] = GroupRule(g, beams, k)
  BY <1>3
<1>5. k # 0
  <2>1. Grouped(<<>>, beams, 0)
    <3>1. \A x \in beams : ~(x < 0)
      OBVIOUS
    <3>2. <<>> \in Seq(Seq(Nat)) /\ Len(<<>>) = 0 /\ 1..0 = {}
      OBVIOUS
    <3> QED
      BY <3>1, <3>2 DEF Grouped
  <2>2. k = 0 => g[k] = <<>>
    BY <1>4 DEF GroupRule
  <2> QED
    BY <1>3, <2>1, <2>2
<1>6. k - 1 \in 0..n /\ k - 1 \in Nat /\ ~(k <= k - 1) /\ (k - 1) + 1 = k
  BY <1>3, <1>5
<1>7. Grouped(g[k - 1], beams, k - 1)
  <2>1. k - 1 \notin Bad
    <3> HIDE DEF Bad
    <3> QED
      BY <1>2, <1>6
  <2> QED
    BY <1>6, <2>1
<1>8. Grouped(g[k], beams, k)
  <2>1. PICK b, old : b = k - 1 /\ old = g[k - 1]
    OBVIOUS
  <2>2. b \in Nat /\ b + 1 = k /\ Grouped(old, beams, b)
    BY <1>6, <1>7, <2>1
  <2>3. CASE b \in beams
    <3>1. g[k] = Joined(old, b)
      BY <1>4, <1>5, <2>1, <2>3 DEF GroupRule
    <3>2. Grouped(Joined(old, b), beams, b + 1)
      BY <2>2, <2>3, JoinedGroups
    <3> QED
      BY <2>2, <3>1, <3>2
  <2>4. CASE b \notin beams
    <3>1. g[k] = old
      BY <1>4, <1>5, <2>1, <2>4 DEF GroupRule
    <3>2. \A x \in beams : x < k => x < b
      BY <2>2, <2>4
    <3>3. \A i \in 1..Len(old) : \A x \in ToSet(old[i]) : x \in beams /\ x < b => x < k
      BY <2>2
    <3> QED
      BY <2>2, <3>1, <3>2, <3>3 DEF Grouped
  <2> QED
    BY <2>3, <2>4
<1> QED
  BY <1>3, <1>8

LEMMA RunsOfBeamsAre ==
    ASSUME NEW beams \in SUBSET Nat
    PROVE  Grouped(RunsOfBeams(beams), beams, Beams)
<1>1. Beams \in Nat /\ Beams \in 0..Beams
  BY PerceptionAssumption
<1> DEFINE runs == CHOOSE runs : runs = [k \in 0..Beams |-> GroupRule(runs, beams, k)]
<1>2. runs = [k \in 0..Beams |-> GroupRule(runs, beams, k)]
  BY <1>1, RunsExist
<1>3. RunsOfBeams(beams) = runs[Beams]
  BY DEF RunsOfBeams, GroupRule
<1> HIDE DEF runs
<1> QED
  BY <1>1, <1>2, <1>3, RunsAreGrouped

(* Beams of different groups are far from each other, on both sides.       *)
LEMMA FarIs ==
    ASSUME NEW b \in Nat, NEW c \in Nat,
           c - b > MaximumGap + 1, b + Beams - c > MaximumGap + 1
    PROVE  Apart(b, c) > MaximumGap + 1 /\ Apart(c, b) > MaximumGap + 1
<1>1. Beams \in Nat /\ MaximumGap \in Nat
  BY PerceptionAssumption DEF ExtractorConfigValid
<1> QED
  BY <1>1 DEF Apart, Greater, Lesser

(* Clusters hold all the beams and no others, and different clusters are   *)
(* too far from each other to be one.                                      *)
FarFrom(c, e) == \A x \in c, y \in e : Apart(x, y) > MaximumGap + 1

LEMMA ClustersAre ==
    ASSUME NEW beams \in SUBSET BeamIds
    PROVE  /\ \A x \in beams : \E c \in Clusters(beams) : x \in c
           /\ \A c \in Clusters(beams) : c \in SUBSET beams
           /\ \A c, e \in Clusters(beams) : c # e => FarFrom(c, e)
<1>1. Beams \in Nat /\ MaximumGap \in Nat /\ beams \in SUBSET Nat /\ \A x \in beams : x < Beams
  BY PerceptionAssumption DEF ExtractorConfigValid, BeamIds
<1>2. PICK groups : groups = RunsOfBeams(beams)
  OBVIOUS
<1>3. Grouped(groups, beams, Beams)
  BY <1>1, <1>2, RunsOfBeamsAre
<1>4. PICK n : n = Len(groups)
  OBVIOUS
<1>5. /\ n \in Nat
      /\ \A i \in 1..n :
                 /\ ToSet(groups[i]) \in SUBSET Nat
                 /\ groups[i][1] \in Nat /\ groups[i][1] \in ToSet(groups[i]) /\ Head(groups[i]) = groups[i][1]
                 /\ Last(groups[i]) \in Nat /\ Last(groups[i]) \in ToSet(groups[i])
  BY <1>3, <1>4, GroupsAre
<1>6. /\ \A x \in beams : \E i \in 1..n : x \in ToSet(groups[i])
      /\ \A i \in 1..n : \A x \in ToSet(groups[i]) :
            x \in beams /\ x < Beams /\ groups[i][1] <= x /\ x <= Last(groups[i])
      /\ \A i, j \in 1..n : i < j => groups[j][1] - Last(groups[i]) > MaximumGap + 1
  BY <1>1, <1>3, <1>4 DEF Grouped
<1>7. ASSUME NEW i \in 1..n, NEW j \in 1..n, i < j,
             NEW x \in ToSet(groups[i]), NEW y \in ToSet(groups[j])
      PROVE  x \in Nat /\ y \in Nat /\ y - x > MaximumGap + 1
  <2>1. x \in Nat /\ y \in Nat /\ Last(groups[i]) \in Nat /\ groups[j][1] \in Nat
    BY <1>5
  <2>2. x <= Last(groups[i]) /\ groups[j][1] <= y
    BY <1>6
  <2>3. groups[j][1] - Last(groups[i]) > MaximumGap + 1
    BY <1>6, <1>7
  <2> QED
    BY <1>1, <2>1, <2>2, <2>3
<1>8. ASSUME NEW i \in 1..n, NEW x \in ToSet(groups[i])
      PROVE  x \in Nat /\ groups[1][1] <= x /\ x <= Last(groups[n])
  <2>1. 1 \in 1..n /\ n \in 1..n
    BY <1>5
  <2>2. x \in Nat /\ groups[1][1] \in Nat /\ Last(groups[n]) \in Nat
    BY <1>5, <2>1
  <2>3. groups[1][1] <= x
    <3>1. CASE i = 1
      BY <1>6, <3>1
    <3>2. CASE i # 1
      <4>1. 1 < i
        BY <1>5, <3>2
      <4>2. groups[1][1] \in ToSet(groups[1])
        BY <1>5, <2>1
      <4>3. x - groups[1][1] > MaximumGap + 1
        BY <1>7, <2>1, <4>1, <4>2
      <4> QED
        BY <1>1, <2>2, <4>3
    <3> QED
      BY <3>1, <3>2
  <2>4. x <= Last(groups[n])
    <3>1. CASE i = n
      BY <1>6, <3>1
    <3>2. CASE i # n
      <4>1. i < n
        BY <1>5, <3>2
      <4>2. Last(groups[n]) \in ToSet(groups[n])
        BY <1>5, <2>1
      <4>3. Last(groups[n]) - x > MaximumGap + 1
        BY <1>7, <2>1, <4>1, <4>2
      <4> QED
        BY <1>1, <2>2, <4>3
    <3> QED
      BY <3>1, <3>2
  <2> QED
    BY <2>2, <2>3, <2>4
<1>9. PICK span : span = Head(Head(groups)) + Beams - Last(Last(groups))
  OBVIOUS
<1>10. n > 1 => Head(Head(groups)) = groups[1][1] /\ Last(Last(groups)) = Last(groups[n])
  BY <1>3, <1>4, <1>5 DEF Grouped, Last
<1>11. Clusters(beams) =
           IF n > 1 /\ span <= MaximumGap + 1 THEN {ToSet(groups[i]) : i \in 2..(n - 1)} \cup {ToSet(groups[n]) \cup ToSet(groups[1])}
           ELSE {ToSet(groups[i]) : i \in 1..n}
  BY <1>2, <1>4, <1>9 DEF Clusters
<1>12. CASE ~(n > 1 /\ span <= MaximumGap + 1)
  <2>1. Clusters(beams) = {ToSet(groups[i]) : i \in 1..n}
    BY <1>11, <1>12
  <2>2. ASSUME NEW i \in 1..n, NEW j \in 1..n, i < j,
               NEW x \in ToSet(groups[i]), NEW y \in ToSet(groups[j])
        PROVE  Apart(x, y) > MaximumGap + 1 /\ Apart(y, x) > MaximumGap + 1
    <3>1. x \in Nat /\ y \in Nat /\ y - x > MaximumGap + 1
      BY <1>7, <2>2
    <3>2. groups[1][1] <= x /\ y <= Last(groups[n])
      BY <1>8
    <3>3. n > 1 /\ 1 \in 1..n /\ n \in 1..n
      BY <1>5, <2>2
    <3>4. groups[1][1] \in Nat /\ Last(groups[n]) \in Nat
      BY <1>5, <3>3
    <3>5. groups[1][1] + Beams - Last(groups[n]) > MaximumGap + 1
      BY <1>1, <1>9, <1>10, <1>12, <3>3, <3>4
    <3>6. x + Beams - y > MaximumGap + 1
      BY <1>1, <3>1, <3>2, <3>4, <3>5
    <3> QED
      BY <3>1, <3>6, FarIs
  <2>3. ASSUME NEW c \in Clusters(beams), NEW e \in Clusters(beams), c # e PROVE FarFrom(c, e)
    <3>1. PICK i \in 1..n, j \in 1..n : c = ToSet(groups[i]) /\ e = ToSet(groups[j])
      BY <2>1
    <3>2. i < j \/ j < i
      BY <2>3, <3>1
    <3> QED
      BY <2>2, <3>1, <3>2 DEF FarFrom
  <2>4. \A x \in beams : \E c \in Clusters(beams) : x \in c
    BY <1>6, <2>1
  <2>5. \A c \in Clusters(beams) : c \in SUBSET beams
    BY <1>6, <2>1
  <2> QED
    BY <2>3, <2>4, <2>5
<1>13. CASE n > 1 /\ span <= MaximumGap + 1
  <2>1. n > 1 /\ 1 \in 1..n /\ n \in 1..n
    BY <1>5, <1>9, <1>13
  <2>2. PICK ends : ends = ToSet(groups[n]) \cup ToSet(groups[1])
    OBVIOUS
  <2>3. Clusters(beams) = {ToSet(groups[i]) : i \in 2..(n - 1)} \cup {ends}
    BY <1>11, <1>13, <2>2
  <2>4. \A i \in 1..n : i \in 2..(n - 1) \/ i = 1 \/ i = n
    BY <1>5
  <2>5. \A i \in 2..(n - 1) : i \in 1..n /\ 1 < i /\ i < n
    BY <1>5
  <2>6. ASSUME NEW i \in 2..(n - 1), NEW x \in ToSet(groups[i])
        PROVE  /\ x \in Nat /\ x > MaximumGap + 1 /\ Beams - x > MaximumGap + 1
    <3>1. groups[1][1] \in ToSet(groups[1]) /\ Last(groups[n]) \in ToSet(groups[n])
      BY <1>5, <2>1
    <3>2. groups[1][1] \in Nat /\ x \in Nat /\ x - groups[1][1] > MaximumGap + 1
      BY <1>7, <2>1, <2>5, <3>1
    <3>3. Last(groups[n]) \in Nat /\ Last(groups[n]) - x > MaximumGap + 1 /\ Last(groups[n]) < Beams
      BY <1>6, <1>7, <2>1, <2>5, <3>1
    <3> QED
      BY <1>1, <3>2, <3>3
  <2>7. ASSUME NEW i \in 1..n, NEW j \in 1..n, i < j, i \in 2..(n - 1) \/ j \in 2..(n - 1),
               NEW x \in ToSet(groups[i]), NEW y \in ToSet(groups[j])
        PROVE  Apart(x, y) > MaximumGap + 1 /\ Apart(y, x) > MaximumGap + 1
    <3>1. x \in Nat /\ y \in Nat /\ y - x > MaximumGap + 1
      BY <1>7, <2>7
    <3>2. y < Beams
      BY <1>6
    <3>3. x + Beams - y > MaximumGap + 1
      <4>1. CASE i \in 2..(n - 1)
        <5>1. x > MaximumGap + 1
          BY <2>6, <4>1
        <5> QED
          BY <1>1, <3>1, <3>2, <5>1
      <4>2. CASE j \in 2..(n - 1)
        <5>1. Beams - y > MaximumGap + 1
          BY <2>6, <4>2
        <5> QED
          BY <1>1, <3>1, <3>2, <5>1
      <4> QED
        BY <2>7, <4>1, <4>2
    <3> QED
      BY <3>1, <3>3, FarIs
  <2>8. ASSUME NEW i \in 2..(n - 1), NEW x \in ToSet(groups[i]), NEW y \in ends
        PROVE  Apart(x, y) > MaximumGap + 1 /\ Apart(y, x) > MaximumGap + 1
    <3>1. y \in ToSet(groups[n]) \/ y \in ToSet(groups[1])
      BY <2>2
    <3> QED
      BY <2>1, <2>5, <2>7, <3>1
  <2>9. ASSUME NEW i \in 2..(n - 1), NEW j \in 2..(n - 1), i # j,
               NEW x \in ToSet(groups[i]), NEW y \in ToSet(groups[j])
        PROVE  Apart(x, y) > MaximumGap + 1
    <3>1. i < j \/ j < i
      BY <2>9
    <3> QED
      BY <2>5, <2>7, <3>1
  <2>10. ASSUME NEW c \in Clusters(beams), NEW e \in Clusters(beams), c # e PROVE FarFrom(c, e)
    <3>1. CASE c = ends
      <4>1. PICK j \in 2..(n - 1) : e = ToSet(groups[j])
        BY <2>3, <2>10, <3>1
      <4> QED
        BY <2>8, <3>1, <4>1 DEF FarFrom
    <3>2. CASE e = ends
      <4>1. PICK i \in 2..(n - 1) : c = ToSet(groups[i])
        BY <2>3, <2>10, <3>2
      <4> QED
        BY <2>8, <3>2, <4>1 DEF FarFrom
    <3>3. CASE c # ends /\ e # ends
      <4>1. PICK i \in 2..(n - 1), j \in 2..(n - 1) : c = ToSet(groups[i]) /\ e = ToSet(groups[j])
        BY <2>3, <3>3
      <4>2. i # j
        BY <2>10, <4>1
      <4> QED
        BY <2>9, <4>1, <4>2 DEF FarFrom
    <3> QED
      BY <3>1, <3>2, <3>3
  <2>11. ASSUME NEW x \in beams PROVE \E c \in Clusters(beams) : x \in c
    <3>1. PICK i \in 1..n : x \in ToSet(groups[i])
      BY <1>6
    <3> QED
      BY <2>2, <2>3, <2>4, <3>1
  <2>12. ASSUME NEW c \in Clusters(beams) PROVE c \in SUBSET beams
    <3>1. \A i \in 1..n : ToSet(groups[i]) \in SUBSET beams
      BY <1>6
    <3> QED
      BY <2>1, <2>2, <2>3, <2>5, <3>1
  <2> QED
    BY <2>10, <2>11, <2>12
<1> QED
  BY <1>12, <1>13

(* Measurements are numbers up to the range of the sensor, and one of them *)
(* is the largest.                                                         *)
LEMMA MaxRangeIs ==
    ASSUME NEW scene \in Scenes
    PROVE  MaxRange(Observe(scene)) \in Nat
<1>1. /\ Beams \in Nat /\ Beams >= 4 /\ SensorRange \in Nat /\ Noise \in Nat /\ scene \in SceneType
  BY PerceptionAssumption DEF ExtractorConfigValid
<1>2. ASSUME NEW b \in BeamIds PROVE Measured(scene, b) \in 0..SensorRange
  <2>1. scene.walls[b] \in Nat /\ scene.bodies[b] \in Nat /\ scene.noise[b] \in (-Noise)..Noise
    BY <1>1 DEF SceneType
  <2>2. PICK w, o, e : w = scene.walls[b] /\ o = scene.bodies[b] /\ e = scene.noise[b]
    OBVIOUS
  <2>3. w \in Nat /\ o \in Nat /\ e \in Int
    BY <1>1, <2>1, <2>2
  <2>4. PICK near : near = Lesser(w, o)
    OBVIOUS
  <2>5. near \in Nat
    BY <2>3, <2>4 DEF Lesser
  <2>6. FirstHit(scene, b) = {} \/ FirstHit(scene, b) = {near}
    BY <2>2, <2>4 DEF FirstHit, Cast
  <2>7. Max({near}) = near
    BY <2>5 DEF Max
  <2>8. CASE FirstHit(scene, b) = {}
    BY <1>1, <2>8 DEF Measured
  <2>9. CASE FirstHit(scene, b) = {near}
    <3>1. Measured(scene, b) = Greater(0, Lesser(SensorRange, near + e))
      BY <2>2, <2>7, <2>9 DEF Measured
    <3> QED
      BY <1>1, <2>3, <2>5, <3>1 DEF Greater, Lesser
  <2> QED
    BY <2>6, <2>8, <2>9
<1> DEFINE T == {Observe(scene).ranges[b] : b \in BeamIds}
<1>3. T = {Measured(scene, b) : b \in BeamIds}
  BY DEF Observe
<1>4. T \in SUBSET (0..SensorRange)
  BY <1>2, <1>3
<1>5. T # {}
  <2>1. 0 \in BeamIds
    BY <1>1 DEF BeamIds
  <2> QED
    BY <1>3, <2>1
<1> HIDE DEF T
<1>6. PICK x \in T : \A y \in T : y <= x
  BY <1>1, <1>4, <1>5, GreatestNumber
<1>7. \A y \in T : y \in Nat
  BY <1>4
<1>8. Max(T) \in T
  <2>1. x \in T /\ \A y \in T : x >= y
    BY <1>6, <1>7
  <2> QED
    BY <2>1 DEF Max
<1> QED
  BY <1>7, <1>8 DEF MaxRange, T

(* Beams which meet a body that stands out are kept.                       *)
LEMMA StandsOutIsSeen ==
    ASSUME NEW scene \in Scenes, scene.blind = {}
    PROVE  StandsOut(scene) \in SUBSET Residual(Observe(scene))
<1>1. /\ Beams \in Nat /\ SensorRange \in Nat /\ Noise \in Nat /\ Threshold \in Nat /\ Threshold > 0
      /\ scene \in SceneType
  BY PerceptionAssumption DEF ExtractorConfigValid
<1> SUFFICES ASSUME NEW b \in StandsOut(scene) PROVE b \in Residual(Observe(scene))
  OBVIOUS
<1>2. b \in BeamIds
  BY DEF StandsOut
<1>3. scene.walls[b] \in Nat /\ scene.bodies[b] \in Nat /\ scene.noise[b] \in (-Noise)..Noise
  BY <1>1, <1>2 DEF SceneType
<1>4. PICK w, o, e : w = scene.walls[b] /\ o = scene.bodies[b] /\ e = scene.noise[b]
  OBVIOUS
<1>5. w \in Nat /\ o \in Nat /\ e \in Int /\ e <= Noise /\ o < SensorRange /\ w - o >= Threshold + Noise
  BY <1>1, <1>3, <1>4 DEF StandsOut
<1>6. Lesser(w, o) = o
  BY <1>1, <1>5 DEF Lesser
<1>7. FirstHit(scene, b) = {o}
  BY <1>4, <1>5, <1>6 DEF FirstHit, Cast
<1>8. Max({o}) = o
  BY <1>5 DEF Max
<1>9. Measured(scene, b) = Greater(0, Lesser(SensorRange, o + e))
  BY <1>4, <1>7, <1>8 DEF Measured
<1>10. PICK m : m = Measured(scene, b)
  OBVIOUS
<1>11. m \in Nat /\ w - m >= Threshold
  BY <1>1, <1>5, <1>9, <1>10 DEF Greater, Lesser
<1>12. b \in Observe(scene).valid /\ Observe(scene).ranges[b] = m /\ Observe(scene).walls[b] = w
  BY <1>2, <1>4, <1>7, <1>10 DEF Observe
<1>13. \A wall \in Expected(Observe(scene), b) : wall = w
  BY <1>12 DEF Expected, Cast
<1> QED
  BY <1>11, <1>12, <1>13 DEF Residual

(* A body is in one cluster.                                               *)
LEMMA BodyIsWhole ==
    ASSUME NEW beams \in SUBSET BeamIds, NEW part \in SUBSET beams, NEW b \in part
    PROVE  \E c \in Clusters(beams) : BodyAt(part, b) \in SUBSET c
<1>1. /\ \A x \in beams : \E c \in Clusters(beams) : x \in c
      /\ \A c, e \in Clusters(beams) : c # e => FarFrom(c, e)
  BY ClustersAre
<1>2. PICK c \in Clusters(beams) : b \in c
  BY <1>1
<1>3. MaximumGap \in Nat /\ Beams \in Nat
  BY PerceptionAssumption DEF ExtractorConfigValid
<1>4. ASSUME NEW x \in c \cap part, NEW y \in part, Apart(x, y) <= MaximumGap + 1
      PROVE  y \in c \cap part
  <2>1. PICK e \in Clusters(beams) : y \in e
    BY <1>1
  <2>2. CASE e = c
    BY <2>1, <2>2
  <2>3. CASE e # c
    <3>1. Apart(x, y) > MaximumGap + 1
      BY <1>1, <2>1, <2>3 DEF FarFrom
    <3>2. Apart(x, y) \in Int
      <4>1. x \in BeamIds /\ y \in BeamIds
        OBVIOUS
      <4>2. x \in Int /\ y \in Int
        BY <1>3, <4>1 DEF BeamIds
      <4> QED
        BY <1>3, <4>2 DEF Apart, Greater, Lesser
    <3> QED
      BY <1>3, <1>4, <3>1, <3>2
  <2> QED
    BY <2>2, <2>3
<1>5. PICK S : S = c \cap part
  OBVIOUS
<1>6. /\ S \in SUBSET part /\ b \in S
      /\ \A x \in S, y \in part : Apart(x, y) <= MaximumGap + 1 => y \in S
  BY <1>2, <1>4, <1>5
<1>7. BodyAt(part, b) \in SUBSET S
  BY <1>6 DEF BodyAt
<1> QED
  BY <1>5, <1>7

(* The rule of the bodies.                                                 *)
LEMMA BodiesAre ==
    ASSUME NEW scene \in Scenes, scene.blind = {}, MaxRange(Observe(scene)) > 0
    PROVE  /\ \A b \in StandsOut(scene) :
                 Cardinality(BodyAt(StandsOut(scene), b)) >= MinimumBeams =>
                     \E d \in Detections(Observe(scene)) : BodyAt(StandsOut(scene), b) \in SUBSET d
           /\ \A d, e \in Detections(Observe(scene)) : d # e => FarFrom(d, e)
<1>1. /\ Beams \in Nat /\ Beams >= 4 /\ MinimumBeams \in Nat
  BY PerceptionAssumption DEF ExtractorConfigValid
<1>2. PICK kept : kept = Residual(Observe(scene))
  OBVIOUS
<1>3. kept \in SUBSET BeamIds
  BY <1>2 DEF Residual, Observe
<1>4. /\ \A c \in Clusters(kept) : c \in SUBSET kept
      /\ \A c, e \in Clusters(kept) : c # e => FarFrom(c, e)
  BY <1>3, ClustersAre
<1>5. Detections(Observe(scene)) = {c \in Clusters(kept) : Cardinality(c) >= MinimumBeams}
  <2>1. Observe(scene).covered = BeamIds
    BY DEF Observe
  <2>2. ~(Beams < 4) /\ ~(MaxRange(Observe(scene)) <= 0)
    BY <1>1, MaxRangeIs
  <2> QED
    BY <1>2, <2>1, <2>2 DEF Detections
<1>6. ASSUME NEW b \in StandsOut(scene), Cardinality(BodyAt(StandsOut(scene), b)) >= MinimumBeams
      PROVE  \E d \in Detections(Observe(scene)) : BodyAt(StandsOut(scene), b) \in SUBSET d
  <2>1. PICK body : body = BodyAt(StandsOut(scene), b)
    OBVIOUS
  <2>2. PICK c \in Clusters(kept) : body \in SUBSET c
    BY <1>2, <1>3, <2>1, StandsOutIsSeen, BodyIsWhole
  <2>3. IsFiniteSet(c)
    <3>1. IsFiniteSet(BeamIds)
      BY <1>1, FS_Interval DEF BeamIds
    <3>2. c \subseteq BeamIds
      BY <1>3, <1>4
    <3> QED
      BY <3>1, <3>2, FS_Subset
  <2>4. Cardinality(body) <= Cardinality(c) /\ Cardinality(c) \in Nat /\ Cardinality(body) \in Nat
    <3>1. body \subseteq c
      BY <2>2
    <3>2. IsFiniteSet(body) /\ Cardinality(body) <= Cardinality(c)
      BY <2>3, <3>1, FS_Subset
    <3> QED
      BY <2>3, <3>2, FS_CardinalityType
  <2>5. Cardinality(c) >= MinimumBeams
    BY <1>1, <1>6, <2>1, <2>4
  <2> QED
    BY <1>5, <2>1, <2>2, <2>5
<1> QED
  BY <1>4, <1>5, <1>6

SightRule(s, found) ==
    s.kind = "SIGHT" =>
        (found.clear <=>
            \/ s.of.from = s.of.to
            \/ \A wall \in s.of.walls : \A k \in 1..(PartsOf(s.of.from, s.of.to, wall) - 1) :
                  ~PointOnWall(s.of.from, s.of.to, k, PartsOf(s.of.from, s.of.to, wall), wall))

(* Whatever scan or sight is looked at: a body that stands out and that    *)
(* enough beams meet is in one detection as a whole, no two detections     *)
(* could be of one body, and a sight is clear exactly when no wall has a   *)
(* point strictly between its ends: extract_synthetic_opponent with        *)
(* _cluster_indices, and line_of_sight_clear.                              *)
THEOREM PerceptionExact == PerceptionSpec => []PerceptionIsExact
<1>1. PerceptionInit => PerceptionIsExact
  BY DEF PerceptionInit, PerceptionIsExact, BodiesStandApart, LineOfSightIsExact
<1>2. PerceptionIsExact /\ [PerceptionNext]_perceptionVars => PerceptionIsExact'
  <2> SUFFICES ASSUME PerceptionIsExact, [PerceptionNext]_perceptionVars PROVE PerceptionIsExact'
    OBVIOUS
  <2>1. ASSUME NEW scene \in Scenes, LookAround(scene) PROVE PerceptionIsExact'
    <3>1. seen'.kind = "SCENE" /\ seen'.of = scene /\ finding'.detections = Detections(Observe(scene))
      BY <2>1 DEF LookAround
    <3>2. LineOfSightIsExact'
      BY <3>1 DEF LineOfSightIsExact
    <3>3. BodiesStandApart'
      BY <3>1, BodiesAre DEF BodiesStandApart, FarFrom
    <3> QED
      BY <3>2, <3>3 DEF PerceptionIsExact
  <2>2. ASSUME NEW s \in Sights, LookAlong(s) PROVE PerceptionIsExact'
    <3>1. seen'.kind = "SIGHT" /\ seen'.of = s /\ finding'.clear = LineOfSight(s.from, s.to, s.walls)
      BY <2>2 DEF LookAlong
    <3>2. BodiesStandApart'
      BY <3>1 DEF BodiesStandApart
    <3>3. LineOfSightIsExact'
      BY <3>1, SightIs DEF LineOfSightIsExact, PartsOf, PointOnWall
    <3> QED
      BY <3>2, <3>3 DEF PerceptionIsExact
  <2>3. CASE UNCHANGED perceptionVars
    <3>1. seen' = seen /\ finding' = finding
      BY <2>3 DEF perceptionVars
    <3>2. BodiesStandApart'
      BY <3>1, Zenon DEF PerceptionIsExact, BodiesStandApart
    <3>3. LineOfSightIsExact'
      <4>1. LineOfSightIsExact
        BY DEF PerceptionIsExact
      <4>2. SightRule(seen, finding)
        BY <4>1 DEF LineOfSightIsExact, SightRule, PartsOf, PointOnWall
      <4>3. SightRule(seen', finding')
        BY <3>1, <4>2
      <4> QED
        BY <4>3 DEF LineOfSightIsExact, SightRule, PartsOf, PointOnWall
    <3> QED
      BY <3>2, <3>3 DEF PerceptionIsExact
  <2> QED
    BY <2>1, <2>2, <2>3 DEF PerceptionNext
<1> QED
  BY <1>1, <1>2, PTL DEF PerceptionSpec
=============================================================================
