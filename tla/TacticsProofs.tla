---------------------------- MODULE TacticsProofs ----------------------------
(***************************************************************************)
(* Theorems about what tactics rest on: the selection of options, the      *)
(* belief about a rival out of sight and the reuse of routes.              *)
(*                                                                         *)
(* The selection cannot swing between options, for any number of options,  *)
(* any evidence, any width of the hysteresis and any dwell.                *)
(* NeverSwingsBack is not inductive: that the option held is none of the   *)
(* abandoned ones says nothing of the next choice.  SteadyInv says why it  *)
(* stays so: every change is an ascent, so what was abandoned is worse.    *)
(*                                                                         *)
(* The belief is never wrong about where a rival is that keeps off the     *)
(* loops, on any graph and for any bound on its speed.  BeliefInv adds     *)
(* what SupportContainsRival rests on: the rival never moved faster than   *)
(* the bound, the belief is of a time that has come, and the cell that has *)
(* the rival is not on a loop.  The rest is about the graph.  Traced says  *)
(* where a rival that was in such a cell may be after a walk: near the     *)
(* cell on its edge, or past a node the search finds in time, or out at a  *)
(* frontier it finds.  One step of a walk keeps that (TracedMoves), also   *)
(* along a loop, so every walk does, and what is Traced lies in the        *)
(* intervals the code computes (ReachedIsCovered).                         *)
(*                                                                         *)
(* A path is what it would be if nothing had been kept from before, for    *)
(* any graphs, any poses and any bound on the trees.  ReuseInv adds that   *)
(* the trees kept are of the graph that is remembered, and the starts of   *)
(* the frame they are stamped with; then what is found does not depend on  *)
(* which trees there are (TriesAgree).                                     *)
(*                                                                         *)
(* Signatures tell motions apart and nothing else, for any graphs in which *)
(* no corridor runs along another.  SignatureInv adds to ReuseInv that the *)
(* answer is to a question that can be asked; the rest is about lines.     *)
(* The motion on a line determines its canonical form (CanonicalTells),    *)
(* and the step by which it goes from each point to the next               *)
(* (StepIsUnique).  Along the pieces of a route these are the steps of the *)
(* pieces (LegsTell), wherever the motion begins on them; so the traversal *)
(* that is found is the one read off the motion (PathTells).               *)
(***************************************************************************)
EXTENDS Selection, TopologicalBelief, RouteReuse, FiniteSetTheorems, SequenceTheorems,
        WellFoundedInduction, TLAPS

-----------------------------------------------------------------------------
(* The selection.                                                          *)

Worse(k, l) ==
    \/ Standing[k] > Standing[l]
    \/ Standing[k] = Standing[l] /\ Worth[k] < Worth[l]

SteadyInv ==
    /\ Holding => current.key \in Keys
    /\ ~Holding => abandoned = {}
    /\ abandoned \subseteq Keys
    /\ \A k \in abandoned : Worse(k, current.key)

LEMMA WorseIsTransitive ==
    ASSUME NEW j \in Keys, NEW k \in Keys, NEW l \in Keys,
           Worse(j, k), Worse(k, l)
    PROVE  Worse(j, l)
<1>1. /\ Standing[j] \in Int /\ Standing[k] \in Int /\ Standing[l] \in Int
      /\ Worth[j] \in Int /\ Worth[k] \in Int /\ Worth[l] \in Int
  BY SelectionAssumption DEF ProposalValid
<1> QED
  BY <1>1 DEF Worse

(* What is preferred to the option under way is of a better key.           *)
LEMMA PreemptionIsAscent ==
    ASSUME NEW E \in Evidence, NEW best \in E, NEW mine \in E,
           NEW started, NEW now, Preempts(best, mine, started, now)
    PROVE  Worse(mine.key, best.key)
<1>1. \A p \in E :
        /\ p.utility \in Int /\ p.urgency \in 0..255 /\ Priority(p) \in 0..5
        /\ Worth[p.key] \in Int /\ Standing[p.key] \in Int
        /\ Worth[p.key] <= p.utility /\ p.utility <= Worth[p.key] + HysteresisDelta
        /\ Standing[p.key] = 256 * Priority(p) + 255 - p.urgency
  BY SelectionAssumption DEF ProposalValid
<1>2. HysteresisDelta \in Nat
  BY SelectorAssumption DEF SelectorValid
<1> DEFINE P == Priority(best)
           Q == Priority(mine)
           U == best.urgency
           V == mine.urgency
<1>3. /\ P \in 0..5 /\ Q \in 0..5 /\ U \in 0..255 /\ V \in 0..255
      /\ Standing[best.key] = 256 * P + 255 - U
      /\ Standing[mine.key] = 256 * Q + 255 - V
  BY <1>1
<1>4. \/ P < Q
      \/ P = Q /\ U > V
      \/ P = Q /\ U = V /\ best.utility > mine.utility + HysteresisDelta
  BY DEF Preempts
<1> HIDE DEF P, Q, U, V
<1>5. CASE P < Q \/ (P = Q /\ U > V)
  <2>1. 256 * Q + 255 - V > 256 * P + 255 - U
    BY <1>3, <1>5
  <2> QED
    BY <1>3, <2>1 DEF Worse
<1>6. CASE P = Q /\ U = V /\ best.utility > mine.utility + HysteresisDelta
  <2>1. Standing[mine.key] = Standing[best.key]
    BY <1>3, <1>6
  <2>2. Worth[mine.key] < Worth[best.key]
    BY <1>1, <1>2, <1>6
  <2> QED
    BY <2>1, <2>2 DEF Worse
<1> QED
  BY <1>4, <1>5, <1>6

LEMMA BestIsEligible ==
    ASSUME NEW E \in Evidence, NEW S \in SUBSET E, S # {}
    PROVE  Best(S) \in S
BY SelectionAssumption DEF Best

LEMMA CycleSteady ==
    ASSUME SteadyInv, NEW E \in Evidence, NEW role \in Roles, NEW c, NEW ready,
           NEW t, NEW starts, Cycle(E, role, c, ready, t, starts)
    PROVE  SteadyInv'
<1> DEFINE S == {q \in E : Applicable(role, q)}
           p == Select(E, role, c, ready, current, t)
<1>1. CASE p = Hold \/ ~starts
  BY <1>1 DEF Cycle, SteadyInv, Holding
<1>2. CASE p # Hold /\ starts
  <2>1. S # {} /\ p = Chosen(S, current, t)
    BY <1>2 DEF Select
  <2>2. p \in S
    BY <2>1, BestIsEligible DEF Chosen, Incumbents
  <2>3. p.key \in Keys
    BY <2>2, SelectionAssumption
  <2>4. current' = Commitment(p, t)
    BY <1>2 DEF Cycle
  <2>5. current'.key = p.key
    BY <2>4 DEF Commitment
  <2>6. Holding'
    BY <2>3, <2>5, SelectionAssumption DEF Holding, Nothing
  <2>7. CASE ~Holding \/ Incumbents(S, current) = {}
    BY <2>3, <2>5, <2>6, <2>7 DEF Cycle, SteadyInv, Holding
  <2>8. CASE Holding /\ Incumbents(S, current) # {} /\ p.key = current.key
    <3>1. abandoned' = abandoned
      BY <2>6, <2>8 DEF Cycle, Holding
    <3> QED
      BY <2>3, <2>5, <2>6, <2>8, <3>1 DEF SteadyInv, Worse
  <2>9. CASE Holding /\ Incumbents(S, current) # {} /\ p.key # current.key
    <3>1. abandoned' = abandoned \cup {current.key}
      BY <2>6, <2>9 DEF Cycle, Holding
    <3>2. PICK m \in Incumbents(S, current) : TRUE
      BY <2>9
    <3>3. m \in E /\ m.key = current.key
      BY <3>2 DEF Incumbents
    <3>4. p = Best(S) /\ Preempts(p, m, current.started, t)
      BY <2>1, <2>9, <3>2 DEF Chosen, Incumbents
    <3>5. Worse(current.key, p.key)
      BY <2>2, <3>3, <3>4, PreemptionIsAscent
    <3>6. \A k \in abandoned : Worse(k, p.key)
      BY <2>3, <2>9, <3>5, WorseIsTransitive DEF SteadyInv
    <3>7. \A k \in abandoned' : Worse(k, current'.key)
      BY <2>5, <3>1, <3>5, <3>6
    <3> QED
      BY <2>3, <2>5, <2>6, <2>9, <3>1, <3>7 DEF SteadyInv, Worse
  <2> QED
    BY <2>7, <2>8, <2>9
<1> QED
  BY <1>1, <1>2

(* While an option stays possible, the robot never goes back to one it     *)
(* left for a better one, however the utilities move within the width of   *)
(* the hysteresis.                                                         *)
THEOREM NoSwing == SelectionSpec => []NeverSwingsBack
<1>1. SelectionInit => SteadyInv
  BY DEF SelectionInit, SteadyInv, Holding
<1>2. SteadyInv /\ [SelectionNext]_selectionVars => SteadyInv'
  <2>1. CASE UNCHANGED selectionVars
    BY <2>1 DEF selectionVars, SteadyInv, Holding, Worse
  <2>2. CASE SelectionNext
    BY <2>2, CycleSteady DEF SelectionNext
  <2> QED
    BY <2>1, <2>2
<1>3. SteadyInv => NeverSwingsBack
  <2> SUFFICES ASSUME SteadyInv, Holding, current.key \in abandoned PROVE FALSE
    BY DEF NeverSwingsBack
  <2>1. Standing[current.key] \in Int /\ Worth[current.key] \in Int
    BY SelectionAssumption DEF SteadyInv
  <2> QED
    BY <2>1 DEF SteadyInv, Worse
<1> QED
  BY <1>1, <1>2, <1>3, PTL DEF SelectionSpec


-----------------------------------------------------------------------------
(* Induction over the naturals, as a least counterexample.                 *)
LEMMA LeastNumber ==
    ASSUME NEW T \in SUBSET Nat, T # {}
    PROVE  \E x \in T : \A y \in T : x <= y
<1>1. PICK x \in T : \A y \in T : ~(<<y, x>> \in OpToRel(<, Nat))
  BY NatLessThanWellFounded, WFMin
<1>2. \A y \in T : ~(y < x)
  BY <1>1 DEF OpToRel
<1>3. \A y \in T : y \in Nat
  OBVIOUS
<1> QED
  BY <1>2, <1>3

(* The same from above, for sets with a bound.                             *)
LEMMA GreatestNumber ==
    ASSUME NEW limit \in Nat, NEW T \in SUBSET (0..limit), T # {}
    PROVE  \E x \in T : \A y \in T : y <= x
<1> DEFINE S == {limit - y : y \in T}
<1>1. \A y \in T : y \in 0..limit
  OBVIOUS
<1>2. S \in SUBSET Nat /\ S # {}
  <2>1. \A y \in T : limit - y \in Nat
    BY <1>1
  <2> QED
    BY <2>1
<1>3. PICK z \in S : \A y \in S : z <= y
  BY <1>2, LeastNumber
<1>4. PICK x \in T : z = limit - x
  BY <1>3
<1>5. \A y \in T : z <= limit - y
  BY <1>3
<1> QED
  BY <1>1, <1>4, <1>5

-----------------------------------------------------------------------------
(* The graph.                                                              *)

LEMMA GraphFacts ==
    /\ \A e \in Edges : /\ FromNode[e] \in Junctions /\ ToNode[e] \in Junctions
                        /\ e \notin Loops => FromNode[e] # ToNode[e]
                        /\ Length[e] \in Nat /\ Length[e] > 0
                        /\ Ends(e) = {FromNode[e], ToNode[e]} /\ Ends(e) \subseteq Junctions
    /\ MaxSpeed \in Nat /\ MaxSpeed > 0 /\ LastTime \in Nat
  BY GraphAssumption DEF Ends, Loops

LEMMA PositionFacts ==
    ASSUME NEW p \in Positions
    PROVE  /\ p[1] \in Edges /\ p[1] \notin Blocked
           /\ p[2] \in 0..Length[p[1]] /\ p[2] \in Nat /\ p = <<p[1], p[2]>>
           /\ p # Outside
<1>1. PICK e \in Edges \ Blocked : p \in {<<e, s>> : s \in 0..Length[e]}
  BY DEF Positions
<1>2. PICK s \in 0..Length[e] : p = <<e, s>>
  BY <1>1
<1> QED
  BY <1>2, GraphFacts DEF Outside

LEMMA PositionsAre ==
    ASSUME NEW e \in Edges \ Blocked, NEW s \in 0..Length[e]
    PROVE  <<e, s>> \in Positions
  BY DEF Positions

LEMMA CellFacts ==
    ASSUME NEW c \in AllCells
    PROVE  /\ c.edge \in Edges /\ c.begin \in 0..Length[c.edge] /\ c.end \in 0..Length[c.edge]
           /\ c.begin <= c.end /\ c.begin \in Nat /\ c.end \in Nat
<1>1. PICK e \in Edges :
        c \in {d \in {Cell(e, b, s) : b, s \in 0..Length[e]} : d.begin <= d.end}
  BY DEF AllCells
<1>2. PICK b \in 0..Length[e], s \in 0..Length[e] : c = Cell(e, b, s)
  BY <1>1
<1>3. c.edge = e /\ c.begin = b /\ c.end = s
  BY <1>2 DEF Cell
<1> QED
  BY <1>1, <1>3, GraphFacts

LEMMA CellsAre ==
    ASSUME NEW e \in Edges, NEW b \in 0..Length[e], NEW s \in 0..Length[e], b <= s
    PROVE  /\ Cell(e, b, s) \in AllCells
           /\ Cell(e, b, s).edge = e /\ Cell(e, b, s).begin = b /\ Cell(e, b, s).end = s
  BY DEF AllCells, Cell

(* At which node a position is.                                            *)
LEMMA NodesAtFacts ==
    ASSUME NEW p \in Positions, NEW n \in NodesAt(p)
    PROVE  /\ n \in Ends(p[1])
           /\ \/ p[2] = 0 /\ n = FromNode[p[1]]
              \/ p[2] = Length[p[1]] /\ n = ToNode[p[1]]
  BY PositionFacts, GraphFacts DEF NodesAt

-----------------------------------------------------------------------------
(* The recursive functions of the model are functions: what the walk of    *)
(* the rival and the search through the graph add at each distance.        *)

WalkRule(r, f, d) == IF d = 0 THEN {r} ELSE UNION {Moved(q) : q \in f[d - 1]}
Walk(r, limit) == CHOOSE f : f = [d \in 0..limit |-> WalkRule(r, f, d)]

LEMMA WalkExists ==
    ASSUME NEW r, NEW limit \in Nat
    PROVE  \E f : f = [d \in 0..limit |-> WalkRule(r, f, d)]
<1> DEFINE Good(n) == \E f : f = [d \in 0..n |-> WalkRule(r, f, d)]
           Bad == {n \in Nat : ~Good(n)}
<1>1. SUFFICES ASSUME Bad # {} PROVE FALSE
  BY <1>1
<1>2. PICK n \in Bad : \A y \in Bad : n <= y
  BY <1>1, LeastNumber
<1>3. n # 0
  <2> DEFINE f == [d \in 0..0 |-> {r}]
  <2>1. f = [d \in 0..0 |-> WalkRule(r, f, d)]
    BY DEF WalkRule
  <2> HIDE DEF f
  <2>2. Good(0)
    BY <2>1
  <2> QED
    BY <1>2, <2>2
<1>4. n - 1 \in Nat /\ n - 1 \notin Bad
  BY <1>2, <1>3
<1>5. PICK f : f = [d \in 0..(n - 1) |-> WalkRule(r, f, d)]
  BY <1>4
<1> DEFINE g == [d \in 0..n |-> IF d = n THEN UNION {Moved(q) : q \in f[n - 1]} ELSE f[d]]
<1>6. ASSUME NEW d \in 0..n PROVE g[d] = WalkRule(r, g, d)
  <2>1. CASE d = n
    <3>1. g[n - 1] = f[n - 1]
      BY <1>4
    <3> QED
      BY <1>3, <2>1, <3>1 DEF WalkRule
  <2>2. CASE d # n
    <3>1. d \in 0..(n - 1) /\ g[d] = f[d]
      BY <2>2
    <3>2. f[d] = WalkRule(r, f, d)
      BY <1>5, <3>1
    <3>3. d # 0 => g[d - 1] = f[d - 1]
      BY <3>1
    <3> QED
      BY <3>1, <3>2, <3>3 DEF WalkRule
  <2> QED
    BY <2>1, <2>2
<1>7. g = [d \in 0..n |-> g[d]]
  OBVIOUS
<1> HIDE DEF g
<1>8. g = [d \in 0..n |-> WalkRule(r, g, d)]
  BY <1>6, <1>7
<1>9. Good(n)
  BY <1>8
<1> QED
  BY <1>2, <1>9

LEMMA WithinIsWalk ==
    ASSUME NEW r, NEW limit \in Nat
    PROVE  /\ Within(r, limit) = Walk(r, limit)[limit]
           /\ \A d \in 0..limit : Walk(r, limit)[d] = WalkRule(r, Walk(r, limit), d)
<1>1. Walk(r, limit) = [d \in 0..limit |-> WalkRule(r, Walk(r, limit), d)]
  BY WalkExists DEF Walk
<1>2. Within(r, limit) = Walk(r, limit)[limit]
  BY DEF Within, Walk, WalkRule
<1> QED
  BY <1>1, <1>2

NodeRule(cell, f, d) ==
    {n \in Ends(cell.edge) : InitialCost(cell, n) <= d} \cup
    UNION {Ends(e) : e \in {x \in Edges \ Blocked :
        /\ Length[x] <= d
        /\ Ends(x) \cap f[d - Length[x]] # {}}}

LEMMA NearExists ==
    ASSUME NEW cell, NEW limit \in Nat
    PROVE  \E f : f = [d \in 0..limit |-> NodeRule(cell, f, d)]
<1> DEFINE Good(n) == \E f : f = [d \in 0..n |-> NodeRule(cell, f, d)]
           Bad == {n \in Nat : ~Good(n)}
<1>1. SUFFICES ASSUME Bad # {} PROVE FALSE
  BY <1>1
<1>2. PICK n \in Bad : \A y \in Bad : n <= y
  BY <1>1, LeastNumber
<1>a. ASSUME NEW f, NEW g, NEW d \in Nat, \A i \in 0..(d - 1) : f[i] = g[i]
      PROVE  NodeRule(cell, f, d) = NodeRule(cell, g, d)
  <2>1. ASSUME NEW e \in Edges \ Blocked, Length[e] <= d PROVE f[d - Length[e]] = g[d - Length[e]]
    <3>1. Length[e] \in Nat /\ Length[e] > 0
      BY GraphFacts
    <3> QED
      BY <1>a, <2>1, <3>1
  <2> QED
    BY <2>1 DEF NodeRule
<1>3. n # 0
  <2> DEFINE f == [d \in 0..0 |-> NodeRule(cell, [i \in {} |-> {}], 0)]
  <2>1. NodeRule(cell, f, 0) = NodeRule(cell, [i \in {} |-> {}], 0)
    BY <1>a
  <2>2. f = [d \in 0..0 |-> NodeRule(cell, f, d)]
    <3> DEFINE v == NodeRule(cell, [i \in {} |-> {}], 0)
    <3> HIDE DEF v
    <3>1. \A d \in 0..0 : d = 0
      OBVIOUS
    <3>2. \A d \in 0..0 : NodeRule(cell, f, d) = v
      BY <2>1, <3>1 DEF v
    <3>3. f = [d \in 0..0 |-> v]
      BY DEF v
    <3> HIDE DEF f
    <3> QED
      BY <3>2, <3>3
  <2> HIDE DEF f
  <2>3. Good(0)
    BY <2>2
  <2> QED
    BY <1>2, <2>3
<1>4. n - 1 \in Nat /\ n - 1 \notin Bad
  BY <1>2, <1>3
<1>5. PICK f : f = [d \in 0..(n - 1) |-> NodeRule(cell, f, d)]
  BY <1>4
<1> DEFINE g == [d \in 0..n |-> IF d = n THEN NodeRule(cell, f, n) ELSE f[d]]
<1>6. ASSUME NEW d \in 0..n PROVE g[d] = NodeRule(cell, g, d)
  <2>1. \A i \in 0..(d - 1) : g[i] = f[i]
    OBVIOUS
  <2>2. d \in Nat
    OBVIOUS
  <2>3. NodeRule(cell, g, d) = NodeRule(cell, f, d)
    BY <1>a, <2>1, <2>2
  <2>4. d # n => f[d] = NodeRule(cell, f, d)
    <3>1. d # n => d \in 0..(n - 1)
      OBVIOUS
    <3> QED
      BY <1>5, <3>1
  <2> QED
    BY <2>3, <2>4
<1>7. g = [d \in 0..n |-> g[d]]
  OBVIOUS
<1> HIDE DEF g
<1>8. g = [d \in 0..n |-> NodeRule(cell, g, d)]
  BY <1>6, <1>7
<1>9. Good(n)
  BY <1>8
<1> QED
  BY <1>2, <1>9

LEMMA NearIs ==
    ASSUME NEW cell, NEW limit \in Nat
    PROVE  \A d \in 0..limit :
              NodesWithin(cell, limit)[d] = NodeRule(cell, NodesWithin(cell, limit), d)
<1> DEFINE near == CHOOSE f : f = [d \in 0..limit |-> NodeRule(cell, f, d)]
<1>1. near = [d \in 0..limit |-> NodeRule(cell, near, d)]
  BY NearExists
<1>2. NodesWithin(cell, limit) = near
  BY DEF NodesWithin, NodeRule
<1> HIDE DEF near
<1> QED
  BY <1>1, <1>2
-----------------------------------------------------------------------------
(* The search: what is near stays near, farther away.                      *)

LEMMA NearGrows ==
    ASSUME NEW cell \in AllCells, NEW limit \in Nat,
           NEW i \in 0..limit, NEW j \in 0..limit, i <= j,
           NEW n \in NodesWithin(cell, limit)[i]
    PROVE  n \in NodesWithin(cell, limit)[j]
<1> DEFINE near == NodesWithin(cell, limit)
           Grows(d) == \A m \in near[d] : \A k \in d..limit : m \in near[k]
           Bad == {d \in 0..limit : ~Grows(d)}
<1>1. \A d \in 0..limit : near[d] = NodeRule(cell, near, d)
  BY NearIs
<1> HIDE DEF near
<1>2. Bad = {}
  <2>1. SUFFICES ASSUME Bad # {} PROVE FALSE
    OBVIOUS
  <2>2. Bad \in SUBSET Nat
    OBVIOUS
  <2>3. PICK d \in Bad : \A y \in Bad : d <= y
    BY <2>1, <2>2, LeastNumber
  <2>4. PICK m \in near[d] : \E k \in d..limit : m \notin near[k]
    BY <2>3
  <2>5. PICK k \in d..limit : m \notin near[k]
    BY <2>4
  <2>6. /\ d \in 0..limit /\ k \in 0..limit /\ d <= k
        /\ near[d] = NodeRule(cell, near, d) /\ near[k] = NodeRule(cell, near, k)
    BY <1>1, <2>3, <2>5
  <2>7. CASE m \in Ends(cell.edge) /\ InitialCost(cell, m) <= d
    <3>1. InitialCost(cell, m) \in Int
      BY CellFacts, GraphFacts DEF InitialCost
    <3>2. InitialCost(cell, m) <= k
      BY <2>6, <2>7, <3>1
    <3> QED
      BY <2>5, <2>6, <2>7, <3>2 DEF NodeRule
  <2>8. CASE ~(m \in Ends(cell.edge) /\ InitialCost(cell, m) <= d)
    <3>a. m \in NodeRule(cell, near, d)
      BY <2>4, <2>6
    <3>1. PICK e \in Edges \ Blocked :
            m \in Ends(e) /\ Length[e] <= d /\ Ends(e) \cap near[d - Length[e]] # {}
      BY <2>8, <3>a DEF NodeRule
    <3>b. PICK l \in Ends(e) : l \in near[d - Length[e]]
      BY <3>1
    <3>2. Length[e] \in Nat /\ Length[e] > 0
      BY GraphFacts
    <3>3. d - Length[e] \in 0..limit /\ d - Length[e] < d
      BY <2>6, <3>1, <3>2
    <3>4. d - Length[e] \notin Bad
      BY <2>3, <2>6, <3>3
    <3>5. k - Length[e] \in (d - Length[e])..limit
      BY <2>6, <3>2
    <3>6. l \in near[k - Length[e]]
      BY <3>3, <3>4, <3>5, <3>b
    <3>7. Length[e] <= k
      BY <2>6, <3>1, <3>2
    <3> QED
      BY <2>5, <2>6, <3>1, <3>6, <3>7, <3>b DEF NodeRule
  <2> QED
    BY <2>7, <2>8
<1>3. Grows(i)
  BY <1>2
<1>4. j \in i..limit
  OBVIOUS
<1> QED
  BY <1>3, <1>4 DEF near

LEMMA NearAreJunctions ==
    ASSUME NEW cell \in AllCells, NEW limit \in Nat, NEW d \in 0..limit
    PROVE  NodesWithin(cell, limit)[d] \subseteq Junctions
<1>1. \A e \in Edges : Ends(e) \subseteq Junctions
  BY GraphFacts
<1>2. cell.edge \in Edges
  BY CellFacts
<1> QED
  BY <1>1, <1>2, NearIs DEF NodeRule

(* What is left at a node.                                                 *)
LEMMA LeftFacts ==
    ASSUME NEW cell \in AllCells, NEW limit \in Nat, NEW n,
           NEW x \in 0..limit, n \in NodesWithin(cell, limit)[limit - x]
    PROVE  Left(cell, limit, n) \in Nat /\ Left(cell, limit, n) >= x
<1> DEFINE near == NodesWithin(cell, limit)
           left == {d \in 0..limit : n \in near[limit - d]}
<1>1. x \in left
  OBVIOUS
<1>2. PICK y \in left : \A z \in left : z <= y
  BY <1>1, GreatestNumber
<1> DEFINE most == CHOOSE d \in left : \A z \in left : z <= d
<1>3. most \in left /\ \A z \in left : z <= most
  BY <1>2
<1>4. Left(cell, limit, n) = most
  BY <1>1 DEF Left
<1> HIDE DEF near, most
<1>5. most \in 0..limit /\ x <= most
  BY <1>1, <1>3
<1> QED
  BY <1>4, <1>5

-----------------------------------------------------------------------------
(* Around every piece there is a run of pieces.                            *)
LEMMA RunAround ==
    ASSUME NEW e \in Edges, NEW pieces \in SUBSET (0..(Length[e] - 1)), NEW k \in pieces
    PROVE  \E c \in Runs(pieces, e) :
              c.edge = e /\ c.begin <= k /\ k + 1 <= c.end /\ c \in AllCells
<1>1. Length[e] \in Nat /\ k \in 0..(Length[e] - 1) /\ k \in Nat
  BY GraphFacts
<1> DEFINE L == Length[e]
<1> HIDE DEF L
<1>2. /\ L \in Nat /\ k \in Nat /\ k < L /\ \A i \in pieces : i \in Nat /\ i < L
      /\ L = Length[e]
  BY <1>1 DEF L
<1> DEFINE Back == {b \in Nat : b <= k /\ b..k \subseteq pieces}
           Ahead == {s \in Nat : s > k /\ s \notin pieces}
<1>3. k \in Back
  BY <1>2
<1>4. PICK b \in Back : \A y \in Back : b <= y
  BY <1>3, LeastNumber
<1>5. L \in Ahead
  BY <1>2
<1>6. PICK s \in Ahead : \A y \in Ahead : s <= y
  BY <1>5, LeastNumber
<1>7. /\ b \in Nat /\ b <= k /\ \A i \in Nat : b <= i /\ i <= k => i \in pieces
      /\ s \in Nat /\ k < s /\ s \notin pieces /\ s <= L
      /\ \A i \in Nat : k < i /\ i < s => i \in pieces
  BY <1>2, <1>4, <1>5, <1>6
<1>8. b - 1 \notin pieces
  <2>1. SUFFICES ASSUME b - 1 \in pieces PROVE FALSE
    OBVIOUS
  <2>2. b - 1 \in Nat
    BY <1>2, <2>1
  <2>3. \A i \in (b - 1)..k : i \in pieces
    BY <1>7, <2>1, <2>2
  <2>4. b - 1 \in Back
    BY <1>7, <2>2, <2>3
  <2> QED
    BY <1>4, <1>7, <2>4
<1>9. \A i \in b..(s - 1) : i \in pieces
  BY <1>2, <1>7
<1>10. s - 1 \in pieces /\ b \in pieces
  BY <1>2, <1>7
<1> DEFINE c == Cell(e, b, s)
<1>11. c.edge = e /\ c.begin = b /\ c.end = s
  BY DEF Cell
<1>12. c \in {Cell(e, x, y) : x \in pieces, y \in {i + 1 : i \in pieces}}
  <2>1. s = (s - 1) + 1
    BY <1>7
  <2> QED
    BY <1>10, <2>1
<1>13. c \in AllCells
  <2>1. b \in 0..Length[e] /\ s \in 0..Length[e] /\ b <= s
    BY <1>2, <1>7
  <2> QED
    BY <2>1, CellsAre
<1> HIDE DEF c
<1>14. c \in Runs(pieces, e)
  BY <1>7, <1>8, <1>9, <1>11, <1>12 DEF Runs
<1> QED
  BY <1>7, <1>11, <1>13, <1>14

LEMMA RunsAreCells ==
    ASSUME NEW e \in Edges, NEW pieces \in SUBSET (0..(Length[e] - 1))
    PROVE  Runs(pieces, e) \subseteq AllCells
<1>1. SUFFICES ASSUME NEW c \in Runs(pieces, e) PROVE c \in AllCells
  OBVIOUS
<1>2. PICK b \in pieces, s \in {k + 1 : k \in pieces} : c = Cell(e, b, s)
  BY DEF Runs
<1>3. c.begin < c.end
  BY DEF Runs
<1>4. c.begin = b /\ c.end = s
  BY <1>2 DEF Cell
<1>5. b \in 0..Length[e] /\ s \in 0..Length[e] /\ b <= s
  BY <1>3, <1>4, GraphFacts
<1> QED
  BY <1>2, <1>5, CellsAre
-----------------------------------------------------------------------------
(* What a rival that was in a cell can reach in a walk of length j: it is  *)
(* still near the cell on its edge, or has come through a node.            *)

(* How far a position is from a node of its edge; on a loop, either way.   *)
Offsets(p, n) ==
    {x \in {p[2]} : n = FromNode[p[1]]} \cup {x \in {Length[p[1]] - p[2]} : n = ToNode[p[1]]}

ReachesVia(cell, limit, p, j, n) ==
    \E x \in Offsets(p, n) : x <= j /\ n \in NodesWithin(cell, limit)[j - x]

Reaches(cell, limit, p, j) ==
    \/ p[1] = cell.edge /\ cell.begin - j <= p[2] /\ p[2] <= cell.end + j
    \/ \E n \in Ends(p[1]) : ReachesVia(cell, limit, p, j, n)

LEMMA OffsetFacts ==
    ASSUME NEW p \in Positions, NEW n, NEW x \in Offsets(p, n)
    PROVE  /\ x \in Nat /\ n \in Ends(p[1])
           /\ \/ n = FromNode[p[1]] /\ x = p[2]
              \/ n = ToNode[p[1]] /\ x = Length[p[1]] - p[2]
<1>1. \/ n = FromNode[p[1]] /\ x = p[2]
      \/ n = ToNode[p[1]] /\ x = Length[p[1]] - p[2]
  BY DEF Offsets
<1> QED
  BY <1>1, PositionFacts, GraphFacts

LEMMA ReachesMore ==
    ASSUME NEW cell \in AllCells, NEW limit \in Nat, NEW p \in Positions,
           NEW i \in 0..limit, NEW j \in 0..limit, i <= j,
           Reaches(cell, limit, p, i)
    PROVE  Reaches(cell, limit, p, j)
<1>1. CASE p[1] = cell.edge /\ cell.begin - i <= p[2] /\ p[2] <= cell.end + i
  <2>1. cell.begin - j <= p[2] /\ p[2] <= cell.end + j
    BY <1>1, CellFacts, PositionFacts
  <2> QED
    BY <1>1, <2>1 DEF Reaches
<1>2. ASSUME NEW n \in Ends(p[1]), ReachesVia(cell, limit, p, i, n)
      PROVE  Reaches(cell, limit, p, j)
  <2>1. PICK x \in Offsets(p, n) : x <= i /\ n \in NodesWithin(cell, limit)[i - x]
    BY <1>2 DEF ReachesVia
  <2>2. x \in Nat
    BY OffsetFacts
  <2>3. i - x \in 0..limit /\ j - x \in 0..limit /\ i - x <= j - x /\ x <= j
    BY <2>1, <2>2
  <2>4. n \in NodesWithin(cell, limit)[j - x]
    BY <2>1, <2>3, NearGrows
  <2> QED
    BY <2>3, <2>4 DEF Reaches, ReachesVia
<1> QED
  BY <1>1, <1>2 DEF Reaches

LEMMA ReachesNode ==
    ASSUME NEW cell \in AllCells, cell.edge \notin Blocked, cell.edge \notin Loops,
           NEW limit \in Nat, NEW p \in Positions, NEW j \in 0..limit,
           Reaches(cell, limit, p, j), NEW n \in NodesAt(p)
    PROVE  n \in NodesWithin(cell, limit)[j]
<1> DEFINE near == NodesWithin(cell, limit)
<1>1. /\ n \in Ends(p[1]) /\ n \in Junctions
      /\ \/ p[2] = 0 /\ n = FromNode[p[1]]
         \/ p[2] = Length[p[1]] /\ n = ToNode[p[1]]
  BY NodesAtFacts, PositionFacts, GraphFacts
<1>2. near[j] = NodeRule(cell, near, j)
  BY NearIs
<1>3. CASE p[1] = cell.edge /\ cell.begin - j <= p[2] /\ p[2] <= cell.end + j
  <2>1. InitialCost(cell, n) <= j
    BY <1>1, <1>3, CellFacts, PositionFacts, GraphFacts DEF InitialCost
  <2>2. n \in Ends(cell.edge)
    BY <1>1, <1>3
  <2> HIDE DEF near
  <2> QED
    BY <1>2, <2>1, <2>2 DEF NodeRule, near
<1>4. ASSUME NEW m \in Ends(p[1]), ReachesVia(cell, limit, p, j, m)
      PROVE  n \in near[j]
  <2>1. PICK x \in Offsets(p, m) : x <= j /\ m \in near[j - x]
    BY <1>4 DEF ReachesVia
  <2>2. /\ x \in Nat
        /\ \/ m = FromNode[p[1]] /\ x = p[2]
           \/ m = ToNode[p[1]] /\ x = Length[p[1]] - p[2]
    BY OffsetFacts
  <2>3. CASE m = n
    <3>1. j - x \in 0..limit /\ j - x <= j
      BY <2>1, <2>2
    <3> QED
      BY <2>1, <2>3, <3>1, NearGrows
  <2>4. CASE m # n
    <3>1. x = Length[p[1]]
      BY <1>1, <2>2, <2>4, PositionFacts, GraphFacts
    <3>2. p[1] \in Edges \ Blocked
      BY PositionFacts
    <3>3. Length[p[1]] <= j /\ Ends(p[1]) \cap near[j - Length[p[1]]] # {}
      BY <2>1, <3>1
    <3> HIDE DEF near
    <3>4. n \in NodeRule(cell, near, j)
      BY <1>1, <3>2, <3>3 DEF NodeRule
    <3> QED
      BY <1>2, <3>4 DEF near
  <2> QED
    BY <2>3, <2>4
<1> QED
  BY <1>3, <1>4 DEF Reaches

LEMMA ReachesPlace ==
    ASSUME NEW cell \in AllCells, cell.edge \notin Blocked, cell.edge \notin Loops,
           NEW limit \in Nat, NEW p \in Positions, NEW q \in Positions, NEW j \in 0..limit,
           Reaches(cell, limit, p, j), p # q => NodesAt(p) \cap NodesAt(q) # {}
    PROVE  Reaches(cell, limit, q, j)
<1>1. CASE p = q
  BY <1>1
<1>2. CASE p # q
  <2>1. PICK n \in NodesAt(p) : n \in NodesAt(q)
    BY <1>2
  <2>2. n \in NodesWithin(cell, limit)[j]
    BY ReachesNode
  <2>3. n \in Ends(q[1]) /\ 0 \in Offsets(q, n)
    BY <2>1, NodesAtFacts, PositionFacts, GraphFacts DEF Offsets
  <2>4. j - 0 = j /\ 0 <= j
    OBVIOUS
  <2>5. ReachesVia(cell, limit, q, j, n)
    BY <2>2, <2>3, <2>4 DEF ReachesVia
  <2> QED
    BY <2>3, <2>5 DEF Reaches
<1> QED
  BY <1>1, <1>2

LEMMA ReachesOn ==
    ASSUME NEW cell \in AllCells, NEW limit \in Nat,
           NEW p \in Positions, NEW q \in Positions, NEW j \in Nat, j + 1 <= limit,
           p[1] = q[1], q[2] - p[2] \in -1..1,
           Reaches(cell, limit, p, j)
    PROVE  Reaches(cell, limit, q, j + 1)
<1>1. CASE p[1] = cell.edge /\ cell.begin - j <= p[2] /\ p[2] <= cell.end + j
  <2>1. cell.begin - (j + 1) <= q[2] /\ q[2] <= cell.end + (j + 1)
    BY <1>1, CellFacts, PositionFacts
  <2> QED
    BY <1>1, <2>1 DEF Reaches
<1>2. ASSUME NEW n \in Ends(p[1]), ReachesVia(cell, limit, p, j, n)
      PROVE  Reaches(cell, limit, q, j + 1)
  <2>1. PICK x \in Offsets(p, n) : x <= j /\ n \in NodesWithin(cell, limit)[j - x]
    BY <1>2 DEF ReachesVia
  <2>2. /\ x \in Nat
        /\ \/ n = FromNode[p[1]] /\ x = p[2]
           \/ n = ToNode[p[1]] /\ x = Length[p[1]] - p[2]
    BY OffsetFacts
  <2>3. \E y \in Offsets(q, n) : y \in Nat /\ y <= x + 1
    <3>1. q[2] \in Nat /\ p[2] \in Nat /\ Length[q[1]] \in Nat /\ q[2] <= Length[q[1]]
      BY PositionFacts, GraphFacts
    <3>2. CASE n = FromNode[p[1]] /\ x = p[2]
      <4>1. q[2] \in Offsets(q, n) /\ q[2] <= x + 1
        BY <3>1, <3>2 DEF Offsets
      <4> QED
        BY <3>1, <4>1
    <3>3. CASE n = ToNode[p[1]] /\ x = Length[p[1]] - p[2]
      <4> DEFINE y == Length[q[1]] - q[2]
      <4>1. y \in Offsets(q, n)
        BY <3>3 DEF Offsets
      <4>2. y \in Nat /\ y <= x + 1
        BY <3>1, <3>3
      <4> QED
        BY <4>1, <4>2
    <3> QED
      BY <2>2, <3>2, <3>3
  <2>4. PICK y \in Offsets(q, n) : y \in Nat /\ y <= x + 1
    BY <2>3
  <2>5. /\ j - x \in 0..limit /\ (j + 1) - y \in 0..limit
        /\ j - x <= (j + 1) - y /\ y <= j + 1
    BY <2>1, <2>2, <2>4
  <2>6. n \in NodesWithin(cell, limit)[(j + 1) - y]
    BY <2>1, <2>5, NearGrows
  <2>7. n \in Ends(q[1])
    OBVIOUS
  <2> QED
    BY <2>4, <2>5, <2>6, <2>7 DEF Reaches, ReachesVia
<1> QED
  BY <1>1, <1>2 DEF Reaches

-----------------------------------------------------------------------------
(* The rival in motion.                                                    *)

Escapes(cell, limit, j) == NodesWithin(cell, limit)[j] \cap Frontiers # {}

(* Of a rival that was in the cell, after a walk of length j.              *)
Traced(cell, limit, r, j) ==
    IF r.way = "LEFT" THEN Escapes(cell, limit, j)
    ELSE r.at \in Positions /\ Reaches(cell, limit, r.at, j)

LEMMA EscapesMore ==
    ASSUME NEW cell \in AllCells, NEW limit \in Nat,
           NEW i \in 0..limit, NEW j \in 0..limit, i <= j, Escapes(cell, limit, i)
    PROVE  Escapes(cell, limit, j)
  BY NearGrows DEF Escapes

LEMMA TracedMore ==
    ASSUME NEW cell \in AllCells, NEW limit \in Nat, NEW r,
           NEW i \in 0..limit, NEW j \in 0..limit, i <= j, Traced(cell, limit, r, i)
    PROVE  Traced(cell, limit, r, j)
<1>1. CASE r.way = "LEFT"
  BY <1>1, EscapesMore DEF Traced
<1>2. CASE r.way # "LEFT"
  BY <1>2, ReachesMore DEF Traced
<1> QED
  BY <1>1, <1>2

LEMMA PlacesAre ==
    ASSUME NEW p \in Positions, NEW q \in Places[p]
    PROVE  q \in Positions /\ (p # q => NodesAt(p) \cap NodesAt(q) # {})
<1>1. q \in Positions \cup {Outside} /\ (q = p \/ NodesAt(q) \cap NodesAt(p) # {})
  BY DEF Places
<1>2. q = Outside => NodesAt(q) = {}
  BY DEF NodesAt
<1> QED
  BY <1>1, <1>2

LEMMA StepFrom ==
    ASSUME NEW p \in Positions, NEW q \in OneStep[p]
    PROVE  \/ q = Outside /\ NodesAt(p) \cap Frontiers # {}
           \/ /\ q \in Positions
              /\ \E x \in Places[p] : q[1] = x[1] /\ q[2] - x[2] \in -1..1
<1> DEFINE on == {{t \in Positions : t[1] = x[1] /\ t[2] - x[2] \in -1..1} : x \in Places[p]}
           out == IF NodesAt(p) \cap Frontiers # {} THEN {Outside} ELSE {}
<1>1. OneStep[p] = (UNION on) \cup out
  BY PositionFacts DEF OneStep
<1>2. CASE q \in out
  BY <1>2
<1>3. CASE q \notin out
  <2>1. q \in UNION on
    <3> HIDE DEF on, out
    <3> QED
      BY <1>1, <1>3
  <2>2. PICK x \in Places[p] :
          q \in {t \in Positions : t[1] = x[1] /\ t[2] - x[2] \in -1..1}
    BY <2>1
  <2> QED
    BY <2>2
<1> QED
  BY <1>2, <1>3

LEMMA TracedMoves ==
    ASSUME NEW cell \in AllCells, cell.edge \notin Blocked, cell.edge \notin Loops,
           NEW limit \in Nat,
           NEW j \in Nat, j + 1 <= limit,
           NEW r, Traced(cell, limit, r, j), NEW s \in Moved(r)
    PROVE  Traced(cell, limit, s, j + 1)
<1>1. PICK q \in OneStep[r.at] :
        s = [at |-> q, way |-> IF q = Outside THEN "LEFT" ELSE r.way]
  BY DEF Moved
<1>2. s.at = q /\ s.way = (IF q = Outside THEN "LEFT" ELSE r.way)
  BY <1>1
<1>3. j \in 0..limit /\ j + 1 \in 0..limit /\ j <= j + 1
  OBVIOUS
<1>4. CASE r.way = "LEFT"
  <2>1. Escapes(cell, limit, j + 1)
    BY <1>3, <1>4, EscapesMore DEF Traced
  <2> QED
    BY <1>2, <1>4, <2>1 DEF Traced
<1>5. CASE r.way # "LEFT"
  <2> DEFINE p == r.at
  <2>1. p \in Positions /\ Reaches(cell, limit, p, j)
    BY <1>5 DEF Traced
  <2>2. CASE q = Outside
    <3>1. NodesAt(p) \cap Frontiers # {}
      BY <2>1, <2>2, StepFrom, PositionFacts
    <3>2. PICK n \in NodesAt(p) : n \in Frontiers
      BY <3>1
    <3>3. n \in NodesWithin(cell, limit)[j]
      BY <1>3, <2>1, ReachesNode
    <3>4. Escapes(cell, limit, j)
      BY <3>2, <3>3 DEF Escapes
    <3>5. Escapes(cell, limit, j + 1)
      BY <1>3, <3>4, EscapesMore
    <3> QED
      BY <1>2, <2>2, <3>5 DEF Traced
  <2>3. CASE q # Outside
    <3>1. q \in Positions /\ \E x \in Places[p] : q[1] = x[1] /\ q[2] - x[2] \in -1..1
      BY <2>1, <2>3, StepFrom
    <3>2. PICK x \in Places[p] : q[1] = x[1] /\ q[2] - x[2] \in -1..1
      BY <3>1
    <3>3. x \in Positions /\ (p # x => NodesAt(p) \cap NodesAt(x) # {})
      BY <2>1, PlacesAre
    <3>4. Reaches(cell, limit, x, j)
      BY <1>3, <2>1, <3>3, ReachesPlace
    <3>5. Reaches(cell, limit, q, j + 1)
      BY <3>1, <3>2, <3>3, <3>4, ReachesOn
    <3> QED
      BY <1>2, <1>5, <2>3, <3>1, <3>5 DEF Traced
  <2> QED
    BY <2>2, <2>3
<1> QED
  BY <1>4, <1>5

LEMMA TracedWithin ==
    ASSUME NEW cell \in AllCells, cell.edge \notin Blocked, cell.edge \notin Loops,
           NEW limit \in Nat,
           NEW j \in Nat, NEW d \in Nat, j + d <= limit,
           NEW r, Traced(cell, limit, r, j), NEW s \in Within(r, d)
    PROVE  Traced(cell, limit, s, j + d)
<1> DEFINE walk == Walk(r, d)
           Good(i) == \A x \in walk[i] : Traced(cell, limit, x, j + i)
           Bad == {i \in 0..d : ~Good(i)}
<1>1. /\ s \in walk[d] /\ \A i \in 0..d : walk[i] = WalkRule(r, walk, i)
  BY WithinIsWalk
<1> HIDE DEF walk
<1>2. Bad = {}
  <2>1. SUFFICES ASSUME Bad # {} PROVE FALSE
    OBVIOUS
  <2>2. Bad \in SUBSET Nat
    OBVIOUS
  <2>3. PICK i \in Bad : \A y \in Bad : i <= y
    BY <2>1, <2>2, LeastNumber
  <2>4. i \in 0..d /\ walk[i] = WalkRule(r, walk, i)
    BY <1>1, <2>3
  <2>5. PICK x \in walk[i] : ~Traced(cell, limit, x, j + i)
    BY <2>3
  <2>6. CASE i = 0
    <3>1. x = r
      BY <2>4, <2>5, <2>6 DEF WalkRule
    <3>2. j + i = j
      BY <2>6
    <3> QED
      BY <2>5, <3>1, <3>2
  <2>7. CASE i # 0
    <3>1. PICK y \in walk[i - 1] : x \in Moved(y)
      BY <2>4, <2>5, <2>7 DEF WalkRule
    <3>2. i - 1 \in 0..d /\ i - 1 \notin Bad
      BY <2>3, <2>4, <2>7
    <3>3. Traced(cell, limit, y, j + (i - 1))
      BY <3>1, <3>2
    <3>4. /\ j + (i - 1) \in Nat /\ (j + (i - 1)) + 1 = j + i /\ (j + (i - 1)) + 1 <= limit
      BY <2>4, <3>2
    <3>5. Traced(cell, limit, x, (j + (i - 1)) + 1)
      BY <3>1, <3>3, <3>4, TracedMoves
    <3> QED
      BY <2>5, <3>4, <3>5
  <2> QED
    BY <2>6, <2>7
<1>3. Good(d)
  BY <1>2
<1> QED
  BY <1>1, <1>3

(* Who has left has left, and who has not is on the graph.                 *)
OnGraph(r) == r.way # "LEFT" => r.at \in Positions

LEMMA StaysOnGraph ==
    ASSUME NEW r, OnGraph(r), NEW d \in Nat, NEW s \in Within(r, d)
    PROVE  OnGraph(s) /\ (r.way = "LEFT" => s.way = "LEFT")
<1> DEFINE walk == Walk(r, d)
           Good(i) == \A x \in walk[i] : OnGraph(x) /\ (r.way = "LEFT" => x.way = "LEFT")
           Bad == {i \in 0..d : ~Good(i)}
<1>1. /\ s \in walk[d] /\ \A i \in 0..d : walk[i] = WalkRule(r, walk, i)
  BY WithinIsWalk
<1> HIDE DEF walk
<1>2. Bad = {}
  <2>1. SUFFICES ASSUME Bad # {} PROVE FALSE
    OBVIOUS
  <2>2. Bad \in SUBSET Nat
    OBVIOUS
  <2>3. PICK i \in Bad : \A y \in Bad : i <= y
    BY <2>1, <2>2, LeastNumber
  <2>4. i \in 0..d /\ walk[i] = WalkRule(r, walk, i)
    BY <1>1, <2>3
  <2>5. PICK x \in walk[i] : ~(OnGraph(x) /\ (r.way = "LEFT" => x.way = "LEFT"))
    BY <2>3
  <2>6. i # 0
    BY <2>4, <2>5 DEF WalkRule
  <2>7. PICK y \in walk[i - 1] : x \in Moved(y)
    BY <2>4, <2>5, <2>6 DEF WalkRule
  <2>8. i - 1 \in 0..d /\ i - 1 \notin Bad
    BY <2>3, <2>4, <2>6
  <2>9. OnGraph(y) /\ (r.way = "LEFT" => y.way = "LEFT")
    BY <2>7, <2>8
  <2>10. PICK q \in OneStep[y.at] :
           x = [at |-> q, way |-> IF q = Outside THEN "LEFT" ELSE y.way]
    BY <2>7 DEF Moved
  <2>11. x.at = q /\ x.way = (IF q = Outside THEN "LEFT" ELSE y.way)
    BY <2>10
  <2>12. OnGraph(x)
    <3>1. CASE y.way = "LEFT" \/ q = Outside
      BY <2>11, <3>1 DEF OnGraph
    <3>2. CASE y.way # "LEFT" /\ q # Outside
      <4>1. q \in Positions
        BY <2>9, <3>2, StepFrom DEF OnGraph
      <4> QED
        BY <2>11, <4>1 DEF OnGraph
    <3> QED
      BY <3>1, <3>2
  <2> QED
    BY <2>5, <2>9, <2>11, <2>12
<1>3. Good(d)
  BY <1>2
<1> QED
  BY <1>1, <1>3

-----------------------------------------------------------------------------
(* What is reached is covered by the intervals of the code.                *)

(* A cell that covers a position, on an edge whose ends are told apart.    *)
Located(cells, p) ==
    \E c \in cells :
        c.edge \notin Loops /\ \E q \in Places[p] \ {Outside} : Holds(c, q)

LEMMA AtNode ==
    ASSUME NEW e \in Edges \ Blocked, NEW n \in Ends(e)
    PROVE  LET q == <<e, IF n = FromNode[e] THEN 0 ELSE Length[e]>>
           IN  q \in Positions /\ n \in NodesAt(q)
<1> DEFINE q == <<e, IF n = FromNode[e] THEN 0 ELSE Length[e]>>
<1>1. q \in Positions
  BY GraphFacts, PositionsAre
<1>2. q[1] = e /\ q[2] = (IF n = FromNode[e] THEN 0 ELSE Length[e]) /\ q # Outside
  BY <1>1, PositionFacts
<1>3. n \in Junctions /\ (n # FromNode[e] => n = ToNode[e])
  BY GraphFacts
<1> HIDE DEF q
<1>4. n \in NodesAt(q)
  BY <1>2, <1>3 DEF NodesAt
<1> QED
  BY <1>1, <1>4 DEF q

LEMMA SamePlace ==
    ASSUME NEW p \in Positions, NEW q \in Positions, NEW n \in NodesAt(p), n \in NodesAt(q)
    PROVE  q \in Places[p] \ {Outside}
  BY PositionFacts DEF Places

LEMMA OwnPlace ==
    ASSUME NEW p \in Positions
    PROVE  p \in Places[p] \ {Outside}
  BY PositionFacts DEF Places

LEMMA PieceIsCovered ==
    ASSUME NEW cell \in AllCells, NEW limit \in 0..(MaxSpeed * LastTime),
           NEW p \in Positions, NEW k \in 0..(Length[p[1]] - 1),
           k \in Reached(cell, limit, p[1]), p[2] = k \/ p[2] = k + 1
    PROVE  \E c \in ReachableIntervals[cell][limit] : Holds(c, p)
<1>1. p[1] \in Edges \ Blocked /\ p[2] \in Nat /\ k \in Nat
  BY PositionFacts, GraphFacts
<1>2. Reached(cell, limit, p[1]) \in SUBSET (0..(Length[p[1]] - 1))
  BY DEF Reached
<1>3. PICK c \in Runs(Reached(cell, limit, p[1]), p[1]) :
        c.edge = p[1] /\ c.begin <= k /\ k + 1 <= c.end /\ c \in AllCells
  BY <1>1, <1>2, RunAround
<1>4. ReachableIntervals[cell][limit] =
        UNION {Runs(Reached(cell, limit, e), e) : e \in Edges \ Blocked}
  BY DEF ReachableIntervals
<1>5. c \in ReachableIntervals[cell][limit]
  BY <1>1, <1>3, <1>4
<1>6. Holds(c, p)
  BY <1>1, <1>3, CellFacts DEF Holds
<1> QED
  BY <1>5, <1>6

(* On the cell's own edge.                                                 *)
LEMMA OwnEdgeIsCovered ==
    ASSUME NEW cell \in AllCells, NEW limit \in 1..(MaxSpeed * LastTime),
           NEW p \in Positions, p[1] = cell.edge,
           cell.begin - limit <= p[2], p[2] <= cell.end + limit
    PROVE  \E c \in ReachableIntervals[cell][limit] : Holds(c, p)
<1> DEFINE L == Length[p[1]]
           k == IF p[2] < L /\ p[2] + 1 <= cell.end + limit THEN p[2] ELSE p[2] - 1
<1>1. /\ L \in Nat /\ L > 0 /\ p[2] \in Nat /\ p[2] <= L
      /\ cell.begin \in Nat /\ cell.end \in Nat /\ cell.begin <= cell.end /\ cell.end <= L
      /\ limit \in Nat /\ limit >= 1 /\ limit \in 0..(MaxSpeed * LastTime)
  BY CellFacts, PositionFacts, GraphFacts
<1>2. /\ k \in 0..(L - 1) /\ cell.begin - limit <= k /\ k + 1 <= cell.end + limit
      /\ p[2] = k \/ p[2] = k + 1
  BY <1>1
<1> HIDE DEF k
<1>3. k \in Reached(cell, limit, p[1])
  BY <1>2 DEF Reached
<1> QED
  BY <1>1, <1>2, <1>3, PieceIsCovered

LEMMA ReachedIsCovered ==
    ASSUME NEW cell \in AllCells, cell.edge \notin Blocked, cell.edge \notin Loops,
           NEW limit \in 1..(MaxSpeed * LastTime),
           NEW p \in Positions, p[1] \notin Loops, Reaches(cell, limit, p, limit)
    PROVE  Located(ReachableIntervals[cell][limit], p)
<1> DEFINE cells == ReachableIntervals[cell][limit]
<1>1. /\ limit \in Nat /\ limit \in 0..(MaxSpeed * LastTime) /\ limit \in 0..limit
      /\ limit >= 1
  BY GraphFacts
<1>2. ASSUME NEW q \in Places[p] \ {Outside}, q[1] \notin Loops, \E c \in cells : Holds(c, q)
      PROVE  Located(cells, p)
  BY <1>2 DEF Located, Holds
<1> HIDE DEF cells
<1>3. CASE p[1] = cell.edge /\ cell.begin - limit <= p[2] /\ p[2] <= cell.end + limit
  <2>1. \E c \in cells : Holds(c, p)
    BY <1>3, OwnEdgeIsCovered DEF cells
  <2> QED
    BY <1>2, <2>1, OwnPlace DEF cells
<1>4. ASSUME NEW n \in Ends(p[1]), NEW x \in 1..limit, x \in Offsets(p, n),
             Left(cell, limit, n) \in Nat, Left(cell, limit, n) >= x
      PROVE  Located(cells, p)
  <2> DEFINE L == Length[p[1]]
  <2>1. /\ L \in Nat /\ L > 0 /\ p[2] \in Nat /\ p[2] <= L /\ x \in Nat /\ x > 0
        /\ \/ n = FromNode[p[1]] /\ x = p[2]
           \/ n = ToNode[p[1]] /\ x = L - p[2]
    BY <1>4, OffsetFacts, PositionFacts, GraphFacts
  <2>2. CASE n = FromNode[p[1]] /\ x = p[2]
    <3> DEFINE k == p[2] - 1
    <3>1. k \in 0..(L - 1) /\ k + 1 <= Left(cell, limit, n) /\ p[2] = k + 1
      BY <1>4, <2>1, <2>2
    <3> HIDE DEF k
    <3>2. k \in Reached(cell, limit, p[1])
      BY <2>2, <3>1 DEF Reached
    <3>3. \E c \in cells : Holds(c, p)
      BY <1>1, <3>1, <3>2, PieceIsCovered DEF cells
    <3> QED
      BY <1>2, <3>3, OwnPlace DEF cells
  <2>3. CASE n = ToNode[p[1]] /\ x = L - p[2]
    <3> DEFINE k == p[2]
    <3>1. k \in 0..(L - 1) /\ L - k <= Left(cell, limit, n) /\ p[2] = k
      BY <1>4, <2>1, <2>3
    <3>2. k \in Reached(cell, limit, p[1])
      BY <2>3, <3>1 DEF Reached
    <3>3. \E c \in cells : Holds(c, p)
      BY <1>1, <3>1, <3>2, PieceIsCovered DEF cells
    <3> QED
      BY <1>2, <3>3, OwnPlace DEF cells
  <2> QED
    BY <2>1, <2>2, <2>3
<1>5. ASSUME NEW n \in NodesAt(p), n \in NodesWithin(cell, limit)[limit]
      PROVE  Located(cells, p)
  <2>0. n \in Ends(p[1]) /\ p[1] \in Edges \ Blocked /\ n \in Junctions
    BY NodesAtFacts, PositionFacts, GraphFacts
  <2>1. n \in NodeRule(cell, NodesWithin(cell, limit), limit)
    BY <1>1, <1>5, NearIs
  <2>2. CASE n \in Ends(cell.edge) /\ InitialCost(cell, n) <= limit
    <3> DEFINE q == <<cell.edge, IF n = FromNode[cell.edge] THEN 0 ELSE Length[cell.edge]>>
    <3>1. cell.edge \in Edges \ Blocked
      BY CellFacts
    <3>2. q \in Positions /\ n \in NodesAt(q)
      BY <2>2, <3>1, AtNode
    <3>3. q[1] = cell.edge /\ cell.begin - limit <= q[2] /\ q[2] <= cell.end + limit
      BY <1>1, <2>2, <3>1, <3>2, CellFacts, GraphFacts DEF InitialCost
    <3> HIDE DEF q
    <3>4. \E c \in cells : Holds(c, q)
      BY <3>2, <3>3, OwnEdgeIsCovered DEF cells
    <3>5. q \in Places[p] \ {Outside}
      BY <3>2, SamePlace
    <3> QED
      BY <1>2, <3>3, <3>4, <3>5 DEF cells
  <2>3. CASE ~(n \in Ends(cell.edge) /\ InitialCost(cell, n) <= limit)
    <3>1. PICK e \in Edges \ Blocked :
            /\ n \in Ends(e) /\ Length[e] <= limit
            /\ Ends(e) \cap NodesWithin(cell, limit)[limit - Length[e]] # {}
      BY <2>1, <2>3 DEF NodeRule
    <3>2. PICK m \in Ends(e) : m \in NodesWithin(cell, limit)[limit - Length[e]]
      BY <3>1
    <3>3. Length[e] \in Nat /\ Length[e] > 0 /\ Length[e] \in 0..limit
      BY <1>1, <3>1, GraphFacts
    <3>4. Left(cell, limit, m) \in Nat /\ Left(cell, limit, m) >= Length[e]
      BY <1>1, <3>2, <3>3, LeftFacts
    <3>5. CASE m = n
      <4> DEFINE L == Length[p[1]]
      <4>0. Left(cell, limit, n) \in Nat /\ Left(cell, limit, n) >= 1
        BY <3>3, <3>4, <3>5
      <4>1. /\ L \in Nat /\ L > 0
            /\ \/ n = FromNode[p[1]] /\ p[2] = 0
               \/ n = ToNode[p[1]] /\ p[2] = L
        BY <1>5, NodesAtFacts, PositionFacts, GraphFacts
      <4>2. CASE n = FromNode[p[1]] /\ p[2] = 0
        <5>1. 0 \in Reached(cell, limit, p[1])
          BY <4>0, <4>1, <4>2 DEF Reached
        <5>2. \E c \in cells : Holds(c, p)
          BY <1>1, <4>1, <4>2, <5>1, PieceIsCovered DEF cells
        <5> QED
          BY <1>2, <5>2, OwnPlace DEF cells
      <4>3. CASE n = ToNode[p[1]] /\ p[2] = L
        <5>1. L - 1 \in Reached(cell, limit, p[1]) /\ L - 1 \in 0..(L - 1) /\ p[2] = (L - 1) + 1
          BY <4>0, <4>1, <4>3 DEF Reached
        <5>2. \E c \in cells : Holds(c, p)
          BY <1>1, <5>1, PieceIsCovered DEF cells
        <5> QED
          BY <1>2, <5>2, OwnPlace DEF cells
      <4> QED
        BY <4>1, <4>2, <4>3
    <3>6. CASE m # n
      <4> DEFINE q == <<e, IF n = FromNode[e] THEN 0 ELSE Length[e]>>
                 k == IF n = FromNode[e] THEN 0 ELSE Length[e] - 1
      <4>1. e \notin Loops /\ FromNode[e] # ToNode[e] /\ Ends(e) = {FromNode[e], ToNode[e]}
        <5>1. Ends(e) = {FromNode[e], ToNode[e]}
          BY GraphFacts
        <5> QED
          BY <3>1, <3>2, <3>6, <5>1 DEF Loops
      <4>2. q \in Positions /\ n \in NodesAt(q) /\ q[1] = e
        BY <3>1, AtNode
      <4>3. /\ k \in 0..(Length[e] - 1) /\ (q[2] = k \/ q[2] = k + 1)
            /\ n = FromNode[e] => m = ToNode[e] /\ Length[e] - k <= Left(cell, limit, m)
            /\ n # FromNode[e] => m = FromNode[e] /\ k + 1 <= Left(cell, limit, m)
        <5>1. CASE n = FromNode[e]
          <6>1. m = ToNode[e] /\ k = 0 /\ q[2] = 0
            BY <3>2, <3>6, <4>1, <5>1
          <6> HIDE DEF q, k
          <6> QED
            BY <3>3, <3>4, <5>1, <6>1
        <5>2. CASE n # FromNode[e]
          <6>1. m = FromNode[e] /\ k = Length[e] - 1 /\ q[2] = Length[e]
            BY <3>1, <3>2, <3>6, <4>1, <5>2
          <6> HIDE DEF q, k
          <6> QED
            BY <3>3, <3>4, <5>2, <6>1
        <5> QED
          BY <5>1, <5>2
      <4> HIDE DEF k
      <4>4. k \in Reached(cell, limit, e)
        BY <4>3 DEF Reached
      <4> HIDE DEF q
      <4>5. \E c \in cells : Holds(c, q)
        BY <1>1, <4>2, <4>3, <4>4, PieceIsCovered DEF cells
      <4>6. q \in Places[p] \ {Outside}
        BY <4>2, SamePlace
      <4> QED
        BY <1>2, <4>1, <4>2, <4>5, <4>6 DEF cells
    <3> QED
      BY <3>5, <3>6
  <2> QED
    BY <2>2, <2>3
<1>6. ASSUME NEW n \in Ends(p[1]), ReachesVia(cell, limit, p, limit, n)
      PROVE  Located(cells, p)
  <2>1. PICK x \in Offsets(p, n) : x <= limit /\ n \in NodesWithin(cell, limit)[limit - x]
    BY <1>6 DEF ReachesVia
  <2>2. /\ x \in Nat /\ n \in Junctions /\ p # Outside
        /\ \/ n = FromNode[p[1]] /\ x = p[2]
           \/ n = ToNode[p[1]] /\ x = Length[p[1]] - p[2]
    BY OffsetFacts, PositionFacts, GraphFacts
  <2>3. CASE x = 0
    <3>1. limit - 0 = limit
      BY <1>1
    <3>2. n \in NodesAt(p)
      <4>1. \/ n = FromNode[p[1]] /\ p[2] = 0
            \/ n = ToNode[p[1]] /\ p[2] = Length[p[1]]
        BY <2>2, <2>3, PositionFacts, GraphFacts
      <4> QED
        BY <2>2, <4>1 DEF NodesAt
    <3> QED
      BY <1>5, <2>1, <2>3, <3>1, <3>2
  <2>4. CASE x # 0
    <3>1. x \in 0..limit /\ x \in 1..limit
      BY <1>1, <2>1, <2>2, <2>4
    <3>2. Left(cell, limit, n) \in Nat /\ Left(cell, limit, n) >= x
      BY <1>1, <2>1, <3>1, LeftFacts
    <3> QED
      BY <1>4, <2>1, <3>1, <3>2
  <2> QED
    BY <2>3, <2>4
<1> QED
  BY <1>3, <1>6 DEF Reaches, cells

LEMMA IntervalsAreCells ==
    ASSUME NEW cell \in AllCells, NEW limit \in 0..(MaxSpeed * LastTime)
    PROVE  ReachableIntervals[cell][limit] \subseteq AllCells
<1>1. ReachableIntervals[cell][limit] =
        UNION {Runs(Reached(cell, limit, e), e) : e \in Edges \ Blocked}
  BY DEF ReachableIntervals
<1>2. ASSUME NEW e \in Edges \ Blocked PROVE Runs(Reached(cell, limit, e), e) \subseteq AllCells
  <2>1. Reached(cell, limit, e) \in SUBSET (0..(Length[e] - 1))
    BY DEF Reached
  <2> QED
    BY <2>1, RunsAreCells
<1> QED
  BY <1>1, <1>2
-----------------------------------------------------------------------------
(* The invariant.                                                          *)

(* The rival so far: it never moved faster than the bound.                 *)
History ==
    /\ Now \in 0..LastTime
    /\ DOMAIN truth = 0..Now
    /\ \A t \in 0..Now : OnGraph(truth[t])
    /\ \A t \in 1..Now : truth[t] \in Within(truth[t - 1], PathBound[t] - PathBound[t - 1])

BeliefFields ==
    {"cells", "unknown", "measured", "current", "origin", "bounded", "lastNegative", "groups"}

(* A belief is of a time that has come, and reckons from where it says.    *)
Belief(b) ==
    /\ DOMAIN b = BeliefFields
    /\ b.cells \subseteq AllCells
    /\ b.current \in 0..Now
    /\ b.origin \in 0..b.current
    /\ b.bounded => b.origin = 0

(* Where the rival is, at the time of a belief, is found in the belief.    *)
Seen(b) ==
    IF truth[b.current].way = "LEFT" THEN b.unknown
    ELSE Located(b.cells, truth[b.current].at)

OffLoops(t) == \A i \in 0..t : ~OnLoop(truth[i].at)
Supports(b) == OffLoops(b.current) => Seen(b)

BeliefInv ==
    /\ History
    /\ Belief(belief)
    /\ ~fine => Supports(belief)

-----------------------------------------------------------------------------
LEMMA PathGrows ==
    ASSUME NEW s \in 0..LastTime, NEW t \in s..LastTime
    PROVE  /\ PathBound[s] \in Nat /\ PathBound[t] \in Nat
           /\ 0 <= PathBound[t] - PathBound[s]
           /\ PathBound[t] - PathBound[s] <= MaxSpeed * (t - s)
<1> DEFINE Good(x) == /\ 0 <= PathBound[x] - PathBound[s]
                      /\ PathBound[x] - PathBound[s] <= MaxSpeed * (x - s)
           Bad == {x \in s..LastTime : ~Good(x)}
<1>1. /\ \A x \in 0..LastTime : PathBound[x] \in Nat
      /\ \A x \in 1..LastTime : PathBound[x] - PathBound[x - 1] \in 0..MaxSpeed
      /\ MaxSpeed \in Nat /\ LastTime \in Nat /\ s \in Nat /\ t \in Nat
  BY GraphAssumption
<1>2. Bad = {}
  <2>1. SUFFICES ASSUME Bad # {} PROVE FALSE
    OBVIOUS
  <2>2. Bad \in SUBSET Nat
    BY <1>1
  <2>3. PICK x \in Bad : \A y \in Bad : x <= y
    BY <2>1, <2>2, LeastNumber
  <2>4. x \in Nat /\ s <= x /\ x <= LastTime
    BY <1>1, <2>3
  <2>5. x # s
    <3>1. MaxSpeed * (s - s) = 0 /\ PathBound[s] - PathBound[s] = 0
      BY <1>1
    <3> QED
      BY <2>3, <3>1
  <2>6. x - 1 \in s..LastTime /\ x - 1 \notin Bad
    BY <1>1, <2>3, <2>4, <2>5
  <2>7. Good(x - 1)
    BY <2>6
  <2>8. /\ PathBound[x] \in Nat /\ PathBound[x - 1] \in Nat /\ PathBound[s] \in Nat
        /\ PathBound[x] - PathBound[x - 1] \in 0..MaxSpeed
    BY <1>1, <2>4, <2>5
  <2>9. MaxSpeed * (x - s) = MaxSpeed * ((x - 1) - s) + MaxSpeed
    BY <1>1, <2>4
  <2>10. MaxSpeed * ((x - 1) - s) \in Int
    BY <1>1, <2>4
  <2>11. Good(x)
    BY <1>1, <2>7, <2>8, <2>9, <2>10
  <2> QED
    BY <2>3, <2>11
<1>3. t \notin Bad
  BY <1>2
<1> QED
  BY <1>1, <1>3

(* The distance a belief is propagated, and the cells it is propagated of. *)
Distance(b, t) == MaxPathLength(b, t - b.origin) - MaxPathLength(b, b.current - b.origin)
Open(b) == {c \in b.cells : c.edge \notin Blocked}

(* The distance a belief is propagated is at least that of the rival.      *)
LEMMA DistanceFacts ==
    ASSUME History, NEW b, Belief(b), NEW t \in b.current..Now
    PROVE  /\ Distance(b, t) \in 0..(MaxSpeed * LastTime)
           /\ PathBound[t] - PathBound[b.current] \in 0..Distance(b, t)
<1> DEFINE s == b.current  o == b.origin
           d == Distance(b, t)
<1>1. /\ s \in 0..LastTime /\ t \in s..LastTime /\ s \in Nat /\ t \in Nat /\ o \in Nat
      /\ o <= s /\ s <= t /\ t <= LastTime /\ MaxSpeed \in Nat /\ LastTime \in Nat
  BY GraphFacts DEF History, Belief
<1>2. /\ PathBound[s] \in Nat /\ PathBound[t] \in Nat
      /\ 0 <= PathBound[t] - PathBound[s]
      /\ PathBound[t] - PathBound[s] <= MaxSpeed * (t - s)
  BY <1>1, PathGrows
<1>3. MaxSpeed * (t - s) \in Nat /\ MaxSpeed * (t - s) <= MaxSpeed * LastTime
  <2>1. \A x, y \in Nat : x * y \in Nat
    OBVIOUS
  <2>2. t - s \in Nat /\ LastTime - (t - s) \in Nat
    BY <1>1
  <2>3. MaxSpeed * (t - s) \in Nat /\ MaxSpeed * (LastTime - (t - s)) \in Nat
    BY <1>1, <2>1, <2>2
  <2>4. MaxSpeed * LastTime = MaxSpeed * (t - s) + MaxSpeed * (LastTime - (t - s))
    BY <1>1
  <2>5. MaxSpeed * LastTime \in Nat
    BY <1>1, <2>1
  <2> QED
    BY <2>3, <2>4, <2>5
<1>4. CASE b.bounded
  <2>1. o = 0 /\ t - o = t /\ s - o = s
    BY <1>1, <1>4 DEF Belief
  <2>2. d = PathBound[t] - PathBound[s]
    BY <1>4, <2>1 DEF Distance, MaxPathLength
  <2> HIDE DEF d
  <2> QED
    BY <1>1, <1>2, <1>3, <2>2 DEF d
<1>5. CASE ~b.bounded
  <2>1. d = MaxSpeed * (t - o) - MaxSpeed * (s - o)
    BY <1>5 DEF Distance, MaxPathLength
  <2>2. MaxSpeed * (t - o) - MaxSpeed * (s - o) = MaxSpeed * (t - s)
    BY <1>1
  <2>3. d = MaxSpeed * (t - s)
    BY <2>1, <2>2
  <2> HIDE DEF d
  <2>4. d \in 0..(MaxSpeed * LastTime) /\ PathBound[t] - PathBound[s] \in 0..d
    BY <1>1, <1>2, <1>3, <2>3
  <2> QED
    BY <2>4 DEF d
<1> QED
  BY <1>4, <1>5

LEMMA RivalIsTraced ==
    ASSUME History, NEW cell \in AllCells, cell.edge \notin Blocked, cell.edge \notin Loops,
           NEW limit \in Nat,
           NEW s \in 0..Now, NEW t \in s..Now, PathBound[t] - PathBound[s] <= limit,
           Traced(cell, limit, truth[s], 0)
    PROVE  Traced(cell, limit, truth[t], PathBound[t] - PathBound[s])
<1> DEFINE Good(x) == Traced(cell, limit, truth[x], PathBound[x] - PathBound[s])
           Bad == {x \in s..t : ~Good(x)}
<1>1. Now \in Nat /\ Now <= LastTime /\ LastTime \in Nat /\ s \in Nat /\ t \in Nat /\ t <= Now
  BY GraphFacts DEF History
<1>2. Bad = {}
  <2>1. SUFFICES ASSUME Bad # {} PROVE FALSE
    OBVIOUS
  <2>2. Bad \in SUBSET Nat
    BY <1>1
  <2>3. PICK x \in Bad : \A y \in Bad : x <= y
    BY <2>1, <2>2, LeastNumber
  <2>4. x \in Nat /\ s <= x /\ x <= t
    BY <1>1, <2>3
  <2>5. x # s
    <3>1. PathBound[s] - PathBound[s] = 0
      BY <1>1, GraphAssumption
    <3> QED
      BY <2>3, <3>1
  <2>6. x - 1 \in s..t /\ x - 1 \notin Bad
    BY <1>1, <2>3, <2>4, <2>5
  <2>7. Traced(cell, limit, truth[x - 1], PathBound[x - 1] - PathBound[s])
    BY <2>6
  <2>8. truth[x] \in Within(truth[x - 1], PathBound[x] - PathBound[x - 1])
    BY <1>1, <2>4, <2>5 DEF History
  <2>9. /\ PathBound[x - 1] - PathBound[s] \in Nat /\ PathBound[x] - PathBound[x - 1] \in Nat
        /\ (PathBound[x - 1] - PathBound[s]) + (PathBound[x] - PathBound[x - 1])
              = PathBound[x] - PathBound[s]
        /\ PathBound[x] - PathBound[s] <= limit
    <3>1. /\ s \in 0..LastTime /\ x - 1 \in s..LastTime /\ x - 1 \in 0..LastTime
          /\ x \in (x - 1)..LastTime /\ x \in 0..LastTime /\ t \in x..LastTime
      BY <1>1, <2>4, <2>6
    <3>2. /\ PathBound[s] \in Nat /\ PathBound[x - 1] \in Nat /\ PathBound[x] \in Nat
          /\ PathBound[t] \in Nat /\ 0 <= PathBound[x - 1] - PathBound[s]
          /\ 0 <= PathBound[x] - PathBound[x - 1] /\ 0 <= PathBound[t] - PathBound[x]
      BY <3>1, PathGrows
    <3> QED
      BY <3>2
  <2>10. Traced(cell, limit, truth[x],
                (PathBound[x - 1] - PathBound[s]) + (PathBound[x] - PathBound[x - 1]))
    BY <2>7, <2>8, <2>9, TracedWithin
  <2> QED
    BY <2>3, <2>9, <2>10
<1>3. t \in s..t
  BY <1>1
<1> QED
  BY <1>2, <1>3

LEMMA StandsStill ==
    ASSUME History, NEW s \in 0..Now, NEW t \in s..Now, PathBound[t] - PathBound[s] = 0
    PROVE  truth[t] = truth[s]
<1> DEFINE Bad == {x \in s..t : truth[x] # truth[s]}
<1>1. Now \in Nat /\ Now <= LastTime /\ LastTime \in Nat /\ s \in Nat /\ t \in Nat /\ t <= Now
  BY GraphFacts DEF History
<1>2. Bad = {}
  <2>1. SUFFICES ASSUME Bad # {} PROVE FALSE
    OBVIOUS
  <2>2. Bad \in SUBSET Nat
    BY <1>1
  <2>3. PICK x \in Bad : \A y \in Bad : x <= y
    BY <2>1, <2>2, LeastNumber
  <2>4. x \in Nat /\ s <= x /\ x <= t /\ x # s
    BY <1>1, <2>3
  <2>5. x - 1 \in s..t /\ x - 1 \notin Bad
    BY <1>1, <2>3, <2>4
  <2>6. truth[x] \in Within(truth[x - 1], PathBound[x] - PathBound[x - 1])
    BY <1>1, <2>4 DEF History
  <2>7. PathBound[x] - PathBound[x - 1] = 0
    <3>1. /\ s \in 0..LastTime /\ x - 1 \in s..LastTime /\ x - 1 \in 0..LastTime
          /\ x \in (x - 1)..LastTime /\ x \in 0..LastTime /\ t \in x..LastTime
      BY <1>1, <2>4, <2>5
    <3>2. /\ PathBound[s] \in Nat /\ PathBound[x - 1] \in Nat /\ PathBound[x] \in Nat
          /\ PathBound[t] \in Nat /\ 0 <= PathBound[x - 1] - PathBound[s]
          /\ 0 <= PathBound[x] - PathBound[x - 1] /\ 0 <= PathBound[t] - PathBound[x]
      BY <3>1, PathGrows
    <3> QED
      BY <3>2
  <2>8. Within(truth[x - 1], 0) = {truth[x - 1]}
    <3>1. 0 \in 0..0 /\ 0 \in Nat
      OBVIOUS
    <3>2. \A r : Within(r, 0) = WalkRule(r, Walk(r, 0), 0)
      BY <3>1, WithinIsWalk
    <3> QED
      BY <3>2 DEF WalkRule
  <2> QED
    BY <2>3, <2>5, <2>6, <2>7, <2>8
<1> QED
  BY <1>1, <1>2

LEMMA LeftRemains ==
    ASSUME History, NEW s \in 0..Now, NEW t \in s..Now, truth[s].way = "LEFT"
    PROVE  truth[t].way = "LEFT"
<1> DEFINE Bad == {x \in s..t : truth[x].way # "LEFT"}
<1>1. Now \in Nat /\ Now <= LastTime /\ LastTime \in Nat /\ s \in Nat /\ t \in Nat /\ t <= Now
  BY GraphFacts DEF History
<1>2. Bad = {}
  <2>1. SUFFICES ASSUME Bad # {} PROVE FALSE
    OBVIOUS
  <2>2. Bad \in SUBSET Nat
    BY <1>1
  <2>3. PICK x \in Bad : \A y \in Bad : x <= y
    BY <2>1, <2>2, LeastNumber
  <2>4. x \in Nat /\ s <= x /\ x <= t /\ x # s
    BY <1>1, <2>3
  <2>5. x - 1 \in s..t /\ x - 1 \notin Bad
    BY <1>1, <2>3, <2>4
  <2>6. truth[x] \in Within(truth[x - 1], PathBound[x] - PathBound[x - 1])
    BY <1>1, <2>4 DEF History
  <2>7. PathBound[x] - PathBound[x - 1] \in Nat
    <3>1. x - 1 \in 0..LastTime /\ x \in (x - 1)..LastTime
      BY <1>1, <2>4
    <3> QED
      BY <3>1, PathGrows
  <2> QED
    <3>1. OnGraph(truth[x - 1]) /\ truth[x - 1].way = "LEFT"
      BY <1>1, <2>4, <2>5 DEF History
    <3> QED
      BY <2>3, <2>6, <2>7, <3>1, StaysOnGraph
<1> QED
  BY <1>1, <1>2
-----------------------------------------------------------------------------
(* The fields of a belief that was changed.                                *)

LEMMA TimeSet ==
    ASSUME NEW b, DOMAIN b = BeliefFields, NEW t
    PROVE  LET p == [b EXCEPT !.current = t]
           IN  /\ DOMAIN p = BeliefFields /\ p.current = t
               /\ p.cells = b.cells /\ p.origin = b.origin
               /\ p.bounded = b.bounded /\ p.unknown = b.unknown
  BY Zenon DEF BeliefFields

LEMMA CellsSet ==
    ASSUME NEW b, DOMAIN b = BeliefFields, NEW t, NEW u, NEW c
    PROVE  LET p == [b EXCEPT !.current = t, !.unknown = u, !.cells = c]
           IN  /\ DOMAIN p = BeliefFields /\ p.current = t /\ p.cells = c /\ p.unknown = u
               /\ p.origin = b.origin /\ p.bounded = b.bounded
  BY SMT DEF BeliefFields

LEMMA NegativeSet ==
    ASSUME NEW b, DOMAIN b = BeliefFields, NEW c, NEW u, NEW l, NEW g
    PROVE  LET p == [b EXCEPT !.cells = c, !.unknown = u, !.lastNegative = l, !.groups = g]
           IN  /\ DOMAIN p = BeliefFields /\ p.current = b.current /\ p.cells = c
               /\ p.unknown = u /\ p.origin = b.origin /\ p.bounded = b.bounded
  BY SMT DEF BeliefFields

LEMMA MeasuredSet ==
    ASSUME NEW b, DOMAIN b = BeliefFields, NEW c, NEW u, NEW t, NEW f
    PROVE  LET p == [b EXCEPT !.cells = c, !.unknown = u, !.measured = t, !.origin = t,
                              !.bounded = f]
           IN  /\ DOMAIN p = BeliefFields /\ p.current = b.current /\ p.cells = c
               /\ p.unknown = u /\ p.origin = t /\ p.bounded = f
  BY SMT DEF BeliefFields

PropagatedFrom(b, t, p) ==
    /\ DOMAIN p = BeliefFields /\ p.current = t
    /\ p.origin = b.origin /\ p.bounded = b.bounded
    /\ Distance(b, t) <= 0 => p.cells = b.cells /\ p.unknown = b.unknown
    /\ ~(Distance(b, t) <= 0) =>
          /\ p.cells = (b.cells \ Open(b)) \cup
                          UNION {ReachableIntervals[c][Distance(b, t)] : c \in Open(b)}
          /\ p.unknown = (b.unknown \/ \E c \in Open(b) : FrontierReachable(c, Distance(b, t)))

LEMMA PropagateFields ==
    ASSUME NEW b, DOMAIN b = BeliefFields, NEW t
    PROVE  PropagatedFrom(b, t, Propagate(b, t))
<1> DEFINE distance == Distance(b, t)
           open == Open(b)
           cells == (b.cells \ open) \cup UNION {ReachableIntervals[c][distance] : c \in open}
           lost == \E c \in open : FrontierReachable(c, distance)
           p == Propagate(b, t)
<1>1. p = IF distance <= 0 THEN [b EXCEPT !.current = t]
          ELSE [b EXCEPT !.current = t, !.unknown = @ \/ lost, !.cells = cells]
  BY Zenon DEF Propagate, Distance, Open
<1> HIDE DEF distance, open, cells, lost, p
<1>2. CASE distance <= 0
  <2>1. p = [b EXCEPT !.current = t]
    BY <1>1, <1>2
  <2> QED
    BY <1>2, <2>1, TimeSet DEF PropagatedFrom, distance, open, cells, lost, p
<1>3. CASE ~(distance <= 0)
  <2>1. p = [b EXCEPT !.current = t, !.unknown = (b.unknown \/ lost), !.cells = cells]
    BY <1>1, <1>3, Zenon
  <2>2. /\ DOMAIN p = BeliefFields /\ p.current = t /\ p.cells = cells
        /\ p.unknown = (b.unknown \/ lost)
        /\ p.origin = b.origin /\ p.bounded = b.bounded
    <3>1. \A u : p = [b EXCEPT !.current = t, !.unknown = u, !.cells = cells] =>
                  /\ DOMAIN p = BeliefFields /\ p.current = t /\ p.cells = cells
                  /\ p.unknown = u /\ p.origin = b.origin /\ p.bounded = b.bounded
      BY CellsSet, SMT
    <3> QED
      BY <2>1, <3>1, Zenon
  <2> QED
    BY <1>3, <2>2, Zenon DEF PropagatedFrom, distance, open, cells, lost, p
<1> QED
  BY <1>2, <1>3
-----------------------------------------------------------------------------
(* What was said of the rival at the time of a belief, is true of a later  *)
(* time when the belief is propagated there.                               *)

LEMMA PropagateSupports ==
    ASSUME History, NEW b, Belief(b), NEW t \in b.current..Now
    PROVE  /\ Belief(Propagate(b, t)) /\ Propagate(b, t).current = t
           /\ Seen(b) /\ ~OnLoop(truth[t].at) => Seen(Propagate(b, t))
<1> DEFINE s == b.current
           distance == Distance(b, t)
           open == Open(b)
           p == Propagate(b, t)
<1>1. /\ DOMAIN p = BeliefFields /\ p.current = t
      /\ p.origin = b.origin /\ p.bounded = b.bounded
      /\ distance <= 0 => p.cells = b.cells /\ p.unknown = b.unknown
      /\ ~(distance <= 0) =>
            /\ p.cells = (b.cells \ open) \cup
                            UNION {ReachableIntervals[c][distance] : c \in open}
            /\ p.unknown = (b.unknown \/ \E c \in open : FrontierReachable(c, distance))
  <2>1. DOMAIN b = BeliefFields
    BY DEF Belief
  <2>2. PropagatedFrom(b, t, p)
    BY <2>1, PropagateFields
  <2> HIDE DEF p
  <2> QED
    BY <2>2, Zenon DEF PropagatedFrom
<1>2. /\ distance \in 0..(MaxSpeed * LastTime)
      /\ PathBound[t] - PathBound[s] \in 0..distance
  BY DistanceFacts
<1>3. /\ s \in 0..Now /\ t \in s..Now /\ t \in 0..Now /\ s <= t /\ b.origin \in 0..s
      /\ b.cells \subseteq AllCells /\ Now \in Nat
  BY DEF History, Belief
<1>4. MaxSpeed * LastTime \in Nat /\ distance \in Nat /\ distance \in 0..distance
  BY <1>2, GraphFacts
<1>o. \A c \in open : c \in b.cells /\ c \in AllCells /\ c.edge \notin Blocked
  BY <1>3 DEF Open
<1> HIDE DEF distance, open, p
<1>5. p.cells \subseteq AllCells
  <2>1. CASE distance <= 0
    BY <1>1, <1>3, <2>1
  <2>2. CASE ~(distance <= 0)
    <3>1. \A c \in open : ReachableIntervals[c][distance] \subseteq AllCells
      BY <1>2, <1>3, <1>o, IntervalsAreCells
    <3>2. p.cells = (b.cells \ open) \cup UNION {ReachableIntervals[c][distance] : c \in open}
      BY <1>1, <2>2
    <3> QED
      BY <1>3, <3>1, <3>2
  <2> QED
    BY <2>1, <2>2
<1>6. Belief(p)
  <2>1. p.current \in 0..Now /\ p.origin \in 0..p.current
    BY <1>1, <1>3
  <2>2. p.bounded => p.origin = 0
    BY <1>1, Zenon DEF Belief
  <2> QED
    BY <1>1, <1>5, <2>1, <2>2 DEF Belief
<1>7. ASSUME Seen(b), truth[s].way = "LEFT"
      PROVE  Seen(p)
  <2>1. truth[t].way = "LEFT"
    BY <1>3, <1>7, LeftRemains
  <2>2. b.unknown
    BY <1>7 DEF Seen
  <2>3. p.unknown
    BY <1>1, <2>2, Zenon
  <2> QED
    BY <1>1, <2>1, <2>3, Zenon DEF Seen
<1>8. ASSUME Seen(b), ~OnLoop(truth[t].at), truth[s].way # "LEFT"
      PROVE  Seen(p)
  <2>1. Located(b.cells, truth[s].at)
    BY <1>8 DEF Seen
  <2>2. PICK c \in b.cells :
          c.edge \notin Loops /\ \E q \in Places[truth[s].at] \ {Outside} : Holds(c, q)
    BY <2>1 DEF Located
  <2>3. PICK q \in Places[truth[s].at] \ {Outside} : Holds(c, q)
    BY <2>2
  <2>4. c \in AllCells
    BY <1>3
  <2>5. truth[s].at \in Positions
    BY <1>3, <1>8 DEF History, OnGraph
  <2>6. q \in Positions /\ (truth[s].at # q => NodesAt(truth[s].at) \cap NodesAt(q) # {})
    BY <2>3, <2>5, PlacesAre
  <2>7. c \in open
    BY <2>2, <2>3, <2>6, PositionFacts DEF Holds, open, Open
  <2> DEFINE rival == truth[t]
  <2>8. Traced(c, distance, truth[s], 0)
    <3>1. 0 \in 0..distance
      BY <1>4
    <3>2. Reaches(c, distance, q, 0)
      <4>1. q[1] = c.edge /\ c.begin - 0 <= q[2] /\ q[2] <= c.end + 0
        BY <2>3, <2>4, CellFacts DEF Holds
      <4> QED
        BY <4>1 DEF Reaches
    <3>3. Reaches(c, distance, truth[s].at, 0)
      <4>1. q # truth[s].at => NodesAt(q) \cap NodesAt(truth[s].at) # {}
        BY <2>6
      <4>2. c.edge \notin Blocked
        BY <2>7, <1>o
      <4> QED
        BY <1>4, <2>2, <2>4, <2>5, <2>6, <3>1, <3>2, <4>1, <4>2, ReachesPlace
    <3> QED
      BY <1>8, <2>5, <3>3 DEF Traced
  <2>9. Traced(c, distance, rival, distance)
    <3>1. /\ PathBound[t] - PathBound[s] \in 0..distance
          /\ PathBound[t] - PathBound[s] <= distance
      BY <1>2, <1>4
    <3>2. c.edge \notin Blocked
      BY <2>7, <1>o
    <3>3. Traced(c, distance, rival, PathBound[t] - PathBound[s])
      BY <1>3, <1>4, <2>2, <2>4, <2>8, <3>1, <3>2, RivalIsTraced
    <3> QED
      BY <1>4, <2>4, <3>1, <3>3, TracedMore
  <2>10. CASE distance <= 0
    <3>1. distance = 0 /\ PathBound[t] - PathBound[s] = 0
      BY <1>2, <1>4, <2>10
    <3>2. p.cells = b.cells /\ p.unknown = b.unknown
      BY <1>1, <2>10, Zenon
    <3>3. rival = truth[s]
      BY <1>3, <3>1, StandsStill
    <3> QED
      BY <1>1, <1>8, <2>1, <3>2, <3>3, Zenon DEF Seen
  <2>11. CASE ~(distance <= 0)
    <3>1. distance \in 1..(MaxSpeed * LastTime)
      BY <1>2, <1>4, <2>11
    <3>2. /\ p.cells = (b.cells \ open) \cup UNION {ReachableIntervals[x][distance] : x \in open}
          /\ p.unknown = (b.unknown \/ \E x \in open : FrontierReachable(x, distance))
      BY <1>1, <2>11, Zenon
    <3>3. CASE rival.way = "LEFT"
      <4>1. FrontierReachable(c, distance)
        BY <2>9, <3>3 DEF Traced, Escapes, FrontierReachable
      <4>2. p.unknown
        BY <2>7, <3>2, <4>1, Zenon
      <4> QED
        BY <1>1, <3>3, <4>2, Zenon DEF Seen
    <3>4. CASE rival.way # "LEFT"
      <4>1. rival.at \in Positions /\ Reaches(c, distance, rival.at, distance)
        BY <2>9, <3>4 DEF Traced
      <4>2. rival.at[1] \notin Loops
        BY <1>8, <4>1, PositionFacts DEF OnLoop
      <4>3. Located(ReachableIntervals[c][distance], rival.at)
        BY <1>o, <2>2, <2>4, <2>7, <3>1, <4>1, <4>2, ReachedIsCovered
      <4>4. ReachableIntervals[c][distance] \subseteq p.cells
        BY <2>7, <3>2
      <4>5. Located(p.cells, rival.at)
        BY <4>3, <4>4 DEF Located
      <4> QED
        BY <1>1, <3>4, <4>5 DEF Seen
    <3> QED
      BY <3>3, <3>4
  <2> QED
    BY <2>10, <2>11
<1> QED
  BY <1>1, <1>6, <1>7, <1>8 DEF p
-----------------------------------------------------------------------------
(* A scan that rules out where the rival is not, and a measurement.        *)

LEMMA DetectedIsCovered ==
    ASSUME NEW c \in AllCells, NEW perfect \in Scans, Detected(c, perfect),
           NEW q \in Positions, Holds(c, q)
    PROVE  \E i \in perfect : Holds(i, q)
<1>1. /\ q[1] = c.edge /\ c.begin <= q[2] /\ q[2] <= c.end
      /\ q[2] \in Nat /\ c.begin \in Nat /\ c.end \in Nat
  BY CellFacts, PositionFacts DEF Holds
<1>2. \A i \in perfect : i.begin \in Nat /\ i.end \in Nat
  BY GraphAssumption
<1>3. CASE c.begin = c.end
  BY <1>1, <1>2, <1>3 DEF Detected, Holds
<1>4. CASE c.begin # c.end
  <2> DEFINE k == IF q[2] < c.end THEN q[2] ELSE q[2] - 1
  <2>1. k \in c.begin..(c.end - 1) /\ k \in Int /\ (q[2] = k \/ q[2] = k + 1)
    BY <1>1, <1>4
  <2> HIDE DEF k
  <2>2. PICK i \in perfect : i.edge = c.edge /\ i.begin <= k /\ k + 1 <= i.end
    BY <1>4, <2>1 DEF Detected
  <2>3. Holds(i, q)
    BY <1>1, <1>2, <2>1, <2>2 DEF Holds
  <2> QED
    BY <2>3
<1> QED
  BY <1>3, <1>4

(* Cells may be dropped that do not hold the rival.                        *)
LEMMA DroppingSees ==
    ASSUME NEW b, NEW p, NEW left, Seen(b), p.current = b.current, p.cells = left,
           truth[b.current].way = "LEFT" => (b.unknown => p.unknown),
           truth[b.current].way # "LEFT" =>
              \A c \in b.cells \ left :
                 c.edge \notin Loops =>
                    \A q \in Places[truth[b.current].at] \ {Outside} : ~Holds(c, q)
    PROVE  Seen(p)
<1>1. CASE truth[b.current].way = "LEFT"
  BY <1>1 DEF Seen
<1>2. CASE truth[b.current].way # "LEFT"
  <2>1. Located(b.cells, truth[b.current].at)
    BY <1>2 DEF Seen
  <2>2. Located(left, truth[b.current].at)
    BY <1>2, <2>1 DEF Located
  <2> QED
    BY <1>2, <2>2 DEF Seen
<1> QED
  BY <1>1, <1>2

LEMMA NegativeSupports ==
    ASSUME History, NEW b, Belief(b), NEW t \in 0..Now,
           NEW o \in Observations(t), Accepted(b, o), Honest(o)
    PROVE  /\ Belief(AfterNegative(b, o)) /\ AfterNegative(b, o).current = t
           /\ b.current <= t
           /\ Seen(b) /\ ~OnLoop(truth[t].at) => Seen(AfterNegative(b, o))
<1> DEFINE prior == IF o.stamp > b.current THEN Propagate(b, o.stamp) ELSE b
           left == {c \in prior.cells : ~Detected(c, o.perfect)}
           p == AfterNegative(b, o)
<1>1. /\ o.stamp = t /\ t \in Nat /\ t <= Now /\ t >= b.current
      /\ b.current \in Nat /\ Now \in Nat /\ o.perfect \in Scans
  BY GraphFacts DEF Accepted, Observations, Belief, History
<1>2. /\ ~Covers(o.perfect, truth[t].at)
      /\ o.exhaustive => truth[t].way # "LEFT"
  BY <1>1 DEF Accepted, Honest
<1>3. /\ Belief(prior) /\ prior.current = t
      /\ Seen(b) /\ ~OnLoop(truth[t].at) => Seen(prior)
  <2>1. CASE o.stamp > b.current
    <3>1. o.stamp \in b.current..Now
      BY <1>1
    <3> QED
      BY <1>1, <2>1, <3>1, PropagateSupports
  <2>2. CASE ~(o.stamp > b.current)
    BY <1>1, <2>2
  <2> QED
    BY <2>1, <2>2
<1>4. p = [prior EXCEPT !.cells = left, !.unknown = (@ /\ ~o.exhaustive) \/ left = {},
                        !.lastNegative = o.stamp, !.groups = @ \cup {o.group}]
  BY Zenon DEF AfterNegative
<1> HIDE DEF prior, left, p
<1>5. /\ DOMAIN p = BeliefFields /\ p.current = prior.current /\ p.cells = left
      /\ p.unknown = ((prior.unknown /\ ~o.exhaustive) \/ left = {})
      /\ p.origin = prior.origin /\ p.bounded = prior.bounded
  <2>1. DOMAIN prior = BeliefFields
    BY <1>3 DEF Belief
  <2>2. \A u, g : p = [prior EXCEPT !.cells = left, !.unknown = u,
                                    !.lastNegative = o.stamp, !.groups = g] =>
            /\ DOMAIN p = BeliefFields /\ p.current = prior.current /\ p.cells = left
            /\ p.unknown = u /\ p.origin = prior.origin /\ p.bounded = prior.bounded
    BY <2>1, NegativeSet, SMT
  <2>3. p = [prior EXCEPT !.cells = left,
                          !.unknown = ((prior.unknown /\ ~o.exhaustive) \/ left = {}),
                          !.lastNegative = o.stamp, !.groups = (prior.groups \cup {o.group})]
    BY <1>4, Zenon
  <2> QED
    BY <2>2, <2>3, Zenon
<1>6. left \subseteq prior.cells /\ \A c \in prior.cells \ left : Detected(c, o.perfect)
  BY DEF left
<1>7. Belief(p)
  <2>1. /\ p.cells \subseteq AllCells /\ p.current \in 0..Now /\ p.origin \in 0..p.current
    BY <1>3, <1>5, <1>6 DEF Belief
  <2>2. p.bounded => p.origin = 0
    BY <1>3, <1>5, Zenon DEF Belief
  <2> QED
    BY <1>5, <2>1, <2>2 DEF Belief
<1>8. ASSUME Seen(prior) PROVE Seen(p)
  <2>1. ASSUME truth[prior.current].way # "LEFT"
        PROVE  \A c \in prior.cells \ left :
                  \A q \in Places[truth[prior.current].at] \ {Outside} : ~Holds(c, q)
    <3>1. SUFFICES ASSUME NEW c \in prior.cells \ left,
                          NEW q \in Places[truth[prior.current].at] \ {Outside}, Holds(c, q)
                   PROVE  FALSE
      OBVIOUS
    <3>2. truth[prior.current].at \in Positions
      BY <1>1, <1>3, <2>1 DEF History, OnGraph
    <3>3. q \in Positions
      BY <3>1, <3>2, PlacesAre
    <3>4. c \in AllCells /\ Detected(c, o.perfect)
      BY <1>3, <1>6, <3>1 DEF Belief
    <3>5. \E i \in o.perfect : Holds(i, q)
      BY <1>1, <3>1, <3>3, <3>4, DetectedIsCovered
    <3>6. Covers(o.perfect, truth[t].at)
      BY <1>3, <3>1, <3>5 DEF Covers
    <3> QED
      BY <1>2, <3>6
  <2>2. truth[prior.current].way = "LEFT" => (prior.unknown => p.unknown)
    <3>1. truth[prior.current].way = "LEFT" => ~o.exhaustive
      BY <1>2, <1>3, Zenon
    <3> QED
      BY <1>5, <3>1, Zenon
  <2> QED
    BY <1>5, <1>8, <2>1, <2>2, DroppingSees
<1> QED
  BY <1>1, <1>3, <1>5, <1>7, <1>8 DEF p

LEMMA MeasurementSupports ==
    ASSUME History, NEW b, Belief(b), NEW t \in b.current..Now, NEW m
    PROVE  /\ Belief(AfterMeasurement(b, t, m)) /\ AfterMeasurement(b, t, m).current = t
           /\ Seen(b) /\ ~OnLoop(truth[t].at)
              /\ HonestMeasurement(m, t) /\ ~FinerThan(m, Propagate(b, t).cells)
                 => Seen(AfterMeasurement(b, t, m))
<1> DEFINE prior == Propagate(b, t)
           left == {c \in prior.cells : Samples(c) \cap m # {}}
           p == AfterMeasurement(b, t, m)
<1>1. /\ Belief(prior) /\ prior.current = t
      /\ Seen(b) /\ ~OnLoop(truth[t].at) => Seen(prior)
  BY PropagateSupports
<1>2. p = [prior EXCEPT !.cells = left, !.unknown = @ \/ left = {},
                        !.measured = t, !.origin = t, !.bounded = FALSE]
  BY Zenon DEF AfterMeasurement
<1>3. left \subseteq prior.cells /\ \A c \in prior.cells \ left : Samples(c) \cap m = {}
  OBVIOUS
<1>4. t \in 0..Now /\ t \in 0..t
  BY DEF Belief, History
<1> HIDE DEF left, p
<1>5. /\ DOMAIN p = BeliefFields /\ p.current = prior.current /\ p.cells = left
      /\ p.unknown = (prior.unknown \/ left = {}) /\ p.origin = t /\ p.bounded = FALSE
  <2> HIDE DEF prior
  <2>1. DOMAIN prior = BeliefFields
    BY <1>1 DEF Belief
  <2>2. \A u, f : p = [prior EXCEPT !.cells = left, !.unknown = u,
                                    !.measured = t, !.origin = t, !.bounded = f] =>
            /\ DOMAIN p = BeliefFields /\ p.current = prior.current /\ p.cells = left
            /\ p.unknown = u /\ p.origin = t /\ p.bounded = f
    BY <2>1, MeasuredSet, SMT
  <2>3. p = [prior EXCEPT !.cells = left, !.unknown = (prior.unknown \/ left = {}),
                          !.measured = t, !.origin = t, !.bounded = FALSE]
    BY <1>2, Zenon
  <2> QED
    BY <2>2, <2>3, Zenon
<1>6. Belief(p)
  <2> HIDE DEF prior
  <2>1. /\ p.cells \subseteq AllCells /\ p.current \in 0..Now /\ p.origin \in 0..p.current
    BY <1>1, <1>3, <1>4, <1>5 DEF Belief
  <2>2. ~p.bounded
    BY <1>5, Zenon
  <2> QED
    BY <1>5, <2>1, <2>2 DEF Belief
<1>7. ASSUME Seen(prior), HonestMeasurement(m, t), ~FinerThan(m, prior.cells)
      PROVE  Seen(p)
  <2> HIDE DEF prior
  <2>1. ASSUME truth[t].way # "LEFT", NEW c \in prior.cells \ left,
               NEW q \in Places[truth[t].at] \ {Outside}, Holds(c, q)
        PROVE  FALSE
    <3>1. truth[t].at \in Positions
      BY <1>4, <2>1 DEF History, OnGraph
    <3>2. q \in Positions /\ q[1] = c.edge /\ c \in AllCells
      BY <1>1, <2>1, <3>1, PlacesAre DEF Holds, Belief
    <3>3. 2 * q[2] \in (2 * c.begin)..(2 * c.end)
      BY <2>1, <3>2, PositionFacts, CellFacts DEF Holds
    <3>4. <<q[1], 2 * q[2]>> \in Points(c) /\ <<q[1], 2 * q[2]>> \in m
      BY <1>7, <2>1, <3>2, <3>3 DEF Points, HonestMeasurement
    <3>5. Samples(c) \cap m # {}
      BY <1>7, <2>1, <3>4 DEF FinerThan
    <3> QED
      BY <1>3, <2>1, <3>5
  <2>2. prior.unknown => p.unknown
    BY <1>5, Zenon
  <2>3. truth[t].way # "LEFT" =>
           \A c \in prior.cells \ left :
              c.edge \notin Loops => \A q \in Places[truth[t].at] \ {Outside} : ~Holds(c, q)
    BY <2>1, Zenon
  <2> QED
    BY <1>1, <1>5, <1>7, <2>2, <2>3, DroppingSees
<1> QED
  BY <1>1, <1>5, <1>6, <1>7 DEF p

-----------------------------------------------------------------------------
(* The steps.                                                              *)

LEMMA BeliefStart ==
    ASSUME BeliefInit
    PROVE  BeliefInv
<1>1. PICK p \in Positions, unknown \in BOOLEAN, wide \in 0..1 :
        /\ truth = [t \in {0} |-> [at |-> p, way |-> "INSIDE"]]
        /\ belief =
             [cells |-> {Cell(p[1], Greatest(0, p[2] - wide), Least(Length[p[1]], p[2] + wide))},
              unknown |-> unknown, measured |-> 0, current |-> 0, origin |-> 0,
              bounded |-> TRUE, lastNegative |-> -1, groups |-> {}]
  BY DEF BeliefInit
<1> DEFINE c == Cell(p[1], Greatest(0, p[2] - wide), Least(Length[p[1]], p[2] + wide))
<1>2. p[1] \in Edges /\ p[2] \in Nat /\ Length[p[1]] \in Nat /\ p[2] <= Length[p[1]]
  BY PositionFacts, GraphFacts
<1>3. c \in AllCells /\ Holds(c, p)
  <2> DEFINE x == Greatest(0, p[2] - wide)  y == Least(Length[p[1]], p[2] + wide)
  <2>1. x \in 0..Length[p[1]] /\ y \in 0..Length[p[1]] /\ x <= p[2] /\ p[2] <= y
    BY <1>2 DEF Greatest, Least
  <2> HIDE DEF x, y
  <2>2. x <= y
    BY <1>2, <2>1
  <2>3. Cell(p[1], x, y) \in AllCells /\ Holds(Cell(p[1], x, y), p)
    BY <1>2, <2>1, <2>2, CellsAre DEF Holds
  <2> QED
    BY <2>3 DEF x, y
<1>4. Now = 0 /\ DOMAIN truth = 0..Now /\ truth[0] = [at |-> p, way |-> "INSIDE"]
  <2>1. DOMAIN truth = {0}
    BY <1>1
  <2>2. Cardinality({0}) = 1
    BY FS_Singleton
  <2>3. 0..0 = {0}
    OBVIOUS
  <2> QED
    BY <1>1, <2>1, <2>2, <2>3 DEF Now
<1>5. History
  <2>1. OnGraph(truth[0])
    BY <1>4 DEF OnGraph
  <2> QED
    BY <1>4, <2>1, GraphFacts DEF History
<1>6. /\ DOMAIN belief = BeliefFields /\ belief.cells = {c} /\ belief.current = 0
      /\ belief.origin = 0
  BY <1>1 DEF BeliefFields
<1> HIDE DEF c
<1>7. Belief(belief)
  BY <1>3, <1>4, <1>6 DEF Belief
<1>8. Supports(belief)
  <2>1. SUFFICES ASSUME OffLoops(0) PROVE Seen(belief)
    BY <1>6 DEF Supports
  <2>2. truth[0].at = p /\ truth[0].way = "INSIDE"
    BY <1>4
  <2>3. p[1] \notin Loops
    BY <2>1, <2>2, PositionFacts DEF OffLoops, OnLoop
  <2>4. c.edge = p[1]
    BY <1>3 DEF Holds
  <2>5. Located({c}, p)
    BY <1>3, <2>3, <2>4, OwnPlace DEF Located
  <2> QED
    BY <1>6, <2>2, <2>5 DEF Seen
<1> QED
  BY <1>5, <1>7, <1>8 DEF BeliefInv

LEMMA MovePreserves ==
    ASSUME BeliefInv, Move
    PROVE  BeliefInv'
<1>1. PICK r \in Within(truth[Now], PathBound[Now + 1] - PathBound[Now]) :
        truth' = [t \in 0..(Now + 1) |-> IF t = Now + 1 THEN r ELSE truth[t]]
  BY DEF Move
<1>2. Now \in Nat /\ Now + 1 \in 0..LastTime /\ belief' = belief /\ fine' = fine
  BY GraphFacts DEF BeliefInv, History, Move
<1>3. Now' = Now + 1 /\ DOMAIN truth' = 0..Now'
  <2>1. DOMAIN truth' = 0..(Now + 1)
    BY <1>1
  <2>2. Cardinality(0..(Now + 1)) = Now + 2
    BY <1>2, FS_Interval
  <2> QED
    BY <1>2, <2>1, <2>2 DEF Now
<1>4. truth'[Now + 1] = r /\ \A t \in 0..Now : truth'[t] = truth[t]
  BY <1>1, <1>2
<1>5. History'
  <2>1. PathBound[Now + 1] - PathBound[Now] \in Nat
    <3>1. Now \in 0..LastTime /\ Now + 1 \in Now..LastTime
      BY <1>2 DEF BeliefInv, History
    <3> QED
      BY <3>1, PathGrows
  <2>2. OnGraph(r)
    <3>1. OnGraph(truth[Now])
      BY <1>2 DEF BeliefInv, History
    <3> QED
      BY <2>1, <3>1, StaysOnGraph
  <2>3. \A t \in 0..Now' : OnGraph(truth'[t])
    <3>1. \A t \in 0..Now : OnGraph(truth'[t])
      BY <1>4 DEF BeliefInv, History
    <3>2. OnGraph(truth'[Now + 1])
      BY <1>4, <2>2
    <3>3. \A t \in 0..Now' : t \in 0..Now \/ t = Now + 1
      BY <1>2, <1>3
    <3> QED
      BY <3>1, <3>2, <3>3
  <2>4. \A t \in 1..Now' : truth'[t] \in Within(truth'[t - 1], PathBound[t] - PathBound[t - 1])
    <3>1. SUFFICES ASSUME NEW t \in 1..Now'
                   PROVE  truth'[t] \in Within(truth'[t - 1], PathBound[t] - PathBound[t - 1])
      OBVIOUS
    <3>2. t - 1 \in 0..Now /\ t \in Nat
      BY <1>2, <1>3
    <3>3. truth'[t - 1] = truth[t - 1]
      BY <1>4, <3>2
    <3>4. CASE t = Now + 1
      <4>1. t - 1 = Now
        BY <1>2, <3>4
      <4> QED
        BY <1>4, <3>3, <3>4, <4>1
    <3>5. CASE t # Now + 1
      <4>1. t \in 1..Now
        BY <1>2, <1>3, <3>1, <3>5
      <4>2. truth[t] \in Within(truth[t - 1], PathBound[t] - PathBound[t - 1])
        BY <4>1 DEF BeliefInv, History
      <4>3. truth'[t] = truth[t]
        BY <1>4, <4>1
      <4> QED
        BY <3>3, <4>2, <4>3
    <3> QED
      BY <3>4, <3>5
  <2> QED
    BY <1>2, <1>3, <2>3, <2>4 DEF History
<1>6. belief.current \in 0..Now
  BY DEF BeliefInv, Belief
<1>7. Belief(belief)'
  BY <1>2, <1>3, <1>6 DEF BeliefInv, Belief
<1>8. Supports(belief) => Supports(belief)'
  <2>1. \A t \in 0..belief.current : truth'[t] = truth[t]
    BY <1>2, <1>4, <1>6
  <2>2. truth'[belief.current] = truth[belief.current]
    BY <1>4, <1>6
  <2>3. OffLoops(belief.current)' => OffLoops(belief.current)
    BY <1>2, <2>1 DEF OffLoops, OnLoop
  <2>4. Seen(belief) => Seen(belief)'
    BY <1>2, <2>2 DEF Seen
  <2> QED
    BY <2>3, <2>4 DEF Supports
<1> QED
  BY <1>2, <1>5, <1>7, <1>8 DEF BeliefInv

(* A step that changes the belief alone.                                   *)
LEMMA NewBelief ==
    ASSUME BeliefInv, truth' = truth, NEW b, belief' = b, Belief(b),
           ~fine' => Supports(b)
    PROVE  BeliefInv'
<1>1. Now' = Now
  BY DEF Now
<1>2. History'
  BY <1>1 DEF BeliefInv, History
<1>3. Belief(belief)'
  BY <1>1 DEF Belief
<1>4. Supports(b) => Supports(belief)'
  BY DEF Supports, Seen, OffLoops
<1> QED
  BY <1>2, <1>3, <1>4 DEF BeliefInv

(* Whoever has kept off the loops up to now has done so before.            *)
LEMMA SupportsIf ==
    ASSUME NEW b, NEW p, NEW t, b.current \in Nat, t \in Nat, b.current <= t, p.current = t,
           Supports(b), Seen(b) /\ ~OnLoop(truth[t].at) => Seen(p)
    PROVE  Supports(p)
<1>1. SUFFICES ASSUME OffLoops(t) PROVE Seen(p)
  BY DEF Supports
<1>2. \A i \in 0..b.current : i \in 0..t
  OBVIOUS
<1>3. OffLoops(b.current)
  BY <1>1, <1>2 DEF OffLoops
<1>4. ~OnLoop(truth[t].at)
  BY <1>1 DEF OffLoops
<1> QED
  BY <1>3, <1>4 DEF Supports

LEMMA BeliefInvIsInductive ==
    ASSUME BeliefInv, [BeliefNext]_beliefVars
    PROVE  BeliefInv'
<1>0. /\ History /\ Belief(belief) /\ (~fine => Supports(belief))
      /\ belief.current \in Nat /\ Now \in Nat
  BY GraphFacts DEF BeliefInv, Belief, History
<1>1. CASE Move
  BY <1>1, MovePreserves
<1>2. ASSUME NEW t \in 0..Now, PropagateTo(t)
      PROVE  BeliefInv'
  <2> DEFINE p == Propagate(belief, t)
  <2>1. t \in belief.current..Now /\ t \in Nat /\ belief.current <= t
    BY <1>0, <1>2 DEF PropagateTo
  <2>2. Belief(p) /\ p.current = t /\ (Seen(belief) /\ ~OnLoop(truth[t].at) => Seen(p))
    BY <1>0, <2>1, PropagateSupports
  <2>3. belief' = p /\ truth' = truth /\ fine' = fine
    BY <1>2 DEF PropagateTo
  <2> HIDE DEF p
  <2>4. Supports(belief) => Supports(p)
    BY <1>0, <2>1, <2>2, SupportsIf
  <2> QED
    BY <1>0, <2>2, <2>3, <2>4, NewBelief
<1>3. ASSUME NEW t \in 0..Now, NEW o \in Observations(t), ObserveNothing(o)
      PROVE  BeliefInv'
  <2> DEFINE p == AfterNegative(belief, o)
  <2>1. /\ Honest(o) /\ truth' = truth /\ fine' = fine
        /\ belief' = IF Accepted(belief, o) THEN p ELSE belief
    BY <1>3 DEF ObserveNothing
  <2> HIDE DEF p
  <2>2. CASE Accepted(belief, o)
    <3>1. /\ Belief(p) /\ p.current = t /\ belief.current <= t
          /\ Seen(belief) /\ ~OnLoop(truth[t].at) => Seen(p)
      BY <1>0, <2>1, <2>2, NegativeSupports DEF p
    <3>2. t \in Nat
      BY <1>0
    <3>3. Supports(belief) => Supports(p)
      BY <1>0, <3>1, <3>2, SupportsIf
    <3> QED
      BY <1>0, <2>1, <2>2, <3>1, <3>3, NewBelief
  <2>3. CASE ~Accepted(belief, o)
    BY <1>0, <2>1, <2>3, NewBelief
  <2> QED
    BY <2>2, <2>3
<1>4. ASSUME NEW t \in 0..Now, NEW ours \in BOOLEAN, NEW m \in Measurements,
             Reacquire(t, ours, m)
      PROVE  BeliefInv'
  <2> DEFINE p == AfterMeasurement(belief, t, m)
             finer == FinerThan(m, Propagate(belief, t).cells)
             news == ours /\ t >= belief.current /\ t > belief.measured
  <2>1. /\ HonestMeasurement(m, t) /\ truth' = truth
        /\ news => belief' = p /\ fine' = (fine \/ finer)
        /\ ~news => belief' = belief /\ fine' = fine
    BY <1>4 DEF Reacquire
  <2>2. CASE news
    <3>1. t \in belief.current..Now /\ t \in Nat /\ belief.current <= t
      BY <1>0, <2>2
    <3>2. /\ Belief(p) /\ p.current = t
          /\ Seen(belief) /\ ~OnLoop(truth[t].at) /\ ~finer => Seen(p)
      BY <1>0, <2>1, <3>1, MeasurementSupports
    <3> HIDE DEF p, finer
    <3>3. Supports(belief) /\ ~finer => Supports(p)
      BY <1>0, <3>1, <3>2, SupportsIf
    <3> QED
      BY <1>0, <2>1, <2>2, <3>2, <3>3, NewBelief
  <2>3. CASE ~news
    BY <1>0, <2>1, <2>3, NewBelief
  <2> QED
    BY <2>2, <2>3
<1>5. CASE UNCHANGED beliefVars
  BY <1>0, <1>5, NewBelief DEF beliefVars
<1> QED
  BY <1>1, <1>2, <1>3, <1>4, <1>5 DEF BeliefNext

(* For every graph, with loops or without, every bound on the speed of the *)
(* rival, every way it moves, leaves and comes back, and every order in    *)
(* which the belief is propagated, told of empty scans and of              *)
(* measurements, late or twice: the belief is never wrong about where a    *)
(* rival is that has kept off the loops, unless a measurement was finer    *)
(* than the cells it was compared with.                                    *)
THEOREM BeliefCorrect == BeliefSpec => []SupportContainsRival
<1>1. BeliefInv => SupportContainsRival
  <2>1. SUFFICES ASSUME BeliefInv, OffLoops(belief.current), ~fine
                 PROVE  IF truth[belief.current].way = "LEFT" THEN belief.unknown
                        ELSE Covers(belief.cells, truth[belief.current].at)
    BY DEF SupportContainsRival, RivalIsReached, OffLoops
  <2>2. Seen(belief)
    BY <2>1 DEF BeliefInv, Supports
  <2>3. \A p : Located(belief.cells, p) => Covers(belief.cells, p)
    BY DEF Located, Covers
  <2> QED
    BY <2>2, <2>3 DEF Seen
<1> QED
  BY <1>1, BeliefStart, BeliefInvIsInductive, PTL DEF BeliefSpec

-----------------------------------------------------------------------------
(* Routes.                                                                 *)

LEMMA MaxIs ==
    ASSUME NEW n \in Nat, NEW s \in SUBSET (1..(n + 1)), n + 1 \in s
    PROVE  Max(s) = n + 1
<1>1. \A y \in s : y \in Nat /\ y <= n + 1
  OBVIOUS
<1>2. \A x \in s : (\A y \in s : x >= y) <=> x = n + 1
  BY <1>1
<1>3. (CHOOSE x \in s : \A y \in s : x >= y) = n + 1
  BY <1>2
<1> QED
  BY <1>3 DEF Max

(* Where a search for a route may begin, and the trees of one graph.       *)
AnyStart == UNION {{StartsFrom[g][pose][i] : i \in 1..Cardinality(NodeIds)} :
                   g \in GraphNames, pose \in Poses}
TreesOf(g) == [start : AnyStart, of : {g}]

LEMMA StartsAre ==
    ASSUME NEW g \in GraphNames, NEW pose \in Poses
    PROVE  /\ DOMAIN StartsFrom[g][pose] = 1..Cardinality(NodeIds)
           /\ Cardinality(NodeIds) \in Nat
           /\ \A i \in 1..Cardinality(NodeIds) : StartsFrom[g][pose][i] \in AnyStart
<1>1. Cardinality(NodeIds) \in Nat
  BY FS_CardinalityType, ReuseAssumption
<1>2. DOMAIN StartsFrom[g][pose] = 1..Cardinality(NodeIds)
  BY DEF StartsFrom
<1>3. ASSUME NEW i \in 1..Cardinality(NodeIds) PROVE StartsFrom[g][pose][i] \in AnyStart
  <2> DEFINE At(h, p) == {StartsFrom[h][p][j] : j \in 1..Cardinality(NodeIds)}
  <2>1. StartsFrom[g][pose][i] \in At(g, pose)
    OBVIOUS
  <2> HIDE DEF At
  <2>2. StartsFrom[g][pose][i] \in UNION {At(h, p) : h \in GraphNames, p \in Poses}
    BY <2>1
  <2> QED
    BY <2>2 DEF AnyStart, At
<1> QED
  BY <1>1, <1>2, <1>3

(* The trees kept are all of the graph they were computed for.             *)
LEMMA TreeIs ==
    ASSUME NEW g, NEW trees \in Seq(TreesOf(g)), NEW start \in AnyStart
    PROVE  /\ TreeFor(trees, g, start) \in TreesOf(g)
           /\ TreeFor(trees, g, start).start = start /\ TreeFor(trees, g, start).of = g
<1> DEFINE kept == {t \in ToSet(trees) : t.start = start}
<1>1. \A t \in kept : t \in TreesOf(g) /\ t.start = start
  <2>1. \A t \in ToSet(trees) : t \in TreesOf(g)
    BY DEF ToSet
  <2> QED
    BY <2>1
<1>2. CASE kept = {}
  <2>1. TreeFor(trees, g, start) = [start |-> start, of |-> g]
    BY <1>2 DEF TreeFor
  <2> QED
    BY <2>1 DEF TreesOf
<1>3. CASE kept # {}
  <2>1. TreeFor(trees, g, start) = CHOOSE t \in kept : TRUE
    BY <1>3 DEF TreeFor
  <2> HIDE DEF kept
  <2>2. (CHOOSE t \in kept : TRUE) \in kept
    BY <1>3
  <2>3. TreeFor(trees, g, start) \in TreesOf(g) /\ TreeFor(trees, g, start).start = start
    BY <1>1, <2>1, <2>2
  <2> QED
    BY <2>3 DEF TreesOf
<1> QED
  BY <1>2, <1>3

LEMMA WithoutKeeps ==
    ASSUME NEW S, NEW trees \in Seq(S), NEW start
    PROVE  Without(trees, start) \in Seq(S)
<1> DEFINE places == {i \in DOMAIN trees : trees[i].start = start}
<1>1. CASE places = {}
  BY <1>1 DEF Without
<1>2. CASE places # {}
  <2>1. places \subseteq 1..Len(trees)
    OBVIOUS
  <2>2. Without(trees, start) = RemoveAt(trees, Min(places))
    BY <1>2 DEF Without
  <2> HIDE DEF places
  <2>3. PICK i \in places : \A j \in places : i <= j
    BY <1>2, <2>1, LeastNumber
  <2>4. Min(places) \in places
    BY <2>3 DEF Min
  <2> DEFINE k == Min(places)
  <2>5. k \in 1..Len(trees)
    BY <2>1, <2>4
  <2> HIDE DEF k
  <2>6. SubSeq(trees, 1, k - 1) \in Seq(S)
    <3>1. \A j \in 1..(k - 1) : trees[j] \in S
      BY <2>5
    <3> QED
      BY <2>5, <3>1, SubSeqProperties
  <2>7. SubSeq(trees, k + 1, Len(trees)) \in Seq(S)
    <3>1. \A j \in (k + 1)..Len(trees) : trees[j] \in S
      BY <2>5
    <3> QED
      BY <2>5, <3>1, SubSeqProperties
  <2>8. RemoveAt(trees, k) \in Seq(S)
    BY <2>6, <2>7, ConcatProperties DEF RemoveAt
  <2> QED
    BY <2>2, <2>8 DEF k
<1> QED
  BY <1>1, <1>2

LEMMA UsedKeeps ==
    ASSUME NEW S, NEW trees \in Seq(S), NEW tree \in S
    PROVE  Used(trees, tree) \in Seq(S)
<1> DEFINE all == Append(Without(trees, tree.start), tree)
           first == Greater(1, Len(all) - TreeLimit + 1)
<1>1. all \in Seq(S)
  BY WithoutKeeps, AppendProperties
<1>2. Used(trees, tree) = SubSeq(all, first, Len(all))
  BY DEF Used
<1> HIDE DEF all
<1>3. first \in Nat /\ first >= 1
  BY <1>1, ReuseAssumption DEF Greater
<1> HIDE DEF first
<1>4. \A i \in first..Len(all) : all[i] \in S
  BY <1>1, <1>3
<1> QED
  BY <1>1, <1>2, <1>3, <1>4, SubSeqProperties

(* One start, whichever trees of the right graph there are.                *)
PathFrom(f, n, start) == RouteFromPose(f, f.graph, Tree[f.graph][start][n])

LEMMA TryIs ==
    ASSUME NEW f, NEW n, NEW progress, progress.trees \in Seq(TreesOf(f.graph)),
           NEW start \in AnyStart
    PROVE  /\ TryStart(f, n, progress, start).trees \in Seq(TreesOf(f.graph))
           /\ TryStart(f, n, progress, start).path =
                 IF progress.path # None THEN progress.path ELSE PathFrom(f, n, start)
<1>1. CASE progress.path # None
  BY <1>1 DEF TryStart
<1>2. CASE progress.path = None
  <2> DEFINE tree == TreeFor(progress.trees, f.graph, start)
  <2>1. TryStart(f, n, progress, start) =
          [trees |-> Used(progress.trees, tree), path |-> Attempt(f, tree, n)]
    BY <1>2 DEF TryStart
  <2>2. tree \in TreesOf(f.graph) /\ tree.start = start /\ tree.of = f.graph
    BY TreeIs
  <2> HIDE DEF tree
  <2>3. Used(progress.trees, tree) \in Seq(TreesOf(f.graph))
    BY <2>2, UsedKeeps
  <2>4. Attempt(f, tree, n) = PathFrom(f, n, start)
    BY <2>2 DEF Attempt, PathFrom
  <2> QED
    BY <1>2, <2>1, <2>3, <2>4
<1> QED
  BY <1>1, <1>2

(* The fold over the starts, by the set of those that were tried.          *)
TryRule(f, n, trees, starts, tried, s) ==
    IF s = {} THEN [trees |-> trees, path |-> None]
    ELSE TryStart(f, n, tried[s \ {Max(s)}], starts[Max(s)])

Tries(f, n, trees, starts) ==
    CHOOSE tried : tried = [s \in SUBSET (DOMAIN starts) |-> TryRule(f, n, trees, starts, tried, s)]

LEMMA TryAllIs ==
    \A f, n, trees, starts :
        TryAll(f, n, trees, starts) = Tries(f, n, trees, starts)[DOMAIN starts]
  BY DEF TryAll, FoldLeft, MapThenFoldSet, Tries, TryRule

LEMMA TriesExist ==
    ASSUME NEW f, NEW n, NEW trees, NEW starts, NEW count \in Nat
    PROVE  \E tried : tried = [s \in SUBSET (1..count) |-> TryRule(f, n, trees, starts, tried, s)]
<1> DEFINE Good(k) ==
             \E tried : tried = [s \in SUBSET (1..k) |-> TryRule(f, n, trees, starts, tried, s)]
           Bad == {k \in Nat : ~Good(k)}
<1>1. SUFFICES ASSUME Bad # {} PROVE FALSE
  BY <1>1
<1>2. PICK k \in Bad : \A y \in Bad : k <= y
  BY <1>1, LeastNumber
<1> DEFINE base == [trees |-> trees, path |-> None]
<1>3. k # 0
  <2> DEFINE tried == [s \in SUBSET (1..0) |-> base]
  <2>1. \A s \in SUBSET (1..0) : s = {}
    OBVIOUS
  <2>2. \A s \in SUBSET (1..0) : TryRule(f, n, trees, starts, tried, s) = base
    BY <2>1 DEF TryRule
  <2>3. tried = [s \in SUBSET (1..0) |-> tried[s]] /\ \A s \in SUBSET (1..0) : tried[s] = base
    OBVIOUS
  <2> HIDE DEF tried, base
  <2>4. tried = [s \in SUBSET (1..0) |-> TryRule(f, n, trees, starts, tried, s)]
    BY <2>2, <2>3
  <2>5. Good(0)
    BY <2>4
  <2> QED
    BY <1>2, <2>5
<1> DEFINE m == k - 1
<1>4. m \in Nat /\ m \notin Bad /\ m + 1 = k
  <2>1. k \in Nat /\ m \in Nat /\ m < k /\ m + 1 = k
    BY <1>2, <1>3
  <2> HIDE DEF m
  <2>2. ~(k <= m)
    BY <2>1
  <2> HIDE DEF Bad
  <2> QED
    BY <1>2, <2>1, <2>2
<1> HIDE DEF m
<1>5. PICK b : b = [s \in SUBSET (1..m) |-> TryRule(f, n, trees, starts, b, s)]
  BY <1>4
<1> DEFINE g == [s \in SUBSET (1..k) |->
                    IF k \in s THEN TryStart(f, n, b[s \ {k}], starts[k]) ELSE b[s]]
<1>6. ASSUME NEW s \in SUBSET (1..k) PROVE g[s] = TryRule(f, n, trees, starts, g, s)
  <2>1. CASE k \in s
    <3>1. Max(s) = k
      BY <1>4, <2>1, MaxIs
    <3>2. s \ {k} \in SUBSET (1..k) /\ k \notin s \ {k} /\ s # {}
      BY <2>1
    <3>3. g[s \ {k}] = b[s \ {k}]
      BY <3>2
    <3>4. g[s] = TryStart(f, n, b[s \ {k}], starts[k])
      BY <2>1
    <3> HIDE DEF g
    <3> QED
      BY <3>1, <3>2, <3>3, <3>4 DEF TryRule
  <2>2. CASE k \notin s
    <3>1. s \in SUBSET (1..m)
      BY <1>4, <2>2
    <3>2. g[s] = b[s] /\ b[s] = TryRule(f, n, trees, starts, b, s)
      BY <1>5, <2>2, <3>1
    <3>3. g[s \ {Max(s)}] = b[s \ {Max(s)}]
      <4>1. s \ {Max(s)} \in SUBSET (1..k) /\ k \notin s \ {Max(s)}
        BY <2>2
      <4> QED
        BY <4>1
    <3> HIDE DEF g
    <3> QED
      BY <3>2, <3>3 DEF TryRule
  <2> QED
    BY <2>1, <2>2
<1>7. g = [s \in SUBSET (1..k) |-> g[s]]
  OBVIOUS
<1> HIDE DEF g
<1>8. g = [s \in SUBSET (1..k) |-> TryRule(f, n, trees, starts, g, s)]
  BY <1>6, <1>7
<1>9. Good(k)
  BY <1>8
<1> QED
  BY <1>2, <1>9

(* Nothing tried yet, and the step that tries the k-th start.              *)
NotTried(trees) == [trees |-> trees, path |-> None]
TryNext(f, n, starts, tried, k) == TryStart(f, n, tried[1..(k - 1)], starts[k])

LEMMA TrySteps ==
    ASSUME NEW f, NEW n, NEW trees, NEW starts, NEW count \in Nat, DOMAIN starts = 1..count
    PROVE  /\ Tries(f, n, trees, starts)[1..0] = NotTried(trees)
           /\ \A k \in 1..count :
                 Tries(f, n, trees, starts)[1..k] =
                    TryNext(f, n, starts, Tries(f, n, trees, starts), k)
<1> DEFINE tried == Tries(f, n, trees, starts)
<1>1. tried = [s \in SUBSET (1..count) |-> TryRule(f, n, trees, starts, tried, s)]
  BY TriesExist DEF Tries
<1> HIDE DEF tried
<1>2. \A s \in SUBSET (1..count) : tried[s] = TryRule(f, n, trees, starts, tried, s)
  BY <1>1
<1>3. tried[1..0] = NotTried(trees)
  <2>1. 1..0 \in SUBSET (1..count) /\ 1..0 = {}
    OBVIOUS
  <2> QED
    BY <1>2, <2>1 DEF TryRule, NotTried
<1>4. ASSUME NEW k \in 1..count
      PROVE  tried[1..k] = TryNext(f, n, starts, tried, k)
  <2>1. k - 1 \in Nat /\ (k - 1) + 1 = k
    OBVIOUS
  <2>2. 1..k \in SUBSET (1..count) /\ k \in 1..k /\ 1..k # {}
    <3>1. k \in Nat /\ k >= 1 /\ k <= count
      OBVIOUS
    <3>2. \A i \in 1..k : i \in 1..count
      BY <3>1
    <3>3. k \in 1..k
      BY <3>1
    <3> QED
      BY <3>2, <3>3
  <2>3. Max(1..k) = k
    <3>1. 1..k \in SUBSET (1..((k - 1) + 1)) /\ (k - 1) + 1 \in 1..k
      BY <2>1
    <3> QED
      BY <2>1, <3>1, MaxIs
  <2>4. (1..k) \ {k} = 1..(k - 1)
    OBVIOUS
  <2>5. tried[1..k] = TryRule(f, n, trees, starts, tried, 1..k)
    BY <1>2, <2>2
  <2> QED
    BY <2>2, <2>3, <2>4, <2>5 DEF TryRule, TryNext
<1> QED
  BY <1>3, <1>4 DEF tried

(* What is found does not depend on the trees there were.                  *)
LEMMA TriesAgree ==
    ASSUME NEW f, NEW n, NEW starts, NEW count \in Nat, DOMAIN starts = 1..count,
           \A i \in 1..count : starts[i] \in AnyStart,
           NEW one \in Seq(TreesOf(f.graph)), NEW other \in Seq(TreesOf(f.graph))
    PROVE  /\ TryAll(f, n, one, starts).path = TryAll(f, n, other, starts).path
           /\ TryAll(f, n, one, starts).trees \in Seq(TreesOf(f.graph))
<1> DEFINE A == Tries(f, n, one, starts)
           B == Tries(f, n, other, starts)
           Good(k) == /\ A[1..k].trees \in Seq(TreesOf(f.graph))
                      /\ B[1..k].trees \in Seq(TreesOf(f.graph))
                      /\ A[1..k].path = B[1..k].path
           Bad == {k \in 0..count : ~Good(k)}
<1>1. /\ DOMAIN starts = 1..count /\ count \in Nat
      /\ \A i \in 1..count : starts[i] \in AnyStart
  OBVIOUS
<1>2. /\ A[1..0] = NotTried(one) /\ B[1..0] = NotTried(other)
      /\ \A k \in 1..count : /\ A[1..k] = TryNext(f, n, starts, A, k)
                             /\ B[1..k] = TryNext(f, n, starts, B, k)
  BY TrySteps
<1>3. TryAll(f, n, one, starts) = A[1..count] /\ TryAll(f, n, other, starts) = B[1..count]
  BY <1>1, TryAllIs
<1> HIDE DEF A, B
<1>4. Bad = {}
  <2>1. SUFFICES ASSUME Bad # {} PROVE FALSE
    OBVIOUS
  <2>2. Bad \in SUBSET Nat
    BY <1>1
  <2>3. PICK k \in Bad : \A y \in Bad : k <= y
    BY <2>1, <2>2, LeastNumber
  <2>4. k \in 0..count /\ ~Good(k)
    BY <2>3
  <2>5. k # 0
    BY <1>2, <2>4 DEF NotTried
  <2>6. k \in 1..count /\ k - 1 \in 0..count /\ k - 1 \notin Bad
    <3>1. k \in 1..count /\ k - 1 \in 0..count /\ ~(k <= k - 1)
      <4> HIDE DEF Bad, Good
      <4> QED
        BY <1>1, <2>4, <2>5
    <3> HIDE DEF Bad
    <3> QED
      BY <2>3, <3>1
  <2>7. Good(k - 1)
    BY <2>6
  <2>8. starts[k] \in AnyStart
    BY <1>1, <2>6
  <2>9. /\ A[1..k] = TryStart(f, n, A[1..(k - 1)], starts[k])
        /\ B[1..k] = TryStart(f, n, B[1..(k - 1)], starts[k])
    BY <1>2, <2>6 DEF TryNext
  <2>10. Good(k)
    <3> DEFINE a == A[1..(k - 1)]  b == B[1..(k - 1)]
    <3>1. /\ a.trees \in Seq(TreesOf(f.graph)) /\ b.trees \in Seq(TreesOf(f.graph))
          /\ a.path = b.path
      BY <2>7
    <3>2. A[1..k] = TryStart(f, n, a, starts[k]) /\ B[1..k] = TryStart(f, n, b, starts[k])
      BY <2>9
    <3> HIDE DEF a, b
    <3>3. /\ A[1..k].trees \in Seq(TreesOf(f.graph))
          /\ A[1..k].path = IF a.path # None THEN a.path ELSE PathFrom(f, n, starts[k])
      BY <2>8, <3>1, <3>2, TryIs
    <3>4. /\ B[1..k].trees \in Seq(TreesOf(f.graph))
          /\ B[1..k].path = IF b.path # None THEN b.path ELSE PathFrom(f, n, starts[k])
      BY <2>8, <3>1, <3>2, TryIs
    <3> QED
      BY <3>1, <3>3, <3>4
  <2> QED
    BY <2>4, <2>10
<1>5. Good(count)
  BY <1>1, <1>4
<1> QED
  BY <1>3, <1>5

-----------------------------------------------------------------------------
(* The trees kept are of the graph that is remembered, and the starts are  *)
(* sorted for the frame they are stamped with.                             *)
Kept(memory) ==
    /\ memory = [graph |-> memory.graph, trees |-> memory.trees, stamp |-> memory.stamp,
                 starts |-> memory.starts]
    /\ memory.trees \in Seq(TreesOf(memory.graph))

SortedFor(memory, f) ==
    memory.stamp = f.stamp => memory.graph = f.graph /\ memory.starts = StartsFrom[f.graph][f.pose]

ReuseInv ==
    /\ frame.stamp \in Nat
    /\ frame.stamp > 0 => frame.graph \in GraphNames /\ frame.pose \in Poses
    /\ Kept(routes)
    /\ routes.stamp = None \/ (routes.stamp \in Nat /\ routes.stamp <= frame.stamp)
    /\ SortedFor(routes, frame)
    /\ AnswerIsFresh

(* How a call begins.                                                      *)
Begun(memory, f) == Sorted(Remembered(memory, f.graph), f)

LEMMA BegunIs ==
    ASSUME NEW memory, NEW f, f.stamp \in Nat, Kept(memory), SortedFor(memory, f)
    PROVE  /\ Kept(Begun(memory, f))
           /\ Begun(memory, f).graph = f.graph /\ Begun(memory, f).stamp = f.stamp
           /\ Begun(memory, f).starts = StartsFrom[f.graph][f.pose]
<1> DEFINE r == Remembered(memory, f.graph)
<1>1. f.stamp # None
  BY ReuseAssumption
<1>2. Kept(r) /\ r.graph = f.graph /\ SortedFor(r, f)
  <2>1. CASE memory.graph = f.graph
    BY <2>1 DEF Remembered
  <2>2. CASE memory.graph # f.graph
    <3>1. r = [graph |-> f.graph, trees |-> <<>>, stamp |-> None, starts |-> <<>>]
      BY <2>2 DEF Remembered, Forgotten
    <3> QED
      BY <1>1, <3>1 DEF Kept, SortedFor
  <2> QED
    BY <2>1, <2>2
<1>3. Begun(memory, f) = Sorted(r, f)
  BY DEF Begun
<1> HIDE DEF r
<1>4. CASE r.stamp = f.stamp
  BY <1>2, <1>3, <1>4 DEF Sorted, SortedFor
<1>5. CASE r.stamp # f.stamp
  <2>1. Sorted(r, f) = [graph |-> r.graph, trees |-> r.trees, stamp |-> f.stamp,
                        starts |-> StartsFrom[f.graph][f.pose]]
    BY <1>2, <1>5 DEF Sorted, Kept
  <2> QED
    BY <1>2, <1>3, <2>1 DEF Kept
<1> QED
  BY <1>4, <1>5

(* What a call finds, and what it keeps.                                   *)
LEMMA FoundIs ==
    ASSUME NEW memory, NEW f, f.stamp \in Nat, f.graph \in GraphNames, f.pose \in Poses, NEW n,
           Kept(memory), SortedFor(memory, f)
    PROVE  /\ PathToNode(memory, f, n).path = PathToNode(Forgotten, f, n).path
           /\ Kept(PathToNode(memory, f, n).memory)
           /\ PathToNode(memory, f, n).memory.stamp = f.stamp
           /\ SortedFor(PathToNode(memory, f, n).memory, f)
<1> DEFINE m == Begun(memory, f)
           w == Begun(Forgotten, f)
           starts == StartsFrom[f.graph][f.pose]
<1>1. Kept(Forgotten) /\ SortedFor(Forgotten, f)
  BY ReuseAssumption DEF Kept, SortedFor, Forgotten
<1>2. /\ Kept(m) /\ m.graph = f.graph /\ m.stamp = f.stamp /\ m.starts = starts
      /\ Kept(w) /\ w.graph = f.graph /\ w.starts = starts
  BY <1>1, BegunIs
<1>3. /\ PathToNode(memory, f, n) =
           [memory |-> [m EXCEPT !.trees = TryAll(f, n, m.trees, m.starts).trees],
            path |-> TryAll(f, n, m.trees, m.starts).path]
      /\ PathToNode(Forgotten, f, n) =
           [memory |-> [w EXCEPT !.trees = TryAll(f, n, w.trees, w.starts).trees],
            path |-> TryAll(f, n, w.trees, w.starts).path]
  BY DEF PathToNode, Begun
<1> HIDE DEF m, w, starts
<1>4. m.trees \in Seq(TreesOf(f.graph)) /\ w.trees \in Seq(TreesOf(f.graph))
  BY <1>2 DEF Kept
<1>5. /\ TryAll(f, n, m.trees, starts).path = TryAll(f, n, w.trees, starts).path
      /\ TryAll(f, n, m.trees, starts).trees \in Seq(TreesOf(f.graph))
  BY <1>4, StartsAre, TriesAgree DEF starts
<1> DEFINE kept == PathToNode(memory, f, n).memory
<1>6. kept = [graph |-> f.graph, trees |-> TryAll(f, n, m.trees, starts).trees,
              stamp |-> f.stamp, starts |-> starts]
  BY <1>2, <1>3 DEF Kept
<1>7. PathToNode(memory, f, n).path = PathToNode(Forgotten, f, n).path
  BY <1>2, <1>3, <1>5
<1> HIDE DEF kept
<1>8. Kept(kept) /\ kept.stamp = f.stamp /\ SortedFor(kept, f)
  BY <1>5, <1>6 DEF Kept, SortedFor, starts
<1> QED
  BY <1>7, <1>8 DEF kept

LEMMA ReuseStart ==
    ASSUME ReuseInit
    PROVE  ReuseInv
<1>1. /\ frame.stamp = 0 /\ answer = None
      /\ routes = [graph |-> None, trees |-> <<>>, stamp |-> None, starts |-> <<>>]
  BY DEF ReuseInit, Forgotten
<1>2. None # 0
  BY ReuseAssumption
<1> QED
  BY <1>1, <1>2 DEF ReuseInv, Kept, SortedFor, AnswerIsFresh

LEMMA ReuseInvIsInductive ==
    ASSUME ReuseInv, [ReuseNext]_reuseVars
    PROVE  ReuseInv'
<1>1. CASE UNCHANGED reuseVars
  BY <1>1 DEF ReuseInv, Kept, SortedFor, AnswerIsFresh, reuseVars
<1>2. ASSUME NEW g \in GraphNames, NEW pose \in Poses, NextFrame(g, pose)
      PROVE  ReuseInv'
  <2>1. /\ frame' = [graph |-> g, pose |-> pose, stamp |-> frame.stamp + 1]
        /\ routes' = routes /\ answer' = answer
    BY <1>2 DEF NextFrame
  <2>2. /\ frame'.graph = g /\ frame'.pose = pose /\ frame'.stamp = frame.stamp + 1
        /\ frame.stamp \in Nat
    BY <2>1 DEF ReuseInv
  <2>3. routes.stamp # frame'.stamp
    <3>1. frame'.stamp \in Nat
      BY <2>2
    <3> QED
      BY <2>2, <3>1, ReuseAssumption DEF ReuseInv
  <2>4. (routes.stamp = None \/ (routes.stamp \in Nat /\ routes.stamp <= frame'.stamp))
    BY <2>2 DEF ReuseInv
  <2> QED
    BY <2>1, <2>2, <2>3, <2>4 DEF ReuseInv, Kept, SortedFor, AnswerIsFresh
<1>3. ASSUME NEW n \in NodeIds, FindPath(n)
      PROVE  ReuseInv'
  <2> DEFINE found == PathToNode(routes, frame, n)
  <2>1. /\ frame.stamp > 0 /\ frame' = frame /\ routes' = found.memory
        /\ answer' = [to |-> n, in |-> frame, path |-> found.path]
    BY <1>3 DEF FindPath
  <2>2. /\ frame.stamp \in Nat /\ frame.graph \in GraphNames /\ frame.pose \in Poses
        /\ Kept(routes) /\ SortedFor(routes, frame)
    BY <2>1 DEF ReuseInv
  <2>3. /\ found.path = PathToNode(Forgotten, frame, n).path
        /\ Kept(found.memory) /\ found.memory.stamp = frame.stamp
        /\ SortedFor(found.memory, frame)
    BY <2>2, FoundIs
  <2> HIDE DEF found
  <2>4. answer'.to = n /\ answer'.in = frame /\ answer'.path = found.path
    BY <2>1
  <2>5. AnswerIsFresh'
    BY <2>3, <2>4 DEF AnswerIsFresh
  <2> QED
    BY <2>1, <2>2, <2>3, <2>5 DEF ReuseInv, Kept, SortedFor
<1>4. CASE ForgetRoutes
  <2>1. /\ routes' = [graph |-> None, trees |-> <<>>, stamp |-> None, starts |-> <<>>]
        /\ frame' = frame /\ answer' = answer
    BY <1>4 DEF ForgetRoutes, Forgotten
  <2>2. frame.stamp # None
    BY ReuseAssumption DEF ReuseInv
  <2> QED
    BY <2>1, <2>2 DEF ReuseInv, Kept, SortedFor, AnswerIsFresh
<1> QED
  BY <1>1, <1>2, <1>3, <1>4 DEF ReuseNext

(* For any number of nodes and graphs, any poses and any bound on the      *)
(* trees that are kept, a path is what it would be if nothing were kept.   *)
THEOREM AnswersAreFresh == ReuseSpec => []AnswerIsFresh
<1>1. ReuseInv => AnswerIsFresh
  BY DEF ReuseInv
<1> QED
  BY <1>1, ReuseStart, ReuseInvIsInductive, PTL DEF ReuseSpec

-----------------------------------------------------------------------------
(* Sequences built from left to right.                                     *)

(* What holds of the empty sequence, and of every sequence with one more   *)
(* element than one it holds of, holds of all.                             *)
LEMMA SequencesGrow ==
    ASSUME NEW S, NEW Good, <<>> \in Good,
           \A s \in Seq(S), x \in S : s \in Good => Append(s, x) \in Good
    PROVE  \A s \in Seq(S) : s \in Good
<1> DEFINE Bad == {n \in Nat : \E s \in Seq(S) : Len(s) = n /\ s \notin Good}
<1>1. SUFFICES ASSUME Bad # {} PROVE FALSE
  <2>1. \A s \in Seq(S) : Len(s) \in Nat
    OBVIOUS
  <2> QED
    BY <2>1
<1>2. PICK n \in Bad : \A m \in Bad : n <= m
  BY <1>1, LeastNumber
<1>3. PICK s \in Seq(S) : Len(s) = n /\ s \notin Good
  BY <1>2
<1>4. s # <<>>
  BY <1>3
<1>5. PICK t \in Seq(S), x \in S : s = Append(t, x)
  BY <1>4, SequenceEmptyOrAppend
<1>6. Len(t) \in Nat /\ Len(t) + 1 = n /\ n \in Nat
  BY <1>3, <1>5
<1>7. t \in Good
  <2>1. Len(t) \notin Bad
    <3> HIDE DEF Bad
    <3> QED
      BY <1>2, <1>6
  <2> QED
    BY <1>6, <2>1
<1> QED
  BY <1>3, <1>5, <1>7

(* The same of numbers from a first to a last.                             *)
LEMMA NumbersGrow ==
    ASSUME NEW first \in Nat, NEW n \in Nat, NEW Good, first \in Good,
           \A k \in first..n : k # first /\ k - 1 \in Good => k \in Good
    PROVE  \A k \in first..n : k \in Good
<1> DEFINE Bad == {k \in first..n : k \notin Good}
<1>1. SUFFICES ASSUME Bad # {} PROVE FALSE
  OBVIOUS
<1>2. PICK k \in Bad : \A j \in Bad : k <= j
  <2>1. Bad \in SUBSET Nat
    OBVIOUS
  <2> QED
    BY <1>1, <2>1, LeastNumber
<1>3. k \in first..n /\ k \notin Good
  BY <1>2
<1>4. k - 1 \in first..n /\ ~(k <= k - 1) /\ k # first
  BY <1>3
<1>5. k - 1 \notin Bad
  <2> HIDE DEF Bad
  <2> QED
    BY <1>2, <1>4
<1> QED
  BY <1>3, <1>4, <1>5

(* The partial results of FlattenSeq.                                      *)
FlatRule(seqs, upTo, k) == IF k = 1 THEN seqs[k] ELSE upTo[k - 1] \o seqs[k]
IsFlat(seqs, upTo) == upTo = [k \in 1..Len(seqs) |-> FlatRule(seqs, upTo, k)]

LEMMA FlatExists ==
    ASSUME NEW S, NEW seqs \in Seq(S)
    PROVE  \E upTo : IsFlat(seqs, upTo)
<1> DEFINE Good == {s \in Seq(S) : \E upTo : IsFlat(s, upTo)}
<1>1. <<>> \in Good
  <2> DEFINE u == [k \in 1..0 |-> <<>>]
  <2>1. u = [k \in 1..0 |-> FlatRule(<<>>, u, k)]
    OBVIOUS
  <2> HIDE DEF u
  <2>2. IsFlat(<<>>, u)
    BY <2>1 DEF IsFlat
  <2> QED
    BY <2>2
<1>2. ASSUME NEW s \in Seq(S), NEW x \in S, s \in Good
      PROVE  Append(s, x) \in Good
  <2>1. PICK u : IsFlat(s, u)
    BY <1>2
  <2> DEFINE n == Len(s)
             t == Append(s, x)
             v == [k \in 1..(n + 1) |-> IF k = n + 1 THEN FlatRule(t, u, k) ELSE u[k]]
  <2>2. /\ n \in Nat /\ Len(t) = n + 1 /\ t \in Seq(S)
        /\ \A i \in 1..n : t[i] = s[i]
    OBVIOUS
  <2> HIDE DEF t
  <2>3. \A k \in 1..n : u[k] = FlatRule(s, u, k)
    BY <2>1 DEF IsFlat
  <2> HIDE DEF n
  <2>4. v[n + 1] = FlatRule(t, u, n + 1) /\ \A k \in 1..n : v[k] = u[k]
    BY <2>2
  <2>5. DOMAIN v = 1..(n + 1) /\ v = [k \in 1..(n + 1) |-> v[k]]
    OBVIOUS
  <2> HIDE DEF v
  <2>6. ASSUME NEW k \in 1..(n + 1) PROVE v[k] = FlatRule(t, v, k)
    <3>1. (k = 1 \/ k - 1 \in 1..n) /\ (k = n + 1 \/ k \in 1..n)
      BY <2>2
    <3>2. FlatRule(t, v, k) = FlatRule(t, u, k)
      BY <2>4, <3>1 DEF FlatRule
    <3>3. CASE k = n + 1
      BY <2>4, <3>2, <3>3
    <3>4. CASE k \in 1..n
      <4>1. FlatRule(t, u, k) = FlatRule(s, u, k)
        BY <2>2, <3>4 DEF FlatRule
      <4> QED
        BY <2>3, <2>4, <3>2, <3>4, <4>1
    <3> QED
      BY <3>1, <3>3, <3>4
  <2>7. IsFlat(t, v)
    BY <2>2, <2>5, <2>6 DEF IsFlat
  <2> QED
    BY <2>2, <2>7 DEF t
<1>3. seqs \in Good
  <2> HIDE DEF Good
  <2> QED
    BY <1>1, <1>2, SequencesGrow
<1> QED
  BY <1>3

LEMMA FlatStep ==
    ASSUME NEW S, NEW seqs \in Seq(S), NEW x \in S, NEW upTo, NEW longer,
           IsFlat(seqs, upTo), IsFlat(Append(seqs, x), longer), seqs # <<>>
    PROVE  longer[Len(seqs) + 1] = upTo[Len(seqs)] \o x
<1> DEFINE n == Len(seqs)
           next == Append(seqs, x)
<1>1. /\ n \in Nat /\ n >= 1 /\ Len(next) = n + 1 /\ next[n + 1] = x
      /\ \A i \in 1..n : next[i] = seqs[i]
  OBVIOUS
<1> HIDE DEF next
<1>2. /\ \A k \in 1..n : upTo[k] = FlatRule(seqs, upTo, k)
      /\ \A k \in 1..(n + 1) : longer[k] = FlatRule(next, longer, k)
  BY <1>1 DEF IsFlat, next
<1> HIDE DEF n
<1>3. \A k \in 1..n : longer[k] = upTo[k]
  <2>1. longer[1] = upTo[1]
    BY <1>1, <1>2 DEF FlatRule
  <2>2. ASSUME NEW k \in 1..n, k # 1, longer[k - 1] = upTo[k - 1]
        PROVE  longer[k] = upTo[k]
    <3>1. k \in 1..(n + 1) /\ k \in 1..n /\ next[k] = seqs[k]
      BY <1>1
    <3>2. longer[k] = FlatRule(next, longer, k) /\ upTo[k] = FlatRule(seqs, upTo, k)
      BY <1>2, <3>1
    <3> QED
      BY <2>2, <3>1, <3>2 DEF FlatRule
  <2> DEFINE Same == {k \in Nat : longer[k] = upTo[k]}
  <2>3. 1 \in Same /\ \A k \in 1..n : k # 1 /\ k - 1 \in Same => k \in Same
    BY <2>1, <2>2
  <2> HIDE DEF Same
  <2>4. \A k \in 1..n : k \in Same
    BY <1>1, <2>3, NumbersGrow
  <2> QED
    BY <2>4 DEF Same
<1>4. longer[n + 1] = FlatRule(next, longer, n + 1) /\ longer[n] = upTo[n]
  BY <1>1, <1>2, <1>3
<1>5. n + 1 # 1 /\ (n + 1) - 1 = n
  BY <1>1
<1> QED
  BY <1>1, <1>4, <1>5 DEF FlatRule, n

LEMMA FlatIs ==
    \A seqs : FlattenSeq(seqs) =
                 IF Len(seqs) = 0 THEN seqs ELSE (CHOOSE upTo : IsFlat(seqs, upTo))[Len(seqs)]
  BY DEF FlattenSeq, IsFlat, FlatRule

(* What FlattenSeq returns.                                                *)
LEMMA FlattenAppend ==
    ASSUME NEW S, NEW seqs \in Seq(Seq(S)), NEW x \in Seq(S)
    PROVE  FlattenSeq(Append(seqs, x)) = FlattenSeq(seqs) \o x
<1> DEFINE next == Append(seqs, x)
<1>1. /\ next \in Seq(Seq(S)) /\ Len(next) = Len(seqs) + 1 /\ next[Len(seqs) + 1] = x
      /\ Len(seqs) \in Nat
  OBVIOUS
<1> HIDE DEF next
<1>2. PICK v : v = (CHOOSE upTo : IsFlat(next, upTo))
  OBVIOUS
<1>3. IsFlat(next, v)
  BY <1>1, <1>2, FlatExists
<1>4. FlattenSeq(next) = v[Len(seqs) + 1]
  BY <1>1, <1>2, FlatIs
<1>5. CASE seqs = <<>>
  <2>1. Len(seqs) = 0 /\ FlattenSeq(seqs) = <<>>
    BY <1>5, FlatIs
  <2>2. v[1] = FlatRule(next, v, 1) /\ next[1] = x
    BY <1>1, <1>3, <2>1 DEF IsFlat
  <2>3. FlattenSeq(next) = x
    BY <1>4, <2>1, <2>2 DEF FlatRule
  <2> QED
    BY <2>1, <2>3, ConcatEmptySeq DEF next
<1>6. CASE seqs # <<>>
  <2>1. PICK u : u = (CHOOSE upTo : IsFlat(seqs, upTo))
    OBVIOUS
  <2>2. IsFlat(seqs, u)
    BY <2>1, FlatExists
  <2>3. FlattenSeq(seqs) = u[Len(seqs)]
    <3>1. Len(seqs) # 0
      BY <1>6
    <3> QED
      BY <2>1, <3>1, FlatIs
  <2>4. v[Len(seqs) + 1] = u[Len(seqs)] \o x
    BY <1>3, <1>6, <2>2, FlatStep DEF next
  <2> QED
    BY <1>4, <2>3, <2>4 DEF next
<1> QED
  BY <1>5, <1>6

LEMMA FlattenEmpty == FlattenSeq(<<>>) = <<>>
  BY FlatIs

LEMMA FlattenType ==
    ASSUME NEW S, NEW seqs \in Seq(Seq(S))
    PROVE  FlattenSeq(seqs) \in Seq(S)
<1> DEFINE Good == {s \in Seq(Seq(S)) : FlattenSeq(s) \in Seq(S)}
<1>1. <<>> \in Good
  <2>1. <<>> \in Seq(S) /\ <<>> \in Seq(Seq(S))
    OBVIOUS
  <2> QED
    BY <2>1, FlattenEmpty
<1>2. ASSUME NEW s \in Seq(Seq(S)), NEW x \in Seq(S), s \in Good
      PROVE  Append(s, x) \in Good
  <2>1. FlattenSeq(Append(s, x)) = FlattenSeq(s) \o x /\ FlattenSeq(s) \in Seq(S)
    BY <1>2, FlattenAppend
  <2>2. Append(s, x) \in Seq(Seq(S)) /\ FlattenSeq(s) \o x \in Seq(S)
    BY <2>1
  <2> QED
    BY <2>1, <2>2
<1>3. seqs \in Good
  <2> HIDE DEF Good
  <2> QED
    BY <1>1, <1>2, SequencesGrow
<1> QED
  BY <1>3

(* The partial results of Canonical.                                       *)
CanonicalRule(line, upTo, k) == IF k = 0 THEN <<>> ELSE Extended(upTo[k - 1], line[k])
IsCanonical(line, upTo) == upTo = [k \in 0..Len(line) |-> CanonicalRule(line, upTo, k)]

LEMMA CanonicalExists ==
    ASSUME NEW S, NEW line \in Seq(S)
    PROVE  \E upTo : IsCanonical(line, upTo)
<1> DEFINE Good == {s \in Seq(S) : \E upTo : IsCanonical(s, upTo)}
<1>1. <<>> \in Good
  <2> DEFINE u == [k \in 0..0 |-> <<>>]
  <2>1. \A k \in 0..0 : CanonicalRule(<<>>, u, k) = <<>>
    BY DEF CanonicalRule
  <2>2. u = [k \in 0..0 |-> u[k]] /\ \A k \in 0..0 : u[k] = <<>>
    OBVIOUS
  <2> HIDE DEF u
  <2>3. IsCanonical(<<>>, u)
    BY <2>1, <2>2 DEF IsCanonical
  <2> QED
    BY <2>3
<1>2. ASSUME NEW s \in Seq(S), NEW x \in S, s \in Good
      PROVE  Append(s, x) \in Good
  <2>1. PICK u : IsCanonical(s, u)
    BY <1>2
  <2> DEFINE n == Len(s)
             t == Append(s, x)
             v == [k \in 0..(n + 1) |-> IF k = n + 1 THEN CanonicalRule(t, u, k) ELSE u[k]]
  <2>2. /\ n \in Nat /\ Len(t) = n + 1 /\ t \in Seq(S)
        /\ \A i \in 1..n : t[i] = s[i]
    OBVIOUS
  <2> HIDE DEF t
  <2>3. \A k \in 0..n : u[k] = CanonicalRule(s, u, k)
    BY <2>1 DEF IsCanonical
  <2> HIDE DEF n
  <2>4. v[n + 1] = CanonicalRule(t, u, n + 1) /\ \A k \in 0..n : v[k] = u[k]
    BY <2>2
  <2>5. DOMAIN v = 0..(n + 1) /\ v = [k \in 0..(n + 1) |-> v[k]]
    OBVIOUS
  <2> HIDE DEF v
  <2>6. ASSUME NEW k \in 0..(n + 1) PROVE v[k] = CanonicalRule(t, v, k)
    <3>1. (k = 0 \/ k - 1 \in 0..n) /\ (k = n + 1 \/ k \in 0..n)
      BY <2>2
    <3>2. CanonicalRule(t, v, k) = CanonicalRule(t, u, k)
      BY <2>4, <3>1 DEF CanonicalRule
    <3>3. CASE k = n + 1
      BY <2>4, <3>2, <3>3
    <3>4. CASE k \in 0..n
      <4>1. k > 0 => t[k] = s[k]
        BY <2>2, <3>4
      <4>2. CanonicalRule(t, u, k) = CanonicalRule(s, u, k)
        BY <3>4, <4>1 DEF CanonicalRule
      <4> QED
        BY <2>3, <2>4, <3>2, <3>4, <4>2
    <3> QED
      BY <3>1, <3>3, <3>4
  <2>7. IsCanonical(t, v)
    BY <2>2, <2>5, <2>6 DEF IsCanonical
  <2> QED
    BY <2>2, <2>7 DEF t
<1>3. line \in Good
  <2> HIDE DEF Good
  <2> QED
    BY <1>1, <1>2, SequencesGrow
<1> QED
  BY <1>3

LEMMA CanonicalIs ==
    \A line : Canonical(line) = (CHOOSE upTo : IsCanonical(line, upTo))[Len(line)]
  BY DEF Canonical, IsCanonical, CanonicalRule

LEMMA CanonicalEmpty == Canonical(<<>>) = <<>>
<1>1. PICK u : u = (CHOOSE upTo : IsCanonical(<<>>, upTo))
  OBVIOUS
<1>2. IsCanonical(<<>>, u)
  <2>1. <<>> \in Seq(Point)
    OBVIOUS
  <2> QED
    BY <1>1, <2>1, CanonicalExists
<1>3. u[0] = CanonicalRule(<<>>, u, 0)
  BY <1>2 DEF IsCanonical
<1> QED
  BY <1>1, <1>3, CanonicalIs DEF CanonicalRule

LEMMA CanonicalAppend ==
    ASSUME NEW S, NEW line \in Seq(S), NEW p \in S
    PROVE  Canonical(Append(line, p)) = Extended(Canonical(line), p)
<1> DEFINE n == Len(line)
           next == Append(line, p)
<1>1. /\ n \in Nat /\ next \in Seq(S) /\ Len(next) = n + 1 /\ next[n + 1] = p
      /\ \A i \in 1..n : next[i] = line[i]
  OBVIOUS
<1> HIDE DEF next
<1>2. PICK u : u = (CHOOSE upTo : IsCanonical(line, upTo))
  OBVIOUS
<1>3. PICK v : v = (CHOOSE upTo : IsCanonical(next, upTo))
  OBVIOUS
<1>4. IsCanonical(line, u) /\ IsCanonical(next, v)
  BY <1>1, <1>2, <1>3, CanonicalExists
<1>5. Canonical(line) = u[n] /\ Canonical(next) = v[n + 1]
  BY <1>1, <1>2, <1>3, CanonicalIs
<1>6. /\ \A k \in 0..n : u[k] = CanonicalRule(line, u, k)
      /\ \A k \in 0..(n + 1) : v[k] = CanonicalRule(next, v, k)
  BY <1>1, <1>4 DEF IsCanonical
<1> HIDE DEF n
<1>7. \A k \in 0..n : v[k] = u[k]
  <2>1. v[0] = u[0]
    BY <1>1, <1>6 DEF CanonicalRule
  <2>2. ASSUME NEW k \in 0..n, k # 0, v[k - 1] = u[k - 1]
        PROVE  v[k] = u[k]
    <3>1. k \in 0..(n + 1) /\ k \in 0..n /\ k # 0 /\ k \in 1..n /\ next[k] = line[k]
      BY <1>1, <2>2
    <3>2. v[k] = CanonicalRule(next, v, k) /\ u[k] = CanonicalRule(line, u, k)
      BY <1>6, <3>1
    <3> QED
      BY <2>2, <3>1, <3>2 DEF CanonicalRule
  <2> DEFINE Same == {k \in Nat : v[k] = u[k]}
  <2>3. 0 \in Same /\ \A k \in 0..n : k # 0 /\ k - 1 \in Same => k \in Same
    BY <2>1, <2>2
  <2> HIDE DEF Same
  <2>4. \A k \in 0..n : k \in Same
    BY <1>1, <2>3, NumbersGrow
  <2> QED
    BY <2>4 DEF Same
<1>8. v[n + 1] = CanonicalRule(next, v, n + 1) /\ v[n] = u[n]
  BY <1>1, <1>6, <1>7
<1>9. n + 1 # 0 /\ (n + 1) - 1 = n
  BY <1>1
<1> QED
  BY <1>1, <1>5, <1>8, <1>9 DEF CanonicalRule, next

-----------------------------------------------------------------------------
(* Lines without repeats.                                                  *)

OnceEach(line) ==
    [i \in DOMAIN line |-> IF i > 1 /\ line[i - 1] = line[i] THEN <<>> ELSE <<line[i]>>]

LEMMA OnceEachAppend ==
    ASSUME NEW S, NEW line \in Seq(S), NEW p \in S
    PROVE  /\ OnceEach(line) \in Seq(Seq(S))
           /\ OnceEach(Append(line, p)) =
                 Append(OnceEach(line), IF line # <<>> /\ Last(line) = p THEN <<>> ELSE <<p>>)
<1> DEFINE n == Len(line)
           next == Append(line, p)
           one == OnceEach(line)
           two == OnceEach(next)
           x == IF line # <<>> /\ Last(line) = p THEN <<>> ELSE <<p>>
<1>1. /\ n \in Nat /\ DOMAIN line = 1..n /\ DOMAIN next = 1..(n + 1) /\ next[n + 1] = p
      /\ \A i \in 1..n : next[i] = line[i] /\ line[i] \in S
      /\ Len(next) = n + 1 /\ next \in Seq(S)
  OBVIOUS
<1>2. line # <<>> <=> n + 1 > 1
  BY <1>1
<1> HIDE DEF next
<1>3. line # <<>> => Last(line) = next[n]
  <2>1. line # <<>> => n \in 1..n
    BY <1>1, <1>2
  <2> QED
    BY <1>1, <2>1 DEF Last
<1>4. ASSUME NEW l \in Seq(S)
      PROVE  OnceEach(l) \in Seq(Seq(S)) /\ Len(OnceEach(l)) = Len(l)
  <2>1. DOMAIN l = 1..Len(l) /\ Len(l) \in Nat /\ \A i \in 1..Len(l) : l[i] \in S
    OBVIOUS
  <2>2. \A i \in 1..Len(l) :
           (IF i > 1 /\ l[i - 1] = l[i] THEN <<>> ELSE <<l[i]>>) \in Seq(S)
    BY <2>1
  <2>3. OnceEach(l) \in [1..Len(l) -> Seq(S)]
    BY <2>1, <2>2 DEF OnceEach
  <2> QED
    BY <2>1, <2>3
<1>5. /\ one \in Seq(Seq(S)) /\ Len(one) = n
      /\ two \in Seq(Seq(S)) /\ Len(two) = n + 1 /\ x \in Seq(S)
  BY <1>1, <1>4
<1>6. two[n + 1] = x
  <2>1. two[n + 1] = IF n + 1 > 1 /\ next[(n + 1) - 1] = next[n + 1] THEN <<>> ELSE <<next[n + 1]>>
    BY <1>1 DEF OnceEach
  <2>2. (n + 1) - 1 = n
    BY <1>1
  <2> QED
    BY <1>1, <1>2, <1>3, <2>1, <2>2
<1>7. ASSUME NEW i \in 1..n PROVE two[i] = one[i]
  <2>1. /\ two[i] = IF i > 1 /\ next[i - 1] = next[i] THEN <<>> ELSE <<next[i]>>
        /\ one[i] = IF i > 1 /\ line[i - 1] = line[i] THEN <<>> ELSE <<line[i]>>
    BY <1>1 DEF OnceEach
  <2>2. next[i] = line[i] /\ (i > 1 => next[i - 1] = line[i - 1])
    BY <1>1
  <2> QED
    BY <2>1, <2>2
<1> HIDE DEF one, two, x, n
<1>8. /\ Append(one, x) \in Seq(Seq(S)) /\ Len(Append(one, x)) = n + 1
      /\ Append(one, x)[n + 1] = x /\ \A i \in 1..n : Append(one, x)[i] = one[i]
  BY <1>5
<1>9. \A i \in 1..(n + 1) : two[i] = Append(one, x)[i]
  <2>1. \A i \in 1..(n + 1) : i = n + 1 \/ i \in 1..n
    BY <1>1
  <2> QED
    BY <1>6, <1>7, <1>8, <2>1
<1>10. two = Append(one, x)
  BY <1>5, <1>8, <1>9, SeqEqual
<1> QED
  BY <1>5, <1>10 DEF one, two, x, next

LEMMA RepeatsEmpty == WithoutRepeats(<<>>) = <<>>
<1>1. WithoutRepeats(<<>>) = FlattenSeq(OnceEach(<<>>))
  BY DEF WithoutRepeats, OnceEach
<1>2. OnceEach(<<>>) = <<>>
  BY DEF OnceEach
<1> QED
  BY <1>1, <1>2, FlattenEmpty

LEMMA RepeatsType ==
    ASSUME NEW S, NEW line \in Seq(S)
    PROVE  WithoutRepeats(line) \in Seq(S)
<1>1. WithoutRepeats(line) = FlattenSeq(OnceEach(line))
  BY DEF WithoutRepeats, OnceEach
<1>2. OnceEach(line) \in Seq(Seq(S))
  <2>1. DOMAIN line = 1..Len(line) /\ Len(line) \in Nat /\ \A i \in 1..Len(line) : line[i] \in S
    OBVIOUS
  <2>2. \A i \in 1..Len(line) :
           (IF i > 1 /\ line[i - 1] = line[i] THEN <<>> ELSE <<line[i]>>) \in Seq(S)
    BY <2>1
  <2>3. OnceEach(line) \in [1..Len(line) -> Seq(S)]
    BY <2>1, <2>2 DEF OnceEach
  <2> QED
    BY <2>1, <2>3
<1> QED
  BY <1>1, <1>2, FlattenType

LEMMA RepeatsAppend ==
    ASSUME NEW S, NEW line \in Seq(S), NEW p \in S
    PROVE  WithoutRepeats(Append(line, p)) =
              IF line # <<>> /\ Last(line) = p THEN WithoutRepeats(line)
              ELSE Append(WithoutRepeats(line), p)
<1> DEFINE x == IF line # <<>> /\ Last(line) = p THEN <<>> ELSE <<p>>
<1>1. /\ OnceEach(line) \in Seq(Seq(S)) /\ x \in Seq(S)
      /\ OnceEach(Append(line, p)) = Append(OnceEach(line), x)
  BY OnceEachAppend
<1>2. /\ WithoutRepeats(line) = FlattenSeq(OnceEach(line))
      /\ WithoutRepeats(Append(line, p)) = FlattenSeq(OnceEach(Append(line, p)))
  BY DEF WithoutRepeats, OnceEach
<1> HIDE DEF x
<1>3. WithoutRepeats(Append(line, p)) = WithoutRepeats(line) \o x
  BY <1>1, <1>2, FlattenAppend
<1>4. WithoutRepeats(line) \in Seq(S)
  BY RepeatsType
<1>5. WithoutRepeats(line) \o <<>> = WithoutRepeats(line)
  BY <1>4, ConcatEmptySeq
<1>6. WithoutRepeats(line) \o <<p>> = Append(WithoutRepeats(line), p)
  BY <1>4, AppendIsConcat
<1> QED
  BY <1>3, <1>5, <1>6 DEF x

(* What is left has the same ends, no repeats, and only pairs of           *)
(* successive points of the line.                                          *)
Succession(line, a, b) == \E i \in 1..(Len(line) - 1) : line[i] = a /\ line[i + 1] = b
SameWay(line, w) ==
    /\ w # <<>> /\ w[1] = line[1] /\ Last(w) = Last(line)
    /\ \A j \in 1..(Len(w) - 1) : w[j] # w[j + 1] /\ Succession(line, w[j], w[j + 1])

LEMMA RepeatsAre ==
    ASSUME NEW S, NEW line \in Seq(S), line # <<>>
    PROVE  SameWay(line, WithoutRepeats(line))
<1> DEFINE Good == {s \in Seq(S) : s # <<>> => SameWay(s, WithoutRepeats(s))}
<1>1. <<>> \in Good
  OBVIOUS
<1>2. ASSUME NEW s \in Seq(S), NEW p \in S, s \in Good
      PROVE  Append(s, p) \in Good
  <2> DEFINE t == Append(s, p)
             n == Len(s)
             w == WithoutRepeats(s)
             v == WithoutRepeats(t)
  <2>1. /\ t \in Seq(S) /\ Len(t) = n + 1 /\ n \in Nat /\ t[n + 1] = p
        /\ \A i \in 1..n : t[i] = s[i]
    OBVIOUS
  <2>2. w \in Seq(S) /\ v = IF s # <<>> /\ Last(s) = p THEN w ELSE Append(w, p)
    BY RepeatsType, RepeatsAppend
  <2>3. Last(t) = p
    BY <2>1 DEF Last
  <2>4. s = <<>> => w = <<>>
    BY RepeatsEmpty
  <2> HIDE DEF t, w, v
  <2>5. CASE s = <<>>
    <3>1. v = <<p>> /\ n = 0
      BY <2>2, <2>4, <2>5
    <3>2. v # <<>> /\ Len(v) = 1 /\ v[1] = p /\ t[1] = p
      BY <2>1, <3>1
    <3>3. Last(v) = p
      BY <3>2 DEF Last
    <3>4. SameWay(t, v)
      BY <2>3, <3>2, <3>3 DEF SameWay
    <3> QED
      BY <2>1, <3>4 DEF t, v
  <2>6. CASE s # <<>>
    <3>1. SameWay(s, w) /\ n \in Nat /\ n >= 1 /\ s[n] = Last(s)
      BY <1>2, <2>6 DEF Last, w
    <3>2. ASSUME NEW a, NEW b, Succession(s, a, b) PROVE Succession(t, a, b)
      <4>1. PICK i \in 1..(n - 1) : s[i] = a /\ s[i + 1] = b
        BY <3>2 DEF Succession
      <4>2. i \in 1..n /\ i + 1 \in 1..n /\ i \in 1..(n + 1 - 1)
        BY <3>1
      <4> QED
        BY <2>1, <4>1, <4>2 DEF Succession
    <3>3. t[1] = s[1]
      BY <2>1, <3>1
    <3>4. CASE Last(s) = p
      BY <2>1, <2>2, <2>3, <2>6, <3>1, <3>2, <3>3, <3>4 DEF SameWay, t, v
    <3>5. CASE Last(s) # p
      <4>1. v = Append(w, p)
        BY <2>2, <3>5
      <4> DEFINE m == Len(w)
      <4>2. /\ m \in Nat /\ m >= 1 /\ Len(v) = m + 1 /\ v[m + 1] = p
            /\ \A i \in 1..m : v[i] = w[i]
        BY <2>2, <3>1, <4>1 DEF SameWay
      <4>3. w[m] = Last(s)
        BY <3>1 DEF SameWay, Last
      <4> HIDE DEF m
      <4>4. v # <<>> /\ v[1] = t[1] /\ Last(v) = Last(t)
        <5>1. v[1] = w[1] /\ w[1] = s[1]
          BY <3>1, <4>2 DEF SameWay
        <5>2. Last(v) = p
          BY <4>2 DEF Last
        <5> QED
          BY <2>3, <3>3, <4>2, <5>1, <5>2
      <4>5. ASSUME NEW j \in 1..(Len(v) - 1)
            PROVE  v[j] # v[j + 1] /\ Succession(t, v[j], v[j + 1])
        <5>1. CASE j = m
          <6>1. v[j] = Last(s) /\ v[j + 1] = p
            BY <4>2, <4>3, <5>1
          <6>2. n \in 1..(Len(t) - 1) /\ t[n] = Last(s) /\ t[n + 1] = p
            BY <2>1, <3>1
          <6> QED
            BY <3>5, <6>1, <6>2 DEF Succession
        <5>2. CASE j # m
          <6>1. j \in 1..(m - 1) /\ v[j] = w[j] /\ v[j + 1] = w[j + 1]
            BY <4>2, <5>2
          <6>2. w[j] # w[j + 1] /\ Succession(s, w[j], w[j + 1])
            BY <3>1, <6>1 DEF SameWay, m
          <6> QED
            BY <3>2, <6>1, <6>2
        <5> QED
          BY <5>1, <5>2
      <4>6. SameWay(t, v)
        BY <4>4, <4>5 DEF SameWay
      <4> QED
        BY <2>1, <4>6 DEF t, v
    <3> QED
      BY <3>4, <3>5
  <2> QED
    BY <2>5, <2>6
<1>3. line \in Good
  <2> HIDE DEF Good
  <2> QED
    BY <1>1, <1>2, SequencesGrow
<1> QED
  BY <1>3

(* Where one line ends, another goes on.                                   *)
LEMMA RepeatsJoin ==
    ASSUME NEW S, NEW a \in Seq(S), a # <<>>, NEW b \in Seq(S), b # <<>>, Last(a) = b[1]
    PROVE  WithoutRepeats(a \o Tail(b)) = WithoutRepeats(a) \o Tail(WithoutRepeats(b))
<1> DEFINE Joins(s) == WithoutRepeats(a \o Tail(s)) = WithoutRepeats(a) \o Tail(WithoutRepeats(s))
           Good == {s \in Seq(S) : s # <<>> /\ Last(a) = s[1] => Joins(s)}
<1>1. <<>> \in Good
  OBVIOUS
<1>2. ASSUME NEW s \in Seq(S), NEW p \in S, s \in Good
      PROVE  Append(s, p) \in Good
  <2> DEFINE t == Append(s, p)
             w == WithoutRepeats(s)
  <2>1. t \in Seq(S) /\ t # <<>> /\ (s # <<>> => t[1] = s[1])
    OBVIOUS
  <2>2. SUFFICES ASSUME Last(a) = t[1] PROVE Joins(t)
    BY <2>1
  <2>3. WithoutRepeats(a) \in Seq(S) /\ w \in Seq(S)
    BY RepeatsType
  <2>4. WithoutRepeats(t) = IF s # <<>> /\ Last(s) = p THEN w ELSE Append(w, p)
    BY RepeatsAppend
  <2>5. Tail(t) = IF s = <<>> THEN <<>> ELSE Append(Tail(s), p)
    BY HeadTailAppend
  <2> HIDE DEF t
  <2>6. CASE s = <<>>
    <3>1. w = <<>>
      BY <2>6, RepeatsEmpty
    <3> HIDE DEF w
    <3>2. WithoutRepeats(t) = <<p>>
      BY <2>4, <2>6, <3>1
    <3>3. Tail(t) = <<>> /\ Tail(WithoutRepeats(t)) = <<>>
      BY <2>5, <2>6, <3>2
    <3>4. a \o <<>> = a /\ WithoutRepeats(a) \o <<>> = WithoutRepeats(a)
      BY <2>3, ConcatEmptySeq
    <3> QED
      BY <3>3, <3>4
  <2>7. CASE s # <<>>
    <3>1. Joins(s) /\ Tail(s) \in Seq(S)
      BY <1>2, <2>1, <2>2, <2>7
    <3> DEFINE c == a \o Tail(s)
    <3>2. /\ c \in Seq(S) /\ c # <<>> /\ Last(c) = Last(s)
      <4> DEFINE y == Tail(s)
      <4>1. /\ y \in Seq(S) /\ Len(y) = Len(s) - 1 /\ \A i \in 1..Len(y) : y[i] = s[i + 1]
            /\ Len(s) \in Nat /\ Len(s) >= 1 /\ Len(a) \in Nat /\ Len(a) >= 1
        BY <2>7
      <4>2. c = a \o y
        OBVIOUS
      <4> HIDE DEF y, c
      <4>3. /\ c \in Seq(S) /\ Len(c) = Len(a) + Len(y)
            /\ \A i \in 1..(Len(a) + Len(y)) : c[i] = IF i <= Len(a) THEN a[i] ELSE y[i - Len(a)]
        BY <4>1, <4>2, ConcatProperties
      <4>4. CASE Len(s) = 1
        <5>1. Len(c) = Len(a) /\ c[Len(a)] = a[Len(a)]
          BY <4>1, <4>3, <4>4
        <5>2. Last(c) = Last(a) /\ Last(s) = s[1]
          BY <4>4, <5>1 DEF Last
        <5> QED
          BY <2>1, <2>2, <2>7, <4>1, <4>3, <5>1, <5>2
      <4>5. CASE Len(s) # 1
        <5> DEFINE m == Len(a) + Len(y)
        <5>1. /\ m \in 1..m /\ ~(m <= Len(a)) /\ m - Len(a) = Len(y) /\ Len(y) \in 1..Len(y)
              /\ Len(y) + 1 = Len(s)
          BY <4>1, <4>5
        <5> HIDE DEF m
        <5>2. Len(c) = m /\ c[m] = y[Len(y)] /\ y[Len(y)] = s[Len(s)]
          BY <4>1, <4>3, <5>1 DEF m
        <5>3. Last(c) = Last(s)
          BY <5>2 DEF Last
        <5> QED
          BY <4>3, <5>1, <5>2, <5>3
      <4> QED
        BY <4>4, <4>5
    <3>3. a \o Tail(t) = Append(c, p)
      <4> DEFINE y == Tail(s)
      <4>1. y \in Seq(S) /\ Tail(t) = Append(y, p) /\ c = a \o y
        BY <2>5, <2>7, <3>1
      <4> HIDE DEF y, c
      <4>2. a \o Append(y, p) = Append(a \o y, p)
        BY <4>1
      <4> QED
        BY <4>1, <4>2
    <3> HIDE DEF c
    <3>4. WithoutRepeats(Append(c, p)) = IF Last(s) = p THEN WithoutRepeats(c) ELSE Append(WithoutRepeats(c), p)
      BY <3>2, RepeatsAppend
    <3>5. w # <<>> /\ Tail(w) \in Seq(S)
      <4>1. w # <<>>
        BY <2>7, RepeatsAre DEF SameWay
      <4> QED
        BY <2>3, <4>1
    <3>6. WithoutRepeats(c) = WithoutRepeats(a) \o Tail(w)
      BY <3>1 DEF c
    <3> HIDE DEF w
    <3>7. Tail(Append(w, p)) = Append(Tail(w), p)
      BY <2>3, <3>5, HeadTailAppend
    <3>8. WithoutRepeats(a) \o Append(Tail(w), p) = Append(WithoutRepeats(a) \o Tail(w), p)
      <4> DEFINE x == WithoutRepeats(a)  y == Tail(w)
      <4>1. x \in Seq(S) /\ y \in Seq(S)
        BY <2>3, <3>5
      <4> HIDE DEF x, y
      <4>2. x \o Append(y, p) = Append(x \o y, p)
        BY <4>1
      <4> QED
        BY <4>2 DEF x, y
    <3> QED
      BY <2>4, <2>7, <3>3, <3>4, <3>6, <3>7, <3>8
  <2> QED
    BY <2>6, <2>7
<1>3. b \in Good
  <2> HIDE DEF Good
  <2> QED
    BY <1>1, <1>2, SequencesGrow
<1> QED
  BY <1>3

-----------------------------------------------------------------------------
(* Pieces along the axes, and the points on their way.                     *)

Aligned(a, b) == a[1] = b[1] \/ a[2] = b[2]
Direction(a, b) == <<Toward(a[1], b[1]), Toward(a[2], b[2])>>
Ahead(p, d, k) == <<p[1] + k * d[1], p[2] + k * d[2]>>

LEMMA PointIs ==
    \A p \in Point : p[1] \in Int /\ p[2] \in Int /\ p = <<p[1], p[2]>>
  BY DEF Point

(* A piece that is no point runs along one axis, one way.                  *)
LEMMA AxisCases ==
    ASSUME NEW a \in Point, NEW b \in Point, Aligned(a, b), a # b
    PROVE  \/ /\ a[1] = b[1] /\ a[2] < b[2] /\ Direction(a, b) = <<0, 1>>
              /\ PieceLength(a, b) = b[2] - a[2]
           \/ /\ a[1] = b[1] /\ a[2] > b[2] /\ Direction(a, b) = <<0, -1>>
              /\ PieceLength(a, b) = a[2] - b[2]
           \/ /\ a[2] = b[2] /\ a[1] < b[1] /\ Direction(a, b) = <<1, 0>>
              /\ PieceLength(a, b) = b[1] - a[1]
           \/ /\ a[2] = b[2] /\ a[1] > b[1] /\ Direction(a, b) = <<-1, 0>>
              /\ PieceLength(a, b) = a[1] - b[1]
<1>1. /\ a[1] \in Int /\ a[2] \in Int /\ b[1] \in Int /\ b[2] \in Int
      /\ a[1] # b[1] \/ a[2] # b[2]
  BY PointIs
<1>2. CASE a[1] = b[1]
  BY <1>1, <1>2 DEF Direction, PieceLength, Toward, Span, Greater
<1>3. CASE a[2] = b[2]
  BY <1>1, <1>3 DEF Direction, PieceLength, Toward, Span, Greater
<1> QED
  BY <1>2, <1>3 DEF Aligned

LEMMA AheadUp == \A p \in Point, k \in Int : Ahead(p, <<0, 1>>, k) = <<p[1], p[2] + k>>
  BY PointIs DEF Ahead

LEMMA AheadDown == \A p \in Point, k \in Int : Ahead(p, <<0, -1>>, k) = <<p[1], p[2] - k>>
  BY PointIs DEF Ahead

LEMMA AheadRight == \A p \in Point, k \in Int : Ahead(p, <<1, 0>>, k) = <<p[1] + k, p[2]>>
  BY PointIs DEF Ahead

LEMMA AheadLeft == \A p \in Point, k \in Int : Ahead(p, <<-1, 0>>, k) = <<p[1] - k, p[2]>>
  BY PointIs DEF Ahead

LEMMA AheadAdds ==
    ASSUME NEW p \in Point, NEW d \in Point, NEW j \in Int, NEW k \in Int
    PROVE  Ahead(p, d, j) \in Point /\ Ahead(Ahead(p, d, j), d, k) = Ahead(p, d, j + k)
<1>1. p[1] \in Int /\ p[2] \in Int /\ d[1] \in Int /\ d[2] \in Int
  BY PointIs
<1>2. \A x, y \in Int : x + j * y \in Int /\ (x + j * y) + k * y = x + (j + k) * y
  OBVIOUS
<1> DEFINE x1 == p[1] + j * d[1]
           x2 == p[2] + j * d[2]
<1>3. /\ Ahead(p, d, j) = <<x1, x2>>
      /\ Ahead(p, d, j)[1] = x1 /\ Ahead(p, d, j)[2] = x2
  BY DEF Ahead
<1>4. /\ x1 \in Int /\ x1 + k * d[1] = p[1] + (j + k) * d[1]
      /\ x2 \in Int /\ x2 + k * d[2] = p[2] + (j + k) * d[2]
  BY <1>1, <1>2
<1> HIDE DEF x1, x2
<1>5. Ahead(Ahead(p, d, j), d, k) = <<x1 + k * d[1], x2 + k * d[2]>>
  BY <1>3 DEF Ahead
<1> QED
  BY <1>3, <1>4, <1>5 DEF Ahead, Point

LEMMA UnitStepsAre ==
    ASSUME NEW a \in Point, NEW b \in Point, Aligned(a, b)
    PROVE  /\ PieceLength(a, b) \in Nat
           /\ PieceLength(a, b) = 0 <=> a = b
           /\ UnitSteps(a, b) \in Seq(Point)
           /\ Len(UnitSteps(a, b)) = PieceLength(a, b)
           /\ \A k \in 1..PieceLength(a, b) : UnitSteps(a, b)[k] = Ahead(a, Direction(a, b), k)
           /\ Ahead(a, Direction(a, b), PieceLength(a, b)) = b
<1>1. a[1] \in Int /\ a[2] \in Int /\ b[1] \in Int /\ b[2] \in Int
  BY PointIs
<1>2. PieceLength(a, b) \in Nat
  BY <1>1 DEF PieceLength, Span, Greater
<1>3. PieceLength(a, b) = 0 <=> a = b
  <2>1. CASE a = b
    BY <1>1, <2>1 DEF PieceLength, Span, Greater
  <2>2. CASE a # b
    BY <1>1, <2>2, AxisCases
  <2> QED
    BY <2>1, <2>2
<1>4. \A k \in Int : Ahead(a, Direction(a, b), k) \in Point
  <2>1. Toward(a[1], b[1]) \in Int /\ Toward(a[2], b[2]) \in Int
    BY DEF Toward
  <2> QED
    BY <1>1, <2>1 DEF Ahead, Direction, Point
<1>5. UnitSteps(a, b) = [k \in 1..PieceLength(a, b) |-> Ahead(a, Direction(a, b), k)]
  BY DEF UnitSteps, Ahead, Direction
<1>6. UnitSteps(a, b) \in Seq(Point) /\ Len(UnitSteps(a, b)) = PieceLength(a, b)
  <2>1. UnitSteps(a, b) \in [1..PieceLength(a, b) -> Point]
    BY <1>4, <1>5
  <2> QED
    BY <1>2, <2>1
<1>7. Ahead(a, Direction(a, b), PieceLength(a, b)) = b
  <2>1. CASE a = b
    <3>1. PieceLength(a, b) = 0
      BY <1>3, <2>1
    <3>2. Direction(a, b) = <<0, 0>>
      BY <1>1, <2>1 DEF Direction, Toward
    <3> QED
      BY <1>1, <2>1, <3>1, <3>2, PointIs DEF Ahead
  <2>2. CASE a # b
    <3> DEFINE n == PieceLength(a, b)
               d == Direction(a, b)
    <3>1. b = <<b[1], b[2]>> /\ n \in Int
      BY <1>2, PointIs
    <3>2. \/ a[1] = b[1] /\ d = <<0, 1>> /\ n = b[2] - a[2]
          \/ a[1] = b[1] /\ d = <<0, -1>> /\ n = a[2] - b[2]
          \/ a[2] = b[2] /\ d = <<1, 0>> /\ n = b[1] - a[1]
          \/ a[2] = b[2] /\ d = <<-1, 0>> /\ n = a[1] - b[1]
      BY <2>2, AxisCases
    <3> HIDE DEF n, d
    <3>3. CASE a[1] = b[1] /\ d = <<0, 1>> /\ n = b[2] - a[2]
      <4>1. Ahead(a, d, n) = <<a[1], a[2] + n>> /\ a[2] + n = b[2]
        BY <1>1, <3>1, <3>3, AheadUp
      <4> QED
        BY <3>1, <3>3, <4>1 DEF n, d
    <3>4. CASE a[1] = b[1] /\ d = <<0, -1>> /\ n = a[2] - b[2]
      <4>1. Ahead(a, d, n) = <<a[1], a[2] - n>> /\ a[2] - n = b[2]
        BY <1>1, <3>1, <3>4, AheadDown
      <4> QED
        BY <3>1, <3>4, <4>1 DEF n, d
    <3>5. CASE a[2] = b[2] /\ d = <<1, 0>> /\ n = b[1] - a[1]
      <4>1. Ahead(a, d, n) = <<a[1] + n, a[2]>> /\ a[1] + n = b[1]
        BY <1>1, <3>1, <3>5, AheadRight
      <4> QED
        BY <3>1, <3>5, <4>1 DEF n, d
    <3>6. CASE a[2] = b[2] /\ d = <<-1, 0>> /\ n = a[1] - b[1]
      <4>1. Ahead(a, d, n) = <<a[1] - n, a[2]>> /\ a[1] - n = b[1]
        BY <1>1, <3>1, <3>6, AheadLeft
      <4> QED
        BY <3>1, <3>6, <4>1 DEF n, d
    <3> QED
      BY <3>2, <3>3, <3>4, <3>5, <3>6
  <2> QED
    BY <2>1, <2>2
<1> QED
  BY <1>2, <1>3, <1>5, <1>6, <1>7

(* Straight on is on in the same direction.                                *)
LEMMA StraightIs ==
    ASSUME NEW a \in Point, NEW b \in Point, NEW c \in Point,
           Aligned(a, b), Aligned(b, c), a # b, b # c
    PROVE  Straight(a, b, c) <=> Direction(a, b) = Direction(b, c)
<1>1. /\ a[1] \in Int /\ a[2] \in Int /\ b[1] \in Int /\ b[2] \in Int
      /\ c[1] \in Int /\ c[2] \in Int
  BY PointIs
<1> DEFINE x == b[1] - a[1]  y == b[2] - a[2]  u == c[1] - b[1]  v == c[2] - b[2]
<1>2. x \in Int /\ y \in Int /\ u \in Int /\ v \in Int
  BY <1>1
<1>3. Straight(a, b, c) <=> x * u + y * v >= 0 /\ x * v - y * u = 0
  BY DEF Straight, Dot, Cross, Minus
<1>4. \/ x = 0 /\ y > 0 /\ Direction(a, b) = <<0, 1>>
      \/ x = 0 /\ y < 0 /\ Direction(a, b) = <<0, -1>>
      \/ y = 0 /\ x > 0 /\ Direction(a, b) = <<1, 0>>
      \/ y = 0 /\ x < 0 /\ Direction(a, b) = <<-1, 0>>
  BY <1>1, AxisCases
<1>5. \/ u = 0 /\ v > 0 /\ Direction(b, c) = <<0, 1>>
      \/ u = 0 /\ v < 0 /\ Direction(b, c) = <<0, -1>>
      \/ v = 0 /\ u > 0 /\ Direction(b, c) = <<1, 0>>
      \/ v = 0 /\ u < 0 /\ Direction(b, c) = <<-1, 0>>
  BY <1>1, AxisCases
<1> HIDE DEF x, y, u, v
<1>6. CASE x = 0 /\ y > 0
  BY <1>2, <1>3, <1>4, <1>5, <1>6
<1>7. CASE x = 0 /\ y < 0
  BY <1>2, <1>3, <1>4, <1>5, <1>7
<1>8. CASE y = 0 /\ x > 0
  BY <1>2, <1>3, <1>4, <1>5, <1>8
<1>9. CASE y = 0 /\ x < 0
  BY <1>2, <1>3, <1>4, <1>5, <1>9
<1> QED
  BY <1>4, <1>6, <1>7, <1>8, <1>9

(* Two pieces in the same direction are one.                               *)
LEMMA PiecesJoin ==
    ASSUME NEW a \in Point, NEW b \in Point, NEW c \in Point,
           Aligned(a, b), Aligned(b, c), a # b, b # c, Direction(a, b) = Direction(b, c)
    PROVE  /\ Aligned(a, c) /\ a # c /\ Direction(a, c) = Direction(a, b)
           /\ PieceLength(a, c) = PieceLength(a, b) + PieceLength(b, c)
           /\ UnitSteps(a, b) \o UnitSteps(b, c) = UnitSteps(a, c)
<1>1. /\ a[1] \in Int /\ a[2] \in Int /\ b[1] \in Int /\ b[2] \in Int
      /\ c[1] \in Int /\ c[2] \in Int
  BY PointIs
<1>2. /\ Aligned(a, c) /\ a # c /\ Direction(a, c) = Direction(a, b)
      /\ PieceLength(a, c) = PieceLength(a, b) + PieceLength(b, c)
  <2>1. \/ a[1] = b[1] /\ a[2] < b[2] /\ b[1] = c[1] /\ b[2] < c[2]
        \/ a[1] = b[1] /\ a[2] > b[2] /\ b[1] = c[1] /\ b[2] > c[2]
        \/ a[2] = b[2] /\ a[1] < b[1] /\ b[2] = c[2] /\ b[1] < c[1]
        \/ a[2] = b[2] /\ a[1] > b[1] /\ b[2] = c[2] /\ b[1] > c[1]
    BY <1>1, AxisCases
  <2> QED
    BY <1>1, <2>1 DEF Aligned, Direction, PieceLength, Toward, Span, Greater
<1> DEFINE d == Direction(a, b)
           m == PieceLength(a, b)
           n == PieceLength(b, c)
           s == UnitSteps(a, b)
           t == UnitSteps(b, c)
           w == UnitSteps(a, c)
<1>3. /\ m \in Nat /\ n \in Nat /\ s \in Seq(Point) /\ t \in Seq(Point) /\ w \in Seq(Point)
      /\ Len(s) = m /\ Len(t) = n /\ Len(w) = m + n
      /\ \A k \in 1..m : s[k] = Ahead(a, d, k)
      /\ \A k \in 1..n : t[k] = Ahead(b, d, k)
      /\ \A k \in 1..(m + n) : w[k] = Ahead(a, d, k)
      /\ Ahead(a, d, m) = b
  BY <1>2, UnitStepsAre
<1>4. \A k \in Int : Ahead(b, d, k - m) = Ahead(a, d, k)
  <2>1. d \in Point
    BY AxisCases DEF Point
  <2> HIDE DEF d, m
  <2>2. TAKE k \in Int
  <2>3. Ahead(a, d, m) = b /\ m \in Int /\ k - m \in Int /\ m + (k - m) = k
    BY <1>3
  <2> QED
    BY <2>1, <2>3, AheadAdds
<1> HIDE DEF d, m, n, s, t, w
<1>5. /\ s \o t \in Seq(Point) /\ Len(s \o t) = m + n
      /\ \A i \in 1..(m + n) : (s \o t)[i] = IF i <= m THEN s[i] ELSE t[i - m]
  BY <1>3, ConcatProperties
<1>6. \A i \in 1..(m + n) : (s \o t)[i] = w[i]
  <2>1. TAKE i \in 1..(m + n)
  <2>2. CASE i <= m
    BY <1>3, <1>5, <2>2
  <2>3. CASE ~(i <= m)
    <3>1. i - m \in 1..n /\ i \in Int
      BY <1>3, <2>3
    <3>2. t[i - m] = Ahead(b, d, i - m) /\ Ahead(b, d, i - m) = Ahead(a, d, i)
      BY <1>3, <1>4, <3>1
    <3> QED
      BY <1>3, <1>5, <2>3, <3>2
  <2> QED
    BY <2>2, <2>3
<1>7. s \o t = w
  BY <1>3, <1>5, <1>6, SeqEqual
<1> QED
  BY <1>2, <1>7 DEF s, t, w

-----------------------------------------------------------------------------
(* Lines along the axes, and the points passed on them.                    *)

Walks ==
    {line \in Seq(Point) :
        line # <<>> /\ \A i \in 1..(Len(line) - 1) : Aligned(line[i], line[i + 1])}

LEMMA WalkIs ==
    ASSUME NEW line \in Seq(Point), line # <<>>, AlongAxes(line)
    PROVE  line \in Walks
<1>1. ASSUME NEW i \in 1..(Len(line) - 1) PROVE Aligned(line[i], line[i + 1])
  <2>1. PICK axis \in 1..2 : line[i][axis] = line[i + 1][axis]
    BY DEF AlongAxes
  <2>2. axis = 1 \/ axis = 2
    OBVIOUS
  <2> QED
    BY <2>1, <2>2 DEF Aligned
<1> QED
  BY <1>1 DEF Walks

LEMMA WalkFacts ==
    ASSUME NEW line \in Walks
    PROVE  /\ line \in Seq(Point) /\ line # <<>> /\ Len(line) \in Nat /\ Len(line) >= 1
           /\ line[1] \in Point /\ Last(line) \in Point /\ Last(line) = line[Len(line)]
           /\ \A i \in 1..Len(line) : line[i] \in Point
<1>1. line \in Seq(Point) /\ line # <<>>
  BY DEF Walks
<1>2. Len(line) \in Nat /\ Len(line) >= 1 /\ \A i \in 1..Len(line) : line[i] \in Point
  BY <1>1
<1>3. 1 \in 1..Len(line) /\ Len(line) \in 1..Len(line)
  BY <1>2
<1> QED
  BY <1>1, <1>2, <1>3 DEF Last

LEMMA WalkAppend ==
    ASSUME NEW line \in Walks, NEW p \in Point
    PROVE  /\ Append(line, p) \in Seq(Point) /\ Append(line, p)[1] = line[1]
           /\ Last(Append(line, p)) = p
           /\ Append(line, p) \in Walks <=> Aligned(Last(line), p)
<1> DEFINE n == Len(line)
           next == Append(line, p)
<1>1. /\ line \in Seq(Point) /\ n \in Nat /\ n >= 1 /\ Last(line) = line[n]
      /\ \A i \in 1..(n - 1) : Aligned(line[i], line[i + 1])
  BY WalkFacts DEF Walks
<1>2. /\ next \in Seq(Point) /\ Len(next) = n + 1 /\ next[n + 1] = p /\ next # <<>>
      /\ \A i \in 1..n : next[i] = line[i]
  BY <1>1
<1> HIDE DEF n, next
<1>3. next[1] = line[1] /\ Last(next) = p
  BY <1>1, <1>2 DEF Last
<1>4. \A i \in 1..(n - 1) : Aligned(next[i], next[i + 1])
  <2>1. \A i \in 1..(n - 1) : i \in 1..n /\ i + 1 \in 1..n
    BY <1>1
  <2> QED
    BY <1>1, <1>2, <2>1
<1>5. next[n] = Last(line) /\ next[n + 1] = p
  <2>1. n \in 1..n
    BY <1>1
  <2> QED
    BY <1>1, <1>2, <2>1
<1>6. \A i \in 1..(Len(next) - 1) : i = n \/ i \in 1..(n - 1)
  BY <1>1, <1>2
<1>7. n \in 1..(Len(next) - 1)
  BY <1>1, <1>2
<1>8. next \in Walks <=> \A i \in 1..(Len(next) - 1) : Aligned(next[i], next[i + 1])
  BY <1>2 DEF Walks
<1> QED
  BY <1>2, <1>3, <1>4, <1>5, <1>6, <1>7, <1>8 DEF next

LEMMA OneIsWalk ==
    ASSUME NEW p \in Point
    PROVE  <<p>> \in Walks /\ Last(<<p>>) = p
  BY DEF Walks, Last

LEMMA WalkIsLonger ==
    ASSUME NEW line \in Seq(Point), line # <<>>, NEW p \in Point, Append(line, p) \in Walks
    PROVE  line \in Walks
<1> DEFINE n == Len(line)
           next == Append(line, p)
<1>1. /\ n \in Nat /\ n >= 1 /\ Len(next) = n + 1 /\ \A i \in 1..n : next[i] = line[i]
  OBVIOUS
<1>2. \A i \in 1..(Len(next) - 1) : Aligned(next[i], next[i + 1])
  BY DEF Walks
<1> HIDE DEF n, next
<1>3. ASSUME NEW i \in 1..(n - 1) PROVE Aligned(line[i], line[i + 1])
  <2>1. i \in 1..n /\ i + 1 \in 1..n /\ i \in 1..(Len(next) - 1)
    BY <1>1
  <2> QED
    BY <1>1, <1>2, <2>1
<1> QED
  BY <1>3 DEF Walks, n

(* What holds of one point and survives every further piece holds of all.  *)
LEMMA WalksGrow ==
    ASSUME NEW Good, \A p \in Point : <<p>> \in Good,
           \A line \in Walks, p \in Point :
               line \in Good /\ Aligned(Last(line), p) => Append(line, p) \in Good
    PROVE  \A line \in Walks : line \in Good
<1> DEFINE Kind == {s \in Seq(Point) : s \in Walks => s \in Good}
<1>1. <<>> \in Kind
  BY DEF Walks
<1>2. ASSUME NEW s \in Seq(Point), NEW p \in Point, s \in Kind
      PROVE  Append(s, p) \in Kind
  <2>1. Append(s, p) \in Seq(Point)
    OBVIOUS
  <2>2. SUFFICES ASSUME Append(s, p) \in Walks PROVE Append(s, p) \in Good
    BY <2>1
  <2>3. CASE s = <<>>
    BY <2>3
  <2>4. CASE s # <<>>
    <3>1. s \in Walks
      BY <2>2, <2>4, WalkIsLonger
    <3>2. s \in Good /\ Aligned(Last(s), p)
      BY <1>2, <2>2, <3>1, WalkAppend
    <3> QED
      BY <3>1, <3>2
  <2> QED
    BY <2>3, <2>4
<1>3. \A s \in Seq(Point) : s \in Kind
  <2> HIDE DEF Kind
  <2> QED
    BY <1>1, <1>2, SequencesGrow
<1> QED
  BY <1>3 DEF Walks

UnitWays(line) == [i \in 1..(Len(line) - 1) |-> UnitSteps(line[i], line[i + 1])]

LEMMA UnitWaysAre ==
    ASSUME NEW line \in Walks
    PROVE  UnitWays(line) \in Seq(Seq(Point)) /\ Len(UnitWays(line)) = Len(line) - 1
<1>1. /\ Len(line) - 1 \in Nat
      /\ \A i \in 1..(Len(line) - 1) :
            line[i] \in Point /\ line[i + 1] \in Point /\ Aligned(line[i], line[i + 1])
  <2>1. \A i \in 1..(Len(line) - 1) : i \in 1..Len(line) /\ i + 1 \in 1..Len(line)
    BY WalkFacts
  <2> QED
    BY <2>1, WalkFacts DEF Walks
<1>2. \A i \in 1..(Len(line) - 1) : UnitSteps(line[i], line[i + 1]) \in Seq(Point)
  BY <1>1, UnitStepsAre
<1>3. UnitWays(line) \in [1..(Len(line) - 1) -> Seq(Point)]
  BY <1>2 DEF UnitWays
<1> QED
  BY <1>1, <1>3

LEMMA UnitWaysAppend ==
    ASSUME NEW line \in Walks, NEW p \in Point, Aligned(Last(line), p)
    PROVE  UnitWays(Append(line, p)) = Append(UnitWays(line), UnitSteps(Last(line), p))
<1> DEFINE n == Len(line)
           next == Append(line, p)
           one == UnitWays(line)
           two == UnitWays(next)
           x == UnitSteps(Last(line), p)
<1>1. /\ line \in Seq(Point) /\ n \in Nat /\ n >= 1 /\ Last(line) = line[n] /\ Last(line) \in Point
  BY WalkFacts
<1>2. /\ Len(next) = n + 1 /\ next[n + 1] = p /\ \A i \in 1..n : next[i] = line[i]
  BY <1>1
<1>3. next \in Walks
  BY WalkAppend
<1>4. /\ one \in Seq(Seq(Point)) /\ Len(one) = n - 1
      /\ two \in Seq(Seq(Point)) /\ Len(two) = n /\ x \in Seq(Point)
  <2>1. two \in Seq(Seq(Point)) /\ Len(two) = Len(next) - 1
    BY <1>3, UnitWaysAre
  <2>2. x \in Seq(Point)
    BY <1>1, UnitStepsAre
  <2> QED
    BY <1>1, <1>2, <2>1, <2>2, UnitWaysAre
<1> HIDE DEF next
<1>5. two[n] = x
  <2>1. n \in 1..(Len(next) - 1) /\ n \in 1..n
    BY <1>1, <1>2
  <2> QED
    BY <1>1, <1>2, <2>1 DEF UnitWays
<1>6. ASSUME NEW i \in 1..(n - 1) PROVE two[i] = one[i]
  <2>1. i \in 1..(Len(next) - 1) /\ i \in 1..n /\ i + 1 \in 1..n
    BY <1>1, <1>2
  <2>2. two[i] = UnitSteps(next[i], next[i + 1]) /\ one[i] = UnitSteps(line[i], line[i + 1])
    BY <2>1 DEF UnitWays
  <2> QED
    BY <1>2, <2>1, <2>2
<1> HIDE DEF one, two, x, n
<1>7. /\ Append(one, x) \in Seq(Seq(Point)) /\ Len(Append(one, x)) = (n - 1) + 1
      /\ Append(one, x)[(n - 1) + 1] = x /\ \A i \in 1..(n - 1) : Append(one, x)[i] = one[i]
  BY <1>4, AppendProperties
<1>8. (n - 1) + 1 = n /\ \A i \in 1..n : i = n \/ i \in 1..(n - 1)
  BY <1>1
<1>9. \A i \in 1..Len(two) : two[i] = Append(one, x)[i]
  BY <1>4, <1>5, <1>6, <1>7, <1>8
<1>10. two = Append(one, x)
  BY <1>4, <1>7, <1>8, <1>9, SeqEqual
<1> QED
  BY <1>10 DEF one, two, x, next

LEMMA MotionOfOne ==
    ASSUME NEW p \in Point
    PROVE  Motion(<<p>>) = <<p>>
<1>1. UnitWays(<<p>>) = <<>>
  BY DEF UnitWays
<1>2. Motion(<<p>>) = <<p>> \o FlattenSeq(UnitWays(<<p>>))
  BY DEF Motion, UnitWays
<1> QED
  BY <1>1, <1>2, FlattenEmpty

LEMMA MotionAppend ==
    ASSUME NEW line \in Walks, NEW p \in Point, Aligned(Last(line), p)
    PROVE  Motion(Append(line, p)) = Motion(line) \o UnitSteps(Last(line), p)
<1> DEFINE next == Append(line, p)
           u == UnitWays(line)
           x == UnitSteps(Last(line), p)
           h == <<line[1]>>
<1>1. /\ line \in Seq(Point) /\ line # <<>> /\ Last(line) \in Point /\ h \in Seq(Point)
      /\ Head(line) = line[1]
  BY WalkFacts
<1>2. u \in Seq(Seq(Point)) /\ x \in Seq(Point) /\ UnitWays(next) = Append(u, x)
  BY <1>1, UnitWaysAre, UnitStepsAre, UnitWaysAppend
<1>3. Head(next) = line[1]
  BY <1>1
<1>4. /\ Motion(line) = h \o FlattenSeq(u)
      /\ Motion(next) = h \o FlattenSeq(UnitWays(next))
  BY <1>1, <1>3 DEF Motion, UnitWays
<1> HIDE DEF next, u, x, h
<1>5. FlattenSeq(Append(u, x)) = FlattenSeq(u) \o x /\ FlattenSeq(u) \in Seq(Point)
  BY <1>2, FlattenAppend, FlattenType
<1>6. h \o (FlattenSeq(u) \o x) = (h \o FlattenSeq(u)) \o x
  <2> DEFINE f == FlattenSeq(u)
  <2>1. h \in Seq(Point) /\ f \in Seq(Point) /\ x \in Seq(Point)
    BY <1>1, <1>2, <1>5
  <2> HIDE DEF f
  <2>2. h \o (f \o x) = (h \o f) \o x
    BY <2>1, ConcatAssociative
  <2> QED
    BY <2>2 DEF f
<1> QED
  BY <1>2, <1>4, <1>5, <1>6 DEF next, x

LEMMA MotionIs ==
    ASSUME NEW line \in Walks
    PROVE  /\ Motion(line) \in Seq(Point) /\ Motion(line) # <<>>
           /\ Len(Motion(line)) \in Nat /\ Len(Motion(line)) >= 1
           /\ Motion(line)[Len(Motion(line))] = Last(line)
<1> DEFINE Fine(s) == /\ Motion(s) \in Seq(Point) /\ Motion(s) # <<>>
                      /\ Motion(s)[Len(Motion(s))] = Last(s)
           Good == {s \in Walks : Fine(s)}
<1>1. ASSUME NEW p \in Point PROVE <<p>> \in Good
  BY MotionOfOne, OneIsWalk
<1>2. ASSUME NEW s \in Walks, NEW p \in Point, s \in Good, Aligned(Last(s), p)
      PROVE  Append(s, p) \in Good
  <2> DEFINE a == Last(s)
             x == UnitSteps(a, p)
             m == Motion(s)
             t == Append(s, p)
  <2>1. a \in Point /\ t \in Walks /\ Last(t) = p
    BY <1>2, WalkFacts, WalkAppend
  <2>2. /\ x \in Seq(Point) /\ Len(x) = PieceLength(a, p) /\ PieceLength(a, p) \in Nat
        /\ PieceLength(a, p) = 0 <=> a = p
        /\ \A k \in 1..PieceLength(a, p) : x[k] = Ahead(a, Direction(a, p), k)
        /\ Ahead(a, Direction(a, p), PieceLength(a, p)) = p
    BY <1>2, <2>1, UnitStepsAre
  <2>3. m \in Seq(Point) /\ m # <<>> /\ m[Len(m)] = a /\ Motion(t) = m \o x
    BY <1>2, MotionAppend
  <2> HIDE DEF a, x, m, t
  <2>4. /\ m \o x \in Seq(Point) /\ Len(m \o x) = Len(m) + Len(x)
        /\ \A i \in 1..(Len(m) + Len(x)) : (m \o x)[i] = IF i <= Len(m) THEN m[i] ELSE x[i - Len(m)]
    BY <2>2, <2>3, ConcatProperties
  <2> DEFINE n == Len(m) + Len(x)
  <2>5. /\ Len(m) \in Nat /\ Len(m) >= 1 /\ Len(x) \in Nat /\ n \in 1..n
    BY <2>2, <2>3
  <2>6. (m \o x)[n] = p
    <3>1. CASE Len(x) = 0
      BY <2>2, <2>3, <2>4, <2>5, <3>1
    <3>2. CASE Len(x) # 0
      <4>1. ~(n <= Len(m)) /\ n - Len(m) = Len(x) /\ Len(x) \in 1..PieceLength(a, p)
        BY <2>2, <2>5, <3>2
      <4> QED
        BY <2>2, <2>4, <2>5, <4>1
    <3> QED
      BY <3>1, <3>2
  <2>7. Fine(t)
    BY <2>1, <2>3, <2>4, <2>5, <2>6
  <2> QED
    BY <2>1, <2>7 DEF t
<1>3. line \in Good
  <2> HIDE DEF Good
  <2> QED
    BY <1>1, <1>2, WalksGrow
<1> QED
  BY <1>3

-----------------------------------------------------------------------------
(* Canonical lines: no repeats, and no point that is passed straight on.   *)

Tight(line) ==
    /\ \A i \in 1..(Len(line) - 1) : line[i] # line[i + 1]
    /\ \A i \in 1..(Len(line) - 2) : ~Straight(line[i], line[i + 1], line[i + 2])

LEMMA TightAppend ==
    ASSUME NEW line \in Walks, Tight(line), NEW p \in Point, Last(line) # p,
           Len(line) > 1 => ~Straight(line[Len(line) - 1], line[Len(line)], p)
    PROVE  Tight(Append(line, p))
<1> DEFINE n == Len(line)
           next == Append(line, p)
<1>1. line \in Seq(Point) /\ n \in Nat /\ n >= 1 /\ Last(line) = line[n]
  BY WalkFacts
<1>2. Len(next) = n + 1 /\ next[n + 1] = p /\ \A i \in 1..n : next[i] = line[i]
  BY <1>1
<1> HIDE DEF next
<1>3. n > 1 => ~Straight(line[n - 1], line[n], p)
  OBVIOUS
<1> HIDE DEF n
<1>4. ASSUME NEW i \in 1..(Len(next) - 1) PROVE next[i] # next[i + 1]
  <2>1. CASE i = n
    BY <1>1, <1>2, <2>1
  <2>2. CASE i # n
    <3>1. i \in 1..(n - 1) /\ i \in 1..n /\ i + 1 \in 1..n
      BY <1>1, <1>2, <2>2
    <3> QED
      BY <1>2, <3>1 DEF Tight, n
  <2> QED
    BY <2>1, <2>2
<1>5. ASSUME NEW i \in 1..(Len(next) - 2) PROVE ~Straight(next[i], next[i + 1], next[i + 2])
  <2>1. CASE i = n - 1
    <3>1. n > 1 /\ i \in 1..n /\ i + 1 = n /\ n \in 1..n /\ i + 2 = n + 1
      BY <1>1, <1>2, <2>1
    <3>2. next[i] = line[n - 1] /\ next[i + 1] = line[n] /\ next[i + 2] = p
      BY <1>2, <2>1, <3>1
    <3> QED
      BY <1>3, <3>1, <3>2
  <2>2. CASE i # n - 1
    <3>1. i \in 1..(n - 2) /\ i \in 1..n /\ i + 1 \in 1..n /\ i + 2 \in 1..n
      BY <1>1, <1>2, <2>2
    <3>2. ~Straight(line[i], line[i + 1], line[i + 2])
      BY <3>1 DEF Tight, n
    <3> QED
      BY <1>2, <3>1, <3>2
  <2> QED
    BY <2>1, <2>2
<1>6. Tight(next)
  BY <1>4, <1>5 DEF Tight
<1> QED
  BY <1>6 DEF next

(* A canonical line loses at most its last point to the next.              *)
LEMMA ShortenedIs ==
    ASSUME NEW line \in Walks, Tight(line), NEW p \in Point, Last(line) # p, Aligned(Last(line), p)
    PROVE  Shortened(line, p) =
              IF Len(line) > 1 /\ Straight(line[Len(line) - 1], line[Len(line)], p)
              THEN SubSeq(line, 1, Len(line) - 1) ELSE line
<1> DEFINE n == Len(line)
           kept == {k \in 0..n : k > 1 => ~Straight(line[k - 1], line[k], p)}
<1>1. /\ line \in Seq(Point) /\ n \in Nat /\ n >= 1 /\ Last(line) = line[n]
      /\ \A i \in 1..n : line[i] \in Point
      /\ \A i \in 1..(n - 1) : Aligned(line[i], line[i + 1])
      /\ \A i \in 1..(n - 1) : line[i] # line[i + 1]
      /\ \A i \in 1..(n - 2) : ~Straight(line[i], line[i + 1], line[i + 2])
  BY WalkFacts DEF Walks, Tight
<1>2. Shortened(line, p) = SubSeq(line, 1, Max(kept))
  BY DEF Shortened
<1>3. ASSUME NEW m \in Nat, m \in kept, \A k \in kept : k <= m
      PROVE  Max(kept) = m
  <2> HIDE DEF kept
  <2>1. \A x \in kept : (\A y \in kept : x >= y) <=> x = m
    <3>1. \A x \in kept : x <= m /\ (x >= m => x = m)
      <4>1. \A x \in kept : x \in Int
        BY DEF kept
      <4> QED
        BY <1>3, <4>1
    <3>2. \A y \in kept : m >= y
      BY <1>3
    <3> QED
      BY <1>3, <3>1, <3>2
  <2>2. (CHOOSE x \in kept : \A y \in kept : x >= y) = m
    BY <1>3, <2>1
  <2> QED
    BY <2>2 DEF Max
<1>4. CASE ~(n > 1 /\ Straight(line[n - 1], line[n], p))
  <2>1. n \in kept /\ \A k \in kept : k <= n
    BY <1>1, <1>4
  <2>2. Max(kept) = n
    <3> HIDE DEF kept
    <3> QED
      BY <1>1, <1>3, <2>1
  <2>3. SubSeq(line, 1, n) = line
    BY <1>1, SubSeqFull
  <2> QED
    BY <1>2, <1>4, <2>2, <2>3
<1>5. CASE n > 1 /\ Straight(line[n - 1], line[n], p)
  <2>1. /\ n - 1 \in 1..n /\ n \in 1..n /\ n - 1 \in 1..(n - 1) /\ (n - 1) + 1 = n
    BY <1>1, <1>5
  <2>2. /\ line[n - 1] \in Point /\ line[n] \in Point /\ Aligned(line[n - 1], line[n])
        /\ line[n - 1] # line[n] /\ line[n] # p /\ Aligned(line[n], p)
    BY <1>1, <2>1
  <2>3. Direction(line[n - 1], line[n]) = Direction(line[n], p)
    BY <1>5, <2>2, StraightIs
  <2>4. /\ Aligned(line[n - 1], p) /\ line[n - 1] # p
        /\ Direction(line[n - 1], p) = Direction(line[n - 1], line[n])
    BY <2>2, <2>3, PiecesJoin
  <2>5. n - 1 > 1 => ~Straight(line[n - 2], line[n - 1], p)
    <3>1. SUFFICES ASSUME n - 1 > 1, Straight(line[n - 2], line[n - 1], p) PROVE FALSE
      OBVIOUS
    <3>2. /\ n - 2 \in 1..n /\ n - 2 \in 1..(n - 1) /\ n - 2 \in 1..(n - 2)
          /\ (n - 2) + 1 = n - 1 /\ (n - 2) + 2 = n
      BY <1>1, <3>1
    <3>3. /\ line[n - 2] \in Point /\ Aligned(line[n - 2], line[n - 1])
          /\ line[n - 2] # line[n - 1] /\ ~Straight(line[n - 2], line[n - 1], line[n])
      BY <1>1, <3>2
    <3>4. Direction(line[n - 2], line[n - 1]) = Direction(line[n - 1], p)
      BY <2>2, <2>4, <3>1, <3>3, StraightIs
    <3> QED
      BY <2>2, <2>4, <3>3, <3>4, StraightIs
  <2>6. n - 1 \in kept /\ \A k \in kept : k <= n - 1
    <3>1. (n - 1) - 1 = n - 2 /\ n - 1 \in 0..n
      BY <1>1, <1>5
    <3>2. n \notin kept
      BY <1>5
    <3>3. \A k \in kept : k \in 0..n
      OBVIOUS
    <3>4. n - 1 \in kept
      BY <2>5, <3>1
    <3> HIDE DEF kept
    <3> QED
      BY <1>1, <3>2, <3>3, <3>4
  <2>7. Max(kept) = n - 1
    <3>1. n - 1 \in Nat
      BY <1>1
    <3> HIDE DEF kept
    <3> QED
      BY <1>3, <2>6, <3>1
  <2> QED
    BY <1>2, <1>5, <2>7
<1> QED
  BY <1>4, <1>5

(* One more point, as the code takes it in.                                *)
Tidy(line) == line \in Walks /\ Tight(line)

LEMMA ExtendedIs ==
    ASSUME NEW line \in Walks, Tight(line), NEW p \in Point, Aligned(Last(line), p)
    PROVE  /\ Tidy(Extended(line, p))
           /\ Last(Extended(line, p)) = p
           /\ Extended(line, p)[1] = line[1]
           /\ Motion(Extended(line, p)) = Motion(Append(line, p))
<1> DEFINE n == Len(line)
           a == Last(line)
<1>1. /\ line \in Seq(Point) /\ line # <<>> /\ n \in Nat /\ n >= 1 /\ a = line[n] /\ a \in Point
      /\ \A i \in 1..n : line[i] \in Point
  BY WalkFacts
<1>2. CASE a = p
  <2>1. Extended(line, p) = line
    BY <1>1, <1>2 DEF Extended
  <2>2. UnitSteps(a, p) = <<>>
    <3>1. UnitSteps(a, p) \in Seq(Point) /\ Len(UnitSteps(a, p)) = 0
      BY <1>1, <1>2, UnitStepsAre
    <3> QED
      BY <3>1
  <2>3. Motion(Append(line, p)) = Motion(line)
    <3>1. Motion(Append(line, p)) = Motion(line) \o UnitSteps(a, p)
      BY MotionAppend
    <3>2. Motion(line) \in Seq(Point)
      BY MotionIs
    <3> QED
      BY <2>2, <3>1, <3>2, ConcatEmptySeq
  <2> QED
    BY <1>2, <2>1, <2>3 DEF Tidy
<1>3. CASE a # p
  <2>1. Extended(line, p) = Append(Shortened(line, p), p)
    BY <1>3 DEF Extended
  <2>2. CASE ~(n > 1 /\ Straight(line[n - 1], line[n], p))
    <3>1. Extended(line, p) = Append(line, p)
      BY <1>3, <2>1, <2>2, ShortenedIs
    <3>2. Tight(Append(line, p))
      BY <1>3, <2>2, TightAppend
    <3> QED
      BY <3>1, <3>2, WalkAppend DEF Tidy
  <2>3. CASE n > 1 /\ Straight(line[n - 1], line[n], p)
    <3> DEFINE front == SubSeq(line, 1, n - 1)
               z == line[n - 1]
    <3>1. Extended(line, p) = Append(front, p)
      BY <1>3, <2>1, <2>3, ShortenedIs
    <3>2. /\ front \in Seq(Point) /\ Len(front) = n - 1 /\ front # <<>>
          /\ \A i \in 1..(n - 1) : front[i] = line[i]
      <4>1. \A i \in 1..(n - 1) : line[i] \in Point
        BY <1>1
      <4>2. /\ front \in Seq(Point) /\ Len(front) = n - 1
            /\ \A i \in 1..(n - 1 - 1 + 1) : front[i] = line[1 + i - 1]
        BY <1>1, <2>3, <4>1, SubSeqProperties
      <4>3. /\ \A i \in 1..(n - 1) : i \in 1..(n - 1 - 1 + 1) /\ 1 + i - 1 = i
            /\ n - 1 >= 1
        BY <1>1, <2>3
      <4> HIDE DEF front
      <4>4. ASSUME NEW i \in 1..(n - 1) PROVE front[i] = line[i]
        <5>1. i \in 1..(n - 1 - 1 + 1) /\ 1 + i - 1 = i
          BY <4>3
        <5>2. front[i] = line[1 + i - 1]
          BY <4>2, <5>1
        <5> QED
          BY <5>1, <5>2
      <4>5. front # <<>>
        BY <4>2, <4>3
      <4> QED
        BY <4>2, <4>4, <4>5
    <3>3. line = Append(front, a)
      <4>1. Append(front, a) \in Seq(Point) /\ Len(Append(front, a)) = n
        BY <1>1, <3>2
      <4>2. \A i \in 1..n : Append(front, a)[i] = line[i]
        BY <1>1, <3>2
      <4> QED
        BY <1>1, <4>1, <4>2, SeqEqual
    <3>4. front \in Walks
      BY <1>1, <3>2, <3>3, WalkIsLonger
    <3>5. Last(front) = z /\ z \in Point
      BY <1>1, <2>3, <3>2 DEF Last
    <3>6. /\ n - 1 \in 1..(n - 1) /\ (n - 1) + 1 = n
      BY <1>1, <2>3
    <3>7. Aligned(z, a) /\ z # a
      BY <1>1, <3>6 DEF Walks, Tight
    <3>8. Direction(z, a) = Direction(a, p)
      BY <1>1, <1>3, <2>3, <3>5, <3>7, StraightIs
    <3>9. /\ Aligned(z, p) /\ z # p /\ Direction(z, p) = Direction(z, a)
          /\ UnitSteps(z, a) \o UnitSteps(a, p) = UnitSteps(z, p)
      BY <1>1, <1>3, <3>5, <3>7, <3>8, PiecesJoin
    <3>10. Tight(front)
      <4>1. \A i \in 1..(n - 1 - 1) : i \in 1..(n - 1) /\ i + 1 \in 1..(n - 1)
        BY <1>1
      <4>2. \A i \in 1..(n - 1 - 2) : i \in 1..(n - 2) /\ i \in 1..(n - 1) /\ i + 1 \in 1..(n - 1) /\ i + 2 \in 1..(n - 1)
        BY <1>1
      <4>3. /\ \A i \in 1..(n - 1) : line[i] # line[i + 1]
            /\ \A i \in 1..(n - 2) : ~Straight(line[i], line[i + 1], line[i + 2])
        BY DEF Tight
      <4>4. \A i \in 1..(n - 1 - 1) : front[i] # front[i + 1]
        BY <3>2, <4>1, <4>3
      <4>5. \A i \in 1..(n - 1 - 2) : ~Straight(front[i], front[i + 1], front[i + 2])
        BY <3>2, <4>2, <4>3
      <4> QED
        BY <3>2, <4>4, <4>5 DEF Tight
    <3>11. Len(front) > 1 => ~Straight(front[Len(front) - 1], front[Len(front)], p)
      <4>1. SUFFICES ASSUME n - 1 > 1, Straight(line[n - 2], z, p) PROVE FALSE
        <5>1. n - 1 > 1 => front[n - 2] = line[n - 2] /\ front[n - 1] = z
          BY <1>1, <3>2
        <5>2. (n - 1) - 1 = n - 2
          BY <1>1
        <5> QED
          BY <3>2, <5>1, <5>2
      <4>2. /\ n - 2 \in 1..n /\ n - 2 \in 1..(n - 1) /\ n - 2 \in 1..(n - 2)
            /\ (n - 2) + 1 = n - 1 /\ (n - 2) + 2 = n
        BY <1>1, <4>1
      <4>3. /\ line[n - 2] \in Point /\ Aligned(line[n - 2], z)
            /\ line[n - 2] # z /\ ~Straight(line[n - 2], z, a)
        BY <1>1, <4>2 DEF Walks, Tight
      <4>4. Direction(line[n - 2], z) = Direction(z, p)
        BY <3>5, <3>9, <4>1, <4>3, StraightIs
      <4> QED
        BY <1>1, <3>5, <3>7, <3>9, <4>3, <4>4, StraightIs
    <3>12. /\ Append(front, p) \in Walks /\ Last(Append(front, p)) = p
           /\ Append(front, p)[1] = line[1] /\ Tight(Append(front, p))
      <4>1. front[1] = line[1]
        BY <1>1, <2>3, <3>2
      <4>2. Append(front, p) \in Walks /\ Last(Append(front, p)) = p /\ Append(front, p)[1] = front[1]
        BY <3>4, <3>5, <3>9, WalkAppend
      <4>3. Tight(Append(front, p))
        BY <3>4, <3>5, <3>9, <3>10, <3>11, TightAppend
      <4> QED
        BY <4>1, <4>2, <4>3
    <3>13. Motion(Append(front, p)) = Motion(Append(line, p))
      <4> DEFINE m == Motion(front)
                 s == UnitSteps(z, a)
                 t == UnitSteps(a, p)
      <4>1. m \in Seq(Point) /\ s \in Seq(Point) /\ t \in Seq(Point)
        BY <1>1, <3>4, <3>5, <3>7, MotionIs, UnitStepsAre
      <4>2. Motion(Append(front, p)) = m \o UnitSteps(z, p)
        BY <3>4, <3>5, <3>9, MotionAppend
      <4>3. Motion(line) = m \o s
        BY <1>1, <3>3, <3>4, <3>5, <3>7, MotionAppend
      <4>4. Motion(Append(line, p)) = Motion(line) \o t
        BY MotionAppend
      <4>5. UnitSteps(z, p) = s \o t
        BY <3>9
      <4> HIDE DEF m, s, t, front
      <4>6. (m \o s) \o t = m \o (s \o t)
        BY <4>1, ConcatAssociative
      <4> QED
        BY <4>2, <4>3, <4>4, <4>5, <4>6
    <3> QED
      BY <3>1, <3>12, <3>13 DEF Tidy
  <2> QED
    BY <2>2, <2>3
<1> QED
  BY <1>2, <1>3

(* Canonical lines are canonical, and the robot moves the same on them.    *)
LEMMA CanonicalFacts ==
    ASSUME NEW line \in Walks
    PROVE  /\ Tidy(Canonical(line)) /\ Canonical(line)[1] = line[1]
           /\ Motion(Canonical(line)) = Motion(line)
<1> DEFINE Fine(s) == /\ Tidy(Canonical(s)) /\ Canonical(s)[1] = s[1]
                      /\ Last(Canonical(s)) = Last(s)
                      /\ Motion(Canonical(s)) = Motion(s)
           Good == {s \in Walks : Fine(s)}
<1>1. ASSUME NEW p \in Point PROVE <<p>> \in Good
  <2>1. Canonical(<<p>>) = Extended(<<>>, p)
    <3>1. <<>> \in Seq(Point) /\ Append(<<>>, p) = <<p>>
      OBVIOUS
    <3> QED
      BY <3>1, CanonicalAppend, CanonicalEmpty
  <2>2. Extended(<<>>, p) = Append(Shortened(<<>>, p), p)
    BY DEF Extended
  <2>3. Shortened(<<>>, p) = <<>>
    <3> DEFINE kept == {k \in 0..Len(<<>>) : k > 1 => ~Straight(<<>>[k - 1], <<>>[k], p)}
    <3>1. Shortened(<<>>, p) = SubSeq(<<>>, 1, Max(kept))
      BY DEF Shortened
    <3>2. kept = {0}
      OBVIOUS
    <3>3. Max({0}) = 0
      <4>1. \A x \in {0} : (\A y \in {0} : x >= y) <=> x = 0
        OBVIOUS
      <4> QED
        BY <4>1 DEF Max
    <3>4. SubSeq(<<>>, 1, 0) = <<>>
      BY SubSeqEmpty
    <3> HIDE DEF kept
    <3> QED
      BY <3>1, <3>2, <3>3, <3>4
  <2>4. Canonical(<<p>>) = <<p>>
    BY <2>1, <2>2, <2>3
  <2>5. Tidy(<<p>>)
    BY OneIsWalk DEF Tidy, Tight
  <2> QED
    BY <2>4, <2>5, OneIsWalk
<1>2. ASSUME NEW s \in Walks, NEW p \in Point, s \in Good, Aligned(Last(s), p)
      PROVE  Append(s, p) \in Good
  <2> DEFINE c == Canonical(s)
             t == Append(s, p)
  <2>1. c \in Walks /\ Tight(c) /\ c[1] = s[1] /\ Last(c) = Last(s) /\ Motion(c) = Motion(s)
    BY <1>2 DEF Tidy
  <2>2. s \in Seq(Point) /\ t \in Walks /\ t[1] = s[1] /\ Last(t) = p
    BY <1>2, WalkFacts, WalkAppend
  <2>3. Canonical(t) = Extended(c, p)
    BY <2>2, CanonicalAppend
  <2> HIDE DEF c, t
  <2>4. /\ Tidy(Extended(c, p)) /\ Last(Extended(c, p)) = p
        /\ Extended(c, p)[1] = c[1] /\ Motion(Extended(c, p)) = Motion(Append(c, p))
    BY <1>2, <2>1, ExtendedIs
  <2>5. Motion(Append(c, p)) = Motion(t)
    BY <1>2, <2>1, MotionAppend DEF t
  <2>6. Fine(t)
    BY <2>1, <2>2, <2>3, <2>4, <2>5
  <2> QED
    BY <2>2, <2>6 DEF t
<1>3. line \in Good
  <2> HIDE DEF Good
  <2> QED
    BY <1>1, <1>2, WalksGrow
<1> QED
  BY <1>3

(* The last piece of a line, in its motion.                                *)
LEMMA LastLeg ==
    ASSUME NEW line \in Walks, NEW p \in Point, Tidy(Append(line, p))
    PROVE  /\ Last(line) \in Point /\ Last(line) # p /\ Aligned(Last(line), p)
           /\ Direction(Last(line), p) \in Point
           /\ PieceLength(Last(line), p) \in Nat /\ PieceLength(Last(line), p) >= 1
           /\ Last(line) = Ahead(p, Direction(Last(line), p), -PieceLength(Last(line), p))
           /\ Len(Motion(Append(line, p))) = Len(Motion(line)) + PieceLength(Last(line), p)
           /\ \A k \in 0..PieceLength(Last(line), p) :
                 Motion(Append(line, p))[Len(Motion(line)) + k] =
                    Ahead(Last(line), Direction(Last(line), p), k)
           /\ \A i \in 1..Len(Motion(line)) : Motion(Append(line, p))[i] = Motion(line)[i]
<1> DEFINE a == Last(line)
           d == Direction(a, p)
           n == PieceLength(a, p)
           u == UnitSteps(a, p)
           m == Motion(line)
           next == Append(line, p)
<1>1. a \in Point /\ a = line[Len(line)] /\ line \in Seq(Point) /\ Len(line) \in Nat /\ Len(line) >= 1
  BY WalkFacts
<1>2. Aligned(a, p)
  BY WalkAppend DEF Tidy
<1>3. a # p
  <2>1. Len(next) = Len(line) + 1 /\ next[Len(line)] = a /\ next[Len(line) + 1] = p
    BY <1>1
  <2>2. Len(line) \in 1..(Len(next) - 1)
    BY <1>1, <2>1
  <2> QED
    BY <2>1, <2>2 DEF Tidy, Tight
<1>4. d \in Point
  BY <1>1, <1>2, <1>3, AxisCases DEF Point
<1>5. /\ n \in Nat /\ n >= 1 /\ u \in Seq(Point) /\ Len(u) = n
      /\ \A k \in 1..n : u[k] = Ahead(a, d, k)
      /\ Ahead(a, d, n) = p
  <2>1. /\ n \in Nat /\ (n = 0 <=> a = p) /\ u \in Seq(Point) /\ Len(u) = n
        /\ \A k \in 1..n : u[k] = Ahead(a, d, k)
        /\ Ahead(a, d, n) = p
    BY <1>1, <1>2, UnitStepsAre
  <2> QED
    BY <1>3, <2>1
<1>6. /\ m \in Seq(Point) /\ Len(m) \in Nat /\ Len(m) >= 1 /\ m[Len(m)] = a
  BY MotionIs
<1>7. Motion(next) = m \o u
  BY <1>2, MotionAppend
<1> HIDE DEF a, d, n, u, m, next
<1>8. /\ Len(m \o u) = Len(m) + n
      /\ \A i \in 1..(Len(m) + n) : (m \o u)[i] = IF i <= Len(m) THEN m[i] ELSE u[i - Len(m)]
  BY <1>5, <1>6, ConcatProperties
<1>9. Ahead(a, d, 0) = a
  <2>1. a[1] \in Int /\ a[2] \in Int /\ d[1] \in Int /\ d[2] \in Int /\ a = <<a[1], a[2]>>
    BY <1>1, <1>4, PointIs
  <2> QED
    BY <2>1 DEF Ahead
<1>10. ASSUME NEW k \in 0..n PROVE Motion(next)[Len(m) + k] = Ahead(a, d, k)
  <2>1. CASE k = 0
    <3>1. Len(m) + k \in 1..(Len(m) + n) /\ Len(m) + k <= Len(m) /\ Len(m) + k = Len(m)
      BY <1>5, <1>6, <2>1
    <3> QED
      BY <1>6, <1>7, <1>8, <1>9, <2>1, <3>1
  <2>2. CASE k # 0
    <3>1. /\ Len(m) + k \in 1..(Len(m) + n) /\ ~(Len(m) + k <= Len(m)) /\ (Len(m) + k) - Len(m) = k
          /\ k \in 1..n
      BY <1>5, <1>6, <2>2
    <3> QED
      BY <1>5, <1>7, <1>8, <3>1
  <2> QED
    BY <2>1, <2>2
<1>11. ASSUME NEW i \in 1..Len(m) PROVE Motion(next)[i] = m[i]
  <2>1. i \in 1..(Len(m) + n) /\ i <= Len(m)
    BY <1>5, <1>6
  <2> QED
    BY <1>7, <1>8, <2>1
<1>12. a = Ahead(p, d, -n)
  <2>1. n \in Int /\ -n \in Int /\ n + (-n) = 0
    BY <1>5
  <2>2. Ahead(Ahead(a, d, n), d, -n) = Ahead(a, d, n + (-n))
    BY <1>1, <1>4, <2>1, AheadAdds
  <2> QED
    BY <1>5, <1>9, <2>1, <2>2
<1> QED
  BY <1>1, <1>2, <1>3, <1>4, <1>5, <1>7, <1>8, <1>10, <1>11, <1>12 DEF a, d, n, u, m, next

LEMMA TidyIsLonger ==
    ASSUME NEW line \in Walks, NEW p \in Point, Tidy(Append(line, p))
    PROVE  Tidy(line)
<1> DEFINE next == Append(line, p)
<1>1. /\ Len(next) = Len(line) + 1 /\ \A k \in 1..Len(line) : next[k] = line[k]
  BY WalkFacts
<1>2. /\ \A k \in 1..(Len(next) - 1) : next[k] # next[k + 1]
      /\ \A k \in 1..(Len(next) - 2) : ~Straight(next[k], next[k + 1], next[k + 2])
  BY DEF Tidy, Tight
<1> HIDE DEF next
<1>3. ASSUME NEW k \in 1..(Len(line) - 1) PROVE line[k] # line[k + 1]
  <2>1. k \in 1..(Len(next) - 1) /\ k \in 1..Len(line) /\ k + 1 \in 1..Len(line)
    BY <1>1, WalkFacts
  <2> QED
    BY <1>1, <1>2, <2>1
<1>4. ASSUME NEW k \in 1..(Len(line) - 2) PROVE ~Straight(line[k], line[k + 1], line[k + 2])
  <2>1. /\ k \in 1..(Len(next) - 2) /\ k \in 1..Len(line) /\ k + 1 \in 1..Len(line)
        /\ k + 2 \in 1..Len(line)
    BY <1>1, WalkFacts
  <2> QED
    BY <1>1, <1>2, <2>1
<1> QED
  BY <1>3, <1>4 DEF Tidy, Tight

(* The point before one tells the direction in which it is reached.        *)
LEMMA BehindTells ==
    ASSUME NEW p \in Point, NEW d \in Point, NEW e \in Point, Ahead(p, d, -1) = Ahead(p, e, -1)
    PROVE  d = e
<1>1. /\ p[1] \in Int /\ p[2] \in Int /\ d[1] \in Int /\ d[2] \in Int /\ e[1] \in Int /\ e[2] \in Int
      /\ d = <<d[1], d[2]>> /\ e = <<e[1], e[2]>>
  BY PointIs
<1>2. p[1] + (-1) * d[1] = p[1] + (-1) * e[1] /\ p[2] + (-1) * d[2] = p[2] + (-1) * e[2]
  BY DEF Ahead
<1>3. d[1] = e[1] /\ d[2] = e[2]
  BY <1>1, <1>2
<1> QED
  BY <1>1, <1>3

LEMMA Behind ==
    ASSUME NEW p \in Point, NEW d \in Point, NEW a \in Point, NEW n \in Nat, a = Ahead(p, d, -n),
           NEW k \in Int
    PROVE  Ahead(a, d, k) = Ahead(p, d, k - n)
<1>1. -n \in Int /\ -n + k = k - n
  OBVIOUS
<1> QED
  BY <1>1, AheadAdds

(* With the same motion, the last pieces of canonical lines are the same.  *)
LEMMA LastLegsSame ==
    ASSUME NEW one \in Walks, NEW two \in Walks, NEW p \in Point,
           Tidy(Append(one, p)), Tidy(Append(two, p)),
           Motion(Append(one, p)) = Motion(Append(two, p))
    PROVE  /\ Direction(Last(one), p) = Direction(Last(two), p)
           /\ ~(PieceLength(Last(one), p) < PieceLength(Last(two), p))
<1> DEFINE a == Last(one)
           b == Last(two)
           d == Direction(a, p)
           e == Direction(b, p)
           m == PieceLength(a, p)
           n == PieceLength(b, p)
           i == Len(Motion(one))
           j == Len(Motion(two))
           way == Motion(Append(one, p))
<1>1. /\ a \in Point /\ a # p /\ Aligned(a, p) /\ d \in Point /\ m \in Nat /\ m >= 1
      /\ a = Ahead(p, d, -m) /\ Len(way) = i + m
      /\ \A k \in 0..m : way[i + k] = Ahead(a, d, k)
      /\ \A k \in 1..i : way[k] = Motion(one)[k]
  BY LastLeg
<1>2. /\ b \in Point /\ e \in Point /\ n \in Nat /\ n >= 1
      /\ b = Ahead(p, e, -n) /\ Len(way) = j + n
      /\ \A k \in 0..n : way[j + k] = Ahead(b, e, k)
  BY LastLeg
<1>3. i \in Nat /\ i >= 1 /\ j \in Nat /\ j >= 1
  BY MotionIs
<1>4. a = one[Len(one)] /\ one \in Seq(Point) /\ Len(one) \in Nat /\ Len(one) >= 1
  BY WalkFacts
<1> HIDE DEF a, b, d, e, m, n, i, j, way
<1>5. i + m = j + n
  BY <1>1, <1>2
<1>6. d = e
  <2>1. m - 1 \in 0..m /\ n - 1 \in 0..n /\ i + (m - 1) = j + (n - 1) /\ m - 1 \in Int /\ n - 1 \in Int
        /\ (m - 1) - m = -1 /\ (n - 1) - n = -1
    BY <1>1, <1>2, <1>3, <1>5
  <2>2. way[i + (m - 1)] = Ahead(a, d, m - 1) /\ Ahead(a, d, m - 1) = Ahead(p, d, -1)
    BY <1>1, <2>1, Behind
  <2>3. way[j + (n - 1)] = Ahead(b, e, n - 1) /\ Ahead(b, e, n - 1) = Ahead(p, e, -1)
    BY <1>2, <2>1, Behind
  <2>4. Ahead(p, d, -1) = Ahead(p, e, -1)
    BY <2>1, <2>2, <2>3
  <2> QED
    BY <1>1, <1>2, <2>4, BehindTells
<1>7. ASSUME m < n PROVE FALSE
  <2>1. one # <<>>
    BY <1>4
  <2>2. PICK start \in Seq(Point), x \in Point : one = Append(start, x)
    BY <1>4, <2>1, SequenceEmptyOrAppend
  <2>3. x = a
    BY <1>4, <2>2
  <2>4. start # <<>>
    <3>1. SUFFICES ASSUME start = <<>> PROVE FALSE
      OBVIOUS
    <3>2. one = <<x>>
      BY <2>2, <3>1
    <3>3. i = 1
      BY <3>2, MotionOfOne DEF i
    <3> QED
      BY <1>1, <1>2, <1>3, <1>5, <1>7, <3>3
  <2>5. start \in Walks
    BY <2>2, <2>4, WalkIsLonger
  <2> DEFINE next == Append(one, p)
             z == Last(start)
             f == Direction(z, a)
             l == PieceLength(z, a)
  <2>6. Tidy(one)
    BY TidyIsLonger
  <2>7. /\ z \in Point /\ z # a /\ Aligned(z, a) /\ f \in Point /\ l \in Nat /\ l >= 1
        /\ z = Ahead(a, f, -l) /\ i = Len(Motion(start)) + l
        /\ \A k \in 0..l : Motion(one)[Len(Motion(start)) + k] = Ahead(z, f, k)
    BY <2>2, <2>3, <2>5, <2>6, LastLeg DEF i
  <2>8. Len(Motion(start)) \in Nat /\ Len(Motion(start)) >= 1
    BY <2>5, MotionIs
  <2> HIDE DEF f, l
  <2>9. f = d
    <3>1. /\ l - 1 \in 0..l /\ Len(Motion(start)) + (l - 1) = i - 1 /\ (l - 1) - l = -1 /\ l - 1 \in Int
          /\ i - 1 \in 1..i
      BY <1>3, <2>7, <2>8
    <3>2. way[i - 1] = Ahead(z, f, l - 1) /\ Ahead(z, f, l - 1) = Ahead(a, f, -1)
      <4>1. Motion(one)[Len(Motion(start)) + (l - 1)] = Ahead(z, f, l - 1)
        BY <2>7, <3>1
      <4>2. Ahead(z, f, l - 1) = Ahead(a, f, (l - 1) - l)
        BY <1>1, <2>7, <3>1, Behind
      <4> QED
        BY <1>1, <3>1, <4>1, <4>2
    <3> DEFINE k == n - m - 1
    <3>a. /\ m \in Nat /\ n \in Nat /\ i \in Nat /\ j \in Nat
          /\ i + m = j + n /\ m < n
      BY <1>1, <1>2, <1>3, <1>5, <1>7
    <3>b. k \in 0..n /\ k \in Int /\ -1 \in Int
      BY ONLY <3>a
    <3>c. j + k = i - 1
      BY ONLY <3>a
    <3>d. k - n = -1 - m
      BY ONLY <3>a
    <3>3. k \in 0..n /\ j + k = i - 1 /\ k \in Int /\ k - n = -1 - m /\ -1 \in Int
      BY <3>b, <3>c, <3>d
    <3> HIDE DEF k
    <3>4. way[i - 1] = Ahead(b, e, k)
      BY <1>2, <3>3
    <3>5. Ahead(b, e, k) = Ahead(p, e, k - n)
      BY <1>2, <3>3, Behind
    <3>6. Ahead(a, d, -1) = Ahead(p, d, -1 - m)
      BY <1>1, <3>3, Behind
    <3>7. Ahead(a, f, -1) = Ahead(a, d, -1)
      BY <1>6, <3>2, <3>3, <3>4, <3>5, <3>6
    <3> QED
      BY <1>1, <2>7, <3>7, BehindTells
  <2>10. Straight(z, a, p)
    BY <1>1, <2>7, <2>9, StraightIs DEF d, f
  <2>11. ~Straight(z, a, p)
    <3> DEFINE c == Len(start)
    <3>1. /\ c \in Nat /\ c >= 1 /\ z = start[c] /\ Len(one) = c + 1 /\ Len(next) = c + 2
          /\ one[c] = start[c] /\ one[c + 1] = a
          /\ next[c + 2] = p
      BY <2>2, <2>3, <2>4 DEF Last
    <3>2. next[c] = one[c] /\ next[c + 1] = one[c + 1]
      BY <1>4, <3>1
    <3>3. c \in 1..(Len(next) - 2)
      BY <3>1
    <3> HIDE DEF next, c
    <3>4. \A k \in 1..(Len(next) - 2) : ~Straight(next[k], next[k + 1], next[k + 2])
      BY DEF Tidy, Tight, next
    <3>5. ~Straight(next[c], next[c + 1], next[c + 2])
      BY <3>3, <3>4
    <3> QED
      BY <3>1, <3>2, <3>5
  <2> QED
    BY <2>10, <2>11
<1> QED
  BY <1>6, <1>7 DEF a, b, d, e, m, n

(* Canonical lines with the same motion are the same line.                 *)
LEMMA MotionTells ==
    ASSUME NEW line \in Walks, Tidy(line), NEW other \in Walks, Tidy(other),
           Motion(line) = Motion(other)
    PROVE  line = other
<1> DEFINE Good == {s \in Walks : \A t \in Walks :
                       Tidy(s) /\ Tidy(t) /\ Motion(s) = Motion(t) => s = t}
<1>1. \A t \in Walks : \/ \E q \in Point : t = <<q>>
                       \/ \E s \in Walks, q \in Point : t = Append(s, q)
  <2>1. TAKE t \in Walks
  <2>2. t \in Seq(Point) /\ t # <<>>
    BY WalkFacts
  <2>3. PICK s \in Seq(Point), q \in Point : t = Append(s, q)
    BY <2>2, SequenceEmptyOrAppend
  <2>4. CASE s = <<>>
    <3>1. t = <<q>>
      BY <2>3, <2>4
    <3> QED
      BY <3>1
  <2>5. CASE s # <<>>
    <3>1. s \in Walks
      BY <2>3, <2>5, WalkIsLonger
    <3> QED
      BY <2>3, <3>1
  <2> QED
    BY <2>4, <2>5
<1>2. ASSUME NEW s \in Walks, NEW q \in Point, Tidy(Append(s, q))
      PROVE  Len(Motion(Append(s, q))) # 1
  <2>1. Len(Motion(s)) \in Nat /\ Len(Motion(s)) >= 1
    BY MotionIs
  <2>2. /\ PieceLength(Last(s), q) \in Nat /\ PieceLength(Last(s), q) >= 1
        /\ Len(Motion(Append(s, q))) = Len(Motion(s)) + PieceLength(Last(s), q)
    BY <1>2, LastLeg
  <2> QED
    BY <2>1, <2>2
<1>3. ASSUME NEW p \in Point PROVE <<p>> \in Good
  <2>1. <<p>> \in Walks /\ Motion(<<p>>) = <<p>>
    BY OneIsWalk, MotionOfOne
  <2>2. ASSUME NEW t \in Walks, Tidy(t), Motion(<<p>>) = Motion(t) PROVE <<p>> = t
    <3>1. Len(Motion(t)) = 1
      BY <2>1, <2>2
    <3>2. PICK q \in Point : t = <<q>>
      BY <1>1, <1>2, <2>2, <3>1
    <3>3. Motion(t) = <<q>>
      BY <3>2, MotionOfOne
    <3> QED
      BY <2>1, <2>2, <3>2, <3>3
  <2> QED
    BY <2>1, <2>2
<1>4. ASSUME NEW s \in Walks, NEW p \in Point, s \in Good, Aligned(Last(s), p)
      PROVE  Append(s, p) \in Good
  <2> DEFINE next == Append(s, p)
  <2>1. next \in Walks /\ Last(next) = p
    BY <1>4, WalkAppend
  <2>2. ASSUME NEW t \in Walks, Tidy(next), Tidy(t), Motion(next) = Motion(t) PROVE next = t
    <3>1. Len(Motion(t)) # 1
      BY <1>2, <2>2
    <3>2. \A q \in Point : t # <<q>>
      BY <3>1, MotionOfOne
    <3>3. PICK r \in Walks, q \in Point : t = Append(r, q)
      BY <1>1, <3>2
    <3>4. q = p
      <4>1. Motion(next)[Len(Motion(next))] = Last(next) /\ Motion(t)[Len(Motion(t))] = Last(t)
        BY <2>1, MotionIs
      <4>2. Last(t) = q
        BY <3>3, WalkAppend
      <4> QED
        BY <2>1, <2>2, <4>1, <4>2
    <3> DEFINE a == Last(s)
               b == Last(r)
               m == PieceLength(a, p)
               n == PieceLength(b, p)
               d == Direction(a, p)
               e == Direction(b, p)
    <3>5. d = e /\ ~(m < n) /\ ~(n < m)
      BY <2>2, <3>3, <3>4, LastLegsSame
    <3>6. /\ m \in Nat /\ a = Ahead(p, d, -m) /\ Len(Motion(next)) = Len(Motion(s)) + m
          /\ \A i \in 1..Len(Motion(s)) : Motion(next)[i] = Motion(s)[i]
      BY <2>2, LastLeg
    <3>7. /\ n \in Nat /\ b = Ahead(p, e, -n) /\ Len(Motion(t)) = Len(Motion(r)) + n
          /\ \A i \in 1..Len(Motion(r)) : Motion(t)[i] = Motion(r)[i]
      BY <2>2, <3>3, <3>4, LastLeg
    <3> HIDE DEF m, n, d, e
    <3>8. m = n
      BY <3>5, <3>6, <3>7
    <3>9. Motion(s) = Motion(r)
      <4>1. /\ Motion(s) \in Seq(Point) /\ Len(Motion(s)) \in Nat
            /\ Motion(r) \in Seq(Point) /\ Len(Motion(r)) \in Nat
        BY MotionIs
      <4>2. Len(Motion(s)) = Len(Motion(r))
        BY <2>2, <3>6, <3>7, <3>8, <4>1
      <4>3. \A i \in 1..Len(Motion(s)) : Motion(s)[i] = Motion(r)[i]
        BY <2>2, <3>6, <3>7, <4>2
      <4> QED
        BY <4>1, <4>2, <4>3, SeqEqual
    <3>10. Tidy(s) /\ Tidy(r)
      BY <2>2, <3>3, TidyIsLonger
    <3>11. s = r
      BY <1>4, <3>9, <3>10
    <3> QED
      BY <3>3, <3>4, <3>11
  <2> QED
    BY <2>1, <2>2
<1>5. line \in Good
  <2> HIDE DEF Good
  <2> QED
    BY <1>3, <1>4, WalksGrow
<1> QED
  BY <1>5

-----------------------------------------------------------------------------
(* Two walks have the same motion exactly when they have the same canonical *)
(* line.                                                                   *)
LEMMA CanonicalTells ==
    ASSUME NEW one \in Walks, NEW two \in Walks
    PROVE  Canonical(one) = Canonical(two) <=> Motion(one) = Motion(two)
<1>1. /\ Tidy(Canonical(one)) /\ Motion(Canonical(one)) = Motion(one)
      /\ Tidy(Canonical(two)) /\ Motion(Canonical(two)) = Motion(two)
  BY CanonicalFacts
<1>2. Canonical(one) \in Walks /\ Canonical(two) \in Walks
  BY <1>1 DEF Tidy
<1> QED
  BY <1>1, <1>2, MotionTells

(* The rest of a piece from a point on it on stays on the piece and has    *)
(* its direction.                                                          *)
LEMMA RestOfPiece ==
    ASSUME NEW a \in Point, NEW b \in Point, Aligned(a, b), a # b, NEW y \in PointsOn(a, b), y # b
    PROVE  /\ y \in Point /\ Aligned(y, b) /\ Direction(y, b) = Direction(a, b)
           /\ PieceLength(y, b) \in Nat /\ PieceLength(y, b) >= 1
           /\ \A k \in 0..PieceLength(y, b) : Ahead(y, Direction(a, b), k) \in PointsOn(a, b)
<1>1. /\ a[1] \in Int /\ a[2] \in Int /\ b[1] \in Int /\ b[2] \in Int
      /\ b = <<b[1], b[2]>>
  BY PointIs
<1>2. /\ y \in Point /\ y = <<y[1], y[2]>> /\ y[1] \in Int /\ y[2] \in Int
      /\ Lesser(a[1], b[1]) <= y[1] /\ y[1] <= Greater(a[1], b[1])
      /\ Lesser(a[2], b[2]) <= y[2] /\ y[2] <= Greater(a[2], b[2])
  BY <1>1 DEF PointsOn, Lesser, Greater, Point
<1>3. y[1] # b[1] \/ y[2] # b[2]
  BY <1>1, <1>2
<1> DEFINE n == PieceLength(y, b)
<1>4. CASE a[1] = b[1] /\ a[2] < b[2] /\ Direction(a, b) = <<0, 1>>
  <2>1. y[1] = b[1] /\ y[2] < b[2] /\ a[2] <= y[2]
    BY <1>1, <1>2, <1>3, <1>4 DEF Lesser, Greater
  <2>2. Aligned(y, b)
    BY <2>1 DEF Aligned
  <2>3. Direction(y, b) = <<0, 1>> /\ n = b[2] - y[2]
    BY <1>1, <1>2, <2>1, <2>2, AxisCases
  <2>4. ASSUME NEW k \in 0..n PROVE Ahead(y, <<0, 1>>, k) \in PointsOn(a, b)
    <3>1. Ahead(y, <<0, 1>>, k) = <<y[1], y[2] + k>>
      BY <1>1, <1>2, <2>3, AheadUp
    <3>2. /\ a[1] <= y[1] /\ y[1] <= a[1] /\ a[2] <= y[2] + k /\ y[2] + k <= b[2]
          /\ y[2] + k \in Int
      BY <1>1, <1>2, <1>4, <2>1, <2>3
    <3>3. PointsOn(a, b) = (a[1]..a[1]) \X (a[2]..b[2])
      BY <1>1, <1>4 DEF PointsOn, Lesser, Greater
    <3> QED
      BY <1>1, <1>2, <3>1, <3>2, <3>3
  <2> QED
    BY <1>1, <1>2, <1>4, <2>1, <2>2, <2>3, <2>4
<1>5. CASE a[1] = b[1] /\ a[2] > b[2] /\ Direction(a, b) = <<0, -1>>
  <2>1. y[1] = b[1] /\ y[2] > b[2] /\ y[2] <= a[2]
    BY <1>1, <1>2, <1>3, <1>5 DEF Lesser, Greater
  <2>2. Aligned(y, b)
    BY <2>1 DEF Aligned
  <2>3. Direction(y, b) = <<0, -1>> /\ n = y[2] - b[2]
    BY <1>1, <1>2, <2>1, <2>2, AxisCases
  <2>4. ASSUME NEW k \in 0..n PROVE Ahead(y, <<0, -1>>, k) \in PointsOn(a, b)
    <3>1. Ahead(y, <<0, -1>>, k) = <<y[1], y[2] - k>>
      BY <1>1, <1>2, <2>3, AheadDown
    <3>2. /\ a[1] <= y[1] /\ y[1] <= a[1] /\ b[2] <= y[2] - k /\ y[2] - k <= a[2]
          /\ y[2] - k \in Int
      BY <1>1, <1>2, <1>5, <2>1, <2>3
    <3>3. PointsOn(a, b) = (a[1]..a[1]) \X (b[2]..a[2])
      BY <1>1, <1>5 DEF PointsOn, Lesser, Greater
    <3> QED
      BY <1>1, <1>2, <3>1, <3>2, <3>3
  <2> QED
    BY <1>1, <1>2, <1>5, <2>1, <2>2, <2>3, <2>4
<1>6. CASE a[2] = b[2] /\ a[1] < b[1] /\ Direction(a, b) = <<1, 0>>
  <2>1. y[2] = b[2] /\ y[1] < b[1] /\ a[1] <= y[1]
    BY <1>1, <1>2, <1>3, <1>6 DEF Lesser, Greater
  <2>2. Aligned(y, b)
    BY <2>1 DEF Aligned
  <2>3. Direction(y, b) = <<1, 0>> /\ n = b[1] - y[1]
    BY <1>1, <1>2, <2>1, <2>2, AxisCases
  <2>4. ASSUME NEW k \in 0..n PROVE Ahead(y, <<1, 0>>, k) \in PointsOn(a, b)
    <3>1. Ahead(y, <<1, 0>>, k) = <<y[1] + k, y[2]>>
      BY <1>1, <1>2, <2>3, AheadRight
    <3>2. /\ a[2] <= y[2] /\ y[2] <= a[2] /\ a[1] <= y[1] + k /\ y[1] + k <= b[1]
          /\ y[1] + k \in Int
      BY <1>1, <1>2, <1>6, <2>1, <2>3
    <3>3. PointsOn(a, b) = (a[1]..b[1]) \X (a[2]..a[2])
      BY <1>1, <1>6 DEF PointsOn, Lesser, Greater
    <3> QED
      BY <1>1, <1>2, <3>1, <3>2, <3>3
  <2> QED
    BY <1>1, <1>2, <1>6, <2>1, <2>2, <2>3, <2>4
<1>7. CASE a[2] = b[2] /\ a[1] > b[1] /\ Direction(a, b) = <<-1, 0>>
  <2>1. y[2] = b[2] /\ y[1] > b[1] /\ y[1] <= a[1]
    BY <1>1, <1>2, <1>3, <1>7 DEF Lesser, Greater
  <2>2. Aligned(y, b)
    BY <2>1 DEF Aligned
  <2>3. Direction(y, b) = <<-1, 0>> /\ n = y[1] - b[1]
    BY <1>1, <1>2, <2>1, <2>2, AxisCases
  <2>4. ASSUME NEW k \in 0..n PROVE Ahead(y, <<-1, 0>>, k) \in PointsOn(a, b)
    <3>1. Ahead(y, <<-1, 0>>, k) = <<y[1] - k, y[2]>>
      BY <1>1, <1>2, <2>3, AheadLeft
    <3>2. /\ a[2] <= y[2] /\ y[2] <= a[2] /\ b[1] <= y[1] - k /\ y[1] - k <= a[1]
          /\ y[1] - k \in Int
      BY <1>1, <1>2, <1>7, <2>1, <2>3
    <3>3. PointsOn(a, b) = (b[1]..a[1]) \X (a[2]..a[2])
      BY <1>1, <1>7 DEF PointsOn, Lesser, Greater
    <3> QED
      BY <1>1, <1>2, <3>1, <3>2, <3>3
  <2> QED
    BY <1>1, <1>2, <1>7, <2>1, <2>2, <2>3, <2>4
<1> QED
  BY <1>4, <1>5, <1>6, <1>7, AxisCases

(* The ends of a piece are on it, and what is nearest to a point is.       *)
LEMMA EndsOfPiece ==
    ASSUME NEW a \in Point, NEW b \in Point
    PROVE  /\ a \in PointsOn(a, b) /\ b \in PointsOn(a, b)
           /\ \A p \in Point : Nearest(p, a, b) \in PointsOn(a, b)
           /\ \A p \in PointsOn(a, b) : p \in Point /\ Nearest(p, a, b) = p
           /\ \A p \in Point : Nearest(p, a, b) = p => p \in PointsOn(a, b)
<1>1. /\ a[1] \in Int /\ a[2] \in Int /\ b[1] \in Int /\ b[2] \in Int
      /\ a = <<a[1], a[2]>> /\ b = <<b[1], b[2]>>
  BY PointIs
<1>2. /\ a[1] \in Lesser(a[1], b[1])..Greater(a[1], b[1])
      /\ b[1] \in Lesser(a[1], b[1])..Greater(a[1], b[1])
      /\ a[2] \in Lesser(a[2], b[2])..Greater(a[2], b[2])
      /\ b[2] \in Lesser(a[2], b[2])..Greater(a[2], b[2])
  BY <1>1 DEF Lesser, Greater
<1>3. \A x, y, z \in Int : Between(x, y, z) \in Lesser(y, z)..Greater(y, z)
  BY DEF Between, Lesser, Greater
<1>4. \A y, z \in Int : \A x \in Lesser(y, z)..Greater(y, z) : x \in Int /\ Between(x, y, z) = x
  BY DEF Between, Lesser, Greater
<1>5. a \in PointsOn(a, b) /\ b \in PointsOn(a, b)
  BY <1>1, <1>2 DEF PointsOn
<1>6. ASSUME NEW p \in Point PROVE Nearest(p, a, b) \in PointsOn(a, b)
  <2>1. p[1] \in Int /\ p[2] \in Int
    BY PointIs
  <2> QED
    BY <1>1, <1>3, <2>1 DEF PointsOn, Nearest
<1>7. ASSUME NEW p \in PointsOn(a, b) PROVE p \in Point /\ Nearest(p, a, b) = p
  <2>1. /\ p[1] \in Lesser(a[1], b[1])..Greater(a[1], b[1])
        /\ p[2] \in Lesser(a[2], b[2])..Greater(a[2], b[2]) /\ p = <<p[1], p[2]>>
    BY DEF PointsOn
  <2>2. p[1] \in Int /\ p[2] \in Int
    BY <1>1, <1>4, <2>1
  <2>3. Between(p[1], a[1], b[1]) = p[1] /\ Between(p[2], a[2], b[2]) = p[2]
    BY <1>1, <1>4, <2>1
  <2>4. p \in Point
    BY <2>1, <2>2 DEF Point
  <2> QED
    BY <2>1, <2>3, <2>4 DEF Nearest
<1> QED
  BY <1>5, <1>6, <1>7

-----------------------------------------------------------------------------
(* The step that passes from a point to the next: there is only one.       *)
Passes(line, p, q) ==
    \E a, b \in Point :
        /\ Succession(line, a, b) /\ a # b
        /\ p \in PointsOn(a, b) /\ q \in PointsOn(a, b) /\ q = Ahead(p, Direction(a, b), 1)

LEMMA StepIs ==
    ASSUME NEW g \in GraphNames, NEW s \in StepsOf(g)
    PROVE  /\ s[1] \in DOMAIN Graphs[g].edge /\ s[2] \in {1, -1} /\ s = <<s[1], s[2]>>
           /\ Graphs[g].edge[s[1]] \in EdgeType
           /\ Graphs[g].edge[s[1]].line \in Seq(Point)
           /\ AlongAxes(Graphs[g].edge[s[1]].line)
           /\ Len(Graphs[g].edge[s[1]].line) \in Nat /\ Len(Graphs[g].edge[s[1]].line) >= 2
           /\ Head(Graphs[g].edge[s[1]].line) = Graphs[g].node[Graphs[g].edge[s[1]].ends[1]]
           /\ Last(Graphs[g].edge[s[1]].line) = Graphs[g].node[Graphs[g].edge[s[1]].ends[2]]
<1>1. s[1] \in DOMAIN Graphs[g].edge /\ s[2] \in {1, -1} /\ s = <<s[1], s[2]>>
  BY DEF StepsOf
<1> DEFINE edge == Graphs[g].edge[s[1]]
<1>2. /\ edge \in EdgeType /\ AlongAxes(edge.line) /\ Len(edge.line) >= 2
      /\ Head(edge.line) = Graphs[g].node[edge.ends[1]]
      /\ Last(edge.line) = Graphs[g].node[edge.ends[2]]
  BY <1>1, ReuseAssumption
<1> HIDE DEF edge
<1>3. edge.line \in Seq(Point) /\ Len(edge.line) \in Nat
  BY <1>2 DEF EdgeType
<1> QED
  BY <1>1, <1>2, <1>3 DEF edge

(* Where the line of a step goes from one point to the next, the line of   *)
(* its edge does, or goes back.                                            *)
LEMMA StepOnEdge ==
    ASSUME NEW g \in GraphNames, NEW s \in StepsOf(g), NEW a, NEW b,
           Succession(LineOf(g, s), a, b), a # b
    PROVE  \E i \in Pieces(Graphs[g].edge[s[1]].line) :
               LET line == Graphs[g].edge[s[1]].line
               IN  IF s[2] = 1 THEN a = line[i] /\ b = line[i + 1]
                   ELSE a = line[i + 1] /\ b = line[i]
<1> DEFINE line == Graphs[g].edge[s[1]].line
           n == Len(line)
<1>1. line \in Seq(Point) /\ n \in Nat /\ n >= 2
  BY StepIs
<1>2. LineOf(g, s) = IF s[2] = 1 THEN line ELSE Reverse(line)
  BY DEF LineOf
<1> HIDE DEF line
<1>3. PICK k \in 1..(Len(LineOf(g, s)) - 1) : LineOf(g, s)[k] = a /\ LineOf(g, s)[k + 1] = b
  BY DEF Succession
<1>4. CASE s[2] = 1
  <2>1. k \in 1..(Len(line) - 1) /\ line[k] = a /\ line[k + 1] = b
    BY <1>2, <1>3, <1>4
  <2>2. k \in Pieces(line)
    BY <2>1 DEF Pieces
  <2> QED
    BY <1>4, <2>1, <2>2 DEF line
<1>5. CASE s[2] # 1
  <2>1. Reverse(line) = [i \in 1..n |-> line[n - i + 1]]
    BY DEF Reverse
  <2>2. LineOf(g, s) = [i \in 1..n |-> line[n - i + 1]] /\ Len(LineOf(g, s)) = n
    BY <1>1, <1>2, <1>5, <2>1
  <2>3. k \in 1..(n - 1) /\ k \in 1..n /\ k + 1 \in 1..n
    BY <1>1, <1>3, <2>2
  <2>4. a = line[n - k + 1] /\ b = line[n - (k + 1) + 1]
    BY <1>3, <2>2, <2>3
  <2> DEFINE i == n - k
  <2>5. i \in 1..(n - 1) /\ n - k + 1 = i + 1 /\ n - (k + 1) + 1 = i
    BY <1>1, <2>3
  <2>6. a = line[i + 1] /\ b = line[i]
    BY <2>4, <2>5
  <2> HIDE DEF i
  <2>7. i \in Pieces(line)
    BY <2>5, <2>6 DEF Pieces
  <2> QED
    BY <1>5, <2>6, <2>7 DEF line
<1> QED
  BY <1>4, <1>5

LEMMA StepIsUnique ==
    ASSUME NEW g \in GraphNames, NEW s \in StepsOf(g), NEW t \in StepsOf(g), NEW p, NEW q,
           Passes(LineOf(g, s), p, q), Passes(LineOf(g, t), p, q)
    PROVE  s = t
<1>1. PICK a, b \in Point :
           /\ Succession(LineOf(g, s), a, b) /\ a # b
           /\ p \in PointsOn(a, b) /\ q \in PointsOn(a, b) /\ q = Ahead(p, Direction(a, b), 1)
  BY DEF Passes
<1>2. PICK c, d \in Point :
           /\ Succession(LineOf(g, t), c, d) /\ c # d
           /\ p \in PointsOn(c, d) /\ q \in PointsOn(c, d) /\ q = Ahead(p, Direction(c, d), 1)
  BY DEF Passes
<1> DEFINE one == Graphs[g].edge[s[1]].line
           other == Graphs[g].edge[t[1]].line
<1>3. PICK i \in Pieces(one) : IF s[2] = 1 THEN a = one[i] /\ b = one[i + 1]
                               ELSE a = one[i + 1] /\ b = one[i]
  BY <1>1, StepOnEdge
<1>4. PICK j \in Pieces(other) : IF t[2] = 1 THEN c = other[j] /\ d = other[j + 1]
                                 ELSE c = other[j + 1] /\ d = other[j]
  BY <1>2, StepOnEdge
<1>5. \A x, y \in Point : PointsOn(x, y) = PointsOn(y, x)
  <2>1. \A x, y \in Int : Lesser(x, y) = Lesser(y, x) /\ Greater(x, y) = Greater(y, x)
    BY DEF Lesser, Greater
  <2> QED
    BY <2>1, PointIs DEF PointsOn
<1>6. PointsOn(a, b) = PointsOn(one[i], one[i + 1])
  BY <1>1, <1>3, <1>5
<1>7. PointsOn(c, d) = PointsOn(other[j], other[j + 1])
  BY <1>2, <1>4, <1>5
<1>8. p \in Point
  BY <1>1, EndsOfPiece
<1>9. /\ a[1] \in Int /\ a[2] \in Int /\ b[1] \in Int /\ b[2] \in Int
      /\ p[1] \in Int /\ p[2] \in Int /\ p = <<p[1], p[2]>>
      /\ a = <<a[1], a[2]>> /\ b = <<b[1], b[2]>>
  BY <1>8, PointIs
<1>10. a[1] # b[1] \/ a[2] # b[2]
  BY <1>1, <1>9
<1>11. /\ \A x, y \in Int : Toward(x, y) \in {1, 0, -1} /\ (x # y => Toward(x, y) # 0)
       /\ \A x, y \in Int : x # y => Toward(x, y) # Toward(y, x)
  BY DEF Toward
<1>12. p # q
  <2>1. Toward(a[1], b[1]) \in Int /\ Toward(a[2], b[2]) \in Int
    BY <1>9, <1>11
  <2>2. Toward(a[1], b[1]) # 0 \/ Toward(a[2], b[2]) # 0
    BY <1>9, <1>10, <1>11
  <2>3. q = <<p[1] + Toward(a[1], b[1]), p[2] + Toward(a[2], b[2])>>
    BY <1>1, <1>9, <2>1 DEF Ahead, Direction
  <2>4. q[1] # p[1] \/ q[2] # p[2]
    BY <1>9, <2>1, <2>2, <2>3
  <2> QED
    BY <2>4
<1>13. s[1] \in DOMAIN Graphs[g].edge /\ t[1] \in DOMAIN Graphs[g].edge
  BY StepIs
<1> HIDE DEF one, other
<1>14. s[1] = t[1] /\ i = j
  <2>1. p \in PointsOn(one[i], one[i + 1]) \cap PointsOn(other[j], other[j + 1])
    BY <1>1, <1>2, <1>6, <1>7
  <2>2. q \in PointsOn(one[i], one[i + 1]) \cap PointsOn(other[j], other[j + 1])
    BY <1>1, <1>2, <1>6, <1>7
  <2> DEFINE Meet(k, l) == PointsOn(one[k], one[k + 1]) \cap PointsOn(other[l], other[l + 1])
  <2>3. \A k \in Pieces(one), l \in Pieces(other) :
           s[1] # t[1] \/ k # l => \A x, y \in Meet(k, l) : x = y
    BY <1>13, ApartAssumption DEF one, other
  <2>4. p \in Meet(i, j) /\ q \in Meet(i, j)
    BY <2>1, <2>2
  <2> HIDE DEF Meet
  <2>5. i \in Pieces(one) /\ j \in Pieces(other)
    OBVIOUS
  <2> QED
    BY <1>12, <2>3, <2>4, <2>5
<1>15. Direction(a, b) = Direction(c, d)
  <2>1. /\ Toward(a[1], b[1]) \in Int /\ Toward(a[2], b[2]) \in Int
        /\ Toward(c[1], d[1]) \in Int /\ Toward(c[2], d[2]) \in Int
    BY <1>2, <1>9, <1>11, PointIs
  <2>2. q = <<p[1] + Toward(a[1], b[1]), p[2] + Toward(a[2], b[2])>>
    BY <1>1, <1>9, <2>1 DEF Ahead, Direction
  <2>3. q = <<p[1] + Toward(c[1], d[1]), p[2] + Toward(c[2], d[2])>>
    BY <1>2, <1>9, <2>1 DEF Ahead, Direction
  <2>4. Toward(a[1], b[1]) = Toward(c[1], d[1]) /\ Toward(a[2], b[2]) = Toward(c[2], d[2])
    BY <1>9, <2>1, <2>2, <2>3
  <2> QED
    BY <2>4 DEF Direction
<1>16. s[2] = t[2]
  <2>1. SUFFICES ASSUME s[2] # t[2] PROVE FALSE
    OBVIOUS
  <2>2. s[2] = 1 <=> t[2] # 1
    BY <2>1, StepIs
  <2>3. one = other
    BY <1>14 DEF one, other
  <2>4. c = b /\ d = a
    BY <1>3, <1>4, <1>14, <2>2, <2>3
  <2>5. Toward(a[1], b[1]) = Toward(b[1], a[1]) /\ Toward(a[2], b[2]) = Toward(b[2], a[2])
    BY <1>15, <2>4 DEF Direction
  <2> QED
    BY <1>9, <1>10, <1>11, <2>5
<1> QED
  BY <1>14, <1>16, StepIs

(* The steps passed along a motion, read off its points.                   *)
Label(g, p, q) == CHOOSE s \in StepsOf(g) : Passes(LineOf(g, s), p, q)
Labels(g, way) == [k \in 1..(Len(way) - 1) |-> Label(g, way[k], way[k + 1])]

LEMMA LabelIs ==
    ASSUME NEW g \in GraphNames, NEW s \in StepsOf(g), NEW p, NEW q, Passes(LineOf(g, s), p, q)
    PROVE  Label(g, p, q) = s
<1>1. \A t \in StepsOf(g) : Passes(LineOf(g, t), p, q) => t = s
  BY StepIsUnique
<1>2. Label(g, p, q) \in StepsOf(g) /\ Passes(LineOf(g, Label(g, p, q)), p, q)
  BY DEF Label
<1> QED
  BY <1>1, <1>2

-----------------------------------------------------------------------------
(* Legs: pieces one after the other, each of the line of its step.         *)
IsLeg(g, x) ==
    /\ x.from \in Point /\ x.to \in Point /\ x.step \in StepsOf(g)
    /\ x.from # x.to /\ Aligned(x.from, x.to)
    /\ Succession(LineOf(g, x.step), x.from, x.to)

PieceType(g) == [from : Point, to : Point, step : StepsOf(g)]

Legs(g) ==
    {pieces \in Seq(PieceType(g)) :
        /\ \A k \in 1..Len(pieces) : IsLeg(g, pieces[k])
        /\ \A k \in 1..(Len(pieces) - 1) : pieces[k].to = pieces[k + 1].from}

Tos(pieces) == [k \in DOMAIN pieces |-> pieces[k].to]
Steps(pieces) == [k \in DOMAIN pieces |-> pieces[k].step]

(* Equal members count once.                                               *)
LEMMA RepeatsOfMore ==
    ASSUME NEW S, NEW one \in Seq(S), NEW s \in S
    PROVE  \A more \in Seq(S) :
               more # <<>> /\ (\A k \in 1..Len(more) : more[k] = s) =>
                   WithoutRepeats(one \o more) = WithoutRepeats(Append(one, s))
<1> DEFINE Same(more) == \A k \in 1..Len(more) : more[k] = s
           Good == {more \in Seq(S) :
                       more # <<>> /\ Same(more) =>
                           WithoutRepeats(one \o more) = WithoutRepeats(Append(one, s))}
<1>1. <<>> \in Good
  OBVIOUS
<1>2. ASSUME NEW more \in Seq(S), NEW x \in S, more \in Good
      PROVE  Append(more, x) \in Good
  <2> DEFINE next == Append(more, x)
  <2>1. /\ next \in Seq(S) /\ Len(next) = Len(more) + 1 /\ next[Len(more) + 1] = x
        /\ \A k \in 1..Len(more) : next[k] = more[k]
        /\ Len(more) \in Nat
    OBVIOUS
  <2> HIDE DEF next
  <2>2. SUFFICES ASSUME Same(next)
                 PROVE  WithoutRepeats(one \o next) = WithoutRepeats(Append(one, s))
    BY <2>1 DEF next
  <2>3. x = s
    BY <2>1, <2>2
  <2>4. Same(more)
    BY <2>1, <2>2
  <2>5. one \o next = Append(one \o more, x)
    BY <2>1 DEF next
  <2>6. CASE more = <<>>
    BY <2>3, <2>5, <2>6
  <2>7. CASE more # <<>>
    <3>1. one \o more \in Seq(S) /\ one \o more # <<>> /\ Last(one \o more) = s
      <4>1. Len(more) >= 1 /\ more[Len(more)] = s
        BY <2>1, <2>4, <2>7
      <4>2. /\ one \o more \in Seq(S) /\ Len(one \o more) = Len(one) + Len(more)
            /\ (one \o more)[Len(one) + Len(more)] = more[Len(more)]
        BY <4>1
      <4> QED
        BY <4>1, <4>2 DEF Last
    <3>2. WithoutRepeats(Append(one \o more, x)) = WithoutRepeats(one \o more)
      BY <2>3, <3>1, RepeatsAppend
    <3>3. WithoutRepeats(one \o more) = WithoutRepeats(Append(one, s))
      BY <1>2, <2>4, <2>7
    <3> QED
      BY <2>5, <3>2, <3>3
  <2> QED
    BY <2>6, <2>7
<1> HIDE DEF Good
<1>3. \A more \in Seq(S) : more \in Good
  BY <1>1, <1>2, SequencesGrow
<1> QED
  BY <1>3 DEF Good

(* What is the same without repeats stays so with one more member.         *)
LEMMA RepeatsGrow ==
    ASSUME NEW S, NEW one \in Seq(S), NEW two \in Seq(S), NEW s \in S,
           one # <<>>, two # <<>>, WithoutRepeats(one) = WithoutRepeats(two)
    PROVE  WithoutRepeats(Append(one, s)) = WithoutRepeats(Append(two, s))
<1>1. Last(one) = Last(WithoutRepeats(one)) /\ Last(two) = Last(WithoutRepeats(two))
  BY RepeatsAre DEF SameWay
<1>2. Last(one) = Last(two)
  BY <1>1
<1>3. WithoutRepeats(Append(one, s)) =
         IF Last(one) = s THEN WithoutRepeats(one) ELSE Append(WithoutRepeats(one), s)
  BY RepeatsAppend
<1>4. WithoutRepeats(Append(two, s)) =
         IF Last(two) = s THEN WithoutRepeats(two) ELSE Append(WithoutRepeats(two), s)
  BY RepeatsAppend
<1> QED
  BY <1>2, <1>3, <1>4

LabelsOf(g) == StepsOf(g) \cup {Label(g, p, q) : p, q \in Point}

LEMMA LabelsAre ==
    ASSUME NEW g, NEW way \in Seq(Point), way # <<>>
    PROVE  /\ Labels(g, way) \in Seq(LabelsOf(g)) /\ Len(Labels(g, way)) = Len(way) - 1
           /\ \A k \in 1..(Len(way) - 1) : Labels(g, way)[k] = Label(g, way[k], way[k + 1])
<1> DEFINE n == Len(way) - 1
<1>1. n \in Nat /\ \A k \in 1..n : way[k] \in Point /\ way[k + 1] \in Point
  OBVIOUS
<1>2. Labels(g, way) = [k \in 1..n |-> Label(g, way[k], way[k + 1])]
  BY DEF Labels
<1> HIDE DEF n
<1>3. \A p, q \in Point : Label(g, p, q) \in LabelsOf(g)
  BY DEF LabelsOf
<1>4. \A k \in 1..n : Label(g, way[k], way[k + 1]) \in LabelsOf(g)
  BY <1>1, <1>3
<1> DEFINE found == [k \in 1..n |-> Label(g, way[k], way[k + 1])]
<1>5. /\ found \in Seq(LabelsOf(g)) /\ Len(found) = n
      /\ \A k \in 1..n : found[k] = Label(g, way[k], way[k + 1])
  BY <1>1, <1>4
<1> QED
  BY <1>2, <1>5 DEF n

(* Two sequences one after the other.                                      *)
LEMMA JoinOf ==
    ASSUME NEW S, NEW a \in Seq(S), NEW b \in Seq(S)
    PROVE  /\ a \o b \in Seq(S) /\ Len(a \o b) = Len(a) + Len(b)
           /\ \A k \in 1..Len(a) : (a \o b)[k] = a[k]
           /\ \A k \in 1..Len(b) : (a \o b)[Len(a) + k] = b[k]
<1>1. Len(a) \in Nat /\ Len(b) \in Nat
  OBVIOUS
<1> QED
  BY <1>1

(* What follows a point on a leg up to its end is passed with its step.    *)
LEMMA LegIsPassed ==
    ASSUME NEW g \in GraphNames, NEW x \in PieceType(g), IsLeg(g, x),
           NEW y \in PointsOn(x.from, x.to), y # x.to,
           NEW way \in Seq(Point), way # <<>>, Last(way) = y
    PROVE  \E more \in Seq(StepsOf(g)) :
               /\ more # <<>> /\ \A k \in 1..Len(more) : more[k] = x.step
               /\ Labels(g, way \o UnitSteps(y, x.to)) = Labels(g, way) \o more
<1> DEFINE d == Direction(x.from, x.to)
           n == PieceLength(y, x.to)
           unit == UnitSteps(y, x.to)
           S == StepsOf(g)
           m == Len(way)
           all == way \o unit
           more == [k \in 1..n |-> x.step]
<1>1. /\ x.from \in Point /\ x.to \in Point /\ x.step \in S /\ x.from # x.to
      /\ Aligned(x.from, x.to) /\ Succession(LineOf(g, x.step), x.from, x.to)
  BY DEF IsLeg
<1>2. /\ y \in Point /\ Aligned(y, x.to) /\ Direction(y, x.to) = d /\ n \in Nat /\ n >= 1
      /\ \A k \in 0..n : Ahead(y, d, k) \in PointsOn(x.from, x.to)
  BY <1>1, RestOfPiece
<1>3. /\ unit \in Seq(Point) /\ Len(unit) = n
      /\ \A k \in 1..n : unit[k] = Ahead(y, d, k)
  BY <1>1, <1>2, UnitStepsAre
<1>4. d \in Point
  BY <1>1, PointIs DEF Direction, Toward, Point
<1>5. m \in Nat /\ m >= 1 /\ way[m] = y
  BY DEF Last
<1> HIDE DEF d, n, unit, m
<1>6. Ahead(y, d, 0) = y
  BY <1>2, <1>4, PointIs DEF Ahead
<1>7. /\ all \in Seq(Point) /\ Len(all) = m + n
      /\ \A k \in 1..m : all[k] = way[k]
      /\ \A k \in 1..n : all[m + k] = unit[k]
  <2>1. way \in Seq(Point) /\ unit \in Seq(Point)
    BY <1>3
  <2>2. /\ way \o unit \in Seq(Point) /\ Len(way \o unit) = Len(way) + Len(unit)
        /\ \A k \in 1..Len(way) : (way \o unit)[k] = way[k]
        /\ \A k \in 1..Len(unit) : (way \o unit)[Len(way) + k] = unit[k]
    BY <2>1, JoinOf
  <2>3. Len(way) = m /\ Len(unit) = n /\ all = way \o unit
    BY <1>3 DEF m
  <2> HIDE DEF all
  <2> QED
    BY <2>2, <2>3, Zenon
<1> HIDE DEF all
<1>8. \A k \in 0..n : all[m + k] = Ahead(y, d, k)
  <2>1. m + 0 = m /\ m \in 1..m
    BY <1>5
  <2>2. \A k \in 0..n : k = 0 \/ k \in 1..n
    BY <1>2
  <2> QED
    BY <1>3, <1>5, <1>6, <1>7, <2>1, <2>2
<1>9. ASSUME NEW k \in 1..n PROVE Label(g, all[m + k - 1], all[m + k]) = x.step
  <2>1. /\ k - 1 \in 0..n /\ k \in 0..n /\ m + (k - 1) = m + k - 1 /\ k - 1 \in Int
        /\ (k - 1) + 1 = k /\ 1 \in Int
    BY <1>2, <1>5
  <2>2. all[m + k - 1] = Ahead(y, d, k - 1) /\ all[m + k] = Ahead(y, d, k)
    BY <1>8, <2>1
  <2>3. Ahead(Ahead(y, d, k - 1), d, 1) = Ahead(y, d, k)
    BY <1>2, <1>4, <2>1, AheadAdds
  <2>4. Passes(LineOf(g, x.step), all[m + k - 1], all[m + k])
    BY <1>1, <1>2, <2>1, <2>2, <2>3 DEF Passes, d
  <2> QED
    BY <1>1, <2>4, LabelIs
<1>10. more \in Seq(S) /\ Len(more) = n /\ more # <<>> /\ \A k \in 1..n : more[k] = x.step
  BY <1>1, <1>2
<1> HIDE DEF more
<1> DEFINE Every == LabelsOf(g)
<1>11. /\ Labels(g, all) \in Seq(Every) /\ Len(Labels(g, all)) = m + n - 1
       /\ \A k \in 1..(m + n - 1) : Labels(g, all)[k] = Label(g, all[k], all[k + 1])
  <2>1. all # <<>>
    BY <1>2, <1>5, <1>7
  <2>2. Len(all) - 1 = m + n - 1
    BY <1>2, <1>5, <1>7
  <2>3. /\ Labels(g, all) \in Seq(LabelsOf(g)) /\ Len(Labels(g, all)) = Len(all) - 1
        /\ \A k \in 1..(Len(all) - 1) : Labels(g, all)[k] = Label(g, all[k], all[k + 1])
    BY <1>7, <2>1, LabelsAre
  <2> QED
    BY <2>2, <2>3
<1>12. /\ Labels(g, way) \in Seq(Every) /\ Len(Labels(g, way)) = m - 1
       /\ \A k \in 1..(m - 1) : Labels(g, way)[k] = Label(g, way[k], way[k + 1])
  BY LabelsAre DEF m
<1> HIDE DEF Every
<1>13. more \in Seq(Every)
  <2>1. x.step \in Every
    BY <1>1 DEF Every, LabelsOf
  <2> QED
    BY <1>2, <2>1 DEF more
<1>14. ASSUME NEW k \in 1..(m + n - 1) PROVE Labels(g, all)[k] = (Labels(g, way) \o more)[k]
  <2>1. CASE k \in 1..(m - 1)
    <3>1. k \in 1..m /\ k + 1 \in 1..m
      BY <1>5, <2>1
    <3>2. Labels(g, all)[k] = Labels(g, way)[k]
      BY <1>7, <1>11, <1>12, <2>1, <3>1
    <3> QED
      BY <1>12, <1>13, <2>1, <3>2
  <2>2. CASE k \notin 1..(m - 1)
    <3> DEFINE j == k - (m - 1)
    <3>1. j \in 1..n /\ m + j - 1 = k /\ m + j = k + 1 /\ k = (m - 1) + j
      BY <1>2, <1>5, <2>2
    <3> HIDE DEF j
    <3>2. Labels(g, all)[k] = x.step
      <4>1. Labels(g, all)[k] = Label(g, all[k], all[k + 1])
        BY <1>11
      <4> QED
        BY <1>9, <3>1, <4>1
    <3>3. (Labels(g, way) \o more)[k] = more[j]
      <4>1. j \in 1..Len(more) /\ m - 1 \in Nat /\ Len(Labels(g, way)) = m - 1
        BY <1>5, <1>10, <1>12, <3>1
      <4> QED
        BY <1>12, <1>13, <3>1, <4>1
    <3> QED
      BY <1>10, <3>1, <3>2, <3>3
  <2> QED
    BY <2>1, <2>2
<1>15. /\ Labels(g, way) \o more \in Seq(Every)
       /\ Len(Labels(g, way) \o more) = m + n - 1
  <2>1. /\ Labels(g, way) \o more \in Seq(Every)
        /\ Len(Labels(g, way) \o more) = Len(Labels(g, way)) + Len(more)
    BY <1>12, <1>13, ConcatProperties
  <2>2. Len(Labels(g, way)) + Len(more) = m + n - 1
    BY <1>2, <1>5, <1>10, <1>12
  <2> QED
    BY <2>1, <2>2
<1>16. Labels(g, all) = Labels(g, way) \o more
  BY <1>11, <1>14, <1>15, SeqEqual
<1> QED
  BY <1>10, <1>16 DEF all, unit

LEMMA LegsShorter ==
    ASSUME NEW g \in GraphNames, NEW pieces \in Seq(PieceType(g)), NEW x \in PieceType(g),
           Append(pieces, x) \in Legs(g)
    PROVE  /\ pieces \in Legs(g) /\ IsLeg(g, x)
           /\ pieces # <<>> => Last(pieces).to = x.from /\ Append(pieces, x)[1] = pieces[1]
<1> DEFINE next == Append(pieces, x)
           n == Len(pieces)
<1>1. /\ next \in Seq(PieceType(g)) /\ Len(next) = n + 1 /\ n \in Nat
      /\ next[n + 1] = x /\ \A k \in 1..n : next[k] = pieces[k]
  OBVIOUS
<1>2. /\ \A k \in 1..Len(next) : IsLeg(g, next[k])
      /\ \A k \in 1..(Len(next) - 1) : next[k].to = next[k + 1].from
  BY DEF Legs
<1> HIDE DEF next
<1>3. IsLeg(g, x)
  <2>1. n + 1 \in 1..Len(next)
    BY <1>1
  <2> QED
    BY <1>1, <1>2, <2>1
<1>4. pieces \in Legs(g)
  <2>1. \A k \in 1..n : k \in 1..Len(next)
    BY <1>1
  <2>2. \A k \in 1..n : IsLeg(g, pieces[k])
    BY <1>1, <1>2, <2>1
  <2>3. \A k \in 1..(n - 1) : k \in 1..(Len(next) - 1) /\ k \in 1..n /\ k + 1 \in 1..n
    BY <1>1
  <2>4. \A k \in 1..(n - 1) : pieces[k].to = pieces[k + 1].from
    BY <1>1, <1>2, <2>3
  <2> QED
    BY <2>2, <2>4 DEF Legs
<1>5. ASSUME pieces # <<>> PROVE Last(pieces).to = x.from /\ next[1] = pieces[1]
  <2>1. n \in 1..(Len(next) - 1) /\ n \in 1..n /\ 1 \in 1..n
    BY <1>1, <1>5
  <2>2. Last(pieces) = pieces[n]
    BY DEF Last
  <2>3. next[n].to = next[n + 1].from
    BY <1>2, <2>1
  <2> QED
    BY <1>1, <2>1, <2>2, <2>3
<1> QED
  BY <1>3, <1>4, <1>5 DEF next

LEMMA TosAre ==
    ASSUME NEW g \in GraphNames, NEW pieces \in Seq(PieceType(g))
    PROVE  /\ Tos(pieces) \in Seq(Point) /\ Len(Tos(pieces)) = Len(pieces)
           /\ Steps(pieces) \in Seq(StepsOf(g)) /\ Len(Steps(pieces)) = Len(pieces)
           /\ \A k \in 1..Len(pieces) :
                 Tos(pieces)[k] = pieces[k].to /\ Steps(pieces)[k] = pieces[k].step
<1> DEFINE n == Len(pieces)
<1>1. n \in Nat /\ \A k \in 1..n : pieces[k].to \in Point /\ pieces[k].step \in StepsOf(g)
  <2>1. \A k \in 1..n : pieces[k] \in PieceType(g)
    OBVIOUS
  <2>2. \A x \in PieceType(g) : x.to \in Point /\ x.step \in StepsOf(g)
    BY DEF PieceType
  <2> QED
    BY <2>1, <2>2
<1>2. DOMAIN pieces = 1..n
  OBVIOUS
<1>3. Tos(pieces) = [k \in 1..n |-> pieces[k].to] /\ Steps(pieces) = [k \in 1..n |-> pieces[k].step]
  BY <1>2 DEF Tos, Steps
<1> HIDE DEF n
<1> QED
  BY <1>1, <1>3 DEF n

LEMMA TosAppend ==
    ASSUME NEW g \in GraphNames, NEW pieces \in Seq(PieceType(g)), NEW x \in PieceType(g)
    PROVE  /\ Tos(Append(pieces, x)) = Append(Tos(pieces), x.to)
           /\ Steps(Append(pieces, x)) = Append(Steps(pieces), x.step)
<1> DEFINE next == Append(pieces, x)
           n == Len(pieces)
<1>1. /\ next \in Seq(PieceType(g)) /\ Len(next) = n + 1 /\ n \in Nat
      /\ next[n + 1] = x /\ \A k \in 1..n : next[k] = pieces[k]
  OBVIOUS
<1> HIDE DEF next
<1>2. /\ Tos(next) \in Seq(Point) /\ Len(Tos(next)) = n + 1
      /\ Steps(next) \in Seq(StepsOf(g)) /\ Len(Steps(next)) = n + 1
      /\ \A k \in 1..(n + 1) : Tos(next)[k] = next[k].to /\ Steps(next)[k] = next[k].step
  BY <1>1, TosAre
<1>3. /\ Tos(pieces) \in Seq(Point) /\ Len(Tos(pieces)) = n
      /\ Steps(pieces) \in Seq(StepsOf(g)) /\ Len(Steps(pieces)) = n
      /\ \A k \in 1..n : Tos(pieces)[k] = pieces[k].to /\ Steps(pieces)[k] = pieces[k].step
  BY TosAre
<1>4. x.to \in Point /\ x.step \in StepsOf(g)
  BY DEF PieceType
<1>5. Tos(next) = Append(Tos(pieces), x.to)
  <2>1. Append(Tos(pieces), x.to) \in Seq(Point) /\ Len(Append(Tos(pieces), x.to)) = n + 1
    BY <1>3, <1>4
  <2>2. \A k \in 1..(n + 1) : Tos(next)[k] = Append(Tos(pieces), x.to)[k]
    BY <1>1, <1>2, <1>3, <1>4
  <2> QED
    BY <1>2, <2>1, <2>2, SeqEqual
<1>6. Steps(next) = Append(Steps(pieces), x.step)
  <2>1. Append(Steps(pieces), x.step) \in Seq(StepsOf(g))
        /\ Len(Append(Steps(pieces), x.step)) = n + 1
    BY <1>3, <1>4
  <2>2. \A k \in 1..(n + 1) : Steps(next)[k] = Append(Steps(pieces), x.step)[k]
    BY <1>1, <1>2, <1>3, <1>4
  <2> QED
    BY <1>2, <2>1, <2>2, SeqEqual
<1> QED
  BY <1>5, <1>6 DEF next

(* Along legs, the steps read off the motion are those of the legs.        *)
Begins(pieces, q) == q \in PointsOn(pieces[1].from, pieces[1].to) /\ q # pieces[1].to

Told(g, q, pieces) ==
    LET line == <<q>> \o Tos(pieces)
    IN  /\ line \in Walks /\ Last(line) = Last(pieces).to
        /\ Labels(g, Motion(line)) # <<>>
        /\ WithoutRepeats(Labels(g, Motion(line))) = WithoutRepeats(Steps(pieces))

LEMMA OneLegTells ==
    ASSUME NEW g \in GraphNames, NEW q \in Point, NEW x \in PieceType(g), IsLeg(g, x),
           q \in PointsOn(x.from, x.to), q # x.to
    PROVE  Told(g, q, <<x>>)
<1>1. x.from \in Point /\ x.to \in Point /\ x.from # x.to /\ Aligned(x.from, x.to)
      /\ x.step \in StepsOf(g)
  BY DEF IsLeg
<1>2. Aligned(q, x.to)
  BY <1>1, RestOfPiece
<1>3. /\ Tos(<<x>>) = <<x.to>> /\ Steps(<<x>>) = <<x.step>>
      /\ <<q>> \o Tos(<<x>>) = Append(<<q>>, x.to) /\ Last(<<x>>) = x
  BY <1>1 DEF Tos, Steps, Last
<1> DEFINE line == Append(<<q>>, x.to)
           way == <<q>>
<1>4. <<q>> \in Walks /\ Last(<<q>>) = q /\ Motion(<<q>>) = <<q>>
  BY OneIsWalk, MotionOfOne
<1>5. line \in Walks /\ Last(line) = x.to
  BY <1>1, <1>2, <1>4, WalkAppend
<1>6. Motion(line) = <<q>> \o UnitSteps(q, x.to)
  BY <1>1, <1>2, <1>4, MotionAppend
<1>7. PICK more \in Seq(StepsOf(g)) :
          /\ more # <<>> /\ \A k \in 1..Len(more) : more[k] = x.step
          /\ Labels(g, <<q>> \o UnitSteps(q, x.to)) = Labels(g, <<q>>) \o more
  <2>1. way \in Seq(Point) /\ way # <<>> /\ Last(way) = q
    BY <1>4
  <2> HIDE DEF way
  <2>2. \E more \in Seq(StepsOf(g)) :
          /\ more # <<>> /\ \A k \in 1..Len(more) : more[k] = x.step
          /\ Labels(g, way \o UnitSteps(q, x.to)) = Labels(g, way) \o more
    BY <2>1, LegIsPassed
  <2> QED
    BY <2>2 DEF way
<1>8. Labels(g, <<q>>) = <<>>
  <2>1. <<q>> \in Seq(Point) /\ <<q>> # <<>> /\ Len(<<q>>) = 1
    OBVIOUS
  <2>2. Labels(g, <<q>>) \in Seq(LabelsOf(g)) /\ Len(Labels(g, <<q>>)) = 1 - 1
    BY <2>1, LabelsAre
  <2> QED
    BY <2>2
<1>9. Labels(g, Motion(line)) = more
  <2>1. <<>> \o more = more
    BY ConcatEmptySeq
  <2> HIDE DEF line
  <2> QED
    BY <1>6, <1>7, <1>8, <2>1
<1>10. WithoutRepeats(more) = WithoutRepeats(<<x.step>>)
  <2>1. <<>> \in Seq(StepsOf(g)) /\ <<>> \o more = more /\ Append(<<>>, x.step) = <<x.step>>
    BY <1>1
  <2> QED
    BY <1>1, <1>7, <2>1, RepeatsOfMore
<1> QED
  BY <1>3, <1>5, <1>7, <1>9, <1>10 DEF Told

LEMMA NextLegTells ==
    ASSUME NEW g \in GraphNames, NEW q \in Point, NEW pieces \in Seq(PieceType(g)), pieces # <<>>,
           NEW x \in PieceType(g), IsLeg(g, x), Last(pieces).to = x.from, Told(g, q, pieces)
    PROVE  Told(g, q, Append(pieces, x))
<1>1. x.from \in Point /\ x.to \in Point /\ x.from # x.to /\ Aligned(x.from, x.to)
      /\ x.step \in StepsOf(g)
  BY DEF IsLeg
<1> DEFINE line == <<q>> \o Tos(pieces)
           way == Motion(line)
           S == LabelsOf(g)
<1>2. /\ line \in Walks /\ Last(line) = x.from /\ Labels(g, way) # <<>>
      /\ WithoutRepeats(Labels(g, way)) = WithoutRepeats(Steps(pieces))
  BY DEF Told
<1>3. <<q>> \o Tos(Append(pieces, x)) = Append(line, x.to)
  <2>1. Tos(Append(pieces, x)) = Append(Tos(pieces), x.to) /\ Tos(pieces) \in Seq(Point)
    BY TosAppend, TosAre
  <2> QED
    BY <1>1, <2>1
<1> HIDE DEF line
<1>4. Append(line, x.to) \in Walks /\ Last(Append(line, x.to)) = x.to
  BY <1>1, <1>2, WalkAppend
<1>5. Motion(Append(line, x.to)) = way \o UnitSteps(x.from, x.to)
  BY <1>1, <1>2, MotionAppend
<1>6. way \in Seq(Point) /\ way # <<>> /\ Last(way) = x.from
  BY <1>2, MotionIs DEF Last
<1> HIDE DEF way
<1>7. x.from \in PointsOn(x.from, x.to)
  BY <1>1, EndsOfPiece
<1>8. PICK more \in Seq(StepsOf(g)) :
          /\ more # <<>> /\ \A k \in 1..Len(more) : more[k] = x.step
          /\ Labels(g, way \o UnitSteps(x.from, x.to)) = Labels(g, way) \o more
  BY <1>1, <1>6, <1>7, LegIsPassed
<1>9. /\ Labels(g, way) \in Seq(S) /\ more \in Seq(S) /\ x.step \in S
      /\ Steps(pieces) \in Seq(S) /\ Steps(pieces) # <<>>
  <2>1. Labels(g, way) \in Seq(S)
    BY <1>6, LabelsAre
  <2>2. StepsOf(g) \subseteq S
    BY DEF LabelsOf
  <2>3. Steps(pieces) \in Seq(StepsOf(g)) /\ Len(Steps(pieces)) = Len(pieces)
    BY TosAre
  <2>4. Seq(StepsOf(g)) \subseteq Seq(S)
    BY <2>2
  <2> QED
    BY <1>1, <2>1, <2>2, <2>3, <2>4
<1> HIDE DEF S
<1>10. WithoutRepeats(Labels(g, way) \o more) = WithoutRepeats(Append(Labels(g, way), x.step))
  BY <1>8, <1>9, RepeatsOfMore
<1>11. WithoutRepeats(Append(Labels(g, way), x.step)) = WithoutRepeats(Append(Steps(pieces), x.step))
  BY <1>2, <1>9, RepeatsGrow DEF way
<1>12. Steps(Append(pieces, x)) = Append(Steps(pieces), x.step)
  BY TosAppend
<1>13. Labels(g, way) \o more # <<>>
  BY <1>8, <1>9
<1>14. Last(Append(pieces, x)) = x
  BY DEF Last
<1> QED
  BY <1>3, <1>4, <1>5, <1>8, <1>10, <1>11, <1>12, <1>13, <1>14 DEF Told

LEMMA LegsTell ==
    ASSUME NEW g \in GraphNames, NEW q \in Point, NEW pieces \in Legs(g), pieces # <<>>,
           Begins(pieces, q)
    PROVE  Told(g, q, pieces)
<1> DEFINE Good == {found \in Seq(PieceType(g)) :
                       found # <<>> /\ found \in Legs(g) /\ Begins(found, q) => Told(g, q, found)}
<1>1. <<>> \in Good
  OBVIOUS
<1>2. ASSUME NEW found \in Seq(PieceType(g)), NEW x \in PieceType(g), found \in Good
      PROVE  Append(found, x) \in Good
  <2> DEFINE next == Append(found, x)
  <2>1. next \in Seq(PieceType(g))
    OBVIOUS
  <2>2. SUFFICES ASSUME next \in Legs(g), Begins(next, q) PROVE Told(g, q, next)
    BY <2>1
  <2>3. /\ found \in Legs(g) /\ IsLeg(g, x)
        /\ found # <<>> => Last(found).to = x.from /\ next[1] = found[1]
    BY <2>2, LegsShorter
  <2>4. CASE found = <<>>
    <3>1. next = <<x>> /\ next[1] = x
      BY <2>4
    <3> HIDE DEF next
    <3>2. q \in PointsOn(x.from, x.to) /\ q # x.to
      BY <2>2, <3>1 DEF Begins
    <3> QED
      BY <2>3, <3>1, <3>2, OneLegTells
  <2>5. CASE found # <<>>
    <3>1. Begins(found, q)
      BY <2>2, <2>3, <2>5 DEF Begins
    <3>2. Told(g, q, found)
      BY <1>2, <2>3, <2>5, <3>1
    <3> QED
      BY <2>3, <2>5, <3>2, NextLegTells
  <2> QED
    BY <2>4, <2>5
<1> HIDE DEF Good
<1>3. \A found \in Seq(PieceType(g)) : found \in Good
  BY <1>1, <1>2, SequencesGrow
<1>4. pieces \in Seq(PieceType(g))
  BY DEF Legs
<1> QED
  BY <1>3, <1>4 DEF Good

-----------------------------------------------------------------------------
(* Routes that hang together: their polylines and their pieces.            *)
Together(g, route) ==
    \A i \in 1..(Len(route) - 1) : EndOf(g, route[i]) = BeginOf(g, route[i + 1])

LEMMA LineFacts ==
    ASSUME NEW g \in GraphNames, NEW s \in StepsOf(g)
    PROVE  /\ LineOf(g, s) \in Walks /\ LineOf(g, s) # <<>> /\ LineOf(g, s) \in Seq(Point)
           /\ LineOf(g, s)[1] = Graphs[g].node[BeginOf(g, s)]
           /\ Last(LineOf(g, s)) = Graphs[g].node[EndOf(g, s)]
           /\ BeginOf(g, s) \in NodeIds /\ EndOf(g, s) \in NodeIds
<1> DEFINE edge == Graphs[g].edge[s[1]]
           line == edge.line
           n == Len(line)
<1>1. /\ s[2] \in {1, -1} /\ edge \in EdgeType /\ line \in Seq(Point) /\ AlongAxes(line)
      /\ n \in Nat /\ n >= 2
      /\ Head(line) = Graphs[g].node[edge.ends[1]] /\ Last(line) = Graphs[g].node[edge.ends[2]]
  BY StepIs
<1>2. edge.ends[1] \in NodeIds /\ edge.ends[2] \in NodeIds
  BY <1>1 DEF EdgeType
<1>3. /\ BeginOf(g, s) = edge.ends[IF s[2] = 1 THEN 1 ELSE 2]
      /\ EndOf(g, s) = edge.ends[IF s[2] = 1 THEN 2 ELSE 1]
      /\ LineOf(g, s) = IF s[2] = 1 THEN line ELSE Reverse(line)
  BY DEF BeginOf, EndOf, LineOf
<1>4. line[1] = Head(line) /\ line[n] = Last(line) /\ line # <<>>
  BY <1>1 DEF Last
<1> HIDE DEF line, edge
<1>5. CASE s[2] = 1
  <2>1. line \in Walks
    BY <1>1, <1>4, WalkIs
  <2> QED
    BY <1>1, <1>2, <1>3, <1>4, <1>5, <2>1
<1>6. CASE s[2] # 1
  <2> DEFINE back == [i \in 1..n |-> line[n - i + 1]]
  <2>1. Reverse(line) = back
    BY DEF Reverse
  <2>2. \A i \in 1..n : n - i + 1 \in 1..n /\ line[n - i + 1] \in Point
    BY <1>1
  <2>3. back \in Seq(Point) /\ Len(back) = n /\ \A i \in 1..n : back[i] = line[n - i + 1]
    BY <1>1, <2>2
  <2> HIDE DEF back
  <2>4. ASSUME NEW i \in 1..(n - 1) PROVE \E axis \in 1..2 : back[i][axis] = back[i + 1][axis]
    <3>1. /\ i \in 1..n /\ i + 1 \in 1..n /\ n - i \in 1..(n - 1)
          /\ n - (i + 1) + 1 = n - i /\ n - i + 1 = (n - i) + 1
      BY <1>1
    <3>2. back[i] = line[(n - i) + 1] /\ back[i + 1] = line[n - i]
      BY <2>3, <3>1
    <3>3. \E axis \in 1..2 : line[n - i][axis] = line[(n - i) + 1][axis]
      BY <1>1, <3>1 DEF AlongAxes
    <3> QED
      BY <3>2, <3>3
  <2>5. AlongAxes(back)
    BY <2>3, <2>4 DEF AlongAxes
  <2>6. back # <<>>
    BY <1>1, <2>3
  <2>7. back \in Walks
    BY <2>3, <2>5, <2>6, WalkIs
  <2>8. /\ 1 \in 1..n /\ n \in 1..n /\ n - 1 + 1 = n /\ n - n + 1 = 1
    BY <1>1
  <2>9. back[1] = line[n] /\ back[n] = line[1] /\ Last(back) = back[n]
    BY <2>3, <2>8 DEF Last
  <2> QED
    BY <1>1, <1>2, <1>3, <1>4, <1>6, <2>1, <2>3, <2>6, <2>7, <2>9
<1> QED
  BY <1>5, <1>6

LEMMA TogetherShorter ==
    ASSUME NEW g \in GraphNames, NEW route \in Seq(StepsOf(g)), NEW s \in StepsOf(g),
           Together(g, Append(route, s))
    PROVE  /\ Together(g, route)
           /\ route # <<>> => Last(LineOf(g, Last(route))) = LineOf(g, s)[1]
<1> DEFINE next == Append(route, s)
           n == Len(route)
<1>1. /\ next \in Seq(StepsOf(g)) /\ Len(next) = n + 1 /\ n \in Nat
      /\ next[n + 1] = s /\ \A k \in 1..n : next[k] = route[k]
  OBVIOUS
<1>2. \A i \in 1..(Len(next) - 1) : EndOf(g, next[i]) = BeginOf(g, next[i + 1])
  BY DEF Together
<1> HIDE DEF next
<1>3. Together(g, route)
  <2>1. \A i \in 1..(n - 1) : i \in 1..(Len(next) - 1) /\ i \in 1..n /\ i + 1 \in 1..n
    BY <1>1
  <2> QED
    BY <1>1, <1>2, <2>1 DEF Together
<1>4. ASSUME route # <<>> PROVE Last(LineOf(g, Last(route))) = LineOf(g, s)[1]
  <2>1. n \in 1..(Len(next) - 1) /\ n \in 1..n
    BY <1>1, <1>4
  <2>2. EndOf(g, route[n]) = BeginOf(g, s) /\ Last(route) = route[n] /\ route[n] \in StepsOf(g)
    BY <1>1, <1>2, <2>1 DEF Last
  <2> QED
    BY <2>2, LineFacts
<1> QED
  BY <1>3, <1>4

(* The polyline of a route, edge by edge.                                  *)
LinesOf(g, route) ==
    [i \in DOMAIN route |->
        LET line == LineOf(g, route[i])
        IN  IF i > 1 /\ Last(LineOf(g, route[i - 1])) = Head(line) THEN Tail(line) ELSE line]

LEMMA LinesAre ==
    ASSUME NEW g \in GraphNames, NEW route \in Seq(StepsOf(g))
    PROVE  /\ LinesOf(g, route) \in Seq(Seq(Point)) /\ Len(LinesOf(g, route)) = Len(route)
<1> DEFINE n == Len(route)
           Way(i) == LET line == LineOf(g, route[i])
                     IN  IF i > 1 /\ Last(LineOf(g, route[i - 1])) = Head(line)
                         THEN Tail(line) ELSE line
<1>1. n \in Nat /\ LinesOf(g, route) = [i \in 1..n |-> Way(i)]
  BY DEF LinesOf
<1>2. \A i \in 1..n : Way(i) \in Seq(Point)
  <2>1. \A i \in 1..n : LineOf(g, route[i]) \in Seq(Point) /\ LineOf(g, route[i]) # <<>>
    BY LineFacts
  <2> QED
    BY <2>1, HeadTailProperties
<1> HIDE DEF Way
<1> QED
  BY <1>1, <1>2

LEMMA PolylineAppend ==
    ASSUME NEW g \in GraphNames, NEW route \in Seq(StepsOf(g)), NEW s \in StepsOf(g),
           Together(g, Append(route, s))
    PROVE  Polyline(g, Append(route, s)) =
              Polyline(g, route) \o (IF route = <<>> THEN LineOf(g, s) ELSE Tail(LineOf(g, s)))
<1> DEFINE next == Append(route, s)
           n == Len(route)
           more == IF route = <<>> THEN LineOf(g, s) ELSE Tail(LineOf(g, s))
<1>1. /\ next \in Seq(StepsOf(g)) /\ Len(next) = n + 1 /\ n \in Nat
      /\ next[n + 1] = s /\ \A k \in 1..n : next[k] = route[k]
  OBVIOUS
<1>2. /\ LineOf(g, s) \in Seq(Point) /\ LineOf(g, s) # <<>> /\ Head(LineOf(g, s)) = LineOf(g, s)[1]
  BY LineFacts
<1>3. more \in Seq(Point)
  BY <1>2, HeadTailProperties
<1>4. LinesOf(g, next)[n + 1] = more
  <2>1. DOMAIN next = 1..(n + 1) /\ n + 1 \in 1..(n + 1)
    BY <1>1
  <2> HIDE DEF next
  <2>2. LinesOf(g, next)[n + 1] =
           IF n + 1 > 1 /\ Last(LineOf(g, next[n + 1 - 1])) = Head(LineOf(g, s))
           THEN Tail(LineOf(g, s)) ELSE LineOf(g, s)
    BY <1>1, <2>1 DEF LinesOf
  <2>3. CASE route = <<>>
    BY <2>2, <2>3
  <2>4. CASE route # <<>>
    <3>1. Last(LineOf(g, Last(route))) = LineOf(g, s)[1]
      BY <2>4, TogetherShorter
    <3>2. n \in 1..n /\ n + 1 - 1 = n /\ n + 1 > 1 /\ Last(route) = route[n]
      BY <1>1, <2>4 DEF Last
    <3> QED
      BY <1>1, <1>2, <2>2, <2>4, <3>1, <3>2
  <2> QED
    BY <2>3, <2>4
<1> HIDE DEF next, more
<1>5. /\ LinesOf(g, next) \in Seq(Seq(Point)) /\ Len(LinesOf(g, next)) = n + 1
      /\ LinesOf(g, route) \in Seq(Seq(Point)) /\ Len(LinesOf(g, route)) = n
  BY <1>1, LinesAre
<1>6. \A k \in 1..n : LinesOf(g, next)[k] = LinesOf(g, route)[k]
  <2>1. TAKE k \in 1..n
  <2>2. /\ k \in DOMAIN next /\ k \in DOMAIN route /\ next[k] = route[k]
        /\ k > 1 => k - 1 \in 1..n
    BY <1>1
  <2>3. k > 1 => next[k - 1] = route[k - 1]
    BY <1>1, <2>2
  <2> QED
    BY <2>2, <2>3 DEF LinesOf
<1>7. LinesOf(g, next) = Append(LinesOf(g, route), more)
  <2>1. /\ Append(LinesOf(g, route), more) \in Seq(Seq(Point))
        /\ Len(Append(LinesOf(g, route), more)) = n + 1
        /\ Append(LinesOf(g, route), more)[n + 1] = more
        /\ \A k \in 1..n : Append(LinesOf(g, route), more)[k] = LinesOf(g, route)[k]
    BY <1>3, <1>5, AppendProperties
  <2>2. \A k \in 1..(n + 1) : k \in 1..n \/ k = n + 1
    BY <1>1
  <2>3. \A k \in 1..(n + 1) : LinesOf(g, next)[k] = Append(LinesOf(g, route), more)[k]
    BY <1>4, <1>6, <2>1, <2>2
  <2> QED
    BY <1>5, <2>1, <2>3, SeqEqual
<1>8. Polyline(g, next) = FlattenSeq(LinesOf(g, next)) /\ Polyline(g, route) = FlattenSeq(LinesOf(g, route))
  BY DEF Polyline, LinesOf
<1> QED
  BY <1>3, <1>5, <1>7, <1>8, FlattenAppend DEF next, more

(* Two sequences joined at the member they share.                          *)
LEMMA JoinIs ==
    ASSUME NEW S, NEW a \in Seq(S), a # <<>>, NEW b \in Seq(S), b # <<>>, Last(a) = b[1]
    PROVE  /\ a \o Tail(b) \in Seq(S) /\ Len(a \o Tail(b)) = Len(a) + Len(b) - 1
           /\ a \o Tail(b) # <<>>
           /\ \A i \in 1..Len(a) : (a \o Tail(b))[i] = a[i]
           /\ \A i \in 1..Len(b) : (a \o Tail(b))[Len(a) + i - 1] = b[i]
           /\ Last(a \o Tail(b)) = Last(b)
<1> DEFINE m == Len(a)
           n == Len(b)
           t == Tail(b)
           all == a \o t
<1>1. /\ m \in Nat /\ m >= 1 /\ n \in Nat /\ n >= 1 /\ a[m] = b[1]
  BY DEF Last
<1>2. /\ t \in Seq(S) /\ Len(t) = n - 1 /\ \A i \in 1..(n - 1) : t[i] = b[i + 1]
  BY HeadTailProperties
<1> HIDE DEF t
<1>3. /\ all \in Seq(S) /\ Len(all) = m + (n - 1)
      /\ \A i \in 1..(m + (n - 1)) : all[i] = IF i <= m THEN a[i] ELSE t[i - m]
  <2>1. /\ a \o t \in Seq(S) /\ Len(a \o t) = Len(a) + Len(t)
        /\ \A i \in 1..(Len(a) + Len(t)) : (a \o t)[i] = IF i <= Len(a) THEN a[i] ELSE t[i - Len(a)]
    BY <1>2, ConcatProperties
  <2>2. Len(a) = m /\ Len(t) = n - 1
    BY <1>2
  <2> HIDE DEF m, n
  <2> QED
    BY <2>1, <2>2
<1> HIDE DEF m, n, all
<1>4. m + (n - 1) = m + n - 1 /\ m + n - 1 >= 1 /\ m + n - 1 \in Nat
  BY <1>1
<1>5. \A i \in 1..m : all[i] = a[i]
  <2>1. \A i \in 1..m : i \in 1..(m + (n - 1)) /\ i <= m
    BY <1>1
  <2> QED
    BY <1>3, <2>1
<1>6. ASSUME NEW i \in 1..n PROVE all[m + i - 1] = b[i]
  <2>1. CASE i = 1
    <3>1. m + i - 1 = m /\ m \in 1..m
      BY <1>1, <2>1
    <3> QED
      BY <1>1, <1>5, <2>1, <3>1
  <2>2. CASE i # 1
    <3>1. /\ m + i - 1 \in 1..(m + (n - 1)) /\ ~(m + i - 1 <= m) /\ (m + i - 1) - m = i - 1
          /\ i - 1 \in 1..(n - 1) /\ (i - 1) + 1 = i
      BY <1>1, <2>2
    <3>2. all[m + i - 1] = t[(m + i - 1) - m]
      BY <1>3, <3>1
    <3> QED
      BY <1>2, <3>1, <3>2
  <2> QED
    BY <2>1, <2>2
<1>7. Last(all) = Last(b)
  <2>1. n \in 1..n /\ m + n - 1 = Len(all)
    BY <1>1, <1>3, <1>4
  <2>2. all[m + n - 1] = b[n]
    BY <1>6, <2>1
  <2> QED
    BY <2>1, <2>2 DEF Last, n
<1>8. all # <<>>
  BY <1>3, <1>4
<1> QED
  BY <1>3, <1>4, <1>5, <1>6, <1>7, <1>8 DEF all, m, n, t

LEMMA WalksJoin ==
    ASSUME NEW a \in Walks, NEW b \in Walks, Last(a) = b[1]
    PROVE  a \o Tail(b) \in Walks /\ Last(a \o Tail(b)) = Last(b)
<1> DEFINE all == a \o Tail(b)
           m == Len(a)
           n == Len(b)
<1>1. /\ a \in Seq(Point) /\ a # <<>> /\ m \in Nat /\ m >= 1
      /\ b \in Seq(Point) /\ b # <<>> /\ n \in Nat /\ n >= 1
  BY WalkFacts
<1>2. /\ all \in Seq(Point) /\ Len(all) = m + n - 1 /\ all # <<>>
      /\ \A i \in 1..m : all[i] = a[i]
      /\ \A i \in 1..n : all[m + i - 1] = b[i]
      /\ Last(all) = Last(b)
  BY <1>1, JoinIs
<1>3. /\ \A i \in 1..(m - 1) : Aligned(a[i], a[i + 1])
      /\ \A i \in 1..(n - 1) : Aligned(b[i], b[i + 1])
  BY DEF Walks
<1> HIDE DEF all, m, n
<1>4. ASSUME NEW i \in 1..(Len(all) - 1) PROVE Aligned(all[i], all[i + 1])
  <2>1. CASE i < m
    <3>1. i \in 1..(m - 1) /\ i \in 1..m /\ i + 1 \in 1..m
      BY <1>1, <2>1
    <3> QED
      BY <1>2, <1>3, <3>1
  <2>2. CASE ~(i < m)
    <3> DEFINE j == i - m + 1
    <3>1. /\ j \in 1..(n - 1) /\ j \in 1..n /\ j + 1 \in 1..n
          /\ m + j - 1 = i /\ m + (j + 1) - 1 = i + 1
      BY <1>1, <1>2, <2>2
    <3> HIDE DEF j
    <3>2. all[i] = b[j] /\ all[i + 1] = b[j + 1]
      BY <1>2, <3>1
    <3> QED
      BY <1>3, <3>1, <3>2
  <2> QED
    BY <2>1, <2>2
<1> QED
  BY <1>2, <1>4 DEF Walks, all

(* The pieces of a line, with its points.                                  *)
Matches(pieces, line) ==
    /\ Len(pieces) + 1 = Len(line)
    /\ \A k \in 1..Len(pieces) : pieces[k].from = line[k] /\ pieces[k].to = line[k + 1]

LEMMA MatchesJoin ==
    ASSUME NEW T, NEW S, NEW P \in Seq(T), NEW Q \in Seq(T), NEW a \in Seq(S), NEW b \in Seq(S),
           a # <<>>, b # <<>>, Last(a) = b[1], Matches(P, a), Matches(Q, b)
    PROVE  Matches(P \o Q, a \o Tail(b))
<1> DEFINE line == a \o Tail(b)
           all == P \o Q
           m == Len(P)
           n == Len(Q)
<1>1. m \in Nat /\ n \in Nat /\ Len(a) = m + 1 /\ Len(b) = n + 1
  BY DEF Matches
<1>2. /\ Len(line) = Len(a) + Len(b) - 1
      /\ \A i \in 1..Len(a) : line[i] = a[i]
      /\ \A i \in 1..Len(b) : line[Len(a) + i - 1] = b[i]
  BY JoinIs
<1>3. /\ Len(all) = m + n
      /\ \A k \in 1..(m + n) : all[k] = IF k <= m THEN P[k] ELSE Q[k - m]
  BY ConcatProperties
<1>4. /\ \A k \in 1..m : P[k].from = a[k] /\ P[k].to = a[k + 1]
      /\ \A k \in 1..n : Q[k].from = b[k] /\ Q[k].to = b[k + 1]
  BY DEF Matches
<1> HIDE DEF line, all, m, n
<1>5. ASSUME NEW k \in 1..(m + n) PROVE all[k].from = line[k] /\ all[k].to = line[k + 1]
  <2>1. CASE k <= m
    <3>1. k \in 1..m /\ k \in 1..Len(a) /\ k + 1 \in 1..Len(a)
      BY <1>1, <2>1
    <3>2. all[k] = P[k]
      BY <1>3, <2>1
    <3> QED
      BY <1>2, <1>4, <3>1, <3>2
  <2>2. CASE ~(k <= m)
    <3> DEFINE j == k - m
    <3>1. /\ j \in 1..n /\ j \in 1..Len(b) /\ j + 1 \in 1..Len(b)
          /\ Len(a) + j - 1 = k /\ Len(a) + (j + 1) - 1 = k + 1
      BY <1>1, <2>2
    <3>2. all[k] = Q[j]
      BY <1>3, <2>2
    <3> HIDE DEF j
    <3>3. line[k] = b[j] /\ line[k + 1] = b[j + 1]
      BY <1>2, <3>1
    <3> QED
      BY <1>4, <3>1, <3>2, <3>3
  <2> QED
    BY <2>1, <2>2
<1>6. Len(all) + 1 = Len(line)
  BY <1>1, <1>2, <1>3
<1> QED
  BY <1>3, <1>5, <1>6 DEF Matches, all, line

LEMMA MatchesAreLegs ==
    ASSUME NEW g \in GraphNames, NEW pieces \in Seq(PieceType(g)), NEW S, NEW line \in Seq(S),
           Matches(pieces, line), \A k \in 1..Len(pieces) : IsLeg(g, pieces[k])
    PROVE  pieces \in Legs(g)
<1>1. Len(pieces) \in Nat
  OBVIOUS
<1>2. ASSUME NEW k \in 1..(Len(pieces) - 1) PROVE pieces[k].to = pieces[k + 1].from
  <2>1. k \in 1..Len(pieces) /\ k + 1 \in 1..Len(pieces)
    BY <1>1
  <2> QED
    BY <2>1 DEF Matches
<1> QED
  BY <1>2 DEF Legs

(* The pieces of one edge.                                                 *)
LEMMA PiecesOfStep ==
    ASSUME NEW g \in GraphNames, NEW s \in StepsOf(g)
    PROVE  LET line == WithoutRepeats(LineOf(g, s))
               pieces == PiecesAlong(line, s)
           IN  /\ line \in Seq(Point) /\ line # <<>> /\ line[1] = LineOf(g, s)[1]
               /\ Last(line) = Last(LineOf(g, s))
               /\ pieces \in Seq(PieceType(g)) /\ Matches(pieces, line)
               /\ \A k \in 1..Len(pieces) : IsLeg(g, pieces[k]) /\ pieces[k].step = s
<1> DEFINE whole == LineOf(g, s)
           line == WithoutRepeats(whole)
           pieces == PiecesAlong(line, s)
           n == Len(line) - 1
<1>1. whole \in Walks /\ whole # <<>> /\ whole \in Seq(Point)
  BY LineFacts
<1>2. line \in Seq(Point) /\ SameWay(whole, line)
  BY <1>1, RepeatsType, RepeatsAre
<1>3. /\ line # <<>> /\ line[1] = whole[1] /\ Last(line) = Last(whole)
      /\ \A j \in 1..n : line[j] # line[j + 1] /\ Succession(whole, line[j], line[j + 1])
  BY <1>2 DEF SameWay
<1> HIDE DEF line
<1>4. n \in Nat /\ Len(line) = n + 1 /\ \A j \in 1..n : line[j] \in Point /\ line[j + 1] \in Point
  BY <1>2, <1>3
<1>5. pieces = [j \in 1..n |-> [from |-> line[j], to |-> line[j + 1], step |-> s]]
  BY DEF PiecesAlong
<1>6. /\ pieces \in Seq(PieceType(g)) /\ Len(pieces) = n
      /\ \A j \in 1..n : pieces[j] = [from |-> line[j], to |-> line[j + 1], step |-> s]
  <2> HIDE DEF n
  <2>1. \A j \in 1..n : [from |-> line[j], to |-> line[j + 1], step |-> s] \in PieceType(g)
    BY <1>4 DEF PieceType
  <2> QED
    BY <1>4, <1>5, <2>1
<1> HIDE DEF pieces, whole, n
<1>7. ASSUME NEW j \in 1..n PROVE Aligned(line[j], line[j + 1])
  <2>1. PICK i \in 1..(Len(whole) - 1) : whole[i] = line[j] /\ whole[i + 1] = line[j + 1]
    BY <1>3 DEF Succession
  <2> QED
    BY <1>1, <2>1 DEF Walks
<1>8. \A j \in 1..n : IsLeg(g, pieces[j]) /\ pieces[j].step = s
  BY <1>3, <1>4, <1>6, <1>7 DEF IsLeg, whole
<1>9. Matches(pieces, line)
  BY <1>4, <1>6 DEF Matches
<1> QED
  BY <1>2, <1>3, <1>6, <1>8, <1>9 DEF line, pieces, whole

(* The pieces of a route, edge by edge.                                    *)
PiecesOf(g, route) ==
    [i \in DOMAIN route |-> PiecesAlong(WithoutRepeats(LineOf(g, route[i])), route[i])]

LEMMA RoutePiecesAppend ==
    ASSUME NEW g \in GraphNames, NEW route \in Seq(StepsOf(g)), NEW s \in StepsOf(g)
    PROVE  /\ RoutePieces(g, Append(route, s)) =
                 RoutePieces(g, route) \o PiecesAlong(WithoutRepeats(LineOf(g, s)), s)
           /\ RoutePieces(g, route) \in Seq(PieceType(g))
<1> DEFINE next == Append(route, s)
           n == Len(route)
           Own(t) == PiecesAlong(WithoutRepeats(LineOf(g, t)), t)
           T == PieceType(g)
<1>1. /\ next \in Seq(StepsOf(g)) /\ Len(next) = n + 1 /\ n \in Nat
      /\ next[n + 1] = s /\ \A k \in 1..n : next[k] = route[k]
  OBVIOUS
<1>2. \A t \in StepsOf(g) : Own(t) \in Seq(T)
  BY PiecesOfStep
<1> HIDE DEF Own, T, next
<1>3. ASSUME NEW r \in Seq(StepsOf(g))
      PROVE  /\ PiecesOf(g, r) \in Seq(Seq(T)) /\ Len(PiecesOf(g, r)) = Len(r)
             /\ \A i \in 1..Len(r) : PiecesOf(g, r)[i] = Own(r[i])
  <2>1. PiecesOf(g, r) = [i \in 1..Len(r) |-> Own(r[i])]
    BY DEF PiecesOf, Own
  <2>2. \A i \in 1..Len(r) : Own(r[i]) \in Seq(T)
    BY <1>2
  <2>3. Len(r) \in Nat
    OBVIOUS
  <2> QED
    BY <2>1, <2>2, <2>3
<1>4. /\ PiecesOf(g, next) \in Seq(Seq(T)) /\ Len(PiecesOf(g, next)) = n + 1
      /\ \A i \in 1..(n + 1) : PiecesOf(g, next)[i] = Own(next[i])
  BY <1>1, <1>3
<1>5. /\ PiecesOf(g, route) \in Seq(Seq(T)) /\ Len(PiecesOf(g, route)) = n
      /\ \A i \in 1..n : PiecesOf(g, route)[i] = Own(route[i])
  BY <1>3
<1>6. PiecesOf(g, next) = Append(PiecesOf(g, route), Own(s))
  <2>1. /\ Append(PiecesOf(g, route), Own(s)) \in Seq(Seq(T))
        /\ Len(Append(PiecesOf(g, route), Own(s))) = n + 1
        /\ Append(PiecesOf(g, route), Own(s))[n + 1] = Own(s)
        /\ \A k \in 1..n : Append(PiecesOf(g, route), Own(s))[k] = PiecesOf(g, route)[k]
    BY <1>2, <1>5, AppendProperties
  <2>2. \A k \in 1..(n + 1) : k \in 1..n \/ k = n + 1
    BY <1>1
  <2>3. \A k \in 1..(n + 1) : PiecesOf(g, next)[k] = Append(PiecesOf(g, route), Own(s))[k]
    BY <1>1, <1>4, <1>5, <2>1, <2>2
  <2> QED
    BY <1>4, <2>1, <2>3, SeqEqual
<1>7. /\ RoutePieces(g, next) = FlattenSeq(PiecesOf(g, next))
      /\ RoutePieces(g, route) = FlattenSeq(PiecesOf(g, route))
  BY DEF RoutePieces, PiecesOf
<1>8. Own(s) \in Seq(T)
  BY <1>2
<1>9. FlattenSeq(Append(PiecesOf(g, route), Own(s))) = FlattenSeq(PiecesOf(g, route)) \o Own(s)
  BY <1>5, <1>8, FlattenAppend
<1>10. FlattenSeq(PiecesOf(g, route)) \in Seq(T)
  BY <1>5, FlattenType
<1> QED
  BY <1>6, <1>7, <1>9, <1>10 DEF next, Own, T

(* Of a route that hangs together, the pieces are those of its polyline.   *)
RouteFacts(g, route) ==
    LET poly == Polyline(g, route)
        pieces == RoutePieces(g, route)
    IN  /\ poly \in Walks /\ Last(poly) = Last(LineOf(g, Last(route)))
        /\ pieces \in Seq(PieceType(g)) /\ Matches(pieces, WithoutRepeats(poly))
        /\ \A k \in 1..Len(pieces) : IsLeg(g, pieces[k])

LEMMA RouteIs ==
    ASSUME NEW g \in GraphNames, NEW route \in Seq(StepsOf(g)), route # <<>>, Together(g, route)
    PROVE  RouteFacts(g, route)
<1> DEFINE Good == {r \in Seq(StepsOf(g)) : r # <<>> /\ Together(g, r) => RouteFacts(g, r)}
<1>1. <<>> \in Good
  OBVIOUS
<1>2. ASSUME NEW r \in Seq(StepsOf(g)), NEW s \in StepsOf(g), r \in Good
      PROVE  Append(r, s) \in Good
  <2> DEFINE next == Append(r, s)
             line == LineOf(g, s)
             W == WithoutRepeats(line)
             own == PiecesAlong(W, s)
             T == PieceType(g)
  <2>1. next \in Seq(StepsOf(g)) /\ Last(next) = s
    BY DEF Last
  <2>2. SUFFICES ASSUME Together(g, next) PROVE RouteFacts(g, next)
    BY <2>1
  <2>3. line \in Walks /\ line # <<>> /\ line \in Seq(Point)
    BY LineFacts
  <2>4. /\ W \in Seq(Point) /\ W # <<>> /\ W[1] = line[1] /\ Last(W) = Last(line)
        /\ own \in Seq(T) /\ Matches(own, W) /\ \A k \in 1..Len(own) : IsLeg(g, own[k])
    BY PiecesOfStep
  <2>5. /\ RoutePieces(g, next) = RoutePieces(g, r) \o own
        /\ RoutePieces(g, r) \in Seq(T)
    BY RoutePiecesAppend
  <2>6. Polyline(g, next) = Polyline(g, r) \o (IF r = <<>> THEN line ELSE Tail(line))
    BY <2>2, PolylineAppend
  <2> HIDE DEF next, line, own, T
  <2>7. CASE r = <<>>
    <3>1. Polyline(g, r) = <<>> /\ RoutePieces(g, r) = <<>>
      <4>1. [i \in DOMAIN <<>> |-> PiecesAlong(WithoutRepeats(LineOf(g, (<<>>)[i])), (<<>>)[i])] = <<>>
        OBVIOUS
      <4>2. LinesOf(g, <<>>) = <<>>
        <5>1. <<>> \in Seq(StepsOf(g)) /\ Len(<<>>) = 0
          OBVIOUS
        <5>2. LinesOf(g, <<>>) \in Seq(Seq(Point)) /\ Len(LinesOf(g, <<>>)) = 0
          BY <5>1, LinesAre
        <5> QED
          BY <5>2
      <4>3. Polyline(g, <<>>) = FlattenSeq(LinesOf(g, <<>>))
        BY DEF Polyline, LinesOf
      <4> QED
        BY <2>7, <4>1, <4>2, <4>3, FlattenEmpty DEF RoutePieces
    <3>2. Polyline(g, next) = line /\ RoutePieces(g, next) = own
      <4>1. <<>> \o line = line /\ <<>> \o own = own
        BY <2>3, <2>4, ConcatEmptySeq
      <4> QED
        BY <2>5, <2>6, <2>7, <3>1, <4>1
    <3> QED
      BY <2>1, <2>3, <2>4, <3>2 DEF RouteFacts, line, T
  <2>8. CASE r # <<>>
    <3> DEFINE poly == Polyline(g, r)
               pieces == RoutePieces(g, r)
               V == WithoutRepeats(poly)
    <3>1. Together(g, r) /\ Last(LineOf(g, Last(r))) = line[1]
      BY <2>2, <2>8, TogetherShorter DEF next, line
    <3>2. /\ poly \in Walks /\ Last(poly) = line[1] /\ pieces \in Seq(T) /\ Matches(pieces, V)
          /\ \A k \in 1..Len(pieces) : IsLeg(g, pieces[k])
      BY <1>2, <2>8, <3>1 DEF RouteFacts, T
    <3>3. poly \in Seq(Point) /\ poly # <<>>
      BY <3>2, WalkFacts
    <3>4. V \in Seq(Point) /\ V # <<>> /\ Last(V) = line[1]
      BY <3>2, <3>3, RepeatsType, RepeatsAre DEF SameWay
    <3>5. Polyline(g, next) = poly \o Tail(line)
      BY <2>6, <2>8
    <3> HIDE DEF poly, pieces
    <3>6. poly \o Tail(line) \in Walks /\ Last(poly \o Tail(line)) = Last(line)
      BY <2>3, <3>2, WalksJoin
    <3>7. WithoutRepeats(poly \o Tail(line)) = V \o Tail(W)
      BY <2>3, <3>2, <3>3, RepeatsJoin
    <3> HIDE DEF V, W
    <3>8. Matches(pieces \o own, V \o Tail(W))
      BY <2>4, <3>2, <3>4, MatchesJoin
    <3>9. /\ pieces \o own \in Seq(T) /\ Len(pieces \o own) = Len(pieces) + Len(own)
          /\ \A k \in 1..(Len(pieces) + Len(own)) :
                (pieces \o own)[k] = IF k <= Len(pieces) THEN pieces[k] ELSE own[k - Len(pieces)]
      BY <2>4, <3>2, ConcatProperties
    <3>10. ASSUME NEW k \in 1..Len(pieces \o own) PROVE IsLeg(g, (pieces \o own)[k])
      <4>1. Len(pieces) \in Nat /\ Len(own) \in Nat
        BY <2>4, <3>2
      <4>2. CASE k <= Len(pieces)
        <5>1. k \in 1..Len(pieces)
          BY <3>9, <4>1, <4>2
        <5> QED
          BY <3>2, <3>9, <4>2, <5>1
      <4>3. CASE ~(k <= Len(pieces))
        <5>1. k - Len(pieces) \in 1..Len(own)
          BY <3>9, <4>1, <4>3
        <5> QED
          BY <2>4, <3>9, <4>3, <5>1
      <4> QED
        BY <4>2, <4>3
    <3>11. RoutePieces(g, next) = pieces \o own
      BY <2>5 DEF pieces
    <3> QED
      BY <2>1, <3>5, <3>6, <3>7, <3>8, <3>9, <3>10, <3>11 DEF RouteFacts, line, T
  <2> QED
    BY <2>7, <2>8
<1> HIDE DEF Good
<1>3. \A r \in Seq(StepsOf(g)) : r \in Good
  BY <1>1, <1>2, SequencesGrow
<1> QED
  BY <1>3 DEF Good

-----------------------------------------------------------------------------
(* What is left of a line from a point on a piece of it on.                *)
LEMMA PairFirst ==
    ASSUME NEW S, NEW x \in S, NEW rest \in Seq(S), rest # <<>>
    PROVE  /\ <<x>> \o rest = <<x, rest[1]>> \o Tail(rest)
           /\ <<rest[1]>> \o Tail(rest) = rest
           /\ <<x>> \o rest \in Seq(S) /\ <<x>> \o rest # <<>> /\ (<<x>> \o rest)[1] = x
           /\ Tail(<<x>> \o rest) = rest
           /\ Last(<<x>> \o rest) = Last(rest)
<1> DEFINE all == <<x>> \o rest
           t == Tail(rest)
           n == Len(rest)
<1>1. /\ n \in Nat /\ n >= 1 /\ rest[1] \in S
      /\ t \in Seq(S) /\ Len(t) = n - 1 /\ \A i \in 1..(n - 1) : t[i] = rest[i + 1]
  BY HeadTailProperties
<1>2. /\ all \in Seq(S) /\ Len(all) = n + 1 /\ all[1] = x
      /\ \A i \in 1..n : all[i + 1] = rest[i]
  OBVIOUS
<1>3. <<rest[1]>> \o t = rest
  <2> DEFINE again == <<rest[1]>> \o t
  <2>1. again \in Seq(S) /\ Len(again) = 1 + (n - 1) /\ again[1] = rest[1]
        /\ \A i \in 1..(n - 1) : again[i + 1] = t[i]
    <3> HIDE DEF t, n
    <3>1. rest[1] \in S /\ n - 1 \in Nat /\ Len(t) = n - 1 /\ t \in Seq(S)
      BY <1>1
    <3> QED
      BY <3>1
  <2> HIDE DEF again, t
  <2>2. ASSUME NEW i \in 1..n PROVE again[i] = rest[i]
    <3>1. CASE i = 1
      BY <2>1, <3>1
    <3>2. CASE i # 1
      <4>1. i - 1 \in 1..(n - 1) /\ (i - 1) + 1 = i
        BY <1>1, <3>2
      <4> QED
        BY <1>1, <2>1, <4>1
    <3> QED
      BY <3>1, <3>2
  <2>3. Len(again) = n
    BY <1>1, <2>1
  <2> QED
    BY <2>1, <2>2, <2>3, SeqEqual DEF again, t
<1>4. <<x>> \o (<<rest[1]>> \o t) = <<x, rest[1]>> \o t
  <2> HIDE DEF t, n
  <2> QED
    BY <1>1
<1>5. Tail(all) = rest
  <2> HIDE DEF all
  <2>1. all # <<>>
    BY <1>1, <1>2
  <2>2. /\ Tail(all) \in Seq(S) /\ Len(Tail(all)) = Len(all) - 1
        /\ \A i \in 1..Len(Tail(all)) : Tail(all)[i] = all[i + 1]
    BY <1>2, <2>1, HeadTailProperties
  <2>3. Len(Tail(all)) = n
    BY <1>1, <1>2, <2>2
  <2> QED
    BY <1>2, <2>2, <2>3, SeqEqual
<1>6. Last(all) = Last(rest) /\ all # <<>>
  <2> HIDE DEF all
  <2>1. n \in 1..n /\ all[n + 1] = rest[n]
    BY <1>1, <1>2
  <2> QED
    BY <1>1, <1>2, <2>1 DEF Last
<1> QED
  BY <1>2, <1>3, <1>4, <1>5, <1>6

LEMMA PairIs ==
    ASSUME NEW S, NEW x \in S, NEW y \in S
    PROVE  Append(<<x>>, y) = <<x, y>>
<1>1. <<x>> \in Seq(S)
  OBVIOUS
<1>2. /\ Append(<<x>>, y) \in Seq(S) /\ Len(Append(<<x>>, y)) = 2
      /\ Append(<<x>>, y)[1] = x /\ Append(<<x>>, y)[2] = y
  BY <1>1
<1>3. <<x, y>> \in Seq(S) /\ Len(<<x, y>>) = 2
  OBVIOUS
<1>4. \A k \in 1..2 : Append(<<x>>, y)[k] = <<x, y>>[k]
  BY <1>2
<1> QED
  BY <1>2, <1>3, <1>4, SeqEqual

LEMMA RepeatsPrepend ==
    ASSUME NEW S, NEW x \in S, NEW rest \in Seq(S), rest # <<>>
    PROVE  WithoutRepeats(<<x>> \o rest) =
              IF x = rest[1] THEN WithoutRepeats(rest) ELSE <<x>> \o WithoutRepeats(rest)
<1> DEFINE y == rest[1]
           W == WithoutRepeats(rest)
<1>1. y \in S
  OBVIOUS
<1>2. /\ <<x>> \o rest = <<x, y>> \o Tail(rest)
  BY PairFirst
<1>3. W \in Seq(S) /\ W # <<>> /\ W[1] = y
  BY RepeatsType, RepeatsAre DEF SameWay
<1>4. <<y>> \o Tail(W) = W /\ <<x>> \o W = <<x, y>> \o Tail(W)
  BY <1>3, PairFirst
<1> HIDE DEF W
<1>5. WithoutRepeats(<<x, y>> \o Tail(rest)) = WithoutRepeats(<<x, y>>) \o Tail(W)
  <2> DEFINE pair == <<x, y>>
  <2>1. pair \in Seq(S) /\ pair # <<>> /\ Last(pair) = rest[1]
    BY <1>1 DEF Last
  <2> HIDE DEF pair
  <2>2. WithoutRepeats(pair \o Tail(rest)) = WithoutRepeats(pair) \o Tail(WithoutRepeats(rest))
    BY <2>1, RepeatsJoin
  <2> QED
    BY <2>2 DEF pair, W
<1>6. WithoutRepeats(<<x, y>>) = IF x = y THEN <<y>> ELSE <<x, y>>
  <2> DEFINE none == <<>>
             one == Append(none, x)
  <2>1. none \in Seq(S) /\ none = <<>> /\ WithoutRepeats(none) = <<>> /\ one = <<x>>
    BY RepeatsEmpty
  <2> HIDE DEF none
  <2>2. WithoutRepeats(one) = one
    BY <2>1, RepeatsAppend
  <2>3. one \in Seq(S) /\ one # <<>> /\ Last(one) = x /\ Append(one, y) = <<x, y>>
    <3> HIDE DEF y, one
    <3>1. one = <<x>>
      BY <2>1
    <3>2. <<x>> \in Seq(S) /\ <<x>> # <<>>
      OBVIOUS
    <3>4. Append(<<x>>, y) = <<x, y>>
      BY <1>1, PairIs
    <3>3. Last(<<x>>) = x
      BY DEF Last
    <3> QED
      BY <3>1, <3>2, <3>3, <3>4
  <2>4. one = <<x>>
    BY <2>1
  <2> HIDE DEF one
  <2>5. WithoutRepeats(Append(one, y)) =
           IF Last(one) = y THEN WithoutRepeats(one) ELSE Append(WithoutRepeats(one), y)
    BY <1>1, <2>3, RepeatsAppend
  <2> HIDE DEF y
  <2>6. CASE x = y
    <3>1. WithoutRepeats(<<x, y>>) = one
      BY <2>2, <2>3, <2>5, <2>6
    <3> QED
      BY <2>4, <2>6, <3>1
  <2>7. CASE x # y
    <3>1. WithoutRepeats(<<x, y>>) = Append(one, y)
      BY <2>2, <2>3, <2>5, <2>7
    <3> QED
      BY <2>3, <2>7, <3>1
  <2> QED
    BY <2>6, <2>7
<1>7. CASE x = y
  BY <1>2, <1>4, <1>5, <1>6, <1>7 DEF W
<1>8. CASE x # y
  BY <1>2, <1>4, <1>5, <1>6, <1>8 DEF W
<1> QED
  BY <1>7, <1>8

LEMMA RepeatsWalk ==
    ASSUME NEW line \in Walks
    PROVE  WithoutRepeats(line) \in Walks
<1> DEFINE w == WithoutRepeats(line)
<1>1. line \in Seq(Point) /\ line # <<>>
  BY WalkFacts
<1>2. w \in Seq(Point) /\ SameWay(line, w)
  BY <1>1, RepeatsType, RepeatsAre
<1> HIDE DEF w
<1>3. ASSUME NEW j \in 1..(Len(w) - 1) PROVE Aligned(w[j], w[j + 1])
  <2>1. PICK i \in 1..(Len(line) - 1) : line[i] = w[j] /\ line[i + 1] = w[j + 1]
    BY <1>2 DEF SameWay, Succession
  <2> QED
    BY <2>1 DEF Walks
<1> QED
  BY <1>2, <1>3 DEF Walks, SameWay, w

(* The line from q, on its i-th piece, on.                                 *)
FromOn(line, i, q) == <<q>> \o SubSeq(line, i + 1, Len(line))

LEMMA RestOfLine ==
    ASSUME NEW line \in Walks, NEW i \in Pieces(line)
    PROVE  LET rest == SubSeq(line, i + 1, Len(line))
           IN  /\ rest \in Walks /\ rest \in Seq(Point) /\ rest # <<>> /\ rest[1] = line[i + 1]
               /\ i \in 1..(Len(line) - 1) /\ line[i] # line[i + 1] /\ Aligned(line[i], line[i + 1])
               /\ line[i] \in Point /\ line[i + 1] \in Point
               /\ SubSeq(line, 1, i) \in Seq(Point) /\ SubSeq(line, 1, i) # <<>>
               /\ Last(SubSeq(line, 1, i)) = line[i]
               /\ SubSeq(line, 1, i) \o rest = line
<1> DEFINE n == Len(line)
           rest == SubSeq(line, i + 1, n)
           start == SubSeq(line, 1, i)
<1>1. /\ line \in Seq(Point) /\ line # <<>> /\ n \in Nat /\ \A k \in 1..n : line[k] \in Point
      /\ \A k \in 1..(n - 1) : Aligned(line[k], line[k + 1])
  BY WalkFacts DEF Walks
<1>2. i \in 1..(n - 1) /\ line[i] # line[i + 1]
  BY DEF Pieces
<1> HIDE DEF n
<1>3. /\ i \in Nat /\ i >= 1 /\ i < n /\ i \in 1..n /\ i + 1 \in 1..n
      /\ \A k \in (i + 1)..n : k \in 1..n
      /\ \A k \in 1..i : k \in 1..n
  BY <1>1, <1>2
<1>4. /\ rest \in Seq(Point) /\ Len(rest) = n - i
      /\ \A k \in 1..(n - i) : rest[k] = line[i + k]
  <2>1. /\ \A k \in (i + 1)..n : line[k] \in Point
        /\ i + 1 \in Int /\ n \in Int /\ i + 1 <= n
    BY <1>1, <1>3
  <2>2. /\ SubSeq(line, i + 1, n) \in Seq(Point)
        /\ Len(SubSeq(line, i + 1, n)) = IF i + 1 <= n THEN n - (i + 1) + 1 ELSE 0
        /\ \A k \in 1..(n - (i + 1) + 1) : SubSeq(line, i + 1, n)[k] = line[(i + 1) + k - 1]
    BY <2>1, SubSeqProperties
  <2>3. /\ n - (i + 1) + 1 = n - i /\ \A k \in 1..(n - i) : (i + 1) + k - 1 = i + k
    BY <1>1, <1>3
  <2> HIDE DEF rest
  <2> QED
    BY <2>1, <2>2, <2>3 DEF rest
<1>5. /\ start \in Seq(Point) /\ Len(start) = i
      /\ \A k \in 1..i : start[k] = line[k]
  <2>1. (\A k \in 1..i : line[k] \in Point) /\ 1 \in Int /\ i \in Int /\ 1 <= i
    BY <1>1, <1>3
  <2>2. /\ SubSeq(line, 1, i) \in Seq(Point)
        /\ Len(SubSeq(line, 1, i)) = IF 1 <= i THEN i - 1 + 1 ELSE 0
        /\ \A k \in 1..(i - 1 + 1) : SubSeq(line, 1, i)[k] = line[1 + k - 1]
    BY <2>1, SubSeqProperties
  <2>3. /\ i - 1 + 1 = i /\ \A k \in 1..i : 1 + k - 1 = k
    BY <1>3
  <2> HIDE DEF start
  <2> QED
    BY <2>1, <2>2, <2>3 DEF start
<1> HIDE DEF rest, start
<1>6. rest # <<>> /\ start # <<>> /\ Last(start) = line[i]
  <2>1. n - i >= 1 /\ i \in 1..i
    BY <1>1, <1>3
  <2> QED
    BY <1>3, <1>4, <1>5, <2>1 DEF Last
<1>7. rest[1] = line[i + 1]
  <2>1. 1 \in 1..(n - i)
    BY <1>1, <1>3
  <2> QED
    BY <1>4, <2>1
<1>8. rest \in Walks
  <2>1. ASSUME NEW k \in 1..(Len(rest) - 1) PROVE Aligned(rest[k], rest[k + 1])
    <3>1. /\ k \in 1..(n - i) /\ k + 1 \in 1..(n - i) /\ i + k \in 1..(n - 1)
          /\ i + (k + 1) = (i + k) + 1
      BY <1>1, <1>3, <1>4
    <3>2. rest[k] = line[i + k] /\ rest[k + 1] = line[(i + k) + 1]
      BY <1>4, <3>1
    <3> QED
      BY <1>1, <3>1, <3>2
  <2> QED
    BY <1>4, <1>6, <2>1 DEF Walks
<1>9. start \o rest = line
  <2> DEFINE all == start \o rest
  <2>1. /\ all \in Seq(Point) /\ Len(all) = i + (n - i)
        /\ \A k \in 1..(i + (n - i)) : all[k] = IF k <= i THEN start[k] ELSE rest[k - i]
    <3>1. /\ start \o rest \in Seq(Point) /\ Len(start \o rest) = Len(start) + Len(rest)
          /\ \A k \in 1..(Len(start) + Len(rest)) :
                (start \o rest)[k] = IF k <= Len(start) THEN start[k] ELSE rest[k - Len(start)]
      BY <1>4, <1>5, ConcatProperties
    <3> QED
      BY <1>4, <1>5, <3>1
  <2> HIDE DEF all
  <2>2. i + (n - i) = n
    BY <1>1, <1>3
  <2>3. ASSUME NEW k \in 1..n PROVE all[k] = line[k]
    <3>1. CASE k <= i
      <4>1. k \in 1..i
        BY <1>3, <3>1
      <4> QED
        BY <1>5, <2>1, <2>2, <3>1, <4>1
    <3>2. CASE ~(k <= i)
      <4>1. k - i \in 1..(n - i) /\ i + (k - i) = k
        BY <1>1, <1>3, <3>2
      <4> QED
        BY <1>4, <2>1, <2>2, <3>2, <4>1
    <3> QED
      BY <3>1, <3>2
  <2> QED
    BY <1>1, <2>1, <2>2, <2>3, SeqEqual DEF all, n
<1> QED
  BY <1>1, <1>2, <1>3, <1>4, <1>5, <1>6, <1>7, <1>8, <1>9 DEF rest, start, n

(* What is left goes on along the pieces of the line from some piece on.   *)
Resumes(W, m, q, line, i) ==
    /\ m \in 1..(Len(W) - 1) /\ W[m] = line[i] /\ W[m + 1] = line[i + 1]
    /\ <<q>> \o SubSeq(W, IF W[m + 1] = q THEN m + 2 ELSE m + 1, Len(W)) =
          WithoutRepeats(FromOn(line, i, q))

LEMMA LeftIs ==
    ASSUME NEW line \in Walks, NEW i \in Pieces(line), NEW q \in PointsOn(line[i], line[i + 1])
    PROVE  /\ q \in Point
           /\ WithoutRepeats(FromOn(line, i, q)) \in Walks
           /\ WithoutRepeats(FromOn(line, i, q))[1] = q
           /\ \E m : Resumes(WithoutRepeats(line), m, q, line, i)
<1> DEFINE rest == SubSeq(line, i + 1, Len(line))
           start == SubSeq(line, 1, i)
           a == line[i]
           b == line[i + 1]
           left == FromOn(line, i, q)
           V == WithoutRepeats(start)
           Z == WithoutRepeats(rest)
           W == WithoutRepeats(line)
<1>1. /\ rest \in Walks /\ rest \in Seq(Point) /\ rest # <<>> /\ rest[1] = b
      /\ a # b /\ Aligned(a, b) /\ a \in Point /\ b \in Point
      /\ start \in Seq(Point) /\ start # <<>> /\ Last(start) = a
      /\ start \o rest = line
  BY RestOfLine
<1>2. left = <<q>> \o rest
  BY DEF FromOn
<1> HIDE DEF rest, start, a, b, left
<1>3. q \in PointsOn(a, b)
  BY DEF a, b
<1>4. q \in Point /\ Aligned(q, b)
  <2>1. q \in Point
    BY <1>1, <1>3, EndsOfPiece
  <2>2. CASE q = b
    BY <2>1, <2>2 DEF Aligned
  <2>3. CASE q # b
    BY <1>1, <1>3, <2>3, RestOfPiece
  <2> QED
    BY <2>1, <2>2, <2>3
<1>5. left \in Walks
  <2> DEFINE one == <<q>>
             pair == Append(one, b)
  <2>1. one \in Walks /\ Last(one) = q
    BY <1>4, OneIsWalk
  <2> HIDE DEF one
  <2>2. pair \in Walks /\ Last(pair) = b
    BY <1>1, <1>4, <2>1, WalkAppend
  <2>3. pair = <<q, b>>
    <3>1. q \in Point /\ b \in Point
      BY <1>1, <1>4
    <3>2. Append(<<q>>, b) = <<q, b>>
      BY <3>1, PairIs
    <3> QED
      BY <3>2 DEF one
  <2>4. <<q>> \o rest = <<q, b>> \o Tail(rest)
    <3>1. q \in Point /\ rest \in Seq(Point) /\ rest # <<>> /\ rest[1] = b
      BY <1>1, <1>4
    <3>2. <<q>> \o rest = <<q, rest[1]>> \o Tail(rest)
      BY <3>1, PairFirst
    <3> QED
      BY <3>1, <3>2
  <2>5. pair \in Walks /\ Last(pair) = rest[1]
    BY <1>1, <2>2
  <2> HIDE DEF pair
  <2>6. pair \o Tail(rest) \in Walks
    BY <1>1, <2>5, WalksJoin
  <2> QED
    BY <1>2, <2>3, <2>4, <2>6
<1>6. /\ WithoutRepeats(left) \in Walks /\ WithoutRepeats(left)[1] = q
  <2>1. left \in Seq(Point) /\ left # <<>> /\ left[1] = q
    BY <1>1, <1>2, <1>4, PairFirst
  <2> QED
    BY <1>5, <2>1, RepeatsWalk, RepeatsAre DEF SameWay
<1>7. WithoutRepeats(left) = IF q = b THEN Z ELSE <<q>> \o Z
  BY <1>1, <1>2, <1>4, RepeatsPrepend
<1>8. /\ V \in Seq(Point) /\ V # <<>> /\ Last(V) = a
      /\ Z \in Seq(Point) /\ Z # <<>> /\ Z[1] = b
  BY <1>1, RepeatsType, RepeatsAre DEF SameWay
<1>9. W = V \o Z
  <2> DEFINE both == <<a>> \o rest
  <2>1. /\ both \in Seq(Point) /\ both # <<>> /\ both[1] = a /\ Tail(both) = rest
    BY <1>1, PairFirst
  <2>2. WithoutRepeats(both) = <<a>> \o Z
    BY <1>1, RepeatsPrepend
  <2>3. Tail(<<a>> \o Z) = Z
    BY <1>1, <1>8, PairFirst
  <2> HIDE DEF both, Z
  <2>4. WithoutRepeats(start \o Tail(both)) = WithoutRepeats(start) \o Tail(WithoutRepeats(both))
    BY <1>1, <2>1, RepeatsJoin
  <2> QED
    BY <1>1, <2>1, <2>2, <2>3, <2>4
<1> HIDE DEF V, Z, W
<1> DEFINE m == Len(V)
           n == Len(Z)
<1>10. m \in Nat /\ m >= 1 /\ n \in Nat /\ n >= 1 /\ V[m] = a
  BY <1>8 DEF Last
<1>11. /\ W \in Seq(Point) /\ Len(W) = m + n
       /\ \A k \in 1..m : W[k] = V[k]
       /\ \A k \in 1..n : W[m + k] = Z[k]
  <2>1. /\ V \o Z \in Seq(Point) /\ Len(V \o Z) = m + n
        /\ \A k \in 1..(m + n) : (V \o Z)[k] = IF k <= m THEN V[k] ELSE Z[k - m]
    BY <1>8, ConcatProperties
  <2> HIDE DEF m, n
  <2>2. \A k \in 1..m : k \in 1..(m + n) /\ k <= m
    BY <1>10
  <2>3. \A k \in 1..n : m + k \in 1..(m + n) /\ ~(m + k <= m) /\ (m + k) - m = k
    BY <1>10
  <2> QED
    BY <1>9, <2>1, <2>2, <2>3
<1> HIDE DEF m, n
<1>12. m \in 1..(Len(W) - 1) /\ W[m] = a /\ W[m + 1] = b
  <2>1. m \in 1..(m + n - 1) /\ m \in 1..m /\ 1 \in 1..n
    BY <1>10
  <2> QED
    BY <1>8, <1>10, <1>11, <2>1
<1>13. SubSeq(W, m + 1, Len(W)) = Z
  <2>1. /\ \A k \in (m + 1)..(m + n) : W[k] \in Point
        /\ m + 1 \in Int /\ m + n \in Int /\ m + 1 <= m + n
    BY <1>10, <1>11
  <2> DEFINE end == SubSeq(W, m + 1, m + n)
  <2>2. /\ end \in Seq(Point)
        /\ Len(end) = IF m + 1 <= m + n THEN (m + n) - (m + 1) + 1 ELSE 0
        /\ \A k \in 1..((m + n) - (m + 1) + 1) : end[k] = W[(m + 1) + k - 1]
    BY <2>1, SubSeqProperties
  <2>3. (m + n) - (m + 1) + 1 = n /\ \A k \in 1..n : (m + 1) + k - 1 = m + k
    BY <1>10
  <2> HIDE DEF end
  <2>4. Len(end) = n /\ \A k \in 1..n : end[k] = Z[k]
    BY <1>11, <2>1, <2>2, <2>3
  <2>5. end = Z
    BY <1>8, <2>2, <2>4, SeqEqual DEF n
  <2> QED
    BY <1>11, <2>5 DEF end
<1>14. SubSeq(W, m + 2, Len(W)) = Tail(Z)
  <2>1. m + 1 \in 1..Len(W) /\ Len(W) \in (m + 1)..Len(W) /\ (m + 1) + 1 = m + 2
    BY <1>10, <1>11
  <2>2. Tail(SubSeq(W, m + 1, Len(W))) = SubSeq(W, (m + 1) + 1, Len(W))
    BY <1>11, <2>1, HeadTailOfSubSeq
  <2> QED
    BY <1>13, <2>1, <2>2
<1>15. <<q>> \o SubSeq(W, IF W[m + 1] = q THEN m + 2 ELSE m + 1, Len(W)) = WithoutRepeats(left)
  <2>1. CASE q = b
    <3>1. <<Z[1]>> \o Tail(Z) = Z
      BY <1>1, <1>8, PairFirst
    <3> QED
      BY <1>7, <1>8, <1>12, <1>14, <2>1, <3>1
  <2>2. CASE q # b
    BY <1>7, <1>12, <1>13, <2>2
  <2> QED
    BY <2>1, <2>2
<1>16. Resumes(W, m, q, line, i)
  BY <1>12, <1>15 DEF Resumes, a, b, left
<1> QED
  BY <1>4, <1>6, <1>16 DEF W, left

LEMMA ClipIs ==
    ASSUME NEW line \in Walks, NEW pose \in Poses, NEW clearance,
           ClipToPose(line, pose, clearance) # None
    PROVE  \E i \in Pieces(line) : \E q \in PointsOn(line[i], line[i + 1]) :
               /\ ClipToPose(line, pose, clearance) = WithoutRepeats(FromOn(line, i, q))
               /\ ~(Len(WithoutRepeats(FromOn(line, i, q))) < 2)
<1> DEFINE closest == {i \in Pieces(line) :
                          \A j \in Pieces(line) : Off(pose.at, line, i) <= Off(pose.at, line, j)}
           first == Min(closest)
           q == Nearest(pose.at, line[first], line[first + 1])
<1>1. /\ closest # {} /\ ClipToPose(line, pose, clearance) = WithoutRepeats(FromOn(line, first, q))
      /\ ~(Len(WithoutRepeats(FromOn(line, first, q))) < 2)
  BY DEF ClipToPose, FromOn
<1>2. closest \subseteq Pieces(line) /\ closest \subseteq Nat
  BY DEF Pieces
<1> HIDE DEF closest
<1>3. PICK i \in closest : \A j \in closest : i <= j
  BY <1>1, <1>2, LeastNumber
<1>4. first \in closest
  BY <1>3 DEF Min
<1>5. first \in Pieces(line)
  BY <1>2, <1>4
<1> HIDE DEF first
<1>6. line[first] \in Point /\ line[first + 1] \in Point
  BY <1>5, RestOfLine
<1>7. pose.at \in Point
  BY ReuseAssumption
<1>8. q \in PointsOn(line[first], line[first + 1])
  BY <1>6, <1>7, EndsOfPiece
<1> HIDE DEF q
<1> QED
  BY <1>1, <1>5, <1>8

(* The pieces from some piece on.                                          *)
LEMMA SuffixIs ==
    ASSUME NEW g \in GraphNames, NEW pieces \in Legs(g), NEW s \in 1..Len(pieces)
    PROVE  LET suffix == SubSeq(pieces, s, Len(pieces))
           IN  /\ suffix \in Legs(g) /\ suffix \in Seq(PieceType(g)) /\ suffix # <<>>
               /\ suffix[1] = pieces[s] /\ Len(suffix) = Len(pieces) - s + 1
               /\ \A k \in 1..(Len(pieces) - s + 1) : suffix[k] = pieces[s + k - 1]
<1> DEFINE n == Len(pieces)
           suffix == SubSeq(pieces, s, n)
<1>1. /\ pieces \in Seq(PieceType(g)) /\ n \in Nat
      /\ \A k \in 1..n : pieces[k] \in PieceType(g) /\ IsLeg(g, pieces[k])
      /\ \A k \in 1..(n - 1) : pieces[k].to = pieces[k + 1].from
  BY DEF Legs
<1>2. s \in Nat /\ s >= 1 /\ s <= n
  BY <1>1
<1> HIDE DEF n
<1>3. /\ suffix \in Seq(PieceType(g)) /\ Len(suffix) = n - s + 1
      /\ \A k \in 1..(n - s + 1) : suffix[k] = pieces[s + k - 1]
  <2>1. (\A k \in s..n : pieces[k] \in PieceType(g)) /\ s \in Int /\ n \in Int /\ s <= n
    BY <1>1, <1>2
  <2> QED
    BY <2>1, SubSeqProperties
<1> HIDE DEF suffix
<1>4. suffix # <<>> /\ suffix[1] = pieces[s]
  <2>1. 1 \in 1..(n - s + 1) /\ s + 1 - 1 = s /\ n - s + 1 >= 1
    BY <1>1, <1>2
  <2>2. suffix[1] = pieces[s + 1 - 1]
    BY <1>3, <2>1
  <2> QED
    BY <1>3, <2>1, <2>2
<1>5. ASSUME NEW k \in 1..(n - s + 1) PROVE IsLeg(g, suffix[k])
  <2>1. s + k - 1 \in 1..n
    BY <1>1, <1>2
  <2> QED
    BY <1>1, <1>3, <2>1
<1>6. ASSUME NEW k \in 1..(n - s + 1 - 1) PROVE suffix[k].to = suffix[k + 1].from
  <2>1. /\ s + k - 1 \in 1..(n - 1) /\ s + (k + 1) - 1 = (s + k - 1) + 1
        /\ k \in 1..(n - s + 1) /\ k + 1 \in 1..(n - s + 1)
    BY <1>1, <1>2
  <2>2. suffix[k] = pieces[s + k - 1] /\ suffix[k + 1] = pieces[(s + k - 1) + 1]
    BY <1>3, <2>1
  <2> QED
    BY <1>1, <2>1, <2>2
<1>7. suffix \in Legs(g)
  <2>1. \A k \in 1..Len(suffix) : IsLeg(g, suffix[k])
    BY <1>3, <1>5
  <2>2. \A k \in 1..(Len(suffix) - 1) : suffix[k].to = suffix[k + 1].from
    <3>1. Len(suffix) - 1 = n - s + 1 - 1
      BY <1>1, <1>2, <1>3
    <3> QED
      BY <1>6, <3>1
  <2> QED
    BY <1>3, <2>1, <2>2 DEF Legs
<1> QED
  BY <1>3, <1>4, <1>7 DEF suffix, n

LEMMA SuffixMatches ==
    ASSUME NEW g \in GraphNames, NEW pieces \in Legs(g), NEW line \in Seq(Point),
           Matches(pieces, line), NEW s \in 1..Len(pieces)
    PROVE  Tos(SubSeq(pieces, s, Len(pieces))) = SubSeq(line, s + 1, Len(line))
<1> DEFINE n == Len(pieces)
           suffix == SubSeq(pieces, s, n)
           end == SubSeq(line, s + 1, Len(line))
<1>1. /\ suffix \in Seq(PieceType(g)) /\ Len(suffix) = n - s + 1
      /\ \A k \in 1..(n - s + 1) : suffix[k] = pieces[s + k - 1]
  BY SuffixIs
<1>2. n \in Nat /\ s \in Nat /\ s >= 1 /\ s <= n /\ pieces \in Seq(PieceType(g))
  BY DEF Legs
<1>3. /\ Len(line) = n + 1 /\ \A k \in 1..n : pieces[k].to = line[k + 1]
      /\ \A k \in 1..(n + 1) : line[k] \in Point
  BY DEF Matches
<1> HIDE DEF n, suffix
<1>4. /\ Tos(suffix) \in Seq(Point) /\ Len(Tos(suffix)) = n - s + 1
      /\ \A k \in 1..(n - s + 1) : Tos(suffix)[k] = suffix[k].to
  BY <1>1, TosAre
<1>5. /\ end \in Seq(Point) /\ Len(end) = n - s + 1
      /\ \A k \in 1..(n - s + 1) : end[k] = line[s + k]
  <2>1. /\ \A k \in (s + 1)..(n + 1) : line[k] \in Point
        /\ s + 1 \in Int /\ n + 1 \in Int /\ s + 1 <= n + 1
    BY <1>2, <1>3
  <2> DEFINE tail == SubSeq(line, s + 1, n + 1)
  <2>2. /\ tail \in Seq(Point)
        /\ Len(tail) = IF s + 1 <= n + 1 THEN (n + 1) - (s + 1) + 1 ELSE 0
        /\ \A k \in 1..((n + 1) - (s + 1) + 1) : tail[k] = line[(s + 1) + k - 1]
    BY <2>1, SubSeqProperties
  <2>3. /\ (n + 1) - (s + 1) + 1 = n - s + 1
        /\ \A k \in 1..(n - s + 1) : (s + 1) + k - 1 = s + k
    BY <1>2
  <2>4. end = tail
    BY <1>3
  <2> HIDE DEF tail, end
  <2> QED
    BY <2>1, <2>2, <2>3, <2>4
<1> HIDE DEF end
<1>6. ASSUME NEW k \in 1..(n - s + 1) PROVE Tos(suffix)[k] = end[k]
  <2>1. s + k - 1 \in 1..n /\ (s + k - 1) + 1 = s + k
    BY <1>2
  <2> QED
    BY <1>1, <1>3, <1>4, <1>5, <2>1
<1> QED
  BY <1>4, <1>5, <1>6, SeqEqual DEF suffix, end, n

(* A piece at which the motion fits: the steps from there on are those     *)
(* read off the motion.                                                    *)
LEMMA FittingTells ==
    ASSUME NEW g \in GraphNames, NEW pieces \in Legs(g), NEW line \in Walks,
           NEW k \in 1..Len(pieces), Fits(pieces, k, Canonical(line)), Head(Canonical(line)) = line[1]
    PROVE  LET suffix == PiecesAfter(pieces, k, line[1])
           IN  /\ suffix \in Seq(PieceType(g))
               /\ WithoutRepeats(Steps(suffix)) = WithoutRepeats(Labels(g, Motion(line)))
<1> DEFINE q == line[1]
           n == Len(pieces)
           suffix == PiecesAfter(pieces, k, q)
           s == IF pieces[k].to = q THEN k + 1 ELSE k
           x == pieces[k]
<1>1. /\ Nearest(q, x.from, x.to) = q /\ suffix # <<>>
      /\ Canonical(<<q>> \o Tos(suffix)) = Canonical(line)
  BY DEF Fits, Tos
<1>2. suffix = SubSeq(pieces, s, n)
  BY DEF PiecesAfter
<1>3. /\ n \in Nat /\ pieces \in Seq(PieceType(g)) /\ \A j \in 1..n : IsLeg(g, pieces[j])
      /\ \A j \in 1..(n - 1) : pieces[j].to = pieces[j + 1].from
  BY DEF Legs
<1>4. q \in Point
  BY WalkFacts
<1>5. x.from \in Point /\ x.to \in Point
  BY <1>3 DEF IsLeg
<1> HIDE DEF suffix, n
<1>6. s \in 1..n
  <2>1. CASE s <= n
    BY <1>3, <2>1 DEF n
  <2>2. CASE ~(s <= n)
    <3>1. s \in Int /\ n \in Int /\ n < s
      BY <1>3, <2>2 DEF n
    <3> HIDE DEF s
    <3>2. SubSeq(pieces, s, n) = <<>>
      BY <3>1, SubSeqEmpty
    <3> QED
      BY <1>1, <1>2, <3>2
  <2> QED
    BY <2>1, <2>2
<1>7. /\ suffix \in Legs(g) /\ suffix \in Seq(PieceType(g)) /\ suffix[1] = pieces[s]
  BY <1>2, <1>6, SuffixIs DEF n
<1>8. Begins(suffix, q)
  <2>1. CASE x.to = q
    <3>1. s = k + 1 /\ k \in 1..(n - 1) /\ k + 1 \in 1..n
      BY <1>3, <1>6, <2>1 DEF n
    <3>2. pieces[k + 1].from = q /\ IsLeg(g, pieces[k + 1])
      BY <1>3, <2>1, <3>1
    <3>3. q \in PointsOn(q, pieces[k + 1].to) /\ q # pieces[k + 1].to
      BY <1>4, <3>2, EndsOfPiece DEF IsLeg
    <3> QED
      BY <1>7, <3>1, <3>2, <3>3 DEF Begins
  <2>2. CASE x.to # q
    <3>1. q \in PointsOn(x.from, x.to)
      BY <1>1, <1>4, <1>5, EndsOfPiece
    <3> QED
      BY <1>7, <2>2, <3>1 DEF Begins
  <2> QED
    BY <2>1, <2>2
<1>9. Told(g, q, suffix)
  BY <1>1, <1>4, <1>7, <1>8, LegsTell
<1> DEFINE other == <<q>> \o Tos(suffix)
<1>10. /\ other \in Walks
       /\ WithoutRepeats(Labels(g, Motion(other))) = WithoutRepeats(Steps(suffix))
  BY <1>9 DEF Told
<1>11. Motion(other) = Motion(line)
  <2>1. Canonical(other) = Canonical(line)
    BY <1>1
  <2> HIDE DEF other
  <2> QED
    BY <1>10, <2>1, CanonicalTells
<1> QED
  BY <1>7, <1>10, <1>11 DEF suffix

(* The path that is left of a route: its motion is understood, and the     *)
(* traversal is what can be read off the motion.                           *)
OpenTogether(g, route) ==
    /\ route \in Seq(StepsOf(g)) /\ route # <<>> /\ Together(g, route)
    /\ \A i \in DOMAIN route : IsOpen(g, route[i])

ReadOff(g, line) == WithoutRepeats(Labels(g, Motion(line)))

LEMMA SomePieceFits ==
    ASSUME NEW g \in GraphNames, NEW pieces \in Legs(g), NEW whole \in Walks,
           Matches(pieces, WithoutRepeats(whole)), NEW i \in Pieces(whole),
           NEW q \in PointsOn(whole[i], whole[i + 1]), NEW line \in Walks, line[1] = q,
           line = WithoutRepeats(FromOn(whole, i, q)), ~(Len(line) < 2)
    PROVE  \E m \in 1..Len(pieces) : Fits(pieces, m, Canonical(line))
<1> DEFINE W == WithoutRepeats(whole)
           n == Len(pieces)
<1>1. W \in Seq(Point) /\ W \in Walks
  BY RepeatsWalk, WalkFacts
<1>2. q \in Point /\ \E m : Resumes(W, m, q, whole, i)
  BY LeftIs
<1>3. PICK m : Resumes(W, m, q, whole, i)
  BY <1>2
<1> HIDE DEF W, n
<1>4. /\ m \in 1..(Len(W) - 1) /\ W[m] = whole[i] /\ W[m + 1] = whole[i + 1]
      /\ <<q>> \o SubSeq(W, IF W[m + 1] = q THEN m + 2 ELSE m + 1, Len(W)) = line
  BY <1>3 DEF Resumes
<1>5. /\ n \in Nat /\ Len(W) = n + 1
      /\ \A k \in 1..n : pieces[k].from = W[k] /\ pieces[k].to = W[k + 1]
  BY DEF Matches, W, n, Legs
<1>6. m \in 1..n /\ pieces[m].from = whole[i] /\ pieces[m].to = whole[i + 1]
  BY <1>4, <1>5
<1> DEFINE s == IF pieces[m].to = q THEN m + 1 ELSE m
           suffix == PiecesAfter(pieces, m, q)
           end == SubSeq(W, s + 1, Len(W))
<1>7. suffix = SubSeq(pieces, s, n)
  BY DEF PiecesAfter, n
<1>8. <<q>> \o end = line
  <2>1. s + 1 = IF W[m + 1] = q THEN m + 2 ELSE m + 1
    BY <1>4, <1>6
  <2> QED
    BY <1>4, <2>1
<1>9. s \in 1..n
  <2>1. CASE s <= n
    BY <1>5, <1>6, <2>1
  <2>2. CASE ~(s <= n)
    <3>1. s + 1 \in Int /\ Len(W) \in Int /\ Len(W) < s + 1
      BY <1>5, <1>6, <2>2
    <3> HIDE DEF s
    <3>2. end = <<>>
      BY <3>1, SubSeqEmpty
    <3>3. line = <<q>>
      <4>1. <<q>> \o <<>> = <<q>>
        BY <1>2
      <4> QED
        BY <1>8, <3>2, <4>1
    <3> QED
      BY <3>3
  <2> QED
    BY <2>1, <2>2
<1> HIDE DEF s, suffix
<1>10. suffix # <<>>
  BY <1>7, <1>9, SuffixIs DEF n
<1>11. Tos(suffix) = end
  BY <1>1, <1>7, <1>9, SuffixMatches DEF n, W
<1> HIDE DEF end
<1>12. Nearest(q, pieces[m].from, pieces[m].to) = q
  <2>1. whole[i] \in Point /\ whole[i + 1] \in Point
    BY RestOfLine
  <2> QED
    BY <1>6, <2>1, EndsOfPiece
<1>13. Head(Canonical(line)) = q
  <2>1. Canonical(line)[1] = q /\ Tidy(Canonical(line))
    BY CanonicalFacts
  <2>2. Canonical(line) # <<>> /\ Canonical(line) \in Seq(Point)
    BY <2>1, WalkFacts DEF Tidy
  <2> QED
    BY <2>1, <2>2
<1>14. <<q>> \o [j \in DOMAIN suffix |-> suffix[j].to] = line
  BY <1>8, <1>11 DEF Tos
<1> HIDE DEF W
<1>15. Fits(pieces, m, Canonical(line))
  BY <1>10, <1>12, <1>13, <1>14 DEF Fits, suffix
<1> QED
  BY <1>6, <1>15 DEF n

LEMMA PathTells ==
    ASSUME NEW g \in GraphNames, NEW route, OpenTogether(g, route), NEW pose \in Poses,
           NEW clearance, NEW line, line = ClipToPose(Polyline(g, route), pose, clearance),
           line # None
    PROVE  /\ line \in Walks
           /\ Traversal(g, [route |-> route, line |-> line]) = ReadOff(g, line)
           /\ ReadOff(g, line) \in Seq(StepsOf(g))
<1> DEFINE whole == Polyline(g, route)
           pieces == RoutePieces(g, route)
           n == Len(pieces)
<1>1. route \in Seq(StepsOf(g)) /\ route # <<>> /\ Together(g, route)
      /\ \A i \in DOMAIN route : IsOpen(g, route[i])
  BY DEF OpenTogether
<1>2. /\ whole \in Walks /\ pieces \in Seq(PieceType(g)) /\ Matches(pieces, WithoutRepeats(whole))
      /\ \A k \in 1..Len(pieces) : IsLeg(g, pieces[k])
  BY <1>1, RouteIs DEF RouteFacts
<1>3. WithoutRepeats(whole) \in Seq(Point)
  BY <1>2, RepeatsWalk, WalkFacts
<1>4. pieces \in Legs(g)
  BY <1>2, <1>3, MatchesAreLegs
<1> HIDE DEF whole, pieces
<1>5. PICK i \in Pieces(whole) : \E q \in PointsOn(whole[i], whole[i + 1]) :
          line = WithoutRepeats(FromOn(whole, i, q)) /\ ~(Len(line) < 2)
  BY <1>2, ClipIs DEF whole
<1>6. PICK q \in PointsOn(whole[i], whole[i + 1]) :
          line = WithoutRepeats(FromOn(whole, i, q)) /\ ~(Len(line) < 2)
  BY <1>5
<1>7. line \in Walks /\ line[1] = q
  BY <1>2, <1>6, LeftIs
<1> DEFINE realized == Canonical(line)
           fitting == {k \in DOMAIN pieces : Fits(pieces, k, realized)}
           path == [route |-> route, line |-> line]
<1>8. DOMAIN pieces = 1..n /\ n \in Nat
  BY <1>2
<1>9. PICK m \in 1..n : Fits(pieces, m, realized)
  BY <1>2, <1>4, <1>6, <1>7, SomePieceFits
<1>10. fitting # {} /\ fitting \subseteq Nat
  BY <1>8, <1>9
<1> DEFINE k == Min(fitting)
<1>11. k \in 1..n /\ Fits(pieces, k, realized)
  <2> HIDE DEF fitting
  <2>1. PICK j \in fitting : \A l \in fitting : j <= l
    BY <1>10, LeastNumber
  <2>2. k \in fitting
    BY <2>1 DEF Min
  <2> QED
    BY <1>8, <2>2 DEF fitting
<1>12. Head(realized) = line[1]
  <2>1. realized[1] = line[1] /\ realized # <<>> /\ realized \in Seq(Point)
    BY <1>7, CanonicalFacts, WalkFacts DEF Tidy
  <2> QED
    BY <2>1
<1> DEFINE suffix == PiecesAfter(pieces, k, line[1])
<1>13. Traversal(g, path) = WithoutRepeats(Steps(suffix))
  <2>1. path.route = route /\ path.line = line
    OBVIOUS
  <2> HIDE DEF path
  <2>2. ~(fitting = {} \/ \E j \in DOMAIN path.route : ~IsOpen(g, path.route[j]))
    BY <1>1, <1>10, <2>1
  <2> QED
    BY <1>12, <2>1, <2>2 DEF Traversal, Steps, pieces
<1> HIDE DEF k
<1>14. /\ suffix \in Seq(PieceType(g))
       /\ WithoutRepeats(Steps(suffix)) = ReadOff(g, line)
  BY <1>4, <1>7, <1>11, <1>12, FittingTells DEF ReadOff
<1> HIDE DEF suffix, path
<1>15. WithoutRepeats(Steps(suffix)) \in Seq(StepsOf(g))
  BY <1>14, TosAre, RepeatsType
<1> QED
  BY <1>7, <1>13, <1>14, <1>15 DEF path

-----------------------------------------------------------------------------
(* The routes of the trees.                                                *)
LEMMA OpenRouteIs ==
    ASSUME NEW g \in GraphNames, NEW start, NEW route \in OpenRoutes(g, start), route # <<>>
    PROVE  OpenTogether(g, route)
<1> DEFINE n == Len(route)
<1>1. /\ route \in SeqOf(StepsOf(g), Cardinality(NodeIds) - 1)
      /\ \A i \in DOMAIN route :
            IsOpen(g, route[i]) /\ BeginOf(g, route[i]) = Goal(g, start, SubSeq(route, 1, i - 1))
  BY DEF OpenRoutes
<1>2. Cardinality(NodeIds) \in Nat
  BY FS_CardinalityType, ReuseAssumption
<1>3. PICK m \in 0..(Cardinality(NodeIds) - 1) : route \in [1..m -> StepsOf(g)]
  BY <1>1 DEF SeqOf
<1>4. m \in Nat
  BY <1>2
<1>5. route \in Seq(StepsOf(g)) /\ n = m /\ DOMAIN route = 1..n
  BY <1>3, <1>4
<1> HIDE DEF n
<1>6. ASSUME NEW i \in 1..(n - 1) PROVE EndOf(g, route[i]) = BeginOf(g, route[i + 1])
  <2>1. i \in 1..n /\ i + 1 \in 1..n /\ (i + 1) - 1 = i /\ i \in Nat /\ i >= 1
    BY <1>4, <1>5
  <2> DEFINE before == SubSeq(route, 1, i)
  <2>2. before \in Seq(StepsOf(g)) /\ Len(before) = i /\ before[i] = route[i]
    <3>1. (\A k \in 1..i : route[k] \in StepsOf(g)) /\ 1 \in Int /\ i \in Int /\ 1 <= i
      BY <1>4, <1>5, <2>1
    <3>2. /\ SubSeq(route, 1, i) \in Seq(StepsOf(g))
          /\ Len(SubSeq(route, 1, i)) = IF 1 <= i THEN i - 1 + 1 ELSE 0
          /\ \A k \in 1..(i - 1 + 1) : SubSeq(route, 1, i)[k] = route[1 + k - 1]
      BY <3>1, SubSeqProperties
    <3>3. i - 1 + 1 = i /\ i \in 1..(i - 1 + 1) /\ 1 + i - 1 = i
      BY <2>1
    <3>4. SubSeq(route, 1, i)[i] = route[1 + i - 1]
      BY <3>2, <3>3
    <3> HIDE DEF before
    <3> QED
      BY <3>1, <3>2, <3>3, <3>4 DEF before
  <2> HIDE DEF before
  <2>3. Goal(g, start, before) = EndOf(g, route[i])
    <3>1. before # <<>> /\ Last(before) = route[i]
      BY <2>1, <2>2 DEF Last
    <3> QED
      BY <3>1 DEF Goal
  <2>4. BeginOf(g, route[i + 1]) = Goal(g, start, SubSeq(route, 1, (i + 1) - 1))
    BY <1>1, <1>5, <2>1
  <2>5. SubSeq(route, 1, (i + 1) - 1) = before
    BY <2>1 DEF before
  <2> QED
    BY <2>3, <2>4, <2>5
<1>7. Together(g, route)
  BY <1>6 DEF Together, n
<1> QED
  BY <1>1, <1>5, <1>7 DEF OpenTogether

LEMMA TreeRouteIs ==
    ASSUME NEW g \in GraphNames, NEW start \in NodeIds, NEW n \in NodeIds,
           Tree[g][start][n] # <<>>
    PROVE  OpenTogether(g, Tree[g][start][n])
<1> DEFINE route == Tree[g][start][n]
           there == {r \in OpenRoutes(g, start) : Goal(g, start, r) = n}
           cheapest == {r \in there : \A other \in there : Cost(g, r) <= Cost(g, other)}
<1>1. route = CheapestTo(g, start, n)
  BY DEF Tree
<1>2. route = IF cheapest = {} THEN <<>> ELSE CHOOSE r \in cheapest : TRUE
  BY <1>1 DEF CheapestTo
<1>3. \A r \in cheapest : r \in OpenRoutes(g, start)
  OBVIOUS
<1> HIDE DEF cheapest, route
<1>4. route # <<>>
  BY DEF route
<1>5. route \in OpenRoutes(g, start)
  BY <1>2, <1>3, <1>4
<1> QED
  BY <1>4, <1>5, OpenRouteIs DEF route

(* A path of a graph: what is left of an open route from a pose on.        *)
IsPath(g, path) ==
    \E route, line, clearance : \E pose \in Poses :
        /\ OpenTogether(g, route)
        /\ line = ClipToPose(Polyline(g, route), pose, clearance) /\ line # None
        /\ path = [route |-> route, line |-> line]

LEMMA PathFromIs ==
    ASSUME NEW f, f.graph \in GraphNames, f.pose \in Poses, NEW n \in NodeIds, NEW start \in NodeIds
    PROVE  PathFrom(f, n, start) = None \/ IsPath(f.graph, PathFrom(f, n, start))
<1> DEFINE g == f.graph
           route == Tree[g][start][n]
           clearances == {Graphs[g].edge[step[1]].clearance : step \in ToSet(route)}
           line == ClipToPose(Polyline(g, route), f.pose, Min(clearances))
<1>1. PathFrom(f, n, start) =
         IF route = <<>> \/ \E i \in DOMAIN route : ~IsOpen(g, route[i]) THEN None
         ELSE PathAlong(route, line)
  BY DEF PathFrom, RouteFromPose
<1> HIDE DEF clearances
<1>2. CASE route = <<>> \/ (\E i \in DOMAIN route : ~IsOpen(g, route[i])) \/ line = None
  BY <1>1, <1>2 DEF PathAlong
<1>3. CASE ~(route = <<>> \/ (\E i \in DOMAIN route : ~IsOpen(g, route[i])) \/ line = None)
  <2>1. OpenTogether(g, route)
    BY <1>3, TreeRouteIs
  <2>2. PathFrom(f, n, start) = [route |-> route, line |-> line] /\ line # None
    BY <1>1, <1>3 DEF PathAlong
  <2> DEFINE clearance == Min(clearances)
  <2>3. line = ClipToPose(Polyline(g, route), f.pose, clearance)
    OBVIOUS
  <2> HIDE DEF route, line, clearance
  <2> QED
    BY <2>1, <2>2, <2>3 DEF IsPath
<1> QED
  BY <1>2, <1>3

(* Every start is a node: for every number below that of the nodes there   *)
(* is a node with as many before it.                                       *)
Nearer(g, pose, m, n) ==
    LET dm == SquaredDistance(Graphs[g].node[m], pose.at)
        dn == SquaredDistance(Graphs[g].node[n], pose.at)
    IN  dm < dn \/ (dm = dn /\ m < n)

LEMMA NearerOrders ==
    ASSUME NEW g \in GraphNames, NEW pose \in Poses
    PROVE  \A l, m, n \in NodeIds :
               /\ ~Nearer(g, pose, n, n)
               /\ m # n => Nearer(g, pose, m, n) \/ Nearer(g, pose, n, m)
               /\ Nearer(g, pose, l, m) /\ Nearer(g, pose, m, n) => Nearer(g, pose, l, n)
<1> DEFINE d(n) == SquaredDistance(Graphs[g].node[n], pose.at)
<1>1. pose.at \in Point /\ \A n \in NodeIds : Graphs[g].node[n] \in Point /\ n \in Nat
  BY ReuseAssumption
<1>2. \A p, q \in Point : SquaredDistance(p, q) \in Int
  <2>1. TAKE p, q \in Point
  <2>2. p[1] \in Int /\ p[2] \in Int /\ q[1] \in Int /\ q[2] \in Int
    BY PointIs
  <2>3. p[1] - q[1] \in Int /\ p[2] - q[2] \in Int
    BY <2>2
  <2>4. Minus(p, q)[1] \in Int /\ Minus(p, q)[2] \in Int
    BY <2>3 DEF Minus
  <2>5. \A x, y \in Int : x * x + y * y \in Int
    OBVIOUS
  <2> QED
    BY <2>4, <2>5 DEF SquaredDistance, Dot
<1>3. \A n \in NodeIds : d(n) \in Int
  BY <1>1, <1>2
<1>4. \A m, n : Nearer(g, pose, m, n) <=> d(m) < d(n) \/ (d(m) = d(n) /\ m < n)
  BY DEF Nearer
<1> HIDE DEF d
<1> QED
  BY <1>1, <1>3, <1>4

LEMMA StartsAreNodes ==
    ASSUME NEW g \in GraphNames, NEW pose \in Poses, NEW i \in 1..Cardinality(NodeIds)
    PROVE  StartsFrom[g][pose][i] \in NodeIds
<1> DEFINE c == Cardinality(NodeIds)
           Before(n) == {m \in NodeIds : Nearer(g, pose, m, n)}
           rank == [n \in NodeIds |-> Cardinality(Before(n))]
           k == i - 1
<1>1. IsFiniteSet(NodeIds) /\ c \in Nat
  BY FS_CardinalityType, ReuseAssumption
<1>2. ASSUME NEW n \in NodeIds
      PROVE  IsFiniteSet(Before(n)) /\ rank[n] \in Nat /\ rank[n] < c
  <2>1. Before(n) \in SUBSET NodeIds /\ n \notin Before(n)
    BY NearerOrders
  <2> HIDE DEF Before
  <2>2. IsFiniteSet(Before(n)) /\ Cardinality(Before(n)) <= c /\ Cardinality(Before(n)) # c
    BY <1>1, <2>1, FS_Subset
  <2>3. Cardinality(Before(n)) \in Nat
    BY <2>2, FS_CardinalityType
  <2> QED
    BY <1>1, <2>2, <2>3
<1>3. ASSUME NEW m \in NodeIds, NEW n \in NodeIds, Nearer(g, pose, m, n)
      PROVE  rank[m] < rank[n]
  <2>1. Before(m) \in SUBSET Before(n) /\ m \in Before(n) /\ m \notin Before(m)
    BY <1>3, NearerOrders
  <2>2. IsFiniteSet(Before(n)) /\ rank[n] \in Nat /\ rank[m] \in Nat
    BY <1>2
  <2> HIDE DEF Before
  <2>3. Cardinality(Before(m)) <= Cardinality(Before(n)) /\ Cardinality(Before(m)) # Cardinality(Before(n))
    BY <2>1, <2>2, FS_Subset
  <2> QED
    BY <2>2, <2>3
<1>4. \E n \in NodeIds : rank[n] = k
  <2>1. SUFFICES ASSUME \A n \in NodeIds : rank[n] # k PROVE FALSE
    OBVIOUS
  <2> DEFINE T == (0..(c - 1)) \ {k}
  <2>2. k \in 0..(c - 1) /\ c - 1 \in Int /\ 0 \in Int /\ ~(0 > c - 1) /\ (c - 1) - 0 + 1 = c
    BY <1>1
  <2>3. IsFiniteSet(0..(c - 1)) /\ Cardinality(0..(c - 1)) = c
    BY <2>2, FS_Interval
  <2>4. IsFiniteSet(T) /\ Cardinality(T) = c - 1
    <3> DEFINE W == 0..(c - 1)
    <3>1. k \in W /\ IsFiniteSet(W) /\ Cardinality(W) = c
      BY <2>2, <2>3
    <3> HIDE DEF W
    <3>2. IsFiniteSet(W \ {k}) /\ Cardinality(W \ {k}) = Cardinality(W) - 1
      BY <3>1, FS_RemoveElement, Zenon
    <3> QED
      BY <3>1, <3>2 DEF W
  <2>5. rank \in [NodeIds -> T]
    <3>1. ASSUME NEW n \in NodeIds PROVE rank[n] \in T
      <4>1. rank[n] \in Nat /\ rank[n] < c /\ rank[n] # k
        BY <1>2, <2>1
      <4> HIDE DEF rank, k
      <4> QED
        BY <1>1, <4>1
    <3> HIDE DEF T
    <3> QED
      BY <3>1
  <2> HIDE DEF rank, T
  <2>6. Cardinality(T) < Cardinality(NodeIds)
    BY <1>1, <2>4
  <2>7. PICK m, n \in NodeIds : m # n /\ rank[m] = rank[n]
    BY <1>1, <2>4, <2>5, <2>6, FS_PigeonHole
  <2>8. rank[m] \in Nat /\ rank[n] \in Nat
    BY <1>2 DEF rank
  <2>9. rank[m] < rank[n] \/ rank[n] < rank[m]
    BY <1>3, <2>7, NearerOrders DEF rank
  <2> QED
    BY <2>7, <2>8, <2>9
<1>5. \E n \in NodeIds : Cardinality(Before(n)) = i - 1
  BY <1>4
<1>6. StartsFrom[g][pose][i] = CHOOSE n \in NodeIds : Cardinality(Before(n)) = i - 1
  BY DEF StartsFrom, Nearer
<1> HIDE DEF Before
<1> QED
  BY <1>5, <1>6

(* Whatever the starts, what is found is a path of the graph.              *)
LEMMA TriesFind ==
    ASSUME NEW f, f.graph \in GraphNames, f.pose \in Poses, NEW n \in NodeIds,
           NEW starts, NEW count \in Nat, DOMAIN starts = 1..count,
           \A i \in 1..count : starts[i] \in AnyStart /\ starts[i] \in NodeIds,
           NEW trees \in Seq(TreesOf(f.graph))
    PROVE  TryAll(f, n, trees, starts).path = None \/ IsPath(f.graph, TryAll(f, n, trees, starts).path)
<1> DEFINE A == Tries(f, n, trees, starts)
           Found(x) == x = None \/ IsPath(f.graph, x)
           Good == {k \in 0..count : A[1..k].trees \in Seq(TreesOf(f.graph)) /\ Found(A[1..k].path)}
<1>1. /\ A[1..0] = NotTried(trees)
      /\ \A k \in 1..count : A[1..k] = TryNext(f, n, starts, A, k)
  BY TrySteps
<1>2. TryAll(f, n, trees, starts) = A[1..count]
  BY TryAllIs
<1>3. \A start \in NodeIds : Found(PathFrom(f, n, start))
  BY PathFromIs
<1> HIDE DEF A, Found
<1>4. 0 \in Good
  <2>1. A[1..0].trees = trees /\ A[1..0].path = None
    BY <1>1 DEF NotTried
  <2> QED
    BY <2>1 DEF Found
<1>5. ASSUME NEW k \in 0..count, k # 0, k - 1 \in Good PROVE k \in Good
  <2> DEFINE a == A[1..(k - 1)]
  <2>1. k \in 1..count
    BY <1>5
  <2>2. a.trees \in Seq(TreesOf(f.graph)) /\ Found(a.path)
    BY <1>5
  <2>3. A[1..k] = TryStart(f, n, a, starts[k])
    BY <1>1, <2>1 DEF TryNext
  <2> HIDE DEF a
  <2>4. starts[k] \in AnyStart /\ starts[k] \in NodeIds
    BY <2>1
  <2>5. /\ A[1..k].trees \in Seq(TreesOf(f.graph))
        /\ A[1..k].path = IF a.path # None THEN a.path ELSE PathFrom(f, n, starts[k])
    BY <2>2, <2>3, <2>4, TryIs
  <2>6. Found(A[1..k].path)
    BY <1>3, <2>2, <2>4, <2>5
  <2> QED
    BY <2>5, <2>6
<1>6. count \in Good
  <2>1. \A k \in 0..count : k # 0 /\ k - 1 \in Good => k \in Good
    BY <1>5
  <2>2. 0 \in Nat /\ count \in 0..count
    OBVIOUS
  <2> HIDE DEF Good
  <2>3. \A k \in 0..count : k \in Good
    BY <1>4, <2>1, <2>2, NumbersGrow
  <2> QED
    BY <2>2, <2>3
<1>7. Found(A[1..count].path)
  BY <1>6
<1> QED
  BY <1>2, <1>7 DEF Found

LEMMA FreshIsPath ==
    ASSUME NEW f, f.stamp \in Nat, f.graph \in GraphNames, f.pose \in Poses, NEW n \in NodeIds,
           PathToNode(Forgotten, f, n).path # None
    PROVE  IsPath(f.graph, PathToNode(Forgotten, f, n).path)
<1> DEFINE w == Begun(Forgotten, f)
           starts == StartsFrom[f.graph][f.pose]
<1>1. Kept(Forgotten) /\ SortedFor(Forgotten, f)
  BY ReuseAssumption DEF Kept, SortedFor, Forgotten
<1>2. Kept(w) /\ w.graph = f.graph /\ w.starts = starts
  BY <1>1, BegunIs
<1>3. PathToNode(Forgotten, f, n).path = TryAll(f, n, w.trees, w.starts).path
  BY DEF PathToNode, Begun
<1> HIDE DEF w, starts
<1>4. w.trees \in Seq(TreesOf(f.graph))
  BY <1>2 DEF Kept
<1>5. /\ DOMAIN starts = 1..Cardinality(NodeIds) /\ Cardinality(NodeIds) \in Nat
      /\ \A i \in 1..Cardinality(NodeIds) : starts[i] \in AnyStart /\ starts[i] \in NodeIds
  BY StartsAre, StartsAreNodes DEF starts
<1>6. \/ TryAll(f, n, w.trees, starts).path = None
      \/ IsPath(f.graph, TryAll(f, n, w.trees, starts).path)
  BY <1>4, <1>5, TriesFind
<1> QED
  BY <1>2, <1>3, <1>6

(* Two paths of a graph have the same signature exactly when they have the *)
(* same motion.                                                            *)
LEMMA PathIs ==
    ASSUME NEW g \in GraphNames, NEW path, IsPath(g, path)
    PROVE  /\ path.line \in Walks /\ Traversal(g, path) = ReadOff(g, path.line)
           /\ Traversal(g, path) # None
<1>1. PICK route, line, clearance : \E pose \in Poses :
          /\ OpenTogether(g, route)
          /\ line = ClipToPose(Polyline(g, route), pose, clearance) /\ line # None
          /\ path = [route |-> route, line |-> line]
  BY DEF IsPath
<1>2. PICK pose \in Poses :
          /\ OpenTogether(g, route)
          /\ line = ClipToPose(Polyline(g, route), pose, clearance) /\ line # None
          /\ path = [route |-> route, line |-> line]
  BY <1>1
<1>3. /\ line \in Walks
      /\ Traversal(g, [route |-> route, line |-> line]) = ReadOff(g, line)
      /\ ReadOff(g, line) \in Seq(StepsOf(g))
  BY <1>2, PathTells
<1>4. None \notin Seq(StepsOf(g))
  BY ReuseAssumption
<1> QED
  BY <1>2, <1>3, <1>4

LEMMA SignaturesTell ==
    ASSUME NEW g \in GraphNames, NEW one, IsPath(g, one), NEW two, IsPath(g, two)
    PROVE  Signature(g, one) = Signature(g, two) <=> Motion(one.line) = Motion(two.line)
<1>1. /\ one.line \in Walks /\ Traversal(g, one) = ReadOff(g, one.line)
      /\ two.line \in Walks /\ Traversal(g, two) = ReadOff(g, two.line)
  BY PathIs
<1>2. Canonical(one.line) = Canonical(two.line) <=> Motion(one.line) = Motion(two.line)
  BY <1>1, CanonicalTells
<1>3. Motion(one.line) = Motion(two.line) => Traversal(g, one) = Traversal(g, two)
  BY <1>1 DEF ReadOff
<1>4. /\ Signature(g, one) = [traversal |-> Traversal(g, one), geometry |-> Canonical(one.line)]
      /\ Signature(g, two) = [traversal |-> Traversal(g, two), geometry |-> Canonical(two.line)]
  BY DEF Signature
<1>5. Signature(g, one) = Signature(g, two) <=>
         Traversal(g, one) = Traversal(g, two) /\ Canonical(one.line) = Canonical(two.line)
  BY <1>4
<1> QED
  BY <1>2, <1>3, <1>5

-----------------------------------------------------------------------------
(* The answer is to a question that can be asked.                          *)
AnswerAsked ==
    answer # None =>
        /\ answer.in.stamp \in Nat /\ answer.in.graph \in GraphNames /\ answer.in.pose \in Poses
        /\ answer.to \in NodeIds

SignatureInv == ReuseInv /\ AnswerAsked

LEMMA SignatureInvIsInductive ==
    ASSUME SignatureInv, [ReuseNext]_reuseVars
    PROVE  SignatureInv'
<1>1. ReuseInv'
  BY ReuseInvIsInductive DEF SignatureInv
<1>2. CASE answer' = answer
  BY <1>1, <1>2 DEF SignatureInv, AnswerAsked
<1>3. ASSUME NEW n \in NodeIds, FindPath(n) PROVE AnswerAsked'
  <2>1. /\ frame.stamp > 0
        /\ answer' = [to |-> n, in |-> frame, path |-> PathToNode(routes, frame, n).path]
    BY <1>3 DEF FindPath
  <2>2. answer'.to = n /\ answer'.in = frame
    BY <2>1
  <2>3. frame.stamp \in Nat /\ frame.graph \in GraphNames /\ frame.pose \in Poses
    BY <2>1 DEF SignatureInv, ReuseInv
  <2> QED
    BY <2>2, <2>3 DEF AnswerAsked
<1>4. answer' = answer \/ \E n \in NodeIds : FindPath(n)
  BY DEF ReuseNext, NextFrame, ForgetRoutes, reuseVars
<1> QED
  BY <1>1, <1>2, <1>3, <1>4 DEF SignatureInv

LEMMA SignatureInvIsEnough ==
    ASSUME SignatureInv
    PROVE  SignatureIsMotion
<1>1. SUFFICES ASSUME answer # None, answer.path # None
               PROVE  LET g == answer.in.graph
                          path == answer.path
                      IN  /\ Signature(g, path).traversal # None
                          /\ \A other \in Known[g] :
                                Signature(g, path) = other.signature <=> Motion(path.line) = other.motion
  BY DEF SignatureIsMotion
<1> DEFINE g == answer.in.graph
           path == answer.path
<1>2. g \in GraphNames /\ IsPath(g, path)
  <2>1. /\ answer.in.stamp \in Nat /\ g \in GraphNames /\ answer.in.pose \in Poses
        /\ answer.to \in NodeIds
    BY <1>1 DEF SignatureInv, AnswerAsked
  <2>2. path = PathToNode(Forgotten, answer.in, answer.to).path
    BY <1>1 DEF SignatureInv, ReuseInv, AnswerIsFresh
  <2> QED
    BY <1>1, <2>1, <2>2, FreshIsPath
<1> HIDE DEF g, path
<1>3. Signature(g, path).traversal # None
  BY <1>2, PathIs DEF Signature
<1>4. ASSUME NEW other \in Known[g]
      PROVE  Signature(g, path) = other.signature <=> Motion(path.line) = other.motion
  <2> DEFINE Asked(pose) == [graph |-> g, pose |-> pose, stamp |-> 1]
             paths == {PathToNode(Forgotten, Asked(pose), n).path : pose \in Poses, n \in NodeIds}
                         \ {None}
  <2>1. Known[g] = {[signature |-> Signature(g, p), motion |-> Motion(p.line)] : p \in paths}
    BY <1>2 DEF Known
  <2>2. PICK p \in paths : other = [signature |-> Signature(g, p), motion |-> Motion(p.line)]
    BY <2>1
  <2>3. PICK pose \in Poses, n \in NodeIds : p = PathToNode(Forgotten, Asked(pose), n).path
    OBVIOUS
  <2>4. p # None
    OBVIOUS
  <2>5. Asked(pose).graph = g /\ Asked(pose).pose = pose /\ Asked(pose).stamp = 1
    OBVIOUS
  <2> HIDE DEF Asked, paths
  <2>6. IsPath(g, p)
    <3>1. 1 \in Nat
      OBVIOUS
    <3> QED
      BY <1>2, <2>3, <2>4, <2>5, <3>1, FreshIsPath
  <2> QED
    BY <1>2, <2>2, <2>6, SignaturesTell
<1> QED
  BY <1>3, <1>4 DEF g, path

(* For any graphs whose corridors do not run along each other, any poses   *)
(* and any bound on the trees, the motion of every path is understood, and *)
(* two paths are taken for the same behavior exactly when the robot would  *)
(* pass the same points in the same order.                                 *)
THEOREM SignatureCorrect == ReuseSpec => []SignatureIsMotion
<1>1. ReuseInit => SignatureInv
  BY ReuseStart DEF SignatureInv, AnswerAsked, ReuseInit
<1>2. SignatureInv /\ [ReuseNext]_reuseVars => SignatureInv'
  BY SignatureInvIsInductive
<1>3. SignatureInv => SignatureIsMotion
  BY SignatureInvIsEnough
<1> QED
  BY <1>1, <1>2, <1>3, PTL DEF ReuseSpec
=============================================================================
