------------------------------ MODULE Selection ------------------------------
(***************************************************************************)
(* A caller of the TacticalSelector over many cycles: it hands back what   *)
(* it holds as the current option, commits to what is selected, and may    *)
(* lose or fail to start it (sim/kinematic/autonomous.py, __call__).       *)
(***************************************************************************)
EXTENDS TacticalSelector, FiniteSets

CONSTANTS
    Keys,        \* stable_key values
    Evidence,    \* sets of proposals a cycle may come with
    Worth,       \* Worth[k]: the least utility evidence gives to key k
    Standing,    \* Standing[k]: priority and urgency of key k as one rank
    LastCycle    \* bound: the last clock value

(* The situation is steady: what changes from cycle to cycle is which      *)
(* proposals there are, and their utility within the width of the          *)
(* hysteresis.  Evidence is finite, so that it has a best proposal.        *)
ASSUME SelectionAssumption ==
    /\ LastCycle \in Nat
    /\ Worth \in [Keys -> Int]
    /\ Standing \in [Keys -> Nat]
    /\ Hold.key \notin Keys
    /\ \A E \in Evidence : SnapshotValid(E)
    /\ \A E \in Evidence : \A p \in E :
          /\ ProposalValid(p)
          /\ p.key \in Keys
          /\ p.utility \in Int
          /\ Priority(p) \in 0..5
          /\ Worth[p.key] <= p.utility
          /\ p.utility <= Worth[p.key] + HysteresisDelta
          /\ Standing[p.key] = 256 * Priority(p) + 255 - p.urgency
    /\ \A E \in Evidence : \A S \in SUBSET E :
          S # {} => \E p \in S : \A q \in S \ {p} : Precedes(p, q)

VARIABLES
    current,     \* what the caller holds: key, instance, start
    clock,       \* _last_now_ns
    abandoned    \* history: keys left for another while they were still valid

selectionVars == <<current, clock, abandoned>>

Nothing == [key |-> Hold.key, inst |-> Hold.inst, started |-> 0]

SelectionInit ==
    /\ current = Nothing
    /\ clock = 0
    /\ abandoned = {}

Holding == current # Nothing

(* The caller keeps the record it has, with its start, when the same       *)
(* instance is selected again.                                             *)
Commitment(p, t) ==
    IF p.key = current.key /\ p.inst = current.inst THEN current
    ELSE [key |-> p.key, inst |-> p.inst, started |-> t]

Cycle(E, role, c, ready, t, starts) ==
    LET p == Select(E, role, c, ready, current, t)
        stillValid == Incumbents({q \in E : Applicable(role, q)}, current) # {}
    IN  /\ t >= clock
        /\ clock' = t
        /\ current' = IF p = Hold \/ ~starts THEN Nothing ELSE Commitment(p, t)
        /\ abandoned' =
              IF current' = Nothing \/ ~Holding \/ ~stillValid THEN {}
              ELSE IF p.key # current.key THEN abandoned \cup {current.key}
              ELSE abandoned

Gates ==
    [safetyStop : BOOLEAN, leaseValid : BOOLEAN, motion : BOOLEAN,
     phase : {"FREEZE", "ACTIVE"}]

SelectionNext ==
    \E E \in Evidence, role \in Roles, c \in Gates, ready, starts \in BOOLEAN,
       t \in 0..LastCycle :
          Cycle(E, role, c, ready, t, starts)

SelectionSpec == SelectionInit /\ [][SelectionNext]_selectionVars

-----------------------------------------------------------------------------
(* As long as the situation is steady and an option stays possible, the    *)
(* robot does not go back to an option it left for a better one: noise in  *)
(* the utilities that is not wider than hysteresis_delta_u cannot make     *)
(* select swing between two options.                                       *)
NeverSwingsBack == Holding => current.key \notin abandoned
=============================================================================
