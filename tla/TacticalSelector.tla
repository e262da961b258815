-------------------------- MODULE TacticalSelector --------------------------
(***************************************************************************)
(* TacticalSelector of hsl_core/tactics/fsm.py: which of the proposals of  *)
(* one snapshot is selected.  Guards and priorities come first, utility    *)
(* second, and the option that is under way is kept unless there is reason *)
(* enough to leave it.                                                     *)
(*                                                                         *)
(* A proposal is a record with the fields                                  *)
(*   key, inst    its stable_key and the id of its goal                    *)
(*   kind, facts  the option's kind and the guards with evidence           *)
(*   timing       of an interception: NONE, DOMINATES or TOO_LATE          *)
(*   ready        feasible, the registry's check_initiation accepts it,    *)
(*                and its features are those of the role and in range      *)
(*   urgency      urgency_rank, 0 where there is none                      *)
(*   utility      the value of score()                                     *)
(*   order        its place by kind, target and key, the last tie-break    *)
(***************************************************************************)
EXTENDS Integers

CONSTANTS
    HysteresisDelta,   \* hysteresis_delta_u
    MinimumDwell,      \* minimum_dwell_ns
    Hold               \* the HOLD_SAFE proposal: selected when nothing else is

(* TacticalSelector.__init__                                               *)
SelectorValid ==
    /\ HysteresisDelta \in Nat
    /\ MinimumDwell \in Nat

ASSUME SelectorAssumption == SelectorValid

Roles == {"GUARDIAN", "EXPLORER"}

Threat == "CREDIBLE_IMMINENT_BASE_THREAT"
Dominates == "INTERCEPT_DOMINATES_BASE_DEFENSE"

(* _required_guards without the facts of the proposal.                     *)
OwnGuards ==
    [GUARDIAN |->
        [APPROACH_CAPTURE     |-> {"ROBUST_CAPTURE_OPPORTUNITY"},
         FALLBACK_DEFEND_BASE |-> {Threat},
         INTERCEPT_PORTAL     |-> {"SUPPORTED_INTERCEPT"},
         RECOVER_VIEW         |-> {"RECENT_OCCLUSION"},
         PRESSURE_ROUTE       |-> {"USEFUL_RIVAL"},
         SEARCH_PORTAL        |-> {"GRAPH_SEARCH_VIEWPOINT"}],
     EXPLORER |->
        [KEEP_ESCAPE_ROUTE    |-> {"IMMEDIATE_TRAP_RISK", "VERIFIED_ESCAPE_ROUTE"},
         BREAK_LOS            |-> {"IMMEDIATE_TRAP_RISK", "BREAK_LOS_FEASIBLE"},
         TAKE_ALTERNATE_PORTAL |-> {"CONTESTED_ROUTE", "ALTERNATE_ROUTE_AVAILABLE"},
         ADVANCE_BASE         |-> {"ACCEPTED_GOAL", "GOAL_THREAT_ACCEPTABLE"},
         ADVANCE_KNOWN_ROUTE  |-> {"VERSIONED_OPEN_ROUTE"},
         OBSERVE_SAFE         |-> {"INFORMATIVE_SAFE_OBSERVATION"}]]

RequiredGuards(role, p) ==
    OwnGuards[role][p.kind] \cup
        (IF p.kind = "INTERCEPT_PORTAL" /\ Threat \in p.facts
         THEN {Threat, Dominates} ELSE {})

GuardFactsValid(role, p) ==
    IF p.kind = "INTERCEPT_PORTAL"
    THEN /\ p.facts \subseteq {"SUPPORTED_INTERCEPT", Threat, Dominates}
         /\ Dominates \in p.facts => Threat \in p.facts
         /\ Dominates \in p.facts <=> p.timing # "NONE"
    ELSE /\ p.facts \subseteq OwnGuards[role][p.kind]
         /\ p.timing = "NONE"

(* OptionProposal.__post_init__                                            *)
ProposalValid(p) ==
    /\ p.urgency \in 0..255
    /\ p.urgency # 0 => p.kind \in {"KEEP_ESCAPE_ROUTE", "BREAK_LOS"}
    /\ p.timing # "NONE" => p.kind = "INTERCEPT_PORTAL"

(* TacticalSnapshot.__post_init__                                          *)
SnapshotValid(proposals) ==
    \A p, q \in proposals : p.key = q.key \/ p.inst = q.inst => p = q

(* _evaluate that takes an interception for granted.                       *)
ApplicableUntimed(role, p) ==
    /\ p.ready
    /\ p.kind \in DOMAIN OwnGuards[role]
    /\ GuardFactsValid(role, p)
    /\ RequiredGuards(role, p) \subseteq p.facts

(* _evaluate                                                               *)
Applicable(role, p) ==
    /\ p.ready
    /\ p.kind \in DOMAIN OwnGuards[role]
    /\ GuardFactsValid(role, p)
    /\ Dominates \in p.facts => p.timing = "DOMINATES"
    /\ RequiredGuards(role, p) \subseteq p.facts

Priority(p) ==
    CASE p.kind \in {"APPROACH_CAPTURE", "KEEP_ESCAPE_ROUTE", "BREAK_LOS"} -> 0
      [] p.kind \in {"FALLBACK_DEFEND_BASE", "TAKE_ALTERNATE_PORTAL"} -> 1
      [] p.kind = "INTERCEPT_PORTAL" -> IF {Threat, Dominates} \subseteq p.facts THEN 1 ELSE 2
      [] p.kind \in {"ADVANCE_BASE", "ADVANCE_KNOWN_ROUTE"} -> 2
      [] p.kind \in {"RECOVER_VIEW", "OBSERVE_SAFE"} -> 3
      [] p.kind = "PRESSURE_ROUTE" -> 4
      [] OTHER -> 5

(* _hard_stop_reason is not empty.                                         *)
HardStop(c, ready) ==
    \/ ~ready
    \/ c.safetyStop
    \/ ~c.leaseValid
    \/ c.phase # "ACTIVE"
    \/ ~c.motion

(* The key of min() in select: the fields that decide, then the tie-break. *)
Precedes(p, q) ==
    \/ Priority(p) < Priority(q)
    \/ /\ Priority(p) = Priority(q)
       /\ \/ p.urgency > q.urgency
          \/ /\ p.urgency = q.urgency
             /\ \/ p.utility > q.utility
                \/ p.utility = q.utility /\ p.order < q.order

Best(eligible) ==
    CHOOSE p \in eligible : \A q \in eligible \ {p} : Precedes(p, q)

(* A selector whose hysteresis is forgotten.                               *)
PreemptsAtOnce(best, mine, started, now) ==
    \/ Priority(best) < Priority(mine)
    \/ /\ Priority(best) = Priority(mine)
       /\ \/ best.urgency > mine.urgency
          \/ /\ best.urgency = mine.urgency
             /\ best.utility > mine.utility
             /\ now - started >= MinimumDwell

(* The reasons to leave a current option that is still valid.              *)
Preempts(best, mine, started, now) ==
    \/ Priority(best) < Priority(mine)
    \/ /\ Priority(best) = Priority(mine)
       /\ \/ best.urgency > mine.urgency
          \/ /\ best.urgency = mine.urgency
             /\ best.utility > mine.utility + HysteresisDelta
             /\ now - started >= MinimumDwell

(* current: the key, instance and start of the option under way, if any.   *)
Incumbents(eligible, current) ==
    {p \in eligible : p.key = current.key /\ p.inst = current.inst}

Chosen(eligible, current, now) ==
    IF \E m \in Incumbents(eligible, current) :
          ~Preempts(Best(eligible), m, current.started, now)
    THEN CHOOSE m \in Incumbents(eligible, current) : TRUE
    ELSE Best(eligible)

Select(proposals, role, c, ready, current, now) ==
    LET eligible == {p \in proposals : Applicable(role, p)}
    IN  IF HardStop(c, ready) \/ eligible = {} THEN Hold
        ELSE Chosen(eligible, current, now)
=============================================================================
