------------------------- MODULE MCOptionAuthority -------------------------
(***************************************************************************)
(* A small instance of OptionAuthority: three goals (two that move, one    *)
(* HOLD_SAFE), four clock values, and the snapshots of the match that      *)
(* differ from a good one in at most one respect.                          *)
(***************************************************************************)
EXTENDS OptionAuthority, TLC

CONSTANTS o1, o2, o3, s1, s2, e1, e2, v1, v2

Goal(i, kind, deadline) ==
    [inst |-> i, kind |-> kind, stage |-> s1, epoch |-> e1, version |-> v1,
     deadline |-> deadline, wellFormed |-> TRUE]

MCGoals ==
    {Goal(o1, "MOVE", 2), Goal(o2, "MOVE", 3), Goal(o2, "OBSERVE_SAFE", 3),
     Goal(o3, "HOLD_SAFE", 1)}

MCHorizon == 4

Good(t) ==
    [now |-> t, stage |-> s1, phase |-> "ACTIVE", stageEnds |-> 3,
     epoch |-> e1, version |-> v1, motion |-> TRUE, leaseValid |-> TRUE,
     safetyStop |-> FALSE, zones |-> {o1, o2, o3}, pathValid |-> TRUE,
     feasibilityLost |-> FALSE, effect |-> Nobody]

OffByOne(c) ==
    {[c EXCEPT !.stage = s2], [c EXCEPT !.phase = "FREEZE"],
     [c EXCEPT !.phase = "TERMINAL"], [c EXCEPT !.stageEnds = 2],
     [c EXCEPT !.epoch = e2], [c EXCEPT !.version = v2],
     [c EXCEPT !.motion = FALSE], [c EXCEPT !.leaseValid = FALSE],
     [c EXCEPT !.safetyStop = TRUE], [c EXCEPT !.zones = {o3}],
     [c EXCEPT !.pathValid = FALSE], [c EXCEPT !.feasibilityLost = TRUE],
     [c EXCEPT !.effect = o1], [c EXCEPT !.effect = o2]}

MCContexts == UNION {OffByOne(Good(t)) \cup {Good(t)} : t \in 0..MCHorizon}

(* Action ids are interchangeable: nothing orders or compares them.        *)
ActionSymmetry == Permutations(Actions)
=============================================================================
