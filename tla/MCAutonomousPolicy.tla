------------------------- MODULE MCAutonomousPolicy -------------------------
(***************************************************************************)
(* Small instances of AutonomousPolicy: two nodes, and frames that differ  *)
(* from a good one in at most one respect.                                 *)
(***************************************************************************)
EXTENDS AutonomousPolicy

CONSTANTS c1, c2, l1, l2, s1, s2, v1, v2

MCNodes == {1, 2}
MCActions == 1..LastStamp
MCEpochs == Clocks \X Localizations
MCHold == [key |-> "hold-safe", inst |-> "hold", kind |-> "HOLD_SAFE"]

MCInstances == Stages \X OptionKeys \X MCActions

Good ==
    [match |-> TRUE, pose |-> TRUE, coherent |-> TRUE, clock |-> c1, loc |-> l1,
     stage |-> s1, version |-> v1, phase |-> "ACTIVE", stageEnds |-> LastStamp,
     motion |-> TRUE, leaseValid |-> TRUE, ready |-> TRUE, forward |-> TRUE,
     seen |-> TRUE]

MCShapes ==
    {Good,
     [Good EXCEPT !.match = FALSE], [Good EXCEPT !.pose = FALSE],
     [Good EXCEPT !.coherent = FALSE], [Good EXCEPT !.clock = c2],
     [Good EXCEPT !.loc = l2], [Good EXCEPT !.stage = s2],
     [Good EXCEPT !.version = v2],
     [Good EXCEPT !.stage = s2, !.phase = "INIT", !.stageEnds = 0],
     [Good EXCEPT !.phase = "TERMINAL"], [Good EXCEPT !.stageEnds = 2],
     [Good EXCEPT !.motion = FALSE], [Good EXCEPT !.leaseValid = FALSE],
     [Good EXCEPT !.ready = FALSE], [Good EXCEPT !.forward = FALSE],
     [Good EXCEPT !.seen = FALSE]}

(* For the gap: only frames of a stage under way.                          *)
SteadyShapes == {Good, [Good EXCEPT !.seen = FALSE], [Good EXCEPT !.pose = FALSE]}

(* What the policy may submit, and the snapshots it may hand over.         *)
MCGoals ==
    [inst : MCInstances, kind : {"MOVE", "OBSERVE_SAFE"}, stage : Stages,
     epoch : MCEpochs, version : Versions, deadline : {2, LastStamp},
     wellFormed : {TRUE}]

MCContexts ==
    {Context(f, stop, path, Nobody) :
        f \in UNION {FramesAt(t) : t \in 1..LastStamp},
        stop \in BOOLEAN, path \in BOOLEAN}
=============================================================================
