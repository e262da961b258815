--------------------------- MODULE MCStageManager ---------------------------
(* A small match for TLC.                                                  *)
EXTENDS StageManager

Event(i, s, p, k, ev, lo, up) ==
    [id |-> i, stage |-> s, epoch |-> p, kind |-> k, evidence |-> ev,
     lower |-> lo, upper |-> up, zone |-> IF k = "ARRIVAL" THEN "east" ELSE NoZone]

(* Two estimated captures; an estimated arrival that touches one of them   *)
(* and, in a stage started at once, the deadline; the capture and an       *)
(* arrival seen officially, one after the other; a simulated abort that    *)
(* overlaps most of these.                                                 *)
MCEvents ==
    UNION {{Event(1, s, p, "CAPTURE", "ESTIMATE", 2, 3),
            Event(2, s, p, "ARRIVAL", "ESTIMATE", 3, 4),
            Event(3, s, p, "CAPTURE", "OFFICIAL", 2, 2),
            Event(4, s, p, "ARRIVAL", "OFFICIAL", 3, 3),
            Event(5, s, p, "OFFICIAL_ABORT", "SIM_TRUTH", 2, 3),
            Event(6, s, p, "CAPTURE", "ESTIMATE", 2, 2)}
           : s \in 1..MaxStages, p \in 1..MaxEpochs}
=============================================================================
