--------------------------- MODULE OpponentTrack ---------------------------
(***************************************************************************)
(* The life cycle of OpponentFilter, hsl_core/perception/ekf_opponent.py:  *)
(* what it says of the rival, and for how long.  The estimate itself is    *)
(* real arithmetic; of an association only its outcome is kept.            *)
(***************************************************************************)
EXTENDS Integers

CONSTANTS
    ConfirmationCount,   \* confirmation_count
    CoastingTimeout,     \* coasting_timeout_s
    BeliefTimeout,       \* belief_timeout_s
    LostTimeout,         \* lost_timeout_s
    MaxPrediction        \* max_prediction_dt_s

(* OpponentFilterConfig.__post_init__                                      *)
FilterConfigValid ==
    /\ ConfirmationCount \in Nat \ {0}
    /\ CoastingTimeout \in Nat \ {0}
    /\ BeliefTimeout \in Nat
    /\ LostTimeout \in Nat
    /\ MaxPrediction \in Nat \ {0}
    /\ CoastingTimeout < BeliefTimeout
    /\ BeliefTimeout < LostTimeout

ASSUME FilterAssumption == FilterConfigValid

TrackStates == {"SEARCHING", "TRACKED", "COASTING", "OCCLUDED_BELIEF", "LOST"}

Filters ==
    [initialized : BOOLEAN, status : TrackStates,
     confirmation : 0..ConfirmationCount,   \* counted no further
     measured : Nat,      \* _last_measurement_s
     predicted : Nat]     \* _prediction_stamp_s

(* __init__ and reset                                                      *)
NoTrack ==
    [initialized |-> FALSE, status |-> "SEARCHING", confirmation |-> 0,
     measured |-> 0, predicted |-> 0]

Initialized(t) ==
    [initialized |-> TRUE, confirmation |-> 1, measured |-> t, predicted |-> t,
     status |-> IF ConfirmationCount = 1 THEN "TRACKED" ELSE "SEARCHING"]

(* _advance_lifecycle without a measurement, by the age of the last one.   *)
Aged(age) ==
    IF age < CoastingTimeout THEN "COASTING"
    ELSE IF age < BeliefTimeout THEN "OCCLUDED_BELIEF"
    ELSE IF age < LostTimeout THEN "LOST"
    ELSE "SEARCHING"

(* A filter that goes on tracking what it has seen a short while ago.      *)
PredictedTracking(f, t) ==
    IF t - f.measured < CoastingTimeout THEN [f EXCEPT !.predicted = t]
    ELSE [f EXCEPT !.predicted = t, !.status = Aged(t - f.measured)]

(* predict, where it does not raise.                                       *)
CanPredict(f, t) == t >= f.predicted /\ t - f.predicted <= MaxPrediction

Predicted(f, t) ==
    [f EXCEPT !.predicted = t, !.status = Aged(t - f.measured)]

(* update with a measurement that is associated: a prediction first, unless *)
(* the filter is there already.                                            *)
Confirmed(f) ==
    IF f.confirmation < ConfirmationCount THEN f.confirmation + 1
    ELSE ConfirmationCount

Associated(f, t) ==
    LET p == IF t > f.predicted THEN Predicted(f, t) ELSE f
    IN  [p EXCEPT !.confirmation = Confirmed(f), !.measured = t,
                  !.status = IF Confirmed(f) >= ConfirmationCount THEN "TRACKED" ELSE @]

(* update with no, a gated or an ambiguous measurement.                    *)
Updated(f, t, associated) ==
    IF associated THEN Associated(f, t) ELSE Predicted(f, t)

(* OpponentTrack.valid_until_s                                             *)
ValidUntil(f) == f.measured + LostTimeout
=============================================================================
