-------------------------- MODULE StageEpochHistory -------------------------
(***************************************************************************)
(* The stage manager with a history variable: the consumers that have not  *)
(* said, since the last change of the localization epoch, that what they   *)
(* derived from the old one is gone.  An acknowledgement counts whichever  *)
(* barrier it was given to.                                                *)
(***************************************************************************)
EXTENDS MCStageManager

VARIABLE owed   \* history: EpochNames still to be heard of

HistoryInit == StageInit /\ owed = {}

HistoryNext ==
    /\ StageNext
    /\ owed' = IF epoch' # epoch THEN EpochNames ELSE owed \ (epochAcks' \cup resetAcks')

HistorySpec == HistoryInit /\ [][HistoryNext]_<<vars, owed>>

(* The implementation plan says that authority waits, after a change of    *)
(* the localization epoch, for the map and the world as well.  reset_stage *)
(* clears the epoch barrier, and the reset barrier does not ask them.      *)
EpochProductsInvalidated == MotionAuthorized => owed = {}
=============================================================================
