-------------------------- MODULE WatchdogMachine --------------------------
(***************************************************************************)
(* WatchdogMachine of hsl_safety/watchdog.py as a record and the methods   *)
(* that change it.  Only differences of steady-clock values matter, so     *)
(* they are integers and a user of this module may count from any origin.  *)
(* fault_reason and the echoed decision number are left out: nothing in    *)
(* the code reads them.                                                    *)
(***************************************************************************)
EXTENDS Integers

CONSTANTS
    Stages,        \* stage ids
    Hashes,        \* configuration hashes
    ConfigHash,    \* the watchdog's own
    Lease,         \* heartbeat_lease_ns
    NoStage,       \* _stage_id = ""
    NoBeat         \* _last is None

ASSUME MachineAssumption ==
    /\ ConfigHash \in Hashes
    /\ Lease \in Nat \ {0}
    /\ NoStage \notin Stages

(* HeartbeatObservation                                                    *)
Beats ==
    [seq : Nat, stage : Stages, hash : Hashes, received : Int, permit : BOOLEAN]

ASSUME NoBeatAssumption == NoBeat \notin Beats

States == {"DISARMED", "READY", "ACTIVE", "FAULT_LATCHED"}

Machines ==
    [state : States, last : Beats \cup {NoBeat}, stage : Stages \cup {NoStage}]

DisarmedMachine == [state |-> "DISARMED", last |-> NoBeat, stage |-> NoStage]

(* _latch                                                                  *)
Latched(w) == [w EXCEPT !.state = "FAULT_LATCHED"]

(* An ordering check that forgives a repeated decision number.             *)
AcceptableRepeat(w, beat) ==
    /\ beat.hash = ConfigHash
    /\ w.last # NoBeat =>
          beat.seq >= w.last.seq /\ beat.received >= w.last.received
    /\ w.stage # NoStage => beat.stage = w.stage

(* Known configuration, progress on both counters, and the same stage.     *)
Acceptable(w, beat) ==
    /\ beat.hash = ConfigHash
    /\ w.last # NoBeat =>
          beat.seq > w.last.seq /\ beat.received >= w.last.received
    /\ w.stage # NoStage => beat.stage = w.stage

(* A machine that takes a fault for a passing one.                         *)
ObservedForgiving(w, beat) ==
    IF Acceptable(w, beat)
    THEN [state |-> IF w.state = "ACTIVE" THEN "ACTIVE" ELSE "READY",
          last  |-> beat,
          stage |-> beat.stage]
    ELSE Latched(w)

(* observe_heartbeat.  A latched machine keeps on taking heartbeats.       *)
Observed(w, beat) ==
    IF Acceptable(w, beat)
    THEN [state |-> IF w.state = "DISARMED" THEN "READY" ELSE w.state,
          last  |-> beat,
          stage |-> beat.stage]
    ELSE Latched(w)

(* A lease one unit too long.                                              *)
StaleLate(w, now) == now < w.last.received \/ now - w.last.received > Lease + 1

Stale(w, now) == now < w.last.received \/ now - w.last.received > Lease

Unheard(w) == w.state = "FAULT_LATCHED" \/ w.last = NoBeat

(* A tick that releases the stop as soon as the heartbeat is good.         *)
TickedReleasing(w, now, authorized, healthy) ==
    IF Unheard(w) THEN w
    ELSE IF Stale(w, now) \/ ~healthy THEN Latched(w)
    ELSE [w EXCEPT !.state = "ACTIVE"]

(* tick, the state it leaves                                               *)
Ticked(w, now, authorized, healthy) ==
    IF Unheard(w) THEN w
    ELSE IF Stale(w, now) \/ ~healthy THEN Latched(w)
    ELSE [w EXCEPT !.state = IF authorized /\ w.last.permit THEN "ACTIVE" ELSE "READY"]

(* tick, the stop it asks for: w is the state it leaves.                   *)
StopAsserted(w) == w.state # "ACTIVE"

(* rearm, when it answers True.  A watchdog that was never bound to a      *)
(* stage is rearmed with the empty stage id.                               *)
MayRearm(w, stage, hash, authorized, nearZero, dwelled) ==
    /\ w.state = "FAULT_LATCHED"
    /\ authorized
    /\ hash = ConfigHash
    /\ stage = w.stage
    /\ nearZero
    /\ dwelled

(* A rearm after which the heartbeats of before the fault still count.     *)
RearmedKeeping(w) == [w EXCEPT !.state = "READY"]

(* A rearm that takes its own acceptance for the permission to move.       *)
RearmedReleasing(w) == [w EXCEPT !.state = "ACTIVE", !.last = NoBeat]

Rearmed(w) == [w EXCEPT !.state = "READY", !.last = NoBeat]
=============================================================================
