------------------------------ MODULE Watchdog ------------------------------
(***************************************************************************)
(* The watchdog machine under any sequence of calls: heartbeats in any     *)
(* order, late, repeated, of another stage or configuration; ticks at any  *)
(* time with any judgement of the caller; rearm requests of any kind.      *)
(* heard is a history variable: every heartbeat since the machine was      *)
(* started or last rearmed, accepted or not.                               *)
(***************************************************************************)
EXTENDS WatchdogMachine, Sequences

CONSTANTS
    MaxSeq,     \* bound: decision numbers
    MaxTime,    \* bound: the steady clock
    MaxHeard    \* bound: heartbeats between two rearms

ASSUME WatchdogAssumption == {MaxSeq, MaxTime, MaxHeard} \subseteq Nat

VARIABLES machine, now, heard

watchdogVars == <<machine, now, heard>>

WatchdogInit == machine = DisarmedMachine /\ now = 0 /\ heard = <<>>

(* A heartbeat was stamped when it was received and may be handed over     *)
(* later.                                                                  *)
Observe(beat) ==
    /\ Len(heard) < MaxHeard
    /\ machine' = Observed(machine, beat)
    /\ heard' = Append(heard, beat)
    /\ UNCHANGED now

WatchdogTick(authorized, healthy) ==
    /\ machine' = Ticked(machine, now, authorized, healthy)
    /\ UNCHANGED <<now, heard>>

Rearm(stage, hash, authorized, nearZero, dwelled) ==
    /\ MayRearm(machine, stage, hash, authorized, nearZero, dwelled)
    /\ machine' = Rearmed(machine)
    /\ heard' = <<>>
    /\ UNCHANGED now

ClockAdvances ==
    /\ now < MaxTime
    /\ now' = now + 1
    /\ UNCHANGED <<machine, heard>>

WatchdogNext ==
    \/ \E seq \in 0..MaxSeq, stage \in Stages, hash \in Hashes,
          received \in 0..now, permit \in BOOLEAN :
          Observe([seq |-> seq, stage |-> stage, hash |-> hash,
                   received |-> received, permit |-> permit])
    \/ \E authorized, healthy \in BOOLEAN : WatchdogTick(authorized, healthy)
    \/ \E stage \in Stages \cup {NoStage}, hash \in Hashes,
          authorized, nearZero, dwelled \in BOOLEAN :
          Rearm(stage, hash, authorized, nearZero, dwelled)
    \/ ClockAdvances

WatchdogSpec == WatchdogInit /\ [][WatchdogNext]_watchdogVars

-----------------------------------------------------------------------------
(* Types; and a machine without a heartbeat neither releases nor has       *)
(* bound itself to a stage that nobody named.                              *)
WatchdogTypeOK ==
    /\ machine \in Machines
    /\ now \in 0..MaxTime
    /\ heard \in Seq(Beats)
    /\ machine.last = NoBeat => machine.state # "ACTIVE"
    /\ machine.last # NoBeat => machine.stage = machine.last.stage

(* One bad heartbeat is enough: unless the fault is latched, all that was  *)
(* heard since the start or the last rearm is of the right configuration,  *)
(* of one stage, and in order of decision and of receipt.                  *)
InOrder(beats) ==
    /\ \A i \in DOMAIN beats :
          beats[i].hash = ConfigHash /\ beats[i].stage = machine.stage
    /\ \A i, j \in DOMAIN beats :
          i < j => beats[i].seq < beats[j].seq /\ beats[i].received <= beats[j].received

FaultsAreNotMissed == machine.state # "FAULT_LATCHED" => InOrder(heard)

(* The stop is released on the strength of a heartbeat that came after     *)
(* the last rearm, that permits motion, and after which no other came that *)
(* does not.                                                               *)
ReleaseIsEarned ==
    [][StopAsserted(machine) /\ ~StopAsserted(machine') =>
          /\ heard # <<>>
          /\ machine.last = heard[Len(heard)]
          /\ machine.last.permit
          /\ now - machine.last.received <= Lease]_watchdogVars

(* Only a rearm ends a latched fault: no heartbeat and no tick does.       *)
OnlyRearmUnlatches ==
    [][machine.state = "FAULT_LATCHED" /\ machine'.state # "FAULT_LATCHED" =>
          machine'.state = "READY" /\ heard' = <<>> /\ machine'.last = NoBeat]_watchdogVars
=============================================================================
