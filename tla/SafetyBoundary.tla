--------------------------- MODULE SafetyBoundary ---------------------------
(***************************************************************************)
(* The process boundary around the motors, as it runs today: the safety    *)
(* watchdog (StopWatchdogNode) and the safety supervisor                   *)
(* (SafetySupervisorNode) of hsl_safety, two processes that never permit   *)
(* motion, and the multiplexer that alone writes the physical command.     *)
(*                                                                         *)
(* Time passes in units.  A running watchdog ticks every StopPeriod, and a *)
(* stop reaches the multiplexer at most MaxDelay after the tick was due;   *)
(* nothing is assumed about heartbeats and the other commands, which may   *)
(* be late or lost, in any order.  Times are kept relative to the present: *)
(* the present is always 0, and as time passes the last heartbeat moves    *)
(* into the past.                                                          *)
(*                                                                         *)
(* Any process may crash and start again.  What the supervisor hears of    *)
(* the watchdog changes nothing, because the watchdog always reports a     *)
(* stop and the supervisor's evaluator refuses every snapshot: it is left  *)
(* out, like the status message.                                           *)
(***************************************************************************)
EXTENDS WatchdogMachine, CmdVelMux

CONSTANTS
    StopPeriod,     \* 1 / stop_rate_hz
    MaxDelay,       \* bound: from the tick to the multiplexer
    MaxDecision,    \* bound: decisions of one run of the supervisor
    LongSilence     \* bound: how far silence is counted

Stop == "watchdog_stop"
Teleop == "emergency_teleop"
Supervisor == "autonomous_supervisor"

(* The stop has the highest priority, and its timeout leaves room for the  *)
(* period and the delay.                                                   *)
ASSUME BoundaryAssumption ==
    /\ Sources = {Stop, Teleop, Supervisor}
    /\ \A c \in Configs :
          /\ c[Stop].timeout \in StopPeriod + MaxDelay + 1 .. LongSilence
          /\ \A s \in Sources \ {Stop} : c[Stop].priority > c[s].priority
    /\ StopPeriod \in Nat \ {0}
    /\ MaxDelay \in Nat
    /\ MaxDecision \in Nat
    /\ LongSilence \in Nat

VARIABLES
    watchdog,    \* running, its timer, whether it ever had a heartbeat, _machine
    supervisor,  \* _decision_seq, and the identity it was launched with
    mux,
    stops,       \* stops on their way: time since their tick was due
    beats,       \* heartbeats on their way
    up,          \* for how long watchdog and multiplexer have run together
    silence      \* history: time since the multiplexer heard a stop

boundaryVars ==
    <<watchdog, supervisor, mux, stops, beats, up, silence>>

(* From here on counting further makes no difference.                      *)
Settled == StopPeriod + MaxDelay + 1
OldBeat == -(Lease + StopPeriod + 1)

StartedWatchdog ==
    [running |-> TRUE, wait |-> StopPeriod, everHeard |-> FALSE,
     machine |-> DisarmedMachine]

BoundaryInit ==
    /\ watchdog = StartedWatchdog
    /\ \E stage \in Stages, hash \in Hashes :
          supervisor = [seq |-> 0, stage |-> stage, hash |-> hash]
    /\ \E c \in Configs : mux = StartedMux(c)
    /\ stops = {}
    /\ beats = {}
    /\ up = 0
    /\ silence = LongSilence

-----------------------------------------------------------------------------
(* StopWatchdogNode._on_tick: a stop, whatever the machine says.  The      *)
(* stage is never authorised.                                              *)
WatchdogTicks ==
    /\ watchdog.running
    /\ watchdog.wait = 0
    /\ watchdog' =
          [watchdog EXCEPT
              !.wait = StopPeriod,
              !.machine = Ticked(@, 0, FALSE, watchdog.everHeard)]
    /\ stops' = stops \cup {0}
    /\ UNCHANGED <<supervisor, mux, beats, up, silence>>

(* StopWatchdogNode._on_heartbeat                                          *)
BeatArrives(beat) ==
    /\ watchdog.running
    /\ watchdog' =
          [watchdog EXCEPT
              !.everHeard = TRUE,
              !.machine = Observed(@, [seq |-> beat.seq, stage |-> beat.stage,
                                       hash |-> beat.hash, received |-> 0,
                                       permit |-> FALSE])]
    /\ beats' = beats \ {beat}
    /\ UNCHANGED <<supervisor, mux, stops, up, silence>>

BeatIsLost(beat) ==
    /\ beats' = beats \ {beat}
    /\ UNCHANGED <<watchdog, supervisor, mux, stops, up, silence>>

(* SafetySupervisorNode._on_tick: decision, command, status and heartbeat. *)
(* If one of the publications fails there is no heartbeat.  The command is *)
(* a zero that may reach the multiplexer at any time, see CommandArrives.  *)
SupervisorTicks(published) ==
    /\ supervisor.seq < MaxDecision
    /\ supervisor' = [supervisor EXCEPT !.seq = @ + 1]
    /\ beats' = IF published
                THEN beats \cup {[seq |-> supervisor.seq, stage |-> supervisor.stage,
                                  hash |-> supervisor.hash]}
                ELSE beats
    /\ UNCHANGED <<watchdog, mux, stops, up, silence>>

-----------------------------------------------------------------------------
(* A message reaches the multiplexer, which publishes it if it passes.     *)
StopArrives(age) ==
    /\ mux' = Heard(mux, Stop)
    /\ stops' = stops \ {age}
    /\ silence' = 0
    /\ UNCHANGED <<watchdog, supervisor, beats, up>>

(* An operator may send anything at any time; on the supervisor's topic    *)
(* there are its zeros, however late, and the priority probe of the tests. *)
CommandArrives(source) ==
    /\ mux' = Heard(mux, source)
    /\ UNCHANGED <<watchdog, supervisor, stops, beats, up, silence>>

(* How late a timer is handled is not known.                               *)
MuxTimer(source) ==
    /\ mux.left[source] = 0
    /\ mux' = TimerFired(mux, source)
    /\ UNCHANGED <<watchdog, supervisor, stops, beats, up, silence>>

MuxParameters(c) ==
    /\ mux' = Reconfigured(mux, c)
    /\ UNCHANGED <<watchdog, supervisor, stops, beats, up, silence>>

-----------------------------------------------------------------------------
(* Crashes and restarts.  A supervisor that has crashed is one that does   *)
(* not tick; a new multiplexer misses what was on its way.                 *)
WatchdogCrashes ==
    /\ watchdog.running
    /\ watchdog' = [watchdog EXCEPT !.running = FALSE]
    /\ up' = 0
    /\ UNCHANGED <<supervisor, mux, stops, beats, silence>>

WatchdogStarts ==
    /\ ~watchdog.running
    /\ watchdog' = StartedWatchdog
    /\ UNCHANGED <<supervisor, mux, stops, beats, up, silence>>

SupervisorRestarts ==
    /\ \E stage \in Stages, hash \in Hashes :
          supervisor' = [seq |-> 0, stage |-> stage, hash |-> hash]
    /\ UNCHANGED <<watchdog, mux, stops, beats, up, silence>>

MuxRestarts(c) ==
    /\ mux' = StartedMux(c)
    /\ stops' = {}
    /\ up' = 0
    /\ silence' = LongSilence
    /\ UNCHANGED <<watchdog, supervisor, beats>>

Later(n, last) == IF n < last THEN n + 1 ELSE last

(* The machine, with its heartbeat one unit further in the past.           *)
Older(w) ==
    IF w.last # NoBeat /\ w.last.received > OldBeat
    THEN [w EXCEPT !.last = [w.last EXCEPT !.received = @ - 1]]
    ELSE w

(* Nothing that is due is skipped: a tick of the watchdog, or the arrival  *)
(* of a stop.                                                              *)
TimePasses ==
    /\ watchdog.running => watchdog.wait > 0
    /\ \A age \in stops : age < MaxDelay
    /\ watchdog' =
          IF ~watchdog.running THEN watchdog
          ELSE [watchdog EXCEPT !.wait = @ - 1, !.machine = Older(@)]
    /\ stops' = {age + 1 : age \in stops}
    /\ mux' = Elapsed(mux)
    /\ up' = IF watchdog.running THEN Later(up, Settled) ELSE 0
    /\ silence' = Later(silence, LongSilence)
    /\ UNCHANGED <<supervisor, beats>>

BoundaryNext ==
    \/ WatchdogTicks
    \/ \E beat \in beats : BeatArrives(beat) \/ BeatIsLost(beat)
    \/ \E published \in BOOLEAN : SupervisorTicks(published)
    \/ \E age \in stops : StopArrives(age)
    \/ \E source \in {Teleop, Supervisor} : CommandArrives(source)
    \/ \E source \in Sources : MuxTimer(source)
    \/ \E c \in Configs : MuxParameters(c) \/ MuxRestarts(c)
    \/ WatchdogCrashes
    \/ WatchdogStarts
    \/ SupervisorRestarts
    \/ TimePasses

BoundarySpec == BoundaryInit /\ [][BoundaryNext]_boundaryVars

-----------------------------------------------------------------------------
(* Types, with the ages that the timing allows; and the machine of today's *)
(* node never releases.                                                    *)
BoundaryTypeOK ==
    /\ watchdog \in [running : BOOLEAN, wait : 0..StopPeriod, everHeard : BOOLEAN,
                     machine : Machines]
    /\ supervisor \in [seq : 0..MaxDecision, stage : Stages, hash : Hashes]
    /\ mux \in Muxes
    /\ stops \subseteq 0..MaxDelay
    /\ beats \subseteq [seq : 0..MaxDecision, stage : Stages, hash : Hashes]
    /\ up \in 0..Settled
    /\ silence \in 0..LongSilence
    /\ watchdog.machine.state # "ACTIVE"

(* The stop wins: once the watchdog and the multiplexer have run together  *)
(* for a period and a delay, no command of another input is published,     *)
(* whoever sends it and however the parameters change.                     *)
StopDominates ==
    watchdog.running /\ up = Settled =>
        \A source \in Sources \ {Stop} : ~Passes(mux, source)

(* Another input gets through only when the multiplexer has heard no stop  *)
(* for as long as the shortest timeout that is ever configured, or never.  *)
MotionNeedsSilence ==
    \A source \in Sources \ {Stop} :
        Passes(mux, source) => \E c \in Configs : silence >= c[Stop].timeout

(* A supervisor that falls silent is found out: a machine that has not     *)
(* latched has a heartbeat younger than the lease and one period.          *)
SilenceIsNoticed ==
    watchdog.running
    /\ watchdog.machine.state # "FAULT_LATCHED"
    /\ watchdog.machine.last # NoBeat
        => watchdog.machine.last.received >= -(Lease + StopPeriod)

(* A fault outlives everything but the watchdog process: restarts of the   *)
(* supervisor and its fresh heartbeats do not make the watchdog healthy.   *)
FaultOutlivesRestart ==
    [][watchdog.running /\ watchdog.machine.state = "FAULT_LATCHED" =>
          \/ ~watchdog'.running
          \/ watchdog'.machine.state = "FAULT_LATCHED"]_boundaryVars
=============================================================================
