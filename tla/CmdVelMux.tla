----------------------------- MODULE CmdVelMux -----------------------------
(***************************************************************************)
(* The velocity multiplexer, cmd_vel_mux.cpp, as a record: the             *)
(* configuration of its inputs, the input whose commands pass (allowed_),  *)
(* and for every input the time left until its timer fires.                *)
(*                                                                         *)
(* Callbacks run one at a time on the node's executor, so each is one      *)
(* operator.  The timers are periodic, but a message or a change of the    *)
(* timeout starts them anew, and firing has an effect only on the input    *)
(* that is allowed: time left counts down to 0 and stays there.  Topics    *)
(* and descriptions are left out, and the set of inputs is fixed: an       *)
(* update of parameters is merged into the present ones and never removes  *)
(* an input.                                                               *)
(***************************************************************************)
EXTENDS Integers

CONSTANTS
    Sources,    \* names of the inputs
    Configs,    \* configurations that parametersAreValid accepts
    Vacant      \* VACANT

(* parametersAreValid: times and priorities are given, and no priority     *)
(* twice.                                                                  *)
ParametersAreValid(c) ==
    /\ c \in [Sources -> [priority : Nat, timeout : Nat]]
    /\ \A s, t \in Sources : c[s].priority = c[t].priority => s = t

ASSUME MuxAssumption ==
    /\ \A c \in Configs : ParametersAreValid(c)
    /\ Vacant \notin Sources

Muxes ==
    [config : Configs, allowed : Sources \cup {Vacant}, left : [Sources -> Nat]]

(* A multiplexer that has just started, and heard nothing yet.             *)
StartedMux(config) ==
    [config |-> config, allowed |-> Vacant,
     left |-> [s \in Sources |-> config[s].timeout]]

Priority(m, s) == m.config[s].priority

(* cmdVelCallback: the message passes, and its input is allowed from now   *)
(* on.                                                                     *)
PassesAlways(m, s) == TRUE

Passes(m, s) ==
    \/ m.allowed = Vacant
    \/ m.allowed = s
    \/ Priority(m, s) > Priority(m, m.allowed)

(* A callback that starts the timer only when the message passes for the   *)
(* first time.                                                             *)
HeardOnce(m, s) ==
    IF Passes(m, s) /\ m.allowed # s
    THEN [m EXCEPT !.left[s] = m.config[s].timeout, !.allowed = s]
    ELSE m

Heard(m, s) ==
    [m EXCEPT !.left[s] = m.config[s].timeout,
              !.allowed = IF Passes(m, s) THEN s ELSE m.allowed]

(* timerCallback                                                           *)
TimerFired(m, s) ==
    [m EXCEPT !.allowed = IF m.allowed = s THEN Vacant ELSE m.allowed]

(* configureFromParameters, when all the inputs were there before.         *)
Reconfigured(m, c) ==
    [m EXCEPT
        !.config = c,
        !.left = [s \in Sources |->
                    IF c[s].timeout # m.config[s].timeout
                    THEN c[s].timeout
                    ELSE m.left[s]]]

(* One unit of time.                                                       *)
Elapsed(m) ==
    [m EXCEPT !.left = [s \in Sources |-> IF m.left[s] > 0 THEN m.left[s] - 1 ELSE 0]]
=============================================================================
