---------------------------- MODULE MuxContract ----------------------------
(***************************************************************************)
(* The multiplexer beside its model in Python: DeterministicMux of         *)
(* hsl_safety/mux_contract.py, which selects "the freshest                 *)
(* highest-priority input".  Both hear the same messages at the same time. *)
(***************************************************************************)
EXTENDS MCSafetyBoundary

VARIABLE inputs    \* _inputs: the age of the last command of each source

contractVars == <<boundaryVars, inputs>>

MCShipped == {Shipped}

Timeout(s) == Shipped[s].timeout

(* An age past every timeout stands for a source that was not heard.       *)
Expired(s) == Timeout(s) + 1

ContractInit == BoundaryInit /\ inputs = [s \in Sources |-> Expired(s)]

(* receive                                                                 *)
Received(s) == [inputs EXCEPT ![s] = 0]

Aged == [s \in Sources |-> Later(inputs[s], Expired(s))]

(* decide                                                                  *)
Fresh(ages) == {s \in Sources : ages[s] <= Timeout(s)}

Decided(ages) ==
    IF Fresh(ages) = {}
    THEN "idle"
    ELSE CHOOSE s \in Fresh(ages) :
            \A t \in Fresh(ages) : Shipped[t].priority <= Shipped[s].priority

ContractNext ==
    \/ \E age \in stops : StopArrives(age) /\ inputs' = Received(Stop)
    \/ \E s \in {Teleop, Supervisor} : CommandArrives(s) /\ inputs' = Received(s)
    \/ \E s \in Sources : MuxTimer(s) /\ UNCHANGED inputs
    \/ WatchdogTicks /\ UNCHANGED inputs
    \/ WatchdogCrashes /\ UNCHANGED inputs
    \/ TimePasses /\ inputs' = Aged

ContractSpec == ContractInit /\ [][ContractNext]_contractVars

(* The docstring of decide says that the freshest input of the highest     *)
(* priority is selected.  The multiplexer publishes what passes; after the *)
(* allowed input has timed out, that is whichever speaks first, even if an *)
(* input of higher priority spoke within its own timeout.  (An input at    *)
(* exactly its timeout may count as fresh or not.)                         *)
HighestFreshPriorityWins ==
    (\A s \in Sources : inputs[s] # Timeout(s)) =>
        \A s \in Sources : Passes(mux, s) => Decided(Received(s)) = s
=============================================================================
