-------------------------- MODULE MCSafetyBoundary --------------------------
(* Two configurations of the multiplexer: the one it is shipped with, its  *)
(* 0.10, 0.20 and 0.15 s in thirtieths of a second, rounded up, and one    *)
(* with other timeouts and the two lower priorities exchanged.             *)
EXTENDS SafetyBoundary

MCSources == {Stop, Teleop, Supervisor}

Shipped ==
    [s \in MCSources |->
        CASE s = Stop       -> [priority |-> 200, timeout |-> 3]
          [] s = Teleop     -> [priority |-> 100, timeout |-> 6]
          [] s = Supervisor -> [priority |-> 50, timeout |-> 5]]

Exchanged ==
    [s \in MCSources |->
        CASE s = Stop       -> [priority |-> 200, timeout |-> 4]
          [] s = Teleop     -> [priority |-> 50, timeout |-> 2]
          [] s = Supervisor -> [priority |-> 100, timeout |-> 1]]

MCConfigs == {Shipped, Exchanged}
=============================================================================
