---------------------------- MODULE MotionToken ----------------------------
(***************************************************************************)
(* What the option authority promises to whoever consumes candidates.      *)
(* Authority to move is one token.  It names an option and a generation,   *)
(* is held by nobody or by one option, is granted only when nobody holds   *)
(* it, and only for a generation higher than any that was granted or given *)
(* up before: authority that was withdrawn never comes back, not even to   *)
(* the option that had it.                                                 *)
(***************************************************************************)
EXTENDS Naturals

CONSTANTS Tokens,   \* [inst, gen] records
          NoToken,
          MaxFence  \* the highest generation

VARIABLES holder, fence

Init == holder = NoToken /\ fence = 0

Grant(t) ==
    /\ holder = NoToken
    /\ t.gen > fence
    /\ holder' = t
    /\ fence' = t.gen

Withdraw == holder' = NoToken /\ fence' \in fence..MaxFence

Next == Withdraw \/ \E t \in Tokens : Grant(t)

Spec == Init /\ [][Next]_<<holder, fence>>
=============================================================================
