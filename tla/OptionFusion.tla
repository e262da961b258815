----------------------------- MODULE OptionFusion -----------------------------
(***************************************************************************)
(* When two abstract states may be taken for one: ExactOptionModel and     *)
(* assess_exact_option_fusion of hsl_core/learning/option_value.py.        *)
(*                                                                         *)
(* Probabilities are weights out of Whole; a tick of duration halves what  *)
(* comes after it, and Unit is worth one.                                  *)
(***************************************************************************)
EXTENDS Integers, Sequences, SequencesExt, FiniteSets, Totals

CONSTANTS
    Models,         \* what is declared of states, and whether exactly
    ModelOptions,
    NextClasses,
    Whole,          \* weight of a kernel
    Unit,           \* a power of two
    Tolerance,
    Worths          \* what the reference takes a next class to be worth

AtomType == [weight : Nat, duration : Nat, reward : Int, next : NextClasses]
ASSUME FusionAssumption ==
    /\ IsFiniteSet(NextClasses)
    /\ \A m \in Models :
          /\ m.exact \in BOOLEAN /\ DOMAIN m.kernels \subseteq ModelOptions
          /\ \A o \in DOMAIN m.kernels : m.kernels[o] \in Seq(AtomType)
    /\ {Whole, Unit} \subseteq Nat \ {0} /\ Tolerance \in Nat
    /\ {-(Tolerance + 1), 0, Tolerance + 1} \subseteq Worths /\ Worths \subseteq Int

VARIABLES
    declared,   \* the models of two states, one after the other
    reason      \* what FusionAssessment says of them

fusionVars == <<declared, reason>>

-----------------------------------------------------------------------------
(* ExactOptionModel.__post_init__                                          *)
ValidModel(m) ==
    /\ DOMAIN m.kernels # {}
    /\ \A o \in DOMAIN m.kernels :
          /\ m.kernels[o] # <<>>
          /\ Total([i \in DOMAIN m.kernels[o] |-> m.kernels[o][i].weight]) = Whole

Halved(ticks) == Unit \div 2^ticks

Reward(kernel) == Total([i \in DOMAIN kernel |-> kernel[i].weight * kernel[i].reward])

(* As Mass, discounted by the mean duration.                               *)
MassByMean(kernel, next) ==
    LET mean == Total([i \in DOMAIN kernel |-> kernel[i].weight * kernel[i].duration]) \div Whole
    IN  Total([i \in DOMAIN kernel |->
                  IF kernel[i].next = next THEN kernel[i].weight * Halved(mean) ELSE 0])

(* left_mass, right_mass                                                   *)
Mass(kernel, next) ==
    Total([i \in DOMAIN kernel |->
              IF kernel[i].next = next THEN kernel[i].weight * Halved(kernel[i].duration) ELSE 0])

Difference(a, b) == IF a < b THEN b - a ELSE a - b

(* Of two kernels: reward_difference and kernel_difference in tolerance.   *)
Alike(l, r) ==
    /\ Difference(Reward(l), Reward(r)) <= Tolerance
    /\ \A c \in NextClasses : Difference(Mass(l, c), Mass(r, c)) <= Tolerance

Reason(l, r) ==
    CASE ~l.exact \/ ~r.exact -> "empirical"
      [] l.exact /\ r.exact /\ DOMAIN l.kernels # DOMAIN r.kernels -> "options differ"
      [] OTHER -> IF \A o \in DOMAIN l.kernels : Alike(l.kernels[o], r.kernels[o])
                  THEN "match" ELSE "differs"

(* A model that is not one raises where it is made.                        *)
Declare ==
    /\ Len(declared) < 2
    /\ \E m \in Models : ValidModel(m) /\ declared' = Append(declared, m)
    /\ UNCHANGED reason

Assess ==
    /\ Len(declared) = 2 /\ reason = "none"
    /\ reason' = Reason(declared[1], declared[2])
    /\ UNCHANGED declared

FusionInit == declared = <<>> /\ reason = "none"

FusionNext == Declare \/ Assess

FusionSpec == FusionInit /\ [][FusionNext]_fusionVars

-----------------------------------------------------------------------------
(* What an option is worth if the next classes are worth what is said.     *)
Worth(kernel, worth) ==
    Total([i \in DOMAIN kernel |->
              kernel[i].weight * (kernel[i].reward
                                    + Halved(kernel[i].duration) * worth[kernel[i].next])])

Size(worth) ==
    LET classes == SetToSeq(NextClasses)
    IN  Total([i \in DOMAIN classes |-> Difference(worth[classes[i]], 0)])

(* Two states are taken for one exactly if they are declared, not          *)
(* estimated, offer the same options, and nothing that could be learned of *)
(* their successors ever makes an option worth more in one than in the     *)
(* other beyond the tolerance: equal mean durations are not enough.        *)
FusionKeepsWorth ==
    reason # "none" =>
        (reason = "match" <=>
            LET l == declared[1]  r == declared[2]
            IN  /\ l.exact /\ r.exact
                /\ DOMAIN l.kernels = DOMAIN r.kernels
                /\ \A o \in DOMAIN l.kernels, worth \in [NextClasses -> Worths] :
                      Difference(Worth(l.kernels[o], worth), Worth(r.kernels[o], worth))
                          <= Tolerance * (1 + Size(worth)))
=============================================================================
