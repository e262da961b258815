---------------------------- MODULE OptionLearning ----------------------------
(***************************************************************************)
(* From recorded options to their values: the data set of transitions of   *)
(* hsl_core/learning/transitions.py and the backups of OptionValueTable in *)
(* hsl_core/learning/option_value.py.  A caller puts records together and  *)
(* backs up the training records in any order, any of them many times.     *)
(*                                                                         *)
(* Time is in ticks, and a tick halves what comes after it: values are     *)
(* dyadic and exact as integers over Scale.  One feature stands for all,   *)
(* and an instance for an instance of a stage.                             *)
(***************************************************************************)
EXTENDS Integers, Sequences, SequencesExt, FiniteSets, FiniteSetsExt, Totals

CONSTANTS
    Kinds,          \* registered options
    SchemaName,     \* the schema of the data set
    Boundaries,     \* its bin edges
    Records,        \* what collectors write: see RecordType
    MaxRecords,
    Splits,         \* [{"map", "opponent", "seed"} -> [banks -> splits]]
    Profile,        \* of the accepted baseline
    Nowhere,        \* no next state
    Etas,           \* step sizes eta as halvings: 0 for 1, 1 for a half
    MaxBackups,
    Scale           \* 2 to the power of the halvings that all backups may take

BankKinds == {"map", "opponent", "seed"}
SplitNames == {"training", "validation", "held_out"}
Censorings == {"complete", "censored", "truncated"}

StateType == [schema : STRING, role : STRING, value : Nat, bin : Nat]
SegmentType == [start : Nat, end : Nat, rate : Int]
ComponentType == [id : STRING, segments : Seq(SegmentType), impulse : Int]
RecordType ==
    [episode : Nat, instance : Nat, role : STRING, input : StateType, kind : Kinds,
     duration : Int, outcome : BOOLEAN, terminal : BOOLEAN, next : StateType \cup {Nowhere},
     options : SUBSET Kinds, rewards : Seq(ComponentType), banks : [BankKinds -> STRING],
     profile : STRING, censoring : Censorings]

ASSUME LearningAssumption ==
    /\ IsFiniteSet(Kinds) /\ Records \subseteq RecordType
    /\ \A k \in BankKinds : \A b \in DOMAIN Splits[k] : Splits[k][b] \in SplitNames
    /\ {MaxRecords, MaxBackups, Scale} \subseteq Nat \ {0}
    /\ Etas \subseteq Nat
    /\ \A r \in Records, e \in Etas :
          r.duration > 0 => Scale % 2^(MaxBackups * (r.duration + e)) = 0

VARIABLES
    records,    \* of the data set
    accepted,   \* the constructor of the data set has not raised
    values,     \* _values: what is known of states and options
    backups     \* how many there were

learningVars == <<records, accepted, values, backups>>

-----------------------------------------------------------------------------
(* What a record must be: OptionTransition.__post_init__.                  *)

(* bisect_right                                                            *)
Bin(value) == Cardinality({b \in Boundaries : b <= value})

(* FeatureState.validate                                                   *)
ValidState(s) == s.schema = SchemaName /\ s.bin = Bin(s.value)

(* state_id: what is alike to the bin is the same state, in either role.   *)
StateId(s) == [schema |-> s.schema, role |-> s.role, bin |-> s.bin]

ValidComponent(c) ==
    /\ \A i \in DOMAIN c.segments : c.segments[i].start < c.segments[i].end
    /\ \A i, j \in DOMAIN c.segments : i < j => c.segments[i].end <= c.segments[j].start

(* As ValidRewards, without the end of the option.                         *)
ValidComponents(r) ==
    /\ \A i \in DOMAIN r.rewards : ValidComponent(r.rewards[i])
    /\ \A i, j \in DOMAIN r.rewards : r.rewards[i].id = r.rewards[j].id => i = j

ValidRewards(r) ==
    /\ ValidComponents(r)
    /\ \A i \in DOMAIN r.rewards : \A k \in DOMAIN r.rewards[i].segments :
          r.rewards[i].segments[k].end <= r.duration

(* A complete option has an outcome, and a next state unless it was the    *)
(* last; one that was cut off has neither.                                 *)
ValidEnding(r) ==
    CASE r.censoring = "complete" /\ r.terminal ->
            r.outcome /\ r.next = Nowhere /\ r.options = {}
      [] r.censoring = "complete" /\ ~r.terminal ->
            /\ r.outcome /\ r.next # Nowhere /\ r.options # {}
            /\ r.next.role = r.role /\ r.next.schema = r.input.schema
      [] OTHER -> ~r.outcome /\ ~r.terminal /\ r.next = Nowhere /\ r.options = {}

ValidRecord(r) ==
    r.input.role = r.role /\ r.duration > 0 /\ ValidEnding(r) /\ ValidRewards(r)

-----------------------------------------------------------------------------
(* What a data set must be: TransitionDataset._validate_records.           *)

Assigned(r) == \A k \in BankKinds : r.banks[k] \in DOMAIN Splits[k]
SplitsOf(r) == {Splits[k][r.banks[k]] : k \in BankKinds}

(* SplitAssignment.split_for, of a record it does not raise for.           *)
SplitFor(r) == CHOOSE s \in SplitNames : SplitsOf(r) = {s}

SameOption(r, q) ==
    r.episode = q.episode /\ r.role = q.role /\ r.instance = q.instance

ValidDataset(rs) ==
    /\ \A i \in DOMAIN rs :
          /\ ValidState(rs[i].input)
          /\ rs[i].next # Nowhere => ValidState(rs[i].next)
          /\ Assigned(rs[i]) /\ Cardinality(SplitsOf(rs[i])) = 1
          /\ rs[i].profile = Profile
    /\ \A i, j \in DOMAIN rs :
          /\ SameOption(rs[i], rs[j]) => i = j
          /\ rs[i].episode = rs[j].episode => SplitFor(rs[i]) = SplitFor(rs[j])

-----------------------------------------------------------------------------
(* Returns and backups: option_value.py.                                   *)

(* exp(-beta t), and the integral of it with ln 2 as the unit of rates.    *)
Discount(ticks) == Scale \div 2^ticks
Integral(segment) == segment.rate * (Discount(segment.start) - Discount(segment.end))

(* discounted_return                                                       *)
ReturnOf(r) ==
    Total([i \in DOMAIN r.rewards |->
              r.rewards[i].impulse * Discount(r.duration)
                + Total([k \in DOMAIN r.rewards[i].segments |-> Integral(r.rewards[i].segments[k])])])

Value(state, kind) ==
    IF <<state, kind>> \in DOMAIN values THEN values[<<state, kind>>] ELSE 0

KeyOf(r) == <<StateId(r.input), r.kind>>

Best(state, options) == Max({Value(state, k) : k \in options})

(* As Target, with every option that is registered.                        *)
TargetOfAny(r) ==
    ReturnOf(r) + (IF r.terminal THEN 0 ELSE Best(StateId(r.next), Kinds) \div 2^r.duration)

Target(r) ==
    ReturnOf(r) + (IF r.terminal THEN 0 ELSE Best(StateId(r.next), r.options) \div 2^r.duration)

-----------------------------------------------------------------------------
(* A record that is not one raises where it is made.                       *)
Collect ==
    /\ ~accepted /\ Len(records) < MaxRecords
    /\ \E r \in Records : ValidRecord(r) /\ records' = Append(records, r)
    /\ UNCHANGED <<accepted, values, backups>>

MakeDataset ==
    /\ ~accepted /\ ValidDataset(records)
    /\ accepted' = TRUE
    /\ UNCHANGED <<records, values, backups>>

(* update: it raises for what is not complete, and changes nothing then.   *)
(* So it does for options the table does not have and for results that are *)
(* not finite; every kind here is in the table, and every number finite.   *)
(* That only training records are backed up is the caller's part.          *)
Backup(r, eta) ==
    /\ r.censoring = "complete"
    /\ LET old == Value(StateId(r.input), r.kind)
           new == old + (Target(r) - old) \div 2^eta
       IN  values' = [k \in DOMAIN values \cup {KeyOf(r)} |-> IF k = KeyOf(r) THEN new ELSE values[k]]
    /\ backups' = backups + 1
    /\ UNCHANGED <<records, accepted>>

Learn ==
    /\ accepted /\ backups < MaxBackups
    /\ \E i \in DOMAIN records, eta \in Etas :
          SplitFor(records[i]) = "training" /\ Backup(records[i], eta)

LearningInit == records = <<>> /\ accepted = FALSE /\ values = <<>> /\ backups = 0

LearningNext == Collect \/ MakeDataset \/ Learn

LearningSpec == LearningInit /\ [][LearningNext]_learningVars

-----------------------------------------------------------------------------
(* The reference.  What an option yielded, tick by tick: in every tick of  *)
(* it, each component pays at one rate at most.                            *)
Rate(component, tick) ==
    LET now == {s \in Range(component.segments) : s.start <= tick /\ tick < s.end}
    IN  IF now = {} THEN 0 ELSE (CHOOSE s \in now : TRUE).rate

Yield(r) ==
    Total([i \in DOMAIN r.rewards |->
              r.rewards[i].impulse * Discount(r.duration)
                + Total([t \in 1..r.duration |->
                            Rate(r.rewards[i], t - 1) * (Discount(t - 1) - Discount(t))])])

(* What the training records that were ended show could come of an option  *)
(* in a state, followed for n options: nothing, what a record yields if it *)
(* is the last, or that and what could come of an option that was open     *)
(* after it.                                                               *)
Shown == {r \in Range(records) : r.censoring = "complete" /\ SplitFor(r) = "training"}

Follow(r, before) ==
    {Yield(r) + x \div 2^r.duration :
        x \in IF r.terminal THEN {0}
              ELSE UNION {IF <<StateId(r.next), k>> \in DOMAIN before
                          THEN before[<<StateId(r.next), k>>] ELSE {0} : k \in r.options}}

Further(before) ==
    [key \in {KeyOf(r) : r \in Shown} |->
        {0} \cup UNION {Follow(r, before) : r \in {q \in Shown : KeyOf(q) = key}}]

Outcomes ==
    LET of[n \in 0..MaxBackups] ==
            IF n = 0 THEN [key \in {KeyOf(r) : r \in Shown} |-> {0}] ELSE Further(of[n - 1])
    IN  of

(* No value is better or worse than all that the training records show     *)
(* could come of it, whatever the order and number of backups: none is     *)
(* owed to a reward outside its option, to an option that was not open, or *)
(* to the future of a last option; and no record it comes from shares an   *)
(* episode, a map, an opponent or a seed with one that is held out.        *)
ValuesAreShown ==
    accepted =>
        /\ \A key \in DOMAIN values :
              /\ key \in DOMAIN Outcomes[backups]
              /\ Min(Outcomes[backups][key]) <= values[key]
              /\ values[key] <= Max(Outcomes[backups][key])
        /\ \A r \in Shown, q \in Range(records) \ Shown :
              SplitFor(q) # "training" =>
                  r.episode # q.episode /\ \A k \in BankKinds : r.banks[k] # q.banks[k]
=============================================================================
