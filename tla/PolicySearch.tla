---------------------------- MODULE PolicySearch ----------------------------
(***************************************************************************)
(* The search for tactical parameters: train_p63_evolution of              *)
(* tools/train_evolution.py over hsl_core/learning/evolution.py.  Genomes  *)
(* are mutated, flown against the baseline on training fixtures, assessed  *)
(* in pairs, and bred from the eligible; one finalist is flown on the      *)
(* validation fixtures, and a policy is written.                           *)
(*                                                                         *)
(* A genome is its hash.  An episode ends as the simulation may end it;    *)
(* the candidate meets the baseline once in either role, and is compared   *)
(* with the baseline that met itself.                                      *)
(***************************************************************************)
EXTENDS Integers, Sequences, SequencesExt, FiniteSets, FiniteSetsExt, Totals

CONSTANTS
    Genomes,            \* hashes, ordered
    Baseline,
    Child,              \* Child[g][seed]: mutate_genome
    FirstSeed,          \* config.seed
    PopulationSize, EliteCount, Generations,
    MaxAttempts,        \* mutations tried for a genome that is not a duplicate
    Fixtures,           \* number of training fixtures, and of validation fixtures
    Episodes,           \* what may come of an episode: see EpisodeType
    References,         \* References[n][i]: the baseline against itself, on the training
                        \* fixture i for population n; 0 stands for the validation
    MaxOverrides,       \* maximum_safety_overrides_per_episode
    CriticalSquared     \* square of the quantile of Student's t

RoleNames == {"guardian", "explorer"}

(* SILBenchmarkEpisode: what the guardian gained and the explorer lost, how *)
(* often the supervisor overruled each, and who hit something or moved     *)
(* against a decision.                                                     *)
EpisodeType == [gain : Int, overrides : [RoleNames -> Nat], unsafe : SUBSET RoleNames]

(* EpisodeResult, and RoleSwappedSILEvaluation.                            *)
ResultType == [return : Int, overrides : Nat, safe : BOOLEAN]
EvaluationType ==
    [candidate : [RoleNames -> ResultType], baseline : [RoleNames -> ResultType]]

(* The row of a role: what the one gains the other loses.                  *)
Row(episode, role) ==
    [return |-> IF role = "guardian" THEN episode.gain ELSE -episode.gain,
     overrides |-> episode.overrides[role],
     safe |-> role \notin episode.unsafe]

(* The candidate is judged by its guardian in one match and its explorer   *)
(* in another, the baseline by both roles of the match with itself.        *)
RoleSwapped(reference, asGuardian, asExplorer) ==
    [candidate |-> [role \in RoleNames |->
                       Row(IF role = "guardian" THEN asGuardian ELSE asExplorer, role)],
     baseline |-> [role \in RoleNames |-> Row(reference, role)]]

(* EvolutionConfig.__post_init__                                           *)
EvolutionConfigValid ==
    /\ PopulationSize \in Nat \ {0, 1} /\ EliteCount \in 1..(PopulationSize - 1)
    /\ FirstSeed \in Nat /\ Generations \in Nat \ {0}

(* EvaluationPlan.__post_init__, whose minimum_pairs there are fixtures for *)
PlanValid ==
    Fixtures \in Nat \ {0, 1} /\ CriticalSquared \in Nat /\ MaxOverrides \in Nat

ASSUME SearchAssumption ==
    /\ EvolutionConfigValid /\ PlanValid
    /\ Genomes \subseteq Nat /\ Baseline \in Genomes
    /\ MaxAttempts \in Nat \ {0}
    /\ \A g \in Genomes : \A n \in 0..(Generations * PopulationSize + MaxAttempts) :
          Child[g][FirstSeed + n] \in Genomes
    /\ Episodes \subseteq EpisodeType
    /\ References \in [0..Generations -> [1..Fixtures -> EpisodeType]]
    /\ \A n \in 0..Generations, i \in 1..Fixtures, g, e \in Episodes :
          RoleSwapped(References[n][i], g, e) \in EvaluationType

VARIABLES
    pc,             \* where the run is
    completed,      \* populations completed so far
    population,     \* the genomes of this generation, in order
    assessed,       \* the assessments of the first of them
    seedsUsed,      \* mutations drawn for the next population so far
    attempts,       \* of these, the ones drawn to replace duplicates
    finalist,       \* with the mean it was chosen for; the baseline if there is none
    selected,       \* the genome of the policy
    files,          \* what is on disk: the run's directory, its report, its policy
    trials          \* history: every trial so far, training and validation

searchVars == <<pc, completed, population, assessed, seedsUsed, attempts, finalist,
                selected, files, trials>>

-----------------------------------------------------------------------------
(* What assess_paired_candidate makes of it: the differences, unless the   *)
(* candidate is excluded.                                                  *)
Excluded(pair) ==
    \E role \in RoleNames :
        LET trial == pair.candidate[role]
        IN  \/ ~trial.safe
            \/ trial.overrides > MaxOverrides
            \/ trial.overrides > pair.baseline[role].overrides

Delta(pair, role) == pair.candidate[role].return - pair.baseline[role].return

Compared(pair) ==
    IF Excluded(pair) THEN [safe |-> FALSE, guardian |-> 0, explorer |-> 0]
    ELSE [safe |-> TRUE, guardian |-> Delta(pair, "guardian"),
          explorer |-> Delta(pair, "explorer")]

(* All that a candidate may achieve on the fixtures for population n.       *)
Flights(n) ==
    LET On(i) == {Compared(RoleSwapped(References[n][i], g, e)) : g, e \in Episodes}
    IN  {flights \in [1..Fixtures -> UNION {On(i) : i \in 1..Fixtures}] :
            \A i \in 1..Fixtures : flights[i] \in On(i)}

-----------------------------------------------------------------------------
(* assess_paired_candidate, over one flight per fixture.                   *)

OfGuardian(flights) == [i \in DOMAIN flights |-> flights[i].guardian]
OfExplorer(flights) == [i \in DOMAIN flights |-> flights[i].explorer]
Balanced(flights) == [i \in DOMAIN flights |-> flights[i].guardian + flights[i].explorer]

Eligible(flights) == \A i \in DOMAIN flights : flights[i].safe

(* paired_student_t_interval: the lower bound is positive, without roots   *)
(* and divisions.                                                          *)
LowerBoundPositive(flights) ==
    LET n == Len(flights)
        sum == Total(Balanced(flights))
        squares == Total([i \in DOMAIN flights |-> Balanced(flights)[i] * Balanced(flights)[i]])
    IN  sum > 0 /\ sum * sum * (n - 1) > CriticalSquared * (n * squares - sum * sum)

Assessment(flights) ==
    IF Eligible(flights)
    THEN [eligible |-> TRUE, guardian |-> Total(OfGuardian(flights)),
          explorer |-> Total(OfExplorer(flights)), positive |-> LowerBoundPositive(flights)]
    ELSE [eligible |-> FALSE, guardian |-> 0, explorer |-> 0, positive |-> FALSE]

Mean(a) == a.guardian + a.explorer
NoRoleLoses(a) == a.guardian >= 0 /\ a.explorer >= 0

BaselineAssessment == [eligible |-> TRUE, guardian |-> 0, explorer |-> 0, positive |-> FALSE]

(* The finalist: the best mean of all generations that costs no role.      *)
Better(a) == a.eligible /\ Mean(a) > finalist.mean /\ NoRoleLoses(a)

(* select_on_validation                                                    *)
SelectedByMean(a) == a.eligible /\ Mean(a) > 0 /\ NoRoleLoses(a)
Selected(a) == a.eligible /\ a.positive /\ NoRoleLoses(a)

-----------------------------------------------------------------------------
(* create_next_generation                                                  *)

(* mutate_genome: the same parent and seed give the same child.            *)
Mutated(parent, seed) == Child[parent][seed]

Ranked(i, j) ==
    \/ Mean(assessed[i]) > Mean(assessed[j])
    \/ Mean(assessed[i]) = Mean(assessed[j]) /\ population[i] < population[j]

EligibleOnes == {i \in DOMAIN population : assessed[i].eligible}

Elites ==
    LET ranking == SetToSortSeq(EligibleOnes, Ranked)
    IN  [i \in 1..Min({EliteCount, Len(ranking)}) |-> population[ranking[i]]]

Parents == IF Elites = <<>> THEN <<Baseline>> ELSE Elites

(* The generation evaluated last decides, and the first fill counts as its *)
(* own: the two draw on the same seeds.                                    *)
Seed(n) == FirstSeed + Max({completed - 1, 0}) * PopulationSize + n

(* The baseline first, and then children of the elites in turn, duplicates *)
(* left out.                                                               *)
Bred ==
    LET ParentOf(n) == Parents[(n % Len(Parents)) + 1]
        Add(genomes, n) ==
            IF Mutated(ParentOf(n), Seed(n)) \in Range(genomes) THEN genomes
            ELSE Append(genomes, Mutated(ParentOf(n), Seed(n)))
    IN  FoldLeft(Add, <<Baseline>>, [i \in 1..(PopulationSize - 1) |-> i - 1])

-----------------------------------------------------------------------------
(* The run.                                                                *)

(* _initial_population, and what takes the place of duplicates: mutations  *)
(* of the baseline until there are enough genomes.                         *)
Fill ==
    /\ pc = "FILL" /\ Len(population) < PopulationSize /\ attempts < MaxAttempts
    /\ LET child == Mutated(Baseline, Seed(seedsUsed))
       IN  population' = IF child \in Range(population) THEN population ELSE Append(population, child)
    /\ seedsUsed' = seedsUsed + 1 /\ attempts' = attempts + 1
    /\ UNCHANGED <<pc, completed, assessed, finalist, selected, files, trials>>

(* "bounded mutation could not ..."                                        *)
GiveUp ==
    /\ pc = "FILL" /\ Len(population) < PopulationSize /\ attempts = MaxAttempts
    /\ pc' = "RAISED"
    /\ UNCHANGED <<completed, population, assessed, seedsUsed, attempts, finalist, selected,
                   files, trials>>

Filled ==
    /\ pc = "FILL" /\ Len(population) = PopulationSize
    /\ pc' = "EVALUATE" /\ completed' = completed + 1 /\ assessed' = <<>>
    /\ UNCHANGED <<population, seedsUsed, attempts, finalist, selected, files, trials>>

(* The next genome against the baseline, on every training fixture; the    *)
(* baseline is not flown against itself.                                   *)
NextCandidate == population[Len(assessed) + 1]

EvaluateNext ==
    /\ pc = "EVALUATE" /\ Len(assessed) < PopulationSize /\ NextCandidate # Baseline
    /\ \E flights \in Flights(completed) :
          LET a == Assessment(flights)
          IN  /\ assessed' = Append(assessed, a)
              /\ finalist' = IF Better(a) THEN [genome |-> NextCandidate, mean |-> Mean(a)]
                            ELSE finalist
              /\ trials' = trials \cup {[genome |-> NextCandidate, split |-> "TRAINING", flights |-> flights]}
    /\ UNCHANGED <<pc, completed, population, seedsUsed, attempts, selected, files>>

AssessBaseline ==
    /\ pc = "EVALUATE" /\ Len(assessed) < PopulationSize /\ NextCandidate = Baseline
    /\ assessed' = Append(assessed, BaselineAssessment)
    /\ UNCHANGED <<pc, completed, population, seedsUsed, attempts, finalist, selected, files, trials>>

Evaluated == pc = "EVALUATE" /\ Len(assessed) = PopulationSize

Breed ==
    /\ Evaluated /\ completed < Generations
    /\ population' = Bred
    /\ seedsUsed' = PopulationSize - 1 /\ attempts' = 0
    /\ pc' = "FILL"
    /\ UNCHANGED <<completed, assessed, finalist, selected, files, trials>>

Validate ==
    /\ Evaluated /\ completed = Generations /\ finalist.genome # Baseline
    /\ \E flights \in Flights(0) :
          /\ selected' = IF Selected(Assessment(flights)) THEN finalist.genome ELSE Baseline
          /\ trials' = trials \cup
                 {[genome |-> finalist.genome, split |-> "VALIDATION", flights |-> flights]}
    /\ pc' = "WRITE"
    /\ UNCHANGED <<completed, population, assessed, seedsUsed, attempts, finalist, files>>

KeepBaseline ==
    /\ Evaluated /\ completed = Generations /\ finalist.genome = Baseline
    /\ pc' = "WRITE"
    /\ UNCHANGED <<completed, population, assessed, seedsUsed, attempts, finalist, selected,
                   files, trials>>

(* mkdir, then the report, then the policy.                                *)
ToWrite == CASE files = {} -> "DIRECTORY" [] files = {"DIRECTORY"} -> "REPORT" [] OTHER -> "POLICY"

Write ==
    /\ pc = "WRITE"
    /\ files' = files \cup {ToWrite}
    /\ pc' = IF ToWrite = "POLICY" THEN "DONE" ELSE "WRITE"
    /\ UNCHANGED <<completed, population, assessed, seedsUsed, attempts, finalist, selected, trials>>

(* The process dies, and is started again for the same directory: it       *)
(* refuses one that is there, and does not go on with a run.               *)
NoFinalist == [genome |-> Baseline, mean |-> 0]

Restart ==
    /\ pc # "DONE"
    /\ pc' = IF files = {} THEN "FILL" ELSE "RAISED"
    /\ completed' = 0 /\ population' = <<Baseline>> /\ assessed' = <<>>
    /\ seedsUsed' = 1 /\ attempts' = 0
    /\ finalist' = NoFinalist /\ selected' = Baseline /\ trials' = {}
    /\ UNCHANGED files

SearchInit ==
    /\ pc = "FILL" /\ completed = 0 /\ population = <<Baseline>> /\ assessed = <<>>
    /\ seedsUsed = 1 /\ attempts = 0
    /\ finalist = NoFinalist /\ selected = Baseline /\ trials = {}
    /\ files = {}

SearchNext ==
    \/ Fill \/ GiveUp \/ Filled \/ EvaluateNext \/ AssessBaseline \/ Breed
    \/ Validate \/ KeepBaseline \/ Write \/ Restart

SearchSpec == SearchInit /\ [][SearchNext]_searchVars

-----------------------------------------------------------------------------
(* A policy other than the baseline is written only with a report, and     *)
(* only for a genome that, in this run, did better than the baseline on    *)
(* all training fixtures together, was then flown once on the validation   *)
(* fixtures, was safe in both, and did so well there in every role that    *)
(* chance does not explain it - although populations change, a genome may  *)
(* be flown again with other luck, and the run may die and start again.    *)
Supported(g, split) ==
    \E t \in trials :
        /\ t.genome = g /\ t.split = split
        /\ \A i \in 1..Fixtures : t.flights[i].safe
        /\ Total(OfGuardian(t.flights)) >= 0 /\ Total(OfExplorer(t.flights)) >= 0
        /\ IF split = "TRAINING" THEN Total(Balanced(t.flights)) > 0 ELSE LowerBoundPositive(t.flights)

SelectedIsSupported ==
    ("POLICY" \in files /\ selected # Baseline) =>
        /\ "REPORT" \in files
        /\ Supported(selected, "TRAINING") /\ Supported(selected, "VALIDATION")
        /\ Cardinality({t \in trials : t.split = "VALIDATION"}) = 1
=============================================================================
