------------------------------ MODULE Occupancy ------------------------------
(***************************************************************************)
(* The layered occupancy map: OccupancyMapper of hsl_core/occupancy.py.  A *)
(* batch of rays is applied as a whole or not at all, evidence per cell    *)
(* and batch is capped, and what was seen of moving things decays.         *)
(*                                                                         *)
(* Log odds are integers, in fifths.  A ray is the cells it crosses, in    *)
(* order, the cell it ends in, if that is on the grid, and its return.     *)
(***************************************************************************)
EXTENDS Integers, Sequences, SequencesExt, FiniteSets, FiniteSetsExt

CONSTANTS
    GridCells,
    OffGrid,            \* where a ray ends that leaves the grid
    Batches,            \* the batches of rays that come in: see RayType
    FreeEvidence,       \* what a ray that passes says against a cell, 3 for log(0.35 / 0.65)
    HitEvidence,        \* what a return says for it, 4 for log(0.7 / 0.3)
    FreeThreshold,      \* 7 for log(0.2 / 0.8)
    OccupiedThreshold,  \* 4 for log(0.7 / 0.3)
    MaxLogOdds, MaxBatchUpdate,     \* max_log_odds and max_batch_abs_update
    MaxRays,            \* max_rays_per_batch
    LastStamp, LastMapVersion

RayType == [cells : SUBSET GridCells, end : GridCells \cup {OffGrid},
            stamp : 0..LastStamp, kind : {"STATIC", "DYNAMIC"}, hit : BOOLEAN]

(* OccupancyMapConfig: the free and the occupied side of even odds.  The   *)
(* code also admits even odds themselves for max_probability: every cell   *)
(* without evidence is then occupied, and nothing ever fades.              *)
MapConfigValid ==
    /\ {FreeEvidence, HitEvidence, FreeThreshold, OccupiedThreshold} \subseteq Nat \ {0}
    /\ {MaxLogOdds, MaxBatchUpdate, MaxRays} \subseteq Nat \ {0}

ASSUME OccupancyAssumption ==
    /\ MapConfigValid
    /\ LastStamp \in Nat
    /\ OffGrid \notin GridCells
    /\ Batches \subseteq Seq(RayType)

VARIABLES
    static,         \* _static_log_odds
    dynamic,        \* _dynamic_log_odds
    observedFree,   \* the cells of _observed_free
    lastObserved,   \* _last_observed_s
    lastDynamic,    \* _last_dynamic_s
    stamp,          \* _stamp_s
    version,        \* _map_version
    decayed         \* history: the time of the last decay

occupancyVars == <<static, dynamic, observedFree, lastObserved, lastDynamic, stamp, version, decayed>>

-----------------------------------------------------------------------------
(* _state, and the collision layer of snapshot.                            *)
LayerState(logOdds) ==
    CASE logOdds <= -FreeThreshold -> "OBSERVED_FREE"
      [] logOdds >= OccupiedThreshold -> "OCCUPIED"
      [] OTHER -> "UNKNOWN"

Structural(c) == LayerState(static[c])
Semantic(c) == LayerState(dynamic[c])
Collision(c) == IF Semantic(c) = "OCCUPIED" THEN "OCCUPIED" ELSE Structural(c)

Clip(n, bound) == Max({-bound, Min({n, bound})})

-----------------------------------------------------------------------------
(* update                                                                  *)

Returns(ray) == ray.hit /\ ray.end # OffGrid

(* The cells a ray clears: the one it returns from is not among them.      *)
Cleared(ray) == ray.cells \ (IF Returns(ray) THEN {ray.end} ELSE {})

(* The rays of a batch that say something for, or against, a cell.         *)
Hitting(batch, kind, c) ==
    {r \in DOMAIN batch : Returns(batch[r]) /\ batch[r].kind = kind /\ batch[r].end = c}
Passing(batch, c) == {r \in DOMAIN batch : batch[r].kind = "STATIC" /\ c \in Cleared(batch[r])}

StaticEvidence(batch, c) ==
    HitEvidence * Cardinality(Hitting(batch, "STATIC", c)) - FreeEvidence * Cardinality(Passing(batch, c))
DynamicEvidence(batch, c) == HitEvidence * Cardinality(Hitting(batch, "DYNAMIC", c))

(* Neighbouring rays of a scan are not independent: what they say of a     *)
(* cell together counts up to a bound.                                     *)
UpdatedOdds(logOdds, evidence) == Clip(logOdds + Clip(evidence, MaxBatchUpdate), MaxLogOdds)

Latest(times, rays, batch) == Max(times \cup {batch[r].stamp : r \in rays})

Rejected(batch) == Len(batch) > MaxRays \/ \E r \in DOMAIN batch : batch[r].stamp < stamp

(* An empty batch changes nothing; a rejected one raises before anything   *)
(* is changed.                                                             *)
Update(batch) ==
    IF Rejected(batch) \/ batch = <<>> THEN UNCHANGED occupancyVars
    ELSE /\ static' = [c \in GridCells |-> UpdatedOdds(static[c], StaticEvidence(batch, c))]
         /\ dynamic' = [c \in GridCells |-> UpdatedOdds(dynamic[c], DynamicEvidence(batch, c))]
         /\ observedFree' = observedFree \cup UNION {Cleared(batch[r]) : r \in DOMAIN batch}
         /\ lastObserved' = [c \in GridCells |->
                Latest({lastObserved[c]}, {r \in DOMAIN batch : c \in batch[r].cells}, batch)]
         /\ lastDynamic' = [c \in GridCells |->
                Latest({lastDynamic[c]}, Hitting(batch, "DYNAMIC", c), batch)]
         /\ stamp' = Latest({}, DOMAIN batch, batch)
         /\ version' = version + 1
         /\ UNCHANGED decayed

-----------------------------------------------------------------------------
(* decay: every call reckons from the last return, whatever earlier calls  *)
(* have taken off already.                                                 *)
PowerOfTwo[n \in Nat] == IF n = 0 THEN 1 ELSE 2 * PowerOfTwo[n - 1]

AgeOfCell(c, now) == Max({0, now - lastObserved[c]})
Age(c, now) == Max({0, now - lastDynamic[c]})

Decay(now) ==
    IF now < stamp THEN UNCHANGED occupancyVars
    ELSE /\ dynamic' = [c \in GridCells |-> dynamic[c] \div PowerOfTwo[Age(c, now)]]
         /\ stamp' = now /\ decayed' = now
         /\ version' = version + 1
         /\ UNCHANGED <<static, observedFree, lastObserved, lastDynamic>>

OccupancyInit ==
    /\ static = [c \in GridCells |-> 0] /\ dynamic = [c \in GridCells |-> 0]
    /\ observedFree = {}
    /\ lastObserved = [c \in GridCells |-> 0] /\ lastDynamic = [c \in GridCells |-> 0]
    /\ stamp = 0 /\ version = 0 /\ decayed = 0

OccupancyNext ==
    /\ version < LastMapVersion
    /\ \/ \E batch \in Batches : Update(batch)
       \/ \E now \in 0..LastStamp : Decay(now)

OccupancySpec == OccupancyInit /\ [][OccupancyNext]_occupancyVars

-----------------------------------------------------------------------------
(* How many half-lives the strongest evidence lasts.                       *)
Lasts == Min({n \in 0..MaxLogOdds : MaxLogOdds \div PowerOfTwo[n] < OccupiedThreshold})

(* A moving thing that is gone does not block a cell for ever: a decay     *)
(* that long after its last return leaves the cell what it is without it,  *)
(* although rays have crossed it all the time.                             *)
MovingThingsFade ==
    \A c \in GridCells : decayed >= lastDynamic[c] + Lasts => Collision(c) = Structural(c)
=============================================================================
