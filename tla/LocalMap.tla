------------------------------ MODULE LocalMap ------------------------------
(***************************************************************************)
(* The local obstacle map: LocalObstacleBuilder of hsl_core/mapping.py.    *)
(* The returns of one cloud are taken in the order of their distance; a    *)
(* return frees the cells its ray passes and occupies its own; a look down *)
(* the corridor ahead says how far the robot can see that it is free.      *)
(*                                                                         *)
(* Lengths are integers, the robot is at <<0, 0>> and looks along the      *)
(* first axis.  A return is the point and whether its height is that of    *)
(* the robot.  Clouds of the wrong shape or with values that are not       *)
(* finite are left out.                                                    *)
(***************************************************************************)
EXTENDS Plane, Sequences, FiniteSets, SequencesExt, FiniteSetsExt

CONSTANTS
    Resolution,     \* resolution_m
    Origin,         \* of the grid: origin_x_m, origin_y_m
    Columns, Rows,  \* width, height of the grid
    SelfRadius,     \* self_radius_m
    CorridorWidth,  \* corridor_width_m
    MaxPoints,      \* max_points
    Clouds          \* clouds, see ReturnType

ReturnType == [at : Point, level : BOOLEAN]

(* LocalObstacleConfig.__post_init__                                       *)
LocalMapConfigValid ==
    /\ Resolution \in Nat \ {0} /\ Columns \in Nat \ {0} /\ Rows \in Nat \ {0}
    /\ Origin \in Point /\ SelfRadius \in Nat /\ CorridorWidth \in Nat \ {0}
    /\ MaxPoints \in Nat \ {0}

(* The corridor takes in the row of the robot: config does not check this. *)
ASSUME LocalMapAssumption ==
    /\ LocalMapConfigValid
    /\ CorridorWidth >= Resolution
    /\ Clouds \subseteq Seq(ReturnType)

VARIABLES
    cloud,  \* points_xyz
    view    \* the LocalObstacleSnapshot built from it

localMapVars == <<cloud, view>>

NoCell == <<>>
Cells == (0..(Columns - 1)) \X (0..(Rows - 1))

-----------------------------------------------------------------------------
(* _cell_index of the point p / n.                                         *)
CellOf(p, n) ==
    LET cell == <<(p[1] - n * Origin[1]) \div (n * Resolution),
                  (p[2] - n * Origin[2]) \div (n * Resolution)>>
    IN  IF cell \in Cells THEN cell ELSE NoCell

Beyond(p) == Dot(p, p)

(* _ray_cells: samples no further apart than half a cell, without the end; *)
(* those off the grid are skipped.                                         *)
Steps(p) ==
    Min({n \in 0..(2 * Beyond(p)) : n * n * Resolution * Resolution >= 4 * Beyond(p)})

RayCells(p) ==
    [i \in 1..Steps(p) |-> CellOf(<<p[1] * (i - 1), p[2] * (i - 1)>>, Steps(p))]

(* The mask of valid points, and their order: a stable sort by distance.   *)
Valid(r) == r.level /\ Beyond(r.at) >= SelfRadius * SelfRadius

InOrderOfCloud(returns) == SelectSeq(returns, Valid)

ValidIds(returns) == {i \in DOMAIN returns : Valid(returns[i])}

Before(returns, i, j) ==
    \/ Beyond(returns[i].at) < Beyond(returns[j].at)
    \/ Beyond(returns[i].at) = Beyond(returns[j].at) /\ i < j

Rank(returns, i) == Cardinality({j \in ValidIds(returns) : Before(returns, j, i)})

InOrder(returns) ==
    [k \in 1..Cardinality(ValidIds(returns)) |->
        returns[CHOOSE i \in ValidIds(returns) : Rank(returns, i) = k - 1]]

(* One round of the loop.  The ray frees cells up to the first occupied.   *)
SeenThrough(grid, ray) ==
    {ray[i] : i \in {j \in DOMAIN ray :
                        \A k \in 1..j : ray[k] # NoCell => grid[ray[k]] # "OCCUPIED"}}

Integrate(grid, r) ==
    LET hit == CellOf(r.at, 1)
        freed == SeenThrough(grid, RayCells(r.at))
    IN  IF hit = NoCell THEN grid
        ELSE [c \in Cells |-> IF c = hit THEN "OCCUPIED"
                              ELSE IF c \in freed THEN "FREE" ELSE grid[c]]

Coverage(returns) ==
    LET grid[k \in 0..Len(returns)] ==
            IF k = 0 THEN [c \in Cells |-> "UNKNOWN"] ELSE Integrate(grid[k - 1], returns[k])
    IN  grid[Len(returns)]

-----------------------------------------------------------------------------
(* _central_corridor_distance.                                             *)
CorridorRows ==
    {row \in 0..(Rows - 1) :
        LET center == 2 * Origin[2] + (2 * row + 1) * Resolution
        IN  center <= CorridorWidth /\ -center <= CorridorWidth}

ColumnStart(column) == Greater(0, Origin[1] + column * Resolution)

StartCell == CellOf(<<SelfRadius, 0>>, 1)

(* Columns from the robot on, in which the walk down the corridor ends.    *)
Blocking(grid) ==
    {column \in StartCell[1]..(Columns - 1) :
        \/ \E row \in CorridorRows : grid[<<column, row>>] = "OCCUPIED"
        \/ grid[<<column, StartCell[2]>>] = "UNKNOWN"}

Corridor(grid) ==
    IF StartCell = NoCell THEN [free |-> 0, valid |-> FALSE]
    ELSE IF Blocking(grid) = {}
    THEN LET free == Greater(0, Origin[1] + Columns * Resolution)
         IN  [free |-> free, valid |-> free >= SelfRadius + Resolution]
    ELSE LET first == Min(Blocking(grid))
             hit == \E row \in CorridorRows : grid[<<first, row>>] = "OCCUPIED"
         IN  [free |-> IF first = StartCell[1] /\ ~hit THEN 0 ELSE ColumnStart(first),
              valid |-> first > StartCell[1]]

-----------------------------------------------------------------------------
(* build                                                                   *)
BuildMap(c) ==
    /\ cloud' = c
    /\ view' =
          IF Len(c) > MaxPoints THEN [made |-> FALSE]
          ELSE LET obstacles == InOrder(c)
                   grid == Coverage(obstacles)
               IN  [made |-> TRUE, obstacles |-> obstacles, cells |-> grid,
                    corridor |-> Corridor(grid)]

LocalMapInit == cloud = <<>> /\ view = [made |-> FALSE]

LocalMapNext == ~view.made /\ \E c \in Clouds : BuildMap(c)

LocalMapSpec == LocalMapInit /\ [][LocalMapNext]_localMapVars

-----------------------------------------------------------------------------
(* The returns that count, and those in the grid.                          *)
Counted == {cloud[i].at : i \in {j \in DOMAIN cloud : Valid(cloud[j])}}
Hits == {p \in Counted : CellOf(p, 1) # NoCell}

(* A cell is occupied exactly where the cloud has a return that counts,    *)
(* and free only where one was seen through: some ray passes it, and no    *)
(* nearer return lies on the ray up to there.  It does not matter in which *)
(* order the returns are in the cloud.                                     *)
FreeCellsAreSeen ==
    view.made =>
        \A c \in Cells :
            /\ view.cells[c] = "OCCUPIED" <=> \E p \in Hits : CellOf(p, 1) = c
            /\ view.cells[c] = "FREE" =>
                  \E p \in Hits : \E i \in DOMAIN RayCells(p) :
                      /\ RayCells(p)[i] = c
                      /\ \A q \in Hits : \A k \in 1..i :
                            CellOf(q, 1) = RayCells(p)[k] => Beyond(q) >= Beyond(p)

(* The free distance that is reported ahead is backed by evidence all the  *)
(* way: no return that counts lies in the corridor nearer than that, and   *)
(* every cell on the robot's own row was seen through up to there.         *)
(* The corridor is made of the rows whose centre is in it.                 *)
ClearAheadIsSeen ==
    view.made /\ view.corridor.valid =>
        /\ \A p \in Hits :
              /\ p[1] >= ColumnStart(StartCell[1])
              /\ CellOf(p, 1)[2] \in CorridorRows
              => p[1] >= view.corridor.free
        /\ \A column \in StartCell[1]..(Columns - 1) :
              ColumnStart(column) < view.corridor.free =>
                  \E p \in Hits : <<column, StartCell[2]>> \in ToSet(RayCells(p))

(* Nothing is called free, neither a cell nor the way ahead, that was not  *)
(* seen to be so, and no return that counts is lost.                       *)
FreeIsSeen == FreeCellsAreSeen /\ ClearAheadIsSeen
=============================================================================
