# A TLA+ verification of HSL26

HSL26 is an autonomous pursuit-and-evasion robot: a guardian or an explorer
plays one timed stage, moves only while it is allowed to, and reports a result
the organizer can defend.  This directory holds TLA+ models of the parts that
decide who may move, what it does next, where it can go and how a stage ends,
the TLC runs that check them on small instances, and TLAPS proofs for every
instance of some of them.  Paths are relative to `src/`; the lines that every
definition stands for are in `PROJECT.json`, under `map`.

## 1. Inventory

| Part | Source | State it keeps | Operations | Talks to |
|---|---|---|---|---|
| Execution lease | `hsl_core/hsl_core/planning/execution.py` | owner, generation, expected versions, authority, cancelled instances | activate, advance the generation, cancel, set authority, admit a candidate | called by the option manager; gate of the controllers' candidates |
| Option manager | `.../tactics/options.py` | action records, the active instance and its phase, published execution state, a monotonic clock | submit, start, replan, complete, tick, cancel, revoke | the lease; the tactical layer; the match context |
| Stage manager | `.../match.py` | stage, phase, deadlines, pending estimates, official events, zones, request records, two barriers | start, zone, reset, epoch changes, acknowledgements, events, resolutions, snapshot | organizer and operator; the rules; every consumer of the match state |
| Rules | `.../rules.py`, `geometry.py` | none | line of sight, capture intervals, contact with a contour | feed events to the stage manager |
| Safety supervisor | `.../control/safety.py`, `braking.py` | none | one ladder of reasons per snapshot | bounds the admitted candidate |
| Safety adapters | `ros_ws/src/hsl_safety` | replace-on-success caches | decode, receive, validate | between messages and the supervisor |
| Safety processes | `ros_ws/src/hsl_safety` | decision sequence; heartbeat watchdog | tick, observe, rearm | two ROS processes that watch each other |
| Velocity mux | `kobuki/workspace/src/cmd_vel_mux` | the allowed source, one timer per source, configuration | message, timeout, reconfiguration | the only writer of `/commands/velocity` |
| Tactical selection | `.../tactics/fsm.py`, `utility.py`, `planning/intercept.py` | the committed proposal | select | proposes goals to the option manager |
| Opponent track | `.../perception/ekf_opponent.py` | estimate, life-cycle counters | predict, update, miss | the tactical snapshot |
| Belief | `.../perception/topological_belief.py` | cells of a graph, with versions | propagate, apply a negative observation, reacquire | the tactical snapshot |
| Perception worker | `.../perception/bounded_worker.py` | the item in flight, a generation | submit, poll, invalidate, close | a thread and its caller |
| Perception geometry | `.../perception/*.py` (the others) | none, or caches | segmentation, registration, surfaces | opponent track |
| Local map | `.../mapping.py` | none: one cloud, one snapshot | build | the clear distance ahead |
| World, planning | `.../occupancy.py`, `topology.py`, `planning/astar.py`, `control/regulated_pursuit.py` | grids, graphs with versions | update, decay, extract, search | candidates |
| Learning | `.../learning/*.py`, `tools/train_evolution.py` | populations, trials, values, files | search, back up, fuse | offline |
| Simulation | `sim/kinematic/*.py` | the policy of each robot with the routes it keeps, the closed loop of two | frame, path to a node, scan, step, contact, episode | drives all of the above in one thread |
| ROS bring-up, tools | `ros_ws/src/hsl_bringup`, `tools` | none | one-shot checks | - |
| Vendor drivers | `kobuki/workspace/src` (the others) | - | - | below the mux |

The packages `hsl_match`, `hsl_decision`, `hsl_navigation`, `hsl_perception`,
`hsl_world` and `hsl_diagnostics` of `ros_ws` are one-line placeholders.

How they interact: the stage manager grants `motion_authorized`; the policy of
a robot turns a frame into proposals, selects one and submits it as an option;
the option manager activates the execution lease and gives it authority when
the option starts; controllers produce candidates bound to an option instance,
a lease generation and the map version; the lease admits or refuses each; the
safety supervisor bounds an admitted candidate; the mux lets the watchdog's
stop win over everything else.

What is hard in it:

* late data - a candidate computed before a replan, an event of the previous
  stage, a heartbeat of before a restart, an authority record overtaken by a
  newer one, a result of a request that was given up;
* the order of calls - replan, cancel, revoke, tick and submit come from
  different clients, observations from different sensors, and events in an
  order that is not the one they happened in;
* time - a freeze, a deadline, a cancel timeout, leases and mux timers, with
  callers that come late or not at all, and steps that jump over a deadline;
* limits - record tables that fill up and refuse what would be needed to end;
* two records of one fact - lease and published state, hold flag and pending
  estimates, two barriers with common consumers, the two stage managers of a
  duel, the policy's idea of its option and the manager's;
* restarts - of the watchdog, of the sources of records, and of a search that
  has written half of its files.

What makes each part correct is the list of properties of section 3.  The
hazards, each at its line, with the properties that would notice it going
wrong, are in `PROJECT.json`, under `hazards`.

## 2. Modules

| Module | Models |
|---|---|
| `ExecutionLease` | `ExecutionLease`, as a record; its methods are operators on it that the option manager uses inside its own actions, and a specification of their own |
| `MotionToken` | abstract: authority to move is one token that never returns to a holder it was taken from |
| `OptionAuthority` | the option manager and its registry, with the lease; extends `ExecutionLease`; the refinement of `MotionToken` is at its end |
| `StageManager` | `StageManager`, one action per public method |
| `StageEpochHistory` | the same with a history variable: who still owes an acknowledgement |
| `WatchdogMachine`, `Watchdog` | the machine as a record with its methods as operators; the machine under any sequence of calls |
| `CmdVelMux` | the multiplexer as a record, its callbacks as operators |
| `SafetyBoundary` | watchdog, supervisor and multiplexer as processes, with messages, time and crashes; extends the two above |
| `MuxContract` | `DeterministicMux` of `mux_contract.py` beside the mux |
| `SafetyDecision` | decoding of a snapshot, the ladder of reasons, braking |
| `RecordGate` | caches of authority records and their validation |
| `TacticalSelector`, `Selection` | one selection; many of them in a row |
| `OpponentTrack` | the life cycle of the opponent filter |
| `AutonomousPolicy` | the policy of one robot, frame by frame; composes `OptionAuthority`, `TacticalSelector` and `OpponentTrack` |
| `TopologicalBelief` | the belief about a rival out of sight |
| `BoundedWorker` | the perception worker, its thread, its caller and the clock |
| `Plane` | points and vectors with integer coordinates |
| `RulesGeometry` | sight, capture and contact over integer positions; extends `Plane` |
| `LocalMap` | the local obstacle map of a cloud, and the clear distance ahead |
| `SweptContact` | contact of a robot with a wall or the other robot during a step |
| `SimPerception` | the scan of a simulated robot, the rival found in it, and the line of sight |
| `RouteReuse` | the route from the pose to a node, with the trees that are kept, and the signature of a motion |
| `Duel` | an episode of two robots; two instances of `StageManager` |
| `TopologyExtraction` | from a grid to nodes and edges |
| `RoutePlanning` | A*, Dijkstra and the tree of routes |
| `Occupancy` | update and decay of the layered map |
| `PolicySearch` | the evolutionary search for tactical parameters, with its files |
| `Totals` | the total of a sequence of numbers, which the search, values and fusion take |
| `OptionLearning`, `OptionFusion` | backups of values from recorded options; comparison of declared models |
| `MC*` | the small instances |
| `*Proofs` | the theorems |

### Option side

`lease` is the object's attributes under `_lock`.  `records` is `_records`
with the goal and the terminal result of each action id; `used` the instance
ids ever accepted; `active` and `instance` are `_active_action_id` and
`_instance`; `state` is the published `ExecutionState`.  Every public method
runs under one lock, so each is one action, with all the lease calls it makes.
A call that raises or is rejected keeps the clock it has observed.  Messages
in flight are not stored: `AdmittedIsCurrent` quantifies over every candidate
that could ever have been made, so a candidate may be arbitrarily late.

### Stage side

`outcome` collects `_phase`, `_event_hold`, `_held_event`, `_terminal_kind`
and `_terminal_evidence`; `pending`, `officials` and `accepted` are the three
event tables.  `_advance_time`, `_adjudicate` and `_terminalize_official_events`
are operators (`AtTime`, `Conflicts`, ...), each called where the method calls
it.  The clock is the caller's argument, so every action picks a time that is
not before `lastNow`, and may skip both deadlines at once.

`Duel` holds two copies of that state and makes the calls of `step` and
`run_episode` on them: `BeginStep` is what a step does before the bodies move,
`EndStep` what it does with the evidence of the step afterwards.  What the
policies command and whether the referee sees a capture is nondeterministic;
an arrival of the explorer ends no episode of the benchmark and is not
modelled.  A robot may fail the episode: `step` raises when a policy does or
answers what is no command, when a plant is commanded to go faster than it can
- `BenchmarkConfig` admits plants slower than the limit the policies command up
to (`benchmark.py:122`, `autonomous.py:1693`, `plant.py:149`) - and when the
clock of a plant, a sum of seconds, is no longer the one of the match
(`ClockFails`).  `first_capture_interval` reports the whole step, so a
capture in the last step, which the end of the stage cuts short, does not
count, and one in a step that begins within the freeze is put off to the next.
The mode of `step` with a single stage manager is not modelled.

`RulesGeometry` works over points with integer coordinates, where contact and
order along a line are exact: tolerances are zero, the depth of the region is
at least 1, circles do not block the sight and a footprint is a point.  An
arrival is judged of contours only that `validate_polygon` of `contracts.py`
accepts, and of robots that start outside: of others the code raises.

### Safety side

`watchdog.machine` is the node's `_machine`; `everHeard` is
`_last_heartbeat_steady_ns is not None`; `wait` is the time until the node's
timer calls `_on_tick`.  `supervisor` is the decision number of its runtime
and the identity it was launched with.  `mux.allowed` is `allowed_`, and
`mux.left` the time until the timer of each input fires.  `stops` and `beats`
are the messages in flight, as sets: a set may lose and reorder, and a late
duplicate of a stop is just one more stop.  The actions are the callbacks of
the three nodes, the crashes and restarts of the processes, and time.  What
the supervisor puts on its command topic is an action of the environment
(`CommandArrives`), as are an operator's commands.

Times are relative to the present.  The one timing assumption is that a tick
of the watchdog reaches the mux within `MaxDelay`, and that the timeout of the
stop is longer than period and delay together (shipped: 0.1 s against a period
of 0.05 s).  Discovery is taken to be immediate.  How late the mux handles one
of its own timers is not bounded.

`SafetyDecision` is the ladder of `evaluate` and what stands before it: what
`decode_safety_snapshot` checks and what it leaves at its default.  The parts
of an identity (epochs, versions, option, generation) always change together
here, so an identity is one number; there is one clock; speeds are integers,
distances count units of `2 * Braking`.  The expected identity is the
snapshot's own, as `SupervisorRuntime` passes it.  `RecordGate` has a source
that crashes and resumes with a new session, a channel that loses, delays and
repeats, and a cache that keeps its last good record.  `NothingGoesBack`
assumes that a restart takes at least the lease and the delay of an
observation, and speaks of the time until a session that was replaced by
another comes back (section 5).

### Policy side

`AutonomousPolicy` is `KinematicAutonomousPolicy.__call__`, cut into one step
per call of the option manager: `pc` says which comes next.  What the frame
holds is chosen from `FrameShapes`: frames are early, late or from another
stage, epoch, map or clock, with or without pose, match state and rival.
Routes, geometry and utilities are nondeterministic, and so is whether there
are more proposals than the selector takes (`SelectorFails`).  `EveryCallSucceeds`
rests on this: each call is made with what the policy remembers, and the
property says that this is still what the manager knows.  `StageOrder`, an
assumption on the frames, says that a stage that was left does not come back.
`OptionsEnd` is a property of the policy and not of the manager: the manager
ends nothing by itself, and the policy ticks it only on arrival, on a STOP of
the supervisor and in an observation.

`TopologicalBelief` keeps the masses only as positive or not, with integer
lengths; `truth` is a history variable, where the rival was at each second and
whether it has ever left: it moves at most `MaxSpeed` along edges that are not
blocked, and may leave at a frontier and come back at another, within one
second too.  A measurement is the set of points it does not rule out; the code
looks at the two ends and the middle of a cell only and drops a cell when the
likelihood vanishes at all three (`AfterMeasurement`), so the history variable
`fine` remembers whether a measurement ever missed all of them in a cell that
it did not rule out.  Edges that end where they begin are in the model, with
what the code makes of them (`InitialCost`, section 5). `Selection` calls the
selector with fresh evidence each cycle; `NeverSwingsBack` is about a situation
that holds still: utilities vary by no more than the hysteresis and the
evidence of an option stays.
`BoundedWorker` makes a poll two steps, since `poll` reads its clock before it
takes the lock.

### Map and learning side

`TopologyExtraction` is `extract_topology` cell by cell and trace by trace:
inflation, nodes, traces between them, edges.  Lengths, clearances and the
spectrum of the graph are left out.  `RoutePlanning` is one iteration of the
queue per step; a polyline is its length, and the assumption on the constants
is the triangle inequality of those lengths.  Edges that cost less than their
length make the code raise, and so they do here.  `smooth_polyline` is left
out.  `Occupancy` counts log odds in fifths, and a tick of decay halves.

In `PolicySearch` a genome is its hash, and mutation the function `Child` of
genome and seed.  The results of an episode come from a small set.  A
candidate is judged as guardian in one match and as explorer in another, so
the gain of the baseline cancels in the balanced mean; the baseline's own
episodes are a constant, since `run_episode` depends on nothing but the seed.
The process may die between any two files, and refuses to start over an
existing directory.  `OptionLearning` is what a record must be, what a split
of the data must be, and the backups, over dyadic integers: a tick of time
halves a value.  That only training records are backed up is the caller's
part, and is made so in the model.  That `update` raises for options the table
does not have and for results that are not finite is left out; it changes
nothing then.  `OptionFusion` compares two states option
by option, with weights out of `Whole` and the code's tolerance.

`LocalMap`, `SweptContact`, `SimPerception` and `RouteReuse` extend `Plane`:
lengths and coordinates are integers, tolerances are zero, and a distance is
compared by its square, as a numerator and a denominator where it is not an
integer.  They differ from the code in what they leave out.  A cloud is well
formed, and the corridor is at least one cell wide, which the configuration
does not check (section 5).  Robots move straight during a step, where the
sagitta that the code adds to the bound is 0; both have the same radius.  In a
scan, how far walls and bodies are along each beam is data, not the result of
hits on segments and circles; the pose is exact; a detection is the set of its
beams.  A tree of routes is the cheapest route to every node - that the search
finds it is what `RoutePlanning` is about - and lines run along the axes, so
the point of a line nearest to the pose has integer coordinates.

## 3. Runs

`PROJECT.json` lists them with their properties; the comment above each
property says what it means for the code.  Two runs put components together that
share no state: a behaviour of `components` or `safety_match_map` is one of a
single component, chosen in its first state, so that such a run explores the
components' behaviours side by side and not their product.  A property with
two parts (`TopologyIsSound`, `ContactIsExact`, ...) is the conjunction of two
named statements above it in its module.

| Run | Properties | Instance | States |
|---|---|---|---|
| `option_authority` | `AdmittedIsCurrent`, `StateAgreesWithLease`, `LeaseCallsNeverRaise`, `AccountsAreKept`, `TokenSpec` | 3 action ids with room for 2 records, 3 options, 4 generations, contexts that differ from a good one in at most one respect; symmetric in the action ids | 25,974 |
| `stage_manager` | `MotionIsSafe`, `OutcomeJustified`, `NoStaleEvent`, `NoInventedOrder`, `StagesEnd` | 2 stages, 2 localization epochs, 6 event shapes, freeze 1 and stage 4 of 5 clock ticks, 3 event records, 4 request records | 93,746 |
| `safety_boundary` | `StopDominates`, `SilenceIsNoticed`, `FaultOutlivesRestart` | lease 2, period 1, delay 1, the configuration that is shipped and one with exchanged priorities and other timeouts, 2 decisions per run of the supervisor | 1,281,288 |
| `autonomous_policy` | `NoOrphan`, `EveryCallSucceeds`, `RivalIsConfirmed`, `MotionIsWarranted`, `OptionsEnd` | 2 nodes, 4 stamps, frames that differ from a good one in at most one respect, records for 2 actions | 137,188 |
| `components` | `SupportContainsRival`, `NeverSwingsBack`, `AnswersAreFinal`, `EveryRequestIsAnswered`, `MovingThingsFade`, `FreeIsSeen`, `ContactIsExact`, `PerceptionIsExact`, `AnswerIsFresh`, `SignatureIsMotion` | below | 195,835 |
| `safety_match_map` | `FaultsAreNotMissed`, `ReleaseIsEarned`, `MotionIsEntitled`, `DuelIsOne`, `EpisodeEnds`, `RulingIsSound`, `TopologyIsSound`, `RouteIsCheapest`, `NothingGoesBack`, `ValuesAreShown`, `FusionKeepsWorth`, `SelectedIsSupported` | below | 642,863 |
| `stage_dismiss`, `stage_epoch_hold`, `stage_epoch_barrier`, `mux_contract`, `policy_gap`, `belief_loop` | one each | statements of the documents that the code does not keep (section 5) | |

Parts of `components`: a belief on a triangle with one long edge, a frontier, a
blocked edge and a loop, three times, four scans and three measurements, one of
them too fine for a cell; a selection among
four options over three cycles, hysteresis and dwell 1; a worker with two
requests, timeout 2, four ticks, one change of version and one invalidation;
a map of two cells in line of a scan, five stamps, five versions; a grid of 5 by 3 cells with the robot inside,
and every cloud of up to three returns out of thirteen, in any order; every
step over a 4 by 4 field beside five walls, and every step of two robots over a
3 by 3 field; scans of seven beams in three rooms with a body along any set of
beams, exact and noisy, with and without a blind beam, and every sight over a 3
by 3 field past every wall; a network of four nodes with two ways between two of
them, the short one open in one graph and not in the other, twelve poses, three
frames and room for two trees.  `FreeIsSeen` depends on the order of at most
two returns and a cell that both touch; contact, sight and detection are about
one step, one wall and one scan; and a stale route needs two graphs or two
frames and one tree more than is kept.

Parts of `safety_match_map`: the watchdog with two stages, two hashes and two
heartbeats between rearms; decisions with speeds up to 3, braking 1, leases of
one or two of three ticks; records of two sessions of two each; a duel of six
steps with a freeze that ends inside a step and an end that cuts the last one
short; motions near a wall in four instants, and moves over a 5 by 5 grid
towards a contour of four or six corners, one of them not simple and refused,
looked at after each sixtieth part of the way (`Parts`); every 4 by 3 map with at least seven
free cells and at most one corner unseen, with a footprint of no or one cell;
four nodes and six edges, two of them parallel, each open, unknown, blocked or
(one at most) undervalued, with five kinds of query; up to three records and
three backups; pairs of models with weights of quarters; a search among four
genomes with a population of three, two generations and two fixtures of two
kinds of episode.

Why the bounds are enough: every limit of the code is reached (record tables
full, generation at its cap, a batch too large, both deadlines crossed in one
call), there is one more actor than slots, and two stages, epochs, sessions or
requests are what "the previous one" needs.  The safety runs can hear a
heartbeat late, twice, out of order and from a restarted supervisor, can lose
every message, and count silence up to the longest timeout (`LongSilence`).
Clock values are bounded by `Horizon`, `MaxTime`, `LastStamp` and the like; in
`StageManager` the bound also is the largest timestamp the code accepts.  Larger
instances that were run once and agree: the watchdog with three heartbeats
(1.1 million states), the worker with three requests and five ticks (0.9
million), and the topology properties on 200,000 larger random maps.

`stage_manager`, `components` and `safety_match_map` run without the deadlock
check: with a clock at its bound, a search finished or an answer given, there
is nothing left to do.

Fairness.  `autonomous_policy` assumes weak fairness of `Progress`: a call of
the policy runs to its end, and the match calls it again with a later stamp
(`sim/kinematic/match.py:504`).  It does not assume that a frame is good, nor
that the manager is ever ticked.  An option's deadline is the end of its stage
at the latest, which is among the four stamps, so within the bound every option
meets a frame at which it must end.
`stage_manager` assumes weak fairness of `LaterSnapshot`: `sim/kinematic/match.py:419`
and `:431` ask for a snapshot in every step.  `Duel` assumes weak fairness of
the loop of `run_episode`, which nothing interrupts but the end of an episode.  `BoundedWorker` assumes
that its caller polls and that the clock goes on; the function that runs in the
thread may never return.

## 4. Proofs

| Module | Proves |
|---|---|
| `OptionProofs` | of the manager: all safety properties of `option_authority`, the refinement of `MotionToken`, the type invariant, and that the lease never authorizes a cancelled instance nor moves a fence back - the last two also of the lease alone, whoever calls it in whatever order; of the policy: all properties of `autonomous_policy`, the type invariant, and that the policy is a client of the option manager: its behaviours are behaviours of `OptionAuthority` |
| `StageManagerProofs` | all safety properties of `stage_manager`, that a valid `MatchState` can be made of every state, and the type invariant |
| `SafetySupervisorProofs` | of the watchdog: `FaultsAreNotMissed` and `ReleaseIsEarned` for histories of any length, that only a rearm ends a fault, the type invariant; of the records: `NothingGoesBack` for any number of sources, sessions and records; of the decision: `MotionIsEntitled` for any speeds, distances, leases and identities; beside the multiplexer: all properties of `safety_boundary`, that silence comes first, and the type invariant |
| `TacticsProofs` | `NeverSwingsBack` for any options and evidence; `SupportContainsRival` for any graph, loops included, scans and measurements; `AnswerIsFresh` for any graphs, poses and number of trees kept; `SignatureIsMotion` for any such, where no corridor runs along another |
| `PerceptionProofs` | of the worker: `AnswersAreFinal`, that there is one task at most, and the type invariant; of the map: `MovingThingsFade` for any grid, evidence and batches; of the local map: `FreeIsSeen` for any cloud, any grid and any corridor at least a cell wide; of contact: `ContactIsExact` for any bodies, walls and straight steps; of the simulated robot's eyes: `PerceptionIsExact` for any scans, walls and sights |
| `RulesProofs` | `RulingIsSound` for any duels and moves, any reach, any depth of the search and any contour that is valid |
| `PlanningProofs` | `TopologyIsSound` for any grid of any size and any inflation; `RouteIsCheapest` for any graph, any metric, any costs of the edges and any question |
| `LearningProofs` | `DuelIsOne` for any stage, any commands and any faults of the robots; `SelectedIsSupported` for any genomes, luck and crashes; `FusionKeepsWorth` for any models, classes and tolerance; `ValuesAreShown` for any records, splits, step sizes and order of backups |

Each holds for every value of the constants that satisfies the module's
assumption (`LeaseAssumption`, `AuthorityAssumption`, `StageAssumption`,
`PolicyAssumption`, ...), which type the constants.  What they say beyond types:
`BoundaryAssumption` and `GateAssumption` the timing of section 2 and of a
restart; `PolicyAssumption` that the bounds of the option manager are beyond
those of the policy, that the ids and goals the policy makes are among the
manager's, that only a frame of phase `INIT` has no end of its stage, and that
the default timeout of a cancellation is a possible one; `GraphAssumption` that
what the rival can cover grows by no more than its greatest speed each second;
`ReuseAssumption` that there are finitely
many nodes, with numbers, that the line of an edge leads from the one of its
ends to the other, and that nothing else is `None`; `ApartAssumption` that two
pieces of corridors have one point in common at most, which is so of extracted
graphs: `_trace_edges` walks no step from a cell to the next twice
(`topology.py:425`, `:431`, `:442`); `FusionAssumption` and `LearningAssumption` that classes of states
and kinds of options are finite, the latter also that `Scale` has room for the
halvings of `MaxBackups` backups; `RouteAssumption` that there are finitely many nodes, with
numbers, and that distances are those of a metric; `ContactAssumption` that a
wall has two different ends, `PerceptionAssumption` the same, that a scan has at
least four beams (as `BenchmarkConfig` does), and that what stands out does so
by more than measurements are off.  `GeometryAssumption` asks that
positions are multiples of two to the depth of the search and one more, so that
what the search looks at has integer coordinates.  Bounds of the instances (`LastStamp`, `MaxSteps`, ...) are numbers
of any size.

*Options.*  `AdmittedIsCurrent` is not inductive: it needs to know what owner,
generation, expectations and cancelled set have to do with the active
instance.  The inductive invariant `IInv` adds three conjuncts: `Ownership`
(the lease belongs to the active instance in its generation, or to a cancelled
one), `Projection` (the published state is the instance's) and `Bookkeeping`
(the active action is the one open record).  One lemma per group of actions
shows that it is kept (`FinishInv` serves every way to end); the theorems
follow from it, and the refinement step by step from the same lemmas.

*Policy.*  The properties relate two records of one option, the policy's and
the manager's, and only between two frames or at one call.  `PolicyInv` says
what each step of a frame may rely on: that the frame passed the checks of
`__call__` (`Handling`), that no clock and no id of the manager is ahead of the
policy's (`Counting`), what a choice still to be started is (`Choosing`), and
how far the manager has come with the option when the next call is made
(`Remembering`, `Agreeing`).  It stands on `IInv`: every step of the policy
makes one call of the manager or none, so `IInv` is kept by the manager's own
lemmas (`PolicyIsClient`).  TLC checked `PolicyInv` over the 137,188 states of
`autonomous_policy` first.

*Stages.*  `StageInv` is the type invariant with `Records` (the tables agree
with each other, and no event outlives its stage), `OutcomeOK` (what a terminal
kind says about the evidence on record and the time) and `Barrier` (after the
first stage, the reset barrier is down only when every reset consumer has
acknowledged).  Every method is the same few operators in another
order, so the lemmas are about these, and one per group of actions puts them
together.  `NoInventedOrder` is about a step, and follows from what adjudication
does with the officials it finds on record.

*Watchdog.*  That no fault is missed compares a new heartbeat with all earlier
ones, while the machine remembers one: `Recall` says that an unlatched machine
remembers the last that was heard, and order carries over step by step.

*Records.*  `NothingGoesBack` compares what is in the cache with the latest
observation that ever was.  `GateInv` says where that one came from: it is in
the cache, or of a session that was (`HeardInOrder`); and records of different
sessions are a restart apart (`SessionsApart`, by `RestartsTakeTime`).  A record
of before a restart is then too old to be valid once one of after it has been
heard, and one of after it was observed later than all of before.  This is where
the assumption on `Downtime` in `GateAssumption` is used: without it the cache
alone would not be enough.

*Decision.*  `DecisionInv` says that an identity which is no longer in force
was changed after the snapshot was made.  The rest is arithmetic: the speed the
ladder allows comes out of an integer root, rounded down, and the robot that
drives it through its reaction and brakes stays within the distance known to be
clear.

*Boundary.*  `StopDominates` is a race between two clocks, and its inductive
invariant `Guard` says who is ahead: the stop is allowed and either its timer
has more left than the next tick and its delay need, or a stop in flight will
be there in time; or the two processes have not run together long enough.
`Quiet` does the same for the timer and the observed silence, and `Heartbeat`
for the age of the last heartbeat between two ticks.

*Selection.*  `SteadyInv`: while the situation holds still, every change of
option is a climb in the order of the selector, so none leads back.

*Belief.*  `BeliefInv` adds that the rival never moved faster than the bound,
and speaks of rivals that kept off loops and of measurements that were not too
fine: a cell such a measurement leaves some point of is looked at in one of them
(`DroppingSees`).
The argument is about the graph: `Traced` says where a rival that was in a cell
may be after a walk of some length - near the cell on its edge, past a node
that the search of `_node_distances` reaches in time, or out at a frontier it
reaches; each unit of a walk keeps that (`TracedMoves`), and what is `Traced`
lies in the intervals the code computes (`ReachedIsCovered`).

*Routes.*  `ReuseInv` says that the trees kept are those of the graph that is
remembered and the starts those of the frame they are stamped with.  What a
search finds then depends on neither (`TriesAgree`).

*Signatures.*  `SignatureInv` adds that the answer is to a question that can be
asked; the argument is about lines, built up point by point (`WalksGrow`).  One
direction: a canonical line has no point that is passed straight on, and ends
where its motion ends, so from the last points of a motion one can tell its last
piece (`LastLegsSame`), then the one before it, and so on (`MotionTells`); and
making a line canonical does not change its motion (`CanonicalFacts`).  The
other: of what the robot passes, two neighbouring points lie on one piece only
(`StepIsUnique`, from `ApartAssumption`), so the steps can be read off the
motion, and are those of the pieces along which it goes (`LegsTell`).  What is
left of a route from a pose on goes along its pieces from some piece on
(`LeftIs`), so a piece that fits is found (`SomePieceFits`); and whichever fits,
what follows it is what is read off the motion (`FittingTells`), however many
edges of the route lie behind.

*Routes found.*  A node is closed when the queue no longer has it at its least
cost.  Because distances keep the triangle inequality and no edge is shorter
than the line between its ends, a closed node is final: what it cost, with the
heuristic, is no more than anything still in the queue (`Settled`), and it has
passed its cost on over every edge (`Relaxed`).  A cheaper way to a node would
have to leave the closed nodes over one that is open and comes first in the
queue (`WaysAreKnown`, over the length of ways).  The way back leads over closed
nodes (`Linked`), and of each more are closed than it has edges (`Rooted`), so
that following it ends.

*Topology.*  That edges can be driven follows from what a walk is (`Walk`,
`Walks`).  That they connect what is connected does not, since a trace takes one
way on only, may be lost, and what it has walked then is gone for good.
`TracingInv` says where that can happen.  A passage - no node, with neighbours
but no diagonal step - has two neighbours, and is walked from one to the other
or not at all (`Passed`), so that no trace is lost in one: what was walked in a
passage or from node to node is on an edge or on the trace (`NotLost`).  A trace
is lost only at corners of four free cells, and among these all nodes have
direct edges.  So take the nodes joined with one by edges, the passages on those
edges, and the corners around them: no step over free cells leaves that
(`NoStepLeaves`).  `JoinedWith` is shown to be the least closed set
(`JoinedIs`).

*Worker.*  The type invariant says that the request in flight is the last one
numbered; `InFlight` and `Overdue` say that a request that was answered is not
in flight, and that one reported as timed out is never taken over again.

*Map.*  Decays compound, so what one takes off depends on how many there were.
`FadeInv` says that it does not matter: a cell that a long decay has cleared
gets evidence from a return only, and a return sets the time anew from which
decays are reckoned.  That evidence lasts no more than `Lasts` half-lives needs
that powers of two grow (`PowersGrow`), which `PowersAre` shows of the recursive
function.

*Local map.*  `LocalMapInv` says only that the view is that of the cloud; the
argument is about the loop over the returns.  `Drawn` is its invariant: occupied
is exactly what was hit so far, and free is only what a ray crossed before any
cell hit so far.  That a nearer return cannot come later, so that "so far" is
enough, takes the order: `RanksAre` shows that the ranks of the valid returns
are all numbers below their count, each once (`OrderIs`).  The way ahead is free
because every column before it holds no hit in any row of the corridor and was
seen through on the row of the robot (`ClearAhead`).

*Contact.*  Each judgement is a calculation, and the proof is algebra.  How near
a point comes to a line is a square that is least before the start, at the foot
or past the end (`PointSegmentIs`).  That comparing the ends of two lines and
whether they cross is enough takes a movement: from any two near positions one
can move along both lines at once without moving apart - in parallel lines at an
even distance, otherwise straight towards each other - until an end of one is
met, where the distance of that end is compared (`FirstExit`, `EndsAreNear`), or
until both are at one point, where the lines cross (`CommonPoint`).

*Sight.*  `Grouped` is the invariant of the loop that makes groups of the beams
in ascending order: they hold all beams so far, each between the first and last
beam of its group, and groups that follow each other are further apart than the
gap allows.  The last and the first are then compared across the end of the
scan, which leaves every two clusters too far apart on both sides
(`ClustersAre`).  A body cannot leave the cluster of any of its beams, because
the beams of a cluster are closed under gaps that are not too wide.  A wall
hides a point when the fraction of the sight at which the lines meet is between
the ends of both; a cross product counts that fraction in parts of the sight
(`AcrossIsExact`), and along the sight everything is a multiple of its direction
(`AlongIsExact`).

*Rules.*  `GeometryInv` says only that a ruling is of the scene; the argument is
geometry without division, on the sides of lines that points lie on.  A sight
runs between a point of the guardian's way and one of the explorer's, so it lies
in the hull of the four ends (`SpanIsLeft`).  `HullIsAround` follows the chain
of one to four sorted points through all that can be cut back, and finds the hull
a point, a segment, a triangle or a quadrangle that turns left, around all of
them.  A wall that has a point in it meets an edge of it or ends inside, where
the crossings of a ray are odd (`EnvelopeHides`), so a wall that does neither is
off every sight of the interval.  For arrival the danger is contact along a
line, where the code reports an end of an edge.  At the first corner on such a
line the contour turns off it in one direction at least, or else the nearer of
the two neighbours would lie on the edge to the other, which a simple contour
rules out for four corners and more, and its area for three (`TangledCorner`).
The edge that turns off is touched at that corner, so that nothing of the
contour comes before the first touch (`TouchedBefore`).  The guard on simple
contours is needed: on one that folds back the fold is reported before the
places that lead to it.

*Duel.*  `DuelInv` says that, while an episode goes on, the stamp is that of
full steps and both managers were told it and nothing else, so that both have
the outcome that time alone gives; a fault leaves them there.

*Search.*  `SearchInv` adds that the finalist was better already in training,
and that nothing is validated before the last population is evaluated.  A
candidate is kept by what it gained in either role, and written for its gain in
both, so totals are shown to add up (`TotalAdds`).

*Fusion.*  `FusionInv` says only that the answer is that of the two models; the
argument is about sums.  The code compares, class by class, how much discounted
weight leads there; the property speaks of what an option is worth, which is a
sum over its endings.  `WorthIs` exchanges the two.  In one direction
differences within the tolerance then add up to no more than the tolerance
allows (`AlikeKeepsWorth`); in the other a worth of one class alone, of one more
than the tolerance, tells apart what differs by more (`WorthTellsApart`).

*Values.*  The code integrates the rewards of an option segment by segment, the
reference adds them up tick by tick; they agree because at most one segment of a
component pays in a tick (`TickIs`, `SegmentsAddUp`).  `LearningInv` says of every
value between which outcomes it lies, at every number of backups.  What a backup
aims at is an outcome of one option more (`TargetIsBetween`), a step towards it
stays between it and the value before (`StepStaysBetween`, with the rounding of
the model), and outcomes only grow with the number of backups (`OutcomesAre`), so
that values of other keys stay between theirs.  Outcomes are a recursive
function over finite sets; that each has a least and a greatest is
`ExtremesAre`.

Sums, powers and shortest walks need induction.  The induction theorems of the
library take an operator as parameter, so each of these proofs takes the least
counterexample instead (`LeastNumber`, from the well-foundedness of the
numbers), and works with functions where the specification folds or recurs.

Only model-checked: liveness (`OptionsEnd`, `StagesEnd`, `EpisodeEnds`,
`EveryRequestIsAnswered`), which is out of the reach of the prover used here.
Of the rest, every property of every passing run is proved.

## 5. Findings

Each is a run that TLC finds violated (`PROJECT.json`, `findings`): a statement
of a document or a comment of the repository that the code does not keep.

| Run | What is said | What happens |
|---|---|---|
| `stage_dismiss` | "it cannot erase an official terminal" (`HSL26_TECHNICAL_SPECIFICATION.md:555`) | dismissing an estimate adjudicates the officials once more, and replaces the terminal the organizer has set (`match.py:990`) |
| `stage_epoch_hold` | epoch changes "invalidate estimate holds" (`HSL26_PHASE5_IMPLEMENTATION_PLAN.md:237`) | with two estimates pending the hold stays raised for the rest of the stage (`match.py:1159`) |
| `stage_epoch_barrier` | epoch changes "additionally wait for map/world invalidation" (the same, `:240`) | a reset in between drops the epoch barrier (`match.py:1087`) |
| `mux_contract` | "Select the freshest highest-priority input" (`mux_contract.py:32`) | once the stop has timed out, whoever speaks first takes over from a fresh input of higher priority (`cmd_vel_mux.cpp:346`) |
| `policy_gap` | "Invalid/nonpositive time steps require reset/drop" (`HSL26_TECHNICAL_SPECIFICATION.md:823`) | after a gap longer than its prediction limit the filter raises out of the policy, in that frame and all that follow (`autonomous.py:679`) |
| `belief_loop` | "reachable support by graph path length" (`HSL26_SESSION_CHANGELOG.md:880`) | on an edge from a node to itself only the way to its second end is counted, and a rival that leaves by the first is in no cell (`topological_belief.py:410`) |

Observed while modelling, without a statement that a run could refute:

* The configuration of the local map does not say that the corridor is at least
  one cell wide; a narrower one may hold no row of cells, and the way ahead is
  then called clear with none looked at.
  `LocalMapAssumption` asks for the width.
* A measurement whose likelihood vanishes at both ends and the middle of the
  cell it points into drops that cell (`topological_belief.py:572`).  The
  variable `fine` of `TopologicalBelief` leaves such behaviours out.
* `OccupancyMapConfig` admits 0.5 for `max_probability`; every cell without
  evidence is then occupied.  `MapConfigValid` leaves it out.
* Of each source the cache of records knows the last record only.  When a
  session is heard again after another one, how far it had come is forgotten,
  and an old record of it is taken.  `NothingGoesBack` speaks of the time before.

## 6. Plan

Done, in this order: lease, option manager and stage manager with their
proofs; watchdog, mux and boundary with theirs; the policy as the composition
of the option side; belief, selection and worker; decision and records, the
records with a proof; duel and geometry; topology and routes; occupancy; search,
learning and fusion; the local map, contact, simulated perception and the
routes that are kept; then proofs of the policy over the manager's, and of
decision, duel, belief, kept routes, decay, local map and search; then of routes
found, values, fusion, contact, simulated perception, topology, rules and
signatures.

Worth doing next: a composition of policy and
stage manager, so that the frames come from a stage and not from a set; the
transition ledger with its files; circles and footprints in `RulesGeometry`.

## 7. Not modelled

* Perception geometry and the surface model, the hits of a ray on segments and
  circles, arcs, `regulated_pursuit.py`, the Gaussian estimate of the opponent
  filter, the utility score, interception times, the plant of the simulation,
  the statistics of its benchmark: real arithmetic with no control
  that a property could be about.  Where a model needs their result, it is
  nondeterministic.
* Contracts and data types: immutable values with their validation.  The
  models start from validated values.
* Codecs, manifests and their JSON lines, the audit journal, feedback texts,
  status messages: data that no decision reads.
* ROS bring-up, tools and the empty packages: they keep no state between calls.
* ROS transport internals and the vendor drivers below the multiplexer.

The reasons per part are in `PROJECT.json`, `components`.
