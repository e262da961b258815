-------------------------- MODULE MCSafetyMatchMap --------------------------
(***************************************************************************)
(* Ten components that share no state, checked in one run: the watchdog    *)
(* machine, the decision of the safety supervisor and the records it       *)
(* relies on, an episode of two robots, the geometry of the rules, the     *)
(* extraction of the topology, the search of routes over it, what is       *)
(* learned from recorded options, when two states are taken for one, and   *)
(* the search for tactical parameters.  A behaviour is one of the          *)
(* component chosen in its first state; the others stand still.            *)
(***************************************************************************)
EXTENDS Watchdog, SafetyDecision, RecordGate, Duel, RulesGeometry,
        TopologyExtraction, RoutePlanning, OptionLearning, OptionFusion, PolicySearch

VARIABLE part   \* the component whose behaviour this is

MCInit ==
    /\ part \in {"watchdog", "decision", "records", "duel", "geometry", "topology", "routes",
                 "learning", "fusion", "search"}
    /\ WatchdogInit
    /\ DecisionInit
    /\ GateInit
    /\ DuelInit
    /\ GeometryInit
    /\ ExtractionInit
    /\ RouteInit
    /\ LearningInit
    /\ FusionInit
    /\ SearchInit

safetyVars == <<watchdogVars, decisionVars, gateVars>>
matchVars == <<duelVars, geometryVars>>
mapVars == <<extractionVars, routeVars>>
learnVars == <<learningVars, fusionVars, searchVars>>

MCNext ==
    /\ UNCHANGED part
    /\ \/ part = "watchdog" /\ WatchdogNext
          /\ UNCHANGED <<decisionVars, gateVars, matchVars, mapVars, learnVars>>
       \/ part = "decision" /\ DecisionNext
          /\ UNCHANGED <<watchdogVars, gateVars, matchVars, mapVars, learnVars>>
       \/ part = "records" /\ GateNext
          /\ UNCHANGED <<watchdogVars, decisionVars, matchVars, mapVars, learnVars>>
       \/ part = "duel" /\ DuelNext
          /\ UNCHANGED <<safetyVars, geometryVars, mapVars, learnVars>>
       \/ part = "geometry" /\ GeometryNext
          /\ UNCHANGED <<safetyVars, duelVars, mapVars, learnVars>>
       \/ part = "topology" /\ ExtractionNext
          /\ UNCHANGED <<safetyVars, matchVars, routeVars, learnVars>>
       \/ part = "routes" /\ RouteNext
          /\ UNCHANGED <<safetyVars, matchVars, extractionVars, learnVars>>
       \/ part = "learning" /\ LearningNext
          /\ UNCHANGED <<safetyVars, matchVars, mapVars, fusionVars, searchVars>>
       \/ part = "fusion" /\ FusionNext
          /\ UNCHANGED <<safetyVars, matchVars, mapVars, learningVars, searchVars>>
       \/ part = "search" /\ SearchNext
          /\ UNCHANGED <<safetyVars, matchVars, mapVars, learningVars, fusionVars>>

MCSpec ==
    /\ MCInit
    /\ [][MCNext]_<<part, safetyVars, matchVars, mapVars, learnVars>>
    /\ part = "duel" => DuelFairness

-----------------------------------------------------------------------------
(* What a snapshot may say.  Records of every age beside two views, and    *)
(* every view beside fresh records.                                        *)
Fresh == [candidate |-> 0, obstacles |-> 0, ego |-> 0, life |-> 2, behind |-> 0]

MCAges ==
    {Fresh} \cup {[Fresh EXCEPT !.candidate = a] : a \in {-1, 1, 3}}
    \cup {[Fresh EXCEPT !.obstacles = a] : a \in {-1, 1}}
    \cup {[Fresh EXCEPT !.ego = a] : a \in {-1, 1}}
    \cup {[Fresh EXCEPT !.life = 1], [Fresh EXCEPT !.behind = 1]}

NoView ==
    [v |-> 0, w |-> 0, ego |-> 0, egoTurn |-> 0, mode |-> "TRACK_PATH",
     ahead |-> 0, aheadSeen |-> TRUE, around |-> 0, aroundSeen |-> FALSE,
     arc |-> 0, arcSeen |-> FALSE, error |-> 0, period |-> 1]
Straight(v, e, d) == [NoView EXCEPT !.v = v, !.ego = e, !.ahead = d]
OnArc(v, w, d) ==
    [NoView EXCEPT !.v = v, !.w = w, !.ego = 1, !.ahead = 9, !.arc = d, !.arcSeen = TRUE]
OnTheSpot(w, t, d) ==
    [NoView EXCEPT !.w = w, !.egoTurn = t, !.mode = "ALIGN", !.around = d,
                   !.aroundSeen = TRUE]

MCViews ==
    {Straight(v, e, d) : v \in {1, 3}, e \in {0, 2}, d \in {2, 5, 9}}
    \cup {Straight(-1, 0, 9), Straight(1, -1, 9)}
    \cup {[Straight(1, 0, 9) EXCEPT !.mode = "HOLD", !.aheadSeen = s] : s \in BOOLEAN}
    \cup {OnArc(v, w, d) : v \in {1, 3}, w \in {-1, 2}, d \in {2, 9}}
    \cup {OnArc(0, 1, 9), [OnArc(1, 1, 9) EXCEPT !.arcSeen = FALSE],
          [OnArc(1, 1, 9) EXCEPT !.ego = 0]}
    \cup {OnTheSpot(w, t, d) : w \in {1, -2}, t \in {0, 1}, d \in {2, 4}}
    \cup {[OnTheSpot(1, 0, 4) EXCEPT !.v = 1],
          [OnTheSpot(1, 0, 4) EXCEPT !.aroundSeen = FALSE],
          [OnTheSpot(1, 0, 4) EXCEPT !.ego = 2], [OnTheSpot(1, 0, 4) EXCEPT !.error = 3]}

MCInputs ==
    [view : MCViews, age : {Fresh}]
    \cup [view : {Straight(1, 0, 9), OnTheSpot(1, 0, 4)}, age : MCAges]

(* Two robots near a wall: it stands between them, lies along their way,   *)
(* hides inside the envelope of a step, touches it at a corner, or is      *)
(* passed on the way.                                                      *)
U == Instants
MCDuels ==
    [g0 : {<<0, 0>>}, g1 : {<<0, 0>>, <<U, 0>>, <<U, U>>},
     e0 : {<<U * x, U * y>> : x \in 0..2, y \in 0..2},
     e1 : {<<U * x, U * y>> : x \in 0..2, y \in 0..2},
     heading : {<<1, 0>>, <<0, 1>>},
     wall : {<<<<U, 0>>, <<U, U>>>>, <<<<U, 0>>, <<2 * U, 0>>>>, <<<<3, 2>>, <<5, 2>>>>,
             <<<<6, 7>>, <<9, 9>>>>, <<<<10, 3>>, <<10, 5>>>>}]

(* Moves over a grid towards a square, from two corners of it, towards an  *)
(* L, and towards a contour that folds back and is refused.                *)
MCArrivals ==
    [from : (0..4) \X (0..4), to : (0..4) \X (0..4),
     contour : {<<<<1, 1>>, <<3, 1>>, <<3, 3>>, <<1, 3>>>>,
                <<<<3, 3>>, <<1, 3>>, <<1, 1>>, <<3, 1>>>>,
                <<<<1, 1>>, <<3, 1>>, <<3, 2>>, <<2, 2>>, <<2, 3>>, <<1, 3>>>>,
                <<<<1, 1>>, <<4, 1>>, <<2, 1>>, <<2, 3>>>>}]

(* Maps with at least seven free cells, and at most one corner unseen.     *)
MCGrids ==
    {g \in [GridCells -> CoverageStates] :
        /\ \A c \in GridCells \ {<<0, 0>>} : g[c] # "UNKNOWN"
        /\ Cardinality({c \in GridCells : g[c] = "OBSERVED_FREE"}) >= 7}

(* Three corners of a rectangle of 6 by 8 and its centre, with two edges   *)
(* between the centre and the far corner.                                  *)
MCPlaces == <<<<0, 0>>, <<6, 0>>, <<6, 8>>, <<3, 4>>>>
MCDistance ==
    [p \in (1..4) \X (1..4) |->
        CHOOSE d \in 0..10 : d * d = Apart(MCPlaces[p[1]], MCPlaces[p[2]])]
MCEnds == <<<<1, 3>>, <<1, 4>>, <<1, 2>>, <<3, 4>>, <<2, 3>>, <<4, 3>>>>

Road(state, extra, costed, charge) ==
    [state |-> state, extra |-> extra, costed |-> costed, charge |-> charge]
Cheap == Road("OPEN", 1, TRUE, 0)
MCEdges ==
    {Road("OPEN", 0, FALSE, 0), Road("UNKNOWN", 1, TRUE, 6), Road("BLOCKED", 0, FALSE, 0), Cheap}
MCOverlays ==
    {g \in [EdgeIds -> MCEdges] : Cardinality({e \in EdgeIds : g[e] = Cheap}) <= 1}

Anything == {"OPEN", "UNKNOWN"}
MCQueries ==
    [kind : {"ASTAR", "DIJKSTRA"}, start : {1}, goal : {3}, allowed : {Anything}]
    \cup [kind : {"ASTAR"}, start : {1}, goal : {1}, allowed : {Anything}]
    \cup [kind : {"TREE"}, start : {1}, goal : {1}, allowed : {Anything, {"OPEN"}}]

(* Records of a collector.  A short option that leads on, one that ends    *)
(* the stage, one that can be repeated for a reward, one cut off, and ones *)
(* that are wrong or come from elsewhere.                                  *)
Seen(value) == [schema |-> "s", role |-> "explorer", value |-> value, bin |-> IF value < 2 THEN 0 ELSE 1]
Pays(start, end, rate) == [start |-> start, end |-> end, rate |-> rate]
Earned(id, segments, impulse) == [id |-> id, segments |-> segments, impulse |-> impulse]
InBanks(map, rest) == [map |-> map, opponent |-> rest, seed |-> rest]

Onward ==
    [episode |-> 1, instance |-> 1, role |-> "explorer", input |-> Seen(1), kind |-> "go",
     duration |-> 1, outcome |-> TRUE, terminal |-> FALSE, next |-> Seen(3), options |-> {"go"},
     rewards |-> <<Earned("time", <<Pays(0, 1, -2)>>, 0)>>,
     banks |-> InBanks("a", "a"), profile |-> "p", censoring |-> "complete"]
Finishing ==
    [Onward EXCEPT !.instance = 2, !.input = Seen(3), !.duration = 2, !.terminal = TRUE,
        !.next = Nowhere, !.options = {},
        !.rewards = <<Earned("time", <<Pays(0, 1, -2), Pays(1, 2, 4)>>, 0),
                      Earned("goal", <<>>, 3)>>]
Staying ==
    [Onward EXCEPT !.instance = 3, !.input = Seen(2), !.kind = "stay", !.options = {"go", "stay"},
        !.rewards = <<Earned("goal", <<>>, 4)>>]
CutOff ==
    [Finishing EXCEPT !.instance = 4, !.outcome = FALSE, !.terminal = FALSE,
        !.censoring = "truncated"]
HeldOut ==
    [Finishing EXCEPT !.episode = 2, !.banks = InBanks("h", "h"),
        !.rewards = <<Earned("goal", <<>>, 9)>>]

MCRecords ==
    {Onward, Finishing, Staying, CutOff, HeldOut,
     [HeldOut EXCEPT !.episode = 1, !.instance = 5], [HeldOut EXCEPT !.banks = InBanks("h", "a")],
     [Onward EXCEPT !.input.bin = 1], [Onward EXCEPT !.next.role = "guardian"],
     [Onward EXCEPT !.next = Nowhere, !.options = {}, !.terminal = TRUE,
        !.rewards = <<Earned("time", <<Pays(0, 2, 5)>>, 0)>>],
     [Onward EXCEPT !.rewards = <<Earned("time", <<Pays(0, 1, 5), Pays(0, 1, 5)>>, 0)>>],
     [Onward EXCEPT !.profile = "q"]}

MCSplits == [k \in BankKinds |-> [a |-> "training", h |-> "held_out"]]

(* Ways an option may end: for sure, spread evenly about the same time,    *)
(* and a little or a lot apart from these; the last two are none.          *)
Ending(weight, duration, reward, next) ==
    [weight |-> weight, duration |-> duration, reward |-> reward, next |-> next]
Sure == <<Ending(4, 1, 0, "x")>>
Spread == <<Ending(2, 0, 0, "x"), Ending(2, 2, 0, "x")>>
MCKernels ==
    {Sure, Spread, <<Ending(3, 1, 0, "x"), Ending(1, 1, 0, "x")>>,
     <<Ending(3, 1, 0, "x"), Ending(1, 2, 0, "x")>>, <<Ending(2, 1, 0, "x"), Ending(2, 1, 0, "y")>>,
     <<Ending(4, 1, 1, "x")>>, <<Ending(1, 1, 1, "x"), Ending(3, 1, 0, "x")>>, <<Ending(3, 1, 0, "x")>>,
     <<>>}
MCModels ==
    [exact : BOOLEAN,
     kernels : [{"go"} -> MCKernels] \cup [{"go", "stay"} -> {Sure, Spread}]
                 \cup [{} -> {Sure}]]
MCWorths == {-3, -2, -1, 0, 1, 2, 3}

(* Episodes the guardian wins and loses; the explorer of the first is      *)
(* overruled once.                                                         *)
Contest(gain, overruled) ==
    [gain |-> gain, overrides |-> [guardian |-> 0, explorer |-> overruled], unsafe |-> {}]
MCEpisodes == {Contest(1, 1), Contest(-1, 0)}

(* The baseline as guardian loses to itself, but once.                     *)
MCReferences ==
    [n \in 0..2 |-> [i \in 1..2 |-> IF n = 2 /\ i = 2 THEN Contest(1, 1) ELSE Contest(-1, 0)]]

(* Children of four genomes: some seeds give what is there already.        *)
MCChild ==
    [g \in Genomes |-> [n \in 0..9 |->
        CASE g = 0 /\ n = 1 -> 1
          [] g = 0 /\ n = 4 -> 0
          [] g = 0 /\ n \notin {1, 4} -> 2
          [] g # 0 /\ n % 2 = 0 -> 3
          [] OTHER -> g]]
=============================================================================
