------------------------------ MODULE RecordGate ------------------------------
(***************************************************************************)
(* What the safety side makes of the records of others: ValidatedCache,    *)
(* the checks of _validate_meta and validate_authority_context, all of     *)
(* hsl_safety/adapters.py.  Each source is a process that stamps, numbers  *)
(* and publishes its records, crashes, and starts again under another      *)
(* session; what it has published may come late, twice, in any order or    *)
(* not at all.                                                             *)
(*                                                                         *)
(* One clock counts for all.  As in SafetyDecision, one number, the        *)
(* identity, stands for stage, epochs, versions and lease generation.      *)
(***************************************************************************)
EXTENDS Integers

CONSTANTS
    Publishers,     \* whose records are relied on: execution, match, watchdog
    RecordLease,    \* from publication_stamp to valid_until
    Delay,          \* the largest age of an observation when it is published
    Downtime,       \* the least time from a crash to the next session
    Unknown,        \* no record
    LastTime,       \* bound: the clock
    LastSession,    \* bound: sessions of a source
    LastSeq,        \* bound: records of a session
    LastInForce     \* bound: identities of a behaviour

Times == 0..LastTime
HeardType ==
    [session : 1..LastSession, seq : 0..LastSeq, observed : Times, published : Times,
     identity : 1..LastInForce, granted : BOOLEAN]

(* A process takes at least as long to start again as its records are      *)
(* valid, and as old as what it observes may be.                           *)
ASSUME GateAssumption ==
    /\ {RecordLease, LastSession, LastInForce} \subseteq Nat \ {0}
    /\ {Delay, LastTime, LastSeq} \subseteq Nat
    /\ Downtime \in Nat /\ Downtime >= RecordLease /\ Downtime >= Delay
    /\ Unknown \notin HeardType

VARIABLES
    time,
    inForce,    \* identity in force
    sources,    \* session, time of the last crash, seq and stamp of the last record
    wire,       \* all that was published
    cache,      \* one ValidatedCache of each source
    newest,     \* history: the latest observation that was ever in the cache
    former,     \* history: sessions that were in the cache and then replaced
    resumed     \* history: sources of which a former session came again

gateVars == <<time, inForce, sources, wire, cache, newest, former, resumed>>

GateInit ==
    /\ time = 0
    /\ inForce = 1
    /\ sources = [s \in Publishers |-> [session |-> 1, up |-> TRUE, crashed |-> 0,
                                     seq |-> -1, observed |-> -1]]
    /\ wire = [s \in Publishers |-> {}]
    /\ cache = [s \in Publishers |-> Unknown]
    /\ newest = [s \in Publishers |-> -1]
    /\ former = [s \in Publishers |-> {}]
    /\ resumed = {}

-----------------------------------------------------------------------------
(* The sources, and what goes on around.                                   *)

(* A record of something new, that grants authority or does not.  A source *)
(* may not know the identity in force yet.                                 *)
Publish(s) ==
    /\ sources[s].up /\ sources[s].seq < LastSeq
    /\ \E observed \in {t \in time - Delay .. time : t > sources[s].observed /\ t >= 0},
          known \in 1..inForce, granted \in BOOLEAN :
          /\ wire' = [wire EXCEPT ![s] = @ \cup
                {[session |-> sources[s].session, seq |-> sources[s].seq + 1,
                  observed |-> observed, published |-> time, identity |-> known,
                  granted |-> granted]}]
          /\ sources' = [sources EXCEPT ![s].seq = @ + 1, ![s].observed = observed]
    /\ UNCHANGED <<time, inForce, cache, newest, former, resumed>>

Crash(s) ==
    /\ sources[s].up /\ sources[s].session < LastSession
    /\ sources' = [sources EXCEPT ![s].up = FALSE, ![s].crashed = time]
    /\ UNCHANGED <<time, inForce, wire, cache, newest, former, resumed>>

StartAgain(s) ==
    /\ ~sources[s].up /\ time >= sources[s].crashed + Downtime
    /\ sources' = [sources EXCEPT ![s] = [session |-> @.session + 1, up |-> TRUE,
                                          crashed |-> time, seq |-> -1, observed |-> -1]]
    /\ UNCHANGED <<time, inForce, wire, cache, newest, former, resumed>>

GateTick ==
    /\ time < LastTime
    /\ time' = time + 1
    /\ UNCHANGED <<inForce, sources, wire, cache, newest, former, resumed>>

NewIdentity ==
    /\ inForce < LastInForce
    /\ inForce' = inForce + 1
    /\ UNCHANGED <<time, sources, wire, cache, newest, former, resumed>>

-----------------------------------------------------------------------------
(* ValidatedCache.replace does not raise.                                  *)
Replaces(s, r) ==
    cache[s] # Unknown /\ cache[s].session = r.session =>
        r.seq > cache[s].seq /\ r.observed > cache[s].observed

Receive(s, r) ==
    /\ Replaces(s, r)
    /\ cache' = [cache EXCEPT ![s] = r]
    /\ newest' = [newest EXCEPT ![s] = IF r.observed > @ THEN r.observed ELSE @]
    /\ former' = [former EXCEPT ![s] =
           IF cache[s] = Unknown \/ cache[s].session = r.session THEN @
           ELSE @ \cup {cache[s].session}]
    /\ resumed' = IF r.session \in former'[s] THEN resumed \cup {s} ELSE resumed
    /\ UNCHANGED <<time, inForce, sources, wire>>

(* As ValidMeta, of a record that is believed for ever.                    *)
ValidUnbounded(r) == r.identity = inForce /\ r.published <= time

(* _validate_meta does not raise.                                          *)
ValidMeta(r) ==
    r.identity = inForce /\ r.published <= time /\ time < r.published + RecordLease

(* validate_authority_context, of what is in the caches, does not raise.   *)
AuthorityGranted ==
    \A s \in Publishers : cache[s] # Unknown /\ ValidMeta(cache[s]) /\ cache[s].granted

GateNext ==
    \/ \E s \in Publishers :
          \/ Publish(s)
          \/ Crash(s)
          \/ StartAgain(s)
          \/ \E r \in wire[s] : Receive(s, r)
    \/ GateTick
    \/ NewIdentity

GateSpec == GateInit /\ [][GateNext]_gateVars

-----------------------------------------------------------------------------
(* A withdrawal that has been heard is not forgotten: whatever comes late, *)
(* twice or out of order, and however the sources crash, authority is      *)
(* never read from a record older than one that was in the cache before.   *)
(* This holds until a session is heard again after another session; then   *)
(* the cache has forgotten how far the first had come.                     *)
NothingGoesBack ==
    AuthorityGranted /\ resumed = {} => \A s \in Publishers : cache[s].observed = newest[s]
=============================================================================
