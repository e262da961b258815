--------------------------- MODULE ExecutionLease ---------------------------
(***************************************************************************)
(* The single-writer lease of hsl_core/planning/execution.py: the gate     *)
(* every motion candidate passes before it can reach the safety            *)
(* supervisor.  A call takes the lease's lock for all of its body, so each *)
(* operation is one atomic change of the record `lease'.  A guard Can...   *)
(* is false where the method raises ValueError; a raising call leaves the  *)
(* lease as it was.                                                        *)
(*                                                                         *)
(* The map and topology versions of a path travel together and are one     *)
(* `version'; the envelope's candidate and path carry the same version and *)
(* epoch, as control/regulated_pursuit.make_candidate builds them.         *)
(***************************************************************************)
EXTENDS Naturals

CONSTANTS
    Instances,      \* option_instance_id values
    Versions,       \* map and topology versions
    Epochs,         \* localization epochs
    Nobody,         \* the empty option_instance_id
    MaxGeneration   \* bound: generations handed out in one behaviour

ASSUME LeaseAssumption ==
    /\ Nobody \notin Instances \cup Versions \cup Epochs
    /\ MaxGeneration \in Nat \ {0}

VARIABLE lease

Expectations == [version : Versions, epoch : Epochs]

(* expected_* are None until the first activation.                         *)
NoExpectation == [version |-> Nobody, epoch |-> Nobody]

Leases ==
    [generation : 0..MaxGeneration,
     cancelled  : SUBSET Instances,
     owner      : Instances \cup {Nobody},
     authorized : BOOLEAN,
     expected   : Expectations \cup {NoExpectation}]

(* A candidate on its way to the gate.  It may be delayed, duplicated or   *)
(* reordered without limit, so nothing is said of where it is: the         *)
(* properties quantify over all envelopes.                                 *)
Envelopes ==
    [inst : Instances, gen : 1..MaxGeneration, version : Versions,
     epoch : Epochs, validUntil : Nat]

InitialLease ==
    [generation |-> 0, cancelled |-> {}, owner |-> Nobody,
     authorized |-> FALSE, expected |-> NoExpectation]

CanActivate(l, i) ==
    /\ l.owner = Nobody \/ (l.owner # i /\ l.owner \in l.cancelled)
    /\ i \notin l.cancelled

(* An activation after which a cancelled option counts as new again.       *)
ActivatedForgetting(l, i, auth, exp) ==
    [l EXCEPT !.generation = @ + 1, !.owner = i, !.authorized = auth,
              !.expected = exp, !.cancelled = @ \ {l.owner}]

(* An activation that binds the versions but not the localization epoch.   *)
ActivatedUnpaired(l, i, auth, exp) ==
    [l EXCEPT !.generation = @ + 1, !.owner = i, !.authorized = auth,
              !.expected = [version |-> exp.version, epoch |-> Nobody]]

Activated(l, i, auth, exp) ==
    [l EXCEPT !.generation = @ + 1, !.owner = i, !.authorized = auth,
              !.expected = exp]

(* A cancel() that only records the option.                                *)
RevokedKeepingAuthority(l, i) == [l EXCEPT !.cancelled = @ \cup {i}]

Revoked(l, i) ==
    [l EXCEPT !.cancelled = @ \cup {i},
              !.authorized = @ /\ l.owner # i]

CanSetAuthority(l, i, g, auth) ==
    /\ g = l.generation
    /\ i = l.owner
    /\ ~(auth /\ i \in l.cancelled)

WithAuthority(l, auth) == [l EXCEPT !.authorized = auth]

CanAdvance(l, i, g) ==
    /\ g = l.generation
    /\ i = l.owner
    /\ i \notin l.cancelled
    /\ ~l.authorized

Advanced(l) == [l EXCEPT !.generation = @ + 1]

(* admit() returns the candidate: it reads the lease and changes nothing.  *)
Admits(l, e, now) ==
    /\ e.gen = l.generation
    /\ e.inst \notin l.cancelled
    /\ e.inst = l.owner
    /\ l.authorized
    /\ now < e.validUntil
    /\ l.expected # NoExpectation =>
          l.expected = [version |-> e.version, epoch |-> e.epoch]

-----------------------------------------------------------------------------
(* The lease on its own, under callers that follow no protocol: any        *)
(* thread may make any call at any time.                                   *)

Activate(i, auth, exp) ==
    /\ lease.generation < MaxGeneration
    /\ CanActivate(lease, i)
    /\ lease' = Activated(lease, i, auth, exp)

Cancel(i) == lease' = Revoked(lease, i)

SetCandidateAuthorized(i, g, auth) ==
    /\ CanSetAuthority(lease, i, g, auth)
    /\ lease' = WithAuthority(lease, auth)

AdvanceGeneration(i, g) ==
    /\ lease.generation < MaxGeneration
    /\ CanAdvance(lease, i, g)
    /\ lease' = Advanced(lease)

LeaseInit == lease = InitialLease

LeaseNext ==
    \E i \in Instances :
        \/ \E auth \in BOOLEAN, exp \in Expectations \cup {NoExpectation} :
              Activate(i, auth, exp)
        \/ Cancel(i)
        \/ \E g \in 0..MaxGeneration, auth \in BOOLEAN :
              SetCandidateAuthorized(i, g, auth)
        \/ \E g \in 0..MaxGeneration : AdvanceGeneration(i, g)

LeaseSpec == LeaseInit /\ [][LeaseNext]_lease

-----------------------------------------------------------------------------
(* The record `lease' holds what the object's attributes can hold.         *)
LeaseTypeOK == lease \in Leases

(* A lease that somebody authorised belongs to an option nobody cancelled: *)
(* cancel() takes the authority with it, and no later call gives it back.  *)
AuthorityIsUncancelled ==
    lease.authorized => lease.owner \in Instances \ lease.cancelled

(* cancel() is final and a generation is fenced for good: a candidate the  *)
(* lease refuses because its option was cancelled, or because its          *)
(* generation is over, is refused in every later state as well, whoever    *)
(* calls activate, set_candidate_authorized or advance_generation next.    *)
Fenced(l, i, g) == i \in l.cancelled \/ g < l.generation
FencesHold ==
    [][\A i \in Instances, g \in 1..MaxGeneration :
          Fenced(lease, i, g) =>
              /\ Fenced(lease', i, g)
              /\ \A v \in Versions, e \in Epochs :
                    ~Admits(lease', [inst |-> i, gen |-> g, version |-> v,
                                     epoch |-> e, validUntil |-> 1], 0)
      ]_lease
=============================================================================
