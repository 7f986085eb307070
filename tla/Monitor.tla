------------------------------- MODULE Monitor -------------------------------
(* The passive monitor (internal/monitor): which model really served each     *)
(* requested name, from the usage records the host delivers.  Record reads the*)
(* clock before it takes the mutex, so a record may be stored with any earlier*)
(* time.                                                                      *)
(*                                                                            *)
(* Left out: the display fields, and the sets of aliases and executed models. *)
EXTENDS Identity, Functions

CONSTANTS
  Usages,           \* what usage records say of the request: its model and alias
  ServedNames,      \* models responses may report
  MaxModels,        \* maxModels, 1000
  MaxServedModels,  \* maxServedModels, 8
  MaxTime,          \* bound on the clock
  MaxRequests       \* bound on an entry's records

ASSUME MonitorAssumption ==
  /\ MaxModels \in Nat \ {0} /\ MaxServedModels \in Nat \ {0}
  /\ MaxTime \in Nat /\ MaxRequests \in Nat
  /\ \A u \in Usages : DOMAIN u = {"model", "alias"} /\ u.model # <<>>

(* The name the client asked for; a record without alias has the empty one.   *)
RequestName(u) == IF u.alias # <<>> THEN u.alias ELSE u.model

Names == {RequestName(u) : u \in Usages}

(* Two names are acceptable: the executed model and the client's alias for it.*)
Accept(u) ==
  [accept |-> IF u.alias # <<>> THEN <<u.model, u.alias>> ELSE <<u.model>>,
   deny |-> <<>>, default |-> <<>>, rejectMissing |-> FALSE]

VARIABLES
  now,          \* the clock
  models,       \* Recorder.models
  truth         \* history: the usages and the models reported for them since
                \* each entry was made

vars == <<now, models, truth>>

NoCounts == [s \in {} |-> 0]

Fresh == [requests |-> 0, failed |-> 0, reported |-> 0, mismatches |-> 0,
          served |-> NoCounts, lastSeen |-> 0]

Init == now = 0 /\ models = [n \in {} |-> Fresh] /\ truth = [n \in {} |-> NoCounts]

Put(f, x, v) == [y \in DOMAIN f \cup {x} |-> IF y = x THEN v ELSE f[y]]

CountIn(f, x) == IF x \in DOMAIN f THEN f[x] ELSE 0

(* addServed: a new name beyond the limit takes the place of one of those     *)
(* counted least.  Faulty form: no limit.                                     *)
ServedUnlimited(served, s) == {Put(served, s, CountIn(served, s) + 1)}

ServedCounts(served, s) ==
  IF s \in DOMAIN served \/ Cardinality(DOMAIN served) < MaxServedModels
  THEN {Put(served, s, CountIn(served, s) + 1)}
  ELSE {Put(Restrict(served, DOMAIN served \ {v}), s, 1) :
          v \in {x \in DOMAIN served : \A y \in DOMAIN served : served[x] <= served[y]}}

(* evictOldest, when a new entry needs room.                                  *)
Evictions(name) ==
  IF name \in DOMAIN models \/ Cardinality(DOMAIN models) < MaxModels
  THEN {DOMAIN models}
  ELSE {DOMAIN models \ {v} :
          v \in {x \in DOMAIN models :
                   \A y \in DOMAIN models : models[x].lastSeen <= models[y].lastSeen}}

Entry(name) == IF name \in DOMAIN models THEN models[name] ELSE Fresh

Seen(name, t) == [Entry(name) EXCEPT !.requests = @ + 1, !.lastSeen = t]

(* A failed request, and one whose answer names no model.                     *)
RecordSilent(name, failed, t) ==
  /\ Entry(name).requests < MaxRequests
  /\ \E kept \in Evictions(name) :
       /\ models' = Put(Restrict(models, kept), name,
                        [Seen(name, t) EXCEPT !.failed = IF failed THEN @ + 1 ELSE @])
       /\ truth' = Put(Restrict(truth, kept), name,
                       IF name \in DOMAIN truth THEN truth[name] ELSE NoCounts)
  /\ UNCHANGED now

(* An answer that names a model.                                              *)
Mismatches(e, u, s) ==
  IF Check(Accept(u), s) = "mismatch" THEN e.mismatches + 1 ELSE e.mismatches

RecordServed(u, s, t) ==
  LET name == RequestName(u)
      known == IF name \in DOMAIN truth THEN truth[name] ELSE NoCounts
  IN
  /\ Entry(name).requests < MaxRequests
  /\ \E kept \in Evictions(name), counts \in ServedCounts(Entry(name).served, s) :
       /\ models' = Put(Restrict(models, kept), name,
                        [Seen(name, t) EXCEPT !.reported = @ + 1, !.served = counts,
                                              !.mismatches = Mismatches(Entry(name), u, s)])
       /\ truth' = Put(Restrict(truth, kept), name,
                       Put(known, <<u, s>>, CountIn(known, <<u, s>>) + 1))
  /\ UNCHANGED now

Reset == models' = [n \in {} |-> Fresh] /\ truth' = [n \in {} |-> NoCounts] /\ UNCHANGED now

Tick == now < MaxTime /\ now' = now + 1 /\ UNCHANGED <<models, truth>>

Next ==
  \/ \E u \in Usages, t \in 0..now :
       \/ \E failed \in BOOLEAN : RecordSilent(RequestName(u), failed, t)
       \/ \E s \in ServedNames : RecordServed(u, s, t)
  \/ Reset
  \/ Tick

Spec == Init /\ [][Next]_vars

-----------------------------------------------------------------------------
TypeOK ==
  /\ now \in 0..MaxTime
  /\ DOMAIN models \subseteq Names /\ Cardinality(DOMAIN models) <= MaxModels
  /\ DOMAIN truth = DOMAIN models
  /\ \A n \in DOMAIN models :
       LET e == models[n]
       IN  /\ e.requests \in 1..MaxRequests
           /\ e.failed \in Nat /\ e.reported \in Nat /\ e.mismatches \in Nat
           /\ DOMAIN e.served \subseteq ServedNames
           /\ Cardinality(DOMAIN e.served) <= MaxServedModels
           /\ \A s \in DOMAIN e.served : e.served[s] \in Nat \ {0}
           /\ e.lastSeen \in 0..now

Total(f, S) == MapThenSumSet(LAMBDA s : f[s], S)

(* The substitution rate the page shows is exact for the life of an entry,    *)
(* although names are dropped from its list of served models: it counts each  *)
(* answer that was neither the executed model nor what the client asked for,  *)
(* as the README defines the same model, and no other.  A listed name never   *)
(* shows more answers than there were.                                        *)
Substitution(x) == ~SameModel(x[1].model, x[2]) /\ ~SameModel(x[1].alias, x[2])

RateExact ==
  \A n \in DOMAIN models :
    LET e == models[n]
        seen == DOMAIN truth[n]
    IN  /\ e.reported = Total(truth[n], seen)
        /\ e.mismatches = Total(truth[n], {x \in seen : Substitution(x)})
        /\ e.reported + e.failed <= e.requests
        /\ \A s \in DOMAIN e.served :
             e.served[s] <= Total(truth[n], {x \in seen : x[2] = s})
==============================================================================
