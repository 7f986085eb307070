--------------------------- MODULE RoutingProofs -----------------------------
(* The routing engine implements module Routing: a proof of the refinement,   *)
(* for any configurations, requests, replies and bounds.  Then what rests on  *)
(* how calls fit the configuration they run under: no substituted answer is   *)
(* delivered, no request meets a clash of groups, the active counter balances,*)
(* round-robin is even, the cooldown table evolves as module Cooldown says,   *)
(* and every variable keeps its type.                                         *)
EXTENDS EngineProofs

(* Views are records, whatever their fields hold: a record of their fields is *)
(* the view of its values.                                                    *)
LEMMA SeenWhole ==
  ASSUME NEW a, NEW b, NEW c, NEW d, NEW u,
         u = [k \in DOMAIN u |-> u[k]],
         DOMAIN u = {"phase", "calls", "asked", "outcome"},
         u.phase = a, u.calls = b, u.asked = c, u.outcome = d
  PROVE  u = Seen(a, b, c, d)
  BY DEF Seen

LEMMA SeenParts ==
  ASSUME NEW v, v = Seen(v.phase, v.calls, v.asked, v.outcome)
  PROVE  /\ v = [k \in DOMAIN v |-> v[k]]
         /\ DOMAIN v = {"phase", "calls", "asked", "outcome"}
  BY DEF Seen

LEMMA PhaseSet ==
  ASSUME NEW v, v = Seen(v.phase, v.calls, v.asked, v.outcome), NEW x
  PROVE  [v EXCEPT !.phase = x] = Seen(x, v.calls, v.asked, v.outcome)
<1> DEFINE u == [v EXCEPT !.phase = x]
<1>1. /\ u = [k \in DOMAIN u |-> u[k]]
      /\ DOMAIN u = {"phase", "calls", "asked", "outcome"}
      /\ u.phase = x /\ u.calls = v.calls /\ u.asked = v.asked /\ u.outcome = v.outcome
  BY SeenParts
<1> HIDE DEF u
<1>2. u = Seen(x, v.calls, v.asked, v.outcome)
  BY <1>1, SeenWhole
<1>3. QED  BY <1>2 DEF u

LEMMA CallSet ==
  ASSUME NEW v, v = Seen(v.phase, v.calls, v.asked, v.outcome), NEW x, NEW y
  PROVE  [v EXCEPT !.calls = x, !.asked = y] = Seen(v.phase, x, y, v.outcome)
<1> DEFINE u == [v EXCEPT !.calls = x, !.asked = y]
<1>1. /\ u = [k \in DOMAIN u |-> u[k]]
      /\ DOMAIN u = {"phase", "calls", "asked", "outcome"}
      /\ u.phase = v.phase /\ u.calls = x /\ u.asked = y /\ u.outcome = v.outcome
  BY SeenParts
<1> HIDE DEF u
<1>2. u = Seen(v.phase, x, y, v.outcome)
  BY <1>1, SeenWhole
<1>3. QED  BY <1>2 DEF u

LEMMA OutcomeSet ==
  ASSUME NEW v, v = Seen(v.phase, v.calls, v.asked, v.outcome), NEW x, NEW y
  PROVE  [v EXCEPT !.phase = x, !.outcome = y] = Seen(x, v.calls, v.asked, y)
<1> DEFINE u == [v EXCEPT !.phase = x, !.outcome = y]
<1>1. /\ u = [k \in DOMAIN u |-> u[k]]
      /\ DOMAIN u = {"phase", "calls", "asked", "outcome"}
      /\ u.phase = x /\ u.calls = v.calls /\ u.asked = v.asked /\ u.outcome = y
  BY SeenParts
<1> HIDE DEF u
<1>2. u = Seen(x, v.calls, v.asked, y)
  BY <1>1, SeenWhole
<1>3. QED  BY <1>2 DEF u

LEMMA SaidWhole ==
  ASSUME NEW e, NEW f, NEW g, NEW u,
         u = [k \in DOMAIN u |-> u[k]],
         DOMAIN u = {"type", "code", "by"},
         u.type = e, u.code = f, u.by = g
  PROVE  u = Said(e, f, g)
  BY DEF Said

LEMMA SaidAgain ==
  ASSUME NEW a
  PROVE  /\ \A kind : [Client!None EXCEPT !.type = kind, !.by = a] = Said(kind, "", a)
         /\ \A code : [Client!None EXCEPT !.type = "failed", !.code = code] =
                        Said("failed", code, Nothing)
<1> DEFINE fields == {"type", "code", "by"}
           v == Client!None
<1>2. /\ v = [k \in DOMAIN v |-> v[k]] /\ DOMAIN v = fields
      /\ v.type = "none" /\ v.code = "" /\ v.by = Nothing
  BY DEF Client!None
<1> HIDE DEF v
<1>3. ASSUME NEW kind
      PROVE  [v EXCEPT !.type = kind, !.by = a] = Said(kind, "", a)
  <2> DEFINE u == [v EXCEPT !.type = kind, !.by = a]
  <2>1. /\ u = [k \in DOMAIN u |-> u[k]] /\ DOMAIN u = fields
        /\ u.type = kind /\ u.code = "" /\ u.by = a
    BY <1>2
  <2> HIDE DEF u
  <2>2. u = Said(u.type, u.code, u.by)
    BY <2>1, SaidWhole DEF fields
  <2>3. u = Said(kind, "", a)
    BY <2>1, <2>2
  <2>4. QED  BY <2>3 DEF u
<1>4. ASSUME NEW code
      PROVE  [v EXCEPT !.type = "failed", !.code = code] = Said("failed", code, Nothing)
  <2> DEFINE u == [v EXCEPT !.type = "failed", !.code = code]
  <2>1. /\ u = [k \in DOMAIN u |-> u[k]] /\ DOMAIN u = fields
        /\ u.type = "failed" /\ u.code = code /\ u.by = Nothing
    BY <1>2
  <2> HIDE DEF u
  <2>2. u = Said("failed", code, Nothing)
    BY <2>1, SaidWhole
  <2>3. QED  BY <2>2 DEF u
<1>5. QED  BY <1>3, <1>4 DEF v

(* A step of one request is a step of Routing, or none.                       *)
LEMMA MovesRefine ==
  ASSUME IInv, NEW r \in Requests, NEW p, Moves(r, p)
  PROVE  Routed' = Routed \/ Client!Next
<1> DEFINE v == View(req[r])
           w == View(p)
<1>1. /\ Routed = [k \in Requests |-> View(req[k])]
      /\ Routed' = [k \in Requests |-> View(req'[k])]
  BY DEF Routed
<1>2. \A k \in Requests : req'[k] = IF k = r THEN p ELSE req[k]
  BY DEF Moves, IInv
<1>3. Routed[r] = v
  BY <1>1
<1>4. \A k \in Requests : Routed'[k] = IF k = r THEN w ELSE Routed[k]
  BY <1>1, <1>2
<1>5. Routed' = [Routed EXCEPT ![r] = w]
  BY <1>1, <1>4
<1>6. v = Seen(v.phase, v.calls, v.asked, v.outcome)
  BY DEF View, Seen
<1>7. Advances(v, w)
  BY DEF Moves
<1> HIDE DEF v, w
<1>8. CASE w = v
  <2>1. Routed' = Routed
    BY <1>1, <1>3, <1>5, <1>8
  <2>2. QED  BY <2>1
<1>9. CASE v.phase = "idle" /\ w = Seen("running", v.calls, v.asked, v.outcome)
  <2>1. [v EXCEPT !.phase = "running"] = w
    BY <1>6, <1>9, PhaseSet
  <2>2. Routed' = [Routed EXCEPT ![r].phase = "running"]
    BY <1>3, <1>5, <2>1
  <2>3. Client!Take(r)
    BY <1>3, <1>9, <2>2 DEF Client!Take
  <2>4. QED  BY <2>3 DEF Client!Next
<1>10. ASSUME NEW m \in Names, v.phase = "running", v.calls < SafetyBudget,
              w = Seen("running", v.calls + 1, m, v.outcome)
       PROVE  Client!Next
  <2>1. [v EXCEPT !.calls = v.calls + 1, !.asked = m] = w
    BY <1>6, <1>10, CallSet
  <2>2. Client!Ask(r, m)
    BY <1>3, <1>5, <1>10, <2>1 DEF Client!Ask
  <2>3. QED  BY <2>2 DEF Client!Next
<1>11. ASSUME NEW o, v.phase = "running", Settlement(v, o),
              w = Seen("final", v.calls, v.asked, o)
       PROVE  Client!Next
  <2>1. \A x : [v EXCEPT !.phase = "final", !.outcome = x] =
                  Seen("final", v.calls, v.asked, x)
    BY <1>6, OutcomeSet
  <2>2. Client!Settle(r, o)
    BY <1>3, <1>5, <1>11, <2>1 DEF Client!Settle
  <2>3. CASE \E type \in {"delivered", "broken"} :
               v.calls > 0 /\ o = Said(type, "", v.asked)
    <3>1. PICK type \in {"delivered", "broken"} :
            v.calls > 0 /\ o = Said(type, "", v.asked)
      BY <2>3
    <3>2. o = [Client!None EXCEPT !.type = type, !.by = Routed[r].asked]
      BY <1>3, <3>1, SaidAgain
    <3>3. Client!Deliver(r, type)
      BY <1>3, <2>2, <3>1, <3>2 DEF Client!Deliver
    <3>4. QED  BY <3>3 DEF Client!Next
  <2>4. CASE \E code \in EngineCodes \cup {"upstream_error"} :
               (code = "upstream_error" => v.calls > 0) /\ o = Said("failed", code, Nothing)
    <3>1. PICK code \in EngineCodes \cup {"upstream_error"} :
            (code = "upstream_error" => v.calls > 0) /\ o = Said("failed", code, Nothing)
      BY <2>4
    <3>2. o = [Client!None EXCEPT !.type = "failed", !.code = code]
      BY <3>1, SaidAgain
    <3>3. Client!Refuse(r, code)
      BY <1>3, <2>2, <3>1, <3>2 DEF Client!Refuse
    <3>4. QED  BY <3>1, <3>3 DEF Client!Next
  <2>5. QED  BY <1>11, <2>3, <2>4 DEF Settlement
<1>12. CASE v.phase = "final" /\ w = Seen("done", v.calls, v.asked, v.outcome)
  <2>1. [v EXCEPT !.phase = "done"] = w
    BY <1>6, <1>12, PhaseSet
  <2>2. Routed' = [Routed EXCEPT ![r].phase = "done"]
    BY <1>3, <1>5, <2>1
  <2>3. Client!Close(r)
    BY <1>3, <1>12, <2>2 DEF Client!Close
  <2>4. QED  BY <2>3 DEF Client!Next
<1>13. QED  BY <1>7, <1>8, <1>9, <1>10, <1>11, <1>12 DEF Advances

LEMMA InitRefines ==
  ASSUME Init
  PROVE  Client!Init
<1>1. req = [r \in Requests |-> Request]
  BY DEF Init
<1>2. View(Request) = [phase |-> "idle", calls |-> 0, asked |-> Nothing,
                       outcome |-> Client!None]
  <2>1. /\ Request.pc = "idle" /\ Request.spent = 0 /\ Request.asked = Nothing
    BY DEF Request
  <2>2. Phase(Request) = "idle"
    BY <2>1 DEF Phase
  <2>3. QED  BY <2>1, <2>2 DEF View, Outcome, NoAnswer, Client!None
<1>3. Routed = [r \in Requests |-> [phase |-> "idle", calls |-> 0, asked |-> Nothing,
                                    outcome |-> Client!None]]
  BY <1>1, <1>2 DEF Routed
<1>4. QED  BY <1>3 DEF Client!Init

(* To its client the engine is what Routing promises: an answer is what the   *)
(* leaf asked last said, or one failure; an upstream's error is reported only *)
(* if an upstream was asked; no request asks more than SafetyBudget leaves;   *)
(* and nothing is asked once the outcome is settled, whatever groups are      *)
(* above (Execute, ExecuteStream).                                                 *)
THEOREM Routes == Spec => RoutingSpec
<1>1. Init => Client!Init
  BY InitRefines
<1>2. IInv /\ [Next]_vars => [Client!Next]_Routed
  <2> SUFFICES ASSUME IInv, [Next]_vars
               PROVE  Routed' = Routed \/ Client!Next
    OBVIOUS
  <2>1. CASE req' = req
    BY <2>1 DEF Routed
  <2>2. CASE \E r \in Requests : \E p : Moves(r, p)
    BY <2>2, MovesRefine
  <2>3. QED  BY <2>1, <2>2, NextMoves
<1>3. QED  BY <1>1, <1>2, InOrder, PTL DEF Spec, RoutingSpec, Client!Spec

-----------------------------------------------------------------------------
(* A second invariant, on top of the first: how the calls of a request and    *)
(* the answers on their way up fit the configuration it uses.  Every target   *)
(* of a group is one of its members with that member's expectation; every     *)
(* call below the first is for the member its parent has reached; a delivered *)
(* answer passed the check of the target it came from; and no level holds a   *)
(* clash of groups, when no configuration allows one.                         *)
TargetOf(c, g, m) ==
  [model |-> m.model, expect |-> Expectation(c, g, m), tries |-> 1 + m.retries]

Plans(c, g) == {TargetOf(c, g, m) : m \in ToSet(c.virtual[g].members)}

(* The check a model requested by its own name has to pass.                   *)
RuledExpect(c, m) == IF m \in DOMAIN c.rules THEN Checked(c.rules[m].strict) ELSE "none"

Unclashed(a) == AllWellNested => a.code \notin {GroupCycle.code, TooDeep.code}

Belongs(c, f) ==
  /\ Unclashed(f.last)
  /\ IF f.model \in DOMAIN c.virtual
     THEN /\ \A i \in DOMAIN f.scan : f.scan[i] \in ToSet(c.virtual[f.model].members)
          /\ \A i \in DOMAIN f.targets : f.targets[i] \in Plans(c, f.model)
          /\ \A i \in DOMAIN f.cooling : f.cooling[i].target \in Plans(c, f.model)
     ELSE /\ f.scan = <<>>
          /\ \A i \in DOMAIN f.targets :
               f.targets[i].model = f.model /\ f.targets[i].expect = RuledExpect(c, f.model)

Guarding(q) ==
  \E i \in DOMAIN q.stack :
    q.stack[i].model \in DOMAIN q.snap.virtual /\ q.snap.virtual[q.stack[i].model].guard

(* What the target at hand has to prove to be.                                *)
Wanted(q) ==
  LET own == Head(Last(q.stack).targets).expect
  IN  IF own = "none" /\ Guarding(q) THEN Checked(q.snap.strict) ELSE own

Chained(q) ==
  \A i \in 1..(Len(q.stack) - 1) :
    /\ Head(q.stack[i].targets).model = q.stack[i + 1].model
    /\ q.stack[i + 1].model \in DOMAIN q.snap.virtual

Checkable(q) ==
  q.pc = "return" /\ q.answer.type \in {"delivered", "broken"} =>
    /\ q.answer.by \notin DOMAIN q.snap.virtual
    /\ Last(q.stack).targets # <<>> /\ Hand(q) = q.answer.by => Accepts(Wanted(q), q.answer.served)

Fits(q) ==
  /\ \A i \in DOMAIN q.stack : Belongs(q.snap, q.stack[i])
  /\ Chained(q)
  /\ q.pc = "enter" /\ q.stack # <<>> => Hand(q) \in DOMAIN q.snap.virtual
  /\ Unclashed(q.answer)
  /\ Checkable(q)

(* Calls are counted as they start and as they return.                        *)
Depths == [r \in Requests |-> Len(req[r].stack)]

FInv ==
  /\ active = SumOver(Depths, Requests)
  /\ \A r \in Requests : Fits(req[r])

FitsTo(r, p) ==
  /\ Fits(p) /\ req' = [req EXCEPT ![r] = p]
  /\ active' = active + (Len(p.stack) - Len(req[r].stack))

LEMMA CodesOfFailures ==
  ASSUME NEW code, NEW status, NEW marks
  PROVE  Failure(code, status, marks).code = code
  BY DEF Failure, NoAnswer

LEMMA ClashCodes ==
  GroupCycle.code = "group_cycle" /\ TooDeep.code = "group_depth_exceeded"
<1>1. GroupCycle.code = "group_cycle"
  BY CodesOfFailures DEF GroupCycle
<1>2. TooDeep.code = "group_depth_exceeded"
  BY CodesOfFailures DEF TooDeep
<1> QED
  BY <1>1, <1>2

LEMMA UnclashedAnswers ==
  Unclashed(NoAnswer) /\ \A a \in OwnFailures \ {GroupCycle, TooDeep} : Unclashed(a)
<1>1. \A code, status, marks : Failure(code, status, marks).code = code
  BY CodesOfFailures
<1>2. NoAnswer.code = ""
  BY DEF NoAnswer
<1>3. \A a \in OwnFailures \ {GroupCycle, TooDeep} :
        a.code \notin {"group_cycle", "group_depth_exceeded"}
  BY <1>1 DEF OwnFailures, ManualInvalid, SelectedCooling, AllCooling, Exhausted,
              CancelledFailure, MismatchBlocked, NoUpstream
<1> QED
  BY <1>2, <1>3, ClashCodes DEF Unclashed

(* Stacks whose calls belong to the configuration, changed at their end.      *)
LEMMA PushedFits ==
  ASSUME NEW q, Sound(q), Fits(q), NEW c, q.stack = <<>> \/ c = q.snap,
         NEW f, Belongs(c, f),
         q.stack # <<>> => f.model = Hand(q) /\ f.model \in DOMAIN c.virtual,
         NEW p, p.snap = c, p.stack = Append(q.stack, f)
  PROVE  /\ \A i \in DOMAIN p.stack : Belongs(p.snap, p.stack[i])
         /\ Chained(p)
<1> DEFINE n == Len(q.stack)
<1>1. /\ n \in Nat /\ Len(p.stack) = n + 1 /\ DOMAIN p.stack = 1..(n + 1)
      /\ \A i \in 1..n : p.stack[i] = q.stack[i]
      /\ p.stack[n + 1] = f /\ DOMAIN q.stack = 1..n
      /\ q.stack = <<>> => n = 0
  BY Pushed DEF Sound
<1>2. q.stack # <<>> => n # 0 /\ Last(q.stack) = q.stack[n]
  BY TopSound
<1> HIDE DEF n
<1>3. ASSUME NEW i \in DOMAIN p.stack  PROVE Belongs(p.snap, p.stack[i])
  <2>1. CASE i = n + 1
    BY <1>1, <2>1
  <2>2. CASE i # n + 1
    <3>1. i \in 1..n /\ q.stack # <<>>
      BY <1>1, <2>2
    <3> QED
      BY <1>1, <3>1 DEF Fits
  <2> QED
    BY <2>1, <2>2
<1>4. ASSUME NEW i \in 1..n
      PROVE  /\ Head(p.stack[i].targets).model = p.stack[i + 1].model
             /\ p.stack[i + 1].model \in DOMAIN p.snap.virtual
  <2>0. q.stack # <<>> /\ p.snap = q.snap
    BY <1>1
  <2>1. CASE i = n
    <3>1. p.stack[i] = Last(q.stack) /\ p.stack[i + 1] = f
      BY <1>1, <1>2, <2>0, <2>1
    <3> QED
      BY <2>0, <3>1 DEF Hand
  <2>2. CASE i # n
    <3>1. i \in 1..(n - 1) /\ i + 1 \in 1..n
      BY <1>1, <2>2
    <3>2. p.stack[i] = q.stack[i] /\ p.stack[i + 1] = q.stack[i + 1]
      BY <1>1, <3>1
    <3> QED
      BY <2>0, <3>1, <3>2 DEF Fits, Chained, n
  <2> QED
    BY <2>1, <2>2
<1>5. Len(p.stack) - 1 = n
  BY <1>1
<1> QED
  BY <1>3, <1>4, <1>5 DEF Chained

LEMMA ReplacedFits ==
  ASSUME NEW q, Sound(q), Fits(q), q.stack # <<>>,
         NEW f, Belongs(q.snap, f), f.model = Last(q.stack).model,
         NEW p, p.snap = q.snap, p.stack = Append(Front(q.stack), f)
  PROVE  /\ \A i \in DOMAIN p.stack : Belongs(p.snap, p.stack[i])
         /\ Chained(p)
         /\ Len(p.stack) = Len(q.stack) /\ Last(p.stack) = f
<1> DEFINE n == Len(q.stack)
<1>1. /\ IsSeq(Front(q.stack)) /\ Len(Front(q.stack)) = n - 1 /\ n \in Nat \ {0}
      /\ \A i \in 1..(n - 1) : Front(q.stack)[i] = q.stack[i]
      /\ DOMAIN q.stack = 1..n /\ Last(q.stack) = q.stack[n]
  BY Fronted DEF Sound
<1>2. /\ Len(p.stack) = n /\ p.stack # <<>> /\ DOMAIN p.stack = 1..n
      /\ \A i \in 1..(n - 1) : p.stack[i] = q.stack[i]
      /\ p.stack[n] = f
  BY <1>1, Pushed
<1> HIDE DEF n
<1>3. ASSUME NEW i \in DOMAIN p.stack  PROVE Belongs(p.snap, p.stack[i])
  <2>1. CASE i = n
    BY <1>2, <2>1
  <2>2. CASE i # n
    <3>1. i \in 1..(n - 1) /\ i \in 1..n
      BY <1>1, <1>2, <2>2
    <3> QED
      BY <1>1, <1>2, <3>1 DEF Fits
  <2> QED
    BY <2>1, <2>2
<1>4. ASSUME NEW i \in 1..(n - 1)
      PROVE  /\ Head(p.stack[i].targets).model = p.stack[i + 1].model
             /\ p.stack[i + 1].model \in DOMAIN p.snap.virtual
  <2>1. /\ Head(q.stack[i].targets).model = q.stack[i + 1].model
        /\ q.stack[i + 1].model \in DOMAIN q.snap.virtual
    BY DEF Fits, Chained, n
  <2>2. p.stack[i] = q.stack[i] /\ p.stack[i + 1].model = q.stack[i + 1].model
    <3>1. CASE i + 1 = n
      BY <1>1, <1>2, <3>1
    <3>2. CASE i + 1 # n
      <4>1. i + 1 \in 1..(n - 1)
        BY <1>1, <3>2
      <4> QED
        BY <1>2, <4>1
    <3> QED
      BY <3>1, <3>2
  <2> QED
    BY <2>1, <2>2
<1>5. Last(p.stack) = f
  BY <1>1, <1>2 DEF Last
<1> QED
  BY <1>2, <1>3, <1>4, <1>5 DEF Chained, n

LEMMA PoppedFits ==
  ASSUME NEW q, Sound(q), Fits(q), q.stack # <<>>,
         NEW p, p.snap = q.snap, p.stack = Front(q.stack)
  PROVE  /\ \A i \in DOMAIN p.stack : Belongs(p.snap, p.stack[i])
         /\ Chained(p)
         /\ Len(p.stack) = Len(q.stack) - 1
         /\ Len(q.stack) > 1 => /\ p.stack # <<>>
                                /\ Last(p.stack) = q.stack[Len(q.stack) - 1]
                                /\ Hand(p) \in DOMAIN p.snap.virtual
<1> DEFINE n == Len(q.stack)
<1>1. /\ IsSeq(Front(q.stack)) /\ Len(Front(q.stack)) = n - 1 /\ n \in Nat \ {0}
      /\ \A i \in 1..(n - 1) : Front(q.stack)[i] = q.stack[i]
      /\ DOMAIN q.stack = 1..n /\ DOMAIN p.stack = 1..(n - 1)
  BY Fronted DEF Sound
<1> HIDE DEF n
<1>2. ASSUME NEW i \in DOMAIN p.stack  PROVE Belongs(p.snap, p.stack[i])
  <2>1. i \in 1..n /\ p.stack[i] = q.stack[i]
    BY <1>1
  <2> QED
    BY <1>1, <2>1 DEF Fits
<1>3. ASSUME NEW i \in 1..(n - 2)
      PROVE  /\ Head(p.stack[i].targets).model = p.stack[i + 1].model
             /\ p.stack[i + 1].model \in DOMAIN p.snap.virtual
  <2>1. i \in 1..(n - 1) /\ i + 1 \in 1..(n - 1)
    BY <1>1
  <2>2. p.stack[i] = q.stack[i] /\ p.stack[i + 1] = q.stack[i + 1]
    BY <1>1, <2>1
  <2> QED
    BY <2>1, <2>2 DEF Fits, Chained, n
<1>4. ASSUME n > 1
      PROVE  /\ p.stack # <<>> /\ Last(p.stack) = q.stack[n - 1]
             /\ Hand(p) \in DOMAIN p.snap.virtual
  <2>1. n - 1 \in 1..(n - 1) /\ (n - 1) + 1 = n
    BY <1>1, <1>4
  <2>2. p.stack # <<>>
    BY <1>1, <2>1
  <2>3. Last(p.stack) = q.stack[n - 1]
    BY <1>1, <2>1 DEF Last
  <2>4. /\ Head(q.stack[n - 1].targets).model = q.stack[n].model
        /\ q.stack[n].model \in DOMAIN q.snap.virtual
    BY <2>1 DEF Fits, Chained, n
  <2> QED
    BY <2>2, <2>3, <2>4 DEF Hand
<1>5. Len(p.stack) - 1 = n - 2
  BY <1>1
<1> QED
  BY <1>1, <1>2, <1>3, <1>4, <1>5 DEF Chained, n

(* Frames keep to their group as they are worked on.                          *)
LEMMA BelongsStill ==
  ASSUME NEW c, NEW f, Belongs(c, f),
         NEW g, g.model = f.model, Unclashed(g.last), g.scan = f.scan,
         g.targets = f.targets, g.cooling = f.cooling
  PROVE  Belongs(c, g)
  BY DEF Belongs

LEMMA AdvancedBelongs ==
  ASSUME NEW c, NEW n, NEW f, SoundFrame(c, n, f), Belongs(c, f), f.targets # <<>>,
         NEW a, Unclashed(a)
  PROVE  /\ Belongs(c, [Advanced(f) EXCEPT !.last = a])
         /\ [Advanced(f) EXCEPT !.last = a].model = f.model
<1> DEFINE g == [Advanced(f) EXCEPT !.last = a]
<1>1. /\ g.model = f.model /\ g.last = a /\ g.scan = f.scan
      /\ g.targets = Tail(f.targets) /\ g.cooling = f.cooling
  BY DEF Advanced, SoundFrame, FrameFields
<1> HIDE DEF g
<1>2. \A i \in DOMAIN g.targets : i + 1 \in DOMAIN f.targets /\ g.targets[i] = f.targets[i + 1]
  <2>1. /\ Len(f.targets) \in Nat \ {0} /\ DOMAIN f.targets = 1..Len(f.targets)
        /\ DOMAIN Tail(f.targets) = 1..(Len(f.targets) - 1)
        /\ \A i \in 1..(Len(f.targets) - 1) : Tail(f.targets)[i] = f.targets[i + 1]
    BY Tailed DEF SoundFrame, Named
  <2> QED
    BY <1>1, <2>1
<1>3. Belongs(c, g)
  BY <1>1, <1>2 DEF Belongs
<1> QED
  BY <1>1, <1>3 DEF g

LEMMA FacingBelongs ==
  ASSUME NEW c, NEW n, NEW d, NEW f, SoundFrame(c, n, f), Belongs(c, f)
  PROVE  Belongs(c, Facing(d, f)) /\ Facing(d, f).model = f.model
<1> DEFINE g == Facing(d, f)
<1>1. /\ g.model = f.model /\ g.last = f.last /\ g.scan = f.scan
      /\ g.targets = f.targets /\ g.cooling = f.cooling
  BY DEF Facing, SoundFrame, FrameFields
<1> HIDE DEF g
<1> QED
  BY <1>1, BelongsStill DEF g, Belongs

LEMMA OrderedMembers ==
  ASSUME NEW c \in Configs, NEW g \in DOMAIN c.virtual, NEW ticket \in Nat,
         NEW order \in Orders(c.virtual[g], ticket)
  PROVE  \A i \in DOMAIN order : order[i] \in ToSet(c.virtual[g].members)
<1> DEFINE vm == c.virtual[g]
           ms == vm.members
           n == Len(ms)
<1>1. vm \in VirtualModels /\ ms \in Seq(Members) /\ ms # <<>>
  BY EngineConfigsAssumption DEF IsConfig, VirtualModels
<1>2. n \in Nat \ {0} /\ DOMAIN ms = 1..n /\ vm.strategy \in Strategies
  <2>1. vm.strategy \in Strategies
    BY <1>1 DEF VirtualModels
  <2> HIDE DEF vm
  <2>2. DOMAIN ms = 1..n /\ n \in Nat \ {0}
    BY <1>1, EmptySeq, LenProperties
  <2> QED
    BY <2>1, <2>2
<1>3. \A i \in 1..n : ms[i] \in ToSet(ms)
  BY <1>2 DEF ToSet
<1> HIDE DEF ms, n
<1>4. CASE vm.strategy = "manual"
  <2>1. order = IF \E i \in 1..n : ms[i].model = vm.manual
                THEN <<ms[CHOOSE i \in 1..n : ms[i].model = vm.manual]>>
                ELSE <<>>
    BY <1>4 DEF Orders, ms, n
  <2>2. CASE \E i \in 1..n : ms[i].model = vm.manual
    <3>1. (CHOOSE i \in 1..n : ms[i].model = vm.manual) \in 1..n
      BY <2>2
    <3>2. PICK j \in 1..n : order = <<ms[j]>>
      BY <2>1, <2>2, <3>1
    <3>3. DOMAIN order = {1} /\ order[1] = ms[j]
      BY <3>2
    <3>4. ms[j] \in ToSet(c.virtual[g].members)
      BY <1>3 DEF ms
    <3> QED
      BY <3>3, <3>4
  <2>3. CASE ~\E i \in 1..n : ms[i].model = vm.manual
    BY <2>1, <2>3
  <2> QED
    BY <2>2, <2>3
<1>5. CASE vm.strategy = "round-robin"
  <2>1. order = [i \in 1..n |-> ms[((ticket + i - 1) % n) + 1]]
    BY <1>5 DEF Orders, ms, n
  <2>2. ASSUME NEW i \in 1..n  PROVE ((ticket + i - 1) % n) + 1 \in 1..n
    BY <1>2
  <2> QED
    BY <1>3, <2>1, <2>2 DEF ms
<1>6. CASE vm.strategy \in {"random", "weighted"}
  <2>1. PICK p \in Bijection(1..n, 1..n) : order = [i \in 1..n |-> ms[p[i]]]
    BY <1>6 DEF Orders, ms, n
  <2>2. p \in [1..n -> 1..n]
    BY <2>1 DEF Bijection, Injection
  <2> QED
    BY <1>3, <2>1, <2>2 DEF ms
<1>7. CASE vm.strategy = "fallback"
  <2>1. order = ms
    BY <1>7 DEF Orders, ms
  <2> QED
    BY <1>2, <1>3, <2>1 DEF ms
<1> QED
  BY <1>2, <1>4, <1>5, <1>6, <1>7 DEF Strategies

LEMMA SortedTargets ==
  ASSUME NEW s, NamedCooling(s), NEW T, \A i \in DOMAIN s : s[i].target \in T,
         NEW sorted \in ByUntil(s)
  PROVE  \A i \in DOMAIN sorted : sorted[i] \in T
<1> DEFINE n == Len(s)
<1>1. n \in Nat /\ DOMAIN s = 1..n
  BY Pushed DEF NamedCooling
<1>2. PICK p \in Bijection(1..n, 1..n) : sorted = [i \in 1..n |-> s[p[i]].target]
  BY DEF ByUntil
<1>3. p \in [1..n -> 1..n]
  BY <1>2 DEF Bijection, Injection
<1> HIDE DEF n
<1> QED
  BY <1>1, <1>2, <1>3

(* A plan once made is of the group's members.                                *)
LEMMA PlannedFits ==
  ASSUME NEW r \in Requests, NEW n, NEW f, SoundFrame(req[r].snap, n, f),
         f.model \in DOMAIN req[r].snap.virtual, Belongs(req[r].snap, f),
         NEW p \in Planned(r, f)
  PROVE  \E g : /\ Belongs(req[r].snap, g) /\ g.model = f.model
                /\ \/ p = WithTop(r, g, "dispatch")
                   \/ \E a \in OwnFailures : Unclashed(a) /\ p = Answering(WithTop(r, g, "return"), a)
<1> DEFINE c == req[r].snap
           vm == c.virtual[f.model]
           Followed(targets, degraded) ==
             [f EXCEPT !.cooling = <<>>, !.targets = targets, !.degraded = degraded,
                       !.quota = Quota(vm, targets)]
<1>1. ASSUME NEW targets, \A i \in DOMAIN targets : targets[i] \in Plans(c, f.model), NEW degraded
      PROVE  Belongs(c, Followed(targets, degraded)) /\ Followed(targets, degraded).model = f.model
  <2> DEFINE g == Followed(targets, degraded)
  <2>1. /\ g.model = f.model /\ g.last = f.last /\ g.scan = f.scan
        /\ g.targets = targets /\ g.cooling = <<>>
    BY FrameParts DEF FrameFields
  <2> HIDE DEF g
  <2>2. DOMAIN <<>> = {}
    OBVIOUS
  <2>3. Belongs(c, g)
    BY <1>1, <2>1, <2>2 DEF Belongs
  <2> QED
    BY <2>1, <2>3 DEF g
<1>2. \/ p = WithTop(r, Followed(f.targets, FALSE), "dispatch")
      \/ p = Answering(WithTop(r, f, "return"), SelectedCooling)
      \/ p = Answering(WithTop(r, f, "return"), AllCooling)
      \/ \E sorted \in ByUntil(f.cooling) : p = WithTop(r, Followed(sorted, TRUE), "dispatch")
  BY DEF Planned
<1> HIDE DEF Followed
<1>3. CASE p = WithTop(r, Followed(f.targets, FALSE), "dispatch")
  BY <1>1, <1>3 DEF Belongs
<1>4. CASE \/ p = Answering(WithTop(r, f, "return"), SelectedCooling)
           \/ p = Answering(WithTop(r, f, "return"), AllCooling)
  <2>1. Unclashed(SelectedCooling) /\ Unclashed(AllCooling)
    <3>1. \A code, status, marks : Failure(code, status, marks).code = code
      BY DEF Failure, NoAnswer
    <3> QED
      BY <3>1 DEF Unclashed, SelectedCooling, AllCooling, GroupCycle, TooDeep
  <2> QED
    BY <1>4, <2>1 DEF OwnFailures
<1>5. CASE \E sorted \in ByUntil(f.cooling) : p = WithTop(r, Followed(sorted, TRUE), "dispatch")
  <2>1. PICK sorted \in ByUntil(f.cooling) : p = WithTop(r, Followed(sorted, TRUE), "dispatch")
    BY <1>5
  <2>2. \A i \in DOMAIN f.cooling : f.cooling[i].target \in Plans(c, f.model)
    BY DEF Belongs
  <2>3. NamedCooling(f.cooling)
    BY FrameParts
  <2>4. \A i \in DOMAIN sorted : sorted[i] \in Plans(c, f.model)
    BY <2>1, <2>2, <2>3, SortedTargets
  <2> QED
    BY <1>1, <2>1, <2>4
<1> QED
  BY <1>2, <1>3, <1>4, <1>5

-----------------------------------------------------------------------------
(* Groups that each have one of the others as a member make chains of any     *)
(* length.                                                                    *)
LEMMA EndlessChains ==
  ASSUME NEW c, NEW C, NEW g \in C,
         \A x \in C : \E y \in C : Refers(c, x, y), NEW n \in Nat
  PROVE  \E p \in [1..(n + 1) -> C] : \A i \in 1..n : Refers(c, p[i], p[i + 1])
<1> DEFINE from(k, x) == {p \in [1..(k + 1) -> C] :
             p[1] = x /\ \A i \in 1..k : Refers(c, p[i], p[i + 1])}
           P == {k \in Nat : \A x \in C : from(k, x) # {}}
<1>1. 0 \in P
  <2> SUFFICES ASSUME NEW x \in C  PROVE from(0, x) # {}
    OBVIOUS
  <2>1. [i \in 1..1 |-> x] \in from(0, x)
    OBVIOUS
  <2> QED
    BY <2>1
<1>2. ASSUME NEW k \in Nat, k \in P  PROVE k + 1 \in P
  <2> SUFFICES ASSUME NEW x \in C  PROVE from(k + 1, x) # {}
    <3>1. k + 1 \in Nat
      OBVIOUS
    <3> HIDE DEF from
    <3> QED
      BY <3>1
  <2>1. PICK y \in C : Refers(c, x, y)
    OBVIOUS
  <2>2. PICK q \in from(k, y) : TRUE
    BY <1>2
  <2> DEFINE p == [i \in 1..(k + 2) |-> IF i = 1 THEN x ELSE q[i - 1]]
  <2>3. p \in [1..(k + 2) -> C] /\ p[1] = x
    BY <2>2
  <2>4. ASSUME NEW i \in 1..(k + 1)  PROVE Refers(c, p[i], p[i + 1])
    <3>1. p[i + 1] = q[i] /\ (i # 1 => p[i] = q[i - 1] /\ i - 1 \in 1..k /\ (i - 1) + 1 = i)
      OBVIOUS
    <3>2. CASE i = 1
      BY <2>1, <2>2, <2>3, <3>1, <3>2
    <3>3. CASE i # 1
      <4>1. Refers(c, q[i - 1], q[(i - 1) + 1])
        BY <2>2, <3>1, <3>3
      <4> QED
        BY <3>1, <3>3, <4>1
    <3> QED
      BY <3>2, <3>3
  <2>5. (k + 1) + 1 = k + 2
    OBVIOUS
  <2> HIDE DEF p
  <2>6. p \in from(k + 1, x)
    BY <2>3, <2>4, <2>5
  <2> QED
    BY <2>6
<1> HIDE DEF P
<1>3. n \in P
  BY <1>1, <1>2, InductionOnNat
<1>4. PICK p \in from(n, g) : TRUE
  BY <1>3 DEF P
<1> QED
  BY <1>4

(* A path of a well nested configuration, with the member it has reached, is  *)
(* not a cycle and not too long.                                              *)
LEMMA NestedPath ==
  ASSUME NEW c, WellNested(c), NEW n \in Nat \ {0}, NEW s \in [1..n -> DOMAIN c.virtual],
         \A i \in 1..(n - 1) : Refers(c, s[i], s[i + 1]),
         NEW g \in DOMAIN c.virtual, Refers(c, s[n], g)
  PROVE  (\A i \in 1..n : s[i] # g) /\ n < MaxGroupDepth
<1> DEFINE d == MaxGroupDepth
<1>1. d \in Nat \ {0}
  BY BoundsAssumption
<1>2. \A p \in [1..(d + 1) -> DOMAIN c.virtual] : \E i \in 1..d : ~Refers(c, p[i], p[i + 1])
  BY DEF WellNested
<1> HIDE DEF d
<1>3. ASSUME NEW k \in 1..n, s[k] = g  PROVE FALSE
  <2> DEFINE C == {s[i] : i \in 1..n}
  <2>1. ASSUME NEW x \in C  PROVE \E y \in C : Refers(c, x, y)
    <3>1. PICK i \in 1..n : x = s[i]
      OBVIOUS
    <3>2. CASE i = n
      BY <1>3, <3>1, <3>2
    <3>3. CASE i # n
      <4>1. i \in 1..(n - 1) /\ i + 1 \in 1..n
        BY <3>3
      <4>2. s[i + 1] \in C /\ Refers(c, s[i], s[i + 1])
        BY <4>1
      <4> QED
        BY <3>1, <4>2
    <3> QED
      BY <3>2, <3>3
  <2>2. g \in C /\ C \subseteq DOMAIN c.virtual
    BY <1>3
  <2> HIDE DEF C
  <2>3. PICK p \in [1..(d + 1) -> C] : \A i \in 1..d : Refers(c, p[i], p[i + 1])
    BY <1>1, <2>1, <2>2, EndlessChains
  <2>4. p \in [1..(d + 1) -> DOMAIN c.virtual]
    BY <2>2
  <2> QED
    BY <1>2, <2>3, <2>4
<1>4. ASSUME n >= d  PROVE FALSE
  <2> DEFINE p == [i \in 1..(d + 1) |-> IF i = n + 1 THEN g ELSE s[i]]
  <2>1. \A i \in 1..(d + 1) : i = n + 1 \/ i \in 1..n
    BY <1>1, <1>4
  <2>2. p \in [1..(d + 1) -> DOMAIN c.virtual]
    BY <2>1
  <2>3. ASSUME NEW i \in 1..d  PROVE Refers(c, p[i], p[i + 1])
    <3>1. i \in 1..n /\ i # n + 1 /\ i \in 1..(d + 1) /\ i + 1 \in 1..(d + 1)
      BY <1>1, <1>4
    <3>2. p[i] = s[i]
      BY <3>1
    <3>3. CASE i = n
      <4>1. p[i + 1] = g
        BY <3>1, <3>3
      <4> QED
        BY <3>2, <3>3, <4>1
    <3>4. CASE i # n
      <4>1. i + 1 # n + 1 /\ i \in 1..(n - 1)
        BY <3>1, <3>4
      <4>2. p[i + 1] = s[i + 1]
        BY <3>1, <4>1
      <4> QED
        BY <3>2, <4>1, <4>2
    <3> QED
      BY <3>3, <3>4
  <2> HIDE DEF p
  <2> QED
    BY <1>2, <2>2, <2>3
<1>5. n < d
  BY <1>1, <1>4
<1> QED
  BY <1>3, <1>5 DEF d

(* The target a group has reached, if it is a group, is one of its members.   *)
LEMMA ReachedMember ==
  ASSUME NEW c, NEW f, Belongs(c, f), Named(f.targets), f.targets # <<>>,
         Head(f.targets).model \in DOMAIN c.virtual
  PROVE  f.model \in DOMAIN c.virtual /\ Refers(c, f.model, Head(f.targets).model)
<1>1. 1 \in DOMAIN f.targets /\ Head(f.targets) = f.targets[1]
  BY Tailed DEF Named
<1>2. f.model \in DOMAIN c.virtual
  BY <1>1 DEF Belongs
<1>3. f.targets[1] \in Plans(c, f.model)
  BY <1>1, <1>2 DEF Belongs
<1>4. PICK m \in ToSet(c.virtual[f.model].members) : f.targets[1] = TargetOf(c, f.model, m)
  BY <1>3 DEF Plans
<1>5. f.targets[1].model = m.model
  BY <1>4 DEF TargetOf
<1>6. PICK i \in DOMAIN c.virtual[f.model].members : m = c.virtual[f.model].members[i]
  BY DEF ToSet
<1> QED
  BY <1>1, <1>2, <1>5, <1>6 DEF Refers

(* So no call of a well nested configuration is refused for its place.        *)
LEMMA NoClash ==
  ASSUME IInv, NEW r \in Requests, req[r].pc = "enter", Fits(req[r]), AllWellNested,
         Entered(r) \in DOMAIN Held(r).virtual
  PROVE  Refusal(r, Entered(r)) \in {ManualInvalid, NoAnswer}
<1> DEFINE q == req[r]
           c == q.snap
           n == Len(q.stack)
           g == Entered(r)
           s == [i \in 1..n |-> q.stack[i].model]
<1>1. Sound(q) /\ Held(r) \in Configs /\ q.snap \in Configs
  BY AtHand
<1>2. CASE q.stack = <<>>
  <2>1. Path(r) = {}
    BY <1>2 DEF Path
  <2>2. Cardinality(Path(r)) = 0
    BY <2>1, FS_EmptySet
  <2>3. ~(Cardinality(Path(r)) + 1 > MaxGroupDepth)
    BY <2>2, BoundsAssumption
  <2> QED
    BY <2>1, <2>3 DEF Refusal
<1>3. CASE q.stack # <<>>
  <2>1. /\ Last(q.stack) = q.stack[n] /\ n \in Nat \ {0} /\ DOMAIN q.stack = 1..n
    BY <1>1, <1>3, TopSound
  <2>2. \A i \in 1..n : /\ q.stack[i].targets # <<>> /\ Named(q.stack[i].targets)
                        /\ Belongs(c, q.stack[i])
    BY <1>1, <2>1, EnteredAtHand DEF Sound, SoundFrame, Fits
  <2>3. Held(r) = c /\ g = Hand(q)
    BY <1>3 DEF Held, Entered, Hand, Top
  <2>4. WellNested(c)
    BY <1>1 DEF AllWellNested
  <2> HIDE DEF n, c
  <2>5. \A i \in 1..(n - 1) : /\ Head(q.stack[i].targets).model = q.stack[i + 1].model
                              /\ q.stack[i + 1].model \in DOMAIN c.virtual
    BY DEF Fits, Chained, n, c
  <2>6. Head(q.stack[n].targets).model = g /\ g \in DOMAIN c.virtual
    BY <2>1, <2>3 DEF Hand
  <2> HIDE DEF g
  <2>7. ASSUME NEW i \in 1..n
        PROVE  /\ q.stack[i].model \in DOMAIN c.virtual
               /\ Refers(c, q.stack[i].model, Head(q.stack[i].targets).model)
    <3>1. Head(q.stack[i].targets).model \in DOMAIN c.virtual
      <4>1. i = n \/ i \in 1..(n - 1)
        BY <2>1
      <4> QED
        BY <2>5, <2>6, <4>1
    <3> QED
      BY <2>2, <3>1, ReachedMember
  <2>8. s \in [1..n -> DOMAIN c.virtual] /\ \A i \in 1..n : s[i] = q.stack[i].model
    BY <2>7
  <2>9. \A i \in 1..(n - 1) : Refers(c, s[i], s[i + 1])
    <3>1. \A i \in 1..(n - 1) : i \in 1..n /\ i + 1 \in 1..n
      BY <2>1
    <3> QED
      BY <2>5, <2>7, <2>8, <3>1
  <2>10. Refers(c, s[n], g)
    <3>1. n \in 1..n
      BY <2>1
    <3> QED
      BY <2>6, <2>7, <2>8, <3>1
  <2> HIDE DEF s
  <2>11. (\A i \in 1..n : s[i] # g) /\ n < MaxGroupDepth
    BY <2>1, <2>4, <2>6, <2>8, <2>9, <2>10, NestedPath
  <2>12. Path(r) = 1..n
    BY <2>1, <2>7 DEF Path, IsGroup, c
  <2>13. Cardinality(Path(r)) = n
    BY <2>1, <2>12, FS_Interval
  <2>14. ~(Cardinality(Path(r)) + 1 > MaxGroupDepth)
    BY <2>1, <2>11, <2>13, BoundsAssumption
  <2>15. ~\E i \in Path(r) : q.stack[i].model = g
    BY <2>8, <2>11, <2>12
  <2> QED
    BY <2>14, <2>15 DEF Refusal, g
<1> QED
  BY <1>2, <1>3

-----------------------------------------------------------------------------
(* The steps of a request fit.                                                *)
LEMMA StartedFits ==
  ASSUME IInv, NEW r \in Requests, req[r].pc = "enter", Fits(req[r]),
         NEW f, Belongs(Held(r), f), f.model = Entered(r),
         NEW p, req' = [req EXCEPT ![r] = p], active' = active + 1,
         p.snap = Held(r), p.stack = Append(req[r].stack, f),
         p.pc # "enter", p.answer = NoAnswer \/ p.answer.type = "failed", Unclashed(p.answer)
  PROVE  FitsTo(r, p)
<1> DEFINE q == req[r]
<1>1. Sound(q) /\ (q.stack = <<>> \/ Held(r) = q.snap)
  BY AtHand
<1>2. q.stack # <<>> => f.model = Hand(q) /\ f.model \in DOMAIN Held(r).virtual
  BY <1>1 DEF Fits, Entered, Hand, Top
<1> HIDE DEF q
<1>3. /\ \A i \in DOMAIN p.stack : Belongs(p.snap, p.stack[i])
      /\ Chained(p)
  BY <1>1, <1>2, PushedFits DEF q
<1>4. Len(p.stack) = Len(q.stack) + 1 /\ Len(q.stack) \in Nat
  BY <1>1, Pushed DEF Sound, q
<1>5. Len(p.stack) - Len(q.stack) = 1
  BY <1>4
<1>6. p.answer.type \notin {"delivered", "broken"}
  BY NoAnswerHonest
<1>7. Fits(p)
  BY <1>3, <1>6 DEF Fits, Checkable
<1> QED
  BY <1>5, <1>7 DEF FitsTo, q

LEMMA TopFits ==
  ASSUME IInv, NEW r \in Requests, req[r].stack # <<>>, Fits(req[r]), active \in Int,
         NEW f, Belongs(req[r].snap, f), f.model = Top(r).model,
         NEW p, req' = [req EXCEPT ![r] = p], active' = active,
         p.snap = req[r].snap, p.stack = Append(Front(req[r].stack), f),
         p.pc # "enter", p.answer = NoAnswer \/ p.answer.type = "failed", Unclashed(p.answer)
  PROVE  FitsTo(r, p)
<1> DEFINE q == req[r]
<1>1. Sound(q) /\ f.model = Last(q.stack).model
  BY AtHand
<1> HIDE DEF q
<1>2. /\ \A i \in DOMAIN p.stack : Belongs(p.snap, p.stack[i])
      /\ Chained(p)
  BY <1>1, ReplacedFits DEF q
<1>3. Len(p.stack) = Len(q.stack) /\ Len(q.stack) \in Nat
  <2>1. Len(p.stack) = Len(q.stack)
    BY <1>1, ReplacedFits DEF q
  <2>2. Len(q.stack) \in Nat
    BY <1>1, TopSound DEF q
  <2> QED
    BY <2>1, <2>2
<1>4. active' = active + (Len(p.stack) - Len(q.stack))
  BY <1>3
<1>5. p.answer.type \notin {"delivered", "broken"}
  BY NoAnswerHonest
<1>6. Fits(p)
  BY <1>2, <1>5 DEF Fits, Checkable
<1> QED
  BY <1>4, <1>6 DEF FitsTo, q

LEMMA SameFits ==
  ASSUME IInv, NEW r \in Requests, Fits(req[r]), active \in Int,
         NEW p, req' = [req EXCEPT ![r] = p], active' = active,
         p.snap = req[r].snap, p.stack = req[r].stack,
         p.pc = "enter" /\ p.stack # <<>> => Hand(p) \in DOMAIN p.snap.virtual,
         Unclashed(p.answer), Checkable(p)
  PROVE  FitsTo(r, p)
<1>1. Chained(p)
  BY DEF Fits, Chained
<1>2. Fits(p)
  BY <1>1 DEF Fits
<1>3. Len(req[r].stack) \in Nat
  BY AtHand, Pushed DEF Sound
<1>4. active' = active + (Len(p.stack) - Len(req[r].stack))
  BY <1>3
<1> QED
  BY <1>2, <1>4 DEF FitsTo

LEMMA NewBelongs ==
  ASSUME NEW c, NEW m
  PROVE  Belongs(c, Frame(m))
<1>1. /\ Frame(m).model = m /\ Frame(m).last = NoAnswer /\ Frame(m).scan = <<>>
      /\ Frame(m).targets = <<>> /\ Frame(m).cooling = <<>>
  BY DEF Frame
<1>2. DOMAIN <<>> = {}
  OBVIOUS
<1> QED
  BY <1>1, <1>2, UnclashedAnswers DEF Belongs

LEMMA ClaimFits ==
  ASSUME IInv, NEW r \in Requests, Fits(req[r]), active \in Int,
         NEW m \in Names, NEW stream, Claim(r, m, stream)
  PROVE  \E p : FitsTo(r, p)
<1> DEFINE q == req[r]
           p == [q EXCEPT !.pc = "enter", !.model = m, !.stream = stream]
<1>1. DOMAIN q = RequestFields /\ q.pc = "idle" /\ q.stack = <<>>
  BY AtHand DEF Claim, Placed
<1>2. req' = [req EXCEPT ![r] = p] /\ active' = active
  BY DEF Claim
<1>3. p.pc = "enter" /\ p.snap = q.snap /\ p.stack = q.stack /\ p.answer = q.answer
  BY <1>1 DEF RequestFields
<1> HIDE DEF p
<1>4. Unclashed(p.answer) /\ Checkable(p)
  BY <1>3 DEF Fits, Checkable
<1> QED
  BY <1>1, <1>2, <1>3, <1>4, SameFits

LEMMA EnterRefusedFits ==
  ASSUME IInv, NEW r \in Requests, Fits(req[r]), EnterRefused(r)
  PROVE  \E p : FitsTo(r, p)
<1> DEFINE g == Entered(r)
           s == Started(r, Frame(g), "return")
           p == Answering(s, Refusal(r, g))
<1>1. /\ req[r].pc = "enter" /\ req' = [req EXCEPT ![r] = p] /\ active' = active + 1
      /\ g \in DOMAIN Held(r).virtual
  BY DEF EnterRefused
<1>2. Refusal(r, g) \in OwnFailures
  BY DEF EnterRefused, Refusal, OwnFailures
<1>3. Unclashed(Refusal(r, g))
  <2>1. ASSUME AllWellNested  PROVE Refusal(r, g) \in {ManualInvalid, NoAnswer}
    BY <1>1, <2>1, NoClash
  <2>2. Unclashed(ManualInvalid)
    <3>1. \A code, status, marks : Failure(code, status, marks).code = code
      BY DEF Failure, NoAnswer
    <3> QED
      BY <3>1 DEF Unclashed, ManualInvalid, GroupCycle, TooDeep
  <2> QED
    BY <2>1, <2>2, UnclashedAnswers DEF Unclashed
<1>4. DOMAIN s = RequestFields
  BY StartedFields
<1> HIDE DEF g, s
<1>5. s.snap = Held(r) /\ s.stack = Append(req[r].stack, Frame(g))
  BY StartedFields DEF s
<1>6. /\ p.pc = "return" /\ p.answer = Refusal(r, g)
      /\ p.snap = Held(r) /\ p.stack = Append(req[r].stack, Frame(g))
  BY <1>4, <1>5, AnsweringFields
<1> HIDE DEF p
<1>7. p.answer.type = "failed"
  BY <1>2, <1>6, OwnFailuresHonest
<1>8. Belongs(Held(r), Frame(g)) /\ Frame(g).model = g
  BY NewBelongs DEF Frame
<1> QED
  BY <1>1, <1>3, <1>6, <1>7, <1>8, StartedFits DEF g

LEMMA EnterGroupFits ==
  ASSUME IInv, NEW r \in Requests, Fits(req[r]), EnterGroup(r)
  PROVE  \E p : FitsTo(r, p)
<1> DEFINE g == Entered(r)
           c == Held(r)
           vm == c.virtual[g]
<1>1. req[r].pc = "enter" /\ g \in DOMAIN c.virtual /\ c \in Configs /\ active' = active + 1
  BY AtHand DEF EnterGroup
<1>2. turn[g] \in Nat
  <2>1. g \in Groups
    BY <1>1, EngineConfigsAssumption DEF IsConfig
  <2> QED
    BY <2>1 DEF IInv
<1>3. PICK order \in Orders(vm, turn[g]) :
        req' = [req EXCEPT ![r] =
          Started(r, Facing(c, [Frame(g) EXCEPT !.scan = order, !.budget = vm.max]), "scan")]
  BY DEF EnterGroup
<1>4. \A i \in DOMAIN order : order[i] \in ToSet(vm.members)
  BY <1>1, <1>2, <1>3, OrderedMembers
<1> DEFINE e == [Frame(g) EXCEPT !.scan = order, !.budget = vm.max]
           f == Facing(c, e)
<1>5. /\ f.model = g /\ f.last = NoAnswer /\ f.scan = order
      /\ f.targets = <<>> /\ f.cooling = <<>>
  <2>1. /\ DOMAIN e = FrameFields /\ e.model = g /\ e.last = NoAnswer /\ e.scan = order
        /\ e.targets = <<>> /\ e.cooling = <<>>
    BY DEF Frame, FrameFields
  <2> HIDE DEF e
  <2> QED
    BY <2>1 DEF Facing, FrameFields
<1>6. req' = [req EXCEPT ![r] = Started(r, f, "scan")]
  BY <1>3
<1> HIDE DEF f
<1>7. Belongs(c, f)
  <2>1. DOMAIN <<>> = {}
    OBVIOUS
  <2> QED
    BY <1>1, <1>4, <1>5, <2>1, UnclashedAnswers DEF Belongs
<1> DEFINE p == Started(r, f, "scan")
<1>8. /\ p.pc = "scan" /\ p.snap = Held(r) /\ p.stack = Append(req[r].stack, f)
      /\ p.answer = NoAnswer
  BY <1>1, EnteredAtHand, StartedFields
<1>9. req' = [req EXCEPT ![r] = p]
  BY <1>6
<1> HIDE DEF p
<1> QED
  BY <1>1, <1>5, <1>7, <1>8, <1>9, UnclashedAnswers, StartedFits

LEMMA EnterDirectFits ==
  ASSUME IInv, NEW r \in Requests, Fits(req[r]), EnterDirect(r)
  PROVE  \E p : FitsTo(r, p)
<1> DEFINE m == Entered(r)
           c == Held(r)
           ruled == m \in DOMAIN c.rules
           tries == IF ruled THEN 1 + c.rules[m].retries ELSE 1
           expect == IF ruled THEN Checked(c.rules[m].strict) ELSE "none"
           target == [model |-> m, expect |-> expect, tries |-> tries]
           f == [Frame(m) EXCEPT !.targets = <<target>>, !.quota = tries]
<1>1. /\ req[r].pc = "enter" /\ active' = active + 1 /\ m \notin DOMAIN c.virtual
      /\ req' = [req EXCEPT ![r] = Started(r, f, "dispatch")]
  BY DEF EnterDirect
<1>2. target.model = m /\ target.expect = RuledExpect(c, m)
  BY DEF RuledExpect
<1> HIDE DEF target, tries
<1>3. /\ f.model = m /\ f.last = NoAnswer /\ f.scan = <<>>
      /\ f.targets = <<target>> /\ f.cooling = <<>>
  BY DEF Frame
<1> HIDE DEF f
<1>4. Belongs(c, f)
  <2>1. DOMAIN <<target>> = {1} /\ <<target>>[1] = target
    OBVIOUS
  <2> QED
    BY <1>1, <1>2, <1>3, <2>1, UnclashedAnswers DEF Belongs
<1> DEFINE p == Started(r, f, "dispatch")
<1>5. /\ p.pc = "dispatch" /\ p.snap = Held(r) /\ p.stack = Append(req[r].stack, f)
      /\ p.answer = NoAnswer
  BY <1>1, EnteredAtHand, StartedFields
<1>6. req' = [req EXCEPT ![r] = p]
  BY <1>1
<1> HIDE DEF p, m
<1>7. FitsTo(r, p)
  <2>1. Belongs(Held(r), f) /\ f.model = Entered(r) /\ Unclashed(p.answer)
    BY <1>3, <1>4, <1>5, UnclashedAnswers DEF m
  <2>2. /\ p.pc # "enter" /\ p.answer = NoAnswer /\ p.snap = Held(r)
        /\ p.stack = Append(req[r].stack, f)
    BY <1>5
  <2> HIDE DEF c
  <2> QED
    BY <1>1, <1>6, <2>1, <2>2, StartedFits
<1> QED
  BY <1>7

(* A frame that scans is a group's.                                           *)
LEMMA ScanningAtHand ==
  ASSUME IInv, NEW r \in Requests, req[r].pc = "scan", Fits(req[r])
  PROVE  LET q == req[r]
             f == Top(r)
         IN  /\ q.stack # <<>> /\ q.snap \in Configs /\ q.answer = NoAnswer
             /\ SoundFrame(q.snap, q.spent, f) /\ Belongs(q.snap, f) /\ f.scan # <<>>
             /\ f.model \in DOMAIN q.snap.virtual
             /\ Head(f.scan) \in ToSet(q.snap.virtual[f.model].members)
             /\ Candidate(r) \in Plans(q.snap, f.model)
<1> DEFINE q == req[r]
           f == Top(r)
<1>1. /\ Sound(q) /\ Good(q) /\ q.stack # <<>> /\ q.snap \in Configs
      /\ SoundFrame(q.snap, q.spent, f) /\ f.scan # <<>> /\ f = Last(q.stack)
  BY AtHand DEF Placed
<1>2. q.answer = NoAnswer
  BY <1>1, NotStopped DEF Underway
<1>3. Belongs(q.snap, f)
  <2>1. f = q.stack[Len(q.stack)] /\ Len(q.stack) \in DOMAIN q.stack
    BY <1>1, TopSound
  <2> QED
    BY <2>1 DEF Fits
<1>4. f.model \in DOMAIN q.snap.virtual
  BY <1>1, <1>3 DEF Belongs
<1>5. Head(f.scan) = f.scan[1] /\ 1 \in DOMAIN f.scan
  BY <1>1, Tailed, FrameParts DEF Named
<1>6. Head(f.scan) \in ToSet(q.snap.virtual[f.model].members)
  BY <1>3, <1>4, <1>5 DEF Belongs
<1>7. Candidate(r) \in Plans(q.snap, f.model)
  BY <1>6 DEF Plans, TargetOf, Candidate
<1> QED
  BY <1>1, <1>2, <1>3, <1>4, <1>6, <1>7

LEMMA JudgedFits ==
  ASSUME IInv, NEW r \in Requests, req[r].pc = "scan", Fits(req[r]), active \in Int,
         NEW f, SoundFrame(req[r].snap, req[r].spent, f), f.scan # <<>>,
         Belongs(req[r].snap, f), f.model = Top(r).model,
         NEW p \in Judged(r, f), req' = [req EXCEPT ![r] = p], active' = active
  PROVE  FitsTo(r, p)
<1> DEFINE c == req[r].snap
           n == req[r].spent
           e == [f EXCEPT !.scan = Tail(@)]
           next == Facing(c, e)
<1>1. /\ DOMAIN e = FrameFields /\ e.model = f.model /\ e.calls = f.calls
      /\ e.budget = f.budget /\ e.last = f.last /\ e.scan = Tail(f.scan)
      /\ e.targets = f.targets /\ e.cooling = f.cooling
  BY FrameParts DEF FrameFields
<1>0. f.model \in DOMAIN c.virtual
  BY ScanningAtHand
<1> HIDE DEF e
<1>2. SoundFrame(c, n, e)
  <2>2. Named(e.scan)
    BY <1>1, NamedPlans, FrameParts
  <2>3. QED  BY <1>1, <2>2, FrameKept, FrameParts
<1>3. Belongs(c, e)
  <2>1. /\ Len(f.scan) \in Nat \ {0} /\ DOMAIN f.scan = 1..Len(f.scan)
        /\ DOMAIN Tail(f.scan) = 1..(Len(f.scan) - 1)
        /\ \A i \in 1..(Len(f.scan) - 1) : Tail(f.scan)[i] = f.scan[i + 1]
    BY Tailed, FrameParts DEF Named
  <2>2. \A i \in DOMAIN e.scan : i + 1 \in DOMAIN f.scan /\ e.scan[i] = f.scan[i + 1]
    BY <1>1, <2>1
  <2> QED
    BY <1>0, <1>1, <2>2 DEF Belongs
<1>4. IF next.scan = <<>> THEN p \in Planned(r, next) ELSE p = WithTop(r, next, "scan")
  BY DEF Judged, e
<1>5. SoundFrame(c, n, next) /\ Belongs(c, next) /\ next.model = f.model
  <2>1. SoundFrame(c, n, next)
    BY <1>2, FacingFrame
  <2>2. Belongs(c, next) /\ next.model = e.model
    BY <1>2, <1>3, FacingBelongs
  <2> QED
    BY <1>1, <2>1, <2>2
<1> HIDE DEF next
<1>6. PICK g : /\ Belongs(c, g) /\ g.model = f.model
               /\ \/ p = WithTop(r, g, "dispatch")
                  \/ p = WithTop(r, g, "scan")
                  \/ \E a \in OwnFailures :
                       Unclashed(a) /\ p = Answering(WithTop(r, g, "return"), a)
  <2>1. CASE next.scan = <<>>
    <3>1. next.model \in DOMAIN c.virtual /\ p \in Planned(r, next)
      BY <1>0, <1>4, <1>5, <2>1
    <3>2. \E g : /\ Belongs(c, g) /\ g.model = next.model
                 /\ \/ p = WithTop(r, g, "dispatch")
                    \/ \E a \in OwnFailures :
                         Unclashed(a) /\ p = Answering(WithTop(r, g, "return"), a)
      BY <1>5, <3>1, PlannedFits
    <3> QED
      BY <1>5, <3>2
  <2>2. CASE next.scan # <<>>
    BY <1>4, <1>5, <2>2
  <2>3. QED  BY <2>1, <2>2
<1>7. req[r].answer = NoAnswer /\ req[r].stack # <<>>
  BY ScanningAtHand
<1>8. /\ p.snap = c /\ p.stack = Append(Front(req[r].stack), g)
      /\ p.pc # "enter" /\ Unclashed(p.answer)
      /\ p.answer = NoAnswer \/ p.answer.type = "failed"
  <2>1. ASSUME NEW pc
        PROVE  LET w == WithTop(r, g, pc)
               IN  /\ DOMAIN w = RequestFields /\ w.pc = pc /\ w.snap = c
                   /\ w.stack = Append(Front(req[r].stack), g) /\ w.answer = NoAnswer
    BY <1>7, WithTopFields
  <2>2. CASE p = WithTop(r, g, "dispatch")
    BY <2>1, <2>2, UnclashedAnswers
  <2>3. CASE p = WithTop(r, g, "scan")
    BY <2>1, <2>3, UnclashedAnswers
  <2>4. CASE \E a \in OwnFailures : Unclashed(a) /\ p = Answering(WithTop(r, g, "return"), a)
    <3>1. PICK a \in OwnFailures : Unclashed(a) /\ p = Answering(WithTop(r, g, "return"), a)
      BY <2>4
    <3>2. a.type = "failed"
      BY OwnFailuresHonest
    <3> QED
      BY <2>1, <3>1, <3>2, AnsweringFields
  <2>5. QED  BY <1>6, <2>2, <2>3, <2>4
<1> QED
  BY <1>6, <1>7, <1>8, TopFits

LEMMA FindReadyFits ==
  ASSUME IInv, NEW r \in Requests, Fits(req[r]), active \in Int, FindReady(r)
  PROVE  \E p : FitsTo(r, p)
<1> DEFINE f == Top(r)
           e == [f EXCEPT !.targets = Append(@, Candidate(r))]
<1>1. PICK p \in Judged(r, e) : req' = [req EXCEPT ![r] = p]
  BY DEF FindReady
<1>2. req[r].pc = "scan" /\ active' = active
  BY DEF FindReady
<1>3. /\ SoundFrame(req[r].snap, req[r].spent, f) /\ Belongs(req[r].snap, f)
      /\ f.scan # <<>> /\ f.model \in DOMAIN req[r].snap.virtual
      /\ Candidate(r) \in Plans(req[r].snap, f.model)
  BY <1>2, ScanningAtHand
<1>4. Candidate(r).model \in Names
  <2>1. Head(f.scan).model \in Names
    BY <1>3, NamedPlans, FrameParts
  <2> QED
    BY <2>1 DEF Candidate
<1>5. /\ DOMAIN e = FrameFields /\ e.model = f.model /\ e.calls = f.calls
      /\ e.budget = f.budget /\ e.last = f.last /\ e.scan = f.scan
      /\ e.targets = Append(f.targets, Candidate(r)) /\ e.cooling = f.cooling
  BY <1>3, FrameParts DEF FrameFields
<1> HIDE DEF e, f
<1>6. SoundFrame(req[r].snap, req[r].spent, e)
  <2>1. Named(e.targets)
    BY <1>3, <1>4, <1>5, NamedPlans, FrameParts
  <2>2. Honest(req[r].snap, req[r].spent, e.last) /\ (e.last = NoAnswer \/ e.last.type = "failed")
    BY <1>3, <1>5, FrameParts
  <2>3. Named(e.scan) /\ NamedCooling(e.cooling)
    BY <1>3, <1>5, FrameParts
  <2> QED
    BY <1>3, <1>5, <2>1, <2>2, <2>3, FrameKept
<1>7. Belongs(req[r].snap, e)
  <2>1. /\ DOMAIN f.targets = 1..Len(f.targets) /\ Len(f.targets) \in Nat
        /\ DOMAIN e.targets = 1..(Len(f.targets) + 1)
        /\ \A i \in 1..Len(f.targets) : e.targets[i] = f.targets[i]
        /\ e.targets[Len(f.targets) + 1] = Candidate(r)
    BY <1>3, <1>5, Pushed, FrameParts DEF Named
  <2>2. \A i \in DOMAIN e.targets : i \in DOMAIN f.targets \/ i = Len(f.targets) + 1
    BY <2>1
  <2>3. \A i \in DOMAIN e.targets : e.targets[i] \in Plans(req[r].snap, f.model)
    BY <1>3, <2>1, <2>2 DEF Belongs
  <2> QED
    BY <1>3, <1>5, <2>3 DEF Belongs
<1>8. e.scan # <<>> /\ e.model = Top(r).model
  BY <1>3, <1>5 DEF f
<1> QED
  BY <1>1, <1>2, <1>6, <1>7, <1>8, JudgedFits

LEMMA FindCoolingFits ==
  ASSUME IInv, NEW r \in Requests, Fits(req[r]), active \in Int, FindCooling(r)
  PROVE  \E p : FitsTo(r, p)
<1> DEFINE f == Top(r)
           until == IF f.look = <<>> THEN 0 ELSE Sooner(f.soon, Until(Head(f.look)))
           x == [target |-> Candidate(r), until |-> until]
           e == [f EXCEPT !.cooling = Append(@, x)]
<1>1. PICK p \in Judged(r, e) : req' = [req EXCEPT ![r] = p]
  BY DEF FindCooling
<1>2. req[r].pc = "scan" /\ active' = active
  BY DEF FindCooling
<1>3. /\ SoundFrame(req[r].snap, req[r].spent, f) /\ Belongs(req[r].snap, f)
      /\ f.scan # <<>> /\ f.model \in DOMAIN req[r].snap.virtual
      /\ Candidate(r) \in Plans(req[r].snap, f.model)
  BY <1>2, ScanningAtHand
<1>4. x.target = Candidate(r) /\ x.target.model \in Names
  <2>1. Head(f.scan).model \in Names
    BY <1>3, NamedPlans, FrameParts
  <2> QED
    BY <2>1 DEF Candidate
<1> HIDE DEF x
<1>5. /\ DOMAIN e = FrameFields /\ e.model = f.model /\ e.calls = f.calls
      /\ e.budget = f.budget /\ e.last = f.last /\ e.scan = f.scan
      /\ e.targets = f.targets /\ e.cooling = Append(f.cooling, x)
  BY <1>3, FrameParts DEF FrameFields
<1> HIDE DEF e, f
<1>6. SoundFrame(req[r].snap, req[r].spent, e)
  <2>1. NamedCooling(e.cooling)
    BY <1>3, <1>4, <1>5, NamedAlso, FrameParts
  <2>2. Honest(req[r].snap, req[r].spent, e.last) /\ (e.last = NoAnswer \/ e.last.type = "failed")
    BY <1>3, <1>5, FrameParts
  <2>3. Named(e.scan) /\ Named(e.targets)
    BY <1>3, <1>5, FrameParts
  <2> QED
    BY <1>3, <1>5, <2>1, <2>2, <2>3, FrameKept
<1>7. Belongs(req[r].snap, e)
  <2>1. /\ DOMAIN f.cooling = 1..Len(f.cooling) /\ Len(f.cooling) \in Nat
        /\ DOMAIN e.cooling = 1..(Len(f.cooling) + 1)
        /\ \A i \in 1..Len(f.cooling) : e.cooling[i] = f.cooling[i]
        /\ e.cooling[Len(f.cooling) + 1] = x
    BY <1>3, <1>5, Pushed, FrameParts DEF NamedCooling
  <2>2. \A i \in DOMAIN e.cooling : i \in DOMAIN f.cooling \/ i = Len(f.cooling) + 1
    BY <2>1
  <2>3. \A i \in DOMAIN e.cooling : e.cooling[i].target \in Plans(req[r].snap, f.model)
    BY <1>3, <1>4, <2>1, <2>2 DEF Belongs
  <2> QED
    BY <1>3, <1>5, <2>3 DEF Belongs
<1>8. e.scan # <<>> /\ e.model = Top(r).model
  BY <1>3, <1>5 DEF f
<1> QED
  BY <1>1, <1>2, <1>6, <1>7, <1>8, JudgedFits

LEMMA LookFurtherFits ==
  ASSUME IInv, NEW r \in Requests, Fits(req[r]), active \in Int, LookFurther(r)
  PROVE  \E p : FitsTo(r, p)
<1> DEFINE f == Top(r)
           e == [f EXCEPT !.look = Tail(@), !.soon = Sooner(@, Until(Head(f.look)))]
           p == WithTop(r, e, "scan")
<1>1. req' = [req EXCEPT ![r] = p] /\ active' = active /\ req[r].pc = "scan"
  BY DEF LookFurther
<1>2. /\ SoundFrame(req[r].snap, req[r].spent, f) /\ Belongs(req[r].snap, f)
      /\ req[r].stack # <<>> /\ req[r].answer = NoAnswer
  BY <1>1, ScanningAtHand
<1>3. Belongs(req[r].snap, e) /\ e.model = Top(r).model
  <2>1. /\ e.model = f.model /\ e.last = f.last /\ e.scan = f.scan
        /\ e.targets = f.targets /\ e.cooling = f.cooling
    BY <1>2, FrameParts DEF FrameFields
  <2> HIDE DEF e
  <2>2. Unclashed(e.last)
    BY <1>2, <2>1 DEF Belongs
  <2> QED
    BY <1>2, <2>1, <2>2, BelongsStill
<1> HIDE DEF e
<1>4. /\ p.pc = "scan" /\ p.snap = req[r].snap
      /\ p.stack = Append(Front(req[r].stack), e) /\ p.answer = NoAnswer
  BY <1>2, WithTopFields
<1> HIDE DEF p
<1> QED
  BY <1>1, <1>2, <1>3, <1>4, UnclashedAnswers, TopFits

LEMMA OwnUnclashed ==
  /\ Unclashed(Exhausted) /\ Unclashed(CancelledFailure)
  /\ Unclashed(MismatchBlocked) /\ Unclashed(NoUpstream)
<1>1. \A code, status, marks : Failure(code, status, marks).code = code
  BY DEF Failure, NoAnswer
<1> QED
  BY <1>1 DEF Unclashed, Exhausted, CancelledFailure, MismatchBlocked, NoUpstream, GroupCycle,
              TooDeep

(* A call of Execute answers with a failure.                                  *)
LEMMA FailedFits ==
  ASSUME IInv, NEW r \in Requests, Fits(req[r]), active \in Int,
         NEW p, req' = [req EXCEPT ![r] = p], active' = active,
         p.snap = req[r].snap, p.stack = req[r].stack, p.pc = "return",
         p.answer.type = "failed", Unclashed(p.answer)
  PROVE  FitsTo(r, p)
<1>1. Checkable(p)
  BY DEF Checkable
<1> QED
  BY <1>1, SameFits

LEMMA DescendFits ==
  ASSUME IInv, NEW r \in Requests, Fits(req[r]), active \in Int, Descend(r)
  PROVE  \E p : FitsTo(r, p)
<1> DEFINE q == req[r]
           p == [q EXCEPT !.pc = "enter"]
<1>1. DOMAIN q = RequestFields /\ Hand(q) \in DOMAIN q.snap.virtual
  BY AtHand DEF Descend, IsGroup, Hand, Top
<1>2. req' = [req EXCEPT ![r] = p] /\ active' = active
  BY DEF Descend
<1>3. p.pc = "enter" /\ p.snap = q.snap /\ p.stack = q.stack /\ p.answer = q.answer
  BY <1>1 DEF RequestFields
<1> HIDE DEF p
<1>4. Unclashed(p.answer) /\ Checkable(p) /\ Hand(p) = Hand(q)
  BY <1>3 DEF Fits, Checkable, Hand
<1> QED
  BY <1>1, <1>2, <1>3, <1>4, SameFits

LEMMA CallFits ==
  ASSUME IInv, NEW r \in Requests, Fits(req[r]), active \in Int, Call(r)
  PROVE  \E p : FitsTo(r, p)
<1> DEFINE q == req[r]
           s == Consumed(r)
           m == Head(Top(r).targets).model
           p == [q EXCEPT !.pc = "host", !.left = @ - 1, !.spent = @ + 1,
                          !.asked = m, !.stack = s]
<1>1. DOMAIN q = RequestFields /\ Sound(q) /\ q.stack # <<>> /\ Affordable(r) /\ q.pc = "dispatch"
  BY AtHand DEF Call, Placed
<1>2. req' = [req EXCEPT ![r] = p] /\ active' = active
  BY DEF Call
<1>3. p.pc = "host" /\ p.snap = q.snap /\ p.stack = s /\ p.answer = q.answer
  BY <1>1 DEF RequestFields
<1>4. /\ Len(s) = Len(q.stack) /\ DOMAIN s = DOMAIN q.stack
      /\ \A i \in DOMAIN s : s[i].targets = q.stack[i].targets
  BY <1>1, ConsumedFrames
<1>5. \A i \in DOMAIN s :
        /\ s[i].model = q.stack[i].model /\ s[i].last = q.stack[i].last
        /\ s[i].scan = q.stack[i].scan /\ s[i].cooling = q.stack[i].cooling
  <2> SUFFICES ASSUME NEW i \in DOMAIN q.stack
               PROVE  /\ s[i].model = q.stack[i].model /\ s[i].last = q.stack[i].last
                      /\ s[i].scan = q.stack[i].scan /\ s[i].cooling = q.stack[i].cooling
    BY <1>4
  <2>1. DOMAIN q.stack[i] = FrameFields
    BY <1>1 DEF Sound, SoundFrame
  <2> QED
    BY <2>1 DEF Consumed, FrameFields
<1> HIDE DEF s, p
<1>6. \A i \in DOMAIN p.stack : Belongs(p.snap, p.stack[i])
  <2> SUFFICES ASSUME NEW i \in DOMAIN q.stack
               PROVE  Belongs(q.snap, s[i])
    BY <1>3, <1>4
  <2>1. Belongs(q.snap, q.stack[i])
    BY DEF Fits
  <2>2. Unclashed(s[i].last)
    BY <1>4, <1>5, <2>1 DEF Belongs
  <2> QED
    BY <1>4, <1>5, <2>1, <2>2, BelongsStill
<1>7. Chained(p)
  <2>1. DOMAIN q.stack = 1..Len(q.stack) /\ Len(q.stack) \in Nat
    BY <1>1, TopSound
  <2>2. \A i \in 1..(Len(q.stack) - 1) : i \in DOMAIN q.stack /\ i + 1 \in DOMAIN q.stack
    BY <2>1
  <2> QED
    BY <1>3, <1>4, <1>5, <2>2 DEF Fits, Chained
<1>8. Fits(p)
  BY <1>3, <1>6, <1>7 DEF Fits, Checkable
<1>9. active' = active + (Len(p.stack) - Len(q.stack))
  <2>1. Len(q.stack) \in Nat
    BY <1>1, TopSound
  <2> QED
    BY <1>2, <1>3, <1>4, <2>1
<1> QED
  BY <1>2, <1>8, <1>9 DEF FitsTo

LEMMA ExhaustFits ==
  ASSUME IInv, NEW r \in Requests, Fits(req[r]), active \in Int, Exhaust(r)
  PROVE  \E p : FitsTo(r, p)
<1> DEFINE q == req[r]
           a == Answering(q, Exhausted)
           p == [a EXCEPT !.stopped = TRUE]
<1>1. req' = [req EXCEPT ![r] = p] /\ active' = active /\ DOMAIN q = RequestFields
  BY AtHand DEF Exhaust
<1>2. /\ DOMAIN a = RequestFields /\ a.pc = "return" /\ a.answer = Exhausted
      /\ a.snap = q.snap /\ a.stack = q.stack
  BY <1>1, AnsweringFields
<1> HIDE DEF a
<1>3. p.pc = "return" /\ p.answer = Exhausted /\ p.snap = q.snap /\ p.stack = q.stack
  BY <1>2 DEF RequestFields
<1> HIDE DEF p
<1>4. Exhausted.type = "failed" /\ Unclashed(Exhausted)
  BY OwnFailuresHonest, OwnUnclashed DEF OwnFailures
<1> QED
  BY <1>1, <1>3, <1>4, FailedFits

LEMMA CancelFits ==
  ASSUME IInv, NEW r \in Requests, Fits(req[r]), active \in Int, Cancel(r)
  PROVE  \E p : FitsTo(r, p)
<1> DEFINE q == req[r]
           a == Answering(q, CancelledFailure)
           p == [a EXCEPT !.stopped = TRUE]
<1>1. req' = [req EXCEPT ![r] = p] /\ active' = active /\ DOMAIN q = RequestFields
  BY AtHand DEF Cancel
<1>2. /\ DOMAIN a = RequestFields /\ a.pc = "return" /\ a.answer = CancelledFailure
      /\ a.snap = q.snap /\ a.stack = q.stack
  BY <1>1, AnsweringFields
<1> HIDE DEF a
<1>3. p.pc = "return" /\ p.answer = CancelledFailure /\ p.snap = q.snap /\ p.stack = q.stack
  BY <1>2 DEF RequestFields
<1> HIDE DEF p
<1>4. CancelledFailure.type = "failed" /\ Unclashed(CancelledFailure)
  BY OwnFailuresHonest, OwnUnclashed DEF OwnFailures
<1> QED
  BY <1>1, <1>3, <1>4, FailedFits

LEMMA GiveUpFits ==
  ASSUME IInv, NEW r \in Requests, Fits(req[r]), active \in Int, GiveUp(r)
  PROVE  \E p : FitsTo(r, p)
<1> DEFINE q == req[r]
           f == Top(r)
           c == q.snap
           spent == Cardinality(Path(r)) > 1 /\ \E i \in Budgeted(r) : q.stack[i].budget = 0
           last == IF IsGroup(r, f.model) THEN Wrapped(LastOf(f), f.model) ELSE LastOf(f)
           ans == IF spent THEN Exhausted ELSE last
           a == Answering(q, ans)
           p == [a EXCEPT !.stopped = q.stopped \/ spent]
<1>1. req' = [req EXCEPT ![r] = p] /\ active' = active /\ q.pc = "dispatch"
  BY DEF GiveUp
<1>2. /\ Sound(q) /\ DOMAIN q = RequestFields /\ q.stack # <<>> /\ c \in Configs
      /\ SoundFrame(c, q.spent, f) /\ f = Last(q.stack)
  BY <1>1, AtHand DEF Placed
<1>3. /\ Honest(c, q.spent, LastOf(f)) /\ LastOf(f).type = "failed"
  <2>1. Honest(c, q.spent, NoUpstream) /\ NoUpstream.type = "failed"
    BY OwnFailuresHonest DEF OwnFailures
  <2> QED
    BY <1>2, <2>1, FrameParts DEF LastOf
<1>4. Unclashed(LastOf(f))
  <2>1. f = q.stack[Len(q.stack)] /\ Len(q.stack) \in DOMAIN q.stack
    BY <1>2, TopSound
  <2>2. Belongs(c, f)
    BY <2>1 DEF Fits
  <2> QED
    BY <2>2, OwnUnclashed DEF Belongs, LastOf
<1>5. last.type = "failed" /\ Unclashed(last)
  <2>1. CASE IsGroup(r, f.model)
    <3>1. f.model \in DOMAIN c.virtual
      BY <2>1 DEF IsGroup
    <3>2. Wrapped(LastOf(f), f.model).type = "failed" /\ Wrapped(LastOf(f), f.model).code = LastOf(f).code
      BY <1>2, <1>3, <3>1, WrappedHonest
    <3> QED
      BY <1>4, <2>1, <3>2 DEF Unclashed
  <2>2. CASE ~IsGroup(r, f.model)
    BY <1>3, <1>4, <2>2
  <2> QED
    BY <2>1, <2>2
<1>6. Exhausted.type = "failed" /\ Unclashed(Exhausted)
  BY OwnFailuresHonest, OwnUnclashed DEF OwnFailures
<1>7. ans.type = "failed" /\ Unclashed(ans)
  BY <1>5, <1>6
<1> HIDE DEF ans
<1>8. /\ DOMAIN a = RequestFields /\ a.pc = "return" /\ a.answer = ans
      /\ a.snap = q.snap /\ a.stack = q.stack
  BY <1>2, AnsweringFields
<1> HIDE DEF a, spent
<1>9. p.pc = "return" /\ p.answer = ans /\ p.snap = q.snap /\ p.stack = q.stack
  BY <1>8 DEF RequestFields
<1> HIDE DEF p
<1> QED
  BY <1>1, <1>7, <1>9, FailedFits

LEMMA OtherCodes ==
  ASSUME NEW a, a.code = "" \/ a.code = "upstream_error"
  PROVE  Unclashed(a)
  BY ClashCodes DEF Unclashed

(* What the host's answer is checked against is what the check in the         *)
(* invariant wants.                                                           *)
LEMMA WantedIsExpected ==
  ASSUME NEW r \in Requests
  PROVE  Expected(r) = Wanted(req[r])
<1>1. (\E i \in Path(r) : req[r].snap.virtual[req[r].stack[i].model].guard) <=> Guarding(req[r])
  BY DEF Path, IsGroup, Guarding
<1> QED
  BY <1>1 DEF Expected, Wanted, Top

LEMMA DeliveredFits ==
  ASSUME IInv, NEW r \in Requests, Fits(req[r]), active \in Int, req[r].pc = "host", NEW s,
         NEW type \in {"delivered", "broken"}, NEW committed, Accepts(Expected(r), s),
         req' = [req EXCEPT ![r] =
                   [Settled(Answering(req[r], Delivery(type, Leaf(r), s)), Leaf(r))
                      EXCEPT !.stopped = TRUE, !.committed = committed]],
         active' = active
  PROVE  \E p : FitsTo(r, p)
<1> DEFINE q == req[r]
           d == Delivery(type, Leaf(r), s)
           a == Answering(q, d)
           b == Settled(a, Leaf(r))
           p == [b EXCEPT !.stopped = TRUE, !.committed = committed]
<1>1. /\ DOMAIN q = RequestFields /\ Leaf(r) \notin DOMAIN q.snap.virtual
  BY HostAtHand
<1>2. d.by = Leaf(r) /\ d.served = s /\ d.code = ""
  BY DEF Delivery, NoAnswer
<1> HIDE DEF d
<1>3. /\ DOMAIN a = RequestFields /\ a.pc = "return" /\ a.answer = d
      /\ a.snap = q.snap /\ a.stack = q.stack
  BY <1>1, AnsweringFields
<1> HIDE DEF a
<1>4. /\ DOMAIN b = RequestFields /\ b.pc = "return" /\ b.answer = d
      /\ b.snap = q.snap /\ b.stack = q.stack
  BY <1>3 DEF Settled, RequestFields
<1>5. req' = [req EXCEPT ![r] = p]
  BY DEF a, d
<1> HIDE DEF b
<1>6. p.pc = "return" /\ p.answer = d /\ p.snap = q.snap /\ p.stack = q.stack
  BY <1>4 DEF RequestFields
<1> HIDE DEF p
<1>7. Unclashed(p.answer)
  <2>1. p.answer.code = ""
    BY <1>2, <1>6
  <2> QED
    BY <2>1, OtherCodes
<1>8. Wanted(p) = Wanted(q) /\ Wanted(q) = Expected(r)
  BY <1>6, WantedIsExpected DEF Wanted, Guarding
<1>9. Checkable(p)
  BY <1>1, <1>2, <1>6, <1>8 DEF Checkable
<1> QED
  BY <1>5, <1>6, <1>7, <1>9, SameFits

LEMMA RetryFits ==
  ASSUME IInv, NEW r \in Requests, Fits(req[r]), active \in Int, NEW s, Retry(r, s)
  PROVE  \E p : FitsTo(r, p)
<1> DEFINE q == req[r]
           f == Top(r)
           e == [f EXCEPT !.try = @ + 1]
           w == WithTop(r, e, "dispatch")
           p == [w EXCEPT !.owed = @ \cup {Leaf(r)}]
<1>1. req' = [req EXCEPT ![r] = p] /\ active' = active /\ q.pc = "host"
  BY DEF Retry
<1>2. /\ Sound(q) /\ q.stack # <<>> /\ SoundFrame(q.snap, q.spent, f) /\ q.answer = NoAnswer
  BY <1>1, HostAtHand
<1>3. Belongs(q.snap, f)
  <2>1. f = q.stack[Len(q.stack)] /\ Len(q.stack) \in DOMAIN q.stack
    BY <1>2, TopSound DEF Top
  <2> QED
    BY <2>1 DEF Fits
<1>4. Belongs(q.snap, e) /\ e.model = f.model
  <2>1. /\ e.model = f.model /\ e.last = f.last /\ e.scan = f.scan
        /\ e.targets = f.targets /\ e.cooling = f.cooling
    BY <1>2, FrameParts DEF FrameFields
  <2> HIDE DEF e
  <2>2. Unclashed(e.last)
    BY <1>3, <2>1 DEF Belongs
  <2> QED
    BY <1>3, <2>1, <2>2, BelongsStill
<1> HIDE DEF e
<1>5. /\ DOMAIN w = RequestFields /\ w.pc = "dispatch" /\ w.snap = q.snap
      /\ w.stack = Append(Front(q.stack), e) /\ w.answer = NoAnswer
  BY <1>2, WithTopFields
<1> HIDE DEF w
<1>6. /\ p.pc = "dispatch" /\ p.snap = q.snap
      /\ p.stack = Append(Front(q.stack), e) /\ p.answer = NoAnswer
  BY <1>5 DEF RequestFields
<1> HIDE DEF p
<1>7. FitsTo(r, p)
  <2>1. e.model = Top(r).model /\ Belongs(req[r].snap, e) /\ req[r].stack # <<>>
    BY <1>2, <1>4
  <2>2. p.pc # "enter" /\ Unclashed(p.answer)
    BY <1>6, UnclashedAnswers
  <2> HIDE DEF f
  <2> QED
    BY <1>1, <1>6, <2>1, <2>2, TopFits
<1> QED
  BY <1>7

LEMMA NextTargetFits ==
  ASSUME IInv, NEW r \in Requests, Fits(req[r]), active \in Int, req[r].pc = "host",
         NEW a, Unclashed(a), active' = active,
         req' = [req EXCEPT ![r] =
           Settled(WithTop(r, [Advanced(Top(r)) EXCEPT !.last = a], "dispatch"), Leaf(r))]
  PROVE  \E p : FitsTo(r, p)
<1> DEFINE q == req[r]
           f == Top(r)
           e == [Advanced(f) EXCEPT !.last = a]
           w == WithTop(r, e, "dispatch")
           p == Settled(w, Leaf(r))
<1>1. /\ Sound(q) /\ q.stack # <<>> /\ f.targets # <<>> /\ SoundFrame(q.snap, q.spent, f)
      /\ q.answer = NoAnswer
  BY HostAtHand
<1>2. Belongs(q.snap, f)
  <2>1. f = q.stack[Len(q.stack)] /\ Len(q.stack) \in DOMAIN q.stack
    BY <1>1, TopSound DEF Top
  <2> QED
    BY <2>1 DEF Fits
<1>3. Belongs(q.snap, e) /\ e.model = f.model
  BY <1>1, <1>2, AdvancedBelongs
<1> HIDE DEF e
<1>4. /\ DOMAIN w = RequestFields /\ w.pc = "dispatch" /\ w.snap = q.snap
      /\ w.stack = Append(Front(q.stack), e) /\ w.answer = NoAnswer
  BY <1>1, WithTopFields
<1>5. req' = [req EXCEPT ![r] = p]
  BY DEF e
<1> HIDE DEF w
<1>6. /\ p.pc = "dispatch" /\ p.snap = q.snap
      /\ p.stack = Append(Front(q.stack), e) /\ p.answer = NoAnswer
  BY <1>4 DEF RequestFields, Settled
<1> HIDE DEF p
<1>7. FitsTo(r, p)
  <2>1. e.model = Top(r).model /\ Belongs(req[r].snap, e) /\ req[r].stack # <<>>
    BY <1>1, <1>3
  <2>2. p.pc # "enter" /\ Unclashed(p.answer)
    BY <1>6, UnclashedAnswers
  <2> HIDE DEF f
  <2> QED
    BY <1>5, <1>6, <2>1, <2>2, TopFits
<1> QED
  BY <1>7

LEMMA SubstitutedFits ==
  ASSUME IInv, NEW r \in Requests, Fits(req[r]), active \in Int,
         NEW s, NEW ov, Substituted(r, s, ov)
  PROVE  \E p : FitsTo(r, p)
<1>1. /\ req[r].pc = "host" /\ active' = active
      /\ req' = [req EXCEPT ![r] =
           Settled(WithTop(r, [Advanced(Top(r)) EXCEPT !.last = MismatchBlocked],
                           "dispatch"), Leaf(r))]
  BY DEF Substituted
<1> QED
  BY <1>1, OwnUnclashed, NextTargetFits

LEMMA FailFits ==
  ASSUME IInv, NEW r \in Requests, Fits(req[r]), active \in Int,
         NEW h \in Replies, NEW ov, Fail(r, ErrorOf(h), ov)
  PROVE  \E p : FitsTo(r, p)
<1> DEFINE q == req[r]
           err == ErrorOf(h)
           u == Upstream(err)
           k == KindOf(err)
           halt == \A i \in DOMAIN q.stack : ~GoesOn(r, q.stack[i], k)
<1>1. q.pc = "host" /\ DOMAIN q = RequestFields /\ active' = active /\ q.spent \in Nat \ {0}
  <2>1. q.pc = "host" /\ active' = active
    BY DEF Fail
  <2> QED
    BY <2>1, HostAtHand
<1>2. u.type = "failed" /\ u.code = "upstream_error"
  <2>1. err.status \in Nat /\ err.msg.marks \subseteq Marks
    BY ErrorsTyped
  <2> HIDE DEF err
  <2> QED
    BY <1>1, <2>1, UpstreamHonest
<1> HIDE DEF u
<1>3. Unclashed(u)
  BY <1>2, OtherCodes
<1> USE DEF u
<1>4. CASE GoesOn(r, Top(r), k)
  <2>1. req' = [req EXCEPT ![r] =
           Settled(WithTop(r, [Advanced(Top(r)) EXCEPT !.last = u], "dispatch"), Leaf(r))]
    BY <1>4 DEF Fail
  <2> HIDE DEF u
  <2> QED
    BY <1>1, <1>3, <2>1, NextTargetFits
<1>5. CASE ~GoesOn(r, Top(r), k)
  <2> DEFINE a == Answering(q, u)
             b == [a EXCEPT !.stopped = halt]
             p == Settled(b, Leaf(r))
  <2>1. req' = [req EXCEPT ![r] = p]
    BY <1>5 DEF Fail
  <2> HIDE DEF u, k
  <2>2. /\ DOMAIN a = RequestFields /\ a.pc = "return" /\ a.answer = u
        /\ a.snap = q.snap /\ a.stack = q.stack
    BY <1>1, AnsweringFields
  <2> HIDE DEF a
  <2> DEFINE stop == halt
  <2>4. b = [a EXCEPT !.stopped = stop]
    OBVIOUS
  <2> HIDE DEF stop, b
  <2>5. /\ DOMAIN b = RequestFields /\ b.pc = "return" /\ b.answer = u
        /\ b.snap = q.snap /\ b.stack = q.stack
    BY <2>2, <2>4 DEF RequestFields
  <2>6. p.pc = "return" /\ p.answer = u /\ p.snap = q.snap /\ p.stack = q.stack
    BY <2>5 DEF RequestFields, Settled
  <2> HIDE DEF p
  <2> QED
    BY <1>1, <1>2, <1>3, <2>1, <2>6, FailedFits
<1> QED
  BY <1>4, <1>5

LEMMA FinishFits ==
  ASSUME IInv, NEW r \in Requests, Fits(req[r]), active \in Int, Finish(r)
  PROVE  \E p : FitsTo(r, p)
<1> DEFINE q == req[r]
           n == Len(q.stack)
           p == [Popped(r) EXCEPT !.pc = "done"]
<1>1. q.pc = "return" /\ n = 1 /\ req' = [req EXCEPT ![r] = p] /\ active' = active - 1
  BY DEF Finish
<1>2. Sound(q) /\ DOMAIN q = RequestFields /\ q.stack # <<>>
  BY <1>1, ReturningAtHand
<1>3. /\ p.pc = "done" /\ p.answer = q.answer /\ p.snap = q.snap /\ p.stack = Front(q.stack)
  BY <1>2 DEF Popped, RequestFields
<1> HIDE DEF p
<1>4. (\A i \in DOMAIN p.stack : Belongs(p.snap, p.stack[i])) /\ Chained(p)
  BY <1>2, <1>3, PoppedFits
<1>5. Len(p.stack) = n - 1
  BY <1>2, <1>3, PoppedFits
<1>6. Fits(p)
  BY <1>3, <1>4 DEF Fits, Checkable
<1>7. active' = active + (Len(p.stack) - n)
  BY <1>1, <1>5
<1> QED
  BY <1>1, <1>6, <1>7 DEF FitsTo

LEMMA PassUpFits ==
  ASSUME IInv, NEW r \in Requests, Fits(req[r]), active \in Int, PassUp(r)
  PROVE  \E p : FitsTo(r, p)
<1> DEFINE q == req[r]
           n == Len(q.stack)
           p == Popped(r)
<1>1. q.pc = "return" /\ n > 1 /\ req' = [req EXCEPT ![r] = p] /\ active' = active - 1
  BY DEF PassUp
<1>2. Sound(q) /\ DOMAIN q = RequestFields /\ q.stack # <<>> /\ n \in Nat
  BY <1>1, ReturningAtHand
<1>3. p.pc = "return" /\ p.answer = q.answer /\ p.snap = q.snap /\ p.stack = Front(q.stack)
  BY <1>1, <1>2 DEF Popped, RequestFields
<1> HIDE DEF p
<1>4. (\A i \in DOMAIN p.stack : Belongs(p.snap, p.stack[i])) /\ Chained(p)
  BY <1>2, <1>3, PoppedFits
<1>5. Len(p.stack) = n - 1
  BY <1>2, <1>3, PoppedFits
<1>6. Hand(p) \in DOMAIN p.snap.virtual
  BY <1>1, <1>2, <1>3, PoppedFits
<1>7. Fits(p)
  BY <1>1, <1>3, <1>4, <1>6 DEF Fits, Checkable
<1>8. active' = active + (Len(p.stack) - n)
  BY <1>1, <1>2, <1>5
<1> QED
  BY <1>1, <1>7, <1>8 DEF FitsTo

LEMMA FailOverFits ==
  ASSUME IInv, NEW r \in Requests, Fits(req[r]), active \in Int, FailOver(r)
  PROVE  \E p : FitsTo(r, p)
<1> DEFINE q == req[r]
           n == Len(q.stack)
           f == Parent(r)
           e == [Advanced(f) EXCEPT !.last = q.answer]
           o == Popped(r)
           p == [o EXCEPT !.pc = "dispatch", !.answer = NoAnswer,
                          !.stack = Append(Front(o.stack), e)]
<1>1. /\ q.pc = "return" /\ n > 1 /\ ParentGoesOn(r) /\ active' = active - 1
      /\ req' = [req EXCEPT ![r] =
                   [o EXCEPT !.pc = "dispatch", !.answer = NoAnswer,
                             !.stack = Append(Front(@), e)]]
  BY DEF FailOver
<1>2. /\ Sound(q) /\ DOMAIN q = RequestFields /\ q.stack # <<>> /\ n \in Nat \ {0} /\ n # 1
      /\ Honest(q.snap, q.spent, q.answer)
      /\ \A i \in 1..(n - 1) : q.stack[i].targets # <<>>
  BY <1>1, ReturningAtHand
<1>3. /\ DOMAIN o = RequestFields /\ o.snap = q.snap /\ o.stack = Front(q.stack)
      /\ o.left = q.left /\ o.spent = q.spent /\ o.answer = q.answer /\ o.pc = "return"
  BY <1>1, <1>2 DEF Popped, RequestFields
<1> HIDE DEF o
<1>4. req' = [req EXCEPT ![r] = p]
  <2>1. [o EXCEPT !.pc = "dispatch", !.answer = NoAnswer, !.stack = Append(Front(@), e)] = p
    BY <1>3 DEF RequestFields
  <2> QED
    BY <1>1, <2>1
<1>5. (\A i \in DOMAIN o.stack : Belongs(o.snap, o.stack[i])) /\ Chained(o)
  BY <1>2, <1>3, PoppedFits
<1>6. Len(o.stack) = n - 1
  BY <1>2, <1>3, PoppedFits
<1>7. o.stack # <<>> /\ Last(o.stack) = f /\ Hand(o) \in DOMAIN o.snap.virtual
  BY <1>1, <1>2, <1>3, PoppedFits DEF Parent
<1>8. Fits(o)
  <2>1. q.answer.type = "failed"
    BY <1>1 DEF ParentGoesOn
  <2>2. Checkable(o)
    BY <1>3, <2>1 DEF Checkable
  <2>3. Unclashed(o.answer)
    BY <1>3 DEF Fits
  <2> QED
    BY <1>3, <1>5, <2>2, <2>3 DEF Fits
<1>9. Sound(o)
  BY <1>2, <1>3, Returned
<1>10. /\ Belongs(q.snap, f) /\ SoundFrame(q.snap, q.spent, f) /\ f.targets # <<>>
  <2>1. n - 1 \in 1..(n - 1) /\ n - 1 \in DOMAIN q.stack
    BY <1>1, <1>2, TopSound
  <2> QED
    BY <1>2, <2>1 DEF Parent, Fits, Sound
<1>11. Unclashed(q.answer)
  BY DEF Fits
<1> HIDE DEF f
<1>12. Belongs(q.snap, e) /\ e.model = f.model
  BY <1>10, <1>11, AdvancedBelongs
<1> HIDE DEF e
<1>13. /\ p.pc = "dispatch" /\ p.answer = NoAnswer /\ p.snap = q.snap
       /\ p.stack = Append(Front(o.stack), e)
  BY <1>3 DEF RequestFields
<1> HIDE DEF p
<1>14. (\A i \in DOMAIN p.stack : Belongs(p.snap, p.stack[i])) /\ Chained(p)
  BY <1>3, <1>7, <1>8, <1>9, <1>12, <1>13, ReplacedFits
<1>15. Len(p.stack) = n - 1
  BY <1>3, <1>6, <1>7, <1>8, <1>9, <1>12, <1>13, ReplacedFits
<1>16. NoAnswer.type = "none" /\ Unclashed(NoAnswer)
  BY UnclashedAnswers, NoAnswerHonest
<1>17. Fits(p)
  BY <1>13, <1>14, <1>16 DEF Fits, Checkable
<1>18. active' = active + (Len(p.stack) - n)
  BY <1>1, <1>2, <1>15
<1> QED
  BY <1>4, <1>17, <1>18 DEF FitsTo

-----------------------------------------------------------------------------
(* All steps keep the second invariant.                                       *)
Fitted(r) == \E p : FitsTo(r, p)

LEMMA WorkFits ==
  ASSUME IInv, NEW r \in Requests, Fits(req[r]), active \in Int, Work(r)
  PROVE  Fitted(r)
<1>1. CASE EnterRefused(r)
  BY <1>1, EnterRefusedFits DEF Fitted
<1>2. CASE EnterGroup(r)
  BY <1>2, EnterGroupFits DEF Fitted
<1>3. CASE EnterDirect(r)
  BY <1>3, EnterDirectFits DEF Fitted
<1>4. CASE FindReady(r)
  BY <1>4, FindReadyFits DEF Fitted
<1>5. CASE LookFurther(r)
  BY <1>5, LookFurtherFits DEF Fitted
<1>6. CASE FindCooling(r)
  BY <1>6, FindCoolingFits DEF Fitted
<1>7. CASE Descend(r)
  BY <1>7, DescendFits DEF Fitted
<1>8. CASE Call(r)
  BY <1>8, CallFits DEF Fitted
<1>9. CASE Exhaust(r)
  BY <1>9, ExhaustFits DEF Fitted
<1>10. CASE GiveUp(r)
  BY <1>10, GiveUpFits DEF Fitted
<1>11. CASE Finish(r)
  BY <1>11, FinishFits DEF Fitted
<1>12. CASE FailOver(r)
  BY <1>12, FailOverFits DEF Fitted
<1>13. CASE PassUp(r)
  BY <1>13, PassUpFits DEF Fitted
<1> QED
  BY <1>1, <1>2, <1>3, <1>4, <1>5, <1>6, <1>7, <1>8, <1>9, <1>10, <1>11, <1>12, <1>13
     DEF Work, Scan

LEMMA ReplyFits ==
  ASSUME IInv, NEW r \in Requests, Fits(req[r]), active \in Int, Reply(r)
  PROVE  Fitted(r)
<1>1. PICK h \in Replies :
        \/ Cancel(r)
        \/ \E s \in Serves : \/ Served(r, s) \/ Retry(r, s)
                             \/ \E ov \in Unrepresentable : Substituted(r, s, ov)
        \/ \E ov \in Unrepresentable : Fail(r, ErrorOf(h), ov)
        \/ \E s \in Serves, ov \in Unrepresentable : Broken(r, s, ErrorOf(h), ov)
  BY DEF Reply
<1>2. CASE Cancel(r)
  BY <1>2, CancelFits DEF Fitted
<1>3. ASSUME NEW s, Served(r, s)  PROVE Fitted(r)
  <2>1. /\ req[r].pc = "host" /\ Accepts(Expected(r), s) /\ active' = active
        /\ req' = [req EXCEPT ![r] =
                   [Settled(Answering(req[r], Delivery("delivered", Leaf(r), s)), Leaf(r))
                      EXCEPT !.stopped = TRUE, !.committed = req[r].stream]]
    BY <1>3 DEF Served
  <2> QED
    BY <2>1, DeliveredFits DEF Fitted
<1>4. ASSUME NEW s, Retry(r, s)  PROVE Fitted(r)
  BY <1>4, RetryFits DEF Fitted
<1>5. ASSUME NEW s, NEW ov, Substituted(r, s, ov)  PROVE Fitted(r)
  BY <1>5, SubstitutedFits DEF Fitted
<1>6. ASSUME NEW ov, Fail(r, ErrorOf(h), ov)  PROVE Fitted(r)
  BY <1>6, FailFits DEF Fitted
<1>7. ASSUME NEW s, NEW ov, Broken(r, s, ErrorOf(h), ov)  PROVE Fitted(r)
  <2>1. /\ req[r].pc = "host" /\ Accepts(Expected(r), s) /\ active' = active
        /\ req' = [req EXCEPT ![r] =
                   [Settled(Answering(req[r], Delivery("broken", Leaf(r), s)), Leaf(r))
                      EXCEPT !.stopped = TRUE, !.committed = TRUE]]
    BY <1>7 DEF Broken
  <2> QED
    BY <2>1, DeliveredFits DEF Fitted
<1> QED
  BY <1>1, <1>2, <1>3, <1>4, <1>5, <1>6, <1>7

LEMMA DepthsSound ==
  ASSUME IInv
  PROVE  /\ IsFiniteSet(Requests)
         /\ \A r \in Requests : Depths[r] = Len(req[r].stack) /\ Depths[r] \in Nat
<1>1. \A r \in Requests : Len(req[r].stack) \in Nat
  BY AtHand, Pushed DEF Sound
<1> QED
  BY <1>1, RequestsAssumption DEF Depths

LEMMA FitsKept ==
  ASSUME IInv, FInv, IInv', NEW r \in Requests, NEW p, FitsTo(r, p)
  PROVE  FInv'
<1> DEFINE D == Depths
           E == Depths'
           S == Requests
           T == Requests \ {r}
           n == Len(p.stack)
<1>1. \A k \in Requests : req'[k] = IF k = r THEN p ELSE req[k]
  BY DEF FitsTo, IInv
<1>2. \A k \in Requests : Fits(req'[k])
  BY <1>1 DEF FitsTo, FInv
<1>3. /\ IsFiniteSet(S) /\ IsFiniteSet(T)
      /\ \A k \in S : D[k] \in Nat /\ E[k] \in Nat
  <2>1. IsFiniteSet(S) /\ \A k \in S : D[k] \in Nat
    BY DepthsSound
  <2>2. \A k \in S : Len(req'[k].stack) \in Nat
    <3>1. \A q : Sound(q) => Len(q.stack) \in Nat
      BY Pushed DEF Sound
    <3> QED
      BY <3>1 DEF IInv, Good
  <2>3. \A k \in S : E[k] \in Nat
    BY <2>2 DEF Depths
  <2> QED
    BY <2>1, <2>3, FS_Subset
<1>4. D[r] = Len(req[r].stack) /\ E[r] = n /\ \A k \in T : E[k] = D[k]
  BY <1>1 DEF Depths
<1>5. active = SumOver(D, S) /\ active' = active + (n - Len(req[r].stack))
  BY DEF FInv, FitsTo
<1> HIDE DEF D, E, S, T, n
<1>6. r \in S /\ T = S \ {r} /\ T \subseteq S
  BY DEF S, T
<1>7. SumOver(D, S) = D[r] + SumOver(D, T)
  BY <1>3, <1>6, SumGrows
<1>8. SumOver(E, S) = E[r] + SumOver(E, T)
  BY <1>3, <1>6, SumGrows
<1>9. SumOver(E, T) = SumOver(D, T)
  BY <1>3, <1>4, <1>6, SumSame
<1>10. SumOver(D, T) \in Int
  BY <1>3, <1>6, SumGrows
<1>11. D[r] \in Int /\ E[r] \in Int
  BY <1>3, <1>6
<1>12. active' = SumOver(E, S)
  BY <1>4, <1>5, <1>7, <1>8, <1>9, <1>10, <1>11
<1>13. (SumOver(Depths, Requests))' = SumOver(E, S)
  BY DEF E, S, SumOver, MapThenSumSet, MapThenFoldSet
<1> QED
  BY <1>2, <1>12, <1>13 DEF FInv

LEMMA FitsThrough ==
  ASSUME IInv, FInv, [Next]_vars, IInv'
  PROVE  FInv'
<1>1. active \in Int
  BY DepthsSound, SumGrows DEF FInv
<1>2. \A r \in Requests : Fits(req[r])
  BY DEF FInv
<1>3. ASSUME NEW r \in Requests, Fitted(r)  PROVE FInv'
  BY <1>3, FitsKept DEF Fitted
<1>4. ASSUME NEW r \in Requests, Work(r)  PROVE FInv'
  BY <1>1, <1>2, <1>3, <1>4, WorkFits
<1>5. ASSUME NEW r \in Requests, Reply(r)  PROVE FInv'
  BY <1>1, <1>2, <1>3, <1>5, ReplyFits
<1>6. ASSUME NEW r \in Requests, NEW m \in Names, NEW stream, Claim(r, m, stream)
      PROVE  FInv'
  BY <1>1, <1>2, <1>3, <1>6, ClaimFits DEF Fitted
<1>7. ASSUME req' = req, active' = active  PROVE FInv'
  <2>1. Depths' = Depths
    BY <1>7 DEF Depths
  <2>2. (SumOver(Depths, Requests))' = SumOver(Depths, Requests)
    BY <2>1 DEF SumOver, MapThenSumSet, MapThenFoldSet
  <2> QED
    BY <1>2, <1>7, <2>2 DEF FInv
<1>8. CASE \E c \in Configs : Reconfigure(c)
  BY <1>7, <1>8 DEF Reconfigure
<1>9. CASE \E m \in Resettable : ResetCooldown(m)
  BY <1>7, <1>9 DEF ResetCooldown
<1>10. CASE Tick
  BY <1>7, <1>10 DEF Tick
<1>11. CASE Rest \/ UNCHANGED vars
  BY <1>7, <1>11 DEF Rest, vars
<1> QED
  BY <1>4, <1>5, <1>6, <1>8, <1>9, <1>10, <1>11 DEF Next

LEMMA FitsAtFirst ==
  ASSUME Init
  PROVE  FInv
<1>1. req = [r \in Requests |-> Request] /\ active = 0
  BY DEF Init
<1>2. Request.stack = <<>> /\ Request.answer = NoAnswer /\ Request.pc = "idle"
  BY DEF Request
<1>3. Fits(Request)
  <2>1. DOMAIN <<>> = {} /\ 1..(Len(<<>>) - 1) = {}
    OBVIOUS
  <2> QED
    BY <1>2, <2>1, UnclashedAnswers DEF Fits, Chained, Checkable
<1>4. \A r \in Requests : Depths[r] = 0
  BY <1>1, <1>2 DEF Depths
<1>5. SumOver(Depths, Requests) = 0
  BY <1>4, RequestsAssumption, SumOfZeros
<1> QED
  BY <1>1, <1>3, <1>5 DEF FInv

(* The calls of every request, and the answers on their way up, fit the       *)
(* configuration the request was accepted with, and each call in progress is  *)
(* counted in active exactly once.                                            *)
THEOREM InPlace == Spec => [](IInv /\ FInv)
<1>1. Init => IInv /\ FInv
  BY InitGood, FitsAtFirst
<1>2. IInv /\ FInv /\ [Next]_vars => (IInv /\ FInv)'
  BY NextGood, FitsThrough
<1> QED
  BY <1>1, <1>2, PTL DEF Spec

LEMMA CheckedSays ==
  ASSUME NEW strict
  PROVE  /\ Checked(strict) # "none"
         /\ Checked(strict) = "tolerant" => ~strict
  BY DEF Checked

GuardedLeaf(r) ==
  LET q == req[r]
      c == q.snap
  IN  \/ Leaf(r) \in DOMAIN c.rules
      \/ \E i \in Path(r) : c.virtual[q.stack[i].model].guard
      \/ \E i \in Path(r) :
           /\ i = Len(q.stack)
           /\ \E m \in ToSet(c.virtual[q.stack[i].model].members) :
                m.model = Leaf(r) /\ m.explicit

(* The check a delivered answer passed is a check, when anything guards the   *)
(* leaf, and a tolerant one only where a policy says so.                      *)
LEMMA WantedGuards ==
  ASSUME IInv, FInv, NEW r \in Requests,
         req[r].stack # <<>>, Top(r).targets # <<>>, GuardedLeaf(r)
  PROVE  \/ Wanted(req[r]) = Checked(req[r].snap.strict)
         \/ /\ Leaf(r) \in DOMAIN req[r].snap.rules
            /\ Wanted(req[r]) = Checked(req[r].snap.rules[Leaf(r)].strict)
<1> DEFINE q == req[r]
           c == q.snap
           f == Top(r)
           n == Len(q.stack)
           leaf == Leaf(r)
           own == Head(f.targets).expect
<1>1. /\ f = q.stack[n] /\ n \in DOMAIN q.stack /\ c \in Configs
      /\ SoundFrame(c, q.spent, f)
  <2>1. Sound(q) /\ f = Last(q.stack)
    BY AtHand DEF Top
  <2>2. q.stack[n] = Last(q.stack) /\ DOMAIN q.stack = 1..n /\ n \in Nat \ {0}
    BY <2>1, TopSound
  <2>3. n \in DOMAIN q.stack
    BY <2>2
  <2> QED
    BY <2>1, <2>2, <2>3 DEF Sound
<1>2. Belongs(c, f)
  BY <1>1 DEF FInv, Fits
<1>3. 1 \in DOMAIN f.targets /\ Head(f.targets) = f.targets[1]
  BY <1>1, Tailed, FrameParts DEF Named
<1>4. leaf = Head(f.targets).model
  BY DEF Leaf
<1>5. Wanted(q) = IF own = "none" /\ Guarding(q) THEN Checked(c.strict) ELSE own
  BY DEF Wanted, Top
<1>6. (\E i \in Path(r) : c.virtual[q.stack[i].model].guard) => Guarding(q)
  BY DEF Path, IsGroup, Guarding
<1>7. CASE f.model \in DOMAIN c.virtual
  <2>1. PICK m \in ToSet(c.virtual[f.model].members) : Head(f.targets) = TargetOf(c, f.model, m)
    BY <1>2, <1>3, <1>7 DEF Belongs, Plans
  <2>2. m.model = leaf /\ own = Expectation(c, f.model, m)
    <3>1. \A g : TargetOf(c, g, m).model = m.model /\ TargetOf(c, g, m).expect = Expectation(c, g, m)
      BY DEF TargetOf
    <3> QED
      BY <1>4, <2>1, <3>1
  <2>3. \A k \in ToSet(c.virtual[f.model].members) : k.model = leaf => k = m
    <3>1. Distinct(c.virtual[f.model].members)
      BY <1>1, <1>7, EngineConfigsAssumption DEF IsConfig
    <3> QED
      BY <2>2, <3>1 DEF Distinct, ToSet
  <2>4. m.explicit \/ leaf \in DOMAIN c.rules \/ Guarding(q)
    BY <1>1, <1>6, <2>3 DEF GuardedLeaf
  <2> HIDE DEF q, c, f, n, leaf, own
  <2>5. \/ own = Checked(c.strict)
        \/ leaf \in DOMAIN c.rules /\ own = Checked(c.rules[leaf].strict)
        \/ own = "none" /\ ~m.explicit /\ leaf \notin DOMAIN c.rules
    BY <2>2 DEF Expectation
  <2>6. CASE own = "none" /\ ~m.explicit /\ leaf \notin DOMAIN c.rules
    <3>1. Guarding(q)
      BY <2>4, <2>6
    <3> QED
      BY <1>5, <2>6, <3>1 DEF q, c
  <2>7. CASE own # "none"
    BY <1>5, <2>5, <2>7 DEF q, c, leaf
  <2> QED
    BY <2>5, <2>6, <2>7, CheckedSays
<1>8. CASE f.model \notin DOMAIN c.virtual
  <2>1. own = RuledExpect(c, leaf)
    BY <1>2, <1>3, <1>4, <1>8 DEF Belongs
  <2>2. n \notin Path(r)
    BY <1>1, <1>8 DEF Path, IsGroup
  <2>3. leaf \in DOMAIN c.rules \/ Guarding(q)
    BY <1>6, <2>2 DEF GuardedLeaf
  <2>4. CASE leaf \in DOMAIN c.rules
    <3>1. own = Checked(c.rules[leaf].strict)
      BY <2>1, <2>4 DEF RuledExpect
    <3> QED
      BY <1>5, <2>4, <3>1, CheckedSays
  <2>5. CASE leaf \notin DOMAIN c.rules
    <3>1. own = "none"
      BY <2>1, <2>5 DEF RuledExpect
    <3> QED
      BY <1>5, <2>3, <2>5, <3>1
  <2> QED
    BY <2>4, <2>5
<1> QED
  BY <1>7, <1>8

(* However groups nest, and whatever guards the leaf - its member lists, a    *)
(* guard rule, a group anywhere on the path - no answer of another model is   *)
(* delivered, streamed ones included (checkedResponse).          *)
THEOREM NeverSubstituted == Spec => []NotSubstituted
<1>1. IInv /\ FInv => NotSubstituted
  <2> SUFFICES ASSUME IInv, FInv, NEW r \in Requests,
                      req[r].pc = "return", req[r].answer.type \in {"delivered", "broken"},
                      Top(r).targets # <<>>, Leaf(r) = req[r].answer.by, GuardedLeaf(r)
               PROVE  /\ req[r].answer.served # "other"
                      /\ req[r].answer.served = "missing" =>
                           \/ ~req[r].snap.strict
                           \/ /\ Leaf(r) \in DOMAIN req[r].snap.rules
                              /\ ~req[r].snap.rules[Leaf(r)].strict
    BY DEF NotSubstituted, GuardedLeaf
  <2> DEFINE q == req[r]
  <2>1. q.stack # <<>>
    BY AtHand DEF Placed, Underway
  <2>2. Accepts(Wanted(q), q.answer.served)
    BY DEF FInv, Fits, Checkable, Hand, Leaf, Top
  <2>3. \/ Wanted(q) = Checked(q.snap.strict)
        \/ /\ Leaf(r) \in DOMAIN q.snap.rules
           /\ Wanted(q) = Checked(q.snap.rules[Leaf(r)].strict)
    BY <2>1, WantedGuards
  <2> QED
    BY <2>2, <2>3, CheckedSays DEF Accepts
<1> QED
  BY <1>1, InPlace, PTL

(* When every configuration is well nested no request meets a cycle or too    *)
(* deep a group, however configurations that disagree on who contains whom    *)
(* replace each other while it runs: a request on its way down follows the    *)
(* configuration it was accepted with (prepareExecution, validateGroups).     *)
THEOREM NeverClashes == Spec => []NoRuntimeClash
<1>1. FInv => NoRuntimeClash
  BY DEF FInv, Fits, Unclashed, NoRuntimeClash
<1> QED
  BY <1>1, InPlace, PTL

LEMMA CallsAreSum ==
  ASSUME IInv
  PROVE  MapThenSumSet(LAMBDA r : Len(req[r].stack), Requests) = SumOver(Depths, Requests)
<1> DEFINE S == Requests
           f == Depths
           body(h) == [t \in SUBSET S |->
                         IF t = {} THEN 0
                         ELSE Len(req[CHOOSE r \in t : TRUE].stack) + h[t \ {CHOOSE r \in t : TRUE}]]
           H == CHOOSE h : h = body(h)
<1>1. IsFiniteSet(S) /\ \A r \in S : f[r] = Len(req[r].stack) /\ f[r] \in Int
  BY DepthsSound
<1>2. MapThenSumSet(LAMBDA r : Len(req[r].stack), Requests) = H[S]
  BY DEF MapThenSumSet, MapThenFoldSet
<1>3. ASSUME NEW h  PROVE Sums(h, f, S) <=> h = body(h)
  <2>1. \A t \in SUBSET S : t # {} => (CHOOSE r \in t : TRUE) \in S
    OBVIOUS
  <2>2. \A t \in SUBSET S :
          (IF t = {} THEN 0
           ELSE f[CHOOSE r \in t : TRUE] + h[t \ {CHOOSE r \in t : TRUE}]) = body(h)[t]
    BY <1>1, <2>1
  <2> QED
    BY <2>2 DEF Sums
<1> HIDE DEF S, f, body
<1>4. \E h : h = body(h)
  BY <1>1, <1>3, SumsExist
<1>5. H = body(H)
  BY <1>4
<1> HIDE DEF H
<1>6. Sums(H, f, S)
  BY <1>3, <1>5
<1>7. H[S] = SumOver(f, S)
  BY <1>1, <1>6, SumsOfSubset
<1> QED
  BY <1>2, <1>7 DEF S, f

(* The counter behind the circuit breaker is the number of executions in      *)
(* progress, nested ones included, so it returns to zero (Execute,            *)
(* ExecuteStream and their deferred decrement).                               *)
THEOREM AlwaysBalanced == Spec => []ActiveBalanced
<1>1. IInv /\ FInv => ActiveBalanced
  BY CallsAreSum DEF FInv, ActiveBalanced
<1> QED
  BY <1>1, InPlace, PTL

-----------------------------------------------------------------------------
(* The turn of a round-robin group, and how often each of its members came    *)
(* first: as often as the full rounds, and once more in the round begun.      *)
Rota(c, g) == [i \in DOMAIN c.virtual[g].members |-> c.virtual[g].members[i].model]

Rotates(c, g) == c.virtual[g].strategy = "round-robin"

Rounds(g, rota, b) ==
  \A i \in DOMAIN rota :
    began[g][rota[i]] = b + (IF i <= turn[g] % Len(rota) THEN 1 ELSE 0)

TInv ==
  /\ began \in [Groups -> [Names -> Nat]]
  /\ \A c \in Configs : \A g \in DOMAIN c.virtual :
       Rotates(c, g) => \E b \in Nat : Rounds(g, Rota(c, g), b)

(* Configurations that replace each other leave the round-robin groups alone: *)
(* after a change of its members a group goes on with the counter it had, and *)
(* nothing is promised of the members' shares.                                *)
SteadyRotation ==
  \A c, d \in Configs : \A g \in DOMAIN c.virtual \cap DOMAIN d.virtual :
    Rotates(c, g) => Rotates(d, g) /\ Rota(d, g) = Rota(c, g)

LEMMA RotaSound ==
  ASSUME NEW c \in Configs, NEW g \in DOMAIN c.virtual
  PROVE  LET n == Len(c.virtual[g].members)
         IN  /\ g \in Groups /\ n \in Nat \ {0} /\ DOMAIN c.virtual[g].members = 1..n
             /\ DOMAIN Rota(c, g) = 1..n /\ Len(Rota(c, g)) = n
             /\ \A i \in 1..n : /\ Rota(c, g)[i] = c.virtual[g].members[i].model
                                /\ Rota(c, g)[i] \in Names
             /\ \A i, j \in 1..n : Rota(c, g)[i] = Rota(c, g)[j] => i = j
<1> DEFINE ms == c.virtual[g].members
           n == Len(ms)
<1>1. c.virtual[g] \in VirtualModels /\ ms # <<>> /\ Distinct(ms) /\ g \in Groups
  BY EngineConfigsAssumption DEF IsConfig
<1>2. ms \in Seq(Members)
  BY <1>1 DEF VirtualModels
<1> HIDE DEF ms
<1>3. n \in Nat \ {0} /\ DOMAIN ms = 1..n
  BY <1>1, <1>2, EmptySeq, LenProperties
<1>4. \A i \in 1..n : ms[i].model \in Names
  <2>1. \A i \in 1..n : ms[i] \in Members
    BY <1>2, ElementOfSeq
  <2> QED
    BY <2>1 DEF Members
<1>5. Rota(c, g) = [i \in 1..n |-> ms[i].model]
  BY <1>3 DEF Rota, ms
<1>6. Rota(c, g) \in Seq(Names) /\ Len(Rota(c, g)) = n
  BY <1>3, <1>4, <1>5
<1>7. \A i, j \in 1..n : ms[i].model = ms[j].model => i = j
  BY <1>1, <1>3 DEF Distinct
<1> QED
  BY <1>1, <1>3, <1>4, <1>5, <1>6, <1>7 DEF ms

LEMMA FirstInTurn ==
  ASSUME NEW c \in Configs, NEW g \in DOMAIN c.virtual, Rotates(c, g),
         NEW t \in Nat, NEW order \in Orders(c.virtual[g], t)
  PROVE  Head(order).model = Rota(c, g)[(t % Len(Rota(c, g))) + 1]
<1> DEFINE ms == c.virtual[g].members
           n == Len(ms)
<1>1. order = [i \in 1..n |-> ms[((t + i - 1) % n) + 1]]
  BY DEF Orders, Rotates
<1>2. /\ n \in Nat \ {0} /\ Len(Rota(c, g)) = n /\ DOMAIN ms = 1..n
      /\ \A i \in 1..n : Rota(c, g)[i] = ms[i].model
  BY RotaSound
<1> HIDE DEF ms, n
<1>3. Head(order) = order[1] /\ 1 \in 1..n /\ t + 1 - 1 = t
  <2>1. \A x : Head(x) = x[1]
    OBVIOUS
  <2> QED
    BY <1>2, <2>1
<1>4. Head(order) = ms[(t % n) + 1]
  BY <1>1, <1>3
<1>5. (t % n) + 1 \in 1..n
  BY <1>2, Remainders
<1> QED
  BY <1>2, <1>4, <1>5

LEMMA RoundsGoOn ==
  ASSUME NEW n \in Nat \ {0}, NEW t \in Nat, NEW b \in Nat, NEW i \in 1..n,
         NEW k, k = b + (IF i <= t % n THEN 1 ELSE 0)
  PROVE  LET c == IF (t % n) + 1 = n THEN b + 1 ELSE b
         IN  (IF i = (t % n) + 1 THEN k + 1 ELSE k)
               = c + (IF i <= (t + 1) % n THEN 1 ELSE 0)
<1> DEFINE p == t % n
           u == (t + 1) % n
<1>1. p \in 0..(n - 1) /\ u = IF p + 1 = n THEN 0 ELSE p + 1
  BY Remainders
<1> HIDE DEF p, u
<1>2. (IF i = p + 1 THEN k + 1 ELSE k)
        = (IF p + 1 = n THEN b + 1 ELSE b) + (IF i <= u THEN 1 ELSE 0)
  BY <1>1 DEF p
<1> QED
  BY <1>2 DEF p, u

LEMMA TurnKept ==
  ASSUME IInv, TInv, SteadyRotation, NEW r \in Requests, EnterGroup(r)
  PROVE  TInv'
<1> DEFINE g == Entered(r)
           d == Held(r)
           t == turn[g]
<1>1. g \in DOMAIN d.virtual /\ d \in Configs /\ turn' = Turned(r, d.virtual[g], g)
  BY AtHand DEF EnterGroup
<1>2. g \in Groups /\ t \in Nat
  <2>1. g \in Groups
    BY <1>1, RotaSound
  <2> QED
    BY <2>1 DEF IInv
<1>3. PICK order \in Orders(d.virtual[g], t) :
        began' = [began EXCEPT ![g][Head(order).model] = @ + 1]
  BY DEF EnterGroup
<1> DEFINE m == Head(order).model
<1> HIDE DEF g, d, m
<1>4. began' = [began EXCEPT ![g][m] = @ + 1]
  BY <1>3 DEF m
<1>5. began \in [Groups -> [Names -> Nat]]
  BY DEF TInv
<1>6. began' \in [Groups -> [Names -> Nat]]
  <2>1. ASSUME NEW h \in Groups, NEW l \in Names
        PROVE  began'[h][l] = IF h = g /\ l = m THEN began[h][l] + 1 ELSE began[h][l]
    BY <1>2, <1>4, <1>5
  <2>2. ASSUME NEW h \in Groups  PROVE began'[h] \in [Names -> Nat]
    <3>1. CASE h # g
      BY <1>4, <1>5, <3>1
    <3>2. CASE h = g
      <4>1. began'[g] = [began[g] EXCEPT ![m] = @ + 1]
        BY <1>2, <1>4, <1>5
      <4>2. began[g] \in [Names -> Nat]
        BY <1>2, <1>5
      <4>3. ASSUME NEW f \in [Names -> Nat]
            PROVE  [f EXCEPT ![m] = f[m] + 1] \in [Names -> Nat]
        <5>1. m \in Names => f[m] + 1 \in Nat
          OBVIOUS
        <5> QED
          BY <5>1
      <4> QED
        BY <3>2, <4>1, <4>2, <4>3
    <3> QED
      BY <3>1, <3>2
  <2> QED
    BY <1>4, <1>5, <2>2
<1>7. ASSUME NEW c \in Configs, NEW h \in DOMAIN c.virtual, Rotates(c, h)
      PROVE  (\E b \in Nat : Rounds(h, Rota(c, h), b))'
  <2>0. PICK rota : rota = Rota(c, h)
    OBVIOUS
  <2> DEFINE n == Len(rota)
  <2>1. /\ n \in Nat \ {0} /\ DOMAIN rota = 1..n /\ h \in Groups
        /\ \A i \in 1..n : rota[i] \in Names
        /\ \A i, j \in 1..n : rota[i] = rota[j] => i = j
    BY <1>7, <2>0, RotaSound
  <2>2. PICK b \in Nat : Rounds(h, rota, b)
    BY <1>7, <2>0 DEF TInv
  <2> HIDE DEF n
  <2>3. CASE h # g
    <3>1. began'[h] = began[h] /\ turn'[h] = turn[h]
      BY <1>1, <1>2, <1>4, <1>5, <2>1, <2>3 DEF Turned, IInv
    <3>2. Rounds(h, rota, b)'
      BY <2>2, <3>1 DEF Rounds
    <3> QED
      BY <2>0, <3>2
  <2>4. CASE h = g
    <3>1. Rotates(d, g) /\ Rota(d, g) = rota
      BY <1>1, <1>7, <2>0, <2>4 DEF SteadyRotation
    <3>2. m = rota[(t % n) + 1]
      BY <1>1, <1>2, <1>3, <3>1, FirstInTurn DEF m, n
    <3>3. turn'[h] = t + 1
      BY <1>1, <1>2, <2>4, <3>1 DEF Turned, IInv, Rotates
    <3> HIDE DEF t
    <3>4. (t % n) + 1 \in 1..n
      BY <1>2, <2>1, Remainders
    <3> DEFINE e == IF (t % n) + 1 = n THEN b + 1 ELSE b
    <3>5. ASSUME NEW i \in 1..n
          PROVE  began'[h][rota[i]] = e + (IF i <= (t + 1) % n THEN 1 ELSE 0)
      <4> DEFINE k == began[h][rota[i]]
      <4>1. k = b + (IF i <= t % n THEN 1 ELSE 0)
        BY <2>1, <2>2, <2>4 DEF Rounds, n, t
      <4>2. began'[h][rota[i]] = IF rota[i] = m THEN k + 1 ELSE k
        BY <1>2, <1>4, <1>5, <2>1, <2>4
      <4>3. rota[i] = m <=> i = (t % n) + 1
        BY <2>1, <3>2, <3>4
      <4> HIDE DEF k
      <4>4. (IF i = (t % n) + 1 THEN k + 1 ELSE k)
              = (IF (t % n) + 1 = n THEN b + 1 ELSE b) + (IF i <= (t + 1) % n THEN 1 ELSE 0)
        BY <1>2, <2>1, <4>1, RoundsGoOn
      <4> QED
        BY <4>2, <4>3, <4>4
    <3>6. PICK x \in Nat : x = e
      OBVIOUS
    <3> HIDE DEF e
    <3>7. Rounds(h, rota, x)'
      BY <2>1, <3>3, <3>5, <3>6 DEF Rounds, n
    <3> QED
      BY <2>0, <3>7
  <2> QED
    BY <2>3, <2>4
<1> QED
  BY <1>6, <1>7 DEF TInv

LEMMA TurnThrough ==
  ASSUME IInv, TInv, SteadyRotation, [Next]_vars
  PROVE  TInv'
<1>1. CASE UNCHANGED counters
  <2>1. turn' = turn /\ began' = began
    BY <1>1 DEF counters
  <2> QED
    BY <2>1 DEF TInv, Rounds
<1>2. ASSUME NEW r \in Requests, EnterGroup(r)  PROVE TInv'
  BY <1>2, TurnKept
<1>3. ASSUME NEW r \in Requests, Work(r), ~EnterGroup(r)  PROVE UNCHANGED counters
  BY <1>3 DEF Work, Scan, EnterRefused, EnterDirect, FindReady, LookFurther, FindCooling,
              Descend, Call, Exhaust, GiveUp, Finish, FailOver, PassUp
<1>4. ASSUME NEW r \in Requests, Reply(r)  PROVE UNCHANGED counters
  BY <1>4 DEF Reply, Cancel, Served, Retry, Substituted, Fail, Broken
<1>5. ASSUME NEW r \in Requests, NEW m \in Names, NEW stream, Claim(r, m, stream)
      PROVE  UNCHANGED counters
  BY <1>5 DEF Claim
<1>6. CASE \E c \in Configs : Reconfigure(c)
  BY <1>1, <1>6 DEF Reconfigure
<1>7. CASE \E m \in Resettable : ResetCooldown(m)
  BY <1>1, <1>7 DEF ResetCooldown
<1>8. CASE Tick
  BY <1>1, <1>8 DEF Tick
<1>9. CASE Rest \/ UNCHANGED vars
  BY <1>1, <1>9 DEF Rest, vars
<1> QED
  BY <1>1, <1>2, <1>3, <1>4, <1>5, <1>6, <1>7, <1>8, <1>9 DEF Next

(* Round-robin is even: of all the executions of a group, by requests for it  *)
(* and by parents that descend into it, in whatever order they come, no       *)
(* member is first more than once oftener than another (order).               *)
THEOREM AlwaysEven ==
  ASSUME SteadyRotation
  PROVE  Spec => []EvenRotation
<1>1. Init => TInv
  <2> SUFFICES ASSUME Init  PROVE TInv
    OBVIOUS
  <2>1. /\ turn = [g \in Groups |-> 0]
        /\ began = [g \in Groups |-> [m \in Names |-> 0]]
    BY DEF Init
  <2>2. ASSUME NEW c \in Configs, NEW g \in DOMAIN c.virtual
        PROVE  Rounds(g, Rota(c, g), 0)
    <3> DEFINE rota == Rota(c, g)
               n == Len(rota)
    <3>1. n \in Nat \ {0} /\ DOMAIN rota = 1..n /\ g \in Groups /\ \A i \in 1..n : rota[i] \in Names
      BY RotaSound
    <3> HIDE DEF rota
    <3>2. 0 % n = 0
      BY <3>1, Remainders
    <3>3. \A i \in 1..n : ~(i <= 0)
      OBVIOUS
    <3>4. \A i \in 1..n : began[g][rota[i]] = 0 /\ turn[g] = 0
      BY <2>1, <3>1
    <3> QED
      BY <3>1, <3>2, <3>3, <3>4 DEF Rounds, rota
  <2> QED
    BY <2>1, <2>2 DEF TInv
<1>2. IInv /\ TInv /\ [Next]_vars => TInv'
  BY TurnThrough
<1>3. IInv /\ TInv => EvenRotation
  <2> SUFFICES ASSUME IInv, TInv, NEW g \in DOMAIN cfg.virtual,
                      cfg.virtual[g].strategy = "round-robin",
                      NEW k \in ToSet(cfg.virtual[g].members),
                      NEW l \in ToSet(cfg.virtual[g].members)
               PROVE  began[g][k.model] <= began[g][l.model] + 1
    BY DEF EvenRotation
  <2> DEFINE rota == Rota(cfg, g)
             n == Len(rota)
  <2>1. cfg \in Configs /\ Rotates(cfg, g)
    BY DEF IInv, Rotates
  <2>2. DOMAIN rota = 1..n /\ \A i \in 1..n : rota[i] = cfg.virtual[g].members[i].model
    BY <2>1, RotaSound
  <2>3. DOMAIN cfg.virtual[g].members = 1..n
    BY <2>1, RotaSound
  <2>4. PICK i \in 1..n : rota[i] = k.model
    BY <2>2, <2>3 DEF ToSet
  <2>5. PICK j \in 1..n : rota[j] = l.model
    BY <2>2, <2>3 DEF ToSet
  <2>6. PICK b \in Nat : Rounds(g, rota, b)
    BY <2>1 DEF TInv
  <2> HIDE DEF rota, n
  <2>7. began[g][rota[i]] \in {b, b + 1} /\ began[g][rota[j]] \in {b, b + 1}
    BY <2>2, <2>6 DEF Rounds
  <2> QED
    BY <2>4, <2>5, <2>7
<1> QED
  BY <1>1, <1>2, <1>3, InOrder, PTL DEF Spec

-----------------------------------------------------------------------------
(* The engine implements module Cooldown.  The instance has operators of its  *)
(* own, equal to those the engine uses.                                       *)
LEMMA SameFresh == Table!Fresh = Fresh
BY DEF Table!Fresh, Fresh, Table!NoKind, NoKind, Table!CoolingKinds, CoolingKinds

LEMMA SameRetry ==
  ASSUME NEW msg, NEW t, NEW ov
  PROVE Table!RetryAfter(msg, t, ov) = RetryAfter(msg, t, ov) 
BY DEF Table!RetryAfter, RetryAfter, Table!Converted, Converted

LEMMA SameHint ==
  ASSUME NEW msg
  PROVE Table!IsHostCooldown(msg) <=> IsHostCooldown(msg) 
BY DEF Table!IsHostCooldown, IsHostCooldown

LEMMA SameDuration ==
  ASSUME NEW n
  PROVE Table!AsDuration(n) = AsDuration(n)
BY DEF Table!AsDuration, AsDuration

LEMMA SameBackoff ==
  ASSUME NEW c, NEW k, NEW s, NEW ov
  PROVE Table!Backoff(c, k, s, ov) = Backoff(c, k, s, ov)
<1>1. \A j : Table!Scaled(c, k, j) = Scaled(c, k, j)
  BY SameDuration DEF Table!Scaled, Scaled
<1>2. Table!Effective(c, k, s) = Effective(c, k, s)
  BY DEF Table!Effective, Effective
<1> QED
  BY <1>1, <1>2 DEF Table!Backoff, Backoff

LEMMA SameHinted ==
  ASSUME NEW c, NEW k, NEW msg, NEW h, NEW d
  PROVE Table!Hinted(c, k, msg, h, d) = Hinted(c, k, msg, h, d)
BY SameHint DEF Table!Hinted, Hinted

LEMMA SameExtended ==
  ASSUME NEW e, NEW k, NEW t, NEW d
  PROVE Table!Extended(e, k, t, d) = Extended(e, k, t, d)
BY DEF Table!Extended, Extended

LEMMA SameFailed ==
  ASSUME NEW e, NEW c, NEW k, NEW msg, NEW t, NEW ov
  PROVE Table!Failed(e, c, k, msg, t, ov) = Failed(e, c, k, msg, t, ov)
<1>1. \A s : Table!Tolerated(c, k, s) <=> Tolerated(c, k, s)
  BY DEF Table!Tolerated, Tolerated
<1>2. Table!Struck(e, k) = Struck(e, k)
  BY DEF Table!Struck, Struck
<1>3. \A d : Table!Capped(c, d) = Capped(c, d)
  BY SameDuration DEF Table!Capped, Capped
<1> QED
  BY <1>1, <1>2, <1>3, SameRetry, SameBackoff, SameHinted, SameExtended DEF Table!Failed, Failed

-----------------------------------------------------------------------------
(* The calls of q that came back.                                             *)
Charge(q) == IF q.pc = "host" THEN q.spent - 1 ELSE q.spent

Charges == [r \in Requests |-> Charge(req[r])]

StrikeLimit == SafetyBudget * Cardinality(Requests)

EntryKept(e) ==
  /\ DOMAIN e = {"until", "kind", "strikes"}
  /\ e.strikes \in [CoolingKinds -> Nat]

(* No leaf has more strikes than calls came back.                             *)
CInv ==
  /\ cool = [m \in Names |-> cool[m]]
  /\ \A m \in Names : EntryKept(cool[m])
  /\ \A m \in Names, j \in CoolingKinds : cool[m].strikes[j] <= SumOver(Charges, Requests)

LEMMA ChargeBounds ==
  ASSUME NEW q, Good(q)
  PROVE  Charge(q) \in 0..SafetyBudget
<1>1. q.spent \in Nat /\ q.left \in Nat /\ q.left + q.spent = SafetyBudget
  BY DEF Good, Sound
<1>2. SafetyBudget \in Nat
  BY BoundsAssumption
<1>3. q.pc = "host" => q.spent > 0
  BY DEF Good, Placed
<1> QED
  BY <1>1, <1>2, <1>3 DEF Charge

LEMMA ChargesSound ==
  ASSUME IInv
  PROVE  /\ IsFiniteSet(Requests) /\ DOMAIN Charges = Requests
         /\ \A r \in Requests : Charges[r] = Charge(req[r]) /\ Charges[r] \in 0..SafetyBudget
         /\ SumOver(Charges, Requests) \in Nat /\ SumOver(Charges, Requests) <= StrikeLimit
<1>1. \A r \in Requests : Charges[r] = Charge(req[r]) /\ Charges[r] \in 0..SafetyBudget
  BY ChargeBounds DEF IInv, Charges
<1>2. \A r \in Requests : Charges[r] \in Nat /\ Charges[r] <= SafetyBudget
  BY <1>1, BoundsAssumption
<1>3. IsFiniteSet(Requests) /\ DOMAIN Charges = Requests
  BY RequestsAssumption DEF Charges
<1>4. SumOver(Charges, Requests) \in Nat
  BY <1>2, <1>3, SumOfNats
<1>5. SafetyBudget \in Nat
  BY BoundsAssumption
<1>6. SumOver(Charges, Requests) <= SafetyBudget * Cardinality(Requests)
  BY <1>2, <1>3, <1>5, SumBounded
<1> QED
  BY <1>1, <1>3, <1>4, <1>6 DEF StrikeLimit

LEMMA ChargesGrow ==
  ASSUME IInv, IInv', NEW r \in Requests, NEW p, req' = [req EXCEPT ![r] = p],
         Charge(p) >= Charge(req[r])
  PROVE  /\ SumOver(Charges, Requests)' >= SumOver(Charges, Requests)
         /\ Charge(p) > Charge(req[r]) =>
              SumOver(Charges, Requests)' > SumOver(Charges, Requests)
<1> DEFINE R == Requests \ {r}
           f == Charges
<1>1. PICK g : g = Charges'
  OBVIOUS
<1>2. SumOver(Charges, Requests)' = SumOver(g, Requests)
  BY <1>1 DEF SumOver, MapThenSumSet, MapThenFoldSet
<1>3. /\ IsFiniteSet(Requests) /\ \A x \in Requests : f[x] \in Int
      /\ \A x \in Requests : f[x] = Charge(req[x])
  BY ChargesSound
<1>4. /\ \A x \in Requests : g[x] = Charge(req'[x])
  BY <1>1 DEF Charges, Charge
<1>5. req'[r] = p /\ \A x \in R : req'[x] = req[x]
  BY DEF IInv
<1>6. g[r] = Charge(p) /\ \A x \in R : g[x] = f[x]
  BY <1>3, <1>4, <1>5
<1>7. Charge(p) \in Int
  <2>1. Good(p)
    BY <1>5 DEF IInv
  <2> QED
    BY <2>1, ChargeBounds
<1> HIDE DEF f
<1>8. \A x \in Requests : g[x] \in Int
  BY <1>3, <1>6, <1>7
<1>9. SumOver(g, Requests) = g[r] + SumOver(g, R) /\ SumOver(f, Requests) = f[r] + SumOver(f, R)
  BY <1>3, <1>8, SumGrows
<1>10. IsFiniteSet(R) /\ \A x \in R : f[x] \in Int
  BY <1>3, FS_Subset
<1>11. SumOver(g, R) = SumOver(f, R) /\ SumOver(f, R) \in Int
  <2> HIDE DEF R
  <2> QED
    BY <1>6, <1>10, SumSame, SumGrows
<1>12. f[r] = Charge(req[r]) /\ f[r] \in Int
  BY <1>3
<1> HIDE DEF R
<1>13. /\ SumOver(g, Requests) >= SumOver(f, Requests)
       /\ Charge(p) > Charge(req[r]) => SumOver(g, Requests) > SumOver(f, Requests)
  BY <1>6, <1>7, <1>9, <1>11, <1>12
<1> QED
  BY <1>2, <1>13 DEF f

-----------------------------------------------------------------------------
LEMMA KindsOfErrors ==
  ASSUME NEW status \in Nat, NEW marks
  PROVE  Classify(status, marks) \in Kinds
<1> DEFINE quota == "quota" \in marks
<1>1. \A k \in Kinds : Unless(quota, k) \in Kinds
  BY DEF Unless, Kinds, CoolingKinds
<1>2. /\ "quota" \in Kinds /\ "rate_limit" \in Kinds /\ "auth" \in Kinds
      /\ "not_found" \in Kinds /\ "server_error" \in Kinds /\ "client_error" \in Kinds
  BY DEF Kinds, CoolingKinds
<1> HIDE DEF Kinds
<1>3. CASE "unpriced" \in marks \/ (status = 503 /\ "refusal" \in marks)
  BY <1>2, <1>3 DEF Classify
<1>4. CASE ~("unpriced" \in marks \/ (status = 503 /\ "refusal" \in marks))
  <2> DEFINE client == status \in (400..499) \ {401, 402, 403, 404, 408, 429}
             named == IF "not_found" \in marks THEN "not_found" ELSE "client_error"
             worded == IF "rate" \in marks THEN "rate_limit"
                       ELSE IF "not_found" \in marks THEN "not_found"
                       ELSE IF "auth" \in marks THEN "auth"
                       ELSE "server_error"
  <2>1. named \in Kinds /\ worded \in Kinds
    BY <1>2
  <2>2. Classify(status, marks) \in
          {"quota", "auth", "not_found"} \cup
          {Unless(quota, "rate_limit"), Unless(quota, "auth"), Unless(quota, "server_error"),
           Unless(quota, named), Unless(quota, worded)}
    BY <1>4 DEF Classify
  <2> HIDE DEF named, worded, quota
  <2> QED
    BY <1>1, <1>2, <2>1, <2>2
<1> QED
  BY <1>3, <1>4

(* A failure adds one strike at most.                                         *)
LEMMA FailedKept ==
  ASSUME NEW e, EntryKept(e), NEW c, NEW k \in Kinds, NEW msg, NEW t, NEW ov
  PROVE  LET f == Failed(e, c, k, msg, t, ov)
         IN  EntryKept(f) /\ \A j \in CoolingKinds : f.strikes[j] <= e.strikes[j] + 1
<1>0. e.strikes \in [CoolingKinds -> Nat] /\ DOMAIN e = {"until", "kind", "strikes"}
  BY DEF EntryKept
<1>1. CASE ~c.on \/ k = "client_error"
  BY <1>0, <1>1 DEF Failed
<1>2. CASE ~(~c.on \/ k = "client_error")
  <2>1. k \in CoolingKinds
    BY <1>2 DEF Kinds
  <2> DEFINE s == Struck(e, k)
  <2>2. DOMAIN s = {"until", "kind", "strikes"} /\ s.strikes = [e.strikes EXCEPT ![k] = @ + 1]
    BY <1>0 DEF Struck
  <2>3. [e.strikes EXCEPT ![k] = @ + 1] \in [CoolingKinds -> Nat]
    <3>1. ASSUME NEW g \in [CoolingKinds -> Nat]
          PROVE  [g EXCEPT ![k] = g[k] + 1] \in [CoolingKinds -> Nat]
      <4>1. g[k] + 1 \in Nat
        BY <2>1
      <4> QED
        BY <4>1
    <3> QED
      BY <1>0, <3>1
  <2>4. EntryKept(s) /\ \A j \in CoolingKinds : s.strikes[j] <= e.strikes[j] + 1
    BY <1>0, <2>2, <2>3 DEF EntryKept
  <2> HIDE DEF s
  <2>5. \A d : EntryKept(Extended(s, k, t, d)) /\ Extended(s, k, t, d).strikes = s.strikes
    BY <2>4 DEF Extended, EntryKept
  <2>6. \/ Failed(e, c, k, msg, t, ov) = s
        \/ \E d : Failed(e, c, k, msg, t, ov) = Extended(s, k, t, d)
    BY <1>2 DEF Failed, s
  <2> QED
    BY <2>4, <2>5, <2>6
<1> QED
  BY <1>1, <1>2

LEMMA FreshKept ==
  EntryKept(Fresh) /\ \A j \in CoolingKinds : Fresh.strikes[j] = 0
BY DEF Fresh, EntryKept

LEMMA TableKept ==
  ASSUME IInv, IInv', CInv,
         SumOver(Charges, Requests)' >= SumOver(Charges, Requests),
         cool' = cool \/ \E m : cool' = [cool EXCEPT ![m] = Fresh]
  PROVE  CInv'
<1>1. PICK n, k : n = SumOver(Charges, Requests) /\ k = SumOver(Charges, Requests)'
  OBVIOUS
<1>2. n \in Nat /\ k \in Nat /\ k >= n
  <2>1. (SumOver(Charges, Requests) \in Nat)'
    BY ChargesSound, PTL
  <2> QED
    BY <1>1, <2>1, ChargesSound
<1>3. /\ cool' = [m \in Names |-> cool'[m]]
      /\ \A m \in Names : cool'[m] = cool[m] \/ cool'[m] = Fresh
  BY DEF CInv
<1>4. \A m \in Names : EntryKept(cool'[m])
  BY <1>3, FreshKept DEF CInv
<1>5. ASSUME NEW m \in Names, NEW j \in CoolingKinds  PROVE cool'[m].strikes[j] <= k
  <2>1. cool[m].strikes[j] \in Nat /\ cool[m].strikes[j] <= n
    BY <1>1 DEF CInv, EntryKept
  <2> QED
    BY <1>2, <1>3, <2>1, FreshKept
<1> QED
  BY <1>1, <1>3, <1>4, <1>5 DEF CInv, EntryKept

LEMMA TableStruck ==
  ASSUME IInv, IInv', CInv,
         SumOver(Charges, Requests)' > SumOver(Charges, Requests),
         NEW m \in Names, NEW c, NEW k \in Kinds, NEW msg, NEW t, NEW ov,
         cool' = [cool EXCEPT ![m] = Failed(@, c, k, msg, t, ov)]
  PROVE  CInv' /\ \A j \in CoolingKinds : cool[m].strikes[j] < StrikeLimit
<1>1. PICK n, i : n = SumOver(Charges, Requests) /\ i = SumOver(Charges, Requests)'
  OBVIOUS
<1>2. n \in Nat /\ i \in Nat /\ i > n /\ i <= StrikeLimit
  <2>1. (SumOver(Charges, Requests) \in Nat /\ SumOver(Charges, Requests) <= StrikeLimit)'
    BY ChargesSound, PTL
  <2>2. StrikeLimit' = StrikeLimit
    BY DEF StrikeLimit
  <2> QED
    BY <1>1, <2>1, <2>2, ChargesSound
<1>3. PICK f : f = Failed(cool[m], c, k, msg, t, ov)
  OBVIOUS
<1>4. EntryKept(f) /\ \A j \in CoolingKinds : f.strikes[j] <= cool[m].strikes[j] + 1
  BY <1>3, FailedKept DEF CInv
<1>5. cool' = [cool EXCEPT ![m] = f]
  BY <1>3
<1>6. /\ cool' = [x \in Names |-> cool'[x]]
      /\ \A x \in Names : cool'[x] = IF x = m THEN f ELSE cool[x]
  BY <1>5 DEF CInv
<1>7. \A x \in Names : EntryKept(cool'[x])
  BY <1>4, <1>6 DEF CInv
<1>8. ASSUME NEW x \in Names, NEW j \in CoolingKinds
      PROVE  cool[x].strikes[j] \in Nat /\ cool[x].strikes[j] <= n
  BY <1>1 DEF CInv, EntryKept
<1>9. ASSUME NEW x \in Names, NEW j \in CoolingKinds  PROVE cool'[x].strikes[j] <= i
  <2>1. CASE x = m
    <3>1. f.strikes[j] \in Nat
      BY <1>4 DEF EntryKept
    <3> QED
      BY <1>2, <1>4, <1>6, <1>8, <2>1, <3>1
  <2>2. CASE x # m
    BY <1>2, <1>6, <1>8, <2>2
  <2> QED
    BY <2>1, <2>2
<1>10. CInv'
  BY <1>1, <1>6, <1>7, <1>9 DEF CInv, EntryKept
<1>11. ASSUME NEW j \in CoolingKinds  PROVE cool[m].strikes[j] < StrikeLimit
  <2>1. StrikeLimit \in Int
    BY BoundsAssumption, RequestsAssumption, FS_CardinalityType DEF StrikeLimit
  <2> QED
    BY <1>2, <1>8, <2>1
<1> QED
  BY <1>10, <1>11

-----------------------------------------------------------------------------
(* No step of the engine's own but a call ends at the host.                   *)
LEMMA JudgedPc ==
  ASSUME IInv, NEW r \in Requests, NEW f, NEW p \in Judged(r, f)
  PROVE  p.pc # "host"
<1>1. ASSUME NEW g, NEW pc  PROVE DOMAIN WithTop(r, g, pc) = RequestFields /\ WithTop(r, g, pc).pc = pc
  BY WithTopFields
<1>2. ASSUME NEW g, NEW a  PROVE Answering(WithTop(r, g, "return"), a).pc = "return"
  BY <1>1, AnsweringFields
<1>3. \/ \E g, pc : p = WithTop(r, g, pc) /\ pc \in {"scan", "dispatch"}
      \/ \E g, a : p = Answering(WithTop(r, g, "return"), a)
  <2> DEFINE next == Facing(req[r].snap, [f EXCEPT !.scan = Tail(@)])
  <2>1. IF next.scan = <<>> THEN p \in Planned(r, next) ELSE p = WithTop(r, next, "scan")
    BY DEF Judged
  <2> HIDE DEF next
  <2>2. ASSUME p \in Planned(r, next)
        PROVE  \/ \E g : p = WithTop(r, g, "dispatch")
               \/ \E g, a : p = Answering(WithTop(r, g, "return"), a)
    BY <2>2 DEF Planned
  <2> QED
    BY <2>1, <2>2
<1> QED
  BY <1>1, <1>2, <1>3

LEMMA OwnStepPc ==
  ASSUME IInv, NEW r \in Requests, Work(r), ~Call(r)
  PROVE  req'[r].pc # "host" /\ cool' = cool /\ now' = now
<1>1. DOMAIN req = Requests /\ DOMAIN req[r] = RequestFields /\ "pc" \in RequestFields
  <2>1. DOMAIN req = Requests
    BY DEF IInv
  <2>2. DOMAIN req[r] = RequestFields
    BY AtHand
  <2>3. "pc" \in RequestFields
    BY DEF RequestFields
  <2> QED
    BY <2>1, <2>2, <2>3
<1>2. ASSUME NEW p, req' = [req EXCEPT ![r] = p]  PROVE req'[r] = p
  BY <1>1, <1>2
<1>3. CASE EnterRefused(r)
  <2>1. PICK g, a : req' = [req EXCEPT ![r] = Answering(Started(r, g, "return"), a)]
    BY <1>3 DEF EnterRefused
  <2>2. DOMAIN Started(r, g, "return") = RequestFields
    BY StartedFields
  <2>3. Answering(Started(r, g, "return"), a).pc = "return"
    BY <2>2, AnsweringFields
  <2> QED
    BY <1>2, <1>3, <2>1, <2>3 DEF EnterRefused
<1>4. CASE EnterGroup(r)
  <2>1. PICK g : req' = [req EXCEPT ![r] = Started(r, g, "scan")]
    BY <1>4 DEF EnterGroup
  <2>2. Started(r, g, "scan").pc = "scan"
    BY StartedFields
  <2> QED
    BY <1>2, <1>4, <2>1, <2>2 DEF EnterGroup
<1>5. CASE EnterDirect(r)
  <2>1. PICK g : req' = [req EXCEPT ![r] = Started(r, g, "dispatch")]
    BY <1>5 DEF EnterDirect
  <2>2. Started(r, g, "dispatch").pc = "dispatch"
    BY StartedFields
  <2> QED
    BY <1>2, <1>5, <2>1, <2>2 DEF EnterDirect
<1>6. CASE FindReady(r)
  <2>1. PICK g : \E p \in Judged(r, g) : req' = [req EXCEPT ![r] = p]
    BY <1>6 DEF FindReady
  <2> QED
    BY <1>2, <1>6, <2>1, JudgedPc DEF FindReady
<1>7. CASE LookFurther(r)
  <2>1. PICK g : req' = [req EXCEPT ![r] = WithTop(r, g, "scan")]
    BY <1>7 DEF LookFurther
  <2>2. WithTop(r, g, "scan").pc = "scan"
    BY WithTopFields
  <2> QED
    BY <1>2, <1>7, <2>1, <2>2 DEF LookFurther
<1>8. CASE FindCooling(r)
  <2>1. PICK g : \E p \in Judged(r, g) : req' = [req EXCEPT ![r] = p]
    BY <1>8 DEF FindCooling
  <2> QED
    BY <1>2, <1>8, <2>1, JudgedPc DEF FindCooling
<1>9. CASE Descend(r)
  BY <1>1, <1>9 DEF Descend
<1>10. CASE Exhaust(r)
  <2>1. req'[r].pc = "return"
    BY <1>1, <1>10 DEF Exhaust, Answering
  <2> QED
    BY <1>10, <2>1 DEF Exhaust
<1>11. CASE GiveUp(r)
  <2>1. PICK a, b : req' = [req EXCEPT ![r] = [Answering(@, a) EXCEPT !.stopped = b]]
    BY <1>11 DEF GiveUp
  <2>2. req'[r].pc = "return"
    BY <1>1, <2>1 DEF Answering
  <2> QED
    BY <1>11, <2>2 DEF GiveUp
<1>12. CASE Finish(r)
  <2>1. req'[r].pc = "done"
    BY <1>1, <1>12 DEF Finish, Popped
  <2> QED
    BY <1>12, <2>1 DEF Finish
<1>13. CASE FailOver(r)
  <2>1. req'[r].pc = "dispatch"
    BY <1>1, <1>13 DEF FailOver, Popped
  <2> QED
    BY <1>13, <2>1 DEF FailOver
<1>14. CASE PassUp(r)
  <2>1. req'[r].pc = "return"
    BY <1>1, <1>14 DEF PassUp, Popped
  <2> QED
    BY <1>14, <2>1 DEF PassUp
<1> QED
  BY <1>3, <1>4, <1>5, <1>6, <1>7, <1>8, <1>9, <1>10, <1>11, <1>12, <1>13, <1>14 DEF Work, Scan

(* A reply brings the call back, and touches the table at that leaf only.     *)
FailureAt(r, k, msg, ov) ==
  cool' = [cool EXCEPT ![Leaf(r)] = Failed(@, req[r].snap.cooldown, k, msg, now, ov)]

Reported == {Plain} \cup {ErrorOf(h).msg : h \in Replies}

(* What a reply may do to the table.                                          *)
TableSettled(r) ==
  \/ cool' = cool
  \/ cool' = [cool EXCEPT ![Leaf(r)] = Fresh]
  \/ \E k \in Kinds, msg \in Reported, ov \in Unrepresentable : FailureAt(r, k, msg, ov)

LEMMA DeliveredPc ==
  ASSUME IInv, NEW r \in Requests, NEW a, NEW m, NEW b,
         req' = [req EXCEPT ![r] =
                   [Settled(Answering(req[r], a), m) EXCEPT !.stopped = TRUE, !.committed = b]]
  PROVE  req'[r].pc = "return"
<1>1. DOMAIN req = Requests /\ DOMAIN req[r] = RequestFields
  BY AtHand DEF IInv
<1>2. DOMAIN Answering(req[r], a) = RequestFields /\ Answering(req[r], a).pc = "return"
  BY <1>1, AnsweringFields
<1> DEFINE p == Settled(Answering(req[r], a), m)
<1>3. DOMAIN p = RequestFields /\ p.pc = "return"
  BY <1>2 DEF Settled, RequestFields
<1> HIDE DEF p
<1>4. [p EXCEPT !.stopped = TRUE, !.committed = b].pc = "return"
  BY <1>3 DEF RequestFields
<1> QED
  BY <1>1, <1>4 DEF p

LEMMA NextTargetPc ==
  ASSUME IInv, NEW r \in Requests, NEW f, NEW m,
         req' = [req EXCEPT ![r] = Settled(WithTop(r, f, "dispatch"), m)]
  PROVE  req'[r].pc = "dispatch"
<1>1. DOMAIN req = Requests
  BY DEF IInv
<1> DEFINE p == WithTop(r, f, "dispatch")
<1>2. DOMAIN p = RequestFields /\ p.pc = "dispatch"
  BY WithTopFields
<1> HIDE DEF p
<1>3. Settled(p, m).pc = "dispatch"
  BY <1>2 DEF Settled, RequestFields
<1> QED
  BY <1>1, <1>3 DEF p

LEMMA FailPc ==
  ASSUME IInv, NEW r \in Requests, NEW err, NEW ov, Fail(r, err, ov)
  PROVE  req'[r].pc \in {"dispatch", "return"}
<1>1. DOMAIN req = Requests /\ DOMAIN req[r] = RequestFields
  BY AtHand DEF IInv
<1>2. CASE GoesOn(r, Top(r), KindOf(err))
  <2>1. req' = [req EXCEPT ![r] =
                  Settled(WithTop(r, [Advanced(Top(r)) EXCEPT !.last = Upstream(err)],
                                  "dispatch"), Leaf(r))]
    BY <1>2 DEF Fail
  <2> QED
    BY <2>1, NextTargetPc
<1>3. CASE ~GoesOn(r, Top(r), KindOf(err))
  <2>1. PICK a, b : a = Upstream(err) /\
          b = \A i \in DOMAIN req[r].stack : ~GoesOn(r, req[r].stack[i], KindOf(err))
    OBVIOUS
  <2> DEFINE p == Answering(req[r], a)
  <2>2. req' = [req EXCEPT ![r] = Settled([p EXCEPT !.stopped = b], Leaf(r))]
    BY <1>3, <2>1 DEF Fail
  <2>3. DOMAIN p = RequestFields /\ p.pc = "return"
    BY <1>1, AnsweringFields
  <2> HIDE DEF p
  <2>4. Settled([p EXCEPT !.stopped = b], Leaf(r)).pc = "return"
    BY <2>3 DEF Settled, RequestFields
  <2> QED
    BY <1>1, <2>2, <2>4
<1> QED
  BY <1>2, <1>3

LEMMA KindsAtHand ==
  ASSUME NEW h \in Replies
  PROVE  KindOf(ErrorOf(h)) \in Kinds /\ ErrorOf(h).msg \in Reported
<1>1. ErrorOf(h).msg \in Reported
  BY DEF Reported
<1> QED
  BY <1>1, ErrorsTyped, KindsOfErrors DEF KindOf

LEMMA ReplyStep ==
  ASSUME IInv, NEW r \in Requests, Reply(r)
  PROVE  req[r].pc = "host" /\ req'[r].pc # "host" /\ now' = now /\ TableSettled(r)
<1>1. DOMAIN req = Requests /\ DOMAIN req[r] = RequestFields
  BY AtHand DEF IInv
<1>2. PICK h \in Replies :
        \/ Cancel(r)
        \/ \E s \in Serves : \/ Served(r, s) \/ Retry(r, s)
                             \/ \E ov \in Unrepresentable : Substituted(r, s, ov)
        \/ \E ov \in Unrepresentable : Fail(r, ErrorOf(h), ov)
        \/ \E s \in Serves, ov \in Unrepresentable : Broken(r, s, ErrorOf(h), ov)
  BY DEF Reply
<1>3. CASE Cancel(r)
  <2>1. req'[r].pc = "return"
    BY <1>1, <1>3 DEF Cancel, Answering, RequestFields
  <2> QED
    BY <1>3, <2>1 DEF Cancel, TableSettled
<1>4. ASSUME NEW s, Served(r, s)
      PROVE  req[r].pc = "host" /\ req'[r].pc # "host" /\ now' = now /\ TableSettled(r)
  <2>1. req' = [req EXCEPT ![r] =
                  [Settled(Answering(req[r], Delivery("delivered", Leaf(r), s)), Leaf(r))
                     EXCEPT !.stopped = TRUE, !.committed = req[r].stream]]
    BY <1>4 DEF Served
  <2>2. req'[r].pc = "return"
    BY <2>1, DeliveredPc
  <2> QED
    BY <1>4, <2>2 DEF Served, Cleared, TableSettled
<1>5. ASSUME NEW s, Retry(r, s)
      PROVE  req[r].pc = "host" /\ req'[r].pc # "host" /\ now' = now /\ TableSettled(r)
  <2> DEFINE p == WithTop(r, [Top(r) EXCEPT !.try = @ + 1], "dispatch")
  <2>1. req' = [req EXCEPT ![r] = [p EXCEPT !.owed = @ \cup {Leaf(r)}]]
    BY <1>5 DEF Retry
  <2>2. DOMAIN p = RequestFields /\ p.pc = "dispatch"
    BY WithTopFields
  <2> HIDE DEF p
  <2>3. req'[r].pc = "dispatch"
    BY <1>1, <2>1, <2>2 DEF RequestFields
  <2> QED
    BY <1>5, <2>3 DEF Retry, TableSettled
<1>6. ASSUME NEW s, NEW ov \in Unrepresentable, Substituted(r, s, ov)
      PROVE  req[r].pc = "host" /\ req'[r].pc # "host" /\ now' = now /\ TableSettled(r)
  <2>1. req'[r].pc = "dispatch"
    BY <1>6, NextTargetPc DEF Substituted
  <2>2. "model_mismatch" \in Kinds /\ Plain \in Reported
    BY DEF Kinds, CoolingKinds, Reported
  <2>3. FailureAt(r, "model_mismatch", Plain, ov)
    BY <1>6 DEF Substituted, Charged, FailureAt
  <2> QED
    BY <1>6, <2>1, <2>2, <2>3 DEF Substituted, TableSettled
<1>7. ASSUME NEW ov \in Unrepresentable, Fail(r, ErrorOf(h), ov)
      PROVE  req[r].pc = "host" /\ req'[r].pc # "host" /\ now' = now /\ TableSettled(r)
  <2>1. req'[r].pc # "host"
    BY <1>7, FailPc
  <2>2. FailureAt(r, KindOf(ErrorOf(h)), ErrorOf(h).msg, ov)
    BY <1>7 DEF Fail, Charged, FailureAt
  <2> QED
    BY <1>7, <2>1, <2>2, KindsAtHand DEF Fail, TableSettled
<1>8. ASSUME NEW s, NEW ov \in Unrepresentable, Broken(r, s, ErrorOf(h), ov)
      PROVE  req[r].pc = "host" /\ req'[r].pc # "host" /\ now' = now /\ TableSettled(r)
  <2>1. req' = [req EXCEPT ![r] =
                  [Settled(Answering(req[r], Delivery("broken", Leaf(r), s)), Leaf(r))
                     EXCEPT !.stopped = TRUE, !.committed = TRUE]]
    BY <1>8 DEF Broken
  <2>2. req'[r].pc = "return"
    BY <2>1, DeliveredPc
  <2>3. FailureAt(r, KindOf(ErrorOf(h)), ErrorOf(h).msg, ov)
    BY <1>8 DEF Broken, Charged, FailureAt
  <2> QED
    BY <1>8, <2>2, <2>3, KindsAtHand DEF Broken, TableSettled
<1> QED
  BY <1>2, <1>3, <1>4, <1>5, <1>6, <1>7, <1>8

(* A request's calls are never taken back.                                    *)
LEMMA SpentGrows ==
  ASSUME IInv, [Next]_vars, NEW r \in Requests
  PROVE  req[r].spent \in Nat /\ req'[r].spent \in Nat /\ req'[r].spent >= req[r].spent
<1>1. \A x \in Requests : req[x].spent \in Nat
  BY AtHand DEF Sound
<1>2. CASE req' = req
  BY <1>1, <1>2
<1>3. ASSUME NEW x \in Requests, NEW p, Moves(x, p)
      PROVE  req'[r].spent \in Nat /\ req'[r].spent >= req[r].spent
  <2>1. req'[r] = IF r = x THEN p ELSE req[r]
    BY <1>3 DEF Moves, IInv
  <2>2. View(p).calls \in {View(req[x]).calls, View(req[x]).calls + 1}
    BY <1>3 DEF Moves, Advances, Seen
  <2>3. View(p).calls = p.spent /\ View(req[x]).calls = req[x].spent
    BY DEF View
  <2> QED
    BY <1>1, <2>1, <2>2, <2>3
<1> QED
  BY <1>1, <1>2, <1>3, NextMoves

(* The sum of the charges grows with the replies and never falls.             *)
LEMMA ChargesThrough ==
  ASSUME IInv, IInv', [Next]_vars, NEW r \in Requests, NEW p, req' = [req EXCEPT ![r] = p],
         p.pc # "host" \/ (p.spent = req[r].spent + 1 /\ req[r].pc # "host")
  PROVE  /\ SumOver(Charges, Requests)' >= SumOver(Charges, Requests)
         /\ req[r].pc = "host" =>
              SumOver(Charges, Requests)' > SumOver(Charges, Requests)
<1>1. req'[r] = p
  BY DEF IInv
<1>2. req[r].spent \in Nat /\ p.spent \in Nat /\ p.spent >= req[r].spent
  BY <1>1, SpentGrows
<1>3. /\ Charge(p) >= Charge(req[r])
      /\ req[r].pc = "host" => Charge(p) > Charge(req[r])
  BY <1>2 DEF Charge
<1> QED
  BY <1>3, ChargesGrow

LEMMA ChargesSame ==
  ASSUME IInv, req' = req
  PROVE  SumOver(Charges, Requests)' >= SumOver(Charges, Requests)
<1>1. Charges' = Charges
  BY DEF Charges
<1>2. SumOver(Charges, Requests)' = SumOver(Charges, Requests)
  BY <1>1 DEF SumOver, MapThenSumSet, MapThenFoldSet
<1> QED
  BY <1>2, ChargesSound

(* Every step of the engine is a step of the table, or leaves it alone.       *)
TableMoves == CInv' /\ [Table!Next]_(Table!vars)

LEMMA TableRests ==
  ASSUME IInv, IInv', CInv, cool' = cool, now' = now,
         SumOver(Charges, Requests)' >= SumOver(Charges, Requests)
  PROVE  TableMoves
<1>1. CInv'
  BY TableKept
<1> QED
  BY <1>1 DEF TableMoves, Table!vars

LEMMA TableFreshens ==
  ASSUME IInv, IInv', CInv, NEW m, cool' = [cool EXCEPT ![m] = Fresh], now' = now,
         SumOver(Charges, Requests)' >= SumOver(Charges, Requests)
  PROVE  TableMoves
<1>1. CInv'
  BY TableKept
<1>2. CASE m \in Names
  <2>1. Table!Reset(m)
    BY SameFresh DEF Table!Reset
  <2> QED
    BY <1>1, <1>2, <2>1 DEF TableMoves, Table!Next
<1>3. CASE m \notin Names
  <2>1. cool' = cool
    BY <1>3 DEF CInv
  <2> QED
    BY <1>1, <2>1 DEF TableMoves, Table!vars
<1> QED
  BY <1>2, <1>3

LEMMA TableFails ==
  ASSUME IInv, IInv', CInv, NEW r \in Requests, req[r].pc = "host",
         NEW k \in Kinds, NEW msg \in Reported, NEW ov \in Unrepresentable,
         FailureAt(r, k, msg, ov), now' = now,
         SumOver(Charges, Requests)' > SumOver(Charges, Requests)
  PROVE  TableMoves
<1> DEFINE m == Leaf(r)
           d == req[r].snap.cooldown
<1>1. m \in Names
  <2>1. /\ Leaf(r) = Head(Top(r).targets).model /\ Top(r).targets # <<>>
        /\ Named(Top(r).targets)
    BY HostAtHand DEF SoundFrame
  <2>2. Head(Top(r).targets) = Top(r).targets[1] /\ 1 \in DOMAIN Top(r).targets
    BY <2>1, Tailed DEF Named
  <2> QED
    BY <2>1, <2>2 DEF Named
<1>2. d \in {c.cooldown : c \in Configs}
  BY AtHand
<1>3. cool' = [cool EXCEPT ![m] = Failed(@, d, k, msg, now, ov)]
  BY DEF FailureAt
<1> HIDE DEF m, d
<1>4. CInv' /\ \A j \in CoolingKinds : cool[m].strikes[j] < StrikeLimit
  BY <1>1, <1>3, TableStruck
<1>5. \A j \in CoolingKinds : cool[m].strikes[j] < SafetyBudget * Cardinality(Requests) + 1
  <2>1. \A j \in CoolingKinds : cool[m].strikes[j] \in Nat
    BY <1>1 DEF CInv, EntryKept
  <2>2. StrikeLimit \in Int
    BY BoundsAssumption, RequestsAssumption, FS_CardinalityType DEF StrikeLimit
  <2>3. \A j \in CoolingKinds : cool[m].strikes[j] < StrikeLimit + 1
    BY <1>4, <2>1, <2>2
  <2> QED
    BY <2>3 DEF StrikeLimit
<1>6. cool' = [cool EXCEPT ![m] = Table!Failed(@, d, k, msg, now, ov)]
  BY <1>3, SameFailed
<1>7. Table!CoolingKinds = CoolingKinds /\ Table!Kinds = Kinds
  BY DEF Table!CoolingKinds, CoolingKinds, Table!Kinds, Kinds
<1>8. Table!RecordFailure(m, k, msg, d, ov)
  BY <1>5, <1>6, <1>7 DEF Table!RecordFailure
<1>9. Reported = {Table!Plain} \cup {ErrorOf(h).msg : h \in Replies}
  BY DEF Reported, Plain, Table!Plain
<1>10. Table!Next
  BY <1>1, <1>2, <1>7, <1>8, <1>9 DEF Table!Next, Reported
<1> QED
  BY <1>4, <1>10 DEF TableMoves

LEMMA TableThrough ==
  ASSUME IInv, FInv, CInv, [Next]_vars, IInv'
  PROVE  TableMoves
<1>1. active \in Int /\ \A r \in Requests : Fits(req[r])
  BY DepthsSound, SumGrows DEF FInv
<1>2. ASSUME NEW r \in Requests, Work(r)  PROVE TableMoves
  <2>1. PICK p : req' = [req EXCEPT ![r] = p]
    BY <1>1, <1>2, WorkFits DEF Fitted, FitsTo
  <2>2. req'[r] = p /\ DOMAIN req[r] = RequestFields
    BY <2>1, AtHand DEF IInv
  <2>3. /\ cool' = cool /\ now' = now
        /\ p.pc # "host" \/ (p.spent = req[r].spent + 1 /\ req[r].pc # "host")
    <3>1. CASE ~Call(r)
      BY <1>2, <2>2, <3>1, OwnStepPc
    <3>2. CASE Call(r)
      <4>1. cool' = cool /\ now' = now /\ req[r].pc = "dispatch"
        BY <3>2 DEF Call
      <4>2. PICK l, m, s : req' = [req EXCEPT ![r] =
                [req[r] EXCEPT !.pc = "host", !.left = l, !.spent = @ + 1, !.asked = m,
                               !.stack = s]]
        BY <3>2 DEF Call
      <4>3. DOMAIN req = Requests
        BY DEF IInv
      <4>4. p.spent = req[r].spent + 1
        BY <2>2, <4>2, <4>3 DEF RequestFields
      <4> QED
        BY <4>1, <4>4
    <3> QED
      BY <3>1, <3>2
  <2>4. SumOver(Charges, Requests)' >= SumOver(Charges, Requests)
    BY <2>1, <2>3, ChargesThrough
  <2> QED
    BY <2>3, <2>4, TableRests
<1>3. ASSUME NEW r \in Requests, Reply(r)  PROVE TableMoves
  <2>1. PICK p : req' = [req EXCEPT ![r] = p]
    BY <1>1, <1>3, ReplyFits DEF Fitted, FitsTo
  <2>2. req[r].pc = "host" /\ req'[r].pc # "host" /\ now' = now /\ TableSettled(r)
    BY <1>3, ReplyStep
  <2>3. req'[r] = p
    BY <2>1 DEF IInv
  <2>4. SumOver(Charges, Requests)' > SumOver(Charges, Requests)
    BY <2>1, <2>2, <2>3, ChargesThrough
  <2>5. SumOver(Charges, Requests)' >= SumOver(Charges, Requests)
    BY <2>1, <2>2, <2>3, ChargesThrough
  <2>6. CASE cool' = cool
    BY <2>2, <2>5, <2>6, TableRests
  <2>7. CASE cool' = [cool EXCEPT ![Leaf(r)] = Fresh]
    BY <2>2, <2>5, <2>7, TableFreshens
  <2>8. ASSUME NEW k \in Kinds, NEW msg \in Reported, NEW ov \in Unrepresentable,
               FailureAt(r, k, msg, ov)
        PROVE  TableMoves
    BY <2>2, <2>4, <2>8, TableFails
  <2> QED
    BY <2>2, <2>6, <2>7, <2>8 DEF TableSettled
<1>4. ASSUME NEW r \in Requests, NEW m \in Names, NEW stream, Claim(r, m, stream)
      PROVE  TableMoves
  <2>1. PICK p : /\ p = [req[r] EXCEPT !.pc = "enter", !.model = m, !.stream = stream]
                 /\ req' = [req EXCEPT ![r] = p]
    BY <1>4 DEF Claim
  <2>2. p.pc = "enter"
    BY <2>1, AtHand DEF RequestFields
  <2>3. SumOver(Charges, Requests)' >= SumOver(Charges, Requests)
    BY <2>1, <2>2, ChargesThrough
  <2> QED
    BY <1>4, <2>3, TableRests DEF Claim
<1>5. ASSUME req' = req, cool' = cool, now' = now  PROVE TableMoves
  BY <1>5, ChargesSame, TableRests
<1>6. CASE \E c \in Configs : Reconfigure(c)
  BY <1>5, <1>6 DEF Reconfigure
<1>7. ASSUME NEW m, ResetCooldown(m)  PROVE TableMoves
  BY <1>7, ChargesSame, TableFreshens DEF ResetCooldown
<1>8. CASE Tick
  <2>1. req' = req /\ cool' = cool
    BY <1>8 DEF Tick
  <2>2. CInv'
    BY <2>1, ChargesSame, TableKept
  <2>3. Table!Tick
    BY <1>8 DEF Tick, Table!Tick
  <2> QED
    BY <2>2, <2>3 DEF TableMoves, Table!Next
<1>9. CASE Rest \/ UNCHANGED vars
  BY <1>5, <1>9 DEF Rest, vars
<1> QED
  BY <1>2, <1>3, <1>4, <1>5, <1>6, <1>7, <1>8, <1>9 DEF Next

(* Where the table starts empty, whatever the requests do, however they       *)
(* interleave and whichever configurations they hold, it evolves by the       *)
(* operations of module Cooldown only (RecordFailure, RecordSuccess, Reset):  *)
(* what is proved of that module's table is true of the engine's.             *)
THEOREM UsesTable ==
  ASSUME Histories = {[m \in Names |-> Fresh]}
  PROVE  Spec => TableSpec
<1>1. Init => Table!Init /\ CInv
  <2> SUFFICES ASSUME Init  PROVE Table!Init /\ CInv
    OBVIOUS
  <2>1. now = 1 /\ cool = [m \in Names |-> Fresh]
    BY DEF Init
  <2>2. Table!Init
    BY <2>1, SameFresh DEF Table!Init
  <2>3. SumOver(Charges, Requests) \in Nat
    BY InitGood, ChargesSound
  <2>4. \A m \in Names : cool[m] = Fresh
    BY <2>1
  <2> QED
    BY <2>1, <2>2, <2>3, <2>4, FreshKept DEF CInv
<1>2. IInv /\ FInv /\ IInv' /\ CInv /\ [Next]_vars => CInv' /\ [Table!Next]_(Table!vars)
  BY TableThrough DEF TableMoves
<1>3. Spec => Init /\ [][Next]_vars
  BY DEF Spec
<1>4. TableSpec <=> Table!Init /\ [][Table!Next]_(Table!vars)
  BY DEF TableSpec, Table!Spec
<1> QED
  BY <1>1, <1>2, <1>3, <1>4, InPlace, PTL

-----------------------------------------------------------------------------
(* A third invariant: types, as sets of records, so that what a step does to  *)
(* a field can be said of the set.                                            *)
Coolings == [target : Targets, until : Nat]

FrameTypes ==
  [model : Names, scan : Seq(Members), look : Seq(Names), soon : Nat,
   cooling : Seq(Coolings), targets : Seq(Targets), degraded : BOOLEAN,
   quota : Nat, attempts : Nat, try : Nat, last : Answers, budget : Nat, calls : Nat]

Frames == {f \in FrameTypes : f.attempts <= f.quota}

Points == {"idle", "enter", "scan", "dispatch", "host", "return", "done"}

RequestTypes ==
  [pc : Points, model : Names \cup {Nothing}, stream : BOOLEAN, snap : Configs,
   left : Nat, committed : BOOLEAN, stack : Seq(Frames), answer : Answers,
   owed : SUBSET Names, spent : Nat, asked : Names \cup {Nothing}, stopped : BOOLEAN]

(* A plan that is being built has not been followed yet.                      *)
Shaped(q) == q \in RequestTypes /\ (q.pc = "scan" => Last(q.stack).attempts = 0)

ShapedTo(r) == \E p : Shaped(p) /\ req' = [req EXCEPT ![r] = p]

TypeInv ==
  /\ cool \in [Names -> Entries]
  /\ now \in 1..MaxTime
  /\ began \in [Groups -> [Names -> Nat]]
  /\ \A r \in Requests : Shaped(req[r])

LEMMA TypesSuffice ==
  ASSUME IInv, FInv, TypeInv
  PROVE  TypeOK
<1>1. \A f \in Frames : IsFrame(f)
  <2> SUFFICES ASSUME NEW f \in Frames  PROVE IsFrame(f)
    OBVIOUS
  <2>1. f \in FrameTypes /\ f.attempts <= f.quota
    BY DEF Frames
  <2>2. /\ f.model \in Names /\ f.soon \in Nat /\ f.degraded \in BOOLEAN
        /\ f.quota \in Nat /\ f.attempts \in Nat /\ f.try \in Nat
        /\ f.last \in Answers /\ f.budget \in Nat /\ f.calls \in Nat
        /\ f.scan \in Seq(Members) /\ f.look \in Seq(Names)
        /\ f.targets \in Seq(Targets) /\ f.cooling \in Seq(Coolings)
    BY <2>1 DEF FrameTypes
  <2>3. f.attempts \in 0..f.quota
    BY <2>1, <2>2
  <2>4. ASSUME NEW S, NEW s \in Seq(S)  PROVE \A i \in DOMAIN s : s[i] \in S
    BY LenProperties, ElementOfSeq
  <2>5. \A i \in DOMAIN f.scan : f.scan[i] \in Members
    BY <2>2, <2>4
  <2>6. \A i \in DOMAIN f.look : f.look[i] \in Names
    BY <2>2, <2>4
  <2>7. \A i \in DOMAIN f.targets : f.targets[i] \in Targets
    BY <2>2, <2>4
  <2>8. \A i \in DOMAIN f.cooling : f.cooling[i] \in Coolings
    BY <2>2, <2>4
  <2>9. \A i \in DOMAIN f.cooling : f.cooling[i].target \in Targets /\ f.cooling[i].until \in Nat
    BY <2>8 DEF Coolings
  <2> QED
    BY <2>2, <2>3, <2>5, <2>6, <2>7, <2>9 DEF IsFrame
<1>2. ASSUME NEW r \in Requests  PROVE IsRequest(req[r])
  <2> DEFINE q == req[r]
  <2>1. q \in RequestTypes /\ Sound(q)
    BY AtHand DEF TypeInv, Shaped
  <2>2. /\ q.pc \in Points /\ q.model \in Names \cup {Nothing} /\ q.stream \in BOOLEAN
        /\ q.snap \in Configs /\ q.committed \in BOOLEAN /\ q.stack \in Seq(Frames)
        /\ q.answer \in Answers /\ q.owed \in SUBSET Names /\ q.asked \in Names \cup {Nothing}
        /\ q.stopped \in BOOLEAN
    BY <2>1 DEF RequestTypes
  <2>3. q.left \in 0..SafetyBudget /\ q.spent \in Nat
    <3>1. q.left \in Nat /\ q.spent \in Nat /\ q.left + q.spent = SafetyBudget /\ SafetyBudget \in Nat
      BY <2>1, BoundsAssumption DEF Sound
    <3> QED
      BY <3>1
  <2>4. \A i \in DOMAIN q.stack : q.stack[i] \in Frames
    BY <2>2, LenProperties, ElementOfSeq
  <2> HIDE DEF q
  <2>5. \A i \in DOMAIN q.stack : IsFrame(q.stack[i])
    BY <1>1, <2>4
  <2>6. IsRequest(q)
    BY <2>2, <2>3, <2>5 DEF IsRequest, Points
  <2> QED
    BY <2>6 DEF q
<1>3. active \in Nat
  <2>1. IsFiniteSet(Requests) /\ \A r \in Requests : Depths[r] \in Nat
    BY DepthsSound
  <2> QED
    BY <2>1, SumOfNats DEF FInv
<1> QED
  BY <1>2, <1>3 DEF TypeOK, TypeInv, IInv
-----------------------------------------------------------------------------
(* Sequences over a set.                                                      *)
LEMMA SeqOver ==
  ASSUME NEW S, NEW s, IsSeq(s), \A i \in DOMAIN s : s[i] \in S
  PROVE  s \in Seq(S)
<1> DEFINE T == {s[i] : i \in DOMAIN s}
<1>1. s \in Seq(T)
  BY DEF IsSeq
<1> HIDE DEF T
<1>2. /\ Len(s) \in Nat /\ s \in [1..Len(s) -> T] /\ DOMAIN s = 1..Len(s)
  BY <1>1, LenProperties
<1>3. s \in [1..Len(s) -> S]
  BY <1>2
<1> QED
  BY <1>2, <1>3

LEMMA SeqParts ==
  ASSUME NEW S, NEW s \in Seq(S)
  PROVE  /\ \A i \in DOMAIN s : s[i] \in S
         /\ \A x \in S : Append(s, x) \in Seq(S) /\ Last(Append(s, x)) = x
         /\ s # <<>> => /\ Head(s) \in S /\ Last(s) \in S
                        /\ Tail(s) \in Seq(S) /\ Front(s) \in Seq(S)
<1>1. \A i \in DOMAIN s : s[i] \in S
  BY LenProperties, ElementOfSeq
<1>2. ASSUME NEW x \in S
      PROVE  Append(s, x) \in Seq(S) /\ Last(Append(s, x)) = x
  <2>1. /\ Append(s, x) \in Seq(S) /\ Len(Append(s, x)) = Len(s) + 1
        /\ Append(s, x)[Len(s) + 1] = x
    BY AppendProperties
  <2> QED
    BY <2>1 DEF Last
<1>3. ASSUME s # <<>>
      PROVE  Head(s) \in S /\ Tail(s) \in Seq(S)
  BY <1>3, HeadTailProperties
<1>4. ASSUME s # <<>>
      PROVE  Last(s) \in S /\ Front(s) \in Seq(S)
  <2>1. IsSeq(s)
    BY AnySeq
  <2>2. /\ IsSeq(Front(s)) /\ DOMAIN Front(s) = 1..(Len(s) - 1) /\ Len(s) \in Nat \ {0}
        /\ \A i \in 1..(Len(s) - 1) : Front(s)[i] = s[i]
        /\ DOMAIN s = 1..Len(s) /\ Last(s) = s[Len(s)]
    BY <1>4, <2>1, Fronted
  <2>3. Last(s) \in S
    BY <1>1, <2>2
  <2>4. \A i \in 1..(Len(s) - 1) : Front(s)[i] \in S
    BY <1>1, <2>2
  <2>5. Front(s) \in Seq(S)
    BY <2>2, <2>4, SeqOver
  <2> QED
    BY <2>3, <2>5
<1> QED
  BY <1>1, <1>2, <1>3, <1>4

(* The answers a request may hold.                                            *)
LEMMA FailuresTyped ==
  ASSUME NEW code \in EngineCodes \cup {"upstream_error"}, NEW status \in Nat,
         NEW marks \in SUBSET Marks
  PROVE  Failure(code, status, marks) \in Answers
<1>1. Classify(status, marks) \in Kinds
  BY KindsOfErrors
<1>2. {} \in SUBSET Marks /\ 0 \in Nat
  OBVIOUS
<1>3. NoAnswer \in Answers
  BY <1>2 DEF NoAnswer, Answers
<1>4. \A k \in Kinds : [NoAnswer EXCEPT !.type = "failed", !.code = code, !.status = status,
                                       !.marks = marks, !.kind = k] \in Answers
  BY <1>3 DEF Answers
<1> QED
  BY <1>1, <1>4 DEF Failure

LEMMA AnswersTyped ==
  /\ NoAnswer \in Answers
  /\ OwnFailures \subseteq Answers
  /\ \A type \in {"delivered", "broken"}, m \in Names, s \in Serves :
       Delivery(type, m, s) \in Answers
  /\ \A f \in FrameTypes : LastOf(f) \in Answers
  /\ \A a \in Answers, g \in Groups : Wrapped(a, g) \in Answers
<1>1. {} \in SUBSET Marks /\ 0 \in Nat
  OBVIOUS
<1>2. NoAnswer \in Answers
  BY <1>1 DEF NoAnswer, Answers
<1>3. OwnFailures \subseteq Answers
  BY <1>1, FailuresTyped, EngineCodesAre
     DEF OwnFailures, ManualInvalid, GroupCycle, TooDeep, SelectedCooling, AllCooling,
         Exhausted, CancelledFailure, MismatchBlocked, NoUpstream
<1>4. ASSUME NEW type \in {"delivered", "broken"}, NEW m \in Names, NEW s \in Serves
      PROVE  Delivery(type, m, s) \in Answers
  BY <1>2 DEF Delivery, Answers
<1>5. ASSUME NEW f \in FrameTypes
      PROVE  LastOf(f) \in Answers
  <2>1. f.last \in Answers
    BY DEF FrameTypes
  <2> QED
    BY <1>3, <2>1 DEF LastOf, OwnFailures
<1>6. ASSUME NEW a \in Answers, NEW g \in Groups
      PROVE  Wrapped(a, g) \in Answers
  <2>1. a.marks \in SUBSET Marks /\ NameMarks[g] \in SUBSET Marks
    BY NameMarksAssumption DEF Answers
  <2>2. (a.marks \ WholeMarks) \cup NameMarks[g] \in SUBSET Marks
    BY <2>1
  <2>3. \A w \in SUBSET Marks : [a EXCEPT !.marks = w] \in Answers
    BY DEF Answers
  <2>4. Wrapped(a, g) = [a EXCEPT !.marks = (a.marks \ WholeMarks) \cup NameMarks[g]]
    BY DEF Wrapped, Answers
  <2> QED
    BY <2>2, <2>3, <2>4
<1> QED
  BY <1>2, <1>3, <1>4, <1>5, <1>6

LEMMA UpstreamTyped ==
  ASSUME NEW err, err.status \in Nat, err.msg.marks \subseteq Marks
  PROVE  Upstream(err) \in Answers
<1>1. KindOf(err) \in Kinds
  BY KindsOfErrors DEF KindOf
<1>2. Shown(err.status, KindOf(err)) \in Nat
  BY ShownStatus DEF KindOf
<1>3. Failure("upstream_error", Shown(err.status, KindOf(err)), err.msg.marks) \in Answers
  BY <1>2, FailuresTyped
<1>4. \A a \in Answers, k \in Kinds : [a EXCEPT !.kind = k] \in Answers
  BY DEF Answers
<1> QED
  BY <1>1, <1>3, <1>4 DEF Upstream

-----------------------------------------------------------------------------
(* The frames a request may hold.                                             *)
LEMMA EmptyPlans ==
  <<>> \in Seq(Members) /\ <<>> \in Seq(Names) /\ <<>> \in Seq(Targets) /\ <<>> \in Seq(Coolings)
BY EmptySeq

LEMMA FrameTyped ==
  ASSUME NEW m \in Names
  PROVE  Frame(m) \in Frames /\ Frame(m).attempts = 0
<1>1. Frame(m) \in FrameTypes
  BY EmptyPlans, AnswersTyped DEF Frame, FrameTypes
<1>2. Frame(m).attempts = 0 /\ Frame(m).quota = 0
  BY DEF Frame
<1> QED
  BY <1>1, <1>2 DEF Frames

(* What a frame goes through keeps its type.                                  *)
LEMMA FrameEdits ==
  ASSUME NEW f \in Frames
  PROVE  /\ \A s \in Seq(Members) : [f EXCEPT !.scan = s] \in Frames
         /\ \A s \in Seq(Names), t \in Nat : [f EXCEPT !.look = s, !.soon = t] \in Frames
         /\ \A s \in Seq(Targets) : [f EXCEPT !.targets = s] \in Frames
         /\ \A s \in Seq(Coolings) : [f EXCEPT !.cooling = s] \in Frames
         /\ \A s \in Seq(Targets), t \in Nat, a \in Answers :
              [[f EXCEPT !.targets = s, !.try = t] EXCEPT !.last = a] \in Frames
         /\ \A t \in Nat : [f EXCEPT !.try = t] \in Frames
<1>1. f \in FrameTypes /\ f.attempts <= f.quota
  BY DEF Frames
<1>2. ASSUME NEW s \in Seq(Members)
      PROVE  [f EXCEPT !.scan = s] \in Frames
  <2>1. [f EXCEPT !.scan = s] \in FrameTypes
    BY <1>1 DEF FrameTypes
  <2>2. [f EXCEPT !.scan = s].attempts = f.attempts /\ [f EXCEPT !.scan = s].quota = f.quota
    BY <1>1 DEF FrameTypes
  <2> QED
    BY <1>1, <2>1, <2>2 DEF Frames
<1>3. ASSUME NEW s \in Seq(Names), NEW t \in Nat
      PROVE  [f EXCEPT !.look = s, !.soon = t] \in Frames
  <2> DEFINE g == [f EXCEPT !.look = s, !.soon = t]
  <2>1. g \in FrameTypes
    BY <1>1 DEF FrameTypes
  <2>2. g.attempts = f.attempts /\ g.quota = f.quota
    BY <1>1 DEF FrameTypes
  <2> QED
    BY <1>1, <2>1, <2>2 DEF Frames
<1>4. ASSUME NEW s \in Seq(Targets)
      PROVE  [f EXCEPT !.targets = s] \in Frames
  <2>1. [f EXCEPT !.targets = s] \in FrameTypes
    BY <1>1 DEF FrameTypes
  <2>2. [f EXCEPT !.targets = s].attempts = f.attempts /\ [f EXCEPT !.targets = s].quota = f.quota
    BY <1>1 DEF FrameTypes
  <2> QED
    BY <1>1, <2>1, <2>2 DEF Frames
<1>5. ASSUME NEW s \in Seq(Coolings)
      PROVE  [f EXCEPT !.cooling = s] \in Frames
  <2>1. [f EXCEPT !.cooling = s] \in FrameTypes
    BY <1>1 DEF FrameTypes
  <2>2. [f EXCEPT !.cooling = s].attempts = f.attempts /\ [f EXCEPT !.cooling = s].quota = f.quota
    BY <1>1 DEF FrameTypes
  <2> QED
    BY <1>1, <2>1, <2>2 DEF Frames
<1>6. ASSUME NEW s \in Seq(Targets), NEW t \in Nat, NEW a \in Answers
      PROVE  [[f EXCEPT !.targets = s, !.try = t] EXCEPT !.last = a] \in Frames
  <2> DEFINE g == [f EXCEPT !.targets = s, !.try = t]
             h == [g EXCEPT !.last = a]
  <2>1. g \in FrameTypes /\ g.attempts = f.attempts /\ g.quota = f.quota
    BY <1>1 DEF FrameTypes
  <2> HIDE DEF g
  <2>2. h \in FrameTypes /\ h.attempts = g.attempts /\ h.quota = g.quota
    BY <2>1 DEF FrameTypes
  <2>3. h.attempts <= h.quota
    BY <1>1, <2>1, <2>2
  <2> HIDE DEF h
  <2>4. h \in Frames
    BY <2>2, <2>3 DEF Frames
  <2> QED
    BY <2>4 DEF h, g
<1>7. ASSUME NEW t \in Nat
      PROVE  [f EXCEPT !.try = t] \in Frames
  <2>1. [f EXCEPT !.try = t] \in FrameTypes
    BY <1>1 DEF FrameTypes
  <2>2. [f EXCEPT !.try = t].attempts = f.attempts /\ [f EXCEPT !.try = t].quota = f.quota
    BY <1>1 DEF FrameTypes
  <2> QED
    BY <1>1, <2>1, <2>2 DEF Frames
<1> QED
  BY <1>2, <1>3, <1>4, <1>5, <1>6, <1>7

LEMMA AdvancedTyped ==
  ASSUME NEW f \in Frames, f.targets # <<>>, NEW a \in Answers
  PROVE  [Advanced(f) EXCEPT !.last = a] \in Frames
<1>1. f.targets \in Seq(Targets)
  BY DEF Frames, FrameTypes
<1>2. Tail(f.targets) \in Seq(Targets)
  BY <1>1, SeqParts
<1>3. [[f EXCEPT !.targets = Tail(f.targets), !.try = 0] EXCEPT !.last = a] \in Frames
  BY <1>2, FrameEdits
<1> QED
  BY <1>3 DEF Advanced

LEMMA FacingTyped ==
  ASSUME NEW c, IsConfig(c), NEW f \in Frames
  PROVE  /\ Facing(c, f) \in Frames /\ Facing(c, f).attempts = f.attempts
         /\ Facing(c, f).model = f.model
<1>1. f.scan \in Seq(Members)
  BY DEF Frames, FrameTypes
<1>2. ASSUME f.scan # <<>>
      PROVE  Looks(c, Head(f.scan).model) \in Seq(Names)
  <2>1. Head(f.scan) \in Members
    BY <1>1, <1>2, SeqParts
  <2>2. Head(f.scan).model \in Names
    BY <2>1 DEF Members
  <2>3. Looks(c, Head(f.scan).model) \in Seq(Names \ DOMAIN c.virtual)
    BY <2>2, LooksAtLeaves
  <2>4. PICK s \in Seq(Names \ DOMAIN c.virtual) : s = Looks(c, Head(f.scan).model)
    BY <2>3
  <2>5. IsSeq(s) /\ \A i \in DOMAIN s : s[i] \in Names
    BY AnySeq, SeqParts
  <2>6. s \in Seq(Names)
    BY <2>5, SeqOver
  <2> QED
    BY <2>4, <2>6
<1>3. PICK s \in Seq(Names) : Facing(c, f) = [f EXCEPT !.look = s, !.soon = 0]
  BY <1>2, EmptyPlans DEF Facing
<1>4. [f EXCEPT !.look = s, !.soon = 0] \in Frames
  BY FrameEdits
<1>5. f \in FrameTypes
  BY DEF Frames
<1>6. /\ [f EXCEPT !.look = s, !.soon = 0].attempts = f.attempts
      /\ [f EXCEPT !.look = s, !.soon = 0].model = f.model
  BY <1>5 DEF FrameTypes
<1> QED
  BY <1>3, <1>4, <1>6

(* Plans are of targets.                                                      *)
LEMMA PlansTyped ==
  ASSUME NEW c, IsConfig(c), NEW g \in DOMAIN c.virtual
  PROVE  Plans(c, g) \subseteq Targets
<1>1. c.virtual[g].members \in Seq(Members)
  BY DEF IsConfig, VirtualModels
<1>2. ToSet(c.virtual[g].members) \subseteq Members
  BY <1>1, SeqParts DEF ToSet
<1>3. ASSUME NEW m \in Members
      PROVE  TargetOf(c, g, m) \in Targets
  <2>1. m.model \in Names /\ m.retries \in Nat
    BY DEF Members
  <2>2. Expectation(c, g, m) \in {"none", "tolerant", "strict"}
    BY DEF Expectation, Checked
  <2>3. 1 + m.retries \in Nat
    BY <2>1
  <2> QED
    BY <2>1, <2>2, <2>3 DEF TargetOf, Targets
<1> QED
  BY <1>2, <1>3 DEF Plans

LEMMA OrdersTyped ==
  ASSUME NEW c \in Configs, NEW g \in DOMAIN c.virtual, NEW ticket \in Nat,
         NEW order \in Orders(c.virtual[g], ticket)
  PROVE  order \in Seq(Members)
<1>1. IsSeq(order)
  BY NamedOrders DEF Named
<1>2. c.virtual[g].members \in Seq(Members)
  BY EngineConfigsAssumption DEF IsConfig, VirtualModels
<1>3. ToSet(c.virtual[g].members) \subseteq Members
  BY <1>2, SeqParts DEF ToSet
<1>4. \A i \in DOMAIN order : order[i] \in Members
  BY <1>3, OrderedMembers
<1> QED
  BY <1>1, <1>4, SeqOver

LEMMA ByUntilTyped ==
  ASSUME NEW s \in Seq(Coolings), NEW sorted \in ByUntil(s)
  PROVE  sorted \in Seq(Targets)
<1>1. IsSeq(s) /\ \A i \in DOMAIN s : s[i] \in Coolings
  BY AnySeq, SeqParts
<1>2. \A i \in DOMAIN s : s[i].target \in Targets /\ s[i].target.model \in Names
  BY <1>1 DEF Coolings, Targets
<1>3. NamedCooling(s)
  BY <1>1, <1>2 DEF NamedCooling
<1>4. IsSeq(sorted)
  BY <1>3, NamedByUntil DEF Named
<1>5. \A i \in DOMAIN sorted : sorted[i] \in Targets
  BY <1>2, <1>3, SortedTargets
<1> QED
  BY <1>4, <1>5, SeqOver

(* A quota counts the tries.                                                  *)
LEMMA QuotaTyped ==
  ASSUME NEW g, g.max \in Nat, NEW targets \in Seq(Targets)
  PROVE  Quota(g, targets) \in Nat
<1>1. PICK f : f = [i \in DOMAIN targets |-> targets[i].tries]
  OBVIOUS
<1>2. PICK n \in Nat : DOMAIN targets = 1..n
  BY LenProperties
<1>3. \A i \in 1..n : f[i] \in Nat
  <2>1. \A i \in DOMAIN targets : targets[i] \in Targets
    BY SeqParts
  <2>2. \A t \in Targets : t.tries \in Nat
    BY DEF Targets
  <2> QED
    BY <1>1, <1>2, <2>1, <2>2
<1>4. IsFiniteSet(1..n)
  BY FS_Interval
<1>5. SumOver(f, 1..n) \in Nat
  BY <1>3, <1>4, SumOfNats
<1>6. SumFunction(f) = SumOver(f, 1..n)
  <2>1. DOMAIN f = 1..n
    BY <1>1, <1>2
  <2>2. SumFunction(f) = SumOver(f, DOMAIN f)
    BY DEF SumFunction, SumFunctionOnSet, FoldFunctionOnSet, SumOver, MapThenSumSet, MapThenFoldSet
  <2> QED
    BY <2>1, <2>2
<1>7. SumFunction([i \in DOMAIN targets |-> targets[i].tries]) \in Nat
  BY <1>1, <1>5, <1>6
<1>8. PICK all \in Nat : all = SumFunction([i \in DOMAIN targets |-> targets[i].tries])
  BY <1>7
<1>9. Quota(g, targets) = IF g.max > 0 /\ g.max < all THEN g.max ELSE all
  BY <1>8 DEF Quota
<1> QED
  BY <1>9

-----------------------------------------------------------------------------
(* What a request goes through keeps its type.                                *)
LEMMA RequestEdits ==
  ASSUME NEW q \in RequestTypes
  PROVE  /\ \A a \in Answers : Answering(q, a) \in RequestTypes /\ Answering(q, a).pc = "return"
         /\ \A m : /\ Settled(q, m) \in RequestTypes /\ Settled(q, m).pc = q.pc
                   /\ Settled(q, m).stack = q.stack
         /\ \A b \in BOOLEAN : /\ [q EXCEPT !.stopped = b] \in RequestTypes
                               /\ [q EXCEPT !.stopped = b].pc = q.pc
         /\ \A b, d \in BOOLEAN : /\ [q EXCEPT !.stopped = b, !.committed = d] \in RequestTypes
                                  /\ [q EXCEPT !.stopped = b, !.committed = d].pc = q.pc
         /\ \A pc \in Points, s \in Seq(Frames) :
              LET p == [q EXCEPT !.pc = pc, !.stack = s]
              IN  p \in RequestTypes /\ p.pc = pc /\ p.stack = s
<1>1. ASSUME NEW a \in Answers
      PROVE  Answering(q, a) \in RequestTypes /\ Answering(q, a).pc = "return"
  BY DEF Answering, RequestTypes, Points
<1>2. ASSUME NEW m
      PROVE  /\ Settled(q, m) \in RequestTypes /\ Settled(q, m).pc = q.pc
             /\ Settled(q, m).stack = q.stack
  BY DEF Settled, RequestTypes
<1>3. ASSUME NEW b \in BOOLEAN
      PROVE  [q EXCEPT !.stopped = b] \in RequestTypes /\ [q EXCEPT !.stopped = b].pc = q.pc
  BY DEF RequestTypes
<1>4. ASSUME NEW b \in BOOLEAN, NEW d \in BOOLEAN
      PROVE  /\ [q EXCEPT !.stopped = b, !.committed = d] \in RequestTypes
             /\ [q EXCEPT !.stopped = b, !.committed = d].pc = q.pc
  BY DEF RequestTypes
<1>5. ASSUME NEW pc \in Points, NEW s \in Seq(Frames)
      PROVE  LET p == [q EXCEPT !.pc = pc, !.stack = s]
             IN  p \in RequestTypes /\ p.pc = pc /\ p.stack = s
  BY DEF RequestTypes
<1> QED
  BY <1>1, <1>2, <1>3, <1>4, <1>5

(* The request, its frames and its configuration.                             *)
LEMMA TypesAtHand ==
  ASSUME IInv, NEW r \in Requests, Shaped(req[r])
  PROVE  LET q == req[r]
         IN  /\ q \in RequestTypes /\ q.stack \in Seq(Frames) /\ q.answer \in Answers
             /\ q.snap \in Configs /\ IsConfig(q.snap) /\ IsConfig(Held(r)) /\ Held(r) \in Configs
             /\ q.stack # <<>> => Top(r) \in Frames /\ Front(q.stack) \in Seq(Frames)
             /\ q.pc = "scan" => Top(r).attempts = 0
<1> DEFINE q == req[r]
<1>1. q \in RequestTypes /\ (q.pc = "scan" => Last(q.stack).attempts = 0)
  BY DEF Shaped
<1>2. q.stack \in Seq(Frames) /\ q.answer \in Answers
  BY <1>1 DEF RequestTypes
<1>3. q.snap \in Configs /\ Held(r) \in Configs
  BY AtHand
<1>4. q.stack # <<>> => Last(q.stack) \in Frames /\ Front(q.stack) \in Seq(Frames)
  BY <1>2, SeqParts
<1> QED
  BY <1>1, <1>2, <1>3, <1>4, EngineConfigsAssumption DEF Top

(* The top frame is replaced.                                                 *)
LEMMA TopShaped ==
  ASSUME IInv, NEW r \in Requests, Shaped(req[r]), req[r].stack # <<>>,
         NEW f \in Frames, NEW pc \in Points
  PROVE  /\ WithTop(r, f, pc) \in RequestTypes /\ WithTop(r, f, pc).pc = pc
         /\ Last(WithTop(r, f, pc).stack) = f
<1> DEFINE q == req[r]
           s == Append(Front(q.stack), f)
<1>1. q \in RequestTypes /\ Front(q.stack) \in Seq(Frames)
  BY TypesAtHand
<1>2. s \in Seq(Frames) /\ Last(s) = f
  <2>1. PICK t \in Seq(Frames) : t = Front(q.stack)
    BY <1>1
  <2>2. \A x \in Frames : Append(t, x) \in Seq(Frames) /\ Last(Append(t, x)) = x
    BY SeqParts
  <2>3. Append(t, f) \in Seq(Frames) /\ Last(Append(t, f)) = f
    BY <2>2
  <2> QED
    BY <2>1, <2>3
<1>3. WithTop(r, f, pc) = [q EXCEPT !.pc = pc, !.stack = s]
  BY DEF WithTop
<1> HIDE DEF q, s
<1>4. /\ [q EXCEPT !.pc = pc, !.stack = s] \in RequestTypes
      /\ [q EXCEPT !.pc = pc, !.stack = s].pc = pc
      /\ [q EXCEPT !.pc = pc, !.stack = s].stack = s
  BY <1>1, <1>2 DEF RequestTypes
<1> QED
  BY <1>2, <1>3, <1>4

(* A call of Execute has its answer.                                          *)
LEMMA ReturnShaped ==
  ASSUME NEW p \in RequestTypes, p.pc # "scan"
  PROVE  Shaped(p)
BY DEF Shaped

LEMMA ClaimShaped ==
  ASSUME IInv, NEW r \in Requests, Shaped(req[r]),
         NEW m \in Names, NEW stream \in Transports, Claim(r, m, stream)
  PROVE  ShapedTo(r)
<1> DEFINE p == [req[r] EXCEPT !.pc = "enter", !.model = m, !.stream = stream]
<1>1. req' = [req EXCEPT ![r] = p]
  BY DEF Claim
<1>2. req[r] \in RequestTypes /\ stream \in BOOLEAN
  BY TypesAtHand, TransportsAssumption
<1>3. p \in RequestTypes /\ p.pc = "enter"
  BY <1>2 DEF RequestTypes, Points
<1> HIDE DEF p
<1> QED
  BY <1>1, <1>3, ReturnShaped DEF ShapedTo

LEMMA StartedShaped ==
  ASSUME IInv, NEW r \in Requests, Shaped(req[r]), NEW f \in Frames, NEW pc \in Points
  PROVE  /\ Started(r, f, pc) \in RequestTypes /\ Started(r, f, pc).pc = pc
         /\ Last(Started(r, f, pc).stack) = f
<1> DEFINE q == req[r]
           s == Append(q.stack, f)
<1>1. q \in RequestTypes /\ q.stack \in Seq(Frames) /\ Held(r) \in Configs
  BY TypesAtHand
<1>2. s \in Seq(Frames) /\ Last(s) = f
  BY <1>1, SeqParts
<1>3. Started(r, f, pc) = [q EXCEPT !.pc = pc, !.snap = Held(r), !.stack = s]
  BY DEF Started
<1> HIDE DEF q, s
<1>4. /\ [q EXCEPT !.pc = pc, !.snap = Held(r), !.stack = s] \in RequestTypes
      /\ [q EXCEPT !.pc = pc, !.snap = Held(r), !.stack = s].pc = pc
      /\ [q EXCEPT !.pc = pc, !.snap = Held(r), !.stack = s].stack = s
  BY <1>1, <1>2 DEF RequestTypes
<1> QED
  BY <1>2, <1>3, <1>4

LEMMA EnterRefusedShaped ==
  ASSUME IInv, NEW r \in Requests, Shaped(req[r]), EnterRefused(r)
  PROVE  ShapedTo(r)
<1> DEFINE g == Entered(r)
           s == Started(r, Frame(g), "return")
           p == Answering(s, Refusal(r, g))
<1>1. req' = [req EXCEPT ![r] = p] /\ req[r].pc = "enter"
  BY DEF EnterRefused
<1>2. g \in Names
  BY <1>1, EnteredAtHand
<1>3. Refusal(r, g) \in OwnFailures
  BY DEF EnterRefused, Refusal, OwnFailures
<1>4. Refusal(r, g) \in Answers
  BY <1>3, AnswersTyped
<1>5. s \in RequestTypes
  BY <1>2, FrameTyped, StartedShaped DEF Points
<1> HIDE DEF s, g
<1>6. p \in RequestTypes /\ p.pc = "return"
  BY <1>4, <1>5, RequestEdits
<1> QED
  BY <1>1, <1>6, ReturnShaped DEF ShapedTo

LEMMA EnterGroupShaped ==
  ASSUME IInv, NEW r \in Requests, Shaped(req[r]), EnterGroup(r),
         began \in [Groups -> [Names -> Nat]]
  PROVE  ShapedTo(r) /\ began' \in [Groups -> [Names -> Nat]]
<1> DEFINE g == Entered(r)
           c == Held(r)
           vm == c.virtual[g]
<1>1. req[r].pc = "enter" /\ g \in DOMAIN c.virtual /\ c \in Configs /\ IsConfig(c)
  BY TypesAtHand DEF EnterGroup
<1>2. turn[g] \in Nat /\ vm.max \in Nat /\ g \in Groups /\ g \in Names
  <2>1. g \in Groups /\ vm \in VirtualModels
    BY <1>1 DEF IsConfig
  <2> QED
    BY <2>1 DEF IInv, VirtualModels, Names
<1>3. PICK order \in Orders(vm, turn[g]) :
        /\ req' = [req EXCEPT ![r] =
             Started(r, Facing(c, [Frame(g) EXCEPT !.scan = order, !.budget = vm.max]), "scan")]
        /\ began' = [began EXCEPT ![g][Head(order).model] = @ + 1]
  BY DEF EnterGroup
<1>4. order \in Seq(Members) /\ order # <<>>
  <2>1. order \in Seq(Members)
    BY <1>1, <1>2, <1>3, OrdersTyped
  <2>2. Refusal(r, g) = NoAnswer
    BY DEF EnterGroup
  <2>3. ManualInvalid # NoAnswer /\ GroupCycle # NoAnswer /\ TooDeep # NoAnswer
    <3>1. /\ ManualInvalid.type = "failed" /\ GroupCycle.type = "failed"
          /\ TooDeep.type = "failed"
      BY OwnFailuresHonest DEF OwnFailures
    <3>2. NoAnswer.type = "none"
      BY NoAnswerHonest
    <3> QED
      BY <3>1, <3>2
  <2>4. <<>> \notin Orders(vm, turn[g])
    BY <2>2, <2>3 DEF Refusal
  <2> QED
    BY <1>3, <2>1, <2>4
<1> DEFINE e == [Frame(g) EXCEPT !.scan = order, !.budget = vm.max]
           f == Facing(c, e)
<1>5. e \in Frames /\ e.attempts = 0
  <2>1. Frame(g) \in FrameTypes /\ Frame(g).attempts = 0 /\ Frame(g).quota \in Nat
    BY <1>2, FrameTyped DEF Frames, FrameTypes
  <2> HIDE DEF vm, g
  <2>2. e \in FrameTypes /\ e.attempts = 0 /\ e.quota = Frame(g).quota
    BY <1>2, <1>4, <2>1 DEF FrameTypes
  <2> HIDE DEF e
  <2>3. e.attempts <= e.quota
    BY <2>1, <2>2
  <2> QED
    BY <2>2, <2>3 DEF Frames
<1> HIDE DEF e
<1>6. f \in Frames /\ f.attempts = 0
  BY <1>1, <1>5, FacingTyped
<1>7. req' = [req EXCEPT ![r] = Started(r, f, "scan")]
  BY <1>3 DEF e
<1> HIDE DEF f
<1> DEFINE p == Started(r, f, "scan")
<1>8. p \in RequestTypes /\ Last(p.stack) = f
  BY <1>6, StartedShaped DEF Points
<1>9. Shaped(p)
  BY <1>6, <1>8 DEF Shaped
<1>10. Head(order).model \in Names
  <2>1. Head(order) \in Members
    BY <1>4, SeqParts
  <2> QED
    BY <2>1 DEF Members
<1>11. began' \in [Groups -> [Names -> Nat]]
  <2> HIDE DEF g
  <2>1. PICK m \in Names : m = Head(order).model
    BY <1>10
  <2>2. began' = [began EXCEPT ![g] = [began[g] EXCEPT ![m] = began[g][m] + 1]]
    BY <1>2, <1>3, <2>1
  <2>3. began[g] \in [Names -> Nat] /\ began[g][m] + 1 \in Nat
    BY <1>2
  <2>4. [began[g] EXCEPT ![m] = began[g][m] + 1] \in [Names -> Nat]
    BY <2>3
  <2> QED
    BY <1>2, <2>2, <2>4
<1> QED
  BY <1>7, <1>9, <1>11 DEF ShapedTo

LEMMA EnterDirectShaped ==
  ASSUME IInv, NEW r \in Requests, Shaped(req[r]), EnterDirect(r)
  PROVE  ShapedTo(r)
<1> DEFINE m == Entered(r)
           c == Held(r)
           ruled == m \in DOMAIN c.rules
           tries == IF ruled THEN 1 + c.rules[m].retries ELSE 1
           expect == IF ruled THEN Checked(c.rules[m].strict) ELSE "none"
           target == [model |-> m, expect |-> expect, tries |-> tries]
           f == [Frame(m) EXCEPT !.targets = <<target>>, !.quota = tries]
<1>1. req[r].pc = "enter" /\ req' = [req EXCEPT ![r] = Started(r, f, "dispatch")]
  BY DEF EnterDirect
<1>2. m \in Names /\ IsConfig(c)
  BY <1>1, EnteredAtHand, TypesAtHand
<1>3. tries \in Nat
  <2>1. ruled => c.rules[m].retries \in Nat
    BY <1>2 DEF IsConfig, Rules
  <2> QED
    BY <2>1
<1>4. expect \in {"none", "tolerant", "strict"}
  BY DEF Checked
<1> HIDE DEF tries, expect, m
<1>5. target \in Targets
  BY <1>2, <1>3, <1>4 DEF Targets
<1> HIDE DEF target
<1>6. <<target>> \in Seq(Targets)
  <2>1. \A t \in Targets : <<t>> \in Seq(Targets)
    OBVIOUS
  <2> QED
    BY <1>5, <2>1
<1>7. f \in Frames
  <2>1. Frame(m) \in FrameTypes /\ Frame(m).attempts = 0
    BY <1>2, FrameTyped DEF Frames
  <2>2. f \in FrameTypes /\ f.attempts = 0 /\ f.quota = tries
    BY <1>3, <1>6, <2>1 DEF FrameTypes
  <2> HIDE DEF f
  <2>3. f.attempts <= f.quota
    BY <1>3, <2>2
  <2> QED
    BY <2>2, <2>3 DEF Frames
<1> HIDE DEF f
<1> DEFINE p == Started(r, f, "dispatch")
<1>8. p \in RequestTypes /\ p.pc = "dispatch"
  BY <1>7, StartedShaped DEF Points
<1> HIDE DEF p
<1>9. req' = [req EXCEPT ![r] = p]
  BY <1>1 DEF p
<1> QED
  BY <1>8, <1>9, ReturnShaped DEF ShapedTo

-----------------------------------------------------------------------------
(* Building a plan.                                                           *)
LEMMA PlannedShaped ==
  ASSUME IInv, NEW r \in Requests, Shaped(req[r]), req[r].stack # <<>>,
         NEW f \in Frames, f.attempts = 0, f.model \in DOMAIN req[r].snap.virtual,
         NEW p \in Planned(r, f)
  PROVE  Shaped(p)
<1> DEFINE vm == req[r].snap.virtual[f.model]
           Followed(targets, degraded) ==
             [f EXCEPT !.cooling = <<>>, !.targets = targets, !.degraded = degraded,
                       !.quota = Quota(vm, targets)]
<1>1. vm.max \in Nat
  <2>1. IsConfig(req[r].snap)
    BY TypesAtHand
  <2> QED
    BY <2>1 DEF IsConfig, VirtualModels
<1>2. f \in FrameTypes /\ f.targets \in Seq(Targets) /\ f.cooling \in Seq(Coolings)
  BY DEF Frames, FrameTypes
<1>3. ASSUME NEW targets \in Seq(Targets), NEW degraded \in BOOLEAN
      PROVE  Shaped(WithTop(r, Followed(targets, degraded), "dispatch"))
  <2> DEFINE g == Followed(targets, degraded)
  <2>1. Quota(vm, targets) \in Nat
    BY <1>1, QuotaTyped
  <2>2. g \in FrameTypes /\ g.attempts = 0 /\ g.quota = Quota(vm, targets)
    BY <1>2, <2>1, EmptyPlans DEF FrameTypes
  <2> HIDE DEF g
  <2>3. g.attempts <= g.quota
    BY <2>1, <2>2
  <2>4. g \in Frames
    BY <2>2, <2>3 DEF Frames
  <2>5. WithTop(r, g, "dispatch") \in RequestTypes /\ WithTop(r, g, "dispatch").pc = "dispatch"
    BY <2>4, TopShaped DEF Points
  <2>6. Shaped(WithTop(r, g, "dispatch"))
    BY <2>5, ReturnShaped
  <2> QED
    BY <2>6 DEF g
<1>4. ASSUME NEW a \in OwnFailures
      PROVE  Shaped(Answering(WithTop(r, f, "return"), a))
  <2>1. WithTop(r, f, "return") \in RequestTypes
    BY TopShaped DEF Points
  <2>2. a \in Answers
    BY AnswersTyped
  <2>3. /\ Answering(WithTop(r, f, "return"), a) \in RequestTypes
        /\ Answering(WithTop(r, f, "return"), a).pc = "return"
    BY <2>1, <2>2, RequestEdits
  <2> QED
    BY <2>3, ReturnShaped
<1>5. \/ p = WithTop(r, Followed(f.targets, FALSE), "dispatch")
      \/ p = Answering(WithTop(r, f, "return"), SelectedCooling)
      \/ p = Answering(WithTop(r, f, "return"), AllCooling)
      \/ \E sorted \in ByUntil(f.cooling) : p = WithTop(r, Followed(sorted, TRUE), "dispatch")
  BY DEF Planned
<1> HIDE DEF Followed
<1>6. CASE p = WithTop(r, Followed(f.targets, FALSE), "dispatch")
  BY <1>2, <1>3, <1>6
<1>7. CASE \/ p = Answering(WithTop(r, f, "return"), SelectedCooling)
           \/ p = Answering(WithTop(r, f, "return"), AllCooling)
  <2>1. SelectedCooling \in OwnFailures /\ AllCooling \in OwnFailures
    BY DEF OwnFailures
  <2> QED
    BY <1>4, <1>7, <2>1
<1>8. CASE \E sorted \in ByUntil(f.cooling) : p = WithTop(r, Followed(sorted, TRUE), "dispatch")
  <2>1. PICK sorted \in ByUntil(f.cooling) : p = WithTop(r, Followed(sorted, TRUE), "dispatch")
    BY <1>8
  <2>2. sorted \in Seq(Targets)
    BY <1>2, ByUntilTyped
  <2> QED
    BY <1>3, <2>1, <2>2
<1> QED
  BY <1>5, <1>6, <1>7, <1>8

LEMMA JudgedShaped ==
  ASSUME IInv, NEW r \in Requests, Shaped(req[r]), req[r].stack # <<>>,
         NEW f \in Frames, f.attempts = 0, f.model \in DOMAIN req[r].snap.virtual,
         f.scan # <<>>, NEW p \in Judged(r, f)
  PROVE  Shaped(p)
<1> DEFINE c == req[r].snap
           e == [f EXCEPT !.scan = Tail(@)]
           next == Facing(c, e)
<1>1. e \in Frames /\ e.attempts = 0 /\ e.model = f.model
  <2>1. f \in FrameTypes /\ f.scan \in Seq(Members)
    BY DEF Frames, FrameTypes
  <2>2. Tail(f.scan) \in Seq(Members)
    BY <2>1, SeqParts
  <2>3. e \in Frames
    BY <2>2, FrameEdits
  <2>4. e.attempts = f.attempts /\ e.model = f.model
    BY <2>1 DEF FrameTypes
  <2> QED
    BY <2>3, <2>4
<1> HIDE DEF e
<1>2. next \in Frames /\ next.attempts = 0 /\ next.model = f.model
  <2>1. IsConfig(c)
    BY TypesAtHand
  <2> QED
    BY <1>1, <2>1, FacingTyped
<1>3. IF next.scan = <<>> THEN p \in Planned(r, next) ELSE p = WithTop(r, next, "scan")
  BY DEF Judged, e
<1> HIDE DEF next
<1>4. CASE next.scan = <<>>
  <2>1. p \in Planned(r, next)
    BY <1>3, <1>4
  <2> QED
    BY <1>2, <2>1, PlannedShaped
<1>5. CASE next.scan # <<>>
  <2>1. p = WithTop(r, next, "scan")
    BY <1>3, <1>5
  <2>2. p \in RequestTypes /\ Last(p.stack) = next
    BY <1>2, <2>1, TopShaped DEF Points
  <2> QED
    BY <1>2, <2>2 DEF Shaped
<1> QED
  BY <1>4, <1>5

(* The member at hand makes a target.                                         *)
LEMMA ScanTyped ==
  ASSUME IInv, NEW r \in Requests, Fits(req[r]), Shaped(req[r]), req[r].pc = "scan"
  PROVE  LET f == Top(r)
         IN  /\ f \in Frames /\ f.attempts = 0 /\ f.scan # <<>> /\ Candidate(r) \in Targets
             /\ req[r].stack # <<>> /\ f.model \in DOMAIN req[r].snap.virtual
<1>1. /\ req[r].stack # <<>> /\ Top(r).model \in DOMAIN req[r].snap.virtual
      /\ Top(r).scan # <<>>
      /\ Candidate(r) \in Plans(req[r].snap, Top(r).model)
  BY ScanningAtHand
<1>2. IsConfig(req[r].snap) /\ Top(r) \in Frames /\ Top(r).attempts = 0
  BY <1>1, TypesAtHand
<1>3. Plans(req[r].snap, Top(r).model) \subseteq Targets
  BY <1>1, <1>2, PlansTyped
<1> QED
  BY <1>1, <1>2, <1>3

(* What is read of the table is an instant.                                   *)
LEMMA UntilTyped ==
  ASSUME cool \in [Names -> Entries], NEW m \in Names
  PROVE  Until(m) \in Nat
<1>1. cool[m] \in Entries
  OBVIOUS
<1>2. cool[m].until \in Nat
  BY <1>1 DEF Entries
<1> QED
  BY <1>2 DEF Until, UntilAt

LEMMA LookTyped ==
  ASSUME cool \in [Names -> Entries], NEW f \in Frames, f.look # <<>>
  PROVE  /\ Until(Head(f.look)) \in Nat /\ Tail(f.look) \in Seq(Names)
         /\ Sooner(f.soon, Until(Head(f.look))) \in Nat
<1>1. f.look \in Seq(Names) /\ f.soon \in Nat
  BY DEF Frames, FrameTypes
<1>2. Head(f.look) \in Names /\ Tail(f.look) \in Seq(Names)
  BY <1>1, SeqParts
<1>3. Until(Head(f.look)) \in Nat
  BY <1>2, UntilTyped
<1> QED
  BY <1>1, <1>2, <1>3 DEF Sooner

LEMMA FindReadyShaped ==
  ASSUME IInv, NEW r \in Requests, Fits(req[r]), Shaped(req[r]), FindReady(r)
  PROVE  ShapedTo(r)
<1> DEFINE f == Top(r)
           e == [f EXCEPT !.targets = Append(@, Candidate(r))]
<1>1. PICK p \in Judged(r, e) : req' = [req EXCEPT ![r] = p]
  BY DEF FindReady
<1>2. /\ f \in Frames /\ f.attempts = 0 /\ f.scan # <<>> /\ Candidate(r) \in Targets
      /\ req[r].stack # <<>> /\ f.model \in DOMAIN req[r].snap.virtual
  BY ScanTyped DEF FindReady
<1> HIDE DEF f
<1>3. f \in FrameTypes /\ f.targets \in Seq(Targets)
  BY <1>2 DEF Frames, FrameTypes
<1>4. Append(f.targets, Candidate(r)) \in Seq(Targets)
  BY <1>2, <1>3, SeqParts
<1>5. e \in Frames
  BY <1>2, <1>4, FrameEdits
<1>6. e.attempts = 0 /\ e.model = f.model /\ e.scan = f.scan
  BY <1>2, <1>3 DEF FrameTypes
<1> HIDE DEF e
<1>7. Shaped(p)
  BY <1>1, <1>2, <1>5, <1>6, JudgedShaped
<1> QED
  BY <1>1, <1>7 DEF ShapedTo

LEMMA FindCoolingShaped ==
  ASSUME IInv, NEW r \in Requests, Fits(req[r]), Shaped(req[r]), FindCooling(r),
         cool \in [Names -> Entries]
  PROVE  ShapedTo(r)
<1> DEFINE f == Top(r)
           until == IF f.look = <<>> THEN 0 ELSE Sooner(f.soon, Until(Head(f.look)))
           x == [target |-> Candidate(r), until |-> until]
           e == [f EXCEPT !.cooling = Append(@, x)]
<1>1. PICK p \in Judged(r, e) : req' = [req EXCEPT ![r] = p]
  BY DEF FindCooling
<1>2. /\ f \in Frames /\ f.attempts = 0 /\ f.scan # <<>> /\ Candidate(r) \in Targets
      /\ req[r].stack # <<>> /\ f.model \in DOMAIN req[r].snap.virtual
  BY ScanTyped DEF FindCooling
<1> HIDE DEF f
<1>3. until \in Nat
  BY <1>2, LookTyped
<1> HIDE DEF until
<1>4. x \in Coolings
  BY <1>2, <1>3 DEF Coolings
<1> HIDE DEF x
<1>5. f \in FrameTypes /\ f.cooling \in Seq(Coolings)
  BY <1>2 DEF Frames, FrameTypes
<1>6. Append(f.cooling, x) \in Seq(Coolings)
  BY <1>4, <1>5, SeqParts
<1>7. e \in Frames
  BY <1>2, <1>6, FrameEdits
<1>8. e.attempts = 0 /\ e.model = f.model /\ e.scan = f.scan
  BY <1>2, <1>5 DEF FrameTypes
<1> HIDE DEF e
<1>9. Shaped(p)
  BY <1>1, <1>2, <1>7, <1>8, JudgedShaped
<1> QED
  BY <1>1, <1>9 DEF ShapedTo

LEMMA LookFurtherShaped ==
  ASSUME IInv, NEW r \in Requests, Fits(req[r]), Shaped(req[r]), LookFurther(r),
         cool \in [Names -> Entries]
  PROVE  ShapedTo(r)
<1> DEFINE f == Top(r)
           soon == Sooner(f.soon, Until(Head(f.look)))
           e == [f EXCEPT !.look = Tail(@), !.soon = soon]
           p == WithTop(r, e, "scan")
<1>1. req' = [req EXCEPT ![r] = p] /\ req[r].pc = "scan" /\ Len(f.look) > 1
  <2>1. f \in FrameTypes
    BY ScanTyped DEF LookFurther, Frames
  <2>2. e = [f EXCEPT !.look = Tail(@), !.soon = Sooner(@, Until(Head(f.look)))]
    BY <2>1 DEF FrameTypes
  <2> QED
    BY <2>2 DEF LookFurther
<1>2. f \in Frames /\ f.attempts = 0 /\ req[r].stack # <<>>
  BY <1>1, ScanTyped
<1> HIDE DEF f
<1>3. f.look # <<>> /\ f \in FrameTypes
  BY <1>1, <1>2 DEF Frames
<1>4. Tail(f.look) \in Seq(Names) /\ soon \in Nat
  BY <1>2, <1>3, LookTyped
<1> HIDE DEF soon
<1>5. e \in Frames
  BY <1>2, <1>4, FrameEdits
<1>6. e.attempts = 0
  BY <1>2, <1>3 DEF FrameTypes
<1> HIDE DEF e
<1>7. p \in RequestTypes /\ Last(p.stack) = e
  BY <1>2, <1>5, TopShaped DEF Points
<1> HIDE DEF p
<1>8. Shaped(p)
  BY <1>6, <1>7 DEF Shaped
<1> QED
  BY <1>1, <1>8 DEF ShapedTo

-----------------------------------------------------------------------------
(* Following a plan.                                                          *)
LEMMA DescendShaped ==
  ASSUME IInv, NEW r \in Requests, Shaped(req[r]), Descend(r)
  PROVE  ShapedTo(r)
<1> DEFINE p == [req[r] EXCEPT !.pc = "enter"]
<1>1. req' = [req EXCEPT ![r] = p]
  BY DEF Descend
<1>2. req[r] \in RequestTypes
  BY TypesAtHand
<1>3. p \in RequestTypes /\ p.pc = "enter"
  BY <1>2 DEF RequestTypes, Points
<1> HIDE DEF p
<1> QED
  BY <1>1, <1>3, ReturnShaped DEF ShapedTo

LEMMA CallShaped ==
  ASSUME IInv, NEW r \in Requests, Shaped(req[r]), Call(r)
  PROVE  ShapedTo(r)
<1> DEFINE q == req[r]
           n == Len(q.stack)
           s == Consumed(r)
           m == Head(Top(r).targets).model
           p == [q EXCEPT !.pc = "host", !.left = @ - 1, !.spent = @ + 1,
                          !.asked = m, !.stack = s]
<1>1. req' = [req EXCEPT ![r] = p]
  BY DEF Call
<1>2. q.stack # <<>> /\ Affordable(r) /\ Remaining(Top(r)) /\ q.pc = "dispatch"
  BY AtHand DEF Call, Placed
<1>3. /\ q \in RequestTypes /\ q.stack \in Seq(Frames) /\ Top(r) \in Frames
      /\ n \in Nat \ {0} /\ DOMAIN q.stack = 1..n /\ Top(r) = q.stack[n]
  BY <1>2, TypesAtHand, AtHand, TopSound
<1>4. q.left \in Nat /\ q.spent \in Nat /\ q.left > 0
  BY <1>2, <1>3 DEF RequestTypes, Affordable
<1>5. m \in Names
  <2>1. Top(r).targets \in Seq(Targets) /\ Top(r).targets # <<>>
    BY <1>2, <1>3 DEF Frames, FrameTypes, Remaining
  <2>2. Head(Top(r).targets) \in Targets
    BY <2>1, SeqParts
  <2> QED
    BY <2>2 DEF Targets
<1>6. IsSeq(s) /\ DOMAIN s = 1..n
  BY <1>2, <1>3, ConsumedFrames
<1>7. ASSUME NEW i \in 1..n
      PROVE  s[i] \in Frames
  <2> DEFINE f == q.stack[i]
             attempts == IF i = n THEN f.attempts + 1 ELSE f.attempts
             budget == IF i \in Budgeted(r) THEN f.budget - 1 ELSE f.budget
             calls == f.calls + 1
             g == [f EXCEPT !.calls = calls, !.attempts = attempts, !.budget = budget]
  <2>1. f \in FrameTypes /\ f.attempts <= f.quota
    BY <1>3, SeqParts DEF Frames
  <2>2. i = n => f.attempts < f.quota
    BY <1>2, <1>3 DEF Remaining
  <2>3. i \in Budgeted(r) => f.budget > 0
    BY <1>2 DEF Affordable
  <2>4. f.calls \in Nat /\ f.attempts \in Nat /\ f.quota \in Nat /\ f.budget \in Nat
    BY <2>1 DEF FrameTypes
  <2>5. s[i] = g
    BY <1>3, <2>1 DEF Consumed, FrameTypes
  <2> HIDE DEF f, s
  <2>6. attempts \in Nat /\ attempts <= f.quota
    BY <2>1, <2>2, <2>4
  <2>7. budget \in Nat /\ calls \in Nat
    BY <2>3, <2>4
  <2> HIDE DEF attempts, budget, calls
  <2>8. g \in FrameTypes /\ g.attempts = attempts /\ g.quota = f.quota
    BY <2>1, <2>6, <2>7 DEF FrameTypes
  <2> HIDE DEF g
  <2>9. g.attempts <= g.quota
    BY <2>6, <2>8
  <2> QED
    BY <2>5, <2>8, <2>9 DEF Frames
<1> HIDE DEF s, m, n
<1>8. s \in Seq(Frames)
  BY <1>6, <1>7, SeqOver
<1>9. q.left - 1 \in Nat /\ q.spent + 1 \in Nat
  BY <1>4
<1>10. p \in RequestTypes /\ p.pc = "host"
  BY <1>3, <1>5, <1>8, <1>9 DEF RequestTypes, Points
<1> HIDE DEF p
<1> QED
  BY <1>1, <1>10, ReturnShaped DEF ShapedTo

(* The call of Execute ends with an answer.                                   *)
LEMMA EndsShaped ==
  ASSUME IInv, NEW r \in Requests, Shaped(req[r]), NEW a \in Answers, NEW b \in BOOLEAN,
         req' = [req EXCEPT ![r] = [Answering(req[r], a) EXCEPT !.stopped = b]]
  PROVE  ShapedTo(r)
<1> DEFINE w == Answering(req[r], a)
           p == [w EXCEPT !.stopped = b]
<1>1. req[r] \in RequestTypes
  BY TypesAtHand
<1>2. w \in RequestTypes /\ w.pc = "return"
  BY <1>1, RequestEdits
<1>3. req' = [req EXCEPT ![r] = p]
  OBVIOUS
<1> HIDE DEF w
<1>4. p \in RequestTypes /\ p.pc = w.pc
  BY <1>2 DEF RequestTypes
<1> HIDE DEF p
<1>5. Shaped(p)
  BY <1>2, <1>4, ReturnShaped
<1> QED
  BY <1>3, <1>5 DEF ShapedTo

LEMMA ExhaustShaped ==
  ASSUME IInv, NEW r \in Requests, Shaped(req[r]), Exhaust(r)
  PROVE  ShapedTo(r)
<1>1. req' = [req EXCEPT ![r] = [Answering(req[r], Exhausted) EXCEPT !.stopped = TRUE]]
  BY DEF Exhaust
<1>2. Exhausted \in Answers
  BY AnswersTyped DEF OwnFailures
<1> QED
  BY <1>1, <1>2, EndsShaped

LEMMA CancelShaped ==
  ASSUME IInv, NEW r \in Requests, Shaped(req[r]), Cancel(r)
  PROVE  ShapedTo(r)
<1>1. req' = [req EXCEPT ![r] = [Answering(req[r], CancelledFailure) EXCEPT !.stopped = TRUE]]
  BY DEF Cancel
<1>2. CancelledFailure \in Answers
  BY AnswersTyped DEF OwnFailures
<1> QED
  BY <1>1, <1>2, EndsShaped

LEMMA GiveUpShaped ==
  ASSUME IInv, NEW r \in Requests, Shaped(req[r]), GiveUp(r)
  PROVE  ShapedTo(r)
<1> DEFINE q == req[r]
           f == Top(r)
           spent == Cardinality(Path(r)) > 1 /\ \E i \in Budgeted(r) : q.stack[i].budget = 0
           last == IF IsGroup(r, f.model) THEN Wrapped(LastOf(f), f.model) ELSE LastOf(f)
           a == IF spent THEN Exhausted ELSE last
           b == q.stopped \/ spent
<1>1. req' = [req EXCEPT ![r] = [Answering(q, a) EXCEPT !.stopped = b]] /\ q.pc = "dispatch"
  BY DEF GiveUp
<1>2. q.stack # <<>>
  BY <1>1, AtHand DEF Placed
<1>3. f \in FrameTypes /\ IsConfig(q.snap)
  BY <1>2, TypesAtHand DEF Frames
<1>4. LastOf(f) \in Answers /\ Exhausted \in Answers
  BY <1>3, AnswersTyped DEF OwnFailures
<1>5. last \in Answers
  <2>1. IsGroup(r, f.model) => f.model \in Groups
    BY <1>3 DEF IsGroup, IsConfig
  <2> QED
    BY <1>4, <2>1, AnswersTyped
<1>6. a \in Answers /\ b \in BOOLEAN
  BY <1>4, <1>5
<1> HIDE DEF a, b
<1> QED
  BY <1>1, <1>6, EndsShaped

-----------------------------------------------------------------------------
(* The host has replied.                                                      *)
LEMMA LeafTyped ==
  ASSUME IInv, NEW r \in Requests, Shaped(req[r]), req[r].pc = "host"
  PROVE  /\ Leaf(r) \in Names /\ req[r].stack # <<>>
         /\ Top(r) \in Frames /\ Top(r).targets # <<>>
<1>1. req[r].stack # <<>> /\ Top(r).targets # <<>>
  BY HostAtHand
<1>2. Top(r) \in Frames
  BY <1>1, TypesAtHand
<1>3. Top(r).targets \in Seq(Targets)
  BY <1>2 DEF Frames, FrameTypes
<1>4. Head(Top(r).targets) \in Targets
  BY <1>1, <1>3, SeqParts
<1> QED
  BY <1>1, <1>2, <1>4 DEF Leaf, Targets

LEMMA DeliveredShaped ==
  ASSUME IInv, NEW r \in Requests, Shaped(req[r]), req[r].pc = "host", NEW s \in Serves,
         NEW type \in {"delivered", "broken"}, NEW committed \in BOOLEAN,
         req' = [req EXCEPT ![r] =
                   [Settled(Answering(req[r], Delivery(type, Leaf(r), s)), Leaf(r))
                      EXCEPT !.stopped = TRUE, !.committed = committed]]
  PROVE  ShapedTo(r)
<1> DEFINE d == Delivery(type, Leaf(r), s)
           a == Answering(req[r], d)
           b == Settled(a, Leaf(r))
           p == [b EXCEPT !.stopped = TRUE, !.committed = committed]
<1>1. d \in Answers
  BY LeafTyped, AnswersTyped
<1>2. req' = [req EXCEPT ![r] = p]
  OBVIOUS
<1> HIDE DEF d
<1>3. req[r] \in RequestTypes
  BY TypesAtHand
<1>4. a \in RequestTypes /\ a.pc = "return"
  <2>1. PICK q \in RequestTypes : q = req[r]
    BY <1>3
  <2>2. \A x \in Answers : Answering(q, x) \in RequestTypes /\ Answering(q, x).pc = "return"
    BY RequestEdits
  <2> QED
    BY <1>1, <2>1, <2>2
<1> HIDE DEF a
<1>5. b \in RequestTypes /\ b.pc = "return"
  BY <1>4, RequestEdits
<1> HIDE DEF b
<1>6. p \in RequestTypes /\ p.pc = "return"
  BY <1>5, RequestEdits
<1> HIDE DEF p
<1> QED
  BY <1>2, <1>6, ReturnShaped DEF ShapedTo

LEMMA RetryShaped ==
  ASSUME IInv, NEW r \in Requests, Shaped(req[r]), NEW s, Retry(r, s)
  PROVE  ShapedTo(r)
<1> DEFINE f == Top(r)
           e == [f EXCEPT !.try = @ + 1]
           w == WithTop(r, e, "dispatch")
           p == [w EXCEPT !.owed = @ \cup {Leaf(r)}]
<1>1. req' = [req EXCEPT ![r] = p] /\ req[r].pc = "host"
  BY DEF Retry
<1>2. Leaf(r) \in Names /\ req[r].stack # <<>> /\ f \in Frames
  BY <1>1, LeafTyped
<1>3. e \in Frames
  <2>1. f.try \in Nat /\ f \in FrameTypes
    BY <1>2 DEF Frames, FrameTypes
  <2>2. PICK t \in Nat : t = f.try + 1
    BY <2>1
  <2>3. [f EXCEPT !.try = t] \in Frames
    BY <1>2, FrameEdits
  <2>4. e = [f EXCEPT !.try = t]
    BY <2>1, <2>2 DEF FrameTypes
  <2> QED
    BY <2>3, <2>4
<1> HIDE DEF e
<1>4. w \in RequestTypes /\ w.pc = "dispatch"
  BY <1>2, <1>3, TopShaped DEF Points
<1> HIDE DEF w
<1>5. p \in RequestTypes /\ p.pc = "dispatch"
  BY <1>2, <1>4 DEF RequestTypes
<1> HIDE DEF p
<1> QED
  BY <1>1, <1>5, ReturnShaped DEF ShapedTo

LEMMA NextTargetShaped ==
  ASSUME IInv, NEW r \in Requests, Shaped(req[r]), req[r].pc = "host", NEW a \in Answers,
         req' = [req EXCEPT ![r] =
           Settled(WithTop(r, [Advanced(Top(r)) EXCEPT !.last = a], "dispatch"), Leaf(r))]
  PROVE  ShapedTo(r)
<1> DEFINE e == [Advanced(Top(r)) EXCEPT !.last = a]
           w == WithTop(r, e, "dispatch")
           p == Settled(w, Leaf(r))
<1>1. req' = [req EXCEPT ![r] = p]
  OBVIOUS
<1>2. req[r].stack # <<>> /\ Top(r) \in Frames /\ Top(r).targets # <<>>
  BY LeafTyped
<1>3. e \in Frames
  BY <1>2, AdvancedTyped
<1> HIDE DEF e
<1>4. w \in RequestTypes /\ w.pc = "dispatch"
  BY <1>2, <1>3, TopShaped DEF Points
<1> HIDE DEF w
<1>5. p \in RequestTypes /\ p.pc = "dispatch"
  <2>1. PICK q \in RequestTypes : q = w
    BY <1>4
  <2>2. \A m : Settled(q, m) \in RequestTypes /\ Settled(q, m).pc = q.pc
    BY RequestEdits
  <2> QED
    BY <1>4, <2>1, <2>2
<1> HIDE DEF p
<1> QED
  BY <1>1, <1>5, ReturnShaped DEF ShapedTo

LEMMA FailShaped ==
  ASSUME IInv, NEW r \in Requests, Shaped(req[r]), NEW h \in Replies, NEW ov,
         Fail(r, ErrorOf(h), ov)
  PROVE  ShapedTo(r)
<1> DEFINE q == req[r]
           u == Upstream(ErrorOf(h))
           k == KindOf(ErrorOf(h))
           halt == \A i \in DOMAIN q.stack : ~GoesOn(r, q.stack[i], k)
<1>1. u \in Answers
  BY ErrorsTyped, UpstreamTyped
<1>2. q.pc = "host"
  BY DEF Fail
<1>3. CASE GoesOn(r, Top(r), k)
  <2>1. req' = [req EXCEPT ![r] =
           Settled(WithTop(r, [Advanced(Top(r)) EXCEPT !.last = u], "dispatch"), Leaf(r))]
    BY <1>3 DEF Fail
  <2> HIDE DEF u
  <2> QED
    BY <1>1, <1>2, <2>1, NextTargetShaped
<1>4. CASE ~GoesOn(r, Top(r), k)
  <2> DEFINE a == Answering(q, u)
             b == [a EXCEPT !.stopped = halt]
             p == Settled(b, Leaf(r))
  <2>1. req' = [req EXCEPT ![r] = p]
    BY <1>4 DEF Fail
  <2> HIDE DEF u, k
  <2>2. q \in RequestTypes
    BY TypesAtHand
  <2>3. a \in RequestTypes /\ a.pc = "return"
    BY <1>1, <2>2, RequestEdits
  <2> HIDE DEF a
  <2>4. halt \in BOOLEAN
    OBVIOUS
  <2> HIDE DEF halt
  <2>5. b \in RequestTypes /\ b.pc = "return"
    BY <2>3, <2>4, RequestEdits
  <2> HIDE DEF b
  <2>6. p \in RequestTypes /\ p.pc = "return"
    BY <2>5, RequestEdits
  <2> HIDE DEF p
  <2> QED
    BY <2>1, <2>6, ReturnShaped DEF ShapedTo
<1> QED
  BY <1>3, <1>4

-----------------------------------------------------------------------------
(* A call of Execute returns.                                                 *)
LEMMA PoppedTyped ==
  ASSUME IInv, NEW r \in Requests, Shaped(req[r]), req[r].stack # <<>>
  PROVE  /\ Popped(r) \in RequestTypes /\ Popped(r).pc = req[r].pc
         /\ Popped(r).stack = Front(req[r].stack)
<1>1. req[r] \in RequestTypes /\ Front(req[r].stack) \in Seq(Frames)
  BY TypesAtHand
<1> QED
  BY <1>1 DEF Popped, RequestTypes

LEMMA FinishShaped ==
  ASSUME IInv, NEW r \in Requests, Shaped(req[r]), Finish(r)
  PROVE  ShapedTo(r)
<1> DEFINE o == Popped(r)
           p == [o EXCEPT !.pc = "done"]
<1>1. req' = [req EXCEPT ![r] = p] /\ req[r].pc = "return"
  BY DEF Finish
<1>2. o \in RequestTypes
  BY <1>1, ReturningAtHand, PoppedTyped
<1> HIDE DEF o
<1>3. p \in RequestTypes /\ p.pc = "done"
  BY <1>2 DEF RequestTypes, Points
<1> HIDE DEF p
<1> QED
  BY <1>1, <1>3, ReturnShaped DEF ShapedTo

LEMMA PassUpShaped ==
  ASSUME IInv, NEW r \in Requests, Shaped(req[r]), PassUp(r)
  PROVE  ShapedTo(r)
<1>1. req' = [req EXCEPT ![r] = Popped(r)] /\ req[r].pc = "return"
  BY DEF PassUp
<1>2. Popped(r) \in RequestTypes /\ Popped(r).pc = "return"
  BY <1>1, ReturningAtHand, PoppedTyped
<1> QED
  BY <1>1, <1>2, ReturnShaped DEF ShapedTo

LEMMA FailOverShaped ==
  ASSUME IInv, NEW r \in Requests, Shaped(req[r]), FailOver(r)
  PROVE  ShapedTo(r)
<1> DEFINE q == req[r]
           n == Len(q.stack)
           f == Parent(r)
           e == [Advanced(f) EXCEPT !.last = q.answer]
           o == Popped(r)
           s == Append(Front(o.stack), e)
           p == [o EXCEPT !.pc = "dispatch", !.answer = NoAnswer, !.stack = s]
<1>1. /\ q.pc = "return" /\ n > 1
      /\ req' = [req EXCEPT ![r] =
                   [o EXCEPT !.pc = "dispatch", !.answer = NoAnswer,
                             !.stack = Append(Front(@), e)]]
  BY DEF FailOver
<1>2. /\ Sound(q) /\ q.stack # <<>> /\ n \in Nat \ {0} /\ IsSeq(q.stack)
      /\ \A i \in 1..(n - 1) : q.stack[i].targets # <<>>
  BY <1>1, ReturningAtHand
<1>3. q.stack \in Seq(Frames) /\ q.answer \in Answers
  BY TypesAtHand
<1>4. o \in RequestTypes /\ o.stack = Front(q.stack)
  BY <1>2, PoppedTyped
<1> HIDE DEF o
<1>5. req' = [req EXCEPT ![r] = p]
  <2>1. [o EXCEPT !.pc = "dispatch", !.answer = NoAnswer, !.stack = Append(Front(@), e)] = p
    BY <1>4 DEF RequestTypes
  <2> QED
    BY <1>1, <2>1
<1>6. f \in Frames /\ f.targets # <<>>
  <2>1. n - 1 \in 1..(n - 1) /\ n - 1 \in DOMAIN q.stack
    BY <1>1, <1>2, TopSound
  <2>2. q.stack[n - 1] \in Frames
    BY <1>3, <2>1, SeqParts
  <2> QED
    BY <1>2, <2>1, <2>2 DEF Parent
<1> HIDE DEF f
<1>7. e \in Frames
  BY <1>3, <1>6, AdvancedTyped
<1> HIDE DEF e
<1>8. o.stack \in Seq(Frames) /\ o.stack # <<>>
  <2>1. o.stack \in Seq(Frames)
    BY <1>4 DEF RequestTypes
  <2>2. DOMAIN Front(q.stack) = 1..(n - 1)
    BY <1>2, Fronted
  <2>3. 1 \in 1..(n - 1)
    BY <1>1, <1>2
  <2>4. DOMAIN <<>> = {}
    OBVIOUS
  <2> QED
    BY <1>4, <2>1, <2>2, <2>3, <2>4
<1>9. Front(o.stack) \in Seq(Frames)
  BY <1>8, SeqParts
<1>10. s \in Seq(Frames)
  <2>1. PICK t \in Seq(Frames) : t = Front(o.stack)
    BY <1>9
  <2>2. \A x \in Frames : Append(t, x) \in Seq(Frames)
    BY SeqParts
  <2> QED
    BY <1>7, <2>1, <2>2
<1> HIDE DEF s
<1>11. p \in RequestTypes /\ p.pc = "dispatch"
  BY <1>4, <1>10, AnswersTyped DEF RequestTypes, Points
<1> HIDE DEF p
<1> QED
  BY <1>5, <1>11, ReturnShaped DEF ShapedTo

-----------------------------------------------------------------------------
(* A converted number of seconds is an integer.                               *)
LEMMA ConvertedTyped ==
  ASSUME NEW n \in Nat
  PROVE  AsDuration(n) \in Int
<1>1. MaxDuration \in Nat
  BY MaxDurationAssumption
<1>2. CASE n <= MaxDuration
  BY <1>2 DEF AsDuration
<1>3. CASE ~(n <= MaxDuration)
  <2> DEFINE u == n + MaxDuration + 1
             w == 2 * (MaxDuration + 1)
             r == u % w
  <2>1. u \in Nat /\ w \in Nat \ {0}
    BY <1>1
  <2>2. AsDuration(n) = r - (MaxDuration + 1)
    BY <1>3 DEF AsDuration
  <2> HIDE DEF u, w
  <2>3. r \in Int
    BY <2>1
  <2> HIDE DEF r
  <2> QED
    BY <1>1, <2>2, <2>3
<1> QED
  BY <1>2, <1>3

(* The duration of a cooldown is an integer, whatever the conversions give.   *)
LEMMA DurationTyped ==
  ASSUME NEW c \in CooldownConfigs, NEW k, NEW s, NEW msg \in Messages, NEW t \in Nat,
         NEW ov \in Unrepresentable
  PROVE  Capped(c, Hinted(c, k, msg, RetryAfter(msg, t, ov), Backoff(c, k, s, ov))) \in Int
<1> DEFINE d == Scaled(c, k, Effective(c, k, s))
           b == Backoff(c, k, s, ov)
           h == RetryAfter(msg, t, ov)
           n == Hinted(c, k, msg, h, b)
<1>1. ov \in Int /\ MaxDuration \in Nat /\ c.max \in Nat
  BY UnrepresentableAssumption, MaxDurationAssumption DEF CooldownConfigs
<1>2. b \in Int
  <2>1. b = IF d \in -(MaxDuration + 1)..MaxDuration THEN d ELSE ov
    BY DEF Backoff
  <2>2. d \in -(MaxDuration + 1)..MaxDuration => d \in Int
    BY <1>1
  <2> HIDE DEF d, b
  <2> QED
    BY <1>1, <2>1, <2>2
<1>3. h \in Int
  <2>1. msg.seconds \in Nat /\ msg.at \in Nat /\ msg.within \in Nat /\ msg.lasting \in Nat
    BY DEF Messages
  <2> QED
    BY <1>1, <2>1 DEF RetryAfter, Converted
<1> HIDE DEF b, h
<1>4. n \in Int
  BY <1>2, <1>3 DEF Hinted
<1> HIDE DEF n
<1>5. Capped(c, n) \in Int
  <2>1. AsDuration(c.max) \in Int
    BY <1>1, ConvertedTyped
  <2> QED
    BY <1>4, <2>1 DEF Capped
<1> QED
  BY <1>5 DEF n, b, h

LEMMA FailedTyped ==
  ASSUME NEW e \in Entries, NEW c \in CooldownConfigs, NEW k \in Kinds,
         NEW msg \in Messages, NEW t \in Nat, NEW ov \in Unrepresentable
  PROVE  Failed(e, c, k, msg, t, ov) \in Entries
<1> DEFINE s == e.strikes[k] + 1
           d == Capped(c, Hinted(c, k, msg, RetryAfter(msg, t, ov), Backoff(c, k, s, ov)))
           u == Struck(e, k)
<1>1. CASE ~c.on \/ k = "client_error"
  BY <1>1 DEF Failed
<1>2. CASE ~(~c.on \/ k = "client_error")
  <2>1. k \in CoolingKinds
    BY <1>2 DEF Kinds
  <2>2. u \in Entries
    <3>1. e.strikes \in [CoolingKinds -> Nat]
      BY DEF Entries
    <3>2. \A g \in [CoolingKinds -> Nat] : [g EXCEPT ![k] = g[k] + 1] \in [CoolingKinds -> Nat]
      BY <2>1
    <3>3. [e.strikes EXCEPT ![k] = @ + 1] \in [CoolingKinds -> Nat]
      BY <3>1, <3>2
    <3> QED
      BY <3>3 DEF Struck, Entries
  <2>3. d \in Int
    BY DurationTyped
  <2>4. Failed(e, c, k, msg, t, ov) \in {u, Extended(u, k, t, d)}
    BY <1>2 DEF Failed
  <2> HIDE DEF u, d
  <2>5. Extended(u, k, t, d) \in Entries
    <3>1. CASE d > 0 /\ t + d > u.until
      <4>1. PICK v \in Nat : v = t + d
        BY <2>3, <3>1
      <4>2. [u EXCEPT !.until = v, !.kind = k] \in Entries
        BY <2>1, <2>2 DEF Entries
      <4> QED
        BY <3>1, <4>1, <4>2 DEF Extended
    <3>2. CASE ~(d > 0 /\ t + d > u.until)
      BY <2>2, <3>2 DEF Extended
    <3> QED
      BY <3>1, <3>2
  <2> QED
    BY <2>2, <2>4, <2>5
<1> QED
  BY <1>1, <1>2

LEMMA TableTyped ==
  ASSUME IInv, NEW r \in Requests, Shaped(req[r]), cool \in [Names -> Entries], now \in Nat,
         TableSettled(r), req[r].pc = "host"
  PROVE  cool' \in [Names -> Entries]
<1>1. Leaf(r) \in Names
  BY LeafTyped
<1>2. \A e \in Entries : [cool EXCEPT ![Leaf(r)] = e] \in [Names -> Entries]
  BY <1>1
<1>3. Fresh \in Entries
  BY DEF Fresh, Entries
<1>4. req[r].snap.cooldown \in CooldownConfigs
  <2>1. IsConfig(req[r].snap)
    BY TypesAtHand
  <2> QED
    BY <2>1 DEF IsConfig
<1>5. Reported \subseteq Messages
  <2>1. Plain \in Messages
    BY DEF Plain, Messages
  <2>2. \A h \in Replies : ErrorOf(h).msg \in Messages
    <3> SUFFICES ASSUME NEW h \in Replies  PROVE ErrorOf(h).msg \in Messages
      OBVIOUS
    <3>1. h.msg \in Messages
      BY RepliesAssumption DEF HostReplies
    <3> QED
      BY <2>1, <3>1 DEF ErrorOf
  <2> QED
    BY <2>1, <2>2 DEF Reported
<1>6. ASSUME NEW k \in Kinds, NEW msg \in Reported, NEW ov \in Unrepresentable,
             FailureAt(r, k, msg, ov)
      PROVE  cool' \in [Names -> Entries]
  <2>1. PICK e \in Entries : e = cool[Leaf(r)]
    BY <1>1
  <2>2. Failed(e, req[r].snap.cooldown, k, msg, now, ov) \in Entries
    BY <1>4, <1>5, FailedTyped
  <2>3. cool' = [cool EXCEPT ![Leaf(r)] = Failed(e, req[r].snap.cooldown, k, msg, now, ov)]
    BY <1>6, <2>1 DEF FailureAt
  <2> QED
    BY <1>2, <2>2, <2>3
<1> QED
  BY <1>2, <1>3, <1>6 DEF TableSettled

-----------------------------------------------------------------------------
(* All steps keep the types.                                                  *)
LEMMA WorkShaped ==
  ASSUME IInv, TypeInv, NEW r \in Requests, Fits(req[r]), Work(r)
  PROVE  /\ ShapedTo(r) /\ cool' = cool /\ now' = now
         /\ began' \in [Groups -> [Names -> Nat]]
<1>0. /\ Shaped(req[r]) /\ cool \in [Names -> Entries]
      /\ began \in [Groups -> [Names -> Nat]]
  BY DEF TypeInv
<1>1. CASE EnterRefused(r)
  BY <1>0, <1>1, EnterRefusedShaped DEF EnterRefused, counters
<1>2. CASE EnterGroup(r)
  <2>1. cool' = cool /\ now' = now
    BY <1>2 DEF EnterGroup
  <2> QED
    BY <1>0, <1>2, <2>1, EnterGroupShaped
<1>3. CASE EnterDirect(r)
  BY <1>0, <1>3, EnterDirectShaped DEF EnterDirect, counters
<1>4. CASE FindReady(r)
  BY <1>0, <1>4, FindReadyShaped DEF FindReady, counters
<1>5. CASE LookFurther(r)
  BY <1>0, <1>5, LookFurtherShaped DEF LookFurther, counters
<1>6. CASE FindCooling(r)
  BY <1>0, <1>6, FindCoolingShaped DEF FindCooling, counters
<1>7. CASE Descend(r)
  BY <1>0, <1>7, DescendShaped DEF Descend, counters
<1>8. CASE Call(r)
  BY <1>0, <1>8, CallShaped DEF Call, counters
<1>9. CASE Exhaust(r)
  BY <1>0, <1>9, ExhaustShaped DEF Exhaust, counters
<1>10. CASE GiveUp(r)
  BY <1>0, <1>10, GiveUpShaped DEF GiveUp, counters
<1>11. CASE Finish(r)
  BY <1>0, <1>11, FinishShaped DEF Finish, counters
<1>12. CASE FailOver(r)
  BY <1>0, <1>12, FailOverShaped DEF FailOver, counters
<1>13. CASE PassUp(r)
  BY <1>0, <1>13, PassUpShaped DEF PassUp, counters
<1> QED
  BY <1>1, <1>2, <1>3, <1>4, <1>5, <1>6, <1>7, <1>8, <1>9, <1>10, <1>11, <1>12, <1>13
     DEF Work, Scan

LEMMA ReplyShaped ==
  ASSUME IInv, TypeInv, NEW r \in Requests, Reply(r)
  PROVE  ShapedTo(r) /\ began' = began
<1>0. Shaped(req[r]) /\ req[r].stream \in BOOLEAN
  BY DEF TypeInv, Shaped, RequestTypes
<1>1. PICK h \in Replies :
        \/ Cancel(r)
        \/ \E s \in Serves : \/ Served(r, s) \/ Retry(r, s)
                             \/ \E ov \in Unrepresentable : Substituted(r, s, ov)
        \/ \E ov \in Unrepresentable : Fail(r, ErrorOf(h), ov)
        \/ \E s \in Serves, ov \in Unrepresentable : Broken(r, s, ErrorOf(h), ov)
  BY DEF Reply
<1>2. CASE Cancel(r)
  BY <1>0, <1>2, CancelShaped DEF Cancel, counters
<1>3. ASSUME NEW s \in Serves, Served(r, s)  PROVE ShapedTo(r) /\ began' = began
  <2>1. /\ req[r].pc = "host" /\ began' = began
        /\ req' = [req EXCEPT ![r] =
                   [Settled(Answering(req[r], Delivery("delivered", Leaf(r), s)), Leaf(r))
                      EXCEPT !.stopped = TRUE, !.committed = req[r].stream]]
    BY <1>3 DEF Served, counters
  <2> QED
    BY <1>0, <2>1, DeliveredShaped
<1>4. ASSUME NEW s \in Serves, Retry(r, s)  PROVE ShapedTo(r) /\ began' = began
  <2>1. began' = began
    BY <1>4 DEF Retry, counters
  <2> QED
    BY <1>0, <1>4, <2>1, RetryShaped
<1>5. ASSUME NEW s \in Serves, NEW ov, Substituted(r, s, ov)
      PROVE  ShapedTo(r) /\ began' = began
  <2>1. /\ req[r].pc = "host" /\ began' = began
        /\ req' = [req EXCEPT ![r] =
             Settled(WithTop(r, [Advanced(Top(r)) EXCEPT !.last = MismatchBlocked],
                             "dispatch"), Leaf(r))]
    BY <1>5 DEF Substituted, counters
  <2>2. MismatchBlocked \in Answers
    BY AnswersTyped DEF OwnFailures
  <2> QED
    BY <1>0, <2>1, <2>2, NextTargetShaped
<1>6. ASSUME NEW ov, Fail(r, ErrorOf(h), ov)  PROVE ShapedTo(r) /\ began' = began
  <2>1. began' = began
    BY <1>6 DEF Fail, counters
  <2> QED
    BY <1>0, <1>6, <2>1, FailShaped
<1>7. ASSUME NEW s \in Serves, NEW ov, Broken(r, s, ErrorOf(h), ov)
      PROVE  ShapedTo(r) /\ began' = began
  <2>1. /\ req[r].pc = "host" /\ began' = began
        /\ req' = [req EXCEPT ![r] =
                   [Settled(Answering(req[r], Delivery("broken", Leaf(r), s)), Leaf(r))
                      EXCEPT !.stopped = TRUE, !.committed = TRUE]]
    BY <1>7 DEF Broken, counters
  <2> QED
    BY <1>0, <2>1, DeliveredShaped
<1> QED
  BY <1>1, <1>2, <1>3, <1>4, <1>5, <1>6, <1>7

LEMMA TypesThrough ==
  ASSUME IInv, FInv, TypeInv, [Next]_vars
  PROVE  TypeInv'
<1>1. /\ cool \in [Names -> Entries] /\ now \in 1..MaxTime /\ now \in Nat /\ MaxTime \in Nat
      /\ began \in [Groups -> [Names -> Nat]]
      /\ DOMAIN req = Requests
      /\ \A r \in Requests : Shaped(req[r]) /\ Fits(req[r])
  BY BoundsAssumption DEF TypeInv, IInv, FInv
<1>2. ASSUME NEW r \in Requests, ShapedTo(r)
      PROVE  \A x \in Requests : Shaped(req'[x])
  <2>1. PICK p : Shaped(p) /\ req' = [req EXCEPT ![r] = p]
    BY <1>2 DEF ShapedTo
  <2>2. \A x \in Requests : req'[x] = IF x = r THEN p ELSE req[x]
    BY <1>1, <2>1
  <2> QED
    BY <1>1, <2>1, <2>2
<1>3. ASSUME NEW r \in Requests, Work(r)  PROVE TypeInv'
  <2>1. /\ ShapedTo(r) /\ cool' = cool /\ now' = now
        /\ began' \in [Groups -> [Names -> Nat]]
    BY <1>1, <1>3, WorkShaped
  <2> QED
    BY <1>1, <1>2, <2>1 DEF TypeInv
<1>4. ASSUME NEW r \in Requests, Reply(r)  PROVE TypeInv'
  <2>1. ShapedTo(r) /\ began' = began
    BY <1>4, ReplyShaped
  <2>2. req[r].pc = "host" /\ now' = now /\ TableSettled(r)
    BY <1>4, ReplyStep
  <2>3. cool' \in [Names -> Entries]
    BY <1>1, <2>2, TableTyped
  <2> QED
    BY <1>1, <1>2, <2>1, <2>2, <2>3 DEF TypeInv
<1>5. ASSUME NEW r \in Requests, NEW m \in Names, NEW stream \in Transports,
             Claim(r, m, stream)
      PROVE  TypeInv'
  <2>1. ShapedTo(r)
    BY <1>1, <1>5, ClaimShaped
  <2>2. cool' = cool /\ now' = now /\ began' = began
    BY <1>5 DEF Claim, counters
  <2> QED
    BY <1>1, <1>2, <2>1, <2>2 DEF TypeInv
<1>6. CASE \E c \in Configs : Reconfigure(c)
  BY <1>1, <1>6 DEF Reconfigure, TypeInv, counters
<1>7. CASE \E m \in Resettable : ResetCooldown(m)
  <2>1. PICK m : cool' = [cool EXCEPT ![m] = Fresh]
    BY <1>7 DEF ResetCooldown
  <2>2. Fresh \in Entries
    BY DEF Fresh, Entries
  <2>3. cool' \in [Names -> Entries]
    BY <1>1, <2>1, <2>2
  <2>4. now' = now /\ began' = began /\ req' = req
    BY <1>7 DEF ResetCooldown, counters
  <2> QED
    BY <1>1, <2>3, <2>4 DEF TypeInv
<1>8. CASE Tick
  <2>1. now < MaxTime /\ now' = now + 1
    BY <1>8 DEF Tick
  <2>2. now' \in 1..MaxTime
    BY <1>1, <2>1
  <2>3. cool' = cool /\ began' = began /\ req' = req
    BY <1>8 DEF Tick, counters
  <2> QED
    BY <1>1, <2>2, <2>3 DEF TypeInv
<1>9. CASE Rest \/ UNCHANGED vars
  BY <1>1, <1>9 DEF Rest, vars, TypeInv, counters
<1> QED
  BY <1>3, <1>4, <1>5, <1>6, <1>7, <1>8, <1>9 DEF Next

LEMMA TypesAtFirst ==
  ASSUME Init
  PROVE  TypeInv
<1>1. cool \in [Names -> Entries] /\ began \in [Groups -> [Names -> Nat]]
  BY HistoriesAssumption DEF Init
<1>2. now \in 1..MaxTime
  BY BoundsAssumption DEF Init
<1>3. Request \in RequestTypes /\ Request.pc = "idle"
  <2>1. cfg \in Configs /\ SafetyBudget \in Nat
    BY BoundsAssumption DEF Init
  <2>2. <<>> \in Seq(Frames)
    BY EmptySeq
  <2> QED
    BY <2>1, <2>2, AnswersTyped DEF Request, RequestTypes, Points
<1>4. \A r \in Requests : req[r] = Request
  BY DEF Init
<1> QED
  BY <1>1, <1>2, <1>3, <1>4, ReturnShaped DEF TypeInv

(* Every variable keeps to its type: an entry of the table stays a deadline,  *)
(* a reason and counts of strikes whatever a conversion of a duration gives,  *)
(* a frame never has more attempts than its quota, no budget and no count is  *)
(* negative, and a plan is only ever made of members and targets.             *)
THEOREM AlwaysTyped == Spec => []TypeOK
<1>1. Init => TypeInv
  BY TypesAtFirst
<1>2. IInv /\ FInv /\ TypeInv /\ [Next]_vars => TypeInv'
  BY TypesThrough
<1>3. IInv /\ FInv /\ TypeInv => TypeOK
  BY TypesSuffice
<1> QED
  BY <1>1, <1>2, <1>3, InPlace, PTL DEF Spec
==============================================================================
