------------------------------- MODULE Engine --------------------------------
(* The routing engine (internal/engine): requests for virtual models (groups) *)
(* and guarded models run through a plan of upstream calls, with failover,    *)
(* guard retries, nested groups, attempt budgets and cooldown.                *)
(*                                                                            *)
(* Each request is a process.  Its own computation runs between two steps on  *)
(* shared state: the configuration pointer, the round-robin counters, the     *)
(* active counter, the cooldown table and the call to the host.  Execute and  *)
(* ExecuteStream share this control; they differ in what a reply can be.      *)
(*                                                                            *)
(* Data left out: bodies, log lines, retry delays, weights (any weighted      *)
(* order is possible), and the identity checks, reduced to whether the served *)
(* model is the same, another, or missing.  A failure keeps its code, status   *)
(* and the markers of its message, from which a parent group reads its kind.  *)
EXTENDS CooldownEntry, HostCall, SequencesExt

CONSTANTS
  Leaves,         \* upstream models
  Groups,         \* names configurations may give to groups
  Requests,       \* client requests
  Configs,        \* configurations that pass config.Parse
  Replies,        \* what the host may answer a callback with
  NameMarks,      \* markers that occur in the names of groups
  Histories,      \* cooldown tables earlier requests may have left
  Transports,     \* whether requests may be streams: a subset of BOOLEAN
  Resettable,     \* models an operator may reset by hand
  MaxGroupDepth,  \* config.MaxGroupDepth, 8
  SafetyBudget,   \* leaf calls one request may make, 64
  MaxConcurrent,  \* maxConcurrentExecutions, 256
  MaxTime         \* bound on the clock

Names == Leaves \cup Groups

ASSUME BoundsAssumption ==
  /\ MaxGroupDepth \in Nat \ {0}
  /\ SafetyBudget \in Nat \ {0}
  /\ MaxConcurrent \in Nat \ {0}
  /\ MaxTime \in Nat \ {0}

ASSUME RequestsAssumption == IsFiniteSet(Requests)

ASSUME HistoriesAssumption == Histories \subseteq [Names -> Entries]

ASSUME TransportsAssumption == Transports \subseteq BOOLEAN

ASSUME RepliesAssumption == Replies \subseteq HostReplies

ASSUME NameMarksAssumption == NameMarks \in [Groups -> SUBSET (Marks \ WholeMarks)]

-----------------------------------------------------------------------------
(* Configuration, as normalize leaves it.                                     *)
Strategies == {"fallback", "round-robin", "manual", "random", "weighted"}

Members == [model : Names, retries : Nat, explicit : BOOLEAN]

VirtualModels ==
  [strategy : Strategies, manual : Names, members : Seq(Members), max : Nat,
   soonest : BOOLEAN, failover : BOOLEAN, guard : BOOLEAN]

Rules == [retries : Nat, strict : BOOLEAN]

(* A model is a member of a group once.                                       *)
Distinct(members) ==
  \A i, j \in DOMAIN members : members[i].model = members[j].model => i = j

IsConfig(c) ==
  /\ DOMAIN c = {"enabled", "virtual", "rules", "strict", "cooldown"}
  /\ c.enabled \in BOOLEAN /\ c.strict \in BOOLEAN
  /\ DOMAIN c.virtual \subseteq Groups /\ IsFiniteSet(DOMAIN c.virtual)
  /\ \A g \in DOMAIN c.virtual :
       /\ c.virtual[g] \in VirtualModels /\ c.virtual[g].members # <<>>
       /\ Distinct(c.virtual[g].members)
  /\ DOMAIN c.rules \subseteq Names
  /\ \A m \in DOMAIN c.rules : c.rules[m] \in Rules
  /\ c.cooldown \in CooldownConfigs

ASSUME EngineConfigsAssumption == \A c \in Configs : IsConfig(c)

Refers(c, g, m) == \E i \in DOMAIN c.virtual[g].members :
                      c.virtual[g].members[i].model = m

(* What validateGroups is there to ensure: no chain of MaxGroupDepth + 1      *)
(* groups, each a member of the one before.  A cycle would give such a chain. *)
WellNested(c) ==
  \A p \in [1..(MaxGroupDepth + 1) -> DOMAIN c.virtual] :
    \E i \in 1..MaxGroupDepth : ~Refers(c, p[i], p[i + 1])

-----------------------------------------------------------------------------
(* Identity checks: what a target expects and what it accepts.                *)
Checked(strict) == IF strict THEN "strict" ELSE "tolerant"

(* buildPlan: the member's own lists, else a guard rule, else the group.      *)
Expectation(c, g, m) ==
  IF m.explicit THEN Checked(c.strict)
  ELSE IF m.model \in DOMAIN c.rules THEN Checked(c.rules[m.model].strict)
  ELSE IF c.virtual[g].guard THEN Checked(c.strict)
  ELSE "none"

Serves == {"same", "other", "missing"}

Accepts(expect, served) ==
  \/ expect = "none"
  \/ served = "same"
  \/ served = "missing" /\ expect = "tolerant"

-----------------------------------------------------------------------------
(* Answers and failures.                                                      *)
Nothing == ""

NoAnswer ==
  [type |-> "none", code |-> "", status |-> 0, marks |-> {}, kind |-> NoKind,
   by |-> Nothing, served |-> ""]

(* kind is history: what Classify said of the error where it arose.           *)
Failure(code, status, marks) ==
  [NoAnswer EXCEPT !.type = "failed", !.code = code, !.status = status, !.marks = marks,
                   !.kind = Classify(status, marks)]

Delivery(type, m, s) == [NoAnswer EXCEPT !.type = type, !.by = m, !.served = s]

(* The engine's own failures.  The names in their messages are left out: at   *)
(* these statuses no word makes a client error of another kind, or the other  *)
(* way round where the message is fixed.                                      *)
ManualInvalid == Failure("manual_member_invalid", 400, {})
GroupCycle == Failure("group_cycle", 400, {})
TooDeep == Failure("group_depth_exceeded", 400, {})
SelectedCooling == Failure("manual_member_cooling_down", 429, {})
AllCooling == Failure("all_members_cooling_down", 429, {})
Exhausted == Failure("attempt_budget_exhausted", 502, {})
CancelledFailure == Failure("request_cancelled", 499, {})
MismatchBlocked == Failure("model_mismatch_blocked", 503, {})
NoUpstream == Failure("no_upstream_available", 503, {})

(* recordError: the client sees a status also where the error had none.       *)
KindOf(err) == Classify(err.status, err.msg.marks)

Upstream(err) ==
  [Failure("upstream_error", Shown(err.status, KindOf(err)), err.msg.marks)
     EXCEPT !.kind = KindOf(err)]

(* finalFailure: the message of a group's last error within one that names    *)
(* the group.  The faulty form forgets the last error's text.                 *)
WrappedBare(f, g) == [f EXCEPT !.marks = NameMarks[g]]

Wrapped(f, g) == [f EXCEPT !.marks = (@ \ WholeMarks) \cup NameMarks[g]]

(* Faulty form: a cancelled child lets its parent go on.                      *)
TerminalButCancelled(f) ==
  f.code \in {"attempt_budget_exhausted", "group_cycle", "group_depth_exceeded"}

Terminal(f) == f.code \in {"attempt_budget_exhausted", "group_cycle",
                           "group_depth_exceeded", "request_cancelled"}

-----------------------------------------------------------------------------
VARIABLES
  cfg,      \* Engine.cfg, the pointer to the current configuration
  now,      \* the clock
  cool,     \* Engine.Cooldown
  turn,     \* Engine.counters, the round-robin counters
  began,    \* history: how often a group's plans began with each member
  active,   \* Engine.active
  req       \* the requests: each one's executionState and call stack

counters == <<turn, began>>

vars == <<cfg, now, cool, counters, active, req>>

(* One call of Execute or ExecuteStream: the plan being built (scan, cooling, *)
(* and for the member at hand the leaves to look at still, and the earliest   *)
(* recovery seen) or followed (targets, from the one at hand on), and the     *)
(* loop's variables.                                                          *)
(* budget is this group's attemptBudget, without meaning when max is 0; calls *)
(* counts the leaf calls of the subtree, for the properties.                  *)
Targets == [model : Names, expect : {"none", "tolerant", "strict"}, tries : Nat]

Frame(m) ==
  [model |-> m, scan |-> <<>>, look |-> <<>>, soon |-> 0,
   cooling |-> <<>>, targets |-> <<>>, degraded |-> FALSE,
   quota |-> 0, attempts |-> 0, try |-> 0, last |-> NoAnswer,
   budget |-> 0, calls |-> 0]

(* left and snap are executionState.remaining and cfg; the groups of stack    *)
(* are groupPath.  The rest is history: owed holds the leaves whose           *)
(* substitution is not charged yet, spent the leaf calls, asked the last leaf *)
(* called, stopped whether the request must not call any leaf again.          *)
Request ==
  [pc |-> "idle", model |-> Nothing, stream |-> FALSE, snap |-> cfg,
   left |-> SafetyBudget, committed |-> FALSE, stack |-> <<>>, answer |-> NoAnswer,
   owed |-> {}, spent |-> 0, asked |-> Nothing, stopped |-> FALSE]

Init ==
  /\ cfg \in Configs
  /\ now = 1
  /\ cool \in Histories
  /\ turn = [g \in Groups |-> 0]
  /\ began = [g \in Groups |-> [m \in Names |-> 0]]
  /\ active = 0
  /\ req = [r \in Requests |-> Request]

Top(r) == Last(req[r].stack)

(* The configuration this request uses: its snapshot, taken when it starts;   *)
(* the faulty form reads the pointer again for every group.                   *)
HeldNow(r) == cfg

Held(r) == IF req[r].stack = <<>> THEN cfg ELSE req[r].snap

IsGroup(r, m) == m \in DOMAIN req[r].snap.virtual

(* The request with its top frame replaced, at control point pc.              *)
WithTop(r, f, pc) ==
  [req[r] EXCEPT !.pc = pc, !.stack = Append(Front(@), f)]

Answering(q, a) == [q EXCEPT !.pc = "return", !.answer = a]

-----------------------------------------------------------------------------
(* Cooldown as plans see it.                                                  *)
(* The members availability looks into: only the selected one of a manual     *)
(* group.                                                                     *)
Eligible(c, g) ==
  LET vm == c.virtual[g]
      models == [i \in DOMAIN vm.members |-> vm.members[i].model]
  IN  CASE vm.strategy # "manual" -> models
        [] vm.strategy = "manual" /\ vm.manual \in ToSet(models) -> <<vm.manual>>
        [] OTHER -> <<>>

(* Faulty form: a group is looked up in the table like a leaf.                *)
LooksByName(c, m) == <<m>>

(* The leaves whose cooldown says whether m is available, in the order they   *)
(* are read; none below a group that is on the path or too deep.              *)
Looks(c, m) ==
  LET looks[x \in Names \X SUBSET DOMAIN c.virtual] ==
        LET name == x[1]
            path == x[2]
        IN  IF name \notin DOMAIN c.virtual
            THEN <<name>>
            ELSE IF Cardinality(path) >= MaxGroupDepth \/ name \in path
            THEN <<>>
            ELSE FlattenSeq([i \in DOMAIN Eligible(c, name) |->
                               looks[<<Eligible(c, name)[i], path \cup {name}>>]])
  IN  looks[<<m, {}>>]

(* One read of the table; the faulty form does not look at it.                *)
UntilUnseen(m) == 0

Until(m) == UntilAt(cool[m], now)

(* The earlier of two recovery times, 0 standing for none.                    *)
Sooner(t, u) == IF t = 0 \/ (u # 0 /\ u < t) THEN u ELSE t

(* The cooling targets in stable order of their recovery: the one such order. *)
ByUntil(s) ==
  LET positions == 1..Len(s)
      Sorted(p) == \A i, j \in positions : i < j =>
                     \/ s[p[i]].until < s[p[j]].until
                     \/ s[p[i]].until = s[p[j]].until /\ p[i] < p[j]
  IN  {[i \in positions |-> s[p[i]].target] :
         p \in {q \in Bijection(positions, positions) : Sorted(q)}}

(* The member orders a strategy allows; ticket is the counter's old value.    *)
Orders(g, ticket) ==
  LET ms == g.members
      n == Len(ms)
  IN  CASE g.strategy = "manual" ->
             {IF \E i \in 1..n : ms[i].model = g.manual
              THEN <<ms[CHOOSE i \in 1..n : ms[i].model = g.manual]>>
              ELSE <<>>}
        [] g.strategy = "round-robin" ->
             {[i \in 1..n |-> ms[((ticket + i - 1) % n) + 1]]}
        [] g.strategy \in {"random", "weighted"} ->
             {[i \in 1..n |-> ms[p[i]]] : p \in Bijection(1..n, 1..n)}
        [] OTHER -> {ms}

(* The limit on a plan's own attempts: all tries of all targets, capped.      *)
Quota(g, targets) ==
  LET all == SumFunction([i \in DOMAIN targets |-> targets[i].tries])
  IN  IF g.max > 0 /\ g.max < all THEN g.max ELSE all

(* buildPlan's last part, once every member has been looked at: what may      *)
(* become of the request.                                                     *)
Planned(r, f) ==
  LET g == req[r].snap.virtual[f.model]
      Following(targets, degraded) ==
        WithTop(r, [f EXCEPT !.cooling = <<>>, !.targets = targets, !.degraded = degraded,
                             !.quota = Quota(g, targets)], "dispatch")
  IN  CASE f.targets # <<>> -> {Following(f.targets, FALSE)}
        [] f.targets = <<>> /\ g.strategy = "manual" ->
             {Answering(WithTop(r, f, "return"), SelectedCooling)}
        [] f.targets = <<>> /\ g.strategy # "manual" /\ ~g.soonest ->
             {Answering(WithTop(r, f, "return"), AllCooling)}
        [] OTHER -> {Following(sorted, TRUE) : sorted \in ByUntil(f.cooling)}

-----------------------------------------------------------------------------
(* A request enters the engine.                                               *)
Claimable(m) == m \in DOMAIN cfg.virtual \/ m \in DOMAIN cfg.rules

(* Claims: the host asks who routes the model; a yes is remembered by the     *)
(* host, which calls the executor later, when the answer may be stale.        *)
Claim(r, m, stream) ==
  /\ req[r].pc = "idle"
  /\ cfg.enabled /\ active < MaxConcurrent /\ Claimable(m)
  /\ req' = [req EXCEPT ![r] = [@ EXCEPT !.pc = "enter", !.model = m, !.stream = stream]]
  /\ UNCHANGED <<cfg, now, cool, counters, active>>

(* The model the next call of Execute is for: the requested one, or the child *)
(* group the plan has reached.                                                *)
Entered(r) == IF req[r].stack = <<>> THEN req[r].model ELSE Head(Top(r).targets).model

Path(r) == {i \in DOMAIN req[r].stack : IsGroup(r, req[r].stack[i].model)}

(* prepareExecution's refusals, and order's when nothing is selected.         *)
Refusal(r, g) ==
  IF \E i \in Path(r) : req[r].stack[i].model = g THEN GroupCycle
  ELSE IF Cardinality(Path(r)) + 1 > MaxGroupDepth THEN TooDeep
  ELSE IF <<>> \in Orders(Held(r).virtual[g], turn[g]) THEN ManualInvalid
  ELSE NoAnswer

Started(r, f, pc) ==
  [req[r] EXCEPT !.pc = pc, !.snap = Held(r), !.stack = Append(@, f)]

(* The counter of a round-robin group advances at each of its executions; the *)
(* faulty form forgets those a parent group starts.                           *)
TurnedAtRoot(r, vm, g) ==
  IF vm.strategy = "round-robin" /\ req[r].stack = <<>>
  THEN [turn EXCEPT ![g] = @ + 1]
  ELSE turn

Turned(r, vm, g) ==
  IF vm.strategy = "round-robin" THEN [turn EXCEPT ![g] = @ + 1] ELSE turn

(* The next member to scan, with what is to be looked at.                     *)
Facing(c, f) ==
  IF f.scan = <<>> THEN [f EXCEPT !.look = <<>>, !.soon = 0]
  ELSE [f EXCEPT !.look = Looks(c, Head(f.scan).model), !.soon = 0]

EnterRefused(r) ==
  LET g == Entered(r)
  IN  /\ req[r].pc = "enter"
      /\ g \in DOMAIN Held(r).virtual
      /\ Refusal(r, g) # NoAnswer
      /\ active' = active + 1
      /\ req' = [req EXCEPT ![r] = Answering(Started(r, Frame(g), "return"), Refusal(r, g))]
      /\ UNCHANGED <<cfg, now, cool, counters>>

EnterGroup(r) ==
  LET g == Entered(r)
      vm == Held(r).virtual[g]
  IN  /\ req[r].pc = "enter"
      /\ g \in DOMAIN Held(r).virtual
      /\ Refusal(r, g) = NoAnswer
      /\ active' = active + 1
      /\ \E order \in Orders(vm, turn[g]) :
           /\ req' = [req EXCEPT ![r] =
                 Started(r, Facing(Held(r), [Frame(g) EXCEPT !.scan = order, !.budget = vm.max]),
                         "scan")]
           /\ began' = [began EXCEPT ![g][Head(order).model] = @ + 1]
      /\ turn' = Turned(r, vm, g)
      /\ UNCHANGED <<cfg, now, cool>>

(* A guarded model requested by its own name: one target, no cooldown check.  *)
EnterDirect(r) ==
  LET m == Entered(r)
      ruled == m \in DOMAIN Held(r).rules
      tries == IF ruled THEN 1 + Held(r).rules[m].retries ELSE 1
      expect == IF ruled THEN Checked(Held(r).rules[m].strict) ELSE "none"
      target == [model |-> m, expect |-> expect, tries |-> tries]
  IN  /\ req[r].pc = "enter"
      /\ m \notin DOMAIN Held(r).virtual
      /\ active' = active + 1
      /\ req' = [req EXCEPT ![r] =
                   Started(r, [Frame(m) EXCEPT !.targets = <<target>>, !.quota = tries],
                           "dispatch")]
      /\ UNCHANGED <<cfg, now, cool, counters>>

(* buildPlan on the member at hand.  Each leaf below it is read on its own,   *)
(* and the table may change between two reads.                                *)
Judged(r, f) ==
  LET next == Facing(req[r].snap, [f EXCEPT !.scan = Tail(@)])
  IN  IF next.scan = <<>> THEN Planned(r, next) ELSE {WithTop(r, next, "scan")}

Candidate(r) ==
  LET m == Head(Top(r).scan)
  IN  [model |-> m.model, expect |-> Expectation(req[r].snap, Top(r).model, m),
       tries |-> 1 + m.retries]

(* A leaf is ready, so the member is.                                         *)
FindReady(r) ==
  LET f == Top(r)
  IN  /\ req[r].pc = "scan" /\ f.look # <<>> /\ Until(Head(f.look)) = 0
      /\ \E q \in Judged(r, [f EXCEPT !.targets = Append(@, Candidate(r))]) :
           req' = [req EXCEPT ![r] = q]
      /\ UNCHANGED <<cfg, now, cool, counters, active>>

(* A leaf is cooling and there are others.                                    *)
LookFurther(r) ==
  LET f == Top(r)
  IN  /\ req[r].pc = "scan" /\ Len(f.look) > 1 /\ Until(Head(f.look)) # 0
      /\ req' = [req EXCEPT ![r] =
                   WithTop(r, [f EXCEPT !.look = Tail(@),
                                        !.soon = Sooner(@, Until(Head(f.look)))], "scan")]
      /\ UNCHANGED <<cfg, now, cool, counters, active>>

(* The last leaf is cooling, or there was none.                               *)
FindCooling(r) ==
  LET f == Top(r)
      until == IF f.look = <<>> THEN 0 ELSE Sooner(f.soon, Until(Head(f.look)))
  IN  /\ req[r].pc = "scan" /\ Len(f.look) <= 1
      /\ f.look # <<>> => Until(Head(f.look)) # 0
      /\ \E q \in Judged(r, [f EXCEPT !.cooling =
                                 Append(@, [target |-> Candidate(r), until |-> until])]) :
           req' = [req EXCEPT ![r] = q]
      /\ UNCHANGED <<cfg, now, cool, counters, active>>

-----------------------------------------------------------------------------
(* The loop over the targets.                                                 *)
Remaining(f) == f.targets # <<>> /\ f.attempts < f.quota

Descend(r) ==
  /\ req[r].pc = "dispatch" /\ Remaining(Top(r))
  /\ IsGroup(r, Head(Top(r).targets).model)
  /\ req' = [req EXCEPT ![r].pc = "enter"]
  /\ UNCHANGED <<cfg, now, cool, counters, active>>

(* req.budgets are the budgets of the groups with a positive max_attempts.  The *)
(* faulty form of the check forgets the request's own safety budget.          *)
Budgeted(r) ==
  {i \in Path(r) : req[r].snap.virtual[req[r].stack[i].model].max > 0}

AffordableUnlimited(r) == \A i \in Budgeted(r) : req[r].stack[i].budget > 0

Affordable(r) == req[r].left > 0 /\ \A i \in Budgeted(r) : req[r].stack[i].budget > 0

(* consumeAttempt takes one from every budget on the path; the faulty form    *)
(* from the innermost group's only.                                           *)
ConsumedByLeafGroup(r) ==
  [i \in DOMAIN req[r].stack |->
     LET f == req[r].stack[i]
     IN  [f EXCEPT !.calls = @ + 1,
                   !.attempts = IF i = Len(req[r].stack) THEN @ + 1 ELSE @,
                   !.budget = IF i \in Budgeted(r) /\ i = Len(req[r].stack)
                              THEN @ - 1 ELSE @]]

Consumed(r) ==
  [i \in DOMAIN req[r].stack |->
     LET f == req[r].stack[i]
     IN  [f EXCEPT !.calls = @ + 1,
                   !.attempts = IF i = Len(req[r].stack) THEN @ + 1 ELSE @,
                   !.budget = IF i \in Budgeted(r) THEN @ - 1 ELSE @]]

Call(r) ==
  /\ req[r].pc = "dispatch" /\ Remaining(Top(r))
  /\ ~IsGroup(r, Head(Top(r).targets).model)
  /\ Affordable(r)
  /\ req' = [req EXCEPT ![r] =
               [req[r] EXCEPT !.pc = "host", !.left = @ - 1, !.spent = @ + 1,
                              !.asked = Head(Top(r).targets).model, !.stack = Consumed(r)]]
  /\ UNCHANGED <<cfg, now, cool, counters, active>>

Exhaust(r) ==
  /\ req[r].pc = "dispatch" /\ Remaining(Top(r))
  /\ ~IsGroup(r, Head(Top(r).targets).model)
  /\ ~Affordable(r)
  /\ req' = [req EXCEPT ![r] = [Answering(@, Exhausted) EXCEPT !.stopped = TRUE]]
  /\ UNCHANGED <<cfg, now, cool, counters, active>>

(* finalFailure's default answer when no target left an error behind.         *)
LastOf(f) == IF f.last = NoAnswer THEN NoUpstream ELSE f.last

(* No target is left: a nested request with a spent budget says so, any other *)
(* reports the last failure.                                                  *)
GiveUp(r) ==
  LET f == Top(r)
      spent == Cardinality(Path(r)) > 1 /\ \E i \in Budgeted(r) : req[r].stack[i].budget = 0
      last == IF IsGroup(r, f.model) THEN Wrapped(LastOf(f), f.model) ELSE LastOf(f)
  IN  /\ req[r].pc = "dispatch" /\ ~Remaining(f)
      /\ req' = [req EXCEPT ![r] =
                   [Answering(@, IF spent THEN Exhausted ELSE last)
                      EXCEPT !.stopped = req[r].stopped \/ spent]]
      /\ UNCHANGED <<cfg, now, cool, counters, active>>

-----------------------------------------------------------------------------
(* The host's reply to the call at hand.                                      *)
Leaf(r) == Head(Top(r).targets).model

(* Faulty form: only the leaf's own group counts.                             *)
ExpectedByOwnGroup(r) == Head(Top(r).targets).expect

(* What the leaf must prove to be: its target's expectation, or the guard of  *)
(* any group on the path.                                                     *)
Expected(r) ==
  LET own == Head(Top(r).targets).expect
      c == req[r].snap
  IN  IF own = "none" /\ \E i \in Path(r) : c.virtual[req[r].stack[i].model].guard
      THEN Checked(c.strict)
      ELSE own

(* On to the next target.                                                     *)
Advanced(f) == [f EXCEPT !.targets = Tail(@), !.try = 0]

(* The cooldown table after a failure of the leaf, with the request's config. *)
Charged(r, k, msg, ov) ==
  [cool EXCEPT ![Leaf(r)] = Failed(@, req[r].snap.cooldown, k, msg, now, ov)]

(* ... and after a success; the faulty form lifts the cooldown but keeps the  *)
(* strikes.                                                                   *)
ClearedDeadline(r) == [cool EXCEPT ![Leaf(r)].until = 0, ![Leaf(r)].kind = NoKind]

Cleared(r) == [cool EXCEPT ![Leaf(r)] = Fresh]

Settled(q, m) == [q EXCEPT !.owed = @ \ {m}]

(* The answer is accepted, and a stream is delivered to its end.              *)
Served(r, s) ==
  /\ req[r].pc = "host" /\ Accepts(Expected(r), s)
  /\ cool' = Cleared(r)
  /\ req' = [req EXCEPT ![r] =
               [Settled(Answering(@, Delivery("delivered", Leaf(r), s)), Leaf(r))
                  EXCEPT !.stopped = TRUE, !.committed = req[r].stream]]
  /\ UNCHANGED <<cfg, now, counters, active>>

(* A stream is accepted and committed, then ends in an error: the upstream's, *)
(* the client's or the sink's, which are charged alike.                       *)
Broken(r, s, err, ov) ==
  /\ req[r].pc = "host" /\ req[r].stream /\ Accepts(Expected(r), s)
  /\ cool' = Charged(r, KindOf(err), err.msg, ov)
  /\ req' = [req EXCEPT ![r] =
               [Settled(Answering(@, Delivery("broken", Leaf(r), s)), Leaf(r))
                  EXCEPT !.stopped = TRUE, !.committed = TRUE]]
  /\ UNCHANGED <<cfg, now, counters, active>>

TriesLeft(f) == f.try + 1 < Head(f.targets).tries /\ f.attempts < f.quota

(* Another model answered; the same leaf is asked again, nothing is charged.  *)
Retry(r, s) ==
  /\ req[r].pc = "host" /\ ~Accepts(Expected(r), s) /\ TriesLeft(Top(r))
  /\ req' = [req EXCEPT ![r] =
               [WithTop(r, [Top(r) EXCEPT !.try = @ + 1], "dispatch")
                  EXCEPT !.owed = @ \cup {Leaf(r)}]]
  /\ UNCHANGED <<cfg, now, cool, counters, active>>

(* Another model answered the last try: the leaf is charged, once.  The       *)
(* faulty form does not tell the table.                                       *)
SubstitutedUncharged(r, s, ov) ==
  /\ req[r].pc = "host" /\ ~Accepts(Expected(r), s) /\ ~TriesLeft(Top(r))
  /\ req' = [req EXCEPT ![r] =
               WithTop(r, [Advanced(Top(r)) EXCEPT !.last = MismatchBlocked], "dispatch")]
  /\ UNCHANGED <<cfg, now, cool, counters, active>>

Substituted(r, s, ov) ==
  /\ req[r].pc = "host" /\ ~Accepts(Expected(r), s) /\ ~TriesLeft(Top(r))
  /\ cool' = Charged(r, "model_mismatch", Plain, ov)
  /\ req' = [req EXCEPT ![r] =
               Settled(WithTop(r, [Advanced(Top(r)) EXCEPT !.last = MismatchBlocked],
                               "dispatch"), Leaf(r))]
  /\ UNCHANGED <<cfg, now, counters, active>>

(* Whether the group of frame f goes on after an error of kind k; a direct    *)
(* request never does.                                                        *)
GoesOn(r, f, k) ==
  IsGroup(r, f.model) /\ FailsOver(k, req[r].snap.virtual[f.model].failover)

(* The leaf answered an error, or its stream failed before it was committed.  *)
Fail(r, err, ov) ==
  /\ req[r].pc = "host"
  /\ cool' = Charged(r, KindOf(err), err.msg, ov)
  /\ req' = [req EXCEPT ![r] =
               Settled(IF GoesOn(r, Top(r), KindOf(err))
                       THEN WithTop(r, [Advanced(Top(r)) EXCEPT !.last = Upstream(err)],
                                    "dispatch")
                       ELSE [Answering(@, Upstream(err)) EXCEPT
                               !.stopped = \A i \in DOMAIN req[r].stack :
                                             ~GoesOn(r, req[r].stack[i], KindOf(err))],
                       Leaf(r))]
  /\ UNCHANGED <<cfg, now, counters, active>>

(* The call came back because the client went away: no model is charged.      *)
Cancel(r) ==
  /\ req[r].pc = "host"
  /\ req' = [req EXCEPT ![r] = [Answering(@, CancelledFailure) EXCEPT !.stopped = TRUE]]
  /\ UNCHANGED <<cfg, now, cool, counters, active>>

-----------------------------------------------------------------------------
(* A call of Execute returns; its deferred decrement runs first.              *)
Popped(r) == [req[r] EXCEPT !.stack = Front(@)]

Finish(r) ==
  /\ req[r].pc = "return" /\ Len(req[r].stack) = 1
  /\ active' = active - 1
  /\ req' = [req EXCEPT ![r] = [Popped(r) EXCEPT !.pc = "done"]]
  /\ UNCHANGED <<cfg, now, cool, counters>>

Parent(r) == req[r].stack[Len(req[r].stack) - 1]

(* The parent classifies what its child reports, by itself.                   *)
ParentGoesOn(r) ==
  /\ req[r].answer.type = "failed" /\ ~req[r].committed
  /\ ~Terminal(req[r].answer)
  /\ GoesOn(r, Parent(r), Classify(req[r].answer.status, req[r].answer.marks))

(* The child group failed and its parent tries the next target.  Faulty form: *)
(* nobody answers for the parent when there is no next one.                   *)
FailOverToSibling(r) ==
  LET p == [Advanced(Parent(r)) EXCEPT !.last = req[r].answer]
  IN  /\ req[r].pc = "return" /\ Len(req[r].stack) > 1 /\ ParentGoesOn(r)
      /\ p.targets # <<>>
      /\ active' = active - 1
      /\ req' = [req EXCEPT ![r] =
                   [Popped(r) EXCEPT !.pc = "dispatch", !.answer = NoAnswer,
                                     !.stack = Append(Front(@), p)]]
      /\ UNCHANGED <<cfg, now, cool, counters>>

FailOver(r) ==
  LET p == [Advanced(Parent(r)) EXCEPT !.last = req[r].answer]
  IN  /\ req[r].pc = "return" /\ Len(req[r].stack) > 1 /\ ParentGoesOn(r)
      /\ active' = active - 1
      /\ req' = [req EXCEPT ![r] =
                   [Popped(r) EXCEPT !.pc = "dispatch", !.answer = NoAnswer,
                                     !.stack = Append(Front(@), p)]]
      /\ UNCHANGED <<cfg, now, cool, counters>>

(* The child's answer, good or final, is the parent's.  Faulty form: this way *)
(* out does not give the slot back.                                           *)
PassUpKeepingSlot(r) ==
  /\ req[r].pc = "return" /\ Len(req[r].stack) > 1 /\ ~ParentGoesOn(r)
  /\ req' = [req EXCEPT ![r] = Popped(r)]
  /\ UNCHANGED <<cfg, now, cool, counters, active>>

PassUp(r) ==
  /\ req[r].pc = "return" /\ Len(req[r].stack) > 1 /\ ~ParentGoesOn(r)
  /\ active' = active - 1
  /\ req' = [req EXCEPT ![r] = Popped(r)]
  /\ UNCHANGED <<cfg, now, cool, counters>>

-----------------------------------------------------------------------------
Reconfigure(c) ==
  /\ c # cfg
  /\ cfg' = c
  /\ UNCHANGED <<now, cool, counters, active, req>>

ResetCooldown(m) ==
  /\ cool' = [cool EXCEPT ![m] = Fresh]
  /\ UNCHANGED <<cfg, now, counters, active, req>>

Tick ==
  /\ now < MaxTime
  /\ now' = now + 1
  /\ UNCHANGED <<cfg, cool, counters, active, req>>

Reply(r) ==
  \E h \in Replies :
    \/ Cancellation(h) /\ Cancel(r)
    \/ Answer(h) /\ \E s \in Serves :
         \/ Served(r, s) \/ Retry(r, s)
         \/ \E ov \in Unrepresentable : Substituted(r, s, ov)
    \/ IsError(h) /\ \E ov \in Unrepresentable : Fail(r, ErrorOf(h), ov)
    \/ ~Answer(h) /\ \E s \in Serves, ov \in Unrepresentable : Broken(r, s, ErrorOf(h), ov)

(* What the engine does of itself for a request it has accepted.              *)
Scan(r) == FindReady(r) \/ LookFurther(r) \/ FindCooling(r)

Work(r) ==
  \/ EnterRefused(r) \/ EnterGroup(r) \/ EnterDirect(r) \/ Scan(r)
  \/ Descend(r) \/ Call(r) \/ Exhaust(r) \/ GiveUp(r)
  \/ Finish(r) \/ FailOver(r) \/ PassUp(r)

(* Requests that ended or were never taken; the system may rest there.        *)
Rest == (\A r \in Requests : req[r].pc \in {"idle", "done"}) /\ UNCHANGED vars

Next ==
  \/ \E r \in Requests : Work(r) \/ Reply(r)
  \/ \E r \in Requests, m \in Names, stream \in Transports : Claim(r, m, stream)
  \/ \E c \in Configs : Reconfigure(c)
  \/ \E m \in Resettable : ResetCooldown(m)
  \/ Tick
  \/ Rest

Spec == Init /\ [][Next]_vars

(* The engine never stops in the middle of a request: Execute runs to its end *)
(* on the host's thread (or the stream's goroutine), and the host's callbacks *)
(* return, by an answer, an error or a cancellation.                          *)
Fairness == \A r \in Requests : WF_vars(Work(r)) /\ WF_vars(Reply(r))

FairSpec == Spec /\ Fairness

-----------------------------------------------------------------------------
(* Types.                                                                     *)
EngineCodes ==
  {f.code : f \in {ManualInvalid, GroupCycle, TooDeep, SelectedCooling, AllCooling,
                   Exhausted, CancelledFailure, MismatchBlocked, NoUpstream}}

Answers ==
  [type : {"none", "failed", "delivered", "broken"},
   code : EngineCodes \cup {"", "upstream_error"}, status : Nat, marks : SUBSET Marks,
   kind : Kinds \cup {NoKind}, by : Names \cup {Nothing}, served : Serves \cup {""}]

IsFrame(f) ==
  /\ f.model \in Names
  /\ \A i \in DOMAIN f.scan : f.scan[i] \in Members
  /\ \A i \in DOMAIN f.look : f.look[i] \in Names
  /\ f.soon \in Nat
  /\ \A i \in DOMAIN f.targets : f.targets[i] \in Targets
  /\ \A i \in DOMAIN f.cooling :
       f.cooling[i].target \in Targets /\ f.cooling[i].until \in Nat
  /\ f.degraded \in BOOLEAN
  /\ f.quota \in Nat /\ f.attempts \in 0..f.quota /\ f.try \in Nat
  /\ f.last \in Answers
  /\ f.budget \in Nat /\ f.calls \in Nat

IsRequest(q) ==
  /\ q.pc \in {"idle", "enter", "scan", "dispatch", "host", "return", "done"}
  /\ q.model \in Names \cup {Nothing}
  /\ q.stream \in BOOLEAN /\ q.committed \in BOOLEAN /\ q.stopped \in BOOLEAN
  /\ q.snap \in Configs
  /\ q.left \in 0..SafetyBudget /\ q.spent \in Nat
  /\ \A i \in DOMAIN q.stack : IsFrame(q.stack[i])
  /\ q.answer \in Answers
  /\ q.owed \subseteq Names /\ q.asked \in Names \cup {Nothing}

TypeOK ==
  /\ cfg \in Configs
  /\ now \in 1..MaxTime
  /\ cool \in [Names -> Entries]
  /\ turn \in [Groups -> Nat]
  /\ began \in [Groups -> [Names -> Nat]]
  /\ active \in Nat
  /\ \A r \in Requests : IsRequest(req[r])

-----------------------------------------------------------------------------
(* Safety.                                                                    *)

(* No answer from a substituted model reaches the client when the leaf was    *)
(* guarded in any way: by its member lists, by a guard rule, or by a group    *)
(* anywhere on the path (guards are only ever added on the way down).  An     *)
(* answer that names no model passes only where some policy tolerates it.     *)
NotSubstituted ==
  \A r \in Requests :
    LET q == req[r]
        c == q.snap
    IN  /\ q.pc = "return" /\ q.answer.type \in {"delivered", "broken"}
        /\ Top(r).targets # <<>> /\ Leaf(r) = q.answer.by
        =>
        LET leaf == q.answer.by
            ruled == leaf \in DOMAIN c.rules
            guarded ==
              \/ ruled
              \/ \E i \in Path(r) : c.virtual[q.stack[i].model].guard
              \/ \E i \in Path(r) :
                   /\ i = Len(q.stack)
                   /\ \E m \in ToSet(c.virtual[q.stack[i].model].members) :
                        m.model = leaf /\ m.explicit
        IN  guarded =>
              /\ q.answer.served # "other"
              /\ q.answer.served = "missing" =>
                   ~c.strict \/ (ruled /\ ~c.rules[leaf].strict)

(* However groups nest and fail over, a request never makes more leaf calls   *)
(* than the safety budget, nor more in the subtree of a group than that       *)
(* group's max_attempts, each call being counted at every level.              *)
WithinBudgets ==
  \A r \in Requests :
    /\ req[r].spent <= SafetyBudget
    /\ \A i \in Budgeted(r) :
         req[r].stack[i].calls <= req[r].snap.virtual[req[r].stack[i].model].max

(* A leaf that answered with another model is charged for it before the       *)
(* request turns to any other leaf, at any level.                             *)
ChargedBeforeMovingOn ==
  \A r \in Requests : req[r].pc = "host" => req[r].owed \subseteq {Leaf(r)}

(* The counter behind the circuit breaker is the number of executions really  *)
(* running, nested ones included, so it returns to zero.                      *)
ActiveBalanced ==
  active = MapThenSumSet(LAMBDA r : Len(req[r].stack), Requests)

(* When every configuration is well nested, no request meets a cycle or too   *)
(* deep a group, even if configurations that disagree on who contains whom    *)
(* replace each other while it runs: it keeps its snapshot.                   *)
AllWellNested == \A c \in Configs : WellNested(c)

NoRuntimeClash ==
  AllWellNested =>
    \A r \in Requests : req[r].answer.code \notin {GroupCycle.code, TooDeep.code}

(* Round-robin is even whatever the interleaving: of all the executions of a  *)
(* group, by requests for it and by parents that descend into it, no member   *)
(* comes first more than once oftener than another.  Failing over to the next *)
(* member and looking at a group's availability do not move the turn.         *)
EvenRotation ==
  \A g \in DOMAIN cfg.virtual :
    LET members == {m.model : m \in ToSet(cfg.virtual[g].members)}
    IN  cfg.virtual[g].strategy = "round-robin" =>
          \A m, n \in members : began[g][m] <= began[g][n] + 1

(* What a parent makes of its child's failure, from its status and a message  *)
(* that wraps the last one, agrees with what the error was where it arose: a  *)
(* client error is one at every level, and nothing else becomes one.  A group *)
(* whose name contains a marker ("quota") is not covered: it makes one of a   *)
(* client error.                                                              *)
JudgedAlike ==
  \A r \in Requests :
    LET a == req[r].answer
    IN  /\ req[r].pc = "return" /\ a.type = "failed"
        /\ \A g \in DOMAIN req[r].snap.virtual : NameMarks[g] = {}
        => (Classify(a.status, a.marks) = "client_error" <=> a.kind = "client_error")

(* A leaf in cooldown is called only by a direct request, by a plan made      *)
(* while all its members were cooling, or again after a substitution.         *)
CoolingSkipped ==
  [][\A r \in Requests :
       req'[r].spent > req[r].spent /\ UntilAt(cool[Leaf(r)], now) # 0 =>
         Top(r).degraded \/ Top(r).try > 0 \/ ~IsGroup(r, Top(r).model)]_vars

(* The leaves a group can reach, by chains of eligible members.               *)
Below(c, g) ==
  {l \in Names \ DOMAIN c.virtual :
     \E n \in 1..MaxGroupDepth : \E p \in [1..n -> DOMAIN c.virtual] :
       /\ p[1] = g
       /\ \A i \in 1..(n - 1) : p[i + 1] \in ToSet(Eligible(c, p[i]))
       /\ l \in ToSet(Eligible(c, p[n]))}

(* As long as some leaf below the requested group is out of cooldown, the     *)
(* request starts with such a leaf, through however many groups: what         *)
(* availability promises of a subtree, the plans made on the way down keep.   *)
ReadyFirst ==
  [][\A r \in Requests :
       LET ready == {l \in Names : UntilAt(cool[l], now) = 0}
       IN  /\ req[r].spent = 0 /\ req'[r].spent = 1
           /\ IsGroup(r, req[r].model)
           /\ Below(req[r].snap, req[r].model) \cap ready # {}
           => Leaf(r) \in ready]_vars

-----------------------------------------------------------------------------
(* The engine uses the cooldown table only through its operations: whatever   *)
(* the requests do, the table evolves as module Cooldown says, with the       *)
(* cooldown settings of the configurations.                                   *)
Table == INSTANCE Cooldown WITH
           entries <- cool, Models <- Names, Reports <- {Plain} \cup {ErrorOf(h).msg : h \in Replies},
           Configs <- {c.cooldown : c \in Configs},
           MaxStrikes <- SafetyBudget * Cardinality(Requests) + 1

TableSpec == Table!Spec

(* To its client a request is what module Routing promises: some calls within *)
(* the budget, then one outcome that nothing after it changes.  A delivery    *)
(* (even one that broke after it was committed), a cancellation, a spent      *)
(* budget and a client error no group on the path fails over are final at     *)
(* once, however many groups are above.                                       *)
Outcome(a) == [type |-> a.type, code |-> a.code, by |-> a.by]

Phase(q) ==
  IF q.pc \in {"idle", "done"} THEN q.pc
  ELSE IF q.stopped \/ (q.pc = "return" /\ Len(q.stack) = 1) THEN "final"
  ELSE "running"

View(q) ==
  [phase |-> Phase(q), calls |-> q.spent, asked |-> q.asked,
   outcome |-> Outcome(IF Phase(q) \in {"final", "done"} THEN q.answer ELSE NoAnswer)]

Routed == [r \in Requests |-> View(req[r])]

Client == INSTANCE Routing WITH
            view <- Routed, Leaves <- Names, Budget <- SafetyBudget, NoLeaf <- Nothing,
            Codes <- EngineCodes

RoutingSpec == Client!Spec

(* A request that was taken is answered, by a delivery or a failure.          *)
Answered == \A r \in Requests : req[r].pc = "enter" ~> req[r].pc = "done"
=============================================================================
