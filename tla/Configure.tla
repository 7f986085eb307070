------------------------------ MODULE Configure ------------------------------
(* How a configuration is accepted (configure in plugin.go, Parse in          *)
(* internal/config): what is submitted is checked, normalised and installed,  *)
(* or refused as a whole, and then the configuration before it stays.  The    *)
(* depth-first search of validateGroups is taken step by step, with its       *)
(* explicit path and its memo; Go visits the roots in any order.              *)
(*                                                                            *)
(* Left out: YAML, warnings, capabilities, weights and the lists of rules     *)
(* (the cooldown settings are normalised in CooldownEntry).  Names of groups  *)
(* and members are compared as the code compares them, without case and       *)
(* surrounding space; Nameless is the empty one.  A list of members is a set: *)
(* their order and repetitions do not matter to the search.                   *)
EXTENDS ModelNames

CONSTANTS
  Names,          \* names of groups and models, Nameless among them
  Nameless,       \* the empty name
  Tokens,         \* what names and patterns of models are made of
  Requested,      \* names of models that clients may ask for
  Submissions,    \* what an operator may submit first
  Later,          \* ... and after that, again and again
  MaxGroupDepth   \* 8

ASSUME NamelessAssumption == Nameless \in Names
ASSUME DepthAssumption == MaxGroupDepth \in Nat \ {0}

(* tuned: the reference sets expect, deny or max_retries.  pinned: whether    *)
(* the strategy is manual, with the member it selects.                        *)
Members == [model : Names, tuned : BOOLEAN]

VirtualModels ==
  [name : Names, members : SUBSET Members, pinned : BOOLEAN, selected : Names]

(* A guard rule: the pattern of its models, its own retries, if it sets them, *)
(* and what it says of a response that names no model.                        *)
Missing == {"accept", "reject"}

Rule(pattern) == [model |-> pattern, retries |-> <<>>, missing |-> ""]

NoRule == Rule(<<>>)

Rules == [model : Seq(Tokens), retries : Seq(Int), missing : Missing \cup {"", "typo"}]

DefaultGuardModels ==
  <<Rule(<<"gpt", "-", "*">>), Rule(<<"chatgpt", "-", "*">>), Rule(<<"o1", "*">>),
    Rule(<<"o3", "*">>), Rule(<<"o4", "*">>), Rule(<<"deepseek", "-", "*">>),
    Rule(<<"glm", "-", "*">>)>>

(* What decoding gives: the defaults, with what the operator wrote on top.    *)
Default == [virtual |-> <<>>, rules |-> DefaultGuardModels, retries |-> 3, missing |-> "accept"]

IsSubmission(s) ==
  /\ DOMAIN s = DOMAIN Default
  /\ s.virtual \in Seq(VirtualModels)
  /\ s.retries \in Int
  /\ s.rules \in Seq(Rules)

ASSUME SubmissionsAssumption == \A s \in Submissions \cup Later : IsSubmission(s)

(* No model has a "*" in its name: Glob would take it for the pattern's own.  *)
ASSUME RequestedAssumption == Requested \subseteq Seq(Tokens \ {"*"})

ASSUME TokensAssumption ==
  \A i \in DOMAIN DefaultGuardModels : DefaultGuardModels[i].model \in Seq(Tokens)

VARIABLES
  phase,      \* "idle", "visit", then "installed" or "refused"
  raw,        \* the submission
  todo,       \* roots validateGroups has still to visit
  stack,      \* the path of visit, each group with the members still to look at
  checked,    \* checkedDepth
  active,     \* the engine's configuration, its virtual models as a set
  source      \* history: the submission it was made of

vars == <<phase, raw, todo, stack, checked, active, source>>

Settled == {"installed", "refused"}

-----------------------------------------------------------------------------
Models(members) == {m.model : m \in members}

(* validateManual, on a list of virtual models.                               *)
ManualValid(list) ==
  \A i \in DOMAIN list :
    list[i].pinned =>
      list[i].selected # Nameless /\ list[i].selected \in Models(list[i].members)

(* The map validateGroups searches: of two entries with one name it keeps the *)
(* last.                                                                      *)
GroupNames(list) == {list[i].name : i \in DOMAIN list}

MembersOf(list, g) ==
  list[CHOOSE i \in DOMAIN list :
         list[i].name = g /\ \A j \in DOMAIN list : list[j].name = g => j <= i].members

(* normalize: an entry keeps its named members other than itself; unnamed     *)
(* entries, those left without members and those whose name an earlier entry  *)
(* took are dropped.  Faulty form: entries without members are kept.          *)
Kept(vm) ==
  [vm EXCEPT !.members = {m \in vm.members : m.model \notin {Nameless, vm.name}}]

UsableEvenEmpty(vm) == vm.name # Nameless

Usable(vm) == vm.name # Nameless /\ Kept(vm).members # {}

Normalized(list) ==
  {Kept(list[i]) : i \in
     {j \in DOMAIN list :
        /\ Usable(list[j])
        /\ \A h \in 1..(j - 1) : Usable(list[h]) => list[h].name # list[j].name}}

NonNegative(n) == IF n > 0 THEN n ELSE 0

(* normalizeMissing.                                                          *)
MissingOr(m, default) == IF m \in Missing THEN m ELSE default

(* A rule that says nothing of missing models does as the guard in general.   *)
KeptRule(rule, missing) ==
  [rule EXCEPT !.retries = IF @ = <<>> THEN @ ELSE <<NonNegative(@[1])>>,
               !.missing = MissingOr(@, missing)]

KeptRules(rules, missing) ==
  LET kept[n \in 0..Len(rules)] ==
        IF n = 0 THEN <<>>
        ELSE IF rules[n].model = <<>> THEN kept[n - 1]
        ELSE Append(kept[n - 1], KeptRule(rules[n], missing))
  IN  kept[Len(rules)]

Normal(s) ==
  LET missing == MissingOr(s.missing, "accept")
  IN  [virtual |-> Normalized(s.virtual), rules |-> KeptRules(s.rules, missing),
       retries |-> NonNegative(s.retries), missing |-> missing]

(* FindGuard: the first rule whose pattern matches.                           *)
FindGuard(c, name) ==
  LET hits == {i \in DOMAIN c.rules : ModelGlob(c.rules[i].model, name)}
  IN  IF name = <<>> \/ hits = {} THEN NoRule ELSE c.rules[Min(hits)]

RetryBudget(c, rule) == IF rule.retries # <<>> THEN rule.retries[1] ELSE c.retries

-----------------------------------------------------------------------------
Init ==
  /\ phase = "idle" /\ raw = Default /\ todo = {} /\ stack = <<>> /\ checked = <<>>
  /\ active = Normal(Default) /\ source = Default

Submit(s) ==
  /\ phase \in {"idle"} \cup Settled
  /\ raw' = s
  /\ IF ManualValid(s.virtual)
     THEN phase' = "visit" /\ todo' = GroupNames(s.virtual)
     ELSE phase' = "refused" /\ UNCHANGED todo
  /\ UNCHANGED <<stack, checked, active, source>>

Path == {stack[i].name : i \in DOMAIN stack}

(* The memo may be reused only for a visit that is no deeper.  Faulty form:   *)
(* whatever the depth.                                                        *)
CheckedAtAnyDepth(g) == g \in DOMAIN checked

Checked(g) == g \in DOMAIN checked /\ checked[g] >= Len(stack)

(* Faulty form: the limit is off by one.                                      *)
TooDeepAtLimit == Len(stack) + 1 >= MaxGroupDepth

TooDeep == Len(stack) + 1 > MaxGroupDepth

(* The search ends, and with it its path and its memo.                        *)
Settle(outcome) == phase' = outcome /\ todo' = {} /\ stack' = <<>> /\ checked' = <<>>

Refuse == Settle("refused")

Proceed(path, roots) == stack' = path /\ todo' = roots /\ UNCHANGED <<phase, checked>>

(* visit(g) with the path at hand; the roots are still to visit.              *)
Visit(g, path, roots) ==
  IF g \in Path THEN Refuse
  ELSE IF Checked(g) THEN Proceed(path, roots)
  ELSE IF TooDeep THEN Refuse
  ELSE Proceed(Append(path, [name |-> g, rest |-> MembersOf(raw.virtual, g)]), roots)

VisitRoot(g) ==
  /\ phase = "visit" /\ stack = <<>> /\ g \in todo
  /\ Visit(g, stack, todo \ {g})
  /\ UNCHANGED <<raw, active, source>>

Top == stack[Len(stack)]

LookAt(m) ==
  LET path == [stack EXCEPT ![Len(stack)].rest = @ \ {m}]
      group == m.model \in GroupNames(raw.virtual)
  IN  /\ phase = "visit" /\ stack # <<>> /\ m \in Top.rest
      /\ IF ~group THEN Proceed(path, todo)
         ELSE IF m.tuned THEN Refuse
         ELSE Visit(m.model, path, todo)
      /\ UNCHANGED <<raw, active, source>>

(* All members are fine: the group is, at this depth.                         *)
Return ==
  /\ phase = "visit" /\ stack # <<>> /\ Top.rest = {}
  /\ checked' = [g \in DOMAIN checked \cup {Top.name} |->
                   IF g = Top.name THEN Len(stack) - 1 ELSE checked[g]]
  /\ stack' = SubSeq(stack, 1, Len(stack) - 1)
  /\ UNCHANGED <<phase, raw, todo, active, source>>

(* Faulty form: the manual selection is not checked again after normalize.    *)
InstallUnchecked ==
  /\ phase = "visit" /\ stack = <<>> /\ todo = {}
  /\ Settle("installed") /\ active' = Normal(raw) /\ source' = raw
  /\ UNCHANGED raw

(* The rest of Parse, and SetConfig.                                          *)
Install ==
  /\ phase = "visit" /\ stack = <<>> /\ todo = {}
  /\ IF \A vm \in Normalized(raw.virtual) : ManualValid(<<vm>>)
     THEN Settle("installed") /\ active' = Normal(raw) /\ source' = raw
     ELSE Settle("refused") /\ UNCHANGED <<active, source>>
  /\ UNCHANGED raw

Next ==
  \/ \E s \in IF phase = "idle" THEN Submissions ELSE Later : Submit(s)
  \/ \E g \in Names : VisitRoot(g)
  \/ \E m \in Members : LookAt(m)
  \/ Return
  \/ Install

Spec == Init /\ [][Next]_vars

-----------------------------------------------------------------------------
TypeOK ==
  /\ phase \in {"idle", "visit"} \cup Settled
  /\ IsSubmission(raw) /\ IsSubmission(source)
  /\ todo \subseteq Names
  /\ Len(stack) <= MaxGroupDepth
  /\ \A i \in DOMAIN stack : stack[i].name \in Names /\ stack[i].rest \subseteq Members
  /\ DOMAIN checked \subseteq Names
  /\ \A g \in DOMAIN checked : checked[g] \in 0..(MaxGroupDepth - 1)
  /\ active.virtual \subseteq VirtualModels
  /\ \A vm \in active.virtual : vm.members # {} /\ vm.name # Nameless
  /\ active.missing \in Missing /\ active.retries \in Nat

(* Chains of n groups, each a member of the one before; a cycle gives chains  *)
(* of every length.                                                           *)
Chains(groups, member(_), n) ==
  {p \in [1..n -> groups] : \A i \in 1..(n - 1) : p[i + 1] \in member(p[i])}

RawChains(n) ==
  Chains(GroupNames(raw.virtual), LAMBDA g : Models(MembersOf(raw.virtual, g)), n)

ActiveChains(n) ==
  Chains({vm.name : vm \in active.virtual},
         LAMBDA g : UNION {Models(vm.members) : vm \in {v \in active.virtual : v.name = g}}, n)

(* The installed groups are free of cycles and of chains too deep to run, and *)
(* their references to groups carry no leaf settings: whatever the order of   *)
(* the search, its memo never hides a group that is also reached further down.*)
ActiveSound ==
  /\ ActiveChains(MaxGroupDepth + 1) = {}
  /\ \A vm \in active.virtual : \A m \in vm.members :
       m.tuned => m.model \notin {v.name : v \in active.virtual}

(* ... and nothing harmless is refused: there is a chain too long, a leaf     *)
(* setting on a reference, or a manual group without its selected member.     *)
RefusedForCause ==
  phase = "refused" =>
    \/ RawChains(MaxGroupDepth + 1) # {}
    \/ \E g \in GroupNames(raw.virtual) : \E m \in MembersOf(raw.virtual, g) :
         m.tuned /\ m.model \in GroupNames(raw.virtual)
    \/ ~ManualValid(raw.virtual)
    \/ \E vm \in Normalized(raw.virtual) : ~ManualValid(<<vm>>)

(* A running manual group always finds its selected member among its members, *)
(* although normalize may drop members after the first check; and no two      *)
(* installed groups share a name.                                             *)
ManualKept ==
  /\ \A vm \in active.virtual : ManualValid(<<vm>>)
  /\ \A v, w \in active.virtual : v.name = w.name => v = w

(* Once a submission is settled, and whatever was refused since the last one  *)
(* accepted, a model is guarded as that one says: by its first rule that      *)
(* covers the name, in any namespace unless the pattern has one, with the     *)
(* rule's own retries and strictness where it sets them and the guard's       *)
(* otherwise, and never with a negative number of retries.                    *)
GuardRight ==
  phase # "visit" => \A n \in Requested :
    LET rules == source.rules
        meant == {i \in DOMAIN rules : rules[i].model # <<>> /\ CoversModel(rules[i].model, n)}
        rule == FindGuard(active, n)
        first == rules[Min(meant)]
        retries == IF first.retries = <<>> THEN source.retries ELSE first.retries[1]
        strict == IF first.missing \in Missing THEN first.missing ELSE source.missing
    IN  IF n = <<>> \/ meant = {} THEN rule = NoRule
        ELSE /\ rule.model = first.model
             /\ RetryBudget(active, rule) = NonNegative(retries)
             /\ rule.missing = "reject" <=> strict = "reject"
==============================================================================
