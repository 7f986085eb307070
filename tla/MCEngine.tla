------------------------------ MODULE MCEngine -------------------------------
(* Instances of Engine for TLC: configurations and bounds.                    *)
EXTENDS Engine, TLC

(* Cooldown settings: two time units for most kinds, so that a cooldown is    *)
(* longer than one tick, and no backoff (module Cooldown checks it).          *)
Cooling ==
  [on |-> TRUE, base |-> [k \in CoolingKinds |-> 2], threshold |-> 2,
   multiplier |-> 1, max |-> 2, honor |-> TRUE]

Uneven == [Cooling EXCEPT !.base["quota"] = 1]

Plainly(m) == [model |-> m, retries |-> 0, explicit |-> FALSE]
Retried(m) == [model |-> m, retries |-> 1, explicit |-> FALSE]
Listed(m) == [model |-> m, retries |-> 0, explicit |-> TRUE]

Fallback(ms) ==
  [strategy |-> "fallback", manual |-> "a", members |-> ms, max |-> 0,
   soonest |-> TRUE, failover |-> FALSE, guard |-> FALSE]

Rotated(ms) == [Fallback(ms) EXCEPT !.strategy = "round-robin"]
Shuffled(ms) == [Fallback(ms) EXCEPT !.strategy = "weighted"]
Pinned(ms, m) == [Fallback(ms) EXCEPT !.strategy = "manual", !.manual = m]

NoRules == [m \in {} |-> [retries |-> 0, strict |-> FALSE]]

Config(virtual, rules) ==
  [enabled |-> TRUE, virtual |-> virtual, rules |-> rules, strict |-> FALSE,
   cooldown |-> Cooling]

(* A guarded parent over a child that fails over on client errors and has its *)
(* own cap; leaf a is reached both ways and has a strict rule.                *)
Nested ==
  Config([root |-> [Fallback(<<Plainly("pool"), Plainly("c"), Listed("a")>>)
                      EXCEPT !.guard = TRUE, !.max = 5],
          pool |-> [Fallback(<<Retried("a"), Plainly("b")>>)
                      EXCEPT !.failover = TRUE, !.max = 3]],
         [a |-> [retries |-> 1, strict |-> TRUE]])

(* The same tree, where the parent fails over and the child does not.         *)
Lenient ==
  [Nested EXCEPT !.virtual["root"].failover = TRUE, !.virtual["root"].max = 2,
                 !.virtual["pool"].failover = FALSE, !.virtual["pool"].max = 0,
                 !.virtual["pool"].soonest = FALSE, !.strict = TRUE]

(* Three levels, every strategy on the way down: a manual root pinned to a    *)
(* shuffled group, which shares leaf b with the rotated group below it.       *)
Deep ==
  Config([root |-> [Pinned(<<Plainly("c"), Plainly("pool")>>, "pool") EXCEPT !.guard = TRUE],
          pool |-> Shuffled(<<Plainly("sub"), Plainly("b")>>),
          sub |-> [Rotated(<<Plainly("b"), Plainly("a")>>) EXCEPT !.max = 2, !.failover = TRUE]],
         NoRules)

(* A rotated pair, alone and below a group that comes back to it after a leaf,*)
(* and a guarded leaf requested by its own name.                              *)
Rotation ==
  Config([root |-> Fallback(<<Plainly("c"), Plainly("pool")>>),
          pool |-> Rotated(<<Plainly("a"), Plainly("b")>>)],
         [c |-> [retries |-> 1, strict |-> FALSE]])

(* Every leaf once, below groups of every strategy: what one request sees of  *)
(* the cooldown table is what earlier requests left there.                    *)
Disjoint ==
  Config([root |-> Fallback(<<Plainly("pool"), Plainly("sub"), Retried("d")>>),
          pool |-> Pinned(<<Plainly("a"), Plainly("b")>>, "a"),
          sub |-> Shuffled(<<Plainly("b"), Plainly("c")>>)],
         [d |-> [retries |-> 0, strict |-> TRUE]])

(* Who contains whom is turned over when this one replaces one of the trees.  *)
Inverted ==
  Config([root |-> Fallback(<<Plainly("a")>>),
          pool |-> [Fallback(<<Plainly("root"), Plainly("b")>>) EXCEPT !.guard = TRUE]],
         [b |-> [retries |-> 1, strict |-> TRUE]])

(* What Parse lets through when a group name is defined twice: the definition *)
(* it checks is not the one it keeps (config/groups.go:11, config.go:303).    *)
Cyclic ==
  Config([root |-> Fallback(<<Plainly("pool"), Plainly("a")>>),
          pool |-> [Fallback(<<Plainly("b"), Plainly("root")>>) EXCEPT !.max = 2, !.soonest = FALSE]], NoRules)

TooLong ==
  Config([root |-> [Fallback(<<Plainly("pool"), Plainly("a")>>) EXCEPT !.failover = TRUE],
          pool |-> Fallback(<<Plainly("sub")>>),
          sub |-> Pinned(<<Plainly("b")>>, "b")], NoRules)

MCTrees == {Nested, Lenient, Deep, Inverted}
MCRotation == {Rotation}
MCCooling == {Disjoint, Cyclic, TooLong}

MCFresh == {[m \in Names |-> Fresh]}

(* Any leaves cooling after a quota error, each until one of two instants.    *)
MCAnyTable ==
  {[m \in Names |->
      IF m \in Leaves /\ t[m] > 0
      THEN [Fresh EXCEPT !.until = t[m], !.kind = "quota", !.strikes["quota"] = 1]
      ELSE Fresh] : t \in [Leaves -> {0, 2, 3}]}

Twins == Permutations(Requests)

(* Replies of the host: an answer, a context error, and errors by status and  *)
(* markers.                                                                   *)
Replying(form, status, marks) ==
  [form |-> form, failed |-> FALSE, status |-> status, msg |-> [Plain EXCEPT !.marks = marks]]

Answered200 == Replying("ok", 200, {})
Cancelled == Replying("error", 499, {"cancelled"})

MCFew == {Answered200, Cancelled, Replying("error", 429, {"quota"})}

(* A client error, as an error and as an answer whose body happens to be the  *)
(* text of a context error; a client error that is about the model; the price *)
(* plugin's refusal; a failing call that explains nothing.                    *)
MCReplies ==
  MCFew \cup
  {Replying("error", 400, {}), Replying("ok", 422, {"cancelled"}),
   Replying("error", 400, {"not_found"}), Replying("error", 503, {"refusal"}),
   [Answered200 EXCEPT !.failed = TRUE]}

(* One group has a name like "quota-pool".                                    *)
MCNames == [g \in Groups |-> IF g = "sub" THEN {"quota"} ELSE {}]
MCPlainNames == [g \in Groups |-> {}]

MCOverflow == {MaxDuration}
=============================================================================
