---------------------------- MODULE CooldownEntry ----------------------------
(* One entry of the cooldown table (internal/cooldown/store.go) and what one  *)
(* recorded result does to it.  The operators are pure: module Cooldown makes *)
(* them the table's actions and module Engine calls them from its steps.      *)
(*                                                                            *)
(* Data left out: the counters, timestamps and last message kept for display, *)
(* and the entry that exists but never failed (it equals an absent one).      *)
(* Durations, instants and configured seconds are whole units, and a Duration *)
(* holds -(MaxDuration + 1)..MaxDuration of them.                             *)
EXTENDS Detect

CONSTANT
  Unrepresentable   \* what converting an out-of-range float64 to a
                    \* time.Duration may give: Go leaves it to the machine

ASSUME UnrepresentableAssumption ==
  /\ Unrepresentable \subseteq Int
  /\ Unrepresentable # {}

NoKind == ""

CooldownConfigs ==
  [on : BOOLEAN, base : [CoolingKinds -> Nat], threshold : Nat \ {0},
   multiplier : Nat \ {0}, max : Nat \ {0}, honor : BOOLEAN]

(* What an operator may write, and what normalize makes of it: nothing is     *)
(* bounded from above, so the seconds may exceed a Duration's range.          *)
Settings ==
  [on : BOOLEAN, base : [CoolingKinds -> Int], threshold : Int, multiplier : Int,
   max : Int, honor : BOOLEAN]

AtLeast(low, n) == IF n < low THEN low ELSE n

Clamped(c) ==
  [on |-> c.on, honor |-> c.honor,
   base |-> [k \in CoolingKinds |-> AtLeast(0, c.base[k])],
   threshold |-> AtLeast(1, c.threshold),
   multiplier |-> AtLeast(1, c.multiplier),
   max |-> IF c.max <= 0 THEN 6 * 3600 ELSE c.max]

(* One entry; until = 0 is Go's zero time.                                    *)
Entries == [until : Nat, kind : CoolingKinds \cup {NoKind},
            strikes : [CoolingKinds -> Nat]]

(* What RecordSuccess leaves, and what an absent entry means: no deadline, no *)
(* reason, no strikes.                                                        *)
Fresh == [until |-> 0, kind |-> NoKind, strikes |-> [k \in CoolingKinds |-> 0]]

(* Store.Until: the deadline, or the zero time once it has passed.            *)
UntilAt(e, now) == IF e.until > now THEN e.until ELSE 0

(* time.Duration(secs) * time.Second: beyond the range the product wraps.     *)
AsDuration(n) ==
  IF n <= MaxDuration
  THEN n
  ELSE ((n + MaxDuration + 1) % (2 * (MaxDuration + 1))) - (MaxDuration + 1)

(* The product math.Pow computes in float64, where it cannot overflow.        *)
Scaled(c, k, s) == AsDuration(c.base[k]) * c.multiplier ^ (s - 1)

(* The strikes that count: a server error only cools from the threshold on.   *)
Effective(c, k, s) == IF k = "server_error" THEN s - c.threshold + 1 ELSE s

(* A faulty form: the failure that reaches the threshold is tolerated, too.   *)
ToleratedAtThreshold(c, k, s) == k = "server_error" /\ s <= c.threshold

Tolerated(c, k, s) == k = "server_error" /\ s < c.threshold

(* The conversion back to a Duration.                                         *)
Backoff(c, k, s, ov) ==
  LET d == Scaled(c, k, Effective(c, k, s))
  IN  IF d \in -(MaxDuration + 1)..MaxDuration THEN d ELSE ov

(* Faulty forms of the operators that follow, which the properties must tell  *)
(* from the real ones: the host's hint taken like any other; no cap; a        *)
(* deadline overwritten.                                                      *)
HintedByHost(c, k, msg, hint, d) ==
  IF c.honor /\ k \in {"quota", "rate_limit"} /\ hint > 0 THEN hint ELSE d

Uncapped(c, d) == d

Overwritten(e, k, now, d) ==
  IF d > 0 THEN [e EXCEPT !.until = now + d, !.kind = k] ELSE e

(* A reset hint replaces the backoff; the host's own may only extend it.      *)
Hinted(c, k, msg, hint, d) ==
  IF /\ c.honor
     /\ k \in {"quota", "rate_limit"}
     /\ hint > 0
     /\ ~IsHostCooldown(msg) \/ hint > d
  THEN hint
  ELSE d

Capped(c, d) == IF d > AsDuration(c.max) THEN AsDuration(c.max) ELSE d

Struck(e, k) == [e EXCEPT !.strikes[k] = @ + 1]

(* The deadline only moves forward.                                           *)
Extended(e, k, now, d) ==
  IF d > 0 /\ now + d > e.until
  THEN [e EXCEPT !.until = now + d, !.kind = k]
  ELSE e

(* A faulty form: the failure counts twice where the strikes are weighed.     *)
FailedCountedTwice(e, c, k, msg, now, ov) ==
  IF ~c.on \/ k = "client_error"
  THEN e
  ELSE LET s == e.strikes[k] + 2
       IN  IF Tolerated(c, k, s)
           THEN Struck(e, k)
           ELSE Extended(Struck(e, k), k, now,
                         Capped(c, Hinted(c, k, msg, RetryAfter(msg, now, ov),
                                          Backoff(c, k, s, ov))))

(* Store.RecordFailure on entry e at time now, with the caller's config c.    *)
Failed(e, c, k, msg, now, ov) ==
  IF ~c.on \/ k = "client_error"
  THEN e
  ELSE LET s == e.strikes[k] + 1
       IN  IF Tolerated(c, k, s)
           THEN Struck(e, k)
           ELSE Extended(Struck(e, k), k, now,
                         Capped(c, Hinted(c, k, msg, RetryAfter(msg, now, ov),
                                          Backoff(c, k, s, ov))))
==============================================================================
