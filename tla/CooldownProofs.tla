--------------------------- MODULE CooldownProofs ----------------------------
(* Theorems about the cooldown table, for every set of models, configurations *)
(* and messages, every clock bound and every width of time.Duration.          *)
EXTENDS Cooldown, TLAPS

-----------------------------------------------------------------------------
(* What normalize makes of the numbers an operator writes is a configuration  *)
(* the results below are about: zero and negative ones are replaced, a number *)
(* beyond a Duration's range is not.                                          *)
LEMMA ClampedUsable == \A c \in Settings : Clamped(c) \in CooldownConfigs
<1> SUFFICES ASSUME NEW c \in Settings PROVE Clamped(c) \in CooldownConfigs
  OBVIOUS
<1>1. /\ c.on \in BOOLEAN /\ c.honor \in BOOLEAN
      /\ c.base \in [CoolingKinds -> Int]
      /\ c.threshold \in Int /\ c.multiplier \in Int /\ c.max \in Int
  BY DEF Settings
<1>2. \A n \in Int : AtLeast(0, n) \in Nat /\ AtLeast(1, n) \in Nat \ {0}
  BY DEF AtLeast
<1>3. [k \in CoolingKinds |-> AtLeast(0, c.base[k])] \in [CoolingKinds -> Nat]
  BY <1>1, <1>2
<1>4. (IF c.max <= 0 THEN 6 * 3600 ELSE c.max) \in Nat \ {0}
  BY <1>1
<1>5. QED  BY <1>1, <1>2, <1>3, <1>4 DEF Clamped, CooldownConfigs

(* A number of seconds that a Duration can hold is kept; another one wraps.   *)
LEMMA Wrapping ==
  ASSUME NEW n \in Nat
  PROVE  /\ AsDuration(n) \in Int
         /\ n <= MaxDuration => AsDuration(n) = n
<1>1. MaxDuration \in Nat
  BY MaxDurationAssumption
<1>2. CASE n <= MaxDuration
  BY <1>2 DEF AsDuration
<1>3. CASE ~(n <= MaxDuration)
  <2> DEFINE u == n + MaxDuration + 1
             w == 2 * (MaxDuration + 1)
             r == u % w
  <2>1. u \in Nat /\ w \in Nat \ {0}
    BY <1>1
  <2>2. AsDuration(n) = r - (MaxDuration + 1)
    BY <1>3 DEF AsDuration
  <2> HIDE DEF u, w
  <2>3. r \in Int
    BY <2>1
  <2> HIDE DEF r
  <2>4. QED  BY <1>1, <1>3, <2>2, <2>3
<1>4. QED  BY <1>1, <1>2, <1>3

(* The computed duration is an integer whatever the float conversion does.    *)
LEMMA BackoffInt ==
  ASSUME NEW c, NEW k, NEW s, NEW ov \in Unrepresentable
  PROVE  Backoff(c, k, s, ov) \in Int
<1> DEFINE d == Scaled(c, k, Effective(c, k, s))
<1>1. Backoff(c, k, s, ov) = IF d \in -(MaxDuration + 1)..MaxDuration THEN d ELSE ov
  BY DEF Backoff
<1>2. ov \in Int
  BY UnrepresentableAssumption
<1>3. d \in -(MaxDuration + 1)..MaxDuration => d \in Int
  BY MaxDurationAssumption
<1> HIDE DEF d
<1>4. QED  BY <1>1, <1>2, <1>3

(* So is a hint; a message without one gives none.                            *)
LEMMA RetryAfterInt ==
  ASSUME NEW msg \in Messages, NEW t \in Nat, NEW ov \in Unrepresentable
  PROVE  /\ RetryAfter(msg, t, ov) \in Int
         /\ RetryAfter(Plain, t, ov) = 0
<1>1. ov \in Int /\ MaxDuration \in Nat
  BY UnrepresentableAssumption, MaxDurationAssumption
<1>2. /\ msg.seconds \in Nat /\ msg.at \in Nat /\ msg.within \in Nat
      /\ msg.lasting \in Nat
  BY DEF Messages
<1>3. /\ Plain.seconds = 0 /\ Plain.at = 0 /\ Plain.within = 0 /\ Plain.lasting = 0
  BY DEF Plain
<1>4. RetryAfter(msg, t, ov) \in Int
  BY <1>1, <1>2 DEF RetryAfter, Converted
<1>5. RetryAfter(Plain, t, ov) = 0
  BY <1>1, <1>3 DEF RetryAfter, Converted
<1>6. QED  BY <1>4, <1>5

(* A hint keeps it an integer, the host's own hint never reduces it, and no   *)
(* hint leaves it alone.                                                      *)
LEMMA HintedBounds ==
  ASSUME NEW c \in CooldownConfigs, NEW k, NEW msg, NEW h \in Int, NEW d \in Int
  PROVE  /\ Hinted(c, k, msg, h, d) \in Int
         /\ IsHostCooldown(msg) => Hinted(c, k, msg, h, d) >= d
         /\ h = 0 => Hinted(c, k, msg, h, d) = d
BY DEF Hinted

(* The cap bounds the duration and keeps the order of two durations.          *)
LEMMA CappedBounds ==
  ASSUME NEW c \in CooldownConfigs, NEW d \in Int, NEW d2 \in Int
  PROVE  /\ Capped(c, d) \in Int
         /\ Capped(c, d) <= AsDuration(c.max)
         /\ d <= d2 => Capped(c, d) <= Capped(c, d2)
<1>1. c.max \in Nat
  BY DEF CooldownConfigs
<1>2. PICK x \in Int : x = AsDuration(c.max)
  BY <1>1, Wrapping
<1>3. QED  BY <1>2 DEF Capped

(* One strike leaves an entry, with that counter one higher.                  *)
LEMMA StruckEntry ==
  ASSUME NEW e \in Entries, NEW k \in CoolingKinds
  PROVE  /\ Struck(e, k) \in Entries
         /\ Struck(e, k).until = e.until
         /\ Struck(e, k).kind = e.kind
         /\ Struck(e, k).strikes[k] = e.strikes[k] + 1
         /\ \A j \in CoolingKinds : Struck(e, k).strikes[j] >= e.strikes[j]
<1>1. Struck(e, k) = [until |-> e.until, kind |-> e.kind,
                      strikes |-> [e.strikes EXCEPT ![k] = @ + 1]]
  BY DEF Struck, Entries
<1>2. e.strikes \in [CoolingKinds -> Nat]
  BY DEF Entries
<1>3. [e.strikes EXCEPT ![k] = @ + 1] \in [CoolingKinds -> Nat]
  BY <1>2
<1>4. QED  BY <1>1, <1>2, <1>3 DEF Entries

(* Extending moves the deadline forward, by at most the duration, and only    *)
(* together with the reason.                                                  *)
LEMMA ExtendedEntry ==
  ASSUME NEW e \in Entries, NEW k \in CoolingKinds, NEW t \in Nat, NEW d \in Int
  PROVE  /\ Extended(e, k, t, d) \in Entries
         /\ Extended(e, k, t, d).strikes = e.strikes
         /\ \/ Extended(e, k, t, d) = e
            \/ /\ Extended(e, k, t, d).until = t + d
               /\ Extended(e, k, t, d).kind = k
         /\ Extended(e, k, t, d).until >= e.until
         /\ Extended(e, k, t, d).until >= t + d \/ d <= 0
<1>1. CASE d > 0 /\ t + d > e.until
  <2>1. Extended(e, k, t, d) = [until |-> t + d, kind |-> k, strikes |-> e.strikes]
    BY <1>1 DEF Extended, Entries
  <2>2. t + d \in Nat
    BY <1>1
  <2>3. QED  BY <1>1, <2>1, <2>2 DEF Entries
<1>2. CASE ~(d > 0 /\ t + d > e.until)
  <2>1. Extended(e, k, t, d) = e
    BY <1>2 DEF Extended
  <2>2. QED  BY <1>2, <2>1 DEF Entries
<1>3. QED  BY <1>1, <1>2

(* What one recorded failure does to an entry: it stays an entry, its deadline*)
(* never moves back, a moved deadline is within the caller's cap and names a  *)
(* kind that was counted, to the threshold if it has one, and no strike is    *)
(* lost.                                                                      *)
LEMMA FailedEntry ==
  ASSUME NEW e \in Entries, NEW c \in CooldownConfigs, NEW k \in Kinds,
         NEW msg \in Messages, NEW t \in Nat, NEW ov \in Unrepresentable
  PROVE  LET f == Failed(e, c, k, msg, t, ov)
         IN  /\ f \in Entries
             /\ f.until >= e.until
             /\ \A j \in CoolingKinds : f.strikes[j] >= e.strikes[j]
             /\ \/ f.until = e.until /\ f.kind = e.kind
                \/ /\ f.until <= t + AsDuration(c.max)
                   /\ f.kind = k
                   /\ k \in CoolingKinds
                   /\ c.on
                   /\ f.strikes[k] >= 1
                   /\ k = "server_error" => f.strikes[k] >= c.threshold
<1> DEFINE s == e.strikes[k] + 1
           h == RetryAfter(msg, t, ov)
           d == Capped(c, Hinted(c, k, msg, h, Backoff(c, k, s, ov)))
           f == Failed(e, c, k, msg, t, ov)
<1>1. CASE ~c.on \/ k = "client_error"
  <2>1. f = e
    BY <1>1 DEF Failed
  <2>2. \A j \in CoolingKinds : e.strikes[j] \in Nat
    BY DEF Entries
  <2>3. e.until \in Nat
    BY DEF Entries
  <2>4. QED  BY <2>1, <2>2, <2>3
<1>2. CASE c.on /\ k # "client_error"
  <2>1. k \in CoolingKinds
    BY <1>2 DEF Kinds
  <2>2. f = IF Tolerated(c, k, s) THEN Struck(e, k) ELSE Extended(Struck(e, k), k, t, d)
    BY <1>2 DEF Failed
  <2>3. d \in Int /\ d <= AsDuration(c.max)
    <3>1. Backoff(c, k, s, ov) \in Int
      BY BackoffInt
    <3>2. h \in Int
      BY RetryAfterInt
    <3> HIDE DEF h
    <3>3. Hinted(c, k, msg, h, Backoff(c, k, s, ov)) \in Int
      BY <3>1, <3>2, HintedBounds
    <3>4. QED  BY <3>3, CappedBounds
  <2>4. AsDuration(c.max) \in Int /\ c.threshold \in Nat /\ e.strikes[k] \in Nat
    <3>1. c.max \in Nat /\ c.threshold \in Nat
      BY DEF CooldownConfigs
    <3>2. e.strikes[k] \in Nat
      BY <2>1 DEF Entries
    <3>3. QED  BY <3>1, <3>2, Wrapping
  <2> HIDE DEF d
  <2>5. CASE Tolerated(c, k, s)
    <3>1. f = Struck(e, k)
      BY <2>2, <2>5
    <3>2. QED  BY <3>1, <2>1, StruckEntry DEF Entries
  <2>6. CASE ~Tolerated(c, k, s)
    <3>1. f = Extended(Struck(e, k), k, t, d)
      BY <2>2, <2>6
    <3>2. Struck(e, k) \in Entries
      BY <2>1, StruckEntry
    <3>3. f \in Entries /\ f.strikes = Struck(e, k).strikes /\ f.until >= Struck(e, k).until
      BY <3>1, <3>2, <2>1, <2>3, ExtendedEntry
    <3>4. \/ f = Struck(e, k)
          \/ f.until = t + d /\ f.kind = k
      BY <3>1, <3>2, <2>1, <2>3, ExtendedEntry
    <3>5. f.strikes[k] = s
      BY <3>3, <2>1, StruckEntry
    <3>6. f.strikes[k] >= 1 /\ (k = "server_error" => f.strikes[k] >= c.threshold)
      BY <3>5, <2>4, <2>6 DEF Tolerated
    <3>7. f.until >= e.until /\ \A j \in CoolingKinds : f.strikes[j] >= e.strikes[j]
      BY <3>3, <2>1, StruckEntry
    <3>8. CASE f = Struck(e, k)
      BY <3>3, <3>7, <3>8, <2>1, StruckEntry
    <3>9. CASE f.until = t + d /\ f.kind = k
      <4>1. f.until <= t + AsDuration(c.max)
        BY <3>9, <2>3, <2>4
      <4>2. QED  BY <4>1, <3>3, <3>6, <3>7, <3>9, <2>1, <1>2
    <3>10. QED  BY <3>4, <3>8, <3>9
  <2>7. QED  BY <2>5, <2>6
<1>3. c.on \in BOOLEAN
  BY DEF CooldownConfigs
<1>4. QED  BY <1>1, <1>2, <1>3

LEMMA FreshEntry == Fresh \in Entries
BY DEF Fresh, Entries, NoKind

-----------------------------------------------------------------------------
(* The inductive invariant: the three parts keep each other, the reasons and  *)
(* the caps of an entry being read from the same failure.                     *)
IInv == TypeOK /\ DeadlineCapped /\ ReasonRecorded

LEMMA InitIInv == Init => IInv
BY FreshEntry DEF Init, IInv, TypeOK, DeadlineCapped, ReasonRecorded, Cooling,
                  UntilAt, Fresh

(* An entry set to Fresh cannot be cooling, so it satisfies every part.       *)
LEMMA ClearKeepsIInv ==
  ASSUME IInv, now' = now, entries' \in [Models -> Entries],
         \A m \in Models : entries'[m] = entries[m] \/ entries'[m] = Fresh
  PROVE  IInv'
<1>1. \A m \in Models : Cooling(m)' => entries'[m] = entries[m] /\ Cooling(m)
  BY DEF Cooling, UntilAt, Fresh, IInv, TypeOK, Entries
<1>2. TypeOK'
  BY DEF IInv, TypeOK
<1>3. DeadlineCapped'
  BY <1>1 DEF IInv, DeadlineCapped
<1>4. ReasonRecorded'
  BY <1>1 DEF IInv, ReasonRecorded
<1>5. QED  BY <1>2, <1>3, <1>4 DEF IInv

LEMMA TickKeepsIInv == IInv /\ Tick => IInv'
<1> SUFFICES ASSUME IInv, Tick PROVE IInv'
  OBVIOUS
<1>1. now \in Nat /\ now' = now + 1 /\ entries' = entries
  BY DEF IInv, TypeOK, Tick
<1>2. \A m \in Models : entries[m].until \in Nat
  BY DEF IInv, TypeOK, Entries
<1>3. \A m \in Models : Cooling(m)' => Cooling(m)
  BY <1>1, <1>2 DEF Cooling, UntilAt
<1>4. TypeOK'
  BY <1>1 DEF IInv, TypeOK
<1>5. DeadlineCapped'
  <2>1. \A c \in Configs : AsDuration(c.max) \in Int
    BY ConfigsAssumption, Wrapping DEF CooldownConfigs
  <2>2. QED  BY <1>1, <1>2, <1>3, <2>1 DEF IInv, DeadlineCapped
<1>6. ReasonRecorded'
  BY <1>1, <1>3 DEF IInv, ReasonRecorded
<1>7. QED  BY <1>4, <1>5, <1>6 DEF IInv

LEMMA FailureKeepsIInv ==
  ASSUME IInv, NEW m \in Models, NEW k \in Kinds, NEW msg \in Reports,
         NEW c \in Configs, NEW ov \in Unrepresentable,
         RecordFailure(m, k, msg, c, ov)
  PROVE  IInv'
<1> DEFINE e == entries[m]
           f == Failed(e, c, k, msg, now, ov)
<1>1. /\ entries \in [Models -> Entries] /\ now \in Nat /\ now' = now
      /\ entries' = [entries EXCEPT ![m] = f]
      /\ c \in CooldownConfigs /\ msg \in Messages /\ e \in Entries
  BY ConfigsAssumption, ReportsAssumption DEF IInv, TypeOK, RecordFailure
<1>2. /\ f \in Entries
      /\ f.until >= e.until
      /\ \A j \in CoolingKinds : f.strikes[j] >= e.strikes[j]
      /\ \/ f.until = e.until /\ f.kind = e.kind
         \/ /\ f.until <= now + AsDuration(c.max)
            /\ f.kind = k
            /\ k \in CoolingKinds
            /\ c.on
            /\ f.strikes[k] >= 1
            /\ k = "server_error" => f.strikes[k] >= c.threshold
  BY <1>1, FailedEntry
<1> HIDE DEF f
<1>3. entries' \in [Models -> Entries] /\ entries'[m] = f
      /\ \A n \in Models : n # m => entries'[n] = entries[n]
  BY <1>1, <1>2
<1>4. TypeOK'
  BY <1>1, <1>3 DEF TypeOK
<1>5. f.until \in Nat /\ e.until \in Nat
      /\ f.strikes \in [CoolingKinds -> Nat] /\ e.strikes \in [CoolingKinds -> Nat]
  BY <1>1, <1>2 DEF Entries
<1>6. \A n \in Models : n # m => (Cooling(n)' <=> Cooling(n))
  BY <1>1, <1>3 DEF Cooling, UntilAt
<1>7. CASE f.until = e.until /\ f.kind = e.kind
  <2>1. Cooling(m)' => Cooling(m)
    BY <1>1, <1>3, <1>7 DEF Cooling, UntilAt
  <2>2. DeadlineCapped'
    BY <1>1, <1>3, <1>6, <1>7, <2>1 DEF IInv, DeadlineCapped
  <2>3. ReasonRecorded'
    <3> SUFFICES ASSUME NEW n \in Models, Cooling(n)'
                 PROVE  LET j == entries'[n].kind
                        IN  /\ j \in CoolingKinds
                            /\ entries'[n].strikes[j] >= 1
                            /\ j = "server_error" =>
                                 \E b \in Configs :
                                   b.on /\ entries'[n].strikes[j] >= b.threshold
      BY DEF ReasonRecorded
    <3>1. CASE n # m
      BY <3>1, <1>3, <1>6 DEF IInv, ReasonRecorded
    <3>2. CASE n = m
      <4>1. e.kind \in CoolingKinds /\ e.strikes[e.kind] >= 1
        BY <3>2, <2>1 DEF IInv, ReasonRecorded
      <4>2. f.strikes[e.kind] >= e.strikes[e.kind]
        BY <4>1, <1>2
      <4>3. f.strikes[e.kind] \in Nat /\ e.strikes[e.kind] \in Nat
        BY <4>1, <1>5
      <4>4. ASSUME e.kind = "server_error"
            PROVE  \E b \in Configs : b.on /\ f.strikes[e.kind] >= b.threshold
        <5>1. PICK b \in Configs : b.on /\ e.strikes[e.kind] >= b.threshold
          BY <3>2, <2>1, <4>4 DEF IInv, ReasonRecorded
        <5>2. b.threshold \in Nat
          BY ConfigsAssumption DEF CooldownConfigs
        <5>3. QED  BY <4>2, <4>3, <5>1, <5>2
      <4>5. f.strikes[e.kind] >= 1
        BY <4>1, <4>2, <4>3
      <4>6. QED  BY <3>2, <4>1, <4>4, <4>5, <1>3, <1>7
    <3>3. QED  BY <3>1, <3>2
  <2>4. QED  BY <1>4, <2>2, <2>3 DEF IInv
<1>8. CASE /\ f.until <= now + AsDuration(c.max)
           /\ f.kind = k /\ k \in CoolingKinds /\ c.on
           /\ f.strikes[k] >= 1
           /\ k = "server_error" => f.strikes[k] >= c.threshold
  <2>1. DeadlineCapped'
    BY <1>1, <1>3, <1>6, <1>8 DEF IInv, DeadlineCapped
  <2>2. ReasonRecorded'
    BY <1>3, <1>6, <1>8 DEF IInv, ReasonRecorded
  <2>3. QED  BY <1>4, <2>1, <2>2 DEF IInv
<1>9. QED  BY <1>2, <1>7, <1>8

LEMMA NextKeepsIInv == IInv /\ [Next]_vars => IInv'
<1> SUFFICES ASSUME IInv, [Next]_vars PROVE IInv'
  OBVIOUS
<1> USE FreshEntry
<1>1. CASE Tick
  BY <1>1, TickKeepsIInv
<1>2. CASE ResetAll
  BY <1>2, ClearKeepsIInv DEF ResetAll
<1>3. ASSUME NEW m \in Models, RecordSuccess(m) PROVE IInv'
  BY <1>3, ClearKeepsIInv DEF RecordSuccess, IInv, TypeOK
<1>4. ASSUME NEW m \in Models, Reset(m) PROVE IInv'
  BY <1>4, ClearKeepsIInv DEF Reset, IInv, TypeOK
<1>5. ASSUME NEW m \in Models, NEW k \in Kinds, NEW msg \in Reports, NEW c \in Configs,
             NEW ov \in Unrepresentable, RecordFailure(m, k, msg, c, ov)
      PROVE  IInv'
  BY <1>5, FailureKeepsIInv
<1>6. CASE UNCHANGED vars
  BY <1>6 DEF vars, IInv, TypeOK, DeadlineCapped, ReasonRecorded, Cooling, UntilAt
<1>7. QED  BY <1>1, <1>2, <1>3, <1>4, <1>5, <1>6 DEF Next

THEOREM Invariance == Spec => []IInv
BY InitIInv, NextKeepsIInv, PTL DEF Spec

(* Every reachable table is well formed.                                      *)
THEOREM TypeCorrect == Spec => []TypeOK
<1>1. IInv => TypeOK
  BY DEF IInv
<1>2. QED  BY Invariance, <1>1, PTL

(* No model is kept out longer than some caller's max_seconds, with any       *)
(* number of models, reloads, strikes and hints.                              *)
THEOREM DeadlineAlwaysCapped == Spec => []DeadlineCapped
<1>1. IInv => DeadlineCapped
  BY DEF IInv
<1>2. QED  BY Invariance, <1>1, PTL

(* Every running cooldown names a kind of failure that was counted since the  *)
(* last success: once at least, and for server errors as many times as the    *)
(* threshold of some caller asks.                                             *)
THEOREM ReasonAlwaysRecorded == Spec => []ReasonRecorded
<1>1. IInv => ReasonRecorded
  BY DEF IInv
<1>2. QED  BY Invariance, <1>1, PTL

-----------------------------------------------------------------------------
(* A deadline moves back only when a success or a reset clears the entry:     *)
(* proved from the type invariant alone, because RecordFailure never lowers   *)
(* one whatever the float conversion returns.                                 *)
THEOREM DeadlineNeverShortened == Spec => NeverShortened
<1> DEFINE Kept == \A m \in Models :
                     entries'[m].until < entries[m].until => entries'[m] = Fresh
<1>1. TypeOK /\ [Next]_vars => [Kept]_vars
  <2> SUFFICES ASSUME TypeOK, Next PROVE Kept
    OBVIOUS
  <2>1. CASE Tick
    BY <2>1 DEF Tick, TypeOK, Entries
  <2>2. CASE ResetAll
    BY <2>2 DEF ResetAll
  <2>3. ASSUME NEW m \in Models, RecordSuccess(m) \/ Reset(m) PROVE Kept
    BY <2>3 DEF RecordSuccess, Reset, TypeOK, Entries
  <2>4. ASSUME NEW m \in Models, NEW k \in Kinds, NEW msg \in Reports, NEW c \in Configs,
               NEW ov \in Unrepresentable, RecordFailure(m, k, msg, c, ov)
        PROVE  Kept
    <3>1. entries[m] \in Entries /\ now \in Nat /\ c \in CooldownConfigs /\ msg \in Messages
      BY ConfigsAssumption, ReportsAssumption DEF TypeOK
    <3>2. /\ Failed(entries[m], c, k, msg, now, ov) \in Entries
          /\ Failed(entries[m], c, k, msg, now, ov).until >= entries[m].until
      BY <3>1, FailedEntry
    <3>3. \A n \in Models : entries'[n].until >= entries[n].until
      BY <2>4, <3>2 DEF RecordFailure, TypeOK, Entries
    <3>4. \A n \in Models : entries'[n].until \in Nat /\ entries[n].until \in Nat
      BY <2>4, <3>2 DEF RecordFailure, TypeOK, Entries
    <3>5. QED  BY <3>3, <3>4
  <2>5. QED  BY <2>1, <2>2, <2>3, <2>4 DEF Next
<1>2. QED  BY TypeCorrect, <1>1, PTL DEF Spec, NeverShortened

(* In every reachable table a failure that carries the host's own hint cools  *)
(* at least as long as the same failure without it.                           *)
THEOREM HostHintAlwaysExtends == Spec => []HostHintOnlyExtends
<1>1. TypeOK => HostHintOnlyExtends
  <2> SUFFICES ASSUME TypeOK, NEW m \in Models, NEW k \in Kinds, NEW msg \in Reports,
                      NEW c \in Configs, NEW ov \in Unrepresentable,
                      IsHostCooldown(msg)
               PROVE  Failed(entries[m], c, k, msg, now, ov).until
                        >= Failed(entries[m], c, k, Plain, now, ov).until
    BY DEF HostHintOnlyExtends
  <2> DEFINE e == entries[m]
             b == Backoff(c, k, e.strikes[k] + 1, ov)
             r == RetryAfter(msg, now, ov)
             none == RetryAfter(Plain, now, ov)
             d == Capped(c, Hinted(c, k, Plain, none, b))
             h == Capped(c, Hinted(c, k, msg, r, b))
  <2>1. e \in Entries /\ now \in Nat /\ c \in CooldownConfigs /\ msg \in Messages
    BY ConfigsAssumption, ReportsAssumption DEF TypeOK
  <2>2. d \in Int /\ h \in Int /\ d <= h
    <3>1. b \in Int
      BY BackoffInt
    <3>2. r \in Int /\ none = 0
      BY <2>1, RetryAfterInt
    <3> HIDE DEF b, r, none
    <3>3. Hinted(c, k, msg, r, b) \in Int /\ Hinted(c, k, msg, r, b) >= b
          /\ Hinted(c, k, Plain, none, b) = b
      BY <2>1, <3>1, <3>2, HintedBounds
    <3>4. QED  BY <2>1, <3>1, <3>3, CappedBounds
  <2> HIDE DEF d, h
  <2>3. CASE ~c.on \/ k = "client_error" \/ Tolerated(c, k, e.strikes[k] + 1)
    <3>1. Failed(e, c, k, msg, now, ov) = Failed(e, c, k, Plain, now, ov)
      BY <2>3 DEF Failed
    <3>2. Failed(e, c, k, Plain, now, ov).until \in Nat
      <4>1. Plain \in Messages
        BY DEF Plain, Messages
      <4>2. QED  BY <2>1, <4>1, FailedEntry DEF Entries
    <3>3. QED  BY <3>1, <3>2
  <2>4. CASE c.on /\ k # "client_error" /\ ~Tolerated(c, k, e.strikes[k] + 1)
    <3>1. /\ Failed(e, c, k, msg, now, ov) = Extended(Struck(e, k), k, now, h)
          /\ Failed(e, c, k, Plain, now, ov) = Extended(Struck(e, k), k, now, d)
      BY <2>4 DEF Failed, d, h
    <3>2. k \in CoolingKinds
      BY <2>4 DEF Kinds
    <3>3. Struck(e, k) \in Entries
      BY <2>1, <3>2, StruckEntry
    <3>4. Struck(e, k).until \in Nat
      BY <3>3 DEF Entries
    <3>5. /\ Extended(Struck(e, k), k, now, h).until \in Nat
          /\ Extended(Struck(e, k), k, now, d).until \in Nat
      BY <2>1, <2>2, <3>2, <3>3, ExtendedEntry DEF Entries
    <3>6. /\ Extended(Struck(e, k), k, now, h).until >= Struck(e, k).until
          /\ Extended(Struck(e, k), k, now, h).until >= now + h \/ h <= 0
      BY <2>1, <2>2, <3>2, <3>3, ExtendedEntry
    <3>7. \/ Extended(Struck(e, k), k, now, d) = Struck(e, k)
          \/ d > 0 /\ Extended(Struck(e, k), k, now, d).until = now + d
      BY <3>3 DEF Extended, Entries
    <3>8. QED  BY <2>1, <2>2, <3>1, <3>4, <3>5, <3>6, <3>7
  <2>5. QED  BY <2>3, <2>4, <2>1 DEF CooldownConfigs
<1>2. QED  BY TypeCorrect, <1>1, PTL

(* In every reachable table a failure that names the instant of the reset     *)
(* keeps the model out until just that instant, or until the cap (when that   *)
(* is a number a Duration can hold).                                          *)
THEOREM ResetTimeAlwaysExact == Spec => []ResetTimeExact
<1>1. TypeOK => ResetTimeExact
  <2> SUFFICES ASSUME TypeOK, NEW m \in Models, NEW msg \in Reports, NEW c \in Configs,
                      NEW ov \in Unrepresentable,
                      c.on, c.honor, c.max <= MaxDuration, ~IsHostCooldown(msg), msg.seconds = 0, msg.at > now
               PROVE  LET g == IF msg.at > now + c.max THEN now + c.max ELSE msg.at
                          f == Failed(entries[m], c, "quota", msg, now, ov)
                      IN  f.until = IF g > entries[m].until THEN g ELSE entries[m].until
    BY DEF ResetTimeExact
  <2> DEFINE e == entries[m]
             b == Backoff(c, "quota", e.strikes["quota"] + 1, ov)
             h == RetryAfter(msg, now, ov)
             d == Capped(c, Hinted(c, "quota", msg, h, b))
             g == IF msg.at > now + c.max THEN now + c.max ELSE msg.at
             f == Failed(e, c, "quota", msg, now, ov)
  <2>1. e \in Entries /\ now \in Nat /\ c.max \in Nat \ {0} /\ msg.at \in Nat
    BY ConfigsAssumption, ReportsAssumption DEF TypeOK, CooldownConfigs, Messages
  <2>2. f = Extended(Struck(e, "quota"), "quota", now, d)
    BY DEF Failed, Tolerated
  <2>3. h = msg.at - now
    <3>1. ~(msg.seconds > 0)
      OBVIOUS
    <3>2. ~(msg.at <= now)
      BY <2>1
    <3>3. QED  BY <3>1, <3>2 DEF RetryAfter
  <2>4. Hinted(c, "quota", msg, h, b) = h
    BY <2>1, <2>3 DEF Hinted
  <2>5. AsDuration(c.max) = c.max
    BY <2>1, Wrapping
  <2>6. d > 0 /\ now + d = g
    BY <2>1, <2>3, <2>4, <2>5 DEF Capped
  <2> HIDE DEF d, g
  <2>7. /\ Struck(e, "quota") \in Entries
        /\ Struck(e, "quota").until = e.until
    BY <2>1, StruckEntry DEF CoolingKinds
  <2>8. f.until = IF g > e.until THEN g ELSE e.until
    BY <2>2, <2>6, <2>7 DEF Extended, Entries
  <2>9. QED  BY <2>8 DEF g
<1>2. QED  BY TypeCorrect, <1>1, PTL

-----------------------------------------------------------------------------
(* No backoff that MaxStrikes failures can reach leaves the range of a        *)
(* Duration.  The prover takes x ^ y for an unknown, so this says, too, that a *)
(* positive base is not scaled down.                                          *)
BackoffInRange ==
  /\ MaxStrikes \in Nat
  /\ \A c \in Configs, k \in CoolingKinds, s \in 1..MaxStrikes :
       c.base[k] \in 1..MaxDuration => Scaled(c, k, s) \in 1..MaxDuration

(* A due failure with a backoff in range starts a cooldown, whatever the      *)
(* message and the earlier deadline, just when the cap is positive, and with  *)
(* any other cap it never does.                                               *)
LEMMA CapDecides ==
  ASSUME NEW e \in Entries, NEW c \in CooldownConfigs, c.on,
         NEW k \in CoolingKinds, ~Tolerated(c, k, e.strikes[k] + 1),
         NEW msg \in Messages, NEW t \in Nat, NEW ov \in Unrepresentable,
         Scaled(c, k, Effective(c, k, e.strikes[k] + 1)) \in 1..MaxDuration
  PROVE  UntilAt(Failed(e, c, k, msg, t, ov), t) # 0
           <=> UntilAt(e, t) # 0 \/ AsDuration(c.max) > 0
<1> DEFINE s == e.strikes[k] + 1
           b == Scaled(c, k, Effective(c, k, s))
           h == RetryAfter(msg, t, ov)
           n == Hinted(c, k, msg, h, b)
           d == Capped(c, n)
           f == Failed(e, c, k, msg, t, ov)
<1>1. b \in Nat \ {0} /\ b \in -(MaxDuration + 1)..MaxDuration
  BY MaxDurationAssumption
<1>2. Backoff(c, k, s, ov) = b
  BY <1>1 DEF Backoff
<1>3. f = Extended(Struck(e, k), k, t, d)
  <2>1. k # "client_error"
    BY DEF CoolingKinds
  <2>2. QED  BY <1>2, <2>1 DEF Failed
<1>4. h \in Int
  BY RetryAfterInt
<1>5. PICK x \in Int : x = AsDuration(c.max)
  BY Wrapping DEF CooldownConfigs
<1> HIDE DEF b, h
<1>6. n \in Nat \ {0}
  BY <1>1, <1>4 DEF Hinted
<1> HIDE DEF n
<1>7. d \in Int /\ (d > 0 <=> x > 0)
  BY <1>5, <1>6 DEF Capped
<1> HIDE DEF d
<1>8. Struck(e, k) \in Entries /\ Struck(e, k).until = e.until
  BY StruckEntry
<1>9. e.until \in Nat /\ f.until \in Nat
  BY <1>3, <1>7, <1>8, ExtendedEntry DEF Entries
<1>10. CASE x > 0
  <2>1. f.until >= t + d
    BY <1>3, <1>7, <1>8, <1>10, ExtendedEntry
  <2>2. f.until > t
    BY <1>7, <1>9, <1>10, <2>1
  <2>3. QED  BY <1>5, <1>10, <2>2 DEF UntilAt
<1>11. CASE ~(x > 0)
  <2>1. f = Struck(e, k)
    BY <1>3, <1>7, <1>11 DEF Extended
  <2>2. QED  BY <1>5, <1>8, <1>11, <2>1 DEF UntilAt
<1>12. QED  BY <1>10, <1>11

(* Whatever an operator writes, a due failure whose backoff is in range cools *)
(* its model just when the max_seconds that normalize leaves is positive once *)
(* converted to a Duration (or the model was cooling already): a max_seconds  *)
(* beyond the range may switch cooldowns off, zero and negative ones do not.  *)
THEOREM WrittenCapDecides ==
  ASSUME NEW w \in Settings, w.on, NEW e \in Entries,
         NEW k \in CoolingKinds, ~Tolerated(Clamped(w), k, e.strikes[k] + 1),
         NEW msg \in Messages, NEW t \in Nat, NEW ov \in Unrepresentable,
         Scaled(Clamped(w), k, Effective(Clamped(w), k, e.strikes[k] + 1)) \in 1..MaxDuration,
         MaxDuration >= 6 * 3600
  PROVE  /\ UntilAt(Failed(e, Clamped(w), k, msg, t, ov), t) # 0
              <=> UntilAt(e, t) # 0 \/ AsDuration(Clamped(w).max) > 0
         /\ w.max <= MaxDuration
              => UntilAt(Failed(e, Clamped(w), k, msg, t, ov), t) # 0
<1>1. PICK c \in CooldownConfigs : c = Clamped(w)
  BY ClampedUsable
<1>2. c.on /\ c.max = IF w.max <= 0 THEN 6 * 3600 ELSE w.max
  BY <1>1 DEF Clamped
<1>3. UntilAt(Failed(e, c, k, msg, t, ov), t) # 0
        <=> UntilAt(e, t) # 0 \/ AsDuration(c.max) > 0
  BY <1>1, <1>2, CapDecides
<1>4. ASSUME w.max <= MaxDuration PROVE AsDuration(c.max) > 0
  <2>1. w.max \in Int /\ MaxDuration \in Nat
    BY MaxDurationAssumption DEF Settings
  <2>2. c.max \in Nat \ {0} /\ c.max <= MaxDuration
    BY <1>2, <1>4, <2>1
  <2>3. AsDuration(c.max) = c.max
    BY <2>2, Wrapping
  <2>4. QED  BY <2>2, <2>3
<1>5. QED  BY <1>1, <1>3, <1>4

(* While backoffs stay in range, no recorded failure that its caller's        *)
(* configuration punishes leaves its model without a cooldown, in whatever    *)
(* order failures, successes, resets and reloads come.                        *)
THEOREM AlwaysCools ==
  ASSUME BackoffInRange
  PROVE  Spec => FailureCools
<1> DEFINE Cools ==
      \A m \in Models, k \in CoolingKinds :
        /\ entries'[m].strikes[k] > entries[m].strikes[k]
        /\ UntilAt(entries'[m], now) = 0
        => \A msg \in Reports, c \in Configs, ov \in Unrepresentable :
             RecordFailure(m, k, msg, c, ov) => ~Punished(c, k, entries'[m].strikes[k])
<1>1. TypeOK /\ [Next]_vars => [Cools]_vars
  <2> SUFFICES ASSUME TypeOK,
                      NEW m \in Models, NEW k \in CoolingKinds, NEW msg \in Reports,
                      NEW c \in Configs, NEW ov \in Unrepresentable,
                      RecordFailure(m, k, msg, c, ov),
                      Punished(c, k, entries'[m].strikes[k])
               PROVE  UntilAt(entries'[m], now) # 0
    OBVIOUS
  <2> DEFINE e == entries[m]
             s == e.strikes[k] + 1
  <2>1. /\ e \in Entries /\ e.strikes[k] \in Nat /\ now \in Nat
        /\ entries \in [Models -> Entries]
    BY DEF TypeOK, Entries
  <2>2. c \in CooldownConfigs /\ msg \in Messages
    BY ConfigsAssumption, ReportsAssumption
  <2>3. /\ entries'[m] = Failed(e, c, k, msg, now, ov)
        /\ e.strikes[k] < MaxStrikes
    BY <2>1 DEF RecordFailure
  <2>4. c.on /\ k # "client_error"
    BY DEF Punished, CoolingKinds
  <2>5. entries'[m].strikes[k] = s
    BY <2>1, <2>3, <2>4, StruckEntry DEF Failed, Extended, Entries
  <2>6. ~Tolerated(c, k, s)
    BY <2>1, <2>2, <2>5 DEF Tolerated, Punished, CooldownConfigs
  <2>7. Effective(c, k, s) \in 1..MaxStrikes
    BY <2>1, <2>2, <2>3, <2>5 DEF Effective, Punished, CooldownConfigs, BackoffInRange
  <2>8. Scaled(c, k, Effective(c, k, s)) \in 1..MaxDuration
    BY <2>7 DEF BackoffInRange, Punished
  <2>9. AsDuration(c.max) > 0
    <3>1. c.max \in Nat \ {0} /\ c.max <= MaxDuration
      BY <2>2 DEF Punished, CooldownConfigs
    <3>2. AsDuration(c.max) = c.max
      BY <3>1, Wrapping
    <3>3. QED  BY <3>1, <3>2
  <2>10. QED  BY <2>1, <2>2, <2>3, <2>4, <2>6, <2>8, <2>9, CapDecides
<1>2. QED  BY TypeCorrect, <1>1, PTL DEF Spec, FailureCools
=============================================================================
