---------------------------- MODULE MonitorProofs ----------------------------
(* Theorems about the passive monitor, for any usage records, names and       *)
(* limits: its counts are sums over all the answers an entry has seen,        *)
(* although it forgets entries and served names on the way.                   *)
EXTENDS Monitor, Sums

-----------------------------------------------------------------------------
(* Counts of some of the members of S.                                        *)
Counts(S) == UNION {[T -> Nat \ {0}] : T \in {U \in SUBSET S : IsFiniteSet(U)}}

Entries ==
  [requests : Nat, failed : Nat, reported : Nat, mismatches : Nat,
   served : Counts(ServedNames), lastSeen : Nat]

Answers == Usages \X ServedNames

(* The answers Record takes for substitutions.                                *)
Judged(x) == Check(Accept(x[1]), x[2]) = "mismatch"

(* What entry e says of the answers f, counted by usage and served name.      *)
Honest(e, f) ==
  /\ e.reported = SumOver(f, DOMAIN f)
  /\ e.mismatches = SumOver(f, {x \in DOMAIN f : Judged(x)})
  /\ e.reported + e.failed <= e.requests
  /\ \A s \in DOMAIN e.served : e.served[s] <= SumOver(f, {x \in DOMAIN f : x[2] = s})

EntryFits(e, f, time) ==
  /\ e \in Entries /\ f \in Counts(Answers)
  /\ e.requests <= MaxRequests /\ e.lastSeen <= time
  /\ Cardinality(DOMAIN e.served) <= MaxServedModels
  /\ Honest(e, f)

(* The inductive invariant.                                                   *)
IInv ==
  /\ now \in 0..MaxTime
  /\ DOMAIN models \subseteq Names /\ IsFiniteSet(DOMAIN models)
  /\ Cardinality(DOMAIN models) <= MaxModels
  /\ DOMAIN truth = DOMAIN models
  /\ \A n \in DOMAIN models : /\ EntryFits(models[n], truth[n], now)
                              /\ models[n].requests >= 1

-----------------------------------------------------------------------------
LEMMA CountsAre ==
  ASSUME NEW S, NEW c
  PROVE  c \in Counts(S) <=> /\ c = [x \in DOMAIN c |-> c[x]]
                             /\ DOMAIN c \subseteq S /\ IsFiniteSet(DOMAIN c)
                             /\ \A x \in DOMAIN c : c[x] \in Nat \ {0}
<1>1. c \in Counts(S) <=> \E T \in SUBSET S : IsFiniteSet(T) /\ c \in [T -> Nat \ {0}]
  BY DEF Counts
<1> QED
  BY <1>1

LEMMA PutCounts ==
  ASSUME NEW S, NEW c \in Counts(S), NEW x \in S, NEW v \in Nat \ {0}
  PROVE  Put(c, x, v) \in Counts(S)
<1> DEFINE d == Put(c, x, v)
<1>1. DOMAIN c \subseteq S /\ IsFiniteSet(DOMAIN c) /\ \A y \in DOMAIN c : c[y] \in Nat \ {0}
  BY CountsAre
<1>2. /\ DOMAIN d = DOMAIN c \cup {x} /\ d[x] = v
      /\ \A y \in DOMAIN c : y # x => d[y] = c[y]
      /\ d = [y \in DOMAIN d |-> d[y]]
  BY DEF Put
<1> HIDE DEF d
<1>3. IsFiniteSet(DOMAIN d)
  BY <1>1, <1>2, FS_AddElement
<1>4. d \in Counts(S)
  BY <1>1, <1>2, <1>3, CountsAre
<1> QED
  BY <1>4 DEF d

LEMMA CountMore ==
  ASSUME NEW S, NEW c \in Counts(S), NEW x \in S
  PROVE  /\ CountIn(c, x) \in Nat /\ CountIn(c, x) + 1 \in Nat \ {0}
         /\ Put(c, x, CountIn(c, x) + 1) \in Counts(S)
<1>1. CountIn(c, x) \in Nat
  BY CountsAre DEF CountIn
<1>2. CountIn(c, x) + 1 \in Nat \ {0}
  BY <1>1
<1> QED
  BY <1>1, <1>2, PutCounts

LEMMA RestrictCounts ==
  ASSUME NEW S, NEW c \in Counts(S), NEW T \in SUBSET DOMAIN c
  PROVE  Restrict(c, T) \in Counts(S)
<1> DEFINE d == Restrict(c, T)
<1>1. DOMAIN c \subseteq S /\ IsFiniteSet(DOMAIN c) /\ \A y \in DOMAIN c : c[y] \in Nat \ {0}
  BY CountsAre
<1>2. DOMAIN d = T /\ (\A y \in T : d[y] = c[y]) /\ d = [y \in DOMAIN d |-> d[y]]
  BY DEF Restrict
<1>3. IsFiniteSet(T)
  BY <1>1, FS_Subset
<1> HIDE DEF d
<1>4. d \in Counts(S)
  BY <1>1, <1>2, <1>3, CountsAre
<1> QED
  BY <1>4 DEF d

(* One answer more: the sums it belongs to grow by one.                       *)
LEMMA OneMore ==
  ASSUME NEW A, NEW f \in Counts(A), NEW x \in A, NEW g, g = Put(f, x, CountIn(f, x) + 1),
         NEW S \in SUBSET DOMAIN f, NEW T \in SUBSET DOMAIN g,
         T \ {x} = S \ {x}, x \in S <=> (x \in T /\ x \in DOMAIN f)
  PROVE  SumOver(g, T) = IF x \in T THEN SumOver(f, S) + 1 ELSE SumOver(f, S)
<1> DEFINE R == S \ {x}
<1>1. /\ IsFiniteSet(DOMAIN f) /\ \A y \in DOMAIN f : f[y] \in Int
  BY CountsAre
<1>2. /\ DOMAIN g = DOMAIN f \cup {x} /\ g[x] = CountIn(f, x) + 1
      /\ \A y \in DOMAIN f : y # x => g[y] = f[y]
  BY DEF Put
<1>3. IsFiniteSet(DOMAIN g) /\ \A y \in DOMAIN g : g[y] \in Int
  <2>1. g \in Counts(A)
    BY CountMore
  <2> QED
    BY <2>1, CountsAre
<1>4. IsFiniteSet(S) /\ IsFiniteSet(T) /\ IsFiniteSet(R)
  BY <1>1, <1>3, FS_Subset
<1>5. SumOver(g, R) = SumOver(f, R) /\ SumOver(f, R) \in Int
  <2>1. \A y \in R : f[y] \in Int /\ g[y] = f[y]
    BY <1>1, <1>2
  <2> HIDE DEF R
  <2> QED
    BY <1>4, <2>1, SumSame, SumGrows
<1>6. CASE x \notin T
  BY <1>5, <1>6
<1>7. CASE x \in T
  <2>1. \A y \in T : g[y] \in Int
    BY <1>3
  <2>2. SumOver(g, T) = g[x] + SumOver(g, T \ {x})
    BY <1>4, <1>7, <2>1, SumGrows
  <2>3. SumOver(g, T) = CountIn(f, x) + 1 + SumOver(f, R)
    BY <1>2, <1>5, <2>2
  <2>4. SumOver(f, S) = CountIn(f, x) + SumOver(f, R) /\ CountIn(f, x) \in Int
    <3>1. CASE x \in DOMAIN f
      <4>0. CountIn(f, x) = f[x] /\ f[x] \in Int
        BY <1>1, <3>1 DEF CountIn
      <4>1. x \in S /\ \A y \in S : f[y] \in Int
        BY <1>1, <1>7, <3>1
      <4>2. SumOver(f, S) = f[x] + SumOver(f, S \ {x})
        BY <1>4, <4>1, SumGrows
      <4> QED
        BY <4>0, <4>2
    <3>2. CASE x \notin DOMAIN f
      <4>1. R = S /\ CountIn(f, x) = 0
        BY <3>2 DEF CountIn
      <4>2. SumOver(f, S) = SumOver(f, R)
        BY <4>1
      <4> QED
        BY <1>5, <4>1, <4>2
    <3> QED
      BY <3>1, <3>2
  <2> HIDE DEF R
  <2> QED
    BY <1>5, <1>7, <2>3, <2>4
<1> QED
  BY <1>6, <1>7

-----------------------------------------------------------------------------
LEMMA NoneCounted ==
  ASSUME NEW S
  PROVE  NoCounts \in Counts(S) /\ DOMAIN NoCounts = {}
<1>1. DOMAIN NoCounts = {}
  BY DEF NoCounts
<1>2. NoCounts = [x \in DOMAIN NoCounts |-> NoCounts[x]]
  BY DEF NoCounts
<1>3. IsFiniteSet({})
  BY FS_EmptySet
<1> QED
  BY <1>1, <1>2, <1>3, CountsAre

LEMMA LimitsAreNumbers ==
  MaxModels \in Nat \ {0} /\ MaxServedModels \in Nat \ {0} /\ MaxTime \in Nat /\ MaxRequests \in Nat
BY MonitorAssumption

LEMMA FreshFits ==
  ASSUME NEW time \in Nat
  PROVE  EntryFits(Fresh, NoCounts, time)
<1>1. NoCounts \in Counts(ServedNames) /\ NoCounts \in Counts(Answers) /\ DOMAIN NoCounts = {}
  BY NoneCounted
<1>2. Fresh \in Entries
  BY <1>1 DEF Fresh, Entries
<1>3. Cardinality({}) = 0 /\ IsFiniteSet({}) /\ SumOver(NoCounts, {}) = 0
  <2>1. IsFiniteSet({}) /\ Cardinality({}) = 0
    BY FS_EmptySet
  <2>2. SumOver(NoCounts, {}) = 0
    BY <2>1, SumGrows
  <2> QED
    BY <2>1, <2>2
<1>4. /\ Fresh.requests = 0 /\ Fresh.failed = 0 /\ Fresh.reported = 0 /\ Fresh.mismatches = 0
      /\ Fresh.served = NoCounts /\ Fresh.lastSeen = 0
  BY DEF Fresh
<1>5. {x \in DOMAIN NoCounts : Judged(x)} = {}
  BY <1>1
<1>6. Honest(Fresh, NoCounts)
  BY <1>1, <1>3, <1>4, <1>5 DEF Honest
<1> QED
  BY <1>1, <1>2, <1>3, <1>4, <1>6, LimitsAreNumbers DEF EntryFits

(* addServed keeps its limit, and counts nothing twice.                       *)
LEMMA ServedFits ==
  ASSUME NEW c \in Counts(ServedNames), Cardinality(DOMAIN c) <= MaxServedModels,
         NEW s \in ServedNames, NEW d \in ServedCounts(c, s)
  PROVE  /\ d \in Counts(ServedNames) /\ Cardinality(DOMAIN d) <= MaxServedModels
         /\ \A r \in DOMAIN d : IF r = s THEN d[r] <= CountIn(c, s) + 1
                                ELSE r \in DOMAIN c /\ d[r] = c[r]
<1>1. IsFiniteSet(DOMAIN c) /\ Cardinality(DOMAIN c) \in Nat /\ MaxServedModels \in Nat
      /\ CountIn(c, s) \in Nat
  BY CountsAre, FS_CardinalityType, CountMore, LimitsAreNumbers
<1>2. CASE s \in DOMAIN c \/ Cardinality(DOMAIN c) < MaxServedModels
  <2>1. d = Put(c, s, CountIn(c, s) + 1)
    BY <1>2 DEF ServedCounts
  <2>2. d \in Counts(ServedNames)
    BY <2>1, CountMore
  <2>3. DOMAIN d = DOMAIN c \cup {s} /\ d[s] = CountIn(c, s) + 1
        /\ \A r \in DOMAIN c : r # s => d[r] = c[r]
    BY <2>1 DEF Put
  <2>4. Cardinality(DOMAIN c \cup {s}) =
          IF s \in DOMAIN c THEN Cardinality(DOMAIN c) ELSE Cardinality(DOMAIN c) + 1
    BY <1>1, FS_AddElement
  <2>5. Cardinality(DOMAIN d) <= MaxServedModels
    BY <1>1, <1>2, <2>3, <2>4
  <2> QED
    BY <1>1, <2>2, <2>3, <2>5
<1>3. CASE ~(s \in DOMAIN c \/ Cardinality(DOMAIN c) < MaxServedModels)
  <2>1. PICK v \in DOMAIN c : d = Put(Restrict(c, DOMAIN c \ {v}), s, 1)
    BY <1>3 DEF ServedCounts
  <2> DEFINE b == Restrict(c, DOMAIN c \ {v})
  <2>2. b \in Counts(ServedNames)
    BY RestrictCounts
  <2>3. DOMAIN b = DOMAIN c \ {v} /\ \A r \in DOMAIN b : b[r] = c[r]
    BY DEF Restrict
  <2>4. d = Put(b, s, 1)
    BY <2>1
  <2> HIDE DEF b
  <2>5. d \in Counts(ServedNames)
    BY <2>2, <2>4, PutCounts
  <2>6. DOMAIN d = (DOMAIN c \ {v}) \cup {s} /\ d[s] = 1
        /\ \A r \in DOMAIN d : r # s => r \in DOMAIN c /\ d[r] = c[r]
    BY <2>3, <2>4 DEF Put
  <2>7. IsFiniteSet(DOMAIN c \ {v}) /\ Cardinality(DOMAIN c \ {v}) = Cardinality(DOMAIN c) - 1
    BY <1>1, FS_RemoveElement
  <2>8. Cardinality((DOMAIN c \ {v}) \cup {s}) = Cardinality(DOMAIN c \ {v}) + 1
    BY <1>3, <2>7, FS_AddElement
  <2>9. Cardinality(DOMAIN d) <= MaxServedModels
    BY <1>1, <2>6, <2>7, <2>8
  <2> QED
    BY <1>1, <2>5, <2>6, <2>9
<1> QED
  BY <1>2, <1>3

(* Each kind of record leaves an entry that fits.                             *)
AfterSilent(e, t, failed) ==
  [[e EXCEPT !.requests = @ + 1, !.lastSeen = t] EXCEPT !.failed = IF failed THEN @ + 1 ELSE @]

AfterAnswer(e, t, u, s, counts) ==
  [[e EXCEPT !.requests = @ + 1, !.lastSeen = t]
     EXCEPT !.reported = @ + 1, !.served = counts, !.mismatches = Mismatches(e, u, s)]

LEMMA SilentFits ==
  ASSUME NEW time \in Nat, NEW e, NEW f, EntryFits(e, f, time), e.requests < MaxRequests,
         NEW t \in 0..time, NEW failed \in BOOLEAN, NEW d,
         d = AfterSilent(e, t, failed)
  PROVE  EntryFits(d, f, time) /\ d.requests >= 1
<1>1. e \in Entries /\ e.requests \in Nat /\ e.failed \in Nat /\ e.reported \in Nat
  BY DEF EntryFits, Entries
<1>2. /\ d.requests = e.requests + 1 /\ d.lastSeen = t /\ d.reported = e.reported
      /\ d.failed = (IF failed THEN e.failed + 1 ELSE e.failed)
      /\ d.mismatches = e.mismatches /\ d.served = e.served
  BY <1>1 DEF AfterSilent, Entries
<1>3. d \in Entries
  <2>1. e.requests + 1 \in Nat /\ t \in Nat /\ (IF failed THEN e.failed + 1 ELSE e.failed) \in Nat
    BY <1>1
  <2> QED
    BY <1>1, <2>1 DEF AfterSilent, Entries
<1>4. Honest(d, f)
  <2>1. Honest(e, f)
    BY DEF EntryFits
  <2>2. d.reported + d.failed <= d.requests
    BY <1>1, <1>2, <2>1 DEF Honest
  <2> QED
    BY <1>2, <2>1, <2>2 DEF Honest
<1>5. d.requests <= MaxRequests /\ d.lastSeen <= time
  BY <1>1, <1>2, LimitsAreNumbers
<1>6. d.requests >= 1
  BY <1>1, <1>2
<1> QED
  BY <1>2, <1>3, <1>4, <1>5, <1>6 DEF EntryFits

LEMMA AnsweredFits ==
  ASSUME NEW time \in Nat, NEW e, NEW f, EntryFits(e, f, time), e.requests < MaxRequests,
         NEW t \in 0..time, NEW u \in Usages, NEW s \in ServedNames,
         NEW counts \in ServedCounts(e.served, s), NEW d, NEW g,
         d = AfterAnswer(e, t, u, s, counts),
         g = Put(f, <<u, s>>, CountIn(f, <<u, s>>) + 1)
  PROVE  EntryFits(d, g, time) /\ d.requests >= 1
<1> DEFINE x == <<u, s>>
<1>1. e \in Entries /\ e.requests \in Nat /\ e.failed \in Nat /\ e.reported \in Nat
      /\ e.mismatches \in Nat
  BY DEF EntryFits, Entries
<1>2. e.served \in Counts(ServedNames) /\ Cardinality(DOMAIN e.served) <= MaxServedModels
  BY <1>1 DEF EntryFits, Entries
<1>3. f \in Counts(Answers) /\ Honest(e, f)
  BY DEF EntryFits
<1>4. x \in Answers
  BY DEF Answers
<1>5. g \in Counts(Answers)
  BY <1>3, <1>4, CountMore
<1>6. DOMAIN g = DOMAIN f \cup {x}
  BY DEF Put
<1>7. /\ d.requests = e.requests + 1 /\ d.lastSeen = t /\ d.reported = e.reported + 1
      /\ d.failed = e.failed /\ d.mismatches = Mismatches(e, u, s) /\ d.served = counts
  BY <1>1 DEF AfterAnswer, Entries
<1>8. /\ counts \in Counts(ServedNames) /\ Cardinality(DOMAIN counts) <= MaxServedModels
  BY <1>2, ServedFits
<1>9. \A r \in DOMAIN counts : IF r = s THEN counts[r] <= CountIn(e.served, s) + 1
                               ELSE r \in DOMAIN e.served /\ counts[r] = e.served[r]
  BY <1>2, ServedFits
<1>10. d \in Entries
  <2>1. e.requests + 1 \in Nat /\ t \in Nat /\ e.reported + 1 \in Nat /\ Mismatches(e, u, s) \in Nat
    BY <1>1 DEF Mismatches
  <2> QED
    BY <1>1, <1>8, <2>1 DEF AfterAnswer, Entries
<1> HIDE DEF x
<1>11. g = Put(f, x, CountIn(f, x) + 1)
  BY DEF x
<1>12. ASSUME NEW S \in SUBSET DOMAIN f, NEW T \in SUBSET DOMAIN g,
              T \ {x} = S \ {x}, x \in S <=> (x \in T /\ x \in DOMAIN f)
       PROVE  SumOver(g, T) = IF x \in T THEN SumOver(f, S) + 1 ELSE SumOver(f, S)
  BY <1>3, <1>4, <1>11, <1>12, OneMore
<1>13. d.reported = SumOver(g, DOMAIN g)
  <2>1. SumOver(g, DOMAIN g) = SumOver(f, DOMAIN f) + 1
    <3>1. x \in DOMAIN g /\ DOMAIN g \ {x} = DOMAIN f \ {x}
      BY <1>6
    <3> QED
      BY <1>12, <3>1
  <2> QED
    BY <1>3, <1>7, <2>1 DEF Honest
<1>14. d.mismatches = SumOver(g, {y \in DOMAIN g : Judged(y)})
  <2> DEFINE T == {y \in DOMAIN g : Judged(y)}
             S == {y \in DOMAIN f : Judged(y)}
  <2>1. T \ {x} = S \ {x} /\ (x \in S <=> (x \in T /\ x \in DOMAIN f)) /\ (x \in T <=> Judged(x))
    BY <1>6
  <2>2. T \in SUBSET DOMAIN g /\ S \in SUBSET DOMAIN f
    OBVIOUS
  <2>3. e.mismatches = SumOver(f, S)
    BY <1>3 DEF Honest
  <2> HIDE DEF S, T
  <2>4. SumOver(g, T) = IF x \in T THEN SumOver(f, S) + 1 ELSE SumOver(f, S)
    BY <1>12, <2>1, <2>2
  <2>5. Judged(x) <=> Check(Accept(u), s) = "mismatch"
    BY DEF Judged, x
  <2>6. SumOver(g, T) = d.mismatches
    BY <1>7, <2>1, <2>3, <2>4, <2>5 DEF Mismatches
  <2> QED
    BY <2>6 DEF T
<1>15. ASSUME NEW r \in DOMAIN d.served
       PROVE  d.served[r] <= SumOver(g, {y \in DOMAIN g : y[2] = r})
  <2> DEFINE T == {y \in DOMAIN g : y[2] = r}
             S == {y \in DOMAIN f : y[2] = r}
  <2>1. T \ {x} = S \ {x} /\ (x \in S <=> (x \in T /\ x \in DOMAIN f)) /\ (x \in T <=> r = s)
    BY <1>6 DEF x
  <2>2. T \in SUBSET DOMAIN g /\ S \in SUBSET DOMAIN f
    OBVIOUS
  <2>3. r \in DOMAIN e.served => e.served[r] <= SumOver(f, S)
    BY <1>3 DEF Honest
  <2> HIDE DEF S, T
  <2>4. SumOver(g, T) = IF x \in T THEN SumOver(f, S) + 1 ELSE SumOver(f, S)
    BY <1>12, <2>1, <2>2
  <2>5. SumOver(f, S) \in Nat
    <3>1. IsFiniteSet(DOMAIN f) /\ \A y \in DOMAIN f : f[y] \in Nat
      BY <1>3, CountsAre
    <3>2. IsFiniteSet(S) /\ \A y \in S : f[y] \in Nat
      BY <2>2, <3>1, FS_Subset
    <3> QED
      BY <3>2, SumOfNats
  <2>6. d.served[r] <= SumOver(g, T)
    <3>1. CASE r = s
      <4>1. counts[r] <= CountIn(e.served, s) + 1 /\ SumOver(g, T) = SumOver(f, S) + 1
        BY <1>7, <1>9, <1>15, <2>1, <2>4, <3>1
      <4>2. CountIn(e.served, s) <= SumOver(f, S) /\ CountIn(e.served, s) \in Nat
        <5>1. CountIn(e.served, s) \in Nat
          BY <1>2, CountMore
        <5> QED
          BY <2>3, <2>5, <3>1, <5>1 DEF CountIn
      <4>3. counts[r] \in Nat
        BY <1>7, <1>8, <1>15, CountsAre
      <4> QED
        BY <1>7, <2>5, <4>1, <4>2, <4>3
    <3>2. CASE r # s
      BY <1>7, <1>9, <1>15, <2>1, <2>3, <2>4, <3>2
    <3> QED
      BY <3>1, <3>2
  <2> QED
    BY <2>6 DEF T
<1>16. d.reported + d.failed <= d.requests
  BY <1>1, <1>3, <1>7 DEF Honest
<1>17. Honest(d, g)
  BY <1>13, <1>14, <1>15, <1>16 DEF Honest
<1>18. d.requests <= MaxRequests /\ d.lastSeen <= time /\ d.requests >= 1
  BY <1>1, <1>7, LimitsAreNumbers
<1> QED
  BY <1>5, <1>7, <1>8, <1>10, <1>17, <1>18 DEF EntryFits

-----------------------------------------------------------------------------
(* evictOldest makes room for the new entry.                                  *)
LEMMA RoomForOne ==
  ASSUME IInv, NEW name, NEW kept \in Evictions(name)
  PROVE  /\ kept \subseteq DOMAIN models /\ IsFiniteSet(kept \cup {name})
         /\ Cardinality(kept \cup {name}) <= MaxModels
<1>1. IsFiniteSet(DOMAIN models) /\ Cardinality(DOMAIN models) <= MaxModels
      /\ Cardinality(DOMAIN models) \in Nat /\ MaxModels \in Nat
  BY FS_CardinalityType, LimitsAreNumbers DEF IInv
<1>2. CASE name \in DOMAIN models \/ Cardinality(DOMAIN models) < MaxModels
  <2>1. kept = DOMAIN models
    BY <1>2 DEF Evictions
  <2>2. IsFiniteSet(DOMAIN models \cup {name}) /\ Cardinality(DOMAIN models \cup {name}) =
          IF name \in DOMAIN models THEN Cardinality(DOMAIN models)
          ELSE Cardinality(DOMAIN models) + 1
    BY <1>1, FS_AddElement
  <2> QED
    BY <1>1, <1>2, <2>1, <2>2
<1>3. CASE ~(name \in DOMAIN models \/ Cardinality(DOMAIN models) < MaxModels)
  <2>1. PICK v \in DOMAIN models : kept = DOMAIN models \ {v}
    BY <1>3 DEF Evictions
  <2>2. IsFiniteSet(kept) /\ Cardinality(kept) = Cardinality(DOMAIN models) - 1
    BY <1>1, <2>1, FS_RemoveElement
  <2>3. IsFiniteSet(kept \cup {name}) /\ Cardinality(kept \cup {name}) = Cardinality(kept) + 1
    BY <1>3, <2>1, <2>2, FS_AddElement
  <2> QED
    BY <1>1, <2>1, <2>2, <2>3
<1> QED
  BY <1>2, <1>3

(* What Record starts from fits, also for a name without an entry.            *)
LEMMA BeforeFits ==
  ASSUME IInv, NEW name, NEW f,
         f = IF name \in DOMAIN truth THEN truth[name] ELSE NoCounts
  PROVE  now \in Nat /\ EntryFits(Entry(name), f, now)
<1>1. now \in Nat /\ DOMAIN truth = DOMAIN models
  BY LimitsAreNumbers DEF IInv
<1>2. CASE name \in DOMAIN models
  BY <1>1, <1>2 DEF IInv, Entry
<1>3. CASE name \notin DOMAIN models
  BY <1>1, <1>3, FreshFits DEF Entry
<1> QED
  BY <1>1, <1>2, <1>3

(* An entry put where there is room, with the answers it stands for.          *)
LEMMA Stored ==
  ASSUME IInv, NEW name \in Names, NEW kept \in Evictions(name), NEW e, NEW f,
         EntryFits(e, f, now), e.requests >= 1,
         models' = Put(Restrict(models, kept), name, e),
         truth' = Put(Restrict(truth, kept), name, f), now' = now
  PROVE  IInv'
<1>1. kept \subseteq DOMAIN models /\ IsFiniteSet(kept \cup {name})
      /\ Cardinality(kept \cup {name}) <= MaxModels
  BY RoomForOne
<1>2. DOMAIN truth = DOMAIN models /\ DOMAIN models \subseteq Names
  BY DEF IInv
<1>3. DOMAIN models' = kept \cup {name} /\ DOMAIN truth' = kept \cup {name}
  BY DEF Put, Restrict
<1>4. ASSUME NEW n \in kept \cup {name}
      PROVE  EntryFits(models'[n], truth'[n], now) /\ models'[n].requests >= 1
  <2>1. CASE n = name
    <3>1. models'[n] = e /\ truth'[n] = f
      BY <2>1 DEF Put
    <3> QED
      BY <3>1
  <2>2. CASE n # name
    <3>1. models'[n] = models[n] /\ truth'[n] = truth[n] /\ n \in DOMAIN models
      BY <1>1, <1>4, <2>2 DEF Put, Restrict
    <3> QED
      BY <3>1 DEF IInv
  <2> QED
    BY <2>1, <2>2
<1>5. (\A n \in DOMAIN models : EntryFits(models[n], truth[n], now) /\ models[n].requests >= 1)'
  BY <1>3, <1>4
<1> QED
  BY <1>1, <1>2, <1>3, <1>5 DEF IInv

LEMMA NamesGiven == \A u \in Usages : RequestName(u) \in Names
BY DEF Names

(* Time passes: what was seen is not later.                                   *)
LEMMA LaterFits ==
  ASSUME NEW time \in Nat, NEW e, NEW f, EntryFits(e, f, time)
  PROVE  EntryFits(e, f, time + 1)
<1>1. e.lastSeen \in Nat
  BY DEF EntryFits, Entries
<1> QED
  BY <1>1 DEF EntryFits

(* The counts of every entry are sums over the answers it has seen, in every  *)
(* reachable state, whatever was evicted or dropped (Record, addServed,       *)
(* evictOldest, Reset): the inductive invariant of the monitor.               *)
THEOREM Invariance == Spec => []IInv
<1>1. ASSUME models = [n \in {} |-> Fresh], truth = [n \in {} |-> NoCounts], now \in 0..MaxTime
      PROVE  IInv
  <2>1. DOMAIN models = {} /\ DOMAIN truth = {}
    BY <1>1
  <2>2. IsFiniteSet({}) /\ Cardinality({}) = 0
    BY FS_EmptySet
  <2> QED
    BY <1>1, <2>1, <2>2, LimitsAreNumbers DEF IInv
<1>2. Init => IInv
  BY <1>1, LimitsAreNumbers DEF Init
<1>3. IInv /\ [Next]_vars => IInv'
  <2> SUFFICES ASSUME IInv, [Next]_vars  PROVE IInv'
    OBVIOUS
  <2>1. ASSUME NEW u \in Usages, NEW t \in 0..now, NEW failed \in BOOLEAN,
               RecordSilent(RequestName(u), failed, t)
        PROVE  IInv'
    <3> DEFINE name == RequestName(u)
               f == IF name \in DOMAIN truth THEN truth[name] ELSE NoCounts
               d == [Seen(name, t) EXCEPT !.failed = IF failed THEN @ + 1 ELSE @]
    <3>1. name \in Names
      BY NamesGiven
    <3> HIDE DEF name
    <3>2. PICK kept \in Evictions(name) :
            /\ models' = Put(Restrict(models, kept), name, d)
            /\ truth' = Put(Restrict(truth, kept), name, f)
      BY <2>1 DEF RecordSilent, name
    <3>3. Entry(name).requests < MaxRequests /\ now' = now
      BY <2>1 DEF RecordSilent, name
    <3>4. now \in Nat /\ EntryFits(Entry(name), f, now)
      BY BeforeFits
    <3>5. d = AfterSilent(Entry(name), t, failed)
      BY DEF Seen, AfterSilent
    <3> HIDE DEF d, f
    <3>6. EntryFits(d, f, now) /\ d.requests >= 1
      <4>1. PICK e : e = Entry(name)
        OBVIOUS
      <4>2. /\ EntryFits(e, f, now) /\ e.requests < MaxRequests
            /\ d = AfterSilent(e, t, failed)
        BY <3>3, <3>4, <3>5, <4>1
      <4> QED
        BY <3>4, <4>2, SilentFits
    <3> QED
      BY <3>1, <3>2, <3>3, <3>6, Stored
  <2>2. ASSUME NEW u \in Usages, NEW t \in 0..now, NEW s \in ServedNames, RecordServed(u, s, t)
        PROVE  IInv'
    <3> DEFINE name == RequestName(u)
               f == IF name \in DOMAIN truth THEN truth[name] ELSE NoCounts
               g == Put(f, <<u, s>>, CountIn(f, <<u, s>>) + 1)
               d(counts) == [Seen(name, t) EXCEPT !.reported = @ + 1, !.served = counts,
                                                  !.mismatches = Mismatches(Entry(name), u, s)]
    <3>1. name \in Names
      BY NamesGiven
    <3>2. PICK kept \in Evictions(name), counts \in ServedCounts(Entry(name).served, s) :
            /\ models' = Put(Restrict(models, kept), name, d(counts))
            /\ truth' = Put(Restrict(truth, kept), name, g)
      BY <2>2 DEF RecordServed
    <3>3. Entry(name).requests < MaxRequests /\ now' = now
      BY <2>2 DEF RecordServed
    <3> HIDE DEF name
    <3>4. now \in Nat /\ EntryFits(Entry(name), f, now)
      BY BeforeFits
    <3>5. d(counts) = AfterAnswer(Entry(name), t, u, s, counts)
      BY DEF Seen, AfterAnswer
    <3> HIDE DEF d, f
    <3>6. EntryFits(d(counts), g, now) /\ d(counts).requests >= 1
      <4>1. PICK e, c : e = Entry(name) /\ c = d(counts)
        OBVIOUS
      <4>2. /\ EntryFits(e, f, now) /\ e.requests < MaxRequests
            /\ counts \in ServedCounts(e.served, s)
            /\ c = AfterAnswer(e, t, u, s, counts)
        BY <3>2, <3>3, <3>4, <3>5, <4>1
      <4>3. EntryFits(c, g, now) /\ c.requests >= 1
        BY <3>4, <4>2, AnsweredFits
      <4> QED
        BY <4>1, <4>3
    <3> HIDE DEF g
    <3> QED
      BY <3>1, <3>2, <3>3, <3>6, Stored
  <2>3. CASE Reset
    <3>1. DOMAIN models' = {} /\ DOMAIN truth' = {} /\ now' = now
      BY <2>3 DEF Reset
    <3>2. IsFiniteSet({}) /\ Cardinality({}) = 0
      BY FS_EmptySet
    <3> QED
      BY <3>1, <3>2, LimitsAreNumbers DEF IInv
  <2>4. CASE Tick
    <3>1. now \in Nat /\ now' = now + 1 /\ now' \in 0..MaxTime
          /\ models' = models /\ truth' = truth
      BY <2>4, LimitsAreNumbers DEF Tick, IInv
    <3>2. ASSUME NEW n \in DOMAIN models
          PROVE  EntryFits(models[n], truth[n], now') /\ models[n].requests >= 1
      BY <3>1, LaterFits DEF IInv
    <3>3. (\A n \in DOMAIN models : EntryFits(models[n], truth[n], now) /\ models[n].requests >= 1)'
      BY <3>1, <3>2
    <3> QED
      BY <3>1, <3>3 DEF IInv
  <2>5. CASE UNCHANGED vars
    BY <2>5 DEF vars, IInv
  <2> QED
    BY <2>1, <2>2, <2>3, <2>4, <2>5 DEF Next
<1> QED
  BY <1>2, <1>3, PTL DEF Spec

(* Entries and lists of served names stay within maxModels and                *)
(* maxServedModels (Record, evictOldest, addServed).                          *)
THEOREM TypeCorrect == Spec => []TypeOK
<1>1. IInv => TypeOK
  <2> SUFFICES ASSUME IInv  PROVE TypeOK
    OBVIOUS
  <2>1. ASSUME NEW n \in DOMAIN models, NEW e, e = models[n]
        PROVE  /\ e.requests \in 1..MaxRequests
               /\ e.failed \in Nat /\ e.reported \in Nat /\ e.mismatches \in Nat
               /\ DOMAIN e.served \subseteq ServedNames
               /\ Cardinality(DOMAIN e.served) <= MaxServedModels
               /\ \A s \in DOMAIN e.served : e.served[s] \in Nat \ {0}
               /\ e.lastSeen \in 0..now
    <3>1. EntryFits(e, truth[n], now) /\ e.requests >= 1 /\ now \in Nat
      BY <2>1, LimitsAreNumbers DEF IInv
    <3>2. e.requests \in Nat /\ e.failed \in Nat /\ e.reported \in Nat /\ e.mismatches \in Nat
          /\ e.lastSeen \in Nat /\ e.served \in Counts(ServedNames)
      BY <3>1 DEF EntryFits, Entries
    <3>3. DOMAIN e.served \subseteq ServedNames /\ \A s \in DOMAIN e.served : e.served[s] \in Nat \ {0}
      BY <3>2, CountsAre
    <3> QED
      BY <3>1, <3>2, <3>3, LimitsAreNumbers DEF EntryFits
  <2> QED
    BY <2>1 DEF IInv, TypeOK
<1> QED
  BY <1>1, Invariance, PTL

(* The rate is exact wherever Check and the README's table tell the same      *)
(* reported names from the requested one (RateExact needs no more than that;  *)
(* MCMonitorBump holds an answer they judge differently).                     *)
THEOREM AlwaysExact ==
  ASSUME \A x \in Answers : Judged(x) <=> Substitution(x)
  PROVE  Spec => []RateExact
<1>1. IInv => RateExact
  <2> SUFFICES ASSUME IInv, NEW n \in DOMAIN models,
                      NEW e, e = models[n], NEW f, f = truth[n]
               PROVE  /\ e.reported = Total(f, DOMAIN f)
                      /\ e.mismatches = Total(f, {x \in DOMAIN f : Substitution(x)})
                      /\ e.reported + e.failed <= e.requests
                      /\ \A s \in DOMAIN e.served :
                           e.served[s] <= Total(f, {x \in DOMAIN f : x[2] = s})
    <3> DEFINE says(e, f) ==
                 /\ e.reported = Total(f, DOMAIN f)
                 /\ e.mismatches = Total(f, {x \in DOMAIN f : Substitution(x)})
                 /\ e.reported + e.failed <= e.requests
                 /\ \A s \in DOMAIN e.served :
                      e.served[s] <= Total(f, {x \in DOMAIN f : x[2] = s})
    <3>1. RateExact <=> \A n \in DOMAIN models : says(models[n], truth[n])
      BY DEF RateExact
    <3> HIDE DEF says
    <3> QED
      BY <3>1 DEF says
  <2>1. Honest(e, f) /\ f \in Counts(Answers)
    BY DEF IInv, EntryFits
  <2>2. DOMAIN f \subseteq Answers
    BY <2>1, CountsAre
  <2>3. {x \in DOMAIN f : Substitution(x)} = {x \in DOMAIN f : Judged(x)}
    BY <2>2
  <2>4. \A S : Total(f, S) = SumOver(f, S)
    BY DEF Total, SumOver
  <2> QED
    BY <2>1, <2>3, <2>4 DEF Honest
<1> QED
  BY <1>1, Invariance, PTL

=============================================================================
