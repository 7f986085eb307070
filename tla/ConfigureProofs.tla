--------------------------- MODULE ConfigureProofs ---------------------------
(* Theorems about how configurations are accepted, for any submissions and    *)
(* any limit on the depth: the search of validateGroups, whose memo it may    *)
(* consult at some depths and not at others, never misses a chain of groups   *)
(* that is too long and never refuses one that is not; and the rule that      *)
(* FindGuard finds is the one the operator meant, because the matcher of its  *)
(* patterns, which returns to the last star only, misses no match.            *)
EXTENDS Configure, Sums, SequenceTheorems

-----------------------------------------------------------------------------
(* The state of the search, on a list of virtual models: the path, the roots  *)
(* left, the memo.                                                            *)
PathEntries == [name : Names, rest : SUBSET Members]

(* The memo says that g is fine at depth d.                                   *)
Fine(memo, g, d) == g \in DOMAIN memo /\ memo[g] >= d

PathShape(list, path) ==
  /\ path \in Seq(PathEntries) /\ Len(path) <= MaxGroupDepth
  /\ \A i \in DOMAIN path : /\ path[i].name \in GroupNames(list)
                            /\ path[i].rest \subseteq MembersOf(list, path[i].name)
  /\ \A i, j \in DOMAIN path : path[i].name = path[j].name => i = j
  /\ \A i \in 1..(Len(path) - 1) : path[i + 1].name \in Models(MembersOf(list, path[i].name))

MemoShape(list, memo) ==
  /\ DOMAIN memo \subseteq GroupNames(list)
  /\ \A g \in DOMAIN memo : memo[g] \in 0..(MaxGroupDepth - 1)

(* What the memo says of a group it says of the groups among its members, one *)
(* level further down.                                                        *)
MemoClosed(list, memo) ==
  \A g \in DOMAIN memo : \A m \in MembersOf(list, g) :
    m.model \in GroupNames(list) => ~m.tuned /\ Fine(memo, m.model, memo[g] + 1)

(* The members already looked at are fine, or the next group on the path.     *)
Looked(list, path, memo) ==
  \A i \in DOMAIN path : \A m \in MembersOf(list, path[i].name) \ path[i].rest :
    m.model \in GroupNames(list) =>
      /\ ~m.tuned
      /\ \/ Fine(memo, m.model, i)
         \/ i < Len(path) /\ m.model = path[i + 1].name

(* A group is visited only where the memo does not help.                      *)
Needed(path, memo) == \A i \in DOMAIN path : ~Fine(memo, path[i].name, i - 1)

RootsCovered(list, path, roots, memo) ==
  \A g \in GroupNames(list) :
    g \in roots \/ Fine(memo, g, 0) \/ (path # <<>> /\ path[1].name = g)

Searching(list, path, roots, memo) ==
  /\ list \in Seq(VirtualModels) /\ roots \subseteq GroupNames(list)
  /\ PathShape(list, path) /\ MemoShape(list, memo) /\ MemoClosed(list, memo)
  /\ Looked(list, path, memo) /\ Needed(path, memo) /\ RootsCovered(list, path, roots, memo)

-----------------------------------------------------------------------------
LEMMA ListEntries ==
  ASSUME NEW list \in Seq(VirtualModels)
  PROVE  /\ Len(list) \in Nat /\ DOMAIN list = 1..Len(list)
         /\ \A i \in DOMAIN list : /\ list[i] \in VirtualModels /\ list[i].name \in Names
                                   /\ list[i].members \subseteq Members
<1>1. Len(list) \in Nat /\ DOMAIN list = 1..Len(list)
  BY LenProperties
<1>2. \A i \in DOMAIN list : list[i] \in VirtualModels
  BY <1>1, ElementOfSeq
<1> QED
  BY <1>1, <1>2 DEF VirtualModels

LEMMA LastEntry ==
  ASSUME NEW list \in Seq(VirtualModels), NEW g \in GroupNames(list)
  PROVE  /\ \E i \in DOMAIN list : list[i].name = g /\ MembersOf(list, g) = list[i].members
         /\ MembersOf(list, g) \subseteq Members /\ g \in Names
<1> DEFINE T == {i \in DOMAIN list : list[i].name = g}
           Final(i) == list[i].name = g /\ \A j \in DOMAIN list : list[j].name = g => j <= i
<1>1. Len(list) \in Nat /\ DOMAIN list = 1..Len(list)
      /\ \A i \in DOMAIN list : list[i].name \in Names /\ list[i].members \subseteq Members
  BY ListEntries
<1>2. T # {}
  BY DEF GroupNames
<1>3. T \subseteq Nat /\ \A i \in T : i <= Len(list)
  BY <1>1
<1>4. \E i \in T : \A j \in T : j <= i
  <2> HIDE DEF T
  <2> QED
    BY <1>1, <1>2, <1>3, GreatestMember
<1>5. \E i \in DOMAIN list : Final(i)
  BY <1>4
<1>6. Final(CHOOSE i \in DOMAIN list : Final(i)) /\ (CHOOSE i \in DOMAIN list : Final(i)) \in DOMAIN list
  BY <1>5
<1>7. MembersOf(list, g) = list[CHOOSE i \in DOMAIN list : Final(i)].members
  BY DEF MembersOf
<1> QED
  BY <1>1, <1>6, <1>7

(* The search begins.                                                         *)
LEMMA SearchBegins ==
  ASSUME NEW list \in Seq(VirtualModels)
  PROVE  Searching(list, <<>>, GroupNames(list), <<>>)
BY DepthAssumption
   DEF Searching, PathShape, MemoShape, MemoClosed, Looked, Needed, RootsCovered

(* A root the memo knows.                                                     *)
LEMMA RootSkipped ==
  ASSUME NEW list, NEW roots, NEW memo, NEW g,
         Searching(list, <<>>, roots, memo), Fine(memo, g, 0)
  PROVE  Searching(list, <<>>, roots \ {g}, memo)
BY DEF Searching, RootsCovered

(* A group is entered, as a root or as the member just looked at.             *)
LEMMA RootEntered ==
  ASSUME NEW list, NEW roots, NEW memo, NEW g \in roots,
         Searching(list, <<>>, roots, memo), ~Fine(memo, g, 0)
  PROVE  Searching(list, Append(<<>>, [name |-> g, rest |-> MembersOf(list, g)]),
                   roots \ {g}, memo)
<1> DEFINE e == [name |-> g, rest |-> MembersOf(list, g)]
           path == Append(<<>>, e)
<1>1. /\ g \in GroupNames(list) /\ list \in Seq(VirtualModels)
      /\ MembersOf(list, g) \subseteq Members /\ g \in Names
  BY LastEntry DEF Searching
<1>2. e \in PathEntries /\ e.name = g /\ e.rest = MembersOf(list, g)
  BY <1>1 DEF PathEntries
<1> HIDE DEF e
<1>3. path \in Seq(PathEntries) /\ Len(path) = 1 /\ DOMAIN path = {1} /\ path[1] = e /\ path # <<>>
  BY <1>2
<1> HIDE DEF path
<1>4. PathShape(list, path)
  BY <1>1, <1>2, <1>3, DepthAssumption DEF PathShape
<1>5. Looked(list, path, memo) /\ Needed(path, memo)
  BY <1>2, <1>3 DEF Looked, Needed
<1>6. RootsCovered(list, path, roots \ {g}, memo)
  BY <1>2, <1>3 DEF RootsCovered, Searching
<1> QED
  BY <1>1, <1>4, <1>5, <1>6 DEF Searching, path, e
(* The path with a member of its last group looked at.                        *)
LookedAt(path, m) == [path EXCEPT ![Len(path)].rest = @ \ {m}]

LEMMA LookedAtPath ==
  ASSUME NEW path \in Seq(PathEntries), path # <<>>, NEW m
  PROVE  /\ LookedAt(path, m) \in Seq(PathEntries) /\ LookedAt(path, m) # <<>>
         /\ Len(LookedAt(path, m)) = Len(path) /\ DOMAIN LookedAt(path, m) = DOMAIN path
         /\ Len(path) \in Nat \ {0} /\ DOMAIN path = 1..Len(path)
         /\ \A i \in DOMAIN path : LookedAt(path, m)[i].name = path[i].name
         /\ \A i \in DOMAIN path : i # Len(path) => LookedAt(path, m)[i].rest = path[i].rest
         /\ LookedAt(path, m)[Len(path)].rest = path[Len(path)].rest \ {m}
<1>1. /\ Len(path) \in Nat \ {0} /\ DOMAIN path = 1..Len(path)
      /\ path \in [1..Len(path) -> PathEntries]
  BY LenProperties, EmptySeq
<1> DEFINE n == Len(path)
           last == [path[n] EXCEPT !.rest = @ \ {m}]
           q == [i \in 1..n |-> IF i = n THEN last ELSE path[i]]
<1>2. LookedAt(path, m) = q
  BY <1>1 DEF LookedAt
<1>3. last \in PathEntries /\ last.name = path[n].name /\ last.rest = path[n].rest \ {m}
  BY <1>1 DEF PathEntries
<1> HIDE DEF last
<1>4. q \in [1..n -> PathEntries]
  BY <1>1, <1>3
<1>5. \A i \in 1..n : q[i] = IF i = n THEN last ELSE path[i]
  OBVIOUS
<1> HIDE DEF q
<1>6. DOMAIN q = 1..n /\ q \in Seq(PathEntries) /\ Len(q) = n
  <2>1. q \in Seq(PathEntries)
    BY <1>1, <1>4, SeqDef
  <2>2. Len(q) = n
    BY <1>1, <1>4, <2>1, LenProperties
  <2> QED
    BY <1>4, <2>1, <2>2
<1>7. q # <<>>
  BY <1>1, <1>6
<1>8. n \in 1..n
  BY <1>1
<1>9. q[n] = last /\ \A i \in 1..n : i # n => q[i] = path[i]
  BY <1>5, <1>8
<1>10. \A i \in DOMAIN path : q[i].name = path[i].name
  BY <1>1, <1>3, <1>9
<1> QED
  BY <1>1, <1>2, <1>3, <1>6, <1>7, <1>9, <1>10

(* A member that is fine, or no group.                                        *)
LEMMA MemberPassed ==
  ASSUME NEW list, NEW path, NEW roots, NEW memo, Searching(list, path, roots, memo),
         path # <<>>, NEW m,
         m.model \in GroupNames(list) => ~m.tuned /\ Fine(memo, m.model, Len(path))
  PROVE  Searching(list, LookedAt(path, m), roots, memo)
<1> DEFINE q == LookedAt(path, m)
<1>1. /\ q \in Seq(PathEntries) /\ q # <<>> /\ Len(q) = Len(path) /\ DOMAIN q = DOMAIN path
      /\ Len(path) \in Nat \ {0} /\ DOMAIN path = 1..Len(path)
      /\ \A i \in DOMAIN path : q[i].name = path[i].name
      /\ \A i \in DOMAIN path : i # Len(path) => q[i].rest = path[i].rest
      /\ q[Len(path)].rest = path[Len(path)].rest \ {m}
  BY LookedAtPath DEF Searching, PathShape
<1> HIDE DEF q
<1>2. \A i \in DOMAIN path : q[i].rest \subseteq path[i].rest
  BY <1>1
<1>3. PathShape(list, q)
  <2>1. Len(q) <= MaxGroupDepth
    BY <1>1 DEF Searching, PathShape
  <2>2. \A i \in DOMAIN q : /\ q[i].name \in GroupNames(list)
                            /\ q[i].rest \subseteq MembersOf(list, q[i].name)
    BY <1>1, <1>2 DEF Searching, PathShape
  <2>3. \A i, j \in DOMAIN q : q[i].name = q[j].name => i = j
    BY <1>1 DEF Searching, PathShape
  <2>4. ASSUME NEW i \in 1..(Len(q) - 1)
        PROVE  q[i + 1].name \in Models(MembersOf(list, q[i].name))
    BY <1>1 DEF Searching, PathShape
  <2> QED
    BY <1>1, <2>1, <2>2, <2>3, <2>4 DEF PathShape
<1>4. Looked(list, q, memo)
  <2> SUFFICES ASSUME NEW i \in DOMAIN q, NEW k \in MembersOf(list, q[i].name) \ q[i].rest,
                      k.model \in GroupNames(list)
               PROVE  /\ ~k.tuned
                      /\ \/ Fine(memo, k.model, i)
                         \/ i < Len(q) /\ k.model = q[i + 1].name
    BY DEF Looked
  <2>1. CASE i = Len(path) /\ k = m
    BY <2>1
  <2>2. CASE ~(i = Len(path) /\ k = m)
    <3>1. k \in MembersOf(list, path[i].name) \ path[i].rest /\ i \in DOMAIN path
      BY <1>1, <2>2
    <3>2. /\ ~k.tuned
          /\ \/ Fine(memo, k.model, i)
             \/ i < Len(path) /\ k.model = path[i + 1].name
      BY <3>1 DEF Searching, Looked
    <3>3. i < Len(path) => i + 1 \in DOMAIN path
      BY <1>1, <3>1
    <3> QED
      BY <1>1, <3>2, <3>3
  <2> QED
    BY <2>1, <2>2
<1>5. Needed(q, memo)
  BY <1>1 DEF Searching, Needed
<1>6. RootsCovered(list, q, roots, memo)
  BY <1>1 DEF Searching, RootsCovered
<1> QED
  BY <1>3, <1>4, <1>5, <1>6 DEF Searching, q

(* A member that is a group and must be visited.                              *)
LEMMA MemberEntered ==
  ASSUME NEW list, NEW path, NEW roots, NEW memo, Searching(list, path, roots, memo),
         path # <<>>, NEW m \in path[Len(path)].rest,
         m.model \in GroupNames(list), ~m.tuned, ~Fine(memo, m.model, Len(path)),
         Len(path) < MaxGroupDepth, \A i \in DOMAIN path : path[i].name # m.model
  PROVE  Searching(list,
                   Append(LookedAt(path, m),
                          [name |-> m.model, rest |-> MembersOf(list, m.model)]),
                   roots, memo)
<1> DEFINE q == LookedAt(path, m)
           e == [name |-> m.model, rest |-> MembersOf(list, m.model)]
           p == Append(q, e)
           n == Len(path)
<1>1. /\ q \in Seq(PathEntries) /\ q # <<>> /\ Len(q) = n /\ DOMAIN q = DOMAIN path
      /\ n \in Nat \ {0} /\ DOMAIN path = 1..n
      /\ \A i \in DOMAIN path : q[i].name = path[i].name
      /\ \A i \in DOMAIN path : i # n => q[i].rest = path[i].rest
      /\ q[n].rest = path[n].rest \ {m}
  BY LookedAtPath DEF Searching, PathShape
<1>2. MembersOf(list, m.model) \subseteq Members /\ m.model \in Names /\ m \in Members
  <2>1. m \in MembersOf(list, path[n].name) /\ path[n].name \in GroupNames(list)
    BY <1>1 DEF Searching, PathShape
  <2> QED
    BY <2>1, LastEntry DEF Searching
<1>3. e \in PathEntries /\ e.name = m.model /\ e.rest = MembersOf(list, m.model)
  BY <1>2 DEF PathEntries
<1> HIDE DEF q, e
<1>4. /\ p \in Seq(PathEntries) /\ Len(p) = n + 1 /\ DOMAIN p = 1..(n + 1) /\ p[n + 1] = e
      /\ p # <<>> /\ \A i \in 1..n : p[i] = q[i]
  BY <1>1, <1>3, AppendProperties, LenProperties
<1> HIDE DEF p
<1>5. \A i \in 1..n : p[i].name = path[i].name /\ p[i].rest \subseteq path[i].rest
  BY <1>1, <1>4
<1>6. p[n + 1].name = m.model /\ p[n + 1].rest = MembersOf(list, m.model)
  BY <1>3, <1>4
<1>7. PathShape(list, p)
  <2>1. Len(p) <= MaxGroupDepth
    BY <1>1, <1>4, DepthAssumption
  <2>2. \A i \in 1..n : /\ p[i].name \in GroupNames(list)
                        /\ p[i].rest \subseteq MembersOf(list, p[i].name)
    BY <1>1, <1>5 DEF Searching, PathShape
  <2>3. \A i \in DOMAIN p : /\ p[i].name \in GroupNames(list)
                            /\ p[i].rest \subseteq MembersOf(list, p[i].name)
    BY <1>1, <1>4, <1>6, <2>2
  <2>4. \A i, j \in DOMAIN p : p[i].name = p[j].name => i = j
    <3>1. \A i, j \in 1..n : p[i].name = p[j].name => i = j
      BY <1>1, <1>5 DEF Searching, PathShape
    <3>2. \A i \in 1..n : p[i].name # m.model
      BY <1>1, <1>5
    <3> QED
      BY <1>1, <1>4, <1>6, <3>1, <3>2
  <2>5. ASSUME NEW i \in 1..(Len(p) - 1)
        PROVE  p[i + 1].name \in Models(MembersOf(list, p[i].name))
    <3>1. CASE i = n
      <4>1. m \in MembersOf(list, path[n].name)
        BY <1>1 DEF Searching, PathShape
      <4> QED
        BY <1>1, <1>5, <1>6, <3>1, <4>1 DEF Models
    <3>2. CASE i # n
      <4>0. i \in 1..n
        BY <1>1, <1>4
      <4>1. i \in 1..(n - 1) /\ i \in 1..n /\ i + 1 \in 1..n
        <5>1. n \in Nat /\ i \in Nat /\ i >= 1 /\ i <= n
          BY <1>1, <4>0
        <5> HIDE DEF n
        <5> QED
          BY <3>2, <5>1
      <4>2. path[i + 1].name \in Models(MembersOf(list, path[i].name))
        BY <4>1 DEF Searching, PathShape
      <4> QED
        BY <1>5, <4>1, <4>2
    <3> QED
      BY <3>1, <3>2
  <2> QED
    BY <1>4, <2>1, <2>3, <2>4, <2>5 DEF PathShape
<1>8. Looked(list, p, memo)
  <2> SUFFICES ASSUME NEW i \in DOMAIN p, NEW k \in MembersOf(list, p[i].name) \ p[i].rest,
                      k.model \in GroupNames(list)
               PROVE  /\ ~k.tuned
                      /\ \/ Fine(memo, k.model, i)
                         \/ i < Len(p) /\ k.model = p[i + 1].name
    BY DEF Looked
  <2>1. i \in 1..n
    BY <1>1, <1>4, <1>6
  <2>2. CASE i = n /\ k = m
    BY <1>1, <1>4, <1>6, <2>2
  <2>3. CASE ~(i = n /\ k = m)
    <3>1. k \in MembersOf(list, path[i].name) \ path[i].rest /\ i \in DOMAIN path
      BY <1>1, <1>4, <1>5, <2>1, <2>3
    <3>2. /\ ~k.tuned
          /\ \/ Fine(memo, k.model, i)
             \/ i < n /\ k.model = path[i + 1].name
      BY <3>1 DEF Searching, Looked
    <3>3. i < n => i + 1 \in 1..n /\ i < Len(p)
      BY <1>1, <1>4, <2>1
    <3> QED
      BY <1>5, <3>2, <3>3
  <2> QED
    BY <2>2, <2>3
<1>9. Needed(p, memo)
  <2>1. \A i \in 1..n : ~Fine(memo, p[i].name, i - 1)
    BY <1>1, <1>5 DEF Searching, Needed
  <2>2. ~Fine(memo, p[n + 1].name, (n + 1) - 1)
    BY <1>1, <1>6
  <2> QED
    BY <1>1, <1>4, <2>1, <2>2 DEF Needed
<1>10. RootsCovered(list, p, roots, memo)
  BY <1>1, <1>4, <1>5 DEF Searching, RootsCovered
<1> QED
  BY <1>7, <1>8, <1>9, <1>10 DEF Searching, p, q, e

(* The last group of the path has been looked at: the memo learns of it.      *)
Learnt(path, memo) ==
  [g \in DOMAIN memo \cup {path[Len(path)].name} |->
     IF g = path[Len(path)].name THEN Len(path) - 1 ELSE memo[g]]

LEMMA GroupLeft ==
  ASSUME NEW list, NEW path, NEW roots, NEW memo, Searching(list, path, roots, memo),
         path # <<>>, path[Len(path)].rest = {}
  PROVE  Searching(list, SubSeq(path, 1, Len(path) - 1), roots, Learnt(path, memo))
<1> DEFINE n == Len(path)
           top == path[n].name
           q == SubSeq(path, 1, n - 1)
           new == Learnt(path, memo)
<1>1. /\ path \in Seq(PathEntries) /\ n \in Nat \ {0} /\ DOMAIN path = 1..n /\ n <= MaxGroupDepth
      /\ path[n].name \in GroupNames(list)
  <2>1. path \in Seq(PathEntries) /\ n \in Nat \ {0} /\ DOMAIN path = 1..n
    BY LenProperties, EmptySeq DEF Searching, PathShape
  <2> QED
    BY <2>1 DEF Searching, PathShape
<1>2. /\ q \in Seq(PathEntries) /\ Len(q) = n - 1 /\ DOMAIN q = 1..(n - 1)
      /\ \A i \in 1..(n - 1) : q[i] = path[i]
  BY <1>1, SubSeqProperties, LenProperties
<1>3. /\ DOMAIN new = DOMAIN memo \cup {top} /\ new[top] = n - 1
      /\ \A g \in DOMAIN memo : g # top => new[g] = memo[g]
  BY DEF Learnt
<1>4. top \in DOMAIN memo => memo[top] \in Int /\ memo[top] < n - 1
  <2>1. ~Fine(memo, top, n - 1)
    BY <1>1 DEF Searching, Needed
  <2> QED
    BY <1>1, <2>1, DepthAssumption DEF Fine, Searching, MemoShape
<1> HIDE DEF q, new
<1>5. ASSUME NEW g, NEW d \in Int, Fine(memo, g, d)  PROVE Fine(new, g, d)
  <2>1. memo[g] \in Int
    BY <1>5, DepthAssumption DEF Fine, Searching, MemoShape
  <2> QED
    BY <1>1, <1>3, <1>4, <1>5, <2>1 DEF Fine
<1>6. PathShape(list, q)
  <2>1. Len(q) <= MaxGroupDepth /\ \A i \in DOMAIN q : i \in DOMAIN path
    BY <1>1, <1>2, DepthAssumption
  <2>2. \A i \in DOMAIN q : /\ q[i].name \in GroupNames(list)
                            /\ q[i].rest \subseteq MembersOf(list, q[i].name)
    BY <1>2, <2>1 DEF Searching, PathShape
  <2>3. \A i, j \in DOMAIN q : q[i].name = q[j].name => i = j
    BY <1>2, <2>1 DEF Searching, PathShape
  <2>4. ASSUME NEW i \in 1..(Len(q) - 1)
        PROVE  q[i + 1].name \in Models(MembersOf(list, q[i].name))
    <3>1. i \in 1..(n - 1) /\ i + 1 \in 1..(n - 1)
      BY <1>1, <1>2
    <3> QED
      BY <1>2, <3>1 DEF Searching, PathShape
  <2> QED
    BY <1>2, <2>1, <2>2, <2>3, <2>4 DEF PathShape
<1>7. MemoShape(list, new)
  <2>1. n - 1 \in 0..(MaxGroupDepth - 1)
    BY <1>1, DepthAssumption
  <2> QED
    BY <1>1, <1>3, <2>1 DEF Searching, MemoShape
<1>8. MemoClosed(list, new)
  <2> SUFFICES ASSUME NEW g \in DOMAIN new, NEW m \in MembersOf(list, g),
                      m.model \in GroupNames(list)
               PROVE  ~m.tuned /\ Fine(new, m.model, new[g] + 1)
    BY DEF MemoClosed
  <2>1. CASE g = top
    <3>1. ~m.tuned /\ Fine(memo, m.model, n)
      <4>1. m \in MembersOf(list, path[n].name) \ path[n].rest
        BY <2>1
      <4>2. n \in DOMAIN path /\ ~(n < Len(path))
        BY <1>1
      <4> QED
        BY <4>1, <4>2 DEF Searching, Looked
    <3>2. new[g] + 1 = n
      BY <1>1, <1>3, <2>1
    <3> QED
      BY <1>1, <1>5, <3>1, <3>2
  <2>2. CASE g # top
    <3>1. g \in DOMAIN memo /\ new[g] = memo[g]
      BY <1>3, <2>2
    <3>2. ~m.tuned /\ Fine(memo, m.model, memo[g] + 1)
      BY <3>1 DEF Searching, MemoClosed
    <3>3. memo[g] + 1 \in Int
      BY <3>1, DepthAssumption DEF Searching, MemoShape
    <3> QED
      BY <1>5, <3>1, <3>2, <3>3
  <2> QED
    BY <2>1, <2>2
<1>9. Looked(list, q, new)
  <2> SUFFICES ASSUME NEW i \in DOMAIN q, NEW m \in MembersOf(list, q[i].name) \ q[i].rest,
                      m.model \in GroupNames(list)
               PROVE  /\ ~m.tuned
                      /\ \/ Fine(new, m.model, i)
                         \/ i < Len(q) /\ m.model = q[i + 1].name
    BY DEF Looked
  <2>1. i \in 1..(n - 1) /\ i \in DOMAIN path /\ i \in Int /\ q[i] = path[i]
    BY <1>1, <1>2
  <2>2. /\ ~m.tuned
        /\ \/ Fine(memo, m.model, i)
           \/ i < n /\ m.model = path[i + 1].name
    BY <2>1 DEF Searching, Looked
  <2>3. CASE Fine(memo, m.model, i)
    BY <1>5, <2>1, <2>2, <2>3
  <2>4. CASE i = n - 1 /\ m.model = path[i + 1].name
    <3>1. m.model = top /\ top \in DOMAIN new /\ new[top] >= i
      BY <1>1, <1>3, <2>1, <2>4
    <3> QED
      BY <2>2, <3>1 DEF Fine
  <2>5. CASE i # n - 1 /\ m.model = path[i + 1].name
    <3>1. i < Len(q) /\ i + 1 \in 1..(n - 1)
      BY <1>1, <1>2, <2>1, <2>5
    <3> QED
      BY <1>2, <2>2, <2>5, <3>1
  <2> QED
    BY <2>2, <2>3, <2>4, <2>5
<1>10. Needed(q, new)
  <2> SUFFICES ASSUME NEW i \in DOMAIN q  PROVE ~Fine(new, q[i].name, i - 1)
    BY DEF Needed
  <2>1. i \in 1..(n - 1) /\ i \in DOMAIN path /\ q[i] = path[i] /\ n \in DOMAIN path /\ i # n
    BY <1>1, <1>2
  <2>2. ~Fine(memo, path[i].name, i - 1) /\ path[i].name # top
    BY <2>1 DEF Searching, Needed, PathShape
  <2> QED
    BY <1>3, <2>1, <2>2 DEF Fine
<1>11. RootsCovered(list, q, roots, new)
  <2> SUFFICES ASSUME NEW g \in GroupNames(list)
               PROVE  g \in roots \/ Fine(new, g, 0) \/ (q # <<>> /\ q[1].name = g)
    BY DEF RootsCovered
  <2>1. g \in roots \/ Fine(memo, g, 0) \/ path[1].name = g
    BY DEF Searching, RootsCovered
  <2>2. CASE path[1].name = g /\ n = 1
    BY <1>1, <1>3, <2>2 DEF Fine
  <2>3. CASE path[1].name = g /\ n # 1
    <3>1. 1 \in 1..(n - 1) /\ Len(q) # 0
      BY <1>1, <1>2, <2>3
    <3> QED
      BY <1>2, <2>3, <3>1
  <2> QED
    BY <1>5, <2>1, <2>2, <2>3
<1> QED
  BY <1>6, <1>7, <1>8, <1>9, <1>10, <1>11 DEF Searching, q, new

-----------------------------------------------------------------------------
(* What the search establishes, and what its refusals rest on.                *)
ChainsOf(list, n) == Chains(GroupNames(list), LAMBDA g : Models(MembersOf(list, g)), n)

TunedGroup(list) ==
  \E g \in GroupNames(list) : \E m \in MembersOf(list, g) :
    m.tuned /\ m.model \in GroupNames(list)

RawSound(list) == ChainsOf(list, MaxGroupDepth + 1) = {} /\ ~TunedGroup(list)

Justified(list) == ChainsOf(list, MaxGroupDepth + 1) # {} \/ TunedGroup(list)

(* Every group was found fine: along a chain the memo only grows, and it      *)
(* stays below the limit.                                                     *)
LEMMA SearchEnds ==
  ASSUME NEW list, NEW memo, Searching(list, <<>>, {}, memo)
  PROVE  RawSound(list)
<1>1. \A g \in GroupNames(list) : Fine(memo, g, 0)
  BY DEF Searching, RootsCovered
<1>2. ~TunedGroup(list)
  BY <1>1 DEF TunedGroup, Searching, MemoClosed, Fine
<1>3. ASSUME NEW p \in ChainsOf(list, MaxGroupDepth + 1)  PROVE FALSE
  <2> DEFINE P == {k \in Nat : k <= MaxGroupDepth => Fine(memo, p[k + 1], k)}
  <2>1. /\ p \in [1..(MaxGroupDepth + 1) -> GroupNames(list)]
        /\ \A i \in 1..MaxGroupDepth :
             \E m \in MembersOf(list, p[i]) : p[i + 1] = m.model
    <3>1. (MaxGroupDepth + 1) - 1 = MaxGroupDepth
      BY DepthAssumption
    <3>2. \A i \in 1..((MaxGroupDepth + 1) - 1) : p[i + 1] \in Models(MembersOf(list, p[i]))
      BY DEF ChainsOf, Chains
    <3>3. p \in [1..(MaxGroupDepth + 1) -> GroupNames(list)]
      BY DEF ChainsOf, Chains
    <3> QED
      BY <3>1, <3>2, <3>3 DEF Models
  <2>2. 0 \in P
    BY <1>1, <2>1, DepthAssumption
  <2>3. ASSUME NEW k \in Nat, k \in P  PROVE k + 1 \in P
    <3> SUFFICES ASSUME k + 1 <= MaxGroupDepth  PROVE Fine(memo, p[k + 2], k + 1)
      OBVIOUS
    <3>1. /\ Fine(memo, p[k + 1], k) /\ k + 1 \in 1..MaxGroupDepth
          /\ k + 2 \in 1..(MaxGroupDepth + 1) /\ (k + 1) + 1 = k + 2
      BY <2>3, DepthAssumption
    <3>2. PICK m \in MembersOf(list, p[k + 1]) : p[k + 2] = m.model
      BY <2>1, <3>1
    <3>3. p[k + 2] \in GroupNames(list)
      BY <2>1, <3>1
    <3>4. p[k + 1] \in DOMAIN memo /\ memo[p[k + 1]] >= k /\ memo[p[k + 1]] \in Int
      BY <3>1, DepthAssumption DEF Fine, Searching, MemoShape
    <3>5. Fine(memo, p[k + 2], memo[p[k + 1]] + 1)
      BY <3>2, <3>3, <3>4 DEF Searching, MemoClosed
    <3>6. memo[p[k + 2]] \in Int
      BY <3>5, DepthAssumption DEF Fine, Searching, MemoShape
    <3> QED
      BY <3>4, <3>5, <3>6 DEF Fine
  <2> HIDE DEF P
  <2>4. MaxGroupDepth \in P
    BY <2>2, <2>3, InductionOnNat, DepthAssumption
  <2>5. Fine(memo, p[MaxGroupDepth + 1], MaxGroupDepth)
    BY <2>4, DepthAssumption DEF P
  <2> QED
    BY <2>5, DepthAssumption DEF Fine, Searching, MemoShape
<1> QED
  BY <1>2, <1>3 DEF RawSound

(* Groups that all have a successor among them have chains of every length.   *)
LEMMA CycleChains ==
  ASSUME NEW list, NEW C, C \subseteq GroupNames(list), NEW c \in C,
         \A g \in C : \E h \in C : h \in Models(MembersOf(list, g)), NEW n \in Nat
  PROVE  ChainsOf(list, n + 1) # {}
<1> DEFINE from(k, g) == {p \in [1..(k + 1) -> C] :
             p[1] = g /\ \A i \in 1..k : p[i + 1] \in Models(MembersOf(list, p[i]))}
           P == {k \in Nat : \A g \in C : from(k, g) # {}}
<1>1. 0 \in P
  <2> SUFFICES ASSUME NEW g \in C  PROVE from(0, g) # {}
    OBVIOUS
  <2>1. [i \in 1..1 |-> g] \in from(0, g)
    OBVIOUS
  <2> QED
    BY <2>1
<1>2. ASSUME NEW k \in Nat, k \in P  PROVE k + 1 \in P
  <2> SUFFICES ASSUME NEW g \in C  PROVE from(k + 1, g) # {}
    <3>1. k + 1 \in Nat
      OBVIOUS
    <3> HIDE DEF from
    <3> QED
      BY <3>1
  <2>1. PICK h \in C : h \in Models(MembersOf(list, g))
    OBVIOUS
  <2>2. PICK q \in from(k, h) : TRUE
    BY <1>2
  <2> DEFINE p == [i \in 1..(k + 2) |-> IF i = 1 THEN g ELSE q[i - 1]]
  <2>3. p \in [1..(k + 2) -> C] /\ p[1] = g
    BY <2>2
  <2>4. ASSUME NEW i \in 1..(k + 1)  PROVE p[i + 1] \in Models(MembersOf(list, p[i]))
    <3>1. p[i + 1] = q[i] /\ (i # 1 => p[i] = q[i - 1] /\ i - 1 \in 1..k /\ (i - 1) + 1 = i)
      OBVIOUS
    <3>2. CASE i = 1
      BY <2>1, <2>2, <2>3, <3>1, <3>2
    <3>3. CASE i # 1
      <4>1. q[(i - 1) + 1] \in Models(MembersOf(list, q[i - 1]))
        BY <2>2, <3>1, <3>3
      <4> QED
        BY <3>1, <3>3, <4>1
    <3> QED
      BY <3>2, <3>3
  <2>5. (k + 1) + 1 = k + 2
    OBVIOUS
  <2> HIDE DEF p
  <2>6. p \in from(k + 1, g)
    BY <2>3, <2>4, <2>5
  <2> QED
    BY <2>6
<1> HIDE DEF P
<1>3. n \in P
  BY <1>1, <1>2, InductionOnNat
<1>4. PICK p \in from(n, c) : TRUE
  BY <1>3 DEF P
<1>5. (n + 1) - 1 = n
  OBVIOUS
<1>6. p \in ChainsOf(list, n + 1)
  BY <1>4, <1>5 DEF ChainsOf, Chains
<1> QED
  BY <1>6

(* A member that is on the path closes a cycle.                               *)
LEMMA CycleJustified ==
  ASSUME NEW list, NEW path, NEW roots, NEW memo, Searching(list, path, roots, memo),
         path # <<>>, NEW m \in path[Len(path)].rest,
         NEW j \in DOMAIN path, path[j].name = m.model
  PROVE  Justified(list)
<1> DEFINE n == Len(path)
           C == {path[i].name : i \in DOMAIN path}
<1>1. n \in Nat \ {0} /\ DOMAIN path = 1..n
  BY LenProperties, EmptySeq DEF Searching, PathShape
<1>2. C \subseteq GroupNames(list) /\ m.model \in C
  BY DEF Searching, PathShape
<1>3. ASSUME NEW i \in DOMAIN path
      PROVE  \E h \in C : h \in Models(MembersOf(list, path[i].name))
  <2>1. CASE i = n
    <3>1. m \in MembersOf(list, path[n].name)
      BY <1>1 DEF Searching, PathShape
    <3> QED
      BY <1>2, <2>1, <3>1 DEF Models
  <2>2. CASE i # n
    <3>1. i \in 1..(n - 1) /\ i + 1 \in DOMAIN path
      BY <1>1, <2>2
    <3>2. path[i + 1].name \in Models(MembersOf(list, path[i].name))
      BY <3>1 DEF Searching, PathShape
    <3> QED
      BY <3>1, <3>2
  <2> QED
    BY <2>1, <2>2
<1>4. \A g \in C : \E h \in C : h \in Models(MembersOf(list, g))
  BY <1>3
<1> HIDE DEF C
<1> QED
  BY <1>2, <1>4, CycleChains, DepthAssumption DEF Justified

(* A path as long as the limit and a member that is a group make a chain that *)
(* is too long.                                                               *)
LEMMA DepthJustified ==
  ASSUME NEW list, NEW path, NEW roots, NEW memo, Searching(list, path, roots, memo),
         path # <<>>, NEW m \in path[Len(path)].rest, m.model \in GroupNames(list),
         Len(path) + 1 > MaxGroupDepth
  PROVE  Justified(list)
<1> DEFINE n == MaxGroupDepth
           p == [i \in 1..(n + 1) |-> IF i = n + 1 THEN m.model ELSE path[i].name]
<1>1. Len(path) = n /\ n \in Nat \ {0} /\ DOMAIN path = 1..n
  BY LenProperties, DepthAssumption DEF Searching, PathShape
<1>2. \A i \in 1..n : i \in 1..(n + 1) /\ i # n + 1 /\ i + 1 \in 1..(n + 1)
  BY <1>1
<1>3. p[n + 1] = m.model /\ \A i \in 1..n : p[i] = path[i].name
  BY <1>1, <1>2
<1>4. p \in [1..(n + 1) -> GroupNames(list)]
  BY <1>1 DEF Searching, PathShape
<1> HIDE DEF p
<1>5. ASSUME NEW i \in 1..n  PROVE p[i + 1] \in Models(MembersOf(list, p[i]))
  <2>1. CASE i = n
    <3>1. m \in MembersOf(list, path[n].name)
      BY <1>1 DEF Searching, PathShape
    <3> QED
      BY <1>3, <2>1, <3>1 DEF Models
  <2>2. CASE i # n
    <3>1. i \in 1..(n - 1) /\ i + 1 \in 1..n
      BY <1>1, <2>2
    <3>2. path[i + 1].name \in Models(MembersOf(list, path[i].name))
      BY <1>1, <3>1 DEF Searching, PathShape
    <3> QED
      BY <1>3, <3>1, <3>2
  <2> QED
    BY <2>1, <2>2
<1>6. (n + 1) - 1 = n
  BY <1>1
<1>7. p \in ChainsOf(list, n + 1)
  BY <1>4, <1>5, <1>6 DEF ChainsOf, Chains
<1> QED
  BY <1>7 DEF Justified

(* ... and so does a member that is a group with leaf settings.               *)
LEMMA TunedJustified ==
  ASSUME NEW list, NEW path, NEW roots, NEW memo, Searching(list, path, roots, memo),
         path # <<>>, NEW m \in path[Len(path)].rest, m.model \in GroupNames(list), m.tuned
  PROVE  Justified(list)
<1>1. Len(path) \in DOMAIN path
  BY LenProperties, EmptySeq DEF Searching, PathShape
<1>2. m \in MembersOf(list, path[Len(path)].name) /\ path[Len(path)].name \in GroupNames(list)
  BY <1>1 DEF Searching, PathShape
<1> QED
  BY <1>2 DEF Justified, TunedGroup

-----------------------------------------------------------------------------
(* The inductive invariant: the state of the search, and what was true of the *)
(* list the running configuration was made of, which the search established   *)
(* and nothing in the running configuration shows.                            *)
Submitted ==
  /\ phase \in {"idle", "visit"} \cup Settled
  /\ IsSubmission(raw) /\ IsSubmission(source)

Search ==
  IF phase = "visit" THEN Searching(raw.virtual, stack, todo, checked)
  ELSE todo = {} /\ stack = <<>> /\ checked = <<>>

Running ==
  /\ active = Normal(source) /\ RawSound(source.virtual)
  /\ \A vm \in Normalized(source.virtual) : ManualValid(<<vm>>)

IInv == Submitted /\ Search /\ Running /\ RefusedForCause

(* What normalize keeps.                                                      *)
LEMMA NormalizedEntries ==
  ASSUME NEW list \in Seq(VirtualModels), NEW vm \in Normalized(list)
  PROVE  /\ vm \in VirtualModels /\ vm.members # {} /\ vm.name # Nameless
         /\ \E i \in DOMAIN list : /\ Usable(list[i]) /\ vm = Kept(list[i])
                                   /\ vm.name = list[i].name
                                   /\ vm.members \subseteq list[i].members
<1>1. PICK i \in DOMAIN list : Usable(list[i]) /\ vm = Kept(list[i])
  BY DEF Normalized
<1>2. list[i] \in VirtualModels
  BY ListEntries
<1>3. vm \in VirtualModels
  BY <1>1, <1>2 DEF Kept, VirtualModels
<1>4. vm.name = list[i].name /\ vm.members \subseteq list[i].members
  BY <1>1, <1>2 DEF Kept, VirtualModels
<1>5. vm.members # {} /\ vm.name # Nameless
  BY <1>1, <1>4 DEF Usable
<1> QED
  BY <1>1, <1>3, <1>4, <1>5

LEMMA NormalizedApart ==
  ASSUME NEW list \in Seq(VirtualModels), NEW v \in Normalized(list),
         NEW w \in Normalized(list), v.name = w.name
  PROVE  v = w
<1> DEFINE First(j) == /\ Usable(list[j])
                       /\ \A h \in 1..(j - 1) : Usable(list[h]) => list[h].name # list[j].name
<1>1. PICK j \in DOMAIN list : First(j) /\ v = Kept(list[j])
  BY DEF Normalized
<1>2. PICK k \in DOMAIN list : First(k) /\ w = Kept(list[k])
  BY DEF Normalized
<1>3. \A i \in DOMAIN list : i \in Nat /\ i >= 1 /\ list[i] \in VirtualModels
  BY ListEntries
<1>4. list[j].name = list[k].name
  BY <1>1, <1>2, <1>3 DEF Kept, VirtualModels
<1>5. j = k
  BY <1>1, <1>2, <1>3, <1>4
<1> QED
  BY <1>1, <1>2, <1>5

(* The lists of which validateGroups sees every entry that normalize keeps:   *)
(* no later entry of the same name hides its members.                         *)
Unhidden(list) ==
  \A i \in DOMAIN list :
    Usable(list[i]) => list[i].members \subseteq MembersOf(list, list[i].name)

LEMMA NormalizedSound ==
  ASSUME NEW list \in Seq(VirtualModels), RawSound(list), Unhidden(list)
  PROVE  LET groups == {v.name : v \in Normalized(list)}
         IN  /\ Chains(groups,
                       LAMBDA g : UNION {Models(vm.members) :
                                           vm \in {v \in Normalized(list) : v.name = g}},
                       MaxGroupDepth + 1) = {}
             /\ \A vm \in Normalized(list) : \A m \in vm.members :
                  m.tuned => m.model \notin groups
<1> DEFINE groups == {v.name : v \in Normalized(list)}
<1>1. ASSUME NEW vm \in Normalized(list)
      PROVE  vm.name \in GroupNames(list) /\ vm.members \subseteq MembersOf(list, vm.name)
  BY NormalizedEntries DEF Unhidden, GroupNames
<1>2. groups \subseteq GroupNames(list)
  BY <1>1
<1>3. \A vm \in Normalized(list) : \A m \in vm.members : m.tuned => m.model \notin groups
  BY <1>1, <1>2 DEF RawSound, TunedGroup
<1>4. ASSUME NEW p \in Chains(groups,
                 LAMBDA g : UNION {Models(vm.members) :
                                     vm \in {v \in Normalized(list) : v.name = g}},
                 MaxGroupDepth + 1)
      PROVE  FALSE
  <2> DEFINE n == MaxGroupDepth + 1
  <2>1. p \in [1..n -> groups]
    BY <1>4 DEF Chains
  <2>2. ASSUME NEW i \in 1..(n - 1)  PROVE p[i + 1] \in Models(MembersOf(list, p[i]))
    <3>1. p[i + 1] \in UNION {Models(vm.members) :
                                vm \in {v \in Normalized(list) : v.name = p[i]}}
      BY <1>4 DEF Chains
    <3>2. PICK vm \in Normalized(list) : vm.name = p[i] /\ p[i + 1] \in Models(vm.members)
      BY <3>1
    <3> QED
      BY <1>1, <3>2 DEF Models
  <2>3. p \in [1..n -> GroupNames(list)]
    BY <1>2, <2>1
  <2>4. p \in ChainsOf(list, n)
    BY <2>2, <2>3 DEF ChainsOf, Chains
  <2> QED
    BY <2>4 DEF RawSound
<1> QED
  BY <1>3, <1>4

-----------------------------------------------------------------------------
(* The initial state.                                                         *)
LEMMA DefaultSubmission == IsSubmission(Default)
<1>1. Default.virtual \in Seq(VirtualModels) /\ Default.retries \in Int
  BY DEF Default
<1>2. DOMAIN DefaultGuardModels = 1..7 /\ Len(DefaultGuardModels) = 7
  BY DEF DefaultGuardModels
<1>3. ASSUME NEW i \in 1..7  PROVE DefaultGuardModels[i] \in Rules
  <2>1. PICK pattern : DefaultGuardModels[i] = Rule(pattern)
    <3>1. i = 1 \/ i = 2 \/ i = 3 \/ i = 4 \/ i = 5 \/ i = 6 \/ i = 7
      OBVIOUS
    <3> QED
      BY <3>1 DEF DefaultGuardModels
  <2>2. pattern \in Seq(Tokens)
    <3>1. DefaultGuardModels[i].model \in Seq(Tokens)
      BY <1>2, TokensAssumption
    <3>2. Rule(pattern).model = pattern
      BY DEF Rule
    <3> QED
      BY <2>1, <3>1, <3>2
  <2>3. <<>> \in Seq(Int) /\ "" \in Missing \cup {"", "typo"}
    OBVIOUS
  <2>4. Rule(pattern) \in Rules
    BY <2>2, <2>3 DEF Rule, Rules
  <2> QED
    BY <2>1, <2>4
<1>4. Default.rules \in Seq(Rules)
  <2>1. DefaultGuardModels = [i \in 1..7 |-> DefaultGuardModels[i]]
    BY DEF DefaultGuardModels
  <2>2. DefaultGuardModels \in [1..7 -> Rules]
    BY <1>3, <2>1
  <2> QED
    BY <2>2, SeqDef DEF Default
<1> QED
  BY <1>1, <1>4 DEF IsSubmission, Default

LEMMA Initially == Init => IInv
<1> SUFFICES ASSUME Init  PROVE IInv
  OBVIOUS
<1>1. Submitted
  BY DefaultSubmission DEF Init, Submitted
<1>2. Search
  BY DEF Init, Search
<1>3. source.virtual = <<>>
  BY DEF Init, Default
<1>4. RawSound(source.virtual)
  <2>1. GroupNames(<<>>) = {}
    BY DEF GroupNames
  <2>2. ChainsOf(<<>>, MaxGroupDepth + 1) = {}
    BY <2>1, DepthAssumption DEF ChainsOf, Chains
  <2> QED
    BY <1>3, <2>1, <2>2 DEF RawSound, TunedGroup
<1>5. Normalized(source.virtual) = {}
  BY <1>3 DEF Normalized
<1>6. Running
  BY <1>4, <1>5 DEF Init, Running
<1> QED
  BY <1>1, <1>2, <1>6 DEF IInv, RefusedForCause, Init

(* The search goes on, with nothing else changed.                             *)
LEMMA GoesOn ==
  ASSUME IInv, phase = "visit", UNCHANGED <<phase, raw, active, source>>,
         Searching(raw.virtual, stack', todo', checked')
  PROVE  IInv'
<1>1. Submitted'
  BY DEF IInv, Submitted
<1>2. Search'
  BY DEF Search
<1>3. Running'
  BY DEF IInv, Running
<1> QED
  BY <1>1, <1>2, <1>3 DEF IInv, RefusedForCause

(* The search ends in a refusal.                                              *)
LEMMA Refuses ==
  ASSUME IInv, Refuse, UNCHANGED <<raw, active, source>>, Justified(raw.virtual)
  PROVE  IInv'
<1>1. Submitted'
  BY DEF IInv, Submitted, Refuse, Settle, Settled
<1>2. Search'
  BY DEF Search, Refuse, Settle
<1>3. Running'
  BY DEF IInv, Running
<1>4. RefusedForCause'
  <2>1. (RawChains(MaxGroupDepth + 1))' = ChainsOf(raw.virtual, MaxGroupDepth + 1)
    BY DEF RawChains, ChainsOf, Chains
  <2> QED
    BY <2>1 DEF RefusedForCause, Justified, TunedGroup
<1> QED
  BY <1>1, <1>2, <1>3, <1>4 DEF IInv

LEMMA SubmitKeeps ==
  ASSUME IInv, NEW s \in Submissions \cup Later, Submit(s)
  PROVE  IInv'
<1>1. phase # "visit" /\ IsSubmission(s) /\ s.virtual \in Seq(VirtualModels)
  BY SubmissionsAssumption DEF Submit, Settled, IsSubmission
<1>2. todo = {} /\ stack = <<>> /\ checked = <<>>
  BY <1>1 DEF IInv, Search
<1>3. Submitted'
  BY <1>1 DEF IInv, Submitted, Submit, Settled
<1>4. Running'
  BY DEF IInv, Running, Submit
<1>5. CASE ManualValid(s.virtual)
  <2>1. phase' = "visit" /\ raw' = s /\ todo' = GroupNames(s.virtual)
        /\ stack' = <<>> /\ checked' = <<>>
    BY <1>2, <1>5 DEF Submit
  <2>2. Search'
    BY <1>1, <2>1, SearchBegins DEF Search
  <2> QED
    BY <1>3, <1>4, <2>1, <2>2 DEF IInv, RefusedForCause
<1>6. CASE ~ManualValid(s.virtual)
  <2>1. phase' = "refused" /\ raw' = s /\ todo' = {} /\ stack' = <<>> /\ checked' = <<>>
    BY <1>2, <1>6 DEF Submit
  <2>2. Search'
    BY <2>1 DEF Search
  <2> QED
    BY <1>3, <1>4, <1>6, <2>1, <2>2 DEF IInv, RefusedForCause
<1> QED
  BY <1>5, <1>6

LEMMA VisitRootKeeps ==
  ASSUME IInv, NEW g, VisitRoot(g)
  PROVE  IInv'
<1>1. /\ phase = "visit" /\ stack = <<>> /\ g \in todo /\ UNCHANGED <<raw, active, source>>
      /\ Searching(raw.virtual, <<>>, todo, checked) /\ Len(stack) = 0
  BY DEF VisitRoot, IInv, Search
<1>2. g \notin Path
  BY <1>1 DEF Path
<1>3. ~TooDeep
  BY <1>1, DepthAssumption DEF TooDeep
<1>4. Checked(g) <=> Fine(checked, g, 0)
  BY <1>1 DEF Checked, Fine
<1>5. CASE Checked(g)
  <2>1. Proceed(<<>>, todo \ {g})
    BY <1>1, <1>2, <1>5 DEF VisitRoot, Visit
  <2> QED
    BY <1>1, <1>4, <1>5, <2>1, RootSkipped, GoesOn DEF Proceed
<1>6. CASE ~Checked(g)
  <2>1. Proceed(Append(<<>>, [name |-> g, rest |-> MembersOf(raw.virtual, g)]), todo \ {g})
    BY <1>1, <1>2, <1>3, <1>6 DEF VisitRoot, Visit
  <2> QED
    BY <1>1, <1>4, <1>6, <2>1, RootEntered, GoesOn DEF Proceed
<1> QED
  BY <1>5, <1>6

LEMMA LookAtKeeps ==
  ASSUME IInv, NEW m, LookAt(m)
  PROVE  IInv'
<1> DEFINE list == raw.virtual
           path == LookedAt(stack, m)
<1>1. /\ phase = "visit" /\ stack # <<>> /\ m \in stack[Len(stack)].rest
      /\ UNCHANGED <<raw, active, source>>
      /\ Searching(list, stack, todo, checked)
  BY DEF LookAt, Top, IInv, Search
<1>2. CASE m.model \notin GroupNames(list)
  <2>1. Proceed(path, todo)
    BY <1>2 DEF LookAt, LookedAt
  <2> QED
    BY <1>1, <1>2, <2>1, MemberPassed, GoesOn DEF Proceed
<1>3. CASE m.model \in GroupNames(list) /\ m.tuned
  <2>1. Refuse
    BY <1>3 DEF LookAt
  <2> QED
    BY <1>1, <1>3, <2>1, TunedJustified, Refuses
<1>4. CASE m.model \in GroupNames(list) /\ ~m.tuned
  <2>1. Visit(m.model, path, todo)
    BY <1>4 DEF LookAt, LookedAt
  <2>2. CASE m.model \in Path
    <3>1. Refuse
      BY <2>1, <2>2 DEF Visit
    <3>2. \E j \in DOMAIN stack : stack[j].name = m.model
      BY <2>2 DEF Path
    <3> QED
      BY <1>1, <3>1, <3>2, CycleJustified, Refuses
  <2>3. CASE m.model \notin Path /\ Checked(m.model)
    <3>1. Proceed(path, todo)
      BY <2>1, <2>3 DEF Visit
    <3>2. Fine(checked, m.model, Len(stack))
      BY <2>3 DEF Checked, Fine
    <3> QED
      BY <1>1, <1>4, <3>1, <3>2, MemberPassed, GoesOn DEF Proceed
  <2>4. CASE m.model \notin Path /\ ~Checked(m.model) /\ TooDeep
    <3>1. Refuse
      BY <2>1, <2>4 DEF Visit
    <3> QED
      BY <1>1, <1>4, <2>4, <3>1, DepthJustified, Refuses DEF TooDeep
  <2>5. CASE m.model \notin Path /\ ~Checked(m.model) /\ ~TooDeep
    <3>1. Proceed(Append(path, [name |-> m.model, rest |-> MembersOf(list, m.model)]), todo)
      BY <2>1, <2>5 DEF Visit
    <3>2. \A i \in DOMAIN stack : stack[i].name # m.model
      BY <2>5 DEF Path
    <3>3. Len(stack) < MaxGroupDepth
      <4>1. Len(stack) \in Nat
        BY <1>1, LenProperties DEF Searching, PathShape
      <4> QED
        BY <2>5, <4>1, DepthAssumption DEF TooDeep
    <3>4. ~Fine(checked, m.model, Len(stack))
      BY <2>5 DEF Checked, Fine
    <3>5. Searching(list, Append(path, [name |-> m.model, rest |-> MembersOf(list, m.model)]),
                    todo, checked)
      BY <1>1, <1>4, <3>2, <3>3, <3>4, MemberEntered
    <3> QED
      BY <1>1, <3>1, <3>5, GoesOn DEF Proceed
  <2> QED
    BY <2>2, <2>3, <2>4, <2>5
<1> QED
  BY <1>2, <1>3, <1>4

LEMMA ReturnKeeps ==
  ASSUME IInv, Return
  PROVE  IInv'
<1>1. /\ phase = "visit" /\ stack # <<>> /\ stack[Len(stack)].rest = {}
      /\ UNCHANGED <<phase, raw, todo, active, source>>
      /\ checked' = Learnt(stack, checked) /\ stack' = SubSeq(stack, 1, Len(stack) - 1)
      /\ Searching(raw.virtual, stack, todo, checked)
  BY DEF Return, Top, IInv, Search, Learnt
<1> QED
  BY <1>1, GroupLeft, GoesOn

LEMMA InstallKeeps ==
  ASSUME IInv, Install
  PROVE  IInv'
<1>1. /\ phase = "visit" /\ raw' = raw
      /\ Searching(raw.virtual, <<>>, {}, checked)
  BY DEF Install, IInv, Search
<1>2. RawSound(raw.virtual)
  BY <1>1, SearchEnds
<1>3. CASE \A vm \in Normalized(raw.virtual) : ManualValid(<<vm>>)
  <2>1. Settle("installed") /\ active' = Normal(raw) /\ source' = raw
    BY <1>3 DEF Install
  <2>2. Submitted'
    BY <1>1, <2>1 DEF IInv, Submitted, Settle, Settled
  <2>3. Search'
    BY <2>1 DEF Search, Settle
  <2>4. Running'
    BY <1>2, <1>3, <2>1 DEF Running
  <2> QED
    BY <2>1, <2>2, <2>3, <2>4 DEF IInv, RefusedForCause, Settle
<1>4. CASE ~(\A vm \in Normalized(raw.virtual) : ManualValid(<<vm>>))
  <2>1. Settle("refused") /\ UNCHANGED <<active, source>>
    BY <1>4 DEF Install
  <2>2. Submitted'
    BY <1>1, <2>1 DEF IInv, Submitted, Settle, Settled
  <2>3. Search'
    BY <2>1 DEF Search, Settle
  <2>4. Running'
    BY <2>1 DEF IInv, Running
  <2>5. RefusedForCause'
    BY <1>1, <1>4 DEF RefusedForCause
  <2> QED
    BY <2>2, <2>3, <2>4, <2>5 DEF IInv
<1> QED
  BY <1>3, <1>4

LEMMA StepKeeps == IInv /\ [Next]_vars => IInv'
<1> SUFFICES ASSUME IInv, [Next]_vars  PROVE IInv'
  OBVIOUS
<1>1. ASSUME NEW s \in IF phase = "idle" THEN Submissions ELSE Later, Submit(s)
      PROVE  IInv'
  BY <1>1, SubmitKeeps
<1>2. ASSUME NEW g \in Names, VisitRoot(g)  PROVE IInv'
  BY <1>2, VisitRootKeeps
<1>3. ASSUME NEW m \in Members, LookAt(m)  PROVE IInv'
  BY <1>3, LookAtKeeps
<1>4. CASE Return
  BY <1>4, ReturnKeeps
<1>5. CASE Install
  BY <1>5, InstallKeeps
<1>6. CASE UNCHANGED vars
  <2>1. Submitted' /\ Search' /\ Running'
    BY <1>6 DEF IInv, Submitted, Search, Running, vars
  <2>2. (RawChains(MaxGroupDepth + 1))' = RawChains(MaxGroupDepth + 1)
    BY <1>6 DEF RawChains, Chains, vars
  <2> QED
    BY <1>6, <2>1, <2>2 DEF IInv, RefusedForCause, vars
<1> QED
  BY <1>1, <1>2, <1>3, <1>4, <1>5, <1>6 DEF Next

(* The state of the search and what is true of the running configuration are  *)
(* kept by every step.                                                        *)
THEOREM Invariance == Spec => []IInv
BY Initially, StepKeeps, PTL DEF Spec

-----------------------------------------------------------------------------
LEMMA NormalTyped ==
  ASSUME NEW s, IsSubmission(s)
  PROVE  /\ Normal(s).virtual = Normalized(s.virtual)
         /\ Normal(s).missing \in Missing /\ Normal(s).retries \in Nat
<1>1. Normal(s).missing \in Missing
  BY DEF Normal, MissingOr, Missing
<1>2. Normal(s).retries \in Nat
  BY DEF Normal, NonNegative, IsSubmission
<1> QED
  BY <1>1, <1>2 DEF Normal

LEMMA TypesFollow ==
  ASSUME IInv
  PROVE  TypeOK
<1>1. /\ phase \in {"idle", "visit"} \cup Settled
      /\ IsSubmission(raw) /\ IsSubmission(source)
      /\ raw.virtual \in Seq(VirtualModels) /\ source.virtual \in Seq(VirtualModels)
  BY DEF IInv, Submitted, IsSubmission
<1>2. GroupNames(raw.virtual) \subseteq Names
  BY <1>1, LastEntry
<1>3. /\ todo \subseteq Names
      /\ Len(stack) <= MaxGroupDepth
      /\ \A i \in DOMAIN stack : stack[i].name \in Names /\ stack[i].rest \subseteq Members
      /\ DOMAIN checked \subseteq Names
      /\ \A g \in DOMAIN checked : checked[g] \in 0..(MaxGroupDepth - 1)
  <2>1. CASE phase = "visit"
    <3>1. Searching(raw.virtual, stack, todo, checked)
      BY <2>1 DEF IInv, Search
    <3>2. \A i \in DOMAIN stack : stack[i] \in PathEntries
      BY <3>1, LenProperties, ElementOfSeq DEF Searching, PathShape
    <3>3. \A i \in DOMAIN stack : stack[i].name \in Names /\ stack[i].rest \subseteq Members
      BY <3>2 DEF PathEntries
    <3>4. Len(stack) <= MaxGroupDepth
      BY <3>1 DEF Searching, PathShape
    <3>5. todo \subseteq Names /\ DOMAIN checked \subseteq Names
      BY <1>2, <3>1 DEF Searching, MemoShape
    <3>6. \A g \in DOMAIN checked : checked[g] \in 0..(MaxGroupDepth - 1)
      BY <3>1 DEF Searching, MemoShape
    <3> QED
      BY <3>3, <3>4, <3>5, <3>6
  <2>2. CASE phase # "visit"
    <3>1. todo = {} /\ stack = <<>> /\ checked = <<>>
      BY <2>2 DEF IInv, Search
    <3> QED
      BY <3>1, DepthAssumption
  <2> QED
    BY <2>1, <2>2
<1>4. /\ active.virtual = Normalized(source.virtual)
      /\ active.missing \in Missing /\ active.retries \in Nat
  BY <1>1, NormalTyped DEF IInv, Running
<1>5. /\ active.virtual \subseteq VirtualModels
      /\ \A vm \in active.virtual : vm.members # {} /\ vm.name # Nameless
  BY <1>1, <1>4, NormalizedEntries
<1> QED
  BY <1>1, <1>3, <1>4, <1>5 DEF TypeOK

LEMMA SoundFollows ==
  ASSUME IInv, Unhidden(source.virtual)
  PROVE  ActiveSound
<1>1. source.virtual \in Seq(VirtualModels) /\ RawSound(source.virtual)
  BY DEF IInv, Submitted, IsSubmission, Running
<1>2. active.virtual = Normalized(source.virtual)
  BY NormalTyped DEF IInv, Running, Submitted
<1> DEFINE groups == {v.name : v \in Normalized(source.virtual)}
<1>3. \A vm \in Normalized(source.virtual) : \A m \in vm.members :
        m.tuned => m.model \notin groups
  BY <1>1, NormalizedSound
<1>4. Chains(groups,
             LAMBDA g : UNION {Models(vm.members) :
                                 vm \in {v \in Normalized(source.virtual) : v.name = g}},
             MaxGroupDepth + 1) = {}
  BY <1>1, NormalizedSound
<1>5. ActiveChains(MaxGroupDepth + 1) = {}
  BY <1>2, <1>4 DEF ActiveChains, Chains
<1> QED
  BY <1>2, <1>3, <1>5 DEF ActiveSound

LEMMA ManualFollows ==
  ASSUME IInv
  PROVE  ManualKept
<1>1. source.virtual \in Seq(VirtualModels) /\ active.virtual = Normalized(source.virtual)
  BY NormalTyped DEF IInv, Submitted, IsSubmission, Running
<1>2. \A v, w \in active.virtual : v.name = w.name => v = w
  BY <1>1, NormalizedApart
<1> QED
  BY <1>1, <1>2 DEF ManualKept, IInv, Running

(* The path, the memo and the running configuration are well formed: no group *)
(* runs without members.                                                      *)
THEOREM TypeCorrect == Spec => []TypeOK
<1>1. IInv => TypeOK
  BY TypesFollow
<1> QED
  BY <1>1, Invariance, PTL

(* validateGroups lets no cycle, no chain too deep and no leaf setting on a   *)
(* reference to a group into the engine, whatever the order of its search and *)
(* although its memo spares it visits, so long as no entry is hidden by a     *)
(* later one of its name (the hidden ones it never sees).                     *)
THEOREM AlwaysSound == Spec => [](Unhidden(source.virtual) => ActiveSound)
<1>1. IInv => (Unhidden(source.virtual) => ActiveSound)
  BY SoundFollows
<1> QED
  BY <1>1, Invariance, PTL

(* ... and refuses no configuration without one of these faults.              *)
THEOREM AlwaysForCause == Spec => []RefusedForCause
<1>1. IInv => RefusedForCause
  BY DEF IInv
<1> QED
  BY <1>1, Invariance, PTL

(* A running manual group has its selected member, and its name for itself.   *)
THEOREM AlwaysManual == Spec => []ManualKept
<1>1. IInv => ManualKept
  BY ManualFollows
<1> QED
  BY <1>1, Invariance, PTL

-----------------------------------------------------------------------------
(* Glob is a recursion over the matcher's states; what follows shows that it  *)
(* ends, whatever the pattern and the name, and what it answers.              *)
GlobStep(p, n, glob, x) ==
  LET pi == x[1]
      ni == x[2]
      star == x[3]
      mark == x[4]
  IN  IF ni > Len(n) THEN OnlyStars(p, pi)
      ELSE IF Fits(p, n, pi, ni) THEN glob[<<pi + 1, ni + 1, star, mark>>]
      ELSE IF IsStar(p, pi) THEN glob[<<pi + 1, ni, pi, ni>>]
      ELSE IF star > 0 THEN glob[<<star + 1, mark + 1, star, mark + 1>>]
      ELSE FALSE

(* It grows at every step: the star's run grows, or else the pattern is read. *)
Progress(p, x) == x[4] * (Len(p) + 2) + x[1] + x[3]

Solves(p, n, glob) == glob = [x \in GlobStates(p, n) |-> GlobStep(p, n, glob, x)]

LEMMA GlobIs ==
  ASSUME NEW p, NEW n
  PROVE  Glob(p, n) = (CHOOSE glob : Solves(p, n, glob))[<<1, 1, 0, 1>>]
BY DEF Glob, Solves, GlobStep

LEMMA StatesAre ==
  ASSUME NEW p, NEW n, Len(p) \in Nat, Len(n) \in Nat, NEW a, NEW b, NEW c, NEW d
  PROVE  <<a, b, c, d>> \in GlobStates(p, n)
           <=> /\ a \in 1..Len(p) + 1 /\ b \in 1..Len(n) + 1
               /\ c \in 0..Len(p) /\ d \in 1..Len(n) + 1 /\ c < a /\ d <= b
BY DEF GlobStates

LEMMA StatesHave ==
  ASSUME NEW p, NEW n, Len(p) \in Nat, Len(n) \in Nat, NEW x \in GlobStates(p, n)
  PROVE  /\ x = <<x[1], x[2], x[3], x[4]>>
         /\ x[1] \in 1..Len(p) + 1 /\ x[2] \in 1..Len(n) + 1
         /\ x[3] \in 0..Len(p) /\ x[4] \in 1..Len(n) + 1 /\ x[3] < x[1] /\ x[4] <= x[2]
BY DEF GlobStates

LEMMA Products ==
  ASSUME NEW a \in Nat, NEW b \in Nat, a <= b, NEW k \in Nat
  PROVE  a * k \in Nat /\ b * k \in Nat /\ a * k <= b * k /\ (a + 1) * k = a * k + k
<1>1. PICK c \in Nat : b = a + c
  <2>1. b - a \in Nat /\ b = a + (b - a)
    OBVIOUS
  <2> QED
    BY <2>1
<1>2. (a + c) * k = a * k + c * k /\ (a + 1) * k = a * k + k
  OBVIOUS
<1>3. a * k \in Nat /\ c * k \in Nat /\ b * k \in Nat
  OBVIOUS
<1> QED
  BY <1>1, <1>2, <1>3

LEMMA ProgressBounded ==
  ASSUME NEW p, NEW n, Len(p) \in Nat, Len(n) \in Nat, NEW x \in GlobStates(p, n)
  PROVE  /\ Progress(p, x) \in Nat
         /\ Progress(p, x) <= (Len(n) + 1) * (Len(p) + 2) + Len(p) + 1 + Len(p)
<1>1. PICK l \in Nat, m \in Nat : l = Len(p) /\ m = Len(n)
  OBVIOUS
<1>2. PICK pi \in 1..l + 1, star \in 0..l, mark \in 1..m + 1 :
        x[1] = pi /\ x[3] = star /\ x[4] = mark
  BY <1>1, StatesHave
<1>3. l + 2 \in Nat /\ mark \in Nat /\ m + 1 \in Nat /\ mark <= m + 1
  OBVIOUS
<1>4. PICK a \in Nat, b \in Nat : a = mark * (l + 2) /\ b = (m + 1) * (l + 2) /\ a <= b
  BY <1>3, Products
<1>5. Progress(p, x) = a + pi + star
  BY <1>1, <1>2, <1>4 DEF Progress
<1>6. a + pi + star \in Nat /\ a + pi + star <= b + l + 1 + l
  BY <1>4
<1> QED
  BY <1>1, <1>4, <1>5, <1>6

(* The states the matcher may turn to from x.                                 *)
Follows(p, n, x, y) ==
  \/ Fits(p, n, x[1], x[2]) /\ y = <<x[1] + 1, x[2] + 1, x[3], x[4]>>
  \/ IsStar(p, x[1]) /\ y = <<x[1] + 1, x[2], x[1], x[2]>>
  \/ x[3] > 0 /\ y = <<x[3] + 1, x[4] + 1, x[3], x[4] + 1>>

LEMMA Onward ==
  ASSUME NEW p, NEW n, Len(p) \in Nat, Len(n) \in Nat, NEW x \in GlobStates(p, n),
         x[2] <= Len(n), NEW y, Follows(p, n, x, y)
  PROVE  y \in GlobStates(p, n) /\ Progress(p, y) > Progress(p, x)
<1>1. PICK l \in Nat, m \in Nat : l = Len(p) /\ m = Len(n)
  OBVIOUS
<1>2. PICK pi \in 1..l + 1, ni \in 1..m, star \in 0..l, mark \in 1..m + 1 :
        /\ x[1] = pi /\ x[2] = ni /\ x[3] = star /\ x[4] = mark
        /\ star < pi /\ mark <= ni
  BY <1>1, StatesHave
<1>3. PICK k \in Nat : k = l + 2
  OBVIOUS
<1>4. PICK a \in Nat : a = mark * k
  BY <1>3, Products
<1>5. Progress(p, x) = a + pi + star
  BY <1>1, <1>2, <1>3, <1>4 DEF Progress
<1>6. CASE Fits(p, n, x[1], x[2]) /\ y = <<x[1] + 1, x[2] + 1, x[3], x[4]>>
  <2>1. pi <= l /\ y = <<pi + 1, ni + 1, star, mark>>
    BY <1>1, <1>2, <1>6 DEF Fits
  <2>2. pi + 1 \in 1..l + 1 /\ ni + 1 \in 1..m + 1 /\ star < pi + 1 /\ mark <= ni + 1
    BY <1>2, <2>1
  <2>3. y \in GlobStates(p, n)
    BY <1>1, <2>1, <2>2, StatesAre
  <2>4. Progress(p, y) = a + (pi + 1) + star
    BY <1>1, <1>3, <1>4, <2>1 DEF Progress
  <2> QED
    BY <1>5, <2>3, <2>4
<1>7. CASE IsStar(p, x[1]) /\ y = <<x[1] + 1, x[2], x[1], x[2]>>
  <2>1. pi <= l /\ y = <<pi + 1, ni, pi, ni>>
    BY <1>1, <1>2, <1>7 DEF IsStar
  <2>2. pi + 1 \in 1..l + 1 /\ ni \in 1..m + 1 /\ pi \in 0..l /\ pi < pi + 1 /\ ni <= ni
    BY <2>1
  <2>3. y \in GlobStates(p, n)
    BY <1>1, <2>1, <2>2, StatesAre
  <2>4. PICK b \in Nat : b = ni * k /\ a <= b
    BY <1>2, <1>4, Products
  <2>5. Progress(p, y) = b + (pi + 1) + pi
    BY <1>1, <1>3, <2>1, <2>4 DEF Progress
  <2> QED
    BY <1>2, <1>5, <2>3, <2>4, <2>5
<1>8. CASE x[3] > 0 /\ y = <<x[3] + 1, x[4] + 1, x[3], x[4] + 1>>
  <2>1. star > 0 /\ y = <<star + 1, mark + 1, star, mark + 1>>
    BY <1>2, <1>8
  <2>2. star + 1 \in 1..l + 1 /\ mark + 1 \in 1..m + 1 /\ star < star + 1
    BY <1>2
  <2>3. y \in GlobStates(p, n)
    BY <1>1, <2>1, <2>2, StatesAre
  <2>4. (mark + 1) * k = a + k
    BY <1>4, Products
  <2>5. Progress(p, y) = a + k + (star + 1) + star
    BY <1>1, <1>3, <2>1, <2>4 DEF Progress
  <2> QED
    BY <1>3, <1>5, <2>3, <2>5
<1> QED
  BY <1>6, <1>7, <1>8 DEF Follows

(* Only what is known of later states counts.                                 *)
LEMMA StepReads ==
  ASSUME NEW p, NEW n, Len(p) \in Nat, Len(n) \in Nat, NEW x \in GlobStates(p, n),
         NEW f, NEW g,
         \A y \in GlobStates(p, n) : Progress(p, y) > Progress(p, x) => f[y] = g[y]
  PROVE  GlobStep(p, n, f, x) = GlobStep(p, n, g, x)
<1>1. x[2] \in Nat
  BY StatesHave
<1>2. CASE x[2] > Len(n)
  BY <1>2 DEF GlobStep
<1>3. CASE ~(x[2] > Len(n))
  <2>1. \A y : Follows(p, n, x, y) => f[y] = g[y]
    BY <1>1, <1>3, Onward
  <2>2. CASE Fits(p, n, x[1], x[2])
    BY <1>3, <2>1, <2>2 DEF GlobStep, Follows
  <2>3. CASE ~Fits(p, n, x[1], x[2]) /\ IsStar(p, x[1])
    BY <1>3, <2>1, <2>3 DEF GlobStep, Follows
  <2>4. CASE ~Fits(p, n, x[1], x[2]) /\ ~IsStar(p, x[1])
    BY <1>3, <2>1, <2>4 DEF GlobStep, Follows
  <2> QED
    BY <2>2, <2>3, <2>4
<1> QED
  BY <1>2, <1>3

LEMMA GlobSolved ==
  ASSUME NEW p, NEW n, Len(p) \in Nat, Len(n) \in Nat
  PROVE  \E glob : Solves(p, n, glob)
<1> DEFINE S == GlobStates(p, n)
           most == (Len(n) + 1) * (Len(p) + 2) + Len(p) + 1 + Len(p)
           Late(k) == {x \in S : Progress(p, x) + k > most}
           Partly(k, f) == f = [x \in Late(k) |-> GlobStep(p, n, f, x)]
           P == {k \in Nat : \E f : Partly(k, f)}
<1>1. \A x \in S : Progress(p, x) \in Nat /\ Progress(p, x) <= most
  BY ProgressBounded
<1>2. most \in Nat
  BY Products
<1> HIDE DEF S, most
<1>3. 0 \in P
  <2>1. Late(0) = {}
    BY <1>1, <1>2
  <2>2. Partly(0, [x \in {} |-> TRUE])
    BY <2>1
  <2> QED
    BY <2>2
<1>4. ASSUME NEW k \in Nat, k \in P  PROVE k + 1 \in P
  <2>1. PICK f : Partly(k, f)
    BY <1>4
  <2> DEFINE g == [x \in Late(k + 1) |-> GlobStep(p, n, f, x)]
  <2>2. \A x \in Late(k) : x \in Late(k + 1)
    BY <1>1, <1>2
  <2>3. \A x \in Late(k) : f[x] = GlobStep(p, n, f, x)
    BY <2>1
  <2>4. \A x \in Late(k) : g[x] = f[x]
    BY <2>2, <2>3
  <2>5. ASSUME NEW x \in Late(k + 1)  PROVE GlobStep(p, n, f, x) = GlobStep(p, n, g, x)
    <3>1. x \in S /\ \A y \in S : Progress(p, y) > Progress(p, x) => y \in Late(k)
      BY <1>1, <1>2
    <3>2. \A y \in S : Progress(p, y) > Progress(p, x) => f[y] = g[y]
      BY <2>4, <3>1
    <3> HIDE DEF g
    <3> QED
      BY <3>1, <3>2, StepReads DEF S
  <2>6. Partly(k + 1, g)
    <3>1. [x \in Late(k + 1) |-> GlobStep(p, n, f, x)]
            = [x \in Late(k + 1) |-> GlobStep(p, n, g, x)]
      BY <2>5
    <3> QED
      BY <3>1
  <2> QED
    <3> HIDE DEF Partly, g
    <3> QED
      BY <2>6
<1> HIDE DEF P
<1>5. Nat \subseteq P
  BY <1>3, <1>4, InductionOnNat
<1>6. most + 1 \in P
  BY <1>2, <1>5
<1>7. PICK f : Partly(most + 1, f)
  BY <1>6 DEF P
<1>8. Late(most + 1) = S
  BY <1>1, <1>2
<1>9. f = [x \in S |-> GlobStep(p, n, f, x)]
  BY <1>7, <1>8
<1> QED
  BY <1>9 DEF Solves, S

-----------------------------------------------------------------------------
(* What is left of a name from b on is covered by what is left of a pattern   *)
(* from a on.                                                                 *)
Laid(p, n, a, b, at) ==
  /\ at \in [b..Len(n) -> a..Len(p)]
  /\ \A i, j \in b..Len(n) : i <= j => at[i] <= at[j]
  /\ \A i \in b..Len(n) : p[at[i]] \in Wildcards \cup {n[i]}
  /\ \A k \in a..Len(p) : p[k] # "*" =>
       \E i \in b..Len(n) : at[i] = k /\ \A j \in b..Len(n) : at[j] = k => j = i

CoversFrom(p, n, a, b) == \E at : Laid(p, n, a, b, at)

LEMMA NothingLeft ==
  ASSUME NEW p, NEW n, Len(p) \in Nat, Len(n) \in Nat, NEW a \in Nat
  PROVE  CoversFrom(p, n, a, Len(n) + 1) <=> OnlyStars(p, a)
<1>1. (Len(n) + 1)..Len(n) = {}
  OBVIOUS
<1>2. ASSUME OnlyStars(p, a)  PROVE Laid(p, n, a, Len(n) + 1, [i \in {} |-> 0])
  BY <1>1, <1>2 DEF Laid, OnlyStars
<1>3. ASSUME NEW at, Laid(p, n, a, Len(n) + 1, at)  PROVE OnlyStars(p, a)
  BY <1>1, <1>3 DEF Laid, OnlyStars
<1> QED
  BY <1>2, <1>3 DEF CoversFrom

LEMMA NoPatternLeft ==
  ASSUME NEW p, NEW n, Len(p) \in Nat, Len(n) \in Nat, NEW b \in 1..Len(n)
  PROVE  ~CoversFrom(p, n, Len(p) + 1, b)
<1>1. b \in b..Len(n) /\ (Len(p) + 1)..Len(p) = {}
  OBVIOUS
<1>2. ASSUME NEW at, Laid(p, n, Len(p) + 1, b, at)  PROVE FALSE
  BY <1>1, <1>2 DEF Laid
<1> QED
  BY <1>2 DEF CoversFrom

(* A token that is no star holds one token of the name.                       *)
LEMMA TokenHolds ==
  ASSUME NEW p, NEW n, Len(p) \in Nat, Len(n) \in Nat, NEW a \in 1..Len(p),
         NEW b \in 1..Len(n), p[a] # "*"
  PROVE  CoversFrom(p, n, a, b)
           <=> p[a] \in Wildcards \cup {n[b]} /\ CoversFrom(p, n, a + 1, b + 1)
<1>1. PICK l \in Nat, m \in Nat : l = Len(p) /\ m = Len(n)
  OBVIOUS
<1>2. a \in a..l /\ b \in b..m /\ a \in 1..l /\ b \in 1..m
  BY <1>1
<1>3. /\ \A k \in (a + 1)..l : k \in a..l /\ k > a
      /\ \A i \in (b + 1)..m : i \in b..m /\ i > b
      /\ \A k \in a..l : k = a \/ k \in (a + 1)..l
      /\ \A i \in b..m : i = b \/ i \in (b + 1)..m
  BY <1>2
<1>4. ASSUME NEW at, Laid(p, n, a, b, at)
      PROVE  p[a] \in Wildcards \cup {n[b]} /\ CoversFrom(p, n, a + 1, b + 1)
  <2>1. /\ at \in [b..m -> a..l]
        /\ \A i, j \in b..m : i <= j => at[i] <= at[j]
        /\ \A i \in b..m : p[at[i]] \in Wildcards \cup {n[i]}
        /\ \A k \in a..l : p[k] # "*" =>
             \E i \in b..m : at[i] = k /\ \A j \in b..m : at[j] = k => j = i
    BY <1>1, <1>4 DEF Laid
  <2>2. PICK i \in b..m : at[i] = a /\ \A j \in b..m : at[j] = a => j = i
    BY <1>2, <2>1
  <2>3. at[b] = a
    <3>1. at[b] \in a..l /\ at[b] <= at[i]
      BY <1>2, <2>1
    <3> QED
      BY <2>2, <3>1
  <2>4. \A j \in b..m : at[j] = a => j = b
    BY <1>2, <2>2, <2>3
  <2>5. \A j \in (b + 1)..m : at[j] \in (a + 1)..l
    BY <1>3, <2>1, <2>4
  <2> DEFINE to == [j \in (b + 1)..m |-> at[j]]
  <2>6. to \in [(b + 1)..m -> (a + 1)..l] /\ \A j \in (b + 1)..m : to[j] = at[j]
    BY <2>5
  <2> HIDE DEF to
  <2>7. \A j, k \in (b + 1)..m : j <= k => to[j] <= to[k]
    BY <1>3, <2>1, <2>6
  <2>8. \A j \in (b + 1)..m : p[to[j]] \in Wildcards \cup {n[j]}
    BY <1>3, <2>1, <2>6
  <2>9. ASSUME NEW k \in (a + 1)..l, p[k] # "*"
        PROVE  \E j \in (b + 1)..m : to[j] = k /\ \A h \in (b + 1)..m : to[h] = k => h = j
    <3>1. PICK j \in b..m : at[j] = k /\ \A h \in b..m : at[h] = k => h = j
      BY <1>3, <2>1, <2>9
    <3>2. j # b
      BY <1>3, <2>3, <3>1
    <3> QED
      BY <1>3, <2>6, <3>1, <3>2
  <2>10. Laid(p, n, a + 1, b + 1, to)
    BY <1>1, <2>6, <2>7, <2>8, <2>9 DEF Laid
  <2>11. p[a] \in Wildcards \cup {n[b]}
    BY <1>2, <2>1, <2>3
  <2> QED
    BY <2>10, <2>11 DEF CoversFrom
<1>5. ASSUME p[a] \in Wildcards \cup {n[b]}, NEW to, Laid(p, n, a + 1, b + 1, to)
      PROVE  CoversFrom(p, n, a, b)
  <2>1. /\ to \in [(b + 1)..m -> (a + 1)..l]
        /\ \A i, j \in (b + 1)..m : i <= j => to[i] <= to[j]
        /\ \A i \in (b + 1)..m : p[to[i]] \in Wildcards \cup {n[i]}
        /\ \A k \in (a + 1)..l : p[k] # "*" =>
             \E i \in (b + 1)..m : to[i] = k /\ \A j \in (b + 1)..m : to[j] = k => j = i
    BY <1>1, <1>5 DEF Laid
  <2> DEFINE at == [j \in b..m |-> IF j = b THEN a ELSE to[j]]
  <2>2. at[b] = a /\ \A j \in (b + 1)..m : at[j] = to[j]
    BY <1>2, <1>3
  <2>3. at \in [b..m -> a..l]
    BY <1>2, <1>3, <2>1
  <2> HIDE DEF at
  <2>4. ASSUME NEW j \in b..m, NEW k \in b..m, j <= k  PROVE at[j] <= at[k]
    <3>1. \A h \in (b + 1)..m : to[h] \in Int /\ to[h] > a
      BY <1>3, <2>1
    <3>2. CASE j = b
      BY <1>2, <1>3, <2>2, <2>4, <3>1, <3>2
    <3>3. CASE j \in (b + 1)..m
      <4>1. k \in (b + 1)..m
        BY <1>3, <2>4, <3>3
      <4> QED
        BY <2>1, <2>2, <2>4, <3>3, <4>1
    <3> QED
      BY <1>3, <3>2, <3>3
  <2>5. \A j \in b..m : p[at[j]] \in Wildcards \cup {n[j]}
    BY <1>3, <1>5, <2>1, <2>2
  <2>6. ASSUME NEW k \in a..l, p[k] # "*"
        PROVE  \E j \in b..m : at[j] = k /\ \A h \in b..m : at[h] = k => h = j
    <3>1. \A j \in (b + 1)..m : to[j] # a
      BY <1>3, <2>1
    <3>2. CASE k = a
      BY <1>2, <1>3, <2>2, <3>1, <3>2
    <3>3. CASE k \in (a + 1)..l
      <4>1. PICK j \in (b + 1)..m : to[j] = k /\ \A h \in (b + 1)..m : to[h] = k => h = j
        BY <2>1, <2>6, <3>3
      <4>2. k # a
        BY <1>3, <3>3
      <4> QED
        BY <1>3, <2>2, <4>1, <4>2
    <3> QED
      BY <1>3, <3>2, <3>3
  <2>7. Laid(p, n, a, b, at)
    BY <1>1, <2>3, <2>4, <2>5, <2>6 DEF Laid
  <2> QED
    BY <2>7 DEF CoversFrom
<1> QED
  BY <1>4, <1>5 DEF CoversFrom

(* A star holds nothing, or a token and what it may hold besides.             *)
LEMMA StarHolds ==
  ASSUME NEW p, NEW n, Len(p) \in Nat, Len(n) \in Nat, NEW a \in 1..Len(p),
         NEW b \in 1..Len(n), p[a] = "*"
  PROVE  CoversFrom(p, n, a, b)
           <=> CoversFrom(p, n, a + 1, b) \/ CoversFrom(p, n, a, b + 1)
<1>1. PICK l \in Nat, m \in Nat : l = Len(p) /\ m = Len(n)
  OBVIOUS
<1>2. a \in a..l /\ b \in b..m /\ a \in 1..l /\ b \in 1..m
  BY <1>1
<1>3. /\ \A k \in (a + 1)..l : k \in a..l /\ k > a
      /\ \A i \in (b + 1)..m : i \in b..m /\ i > b
      /\ \A k \in a..l : k = a \/ k \in (a + 1)..l
      /\ \A i \in b..m : i = b \/ i \in (b + 1)..m
  BY <1>2
<1>4. ASSUME NEW at, Laid(p, n, a, b, at)
      PROVE  CoversFrom(p, n, a + 1, b) \/ CoversFrom(p, n, a, b + 1)
  <2>1. /\ at \in [b..m -> a..l]
        /\ \A i, j \in b..m : i <= j => at[i] <= at[j]
        /\ \A i \in b..m : p[at[i]] \in Wildcards \cup {n[i]}
        /\ \A k \in a..l : p[k] # "*" =>
             \E i \in b..m : at[i] = k /\ \A j \in b..m : at[j] = k => j = i
    BY <1>1, <1>4 DEF Laid
  <2>2. CASE at[b] = a
    <3> DEFINE to == [j \in (b + 1)..m |-> at[j]]
    <3>1. to \in [(b + 1)..m -> a..l] /\ \A j \in (b + 1)..m : to[j] = at[j]
      BY <1>3, <2>1
    <3> HIDE DEF to
    <3>2. ASSUME NEW k \in a..l, p[k] # "*"
          PROVE  \E j \in (b + 1)..m : to[j] = k /\ \A h \in (b + 1)..m : to[h] = k => h = j
      <4>1. PICK j \in b..m : at[j] = k /\ \A h \in b..m : at[h] = k => h = j
        BY <2>1, <3>2
      <4>2. j # b
        BY <2>2, <3>2, <4>1
      <4> QED
        BY <1>3, <3>1, <4>1, <4>2
    <3>3. \A i, j \in (b + 1)..m : i <= j => to[i] <= to[j]
      BY <1>3, <2>1, <3>1
    <3>4. \A i \in (b + 1)..m : p[to[i]] \in Wildcards \cup {n[i]}
      BY <1>3, <2>1, <3>1
    <3>5. Laid(p, n, a, b + 1, to)
      BY <1>1, <3>1, <3>2, <3>3, <3>4 DEF Laid
    <3> QED
      BY <3>5 DEF CoversFrom
  <2>3. CASE at[b] # a
    <3>1. at[b] \in (a + 1)..l
      BY <1>2, <1>3, <2>1, <2>3
    <3>2. \A i \in b..m : at[i] \in (a + 1)..l
      <4>1. \A i \in b..m : at[i] \in a..l /\ at[b] <= at[i]
        BY <1>2, <2>1
      <4> QED
        BY <1>3, <3>1, <4>1
    <3>3. at \in [b..m -> (a + 1)..l]
      BY <2>1, <3>2
    <3>4. Laid(p, n, a + 1, b, at)
      BY <1>1, <1>3, <2>1, <3>3 DEF Laid
    <3> QED
      BY <3>4 DEF CoversFrom
  <2> QED
    BY <2>2, <2>3
<1>5. ASSUME NEW at, Laid(p, n, a + 1, b, at)  PROVE CoversFrom(p, n, a, b)
  <2>1. Laid(p, n, a, b, at)
    <3>1. /\ at \in [b..m -> (a + 1)..l]
          /\ \A i, j \in b..m : i <= j => at[i] <= at[j]
          /\ \A i \in b..m : p[at[i]] \in Wildcards \cup {n[i]}
          /\ \A k \in (a + 1)..l : p[k] # "*" =>
               \E i \in b..m : at[i] = k /\ \A j \in b..m : at[j] = k => j = i
      BY <1>1, <1>5 DEF Laid
    <3>2. at \in [b..m -> a..l]
      BY <1>3, <3>1
    <3>3. \A k \in a..l : p[k] # "*" =>
            \E i \in b..m : at[i] = k /\ \A j \in b..m : at[j] = k => j = i
      BY <1>3, <3>1
    <3> QED
      BY <1>1, <3>1, <3>2, <3>3 DEF Laid
  <2> QED
    BY <2>1 DEF CoversFrom
<1>6. ASSUME NEW to, Laid(p, n, a, b + 1, to)  PROVE CoversFrom(p, n, a, b)
  <2>1. /\ to \in [(b + 1)..m -> a..l]
        /\ \A i, j \in (b + 1)..m : i <= j => to[i] <= to[j]
        /\ \A i \in (b + 1)..m : p[to[i]] \in Wildcards \cup {n[i]}
        /\ \A k \in a..l : p[k] # "*" =>
             \E i \in (b + 1)..m : to[i] = k /\ \A j \in (b + 1)..m : to[j] = k => j = i
    BY <1>1, <1>6 DEF Laid
  <2> DEFINE at == [j \in b..m |-> IF j = b THEN a ELSE to[j]]
  <2>2. at[b] = a /\ \A j \in (b + 1)..m : at[j] = to[j]
    BY <1>2, <1>3
  <2>3. at \in [b..m -> a..l]
    BY <1>2, <1>3, <2>1
  <2> HIDE DEF at
  <2>4. ASSUME NEW j \in b..m, NEW k \in b..m, j <= k  PROVE at[j] <= at[k]
    <3>1. \A h \in (b + 1)..m : to[h] \in Int /\ to[h] >= a
      BY <2>1
    <3>2. CASE j = b
      BY <1>2, <1>3, <2>2, <2>4, <3>1, <3>2
    <3>3. CASE j \in (b + 1)..m
      <4>1. k \in (b + 1)..m
        BY <1>3, <2>4, <3>3
      <4> QED
        BY <2>1, <2>2, <2>4, <3>3, <4>1
    <3> QED
      BY <1>3, <3>2, <3>3
  <2>5. \A j \in b..m : p[at[j]] \in Wildcards \cup {n[j]}
    <3>1. p[a] \in Wildcards
      BY DEF Wildcards
    <3> QED
      BY <1>3, <2>1, <2>2, <3>1
  <2>6. ASSUME NEW k \in a..l, p[k] # "*"
        PROVE  \E j \in b..m : at[j] = k /\ \A h \in b..m : at[h] = k => h = j
    <3>1. PICK j \in (b + 1)..m : to[j] = k /\ \A h \in (b + 1)..m : to[h] = k => h = j
      BY <2>1, <2>6
    <3>2. k # a
      BY <2>6
    <3> QED
      BY <1>3, <2>2, <3>1, <3>2
  <2>7. Laid(p, n, a, b, at)
    BY <1>1, <2>3, <2>4, <2>5, <2>6 DEF Laid
  <2> QED
    BY <2>7 DEF CoversFrom
<1> QED
  BY <1>4, <1>5, <1>6 DEF CoversFrom

(* A star holds any number of tokens.                                         *)
LEMMA StarHoldsAny ==
  ASSUME NEW p, NEW n, Len(p) \in Nat, Len(n) \in Nat, NEW a \in 1..Len(p), p[a] = "*",
         NEW b \in 1..Len(n) + 1
  PROVE  CoversFrom(p, n, a, b) <=> \E j \in b..Len(n) + 1 : CoversFrom(p, n, a + 1, j)
<1>1. PICK l \in Nat, m \in Nat : l = Len(p) /\ m = Len(n)
  OBVIOUS
<1> DEFINE C(i, j) == CoversFrom(p, n, i, j)
           Q(j) == C(a, j) <=> \E h \in j..m + 1 : C(a + 1, h)
           P == {k \in Nat : k <= m => Q(m + 1 - k)}
<1>2. C(a, m + 1) <=> C(a + 1, m + 1)
  <2>1. a \in Nat /\ a + 1 \in Nat
    OBVIOUS
  <2>2. C(a, m + 1) <=> OnlyStars(p, a)
    BY <1>1, <2>1, NothingLeft
  <2>3. C(a + 1, m + 1) <=> OnlyStars(p, a + 1)
    BY <1>1, <2>1, NothingLeft
  <2>4. OnlyStars(p, a) <=> OnlyStars(p, a + 1)
    <3>1. \A i \in a..l : i = a \/ i \in (a + 1)..l
      OBVIOUS
    <3>2. \A i \in (a + 1)..l : i \in a..l
      OBVIOUS
    <3> QED
      BY <1>1, <3>1, <3>2 DEF OnlyStars
  <2> QED
    BY <2>2, <2>3, <2>4
<1>3. ASSUME NEW j \in 1..m  PROVE C(a, j) <=> C(a + 1, j) \/ C(a, j + 1)
  BY <1>1, <1>3, StarHolds
<1> HIDE DEF C
<1>4. 0 \in P
  <2>1. \A h \in (m + 1 - 0)..m + 1 : h = m + 1
    OBVIOUS
  <2>2. m + 1 - 0 = m + 1 /\ m + 1 \in (m + 1 - 0)..m + 1
    OBVIOUS
  <2> QED
    BY <1>2, <2>1, <2>2
<1>5. ASSUME NEW k \in Nat, k \in P  PROVE k + 1 \in P
  <2>1. CASE k + 1 <= m
    <3>1. PICK j \in 1..m : j = m + 1 - (k + 1)
      BY <2>1
    <3>2. Q(j + 1)
      <4>1. k <= m /\ m + 1 - k = j + 1
        BY <2>1, <3>1
      <4> QED
        BY <1>5, <4>1
    <3>3. \A h \in j..m + 1 : h = j \/ h \in (j + 1)..m + 1
      OBVIOUS
    <3>4. j \in j..m + 1 /\ \A h \in (j + 1)..m + 1 : h \in j..m + 1
      OBVIOUS
    <3>5. Q(j)
      BY <1>3, <3>2, <3>3, <3>4
    <3> QED
      BY <3>1, <3>5
  <2> QED
    BY <2>1
<1> HIDE DEF P
<1>6. Nat \subseteq P
  BY <1>4, <1>5, InductionOnNat
<1>7. PICK k \in Nat : k <= m /\ b = m + 1 - k
  <2>1. m + 1 - b \in Nat /\ m + 1 - b <= m /\ b = m + 1 - (m + 1 - b)
    BY <1>1
  <2> QED
    BY <2>1
<1>8. Q(m + 1 - k)
  BY <1>6, <1>7 DEF P
<1> QED
  BY <1>1, <1>7, <1>8 DEF C

(* Tokens that are no stars hold one token each.                              *)
LEMMA TokensHold ==
  ASSUME NEW p, NEW n, Len(p) \in Nat, Len(n) \in Nat, NEW a \in 1..Len(p) + 1,
         NEW b \in 1..Len(n) + 1, CoversFrom(p, n, a, b),
         NEW k \in Nat, a + k <= Len(p) + 1, \A i \in a..(a + k - 1) : p[i] # "*"
  PROVE  b + k <= Len(n) + 1 /\ CoversFrom(p, n, a + k, b + k)
<1>1. PICK l \in Nat, m \in Nat : l = Len(p) /\ m = Len(n)
  OBVIOUS
<1> DEFINE P == {h \in Nat : h <= k => b + h <= m + 1 /\ CoversFrom(p, n, a + h, b + h)}
<1>2. 0 \in P
  <2>1. a + 0 = a /\ b + 0 = b /\ b <= m + 1
    BY <1>1
  <2> QED
    BY <2>1
<1>3. ASSUME NEW h \in Nat, h \in P  PROVE h + 1 \in P
  <2>1. CASE h + 1 <= k
    <3>1. PICK i \in 1..l, j \in 1..m + 1 : i = a + h /\ j = b + h
      <4>1. a + h \in 1..l /\ b + h \in 1..m + 1
        BY <1>1, <1>3, <2>1
      <4> QED
        BY <4>1
    <3>2. p[i] # "*"
      <4>1. i \in a..(a + k - 1)
        BY <2>1, <3>1
      <4> QED
        BY <4>1
    <3>3. CoversFrom(p, n, i, j)
      BY <1>3, <2>1, <3>1
    <3>4. j # m + 1
      <4>1. i \in Nat /\ i \in i..l
        OBVIOUS
      <4>2. SUFFICES ASSUME j = m + 1  PROVE FALSE
        OBVIOUS
      <4>3. OnlyStars(p, i)
        BY <1>1, <3>3, <4>1, <4>2, NothingLeft
      <4> QED
        BY <1>1, <3>2, <4>1, <4>3 DEF OnlyStars
    <3>5. j \in 1..m
      BY <3>4
    <3>6. CoversFrom(p, n, i + 1, j + 1)
      BY <1>1, <3>2, <3>3, <3>5, TokenHolds
    <3>7. i + 1 = a + (h + 1) /\ j + 1 = b + (h + 1) /\ j + 1 <= m + 1
      BY <3>1, <3>5
    <3> QED
      BY <3>6, <3>7
  <2> QED
    BY <2>1
<1> HIDE DEF P
<1>4. Nat \subseteq P
  BY <1>2, <1>3, InductionOnNat
<1>5. k \in P /\ k <= k
  BY <1>4
<1> QED
  BY <1>1, <1>5 DEF P

(* Since its last star the matcher has read as many tokens of the pattern, no *)
(* star among them, as of the name.                                           *)
SinceStar(p, x) ==
  x[3] > 0 => /\ p[x[3]] = "*"
              /\ x[2] - x[4] = x[1] - x[3] - 1
              /\ \A i \in (x[3] + 1)..(x[1] - 1) : p[i] # "*"

(* What is left is covered as it stands, or once the last star holds more.    *)
Coverable(p, n, x) ==
  \/ CoversFrom(p, n, x[1], x[2])
  \/ x[3] > 0 /\ \E j \in (x[4] + 1)..Len(n) + 1 : CoversFrom(p, n, x[3] + 1, j)

(* A star that holds more leaves the rest of the pattern to a later place.    *)
LEMMA RestLater ==
  ASSUME NEW p, NEW n, Len(p) \in Nat, Len(n) \in Nat, NEW x \in GlobStates(p, n),
         SinceStar(p, x), x[3] > 0,
         \E j \in (x[4] + 1)..Len(n) + 1 : CoversFrom(p, n, x[3] + 1, j)
  PROVE  \E h \in (x[2] + 1)..Len(n) + 1 : CoversFrom(p, n, x[1], h)
<1>1. PICK l \in Nat, m \in Nat : l = Len(p) /\ m = Len(n)
  OBVIOUS
<1>2. PICK pi \in 1..l + 1, ni \in 1..m + 1, star \in 0..l, mark \in 1..m + 1 :
        /\ x[1] = pi /\ x[2] = ni /\ x[3] = star /\ x[4] = mark
        /\ star < pi /\ mark <= ni
  BY <1>1, StatesHave
<1>3. /\ ni - mark = pi - star - 1
      /\ \A i \in (star + 1)..(pi - 1) : p[i] # "*"
      /\ star > 0
  BY <1>2 DEF SinceStar
<1>4. PICK k \in Nat : k = ni - mark
  BY <1>2
<1>5. PICK a \in 1..l + 1, b \in 1..m + 1 : a = star + 1 /\ b > mark /\ CoversFrom(p, n, a, b)
  <2>1. PICK j \in (mark + 1)..m + 1 : CoversFrom(p, n, star + 1, j)
    BY <1>1, <1>2
  <2>2. star + 1 \in 1..l + 1 /\ j \in 1..m + 1 /\ j > mark
    BY <1>2
  <2> QED
    BY <2>1, <2>2
<1>6. a + k = pi /\ a + k <= l + 1 /\ b + k > ni
  BY <1>2, <1>3, <1>4, <1>5
<1>7. CoversFrom(p, n, a, b) /\ \A i \in a..(a + k - 1) : p[i] # "*"
  <2>1. a + k - 1 = pi - 1
    BY <1>6
  <2> QED
    BY <1>3, <1>5, <2>1
<1>8. b + k <= m + 1 /\ CoversFrom(p, n, a + k, b + k)
  BY <1>1, <1>6, <1>7, TokensHold
<1>9. b + k \in (ni + 1)..m + 1
  BY <1>6, <1>8
<1>10. CoversFrom(p, n, pi, b + k)
  BY <1>6, <1>8
<1> QED
  <2>1. PICK h \in (ni + 1)..m + 1 : CoversFrom(p, n, pi, h)
    BY <1>9, <1>10
  <2> QED
    BY <1>1, <1>2, <2>1

(* At the name's end.                                                         *)
LEMMA AtEnd ==
  ASSUME NEW p, NEW n, Len(p) \in Nat, Len(n) \in Nat, NEW x \in GlobStates(p, n),
         SinceStar(p, x), x[2] > Len(n)
  PROVE  Coverable(p, n, x) <=> OnlyStars(p, x[1])
<1>1. x[1] \in Nat /\ x[2] = Len(n) + 1
  BY StatesHave
<1>2. CoversFrom(p, n, x[1], x[2]) <=> OnlyStars(p, x[1])
  BY <1>1, NothingLeft
<1>3. ASSUME x[3] > 0, NEW j \in (x[4] + 1)..Len(n) + 1, CoversFrom(p, n, x[3] + 1, j)
      PROVE  FALSE
  <2>1. PICK h \in (x[2] + 1)..Len(n) + 1 : TRUE
    BY <1>3, RestLater
  <2> QED
    BY <1>1, <2>1
<1> QED
  BY <1>2, <1>3 DEF Coverable

LEMMA TokenRead ==
  ASSUME NEW p, NEW n, Len(p) \in Nat, Len(n) \in Nat, NEW x \in GlobStates(p, n),
         SinceStar(p, x), x[2] <= Len(n), \A i \in 1..Len(n) : n[i] # "*",
         Fits(p, n, x[1], x[2])
  PROVE  LET y == <<x[1] + 1, x[2] + 1, x[3], x[4]>>
         IN  SinceStar(p, y) /\ (Coverable(p, n, x) <=> Coverable(p, n, y))
<1>1. PICK l \in Nat, m \in Nat : l = Len(p) /\ m = Len(n)
  OBVIOUS
<1>2. PICK pi \in 1..l, ni \in 1..m, star \in 0..l, mark \in 1..m + 1 :
        /\ x[1] = pi /\ x[2] = ni /\ x[3] = star /\ x[4] = mark
        /\ star < pi /\ mark <= ni
  <2>1. PICK pi \in 1..l + 1, ni \in 1..m, star \in 0..l, mark \in 1..m + 1 :
          /\ x[1] = pi /\ x[2] = ni /\ x[3] = star /\ x[4] = mark
          /\ star < pi /\ mark <= ni
    BY <1>1, StatesHave
  <2>2. pi \in 1..l
    BY <1>1, <2>1 DEF Fits
  <2> QED
    BY <2>1, <2>2
<1> DEFINE y == <<x[1] + 1, x[2] + 1, x[3], x[4]>>
<1>3. y[1] = pi + 1 /\ y[2] = ni + 1 /\ y[3] = star /\ y[4] = mark
  BY <1>2
<1> HIDE DEF y
<1>4. p[pi] # "*" /\ p[pi] \in Wildcards \cup {n[ni]}
  BY <1>1, <1>2 DEF Fits, Wildcards
<1>5. SinceStar(p, y)
  <2>1. \A i \in (star + 1)..(pi + 1 - 1) : i = pi \/ i \in (star + 1)..(pi - 1)
    OBVIOUS
  <2>2. ASSUME star > 0
        PROVE  /\ p[star] = "*" /\ ni - mark = pi - star - 1
               /\ \A i \in (star + 1)..(pi - 1) : p[i] # "*"
    BY <1>2, <2>2 DEF SinceStar
  <2>3. ASSUME star > 0
        PROVE  /\ p[star] = "*" /\ ni + 1 - mark = pi + 1 - star - 1
               /\ \A i \in (star + 1)..(pi + 1 - 1) : p[i] # "*"
    BY <1>4, <2>1, <2>2, <2>3
  <2> QED
    BY <1>3, <2>3 DEF SinceStar
<1>6. CoversFrom(p, n, pi, ni) <=> CoversFrom(p, n, pi + 1, ni + 1)
  BY <1>1, <1>4, TokenHolds
<1>7. Coverable(p, n, x) <=> Coverable(p, n, y)
  BY <1>2, <1>3, <1>6 DEF Coverable
<1> QED
  BY <1>5, <1>7 DEF y

LEMMA StarRead ==
  ASSUME NEW p, NEW n, Len(p) \in Nat, Len(n) \in Nat, NEW x \in GlobStates(p, n),
         SinceStar(p, x), x[2] <= Len(n), IsStar(p, x[1])
  PROVE  LET y == <<x[1] + 1, x[2], x[1], x[2]>>
         IN  SinceStar(p, y) /\ (Coverable(p, n, x) <=> Coverable(p, n, y))
<1>1. PICK l \in Nat, m \in Nat : l = Len(p) /\ m = Len(n)
  OBVIOUS
<1>2. PICK pi \in 1..l, ni \in 1..m : x[1] = pi /\ x[2] = ni
  <2>1. x[1] \in 1..l + 1 /\ x[2] \in 1..m
    BY <1>1, StatesHave
  <2>2. x[1] \in 1..l
    BY <1>1, <2>1 DEF IsStar
  <2> QED
    BY <2>1, <2>2
<1> DEFINE y == <<x[1] + 1, x[2], x[1], x[2]>>
<1>3. y[1] = pi + 1 /\ y[2] = ni /\ y[3] = pi /\ y[4] = ni
  BY <1>2
<1> HIDE DEF y
<1>4. p[pi] = "*"
  BY <1>2 DEF IsStar
<1>5. SinceStar(p, y)
  <2>1. (pi + 1)..(pi + 1 - 1) = {} /\ ni - ni = pi + 1 - pi - 1
    OBVIOUS
  <2> QED
    BY <1>3, <1>4, <2>1 DEF SinceStar
<1>6. \A b \in 1..m + 1 :
        CoversFrom(p, n, pi, b) <=> \E j \in b..m + 1 : CoversFrom(p, n, pi + 1, j)
  BY <1>1, <1>4, StarHoldsAny
<1>7. Coverable(p, n, y) <=> CoversFrom(p, n, pi, ni)
  <2>1. \A j \in ni..m + 1 : j = ni \/ j \in (ni + 1)..m + 1
    OBVIOUS
  <2>2. ni \in ni..m + 1 /\ pi > 0 /\ \A j \in (ni + 1)..m + 1 : j \in ni..m + 1
    OBVIOUS
  <2>3. CoversFrom(p, n, pi, ni) <=> \E j \in ni..m + 1 : CoversFrom(p, n, pi + 1, j)
    BY <1>6
  <2> QED
    BY <1>1, <1>3, <2>1, <2>2, <2>3 DEF Coverable
<1>8. ASSUME x[3] > 0, NEW j \in (x[4] + 1)..Len(n) + 1, CoversFrom(p, n, x[3] + 1, j)
      PROVE  CoversFrom(p, n, pi, ni)
  <2>1. PICK h \in (ni + 1)..m + 1 : CoversFrom(p, n, pi, h)
    BY <1>1, <1>2, <1>8, RestLater
  <2>2. PICK i \in h..m + 1 : CoversFrom(p, n, pi + 1, i)
    <3>1. h \in 1..m + 1
      OBVIOUS
    <3> QED
      BY <1>6, <2>1, <3>1
  <2>3. i \in ni..m + 1 /\ ni \in 1..m + 1
    BY <2>1, <2>2
  <2> QED
    BY <1>6, <2>2, <2>3
<1>9. Coverable(p, n, x) <=> CoversFrom(p, n, pi, ni)
  BY <1>2, <1>8 DEF Coverable
<1> QED
  BY <1>5, <1>7, <1>9 DEF y

(* What is there does not fit: only a star that holds more can help.          *)
LEMMA Mismatch ==
  ASSUME NEW p, NEW n, Len(p) \in Nat, Len(n) \in Nat, NEW x \in GlobStates(p, n),
         x[2] <= Len(n), ~Fits(p, n, x[1], x[2]), ~IsStar(p, x[1])
  PROVE  ~CoversFrom(p, n, x[1], x[2])
<1>1. PICK l \in Nat, m \in Nat : l = Len(p) /\ m = Len(n)
  OBVIOUS
<1>2. PICK pi \in 1..l + 1, ni \in 1..m : x[1] = pi /\ x[2] = ni
  <2>1. x[1] \in 1..l + 1 /\ x[2] \in 1..m
    BY <1>1, StatesHave
  <2> QED
    BY <2>1
<1>3. CASE pi = l + 1
  BY <1>1, <1>2, <1>3, NoPatternLeft
<1>4. CASE pi \in 1..l
  <2>1. p[pi] # "*" /\ p[pi] \notin Wildcards \cup {n[ni]}
    BY <1>1, <1>2, <1>4 DEF Fits, IsStar, Wildcards
  <2> QED
    BY <1>1, <1>2, <1>4, <2>1, TokenHolds
<1> QED
  BY <1>3, <1>4

LEMMA StarExtended ==
  ASSUME NEW p, NEW n, Len(p) \in Nat, Len(n) \in Nat, NEW x \in GlobStates(p, n),
         SinceStar(p, x), x[2] <= Len(n), ~Fits(p, n, x[1], x[2]), ~IsStar(p, x[1]),
         x[3] > 0
  PROVE  LET y == <<x[3] + 1, x[4] + 1, x[3], x[4] + 1>>
         IN  SinceStar(p, y) /\ (Coverable(p, n, x) <=> Coverable(p, n, y))
<1>1. PICK l \in Nat, m \in Nat : l = Len(p) /\ m = Len(n)
  OBVIOUS
<1>2. PICK star \in 1..l, mark \in 1..m : x[3] = star /\ x[4] = mark
  <2>1. x[3] \in 0..l /\ x[4] \in 1..m + 1 /\ x[2] \in 1..m /\ x[4] <= x[2]
    BY <1>1, StatesHave
  <2> QED
    BY <2>1
<1> DEFINE y == <<x[3] + 1, x[4] + 1, x[3], x[4] + 1>>
<1>3. y[1] = star + 1 /\ y[2] = mark + 1 /\ y[3] = star /\ y[4] = mark + 1
  BY <1>2
<1> HIDE DEF y
<1>4. SinceStar(p, y)
  <2>1. (star + 1)..(star + 1 - 1) = {} /\ (mark + 1) - (mark + 1) = star + 1 - star - 1
    OBVIOUS
  <2>2. p[star] = "*"
    BY <1>2 DEF SinceStar
  <2> QED
    BY <1>3, <2>1, <2>2 DEF SinceStar
<1>5. Coverable(p, n, x) <=> \E j \in (mark + 1)..m + 1 : CoversFrom(p, n, star + 1, j)
  BY <1>1, <1>2, Mismatch DEF Coverable
<1>6. Coverable(p, n, y) <=> \E j \in (mark + 1)..m + 1 : CoversFrom(p, n, star + 1, j)
  <2>1. \A j \in (mark + 1)..m + 1 : j = mark + 1 \/ j \in (mark + 1 + 1)..m + 1
    OBVIOUS
  <2>2. /\ mark + 1 \in (mark + 1)..m + 1 /\ star > 0
        /\ \A j \in (mark + 1 + 1)..m + 1 : j \in (mark + 1)..m + 1
    OBVIOUS
  <2> QED
    BY <1>1, <1>3, <2>1, <2>2 DEF Coverable
<1> QED
  BY <1>4, <1>5, <1>6 DEF y

LEMMA StepRight ==
  ASSUME NEW p, NEW n, Len(p) \in Nat, Len(n) \in Nat, \A i \in 1..Len(n) : n[i] # "*",
         NEW glob, NEW x \in GlobStates(p, n), SinceStar(p, x),
         \A y \in GlobStates(p, n) :
           Progress(p, y) > Progress(p, x) /\ SinceStar(p, y) =>
             (glob[y] <=> Coverable(p, n, y))
  PROVE  GlobStep(p, n, glob, x) <=> Coverable(p, n, x)
<1>1. CASE x[2] > Len(n)
  BY <1>1, AtEnd DEF GlobStep
<1>2. CASE ~(x[2] > Len(n))
  <2>1. x[2] <= Len(n)
    BY <1>2, StatesHave
  <2>2. ASSUME NEW y, Follows(p, n, x, y), SinceStar(p, y)
        PROVE  glob[y] <=> Coverable(p, n, y)
    BY <2>1, <2>2, Onward
  <2>3. CASE Fits(p, n, x[1], x[2])
    <3> DEFINE y == <<x[1] + 1, x[2] + 1, x[3], x[4]>>
    <3>1. SinceStar(p, y) /\ (Coverable(p, n, x) <=> Coverable(p, n, y))
      BY <2>1, <2>3, TokenRead
    <3>2. Follows(p, n, x, y)
      BY <2>3 DEF Follows
    <3>3. glob[y] <=> Coverable(p, n, x)
      BY <2>2, <3>1, <3>2
    <3>4. GlobStep(p, n, glob, x) <=> glob[y]
      BY <1>2, <2>3 DEF GlobStep
    <3> QED
      BY <3>3, <3>4
  <2>4. CASE ~Fits(p, n, x[1], x[2]) /\ IsStar(p, x[1])
    <3> DEFINE y == <<x[1] + 1, x[2], x[1], x[2]>>
    <3>1. SinceStar(p, y) /\ (Coverable(p, n, x) <=> Coverable(p, n, y))
      BY <2>1, <2>4, StarRead
    <3>2. Follows(p, n, x, y)
      BY <2>4 DEF Follows
    <3>3. glob[y] <=> Coverable(p, n, x)
      BY <2>2, <3>1, <3>2
    <3>4. GlobStep(p, n, glob, x) <=> glob[y]
      BY <1>2, <2>4 DEF GlobStep
    <3> QED
      BY <3>3, <3>4
  <2>5. CASE ~Fits(p, n, x[1], x[2]) /\ ~IsStar(p, x[1]) /\ x[3] > 0
    <3> DEFINE y == <<x[3] + 1, x[4] + 1, x[3], x[4] + 1>>
    <3>1. SinceStar(p, y) /\ (Coverable(p, n, x) <=> Coverable(p, n, y))
      BY <2>1, <2>5, StarExtended
    <3>2. Follows(p, n, x, y)
      BY <2>5 DEF Follows
    <3>3. glob[y] <=> Coverable(p, n, x)
      BY <2>2, <3>1, <3>2
    <3>4. GlobStep(p, n, glob, x) <=> glob[y]
      BY <1>2, <2>5 DEF GlobStep
    <3> QED
      BY <3>3, <3>4
  <2>6. CASE ~Fits(p, n, x[1], x[2]) /\ ~IsStar(p, x[1]) /\ ~(x[3] > 0)
    <3>1. ~Coverable(p, n, x)
      BY <2>1, <2>6, Mismatch DEF Coverable
    <3>2. ~GlobStep(p, n, glob, x)
      BY <1>2, <2>6 DEF GlobStep
    <3> QED
      BY <3>1, <3>2
  <2> QED
    BY <2>3, <2>4, <2>5, <2>6
<1> QED
  BY <1>1, <1>2

LEMMA SolutionRight ==
  ASSUME NEW p, NEW n, Len(p) \in Nat, Len(n) \in Nat, \A i \in 1..Len(n) : n[i] # "*",
         NEW glob, Solves(p, n, glob)
  PROVE  glob[<<1, 1, 0, 1>>] <=> CoversFrom(p, n, 1, 1)
<1> DEFINE S == GlobStates(p, n)
           most == (Len(n) + 1) * (Len(p) + 2) + Len(p) + 1 + Len(p)
           Right(x) == SinceStar(p, x) => (glob[x] <=> Coverable(p, n, x))
           P == {k \in Nat : \A x \in S : Progress(p, x) + k > most => Right(x)}
<1>1. \A x \in S : Progress(p, x) \in Nat /\ Progress(p, x) <= most
  BY ProgressBounded
<1>2. most \in Nat
  BY Products
<1>3. ASSUME NEW x \in S  PROVE glob[x] = GlobStep(p, n, glob, x)
  BY <1>3 DEF Solves
<1>4. ASSUME NEW x \in S, \A y \in S : Progress(p, y) > Progress(p, x) => Right(y)
      PROVE  Right(x)
  <2>1. SUFFICES ASSUME SinceStar(p, x)  PROVE glob[x] <=> Coverable(p, n, x)
    OBVIOUS
  <2>2. \A y \in GlobStates(p, n) :
          Progress(p, y) > Progress(p, x) /\ SinceStar(p, y) =>
            (glob[y] <=> Coverable(p, n, y))
    BY <1>4
  <2>3. GlobStep(p, n, glob, x) <=> Coverable(p, n, x)
    <3> HIDE DEF Right
    <3> QED
      BY <2>1, <2>2, StepRight
  <2> QED
    BY <1>3, <2>3
<1> HIDE DEF S, most, Right
<1>5. 0 \in P
  BY <1>1, <1>2
<1>6. ASSUME NEW k \in Nat, k \in P  PROVE k + 1 \in P
  <2>1. ASSUME NEW x \in S, Progress(p, x) + (k + 1) > most  PROVE Right(x)
    <3>1. \A y \in S : Progress(p, y) > Progress(p, x) => Progress(p, y) + k > most
      BY <1>1, <1>2, <2>1
    <3>2. \A y \in S : Progress(p, y) > Progress(p, x) => Right(y)
      BY <1>6, <3>1
    <3> QED
      BY <1>4, <3>2
  <2> QED
    BY <2>1
<1> HIDE DEF P
<1>7. Nat \subseteq P
  BY <1>5, <1>6, InductionOnNat
<1> DEFINE first == <<1, 1, 0, 1>>
<1>8. first \in S
  <2>1. 1 \in 1..Len(p) + 1 /\ 1 \in 1..Len(n) + 1 /\ 0 \in 0..Len(p) /\ 0 < 1 /\ 1 <= 1
    OBVIOUS
  <2> QED
    BY <2>1, StatesAre DEF S
<1>9. SinceStar(p, first)
  BY DEF SinceStar
<1>10. Right(first)
  <2>1. most + 1 \in P /\ Progress(p, first) + (most + 1) > most
    BY <1>1, <1>2, <1>7, <1>8
  <2> HIDE DEF first
  <2> QED
    BY <1>8, <2>1 DEF P
<1>11. Coverable(p, n, first) <=> CoversFrom(p, n, 1, 1)
  BY DEF Coverable
<1> QED
  BY <1>9, <1>10, <1>11 DEF Right

(* The matcher answers whether the name's tokens can be laid on the pattern.  *)
LEMMA GlobFrom ==
  ASSUME NEW p, NEW n, Len(p) \in Nat, Len(n) \in Nat, \A i \in 1..Len(n) : n[i] # "*"
  PROVE  Glob(p, n) <=> CoversFrom(p, n, 1, 1)
<1>1. Solves(p, n, CHOOSE glob : Solves(p, n, glob))
  BY GlobSolved
<1>2. (CHOOSE glob : Solves(p, n, glob))[<<1, 1, 0, 1>>] <=> CoversFrom(p, n, 1, 1)
  BY <1>1, SolutionRight
<1>3. Glob(p, n) = (CHOOSE glob : Solves(p, n, glob))[<<1, 1, 0, 1>>]
  BY GlobIs
<1> QED
  BY <1>2, <1>3

LEMMA CoversIs ==
  ASSUME NEW p, NEW n, Len(p) \in Nat, Len(n) \in Nat
  PROVE  Covers(p, n) <=> CoversFrom(p, n, 1, 1)
<1>1. PICK l \in Nat, m \in Nat : l = Len(p) /\ m = Len(n)
  OBVIOUS
<1> DEFINE Held(at, k) == {i \in 1..m : at[i] = k}
           Once(at, k) == \E i \in 1..m : at[i] = k /\ \A j \in 1..m : at[j] = k => j = i
<1>2. ASSUME NEW at, NEW k  PROVE Cardinality(Held(at, k)) = 1 <=> Once(at, k)
  <2>1. IsFiniteSet(Held(at, k))
    <3>1. IsFiniteSet(1..m)
      BY FS_Interval
    <3> QED
      BY <3>1, FS_Subset
  <2>2. ASSUME NEW i, Held(at, k) = {i}  PROVE Once(at, k)
    <3>1. i \in Held(at, k) /\ \A j \in Held(at, k) : j = i
      BY <2>2
    <3> QED
      BY <3>1
  <2>3. ASSUME NEW i \in 1..m, at[i] = k, \A j \in 1..m : at[j] = k => j = i
        PROVE  Held(at, k) = {i}
    BY <2>3
  <2> QED
    BY <2>1, <2>2, <2>3, FS_Singleton
<1>3. ASSUME NEW at \in [1..m -> 1..l], \A i \in 1..(m - 1) : at[i] <= at[i + 1],
             NEW i \in 1..m, NEW j \in 1..m, i <= j
      PROVE  at[i] <= at[j]
  <2> DEFINE P == {k \in Nat : i + k <= m => at[i] <= at[i + k]}
  <2>1. 0 \in P
    <3>1. i + 0 = i /\ at[i] \in Int
      BY <1>3
    <3> QED
      BY <3>1
  <2>2. ASSUME NEW k \in Nat, k \in P  PROVE k + 1 \in P
    <3>1. CASE i + (k + 1) <= m
      <4>1. PICK h \in 1..(m - 1) : h = i + k /\ h + 1 = i + (k + 1)
        <5>1. i + k \in 1..(m - 1) /\ i + k + 1 = i + (k + 1)
          BY <3>1
        <5> QED
          BY <5>1
      <4>2. at[i] <= at[h] /\ at[h] <= at[h + 1]
        BY <1>3, <2>2, <3>1, <4>1
      <4>3. at[i] \in Int /\ at[h] \in Int /\ at[h + 1] \in Int
        <5>1. h \in 1..m /\ h + 1 \in 1..m
          OBVIOUS
        <5> QED
          BY <1>3, <5>1
      <4>4. at[i] <= at[h + 1]
        BY <4>2, <4>3
      <4> QED
        BY <4>1, <4>4
    <3> QED
      BY <3>1
  <2> HIDE DEF P
  <2>3. Nat \subseteq P
    BY <2>1, <2>2, InductionOnNat
  <2>4. PICK k \in Nat : j = i + k
    <3>1. j - i \in Nat /\ j = i + (j - i)
      BY <1>3
    <3> QED
      BY <3>1
  <2>5. k \in P /\ i + k <= m
    BY <2>3, <2>4
  <2> QED
    BY <2>4, <2>5 DEF P
<1>4. Covers(p, n) <=>
        \E at \in [1..m -> 1..l] :
          /\ \A i \in 1..(m - 1) : at[i] <= at[i + 1]
          /\ \A i \in 1..m : p[at[i]] \in Wildcards \cup {n[i]}
          /\ \A k \in 1..l : p[k] # "*" => Cardinality(Held(at, k)) = 1
  BY <1>1 DEF Covers
<1>5. \A at : Laid(p, n, 1, 1, at) <=>
        /\ at \in [1..m -> 1..l]
        /\ \A i, j \in 1..m : i <= j => at[i] <= at[j]
        /\ \A i \in 1..m : p[at[i]] \in Wildcards \cup {n[i]}
        /\ \A k \in 1..l : p[k] # "*" => Once(at, k)
  BY <1>1 DEF Laid
<1> HIDE DEF Held, Once
<1>6. ASSUME Covers(p, n)  PROVE CoversFrom(p, n, 1, 1)
  <2>1. PICK at \in [1..m -> 1..l] :
          /\ \A i \in 1..(m - 1) : at[i] <= at[i + 1]
          /\ \A i \in 1..m : p[at[i]] \in Wildcards \cup {n[i]}
          /\ \A k \in 1..l : p[k] # "*" => Cardinality(Held(at, k)) = 1
    BY <1>4, <1>6
  <2>2. \A k \in 1..l : p[k] # "*" => Once(at, k)
    BY <1>2, <2>1
  <2>3. \A i, j \in 1..m : i <= j => at[i] <= at[j]
    BY <1>3, <2>1
  <2>4. Laid(p, n, 1, 1, at)
    BY <1>5, <2>1, <2>2, <2>3
  <2> QED
    BY <2>4 DEF CoversFrom
<1>7. ASSUME NEW at, Laid(p, n, 1, 1, at)  PROVE Covers(p, n)
  <2>1. /\ at \in [1..m -> 1..l]
        /\ \A i, j \in 1..m : i <= j => at[i] <= at[j]
        /\ \A i \in 1..m : p[at[i]] \in Wildcards \cup {n[i]}
        /\ \A k \in 1..l : p[k] # "*" => Once(at, k)
    BY <1>5, <1>7
  <2>2. \A k \in 1..l : p[k] # "*" => Cardinality(Held(at, k)) = 1
    BY <1>2, <2>1
  <2>3. ASSUME NEW i \in 1..(m - 1)  PROVE at[i] <= at[i + 1]
    <3>1. i \in 1..m /\ i + 1 \in 1..m /\ i <= i + 1
      OBVIOUS
    <3> QED
      BY <2>1, <3>1
  <2> QED
    BY <1>4, <2>1, <2>2, <2>3
<1> QED
  BY <1>6, <1>7 DEF CoversFrom

(* The matcher of rules answers what a pattern means: although it goes back   *)
(* to the last star only, it finds a way to lay the name on the pattern if    *)
(* there is one.  A "*" in the name it would take for the pattern's own.      *)
THEOREM GlobRight ==
  ASSUME NEW p, NEW n, Len(p) \in Nat, Len(n) \in Nat, \A i \in 1..Len(n) : n[i] # "*"
  PROVE  Glob(p, n) <=> Covers(p, n)
BY GlobFrom, CoversIs

(* A model's name without its namespace is a name as well.                    *)
LEMMA NamesCut ==
  ASSUME NEW S, NEW n \in Seq(S)
  PROVE  ModelName(n) \in Seq(S)
<1> DEFINE cuts == {i \in DOMAIN n : n[i] = "/"}
<1>1. DOMAIN n = 1..Len(n) /\ Len(n) \in Nat
  BY LenProperties
<1>2. CASE cuts = {}
  BY <1>2 DEF ModelName
<1>3. CASE cuts # {}
  <2>1. \E i \in cuts : \A j \in cuts : j <= i
    <3>1. cuts \subseteq Nat /\ \A j \in cuts : j <= Len(n)
      BY <1>1
    <3> HIDE DEF cuts
    <3> QED
      BY <1>1, <1>3, <3>1, GreatestMember
  <2>2. PICK i \in 1..Len(n) : i = Max(cuts)
    <3>1. Max(cuts) \in cuts
      BY <2>1 DEF Max
    <3> QED
      BY <1>1, <3>1
  <2>3. SubSeq(n, i + 1, Len(n)) \in Seq(S)
    BY <1>1
  <2>4. ModelName(n) = SubSeq(n, i + 1, Len(n))
    BY <1>3, <2>2 DEF ModelName
  <2> QED
    BY <2>3, <2>4
<1> QED
  BY <1>2, <1>3

LEMMA ModelGlobRight ==
  ASSUME NEW p, Len(p) \in Nat, NEW S, "*" \notin S, NEW n \in Seq(S)
  PROVE  ModelGlob(p, n) <=> CoversModel(p, n)
<1>1. ASSUME NEW m \in Seq(S)  PROVE Glob(p, m) <=> Covers(p, m)
  <2>1. Len(m) \in Nat /\ \A i \in 1..Len(m) : m[i] \in S
    BY LenProperties, ElementOfSeq
  <2>2. \A i \in 1..Len(m) : m[i] # "*"
    BY <2>1
  <2> QED
    BY <2>1, <2>2, GlobRight
<1>2. (Glob(p, n) <=> Covers(p, n)) /\ (Glob(p, ModelName(n)) <=> Covers(p, ModelName(n)))
  BY <1>1, NamesCut
<1> QED
  BY <1>2 DEF ModelGlob, CoversModel

-----------------------------------------------------------------------------
(* The list of rules that is installed has those with a pattern, in order.    *)
KeptStep(rules, missing, f, n) ==
  IF n = 0 THEN <<>>
  ELSE IF rules[n].model = <<>> THEN f[n - 1]
  ELSE Append(f[n - 1], KeptRule(rules[n], missing))

Keeps(rules, missing, kept) ==
  kept = [n \in 0..Len(rules) |-> KeptStep(rules, missing, kept, n)]

LEMMA KeptIs ==
  ASSUME NEW rules, NEW missing
  PROVE  KeptRules(rules, missing) = (CHOOSE kept : Keeps(rules, missing, kept))[Len(rules)]
BY DEF KeptRules, Keeps, KeptStep

LEMMA KeptSolved ==
  ASSUME NEW rules, Len(rules) \in Nat, NEW missing
  PROVE  \E kept : Keeps(rules, missing, kept)
<1> DEFINE Partly(k, f) == f = [n \in 0..k |-> KeptStep(rules, missing, f, n)]
           P == {k \in Nat : \E f : Partly(k, f)}
<1>1. 0 \in P
  <2> DEFINE f == [n \in 0..0 |-> <<>>]
  <2>1. Partly(0, f)
    BY DEF KeptStep
  <2> QED
    BY <2>1
<1>2. ASSUME NEW k \in Nat, k \in P  PROVE k + 1 \in P
  <2>1. PICK f : Partly(k, f)
    BY <1>2
  <2> DEFINE g == [n \in 0..(k + 1) |-> KeptStep(rules, missing, f, n)]
  <2>2. \A n \in 0..k : n \in 0..(k + 1)
    OBVIOUS
  <2>3. \A n \in 0..k : f[n] = KeptStep(rules, missing, f, n)
    BY <2>1
  <2>4. \A n \in 0..k : g[n] = f[n]
    BY <2>2, <2>3
  <2>5. ASSUME NEW n \in 0..(k + 1)
        PROVE  KeptStep(rules, missing, f, n) = KeptStep(rules, missing, g, n)
    <3>1. n # 0 => n - 1 \in 0..k
      OBVIOUS
    <3>2. n # 0 => f[n - 1] = g[n - 1]
      BY <2>4, <3>1
    <3> HIDE DEF g
    <3> QED
      BY <3>2 DEF KeptStep
  <2>6. [n \in 0..(k + 1) |-> KeptStep(rules, missing, f, n)]
          = [n \in 0..(k + 1) |-> KeptStep(rules, missing, g, n)]
    BY <2>5
  <2>7. Partly(k + 1, g)
    BY <2>6
  <2> QED
    <3> HIDE DEF Partly, g
    <3> QED
      BY <2>7
<1> HIDE DEF P
<1>3. Nat \subseteq P
  BY <1>1, <1>2, InductionOnNat
<1>4. Len(rules) \in P
  BY <1>3
<1> QED
  BY <1>4 DEF P, Keeps

(* The list has the first n rules that have a pattern: its i-th is ix[i]'s.   *)
Picks(rules, missing, n, list, ix) ==
  /\ list \in Seq(Rules)
  /\ ix \in [1..Len(list) -> 1..n]
  /\ \A i \in 1..Len(list) :
       rules[ix[i]].model # <<>> /\ list[i] = KeptRule(rules[ix[i]], missing)
  /\ \A i, j \in 1..Len(list) : i < j => ix[i] < ix[j]
  /\ \A j \in 1..n : rules[j].model # <<>> => \E i \in 1..Len(list) : ix[i] = j

LEMMA KeptRuleIs ==
  ASSUME NEW rule \in Rules, NEW missing \in Missing
  PROVE  /\ KeptRule(rule, missing) \in Rules
         /\ KeptRule(rule, missing).model = rule.model
         /\ rule.retries = <<>> => KeptRule(rule, missing).retries = <<>>
         /\ rule.retries # <<>> =>
              KeptRule(rule, missing).retries = <<NonNegative(rule.retries[1])>>
         /\ KeptRule(rule, missing).missing = MissingOr(rule.missing, missing)
<1> DEFINE again == IF rule.retries = <<>> THEN rule.retries ELSE <<NonNegative(rule.retries[1])>>
           said == MissingOr(rule.missing, missing)
<1>1. again \in Seq(Int)
  <2>1. rule.retries \in Seq(Int)
    BY DEF Rules
  <2>2. CASE rule.retries # <<>>
    <3>1. rule.retries[1] \in Int
      BY <2>1, <2>2
    <3>2. NonNegative(rule.retries[1]) \in Int
      BY <3>1 DEF NonNegative
    <3> QED
      BY <2>2, <3>2
  <2> QED
    BY <2>1, <2>2
<1>2. said \in Missing \cup {"", "typo"}
  BY DEF MissingOr
<1>3. KeptRule(rule, missing) = [rule EXCEPT !.retries = again, !.missing = said]
  BY DEF KeptRule
<1>4. (rule.retries = <<>> => again = <<>>)
      /\ (rule.retries # <<>> => again = <<NonNegative(rule.retries[1])>>)
  OBVIOUS
<1> HIDE DEF again, said
<1>5. [rule EXCEPT !.retries = again, !.missing = said] \in Rules
  BY <1>1, <1>2 DEF Rules
<1>6. [rule EXCEPT !.retries = again, !.missing = said].model = rule.model
  BY DEF Rules
<1>7. [rule EXCEPT !.retries = again, !.missing = said].retries = again
  BY DEF Rules
<1>8. [rule EXCEPT !.retries = again, !.missing = said].missing = said
  BY DEF Rules
<1> QED
  BY <1>3, <1>4, <1>5, <1>6, <1>7, <1>8 DEF said

LEMMA PickNone ==
  ASSUME NEW rules, NEW missing
  PROVE  Picks(rules, missing, 0, <<>>, [i \in {} |-> 0])
<1>1. 1..0 = {} /\ Len(<<>>) = 0 /\ <<>> \in Seq(Rules)
  BY EmptySeq
<1> QED
  BY <1>1 DEF Picks

LEMMA PickSkips ==
  ASSUME NEW rules, NEW missing, NEW n \in Nat, NEW list, NEW ix,
         Picks(rules, missing, n, list, ix), rules[n + 1].model = <<>>
  PROVE  Picks(rules, missing, n + 1, list, ix)
<1>1. \A j \in 1..n : j \in 1..(n + 1)
  OBVIOUS
<1>2. \A j \in 1..(n + 1) : j = n + 1 \/ j \in 1..n
  OBVIOUS
<1>3. ix \in [1..Len(list) -> 1..(n + 1)]
  BY <1>1 DEF Picks
<1>4. \A j \in 1..(n + 1) : rules[j].model # <<>> => \E i \in 1..Len(list) : ix[i] = j
  BY <1>2 DEF Picks
<1> QED
  BY <1>3, <1>4 DEF Picks

LEMMA PickTakes ==
  ASSUME NEW rules, NEW missing \in Missing, NEW n \in Nat, NEW list, NEW ix,
         Picks(rules, missing, n, list, ix), rules[n + 1] \in Rules,
         rules[n + 1].model # <<>>
  PROVE  \E to : Picks(rules, missing, n + 1,
                       Append(list, KeptRule(rules[n + 1], missing)), to)
<1> DEFINE rule == KeptRule(rules[n + 1], missing)
           longer == Append(list, rule)
<1>1. rule \in Rules
  BY KeptRuleIs
<1> HIDE DEF rule
<1>2. PICK l \in Nat : l = Len(list) /\ list \in Seq(Rules)
  BY LenProperties DEF Picks
<1>3. /\ longer \in Seq(Rules) /\ Len(longer) = l + 1
      /\ \A i \in 1..l : longer[i] = list[i]
      /\ longer[l + 1] = rule
  BY <1>1, <1>2, AppendProperties
<1> HIDE DEF longer
<1>4. /\ ix \in [1..l -> 1..n]
      /\ \A i \in 1..l : rules[ix[i]].model # <<>> /\ list[i] = KeptRule(rules[ix[i]], missing)
      /\ \A i, j \in 1..l : i < j => ix[i] < ix[j]
      /\ \A j \in 1..n : rules[j].model # <<>> => \E i \in 1..l : ix[i] = j
  BY <1>2 DEF Picks
<1> DEFINE to == [i \in 1..(l + 1) |-> IF i = l + 1 THEN n + 1 ELSE ix[i]]
<1>5. /\ \A i \in 1..(l + 1) : i = l + 1 \/ i \in 1..l
      /\ \A i \in 1..l : i \in 1..(l + 1) /\ i # l + 1
      /\ l + 1 \in 1..(l + 1)
  OBVIOUS
<1>6. to[l + 1] = n + 1 /\ \A i \in 1..l : to[i] = ix[i]
  BY <1>5
<1>7. \A i \in 1..l : ix[i] \in 1..n /\ ix[i] \in 1..(n + 1) /\ ix[i] < n + 1
  BY <1>4
<1>8. to \in [1..(l + 1) -> 1..(n + 1)]
  BY <1>7
<1> HIDE DEF to
<1>9. \A i \in 1..(l + 1) :
        rules[to[i]].model # <<>> /\ longer[i] = KeptRule(rules[to[i]], missing)
  BY <1>3, <1>4, <1>5, <1>6 DEF rule
<1>10. ASSUME NEW i \in 1..(l + 1), NEW j \in 1..(l + 1), i < j
       PROVE  to[i] < to[j]
  <2>1. i \in 1..l
    BY <1>10
  <2> QED
    BY <1>4, <1>5, <1>6, <1>7, <1>10, <2>1
<1>11. ASSUME NEW j \in 1..(n + 1), rules[j].model # <<>>
       PROVE  \E i \in 1..(l + 1) : to[i] = j
  <2>1. j = n + 1 \/ j \in 1..n
    OBVIOUS
  <2> QED
    BY <1>4, <1>5, <1>6, <1>11, <2>1
<1>12. Picks(rules, missing, n + 1, longer, to)
  BY <1>3, <1>8, <1>9, <1>10, <1>11 DEF Picks
<1> QED
  BY <1>12 DEF longer, rule

LEMMA KeptPicks ==
  ASSUME NEW rules \in Seq(Rules), NEW missing \in Missing
  PROVE  \E ix : Picks(rules, missing, Len(rules), KeptRules(rules, missing), ix)
<1>1. Len(rules) \in Nat /\ DOMAIN rules = 1..Len(rules)
  BY LenProperties
<1>2. PICK l \in Nat : l = Len(rules)
  BY <1>1
<1> DEFINE kept == CHOOSE kept : Keeps(rules, missing, kept)
           P == {n \in Nat : n <= l => \E ix : Picks(rules, missing, n, kept[n], ix)}
<1>3. Keeps(rules, missing, kept)
  BY <1>1, KeptSolved
<1> HIDE DEF kept
<1>4. \A n \in 0..l : kept[n] = KeptStep(rules, missing, kept, n)
  BY <1>2, <1>3 DEF Keeps
<1>5. 0 \in P
  <2>1. kept[0] = <<>>
    BY <1>4 DEF KeptStep
  <2> QED
    BY <2>1, PickNone
<1>6. ASSUME NEW n \in Nat, n \in P  PROVE n + 1 \in P
  <2>1. CASE n + 1 <= l
    <3>1. n <= l /\ n + 1 \in 0..l /\ n + 1 \in 1..l /\ n + 1 # 0 /\ n + 1 - 1 = n
      BY <2>1
    <3>2. PICK ix : Picks(rules, missing, n, kept[n], ix)
      BY <1>6, <3>1
    <3>3. kept[n + 1] = IF rules[n + 1].model = <<>> THEN kept[n]
                        ELSE Append(kept[n], KeptRule(rules[n + 1], missing))
      BY <1>4, <3>1 DEF KeptStep
    <3>4. rules[n + 1] \in Rules
      BY <1>1, <1>2, <3>1, ElementOfSeq
    <3>5. \E to : Picks(rules, missing, n + 1, kept[n + 1], to)
      <4>1. CASE rules[n + 1].model = <<>>
        BY <3>2, <3>3, <4>1, PickSkips
      <4>2. CASE rules[n + 1].model # <<>>
        BY <3>2, <3>3, <3>4, <4>2, PickTakes
      <4> QED
        BY <4>1, <4>2
    <3> QED
      BY <3>5
  <2> QED
    BY <2>1
<1> HIDE DEF P
<1>7. Nat \subseteq P
  BY <1>5, <1>6, InductionOnNat
<1>8. l \in P /\ l <= l
  BY <1>7
<1>9. KeptRules(rules, missing) = kept[l]
  BY <1>2, KeptIs DEF kept
<1> QED
  BY <1>2, <1>8, <1>9 DEF P

LEMMA MinIs ==
  ASSUME NEW T, T \subseteq Nat, NEW n \in T, \A m \in T : n <= m
  PROVE  Min(T) = n
<1>1. Min(T) \in T /\ \A m \in T : Min(T) <= m
  BY DEF Min
<1>2. n \in Nat /\ Min(T) \in Nat /\ n <= Min(T) /\ Min(T) <= n
  BY <1>1
<1> HIDE DEF Min
<1> QED
  BY <1>2

(* The first installed rule that matches is what remains of the first rule of *)
(* the submission that is meant.                                              *)
LEMMA FoundIsMeant ==
  ASSUME NEW s, IsSubmission(s), NEW n \in Requested, n # <<>>
  PROVE  LET meant == {i \in DOMAIN s.rules : /\ s.rules[i].model # <<>>
                                              /\ CoversModel(s.rules[i].model, n)}
             missing == MissingOr(s.missing, "accept")
         IN  /\ meant = {} => FindGuard(Normal(s), n) = NoRule
             /\ meant # {} => /\ Min(meant) \in DOMAIN s.rules
                              /\ FindGuard(Normal(s), n) = KeptRule(s.rules[Min(meant)], missing)
<1> DEFINE rules == s.rules
           missing == MissingOr(s.missing, "accept")
           meant == {i \in DOMAIN rules : rules[i].model # <<>> /\ CoversModel(rules[i].model, n)}
           list == KeptRules(rules, missing)
           hits == {i \in DOMAIN list : ModelGlob(list[i].model, n)}
<1>1. rules \in Seq(Rules) /\ missing \in Missing
  BY DEF IsSubmission, MissingOr, Missing
<1>2. FindGuard(Normal(s), n) = IF hits = {} THEN NoRule ELSE list[Min(hits)]
  <2>1. Normal(s).rules = list
    BY DEF Normal
  <2> QED
    BY <2>1 DEF FindGuard
<1> HIDE DEF missing, rules
<1>3. PICK ix : Picks(rules, missing, Len(rules), list, ix)
  BY <1>1, KeptPicks
<1> HIDE DEF list
<1>4. PICK k \in Nat, l \in Nat :
        k = Len(rules) /\ l = Len(list) /\ DOMAIN rules = 1..k /\ DOMAIN list = 1..l
  BY <1>1, <1>3, LenProperties DEF Picks
<1>5. /\ ix \in [1..l -> 1..k]
      /\ \A i \in 1..l : rules[ix[i]].model # <<>> /\ list[i] = KeptRule(rules[ix[i]], missing)
      /\ \A i, j \in 1..l : i < j => ix[i] < ix[j]
      /\ \A j \in 1..k : rules[j].model # <<>> => \E i \in 1..l : ix[i] = j
  BY <1>3, <1>4 DEF Picks
<1>6. \A j \in 1..k : rules[j] \in Rules /\ rules[j].model \in Seq(Tokens)
  <2>1. \A j \in 1..k : rules[j] \in Rules
    BY <1>1, <1>4, ElementOfSeq
  <2> QED
    BY <2>1 DEF Rules
<1>7. \A i \in 1..l : list[i].model = rules[ix[i]].model
  BY <1>1, <1>5, <1>6, KeptRuleIs
<1>8. ASSUME NEW i \in 1..l  PROVE i \in hits <=> ix[i] \in meant
  <2>1. ix[i] \in 1..k /\ rules[ix[i]].model # <<>>
    BY <1>5
  <2>2. Len(rules[ix[i]].model) \in Nat
    BY <1>6, <2>1, LenProperties
  <2>3. "*" \notin Tokens \ {"*"} /\ n \in Seq(Tokens \ {"*"})
    BY RequestedAssumption
  <2>4. ModelGlob(rules[ix[i]].model, n) <=> CoversModel(rules[ix[i]].model, n)
    BY <2>2, <2>3, ModelGlobRight
  <2> QED
    BY <1>4, <1>7, <2>1, <2>4
<1>9. \A i \in hits : i \in 1..l
  BY <1>4
<1>10. ASSUME NEW j \in meant  PROVE \E i \in hits : ix[i] = j
  <2>1. j \in 1..k /\ rules[j].model # <<>>
    BY <1>4, <1>10
  <2>2. PICK i \in 1..l : ix[i] = j
    BY <1>5, <2>1
  <2> QED
    BY <1>8, <1>10, <2>2
<1>11. meant \subseteq Nat
  BY <1>4
<1> HIDE DEF meant, hits
<1>12. CASE hits = {}
  <2>1. meant = {}
    BY <1>10, <1>12
  <2> QED
    BY <1>2, <1>12, <2>1 DEF meant, missing, rules
<1>13. CASE hits # {}
  <2>1. hits \subseteq Nat
    BY <1>9
  <2>2. PICK h \in hits : \A i \in hits : h <= i
    BY <1>13, <2>1, LeastMember
  <2>3. Min(hits) = h
    BY <2>1, <2>2, MinIs
  <2>4. h \in 1..l /\ ix[h] \in meant /\ ix[h] \in 1..k
    BY <1>5, <1>8, <1>9
  <2>5. ASSUME NEW j \in meant  PROVE ix[h] <= j
    <3>1. PICK i \in hits : ix[i] = j
      BY <1>10
    <3>2. i \in 1..l /\ h <= i
      BY <1>9, <2>2
    <3>3. i = h \/ h < i
      BY <2>4, <3>2
    <3>4. ix[i] \in 1..k
      BY <1>5, <3>2
    <3> QED
      BY <1>5, <2>4, <3>1, <3>2, <3>3, <3>4
  <2>6. Min(meant) = ix[h]
    BY <1>11, <2>4, <2>5, MinIs
  <2>7. list[h] = KeptRule(rules[ix[h]], missing)
    BY <1>5, <2>4
  <2>8. FindGuard(Normal(s), n) = KeptRule(rules[Min(meant)], missing)
    BY <1>2, <1>13, <2>3, <2>6, <2>7
  <2>9. meant # {} /\ Min(meant) \in DOMAIN rules
    BY <1>4, <2>4, <2>6
  <2> QED
    BY <2>8, <2>9 DEF meant, missing, rules
<1> QED
  BY <1>12, <1>13

LEMMA GuardFollows ==
  ASSUME IInv
  PROVE  GuardRight
<1> SUFFICES ASSUME NEW n \in Requested
             PROVE  LET rules == source.rules
                        meant == {i \in DOMAIN rules : rules[i].model # <<>> /\ CoversModel(rules[i].model, n)}
                        rule == FindGuard(active, n)
                        first == rules[Min(meant)]
                        retries == IF first.retries = <<>> THEN source.retries ELSE first.retries[1]
                        strict == IF first.missing \in Missing THEN first.missing ELSE source.missing
                    IN  IF n = <<>> \/ meant = {} THEN rule = NoRule
                        ELSE /\ rule.model = first.model
                             /\ RetryBudget(active, rule) = NonNegative(retries)
                             /\ rule.missing = "reject" <=> strict = "reject"
  BY DEF GuardRight
<1>1. IsSubmission(source) /\ active = Normal(source)
  BY DEF IInv, Submitted, Running
<1> DEFINE rules == source.rules
           meant == {i \in DOMAIN rules : rules[i].model # <<>> /\ CoversModel(rules[i].model, n)}
           missing == MissingOr(source.missing, "accept")
           rule == FindGuard(active, n)
           first == rules[Min(meant)]
<1>2. CASE n = <<>>
  BY <1>2 DEF FindGuard
<1>3. CASE n # <<>>
  <2>1. /\ meant = {} => rule = NoRule
        /\ meant # {} => Min(meant) \in DOMAIN rules /\ rule = KeptRule(first, missing)
    BY <1>1, <1>3, FoundIsMeant
  <2>2. active.retries = NonNegative(source.retries) /\ missing \in Missing
    BY <1>1 DEF Normal, MissingOr, Missing
  <2>3. rules \in Seq(Rules)
    BY <1>1 DEF IsSubmission
  <2> HIDE DEF rules, meant, missing, rule
  <2>4. CASE meant # {}
    <3>1. first \in Rules
      BY <2>1, <2>3, <2>4, LenProperties, ElementOfSeq
    <3> HIDE DEF first
    <3>2. /\ rule.model = first.model
          /\ first.retries = <<>> => rule.retries = <<>>
          /\ first.retries # <<>> => rule.retries = <<NonNegative(first.retries[1])>>
          /\ rule.missing = MissingOr(first.missing, missing)
      BY <2>1, <2>2, <2>4, <3>1, KeptRuleIs DEF first
    <3>3. RetryBudget(active, rule)
            = NonNegative(IF first.retries = <<>> THEN source.retries ELSE first.retries[1])
      BY <2>2, <3>2 DEF RetryBudget
    <3>4. rule.missing = "reject" <=>
            (IF first.missing \in Missing THEN first.missing ELSE source.missing) = "reject"
      BY <3>2 DEF MissingOr, Missing, missing
    <3> QED
      BY <1>3, <2>4, <3>2, <3>3, <3>4 DEF first, rules, meant, rule
  <2>5. CASE meant = {}
    BY <2>1, <2>5 DEF rules, meant, rule
  <2> QED
    BY <2>4, <2>5
<1> QED
  BY <1>2, <1>3

(* Once a submission is settled each model is guarded as the last accepted    *)
(* configuration says: by its first rule that covers the name, whatever rules *)
(* without a pattern normalize drops on the way.                              *)
THEOREM AlwaysGuarded == Spec => []GuardRight
<1>1. IInv => GuardRight
  BY GuardFollows
<1> QED
  BY <1>1, Invariance, PTL
==============================================================================
