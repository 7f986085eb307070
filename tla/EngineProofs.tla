---------------------------- MODULE EngineProofs -----------------------------
(* Theorems about the classification of errors and the routing engine, for    *)
(* any configurations, requests, replies and bounds.                          *)
EXTENDS Engine, Sums, SequenceTheorems, TLAPS

-----------------------------------------------------------------------------
(* The classification of upstream errors, for every status and message.       *)

(* The words of a message that can turn a client error into another kind.     *)
Misleading == {"unpriced", "quota", "not_found"}

ClientStatuses == (400..499) \ {401, 402, 403, 404, 408, 429}

(* Exactly the messages without such words, under a client status, are client *)
(* errors.                                                                    *)
LEMMA ClientErrors ==
  ASSUME NEW status \in Nat, NEW marks \in SUBSET Marks
  PROVE  Classify(status, marks) = "client_error"
           <=> status \in ClientStatuses /\ marks \cap Misleading = {}
<1> DEFINE sure == "unpriced" \in marks \/ (status = 503 /\ "refusal" \in marks)
           quota == "quota" \in marks
<1>1. CASE sure
  <2>1. Classify(status, marks) = "not_found"
    BY <1>1 DEF Classify
  <2>2. status = 503 => status \notin ClientStatuses
    BY DEF ClientStatuses
  <2>3. QED  BY <1>1, <2>1, <2>2 DEF Misleading
<1>2. CASE ~sure /\ status \in ClientStatuses
  <2>1. /\ status # 402 /\ status # 429 /\ status # 401 /\ status # 403 /\ status # 404
        /\ status # 408 /\ ~(status >= 500) /\ status \in 400..499
    BY <1>2 DEF ClientStatuses
  <2>2. Classify(status, marks) =
          Unless(quota, IF "not_found" \in marks THEN "not_found" ELSE "client_error")
    BY <1>2, <2>1 DEF Classify
  <2>3. QED  BY <1>2, <2>2 DEF Unless, Misleading
<1>3. CASE ~sure /\ status \notin ClientStatuses
  <2>1. Classify(status, marks) # "client_error"
    <3>1. status \in {401, 402, 403, 404, 408, 429} \/ status >= 500 \/ status < 400
      BY <1>3 DEF ClientStatuses
    <3>2. CASE status = 402
      BY <1>3, <3>2 DEF Classify, Unless
    <3>3. CASE status = 429
      BY <1>3, <3>3 DEF Classify, Unless
    <3>4. CASE status = 401
      BY <1>3, <3>4 DEF Classify, Unless
    <3>5. CASE status = 403
      BY <1>3, <3>5 DEF Classify, Unless
    <3>6. CASE status = 404
      BY <1>3, <3>6 DEF Classify, Unless
    <3>7. CASE status = 408
      BY <1>3, <3>7 DEF Classify, Unless
    <3>8. CASE status >= 500
      BY <1>3, <3>8 DEF Classify, Unless
    <3>9. CASE status < 400
      BY <1>3, <3>9 DEF Classify, Unless
    <3>10. QED  BY <3>1, <3>2, <3>3, <3>4, <3>5, <3>6, <3>7, <3>8, <3>9
  <2>2. QED  BY <1>3, <2>1
<1>4. QED  BY <1>1, <1>2, <1>3

(* An error without a status is shown with one that stands for its kind.      *)
LEMMA ShownStatus ==
  ASSUME NEW status \in Nat, NEW marks \in SUBSET Marks
  PROVE  LET kind == Classify(status, marks)
         IN  /\ Shown(status, kind) \in Nat
             /\ Shown(status, kind) \in ClientStatuses <=> status \in ClientStatuses
<1> DEFINE kind == Classify(status, marks)
<1>1. CASE status # 0
  BY <1>1 DEF Shown
<1>2. CASE status = 0
  <2>1. kind # "client_error"
    BY <1>2, ClientErrors DEF ClientStatuses
  <2>2. Shown(status, kind) \in {429, 403, 404, 502}
    BY <1>2, <2>1 DEF Shown, StatusForKind
  <2>3. QED  BY <1>2, <2>2 DEF ClientStatuses
<1>3. QED  BY <1>1, <1>2

(* A parent group classifies its child's failure again, from the status the   *)
(* client would see and from a message that names the child and repeats the   *)
(* last error (Execute, finalFailure).  Whatever the child's name, an          *)
(* error that was not the client's does not become one, so it is still failed *)
(* over; and if no misleading word occurs in the name, a client error stays   *)
(* one, so it is still not failed over by default.                            *)
THEOREM WrappingKeepsVerdict ==
  ASSUME NEW status \in Nat, NEW marks \in SUBSET Marks,
         NEW name \in SUBSET (Marks \ WholeMarks)
  PROVE  LET kind  == Classify(status, marks)
             again == Classify(Shown(status, kind), (marks \ WholeMarks) \cup name)
         IN  /\ again = "client_error" => kind = "client_error"
             /\ name \cap Misleading = {} =>
                  (again = "client_error" <=> kind = "client_error")
<1> DEFINE kind == Classify(status, marks)
           seen == Shown(status, kind)
           wrapped == (marks \ WholeMarks) \cup name
<1>1. seen \in Nat /\ (seen \in ClientStatuses <=> status \in ClientStatuses)
  BY ShownStatus
<1>2. wrapped \in SUBSET Marks
  OBVIOUS
<1>3. wrapped \cap Misleading = (marks \cap Misleading) \cup (name \cap Misleading)
  BY DEF WholeMarks, Misleading
<1>4. kind = "client_error" <=> status \in ClientStatuses /\ marks \cap Misleading = {}
  BY ClientErrors
<1> HIDE DEF seen, wrapped
<1>5. Classify(seen, wrapped) = "client_error"
        <=> seen \in ClientStatuses /\ wrapped \cap Misleading = {}
  BY <1>1, <1>2, ClientErrors
<1>6. QED  BY <1>1, <1>3, <1>4, <1>5 DEF seen, wrapped

-----------------------------------------------------------------------------
(* Stacks and plans are sequences, whatever they hold.                        *)
IsSeq(s) == s \in Seq({s[i] : i \in DOMAIN s})

LEMMA AnySeq ==
  ASSUME NEW S, NEW s \in Seq(S)
  PROVE  IsSeq(s)
<1> DEFINE T == {s[i] : i \in DOMAIN s}
<1>1. /\ Len(s) \in Nat /\ s \in [1..Len(s) -> S] /\ DOMAIN s = 1..Len(s)
  BY LenProperties
<1>2. \A i \in 1..Len(s) : s[i] \in T
  BY <1>1
<1> HIDE DEF T
<1>3. s \in [1..Len(s) -> T]
  BY <1>1, <1>2
<1>4. s \in Seq(T)
  BY <1>1, <1>3
<1>5. QED  BY <1>4 DEF IsSeq, T

LEMMA Pushed ==
  ASSUME NEW s, IsSeq(s), NEW x
  PROVE  /\ IsSeq(Append(s, x))
         /\ Len(Append(s, x)) = Len(s) + 1
         /\ \A i \in 1..Len(s) : Append(s, x)[i] = s[i]
         /\ Append(s, x)[Len(s) + 1] = x
         /\ DOMAIN s = 1..Len(s) /\ Len(s) \in Nat
         /\ DOMAIN Append(s, x) = 1..(Len(s) + 1)
         /\ Append(s, x) # <<>>
<1> DEFINE S == {s[i] : i \in DOMAIN s}
<1>1. s \in Seq(S)
  BY DEF IsSeq
<1> HIDE DEF S
<1>2. s \in Seq(S \cup {x}) /\ x \in S \cup {x}
  BY <1>1
<1>3. /\ Append(s, x) \in Seq(S \cup {x})
      /\ Append(s, x) # <<>>
      /\ Len(Append(s, x)) = Len(s) + 1
      /\ \A i \in 1..Len(s) : Append(s, x)[i] = s[i]
      /\ Append(s, x)[Len(s) + 1] = x
  BY <1>2, AppendProperties
<1>4. /\ Len(s) \in Nat /\ DOMAIN s = 1..Len(s)
      /\ DOMAIN Append(s, x) = 1..(Len(s) + 1)
  BY <1>1, <1>3, LenProperties
<1>5. QED  BY <1>3, <1>4, AnySeq

LEMMA Fronted ==
  ASSUME NEW s, IsSeq(s), s # <<>>
  PROVE  /\ IsSeq(Front(s))
         /\ Len(s) \in Nat \ {0} /\ Len(Front(s)) = Len(s) - 1
         /\ \A i \in 1..(Len(s) - 1) : Front(s)[i] = s[i]
         /\ DOMAIN Front(s) = 1..(Len(s) - 1)
         /\ DOMAIN s = 1..Len(s)
         /\ Last(s) = s[Len(s)]
<1> DEFINE S == {s[i] : i \in DOMAIN s}
           n == Len(s) - 1
<1>1. s \in Seq(S)
  BY DEF IsSeq
<1> HIDE DEF S
<1>2. /\ DOMAIN s = 1..Len(s) /\ Len(s) \in Nat \ {0}
      /\ s \in [1..Len(s) -> S]
  BY <1>1, EmptySeq, LenProperties
<1>3. \A i \in 1..n : s[i] \in S
  BY <1>2
<1>4. 1 \in Int /\ n \in Int /\ (1 <= n \/ n = 0)
  BY <1>2
<1>5. /\ SubSeq(s, 1, n) \in Seq(S)
      /\ Len(SubSeq(s, 1, n)) = IF 1 <= n THEN n - 1 + 1 ELSE 0
      /\ \A i \in 1..(n - 1 + 1) : SubSeq(s, 1, n)[i] = s[1 + i - 1]
  BY <1>3, <1>4, SubSeqProperties
<1>6. Front(s) = SubSeq(s, 1, n) /\ Last(s) = s[Len(s)]
  BY DEF Front, Last
<1>7. Front(s) \in Seq(S) /\ Len(Front(s)) = n /\ \A i \in 1..n : Front(s)[i] = s[i]
  BY <1>4, <1>5, <1>6
<1>8. IsSeq(Front(s)) /\ DOMAIN Front(s) = 1..n
  BY <1>7, AnySeq, LenProperties
<1>9. QED  BY <1>2, <1>6, <1>7, <1>8
-----------------------------------------------------------------------------
(* The inductive invariant.  It speaks of what the properties below need:     *)
(* the accounts, the answers, and where a request can be.                     *)
RequestFields ==
  {"pc", "model", "stream", "snap", "left", "committed", "stack", "answer", "owed",
   "spent", "asked", "stopped"}

FrameFields ==
  {"model", "scan", "look", "soon", "cooling", "targets", "degraded", "quota",
   "attempts", "try", "last", "budget", "calls"}

AnswerFields == {"type", "code", "status", "marks", "kind", "by", "served"}

PlainNames(c) == \A g \in DOMAIN c.virtual : NameMarks[g] = {}

(* An answer a request can hold that uses configuration c and has made n leaf *)
(* calls.                                                                     *)
Honest(c, n, a) ==
  /\ DOMAIN a = AnswerFields
  /\ a.status \in Nat /\ a.marks \subseteq Marks
  /\ a.code \in EngineCodes \cup {"", "upstream_error"}
  /\ a.type = "failed" => a.code # "" /\ a.by = Nothing
  /\ a.code = "upstream_error" => n > 0
  /\ PlainNames(c) =>
       (Classify(a.status, a.marks) = "client_error" <=> a.kind = "client_error")

Named(s) == IsSeq(s) /\ \A i \in DOMAIN s : s[i].model \in Names

NamedCooling(s) == IsSeq(s) /\ \A i \in DOMAIN s : s[i].target.model \in Names

(* What is left of a group's budget and what was spent below the group make   *)
(* at most its max_attempts.                                                  *)
Accounted(c, f) ==
  /\ f.calls \in Nat /\ f.budget \in Nat
  /\ f.model \in DOMAIN c.virtual =>
       c.virtual[f.model].max = 0 \/ f.calls + f.budget <= c.virtual[f.model].max

SoundFrame(c, n, f) ==
  /\ DOMAIN f = FrameFields
  /\ Accounted(c, f)
  /\ Honest(c, n, f.last) /\ (f.last = NoAnswer \/ f.last.type = "failed")
  /\ Named(f.scan) /\ Named(f.targets) /\ NamedCooling(f.cooling)

Sound(q) ==
  /\ DOMAIN q = RequestFields
  /\ q.snap \in Configs
  /\ q.left \in Nat /\ q.spent \in Nat /\ q.left + q.spent = SafetyBudget
  /\ Honest(q.snap, q.spent, q.answer)
  /\ IsSeq(q.stack)
  /\ \A i \in DOMAIN q.stack : SoundFrame(q.snap, q.spent, q.stack[i])

Hand(q) == Head(Last(q.stack).targets).model

(* Whether the group of frame f, below the top, would go on after q's answer. *)
WouldGoOn(q, f) ==
  /\ q.answer.type = "failed" /\ ~q.committed /\ ~Terminal(q.answer)
  /\ f.model \in DOMAIN q.snap.virtual
  /\ FailsOver(Classify(q.answer.status, q.answer.marks), q.snap.virtual[f.model].failover)

(* A substitution that is not charged is that of the leaf at hand, which will *)
(* be asked again, unless the request ends for another reason.                *)
Owing(q) ==
  \/ q.owed = {}
  \/ q.pc = "done"
  \/ q.pc = "return" /\ Terminal(q.answer)
  \/ /\ q.pc \in {"dispatch", "host"}
     /\ q.owed \subseteq {Hand(q)} /\ Hand(q) \notin DOMAIN q.snap.virtual
     /\ Last(q.stack).targets # <<>>
     /\ q.pc = "dispatch" => Last(q.stack).attempts < Last(q.stack).quota

Stopping(q) ==
  \/ q.pc = "done"
  \/ q.pc = "return" /\ \A i \in 1..(Len(q.stack) - 1) : ~WouldGoOn(q, q.stack[i])

Placed(q) ==
  /\ q.pc \in {"idle", "enter", "scan", "dispatch", "host", "return", "done"}
  /\ q.stopped \in BOOLEAN
  /\ q.pc = "idle" => q.stack = <<>> /\ q.spent = 0 /\ q.asked = Nothing
  /\ q.pc \in {"scan", "dispatch", "host", "return"} => q.stack # <<>>
  /\ q.pc = "enter" =>
       IF q.stack = <<>> THEN q.model \in Names ELSE Last(q.stack).targets # <<>>
  /\ q.pc = "scan" => Last(q.stack).scan # <<>>
  /\ q.pc = "host" =>
       /\ Last(q.stack).targets # <<>> /\ Hand(q) \notin DOMAIN q.snap.virtual
       /\ q.spent > 0 /\ q.asked = Hand(q)
  /\ q.pc = "return" =>
       \/ q.answer.type = "failed"
       \/ /\ q.answer.type \in {"delivered", "broken"} /\ q.answer.code = ""
          /\ q.answer.by = q.asked /\ q.spent > 0
  /\ q.pc \notin {"return", "done"} => q.answer = NoAnswer
  /\ \A i \in 1..(Len(q.stack) - 1) : q.stack[i].targets # <<>>

Good(q) ==
  Sound(q) /\ Placed(q) /\ Owing(q) /\ (q.stopped => Stopping(q))

IInv ==
  /\ cfg \in Configs
  /\ turn \in [Groups -> Nat]
  /\ DOMAIN req = Requests
  /\ \A r \in Requests : Good(req[r])

-----------------------------------------------------------------------------
(* What a step does to the stack of a request.                                *)
LEMMA TopSound ==
  ASSUME NEW q, Sound(q), q.stack # <<>>
  PROVE  /\ SoundFrame(q.snap, q.spent, Last(q.stack))
         /\ Last(q.stack) = q.stack[Len(q.stack)]
         /\ DOMAIN q.stack = 1..Len(q.stack) /\ Len(q.stack) \in Nat \ {0}
<1>1. /\ Last(q.stack) = q.stack[Len(q.stack)]
      /\ DOMAIN q.stack = 1..Len(q.stack) /\ Len(q.stack) \in Nat \ {0}
  BY Fronted DEF Sound
<1>2. Len(q.stack) \in DOMAIN q.stack
  BY <1>1
<1>3. QED  BY <1>1, <1>2 DEF Sound

(* Nothing but control, or the answer, changes.                               *)
LEMMA Kept ==
  ASSUME NEW q, Sound(q), NEW p, DOMAIN p = RequestFields,
         p.snap = q.snap, p.left = q.left, p.spent = q.spent, p.stack = q.stack,
         Honest(q.snap, q.spent, p.answer)
  PROVE  Sound(p)
  BY DEF Sound

(* The top frame is replaced.                                                 *)
LEMMA Replaced ==
  ASSUME NEW q, Sound(q), q.stack # <<>>,
         NEW f, SoundFrame(q.snap, q.spent, f),
         NEW p, DOMAIN p = RequestFields,
         p.snap = q.snap, p.left = q.left, p.spent = q.spent,
         p.stack = Append(Front(q.stack), f),
         Honest(q.snap, q.spent, p.answer)
  PROVE  /\ Sound(p)
         /\ p.stack # <<>> /\ Last(p.stack) = f
         /\ Len(p.stack) = Len(q.stack) /\ Len(q.stack) \in Nat \ {0}
         /\ \A i \in 1..(Len(q.stack) - 1) : p.stack[i] = q.stack[i]
<1> DEFINE s == q.stack
<1>1. /\ IsSeq(Front(s)) /\ Len(Front(s)) = Len(s) - 1 /\ Len(s) \in Nat \ {0}
      /\ \A i \in 1..(Len(s) - 1) : Front(s)[i] = s[i]
      /\ DOMAIN s = 1..Len(s)
  BY Fronted DEF Sound
<1>2. /\ IsSeq(p.stack) /\ p.stack # <<>> /\ Len(p.stack) = Len(s)
      /\ \A i \in 1..(Len(s) - 1) : p.stack[i] = s[i]
      /\ p.stack[Len(s)] = f /\ DOMAIN p.stack = 1..Len(s)
  BY <1>1, Pushed
<1>3. Last(p.stack) = f
  BY <1>2 DEF Last
<1>4. \A i \in DOMAIN p.stack : SoundFrame(p.snap, p.spent, p.stack[i])
  <2> SUFFICES ASSUME NEW i \in 1..Len(s)
               PROVE  SoundFrame(q.snap, q.spent, p.stack[i])
    BY <1>2
  <2>1. CASE i = Len(s)
    BY <1>2, <2>1
  <2>2. CASE i # Len(s)
    <3>1. i \in 1..(Len(s) - 1) /\ i \in DOMAIN s
      BY <1>1, <2>2
    <3>2. p.stack[i] = s[i]
      BY <1>2, <3>1
    <3>3. QED  BY <3>1, <3>2 DEF Sound
  <2>3. QED  BY <2>1, <2>2
<1>5. QED  BY <1>1, <1>2, <1>3, <1>4 DEF Sound

(* A call of Execute starts.  The first one takes the snapshot.               *)
LEMMA Deepened ==
  ASSUME NEW q, NEW p, NEW f,
         Sound(q), DOMAIN p = RequestFields, p.snap \in Configs,
         SoundFrame(p.snap, q.spent, f),
         q.stack = <<>> \/ p.snap = q.snap,
         p.left = q.left, p.spent = q.spent, p.stack = Append(q.stack, f),
         Honest(p.snap, q.spent, p.answer)
  PROVE  /\ Sound(p)
         /\ p.stack # <<>> /\ Last(p.stack) = f
         /\ Len(p.stack) = Len(q.stack) + 1 /\ Len(q.stack) \in Nat
         /\ \A i \in 1..Len(q.stack) : p.stack[i] = q.stack[i]
         /\ q.stack = <<>> => Len(q.stack) = 0
<1> DEFINE s == q.stack
<1>1. /\ IsSeq(p.stack) /\ p.stack # <<>> /\ Len(p.stack) = Len(s) + 1
      /\ \A i \in 1..Len(s) : p.stack[i] = s[i]
      /\ p.stack[Len(s) + 1] = f
      /\ DOMAIN s = 1..Len(s) /\ Len(s) \in Nat
      /\ DOMAIN p.stack = 1..(Len(s) + 1)
  BY Pushed DEF Sound
<1>2. Last(p.stack) = f
  BY <1>1 DEF Last
<1>3. s = <<>> => Len(s) = 0
  OBVIOUS
<1>4. \A i \in DOMAIN p.stack : SoundFrame(p.snap, p.spent, p.stack[i])
  <2> SUFFICES ASSUME NEW i \in 1..(Len(s) + 1)
               PROVE  SoundFrame(p.snap, q.spent, p.stack[i])
    BY <1>1
  <2>1. CASE i = Len(s) + 1
    BY <1>1, <2>1
  <2>2. CASE i # Len(s) + 1
    <3>1. i \in 1..Len(s) /\ s # <<>>
      BY <1>1, <1>3, <2>2
    <3>2. QED  BY <1>1, <3>1 DEF Sound
  <2>3. QED  BY <2>1, <2>2
<1>5. QED  BY <1>1, <1>2, <1>3, <1>4 DEF Sound

(* A call of Execute returns.                                                 *)
LEMMA Returned ==
  ASSUME NEW q, Sound(q), q.stack # <<>>,
         NEW p, DOMAIN p = RequestFields,
         p.snap = q.snap, p.left = q.left, p.spent = q.spent,
         p.stack = Front(q.stack),
         Honest(q.snap, q.spent, p.answer)
  PROVE  /\ Sound(p)
         /\ Len(p.stack) = Len(q.stack) - 1 /\ Len(q.stack) \in Nat \ {0}
         /\ \A i \in 1..(Len(q.stack) - 1) : p.stack[i] = q.stack[i]
         /\ Len(q.stack) > 1 => /\ p.stack # <<>>
                                /\ Last(p.stack) = q.stack[Len(q.stack) - 1]
<1> DEFINE s == q.stack
<1>1. /\ IsSeq(Front(s)) /\ Len(Front(s)) = Len(s) - 1 /\ Len(s) \in Nat \ {0}
      /\ \A i \in 1..(Len(s) - 1) : Front(s)[i] = s[i]
      /\ DOMAIN s = 1..Len(s) /\ DOMAIN Front(s) = 1..(Len(s) - 1)
  BY Fronted DEF Sound
<1>2. \A i \in DOMAIN p.stack : SoundFrame(p.snap, p.spent, p.stack[i])
  BY <1>1 DEF Sound
<1>3. ASSUME Len(s) > 1
      PROVE  p.stack # <<>> /\ Last(p.stack) = s[Len(s) - 1]
  <2>1. p.stack # <<>>
    BY <1>1, <1>3
  <2>2. Last(p.stack) = Front(s)[Len(s) - 1] /\ Len(s) - 1 \in 1..(Len(s) - 1)
    BY <1>1, <1>3 DEF Last
  <2>3. QED  BY <1>1, <2>1, <2>2
<1>4. QED  BY <1>1, <1>2, <1>3 DEF Sound

(* Every step of a request leaves the others as they are.                     *)
LEMMA Stepped ==
  ASSUME IInv, NEW r \in Requests, NEW p, Good(p),
         req' = [req EXCEPT ![r] = p], cfg' \in Configs, turn' \in [Groups -> Nat]
  PROVE  IInv'
<1>1. DOMAIN req' = Requests /\ \A k \in Requests : req'[k] = IF k = r THEN p ELSE req[k]
  BY DEF IInv
<1>2. \A k \in Requests : Good(req'[k])
  BY <1>1 DEF IInv
<1>3. QED  BY <1>1, <1>2 DEF IInv

-----------------------------------------------------------------------------
(* Plans.                                                                     *)
LEMMA Tailed ==
  ASSUME NEW s, IsSeq(s), s # <<>>
  PROVE  /\ IsSeq(Tail(s))
         /\ Len(s) \in Nat \ {0} /\ DOMAIN s = 1..Len(s)
         /\ Len(Tail(s)) = Len(s) - 1 /\ DOMAIN Tail(s) = 1..(Len(s) - 1)
         /\ \A i \in 1..(Len(s) - 1) : Tail(s)[i] = s[i + 1]
         /\ Head(s) = s[1] /\ 1 \in DOMAIN s
<1> DEFINE S == {s[i] : i \in DOMAIN s}
<1>1. s \in Seq(S)
  BY DEF IsSeq
<1> HIDE DEF S
<1>2. /\ Tail(s) \in Seq(S) /\ Len(Tail(s)) = Len(s) - 1 /\ Head(s) = s[1]
      /\ \A i \in 1..(Len(s) - 1) : Tail(s)[i] = s[i + 1]
      /\ Len(s) \in Nat \ {0} /\ DOMAIN s = 1..Len(s)
  BY <1>1, HeadTailProperties, EmptySeq, LenProperties
<1>3. DOMAIN Tail(s) = 1..(Len(s) - 1) /\ IsSeq(Tail(s))
  BY <1>2, AnySeq, LenProperties
<1>4. QED  BY <1>2, <1>3

LEMMA NamedPlans ==
  ASSUME NEW s, Named(s)
  PROVE  /\ s # <<>> => Named(Tail(s)) /\ Head(s).model \in Names
         /\ \A x : x.model \in Names => Named(Append(s, x))
<1>1. ASSUME s # <<>>
      PROVE  Named(Tail(s)) /\ Head(s).model \in Names
  <2>1. \A i \in 1..(Len(s) - 1) : i + 1 \in 1..Len(s)
    BY <1>1, Tailed DEF Named
  <2>2. QED  BY <1>1, <2>1, Tailed DEF Named
<1>2. ASSUME NEW x, x.model \in Names
      PROVE  Named(Append(s, x))
  <2>1. /\ IsSeq(Append(s, x)) /\ Append(s, x)[Len(s) + 1] = x
        /\ \A i \in 1..Len(s) : Append(s, x)[i] = s[i]
        /\ DOMAIN s = 1..Len(s) /\ Len(s) \in Nat
        /\ DOMAIN Append(s, x) = 1..(Len(s) + 1)
    BY Pushed DEF Named
  <2>2. \A i \in 1..(Len(s) + 1) : i \in 1..Len(s) \/ i = Len(s) + 1
    BY <2>1
  <2>3. QED  BY <1>2, <2>1, <2>2 DEF Named
<1>3. QED  BY <1>1, <1>2

LEMMA NoPlans == Named(<<>>) /\ NamedCooling(<<>>)
<1>1. <<>> \in Seq({}) /\ DOMAIN <<>> = {}
  OBVIOUS
<1>2. IsSeq(<<>>)
  BY <1>1, AnySeq
<1>3. QED  BY <1>1, <1>2 DEF Named, NamedCooling

LEMMA NamedAlso ==
  ASSUME NEW s, NamedCooling(s), NEW x, x.target.model \in Names
  PROVE  NamedCooling(Append(s, x))
<1>1. /\ IsSeq(Append(s, x)) /\ Append(s, x)[Len(s) + 1] = x
      /\ \A i \in 1..Len(s) : Append(s, x)[i] = s[i]
      /\ DOMAIN s = 1..Len(s) /\ Len(s) \in Nat
      /\ DOMAIN Append(s, x) = 1..(Len(s) + 1)
  BY Pushed DEF NamedCooling
<1>2. \A i \in 1..(Len(s) + 1) : i \in 1..Len(s) \/ i = Len(s) + 1
  BY <1>1
<1>3. QED  BY <1>1, <1>2 DEF NamedCooling

-----------------------------------------------------------------------------
(* Answers.                                                                   *)
LEMMA NoAnswerHonest ==
  ASSUME NEW c, NEW n
  PROVE  Honest(c, n, NoAnswer) /\ NoAnswer.type = "none"
<1>1. 0 \in Nat /\ 0 \notin ClientStatuses
  BY DEF ClientStatuses
<1>2. Classify(0, {}) # "client_error"
  BY <1>1, ClientErrors
<1>3. NoKind # "client_error"
  BY DEF NoKind
<1>4. QED  BY <1>1, <1>2, <1>3 DEF Honest, NoAnswer, AnswerFields

LEMMA HonestLater ==
  ASSUME NEW c, NEW n \in Nat, NEW a, Honest(c, n, a)
  PROVE  Honest(c, n + 1, a)
<1>1. n > 0 => n + 1 > 0
  OBVIOUS
<1>2. a.code = "upstream_error" => n + 1 > 0
  BY DEF Honest
<1>3. QED  BY <1>2 DEF Honest

LEMMA DeliveryHonest ==
  ASSUME NEW c, NEW n, NEW type, type # "failed", NEW m, NEW s
  PROVE  /\ Honest(c, n, Delivery(type, m, s)) /\ Delivery(type, m, s).type = type
         /\ Delivery(type, m, s).by = m /\ Delivery(type, m, s).code = ""
<1>1. Honest(c, n, NoAnswer)
  BY NoAnswerHonest
<1>2. QED  BY <1>1 DEF Honest, NoAnswer, AnswerFields, Delivery

LEMMA FailureHonest ==
  ASSUME NEW c, NEW n, NEW code \in EngineCodes \ {"", "upstream_error"},
         NEW status \in Nat, NEW marks \in SUBSET Marks
  PROVE  LET f == Failure(code, status, marks)
         IN  Honest(c, n, f) /\ f.type = "failed" /\ f.code = code /\ f.by = Nothing
  BY DEF Honest, Failure, NoAnswer, AnswerFields

LEMMA EngineCodesAre ==
  EngineCodes =
    {"manual_member_invalid", "group_cycle", "group_depth_exceeded",
     "manual_member_cooling_down", "all_members_cooling_down",
     "attempt_budget_exhausted", "request_cancelled", "model_mismatch_blocked",
     "no_upstream_available"}
<1>1. \A code, status, marks : Failure(code, status, marks).code = code
  BY DEF Failure, NoAnswer
<1>2. EngineCodes =
        {ManualInvalid.code, GroupCycle.code, TooDeep.code, SelectedCooling.code,
         AllCooling.code, Exhausted.code, CancelledFailure.code, MismatchBlocked.code,
         NoUpstream.code}
  BY DEF EngineCodes
<1>3. QED
  BY <1>1, <1>2 DEF ManualInvalid, GroupCycle, TooDeep, SelectedCooling, AllCooling,
                    Exhausted, CancelledFailure, MismatchBlocked, NoUpstream

OwnFailures ==
  {ManualInvalid, GroupCycle, TooDeep, SelectedCooling, AllCooling, Exhausted,
   CancelledFailure, MismatchBlocked, NoUpstream}

LEMMA OwnFailuresHonest ==
  ASSUME NEW c, NEW n, NEW f \in OwnFailures
  PROVE  Honest(c, n, f) /\ f.type = "failed" /\ f.by = Nothing /\ f.code \in EngineCodes
<1>1. \A code \in EngineCodes, status \in Nat :
        LET g == Failure(code, status, {})
        IN  Honest(c, n, g) /\ g.type = "failed" /\ g.code = code /\ g.by = Nothing
  <2> SUFFICES ASSUME NEW code \in EngineCodes, NEW status \in Nat
               PROVE  LET g == Failure(code, status, {})
                      IN  Honest(c, n, g) /\ g.type = "failed" /\ g.code = code /\ g.by = Nothing
    OBVIOUS
  <2>1. code \in EngineCodes \ {"", "upstream_error"} /\ {} \in SUBSET Marks
    BY EngineCodesAre
  <2>2. QED  BY <2>1, FailureHonest
<1>2. PICK code \in EngineCodes, status \in Nat : f = Failure(code, status, {})
  BY EngineCodesAre
     DEF OwnFailures, ManualInvalid, GroupCycle, TooDeep, SelectedCooling, AllCooling,
         Exhausted, CancelledFailure, MismatchBlocked, NoUpstream
<1>3. QED  BY <1>1, <1>2

LEMMA TerminalFailures ==
  Terminal(Exhausted) /\ Terminal(CancelledFailure)
  BY DEF Terminal, Exhausted, CancelledFailure, Failure, NoAnswer

LEMMA UpstreamHonest ==
  ASSUME NEW c, NEW n \in Nat \ {0}, NEW err,
         err.status \in Nat, err.msg.marks \subseteq Marks
  PROVE  /\ Honest(c, n, Upstream(err))
         /\ Upstream(err).type = "failed" /\ Upstream(err).by = Nothing
         /\ Upstream(err).code = "upstream_error"
         /\ LET a == Upstream(err)
            IN  Classify(a.status, a.marks) = "client_error" <=> KindOf(err) = "client_error"
<1> DEFINE k == Classify(err.status, err.msg.marks)
           shown == Shown(err.status, k)
<1>1. k = "client_error" <=> err.status \in ClientStatuses /\ err.msg.marks \cap Misleading = {}
  BY ClientErrors
<1>2. shown \in Nat /\ (shown \in ClientStatuses <=> err.status \in ClientStatuses)
  BY ShownStatus
<1>3. Classify(shown, err.msg.marks) = "client_error" <=> k = "client_error"
  BY <1>1, <1>2, ClientErrors
<1>4. KindOf(err) = k
  BY DEF KindOf
<1> HIDE DEF k, shown
<1>5. Upstream(err) = [Failure("upstream_error", shown, err.msg.marks) EXCEPT !.kind = k]
  BY <1>4 DEF Upstream, shown
<1>6. /\ DOMAIN Upstream(err) = AnswerFields
      /\ Upstream(err).type = "failed" /\ Upstream(err).code = "upstream_error"
      /\ Upstream(err).by = Nothing /\ Upstream(err).status = shown
      /\ Upstream(err).marks = err.msg.marks /\ Upstream(err).kind = k
  BY <1>5 DEF Failure, NoAnswer, AnswerFields
<1>7. QED  BY <1>2, <1>3, <1>4, <1>6 DEF Honest

LEMMA WrappedHonest ==
  ASSUME NEW c \in Configs, NEW n, NEW f, Honest(c, n, f), f.type = "failed",
         NEW g \in DOMAIN c.virtual
  PROVE  /\ Honest(c, n, Wrapped(f, g))
         /\ Wrapped(f, g).type = "failed" /\ Wrapped(f, g).by = Nothing
         /\ Wrapped(f, g).code = f.code
<1> DEFINE w == (f.marks \ WholeMarks) \cup NameMarks[g]
<1>1. g \in Groups
  BY EngineConfigsAssumption DEF IsConfig
<1>2. w \subseteq Marks
  BY <1>1, NameMarksAssumption DEF Honest
<1>3. PlainNames(c) => w \cap Misleading = f.marks \cap Misleading
  BY DEF PlainNames, Misleading, WholeMarks
<1>4. PlainNames(c) => (Classify(f.status, w) = "client_error" <=> f.kind = "client_error")
  BY <1>2, <1>3, ClientErrors DEF Honest
<1> HIDE DEF w
<1>5. Wrapped(f, g) = [f EXCEPT !.marks = w]
  BY DEF Wrapped, w, Honest, AnswerFields
<1>6. QED  BY <1>2, <1>4, <1>5 DEF Honest, AnswerFields

-----------------------------------------------------------------------------
(* What the client sees of a step of one request: nothing, or a step that     *)
(* module Routing allows.                                                     *)
Said(type, code, by) == [type |-> type, code |-> code, by |-> by]

Seen(phase, calls, asked, outcome) ==
  [phase |-> phase, calls |-> calls, asked |-> asked, outcome |-> outcome]

Unsettled == Said("none", "", Nothing)

Settlement(v, o) ==
  \/ \E type \in {"delivered", "broken"} : v.calls > 0 /\ o = Said(type, "", v.asked)
  \/ \E code \in EngineCodes \cup {"upstream_error"} :
       (code = "upstream_error" => v.calls > 0) /\ o = Said("failed", code, Nothing)

Advances(v, w) ==
  \/ w = v
  \/ v.phase = "idle" /\ w = Seen("running", v.calls, v.asked, v.outcome)
  \/ \E m \in Names : /\ v.phase = "running" /\ v.calls < SafetyBudget
                      /\ w = Seen("running", v.calls + 1, m, v.outcome)
  \/ \E o : /\ v.phase = "running" /\ Settlement(v, o)
            /\ w = Seen("final", v.calls, v.asked, o)
  \/ v.phase = "final" /\ w = Seen("done", v.calls, v.asked, v.outcome)

(* The step of request r to p is one of those, and leaves it good.            *)
Moves(r, p) == Good(p) /\ Advances(View(req[r]), View(p)) /\ req' = [req EXCEPT ![r] = p]

Underway == {"enter", "scan", "dispatch", "host"}

LEMMA Going ==
  ASSUME NEW q, Good(q), q.pc \in Underway \/ (q.pc = "return" /\ Len(q.stack) # 1),
         ~q.stopped
  PROVE  View(q) = Seen("running", q.spent, q.asked, Unsettled)
<1>1. Phase(q) = "running"
  BY DEF Phase, Underway
<1>2. QED  BY <1>1 DEF View, Unsettled, Outcome, NoAnswer, Seen, Said

LEMMA NotStopped ==
  ASSUME NEW q, Good(q), q.pc \in Underway \cup {"idle"}
  PROVE  /\ ~q.stopped /\ q.answer = NoAnswer
         /\ q.stopped \in BOOLEAN
         /\ q.pc \in {"idle", "enter", "scan"} => q.owed = {}
  BY DEF Good, Stopping, Underway, Placed, Owing

(* A request goes on.                                                         *)
LEMMA StillGoing ==
  ASSUME NEW q, Good(q), q.pc \in Underway, NEW p, Good(p), p.pc \in Underway,
         p.spent = q.spent, p.asked = q.asked
  PROVE  Advances(View(q), View(p))
<1>1. ~q.stopped /\ ~p.stopped
  BY NotStopped
<1>2. View(p) = View(q)
  BY <1>1, Going
<1>3. QED  BY <1>2 DEF Advances

LEMMA Ended ==
  ASSUME NEW q, q.pc = "return", q.stopped \/ Len(q.stack) = 1
  PROVE  View(q) = Seen("final", q.spent, q.asked, Outcome(q.answer))
<1>1. Phase(q) = "final"
  BY DEF Phase
<1>2. QED  BY <1>1 DEF View, Seen

LEMMA SettledOutcome ==
  ASSUME NEW p, Good(p), p.pc = "return", NEW v, v.calls = p.spent, v.asked = p.asked
  PROVE  Settlement(v, Outcome(p.answer))
<1> DEFINE a == p.answer
<1>2. CASE a.type = "failed"
  <2>1. /\ a.code \in EngineCodes \cup {"upstream_error"} /\ a.by = Nothing
        /\ a.code = "upstream_error" => p.spent > 0
    BY <1>2 DEF Good, Sound, Honest
  <2>2. Outcome(a) = Said("failed", a.code, Nothing)
    BY <1>2, <2>1 DEF Outcome, Said
  <2>3. QED  BY <2>1, <2>2 DEF Settlement
<1>3. CASE a.type # "failed"
  <2>1. /\ a.type \in {"delivered", "broken"} /\ a.code = "" /\ a.by = p.asked
        /\ p.spent > 0
    BY <1>3 DEF Good, Placed
  <2>2. Outcome(a) = Said(a.type, "", v.asked)
    BY <2>1 DEF Outcome, Said
  <2>3. QED  BY <2>1, <2>2 DEF Settlement
<1>4. QED  BY <1>2, <1>3

(* A call of Execute has an answer, which may be the request's.               *)
LEMMA MayEnd ==
  ASSUME NEW q, Good(q), q.pc \in Underway \/ (q.pc = "return" /\ Len(q.stack) # 1),
         ~q.stopped,
         NEW p, Good(p), p.pc = "return", p.spent = q.spent, p.asked = q.asked
  PROVE  Advances(View(q), View(p))
<1>1. View(q) = Seen("running", q.spent, q.asked, Unsettled)
  BY Going
<1>2. CASE p.stopped \/ Len(p.stack) = 1
  <2>1. View(p) = Seen("final", q.spent, q.asked, Outcome(p.answer))
    BY <1>2, Ended
  <2>2. View(q).calls = p.spent /\ View(q).asked = p.asked /\ View(q).phase = "running"
    BY <1>1 DEF Seen
  <2>3. Settlement(View(q), Outcome(p.answer))
    BY <2>2, SettledOutcome
  <2>4. QED  BY <2>1, <2>2, <2>3 DEF Advances
<1>3. CASE ~p.stopped /\ Len(p.stack) # 1
  <2>1. View(p) = View(q)
    BY <1>1, <1>3, Going
  <2>2. QED  BY <2>1 DEF Advances
<1>4. QED  BY <1>2, <1>3

-----------------------------------------------------------------------------
(* Frames.                                                                    *)
LEMMA FrameParts ==
  ASSUME NEW c, NEW n, NEW f, SoundFrame(c, n, f)
  PROVE  /\ DOMAIN f = FrameFields
         /\ Honest(c, n, f.last) /\ (f.last = NoAnswer \/ f.last.type = "failed")
         /\ Named(f.scan) /\ Named(f.targets) /\ NamedCooling(f.cooling)
  BY DEF SoundFrame

LEMMA FrameKept ==
  ASSUME NEW c, NEW n, NEW f, SoundFrame(c, n, f),
         NEW g, DOMAIN g = FrameFields, g.model = f.model, g.calls = f.calls,
         g.budget = f.budget, Honest(c, n, g.last), g.last = NoAnswer \/ g.last.type = "failed",
         Named(g.scan), Named(g.targets), NamedCooling(g.cooling)
  PROVE  SoundFrame(c, n, g)
  BY DEF SoundFrame, Accounted

LEMMA NewFrame ==
  ASSUME NEW c \in Configs, NEW n, NEW m
  PROVE  SoundFrame(c, n, Frame(m)) /\ Frame(m).model = m
<1>1. m \in DOMAIN c.virtual => c.virtual[m].max \in Nat
  BY EngineConfigsAssumption DEF IsConfig, VirtualModels
<1>2. /\ DOMAIN Frame(m) = FrameFields
      /\ Frame(m).model = m /\ Frame(m).calls = 0 /\ Frame(m).budget = 0
      /\ Frame(m).last = NoAnswer
      /\ Frame(m).scan = <<>> /\ Frame(m).targets = <<>> /\ Frame(m).cooling = <<>>
  BY DEF Frame, FrameFields
<1>3. Accounted(c, Frame(m))
  BY <1>1, <1>2 DEF Accounted
<1>4. QED  BY <1>2, <1>3, NoAnswerHonest, NoPlans DEF SoundFrame

(* A frame goes on to its next target after a failure.                        *)
LEMMA AdvancedFrame ==
  ASSUME NEW c, NEW n, NEW f, SoundFrame(c, n, f), f.targets # <<>>,
         NEW a, Honest(c, n, a), a.type = "failed"
  PROVE  SoundFrame(c, n, [Advanced(f) EXCEPT !.last = a])
<1> DEFINE g == [Advanced(f) EXCEPT !.last = a]
<1>1. /\ DOMAIN g = FrameFields /\ g.model = f.model /\ g.calls = f.calls
      /\ g.budget = f.budget /\ g.last = a /\ g.scan = f.scan
      /\ g.targets = Tail(f.targets) /\ g.cooling = f.cooling
  BY DEF Advanced, SoundFrame, FrameFields
<1> HIDE DEF g
<1>2. Named(g.targets)
  BY <1>1, NamedPlans DEF SoundFrame
<1>3. SoundFrame(c, n, g)
  BY <1>1, <1>2, FrameKept DEF SoundFrame
<1>4. QED  BY <1>3 DEF g

LEMMA FacingFrame ==
  ASSUME NEW c, NEW n, NEW d, NEW f, SoundFrame(c, n, f)
  PROVE  /\ SoundFrame(c, n, Facing(d, f))
         /\ Facing(d, f).scan = f.scan
<1> DEFINE g == Facing(d, f)
<1>1. /\ DOMAIN g = FrameFields /\ g.model = f.model /\ g.calls = f.calls
      /\ g.budget = f.budget /\ g.last = f.last /\ g.scan = f.scan
      /\ g.targets = f.targets /\ g.cooling = f.cooling
  BY DEF Facing, SoundFrame, FrameFields
<1> HIDE DEF g
<1>2. QED  BY <1>1, FrameKept DEF SoundFrame, g

(* The orders in which a group tries its members are sequences of members.    *)
LEMMA NamedOrders ==
  ASSUME NEW c \in Configs, NEW g \in DOMAIN c.virtual, NEW ticket \in Nat,
         NEW order \in Orders(c.virtual[g], ticket)
  PROVE  Named(order)
<1> DEFINE vm == c.virtual[g]
           ms == vm.members
           n == Len(ms)
<1>1. vm \in VirtualModels /\ ms \in Seq(Members) /\ ms # <<>>
  BY EngineConfigsAssumption DEF IsConfig, VirtualModels
<1>2. /\ n \in Nat \ {0} /\ DOMAIN ms = 1..n
      /\ \A i \in 1..n : ms[i] \in Members /\ ms[i].model \in Names
  <2> HIDE DEF ms
  <2>1. ms \in [1..n -> Members] /\ n \in Nat \ {0} /\ DOMAIN ms = 1..n
    BY <1>1, EmptySeq, LenProperties
  <2>2. \A m \in Members : m.model \in Names
    BY DEF Members
  <2>3. QED  BY <2>1, <2>2
<1>3. Named(ms)
  BY <1>1, <1>2, AnySeq DEF Named
<1> HIDE DEF ms, n
<1>4. ASSUME NEW s, s \in [1..n -> Members]
      PROVE  Named(s)
  <2>1. \A m \in Members : m.model \in Names
    BY DEF Members
  <2>2. s \in Seq(Members) /\ DOMAIN s = 1..n
    BY <1>2, <1>4
  <2>3. \A i \in 1..n : s[i].model \in Names
    BY <1>4, <2>1
  <2>4. QED  BY <2>2, <2>3, AnySeq DEF Named
<1>5. CASE vm.strategy = "manual"
  <2> DEFINE one == CHOOSE i \in 1..n : ms[i].model = vm.manual
  <2>1. order = <<>> \/ ((\E i \in 1..n : ms[i].model = vm.manual) /\ order = <<ms[one]>>)
    BY <1>5 DEF Orders, ms, n
  <2>2. CASE order = <<>>
    BY <2>2, NoPlans
  <2>3. CASE (\E i \in 1..n : ms[i].model = vm.manual) /\ order = <<ms[one]>>
    <3>1. one \in 1..n
      BY <2>3
    <3> HIDE DEF one
    <3>2. ms[one] \in Members /\ ms[one].model \in Names
      BY <1>2, <3>1
    <3>3. order \in Seq(Members) /\ DOMAIN order = {1} /\ order[1] = ms[one]
      BY <2>3, <3>2
    <3>4. QED  BY <3>2, <3>3, AnySeq DEF Named
  <2>4. QED  BY <2>1, <2>2, <2>3
<1>6. CASE vm.strategy = "round-robin"
  <2>1. order = [i \in 1..n |-> ms[((ticket + i - 1) % n) + 1]]
    BY <1>6 DEF Orders, ms, n
  <2>2. \A i \in 1..n : ((ticket + i - 1) % n) + 1 \in 1..n
    BY <1>2
  <2>3. order \in [1..n -> Members]
    BY <1>2, <2>1, <2>2
  <2>4. QED  BY <1>4, <2>3
<1>7. CASE vm.strategy \in {"random", "weighted"}
  <2>1. PICK p \in Bijection(1..n, 1..n) : order = [i \in 1..n |-> ms[p[i]]]
    BY <1>7 DEF Orders, ms, n
  <2>2. p \in [1..n -> 1..n]
    BY <2>1 DEF Bijection, Injection
  <2>3. order \in [1..n -> Members]
    BY <1>2, <2>1, <2>2
  <2>4. QED  BY <1>4, <2>3
<1>8. CASE vm.strategy = "fallback"
  BY <1>3, <1>8 DEF Orders, ms
<1>9. QED  BY <1>1, <1>5, <1>6, <1>7, <1>8 DEF VirtualModels, Strategies

LEMMA NamedByUntil ==
  ASSUME NEW s, NamedCooling(s), NEW sorted \in ByUntil(s)
  PROVE  Named(sorted)
<1> DEFINE n == Len(s)
           T == {x.target : x \in {s[i] : i \in DOMAIN s}}
<1>1. n \in Nat /\ DOMAIN s = 1..n
  BY Pushed DEF NamedCooling
<1>2. PICK p \in Bijection(1..n, 1..n) : sorted = [i \in 1..n |-> s[p[i]].target]
  BY DEF ByUntil
<1>3. p \in [1..n -> 1..n]
  BY <1>2 DEF Bijection, Injection
<1> HIDE DEF n
<1>4. \A i \in 1..n : sorted[i] \in T /\ sorted[i].model \in Names
  BY <1>1, <1>2, <1>3 DEF NamedCooling
<1> HIDE DEF T
<1>5. sorted \in [1..n -> T]
  BY <1>2, <1>4
<1>6. sorted \in Seq(T) /\ DOMAIN sorted = 1..n
  BY <1>1, <1>5
<1>7. QED  BY <1>4, <1>6, AnySeq DEF Named

-----------------------------------------------------------------------------
(* The steps of a request.                                                    *)
LEMMA AtHand ==
  ASSUME IInv, NEW r \in Requests
  PROVE  /\ Good(req[r]) /\ Sound(req[r]) /\ Placed(req[r])
         /\ DOMAIN req[r] = RequestFields
         /\ req[r].snap \in Configs /\ Held(r) \in Configs
         /\ Honest(req[r].snap, req[r].spent, req[r].answer)
         /\ req[r].stack # <<>> =>
              /\ SoundFrame(req[r].snap, req[r].spent, Top(r))
              /\ Top(r) = Last(req[r].stack)
              /\ Held(r) = req[r].snap
<1>1. Good(req[r]) /\ Sound(req[r]) /\ Placed(req[r])
  BY DEF IInv, Good
<1>2. cfg \in Configs /\ req[r].snap \in Configs /\ DOMAIN req[r] = RequestFields
  BY <1>1 DEF IInv, Sound
<1>3. Honest(req[r].snap, req[r].spent, req[r].answer)
  BY <1>1 DEF Sound
<1>4. QED  BY <1>1, <1>2, <1>3, TopSound DEF Top, Held

LEMMA ClaimMoves ==
  ASSUME IInv, NEW r \in Requests, NEW m \in Names, NEW stream, Claim(r, m, stream)
  PROVE  \E p : Moves(r, p)
<1> DEFINE q == req[r]
           p == [q EXCEPT !.pc = "enter", !.model = m, !.stream = stream]
<1>1. Good(q) /\ Sound(q) /\ Placed(q) /\ DOMAIN q = RequestFields /\ q.pc = "idle"
  BY AtHand DEF Claim
<1>2. req' = [req EXCEPT ![r] = p]
  BY DEF Claim
<1>3. /\ DOMAIN p = RequestFields /\ p.pc = "enter" /\ p.model = m
      /\ p.snap = q.snap /\ p.left = q.left /\ p.spent = q.spent /\ p.stack = q.stack
      /\ p.answer = q.answer /\ p.owed = q.owed /\ p.stopped = q.stopped
      /\ p.asked = q.asked
  BY <1>1 DEF RequestFields
<1> HIDE DEF p
<1>4. q.stopped \in BOOLEAN /\ ~q.stopped /\ q.answer = NoAnswer /\ q.owed = {}
  BY <1>1, NotStopped
<1>5. Sound(p)
  BY <1>1, <1>3, Kept DEF Sound
<1>6. q.stack = <<>> /\ q.spent = 0 /\ q.asked = Nothing
  BY <1>1 DEF Placed
<1>7. Good(p)
  <2>1. \A i \in 1..(Len(p.stack) - 1) : p.stack[i].targets # <<>>
    BY <1>3, <1>6
  <2>2. Placed(p)
    BY <1>3, <1>4, <1>6, <2>1 DEF Placed
  <2>3. Owing(p) /\ ~p.stopped
    BY <1>3, <1>4 DEF Owing
  <2>4. QED  BY <1>5, <2>2, <2>3 DEF Good
<1>8. View(p) = Seen("running", q.spent, q.asked, Unsettled)
  BY <1>3, <1>4, <1>7, Going DEF Underway
<1>9. View(q) = Seen("idle", q.spent, q.asked, Unsettled)
  BY <1>1 DEF View, Phase, Outcome, NoAnswer, Seen, Unsettled, Said
<1>10. Advances(View(q), View(p))
  BY <1>8, <1>9 DEF Advances, Seen
<1>11. QED  BY <1>2, <1>7, <1>10 DEF Moves

(* A call of Execute starts on the request's model, or on the group the plan  *)
(* has reached.                                                               *)
LEMMA EnteredAtHand ==
  ASSUME IInv, NEW r \in Requests, req[r].pc = "enter"
  PROVE  /\ Entered(r) \in Names
         /\ req[r].stopped \in BOOLEAN /\ ~req[r].stopped
         /\ req[r].answer = NoAnswer /\ req[r].owed = {}
         /\ \A i \in 1..Len(req[r].stack) : req[r].stack[i].targets # <<>>
<1> DEFINE q == req[r]
<1>1. Good(q) /\ Sound(q) /\ Placed(q)
  BY AtHand
<1>2. CASE q.stack = <<>>
  <2>1. Entered(r) = q.model
    BY <1>2 DEF Entered
  <2>2. q.model \in Names /\ Len(q.stack) = 0
    BY <1>1, <1>2 DEF Placed
  <2>3. QED  BY <1>1, <2>1, <2>2, NotStopped DEF Underway
<1>3. CASE q.stack # <<>>
  <2>1. /\ Last(q.stack).targets # <<>> /\ Named(Last(q.stack).targets)
        /\ Last(q.stack) = q.stack[Len(q.stack)] /\ Len(q.stack) \in Nat \ {0}
        /\ \A i \in 1..(Len(q.stack) - 1) : q.stack[i].targets # <<>>
    BY <1>1, <1>3, TopSound DEF Placed, SoundFrame
  <2>2. Entered(r) \in Names
    BY <1>3, <2>1, NamedPlans DEF Entered, Top
  <2>3. QED  BY <1>1, <2>1, <2>2, NotStopped DEF Underway
<1>4. QED  BY <1>2, <1>3

(* Starting with frame f, at pc or with an answer.                            *)
LEMMA StartedMoves ==
  ASSUME IInv, NEW r \in Requests, req[r].pc = "enter",
         NEW f, SoundFrame(Held(r), req[r].spent, f),
         NEW p, DOMAIN p = RequestFields, req' = [req EXCEPT ![r] = p],
         p.snap = Held(r), p.left = req[r].left, p.spent = req[r].spent,
         p.stack = Append(req[r].stack, f), p.asked = req[r].asked,
         p.owed = req[r].owed, p.stopped = req[r].stopped,
         \/ p.pc \in {"scan", "dispatch"} /\ p.answer = NoAnswer
         \/ p.pc = "return" /\ p.answer \in OwnFailures,
         p.pc = "scan" => f.scan # <<>>
  PROVE  \E k : Moves(r, k)
<1> DEFINE q == req[r]
<1>1. Good(q) /\ Sound(q) /\ Placed(q) /\ Held(r) \in Configs
  BY AtHand
<1>2. /\ q.stopped \in BOOLEAN /\ ~q.stopped /\ q.answer = NoAnswer /\ q.owed = {}
      /\ \A i \in 1..Len(q.stack) : q.stack[i].targets # <<>>
  BY EnteredAtHand
<1>3. Honest(p.snap, q.spent, p.answer)
  BY NoAnswerHonest, OwnFailuresHonest
<1>4. /\ Sound(p) /\ p.stack # <<>> /\ Last(p.stack) = f
      /\ Len(p.stack) = Len(q.stack) + 1 /\ Len(q.stack) \in Nat
      /\ \A i \in 1..Len(q.stack) : p.stack[i] = q.stack[i]
  <2>1. q.stack = <<>> \/ p.snap = q.snap
    BY DEF Held
  <2>2. p.snap \in Configs /\ SoundFrame(p.snap, q.spent, f)
    BY <1>1
  <2> HIDE DEF q
  <2>3. p.left = q.left /\ p.spent = q.spent /\ p.stack = Append(q.stack, f)
    BY DEF q
  <2>4. Sound(p) /\ p.stack # <<>>
    BY <1>1, <1>3, <2>1, <2>2, <2>3, Deepened
  <2>5. Len(p.stack) = Len(q.stack) + 1 /\ Len(q.stack) \in Nat
    BY <1>1, <1>3, <2>1, <2>2, <2>3, Deepened
  <2>6. \A i \in 1..Len(q.stack) : p.stack[i] = q.stack[i]
    BY <1>1, <1>3, <2>1, <2>2, <2>3, Deepened
  <2>7. Last(p.stack) = f
    BY <1>1, <2>3, <2>5, Pushed DEF Last, Sound
  <2>8. QED  BY <2>4, <2>5, <2>6, <2>7
<1>5. \A i \in 1..(Len(p.stack) - 1) : p.stack[i].targets # <<>>
  BY <1>2, <1>4
<1>6. p.pc = "return" => p.answer.type = "failed"
  BY OwnFailuresHonest, NoAnswerHonest
<1>7. Good(p)
  <2>1. Placed(p)
    BY <1>2, <1>4, <1>5, <1>6 DEF Placed
  <2>2. Owing(p) /\ ~p.stopped
    BY <1>2 DEF Owing
  <2>3. QED  BY <1>4, <2>1, <2>2 DEF Good
<1>8. Advances(View(q), View(p))
  <2>1. q.pc \in Underway
    BY DEF Underway
  <2>2. CASE p.pc = "return"
    BY <1>1, <1>2, <1>7, <2>1, <2>2, MayEnd
  <2>3. CASE p.pc # "return"
    BY <1>1, <1>7, <2>1, <2>3, StillGoing DEF Underway
  <2>4. QED  BY <2>2, <2>3
<1>9. QED  BY <1>7, <1>8 DEF Moves

LEMMA StartedFields ==
  ASSUME IInv, NEW r \in Requests, NEW f, NEW pc
  PROVE  LET p == Started(r, f, pc)
             q == req[r]
         IN  /\ DOMAIN p = RequestFields /\ p.pc = pc
             /\ p.snap = Held(r) /\ p.left = q.left /\ p.spent = q.spent
             /\ p.stack = Append(q.stack, f) /\ p.asked = q.asked
             /\ p.owed = q.owed /\ p.stopped = q.stopped /\ p.answer = q.answer
  BY AtHand DEF Started, RequestFields

LEMMA AnsweringFields ==
  ASSUME NEW q, DOMAIN q = RequestFields, NEW a
  PROVE  LET p == Answering(q, a)
         IN  /\ DOMAIN p = RequestFields /\ p.pc = "return" /\ p.answer = a
             /\ p.snap = q.snap /\ p.left = q.left /\ p.spent = q.spent
             /\ p.stack = q.stack /\ p.asked = q.asked
             /\ p.owed = q.owed /\ p.stopped = q.stopped /\ p.committed = q.committed
  BY DEF Answering, RequestFields

LEMMA EnterRefusedMoves ==
  ASSUME IInv, NEW r \in Requests, EnterRefused(r)
  PROVE  \E p : Moves(r, p)
<1> DEFINE g == Entered(r)
           s == Started(r, Frame(g), "return")
           p == Answering(s, Refusal(r, g))
<1>1. req[r].pc = "enter" /\ req' = [req EXCEPT ![r] = p]
  BY DEF EnterRefused
<1>2. Refusal(r, g) \in OwnFailures
  BY DEF EnterRefused, Refusal, OwnFailures
<1>3. SoundFrame(Held(r), req[r].spent, Frame(g))
  BY AtHand, NewFrame
<1>4. DOMAIN s = RequestFields
  BY StartedFields
<1> HIDE DEF g, s
<1>5. /\ s.snap = Held(r) /\ s.left = req[r].left /\ s.spent = req[r].spent
      /\ s.stack = Append(req[r].stack, Frame(g)) /\ s.asked = req[r].asked
      /\ s.owed = req[r].owed /\ s.stopped = req[r].stopped
  BY StartedFields DEF s
<1>6. /\ DOMAIN p = RequestFields /\ p.pc = "return" /\ p.answer = Refusal(r, g)
      /\ p.snap = Held(r) /\ p.left = req[r].left /\ p.spent = req[r].spent
      /\ p.stack = Append(req[r].stack, Frame(g)) /\ p.asked = req[r].asked
      /\ p.owed = req[r].owed /\ p.stopped = req[r].stopped
  BY <1>4, <1>5, AnsweringFields
<1> HIDE DEF p
<1>7. QED  BY <1>1, <1>2, <1>3, <1>6, StartedMoves

LEMMA EnterGroupMoves ==
  ASSUME IInv, NEW r \in Requests, EnterGroup(r)
  PROVE  (\E p : Moves(r, p)) /\ turn' \in [Groups -> Nat]
<1> DEFINE g == Entered(r)
           c == Held(r)
           vm == c.virtual[g]
<1>1. req[r].pc = "enter" /\ g \in DOMAIN c.virtual /\ Refusal(r, g) = NoAnswer /\ c \in Configs
  BY AtHand DEF EnterGroup
<1>2. g \in Groups /\ vm.max \in Nat /\ turn \in [Groups -> Nat]
  BY <1>1, EngineConfigsAssumption DEF IsConfig, VirtualModels, IInv
<1>3. PICK order \in Orders(vm, turn[g]) :
        req' = [req EXCEPT ![r] =
          Started(r, Facing(c, [Frame(g) EXCEPT !.scan = order, !.budget = vm.max]), "scan")]
  BY DEF EnterGroup
<1>4. order # <<>>
  <2>1. \A f \in OwnFailures : f # NoAnswer
    BY OwnFailuresHonest, NoAnswerHonest
  <2>2. <<>> \notin Orders(vm, turn[g])
    BY <1>1, <2>1 DEF Refusal, OwnFailures
  <2>3. QED  BY <1>3, <2>2
<1>5. Named(order)
  BY <1>1, <1>2, <1>3, NamedOrders
<1> DEFINE e == [Frame(g) EXCEPT !.scan = order, !.budget = vm.max]
           f == Facing(c, e)
<1>6. SoundFrame(c, req[r].spent, e) /\ e.scan = order
  <2>1. /\ DOMAIN e = FrameFields
        /\ e.model = g /\ e.calls = 0 /\ e.budget = vm.max /\ e.last = NoAnswer
        /\ e.scan = order /\ e.targets = <<>> /\ e.cooling = <<>>
    BY DEF Frame, FrameFields
  <2> HIDE DEF e
  <2>2. Accounted(c, e)
    BY <1>2, <2>1 DEF Accounted
  <2>3. QED  BY <1>5, <2>1, <2>2, NoAnswerHonest, NoPlans DEF SoundFrame
<1> HIDE DEF e
<1>7. SoundFrame(c, req[r].spent, f) /\ f.scan # <<>>
  BY <1>4, <1>6, FacingFrame
<1> HIDE DEF f
<1>8. req' = [req EXCEPT ![r] = Started(r, f, "scan")]
  BY <1>3 DEF e, f
<1>9. req[r].answer = NoAnswer
  BY <1>1, EnteredAtHand
<1>10. \E p : Moves(r, p)
  <2> DEFINE p == Started(r, f, "scan")
  <2>1. /\ DOMAIN p = RequestFields /\ p.pc = "scan"
        /\ p.snap = Held(r) /\ p.left = req[r].left /\ p.spent = req[r].spent
        /\ p.stack = Append(req[r].stack, f) /\ p.asked = req[r].asked
        /\ p.owed = req[r].owed /\ p.stopped = req[r].stopped /\ p.answer = NoAnswer
    BY <1>9, StartedFields
  <2>2. req' = [req EXCEPT ![r] = p]
    BY <1>8
  <2> HIDE DEF p
  <2>3. QED  BY <1>1, <1>7, <2>1, <2>2, StartedMoves
<1>11. turn' \in [Groups -> Nat]
  BY <1>2 DEF EnterGroup, Turned
<1>12. QED  BY <1>10, <1>11

LEMMA EnterDirectMoves ==
  ASSUME IInv, NEW r \in Requests, EnterDirect(r)
  PROVE  \E p : Moves(r, p)
<1> DEFINE m == Entered(r)
           ruled == m \in DOMAIN Held(r).rules
           tries == IF ruled THEN 1 + Held(r).rules[m].retries ELSE 1
           expect == IF ruled THEN Checked(Held(r).rules[m].strict) ELSE "none"
           target == [model |-> m, expect |-> expect, tries |-> tries]
<1>1. /\ target.model = m
      /\ req' = [req EXCEPT ![r] =
             Started(r, [Frame(m) EXCEPT !.targets = <<target>>, !.quota = tries], "dispatch")]
  BY DEF EnterDirect
<1> HIDE DEF target, tries
<1>2. req[r].pc = "enter" /\ Held(r) \in Configs /\ m \in Names /\ req[r].answer = NoAnswer
  BY AtHand, EnteredAtHand DEF EnterDirect
<1> DEFINE f == [Frame(m) EXCEPT !.targets = <<target>>, !.quota = tries]
<1>3. SoundFrame(Held(r), req[r].spent, f)
  <2>1. SoundFrame(Held(r), req[r].spent, Frame(m))
    BY <1>2, NewFrame
  <2>2. /\ DOMAIN f = FrameFields /\ f.targets = <<target>> /\ f.model = Frame(m).model
        /\ f.calls = Frame(m).calls /\ f.budget = Frame(m).budget
        /\ f.last = Frame(m).last /\ f.scan = Frame(m).scan /\ f.cooling = Frame(m).cooling
    BY DEF Frame, FrameFields
  <2>3. Named(<<target>>)
    <3>1. <<target>> \in Seq({target}) /\ DOMAIN <<target>> = {1} /\ <<target>>[1] = target
      OBVIOUS
    <3>2. QED  BY <1>1, <1>2, <3>1, AnySeq DEF Named
  <2> HIDE DEF f
  <2>4. QED  BY <2>1, <2>2, <2>3, FrameKept DEF SoundFrame
<1> HIDE DEF f
<1>4. req' = [req EXCEPT ![r] = Started(r, f, "dispatch")]
  BY <1>1 DEF f
<1> DEFINE p == Started(r, f, "dispatch")
<1>5. /\ DOMAIN p = RequestFields /\ p.pc = "dispatch"
      /\ p.snap = Held(r) /\ p.left = req[r].left /\ p.spent = req[r].spent
      /\ p.stack = Append(req[r].stack, f) /\ p.asked = req[r].asked
      /\ p.owed = req[r].owed /\ p.stopped = req[r].stopped /\ p.answer = NoAnswer
  BY <1>2, StartedFields
<1>6. req' = [req EXCEPT ![r] = p]
  BY <1>4
<1> HIDE DEF p
<1>7. QED  BY <1>2, <1>3, <1>5, <1>6, StartedMoves

(* A step that replaces the top frame by f and goes on, or has a failure of   *)
(* the engine's own.                                                          *)
LEMMA ReplacedMoves ==
  ASSUME IInv, NEW r \in Requests, req[r].pc \in Underway, req[r].stack # <<>>,
         NEW f, SoundFrame(req[r].snap, req[r].spent, f),
         NEW p, DOMAIN p = RequestFields, req' = [req EXCEPT ![r] = p],
         p.snap = req[r].snap, p.left = req[r].left, p.spent = req[r].spent,
         p.stack = Append(Front(req[r].stack), f), p.asked = req[r].asked,
         p.stopped = req[r].stopped,
         \/ p.pc \in {"scan", "dispatch"} /\ p.answer = NoAnswer
         \/ p.pc = "return" /\ p.answer \in OwnFailures,
         p.pc = "scan" => f.scan # <<>>,
         \/ p.owed = {}
         \/ /\ p.pc = "dispatch" /\ f.targets # <<>> /\ f.attempts < f.quota
            /\ Head(f.targets).model \notin DOMAIN p.snap.virtual
            /\ p.owed \subseteq {Head(f.targets).model}
  PROVE  \E k : Moves(r, k)
<1> DEFINE q == req[r]
<1>1. Good(q) /\ Sound(q) /\ Placed(q)
  BY AtHand
<1>2. q.stopped \in BOOLEAN /\ ~q.stopped
  BY <1>1, NotStopped
<1>3. Honest(q.snap, q.spent, p.answer)
  BY NoAnswerHonest, OwnFailuresHonest
<1>4. /\ Sound(p) /\ p.stack # <<>>
      /\ Len(p.stack) = Len(q.stack) /\ Len(q.stack) \in Nat \ {0}
      /\ \A i \in 1..(Len(q.stack) - 1) : p.stack[i] = q.stack[i]
  <2> HIDE DEF q
  <2>1. /\ p.snap = q.snap /\ p.left = q.left /\ p.spent = q.spent
        /\ p.stack = Append(Front(q.stack), f) /\ q.stack # <<>>
        /\ SoundFrame(q.snap, q.spent, f)
    BY DEF q
  <2>2. Sound(p) /\ p.stack # <<>>
    BY <1>1, <1>3, <2>1, Replaced, SMTT(30)
  <2>3. Len(p.stack) = Len(q.stack) /\ Len(q.stack) \in Nat \ {0}
    BY <1>1, <1>3, <2>1, Replaced, SMTT(30)
  <2>4. \A i \in 1..(Len(q.stack) - 1) : p.stack[i] = q.stack[i]
    BY <1>1, <2>1, Fronted, Pushed DEF Sound
  <2>5. QED  BY <2>2, <2>3, <2>4
<1>5. Last(p.stack) = f
  <2>1. IsSeq(Front(q.stack))
    BY <1>1, Fronted DEF Sound
  <2>2. QED  BY <2>1, Pushed DEF Last
<1>6. \A i \in 1..(Len(p.stack) - 1) : p.stack[i].targets # <<>>
  BY <1>1, <1>4 DEF Placed
<1>7. p.pc = "return" => p.answer.type = "failed"
  BY OwnFailuresHonest, NoAnswerHonest
<1>8. Placed(p)
  BY <1>2, <1>4, <1>5, <1>6, <1>7 DEF Placed
<1>9. Owing(p)
  BY <1>5 DEF Owing, Hand
<1>10. Good(p)
  BY <1>2, <1>4, <1>8, <1>9 DEF Good
<1>11. Advances(View(q), View(p))
  <2>1. CASE p.pc = "return"
    BY <1>1, <1>2, <1>10, <2>1, MayEnd
  <2>2. CASE p.pc # "return"
    BY <1>1, <1>10, <2>2, StillGoing DEF Underway
  <2>3. QED  BY <2>1, <2>2
<1>12. QED  BY <1>10, <1>11 DEF Moves

LEMMA WithTopFields ==
  ASSUME IInv, NEW r \in Requests, NEW f, NEW pc
  PROVE  LET p == WithTop(r, f, pc)
             q == req[r]
         IN  /\ DOMAIN p = RequestFields /\ p.pc = pc
             /\ p.snap = q.snap /\ p.left = q.left /\ p.spent = q.spent
             /\ p.stack = Append(Front(q.stack), f) /\ p.asked = q.asked
             /\ p.owed = q.owed /\ p.stopped = q.stopped /\ p.answer = q.answer
  BY AtHand DEF WithTop, RequestFields

(* A plan once made is followed, or its group has a failure.                  *)
LEMMA PlannedIs ==
  ASSUME NEW r \in Requests, NEW c, NEW n, NEW f, SoundFrame(c, n, f),
         NEW p \in Planned(r, f)
  PROVE  \E g : /\ SoundFrame(c, n, g)
                /\ \/ p = WithTop(r, g, "dispatch")
                   \/ \E a \in OwnFailures : p = Answering(WithTop(r, g, "return"), a)
<1> DEFINE vm == req[r].snap.virtual[f.model]
           Followed(targets, degraded) ==
             [f EXCEPT !.cooling = <<>>, !.targets = targets, !.degraded = degraded,
                       !.quota = Quota(vm, targets)]
<1>1. ASSUME NEW targets, Named(targets), NEW degraded
      PROVE  SoundFrame(c, n, Followed(targets, degraded))
  <2> DEFINE g == Followed(targets, degraded)
  <2>1. /\ DOMAIN g = FrameFields /\ g.model = f.model /\ g.calls = f.calls
        /\ g.budget = f.budget /\ g.last = f.last /\ g.scan = f.scan
        /\ g.targets = targets /\ g.cooling = <<>>
    BY FrameParts DEF FrameFields
  <2> HIDE DEF g
  <2>2. SoundFrame(c, n, g)
    BY <1>1, <2>1, FrameKept, FrameParts, NoPlans
  <2>3. QED  BY <2>2 DEF g
<1>2. \/ p = WithTop(r, Followed(f.targets, FALSE), "dispatch")
      \/ p = Answering(WithTop(r, f, "return"), SelectedCooling)
      \/ p = Answering(WithTop(r, f, "return"), AllCooling)
      \/ \E sorted \in ByUntil(f.cooling) : p = WithTop(r, Followed(sorted, TRUE), "dispatch")
  BY DEF Planned
<1> HIDE DEF Followed
<1>3. CASE p = WithTop(r, Followed(f.targets, FALSE), "dispatch")
  <2>1. Named(f.targets)
    BY FrameParts
  <2>2. QED  BY <1>1, <1>3, <2>1
<1>4. CASE \/ p = Answering(WithTop(r, f, "return"), SelectedCooling)
           \/ p = Answering(WithTop(r, f, "return"), AllCooling)
  BY <1>4 DEF OwnFailures
<1>5. CASE \E sorted \in ByUntil(f.cooling) : p = WithTop(r, Followed(sorted, TRUE), "dispatch")
  <2>1. PICK sorted \in ByUntil(f.cooling) : p = WithTop(r, Followed(sorted, TRUE), "dispatch")
    BY <1>5
  <2>2. Named(sorted)
    BY NamedByUntil, FrameParts
  <2>3. QED  BY <1>1, <2>1, <2>2
<1>6. QED  BY <1>2, <1>3, <1>4, <1>5

(* The member at hand is judged: on to the next one, or the plan is made.     *)
LEMMA JudgedMoves ==
  ASSUME IInv, NEW r \in Requests, req[r].pc = "scan",
         NEW f, SoundFrame(req[r].snap, req[r].spent, f), f.scan # <<>>,
         NEW p \in Judged(r, f), req' = [req EXCEPT ![r] = p]
  PROVE  \E k : Moves(r, k)
<1> DEFINE c == req[r].snap
           n == req[r].spent
           e == [f EXCEPT !.scan = Tail(@)]
           next == Facing(c, e)
<1>1. SoundFrame(c, n, e)
  <2>1. /\ DOMAIN e = FrameFields /\ e.model = f.model /\ e.calls = f.calls
        /\ e.budget = f.budget /\ e.last = f.last /\ e.scan = Tail(f.scan)
        /\ e.targets = f.targets /\ e.cooling = f.cooling
    BY FrameParts DEF FrameFields
  <2> HIDE DEF e
  <2>2. Named(e.scan)
    BY <2>1, NamedPlans, FrameParts
  <2>3. QED  BY <2>1, <2>2, FrameKept, FrameParts
<1>2. IF next.scan = <<>> THEN p \in Planned(r, next) ELSE p = WithTop(r, next, "scan")
  BY DEF Judged
<1> HIDE DEF e
<1>3. SoundFrame(c, n, next)
  BY <1>1, FacingFrame
<1> HIDE DEF next
<1>4. /\ req[r].stack # <<>> /\ req[r].pc \in Underway
      /\ req[r].answer = NoAnswer /\ req[r].owed = {}
  <2>1. req[r].pc \in Underway
    BY DEF Underway
  <2>2. QED  BY <2>1, AtHand, NotStopped DEF Placed
<1>5. \E g : /\ SoundFrame(c, n, g)
             /\ \/ p = WithTop(r, g, "dispatch")
                \/ p = WithTop(r, g, "scan") /\ g.scan # <<>>
                \/ \E a \in OwnFailures : p = Answering(WithTop(r, g, "return"), a)
  <2>1. CASE next.scan = <<>>
    BY <1>2, <1>3, <2>1, PlannedIs
  <2>2. CASE next.scan # <<>>
    BY <1>2, <1>3, <2>2
  <2>3. QED  BY <2>1, <2>2
<1>6. PICK g : /\ SoundFrame(c, n, g)
               /\ \/ p = WithTop(r, g, "dispatch")
                  \/ p = WithTop(r, g, "scan") /\ g.scan # <<>>
                  \/ \E a \in OwnFailures : p = Answering(WithTop(r, g, "return"), a)
  BY <1>5
<1>7. /\ DOMAIN p = RequestFields
      /\ p.snap = c /\ p.left = req[r].left /\ p.spent = n
      /\ p.stack = Append(Front(req[r].stack), g) /\ p.asked = req[r].asked
      /\ p.stopped = req[r].stopped /\ p.owed = {}
      /\ \/ p.pc \in {"scan", "dispatch"} /\ p.answer = NoAnswer
         \/ p.pc = "return" /\ p.answer \in OwnFailures
      /\ p.pc = "scan" => g.scan # <<>>
  <2>1. ASSUME NEW pc
        PROVE  LET w == WithTop(r, g, pc)
               IN  /\ DOMAIN w = RequestFields /\ w.pc = pc
                   /\ w.snap = c /\ w.left = req[r].left /\ w.spent = n
                   /\ w.stack = Append(Front(req[r].stack), g) /\ w.asked = req[r].asked
                   /\ w.stopped = req[r].stopped /\ w.owed = {} /\ w.answer = NoAnswer
    BY <1>4, WithTopFields
  <2>2. CASE p = WithTop(r, g, "dispatch")
    BY <2>1, <2>2
  <2>3. CASE p = WithTop(r, g, "scan") /\ g.scan # <<>>
    BY <2>1, <2>3
  <2>4. CASE \E a \in OwnFailures : p = Answering(WithTop(r, g, "return"), a)
    BY <2>1, <2>4, AnsweringFields
  <2>5. QED  BY <1>6, <2>2, <2>3, <2>4
<1>8. QED  BY <1>4, <1>6, <1>7, ReplacedMoves

LEMMA FindReadyMoves ==
  ASSUME IInv, NEW r \in Requests, FindReady(r)
  PROVE  \E p : Moves(r, p)
<1> DEFINE f == Top(r)
           e == [f EXCEPT !.targets = Append(@, Candidate(r))]
<1>1. PICK p \in Judged(r, e) : req' = [req EXCEPT ![r] = p]
  BY DEF FindReady
<1>2. /\ req[r].pc = "scan" /\ SoundFrame(req[r].snap, req[r].spent, f) /\ f.scan # <<>>
  BY AtHand DEF FindReady, Placed
<1>3. Candidate(r).model \in Names
  BY <1>2, NamedPlans, FrameParts DEF Candidate
<1>4. SoundFrame(req[r].snap, req[r].spent, e) /\ e.scan # <<>>
  <2>1. /\ DOMAIN e = FrameFields /\ e.model = f.model /\ e.calls = f.calls
        /\ e.budget = f.budget /\ e.last = f.last /\ e.scan = f.scan
        /\ e.targets = Append(f.targets, Candidate(r)) /\ e.cooling = f.cooling
    BY <1>2, FrameParts DEF FrameFields
  <2> HIDE DEF e, f
  <2>2. Named(e.targets)
    BY <1>2, <1>3, <2>1, NamedPlans, FrameParts
  <2>3. Honest(req[r].snap, req[r].spent, e.last) /\ (e.last = NoAnswer \/ e.last.type = "failed")
    BY <1>2, <2>1, FrameParts
  <2>4. Named(e.scan) /\ NamedCooling(e.cooling)
    BY <1>2, <2>1, FrameParts
  <2>5. SoundFrame(req[r].snap, req[r].spent, e)
    BY <1>2, <2>1, <2>2, <2>3, <2>4, FrameKept
  <2>6. QED  BY <1>2, <2>1, <2>5
<1> HIDE DEF e
<1>5. QED  BY <1>1, <1>2, <1>4, JudgedMoves

LEMMA LookFurtherMoves ==
  ASSUME IInv, NEW r \in Requests, LookFurther(r)
  PROVE  \E p : Moves(r, p)
<1> DEFINE f == Top(r)
           e == [f EXCEPT !.look = Tail(@), !.soon = Sooner(@, Until(Head(f.look)))]
           p == WithTop(r, e, "scan")
<1>1. req' = [req EXCEPT ![r] = p]
  BY DEF LookFurther
<1>2. /\ req[r].pc = "scan" /\ req[r].stack # <<>>
      /\ SoundFrame(req[r].snap, req[r].spent, f) /\ f.scan # <<>>
  BY AtHand DEF LookFurther, Placed
<1>3. SoundFrame(req[r].snap, req[r].spent, e) /\ e.scan # <<>>
  <2>1. /\ DOMAIN e = FrameFields /\ e.model = f.model /\ e.calls = f.calls
        /\ e.budget = f.budget /\ e.last = f.last /\ e.scan = f.scan
        /\ e.targets = f.targets /\ e.cooling = f.cooling
    BY <1>2, FrameParts DEF FrameFields
  <2> HIDE DEF e, f
  <2>2. QED  BY <1>2, <2>1, FrameKept, FrameParts
<1> HIDE DEF e
<1>4. /\ req[r].pc \in Underway /\ req[r].answer = NoAnswer /\ req[r].owed = {}
  <2>1. req[r].pc \in Underway
    BY <1>2 DEF Underway
  <2>2. QED  BY <1>2, <2>1, AtHand, NotStopped
<1>5. /\ DOMAIN p = RequestFields /\ p.pc = "scan"
      /\ p.snap = req[r].snap /\ p.left = req[r].left /\ p.spent = req[r].spent
      /\ p.stack = Append(Front(req[r].stack), e) /\ p.asked = req[r].asked
      /\ p.owed = {} /\ p.stopped = req[r].stopped /\ p.answer = NoAnswer
  BY <1>4, WithTopFields
<1> HIDE DEF p
<1>6. QED  BY <1>1, <1>2, <1>3, <1>4, <1>5, ReplacedMoves

LEMMA FindCoolingMoves ==
  ASSUME IInv, NEW r \in Requests, FindCooling(r)
  PROVE  \E p : Moves(r, p)
<1> DEFINE f == Top(r)
           until == IF f.look = <<>> THEN 0 ELSE Sooner(f.soon, Until(Head(f.look)))
           x == [target |-> Candidate(r), until |-> until]
           e == [f EXCEPT !.cooling = Append(@, x)]
<1>1. PICK p \in Judged(r, e) : req' = [req EXCEPT ![r] = p]
  BY DEF FindCooling
<1>2. /\ req[r].pc = "scan" /\ SoundFrame(req[r].snap, req[r].spent, f) /\ f.scan # <<>>
  BY AtHand DEF FindCooling, Placed
<1>3. x.target.model \in Names
  BY <1>2, NamedPlans, FrameParts DEF Candidate
<1> HIDE DEF x
<1>4. SoundFrame(req[r].snap, req[r].spent, e) /\ e.scan # <<>>
  <2>1. /\ DOMAIN e = FrameFields /\ e.model = f.model /\ e.calls = f.calls
        /\ e.budget = f.budget /\ e.last = f.last /\ e.scan = f.scan
        /\ e.targets = f.targets /\ e.cooling = Append(f.cooling, x)
    BY <1>2, FrameParts DEF FrameFields
  <2> HIDE DEF e, f
  <2>2. NamedCooling(e.cooling)
    BY <1>2, <1>3, <2>1, NamedAlso, FrameParts
  <2>3. Honest(req[r].snap, req[r].spent, e.last) /\ (e.last = NoAnswer \/ e.last.type = "failed")
    BY <1>2, <2>1, FrameParts
  <2>4. Named(e.scan) /\ Named(e.targets)
    BY <1>2, <2>1, FrameParts
  <2>5. SoundFrame(req[r].snap, req[r].spent, e)
    BY <1>2, <2>1, <2>2, <2>3, <2>4, FrameKept
  <2>6. QED  BY <1>2, <2>1, <2>5
<1> HIDE DEF e
<1>5. QED  BY <1>1, <1>2, <1>4, JudgedMoves

(* A call of Execute has its answer.                                          *)
LEMMA EndsMoves ==
  ASSUME IInv, NEW r \in Requests, req[r].pc \in Underway, req[r].stack # <<>>,
         NEW p, DOMAIN p = RequestFields, req' = [req EXCEPT ![r] = p],
         p.pc = "return", p.snap = req[r].snap, p.left = req[r].left,
         p.spent = req[r].spent, p.stack = req[r].stack, p.asked = req[r].asked,
         Honest(req[r].snap, req[r].spent, p.answer),
         \/ p.answer.type = "failed"
         \/ /\ p.answer.type \in {"delivered", "broken"} /\ p.answer.code = ""
            /\ p.answer.by = p.asked /\ p.spent > 0,
         p.stopped \in BOOLEAN,
         p.stopped => \A i \in 1..(Len(p.stack) - 1) : ~WouldGoOn(p, p.stack[i]),
         p.owed = {} \/ Terminal(p.answer)
  PROVE  \E k : Moves(r, k)
<1> DEFINE q == req[r]
<1>1. Good(q) /\ Sound(q) /\ Placed(q) /\ ~q.stopped
  BY AtHand, NotStopped
<1>2. Sound(p)
  BY <1>1, Kept
<1>3. \A i \in 1..(Len(p.stack) - 1) : p.stack[i].targets # <<>>
  BY <1>1 DEF Placed
<1>4. Placed(p)
  BY <1>3 DEF Placed
<1>5. Owing(p) /\ (p.stopped => Stopping(p))
  BY DEF Owing, Stopping
<1>6. Good(p)
  BY <1>2, <1>4, <1>5 DEF Good
<1>7. Advances(View(q), View(p))
  BY <1>1, <1>6, MayEnd
<1>8. QED  BY <1>6, <1>7 DEF Moves

LEMMA TerminalEnds ==
  ASSUME NEW p, Terminal(p.answer) \/ p.answer.type # "failed"
  PROVE  \A f : ~WouldGoOn(p, f)
  BY DEF WouldGoOn

LEMMA DescendMoves ==
  ASSUME IInv, NEW r \in Requests, Descend(r)
  PROVE  \E p : Moves(r, p)
<1> DEFINE q == req[r]
           p == [q EXCEPT !.pc = "enter"]
<1>1. /\ Good(q) /\ Sound(q) /\ Placed(q) /\ q.pc = "dispatch" /\ DOMAIN q = RequestFields
      /\ Top(r) = Last(q.stack) /\ q.stack # <<>>
      /\ Last(q.stack).targets # <<>> /\ Hand(q) \in DOMAIN q.snap.virtual
  <2>1. q.stack # <<>>
    BY AtHand DEF Descend, Placed
  <2>2. QED  BY <2>1, AtHand DEF Descend, Remaining, IsGroup, Hand
<1>2. req' = [req EXCEPT ![r] = p]
  BY DEF Descend
<1>3. /\ DOMAIN p = RequestFields /\ p.pc = "enter"
      /\ p.snap = q.snap /\ p.left = q.left /\ p.spent = q.spent /\ p.stack = q.stack
      /\ p.answer = q.answer /\ p.owed = q.owed /\ p.stopped = q.stopped
      /\ p.asked = q.asked
  BY <1>1 DEF RequestFields
<1> HIDE DEF p
<1>4. q.stopped \in BOOLEAN /\ ~q.stopped /\ q.answer = NoAnswer
  BY <1>1, NotStopped DEF Underway
<1>5. q.owed = {}
  BY <1>1 DEF Good, Owing
<1>6. Sound(p)
  BY <1>1, <1>3, Kept DEF Sound
<1>7. Good(p)
  <2>1. \A i \in 1..(Len(p.stack) - 1) : p.stack[i].targets # <<>>
    BY <1>1, <1>3 DEF Placed
  <2>2. Placed(p)
    BY <1>1, <1>3, <1>4, <2>1 DEF Placed
  <2>3. Owing(p) /\ ~p.stopped
    BY <1>3, <1>4, <1>5 DEF Owing
  <2>4. QED  BY <1>6, <2>2, <2>3 DEF Good
<1>8. Advances(View(q), View(p))
  BY <1>1, <1>3, <1>7, StillGoing DEF Underway
<1>9. QED  BY <1>2, <1>7, <1>8 DEF Moves

(* One more leaf call, out of every budget on the path.                       *)
LEMMA ConsumedFrames ==
  ASSUME IInv, NEW r \in Requests, req[r].stack # <<>>, Affordable(r)
  PROVE  LET q == req[r]
             s == Consumed(r)
         IN  /\ IsSeq(s) /\ Len(s) = Len(q.stack) /\ DOMAIN s = DOMAIN q.stack
             /\ s # <<>>
             /\ \A i \in DOMAIN s : /\ SoundFrame(q.snap, q.spent + 1, s[i])
                                    /\ s[i].targets = q.stack[i].targets
<1> DEFINE q == req[r]
           s == Consumed(r)
           n == Len(q.stack)
<1>1. /\ Sound(q) /\ q.snap \in Configs /\ q.spent \in Nat
      /\ DOMAIN q.stack = 1..n /\ n \in Nat \ {0}
  BY AtHand, TopSound DEF Sound
<1>2. DOMAIN s = 1..n
  BY <1>1 DEF Consumed
<1>3. ASSUME NEW i \in 1..n
      PROVE  SoundFrame(q.snap, q.spent + 1, s[i]) /\ s[i].targets = q.stack[i].targets
  <2> DEFINE f == q.stack[i]
             vm == q.snap.virtual[f.model]
  <2>1. SoundFrame(q.snap, q.spent, f)
    BY <1>1 DEF Sound
  <2>2. DOMAIN f = FrameFields /\ Accounted(q.snap, f)
    BY <2>1 DEF SoundFrame
  <2>3. s[i] = [f EXCEPT !.calls = @ + 1,
                         !.attempts = IF i = n THEN @ + 1 ELSE @,
                         !.budget = IF i \in Budgeted(r) THEN @ - 1 ELSE @]
    BY <1>1 DEF Consumed
  <2>4. /\ DOMAIN s[i] = FrameFields /\ s[i].model = f.model /\ s[i].calls = f.calls + 1
        /\ s[i].budget = IF i \in Budgeted(r) THEN f.budget - 1 ELSE f.budget
        /\ s[i].last = f.last /\ s[i].scan = f.scan /\ s[i].targets = f.targets
        /\ s[i].cooling = f.cooling
    BY <2>2, <2>3 DEF FrameFields
  <2>5. i \in Budgeted(r) <=> f.model \in DOMAIN q.snap.virtual /\ vm.max > 0
    BY <1>1 DEF Budgeted, Path, IsGroup
  <2>6. i \in Budgeted(r) => f.budget > 0
    BY DEF Affordable
  <2>7. f.model \in DOMAIN q.snap.virtual => vm.max \in Nat
    BY <1>1, EngineConfigsAssumption DEF IsConfig, VirtualModels
  <2>8. /\ f.calls \in Nat /\ f.budget \in Nat
        /\ f.model \in DOMAIN q.snap.virtual => vm.max = 0 \/ f.calls + f.budget <= vm.max
    BY <2>2 DEF Accounted
  <2> HIDE DEF s, vm, f
  <2>9. s[i].calls \in Nat /\ s[i].budget \in Nat
    BY <2>4, <2>6, <2>8
  <2>10. f.model \in DOMAIN q.snap.virtual =>
           vm.max = 0 \/ s[i].calls + s[i].budget <= vm.max
    BY <2>4, <2>5, <2>6, <2>7, <2>8
  <2>11. Accounted(q.snap, s[i])
    BY <2>4, <2>9, <2>10 DEF Accounted, vm
  <2>12. Honest(q.snap, q.spent + 1, f.last)
    BY <1>1, <2>1, FrameParts, HonestLater
  <2>13. SoundFrame(q.snap, q.spent + 1, s[i])
    BY <2>1, <2>4, <2>11, <2>12, FrameParts DEF SoundFrame
  <2>14. QED  BY <2>4, <2>13 DEF f
<1>4. IsSeq(s) /\ Len(s) = n
  <2> DEFINE T == {s[i] : i \in 1..n}
  <2>1. \A i \in 1..n : s[i] \in T
    OBVIOUS
  <2>2. s = [i \in 1..n |-> s[i]]
    BY <1>1 DEF Consumed
  <2> HIDE DEF T, s
  <2>3. s \in [1..n -> T]
    BY <1>2, <2>1, <2>2
  <2>4. s \in Seq(T)
    BY <1>1, <2>3
  <2>5. Len(s) = n
    BY <1>1, <1>2, <2>4, LenProperties
  <2>6. QED  BY <2>4, <2>5, AnySeq
<1>5. s # <<>>
  BY <1>1, <1>4
<1>6. QED  BY <1>1, <1>2, <1>3, <1>4, <1>5

LEMMA CallMoves ==
  ASSUME IInv, NEW r \in Requests, Call(r)
  PROVE  \E p : Moves(r, p)
<1> DEFINE q == req[r]
           m == Head(Top(r).targets).model
           p == [q EXCEPT !.pc = "host", !.left = @ - 1, !.spent = @ + 1,
                          !.asked = m, !.stack = Consumed(r)]
<1>1. /\ Good(q) /\ Sound(q) /\ Placed(q) /\ q.pc = "dispatch" /\ DOMAIN q = RequestFields
      /\ Top(r) = Last(q.stack) /\ q.stack # <<>> /\ Affordable(r) /\ q.left > 0
      /\ Last(q.stack).targets # <<>> /\ m \notin DOMAIN q.snap.virtual /\ m = Hand(q)
  <2>1. q.stack # <<>>
    BY AtHand DEF Call, Placed
  <2>2. QED  BY <2>1, AtHand DEF Call, Remaining, IsGroup, Hand, Affordable
<1>2. req' = [req EXCEPT ![r] = p]
  BY DEF Call
<1>3. /\ DOMAIN p = RequestFields /\ p.pc = "host"
      /\ p.snap = q.snap /\ p.left = q.left - 1 /\ p.spent = q.spent + 1
      /\ p.stack = Consumed(r) /\ p.asked = m
      /\ p.answer = q.answer /\ p.owed = q.owed /\ p.stopped = q.stopped
  BY <1>1 DEF RequestFields
<1> HIDE DEF p
<1>4. /\ q.left \in Nat /\ q.spent \in Nat /\ q.left + q.spent = SafetyBudget
      /\ q.snap \in Configs
  BY <1>1 DEF Sound
<1>5. q.stopped \in BOOLEAN /\ ~q.stopped /\ q.answer = NoAnswer
  BY <1>1, NotStopped DEF Underway
<1>6. /\ IsSeq(p.stack) /\ Len(p.stack) = Len(q.stack) /\ DOMAIN p.stack = DOMAIN q.stack
      /\ p.stack # <<>>
      /\ \A i \in DOMAIN p.stack : /\ SoundFrame(p.snap, p.spent, p.stack[i])
                                   /\ p.stack[i].targets = q.stack[i].targets
  BY <1>1, <1>3, ConsumedFrames
<1>7. Sound(p)
  <2>1. p.left \in Nat /\ p.spent \in Nat /\ p.left + p.spent = SafetyBudget
    BY <1>1, <1>3, <1>4
  <2>2. Honest(p.snap, p.spent, p.answer)
    BY <1>3, <1>5, NoAnswerHonest
  <2>3. QED  BY <1>3, <1>4, <1>6, <2>1, <2>2 DEF Sound
<1>8. Last(p.stack).targets = Last(q.stack).targets
  <2>1. /\ Len(q.stack) \in DOMAIN p.stack
        /\ Last(q.stack) = q.stack[Len(q.stack)]
    BY <1>1, <1>6, TopSound
  <2>2. Last(p.stack) = p.stack[Len(q.stack)]
    BY <1>6 DEF Last
  <2>3. QED  BY <1>6, <2>1, <2>2
<1>9. \A i \in 1..(Len(p.stack) - 1) : p.stack[i].targets # <<>>
  <2>1. DOMAIN p.stack = 1..Len(p.stack) /\ Len(p.stack) \in Nat
    BY <1>1, <1>6, TopSound
  <2>2. QED  BY <1>1, <1>6, <2>1, SMTT(30) DEF Placed
<1>10. Hand(p) = m /\ Last(p.stack).targets # <<>>
  BY <1>1, <1>8 DEF Hand
<1>11. Placed(p)
  BY <1>1, <1>3, <1>4, <1>5, <1>6, <1>9, <1>10 DEF Placed
<1>12. Owing(p)
  BY <1>1, <1>3, <1>10 DEF Good, Owing
<1>13. Good(p)
  BY <1>3, <1>5, <1>7, <1>11, <1>12 DEF Good
<1>14. Advances(View(q), View(p))
  <2>1. View(q) = Seen("running", q.spent, q.asked, Unsettled)
    BY <1>1, <1>5, Going DEF Underway
  <2>2. View(p) = Seen("running", q.spent + 1, m, Unsettled)
    BY <1>3, <1>5, <1>13, Going DEF Underway
  <2>3. m \in Names /\ q.spent < SafetyBudget
    BY <1>1, <1>4, AtHand, NamedPlans, FrameParts
  <2>4. QED  BY <2>1, <2>2, <2>3 DEF Advances, Seen
<1>15. QED  BY <1>2, <1>13, <1>14 DEF Moves

LEMMA ExhaustMoves ==
  ASSUME IInv, NEW r \in Requests, Exhaust(r)
  PROVE  \E p : Moves(r, p)
<1> DEFINE q == req[r]
           a == Answering(q, Exhausted)
           p == [a EXCEPT !.stopped = TRUE]
<1>1. /\ Placed(q) /\ q.pc = "dispatch" /\ DOMAIN q = RequestFields /\ q.stack # <<>>
      /\ req' = [req EXCEPT ![r] = p]
  BY AtHand DEF Exhaust, Placed
<1>2. /\ DOMAIN a = RequestFields /\ a.pc = "return" /\ a.answer = Exhausted
      /\ a.snap = q.snap /\ a.left = q.left /\ a.spent = q.spent
      /\ a.stack = q.stack /\ a.asked = q.asked
  BY <1>1, AnsweringFields
<1> HIDE DEF a
<1>3. /\ DOMAIN p = RequestFields /\ p.pc = "return" /\ p.answer = Exhausted
      /\ p.snap = q.snap /\ p.left = q.left /\ p.spent = q.spent
      /\ p.stack = q.stack /\ p.asked = q.asked /\ p.stopped = TRUE
  BY <1>2 DEF RequestFields
<1> HIDE DEF p
<1>4. Honest(q.snap, q.spent, Exhausted) /\ Exhausted.type = "failed"
  BY OwnFailuresHonest DEF OwnFailures
<1>5. Terminal(p.answer) /\ \A f : ~WouldGoOn(p, f)
  BY <1>3, TerminalFailures, TerminalEnds
<1>6. q.pc \in Underway
  BY <1>1 DEF Underway
<1>7. QED  BY <1>1, <1>3, <1>4, <1>5, <1>6, EndsMoves

LEMMA GiveUpMoves ==
  ASSUME IInv, NEW r \in Requests, GiveUp(r)
  PROVE  \E p : Moves(r, p)
<1> DEFINE q == req[r]
           f == Top(r)
           spent == Cardinality(Path(r)) > 1 /\ \E i \in Budgeted(r) : q.stack[i].budget = 0
           last == IF IsGroup(r, f.model) THEN Wrapped(LastOf(f), f.model) ELSE LastOf(f)
           answer == IF spent THEN Exhausted ELSE last
           a == Answering(q, answer)
           p == [a EXCEPT !.stopped = q.stopped \/ spent]
<1>1. /\ Placed(q) /\ Good(q) /\ q.pc = "dispatch" /\ DOMAIN q = RequestFields
      /\ q.stack # <<>> /\ q.snap \in Configs
      /\ SoundFrame(q.snap, q.spent, f) /\ f = Last(q.stack) /\ ~Remaining(f)
      /\ req' = [req EXCEPT ![r] = p]
  <2>1. Placed(q) /\ q.pc = "dispatch" /\ q.stack # <<>>
    BY AtHand DEF GiveUp, Placed
  <2>2. req' = [req EXCEPT ![r] = p] /\ ~Remaining(f)
    BY DEF GiveUp
  <2>3. QED  BY <2>1, <2>2, AtHand
<1>2. q.owed = {}
  BY <1>1 DEF Good, Owing, Remaining
<1>3. q.stopped \in BOOLEAN /\ ~q.stopped
  BY <1>1, NotStopped DEF Underway
<1>4. Honest(q.snap, q.spent, LastOf(f)) /\ LastOf(f).type = "failed"
  BY <1>1, FrameParts, OwnFailuresHonest DEF LastOf, OwnFailures
<1>5. Honest(q.snap, q.spent, last) /\ last.type = "failed"
  BY <1>1, <1>4, WrappedHonest DEF IsGroup
<1>6. Honest(q.snap, q.spent, answer) /\ answer.type = "failed"
  BY <1>5, OwnFailuresHonest DEF OwnFailures
<1>7. spent => Terminal(answer)
  BY TerminalFailures
<1> HIDE DEF last, answer
<1>8. /\ DOMAIN a = RequestFields /\ a.pc = "return" /\ a.answer = answer
      /\ a.snap = q.snap /\ a.left = q.left /\ a.spent = q.spent /\ a.owed = {}
      /\ a.stack = q.stack /\ a.asked = q.asked /\ a.stopped = q.stopped
  BY <1>1, <1>2, AnsweringFields
<1> HIDE DEF a
<1>9. /\ DOMAIN p = RequestFields /\ p.pc = "return" /\ p.answer = answer
      /\ p.snap = q.snap /\ p.left = q.left /\ p.spent = q.spent /\ p.owed = {}
      /\ p.stack = q.stack /\ p.asked = q.asked
      /\ p.stopped = (q.stopped \/ spent)
  BY <1>8 DEF RequestFields
<1>10. p.stopped \in BOOLEAN /\ (p.stopped => spent)
  BY <1>3, <1>8, <1>9
<1> HIDE DEF p, spent
<1>11. p.stopped => \A g : ~WouldGoOn(p, g)
  BY <1>7, <1>9, <1>10, TerminalEnds
<1>12. q.pc \in Underway
  BY <1>1 DEF Underway
<1>13. QED  BY <1>1, <1>6, <1>9, <1>10, <1>11, <1>12, EndsMoves

-----------------------------------------------------------------------------
(* The host's replies.                                                        *)
LEMMA HostAtHand ==
  ASSUME IInv, NEW r \in Requests, req[r].pc = "host"
  PROVE  LET q == req[r]
         IN  /\ Good(q) /\ Sound(q) /\ Placed(q) /\ DOMAIN q = RequestFields
             /\ q.pc \in Underway /\ q.stack # <<>> /\ q.snap \in Configs
             /\ q.spent \in Nat \ {0} /\ q.asked = Leaf(r) /\ q.owed \subseteq {Leaf(r)}
             /\ Leaf(r) \notin DOMAIN q.snap.virtual /\ Leaf(r) = Head(Top(r).targets).model
             /\ Top(r).targets # <<>> /\ SoundFrame(q.snap, q.spent, Top(r))
             /\ q.stopped \in BOOLEAN /\ ~q.stopped /\ q.answer = NoAnswer
<1> DEFINE q == req[r]
<1>1. /\ Good(q) /\ Sound(q) /\ Placed(q) /\ DOMAIN q = RequestFields /\ q.snap \in Configs
      /\ q.pc \in Underway
  BY AtHand DEF Underway
<1>2. /\ q.stack # <<>> /\ Last(q.stack).targets # <<>>
      /\ Hand(q) \notin DOMAIN q.snap.virtual /\ q.spent > 0 /\ q.asked = Hand(q)
  BY <1>1 DEF Placed
<1>3. Top(r) = Last(q.stack) /\ SoundFrame(q.snap, q.spent, Top(r))
  BY <1>2, AtHand
<1>4. Leaf(r) = Hand(q) /\ Leaf(r) = Head(Top(r).targets).model
  BY DEF Leaf, Hand, Top
<1>5. q.owed \subseteq {Leaf(r)}
  BY <1>1, <1>4 DEF Good, Owing
<1>6. q.spent \in Nat
  BY <1>1 DEF Sound
<1>7. q.stopped \in BOOLEAN /\ ~q.stopped /\ q.answer = NoAnswer
  BY <1>1, NotStopped
<1>8. QED  BY <1>1, <1>2, <1>3, <1>4, <1>5, <1>6, <1>7

LEMMA ErrorsTyped ==
  ASSUME NEW h \in Replies
  PROVE  ErrorOf(h).status \in Nat /\ ErrorOf(h).msg.marks \subseteq Marks
<1>1. h.status \in Nat /\ h.msg \in Messages
  BY RepliesAssumption DEF HostReplies
<1>2. h.msg.marks \subseteq Marks
  BY <1>1 DEF Messages
<1>3. Plain.marks = {}
  BY DEF Plain
<1>4. QED  BY <1>1, <1>2, <1>3 DEF ErrorOf

(* The answer is what the leaf delivered, in full or in part.                 *)
LEMMA DeliveredMoves ==
  ASSUME IInv, NEW r \in Requests, req[r].pc = "host", NEW s,
         NEW type \in {"delivered", "broken"}, NEW committed,
         req' = [req EXCEPT ![r] =
                   [Settled(Answering(req[r], Delivery(type, Leaf(r), s)), Leaf(r))
                      EXCEPT !.stopped = TRUE, !.committed = committed]]
  PROVE  \E p : Moves(r, p)
<1> DEFINE q == req[r]
           d == Delivery(type, Leaf(r), s)
           a == Answering(q, d)
           b == Settled(a, Leaf(r))
           p == [b EXCEPT !.stopped = TRUE, !.committed = committed]
<1>1. DOMAIN q = RequestFields /\ q.owed \subseteq {Leaf(r)} /\ q.asked = Leaf(r)
  BY HostAtHand
<1>2. Honest(q.snap, q.spent, d) /\ d.type = type /\ d.by = Leaf(r) /\ d.code = ""
  <2>1. type # "failed"
    OBVIOUS
  <2>2. Honest(q.snap, q.spent, d)
    BY <2>1, DeliveryHonest
  <2>3. d.type = type /\ d.by = Leaf(r) /\ d.code = ""
    BY DEF Delivery, NoAnswer
  <2>4. QED  BY <2>2, <2>3
<1> HIDE DEF d
<1>3. /\ DOMAIN a = RequestFields /\ a.pc = "return" /\ a.answer = d
      /\ a.snap = q.snap /\ a.left = q.left /\ a.spent = q.spent
      /\ a.stack = q.stack /\ a.asked = q.asked /\ a.owed = q.owed
  BY <1>1, AnsweringFields
<1> HIDE DEF a
<1>4. /\ DOMAIN p = RequestFields /\ p.pc = "return" /\ p.answer = d
      /\ p.snap = q.snap /\ p.left = q.left /\ p.spent = q.spent
      /\ p.stack = q.stack /\ p.asked = q.asked /\ p.stopped = TRUE
      /\ p.owed = q.owed \ {Leaf(r)}
  BY <1>3 DEF RequestFields, Settled
<1>5. req' = [req EXCEPT ![r] = p]
  BY DEF a, d
<1> HIDE DEF p
<1>6. p.owed = {}
  BY <1>1, <1>4
<1>7. \A f : ~WouldGoOn(p, f)
  BY <1>2, <1>4, TerminalEnds
<1>8. /\ p.answer.type \in {"delivered", "broken"} /\ p.answer.code = ""
      /\ p.answer.by = p.asked /\ p.spent > 0
  <2>1. q.spent \in Nat \ {0}
    BY HostAtHand
  <2>2. p.spent > 0
    BY <1>4, <2>1
  <2>3. p.answer.type = type /\ p.answer.code = "" /\ p.answer.by = p.asked
    BY <1>1, <1>2, <1>4
  <2>4. QED  BY <2>2, <2>3
<1>9. q.pc \in Underway /\ q.stack # <<>>
  BY HostAtHand
<1>10. QED  BY <1>2, <1>4, <1>5, <1>6, <1>7, <1>8, <1>9, EndsMoves

LEMMA ServedMoves ==
  ASSUME IInv, NEW r \in Requests, NEW s, Served(r, s)
  PROVE  \E p : Moves(r, p)
<1>1. req[r].pc = "host"
  BY DEF Served
<1>2. req' = [req EXCEPT ![r] =
                [Settled(Answering(req[r], Delivery("delivered", Leaf(r), s)), Leaf(r))
                   EXCEPT !.stopped = TRUE, !.committed = req[r].stream]]
  BY DEF Served
<1>3. QED  BY <1>1, <1>2, DeliveredMoves

LEMMA BrokenMoves ==
  ASSUME IInv, NEW r \in Requests, NEW s, NEW err, NEW ov, Broken(r, s, err, ov)
  PROVE  \E p : Moves(r, p)
<1>1. req[r].pc = "host"
  BY DEF Broken
<1>2. req' = [req EXCEPT ![r] =
                [Settled(Answering(req[r], Delivery("broken", Leaf(r), s)), Leaf(r))
                   EXCEPT !.stopped = TRUE, !.committed = TRUE]]
  BY DEF Broken
<1>3. QED  BY <1>1, <1>2, DeliveredMoves

LEMMA RetryMoves ==
  ASSUME IInv, NEW r \in Requests, NEW s, Retry(r, s)
  PROVE  \E p : Moves(r, p)
<1> DEFINE q == req[r]
           f == Top(r)
           e == [f EXCEPT !.try = @ + 1]
           w == WithTop(r, e, "dispatch")
           p == [w EXCEPT !.owed = @ \cup {Leaf(r)}]
<1>1. q.pc = "host" /\ f.attempts < f.quota /\ req' = [req EXCEPT ![r] = p]
  BY DEF Retry, TriesLeft
<1>2. /\ q.pc \in Underway /\ q.stack # <<>> /\ q.owed \subseteq {Leaf(r)}
      /\ Leaf(r) \notin DOMAIN q.snap.virtual /\ Leaf(r) = Head(f.targets).model
      /\ f.targets # <<>> /\ SoundFrame(q.snap, q.spent, f) /\ q.answer = NoAnswer
  BY <1>1, HostAtHand
<1>3. /\ DOMAIN e = FrameFields /\ e.model = f.model /\ e.calls = f.calls
      /\ e.budget = f.budget /\ e.last = f.last /\ e.scan = f.scan
      /\ e.targets = f.targets /\ e.cooling = f.cooling
      /\ e.attempts = f.attempts /\ e.quota = f.quota
  BY <1>2, FrameParts DEF FrameFields
<1> HIDE DEF e, f
<1>4. SoundFrame(q.snap, q.spent, e)
  BY <1>2, <1>3, FrameKept, FrameParts
<1>5. /\ DOMAIN w = RequestFields /\ w.pc = "dispatch" /\ w.snap = q.snap
      /\ w.left = q.left /\ w.spent = q.spent /\ w.answer = NoAnswer
      /\ w.stack = Append(Front(q.stack), e) /\ w.asked = q.asked
      /\ w.owed = q.owed /\ w.stopped = q.stopped
  BY <1>2, WithTopFields
<1> HIDE DEF w
<1>6. /\ DOMAIN p = RequestFields /\ p.pc = "dispatch" /\ p.snap = q.snap
      /\ p.left = q.left /\ p.spent = q.spent /\ p.answer = NoAnswer
      /\ p.stack = Append(Front(q.stack), e) /\ p.asked = q.asked
      /\ p.owed = q.owed \cup {Leaf(r)} /\ p.stopped = q.stopped
  BY <1>5 DEF RequestFields
<1> HIDE DEF p
<1>7. /\ p.pc = "dispatch" /\ e.targets # <<>> /\ e.attempts < e.quota
      /\ Head(e.targets).model \notin DOMAIN p.snap.virtual
      /\ p.owed \subseteq {Head(e.targets).model}
  BY <1>1, <1>2, <1>3, <1>6
<1>8. QED  BY <1>1, <1>2, <1>4, <1>6, <1>7, ReplacedMoves

(* A leaf that failed is done with, and its group goes on.                    *)
LEMMA NextTargetMoves ==
  ASSUME IInv, NEW r \in Requests, req[r].pc = "host",
         NEW a, Honest(req[r].snap, req[r].spent, a), a.type = "failed",
         req' = [req EXCEPT ![r] =
           Settled(WithTop(r, [Advanced(Top(r)) EXCEPT !.last = a], "dispatch"), Leaf(r))]
  PROVE  \E p : Moves(r, p)
<1> DEFINE q == req[r]
           f == Top(r)
           e == [Advanced(f) EXCEPT !.last = a]
           w == WithTop(r, e, "dispatch")
           p == Settled(w, Leaf(r))
<1>1. /\ q.pc \in Underway /\ q.stack # <<>> /\ q.owed \subseteq {Leaf(r)}
      /\ f.targets # <<>> /\ SoundFrame(q.snap, q.spent, f) /\ q.answer = NoAnswer
  BY HostAtHand
<1>2. SoundFrame(q.snap, q.spent, e)
  BY <1>1, AdvancedFrame
<1> HIDE DEF e, f
<1>3. /\ DOMAIN w = RequestFields /\ w.pc = "dispatch" /\ w.snap = q.snap
      /\ w.left = q.left /\ w.spent = q.spent /\ w.answer = NoAnswer
      /\ w.stack = Append(Front(q.stack), e) /\ w.asked = q.asked
      /\ w.owed = q.owed /\ w.stopped = q.stopped
  BY <1>1, WithTopFields
<1>4. req' = [req EXCEPT ![r] = p]
  BY DEF e, f
<1> HIDE DEF w
<1>5. /\ DOMAIN p = RequestFields /\ p.pc = "dispatch" /\ p.snap = q.snap
      /\ p.left = q.left /\ p.spent = q.spent /\ p.answer = NoAnswer
      /\ p.stack = Append(Front(q.stack), e) /\ p.asked = q.asked
      /\ p.owed = q.owed \ {Leaf(r)} /\ p.stopped = q.stopped
  BY <1>3 DEF RequestFields, Settled
<1> HIDE DEF p
<1>6. p.owed = {}
  BY <1>1, <1>5
<1>7. QED  BY <1>1, <1>2, <1>4, <1>5, <1>6, ReplacedMoves

LEMMA SubstitutedMoves ==
  ASSUME IInv, NEW r \in Requests, NEW s, NEW ov, Substituted(r, s, ov)
  PROVE  \E p : Moves(r, p)
<1>1. /\ req[r].pc = "host"
      /\ req' = [req EXCEPT ![r] =
           Settled(WithTop(r, [Advanced(Top(r)) EXCEPT !.last = MismatchBlocked],
                           "dispatch"), Leaf(r))]
  BY DEF Substituted
<1>2. Honest(req[r].snap, req[r].spent, MismatchBlocked) /\ MismatchBlocked.type = "failed"
  BY OwnFailuresHonest DEF OwnFailures
<1>3. QED  BY <1>1, <1>2, NextTargetMoves

LEMMA FailMoves ==
  ASSUME IInv, NEW r \in Requests, NEW h \in Replies, NEW ov, Fail(r, ErrorOf(h), ov)
  PROVE  \E p : Moves(r, p)
<1> DEFINE q == req[r]
           err == ErrorOf(h)
           u == Upstream(err)
           k == KindOf(err)
           halt == \A i \in DOMAIN q.stack : ~GoesOn(r, q.stack[i], k)
<1>1. /\ q.pc = "host" /\ DOMAIN q = RequestFields /\ q.spent \in Nat \ {0}
      /\ q.owed \subseteq {Leaf(r)} /\ q.pc \in Underway /\ q.stack # <<>> /\ Sound(q)
  <2>1. q.pc = "host"
    BY DEF Fail
  <2>2. QED  BY <2>1, HostAtHand
<1>2. /\ Honest(q.snap, q.spent, u) /\ u.type = "failed"
      /\ Classify(u.status, u.marks) = "client_error" <=> k = "client_error"
  <2>1. err.status \in Nat /\ err.msg.marks \subseteq Marks
    BY ErrorsTyped
  <2> HIDE DEF err
  <2>2. Honest(q.snap, q.spent, u) /\ u.type = "failed"
    BY <1>1, <2>1, UpstreamHonest
  <2>3. Classify(u.status, u.marks) = "client_error" <=> k = "client_error"
    BY <1>1, <2>1, UpstreamHonest
  <2>4. QED  BY <2>2, <2>3
<1>3. CASE GoesOn(r, Top(r), k)
  <2>1. req' = [req EXCEPT ![r] =
           Settled(WithTop(r, [Advanced(Top(r)) EXCEPT !.last = u], "dispatch"), Leaf(r))]
    BY <1>3 DEF Fail
  <2> HIDE DEF u
  <2>2. QED  BY <1>1, <1>2, <2>1, NextTargetMoves
<1>4. CASE ~GoesOn(r, Top(r), k)
  <2> DEFINE a == Answering(q, u)
             b == [a EXCEPT !.stopped = halt]
             p == Settled(b, Leaf(r))
  <2>1. req' = [req EXCEPT ![r] = p]
    BY <1>4 DEF Fail
  <2> HIDE DEF u, k
  <2>2. /\ DOMAIN a = RequestFields /\ a.pc = "return" /\ a.answer = u
        /\ a.snap = q.snap /\ a.left = q.left /\ a.spent = q.spent
        /\ a.stack = q.stack /\ a.asked = q.asked /\ a.owed = q.owed
    BY <1>1, AnsweringFields
  <2> HIDE DEF a
  <2> DEFINE stop == halt
  <2>3. stop \in BOOLEAN /\ (stop => halt)
    OBVIOUS
  <2>4. b = [a EXCEPT !.stopped = stop]
    OBVIOUS
  <2> HIDE DEF stop, b
  <2>5. /\ DOMAIN b = RequestFields /\ b.pc = "return" /\ b.answer = u
        /\ b.snap = q.snap /\ b.left = q.left /\ b.spent = q.spent
        /\ b.stack = q.stack /\ b.asked = q.asked /\ b.owed = q.owed
        /\ b.stopped = stop
    BY <2>2, <2>4 DEF RequestFields
  <2>6. /\ DOMAIN p = RequestFields /\ p.pc = "return" /\ p.answer = u
        /\ p.snap = q.snap /\ p.left = q.left /\ p.spent = q.spent
        /\ p.stack = q.stack /\ p.asked = q.asked /\ p.owed = q.owed \ {Leaf(r)}
        /\ p.stopped = stop
    BY <2>5 DEF RequestFields, Settled
  <2> HIDE DEF p
  <2>7. p.owed = {} /\ p.stopped \in BOOLEAN
    BY <1>1, <2>3, <2>6
  <2>8. ASSUME p.stopped, NEW i \in 1..(Len(p.stack) - 1)
        PROVE  ~WouldGoOn(p, p.stack[i])
    <3>1. ~GoesOn(r, q.stack[i], k)
      <4>1. DOMAIN q.stack = 1..Len(q.stack) /\ Len(q.stack) \in Nat
        BY <1>1, TopSound
      <4>2. i \in DOMAIN q.stack
        BY <2>6, <4>1
      <4>3. halt
        BY <2>3, <2>6, <2>8
      <4>4. QED  BY <4>2, <4>3
    <3>2. QED  BY <1>2, <2>6, <3>1 DEF GoesOn, IsGroup, WouldGoOn, FailsOver
  <2>9. QED  BY <1>1, <1>2, <2>1, <2>6, <2>7, <2>8, EndsMoves
<1>5. QED  BY <1>3, <1>4

LEMMA CancelMoves ==
  ASSUME IInv, NEW r \in Requests, Cancel(r)
  PROVE  \E p : Moves(r, p)
<1> DEFINE q == req[r]
           a == Answering(q, CancelledFailure)
           p == [a EXCEPT !.stopped = TRUE]
<1>1. q.pc = "host" /\ req' = [req EXCEPT ![r] = p]
  BY DEF Cancel
<1>2. DOMAIN q = RequestFields /\ q.pc \in Underway /\ q.stack # <<>>
  BY <1>1, HostAtHand
<1>3. /\ DOMAIN a = RequestFields /\ a.pc = "return" /\ a.answer = CancelledFailure
      /\ a.snap = q.snap /\ a.left = q.left /\ a.spent = q.spent
      /\ a.stack = q.stack /\ a.asked = q.asked
  BY <1>2, AnsweringFields
<1> HIDE DEF a
<1>4. /\ DOMAIN p = RequestFields /\ p.pc = "return" /\ p.answer = CancelledFailure
      /\ p.snap = q.snap /\ p.left = q.left /\ p.spent = q.spent
      /\ p.stack = q.stack /\ p.asked = q.asked /\ p.stopped = TRUE
  BY <1>3 DEF RequestFields
<1> HIDE DEF p
<1>5. Honest(q.snap, q.spent, CancelledFailure) /\ CancelledFailure.type = "failed"
  BY OwnFailuresHonest DEF OwnFailures
<1>6. Terminal(p.answer) /\ \A f : ~WouldGoOn(p, f)
  BY <1>4, TerminalFailures, TerminalEnds
<1>7. QED  BY <1>1, <1>2, <1>4, <1>5, <1>6, EndsMoves

-----------------------------------------------------------------------------
(* A call of Execute returns.                                                 *)
LEMMA ReturningAtHand ==
  ASSUME IInv, NEW r \in Requests, req[r].pc = "return"
  PROVE  LET q == req[r]
         IN  /\ Good(q) /\ Sound(q) /\ Placed(q) /\ DOMAIN q = RequestFields
             /\ q.stack # <<>> /\ Len(q.stack) \in Nat \ {0} /\ IsSeq(q.stack)
             /\ \A i \in 1..(Len(q.stack) - 1) : q.stack[i].targets # <<>>
             /\ Len(q.stack) > 1 => Len(q.stack) # 1
             /\ Honest(q.snap, q.spent, q.answer) /\ q.stopped \in BOOLEAN
<1>1. /\ req[r].stack # <<>> /\ req[r].stopped \in BOOLEAN
      /\ \A i \in 1..(Len(req[r].stack) - 1) : req[r].stack[i].targets # <<>>
  BY AtHand DEF Placed
<1>2. IsSeq(req[r].stack)
  BY AtHand DEF Sound
<1>3. Len(req[r].stack) \in Nat \ {0}
  BY <1>1, AtHand, TopSound
<1>4. Len(req[r].stack) > 1 => Len(req[r].stack) # 1
  <2>1. \A n \in Nat : n > 1 => n # 1
    OBVIOUS
  <2> DEFINE n == Len(req[r].stack)
  <2>2. n \in Nat
    BY <1>3
  <2> HIDE DEF n
  <2>3. n > 1 => n # 1
    BY <2>1, <2>2
  <2>4. QED  BY <2>3 DEF n
<1>5. /\ Good(req[r]) /\ Sound(req[r]) /\ Placed(req[r]) /\ DOMAIN req[r] = RequestFields
      /\ Honest(req[r].snap, req[r].spent, req[r].answer)
  BY AtHand
<1>6. QED  BY <1>1, <1>2, <1>3, <1>4, <1>5

LEMMA FinishMoves ==
  ASSUME IInv, NEW r \in Requests, Finish(r)
  PROVE  \E p : Moves(r, p)
<1> DEFINE q == req[r]
           p == [Popped(r) EXCEPT !.pc = "done"]
<1>1. q.pc = "return" /\ Len(q.stack) = 1 /\ req' = [req EXCEPT ![r] = p]
  BY DEF Finish
<1>2. /\ Good(q) /\ Sound(q) /\ DOMAIN q = RequestFields
      /\ q.stack # <<>> /\ Honest(q.snap, q.spent, q.answer) /\ q.stopped \in BOOLEAN
      /\ IsSeq(q.stack)
  BY <1>1, ReturningAtHand
<1>3. /\ DOMAIN p = RequestFields /\ p.pc = "done" /\ p.answer = q.answer
      /\ p.snap = q.snap /\ p.left = q.left /\ p.spent = q.spent
      /\ p.stack = Front(q.stack) /\ p.asked = q.asked /\ p.stopped = q.stopped
  BY <1>2 DEF Popped, RequestFields
<1> HIDE DEF p
<1>4. Sound(p)
  BY <1>2, <1>3, Returned
<1>5. Len(p.stack) = 0
  BY <1>1, <1>2, <1>3, Fronted
<1>6. \A i \in 1..(Len(p.stack) - 1) : p.stack[i].targets # <<>>
  BY <1>5
<1>7. Placed(p)
  BY <1>2, <1>3, <1>6 DEF Placed
<1>8. Good(p)
  BY <1>3, <1>4, <1>7 DEF Good, Owing, Stopping
<1>9. View(q) = Seen("final", q.spent, q.asked, Outcome(q.answer))
  BY <1>1, Ended
<1>10. View(p) = Seen("done", q.spent, q.asked, Outcome(q.answer))
  BY <1>3 DEF View, Phase, Seen
<1>11. Advances(View(q), View(p))
  BY <1>9, <1>10 DEF Advances, Seen
<1>12. QED  BY <1>1, <1>8, <1>11 DEF Moves

LEMMA FailOverMoves ==
  ASSUME IInv, NEW r \in Requests, FailOver(r)
  PROVE  \E p : Moves(r, p)
<1> DEFINE q == req[r]
           n == Len(q.stack)
           f == Parent(r)
           e == [Advanced(f) EXCEPT !.last = q.answer]
           o == Popped(r)
           p == [o EXCEPT !.pc = "dispatch", !.answer = NoAnswer,
                          !.stack = Append(Front(o.stack), e)]
<1>1. /\ q.pc = "return" /\ n > 1 /\ ParentGoesOn(r)
      /\ req' = [req EXCEPT ![r] =
                   [o EXCEPT !.pc = "dispatch", !.answer = NoAnswer,
                             !.stack = Append(Front(@), e)]]
  BY DEF FailOver
<1>2. /\ Good(q) /\ Sound(q) /\ Placed(q) /\ DOMAIN q = RequestFields
      /\ q.stack # <<>> /\ n \in Nat \ {0} /\ n # 1 /\ IsSeq(q.stack)
      /\ \A i \in 1..(n - 1) : q.stack[i].targets # <<>>
      /\ Honest(q.snap, q.spent, q.answer) /\ q.stopped \in BOOLEAN
  BY <1>1, ReturningAtHand
<1>3. req' = [req EXCEPT ![r] = p]
  <2>1. DOMAIN o = RequestFields
    BY <1>2 DEF Popped
  <2> HIDE DEF o
  <2>2. [o EXCEPT !.pc = "dispatch", !.answer = NoAnswer, !.stack = Append(Front(@), e)] = p
    BY <2>1 DEF RequestFields
  <2>3. QED  BY <1>1, <2>2
<1>4. /\ DOMAIN o = RequestFields /\ o.answer = q.answer
      /\ o.snap = q.snap /\ o.left = q.left /\ o.spent = q.spent /\ o.owed = q.owed
      /\ o.stack = Front(q.stack) /\ o.asked = q.asked /\ o.stopped = q.stopped
  BY <1>2 DEF Popped, RequestFields
<1> HIDE DEF o
<1>5. Sound(o)
  BY <1>2, <1>4, Returned
<1>6. Len(o.stack) = n - 1 /\ o.stack # <<>>
  BY <1>1, <1>2, <1>4, Fronted
<1>7. \A i \in 1..(n - 1) : o.stack[i] = q.stack[i]
  BY <1>2, <1>4, Fronted
<1>8. f = q.stack[n - 1] /\ f.targets # <<>> /\ SoundFrame(q.snap, q.spent, f)
  <2>1. n - 1 \in 1..(n - 1) /\ n - 1 \in DOMAIN q.stack
    BY <1>1, <1>2, TopSound
  <2>2. QED  BY <1>2, <2>1 DEF Parent, Placed, Sound
<1>9. /\ q.answer.type = "failed" /\ ~Terminal(q.answer)
      /\ WouldGoOn(q, f)
  BY <1>1 DEF ParentGoesOn, GoesOn, IsGroup, WouldGoOn
<1> HIDE DEF f
<1>10. SoundFrame(q.snap, q.spent, e)
  BY <1>2, <1>8, <1>9, AdvancedFrame
<1> HIDE DEF e
<1>11. /\ DOMAIN p = RequestFields /\ p.pc = "dispatch" /\ p.answer = NoAnswer
       /\ p.snap = q.snap /\ p.left = q.left /\ p.spent = q.spent /\ p.owed = q.owed
       /\ p.stack = Append(Front(o.stack), e) /\ p.asked = q.asked
       /\ p.stopped = q.stopped
  BY <1>4 DEF RequestFields
<1> HIDE DEF p
<1>12. Sound(p) /\ p.stack # <<>>
  <2>1. /\ p.snap = o.snap /\ p.left = o.left /\ p.spent = o.spent
        /\ SoundFrame(o.snap, o.spent, e) /\ Honest(o.snap, o.spent, p.answer)
    BY <1>4, <1>10, <1>11, NoAnswerHonest
  <2>2. /\ DOMAIN p = RequestFields /\ p.stack = Append(Front(o.stack), e)
        /\ Sound(o) /\ o.stack # <<>>
    BY <1>5, <1>6, <1>11
  <2>3. Sound(p)
    BY <2>1, <2>2, Replaced
  <2>4. p.stack # <<>>
    <3>1. IsSeq(Front(o.stack))
      BY <2>2, Fronted DEF Sound
    <3>2. QED  BY <2>2, <3>1, Pushed
  <2>5. QED  BY <2>3, <2>4
<1>13. Len(p.stack) = n - 1 /\ \A i \in 1..(n - 2) : p.stack[i] = q.stack[i]
  <2>1. /\ IsSeq(Front(o.stack)) /\ Len(Front(o.stack)) = n - 2
        /\ \A i \in 1..(n - 2) : Front(o.stack)[i] = o.stack[i]
    <3>1. IsSeq(o.stack)
      BY <1>5 DEF Sound
    <3>2. /\ IsSeq(Front(o.stack)) /\ Len(Front(o.stack)) = Len(o.stack) - 1
          /\ \A i \in 1..(Len(o.stack) - 1) : Front(o.stack)[i] = o.stack[i]
      BY <1>6, <3>1, Fronted, ZenonT(40)
    <3>3. Len(o.stack) - 1 = n - 2
      BY <1>2, <1>6, SMTT(30)
    <3>4. QED  BY <3>2, <3>3
  <2>2. /\ Len(p.stack) = n - 1
        /\ \A i \in 1..(n - 2) : p.stack[i] = Front(o.stack)[i]
    BY <1>2, <1>11, <2>1, Pushed
  <2>3. QED  BY <1>1, <1>2, <1>7, <2>1, <2>2
<1>14. ~q.stopped
  <2>1. n - 1 \in 1..(n - 1)
    BY <1>1, <1>2
  <2>2. QED  BY <1>1, <1>2, <1>8, <1>9, <2>1 DEF Good, Stopping
<1>15. q.owed = {}
  BY <1>1, <1>2, <1>9 DEF Good, Owing
<1>16. \A i \in 1..(Len(p.stack) - 1) : p.stack[i].targets # <<>>
  <2>1. \A i \in 1..(n - 2) : i \in 1..(n - 1)
    BY <1>2
  <2>2. QED  BY <1>2, <1>13, <2>1, SMTT(30)
<1>17. Placed(p)
  BY <1>2, <1>11, <1>12, <1>16 DEF Placed
<1>18. Good(p)
  BY <1>11, <1>12, <1>14, <1>15, <1>17 DEF Good, Owing
<1>19. View(q) = Seen("running", q.spent, q.asked, Unsettled)
  BY <1>1, <1>2, <1>14, Going
<1>20. View(p) = Seen("running", q.spent, q.asked, Unsettled)
  BY <1>11, <1>14, <1>18, Going DEF Underway
<1>21. QED  BY <1>3, <1>18, <1>19, <1>20 DEF Moves, Advances

LEMMA PassUpMoves ==
  ASSUME IInv, NEW r \in Requests, PassUp(r)
  PROVE  \E p : Moves(r, p)
<1> DEFINE q == req[r]
           n == Len(q.stack)
           p == Popped(r)
<1>1. q.pc = "return" /\ n > 1 /\ req' = [req EXCEPT ![r] = p]
  BY DEF PassUp
<1>2. /\ Good(q) /\ Sound(q) /\ Placed(q) /\ DOMAIN q = RequestFields
      /\ q.stack # <<>> /\ n \in Nat \ {0} /\ n # 1 /\ IsSeq(q.stack)
      /\ \A i \in 1..(n - 1) : q.stack[i].targets # <<>>
      /\ Honest(q.snap, q.spent, q.answer) /\ q.stopped \in BOOLEAN
  BY <1>1, ReturningAtHand
<1>3. /\ DOMAIN p = RequestFields /\ p.pc = "return" /\ p.answer = q.answer
      /\ p.snap = q.snap /\ p.left = q.left /\ p.spent = q.spent /\ p.owed = q.owed
      /\ p.stack = Front(q.stack) /\ p.asked = q.asked /\ p.stopped = q.stopped
      /\ p.committed = q.committed
  BY <1>1, <1>2 DEF Popped, RequestFields
<1> HIDE DEF p
<1>4. Sound(p)
  BY <1>2, <1>3, Returned
<1>5. Len(p.stack) = n - 1 /\ p.stack # <<>>
  BY <1>1, <1>2, <1>3, Fronted
<1>6. \A i \in 1..(n - 1) : p.stack[i] = q.stack[i]
  BY <1>2, <1>3, Fronted
<1>7. \A i \in 1..(Len(p.stack) - 1) : p.stack[i].targets # <<>>
  <2>1. \A i \in 1..(n - 2) : i \in 1..(n - 1)
    BY <1>2
  <2>2. QED  BY <1>2, <1>5, <1>6, <2>1
<1>8. Placed(p)
  BY <1>1, <1>2, <1>3, <1>5, <1>7 DEF Placed
<1>9. Owing(p)
  BY <1>1, <1>2, <1>3 DEF Good, Owing
<1>10. p.stopped => Stopping(p)
  <2> SUFFICES ASSUME p.stopped, NEW i \in 1..(Len(p.stack) - 1)
               PROVE  ~WouldGoOn(p, p.stack[i])
    BY <1>3 DEF Stopping
  <2>1. i \in 1..(n - 1) /\ p.stack[i] = q.stack[i]
    BY <1>2, <1>5, <1>6
  <2>2. ~WouldGoOn(q, q.stack[i])
    BY <1>1, <1>2, <1>3, <2>1 DEF Good, Stopping
  <2>3. QED  BY <1>3, <2>1, <2>2 DEF WouldGoOn
<1>11. Good(p)
  BY <1>4, <1>8, <1>9, <1>10 DEF Good
<1>12. CASE q.stopped
  <2>1. View(q) = View(p)
    BY <1>1, <1>3, <1>12, Ended
  <2>2. QED  BY <1>1, <1>11, <2>1 DEF Moves, Advances
<1>13. CASE ~q.stopped
  <2>1. Advances(View(q), View(p))
    BY <1>1, <1>2, <1>3, <1>11, <1>13, MayEnd
  <2>2. QED  BY <1>1, <1>11, <2>1 DEF Moves
<1>14. QED  BY <1>12, <1>13

-----------------------------------------------------------------------------
LEMMA InitGood ==
  ASSUME Init
  PROVE  IInv
<1>1. /\ cfg \in Configs /\ turn \in [Groups -> Nat]
      /\ req = [r \in Requests |-> Request]
  BY DEF Init
<1>2. /\ DOMAIN Request = RequestFields /\ Request.pc = "idle" /\ Request.snap = cfg
      /\ Request.left = SafetyBudget /\ Request.spent = 0 /\ Request.stack = <<>>
      /\ Request.answer = NoAnswer /\ Request.owed = {} /\ Request.asked = Nothing
      /\ Request.stopped = FALSE
  BY DEF Request, RequestFields
<1>3. Sound(Request)
  <2>1. IsSeq(<<>>) /\ DOMAIN <<>> = {}
    BY NoPlans DEF Named
  <2>2. SafetyBudget \in Nat
    BY BoundsAssumption
  <2>3. Honest(cfg, 0, NoAnswer)
    BY NoAnswerHonest
  <2>4. QED  BY <1>1, <1>2, <2>1, <2>2, <2>3 DEF Sound
<1>4. Good(Request)
  <2>1. \A i \in 1..(Len(<<>>) - 1) : <<>>[i].targets # <<>>
    OBVIOUS
  <2>2. Placed(Request)
    BY <1>2, <2>1 DEF Placed
  <2>3. QED  BY <1>2, <1>3, <2>2 DEF Good, Owing
<1>5. QED  BY <1>1, <1>4 DEF IInv

(* Every step of the engine is a step of one request that the client may see, *)
(* or leaves all requests as they are.                                        *)
LEMMA NextMoves ==
  ASSUME IInv, [Next]_vars
  PROVE  /\ req' = req \/ \E r \in Requests : \E p : Moves(r, p)
         /\ cfg' \in Configs /\ turn' \in [Groups -> Nat]
<1>0. cfg \in Configs /\ turn \in [Groups -> Nat]
  BY DEF IInv
<1>1. ASSUME NEW r \in Requests, Work(r)
      PROVE  /\ \E p : Moves(r, p)
             /\ cfg' \in Configs /\ turn' \in [Groups -> Nat]
  <2>1. CASE EnterRefused(r)
    BY <1>0, <2>1, EnterRefusedMoves DEF EnterRefused, counters
  <2>2. CASE EnterGroup(r)
    BY <1>0, <2>2, EnterGroupMoves DEF EnterGroup
  <2>3. CASE EnterDirect(r)
    BY <1>0, <2>3, EnterDirectMoves DEF EnterDirect, counters
  <2>4. CASE FindReady(r)
    BY <1>0, <2>4, FindReadyMoves DEF FindReady, counters
  <2>5. CASE LookFurther(r)
    BY <1>0, <2>5, LookFurtherMoves DEF LookFurther, counters
  <2>6. CASE FindCooling(r)
    BY <1>0, <2>6, FindCoolingMoves DEF FindCooling, counters
  <2>7. CASE Descend(r)
    BY <1>0, <2>7, DescendMoves DEF Descend, counters
  <2>8. CASE Call(r)
    BY <1>0, <2>8, CallMoves DEF Call, counters
  <2>9. CASE Exhaust(r)
    BY <1>0, <2>9, ExhaustMoves DEF Exhaust, counters
  <2>10. CASE GiveUp(r)
    BY <1>0, <2>10, GiveUpMoves DEF GiveUp, counters
  <2>11. CASE Finish(r)
    BY <1>0, <2>11, FinishMoves DEF Finish, counters
  <2>12. CASE FailOver(r)
    BY <1>0, <2>12, FailOverMoves DEF FailOver, counters
  <2>13. CASE PassUp(r)
    BY <1>0, <2>13, PassUpMoves DEF PassUp, counters
  <2>14. QED
    BY <1>1, <2>1, <2>2, <2>3, <2>4, <2>5, <2>6, <2>7, <2>8, <2>9, <2>10, <2>11,
       <2>12, <2>13 DEF Work, Scan
<1>2. ASSUME NEW r \in Requests, Reply(r)
      PROVE  /\ \E p : Moves(r, p)
             /\ cfg' \in Configs /\ turn' \in [Groups -> Nat]
  <2>1. PICK h \in Replies :
          \/ Cancel(r)
          \/ \E s \in Serves : \/ Served(r, s) \/ Retry(r, s)
                               \/ \E ov \in Unrepresentable : Substituted(r, s, ov)
          \/ \E ov \in Unrepresentable : Fail(r, ErrorOf(h), ov)
          \/ \E s \in Serves, ov \in Unrepresentable : Broken(r, s, ErrorOf(h), ov)
    BY <1>2 DEF Reply
  <2>2. CASE Cancel(r)
    BY <1>0, <2>2, CancelMoves DEF Cancel, counters
  <2>3. ASSUME NEW s, Served(r, s)
        PROVE  (\E p : Moves(r, p)) /\ cfg' \in Configs /\ turn' \in [Groups -> Nat]
    BY <1>0, <2>3, ServedMoves DEF Served, counters
  <2>4. ASSUME NEW s, Retry(r, s)
        PROVE  (\E p : Moves(r, p)) /\ cfg' \in Configs /\ turn' \in [Groups -> Nat]
    BY <1>0, <2>4, RetryMoves DEF Retry, counters
  <2>5. ASSUME NEW s, NEW ov, Substituted(r, s, ov)
        PROVE  (\E p : Moves(r, p)) /\ cfg' \in Configs /\ turn' \in [Groups -> Nat]
    BY <1>0, <2>5, SubstitutedMoves DEF Substituted, counters
  <2>6. ASSUME NEW ov, Fail(r, ErrorOf(h), ov)
        PROVE  (\E p : Moves(r, p)) /\ cfg' \in Configs /\ turn' \in [Groups -> Nat]
    BY <1>0, <2>6, FailMoves DEF Fail, counters
  <2>7. ASSUME NEW s, NEW ov, Broken(r, s, ErrorOf(h), ov)
        PROVE  (\E p : Moves(r, p)) /\ cfg' \in Configs /\ turn' \in [Groups -> Nat]
    BY <1>0, <2>7, BrokenMoves DEF Broken, counters
  <2>8. QED  BY <2>1, <2>2, <2>3, <2>4, <2>5, <2>6, <2>7
<1>3. ASSUME NEW r \in Requests, NEW m \in Names, NEW stream, Claim(r, m, stream)
      PROVE  /\ \E p : Moves(r, p)
             /\ cfg' \in Configs /\ turn' \in [Groups -> Nat]
  BY <1>0, <1>3, ClaimMoves DEF Claim, counters
<1>4. CASE \E c \in Configs : Reconfigure(c)
  BY <1>0, <1>4 DEF Reconfigure, counters
<1>5. CASE \E m \in Resettable : ResetCooldown(m)
  BY <1>0, <1>5 DEF ResetCooldown, counters
<1>6. CASE Tick
  BY <1>0, <1>6 DEF Tick, counters
<1>7. CASE Rest \/ UNCHANGED vars
  BY <1>0, <1>7 DEF Rest, vars, counters
<1>8. QED  BY <1>1, <1>2, <1>3, <1>4, <1>5, <1>6, <1>7 DEF Next

LEMMA NextGood ==
  ASSUME IInv, [Next]_vars
  PROVE  IInv'
<1>1. CASE req' = req
  BY <1>1, NextMoves DEF IInv
<1>2. ASSUME NEW r \in Requests, NEW p, Moves(r, p)
      PROVE  IInv'
  BY <1>2, NextMoves, Stepped DEF Moves
<1>3. QED  BY <1>1, <1>2, NextMoves

(* What is spent and what is left of every budget, the answers held at every  *)
(* level, the debts and the place of every request are in order, always.      *)
THEOREM InOrder == Spec => []IInv
<1>1. Init => IInv
  BY InitGood
<1>2. IInv /\ [Next]_vars => IInv'
  BY NextGood
<1>3. QED  BY <1>1, <1>2, PTL DEF Spec

(* However many groups nest, whatever fails and in whatever order requests    *)
(* interleave, a request makes at most SafetyBudget leaf calls, and at most   *)
(* max_attempts below each group that has one (consumeAttempt).               *)
THEOREM BudgetsRespected == Spec => []WithinBudgets
<1>1. IInv => WithinBudgets
  <2> SUFFICES ASSUME IInv, NEW r \in Requests
               PROVE  /\ req[r].spent <= SafetyBudget
                      /\ \A i \in Budgeted(r) : req[r].stack[i].calls <=
                           req[r].snap.virtual[req[r].stack[i].model].max
    BY DEF WithinBudgets
  <2>1. Sound(req[r])
    BY AtHand
  <2>2. req[r].spent <= SafetyBudget
    BY <2>1, BoundsAssumption DEF Sound
  <2>3. ASSUME NEW i \in Budgeted(r)
        PROVE  req[r].stack[i].calls <= req[r].snap.virtual[req[r].stack[i].model].max
    <3> DEFINE f == req[r].stack[i]
               c == req[r].snap
    <3>1. /\ i \in DOMAIN req[r].stack /\ f.model \in DOMAIN c.virtual
          /\ c.virtual[f.model].max > 0
      BY <2>3 DEF Budgeted, Path, IsGroup
    <3>2. c.virtual[f.model].max \in Nat
      BY <3>1, AtHand, EngineConfigsAssumption DEF IsConfig, VirtualModels
    <3>3. Accounted(c, f)
      BY <2>1, <3>1 DEF Sound, SoundFrame
    <3> HIDE DEF f, c
    <3>4. f.calls <= c.virtual[f.model].max
      BY <3>1, <3>2, <3>3 DEF Accounted
    <3>5. QED  BY <3>4 DEF f, c
  <2>4. QED  BY <2>2, <2>3
<1>2. QED  BY <1>1, InOrder, PTL

(* A leaf that answered with another model is charged, or the request ends,   *)
(* before any other leaf is called (Execute's retries, recordMismatch).       *)
THEOREM ChargedInTime == Spec => []ChargedBeforeMovingOn
<1>1. IInv => ChargedBeforeMovingOn
  BY HostAtHand DEF ChargedBeforeMovingOn
<1>2. QED  BY <1>1, InOrder, PTL

(* At every level a failure is judged as it was where it arose, as long as no *)
(* group's name contains a marker (Execute, finalFailure).                    *)
THEOREM VerdictsKept == Spec => []JudgedAlike
<1>1. IInv => JudgedAlike
  <2> SUFFICES ASSUME IInv, NEW r \in Requests,
                      \A g \in DOMAIN req[r].snap.virtual : NameMarks[g] = {}
               PROVE  Classify(req[r].answer.status, req[r].answer.marks) = "client_error"
                        <=> req[r].answer.kind = "client_error"
    BY DEF JudgedAlike
  <2>1. QED  BY AtHand DEF Honest, PlainNames
<1>2. QED  BY <1>1, InOrder, PTL

-----------------------------------------------------------------------------
(* Looks is defined by recursion; here is what it finds.                      *)

(* How FlattenSeq joins the sequences of s, one after the other.              *)
Joins(s, h) ==
  h = [i \in 1..Len(s) |-> IF i = 1 THEN s[i] ELSE h[i - 1] \o s[i]]

LEMMA FlattenIs ==
  ASSUME NEW s
  PROVE  FlattenSeq(s) = IF Len(s) = 0 THEN s ELSE (CHOOSE h : Joins(s, h))[Len(s)]
BY DEF FlattenSeq, Joins

LEMMA JoinsExist ==
  ASSUME NEW s, Len(s) \in Nat
  PROVE  \E h : Joins(s, h)
<1> DEFINE body(h, i) == IF i = 1 THEN s[i] ELSE h[i - 1] \o s[i]
           upTo(h, n) == h = [i \in 1..n |-> body(h, i)]
           P == {n \in Nat : \E h : upTo(h, n)}
<1>1. 0 \in P
  <2>1. 1..0 = {}
    OBVIOUS
  <2>2. upTo([i \in {} |-> s], 0)
    BY <2>1
  <2> QED
    BY <2>2
<1>2. ASSUME NEW n \in Nat, n \in P  PROVE n + 1 \in P
  <2>1. PICK g : upTo(g, n)
    BY <1>2
  <2> DEFINE h == [i \in 1..(n + 1) |-> body(g, i)]
  <2>2. \A i \in 1..n : g[i] = body(g, i) /\ h[i] = body(g, i)
    <3> HIDE DEF body
    <3>1. \A i \in 1..n : g[i] = body(g, i)
      BY <2>1
    <3>2. \A i \in 1..n : i \in 1..(n + 1)
      OBVIOUS
    <3> QED
      BY <3>1, <3>2
  <2>3. ASSUME NEW i \in 1..(n + 1)  PROVE body(g, i) = body(h, i)
    <3>1. CASE i = 1
      BY <3>1
    <3>2. CASE i # 1
      <4>1. i - 1 \in 1..n
        BY <3>2
      <4>2. g[i - 1] = h[i - 1]
        BY <2>2, <4>1
      <4> QED
        BY <3>2, <4>2
    <3> QED
      BY <3>1, <3>2
  <2>4. upTo(h, n + 1)
    <3>1. [i \in 1..(n + 1) |-> body(g, i)] = [i \in 1..(n + 1) |-> body(h, i)]
      BY <2>3
    <3> QED
      BY <3>1
  <2> QED
    <3> HIDE DEF upTo, h
    <3> QED
      BY <2>4
<1> HIDE DEF P
<1>3. Len(s) \in P
  BY <1>1, <1>2, InductionOnNat
<1> QED
  BY <1>3 DEF P, Joins

(* The concatenation of sequences over S is one.                              *)
LEMMA FlattenTyped ==
  ASSUME NEW S, NEW s \in Seq(Seq(S))
  PROVE  FlattenSeq(s) \in Seq(S)
<1>1. Len(s) \in Nat /\ DOMAIN s = 1..Len(s) /\ \A i \in 1..Len(s) : s[i] \in Seq(S)
  BY LenProperties, ElementOfSeq
<1>2. CASE Len(s) = 0
  <2>1. s = <<>>
    BY <1>2, EmptySeq
  <2>2. FlattenSeq(s) = s
    BY <1>2, FlattenIs
  <2>3. <<>> \in Seq(S)
    BY EmptySeq
  <2> QED
    BY <2>1, <2>2, <2>3
<1>3. CASE Len(s) # 0
  <2>1. PICK h : h = CHOOSE j : Joins(s, j)
    OBVIOUS
  <2>2. Joins(s, h)
    BY <1>1, <2>1, JoinsExist
  <2>3. \A i \in 1..Len(s) : h[i] = IF i = 1 THEN s[i] ELSE h[i - 1] \o s[i]
    BY <2>2 DEF Joins
  <2> DEFINE P == {n \in Nat : n + 1 \in 1..Len(s) => h[n + 1] \in Seq(S)}
  <2>4. 0 \in P
    BY <1>1, <2>3
  <2>5. ASSUME NEW n \in Nat, n \in P  PROVE n + 1 \in P
    <3>1. CASE (n + 1) + 1 \in 1..Len(s)
      <4>1. n + 1 \in 1..Len(s) /\ (n + 1) + 1 # 1 /\ ((n + 1) + 1) - 1 = n + 1
        BY <1>1, <3>1
      <4>2. h[(n + 1) + 1] = h[n + 1] \o s[(n + 1) + 1]
        BY <2>3, <3>1, <4>1
      <4>3. h[n + 1] \in Seq(S) /\ s[(n + 1) + 1] \in Seq(S)
        BY <1>1, <2>5, <3>1, <4>1
      <4>4. h[(n + 1) + 1] \in Seq(S)
        BY <4>2, <4>3, ConcatProperties
      <4> QED
        BY <4>4
    <3> QED
      BY <3>1
  <2> HIDE DEF P
  <2>6. Nat \subseteq P
    BY <2>4, <2>5, InductionOnNat
  <2>7. PICK n \in Nat : n + 1 = Len(s)
    <3>1. Len(s) - 1 \in Nat /\ (Len(s) - 1) + 1 = Len(s)
      BY <1>1, <1>3
    <3> QED
      BY <3>1
  <2>8. h[Len(s)] \in Seq(S)
    <3>1. n \in P
      BY <2>6
    <3> QED
      BY <2>7, <3>1 DEF P
  <2> QED
    BY <1>3, <2>1, <2>8, FlattenIs
<1> QED
  BY <1>2, <1>3

-----------------------------------------------------------------------------
(* The leaves below a name.                                                   *)
LEMMA EligibleTyped ==
  ASSUME NEW c, IsConfig(c), NEW g \in DOMAIN c.virtual
  PROVE  Eligible(c, g) \in Seq(Names)
<1> DEFINE vm == c.virtual[g]
           models == [i \in DOMAIN vm.members |-> vm.members[i].model]
<1>1. vm.members \in Seq(Members) /\ vm.manual \in Names
  BY DEF IsConfig, VirtualModels
<1>2. PICK n \in Nat : n = Len(vm.members) /\ DOMAIN vm.members = 1..n
  BY <1>1, LenProperties
<1>3. \A i \in 1..n : vm.members[i].model \in Names
  <2>1. \A i \in 1..n : vm.members[i] \in Members
    BY <1>1, <1>2, ElementOfSeq
  <2> QED
    BY <2>1 DEF Members
<1>4. models \in [1..n -> Names]
  BY <1>2, <1>3
<1>5. models \in Seq(Names)
  BY <1>4, SeqDef
<1>6. <<>> \in Seq(Names) /\ <<vm.manual>> \in Seq(Names)
  BY <1>1, EmptySeq
<1>7. Eligible(c, g) \in {models, <<vm.manual>>, <<>>}
  <2> HIDE DEF models
  <2> QED
    BY DEF Eligible, models
<1> HIDE DEF models
<1> QED
  BY <1>5, <1>6, <1>7

(* The points at which Looks is asked: a name and the groups above it.        *)
LookPoints(c) == Names \X SUBSET DOMAIN c.virtual

LookStep(c, h, x) ==
  IF x[1] \notin DOMAIN c.virtual THEN <<x[1]>>
  ELSE IF Cardinality(x[2]) >= MaxGroupDepth \/ x[1] \in x[2] THEN <<>>
  ELSE FlattenSeq([i \in DOMAIN Eligible(c, x[1]) |->
                     h[<<Eligible(c, x[1])[i], x[2] \cup {x[1]}>>]])

LookSolves(c, h) == h = [x \in LookPoints(c) |-> LookStep(c, h, x)]

LEMMA LooksIs ==
  ASSUME NEW c, NEW m
  PROVE  Looks(c, m) = (CHOOSE h : LookSolves(c, h))[<<m, {}>>]
BY DEF Looks, LookSolves, LookPoints, LookStep

(* A step reads only points one group deeper, within the bound.               *)
LEMMA LookDeeper ==
  ASSUME NEW c, IsConfig(c), NEW x \in LookPoints(c)
  PROVE  /\ x[1] \in Names /\ Cardinality(x[2]) \in Nat
         /\ x[1] \in DOMAIN c.virtual /\ x[1] \notin x[2] =>
              /\ Eligible(c, x[1]) \in Seq(Names)
              /\ \A i \in DOMAIN Eligible(c, x[1]) :
                   LET y == <<Eligible(c, x[1])[i], x[2] \cup {x[1]}>>
                   IN  /\ y \in LookPoints(c)
                       /\ Cardinality(y[2]) = Cardinality(x[2]) + 1
<1>1. x[1] \in Names /\ x[2] \in SUBSET DOMAIN c.virtual
  BY DEF LookPoints
<1>2. IsFiniteSet(x[2])
  BY <1>1, FS_Subset DEF IsConfig
<1>3. Cardinality(x[2]) \in Nat
  BY <1>2, FS_CardinalityType
<1>4. ASSUME x[1] \in DOMAIN c.virtual, x[1] \notin x[2]
      PROVE  /\ Eligible(c, x[1]) \in Seq(Names)
             /\ \A i \in DOMAIN Eligible(c, x[1]) :
                   LET y == <<Eligible(c, x[1])[i], x[2] \cup {x[1]}>>
                   IN  /\ y \in LookPoints(c)
                       /\ Cardinality(y[2]) = Cardinality(x[2]) + 1
  <2>1. Eligible(c, x[1]) \in Seq(Names)
    BY <1>4, EligibleTyped
  <2>2. Cardinality(x[2] \cup {x[1]}) = Cardinality(x[2]) + 1
    BY <1>2, <1>4, FS_AddElement
  <2>3. \A i \in DOMAIN Eligible(c, x[1]) : Eligible(c, x[1])[i] \in Names
    BY <2>1, LenProperties, ElementOfSeq
  <2>4. x[2] \cup {x[1]} \in SUBSET DOMAIN c.virtual
    BY <1>1, <1>4
  <2> QED
    BY <2>1, <2>2, <2>3, <2>4 DEF LookPoints
<1> QED
  BY <1>1, <1>3, <1>4

LEMMA LookReads ==
  ASSUME NEW c, IsConfig(c), NEW x \in LookPoints(c), NEW f, NEW g,
         \A y \in LookPoints(c) :
           Cardinality(x[2]) < MaxGroupDepth /\ Cardinality(y[2]) = Cardinality(x[2]) + 1
             => f[y] = g[y]
  PROVE  LookStep(c, f, x) = LookStep(c, g, x)
<1>1. CASE x[1] \notin DOMAIN c.virtual \/ Cardinality(x[2]) >= MaxGroupDepth \/ x[1] \in x[2]
  BY <1>1 DEF LookStep
<1>2. CASE ~(x[1] \notin DOMAIN c.virtual \/ Cardinality(x[2]) >= MaxGroupDepth \/ x[1] \in x[2])
  <2> DEFINE e == Eligible(c, x[1])
             y(i) == <<e[i], x[2] \cup {x[1]}>>
  <2>1. Cardinality(x[2]) < MaxGroupDepth
    <3>1. Cardinality(x[2]) \in Nat /\ MaxGroupDepth \in Nat
      BY LookDeeper, BoundsAssumption
    <3> QED
      BY <1>2, <3>1
  <2>2. \A i \in DOMAIN e : y(i) \in LookPoints(c) /\ Cardinality(y(i)[2]) = Cardinality(x[2]) + 1
    BY <1>2, LookDeeper
  <2>3. \A i \in DOMAIN e : f[y(i)] = g[y(i)]
    <3> HIDE DEF e, y
    <3> QED
      BY <2>1, <2>2
  <2>4. [i \in DOMAIN e |-> f[y(i)]] = [i \in DOMAIN e |-> g[y(i)]]
    BY <2>3
  <2>5. \A h : LookStep(c, h, x) = FlattenSeq([i \in DOMAIN e |-> h[y(i)]])
    BY <1>2 DEF LookStep
  <2> QED
    BY <2>4, <2>5
<1> QED
  BY <1>1, <1>2

(* Looks is well defined: no chain of reads is longer than MaxGroupDepth.     *)
LEMMA LooksSolved ==
  ASSUME NEW c, IsConfig(c)
  PROVE  \E h : LookSolves(c, h)
<1> DEFINE D == LookPoints(c)
           Deep(k) == {x \in D : Cardinality(x[2]) + k >= MaxGroupDepth}
           upTo(h, k) == \A x \in Deep(k) : h[x] = LookStep(c, h, x)
           P == {k \in Nat : \E h : upTo(h, k)}
<1>1. MaxGroupDepth \in Nat /\ \A x \in D : Cardinality(x[2]) \in Nat
  BY BoundsAssumption, LookDeeper
<1>2. 0 \in P
  <2> DEFINE h == [x \in D |-> LookStep(c, <<>>, x)]
  <2>1. ASSUME NEW x \in Deep(0)  PROVE h[x] = LookStep(c, h, x)
    <3>1. x \in D /\ ~(Cardinality(x[2]) < MaxGroupDepth)
      BY <1>1
    <3> HIDE DEF h
    <3>2. LookStep(c, <<>>, x) = LookStep(c, h, x)
      BY <3>1, LookReads
    <3> QED
      BY <3>1, <3>2 DEF h
  <2> HIDE DEF h, Deep
  <2> QED
    BY <2>1
<1>3. ASSUME NEW k \in Nat, k \in P  PROVE k + 1 \in P
  <2>1. PICK g : upTo(g, k)
    BY <1>3
  <2> DEFINE h == [x \in D |-> LookStep(c, g, x)]
  <2>2. ASSUME NEW x \in Deep(k + 1)  PROVE h[x] = LookStep(c, h, x)
    <3>1. x \in D
      OBVIOUS
    <3>2. ASSUME NEW y \in D, Cardinality(y[2]) = Cardinality(x[2]) + 1
          PROVE  g[y] = h[y]
      <4>1. y \in Deep(k)
        BY <1>1, <3>2
      <4>2. g[y] = LookStep(c, g, y)
        BY <2>1, <4>1
      <4> QED
        BY <4>2
    <3> HIDE DEF h
    <3>3. LookStep(c, g, x) = LookStep(c, h, x)
      BY <3>1, <3>2, LookReads
    <3> QED
      BY <3>1, <3>3 DEF h
  <2> HIDE DEF h, Deep
  <2>3. upTo(h, k + 1)
    BY <2>2
  <2> QED
    BY <2>3
<1> HIDE DEF P
<1>4. MaxGroupDepth \in P
  BY <1>1, <1>2, <1>3, InductionOnNat
<1>5. PICK g : upTo(g, MaxGroupDepth)
  BY <1>4 DEF P
<1>6. \A x \in D : g[x] = LookStep(c, g, x)
  BY <1>1, <1>5
<1> DEFINE h == [x \in D |-> LookStep(c, g, x)]
<1>7. \A x \in D : h[x] = g[x]
  BY <1>6
<1>8. \A x \in D : LookStep(c, g, x) = LookStep(c, h, x)
  <2> HIDE DEF h
  <2> QED
    BY <1>7, LookReads
<1>9. h = [x \in D |-> LookStep(c, h, x)]
  BY <1>8
<1> QED
  BY <1>9 DEF LookSolves

(* Whatever the groups of a configuration refer to, themselves included, what *)
(* availability reads of a model or group is a finite list of leaves: its     *)
(* recursion ends at the groups above and at MaxGroupDepth, and the cooldown  *)
(* table is never asked for a group.                                          *)
THEOREM LooksAtLeaves ==
  ASSUME NEW c, IsConfig(c), NEW m \in Names
  PROVE  Looks(c, m) \in Seq(Names \ DOMAIN c.virtual)
<1> DEFINE L == Names \ DOMAIN c.virtual
<1>0. L = Names \ DOMAIN c.virtual
  OBVIOUS
<1> HIDE DEF L
<1>1. PICK h : h = CHOOSE f : LookSolves(c, f)
  OBVIOUS
<1>2. LookSolves(c, h)
  BY <1>1, LooksSolved
<1> DEFINE D == LookPoints(c)
           Deep(k) == {x \in D : Cardinality(x[2]) + k >= MaxGroupDepth}
           P == {k \in Nat : \A x \in Deep(k) : h[x] \in Seq(L)}
<1>3. MaxGroupDepth \in Nat /\ \A x \in D : Cardinality(x[2]) \in Nat
  BY BoundsAssumption, LookDeeper
<1>4. \A x \in D : h[x] = LookStep(c, h, x)
  BY <1>2 DEF LookSolves
<1>5. ASSUME NEW x \in D,
             Cardinality(x[2]) >= MaxGroupDepth \/
               \A y \in D : Cardinality(y[2]) = Cardinality(x[2]) + 1 => h[y] \in Seq(L)
      PROVE  h[x] \in Seq(L)
  <2>1. CASE x[1] \notin DOMAIN c.virtual
    <3>1. LookStep(c, h, x) = <<x[1]>> /\ x[1] \in L
      BY <1>0, <2>1, LookDeeper DEF LookStep
    <3>2. \A n \in L : <<n>> \in Seq(L)
      OBVIOUS
    <3> QED
      BY <1>4, <3>1, <3>2
  <2>2. CASE x[1] \in DOMAIN c.virtual
              /\ (Cardinality(x[2]) >= MaxGroupDepth \/ x[1] \in x[2])
    <3>1. LookStep(c, h, x) = <<>>
      BY <2>2 DEF LookStep
    <3> QED
      BY <1>4, <3>1, EmptySeq
  <2>3. CASE x[1] \in DOMAIN c.virtual
              /\ ~(Cardinality(x[2]) >= MaxGroupDepth \/ x[1] \in x[2])
    <3> DEFINE e == Eligible(c, x[1])
               y(i) == <<e[i], x[2] \cup {x[1]}>>
               found == [i \in DOMAIN e |-> h[y(i)]]
    <3>1. LookStep(c, h, x) = FlattenSeq(found)
      BY <2>3 DEF LookStep
    <3>2. /\ e \in Seq(Names)
          /\ \A i \in DOMAIN e : y(i) \in D /\ Cardinality(y(i)[2]) = Cardinality(x[2]) + 1
      BY <2>3, LookDeeper
    <3>3. PICK n \in Nat : DOMAIN e = 1..n
      BY <3>2, LenProperties
    <3>4. \A i \in 1..n : h[y(i)] \in Seq(L)
      <4> HIDE DEF e, y, D
      <4> QED
        BY <1>5, <2>3, <3>2, <3>3
    <3>5. found \in [1..n -> Seq(L)]
      BY <3>3, <3>4
    <3> HIDE DEF found
    <3>6. found \in Seq(Seq(L))
      BY <3>5, SeqDef
    <3>7. FlattenSeq(found) \in Seq(L)
      BY <3>6, FlattenTyped
    <3> QED
      BY <1>4, <3>1, <3>7
  <2> QED
    BY <2>1, <2>2, <2>3
<1> HIDE DEF D
<1>6. 0 \in P
  <2>1. \A x \in Deep(0) : x \in D /\ Cardinality(x[2]) >= MaxGroupDepth
    BY <1>3
  <2> QED
    BY <1>5, <2>1
<1>7. ASSUME NEW k \in Nat, k \in P  PROVE k + 1 \in P
  <2>1. ASSUME NEW x \in Deep(k + 1)  PROVE h[x] \in Seq(L)
    <3>1. \A y \in D : Cardinality(y[2]) = Cardinality(x[2]) + 1 => y \in Deep(k)
      BY <1>3
    <3> HIDE DEF Deep
    <3>2. x \in D
      BY DEF Deep
    <3>3. \A y \in Deep(k) : h[y] \in Seq(L)
      BY <1>7
    <3> QED
      BY <1>5, <3>1, <3>2, <3>3
  <2> QED
    BY <2>1
<1> HIDE DEF P
<1>8. MaxGroupDepth \in P
  BY <1>3, <1>6, <1>7, InductionOnNat
<1>9. \A x \in D : x \in Deep(MaxGroupDepth)
  BY <1>3
<1>10. <<m, {}>> \in D
  BY DEF D, LookPoints
<1>11. h[<<m, {}>>] \in Seq(L)
  BY <1>8, <1>9, <1>10 DEF P
<1> QED
  BY <1>0, <1>1, <1>11, LooksIs
==============================================================================
