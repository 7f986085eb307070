------------------------ MODULE StreamDeliveryProofs -------------------------
(* Theorems about streaming delivery, for every set of payloads, all probe    *)
(* limits and any number of attempts and pieces.                              *)
EXTENDS StreamDelivery, Sums, SequenceTheorems

-----------------------------------------------------------------------------
(* Facts about sequences, as the SMT solver can use them.                     *)
LEMMA EmptySequence == ASSUME NEW S PROVE <<>> \in Seq(S)
OBVIOUS

LEMMA AppendSequence ==
  ASSUME NEW S, NEW s \in Seq(S), NEW x \in S
  PROVE  /\ Append(s, x) \in Seq(S)
         /\ Append(s, x) # <<>>
         /\ s \o <<x>> = Append(s, x)
         /\ <<x>> \in Seq(S)
         /\ <<x>> # <<>>
OBVIOUS

LEMMA EmptyConcat ==
  ASSUME NEW S, NEW s \in Seq(S)
  PROVE  <<>> \o s = s /\ s \o <<>> = s
BY ConcatEmptySeq

(* Moving the head of one sequence to the end of another keeps the whole.     *)
LEMMA MoveHead ==
  ASSUME NEW S, NEW s \in Seq(S), NEW t \in Seq(S), t # <<>>
  PROVE  /\ Head(t) \in S
         /\ Tail(t) \in Seq(S)
         /\ Append(s, Head(t)) \in Seq(S)
         /\ Append(s, Head(t)) \o Tail(t) = s \o t
<1>1. Head(t) \in S /\ Tail(t) \in Seq(S)
  BY HeadTailProperties
<1>2. Append(s, Head(t)) \in Seq(S) /\ Append(s, Head(t)) = s \o <<Head(t)>>
      /\ <<Head(t)>> \in Seq(S)
  BY <1>1, AppendSequence
<1>3. <<Head(t)>> \o Tail(t) = t
  BY <1>1
<1>4. (s \o <<Head(t)>>) \o Tail(t) = s \o (<<Head(t)>> \o Tail(t))
  BY <1>1, <1>2, ConcatAssociative
<1>5. QED  BY <1>1, <1>2, <1>3, <1>4

LEMMA PrefixOfConcat ==
  ASSUME NEW S, NEW s \in Seq(S), NEW t \in Seq(S)
  PROVE  IsPrefix(s, s \o t)
<1>1. /\ s \o t \in Seq(S)
      /\ Len(s \o t) = Len(s) + Len(t)
      /\ \A i \in 1..Len(s) + Len(t) : (s \o t)[i] = IF i <= Len(s) THEN s[i] ELSE t[i - Len(s)]
  BY ConcatProperties
<1>2. Len(s) \in Nat /\ Len(t) \in Nat
  BY LenProperties
<1>3. CASE s = <<>>
  <2>1. SubSeq(s, 1, Len(s)) = <<>> /\ SubSeq(s \o t, 1, Len(s)) = <<>>
    BY <1>3, SubSeqEmpty
  <2>2. QED  BY <1>1, <1>2, <2>1 DEF IsPrefix
<1>4. CASE s # <<>>
  <2>1. Len(s) \in 1..Len(s)
    BY <1>2, <1>4, EmptySeq
  <2>2. SubSeq(s \o t, 1, Len(s)) = SubSeq(s, 1, Len(s))
    BY <2>1, SubSeqOfConcat1
  <2>3. QED  BY <1>1, <1>2, <2>2 DEF IsPrefix
<1>5. QED  BY <1>3, <1>4

-----------------------------------------------------------------------------
(* The inductive invariant.  Phase relates the outcome, the commit and the    *)
(* client's stream to where the goroutine is; HeldBack says where every       *)
(* received piece is: held back before the commit, emitted or pending after.  *)
Phase ==
  /\ pc = "start" => ~committed
  /\ pc \in {"start", "drain", "read", "emit"} <=> outcome = "none"
  /\ pc = "drain" => ~committed
  /\ pc = "emit" => committed
  /\ outcome \in {"failed", "cancelled", "mismatch"} => ~committed
  /\ outcome \in {"delivered", "broken"} => committed
  /\ client # "open" => pc = "ended"

HeldBack ==
  /\ ~committed => emitted = <<>>
  /\ pc = "start" => received = <<>> /\ buffered = <<>>
  /\ pc = "read" /\ ~committed => buffered = received
  /\ pc = "read" /\ ~committed /\ expect = "none" => received = <<>>
  /\ pc = "read" /\ committed => pending = <<>>
  /\ outcome = "delivered" => pending = <<>>
  /\ committed => emitted \o pending = received

IInv == TypeOK /\ Phase /\ HeldBack /\ StreamsClosed

(* Every attempt starts empty-handed.                                         *)
LEMMA Initially == Init => IInv
<1> SUFFICES ASSUME Init PROVE IInv
  OBVIOUS
<1>1. TypeOK
  <2>1. attempt \in 1..MaxAttempts /\ probed \in Nat
    BY AttemptsAssumption DEF Init
  <2>2. upstream \in [1..MaxAttempts -> {"none", "open", "closed"}]
    BY DEF Init
  <2>3. /\ received \in Seq(Pieces) /\ buffered \in Seq(Pieces) /\ pending \in Seq(Pieces)
        /\ emitted \in Seq(Pieces)
    BY EmptySequence DEF Init
  <2>4. QED  BY <2>1, <2>2, <2>3 DEF Init, TypeOK, Outcomes
<1>2. Phase
  BY DEF Init, Phase
<1>3. HeldBack
  BY DEF Init, HeldBack
<1>4. StreamsClosed
  BY DEF Init, StreamsClosed
<1>5. QED  BY <1>1, <1>2, <1>3, <1>4 DEF IInv

(* A payload arrives.                                                         *)
LEMMA ReadKeeps ==
  ASSUME IInv, NEW p \in Pieces, NEW last \in BOOLEAN, Read(p, last)
  PROVE  IInv'
<1> USE DEF Read, clientVars
<1>1. /\ received' = Append(received, p)
      /\ received' \in Seq(Pieces) /\ <<p>> \in Seq(Pieces) /\ <<p>> # <<>>
      /\ Append(buffered, p) \in Seq(Pieces) /\ Append(buffered, p) # <<>>
      /\ probed + p.size \in Nat
  <2>1. received \in Seq(Pieces) /\ buffered \in Seq(Pieces) /\ probed \in Nat
    BY DEF IInv, TypeOK
  <2>2. received' = Append(received, p)
    OBVIOUS
  <2>3. p.size \in Nat
    BY PiecesAssumption
  <2>4. QED  BY <2>1, <2>2, <2>3, AppendSequence
<1>2. CASE committed \/ expect = "none"
  <2>1. /\ committed' = TRUE /\ pending' = <<p>> /\ pc' = "emit"
        /\ UNCHANGED <<outcome, worded, buffered, probed>>
    BY <1>1, <1>2 DEF Commit
  <2>2. emitted \o <<p>> = received'
    <3>1. committed => emitted = received
      BY EmptyConcat DEF IInv, TypeOK, HeldBack
    <3>2. ~committed => emitted = received
      BY <1>2 DEF IInv, HeldBack
    <3>3. emitted \o <<p>> = Append(emitted, p)
      BY AppendSequence DEF IInv, TypeOK
    <3>4. QED  BY <1>1, <3>1, <3>2, <3>3
  <2>3. TypeOK'
    BY <1>1, <2>1 DEF IInv, TypeOK
  <2>4. Phase'
    BY <2>1 DEF IInv, Phase
  <2>5. HeldBack'
    BY <2>1, <2>2 DEF IInv, HeldBack, Phase
  <2>6. StreamsClosed'
    BY <2>1 DEF IInv, StreamsClosed
  <2>7. QED  BY <2>3, <2>4, <2>5, <2>6 DEF IInv
<1>3. CASE ~committed /\ expect # "none"
  <2>1. /\ buffered' = Append(buffered, p) /\ probed' = probed + p.size
        /\ \/ pc' = "leave" /\ outcome' = "mismatch" /\ worded' = TRUE
              /\ UNCHANGED <<committed, pending>>
           \/ /\ committed' = TRUE /\ pending' = Append(buffered, p)
              /\ pc' = "emit" /\ UNCHANGED <<outcome, worded>>
           \/ UNCHANGED <<pc, outcome, worded, committed, pending>>
    BY <1>1, <1>3, PiecesAssumption DEF Probe, Concluded, Reject, Commit
  <2>2. Append(buffered, p) = received' /\ emitted = <<>>
    BY <1>1, <1>3 DEF IInv, HeldBack
  <2>3. <<>> \o received' = received'
    BY <1>1, EmptyConcat
  <2>4. TypeOK'
    BY <1>1, <2>1 DEF IInv, TypeOK, Outcomes
  <2>5. Phase'
    BY <1>3, <2>1 DEF IInv, Phase
  <2>6. HeldBack'
    BY <1>3, <2>1, <2>2, <2>3 DEF IInv, HeldBack, Phase
  <2>7. StreamsClosed'
    BY <2>1 DEF IInv, StreamsClosed
  <2>8. QED  BY <2>4, <2>5, <2>6, <2>7 DEF IInv
<1>4. QED  BY <1>2, <1>3

(* The stream ends.                                                           *)
LEMMA ReadEndKeeps == ASSUME IInv, ReadEnd PROVE IInv'
<1> USE DEF ReadEnd, clientVars
<1>1. \/ /\ pc' = "leave" /\ outcome' = "mismatch" /\ worded' = TRUE /\ ~committed
         /\ UNCHANGED <<committed, pending>>
      \/ /\ committed' = TRUE /\ pending' = <<>> /\ UNCHANGED worded
         /\ pc' = "leave" /\ outcome' = "delivered"
         /\ committed \/ buffered = <<>>
      \/ /\ ~committed /\ committed' = TRUE /\ pending' = buffered /\ buffered # <<>>
         /\ pc' = "emit" /\ UNCHANGED <<outcome, worded>>
  BY DEF Concluded, Reject, Commit, IInv, TypeOK
<1>2. /\ committed => emitted = received
      /\ ~committed => emitted = <<>> /\ buffered = received
      /\ <<>> \o received = received
      /\ received \o <<>> = received
  BY EmptyConcat DEF IInv, TypeOK, HeldBack
<1>3. TypeOK'
  BY <1>1, EmptySequence DEF IInv, TypeOK, Outcomes
<1>4. Phase'
  BY <1>1 DEF IInv, Phase
<1>5. HeldBack'
  <2>1. CASE outcome' = "mismatch" /\ pc' = "leave" /\ ~committed /\ ~committed'
    <3>1. emitted' = <<>>
      BY <1>2, <2>1
    <3>2. QED  BY <2>1, <3>1 DEF HeldBack
  <2>2. CASE committed' /\ pending' = <<>> /\ outcome' = "delivered" /\ pc' = "leave"
             /\ (committed \/ buffered = <<>>)
    <3>1. emitted = received
      BY <1>2, <2>2
    <3>2. QED  BY <1>2, <2>2, <3>1 DEF HeldBack
  <2>3. CASE committed' /\ pending' = buffered /\ ~committed /\ pc' = "emit"
             /\ outcome' = outcome
    <3>1. outcome # "delivered" /\ emitted = <<>> /\ buffered = received
      BY <1>2, <2>3 DEF IInv, Phase
    <3>2. QED  BY <1>2, <2>3, <3>1 DEF HeldBack
  <2>4. QED  BY <1>1, <2>1, <2>2, <2>3
<1>6. StreamsClosed'
  BY <1>1 DEF IInv, StreamsClosed
<1>7. QED  BY <1>3, <1>4, <1>5, <1>6 DEF IInv

(* A released piece goes out.                                                 *)
LEMMA EmitKeeps == ASSUME IInv, Emit PROVE IInv'
<1> USE DEF Emit
<1>1. pending # <<>> /\ committed
  BY DEF IInv, TypeOK, Phase
<1>2. /\ emitted' \in Seq(Pieces) /\ pending' \in Seq(Pieces)
      /\ emitted' \o pending' = emitted \o pending
  <2>1. /\ emitted \in Seq(Pieces) /\ pending \in Seq(Pieces) /\ pending # <<>>
    BY <1>1 DEF IInv, TypeOK
  <2>2. emitted' = Append(emitted, Head(pending)) /\ pending' = Tail(pending)
    OBVIOUS
  <2>3. QED  BY <2>1, <2>2, MoveHead
<1>3. \/ pending' # <<>> /\ UNCHANGED <<pc, outcome>>
      \/ pending' = <<>> /\ pc' = "leave" /\ outcome' = "delivered"
      \/ pending' = <<>> /\ pc' = "read" /\ UNCHANGED outcome
  OBVIOUS
<1>4. TypeOK'
  BY <1>2, <1>3 DEF IInv, TypeOK, Outcomes
<1>5. Phase'
  BY <1>1, <1>3 DEF IInv, Phase
<1>6. HeldBack'
  BY <1>1, <1>2, <1>3 DEF IInv, HeldBack, Phase
<1>7. StreamsClosed'
  BY <1>3 DEF IInv, StreamsClosed
<1>8. QED  BY <1>4, <1>5, <1>6, <1>7 DEF IInv

(* Another attempt begins, with nothing of the last one left.                 *)
LEMMA AgainKeeps == ASSUME IInv, Again PROVE IInv'
<1> USE DEF Again, Retryable, clientVars
<1>1. emitted = <<>> /\ ~committed
  BY DEF IInv, Phase, HeldBack
<1>2. TypeOK'
  <2>1. attempt' \in 1..MaxAttempts /\ probed' \in Nat
    BY AttemptsAssumption DEF IInv, TypeOK
  <2>2. /\ received' \in Seq(Pieces) /\ buffered' \in Seq(Pieces)
        /\ pending' \in Seq(Pieces)
    BY EmptySequence
  <2>3. QED  BY <2>1, <2>2 DEF IInv, TypeOK, Outcomes
<1>3. Phase'
  BY DEF IInv, Phase
<1>4. HeldBack'
  BY <1>1 DEF IInv, HeldBack
<1>5. StreamsClosed'
  BY DEF IInv, StreamsClosed
<1>6. QED  BY <1>2, <1>3, <1>4, <1>5 DEF IInv

(* Every other step leaves the text alone.                                    *)
LEMMA OthersKeep ==
  ASSUME IInv,
         \/ \E cause \in Causes : Refuse(cause) \/ DrainFails(cause) \/ ReadFails(cause)
         \/ \E p \in Pieces, last \in BOOLEAN : Drain(p, last)
         \/ Open \/ EmitFails \/ Leave \/ Complete \/ Abort
         \/ UNCHANGED vars
  PROVE  IInv'
<1>1. ASSUME NEW cause \in Causes, Refuse(cause) PROVE IInv'
  <2>1. TypeOK'
    BY <1>1 DEF IInv, TypeOK, Refuse, Failing, Causes, Outcomes, attemptVars, clientVars
  <2>2. Phase'
    BY <1>1 DEF IInv, Phase, Refuse, Failing, attemptVars, clientVars
  <2>3. HeldBack'
    BY <1>1 DEF IInv, HeldBack, Phase, Refuse, Failing, attemptVars, clientVars
  <2>4. StreamsClosed'
    BY <1>1 DEF IInv, StreamsClosed, Refuse
  <2>5. QED  BY <2>1, <2>2, <2>3, <2>4 DEF IInv
<1>2. ASSUME NEW cause \in Causes, DrainFails(cause) PROVE IInv'
  <2>1. TypeOK'
    BY <1>2 DEF IInv, TypeOK, DrainFails, Causes, Outcomes, attemptVars, clientVars
  <2>2. Phase'
    BY <1>2 DEF IInv, Phase, DrainFails, attemptVars, clientVars
  <2>3. HeldBack'
    BY <1>2 DEF IInv, HeldBack, Phase, DrainFails, attemptVars, clientVars
  <2>4. StreamsClosed'
    BY <1>2 DEF IInv, StreamsClosed, DrainFails
  <2>5. QED  BY <2>1, <2>2, <2>3, <2>4 DEF IInv
<1>3. ASSUME NEW cause \in Causes, ReadFails(cause) PROVE IInv'
  <2>1. TypeOK'
    BY <1>3 DEF IInv, TypeOK, ReadFails, Failing, Causes, Outcomes, attemptVars, clientVars
  <2>2. Phase'
    BY <1>3 DEF IInv, Phase, ReadFails, Failing, attemptVars, clientVars
  <2>3. HeldBack'
    BY <1>3 DEF IInv, HeldBack, Phase, ReadFails, Failing, attemptVars, clientVars
  <2>4. StreamsClosed'
    BY <1>3 DEF IInv, StreamsClosed, ReadFails
  <2>5. QED  BY <2>1, <2>2, <2>3, <2>4 DEF IInv
<1>4. ASSUME NEW p \in Pieces, NEW last \in BOOLEAN, Drain(p, last) PROVE IInv'
  <2>1. Append(received, p) \in Seq(Pieces) /\ probed + p.size \in Nat
    <3>1. received \in Seq(Pieces) /\ probed \in Nat
      BY DEF IInv, TypeOK
    <3>2. p.size \in Nat
      BY PiecesAssumption
    <3>3. QED  BY <3>1, <3>2, AppendSequence
  <2>2. TypeOK'
    BY <1>4, <2>1 DEF IInv, TypeOK, Drain, Outcomes, clientVars
  <2>3. Phase'
    BY <1>4 DEF IInv, Phase, Drain, clientVars
  <2>4. HeldBack'
    BY <1>4 DEF IInv, HeldBack, Phase, Drain, clientVars
  <2>5. StreamsClosed'
    BY <1>4 DEF IInv, StreamsClosed, Drain
  <2>6. QED  BY <2>2, <2>3, <2>4, <2>5 DEF IInv
<1>5. ASSUME Open PROVE IInv'
  <2>1. TypeOK'
    BY <1>5 DEF IInv, TypeOK, Open, attemptVars, clientVars
  <2>2. Phase'
    BY <1>5 DEF IInv, Phase, Open, attemptVars, clientVars
  <2>3. HeldBack'
    BY <1>5 DEF IInv, HeldBack, Phase, Open, attemptVars, clientVars
  <2>4. StreamsClosed'
    BY <1>5 DEF IInv, TypeOK, StreamsClosed, Open
  <2>5. QED  BY <2>1, <2>2, <2>3, <2>4 DEF IInv
<1>6. ASSUME EmitFails PROVE IInv'
  <2>1. TypeOK'
    BY <1>6 DEF IInv, TypeOK, EmitFails, Outcomes, attemptVars, clientVars
  <2>2. Phase'
    BY <1>6 DEF IInv, Phase, EmitFails, attemptVars, clientVars
  <2>3. HeldBack'
    BY <1>6 DEF IInv, HeldBack, Phase, EmitFails, attemptVars, clientVars
  <2>4. StreamsClosed'
    BY <1>6 DEF IInv, StreamsClosed, EmitFails
  <2>5. QED  BY <2>1, <2>2, <2>3, <2>4 DEF IInv
<1>7. ASSUME Leave PROVE IInv'
  <2>1. TypeOK'
    BY <1>7 DEF IInv, TypeOK, Leave, attemptVars, clientVars
  <2>2. Phase'
    BY <1>7 DEF IInv, Phase, Leave, attemptVars, clientVars
  <2>3. HeldBack'
    BY <1>7 DEF IInv, HeldBack, Leave, attemptVars, clientVars
  <2>4. StreamsClosed'
    BY <1>7 DEF IInv, TypeOK, StreamsClosed, Leave
  <2>5. QED  BY <2>1, <2>2, <2>3, <2>4 DEF IInv
<1>8. ASSUME Complete \/ Abort PROVE IInv'
  <2>1. TypeOK'
    BY <1>8 DEF IInv, TypeOK, Complete, Abort, Closed, attemptVars
  <2>2. Phase'
    <3>1. /\ UNCHANGED <<outcome, committed>> /\ pc = "decide" /\ pc' = "ended"
      BY <1>8 DEF Complete, Abort, attemptVars
    <3>2. QED  BY <3>1 DEF IInv, Phase
  <2>3. HeldBack'
    <3>1. /\ UNCHANGED <<emitted, committed, outcome, pending, received>>
          /\ pc' = "ended"
      BY <1>8 DEF Complete, Abort, attemptVars
    <3>2. QED  BY <3>1 DEF IInv, HeldBack
  <2>4. StreamsClosed'
    BY <1>8 DEF IInv, StreamsClosed, Complete, Abort
  <2>5. QED  BY <2>1, <2>2, <2>3, <2>4 DEF IInv
<1>9. ASSUME UNCHANGED vars PROVE IInv'
  BY <1>9 DEF IInv, TypeOK, Phase, HeldBack, StreamsClosed, vars, attemptVars, clientVars
<1>10. QED  BY <1>1, <1>2, <1>3, <1>4, <1>5, <1>6, <1>7, <1>8, <1>9

LEMMA Inductive == IInv /\ [Next]_vars => IInv'
BY ReadKeeps, ReadEndKeeps, EmitKeeps, AgainKeeps, OthersKeep DEF Next

THEOREM Invariance == Spec => []IInv
<1>1. Init => IInv
  BY Initially
<1>2. IInv /\ [Next]_vars => IInv'
  BY Inductive
<1>3. QED  BY <1>1, <1>2, PTL DEF Spec

(* The variables keep their types, and a goroutine about to emit has          *)
(* something to emit.                                                         *)
THEOREM TypeCorrect == Spec => []TypeOK
<1>1. IInv => TypeOK
  BY DEF IInv
<1>2. QED  BY <1>1, Invariance, PTL

(* Failed and rejected attempts show the client nothing; what it reads is a   *)
(* prefix of what one attempt received, and all of it when that is complete.  *)
THEOREM DeliveryFaithful == Spec => []NothingLostOrLeaked
<1>1. ASSUME IInv PROVE NothingLostOrLeaked
  <2>1. CASE committed
    <3>1. IsPrefix(emitted, received)
      BY <1>1, <2>1, PrefixOfConcat DEF IInv, TypeOK, HeldBack
    <3>2. outcome = "delivered" => emitted = received
      BY <1>1, <2>1, EmptyConcat DEF IInv, TypeOK, HeldBack
    <3>3. QED  BY <2>1, <3>1, <3>2 DEF NothingLostOrLeaked
  <2>2. CASE ~committed
    <3>1. emitted = <<>> /\ outcome # "delivered"
      BY <1>1, <2>2 DEF IInv, HeldBack, Phase
    <3>2. IsPrefix(<<>>, <<>> \o received) /\ <<>> \o received = received
      BY <1>1, EmptySequence, EmptyConcat, PrefixOfConcat DEF IInv, TypeOK
    <3>3. QED  BY <3>1, <3>2 DEF NothingLostOrLeaked
  <2>3. QED  BY <2>1, <2>2
<1>2. QED  BY <1>1, Invariance, PTL

(* No host stream stays open behind an attempt.                               *)
THEOREM StreamsAlwaysClosed == Spec => []StreamsClosed
<1>1. IInv => StreamsClosed
  BY DEF IInv
<1>2. QED  BY <1>1, Invariance, PTL

(* The whole delivery implements the client's promise: one voice, one close.  *)
THEOREM ImplementsClientStream == Spec => ClientSpec
<1> DEFINE voice == IF emitted = <<>> THEN 0 ELSE attempt
<1>1. Init => Client!Init
  BY DEF Init, Client!Init
<1>2. ASSUME IInv, [Next]_vars PROVE [Client!Next]_(Client!vars)
  <2>1. CASE Emit
    <3>1. client = "open" /\ Head(pending) \in Pieces /\ attempt \in 1..MaxAttempts
      BY <1>2, <2>1, MoveHead DEF IInv, TypeOK, Phase, Emit
    <3>2. emitted' = Append(emitted, Head(pending)) /\ emitted' # <<>>
          /\ UNCHANGED <<client, attempt>>
      <4>1. /\ emitted' = Append(emitted, Head(pending)) /\ UNCHANGED <<client, attempt>>
            /\ emitted \in Seq(Pieces)
        BY <1>2, <2>1 DEF IInv, TypeOK, Emit
      <4>2. Append(emitted, Head(pending)) # <<>>
        BY <3>1, <4>1, AppendSequence
      <4>3. QED  BY <4>1, <4>2
    <3>3. Client!Say(attempt, Head(pending))
      BY <3>1, <3>2 DEF Client!Say
    <3>4. QED  BY <3>1, <3>3 DEF Client!Next
  <2>2. CASE Again
    <3>1. emitted = <<>> /\ UNCHANGED <<emitted, client>>
      BY <1>2, <2>2 DEF IInv, HeldBack, Phase, Again, Retryable, clientVars
    <3>2. QED  BY <3>1 DEF Client!vars
  <2>3. CASE Complete \/ Abort
    <3>1. client = "open" /\ client' \in {"complete", "error"} /\ UNCHANGED <<emitted, attempt>>
      BY <1>2, <2>3 DEF IInv, Phase, TypeOK, Complete, Abort, Closed
    <3>2. Client!Close(client')
      BY <3>1 DEF Client!Close
    <3>3. QED  BY <3>1, <3>2 DEF Client!Next
  <2>4. CASE UNCHANGED <<emitted, client, attempt>>
    BY <2>4 DEF Client!vars
  <2>5. QED
    BY <1>2, <2>1, <2>2, <2>3, <2>4
    DEF Next, vars, attemptVars, clientVars, Refuse, Open, Drain, DrainFails, ReadFails,
        Read, ReadEnd, EmitFails, Leave
<1>3. QED  BY <1>1, <1>2, Invariance, PTL DEF Spec, ClientSpec, Client!Spec

-----------------------------------------------------------------------------
(* What the end rests on: an error has no text only if nothing that was read  *)
(* of an error body had one, and rejections and cancellations always do.      *)
Blank == \A i \in DOMAIN received : received[i].blank

Spoken ==
  /\ pc = "drain" => buffered = <<>>
  /\ pc = "drain" \/ (outcome = "failed" /\ buffered = <<>>) => worded \/ Blank
  /\ outcome \in {"mismatch", "cancelled"} => worded
  /\ client # "open" => Told

LEMMA BlankSteps ==
  /\ received = <<>> => Blank
  /\ \A p \in Pieces : received \in Seq(Pieces) /\ received' = Append(received, p)
                      /\ Blank /\ p.blank => Blank'
<1>1. received = <<>> => Blank
  BY DEF Blank
<1>2. ASSUME NEW p \in Pieces, received \in Seq(Pieces), received' = Append(received, p),
             Blank, p.blank
      PROVE  Blank'
  <2>1. /\ DOMAIN received = 1..Len(received) /\ DOMAIN received' = 1..Len(received')
        /\ Len(received') = Len(received) + 1 /\ Len(received) \in Nat
        /\ received'[Len(received) + 1] = p
        /\ \A i \in 1..Len(received) : received'[i] = received[i]
    BY <1>2, AppendProperties, LenProperties
  <2>2. ASSUME NEW i \in DOMAIN received'  PROVE received'[i].blank
    <3>1. i \in 1..Len(received) \/ i = Len(received) + 1
      BY <2>1
    <3> QED
      BY <1>2, <2>1, <3>1 DEF Blank
  <2> QED
    BY <2>2 DEF Blank
<1> QED
  BY <1>1, <1>2

(* Closing the client's stream tells it what it must know.                    *)
LEMMA ClosingTells == ASSUME IInv, Spoken, Complete \/ Abort PROVE Spoken'
<1>1. /\ UNCHANGED <<outcome, worded, committed, buffered, received>>
      /\ pc = "decide" /\ pc' = "ended"
      /\ \/ outcome = "delivered" /\ client' = "complete"
         \/ outcome # "delivered" /\ client' = Closed(worded)
         \/ outcome = "failed" /\ client' = "error"
  BY DEF Complete, Abort, Closed, attemptVars
<1>2. Blank' <=> Blank
  BY <1>1 DEF Blank
<1>3. CASE outcome # "delivered" /\ client' = Closed(worded)
  <2>1. outcome \in {"failed", "cancelled", "mismatch", "broken"}
    BY <1>1, <1>3 DEF IInv, TypeOK, Outcomes, Phase
  <2>2. outcome = "broken" => committed
    BY DEF IInv, Phase
  <2>3. ~worded => Silent'
    BY <1>1, <1>2, <2>1, <2>2 DEF Spoken, Silent, Blank
  <2>4. Told'
    BY <1>1, <1>3, <2>3 DEF Told, Closed
  <2> QED
    BY <1>1, <1>2, <2>4 DEF Spoken
<1>4. CASE outcome = "delivered" /\ client' = "complete"
  BY <1>1, <1>2, <1>4 DEF Spoken, Told
<1>5. CASE outcome = "failed" /\ client' = "error"
  BY <1>1, <1>2, <1>5 DEF Spoken, Told
<1> QED
  BY <1>1, <1>3, <1>4, <1>5

LEMMA OthersTell ==
  ASSUME IInv, Spoken, [Next]_vars, ~Complete, ~Abort
  PROVE  Spoken'
<1>1. CASE UNCHANGED vars
  BY <1>1 DEF vars, attemptVars, clientVars, Spoken, Blank, Told, Silent
<1>2. CASE ~UNCHANGED vars
  <2>1. pc # "ended" /\ client = "open"
    <3>1. pc # "ended"
      BY <1>2 DEF Next, Refuse, Open, Drain, DrainFails, ReadFails, Read, ReadEnd, Emit,
                  EmitFails, Leave, Again
    <3> QED
      BY <3>1 DEF IInv, Phase
  <2>2. client' = "open"
    BY <1>2, <2>1 DEF Next, Refuse, Open, Drain, DrainFails, ReadFails, Read, ReadEnd, Emit,
                      EmitFails, Leave, Again, clientVars
  <2>3. ASSUME NEW cause \in Causes, Refuse(cause)  PROVE Spoken'
    <3>1. received' = <<>> /\ pc' = "decide" /\ outcome' \in {"failed", "cancelled"}
          /\ (outcome' = "cancelled" => worded')
      BY <2>3 DEF Refuse, Failing, attemptVars, IInv, HeldBack
    <3>2. Blank'
      BY <3>1 DEF Blank
    <3> QED
      BY <2>2, <3>1, <3>2 DEF Spoken
  <2>4. ASSUME NEW cause \in Causes, DrainFails(cause)  PROVE Spoken'
    <3>1. /\ pc = "drain" /\ pc' = "leave" /\ outcome' = "failed"
          /\ UNCHANGED <<received, buffered, worded>>
      BY <2>4 DEF DrainFails, attemptVars
    <3> QED
      BY <2>2, <3>1 DEF Spoken, Blank
  <2>5. ASSUME NEW cause \in Causes, ReadFails(cause)  PROVE Spoken'
    <3>1. /\ pc = "read" /\ pc' = "leave" /\ UNCHANGED <<received, buffered>>
          /\ outcome' \in {"broken", "failed", "cancelled"}
          /\ outcome' = "cancelled" => worded'
          /\ outcome' # "broken" => ~committed
      BY <2>5 DEF ReadFails, Failing, attemptVars
    <3>2. outcome' = "failed" /\ buffered' = <<>> => received' = <<>>
      BY <3>1 DEF IInv, HeldBack
    <3>3. received' = <<>> => Blank'
      BY DEF Blank
    <3> QED
      BY <2>2, <3>1, <3>2, <3>3 DEF Spoken
  <2>6. ASSUME NEW p \in Pieces, NEW last \in BOOLEAN, Drain(p, last)  PROVE Spoken'
    <3>1. /\ pc = "drain" /\ pc' \in {"drain", "leave"} /\ UNCHANGED buffered
          /\ outcome = "none" /\ outcome' \in {"none", "failed"}
          /\ received' = Append(received, p) /\ received \in Seq(Pieces)
          /\ worded' = (worded \/ ~p.blank)
      BY <2>6 DEF Drain, IInv, TypeOK, Phase
    <3>2. ~worded' => Blank'
      BY <3>1, BlankSteps DEF Spoken
    <3> QED
      BY <2>2, <3>1, <3>2 DEF Spoken
  <2>7. CASE Open
    <3>1. /\ received' = <<>> /\ buffered' = <<>> /\ outcome' = "none"
      BY <2>7 DEF Open, attemptVars, IInv, HeldBack, Phase
    <3>2. Blank'
      BY <3>1 DEF Blank
    <3> QED
      BY <2>2, <3>1, <3>2 DEF Spoken
  <2>8. CASE ReadEnd \/ \E p \in Pieces, last \in BOOLEAN : Read(p, last)
    <3>1. /\ pc' # "drain" /\ outcome' \in {"none", "delivered", "mismatch"}
          /\ outcome' = "mismatch" => worded'
      BY <2>8 DEF ReadEnd, Read, Probe, Concluded, Commit, Reject, IInv, Phase
    <3> QED
      BY <2>2, <3>1 DEF Spoken
  <2>9. CASE Emit \/ EmitFails \/ Again
    <3>1. pc' # "drain" /\ outcome' \in {"none", "delivered", "broken"}
      BY <2>9 DEF Emit, EmitFails, Again, IInv, Phase
    <3> QED
      BY <2>2, <3>1 DEF Spoken
  <2>10. CASE Leave
    <3>1. pc' = "decide" /\ UNCHANGED <<outcome, worded, received, buffered>>
      BY <2>10 DEF Leave, attemptVars
    <3> QED
      BY <2>2, <3>1 DEF Spoken, Blank
  <2> QED
    BY <1>2, <2>3, <2>4, <2>5, <2>6, <2>7, <2>8, <2>9, <2>10 DEF Next
<1> QED
  BY <1>1, <1>2

(* executeStream: a stream that is closed tells the client how it ended,      *)
(* unless the error of a failed attempt says nothing.                         *)
THEOREM EndsTold == Spec => [](client # "open" => Told)
<1>1. Init => Spoken
  BY DEF Init, Spoken
<1>2. IInv /\ Spoken /\ [Next]_vars => Spoken'
  BY ClosingTells, OthersTell
<1>3. Spoken => (client # "open" => Told)
  BY DEF Spoken
<1> QED
  BY <1>1, <1>2, <1>3, Invariance, PTL DEF Spec

-----------------------------------------------------------------------------
(* The sizes of pieces, added up.                                             *)
LEMMA PieceFields ==
  ASSUME NEW p \in Pieces
  PROVE  p.names \in {"", "same", "other"} /\ p.size \in Nat /\ p.size \in Int
<1>1. p \in [names : {"", "same", "other"}, size : Nat \ {0}, blank : BOOLEAN]
  BY PiecesAssumption
<1>2. p.names \in {"", "same", "other"}
  BY <1>1
<1>3. p.size \in Nat \ {0}
  BY <1>1
<1>4. p.size \in Nat /\ p.size \in Int
  BY <1>3
<1> QED
  BY <1>2, <1>4

LEMMA SequenceOfPieces ==
  ASSUME NEW s \in Seq(Pieces)
  PROVE  /\ Len(s) \in Nat /\ DOMAIN s = 1..Len(s)
         /\ \A i \in 1..Len(s) : s[i] \in Pieces /\ s[i].size \in Int
<1>1. Len(s) \in Nat /\ DOMAIN s = 1..Len(s)
  BY LenProperties
<1>2. \A i \in 1..Len(s) : s[i] \in Pieces
  BY ElementOfSeq
<1> QED
  BY <1>1, <1>2, PieceFields

Sizes(s, n) == [i \in 1..n |-> s[i].size]

LEMMA BytesAreSum ==
  ASSUME NEW s \in Seq(Pieces), NEW n \in Nat, n <= Len(s)
  PROVE  /\ Bytes(s, n) = SumOver(Sizes(s, n), 1..n)
         /\ IsFiniteSet(1..n) /\ \A i \in 1..n : Sizes(s, n)[i] = s[i].size /\ s[i].size \in Int
<1> DEFINE S == 1..n
           f == Sizes(s, n)
           body(h) == [t \in SUBSET S |->
                         IF t = {} THEN 0
                         ELSE s[CHOOSE i \in t : TRUE].size + h[t \ {CHOOSE i \in t : TRUE}]]
           H == CHOOSE h : h = body(h)
<1>1. IsFiniteSet(S) /\ \A i \in S : f[i] = s[i].size /\ s[i].size \in Int
  <2>1. IsFiniteSet(S)
    BY FS_Interval
  <2>2. \A i \in S : i \in 1..Len(s)
    BY SequenceOfPieces
  <2> QED
    BY <2>1, <2>2, SequenceOfPieces DEF Sizes
<1>2. Bytes(s, n) = H[S]
  BY DEF Bytes, MapThenSumSet, MapThenFoldSet
<1>3. ASSUME NEW h  PROVE Sums(h, f, S) <=> h = body(h)
  <2>1. \A t \in SUBSET S : t # {} => (CHOOSE i \in t : TRUE) \in S
    OBVIOUS
  <2>2. \A t \in SUBSET S :
          (IF t = {} THEN 0
           ELSE f[CHOOSE i \in t : TRUE] + h[t \ {CHOOSE i \in t : TRUE}]) = body(h)[t]
    BY <1>1, <2>1
  <2> QED
    BY <2>2 DEF Sums
<1> HIDE DEF S, f, body
<1>4. \E h : h = body(h)
  BY <1>1, <1>3, SumsExist
<1>5. H = body(H)
  BY <1>4
<1> HIDE DEF H
<1>6. Sums(H, f, S)
  BY <1>3, <1>5
<1>7. H[S] = SumOver(f, S)
  BY <1>1, <1>6, SumsOfSubset
<1> QED
  BY <1>1, <1>2, <1>7 DEF S, f

LEMMA NoBytes ==
  ASSUME NEW s \in Seq(Pieces)
  PROVE  Bytes(s, 0) = 0
<1>1. Bytes(s, 0) = SumOver(Sizes(s, 0), 1..0) /\ 1..0 = {}
  <2>1. 0 <= Len(s)
    BY SequenceOfPieces
  <2> QED
    BY <2>1, BytesAreSum
<1>2. IsFiniteSet({}) /\ \A i \in {} : Sizes(s, 0)[i] \in Int
  BY FS_EmptySet
<1> QED
  BY <1>1, <1>2, SumGrows

LEMMA BytesGrow ==
  ASSUME NEW s \in Seq(Pieces), NEW p \in Pieces
  PROVE  /\ Bytes(s, 0) = 0 /\ Bytes(s, Len(s)) \in Int
         /\ Bytes(Append(s, p), Len(s) + 1) = Bytes(s, Len(s)) + p.size
         /\ \A n \in 1..Len(s) : Bytes(Append(s, p), n) = Bytes(s, n)
<1> DEFINE q == Append(s, p)
           n == Len(s)
<1>1. /\ q \in Seq(Pieces) /\ Len(q) = n + 1 /\ n \in Nat
      /\ q[n + 1] = p /\ \A i \in 1..n : q[i] = s[i]
  BY AppendProperties, LenProperties
<1> HIDE DEF q, n
<1>2. ASSUME NEW k \in Nat, k <= n  PROVE Bytes(q, k) = Bytes(s, k) /\ Bytes(s, k) \in Int
  <2> DEFINE f == Sizes(s, k)
             g == Sizes(q, k)
  <2>0. k <= Len(q) /\ k <= Len(s) /\ \A i \in 1..k : i \in 1..n
    BY <1>1, <1>2 DEF n
  <2>1. Bytes(q, k) = SumOver(g, 1..k) /\ Bytes(s, k) = SumOver(f, 1..k) /\ IsFiniteSet(1..k)
    BY <1>1, <2>0, BytesAreSum
  <2>2. \A i \in 1..k : f[i] = s[i].size /\ s[i].size \in Int
    BY <2>0, BytesAreSum
  <2>3. \A i \in 1..k : f[i] \in Int /\ g[i] = f[i]
    BY <1>1, <2>0, <2>2 DEF Sizes
  <2> HIDE DEF f, g
  <2>4. SumOver(g, 1..k) = SumOver(f, 1..k)
    BY <2>1, <2>3, SumSame
  <2>5. SumOver(f, 1..k) \in Int
    BY <2>1, <2>3, SumGrows
  <2> QED
    BY <2>1, <2>4, <2>5
<1>3. Bytes(s, 0) = 0
  BY NoBytes
<1>4. Bytes(q, n + 1) = Bytes(s, n) + p.size
  <2> DEFINE f == Sizes(q, n + 1)
             g == Sizes(q, n)
  <2>1. /\ Bytes(q, n + 1) = SumOver(f, 1..(n + 1)) /\ IsFiniteSet(1..(n + 1))
        /\ \A i \in 1..(n + 1) : f[i] = q[i].size /\ q[i].size \in Int
    BY <1>1, BytesAreSum
  <2>2. /\ Bytes(q, n) = SumOver(g, 1..n) /\ IsFiniteSet(1..n)
        /\ \A i \in 1..n : g[i] = q[i].size /\ q[i].size \in Int
    <3>1. n <= Len(q)
      BY <1>1
    <3> QED
      BY <1>1, <3>1, BytesAreSum
  <2>3. (1..(n + 1)) \ {n + 1} = 1..n /\ n + 1 \in 1..(n + 1)
    BY <1>1
  <2>4. \A i \in 1..n : g[i] \in Int /\ f[i] = g[i]
    BY <2>1, <2>2, <2>3
  <2>5. \A i \in 1..(n + 1) : f[i] \in Int
    BY <2>1
  <2>6. f[n + 1] = p.size
    BY <1>1, <2>1, <2>3
  <2> HIDE DEF f, g
  <2>7. SumOver(f, 1..(n + 1)) = f[n + 1] + SumOver(f, (1..(n + 1)) \ {n + 1})
    BY <2>1, <2>3, <2>5, SumGrows
  <2>8. SumOver(f, 1..n) = SumOver(g, 1..n)
    BY <2>2, <2>4, SumSame
  <2>9. n <= n
    BY <1>1
  <2>10. Bytes(q, n) = Bytes(s, n) /\ Bytes(s, n) \in Int
    BY <1>1, <1>2, <2>9
  <2>11. p.size \in Int
    BY PieceFields
  <2>12. Bytes(q, n + 1) = p.size + Bytes(s, n)
    BY <2>1, <2>2, <2>3, <2>6, <2>7, <2>8, <2>10
  <2> QED
    BY <2>10, <2>11, <2>12
<1> QED
  BY <1>1, <1>2, <1>3, <1>4 DEF n, q

(* What a text says, and whether it has been decided yet.                     *)
Stops(s) ==
  {n \in DOMAIN s : s[n].names # "" \/ n >= MaxProbeChunks \/ Bytes(s, n) >= MaxProbeBytes}

LEMMA NamedByStops ==
  ASSUME NEW s \in Seq(Pieces)
  PROVE  /\ Stops(s) = {} => Named(s) = ""
         /\ \A m \in Stops(s) : (\A n \in Stops(s) : m <= n) => Named(s) = s[m].names
         /\ Stops(s) # {} => \E m \in Stops(s) : \A n \in Stops(s) : m <= n
<1>1. Stops(s) \subseteq Nat
  <2>1. Stops(s) \subseteq DOMAIN s
    BY DEF Stops
  <2>2. DOMAIN s \subseteq Nat
    BY SequenceOfPieces
  <2> QED
    BY <2>1, <2>2
<1>2. Named(s) = IF Stops(s) = {} THEN "" ELSE s[Min(Stops(s))].names
  BY DEF Named, Stops
<1>3. ASSUME NEW m \in Stops(s), \A n \in Stops(s) : m <= n  PROVE Min(Stops(s)) = m
  <2>1. Min(Stops(s)) \in Stops(s) /\ \A n \in Stops(s) : Min(Stops(s)) <= n
    BY <1>3 DEF Min
  <2> QED
    BY <1>1, <1>3, <2>1
<1>4. Stops(s) # {} => \E m \in Stops(s) : \A n \in Stops(s) : m <= n
  BY <1>1, LeastMember
<1> HIDE DEF Stops
<1> QED
  BY <1>2, <1>3, <1>4

(* A decided text stays as it is; one that is not is decided by its last      *)
(* piece.                                                                     *)
LEMMA NextPiece ==
  ASSUME NEW s \in Seq(Pieces), NEW p \in Pieces
  PROVE  /\ Stops(s) # {} => Stops(Append(s, p)) # {} /\ Named(Append(s, p)) = Named(s)
         /\ Stops(s) = {} =>
              /\ Named(Append(s, p)) = p.names
              /\ Stops(Append(s, p)) = {} <=>
                   /\ p.names = "" /\ Len(s) + 1 < MaxProbeChunks
                   /\ Bytes(s, Len(s)) + p.size < MaxProbeBytes
<1> DEFINE q == Append(s, p)
           l == Len(s) + 1
<1>1. /\ q \in Seq(Pieces) /\ DOMAIN q = 1..l /\ Len(s) \in Nat /\ DOMAIN s = 1..Len(s)
      /\ q[l] = p /\ \A i \in 1..Len(s) : q[i] = s[i]
  BY AppendProperties, LenProperties
<1>2. /\ Bytes(q, l) = Bytes(s, Len(s)) + p.size /\ Bytes(s, Len(s)) \in Int /\ p.size \in Int
      /\ \A n \in 1..Len(s) : Bytes(q, n) = Bytes(s, n)
  BY BytesGrow, PieceFields
<1> HIDE DEF q
<1>3. ASSUME NEW n \in 1..Len(s)  PROVE n \in Stops(q) <=> n \in Stops(s)
  <2>1. n \in DOMAIN q /\ n \in DOMAIN s /\ q[n] = s[n] /\ Bytes(q, n) = Bytes(s, n)
    BY <1>1, <1>2
  <2> QED
    BY <2>1, Zenon DEF Stops
<1>4. Stops(q) \subseteq 1..l /\ Stops(s) \subseteq 1..Len(s) /\ l \in Nat
  <2>1. Stops(q) \subseteq DOMAIN q /\ Stops(s) \subseteq DOMAIN s
    BY DEF Stops
  <2> QED
    BY <1>1, <2>1
<1>5. ASSUME Stops(s) # {}  PROVE Stops(q) # {} /\ Named(q) = Named(s)
  <2>1. PICK m \in Stops(s) : \A n \in Stops(s) : m <= n
    BY <1>5, NamedByStops
  <2>2. m \in 1..Len(s) /\ m \in Stops(q)
    BY <1>3, <1>4, <2>1
  <2>3. \A n \in Stops(q) : m <= n
    BY <1>1, <1>3, <1>4, <2>1, <2>2
  <2>4. Named(q) = q[m].names /\ Named(s) = s[m].names
    BY <1>1, <2>1, <2>2, <2>3, NamedByStops
  <2> QED
    BY <1>1, <2>2, <2>4
<1>6. ASSUME Stops(s) = {}  PROVE Named(q) = p.names
  <2>1. Stops(q) \subseteq {l}
    BY <1>1, <1>3, <1>4, <1>6
  <2>2. CASE l \in Stops(q)
    BY <1>1, <1>4, <2>1, <2>2, NamedByStops
  <2>3. CASE l \notin Stops(q)
    <3>1. Stops(q) = {} /\ l \in DOMAIN q
      BY <1>1, <2>1, <2>3
    <3>2. p.names = ""
      BY <1>1, <2>3, <3>1 DEF Stops
    <3> QED
      BY <1>1, <3>1, <3>2, NamedByStops
  <2> QED
    BY <2>2, <2>3
<1>7. ASSUME Stops(s) = {}
      PROVE  Stops(q) = {} <=> /\ p.names = "" /\ l < MaxProbeChunks
                               /\ Bytes(s, Len(s)) + p.size < MaxProbeBytes
  <2>1. Stops(q) = {} <=> l \notin Stops(q)
    BY <1>1, <1>3, <1>4, <1>7
  <2>2. l \in DOMAIN q /\ MaxProbeChunks \in Int /\ MaxProbeBytes \in Int
    BY <1>1, ProbeAssumption
  <2>3. l \notin Stops(q) <=>
          ~(p.names # "" \/ l >= MaxProbeChunks \/ Bytes(q, l) >= MaxProbeBytes)
    BY <1>1, <2>2 DEF Stops
  <2>4. (l >= MaxProbeChunks <=> ~(l < MaxProbeChunks))
        /\ (Bytes(q, l) >= MaxProbeBytes <=> ~(Bytes(s, Len(s)) + p.size < MaxProbeBytes))
    BY <1>1, <1>2, <2>2
  <2> QED
    BY <2>1, <2>3, <2>4
<1> QED
  BY <1>5, <1>6, <1>7 DEF q

-----------------------------------------------------------------------------
(* What the verdict rests on: while it is open, the probe holds the whole     *)
(* text and its size, and no piece of it decides; once the attempt is         *)
(* committed and may go on, a piece has decided.                              *)
Probing ==
  /\ pc \in {"start", "read"} => ~done
  /\ pc \in {"start", "drain"} => buffered = <<>>
  /\ pc = "start" => probed = 0
  /\ pc = "read" /\ ~committed /\ expect # "none" =>
       /\ Stops(received) = {} /\ Len(received) < MaxProbeChunks
       /\ probed = Bytes(received, Len(received)) /\ probed < MaxProbeBytes

Accepted ==
  /\ committed => Acceptable
  /\ committed /\ expect # "none" /\ ~done => Stops(received) # {}
  /\ outcome = "mismatch" => ~Acceptable

VInv == Probing /\ Accepted /\ ProbeBounded

LEMMA VerdictInitially == Init => VInv
<1> SUFFICES ASSUME Init  PROVE VInv
  OBVIOUS
<1>1. Probing
  BY DEF Init, Probing
<1>2. Accepted
  BY DEF Init, Accepted
<1>3. ProbeBounded
  <2>1. buffered = <<>> /\ Len(buffered) = 0
    BY EmptySequence DEF Init
  <2> QED
    BY <2>1, ProbeAssumption DEF ProbeBounded
<1> QED
  BY <1>1, <1>2, <1>3 DEF VInv

(* A payload arrives.                                                         *)
LEMMA ReadJudges ==
  ASSUME IInv, VInv, NEW p \in Pieces, NEW last \in BOOLEAN, Read(p, last)
  PROVE  VInv'
<1>1. /\ pc = "read" /\ outcome = "none" /\ received' = Append(received, p) /\ done' = last
      /\ expect' = expect /\ received \in Seq(Pieces) /\ buffered \in Seq(Pieces)
      /\ expect \in {"none", "tolerant", "strict"} /\ ~done
  BY ExpectationsAssumption DEF Read, VInv, Probing, IInv, TypeOK, Phase
<1>2. CASE committed \/ expect = "none"
  <2>1. /\ committed' = TRUE /\ pc' = "emit"
        /\ UNCHANGED <<outcome, buffered, probed>>
    <3>1. <<p>> # <<>>
      BY AppendSequence
    <3> QED
      BY <1>2, <3>1 DEF Read, Commit
  <2>2. Probing'
    BY <2>1 DEF Probing
  <2>3. expect # "none" => Stops(received') # {} /\ Named(received') = Named(received)
    BY <1>1, <1>2, NextPiece DEF VInv, Accepted
  <2>4. Acceptable'
    BY <1>1, <1>2, <2>3 DEF VInv, Accepted, Acceptable
  <2>5. Accepted'
    BY <1>1, <2>1, <2>3, <2>4 DEF Accepted
  <2>6. ProbeBounded'
    BY <2>1 DEF VInv, ProbeBounded
  <2> QED
    BY <2>2, <2>5, <2>6 DEF VInv
<1>3. CASE ~committed /\ expect # "none"
  <2> DEFINE held == Append(buffered, p)
             bytes == probed + p.size
  <2>1. /\ buffered = received /\ Stops(received) = {} /\ Len(received) < MaxProbeChunks
        /\ probed = Bytes(received, Len(received)) /\ probed < MaxProbeBytes
    BY <1>1, <1>3 DEF IInv, HeldBack, VInv, Probing
  <2>2. /\ held = received' /\ Len(held) = Len(received) + 1 /\ held[Len(held)] = p /\ held # <<>>
        /\ Last(held) = p /\ Len(received) \in Nat
    BY <1>1, <2>1, AppendProperties, LenProperties DEF Last
  <2>3. /\ Named(held) = p.names
        /\ Stops(held) = {} <=>
              p.names = "" /\ Len(received) + 1 < MaxProbeChunks /\ bytes < MaxProbeBytes
    BY <1>1, <2>1, NextPiece
  <2>4. /\ bytes = Bytes(held, Len(held)) /\ bytes \in Int /\ probed \in Int /\ p.size \in Int
        /\ bytes - p.size = probed
    <3>1. Bytes(received, Len(received)) \in Int
          /\ Bytes(Append(received, p), Len(received) + 1) = Bytes(received, Len(received)) + p.size
      BY <1>1, BytesGrow
    <3>2. p.size \in Int
      BY PieceFields
    <3>3. bytes = Bytes(held, Len(held))
      BY <2>1, <2>2, <3>1
    <3>4. probed \in Int
      BY <2>1, <3>1
    <3>5. bytes \in Int /\ bytes - p.size = probed
      BY <3>2, <3>4
    <3> QED
      BY <3>2, <3>3, <3>4, <3>5
  <2>5. ProbeFull(held, bytes) <=> ~(Len(received) + 1 < MaxProbeChunks /\ bytes < MaxProbeBytes)
    BY <2>2, <2>4, ProbeAssumption DEF ProbeFull
  <2>6. buffered' = held /\ probed' = bytes /\ Probe(p, last)
    BY <1>3 DEF Read, Probe
  <2>7. ProbeBounded'
    <3>1. Len(held) <= MaxProbeChunks
      BY <2>1, <2>2, ProbeAssumption
    <3>2. probed' - Last(buffered').size < MaxProbeBytes
      BY <2>1, <2>2, <2>4, <2>6
    <3> QED
      BY <2>6, <3>1, <3>2 DEF ProbeBounded
  <2> HIDE DEF held, bytes
  <2>8. p.names \in {"", "same", "other"}
    BY PieceFields
  <2>9. CASE p.names = "other"
    <3>1. pc' = "leave" /\ outcome' = "mismatch" /\ committed' = committed
      BY <2>6, <2>9 DEF Probe, Reject
    <3>2. ~Acceptable'
      BY <1>1, <1>3, <2>2, <2>3, <2>9 DEF Acceptable
    <3>3. Probing' /\ Accepted'
      BY <1>3, <3>1, <3>2 DEF Probing, Accepted
    <3> QED
      BY <2>7, <3>3 DEF VInv
  <2>10. CASE p.names = "same"
    <3>1. pc' = "emit" /\ outcome' = outcome /\ committed' = TRUE
      BY <2>2, <2>6, <2>10 DEF Probe, Commit, held
    <3>2. Acceptable'
      BY <1>1, <2>2, <2>3, <2>10 DEF Acceptable
    <3>3. Stops(received') # {}
      BY <2>2, <2>3, <2>10
    <3>4. Probing' /\ Accepted'
      BY <1>1, <3>1, <3>2, <3>3 DEF Probing, Accepted
    <3> QED
      BY <2>7, <3>4 DEF VInv
  <2>11. CASE p.names = "" /\ (last \/ ProbeFull(held, bytes))
    <3>1. Concluded(held)
      BY <2>6, <2>11 DEF Probe, held, bytes
    <3>2. CASE expect = "strict"
      <4>1. pc' = "leave" /\ outcome' = "mismatch" /\ committed' = committed
        BY <3>1, <3>2 DEF Concluded, Reject
      <4>2. ~Acceptable'
        BY <1>1, <2>2, <2>3, <2>11, <3>2 DEF Acceptable
      <4>3. Probing' /\ Accepted'
        BY <1>3, <4>1, <4>2 DEF Probing, Accepted
      <4> QED
        BY <2>7, <4>3 DEF VInv
    <3>3. CASE expect # "strict"
      <4>1. pc' = "emit" /\ outcome' = outcome /\ committed' = TRUE
        BY <2>2, <3>1, <3>3 DEF Concluded, Commit
      <4>2. Acceptable'
        BY <1>1, <1>3, <2>2, <2>3, <2>11, <3>3 DEF Acceptable
      <4>3. ~last => Stops(received') # {}
        BY <2>2, <2>3, <2>5, <2>11
      <4>4. Probing' /\ Accepted'
        BY <1>1, <4>1, <4>2, <4>3 DEF Probing, Accepted
      <4> QED
        BY <2>7, <4>4 DEF VInv
    <3> QED
      BY <3>2, <3>3
  <2>12. CASE p.names = "" /\ ~last /\ ~ProbeFull(held, bytes)
    <3>1. UNCHANGED <<pc, outcome, committed, pending>>
      BY <2>6, <2>12 DEF Probe, held, bytes
    <3>2. Stops(held) = {} /\ Len(held) < MaxProbeChunks /\ bytes < MaxProbeBytes
      BY <2>2, <2>3, <2>5, <2>12
    <3>3. Probing'
      <4>1. Stops(received') = {} /\ Len(received') < MaxProbeChunks
        BY <2>2, <3>2
      <4>2. probed' = Bytes(received', Len(received')) /\ probed' < MaxProbeBytes
        BY <2>2, <2>4, <2>6, <3>2
      <4> QED
        BY <1>1, <2>12, <3>1, <4>1, <4>2 DEF Probing
    <3>4. Accepted'
      BY <1>1, <1>3, <3>1 DEF Accepted
    <3> QED
      BY <2>7, <3>3, <3>4 DEF VInv
  <2> QED
    BY <2>8, <2>9, <2>10, <2>11, <2>12
<1> QED
  BY <1>2, <1>3

(* The stream ends.                                                           *)
LEMMA ReadEndJudges ==
  ASSUME IInv, VInv, ReadEnd
  PROVE  VInv'
<1>1. /\ pc = "read" /\ outcome = "none" /\ done' = TRUE
      /\ UNCHANGED <<expect, received, buffered, probed>> /\ received \in Seq(Pieces)
      /\ expect \in {"none", "tolerant", "strict"}
  BY ExpectationsAssumption DEF ReadEnd, IInv, TypeOK, Phase
<1>2. ProbeBounded'
  BY <1>1 DEF VInv, ProbeBounded
<1>3. Acceptable' <=> Acceptable
  BY <1>1 DEF Acceptable
<1>4. CASE committed
  <2>1. committed' = TRUE /\ pc' = "leave" /\ outcome' = "delivered"
    BY <1>4 DEF ReadEnd, Commit
  <2>2. Probing' /\ Accepted'
    BY <1>1, <1>3, <1>4, <2>1 DEF Probing, Accepted, VInv
  <2> QED
    BY <1>2, <2>2 DEF VInv
<1>5. CASE ~committed
  <2>1. expect # "none" => Named(received) = ""
    BY <1>1, <1>5, NamedByStops DEF VInv, Probing
  <2>2. CASE expect = "strict"
    <3>1. pc' = "leave" /\ outcome' = "mismatch" /\ committed' = committed
      BY <1>5, <2>2 DEF ReadEnd, Concluded, Reject
    <3>2. ~Acceptable'
      BY <1>3, <2>1, <2>2 DEF Acceptable
    <3>3. Probing' /\ Accepted'
      BY <1>5, <3>1, <3>2 DEF Probing, Accepted
    <3> QED
      BY <1>2, <3>3 DEF VInv
  <2>3. CASE expect # "strict"
    <3>1. pc' \in {"leave", "emit"} /\ outcome' \in {outcome, "delivered"} /\ committed' = TRUE
      BY <1>5, <2>3 DEF ReadEnd, Concluded, Commit
    <3>2. Acceptable'
      BY <1>1, <1>3, <2>1, <2>3 DEF Acceptable
    <3>3. Probing' /\ Accepted'
      BY <1>1, <3>1, <3>2 DEF Probing, Accepted
    <3> QED
      BY <1>2, <3>3 DEF VInv
  <2> QED
    BY <2>2, <2>3
<1> QED
  BY <1>4, <1>5

LEMMA JudgedAlready ==
  ASSUME VInv, UNCHANGED <<expect, received, committed, done, buffered, probed>>,
         outcome' # "mismatch" \/ outcome' = outcome, pc' # "start",
         pc' = "drain" => pc = "drain",
         pc' = "read" => pc = "read" \/ (~done /\ (committed \/ expect = "none"))
  PROVE  VInv'
<1>1. Acceptable' <=> Acceptable
  BY DEF Acceptable
<1>2. Probing'
  BY DEF VInv, Probing
<1>3. Accepted'
  BY <1>1 DEF VInv, Accepted
<1>4. ProbeBounded'
  BY DEF VInv, ProbeBounded
<1> QED
  BY <1>2, <1>3, <1>4 DEF VInv

(* Every other step.                                                          *)
LEMMA OthersJudge ==
  ASSUME IInv, VInv, [Next]_vars,
         ~ReadEnd, ~ \E p \in Pieces, last \in BOOLEAN : Read(p, last)
  PROVE  VInv'
<1>1. ASSUME NEW cause \in Causes, Refuse(cause) \/ DrainFails(cause) \/ ReadFails(cause)
      PROVE  VInv'
  <2>1. /\ UNCHANGED <<expect, received, committed, done, buffered, probed>>
        /\ outcome' # "mismatch" /\ pc' \in {"decide", "leave"}
    BY <1>1 DEF Refuse, DrainFails, ReadFails, Failing, attemptVars
  <2> QED
    BY <2>1, JudgedAlready
<1>2. ASSUME NEW p \in Pieces, NEW last \in BOOLEAN, Drain(p, last)
      PROVE  VInv'
  <2>1. /\ pc = "drain" /\ ~committed /\ buffered = <<>> /\ outcome = "none"
        /\ pc' \in {"drain", "leave"} /\ outcome' \in {"none", "failed"}
        /\ UNCHANGED <<committed, buffered>>
    BY <1>2 DEF Drain, IInv, Phase, VInv, Probing
  <2>2. Probing' /\ Accepted'
    BY <2>1 DEF Probing, Accepted
  <2>3. ProbeBounded'
    BY <2>1 DEF VInv, ProbeBounded
  <2> QED
    BY <2>2, <2>3 DEF VInv
<1>3. CASE Open
  <2>1. /\ pc = "start" /\ ~committed /\ received = <<>> /\ buffered = <<>> /\ probed = 0
        /\ pc' \in {"read", "drain"} /\ outcome = "none" /\ ~done
        /\ UNCHANGED <<expect, received, committed, done, buffered, probed, outcome>>
    BY <1>3 DEF Open, attemptVars, IInv, Phase, HeldBack, VInv, Probing
  <2>2. Stops(received) = {} /\ Len(received) = 0 /\ Bytes(received, Len(received)) = 0
    <3>1. received \in Seq(Pieces) /\ Len(received) = 0 /\ DOMAIN received = {}
      BY <2>1, EmptySequence
    <3>2. Stops(received) = {}
      BY <3>1 DEF Stops
    <3> QED
      BY <3>1, <3>2, NoBytes
  <2>3. Probing'
    BY <2>1, <2>2, ProbeAssumption DEF Probing
  <2>4. Accepted'
    BY <2>1 DEF Accepted
  <2>5. ProbeBounded'
    BY <2>1 DEF VInv, ProbeBounded
  <2> QED
    BY <2>3, <2>4, <2>5 DEF VInv
<1>4. CASE Emit
  <2>1. /\ UNCHANGED <<expect, received, committed, done, buffered, probed>>
        /\ pc = "emit" /\ committed
        /\ \/ pc' = "emit" /\ outcome' = outcome
           \/ pc' = "leave" /\ outcome' = "delivered"
           \/ pc' = "read" /\ outcome' = outcome /\ ~done
    BY <1>4 DEF Emit, IInv, Phase, TypeOK
  <2> QED
    BY <2>1, JudgedAlready
<1>5. CASE EmitFails \/ Leave
  <2>1. /\ UNCHANGED <<expect, received, committed, done, buffered, probed>>
        /\ pc' \in {"leave", "decide"} /\ outcome' \in {outcome, "broken"}
    BY <1>5 DEF EmitFails, Leave, attemptVars
  <2> QED
    BY <2>1, JudgedAlready
<1>6. CASE Again
  <2>1. /\ pc' = "start" /\ ~committed' /\ ~done' /\ buffered' = <<>> /\ probed' = 0
        /\ outcome' = "none" /\ Len(<<>>) = 0
    BY <1>6 DEF Again
  <2>2. Probing' /\ Accepted'
    BY <2>1 DEF Probing, Accepted
  <2>3. ProbeBounded'
    BY <2>1, ProbeAssumption DEF ProbeBounded
  <2> QED
    BY <2>2, <2>3 DEF VInv
<1>7. CASE Complete \/ Abort
  <2>1. /\ UNCHANGED <<expect, received, committed, done, buffered, probed, outcome>>
        /\ pc' = "ended"
    BY <1>7 DEF Complete, Abort, attemptVars
  <2> QED
    BY <2>1, JudgedAlready
<1>8. CASE UNCHANGED vars
  <2>1. VInv' <=> VInv
    BY <1>8 DEF vars, attemptVars, VInv, Probing, Accepted, Acceptable, ProbeBounded
  <2> QED
    BY <2>1
<1> QED
  BY <1>1, <1>2, <1>3, <1>4, <1>5, <1>6, <1>7, <1>8 DEF Next

LEMMA Judged == Spec => []VInv
<1>1. IInv /\ VInv /\ [Next]_vars => VInv'
  BY ReadJudges, ReadEndJudges, OthersJudge
<1> QED
  BY <1>1, VerdictInitially, Invariance, PTL DEF Spec

(* The client reads only text whose model was accepted, and only a model that *)
(* was not is rejected, judged by the whole text: the probe, cut by its two   *)
(* limits, by chunks and by the end of the stream, decides the same.          *)
THEOREM AlwaysRight == Spec => []VerdictRight
<1>1. IInv /\ VInv => VerdictRight
  BY DEF IInv, HeldBack, VInv, Accepted, VerdictRight
<1> QED
  BY <1>1, Invariance, Judged, PTL

(* What an attempt holds back stays within the probe limits.                  *)
THEOREM AlwaysBounded == Spec => []ProbeBounded
<1>1. VInv => ProbeBounded
  BY DEF VInv
<1> QED
  BY <1>1, Judged, PTL
==============================================================================
