--------------------------- MODULE StreamDelivery ----------------------------
(* One streaming request on its way to the client: the goroutine of           *)
(* executeStream (plugin.go) and the attempts ExecuteStream makes through     *)
(* streamOnce (internal/engine/engine.go).  An attempt's text is held back    *)
(* until the model behind it is accepted.  Every call to the host (open,      *)
(* read, emit, close) is a step that may fail.                                *)
(*                                                                            *)
(* Which target comes next and what is charged is module Engine's; here a     *)
(* failed or rejected attempt may be followed by another or be the last.      *)
(* Left out: payload-less chunks that do not end a stream, which change       *)
(* nothing.                                                                   *)
EXTENDS SequencesExt

CONSTANTS
  Pieces,          \* payloads: whether a model is named once this one is in,
                   \* its size, and whether it is nothing but white space
  Expectations,    \* what targets expect
  MaxProbeChunks,  \* 32
  MaxProbeBytes,   \* 256 KiB
  MaxAttempts,     \* bound on the attempts
  MaxPieces        \* bound on an attempt's pieces

ASSUME PiecesAssumption ==
  Pieces \subseteq {p \in [names : {"", "same", "other"}, size : Nat \ {0},
                         blank : BOOLEAN] : p.blank => p.names = ""}
ASSUME ExpectationsAssumption == Expectations \subseteq {"none", "tolerant", "strict"}
ASSUME ProbeAssumption == MaxProbeChunks \in Nat \ {0} /\ MaxProbeBytes \in Nat \ {0}
ASSUME AttemptsAssumption == MaxAttempts \in Nat \ {0} /\ MaxPieces \in Nat

VARIABLES
  pc,           \* where the goroutine is
  attempt,      \* the number of the attempt at hand
  expect,       \* what its target expects
  upstream,     \* the attempts' host streams
  received,     \* history: the attempt's payloads so far
  buffered,     \* those held back
  probed,       \* bytes in the probe, or drained from an error body
  committed,    \* whether the attempt's text is released
  pending,      \* payloads released and not yet emitted
  done,         \* whether the last chunk has been read
  outcome,      \* streamOnce's result
  worded,       \* whether the error it comes with has a text
  emitted,      \* what reached the client's stream
  client,       \* the client's stream
  cancelled     \* history: a host call said that the client went away

attemptVars == <<received, buffered, probed, committed, pending, done>>
clientVars == <<emitted, client>>
vars == <<pc, attempt, expect, upstream, attemptVars, outcome, worded, clientVars, cancelled>>

(* How a host call may fail: an error, one without a text, or the client left.*)
Causes == {"error", "blank", "cancelled"}

Outcomes == {"none", "failed", "cancelled", "mismatch", "delivered", "broken"}

Init ==
  /\ pc = "start" /\ attempt = 1
  /\ expect \in Expectations
  /\ upstream = [a \in 1..MaxAttempts |-> "none"]
  /\ received = <<>> /\ buffered = <<>> /\ probed = 0
  /\ committed = FALSE /\ pending = <<>> /\ done = FALSE
  /\ outcome = "none" /\ worded = FALSE
  /\ emitted = <<>> /\ client = "open"
  /\ cancelled = FALSE

-----------------------------------------------------------------------------
(* Opening the host's stream.  A refusal and an empty id leave nothing to     *)
(* close, so the attempt goes straight to the loop in ExecuteStream.          *)
Failing(cause) == IF cause = "cancelled" THEN "cancelled" ELSE "failed"

Refuse(cause) ==
  /\ pc = "start"
  /\ pc' = "decide" /\ outcome' = Failing(cause) /\ worded' = (cause # "blank")
  /\ cancelled' = (cancelled \/ cause = "cancelled")
  /\ UNCHANGED <<attempt, expect, upstream, attemptVars, clientVars>>

Open ==
  /\ pc = "start"
  /\ pc' \in {"read", "drain"}     \* "drain" for a status of 400 or more
  /\ upstream' = [upstream EXCEPT ![attempt] = "open"]
  /\ UNCHANGED <<attempt, expect, attemptVars, outcome, worded, clientVars, cancelled>>

(* Collecting the body of an error reply, up to the probe limit: all of it is *)
(* the error's text.  Faulty form: only its latest piece is.                  *)
DrainLatest(p, last) ==
  /\ pc = "drain" /\ Len(received) < MaxPieces
  /\ received' = Append(received, p)
  /\ probed' = probed + p.size
  /\ worded' = ~p.blank
  /\ IF last \/ probed' >= MaxProbeBytes
     THEN pc' = "leave" /\ outcome' = "failed"
     ELSE UNCHANGED <<pc, outcome>>
  /\ UNCHANGED <<attempt, expect, upstream, buffered, committed, pending, done, clientVars,
                 cancelled>>

Drain(p, last) ==
  /\ pc = "drain" /\ Len(received) < MaxPieces
  /\ received' = Append(received, p)
  /\ probed' = probed + p.size
  /\ worded' = (worded \/ ~p.blank)
  /\ IF last \/ probed' >= MaxProbeBytes
     THEN pc' = "leave" /\ outcome' = "failed"
     ELSE UNCHANGED <<pc, outcome>>
  /\ UNCHANGED <<attempt, expect, upstream, buffered, committed, pending, done, clientVars,
                 cancelled>>

(* Any error while draining, a cancellation included, only ends the body.     *)
DrainFails(cause) ==
  /\ pc = "drain"
  /\ pc' = "leave" /\ outcome' = "failed"
  /\ cancelled' = (cancelled \/ cause = "cancelled")
  /\ UNCHANGED <<attempt, expect, upstream, attemptVars, worded, clientVars>>

-----------------------------------------------------------------------------
(* Reading.                                                                   *)
ReadFails(cause) ==
  /\ pc = "read"
  /\ pc' = "leave" /\ outcome' = IF committed THEN "broken" ELSE Failing(cause)
  /\ worded' = (cause # "blank")
  /\ cancelled' = (cancelled \/ cause = "cancelled")
  /\ UNCHANGED <<attempt, expect, upstream, attemptVars, clientVars>>

Reject ==
  /\ pc' = "leave" /\ outcome' = "mismatch" /\ worded' = TRUE
  /\ UNCHANGED <<committed, pending>>

(* commit: what is held back goes out first.  With nothing to emit the loop   *)
(* is over; the faulty form waits for an emission that never comes.           *)
CommitEmitting(held) ==
  /\ committed' = TRUE /\ pending' = held
  /\ pc' = "emit" /\ UNCHANGED <<outcome, worded>>

Commit(held) ==
  /\ committed' = TRUE /\ pending' = held
  /\ IF held = <<>> THEN pc' = "leave" /\ outcome' = "delivered"
                    ELSE pc' = "emit" /\ UNCHANGED outcome
  /\ UNCHANGED worded

(* The end of a stream that was never committed.                              *)
Concluded(held) == IF expect = "strict" THEN Reject ELSE Commit(held)

(* Faulty forms: the limit on chunks is off by one; the last chunk is not     *)
(* counted.                                                                   *)
ProbeFullLate(held, bytes) == Len(held) > MaxProbeChunks \/ bytes >= MaxProbeBytes

ProbeFull(held, bytes) == Len(held) >= MaxProbeChunks \/ bytes >= MaxProbeBytes

Probe(p, last) ==
  LET held == Append(buffered, p)
      bytes == probed + p.size
  IN  /\ buffered' = held /\ probed' = bytes
      /\ CASE p.names = "other" -> Reject
           [] p.names = "same" -> Commit(held)
           [] p.names = "" /\ (last \/ ProbeFull(held, bytes)) -> Concluded(held)
           [] OTHER -> UNCHANGED <<pc, outcome, worded, committed, pending>>

(* A payload arrives: passed on when the attempt is committed or unguarded,   *)
(* probed otherwise.  Faulty forms: what was held back is forgotten; the      *)
(* piece goes out before the verdict.                                         *)
ReadForgetting(p, last) ==
  /\ pc = "read" /\ Len(received) < MaxPieces
  /\ received' = Append(received, p) /\ done' = last
  /\ IF committed \/ expect = "none" \/ p.names = "same"
     THEN Commit(<<p>>) /\ UNCHANGED <<buffered, probed>>
     ELSE Probe(p, last)
  /\ UNCHANGED <<attempt, expect, upstream, clientVars, cancelled>>

ReadUnprobed(p, last) ==
  /\ pc = "read" /\ Len(received) < MaxPieces
  /\ received' = Append(received, p) /\ done' = last
  /\ Commit(<<p>>) /\ UNCHANGED <<buffered, probed>>
  /\ UNCHANGED <<attempt, expect, upstream, clientVars, cancelled>>

Read(p, last) ==
  /\ pc = "read" /\ Len(received) < MaxPieces
  /\ received' = Append(received, p) /\ done' = last
  /\ IF committed \/ expect = "none"
     THEN Commit(<<p>>) /\ UNCHANGED <<buffered, probed>>
     ELSE Probe(p, last)
  /\ UNCHANGED <<attempt, expect, upstream, clientVars, cancelled>>

(* The last chunk, without a payload.                                         *)
ReadEnd ==
  /\ pc = "read"
  /\ done' = TRUE
  /\ IF committed THEN Commit(<<>>) ELSE Concluded(buffered)
  /\ UNCHANGED <<attempt, expect, upstream, received, buffered, probed, clientVars, cancelled>>

-----------------------------------------------------------------------------
(* Emitting.                                                                  *)
Emit ==
  /\ pc = "emit"
  /\ emitted' = Append(emitted, Head(pending))
  /\ pending' = Tail(pending)
  /\ CASE pending' # <<>> -> UNCHANGED <<pc, outcome>>
       [] pending' = <<>> /\ done -> pc' = "leave" /\ outcome' = "delivered"
       [] OTHER -> pc' = "read" /\ UNCHANGED outcome
  /\ UNCHANGED <<attempt, expect, upstream, received, buffered, probed, committed, done,
                 worded, client, cancelled>>

EmitFails ==
  /\ pc = "emit"
  /\ pc' = "leave" /\ outcome' = "broken" /\ worded' \in BOOLEAN
  /\ UNCHANGED <<attempt, expect, upstream, attemptVars, clientVars, cancelled>>

-----------------------------------------------------------------------------
(* streamOnce returns: the host's stream is closed.  Faulty form: a rejected  *)
(* one is left open.                                                          *)
LeaveOpen ==
  /\ pc = "leave"
  /\ pc' = "decide"
  /\ upstream' = IF outcome = "mismatch" THEN upstream
                 ELSE [upstream EXCEPT ![attempt] = "closed"]
  /\ UNCHANGED <<attempt, expect, attemptVars, outcome, worded, clientVars, cancelled>>

Leave ==
  /\ pc = "leave"
  /\ pc' = "decide"
  /\ upstream' = [upstream EXCEPT ![attempt] = "closed"]
  /\ UNCHANGED <<attempt, expect, attemptVars, outcome, worded, clientVars, cancelled>>

(* A failure before the commit, or another model, allows another attempt, the *)
(* same target's or the next one's.  Faulty form: so does a broken stream.    *)
RetryableEvenBroken == outcome \in {"failed", "mismatch", "broken"}

Retryable == outcome \in {"failed", "mismatch"}

Again ==
  /\ pc = "decide" /\ Retryable /\ attempt < MaxAttempts
  /\ attempt' = attempt + 1
  /\ expect' \in Expectations
  /\ pc' = "start" /\ outcome' = "none" /\ worded' = FALSE
  /\ received' = <<>> /\ buffered' = <<>> /\ probed' = 0
  /\ committed' = FALSE /\ pending' = <<>> /\ done' = FALSE
  /\ UNCHANGED <<upstream, clientVars, cancelled>>

(* closePluginStream: with a blank text it is the call that ends a success.   *)
Closed(text) == IF text THEN "error" ELSE "complete"

(* executeStream closes the client's stream when the engine returns.          *)
Complete ==
  /\ pc = "decide" /\ outcome = "delivered"
  /\ pc' = "ended" /\ client' = Closed(FALSE)
  /\ UNCHANGED <<attempt, expect, upstream, attemptVars, outcome, worded, emitted, cancelled>>

(* An error ends the request: as it is, or, a failure before the commit, in   *)
(* the words of the group that runs out of members or of budget.              *)
Abort ==
  /\ pc = "decide" /\ outcome # "delivered"
  /\ pc' = "ended"
  /\ \/ client' = Closed(worded)
     \/ outcome = "failed" /\ client' = Closed(TRUE)
  /\ UNCHANGED <<attempt, expect, upstream, attemptVars, outcome, worded, emitted, cancelled>>

Next ==
  \/ \E cause \in Causes : Refuse(cause) \/ DrainFails(cause) \/ ReadFails(cause)
  \/ \E p \in Pieces, last \in BOOLEAN : Drain(p, last) \/ Read(p, last)
  \/ Open \/ ReadEnd \/ Emit \/ EmitFails \/ Leave
  \/ Again \/ Complete \/ Abort

Spec == Init /\ [][Next]_vars

(* The goroutine runs to its end, and the host ends every stream it opens.    *)
FairSpec == Spec /\ WF_vars(Next)

-----------------------------------------------------------------------------
TypeOK ==
  /\ pc \in {"start", "drain", "read", "emit", "leave", "decide", "ended"}
  /\ attempt \in 1..MaxAttempts
  /\ expect \in Expectations
  /\ upstream \in [1..MaxAttempts -> {"none", "open", "closed"}]
  /\ received \in Seq(Pieces) /\ buffered \in Seq(Pieces) /\ pending \in Seq(Pieces)
  /\ emitted \in Seq(Pieces)
  /\ probed \in Nat
  /\ committed \in BOOLEAN /\ done \in BOOLEAN /\ cancelled \in BOOLEAN
  /\ worded \in BOOLEAN
  /\ outcome \in Outcomes
  /\ client \in {"open", "complete", "error"}
  /\ pc = "emit" => pending # <<>>

(* An attempt that fails or is rejected shows the client nothing, so that a   *)
(* later one can take over; and what the client has read is a beginning of    *)
(* what the attempt at hand received, all of it when it is complete: nothing  *)
(* is dropped, doubled or reordered between the held-back and the passed-on   *)
(* pieces.                                                                    *)
NothingLostOrLeaked ==
  /\ outcome \in {"none", "failed", "cancelled", "mismatch"} /\ ~committed => emitted = <<>>
  /\ IsPrefix(emitted, received)
  /\ outcome = "delivered" => emitted = received

(* A definition of the verdict that reads the text at once: only the pieces   *)
(* up to the first that names a model, or that fills the probe, count.        *)
Bytes(s, n) == MapThenSumSet(LAMBDA i : s[i].size, 1..n)

Named(s) ==
  LET stops == {n \in DOMAIN s : \/ s[n].names # ""
                                 \/ n >= MaxProbeChunks
                                 \/ Bytes(s, n) >= MaxProbeBytes}
  IN  IF stops = {} THEN "" ELSE s[Min(stops)].names

Acceptable ==
  \/ expect = "none"
  \/ Named(received) = "same"
  \/ Named(received) = "" /\ expect = "tolerant"

(* The client reads only text whose model was accepted, and only a model that *)
(* was not is rejected, wherever the naming event is cut by the probe limits, *)
(* the chunks and the end of the stream.                                      *)
VerdictRight ==
  /\ emitted # <<>> => Acceptable
  /\ outcome = "mismatch" => ~Acceptable

(* However long the stream and whatever it says, what an attempt holds back   *)
(* stays within the probe limits, by at most its last piece.                  *)
ProbeBounded ==
  /\ Len(buffered) <= MaxProbeChunks
  /\ buffered # <<>> => probed - Last(buffered).size < MaxProbeBytes

(* No host stream stays open behind a rejected, failed or delivered attempt.  *)
StreamsClosed ==
  \A a \in 1..MaxAttempts :
    upstream[a] = "open" => a = attempt /\ pc \in {"drain", "read", "emit", "leave"}

(* The client's promise, with the attempt that speaks made explicit.          *)
Client == INSTANCE ClientStream
            WITH text <- emitted, end <- client,
                 voice <- IF emitted = <<>> THEN 0 ELSE attempt

ClientSpec == Client!Spec

(* A failure that says nothing: the host's error has no text, or an error     *)
(* reply has a body without one.                                              *)
Silent ==
  /\ outcome \in {"failed", "broken"}
  /\ ~worded
  /\ committed \/ buffered # <<>> \/ \A i \in DOMAIN received : received[i].blank

Told ==
  \/ client = "complete" /\ (outcome = "delivered" \/ Silent)
  \/ client = "error" /\ outcome # "delivered"

(* Whatever fails, the client's stream is closed in the end, a success as     *)
(* complete and a failure with its error; but a failure that says nothing may *)
(* close it like a success, because the error is all that tells them apart.   *)
ClientTold == <>Told

(* README: a cancellation always ends the whole execution tree.  No attempt   *)
(* is made once a call to the host has said that the client went away.        *)
CancellationEnds == [][cancelled => attempt' = attempt]_vars
==============================================================================
