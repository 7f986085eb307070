------------------------------ MODULE HostCall -------------------------------
(* How one callback into the host ends (callHost and decodeHostResponse in    *)
(* main.go, upstreamError in host.go): with an answer, an error, or a         *)
(* cancellation.  Errors lose their Go identity at the boundary; what the     *)
(* engine sees is read back from an envelope.  Pure operators.                *)
EXTENDS Detect

(* "missing": no bytes; "garbled": no envelope; "refused": an envelope that is*)
(* not OK and has no error; "illegible": OK with a result that is not decoded.*)
Forms == {"missing", "garbled", "refused", "error", "illegible", "ok"}

(* failed: the C call returned another code than 0.  status and msg are those *)
(* of the envelope's error, or the result's own (msg is then its body).       *)
HostReplies == [form : Forms, failed : BOOLEAN, status : Nat, msg : Messages]

(* Only the exact text of a context error counts, and only where the host     *)
(* gives no upstream status.                                                  *)
Cancellation(h) ==
  /\ h.form = "error"
  /\ h.status \in {0, 499}
  /\ "cancelled" \in h.msg.marks

Answer(h) == h.form = "ok" /\ ~h.failed /\ h.status < 400

IsError(h) == ~Cancellation(h) /\ ~Answer(h)

(* The status and message of an UpstreamError; any other error has no status  *)
(* and a message of the plugin's own.  A cancellation is one of those where   *)
(* it is taken for an error, after a stream was committed.                    *)
ErrorOf(h) ==
  IF h.form = "error"
  THEN [status |-> IF Cancellation(h) THEN 0 ELSE h.status, msg |-> h.msg]
  ELSE IF h.form = "ok" /\ ~h.failed
  THEN [status |-> h.status, msg |-> h.msg]
  ELSE [status |-> 0, msg |-> Plain]
==============================================================================
