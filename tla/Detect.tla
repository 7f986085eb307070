------------------------------- MODULE Detect --------------------------------
(* What the engine reads from an upstream's error (internal/detect/errors.go):*)
(* the kind of the failure and when to come back.  Pure operators, used by    *)
(* the cooldown table, by the routing engine, and by a parent group that      *)
(* classifies the failure its child reports a second time.                    *)
(*                                                                            *)
(* A message is what the code looks for in it: the markers it contains, and   *)
(* the numbers of its reset hints (0 for a hint that is absent or zero, which *)
(* the code treats alike).                                                    *)
EXTENDS Integers

CONSTANT MaxDuration      \* the largest time.Duration

ASSUME MaxDurationAssumption == MaxDuration \in Nat \ {0}

CoolingKinds ==
  {"quota", "rate_limit", "auth", "not_found", "server_error", "model_mismatch"}

Kinds == CoolingKinds \cup {"client_error"}

(* Markers: two say what the whole message is, "refusal" that it is "model    *)
(* execution failed with status N", "cancelled" that it is the text of one of *)
(* Go's context errors; "host" that the host's own credentials are cooling.   *)
WholeMarks == {"refusal", "cancelled"}

Marks == WholeMarks \cup {"unpriced", "quota", "rate", "auth", "not_found", "host"}

(* seconds: a JSON field with a duration (reset_seconds, retryDelay ...);     *)
(* at: resets_at, an instant; within: "in 20 minutes"; lasting: "1h30m".      *)
Messages ==
  [marks : SUBSET Marks, seconds : Nat, at : Nat, within : Nat, lasting : Nat]

Plain == [marks |-> {}, seconds |-> 0, at |-> 0, within |-> 0, lasting |-> 0]

-----------------------------------------------------------------------------
(* Classify: the status decides, where there is one; quota words outrank the  *)
(* kind of most statuses.                                                     *)
Unless(quota, kind) == IF quota THEN "quota" ELSE kind

Classify(status, marks) ==
  LET quota == "quota" \in marks
  IN  CASE "unpriced" \in marks \/ (status = 503 /\ "refusal" \in marks) -> "not_found"
        [] OTHER ->
           CASE status = 402 -> "quota"
             [] status = 429 -> Unless(quota, "rate_limit")
             [] status = 401 -> "auth"
             [] status = 403 -> Unless(quota, "auth")
             [] status = 404 -> "not_found"
             [] status = 408 \/ status >= 500 -> Unless(quota, "server_error")
             [] status \in (400..499) \ {401, 402, 403, 404, 408, 429} ->
                  Unless(quota, IF "not_found" \in marks THEN "not_found"
                                ELSE "client_error")
             [] OTHER -> Unless(quota, IF "rate" \in marks THEN "rate_limit"
                                       ELSE IF "not_found" \in marks THEN "not_found"
                                       ELSE IF "auth" \in marks THEN "auth"
                                       ELSE "server_error")

(* Kind.Failover.                                                             *)
FailsOver(kind, onClientError) == kind = "client_error" => onClientError

(* statusForKind: the status a client sees of an error that had none.         *)
StatusForKind(kind) ==
  CASE kind \in {"quota", "rate_limit"} -> 429
    [] kind = "auth" -> 403
    [] kind = "not_found" -> 404
    [] kind = "client_error" -> 400
    [] OTHER -> 502

Shown(status, kind) == IF status = 0 THEN StatusForKind(kind) ELSE status

-----------------------------------------------------------------------------
(* Converting n seconds from float64 gives ov when n is out of range; parsing *)
(* a duration such as "1h30m" fails then.                                     *)
Converted(n, ov) == IF n <= MaxDuration THEN n ELSE ov

(* Faulty form: the instant is taken for a duration.                          *)
RetryAfterInstant(msg, now, ov) ==
  IF msg.seconds > 0 THEN Converted(msg.seconds, ov) ELSE msg.at

(* RetryAfter: the first usable hint; an instant that has passed is not.      *)
RetryAfter(msg, now, ov) ==
  CASE msg.seconds > 0 -> Converted(msg.seconds, ov)
    [] msg.seconds = 0 /\ msg.at > now -> msg.at - now
    [] msg.seconds = 0 /\ msg.at <= now /\ msg.within > 0 -> Converted(msg.within, ov)
    [] OTHER -> IF msg.lasting <= MaxDuration THEN msg.lasting ELSE 0

IsHostCooldown(msg) == "host" \in msg.marks
==============================================================================
