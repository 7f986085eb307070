---------------------------- MODULE ClientStream -----------------------------
(* What a streaming client is promised: it reads the text of one single       *)
(* attempt, piece by piece, until the stream is closed once, as complete or   *)
(* with an error.  Attempts that were rejected or failed leave no trace.      *)
EXTENDS Naturals, Sequences

CONSTANTS
  Pieces,       \* what a stream may carry
  MaxAttempts   \* attempts one request may make

VARIABLES
  text,         \* what the client has read
  voice,        \* the attempt it comes from, 0 before the first piece
  end           \* "open", then how the stream was closed

vars == <<text, voice, end>>

Init == text = <<>> /\ voice = 0 /\ end = "open"

Say(a, p) ==
  /\ end = "open" /\ voice \in {0, a}
  /\ text' = Append(text, p)
  /\ voice' = a
  /\ UNCHANGED end

Close(how) == end = "open" /\ end' = how /\ UNCHANGED <<text, voice>>

Next ==
  \/ \E a \in 1..MaxAttempts, p \in Pieces : Say(a, p)
  \/ \E how \in {"complete", "error"} : Close(how)

Spec == Init /\ [][Next]_vars
==============================================================================
