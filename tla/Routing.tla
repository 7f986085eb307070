------------------------------- MODULE Routing -------------------------------
(* What the client of the routing engine is promised, whatever groups, plans, *)
(* budgets and cooldowns do behind it: a request is answered with what one    *)
(* leaf said, or with one failure, and nothing is asked of any leaf after the *)
(* answer is settled.                                                         *)
EXTENDS Naturals

CONSTANTS
  Requests,
  Leaves,
  Codes,      \* the engine's own failures
  Budget,     \* leaf calls a request may make
  NoLeaf

VARIABLE view \* each request: its phase, the leaf calls made, the last leaf
              \* asked, and the outcome once it is final

None == [type |-> "none", code |-> "", by |-> NoLeaf]

Init == view = [r \in Requests |->
                  [phase |-> "idle", calls |-> 0, asked |-> NoLeaf, outcome |-> None]]

Take(r) == view[r].phase = "idle" /\ view' = [view EXCEPT ![r].phase = "running"]

Ask(r, m) ==
  /\ view[r].phase = "running" /\ view[r].calls < Budget
  /\ view' = [view EXCEPT ![r] = [view[r] EXCEPT !.calls = @ + 1, !.asked = m]]

Settle(r, outcome) ==
  /\ view[r].phase = "running"
  /\ view' = [view EXCEPT ![r] = [view[r] EXCEPT !.phase = "final", !.outcome = outcome]]

(* An answer, whole or broken off, is that of the leaf asked last.            *)
Deliver(r, type) ==
  view[r].calls > 0 /\ Settle(r, [None EXCEPT !.type = type, !.by = view[r].asked])

(* An upstream's error is passed on only if an upstream was asked.            *)
Refuse(r, code) ==
  /\ code = "upstream_error" => view[r].calls > 0
  /\ Settle(r, [None EXCEPT !.type = "failed", !.code = code])

Close(r) == view[r].phase = "final" /\ view' = [view EXCEPT ![r].phase = "done"]

Next ==
  \E r \in Requests :
    \/ Take(r)
    \/ \E m \in Leaves : Ask(r, m)
    \/ \E type \in {"delivered", "broken"} : Deliver(r, type)
    \/ \E code \in Codes \cup {"upstream_error"} : Refuse(r, code)
    \/ Close(r)

Spec == Init /\ [][Next]_view
=============================================================================
