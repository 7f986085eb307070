----------------------------- MODULE MCCooldown ------------------------------
(* Instances of Cooldown for TLC.                                             *)
EXTENDS Cooldown

Base(quota, rate, auth, missing, server, mismatch) ==
  [quota |-> quota, rate_limit |-> rate, auth |-> auth, not_found |-> missing,
   server_error |-> server, model_mismatch |-> mismatch]

(* Configurations as before and after reloads: they differ in the cap, the    *)
(* threshold, the backoff and whether hints count.  Flat switches the auth    *)
(* cooldown off with a negative auth_seconds and leaves the factor to         *)
(* normalize; seconds of 150 are beyond the range of a Duration here.         *)
Doubling == [on |-> TRUE, base |-> Base(2, 1, 1, 2, 1, 150), threshold |-> 3,
             multiplier |-> 2, max |-> 4, honor |-> TRUE]

Flat == [on |-> TRUE, base |-> Base(1, 2, -1, 1, 2, 1), threshold |-> 2,
         multiplier |-> 0, max |-> 2, honor |-> FALSE]

Endless == [Doubling EXCEPT !.max = 150]

Off == [Doubling EXCEPT !.on = FALSE]

MCConfigs == {Clamped(c) : c \in {Doubling, Flat, Endless, Off}}

MCOneConfig == {Clamped(Doubling)}

(* Hints within the caps and beyond them, from the upstream and the host, and *)
(* an instant that passes while the model runs, with prose to fall back on.   *)
MCReports ==
  {Plain, [Plain EXCEPT !.seconds = 3],
   [Plain EXCEPT !.at = 3, !.within = 1], [Plain EXCEPT !.at = 9],
   [Plain EXCEPT !.lasting = 3, !.marks = {"host"}]}

MCPlain == {Plain}

(* What amd64 gives for an out-of-range conversion, and what arm64 gives.     *)
MCSentinel == {-(MaxDuration + 1), MaxDuration}

MCOneSentinel == {-(MaxDuration + 1)}
==============================================================================
