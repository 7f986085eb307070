------------------------------ MODULE Cooldown -------------------------------
(* The cooldown table shared by every request (internal/cooldown/store.go).   *)
(* Each operation runs under the table's mutex, so each is one action.  A     *)
(* caller passes the configuration of its own request snapshot, so after a    *)
(* reload calls with different configurations interleave.                     *)
EXTENDS CooldownEntry

CONSTANTS
  Models,       \* upstream model names, compared without case
  Configs,      \* cooldown configurations a caller may hold
  Reports,      \* the upstream messages considered
  MaxTime,      \* bound on the clock
  MaxStrikes    \* bound on the consecutive failures of one kind

ASSUME ConfigsAssumption == Configs \subseteq CooldownConfigs
ASSUME ReportsAssumption == Reports \subseteq Messages

VARIABLES
  now,          \* the clock
  entries       \* Store.entries

vars == <<now, entries>>

TypeOK == now \in Nat /\ entries \in [Models -> Entries]

Init == now = 1 /\ entries = [m \in Models |-> Fresh]

Tick == now < MaxTime /\ now' = now + 1 /\ UNCHANGED entries

(* A faulty form of RecordSuccess: the strike table is dropped and never made *)
(* again.                                                                     *)
RecordSuccessWithoutTable(m) ==
  entries' = [entries EXCEPT ![m] = [Fresh EXCEPT !.strikes = [k \in {} |-> 0]]]
  /\ UNCHANGED now

RecordSuccess(m) == entries' = [entries EXCEPT ![m] = Fresh] /\ UNCHANGED now

RecordFailure(m, k, msg, c, ov) ==
  /\ \A j \in CoolingKinds : entries[m].strikes[j] < MaxStrikes
  /\ entries' = [entries EXCEPT ![m] = Failed(@, c, k, msg, now, ov)]
  /\ UNCHANGED now

Reset(m) == entries' = [entries EXCEPT ![m] = Fresh] /\ UNCHANGED now

ResetAll == entries' = [m \in Models |-> Fresh] /\ UNCHANGED now

Next ==
  \/ Tick
  \/ ResetAll
  \/ \E m \in Models :
       \/ RecordSuccess(m)
       \/ Reset(m)
       \/ \E k \in Kinds, msg \in Reports, c \in Configs, ov \in Unrepresentable :
            RecordFailure(m, k, msg, c, ov)

Spec == Init /\ [][Next]_vars

Cooling(m) == UntilAt(entries[m], now) # 0

-----------------------------------------------------------------------------
(* No model is ever kept out longer than some caller's cap, whatever the      *)
(* strikes, the hints in messages and the reloads: RecordFailure applies the  *)
(* cap last and the clock never runs backwards.  A max_seconds beyond the     *)
(* range of a Duration wraps, and then is no longer the cap it says.          *)
DeadlineCapped ==
  \A m \in Models :
    Cooling(m) => \E c \in Configs : entries[m].until <= now + AsDuration(c.max)

(* A running cooldown has a reason (Snapshot publishes it), and failures of   *)
(* that kind were counted since the last success: one at least, and for       *)
(* server errors as many as the server_error_threshold of some caller asks.   *)
ReasonRecorded ==
  \A m \in Models : Cooling(m) =>
    LET k == entries[m].kind
    IN  /\ k \in CoolingKinds
        /\ entries[m].strikes[k] >= 1
        /\ k = "server_error" =>
             \E c \in Configs : c.on /\ entries[m].strikes[k] >= c.threshold

(* A running cooldown is only ever lengthened, or dropped whole (with its     *)
(* strikes) by a success or a reset: a short rate-limit cooldown never        *)
(* replaces a longer quota cooldown.                                          *)
NeverShortened ==
  [][\A m \in Models :
       entries'[m].until < entries[m].until => entries'[m] = Fresh]_vars

(* The failures that must start a cooldown, where the configured seconds fit  *)
(* a Duration: server errors from the threshold on, any other kind at once.   *)
Punished(c, k, s) ==
  /\ c.on
  /\ k = "server_error" => s >= c.threshold
  /\ c.base[k] \in 1..MaxDuration
  /\ c.max <= MaxDuration

(* A failure that leaves its model ready is one that the configuration of its *)
(* caller does not punish: no number of strikes, no hint and no earlier       *)
(* failure may turn the duration of a due cooldown into nothing.              *)
FailureCools ==
  [][\A m \in Models, k \in CoolingKinds :
       /\ entries'[m].strikes[k] > entries[m].strikes[k]
       /\ UntilAt(entries'[m], now) = 0
       => \A msg \in Reports, c \in Configs, ov \in Unrepresentable :
            RecordFailure(m, k, msg, c, ov) => ~Punished(c, k, entries'[m].strikes[k])]_vars

(* A reset time the host reports about its own credentials never makes the    *)
(* cooldown shorter than the same failure without it, in any table state.     *)
HostHintOnlyExtends ==
  \A m \in Models, k \in Kinds, msg \in Reports, c \in Configs, ov \in Unrepresentable :
    IsHostCooldown(msg) => Failed(entries[m], c, k, msg, now, ov).until
                             >= Failed(entries[m], c, k, Plain, now, ov).until

(* An upstream that says when its quota resets is left alone until just then, *)
(* or up to the cap, unless it already is for longer: not a moment less,      *)
(* whatever the backoff.  (The cap is a number that a Duration can hold.)     *)
ResetTimeExact ==
  \A m \in Models, msg \in Reports, c \in Configs, ov \in Unrepresentable :
    /\ c.on /\ c.honor /\ c.max <= MaxDuration /\ ~IsHostCooldown(msg)
    /\ msg.seconds = 0 /\ msg.at > now
    =>
    LET granted == IF msg.at > now + c.max THEN now + c.max ELSE msg.at
        e == Failed(entries[m], c, "quota", msg, now, ov)
    IN  e.until = IF granted > entries[m].until THEN granted ELSE entries[m].until
==============================================================================
