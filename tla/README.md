# OrangeGuard in TLA+

OrangeGuard is a plugin of the proxy cpa (CLIProxyAPI). It merges upstream
models under new names ("virtual models", groups), fails over between them,
keeps models that failed out for a while, and refuses answers of a model that
was silently substituted for the requested one. This directory holds TLA+
modules of its stateful parts and of the pure decisions they rest on, TLC
instances of them, and proofs checked by TLAPS.

## 1. Inventory

| component | state | operations | hard because |
|---|---|---|---|
| routing engine `internal/engine` | configuration pointer, round-robin counters, active counter; per request: snapshot, budgets, path of groups | `Claims`, `Execute`, `ExecuteStream` (`buildPlan`, `availability`, `order`, `consumeAttempt`, `finalFailure`) | recursion through groups shares budgets, guards and verdicts; requests interleave on counters and cooldown; configurations change meanwhile |
| cooldown table `internal/cooldown` | per model: deadline, reason, strikes per kind | `Until`, `RecordSuccess`, `RecordFailure`, `Reset`, `Snapshot` | callers with different configurations; backoff, hints, cap and overflow |
| error classification `internal/detect/errors.go` | none | `Classify`, `Failover`, `RetryAfter`, `IsHostCooldown` | an error is classified again by every group above, from another status and a wrapped message |
| identity checks `internal/detect/model.go` | none | `ProcessingModel`, `Matches`, `isVersionSuffix`, `Check` | namespaces, alias prefixes and snapshots are the same model, versions are not |
| streaming attempt `streamOnce` and `executeStream` | pieces held back, probe, committed, host and client streams | open, drain, read, probe, commit, emit, close | every host call may fail; the verdict depends on where the naming event is cut |
| host adapter and ABI `host.go`, `main.go`, `plugin.go` | none | callbacks and their envelopes | an error loses its identity at the boundary and is read back from text and status |
| configuration `internal/config` | the accepted configuration | `Parse` (`validateManual`, `validateGroups`, `normalize`), `FindGuard`, `Glob` | a depth search with a memo, in map order; checks before and after normalisation; a glob matcher that backtracks |
| catalog `internal/catalog` | catalog in memory, cache file, refresh state, mutex | `initialize`, `Refresh`, `persist`, `Status`, `Lookup` | overlapping refreshes, failing disks, crashes |
| monitor `internal/monitor` | per requested name: counts, served models, times | `Record`, `Reset`, `Snapshot` | two bounded tables with eviction; time is read outside the lock; two acceptable names |
| model registration `engine/models.go` | none | `ModelRegistration` | pure |
| management API `engine/management.go` | none of its own | status, resets, refresh | reads three stores one after the other |
| page `internal/ui` | none | | static |

How they interact. The host asks `Claims` who routes a model and later calls
`Execute` or `ExecuteStream` on threads of its own (a goroutine per stream).
The engine takes a snapshot of the configuration, reads and writes the cooldown
table through its mutex, and calls the host back for every upstream attempt. What
the host answers is read back by the adapter as an answer, an error or a
cancellation, classified, and compared with the expected model. `configure`
parses a new configuration and replaces the pointer. Usage records go to the
monitor. Operators reset cooldown and monitor and refresh the catalog.

What makes each correct:

* engine: no substituted answer reaches a client of a guarded leaf; budgets hold
  at every level; cancellations and commits end the whole tree; a parent makes
  of its child's failure what the child made of it; round-robin is even; a
  subtree that has a ready leaf is not missed; requests are answered.
* cooldown: a deadline is capped, has a cause, is only ever extended, and honours
  the reset time a message names.
* identity: what the README's table calls the same model is accepted, and no other.
* streaming: the client reads one accepted attempt, whole, in order, and is told
  how it ended; host streams are closed; buffers are bounded.
* configuration: what is installed has no cycle or excessive depth; nothing is
  refused without a cause, and a refusal changes nothing; manual groups find
  their member, models their guard rule.
* catalog: never older within a process, durable across crashes, honest status.
* monitor: exact counts and rates whatever is evicted.

`PROJECT.json` lists the hazards line by line, with the property that covers
each or the reason why none does.

## 2. Modules

| module | models | kind |
|---|---|---|
| `Detect` | `Classify`, `Failover`, `RetryAfter`, `StatusForKind` | pure operators |
| `HostCall` | how a callback into the host ends; extends `Detect` | pure operators |
| `CooldownEntry` | one entry of the table, what a result does to it, and the settings `normalize` leaves; extends `Detect` | pure operators |
| `Cooldown` | the table: one action per locked operation, and the clock | specification |
| `Routing` | what a client of the engine is promised | abstract specification |
| `Engine` | requests as processes; extends `CooldownEntry` and `HostCall`, refines `Cooldown` (`Table == INSTANCE Cooldown`) and `Routing` (`Client == INSTANCE Routing`) | specification |
| `ClientStream` | what a streaming client is promised | abstract specification |
| `StreamDelivery` | `streamOnce`, the attempts around it and `executeStream`; refines `ClientStream` | specification |
| `ModelNames` | names as tokens, `Glob`, `ModelGlob`, namespaces | pure operators |
| `Configure` | `Parse` and `configure`, submission after submission, and `FindGuard`; extends `ModelNames` | specification |
| `Identity` | `Matches`, `isVersionSuffix`, `Check`, and the README's table as a reference; extends `ModelNames` | pure operators |
| `Catalog` | refreshes, the disk and crashes | specification |
| `Monitor` | the recorder; extends `Identity` | specification |
| `CooldownProofs`, `EngineProofs`, `RoutingProofs`, `StreamDeliveryProofs`, `ConfigureProofs`, `CatalogProofs`, `MonitorProofs` | | theorems |
| `Sums` | induction on sets and numbers, sums over finite sets, remainders | lemmas |
| `MC...` | values for TLC | instances |

Operators introduced as a *faulty form* (`Uncapped`, `HeldNow`, `LeaveOpen`...)
are not used by any specification. They are plausible bugs, named beside the
operator they would replace; `PROJECT.json` "mutants" says which property finds
each.

### Detect and HostCall

A message is the set of *markers* the code looks for (`quota`, `not_found`,
`refusal`, `cancelled`, ...) with the numbers a hint or a reset time names. `Classify`
keeps the order of the code's tests: status first where it decides, then the
markers. Some markers count only when they are the whole message (`WholeMarks`),
so wrapping a message loses them. `RetryAfter` takes the first
usable hint: a duration in a field, an instant that has not passed, then prose. `HostCall` says which envelope is an answer, a
cancellation (only the exact text of a context error, and only without an
upstream status) or an error, and with which status and message.

### Engine

`req[r]` is one client request: its control point, the snapshot (`snap`) and
`remaining` (`left`) of `executionState`, and a stack with one frame per running
call of `Execute`. A frame holds the plan (`scan`: members still to look at,
`look`: the leaves of the member at hand still to read, `soon`: the earliest
recovery seen among them, `cooling`: members found cooling, `targets`: the plan
from the target at hand on), the loop's `try` and `attempts`, the last failure
and the group's `attemptBudget`.

| step | code |
|---|---|
| `Claim` | `Claims`; the host's later call of the executor is `Enter...` |
| `EnterRefused`, `EnterGroup`, `EnterDirect` | `active.Add(1)`, `prepareExecution`, `order` (the counter) |
| `FindReady`, `LookFurther`, `FindCooling` | one read of the table by `availability`, on the way through `buildPlan`'s loop, and its last part after the last member (`Planned`) |
| `Descend`, `Call`, `Exhaust`, `GiveUp` | the loop over targets up to the host call, and its end |
| `Served`, `Broken`, `Retry`, `Substituted`, `Fail`, `Cancel` | what follows the host's reply |
| `Finish`, `FailOver`, `PassUp` | the return to the host or to the parent group |
| `Reconfigure`, `ResetCooldown`, `Tick` | `configure`, the management reset, time |

Steps end where another goroutine could be seen: at the configuration pointer,
the counters, the active counter, each locked read or write of the table, and
the host. Execute and ExecuteStream share the control; `stream` decides whether
a reply may break after a commit.

A failure keeps its code, status and markers. A parent classifies its child's
failure from these, as the code does: the status may be one made up for the
client (`StatusForKind`), and the message wraps the last one in a sentence that
names the group, whose name may itself contain markers (`NameMarks`). The field
`kind` is history: what the error was where it arose.

Abstractions:

* In the engine the identity check is reduced to *same*, *other* or *missing*, and
  expectations to *none*, *tolerant*, *strict*; `Identity` has the check itself.
* The messages of the engine's own failures carry no markers of their own, and
  names of leaves carry none: at these statuses no word would make or unmake a
  client error where the message is fixed.
* Codes the host supplies are not the engine's own (`group_cycle`, ...).
* Weighted and random order are any permutation.
* Only single models are reset by hand; a reset of all is an action of `Cooldown`.

### Cooldown

One action per method. `Unrepresentable` is what Go may give for a float64
beyond the range of `time.Duration`; `MaxDuration` is that range. The multiplier
is a whole number, although the code allows fractions. `Clamped` is what
`normalize` makes of the numbers an operator writes: it replaces zero and
negative ones where they make no sense (`config.go:291`) and bounds none from
above. So the base seconds and `max_seconds` may be beyond the range of a
Duration, where `time.Duration(n) * time.Second` wraps (`AsDuration`), for the base
before the backoff multiplies it. An entry that exists but never failed equals an absent one; the
counters shown on the page are left out.

### StreamDelivery

`pc` follows `streamOnce`; `attempt` counts the attempts of `ExecuteStream`.
A piece says whether a model is named once it is in, how large it is, so
`actual` stays what it was found to be, and whether it is nothing but white space.
A cancellation is a host call that returned a context error; an error inside a
chunk is a cause `error`. Chunks without payload change nothing unless they end
the stream (`ReadEnd`).

`worded` says whether the failure at hand has a text: an error reply has that of
its body (`Drain`), an error of the host its own, if any (`blank`).
`closePluginStream` trims it, and the host tells an error from a success by this
text alone (`Closed`). `Abort` ends with the failure as it is, as for a directly
guarded model, or wrapped in the words of a group, which are never blank.

### Configure, ModelNames and Identity

A configuration is submitted, searched and installed or refused, and then the
next one: the active configuration stays when a submission is refused. `stack`
is the path of `visit`, each group with the members not yet looked at; `checked`
is `checkedDepth`. The roots come in any order, as Go's map iteration gives them;
so do members, which the code takes in list order (the model allows more).
`Default` is what the decoder starts from. Guard rules keep their pattern, their
own retries and their word on missing models; `FindGuard` takes the first that
matches.

A name is a sequence of tokens: words, numbers with their count of digits,
separators and namespaces. `Glob` is the matcher of the code with its one point
of return, as a recursive function whose domain is all states a match can be in; `?` matches a token here, a byte in the code.
`CoversModel` says what a pattern means without a matcher, and `SameModel` is the
README's table read apart from the code. That a response names its model where
`ProcessingModel` looks is taken for granted.

### Catalog

One step per critical section, file operation and network call. A process that
dies leaves the files as they are. A machine that loses power may also lose the
last rename, because the directory is not synced, or keep it with a torn file if
the content was not synced. Syncing a file is taken to settle earlier renames,
as journaling file systems do. `promised` is what was reported as refreshed and
cached; `secured` is what of it the last sync has settled, and when a rename is
lost with the power no more than that is still promised: so the code is held to
process crashes at any step and to torn files, not to a rename that it never
syncs. The cache may be unreadable at a start (`Initialize` then takes the embedded
snapshot), and a temporary file may resist its removal, whose error the code
ignores (`stuck`).

### Monitor

A usage has the executed model and, if the client used one, its alias; both are
acceptable, and the entry is that of the name the client asked for. `Record` takes
its time before the lock, so an entry may be stored with any time up to now. Ties
among the least frequent names and the oldest entries are broken in any way, as
map iteration does. `truth` is history: what was really reported.

## 3. Runs

| run | bounds | shows |
|---|---|---|
| `cooldown` | one model, 4 configurations (thresholds 2 and 3, a base and a cap beyond the range, one switched off), 5 messages, 3 instants, 3 strikes | caps, thresholds, reasons, monotone deadlines, exact reset times |
| `cooldown_overflow` (violated) | a range of 7 units, 3 strikes | backoff beyond the range leaves no cooldown |
| `engine_nested` | one request, streaming or not, trees of up to 3 groups and one that inverts them, 8 kinds of reply, one group with a misleading name, budget 3 | guards, budgets, verdicts kept across levels, snapshots, refinement of `Routing` |
| `engine_concurrent` | two requests (symmetric), a shared rotated group | counters, and refinement of `Cooldown` |
| `engine_cooling` | one request, any table over 4 leaves, read leaf by leaf; a tree without shared leaves, a cycle, a chain too deep | ready leaves come first, cooling ones not at all; requests end |
| `stream` | 2 attempts of 4 pieces, blank ones too, probe of 2 pieces / 3 bytes | delivery, verdict, bounds, refinement, closing |
| `stream_cancelled` (violated) | 2 attempts of 2 pieces | a cancellation lost while draining |
| `configure` | all graphs of 3 groups, 2 groups with settings, all pairs of entries of 2 names, pairs of 8 rule patterns against 8 names; depth limit 2; then two more submissions, again and again | the search is sound and complete, refusals change nothing, manual selections and guard rules hold |
| `configure_hidden` (violated) | 3 entries of 2 names | a duplicate hides a cycle |
| `catalog` | 2 refreshers, 3 versions, 2 crashes, one file that cannot be removed | order, durability, honesty, the mutex |
| `monitor` | 4 usages of 3 names for 2 entries, 3 served names for 2 places, 3 records per entry | exact rates, by the README's meaning of the same model |
| `monitor_bump` (violated) | the same with a version number followed by a date | another version passes for the same model |

Why the bounds are enough. A tree of three levels has an inner group that is
both child and parent, the only shape `Execute` distinguishes; budgets of 1 to 5
end before, at and after the calls of a plan. Two requests suffice for every
pair of steps on a counter or an entry. A probe of two pieces and three bytes is
reached by number, by size, by both and by neither within four pieces. Depth 2
and three groups give chains below, at and beyond the limit and a group shared
by two paths. Two rules suffice for an order between them, and the patterns have
a wildcard before, after and between the tokens that repeat in the names. Two
crashes allow one during the recovery from the other. Three strikes reach the
larger threshold and pass the smaller one, for callers of either; a range of 100
units lies between the backoffs in range and the configured 150. Three names for two
entries, and three served names for two places, make both evictions happen.

`CHECK_DEADLOCK FALSE` stands only in the two runs of `StreamDelivery`, which
ends when the client's stream is closed. The engine rests in an explicit step
(`Rest`), and a configuration that was settled is followed by another.

Violated properties state what the repository's README says and are listed under
"findings" with the quoted line. `FailureCools`, `ActiveSound` and `RateExact` are
also checked where they hold: within the range of a Duration, for lists in which
a later duplicate does not hide a reference to a group, and for served names
without a version number followed by a date.

More consequences of the code are visible in the models without a run of their own:

* A leaf that a child group and its parent share is called again by the parent
  although it just started cooling, since a plan is not looked at again
  (`CoolingSkipped` is checked without shared leaves).
* A substitution is not charged when a budget refuses the next try of the same
  leaf (`Exhaust` leaves it in `owed`).
* A nested group's budget that is used up exactly is not told from one that
  refused a call: `GiveUp` reports `attempt_budget_exhausted` and ends the tree,
  although the last status was there to be reported. The README asks for the last
  status in one place (line 218) and for the end of the tree in another (222).
* A group whose own name contains a marker makes a parent take a plain client
  error for another kind, so that it is failed over.
* `max_seconds` is not bounded from above. Beyond the range of a Duration
  (9.2e9 seconds) it wraps, and where the result is not positive no failure starts a
  cooldown at all, although README line 259 calls it an upper limit (`Punished`
  excludes it from `FailureCools`; `WrittenCapDecides` says exactly when).
* A failure whose text is blank, such as an error reply without a body for a model
  that is guarded directly, closes the client's stream with the very call that ends
  a success (`plugin.go:238`), although the comment above `closePluginStream`'s use
  says that the close error becomes the client's error event. `ClientTold` allows
  this case (`Silent`) and no other.
* A cache that cannot be read at a start is not reported: the process goes on
  with the embedded snapshot, which may be older than what it had.
* A served name that was dropped from the monitor's list returns with a count of
  one, so the list need not hold the most common names.

### Fairness

* `Engine` (`engine_cooling`): weak fairness of each request's own steps and of the
  host's reply. `Execute` runs to its end on its goroutine without waiting for
  others (the table's mutex is held for bounded sections), and a host callback
  returns with an answer, an error or a cancellation. Nothing is assumed of
  `Claim`, `Reconfigure`, `ResetCooldown` and `Tick`.
* `StreamDelivery`: weak fairness of the goroutine. The number of pieces is
  bounded, that is, the host is taken to end every stream: the code has no
  timeout of its own.
* `Catalog`: weak fairness of a refresh that has begun; the fetch has a timeout
  of 45 s and file operations return.

## 4. Proofs

The theorems hold for every value of the constants that satisfies the named
assumptions in the modules.

* `CooldownProofs`. The inductive invariant is `TypeOK`, `DeadlineCapped` and
  `ReasonRecorded` together. Lemmas bound each operator of `CooldownEntry`
  (`HintedBounds`, `CappedBounds`, `ExtendedEntry`) and `FailedEntry` combines
  them: a failure either leaves the deadline, or sets it within the caller's cap
  with the failed kind, counted once at least and to the threshold. `ReasonRecorded`
  needs strikes that only fall when the deadline falls.
  `NeverShortened`, `HostHintOnlyExtends` and `ResetTimeExact` follow from types
  and the lemmas. So does `FailureCools` (`AlwaysCools`) under the hypothesis
  `BackoffInRange`, that no backoff which `MaxStrikes` failures can reach leaves
  the range of a Duration: without it the property is false
  (`cooldown_overflow`). The prover takes `x ^ y` for an unknown, so the
  hypothesis says of the powers all that is used of them. Its core is
  `CapDecides`: a due failure with a backoff in range cools just when the cap, as a
  Duration, is positive. `WrittenCapDecides` says it of the settings an operator may
  write, whatever their size (`ClampedUsable`: what `normalize` leaves satisfies the
  assumption on configurations).
* `EngineProofs`. One inductive invariant, `IInv` (theorem `InOrder`), carries
  the three safety theorems and the refinement. It says of every request:
  * `Sound`: calls made and calls left make the safety budget, and at every frame
    the calls below it and its remaining budget stay within `max_attempts`
    (`Accounted`); every answer and last failure is `Honest`, that is, its code is
    known, an upstream's error has an upstream behind it, and its verdict agrees
    with its origin. `WithinBudgets` is not inductive without the remaining budget,
    nor `JudgedAlike` without the failures kept in frames.
  * `Placed`: what each control point implies about the stack, the leaf asked and
    the answer.
  * `Owing`: an uncharged substitution is that of the leaf at hand, which will be
    asked again while attempts are left; this is what makes `ChargedBeforeMovingOn`
    hold across levels.
  * `Stopping`: after a stop the request only returns, and no group on the path
    would go on with its answer. Without it a step that passes the answer up could
    not be told from one that fails over.

  There is one lemma per action (`...Moves`), which shows both that the invariant
  is kept and how the client's view advances, and one that combines them
  (`NextMoves`). The lemmas on answers use `ClientErrors`, which says when
  `Classify` finds a client error: exactly at some statuses and without a
  misleading marker. From it, `WrappingKeepsVerdict`: whatever status is shown and
  however the message is wrapped, a parent finds a client error only where the
  child did, and exactly there if the group's name does not mislead it.
* `RoutingProofs` has what rests on `IInv` and needs more.
  * `Routes`: the engine implements `Routing`. What a move does to the view of one
    request is one of `Take`, `Ask`, `Deliver`, `Refuse`, `Close` or nothing; facts
    about records (`PhaseSet`, `CallSet`, `OutcomeSet`) connect it with the
    abstract steps.
  * `InPlace` adds `FInv`, how calls fit the configuration they run under: every
    target of a frame is a member of its group with that member's expectation
    (`Belongs`), every frame but the first is the group its parent's plan has
    reached (`Chained`), an answer about to be returned passed the check of the
    leaf at hand, guards above included (`Checkable`), and `active` is the sum of
    the stacks' lengths. Again one lemma per action (`...Fits`). From it follow
    `NeverSubstituted` (a guard of any level is part of what the leaf was checked
    for), `AlwaysBalanced`, and `NeverClashes`: the path of a request that would
    meet a cycle or too deep a group is a chain that `WellNested` excludes, because
    all of it is in one snapshot.
  * `AlwaysEven`: per group there is a number of rounds `b`, so that each member
    came first `b` or `b + 1` times, the latter up to the counter's remainder. The
    hypothesis `SteadyRotation` says that configurations agree on the members of
    groups that rotate; when a reload changes them the counter goes on, and
    nothing is promised.
  * `UsesTable`: the engine implements `Cooldown`. Its invariant `CInv` bounds the
    strikes of every leaf by the calls that came back, a sum over the requests
    that each failure makes larger, so the abstract table's `MaxStrikes` never
    stops a step of the engine. The table must start empty (`Histories` of
    `engine_concurrent`, not of `engine_cooling`). `Same...` lemmas say that the
    operators of the instance are those of `CooldownEntry`.
  * `AlwaysTyped` adds `TypeInv`: types as sets of records (`Frames`,
    `RequestTypes`), and that a plan being built has made no attempt, which is why
    a frame never has more attempts than its quota when the plan is made. One
    lemma per action (`...Shaped`). What it needs of the operators: that `Quota`, a
    fold, is a number (`QuotaTyped`), that whatever a conversion of durations gives
    an entry stays one (`FailedTyped`), and that `Looks` gives leaves
    (`LooksAtLeaves`, in `EngineProofs`). That one is a recursive function on pairs of
    a name and the groups above it; `LooksSolved` shows by induction on the room
    left below `MaxGroupDepth` that it has a solution, hence that the recursion of
    `availability` ends on every configuration, cyclic ones too.
* `StreamDeliveryProofs`. `NothingLostOrLeaked` is not inductive. `IInv` adds `Phase`
  (what each control point implies about `committed`, `pending`, `outcome` and
  `client`) and `HeldBack`: before the commit the pieces received are those
  held back and nothing was emitted; after it, what was emitted followed by what
  is pending is what was received. `EndsTold` is the safety half of `ClientTold`: a
  stream that was closed was told right; that it is closed stays with TLC. `StreamsClosed` is inductive with
  `TypeOK`. The refinement `ClientSpec` maps `Emit` to `Say` and the two ends to
  `Close`; every other step stutters, `Again` because the client has read
  nothing when it is enabled. `VerdictRight` and `ProbeBounded` need `VInv`: the
  probe's count is that of the pieces held back, and the verdict at hand is that
  of the pieces received so far.
* `ConfigureProofs`. The invariant of the search (`Search`) is about its memo.
  `MemoClosed`: what the memo says of a group at a depth it says of the groups
  below it one level further down, so a group that is skipped was looked at with
  as much below it; `Looked`: the members of a group on the path that are passed
  are fine or the next of the path; `RootsCovered`: so are the roots passed. When
  no root is left every group is in the memo, and along any chain the memo's
  depths grow while they stay below the limit: no chain is too long (`SearchEnds`),
  and none returns to itself (`CycleChains`: a cycle has chains of every length).
  A refusal is justified by the path itself (`CycleJustified`, `DepthJustified`,
  `TunedJustified`). `Running` remembers what the search established of the list
  the running configuration came from. `AlwaysSound` has the hypothesis `Unhidden`,
  that no later entry of the same name hides the members of one that is kept:
  without it `ActiveSound` is false (`configure_hidden`).

  The second half is about the matcher. `GlobRight`: `Glob` finds a match exactly
  where the tokens between the stars can be laid along the name (`Covers`), for
  every pattern and every name without a `*` of its own, which the code would
  take for the pattern's. `GlobSolved` shows that the recursion ends, because each
  step lets `Progress` grow, and turns it into one equation. That one point of
  return is enough is `SinceStar`: if the rest of the pattern can be laid
  anywhere, it can be laid after the first place where what stands between the
  last two stars fits (`StarExtended`, `Mismatch`). `AlwaysGuarded` needs besides
  that the rules installed are the submission's rules that have a pattern, in
  their order (`KeptPicks`), and that `FindGuard` takes the first of them that
  matches (`FoundIsMeant`).
* `CatalogProofs`. `Alone` (one refresher at a time, in a process that runs),
  `Whole` (only synced files are renamed over the cache), `Newest` and `Stored`
  (what a refresher holds is no older than what is promised), `Kept` (what is
  promised is in the file that a process crash leaves, what is secured in the one
  that a power failure may bring back) and `Honest`, `Littered` about
  the report and the temporary files, each of which needs the ones before it.
* `MonitorProofs`. The counts of an entry are sums over all answers it has seen
  (`truth`), although served names are dropped from its list and entries from the
  table: what is dropped was added to `requests`, `reported` and `mismatches` when
  it was seen. `AlwaysExact` has the hypothesis that `Check` and the README's table
  judge the usages at hand alike; the values of `monitor` satisfy it, those of
  `monitor_bump` do not.
* `Sums`. Induction over data is possible here if the property is given as the
  *set* of the values that have it: `InductionOnSubsets` and `InductionOnNat` rest
  on the library's minimal members of well-founded orders, not on its theorems
  with an operator as parameter. `SumGrows` and `SumSame` follow, and with them the
  proofs about counters above. They are lemmas of those proofs, not results about
  the program.

Hypotheses beyond the modules' assumptions are stated in the theorems:
`SteadyRotation` (`AlwaysEven`), an empty table (`UsesTable`), `Unhidden`
(`AlwaysSound`), agreement of `Judged` and `Substitution` (`AlwaysExact`),
`BackoffInRange` (`AlwaysCools`). The assumptions that `Requests` is finite and
that a group has a member once are in `Engine`; the second is what `normalize`
ensures. `Configure` assumes that the names clients ask for have no `*`
(`RequestedAssumption`).

Only model-checked:

* liveness (`Answered`, `ClientTold`, `MutexFreed`), which is beyond this prover;
* `ReadyFirst` and `CoolingSkipped`, which hold for one request at a time
  and for trees without shared leaves, not in general: between the look at a leaf
  and its call another request may put it in cooldown.

## 5. Plan

Done: `Cooldown`, `StreamDelivery` and `Engine` with proofs, `Routing` and its
refinement with a proof, `Detect` with proofs, `HostCall`, `Configure` with
`ModelNames`, `Catalog`, `Monitor` with `Identity`.

What could come next, models:

1. `Status`: the management report as a reader of configuration, table and
   availability, step by step, against the entries other requests write. No
   document promises that it is consistent, so there is no property for it yet.
2. `Monitor`: the sets of aliases and executed models and their bound.
3. The catalog's status reader between swap and result.

Theorems:

1. `CoolingSkipped`, then `ReadyFirst`, for one request and trees without shared
   leaves, the case in which they hold.

## 6. Not modelled

* `ProcessingModel` (finding the model's name in a body), weights, capabilities,
  YAML, warnings: data the properties do not tell apart.
* The status report and the catalog's status reader: nothing reads them back.
* The monitor's sets of aliases and executed models: they influence no count.
* Model registration: pure, no promise beyond its formatting.
* JSON and C memory of the ABI, the management page, deployment files, the
  embedded snapshot.
* Panics: the executor's goroutine recovers from them and closes the client's
  stream.
