# A verification of Tesera

Tesera guards calls that have side effects. `@guard` and `wrap_tool` record a signed decision
before the target runs and a signed outcome after it, in an append-only, hash-chained journal;
an idempotency key makes a call run at most once; policies and people decide whether it may run;
checkpoints, witnesses, an audit, an archive rotation and a verifier show that the journal is
whole. This directory holds TLA+ models of that code, the TLC configurations that check them, and
proofs that TLAPS checks. The sources are `src/src/tesera` (Python, the reference) and `src/ts/src`
(TypeScript).

## 1. Inventory

| component | state it keeps | operations | what makes it correct | module |
|---|---|---|---|---|
| engine (`engine.py`) | per process, the set of completed keys; per call, its locals | pre-check, approval, reservation, run, outcome, mark | a key runs once per release; the evidence is true; memory never runs ahead of disk | `Guard`, `Reservation` |
| journal (`journal.py`) | the file, its lock, the in-process index of keys, a pre-check cache | `append_event`, `append_event_atomic`, `append_checkpoint`, blocking and completed lookups | one chain, no acknowledged event lost, an index that never answers for another file | `Journal`, `JournalFile` |
| resolution (`resolve.py`) | none | append an operator's verdict on a decision | agrees with what the lookups and the audit do with it | `Guard` |
| audit (`audit.py`) | none | status of every decision, issues | never reads a run as better than it was | `Audit` |
| archive (`archive.py`) | archive files, the link at the head of each journal | archive, rollback, prune, verify the chain | no event lost, every link matches its file | `Rotation` |
| checkpoint, witness, countersign | checkpoint events, `.checkpoint` files, a witness directory | append, write, ship, audit, prune | a witness bounds the journal it was taken of | `Evidence` |
| verification (`verification.py`) | none | events, chain, witness | accepts what the writers write, rejects truncation | `Verification` |
| counting policies (`policy.py`) | counters and windows, in memory or in a state file | `decide` | limits hold under threads, restarts, kills and corrupt files | `Limits` |
| composed policies (`policy.py`) | none of their own | combine, quorum, attest, rules, freshness | nothing is allowed but on enough words | `Policies` |
| approval server, cache, timeout, observer | pending requests, cache entries, permits, announced contracts | register, await, decide, sweep, notify once | an allowance is an operator's; every call is answered | `Approvals` |
| identity (`identity.py`) | key files, trusted keys | load or create, rotate, register | every event verifies under a trusted key | `KeyHome` |
| canonical form, redaction, privacy, reconciliation | none across calls | canonicalize, redact, summarize, scrub, classify, compare | records hold nothing sensitive, readers never call better than it is | `Disclosure`, `Summary` |
| shipping (`shipping.py`) | none | fan out | a durable event that a sink refuses is not taken for lost | in `Guard` |
| TypeScript guard, journal, lock | lock file, in-process mutex and registry, reentry depth | the guarded call, append, checkpoint, claim, reclaim, release | one reservation per process; one chain | `SidecarGuard`, `SidecarLock` |
| contracts, schemas, wrapping, gateway, CLI, export | none across calls | declaration and adapters | outside this project | |

**How they interact.** A guarded call announces its contract, asks the policy, then appends
through the journal (or through the shipping wrapper) inside the journal's in-process lock and
file lock. Processes share nothing but files: the journal, archives, policy state, key files,
witnesses. Threads of a process share the completed set, the index and the policies' counters.
Operators act beside running calls: they resolve decisions, archive, checkpoint, rotate keys,
approve.

**What is hard.** Between two appends nothing is locked, so all a call has read may be stale
when it acts: the pre-check before the approval, the completed set in another thread. A
process may die between decision, target and outcome. An append may be durable and raise all
the same. Handles outlive renames. Files are truncated in place while others read them. A worker
outlives the caller that gave it up. A lock file is taken for abandoned while its owner is only
slow. `PROJECT.json` lists the hazards one by one with their lines and the properties that watch
them.

## 2. Modules and the code they model

### `Journal` — what the lookups read out of a journal

A journal is a sequence of events; an event's index stands for its id, its `ref` for
`decision_event_id` or `duplicate_of`. `Blocking(j, k)` is the set of decisions of key `k` that
`_scan_blocking_idempotent` would report: allowed, not a dry run, not failed, not cleared by the
latest resolution of a decision without an outcome. `Completed(j, k)` is that of
`find_completed_idempotent_decision`. `First` picks the one the code reports.

### `Guard` — the guarded call

| action | code in `engine.py` |
|---|---|
| `Begin` | binding of the arguments and the key |
| `LookUpCompleted`, `LookUpBlocking`, `DenyKnownDuplicate`, `PassPrecheck` | steps of the pre-check, each with the stale answer of the one before |
| `Approve` | the provider's answer, or its failure |
| `Reserve` | `append_event_atomic`: scan, re-check of the completed set and append under the file lock |
| `Recheck`, `AppendDecision` | the same for a store without it, and for calls without a key: two steps |
| `AppendFails`, `DecisionRaises` | an append that raises before, or after, the event is durable |
| `Run`, `Interrupt` | the target returns or raises; a `BaseException` leaves it |
| `RecordOutcome`, `OutcomeRaises`, `Mark` | the outcome, its loss, and the completed set with its eviction |
| `Crash` | a process dies and starts again |
| `Resolve` | `tesera resolve` beside all that |

State: `journal` is the file's events, `completed` the completed set of each process, `pc` and
`call` the locals of each thread; `runs` is a history variable, what the target really did.
The approval's duration, arguments, hashes and signatures are abstracted away. An append is one
step: this is what the two locks provide, and `JournalFile` is the model of the steps inside.
It holds of writes that are not cut short; `Guard` assumes that.

### `Reservation` — the abstract promise

A key is free, held or done; an attempt starts only on a free key and `done` is final. `Guard`
implements it through the mapping `Ledger`: the status of a key is what the lookups read out of
the journal.

### `Audit` — the audit as operators

Status of a decision, orphans, duplicate and contradictory outcomes and resolutions, duplicate
keys. `AuditedGuard` extends both `Guard` and `Audit` and states what the audit must say of the
journals the guard writes; `MCGuard` is its instance.

### `JournalFile` — one append, step by step

The file is a sequence of pieces, three to an event, so a write may stop in the middle. A process
takes the lock (`Acquire`), reads the tail and its index (`ReadState`, `GetTables`), reads the last
hash (`ReadTail`), buffers and flushes (`Write`, `Flush`), syncs (`Sync`), updates its index
(`Note`), releases the lock (`Unlock`) and closes the handle (`Close`), in that order: the code's
`finally` releases the lock before the `with` closes the file. `Faults` chooses among kills at any
step, failing syncs and full disks.

### `Rotation` — archives beside writers

Inodes, the directory entry of the live journal, the archive names and the modification times.
`Open` and `Write` are the writer's; `Stat`, `Claim`, `Rename`, `Settle`, `CheckRollback`, `Rollback`,
`OpenSuccessor`, `Link`, `Prune` are the steps of `archive_journal`; `Stop` is a death or an exception at any
of them. `Settle`, the count after the rename, may find the file changed or fail: both roll the archive back. `ChainFile` and `LinkHolds` are `verify_archive_chain`.

### `Limits` — providers that count

One behaviour is about one of the six providers. In memory (`Budget`, `SpendingBudget`, `RateLimit`) a
decision is one step under the provider's lock; in a file it is `LockState`, `ReadState` or
`DenyCorrupt`, `FileBudget`, `FileSpendingBudget` or `FileRateLimit` (write, deny, or fail to write), `Unlock`, under
a lock of threads and one of processes. Where the operating system's lock cannot be had, `_lock_exclusive` says so and the
decision goes on without it (`policy.py:518`): `LockState` takes that lock if it is free, or goes on in either case. Only the threads of one
process exclude each other then. `overlapped` remembers that two threads were inside at once in this way.
A sidecar file that cannot be made at all denies (`DenyUnavailable`). The rate limits read their clock in `Ask`, before any
lock. `Kill`, `Reboot` (the monotonic clock starts anew, at once), `Tick` and `Damage` (the file no longer parses) come
at any step; `since` is the real time at which the host last started, so that windows are of real time and span reboots.
An empty or missing state file counts as zero, as in `policy.py:567`; only contents that
do not parse fail closed.

### `Policies` — providers that are combined

| action | code in `policy.py` |
|---|---|
| `LoadPolicy` | `load_policy_file`: a file with anything unknown is refused as a whole |
| `Ask`, `Consult` | the engine's request, and one member's answer: rules, allow list, predicate, budget, freshness, a provider of the caller's |
| `AllowListDecision` | `AllowListProvider`: listed actions, of listed risks |
| `OfAll`, `OfAny`, `OfQuorum`, `Combined` | `CombinedProvider`, `QuorumApprovalProvider` |
| `Attest` | `AttestedApprovalProvider` with the approver of the environment at that moment |
| `Tick`, `SetBack`, `ShipWitness`, `LoseWitness`, `SetApprover` | the world between two members |

`PoliciesAssumption` is what the constructors accept (`policy.py:303`, `policy.py:349`): some members, of the six
kinds, a single one where nothing combines them, and a quorum between one and all of them.

### `Approvals` — people, caches and timeouts

A call passes `Arrive`, `Declare`/`DeclareFails`, `MarkDone` (`notify_once`); `Decide` or `Overloaded`, then `Answer` or `GiveUp`
(`TimeoutApprovalProvider`). Its worker passes `CacheLookup`, `CacheStore` (`CachedApprovalProvider`), and in between `Register`,
`Find`, `Decided` or `TimeOut`, `Pop` (`ApprovalServer`); `Release` gives the permit back. A thread that cannot
be started (`StartFails`) leaves its permit taken for ever, as `policy.py:279` does. `Operator` is the form of the
page, `Snapshot` the page, which sweeps. A worker whose caller gave up goes on with all of it,
and stores an allowance for later calls of the key. The cache is a
function from keys to entries with their expiry and their place: the code's dictionary keeps the order of
insertion, which decides who is evicted, and a key that is set again keeps its place. `history` records
whom an operator allowed, what was stored and what was declared.

### `KeyHome`, `Verification`, `Evidence` — what proves a journal whole

`KeyHome` is the identity's directory: `LoadKey`, `TruncateKey`, `WriteKey`, `Register`, `OpenTrusted`, `Enroll`, `ReadPrior`, `SkipPrior`, `EndRotation`,
`Kill`; a file between its truncation and its write is torn. To register a key is to look for its file (`Register`), to
truncate it (`OpenTrusted`) and to write it (`Enroll`), so a second process may truncate what the first has just
written. `SkipPrior` is the error that `rotate_key` swallows: the outgoing key may not be registered, and the record of
the rotation is signed with it all the same. `Verification` holds the verifier's checks as operators.
`Evidence` composes them: `Sign`, `RecordRotation`, `Checkpoint`, `ClearLocal` and `WriteLocal` (the witness beside the journal),
`CopyWitness`, `PlaceWitness`, `PlaceLatest` (shipping), `FindCheckpoint` and `Countersign`, `Archive`, `Prune`, and `Lose`, which cuts the journal's
tail. An event's id stands for its hash, so altering an event is not a step. Commands overlap and
are killed anywhere.

### `Disclosure` — what the records of a call tell

Arguments are a graph of values, with cycles, nesting and names in several spellings. `Decorate`,
`Decide`, `Succeed` or `Fail` write the records; `Inspect` and `Reconcile` read them. Texts are short sequences of
letters in which one may contain another; the markers are letters of their own. A provider answers a
reconciliation with any fields: the true text, the marker, or another text; both sides are compared as texts
(`reconcile.py:136`). Outside its properties: the idempotency key and the spend, which are recorded as given; the approval's
reason; values under ordinary names, which receipts keep; the names themselves, which stay though one may hold a pattern
(only values are looked at); errors that put around a value what a removed value contains
(`HeapAssumption`: no text holds the quote), or that quote more than two. Of a container under a sensitive name
the collected text is the container's own, so the strings inside it are not scrubbed from an error. A receipt
without fields matches any record.

### `Summary` — the one-line summary, written and read back

`BoundedSummary` renders every parameter as JSON, escapes, sorts, cuts each value and the line; `ParseExactSummary`
is the parser of `privacy.py:316`: a name up to the equals sign, which must be an identifier, the JSON value as the decoder finds its
end, a comma, and in the end no name twice, sorted names, and the very line when rendered again. It works on the text alone:
values may hold quotation marks, commas and equals signs, or look like a further parameter, and a cut may fall anywhere. A
letter is one token; escapes other than that of the quotation mark are not distinguished.

### `SidecarLock`, `SidecarGuard` — the TypeScript guard

| action | code in `ts/src` |
|---|---|
| `Enter`, `Claim`, `Record` | `withJournalLock`: reentry depth, `openSync("wx")` at once or after the sleep of a poll, `writeSync` of the record |
| `Stat`, `Read`, `Reclaim`, `GiveUp` | `readRecord`, `isStale` with `pidAlive` (`MayBeGone`), `tryUnlink`, the deadline |
| `Count`, `ReadTail`, `WriteEvent` | the critical sections of `appendEvent` and `checkpointJournal` |
| `Release`, `Drop` | the depth, the token, the unlink |
| `Age`, `Kill` | the file grows older than `staleAfterMs`; the process dies and its file stays |
| `Begin` ... `MarkCompleted`, `Interrupt` | `guard`: two reads of the pre-check, the approval, the mutex, two reads and an append under it, the target, its outcome, the registry |

A process is the set of its fibers. They interleave where a generator yields, never within one
tick (`Turn`). `process.kill(pid, 0)` asks the own host, whatever host the record names: with `OneHost` it finds exactly the
dead, without it any process of another host may look dead (`MayBeGone`). An error of `openSync` ends the call and
leaves the depth at 1, as a deadline does. A write cut short in the journal, and operators' resolutions, are left out here.

### MC modules and mutants

The MC modules hold constants and symmetry sets. A definition whose name ends in `_Something` after a definition's own name, marked "Mutant", is
that definition with a plausible bug; no specification uses it. It shows that the property listed
with it in `PROJECT.json` would notice.

## 3. Runs

Bounds are constants. `MaxEvents`, `MaxAppends` and the like end a behaviour where a real one would go on;
where that is a full journal, it behaves as a full disk (`AppendFails`), so cutting it short adds no
behaviour the code cannot have.

| run | instance | properties |
|---|---|---|
| `guard_threads` | two threads of a process that contend for two keys, of which it remembers one completed, and call without a key, dry; 4 events | `TypeOK`, `CompletedIsRecorded`, `EvidenceIsTrue`, `OneRunPerRelease`, `DuplicatesAreJustified` |
| `guard_ledger` | two processes, one key, 5 events | `AuditReadsTrue`, `DoubleSuccessIsFlagged`, `ImplementsReservation` |
| `file_append` | two processes, 4 appends, all faults | `TypeOK`, `AckedIsReadable`, `IndexIsExact` |
| `rotation` | a writer and two archivers, 4 events, 3 claims, with and without `--keep` | `TypeOK`, `QuiescedRotationIsSafe`, `LinksComeFirst` |
| `limits` | each of six providers; two threads and a second process, limit 2, window 2, clock to 2, 3 calls, a reboot, with and without the lock | `TypeOK`, `BudgetHolds`, `RateHolds` |
| `policies` | nine compositions, four files of rules, two threads, 2 calls, clock to 3 | `TypeOK`, `FailsClosed`, `GatesHold`, `BudgetCoversAllowed` |
| `approvals` | two callers, two keys, one or two permits, a cache of one entry, threads that do not start | `TypeOK`, `AllowanceIsEarned`, `InFlightIsBounded`, `PendingIsAwaited`, `DeclaredFirst`, `EveryCallEnds` |
| `evidence` | two processes, three keys, 3 commands, 4 events, one witness kept | `TypeOK`, `SignedIsTrusted`, `JournalVerifies`, `WitnessTellsLoss`, `BoundIsKept` |
| `disclosure` | all arguments made of three values out of a few dozen, among them texts that look like the summary's own punctuation | `NothingSensitiveRemains`, `OutcomeTellsNothingRemoved`, `SafeMeansRedacted`, `SummaryAgrees`, `ReconciledIsTrue` |
| `sidecar` | two calls of one process, a checkpoint of another, one key; several hosts; behind a reentry or an overdue reclaim the behaviour goes on, behind another gap it ends (`OneGap`: all reclaims leave the same state) | `TypeOK`, `OneReservationPerProcess`, `ChainHoldsWithoutGap` |
| `guard_resolved` | a call that failed, then confirmed as completed | `ResolvedCompletedBlocks`, violated: the next call with the key runs |
| `guard_doubled` | two processes, one key, 5 events | `DoubleSuccessIsReported`, violated: two successes of a key are reported under another code |

Why the bounds are enough: the hazards are races for one key or one file between two parties, and a
third event source that makes what they read stale. Two threads share memory and file (`guard_threads`), two processes
the file alone (`guard_ledger`, where a run of a key that is not free would be a step the ledger does not have), and operators act
beside both. Four events hold two complete attempts
(decision, outcome, decision, outcome), or an attempt, a release, a retry and a late outcome; five
add a resolution taken back. Three claims let two archives and a failed one meet. A limit of 2 with
3 calls is exceeded by any lost update, and a window of 2 ticks on a clock of 2 that starts anew once has an edge inside
each boot and across both. Three commands are two that overlap and one that comes later: a checkpoint, its shipping,
and what follows. Three keys are a first one, one created beside it or rotated to, and one more. In `disclosure` the
code's limits 4 (shortest text scrubbed), 64 (depth), 300 (error), 120 and 2000 (summary) are 2, 2, 6, 9 and 24, so that
texts and graphs on both sides of each limit occur.

**Conditions.** Some properties are conditional, on purpose, and each condition is one that the code
or its documentation leaves to the operator.

- `AckedIsReadable` speaks of histories without a short write. After one, a line without its newline merges
  with the next event; and a flush that failed is completed by `close()` after the lock is released
  (`journal.py:379`), which may put the event behind another process's.
- `OneRunPerRelease` is checked and proved for stores with `append_event_atomic`. Without it (`engine.py:695`) two
  threads pass the post-approval check and both reserve.
- `BudgetHolds` and `RateHolds` speak of histories in which no thread that went on without the operating system's lock was
  inside `decide()` beside another: then "concurrent writers can over-allow" (`policy.py:523`), and they do. A thread
  that lacks the lock and is alone breaks nothing.
- `QuiescedRotationIsSafe` speaks of archives during which no writer is active, as the deployment guide asks, and of which no
  recount fails. A writer with an old handle appends to the archive after it was counted again (`archive.py:237`).
  A recount that raises is rolled back over whatever is at the live path by then (`archive.py:234`): TLC finds three archivers of
  which one renames an empty successor, another rolls the journal back, and the first, its recount failing, puts the
  empty file over it. An archiver that dies between the rename and the link leaves the archive out of the chain
  (`archive.py:226`), and `--keep` orders by modification time, which the placeholder of a failed claim has
  too (`archive.py:337`); neither is claimed to be safe.
- `WitnessTellsLoss` speaks of the journal since its last archive, after which every earlier witness is reported as not found.
  Of runs that overlap it claims as much of every witness they ship, but they may ship an empty file: what is copied is
  the file beside the journal, which the other run has truncated.
- `BoundIsKept` speaks of witness runs that do not overlap, and of the journal since its last archive: overlapping runs may leave
  the older witness as latest. Its bound is the count of the newest witness, as that of `prune_witnesses` is. That
  counts grow with the journal (`witness.py:215`) is not so after a truncation: a checkpoint taken after one is newer and may count
  less, pruning keeps it and removes the one that counted more. The property excepts exactly that, a loss between
  the two (`CutBetween`).
- `JournalVerifies` excepts a countersignature whose checkpoint was archived or lost between its lookup and its
  append. `SignedIsTrusted` excepts keys whose registration was killed half way: the torn file is taken for a
  registered key from then on; and the record of a rotation whose outgoing key could not be registered.
- `AllowanceIsEarned` counts an allowance stored by the worker of a call that was itself denied for its timeout: the code lets it
  through (see section 5). `InFlightIsBounded` counts a permit lost to a thread that could not be started.
- `GatesHold` excepts a clock set back, which makes an old witness new.
- `ChainHoldsWithoutGap` names the four ways in which two parties come into the critical section under the sidecar
  lock: a sibling fiber reenters on a depth that was set before the lock was held, or that a
  timed-out or failed acquire left behind; a live holder is older than `staleAfterMs`; a claim is unlinked by path
  after another took the place of the one found stale; a live holder on another host, or in another pid namespace, is taken for
  dead, because its pid is asked of this one (`Lock.ts:88`). That there is no fifth is what is checked; that the fourth takes a
  second host is proved (`NoneIsMistakenOnOneHost`).
- `ReconciledIsTrue` says that a field of a matched receipt reads as the value that was returned or, where that was redacted or not
  supported, as the marker. A provider that holds the text of the marker matches a redacted field.

**Fairness.** `approvals` assumes weak fairness of a caller's and of a worker's steps, and nothing else:
threads are scheduled, and every wait on them has a timeout (`TimeOut` and `GiveUp` are steps of the waiting
thread). No operator is assumed to come, no page to be opened, no clock to tick. Fairness of `Declare` takes it that the
caller's observer returns or raises: `observer.py:114` calls it without a timeout, and a call whose observer hangs hangs. `EveryCallEnds` then says that
every call is answered and every permit returned, but that of a thread that could not be started. The other modules assume none: a caller may stop at
any step, and a held key staying held is the design. `CHECK_DEADLOCK FALSE` is set where calls, appends or
archives run out and the system may really stop.

## 4. Proofs

All hold for any sets of callers, processes and keys and any bounds, from the named assumptions of their
module (`KeyAssumption` and `GuardAssumption`, `ProcessAssumption`, `FiberAssumption` and `CallerAssumption`, `RotationAssumption`, `LimitsAssumption` and its companions,
`PoliciesAssumption`, `DisclosureAssumption` and `HeapAssumption`, `ApprovalsAssumption`, `EvidenceAssumption`). Four theorems, marked *atomic* below, also assume `FileBacked`: a store with
`append_event_atomic`, which is what the Python journal is; without it they are false.

Two kinds of facts stand in for induction, and are the first lemmas of the modules that use them. Where a lookup takes the
first or the newest of something: a non-empty set of naturals has a least member (`LeastNatural`, from the library's
well-foundedness of `<`), a bounded one a greatest (`GreatestNatural`). Where part of a sequence is kept (`Places`: the lines of a
file that parse, the attempts that have not expired): the n-th of a set of places is the one with n of them up to it,
every rank is some place's (`RankIsTaken`, a count of finite sets), and picking loses no place that it should keep
(`PickedKeeps`) nor adds any (`PickedFromFew`).

`GuardProofs`:

- `TypeCorrect`: `Spec => []TypeOK`.
- `EvidenceIsAlwaysTrue`: `Spec => []EvidenceIsTrue`, for both kinds of store.
- `AtMostOneRunPerRelease` (*atomic*): `Spec => []OneRunPerRelease`.
- `MemoryNeverRunsAhead`: `Spec => []CompletedIsRecorded`.

None but the first is inductive. That a target runs once under its decision needs to know where
the decision's id can be: in the locals of at most one caller, who stands at `run` with nothing run and
no outcome, or at `record` with a run and no outcome yet. So `IInv` says who may hold which id, and the
lemmas say what an append does to the lookups: it changes no earlier event, and a new decision,
outcome or resolution changes only what refers to it. `OneRunPerRelease` follows from a statement
about reservations instead of runs (`OneReservation`): of two reservations of one key, the earlier
is failed or released on record. It is established at the reservation because the scan, under the
lock, found no blocking decision, and no later event takes it back: outcomes stay, and `Released`
asks for a clearance somewhere in the journal, which stays too. `CInv` adds to `IInv` that a call executes under a
reservation of its own key, and that a caller about to mark its key has recorded a success; a
completed key stays completed because the journal only grows (`JournalGrows`, `CompletedStays`).

and, over `AuditedGuard`:

- `DuplicatesAlwaysJustified`: `Spec => []DuplicatesAreJustified`. `LInv` adds to `CInv` that the prior a call found is a
  reservation of its key and that operators resolve only reservations; every event the guard appends is
  `Founded` in the journal it is appended to (`NextIsFounded`), and nothing founded becomes unfounded later.
- `GuardImplementsReservation` (*atomic*): `Spec => ImplementsReservation`, the refinement of the abstract ledger. A key's status is
  a function of the journal (`Fate`), so the step of the ledger a guard step maps to depends on the
  event it appends: a reservation takes a free key to held, the only outcome of the only open
  reservation settles it, a resolution releases it or not, and anything else stutters.
- `AuditAlwaysReadsTrue` and `DoubleSuccessAlwaysFlagged` (*atomic*). `AInv` adds that outcomes and resolutions come after the reservation they
  refer to, so that the audit's structural checks find nothing; what is left of its report follows from
  `EvidenceIsTrue` and `OneReservation`.
- `DuplicateKeyNeverReported` (*atomic*): the audit's pass over duplicate keys never fires on a journal the guard and its operators
  wrote. By `OneReservation` the first of two reservations failed or was released, and a released call that succeeded reads
  `needs_reconciliation`, while the pass counts calls that read `succeeded`. It is why the report of `guard_doubled` never comes.

`JournalFileProofs`:

- `FileTypes` and `IndexIsAlwaysExact`: `Spec => []TypeOK` and `Spec => []IndexIsExact`. `XInv` says of every process what its entry is worth
  (`Exact`): it never describes more than the file, so that whatever another process writes makes it describe less
  and it is not used; from the flush to `Note`, an entry that described the file the append found is exact for
  that prefix. `Note` is right because a line put behind a line that lacks its newline makes the tail corrupt
  (`TornIsCorrupt`), and behind any other is read back, last, with nothing else changed (`AppendedIsRead`).
- `AckedIsAlwaysReadable`: `Spec => []AckedIsReadable`. `WholeInv`, while no write was cut short: the file is whole events, each naming the one
  before it (`Whole`); nothing is left in a handle's buffer once it was flushed, so that closing without the lock
  writes nothing; and who is about to write has read the tail of this very file, which only it can move.

`SidecarProofs`:

- `OneReservationInEachProcess`: `Spec => []OneReservationPerProcess`, with nothing assumed of the sidecar lock. Between the
  rescan and the end of its append a fiber has its process's permit (`PermitIsExclusive`), and a reservation on its
  way into the file found every earlier one of its process failed (`ReservingIsSafe`); the other processes'
  appends, torn or not, do not bear on that.
- `ChainAlwaysHoldsWithoutGap`: `Spec => []ChainHoldsWithoutGap`. `LInv` says, while no gap was entered, that whoever is between
  its claim and its release owns the file at the path (`Exclusive`), so there is one (`OneHolder`), and what it read
  of the journal still holds (`ReadRight`). The hard step is the reclaim, which unlinks by path (`ReclaimTakesNoneHeld`):
  the claim that was looked at is told from every later one because a fiber claims once for one thing and never
  comes back to it (`ClaimedOnce`); if it is still that one, it is abandoned or overdue, or its record names a pid of another host (`ReclaimIsJust`), since a
  claim that is still there has only become older (`AgeIsKept`); if it is another, that is the gap "replaced".
- `NoneIsMistakenOnOneHost`: `Spec => [](OneHost => "mistaken" \notin gaps)`, from the same `ReclaimIsJust`.
- `TypesAlwaysHold`: `Spec => []TypeOK`. `reentryDepth` is covered by the fibers of the process that `Entered`: a fiber that gave
  up and left the depth at 1 is at the end of its call and enters no more. `FiberAssumption`, that there are finitely
  many fibers, is for this count only.

`RotationProofs`:

- `TypeCorrect`: `Spec => []TypeOK`. It needs to know what `archive_journal` has established at each of its
  steps (`Progress`): a non-empty count and head from the stat on, a claimed name from the claim on,
  an open inode before each append.
- `LinksAlwaysComeFirst`: `Spec => []LinksComeFirst`. A new file holds nothing, and an append puts a link
  only into an empty file, by whatever name that file goes at the time.
- `QuiescedRotationAlwaysSafe`: `Spec => []QuiescedRotationIsSafe`. `Places` holds whatever the timing: an inode has one entry in
  the directory, a claimed name one archiver at work on it and no link to it yet, and the placeholder a
  rename destroys is empty and open nowhere. `Quiesced` holds as long as no writer was active during an
  archive and no recount failed (`disturbed`), and says what each archiver `Knows`: the live file is what it counted, or holds no event of a
  writer at all (another archiver has been there); what it rolls back, and what it rolls back over, holds no
  such event; from the second count on its archive is what it counted. So no event of a writer leaves
  the directory but through `--keep`, and a link, once written, goes on matching its file. An archiver that
  does not move goes on knowing this through every step of the others (`BystanderKnows`).

`LimitsProofs`:

- `Invariance`: `Spec => []Inv`, from which the three that follow are read off: the types always, and, until two threads were
  inside at once for want of the lock (`overlapped`), `IInv` and `RInv`.
- `BudgetsAlwaysHold`: `Spec => []BudgetHolds`, for all limits, actions, threads and processes and any number of kills. `IInv`
  says that what an account has on record is never less than what was answered "allowed" on it (`StoreBounds`); that at
  most one thread is between taking the file's locks and letting go of them (`Alone`); that such a thread has read
  no less than what was paid (`SeenBounds`), so that a thread that wrote has on record also what it is about to
  allow, `Due` (`WrittenCovers`); and that what was paid fits the limit (`PaidFits`). `Fits`, `Below` and `Plus` say of either way of
  counting (one total, or one per action) that counts are within the limit, bounded by others, and what they are
  after a charge. A kill between the write and the answer leaves a charge nobody was allowed for, which the
  inequality permits.
- `RatesAlwaysHold` and `TypesAlwaysHold`: `Spec => []RateHolds` and `Spec => []TypeOK`, for every limit and window. `RInv` says that
  a state `Covers` what was allowed on its account: after any moment of the current window of real time, no
  fewer attempts than allowances, and never more than the limit in all. Attempts are of the host's clock, allowances of
  real time, `since` apart; an attempt of before a restart lies ahead of the clock that started anew and expires later than it
  should, which only denies more. The comparison is of numbers, not
  of lists, because the list of attempts is not sorted (a thread reads its clock before it takes the lock) and
  keeps attempts that were never answered; it is by every moment of the window at once, because a call that
  waited may be recorded with a time others have overtaken. Dropping what expired keeps it, whether from the
  head (`PopIsKept`) or throughout (`DropIsKept`), since who decides asked no later than now; time passing asks for less
  (`CoversLater`). A thread that wrote covers also what it is about to
  allow, for whenever it answers (`OwedCovers`).

`CallProofs`, first every property of the run `policies`, for any policies, rule files, threads and bounds:

- `PoliciesFailClosed`: `Spec => []FailsClosed`, for compositions of any length. `PInv` follows a call from its first
  answer to its verdict. While a member is still to be asked, what was said so far is `Open`: all of "all" allowed, none of
  "any" did, nobody in a quorum answered nonsense. The answer that settles the call turns `Open` into `Carried` if it allows
  (`AllowedIsCarried`), and an attested call keeps `Carried` until it has a name. The file that is not `WellFormed` is never
  loaded, and before a load no thread has a call.
- `GatesAlwaysHold`: `Spec => []GatesHold`. A rule file and a list answer the same whenever they are asked, so each answer
  that allows was right and stays so (`Passed`). The gate's does not: between it and the verdict other members
  are asked while the clock runs. So the property is about the age of the witness that was seen, and `Recent` carries it; it needs
  that the ticks since the last witness never exceed what its modification time shows, unless the clock was set back (`WorldGood`).
- `BudgetAlwaysCovers`: `Spec => []BudgetCoversAllowed`. Calls that were allowed and charged, and threads that were charged
  and are not through, have a unit each of what is spent: their numbers add up to no more, whatever the threads do between each
  other's members. If the budget is the last member, asked once, and nothing attests, a charge and the verdict are one
  step, and the allowed calls number exactly what is spent.
- `PoliciesTyped`: `Spec => []TypeOK`.

The proof found an imprecision of an earlier version of `Policies`: the combinations were `CASE`s whose arms overlapped, so that
for the last answer of an "all" the model's value was whichever arm `CHOOSE` took. They are now disjoint, as the early
returns of the code are (`policy.py:311`). It also showed that the third part of `BudgetCoversAllowed` holds
only where the budget is a member once (`AskedLast`): listed twice, each allowed call costs two units.

`CallProofs`, second, every property of the run `disclosure` but `SummaryAgrees`, for graphs of any size and nesting, with or without cycles,
any patterns, sensitive names and bounds. `DInv` keeps what each record was made from: the decision from the canonical
form of the arguments, the outcome from that of what was returned, or from an error that quotes at most two of the values.

- `NothingSensitiveEver`: `DisclosureSpec => []NothingSensitiveRemains`. The walk recurses over the levels that are left. If some
  level had a form that is not clean, there would be a least one; the forms it is gathered from are clean, and
  hanging them under their names keeps them so, because under a sensitive name only a marker hangs.
- `OutcomeNeverTells`: `DisclosureSpec => []OutcomeTellsNothingRemoved`. While the values are replaced from the longest to the
  shortest, the error stays a row of parts between quotes, each of them still whole or already a marker (`Errors`). A value
  holds no quote, so it occurs inside one part or nowhere, and a replacement works on the parts separately
  (`ReplaceApart`). What is still whole has not been reached, so everything reached so far is at least as long: it could only
  be replaced in whole, never in part. At the end nothing is whole. The patterns and the cut that follow add only markers.
- `SafeIsRedacted`: `DisclosureSpec => []SafeMeansRedacted`. A form whose parameters are all markers has nothing below them
  (`Rooted`: each of the forms gathered has a container at its top if it has anything below), so reading the parameters is enough.
- `ReconciledIsAlwaysTrue`: `DisclosureSpec => []ReconciledIsTrue`. A canonical form `Tells` of its value: the text at its top is the value's own, or a
  marker (`FormTells`). A receipt has a field for every name of what was returned, and one only, since names in a
  container differ (`HeapAssumption`), so a field the provider agrees on reads as the one that was returned, or is a marker.

These proofs too corrected the model. `Scrub` sorted the removed values by a strict comparison; for two of the same length no
sequence is sorted that way, so the definition chose from nothing, though TLC evaluated it. It now says which value comes
last, whichever that is among equals, as `sorted(values, key=len, reverse=True)` leaves open for a set. And a pattern may match the
marker itself, which `NothingSensitiveRemains` now allows for.

`ApprovalsProofs`, all safety properties of the approval server:

- `PendingAlwaysAwaited`: a caller inside is in a call of its own that was told nothing yet (`CallsAreOwn`), and its worker does
  not exist before it asks (`WorkersFollow`).
- `InFlightAlwaysBounded`: free permits, living workers (`Alive`) and workers that never started add up to the capacity; a step makes at most one worker
  living, with a permit, or one dead, giving it back.
- `DeclaredAlwaysFirst`: who is past `declare` has its key among those declared, and `done` holds nothing else.
- `ApprovalsTyped`: the cache's bound. Entries of a `Good` cache differ in their places, so evicting the oldest removes
  exactly one, and what `MakeRoom` leaves has room for the new one.
- `AllowanceAlwaysEarned`: `Earned` follows an allowance back from the answer through the worker to the operator's word on its own
  request, or to a cache entry, which expires when what was stored does, and whose storing had an operator's word.

`EvidenceProofs`:

- `EvidenceTyped`: `Spec => []TypeOK`.
- `SignedAlwaysTrusted`: `Spec => []SignedIsTrusted`. `KInv`: who is ready to sign has its key in the trusted set, unless it is
  about to record the rotation of a key it failed to register (`Outgoing`), and a trusted key's file that is not whole has its writer at work, or lost it.
- `JournalAlwaysVerifies`: `Spec => []JournalVerifies`. `VInv`: ids grow along the journal, every event is chained to the one before,
  checkpoints count what precedes them, and what a countersigner found is still what the journal says
  of it, and still there unless the journal was archived or cut under the countersigner.
- `WitnessAlwaysTellsLoss` and `BoundIsAlwaysKept`: `Spec => []WitnessTellsLoss` and `Spec => []BoundIsKept`. `WInv` adds to `VInv`, until an
  archive, that every id ever given stands in the journal or is lost (`Accounted`), at the place its id says but for the one
  gap a loss leaves (`Placed`); that every witness file holds a checkpoint as it was written, with the count that goes
  with its id (`Stands`, `FilesStand`), overlap or not; and, while witness runs do not overlap, that later names hold
  later ones (`StampedInOrder`), and what a run has done at its place (`Shipped`). So a witness is found in the
  journal exactly if it is not among the lost; if it is found, it counts less than the journal has. The bound
  outlives a pruning because the newest file does, for every `Keep` above 0, and of two witnesses the later
  counts more unless the loss lies between them (`CutBetween`). A step is one of the run's own, or `Beside` the shipping.

Model-checked only: `EveryCallEnds`, a liveness property, for which the prover has no rule of fairness, and `SummaryAgrees`, whose
writer and reader are recursive operators. Every other property of every passing run is a theorem.

## 5. Where the documents and the code disagree

Shown by a run that TLC finds violated:

- A failed call confirmed as completed. `docs/EVIDENCE_FORMAT.md:277` and `resolve.py:9` say not to retry; the lookup
  (`journal.py:682`) consults resolutions only of decisions without an outcome, so the retry runs. `ts/test/idempotency.test.ts:191-248`
  pins that as intended, so the repository's own sources disagree (`guard_resolved`).
- Two successes of one key. `docs/EVIDENCE_FORMAT.md:283-285` and `docs/THREAT_MODEL.md:166-169` promise
  `duplicate_idempotency_key`; the audit reports `conflicting_resolution` (`guard_doubled`, and `DuplicateKeyNeverReported` for
  every instance). `THREAT_MODEL.md:163-170` also says less of the code than it does: it speaks of
  duplicates that processes may record at once, while `append_event_atomic` rules them out under the file lock.

Met while modelling, and stated as the exception of a property:

- "The inner call may still complete later with no effect" (`policy.py:238`, `policy.py:284`): around a cache it has one. The worker stores the allowance,
  and the next call with the key passes (`AllowanceIsEarned`).
- "Counts grow with the journal: the newest witness subsumes every older prefix bound" (`witness.py:215`): not across a
  truncation (`BoundIsKept`).
- `identity.py:469`, of a rotation record that cannot be appended: "the trusted_keys/ registration below still preserves
  verifiability". The registration that matters, of the outgoing key, comes before, and its failure is swallowed
  (`identity.py:436`): the record is then signed by a key no verifier trusts (`SignedIsTrusted`).
- The TypeScript lock records a `hostname` (`Lock.ts:160`), reads it back and never uses it: a holder on another host is judged by a
  pid of this one (`ChainHoldsWithoutGap`).
- Without the operating system's lock the file-backed limits over-allow. Here code and documents agree (`policy.py:523`); the
  operator is not told at run time (`BudgetHolds`, `RateHolds`).
- The operator's page says "recorded" between the waiter's timeout and its removal of the request (`approve_server.py:118`), though the call was
  denied. It fails closed, and no property speaks of the page.

## 6. Not modelled, and the plan

Not modelled: schemas, wrapping, the gateway, formatting, the command line, the HTTP clients of
witnesses and providers, the format of hashes and signatures (an id stands for a hash), the
in-memory pre-check cache and Windows locks of `journal.py`, `verify_key.pem`, the order in which sinks
receive events. The TypeScript policies, verification, archives and witnesses repeat what is
modelled of the Python code. A journal written by both languages at once is covered by neither
lock: `fcntl` and the sidecar file do not exclude each other.

What remains to do, in this order:

1. `Guard` over `Rotation`: which promises of a key survive an archive.
2. The late flush and short writes of `JournalFile` with a reader that skips a torn tail.
