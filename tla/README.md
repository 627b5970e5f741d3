# See No Evil: models and proofs

TLA+ models of the parts of See No Evil that decide what a household sees, what
is counted against a child's daily quota, what certificate a browser is shown,
who may administer the household, and what survives on its disk; TLC runs of
those models on small instances; and TLAPS proofs of their main properties for
every instance.

Paths below are relative to the repository root (`src/` in `PROJECT.json`).

## 1. The system

See No Evil is a filtering gateway. A Go proxy terminates TLS with leaf
certificates of a household CA, sends bodies to classifiers, and asks a Python
API for the policy decision; the API keeps devices, profiles, users, quotas, the
audit trail and the quarantine in SQLite. A scanner reports the devices of the
LAN to the API, an updater fetches models and block lists, a backup command
archives the data directory they all share.

| part | state it keeps | operations | talks to | model |
|---|---|---|---|---|
| proxy: `mitm/handler.go` | memory of blocked YouTube videos, body semaphores, in-flight requests | `ServeHTTP`, `handlePlainHTTP`, `decide`, `inspectText`, sweeps | classifiers and sampler (gRPC), API (HTTP), origins, quota reporter | `Inspection` |
| proxy: `ca/ca.go` | CA pair on disk, `LeafCache` | `LoadOrCreate`, `TLSConfig`, `mintLeaf`, `evictOldestLocked` | handler | `LeafCache` |
| proxy: `quota/reporter.go` | active ips, minutes, failure counts, back-off deadlines | `NoteActivity`, `accumulate`, `flush`, `post`, `Run` | API `/v1/quota/heartbeat` | `QuotaReporter` |
| proxy: `runtime/poller.go` | current settings | `fetch`, `Get`, `Run` | API `/v1/runtime` | in `Inspection` |
| API: `policy.py`, `policy_opa.py`, `policies/seenoevil.rego` | none (pure) | `decide`, `opa_decide` | OPA sidecar | `Policy` |
| API: `routers/decide.py`, `audit_sig.py` | devices, audit rows, quarantine items | `post_decide`, `_auto_create_device`, `sign_row` | policy engine | `Ledger` |
| API: `routers/quarantine.py`, `cleanup.py` | quarantine items, audit rows | resolve, delete, retention | decide, admins | `Ledger` |
| API: `routers/quota.py`, `quota_day.py` | one usage row per device and day | `heartbeat`, `reset_quota` | reporter | in `QuotaReporter` |
| API: `auth.py`, `routers/users.py`, `routers/auth.py`, `oidc.py`, `wizard.py` | users, settings rows, sessions, OIDC states | setup, login, user administration, authorization code flow | browsers, identity provider | `Accounts` |
| API: `panic.py`, `runtime.py` | one setting row each | set, clear, update | decide, poller | in `Inspection`, `Policy` |
| API: `routers/devices.py`, `routers/profiles.py` | devices, profiles | `discover_devices`; create, edit, delete | scanner, admins | in `Scanner`, `Ledger` |
| video sampler (Go), image classifier (Python) | admission slots, temporary files | `Sample`; scores and action of an image | each other, proxy | `VideoSampler` |
| scanner | scan lock, run flag | loop, control plane, report | API | `Scanner` |
| updater: `updater.py`, `__main__.py` | models, lists | `run` (download, verify), `main` (sleep, repeat, exit) | disk, container restarts | `DataDir` |
| API: `backup.py` | archives of the database, the CA and the models | snapshot, prune, restore | disk | `DataDir` |
| UI, deployment, notifications, read-only views | none of their own | | API | not modelled |

What is hard here, and therefore what the models are for:

- **Concurrency.** Each request is a goroutine; requests share the leaf cache,
  the YouTube memory, the reporter's maps and the semaphores. Text segments of
  one body are classified by several goroutines. In the API each handler is a
  thread with a session of its own: it reads outside the write lock, and what it
  has read may be stale when it writes.
- **Failure.** Classifiers, sampler, policy API and origin may fail, time out,
  or decide and lose the answer. `proxy.fail_closed` says which way each must go.
- **Delivery.** Heartbeats of the proxy and reports of the scanner may time out
  and be served all the same, late, after others.
- **Time.** The minute ticker drops ticks while a flush waits; back-off counts
  from the start of the flush; leaves, sessions and sign-on states expire; the
  quota day turns; rows and items pass the retention.
- **Crashes.** The reporter's minutes, the sampler's slots, the scanner's lock
  and the post-checks of the users router are lost or cut off; SQLite's log,
  archives and temporary files stay.

`PROJECT.json` lists every part with its status, and every hazard at its line
with the properties about it.

## 2. Modules

A module with the name of a component is its model; `MC...` modules give values
to constants that a `.cfg` cannot express; `..._proofs` modules hold the proofs.
Mutants (a definition with a plausible bug, in the comment "Mutant:") stand just
above the definition they replace.

### MinuteMeter, QuotaReporter, MCQuotaReporter, BackoffMonitor, Proxy_proofs

`MinuteMeter` is the abstract promise: clients earn minutes, the API records
them at least once, the proxy settles a minute only when it is recorded, and a
restart forgets what is owed. `QuotaReporter` is the code.

| model | code |
|---|---|
| `active`, `minutes`, `failCount`, `wait` | `Reporter.active`, `minutes`, `failCount`, `backoff` (as ticks until the deadline) |
| `pc`, `need`, `todo`, `req` | where `Run` is: the swapped window of `accumulate`, the snapshot of `flush`, the heartbeat in `post` |
| `due`, `age`, `stalled` | the ticker's one-place channel, ticks since `now := time.Now()` in `flush`, timeouts since the last tick |
| `req.status` | how far the heartbeat is: "sent", "committed", "accepted" (its row was read back), "erased" (its device was deleted before that), "refused" |
| `late` | requests the HTTP client gave up on and the API may still serve |
| `registered`, `usage`, `closed` | `Device` rows, today's `QuotaUsage`, minutes in rows of other days, reset or deleted rows |
| `earned`, `settled`, `ambiguous`, `orphaned` | history, for the properties; `orphaned` counts minutes committed for a device that was deleted before the answer |

`accumulate` has two critical sections and is two actions (`Swap`, `Credit`);
`flush` is `Snapshot`, one `Post` per client with its outcome (`PostOK`,
`PostRefused`, `PostTimeout`) and `FlushDone`. The API side is one action per
transaction: `HeartbeatCommit` and, in a second transaction, `HeartbeatReread`;
`HeartbeatRefused` (404, 503, or 503 after the commit when the row has gone),
`LateArrival`, `ResetQuota`, `DeleteDevice`, `RegisterDevice`, `Midnight`.
`Restart` loses the reporter's memory at any moment. `BackoffMinutes` has the code's 64-bit arithmetic:
`1<<(c-1)` minutes in nanoseconds is 29296875 * 2^(11+c-1), so whether the
product wraps to a non-positive number is a question about the bits of the odd
factor. `MCQuotaReporter` adds the symmetry of clients. `BackoffMonitor` conjoins
a monitor that knows nothing of deadlines: `since` counts the minutes since the
flush in which the client's last heartbeat failed.

### LeafCache, MCLeafCache, Proxy_proofs

`ca.LeafCache` with its goroutines: `Lookup` (hit, or go to mint outside the
lock), `Mint` or `MintFails`, `Insert` (second lookup; when still absent, evict
and insert), `Serve`. `lastUsed` is 0 where the map has no entry. `Victims`
keeps the code's use of the empty string for "nothing found yet", map order
being a nondeterministic choice; the empty string is also the host of a client
that asks for ":443" (`EmptyHost`).

### Inspection, MCInspection, Inspection_proofs

`handlePlainHTTP` and everything it calls, one goroutine per element of
`Requests`: `Refuse` (address checks), `Arrive` (the YouTube memory),
`Fetch`/`FetchFails`, then `decide` as `Image`, `Video`, `Text`, the segments of
`inspectText` (`StartSegment`, `EndSegment`, `ScanDone`), and `Audit`,
`PolicyAnswers` or `PolicyFails`. `Poll` replaces the settings a `decide` in
progress has already copied; `TogglePanic`, `Expire` and `Sweep` happen at any
time. A response is described by what the stages tell apart: its declared type,
what its bytes look like, and the role of its URL. Verdicts are inputs, and
"failed" stands for every way a judge gives no verdict. `heard` is what each
judge said, `row` the decision the API stored, and both are what the properties
compare the client's `outcome` with.

### Policy, MCPolicy, Policy_proofs

The two policy engines side by side. `PythonResults` lists what each of the
thirteen rules of `policy.decide` says, `RegoResults` the *set* of values the
clauses of each Rego rule derive: one is the value, none leaves the rule
undefined, two are a conflict. `First` is the precedence both have, and
`RegoAnswer` what OPA makes of undefined rules (the comprehension
`ordered_results` is empty and the default allows) and of conflicts (an error).
`Answer` is the engine selection of `post_decide`: `python`, `opa` (503 when OPA
gives nothing) or `auto` (fall back to Python). The branch for a decision the
proxy has already made belongs to `Inspection`. A window has two ends in minutes
and says whether both are times of day (`legal`): Python skips one that is not,
Rego computes with it. `ReadAlike` names what both engines read alike, and is the
premise where two answers are compared.

| model | code |
|---|---|
| `profile`, `rules` | `ProfileView`, `GlobalRules` (runtime settings) |
| `request` | `DecisionInput`, `build_opa_input` |
| `Matching`, `raw`, `text`, `channel` | pattern, keyword and channel matching, as data |
| `time` | half minutes: Rego is given full minutes, Python seconds |
| `answer` | the response, with the engine setting and whether OPA was reached |
| `Forbid`, `Narrow`, `Lower`, `UseMinute` | edits that tighten: `update_profile`, `update_runtime`, a heartbeat |
| `Change` | edits that may go either way |

A list is a set: `OneOf` leaves open which of several matching entries the
order of a list would report. Labels are what is left after the prefix of a
classifier's name; the two engines split a name with several colons, and treat
capitals, differently, and that is not modelled. A schedule entry without two
numbers at each end is a window without days.

### Accounts, MCAccounts, Accounts_proofs

Who may administer the household. A request is a thread with a database session.
SQLite reads outside a write transaction see the last commit, and the first
write takes the write lock until the commit; so a request is a row of reads,
each an action, and one write transaction, an action.

| model | code |
|---|---|
| `accounts`, `admins`, `disabled` | rows of `User`, their role and flag |
| `legacy`, `secret` | the settings rows of `set_admin_password`, `rotate_jwt_secret` |
| `sessions` | cookies that verify: signed with the present secret, not expired; `capitals` because the cookie keeps the spelling of the address |
| `states`, `old` | stored states of single sign-on, those past `_STATE_TTL_SECONDS` |
| `object`, `body`, "post", "revert" | `update_user`: the loaded user, the commit of the change, its post-check and the write that takes the change back |
| `saw` | the three lookups of `set_admin_password`, made before its first write |
| `Revert`, `RevertFails` | the commit that takes an update back, and its failure, which `except Exception` swallows |
| `Busy` | any other write that does not get the lock within `busy_timeout` |
| `disturbed` | history: what the post-check of an update cannot mend (an account deleted, a restart, a failed revert) |

`Configure` is first-run setup by the three callers of `set_admin_password`,
`SignIn` login by password and the sign-on callback, `Administer` creation,
update and deletion of users. An account is known by its address: ids that
come back after a deletion are not told apart. The rate limiter of logins, CSRF,
the addresses of trusted proxies and the read-only routes of viewers are left
out.

### AuditTrail, Ledger, MCLedger, Ledger_proofs

What `post_decide` leaves behind, and who else writes there. The write lock is
state here: `_auto_create_device` flushes, takes the lock, and `post_decide`
keeps it across the call of OPA until the commit (`Attribute`, `Judge`,
`Record`); whoever finds the database busy fails at that write. Audit rows carry
the device and the profile they are for and those they were signed for
(`rowDevice`, `rowProfile`, `signed`): `Signable` has the two signed fields that
can change later. Ids are numbers and the largest comes back after its deletion, as
SQLite's do without AUTOINCREMENT. `Discover` is the scanner's report,
`DeleteDevice` sets the device of its rows to null and `DeleteProfile` their
profile, `Reassign` gives a device another profile and leaves its rows alone, `ReadItem` and `Resolve` are
the two halves of a resolution, `Wake`, `Select`, `DeleteBatch` and `SweepBusy`
the daily retention with its batches and its one retry.

`AuditTrail` is what the household is promised: a decision is one step that
leaves its signed row, the device it registers and its held item together; a row
changes only when its device or its profile is removed; an item waits once; the retention takes
no item that waits, unless an administrator has deleted something. `Ledger`
implements it, with the calls that are "stored" as the decisions made, and locks,
ids and ages left out of sight.

### VideoSampler, MCVideoSampler, VideoSampler_proofs

`Sample` of the video sampler, one handler per video, with the proxy's side of
it (`Open`, `Timeout`, `Verdict`) and the image classifier's (`Blocked`). A slot
is tried, not waited for; the stream is written up to `MaxVideoBytes`; frames
are extracted and classified one after the other, a failed classification leaves
a frame out, one blocked frame makes the answer block, and the answer carries the
maxima of the scores. `Timeout` ends the proxy's wait while the handler runs on, `Crash` ends
all handlers. A frame is the scores the model gives it. The classifier's WARN is
never its answer, so it is not modelled.

### DataDir, DataDir_proofs

The files under `pod.data_dir` and the three programs that write there. The
database is pages with the number of the commit that wrote them, `wal` the
committed pages not yet moved to the file: `Commit`, `Checkpoint`, `Stop` (which
closes the connections, or kills and leaves the log), `Start`. A snapshot
copies the database through the backup interface (`Snapshot`) or, when that
fails, the live files one by one (`SnapshotLive`, `CopyLog`), then the rest,
then prunes; it may fail, leaving nothing, or be killed, leaving what it has
written. Archives have the CA, the models and the database, not the lists. A
restore extracts in two steps, in the order of the archive.

The updater is a process: `UpdaterStarts` fixes what its environment asks for
(`scope` for `SKIP_MODELS` and `SKIP_LISTS`, `once` for an interval of zero),
each cycle downloads with three attempts into a temporary file, verifies models
by checksum and moves them to their place. `CycleEnds` is success, after which it
sleeps (`NextCycle`) or returns; `CycleBreaks` is an exception that `main`
swallows; `CycleFails` and `UpdaterMisconfigured` are `sys.exit(1)`, which it does
not; after any exit it may be started again. Models may have been mounted before.

### Scanner, Scanner_proofs

`perform_scan` in the main loop and in threads of the control plane: the lock is
tried (`Begin`), nmap run (`Sweep`, `SweepFails`), the result posted (`Post`)
and waited for. `discover_devices` is the API's thread: it loads the rows
(`Loads`), and its commit (`Commits`) inserts what it has not found and refreshes
the rest, or fails on a row inserted or deleted meanwhile. When the
scanner gives up waiting, the handler goes on. `Signal` clears the run flag,
`Exit` ends the process, threads of the control plane included.

## 3. Runs

| run | instance | what it shows |
|---|---|---|
| `quota_safety` | 2 clients, cap 1, 2 minutes each, 1 failure in a row, 1 minute per client in unanswered and 1 in erased heartbeats | `Conservation`, `SettledIsRecorded`, `OvercountIsAmbiguous`; `MeterRefined` (the pipeline implements `MinuteMeter`) |
| `quota_backoff` | 1 client, cap 2, 3 minutes, 30 failures in a row, the monitor, fair | `LeftAlone`, `EventuallyReported` |
| `leaf_cache` | 2 goroutines, 3 hosts and the empty one under 5 names, capacity 2, lifetime 1, clock to 3 | `BoundedWhileNamed`, `RightHost`, `LeafStable` |
| `inspect_closed` | every label and content, 3 segments over 2 workers, fail closed, block mode, fair | `FailClosedHolds`, `FlaggedIsBlocked`, `AuditNeverContradicts`, `EveryRequestEnds` |
| `inspect_open` | 2 requests at once, texts, images, videos, thumbnails and pages of 3 YouTube videos, memory of 2, fail open, strip mode | `FlaggedIsBlocked`, `OutageNeverBlocks`, `MarkedWasFlagged`, `MemoryBounded` |
| `policy_engines` | 2 hosts, 2 patterns, 1 keyword, 2 channels, 3 labels; over two thousand starts in five families, one edit | `OpaNeverLaxer`, `DenyWins`, `TightenNeverAllows` |
| `accounts` | 2 requests at once, 2 addresses, one of them known to the provider, 1 sign-on state | `UpdatesKeepAnAdmin`, `SetupIsWhole`, `ConsumedStateStaysDead` |
| `ledger` | 2 decisions of one client, 1 scanned device, 2 profiles, 1 administrator, batches of one | `TypeOK`, `RegisteredRowsVerify`, `RetentionSparesPending`; `TrailRefined` (the handlers implement `AuditTrail`) |
| `sampler` | 2 videos of sizes 1, 3 and 6, chunks of 2, a file of 3, 1 slot, 2 frames with 2 labels, fail closed, fair | `SlotsAdd`, `FileIsPrefix`, `WorstFrameDecides`, `AllowedWasScanned`, `SlotsComeBack` |
| `data_dir` | 1 page, 1 commit, 2 snapshots, retention 1, 1 model, 1 list | `NothingLeftOut`, `WholeArchiveRemains`, `VerifiedStays`, `CycleIsHonest` |
| `data_dir_restore` | the same | **violated**: `RestoreBringsBack` |
| `scanner` | the loop and 1 control-plane thread, 2 devices, 2 profiles, fair | `OkMeansListed`, `AssignmentStays`, `LockComesBack`, `SignalEnds` |

The largest run, `data_dir`, has 3.6 million distinct states and takes a minute
with two workers; `ledger`, with 2.5 million and a refinement to check at each
step, takes three. Every property of a passing run has a mutant under which the
run finds it violated. Types are part of the invariants of the proofs; those of
`ledger`, which say that ids are never shared and that foreign keys hold, are
checked by the run as well. The run marked *violated* checks what a docstring
says, and section 4 says how the code departs from it.

**Bounds.** *Quota*: a cap of 1 with 2 minutes makes a post leave a remainder; a
second client makes a flush continue after a failure; one failure in a row and
one ambiguous minute are enough for a retry of what was already committed, and
`quota_backoff` has 30 failures in a row, one more than what it takes to wrap the
back-off. *Leaves*: three hosts are one
more than the cache holds, two goroutines are what a race needs, and a lifetime
of one tick makes every entry expire. *Inspection*: three segments over two
workers make one wait; three videos over a memory of two make it evict. *Policy*:
the families of `MCPolicy` vary what interacts (schedule with quota and panic;
the four domain lists with both enforcement switches and keywords; URLs without
a host; channels with domains; the three places of a threshold) and leave the
rest open, because the full product is out of reach. *Accounts*: two requests
are enough for both to demote the other's target and both to pass a check;
bodies change one column each, a password alone included. *Ledger*: two calls
of one client race to register its device, `MaxRecent = 0` makes the limit of
registrations bite (the guard is "more than"), a batch of one makes the
retention loop, and two rows with ids 1 and 2 suffice for an id to come back; with
two profiles a device can be moved before its old profile is deleted.
*Sampler*: sizes below, at and above the file's limit, with a chunk that fits in
part; one slot is refused to the second video; two labels, one of which is
almost over its threshold, make the maxima matter. *Data directory*: two snapshots under a retention of
one let a killed one and a whole one stand beside the one that prunes, and one
commit comes between any two steps of a copy; a model has a checksum and a list
has none, and either may be skipped. *Scanner*: two threads contend for the lock, two devices make a
commit meet a row it has not loaded. The counters `MaxMinutes`, `MaxFail`,
`MaxAmbiguous`, `MaxClock`, `MaxUsed`, `MaxEdits`, `MaxCommits` and `MaxStamp`
bound what the code leaves unbounded, and stand in the guards of the actions
that would exceed them; `Post` of the scanner has at most one report of a thread
under way.

**Symmetry** is used for requests (and videos) in `inspect_open`, requests in
`accounts`, goroutines in `leaf_cache`, clients in
`quota_safety` and calls in `ledger`. Those runs check invariants and properties of
single steps, no liveness (`MeterRefined` and `TrailRefined` are safety properties too).

**Deadlock** is checked in every run but `accounts`: there every session may have
ended, every administrator be disabled or deleted, and nobody be let in again.

**Fairness.**

- `quota_backoff`: the ticker ticks, the `Run` goroutine is scheduled, and the
  API serves what reaches it (weak fairness of `Minute`, `Reporter`,
  `HeartbeatCommit`, `HeartbeatReread`); that not every heartbeat fails is the bound `MaxFail`, and
  that the device stays registered is the premise of `EventuallyReported`.
- `inspect_closed`: each goroutine takes its next step (weak fairness of
  `Serve(r)`), because every call it waits for has a deadline: 3 s or 10 s for
  the classifiers, the sampler's and the policy client's timeouts, the
  transport's timeouts for the origin.
- `sampler`: `Handle(c)`: gRPC delivers or breaks, ffmpeg and the image
  classifier have deadlines or end with the stream.
- `scanner`: threads run (`Proceeds(t)`: nmap and the report have timeouts) and
  the main thread leaves its loop (`Exit`). Nothing is assumed of the API.

No fairness is assumed of arrivals, verdicts, polls, admins, faults or signals.

## 4. Findings

- **A restore keeps the old log** (`data_dir_restore`). `backup.py:217` extracts
  `policy.db` over the data directory and leaves a `policy.db-wal` where it is;
  an archive made through the backup interface has none to put in its place.
  After an API that was killed, or whose stop timed out, the log is still there,
  and the first connection reads its pages over the restored file: of each page
  in the log it sees the old database's. With one page, as in the run, that is
  exactly the old state; with several it may be a mix of both. `backup.py:5`
  says "Restore reads a tarball back over the" same paths, and
  `docs/backup.md:45` asks for no more than "Stop the API first".

Where a property holds only on a condition, the condition names what the code
does otherwise, and what the repository says of it:

- *Back-off* (`LeftAlone`). `reporter.go:129` says "1m, 2m, 4m, 8m up to 10m". The
  29th failure in a row shifts by 28, the product with a minute wraps to a
  negative duration (`reporter.go:133`), which is not above ten minutes, and the
  client is posted again at the next tick. Later shifts wrap to one or the other.
- *Leaf cache* (`BoundedWhileNamed`). `ca.go:291` bounds the cache. A client that
  CONNECTs to ":443" has a leaf cached under the empty string, which
  `evictOldestLocked` also uses for "none found yet" (`ca.go:371`); a scan that
  meets this key last evicts nothing, and the insertion exceeds the bound.
- *Overcounting* (`OvercountIsAmbiguous`). A heartbeat may be answered 503 after
  its commit, when its device is deleted before the row is read back
  (`quota.py:97-101`); the reporter posts the same minutes again.
- *Two engines* (`OpaNeverLaxer`, `ReadAlike`). `seenoevil.rego:4`,
  `policies/README.md:5` and `services/api/README.md:140` say that Rego mirrors
  Python. It does not: a window such as "08:00-24:00" is skipped by Python, whose
  `time(24, 0)` raises (`policy.py:125-129`), and counts for Rego, which checks no
  range (`seenoevil.rego:175`); a negative quota (`schemas.py:18` has no bound)
  leaves `quota_block` undefined (`seenoevil.rego:195`), so that OPA allows
  everything; Rego counts the last, full minute of a window as inside; two entries of a list that match, or two labels
  over their thresholds, are a conflict and OPA an error; and with the domain
  rules off Rego still asks the channel lists (`seenoevil.rego:363`), which
  `policy.py:322` does not. `ReadAlike` leaves out the first three, in which OPA
  may allow what Python blocks; in the others it is stricter or fails.
- *Precedence* (`DenyWins`). `policy.py:307` says "Deny list (always wins over allow
  on the same host". The household's allow list returns before (`policy.py:293`),
  and so it does before any keyword; panic-relax comes before everything.
- *Last administrator* (`UpdatesKeepAnAdmin`). `users.py:89` says "Post-check: ensure
  at least one enabled admin remains". Two updates may take each other's
  administrator; when the revert of the last one finds the database busy,
  `except Exception` (`users.py:104`) rolls it back and none remains. Nor does the
  post-check help when an account is deleted, or the API dies before it.
- *Single-use state* (`ConsumedStateStaysDead`). `oidc.py:9` says "consumed exactly
  once". The deletion (`oidc.py:269`) is rolled back with a sign-on that fails
  (`routers/auth.py:136-141`), so a failed state can be used again, and two
  callbacks that have both loaded a state can both get a session.
- *Signatures* (`RegisteredRowsVerify`). `schemas.py:128-129` and
  `docs/threat-model.md:60-62` take a signature that does not verify for
  tampering. Deleting a device or a profile sets a signed field of its rows to
  null (`audit_sig.py:85-86`), and they do not verify either.
- *Stripped text* (`FlaggedIsBlocked`). When `Strip` finds nothing to replace, text
  that was flagged is delivered as it is (`handler.go:973`).
- *Updater* (`CycleIsHonest`). `__main__.py:4-5` says "Exits non-zero only on
  unrecoverable errors". Transfers that fail three times end the process with
  status 1 as wrong checksums do (`updater.py:236`), and the container is started
  again at once.

Seen while modelling; the models behave like the code, and no property of a run
claims otherwise:

- *Proxy.* A cached
  leaf is served past its expiry (`ca.go:333`), and each hit keeps it. A video
  under a generic label is buffered and sampled by nobody (`handler.go:685`), a
  text under one is let in and not extracted. A block of a classifier stands
  although the row says allow during panic-relax (`handler.go:986`). A slow
  flush drops ticks, so several active minutes count as one; a block from the
  YouTube memory leaves no audit row.
- *Policy.* The last entry of an allow list cannot be removed without lifting
  the list (`Narrow` excludes it); a threshold of zero in the settings counts as
  none (`SettingLimit`).
- *Accounts.* Two administrators who delete each other at once leave none
  (`users.py:115`). A revert restores what was loaded and may
  promote a user another request has demoted (`users.py:98`). Capitals in the
  cookie's address pass the guard against deleting oneself (`users.py:120`).
  Two first-run setups can both succeed (`auth.py:93`). A login with the old
  password may get a session signed with the new secret (`auth.py:285`).
- *Ledger.*
  The id of a deleted item may come back, so that an administrator or the
  retention who read the old one takes the new (`quarantine.py:86`,
  `cleanup.py:66`); `RetentionSparesPending` therefore supposes that nobody
  deletes. `post_decide` holds the write lock while it asks OPA, and a busy flush
  is a 500 (`decide.py:409`). A device with a synthetic MAC is never merged with
  the one the scanner finds (`decide.py:102`).
- *Sampler.* Frames whose classification fails are left out, so that a video may
  pass on the word of one frame (`sampler.go:339`); `sampler.go:154` says that
  the proxy must allow a video it was not given frames of, which it does only
  when failing open (`handler.go:725-729`).
- *Scanner.* The API's `trigger_scan` (`routers/scanner.py:32`) sends no token
  and the control plane answers 401 without one (`scanner.py:369`), so the UI's
  sweep is a 502 although `deploy/pods/seenoevil.sh:281` announces it. A busy
  on-demand scan costs the periodic one its turn; a signal cuts on-demand scans
  off and waits up to a minute when the periodic scan is off; a late report
  overwrites a newer address.
- *Data directory.* With only `policy.db` present a snapshot is an error
  (`Eligible`), though the docstring (`backup.py:36`) says missing entries are
  skipped. Partial archives count for the retention. A copy of the live files
  may mix two states of the database.

## 5. Proofs

| theorem | for every value of the constants |
|---|---|
| `QuotaSafe` | `Spec => []QuotaInv`, types included |
| `SettledIsRecordedAlways`, `ConservationAlways` | the two safety properties of the reporter |
| `QuotaImplementsMeter` | `Spec => Meter!MeterSpec` |
| `OvercountIsAmbiguousAlways` | a minute recorded twice was in a heartbeat that nobody answered, or in one refused after its commit because its device was deleted |
| `LeftAloneAlways` | `MonitoredSpec => []LeftAlone`: the promised pause is kept up to the 28th failure in a row |
| `RightHostAlways`, `LeafStableAlways` | a leaf is for its host, and stays, with the empty name too |
| `BoundedWhileNamedAlways` | the bound of the cache, until a leaf is cached under the empty name |
| `InspectionSafe` | `Spec => []InspectionInv` |
| `OutagesFollowThePolicy` | `FailClosedHolds` and `OutageNeverBlocks` |
| `FlaggedIsBlockedAlways`, `AuditNeverContradictsAlways`, `MemorySafe` | the other safety properties of the pipeline |
| `PolicyInvariant` | types, and every stored answer is the one its engine gives |
| `OpaNeverLaxerAlways`, `DenyWinsAlways`, `TighteningIsSafe` | the three properties of the policy |
| `LedgerSafe` | `Spec => []LedgerInv` |
| `LedgerImplementsTrail` | `Spec => Trail!TrailSpec` |
| `LedgerTypesAlways`, `RegisteredRowsVerifyAlways`, `RetentionSparesPendingAlways`, `QueuedOnceAlways` | unique ids and foreign keys, and the properties of rows and items |
| `AccountsSafe`, `UpdatesKeepAnAdminAlways`, `SetupIsWholeAlways`, `ConsumedStateStaysDeadAlways` | the invariant and the properties of the accounts |
| `SamplerSafe`, `SlotsAddAlways`, `FileIsPrefixAlways`, `WorstFrameDecidesAlways`, `AllowedWasScannedAlways` | the invariant and the safety properties of the sampler |
| `DataDirSafe`, `NothingLeftOutAlways`, `WholeArchiveRemainsAlways`, `VerifiedStaysAlways`, `CycleIsHonestAlways` | the invariant and the properties of the data directory |
| `ScannerSafe`, `LockIsScanAlways`, `OkMeansListedAlways`, `AssignmentStaysAlways` | the invariant and the safety properties of the scanner |

*Assumptions.* Only the named ones on the constants (`QuotaAssumption`,
`LeafCacheAssumption`, `InspectionAssumption`, `PolicyAssumption`,
`LedgerAssumption`, `AccountsAssumption`, `SamplerAssumption`,
`DataDirAssumption`, `ScannerAssumption`), which TLC evaluates in the runs. No
theorem supposes more: where a property is true of the code only on a condition,
the condition is in the property, and section 4 says what happens without it.

*Quota.* `Conservation` and `SettledIsRecorded` are not inductive alone: a
success could settle minutes the counter does not have. `PostPending` says that
the heartbeat in flight is part of the counter and that nothing is credited
during a flush; with it every step preserves `QuotaInv`, and each step of the
pipeline maps to a step of the meter or a stutter (`Credit` to `Earn`,
`HeartbeatCommit` and `LateArrival` to `Record`, `PostOK` to `Settle`,
`Restart` to `Forget`). *Overcounting* needs the heartbeats that are still on
their way: `OvercountInv` counts their minutes as ambiguous before they are
recorded. It does so by the cardinality of a set of pairs, a heartbeat and one of
its minutes, instead of a sum over the set, which would be recursive; a heartbeat
that is abandoned adds as many pairs as it has minutes, one that is served late
moves them to the rows. *The back-off*: `MonitorInv` says that the minutes gone since a failure and
the ticks still to wait add up to what was promised, and that nobody is posted, or
about to be, who has to wait; a tick moves one minute from the second to the
first. `BackoffTable` computes `BackoffMinutes` for the first 28 failures, where
the product is positive, and finds the promise; `Deadline` counts what is left of
it from the start of the flush.

*Leaf cache.* The invariant adds what a goroutine carries between its critical
sections: a minted leaf is for the canonical host of its own request, and an
entry has a certificate. This `HostInv` is inductive whatever an eviction takes,
so the right host and the stable leaf hold with the empty name too; the bound needs
that the scan of a full cache finds a victim, which it does while every key has a
name (`VictimIsOne`).

*Inspection.* `Pipeline(r)` says how far a request is from what it has heard:
past the image stage the image judge is satisfied or was not asked, and so on.
The properties follow from it at delivery. `MemoryBounded` needs cardinality
facts about removing one element and adding one.

*Policy.* `RulesFollow` shows rule by rule that where both read the data alike each
Rego rule has a value, and that it is silent, or allows, only when Python's is
silent, or allows; `RegoNeverLaxer` lifts this to the answers and
`PolicyInv` to what `post_decide` stored, with the engine setting and OPA reached or
not. `DenyWins` rests on `BlockWins`: a rule
that blocks wins when no rule before it allows, and on `Blockers`: only the two
allow lists can allow. For tightening, `Tighter` says
what the edits have in common, `RulesNotLooser` that no rule that blocked falls
silent and no silent rule begins to allow, and the least rule that blocked
before then has only silent or blocking rules in front of it.

*Ledger.* `TypeOK` is not inductive alone: a new id is one above the largest,
and nothing in the types keeps it from running away. `CallOrder` (rows and items
exist only for calls that are stored) and `Numbered` (no id is above the number
of such calls) bound it; that the largest id exists at all is proved from the
well-foundedness of `<`, because `Max` is a choice. `BatchResolved` carries the
retention from the transaction that selects to the one that deletes: an id of the
batch is still that of a resolved item, unless an administrator has deleted
something, after which ids come back. For the refinement a commit is `Decide`,
what comes before it and every failure is a stutter, `Discover`,
`DeleteDevice` and `DeleteProfile` are `Register`, `Remove` and `RemoveProfile`, a resolution is the `Review` of the
one item that has the id by then, and `DeleteBatch` prunes.

*Accounts.* `UpdatesKeepAnAdmin` speaks of moments when no update is between its
write and its post-check; in between there may be no administrator. `Recoverable`
says what saves the household then: some account is an enabled administrator, or
would be one if the pending requests wrote back what they have in memory. The
last request that found no administrator reverts its own change; one that cannot
commit its revert is a disturbance, as a deletion or a restart is.

*Sampler.* `Settled`, `Filled` and `Judged` say for each stage of a handler what
its file and its answer are. The maxima agree with the frames because a score is
over its threshold in some frame exactly if the maximum is; `AllowedWasScanned`
needs that an answer that is no failure has at least one classified frame.
`SlotsAdd` rests on cardinality facts about handlers entering and leaving.

*Data directory.* `LogComplete` says that what a connection reads is what was
last committed or restored: a flush changes where pages are, never what is read.
`ArchiveOfJob` says that no archive is younger than the snapshot in progress and
that it is whole when it prunes, so the youngest of all is never beyond the
retention. `ModelsAccounted` follows each model through a cycle of the updater: to
do, in hand, an error, or verified, unless a restore has written meanwhile.

*Scanner.* A thread waits for the answer to its own report (`OwnAnswer`), and a
handler that answers 200 has listed every device of it; deletion by an
administrator is remembered in `removed`.

*Model-checked only.* Every safety property of the runs is proved. What TLC alone
checks is liveness (`EventuallyReported`, `EveryRequestEnds`, `SlotsComeBack`,
`LockComesBack`, `SignalEnds`): proofs under fairness need
`ENABLED`, which the prover does not reason about. `RestoreBringsBack` is false,
and the run shows why.

## 6. Not modelled

- *Proxy*: previews, query rewriting, HTML and JSON redaction, configuration
  parsing (data transformations without shared state); the body buffers of
  `peekBody`, whose semaphore does not bound them; range refetch; the request
  rate limiter; the CONNECT tunnel; the encryption of the CA key and a crash
  between its two files.
- *API*: two partial updates of the runtime settings at once (`runtime.py:74`:
  one is lost); the rate limiter of logins, CSRF, trusted proxies, viewer
  routes; the OIDC discovery document, PKCE and nonce, which are not told apart
  from an exchange that fails; notifications, alerts, health, wiring, schemas,
  and views that change nothing.
- *Decisions and retention*: what the audit trail says of a decision the proxy had
  made before it asked (during panic-relax a row may say allow of a block), and of
  a request that left no row at all; `AuditNeverContradicts` is about rows of
  decisions the API made. That the retention gets through some day: it tries
  twice a day and gives up when the database is busy. The renaming of the default
  profile, which has the effect of its deletion on clients without a device.
- *Classifiers*: the models themselves and the evaluation tools; verdicts are
  inputs.
- *Data directory*: two backup commands at once or in one second, a clock set
  back, a kill between two files of one half of a restore, SQLite's shared-memory
  file, and an exception out of `prune`, on which `snapshot` unlinks the archive it
  has just written (`backup.py:139-143`).
- *UI and deployment*: no state of their own that other parts rely on.

The next composition worth having is `Ledger` with the panic switch and its audit
rows.
