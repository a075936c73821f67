# BeforeDone, modelled and verified

BeforeDone binds the claim "the task is done" to evidence. `beforedone check`
runs a verifier and saves a signed receipt bound to a fingerprint of the
relevant files; `beforedone gate`, run by the agent's stop hook, allows
completion only if every required check has a fresh PASS receipt. Next to this,
hooks and plugins record normalized events of the session in a local ledger,
from which incident reports are made. Everything lives under
`.git/beforedone/`; there is no daemon, and processes meet only in the file
system.

This directory holds TLA+ models of the parts in which those processes can
interfere, TLC configurations that check them on small instances, and TLAPS
proofs. `tla/PROJECT.json` maps every definition to the lines it models.

## 1. The system

| component | source | state | operations | hard because |
|---|---|---|---|---|
| completion check | `internal/checker`, `internal/evidence` | `receipts/<id>.json`, `receipts/latest-<check>.json`, `logs/<id>.log`, `receipt.key` | list the files, fingerprint, run verifier, fingerprint, save | no lock; the list comes from several calls of Git, whose globs are not the code's; a fingerprint is taken file by file; kills; rival runs of one check |
| completion gate | `internal/gate`, `internal/evidence/validate.go` | a cache of fingerprints for one call | load, compare, decide | files, receipts and configuration change under it; a time budget |
| event store | `internal/hooks/event_store.go` | segments, claims, `state.json`, `events.jsonl` | append, recover, import, read | kills between any two writes; loss of power; readers without a lock; older versions |
| Codex hook | `internal/hooks/codex.go` | none; Codex keeps `stop_hook_active` | append the event; on Stop, ask the gate | loop guard; hooks beside each other, killed ones |
| adapter kit | `internal/adapter` | none | decode, append a batch | a batch is all or nothing |
| DeepSeek Harness plugin | `integrations/deepseek-harness/src` | per session: pending events, chain of flushes, steered turns | capture, flush, gate a stopping turn, steer, dispose | handlers interleave at every await; time-outs after the effect; aborts |
| Pi extension | `internal/setup/pi.go` (generated TypeScript) | branch-aware guard of one correction | record, gate, correct | awaits, restarts, forks |
| incident report | `internal/incident` | `incidents/<id>/`, `latest-*.json` | locate the first divergence, write, prune | a ledger that is not in the order of time; receipts that change; aliases written in place; concurrent pruning |
| replay | `internal/replay` | a temporary worktree | load a case, analyse, plan, execute | a case that reports overwrite while it is read; a HEAD that moves; several plans, one verdict |
| integration setup | `internal/setup` | `.codex/hooks.json`, `.pi/extensions/beforedone.ts` | install, remove | files shared with the user, read and then overwritten in place |
| configuration, CLI, redaction, repository, build version | `internal/*`, `cmd` | `.beforedone.yaml`, written once | load, print | input parsing |
| schemas, fixtures, release tooling, packaging, site, docs, skills | | | | not part of the running program |

How they interact: agent hooks, plugins and users start short processes
(`check`, `gate`, `hook`, `adapter ingest`, `report`) on one worktree. Receipts
pass from checks to gates through `latest-<check>.json`. Events pass from hooks
to reports through the event store, whose writers exclude one another by a lock
on `events.lock`. The Harness plugin and the Pi extension call the CLI as a
subprocess and may see it time out after it has done its work.

What makes each part correct:

- **Check and gate.** A PASS vouches for the content the verifier saw, although
  nothing is locked and no fingerprint is a snapshot. A gate's PASS means that
  the worktree it found is the one that was verified, under the contract the
  configuration requires. Evidence is not called stale for nothing, and the gate
  answers.
- **Relevant files.** A fingerprint covers every file that the configured globs match,
  the ignored ones included, and is refused where a submodule may hide one.
- **Receipt key.** Whoever makes it, every receipt verifies with it.
- **Event store.** Batches are recorded whole, in order, once; what was
  acknowledged is never lost and remains readable; every kill is recovered; a
  lock-free read returns a ledger that existed.
- **Codex hook.** A turn is blocked once at most, so that an agent is never
  caught in a loop, and a first stop that the hook was asked about goes through only if
  it is recorded.
- **Incident report.** The divergence it names is the earliest its evidence
  supports, its timeline is the last session's, its verdict covers up nothing it
  read; the case it leaves can be loaded, and old reports go.
- **Replay.** What it says rests on one whole case, and its verdict is that of the
  verifiers it ran, in the commit it names.
- **Pi extension.** Between two inputs of the user no branch of a session holds
  more than one automatic correction, whatever comes late, fails or is cut short;
  and it is not used up by a failure.
- **Setup.** An event of Codex has one BeforeDone handler, and what is the user's stays.
- **Harness plugin.** The ledger gets the session's events without gap or
  repetition; no completion is accepted whose events are not recorded; a turn is
  forced at most once, and is let go unverified only after that; every stop is
  answered.

## 2. Modules

| module | models | checked by |
|---|---|---|
| `CompletionEvidence` | `check` and `gate` on one worktree | `MCCompletionEvidence`, three runs |
| `CompletionEvidenceProofs` | theorems about it and about `CaptureBuffer` | TLAPS |
| `ReceiptKey` | `EnsureKey`, `Sign`, `VerifySignature` around one key file | part of `Installation` |
| `CaptureBuffer` | `limitedBuffer`, with a reference definition | TLAPS, in `CompletionEvidenceProofs`; an assumption of `MCCompletionEvidence` |
| `RelevantFiles` | the listing of the files that a fingerprint covers: globs, calls of Git, submodules | part of `Installation`; `MCRelevantFiles`, one run |
| `Setup` | `setup codex`, `setup pi`, `--remove` | part of `Installation` |
| `PiExtension` | the guard of the generated Pi extension, for one session | part of `Installation` |
| `Installation` | `ReceiptKey`, `Setup`, `PiExtension` and `RelevantFiles` in one repository; Pi loads the file that setups leave | `MCInstallation`, one run |
| `InstallationProofs` | theorems about `ReceiptKey`, `Setup`, `PiExtension`, `RelevantFiles` and `Installation` | TLAPS |
| `EventLedger` | abstract: what the event store promises its callers | refinement, in `events_ledger` |
| `EventStore` | `event_store.go`, statement by statement between disk writes | `MCEventStore`, four runs |
| `EventStoreProofs` | theorems about it | TLAPS |
| `HarnessPlugin` | `index.js` and its calls of the CLI, for one session | two runs |
| `HarnessPluginProofs` | theorems about it | TLAPS |
| `CodexHook` | the hook processes, the plugin's script and `beforedone hook codex`, for one session | part of `Incident` |
| `CodexHookProofs` | theorems about it | TLAPS |
| `Divergence` | `latestSession`, `locateDivergence`, `enclosingEvents` as functions, with a reference definition | part of `Incident` |
| `DivergenceProofs` | theorems about it | TLAPS |
| `Incident` | `beforedone incident` beside hooks, checks and adapters | part of `Replay` |
| `Replay` | `beforedone replay` beside the reports, and commits | `MCIncident`, one run |
| `IncidentProofs` | theorems about `Incident` and `Replay` | TLAPS |
| `DataLemmas` | lemmas on numbers, sets and sequences that the other proofs rest on | TLAPS |

### CompletionEvidence

Each run of `check` and each gate is a process; `pc` is its phase. `ListFiles`
is Git's listing, `ReadNext` the reading of the next file in sorted order, and
between any two of these steps any file may be edited, any other process may
step. What a path holds (`Contents`) stands for what Lstat, the mode in the index
and the digest say of it. A tracked file that was removed is listed and read as
missing (`Absent`); an untracked one that is gone is not listed (`Unlisted`);
one that vanishes between listing and reading is read as missing.

| code | action |
|---|---|
| `cli.check` up to `checker.Run` | `StartRun` |
| first `FingerprintContext` | `ListBefore`, `ReadRelevant` |
| verifier started, ended | `StartVerifier`, `EndVerifier(r, outcome)` |
| second `FingerprintContext`, verdict, log, `Save` | `ListAfter`, `ReadRelevant`, `SaveReceipt` |
| `atomicWrite` of the alias | `RemoveLatest` (where a rename cannot replace), `PublishLatest` |
| an error or a kill | `FailRun` |
| `EvaluateWithBudget`, one pass of its loop | `GateNoReceipt`, `GateLoadOther`, `GateLoadPass`, `GateOverBudget` |
| `ValidateBindingContext` | `GateContractChanged`, `GateList`, `GateRead`, `GateRemember`, `GateCannotRead`, `GateCompare` |
| the decision | `GateDecide` |

History variables: `past` (what a path held earlier), `exposed` (what it held
while a verifier ran), `atStart` and `earlier` (the worktree, and the runs whose
verifier had begun, when a gate began). No action of the program reads them.

Abstractions: reading one file is one step, that is, a file is replaced as a
whole. Redaction and the content of the log are left out, the capture buffer and the
signing key have modules of their own; a receipt whose signature does not verify, or that cannot be read,
is one that cannot be loaded (`GateNoReceipt`).

### RelevantFiles

`CompletionEvidence` takes the listing of files for one step of Git; `RelevantFiles`
takes it apart. A path and a pattern are sequences of characters, since what is
at stake is that two dialects of globs agree: `Pieces` and `Matches` are the regular
expression that `compileGlob` makes (for each number of pieces, where in the path they
may end), `GitPieces` is what Git makes of the same pattern as
a pathspec, and is external. `status` is what Git says of each path, and may change
(`Change`) between any two calls.

| code | action |
|---|---|
| compiling the patterns | `Call` |
| `ls-files -co`, `collectGitFiles` | `ListFiles` |
| `ls-files -oi` with a batch of pathspecs (`ignoredPathspecBatches`) | `ListIgnored`, as long as patterns are left |
| `ls-files --stage`, `collectGitIndex` | `ListIndex` |
| `patternMayCoverGitlink` for each submodule | `CheckGitlinks` |
| Git fails, a limit, time is up | `FailListing` |

History variable: `been`, what Git has said of each path since the call began.

### EventStore and EventLedger

A batch is a set of event ids; a segment has a number and a batch, its digest
being the batch itself. A file is created under a temporary name and linked, so
it appears by one step; the flush of its directory is a step of its own
(`Flush`), and until then a loss of power may undo it (`unflushed`, `LosePower`:
any subset of what was not flushed is lost, and `state.json` is any version since
the last flush). A writer may fail, or be killed, at every step (`FailAppend`);
the lock goes with it, the files stay.

| code | action |
|---|---|
| `acquireEventLedgerLock` | `AcquireLock` |
| `reconcileEventStore` | `Survey`, `Import`, `Recover` (the next id, in the code's order of segments and lines, without a claim), `Reconcile`, `Restate`, or `Refuse` |
| rejection of a batch | `Reject` |
| `commitEventSegment`, `ensureEventIDClaim`, `saveEventStoreState` | `CommitBatch`, `ClaimNext`, `SaveNewState`, `Accept`, each with its `Flush` |
| `readEventStore` | `StartRead`, `List`, `ReadLegacy`, `ReadState`, `ReadSegments`, `FailRead` |
| an older BeforeDone | `OldAppend` |

`EventLedger` knows no files: callers ask, a batch is added whole or not at all,
answers come later, and a read returns one ledger that there was between its
beginning and its end. `Ledger == INSTANCE EventLedger WITH ...` reads the
segments, in order, as that ledger; recovery, claims, summaries and flushes are
stutters.

### HarnessPlugin

One JavaScript thread; each handler is cut where it awaits the CLI.
`flushState` appends a request to `chain`; the head takes what is pending
(`Ingest`), and when the CLI ends (`EndIngest(o)`) the acknowledged front of
`pending` is removed and the follower may begin. `o` is what the CLI did:
`"stored"`, `"failed"`, or `"unsure"`: stored, but timed out, killed or with its
output lost, which the plugin cannot tell from a failure. An abort of the turn
counts as a failure whatever was stored. As in `appendEventBatch`, a batch with
an event already in the ledger is rejected whole.

The harness itself is external and modelled by what `index.js` relies on: it
awaits the stopping handler unless the turn is aborted, and turns start one
after another. The handler of an aborted turn may thus resume when the next turn
is running.

### PiExtension

The guard (`stopState`) is a variable of the extension; `branch` is the session's
current branch with the guard's entries, the user's inputs and the corrections
sent. The handler of `agent_settled` is cut at its two awaits (`Recorded` or
`NotRecorded`, then `GateAllows` or `GateBlocks`); the first waits for its turn in
`ingests`, the queue of events to record. `RequestOneCorrection` runs in one
go. `Input` and `CorrectionInput` are the `input` handler, the latter for the
correction's own input event, whose time Pi chooses. `Restart(n, there)` is a start of Pi,
the first or one after a kill, and loads the extension if it is there; `Rewind(n)` is a
session start in the same extension. Each is on a prefix of the branch: what a crash
left, or the earlier entry the user continues from. Without the extension the user
types unseen (`InputUnseen`). The extension is read once, when Pi starts: what a
setup or a removal does later shows at the next start.
History variables: `unwritten`, `spoiled`.

### CodexHook, Divergence and Incident

A hook is a process: `Fire` is Codex starting it, `Stamp` the event's
`time.Now`, `Record` the append, and `AnswerOrGate` what
`codexWithValidationBudget` then does; `LoseEvent` and `NoRepository` are its
error paths, `JudgeStop` any answer of configuration and gate. Two ends come before all that,
and leave the event unrecorded and a stop unjudged. `NoCompatibleCLI` is a message with exit code
0: the plugin's script finds no CLI (`codex-hook.sh:60`, `codex-hook.ps1:53`), or the CLI is of
another major version (`cli.go:634`). `RefuseInput` is an error without an answer: the input
is too long or not one JSON object (`codex.go:48-67`). An event is stamped
before the lock of the ledger is awaited, so events are recorded out of order.
Codex is external: it awaits the hook of a Stop, sets `stop_hook_active` when the
agent goes on because it was blocked, and kills a hook after its timeout; a message or a failing
exit does not keep the agent from stopping. One hook is asked about a stop: whoever enables the
plugin and the project's own hooks together has two (`setup/codex.go:99` warns of it). A
`SubagentStart` is one that names its agent (`incident.go:175`); one that does not is recorded and
read as a `SessionStart`, and is one here.

`Divergence` has the algorithms over events and receipts, and `EarliestSupported`,
which says without any order of events what they must find. What an adapter's event
claims of a failing check (check, argv, verdict, perhaps the receipt) is a set of
at most one claim; five minutes are the constant `Delivery`.

| code | action of `Incident` |
|---|---|
| `ReadEvents` | `ReadLedger` (`Timeline` is what is made of it) |
| a round of `assessReceipts` | `ReadReceipt`, `NoReceipt`, both ending in `Assess` |
| `locateDivergence`, `MkdirAll` | `MakeDirectory` |
| the three files | `WriteFile`, `LoseDirectory` if another report removed it |
| the two aliases | `TruncateCase`, `WriteCase`, `TruncateIncident`, `WriteIncident` |
| `prune` | `ListOld`, `RemoveOld`, `Finish` |
| an error, a kill | `StopCreate` between truncation and write; elsewhere, going no further |

The runs of checks and the adapters are what a report sees of them. `os.WriteFile`
truncates when it opens and writes at the beginning, so of two that
overlap the shorter text may be followed by the rest of the longer one (`Over`).
History variables: `supported`, `torn`, `blocks`. Listing the directories is one step,
and so is `os.RemoveAll`.

Two things the model shows that no document rules out. Reports that end together may
remove each other's directories, the newest included, so that with a small
`reports.retain` fewer than that many stay and a report may fail or name files that
are gone. And when a failing check has no event on one side, a report is
`unlocated` even if a later failing check is enclosed.

### Replay

| code | action of `Replay` |
|---|---|
| `replay analyze`, `verify`, `verify --execute` | `CallReplay` |
| `LoadCase` | `ReadBegin`, `ReadRest`: a report may truncate and write the alias between the two |
| the selected checks, `rev-parse HEAD` | `NameCommit`, where a dry run ends |
| `worktree add --detach HEAD` | `AddWorktree` |
| `executePlan`, and what it adds to the verdict | `RunPlan`, once for each check, in order |
| the worktree removed, an error or kill | `EndReplay`, `StopReplay` |

A commit may be made at any time (`MakeCommit`), so the commit that is named may not be the one that
is checked out. What a replay has read is two pieces, each the text of some reports (`case`
is a sequence of them, one after another where writes overlap); text of two
reports may or may not parse. The verifier of a plan ends with zero or not, is late, or
cannot be started.

### ReceiptKey, CaptureBuffer, Setup and Installation

`EnsureKey` is `LookAtKey`, `CreateKey` (the exclusive open) and `WriteKey`; a run
can be stopped between any two. `Sign` reads the file again. A key is known by the
command that made it, a file that was not written to its end is `Short`. The user
may remove a short key once a command has refused it, also while its maker holds it open,
and `.git/beforedone` when nothing runs.

`CaptureBuffer` has no state: `Written` is one call of `Write`, `Captured` what the
buffer should be after all output. That the one leads from the other to the other
is proved for all of them, and assumed by `MCCompletionEvidence` for outputs and
writes of up to three bytes, so that TLC evaluates it in each of its runs.
`replay.go` has the same buffer again.

`Installation` conjoins the next-state relations of `ReceiptKey`, `Setup`, `PiExtension` and
`RelevantFiles`. They meet in one place: `Loads` says whether Pi, when it starts, finds an
extension in the file that setups left; one over which two writes lie (`Garbled`) may or may
not be a program, an emptied one is none.

A run of `setup` reads (`ReadHooks`, `ReadExtension`, where `Outcome` is what it makes
of what it read), opens the file and thereby empties it (`OpenFile`), and writes
(`WriteFile`); `RemovePi` removes the file in one step (`RemoveFile`). `Over` is
what two writes of unequal length leave. In `hooks.json` an event has groups of
handlers; a handler is the user's, BeforeDone's of some installation, or an old one
of BeforeDone that names none. A file that is not of this form is refused, like an
unreadable one. An object without the key `hooks` is taken for one without events; a removal
that finds nothing there would not write it back. The user edits a file between any two
steps except while a run has it open. History variables: `handlers` and `owned`,
what is the user's, and `overtaken`, that the user edited between a run's reading and
writing: then the edit is lost, which nothing in the code prevents.

## 3. Runs

`Fault:` in a module marks an operator that changes a definition as a plausible
bug would. It is used by no specification; `PROJECT.json` names for every
property a definition that, replaced by its fault, makes TLC find the property
violated. So each property is known to be able to fail in its own run.

| run | instance | result |
|---|---|---|
| `evidence_one_check` | 1 check, 1 run, 1 gate, 2 files (1 tracked), 3 contents, 3 configurations, 2 edits; kills, lost logs, spent budget | `TypeOK`, `PassBinds`, `GateSound`, `NoFalseStale` |
| `evidence_two_checks` | 2 checks with a run each or two runs of one, or no checks, 1 gate, 1 file, 1 edit; I/O errors, lost logs, spent budget | `GateSound`, `GateAnswers` (liveness) |
| `evidence_failing_exit` | a verifier that exits non-zero | violates `NonZeroExitRemainsFail` |
| `events_crashes` | 2 writers, 3 overlapping batches of 3 events, with and without `events.jsonl`; kills anywhere, 1 loss of power | `TypeOK`, `LedgerIntact`, `AcceptedReadable`, `NeverRefused`, `AcceptedKept`, `LockIsFreed` (liveness) |
| `events_ledger` | 2 writers, 1 reader, 2 batches, a ledger of 2 events at most, 1 append of an older version | `LedgerSpec` (refinement), `NothingOmitted` (action property) |
| `events_power_recovery` | as `events_crashes` | violates `CrashRecovered` |
| `events_empty_legacy` | 1 writer, `events.jsonl` empty | violates `AcceptedReadable` |
| `harness_turns` | 2 turns, 3 stops, 4 events, 2 queued flushes, every outcome | `LedgerInOrder`, `AllowedIsRecorded`, `ForcedOnce`, `UnresolvedWasForced`, `IInv`, `StopsEnd` (liveness) |
| `harness_buffer` | 1 turn, 2 events | violates `BufferCanBeWritten` |
| `incident_reports` | up to 3 hooks, or 2 checks, 2 imported events and 2 reports in the mixes of `MCIncident`; clock up to 4, 1 directory retained; every fault of hooks; 1 replay, 1 commit, 2 required checks | `IncidentTypeOK`, `DivergenceIsEarliest`, `SessionKept`, `VerdictIsSupported`, `LatestCaseLoads`, `Retained`, `BlockedOnce`, `StopOnRecord`, `ReplaySound` |
| `installation_setup` | 3 setups or removals, 2 installations, 1 edit, old handlers at first or none; 3 commands that make the key, 1 erasure; a Pi session of 3 settled runs, 3 inputs, 3 starts; listings of 5 paths by all patterns of up to 4 characters, in batches, 1 change of Git; kills | `InstallationTypeOK`, `OneHandler`, `ForeignKept`, `OwnKept`, `SignedVerifies`, `ShortHasCause`, `OneCorrection`, `GuardOnBranch`, `RelevantListed`, `SubmodulesRefused`, `CorrectionNotWasted` (action property) |
| `files_pathspec` | the same paths, each ignored, by every such pattern, `**` anywhere | violates `RelevantListed` |

Why the bounds suffice: a fingerprint that is no snapshot needs two files, one
read before and one after an edit; two edits are one before and one after a
listing, or one of a file and one of the configuration; contents `a` and `b`
and no file are what comparisons tell apart. Two checks are needed for the shared
fingerprint and for a receipt loaded later than it; two runs of one check for
the alias; there a killed run is one that goes no further, since the gate waits for none. In the store two writers let one build on what the other left, and
batches `{1,2}`, `{2}`, `{3}` give a retry, an overlap, an independent append and
a ledger at its limit; in `events_ledger`, where the limit is smaller, a batch of new events is
refused for it alone. One reader is enough, readers leave no trace. Three stops
are a second stop of one turn and a stop of the next. In a Pi session three settled runs are two
handlers at one guard and one more after an input or a session start; the bounds on
inputs and on starts are not reached together (`NotBoth`).
A prompt and two stops are the shortest turn that could be blocked twice. An event on
each side of a check is a window, an event and two checks a choice between claims, an event two
ticks after the only check one that comes too late for it, two
reports the shortest interleaving of writes and prunings; `MCIncident` bounds what runs
together by a set of such mixes, and its action constraint `OthersFirst` lets a
report write only when the others have come to rest: from there on nothing that one
reads the other changes, and no property relates the two. Of two failing checks of which
the first has no window the run has no instance: that would take two checks and
two events.
Of three setups two overlap and a third finds what they left; of three commands one
makes the key, one finds it broken, one makes it anew. The five paths have a name, a longer
name with the same beginning, and files one and two directories down; four characters over `a`, `*`,
`?` and `/` make every kind of segment before and after `/`, with `**` where Git
agrees that it crosses directories. Every status of one file is listed under each such pattern; the mixed
trees, where Git changes its mind between two calls, under three patterns of which two fill a batch.

A replay begins to read when hooks and checks rest, and what it does after reading when reports
are over (`ReplaysLast`): its reading interleaves with two reports, and afterwards it reads
nothing that they write.

`MCSpec` explores `Installation` part by part. Of the four parts only Pi reads a
variable of another, the file of the extension, and no property relates two of them, so that a
state of the composition is checked if the state of each part is. A part
therefore moves while the others are where they began, and Pi moves with the extension installed
once for all (`InstalledOnce`), and in a shorter session between two setups and a removal
that are over or killed half-way (`Reinstalled`). What setups do between two
starts of Pi they may as well do after the first. That each step of
the composed `InstallationSpec` is a step of one part, and a stutter of the others, is the theorem
`InstallationHasParts`; what the parts promise they therefore promise together
(`InstallationTypeCorrect`, `InstallationKeeps`).

`CHECK_DEADLOCK FALSE` is set everywhere: bounded edits, turns and appends end,
and a ledger that is full or refused stays so.

Fairness: `GateAnswers` assumes that a gate's process is scheduled
(`WF(GateWork(g))`): it waits for nobody. `LockIsFreed` assumes that of the
holder of the lock; a killed holder is a step of its own, and the operating
system frees its lock. `StopsEnd` assumes that every call of the CLI ends,
which `abortScope` in `process.js` enforces by a timer. Nobody is assumed to edit,
append, stop or abort, and no result to be good.

## 4. What is proved

`CompletionEvidenceProofs`, for every number of files, checks, runs and gates,
every configuration, pattern list and bound:

| theorem | statement | assumptions |
|---|---|---|
| `TypeCorrect` | `Spec => []TypeOK` | `EvidenceAssumption` |
| `Inductive` | `Spec => []IInv` | and `~Reverts` |
| `PassBindsHolds` | `Spec => []PassBinds` | and `~Reverts` |
| `GateSoundHolds` | `Spec => []GateSound` | and `~Reverts` |
| `NoFalseStaleHolds` | `Spec => []NoFalseStale` | `EvidenceAssumption` |
| `BufferCaptures` | the buffer of a verifier's output is `Captured` after any number of writes | none |

`~Reverts` says that no edit puts back what a path held before. Without it `PassBinds` and
`GateSound` are false: a file may be changed while the verifier reads it and be put
back before the second fingerprint.

The argument. `PassBinds` is not inductive: nothing in it says what a first
fingerprint, taken file by file, has to do with what a verifier saw later.
`IInv` adds that.

1. `PastIsGone`: content once replaced is gone. Hence if a path *still* holds
   what was read there earlier, it held nothing else in between.
2. `RunsTrack`: what a run has first read of a path the path held then
   (`FirstReads`); so, once the verifier has begun, if the path holds that still,
   the verifier saw nothing else there (`VerifierSaw`); so the second
   fingerprint agrees with the first only on paths of which that is true
   (`SecondReads`).
3. `ReceiptsTell`: a PASS receipt says what the run found twice. 1-3 give
   `PassBinds`.
4. `GatesTrack`: for a run whose verifier began before the gate did, whatever the
   gate finds at a path, in its current reading or in its cache, agrees with
   the run's first reading only if the path held just that when the gate began
   (`Agrees`). This is how a fingerprint taken for one receipt can be compared
   with another.
5. `PassesVouched`, `PassVerdicts`: what the loop counts as a pass stays vouched
   for until the answer.

`RunsWellFormed`, `AliasLeadsToReceipt` and `GatesWellFormed` say which files
exist in which phase. With `TypeOK` they are inductive by themselves
(`BaseInvariant`), with no assumption on `Reverts`, and are proved first. The rest is one
lemma per conjunct, each with a step per action that can disturb it, and frame
lemmas for those that cannot.

`NoFalseStale` is about the other direction and rests on another invariant, `Finds`. What a
fingerprint says of a path that nobody edited depends on the content of the file and on the
index, and on nothing else (`Recorded`): not on who takes it, when, in which order or beside
what. So every reading that is under way (`ReadSoFar`), every receipt and every entry of a
gate's cache (`Unedited`) agree on such paths. What a gate calls stale differs from what
it took itself (`StaleDiffers`), so on a path that was edited. Whether edits put old content
back does not matter. An edit is one at whatever time, before the receipt as well: the property
is about worktrees, or parts of them, that nobody touches.

`HarnessPluginProofs`, for every number of turns, stops, events and queued
flushes, and every subset of the outcomes of the CLI, from `PluginAssumption` alone:

| theorem | statement |
|---|---|
| `Inductive` | `Spec => []IInv` |
| `LedgerInOrderHolds` | `Spec => []LedgerInOrder` |
| `AllowedIsRecordedHolds` | `Spec => []AllowedIsRecorded` |
| `ForcedOnceHolds` | `Spec => []ForcedOnce` |
| `UnresolvedWasForcedHolds` | `Spec => []UnresolvedWasForced` |

The argument. That the ledger is in order says nothing of what is yet to be
written, and that a turn was forced once nothing of what the plugin remembers.

1. `QueueFollows`: `pending` is `a+1 .. made`, the ledger `1 .. l`, and `a <= l`.
   The two may overlap, after a call that stored the batch and was not believed;
   then the ledger refuses what begins with `a+1`. If a batch is stored, there is
   no overlap (`StoredFollows`), so it goes where it belongs.
2. `FlushesAreOfStops`: a handler that waits has exactly one flush in the chain,
   and a batch handed over on its behalf reaches up to its stop. So
   the end of that flush, and of no other, takes the handler to the gate, and then the stop is in
   the ledger: `GatedIsRecorded`, hence `AllowedIsRecorded`.
3. `SteeredIsKnown`: `steeredTurns` tells who was forced, except for turns that have
   ended (`TurnEnd` forgets them). A handler that outlives its turn was
   aborted, and `Failed` forces nobody who is aborted. Hence `ForcedOnce`; and who is
   found in `steeredTurns` was forced, hence `UnresolvedWasForced`.

`IInv`, of these and `TypeOK`, is also an invariant of the run `harness_turns`.

`CodexHookProofs`, for every number of hooks and every subset of the faults, from
`HookAssumption`:

| theorem | statement |
|---|---|
| `BlockedOnceHolds` | `Spec => []BlockedOnce` |
| `StopOnRecordHolds` | `Spec => []StopOnRecord` |

The argument. The flag `stop_hook_active` was true of the turn when the hook was started,
and the answer comes later. `OneWaits` says that no two hooks are about to answer a stop,
`FlagHolds` that the turn has not moved since the flag was set, and `FreshTurn` that a turn
that is not a continuation has not been blocked: so a hook that blocks is the first
to do so. `GateIsFirst` keeps what was known when the gate was asked: the stop is a
first one, and recorded. `StopOnRecord` does not say that every stop is on record. A first stop
without a record went through in one of two ways: the hook ended before it knew of
the event, and wrote a message or failed; or Codex ended it, or did not get its answer.

`StopsStayRecorded`, of `IncidentProofs`, states both beside reports, checks and adapters.

`EventStoreProofs`, for every number of writers, readers, events and batches, every limit, and
any number of kills, of losses of power and of appends by an older version, from
`EventStoreAssumption`:

| theorem | statement | further assumption |
|---|---|---|
| `StoreInvariant` | `Spec => []IInv` | |
| `TypeCorrect` | `Spec => []TypeOK` | |
| `AcceptedStaysKept` | `Spec => []AcceptedKept` | |
| `LedgerStaysIntact` | `Spec => []LedgerIntact` | |
| `StoreNeverRefused` | `Spec => []NeverRefused` | |
| `AcceptedStaysReadable` | `Spec => []AcceptedReadable` | `{} \notin Legacies` |
| `ReadsOmitNothing` | `Spec => NothingOmitted` | |
| `StoreIsLedger` | `Spec => LedgerSpec` | `MaxPowerLosses = 0` |

The argument. The properties hold under different circumstances, and so does the
invariant, in three layers.

1. `Base`, whatever happens: only one writer has the lock (`WritersHold`); what is accepted, or
   about to be, is a segment that was flushed (`AcceptedHold`), so that no loss of power takes it;
   and a reader will find what it owes in the segments it listed or in
   `events.jsonl` (`ReadersHold`).
2. `Powered`, as long as the power stays on: the segments are numbered without a gap and
   without repetition, only the last may lack claims, and no summary tells of one that lacks
   one (`ClaimsHold`); what a writer knows of them is true (`WriterKnows`). A writer that was
   killed leaves just such a state, and the next one claims what is missing.
3. `Untouched`, as long as no older version writes either: `events.jsonl` is what was
   imported, every summary says so, and nobody is refused (`LegacyHolds`).

The refinement takes the link that makes a segment for the point where a batch is added.
All else that a writer writes, recovery included, is a stutter of the ledger, and what a
reader returns is the ledger of one moment, since segments only come at the end. Two
assumptions cannot be dropped. A loss of power may take a segment that was linked, not flushed
and not yet answered for, which an abstract ledger never does. And where an empty `events.jsonl`
is found, `AcceptedReadable` is false (run `events_empty_legacy`).

`DivergenceProofs`, for every sequence of events with times and every set of receipts whose
verifiers took time, from `DeliveryAssumption`:

| theorem | statement |
|---|---|
| `LastSessionIsKept` | the timeline of a report is in the order of time, has every event after the last root of a session and none before a root, whatever the order of the ledger |
| `LocateIsEarliest` | of events in the order of time `Locate` finds what `EarliestSupported` says |

`Sorted` is shown to be a permutation first: the place of an event is the number of those that
are earlier, and no two have the same.

`IncidentProofs`, for every number of hooks, checks, imported events, reports, replays, commits
and required checks, and every number of directories retained, from `IncidentAssumption`,
`HookAssumption`, `DeliveryAssumption` and `ReplayAssumption`:

| theorem | statement |
|---|---|
| `IncidentInductive` | `IncidentSpec => []IncidentIInv` |
| `IncidentTypeCorrect` | `IncidentSpec => []IncidentTypeOK` |
| `DivergenceStaysEarliest` | `IncidentSpec => []DivergenceIsEarliest` |
| `SessionStaysKept` | `IncidentSpec => []SessionKept` |
| `VerdictStaysSupported` | `IncidentSpec => []VerdictIsSupported` |
| `CaseStaysLoadable` | `IncidentSpec => []LatestCaseLoads` |
| `DirectoriesStayFew` | `IncidentSpec => []Retained` |
| `StopsStayRecorded` | `IncidentSpec => [](BlockedOnce /\ StopOnRecord)` |
| `ReplayInductive` | `ReplaySpec => []ReplayIInv` |
| `ReplayStaysSound` | `ReplaySpec => []ReplaySound` |
| `ReplaysObserve` | `ReplaySpec => IncidentSpec` |

The argument.

1. `LedgerHolds`, `RunsHold`: others only append to the ledger and publish receipts that stay
   as they are. So what a report has read, a beginning of the ledger and some
   receipts, remains what it was, and `DivergenceHolds`: what it found is what
   `Locate` finds in them. The theorems of `DivergenceProofs` do the rest.
2. `ReadsHold`: after each receipt the verdict is PASS exactly if every check read so far is
   supported, and FAIL exactly if a failing receipt was found.
3. `CaseHolds`: unless it is torn, the alias is one report's text, or empty while one
   report writes it, and the report's own files were complete before.
4. `DirsHold` counts directories, and it has to do so for every set of reports that are pruning:
   whichever of them come to their end, no more remain beside those they will remove than are
   retained, but for one for each report that is being made or was given up.
5. `ReplayRests`: what a replay read first is the alias as it is, or nothing, or begins with
   another report than the alias does now, so that a case with one beginning and one end is
   whole. With which exits the verdict agrees is said while the plans are run.

With no check a replay would pass without having run anything; `ReplayAssumption`
leaves that out because `config.Validate` demands a check. A replay writes nothing that
the others read (`ReplaysObserve`), so that all of the above holds with replays.

`InstallationProofs`. Of `PiExtension`, for every number of settled runs, inputs and session
starts, with the extension or without it at each, from `PiAssumption`:

| theorem | statement |
|---|---|
| `PiInductive` | `PiSpec => []PiIInv` |
| `PiTypeCorrect` | `PiSpec => []PiTypeOK` |
| `OneCorrectionHolds` | `PiSpec => []OneCorrection` |
| `GuardOnBranchHolds` | `PiSpec => []GuardOnBranch` |
| `CorrectionNotWastedHolds` | `PiSpec => CorrectionNotWasted` |

The argument. That a branch has one correction says nothing of its prefixes, and a user
may continue from any of them.

1. `Separated`, of every branch and so of every prefix: a correction comes right after the
   guard's entry `used`, and between it and anything that gives the guard back
   (`free`), or a further correction, the user has typed. Two corrections since the last input
   are thereby excluded.
2. `GuardKnows`: while a correction is open the guard in memory is used, because it is
   either what was restored (`OpenIsRestored`: from a separated branch with an open correction
   `used` is restored) or what the handler itself set. So no handler, however late its
   answer, sends a second one. And a used guard has an open correction unless `spoiled` says
   why not, which is `CorrectionNotWasted`.
3. `GuardOnBranch` is kept along with it, and needs what each entry does to `Restored`
   (`RestoredAfter`).
4. `HandlersHold`: the queue has each handler that waits for it once, and only a loaded
   extension has handlers.

Of `Setup`, for every number of setups, removals, installations and edits, and hooks files
of any number of events, groups and handlers, from `SetupAssumption`:

| theorem | statement |
|---|---|
| `SetupInductive` | `SetupSpec => []SetupHolds` |
| `SetupTypeCorrect` | `SetupSpec => []SetupTypeOK` |
| `OneHandlerHolds` | `SetupSpec => []OneHandler` |
| `ForeignKeptHolds` | `SetupSpec => []ForeignKept` |
| `OwnKeptHolds` | `SetupSpec => []OwnKept` |

The argument. A run decides from what it has read and acts later. So each needs an
invariant of the runs that have read: a run holds a file in which BeforeDone is called once and,
unless the user overtook it, every handler of the user's is there in its order (`SetupHolds`);
and once the user's extension is there, no run is on its way to write or remove it, except one
that the user overtook (`OwnIsLeft`). That what a run makes of a file is such a file
(`OutcomeIs`) is an induction over its groups and over the handlers of each:
stripping leaves the foreign handlers (`StripKeepsAliens`), leaves none of BeforeDone's
(`NoSpots`), and one is then added (`OneSpot`). `SetupAssumption` has it that in the file
found at first an event that calls an installation of BeforeDone's calls BeforeDone once; where
a user wrote it down twice, a setup of that installation finds its handler there and leaves
the event as it is (`codex.go:67`).

Of `RelevantFiles`, for every finite set of paths, every list of patterns, every status of every
path, every size of a batch and any number of changes, from `FilesAssumption`:

| theorem | statement | further assumption |
|---|---|---|
| `ListingInductive` | `FilesSpec => []ListingHolds` | |
| `FilesTypeCorrect` | `FilesSpec => []FilesTypeOK` | |
| `RelevantStaysListed` | `FilesSpec => []RelevantListed` | `GlobsAgree` |
| `SubmodulesStayRefused` | `FilesSpec => []SubmodulesRefused` | |

The argument.

1. `HandedOver(k)`: the first k patterns have been handed to Git, and whatever was ignored all
   the time and matches one of them is in the list. A batch is never empty (`BatchIs`) and is
   what is dropped from the patterns that are left, so at the end k is their number.
   A file that was never ignored or absent is found by the first call.
2. `GlobsAgree` says that Git finds under each of the patterns what the compiled matcher
   accepts. It cannot be dropped: the run `files_pathspec` shows what escapes where it is
   false. For the patterns and paths of the run `installation_setup` TLC evaluates it, as an
   assumption of `MCInstallation`.
3. `MatchStarts`: up to its first wildcard a pattern is its own pieces, so a path that it matches
   begins with the same characters. This follows the recursion of `Pieces` from the
   end of the pattern and that of `Matches` from its beginning. A path below a submodule
   begins with the submodule's name and `/` as well; of two beginnings of one path one is the
   beginning of the other, and then `MayCoverGitlink` says so (`CoversWhatIsBelow`).
4. `LinksHold`: what was a submodule all the time is known as one when the
   patterns are compared.

Of `ReceiptKey`, for every number of commands, stops and erasures, from
`KeyAssumption`:

| theorem | statement |
|---|---|
| `KeyInvariant` | `KeySpec => []KeyIInv` |
| `ReceiptsVerify` | `KeySpec => []SignedVerifies` |
| `ShortKeyHasCause` | `KeySpec => []ShortHasCause` |

The argument. A whole key is replaced by nobody: it is created only where there is no file, and
removed only when short, or when nothing runs. So a command that has signed finds at the
end the key it signed with.

And of the four together, in `Installation`:

| theorem | statement |
|---|---|
| `InstallationHasParts` | `InstallationSpec => KeySpec /\ SetupSpec /\ PiSpec /\ FilesSpec` |
| `InstallationTypeCorrect` | `InstallationSpec => []InstallationTypeOK` |
| `InstallationKeeps` | every safety invariant of the four, but for `RelevantListed`, which needs `GlobsAgree` |

`DataLemmas` has what the proofs share. The theorems on induction of the library take an operator
as a parameter, which the provers cannot instantiate; here induction over numbers
(`Induction`) and over sequences (`SeqInduction`) is stated of sets, and follows from the
fact that a set of numbers has a least one (`Least`), which also makes `Min` and `Max` defined.
A recursive function is a `CHOOSE`, so that it has first to be shown that there is one
(`UnrollsSomehow` for `FlattenSeq`, `PiecesSomehow`, `MatchedByEnds`).

Only model-checked: liveness, that is `GateAnswers`, `LockIsFreed` and `StopsEnd`, which is out of
the prover's reach. `GlobsAgree`, which is a fact of Git's globs and the patterns of a
repository, is evaluated for the paths and patterns of one run. Every safety invariant, action
property and refinement that a passing run checks has a theorem.

## 5. Findings

1. `evidence_failing_exit`. A verifier that exits non-zero while a relevant file
   changes leaves INCONCLUSIVE, not FAIL (`checker.go:98` comes after the exit code
   and overrides it), and the gate lets INCONCLUSIVE pass with a warning.
   `SECURITY.md:63`: "A non-zero process exit remains `FAIL`".
2. `events_empty_legacy`. With an empty `events.jsonl` writers accept what readers
   reject for good (`event_store.go:180` against `273` and `293`).
3. `events_power_recovery`. A writer completes the work of a killed one
   without flushing the directory of the segment it found
   (`event_store.go:301-337`, `811`). After a loss of power its durable claims may
   name a segment that is gone, and every later append is refused.
   Nothing that was acknowledged is lost (`AcceptedKept`).
4. `harness_buffer`. After a flush that was stored but not acknowledged, the buffer
   holds events that the ledger has. `appendEventBatch` rejects every batch that
   begins with them, so nothing of the session is recorded any more and no stop
   is accepted.
5. `files_pathspec`. The patterns are handed to `git ls-files -oi` as they are
   (`fingerprint.go:289`). Git's globs let two stars cross directories only where they are a
   whole segment; `compileGlob` makes `.*` of them anywhere (`fingerprint.go:382-391`). With
   `**a`, or `src/**.go`, an ignored file deeper down matches, is in no fingerprint, and may change
   without a receipt becoming stale. `fingerprint.go:305-307`: "Git emits a safe
   superset that our compiled matcher filters exactly".

## 6. Hazards without a property

`PROJECT.json` lists the hazards of the code at their lines, with the properties
that cover them. Two have none:

- A relevant file that is changed and put back while the verifier runs
  (`checker.go:98`). Two fingerprints cannot see it: the properties are stated for
  `Reverts = FALSE`.
- A case of more than the 4 MiB that `LoadCase` reads (`replay.go:71`): sizes of texts are not in
  the model, and it would take some 100 000 events.

Three more things the models do and no property rules out. An answer of the gate that arrives
after the next input is charged to that input (`pi.go:434`); no document promises
otherwise. A setup that is killed between emptying and writing a file leaves an empty one
(`setup/codex.go:95`, `pi.go:51`): setup and removal refuse it from then on, the
user's handlers in it are lost, and Pi starts without the extension. And a command killed while it
makes the receipt key leaves one that every later command refuses until it is removed
by hand (`store.go:326`); `ShortHasCause` says that nothing else does.

## 7. Plan

Done, in this order:

1. `CompletionEvidence`, its runs, its proofs.
2. `EventStore` and `EventLedger` with the refinement.
3. `HarnessPlugin`, its runs, its proofs.
4. `PiExtension` and its proofs.
5. `CodexHook` and its proofs, `Divergence`, `Incident`, `Replay`.
6. `ReceiptKey` and its proofs, `CaptureBuffer`, `Setup`, `RelevantFiles`, `Installation`.
7. `EventStoreProofs`: the invariants, the action property and the refinement.
8. `DivergenceProofs` and `IncidentProofs`.
9. `NoFalseStale`, and the buffer after any number of writes.
10. In `InstallationProofs` the hooks file, the listing and the composition.

Next:

11. What `GlobsAgree` rests on: that Git's globs and the compiled ones agree on every path for
    patterns in which two stars are a whole segment, by the recursion of `GitPieces`.
12. A theorem of `CompletionEvidence` with `Reverts`: what a PASS binds where a file may be put
    back while no verifier runs.

## 8. Not modelled, and why

- Repository discovery, redaction, the normalization of events and all of the configuration but
  what makes a pattern valid (`Valid`): they parse or rewrite text and keep no state; their
  results enter the models as values.
- Of the listing of files: repositories embedded in the worktree without being submodules (Git
  emits the directory only); names with a newline or with bytes that are no text, of which `?`
  takes one byte in one dialect and one character in the other; the escaping of characters that
  mean something in a regular expression, which all stand for themselves here.
- The sizes of texts: a case, an output of Git, a batch of pathspecs in bytes (a batch is
  counted in characters of its patterns).
- Of `replay`: the plan's text, the environment of its verifiers, and what they do in the
  worktree, beyond how each ends.
- Schemas, fixtures, release tooling, packaging and the site, which are not part of the running
  program.

The hashes, the HMAC of a receipt and the file
system are taken to be what they are supposed to be: equal digests mean equal
contents, a link or rename is atomic, a flush makes durable. The last is so on Unix. On
Windows the flush of a directory is ignored where the system does not offer it
(`event_file_lock_windows.go:31-38`), and `AcceptedKept` then promises nothing of a loss of power,
as `SECURITY.md:121-125` says. `agent.steer` of the harness is taken not to throw
(`index.js:211`): a turn for which it did would count as sent back.
