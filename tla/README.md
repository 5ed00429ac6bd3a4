# Formal model of the engineering pipeline

TLA+ modules, TLC runs and TLAPS proofs for the control loop of this repository:
an agent works in a disposable workspace, a retry policy says whether it may try
again, an independent validator decides, and a rollback policy keeps or discards
the work. Code paths are relative to the repository root; `src/` is its source
directory.

## The system

| Component | State it keeps | Operations | Interacts with | Must be correct about |
| --- | --- | --- | --- | --- |
| Failure classifiers (`src/retry/failure-classifier.ts`, `classified-policy.ts`) | none | classify by class, code and text, into a kind and into a row of the client table | controller, retry policy | a failure that must stop is never read as retryable |
| Retry policy (`src/retry/retry-policy.ts`, `circuit-breaker.ts`) | counts per failure signature, total attempts, breaker | `decide`, `recordAttempt`, `recordValidationFailure`, `reset` | controller | bounded attempts; third occurrence breaks; an open breaker is final |
| Checkpoint and rollback (`src/safety/git-checkpoint.ts`, `workspace-checkpoint.ts`) | copy of the workspace, checkpoint commit, outcome file | checkpoint, preserve, roll back, restore by hand | controller, operator | the sources can always be had back; a reported restore restored |
| Pipeline controller (`src/controller/pipeline-controller.ts`) | loop flags, last outcome, status | `run`, `finalizeBlocked` | all of the above, agent, validator, evidence | only the validator's PASS becomes a success |
| Task runner (`src/execution/task-runner.ts`) | final status | `execute` | controller, extended stages, evidence pack | the published status is the verdict or stricter |
| Evidence (`src/evidence`) | the files of a run directory | write bundle, finalize pack, copy responses and results into their buckets, manifest, recovery | controller, runner, offline validator | files agree, also after a crash; a bucket shows what the checks returned, and every response |
| Validator (`src/validator`) | check results, verdict file | run checks, decide, validate a run directory | controller | mode and missing evidence decide as stated |
| Extended stages (`src/validators`) | result files | load test, red team | runner | cannot grant a success |
| Agent adapters (`src/agent`) | control files and the result file in the workspace | run, capture changes, parse results | controller, process runner | a claim belongs to its attempt; every change is captured |
| Process runner (`src/agent/process-runner.ts`) | child process, timer, output | run with timeout and output limit | adapters | exactly one result, always |
| Safety kernel and context (`src/safety`) | none; run directories | allocate a run id, scan text, check paths and commands | controller, adapters | one run per id; a violation stops the run |
| Validation checks (`src/validator/checks`, `run-checks.ts`) | browsers, pages, results; the journey file | run each check of a task | validator, fetchers, database | a PASS has seen everything the step names; nothing stays open |
| Long chain (`src/long-chain`) | list of outcomes | run every task card in order | runner, run directories | one bad slot does not hide another |
| Scenario compiler (`src/compiler`) | none | a card's bullets to checks, checks to a task | long chain, validator | no bullet without a check |
| Scenarios (`src/scenarios`) | servers, fixtures; the failure demo has a loop of its own and writes three result files | run, repair, compare | runner, retry policy | repair attempts bounded; a PASS is earned; the failed state is kept |
| Task cards, configuration, command line | none | validate, parse, start | runner | pure translations |

One process runs one task; within it nearly everything is sequential (the child
of the process runner is not, nor are the processes that share an artifacts root),
and what makes the behaviour hard is not interleaving but **order and partial completion**: two
classifiers with different priorities, a verdict taken before a later stage can
change it, several files that carry the same status, two checkpoints that each
leave something out, steps of a rollback that fail one by one, errors that leave
the sequence halfway, and a process that dies between any two steps.
`PROJECT.json` lists these hazards with their lines.

## Modules

| Module | Models | State and actions |
| --- | --- | --- |
| `FailureClassifier` | the two classifiers and the client table | pure operators |
| `RetryPolicy` | one `RetryPolicy` object and its breaker | `identicalCounts`, `totalAttempts`, `circuit`, `decision`; an action per method, the exits of `decide()` as disjuncts |
| `WorkspaceRollback` | checkpoint, preserve, rollback, manual restore, death of the process | contents of the workspace, copy and diff files as sets of items; `repo`, the repository in the workspace: what its reference and its HEAD hold, which the agent may replace, and what a reset would go to (`InspectGit`); `step` is the place in the sequence |
| `TaskRun` | `TaskRunner.execute` around `PipelineController.run` | extends the two modules above; `pc`, the loop's flags, the files that carry a status |
| `ProcessRunner` | `SpawnProcessRunner.run` | the child, its pipes, the timer, the flags and the promise (`result`); an action per callback and per event of the system |
| `OpenHandsAdapter` | the OpenHands adapter over the attempts of a task | extends `ProcessRunner`; changed files, the capture before, `resultFile`, `outcome`; the early returns are `FailureCode` |
| `AgentContract` | abstract: what the loop of attempts relies on from an adapter | `phase`, the workspace, the claim; an agent that changes the workspace only within its attempt, one outcome per attempt, final and with the whole diff |
| `RunDirectory` | the directories under the artifacts root: allocation of ids, the two bundles, the validator's files, the evidence pack, `validateRunDir` | `files` (for each directory and name the writer, the status, the checks, torn or not), `log` (what was decided in each run); a file is an action, a run may die in it; `strangers`, `pending`, `foreign`: what other processes have listed, made and taken |
| `LongChain` | `runLongChainTasks` over those directories, or single runs | extends `RunDirectory`; `cards`, `outcomes`, `exitCode`; the three ends of a card are actions |
| `ScenarioCompiler` | `compileTechnicalScenario`, `technicalScenarioToTask`, the tasks of the scenarios and of two cards | pure operators on sets of matched patterns |
| `Validation` | `IndependentValidator.validate` with every check | extends `ScenarioCompiler`; `results`, `walked` (the journey), `browsers`, `pending`; a step, or an action of the journey, is an action |
| `FailureDemo` | `runFailureDemo` with both agents | extends `RetryPolicy`; catalog, failed-state files, repair loop, result files, the shop |
| `EvidenceTree` | the evidence of the checks, and the copies `finalizeEvidencePack` makes of it | `validation`, `responses`, `journal`, `shelves` (for each bucket and name the run and the status it shows, torn or not), `log` (what the checks returned); a file is an action, a run may die in it |
| `CheckpointContract` | abstract: what a run promises about the workspace it lets an agent work in; `WorkspaceRollback` and `TaskRun` both implement it | `phase`, `workspace`, `copy`, `commit`; nobody works before the copy is whole, nothing changes it afterwards, a rollback puts back only originals and what the commit holds by then, originals or a commit of the work's own; the copy can always be laid out again |
| `VerdictGate` | abstract: judged once, kept or discarded by the verdict, published unchanged or stricter | `phase`, `verdict`, `kept`, `published` |
| `MC*` | the instances for TLC | |
| `*Proofs` | the theorems | |

How data is abstracted:

- A message is a model value with the set of keyword families (`Words`) that the
  regular expressions of the classifiers find in it. `FreshMessages` are texts
  that never repeat because they carry a time or a count.
- A workspace is a set of items: a source file, a hunk in a tracked file, a new
  file; `Ignored` and `NodeModules` say which of them git and the copy leave out,
  `Nested` which lie in a repository of their own, and `AgentTrees` what an agent may
  commit. Git settings with which `reset` or `clean` do something else are left out,
  and so is a repository that was in the workspace before the run.
  A diff file is the set of changes it shows.
- Output is a sequence of lines, and a limit a number of lines; a report carries
  the attempt that wrote it, which the code cannot see. The diff of an answer leaves
  out the adapter's own control files.
- A file of a run directory is its writer, the status and the kind of checks in it,
  and whether its writer died in the middle. The tasks differ in mode and required
  files. Modelled by name are the files that carry a status, the checks or the task;
  `final-report.html` stands for `execution.log`, `test-results.json`, `recovery.json`
  and `summary.html` too, which the pack writes again in the same way, and `summary.md`
  for the rest of the bundle.
- Another process on the same artifacts root lists it, makes its directory and writes
  there, each a step that may fall anywhere. What is in its files is left open, and so
  is which of them it writes, of the set `ForeignNames`.
- The name of a check is the set of words in it that the pack looks for; names are in
  lower case, as those the compiler makes are.
- A bullet of a card is the set of patterns it matches; a check is what it looks at.
  The system under test may give any answer a check tells apart, and each launch,
  navigation and write may throw.
- A catalog of the failure demo is the set of facts that the checks find in it; the
  fixtures say which facts the buggy and the reference catalog show. The text of a
  failure is the failed checks with a reading: what stands for the numbers in it (exit
  code of the tests, number of products), which the signature keeps.
- Counters saturate at the bounds the code compares them with.
- What the agent, the tests, the validator's checks and the extended stages do is
  left open: any change of the workspace, any outcome of a given set, any status
  they can return. Tests may write to the workspace like the agent.
- Left out: timestamps, texts of logs and reports, redaction, file names. The
  breaker's `half_open` state has no caller.

Some operators are marked `Mutant:` in a comment. Each is a definition as a
plausible bug would have it; no specification uses them. `PROJECT.json` says which
property each must break when it takes the place of the original.

## Runs

| Run | Question | Instance |
| --- | --- | --- |
| `RetryPolicy_Safety` | does the policy stay bounded and consistent, and is nothing retried that must stop? | four failures that may be retried, by kind and by row, one with a fresh text and one that is refused by code and class but says "timeout"; three that must stop whatever else their text suggests |
| `WorkspaceRollback_Safety` | are the sources recoverable at every step and after every failure, and do checkpoint, rollback and restore keep the contract? | source, ignored source, package; hunk, new file, ignored new file, a file in a repository of its own; an agent that commits its hunk and new file, or an empty tree |
| `TaskRun_Safety` | does any file ever show a success nobody gave, does the task implement the gate and the checkpoint contract, is a stop heeded, can no step be repeated for ever, and does a task end? | one source, a hunk, a new file; seven outcomes covering every way the loop ends |
| `OpenHandsAdapter_Safety` | is the answer of an attempt one, complete and of the right kind, does the adapter keep its contract, and does every attempt end? | two attempts, a file on the allowlist and one that is not, three kinds of lines, both output limits |
| `LongChain_Safety` | is what the artifact validator accepts judged so, whatever died where, and is what a chain reports on disk? | two runs, of this or of other processes; two numbered directories, the pinned id and two slot ids; two tasks and a broken card; other processes write `status.json` and `scenario.json`; a chain may be empty, mixed, or lost and started again |
| `FailureDemo_Safety` | is a PASS of the demonstration earned, is the failed state kept, and is its shop closed? | three demonstrations after each other; the repository's fixtures, a reference wrong in one fact or in all, a bug that is none; two readings |
| `EvidenceTree_Safety` | do the buckets show what the checks returned, and every response? | two runs in one directory; a database and a network check with two words each, a journey, a response without a word; a task that has one name twice |
| `Validation_Safety` | does a PASS rest on every step, every bullet and every action, and does any browser stay open? | three compiled cards with a bullet for each rule, several matches and none; the tasks of both scenarios and of two cards |

The bounds suffice for these questions: budgets are small but on both sides of
`MAX_RETRIES` (4 in the retry runs, 2 in the task runs), so that option and
constant each decide somewhere, and the safety kernel accepts them
(`maxIdenticalRetries <= maxTotalAttempts`); the counters have no further values
to take. Each kind of item occurs once, and the actions treat items of a kind
alike; the proofs cover every number of them. Two attempts, and two runs that
may share a directory, are enough for what one leaves to the next, or for a run and
another process (`MaxRuns` counts both; the theorems have any number of each); three
demonstrations let a demo find the files of a failed and of a passed one, and two
readings let the same checks fail with other numbers. The runs of one root follow
each other, except for those of other processes, which run beside single runs only
and take their numbers from a listing; two processes with the same configured id at
the same time are left out. Only the
runs of `RetryPolicy` check for deadlock: a task, a restore, an attempt, a chain, a
demonstration and a validation end.

### Where the code and its documentation disagree

Each of these runs checks one statement of the documentation or of a comment, and
TLC finds a behaviour of the model against it.

| Run | Statement | What happens |
| --- | --- | --- |
| `RetryPolicy_TotalCap` | `docs/SAFETY.md`: caps on identical/total attempts | a failure that matches a retryable row is never compared with the total budget; with a text that changes each time the loop has no bound |
| `OpenHandsAdapter_StaleReport` | `agent-request.ts`: commands "recorded for this attempt" | `agent-result.json` of an earlier attempt is read again |
| `Validation_OrdersThere` | descriptions of the compiled order checks: "is present", "at least one item" | the check compares with `undefined` only: `null` and 0 pass |
| `Validation_EvidenceOnDisk` | `docs/VALIDATION.md`: required evidence filenames exist | `evidence_present` looks in the list `writeBundle` returned, which lacks three of the names the compiler asks for: a compiled card never passes |

Others can be read from the modules and have no run of their own:

- `docs/FAILURE_DEMO.md` and `retry-policy.ts` have an unsafe failure stopped at once.
  `failure-classifier.ts:58` reads a timeout in the text before `:62` looks at the code,
  and where no row of the client table stops the failure (`MALFORMED_OUTPUT`,
  `NETWORK_DENIED`) it is tried again, up to
  `min(maxTimeoutRetries, 3) - 1` times. `RefusedFailuresStop` states what holds: the
  failure has no stopping row, and its code or text reads as one that may repeat.
- `git-checkpoint.ts` reports "workspace restored to pre-agent checkpoint". When
  `git add` fails (on a directory that holds a repository without commits, say)
  `commit --allow-empty` still succeeds, and the reset to the empty commit deletes the
  sources; the copy still has them (`SourcesRecoverable`). When the reference is gone, or
  `update-ref` had failed, `HEAD` is taken in its place, also a commit of the agent's,
  and its work stays. `git clean -fd` leaves what is ignored, and repositories below the
  workspace. `RestoredIsClean` and `CheckpointContract` allow exactly this and no more.
- The pack describes `scenario.json` as the plan "for this run". Under a pinned id, or a
  number that is shared, the file of the first run that packed there stays
  (`evidence-pack.ts:231`), with the task and criteria of that run, whole or torn by its
  death; `ReturnedDirectoryAgrees` names it as its exception.
- A comment calls the number of a run id "the next free sequence". Nothing holds it
  between the listing and the mkdir, and after a listing that fails it is 1
  (`execution-context.ts`); the second process then works in the workspace and the
  artifacts of the first. `FirstInDirectory` says when that cannot be.
- `docs/VALIDATION.md` calls exhausted retries a BLOCK. An exhausted `RETRY_ONCE` or
  `AGENT_INVESTIGATE` sets no hard stop, and a PASS of the validator stands.
- The comment on `applyRollbackPolicy` has anything but a success restored. An
  extended stage can turn a preserved PASS into a BLOCK (`FateIsVerdict` states what
  does hold).
- `docs/ROLLBACK.md` has `git-diff.patch` captured before the restore. The evidence
  pack overwrites it from `diff.patch`.
- `git-checkpoint.ts` promises a reviewable diff always. It is that of the last
  attempt, or `git diff`, which shows no new file.
- `database/README.md` says that no database evidence was produced, also when a
  database check ran: the buckets go by words in the name, and neither `db-state` of
  the public catalog nor a compiled `...-order-...-db` has one of those for
  `database/` (the second lands in `api/`).
- Two bullets that begin with the same 48 characters share a check id: the file of the
  second replaces that of the first, while the results list both.
- Copies of an earlier pack stay under a pinned run id, and the manifest lists them as
  evidence of the later run; hence the condition of `AnswersAreShelved`.

## Fairness

`Terminates` assumes weak fairness of `TaskStep`, every step but a crash:
`execute()` is one asynchronous function that runs on, the process runner kills an
agent at its timeout, and the checks have timeouts of their own. Two assumptions
are worth naming. A descendant of the agent that keeps the pipes of the killed
process open would delay its `close` event; `TaskRun` has none. And the run has
no fresh texts: with them the loop need not end, which is what
`RetryPolicy_TotalCap` shows.

`DemoEnds` assumes weak fairness of `DemoStep`: the demonstration is one sequence of
calls, its requests go to the server of the same process and its tests run in a
`spawnSync`; each of them returns or throws. There is no timeout around either, so
a test process that hangs would hold the demo; the model has none.

`EndsUnlessHeld` is about exactly that descendant. It assumes weak fairness of the
timer, of the end of a child that was sent SIGKILL, of the delivery of `error` and
`close`, and of the adapter that awaits the promise; neither of a child that ends by
itself nor of a descendant. A descendant that has let go of the pipes is taken not to
write any more.

## Proofs

Theorems hold for every value of the constants that satisfies the named
assumptions: budgets are naturals, the first two positive (the constructor
refuses others), failures are well typed, edits and sources are disjoint, a hunk
is in no ignored file, claims are outcomes of the adapter, tasks, cards and fixtures
are of their kinds, named run ids are no numbers, and the sentinels `Absent` and
`Broken` are none of the values they stand beside.

- `RetryPolicyProofs`. The invariant is the type invariant with
  `ThirdOccurrenceBreaks`. The argument goes through `decide()` exit by exit: a
  retry is granted only below a cap of at most `MAX_RETRIES`, and every other exit
  trips the breaker. The action properties are consequences of the same case
  split; `RetriesAreCounted` says that a granted retry uses up one of finitely many, if
  no text is fresh. `RefusedStop` goes through the classifiers for every failure the code
  refuses, by code or by class: one that is granted a retry matches no stopping row of
  the client table, and its code or text names a timeout or a repeatable row.
- `WorkspaceRollbackProofs`. `SourcesRecoverable` is not inductive: it needs that
  the metadata is written only for a complete copy and the copy is not written to
  afterwards (`Sealed`), that nothing changes the workspace before (`Untouched`),
  that a restore fills an emptied workspace from the copy only (`Refilling`), and
  that a reset can only go to sources or to a tree of the agent's (`RepoKnown`). These
  parts (`CopyInv`)
  are kept by any caller that works on the workspace only while `step` is "ready"; with
  them each action maps to one step of `CheckpointContract` or to none
  (`RollbackImplementsContract`). `ContractSuffices` shows what the contract is worth
  without the code: a copy that exists is the whole original, nobody has worked without
  one, nothing of the work outlives a recovery, and after a successful rollback only
  what is in the commit it reset to. `NothingCommitted` is the corollary for agents that
  never commit: what is left of their work git ignores, or lies in a repository below.
- `TaskRunProofs`. `Flow` ties `pc` to `step` and says which results exist where,
  `Judged` that a success is the validator's on the workspace as it still is,
  `Recorded` what each file holds at each place, `Fated` that the outcome follows
  the status; `Heeded` carries a stop of the policy from the attempt to the verdict,
  and `PolicyInv` the invariant of `RetryPolicy` through the task. With them the invariants follow, and each action maps to one step
  of `VerdictGate` or to none (`TaskImplementsGate`); `GateSuffices` shows that the gate
  alone gives that a published success is the verdict on work that was kept.
  `TaskDescends` is the safety half of `Terminates`: the
  bounded counts of retries never fall, and with every step one of them grows, or the
  place, the step of the rollback or the set of files still to copy comes nearer to its
  end. It
  assumes that no text is fresh, as the liveness run does. `TaskKeepsCopy`
  carries `CopyInv` through the task, so that `TaskRecoverable` and
  `TaskImplementsContract` follow from the lemmas of `WorkspaceRollbackProofs`.
- `OpenHandsAdapterProofs`. A promise is resolved only when nothing of the child is
  left (`Settled`), and a command that was not started has changed nothing
  (`NeverRan`). After that nothing moves until the next attempt, so that the outcome
  is the function `Outcome` of the state for as long as it stands (`Answered`), from
  which the theorems can be read. `AdapterImplementsContract` maps an attempt to one
  of `AgentContract`: the agent lives only while its attempt is open, so that what the
  capture sees is all it has made.
- `LongChainProofs`, first part: `RunDirectory`. The files are compared with `log`, which no code keeps:
  `Decided` and `Present` say what the log holds at each place, `Told` that every file is
  of a run that worked there and was given the success it shows, `WrittenByBundle` and
  `WrittenByPack` which files are the running run's at each place, `Backed` that a success
  in `status.json` has its checks beside it, `Left` what a returned run leaves behind.
  What they say of files they say of directories no other process has taken; `Taken` says
  that the taken ones exist, so that a listing passes them over. `FirstInDirectory` is part of the invariant, and
  needs that the number taken is the least above all that exist (well-founded induction
  on the naturals) and that no other listing was open meanwhile.
- `LongChainProofs`, second part. Each step of a chain is a step of `RunDirectory` or leaves it
  alone, so its theorems carry over; `Placed`, `Collected` and `Numbered` tie the list
  of outcomes to the runs.
- `EvidenceTreeProofs`. `Logged` says that what a file shows was returned, but for the
  answer whose response is still to be written; `Filed` that the files of the results so
  far are of this run; `First` that the first run that packs finds the buckets empty, and
  `Own` that it then puts nothing older beside its responses.
- `ValidationProofs`. `Counted` and `Judged` tie the results to the steps done,
  `Walked` the journey to its results, `Open` each browser to the place that closes it.
  `BulletsChecked` needs what `compileTechnicalScenario` collects from a card of any
  length, an induction over its bullets; it is done without an induction rule: the first
  bullet that would be lost is the least element of a set of naturals, and the one
  before it was not (`CompiledCard`).
- `FailureDemoProofs`. `Flow` says what is on disk and in hand at each place,
  `Recorded` what the result files can show, `Bounded` ties the attempts to the
  invariant of the retry policy. `DemoDescends` is the safety half of `DemoEnds`: every
  step starts one of finitely many demonstrations or repairs, or is nearer to the end
  of the present one.

Only model-checked: `Terminates`, `EndsUnlessHeld` and `DemoEnds` (liveness under fairness
is out of the prover's reach; of the first and the last the part that is not, the descent,
is proved), and the statements of the runs that find a disagreement.

## Not modelled, and the plan

What is left:

1. A second run with a pinned id over the checkpoint of the first: nothing in the code
   or the documents says what should hold.
2. The public catalog scenario from its server to its result, of which the task and the
   failure demonstration are modelled: it calls `TaskRunner.execute` once, and what it
   adds has no state that outlives the call.

Not planned: pattern lists of the safety kernel and redaction (string matching),
configuration, task-card schemas and the command line (no state), the HTML of the demo
servers and of the report (layout), screenshots (nothing reads them back), the mock
adapter (fixed answers).

`evaluation-demo` holds most of the implementation lines of the repository: a sanitized
snapshot of a shop that serves as sample input. The pipeline reads its fixtures and
copies its small catalog app into workspaces, but calls nothing of the shop; parts of
the shop's backend are missing, and its storefront is pages and queries. It is not
modelled. Of the pipeline itself, `src/` with 13,435 lines, somewhat less than half is
mapped; the rest is schemas, texts, pattern lists, fixtures and HTML.
