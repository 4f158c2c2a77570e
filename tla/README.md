# szl-calibration in TLA+

This directory holds a formal model of szl-calibration: TLA+ modules translated from the
source, TLC configurations that model-check them on small instances, and proofs that the TLA+
proof system (TLAPS) checks for every value of the constants. Paths below are relative to the
repository's root; `receipts.py:47` means `src/szl_calibration/receipts.py`, line 47.

## 1. Inventory

| component | state | operations | interacts with |
|---|---|---|---|
| receipt chain (`receipts.py`) | list of receipts, genesis hash, mutex | `append`, `verify`, `to_jsonl`, `len` | called by every scoring route; shares payload objects with callers |
| HTTP service (`service.py`) | one chain, three Prometheus meters, per process | `score`, `receipts`, `healthz`, `verify_receipts`, three async routes (`decisions`, `local_decision`, `evidence_plan`), the `observe` middleware | receipt chain, metrics, decisions, planner, local decisions; thread pool and event loop of the server |
| Jev transport (`jev.py`) | event, one-slot queue, connection, worker thread, snapshot of the request | `evaluate`, `validate_request`, `validate_response` | the provider, through `http.client`; called by the CLI |
| Jev CLI (`jev_cli.py`) | temporary file, receipt path | `main`, `_write_receipt` | Jev transport, file system, other runs with the same path |
| weight gate (`gates.py`, `gate_cli.py`) | bytes read, spans, cursor, counters | `validate_safetensors`, `main` | a file somebody may still be writing; CI reads the exit code |
| alerts and scraping (`deploy/`) | pending alerts | rule evaluation, scraping | the meters of the service |
| metrics (`metrics.py`) | none (pure) | bins, ECE, MCE, Brier, log loss, AUROC | service, decisions |
| decision studies (`decisions.py`, `decision_cli.py`) | none (pure) | `parse_study`, `assess_decisions` | service, planner, metrics |
| evidence planner (`evidence_planner.py`, `evidence_cli.py`) | none (pure) | `plan_evidence` | decisions, service |
| local decisions (`local_decision.py`) | none (pure) | `answer_local_question` | service |
| release gate (`.github/scripts/szl_pypi_release_gate.py`, `publish-pypi.yml`) | staging directory, PyPI's list of versions | `gate_package`, `main`, publish job | GitHub releases, PyPI |

What is hard in it:

* **Concurrency.** Plain routes run on pool threads, async routes on the event loop; both
  append to one chain under one blocking mutex. The Jev caller and its daemon worker share an
  event, a queue and a connection the caller may close under the worker. Several CLI runs
  publish to one path. Two release runs may race for one version.
* **Shared objects.** A payload is still the caller's when it is hashed; a receipt handed out
  must not be the one in the list.
* **Failure.** A privileged writer may edit the list; the process restarts and forgets its
  chain; a CLI run is killed, or the machine loses power, between two steps; every system call
  may fail after an observation was paid for.
* **Time.** The caller's timer races a late answer, a late connect and the socket's own timer.
* **Boundaries.** Byte limits, contiguous spans, empty tensors, one-slot queue, pool size.

What makes each component correct:

* *Receipt chain:* an append-only log; every receipt handed out stays unchanged at its index;
  the untouched chain verifies; a kept export binds the history it covers; a chain that is
  broken stays broken.
* *Service:* a receipt for every 200 of a scoring route, none for a 413, 415, 422 or 503;
  meters, reports and chain agree; nothing is appended to, or reported healthy of, a broken
  chain; every complete request is answered.
* *Jev transport:* one request at most; only whole answers that fit the request that was sent,
  described by a summary of that request; a wait that only a read of the answer prolongs, no leaked
  worker.
* *Jev CLI:* what stands at the path is complete and never replaced; exit 0 is earned; an
  observation that is lost shows in the exit code.
* *Weight gate:* what is not blocked partitions the data bytes; exit 0 means clean floats; a
  right layout is never blocked; the read is bounded.
* *Alerts:* a condition that lasts is alerted on.
* *Metrics:* every row is in one bin and the right one, finer bins never hide a gap, AUROC is
  its pairwise definition.
* *Decision studies:* eligibility is earned by every declared group, nothing that makes a study
  worse makes its verdict better, orders of lists decide neither verdict nor reasons (the top-label
  metrics do follow the order of tied classes).
* *Local decisions:* a refusal comes before the table is looked at; a table is read as a study
  reads it.
* *Evidence planner:* along every sequence of proposals, findings and replanning: the
  foretold posterior is the next prior, gains are information gains, prerequisites come first,
  the budget holds, the loop ends, and a certain verdict is the assessment's.
* *Release gate:* the files PyPI has of a version come from one gated build whose tag names it.

## 2. Modules

| module | models | checked by | proved in |
|---|---|---|---|
| `ReceiptLog` | what a chain promises: an append-only log that acknowledges positions | `IsLog` of `chain` | refinement in `ReceiptChainProofs` |
| `ReceiptChain` | `receipts.py` | `chain` | `ReceiptChainProofs` |
| `Service`, `MCService` | one worker of `service.py` with the chain as a log | `service`, `service_live` | `ServiceProofs` |
| `JevAnswers` | `validate_request`, `validate_response` of `jev.py` | `jev_transport` | `JevTransportProofs` |
| `JevTransport`, `MCJevTransport` | `evaluate()` of `jev.py` | `jev_transport`, `jev_late_connect`, `jev_stalled_read` | `JevTransportProofs` |
| `JevCli` | `jev_cli.py` | `jev_cli` | `JevCliProofs` |
| `WeightGate`, `MCWeightGate` | `gates.py`, `gate_cli.py` | `weight_gate` | `WeightGateProofs` |
| `Monitoring` | `deploy/grafana-alerts.yaml`, `prometheus.yml` | `monitoring`, `monitoring_chain` | temporal only |
| `Metrics` | `metrics.py` | `studies` | `StudiesProofs` |
| `LocalDecision` | `local_decision.py` | `studies` | `StudiesProofs` |
| `Decisions` | `decisions.py`, `decision_cli.py` | `studies` | `StudiesProofs` |
| `EvidencePlanner` | `evidence_planner.py`, `evidence_cli.py` | `studies` | `StudiesProofs` |
| `Studies`, `MCStudies` | the four computations as the service and the CLIs answer them, and the loop of replanning | `studies` | `StudiesProofs` |
| `ReleaseGate`, `MCReleaseGate` | `szl_pypi_release_gate.py`, `publish-pypi.yml` | `release_gate` | `ReleaseGateProofs` |
| `SetInduction` | no code: lemmas on induction and finite sums | | itself |

`Studies` extends `LocalDecision` and `EvidencePlanner`, which extends `Decisions`;
`JevTransport` extends `JevAnswers`. A proof module extends the module it is about;
`WeightGateProofs`, `JevTransportProofs` and `StudiesProofs` also extend `SetInduction`. Some invariants are conjunctions of named parts (`BreakInv`,
`SendInv`, `AnswerInv`, `PathInv`, `AdmissionInv`, `BinsInv`, `LocalInv`, `OrderIrrelevant`,
`PublishedInv`): a run checks the conjunction, each part has its own comment.

A module that models code holds, next to some definitions, a variant of them marked *Mutant*:
the same code with a plausible mistake. No specification uses them. Put in the place of the
definition they follow or precede, they show that a property can fail; `PROJECT.json` lists
which variant breaks which property.

### ReceiptChain

Payloads are objects in a heap, named by references; a receipt holds a reference, so aliasing
between the caller's dict, the receipt in the list and the receipt handed out is visible
(`receipts.py:46` and `:55` are the two copies that prevent it). A digest is the tuple of what
is hashed: SHA-256 is taken to be free of collisions, nothing else. `append` is four steps,
the ones at which others may run: `Snapshot` or `RejectPayload` before the lock, `Acquire`,
`Refuse` or `Prepare` (verification, fields, hash) under it, and `Commit` (append, copy,
release). `verify`, `len` and `to_jsonl` are each one hold of the lock, hence one step; the
result of `verify` is the operator `Verified`, the text of `to_jsonl` is kept by `Export` as
one a client may retain. Around it, callers may `Mutate` any payload object they can reach,
and a privileged writer may `EditPayload`, `Forge` (replace a receipt by one with a fresh,
matching hash) and `Truncate`, all of them without taking the lock into account except that
Python runs them one at a time.

`ReceiptLog` is what remains of it for a caller: recording an entry puts it at the end and
acknowledges its index, as long as no privileged writer has acted (`trusted`, mapped to
`tampers = 0`). From the first edit on the log allows anything and never becomes trusted again.

### Service

One worker process. A request moves through the statements of its route; `st` is where it is.
`pool` is the set of requests on a pool thread, `loop` the one that holds the event loop,
`lock` the one inside `append`. The verification of the chain and the append are two steps
under the lock, reads of the chain wait for it. The three async routes have the same shape and
are one route, `study`: check, content type, body in chunks, parse on the loop, computation on
a pool thread, append on the loop. Validity and length are separate holds of the lock in the
code and separate steps here. `Corrupt` is the privileged writer, `Restart` the end of the
process with everything process-local. `ReceiptChain` has the inside of `append`. The writer
does not wait for the mutex, so the chain may break between an append's verification and its
commit; `ceiling` remembers how long the chain may still get.

Two kinds of 500 are in the model. A computation may raise what its route does not catch
(`Computed`): `local_decision.py:128` calls `math.isfinite` on an integer beyond the floats, an
`OverflowError`, while the route catches `TypeError` and `ValueError`. And a study's answer is
rendered after its receipt was appended (`Commit`): an option that is a lone surrogate passes
every check, is hashed as ASCII, and then fails as UTF-8. A 500 hence tells a client nothing
about receipts, and `AnswersTellReceipts` claims nothing about it; it claims that every other
status does.

### JevTransport and JevAnswers

The worker's program counter follows `perform()` line by line, the caller's `evaluate()`.
The connection is `http.client`'s: `close()` drops the socket, a later send connects again by
itself. A response is read through a buffered file of its own, which keeps the socket open. If the
provider keeps the connection alive, the connection remembers the response (`kept`) and its
`close()` closes that file too (`CloseHeld`, then `CloseResponse`), for which it needs the lock a
read of the worker holds until it returns (`blocked`): the caller waits for the read, and each
byte that arrives gives the read another socket timeout. If the provider announced that it closes
(`Connection: close`), the response has taken the socket over and `close()` returns at once. An answer is a number of chunks; a cut body reads as an end of body, and is then no
JSON document. There is no clock: the caller's timer may run out whenever the queue is empty.

`given` is the dict the caller passed in; `Change` is another thread of the calling program
writing to it. `Check` (jev.py:103 to 140) reads it, `Start` (line 141 on) serialises whatever it
holds by then and parses it back: `snapshot`, which every later use of `request` means
(`RequestNow`). A snapshot may therefore be a request the checks have not seen, and be sent;
`validate_response` validates it once more, so that its answer is never returned. `AnswerInv`
is about what is returned.

`JevAnswers` has what the two validations accept. Probabilities are counted in units, with the
tolerances as numbers of units; labels and levels are numbers; everything that is only checked
for its form is one Boolean (`clean`).

### JevCli

Runs that share one `--receipt` path. `tmp` is the content of a run's temporary file, `synced`
whether it reached the disk, `path` whose file the path names. `Kill` ends a run between two
steps; `PowerLoss` ends all, empties what was not synced and may take the path's name away,
because the code does not sync the directory. Both standard streams are open when a run starts.
What `print` writes to stdout may go out or stay in the buffer until the interpreter exits
(`Exit`), where a flush that fails turns any exit code into 120. The `print` to stderr that reports
an error with the observation stands outside the `try` and may raise as well (`ReportRaises`, exit
code 1). `failed` says which of a run's three outputs failed; `ObservationReported` says what it
takes to lose an observation.

### WeightGate

One run of the gate over one file, with the loops as steps: read, header walk, contiguity,
scan. Entries are reduced to what the checks tell apart: garbage, malformed types, metadata,
or a tensor with dtype, number of elements and span. `Grow` is another process that appends to
the file during the read. The properties are stated over the entries the header *declares*,
not over those the walk has accepted.

### Monitoring

The four rules as pairs of a series and a waiting time, the set of series the service exports,
scraping and evaluation. Times are counted in evaluations and keep the order of the rules'
`for:` values only.

### Metrics, LocalDecision, Decisions, EvidencePlanner, Studies

The four computations are operators on exact fractions: a probability is an integer over `Unit`,
a scenario's weight an integer over `Weight`, the chance that an acquisition is unavailable
one over `Tenths`. A float product on a bin boundary may round down: `low` holds the values for
which it does, so both outcomes are checked. Logarithms are the table `Ln`, in units fine enough
to tell apart the sums that occur; the confidence bound is compared squared, without a root. Each
error path is one outcome: `invalid` for a `ValueError`, `overflow` for an `OverflowError`.

`Studies` is the state machine around them. A task is one input; `Compute` answers it the way
its route or command line does. For a plan, `Collect` is whoever obtains the proposed evidence:
it enters what was found, pass, fail or unavailable, also what the scenarios held impossible,
pays, and asks again; `promise` is the distribution the last plan foretold. `EarnedBy`, the
pairwise AUROC and the like are written from the meaning, not from the code's formulas.

What a task may hold is `TasksAssumption`: the records, lists and integers a parsed JSON body
consists of, not that any of it is valid (`StudyOK`, `PlanOK` and `QuestionOK` decide that). A
batch of scores is a list of rows with at least one bin, as `service.py:57` demands.
Two clauses are about the model and not about the code. The table `Ln` is a parameter, of any
length, that does not fall and is right about the logarithm of four (`LnAssumption`); a study's
number of groups times the inverse of its alpha, also with one more of either, is in it. A table of
65 million entries has every study the code accepts, 64 groups and an alpha of one in a million
included; the one of the run has 80, for three groups at an alpha of 0.05 and one more. An alpha
that is not one over an integer is left out. And `LogsAssumption`
says that the table is exact enough for masses up to `Weight`: keeping two parts of a mass apart
never adds entropy. Real logarithms have this at any mass (the log sum inequality, with equality
where both parts are of one mixture); rounded down to four decimals they have it up to a `Weight`
of 9 and lose it at 10 in one of those equalities. TLC evaluates the assumption in the `studies`
run.

### ReleaseGate

Workflow runs of `publish-pypi.yml`. The build job is the gate script, step by step over the
declared packages (project, build, artifacts, binding of the tag, lookup of the version, probe,
outputs), the publish job two uploads. A concurrency group holds the runs of one event and ref, so `v1` and
`name-v1` are in different groups and race; a queued run of the group may be replaced. `Break`
ends a job at any step, `Rerun` starts a failed job or the whole run again, as a new attempt whose
build differs in bytes. PyPI never takes a file name twice.

## 3. Runs

| run | question | bounds and why they are enough |
|---|---|---|
| `chain` | do concurrent appends keep chain, receipts and log right, what can a holder of an old export still tell, and does every append return? | two threads and two calls, two edits, forgeries or truncations before, between and after two appends of different contents: a race needs two appends, the mutations of a shared object one more step of its owner; forging a suffix, cutting it, and appending to it all occur; fair threads, hence no symmetry |
| `service` | receipts, answers, meters and reports | three requests (one appending, one between check and append, one reporting), two threads (so that a thread is free while another is busy), bodies at and over the limit, one restart; requests are symmetric |
| `service_live` | is every complete request answered? | one pool thread: the smallest pool is the one most easily exhausted; the routes `score`, `receipts` and `study`, because the probes wait for nothing that `receipts` does not wait for |
| `jev_transport` | one attempt, whole and fitting answers, a wait that only a read prolongs, no leaks | answers from empty to longer than the limit; two valid requests and one that is not, so that a change turns each into each; some 6,300 answers with sums, choices and scores just inside and just outside every tolerance (never on it: the floats may go either way there); no fairness for the worker but where a property asks for it |
| `jev_late_connect` | the comment at jev.py:301 | violated: see findings |
| `jev_stalled_read` | the comment at jev.py:223 | one chunk; violated: see findings |
| `jev_cli` | publication at a path | two runs, two crashes: one during and one after the publication of the other |
| `weight_gate` | verdicts against declarative definitions | all headers of up to three entries that fit, pairs with near misses and repeated names, buffers up to three bytes and two more that arrive during the read; overlap, gap, overhang, order and ties all need at most three spans |
| `monitoring` | lasting conditions alert | all four conditions, bounded restarts |
| `studies` | the computations against reference definitions, each other and themselves on changed inputs; the replanning loop | probabilities in eighths; all batches of one or two rows and families of three and four, with up to four bins; all tables over a value below, at and above every limit; cohorts of up to three groups at, below and above the minimum and the bound, at an alpha of 0.25, 0.05 and between; two or three items of evidence, every mixture of up to four scenarios, prerequisites, costs and budgets that let the loop take up to all its steps |
| `release_gate` | what is on PyPI, and does every run end? | three runs in three kinds of scene (two tag forms and a repetition for one version; a tag that does not name the version; two packages), one break, one re-run: a half upload and a re-run from either end both occur |
| `monitoring_chain` | README.md:117 | violated: see findings |

Deadlock is checked in every run; a module in which the system legitimately ends has a final
stuttering step for it (`Quiet`, `Finished`, `Ended`, `Done`).

### Fairness

* `ReceiptChain`, `chain`: every thread inside `append` keeps being scheduled, and the
  mutex is eventually given to a thread that keeps asking. `threading.Lock` does not queue,
  but the calls are finitely many, so nobody can be overtaken for ever.
* `Service`, `service_live`: pool threads and the event loop keep running. Nothing is assumed
  of clients: a body may never arrive, and nobody owes a corruption or a restart.
* `JevTransport`: `PatientSpec` asks only that the calling thread runs and its timer runs
  out; `WorkerCleansUp` has as its premise that socket operations end, which the socket's own
  timeout gives. `CallerReturns` has no premise, and an exception of its own: a read that never
  returns.
* `ReleaseGate`: a run that can take its next step takes it. Jobs may break; somebody re-running
  one is not assumed.
* `Studies`: none. That the loop ends follows from `LoopDescends`, a step property: the budget
  is a natural number that every round makes smaller.
* `Monitoring`: scrapes and evaluations are periodic, a stopped service is started again.

### Findings

* **A delayed connect that is not checked** (`jev_late_connect`). The comment at jev.py:301
  says a delayed DNS result checks `cancelled` before sending. If the caller closes the
  connection after the check at line 248 and before the send at line 250, `http.client`
  connects again inside the send, and sends.
* **A wait that is not bounded** (`jev_stalled_read`). The comment at jev.py:223 says that a daemon
  worker bounds the caller's wait even if socket operations stall; docs/JEV_ADAPTER.md:46 promises
  the selected timeout. If the timer runs out while the worker is inside `response.read()` (line
  269) of a kept-alive response, the `connection.close()` of line 305 waits for that read.
  `CallerReturns` is what does hold: the caller returns unless that read never does.
* **An alert without a series** (`monitoring_chain`). The critical chain-broken rule reads
  `szl_calibration_chain_valid`, which the service does not export.

### Remarks

Behaviour met while modelling that contradicts no document outright, or is not checked by a run
of its own:

* README.md:52 says a broken chain makes both scoring routes return 503; `score` validates first
  (service.py:77), so an invalid batch on a broken chain is a 422.
* The two kinds of 500 described under *Service*; docs/DECISION_STUDIES.md:39 promises 422 for
  invalid inputs of `/v1/decisions/assess`, which keeps that promise: its `_number` compares before
  it calls `isfinite`.
* A request changed between its checks and its snapshot is sent without having been checked.
* After a publish job broke between wheel and sdist, re-running the whole workflow run can never
  complete the version, because the lookup (release gate, line 156 on) finds it taken. Re-running the
  failed job can.
* Two tags of one version (`v1`, `name-v1`) are in two concurrency groups; both may pass the lookup.
  PyPI's refusal of a second file of one name, not the gate, keeps the files of one build together.
* The socket's timeout in `jev.py` is as long as the caller's; if it fires first, a request in
  flight is reported as `provider_transport_error`. The model has both outcomes and no clock.
* The weight gate hands out no digest of what it judged: a file that changes afterwards cannot be
  related to its verdict.

## 4. Proofs

Each proof module proves, for every value of the constants its module's assumptions allow, an
inductive invariant `IInv` (theorem `Invariance`) and, from it, the properties the runs check.
`Invariance` has one step per action, and under it one per part of `IInv` the action can disturb.
What a module's `IInv` adds to its properties is what its code relies on without saying it.

### ReceiptChainProofs: any number of threads, calls, payloads, edits and exports

| theorem | property |
|---|---|
| `TypeCorrect` | `TypeOK` |
| `AppendsKeepChainVerified` | `ChainVerified` |
| `IssuedStaysInPlace` | `IssuedInPlace` |
| `RetainedTextBindsHistory` | `RetainedBindsHistory` |
| `OnlyTheWriterMends` | `BrokenStaysBroken` |
| `ImplementsLog` | `IsLog`: the chain implements `ReceiptLog`, which holds it to nothing once a privileged writer has acted |

The hash is injective because it is the tuple of its inputs. `IInv` adds *LockInv*, a thread is
between `Acquire` and `Commit` exactly when it holds the mutex; *Detached*, no reference a caller
can reach is the payload of a receipt in the list or of a snapshot on its way there, which is what
the two copies are for; and, as long as nobody tampered, *Honest*: the list verifies, the draft of
the thread under the lock is the receipt that fits next, and every receipt handed out is at its
index.

`RetainedBindsHistory` is a fact about hashes, not about steps: if two verifying lists share
the hash at one index they are equal up to it (`HashBindsPrefix`). The proof takes the largest
index at which the two lists differ (`LeastElement`) and derives a contradiction from the link
above it.

### ServiceProofs: any requests, pool, limit on bodies and restarts

| theorem | property |
|---|---|
| `BrokenChainStops` | `BreakInv`: types, the bound of the pool, nothing but the append under way after a break |
| `StatusTellsReceipt` | `AnswersTellReceipts` |
| `MetersFollow` | `MetersTrailChain` |
| `ReportsCover` | `ReportsCoverAnswered` |
| `FailsClosed` | `FailClosed` |

*PlaceInv*: the stage of a request follows its route, it has a pool thread and the mutex where it
needs them, and no status before its answer. *LogInv* and *RecordedInv* relate requests and
receipts in both directions: the owner of receipt `i` knows its index and is about to answer 200,
or 500 if it is a study; whoever is observed or answered 200 owns one. *CoversInv*: what a client
knew when it asked is at most what its request has read, which is at most the chain, across the
two holds of the lock. *ClosedInv*: a 503 is the answer of a broken chain, and who has heard of
one is on no way to a 200. *CeilingInv*: at a break there is room for the append that was verified
before it, and for no other.

### JevTransportProofs: any requests and answers, any limit and number of chunks

| theorem | property |
|---|---|
| `OneAttemptAtMost` | `SendInv` |
| `OnlyWholeAnswers` | `ValidatedIsWhole` |
| `AnswersFitTheRequest` | `AnswerInv` |

*Protocol*: the worker starts with the caller's wait, puts one outcome at most, last; the event is
set exactly by a caller that gave up. *WireInv*: where the worker is tells what went over the wire.
*EarlyInv*: a worker given up on before it connected has sent nothing. *OutcomeInv*: what a
`validated` in the queue or in the caller's hands means. *SnapshotInv*: payload and summary are the
snapshot, whatever becomes of the caller's dict. That the probabilities of an accepted answer sum
to one, and its choice and expectation follow from them, is shown for any number of labels, by
induction over the labels.

### JevCliProofs: any number of runs, kills and power losses

| theorem | property |
|---|---|
| `PublishedStaysComplete` | `PathInv` |
| `ObservationNeverLost` | `ObservationReported` |
| `LinkNeverReplaces` | `NeverOverwritten` (a fact of each step, without the invariant) |
| `SuccessIsNeverBorrowed` | `SuccessIsOwn` |

*LinkedIsDurable*: what is linked, or about to be, is whole and on the disk, so that a power loss
cannot empty it. *PathIsOwn*: a run has the path only from its `link()` on, and if it reports
success it has it still; this needs that a power loss which takes the name ends every run.
*OutputsTell*: where a run is tells which of its outputs failed and where its observation went.

### WeightGateProofs: any file, however it grows, any limit and size of the reads

| theorem | property |
|---|---|
| `AdmissionIsSound` | `AdmissionInv`: the bound of the read, and a partition of the buffer behind every verdict but BLOCK |
| `ExitZeroIsClean` | `AllowIsClean` |
| `NoFalseAlarm` | `RightLayoutPasses` |

*Early* and *StageInv* say what each stage has established of the file for the later ones.
*OrderInv* is the loop invariant of the contiguity check: the spans placed so far partition the
bytes up to the cursor and come before the others. *ScanInv* is that of the scan: the tally is the
number of elements of a set, the bytes that make a value NaN or Inf in the tensors passed.
`RightLayoutPasses` is part of `IInv`; the step that matters is that in a right layout the next
span starts at the cursor, ties between empty tensors included.

### ReleaseGateProofs: any runs, packages and scenes, broken and repeated jobs

| theorem | property |
|---|---|
| `OnlyAsTagged` | `PublishedInv` |
| `BothOrNothing` | `AllOrNothing` |

*RunsInv*: what the gate has established of the package at hand at each step (*Gated*), and that a
run's artifact is a build of its own of what its release tags (*DistInv*). *WheelFirst*: a source
distribution is never without the wheel of its build, and a run whose wheel was taken finds it in
place, which is where PyPI's refusal of a second file is used. *Halves*: unless a job broke, the
run of a lone wheel is about to upload the source distribution.

### StudiesProofs: any unit, any tasks, any sequence of proposals and findings

| theorem | property |
|---|---|
| `TypeCorrect` | `TypeOK` |
| `Earned` | `EligibleIsEarned` |
| `LocalAnswers` | `LocalInv` |
| `Monotone` | `VerdictMonotone` |
| `Gains` | `GainIsInformation` |
| `Orders` | `OrderIrrelevant` |
| `Bins` | `BinsInv` |
| `Ranks` | `AurocIsPairwise` |
| `Replans` | `ReplanMatchesPosterior` |
| `Certainty` | `CertainOnceObserved` |
| `Lawful` | `LawfulCollection` |
| `Descent` | `LoopDescends` |

Everything of the loop is about what a sequence of answers keeps. *TaskInv*: shapes. *ResultInv*:
an answer is what was computed of the task that stands. *FoundInv*: the evidence is what was
given, but for the items of the log, which were unavailable and are what was found. *SpentInv*:
what the log cost is gone from the first budget. *PromiseInv*: a promise is the distribution over
the scenarios still consistent with what was found, and the plan asked next is valid. The
posterior the planner foretold is the next prior because filtering the scenarios by one more item
commutes with renormalising (`ReplanMatchesPosterior`). `EligibleIsEarned` and `LocalInv` are
facts about the computations alone, for any number of samples, groups and options; the second
needs that a sum read from either end is the same sum. `OrderIrrelevant` is shown of any
rearrangement of a list by an involution (*Rearranges*, *SamePlan*): sums, sets and cardinalities
go over to the rearranged list, and the proposal is the same because ids are different, so that
of two candidates one always comes first (*LeaderExists*).

`Monotone` compares two studies by *Weakens*: no better in any respect the verdict looks at. Each
of the worse studies is weaker in that sense, a weaker study has no more reasons to be eligible,
and the bound moves the right way in errors, allowance and doubt because the logarithms do not fall.
`Gains` reduces the entropy of a distribution to the two weights that are not zero
(*EntropyIsSpread*), the two findings to two disjoint parts of the scenarios that stand
(*PartsAddUp*), and an impossible outcome to one that counts for nothing (*OutcomeIs*). What is
left is `LogsAssumption`. So the `max(0.0, ...)` the code keeps against roundoff never acts in the
model.

The two metrics are taken apart into sums. For the bins (`Bins`) every row falls in one bin, so a
sum over rows is a sum over bins of the rows in each (`SumByParts`). From there the overall gap
stays below the ECE by the triangle inequality, the ECE below the MCE because some bin has the
largest gap, the square of the ECE below the Brier score by the inequality of Cauchy and Schwarz
(`SquareOfSum`), and finer bins, which are parts of the coarser ones, never lower the ECE
(*SumCoarser*). For the ranks (`Ranks`) no two rows have the same number of rows before them, so
the sorted order is a bijection; the tie-averaged rank of a row counts the rows scoring lower
twice and those scoring the same once; summed over the positive rows this counts pairs, and the
pairs within the positive rows come to n squared, the term the code subtracts.

### Induction

The library's induction theorems take an operator as a parameter, which none of the provers can
instantiate. `SetInduction` states them without: a set of naturals that has 0 and every successor
has all (`EveryNatural`), a family of subsets that has the empty one and grows by one element has
the finite set (`EveryFiniteSet`). A property is then the set, or family, of what has it. With
these it shows what the sums of the model (`SumFunction`, `Total`: folds over a function's domain,
which `CHOOSE` the order) come to:
one term may be taken out; sums of sums, of multiples, by parts and over a bijection; the triangle
inequality and a bound on the square of a sum.

### Only model-checked

Every safety and action property of the runs has a theorem. The table of logarithms is any that meets `LnAssumption`, in the theorems as in the runs; that it
holds logarithms is left to the run's table. What is left is liveness
(`AppendReturns`, `Answered`, `CallerReturns`, `WorkerCleansUp`, `EveryRunEnds`,
`LastingConditionAlerts`): the prover has neither `ENABLED` nor the rules for fairness.

## 5. Not modelled, and why

* `log_loss` of `metrics.py`: a sum of logarithms of the rows, without a decision in it. ECE, MCE,
  Brier score and AUROC are exact fractions and are modelled.
* Size limits and text forms of requests: one Boolean per input.
* Several workers behind one port (`deploy/uvicorn.conf.py`): `Service` is one worker. Every worker
  has its own chain and meters, and which of them answers a request is the kernel's choice.
* What a `/metrics` text says of histograms and latencies: `Service` has the counts, `Monitoring`
  the existence of the series.
* Formatting, log lines, floating point beyond the bin boundaries.

## 6. Plan

Built, in this order: chain and its proofs; service; Jev transport and CLI; weight gate; alerts;
the computations; the release gate; Jev requests and answers; the proofs of each. Left:

1. `Service` shown to implement a sequential service that answers every scored request with its
   position in a log; several workers as instances of it behind one port.

## 7. Running

    tlc -workers 2 -config ReceiptChain.cfg ReceiptChain.tla
    tlapm ReceiptChainProofs.tla

The other proof modules are checked the same way; `StudiesProofs`, `ServiceProofs` and
`WeightGateProofs` take several minutes each.

`PROJECT.json` names the module, configuration and properties of every run.
