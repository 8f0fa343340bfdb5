# Formal models of check-opencloud-security

The repository scans OpenCloud instances. A scanner (`opencloud_local_scan`)
probes one instance and judges what it found; a monitoring plugin
(`check_opencloud_security.py`) runs it on a schedule and decides whether to
alert; a public web service (`webapp`) runs it for strangers, through Redis and
several workers; and a wizard (`docker/setup-wizard.py`) writes the stack that
service runs in. These modules model all four. Paths below are relative to the
repository's `src`; `webapp/` and `opencloud_local_scan/` are left out where the
file name is unique.

- [Parts of the system](#parts-of-the-system)
- [Modules and how they follow the code](#modules-and-how-they-follow-the-code)
- [Runs](#runs)
- [Fairness](#fairness)
- [What disagrees with the documentation](#what-disagrees-with-the-documentation)
- [Proofs](#proofs)
- [Abstractions](#abstractions)
- [Not modelled](#not-modelled)
- [Plan](#plan)

## Parts of the system

| part | its state | its operations | hard behaviour | what makes it correct |
|---|---|---|---|---|
| Scan store (`store.py`, `redis_backend.py`) | four keys per uuid (metadata, status, result, prober), the line of pending uuids, their TTLs | create, get, take_prober, mark_running, mark_completed, mark_failed, purge_target | each is several commands; erasure and expiry run between any two | keys of a scan stay consistent; what is gone never comes back; the line holds waiting scans only |
| Submission (`app.py`, `queue.py`) | where each handler stands | limits, guard, approval, cooldown, create, enqueue | a handler dies half-way; visitors arrive together | a scan that is registered is run, or expires whole |
| Worker (`tasks.py`) | slots, where each job stands, what it holds in memory | look up, mark running, forget the prober, probe, mark the end, count a strike | lost jobs (`max_tries` is 1), metadata taken mid-job | every accepted scan is told its end; the fingerprint is gone before probing |
| Scan process (`scan_process.py`) | a child and its pipe | start, answer, time out, cancel, kill, reap | the answer races the timeout; a replaced worker leaves its child | reaped before its slot is free; together still one step of the job |
| Erasure (`store.purge_target`, `purge.py`, `comparisons.py`) | what its walks found | walk, delete, leave the line, walk again, receipt | the keyspace changes under the walk | the receipt is true |
| Reader (`store.get`) and agents (`workflows.py`) | what one request has read so far; polls left | status, metadata, result; await, then plan | three reads at three moments | answers move forwards only; waiting ends |
| Comparisons (`comparisons.py`) | a cached document for a scan and a report | read, save, expire, erase | saved after an erasure | erased with its scans |
| Client limits (`ratelimit.py`) | a counter and its window | INCR, EXPIRE, TTL, EXPIRE again | a crash between INCR and EXPIRE; TTL rounds | no more than the limit; a lost window is put right |
| Probe guard (`ratelimit.py`) | strikes, block, repeat counter and their expiries | count, claim a block, escalate, remember, forget | two workers reach the limit together | one block per limit reached, escalated once |
| Cooldown (`ratelimit.py`), exclusions (`blocklist.py`) | one key per host; one document and a configured half | SET NX, expiry, forget_target; add, remove (GET, then SET) | visitors together; overlapping writers, readers in between | one holder; what was told to be excluded is |
| Reference data (`schedule.py`, `advisories.py`, `admin.py`) | a document, its stamp, a cooldown | read, fetch, merge, judge, write, note | cron and button at once; a redeployment ships a larger floor | no scan is rated below the bundled floor |
| Updates (`updates.py`) | requested version, attempt marker, a tree per container | request, follow, install file by file, restart | failure between install and marker; a container back on its image | one attempt per version and day |
| Readiness (`tasks.py`, `/healthz`) | one heartbeat key of all workers | beat, delete on shutdown, read | shutdown of one of many; a refused SET | ready while somebody works |
| Lifecycle verdict (`versions.py`) | the release schedule | judge a version on a track | promotions, patches and days move it | never ahead of the facts, advice that leads out |
| Rating and plan (`scanner.py`, `remediation.py`, `remediation_groups.py`) | findings, waivers, version | rate, plan, apply a step or a change | caps interact with the upgrade | the plan predicts what the next scan measures |
| Waivers (`waivers.py`) | records with deadlines | write, withdraw, expire, review | several records over one check | the announced expiry is the true one |
| Changes (`changes.py`, `fingerprint.py`) | two reports | explain their difference | other scanner, schedule, waivers | blames the instance only for what it did |
| Plugin and baseline (`check_opencloud_security.py`, `baseline.py`) | the entry of a host in a file many processes write | measure, compare, store, deliver, exit | killed between store and print; lost file; another process writes it back | nothing unseen is called unchanged; gaps keep alerting |
| A scan (`scanner.py`, `coverage.py`, `tls.py`, `verification.py`) | answers, coverage, findings | reach, ask, record, waive, verify | any request may stay unanswered | evidence is honest about what was measured |
| Setup wizard (`docker/setup-wizard.py`) | answers, credentials, files | walk, go back, derive, review, back up, write | interrupted runs, answers that make others pointless | every relevant question asked; no credential lost; files that fit together |

The parts of the service meet in Redis only. A submission asks the probe guard
and the client limits, then the exclusions and the target guard, then claims the
cooldown, registers the scan in the store and enqueues its job. A job looks its
scan up, takes it out of the line, forgets the prober, reads the exclusions
again, probes in a child process, writes how it ended and may count a strike. An
erasure deletes scans by the host their metadata names, then comparisons, and
forgets the cooldown. Readers poll the store. The scanner is called from the
child and from the plugin alike; it reads the reference data of its process, asks
the instance, rates, and hands over one document, from which plan, comparison,
baseline and verification are computed.

`PROJECT.json` lists every part with its status, and under `hazards` what is hard
to test in this code, each at its line with the properties that watch over it.

## Modules and how they follow the code

| module | models |
|---|---|
| `ScanStore` | the keys and, for each Redis command or Lua script the store issues, one operator that primes them; the order in which the clock may take keys |
| `ScanSubmission` | the end of `accept_submission`: `create` command by command, `enqueue`, an abort between any two |
| `ScanWorker` | `run_scan` command by command, worker slots, lost jobs |
| `ScanPurge` | `purge_target`: two walks, DEL and LREM per scan, receipt |
| `ScanService` | composes the four: every handler, job, erasure and expiry interleaved at the grain of one command |
| `AbstractScan` | the promise to the holder of a uuid: unknown, queued, running, completed or failed, gone, only forwards. `ScanService` implements it through the map `View` |
| `ScanProcess` | the probing of a job with its child, pipe, timeout, cancellation, kill and reap; implements `ScanService` |
| `ScanReader` | `ScanStore.get` on top of `ScanService`, read by read |
| `ScanClients` | an agent (`await_scan`, `plan_remediation`) and a visitor who compares, on top of `ScanReader`; the erasure of comparisons |
| `ClientLimit` | the counter of `check_client`, `check_upload` and `check_daily` with `_window_left` |
| `StrikeGuard` | `check_probe_block` and `record_strike` for one network |
| `Admission` | exclusions, guard, approval, cooldown, and the job's second look at the exclusions |
| `Heartbeat` | startup, the heartbeat task and its failure, shutdown, crash, over the one key |
| `Updates` | the release fetched, unpacked part by part, followed by the workers, and the containers it restarts |
| `ReferenceData` | refreshes of the advisory database, round trip by round trip |
| `Lifecycle` | `_track_end_of_life`, `_status_for` and the arrow, over a schedule that is published, promoted and aged |
| `Waivers` | which checks alert, the next expiry, the review |
| `Remediation` | `_compute_rating`, `plan`, the changes, and an operator who follows them |
| `ReportChanges` | `explain` beside what really happened between two reports |
| `PluginRun` | the plugin's chain of thresholds over the baseline entry of one host |
| `Transport`, `Checks` | what an endpoint's certificate and protocols amount to; what each check makes of its answer |
| `ScanRun` | one `scan` from the first request to the document, and `verify` afterwards |
| `SetupAnswers` | the predicates over the wizard's answers |
| `SetupWizard` | the walk, the derived answers, the review, the files of one run after the other |
| `WizardStack` | what the files refer to - credentials, volumes, proxy routes - and the service that starts on them or refuses |
| `Merging` | values by name put together, the first one counting: `@@` and `:>` with a definition a proof can use |
| `DataLemmas` | lemmas about minima, queues without repetition and merged results, for the proofs |
| `ScanServiceProofs`, `ScanProcessProofs`, `ScanReaderProofs` | theorems about the scan lifecycle, the child processes, and what readers and agents are told (`ScanReader`, `ScanClients`) |
| `GateProofs` | theorems about `StrikeGuard` and `Admission` |
| `OperationsProofs` | theorems about `ClientLimit`, `Heartbeat`, `Updates`, `ReferenceData` |
| `JudgementProofs` | theorems about `Lifecycle`, `Waivers`, `Remediation`, `ReportChanges`, `ScanRun`, `PluginRun` |
| `WizardProofs` | theorems about `SetupWizard` and `WizardStack` |
| `MC*` | constants, symmetry and compositions of the instances TLC checks; where a configuration file says it all, its run takes the module itself |

**The store.** `meta`, `result` and `prober` are the sets of uuids whose key
exists, `status` is the state the status key names or `"none"`, `line` is
`QUEUE_KEY`, `lineTTL` whether it has an expiry, `jobs` the jobs no worker took
yet. A command is one atomic step: Redis runs commands one at a time, and each
`await` of the Python code lies between two. `SetIfExists` is the conditional
script `_transition` writes through; a mutant of it, a plain SET, breaks the
promise.

**Handlers and jobs.** `submit[s]` and `job[s]` name the next command of the
handler that registers scan `s` and of its job, so the steps and early returns
read in the order of the source. What a job keeps in local variables
(`named`, `fingerprint`, `outcome`) is cleared when it ends. `LoseJob` may strike
before any command: a killed worker, a restart into another release, or a
cancellation, which `except Exception` does not catch. Nothing ever retries it.

**The child.** `ScanProcess` replaces the one step `Probe` by what happens in
`execute_scan_process`: spawn, wait for a message or end of file or the timeout,
kill, reap. The child may answer, crash, hang or send something late. A worker
replaced by an in-place update (`os.execve`) leaves its child an orphan, which
the code does not prevent; `ReapedBeforeSlotIsFree` excepts those by name.

**Expiry.** `create` gives its keys one TTL a round trip apart, so they expire in
the order they were written; a transition renews metadata and status to one
later deadline, which result shares. `Expire` follows that order, waits for the
handler to be `Settled` (a handler takes a few round trips, the TTL is an hour by
default and 30 seconds at least), and is otherwise free to happen at any time,
also in the middle of a job.

**Erasure.** One runs at a time. A walk looks at each uuid at a moment of its
own, so scans appear, finish and vanish under it. `owed` is a history variable:
the scans wholly registered for the host when the walk began; `owedSweep` is the
same for the comparisons.

**Counters.** `ClientLimit` ticks in half seconds, because TTL answers in whole
seconds rounded to the nearest and the last half second reads 0, exactly what a
missing window is mistaken for. `StrikeGuard` ticks in longer units: a strike may
see one tick pass between its commands (`late`), not two.

**Admission.** `promised` is a history variable: what an operator was told is
excluded and has not been withdrawn since. `holder` records who claimed the
cooldown that is running. The checks of `ClientLimit` and `StrikeGuard` appear as
a refusal that may happen. A job that has looked at the exclusions reads schedule
and advisories before it probes, each a step of its own in which the operator area
goes on; `ExclusionTakesEffect` is about the guard of a submission and the look of
a job, and says nothing of a host that is excluded after that look.

**Operations.** In `Heartbeat` a step of time is a fraction of the interval, `gap`
counts how long the key was missing while a task runs. In `Updates` a release is
a set of parts of which one is the version marker, moved into place in an order
the code fixes; requests of one process share their staging directory. In
`ReferenceData` what a refresh read, fetched and merged are local to it, so that
the later SET may carry the older document.

**Judgement.** `Lifecycle`, `Waivers`, `Remediation` and `ReportChanges` are pure
functions of the code with the world that changes around them: actions publish
a release, let a day pass, write a waiver, upgrade the instance. Their properties
compare what the code says with what then happens, never with a second copy of
the same formula. `PluginRun` keeps, beside the entry in the file, what operators
were told and what the runs measured. These are histories, which nothing that
happens to the file changes: `heard` is every failure ever reported, `told` those
reported since a run last stored that they were gone, `known` the measures decided
once and at most inconclusive since. `harm` records whether the file was lost or overwritten, so
that a property can say what holds in spite of it and what only without.

**A scan.** `ScanRun` walks `scan` in the order of the source. An instance is a
function from requests to answers, each one of the few values its checks tell
apart, or `Silent`. `Checks` maps the answers to `check |-> passed`, with a check
missing from the domain where the code returns None. `reached` is the rung of the
ladder (verified, unverified, plain HTTP) the scan ended on.

**The wizard.** `SetupWizard` has one action per thing an operator may do at a
question (answer, go back, take the rest) and one per file written; an
interruption may fall between any two. `WizardStack` looks at what is in the
files: `Reads` is which container refers to which credential, `DotEnv` what is
held for it, `Routes` what each proxy does with a path, `Refusals` what
`create_app` checks before it serves and `Warnings` what `check_consistency` said.

## Runs

Parts that share no state are explored by one run: a variable `topic`, chosen in
the initial state, says which of the composed specifications moves while the
others keep their first state. The invariants of each are checked under its own
topic; nothing is multiplied with anything.

| run | question | instance | distinct states |
|---|---|---|---|
| `scan_service` | Does any interleaving tear a scan apart, revive it, leave it in the line, falsify a receipt or break the promise? Can a scan be rated below the bundled floor? Does the wizard ask what it has to, keep every credential and write files that fit together? | 2 scans of 1 host, 1 slot, erasures without number, symmetry; daily job and button, 2 advisories, 1 redeployment; the wizard's answers as below | 1,450,361 |
| `scan_clients` | Do answers only move forwards, does waiting end, does everything expire, are comparisons erased? | 1 scan, 1 host, erasures without number, an agent with 2 polls, a visitor who compares | 174,430 |
| `gates` | One block per limit reached, escalated once, remembered from its end? Does what is excluded pass neither the guard of a submission nor the look of a job, and is a cooldown held once? | 3 strikers, limit 2, blocks of 2 then 3 ticks, 1 death; 3 visitors, 3 hosts (1 configured), 1 operator, ceiling 1; symmetry | 1,650,329 |
| `operations` | Is a limit kept and a lost window put right? Is readiness honest? Is a release followed once? Is a slot free only when its child is gone, and every accepted scan told its end? | 2 clients, limit 2, window 2 s, 1 death; 2 workers, 1 refused SET; 1 press, 2 cron runs, 2 parts, 2 restarts from the image; 2 scans, 1 slot | 258,189 |
| `judgement` | Are lifecycle, waivers, plan, explanation, coverage and verification true to the facts they are about? Was what the plugin calls unchanged reported before, and does a gap keep alerting, whatever becomes of runs and file? | see below | 442,507 |
| `receipt`, `lost_exclusion`, `wait_lifts`, `heartbeat_dies`, `stale_redirect`, `missing_measure`, `stack_refused` | the seven disagreements below | as small as shows them | ends at the counterexample |

**Why these bounds are enough.**

*The service.* Scans share nothing but the line, the slots, and the erasure of
their host. Two scans of one host and one slot make all three contended: one
waits while the other holds the slot, stands behind it in the line, and is walked
over in either order by the same erasure. A third scan would only make the line
longer: what the properties say of it, they say of one scan or of two. Two
refreshes are one that overtakes another; two advisories are one that the feed
has and one that only the bundled file has. `scan_clients` needs one scan, since
an answer is about one uuid and is torn by expiry and erasure alone; two polls are
one answered "running" and one that is the last. A scan whose host is another
than the erased one is covered by the erasures that never begin.

*Gates and counters.* With a limit of two, two clients make a first request, a
last allowed one and a refused one meet; one death is enough because a key
without an expiry does not depend on how many died. Three strikers against a
limit of two are two who reach it together and one who comes late; blocks of two
and three ticks let the first be escalated, and the ceiling be reached. Three
visitors for one host are a holder, a refused one and one who comes after the
expiry; three hosts are one configured, one stored and one refused by the ceiling.

*Operations.* Two workers are one that goes and one that stays. One refused SET
is a worker that lost its task beside one that did not. An update needs a press, a
worker that follows, a second cron run that might follow again, a restart from
the image in between and one after. In `operations` the service runs without an
erasure token: an accepted scan that is erased counts as ended anyway; erasure
with liveness is in `scan_clients`.

*Judgement.* Three release lines on any tracks, one patch and two
days reach every branch of the verdict (before, on and after an end of life, with
and without a successor). Three waiver records and three moments are two that
overlap on one check and one that covers several. Four findings are two under one
ceiling (one hardcoded), one above, one below. Two releases, schedules and
configurations, and three scanners (one that does not make the check, one of
before the blocks existed) are every pair of reports `explain` tells apart. The
plugin's runs need one measure, which fails, passes, or is not
decided in each of three ways, and one advisory, which is there or not; the entry
another process holds is any the host ever had. A scan is looked at on an instance where all is
well and one where nothing is, on every one that departs from either in one
answer (each field of a page, a cookie, a certificate, an endpoint), with no, one,
two or all further requests lost, and under all 128 combinations of settings; two
departures at once meet only in the rating, which is `Remediation`'s.

*The wizard* (in `scan_service`, with the service it sets up) answers every question
that decides another or whether the stack can work. The directory of Redis is the
one of the audit trail, one inside it or one beside it; two generated passwords are
one in use and one that would replace it. The stack is written from five groups of
answers that belong together (sign-in, area and proxy, mail, storage, the rest),
each in every combination over defaults; runs follow each other across the groups,
so `.env` holds what any earlier group left there.

**Bounds in the models.** `MaxDeaths` limits the deaths of `ClientLimit` and
`StrikeGuard` (in `ScanService` any number of handlers and jobs may die),
`MaxRefusals` the refused SETs, `MaxReturns` the restarts from the image,
`MaxImages` the redeployments, `MaxPolls` is the agent's own bound, `MaxLine`,
`MaxPatch`, `LastDay`, `LastDate`, `LastMoment`, `MaxRecords` and `MaxPasswords`
end what would go on for ever. Counters saturate one above the value from which
the code treats all alike (`Ceiling` in `ClientLimit`, `Limit + 1` in
`StrikeGuard`), and `MaxRepeat` is the block from which none is longer.

`CHECK_DEADLOCK FALSE` stands where the system does come to rest: all scans
expired and uuids never used twice, a schedule at its last day, a wizard that
wrote its files.

**Properties worth naming.** `NamespaceWhole` and `LineHoldsOnlyWaiting` relate
keys that different commands write. `HonestReceipt` and `ComparisonsAreErased`
relate a receipt to the moment its walk began. `KeepsPromise` and `ProbesAsOneStep`
are refinements. `AnswersMoveForwards` and `TornAnswerIsLast` relate two answers
assembled from six reads. `EscalatesOncePerBlock` and `RememberedFromItsEnd` need
two workers and the clock to break; `ExclusionTakesEffect` spans the operator, the
submission and the job. `TriedOnce` spans a container, its image and the store.
`PlanKeepsItsWord` compares a prediction with the next scan, `NextExpiryIsExact` an
announcement with every later moment, `ExplanationFitsTheFacts` an explanation with
a record of what was done. `NothingUnseenIsUnchanged` looks back over any number of
runs, killed, unable to write or overwritten, and `LostCoverageKeepsAlerting` over
every run since a measure was last decided. `StillFailingWhenAskedAgain` compares two programs that are meant to
agree. `StackHoldsTogether` relates eight functions that each ask the answers again.

Every property is broken by a mutant of a mapped definition: an operator beside
the original that changes it the way a plausible bug would (an unconditional SET,
a forgotten LREM, a DEL that misses a key, `>` for `>=`, SET without NX, a slot
returned before the child is reaped, a cap promised away, a credential written for
a container that is not there). `PROJECT.json` lists the pairs.

## Fairness

- Own steps of processes that live (`LiveSpec` of `ScanService`, and with it
  `ProcLiveSpec`, `PollingSpec`, `AgentSpec`): weak fairness of the handler's next
  command, the job's next command, and of a free worker taking a waiting job. The
  first two hold because an `await` on Redis returns or raises; the last because
  ARQ polls its queue for ever. Nothing is assumed of deaths or erasures.
- `ProcLiveSpec` adds the parent's side of a probe, which its timeout ends.
  Nothing is assumed of the child, which may hang for ever.
- `PollingSpec` and `AgentSpec` add that time passes, so keys with a TTL expire,
  and that a client polls on. `AcceptedScanEnds` does without: no deadline has to
  pass, and it excepts jobs that were lost with their worker.
- `LimitLiveSpec`: requests that began run on, clients come back, the clock ticks.

`OperationsSpec` states the same for the topics whose liveness it checks; the
others have safety properties only. Weak fairness is enough throughout: a command
that is next stays next until it is run, and slots are freed by steps that are
themselves fair. A waiting job is the exception in shape, since its guard needs a
free slot: with as many scans as the instances have it stays enabled once the
others are done.

## What disagrees with the documentation

Each has a run that ends in the violation; `PROJECT.json` quotes the lines.

1. `receipt`: an erasure that walks between two SETs of `create` reports nothing
   remaining, and the handler then writes the fingerprint and the status of a
   scan no later erasure can find. They expire.
2. `lost_exclusion`: two overlapping changes of the exclusions each write the list
   they read; one of two acknowledged entries is lost.
3. `wait_lifts`: in the last half second of a window TTL reads 0, which the
   repair takes for a lost window and sets the whole window again. A client that
   waited as long as it was told can land there.
4. `heartbeat_dies`: one refused SET ends a worker's heartbeat task for good while
   the worker works on.
5. `stale_redirect`: the provider's redirect is derived from the public address
   once; a new address, at the summary or in a later run, leaves the old redirect.
6. `missing_measure`: a request that stays unanswered is recorded as a check that
   passed, for the probes whose finding reads "Not reachable", and for a failed
   TLS handshake.
7. `stack_refused`: with the bundled provider and the sign-in on, the wizard hands
   the service an address for the signing keys that the service refuses at
   startup, and says nothing of it.

Smaller ones, which the models contain but no run claims:

- *The store.* Between the GETs of one poll, an erasure or expiry leaves an answer
  "completed" without result or target (`store.get`; `TornAnswerIsLast` shows the
  next answer is the 404). A scan that expired while it waited stays in the line,
  whose expiry each new submission renews, although `store.py:191` says the queue
  "must not outlive" its scans; positions behind it read too high.
- *Operations.* `follow_operator_update` is a cron job with `unique=True`, so one
  worker a minute looks, against the docstring of `tasks.py:167`. Two presses of
  one web process share the staging directory and may move each other's half-written
  tree. Of two overlapping refreshes the later write drops what the earlier merged.
  `run_action` reads its cooldown before it claims it. A worker that `startup`
  refused still deletes the others' heartbeat key. A worker replaced by `execve`
  leaves its child probing on. `forget_target` lets a host be scanned while the job
  of an erased scan still probes it. A job looks at the exclusions (`tasks.py:87`) and
  then reads schedule and advisories before it probes (`tasks.py:105`): a host that is
  excluded in between, and acknowledged as excluded, is probed by that job.
- *Judgement.* The plan assumes the best base rating after the upgrade though the
  target may carry an advisory (`PlanKeepsItsWord` excepts that), and
  `_caps_from_findings` counts findings of an end-of-life instance even where
  findings do not affect ratings; `opencloud_local_scan/README.md:137` says the two
  "cannot disagree". `upgrade_target` falls back to a rolling release its docstring
  excludes. `review()` misses a check that two overlapping temporary waivers each
  cover. `scan_clock`, "read once, at the start", is read after the probes.
- *Changes.* A day that passes is told under a comment that says "same schedule,
  same instance"; a check that is newly waived is told as one the instance stopped
  failing.
- *Baseline.* With `--warn-on-new`, entering the end-of-life or waiver window is
  suppressed at once. A run killed between store and print swallows a failure. A
  failure that becomes inconclusive is listed as resolved, and one that goes
  inconclusive, not checked, inconclusive forgets that it was ever measured, against
  `docs/baseline.md:133` ("the warning holds for as long as the gap does"). One file
  is recommended for a fleet (`docs/many-instances.md:172`), but the lock around load,
  compare and save is one process's (`check_opencloud_security.py:1081`, "two host
  workers must not overwrite one another's snapshots"), and a process writes all
  entries back as it loaded them. A run of this host that ends in between is lost: a
  failure it found gone is called unchanged when it returns, and the exit is OK; a
  measure it decided first is no gap when it is lost next. Without their conditions on
  `harm`, TLC finds `NothingUnseenIsUnchanged` and `LostCoverageKeepsAlerting`
  violated by these steps.
- *Verification.* `verification.py:15` says a second look "cannot come back with a
  different answer": the version is selected from `status.php` alone where the scan
  falls back to the capabilities, CAA and DNSSEC are asked over plain HTTP too, and
  debug ports even where the scan did not.
- *Scanner.* `_backend_port_finding` opens up to four probes and closes none, and
  compares content with the first address only. A lost catch-all probe makes a
  single-page shell count as an exposed path. `ipv6Reachability` is recorded as
  measured without a probe. Measures of the capabilities are dropped where file
  sharing is not published.
- *Wizard.* A provider switched off and on again at the summary gets new
  credentials, its database password included, against `_read_existing_env` (the
  backup keeps the old). An emptied purge token is generated again by every run.
  `authentik_url` and `reverse_proxy_hostname` go stale like the redirect. Other
  refusals that are not foretold: a non-loopback HTTP issuer or resource, a typed
  admin secret or purge token that is too short, user lists of separators only, and
  entries that do not parse. The sign-out address is the outpost's even where no
  generated proxy leads there. A proxy without forward authentication is said to
  route "everything except /admin"; nginx, Caddy and Traefik pass it through their
  catch-all, without the secret, so the area answers 404.

## Proofs

The theorems hold for every value of the constants that satisfies the named
assumptions, and are checked by TLAPS (SMT, Zenon, LS4 backends). Every invariant
a passing run checks is a theorem, and so are the action properties and both
refinements; what is left to TLC is liveness.

| module | theorems |
|---|---|
| `ScanServiceProofs` | `TypeCorrect`, `Invariance`, `NamespaceStaysWhole`, `ProberStaysForgotten`, `ReceiptIsHonest`, `NothingIsRevived`, `PromiseIsKept` (refinement of `AbstractScan`), `StrikesAreForFailures`, `LineIsOfTheWaiting` |
| `ScanProcessProofs` | `ProcTypeCorrect`, `ChildIsReapedFirst`, `ProbingIsOneStep` (refinement of `ScanService`) |
| `ScanReaderProofs` | `ReaderTypeCorrect`, `AnswersOnlyMoveForwards`, `TornAnswersAreLast`, `WaitedPlanIsOfTheFinished`, `NoComparisonIsLeft` |
| `GateProofs` | `GuardTypeCorrect`, `OneBlockerOnly`, `BlockIsLeftAlone`, `OnlyDeathLeavesItOpen`, `BlocksAreRemembered`, `EscalatesOnce`; `AdmissionTypeCorrect`, `CeilingHolds`, `ExclusionsAreKept`, `CooldownIsHeld` |
| `OperationsProofs` | `LimitTypeCorrect`, `LimitIsKept`, `OnlyDeathLeavesItOpen`; `HeartbeatTypeCorrect`, `ReadinessStaysHonest`; `ReleaseIsTriedOnce`; `ReferenceTypeCorrect`, `FloorIsKept` |
| `JudgementProofs` | `QuietMeansTold`, `GapsKeepAlerting`; `ExplanationsFit`; `WaiversTypeCorrect`, `DeadlinesAreKept`; `AdviceIsSound`, `EndedForGood`; `OthersAreLeftAlone`, `CoverageIsHonest`, `EvidenceStays`, `NothingIsFixedByAsking`; `PlanTypeCorrect`, `PlanIsKept` |
| `WizardProofs` | `WizardTypeCorrect`, `RelevantAreAsked`, `DeploymentStaysKept`; `StackStaysTogether` |

Some of them have no run of their own: the type invariants, `Invariance`,
`NothingIsRevived`, `StrikesAreForFailures`, `OneBlockerOnly`, `BlockIsLeftAlone`
and `CeilingHolds` say what a checked property rests on, and the proof covers them
for every instance.

**The scan lifecycle.** `NamespaceWhole` and `HonestReceipt` are not inductive.
`ScanInv` adds what makes them so: `Registered` (how far the handler is bounds
which keys and which job can exist; without it an expiry could leave a status
behind that a job then finds), `JobShows` (between MarkRunning and the end a scan
that has its metadata is shown as running, so the last transition starts where it
should) and `ErasureProgress` (what the erasure owes is still on one of its lists
or gone for good, which is the argument for the receipt). `TypeOK` leaves out that
the line is a sequence: the invariant does not need it. `NothingIsRevived` and
`PromiseIsKept` follow from `ScanInv` step by step; the refinement maps each
command to one step of `AbstractScan` or to none. `StrikesAreForFailures` needs
one more conjunct, `FailureCounted`: a job about to count a strike has marked its
scan failed already.

**The line.** `LineInv` says that the line holds nobody twice, that who is in it is
past its RPUSH and has a job that has not been through its LREM, and that of the
scans an erasure is done with (`Cleared`) none is in it. That it holds nobody twice
is what makes the job's LREM of one entry enough. What `LREM 0` leaves is a
recursive function of the line; that it leaves nothing equal to its argument
(`WithoutIs`) is proved without an induction theorem, by the least position for
which it would be false.

**The child.** `ProcInv` (`Attended`) ties the parent's step, the child and the job
together: a parent is at work only for a job that probes, before it spawns and
after it reaped there is no child that is not an orphan, and an orphan's job is
lost. Every step of a process is then the step `Probe` of `ScanWorker`, another step
of the service, or none (`ProbingIsOneStep`), so all theorems about `ScanService`
hold of the detailed service as well.

**The reader.** What the client was told, what the running request has read and
what a request would be shown now are in this order (`Behind`); the service moves
the last only forwards (`ShownForwards`, from the refinement), so the reads and
the reply keep the order. `TornIsGone` adds that a result that was missing when
it was sought belongs to a scan that is gone. Both rest on `ScanInv`, of which the
reader's steps are stuttering. For an agent, `Waited` adds that what the workflow
was told of its scan agrees with the last answer; the plan is asked for after a
terminal one, and the order of the answers does the rest. A client changes nothing
a reader sees (`ClientsOnlyRead`), so what is proved of `ReaderSpec` holds in
`scan_clients`, whose `AgentSpec` is `ClientSpec` with fairness. `Swept` says that what
the erasure owes and is still held is among what it is about to delete.

**The counters.** `Ledger` ties what was let through to the counter. In
`StrikeGuard`, `Guarded` says that whoever began a block is alone with it because
the block outlasts the commands that set its length: it has two ticks left, or one
for a striker that has seen one pass. This is where the assumption that a block is
longer than one tick, and that a strike sees at most one, enters. `Tallied` keeps
the repeat counter behind the blocks begun by as many as are not counted yet. The
proofs use that a duration lies between the first block and the ceiling
(`DurationAssumption`), which TLC evaluates: the exponentiation that defines it is
beyond the provers.

**Admission.** `ExclusionsAreKept` assumes `OneOperator`: requests to the operator
area do not overlap. `lost_exclusion` shows the assumption is needed. The theorem
ends where a job has looked at the exclusions, as the property does.
`DraftIsCurrent` says that under it a SET still to come writes what its GET read,
changed by one entry. The ceiling and the cooldown need no such assumption.

**Operations.** `Wakes`: for every worker whose task runs, the time the key has been
missing and the time until that task beats next are together at most the interval -
whoever deleted the key. `Tries`: what a container followed it had recorded as
attempted, and nobody who is at it again has followed already; the record comes
before the restart, which is the order the code needs. The floor needs that at most
one document exists and that it is usable (`OneUsableDocument`).

**Judgement.** *The plugin* (`PluginInv`): the entry, and the one another
process may put back, list only failures that were once reported (`EntriesWereHeard`);
unless an older entry was put back, what the entry lists was reported since it was
last gone (`EntryWasTold`); and in a file that keeps what was stored in it, every
known measure is among what the entry knows to be measurable (`KnownIsStored`). The
two theorems carry these conditions; both are needed, as *Baseline* above says. *Changes* (`ReportInv`): reports are
in the order of their dates. *Waivers*: an announced expiry is the least of the
greatest deadlines, and no check changes sides before it (`DeadlinesAreKept` splits
the moments at it). *Lifecycle*: `LifecycleInv` numbers the lines without gaps and
bounds their patches, so that a later line has later versions; a step that promotes
no line only lets the schedule grow (`Grows`), each track's end stays or comes
earlier, and the verdict stays. *A scan*: `OpeningIsKept` says that what
the opening recorded is still there, because every later write is of another name
or kept out by "first write wins", and that no other name is recorded before the
findings are; `EvidenceIsKept` that the findings are those of the checks,
untouched by the waivers. The one name recorded twice with different
answers is shown to be `basicAuthDisabled` (`OnlyOneNameIsShared`), which fails only
where both agree. `NothingIsFixedByAsking` goes through the families of measures and
shows for each that the second program asks what the first did. *The plan*: `PlanInv`
says that a measured plan is honest of what is left now, however many of its steps
were taken; the heart is that the findings sorted by cap make each prefix the best
one can do (`FixesAre`, `StepsAreHonest`) and that inserting the upgrade where it
pays keeps the tail honest (`TailStaysHonest`, `UpgradePaysAlways`).

**The wizard.** `WalkInv`: of the questions before the position those were answered
that are relevant *now*. It is inductive because no answer decides on the relevance
of a question before it, other than through what it forgets (`RelevantAreAsked`).
`NumbersInv` and `FilesInv` say that a password in use is in `.env` or in a backup
at every step of the writing, also between the truncation and the write. `StackInv`
says that the answers were completed (`Filled`), that what must exist is held, and
that `.env` holds only credentials whose question has a point - the one that makes
what an earlier run left harmless. From there `CredentialsMeet`, `VolumesMeet`,
`AreaStaysClosed` and `RefusalsAreForetold` are about one set of answers each.

**Form the proofs need.** Merging of results is written with `Merging`, since `@@`
has no definition the provers see. `Remediation.Fixable` gives each finding the rank
the sort of the code would, a bijection instead of a sorted sequence, and
`ScanStore.Without` is a recursive function. Guards of a CASE are disjoint wherever
the code is a chain of early returns. Some assumptions on constants were stated for the proofs
(`WizardAssumption`, `StackAssumption`, `ReportAssumption`, `LifecycleAssumption`,
`SilenceIsNoAnswer`); each says what the program's own types say, and TLC evaluates
them in the runs.

**Only model-checked.** Liveness (`AcceptedScanEnds`, `PollingEnds`,
`AgentIsAnswered`, `EverythingExpires`, `LostWindowIsPutRight`) is out of the
prover's reach: it needs fairness and ENABLED. The seven disagreements are
counterexamples, which only TLC gives.

## Abstractions

- Values are what the program branches on: whether a key exists and which state
  it names. Targets are hosts; parsing and name resolution become "refused for
  some other reason". What a probe finds is one of three outcomes in the service,
  and the whole of `ScanRun` beside it.
- A uuid is never handed out twice.
- A handler finishes or dies within the TTL of the keys it writes. A job may
  outlive them.
- Keys written with the same TTL expire in the order they were written, those a
  single transition renewed together.
- One erasure, one reading request and one agent at a time; any number one after
  another.
- A strike sees at most one tick pass.
- Redis itself does not lose what it acknowledged. A command that fails is a
  handler that dies there; in `Heartbeat` it is a task that dies there.
- Downloading a release and checking its attestation is one step that may fail.
- A page, a certificate, a set of capabilities is the few facts its checks tell
  apart. One path, port or header stands for a family that is judged alike.
  `Silent` is any request without an answer, whatever the reason.
- Versions are pairs of a line and a patch; severities are those of the code;
  a date is a number of steps, chosen so that each boundary is hit.
- An address in the wizard's answers is a scheme and a host, a directory a
  sequence of names, a credential "random" or "short". Loopback is one host.
- `SetupWizard` represents the credentials by the one that cannot be replaced, the
  password of the provider's database; `WizardStack` has all of them and leaves out
  the walk and the changes at the summary.
- The statistics counted by day, logging, rendering, authentication and signing
  are left out: nothing modelled reads them.

## Not modelled

- *The target guard.* Parsing of a name and judging a DNS answer, without a state
  of its own.
- *Pages, feeds, documents, translations.* Rendering of state the parts above own.
  With the translations and the texts of the setup wizard's questions this is most
  of the lines of the repository, and the reason that a model of the control covers
  a small share of them.
- *Sockets.* TLS and DNS wire formats, response limits, redirects, address pinning
  and the observation of login throttling (`_Probe`), parsing of version strings and
  advisory ranges. What they yield is an input of `ScanRun`.
- *The rest of the wizard*: wording, diffs, next steps, blueprints, logrotate,
  Watchtower, and the presets; the plugin's `--configure` wizard.
- *Output formats and the fleet loop*, which runs one host after the other over the
  same functions; release and build scripts.
- *The scanner service* and its cache (`service.py`), `rehearsal.py`, the key lookup
  of a signed-in agent (`mcp_auth.py` after startup), the batch and MCP entry points
  (which call `accept_submission` in a loop), `check_credential`, and the `peek_`
  readings, which change nothing.

## Plan

The order in which this was built, and is meant to go on: first the scan lifecycle
(`ScanService` and its promise), then what surrounds it (reader, counters,
admission), then the operations, then what operators rely on (judgement, plugin,
scan, wizard). What is next, in order:

1. Advice in `Lifecycle` when `latest_release` names an LTS release: what still
   holds of it then, which `AdviceLeadsOut` leaves out because the clock may have
   ended that line.
2. `ExclusionsAreKept` without `OneOperator`, for the exclusions nobody else edits.
3. The safety half of the liveness properties as theorems: that each key of a scan
   that is registered or gone has an expiry (`EverythingExpires` without the clock),
   and that a job's steps only lead towards its end.
4. Tighter models of what is now an input of `ScanRun`: version selection and the
   ranges of advisories.
