# A TLA+ verification of external-dns-opnsense-webhook

The webhook lets external-dns manage the host overrides of an OPNsense
firewall's Unbound resolver. It keeps no database: the firewall's saved
configuration is the only durable state, the table Unbound answers from is a
second copy that lags behind until a *reconfigure*, and the one thing the
process remembers between requests is a flag that says the two may differ.
Everything it promises has to hold although calls fail, answers get lost,
acknowledged writes are not saved, other people edit the table, requests
overlap and the process is restarted at any point. The modules here model that,
TLC checks them on small instances, and TLAPS proves the central safety
properties for every instance.

Paths are relative to the repository (`src/`). `PROJECT.json` maps each
definition to the lines it models.

## 1. Inventory

| Component | State | Operations | Talks to | What is hard | What makes it correct |
| --- | --- | --- | --- | --- | --- |
| Provider (`internal/opnsense/provider.go`) | `pending`, its gauge, `applyMu`, `reconfigureMu` | `ApplyChanges`, `Records`, `AdjustEndpoints`, `reconfigure`, `Startup`, `Ready` | client; called by the webhook handlers, `main.go`, readiness | reads repair while applies write; flag and gauge set separately; a crash forgets the flag | saved and served never differ unnoticed (I4); an apply that succeeds is served; every apply returns |
| Apply (`internal/opnsense/apply.go`) | `applyRun`: snapshot, desired sets, phase failures, writes to verify | `foldChanges`, four phases, `addSet`, `removeSurplus`, `verifyPhase` | client, provider | one call of many fails, is lost, is acknowledged and not saved; the deadline; gating between phases | I1 no unowned data row, I2 no record set emptied on the way, I3 no duplicates on retry; success means converged |
| Table read (`internal/opnsense/snapshot.go`) | rows so far, total, page, attempt | `Snapshot`, `readAll`, `index`, `Endpoints` | client | offset paging of a table that others edit | an accepted read is the table; a read ends |
| API client (`internal/opnsense/client.go`, `transport.go`) | `writeMu`, attempt counter | `AddHost`, `SetHost`, `DeleteHost`, reads, `Reconfigure`, retry policy | firewall | a timeout while the firewall goes on; retry of what was already done; the firewall's save is load-modify-write | acknowledged writes are saved; nothing is saved twice |
| Conversions (`names.go`, `dto.go`, `snapshot.go`, `types.go`, `provider.go`) | none | `normaliseName`, `splitName`, TTL and TXT conversions, `AdjustEndpoints`, `Snapshot.Endpoints` | provider, apply | two places decide what is writable; unset TTLs; rows in any order | what is kept can be written and reads back as itself |
| Readiness (`internal/server/readiness.go`) | cached verdict, singleflight | `Check` | provider | concurrent and cancelled requests, a hanging firewall | one probe per TTL; a recent verdict; every request answered |
| Server lifecycle (`internal/server/server.go`, `cmd/.../main.go`) | two listeners, the signal's context, the grace of a shutdown | `main`, `Run`, `serve`, `ApplyBudget` | everything | applies queue for the locks while the write timeout runs; a shutdown shorter than an apply; one of two listeners fails | a reply is late only after waiting for a lock; a clean exit has drained; a stop ends the process |
| Webhook handlers (`internal/webhook`) and middleware (`internal/server/middleware.go`) | none shared between requests | header check, decode, one provider call, one reply; recovery, body limit | provider | a panic under the provider's locks | applies are answered although other requests panic |
| Metrics, configuration | counters; the validated settings | recording; parsing and validation | all | flag and gauge set separately (in Provider) | section 7 |

The hazards this leads to are listed in `PROJECT.json` with the line where each
bites and the properties that would notice.

## 2. Modules

### Provider (with MCProvider, ProviderProofs)

The firewall's two tables are `saved` and `served`, functions from record sets
to contents. `pending`, `gauge`, `applyMu` and `reconfigureMu` are the fields of
`Provider`; `pc` says where each request is. There is one action per atomic
step: `ApplyCall`/`ApplyLock` to `ApplyFinish`/`ApplyNothing` for
`ApplyChanges`, `ReloadLock`, `Publish`, `ReloadOk`, `ReloadFailed`,
`ReloadNotNeeded` and `ReloadReturns` for `reconfigure` (shared by applies,
reads and startup), `RecordsCall`/`RecordsRead`, and the `Startup...` actions.
`setPending` is two steps because the code stores the flag and the gauge without
a lock. `Publish` and the answer to it are separate, so a reload may take effect
and its answer be lost. `Crash` can happen at any time and restarts the startup
goroutine. What an apply writes is arbitrary here: any row of any set, any
number of times; module Apply says which.

`Publication` is what all this is for, without requests, locks and flags: the
saved table changes only while it is *known* that the served one may be behind,
and that is given up only when the two are equal. A restart may lose it. Provider
implements it with `known` mapped to "the flag is up or a run owes its reload"
(`PublicationKept`).

### Apply and FoldChanges (with MCApply, MCFoldChanges, ApplyProofs, FoldChangesProofs)

`FoldChanges` is `foldChanges`: endpoint by endpoint, with the early returns in
the source's order, next to an order-free definition (`Agreed`) of what the
result should be; the plan's lists are gone through by recursive functions, so
that the proofs can follow them. `Apply` takes the folded plan through the four phases. Within
a phase the active keys interleave up to the worker limit; a call to the
firewall ends in one of four ways: done, refused, done with the answer lost, or
acknowledged without being saved. `EndPhase` is the re-read that compares every
acknowledged write, `EndPhaseUnverified` a re-read that failed. After `Finish`
the next reconcile plans again (`Replanned`); a TXT row whose data row has gone
is no longer in any plan, as the registry behaves and
`docs/design.md` section 12 accepts. What the registry sends and the tables it
has made are predicates on plans and tables (`RegistryPlan`, `Undisputed`,
`Claimed`, `Distinct`): premises of the theorems that need them, and checked of
the instances by the `ASSUME`s of MCApply.

### SnapshotRead (with MCSnapshotRead, SnapshotReadProofs)

`Client.Snapshot` and `readAll` page by page. Rows have a rank in the sort order
of the firewall; between two pages any client may add, delete or rewrite rows.
The consistency rules (`Inconsistent`) are the source's: total changed, page
empty too early, too many pages, more rows than the total.

### Client (with MCClient, ClientProofs)

Each worker makes one write call under `writeMu`, with attempts, the retry policy
by operation and status (`idempotent`, `TooMany`), and timeouts. The firewall
loads its configuration, changes one row and saves the whole
(`Load`, `Save`, `NotFound`, external), also for attempts whose caller has given
up.

`Backoff` is how long the client waits between two attempts: `parseRetryAfter` and
`backoff` on durations that wrap around, next to the unbounded arithmetic they
stand for (`Due`). `MCBackoff` computes the waits of a call that is refused
again and again.

### Endpoints (with MCEndpoints, MCFunctions, FunctionsProofs)

Names are sequences of labels with the spelling that normalisation removes
(capitals, dot, space); TTLs are numbers or absent; TXT values carry their
quotes. `splitName` normalises the name it is given once more, as the source does.
`MCEndpoints` runs one endpoint through `AdjustEndpoints`, the write path
and the read path, and compares with what `FoldChanges` would refuse and with the
names that are under a domain label by label, however either is spelled
(`Under`).
`GroupsOf` goes through the rows and their aliases in the order of the table
(`RowSteps`, `ChildSteps`); `Grouped` says what the groups are without an order.

`MCFunctions` puts the pure functions into one run: it extends `MCFoldChanges`
and has `MCEndpoints` and `MCBackoff` as instances (`Conv`, `Call`). A behaviour
exercises one of the three.

### Readiness (with MCReadiness, ReadinessProofs)

`cachedProbe.Check` as eight steps per request around the singleflight, with time
in ticks, a firewall that is up, down or hanging, and requests that are cancelled.
`call` is the probe's call to the firewall: a firewall that does not hang answers
it (`FirewallAnswers`); one that hangs may lose it, or the answer that was under
way, for good (`FirewallLoses`), also when it recovers afterwards. The client
repeats a call that failed after a wait (`Retry`), and the probe's own timeout
(`TimedOut`) fires whatever the firewall does by then.

### Server (with MCServer, ServerProofs)

The process around the provider. `Boot` is `main` up to the comparison of
`ApplyBudget` with `SERVER_WRITE_TIMEOUT`; `ListenFails`, `Stop`, `Drained` and
`GraceOver` are the ways `serve` goes on for each of the two servers, `Cancelled`
the context the errgroup shares between them, and `Exit` the return of `Run` with
the exit code. A request is answered without the firewall (`AnswerAtOnce`: refused
by the header or body checks, or computed in the process) or calls the provider
(`Accept`), where it goes through the two locks and the timed stages of
`ApplyChanges`, `Records` and `reconfigure`; it may panic anywhere, which runs the
deferred unlocks and becomes a 500. Time is in ticks: a tick passes only when
nothing is due, each stage has a context of its own (`spent`), and the write
deadline of the connection (`age`) runs through all of them. What is written and
served is left to Provider.

## 3. Runs

Passing runs:

| Run | Instance | What it shows |
| --- | --- | --- |
| MCProvider | 1 record set, 2 applies, 1 read, startup, crashes | `NoSilentDivergence` (I4), `GaugeSettles`, `RestartCovered`, `ApplyReturnsServed`, `PublicationKept` (refinement), `DivergenceRepaired`, `ApplyReturns` |
| MCSnapshotRead | 4 rows, pages of 2, 2 attempts | `AcceptedIsWhole`, `PagesBounded`, `ReadEnds` |
| MCFunctions | every endpoint of a vocabulary on tables with one foreign row; tables of 3 rows that share record sets; every plan of up to 3 endpoints; 5 attempts with durations of 6 bits | `ReadBack`, `DropsUnwritable`, `GroupsOrderFree`; `FoldIsAgreement`, `DropsReported`, `InvalidTXTCounted`; `WaitInRange` |
| MCApply | 2 names, 2 workers, 14 tables, 18 plans, 3 faults | `OwnedRows` (I1), `NeverEmptied` (I2), `NoDuplicates` (I3), `SuccessIsConverged`, `EventuallyConverged` |
| MCClient | an add, a set and a delete, 2 attempts | `AckedIsSaved`, `CommitsOnce`, `CallReturns` |
| MCReadiness | 3 requests, TTL of 2 ticks, probes of up to 2 ticks | `OneProbePerTTL`, `VerdictIsRecent`, `CheckReturns` |
| MCServer | any 2 of 2 applies, a read and a health probe, beside startup; apply 2 ticks, reconfigure 1, grace 1, write timeouts 2 (refused) and 3 | `ReplyInBudget`, `ExitDrains`, `ApplyAnswered`, `StopEnds` |

Runs that show a disagreement between the code and what the repository says of it
(`PROJECT.json` quotes both):

| Run | What happens |
| --- | --- |
| MCProviderRestart | A row that is saved and not served when the process starts, in the trace a changed target, stays unserved when its record set has any row served: the startup check looks rows up by name and type. |
| MCSnapshotReadPartial | A delete and an add between two pages keep the total, and a row that was there all the time is missing from an accepted read. |
| MCApplyConflict | A plan that describes a TXT record in two ways loses that key without counting it as a rejected TXT, so the data phase is not gated and creates an unowned row. |
| MCClientSerial | A call that times out releases `writeMu` while the firewall is still working on it; the next write overlaps it. |
| MCServerReply | An apply waits for `applyMu` behind another one (or for `reconfigureMu` behind a repairing read) and replies after the write deadline, although `main` accepted the budget, which counts no waiting. |

`AcceptedIsWhole`, `AckedIsSaved`, `RestartCovered` and `ReplyInBudget` are what does hold in
their place: each excludes the case its companion run exhibits. `ReplyInBudget`
also takes the body of a request to arrive with its header; the time it takes
counts against the write deadline as well (below). `MCApply`'s plans describe every
TXT record once.

Smaller disagreements and oddities were met while modelling and have no run:

- `Records` looks at `pending` once, before it reads the table, and does not take
  `applyMu`; it can return rows that an apply in progress has written and not
  reloaded, where its comment (`provider.go:60`) says that the table returned is
  the table served.
- A failed `Startup` has no effect on `/readyz`, although its comment
  (`provider.go:203`) says that failures leave it failing; the probe is a page
  read of its own.
- `Validate` trims the trailing dot of a domain before the spaces
  (`types.go:85`), so an entry that ends in a dot and a space keeps the dot, and
  no name matches the domain.
- `foldChanges` normalises a name once for the key and `splitName` a second time
  (`names.go:57`): a name that ends in two dots is written under another name than
  the one its key has, and its rows are not found under that key.
- A readiness probe whose call was lost while the firewall hung ends with its own
  timeout, and that error is cached for a whole TTL, although the firewall has
  recovered: `/readyz` may stay wrong for the TTL and the probe timeout
  (`readiness.go:76`).
- Of two hand-made rows with the same name, type and target only one is given the
  endpoint's TTL (`apply.go:510`), where `docs/design.md:329` says all are.
- A reconfigure is a single attempt under `OPNSENSE_REQUEST_TIMEOUT`
  (`client.go:136`, 20 s) and is not retried unless the answer was 429, so the
  longer `OPNSENSE_RECONFIGURE_TIMEOUT` (45 s) of its context hardly ever bounds
  anything: a reload that takes 30 seconds is reported as failed. The next read
  repairs it (`DivergenceRepaired`).
- `docs/design.md:290` says that the flag is set "after any ambiguous write (a
  timeout after the request was sent, since the firewall may have committed it)".
  The code sets it before the first write of an apply and not again
  (`apply.go:163`). A write that timed out and that the firewall saves only after
  the apply's reconfigure has succeeded is therefore saved, not served, and
  flagged by nobody, against I4 (`docs/design.md:211`), until the next apply that
  writes, or a restart, reloads. Setting the flag after the timeout would not close
  the gap either, since the same reconfigure clears it. Provider's firewall saves a
  row before its call ends, so what its runs and proofs say of the flag holds
  without such late saves.
- `main` refuses a write timeout with "must exceed" the budget and accepts one
  that equals it. `SERVER_WRITE_TIMEOUT=0`, which `net/http` takes as no timeout
  and `Validate` accepts, is refused by the same comparison.
- The timeout table of `README.md:123` ends with a pod grace of 180 s, and the
  process gives its handlers 30 s (`server.go:19`).
- The write deadline starts when the header has been read, so the arrival of the
  body counts against it and not against the budget.
- A request that panics is counted in `panics_total` and not in the request
  metrics, which are recorded after the handler returns
  (`metrics/middleware.go:46`).
- The consecutive-error gauge is reset by every successful read
  (`metrics.go:469`), and external-dns reads before every apply: applies that fail
  for ever never raise it above one.

## 4. Bounds

- Provider: one apply holds `applyMu` while another waits, a read repairs and the
  startup check competes for `reconfigureMu`. Nothing counts, so the state space
  is finite without further bounds. One record set keeps the liveness check small;
  the theorems of section 6 cover every number of record sets, requests and
  targets for all its safety properties.
- SnapshotRead: `MaxRank` orders rows before and after one another; four rows on
  pages of two leave room for a total that changes and for one page more than
  expected. `ReadAttempts` is 2 (the default of 3 adds another restart of the same
  kind).
- Apply: `MaxFaults` bounds misbehaviour in total. Three suffice for a lost write,
  the failure of its re-read and one more; without faults `EventuallyConverged`
  could not be asked. `UUIDs` is as large as a run can need: a create takes a
  uuid that is `Free`, and in the run there always is one. The theorems hold for
  any finite set of uuids.
- Client: one worker per operation, so that every pair of operations meets;
  `RetryAttempts` 2 gives each a first attempt and a retry.
- Endpoints, FoldChanges: `MaxTTL` is the cap of `clampTTL`; the TTLs tried are
  below, at and above zero and above the cap. `SettingsFit` says what the configured
  domains are: names that are not empty, as `Validate` demands, that keep no dot
  (section 3), and that have no wildcard
  label, which `Validate` does not look at: with a domain `*.ex`,
  `AdjustEndpoints` drops an endpoint of that domain and `fold` would accept it,
  since only the latter looks for the wildcard in the host part alone.
- Readiness: three requests are a leader, a joiner and one that looked at the
  cache before the leader's probe ended. A probe of two ticks leaves one in which
  the firewall hangs and one in which it has recovered. Ages are counted up to the
  TTL and one probe timeout (`Horizon`), where more makes no difference.
- Backoff: `Half` is 32, so a duration has six bits instead of 64, with `Second`, the cap on
  `Retry-After` and the delays scaled down so that the shift and the conversion
  from seconds both overflow for some inputs, as they do for 64 bits. The
  configurations keep one and a half times the maximum within the width and the
  shifted delay below twice the range, as every configuration of up to ten
  attempts with delays of hours does (`DelaysFit`, which the theorem assumes too;
  `Validate` itself accepts delays of years).
- Server: `MaxRequests` bounds the requests of one life of the process to two at
  a time of its choosing, of any kinds; the theorems need no bound. Two ticks of
  phases and one of reload leave a tick in which each can end early.
  Ages are counted to one tick past the write timeout.

## 5. Fairness

- Provider: goroutines that can run do (weak fairness of every step of a request
  after its arrival); every client call has a timeout, so it ends. Go's mutex
  hands over to a waiter that has waited for a millisecond, hence strong fairness
  of taking the two locks. external-dns reads on every interval. A firewall asked
  again and again to reload does not fail each time: strong fairness of `Publish`,
  which is an assumption about the firewall and not about the code. Nothing is
  assumed about applies arriving, writes succeeding or crashes.
- SnapshotRead: every page call ends. The table may be edited for ever.
- Apply: reconciles go on and every call ends; faults are finitely many.
- Client: a worker or the firewall's work for it goes on; a timeout is always
  possible while it waits, so no fairness of the firewall alone is needed.
- Readiness: goroutines run and clocks advance, so while a probe runs the firewall
  answers, the probe goes on or time passes. The firewall may hang for ever, and
  come and go as often as it likes.
- Server: `main`, the two `serve` goroutines, applies and startup go on when they
  can, and time passes; a stage with a context ends when the context does. A read
  may hang for ever, since its caller may, and nothing is assumed about arrivals,
  panics, failing listeners or signals.

## 6. Proofs

| Theorem | Statement | Inductive invariant |
| --- | --- | --- |
| `ProviderProofs!TypeCorrect` | types, program points | `TypeOK` |
| `ProviderProofs!DivergenceIsKnown` | `[]NoSilentDivergence` | `SafeInv` |
| `ProviderProofs!ApplyServes` | `ApplyReturnsServed` | `SafeInv` |
| `ProviderProofs!ProviderKeepsPublication` | `PublicationKept` | `SafeInv` |
| `ProviderProofs!GaugeAgrees` | `[]GaugeSettles` | `GaugeInv` with `TypeOK`, `MutexInv` |
| `ProviderProofs!RestartIsCovered` | `[]RestartCovered` | `RestartInv` with `SafeInv` |
| `SnapshotReadProofs!AcceptedReadIsWhole` | `[]AcceptedIsWhole` | `WholeInv` |
| `SnapshotReadProofs!ReadTypeCorrect` | types, attempts bounded | `TypeOK` |
| `SnapshotReadProofs!PagesAreBounded` | `[]PagesBounded` | `TypeOK`, with lemma `NoRowsBehind` |
| `ClientProofs!ClientTypeCorrect` | types, attempts bounded | `TypeOK` |
| `ClientProofs!SavedAtMostOnce` | `[]CommitsOnce` | `OnceInv` |
| `ClientProofs!AcknowledgedIsSaved` | `[]AckedIsSaved` | `LockInv`, `SerialInv` |
| `ReadinessProofs!TypeCorrect` | types, one flight | `TypeOK` |
| `ReadinessProofs!OneProbe` | `[]OneProbePerTTL` | `ProbeInv` |
| `ReadinessProofs!VerdictsAreRecent` | `VerdictIsRecent` | `RecentInv` |
| `ServerProofs!TypeCorrect` | types, stages within their contexts | `TypeOK` |
| `ServerProofs!RepliesInBudget` | `[]ReplyInBudget` | `BudgetInv` |
| `ServerProofs!ExitIsDrained` | `[]ExitDrains` | `DrainInv` |
| `ApplyProofs!ApplyTypeCorrect` | types; a stopped key is marked | `TypeInv` |
| `ApplyProofs!ApplyNeverEmpties` | `NeverEmptied` (I2) | `RunInv` with `TypeInv` |
| `ApplyProofs!ApplyNeverDuplicates` | `[]NoDuplicates` (I3) | `NoDuplicates` with `RunInv` |
| `ApplyProofs!ApplyMovesNoRow` | no write moves a row to another key | `RunInv` |
| `ApplyProofs!ApplyOwnsRows` | `[]OwnedRows` (I1) | `RegistryInv` with `RunInv`, `RecordInv` |
| `ApplyProofs!ApplySuccessConverged` | `[]SuccessIsConverged` | `ErrInv` with `RunInv`, `RecordInv` |
| `FoldChangesProofs!FoldIsOrderFree` | `foldChanges` is its order-free definition, for every plan | `FoldInv`, over the plan |
| `FunctionsProofs!FoldsAgree` | `[]FoldIsAgreement` | `ItemsTyped` |
| `FunctionsProofs!FoldsReport` | `[]DropsReported` | `ItemsTyped` |
| `FunctionsProofs!FoldsCount` | `[]InvalidTXTCounted` | `ItemsTyped` |
| `FunctionsProofs!GroupsAreOrderFree` | `Grouped`, for every table | `Describes`, over the table |
| `FunctionsProofs!WrittenIsReadBack` | every endpoint that is kept reads back as itself | none: about one table |
| `FunctionsProofs!GroupsStayOrderFree` | `[]GroupsOrderFree` | `TableInv` |
| `FunctionsProofs!WritesAreReadBack` | `[]ReadBack` | `TableInv` |
| `FunctionsProofs!DropsAreUnwritable` | `[]DropsUnwritable` | `TableInv` |
| `FunctionsProofs!WaitsInRange` | `[]WaitInRange` | `RetryInv` |

They hold for any sets of requests, record sets, targets, rows and workers and
any page size and numbers of attempts, under the `ASSUME`s of the modules: the
kinds of process are disjoint, `None` is not one of them, sizes and attempts are
positive, the set of rows is finite, the timeouts are ordered as
`Config.Validate` demands, and the settings and delays are as `SettingsFit` and
`DelaysFit` of section 4 say. Three of the theorems about Apply have premises of
their own, given below.

*Divergence.* `NoSilentDivergence` is not inductive: a reload that clears the flag
must be known to have published what is saved now. `PublishInv` adds that behind
an apply's own publish the tables are equal, because the apply holds `applyMu`
(`MutexInv`) and nobody else writes, and that behind anyone else's publish a
difference can only come from a run that still owes its own reload, which is why
the code may clear the flag that run has set.

*Publication.* The same invariant makes every step of the provider a step of the
abstract specification or a stutter (`PublicationStep`): a write happens only
under `Known`, and the step that makes `Known` false is the answer to a reload
behind whose publish nobody has written.

*Gauge.* A caller about to set the gauge to 0 while the flag is up implies another
one (`Debt`) that will set both again.

*Restart.* The argument needs the order of the two reads: the saved table is read
before the served one, so a record set that the check did not see was written
later, by an apply that is responsible for it.

*Paged read.* `AttemptInv` relates the rows collected to the rows there were at
the attempt's first page; an unchanged total together with only additions or only
deletions means an unchanged set of rows, which is a fact about cardinalities of
finite sets (`GoodPage`). A page behind the last one the total allows for is empty
(`NoRowsBehind`: the rows before a row of that page would be more than the total),
and an empty page ends the attempt.

*Client.* `SerialInv` says that, with no attempt abandoned, the firewall works only
on the attempt its caller waits for, so a load-modify-write starts from the table
as it is. `OnceInv` says that an add or a set has at most its current attempt in
the firewall, and has not been saved before it.

*Readiness.* A caller probes only behind its own second look at the cache, inside
the one flight, so the cache cannot be fresh while it probes (`ProbeInv`).
`RecentInv` ties the cached verdict and the verdict of a flight that ends to the
last time the firewall was in that state: an answer under way to the age of the
probe that asked, and a call that is lost or waits to be repeated to a time during
the probe at which the firewall was not up. A probe lasts at most its timeout, so
what it leaves in the cache is that much older than the cache entry.

*Server.* `BudgetInv` bounds the age of a connection that never waited by the sum
of the stages it went through; with `TypeOK`, which bounds each stage by its own
context, the age at the reply is at most `ApplyBudget`, and `Boot` compared that
with the write timeout. `DrainInv` says that a server is closed only without
handlers, so whatever runs when the process ends belongs to a server that failed
or was forced, and a forced one had its whole grace.

*Apply.* The snapshot a run works on and the saved table drift apart: answers are
lost, and acknowledged writes are not saved. `RunInv` says how far.
`DifferencesExplained`: where they differ, the key is marked as failed, or the
snapshot has a wanted row that was never saved, or it lacks an unwanted row that
was not deleted. `CreatedLast`: a row that exists only in the snapshot was
created when no unwanted row was left to take over. `AddedOrMarked`: behind an
add phase, a key that lacks a wanted target is marked. `OneKey` and `PhaseLocal`
tie uuids to keys and the bookkeeping to the running phase. With this, a worker
that deletes a row works for a key that has its wanted rows in the table, or one
that is to be empty, which is I2; a target missing from the snapshot of an
unmarked key is missing from the table (`MissingIsMissing`), which is I3.
`RecordInv` adds that each difference is on record (`Recorded`): as a stopped key,
as an acknowledged write the re-read will find missing, or as a failure of its
phase, unless the run is blind. So a re-read that finds nothing leaves nothing
different, and without an error the plan is in the table (`ErrInv`). That is the
plan's TTLs too: as long as there is no error, behind its add phase a key has a row
with the plan's TTL for every wanted target (`Settled`), whether it was fixed in
place, reused or created, and behind its remove phase no other row (`Clean`). For
I1,
`RegistryInv` says that behind the first phase the registry rows of the plan
stand, unless that phase is among the failures that gate the next, and that behind
the third the data rows of deleted names are gone, unless the removal of registry
rows is gated.

The premises: I3 and `SuccessIsConverged` need tables without duplicates
(`Distinct`) to begin with, the second because `addSet` gives only the last of
several rows with one target the plan's TTL (`apply.go:510`, section 3). I1
needs tables whose data rows the registry claims (`Claimed`), plans that contain
the registry record of every data record they create or delete (`RegistryPlan`)
and describe no registry record in two ways (`Undisputed`); without the last it is
false, which MCApplyConflict shows. Types and I2 need none.

*Folding and grouping.* Both are recursive functions over a sequence, and what they
hold after *n* steps is stated by an invariant of *n* (`FoldInv`, `Describes`).
The induction is by least counterexample: the set of the *n* for which the
invariant fails, if it is not empty, has a smallest element, which is not 0 and
whose predecessor leads to a contradiction. `FoldInv` says that a key is kept with
exactly the desired set that all its acceptable endpoints so far agree on, and
that a key of the plan that is not kept was reported. `Describes` says that a
group's targets are those put into it, that its TTL is the smallest explicit one
put into it, and that `differs` is set exactly when two of the TTLs put into it,
set or unset, are different.

*Read back.* `WrittenIsReadBack` is a round trip through each conversion. A name in
a configured domain has a longest such domain (`LongestMatches`), which is a
suffix, so cutting it off and joining the two parts gives the name again
(`SuffixSplits`, `SplitJoins`); a TXT value that `validateTXT` accepts gets back
the quotes that it is written without; a clamped TTL comes back as itself, or as
unset where it was. So all rows of the endpoint are grouped under its key, with
one TTL. The premise (`Tidy`) is that normalising the name leaves no dot or space at
its end, which holds unless several follow one another there. `TableInv` is what
relates this to the run: while an endpoint is being written, the rows under its key
are those of the targets no longer in `left`. `DropsAreUnwritable` compares the conditions of `dropReason` with those of
`fold` one by one; a name is refused by both for the same reason because a domain
has no wildcard, so that a wildcard can only be in the host part
(`WildcardsRefused`). That a name is refused exactly when it is not under a domain
(`SplitIsUnder`) rests on both being normalised to the same spelling
(`DomainsSpelled`).

*Backoff.* A shift that stays below twice the range is either right or wraps around
once, to a number that is not positive; that becomes the maximum, which is then
below the true delay. The seconds of `Retry-After` are capped before they are
multiplied, and a hint is never above the maximum.

Only model-checked: liveness (`DivergenceRepaired`, `ApplyReturns`, `ReadEnds`,
`EventuallyConverged`, `CallReturns`, `CheckReturns`, `ApplyAnswered`,
`StopEnds`), since the prover handles neither fairness nor `ENABLED`; and the
violations of section 3. Every invariant and action property of the passing runs
is proved.

## 7. Not modelled

- Webhook handlers and middleware beyond Server: which status and body a refusal
  has, the access log, request metrics.
- Metrics registry: counters nothing depends on. The one gauge with a protocol is
  in Provider.
- Configuration: parsing of environment variables. Validated bounds appear as
  `ASSUME`s.
- JSON shapes (`flexBool`, `optionField`, `StringOrList`), TLS, response size
  limits, logging.
- Rows that the firewall saves after the call that carried them timed out and the
  reload that followed has ended (section 3).
- A panic of an apply between its first write and its reload together with the
  tables: Server has the panic and Provider the tables. None of the handler's own
  statements there was found to panic, and a panic in a worker ends the process,
  which is `Crash`.
- The test double of the firewall under `test/fake`: test code. The firewall is
  external in each module, modelled from how the client uses it.

## 8. Plan

1. *Done:* Provider with its abstract specification, SnapshotRead, FoldChanges,
   Apply, Client, Backoff, Endpoints, Readiness, Server, their runs, and the proofs
   of every invariant and action property that the passing runs check, with the
   refinement of Publication by Provider.
2. *Proofs:* the safety part of what liveness rests on (in Apply, that a fault-free
   run of a plan nothing obstructs ends without an error), and Apply's writes
   as writes of Provider.
3. *Reconcile:* the loop of external-dns over Endpoints, FoldChanges and Apply:
   hand-made aliases and duplicate rows at managed names, which the tables of Apply
   leave out, and lost replies of the handlers.
4. *Client:* reads and reconfigure through the same retry loop, beside the writes.
5. *Provider:* late saves of timed-out writes as a fault of the firewall, with the
   divergences they cause named apart from those the flag must cover.
