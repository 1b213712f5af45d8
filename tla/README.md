# crm-v2: verification project

TLA+ models of the parts of crm-v2 where the order of steps matters, the TLC
runs that check them and TLAPS proofs of the most important results. Paths below
are relative to the repository (`src/` stands for its root).

Every definition is a translation of code. `PROJECT.json` gives for each one the
lines it stands for (`map`), for each property a mutation of the code that breaks
it (`mutants`), and for each hazard of the code the properties that watch it.

## 1. The system

Three programs and one shared package:

| program | runs | keeps its state in |
|---|---|---|
| `apps/web`, the CRM | one Next.js server per client, PostgreSQL 17 | tenant tables behind row level security, READ COMMITTED transactions |
| `apps/control-plane` | one Cloudflare Worker for the vendor | D1 (SQLite): a statement or a `batch` is atomic, a request is not |
| `apps/deployment-agent` | a Node process next to each CRM | files of its state directory |
| `packages/control-protocol` | in all three | nothing: signed envelopes and lease arithmetic |

The control plane signs *entitlement versions* for a deployment. The agent sends
heartbeats, learns the newest version number, fetches that version and puts it
to the CRM. The CRM verifies and stores it, and its lease decides whether
members may write and how many seats there are. Inside the CRM, sessions of many
members run transactions on the same funnels, opportunities, requests and
quotations.

### 1.1 Components

| component | state | operations | hard behaviour | what makes it correct |
|---|---|---|---|---|
| **Entitlement issuance** (`control-plane/src/repos/entitlements.ts`, `service-controls.ts`, `contracts.ts`, migrations 0005, 0006, 0012) | contracts, schedule, service policy, number sequence, versions, renewal claims | issue, renew (cron), assign, change controls, save policy, contract update | every request is a sequence of statements on a database others change; repeated requests; claims taken over | one consistent state per version, numbers in order of revisions, idempotent keys, a saved policy never rested on unsigned, signed in the end |
| **Funnel stages and approvals** (`web/server/services/stage.ts`, `lib/stage-gate.ts`, `approval-routing.ts`, `owner-cascade.ts`) | funnel stage, history, requests, project code | advance, Kanban move, approve, reject, cancel, container edit, owner change | row locks in different orders, reads without a lock, deadlock and replay | no move lost, terminal stages final, decisions final and authorised, one project code |
| **Opportunity records** (`funnel/actions.ts`, `opportunities/actions.ts`, `ppvvc.ts`, `opportunity-container.ts`, `numbering.ts`) | opportunity row, its funnels' copies of PPVVC and nature, totals | create, update, PPVVC edit, recompute totals | copies read without a lock, totals computed from a snapshot | children agree with the parent, totals agree with the children |
| **Deployment agent** (`deployment-agent/src/runner.ts`, `client.ts`, `identity.ts`) | identity files, runtime file, repair flag | initialise, heartbeat cycle, poll, stop | crash between two durable writes, lost answers, two timers | never applies an older version, converges to the newest |
| **Entitlement apply** (`web/lib/deployment-control.ts`, migration 0066) | applied revision, greatest trusted time, history | apply, read access, checkpoint | replayed and reordered puts, clock set back | revision and trusted time never go back |
| **Registration** (`control-plane/src/repos/deployments.ts`, migrations 0004, 0008, the agent's `identity.ts`) | install tokens, keys, the agent's identity and registration files | issue, replace, revoke a token; register, recover; first start | answer lost after the registration, a process killed between two files, two processes on one directory, two issue requests at once | one key, the one on the agent's disk; one token that can be claimed; every process gets through in the end |
| **Command queue** (`control-plane/src/repos/commands.ts`, `routes/commands.ts`, `pollCommandsOnce` of the agent) | commands, acknowledgement audit | enqueue, claim, run, acknowledge, cancel, retry, expire | selecting and claiming are two statements of overlapping calls; answers lost; outcome and audit written apart | nobody overtaken but by who was chosen before its row came in; nothing in flight without a call that has or lost it; audit and queue agree |
| **Seats** (`web/lib/deployment-seats.ts`, `team/actions.ts`, `lib/auth.ts`, `lib/bootstrap.ts`, migrations 0066 to 0075, 0089) | reservations, invitations, memberships and roles, signed limit, trusted time | reserve, provision, activate, reactivate, sign in, claim, disable, remove, revoke, reconcile, apply and checkpoint the entitlement, edit roles, archive | a limit applied while admissions are under way; reservations expire by three hands; opposite lock orders | an overage never grows, invitations and reservations stay together, a claim finds nobody |
| **Quotations** (`quotations/actions.ts`, `quotation-transitions.ts`, `value.ts`, `numbering.ts`, `settings/actions.ts`) | status, number, primary flag and pointer, the funnel's amount, the tenant's quotation counter | create, revise, duplicate, edit, submit, approve, reject, recall, send, accept, make primary, delete, set the counter | statuses and pointers and the counter read before locks, the owner's cascade, numbers per series | legal transitions, the amount follows the primary, pending approvals under the present owner, no number twice |
| **Lead conversion** (`conversion.ts`) | leads, conversion requests | convert, decide | the lead changes while a request waits | one conversion per lead, from the snapshot approved |
| **Projects, milestones, sales orders, billing** | milestones, orders, billing entries | won, invoice, derive, prorate | cents that do not divide, repeated invoicing | totals preserved |
| **Intercompany** (`intercompany.ts`, `interco-share.ts`) | mirrored records of two tenants | mirror, share | partial failure between tenants | mirror agrees with its origin |
| permissions, sessions, accounts, settings, dashboards, PDF templates, console pages, deployment scripts | - | record edits, queries, rendering | little of their own | not modelled, see section 7 |

### 1.2 Interactions

* control plane and agent: HTTPS calls of the agent only, each may be lost before
  or after its effect; answers carry the newest version number.
* agent and CRM: an authenticated internal API (`status`, `PUT entitlement`).
* components of the CRM: shared rows of one PostgreSQL database. A transaction
  waits for row locks (`FOR UPDATE`, `FOR SHARE`), reads what is committed at
  each statement, and is aborted when it waits in a cycle. Some transactions are
  replayed then (`db/retry-deadlock.ts`).
* components of the control plane: shared D1 tables. There are no locks; triggers
  re-check at the insert what the request had read.

## 2. The modules

| module | role |
|---|---|
| `EntitlementIssuance` | issuance, renewal and policy of one deployment, statement by statement |
| `AtomicIssuance` | what issuance promises: a version is signed from the present state in one step |
| `MCEntitlementIssuance` | symmetry for TLC |
| `EntitlementIssuanceProofs` | theorems about `EntitlementIssuance`, among them that it implements `AtomicIssuance` |
| `FunnelStage` | stage moves and approvals of the Funnels of one Opportunity, lock by lock |
| `MCFunnelStage` | pipelines and reporting lines for TLC |
| `FunnelStageProofs` | theorems about `FunnelStage` |
| `OpportunityRecords` | Opportunities and their Funnels created and edited, statement by statement |
| `MCOpportunityRecords` | forms and initial records for TLC |
| `OpportunityRecordsProofs` | theorems about `OpportunityRecords` |
| `DeploymentAgent` | the agent's two loops with the CRM's apply step and the control plane's record of heartbeats |
| `EntitlementDelivery` | what the delivery of entitlements promises: three registers that only grow |
| `DeploymentAgentProofs` | theorems about `DeploymentAgent`, among them that it implements `EntitlementDelivery` |
| `DeploymentRegistration` | install tokens, the registration of a key, the agent's first start |
| `DeploymentRegistrationProofs` | theorems about `DeploymentRegistration` |
| `CommandQueue` | the remote commands from the operator's queue to the audit row |
| `CommandQueueProofs` | theorems about `CommandQueue` |
| `QuotationLifecycle` | the quotations of one funnel, lock by lock |
| `MCQuotationLifecycle` | initial funnels for TLC |
| `QuotationLifecycleProofs` | theorems about `QuotationLifecycle` |
| `DeploymentSeats` | licensed seats: invitations, memberships, the signed limit, and the locks of the functions that change them |
| `MCDeploymentSeats` | deployments at several stages for TLC |
| `DeploymentSeatsProofs` | theorems about `DeploymentSeats` |

Composition. `DeploymentAgent` composes the agent with the apply step of the CRM and
the heartbeat record of the control plane; `EntitlementIssuance` produces the
versions it delivers, and `DeploymentSeats` consumes the limit it applies
(`Envelopes` there are the versions, applied in any order of delivery). The two
other compositions are inside a module, where the components share rows:
`FunnelStage` with the container edits and the owner cascade, `QuotationLifecycle`
with the change of the account's owner.

### 2.1 EntitlementIssuance

A request record `req[r]` holds the locals of one HTTP request or one scheduled
run, `pc[r]` the statement it will execute next. `issueEntitlement` becomes
`LookupHit`/`LookupMiss` (the version of the key), `Load` (the snapshot),
`Allocate` (number), `ReadModules`, `Commit` or `CommitAborted` (the batch with
its triggers), `RacedHit`/`RacedMiss` (the retry of the lookup). The cron run is
`RenewScan`, `RenewDecide`, `ClaimRenewal`/`ClaimBlocked`, the same issuance, and
`Postpone` or one of the `Fail...` steps. `AssignRead`/`AssignCommit`,
`SaveRead`/`SaveCommit`/`SaveRefused` and `UpdateControls`, `UpdateContract`,
`SetDeploymentStatus` are the operator's requests.

`Postpone` is `updateScheduleFromSnapshot`: a run that neither signs nor claims puts
the next check off, by an update that compares the revisions the run has read
(`Unmoved`). `SavedPolicyPursued` says what that comparison is for: whenever the next
check lies in the future, the highest version carries the saved policy, or a claim
under which its renewal is retried does.

The triggers are the heart of it: `StateUnmoved` is
`entitlement_versions_state_guard`, `KeyIsNew` the unique index on the key,
`SaveAllowed` the guard on `service_control_operations`.

Abstractions: an instant is only "passed or not" (`schedule.due`,
`claim.lapsed`, `nearExpiry`); commercial terms and module lists are members of
`Settings`; a signed envelope is its content. `answers` is a history variable:
what every caller was told.

### 2.2 FunnelStage

A session `p` runs one transaction. `held[p]` are its row locks, `tx[p]` its
locals. Waiting for a lock is a step that is only enabled when the lock is free;
a plain SELECT reads the committed rows; writes become visible at the last step
of a transaction together with the release of its locks (each row written is
locked until then, so nobody could have read it with a lock, and plain reads
must not see it). `DeadlockVictim` is PostgreSQL's error 40P01 and the replay of
`retryDeadlockedTransaction`; `Crash` is a lost connection.

`requestStageAdvance` is `LockFunnel`, `Gate`, `Route`, then either
`CancelPending`, `LockContainer`, `MoveDirectly` or `FindExisting`,
`InsertRequest`. `decideApproval` is `Begin`, `LockRequest`, `CheckApproval`,
`LockContainer`, `CheckInformation`, `MoveApproved`, or `CancelOwn`,
`RejectRequest`; `Obsolete` closes a request that no longer starts where the
funnel is. `EditContainer` and `CloseRequests` are the container edit and the
owner cascade, which take the same locks in the other order. `ChangeAuthority` is
`updateMember` on a role or a status; the reporting line, which the same action can
change, is a constant (`Manager`).

A stage's requirements are sets of keys; a record satisfies a set of keys
(`info`). The pipeline (`kind`, `order`, `approval`, `requires`, `allocates`) is a
constant, since settings are not edited in the model.

One observation made while modelling: a direct move reads the container without a
lock, so it looks as if an edit could clear a required field before the move
commits. `RequirementsHoldAtMove` holds because every container edit also writes,
and therefore locks, all child funnels (`ChildLocks`), one of which the move has
locked. The mutant `NoChildLocks` breaks it.

### 2.3 DeploymentAgent

A loop `l` is the heartbeat cycle or the entitlement poll (`runOnce` and
`runPollOnce` of `runner.ts`). `pc[l]` names the HTTP call it makes next, `loc[l]`
the values read so far in this attempt. `queue` is `applyTail`: the promise chain
through which `withApplyLock` gives the loops their turns. One attempt of the cycle
is `Status`, `Report`, and if the answer names a newer version `Fetch`, `Put`,
`Save`, `Restatus` and a closing `Report`; the poll's is `Status`, `Current`, and
either nothing, a `Report` that was left pending, or the same `Fetch` ... `Report`.
`Break` is any failed call, a metadata mismatch included: `attempt` starts over or
has used its tries. `Refuse` is a 401 or 403, after which only the cycle runs, as a
probe (`MayStart`, `CoolDown`). `LoadFailed` and `SaveFailed` are the two awaits of
the error path, which run *without* the lock.

The CRM is `web` (revision and content; content tells two envelopes of one number
apart) with `AfterPut` and `Accepted` for `apply_verified_deployment_entitlement`.
The control plane is `versions` and `reported`, the entitlement version of the
heartbeat with the latest `observed_at`. A heartbeat gets its `observed_at` when it
reaches the Worker; `lateReports` therefore holds the given-up heartbeats that have
arrived but are not stored yet, in order of arrival, and an answered heartbeat
makes all of them irrelevant. `latePuts` are entitlements in calls that were given
up; they may be applied at any later time. Versions and heartbeats are in one D1
database: `ControlRestored` takes both back, the heartbeat to any number, and leaves
what is still on its way.

Abstractions: reading and writing `runtime.json` is one step for the holder of the
lock (the error path's is two); the file is written atomically (`identity.ts`
renames a temporary file); a restart is a process that dies and is started again;
control planes without the lightweight version pointer are left out.

Observation: after a restore of the control plane that issues other content under
a number the CRM has, the CRM keeps its content while the numbers agree, so neither
side notices. `NeverBackSilently` speaks of the numbers.

### 2.4 OpportunityRecords

The same kind of session as in `FunnelStage`, but here what a transaction has
written matters before it commits: `draft[p]` holds the rows session `p` wrote, and
its own statements read those (`OppsSeen`, `FunnelsSeen`), while others read
`opp` and `funnel`. A statement over the children of an Opportunity fixes which they
are when it starts (`SeeChildren`) and then waits for one row after another
(`LockChild`). Locks on an Opportunity have three strengths, since a foreign key
check does not wait for an `UPDATE` but does for a `FOR UPDATE` (`Conflict`).

`createOpportunity` is `StartAdd`, or `StartOpen` and `OpenContainer` (or
`RefuseNumber`) when it makes its own parent, then `InsertFunnel`, `SumTotals`,
`StoreTotals`. `updateOpportunity` is `StartEdit`, with PPVVC `LockParent`,
`SeeChildren`, `LockChild`, `Sync`, then `UpdateFunnel`, `SumTotals`,
`StoreTotals`. `updateOpportunityContainer` is `StartContainerEdit`, the same
PPVVC steps, `UpdateParent`, `SeeChildren`, `LockChild`, `CascadeNature`.

Abstractions: what a caller leaves out is `Unset` and is filled in from the row
that was read first (`Resolved`), as the code does for every column; nature stands
for the columns that are written back so, estimated amount and currency for those
the totals depend on. Totals are per currency; the legacy scalar is a function of
them. Nothing deletes a Funnel, so every row is live. Years do not appear: numbers
of different years are independent.

Observations. Project nature is documented to cascade to every live child
(`opportunities/actions.ts:128`), but `updateOpportunity` writes back the nature it
read without a lock: `StartEdit`, a whole container edit and `UpdateFunnel` in this
order undo the cascade on that Funnel. And the total cannot be repaired by a plain
`FOR UPDATE` of the Opportunity at `StoreTotals`: the mutant `StrongTotalLock` lets
two insertions wait for each other, since each holds the foreign key's share lock.

### 2.5 DeploymentRegistration

A process `p` of the agent is at `pc[p]`: `install` (reads or generates the
identity), `check` (is it registered?), `send`, `wait` (for the answer), `mark`
(writes `registration.json`), `up`. A registration on its way is a record with the
statement it is at: reading the token row, then the batch. Who dies or gives up
leaves it behind in `strays`, where it is still carried out. `Claim` is the batch
with its guards, `Recoverable` the answer to an agent that asks again after its
token was used. Requests in `issuing` have checked their prerequisites and have not
written yet; the statements of the batch check them again (`Prerequisites`).

Abstractions: keys are numbers in order of generation, signatures and formats hold,
a token is expired or not. Processes share the directory, as a container and its
successor do for a moment.

### 2.6 CommandQueue

A command's place in the queue is its `created_at` (and, between equal instants, its
random id), which `enqueueCommand` takes before it awaits the preparation of the audit
rows and inserts. `created` is therefore a rank of its own, chosen when the row comes
in, and need not be the order of insertion: a row may come in behind younger ones, some
of them claimed. `among`, a history variable of the row, is how many rows were there
when it was chosen, so `ClaimedInOrder` can speak of those a call could see.

Every call of `pollCommandsOnce` is a record: `next`, `select` and `claim` are the
three steps of the claim route, `run` the execution, `ack`, `settle` and `audit`
the acknowledgement. `heard` is whether the agent still waits: a call it gave up
goes on in the control plane. The agent's `start()` never schedules the poll
(section 6), so calls begin whenever their caller likes and no liveness is claimed.

### 2.7 QuotationLifecycle

A session reads without a lock, takes the row locks its statements need one at a
time and commits; rows keep flag, status, amount, number and the owner at whose time
approval was asked for. `Indexed` stands for the unique indexes of the numbers, the
primary flag and the acceptance. The owner cascade (`changeOwner`) resets what is
pending. A transaction may be rolled back at any point.

A sending computes the value anew from the tax settings of the moment and stores it
(`Sent`), and it goes on to the funnel's amount when the quotation is flagged as
primary (`Sync`). `counter` is `tenant_settings.quote_next_number`: a duplicate and a
funnel's first quotation claim their series there, under the lock of the settings row
(`Settings`); `numbering` is `updateNumbering`, which compares with a counter read
before and then writes what was entered. `rewound` records that such a write took the
counter back; `NumbersFresh` is about the numbers given out, before any index looks at
them.

### 2.8 DeploymentSeats

A request goes from `gate` (the write access check of `assertWriteAllowed`, which
may checkpoint the trusted time) over `org` or `owner` to `seat` (waits for the row
of `deployment_seat_state`), `checkpoint` (the access is evaluated within the
function, and the row of `deployment_control_state` locked when a checkpoint is
due), `decide` (refused, nothing to do, or what it will do) and `commit`. The
application of an envelope starts at `row`, with the control row, and meets the
seats at `trigger`. `held` has the two row locks. Role edits lock nothing;
`archiveOrganization` is one `UPDATE`. `now` is the instant the request works with.

Between `decide` and `commit` nothing is written, so a request that has decided
relies on facts about tables that others may change; that they stay true is what the
proof shows. `Kept` and `Refused` are the decisions that end a request before it
writes; what a kept decision still writes is the checkpoint (`Checked`).

Abstractions: a person is a user and an email; a tick is 15 minutes or more, the
distance of checkpoints; an entitlement is its limit and its end (`Writable`), the
modes between are left out; a person occupies a seat through any active membership
of an organization that is not archived.

## 3. The runs

| run | instance | question |
|---|---|---|
| `issuance_contract` | 2 requests, 1 contract, 2 settings, 1 manual key, 2 numbers, 1 fault | is every version signed as if in one step (`IssuesAtomically`); are keys idempotent, does automation sign nothing unreviewed |
| `issuance_policy` | 2 requests, policy adoption, 6 numbers, 1 fault, fairness | does no stale save win, does the schedule never rest on a saved policy that is neither signed nor claimed, is it signed in the end, is the latest number the newest state |
| `funnel_approvals` | 2 sessions, 1 funnel, 4 stages, 3 members, 4 transactions, 1 change of authority | are moves, decisions and approvals consistent under every interleaving |
| `funnel_containers` | 2 sessions, 2 funnels, 3 transactions, opposite lock orders, fairness | is the project code allocated once; do requirements hold when a move commits; does every transaction end |
| `records_edits` | 3 sessions and transactions, 3 Opportunities, 3 funnels, 2 PPVVC fields, 2 currencies | do copies stay in step, does an edit change what it was given, in every child, and nothing else; do numbers and totals come out; which transactions can deadlock |
| `agent_delivery` | 2 versions, 3 faults out of broken, late, restart, refused | are versions applied and acknowledged in order, is no alarm false, is nothing recorded as applied left unreported |
| `agent_recovery` | 2 versions, 2 faults out of these and of a restored CRM or control plane, fairness | is the newest version applied and acknowledged in the end, does the CRM keep what it has, is a control plane that fell behind reported |
| `registration` | 2 processes, 2 tokens, 2 issue requests, 1 revocation or change of status, 1 fault, fairness | is one key trusted, the one on disk; can one token at most be claimed; does everyone get through |
| `commands` | 2 commands, 3 calls, 1 change of status, 1 fault | is a command overtaken only by one chosen before its row was there, is none forgotten, does the audit agree |
| `quotations` | 2 sessions, 16 operations, 4 quotations, a counter up to 5, 2 owners, 3 transactions, amounts 1 and 2; 9 initial funnels | does the amount follow, are approvals under the present owner, numbers fresh, transitions legal |
| `seats` | 2 requests at once, 3 in all, 15 operations; 2 people, 2 organizations, a limit of two seats and then one, 2 ticks, invitations of 1 tick, 6 initial deployments | does an overage never grow, do invitations and reservations stay together, is a claim alone, what can deadlock |
| `owner_stripped` | 1 session, 2 role edits | expected violation, see section 6 |

Why the bounds are enough. Two requests are the number the interesting races need:
one reads, the other commits in between; a third only repeats the role of the
second. Two revisions suffice for "older" and "newer", two numbers for "out of
order". `MaxVersion = 6` in `issuance_policy` lets every number that the fault, the
claim takeover and the retries can waste be wasted and still leaves one to sign.
In `FunnelStage` two sessions can form the cycles of locks (funnel, requests and
opportunity in both orders); four transactions allow two requests, a decision and
a move that makes one of them stale. `MaxChanges` puts a loss of authority or an
edit at any point of these.

In `OpportunityRecords` a race needs two transactions; the third edits again what
the first two left, or meets both. Two grades and two amounts tell old from new,
two PPVVC fields a patch from a whole form, three ids of each kind let two
insertions compete under one parent and two numbers be asked for at once.

In `DeploymentRegistration` two processes race for the identity, the token and the
files; two tokens make one that replaces the other. In `CommandQueue` two commands
give an order, three calls let two overlap on one command while a third passes them.
In `QuotationLifecycle` the initial funnels put documents at the statuses from which
two transactions can collide, so that three transactions reach what ten would from
nothing; four quotations allow a deletion and two insertions after it, and a counter of
five, one more than there can be quotations, is never what stops a claim. In
`DeploymentSeats` the initial deployments do the same (nobody yet with one or two
seats, an Owner alone, one invited, one disabled); one seat is the limit at which
two admissions compete, and the drop from two to one makes an overage.

In `DeploymentAgent` two versions give an older and a newer one in every place, and
three faults let a late put or heartbeat meet a failed retry and a restart (two in
`agent_recovery`, a restore and one call that fails or arrives after it).

The theorems of section 5 carry the safety properties of every run to instances of
any size; what the small ones alone show is liveness.

## 4. Fairness

`EntitlementIssuance`: weak fairness of each step of an accepted request (a Worker
keeps running it, eviction is a fault), weak fairness of time (checks come due,
claims lapse), strong fairness of starting a scheduled run: the cron trigger starts
its own isolate however many requests are in flight, and `Requests` only bounds
how many the model holds. Operators owe nothing. Faults (evictions, failed
statements, disablements and claims overrun by a run that still executes) are
bounded: with overruns without end, two runs would take the claim from each other
for ever, and the code does not exclude this.

`FunnelStage`: weak fairness of each session's step and of PostgreSQL resolving
a deadlock. Replays are bounded in the code (two), the load by `MaxStarts`.

`DeploymentAgent`: weak fairness of each loop's steps (timers fire, an attempt goes
on, calls end because each has a timeout) and of the end of the cooling period.
The loop at the head of `applyTail` is the only one that can take its turn, and the
queue is in order of arrival, so weak fairness suffices for the lock. Faults are
bounded: with a CRM that never answers nothing converges. Late calls need not ever
be delivered.

`DeploymentRegistration`: weak fairness of each process, which runs on while it
lives and is started again when it ends (`compose.yaml:163`, `restart:
unless-stopped`). Operators owe nothing: `AllConverge` speaks of behaviours in which
a usable token stays configured, or one process got through.

`CommandQueue`, `OpportunityRecords`, `QuotationLifecycle` and `DeploymentSeats`:
safety only, no fairness is assumed.

## 5. What is proved

Every theorem is about the specification a run checks, for all values of its
constants that satisfy the named assumptions of its module. Those assumptions say
what the constants are (a pipeline maps stages to stage records, bounds are numbers,
some funnel and some member exist) and, where a model starts from given rows, that
these are rows the operations leave. `NoRestores`, below, is the only assumption that
rules out behaviour. The order of work was always the same: TLC checked the
inductive invariant as an invariant of the run, then each action was shown to keep it.

The transactional modules (`FunnelStage`, `OpportunityRecords`,
`QuotationLifecycle`) share one argument. A session's conjunct says what it has
locked and what it has read of those rows; a step is either *local* to one session
(nothing is committed) or ends a transaction. What is committed are rows the ending
transaction has locked, so whatever another session knows about rows *it* has locked
stays true (`Undisturbed`). What it read without a lock has to be checked again or must
not matter; the conjuncts that survive a commit for some other reason are named below.

`EntitlementIssuanceProofs`, for any sets of requests, contracts and settings and
any bounds, from `ConstantsAssumption` alone:

* `IssuanceSafe`: `IssuanceInv` is an invariant.
* `TypeCorrect`: its part `TypeOK`, which no run checks again.
* `LatestNewest`: `LatestIsNewest`, that is `VersionOrder` and `LatestIsHighest`.
* `KeyAnsweredOnce`: `IssuesOnce`. A claim that was answered stays as it is and a
  version is stored only under a new key, so it needs only `KeysUnique` beside it.
* `SignsWhatStands`: `SigningInv` is an invariant; `AutoReviewed`:
  `AutoFollowsReview` is one of its parts.
* `IssuanceImplementsAtomic`: `IssuesAtomically`, every behaviour is one of
  `AtomicIssuance`: each step maps to one of its steps or to a stutter.
* `SavedPolicyKept`: `SavedPolicyPursued`; `NoPolicyOverwritten`: `NoStaleOverwrite`.

The argument. `VersionOrder` alone is not inductive: a request may hold a number
taken long ago and commit it now. `NothingAhead` says that nothing a request read
and nothing stored is ahead of the tables; with the trigger's comparison at
`Commit` the new version carries exactly the present revisions, so it is at least
as new as everything stored below it. For stored versions with *higher* numbers,
`NumberedInOrder` says that a request with an uncommitted number below a stored
one read state no newer than that version's: it was established when that
version committed, since it then carried present revisions. `LatestIsHighest`
follows from the maximum in the commit's update of the schedule row.

For the refinement the commit has to be one step of `AtomicIssuance`, which signs the
present state, although modules and terms were read in statements of their own.
`ContentStands` is what makes it so: content read under revisions that *still* stand
is the content that stands, since every change of a contract, of the assignment or of
the policy counts its revision up. The trigger then compares revisions at the commit,
and equal revisions mean equal content. `Entitled` says why an automatic request may sign
at all: a saved policy, or an operator's version with a lower number for just
the revisions it expects; `NumberOwn`, that the number it was handed is nobody
else's, keeps "lower" true.

`SavedPolicyPursued` is proved from `PursuitInv`. The update of the schedule compares
its revision and nothing of the policy; `SnapStands` says why that is enough: every save
counts the schedule's revision up, so a state read at the present revision was read under
the present policy. `Pursues` follows a renewal: the key it claims names the policy it
has read, also after it has loaded the state again (its expectation sees to that), and
its claim is never deleted, only taken over, so when the run gives up and postpones,
the claim is on record; when it postpones without one, it has seen the policy in
the highest version. A commit carries the present policy for the same reason, and a
version above it does too (`NumberedInOrder`, `NothingAhead`). A run that postpones
because the deployment is unavailable has read the state before the adoption, after
which the status cannot change any more.

`DeploymentAgentProofs`, for any number of versions and faults, under the
assumption that neither database is restored from a backup (`NoRestores`):

* `AgentSafe`: `AgentInv` is an invariant; `AgentTyped` and `NoAlarmIsFalse` are
  its readable parts.
* `RecordAcknowledged`: `RecordedIsAcknowledged`.
* `AgentDelivers`: every behaviour of the agent with both databases is one of
  `EntitlementDelivery`, with the newest issued, the applied and the last
  acknowledged number as its registers.

The argument. `HolderIsFirst`: a loop between two calls is the first of the queue,
so at most one is. `ReportsInOrder`: given-up heartbeats are in order, and none is
newer than the status the holder of the lock has read, because they were sent under
an earlier turn; so whatever is stored next is not older than what was stored.
`TargetIsNewest`: a late put never carries more than the target the holder is about
to put, so it cannot come between the put and the second status call; with
`ContentIsIssued` the put is accepted even when the late twin arrived first.
`NothingAhead` makes the regression checks of the agent fail to fire. For the proof
the invariant is regrouped by its subject (`Sound`: lock, data, each loop), so that
one lemma (`LoopStep`) says what a loop's step owes the other loop.

`RecordInv` adds what `RecordedIsAcknowledged` rests on: when the file names the CRM's
revision and no error and nobody is about to write one (`Settled`), then that revision
was reported, or the poll is at work on the acknowledgement the file says is pending
(`Owed`). `ReadsNewest` keeps it so: what a loop is about to report is not older
than what the file names, nor than what a failed loop, which writes without
the lock, is about to put there.

The assumption is needed: a restored CRM returns to an older version, and a
restored control plane makes the alarms true.

`DeploymentRegistrationProofs`, for any processes, tokens and bounds:
`RegistrationSafe` (`RegistrationInv`), `RegistrationTyped`, `OneKeyTrusted`
(`RegistrationAgrees`), `OneTokenLives` (`OneLiveToken`). The argument:
`ProcessesOK` and `StraysOK` say that once an identity is on disk every running
process, every registration it waits for and every one that outlived its process
carries that key, so whichever of them the batch accepts, it is the right one.
`NothingUsed` says that as long as no key is registered no token is used; with it the
guards of the two batches keep a second token or a second key out.

`CommandQueueProofs`, for any numbers of commands, calls and failures: `QueueSafe`
(`QueueInv`), `QueueTypedAlways`, `AuditAgrees`, `FirstInFirstOut`,
`NothingForgotten`. The argument: `CallsOK` says what a call knows of the command it
has selected and that this stays true for as long as it takes: a command past
`pending` never returns to it, every older one that was there was past it when the
command was selected (rows that come in later are behind `among`), and a call that
writes the audit row finds the outcome it settled. Each
step changes the queue or one call (`Resting`, `CallStep`, `QueueStep`), so each
conjunct is shown once for either kind.

`DeploymentSeatsProofs`, for any people, organizations, requests, envelopes and
initial deployments in which invitations and reservations belong together:
`SeatsSafe` (`SeatsInv`), `SeatsTyped`, `InvitesKept`, `LimitKept`, `ClaimAlone`,
`NoOtherDeadlock`. The argument: `RequestOK` says of a request that has decided that
its decision is still right (the seats it counted are within the limit, the
invitation it chose is there, the organization it claims is empty), that its lock is
held, and that it holds its locks in the order of its kind. Steps of others are
*quiet* or *loud*. A quiet step changes no limit and gives no seat: it leaves counts
as they are or lowers them (`QuietStep`, `QuietBounded`). A loud one, the
application of an envelope or a commit that writes seats, has the seat row locked, so
nobody else has decided anything (`LoudStep`). The limit is safe against the first
kind only because the trigger makes every writer of the control row wait for the seats.

`FunnelStageProofs`, for any pipeline, reporting line, funnels, sessions and starts:
`TypeCorrect` (`TypeOK`), `HistoryIsOneChain` (`HistoryChains`),
`RequestsStandForOneMove` (`RequestsExact`), `CodeSpentOnce` (`CodeAllocatedOnce`),
`EndsStand` (`EndsAreFinal`), `DecisionsAllowed` (`DecidedAsAllowed`) and
`MovesAreInformed` (`RequirementsHoldAtMove`). The argument: `FunnelInv`. Who holds a
funnel's lock knows its stage (`FunnelHeld`), so a history grows only at its end. Two
facts do not rest on the row they speak of. `Gated` says that the information a direct
move found is still there, though it read the container without a lock: it has one
child funnel locked and a container edit locks them all (`Edits`). `Routed` says that
no equal request is pending when one is inserted, though no index stops it:
requests are made under the funnel's lock only. `Claimed` keeps what a decision knows
of the approver: authority changes at any time, so the invariant can only say that the
approver of the day is among those who were one since the request was locked, and
`DecidedAsAllowed` claims no more. `Outcomes` sums up what any step can do to the
rows: move one funnel, or close requests, or neither; `CodeAllocatedOnce` and the
action properties are shown from it.

`OpportunityRecordsProofs`, for any sessions, starts and inputs and any finite sets of
Opportunities and Funnels: `TypeCorrect` (`TypeOK`), `ChildrenStayInSync`
(`FirstChildrenInSync`), `NumbersAndTotals` (`ContainersAddUp`), `DeadlocksArePlain`
(`OnlyPlainEditsDeadlock`), `PatchesLand` (`EditsLand`). The argument: `RecordsInv`. A
PPVVC edit has the Opportunity's row locked before it fixes its children (`Holds`),
and no insertion under it can commit until it ends (its foreign key waits for that
lock), so the children it patches are all the children there are (`Written`), and
every draft of a row is the patch over the row as it stands (`DraftsParent`,
`DraftsFunnels`). Numbers come from a maximum read without a lock; `Numbered` says
that after the unique index has let the insertion through, nobody else has or will get
that number, and `NumbersRunOn` is then counting. Totals are sums over children; that
they have the type of totals is an induction over how many children are summed.
`SumStands` holds for an only child alone, which is why `ContainersAddUp` claims no
more (section 6). Deadlocks: who has the Opportunity's row to itself waits for plain
edits only (`OwnersWait`). So in a cycle without one nobody has it, nobody waits for a
child or to write the parent (`WaitsForChild`, `WaitsForOwner`), and what is left to
wait for is a lock of an insertion, which then waits for nobody (`OpeningsRun`). The
theorem holds for sets of any size, infinite ones included.

`QuotationLifecycleProofs`, for any sessions, owners, amounts, numbers of quotations
and transactions, and any initial funnel in which the first quotation is primary and
numbers differ (`InitialAssumption`): `TypeCorrect` (`TypeOK`), `NumbersNeverReused`
(`NumbersFresh`), `PendingFollowsOwner` (`PendingUnderOwner`), `AmountFollowsPrimary`
(`AmountFollows`), `TransitionsLegal` (`LegalTransitions`). The argument:
`QuotationInv`. `Holds` says what each operation found of the quotation it has locked;
`Promotes` and `Syncs` follow the flag, the pointer and the amount through a
transaction, since the three are written at different points; `Owners` says that a
submission and a change of owner exclude each other by the account's locks, and that
the change has locked every quotation that is pending when it commits. `Claims` says
that who has claimed a series holds the settings row and has the counter as it stands,
and `CounterAhead` that the counter, unless it was set back, is above every series
there is, so a claimed series is nobody's; a version goes on from the series' last under
the funnel's lock, whatever was deleted. `AmountStands`
is the strengthening of `AmountFollows`: the pointer's quotation carries the flag and
gives the amount, *or* a live accepted quotation has taken the flag. The second case
is needed because an acceptance moves the flag and not the pointer, and it is stable
because an accepted quotation is not edited or withdrawn, and whoever makes another
one primary moves flag, pointer and amount together. Only one thing breaks it, the deletion of an accepted quotation, which `deleteQuotation` means to
refuse and does not (section 6). The property said nothing of it at first and holds in
every state of the `quotations` run; the proof failed at the commit of a deletion, and
the behaviour it pointed to needs six transactions, more than that run has.
`AmountFollows` therefore speaks of funnels in which no accepted quotation was
deleted.

Induction. The library's induction theorems take the statement as an operator, which
the provers cannot instantiate. Where one is needed (the sum of an Opportunity's
amounts exists and is bounded, the nearest approver and the highest number are there)
the proof takes a least counterexample or a least element, which is a fact about one
set of numbers (`LeastNumber`, `NatMinimum`).

Only model-checked: liveness (`PolicyIssued`, `AllEnd`, `Converges`, `AllConverge`,
the half of `NeverBackSilently` that says a regression is reported), since neither
fairness nor `ENABLED` is in the prover's reach. The other half, that the CRM keeps
what it has, is `OnlyRestoresReturn`, proved without `NoRestores`.

## 6. Findings

One run refutes what the code says of itself:

* `owner_stripped` (a bug): `updateMember` protects the last Owner
  (`team/actions.ts:730`) with `isLastOwner`, which counts only members whose
  primary `role_id` is Owner, while ownership elsewhere also comes from
  `member_roles`. An edit that keeps Owner but puts another role first passes; the
  next edit, that drops Owner, passes too, since the member no longer counts as an
  Owner at all. The organization is left without one.

The other disagreements were met while modelling or in counterexamples of
properties that were then stated as what does hold.

* A request is said to represent one exact transition (`stage.ts:651`), but
  `createApprovalRequest` looks for an existing one by funnel and target only: an
  advance may be answered with a request filed from another stage, which every later
  approval closes as obsolete.
* PPVVC is said to be synchronized to live child Funnels. `createOpportunity` reads
  the parent without a lock, so an edit that commits before the insertion misses the
  new Funnel; `FirstChildrenInSync` and `EditsLand` are what holds.
* `recomputeOpportunityTotal` sums before it locks the Opportunity: two transactions
  on different Funnels each miss the other's amount. `ContainersAddUp` claims totals
  only for an Opportunity with one child.
* `docs/operations/service-controls-rollout.md` says that a successful apply sends a
  fresh acknowledgement. When the answer of the `PUT` is lost, the retry finds the
  CRM up to date and ends without one; the next regular heartbeat brings it.
  `RecordedIsAcknowledged` is what holds.
* The console says the agent will pick a command up on its next poll
  (`operator.tsx:76`), but `start()` (`runner.ts:433`) schedules no command poll; and
  that a cancelled command is not executed (`operator.tsx:77`), but one in flight is.
* `acceptQuotation` raises the primary flag and announces that the quotation becomes
  the primary one (`actions.ts:1626`), but leaves the funnel's pointer and amount as
  they are; the form then hides "Set primary" (`quotation-form.tsx:218`).
  `AmountFollows` therefore speaks of a quotation that is primary by both.
* `deleteQuotation` checks for an acceptance before it waits for the row: an
  acceptance that commits meanwhile is deleted, against `actions.ts:1870`. The
  funnel can then keep an amount that its primary quotation does not have: an
  acceptance of another quotation took the flag, an edit of the pointer's quotation,
  no longer flagged, left the amount alone, and the deletion frees a second
  acceptance to move the flag back (`value.ts:33`). `AmountFollows` excludes it.
* The comment on `updateNumbering` says that counters are always the highest issued
  number plus one (`settings/actions.ts:903`). It compares what was entered with a
  counter read without a lock and then overwrites: claims that commit in between are
  undone, and the next duplicate or first quotation meets the unique index.
  `NumbersFresh` excludes claims after such an edit.
* The value of an approved quotation is not what was approved, if the tax rate or the
  tenant's tax mode has changed since: `sendQuotation` stores totals computed anew
  (`quotations/actions.ts:1487`). `LegalTransitions` names the sending as the one step past draft that
  may change a value.
* Commands are claimed oldest first (`commands.ts:285`), by a `created_at` taken before
  the row is there (`commands.ts:207`): a younger command can be claimed before an older
  one comes in. `ClaimedInOrder` speaks of the rows that were there.
* `setMemberStatus` is said to be reversible (`team/actions.ts:819`); reactivation
  gives the primary role back and drops the others.
* `archiveOrganization` does not conflict with the share lock of an admission, so
  one can commit into an organization archived meanwhile. The functions
  `archive_organization` and `restore_organization` of migration 0070 have no caller.
* The seat functions lock the seats and then the control row; application and
  checkpoint lock the control row and then, by trigger, the seats. When a checkpoint is
  due the two deadlock and `deployment-seats.ts` retries nothing;
  `DeadlockNeedsCheckpoint` says that this is the only case.
* Two concurrent role edits, or one and a removal, can each leave the other's Owner
  as the last and together leave none: `updateMember` takes no lock on the members.

## 7. What is not modelled

* In `EntitlementIssuance`: rotation of signing keys, input formats, audit rows,
  the seat usage that justifies a reduction.
* In `FunnelStage`: edits of the pipeline's settings, closing dates, remarks and
  required reasons, the Won automations on amounts, accounts and milestones, the
  first history row, inactive requesters, the scope check before the transaction. The
  reporting line is a constant, although `updateMember` sets a member's manager
  (`team/actions.ts:768-799`); which of two lines a request is decided under is not
  watched.
  The pending requests of a funnel are locked in one step.
* In `OpportunityRecords`: intercompany parties, account ownership and the shared lock
  of the account, custom fields, dates and texts, stage history, the amount that
  quotations set (`value.ts`) and a Won move's copy of it into the estimate. The
  project code is in `FunnelStage`.
* In `DeploymentAgent`: `stop`, signatures and clocks; a given-up heartbeat that reaches
  the Worker after a younger one (`lateReports` assumes the order of sending).
* In `DeploymentRegistration`: signatures and formats, audit rows, rotation of keys,
  rate limits.
* In `CommandQueue`: signatures and nonces, the contents of commands and artifacts.
* In `QuotationLifecycle`: lines, taxes and snapshots, validity dates, permissions and
  who approves, a duplicate into another funnel. The funnel stays with its account:
  `updateOpportunity` can move it to another one (`funnel/actions.ts:708-728`) without
  resetting what is pending, so an approval then waits under the former account's owner;
  `PendingUnderOwner` does not cover it.
* In `DeploymentSeats`: vendor-support accounts, the access modes between active and
  read-only, names, tiers and reporting lines, the deletion of users and organizations.
* Lead conversion, payment milestones and sales orders, billing and proration,
  the intercompany mirror, the lease arithmetic: not reached, see section 8.
* Read-only pages, rendering, formats, cryptography and shell scripts: no state
  whose order of changes matters.

## 8. Plan

In this order, each with its own MC module, runs and mutants:

1. `EntitlementIssuance` with proofs, `FunnelStage`: done.
2. `OpportunityRecords`: copies of PPVVC and totals under concurrent edits: done.
3. `DeploymentAgent` composed with the CRM's apply step, proved to implement
   `EntitlementDelivery`: done.
4. `DeploymentRegistration`, `CommandQueue` with proofs: done.
5. `QuotationLifecycle` with the owner cascade: done.
6. `DeploymentSeats` with proofs: done.
7. `LeadConversion`: a request approved against the lead as it was when filed.
8. `PaymentMilestones`: derivation and repeated invoicing, cents that do not divide.
9. `LeaseEvaluation`: the TypeScript and the SQL evaluation against one definition;
   proration of subscriptions.

Theorems: the safety properties of every run are proved (section 5). Next in line
are abstract specifications for the transactional modules, an atomic stage move or
quotation operation that `FunnelStage` and `QuotationLifecycle` implement as
`EntitlementIssuance` does `AtomicIssuance`, and an invariant of the agent that
survives a restored control plane.
