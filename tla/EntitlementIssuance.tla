------------------------ MODULE EntitlementIssuance ------------------------
(***************************************************************************)
(* Issuance of signed entitlement versions by the control plane, for one   *)
(* deployment (src/apps/control-plane/src/repos/entitlements.ts and        *)
(* service-controls.ts, the triggers of migrations 0005, 0006 and 0012).   *)
(*                                                                         *)
(* A request runs in a Worker isolate and reaches D1 one statement (or one *)
(* atomic batch) at a time, so every statement of issueEntitlement is a    *)
(* step of its own and requests interleave between them.  What protects    *)
(* the result is the insert's triggers, which re-check what was read.      *)
(*                                                                         *)
(* Time is abstract: what matters of an instant is whether it has passed   *)
(* (schedule.due, claim.lapsed, nearExpiry).                               *)
(***************************************************************************)
EXTENDS Integers, FiniteSets

CONSTANTS
  Requests,       \* requests and scheduled runs that may be in flight at once
  Contracts,
  Settings,       \* values of commercial terms, of module lists, of a policy
  ManualKeys,     \* idempotency keys an operator's form may carry
  NoContract,     \* the deployment has no schedule row yet
  MaxRevision,    \* bound: revisions of a contract
  MaxSchedule,    \* bound: an assignment starts below this revision
  MaxPolicy,      \* bound: saves of the service policy
  MaxVersion,     \* bound: version numbers allocated (the safe integers)
  MaxAging,       \* bound: leases age while fewer numbers than this are used
  MaxFaults       \* bound: evictions, failed statements, overruns, disablements

ASSUME ConstantsAssumption ==
  /\ NoContract \notin Contracts
  /\ Settings # {}
  /\ MaxRevision \in Nat /\ MaxSchedule \in Nat /\ MaxPolicy \in Nat
  /\ MaxVersion \in Nat /\ MaxAging \in Nat /\ MaxFaults \in Nat

VARIABLES
  contract,    \* contracts + contract_modules: revision, terms, modules
  schedule,    \* deployment_entitlement_schedules row
  available,   \* client and deployment active, registered, an active key
  policy,      \* service_controls row, rev = 0 before adoption
  sequence,    \* deployment_entitlement_sequences.next_version
  versions,    \* entitlement_versions rows
  claims,      \* entitlement_renewal_claims rows
  nearExpiry,  \* the latest lease is within RENEWAL_HORIZON_MS of its end
  pc, req,     \* control point and locals of each request
  answers,     \* what each issuance key was answered (history)
  faults       \* faults so far

tables  == <<contract, schedule, available, policy>>
issued  == <<sequence, versions, nearExpiry>>
vars    == <<tables, issued, claims, pc, req, answers, faults>>

-----------------------------------------------------------------------------
Content == [policy: Nat, terms: Settings, modules: Settings]

ManualKey  == [type: {"manual"},  id: ManualKeys]
ServiceKey == [type: {"service"}, rev: Nat]
AutoKey    == [type: {"auto"}, base: Nat, content: Content]
NoKey      == [type |-> "none"]
Key        == ManualKey \cup ServiceKey \cup AutoKey

\* What loadState reads in its one SELECT.
Snapshot ==
  [contract: Contracts \cup {NoContract}, crev: Nat, srev: Nat, latest: Nat,
   policy: Nat, terms: Settings, modules: Settings, available: BOOLEAN]

AnySetting == CHOOSE s \in Settings : TRUE
NoSnapshot ==
  [contract |-> NoContract, crev |-> 0, srev |-> 0, latest |-> 0, policy |-> 0,
   terms |-> AnySetting, modules |-> AnySetting, available |-> FALSE]

\* An expectation of revisions; <<>> when the caller gave none.
NoExpectation == <<>>
Expectation == {NoExpectation} \cup (Nat \X Nat)

Version ==
  [version: Nat \ {0}, key: Key, contract: Contracts, crev: Nat, srev: Nat,
   content: Content]

Claim ==
  [key: AutoKey, owner: Requests, state: {"claimed", "issued", "failed"},
   lapsed: BOOLEAN, version: Nat]

Request ==
  [kind: {"none", "manual", "service", "renewal", "assign"},
   key: Key \cup {NoKey}, target: Contracts \cup {NoContract},
   expected: Expectation, snap: Snapshot, version: Nat]

Idle ==
  [kind |-> "none", key |-> NoKey, target |-> NoContract,
   expected |-> NoExpectation, snap |-> NoSnapshot, version |-> 0]

ControlPoint ==
  {"idle", "assign", "save", "lookup", "load", "allocate", "modules", "commit",
   "raced", "denied", "renew", "claim", "postpone"}

TypeOK ==
  /\ contract \in [Contracts -> [rev: Nat, terms: Settings, modules: Settings]]
  /\ schedule \in [contract: Contracts \cup {NoContract}, srev: Nat,
                   due: BOOLEAN, latest: Nat]
  /\ available \in BOOLEAN
  /\ policy \in [rev: Nat, terms: Settings, modules: Settings]
  /\ sequence \in Nat \ {0}
  /\ versions \subseteq Version
  /\ claims \subseteq Claim
  /\ nearExpiry \in BOOLEAN
  /\ pc \in [Requests -> ControlPoint]
  /\ req \in [Requests -> Request]
  /\ answers \subseteq (Key \X Nat)
  /\ faults \in Nat

Init ==
  /\ contract = [c \in Contracts |->
                   [rev |-> 1, terms |-> AnySetting, modules |-> AnySetting]]
  /\ schedule = [contract |-> NoContract, srev |-> 0, due |-> FALSE, latest |-> 0]
  /\ available = TRUE
  /\ policy = [rev |-> 0, terms |-> AnySetting, modules |-> AnySetting]
  /\ sequence = 1
  /\ versions = {}
  /\ claims = {}
  /\ nearExpiry = FALSE
  /\ pc = [r \in Requests |-> "idle"]
  /\ req = [r \in Requests |-> Idle]
  /\ answers = {}
  /\ faults = 0

-----------------------------------------------------------------------------
Adopted == policy.rev # 0
Assigned == schedule.contract # NoContract

\* getCurrentEntitlementReference: the row with the highest version number.
IsCurrent(e) == e \in versions /\ \A f \in versions : f.version <= e.version

\* The columns one SELECT of loadState returns.
ReadState ==
  IF Assigned
  THEN [contract |-> schedule.contract, crev |-> contract[schedule.contract].rev,
        srev |-> schedule.srev, latest |-> schedule.latest, policy |-> policy.rev,
        terms |-> IF Adopted THEN policy.terms
                  ELSE contract[schedule.contract].terms,
        modules |-> IF Adopted THEN policy.modules ELSE AnySetting,
        available |-> available]
  ELSE NoSnapshot

\* desiredLease: service policy once adopted, else the contract; the modules of
\* a contract come from a later SELECT on contract_modules.
Desired(snap) ==
  [policy |-> snap.policy, terms |-> snap.terms, modules |-> snap.modules]

WithModules(snap) ==
  IF snap.policy # 0 THEN snap
  ELSE [snap EXCEPT !.modules = contract[snap.contract].modules]

Goto(r, label) == pc' = [pc EXCEPT ![r] = label]

Finish(r) ==
  /\ Goto(r, "idle")
  /\ req' = [req EXCEPT ![r] = Idle]

Answer(r, v) ==
  /\ answers' = answers \cup {<<req[r].key, v>>}
  /\ Finish(r)

Running(r, label) == pc[r] = label

-----------------------------------------------------------------------------
(* Operator changes that do not issue a version.                           *)

\* service_contract_controls_retired: the contract of an adopted deployment.
Retired(c) == Adopted /\ schedule.contract = c

\* updateEntitlementControls: the operation row's trigger repeats the revision
\* read, so the read and the batch act as one step.
UpdateControls(c, t) ==
  /\ ~Retired(c)
  /\ contract[c].rev < MaxRevision
  /\ contract' = [contract EXCEPT ![c].rev = @ + 1, ![c].terms = t]
  /\ schedule' = IF schedule.contract = c
                 THEN [schedule EXCEPT !.srev = @ + 1, !.due = TRUE]
                 ELSE schedule
  /\ UNCHANGED <<available, policy, issued, claims, pc, req, answers, faults>>

\* updateContract: replaces terms and modules; the schedule row is not touched.
UpdateContract(c, t, m) ==
  /\ ~Retired(c)
  /\ contract[c].rev < MaxRevision
  /\ contract' = [contract EXCEPT ![c] = [rev |-> @.rev + 1, terms |-> t, modules |-> m]]
  /\ UNCHANGED <<schedule, available, policy, issued, claims, pc, req,
                 answers, faults>>

\* setDeploymentStatus; service_deployment_status_retired once adopted.
SetDeploymentStatus ==
  /\ ~Adopted
  /\ available => faults < MaxFaults
  /\ available' = ~available
  /\ faults' = IF available THEN faults + 1 ELSE faults
  /\ UNCHANGED <<contract, schedule, policy, issued, claims, pc, req, answers>>

\* assignEntitlementSchedule: its checks are one SELECT ...
AssignRead(r, c) ==
  /\ Running(r, "idle")
  /\ ~Adopted /\ available
  /\ schedule.srev < MaxSchedule
  /\ Goto(r, "assign")
  /\ req' = [req EXCEPT ![r] = [Idle EXCEPT !.kind = "assign", !.target = c]]
  /\ UNCHANGED <<tables, issued, claims, answers, faults>>

\* ... and its upsert a later batch, which repeats none of them but the
\* adoption (service_schedule_controls_retired).
AssignCommit(r) ==
  /\ Running(r, "assign")
  /\ schedule' = IF Adopted THEN schedule
                 ELSE [schedule EXCEPT !.contract = req[r].target,
                                       !.srev = @ + 1, !.due = TRUE]
  /\ Finish(r)
  /\ UNCHANGED <<contract, available, policy, issued, claims, answers, faults>>

-----------------------------------------------------------------------------
(* saveServiceControls, up to its call of issueEntitlement.                *)

\* A first save also needs a recent heartbeat that reports the current version;
\* whether there is one is left open.
SaveRead(r, t, m) ==
  /\ Running(r, "idle")
  /\ available /\ Assigned
  /\ \E e \in versions :
       /\ IsCurrent(e)
       /\ LET same == Adopted /\ policy.terms = t /\ policy.modules = m IN
          /\ same \/ policy.rev < MaxPolicy
          /\ Goto(r, IF same THEN "lookup" ELSE "save")
          /\ req' = [req EXCEPT ![r] =
               [Idle EXCEPT !.kind = "service",
                            !.key  = IF same THEN [type |-> "service", rev |-> policy.rev]
                                     ELSE NoKey,
                            !.snap = [ReadState EXCEPT !.latest = e.version,
                                                       !.policy = policy.rev,
                                                       !.terms = t, !.modules = m]]]
  /\ UNCHANGED <<tables, issued, claims, answers, faults>>

\* Mutant: no operation row, so nothing re-checks the revision read.
SaveUnchecked(r) == TRUE

\* service_control_operation_guard.
SaveAllowed(r) ==
  LET s == req[r].snap IN
  /\ policy.rev = s.policy
  /\ s.policy = 0 =>
       /\ available
       /\ \E e \in versions :
            IsCurrent(e) /\ e.version = s.latest /\ e.contract = schedule.contract

SaveCommit(r) ==
  /\ Running(r, "save")
  /\ SaveAllowed(r)
  /\ policy' = [rev |-> policy.rev + 1, terms |-> req[r].snap.terms,
                modules |-> req[r].snap.modules]
  /\ schedule' = [schedule EXCEPT !.srev = @ + 1, !.due = TRUE]
  /\ Goto(r, "lookup")
  /\ req' = [req EXCEPT ![r].key = [type |-> "service", rev |-> policy.rev + 1],
                        ![r].snap = NoSnapshot]
  /\ UNCHANGED <<contract, available, issued, claims, answers, faults>>

\* Refused too when another heartbeat came in since a first save's read.
SaveRefused(r) ==
  /\ Running(r, "save")
  /\ ~SaveAllowed(r) \/ req[r].snap.policy = 0
  /\ Finish(r)
  /\ UNCHANGED <<tables, issued, claims, answers, faults>>

-----------------------------------------------------------------------------
(* issueEntitlement, one action per statement.                             *)

\* An operator posts the issue form with an idempotency key; the HTML form also
\* carries the contract and the revisions the review page displayed.
StartManual(r, k, reviewed) ==
  /\ Running(r, "idle")
  /\ ~Adopted
  /\ reviewed => Assigned
  /\ Goto(r, "lookup")
  /\ req' = [req EXCEPT ![r] =
       [Idle EXCEPT
          !.kind = "manual", !.key = [type |-> "manual", id |-> k],
          !.target = IF reviewed THEN schedule.contract ELSE NoContract,
          !.expected = IF reviewed THEN <<ReadState.crev, ReadState.srev>>
                       ELSE NoExpectation]]
  /\ UNCHANGED <<tables, issued, claims, answers, faults>>

LookupHit(r) ==
  /\ Running(r, "lookup")
  /\ \E e \in versions : e.key = req[r].key /\ Answer(r, e.version)
  /\ UNCHANGED <<tables, issued, claims, faults>>

LookupMiss(r) ==
  /\ Running(r, "lookup")
  /\ ~\E e \in versions : e.key = req[r].key
  /\ Goto(r, "load")
  /\ UNCHANGED <<tables, issued, claims, req, answers, faults>>

Found(r) == Assigned /\ req[r].target \in {NoContract, schedule.contract}

AsExpected(r) ==
  req[r].expected \in {NoExpectation, <<ReadState.crev, ReadState.srev>>}

Load(r) ==
  /\ Running(r, "load")
  /\ Found(r) /\ available /\ AsExpected(r)
  /\ Goto(r, "allocate")
  /\ req' = [req EXCEPT ![r].snap = ReadState]
  /\ UNCHANGED <<tables, issued, claims, answers, faults>>

\* A scheduled run marks its claim failed if it still holds it.
HeldClaims(r) ==
  {c \in claims : c.key = req[r].key /\ c.owner = r /\ c.state = "claimed"}

FailClaim(r, retryNow) ==
  claims' = (claims \ HeldClaims(r)) \cup
            {[c EXCEPT !.state = "failed", !.lapsed = retryNow] : c \in HeldClaims(r)}

\* The error leaves issueEntitlement: an operator sees it; the catch of
\* runEntitlementRenewal retries a changed state at once, anything else after
\* a delay, and then postpones the schedule if the claim was still its own.
FailChanged(r) ==
  /\ FailClaim(r, TRUE)
  /\ Finish(r)

FailDelayed(r) ==
  /\ FailClaim(r, FALSE)
  /\ IF req[r].kind = "renewal" /\ HeldClaims(r) # {}
     THEN Goto(r, "postpone") /\ UNCHANGED req
     ELSE Finish(r)

LoadRefused(r) ==
  /\ Running(r, "load")
  /\ \/ /\ ~Found(r)
        /\ FailDelayed(r)
     \/ /\ Found(r) /\ ~available       \* DeploymentUnavailableError
        /\ IF req[r].kind = "renewal"
           THEN /\ Goto(r, "postpone")
                /\ req' = [req EXCEPT ![r].snap = ReadState]
           ELSE Finish(r)
        /\ UNCHANGED claims
     \/ /\ Found(r) /\ available /\ ~AsExpected(r)
        /\ FailChanged(r)
  /\ UNCHANGED <<tables, issued, answers, faults>>

\* RETURNING next_version - 1, of the row after its increment.
Allocated == sequence

\* allocateEntitlementRevision: one upsert, never rolled back.
Allocate(r) ==
  /\ Running(r, "allocate")
  /\ sequence <= MaxVersion
  /\ sequence' = sequence + 1
  /\ req' = [req EXCEPT ![r].version = Allocated]
  /\ Goto(r, IF req[r].snap.policy # 0 THEN "commit" ELSE "modules")
  /\ UNCHANGED <<tables, versions, nearExpiry, claims, answers, faults>>

\* No safe integer is left (MaxVersion stands for that limit).
AllocateRefused(r) ==
  /\ Running(r, "allocate")
  /\ sequence > MaxVersion
  /\ FailDelayed(r)
  /\ UNCHANGED <<tables, issued, answers, faults>>

\* validatedModules, for a lease that follows its contract.
ReadModules(r) ==
  /\ Running(r, "modules")
  /\ req' = [req EXCEPT ![r].snap = WithModules(@)]
  /\ Goto(r, "commit")
  /\ UNCHANGED <<tables, issued, claims, answers, faults>>

\* Mutant: the guard compares the contract and the claim, not the revisions.
StateUnchecked(r) ==
  /\ schedule.contract = req[r].snap.contract
  /\ req[r].key.type = "auto" => HeldClaims(r) # {}

\* entitlement_versions_state_guard and service_signed_policy_guard.
StateUnmoved(r) ==
  LET s == req[r].snap IN
  /\ schedule.contract = s.contract /\ schedule.srev = s.srev
  /\ contract[s.contract].rev = s.crev
  /\ Adopted => policy.rev = s.policy /\ policy.terms = s.terms
  /\ req[r].key.type = "auto" => HeldClaims(r) # {}

\* entitlement_versions_deployment_issuance_key_idx.
KeyIsNew(r) == \A e \in versions : e.key # req[r].key

\* Mutant: the last commit wins.
LatestOverwritten(v) == v

LatestAfter(v) == IF schedule.latest < v THEN v ELSE schedule.latest

NewVersion(r) ==
  LET s == req[r].snap IN
  [version |-> req[r].version, key |-> req[r].key, contract |-> s.contract,
   crev |-> s.crev, srev |-> s.srev, content |-> Desired(s)]

Commit(r) ==
  /\ Running(r, "commit")
  /\ StateUnmoved(r) /\ available /\ KeyIsNew(r)
  /\ versions' = versions \cup {NewVersion(r)}
  /\ claims' = (claims \ HeldClaims(r)) \cup
               {[c EXCEPT !.state = "issued", !.version = req[r].version] :
                  c \in HeldClaims(r)}
  /\ schedule' = [schedule EXCEPT !.latest = LatestAfter(req[r].version),
                                  !.due = FALSE]
  /\ nearExpiry' = (nearExpiry /\ schedule.latest > req[r].version)
  /\ Answer(r, req[r].version)
  /\ UNCHANGED <<contract, available, policy, sequence, faults>>

\* The batch aborts; which trigger speaks when several do is SQLite's choice.
CommitAborted(r) ==
  /\ Running(r, "commit")
  /\ \/ /\ ~StateUnmoved(r) \/ ~KeyIsNew(r)
        /\ Goto(r, "raced")
     \/ /\ ~available
        /\ Goto(r, "denied")
  /\ UNCHANGED <<tables, issued, claims, req, answers, faults>>

\* The raced re-read of the issuance key.
RacedHit(r) ==
  /\ pc[r] \in {"raced", "denied"}
  /\ \E e \in versions : e.key = req[r].key /\ Answer(r, e.version)
  /\ UNCHANGED <<tables, issued, claims, faults>>

RacedMiss(r) ==
  /\ pc[r] \in {"raced", "denied"}
  /\ ~\E e \in versions : e.key = req[r].key
  /\ IF Running(r, "raced") THEN FailChanged(r) ELSE FailDelayed(r)
  /\ UNCHANGED <<tables, issued, answers, faults>>

\* Signing or a statement of D1 fails.
Fault(r) ==
  /\ pc[r] \in {"allocate", "modules", "commit"}
  /\ faults < MaxFaults
  /\ faults' = faults + 1
  /\ FailDelayed(r)
  /\ UNCHANGED <<tables, issued, answers>>

\* The isolate is evicted or the connection is lost: nothing more is executed.
Evict(r) ==
  /\ ~Running(r, "idle")
  /\ faults < MaxFaults
  /\ faults' = faults + 1
  /\ Finish(r)
  /\ UNCHANGED <<tables, issued, claims, answers>>

-----------------------------------------------------------------------------
(* runEntitlementRenewal, the scheduled run, for this deployment.          *)

\* The scan for next_check_at <= now, and loadState.
RenewScan(r) ==
  /\ Running(r, "idle")
  /\ Assigned /\ schedule.due
  /\ Goto(r, IF available THEN "renew" ELSE "postpone")
  /\ req' = [req EXCEPT ![r] = [Idle EXCEPT !.kind = "renewal",
                                            !.target = schedule.contract,
                                            !.snap = ReadState]]
  /\ UNCHANGED <<tables, issued, claims, answers, faults>>

\* Mutant: renews whatever the contract now says.
DriftOfContractOnly(s) ==
  /\ s.policy = 0
  /\ ~\E e \in versions : IsCurrent(e) /\ e.contract = s.contract

\* Mutant: treats an adopted deployment like a contract-driven one.
DriftOfAnyLease(s) ==
  ~\E e \in versions : /\ IsCurrent(e)
                       /\ e.contract = s.contract
                       /\ e.crev = s.crev /\ e.srev = s.srev

\* A contract-driven lease is renewed automatically only while the contract and
\* the schedule are those an operator last issued for.
Drifted(s) ==
  /\ s.policy = 0
  /\ ~\E e \in versions : /\ IsCurrent(e)
                          /\ e.contract = s.contract
                          /\ e.crev = s.crev /\ e.srev = s.srev

Settled(s) ==
  /\ ~nearExpiry
  /\ \E e \in versions : IsCurrent(e) /\ e.content = Desired(s)

RenewalKey(s) ==
  [type |-> "auto", content |-> Desired(s),
   base |-> IF versions = {} THEN 0
            ELSE (CHOOSE e \in versions : IsCurrent(e)).version]

\* desiredLease and the SELECT of the latest version decide what to do.
RenewDecide(r) ==
  /\ Running(r, "renew")
  /\ LET s == WithModules(req[r].snap) IN
     IF Drifted(s) \/ Settled(s)
     THEN Goto(r, "postpone") /\ UNCHANGED req
     ELSE /\ Goto(r, "claim")
          /\ req' = [req EXCEPT ![r].key = RenewalKey(s),
                                ![r].expected = <<s.crev, s.srev>>]
  /\ UNCHANGED <<tables, issued, claims, answers, faults>>

\* Mutant: takes over any claim whose time has passed.
ClaimableWhenLapsed(r) ==
  \A c \in claims : c.key = req[r].key => c.lapsed

\* claimRenewal: insert, or take over a claim whose holder is late or failed.
Claimable(r) ==
  \A c \in claims : c.key = req[r].key => c.lapsed /\ c.state # "issued"

ClaimRenewal(r) ==
  /\ Running(r, "claim")
  /\ Claimable(r)
  /\ claims' = {c \in claims : c.key # req[r].key} \cup
               {[key |-> req[r].key, owner |-> r, state |-> "claimed",
                 lapsed |-> FALSE, version |-> 0]}
  /\ Goto(r, "lookup")
  /\ UNCHANGED <<tables, issued, req, answers, faults>>

ClaimBlocked(r) ==
  /\ Running(r, "claim")
  /\ ~Claimable(r)
  /\ IF \E c \in claims : c.key = req[r].key /\ c.state # "issued"
     THEN Goto(r, "postpone") /\ UNCHANGED req
     ELSE Finish(r)
  /\ UNCHANGED <<tables, issued, claims, answers, faults>>

\* Mutant: the update is keyed by the deployment and its contract alone.
SameContract(s) == schedule.contract = s.contract

Unmoved(s) ==
  /\ schedule.contract = s.contract /\ schedule.srev = s.srev
  /\ schedule.latest = s.latest
  /\ contract[s.contract].rev = s.crev
  /\ available = s.available

\* updateScheduleFromSnapshot: compare with the snapshot, then set.
Postpone(r) ==
  /\ Running(r, "postpone")
  /\ schedule' = IF Unmoved(req[r].snap) THEN [schedule EXCEPT !.due = FALSE]
                 ELSE schedule
  /\ Finish(r)
  /\ UNCHANGED <<contract, available, policy, issued, claims, answers, faults>>

-----------------------------------------------------------------------------
(* Time.                                                                   *)

CheckComesDue ==
  /\ Assigned /\ ~schedule.due
  /\ schedule' = [schedule EXCEPT !.due = TRUE]
  /\ UNCHANGED <<contract, available, policy, issued, claims, pc, req,
                 answers, faults>>

LeaseAges ==
  /\ versions # {} /\ ~nearExpiry
  /\ sequence < MaxAging
  /\ nearExpiry' = TRUE
  /\ UNCHANGED <<tables, sequence, versions, claims, pc, req, answers, faults>>

\* claim_expires_at of a claim, or retry_at of a failed one, passes.  A run that
\* is still going two minutes after its claim is a fault.
ClaimLapses(c) ==
  /\ c.state # "issued" /\ ~c.lapsed
  /\ LET overrun == c \in HeldClaims(c.owner) IN
     /\ overrun => faults < MaxFaults
     /\ faults' = IF overrun THEN faults + 1 ELSE faults
  /\ claims' = (claims \ {c}) \cup {[c EXCEPT !.lapsed = TRUE]}
  /\ UNCHANGED <<tables, issued, pc, req, answers>>

-----------------------------------------------------------------------------
Operator ==
  \/ \E c \in Contracts, t \in Settings : UpdateControls(c, t)
  \/ \E c \in Contracts, t, m \in Settings : UpdateContract(c, t, m)
  \/ SetDeploymentStatus

Issue(r) ==
  \/ LookupHit(r) \/ LookupMiss(r) \/ Load(r) \/ LoadRefused(r)
  \/ Allocate(r) \/ AllocateRefused(r) \/ ReadModules(r)
  \/ Commit(r) \/ CommitAborted(r) \/ RacedHit(r) \/ RacedMiss(r)

Renewal(r) ==
  RenewDecide(r) \/ ClaimRenewal(r) \/ ClaimBlocked(r) \/ Postpone(r)

\* A step of a request already accepted.
Continue(r) ==
  Issue(r) \/ Renewal(r) \/ AssignCommit(r) \/ SaveCommit(r) \/ SaveRefused(r)

Arrive(r) ==
  \/ \E c \in Contracts : AssignRead(r, c)
  \/ \E t, m \in Settings : SaveRead(r, t, m)
  \/ \E k \in ManualKeys, reviewed \in BOOLEAN : StartManual(r, k, reviewed)
  \/ RenewScan(r)

Time ==
  \/ CheckComesDue \/ LeaseAges
  \/ \E c \in claims : ClaimLapses(c)

Next ==
  \/ Operator
  \/ Time
  \/ \E r \in Requests : Arrive(r) \/ Continue(r) \/ Fault(r) \/ Evict(r)

Spec == Init /\ [][Next]_vars

-----------------------------------------------------------------------------
(* Fairness: an accepted request keeps running unless it is evicted, the   *)
(* clock advances, and the cron trigger starts runs of its own isolate     *)
(* however busy the others are (Requests only bounds how many are in       *)
(* flight, hence SF).  Operators and deployments owe nothing.              *)
Fairness ==
  /\ \A r \in Requests : WF_vars(Continue(r))
  /\ SF_vars(\E r \in Requests : RenewScan(r))
  /\ WF_vars(CheckComesDue)
  /\ WF_vars(\E c \in claims : ClaimLapses(c))

FairSpec == Spec /\ Fairness

-----------------------------------------------------------------------------
(* Properties.                                                             *)

\* Version numbers are allocated before the state is re-checked and their
\* inserts may commit in any order, yet a higher number never carries an older
\* schedule, contract or policy revision: the deployment, which only moves to
\* higher numbers, never moves back to older terms.
VersionOrder ==
  \A e, f \in versions :
    e.version < f.version =>
      /\ e.srev <= f.srev
      /\ e.contract = f.contract => e.crev <= f.crev
      /\ e.content.policy <= f.content.policy

\* Retries, races and re-reads of one issuance key are all answered with the
\* same stored version.
AnswersAgree ==
  \A a \in answers :
    /\ \E e \in versions : e.key = a[1] /\ e.version = a[2]
    /\ \A b \in answers : a[1] = b[1] => a[2] = b[2]

\* The scheduled run never signs contract terms an operator has not issued:
\* each automatic version of a contract repeats the revisions of an earlier
\* manual one.
AutoFollowsReview ==
  \A e \in versions :
    e.key.type = "auto" /\ e.content.policy = 0 =>
      \E f \in versions :
        /\ f.key.type = "manual" /\ f.version < e.version
        /\ f.contract = e.contract /\ f.crev = e.crev /\ f.srev = e.srev

\* A renewal claim is marked issued exactly when the version of its key exists,
\* whatever takeovers, failures and evictions came between.
IssuedClaimBacked ==
  /\ \A c \in claims : c.state = "issued" =>
       \E e \in versions : e.key = c.key /\ e.version = c.version
  /\ \A e \in versions : e.key.type = "auto" =>
       \E c \in claims : c.key = e.key /\ c.state = "issued" /\ c.version = e.version

\* The schedule's latest_version is the highest stored version, though commits
\* arrive out of order and assignments rewrite the row.
LatestIsHighest ==
  /\ \A e \in versions : e.version <= schedule.latest
  /\ \/ versions = {} /\ schedule.latest = 0
     \/ \E e \in versions : e.version = schedule.latest

\* One issuance key stands for one version, for whoever asked, retried or renewed.
IssuesOnce == AnswersAgree /\ IssuedClaimBacked

\* What is delivered as the latest version is the highest stored, and the newest.
LatestIsNewest == LatestIsHighest /\ VersionOrder

\* The inductive invariant behind TypeOK, LatestIsHighest and VersionOrder.
Keyed    == {"lookup", "load", "allocate", "modules", "commit", "raced", "denied"}
Loaded   == {"allocate", "modules", "commit", "raced", "denied", "renew"}
Numbered == {"modules", "commit"}

LocalsOK ==
  \A r \in Requests :
    /\ pc[r] \in Keyed => req[r].key \in Key
    /\ pc[r] = "claim" => req[r].key \in AutoKey
    /\ pc[r] = "assign" => req[r].target \in Contracts
    /\ pc[r] \in Loaded => req[r].snap.contract \in Contracts
    /\ pc[r] \in Numbered => req[r].version \in 1 .. sequence - 1

\* Nothing read or stored is ahead of the tables.
NotAhead(c, crev, srev, p) ==
  srev <= schedule.srev /\ crev <= contract[c].rev /\ p <= policy.rev

NothingAhead ==
  /\ \A r \in Requests : pc[r] \in Loaded =>
       NotAhead(req[r].snap.contract, req[r].snap.crev, req[r].snap.srev,
                req[r].snap.policy)
  /\ \A e \in versions : NotAhead(e.contract, e.crev, e.srev, e.content.policy)

\* Stored numbers were handed out, and one handed out but not stored fits below
\* the stored ones above it.
NumberedInOrder ==
  /\ \A e \in versions : e.version < sequence
  /\ \A r \in Requests, e \in versions :
       pc[r] \in Numbered /\ req[r].version < e.version =>
         /\ req[r].snap.srev <= e.srev
         /\ req[r].snap.contract = e.contract => req[r].snap.crev <= e.crev
         /\ req[r].snap.policy <= e.content.policy

IssuanceInv ==
  TypeOK /\ LocalsOK /\ LatestIsHighest /\ NothingAhead /\ NumberedInOrder
  /\ VersionOrder

\* A policy an operator saved is not forgotten by a schedule that is put off:
\* while the next check lies in the future, the highest version carries the
\* policy, or a claim under which its renewal was tried and is retried.
Pursued ==
  \/ \E e \in versions : IsCurrent(e) /\ e.content.policy = policy.rev
  \/ \E c \in claims : c.key.content.policy = policy.rev

SavedPolicyPursued == Adopted /\ ~schedule.due => Pursued

\* "A stale browser tab or concurrent first adoption must not silently overwrite
\* a more recent decision": whoever changes the policy had read the one replaced
\* and, when adopting, the version that is current.
NoStaleOverwrite ==
  [][policy' # policy =>
       \E r \in Requests :
         /\ pc[r] = "save" /\ pc'[r] # "save"
         /\ req[r].snap.policy = policy.rev
         /\ policy.rev = 0 => req[r].snap.latest = schedule.latest]_vars

\* A saved service policy is signed in the end, by the save or, if that fails
\* (503 service_update_pending), by automatic renewal.
PolicyIssued ==
  \A n \in 1..MaxPolicy :
    policy.rev = n ~> \E e \in versions : IsCurrent(e) /\ e.content.policy >= n

\* What a version signed at this instant has to say.
SignableNow ==
  LET s == WithModules(ReadState) IN
  IF Assigned
  THEN [contract |-> s.contract, crev |-> s.crev, srev |-> s.srev,
        policy |-> s.policy, terms |-> s.terms, modules |-> s.modules]
  ELSE [contract |-> NoContract, crev |-> 0, srev |-> 0, policy |-> 0,
        terms |-> AnySetting, modules |-> AnySetting]

Atomic == INSTANCE AtomicIssuance WITH
  Blank <- [contract |-> NoContract, crev |-> 0, srev |-> 0, policy |-> 0,
            terms |-> AnySetting, modules |-> AnySetting],
  state <- SignableNow

\* Every version is signed from one consistent and current state, as if by an
\* atomic read, numbering and insert.
IssuesAtomically == Atomic!Spec
=============================================================================
