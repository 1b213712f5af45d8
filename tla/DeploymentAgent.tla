-------------------------- MODULE DeploymentAgent --------------------------
(***************************************************************************)
(* The deployment agent between the control plane and the CRM             *)
(* (src/apps/deployment-agent/src/runner.ts), with the CRM's application   *)
(* of an entitlement (web/lib/deployment-control.ts, migration 0066) and   *)
(* the control plane's record of heartbeats (repos/deployments.ts).        *)
(*                                                                         *)
(* The heartbeat cycle and the entitlement poll run on timers of their own *)
(* and take turns by the apply lock.  Every HTTP call is a step; it may    *)
(* break, and what it asked for may still be carried out later.            *)
(***************************************************************************)
EXTENDS Naturals, Sequences, SequencesExt

CONSTANTS
  FaultKinds,  \* what goes wrong in an instance, of AllFaults
  MaxFaults,   \* bound: how often
  MaxVersion   \* bound: version numbers in use

\* A broken call, one that is late, a restart of the agent, a 401 or 403, a
\* database of the CRM or of the control plane restored from an older backup.
AllFaults ==
  {"broken", "late", "restart", "refused", "webRestored", "controlRestored"}

ASSUME ConstantsAssumption ==
  FaultKinds \subseteq AllFaults /\ MaxFaults \in Nat /\ MaxVersion \in Nat

VARIABLES
  versions,    \* entitlement_versions: content by version number
  era,         \* restores of the control plane: content issued since differs
  reported,    \* entitlement version of the latest heartbeat, 0: none
  web,         \* deployment_control_state: revision and content
  runtime,     \* runtime.json
  repair,      \* repairRequired
  cooled,      \* the recovery probe's time has come
  queue,       \* applyTail: loops that hold (first) or await the apply lock
  pc, loc,     \* control point and locals of each loop
  lateReports, \* heartbeats given up by the agent, in order of arrival
  latePuts,    \* entitlements put to the CRM by calls that were given up
  faults

control == <<versions, era, reported, lateReports>>
crm     == <<web, latePuts>>
agent   == <<runtime, repair, cooled, queue, pc, loc>>
vars    == <<control, crm, agent, faults>>

Loops == {"cycle", "poll"}

\* HTTP calls, and the steps between them.
Calls == {"status", "report", "current", "fetch", "put", "restatus"}
ControlPoint == Calls \cup {"off", "timer", "wait", "save", "failed", "failSave"}

Version   == [rev: Nat, content: Nat]
NoVersion == [rev |-> 0, content |-> 0]

Alarms ==
  {"control_entitlement_regressed", "entitlement_not_accepted", "http_409", "http_404"}
ErrorCode == Alarms \cup {"none", "network_error", "identity_rejected", "agent_error"}

Runtime == [applied: Nat, pending: Nat, error: ErrorCode]
EmptyRuntime == [applied |-> 0, pending |-> 0, error |-> "none"]

Locals ==
  [web: Nat, target: Version, closing: BOOLEAN, error: ErrorCode, saved: Runtime]
NoLocals ==
  [web |-> 0, target |-> NoVersion, closing |-> FALSE, error |-> "none",
   saved |-> EmptyRuntime]

Stopped == {"off", "timer", "failed", "failSave"}

\* A loop is queued exactly while it waits for the apply lock or holds it.
TypeOK ==
  /\ versions \in Seq(Nat) /\ era \in Nat /\ reported \in Nat
  /\ web \in Version
  /\ runtime \in Runtime
  /\ repair \in BOOLEAN /\ cooled \in BOOLEAN
  /\ queue \in Seq(Loops)
  /\ pc \in [Loops -> ControlPoint]
  /\ loc \in [Loops -> Locals]
  /\ lateReports \in Seq(Nat) /\ latePuts \subseteq Version
  /\ faults \in Nat
  /\ \A i, j \in DOMAIN queue : queue[i] = queue[j] => i = j
  /\ \A l \in Loops :
       /\ pc[l] \in Stopped <=> \A i \in DOMAIN queue : queue[i] # l
       /\ loc[l].error # "none" <=> pc[l] \in {"failed", "failSave"}

Init ==
  /\ versions = <<>> /\ era = 0 /\ reported = 0
  /\ web = NoVersion
  /\ runtime = EmptyRuntime
  /\ repair = FALSE /\ cooled = FALSE
  /\ queue = <<"cycle">>
  /\ pc = [l \in Loops |-> IF l = "cycle" THEN "wait" ELSE "off"]
  /\ loc = [l \in Loops |-> NoLocals]
  /\ lateReports = <<>> /\ latePuts = {}
  /\ faults = 0

Newest == Len(versions)

-----------------------------------------------------------------------------
(* Control flow of a loop.                                                 *)

Goto(l, point) == pc' = [pc EXCEPT ![l] = point]

\* The loop that releases the lock is the first in the queue.
Release(l) == queue' = Tail(queue)

\* Back to the timer; the poll's timer first runs after the first cycle.
Rest(l) ==
  pc' = [m \in Loops |-> IF m = l \/ (l = "cycle" /\ pc[m] = "off") THEN "timer"
                         ELSE pc[m]]

Finish(l) ==
  /\ Release(l) /\ Rest(l)
  /\ repair' = (repair /\ l # "cycle")
  /\ loc' = [loc EXCEPT ![l] = NoLocals]

Fail(l, code) ==
  /\ Release(l) /\ Goto(l, "failed")
  /\ loc' = [loc EXCEPT ![l] = [NoLocals EXCEPT !.error = code]]
  /\ UNCHANGED repair

Continue(l, point, locals) ==
  /\ Goto(l, point)
  /\ loc' = [loc EXCEPT ![l] = locals]
  /\ UNCHANGED <<queue, repair>>

\* cycle and pollOnceInternal begin with the status call; the cycle has read the
\* runtime file before it.
Attempt(l) == Continue(l, "status", [NoLocals EXCEPT !.saved = runtime])

\* Mutant: the poll probes, which does not bootstrap and ends no repair.
PollProbes(l) == repair => l = "poll" /\ cooled

MayStart(l) == repair => l = "cycle" /\ cooled

\* A timer fires.  In need of repair only the cycle runs, as a probe.
Start(l) ==
  /\ pc[l] = "timer"
  /\ MayStart(l)
  /\ Goto(l, "wait")
  /\ queue' = Append(queue, l)
  /\ UNCHANGED <<control, crm, runtime, repair, cooled, loc, faults>>

\* Mutant: the two loops do not take turns.
AnyTurn(l) == TRUE

HasTurn(l) == queue # <<>> /\ Head(queue) = l

\* withApplyLock; runOnce checks again whether it may probe, a poll does not.
Acquire(l) ==
  /\ pc[l] = "wait" /\ HasTurn(l)
  /\ IF l = "cycle" /\ repair /\ ~cooled THEN Fail(l, "agent_error")
     ELSE Attempt(l)
  /\ UNCHANGED <<control, crm, runtime, cooled, faults>>

-----------------------------------------------------------------------------
(* The CRM.                                                                *)

\* apply_verified_deployment_entitlement.
\* Mutant: whatever comes last is kept.
AfterPutBlind(v) == v

AfterPut(v) == IF v.rev > web.rev THEN v ELSE web
Accepted(v) == v.rev > web.rev \/ v = web

\* GET status.  The cycle saves the revision as the one that was applied.
Status(l) ==
  /\ pc[l] = "status"
  /\ IF l = "cycle"
     THEN /\ runtime' = [loc[l].saved EXCEPT !.applied = web.rev, !.error = "none"]
          /\ Continue(l, "report", [NoLocals EXCEPT !.web = web.rev])
     ELSE /\ IF web.rev = 0 THEN Finish(l)
             ELSE Continue(l, "current", [NoLocals EXCEPT !.web = web.rev,
                                                          !.saved = runtime])
          /\ UNCHANGED runtime
  /\ UNCHANGED <<control, crm, cooled, faults>>

\* PUT entitlement.
Put(l) ==
  /\ pc[l] = "put"
  /\ web' = AfterPut(loc[l].target)
  /\ IF Accepted(loc[l].target) THEN Continue(l, "save", loc[l])
     ELSE Fail(l, "http_409")
  /\ UNCHANGED <<control, latePuts, runtime, cooled, faults>>

\* The rest of applyLatest.
Save(l) ==
  /\ pc[l] = "save"
  /\ LET v == loc[l].target.rev IN
     runtime' = [applied |-> v, pending |-> v, error |-> "none"]
  /\ Continue(l, "restatus", loc[l])
  /\ UNCHANGED <<control, crm, cooled, faults>>

Restatus(l) ==
  /\ pc[l] = "restatus"
  /\ IF web.rev = loc[l].target.rev
     THEN Continue(l, "report", [loc[l] EXCEPT !.web = web.rev, !.closing = TRUE])
     ELSE Fail(l, "entitlement_not_accepted")
  /\ UNCHANGED <<control, crm, runtime, cooled, faults>>

-----------------------------------------------------------------------------
(* The control plane.                                                      *)

\* The latest heartbeat is the one that arrived last (ORDER BY observed_at), so
\* of the late ones only those that arrived after it still matter.

\* Mutant: the latest heartbeat is the one stored last.
AllOthers(i) == RemoveAt(lateReports, i)

LaterThan(i) == SubSeq(lateReports, i + 1, Len(lateReports))

\* sendHeartbeat: the report, and what the runtime file keeps of it.
Recorded(l) ==
  /\ reported' = loc[l].web
  /\ lateReports' = <<>>
  /\ runtime' = [runtime EXCEPT !.error = "none",
                   !.pending = IF @ = loc[l].web THEN 0 ELSE @]

Report(l) ==
  /\ pc[l] = "report"
  /\ Recorded(l)
  /\ CASE loc[l].closing \/ loc[l].web = Newest -> Finish(l)
       [] ~loc[l].closing /\ loc[l].web > Newest ->
            Fail(l, "control_entitlement_regressed")
       [] OTHER ->
            Continue(l, "fetch", [loc[l] EXCEPT !.target.rev = Newest])
  /\ UNCHANGED <<versions, era, crm, cooled, faults>>

\* Mutant: an entitlement that is already applied was reported, too.
NothingPending(l) == FALSE

MustReport(l) == loc[l].saved.pending = loc[l].web

\* currentEntitlement of the poll.
Current(l) ==
  /\ pc[l] = "current"
  /\ CASE Newest < loc[l].web \/ Newest < loc[l].saved.applied ->
            Fail(l, "control_entitlement_regressed")
       [] Newest = loc[l].web /\ Newest >= loc[l].saved.applied ->
            IF MustReport(l)
            THEN Continue(l, "report", [loc[l] EXCEPT !.closing = TRUE])
            ELSE Finish(l)
       [] OTHER ->
            Continue(l, "fetch", [loc[l] EXCEPT !.target.rev = Newest])
  /\ UNCHANGED <<control, crm, runtime, cooled, faults>>

Fetch(l) ==
  /\ pc[l] = "fetch"
  /\ LET v == loc[l].target.rev IN
     IF v \in DOMAIN versions
     THEN Continue(l, "put", [loc[l] EXCEPT !.target.content = versions[v]])
     ELSE Fail(l, "http_404")
  /\ UNCHANGED <<control, crm, runtime, cooled, faults>>

\* EntitlementIssuance, seen from here.
Issue ==
  /\ Newest < MaxVersion
  /\ versions' = Append(versions, era)
  /\ UNCHANGED <<era, reported, lateReports, crm, agent, faults>>

-----------------------------------------------------------------------------
(* After a failure the error code is added to the runtime file, read and   *)
(* written again without the apply lock.                                   *)

LoadFailed(l) ==
  /\ pc[l] = "failed"
  /\ loc' = [loc EXCEPT ![l].saved = runtime]
  /\ Goto(l, "failSave")
  /\ UNCHANGED <<control, crm, runtime, repair, cooled, queue, faults>>

WithError(runtimeRead, code) == [runtimeRead EXCEPT !.error = code]

SaveFailed(l) ==
  /\ pc[l] = "failSave"
  /\ runtime' = WithError(loc[l].saved, loc[l].error)
  /\ Rest(l)
  /\ loc' = [loc EXCEPT ![l] = NoLocals]
  /\ UNCHANGED <<control, crm, repair, cooled, queue, faults>>

CoolDown ==
  /\ repair /\ ~cooled
  /\ cooled' = TRUE
  /\ UNCHANGED <<control, crm, runtime, repair, queue, pc, loc, faults>>

-----------------------------------------------------------------------------
(* Faults.                                                                 *)

Fault(kind) ==
  /\ kind \in FaultKinds /\ faults < MaxFaults
  /\ faults' = faults + 1

\* What a given-up call asked for may still arrive.
Linger(l, late) ==
  /\ lateReports' = IF late /\ pc[l] = "report" THEN Append(lateReports, loc[l].web)
                    ELSE lateReports
  /\ latePuts' = IF late /\ pc[l] = "put" THEN latePuts \cup {loc[l].target}
                 ELSE latePuts

\* A call breaks; attempt starts over, or has used its tries.
Break(l) ==
  /\ pc[l] \in Calls
  /\ \/ Fault("broken") /\ Linger(l, FALSE)
     \/ Fault("late") /\ pc[l] \in {"report", "put"} /\ Linger(l, TRUE)
  /\ \/ Attempt(l)
     \/ Fail(l, "network_error")
  /\ UNCHANGED <<versions, era, reported, web, runtime, cooled>>

\* 401 or 403: the identity or the secret is rejected; the control plane answers
\* so, too, when a retrieval fails for any other reason.
Refuse(l) ==
  /\ pc[l] \in Calls
  /\ Fault("refused")
  /\ repair' = TRUE /\ cooled' = FALSE
  /\ Release(l) /\ Goto(l, "failed")
  /\ loc' = [loc EXCEPT ![l] = [NoLocals EXCEPT !.error = "identity_rejected"]]
  /\ UNCHANGED <<control, crm, runtime>>

DeliverReport ==
  \E i \in DOMAIN lateReports :
    /\ reported' = lateReports[i]
    /\ lateReports' = LaterThan(i)
    /\ UNCHANGED <<versions, era, crm, agent, faults>>

DeliverPut ==
  \E v \in latePuts :
    /\ web' = AfterPut(v)
    /\ latePuts' = latePuts \ {v}
    /\ UNCHANGED <<control, agent, faults>>

\* The agent dies and is started again.
Restart ==
  /\ Fault("restart")
  /\ repair' = FALSE /\ cooled' = FALSE
  /\ queue' = <<"cycle">>
  /\ pc' = [l \in Loops |-> IF l = "cycle" THEN "wait" ELSE "off"]
  /\ loc' = [l \in Loops |-> NoLocals]
  /\ \E l \in Loops, late \in BOOLEAN : Linger(l, late /\ "late" \in FaultKinds)
  /\ UNCHANGED <<versions, era, reported, web, runtime>>

WebRestored ==
  /\ Fault("webRestored")
  /\ \E n \in 0 .. web.rev - 1 :
       web' = IF n \in DOMAIN versions THEN [rev |-> n, content |-> versions[n]]
              ELSE NoVersion
  /\ UNCHANGED <<control, latePuts, agent>>

\* Entitlements and heartbeats are tables of one D1 database; what is on its way
\* is not.
ControlRestored ==
  /\ Fault("controlRestored")
  /\ \E n \in 0 .. Newest - 1 : versions' = SubSeq(versions, 1, n)
  /\ era' = era + 1
  /\ reported' \in 0 .. MaxVersion
  /\ UNCHANGED <<lateReports, crm, agent>>

-----------------------------------------------------------------------------
Work(l) ==
  \/ Start(l) \/ Acquire(l) \/ Status(l) \/ Put(l) \/ Save(l) \/ Restatus(l)
  \/ Report(l) \/ Current(l) \/ Fetch(l) \/ LoadFailed(l) \/ SaveFailed(l)

Next ==
  \/ \E l \in Loops : Work(l) \/ Break(l) \/ Refuse(l)
  \/ Issue \/ CoolDown
  \/ DeliverReport \/ DeliverPut \/ Restart \/ WebRestored \/ ControlRestored

Spec == Init /\ [][Next]_vars

\* Timers fire, started work goes on, the cooling period ends.
Fairness == (\A l \in Loops : WF_vars(Work(l))) /\ WF_vars(CoolDown)

FairSpec == Spec /\ Fairness

-----------------------------------------------------------------------------
(* Properties.                                                             *)

Delivery == INSTANCE EntitlementDelivery
  WITH issued <- Newest, applied <- web.rev, acknowledged <- reported

\* As long as no database is restored: the CRM never returns to an older
\* entitlement although puts may be late, and "an older heartbeat cannot follow
\* a newer acknowledgement" although two loops and late calls send them.
DeliversInOrder == Delivery!Spec

\* As long as no database is restored, the agent never suspects a regression of
\* the control plane or a rejection by the CRM: neither another loop nor a late
\* call comes between what it read and what it does with it.
NoFalseAlarm == \A l \in Loops : loc[l].error \notin Alarms

AtRest ==
  /\ \A l \in Loops : pc[l] \in {"timer", "wait"}
  /\ runtime.error = "none"

\* When both loops rest, no error is recorded and the runtime file names the
\* revision the CRM runs under, the control plane has been told of it: an
\* acknowledgement that failed after an apply is made up for before the agent
\* counts itself as done.
RecordedIsAcknowledged ==
  AtRest /\ runtime.applied = web.rev => reported = web.rev

\* The inductive invariant behind DeliversInOrder and NoFalseAlarm.
Holding == Calls \cup {"save"}

HolderIsFirst ==
  \A l \in Loops : pc[l] \in Holding => queue # <<>> /\ Head(queue) = l

\* Nothing read, applied or still on its way is newer than what was issued.
NothingAhead ==
  /\ web.rev <= Newest /\ runtime.applied <= Newest
  /\ \A v \in latePuts : v.rev <= Newest
  /\ \A l \in Loops :
       loc[l].web <= web.rev /\ loc[l].target.rev <= Newest
         /\ loc[l].saved.applied <= Newest

\* Heartbeats on their way, and the one to be sent next, are in order.
ReportsInOrder ==
  /\ reported <= web.rev
  /\ \A i \in DOMAIN lateReports :
       /\ reported <= lateReports[i] /\ lateReports[i] <= web.rev
       /\ \A j \in DOMAIN lateReports : i <= j => lateReports[i] <= lateReports[j]
  /\ \A l \in Loops : pc[l] \in {"report", "current"} =>
       /\ reported <= loc[l].web
       /\ \A i \in DOMAIN lateReports : lateReports[i] <= loc[l].web

\* Only the holder of the lock puts, and its target is at least as new as
\* whatever a call given up earlier may still put.
TargetIsNewest ==
  \A l \in Loops : pc[l] \in {"fetch", "put", "save", "restatus"} =>
    /\ loc[l].target.rev \in DOMAIN versions
    /\ web.rev <= loc[l].target.rev
    /\ \A v \in latePuts : v.rev <= loc[l].target.rev
    /\ pc[l] \in {"save", "restatus"} => web.rev = loc[l].target.rev

ContentIsIssued ==
  /\ web.rev > 0 => web.content = versions[web.rev]
  /\ \A v \in latePuts : v.rev > 0 /\ v.content = versions[v.rev]
  /\ \A l \in Loops :
       pc[l] = "put" => loc[l].target.content = versions[loc[l].target.rev]

AgentInv ==
  /\ TypeOK /\ HolderIsFirst /\ NothingAhead /\ ReportsInOrder
  /\ TargetIsNewest /\ ContentIsIssued /\ NoFalseAlarm

\* After broken calls, restarts, refusals and restored databases, the newest
\* version is applied and acknowledged for good, unless the control plane stays
\* behind the CRM.
Converges ==
  <>[](web.rev = Newest /\ reported = Newest) \/ <>[](Newest < web.rev)

\* Whatever happens to the control plane, the CRM never takes an older version
\* or other content under the number it has; only its own restore does that.
AppliedOnlyGrows == [][web' # web => web'.rev > web.rev \/ WebRestored]_vars

\* A control plane that fell behind the CRM is reported as such.
RegressionReported ==
  Newest < web.rev ~>
    Newest >= web.rev \/ runtime.error = "control_entitlement_regressed"

\* Only a restore takes the CRM back, and when one takes the control plane back the
\* agent says so.
NeverBackSilently == AppliedOnlyGrows /\ RegressionReported
=============================================================================
