----------------------------- MODULE FunnelStage -----------------------------
(***************************************************************************)
(* Stage moves and stage approvals of the Funnels of one Opportunity       *)
(* (src/apps/web/server/services/stage.ts, src/apps/web/lib/stage-gate.ts, *)
(* approval-routing.ts, owner-cascade.ts, ensureOpportunityProjectCode).   *)
(*                                                                         *)
(* A session runs one READ COMMITTED transaction, statement by statement:  *)
(* a row lock it waits for is a step of its own, a plain SELECT reads what *)
(* is committed at that step, and what it writes becomes visible, with its *)
(* locks released, at its last step.  Every row it writes it has locked.   *)
(* PostgreSQL aborts a session that waits in a cycle; the code replays     *)
(* some of the transactions it aborts.                                     *)
(***************************************************************************)
EXTENDS Naturals, Sequences, FiniteSets

CONSTANTS
  Sessions,      \* transactions in flight at once
  Funnels,       \* the live Funnels of the Opportunity
  Stages,
  Pipeline,      \* [Stages -> [kind, order, approval, requires, allocates]]
  FirstStage,
  FunnelKeys,    \* requirement keys answered by the funnel row
  CustomKeys,    \* those of them the advance dialog can fill in
  ContainerKeys, \* requirement keys answered by the opportunity row
  PpvvcKeys,     \* PPVVC_PRESET_KEYS
  OwnerContact,  \* the key "ownerContact"
  Filled,        \* keys the forms satisfied when the records were created
  Members, Superadmins,
  Authority,     \* members eligible to approve in the beginning
  Manager,       \* reporting line: [Members -> Members \cup {Nobody}]
  Nobody,
  Operations,    \* what an instance starts, of AllOperations
  MaxStarts,     \* bound: transactions started
  MaxChanges     \* bound: edits of funnel fields and changes of roles

AllOperations ==
  {"advance", "kanban", "approve", "reject", "cancel", "edit", "cascade"}

Keys == FunnelKeys \cup ContainerKeys

ASSUME ConstantsAssumption ==
  /\ FirstStage \in Stages /\ Funnels # {} /\ Members # {}
  /\ Pipeline \in [Stages ->
       [kind: {"OPEN", "WON", "LOST", "PARKED"}, order: Nat, approval: BOOLEAN,
        requires: SUBSET Keys, allocates: BOOLEAN]]
  /\ CustomKeys \subseteq FunnelKeys /\ PpvvcKeys \subseteq ContainerKeys
  /\ OwnerContact \in ContainerKeys
  /\ Filled \subseteq Keys
  /\ Superadmins \subseteq Members /\ Authority \subseteq Members
  /\ Nobody \notin Members /\ Manager \in [Members -> Members \cup {Nobody}]
  /\ Operations \subseteq AllOperations
  /\ MaxStarts \in Nat /\ MaxChanges \in Nat

VARIABLES
  funnel,     \* funnels rows: stage, and the keys their fields satisfy
  container,  \* the opportunities row: keys satisfied, project code (0: none)
  codes,      \* project numbers taken from the tenant's counter
  requests,   \* stage_approval_requests, in the order they were inserted
  history,    \* funnel_stage_history of each funnel
  eligible,   \* active members holding stage.advance.approve
  held,       \* row locks of each session
  pc, tx,     \* control point and locals of each session
  started, changes

rows == <<funnel, container, codes, requests, history>>
vars == <<rows, eligible, held, pc, tx, started, changes>>

-----------------------------------------------------------------------------
Kind(s) == Pipeline[s].kind

Request ==
  [funnel: Funnels, from: Stages, to: Stages, requester: Members,
   approver: Members,
   status: {"pending", "approved", "rejected", "cancelled"}]

Move == [from: Stages, to: Stages, request: Nat, by: Members]

Tx ==
  [kind: {"none", "advance", "approve", "reject", "cancel", "edit", "cascade"},
   member: Members, can: BOOLEAN, funnel: Funnels, target: Stages,
   kanban: BOOLEAN, fill: SUBSET CustomKeys, request: Nat, from: Stages,
   approver: Members \cup {Nobody}, standing: SUBSET (Members \cup {Nobody}),
   tries: Nat]

NoTx ==
  [kind |-> "none", member |-> CHOOSE m \in Members : TRUE, can |-> FALSE,
   funnel |-> CHOOSE f \in Funnels : TRUE, target |-> FirstStage,
   kanban |-> FALSE, fill |-> {}, request |-> 0, from |-> FirstStage,
   approver |-> Nobody, standing |-> {}, tries |-> 0]

FunnelRow(f)  == <<"funnel", f>>
RequestRow(r) == <<"request", r>>
ContainerRow  == <<"opportunity", 0>>
Rows == ({"opportunity"} \X {0}) \cup ({"funnel"} \X Funnels)
          \cup ({"request"} \X Nat)

ControlPoint ==
  {"idle", "begin", "lockFunnel", "gate", "route", "cancelPending", "queue",
   "insert", "lockRequest", "check", "lockContainer", "decide", "move", "cancelOwn",
   "lockFunnels", "edit", "closeRequests"}

TypeOK ==
  /\ funnel \in [Funnels -> [stage: Stages, info: SUBSET FunnelKeys]]
  /\ container \in [info: SUBSET ContainerKeys, code: Nat]
  /\ codes \in Nat
  /\ requests \in Seq(Request)
  /\ history \in [Funnels -> Seq(Move)]
  /\ eligible \subseteq Members
  /\ held \in [Sessions -> SUBSET Rows]
  /\ pc \in [Sessions -> ControlPoint]
  /\ tx \in [Sessions -> Tx]
  /\ started \in Nat /\ changes \in Nat

Init ==
  /\ funnel = [f \in Funnels |-> [stage |-> FirstStage, info |-> FunnelKeys \cap Filled]]
  /\ container = [info |-> ContainerKeys \cap Filled, code |-> 0]
  /\ codes = 0
  /\ requests = <<>>
  /\ history = [f \in Funnels |-> <<>>]
  /\ eligible = Authority
  /\ held = [p \in Sessions |-> {}]
  /\ pc = [p \in Sessions |-> "idle"]
  /\ tx = [p \in Sessions |-> NoTx]
  /\ started = 0 /\ changes = 0

-----------------------------------------------------------------------------
(* lib/stage-gate.ts.                                                      *)

CanTransition(s, t) == s # t /\ Kind(s) \notin {"WON", "LOST"}

IsRollback(s, t) ==
  /\ CanTransition(s, t)
  /\ Kind(t) = "OPEN"
  /\ Kind(s) = "PARKED" \/ Pipeline[t].order < Pipeline[s].order

RequiresApproval(s, t) ==
  /\ CanTransition(s, t)
  /\ IF IsRollback(s, t) THEN Kind(s) = "PARKED" ELSE Pipeline[t].approval

StagesRequiredBefore(s, t) ==
  IF ~CanTransition(s, t) \/ IsRollback(s, t) \/ Kind(t) \in {"LOST", "PARKED"}
  THEN {}
  ELSE {u \in Stages : Kind(u) \in {"OPEN", "WON"}
                       /\ Pipeline[u].order < Pipeline[t].order}

RequiredKeys(s, t, skipPpvvc) ==
  LET keys == UNION {Pipeline[u].requires : u \in StagesRequiredBefore(s, t)} IN
  IF skipPpvvc \/ Kind(t) = "WON" THEN (keys \ PpvvcKeys) \cup {OwnerContact}
                                  ELSE keys

\* A rollback has no entry requirements.
Missing(s, t, skipPpvvc, info) ==
  IF IsRollback(s, t) THEN {} ELSE RequiredKeys(s, t, skipPpvvc) \ info

\* kindToStatus and requires: the information on the funnel and its container.
InfoOf(f) == funnel[f].info \cup container.info

-----------------------------------------------------------------------------
(* approval-routing.ts.  Authority is the set of eligible approvers.       *)

\* The member d steps up the reporting line of m.
Above[m \in Members, d \in 0..25] ==
  IF d = 0 THEN m
  ELSE IF Above[m, d - 1] = Nobody THEN Nobody ELSE Manager[Above[m, d - 1]]

FindManagerApprover(m, authority) ==
  LET found == {d \in 1..25 : Above[m, d] \in authority \ {m}} IN
  IF found = {} THEN Nobody
  ELSE Above[m, CHOOSE d \in found : \A e \in found : d <= e]

\* resolveApprovalRoute lets this member act without an approver.
RoutesDirectly(p) ==
  LET m == tx[p].member IN
  m \in Superadmins \/ (tx[p].can /\ Manager[m] = Nobody)

-----------------------------------------------------------------------------
(* Transactions and row locks.                                             *)

Pending == {r \in DOMAIN requests : requests[r].status = "pending"}
PendingOf(f) == {r \in Pending : requests[r].funnel = f}

\* Mutant: the funnel is read without FOR UPDATE.
FunnelNotLocked(f) == {}

FunnelLock(f) == {FunnelRow(f)}

\* Mutant: an edit leaves the child Funnels alone.
NoChildLocks == {}

ChildLocks == {FunnelRow(f) : f \in Funnels}

\* The rows a session asks for next.
Wants(p) ==
  CASE pc[p] = "lockFunnel"    -> FunnelLock(tx[p].funnel)
    [] pc[p] \in {"lockRequest", "cancelOwn"} -> {RequestRow(tx[p].request)}
    [] pc[p] = "cancelPending" -> {RequestRow(r) : r \in PendingOf(tx[p].funnel)}
    [] pc[p] = "lockContainer" -> {ContainerRow}
    [] pc[p] = "lockFunnels"   -> ChildLocks
    [] pc[p] = "closeRequests" -> {RequestRow(r) : r \in Pending}
    [] OTHER -> {}

Blocks(q, p) == q # p /\ held[q] \cap Wants(p) # {}
CanLock(p)   == \A q \in Sessions : ~Blocks(q, p)

\* p is on a cycle of sessions each waiting for a row of the next.
Deadlocked(p) ==
  \E S \in SUBSET Sessions :
    /\ p \in S
    /\ \A q \in S : \E u, v \in S : Blocks(u, q) /\ Blocks(q, v)

At(p, point) == pc[p] = point

Goto(p, point) == pc' = [pc EXCEPT ![p] = point]

\* Commit or roll back: the locks go, the locals are forgotten.
End(p) ==
  /\ pc' = [pc EXCEPT ![p] = "idle"]
  /\ held' = [held EXCEPT ![p] = {}]
  /\ tx' = [tx EXCEPT ![p] = NoTx]

\* Take the wanted rows and go on.
Acquire(p, next) ==
  /\ CanLock(p)
  /\ held' = [held EXCEPT ![p] = @ \cup Wants(p)]
  /\ Goto(p, next)

Abort(p) == End(p) /\ UNCHANGED rows

Still == UNCHANGED <<eligible, started, changes>>

Start(p, first, locals) ==
  /\ At(p, "idle") /\ started < MaxStarts
  /\ started' = started + 1
  /\ Goto(p, first)
  /\ tx' = [tx EXCEPT ![p] = locals]
  /\ UNCHANGED <<rows, eligible, held, changes>>

\* The request's context, with its permissions, is read before the transaction.
StartAdvance(p) ==
  \E m \in Members, f \in Funnels, t \in Stages, new \in SUBSET CustomKeys,
     k \in Operations \cap {"advance", "kanban"} :
    Start(p, "lockFunnel",
          [NoTx EXCEPT !.kind = "advance", !.member = m, !.can = m \in eligible,
                       !.funnel = f, !.target = t, !.kanban = (k = "kanban"),
                       !.fill = new])

StartDecision(p) ==
  \E m \in Members, r \in DOMAIN requests,
     k \in Operations \cap {"approve", "reject", "cancel"} :
    Start(p, IF k = "reject" THEN "lockRequest" ELSE "begin",
          [NoTx EXCEPT !.kind = k, !.member = m, !.can = m \in eligible,
                       !.request = r, !.funnel = requests[r].funnel,
                       !.target = requests[r].to])

\* updateOpportunityContainer, and updateAccount when the owner changes.
StartContainer(p) ==
  \E k \in Operations \cap {"edit", "cascade"} :
    Start(p, "lockContainer", [NoTx EXCEPT !.kind = k])

-----------------------------------------------------------------------------
(* requestStageAdvance.                                                    *)

\* SELECT ... FOR UPDATE of the funnel, also the first lock of an approval.
LockFunnel(p) ==
  /\ At(p, "lockFunnel")
  /\ Acquire(p, IF tx[p].kind = "advance" THEN "gate" ELSE "lockRequest")
  /\ tx' = [tx EXCEPT ![p].from = funnel[tx[p].funnel].stage]
  /\ UNCHANGED rows /\ Still

\* The container is read without a lock; a refusal is an error for the user.
Gate(p) ==
  /\ At(p, "gate")
  /\ LET t == tx[p] IN
     IF CanTransition(t.from, t.target)
        /\ Missing(t.from, t.target, t.kanban, InfoOf(t.funnel) \cup t.fill) = {}
     THEN Goto(p, "route") /\ UNCHANGED <<held, tx>>
     ELSE End(p)
  /\ UNCHANGED rows /\ Still

\* Mutant: the request is queued although no manager is eligible.
RouteToNobody(p) ==
  /\ At(p, "route")
  /\ IF RequiresApproval(tx[p].from, tx[p].target) /\ ~RoutesDirectly(p)
     THEN /\ Goto(p, "queue")
          /\ tx' = [tx EXCEPT ![p].approver =
                      FindManagerApprover(tx[p].member, eligible)]
     ELSE Goto(p, "cancelPending") /\ UNCHANGED tx
  /\ UNCHANGED <<rows, held>> /\ Still

\* Whether the move needs an approver, and who that is.
Route(p) ==
  /\ At(p, "route")
  /\ LET t == tx[p]
         a == FindManagerApprover(t.member, eligible) IN
     \/ /\ ~RequiresApproval(t.from, t.target) \/ RoutesDirectly(p)
        /\ Goto(p, "cancelPending")
        /\ UNCHANGED <<held, tx>>
     \/ /\ RequiresApproval(t.from, t.target) /\ ~RoutesDirectly(p)
        /\ IF a = Nobody THEN End(p)
           ELSE /\ Goto(p, "queue")
                /\ tx' = [tx EXCEPT ![p].approver = a]
                /\ UNCHANGED held
  /\ UNCHANGED rows /\ Still

\* cancelPendingApprovalRequests; ensureOpportunityProjectCode locks the parent.
CancelPending(p) ==
  /\ At(p, "cancelPending")
  /\ Acquire(p, IF Pipeline[tx[p].target].allocates THEN "lockContainer" ELSE "move")
  /\ UNCHANGED <<rows, tx>> /\ Still

LockContainer(p) ==
  /\ At(p, "lockContainer")
  /\ Acquire(p, CASE tx[p].kind = "advance" -> "move"
                  [] tx[p].kind = "approve" -> "decide"
                  [] OTHER -> "lockFunnels")
  /\ UNCHANGED <<rows, tx>> /\ Still

Close(some, status) ==
  requests' = [r \in DOMAIN requests |->
                 IF r \in some THEN [requests[r] EXCEPT !.status = status]
                 ELSE requests[r]]

\* Mutant: every entry takes a number.
AllocateEachTime(t) ==
  IF Pipeline[t].allocates
  THEN codes' = codes + 1 /\ container' = [container EXCEPT !.code = codes + 1]
  ELSE UNCHANGED <<codes, container>>

\* ensureOpportunityProjectCode: an allocated code is kept.
AllocateCode(t) ==
  IF Pipeline[t].allocates /\ container.code = 0
  THEN /\ codes' = codes + 1
       /\ container' = [container EXCEPT !.code = codes + 1]
  ELSE UNCHANGED <<codes, container>>

\* applyStageMove: the funnel row, the project code and the history.
ApplyStageMove(p, request) ==
  LET t == tx[p] IN
  /\ funnel' = [funnel EXCEPT ![t.funnel] =
                  [stage |-> t.target, info |-> @.info \cup t.fill]]
  /\ AllocateCode(t.target)
  /\ history' = [history EXCEPT ![t.funnel] =
                   Append(@, [from |-> t.from, to |-> t.target,
                              request |-> request, by |-> t.member])]

\* The requests a direct move closes: all that are pending for the funnel.
Superseded(p) == PendingOf(tx[p].funnel)

MoveDirectly(p) ==
  /\ At(p, "move") /\ tx[p].kind = "advance"
  /\ Close(Superseded(p), "cancelled")
  /\ ApplyStageMove(p, 0)
  /\ End(p) /\ Still

\* Mutant: each requester has a request of his own.
ReusableOwn(p) == {r \in PendingOf(tx[p].funnel) :
                     requests[r].to = tx[p].target /\ requests[r].requester = tx[p].member}

\* createApprovalRequest's reuse: a pending request for the same target.
Reusable(p) == {r \in PendingOf(tx[p].funnel) : requests[r].to = tx[p].target}

\* The captured fields are kept although the move only queues.
KeepFilled(p) ==
  funnel' = [funnel EXCEPT ![tx[p].funnel].info = @ \cup tx[p].fill]

FindExisting(p) ==
  /\ At(p, "queue")
  /\ IF Reusable(p) # {}
     THEN KeepFilled(p) /\ End(p)
     ELSE Goto(p, "insert") /\ UNCHANGED <<funnel, held, tx>>
  /\ UNCHANGED <<container, codes, requests, history>> /\ Still

InsertRequest(p) ==
  /\ At(p, "insert")
  /\ LET t == tx[p] IN
     requests' = Append(requests,
       [funnel |-> t.funnel, from |-> t.from, to |-> t.target,
        requester |-> t.member, approver |-> t.approver, status |-> "pending"])
  /\ KeepFilled(p) /\ End(p)
  /\ UNCHANGED <<container, codes, history>> /\ Still

-----------------------------------------------------------------------------
(* decideApproval.                                                         *)

AssignedApprover(p) ==
  LET q == requests[tx[p].request] IN
  /\ q.requester # tx[p].member
  /\ tx[p].member \in Superadmins \/ (q.approver = tx[p].member /\ tx[p].can)

\* Mutant: the assignment is trusted, the reporting line is not read again.
AssignmentTrusted(p) == AssignedApprover(p)

CurrentApprover(p) ==
  /\ AssignedApprover(p)
  /\ \/ tx[p].member \in Superadmins
     \/ FindManagerApprover(requests[tx[p].request].requester, eligible) = tx[p].member

\* The first, unlocked read of the request.
Begin(p) ==
  /\ At(p, "begin")
  /\ LET t == tx[p]
         q == requests[t.request] IN
     \/ /\ q.status = "pending" /\ t.kind = "cancel"
        /\ q.requester = t.member \/ t.member \in Superadmins
        /\ Goto(p, "cancelOwn") /\ UNCHANGED <<held, tx>>
     \/ /\ q.status = "pending" /\ t.kind = "approve" /\ AssignedApprover(p)
        /\ Goto(p, "lockFunnel") /\ UNCHANGED <<held, tx>>
     \/ /\ \/ q.status # "pending"
           \/ t.kind = "cancel" /\ q.requester # t.member /\ t.member \notin Superadmins
           \/ t.kind = "approve" /\ ~AssignedApprover(p)
        /\ End(p)
  /\ UNCHANGED rows /\ Still

\* Mutant: the update is by id alone.
ById(p) == {tx[p].request}

\* The request, if WHERE status = 'pending' still finds it.
Undecided(p) == {tx[p].request} \cap Pending

\* The conditional update waits for the row and re-checks that it is pending.
CancelOwn(p) ==
  /\ At(p, "cancelOwn")
  /\ CanLock(p)
  /\ Close(Undecided(p), "cancelled")
  /\ End(p)
  /\ UNCHANGED <<funnel, container, codes, history>> /\ Still

LockRequest(p) ==
  /\ At(p, "lockRequest")
  /\ CanLock(p)
  /\ IF tx[p].request \in Pending
     THEN /\ Acquire(p, "check")
          /\ tx' = [tx EXCEPT ![p].standing =
                      {FindManagerApprover(requests[tx[p].request].requester, eligible)}]
     ELSE End(p)
  /\ UNCHANGED rows /\ Still

RejectRequest(p) ==
  /\ At(p, "check") /\ tx[p].kind = "reject"
  /\ IF CurrentApprover(p) THEN Close({tx[p].request}, "rejected")
                           ELSE UNCHANGED requests
  /\ End(p)
  /\ UNCHANGED <<funnel, container, codes, history>> /\ Still

\* resolveApprovalAsObsolete: the request is closed, the funnel stays.
Obsolete(p) ==
  /\ Close({tx[p].request}, "rejected")
  /\ End(p)
  /\ UNCHANGED <<funnel, container, codes, history>>

StaleTransition(p) ==
  LET s == tx[p].from  t == tx[p].target IN
  \/ ~CanTransition(s, t)
  \/ requests[tx[p].request].from # s
  \/ IsRollback(s, t) /\ ~RequiresApproval(s, t)

CheckApproval(p) ==
  /\ At(p, "check") /\ tx[p].kind = "approve"
  /\ \/ ~CurrentApprover(p) /\ Abort(p)
     \/ CurrentApprover(p) /\ StaleTransition(p) /\ Obsolete(p)
     \/ /\ CurrentApprover(p) /\ ~StaleTransition(p)
        /\ Goto(p, "lockContainer")
        /\ UNCHANGED <<rows, held, tx>>
  /\ Still

\* The approved request does not skip PPVVC, whatever the advance asked for.
ApprovalMisses(p) ==
  Missing(tx[p].from, tx[p].target, FALSE, InfoOf(tx[p].funnel))

CheckInformation(p) ==
  /\ At(p, "decide")
  /\ IF ApprovalMisses(p) = {} THEN Goto(p, "move") /\ UNCHANGED <<rows, held, tx>>
                              ELSE Obsolete(p)
  /\ Still

MoveApproved(p) ==
  /\ At(p, "move") /\ tx[p].kind = "approve"
  /\ Close({tx[p].request}, "approved")
  /\ ApplyStageMove(p, tx[p].request)
  /\ End(p) /\ Still

-----------------------------------------------------------------------------
(* Other transactions on the same rows.                                    *)

\* The container first, then every live child Funnel.
LockFunnels(p) ==
  /\ At(p, "lockFunnels")
  /\ Acquire(p, IF tx[p].kind = "edit" THEN "edit" ELSE "closeRequests")
  /\ UNCHANGED <<rows, tx>> /\ Still

EditContainer(p) ==
  /\ At(p, "edit")
  /\ \E i \in SUBSET ContainerKeys : container' = [container EXCEPT !.info = i]
  /\ End(p)
  /\ UNCHANGED <<funnel, codes, requests, history>> /\ Still

\* cascadeAccountOwner closes the pending requests for resubmission.
CloseRequests(p) ==
  /\ At(p, "closeRequests")
  /\ CanLock(p)
  /\ Close(Pending, "cancelled")
  /\ End(p)
  /\ UNCHANGED <<funnel, container, codes, history>> /\ Still

\* updateOpportunity writes the fields of the form to the funnel row.
EditFunnel(f) ==
  /\ changes < MaxChanges
  /\ changes' = changes + 1
  /\ \A p \in Sessions : FunnelRow(f) \notin held[p]
  /\ \E i \in SUBSET FunnelKeys : funnel' = [funnel EXCEPT ![f].info = i]
  /\ UNCHANGED <<container, codes, requests, history, eligible, held, pc, tx, started>>

\* A role or a member's status changes.
ChangeAuthority ==
  /\ changes < MaxChanges
  /\ changes' = changes + 1
  /\ \E m \in Members :
       LET authority == (eligible \ {m}) \cup ({m} \ eligible) IN
       /\ eligible' = authority
       /\ tx' = [p \in Sessions |->
                  IF tx[p].standing = {} THEN tx[p]
                  ELSE [tx[p] EXCEPT !.standing = @ \cup
                    {FindManagerApprover(requests[tx[p].request].requester, authority)}]]
  /\ UNCHANGED <<rows, held, pc, started>>

\* retryDeadlockedTransaction: these three are replayed, an edit is not.
Replays(kind) == IF kind \in {"advance", "approve", "reject", "cancel", "cascade"}
                 THEN 2 ELSE 0

First(kind) == CASE kind = "advance" -> "lockFunnel"
                 [] kind = "reject" -> "lockRequest"
                 [] kind \in {"approve", "cancel"} -> "begin"
                 [] OTHER -> "lockContainer"

\* Mutant: the attempts are not counted.
ReplayForever(p) ==
  /\ Deadlocked(p)
  /\ Goto(p, First(tx[p].kind))
  /\ held' = [held EXCEPT ![p] = {}]
  /\ tx' = [tx EXCEPT ![p].standing = {}]
  /\ UNCHANGED rows /\ Still

DeadlockVictim(p) ==
  /\ Deadlocked(p)
  /\ IF tx[p].tries < Replays(tx[p].kind)
     THEN /\ Goto(p, First(tx[p].kind))
          /\ held' = [held EXCEPT ![p] = {}]
          /\ tx' = [tx EXCEPT ![p].tries = @ + 1, ![p].standing = {}]
     ELSE End(p)
  /\ UNCHANGED rows /\ Still

\* The server or its connection dies: the transaction is rolled back.
Crash(p) ==
  /\ ~At(p, "idle")
  /\ Abort(p) /\ Still

-----------------------------------------------------------------------------
Step(p) ==
  \/ LockFunnel(p) \/ Gate(p) \/ Route(p) \/ CancelPending(p)
  \/ LockContainer(p) \/ MoveDirectly(p) \/ FindExisting(p) \/ InsertRequest(p)
  \/ Begin(p) \/ CancelOwn(p) \/ LockRequest(p) \/ RejectRequest(p)
  \/ CheckApproval(p) \/ CheckInformation(p) \/ MoveApproved(p)
  \/ LockFunnels(p) \/ EditContainer(p) \/ CloseRequests(p)

Next ==
  \/ \E p \in Sessions :
       \/ StartAdvance(p) \/ StartDecision(p) \/ StartContainer(p)
       \/ Step(p) \/ DeadlockVictim(p) \/ Crash(p)
  \/ \E f \in Funnels : EditFunnel(f)
  \/ ChangeAuthority

Spec == Init /\ [][Next]_vars

\* A transaction goes on when it can and PostgreSQL resolves deadlocks.
Fairness ==
  \A p \in Sessions : WF_vars(Step(p)) /\ WF_vars(DeadlockVictim(p))

FairSpec == Spec /\ Fairness

-----------------------------------------------------------------------------
(* Properties.                                                             *)

Entries(f) == {history[f][i] : i \in DOMAIN history[f]}

\* No move is lost or applied to a stage already left: the history of a funnel
\* is one chain from its first stage to the present one, however moves,
\* approvals and replays interleave.
HistoryChains ==
  \A f \in Funnels :
    LET h == history[f]
        At0(i) == IF i = 0 THEN FirstStage ELSE h[i].to IN
    /\ \A i \in DOMAIN h : h[i].from = At0(i - 1)
    /\ funnel[f].stage = At0(Len(h))

MovesFor(r) ==
  UNION {{f} \X {i \in DOMAIN history[f] : history[f][i].request = r} : f \in Funnels}

\* A request is approved exactly when one move was made for it, and that move is
\* the one that was asked for.
ApprovedMovesOnce ==
  \A r \in DOMAIN requests :
    IF requests[r].status = "approved"
    THEN \E m \in MovesFor(r) :
           /\ MovesFor(r) = {m}
           /\ m[1] = requests[r].funnel
           /\ history[m[1]][m[2]].from = requests[r].from
           /\ history[m[1]][m[2]].to = requests[r].to
    ELSE MovesFor(r) = {}

\* Two people asking for the same move share one pending request.
OnePendingPerTarget ==
  \A r, q \in Pending :
    requests[r].funnel = requests[q].funnel /\ requests[r].to = requests[q].to
      => r = q

\* A request stands for one move, asked for once and made once.
RequestsExact == ApprovedMovesOnce /\ OnePendingPerTarget

\* "Project code is allocated once, on first entry to 4A" (or directly to Won),
\* by whichever Funnel of the Opportunity comes first, and no number is spent on
\* a rollback and re-entry.
CodeAllocatedOnce ==
  /\ container.code = codes /\ codes <= 1
  /\ codes = 1 <=> \E f \in Funnels : \E e \in Entries(f) : Pipeline[e.to].allocates

\* "Closed Won and Closed Lost are terminal", also for the transaction that read
\* the stage before another one closed the funnel.
TerminalIsFinal ==
  [][\A f \in Funnels : Kind(funnel[f].stage) \in {"WON", "LOST"}
        => funnel'[f].stage = funnel[f].stage]_vars

\* A decided request is never decided again, by none of the five ways to decide.
DecisionsAreFinal ==
  [][\A r \in DOMAIN requests :
        requests[r].status # "pending" => requests'[r] = requests[r]]_vars

\* "Direct moves cancel older pending requests so they do not remain
\* actionable."
DirectMoveClears ==
  [][\A f \in Funnels :
        /\ Len(history'[f]) > Len(history[f])
        /\ history'[f][Len(history'[f])].request = 0
        => PendingOf(f)' = {}]_vars

\* At the instant a move commits, all information it had to find is there,
\* although the funnel's was read earlier and the container's, by a direct move,
\* without a lock: whoever edits the container waits for its funnels too.
RequirementsHoldAtMove ==
  [][\A p \in Sessions :
        LET t == tx[p] IN
        Len(history'[t.funnel]) > Len(history[t.funnel]) /\ pc[p] = "move" =>
          Missing(t.from, t.target, t.kanban,
                  funnel'[t.funnel].info \cup container'.info) = {}]_vars

\* Who approves or rejects was the requester's manager approver at some instant
\* after the request's row was locked, so authority withdrawn before that is not
\* used; and it is never the requester.
DecidedInAuthority ==
  [][\A r \in Pending :
        requests'[r].status \in {"approved", "rejected"} =>
          \E p \in Sessions :
            /\ RequestRow(r) \in held[p] /\ pc'[p] = "idle"
            /\ tx[p].member # requests[r].requester
            /\ tx[p].member \in Superadmins \cup tx[p].standing]_vars

\* What is closed stays closed: funnels that are won or lost, requests decided.
EndsAreFinal == TerminalIsFinal /\ DecisionsAreFinal

\* A request ends by a decision of somebody entitled to it then, or by the direct
\* move that overtakes it.
DecidedAsAllowed == DirectMoveClears /\ DecidedInAuthority

\* No transaction waits for ever: the stage code locks funnel before opportunity,
\* container edits and owner changes lock them the other way round.
AllEnd == \A p \in Sessions : pc[p] # "idle" ~> pc[p] = "idle"

=============================================================================
