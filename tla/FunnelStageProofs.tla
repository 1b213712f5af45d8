------------------------- MODULE FunnelStageProofs -------------------------
(***************************************************************************)
(* Proofs about FunnelStage for any pipeline, reporting line and number of *)
(* funnels, sessions and starts.                                           *)
(***************************************************************************)
EXTENDS FunnelStage, SequenceTheorems, WellFoundedInduction, TLAPS

-----------------------------------------------------------------------------
(* The inductive invariant.                                                *)

\* A row is locked by one transaction at most.
LocksOK == \A p, q \in Sessions : p # q => held[p] \cap held[q] = {}

\* History names requests that were made.
HistoryRefers ==
  \A f \in Funnels : \A i \in DOMAIN history[f] : history[f][i].request <= Len(requests)

Path(kind) ==
  CASE kind = "none"    -> {"idle"}
    [] kind = "advance" -> {"lockFunnel", "gate", "route", "cancelPending", "queue",
                            "insert", "lockContainer", "move"}
    [] kind = "approve" -> {"begin", "lockFunnel", "lockRequest", "check",
                            "lockContainer", "decide", "move"}
    [] kind = "reject"  -> {"lockRequest", "check"}
    [] kind = "cancel"  -> {"begin", "cancelOwn"}
    [] kind = "edit"    -> {"lockContainer", "lockFunnels", "edit"}
    [] kind = "cascade" -> {"lockContainer", "lockFunnels", "closeRequests"}

Advances(p, points) == tx[p].kind = "advance" /\ pc[p] \in points
Approves(p, points) == tx[p].kind = "approve" /\ pc[p] \in points

\* The stage that was read with the funnel's lock is still the funnel's stage.
FunnelHeld(p) ==
  Advances(p, {"gate", "route", "cancelPending", "queue", "insert",
               "lockContainer", "move"})
  \/ Approves(p, {"lockRequest", "check", "lockContainer", "decide", "move"}) =>
    FunnelRow(tx[p].funnel) \in held[p] /\ tx[p].from = funnel[tx[p].funnel].stage

\* What the gate has found holds still.
Gated(p) ==
  Advances(p, {"route", "cancelPending", "queue", "insert", "lockContainer", "move"}) =>
    /\ CanTransition(tx[p].from, tx[p].target)
    /\ Missing(tx[p].from, tx[p].target, tx[p].kanban,
               InfoOf(tx[p].funnel) \cup tx[p].fill) = {}

\* A direct move has locked every request that it will close.
Cleared(p) ==
  Advances(p, {"lockContainer", "move"}) =>
    \A r \in PendingOf(tx[p].funnel) : RequestRow(r) \in held[p]

Routed(p) ==
  /\ Advances(p, {"queue", "insert"}) => tx[p].approver \in Members
  /\ Advances(p, {"insert"}) => Reusable(p) = {}

Asked(p) ==
  tx[p].kind \in {"approve", "reject", "cancel"} =>
    /\ tx[p].request \in DOMAIN requests
    /\ requests[tx[p].request].funnel = tx[p].funnel
    /\ requests[tx[p].request].to = tx[p].target
    /\ ~tx[p].kanban /\ tx[p].fill = {}

\* Who decides has locked a pending request, and the present approver of its
\* requester is among those who stood since.
Claimed(p) ==
  pc[p] = "check" \/ Approves(p, {"lockContainer", "decide", "move"}) =>
    /\ RequestRow(tx[p].request) \in held[p]
    /\ tx[p].request \in Pending
    /\ FindManagerApprover(requests[tx[p].request].requester, eligible)
         \in tx[p].standing

Checked(p) ==
  Approves(p, {"lockContainer", "decide", "move"}) =>
    /\ CanTransition(tx[p].from, tx[p].target)
    /\ requests[tx[p].request].from = tx[p].from
    /\ tx[p].member # requests[tx[p].request].requester
    /\ tx[p].member \in Superadmins \cup tx[p].standing

Informed(p) ==
  Approves(p, {"move"}) =>
    Missing(tx[p].from, tx[p].target, FALSE, InfoOf(tx[p].funnel)) = {}

Edits(p) == pc[p] = "edit" => \A f \in Funnels : FunnelRow(f) \in held[p]

SessionOK(p) ==
  /\ pc[p] \in Path(tx[p].kind)
  /\ FunnelHeld(p) /\ Gated(p) /\ Cleared(p) /\ Routed(p)
  /\ Asked(p) /\ Claimed(p) /\ Checked(p) /\ Informed(p) /\ Edits(p)

RowsTyped ==
  /\ funnel \in [Funnels -> [stage: Stages, info: SUBSET FunnelKeys]]
  /\ container \in [info: SUBSET ContainerKeys, code: Nat]
  /\ codes \in Nat
  /\ requests \in Seq(Request)
  /\ history \in [Funnels -> Seq(Move)]

SessionsTyped ==
  /\ eligible \subseteq Members
  /\ held \in [Sessions -> SUBSET Rows]
  /\ pc \in [Sessions -> ControlPoint]
  /\ tx \in [Sessions -> Tx]
  /\ started \in Nat /\ changes \in Nat

\* What the committed rows are like.
RowsOK ==
  /\ RowsTyped /\ HistoryChains /\ HistoryRefers
  /\ ApprovedMovesOnce /\ OnePendingPerTarget

FunnelInv ==
  /\ RowsOK /\ SessionsTyped /\ LocksOK
  /\ \A p \in Sessions : SessionOK(p)

-----------------------------------------------------------------------------
(* Types.                                                                  *)

LEMMA TypesSplit == TypeOK <=> RowsTyped /\ SessionsTyped
BY DEF TypeOK, RowsTyped, SessionsTyped

LEMMA Types ==
  ASSUME SessionsTyped, NEW p \in Sessions
  PROVE  /\ tx[p] \in Tx /\ pc[p] \in ControlPoint /\ held[p] \in SUBSET Rows
         /\ tx[p].kind \in {"none", "advance", "approve", "reject", "cancel",
                            "edit", "cascade"}
         /\ tx[p].member \in Members /\ tx[p].can \in BOOLEAN
         /\ tx[p].funnel \in Funnels /\ tx[p].target \in Stages
         /\ tx[p].kanban \in BOOLEAN /\ tx[p].fill \in SUBSET CustomKeys
         /\ tx[p].request \in Nat /\ tx[p].from \in Stages
         /\ tx[p].approver \in Members \cup {Nobody}
         /\ tx[p].standing \in SUBSET (Members \cup {Nobody}) /\ tx[p].tries \in Nat
BY DEF SessionsTyped, Tx

LEMMA NoTxTyped ==
  /\ NoTx \in Tx /\ NoTx.kind = "none" /\ NoTx.standing = {} /\ NoTx.kanban = FALSE
  /\ NoTx.fill = {}
<1>1. (CHOOSE m \in Members : TRUE) \in Members /\ (CHOOSE f \in Funnels : TRUE) \in Funnels
  BY ConstantsAssumption
<1>2. FirstStage \in Stages
  BY ConstantsAssumption
<1> QED BY <1>1, <1>2 DEF NoTx, Tx

LEMMA RequestTypes ==
  ASSUME RowsTyped
  PROVE  /\ Len(requests) \in Nat /\ DOMAIN requests = 1 .. Len(requests)
         /\ \A r \in DOMAIN requests :
              /\ r \in Nat /\ requests[r] \in Request
              /\ requests[r].funnel \in Funnels /\ requests[r].from \in Stages
              /\ requests[r].to \in Stages /\ requests[r].requester \in Members
              /\ requests[r].approver \in Members
              /\ requests[r].status \in {"pending", "approved", "rejected", "cancelled"}
<1>1. /\ Len(requests) \in Nat /\ DOMAIN requests = 1 .. Len(requests)
      /\ \A r \in DOMAIN requests : r \in Nat /\ requests[r] \in Request
  BY DEF RowsTyped
<1> QED BY <1>1 DEF Request

LEMMA HistoryTypes ==
  ASSUME RowsTyped, NEW f \in Funnels
  PROVE  /\ history[f] \in Seq(Move) /\ Len(history[f]) \in Nat
         /\ DOMAIN history[f] = 1 .. Len(history[f])
         /\ \A i \in DOMAIN history[f] :
              /\ i \in Nat /\ history[f][i] \in Move
              /\ history[f][i].from \in Stages /\ history[f][i].to \in Stages
              /\ history[f][i].request \in Nat
<1>1. history[f] \in Seq(Move)
  BY DEF RowsTyped
<1>2. /\ Len(history[f]) \in Nat /\ DOMAIN history[f] = 1 .. Len(history[f])
      /\ \A i \in DOMAIN history[f] : i \in Nat /\ history[f][i] \in Move
  BY <1>1
<1> QED BY <1>1, <1>2 DEF Move

\* A set of numbers has a least one.
LEMMA LeastNumber ==
  ASSUME NEW T, T \subseteq Nat, T # {}
  PROVE  \E x \in T : \A y \in T : x <= y
<1> DEFINE R == OpToRel(<, Nat)
<1>1. IsWellFoundedOn(R, Nat)
  BY NatLessThanWellFounded
<1>2. \A x, y \in Nat : y < x => <<y, x>> \in R
  BY DEF OpToRel
<1> HIDE DEF R
<1>3. PICK x \in T : \A y \in T : ~(<<y, x>> \in R)
  BY <1>1, WFMin
<1>4. ASSUME NEW y \in T PROVE x <= y
  <2>1. y \in Nat /\ x \in Nat /\ ~(y < x)
    BY <1>2, <1>3
  <2> QED BY <2>1
<1> QED BY <1>4

\* The approver that is found has authority, and is not the requester.
LEMMA ApproverFound ==
  ASSUME NEW m, NEW authority
  PROVE  FindManagerApprover(m, authority) \in (authority \ {m}) \cup {Nobody}
<1> DEFINE found == {d \in 1 .. 25 : Above[m, d] \in authority \ {m}}
<1>1. CASE found = {}
  BY <1>1 DEF FindManagerApprover
<1>2. CASE found # {}
  <2>1. \E d \in found : \A e \in found : d <= e
    <3>1. found \subseteq 1 .. 25
      BY Zenon
    <3>2. 1 .. 25 \subseteq Nat
      OBVIOUS
    <3> HIDE DEF found
    <3> QED BY <1>2, <3>1, <3>2, LeastNumber
  <2> DEFINE d == CHOOSE d \in found : \A e \in found : d <= e
  <2>2. d \in found
    BY <2>1
  <2>3. FindManagerApprover(m, authority) = Above[m, d]
    BY <1>2 DEF FindManagerApprover
  <2> QED BY <2>2, <2>3
<1> QED BY <1>1, <1>2

-----------------------------------------------------------------------------
(* Transactions.                                                           *)

LEMMA WantsRows ==
  ASSUME RowsTyped, SessionsTyped, NEW p \in Sessions
  PROVE  Wants(p) \subseteq Rows
<1>1. tx[p].funnel \in Funnels /\ tx[p].request \in Nat
  BY Types
<1>2. Pending \subseteq Nat
  BY RequestTypes DEF Pending
<1> QED BY <1>1, <1>2
        DEF Wants, FunnelLock, ChildLocks, PendingOf, FunnelRow, RequestRow,
            ContainerRow, Rows

\* Different rows have different names.
LEMMA RowNames ==
  /\ \A f, g : FunnelRow(f) = FunnelRow(g) => f = g
  /\ \A r, s : RequestRow(r) = RequestRow(s) => r = s
  /\ \A f, r : FunnelRow(f) # RequestRow(r)
BY DEF FunnelRow, RequestRow

\* A transaction that stands at "idle" claims nothing.
IdlesOK == \A p \in Sessions : pc[p] = "idle" /\ tx[p] = NoTx => SessionOK(p)

LEMMA IdleOK == IdlesOK
<1> SUFFICES ASSUME NEW p \in Sessions, pc[p] = "idle", tx[p] = NoTx
             PROVE  SessionOK(p)
  BY DEF IdlesOK
<1>1. tx[p].kind = "none"
  BY NoTxTyped
<1> QED BY <1>1
        DEF SessionOK, Path, FunnelHeld, Gated, Cleared, Routed, Asked, Claimed,
            Checked, Informed, Edits, Advances, Approves

\* What a session sees of a step of another one: nothing it has locked changes.
Undisturbed(q) ==
  /\ pc'[q] = pc[q] /\ tx'[q] = tx[q] /\ held'[q] = held[q] /\ eligible' = eligible
  /\ \A r \in DOMAIN requests :
       /\ r \in DOMAIN requests'
       /\ requests'[r].funnel = requests[r].funnel
       /\ requests'[r].from = requests[r].from /\ requests'[r].to = requests[r].to
       /\ requests'[r].requester = requests[r].requester
       /\ RequestRow(r) \in held[q] => requests'[r].status = requests[r].status
  /\ \A r \in Pending' : r \in Pending \/ FunnelRow(requests'[r].funnel) \notin held[q]
  /\ \A f \in Funnels :
       FunnelRow(f) \in held[q] =>
         funnel'[f] = funnel[f] /\ container'.info = container.info

LEMMA UndisturbedOK ==
  ASSUME SessionsTyped, NEW q \in Sessions, SessionOK(q), Undisturbed(q)
  PROVE  SessionOK(q)'
<1> DEFINE f == tx[q].funnel
           r == tx[q].request
<1>1. /\ pc'[q] = pc[q] /\ tx'[q] = tx[q] /\ held'[q] = held[q]
      /\ eligible' = eligible /\ f \in Funnels
  BY Types DEF Undisturbed
<1>2. FunnelRow(f) \in held[q] =>
        funnel'[f] = funnel[f] /\ InfoOf(f)' = InfoOf(f)
  BY <1>1 DEF Undisturbed, InfoOf
<1>3. FunnelRow(f) \in held[q] => PendingOf(f)' \subseteq PendingOf(f)
  <2> SUFFICES ASSUME FunnelRow(f) \in held[q], NEW s \in PendingOf(f)'
               PROVE  s \in PendingOf(f)
    OBVIOUS
  <2>1. s \in Pending' /\ requests'[s].funnel = f
    BY <1>1 DEF PendingOf
  <2>2. s \in Pending
    BY <2>1 DEF Undisturbed
  <2>3. requests[s].funnel = f
    BY <2>1, <2>2 DEF Undisturbed, Pending
  <2> QED BY <2>2, <2>3 DEF PendingOf
<1>4. \A k, points : /\ Advances(q, points)' <=> Advances(q, points)
                     /\ Approves(q, points)' <=> Approves(q, points)
  BY <1>1 DEF Advances, Approves
<1>5. FunnelHeld(q)'
  <2> HIDE DEF f
  <2> QED BY <1>1, <1>2 DEF SessionOK, FunnelHeld, Advances, Approves, f
<1>6. Gated(q)'
  <2>1. Advances(q, {"route", "cancelPending", "queue", "insert", "lockContainer",
                     "move"}) => FunnelRow(f) \in held[q]
    BY DEF SessionOK, FunnelHeld, Advances
  <2> QED BY <1>1, <1>2, <2>1 DEF SessionOK, Gated, Advances
<1>7. Cleared(q)'
  <2>1. Advances(q, {"lockContainer", "move"}) => FunnelRow(f) \in held[q]
    BY DEF SessionOK, FunnelHeld, Advances
  <2> QED BY <1>1, <1>3, <2>1 DEF SessionOK, Cleared, Advances
<1>8. Routed(q)'
  <2>1. Advances(q, {"insert"}) => FunnelRow(f) \in held[q]
    BY DEF SessionOK, FunnelHeld, Advances
  <2>2. FunnelRow(f) \in held[q] => Reusable(q)' \subseteq Reusable(q)
    <3> SUFFICES ASSUME FunnelRow(f) \in held[q], NEW s \in Reusable(q)'
                 PROVE  s \in Reusable(q)
      OBVIOUS
    <3>1. s \in PendingOf(f) /\ requests'[s].to = tx[q].target
      BY <1>1, <1>3 DEF Reusable
    <3>2. requests[s].to = tx[q].target
      BY <3>1 DEF PendingOf, Pending, Undisturbed
    <3> QED BY <3>1, <3>2 DEF Reusable
  <2> QED BY <1>1, <2>1, <2>2 DEF SessionOK, Routed, Advances
<1>9. Asked(q)'
  BY <1>1 DEF SessionOK, Asked, Undisturbed
<1>10. Claimed(q)'
  <2> SUFFICES ASSUME pc[q] = "check" \/ Approves(q, {"lockContainer", "decide", "move"})
               PROVE  /\ RequestRow(r) \in held[q] /\ r \in Pending'
                      /\ FindManagerApprover(requests'[r].requester, eligible)
                           \in tx[q].standing
    BY <1>1 DEF Claimed, Approves
  <2>1. /\ RequestRow(r) \in held[q] /\ r \in Pending
        /\ FindManagerApprover(requests[r].requester, eligible) \in tx[q].standing
    BY DEF SessionOK, Claimed
  <2>2. /\ r \in DOMAIN requests' /\ requests'[r].status = "pending"
        /\ requests'[r].requester = requests[r].requester
    BY <2>1 DEF Undisturbed, Pending
  <2> QED BY <2>1, <2>2 DEF Pending
<1>11. Checked(q)'
  <2> SUFFICES ASSUME Approves(q, {"lockContainer", "decide", "move"})
               PROVE  /\ requests'[r].from = requests[r].from
                      /\ requests'[r].requester = requests[r].requester
    BY <1>1 DEF SessionOK, Checked, Approves
  <2>1. r \in DOMAIN requests
    BY DEF SessionOK, Claimed, Pending
  <2> QED BY <2>1 DEF Undisturbed
<1>12. Informed(q)'
  <2>1. Approves(q, {"move"}) => FunnelRow(f) \in held[q]
    BY DEF SessionOK, FunnelHeld, Approves
  <2> QED BY <1>1, <1>2, <2>1 DEF SessionOK, Informed, Approves
<1>13. Edits(q)' /\ pc'[q] \in Path(tx'[q].kind)
  BY <1>1 DEF SessionOK, Edits
<1> QED BY <1>5, <1>6, <1>7, <1>8, <1>9, <1>10, <1>11, <1>12, <1>13 DEF SessionOK

\* A step that leaves the rows alone disturbs nobody.
LEMMA RowsKept ==
  ASSUME RowsOK, UNCHANGED rows PROVE RowsOK'
<1>1. /\ funnel' = funnel /\ container' = container /\ codes' = codes
      /\ requests' = requests /\ history' = history
  BY DEF rows
<1>2. RowsTyped' /\ HistoryChains' /\ HistoryRefers'
  BY <1>1 DEF RowsOK, RowsTyped, HistoryChains, HistoryRefers
<1>3. ApprovedMovesOnce' /\ OnePendingPerTarget'
  BY <1>1 DEF RowsOK, ApprovedMovesOnce, MovesFor, OnePendingPerTarget, Pending
<1> QED BY <1>2, <1>3 DEF RowsOK

LEMMA RowsSeen ==
  ASSUME UNCHANGED <<rows, eligible>>, NEW q \in Sessions,
         pc'[q] = pc[q], tx'[q] = tx[q], held'[q] = held[q]
  PROVE  Undisturbed(q)
BY DEF rows, Undisturbed, Pending

\* A step of p inside its transaction.
LEMMA LocalStep ==
  ASSUME FunnelInv, NEW p \in Sessions, UNCHANGED <<rows, eligible>>,
         started' \in Nat, changes' \in Nat,
         NEW x \in ControlPoint, NEW t \in Tx, NEW h \in SUBSET Rows,
         pc' = [pc EXCEPT ![p] = x], tx' = [tx EXCEPT ![p] = t],
         held' = [held EXCEPT ![p] = h],
         \A q \in Sessions \ {p} : h \cap held[q] = {},
         pc'[p] = x /\ tx'[p] = t /\ held'[p] = h => SessionOK(p)'
  PROVE  FunnelInv'
<1>1. SessionsTyped /\ LocksOK /\ RowsOK
  BY DEF FunnelInv
<1>2. /\ pc'[p] = x /\ tx'[p] = t /\ held'[p] = h
      /\ \A q \in Sessions \ {p} :
           pc'[q] = pc[q] /\ tx'[q] = tx[q] /\ held'[q] = held[q]
  BY <1>1 DEF SessionsTyped
<1>3. SessionsTyped'
  BY <1>1 DEF SessionsTyped
<1>4. LocksOK'
  BY <1>1, <1>2 DEF LocksOK
<1>5. ASSUME NEW q \in Sessions \ {p} PROVE SessionOK(q)'
  BY <1>1, <1>2, RowsSeen, UndisturbedOK DEF FunnelInv
<1>6. RowsOK'
  BY <1>1, RowsKept
<1> QED BY <1>2, <1>3, <1>4, <1>5, <1>6 DEF FunnelInv

\* A step that ends the transaction of p.
LEMMA EndStep ==
  ASSUME FunnelInv, NEW p \in Sessions, End(p), eligible' = eligible,
         started' \in Nat, changes' \in Nat, RowsOK',
         \A q \in Sessions \ {p} :
           pc'[q] = pc[q] /\ tx'[q] = tx[q] /\ held'[q] = held[q] => Undisturbed(q)
  PROVE  FunnelInv'
<1>1. SessionsTyped /\ LocksOK
  BY DEF FunnelInv
<1>2. /\ pc'[p] = "idle" /\ tx'[p] = NoTx /\ held'[p] = {}
      /\ \A q \in Sessions \ {p} :
           pc'[q] = pc[q] /\ tx'[q] = tx[q] /\ held'[q] = held[q]
  BY <1>1 DEF SessionsTyped, End
<1>3. SessionsTyped'
  BY <1>1, NoTxTyped DEF SessionsTyped, End, ControlPoint
<1>4. LocksOK'
  BY <1>1, <1>2 DEF LocksOK
<1>5. ASSUME NEW q \in Sessions \ {p} PROVE SessionOK(q)'
  BY <1>1, <1>2, UndisturbedOK DEF FunnelInv
<1>6. SessionOK(p)'
  <2>1. IdlesOK'
    BY IdleOK, PTL
  <2> QED BY <1>2, <2>1 DEF IdlesOK
<1> QED BY <1>3, <1>4, <1>5, <1>6 DEF FunnelInv

LEMMA AbortStep ==
  ASSUME FunnelInv, NEW p \in Sessions, End(p), UNCHANGED rows, Still
  PROVE  FunnelInv'
<1>1. eligible' = eligible /\ started' \in Nat /\ changes' \in Nat /\ RowsOK'
  BY RowsKept DEF Still, FunnelInv, SessionsTyped
<1> QED BY <1>1, EndStep, RowsSeen

-----------------------------------------------------------------------------
(* Steps inside a transaction.                                             *)

LEMMA Paths ==
  /\ Path("none") = {"idle"}
  /\ Path("advance") = {"lockFunnel", "gate", "route", "cancelPending", "queue",
                        "insert", "lockContainer", "move"}
  /\ Path("approve") = {"begin", "lockFunnel", "lockRequest", "check",
                        "lockContainer", "decide", "move"}
  /\ Path("reject") = {"lockRequest", "check"}
  /\ Path("cancel") = {"begin", "cancelOwn"}
  /\ Path("edit") = {"lockContainer", "lockFunnels", "edit"}
  /\ Path("cascade") = {"lockContainer", "lockFunnels", "closeRequests"}
BY DEF Path

\* What each control point is for.
LEMMA Places ==
  ASSUME FunnelInv, NEW p \in Sessions
  PROVE  /\ tx[p].kind = "none" <=> pc[p] = "idle"
         /\ pc[p] = "lockFunnel" => tx[p].kind \in {"advance", "approve"}
         /\ pc[p] \in {"gate", "route", "cancelPending", "queue", "insert"} =>
              tx[p].kind = "advance"
         /\ pc[p] = "move" => tx[p].kind \in {"advance", "approve"}
         /\ pc[p] = "begin" => tx[p].kind \in {"approve", "cancel"}
         /\ pc[p] \in {"lockRequest", "check"} => tx[p].kind \in {"approve", "reject"}
         /\ pc[p] = "decide" => tx[p].kind = "approve"
         /\ pc[p] = "lockContainer" =>
              tx[p].kind \in {"advance", "approve", "edit", "cascade"}
         /\ pc[p] = "lockFunnels" => tx[p].kind \in {"edit", "cascade"}
         /\ pc[p] = "cancelOwn" => tx[p].kind = "cancel"
         /\ pc[p] = "edit" => tx[p].kind = "edit"
         /\ pc[p] = "closeRequests" => tx[p].kind = "cascade"
<1>1. /\ pc[p] \in Path(tx[p].kind)
      /\ tx[p].kind \in {"none", "advance", "approve", "reject", "cancel", "edit",
                         "cascade"}
  BY Types DEF FunnelInv, SessionOK
<1> QED BY <1>1, Paths

LEMMA Frames ==
  ASSUME FunnelInv, NEW p \in Sessions
  PROVE  /\ tx = [tx EXCEPT ![p] = tx[p]] /\ held = [held EXCEPT ![p] = held[p]]
         /\ held[p] \in SUBSET Rows /\ tx[p] \in Tx
         /\ \A q \in Sessions \ {p} : held[p] \cap held[q] = {}
         /\ SessionOK(p) /\ RowsOK /\ RowsTyped /\ SessionsTyped
         /\ started \in Nat /\ changes \in Nat
BY DEF FunnelInv, RowsOK, SessionsTyped, LocksOK

LEMMA RowsSame ==
  ASSUME UNCHANGED <<rows, eligible>>
  PROVE  /\ funnel' = funnel /\ container' = container /\ requests' = requests
         /\ Pending' = Pending
         /\ \A f : InfoOf(f)' = InfoOf(f) /\ PendingOf(f)' = PendingOf(f)
BY DEF rows, Pending, PendingOf, InfoOf

LEMMA Locking ==
  ASSUME FunnelInv, NEW p \in Sessions, CanLock(p)
  PROVE  /\ held[p] \cup Wants(p) \in SUBSET Rows
         /\ \A q \in Sessions \ {p} : (held[p] \cup Wants(p)) \cap held[q] = {}
<1>1. Wants(p) \subseteq Rows
  BY WantsRows, Frames
<1>2. \A q \in Sessions \ {p} : Wants(p) \cap held[q] = {}
  BY DEF CanLock, Blocks
<1> QED BY <1>1, <1>2, Frames

LEMMA StartStep ==
  ASSUME FunnelInv, NEW p \in Sessions, NEW first \in ControlPoint, NEW locals \in Tx,
         Start(p, first, locals),
         first \in {"begin", "lockFunnel", "lockRequest", "lockContainer"},
         first \in Path(locals.kind),
         first = "lockRequest" => locals.kind = "reject",
         first = "lockContainer" => locals.kind \in {"edit", "cascade"},
         locals.kind \in {"approve", "reject", "cancel"} =>
           /\ locals.request \in DOMAIN requests
           /\ requests[locals.request].funnel = locals.funnel
           /\ requests[locals.request].to = locals.target
           /\ ~locals.kanban /\ locals.fill = {}
  PROVE  FunnelInv'
<1>1. /\ UNCHANGED <<rows, eligible>> /\ started' \in Nat /\ changes' \in Nat
      /\ pc' = [pc EXCEPT ![p] = first] /\ tx' = [tx EXCEPT ![p] = locals]
      /\ held' = [held EXCEPT ![p] = held[p]]
  BY Frames DEF Start, Goto
<1>2. ASSUME pc'[p] = first, tx'[p] = locals PROVE SessionOK(p)'
  BY <1>1, <1>2, RowsSame
  DEF SessionOK, FunnelHeld, Gated, Cleared, Routed, Asked, Claimed, Checked,
      Informed, Edits, Advances, Approves
<1> QED BY <1>1, <1>2, Frames, LocalStep

LEMMA StartAdvanceStep ==
  ASSUME FunnelInv, NEW p \in Sessions, StartAdvance(p) PROVE FunnelInv'
<1>1. PICK m \in Members, f \in Funnels, t \in Stages, new \in SUBSET CustomKeys,
           k \in Operations \cap {"advance", "kanban"} :
        Start(p, "lockFunnel",
          [NoTx EXCEPT !.kind = "advance", !.member = m, !.can = m \in eligible,
                       !.funnel = f, !.target = t, !.kanban = (k = "kanban"),
                       !.fill = new])
  BY DEF StartAdvance
<1> DEFINE can == m \in eligible
           kanban == (k = "kanban")
           locals == [NoTx EXCEPT !.kind = "advance", !.member = m, !.can = can,
                        !.funnel = f, !.target = t, !.kanban = kanban, !.fill = new]
<1>a. can \in BOOLEAN /\ kanban \in BOOLEAN
  OBVIOUS
<1> HIDE DEF can, kanban
<1>2. locals \in Tx /\ locals.kind = "advance"
  BY <1>a, NoTxTyped DEF Tx
<1> HIDE DEF locals
<1>3. Start(p, "lockFunnel", locals)
  BY <1>1 DEF locals, can, kanban
<1> QED BY <1>2, <1>3, Paths, StartStep DEF ControlPoint

LEMMA StartDecisionStep ==
  ASSUME FunnelInv, NEW p \in Sessions, StartDecision(p) PROVE FunnelInv'
<1>1. PICK m \in Members, r \in DOMAIN requests,
           k \in Operations \cap {"approve", "reject", "cancel"} :
        Start(p, IF k = "reject" THEN "lockRequest" ELSE "begin",
          [NoTx EXCEPT !.kind = k, !.member = m, !.can = m \in eligible,
                       !.request = r, !.funnel = requests[r].funnel,
                       !.target = requests[r].to])
  BY DEF StartDecision
<1> DEFINE can == m \in eligible
           locals == [NoTx EXCEPT !.kind = k, !.member = m, !.can = can,
                        !.request = r, !.funnel = requests[r].funnel,
                        !.target = requests[r].to]
           first == IF k = "reject" THEN "lockRequest" ELSE "begin"
<1>2. /\ r \in Nat /\ requests[r].funnel \in Funnels /\ requests[r].to \in Stages
  BY RequestTypes, Frames
<1>a. can \in BOOLEAN
  OBVIOUS
<1> HIDE DEF can
<1>3. /\ locals \in Tx /\ locals.kind = k /\ locals.request = r
      /\ locals.funnel = requests[r].funnel /\ locals.target = requests[r].to
      /\ locals.kanban = FALSE /\ locals.fill = {}
  BY <1>2, <1>a, NoTxTyped DEF Tx
<1>4. /\ first \in Path(k) /\ first \in {"begin", "lockRequest"}
      /\ first = "lockRequest" => k = "reject"
      /\ first \in ControlPoint
  BY Paths DEF ControlPoint
<1> HIDE DEF locals, first
<1>5. Start(p, first, locals)
  BY <1>1 DEF locals, first, can
<1> QED BY <1>3, <1>4, <1>5, StartStep

LEMMA StartContainerStep ==
  ASSUME FunnelInv, NEW p \in Sessions, StartContainer(p) PROVE FunnelInv'
<1>1. PICK k \in {"edit", "cascade"} :
        Start(p, "lockContainer", [NoTx EXCEPT !.kind = k])
  BY DEF StartContainer
<1> DEFINE locals == [NoTx EXCEPT !.kind = k]
<1>2. locals \in Tx /\ locals.kind = k
  BY NoTxTyped DEF Tx
<1> HIDE DEF locals
<1>3. Start(p, "lockContainer", locals)
  BY <1>1 DEF locals
<1> QED BY <1>2, <1>3, Paths, StartStep DEF ControlPoint

LEMMA LockFunnelStep ==
  ASSUME FunnelInv, NEW p \in Sessions, LockFunnel(p) PROVE FunnelInv'
<1> DEFINE x == IF tx[p].kind = "advance" THEN "gate" ELSE "lockRequest"
           h == held[p] \cup Wants(p)
           v == funnel[tx[p].funnel].stage
           t == [tx[p] EXCEPT !.from = v]
<1>1. /\ pc[p] = "lockFunnel" /\ CanLock(p) /\ UNCHANGED <<rows, eligible>>
      /\ started' \in Nat /\ changes' \in Nat
      /\ pc' = [pc EXCEPT ![p] = x] /\ held' = [held EXCEPT ![p] = h]
      /\ tx' = [tx EXCEPT ![p] = t]
  BY Frames DEF LockFunnel, At, Acquire, Goto, Still
<1>2. /\ tx[p].kind \in {"advance", "approve"} /\ tx[p].funnel \in Funnels
      /\ tx[p] \in Tx
  BY <1>1, Places, Types, Frames
<1>3. FunnelRow(tx[p].funnel) \in h
  BY <1>1 DEF Wants, FunnelLock
<1>4. v \in Stages
  BY <1>2, Frames DEF RowsTyped
<1>5. /\ t \in Tx /\ t.kind = tx[p].kind /\ t.from = v /\ t.funnel = tx[p].funnel
      /\ t.request = tx[p].request /\ t.target = tx[p].target
      /\ t.kanban = tx[p].kanban /\ t.fill = tx[p].fill
  BY <1>2, <1>4 DEF Tx
<1>6. x \in ControlPoint /\ x \in Path(tx[p].kind) /\ x \in {"gate", "lockRequest"}
  BY <1>2, Paths DEF ControlPoint
<1>7. Asked(p)
  BY Frames DEF SessionOK
<1> HIDE DEF x, h, t
<1>8. ASSUME pc'[p] = x, tx'[p] = t, held'[p] = h PROVE SessionOK(p)'
  <2>1. Asked(p)'
    BY <1>1, <1>5, <1>7, <1>8, RowsSame DEF Asked
  <2>2. FunnelHeld(p)'
    BY <1>1, <1>3, <1>5, <1>8, RowsSame DEF FunnelHeld
  <2> QED BY <1>1, <1>2, <1>5, <1>6, <1>8, <2>1, <2>2
          DEF SessionOK, Gated, Cleared, Routed, Claimed, Checked, Informed, Edits,
              Advances, Approves
<1> QED BY <1>1, <1>5, <1>6, <1>8, Locking, LocalStep DEF h

\* A session that only goes on, perhaps with more locks.
LEMMA GoOn ==
  ASSUME FunnelInv, NEW p \in Sessions, UNCHANGED <<rows, eligible, tx>>,
         started' \in Nat, changes' \in Nat, NEW x \in ControlPoint,
         Goto(p, x),
         \/ held' = held
         \/ CanLock(p) /\ held' = [held EXCEPT ![p] = @ \cup Wants(p)],
         x \in Path(tx[p].kind) \ {"check"},
         tx[p].kind = "approve" =>
           x = "lockFunnel" \/ pc[p] \in {"check", "lockContainer", "decide"},
         tx[p].kind = "advance" => pc[p] # "lockFunnel",
         pc'[p] = x => Gated(p)' /\ Cleared(p)' /\ Routed(p)' /\ Checked(p)'
                         /\ Informed(p)' /\ Edits(p)'
  PROVE  FunnelInv'
<1>1. PICK h \in SUBSET Rows :
        /\ held' = [held EXCEPT ![p] = h] /\ held[p] \subseteq h
        /\ \A q \in Sessions \ {p} : h \cap held[q] = {}
  <2>1. CASE held' = held
    BY <2>1, Frames
  <2>2. CASE CanLock(p) /\ held' = [held EXCEPT ![p] = @ \cup Wants(p)]
    BY <2>2, Locking
  <2> QED BY <2>1, <2>2
<1>2. /\ tx[p].kind \in {"none", "advance", "approve", "reject", "cancel", "edit",
                         "cascade"}
      /\ pc[p] \in Path(tx[p].kind) /\ SessionOK(p)
  BY Types, Frames DEF SessionOK
<1>3. ASSUME pc'[p] = x, held'[p] = h PROVE SessionOK(p)'
  <2>1. Gated(p)' /\ Cleared(p)' /\ Routed(p)' /\ Checked(p)' /\ Informed(p)' /\ Edits(p)'
    BY <1>3
  <2>2. Asked(p)'
    BY <1>2, RowsSame DEF SessionOK, Asked
  <2>3. FunnelHeld(p)'
    <3>1. /\ Advances(p, {"gate", "route", "cancelPending", "queue", "insert",
                          "lockContainer", "move"})'
          => Advances(p, {"gate", "route", "cancelPending", "queue", "insert",
                          "lockContainer", "move"})
      BY <1>2, <1>3, Paths DEF Advances
    <3>2. Approves(p, {"lockRequest", "check", "lockContainer", "decide", "move"})'
          => Approves(p, {"lockRequest", "check", "lockContainer", "decide", "move"})
      BY <1>2, <1>3, Paths DEF Approves
    <3> QED BY <1>1, <1>2, <1>3, <3>1, <3>2, RowsSame DEF SessionOK, FunnelHeld
  <2>4. Claimed(p)'
    <3>1. x # "check"
      OBVIOUS
    <3>2. Approves(p, {"lockContainer", "decide", "move"})'
          => pc[p] = "check" \/ Approves(p, {"lockContainer", "decide", "move"})
      BY <1>2, <1>3, Paths DEF Approves
    <3> QED BY <1>1, <1>2, <1>3, <3>1, <3>2, RowsSame DEF SessionOK, Claimed
  <2> QED BY <1>3, <2>1, <2>2, <2>3, <2>4 DEF SessionOK
<1> QED BY <1>1, <1>3, Frames, LocalStep DEF Goto

LEMMA GateStep ==
  ASSUME FunnelInv, NEW p \in Sessions, Gate(p) PROVE FunnelInv'
<1>1. pc[p] = "gate" /\ tx[p].kind = "advance" /\ UNCHANGED rows /\ Still
  BY Places DEF Gate, At
<1>2. CASE End(p)
  BY <1>1, <1>2, AbortStep
<1>3. CASE /\ CanTransition(tx[p].from, tx[p].target)
           /\ Missing(tx[p].from, tx[p].target, tx[p].kanban,
                      InfoOf(tx[p].funnel) \cup tx[p].fill) = {}
           /\ Goto(p, "route") /\ UNCHANGED <<held, tx>>
  <2>1. /\ UNCHANGED <<rows, eligible, tx>> /\ started' \in Nat /\ changes' \in Nat
    BY <1>1, <1>3, Frames DEF Still
  <2>2. "route" \in ControlPoint /\ "route" \in Path("advance") \ {"check"}
    BY Paths DEF ControlPoint
  <2>3. ASSUME pc'[p] = "route"
        PROVE  Gated(p)' /\ Cleared(p)' /\ Routed(p)' /\ Checked(p)'
                 /\ Informed(p)' /\ Edits(p)'
    BY <1>1, <1>3, <2>1, <2>3, RowsSame
    DEF Gated, Cleared, Routed, Checked, Informed, Edits, Advances, Approves
  <2> QED BY <1>1, <1>3, <2>1, <2>2, <2>3, GoOn
<1> QED BY <1>2, <1>3 DEF Gate

LEMMA RouteStep ==
  ASSUME FunnelInv, NEW p \in Sessions, Route(p) PROVE FunnelInv'
<1>1. /\ pc[p] = "route" /\ tx[p].kind = "advance" /\ UNCHANGED rows /\ Still
      /\ UNCHANGED <<rows, eligible>> /\ started' \in Nat /\ changes' \in Nat
      /\ Gated(p) /\ FunnelHeld(p) /\ SessionOK(p)
  BY Places, Frames DEF Route, At, Still, SessionOK
<1> DEFINE a == FindManagerApprover(tx[p].member, eligible)
           t == [tx[p] EXCEPT !.approver = a]
<1>2. CASE End(p)
  BY <1>1, <1>2, AbortStep
<1>3. CASE Goto(p, "cancelPending") /\ UNCHANGED <<held, tx>>
  <2>1. "cancelPending" \in ControlPoint /\ "cancelPending" \in Path("advance") \ {"check"}
    BY Paths DEF ControlPoint
  <2>2. ASSUME pc'[p] = "cancelPending"
        PROVE  Gated(p)' /\ Cleared(p)' /\ Routed(p)' /\ Checked(p)'
                 /\ Informed(p)' /\ Edits(p)'
    BY <1>1, <1>3, <2>2, RowsSame
    DEF Gated, Cleared, Routed, Checked, Informed, Edits, Advances, Approves
  <2> QED BY <1>1, <1>3, <2>1, <2>2, GoOn
<1>4. CASE a # Nobody /\ Goto(p, "queue") /\ tx' = [tx EXCEPT ![p].approver = a]
           /\ UNCHANGED held
  <2>1. a \in Members
    <3>1. a \in (eligible \ {tx[p].member}) \cup {Nobody}
      BY ApproverFound
    <3> QED BY <1>4, <3>1, Frames DEF SessionsTyped
  <2> HIDE DEF a
  <2>2. /\ t \in Tx /\ t.kind = "advance" /\ t.from = tx[p].from
        /\ t.funnel = tx[p].funnel /\ t.target = tx[p].target
        /\ t.kanban = tx[p].kanban /\ t.fill = tx[p].fill /\ t.approver = a
    BY <1>1, <2>1, Frames DEF Tx
  <2>3. tx' = [tx EXCEPT ![p] = t]
    BY <1>4
  <2> HIDE DEF t
  <2>4. ASSUME pc'[p] = "queue", tx'[p] = t, held'[p] = held[p] PROVE SessionOK(p)'
    <3>1. FunnelHeld(p)' /\ Gated(p)'
      BY <1>1, <2>2, <2>4, RowsSame DEF FunnelHeld, Gated, Advances, Approves
    <3> QED BY <1>1, <2>1, <2>2, <2>4, <3>1, Paths
            DEF SessionOK, Cleared, Routed, Asked, Claimed, Checked, Informed,
                Edits, Advances, Approves
  <2>5. "queue" \in ControlPoint /\ held' = [held EXCEPT ![p] = held[p]]
    BY <1>4, Frames DEF ControlPoint
  <2> QED BY <1>1, <1>4, <2>2, <2>3, <2>4, <2>5, Frames, LocalStep DEF Goto
<1> QED BY <1>2, <1>3, <1>4 DEF Route

LEMMA CancelPendingStep ==
  ASSUME FunnelInv, NEW p \in Sessions, CancelPending(p) PROVE FunnelInv'
<1> DEFINE x == IF Pipeline[tx[p].target].allocates THEN "lockContainer" ELSE "move"
<1>1. /\ pc[p] = "cancelPending" /\ tx[p].kind = "advance"
      /\ UNCHANGED <<rows, eligible, tx>> /\ started' \in Nat /\ changes' \in Nat
      /\ CanLock(p) /\ held' = [held EXCEPT ![p] = @ \cup Wants(p)] /\ Goto(p, x)
      /\ SessionOK(p)
  BY Places, Frames DEF CancelPending, At, Still, Acquire
<1>2. x \in {"lockContainer", "move"}
  OBVIOUS
<1>3. x \in ControlPoint /\ x \in Path("advance") \ {"check"}
  BY Paths DEF ControlPoint
<1> HIDE DEF x
<1>4. ASSUME pc'[p] = x
      PROVE  Gated(p)' /\ Cleared(p)' /\ Routed(p)' /\ Checked(p)'
               /\ Informed(p)' /\ Edits(p)'
  <2>1. Gated(p)'
    BY <1>1, <1>2, <1>4, RowsSame DEF SessionOK, Gated, Advances
  <2>2. Cleared(p)'
    <3>1. \A r \in PendingOf(tx[p].funnel) : RequestRow(r) \in Wants(p)
      BY <1>1 DEF Wants
    <3>2. held'[p] = held[p] \cup Wants(p)
      BY <1>1, Frames DEF SessionsTyped
    <3> QED BY <1>1, <3>1, <3>2, RowsSame DEF Cleared
  <2> QED BY <1>1, <1>2, <1>4, <2>1, <2>2
          DEF Routed, Checked, Informed, Edits, Advances, Approves
<1> QED BY <1>1, <1>3, <1>4, GoOn

LEMMA LockContainerStep ==
  ASSUME FunnelInv, NEW p \in Sessions, LockContainer(p) PROVE FunnelInv'
<1> DEFINE x == CASE tx[p].kind = "advance" -> "move"
                  [] tx[p].kind = "approve" -> "decide"
                  [] OTHER -> "lockFunnels"
<1>1. /\ pc[p] = "lockContainer" /\ tx[p].kind \in {"advance", "approve", "edit", "cascade"}
      /\ UNCHANGED <<rows, eligible, tx>> /\ started' \in Nat /\ changes' \in Nat
      /\ CanLock(p) /\ held' = [held EXCEPT ![p] = @ \cup Wants(p)] /\ Goto(p, x)
      /\ SessionOK(p)
  BY Places, Frames DEF LockContainer, At, Still, Acquire
<1>2. /\ tx[p].kind = "advance" => x = "move"
      /\ tx[p].kind = "approve" => x = "decide"
      /\ tx[p].kind \in {"edit", "cascade"} => x = "lockFunnels"
  OBVIOUS
<1> HIDE DEF x
<1>3. x \in ControlPoint /\ x \in Path(tx[p].kind) \ {"check"}
  BY <1>1, <1>2, Paths DEF ControlPoint
<1>4. held[p] \subseteq held'[p]
  BY <1>1, Frames DEF SessionsTyped
<1>5. ASSUME pc'[p] = x
      PROVE  Gated(p)' /\ Cleared(p)' /\ Routed(p)' /\ Checked(p)'
               /\ Informed(p)' /\ Edits(p)'
  <2>1. Gated(p)' /\ Cleared(p)'
    BY <1>1, <1>2, <1>4, <1>5, RowsSame DEF SessionOK, Gated, Cleared, Advances
  <2>2. Checked(p)'
    BY <1>1, <1>2, <1>5, RowsSame DEF SessionOK, Checked, Approves
  <2> QED BY <1>1, <1>2, <1>5, <2>1, <2>2
          DEF Routed, Informed, Edits, Advances, Approves
<1> QED BY <1>1, <1>3, <1>5, GoOn

\* No request can be reused: the transaction goes on to insert one.
LEMMA NotFoundStep ==
  ASSUME FunnelInv, NEW p \in Sessions, pc[p] = "queue", Reusable(p) = {},
         Goto(p, "insert"), UNCHANGED <<rows, held, tx>>, Still
  PROVE  FunnelInv'
<1>1. /\ tx[p].kind = "advance" /\ SessionOK(p)
      /\ UNCHANGED <<rows, eligible, tx>> /\ started' \in Nat /\ changes' \in Nat
  BY Places, Frames DEF Still
<1>2. "insert" \in ControlPoint /\ "insert" \in Path("advance") \ {"check"}
  BY Paths DEF ControlPoint
<1>3. ASSUME pc'[p] = "insert"
      PROVE  Gated(p)' /\ Cleared(p)' /\ Routed(p)' /\ Checked(p)'
               /\ Informed(p)' /\ Edits(p)'
  <2>1. Gated(p)'
    BY <1>1, <1>3, RowsSame DEF SessionOK, Gated, Advances
  <2>2. Routed(p)'
    BY <1>1, <1>3, RowsSame DEF SessionOK, Routed, Reusable, Advances
  <2> QED BY <1>1, <1>3, <2>1, <2>2
          DEF Cleared, Checked, Informed, Edits, Advances, Approves
<1> QED BY <1>1, <1>2, <1>3, GoOn

LEMMA BeginStep ==
  ASSUME FunnelInv, NEW p \in Sessions, Begin(p) PROVE FunnelInv'
<1>1. /\ pc[p] = "begin" /\ UNCHANGED rows /\ Still /\ SessionOK(p)
      /\ UNCHANGED <<rows, eligible>> /\ started' \in Nat /\ changes' \in Nat
  BY Frames DEF Begin, At, Still
<1>2. CASE End(p)
  BY <1>1, <1>2, AbortStep
<1>3. ASSUME NEW x \in {"cancelOwn", "lockFunnel"}, Goto(p, x), UNCHANGED <<held, tx>>,
             x = "cancelOwn" => tx[p].kind = "cancel",
             x = "lockFunnel" => tx[p].kind = "approve"
      PROVE  FunnelInv'
  <2>1. x \in ControlPoint /\ x \in Path(tx[p].kind) \ {"check"}
    BY <1>3, Paths DEF ControlPoint
  <2>2. ASSUME pc'[p] = x
        PROVE  Gated(p)' /\ Cleared(p)' /\ Routed(p)' /\ Checked(p)'
                 /\ Informed(p)' /\ Edits(p)'
    BY <1>3, <2>2 DEF Gated, Cleared, Routed, Checked, Informed, Edits, Advances, Approves
  <2>3. UNCHANGED <<rows, eligible, tx>> /\ held' = held
    BY <1>1, <1>3
  <2>4. tx[p].kind # "advance"
    BY <1>3
  <2>5. tx[p].kind = "approve" => x = "lockFunnel"
    BY <1>3
  <2> QED BY <1>1, <1>3, <2>1, <2>2, <2>3, <2>4, <2>5, GoOn
<1>4. \/ End(p)
      \/ Goto(p, "cancelOwn") /\ tx[p].kind = "cancel" /\ UNCHANGED <<held, tx>>
      \/ Goto(p, "lockFunnel") /\ tx[p].kind = "approve" /\ UNCHANGED <<held, tx>>
  BY DEF Begin
<1> QED BY <1>2, <1>3, <1>4

LEMMA LockRequestStep ==
  ASSUME FunnelInv, NEW p \in Sessions, LockRequest(p) PROVE FunnelInv'
<1> DEFINE found == FindManagerApprover(requests[tx[p].request].requester, eligible)
           t == [tx[p] EXCEPT !.standing = {found}]
           h == held[p] \cup Wants(p)
<1>1. /\ pc[p] = "lockRequest" /\ tx[p].kind \in {"approve", "reject"}
      /\ CanLock(p) /\ UNCHANGED rows /\ Still
      /\ UNCHANGED <<rows, eligible>> /\ started' \in Nat /\ changes' \in Nat
      /\ SessionOK(p)
  BY Places, Frames DEF LockRequest, At, Still
<1>2. CASE End(p)
  BY <1>1, <1>2, AbortStep
<1>3. CASE /\ tx[p].request \in Pending /\ Acquire(p, "check")
           /\ tx' = [tx EXCEPT ![p].standing = {found}]
  <2>1. found \in Members \cup {Nobody}
    BY ApproverFound, Frames DEF SessionsTyped
  <2>2. found = FindManagerApprover(requests[tx[p].request].requester, eligible)
    OBVIOUS
  <2> HIDE DEF found
  <2>3. /\ t \in Tx /\ t.kind = tx[p].kind /\ t.from = tx[p].from
        /\ t.funnel = tx[p].funnel /\ t.target = tx[p].target
        /\ t.kanban = tx[p].kanban /\ t.fill = tx[p].fill
        /\ t.request = tx[p].request /\ t.standing = {found}
    BY <2>1, Frames DEF Tx
  <2>4. /\ tx' = [tx EXCEPT ![p] = t] /\ held' = [held EXCEPT ![p] = h]
        /\ pc' = [pc EXCEPT ![p] = "check"]
    BY <1>3 DEF Acquire, Goto
  <2>5. RequestRow(tx[p].request) \in h /\ held[p] \subseteq h
    BY <1>1 DEF Wants
  <2>6. "check" \in ControlPoint /\ "check" \in Path(tx[p].kind)
    BY <1>1, Paths DEF ControlPoint
  <2>7. h \in SUBSET Rows /\ \A q \in Sessions \ {p} : h \cap held[q] = {}
    BY <1>1, Locking
  <2> HIDE DEF t, h
  <2>8. ASSUME pc'[p] = "check", tx'[p] = t, held'[p] = h PROVE SessionOK(p)'
    <3>1. FunnelHeld(p)'
      BY <1>1, <2>3, <2>5, <2>8, RowsSame DEF SessionOK, FunnelHeld, Advances, Approves
    <3>2. Asked(p)'
      BY <1>1, <2>3, <2>8, RowsSame DEF SessionOK, Asked
    <3>3. Claimed(p)'
      BY <1>1, <1>3, <2>2, <2>3, <2>5, <2>8, RowsSame DEF Claimed
    <3> QED BY <1>1, <2>3, <2>6, <2>8, <3>1, <3>2, <3>3
            DEF SessionOK, Gated, Cleared, Routed, Checked, Informed, Edits,
                Advances, Approves
  <2> QED BY <1>1, <2>3, <2>4, <2>6, <2>7, <2>8, LocalStep
<1> QED BY <1>2, <1>3 DEF LockRequest

\* The approver is the present one and the request still fits the funnel.
LEMMA CheckedStep ==
  ASSUME FunnelInv, NEW p \in Sessions, pc[p] = "check", tx[p].kind = "approve",
         CurrentApprover(p), ~StaleTransition(p),
         Goto(p, "lockContainer"), UNCHANGED <<rows, held, tx>>, Still
  PROVE  FunnelInv'
<1>1. /\ SessionOK(p) /\ UNCHANGED <<rows, eligible, tx>>
      /\ started' \in Nat /\ changes' \in Nat
  BY Frames DEF Still
<1>2. /\ "lockContainer" \in ControlPoint
      /\ "lockContainer" \in Path("approve") \ {"check"}
  BY Paths DEF ControlPoint
<1>3. ASSUME pc'[p] = "lockContainer"
      PROVE  Gated(p)' /\ Cleared(p)' /\ Routed(p)' /\ Checked(p)'
               /\ Informed(p)' /\ Edits(p)'
  <2>1. /\ CanTransition(tx[p].from, tx[p].target)
        /\ requests[tx[p].request].from = tx[p].from
    BY DEF StaleTransition
  <2>2. /\ tx[p].member # requests[tx[p].request].requester
        /\ tx[p].member \in Superadmins \cup tx[p].standing
    BY <1>1 DEF SessionOK, Claimed, CurrentApprover, AssignedApprover
  <2>3. Checked(p)'
    BY <1>1, <2>1, <2>2, RowsSame DEF Checked
  <2> QED BY <1>1, <1>3, <2>3
          DEF Gated, Cleared, Routed, Informed, Edits, Advances, Approves
<1> QED BY <1>1, <1>2, <1>3, GoOn

LEMMA InformedStep ==
  ASSUME FunnelInv, NEW p \in Sessions, pc[p] = "decide", ApprovalMisses(p) = {},
         Goto(p, "move"), UNCHANGED <<rows, held, tx>>, Still
  PROVE  FunnelInv'
<1>1. /\ SessionOK(p) /\ UNCHANGED <<rows, eligible, tx>> /\ tx[p].kind = "approve"
      /\ started' \in Nat /\ changes' \in Nat
  BY Frames, Places DEF Still
<1>2. "move" \in ControlPoint /\ "move" \in Path("approve") \ {"check"}
  BY Paths DEF ControlPoint
<1>3. ASSUME pc'[p] = "move"
      PROVE  Gated(p)' /\ Cleared(p)' /\ Routed(p)' /\ Checked(p)'
               /\ Informed(p)' /\ Edits(p)'
  <2>1. Checked(p)'
    BY <1>1, RowsSame DEF SessionOK, Checked, Approves
  <2>2. Informed(p)'
    BY <1>1, RowsSame DEF Informed, ApprovalMisses
  <2> QED BY <1>1, <1>3, <2>1, <2>2
          DEF Gated, Cleared, Routed, Edits, Advances, Approves
<1> QED BY <1>1, <1>2, <1>3, GoOn

LEMMA LockFunnelsStep ==
  ASSUME FunnelInv, NEW p \in Sessions, LockFunnels(p) PROVE FunnelInv'
<1> DEFINE x == IF tx[p].kind = "edit" THEN "edit" ELSE "closeRequests"
<1>1. /\ pc[p] = "lockFunnels" /\ tx[p].kind \in {"edit", "cascade"}
      /\ UNCHANGED <<rows, eligible, tx>> /\ started' \in Nat /\ changes' \in Nat
      /\ CanLock(p) /\ held' = [held EXCEPT ![p] = @ \cup Wants(p)] /\ Goto(p, x)
  BY Places, Frames DEF LockFunnels, At, Still, Acquire
<1>2. x \in ControlPoint /\ x \in Path(tx[p].kind) \ {"check"}
  BY <1>1, Paths DEF ControlPoint
<1> HIDE DEF x
<1>3. ASSUME pc'[p] = x
      PROVE  Gated(p)' /\ Cleared(p)' /\ Routed(p)' /\ Checked(p)'
               /\ Informed(p)' /\ Edits(p)'
  <2>1. held'[p] = held[p] \cup Wants(p) /\ Wants(p) = ChildLocks
    BY <1>1, Frames DEF SessionsTyped, Wants
  <2>2. Edits(p)'
    BY <2>1 DEF Edits, ChildLocks
  <2> QED BY <1>1, <2>2
          DEF Gated, Cleared, Routed, Checked, Informed, Advances, Approves
<1> QED BY <1>1, <1>2, <1>3, GoOn

LEMMA CrashStep ==
  ASSUME FunnelInv, NEW p \in Sessions, Crash(p) PROVE FunnelInv'
BY AbortStep DEF Crash, Abort

\* A victim waits for a row, so it is inside a transaction; it begins anew.
LEMMA DeadlockVictimStep ==
  ASSUME FunnelInv, NEW p \in Sessions, DeadlockVictim(p) PROVE FunnelInv'
<1> DEFINE n == tx[p].tries + 1
           t == [tx[p] EXCEPT !.tries = n, !.standing = {}]
           x == First(tx[p].kind)
<1>1. /\ UNCHANGED rows /\ Still /\ SessionOK(p) /\ tx[p] \in Tx
      /\ UNCHANGED <<rows, eligible>> /\ started' \in Nat /\ changes' \in Nat
  BY Frames DEF DeadlockVictim, Still
<1>2. CASE End(p)
  BY <1>1, <1>2, AbortStep
<1>3. CASE /\ Goto(p, x) /\ held' = [held EXCEPT ![p] = {}]
           /\ tx' = [tx EXCEPT ![p].tries = @ + 1, ![p].standing = {}]
  <2>1. tx[p].kind # "none"
    <3>1. Wants(p) # {}
      BY DEF DeadlockVictim, Deadlocked, Blocks
    <3>2. pc[p] # "idle"
      BY <3>1 DEF Wants
    <3> QED BY <3>2, Places
  <2>2. n \in Nat
    BY Types, Frames
  <2> HIDE DEF n
  <2>3. /\ t \in Tx /\ t.kind = tx[p].kind /\ t.funnel = tx[p].funnel
        /\ t.target = tx[p].target /\ t.kanban = tx[p].kanban /\ t.fill = tx[p].fill
        /\ t.request = tx[p].request
    BY <1>1, <2>2 DEF Tx
  <2>4. tx' = [tx EXCEPT ![p] = t]
    BY <1>1, <1>3, Frames DEF n, SessionsTyped
  <2> HIDE DEF t
  <2>5. tx[p].kind \in {"advance", "approve", "reject", "cancel", "edit", "cascade"}
    BY <2>1, Types, Frames
  <2>6. /\ x \in Path(tx[p].kind)
        /\ x \in {"lockFunnel", "lockRequest", "begin", "lockContainer"}
        /\ tx[p].kind = "advance" => x = "lockFunnel"
        /\ tx[p].kind = "approve" => x = "begin"
    BY <2>5, Paths DEF First
  <2> HIDE DEF x
  <2>7. x \in ControlPoint /\ {} \in SUBSET Rows
    BY <2>6 DEF ControlPoint
  <2>8. ASSUME pc'[p] = x, tx'[p] = t, held'[p] = {} PROVE SessionOK(p)'
    <3>1. Asked(p)'
      BY <1>1, <2>3, <2>8, RowsSame DEF SessionOK, Asked
    <3> QED BY <2>3, <2>6, <2>8, <3>1
            DEF SessionOK, FunnelHeld, Gated, Cleared, Routed, Claimed, Checked,
                Informed, Edits, Advances, Approves
  <2> QED BY <1>1, <1>3, <2>3, <2>4, <2>7, <2>8, LocalStep DEF Goto
<1> QED BY <1>2, <1>3 DEF DeadlockVictim

-----------------------------------------------------------------------------
(* Requests are closed.                                                    *)

LEMMA Closing ==
  ASSUME RowsTyped, NEW some, some \subseteq Pending,
         NEW status \in {"approved", "rejected", "cancelled"}, Close(some, status)
  PROVE  /\ requests' \in Seq(Request) /\ DOMAIN requests' = DOMAIN requests
         /\ Len(requests') = Len(requests)
         /\ \A r \in DOMAIN requests :
              /\ requests'[r].funnel = requests[r].funnel
              /\ requests'[r].from = requests[r].from
              /\ requests'[r].to = requests[r].to
              /\ requests'[r].requester = requests[r].requester
              /\ r \in some => requests'[r].status = status
              /\ r \notin some => requests'[r] = requests[r]
         /\ Pending' = Pending \ some
<1>1. /\ Len(requests) \in Nat /\ DOMAIN requests = 1 .. Len(requests)
      /\ \A r \in DOMAIN requests : requests[r] \in Request
  BY RequestTypes
<1>2. \A r \in DOMAIN requests :
        /\ [requests[r] EXCEPT !.status = status] \in Request
        /\ [requests[r] EXCEPT !.status = status].status = status
        /\ [requests[r] EXCEPT !.status = status].funnel = requests[r].funnel
        /\ [requests[r] EXCEPT !.status = status].from = requests[r].from
        /\ [requests[r] EXCEPT !.status = status].to = requests[r].to
        /\ [requests[r] EXCEPT !.status = status].requester = requests[r].requester
  BY <1>1 DEF Request
<1> DEFINE Closed(r) == IF r \in some THEN [requests[r] EXCEPT !.status = status]
                        ELSE requests[r]
<1>3. /\ requests' = [r \in DOMAIN requests |-> Closed(r)]
      /\ \A r \in DOMAIN requests :
           /\ Closed(r) \in Request
           /\ Closed(r).funnel = requests[r].funnel /\ Closed(r).from = requests[r].from
           /\ Closed(r).to = requests[r].to
           /\ Closed(r).requester = requests[r].requester
           /\ r \in some => Closed(r).status = status
           /\ r \notin some => Closed(r) = requests[r]
  BY <1>1, <1>2 DEF Close
<1> HIDE DEF Closed
<1>4. /\ requests' \in Seq(Request) /\ DOMAIN requests' = DOMAIN requests
      /\ Len(requests') = Len(requests)
  BY <1>1, <1>3
<1>5. Pending' = Pending \ some
  BY <1>3, <1>4 DEF Pending
<1> QED BY <1>3, <1>4, <1>5

\* Requests refused or cancelled: there was no move for them.
LEMMA ClosedRows ==
  ASSUME RowsOK, NEW some, some \subseteq Pending,
         NEW status \in {"rejected", "cancelled"}, Close(some, status),
         UNCHANGED <<funnel, container, codes, history>>
  PROVE  RowsOK'
<1>1. RowsTyped
  BY DEF RowsOK
<1>2. /\ requests' \in Seq(Request) /\ DOMAIN requests' = DOMAIN requests
      /\ Len(requests') = Len(requests)
      /\ \A r \in DOMAIN requests :
           /\ requests'[r].funnel = requests[r].funnel
           /\ requests'[r].from = requests[r].from
           /\ requests'[r].to = requests[r].to
           /\ r \in some => requests'[r].status = status
           /\ r \notin some => requests'[r] = requests[r]
      /\ Pending' = Pending \ some
  BY <1>1, Closing
<1>3. RowsTyped' /\ HistoryChains' /\ HistoryRefers'
  BY <1>2 DEF RowsOK, RowsTyped, HistoryChains, HistoryRefers
<1>4. OnePendingPerTarget'
  BY <1>2 DEF RowsOK, OnePendingPerTarget, Pending
<1>5. ApprovedMovesOnce'
  <2> SUFFICES ASSUME NEW r \in DOMAIN requests
               PROVE  IF requests'[r].status = "approved"
                      THEN \E m \in MovesFor(r) :
                             /\ MovesFor(r) = {m}
                             /\ m[1] = requests'[r].funnel
                             /\ history[m[1]][m[2]].from = requests'[r].from
                             /\ history[m[1]][m[2]].to = requests'[r].to
                      ELSE MovesFor(r) = {}
    BY <1>2 DEF ApprovedMovesOnce, MovesFor
  <2>1. CASE r \in some
    <3>1. requests[r].status # "approved"
      BY <2>1 DEF Pending
    <3>2. MovesFor(r) = {}
      BY <3>1 DEF RowsOK, ApprovedMovesOnce
    <3> QED BY <1>2, <2>1, <3>2
  <2>2. CASE r \notin some
    BY <1>2, <2>2 DEF RowsOK, ApprovedMovesOnce
  <2> QED BY <2>1, <2>2
<1> QED BY <1>3, <1>4, <1>5 DEF RowsOK

LEMMA CloseStep ==
  ASSUME FunnelInv, NEW p \in Sessions, NEW some, some \subseteq Pending,
         NEW status \in {"rejected", "cancelled"}, Close(some, status), End(p),
         UNCHANGED <<funnel, container, codes, history>>, Still,
         \A q \in Sessions \ {p}, r \in some : RequestRow(r) \notin held[q]
  PROVE  FunnelInv'
<1>1. /\ RowsOK' /\ eligible' = eligible /\ started' \in Nat /\ changes' \in Nat
  BY Frames, ClosedRows DEF Still
<1>2. /\ DOMAIN requests' = DOMAIN requests
      /\ \A r \in DOMAIN requests :
           /\ requests'[r].funnel = requests[r].funnel
           /\ requests'[r].from = requests[r].from
           /\ requests'[r].to = requests[r].to
           /\ requests'[r].requester = requests[r].requester
           /\ r \notin some => requests'[r] = requests[r]
      /\ Pending' = Pending \ some
  BY Frames, Closing
<1>3. \A q \in Sessions \ {p} :
        pc'[q] = pc[q] /\ tx'[q] = tx[q] /\ held'[q] = held[q] => Undisturbed(q)
  BY <1>1, <1>2 DEF Undisturbed
<1> QED BY <1>1, <1>3, EndStep

\* Nobody else has locked a row that p holds or may take.
LEMMA OthersLack ==
  ASSUME FunnelInv, NEW p \in Sessions, NEW q \in Sessions \ {p}, NEW row,
         row \in held[p] \/ (CanLock(p) /\ row \in Wants(p))
  PROVE  row \notin held[q]
BY DEF FunnelInv, LocksOK, CanLock, Blocks

LEMMA CancelOwnStep ==
  ASSUME FunnelInv, NEW p \in Sessions, CancelOwn(p) PROVE FunnelInv'
<1>1. /\ pc[p] = "cancelOwn" /\ CanLock(p) /\ Close(Undecided(p), "cancelled")
      /\ End(p) /\ UNCHANGED <<funnel, container, codes, history>> /\ Still
  BY DEF CancelOwn, At
<1>2. Undecided(p) \subseteq Pending /\ Undecided(p) \subseteq {tx[p].request}
  BY DEF Undecided
<1>3. RequestRow(tx[p].request) \in Wants(p)
  BY <1>1 DEF Wants
<1>4. \A q \in Sessions \ {p}, r \in Undecided(p) : RequestRow(r) \notin held[q]
  BY <1>1, <1>2, <1>3, OthersLack
<1> QED BY <1>1, <1>2, <1>4, CloseStep

\* The request whose row p has locked is closed.
LEMMA DecideStep ==
  ASSUME FunnelInv, NEW p \in Sessions, Close({tx[p].request}, "rejected"), End(p),
         pc[p] = "check" \/ Approves(p, {"decide"}),
         UNCHANGED <<funnel, container, codes, history>>, Still
  PROVE  FunnelInv'
<1>1. RequestRow(tx[p].request) \in held[p] /\ tx[p].request \in Pending
  BY Frames DEF SessionOK, Claimed, Approves
<1>2. \A q \in Sessions \ {p}, r \in {tx[p].request} : RequestRow(r) \notin held[q]
  BY <1>1, OthersLack
<1>3. {tx[p].request} \subseteq Pending
  BY <1>1
<1> HIDE DEF Close
<1> QED BY <1>2, <1>3, CloseStep

LEMMA RejectRequestStep ==
  ASSUME FunnelInv, NEW p \in Sessions, RejectRequest(p) PROVE FunnelInv'
<1>1. CASE Close({tx[p].request}, "rejected")
  BY <1>1, DecideStep DEF RejectRequest, At
<1>2. CASE UNCHANGED requests
  BY <1>2, AbortStep DEF RejectRequest, rows
<1> QED BY <1>1, <1>2 DEF RejectRequest

LEMMA CheckApprovalStep ==
  ASSUME FunnelInv, NEW p \in Sessions, CheckApproval(p) PROVE FunnelInv'
<1>1. pc[p] = "check" /\ tx[p].kind = "approve" /\ Still
  BY DEF CheckApproval, At
<1>2. CASE Abort(p)
  BY <1>1, <1>2, AbortStep DEF Abort
<1>3. CASE Obsolete(p)
  BY <1>1, <1>3, DecideStep DEF Obsolete
<1>4. CASE /\ CurrentApprover(p) /\ ~StaleTransition(p)
           /\ Goto(p, "lockContainer") /\ UNCHANGED <<rows, held, tx>>
  BY <1>1, <1>4, CheckedStep
<1> QED BY <1>2, <1>3, <1>4 DEF CheckApproval

LEMMA CheckInformationStep ==
  ASSUME FunnelInv, NEW p \in Sessions, CheckInformation(p) PROVE FunnelInv'
<1>1. pc[p] = "decide" /\ Still /\ Approves(p, {"decide"})
  BY Places DEF CheckInformation, At, Approves
<1>2. CASE ApprovalMisses(p) = {} /\ Goto(p, "move") /\ UNCHANGED <<rows, held, tx>>
  BY <1>1, <1>2, InformedStep
<1>3. CASE Obsolete(p)
  BY <1>1, <1>3, DecideStep DEF Obsolete
<1> QED BY <1>2, <1>3 DEF CheckInformation

LEMMA CloseRequestsStep ==
  ASSUME FunnelInv, NEW p \in Sessions, CloseRequests(p) PROVE FunnelInv'
<1>1. /\ pc[p] = "closeRequests" /\ CanLock(p) /\ Close(Pending, "cancelled")
      /\ End(p) /\ UNCHANGED <<funnel, container, codes, history>> /\ Still
  BY DEF CloseRequests, At
<1>2. \A r \in Pending : RequestRow(r) \in Wants(p)
  BY <1>1 DEF Wants
<1>3. \A q \in Sessions \ {p}, r \in Pending : RequestRow(r) \notin held[q]
  BY <1>1, <1>2, OthersLack
<1> QED BY <1>1, <1>3, CloseStep

-----------------------------------------------------------------------------
(* Information is edited, requests are made.                               *)

\* A change of the information on the funnels.
LEMMA FunnelInfoRows ==
  ASSUME RowsOK, UNCHANGED <<codes, requests, history>>,
         container' \in [info: SUBSET ContainerKeys, code: Nat],
         funnel' \in [Funnels -> [stage: Stages, info: SUBSET FunnelKeys]],
         \A f \in Funnels : funnel'[f].stage = funnel[f].stage
  PROVE  RowsOK'
<1>1. RowsTyped' /\ HistoryChains' /\ HistoryRefers'
  BY DEF RowsOK, RowsTyped, HistoryChains, HistoryRefers
<1>2. ApprovedMovesOnce' /\ OnePendingPerTarget'
  BY DEF RowsOK, ApprovedMovesOnce, MovesFor, OnePendingPerTarget, Pending
<1> QED BY <1>1, <1>2 DEF RowsOK

LEMMA Filling ==
  ASSUME FunnelInv, NEW p \in Sessions, KeepFilled(p)
  PROVE  /\ funnel' \in [Funnels -> [stage: Stages, info: SUBSET FunnelKeys]]
         /\ \A f \in Funnels : funnel'[f].stage = funnel[f].stage
         /\ \A f \in Funnels \ {tx[p].funnel} : funnel'[f] = funnel[f]
<1> DEFINE f == tx[p].funnel
           i == funnel[f].info \cup tx[p].fill
           row == [funnel[f] EXCEPT !.info = i]
<1>1. /\ f \in Funnels /\ tx[p].fill \subseteq FunnelKeys
      /\ funnel \in [Funnels -> [stage: Stages, info: SUBSET FunnelKeys]]
  BY Types, Frames, ConstantsAssumption DEF RowsTyped
<1>2. i \in SUBSET FunnelKeys
  BY <1>1
<1>3. funnel' = [funnel EXCEPT ![f].info = i]
  BY DEF KeepFilled
<1> HIDE DEF i
<1>4. /\ row \in [stage: Stages, info: SUBSET FunnelKeys] /\ row.stage = funnel[f].stage
  BY <1>1, <1>2
<1> HIDE DEF f
<1>5. funnel' = [funnel EXCEPT ![f] = row]
  BY <1>1, <1>3
<1> HIDE DEF row
<1> QED BY <1>1, <1>4, <1>5 DEF f

LEMMA FindExistingStep ==
  ASSUME FunnelInv, NEW p \in Sessions, FindExisting(p) PROVE FunnelInv'
<1>1. /\ pc[p] = "queue" /\ tx[p].kind = "advance" /\ Still
      /\ UNCHANGED <<container, codes, requests, history>>
  BY Places DEF FindExisting, At
<1>2. CASE KeepFilled(p) /\ End(p)
  <2>1. RowsOK' /\ eligible' = eligible /\ started' \in Nat /\ changes' \in Nat
    BY <1>1, <1>2, Filling, FunnelInfoRows, Frames DEF Still, RowsTyped
  <2>2. FunnelRow(tx[p].funnel) \in held[p]
    BY <1>1, Frames DEF SessionOK, FunnelHeld, Advances
  <2>3. ASSUME NEW q \in Sessions \ {p}, pc'[q] = pc[q], tx'[q] = tx[q],
               held'[q] = held[q]
        PROVE  Undisturbed(q)
    <3>1. FunnelRow(tx[p].funnel) \notin held[q]
      BY <2>2, OthersLack
    <3>2. \A f \in Funnels : FunnelRow(f) \in held[q] => funnel'[f] = funnel[f]
      BY <1>2, <3>1, Filling
    <3> QED BY <1>1, <2>1, <2>3, <3>2 DEF Undisturbed, Pending
  <2> QED BY <1>2, <2>1, <2>3, EndStep
<1>3. CASE Reusable(p) = {} /\ Goto(p, "insert") /\ UNCHANGED <<funnel, held, tx>>
  <2>1. UNCHANGED <<rows, held, tx>>
    BY <1>1, <1>3 DEF rows
  <2> QED BY <1>1, <1>3, <2>1, NotFoundStep
<1> QED BY <1>2, <1>3 DEF FindExisting

\* A new request is pending, differs from those before it and stands for no move.
LEMMA InsertRequestStep ==
  ASSUME FunnelInv, NEW p \in Sessions, InsertRequest(p) PROVE FunnelInv'
<1> DEFINE f == tx[p].funnel
           new == [funnel |-> f, from |-> tx[p].from, to |-> tx[p].target,
                   requester |-> tx[p].member, approver |-> tx[p].approver,
                   status |-> "pending"]
           n == Len(requests)
<1>1. /\ pc[p] = "insert" /\ tx[p].kind = "advance" /\ Still /\ End(p) /\ KeepFilled(p)
      /\ UNCHANGED <<container, codes, history>> /\ requests' = Append(requests, new)
  BY Places DEF InsertRequest, At
<1>2. /\ FunnelRow(f) \in held[p] /\ tx[p].approver \in Members /\ Reusable(p) = {}
  BY <1>1, Frames DEF SessionOK, FunnelHeld, Routed, Advances
<1>3. /\ new \in Request /\ new.funnel = f /\ new.to = tx[p].target
      /\ new.status = "pending"
  BY <1>2, Types, Frames DEF Request
<1>4. /\ n \in Nat /\ DOMAIN requests = 1 .. n /\ requests \in Seq(Request)
  BY RequestTypes, Frames DEF RowsTyped
<1> HIDE DEF new
<1>5. /\ requests' \in Seq(Request) /\ DOMAIN requests' = 1 .. n + 1
      /\ Len(requests') = n + 1 /\ requests'[n + 1] = new
      /\ \A r \in 1 .. n : requests'[r] = requests[r]
  BY <1>1, <1>3, <1>4, AppendProperties
<1>6. Pending' = Pending \cup {n + 1}
  BY <1>3, <1>4, <1>5 DEF Pending
<1>7. /\ funnel' \in [Funnels -> [stage: Stages, info: SUBSET FunnelKeys]]
      /\ \A g \in Funnels : funnel'[g].stage = funnel[g].stage
      /\ \A g \in Funnels \ {f} : funnel'[g] = funnel[g]
  BY <1>1, Filling
<1> HIDE DEF f, n
<1>8. RowsTyped' /\ HistoryChains'
  BY <1>1, <1>5, <1>7, Frames DEF RowsOK, RowsTyped, HistoryChains
<1>9. HistoryRefers'
  <2> SUFFICES ASSUME NEW g \in Funnels, NEW i \in DOMAIN history[g]
               PROVE  history[g][i].request <= n + 1
    BY <1>1, <1>5 DEF HistoryRefers
  <2>1. history[g][i].request <= n
    BY Frames DEF RowsOK, HistoryRefers, n
  <2>2. history[g][i].request \in Nat /\ n \in Nat
    BY <1>4, Frames, HistoryTypes
  <2> QED BY <2>1, <2>2
<1>10. OnePendingPerTarget'
  <2> SUFFICES ASSUME NEW r \in Pending', NEW q \in Pending',
                      requests'[r].funnel = requests'[q].funnel,
                      requests'[r].to = requests'[q].to
               PROVE  r = q
    BY DEF OnePendingPerTarget
  <2>1. ASSUME NEW s \in Pending PROVE s \in 1 .. n
    BY <1>4 DEF Pending
  <2>2. ASSUME NEW s \in Pending, requests[s].funnel = f PROVE requests[s].to # tx[p].target
    BY <1>2, <2>2 DEF Reusable, PendingOf, f
  <2>3. CASE r \in Pending /\ q \in Pending
    BY <1>5, <2>1, <2>3, Frames DEF RowsOK, OnePendingPerTarget
  <2>4. CASE r = n + 1 /\ q \in Pending
    BY <1>3, <1>5, <2>1, <2>2, <2>4
  <2>5. CASE q = n + 1 /\ r \in Pending
    BY <1>3, <1>5, <2>1, <2>2, <2>5
  <2> QED BY <1>6, <2>3, <2>4, <2>5
<1>11. ApprovedMovesOnce'
  <2>1. \A r : MovesFor(r)' = MovesFor(r)
    BY <1>1 DEF MovesFor
  <2>2. MovesFor(n + 1) = {}
    <3> SUFFICES ASSUME NEW g \in Funnels, NEW i \in DOMAIN history[g],
                        history[g][i].request = n + 1
                 PROVE  FALSE
      BY DEF MovesFor
    <3>1. history[g][i].request <= n
      BY Frames DEF RowsOK, HistoryRefers, n
    <3> QED BY <1>4, <3>1
  <2> SUFFICES ASSUME NEW r \in 1 .. n + 1
               PROVE  IF requests'[r].status = "approved"
                      THEN \E m \in MovesFor(r) :
                             /\ MovesFor(r) = {m}
                             /\ m[1] = requests'[r].funnel
                             /\ history[m[1]][m[2]].from = requests'[r].from
                             /\ history[m[1]][m[2]].to = requests'[r].to
                      ELSE MovesFor(r) = {}
    BY <1>1, <1>5, <2>1 DEF ApprovedMovesOnce
  <2>3. CASE r = n + 1
    BY <1>3, <1>5, <2>2, <2>3
  <2>4. CASE r \in 1 .. n
    BY <1>4, <1>5, <2>4, Frames DEF RowsOK, ApprovedMovesOnce
  <2> QED BY <1>4, <2>3, <2>4
<1>12. RowsOK' /\ eligible' = eligible /\ started' \in Nat /\ changes' \in Nat
  BY <1>1, <1>8, <1>9, <1>10, <1>11, Frames DEF RowsOK, Still
<1>13. ASSUME NEW q \in Sessions \ {p}, pc'[q] = pc[q], tx'[q] = tx[q],
              held'[q] = held[q]
       PROVE  Undisturbed(q)
  <2>1. FunnelRow(f) \notin held[q]
    BY <1>2, OthersLack
  <2>2. \A g \in Funnels : FunnelRow(g) \in held[q] =>
          funnel'[g] = funnel[g] /\ container'.info = container.info
    BY <1>1, <1>7, <2>1
  <2>3. \A r \in Pending' : r \in Pending \/ FunnelRow(requests'[r].funnel) \notin held[q]
    BY <1>3, <1>5, <1>6, <2>1
  <2>4. \A r \in DOMAIN requests : r \in DOMAIN requests' /\ requests'[r] = requests[r]
    BY <1>4, <1>5
  <2> QED BY <1>12, <1>13, <2>2, <2>3, <2>4 DEF Undisturbed
<1> QED BY <1>1, <1>12, <1>13, EndStep

\* All funnels are locked while the container's information changes.
LEMMA EditContainerStep ==
  ASSUME FunnelInv, NEW p \in Sessions, EditContainer(p) PROVE FunnelInv'
<1>1. /\ pc[p] = "edit" /\ End(p) /\ Still
      /\ UNCHANGED <<funnel, codes, requests, history>>
  BY DEF EditContainer, At
<1>2. container' \in [info: SUBSET ContainerKeys, code: Nat]
  BY Frames DEF EditContainer, RowsTyped
<1>3. RowsOK' /\ eligible' = eligible /\ started' \in Nat /\ changes' \in Nat
  BY <1>1, <1>2, FunnelInfoRows, Frames DEF Still, RowsTyped
<1>4. \A f \in Funnels : FunnelRow(f) \in held[p]
  BY <1>1, Frames DEF SessionOK, Edits
<1>5. \A q \in Sessions \ {p}, f \in Funnels : FunnelRow(f) \notin held[q]
  BY <1>4, OthersLack
<1>6. \A q \in Sessions \ {p} :
        pc'[q] = pc[q] /\ tx'[q] = tx[q] /\ held'[q] = held[q] => Undisturbed(q)
  BY <1>1, <1>3, <1>5 DEF Undisturbed, Pending
<1> QED BY <1>1, <1>3, <1>6, EndStep

LEMMA EditFunnelStep ==
  ASSUME FunnelInv, NEW f \in Funnels, EditFunnel(f) PROVE FunnelInv'
<1>1. PICK i \in SUBSET FunnelKeys :
        /\ funnel' = [funnel EXCEPT ![f].info = i]
        /\ \A p \in Sessions : FunnelRow(f) \notin held[p]
        /\ changes' = changes + 1
        /\ UNCHANGED <<container, codes, requests, history, eligible, held, pc, tx,
                       started>>
  BY DEF EditFunnel
<1>2. RowsOK /\ RowsTyped /\ SessionsTyped /\ LocksOK
  BY DEF FunnelInv, RowsOK
<1>3. /\ funnel' \in [Funnels -> [stage: Stages, info: SUBSET FunnelKeys]]
      /\ \A g \in Funnels : funnel'[g].stage = funnel[g].stage
      /\ \A g \in Funnels \ {f} : funnel'[g] = funnel[g]
  BY <1>1, <1>2 DEF RowsTyped
<1>4. RowsOK'
  BY <1>1, <1>2, <1>3, FunnelInfoRows DEF RowsTyped
<1>5. SessionsTyped' /\ LocksOK'
  BY <1>1, <1>2 DEF SessionsTyped, LocksOK
<1>6. ASSUME NEW q \in Sessions PROVE SessionOK(q)'
  <2>1. Undisturbed(q)
    BY <1>1, <1>3 DEF Undisturbed, Pending
  <2> QED BY <1>2, <2>1, UndisturbedOK DEF FunnelInv
<1> QED BY <1>4, <1>5, <1>6 DEF FunnelInv

\* The new approvers join those who stood.
LEMMA ChangeAuthorityStep ==
  ASSUME FunnelInv, ChangeAuthority PROVE FunnelInv'
<1>1. PICK m \in Members :
        LET authority == (eligible \ {m}) \cup ({m} \ eligible) IN
        /\ eligible' = authority
        /\ tx' = [p \in Sessions |->
             IF tx[p].standing = {} THEN tx[p]
             ELSE [tx[p] EXCEPT !.standing = @ \cup
               {FindManagerApprover(requests[tx[p].request].requester, authority)}]]
  BY DEF ChangeAuthority
<1>2. /\ UNCHANGED <<rows, held, pc, started>> /\ changes' = changes + 1
  BY DEF ChangeAuthority
<1> DEFINE Joining(p) == FindManagerApprover(requests[tx[p].request].requester, eligible')
           Grown(p) == [tx[p] EXCEPT !.standing = @ \cup {Joining(p)}]
<1>3. /\ RowsOK /\ RowsTyped /\ SessionsTyped /\ LocksOK /\ eligible' \subseteq Members
  BY <1>1 DEF FunnelInv, RowsOK, SessionsTyped
<1>4. tx' = [p \in Sessions |-> IF tx[p].standing = {} THEN tx[p] ELSE Grown(p)]
  BY <1>1
<1>5. ASSUME NEW p \in Sessions
      PROVE  /\ Joining(p) \in Members \cup {Nobody}
             /\ Grown(p) \in Tx
             /\ Grown(p).standing = tx[p].standing \cup {Joining(p)}
             /\ Grown(p).kind = tx[p].kind /\ Grown(p).member = tx[p].member
             /\ Grown(p).funnel = tx[p].funnel /\ Grown(p).target = tx[p].target
             /\ Grown(p).kanban = tx[p].kanban /\ Grown(p).fill = tx[p].fill
             /\ Grown(p).request = tx[p].request /\ Grown(p).from = tx[p].from
             /\ Grown(p).approver = tx[p].approver
  <2>1. Joining(p) \in Members \cup {Nobody}
    BY <1>3, ApproverFound
  <2> HIDE DEF Joining
  <2> QED BY <1>3, <2>1 DEF SessionsTyped, Tx
<1> HIDE DEF Grown
<1>6. ASSUME NEW p \in Sessions
      PROVE  /\ tx'[p] \in Tx
             /\ tx'[p].kind = tx[p].kind /\ tx'[p].member = tx[p].member
             /\ tx'[p].funnel = tx[p].funnel /\ tx'[p].target = tx[p].target
             /\ tx'[p].kanban = tx[p].kanban /\ tx'[p].fill = tx[p].fill
             /\ tx'[p].request = tx[p].request /\ tx'[p].from = tx[p].from
             /\ tx'[p].approver = tx[p].approver
             /\ tx[p].standing \subseteq tx'[p].standing
             /\ tx[p].standing # {} => Joining(p) \in tx'[p].standing
  <2>1. CASE tx[p].standing = {}
    BY <1>3, <1>4, <2>1 DEF SessionsTyped
  <2>2. CASE tx[p].standing # {}
    BY <1>4, <1>5, <2>2
  <2> QED BY <2>1, <2>2
<1>7. SessionsTyped' /\ LocksOK' /\ RowsOK'
  <2>1. tx' \in [Sessions -> Tx]
    BY <1>4, <1>6
  <2> QED BY <1>2, <1>3, <2>1, RowsKept DEF SessionsTyped, LocksOK
<1>8. ASSUME NEW p \in Sessions PROVE SessionOK(p)'
  <2>1. /\ SessionOK(p) /\ pc'[p] = pc[p] /\ held'[p] = held[p]
        /\ funnel' = funnel /\ container' = container /\ requests' = requests
        /\ Pending' = Pending
        /\ \A f : InfoOf(f)' = InfoOf(f) /\ PendingOf(f)' = PendingOf(f)
    BY <1>2 DEF FunnelInv, rows, Pending, PendingOf, InfoOf
  <2>2. FunnelHeld(p)' /\ Gated(p)' /\ Cleared(p)'
    BY <1>6, <2>1 DEF SessionOK, FunnelHeld, Gated, Cleared, Advances, Approves
  <2>3. Routed(p)' /\ Asked(p)' /\ Informed(p)' /\ Edits(p)'
    BY <1>6, <2>1
    DEF SessionOK, Routed, Reusable, Asked, Informed, Edits, Advances, Approves
  <2>4. Claimed(p)'
    <3> SUFFICES ASSUME pc[p] = "check" \/ Approves(p, {"lockContainer", "decide", "move"})
                 PROVE  /\ RequestRow(tx[p].request) \in held[p]
                        /\ tx[p].request \in Pending
                        /\ FindManagerApprover(requests[tx[p].request].requester, eligible')
                             \in tx'[p].standing
      BY <1>6, <2>1 DEF Claimed, Approves
    <3>1. /\ RequestRow(tx[p].request) \in held[p] /\ tx[p].request \in Pending
          /\ tx[p].standing # {}
      BY <2>1 DEF SessionOK, Claimed
    <3> QED BY <1>6, <3>1
  <2>5. Checked(p)'
    <3> SUFFICES ASSUME Approves(p, {"lockContainer", "decide", "move"})
                 PROVE  /\ CanTransition(tx[p].from, tx[p].target)
                        /\ requests[tx[p].request].from = tx[p].from
                        /\ tx[p].member # requests[tx[p].request].requester
                        /\ tx[p].member \in Superadmins \cup tx'[p].standing
      BY <1>6, <2>1 DEF Checked, Approves
    <3> QED BY <1>6, <2>1 DEF SessionOK, Checked
  <2> QED BY <1>6, <2>1, <2>2, <2>3, <2>4, <2>5 DEF SessionOK
<1> QED BY <1>7, <1>8 DEF FunnelInv

-----------------------------------------------------------------------------
(* Stages move.                                                            *)

\* What a move writes into the history.
Entry(p, request) ==
  [from |-> tx[p].from, to |-> tx[p].target, request |-> request, by |-> tx[p].member]

\* What a move makes of the rows.
Moved(p, request) ==
  LET f == tx[p].funnel
      n == Len(history[f]) IN
  /\ funnel' \in [Funnels -> [stage: Stages, info: SUBSET FunnelKeys]]
  /\ container' \in [info: SUBSET ContainerKeys, code: Nat]
  /\ container'.info = container.info /\ codes' \in Nat
  /\ history' \in [Funnels -> Seq(Move)]
  /\ \A g \in Funnels \ {f} : funnel'[g] = funnel[g] /\ history'[g] = history[g]
  /\ funnel'[f].stage = tx[p].target
  /\ funnel'[f].info = funnel[f].info \cup tx[p].fill
  /\ Len(history'[f]) = n + 1 /\ DOMAIN history'[f] = 1 .. n + 1
  /\ history'[f][n + 1] = Entry(p, request)
  /\ \A i \in 1 .. n : history'[f][i] = history[f][i]

LEMMA Moving ==
  ASSUME RowsTyped, SessionsTyped, NEW p \in Sessions, NEW r \in Nat,
         ApplyStageMove(p, r)
  PROVE  Moved(p, r)
<1> DEFINE f == tx[p].funnel
           n == Len(history[f])
           i == funnel[f].info \cup tx[p].fill
           row == [stage |-> tx[p].target, info |-> i]
           e == Entry(p, r)
<1>1. /\ f \in Funnels /\ tx[p].fill \subseteq FunnelKeys /\ tx[p].target \in Stages
      /\ funnel \in [Funnels -> [stage: Stages, info: SUBSET FunnelKeys]]
  BY Types, ConstantsAssumption DEF RowsTyped
<1>2. i \in SUBSET FunnelKeys
  BY <1>1
<1>3. /\ funnel' = [funnel EXCEPT ![f] = row]
      /\ history' = [history EXCEPT ![f] = Append(@, e)] /\ AllocateCode(tx[p].target)
  BY DEF ApplyStageMove, Entry
<1> HIDE DEF i
<1>4. /\ row \in [stage: Stages, info: SUBSET FunnelKeys]
      /\ row.stage = tx[p].target /\ row.info = i
  BY <1>1, <1>2
<1>5. e \in Move
  BY Types DEF Move, Entry
<1>6. /\ history \in [Funnels -> Seq(Move)] /\ history[f] \in Seq(Move) /\ n \in Nat
      /\ DOMAIN history[f] = 1 .. n
  BY <1>1, HistoryTypes DEF RowsTyped
<1> HIDE DEF row, e
<1>7. /\ Append(history[f], e) \in Seq(Move) /\ Len(Append(history[f], e)) = n + 1
      /\ DOMAIN Append(history[f], e) = 1 .. n + 1
      /\ Append(history[f], e)[n + 1] = e
      /\ \A k \in 1 .. n : Append(history[f], e)[k] = history[f][k]
  BY <1>5, <1>6, AppendProperties
<1>8. /\ container' \in [info: SUBSET ContainerKeys, code: Nat]
      /\ container'.info = container.info /\ codes' \in Nat
  BY <1>3 DEF AllocateCode, RowsTyped
<1> HIDE DEF f, n
<1>9. /\ funnel' \in [Funnels -> [stage: Stages, info: SUBSET FunnelKeys]]
      /\ funnel'[f] = row /\ \A g \in Funnels \ {f} : funnel'[g] = funnel[g]
  BY <1>1, <1>3, <1>4
<1>10. /\ history' \in [Funnels -> Seq(Move)] /\ history'[f] = Append(history[f], e)
       /\ \A g \in Funnels \ {f} : history'[g] = history[g]
  BY <1>1, <1>3, <1>6, <1>7
<1> QED BY <1>4, <1>7, <1>8, <1>9, <1>10 DEF Moved, f, n, i, e

\* The history goes on from where it stands.
LEMMA MovedChains ==
  ASSUME RowsOK, SessionsTyped, NEW p \in Sessions, NEW r \in Nat, Moved(p, r),
         tx[p].from = funnel[tx[p].funnel].stage
  PROVE  HistoryChains'
<1> DEFINE f == tx[p].funnel
           n == Len(history[f])
           At0(g, i) == IF i = 0 THEN FirstStage ELSE history[g][i].to
<1>1. /\ f \in Funnels /\ n \in Nat /\ RowsTyped /\ DOMAIN history[f] = 1 .. n
  BY Types, HistoryTypes DEF RowsOK
<1>2. /\ \A g \in Funnels \ {f} : funnel'[g] = funnel[g] /\ history'[g] = history[g]
      /\ funnel'[f].stage = tx[p].target
      /\ Len(history'[f]) = n + 1 /\ DOMAIN history'[f] = 1 .. n + 1
      /\ history'[f][n + 1].from = tx[p].from /\ history'[f][n + 1].to = tx[p].target
      /\ \A i \in 1 .. n : history'[f][i] = history[f][i]
  BY DEF Moved, Entry
<1>3. \A g \in Funnels :
        /\ \A i \in DOMAIN history[g] : history[g][i].from = At0(g, i - 1)
        /\ funnel[g].stage = At0(g, Len(history[g]))
  BY DEF RowsOK, HistoryChains
<1> SUFFICES ASSUME NEW g \in Funnels
             PROVE  /\ \A i \in DOMAIN history'[g] :
                         history'[g][i].from = IF i - 1 = 0 THEN FirstStage
                                               ELSE history'[g][i - 1].to
                    /\ funnel'[g].stage =
                         IF Len(history'[g]) = 0 THEN FirstStage
                         ELSE history'[g][Len(history'[g])].to
  BY DEF HistoryChains
<1>4. CASE g # f
  BY <1>2, <1>3, <1>4
<1>5. CASE g = f
  <2> HIDE DEF n
  <2>1. funnel'[f].stage = history'[f][n + 1].to /\ n + 1 # 0
    BY <1>1, <1>2
  <2>2. ASSUME NEW i \in 1 .. n + 1
        PROVE  history'[f][i].from = IF i - 1 = 0 THEN FirstStage
                                     ELSE history'[f][i - 1].to
    <3>1. CASE i \in 1 .. n
      <4>1. history[f][i].from = IF i - 1 = 0 THEN FirstStage ELSE history[f][i - 1].to
        BY <1>1, <1>3, <3>1
      <4>3. history'[f][i] = history[f][i]
        BY <1>2, <3>1
      <4>2. i - 1 # 0 => i - 1 \in 1 .. n
        BY <1>1, <3>1
      <4> QED BY <1>2, <4>1, <4>2, <4>3
    <3>2. CASE i = n + 1
      <4>1. funnel[f].stage = IF n = 0 THEN FirstStage ELSE history[f][n].to
        BY <1>1, <1>3 DEF n
      <4>3. history'[f][i].from = IF n = 0 THEN FirstStage ELSE history[f][n].to
        BY <1>2, <3>2, <4>1
      <4>2. i - 1 = n /\ (n # 0 => n \in 1 .. n)
        BY <1>1, <3>2
      <4> QED BY <1>2, <4>2, <4>3
    <3> QED BY <1>1, <3>1, <3>2
  <2> QED BY <1>2, <1>5, <2>1, <2>2
<1> QED BY <1>4, <1>5

LEMMA MovesMember ==
  ASSUME NEW r, NEW m
  PROVE  m \in MovesFor(r) <=>
           \E f \in Funnels : \E i \in DOMAIN history[f] :
             history[f][i].request = r /\ m = <<f, i>>
BY DEF MovesFor

\* The move that was made is the only new one.
LEMMA MovesMade ==
  ASSUME RowsTyped, SessionsTyped, NEW p \in Sessions, NEW r \in Nat, Moved(p, r)
  PROVE  /\ \A s : s # r => MovesFor(s)' = MovesFor(s)
         /\ MovesFor(r)' =
              MovesFor(r) \cup {<<tx[p].funnel, Len(history[tx[p].funnel]) + 1>>}
<1> DEFINE f == tx[p].funnel
           n == Len(history[f])
<1>1. /\ f \in Funnels /\ n \in Nat /\ DOMAIN history[f] = 1 .. n
  BY Types, HistoryTypes
<1>2. /\ \A g \in Funnels \ {f} : history'[g] = history[g]
      /\ DOMAIN history'[f] = 1 .. n + 1 /\ history'[f][n + 1].request = r
      /\ \A i \in 1 .. n : history'[f][i] = history[f][i]
  BY DEF Moved, Entry
<1> HIDE DEF n, f
<1>3. ASSUME NEW s, NEW g \in Funnels, NEW i
      PROVE  (i \in DOMAIN history'[g] /\ history'[g][i].request = s) <=>
               \/ i \in DOMAIN history[g] /\ history[g][i].request = s
               \/ s = r /\ g = f /\ i = n + 1
  <2>1. CASE g # f
    BY <1>2, <2>1
  <2>2. CASE g = f
    <3>1. i \in 1 .. n + 1 <=> i \in 1 .. n \/ i = n + 1
      BY <1>1
    <3>2. n + 1 \notin 1 .. n
      BY <1>1
    <3> QED BY <1>1, <1>2, <2>2, <3>1, <3>2
  <2> QED BY <2>1, <2>2
<1>4. ASSUME NEW s PROVE MovesFor(s)' = MovesFor(s) \cup (IF s = r THEN {<<f, n + 1>>} ELSE {})
  <2>1. MovesFor(s)' =
          UNION {{g} \X {i \in DOMAIN history'[g] : history'[g][i].request = s} : g \in Funnels}
    BY DEF MovesFor
  <2>2. \A m : m \in MovesFor(s)' <=>
          \E g \in Funnels : \E i \in DOMAIN history'[g] :
            history'[g][i].request = s /\ m = <<g, i>>
    BY <2>1
  <2>3. \A m : m \in MovesFor(s) <=>
          \E g \in Funnels : \E i \in DOMAIN history[g] :
            history[g][i].request = s /\ m = <<g, i>>
    BY MovesMember
  <2>4. \A m : m \in MovesFor(s)' <=> m \in MovesFor(s) \/ (s = r /\ m = <<f, n + 1>>)
    BY <1>1, <1>3, <2>2, <2>3
  <2> QED BY <2>4
<1> QED BY <1>4 DEF f, n

\* Entries of the history stay as they are.
LEMMA HistoryKept ==
  ASSUME RowsTyped, NEW p \in Sessions, NEW r, Moved(p, r), NEW s, NEW m \in MovesFor(s)
  PROVE  history'[m[1]][m[2]] = history[m[1]][m[2]]
<1>1. PICK f \in Funnels : \E i \in DOMAIN history[f] : m = <<f, i>>
  BY MovesMember
<1>2. DOMAIN history[f] = 1 .. Len(history[f])
  BY HistoryTypes
<1>3. CASE f = tx[p].funnel
  BY <1>1, <1>2, <1>3 DEF Moved
<1>4. CASE f # tx[p].funnel
  BY <1>1, <1>4 DEF Moved
<1> QED BY <1>3, <1>4

LEMMA MovedTyped ==
  ASSUME RowsOK, SessionsTyped, NEW p \in Sessions, NEW r \in Nat, Moved(p, r),
         tx[p].from = funnel[tx[p].funnel].stage, r <= Len(requests),
         requests' \in Seq(Request), Len(requests') = Len(requests)
  PROVE  RowsTyped' /\ HistoryChains' /\ HistoryRefers'
<1>1. RowsTyped
  BY DEF RowsOK
<1>2. RowsTyped' /\ HistoryChains'
  BY MovedChains DEF Moved, RowsTyped
<1>3. HistoryRefers'
  <2> SUFFICES ASSUME NEW g \in Funnels, NEW i \in DOMAIN history'[g]
               PROVE  history'[g][i].request <= Len(requests)
    BY DEF HistoryRefers
  <2>1. CASE g # tx[p].funnel
    BY <2>1 DEF Moved, RowsOK, HistoryRefers
  <2>2. CASE g = tx[p].funnel
    <3> DEFINE n == Len(history[g])
    <3>1. /\ n \in Nat /\ DOMAIN history[g] = 1 .. n
          /\ \A k \in 1 .. n : history[g][k].request <= Len(requests)
      BY <1>1, HistoryTypes DEF RowsOK, HistoryRefers
    <3>2. /\ DOMAIN history'[g] = 1 .. n + 1 /\ history'[g][n + 1].request = r
          /\ \A k \in 1 .. n : history'[g][k] = history[g][k]
      BY <2>2 DEF Moved, Entry
    <3>3. i \in 1 .. n \/ i = n + 1
      BY <3>1, <3>2
    <3> HIDE DEF n
    <3> QED BY <3>1, <3>2, <3>3
  <2> QED BY <2>1, <2>2
<1> QED BY <1>2, <1>3

\* The statement of ApprovedMovesOnce for one request.
Exact(r) ==
  IF requests[r].status = "approved"
  THEN \E m \in MovesFor(r) :
         /\ MovesFor(r) = {m}
         /\ m[1] = requests[r].funnel
         /\ history[m[1]][m[2]].from = requests[r].from
         /\ history[m[1]][m[2]].to = requests[r].to
  ELSE MovesFor(r) = {}

\* A request that a move is not for stands as before.
LEMMA StaysExact ==
  ASSUME RowsOK, SessionsTyped, NEW p \in Sessions, NEW r \in Nat, Moved(p, r),
         NEW s \in DOMAIN requests, s # r, s \in DOMAIN requests',
         \/ requests'[s] = requests[s]
         \/ s \in Pending /\ requests'[s].status = "cancelled"
  PROVE  Exact(s)'
<1>1. MovesFor(s)' = MovesFor(s) /\ RowsTyped
  BY MovesMade DEF RowsOK
<1>2. Exact(s)
  BY DEF RowsOK, ApprovedMovesOnce, Exact
<1>3. CASE s \in Pending /\ requests'[s].status = "cancelled"
  <2>1. MovesFor(s) = {}
    BY <1>2, <1>3 DEF Exact, Pending
  <2> QED BY <1>1, <1>3, <2>1 DEF Exact
<1>4. CASE requests'[s] = requests[s]
  <2>1. CASE requests[s].status = "approved"
    <3>1. PICK m \in MovesFor(s) :
            /\ MovesFor(s) = {m} /\ m[1] = requests[s].funnel
            /\ history[m[1]][m[2]].from = requests[s].from
            /\ history[m[1]][m[2]].to = requests[s].to
      BY <1>2, <2>1 DEF Exact
    <3>2. history'[m[1]][m[2]] = history[m[1]][m[2]]
      BY <1>1, HistoryKept
    <3> QED BY <1>1, <1>4, <2>1, <3>1, <3>2 DEF Exact
  <2>2. CASE requests[s].status # "approved"
    BY <1>1, <1>2, <1>4, <2>2 DEF Exact
  <2> QED BY <2>1, <2>2
<1> QED BY <1>3, <1>4

\* A move holds the funnel and the requests that it closes.
LEMMA MoveStep ==
  ASSUME FunnelInv, NEW p \in Sessions, NEW r \in Nat, Moved(p, r), RowsOK',
         NEW some, some \subseteq Pending,
         NEW status \in {"approved", "cancelled"}, Close(some, status), End(p), Still,
         FunnelRow(tx[p].funnel) \in held[p],
         \A s \in some : RequestRow(s) \in held[p]
  PROVE  FunnelInv'
<1>1. eligible' = eligible /\ started' \in Nat /\ changes' \in Nat
  BY Frames DEF Still
<1>2. /\ DOMAIN requests' = DOMAIN requests
      /\ \A s \in DOMAIN requests :
           /\ requests'[s].funnel = requests[s].funnel
           /\ requests'[s].from = requests[s].from
           /\ requests'[s].to = requests[s].to
           /\ requests'[s].requester = requests[s].requester
           /\ s \notin some => requests'[s] = requests[s]
      /\ Pending' = Pending \ some
  BY Frames, Closing
<1>3. ASSUME NEW q \in Sessions \ {p}, pc'[q] = pc[q], tx'[q] = tx[q],
             held'[q] = held[q]
      PROVE  Undisturbed(q)
  <2>1. FunnelRow(tx[p].funnel) \notin held[q]
    BY OthersLack
  <2>2. \A s \in some : RequestRow(s) \notin held[q]
    BY OthersLack
  <2>3. \A f \in Funnels : FunnelRow(f) \in held[q] =>
          funnel'[f] = funnel[f] /\ container'.info = container.info
    BY <2>1 DEF Moved
  <2> QED BY <1>1, <1>2, <1>3, <2>2, <2>3 DEF Undisturbed
<1> QED BY <1>1, <1>3, EndStep

LEMMA MoveDirectlyStep ==
  ASSUME FunnelInv, NEW p \in Sessions, MoveDirectly(p) PROVE FunnelInv'
<1> DEFINE f == tx[p].funnel
<1>1. /\ pc[p] = "move" /\ tx[p].kind = "advance" /\ End(p) /\ Still
      /\ Close(Superseded(p), "cancelled") /\ ApplyStageMove(p, 0)
  BY DEF MoveDirectly, At
<1>2. /\ FunnelRow(f) \in held[p] /\ tx[p].from = funnel[f].stage
      /\ \A s \in PendingOf(f) : RequestRow(s) \in held[p]
  BY <1>1, Frames DEF SessionOK, FunnelHeld, Cleared, Advances
<1>3. /\ RowsOK /\ RowsTyped /\ SessionsTyped /\ Moved(p, 0)
      /\ Superseded(p) = PendingOf(f) /\ Superseded(p) \subseteq Pending
  BY <1>1, Frames, Moving DEF Superseded, PendingOf
<1> HIDE DEF Superseded
<1>4. /\ requests' \in Seq(Request) /\ DOMAIN requests' = DOMAIN requests
      /\ Len(requests') = Len(requests)
      /\ \A s \in DOMAIN requests :
           /\ requests'[s].funnel = requests[s].funnel /\ requests'[s].to = requests[s].to
           /\ s \in Superseded(p) => requests'[s].status = "cancelled"
           /\ s \notin Superseded(p) => requests'[s] = requests[s]
      /\ Pending' = Pending \ Superseded(p)
  BY <1>1, <1>3, Closing
<1>5. 0 <= Len(requests) /\ \A s \in DOMAIN requests : s # 0
  BY <1>3, RequestTypes
<1>6. RowsTyped' /\ HistoryChains' /\ HistoryRefers'
  BY <1>2, <1>3, <1>4, <1>5, MovedTyped
<1>7. OnePendingPerTarget'
  BY <1>3, <1>4 DEF RowsOK, OnePendingPerTarget, Pending
<1>8. ASSUME NEW s \in DOMAIN requests PROVE Exact(s)'
  BY <1>3, <1>4, <1>5, StaysExact
<1>9. ApprovedMovesOnce'
  BY <1>4, <1>8 DEF ApprovedMovesOnce, Exact
<1>10. RowsOK'
  BY <1>6, <1>7, <1>9 DEF RowsOK
<1> HIDE DEF Close
<1> QED BY <1>1, <1>2, <1>3, <1>10, MoveStep

LEMMA MoveApprovedStep ==
  ASSUME FunnelInv, NEW p \in Sessions, MoveApproved(p) PROVE FunnelInv'
<1> DEFINE f == tx[p].funnel
           r == tx[p].request
<1>1. /\ pc[p] = "move" /\ tx[p].kind = "approve" /\ End(p) /\ Still
      /\ Close({r}, "approved") /\ ApplyStageMove(p, r)
  BY DEF MoveApproved, At
<1>2. /\ FunnelRow(f) \in held[p] /\ tx[p].from = funnel[f].stage
      /\ RequestRow(r) \in held[p] /\ r \in Pending
      /\ requests[r].from = tx[p].from /\ requests[r].to = tx[p].target
      /\ requests[r].funnel = f
  BY <1>1, Frames DEF SessionOK, FunnelHeld, Claimed, Checked, Asked, Approves
<1>3. /\ RowsOK /\ RowsTyped /\ SessionsTyped /\ r \in Nat /\ Moved(p, r)
      /\ {r} \subseteq Pending
  BY <1>1, <1>2, Frames, Moving, Types
<1>4. /\ requests' \in Seq(Request) /\ DOMAIN requests' = DOMAIN requests
      /\ Len(requests') = Len(requests)
      /\ \A s \in DOMAIN requests :
           /\ requests'[s].funnel = requests[s].funnel /\ requests'[s].to = requests[s].to
           /\ requests'[s].from = requests[s].from
           /\ s = r => requests'[s].status = "approved"
           /\ s # r => requests'[s] = requests[s]
      /\ Pending' = Pending \ {r}
  BY <1>1, <1>3, Closing
<1>5. r \in DOMAIN requests /\ r <= Len(requests)
  BY <1>2, <1>3, RequestTypes DEF Pending
<1>6. RowsTyped' /\ HistoryChains' /\ HistoryRefers'
  BY <1>2, <1>3, <1>4, <1>5, MovedTyped
<1>7. OnePendingPerTarget'
  BY <1>3, <1>4 DEF RowsOK, OnePendingPerTarget, Pending
<1>8. ASSUME NEW s \in DOMAIN requests, s = r PROVE Exact(s)'
  <2> DEFINE n == Len(history[f])
             e == <<f, n + 1>>
  <2>1. MovesFor(s)' = {e}
    <3>1. MovesFor(s) = {}
      BY <1>2, <1>3, <1>8 DEF RowsOK, ApprovedMovesOnce, Pending
    <3> QED BY <1>3, <1>8, <3>1, MovesMade
  <2>2. history'[f][n + 1].from = tx[p].from /\ history'[f][n + 1].to = tx[p].target
    BY <1>3 DEF Moved, Entry
  <2>3. /\ e[1] = f /\ e[2] = n + 1
        /\ requests'[s].status = "approved" /\ requests'[s].funnel = f
        /\ requests'[s].from = tx[p].from /\ requests'[s].to = tx[p].target
    BY <1>2, <1>4, <1>8
  <2> HIDE DEF e, n
  <2> QED BY <2>1, <2>2, <2>3 DEF Exact
<1>9. ASSUME NEW s \in DOMAIN requests PROVE Exact(s)'
  BY <1>3, <1>4, <1>8, StaysExact
<1>10. ApprovedMovesOnce'
  BY <1>4, <1>9 DEF ApprovedMovesOnce, Exact
<1>11. RowsOK'
  BY <1>6, <1>7, <1>10 DEF RowsOK
<1> HIDE DEF Close
<1> QED BY <1>1, <1>2, <1>3, <1>11, MoveStep

-----------------------------------------------------------------------------
(* The invariant, and what it implies.                                     *)

LEMMA InitInv == Init => FunnelInv
<1> SUFFICES ASSUME Init PROVE FunnelInv
  OBVIOUS
<1> USE DEF Init
<1>1. RowsTyped
  <2>1. FirstStage \in Stages /\ FunnelKeys \cap Filled \in SUBSET FunnelKeys
    BY ConstantsAssumption
  <2>2. funnel \in [Funnels -> [stage: Stages, info: SUBSET FunnelKeys]]
    BY <2>1
  <2>3. container \in [info: SUBSET ContainerKeys, code: Nat]
    OBVIOUS
  <2>4. codes \in Nat /\ requests \in Seq(Request) /\ history \in [Funnels -> Seq(Move)]
    OBVIOUS
  <2> QED BY <2>2, <2>3, <2>4 DEF RowsTyped
<1>2. SessionsTyped
  BY NoTxTyped, ConstantsAssumption DEF SessionsTyped, ControlPoint
<1>3. /\ \A f \in Funnels : history[f] = <<>> /\ funnel[f].stage = FirstStage
      /\ requests = <<>> /\ DOMAIN requests = {}
  OBVIOUS
<1>4. HistoryChains /\ HistoryRefers
  BY <1>3 DEF HistoryChains, HistoryRefers
<1>5. ApprovedMovesOnce /\ OnePendingPerTarget
  BY <1>3 DEF ApprovedMovesOnce, OnePendingPerTarget, Pending
<1>6. LocksOK
  BY DEF LocksOK
<1>7. ASSUME NEW p \in Sessions PROVE SessionOK(p)
  BY IdleOK DEF IdlesOK
<1> QED BY <1>1, <1>2, <1>4, <1>5, <1>6, <1>7 DEF FunnelInv, RowsOK

LEMMA StillInv == FunnelInv /\ UNCHANGED vars => FunnelInv'
<1> SUFFICES ASSUME FunnelInv, UNCHANGED vars PROVE FunnelInv'
  OBVIOUS
<1>1. /\ UNCHANGED <<rows, eligible>> /\ pc' = pc /\ tx' = tx /\ held' = held
      /\ started' = started /\ changes' = changes
  BY DEF vars
<1>2. SessionsTyped /\ LocksOK /\ RowsOK
  BY DEF FunnelInv
<1>3. SessionsTyped' /\ LocksOK' /\ RowsOK'
  BY <1>1, <1>2, RowsKept DEF SessionsTyped, LocksOK
<1>4. ASSUME NEW q \in Sessions PROVE SessionOK(q)'
  <2>1. SessionOK(q)
    BY DEF FunnelInv
  <2> QED BY <1>1, <1>2, <2>1, RowsSeen, UndisturbedOK
<1> QED BY <1>3, <1>4 DEF FunnelInv

LEMMA StepsInv ==
  ASSUME FunnelInv, NEW p \in Sessions, Step(p) PROVE FunnelInv'
<1>1. CASE LockFunnel(p)
  BY <1>1, LockFunnelStep
<1>2. CASE Gate(p)
  BY <1>2, GateStep
<1>3. CASE Route(p)
  BY <1>3, RouteStep
<1>4. CASE CancelPending(p)
  BY <1>4, CancelPendingStep
<1>5. CASE LockContainer(p)
  BY <1>5, LockContainerStep
<1>6. CASE MoveDirectly(p)
  BY <1>6, MoveDirectlyStep
<1>7. CASE FindExisting(p)
  BY <1>7, FindExistingStep
<1>8. CASE InsertRequest(p)
  BY <1>8, InsertRequestStep
<1>9. CASE Begin(p)
  BY <1>9, BeginStep
<1>10. CASE CancelOwn(p)
  BY <1>10, CancelOwnStep
<1>11. CASE LockRequest(p)
  BY <1>11, LockRequestStep
<1>12. CASE RejectRequest(p)
  BY <1>12, RejectRequestStep
<1>13. CASE CheckApproval(p)
  BY <1>13, CheckApprovalStep
<1>14. CASE CheckInformation(p)
  BY <1>14, CheckInformationStep
<1>15. CASE MoveApproved(p)
  BY <1>15, MoveApprovedStep
<1>16. CASE LockFunnels(p)
  BY <1>16, LockFunnelsStep
<1>17. CASE EditContainer(p)
  BY <1>17, EditContainerStep
<1>18. CASE CloseRequests(p)
  BY <1>18, CloseRequestsStep
<1> QED
  BY <1>1, <1>2, <1>3, <1>4, <1>5, <1>6, <1>7, <1>8, <1>9, <1>10, <1>11, <1>12,
     <1>13, <1>14, <1>15, <1>16, <1>17, <1>18 DEF Step

LEMMA NextInv == FunnelInv /\ [Next]_vars => FunnelInv'
<1> SUFFICES ASSUME FunnelInv, [Next]_vars PROVE FunnelInv'
  OBVIOUS
<1>1. CASE UNCHANGED vars
  BY <1>1, StillInv
<1>2. ASSUME NEW p \in Sessions, StartAdvance(p) PROVE FunnelInv'
  BY <1>2, StartAdvanceStep
<1>3. ASSUME NEW p \in Sessions, StartDecision(p) PROVE FunnelInv'
  BY <1>3, StartDecisionStep
<1>4. ASSUME NEW p \in Sessions, StartContainer(p) PROVE FunnelInv'
  BY <1>4, StartContainerStep
<1>5. ASSUME NEW p \in Sessions, Step(p) PROVE FunnelInv'
  BY <1>5, StepsInv
<1>6. ASSUME NEW p \in Sessions, DeadlockVictim(p) PROVE FunnelInv'
  BY <1>6, DeadlockVictimStep
<1>7. ASSUME NEW p \in Sessions, Crash(p) PROVE FunnelInv'
  BY <1>7, CrashStep
<1>8. ASSUME NEW f \in Funnels, EditFunnel(f) PROVE FunnelInv'
  BY <1>8, EditFunnelStep
<1>9. CASE ChangeAuthority
  BY <1>9, ChangeAuthorityStep
<1> QED BY <1>1, <1>2, <1>3, <1>4, <1>5, <1>6, <1>7, <1>8, <1>9 DEF Next

LEMMA InvAlways == Spec => []FunnelInv
BY InitInv, NextInv, PTL DEF Spec

\* The rows, the locals and the control points keep their types: no transaction
\* comes to a control point of another kind of transaction, and none is routed to
\* nobody.
THEOREM TypeCorrect == Spec => []TypeOK
<1>1. FunnelInv => TypeOK
  BY TypesSplit DEF FunnelInv, RowsOK
<1> QED BY <1>1, InvAlways, PTL

\* applyStageMove loses no move and applies none to a stage already left, whatever
\* moves, approvals, replays and crashes interleave: the history of a funnel is one
\* chain that ends at its stage.
THEOREM HistoryIsOneChain == Spec => []HistoryChains
<1>1. FunnelInv => HistoryChains
  BY DEF FunnelInv, RowsOK
<1> QED BY <1>1, InvAlways, PTL

\* createApprovalRequest and decideApproval: a request is approved exactly when one
\* move was made for it, the one asked for, and two people asking for the same move
\* share one pending request.
THEOREM RequestsStandForOneMove == Spec => []RequestsExact
<1>1. FunnelInv => RequestsExact
  BY DEF FunnelInv, RowsOK, RequestsExact
<1> QED BY <1>1, InvAlways, PTL

-----------------------------------------------------------------------------
(* What one step does.                                                     *)

\* Stages, histories and the project code stay.
Fixed ==
  /\ codes' = codes /\ container'.code = container.code /\ history' = history
  /\ \A f \in Funnels : funnel'[f].stage = funnel[f].stage

\* The requests that were made stay.
Kept == \A r \in DOMAIN requests : r \in DOMAIN requests' /\ requests'[r] = requests[r]

Refuses(p) ==
  /\ Close({tx[p].request}, "rejected") /\ End(p)
  /\ \/ pc[p] = "check" /\ CurrentApprover(p)
     \/ Approves(p, {"decide"})

Cancels == \E some \in SUBSET Pending : Close(some, "cancelled")

Moves(p) == MoveDirectly(p) \/ MoveApproved(p)

\* Every step moves a funnel, closes requests, or does neither.
LEMMA Outcomes ==
  ASSUME FunnelInv, [Next]_vars
  PROVE  \/ \E p \in Sessions : Moves(p)
         \/ Fixed /\ (Kept \/ Cancels \/ \E p \in Sessions : Refuses(p))
<1>1. UNCHANGED rows => Fixed /\ Kept
  BY DEF rows, Fixed, Kept
<1>2. UNCHANGED <<funnel, container, codes, history>> => Fixed
  BY DEF Fixed
<1>3. UNCHANGED requests => Kept
  BY DEF Kept
<1>4. CASE UNCHANGED vars
  BY <1>1, <1>4 DEF vars
<1>5. ASSUME NEW p \in Sessions,
             \/ StartAdvance(p) \/ StartDecision(p) \/ StartContainer(p)
             \/ DeadlockVictim(p) \/ Crash(p)
      PROVE  UNCHANGED rows
  BY <1>5
  DEF StartAdvance, StartDecision, StartContainer, Start, DeadlockVictim, Crash, Abort
<1>6. ASSUME NEW p \in Sessions, Step(p)
      PROVE  \/ Moves(p)
             \/ Fixed /\ (Kept \/ Cancels \/ Refuses(p))
  <2>1. CASE \/ LockFunnel(p) \/ Gate(p) \/ Route(p) \/ CancelPending(p)
             \/ LockContainer(p) \/ Begin(p) \/ LockRequest(p) \/ LockFunnels(p)
    <3>1. UNCHANGED rows
      BY <2>1
      DEF LockFunnel, Gate, Route, CancelPending, LockContainer, Begin, LockRequest,
          LockFunnels
    <3> QED BY <1>1, <3>1
  <2>2. CASE MoveDirectly(p) \/ MoveApproved(p)
    BY <2>2 DEF Moves
  <2>3. ASSUME KeepFilled(p), UNCHANGED <<container, codes, history>> PROVE Fixed
    BY <2>3, Filling DEF Fixed
  <2>4. CASE FindExisting(p)
    <3>1. Kept /\ UNCHANGED <<container, codes, history>>
      BY <2>4 DEF FindExisting, Kept
    <3>2. KeepFilled(p) \/ UNCHANGED funnel
      BY <2>4 DEF FindExisting
    <3> QED BY <1>2, <2>3, <3>1, <3>2
  <2>5. CASE InsertRequest(p)
    <3> DEFINE new == [funnel |-> tx[p].funnel, from |-> tx[p].from, to |-> tx[p].target,
                       requester |-> tx[p].member, approver |-> tx[p].approver,
                       status |-> "pending"]
    <3>1. /\ KeepFilled(p) /\ UNCHANGED <<container, codes, history>>
          /\ requests' = Append(requests, new)
      BY <2>5 DEF InsertRequest
    <3>2. RowsTyped /\ requests \in Seq(Request)
      BY Frames DEF RowsTyped
    <3> HIDE DEF new
    <3>3. Kept
      BY <3>1, <3>2, RequestTypes DEF Kept
    <3> QED BY <2>3, <3>1, <3>3
  <2>6. CASE CancelOwn(p)
    <3>1. UNCHANGED <<funnel, container, codes, history>> /\ Close(Undecided(p), "cancelled")
      BY <2>6 DEF CancelOwn
    <3>2. Undecided(p) \in SUBSET Pending
      BY DEF Undecided
    <3> QED BY <1>2, <3>1, <3>2 DEF Cancels
  <2>7. CASE RejectRequest(p)
    <3>1. UNCHANGED <<funnel, container, codes, history>>
      BY <2>7 DEF RejectRequest
    <3>2. UNCHANGED requests \/ Refuses(p)
      BY <2>7 DEF RejectRequest, Refuses, At
    <3> QED BY <1>2, <1>3, <3>1, <3>2
  <2>8. CASE CheckApproval(p)
    <3>1. \/ UNCHANGED rows
          \/ Refuses(p) /\ UNCHANGED <<funnel, container, codes, history>>
      BY <2>8 DEF CheckApproval, Abort, Obsolete, Refuses, At
    <3> QED BY <1>1, <1>2, <3>1
  <2>9. CASE CheckInformation(p)
    <3>1. Approves(p, {"decide"})
      BY <2>9, Places DEF CheckInformation, At, Approves
    <3>2. \/ UNCHANGED rows
          \/ Refuses(p) /\ UNCHANGED <<funnel, container, codes, history>>
      BY <2>9, <3>1 DEF CheckInformation, Obsolete, Refuses
    <3> QED BY <1>1, <1>2, <3>2
  <2>10. CASE EditContainer(p)
    <3>1. UNCHANGED <<funnel, codes, requests, history>>
      BY <2>10 DEF EditContainer
    <3>2. container'.code = container.code
      BY <2>10, Frames DEF EditContainer, RowsTyped
    <3> QED BY <1>3, <3>1, <3>2 DEF Fixed
  <2>11. CASE CloseRequests(p)
    <3>1. UNCHANGED <<funnel, container, codes, history>> /\ Close(Pending, "cancelled")
      BY <2>11 DEF CloseRequests
    <3> QED BY <1>2, <3>1 DEF Cancels
  <2> QED
    BY <1>6, <2>1, <2>2, <2>4, <2>5, <2>6, <2>7, <2>8, <2>9, <2>10, <2>11 DEF Step
<1>7. ASSUME NEW f \in Funnels, EditFunnel(f) PROVE Fixed /\ Kept
  <2>1. RowsTyped
    BY DEF FunnelInv, RowsOK
  <2>2. \A g \in Funnels : funnel'[g].stage = funnel[g].stage
    BY <1>7, <2>1 DEF EditFunnel, RowsTyped
  <2> QED BY <1>7, <2>2 DEF EditFunnel, Fixed, Kept
<1>8. CASE ChangeAuthority
  BY <1>1, <1>8 DEF ChangeAuthority
<1> QED BY <1>1, <1>4, <1>5, <1>6, <1>7, <1>8 DEF Next

\* A move starts from the stage that the funnel is in, with the funnel's row locked.
LEMMA MoveFacts ==
  ASSUME FunnelInv, NEW p \in Sessions, Moves(p)
  PROVE  /\ tx[p].funnel \in Funnels
         /\ pc[p] = "move" /\ FunnelRow(tx[p].funnel) \in held[p]
         /\ tx[p].from = funnel[tx[p].funnel].stage
         /\ CanTransition(tx[p].from, tx[p].target)
         /\ AllocateCode(tx[p].target)
         /\ \E r \in Nat : Moved(p, r)
<1>1. RowsTyped /\ SessionsTyped /\ SessionOK(p)
  BY Frames
<1>2. pc[p] = "move" /\ tx[p].kind \in {"advance", "approve"}
  BY DEF Moves, MoveDirectly, MoveApproved, At
<1>3. \E r \in Nat : ApplyStageMove(p, r)
  BY <1>1, Types DEF Moves, MoveDirectly, MoveApproved
<1>4. AllocateCode(tx[p].target) /\ \E r \in Nat : Moved(p, r)
  BY <1>1, <1>3, Moving DEF ApplyStageMove
<1>5. /\ FunnelRow(tx[p].funnel) \in held[p]
      /\ tx[p].from = funnel[tx[p].funnel].stage
  BY <1>1, <1>2 DEF SessionOK, FunnelHeld, Advances, Approves
<1>6. CanTransition(tx[p].from, tx[p].target)
  BY <1>1, <1>2 DEF SessionOK, Gated, Checked, Advances, Approves
<1> QED BY <1>1, <1>2, <1>4, <1>5, <1>6, Types

-----------------------------------------------------------------------------
(* The project code.                                                       *)

\* Some funnel has entered a stage that allocates the code.
Entered == \E f \in Funnels : \E e \in Entries(f) : Pipeline[e.to].allocates

LEMMA CodeInit == Init => CodeAllocatedOnce
<1> SUFFICES ASSUME Init PROVE CodeAllocatedOnce
  OBVIOUS
<1>1. container.code = 0 /\ codes = 0
  BY DEF Init
<1>2. \A f \in Funnels : Entries(f) = {}
  BY DEF Init, Entries
<1> QED BY <1>1, <1>2 DEF CodeAllocatedOnce

LEMMA CodeStep ==
  ASSUME FunnelInv, CodeAllocatedOnce, [Next]_vars PROVE CodeAllocatedOnce'
<1>1. /\ container.code = codes /\ codes <= 1 /\ (codes = 1 <=> Entered)
      /\ codes \in Nat /\ RowsTyped
  BY DEF CodeAllocatedOnce, Entered, FunnelInv, RowsOK, RowsTyped
<1>2. CASE Fixed
  <2>1. Entered' <=> Entered
    BY <1>2 DEF Fixed, Entered, Entries
  <2> QED BY <1>1, <1>2, <2>1 DEF Fixed, CodeAllocatedOnce, Entered
<1>3. ASSUME NEW p \in Sessions, Moves(p) PROVE CodeAllocatedOnce'
  <2> DEFINE f == tx[p].funnel
             n == Len(history[f])
             t == tx[p].target
  <2>1. PICK r \in Nat : Moved(p, r)
    BY <1>3, MoveFacts
  <2>2. f \in Funnels /\ AllocateCode(t)
    BY <1>3, MoveFacts
  <2>3. DOMAIN history[f] = 1 .. n /\ n \in Nat
    BY <1>1, <2>2, HistoryTypes
  <2>4. /\ \A g \in Funnels \ {f} : history'[g] = history[g]
        /\ DOMAIN history'[f] = 1 .. n + 1 /\ history'[f][n + 1].to = t
        /\ \A i \in 1 .. n : history'[f][i] = history[f][i]
    BY <2>1 DEF Moved, Entry
  <2> HIDE DEF n, f, t
  <2>5. Entered' <=> Entered \/ Pipeline[t].allocates
    <3>1. Entered' <=> \E g \in Funnels : \E i \in DOMAIN history'[g] :
                         Pipeline[history'[g][i].to].allocates
      BY DEF Entered, Entries
    <3>2. Entered <=> \E g \in Funnels : \E i \in DOMAIN history[g] :
                        Pipeline[history[g][i].to].allocates
      BY DEF Entered, Entries
    <3>3. ASSUME Entered PROVE Entered'
      <4>1. PICK g \in Funnels : \E i \in DOMAIN history[g] :
                   Pipeline[history[g][i].to].allocates
        BY <3>2, <3>3
      <4>2. PICK i \in DOMAIN history[g] : Pipeline[history[g][i].to].allocates
        BY <4>1
      <4>3. i \in DOMAIN history'[g] /\ history'[g][i] = history[g][i]
        BY <2>3, <2>4
      <4> QED BY <3>1, <4>2, <4>3
    <3>4. ASSUME Pipeline[t].allocates PROVE Entered'
      <4>1. n + 1 \in DOMAIN history'[f]
        BY <2>3, <2>4
      <4> QED BY <2>2, <2>4, <3>1, <3>4, <4>1
    <3>5. ASSUME Entered', ~Pipeline[t].allocates PROVE Entered
      <4>1. PICK g \in Funnels : \E i \in DOMAIN history'[g] :
                   Pipeline[history'[g][i].to].allocates
        BY <3>1, <3>5
      <4>2. PICK i \in DOMAIN history'[g] : Pipeline[history'[g][i].to].allocates
        BY <4>1
      <4>3. ~(g = f /\ i = n + 1)
        BY <2>4, <3>5, <4>2
      <4>4. i \in DOMAIN history[g] /\ history'[g][i] = history[g][i]
        <5>1. CASE g = f
          <6>1. i \in 1 .. n
            BY <2>3, <2>4, <4>3, <5>1
          <6> QED BY <2>3, <2>4, <5>1, <6>1
        <5>2. CASE g # f
          BY <2>4, <5>2
        <5> QED BY <5>1, <5>2
      <4> QED BY <3>2, <4>2, <4>4
    <3> QED BY <3>3, <3>4, <3>5
  <2>6. CASE Pipeline[t].allocates /\ container.code = 0
    <3>1. codes' = codes + 1 /\ container'.code = codes + 1
      BY <1>1, <2>2, <2>6 DEF AllocateCode, RowsTyped
    <3>3. codes = 0
      BY <1>1, <2>6
    <3>2. codes' = 1 /\ container'.code = 1
      BY <3>1, <3>3
    <3> QED BY <2>5, <2>6, <3>2 DEF CodeAllocatedOnce, Entered
  <2>7. CASE ~(Pipeline[t].allocates /\ container.code = 0)
    <3>1. codes' = codes /\ container'.code = container.code
      BY <2>2, <2>7 DEF AllocateCode
    <3>2. Pipeline[t].allocates => codes = 1
      BY <1>1, <2>7
    <3> QED BY <1>1, <2>5, <3>1, <3>2 DEF CodeAllocatedOnce, Entered
  <2> QED BY <2>6, <2>7
<1> QED BY <1>2, <1>3, Outcomes

\* ensureOpportunityProjectCode: the code is allocated when the first Funnel of the
\* Opportunity enters such a stage, and no number is spent on another entry.
THEOREM CodeSpentOnce == Spec => []CodeAllocatedOnce
<1>1. FunnelInv /\ CodeAllocatedOnce /\ [Next]_vars => CodeAllocatedOnce'
  BY CodeStep
<1> QED BY <1>1, CodeInit, InvAlways, PTL DEF Spec

-----------------------------------------------------------------------------
(* What a step may never do.                                               *)

\* A move leaves the other funnels' stages and histories alone.
LEMMA ElsewhereStill ==
  ASSUME FunnelInv, NEW p \in Sessions, Moves(p), NEW f \in Funnels, f # tx[p].funnel
  PROVE  funnel'[f] = funnel[f] /\ history'[f] = history[f]
BY MoveFacts DEF Moved

\* The requests that a move closes.
LEMMA MoveCloses ==
  ASSUME FunnelInv, NEW p \in Sessions, Moves(p)
  PROVE  \/ /\ MoveDirectly(p) /\ Superseded(p) \subseteq Pending
            /\ Close(Superseded(p), "cancelled")
         \/ /\ MoveApproved(p) /\ Approves(p, {"move"})
            /\ {tx[p].request} \subseteq Pending /\ Close({tx[p].request}, "approved")
<1>1. SessionOK(p)
  BY Frames
<1>2. CASE MoveDirectly(p)
  BY <1>2 DEF MoveDirectly, Superseded, PendingOf
<1>3. CASE MoveApproved(p)
  <2>1. Approves(p, {"move"}) /\ Close({tx[p].request}, "approved")
    BY <1>3 DEF MoveApproved, Approves, At
  <2>2. tx[p].request \in Pending
    BY <1>1, <2>1 DEF SessionOK, Claimed, Approves
  <2> QED BY <1>3, <2>1, <2>2
<1> QED BY <1>2, <1>3 DEF Moves

LEMMA RefusedPending ==
  ASSUME FunnelInv, NEW p \in Sessions, Refuses(p)
  PROVE  /\ tx[p].request \in Pending /\ RequestRow(tx[p].request) \in held[p]
         /\ FindManagerApprover(requests[tx[p].request].requester, eligible)
              \in tx[p].standing
<1>1. SessionOK(p)
  BY Frames
<1>2. pc[p] = "check" \/ Approves(p, {"decide"})
  BY DEF Refuses
<1> QED BY <1>1, <1>2 DEF SessionOK, Claimed, Approves

LEMMA StagesFinal ==
  ASSUME FunnelInv, [Next]_vars, NEW f \in Funnels, Kind(funnel[f].stage) \in {"WON", "LOST"}
  PROVE  funnel'[f].stage = funnel[f].stage
<1>1. CASE Fixed
  BY <1>1 DEF Fixed
<1>2. ASSUME NEW p \in Sessions, Moves(p) PROVE funnel'[f].stage = funnel[f].stage
  <2>1. f # tx[p].funnel
    BY <1>2, MoveFacts DEF CanTransition
  <2> QED BY <1>2, <2>1, ElsewhereStill
<1> QED BY <1>1, <1>2, Outcomes

LEMMA RequestsFinal ==
  ASSUME FunnelInv, [Next]_vars, NEW r \in DOMAIN requests, requests[r].status # "pending"
  PROVE  requests'[r] = requests[r]
<1>1. RowsTyped /\ r \notin Pending
  BY DEF FunnelInv, RowsOK, Pending
<1>2. ASSUME NEW some, some \subseteq Pending,
             NEW status \in {"approved", "rejected", "cancelled"}, Close(some, status)
      PROVE  requests'[r] = requests[r]
  BY <1>1, <1>2, Closing
<1>3. CASE Kept
  BY <1>3 DEF Kept
<1>4. CASE Cancels
  BY <1>2, <1>4 DEF Cancels
<1>5. ASSUME NEW p \in Sessions, Refuses(p) PROVE requests'[r] = requests[r]
  <2>1. {tx[p].request} \subseteq Pending /\ Close({tx[p].request}, "rejected")
    BY <1>5, RefusedPending DEF Refuses
  <2> QED BY <1>2, <2>1
<1>6. ASSUME NEW p \in Sessions, Moves(p) PROVE requests'[r] = requests[r]
  BY <1>2, <1>6, MoveCloses
<1> QED BY <1>3, <1>4, <1>5, <1>6, Outcomes

\* "Closed Won and Closed Lost are terminal", and a request decided in one of the
\* five ways is never decided again: not by a transaction that read it before
\* another one closed it.
THEOREM EndsStand == Spec => EndsAreFinal
<1>1. FunnelInv /\ [Next]_vars =>
        \A f \in Funnels : Kind(funnel[f].stage) \in {"WON", "LOST"} =>
          funnel'[f].stage = funnel[f].stage
  BY StagesFinal
<1>2. FunnelInv /\ [Next]_vars =>
        \A r \in DOMAIN requests :
          requests[r].status # "pending" => requests'[r] = requests[r]
  BY RequestsFinal
<1> QED BY <1>1, <1>2, InvAlways, PTL
        DEF Spec, EndsAreFinal, TerminalIsFinal, DecisionsAreFinal

LEMMA DirectClears ==
  ASSUME FunnelInv, [Next]_vars, NEW f \in Funnels,
         Len(history'[f]) > Len(history[f]),
         history'[f][Len(history'[f])].request = 0
  PROVE  PendingOf(f)' = {}
<1>1. RowsTyped /\ Len(history[f]) \in Nat
  BY HistoryTypes DEF FunnelInv, RowsOK
<1>2. history'[f] # history[f]
  BY <1>1
<1>3. PICK p \in Sessions : Moves(p)
  BY <1>2, Outcomes DEF Fixed
<1>4. f = tx[p].funnel
  BY <1>2, <1>3, ElsewhereStill
<1>5. CASE MoveDirectly(p)
  <2>1. Superseded(p) = PendingOf(f) /\ Superseded(p) \subseteq Pending
    BY <1>4 DEF Superseded, PendingOf
  <2>2. Close(Superseded(p), "cancelled")
    BY <1>5 DEF MoveDirectly
  <2>3. /\ Pending' = Pending \ PendingOf(f)
        /\ \A r \in DOMAIN requests : requests'[r].funnel = requests[r].funnel
    BY <1>1, <2>1, <2>2, Closing
  <2>4. ASSUME NEW r \in PendingOf(f)' PROVE FALSE
    <3>1. r \in Pending' /\ requests'[r].funnel = f
      BY DEF PendingOf
    <3>2. r \in Pending /\ r \notin PendingOf(f) /\ r \in DOMAIN requests
      BY <2>3, <3>1 DEF Pending
    <3> QED BY <2>3, <3>1, <3>2 DEF PendingOf
  <2> QED BY <2>4
<1>6. CASE MoveApproved(p)
  <2>1. /\ tx[p].request \in Nat /\ tx[p].request \in DOMAIN requests
        /\ SessionsTyped /\ ApplyStageMove(p, tx[p].request)
    BY <1>3, <1>6, MoveCloses, Frames, Types DEF MoveApproved, Approves, SessionOK, Asked
  <2>2. Moved(p, tx[p].request)
    BY <1>1, <2>1, Moving
  <2>3. history'[f][Len(history'[f])].request = tx[p].request
    BY <1>4, <2>2 DEF Moved, Entry
  <2>4. tx[p].request # 0
    BY <1>1, <2>1, RequestTypes
  <2> QED BY <2>3, <2>4
<1> QED BY <1>3, <1>5, <1>6 DEF Moves

\* The member who decides is an approver the requester has had since the request's
\* row was locked.
LEMMA DecidedByApprover ==
  ASSUME FunnelInv, [Next]_vars, NEW r \in Pending,
         requests'[r].status \in {"approved", "rejected"}
  PROVE  \E p \in Sessions :
           /\ RequestRow(r) \in held[p] /\ pc'[p] = "idle"
           /\ tx[p].member # requests[r].requester
           /\ tx[p].member \in Superadmins \cup tx[p].standing
<1>1. RowsTyped /\ r \in DOMAIN requests /\ requests[r].status = "pending"
  BY DEF FunnelInv, RowsOK, Pending
<1>2. ~Kept
  BY <1>1 DEF Kept
<1>3. ASSUME NEW some, some \subseteq Pending, Close(some, "cancelled") PROVE FALSE
  <2>1. requests'[r].status = "cancelled" \/ requests'[r] = requests[r]
    BY <1>1, <1>3, Closing
  <2> QED BY <1>1, <2>1
<1>4. ~Cancels
  BY <1>3 DEF Cancels
<1>5. ASSUME NEW some, some \subseteq Pending, r \notin some,
             NEW status \in {"approved", "rejected", "cancelled"}, Close(some, status)
      PROVE  FALSE
  <2>1. requests'[r] = requests[r]
    BY <1>1, <1>5, Closing
  <2> QED BY <1>1, <2>1
<1>6. ASSUME NEW p \in Sessions, End(p) PROVE pc'[p] = "idle"
  BY <1>6, Frames DEF End, SessionsTyped
<1>7. ASSUME NEW p \in Sessions, Refuses(p)
      PROVE  /\ RequestRow(r) \in held[p] /\ pc'[p] = "idle"
             /\ tx[p].member # requests[r].requester
             /\ tx[p].member \in Superadmins \cup tx[p].standing
  <2>1. /\ tx[p].request \in Pending /\ RequestRow(tx[p].request) \in held[p]
        /\ FindManagerApprover(requests[tx[p].request].requester, eligible)
             \in tx[p].standing
    BY <1>7, RefusedPending
  <2>2. Close({tx[p].request}, "rejected") /\ End(p)
    BY <1>7 DEF Refuses
  <2>3. r = tx[p].request
    BY <1>5, <2>1, <2>2
  <2>4. CASE CurrentApprover(p)
    BY <1>6, <2>1, <2>2, <2>3, <2>4 DEF CurrentApprover, AssignedApprover
  <2>5. CASE Approves(p, {"decide"})
    <3>1. /\ tx[p].member # requests[tx[p].request].requester
          /\ tx[p].member \in Superadmins \cup tx[p].standing
      BY <2>5, Frames DEF SessionOK, Checked, Approves
    <3> QED BY <1>6, <2>1, <2>2, <2>3, <3>1
  <2> QED BY <1>7, <2>4, <2>5 DEF Refuses
<1>8. ASSUME NEW p \in Sessions, Moves(p)
      PROVE  /\ RequestRow(r) \in held[p] /\ pc'[p] = "idle"
             /\ tx[p].member # requests[r].requester
             /\ tx[p].member \in Superadmins \cup tx[p].standing
  <2>1. /\ MoveApproved(p) /\ Approves(p, {"move"})
        /\ {tx[p].request} \subseteq Pending /\ Close({tx[p].request}, "approved")
    BY <1>3, <1>8, MoveCloses
  <2>2. r = tx[p].request
    BY <1>5, <2>1
  <2>3. /\ RequestRow(tx[p].request) \in held[p]
        /\ tx[p].member # requests[tx[p].request].requester
        /\ tx[p].member \in Superadmins \cup tx[p].standing
    BY <2>1, Frames DEF SessionOK, Claimed, Checked, Approves
  <2>4. pc'[p] = "idle"
    BY <1>6, <2>1 DEF MoveApproved
  <2> QED BY <2>2, <2>3, <2>4
<1> QED BY <1>2, <1>4, <1>7, <1>8, Outcomes

\* decideApproval: nobody decides a request of his own, and whoever decides was the
\* requester's manager approver at an instant after the request's row was locked; a
\* direct move leaves no pending request of its funnel.
THEOREM DecisionsAllowed == Spec => DecidedAsAllowed
<1>1. FunnelInv /\ [Next]_vars =>
        \A f \in Funnels :
          /\ Len(history'[f]) > Len(history[f])
          /\ history'[f][Len(history'[f])].request = 0
          => PendingOf(f)' = {}
  BY DirectClears
<1>2. FunnelInv /\ [Next]_vars =>
        \A r \in Pending :
          requests'[r].status \in {"approved", "rejected"} =>
            \E p \in Sessions :
              /\ RequestRow(r) \in held[p] /\ pc'[p] = "idle"
              /\ tx[p].member # requests[r].requester
              /\ tx[p].member \in Superadmins \cup tx[p].standing
  BY DecidedByApprover
<1> QED BY <1>1, <1>2, InvAlways, PTL
        DEF Spec, DecidedAsAllowed, DirectMoveClears, DecidedInAuthority

LEMMA InformedMove ==
  ASSUME FunnelInv, [Next]_vars, NEW p \in Sessions,
         Len(history'[tx[p].funnel]) > Len(history[tx[p].funnel]), pc[p] = "move"
  PROVE  Missing(tx[p].from, tx[p].target, tx[p].kanban,
                 funnel'[tx[p].funnel].info \cup container'.info) = {}
<1> DEFINE f == tx[p].funnel
<1>1. /\ SessionOK(p) /\ f \in Funnels /\ Len(history[f]) \in Nat
      /\ tx[p].kind \in {"advance", "approve"}
  BY Frames, Types, Places, HistoryTypes
<1>2. history'[f] # history[f]
  BY <1>1
<1>3. PICK q \in Sessions : Moves(q)
  BY <1>1, <1>2, Outcomes DEF Fixed
<1>4. f = tx[q].funnel
  BY <1>1, <1>2, <1>3, ElsewhereStill
<1>5. q = p
  <2>1. FunnelRow(f) \in held[p]
    BY <1>1 DEF SessionOK, FunnelHeld, Advances, Approves
  <2>2. FunnelRow(f) \in held[q]
    BY <1>3, <1>4, MoveFacts
  <2> QED BY <2>1, <2>2 DEF FunnelInv, LocksOK
<1>6. funnel'[f].info \cup container'.info = InfoOf(f) \cup tx[p].fill
  <2>1. PICK r \in Nat : Moved(p, r)
    BY <1>3, <1>5, MoveFacts
  <2>2. funnel'[f].info = funnel[f].info \cup tx[p].fill /\ container'.info = container.info
    BY <2>1 DEF Moved
  <2> QED BY <2>2 DEF InfoOf
<1>7. CASE tx[p].kind = "advance"
  BY <1>1, <1>6, <1>7 DEF SessionOK, Gated, Advances
<1>8. CASE tx[p].kind = "approve"
  <2>1. tx[p].kanban = FALSE /\ tx[p].fill = {}
    BY <1>1, <1>8, Frames, Types DEF SessionOK, Asked
  <2>2. InfoOf(f) \cup tx[p].fill = InfoOf(f)
    BY <2>1
  <2>3. Missing(tx[p].from, tx[p].target, FALSE, InfoOf(f)) = {}
    BY <1>1, <1>8 DEF SessionOK, Informed, Approves
  <2> QED BY <1>6, <2>1, <2>2, <2>3
<1> QED BY <1>1, <1>7, <1>8

\* Gate and ApprovalMisses: whatever was edited between the check and the commit,
\* the information the move had to find is there when it commits.
THEOREM MovesAreInformed == Spec => RequirementsHoldAtMove
<1>1. FunnelInv /\ [Next]_vars =>
        \A p \in Sessions :
          LET t == tx[p] IN
          Len(history'[t.funnel]) > Len(history[t.funnel]) /\ pc[p] = "move" =>
            Missing(t.from, t.target, t.kanban,
                    funnel'[t.funnel].info \cup container'.info) = {}
  BY InformedMove
<1> QED BY <1>1, InvAlways, PTL DEF Spec, RequirementsHoldAtMove
=============================================================================
