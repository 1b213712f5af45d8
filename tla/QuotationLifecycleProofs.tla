----------------------- MODULE QuotationLifecycleProofs -----------------------
(***************************************************************************)
(* Theorems about the quotations of a funnel (QuotationLifecycle), for any *)
(* number of sessions, quotations, owners, amounts and transactions: their *)
(* numbers, their transitions, the owner of a pending approval and the     *)
(* amount of the funnel.                                                   *)
(*                                                                         *)
(* The argument: what a transaction found of the quotation it has locked   *)
(* still stands when it commits, because whoever commits meanwhile changes *)
(* only rows it has locked itself (Effects, Undisturbed).  So each step is *)
(* either local to one transaction (LocalStep) or a commit, and a commit   *)
(* is checked against the tables once, operation by operation.             *)
(***************************************************************************)
EXTENDS QuotationLifecycle, SequenceTheorems, FiniteSetTheorems, WellFoundedInduction, TLAPS

-----------------------------------------------------------------------------
(* The inductive invariant.                                                *)

Owning == AllOperations \ {"create", "setPrimary", "changeOwner", "numbering"}
Removals == {"rejectCustomer", "delete"}
Promoting == {"setPrimary", "accept"} \cup Removals
PastOwn == {"sync", "reassign", "clear", "take", "raise", "funnel", "settings", "commit"}

Flagged(i) == rows[i].primary /\ Live(i)
Pending(i) == Live(i) /\ rows[i].status = "pending_approval"

\* What an operation found of its row when it locked it.
Ready(op, r) ==
  /\ op \in {"edit", "submit"} => ~r.deleted /\ r.status = "draft"
  /\ op \in {"approve", "rejectApproval", "recall"} =>
       ~r.deleted /\ r.status = "pending_approval"
  /\ op \in {"returnToDraft", "send"} => ~r.deleted /\ r.status = "approved"
  /\ op \in {"accept", "rejectCustomer"} => ~r.deleted /\ r.status = "sent"
  /\ op = "delete" => ~r.deleted

\* A transaction t that holds the locks h: it names rows that exist, and the fields
\* an operation has no use for are blank.
Refers(t) ==
  /\ t.q <= Len(rows) /\ t.next <= Len(rows)
  /\ t.taken \subseteq DOMAIN rows /\ t.need \subseteq t.taken
  /\ t.at # "idle" => t.op # "none"
  /\ t.op \in {"none", "create", "changeOwner", "numbering"} <=> t.q = 0
  /\ t.op \in {"create", "edit", "send"} => t.amount # 0
  /\ t.op \notin Promoting => t.next = 0
  /\ t.op \notin Promoting \cup {"changeOwner"} => t.taken = {}
  /\ t.net # 0 => t.op \in {"edit", "send"} /\ t.at \in {"funnel", "commit"}

\* Which operations come to which points.
Walks(t) ==
  /\ t.at = "read" => t.op \in {"create", "setPrimary", "delete", "numbering"}
  /\ t.at = "account" => t.op \in {"submit", "changeOwner"}
  /\ t.at = "own" => t.op \in Owning
  /\ t.at = "sync" => t.op \in {"edit", "send"}
  /\ t.at = "reassign" => t.op \in Removals
  /\ t.at \in {"clear", "raise"} => t.op \in Promoting
  /\ t.at = "take" => t.op \in Promoting \cup {"changeOwner"}
  /\ t.at = "funnel" => t.op \notin {"submit", "accept", "numbering"}
  /\ t.at = "settings" => t.op \in {"create", "duplicate", "numbering"}

\* What it has locked by then stays locked to its end, and as it was found.
Holds(t, h) ==
  /\ t.at \in PastOwn /\ t.op \in Owning =>
       QuotationRow(t.q) \in h /\ Ready(t.op, rows[t.q])
  /\ t.at # "take" => t.need = {}
  /\ \A i \in t.taken \ t.need : QuotationRow(i) \in h
  /\ t.at \in {"funnel", "commit"} /\ t.next # 0 => QuotationRow(t.next) \in h

\* The quotation to become primary, and how the funnel learns of it.
Promotes(t, h) ==
  /\ t.op = "setPrimary" =>
       /\ t.at \in PastOwn => t.next = t.q
       /\ t.at = "commit" => FunnelRow \in h
  /\ t.op = "accept" /\ t.at \in PastOwn => t.next = t.q
  /\ t.op \in Removals =>
       /\ t.next # t.q
       /\ t.at \in {"clear", "take", "raise"} => t.next # 0
       /\ t.at \in {"read", "own", "reassign"} \/ t.next = 0 => t.next = 0 /\ t.taken = {}
       /\ t.at = "commit" /\ FunnelRow \notin h =>
            t.next = 0 /\ funnel.primary # t.q

\* An edit or a sending takes the amount of its own quotation to the funnel if, and
\* only if, that is the primary by flag and by pointer.
Syncs(t) ==
  t.op \in {"edit", "send"} =>
    /\ t.at \in {"sync", "funnel"} => rows[t.q].primary
    /\ t.at = "funnel" => t.net # 0
    /\ t.net # 0 => /\ rows[t.q].primary
                    /\ funnel.primary = t.q => t.net = t.amount
    /\ t.at = "commit" /\ t.net = 0 /\ rows[t.q].primary => funnel.primary # t.q

\* A submission and a change of owner exclude each other by the account's locks.
Owners(t, h) ==
  /\ t.op = "submit" =>
       /\ t.at \in {"own", "commit"} => AccountShare \in h
       /\ t.at = "commit" => t.under = owner
  /\ t.op = "changeOwner" =>
       /\ t.at \in {"account", "funnel", "take", "commit", "idle"}
       /\ t.at \in {"funnel", "take", "commit"} => AccountRow \in h /\ owner < MaxOwners
       /\ t.at \in {"take", "commit"} => \A i \in DOMAIN rows : Pending(i) => i \in t.taken

\* A series claimed is the counter's until the claim is committed, for the settings are
\* locked; who commits a creation without one has a quotation to take it from.
Claims(t, h) ==
  /\ t.series # 0 => t.op \in Creations \cup {"numbering"}
  /\ t.op \in Creations /\ t.series # 0 =>
       t.at = "commit" /\ SettingsRow \in h /\ t.series = counter /\ counter < MaxSeries
  /\ t.at = "commit" /\ t.op = "duplicate" => t.series # 0
  /\ t.at = "commit" /\ t.op = "create" /\ t.series = 0 => Len(rows) # 0
  /\ t.op = "numbering" =>
       /\ t.at \in {"idle", "read", "settings", "commit"}
       /\ t.at \in {"settings", "commit"} => t.series # 0
       /\ t.at = "commit" => SettingsRow \in h

TxOK(t, h) ==
  /\ Refers(t) /\ Walks(t) /\ Holds(t, h) /\ Promotes(t, h)
  /\ Syncs(t) /\ Owners(t, h) /\ Claims(t, h)

LocksOK ==
  \A s, u \in Sessions : s # u =>
    /\ held[s] \cap held[u] \subseteq {AccountShare}
    /\ ~(AccountShare \in held[s] /\ AccountRow \in held[u])

\* Versions in use are no higher than the quotations are many.
NumbersBounded == \A i \in DOMAIN rows : rows[i].version <= Len(rows)

\* The counter is past every series given out, until it is set back.
CounterAhead == rewound \/ \A i \in DOMAIN rows : rows[i].series < counter

OneFlagged == \A i, j \in DOMAIN rows : Flagged(i) /\ Flagged(j) => i = j

AcceptedLive(i) == rows[i].status = "accepted" /\ Live(i)

\* The pointer's quotation carries the flag and gives the amount, or an accepted
\* one has taken the flag.
AmountStands ==
  LET p == funnel.primary IN
  p # 0 /\ DrivesValue(rows[p]) /\ ~AcceptanceDeleted =>
    \/ rows[p].primary /\ funnel.amount = rows[p].amount
    \/ \E x \in DOMAIN rows : x # p /\ AcceptedLive(x) /\ Flagged(x)

QuotationInv ==
  /\ TypeOK /\ LocksOK /\ NumbersBounded /\ CounterAhead
  /\ PendingUnderOwner /\ OneFlagged /\ AmountStands
  /\ \A s \in Sessions : TxOK(tx[s], held[s])
-----------------------------------------------------------------------------
(* Sets of numbers, sequences, and points of a transaction.                *)

LEMMA NatMinimum ==
  ASSUME NEW T, T \subseteq Nat, T # {}
  PROVE  \E x \in T : \A y \in T : x <= y
<1> DEFINE R == OpToRel(<, Nat)
<1>1. IsWellFoundedOn(R, Nat)
  BY NatLessThanWellFounded
<1>2. \A x, y \in Nat : y < x => <<y, x>> \in R
  BY DEF OpToRel
<1> HIDE DEF R
<1>3. PICK x \in T : \A y \in T : ~(<<y, x>> \in R)
  BY <1>1, WFMin
<1>4. ASSUME NEW y \in T PROVE x <= y
  <2>1. y \in Nat /\ x \in Nat
    OBVIOUS
  <2>2. ~(y < x)
    BY <1>2, <1>3, <2>1
  <2> QED BY <2>1, <2>2
<1> QED BY <1>4

LEMMA NatOrder == \A m, n \in Nat : m <= n \/ n < m
OBVIOUS

LEMMA MaxBounded ==
  ASSUME NEW S, NEW n \in Nat, S \subseteq 0 .. n, S # {}
  PROVE  Max(S) \in S /\ \A x \in S : x <= Max(S)
<1> DEFINE T == {n - x : x \in S}
<1>1. T \subseteq Nat /\ T # {}
  OBVIOUS
<1>2. PICK t \in T : \A u \in T : t <= u
  BY <1>1, NatMinimum
<1>3. PICK m \in S : t = n - m
  OBVIOUS
<1>4. \A x \in S : n - x \in T
  OBVIOUS
<1>5. ASSUME NEW x \in S PROVE m >= x
  BY <1>2, <1>3, <1>4
<1>6. \E z \in S : \A y \in S : z >= y
  BY <1>5
<1> QED BY <1>6 DEF Max

LEMMA AtMostOne ==
  ASSUME NEW n \in Nat, NEW S, S \subseteq 1 .. n, Cardinality(S) <= 1,
         NEW i \in S, NEW j \in S
  PROVE  i = j
<1>1. SUFFICES ASSUME i # j PROVE FALSE
  OBVIOUS
<1>2. IsFiniteSet(1 .. n)
  BY FS_Interval
<1>3. IsFiniteSet(S)
  BY <1>2, FS_Subset
<1>4. {i} \in SUBSET S /\ {i} # S
  BY <1>1
<1>5. /\ Cardinality({i}) <= Cardinality(S)
      /\ Cardinality(S) = Cardinality({i}) => S = {i}
  BY <1>3, <1>4, FS_Subset
<1>6. Cardinality({i}) = 1
  BY FS_Singleton
<1>7. Cardinality(S) \in Nat
  BY <1>3, FS_CardinalityType
<1> QED BY <1>1, <1>4, <1>5, <1>6, <1>7

LEMMA FunctionIsSeq ==
  ASSUME NEW S, NEW n \in Nat, NEW f \in [1 .. n -> S]
  PROVE  f \in Seq(S) /\ Len(f) = n /\ DOMAIN f = 1 .. n
<1>1. f \in Seq(S)
  BY SeqDef
<1>2. DOMAIN f = 1 .. n
  OBVIOUS
<1>3. Len(f) \in Nat /\ DOMAIN f = 1 .. Len(f)
  BY <1>1, LenProperties
<1> QED BY <1>1, <1>2, <1>3

\* A step of a transaction to another point keeps its other fields.
LEMMA ToPoint ==
  ASSUME NEW t \in Tx, NEW p \in Point
  PROVE  LET u == [t EXCEPT !.at = p] IN
         /\ u \in Tx /\ u.at = p
         /\ u.op = t.op /\ u.q = t.q /\ u.primary = t.primary /\ u.next = t.next
         /\ u.need = t.need /\ u.taken = t.taken /\ u.amount = t.amount
         /\ u.net = t.net /\ u.under = t.under /\ u.series = t.series
BY DEF Tx

LEMMA NoTxType == NoTx \in Tx
BY QuotationAssumption DEF NoTx, Tx, Point, IdOr0

\* The quotations are numbered from 1, and 0 names none of them.
LEMMA Numbered ==
  ASSUME TypeOK
  PROVE  /\ Len(rows) \in 0 .. MaxRows /\ DOMAIN rows = 1 .. Len(rows)
         /\ DOMAIN rows \subseteq Ids /\ 0 \notin DOMAIN rows
         /\ \A i \in DOMAIN rows : rows[i] \in Row
         /\ \A i \in IdOr0 : i <= Len(rows) /\ i # 0 => i \in DOMAIN rows
         /\ \A i \in DOMAIN rows : i \in IdOr0 /\ i <= Len(rows)
         /\ 0 \in IdOr0 /\ 0 <= Len(rows) /\ funnel.primary \in IdOr0
<1>1. /\ Len(rows) \in Nat /\ rows \in [1 .. Len(rows) -> Row]
      /\ DOMAIN rows = 1 .. Len(rows) /\ Len(rows) <= MaxRows
  BY LenProperties DEF TypeOK
<1>2. MaxRows \in Nat
  BY QuotationAssumption
<1>3. funnel.primary \in 0 .. Len(rows)
  BY DEF TypeOK
<1> QED BY <1>1, <1>2, <1>3 DEF Ids, IdOr0

-----------------------------------------------------------------------------
(* Steps within one transaction.                                           *)

\* A transaction that has not begun, or has ended, is in order.
LEMMA IdleOK ==
  ASSUME TypeOK
  PROVE  TxOK(NoTx, {})
<1>1. Len(rows) \in Nat
  BY Numbered
<1> QED
  BY <1>1 DEF TxOK, Refers, Walks, Holds, Promotes, Syncs, Owners, Claims, Creations,
     NoTx, PastOwn, Owning, Removals, Promoting

\* A step that writes no table, and takes no lock another holds, keeps the invariant
\* if it keeps its own transaction in order.
LEMMA LocalStep ==
  ASSUME QuotationInv, NEW s \in Sessions, UNCHANGED tables,
         NEW t \in Tx, tx' = [tx EXCEPT ![s] = t],
         NEW h \in SUBSET Locks, held' = [held EXCEPT ![s] = h],
         starts' \in 0 .. MaxStarts,
         \A u \in Sessions \ {s} :
           /\ h \cap held[u] \subseteq {AccountShare}
           /\ AccountShare \in h => AccountRow \notin held[u]
           /\ AccountRow \in h => AccountShare \notin held[u],
         TxOK(t, h)
  PROVE  QuotationInv'
<1>1. TypeOK'
  BY DEF QuotationInv, TypeOK, tables
<1>2. LocksOK'
  <2>1. /\ \A u \in Sessions \ {s} : held'[u] = held[u]
        /\ held'[s] = h
    BY DEF QuotationInv, TypeOK
  <2> QED BY <2>1 DEF LocksOK, QuotationInv
<1>3. (NumbersBounded /\ CounterAhead /\ PendingUnderOwner /\ OneFlagged /\ AmountStands)'
  BY DEF QuotationInv, NumbersBounded, CounterAhead, PendingUnderOwner, OneFlagged,
     AmountStands, Live, Flagged, DrivesValue, AcceptanceDeleted, AcceptedLive, tables
<1>4. ASSUME NEW u \in Sessions PROVE TxOK(tx[u], held[u])'
  <2>1. tx'[u] = (IF u = s THEN t ELSE tx[u]) /\ held'[u] = (IF u = s THEN h ELSE held[u])
    BY DEF QuotationInv, TypeOK
  <2>2. TxOK(tx'[u], held'[u])
    BY <2>1 DEF QuotationInv
  <2>3. rows' = rows /\ funnel' = funnel /\ owner' = owner /\ counter' = counter
    BY DEF tables
  <2> QED
    BY <2>2, <2>3 DEF TxOK, Refers, Walks, Holds, Promotes, Syncs, Owners, Claims,
       Creations, Ready, Pending, Live
<1> QED BY <1>1, <1>2, <1>3, <1>4 DEF QuotationInv

\* Locks a step adds to its own, none of which another holds.
LEMMA Taking ==
  ASSUME QuotationInv, NEW s \in Sessions, NEW l \in Locks, l # AccountShare, l # AccountRow,
         Take(s, l)
  PROVE  /\ held' = [held EXCEPT ![s] = held[s] \cup {l}]
         /\ held[s] \cup {l} \in SUBSET Locks
         /\ \A u \in Sessions \ {s} :
              /\ (held[s] \cup {l}) \cap held[u] \subseteq {AccountShare}
              /\ AccountShare \in held[s] \cup {l} => AccountRow \notin held[u]
              /\ AccountRow \in held[s] \cup {l} => AccountShare \notin held[u]
BY DEF QuotationInv, TypeOK, LocksOK, Take, Free

LEMMA Keeping ==
  ASSUME QuotationInv, NEW s \in Sessions
  PROVE  /\ held = [held EXCEPT ![s] = held[s]]
         /\ held[s] \in SUBSET Locks
         /\ \A u \in Sessions \ {s} :
              /\ held[s] \cap held[u] \subseteq {AccountShare}
              /\ AccountShare \in held[s] => AccountRow \notin held[u]
              /\ AccountRow \in held[s] => AccountShare \notin held[u]
BY DEF QuotationInv, TypeOK, LocksOK

LEMMA EndStep ==
  ASSUME QuotationInv, NEW s \in Sessions, End(s), UNCHANGED <<tables, starts>>
  PROVE  QuotationInv'
<1>1. TypeOK
  BY DEF QuotationInv
<1>2. TxOK(NoTx, {})
  BY <1>1, IdleOK
<1>3. NoTx \in Tx
  BY NoTxType
<1>4. starts' \in 0 .. MaxStarts
  BY <1>1 DEF TypeOK
<1>5. tx' = [tx EXCEPT ![s] = NoTx] /\ held' = [held EXCEPT ![s] = {}]
  BY DEF End
<1>6. {} \in SUBSET Locks /\ UNCHANGED tables
  OBVIOUS
<1> QED BY <1>2, <1>3, <1>4, <1>5, <1>6, LocalStep

\* What the invariant says of one transaction.
LEMMA Known ==
  ASSUME QuotationInv, NEW s \in Sessions
  PROVE  /\ tx[s] \in Tx /\ held[s] \in SUBSET Locks /\ starts \in 0 .. MaxStarts
         /\ TypeOK /\ TxOK(tx[s], held[s])
BY DEF QuotationInv, TypeOK

LEMMA BeginStep ==
  ASSUME QuotationInv, NEW s \in Sessions, Begin(s)
  PROVE  QuotationInv'
<1>1. /\ tx[s] \in Tx /\ starts \in 0 .. MaxStarts /\ TypeOK
  BY Known
<1>2. PICK op \in Operations :
        \E q \in IF op \in {"create", "changeOwner", "numbering"} THEN {0} ELSE DOMAIN rows,
           amount \in IF op \in {"create", "edit", "send"} THEN Amounts ELSE {0} :
          tx' = [tx EXCEPT ![s] = [NoTx EXCEPT !.op = op, !.at = FirstPoint(op),
                                               !.q = q, !.amount = amount]]
  BY DEF Begin
<1>3. PICK q \in IF op \in {"create", "changeOwner", "numbering"} THEN {0} ELSE DOMAIN rows,
           amount \in IF op \in {"create", "edit", "send"} THEN Amounts ELSE {0} :
          tx' = [tx EXCEPT ![s] = [NoTx EXCEPT !.op = op, !.at = FirstPoint(op),
                                               !.q = q, !.amount = amount]]
  BY <1>2
<1> DEFINE t == [NoTx EXCEPT !.op = op, !.at = FirstPoint(op), !.q = q, !.amount = amount]
<1>4. op \in AllOperations
  BY QuotationAssumption
<1>5. /\ t.op = op /\ t.at = FirstPoint(op) /\ t.q = q /\ t.amount = amount
      /\ t.primary = 0 /\ t.next = 0 /\ t.need = {} /\ t.taken = {} /\ t.net = 0 /\ t.under = 0
      /\ t.series = 0
  BY DEF NoTx
<1>6. /\ FirstPoint(op) \in {"read", "account", "own"}
      /\ FirstPoint(op) = "read" <=> op \in {"create", "setPrimary", "delete", "numbering"}
      /\ FirstPoint(op) = "account" <=> op \in {"submit", "changeOwner"}
  BY DEF FirstPoint
<1>7. q \in IdOr0 /\ q <= Len(rows) /\ amount \in Amounts \cup {0}
  BY <1>1, Numbered
<1>8. t \in Tx
  <2> DEFINE p == FirstPoint(op)
  <2>1. p \in Point
    BY <1>6 DEF Point
  <2> HIDE DEF p
  <2>2. [NoTx EXCEPT !.op = op, !.at = p, !.q = q, !.amount = amount] \in Tx
    BY <1>4, <1>7, <2>1, NoTxType DEF Tx
  <2> QED BY <2>2 DEF p
<1>9. tx' = [tx EXCEPT ![s] = t]
  BY <1>3
<1>10. q # 0 <=> op \notin {"create", "changeOwner", "numbering"}
  BY <1>1, Numbered
<1>11. op \in {"create", "edit", "send"} => amount # 0
  BY QuotationAssumption
<1> HIDE DEF t
<1>12. Refers(t)
  BY <1>1, <1>4, <1>5, <1>6, <1>7, <1>10, <1>11, Numbered DEF Refers, AllOperations,
     Decisions, Creations
<1>13. Walks(t)
  BY <1>4, <1>5, <1>6 DEF Walks, Owning
<1>14. /\ Holds(t, held[s]) /\ Promotes(t, held[s])
       /\ Syncs(t) /\ Owners(t, held[s]) /\ Claims(t, held[s])
  BY <1>4, <1>5, <1>6, <1>10 DEF Holds, Promotes, Syncs, Owners, Claims, Creations,
     PastOwn, Removals, AllOperations, Decisions
<1>15. TxOK(t, held[s])
  BY <1>12, <1>13, <1>14 DEF TxOK
<1>16. UNCHANGED tables /\ held' = held
  BY DEF Begin
<1>17. starts' \in 0 .. MaxStarts
  BY <1>1, QuotationAssumption DEF Begin
<1> QED BY <1>8, <1>9, <1>15, <1>16, <1>17, Keeping, LocalStep

LEMMA ReadStep ==
  ASSUME QuotationInv, NEW s \in Sessions, Read(s)
  PROVE  QuotationInv'
<1>1. /\ tx[s] \in Tx /\ starts \in 0 .. MaxStarts /\ TypeOK /\ TxOK(tx[s], held[s])
      /\ held[s] \in SUBSET Locks
  BY Known
<1>2. UNCHANGED <<tables, starts>> /\ tx[s].at = "read"
  BY DEF Read
<1>3. CASE End(s)
  BY <1>2, <1>3, EndStep
<1>4. CASE tx[s].op = "create" /\ UNCHANGED held
           /\ tx' = [tx EXCEPT ![s].at = "funnel", ![s].primary = funnel.primary]
  <2> DEFINE t == [tx[s] EXCEPT !.at = "funnel", !.primary = funnel.primary]
  <2>1. funnel.primary \in IdOr0
    BY <1>1, Numbered
  <2>2. t \in Tx
    BY <1>1, <2>1 DEF Tx, Point
  <2>3. /\ t.at = "funnel" /\ t.op = tx[s].op /\ t.q = tx[s].q /\ t.next = tx[s].next
        /\ t.need = tx[s].need /\ t.taken = tx[s].taken /\ t.amount = tx[s].amount
        /\ t.net = tx[s].net /\ t.under = tx[s].under /\ t.series = tx[s].series
    BY <1>1 DEF Tx
  <2>4. tx' = [tx EXCEPT ![s] = t]
    BY <1>4
  <2> HIDE DEF t
  <2>5. TxOK(t, held[s])
    BY <1>1, <1>2, <1>4, <2>3 DEF TxOK, Refers, Walks, Holds, Promotes, Syncs, Owners,
       Claims, Creations, PastOwn, Owning, Removals, Promoting
  <2> QED BY <1>1, <1>2, <1>4, <2>2, <2>4, <2>5, Keeping, LocalStep
<1>5. CASE tx[s].op = "setPrimary" /\ Live(tx[s].q) /\ UNCHANGED held
           /\ tx' = [tx EXCEPT ![s].at = "clear", ![s].next = tx[s].q]
  <2> DEFINE t == [tx[s] EXCEPT !.at = "clear", !.next = tx[s].q]
  <2>2. t \in Tx
    BY <1>1 DEF Tx, Point
  <2>3. /\ t.at = "clear" /\ t.op = tx[s].op /\ t.q = tx[s].q /\ t.next = tx[s].q
        /\ t.need = tx[s].need /\ t.taken = tx[s].taken /\ t.amount = tx[s].amount
        /\ t.net = tx[s].net /\ t.under = tx[s].under /\ t.series = tx[s].series
    BY <1>1 DEF Tx
  <2>4. tx' = [tx EXCEPT ![s] = t]
    BY <1>5
  <2> HIDE DEF t
  <2>5. TxOK(t, held[s])
    BY <1>1, <1>2, <1>5, <2>3 DEF TxOK, Refers, Walks, Holds, Promotes, Syncs, Owners,
       Claims, Creations, PastOwn, Owning, Removals, Promoting
  <2> QED BY <1>1, <1>2, <1>5, <2>2, <2>4, <2>5, Keeping, LocalStep
<1>6. CASE tx[s].op = "delete" /\ Goto(s, "own") /\ UNCHANGED held
  <2> DEFINE t == [tx[s] EXCEPT !.at = "own"]
  <2>2. /\ t \in Tx
        /\ t.at = "own" /\ t.op = tx[s].op /\ t.q = tx[s].q /\ t.next = tx[s].next
        /\ t.need = tx[s].need /\ t.taken = tx[s].taken /\ t.amount = tx[s].amount
        /\ t.net = tx[s].net /\ t.under = tx[s].under /\ t.series = tx[s].series
    BY <1>1 DEF Tx, Point
  <2>4. tx' = [tx EXCEPT ![s] = t]
    BY <1>6 DEF Goto
  <2> HIDE DEF t
  <2>5. TxOK(t, held[s])
    BY <1>1, <1>2, <1>6, <2>2 DEF TxOK, Refers, Walks, Holds, Promotes, Syncs, Owners,
       Claims, Creations, PastOwn, Owning, Removals, Promoting, AllOperations, Decisions
  <2> QED BY <1>1, <1>2, <1>6, <2>2, <2>4, <2>5, Keeping, LocalStep
<1>7. CASE /\ tx[s].op = "numbering" /\ UNCHANGED held
           /\ \E n \in Series : tx' = [tx EXCEPT ![s].at = "settings", ![s].series = n]
  <2>1. PICK n \in Series : tx' = [tx EXCEPT ![s].at = "settings", ![s].series = n]
    BY <1>7
  <2> DEFINE t == [tx[s] EXCEPT !.at = "settings", !.series = n]
  <2>2. /\ t \in Tx
        /\ t.at = "settings" /\ t.op = tx[s].op /\ t.q = tx[s].q /\ t.next = tx[s].next
        /\ t.need = tx[s].need /\ t.taken = tx[s].taken /\ t.amount = tx[s].amount
        /\ t.net = tx[s].net /\ t.under = tx[s].under /\ t.series = n
    BY <1>1 DEF Tx, Point
  <2>3. n # 0
    BY DEF Series
  <2>4. tx' = [tx EXCEPT ![s] = t]
    BY <2>1
  <2> HIDE DEF t
  <2>5. TxOK(t, held[s])
    BY <1>1, <1>2, <1>7, <2>2, <2>3 DEF TxOK, Refers, Walks, Holds, Promotes, Syncs,
       Owners, Claims, Creations, PastOwn, Owning, Removals, Promoting
  <2> QED BY <1>1, <1>2, <1>7, <2>2, <2>4, <2>5, Keeping, LocalStep
<1> QED BY <1>3, <1>4, <1>5, <1>6, <1>7 DEF Read

LEMMA AccountStep ==
  ASSUME QuotationInv, NEW s \in Sessions, Account(s)
  PROVE  QuotationInv'
<1>1. /\ tx[s] \in Tx /\ starts \in 0 .. MaxStarts /\ TypeOK /\ TxOK(tx[s], held[s])
      /\ held[s] \in SUBSET Locks
  BY Known
<1>2. UNCHANGED <<tables, starts>> /\ tx[s].at = "account"
  BY DEF Account
<1>3. CASE tx[s].op = "submit" /\ ShareAccount(s) /\ Goto(s, "own")
  <2> DEFINE t == [tx[s] EXCEPT !.at = "own"]
             h == held[s] \cup {AccountShare}
  <2>2. /\ t \in Tx
        /\ t.at = "own" /\ t.op = tx[s].op /\ t.q = tx[s].q /\ t.next = tx[s].next
        /\ t.need = tx[s].need /\ t.taken = tx[s].taken /\ t.amount = tx[s].amount
        /\ t.net = tx[s].net /\ t.under = tx[s].under /\ t.series = tx[s].series
    BY <1>1 DEF Tx, Point
  <2>3. tx' = [tx EXCEPT ![s] = t] /\ held' = [held EXCEPT ![s] = h]
    BY <1>3 DEF Goto, ShareAccount
  <2>4. /\ h \in SUBSET Locks
        /\ \A u \in Sessions \ {s} :
             /\ h \cap held[u] \subseteq {AccountShare}
             /\ AccountShare \in h => AccountRow \notin held[u]
             /\ AccountRow \in h => AccountShare \notin held[u]
    <3>1. AccountShare # AccountRow /\ AccountShare \in Locks
      BY DEF AccountShare, AccountRow, Locks
    <3> QED BY <1>1, <1>3, <3>1, Keeping DEF ShareAccount, Free
  <2>5. AccountShare \in h /\ \A l \in held[s] : l \in h
    OBVIOUS
  <2> HIDE DEF t, h
  <2>6. TxOK(t, h)
    BY <1>1, <1>2, <1>3, <2>2, <2>5 DEF TxOK, Refers, Walks, Holds, Promotes, Syncs,
       Owners, Claims, Creations, PastOwn, Owning, Removals, Promoting, AllOperations,
       Decisions
  <2> QED BY <1>1, <1>2, <2>2, <2>3, <2>4, <2>6, LocalStep
<1>4. CASE /\ tx[s].op = "changeOwner" /\ owner < MaxOwners
           /\ Free(s, AccountShare) /\ Take(s, AccountRow)
           /\ Goto(s, "funnel")
  <2> DEFINE t == [tx[s] EXCEPT !.at = "funnel"]
             h == held[s] \cup {AccountRow}
  <2>2. /\ t \in Tx
        /\ t.at = "funnel" /\ t.op = tx[s].op /\ t.q = tx[s].q /\ t.next = tx[s].next
        /\ t.need = tx[s].need /\ t.taken = tx[s].taken /\ t.amount = tx[s].amount
        /\ t.net = tx[s].net /\ t.under = tx[s].under /\ t.series = tx[s].series
    BY <1>1 DEF Tx, Point
  <2>3. tx' = [tx EXCEPT ![s] = t] /\ held' = [held EXCEPT ![s] = h]
    BY <1>4 DEF Goto, Take
  <2>4. /\ h \in SUBSET Locks
        /\ \A u \in Sessions \ {s} :
             /\ h \cap held[u] \subseteq {AccountShare}
             /\ AccountShare \in h => AccountRow \notin held[u]
             /\ AccountRow \in h => AccountShare \notin held[u]
    <3>1. AccountShare # AccountRow /\ AccountRow \in Locks
      BY DEF AccountShare, AccountRow, Locks
    <3> QED BY <1>1, <1>4, <3>1, Keeping DEF Take, Free
  <2>5. AccountRow \in h /\ \A l \in held[s] : l \in h
    OBVIOUS
  <2> HIDE DEF t, h
  <2>6. TxOK(t, h)
    BY <1>1, <1>2, <1>4, <2>2, <2>5 DEF TxOK, Refers, Walks, Holds, Promotes, Syncs,
       Owners, Claims, Creations, PastOwn, Owning, Removals, Promoting, AllOperations,
       Decisions
  <2> QED BY <1>1, <1>2, <2>2, <2>3, <2>4, <2>6, LocalStep
<1> QED BY <1>3, <1>4 DEF Account

LEMMA PermittedReady ==
  ASSUME NEW op \in Owning, NEW i, Permitted(op, i)
  PROVE  Ready(op, rows[i])
BY DEF Permitted, Ready, Owning, AllOperations, Decisions, Creations, Live

LEMMA AfterOwnPoint ==
  ASSUME NEW op \in Owning, NEW i
  PROVE  LET at == AfterOwn(op, i) IN
         /\ at \in {"sync", "commit", "clear", "reassign", "funnel"}
         /\ at = "sync" => op \in {"edit", "send"} /\ rows[i].primary
         /\ at = "clear" <=> op = "accept"
         /\ at = "reassign" <=> op \in Removals
         /\ at = "funnel" <=> op \in {"revise", "duplicate"}
         /\ at = "commit" /\ op \in {"edit", "send"} => ~rows[i].primary
BY DEF AfterOwn, Owning, Removals, AllOperations, Decisions, Creations

\* The row of a quotation is a lock of its own.
LEMMA RowLock ==
  ASSUME NEW i \in Ids
  PROVE  /\ QuotationRow(i) \in Locks /\ FunnelRow \in Locks
         /\ QuotationRow(i) # AccountShare /\ QuotationRow(i) # AccountRow
         /\ FunnelRow # AccountShare /\ FunnelRow # AccountRow
         /\ FunnelRow # QuotationRow(i)
BY DEF Locks, QuotationRow, AccountShare, AccountRow, FunnelRow

LEMMA FunnelLock ==
  /\ FunnelRow \in Locks /\ FunnelRow # AccountShare /\ FunnelRow # AccountRow
BY DEF Locks, AccountShare, AccountRow, FunnelRow

LEMMA SettingsLock ==
  /\ SettingsRow \in Locks /\ SettingsRow # AccountShare /\ SettingsRow # AccountRow
BY DEF Locks, AccountShare, AccountRow, SettingsRow

LEMMA OwnStep ==
  ASSUME QuotationInv, NEW s \in Sessions, Own(s)
  PROVE  QuotationInv'
<1> DEFINE op == tx[s].op
           q == tx[s].q
<1>1. /\ tx[s] \in Tx /\ starts \in 0 .. MaxStarts /\ TypeOK /\ TxOK(tx[s], held[s])
      /\ held[s] \in SUBSET Locks
  BY Known
<1>2. UNCHANGED <<tables, starts>> /\ tx[s].at = "own"
  BY DEF Own
<1>3. CASE End(s)
  BY <1>2, <1>3, EndStep
<1>4. CASE /\ Permitted(op, q) /\ LockOwn(s)
           /\ tx' = [tx EXCEPT ![s].at = AfterOwn(op, q),
                               ![s].next = IF op = "accept" THEN q ELSE 0,
                               ![s].under = IF op = "submit" THEN owner ELSE 0]
  <2> DEFINE next == IF op = "accept" THEN q ELSE 0
             under == IF op = "submit" THEN owner ELSE 0
             at == AfterOwn(op, q)
             t == [tx[s] EXCEPT !.at = at, !.next = next, !.under = under]
             h == held[s] \cup {QuotationRow(q)}
  <2>1. op \in Owning
    BY <1>1, <1>2 DEF TxOK, Walks
  <2>2. q \in DOMAIN rows /\ q \in Ids /\ q \in IdOr0 /\ q # 0
    <3>1. q # 0 /\ q <= Len(rows)
      BY <1>1, <2>1 DEF TxOK, Refers, Owning, AllOperations, Decisions, Creations
    <3>2. q \in IdOr0
      BY <1>1 DEF Tx
    <3> QED BY <1>1, <3>1, <3>2, Numbered
  <2>3. Ready(op, rows[q])
    BY <1>4, <2>1, PermittedReady
  <2>4. /\ at \in {"sync", "commit", "clear", "reassign", "funnel"}
        /\ at = "sync" => op \in {"edit", "send"} /\ rows[q].primary
        /\ at = "clear" <=> op = "accept"
        /\ at = "reassign" <=> op \in Removals
        /\ at = "funnel" <=> op \in {"revise", "duplicate"}
        /\ at = "commit" /\ op \in {"edit", "send"} => ~rows[q].primary
    BY <2>1, AfterOwnPoint
  <2>5. next \in IdOr0 /\ under \in 0 .. MaxOwners /\ at \in Point
    <3>1. owner \in 0 .. MaxOwners /\ 0 \in 0 .. MaxOwners
      BY <1>1, QuotationAssumption DEF TypeOK
    <3> QED BY <1>1, <2>2, <2>4, <3>1, Numbered DEF Point
  <2>6. /\ next = (IF op = "accept" THEN q ELSE 0)
        /\ under = (IF op = "submit" THEN owner ELSE 0)
    OBVIOUS
  <2> HIDE DEF at, next, under
  <2>7. t \in Tx
    BY <1>1, <2>5 DEF Tx
  <2>8. /\ t.at = at /\ t.op = op /\ t.q = q /\ t.next = next
        /\ t.need = tx[s].need /\ t.taken = tx[s].taken /\ t.amount = tx[s].amount
        /\ t.net = tx[s].net /\ t.under = under /\ t.series = tx[s].series
    BY <1>1 DEF Tx
  <2>9. tx' = [tx EXCEPT ![s] = t]
    BY <1>4 DEF at, next, under
  <2>10. QuotationRow(q) \in h /\ \A l \in held[s] : l \in h
    OBVIOUS
  <2>11. /\ held' = [held EXCEPT ![s] = h]
         /\ h \in SUBSET Locks
         /\ \A u \in Sessions \ {s} :
              /\ h \cap held[u] \subseteq {AccountShare}
              /\ AccountShare \in h => AccountRow \notin held[u]
              /\ AccountRow \in h => AccountShare \notin held[u]
    BY <1>4, <2>2, RowLock, Taking DEF LockOwn
  <2> HIDE DEF t, h
  <2>12. Refers(t) /\ Walks(t)
    BY <1>1, <1>2, <2>1, <2>2, <2>4, <2>6, <2>8, Numbered DEF TxOK, Refers, Walks,
       Removals, Promoting
  <2>13. Holds(t, h)
    BY <1>1, <1>2, <2>1, <2>3, <2>4, <2>6, <2>8, <2>10 DEF TxOK, Holds
  <2>14. Promotes(t, h)
    BY <1>1, <1>2, <2>1, <2>2, <2>4, <2>6, <2>8 DEF TxOK, Promotes, Owning, Removals
  <2>15. Syncs(t) /\ Owners(t, h) /\ Claims(t, h)
    BY <1>1, <1>2, <2>1, <2>2, <2>4, <2>6, <2>8, <2>10
       DEF TxOK, Refers, Syncs, Owners, Claims, Creations, Owning, Removals
  <2>16. TxOK(t, h)
    BY <2>12, <2>13, <2>14, <2>15 DEF TxOK
  <2> QED BY <1>1, <1>2, <2>7, <2>9, <2>11, <2>16, LocalStep
<1> QED BY <1>3, <1>4 DEF Own

\* A transaction at one of the points after its own row names a quotation, unless
\* it has none of its own.
LEMMA OwnRow ==
  ASSUME TypeOK, NEW t \in Tx, Refers(t), t.op \notin {"none", "create", "changeOwner", "numbering"}
  PROVE  t.q \in DOMAIN rows /\ t.q \in Ids /\ t.q # 0
<1>1. t.q # 0 /\ t.q <= Len(rows) /\ t.q \in IdOr0
  BY DEF Refers, Tx
<1> QED BY <1>1, Numbered

LEMMA NextRow ==
  ASSUME TypeOK, NEW t \in Tx, Refers(t), t.next # 0
  PROVE  t.next \in DOMAIN rows /\ t.next \in Ids
<1>1. t.next <= Len(rows) /\ t.next \in IdOr0
  BY DEF Refers, Tx
<1> QED BY <1>1, Numbered

LEMMA SyncStep ==
  ASSUME QuotationInv, NEW s \in Sessions, Sync(s)
  PROVE  QuotationInv'
<1> DEFINE op == tx[s].op
           q == tx[s].q
           p == funnel.primary
           net == IF p = tx[s].q THEN tx[s].amount ELSE rows[p].amount
<1>1. /\ tx[s] \in Tx /\ starts \in 0 .. MaxStarts /\ TypeOK /\ TxOK(tx[s], held[s])
      /\ held[s] \in SUBSET Locks
  BY Known
<1>2. UNCHANGED <<tables, held, starts>> /\ tx[s].at = "sync"
  BY DEF Sync
<1>3. op \in {"edit", "send"} /\ op \in Owning
  BY <1>1, <1>2 DEF TxOK, Walks, Owning, AllOperations, Decisions
<1>4. q \in DOMAIN rows /\ q # 0
  BY <1>1, <1>3, OwnRow DEF TxOK
<1>5. rows[q].primary /\ DrivesValue(rows[q]) /\ tx[s].net = 0
  BY <1>1, <1>2, <1>3 DEF TxOK, Syncs, Holds, Ready, PastOwn, DrivesValue, Refers
<1>6. p \in IdOr0 /\ p <= Len(rows)
  BY <1>1, Numbered DEF TypeOK
<1>7. CASE p # 0 /\ DrivesValue(rows[p])
           /\ tx' = [tx EXCEPT ![s].at = "funnel", ![s].net = net]
  <2> DEFINE t == [tx[s] EXCEPT !.at = "funnel", !.net = net]
  <2>1. rows[p].amount \in Amounts
    <3>1. rows[p] \in Row
      BY <1>1, <1>6, <1>7, Numbered
    <3> QED BY <3>1 DEF Row
  <2>2. net \in Amounts
    BY <1>1, <1>3, <2>1 DEF TxOK, Refers, Tx
  <2>3. p = q => net = tx[s].amount
    OBVIOUS
  <2>4. net # 0
    BY <2>2, QuotationAssumption
  <2> HIDE DEF net
  <2>5. t \in Tx
    BY <1>1, <2>2 DEF Tx, Point
  <2>6. /\ t.at = "funnel" /\ t.op = op /\ t.q = q /\ t.next = tx[s].next
        /\ t.need = tx[s].need /\ t.taken = tx[s].taken /\ t.amount = tx[s].amount
        /\ t.net = net /\ t.under = tx[s].under /\ t.series = tx[s].series
    BY <1>1 DEF Tx
  <2>7. tx' = [tx EXCEPT ![s] = t]
    BY <1>7
  <2> HIDE DEF t
  <2>9. Refers(t) /\ Walks(t) /\ Holds(t, held[s]) /\ Promotes(t, held[s])
    BY <1>1, <1>2, <1>3, <2>6 DEF TxOK, Refers, Walks, Holds, Promotes, PastOwn, Removals,
       Promoting
  <2>10. Syncs(t) /\ Owners(t, held[s]) /\ Claims(t, held[s])
    BY <1>1, <1>2, <1>3, <1>5, <2>3, <2>4, <2>6 DEF TxOK, Syncs, Owners, Claims, Creations
  <2>11. TxOK(t, held[s])
    BY <2>9, <2>10 DEF TxOK
  <2> QED BY <1>1, <1>2, <2>5, <2>7, <2>11, Keeping, LocalStep
<1>8. CASE ~(p # 0 /\ DrivesValue(rows[p])) /\ Goto(s, "commit")
  <2> DEFINE t == [tx[s] EXCEPT !.at = "commit"]
  <2>1. /\ t \in Tx
        /\ t.at = "commit" /\ t.op = op /\ t.q = q /\ t.next = tx[s].next
        /\ t.need = tx[s].need /\ t.taken = tx[s].taken /\ t.amount = tx[s].amount
        /\ t.net = tx[s].net /\ t.under = tx[s].under /\ t.series = tx[s].series
    BY <1>1 DEF Tx, Point
  <2>2. tx' = [tx EXCEPT ![s] = t]
    BY <1>8 DEF Goto
  <2>3. p # q
    BY <1>4, <1>5, <1>8
  <2> HIDE DEF t
  <2>4. Refers(t) /\ Walks(t) /\ Holds(t, held[s]) /\ Promotes(t, held[s])
    BY <1>1, <1>2, <1>3, <2>1 DEF TxOK, Refers, Walks, Holds, Promotes, PastOwn, Removals,
       Promoting
  <2>5. Syncs(t) /\ Owners(t, held[s]) /\ Claims(t, held[s])
    BY <1>1, <1>2, <1>3, <1>5, <2>1, <2>3 DEF TxOK, Syncs, Owners, Claims, Creations
  <2>6. TxOK(t, held[s])
    BY <2>4, <2>5 DEF TxOK
  <2> QED BY <1>1, <1>2, <2>1, <2>2, <2>6, Keeping, LocalStep
<1> QED BY <1>7, <1>8 DEF Sync

LEMMA ReassignStep ==
  ASSUME QuotationInv, NEW s \in Sessions, Reassign(s)
  PROVE  QuotationInv'
<1> DEFINE op == tx[s].op
           q == tx[s].q
           candidates == {i \in Others(tx[s].q) : DrivesValue(rows[i])}
<1>1. /\ tx[s] \in Tx /\ starts \in 0 .. MaxStarts /\ TypeOK /\ TxOK(tx[s], held[s])
      /\ held[s] \in SUBSET Locks
  BY Known
<1>2. UNCHANGED <<tables, held, starts>> /\ tx[s].at = "reassign"
  BY DEF Reassign
<1>3. op \in Removals /\ op \in Owning
  BY <1>1, <1>2 DEF TxOK, Walks, Owning, Removals, AllOperations, Decisions
<1>4. q \in DOMAIN rows /\ q # 0
  BY <1>1, <1>3, OwnRow DEF TxOK, Removals
<1>5. tx[s].next = 0 /\ tx[s].taken = {} /\ tx[s].need = {} /\ tx[s].net = 0
  BY <1>1, <1>2, <1>3 DEF TxOK, Promotes, Refers
<1>6. ASSUME NEW at \in {"commit", "funnel"}, Goto(s, at),
             at = "commit" => funnel.primary # q
      PROVE  QuotationInv'
  <2> DEFINE t == [tx[s] EXCEPT !.at = at]
  <2>1. /\ t \in Tx
        /\ t.at = at /\ t.op = op /\ t.q = q /\ t.next = tx[s].next
        /\ t.need = tx[s].need /\ t.taken = tx[s].taken /\ t.amount = tx[s].amount
        /\ t.net = tx[s].net /\ t.under = tx[s].under /\ t.series = tx[s].series
    BY <1>1 DEF Tx, Point
  <2>2. tx' = [tx EXCEPT ![s] = t]
    BY <1>6 DEF Goto
  <2> HIDE DEF t
  <2>3. Refers(t) /\ Walks(t) /\ Holds(t, held[s])
    BY <1>1, <1>2, <1>3, <1>5, <2>1 DEF TxOK, Refers, Walks, Holds, PastOwn, Removals,
       Promoting
  <2>4. Promotes(t, held[s]) /\ Syncs(t) /\ Owners(t, held[s]) /\ Claims(t, held[s])
    BY <1>1, <1>3, <1>4, <1>5, <1>6, <2>1
       DEF TxOK, Promotes, Syncs, Owners, Claims, Creations, Removals
  <2>5. TxOK(t, held[s])
    BY <2>3, <2>4 DEF TxOK
  <2> QED BY <1>1, <1>2, <2>1, <2>2, <2>5, Keeping, LocalStep
<1>7. CASE candidates # {} /\ tx' = [tx EXCEPT ![s].at = "clear", ![s].next = Max(candidates)]
  <2> DEFINE next == Max(candidates)
             t == [tx[s] EXCEPT !.at = "clear", !.next = next]
  <2>1. next \in DOMAIN rows /\ next # q
    <3>1. candidates \subseteq 0 .. Len(rows) /\ Len(rows) \in Nat
      BY <1>1, Numbered DEF Others
    <3>2. next \in candidates
      BY <1>7, <3>1, MaxBounded
    <3> QED BY <3>2 DEF Others
  <2> HIDE DEF next
  <2>2. next \in IdOr0 /\ next # 0 /\ next <= Len(rows)
    BY <1>1, <2>1, Numbered
  <2>3. t \in Tx
    BY <1>1, <2>2 DEF Tx, Point
  <2>4. /\ t.at = "clear" /\ t.op = op /\ t.q = q /\ t.next = next
        /\ t.need = tx[s].need /\ t.taken = tx[s].taken /\ t.amount = tx[s].amount
        /\ t.net = tx[s].net /\ t.under = tx[s].under /\ t.series = tx[s].series
    BY <1>1 DEF Tx
  <2>5. tx' = [tx EXCEPT ![s] = t]
    BY <1>7 DEF next
  <2> HIDE DEF t
  <2>6. Refers(t) /\ Walks(t) /\ Holds(t, held[s])
    BY <1>1, <1>2, <1>3, <1>5, <2>2, <2>4 DEF TxOK, Refers, Walks, Holds, PastOwn,
       Removals, Promoting
  <2>7. Promotes(t, held[s]) /\ Syncs(t) /\ Owners(t, held[s]) /\ Claims(t, held[s])
    BY <1>1, <1>3, <1>4, <1>5, <2>1, <2>2, <2>4
       DEF TxOK, Promotes, Syncs, Owners, Claims, Creations, Removals
  <2>8. TxOK(t, held[s])
    BY <2>6, <2>7 DEF TxOK
  <2> QED BY <1>1, <1>2, <2>3, <2>5, <2>8, Keeping, LocalStep
<1> QED BY <1>6, <1>7 DEF Reassign

LEMMA ClearStep ==
  ASSUME QuotationInv, NEW s \in Sessions, Clear(s)
  PROVE  QuotationInv'
<1> DEFINE others == Others(tx[s].next)
           t == [tx[s] EXCEPT !.at = "take", !.need = others, !.taken = others]
<1>1. /\ tx[s] \in Tx /\ starts \in 0 .. MaxStarts /\ TypeOK /\ TxOK(tx[s], held[s])
      /\ held[s] \in SUBSET Locks
  BY Known
<1>2. UNCHANGED <<tables, held, starts>> /\ tx[s].at = "clear"
  BY DEF Clear
<1>3. tx[s].op \in Promoting
  BY <1>1, <1>2 DEF TxOK, Walks
<1>4. others \subseteq DOMAIN rows /\ others \subseteq Ids
  BY <1>1, Numbered DEF Others
<1>5. tx' = [tx EXCEPT ![s] = t]
  BY DEF Clear
<1> HIDE DEF others
<1>6. t \in Tx
  BY <1>1, <1>4 DEF Tx, Point
<1>7. /\ t.at = "take" /\ t.op = tx[s].op /\ t.q = tx[s].q /\ t.next = tx[s].next
      /\ t.need = others /\ t.taken = others /\ t.amount = tx[s].amount
      /\ t.net = tx[s].net /\ t.under = tx[s].under /\ t.series = tx[s].series
  BY <1>1 DEF Tx
<1> HIDE DEF t
<1>8. Refers(t) /\ Walks(t) /\ Holds(t, held[s])
  BY <1>1, <1>2, <1>3, <1>4, <1>7 DEF TxOK, Refers, Walks, Holds, PastOwn, Promoting
<1>9. Promotes(t, held[s]) /\ Syncs(t) /\ Owners(t, held[s]) /\ Claims(t, held[s])
  BY <1>1, <1>2, <1>3, <1>7 DEF TxOK, Promotes, Syncs, Owners, Claims, Creations,
     Promoting, Removals, PastOwn
<1>10. TxOK(t, held[s])
  BY <1>8, <1>9 DEF TxOK
<1> QED BY <1>1, <1>2, <1>5, <1>6, <1>10, Keeping, LocalStep

LEMMA TakeOneStep ==
  ASSUME QuotationInv, NEW s \in Sessions, TakeOne(s)
  PROVE  QuotationInv'
<1>1. /\ tx[s] \in Tx /\ starts \in 0 .. MaxStarts /\ TypeOK /\ TxOK(tx[s], held[s])
      /\ held[s] \in SUBSET Locks
  BY Known
<1>2. UNCHANGED <<tables, starts>> /\ tx[s].at = "take"
  BY DEF TakeOne
<1>3. tx[s].op \in Promoting \cup {"changeOwner"}
  BY <1>1, <1>2 DEF TxOK, Walks
<1>4. ASSUME NEW i \in tx[s].need, Take(s, QuotationRow(i)),
             tx' = [tx EXCEPT ![s].need = @ \ {i}]
      PROVE  QuotationInv'
  <2> DEFINE need == tx[s].need \ {i}
             t == [tx[s] EXCEPT !.need = need]
             h == held[s] \cup {QuotationRow(i)}
  <2>1. i \in Ids /\ need \in SUBSET Ids
    BY <1>1 DEF Tx
  <2>2. /\ held' = [held EXCEPT ![s] = h]
        /\ h \in SUBSET Locks
        /\ \A u \in Sessions \ {s} :
             /\ h \cap held[u] \subseteq {AccountShare}
             /\ AccountShare \in h => AccountRow \notin held[u]
             /\ AccountRow \in h => AccountShare \notin held[u]
    BY <1>4, <2>1, RowLock, Taking
  <2>3. tx' = [tx EXCEPT ![s] = t]
    BY <1>4
  <2>4. QuotationRow(i) \in h /\ \A l \in held[s] : l \in h
    OBVIOUS
  <2>5. need \subseteq tx[s].need /\ \A j \in tx[s].taken \ need : j = i \/ j \in tx[s].taken \ tx[s].need
    OBVIOUS
  <2> HIDE DEF need, h
  <2>6. /\ t \in Tx
        /\ t.at = tx[s].at /\ t.op = tx[s].op /\ t.q = tx[s].q /\ t.next = tx[s].next
        /\ t.need = need /\ t.taken = tx[s].taken /\ t.amount = tx[s].amount
        /\ t.net = tx[s].net /\ t.under = tx[s].under /\ t.series = tx[s].series
    BY <1>1, <2>1 DEF Tx
  <2> HIDE DEF t
  <2>7. Refers(t) /\ Walks(t)
    BY <1>1, <2>5, <2>6 DEF TxOK, Refers, Walks
  <2>8. Holds(t, h)
    BY <1>1, <1>2, <2>4, <2>5, <2>6 DEF TxOK, Holds
  <2>9. Promotes(t, h) /\ Syncs(t) /\ Owners(t, h) /\ Claims(t, h)
    BY <1>1, <1>2, <1>3, <2>4, <2>6 DEF TxOK, Promotes, Syncs, Owners, Claims, Creations,
       Promoting, Removals
  <2>10. TxOK(t, h)
    BY <2>7, <2>8, <2>9 DEF TxOK
  <2> QED BY <1>1, <1>2, <2>2, <2>3, <2>6, <2>10, LocalStep
<1>5. CASE /\ tx[s].need = {} /\ UNCHANGED held
           /\ Goto(s, IF tx[s].op = "changeOwner" THEN "commit" ELSE "raise")
  <2> DEFINE at == IF tx[s].op = "changeOwner" THEN "commit" ELSE "raise"
             t == [tx[s] EXCEPT !.at = at]
  <2>1. at \in Point /\ at = (IF tx[s].op = "changeOwner" THEN "commit" ELSE "raise")
    BY DEF Point
  <2>2. tx' = [tx EXCEPT ![s] = t]
    BY <1>5 DEF Goto
  <2> HIDE DEF at
  <2>3. /\ t \in Tx
        /\ t.at = at /\ t.op = tx[s].op /\ t.q = tx[s].q /\ t.next = tx[s].next
        /\ t.need = tx[s].need /\ t.taken = tx[s].taken /\ t.amount = tx[s].amount
        /\ t.net = tx[s].net /\ t.under = tx[s].under /\ t.series = tx[s].series
    BY <1>1, <2>1, ToPoint
  <2> HIDE DEF t
  <2>4. Refers(t) /\ Walks(t)
    BY <1>1, <1>2, <1>3, <2>1, <2>3 DEF TxOK, Refers, Walks, Promoting
  <2>5. Holds(t, held[s])
    BY <1>1, <1>2, <1>3, <1>5, <2>1, <2>3 DEF TxOK, Holds, Refers, Promoting, Removals,
       PastOwn
  <2>6. Promotes(t, held[s]) /\ Syncs(t) /\ Owners(t, held[s]) /\ Claims(t, held[s])
    BY <1>1, <1>2, <1>3, <2>1, <2>3
       DEF TxOK, Promotes, Syncs, Owners, Claims, Creations, Promoting, Removals, PastOwn
  <2>7. TxOK(t, held[s])
    BY <2>4, <2>5, <2>6 DEF TxOK
  <2> QED BY <1>1, <1>2, <1>5, <2>2, <2>3, <2>7, Keeping, LocalStep
<1> QED BY <1>4, <1>5 DEF TakeOne

LEMMA RaiseStep ==
  ASSUME QuotationInv, NEW s \in Sessions, Raise(s)
  PROVE  QuotationInv'
<1> DEFINE op == tx[s].op
           next == tx[s].next
           at == IF op = "accept" THEN "commit" ELSE "funnel"
           t == [tx[s] EXCEPT !.at = at]
           h == held[s] \cup {QuotationRow(next)}
<1>1. /\ tx[s] \in Tx /\ starts \in 0 .. MaxStarts /\ TypeOK /\ TxOK(tx[s], held[s])
      /\ held[s] \in SUBSET Locks
  BY Known
<1>2. UNCHANGED <<tables, starts>> /\ tx[s].at = "raise"
  BY DEF Raise
<1>3. op \in Promoting
  BY <1>1, <1>2 DEF TxOK, Walks
<1>4. next \in Ids
  <2>1. tx[s].op \notin {"none", "create", "changeOwner", "numbering"}
    BY <1>3 DEF Promoting, Removals
  <2>2. tx[s].q # 0
    BY <1>1, <2>1, OwnRow DEF TxOK
  <2>3. next # 0
    BY <1>1, <1>2, <1>3, <2>2 DEF TxOK, Promotes, Promoting, PastOwn
  <2> QED BY <1>1, <2>3, NextRow DEF TxOK
<1>5. /\ held' = [held EXCEPT ![s] = h]
      /\ h \in SUBSET Locks
      /\ \A u \in Sessions \ {s} :
           /\ h \cap held[u] \subseteq {AccountShare}
           /\ AccountShare \in h => AccountRow \notin held[u]
           /\ AccountRow \in h => AccountShare \notin held[u]
  BY <1>4, RowLock, Taking DEF Raise
<1>6. tx' = [tx EXCEPT ![s] = t]
  BY DEF Raise, Goto
<1>7. QuotationRow(next) \in h /\ \A l \in held[s] : l \in h
  OBVIOUS
<1>8. at \in Point /\ at = (IF op = "accept" THEN "commit" ELSE "funnel")
  BY DEF Point
<1> HIDE DEF at, h
<1>9. /\ t \in Tx
      /\ t.at = at /\ t.op = op /\ t.q = tx[s].q /\ t.next = next
      /\ t.need = tx[s].need /\ t.taken = tx[s].taken /\ t.amount = tx[s].amount
      /\ t.net = tx[s].net /\ t.under = tx[s].under /\ t.series = tx[s].series
  BY <1>1, <1>8, ToPoint
<1> HIDE DEF t
<1>10. Refers(t) /\ Walks(t)
  BY <1>1, <1>2, <1>3, <1>8, <1>9 DEF TxOK, Refers, Walks, Promoting, Removals
<1>11. Holds(t, h)
  BY <1>1, <1>2, <1>3, <1>7, <1>8, <1>9 DEF TxOK, Holds, PastOwn
<1>12. Promotes(t, h) /\ Syncs(t) /\ Owners(t, h) /\ Claims(t, h)
  BY <1>1, <1>2, <1>3, <1>7, <1>8, <1>9
     DEF TxOK, Promotes, Syncs, Owners, Claims, Creations, Promoting, Removals, PastOwn
<1>13. TxOK(t, h)
  BY <1>10, <1>11, <1>12 DEF TxOK
<1> QED BY <1>1, <1>2, <1>5, <1>6, <1>9, <1>13, LocalStep

LEMMA FunnelStep ==
  ASSUME QuotationInv, NEW s \in Sessions, Funnel(s)
  PROVE  QuotationInv'
<1> DEFINE op == tx[s].op
           h == held[s] \cup {FunnelRow}
<1>1. /\ tx[s] \in Tx /\ starts \in 0 .. MaxStarts /\ TypeOK /\ TxOK(tx[s], held[s])
      /\ held[s] \in SUBSET Locks
  BY Known
<1>2. UNCHANGED <<tables, starts>> /\ tx[s].at = "funnel"
  BY DEF Funnel
<1>3. op \notin {"submit", "accept"}
  BY <1>1, <1>2 DEF TxOK, Walks
<1>4. /\ held' = [held EXCEPT ![s] = h]
      /\ h \in SUBSET Locks
      /\ \A u \in Sessions \ {s} :
           /\ h \cap held[u] \subseteq {AccountShare}
           /\ AccountShare \in h => AccountRow \notin held[u]
           /\ AccountRow \in h => AccountShare \notin held[u]
  BY FunnelLock, Taking DEF Funnel
<1>5. FunnelRow \in h /\ \A l \in held[s] : l \in h
  OBVIOUS
<1>6. CASE op = "changeOwner"
  <2> DEFINE pending == {i \in DOMAIN rows : Live(i) /\ rows[i].status = "pending_approval"}
             t == [tx[s] EXCEPT !.at = "take", !.need = pending, !.taken = pending]
  <2>1. pending \subseteq DOMAIN rows /\ pending \subseteq Ids
    BY <1>1, Numbered
  <2>2. \A i \in DOMAIN rows : Pending(i) => i \in pending
    BY DEF Pending
  <2>3. tx' = [tx EXCEPT ![s] = t]
    BY <1>6 DEF Funnel
  <2> HIDE DEF pending, h
  <2>4. /\ t \in Tx
        /\ t.at = "take" /\ t.op = op /\ t.q = tx[s].q /\ t.next = tx[s].next
        /\ t.need = pending /\ t.taken = pending /\ t.amount = tx[s].amount
        /\ t.net = tx[s].net /\ t.under = tx[s].under /\ t.series = tx[s].series
    BY <1>1, <2>1 DEF Tx, Point
  <2> HIDE DEF t
  <2>5. Refers(t) /\ Walks(t) /\ Holds(t, h)
    BY <1>1, <1>2, <1>5, <1>6, <2>1, <2>4
       DEF TxOK, Refers, Walks, Holds, Owning, Promoting, Removals, PastOwn
  <2>6. Promotes(t, h) /\ Syncs(t) /\ Owners(t, h) /\ Claims(t, h)
    BY <1>1, <1>2, <1>5, <1>6, <2>2, <2>4 DEF TxOK, Promotes, Syncs, Owners, Claims,
       Creations, Removals
  <2>7. TxOK(t, h)
    BY <2>5, <2>6 DEF TxOK
  <2> QED BY <1>1, <1>2, <1>4, <2>3, <2>4, <2>7, LocalStep
<1>7. CASE op # "changeOwner"
  <2> DEFINE at == IF ClaimsSeries(s) THEN "settings" ELSE "commit"
             t == [tx[s] EXCEPT !.at = at]
  <2>1. tx' = [tx EXCEPT ![s] = t]
    BY <1>7 DEF Funnel, Goto
  <2>2. /\ at \in Point /\ at \in {"settings", "commit"}
        /\ at = "settings" => op \in {"create", "duplicate"}
        /\ at = "commit" => op # "duplicate" /\ (op = "create" => Len(rows) # 0)
    <3>1. rows # <<>> => Len(rows) # 0
      BY <1>1, EmptySeq DEF TypeOK
    <3> QED BY <3>1 DEF ClaimsSeries, Point
  <2> HIDE DEF h, at
  <2>3. /\ t \in Tx
        /\ t.at = at /\ t.op = op /\ t.q = tx[s].q /\ t.next = tx[s].next
        /\ t.need = tx[s].need /\ t.taken = tx[s].taken /\ t.amount = tx[s].amount
        /\ t.net = tx[s].net /\ t.under = tx[s].under /\ t.series = tx[s].series
    BY <1>1, <2>2, ToPoint
  <2> HIDE DEF t
  <2>4. Refers(t) /\ Walks(t) /\ Holds(t, h)
    BY <1>1, <1>2, <1>3, <1>5, <2>2, <2>3 DEF TxOK, Refers, Walks, Holds, PastOwn
  <2>5. Promotes(t, h) /\ Syncs(t) /\ Owners(t, h)
    BY <1>1, <1>2, <1>3, <1>5, <1>7, <2>2, <2>3
       DEF TxOK, Promotes, Syncs, Owners, Removals, PastOwn
  <2>6. Claims(t, h)
    BY <1>1, <1>2, <1>3, <1>5, <1>7, <2>2, <2>3 DEF TxOK, Walks, Claims, Creations
  <2>7. TxOK(t, h)
    BY <2>4, <2>5, <2>6 DEF TxOK
  <2> QED BY <1>1, <1>2, <1>4, <2>1, <2>3, <2>7, LocalStep
<1> QED BY <1>6, <1>7

LEMMA SettingsStep ==
  ASSUME QuotationInv, NEW s \in Sessions, Settings(s)
  PROVE  QuotationInv'
<1> DEFINE op == tx[s].op
           h == held[s] \cup {SettingsRow}
<1>1. /\ tx[s] \in Tx /\ starts \in 0 .. MaxStarts /\ TypeOK /\ TxOK(tx[s], held[s])
      /\ held[s] \in SUBSET Locks
  BY Known
<1>2. UNCHANGED <<tables, starts>> /\ tx[s].at = "settings"
  BY DEF Settings
<1>3. op \in {"create", "duplicate", "numbering"}
  BY <1>1, <1>2 DEF TxOK, Walks
<1>4. /\ held' = [held EXCEPT ![s] = h]
      /\ h \in SUBSET Locks
      /\ \A u \in Sessions \ {s} :
           /\ h \cap held[u] \subseteq {AccountShare}
           /\ AccountShare \in h => AccountRow \notin held[u]
           /\ AccountRow \in h => AccountShare \notin held[u]
  BY SettingsLock, Taking DEF Settings
<1>5. SettingsRow \in h /\ \A l \in held[s] : l \in h
  OBVIOUS
<1>6. PICK n \in Series :
        /\ tx' = [tx EXCEPT ![s].at = "commit", ![s].series = n]
        /\ op # "numbering" => n = counter /\ counter < MaxSeries
  <2>1. CASE op = "numbering" /\ Goto(s, "commit")
    <3>1. tx[s].series \in Series
      BY <1>1, <1>2, <2>1 DEF TxOK, Claims, Tx
    <3>2. [tx[s] EXCEPT !.at = "commit"] =
            [tx[s] EXCEPT !.at = "commit", !.series = tx[s].series]
      BY <1>1 DEF Tx
    <3>3. tx' = [tx EXCEPT ![s] = [tx[s] EXCEPT !.at = "commit"]]
      BY <2>1 DEF Goto
    <3>4. tx' = [tx EXCEPT ![s] = [tx[s] EXCEPT !.at = "commit", !.series = tx[s].series]]
      BY <3>2, <3>3
    <3> QED BY <2>1, <3>1, <3>4
  <2>2. CASE /\ op \in Creations /\ counter < MaxSeries
             /\ tx' = [tx EXCEPT ![s].at = "commit", ![s].series = counter]
    BY <1>1, <2>2 DEF TypeOK
  <2> QED BY <2>1, <2>2 DEF Settings
<1> DEFINE t == [tx[s] EXCEPT !.at = "commit", !.series = n]
<1>7. n # 0
  BY DEF Series
<1>8. /\ t \in Tx
      /\ t.at = "commit" /\ t.op = op /\ t.q = tx[s].q /\ t.next = tx[s].next
      /\ t.need = tx[s].need /\ t.taken = tx[s].taken /\ t.amount = tx[s].amount
      /\ t.net = tx[s].net /\ t.under = tx[s].under /\ t.series = n
  BY <1>1 DEF Tx, Point
<1>9. tx' = [tx EXCEPT ![s] = t]
  BY <1>6
<1> HIDE DEF t, h
<1>10. Refers(t) /\ Walks(t) /\ Holds(t, h)
  BY <1>1, <1>2, <1>3, <1>5, <1>8 DEF TxOK, Refers, Walks, Holds, Promoting, Removals,
     PastOwn
<1>11. Promotes(t, h) /\ Syncs(t) /\ Owners(t, h)
  BY <1>3, <1>8 DEF Promotes, Syncs, Owners, Removals
<1>12. Claims(t, h)
  BY <1>3, <1>5, <1>6, <1>7, <1>8 DEF Claims, Creations
<1>13. TxOK(t, h)
  BY <1>10, <1>11, <1>12 DEF TxOK
<1> QED BY <1>1, <1>2, <1>4, <1>8, <1>9, <1>13, LocalStep

LEMMA MoveStageStep ==
  ASSUME QuotationInv, MoveStage
  PROVE  QuotationInv'
<1>1. /\ rows' = rows /\ owner' = owner /\ held' = held /\ tx' = tx /\ starts' = starts
      /\ counter' = counter /\ rewound' = rewound
      /\ funnel' = [funnel EXCEPT !.open = ~@]
  BY DEF MoveStage
<1>2. funnel \in [primary: 0 .. Len(rows), amount: Amounts \cup {0}, open: BOOLEAN]
  BY DEF QuotationInv, TypeOK
<1>3. /\ funnel'.primary = funnel.primary /\ funnel'.amount = funnel.amount
      /\ funnel' \in [primary: 0 .. Len(rows), amount: Amounts \cup {0}, open: BOOLEAN]
  BY <1>1, <1>2
<1>4. TypeOK'
  BY <1>1, <1>3 DEF QuotationInv, TypeOK
<1>5. (LocksOK /\ NumbersBounded /\ CounterAhead /\ PendingUnderOwner /\ OneFlagged)'
  BY <1>1 DEF QuotationInv, LocksOK, NumbersBounded, CounterAhead, PendingUnderOwner,
     OneFlagged, Flagged, Live
<1>6. AmountStands'
  BY <1>1, <1>3 DEF QuotationInv, AmountStands, DrivesValue, AcceptanceDeleted,
     AcceptedLive, Flagged, Live
<1>7. ASSUME NEW u \in Sessions PROVE TxOK(tx[u], held[u])'
  <2>1. TxOK(tx[u], held[u])
    BY DEF QuotationInv
  <2> QED BY <1>1, <1>3, <2>1 DEF TxOK, Refers, Walks, Holds, Promotes, Syncs, Owners,
     Claims, Creations, Ready, Pending, Live
<1> QED BY <1>4, <1>5, <1>6, <1>7 DEF QuotationInv

-----------------------------------------------------------------------------
(* A commit, as the other transactions see it.                             *)

\* Rows change only where the transaction has locked them, the pointer moves only to
\* such a row, a new one, or none, and the owner and the pending approvals change
\* only under the account's lock.
Effects(s) ==
  /\ Len(rows') >= Len(rows) /\ DOMAIN rows \subseteq DOMAIN rows'
  /\ \A i \in DOMAIN rows : QuotationRow(i) \notin held[s] => rows'[i] = rows[i]
  /\ \/ funnel'.primary = funnel.primary \/ funnel'.primary = 0
     \/ funnel'.primary \notin DOMAIN rows \/ QuotationRow(funnel'.primary) \in held[s]
  /\ owner' = owner \/ AccountRow \in held[s]
  /\ counter' = counter \/ SettingsRow \in held[s]
  /\ \/ AccountShare \in held[s]
     \/ \A i \in DOMAIN rows' : Pending(i)' => i \in DOMAIN rows /\ Pending(i)

LEMMA Undisturbed ==
  ASSUME QuotationInv, NEW s \in Sessions, NEW u \in Sessions, u # s, Effects(s),
         tx'[u] = tx[u], held'[u] = held[u], Len(rows') \in Nat
  PROVE  TxOK(tx[u], held[u])'
<1> DEFINE t == tx[u]
           h == held[u]
<1>1. t \in Tx /\ TypeOK /\ TxOK(t, h)
  BY Known
<1>2. /\ Len(rows) \in Nat /\ Len(rows') >= Len(rows) /\ DOMAIN rows \subseteq DOMAIN rows'
  BY <1>1, Numbered DEF Effects
<1>3. ASSUME NEW i \in DOMAIN rows, QuotationRow(i) \in h
      PROVE  /\ rows'[i] = rows[i]
             /\ funnel'.primary = i => funnel.primary = i
  <2>1. i \in Ids /\ i # 0
    BY <1>1, Numbered
  <2>2. QuotationRow(i) \notin held[s]
    BY <1>3, <2>1, RowLock DEF QuotationInv, LocksOK
  <2> QED BY <2>1, <2>2 DEF Effects
<1>4. t.op \in Owning => t.q \in DOMAIN rows
  BY <1>1, OwnRow DEF TxOK, Owning, AllOperations, Decisions, Creations
<1>5. t.at \in PastOwn /\ t.op \in Owning =>
        /\ QuotationRow(t.q) \in h /\ Ready(t.op, rows[t.q])
        /\ rows'[t.q] = rows[t.q]
        /\ funnel'.primary = t.q => funnel.primary = t.q
  BY <1>1, <1>3, <1>4 DEF TxOK, Holds
<1>6. AccountShare \in h => owner' = owner
  BY DEF Effects, QuotationInv, LocksOK
<1>7. AccountRow \in h =>
        /\ owner' = owner
        /\ \A i \in DOMAIN rows' : Pending(i)' => i \in DOMAIN rows /\ Pending(i)
  <2> SUFFICES ASSUME AccountRow \in h
               PROVE  /\ owner' = owner
                      /\ \A i \in DOMAIN rows' : Pending(i)' => i \in DOMAIN rows /\ Pending(i)
    OBVIOUS
  <2>1. AccountShare \notin held[s]
    BY DEF QuotationInv, LocksOK
  <2>2. AccountRow \notin held[s]
    BY DEF QuotationInv, LocksOK, AccountRow, AccountShare
  <2> QED BY <2>1, <2>2 DEF Effects
<1>16. SettingsRow \in h => counter' = counter
  BY SettingsLock DEF Effects, QuotationInv, LocksOK
<1> HIDE DEF t, h
<1>8. Refers(t)'
  <2>1. t' = t
    BY DEF t
  <2>2. t.q \in Nat /\ t.next \in Nat
    BY <1>1 DEF Tx, IdOr0
  <2> QED BY <1>1, <1>2, <2>1, <2>2 DEF TxOK, Refers
<1>9. t' = t /\ h' = h
  BY DEF t, h
<1>10. Walks(t)'
  BY <1>1, <1>9 DEF TxOK, Walks
<1>11. Holds(t, h)'
  <2>1. t.at \in PastOwn /\ t.op \in Owning => Ready(t.op, rows[t.q])'
    BY <1>5, <1>9 DEF Ready
  <2> QED BY <1>1, <1>5, <1>9, <2>1 DEF TxOK, Holds
<1>12. Promotes(t, h)'
  <2>1. t.op \in Removals => t.op \in Owning
    BY DEF Removals, Owning, AllOperations, Decisions
  <2>2. t.at = "commit" => t.at \in PastOwn
    BY DEF PastOwn
  <2> QED BY <1>1, <1>5, <1>9, <2>1, <2>2 DEF TxOK, Promotes
<1>13. Syncs(t)'
  <2>1. t.op \in {"edit", "send"} => t.op \in Owning
    BY DEF Owning, AllOperations, Decisions
  <2>2. t.at \in {"sync", "funnel", "commit"} => t.at \in PastOwn
    BY DEF PastOwn
  <2>3. t.net # 0 => t.at \in {"funnel", "commit"}
    BY <1>1 DEF TxOK, Refers
  <2> QED BY <1>1, <1>5, <1>9, <2>1, <2>2, <2>3 DEF TxOK, Syncs
<1>14. Owners(t, h)'
  BY <1>1, <1>6, <1>7, <1>9 DEF TxOK, Owners, Claims, Creations
<1>17. Claims(t, h)'
  BY <1>1, <1>2, <1>9, <1>16 DEF TxOK, Claims
<1>15. TxOK(t, h)'
  BY <1>8, <1>10, <1>11, <1>12, <1>13, <1>14, <1>17 DEF TxOK
<1> QED BY <1>15 DEF t, h

\* What the indexes say of the rows they admit.
LEMMA IndexHolds ==
  ASSUME NEW rs \in Seq(Row), Unique(rs)
  PROVE  /\ \A i, j \in DOMAIN rs :
              rs[i].primary /\ ~rs[i].deleted /\ rs[j].primary /\ ~rs[j].deleted => i = j
         /\ \A i, j \in DOMAIN rs :
              /\ rs[i].status = "accepted" /\ ~rs[i].deleted
              /\ rs[j].status = "accepted" /\ ~rs[j].deleted
              => i = j
<1> DEFINE F == {i \in DOMAIN rs : rs[i].primary /\ ~rs[i].deleted}
           A == {i \in DOMAIN rs : rs[i].status = "accepted" /\ ~rs[i].deleted}
<1>1. Len(rs) \in Nat /\ DOMAIN rs = 1 .. Len(rs)
  BY LenProperties
<1>2. F \subseteq 1 .. Len(rs) /\ A \subseteq 1 .. Len(rs)
  BY <1>1
<1>3. Cardinality(F) <= 1 /\ Cardinality(A) <= 1
  BY DEF Unique
<1>4. \A i, j \in F : i = j
  <2> HIDE DEF F
  <2> QED BY <1>1, <1>2, <1>3, AtMostOne
<1>5. \A i, j \in A : i = j
  <2> HIDE DEF A
  <2> QED BY <1>1, <1>2, <1>3, AtMostOne
<1> QED BY <1>4, <1>5

\* What is true of the tables alone.
TablesOK ==
  /\ rows \in Seq(Row) /\ Len(rows) <= MaxRows
  /\ \A i \in DOMAIN rows : rows[i].status = "draft" <=> rows[i].under = 0
  /\ funnel \in [primary: 0 .. Len(rows), amount: Amounts \cup {0}, open: BOOLEAN]
  /\ owner \in 1 .. MaxOwners /\ counter \in Series /\ rewound \in BOOLEAN
  /\ NumbersBounded /\ CounterAhead /\ PendingUnderOwner /\ OneFlagged /\ AmountStands

LEMMA CommitKeeps ==
  ASSUME QuotationInv, NEW s \in Sessions, End(s), starts' = starts,
         Effects(s), TablesOK'
  PROVE  QuotationInv'
<1>1. /\ \A u \in Sessions \ {s} : tx'[u] = tx[u] /\ held'[u] = held[u]
      /\ tx'[s] = NoTx /\ held'[s] = {}
      /\ tx' \in [Sessions -> Tx] /\ held' \in [Sessions -> SUBSET Locks]
  <2>1. tx \in [Sessions -> Tx] /\ held \in [Sessions -> SUBSET Locks] /\ NoTx \in Tx
    BY NoTxType DEF QuotationInv, TypeOK
  <2> QED BY <2>1 DEF End
<1>2. TypeOK'
  BY <1>1 DEF TypeOK, TablesOK, QuotationInv
<1>3. LocksOK'
  BY <1>1 DEF LocksOK, QuotationInv
<1>4. Len(rows') \in Nat
  BY LenProperties DEF TablesOK
<1>5. ASSUME NEW u \in Sessions PROVE TxOK(tx[u], held[u])'
  <2>1. CASE u # s
    BY <1>1, <1>4, <2>1, Undisturbed
  <2>2. CASE u = s
    BY <1>1, <1>4, <2>2 DEF TxOK, Refers, Walks, Holds, Promotes, Syncs, Owners, Claims,
       Creations, NoTx, PastOwn, Owning, Removals, Promoting
  <2> QED BY <2>1, <2>2
<1> QED BY <1>2, <1>3, <1>5 DEF QuotationInv, TablesOK

-----------------------------------------------------------------------------
(* Creations.                                                              *)

\* The version given is above those of the series, and no higher than the quotations
\* will be many.
LEMMA VersionFresh ==
  ASSUME TypeOK, NumbersBounded, NEW series
  PROVE  /\ NextVersion(series) \in 1 .. Len(rows) + 1
         /\ \A i \in DOMAIN rows : rows[i].series = series => rows[i].version < NextVersion(series)
<1> DEFINE S == {rows[i].version : i \in {j \in DOMAIN rows : rows[j].series = series}} \cup {0}
<1>1. Len(rows) \in Nat /\ \A i \in DOMAIN rows : rows[i] \in Row
  BY Numbered
<1>2. \A i \in DOMAIN rows : rows[i].version \in 0 .. Len(rows)
  BY <1>1 DEF NumbersBounded, Row, Ids
<1>3. S \subseteq 0 .. Len(rows) /\ S # {}
  BY <1>1, <1>2
<1>4. \A i \in DOMAIN rows : rows[i].series = series => rows[i].version \in S
  OBVIOUS
<1>5. NextVersion(series) = 1 + Max(S)
  BY DEF NextVersion
<1> HIDE DEF S
<1>6. Max(S) \in S /\ \A x \in S : x <= Max(S)
  BY <1>1, <1>3, MaxBounded
<1>7. Max(S) \in 0 .. Len(rows)
  BY <1>3, <1>6
<1> QED BY <1>1, <1>2, <1>4, <1>5, <1>6, <1>7

\* What a commit does to the counter: a claim takes it one on, an edit of the settings
\* may set it back, nothing else touches it.
LEMMA CounterWrites ==
  ASSUME QuotationInv, NEW s \in Sessions, tx[s].at = "commit",
         counter' = CounterAfter(s), rewound' = (rewound \/ CounterAfter(s) < counter)
  PROVE  /\ counter' \in Series /\ rewound' \in BOOLEAN
         /\ counter' = counter \/ SettingsRow \in held[s]
         /\ rewound' \/ (counter <= counter' /\ ~rewound)
         /\ tx[s].op \in Creations /\ tx[s].series # 0 =>
              tx[s].series = counter /\ counter < counter'
<1>1. TypeOK /\ tx[s] \in Tx /\ Claims(tx[s], held[s])
  BY Known DEF TxOK
<1>2. counter \in Series /\ rewound \in BOOLEAN /\ tx[s].series \in Series \cup {0}
  BY <1>1 DEF TypeOK, Tx
<1>3. Series \subseteq Nat /\ MaxSeries \in Nat
  BY QuotationAssumption DEF Series
<1>4. CASE tx[s].op = "numbering"
  <2>1. tx[s].series \in Series /\ SettingsRow \in held[s] /\ counter' = tx[s].series
    BY <1>1, <1>2, <1>4 DEF Claims, CounterAfter
  <2>2. rewound' \in BOOLEAN /\ (rewound' \/ (~(counter' < counter) /\ ~rewound))
    BY Zenon
  <2>3. counter <= counter' \/ counter' < counter
    <3>1. counter \in Nat /\ counter' \in Nat
      BY <1>2, <1>3, <2>1
    <3> QED BY <3>1, NatOrder
  <2>4. rewound' \/ (counter <= counter' /\ ~rewound)
    BY <2>2, <2>3
  <2> QED BY <1>4, <2>1, <2>2, <2>4 DEF Creations
<1>5. CASE tx[s].op # "numbering" /\ tx[s].series # 0
  <2>1. /\ SettingsRow \in held[s] /\ tx[s].series = counter /\ counter < MaxSeries
        /\ counter' = counter + 1
    BY <1>1, <1>5 DEF Claims, CounterAfter
  <2>2. counter + 1 \in Series /\ ~(counter + 1 < counter)
    BY <1>2, <1>3, <2>1 DEF Series
  <2>3. rewound' = (rewound \/ counter' < counter)
    OBVIOUS
  <2> QED BY <1>2, <1>3, <2>1, <2>2, <2>3
<1>6. CASE tx[s].op # "numbering" /\ tx[s].series = 0
  <2>1. counter' = counter /\ rewound' = (rewound \/ counter < counter)
    BY <1>6 DEF CounterAfter
  <2> QED BY <1>2, <1>3, <1>6, <2>1
<1> QED BY <1>4, <1>5, <1>6

\* The number a creation gives: a series claimed from the counter, as its first
\* version, or the version after the last of a series in use.
LEMMA NumberGiven ==
  ASSUME QuotationInv, NEW s \in Sessions, tx[s].at = "commit", tx[s].op \in Creations
  PROVE  /\ SeriesOf(s) \in Series /\ VersionOf(s) \in 1 .. Len(rows) + 1
         /\ tx[s].series # 0 => SeriesOf(s) = counter
         /\ tx[s].series = 0 =>
              /\ \E i \in DOMAIN rows : SeriesOf(s) = rows[i].series
              /\ VersionOf(s) = NextVersion(SeriesOf(s))
<1>1. TypeOK /\ tx[s] \in Tx /\ Refers(tx[s]) /\ Claims(tx[s], held[s])
  BY Known DEF TxOK
<1>2. /\ Len(rows) \in Nat /\ DOMAIN rows = 1 .. Len(rows)
      /\ \A i \in DOMAIN rows : rows[i] \in Row
  BY <1>1, Numbered
<1>3. CASE tx[s].series # 0
  <2>1. SeriesOf(s) = tx[s].series /\ VersionOf(s) = 1
    BY <1>3 DEF SeriesOf, VersionOf
  <2>2. tx[s].series = counter
    BY <1>1, <1>3 DEF Claims
  <2> QED BY <1>1, <1>2, <1>3, <2>1, <2>2 DEF Tx
<1>4. CASE tx[s].series = 0
  <2>1. PICK i \in DOMAIN rows : SeriesOf(s) = rows[i].series
    <3>1. CASE tx[s].op = "revise"
      <4>1. tx[s].q \in DOMAIN rows
        BY <1>1, <3>1, OwnRow
      <4> QED BY <1>4, <3>1, <4>1 DEF SeriesOf
    <3>2. CASE tx[s].op = "create"
      <4>1. 1 \in DOMAIN rows
        BY <1>1, <1>2, <1>4, <3>2 DEF Claims
      <4> QED BY <1>4, <3>2, <4>1 DEF SeriesOf
    <3>3. tx[s].op # "duplicate"
      BY <1>1, <1>4 DEF Claims
    <3> QED BY <3>1, <3>2, <3>3 DEF Creations
  <2>2. VersionOf(s) = NextVersion(SeriesOf(s))
    BY <1>4 DEF VersionOf
  <2>3. NextVersion(SeriesOf(s)) \in 1 .. Len(rows) + 1
    BY <1>1, VersionFresh DEF QuotationInv
  <2> QED BY <1>2, <1>4, <2>1, <2>2, <2>3 DEF Row
<1> QED BY <1>3, <1>4

LEMMA CreatedRow ==
  ASSUME QuotationInv, NEW s \in Sessions, tx[s].at = "commit", tx[s].op \in Creations,
         Len(rows) < MaxRows
  PROVE  /\ Created(s) \in Row
         /\ Created(s).status = "draft" /\ Created(s).under = 0 /\ ~Created(s).deleted
         /\ Created(s).primary = IsFirst(s)
         /\ tx[s].op = "create" => Created(s).amount = tx[s].amount
         /\ Created(s).series = SeriesOf(s) /\ Created(s).version = VersionOf(s)
<1>1. TypeOK /\ tx[s] \in Tx /\ Refers(tx[s])
  BY Known DEF TxOK
<1>2. Len(rows) \in Nat /\ \A i \in DOMAIN rows : rows[i] \in Row
  BY <1>1, Numbered
<1>3. SeriesOf(s) \in Series /\ VersionOf(s) \in 1 .. Len(rows) + 1
  BY NumberGiven
<1>4. SeriesOf(s) \in Series /\ VersionOf(s) \in Ids
  BY <1>2, <1>3, QuotationAssumption DEF Ids
<1>5. IsFirst(s) \in BOOLEAN
  BY DEF IsFirst
<1>6. ASSUME NEW a \in Amounts
      PROVE  /\ Draft(s, a) \in Row
             /\ Draft(s, a).status = "draft" /\ Draft(s, a).under = 0 /\ ~Draft(s, a).deleted
             /\ Draft(s, a).primary = IsFirst(s) /\ Draft(s, a).amount = a
             /\ Draft(s, a).series = SeriesOf(s)
             /\ Draft(s, a).version = VersionOf(s)
  BY <1>4, <1>5, QuotationAssumption DEF Draft, Row, Status
<1>7. CASE tx[s].op = "create"
  <2>1. tx[s].amount \in Amounts
    BY <1>1, <1>7 DEF Refers, Tx
  <2>2. Created(s) = Draft(s, tx[s].amount)
    BY <1>7 DEF Created
  <2> QED BY <1>6, <2>1, <2>2
<1>8. CASE tx[s].op \in {"revise", "duplicate"}
  <2>1. tx[s].q \in DOMAIN rows
    BY <1>1, <1>8, OwnRow
  <2>2. rows[tx[s].q].amount \in Amounts
    BY <1>2, <2>1 DEF Row
  <2>3. Created(s) = Draft(s, rows[tx[s].q].amount)
    BY <1>8 DEF Created, CopyOf
  <2> QED BY <1>6, <1>8, <2>2, <2>3
<1> QED BY <1>7, <1>8 DEF Creations

\* What a creation writes: a row at the end, and the funnel's pointer and amount if
\* the funnel had no primary when the transaction looked.
LEMMA CreationWrites ==
  ASSUME QuotationInv, NEW s \in Sessions, tx[s].at = "commit", tx[s].op \in Creations,
         Len(rows) < MaxRows,
         NEW outcome, rows' = RowsAfter(s, outcome), funnel' = FunnelAfter(s), owner' = owner,
         counter' = CounterAfter(s), rewound' = (rewound \/ CounterAfter(s) < counter),
         Unique(rows')
  PROVE  Effects(s) /\ TablesOK'
<1> DEFINE r == Created(s)
<1>1. TypeOK /\ tx[s] \in Tx /\ Refers(tx[s])
  BY Known DEF TxOK
<1>2. /\ Len(rows) \in Nat /\ DOMAIN rows = 1 .. Len(rows) /\ rows \in Seq(Row)
      /\ \A i \in DOMAIN rows : rows[i] \in Row
  BY <1>1, Numbered DEF TypeOK
<1>3. /\ r \in Row /\ r.status = "draft" /\ r.under = 0 /\ ~r.deleted
      /\ r.primary = IsFirst(s)
      /\ tx[s].op = "create" => r.amount = tx[s].amount
      /\ r.series = SeriesOf(s) /\ r.version = VersionOf(s)
  BY CreatedRow
<1>4. rows' = Append(rows, r)
  BY DEF RowsAfter, Creations
<1> HIDE DEF r
<1>5. /\ rows' \in Seq(Row) /\ Len(rows') = Len(rows) + 1
      /\ \A i \in DOMAIN rows : rows'[i] = rows[i]
      /\ rows'[Len(rows) + 1] = r
  BY <1>2, <1>3, <1>4, AppendProperties
<1>6. /\ DOMAIN rows' = 1 .. Len(rows) + 1 /\ DOMAIN rows \subseteq DOMAIN rows'
      /\ \A i \in DOMAIN rows' : i \in DOMAIN rows \/ i = Len(rows) + 1
      /\ Len(rows) + 1 \notin DOMAIN rows /\ Len(rows) + 1 # 0
  <2>1. DOMAIN rows' = 1 .. Len(rows')
    BY <1>5, LenProperties
  <2> QED BY <1>2, <1>5, <2>1
<1>7. /\ IsFirst(s) => funnel' = [funnel EXCEPT !.primary = Len(rows) + 1, !.amount = tx[s].amount]
      /\ ~IsFirst(s) => funnel' = funnel
  <2>1. tx[s].net = 0
    BY <1>1 DEF Refers, Creations
  <2>2. tx[s].op \notin {"setPrimary", "rejectCustomer", "delete"}
    BY DEF Creations
  <2> QED BY <2>1, <2>2 DEF FunnelAfter
<1>8. funnel \in [primary: 0 .. Len(rows), amount: Amounts \cup {0}, open: BOOLEAN]
  BY <1>1 DEF TypeOK
<1>9. /\ IsFirst(s) => funnel'.primary = Len(rows) + 1 /\ funnel'.amount = tx[s].amount
      /\ funnel' \in [primary: 0 .. Len(rows'), amount: Amounts \cup {0}, open: BOOLEAN]
  <2>1. tx[s].amount \in Amounts \cup {0}
    BY <1>1 DEF Tx
  <2>2. funnel \in [primary: 0 .. Len(rows'), amount: Amounts \cup {0}, open: BOOLEAN]
    BY <1>2, <1>5, <1>8
  <2>3. Len(rows) + 1 \in 0 .. Len(rows')
    BY <1>2, <1>5
  <2> QED BY <1>7, <2>1, <2>2, <2>3
<1>17. /\ counter' \in Series /\ rewound' \in BOOLEAN
       /\ counter' = counter \/ SettingsRow \in held[s]
       /\ rewound' \/ (counter <= counter' /\ ~rewound)
       /\ tx[s].series # 0 => tx[s].series = counter /\ counter < counter'
  BY CounterWrites
<1>10. Effects(s)
  <2>1. \A i \in DOMAIN rows' : Pending(i)' => i \in DOMAIN rows /\ Pending(i)
    BY <1>3, <1>5, <1>6 DEF Pending, Live
  <2>2. funnel'.primary = funnel.primary \/ funnel'.primary \notin DOMAIN rows
    BY <1>6, <1>7, <1>9
  <2> QED BY <1>2, <1>5, <1>6, <1>17, <2>1, <2>2 DEF Effects
<1>11. NumbersBounded'
  <2>1. r.version <= Len(rows) + 1
    <3>1. VersionOf(s) \in 1 .. Len(rows) + 1
      BY NumberGiven
    <3> QED BY <1>2, <1>3, <3>1
  <2>2. ASSUME NEW i \in DOMAIN rows PROVE rows[i].version <= Len(rows) + 1
    <3>1. rows[i].version \in Nat
      BY <1>2 DEF Row, Ids
    <3>2. rows[i].version <= Len(rows)
      BY DEF QuotationInv, NumbersBounded
    <3> QED BY <1>2, <3>1, <3>2
  <2> QED BY <1>5, <1>6, <2>1, <2>2 DEF NumbersBounded
<1>12. CounterAhead'
  <2> SUFFICES ASSUME ~rewound' PROVE \A i \in DOMAIN rows' : rows'[i].series < counter'
    BY DEF CounterAhead
  <2>1. counter \in Nat /\ counter' \in Nat /\ counter <= counter' /\ ~rewound
    BY <1>1, <1>17 DEF TypeOK, Series
  <2>2. ASSUME NEW i \in DOMAIN rows PROVE rows[i].series < counter'
    <3>1. rows[i].series < counter /\ rows[i].series \in Nat
      BY <1>2, <2>1 DEF QuotationInv, CounterAhead, Row, Series
    <3> QED BY <2>1, <3>1
  <2>3. r.series < counter'
    BY <1>3, <1>17, <2>2, NumberGiven
  <2> QED BY <1>5, <1>6, <2>2, <2>3
<1>13. PendingUnderOwner'
  BY <1>3, <1>5, <1>6 DEF QuotationInv, PendingUnderOwner, Live
<1>14. OneFlagged'
  BY <1>5, IndexHolds DEF OneFlagged, Flagged, Live
<1>15. AmountStands'
  <2>1. AcceptanceDeleted => AcceptanceDeleted'
    BY <1>5, <1>6 DEF AcceptanceDeleted
  <2>2. CASE IsFirst(s)
    <3>1. rows'[funnel'.primary].primary /\ funnel'.amount = rows'[funnel'.primary].amount
      BY <1>3, <1>5, <1>9, <2>2 DEF IsFirst
    <3> QED BY <3>1 DEF AmountStands
  <2>3. CASE ~IsFirst(s)
    <3>1. funnel.primary # 0 => funnel.primary \in DOMAIN rows
      BY <1>1, <1>2, <1>8
    <3>2. \A x \in DOMAIN rows : (AcceptedLive(x) /\ Flagged(x)) => (AcceptedLive(x) /\ Flagged(x))'
      BY <1>5 DEF AcceptedLive, Flagged, Live
    <3> QED BY <1>5, <1>6, <1>7, <2>1, <2>3, <3>1, <3>2 DEF QuotationInv, AmountStands
  <2> QED BY <2>2, <2>3
<1>16. /\ Len(rows') <= MaxRows /\ owner' \in 1 .. MaxOwners
       /\ \A i \in DOMAIN rows' : rows'[i].status = "draft" <=> rows'[i].under = 0
  BY <1>1, <1>2, <1>3, <1>5, <1>6, QuotationAssumption DEF TypeOK
<1> QED BY <1>5, <1>9, <1>10, <1>11, <1>12, <1>13, <1>14, <1>15, <1>16,
       <1>17 DEF TablesOK

-----------------------------------------------------------------------------
(* The commit of a change of owner.                                        *)

\* Who adds no series leaves the counter past those there are, if it is not set back.
LEMMA CounterStays ==
  ASSUME QuotationInv, counter' \in Series, rewound' \/ (counter <= counter' /\ ~rewound),
         \A i \in DOMAIN rows' : rows'[i].series = rows[i].series /\ i \in DOMAIN rows
  PROVE  CounterAhead'
<1> SUFFICES ASSUME ~rewound', NEW i \in DOMAIN rows' PROVE rows'[i].series < counter'
  BY DEF CounterAhead
<1>1. TypeOK /\ rows[i] \in Row
  BY Numbered DEF QuotationInv
<1>2. counter \in Nat /\ counter' \in Nat /\ rows[i].series \in Nat
  BY <1>1 DEF TypeOK, Series, Row
<1>3. rows[i].series < counter
  BY DEF QuotationInv, CounterAhead
<1> QED BY <1>2, <1>3

LEMMA ChangeWrites ==
  ASSUME QuotationInv, NEW s \in Sessions, tx[s].op = "changeOwner", tx[s].at = "commit",
         NEW outcome, rows' = RowsAfter(s, outcome), funnel' = FunnelAfter(s),
         owner' = owner + 1, counter' = CounterAfter(s),
         rewound' = (rewound \/ CounterAfter(s) < counter), Unique(rows')
  PROVE  /\ Effects(s) /\ TablesOK'
         /\ DOMAIN rows' = DOMAIN rows
         /\ \A i \in DOMAIN rows : rows'[i] = rows[i] \/ (Pending(i) /\ rows'[i] = ToDraft(rows[i]))
<1> DEFINE t == tx[s]
           reset(i) ==
             IF i \in tx[s].taken /\ Live(i) /\ rows[i].status = "pending_approval"
             THEN ToDraft(rows[i]) ELSE rows[i]
<1>1. TypeOK /\ t \in Tx /\ TxOK(t, held[s])
  BY Known
<1>2. /\ Len(rows) \in Nat /\ DOMAIN rows = 1 .. Len(rows) /\ Len(rows) <= MaxRows
      /\ \A i \in DOMAIN rows : rows[i] \in Row
  BY <1>1, Numbered DEF TypeOK
<1>3. /\ AccountRow \in held[s] /\ owner < MaxOwners
      /\ \A i \in DOMAIN rows : Pending(i) => i \in t.taken
      /\ \A i \in t.taken : QuotationRow(i) \in held[s]
      /\ t.net = 0
  BY <1>1 DEF TxOK, Owners, Claims, Creations, Holds, Refers
<1>4. rows' = [i \in DOMAIN rows |-> reset(i)]
  BY DEF RowsAfter, Creations
<1>5. \A i \in DOMAIN rows : rows'[i] = IF Pending(i) THEN ToDraft(rows[i]) ELSE rows[i]
  BY <1>3, <1>4 DEF Pending
<1>6. ASSUME NEW r \in Row
      PROVE  /\ ToDraft(r) \in Row /\ ToDraft(r).status = "draft" /\ ToDraft(r).under = 0
             /\ ToDraft(r).primary = r.primary /\ ToDraft(r).deleted = r.deleted
             /\ ToDraft(r).amount = r.amount /\ ToDraft(r).series = r.series
             /\ ToDraft(r).version = r.version
  <2>1. 0 \in 0 .. MaxOwners
    BY QuotationAssumption
  <2> QED BY <2>1 DEF ToDraft, Row, Status
<1>7. ASSUME NEW i \in DOMAIN rows
      PROVE  /\ rows'[i] \in Row
             /\ rows'[i].primary = rows[i].primary /\ rows'[i].deleted = rows[i].deleted
             /\ rows'[i].amount = rows[i].amount /\ rows'[i].series = rows[i].series
             /\ rows'[i].version = rows[i].version
             /\ rows'[i].status = IF Pending(i) THEN "draft" ELSE rows[i].status
             /\ rows'[i].under = IF Pending(i) THEN 0 ELSE rows[i].under
  BY <1>2, <1>5, <1>6
<1>8. rows' \in [1 .. Len(rows) -> Row]
  BY <1>2, <1>4, <1>7
<1>9. rows' \in Seq(Row) /\ Len(rows') = Len(rows) /\ DOMAIN rows' = DOMAIN rows
  BY <1>2, <1>8, FunctionIsSeq
<1>10. funnel' = funnel
  BY <1>3 DEF FunnelAfter, IsFirst
<1>11. \A i \in DOMAIN rows' : ~Pending(i)'
  BY <1>7, <1>9 DEF Pending, Live
<1>18. /\ counter' \in Series /\ rewound' \in BOOLEAN
       /\ counter' = counter \/ SettingsRow \in held[s]
       /\ rewound' \/ (counter <= counter' /\ ~rewound)
  BY CounterWrites
<1>12. Effects(s)
  <2>1. \A i \in DOMAIN rows : QuotationRow(i) \notin held[s] => rows'[i] = rows[i]
    BY <1>3, <1>5
  <2> QED BY <1>2, <1>3, <1>9, <1>10, <1>11, <1>18, <2>1 DEF Effects
<1>13. NumbersBounded' /\ CounterAhead'
  <2>1. NumbersBounded'
    BY <1>7, <1>9 DEF QuotationInv, NumbersBounded
  <2>2. \A i \in DOMAIN rows' : rows'[i].series = rows[i].series /\ i \in DOMAIN rows
    BY <1>7, <1>9
  <2>3. CounterAhead'
    BY <1>1, <1>2, <1>18, <2>2, CounterStays
  <2> QED BY <2>1, <2>3
<1>14. PendingUnderOwner'
  BY <1>11 DEF PendingUnderOwner, Pending
<1>15. OneFlagged'
  BY <1>7, <1>9 DEF QuotationInv, OneFlagged, Flagged, Live
<1>16. AmountStands'
  <2>1. \A i \in DOMAIN rows : (AcceptedLive(i) /\ Flagged(i)) => (AcceptedLive(i) /\ Flagged(i))'
    BY <1>7 DEF AcceptedLive, Flagged, Live, Pending
  <2>2. AcceptanceDeleted => AcceptanceDeleted'
    BY <1>7, <1>9 DEF AcceptanceDeleted, Pending
  <2>3. funnel.primary # 0 => funnel.primary \in DOMAIN rows
    BY <1>1, <1>2 DEF TypeOK
  <2>4. \A i \in DOMAIN rows : DrivesValue(rows'[i]) => DrivesValue(rows[i])
    BY <1>7 DEF DrivesValue, Pending
  <2> QED BY <1>7, <1>9, <1>10, <2>1, <2>2, <2>3, <2>4 DEF QuotationInv, AmountStands
<1>17. /\ Len(rows') <= MaxRows /\ owner' \in 1 .. MaxOwners
       /\ funnel' \in [primary: 0 .. Len(rows'), amount: Amounts \cup {0}, open: BOOLEAN]
       /\ \A i \in DOMAIN rows' : rows'[i].status = "draft" <=> rows'[i].under = 0
  <2>1. owner' \in 1 .. MaxOwners
    BY <1>1, <1>3, QuotationAssumption DEF TypeOK
  <2> QED BY <1>1, <1>2, <1>7, <1>9, <1>10, <2>1 DEF TypeOK
<1> QED BY <1>5, <1>9, <1>12, <1>13, <1>14, <1>15, <1>16, <1>17, <1>18 DEF TablesOK

-----------------------------------------------------------------------------
(* The commit of an operation on one quotation.                            *)

Single == AllOperations \ (Creations \cup {"changeOwner", "numbering"})

\* What an operation makes of its own row.
LEMMA OutcomeOf ==
  ASSUME QuotationInv, NEW s \in Sessions, tx[s].at = "commit", tx[s].op \in Single,
         NEW outcome \in Outcomes(s)
  PROVE  LET op == tx[s].op  r == rows[tx[s].q] IN
         /\ tx[s].q \in DOMAIN rows /\ r \in Row /\ outcome \in Row
         /\ outcome.series = r.series /\ outcome.version = r.version
         /\ op \notin {"edit", "send"} => outcome.amount = r.amount
         /\ op \in {"edit", "send"} => outcome.amount = tx[s].amount
         /\ (op = "delete" => outcome.deleted) /\ (op # "delete" => outcome.deleted = r.deleted)
         /\ op \notin Removals => outcome.primary = r.primary
         /\ op \in {"edit", "delete", "setPrimary"} =>
              outcome.status = r.status /\ outcome.under = r.under
         /\ op = "submit" =>
              outcome.status \in {"pending_approval", "approved"} /\ outcome.under = tx[s].under
         /\ op \in {"rejectApproval", "recall", "returnToDraft"} =>
              outcome.status = "draft" /\ outcome.under = 0
         /\ op = "approve" => outcome.status = "approved"
         /\ op = "send" => outcome.status = "sent"
         /\ op = "accept" => outcome.status = "accepted"
         /\ op = "rejectCustomer" => outcome.status = "rejected"
         /\ op \in {"approve", "send", "accept", "rejectCustomer"} => outcome.under = r.under
<1> DEFINE op == tx[s].op
           r == rows[tx[s].q]
<1>1. TypeOK /\ tx[s] \in Tx /\ TxOK(tx[s], held[s])
  BY Known
<1>2. tx[s].q \in DOMAIN rows
  BY <1>1, OwnRow DEF TxOK, Single, AllOperations, Decisions, Creations
<1>3. r \in Row
  BY <1>1, <1>2, Numbered
<1>4. op \in {"edit", "send"} => tx[s].amount \in Amounts
  BY <1>1 DEF TxOK, Refers, Tx
<1>5. tx[s].under \in 0 .. MaxOwners /\ 0 \in 0 .. MaxOwners
  BY <1>1, QuotationAssumption DEF Tx
<1> HIDE DEF r
<1>6. CASE op = "edit"
  <2>1. outcome = [r EXCEPT !.amount = tx[s].amount]
    BY <1>6 DEF Outcomes, Edited, r
  <2> QED BY <1>2, <1>3, <1>4, <1>6, <2>1 DEF Row, Removals, r
<1>7. CASE op = "submit"
  <2>1. PICK to \in {"pending_approval", "approved"} :
          outcome = [r EXCEPT !.status = to, !.under = tx[s].under]
    BY <1>7 DEF Outcomes, Submitted, r
  <2> QED BY <1>2, <1>3, <1>5, <1>7, <2>1 DEF Row, Status, Removals, r
<1>13. CASE op = "send"
  <2>1. outcome = [r EXCEPT !.status = "sent", !.amount = tx[s].amount]
    BY <1>13 DEF Outcomes, Sent, r
  <2> QED BY <1>2, <1>3, <1>4, <1>13, <2>1 DEF Row, Status, Removals, r
<1>8. CASE op \in {"approve", "accept"}
  <2> DEFINE to == IF op = "approve" THEN "approved" ELSE "accepted"
  <2>1. outcome = [r EXCEPT !.status = to]
    BY <1>8 DEF Outcomes, Approved, Accepted, r
  <2> QED BY <1>2, <1>3, <1>8, <2>1 DEF Row, Status, Removals, r
<1>9. CASE op = "rejectCustomer"
  <2>1. outcome = [r EXCEPT !.status = "rejected", !.primary = FALSE]
    BY <1>9 DEF Outcomes, Declined, r
  <2> QED BY <1>2, <1>3, <1>9, <2>1 DEF Row, Status, Removals, r
<1>10. CASE op = "delete"
  <2>1. outcome = [r EXCEPT !.deleted = TRUE, !.primary = FALSE]
    BY <1>10 DEF Outcomes, Deleted, r
  <2> QED BY <1>2, <1>3, <1>10, <2>1 DEF Row, Removals, r
<1>11. CASE op \in {"rejectApproval", "recall", "returnToDraft"}
  <2>1. outcome = [r EXCEPT !.status = "draft", !.under = 0]
    BY <1>11 DEF Outcomes, ToDraft, r
  <2> QED BY <1>2, <1>3, <1>5, <1>11, <2>1 DEF Row, Status, Removals, r
<1>12. CASE op = "setPrimary"
  <2>1. outcome = r
    BY <1>12 DEF Outcomes, r
  <2> QED BY <1>2, <1>3, <1>12, <2>1 DEF Row, Removals, r
<1> QED
  BY <1>6, <1>7, <1>8, <1>9, <1>10, <1>11, <1>12, <1>13 DEF Single, AllOperations,
     Decisions, Creations

\* The rows an operation on one quotation leaves: its own as it made it, the flag
\* raised on one and lowered on those it took, everything else as it was.
LEMMA SingleRows ==
  ASSUME QuotationInv, NEW s \in Sessions, tx[s].at = "commit", tx[s].op \in Single,
         NEW outcome \in Outcomes(s), rows' = RowsAfter(s, outcome)
  PROVE  LET q == tx[s].q  next == tx[s].next  taken == tx[s].taken IN
         /\ rows' \in Seq(Row) /\ Len(rows') = Len(rows) /\ DOMAIN rows' = DOMAIN rows
         /\ \A i \in DOMAIN rows : i # q =>
              /\ rows'[i].status = rows[i].status /\ rows'[i].amount = rows[i].amount
              /\ rows'[i].deleted = rows[i].deleted /\ rows'[i].series = rows[i].series
              /\ rows'[i].version = rows[i].version /\ rows'[i].under = rows[i].under
              /\ i = next => rows'[i].primary
              /\ i # next /\ i \in taken => ~rows'[i].primary
              /\ i # next /\ i \notin taken => rows'[i].primary = rows[i].primary
              /\ i # next /\ i \notin taken => rows'[i] = rows[i]
         /\ rows'[q].status = outcome.status /\ rows'[q].amount = outcome.amount
         /\ rows'[q].deleted = outcome.deleted /\ rows'[q].series = outcome.series
         /\ rows'[q].version = outcome.version /\ rows'[q].under = outcome.under
         /\ q = next => rows'[q].primary
         /\ q # next /\ q \in taken => ~rows'[q].primary
         /\ q # next /\ q \notin taken => rows'[q].primary = outcome.primary
<1> DEFINE q == tx[s].q
           next == tx[s].next
           taken == tx[s].taken
           own(i) == IF i = q THEN outcome ELSE rows[i]
           flagged(i) == IF i = next THEN [own(i) EXCEPT !.primary = TRUE]
                         ELSE IF i \in taken THEN [own(i) EXCEPT !.primary = FALSE]
                         ELSE own(i)
<1>1. /\ Len(rows) \in Nat /\ DOMAIN rows = 1 .. Len(rows)
      /\ \A i \in DOMAIN rows : rows[i] \in Row
  BY Known, Numbered
<1>2. outcome \in Row
  BY OutcomeOf
<1>3. \A i \in DOMAIN rows : own(i) \in Row
  BY <1>1, <1>2
<1>4. rows' = [i \in DOMAIN rows |-> flagged(i)]
  BY DEF RowsAfter, Single
<1>5. ASSUME NEW i \in DOMAIN rows
      PROVE  /\ rows'[i] \in Row
             /\ rows'[i].status = own(i).status /\ rows'[i].amount = own(i).amount
             /\ rows'[i].deleted = own(i).deleted /\ rows'[i].series = own(i).series
             /\ rows'[i].version = own(i).version /\ rows'[i].under = own(i).under
             /\ i = next => rows'[i].primary
             /\ i # next /\ i \in taken => ~rows'[i].primary
             /\ i # next /\ i \notin taken => rows'[i].primary = own(i).primary
             /\ i # next /\ i \notin taken => rows'[i] = own(i)
  <2> DEFINE r == own(i)
  <2>1. r \in Row
    BY <1>3
  <2>2. rows'[i] = IF i = next THEN [r EXCEPT !.primary = TRUE]
                   ELSE IF i \in taken THEN [r EXCEPT !.primary = FALSE] ELSE r
    BY <1>4
  <2> HIDE DEF r
  <2>3. rows'[i] = [r EXCEPT !.primary = IF i = next THEN TRUE
                                         ELSE IF i \in taken THEN FALSE ELSE r.primary]
    BY <2>1, <2>2 DEF Row
  <2>4. /\ rows'[i] \in Row
        /\ rows'[i].status = r.status /\ rows'[i].amount = r.amount
        /\ rows'[i].deleted = r.deleted /\ rows'[i].series = r.series
        /\ rows'[i].version = r.version /\ rows'[i].under = r.under
        /\ i = next => rows'[i].primary
        /\ i # next /\ i \in taken => ~rows'[i].primary
        /\ i # next /\ i \notin taken => rows'[i].primary = r.primary
    BY <2>1, <2>3 DEF Row
  <2>5. i # next /\ i \notin taken => rows'[i] = r
    BY <2>2
  <2> QED BY <2>4, <2>5 DEF r
<1>6. rows' \in [1 .. Len(rows) -> Row]
  BY <1>1, <1>4, <1>5
<1>7. rows' \in Seq(Row) /\ Len(rows') = Len(rows) /\ DOMAIN rows' = DOMAIN rows
  BY <1>1, <1>6, FunctionIsSeq
<1>8. ASSUME NEW i \in DOMAIN rows, i # q
      PROVE  /\ rows'[i].status = rows[i].status /\ rows'[i].amount = rows[i].amount
             /\ rows'[i].deleted = rows[i].deleted /\ rows'[i].series = rows[i].series
             /\ rows'[i].version = rows[i].version /\ rows'[i].under = rows[i].under
             /\ i = next => rows'[i].primary
             /\ i # next /\ i \in taken => ~rows'[i].primary
             /\ i # next /\ i \notin taken => rows'[i].primary = rows[i].primary
             /\ i # next /\ i \notin taken => rows'[i] = rows[i]
  <2>1. own(i) = rows[i]
    BY <1>8
  <2> HIDE DEF own, flagged
  <2> QED BY <1>5, <2>1
<1>9. /\ rows'[q].status = outcome.status /\ rows'[q].amount = outcome.amount
      /\ rows'[q].deleted = outcome.deleted /\ rows'[q].series = outcome.series
      /\ rows'[q].version = outcome.version /\ rows'[q].under = outcome.under
      /\ q = next => rows'[q].primary
      /\ q # next /\ q \in taken => ~rows'[q].primary
      /\ q # next /\ q \notin taken => rows'[q].primary = outcome.primary
  <2>1. own(q) = outcome /\ q \in DOMAIN rows
    BY OutcomeOf
  <2> HIDE DEF own, flagged, q
  <2>2. /\ rows'[q].status = own(q).status /\ rows'[q].amount = own(q).amount
        /\ rows'[q].deleted = own(q).deleted /\ rows'[q].series = own(q).series
        /\ rows'[q].version = own(q).version /\ rows'[q].under = own(q).under
        /\ q = next => rows'[q].primary
        /\ q # next /\ q \in taken => ~rows'[q].primary
        /\ q # next /\ q \notin taken => rows'[q].primary = own(q).primary
    BY <1>5, <2>1
  <2> QED BY <2>1, <2>2
<1> QED BY <1>7, <1>8, <1>9

\* What such an operation found of its row, and where it writes.
LEMMA SingleReady ==
  ASSUME QuotationInv, NEW s \in Sessions, tx[s].at = "commit", tx[s].op \in Single
  PROVE  LET t == tx[s]  r == rows[tx[s].q] IN
         /\ t.q \in DOMAIN rows /\ t.q # 0
         /\ t.op # "setPrimary" => Ready(t.op, r) /\ QuotationRow(t.q) \in held[s]
         /\ \A i \in t.taken : QuotationRow(i) \in held[s]
         /\ t.next # 0 => t.next \in DOMAIN rows /\ QuotationRow(t.next) \in held[s]
         /\ t.op \in {"setPrimary", "accept"} => t.next = t.q
         /\ t.op = "setPrimary" => FunnelRow \in held[s]
         /\ t.op \in Removals => t.next # t.q
         /\ t.op \in Removals /\ t.next = 0 => t.taken = {}
         /\ t.op \in Removals /\ FunnelRow \notin held[s] => t.next = 0 /\ funnel.primary # t.q
         /\ t.op \notin Promoting => t.next = 0 /\ t.taken = {}
<1>1. TypeOK /\ tx[s] \in Tx /\ TxOK(tx[s], held[s])
  BY Known
<1>2. tx[s].q \in DOMAIN rows /\ tx[s].q # 0
  BY <1>1, OwnRow DEF TxOK, Single, AllOperations, Decisions, Creations
<1>3. tx[s].op # "setPrimary" => tx[s].op \in Owning
  BY DEF Single, Owning, AllOperations, Decisions, Creations
<1>4. tx[s].next # 0 => tx[s].next \in DOMAIN rows /\ QuotationRow(tx[s].next) \in held[s]
  BY <1>1, NextRow DEF TxOK, Holds
<1>5. \A i \in tx[s].taken : QuotationRow(i) \in held[s]
  BY <1>1 DEF TxOK, Holds
<1>6. tx[s].op # "setPrimary" => Ready(tx[s].op, rows[tx[s].q]) /\ QuotationRow(tx[s].q) \in held[s]
  BY <1>1, <1>3 DEF TxOK, Holds, PastOwn
<1>7. tx[s].op \notin Promoting => tx[s].next = 0 /\ tx[s].taken = {}
  BY <1>1 DEF TxOK, Refers, Single
<1>8. /\ tx[s].op \in {"setPrimary", "accept"} => tx[s].next = tx[s].q
      /\ tx[s].op = "setPrimary" => FunnelRow \in held[s]
      /\ tx[s].op \in Removals => tx[s].next # tx[s].q
      /\ tx[s].op \in Removals /\ tx[s].next = 0 => tx[s].taken = {}
      /\ tx[s].op \in Removals /\ FunnelRow \notin held[s] =>
           tx[s].next = 0 /\ funnel.primary # tx[s].q
  BY <1>1 DEF TxOK, Promotes, PastOwn
<1> QED BY <1>2, <1>4, <1>5, <1>6, <1>7, <1>8

\* A step along the transition table, under the rules LegalTransitions names.
LEMMA SingleLegal ==
  ASSUME QuotationInv, NEW s \in Sessions, tx[s].at = "commit", tx[s].op \in Single,
         NEW outcome \in Outcomes(s)
  PROVE  LET r == rows[tx[s].q] IN
         /\ outcome.status # r.status => <<r.status, outcome.status>> \in Transitions
         /\ outcome.amount # r.amount =>
              r.status = "draft" \/ (r.status = "approved" /\ outcome.status = "sent")
         /\ r.deleted =>
              outcome.deleted /\ outcome.status = r.status /\ outcome.amount = r.amount
         /\ outcome.status = "draft" <=> outcome.under = 0
         /\ outcome.status = "pending_approval" /\ ~outcome.deleted => outcome.under = owner
         /\ outcome.status = "pending_approval" /\ tx[s].op # "submit" =>
              r.status = "pending_approval" /\ (~outcome.deleted => ~r.deleted)
<1> DEFINE op == tx[s].op
           r == rows[tx[s].q]
<1>1. /\ tx[s].q \in DOMAIN rows
      /\ op # "setPrimary" => Ready(op, r)
  BY SingleReady
<1>2. /\ r \in Row /\ outcome \in Row
      /\ op \notin {"edit", "send"} => outcome.amount = r.amount
      /\ (op = "delete" => outcome.deleted) /\ (op # "delete" => outcome.deleted = r.deleted)
      /\ op \in {"edit", "delete", "setPrimary"} =>
           outcome.status = r.status /\ outcome.under = r.under
      /\ op = "submit" =>
           outcome.status \in {"pending_approval", "approved"} /\ outcome.under = tx[s].under
      /\ op \in {"rejectApproval", "recall", "returnToDraft"} =>
           outcome.status = "draft" /\ outcome.under = 0
      /\ op = "approve" => outcome.status = "approved"
      /\ op = "send" => outcome.status = "sent"
      /\ op = "accept" => outcome.status = "accepted"
      /\ op = "rejectCustomer" => outcome.status = "rejected"
      /\ op \in {"approve", "send", "accept", "rejectCustomer"} => outcome.under = r.under
  BY OutcomeOf
<1>3. /\ r.status = "draft" <=> r.under = 0
      /\ r.status = "pending_approval" /\ ~r.deleted => r.under = owner
  BY <1>1 DEF QuotationInv, TypeOK, PendingUnderOwner, Live
<1>4. op = "submit" => tx[s].under = owner /\ owner # 0
  <2>1. TypeOK /\ TxOK(tx[s], held[s])
    BY Known
  <2>2. owner # 0
    BY <2>1, QuotationAssumption DEF TypeOK
  <2> QED BY <2>1, <2>2 DEF TxOK, Owners, Claims, Creations
<1>5. /\ op \in {"edit", "submit"} => ~r.deleted /\ r.status = "draft"
      /\ op \in {"approve", "rejectApproval", "recall"} =>
           ~r.deleted /\ r.status = "pending_approval"
      /\ op \in {"returnToDraft", "send"} => ~r.deleted /\ r.status = "approved"
      /\ op \in {"accept", "rejectCustomer"} => ~r.deleted /\ r.status = "sent"
      /\ op = "delete" => ~r.deleted
  BY <1>1 DEF Ready
<1>6. op \in {"edit", "delete", "setPrimary", "submit", "rejectApproval", "recall",
              "returnToDraft", "approve", "send", "accept", "rejectCustomer"}
  BY DEF Single, AllOperations, Decisions, Creations
<1> HIDE DEF r, op
<1>7. outcome.status # r.status => <<r.status, outcome.status>> \in Transitions
  BY <1>2, <1>5, <1>6 DEF Transitions
<1>8. outcome.amount # r.amount =>
        r.status = "draft" \/ (r.status = "approved" /\ outcome.status = "sent")
  BY <1>2, <1>5
<1>9. r.deleted => outcome.deleted /\ outcome.status = r.status /\ outcome.amount = r.amount
  BY <1>2, <1>5, <1>6
<1>10. outcome.status = "draft" <=> outcome.under = 0
  BY <1>2, <1>3, <1>4, <1>5, <1>6
<1>11. outcome.status = "pending_approval" /\ ~outcome.deleted => outcome.under = owner
  BY <1>2, <1>3, <1>4, <1>5, <1>6
<1>12. outcome.status = "pending_approval" /\ op # "submit" =>
         r.status = "pending_approval" /\ (~outcome.deleted => ~r.deleted)
  BY <1>2, <1>5, <1>6
<1> QED BY <1>7, <1>8, <1>9, <1>10, <1>11, <1>12 DEF r, op

\* The funnel an operation on one quotation leaves.
LEMMA SingleFunnel ==
  ASSUME QuotationInv, NEW s \in Sessions, tx[s].at = "commit", tx[s].op \in Single,
         funnel' = FunnelAfter(s)
  PROVE  LET t == tx[s] IN
         /\ funnel' \in [primary: 0 .. Len(rows), amount: Amounts \cup {0}, open: BOOLEAN]
         /\ t.net # 0 => funnel'.primary = funnel.primary /\ funnel'.amount = t.net
         /\ t.op \in {"setPrimary"} \cup Removals /\ FunnelRow \in held[s] =>
              /\ funnel'.primary = t.next
              /\ t.next # 0 /\ DrivesValue(rows[t.next]) => funnel'.amount = rows[t.next].amount
         /\ t.net = 0 /\ ~(t.op \in {"setPrimary"} \cup Removals /\ FunnelRow \in held[s]) =>
              funnel' = funnel
<1> DEFINE t == tx[s]
<1>1. TypeOK /\ t \in Tx /\ TxOK(t, held[s])
  BY Known
<1>2. funnel \in [primary: 0 .. Len(rows), amount: Amounts \cup {0}, open: BOOLEAN]
  BY <1>1 DEF TypeOK
<1>3. ~IsFirst(s)
  BY DEF IsFirst, Single, Creations
<1>4. t.net # 0 => t.op \in {"edit", "send"}
  BY <1>1 DEF TxOK, Refers
<1>5. CASE t.net # 0
  <2>1. funnel' = [funnel EXCEPT !.amount = t.net]
    BY <1>3, <1>4, <1>5 DEF FunnelAfter
  <2>2. t.net \in Amounts \cup {0}
    BY <1>1 DEF Tx
  <2> QED BY <1>2, <1>4, <1>5, <2>1, <2>2 DEF Removals
<1>6. CASE t.net = 0 /\ t.op \in {"setPrimary"} \cup Removals /\ FunnelRow \in held[s]
  <2> DEFINE amount == IF t.next = 0 THEN 0
                       ELSE IF DrivesValue(rows[t.next]) THEN rows[t.next].amount
                       ELSE funnel.amount
  <2>1. funnel' = [funnel EXCEPT !.primary = t.next, !.amount = amount]
    BY <1>3, <1>6 DEF FunnelAfter, Removals
  <2>2. t.next \in 0 .. Len(rows) /\ amount \in Amounts \cup {0}
    <3>1. /\ Len(rows) \in Nat /\ DOMAIN rows = 1 .. Len(rows)
          /\ \A i \in DOMAIN rows : rows[i] \in Row
      BY <1>1, Numbered
    <3>2. t.next # 0 => t.next \in DOMAIN rows
      BY <1>1, NextRow DEF TxOK
    <3>3. t.next # 0 => rows[t.next].amount \in Amounts
      BY <3>1, <3>2 DEF Row
    <3> QED BY <1>2, <3>1, <3>2, <3>3
  <2>3. t.next # 0 /\ DrivesValue(rows[t.next]) => amount = rows[t.next].amount
    OBVIOUS
  <2> HIDE DEF amount
  <2>4. /\ funnel'.primary = t.next /\ funnel'.amount = amount
        /\ funnel' \in [primary: 0 .. Len(rows), amount: Amounts \cup {0}, open: BOOLEAN]
    BY <1>2, <2>1, <2>2
  <2> QED BY <1>6, <2>3, <2>4
<1>7. CASE t.net = 0 /\ ~(t.op \in {"setPrimary"} \cup Removals /\ FunnelRow \in held[s])
  <2>1. funnel' = funnel
    BY <1>3, <1>7 DEF FunnelAfter, Removals
  <2> QED BY <1>2, <1>7, <2>1
<1> QED BY <1>5, <1>6, <1>7

\* The amount of the funnel after an operation on one quotation: the cases are the
\* ways in which the pointer's quotation and the operation's own are related.
LEMMA SingleAmount ==
  ASSUME QuotationInv, NEW s \in Sessions, tx[s].at = "commit", tx[s].op \in Single,
         NEW outcome \in Outcomes(s), rows' = RowsAfter(s, outcome), funnel' = FunnelAfter(s),
         Unique(rows')
  PROVE  AmountStands'
<1> DEFINE t == tx[s]
           q == tx[s].q
           next == tx[s].next
           p == funnel.primary
           op == tx[s].op
<1>1. TypeOK /\ t \in Tx /\ TxOK(t, held[s])
  BY Known
<1>2. /\ q \in DOMAIN rows /\ q # 0
      /\ op # "setPrimary" => Ready(op, rows[q]) /\ QuotationRow(q) \in held[s]
      /\ next # 0 => next \in DOMAIN rows
      /\ op \in {"setPrimary", "accept"} => next = q
      /\ op = "setPrimary" => FunnelRow \in held[s]
      /\ op \in Removals => next # q
      /\ op \in Removals /\ next = 0 => t.taken = {}
      /\ op \in Removals /\ FunnelRow \notin held[s] => next = 0 /\ p # q
      /\ op \notin Promoting => next = 0 /\ t.taken = {}
  BY SingleReady
<1>3. /\ rows[q] \in Row /\ outcome \in Row
      /\ op \notin {"edit", "send"} => outcome.amount = rows[q].amount
      /\ op \in {"edit", "send"} => outcome.amount = t.amount
      /\ (op = "delete" => outcome.deleted) /\ (op # "delete" => outcome.deleted = rows[q].deleted)
      /\ op \notin Removals => outcome.primary = rows[q].primary
      /\ op \in {"edit", "delete", "setPrimary"} => outcome.status = rows[q].status
      /\ op = "submit" => outcome.status \in {"pending_approval", "approved"}
      /\ op \in {"rejectApproval", "recall", "returnToDraft"} => outcome.status = "draft"
      /\ op = "approve" => outcome.status = "approved"
      /\ op = "send" => outcome.status = "sent"
      /\ op = "accept" => outcome.status = "accepted"
      /\ op = "rejectCustomer" => outcome.status = "rejected"
  BY OutcomeOf
<1>4. /\ rows' \in Seq(Row) /\ DOMAIN rows' = DOMAIN rows
      /\ \A i \in DOMAIN rows : i # q =>
           /\ rows'[i].status = rows[i].status /\ rows'[i].amount = rows[i].amount
           /\ rows'[i].deleted = rows[i].deleted
           /\ i = next => rows'[i].primary
           /\ i # next /\ i \in t.taken => ~rows'[i].primary
           /\ i # next /\ i \notin t.taken => rows'[i].primary = rows[i].primary
      /\ rows'[q].status = outcome.status /\ rows'[q].amount = outcome.amount
      /\ rows'[q].deleted = outcome.deleted
      /\ q = next => rows'[q].primary
      /\ q # next /\ q \in t.taken => ~rows'[q].primary
      /\ q # next /\ q \notin t.taken => rows'[q].primary = outcome.primary
  BY SingleRows
<1>5. /\ t.net # 0 => funnel'.primary = p /\ funnel'.amount = t.net
      /\ op \in {"setPrimary"} \cup Removals /\ FunnelRow \in held[s] =>
           /\ funnel'.primary = next
           /\ next # 0 /\ DrivesValue(rows[next]) => funnel'.amount = rows[next].amount
      /\ t.net = 0 /\ ~(op \in {"setPrimary"} \cup Removals /\ FunnelRow \in held[s]) =>
           funnel' = funnel
  BY SingleFunnel
<1>6. /\ op \in {"edit", "submit"} => ~rows[q].deleted /\ rows[q].status = "draft"
      /\ op \in {"approve", "rejectApproval", "recall"} =>
           ~rows[q].deleted /\ rows[q].status = "pending_approval"
      /\ op \in {"returnToDraft", "send"} => ~rows[q].deleted /\ rows[q].status = "approved"
      /\ op \in {"accept", "rejectCustomer"} => ~rows[q].deleted /\ rows[q].status = "sent"
      /\ op = "delete" => ~rows[q].deleted
  BY <1>2 DEF Ready
<1>7. op \in {"edit", "delete", "setPrimary", "submit", "rejectApproval", "recall",
              "returnToDraft", "approve", "send", "accept", "rejectCustomer"}
  BY DEF Single, AllOperations, Decisions, Creations
<1>8. AcceptanceDeleted => AcceptanceDeleted'
  <2> SUFFICES ASSUME NEW i \in DOMAIN rows, rows[i].deleted, rows[i].status = "accepted"
               PROVE  rows'[i].deleted /\ rows'[i].status = "accepted"
    BY <1>4 DEF AcceptanceDeleted
  <2> QED BY <1>3, <1>4, <1>6, <1>7
<1>9. /\ p # 0 => p \in DOMAIN rows
      /\ p # 0 /\ DrivesValue(rows[p]) /\ ~AcceptanceDeleted =>
           \/ rows[p].primary /\ funnel.amount = rows[p].amount
           \/ \E x \in DOMAIN rows : x # p /\ AcceptedLive(x) /\ Flagged(x)
  BY <1>1, Numbered DEF QuotationInv, AmountStands, TypeOK
<1>10. CASE op \in {"setPrimary"} \cup Removals /\ FunnelRow \in held[s]
  <2>1. SUFFICES ASSUME next # 0, DrivesValue(rows'[next])
                 PROVE  rows'[next].primary /\ funnel'.amount = rows'[next].amount
    BY <1>5, <1>10 DEF AmountStands
  <2>2. rows'[next].primary
    BY <1>2, <1>4, <2>1
  <2>3. CASE op = "setPrimary"
    <3>1. next = q
      BY <1>2, <2>3
    <3>2. rows'[next].amount = rows[next].amount /\ DrivesValue(rows[next])
      BY <1>2, <1>3, <1>4, <2>1, <2>3, <3>1 DEF DrivesValue
    <3> QED BY <1>5, <1>10, <2>1, <2>2, <3>2
  <2>4. CASE op \in Removals
    <3>1. next # q /\ next \in DOMAIN rows
      BY <1>2, <2>1, <2>4
    <3>2. rows'[next].amount = rows[next].amount /\ DrivesValue(rows[next])
      BY <1>2, <1>4, <2>1, <3>1 DEF DrivesValue
    <3> QED BY <1>5, <1>10, <2>1, <2>2, <3>2
  <2> QED BY <1>10, <2>3, <2>4
<1>11. CASE ~(op \in {"setPrimary"} \cup Removals /\ FunnelRow \in held[s])
  <2>1. funnel'.primary = p
    BY <1>5, <1>11
  <2>2. SUFFICES ASSUME p # 0, DrivesValue(rows'[p]), ~AcceptanceDeleted'
                 PROVE  \/ rows'[p].primary /\ funnel'.amount = rows'[p].amount
                        \/ \E x \in DOMAIN rows :
                             /\ x # p /\ rows'[x].status = "accepted"
                             /\ ~rows'[x].deleted /\ rows'[x].primary
    BY <1>4, <2>1 DEF AmountStands, AcceptedLive, Flagged, Live
  <2>3. p \in DOMAIN rows /\ ~AcceptanceDeleted
    BY <1>8, <1>9, <2>2
  <2>4. CASE op = "accept"
    <3>1. next = q /\ t.net = 0 /\ funnel' = funnel
      BY <1>1, <1>2, <1>5, <1>11, <2>4 DEF TxOK, Refers
    <3>2. rows'[q].status = "accepted" /\ ~rows'[q].deleted /\ rows'[q].primary
      BY <1>2, <1>3, <1>4, <1>6, <2>4, <3>1 DEF Removals
    <3>3. CASE p # q
      BY <1>2, <3>2, <3>3
    <3>4. CASE p = q
      <4>1. DrivesValue(rows[p])
        BY <1>6, <2>4, <3>4 DEF DrivesValue
      <4>2. ~\E x \in DOMAIN rows : x # p /\ AcceptedLive(x) /\ Flagged(x)
        <5> SUFFICES ASSUME NEW x \in DOMAIN rows, x # p, AcceptedLive(x) PROVE FALSE
          OBVIOUS
        <5>1. rows'[x].status = "accepted" /\ ~rows'[x].deleted
          BY <1>4, <3>4 DEF AcceptedLive, Live
        <5> QED BY <1>2, <1>4, <3>2, <3>4, <5>1, IndexHolds
      <4>3. rows[p].primary /\ funnel.amount = rows[p].amount
        BY <1>9, <2>2, <2>3, <4>1, <4>2
      <4> QED BY <1>2, <1>3, <1>4, <2>4, <3>1, <3>4, <4>3
    <3> QED BY <3>3, <3>4
  <2>5. CASE op \in Removals
    <3>1. next = 0 /\ p # q /\ t.taken = {} /\ t.net = 0 /\ funnel' = funnel
      BY <1>1, <1>2, <1>5, <1>11, <2>5 DEF TxOK, Refers, Removals
    <3>2. \A i \in DOMAIN rows : i # q =>
            /\ rows'[i].status = rows[i].status /\ rows'[i].amount = rows[i].amount
            /\ rows'[i].deleted = rows[i].deleted /\ rows'[i].primary = rows[i].primary
      <4>1. 0 \notin DOMAIN rows
        BY <1>1, Numbered
      <4> QED BY <1>4, <3>1, <4>1
    <3>3. DrivesValue(rows[p])
      BY <2>2, <2>3, <3>1, <3>2 DEF DrivesValue
    <3>4. CASE rows[p].primary /\ funnel.amount = rows[p].amount
      BY <2>3, <3>1, <3>2, <3>4
    <3>5. ASSUME NEW x \in DOMAIN rows, x # p, AcceptedLive(x), Flagged(x)
          PROVE  rows'[x].status = "accepted" /\ ~rows'[x].deleted /\ rows'[x].primary
      <4>1. x # q
        <5>1. CASE op = "rejectCustomer"
          BY <1>6, <3>5, <5>1 DEF AcceptedLive
        <5>2. CASE op = "delete" /\ x = q
          <6>1. rows'[q].deleted /\ rows'[q].status = "accepted"
            BY <1>2, <1>3, <1>4, <3>5, <5>2 DEF AcceptedLive
          <6> QED BY <1>2, <1>4, <2>2, <6>1 DEF AcceptanceDeleted
        <5> QED BY <2>5, <5>1, <5>2 DEF Removals
      <4> QED BY <3>2, <3>5, <4>1 DEF AcceptedLive, Flagged, Live
    <3> QED BY <1>9, <2>2, <2>3, <3>3, <3>4, <3>5
  <2>6. CASE op \notin Removals \cup {"accept", "setPrimary"}
    <3>1. next = 0 /\ t.taken = {}
      BY <1>2, <2>6 DEF Promoting
    <3>2. 0 \notin DOMAIN rows
      BY <1>1, Numbered
    <3>3. \A i \in DOMAIN rows :
            /\ rows'[i].primary = rows[i].primary /\ rows'[i].deleted = rows[i].deleted
            /\ i # q => rows'[i].status = rows[i].status /\ rows'[i].amount = rows[i].amount
      BY <1>3, <1>4, <2>6, <3>1, <3>2 DEF Removals
    <3>4. /\ rows'[q].status = outcome.status /\ rows'[q].amount = outcome.amount
          /\ ~rows[q].deleted /\ rows[q].status \in {"draft", "pending_approval", "approved"}
      BY <1>2, <1>4, <1>6, <1>7, <2>6 DEF Removals
    <3>5. DrivesValue(rows[p])
      BY <2>2, <2>3, <3>3, <3>4 DEF DrivesValue
    <3>6. \A x \in DOMAIN rows : AcceptedLive(x) /\ Flagged(x) => 
            /\ x # q /\ rows'[x].status = "accepted"
            /\ ~rows'[x].deleted /\ rows'[x].primary
      BY <3>3, <3>4 DEF AcceptedLive, Flagged, Live
    <3>7. CASE t.net # 0
      <4>1. op \in {"edit", "send"} /\ rows[q].primary /\ (p = q => t.net = outcome.amount)
        BY <1>1, <1>3, <3>7 DEF TxOK, Refers, Syncs
      <4>2. p = q
        <5>1. SUFFICES ASSUME p # q PROVE FALSE
          OBVIOUS
        <5>2. Flagged(q)
          BY <3>4, <4>1 DEF Flagged, Live
        <5>3. \A i \in DOMAIN rows : Flagged(i) => i = q
          BY <1>2, <5>2 DEF QuotationInv, OneFlagged
        <5>4. ~(rows[p].primary)
          BY <2>3, <3>5, <5>1, <5>3 DEF Flagged, Live, DrivesValue
        <5> QED BY <1>9, <2>2, <2>3, <3>5, <3>6, <5>3, <5>4
      <4> QED BY <1>2, <1>5, <3>3, <3>4, <3>7, <4>1, <4>2
    <3>8. CASE t.net = 0
      <4>1. funnel' = funnel
        BY <1>5, <1>11, <3>8
      <4>2. CASE rows[p].primary /\ funnel.amount = rows[p].amount
        <5>1. rows'[p].amount = rows[p].amount
          <6>1. CASE p # q
            BY <2>3, <3>3, <6>1
          <6>2. CASE p = q
            <7>1. op \notin {"edit", "send"}
              BY <1>1, <3>8, <4>2, <6>2 DEF TxOK, Syncs
            <7> QED BY <1>3, <3>4, <6>2, <7>1
          <6> QED BY <6>1, <6>2
        <5> QED BY <2>3, <3>3, <4>1, <4>2, <5>1
      <4> QED BY <1>9, <2>2, <2>3, <3>5, <3>6, <4>2
    <3> QED BY <3>7, <3>8
  <2> QED BY <1>2, <1>11, <2>4, <2>5, <2>6
<1> QED BY <1>10, <1>11

LEMMA SingleWrites ==
  ASSUME QuotationInv, NEW s \in Sessions, tx[s].at = "commit", tx[s].op \in Single,
         NEW outcome \in Outcomes(s), rows' = RowsAfter(s, outcome), funnel' = FunnelAfter(s),
         owner' = owner, counter' = CounterAfter(s),
         rewound' = (rewound \/ CounterAfter(s) < counter), Unique(rows')
  PROVE  Effects(s) /\ TablesOK'
<1> DEFINE t == tx[s]
           q == tx[s].q
           next == tx[s].next
<1>1. /\ TypeOK /\ Len(rows) \in Nat /\ DOMAIN rows = 1 .. Len(rows) /\ Len(rows) <= MaxRows
      /\ 0 \notin DOMAIN rows
  BY Known, Numbered DEF TypeOK
<1>2. /\ q \in DOMAIN rows
      /\ t.op # "setPrimary" => QuotationRow(q) \in held[s]
      /\ \A i \in t.taken : QuotationRow(i) \in held[s]
      /\ next # 0 => QuotationRow(next) \in held[s]
      /\ t.op = "setPrimary" => next = q
  BY SingleReady
<1>3. /\ rows' \in Seq(Row) /\ Len(rows') = Len(rows) /\ DOMAIN rows' = DOMAIN rows
      /\ \A i \in DOMAIN rows : i # q =>
           /\ rows'[i].status = rows[i].status /\ rows'[i].deleted = rows[i].deleted
           /\ rows'[i].series = rows[i].series /\ rows'[i].version = rows[i].version
           /\ rows'[i].under = rows[i].under
           /\ i # next /\ i \notin t.taken => rows'[i] = rows[i]
      /\ rows'[q].status = outcome.status /\ rows'[q].deleted = outcome.deleted
      /\ rows'[q].series = outcome.series /\ rows'[q].version = outcome.version
      /\ rows'[q].under = outcome.under
  BY SingleRows
<1>4. /\ outcome.series = rows[q].series /\ outcome.version = rows[q].version
  BY OutcomeOf
<1>5. /\ outcome.status = "draft" <=> outcome.under = 0
      /\ outcome.status = "pending_approval" /\ ~outcome.deleted => outcome.under = owner
      /\ outcome.status = "pending_approval" /\ t.op # "submit" =>
           rows[q].status = "pending_approval" /\ (~outcome.deleted => ~rows[q].deleted)
  BY SingleLegal
<1>6. /\ funnel' \in [primary: 0 .. Len(rows), amount: Amounts \cup {0}, open: BOOLEAN]
      /\ funnel'.primary = funnel.primary \/ funnel'.primary = next
  <2>1. /\ t.net # 0 => funnel'.primary = funnel.primary
        /\ t.op \in {"setPrimary"} \cup Removals /\ FunnelRow \in held[s] => funnel'.primary = next
        /\ t.net = 0 /\ ~(t.op \in {"setPrimary"} \cup Removals /\ FunnelRow \in held[s]) =>
             funnel' = funnel
        /\ funnel' \in [primary: 0 .. Len(rows), amount: Amounts \cup {0}, open: BOOLEAN]
    BY SingleFunnel
  <2> QED BY <2>1
<1>14. /\ counter' \in Series /\ rewound' \in BOOLEAN
       /\ counter' = counter \/ SettingsRow \in held[s]
       /\ rewound' \/ (counter <= counter' /\ ~rewound)
  BY CounterWrites
<1>7. AccountShare \in held[s] \/ t.op # "submit"
  BY Known DEF TxOK, Owners, Claims, Creations
<1>8. Effects(s)
  <2>1. \A i \in DOMAIN rows : QuotationRow(i) \notin held[s] => rows'[i] = rows[i]
    BY <1>2, <1>3
  <2>2. \/ funnel'.primary = funnel.primary \/ funnel'.primary = 0
        \/ QuotationRow(funnel'.primary) \in held[s]
    BY <1>2, <1>6
  <2>3. t.op # "submit" => \A i \in DOMAIN rows' : Pending(i)' => i \in DOMAIN rows /\ Pending(i)
    BY <1>3, <1>5 DEF Pending, Live
  <2> QED BY <1>1, <1>3, <1>7, <1>14, <2>1, <2>2, <2>3 DEF Effects
<1>9. NumbersBounded' /\ CounterAhead'
  <2>1. \A i \in DOMAIN rows : rows'[i].series = rows[i].series /\ rows'[i].version = rows[i].version
    BY <1>3, <1>4
  <2>2. NumbersBounded'
    BY <1>3, <2>1 DEF QuotationInv, NumbersBounded
  <2>3. CounterAhead'
    BY <1>3, <1>14, <2>1, CounterStays
  <2> QED BY <2>2, <2>3
<1>10. PendingUnderOwner'
  BY <1>3, <1>5 DEF QuotationInv, PendingUnderOwner, Live
<1>11. OneFlagged'
  BY <1>3, IndexHolds DEF OneFlagged, Flagged, Live
<1>12. AmountStands'
  BY SingleAmount
<1>13. /\ Len(rows') <= MaxRows /\ owner' \in 1 .. MaxOwners
       /\ funnel' \in [primary: 0 .. Len(rows'), amount: Amounts \cup {0}, open: BOOLEAN]
       /\ \A i \in DOMAIN rows' : rows'[i].status = "draft" <=> rows'[i].under = 0
  BY <1>1, <1>3, <1>5, <1>6 DEF TypeOK
<1> QED BY <1>3, <1>8, <1>9, <1>10, <1>11, <1>12, <1>13, <1>14 DEF TablesOK

-----------------------------------------------------------------------------
(* Every commit.                                                           *)

\* A commit leaves the tables, or is one of the four.
LEMMA CommitCases ==
  ASSUME QuotationInv, NEW s \in Sessions, Commit(s)
  PROVE  \/ UNCHANGED tables
         \/ /\ tx[s].op = "numbering" /\ rows' = rows /\ funnel' = funnel /\ owner' = owner
            /\ counter' = CounterAfter(s) /\ rewound' = (rewound \/ CounterAfter(s) < counter)
         \/ /\ tx[s].op \in Creations /\ Len(rows) < MaxRows /\ owner' = owner
            /\ \E outcome : rows' = RowsAfter(s, outcome)
            /\ funnel' = FunnelAfter(s) /\ Unique(rows')
            /\ counter' = CounterAfter(s) /\ rewound' = (rewound \/ CounterAfter(s) < counter)
         \/ /\ tx[s].op = "changeOwner" /\ owner' = owner + 1
            /\ \E outcome : rows' = RowsAfter(s, outcome)
            /\ funnel' = FunnelAfter(s) /\ Unique(rows')
            /\ counter' = CounterAfter(s) /\ rewound' = (rewound \/ CounterAfter(s) < counter)
         \/ /\ tx[s].op \in Single /\ owner' = owner
            /\ \E outcome \in Outcomes(s) : rows' = RowsAfter(s, outcome)
            /\ funnel' = FunnelAfter(s) /\ Unique(rows')
            /\ counter' = CounterAfter(s) /\ rewound' = (rewound \/ CounterAfter(s) < counter)
<1>1. tx[s] \in Tx /\ TxOK(tx[s], held[s])
  BY Known
<1>2. tx[s].at = "commit" /\ (tx[s].op \in Creations => Len(rows) < MaxRows)
  BY DEF Commit
<1>3. PICK outcome \in IF tx[s].q = 0 THEN {NoTx} ELSE Outcomes(s) :
        IF Indexed(RowsAfter(s, outcome))
        THEN /\ rows' = RowsAfter(s, outcome)
             /\ funnel' = FunnelAfter(s)
             /\ owner' = IF tx[s].op = "changeOwner" THEN owner + 1 ELSE owner
             /\ counter' = CounterAfter(s) /\ rewound' = (rewound \/ CounterAfter(s) < counter)
        ELSE UNCHANGED tables
  BY DEF Commit
<1>4. tx[s].op \in Creations \/ tx[s].op \in {"changeOwner", "numbering"} \/ tx[s].op \in Single
  BY <1>1, <1>2 DEF TxOK, Refers, Single, Tx
<1>5. tx[s].op \in Single => tx[s].q # 0
  BY <1>1 DEF TxOK, Refers, Single, AllOperations, Decisions, Creations
<1>6. tx[s].op \in Creations \cup Single => tx[s].op \notin {"changeOwner", "numbering"}
  BY DEF Creations, Single
<1>7. ASSUME tx[s].op = "numbering"
      PROVE  RowsAfter(s, outcome) = rows /\ FunnelAfter(s) = funnel
  <2>1. /\ tx[s].q = 0 /\ tx[s].next = 0 /\ tx[s].taken = {} /\ tx[s].net = 0
    BY <1>1, <1>2, <1>7 DEF TxOK, Refers, Promoting, Removals
  <2>2. 0 \notin DOMAIN rows /\ rows = [i \in DOMAIN rows |-> rows[i]]
    <3>1. TypeOK
      BY Known
    <3>2. rows \in [1 .. Len(rows) -> Row]
      BY <3>1, LenProperties DEF TypeOK
    <3> QED BY <3>1, <3>2, Numbered
  <2>3. RowsAfter(s, outcome) = [i \in DOMAIN rows |-> rows[i]]
    BY <1>7, <2>1, <2>2 DEF RowsAfter, Creations
  <2>4. FunnelAfter(s) = funnel
    BY <1>7, <2>1 DEF FunnelAfter, IsFirst
  <2> QED BY <2>2, <2>3, <2>4
<1> QED BY <1>2, <1>3, <1>4, <1>5, <1>6, <1>7 DEF Indexed

\* An edit of the settings writes the counter alone.
LEMMA NumberingWrites ==
  ASSUME QuotationInv, NEW s \in Sessions, tx[s].at = "commit",
         rows' = rows, funnel' = funnel, owner' = owner,
         counter' = CounterAfter(s), rewound' = (rewound \/ CounterAfter(s) < counter)
  PROVE  Effects(s) /\ TablesOK'
<1>1. /\ counter' \in Series /\ rewound' \in BOOLEAN
      /\ counter' = counter \/ SettingsRow \in held[s]
      /\ rewound' \/ (counter <= counter' /\ ~rewound)
  BY CounterWrites
<1>2. TypeOK /\ Len(rows) \in Nat
  BY Known, Numbered
<1>3. Effects(s)
  BY <1>1, <1>2 DEF Effects, Pending, Live
<1>4. CounterAhead'
  BY <1>1, CounterStays
<1>5. (NumbersBounded /\ PendingUnderOwner /\ OneFlagged /\ AmountStands)'
  BY DEF QuotationInv, NumbersBounded, PendingUnderOwner, OneFlagged, AmountStands, Live,
     Flagged, DrivesValue, AcceptanceDeleted, AcceptedLive
<1> QED BY <1>1, <1>2, <1>3, <1>4, <1>5 DEF TablesOK, TypeOK

LEMMA CommitStep ==
  ASSUME QuotationInv, NEW s \in Sessions, Commit(s)
  PROVE  QuotationInv'
<1>1. End(s) /\ starts' = starts /\ tx[s].at = "commit"
  BY DEF Commit
<1>2. CASE UNCHANGED tables
  BY <1>1, <1>2, EndStep
<1>3. CASE /\ tx[s].op \in Creations /\ Len(rows) < MaxRows /\ owner' = owner
           /\ \E outcome : rows' = RowsAfter(s, outcome)
           /\ funnel' = FunnelAfter(s) /\ Unique(rows')
           /\ counter' = CounterAfter(s) /\ rewound' = (rewound \/ CounterAfter(s) < counter)
  <2>1. Effects(s) /\ TablesOK'
    BY <1>1, <1>3, CreationWrites
  <2> QED BY <1>1, <2>1, CommitKeeps
<1>4. CASE /\ tx[s].op = "changeOwner" /\ owner' = owner + 1
           /\ \E outcome : rows' = RowsAfter(s, outcome)
           /\ funnel' = FunnelAfter(s) /\ Unique(rows')
           /\ counter' = CounterAfter(s) /\ rewound' = (rewound \/ CounterAfter(s) < counter)
  <2>1. Effects(s) /\ TablesOK'
    BY <1>1, <1>4, ChangeWrites
  <2> QED BY <1>1, <2>1, CommitKeeps
<1>5. CASE /\ tx[s].op \in Single /\ owner' = owner
           /\ \E outcome \in Outcomes(s) : rows' = RowsAfter(s, outcome)
           /\ funnel' = FunnelAfter(s) /\ Unique(rows')
           /\ counter' = CounterAfter(s) /\ rewound' = (rewound \/ CounterAfter(s) < counter)
  <2>1. Effects(s) /\ TablesOK'
    BY <1>1, <1>5, SingleWrites
  <2> QED BY <1>1, <2>1, CommitKeeps
<1>6. CASE /\ tx[s].op = "numbering" /\ rows' = rows /\ funnel' = funnel /\ owner' = owner
           /\ counter' = CounterAfter(s) /\ rewound' = (rewound \/ CounterAfter(s) < counter)
  <2>1. Effects(s) /\ TablesOK'
    BY <1>1, <1>6, NumberingWrites
  <2> QED BY <1>1, <2>1, CommitKeeps
<1> QED BY <1>2, <1>3, <1>4, <1>5, <1>6, CommitCases

\* A step writes the quotations only by a commit.
LEMMA OnlyCommits ==
  ASSUME QuotationInv, Next
  PROVE  rows' = rows \/ \E s \in Sessions : Commit(s)
BY DEF Next, Begin, Read, Account, Own, Sync, Reassign, Clear, TakeOne, Raise, Funnel,
   Settings, Abort, MoveStage, tables

-----------------------------------------------------------------------------
(* The theorems.                                                           *)

LEMMA InitInv == Init => QuotationInv
<1> SUFFICES ASSUME Init PROVE QuotationInv
  OBVIOUS
<1>1. /\ rows \in Seq(Row) /\ Len(rows) <= MaxRows
      /\ \A i \in DOMAIN rows :
           /\ rows[i].primary <=> i = 1
           /\ rows[i].status = "draft" <=> rows[i].under = 0
           /\ rows[i].under \in {0, 1}
           /\ rows[i].series <= Len(rows) /\ rows[i].version <= Len(rows)
           /\ \A j \in DOMAIN rows :
                i # j => <<rows[i].series, rows[i].version>> # <<rows[j].series, rows[j].version>>
  BY InitialAssumption DEF Init
<1>2. Len(rows) \in Nat /\ DOMAIN rows = 1 .. Len(rows) /\ rows \in [1 .. Len(rows) -> Row]
  BY <1>1, LenProperties
<1>3. rows # <<>> => 1 \in DOMAIN rows /\ 1 \in 0 .. Len(rows)
  BY <1>1, <1>2, EmptySeq
<1>4. \A i \in DOMAIN rows : rows[i] \in Row
  BY <1>2
<1>5. /\ owner = 1 /\ starts = 0 /\ counter = Len(rows) + 1 /\ rewound = FALSE
      /\ held = [s \in Sessions |-> {}] /\ tx = [s \in Sessions |-> NoTx]
      /\ rows = <<>> => funnel = [primary |-> 0, amount |-> 0, open |-> TRUE]
      /\ rows # <<>> => funnel = [primary |-> 1, amount |-> rows[1].amount, open |-> TRUE]
  BY DEF Init
<1>6. funnel \in [primary: 0 .. Len(rows), amount: Amounts \cup {0}, open: BOOLEAN]
  <2>1. CASE rows = <<>>
    <3>1. funnel = [primary |-> 0, amount |-> 0, open |-> TRUE]
      BY <1>5, <2>1
    <3>2. 0 \in 0 .. Len(rows)
      BY <1>2
    <3> QED BY <3>1, <3>2
  <2>2. CASE rows # <<>>
    <3>1. rows[1].amount \in Amounts
      BY <1>3, <1>4, <2>2 DEF Row
    <3>2. funnel = [primary |-> 1, amount |-> rows[1].amount, open |-> TRUE]
      BY <1>5, <2>2
    <3>3. 1 \in 0 .. Len(rows)
      BY <1>3, <2>2
    <3> QED BY <3>1, <3>2, <3>3
  <2> QED BY <2>1, <2>2
<1>7. TypeOK
  <2>1. NoTx \in Tx
    BY NoTxType
  <2>2. owner \in 1 .. MaxOwners /\ starts \in 0 .. MaxStarts
    BY <1>5, QuotationAssumption
  <2>3. counter \in Series
    BY <1>1, <1>2, <1>5, QuotationAssumption DEF Series
  <2> QED BY <1>1, <1>5, <1>6, <2>1, <2>2, <2>3 DEF TypeOK
<1>8. LocksOK
  BY <1>5 DEF LocksOK
<1>9. NumbersBounded /\ CounterAhead
  <2>1. \A i \in DOMAIN rows : rows[i].series \in Nat
    BY <1>4 DEF Row, Series
  <2> QED BY <1>1, <1>2, <1>5, <2>1 DEF NumbersBounded, CounterAhead
<1>10. PendingUnderOwner
  BY <1>1, <1>5 DEF PendingUnderOwner
<1>11. OneFlagged
  BY <1>1 DEF OneFlagged, Flagged
<1>12. AmountStands
  BY <1>1, <1>3, <1>5 DEF AmountStands
<1>13. ASSUME NEW s \in Sessions PROVE TxOK(tx[s], held[s])
  <2>1. TxOK(NoTx, {})
    BY <1>7, IdleOK
  <2> QED BY <1>5, <2>1
<1> QED BY <1>7, <1>8, <1>9, <1>10, <1>11, <1>12, <1>13 DEF QuotationInv

LEMMA NextInv == QuotationInv /\ [Next]_vars => QuotationInv'
<1> SUFFICES ASSUME QuotationInv, [Next]_vars PROVE QuotationInv'
  OBVIOUS
<1>1. ASSUME NEW s \in Sessions, Abort(s) PROVE QuotationInv'
  BY <1>1, EndStep DEF Abort
<1>2. CASE UNCHANGED vars
  BY <1>2 DEF QuotationInv, vars, tables, TypeOK, LocksOK, NumbersBounded, CounterAhead,
     PendingUnderOwner, OneFlagged, AmountStands, TxOK, Refers, Walks, Holds, Promotes,
     Syncs, Owners, Claims, Creations, Ready, Pending, Flagged, AcceptedLive,
     AcceptanceDeleted, DrivesValue, Live
<1>3. CASE Next
  BY <1>1, <1>3, BeginStep, ReadStep, AccountStep, OwnStep, SyncStep, ReassignStep, ClearStep,
     TakeOneStep, RaiseStep, FunnelStep, SettingsStep, CommitStep, MoveStageStep DEF Next
<1> QED BY <1>2, <1>3

LEMMA Invariance == Spec => []QuotationInv
BY InitInv, NextInv, PTL DEF Spec

\* The fields of the quotations, of the funnel and of every transaction keep their
\* types, and a quotation has an approver exactly if it is no draft.
THEOREM TypeCorrect == Spec => []TypeOK
<1>1. QuotationInv => TypeOK
  BY DEF QuotationInv
<1> QED BY <1>1, Invariance, PTL

\* nextQuoteNumber never gives a creation a number that a quotation has, deleted or not,
\* unless the series was claimed after an edit of the settings had set the counter back.
THEOREM NumbersNeverReused == Spec => []NumbersFresh
<1>1. QuotationInv => NumbersFresh
  <2> SUFFICES ASSUME QuotationInv, NEW s \in Sessions, tx[s].at = "commit",
                      tx[s].op \in Creations, tx[s].series = 0 \/ ~rewound,
                      NEW i \in DOMAIN rows,
                      rows[i].series = SeriesOf(s), rows[i].version = VersionOf(s)
               PROVE  FALSE
    BY DEF NumbersFresh
  <2>1. TypeOK /\ rows[i] \in Row
    BY Known, Numbered
  <2>2. rows[i].series \in Nat /\ rows[i].version \in Nat
    BY <2>1 DEF Row, Series, Ids
  <2>3. CASE tx[s].series = 0
    <3>1. VersionOf(s) = NextVersion(SeriesOf(s))
      BY <2>3, NumberGiven
    <3>2. rows[i].version < NextVersion(SeriesOf(s))
      BY <2>1, VersionFresh DEF QuotationInv
    <3> QED BY <2>2, <3>1, <3>2
  <2>4. CASE tx[s].series # 0
    <3>1. SeriesOf(s) = counter
      BY <2>4, NumberGiven
    <3>2. rows[i].series < counter
      BY <2>4 DEF QuotationInv, CounterAhead
    <3> QED BY <2>2, <3>1, <3>2
  <2> QED BY <2>3, <2>4
<1> QED BY <1>1, Invariance, PTL

\* The account's locks order every submission before or after every change of owner:
\* a pending approval is always under the owner of the day.
THEOREM PendingFollowsOwner == Spec => []PendingUnderOwner
<1>1. QuotationInv => PendingUnderOwner
  BY DEF QuotationInv
<1> QED BY <1>1, Invariance, PTL

\* The amount of the funnel is that of the quotation that is primary by pointer and by
\* flag, whatever is committed in whatever order, until an accepted quotation has
\* been deleted.
THEOREM AmountFollowsPrimary == Spec => []AmountFollows
<1>1. QuotationInv => AmountFollows
  <2> SUFFICES ASSUME QuotationInv, funnel.primary # 0, rows[funnel.primary].primary,
                      DrivesValue(rows[funnel.primary]), ~AcceptanceDeleted
               PROVE  funnel.amount = rows[funnel.primary].amount
    BY DEF AmountFollows
  <2>1. funnel.primary \in DOMAIN rows
    BY Numbered DEF QuotationInv, TypeOK
  <2>2. Flagged(funnel.primary)
    BY DEF Flagged, Live, DrivesValue
  <2>3. \A x \in DOMAIN rows : Flagged(x) => x = funnel.primary
    BY <2>1, <2>2 DEF QuotationInv, OneFlagged
  <2> QED BY <2>3 DEF QuotationInv, AmountStands
<1> QED BY <1>1, Invariance, PTL

\* No order of operations takes a quotation along a step the transition table does not
\* name, changes the value of one that is no draft other than by sending it, or touches
\* a deleted document.
THEOREM TransitionsLegal == Spec => LegalTransitions
<1> DEFINE Legal ==
             \A i \in DOMAIN rows :
               LET old == rows[i]  new == rows'[i] IN
               /\ new.status # old.status => <<old.status, new.status>> \in Transitions
               /\ new.amount # old.amount =>
                    \/ old.status = "draft"
                    \/ old.status = "approved" /\ new.status = "sent"
               /\ old.deleted => /\ new.deleted
                                 /\ new.status = old.status /\ new.amount = old.amount
               /\ new.series = old.series /\ new.version = old.version
<1>1. ASSUME QuotationInv, NEW s \in Sessions, Commit(s) PROVE Legal \/ rows' = rows
  <2>1. tx[s].at = "commit"
    BY <1>1 DEF Commit
  <2>2. CASE UNCHANGED tables
    BY <2>2 DEF tables
  <2>6. CASE rows' = rows
    BY <2>6
  <2>3. CASE /\ tx[s].op \in Creations /\ Len(rows) < MaxRows
             /\ \E outcome : rows' = RowsAfter(s, outcome)
    <3>1. rows' = Append(rows, Created(s))
      BY <2>3 DEF RowsAfter, Creations
    <3>2. \A i \in DOMAIN rows : rows'[i] = rows[i]
      BY <1>1, <2>1, <2>3, <3>1, Known, Numbered, CreatedRow, AppendProperties DEF TypeOK
    <3> QED BY <3>2
  <2>4. CASE /\ tx[s].op = "changeOwner" /\ owner' = owner + 1
             /\ \E outcome : rows' = RowsAfter(s, outcome)
             /\ funnel' = FunnelAfter(s) /\ Unique(rows') /\ counter' = CounterAfter(s)
             /\ rewound' = (rewound \/ CounterAfter(s) < counter)
    <3>1. \A i \in DOMAIN rows : rows'[i] = rows[i] \/ (Pending(i) /\ rows'[i] = ToDraft(rows[i]))
      BY <1>1, <2>1, <2>4, ChangeWrites
    <3>2. \A i \in DOMAIN rows : rows[i] \in Row
      BY <1>1, Known, Numbered
    <3> QED BY <3>1, <3>2 DEF ToDraft, Row, Pending, Live, Transitions
  <2>5. ASSUME tx[s].op \in Single, NEW outcome \in Outcomes(s), rows' = RowsAfter(s, outcome)
        PROVE  Legal
    <3>1. /\ rows[tx[s].q].status # outcome.status =>
               <<rows[tx[s].q].status, outcome.status>> \in Transitions
          /\ outcome.amount # rows[tx[s].q].amount =>
               \/ rows[tx[s].q].status = "draft"
               \/ rows[tx[s].q].status = "approved" /\ outcome.status = "sent"
          /\ rows[tx[s].q].deleted =>
               /\ outcome.deleted /\ outcome.status = rows[tx[s].q].status
               /\ outcome.amount = rows[tx[s].q].amount
      BY <1>1, <2>1, <2>5, SingleLegal
    <3>2. outcome.series = rows[tx[s].q].series /\ outcome.version = rows[tx[s].q].version
      BY <1>1, <2>1, <2>5, OutcomeOf
    <3>3. /\ \A i \in DOMAIN rows : i # tx[s].q =>
               /\ rows'[i].status = rows[i].status /\ rows'[i].amount = rows[i].amount
               /\ rows'[i].deleted = rows[i].deleted /\ rows'[i].series = rows[i].series
               /\ rows'[i].version = rows[i].version
          /\ rows'[tx[s].q].status = outcome.status /\ rows'[tx[s].q].amount = outcome.amount
          /\ rows'[tx[s].q].deleted = outcome.deleted /\ rows'[tx[s].q].series = outcome.series
          /\ rows'[tx[s].q].version = outcome.version
      BY <1>1, <2>1, <2>5, SingleRows
    <3> QED BY <3>1, <3>2, <3>3
  <2> QED BY <1>1, <2>2, <2>3, <2>4, <2>5, <2>6, CommitCases
<1>2. QuotationInv /\ [Next]_vars => [Legal]_rows
  <2> SUFFICES ASSUME QuotationInv, [Next]_vars PROVE Legal \/ rows' = rows
    OBVIOUS
  <2>1. CASE UNCHANGED vars
    BY <2>1 DEF vars, tables
  <2>2. CASE Next
    BY <1>1, <2>2, OnlyCommits
  <2> QED BY <2>1, <2>2
<1> QED BY <1>2, Invariance, PTL DEF Spec, LegalTransitions

=============================================================================
