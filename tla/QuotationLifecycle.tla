-------------------------- MODULE QuotationLifecycle --------------------------
(***************************************************************************)
(* The quotations of one funnel: their documents, their approval, which of *)
(* them is primary and drives the funnel's amount, and their numbers       *)
(* (src/apps/web/app/(app)/quotations/actions.ts, server/services/value.ts *)
(* and numbering.ts), with the change of the account's owner               *)
(* (accounts/actions.ts, server/services/owner-cascade.ts) and the edit of *)
(* the tenant's quotation counter (settings/actions.ts).                   *)
(*                                                                         *)
(* Every server action is a READ COMMITTED transaction.  Steps are its     *)
(* unlocked reads and the locks it waits for; what it writes it holds      *)
(* locked, and others see it when it commits.  Any transaction may be      *)
(* rolled back (a refused input, a deadlock, a lost connection).           *)
(***************************************************************************)
EXTENDS Naturals, Sequences, FiniteSets, FiniteSetsExt

CONSTANTS
  Sessions,    \* transactions at work
  Operations,  \* operations of an instance, of AllOperations
  InitialRows, \* funnels at the start: sequences of rows, the first of them primary
  Amounts,     \* net values a quotation is given by an edit or a sending
  MaxRows,     \* bound: quotations
  MaxSeries,   \* bound: the tenant's quotation counter
  MaxOwners,   \* bound: owners of the account, one after the other
  MaxStarts    \* bound: transactions

Decisions ==
  {"submit", "approve", "rejectApproval", "recall", "returnToDraft",
   "send", "accept", "rejectCustomer"}
Creations == {"create", "revise", "duplicate"}
AllOperations ==
  Decisions \cup Creations
    \cup {"edit", "setPrimary", "delete", "changeOwner", "numbering"}

ASSUME QuotationAssumption ==
  /\ Operations \subseteq AllOperations
  /\ Amounts \subseteq Nat \ {0}
  /\ MaxRows \in Nat /\ MaxSeries \in Nat /\ MaxRows < MaxSeries
  /\ MaxOwners \in Nat \ {0} /\ MaxStarts \in Nat

VARIABLES
  rows,      \* quotations, in order of creation
  funnel,    \* primary_quotation_id (0: null), amount (0: null), status is open
  owner,     \* the account's owner, counted
  counter,   \* tenant_settings.quote_next_number
  rewound,   \* history: an edit of the settings has set the counter back
  held,      \* row locks of each session
  tx,        \* the transaction of each session
  starts

tables == <<rows, funnel, owner, counter, rewound>>
vars   == <<tables, held, tx, starts>>

Status == {"draft", "pending_approval", "approved", "sent", "accepted", "rejected"}

Ids  == 1 .. MaxRows
IdOr0 == 0 .. MaxRows
Series == 1 .. MaxSeries

QuotationRow(i) == <<"quotation", i>>
FunnelRow    == <<"funnel", 0>>
AccountRow   == <<"account", 0>>
AccountShare == <<"share", 0>>
SettingsRow  == <<"settings", 0>>
Locks ==
  {QuotationRow(i) : i \in Ids} \cup {FunnelRow, AccountRow, AccountShare, SettingsRow}

\* under: the owner at whose time approval was asked for; 0 without an approver.
Row ==
  [status: Status, amount: Amounts, primary: BOOLEAN, deleted: BOOLEAN,
   series: Series, version: Ids, under: 0 .. MaxOwners]

\* Funnels as the operations leave them: under the first owner, with the numbers of
\* as many quotations at most.
ASSUME InitialAssumption ==
  \A rs \in InitialRows :
    /\ rs \in Seq(Row) /\ Len(rs) <= MaxRows
    /\ \A i \in DOMAIN rs :
         /\ rs[i].primary <=> i = 1
         /\ rs[i].status = "draft" <=> rs[i].under = 0
         /\ rs[i].under \in {0, 1}
         /\ rs[i].series <= Len(rs) /\ rs[i].version <= Len(rs)
         /\ \A j \in DOMAIN rs :
              i # j => <<rs[i].series, rs[i].version>> # <<rs[j].series, rs[j].version>>

Point ==
  {"idle", "read", "account", "own", "sync", "reassign", "clear", "take", "raise",
   "funnel", "settings", "commit"}

\* q: the quotation acted upon; primary: the funnel's primary as read; next: the
\* quotation to become primary; need, taken: rows of an update over several that
\* are still to be locked, and those locked; amount: what an edit enters, a creation
\* starts from, or a sending computes with the tax settings of the moment; net: the
\* funnel's amount to be; under: the owner read; series: the series claimed, or the
\* counter an edit of the settings enters.
Tx ==
  [op: AllOperations \cup {"none"}, at: Point, q: IdOr0, primary: IdOr0, next: IdOr0,
   need: SUBSET Ids, taken: SUBSET Ids, amount: Amounts \cup {0},
   net: Amounts \cup {0}, under: 0 .. MaxOwners, series: Series \cup {0}]
NoTx ==
  [op |-> "none", at |-> "idle", q |-> 0, primary |-> 0, next |-> 0,
   need |-> {}, taken |-> {}, amount |-> 0, net |-> 0, under |-> 0, series |-> 0]

\* A draft is without an approver, and only a draft is.
TypeOK ==
  /\ rows \in Seq(Row) /\ Len(rows) <= MaxRows
  /\ \A i \in DOMAIN rows : rows[i].status = "draft" <=> rows[i].under = 0
  /\ funnel \in [primary: 0 .. Len(rows), amount: Amounts \cup {0}, open: BOOLEAN]
  /\ owner \in 1 .. MaxOwners
  /\ counter \in Series /\ rewound \in BOOLEAN
  /\ tx \in [Sessions -> Tx]
  /\ held \in [Sessions -> SUBSET Locks]
  /\ starts \in 0 .. MaxStarts

Init ==
  /\ rows \in InitialRows
  /\ funnel = IF rows = <<>> THEN [primary |-> 0, amount |-> 0, open |-> TRUE]
              ELSE [primary |-> 1, amount |-> rows[1].amount, open |-> TRUE]
  /\ owner = 1
  /\ counter = Len(rows) + 1 /\ rewound = FALSE
  /\ held = [s \in Sessions |-> {}]
  /\ tx = [s \in Sessions |-> NoTx]
  /\ starts = 0

-----------------------------------------------------------------------------
(* Rows.                                                                   *)

Live(i) == ~rows[i].deleted
Others(i) == (DOMAIN rows) \ {i}

\* notInArray(NON_VALUE_QUOTE_STATUS): expired and void are never set.
DrivesValue(r) == ~r.deleted /\ r.status # "rejected"

\* assertQuotationTransition; a direct approval goes from draft to approved.
Transitions ==
  {<<"draft", "pending_approval">>, <<"draft", "approved">>,
   <<"pending_approval", "approved">>, <<"pending_approval", "draft">>,
   <<"approved", "sent">>, <<"approved", "draft">>,
   <<"sent", "accepted">>, <<"sent", "rejected">>}

\* Mutant: the approver is kept.
StillApproved(r) == [r EXCEPT !.status = "draft"]

ToDraft(r) == [r EXCEPT !.status = "draft", !.under = 0]

\* What an operation on one quotation makes of its row.
Edited(r, amount)   == [r EXCEPT !.amount = amount]
Submitted(r, under) ==
  {[r EXCEPT !.status = to, !.under = under] : to \in {"pending_approval", "approved"}}
Approved(r) == [r EXCEPT !.status = "approved"]
Sent(r, amount) == [r EXCEPT !.status = "sent", !.amount = amount]
Accepted(r) == [r EXCEPT !.status = "accepted"]
Declined(r) == [r EXCEPT !.status = "rejected", !.primary = FALSE]
Deleted(r)  == [r EXCEPT !.deleted = TRUE, !.primary = FALSE]

Outcomes(s) ==
  LET op == tx[s].op  r == rows[tx[s].q] IN
  CASE op = "edit"           -> {Edited(r, tx[s].amount)}
    [] op = "submit"         -> Submitted(r, tx[s].under)
    [] op = "approve"        -> {Approved(r)}
    [] op = "send"           -> {Sent(r, tx[s].amount)}
    [] op = "accept"         -> {Accepted(r)}
    [] op = "rejectCustomer" -> {Declined(r)}
    [] op = "delete"         -> {Deleted(r)}
    [] op \in {"rejectApproval", "recall", "returnToDraft"} -> {ToDraft(r)}
    [] OTHER                 -> {r}

\* What each operation asks of the row it has locked.
Permitted(op, i) ==
  LET r == rows[i] IN
  CASE op \in {"edit", "submit"} -> Live(i) /\ r.status = "draft"
    [] op \in {"approve", "rejectApproval", "recall"} ->
         Live(i) /\ r.status = "pending_approval"
    [] op = "returnToDraft" -> Live(i) /\ r.status = "approved"
    [] op = "send"   -> Live(i) /\ r.status = "approved" /\ funnel.open
    [] op = "accept" ->
         /\ Live(i) /\ r.status = "sent" /\ funnel.open
         /\ \A j \in Others(i) : Live(j) => rows[j].status # "accepted"
    [] op = "rejectCustomer" -> Live(i) /\ r.status = "sent"
    [] op = "revise" ->
         IF r.deleted THEN r.status # "draft"
         ELSE r.status \in {"sent", "accepted", "rejected"}
    [] op \in {"duplicate", "delete"} -> Live(i)

-----------------------------------------------------------------------------
(* Transactions.                                                           *)

Free(s, l) == \A u \in Sessions \ {s} : l \notin held[u]

Take(s, l) == Free(s, l) /\ held' = [held EXCEPT ![s] = @ \cup {l}]

Goto(s, point) == tx' = [tx EXCEPT ![s].at = point]

\* Refused, rolled back or committed: the locks are released.
End(s) ==
  /\ tx' = [tx EXCEPT ![s] = NoTx]
  /\ held' = [held EXCEPT ![s] = {}]

FirstPoint(op) ==
  CASE op \in {"create", "setPrimary", "delete", "numbering"} -> "read"
    [] op \in {"submit", "changeOwner"} -> "account"
    [] OTHER -> "own"

Begin(s) ==
  /\ tx[s].at = "idle" /\ starts < MaxStarts
  /\ starts' = starts + 1
  /\ \E op \in Operations :
       \E q \in IF op \in {"create", "changeOwner", "numbering"} THEN {0} ELSE DOMAIN rows,
          amount \in IF op \in {"create", "edit", "send"} THEN Amounts ELSE {0} :
         tx' = [tx EXCEPT ![s] = [NoTx EXCEPT !.op = op, !.at = FirstPoint(op),
                                              !.q = q, !.amount = amount]]
  /\ UNCHANGED <<tables, held>>

\* createQuotation notes whether the funnel has a primary; setPrimaryQuotation
\* and deleteQuotation look at their quotation; updateNumbering refuses a number
\* below the counter.  None of them locks what it reads.
Read(s) ==
  /\ tx[s].at = "read"
  /\ \/ /\ tx[s].op = "create"
        /\ tx' = [tx EXCEPT ![s].at = "funnel", ![s].primary = funnel.primary]
        /\ UNCHANGED held
     \/ /\ tx[s].op = "setPrimary"
        /\ IF Live(tx[s].q)
           THEN /\ tx' = [tx EXCEPT ![s].at = "clear", ![s].next = tx[s].q]
                /\ UNCHANGED held
           ELSE End(s)
     \/ /\ tx[s].op = "delete"
        /\ IF Live(tx[s].q) /\ rows[tx[s].q].status # "accepted"
           THEN Goto(s, "own") /\ UNCHANGED held
           ELSE End(s)
     \/ /\ tx[s].op = "numbering"
        /\ \E n \in Series :
             n >= counter /\ tx' = [tx EXCEPT ![s].at = "settings", ![s].series = n]
        /\ UNCHANGED held
  /\ UNCHANGED <<tables, starts>>

\* Mutant: the account is not locked before a submission.
NoShare(s) == UNCHANGED held

\* A submission waits for a change of owner that is under way.
ShareAccount(s) ==
  Free(s, AccountRow) /\ held' = [held EXCEPT ![s] = @ \cup {AccountShare}]

Account(s) ==
  /\ tx[s].at = "account"
  /\ \/ tx[s].op = "submit" /\ ShareAccount(s) /\ Goto(s, "own")
     \/ /\ tx[s].op = "changeOwner" /\ owner < MaxOwners
        /\ Free(s, AccountShare) /\ Take(s, AccountRow)
        /\ Goto(s, "funnel")
  /\ UNCHANGED <<tables, starts>>

\* Where an operation goes from its own row.
AfterOwn(op, i) ==
  CASE op \in {"edit", "send"} -> IF rows[i].primary THEN "sync" ELSE "commit"
    [] op = "accept" -> "clear"
    [] op \in {"rejectCustomer", "delete"} -> "reassign"
    [] op \in {"revise", "duplicate"} -> "funnel"
    [] OTHER -> "commit"

\* Mutant: getLockedQuotation only reads.
ReadOnly(s) == UNCHANGED held

LockOwn(s) == Take(s, QuotationRow(tx[s].q))

Own(s) ==
  LET op == tx[s].op  q == tx[s].q IN
  /\ tx[s].at = "own"
  /\ Free(s, QuotationRow(q))
  /\ IF Permitted(op, q)
     THEN /\ LockOwn(s)
          /\ tx' = [tx EXCEPT ![s].at = AfterOwn(op, q),
                              ![s].next = IF op = "accept" THEN q ELSE 0,
                              ![s].under = IF op = "submit" THEN owner ELSE 0]
     ELSE End(s)
  /\ UNCHANGED <<tables, starts>>

\* syncOpportunityAmount after an edit or a sending: the net value of what the
\* funnel's pointer names, which need not be the quotation flagged as primary.
Sync(s) ==
  LET p == funnel.primary
      net == IF p = tx[s].q THEN tx[s].amount ELSE rows[p].amount
  IN
  /\ tx[s].at = "sync"
  /\ IF p # 0 /\ DrivesValue(rows[p])
     THEN tx' = [tx EXCEPT ![s].at = "funnel", ![s].net = net]
     ELSE Goto(s, "commit")
  /\ UNCHANGED <<tables, held, starts>>

\* reassignPrimaryAfterRemoval: nothing unless the funnel points at the quotation
\* removed; else the newest of the others that drives a value, read unlocked.
Reassign(s) ==
  LET candidates == {i \in Others(tx[s].q) : DrivesValue(rows[i])} IN
  /\ tx[s].at = "reassign"
  /\ IF funnel.primary # tx[s].q THEN Goto(s, "commit")
     ELSE IF candidates = {} THEN Goto(s, "funnel")
     ELSE tx' = [tx EXCEPT ![s].at = "clear", ![s].next = Max(candidates)]
  /\ UNCHANGED <<tables, held, starts>>

\* The flag is cleared on every other quotation the statement sees, deleted ones
\* included, in the order the scan meets them; then it is raised on one, of which
\* nothing is asked.
Clear(s) ==
  /\ tx[s].at = "clear"
  /\ tx' = [tx EXCEPT ![s].at = "take", ![s].need = Others(tx[s].next),
                      ![s].taken = Others(tx[s].next)]
  /\ UNCHANGED <<tables, held, starts>>

TakeOne(s) ==
  /\ tx[s].at = "take"
  /\ \/ \E i \in tx[s].need :
          /\ Take(s, QuotationRow(i))
          /\ tx' = [tx EXCEPT ![s].need = @ \ {i}]
     \/ /\ tx[s].need = {}
        /\ Goto(s, IF tx[s].op = "changeOwner" THEN "commit" ELSE "raise")
        /\ UNCHANGED held
  /\ UNCHANGED <<tables, starts>>

Raise(s) ==
  /\ tx[s].at = "raise"
  /\ Take(s, QuotationRow(tx[s].next))
  /\ Goto(s, IF tx[s].op = "accept" THEN "commit" ELSE "funnel")
  /\ UNCHANGED <<tables, starts>>

\* nextQuoteNumber claims a series for a duplicate and for a funnel's first quotation.
ClaimsSeries(s) == tx[s].op = "duplicate" \/ (tx[s].op = "create" /\ rows = <<>>)

\* cascadeAccountOwner goes from the funnels on to the pending quotations.
Funnel(s) ==
  LET pending == {i \in DOMAIN rows : Live(i) /\ rows[i].status = "pending_approval"}
  IN
  /\ tx[s].at = "funnel"
  /\ Take(s, FunnelRow)
  /\ IF tx[s].op = "changeOwner"
     THEN tx' = [tx EXCEPT ![s].at = "take", ![s].need = pending, ![s].taken = pending]
     ELSE Goto(s, IF ClaimsSeries(s) THEN "settings" ELSE "commit")
  /\ UNCHANGED <<tables, starts>>

\* A claim takes the counter as it is once the row is locked.  The upsert of
\* updateNumbering waits for the row too, but writes what was entered.
Settings(s) ==
  /\ tx[s].at = "settings"
  /\ Take(s, SettingsRow)
  /\ \/ tx[s].op = "numbering" /\ Goto(s, "commit")
     \/ /\ tx[s].op \in Creations /\ counter < MaxSeries
        /\ tx' = [tx EXCEPT ![s].at = "commit", ![s].series = counter]
  /\ UNCHANGED <<tables, starts>>

\* Mutant: deleted quotations give their numbers back.
LiveVersion(series) ==
  1 + Max({rows[i].version : i \in {j \in DOMAIN rows : Live(j) /\ rows[j].series = series}}
          \cup {0})

\* nextQuoteNumber, under the funnel's lock: the version after the series' last.
NextVersion(series) ==
  1 + Max({rows[i].version : i \in {j \in DOMAIN rows : rows[j].series = series}} \cup {0})

\* Who has not claimed a series goes on with one: a revision with its source's, a
\* creation with that of the funnel's first quotation.
SeriesOf(s) ==
  IF tx[s].series # 0 THEN tx[s].series
  ELSE rows[IF tx[s].op = "revise" THEN tx[s].q ELSE 1].series

VersionOf(s) == IF tx[s].series # 0 THEN 1 ELSE NextVersion(SeriesOf(s))

\* createQuotation goes by what it read of the funnel before it had the lock.
IsFirst(s) == tx[s].op = "create" /\ tx[s].primary = 0

Draft(s, amount) ==
  [status |-> "draft", amount |-> amount, primary |-> IsFirst(s), deleted |-> FALSE,
   under |-> 0, series |-> SeriesOf(s), version |-> VersionOf(s)]

\* A copy has the lines of its source, drops its decisions and is never primary.
CopyOf(s)  == Draft(s, rows[tx[s].q].amount)
Created(s) == IF tx[s].op = "create" THEN Draft(s, tx[s].amount) ELSE CopyOf(s)

\* The rows as the transaction leaves them; outcome is that of its own row.
RowsAfter(s, outcome) ==
  LET own(i) == IF i = tx[s].q THEN outcome ELSE rows[i]
      flagged(i) ==
        IF i = tx[s].next THEN [own(i) EXCEPT !.primary = TRUE]
        ELSE IF i \in tx[s].taken THEN [own(i) EXCEPT !.primary = FALSE]
        ELSE own(i)
      reset(i) ==
        IF i \in tx[s].taken /\ Live(i) /\ rows[i].status = "pending_approval"
        THEN ToDraft(rows[i]) ELSE rows[i]
  IN CASE tx[s].op = "changeOwner" -> [i \in DOMAIN rows |-> reset(i)]
       [] tx[s].op \in Creations   -> Append(rows, Created(s))
       [] OTHER                    -> [i \in DOMAIN rows |-> flagged(i)]

\* accept writes nothing to the funnel.
FunnelAfter(s) ==
  LET next == tx[s].next IN
  CASE IsFirst(s) -> [funnel EXCEPT !.primary = Len(rows) + 1, !.amount = tx[s].amount]
    [] tx[s].net # 0 -> [funnel EXCEPT !.amount = tx[s].net]
    [] tx[s].op \in {"setPrimary", "rejectCustomer", "delete"} /\ FunnelRow \in held[s] ->
         [funnel EXCEPT !.primary = next,
                        !.amount = IF next = 0 THEN 0
                                   ELSE IF DrivesValue(rows[next]) THEN rows[next].amount
                                   ELSE @]
    [] OTHER -> funnel

NumbersDiffer(rs) ==
  \A i, j \in DOMAIN rs :
    i # j => <<rs[i].series, rs[i].version>> # <<rs[j].series, rs[j].version>>

\* quotations_series_version_uq, and the partial unique indexes quotations_primary_uq
\* and quotations_accepted_uq.
Unique(rs) ==
  /\ NumbersDiffer(rs)
  /\ Cardinality({i \in DOMAIN rs : rs[i].primary /\ ~rs[i].deleted}) <= 1
  /\ Cardinality({i \in DOMAIN rs : rs[i].status = "accepted" /\ ~rs[i].deleted}) <= 1

\* Mutant: there is no index on the primary flag.
AcceptedUnique(rs) ==
  /\ NumbersDiffer(rs)
  /\ Cardinality({i \in DOMAIN rs : rs[i].status = "accepted" /\ ~rs[i].deleted}) <= 1

Indexed(rs) == Unique(rs)

CounterAfter(s) ==
  IF tx[s].op = "numbering" THEN tx[s].series
  ELSE IF tx[s].series # 0 THEN tx[s].series + 1
  ELSE counter

Commit(s) ==
  LET op == tx[s].op  q == tx[s].q IN
  /\ tx[s].at = "commit"
  /\ q # 0 => Free(s, QuotationRow(q))
  /\ op \in Creations => Len(rows) < MaxRows
  /\ \E outcome \in IF q = 0 THEN {NoTx} ELSE Outcomes(s) :
       IF Indexed(RowsAfter(s, outcome))
       THEN /\ rows' = RowsAfter(s, outcome)
            /\ funnel' = FunnelAfter(s)
            /\ owner' = IF op = "changeOwner" THEN owner + 1 ELSE owner
            /\ counter' = CounterAfter(s)
            /\ rewound' = (rewound \/ CounterAfter(s) < counter)
       ELSE UNCHANGED tables
  /\ End(s)
  /\ UNCHANGED starts

Abort(s) == tx[s].at # "idle" /\ End(s) /\ UNCHANGED <<tables, starts>>

\* The funnel's stage moves: the deal is won, lost, parked or open again.
MoveStage ==
  /\ \A s \in Sessions : Free(s, FunnelRow)
  /\ funnel' = [funnel EXCEPT !.open = ~@]
  /\ UNCHANGED <<rows, owner, counter, rewound, held, tx, starts>>

Next ==
  \/ \E s \in Sessions :
       \/ Begin(s) \/ Read(s) \/ Account(s) \/ Own(s) \/ Sync(s) \/ Reassign(s)
       \/ Clear(s) \/ TakeOne(s) \/ Raise(s) \/ Funnel(s) \/ Settings(s)
       \/ Commit(s) \/ Abort(s)
  \/ MoveStage

Spec == Init /\ [][Next]_vars

-----------------------------------------------------------------------------
(* Properties.                                                             *)

\* No order of decisions, edits, deletions and changes of owner takes a quotation
\* along a step the transition table does not name, changes the value of one that
\* is no longer a draft other than by sending it (sendQuotation computes it anew), or
\* touches the document of a deleted one.
LegalTransitions ==
  [][\A i \in DOMAIN rows :
       LET old == rows[i]  new == rows'[i] IN
       /\ new.status # old.status => <<old.status, new.status>> \in Transitions
       /\ new.amount # old.amount =>
            \/ old.status = "draft"
            \/ old.status = "approved" /\ new.status = "sent"
       /\ old.deleted => /\ new.deleted
                         /\ new.status = old.status /\ new.amount = old.amount
       /\ new.series = old.series /\ new.version = old.version]_rows

\* An approval that is pending was asked for under the account's present owner:
\* a submission and a change of owner never miss each other.
PendingUnderOwner ==
  \A i \in DOMAIN rows :
    Live(i) /\ rows[i].status = "pending_approval" => rows[i].under = owner

\* nextQuoteNumber never gives out a number that a quotation has, one deleted since
\* included, although revisions, duplicates and first quotations allocate at once:
\* none runs into quotations_series_version_uq, unless it claims a series after an
\* edit of the settings wrote back a counter that claims had passed.
NumbersFresh ==
  \A s \in Sessions :
    /\ tx[s].at = "commit" /\ tx[s].op \in Creations
    /\ tx[s].series = 0 \/ ~rewound
    => \A i \in DOMAIN rows :
         <<rows[i].series, rows[i].version>> # <<SeriesOf(s), VersionOf(s)>>

\* An accepted quotation was deleted: deleteQuotation looked at it while it was
\* sent, and waited for the acceptance.
AcceptanceDeleted ==
  \E i \in DOMAIN rows : rows[i].deleted /\ rows[i].status = "accepted"

\* The funnel's amount is the net value of the quotation that is its primary by
\* pointer and by flag, whatever order edits, sendings, removals and changes of
\* the primary are committed in.  An acceptance moves the flag alone; a second one
\* would move it back to a pointer edited since, but has to follow a deletion of
\* the first.
AmountFollows ==
  LET p == funnel.primary IN
  p # 0 /\ rows[p].primary /\ DrivesValue(rows[p]) /\ ~AcceptanceDeleted
    => funnel.amount = rows[p].amount
=============================================================================
