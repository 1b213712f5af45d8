------------------------- MODULE OpportunityRecords -------------------------
(***************************************************************************)
(* Opportunities and the Funnels under them: creating and editing a Funnel *)
(* (src/apps/web/app/(app)/funnel/actions.ts), editing an Opportunity      *)
(* (.../opportunities/actions.ts), and the services both use               *)
(* (src/apps/web/server/services/ppvvc.ts, opportunity-container.ts).      *)
(*                                                                         *)
(* A session runs one READ COMMITTED transaction, statement by statement.  *)
(* What it writes stays in its draft, where only it can read it, until it  *)
(* commits.  A statement that waits for a row goes on with the row as it   *)
(* is then, but with the rows its snapshot found when it started.          *)
(***************************************************************************)
EXTENDS Naturals, FiniteSets, FiniteSetsExt

CONSTANTS
  Sessions,     \* transactions in flight at once
  Containers,   \* ids of opportunities rows
  Funnels,      \* ids of funnels rows
  Fields,       \* the PPVVC fields
  Grades,       \* what a PPVVC field can say
  Natures,      \* project natures
  Currencies,
  MaxAmount,    \* estimated amounts are 0 .. MaxAmount
  Unset,        \* a field the caller leaves out
  None,         \* no Opportunity
  Home,         \* the Opportunity of each Funnel there is in the beginning
  NewRow,       \* the fields of a record before anybody filled them in
  Creations,    \* inputs of createOpportunity
  Edits,        \* inputs of updateOpportunity
  ContainerEdits, \* inputs of updateOpportunityContainer
  MaxStarts     \* bound: transactions started

Amounts == 0 .. MaxAmount
Ppvvc   == [Fields -> Grades]
Patch   == UNION {[S -> Grades] : S \in SUBSET Fields}
Values  == [ppvvc: Ppvvc, nature: Natures, amount: Amounts, currency: Currencies]

\* What a caller sends; the PPVVC fields outside the patch are left out.
Input ==
  [patch: Patch, nature: Natures \cup {Unset}, amount: Amounts \cup {Unset},
   currency: Currencies \cup {Unset}]

ASSUME ConstantsAssumption ==
  /\ IsFiniteSet(Funnels) /\ Funnels # {} /\ IsFiniteSet(Containers)
  /\ MaxAmount \in Nat /\ MaxStarts \in Nat
  /\ None \notin Containers
  /\ Unset \notin Natures /\ Unset \notin Amounts /\ Unset \notin Currencies
  /\ Home \in [Funnels -> Containers \cup {None}]
  /\ NewRow \in Values
  /\ Creations \subseteq [opp: Containers \cup {None}, values: Values]
  /\ Edits \subseteq Input
  /\ ContainerEdits \subseteq {i \in Input : i.amount = Unset /\ i.currency = Unset}

VARIABLES
  opp,      \* opportunities: running number (0: no such row), PPVVC, nature, totals
  funnel,   \* funnels: parent, PPVVC, nature, estimated amount and its currency
  draft,    \* rows each session wrote and has not committed
  held,     \* row locks of each session
  pc, tx,   \* control point and locals of each session
  started

rows == <<opp, funnel>>
vars == <<rows, draft, held, pc, tx, started>>

\* The rows of new take the place of those of old.
Over(new, old) ==
  [x \in DOMAIN new \cup DOMAIN old |-> IF x \in DOMAIN new THEN new[x] ELSE old[x]]

Just(x, row) == [y \in {x} |-> row]
Nothing      == [x \in {} |-> 0]

-----------------------------------------------------------------------------
Totals ==
  UNION {[S -> 0 .. MaxAmount * Cardinality(Funnels)] : S \in SUBSET Currencies}

OppRow ==
  [number: Nat, ppvvc: Ppvvc, nature: Natures, totals: Totals]

FunnelRow ==
  [opp: Containers \cup {None}, ppvvc: Ppvvc, nature: Natures, amount: Amounts,
   currency: Currencies]

Tx ==
  [kind: {"none", "add", "open", "edit", "container"},
   opp: Containers \cup {None}, funnel: Funnels, input: Input, ppvvc: Ppvvc,
   number: Nat, children: SUBSET Funnels, totals: Totals]

Blank ==
  [patch |-> [k \in {} |-> NewRow.ppvvc], nature |-> Unset, amount |-> Unset,
   currency |-> Unset]

NoTx ==
  [kind |-> "none", opp |-> None, funnel |-> CHOOSE f \in Funnels : TRUE,
   input |-> Blank, ppvvc |-> NewRow.ppvvc, number |-> 0, children |-> {},
   totals |-> Nothing]

NoDraft == [opps |-> Nothing, funnels |-> Nothing]

\* Lock strengths on an opportunity: of a foreign key check, of UPDATE, of
\* FOR UPDATE.
Locks ==
  ({"opp"} \X Containers \X {"share", "write", "update"})
    \cup ({"funnel"} \X Funnels \X {"write"})
    \cup ({"number"} \X Nat \X {"write"})

ControlPoint ==
  {"idle", "openContainer", "insert", "lockParent", "children", "lockChild",
   "update", "sum", "total", "parent", "cascade", "cascadeChild"}

TypeOK ==
  /\ opp \in [Containers -> OppRow]
  /\ funnel \in [Funnels -> FunnelRow]
  /\ DOMAIN draft = Sessions
  /\ \A p \in Sessions :
       /\ draft[p].opps \in [DOMAIN draft[p].opps \cap Containers -> OppRow]
       /\ draft[p].funnels \in [DOMAIN draft[p].funnels \cap Funnels -> FunnelRow]
  /\ held \in [Sessions -> SUBSET Locks]
  /\ pc \in [Sessions -> ControlPoint]
  /\ tx \in [Sessions -> Tx]
  /\ started \in Nat

-----------------------------------------------------------------------------
\* recomputeOpportunityTotal: one sum per currency, over the live children.
TotalsOf(c, fs) ==
  LET children == {f \in Funnels : fs[f].opp = c}
      Of(k)    == {f \in children : fs[f].currency = k} IN
  [k \in {fs[f].currency : f \in children} |->
     SumFunctionOnSet([f \in children |-> fs[f].amount], Of(k))]

Initially ==
  [f \in Funnels |->
     [opp |-> Home[f], ppvvc |-> NewRow.ppvvc, nature |-> NewRow.nature,
      amount |-> NewRow.amount, currency |-> NewRow.currency]]

\* The running numbers of the Opportunities there are in the beginning.
FirstNumbers ==
  LET homes == {Home[f] : f \in Funnels} \ {None} IN
  CHOOSE n \in [Containers -> 0 .. Cardinality(Containers)] :
    /\ {n[c] : c \in homes} = 1 .. Cardinality(homes)
    /\ \A c \in Containers \ homes : n[c] = 0

Init ==
  /\ funnel = Initially
  /\ opp = [c \in Containers |->
              [number |-> FirstNumbers[c], ppvvc |-> NewRow.ppvvc,
               nature |-> NewRow.nature, totals |-> TotalsOf(c, Initially)]]
  /\ draft = [p \in Sessions |-> NoDraft]
  /\ held = [p \in Sessions |-> {}]
  /\ pc = [p \in Sessions |-> "idle"]
  /\ tx = [p \in Sessions |-> NoTx]
  /\ started = 0

-----------------------------------------------------------------------------
(* Transactions.                                                           *)

At(p, point) == pc[p] = point

Goto(p, point) == pc' = [pc EXCEPT ![p] = point]

\* The rows as the statements of session p see them.
OppsSeen(p)    == Over(draft[p].opps, opp)
FunnelsSeen(p) == Over(draft[p].funnels, funnel)

Exists(c) == opp[c].number # 0

ChildrenSeen(p) == {f \in Funnels : FunnelsSeen(p)[f].opp = tx[p].opp}

Unlocked(p) == {f \in tx[p].children : <<"funnel", f, "write">> \notin held[p]}

Lock(kind, id, mode) == <<kind, id, mode>>

\* updateOpportunityPpvvc: SELECT ... FOR UPDATE of the Opportunity.
ParentLock(p) == {Lock("opp", tx[p].opp, "update")}

\* Mutant: the parent is locked FOR UPDATE to store its total.
StrongTotalLock(p) == {Lock("opp", tx[p].opp, "update")}

\* The UPDATE of recomputeOpportunityTotal.
TotalLock(p) == {Lock("opp", tx[p].opp, "write")}

\* The locks a session asks for next; of a set of children one at a time.
Wants(p) ==
  CASE pc[p] = "openContainer" -> {Lock("number", tx[p].number, "write")}
    [] pc[p] = "insert"        -> {Lock("opp", tx[p].opp, "share")}
    [] pc[p] = "lockParent"    -> ParentLock(p)
    [] pc[p] = "parent"        -> {Lock("opp", tx[p].opp, "write")}
    [] pc[p] = "total"         -> TotalLock(p)
    [] pc[p] = "update"        -> {Lock("funnel", tx[p].funnel, "write")}
    [] pc[p] \in {"lockChild", "cascadeChild"} ->
         {Lock("funnel", f, "write") : f \in Unlocked(p)}
    [] OTHER -> {}

\* PostgreSQL's table of row lock conflicts, for these strengths.
Conflict(a, b) ==
  /\ a[1] = b[1] /\ a[2] = b[2]
  /\ <<a[3], b[3]>> \notin {<<"share", "share">>, <<"share", "write">>, <<"write", "share">>}

Blocks(q, p, wanted) == q # p /\ \E a \in held[q], b \in wanted : Conflict(a, b)

Free(p, wanted) == \A q \in Sessions : ~Blocks(q, p, wanted)

Acquire(p, wanted) ==
  /\ Free(p, wanted)
  /\ held' = [held EXCEPT ![p] = @ \cup wanted]

\* Each session of the set waits for another one of it.
Cycle(S) ==
  /\ S # {}
  /\ \A p \in S : \E q \in S : Blocks(q, p, Wants(p))

End(p) ==
  /\ Goto(p, "idle")
  /\ draft' = [draft EXCEPT ![p] = NoDraft]
  /\ held' = [held EXCEPT ![p] = {}]
  /\ tx' = [tx EXCEPT ![p] = NoTx]

\* The written rows and these two sets of them become visible together.
Commit(p, opps, funnels) ==
  /\ opp' = Over(opps, OppsSeen(p))
  /\ funnel' = Over(funnels, FunnelsSeen(p))
  /\ End(p)

Write(p, opps, funnels) ==
  /\ draft' = [draft EXCEPT ![p] =
                 [opps |-> Over(opps, @.opps), funnels |-> Over(funnels, @.funnels)]]
  /\ UNCHANGED rows

Start(p, first, locals) ==
  /\ At(p, "idle") /\ started < MaxStarts
  /\ started' = started + 1
  /\ Goto(p, first)
  /\ tx' = [tx EXCEPT ![p] = locals]
  /\ UNCHANGED <<rows, draft, held>>

-----------------------------------------------------------------------------
(* createOpportunity and createOpportunityContainer.                       *)

\* Ids no row and no insertion has.
NewFunnels ==
  {f \in Funnels : funnel[f].opp = None
     /\ \A q \in Sessions : tx[q].kind \in {"add", "open"} => tx[q].funnel # f}

NewContainers ==
  {c \in Containers : ~Exists(c) /\ \A q \in Sessions : tx[q].opp # c}

\* The PPVVC and the nature of the parent are read without a lock.
StartAdd(p) ==
  \E i \in Creations, f \in NewFunnels :
    /\ i.opp # None /\ Exists(i.opp)
    /\ Start(p, "insert",
         [NoTx EXCEPT !.kind = "add", !.opp = i.opp, !.funnel = f,
                      !.ppvvc = opp[i.opp].ppvvc,
                      !.input = [Blank EXCEPT !.nature = opp[i.opp].nature,
                                              !.amount = i.values.amount,
                                              !.currency = i.values.currency]])

\* The number after the largest one that is committed.
NextNumber == Max({opp[c].number : c \in Containers}) + 1

StartOpen(p) ==
  \E i \in Creations, c \in NewContainers, f \in NewFunnels :
    /\ i.opp = None
    /\ Start(p, "openContainer",
         [NoTx EXCEPT !.kind = "open", !.opp = c, !.funnel = f,
                      !.number = NextNumber, !.ppvvc = i.values.ppvvc,
                      !.input = [Blank EXCEPT !.nature = i.values.nature,
                                              !.amount = i.values.amount,
                                              !.currency = i.values.currency]])

\* opportunities_number_uq.
NumberTaken(n) == \E c \in Containers : opp[c].number = n

\* Waits for another insertion of the number; fails when that committed.
OpenContainer(p) ==
  /\ At(p, "openContainer")
  /\ LET t == tx[p] IN
     /\ ~NumberTaken(t.number)
     /\ Acquire(p, Wants(p))
     /\ Write(p, Just(t.opp, [number |-> t.number, ppvvc |-> t.ppvvc,
                              nature |-> t.input.nature, totals |-> Nothing]), Nothing)
  /\ Goto(p, "insert")
  /\ UNCHANGED <<tx, started>>

RefuseNumber(p) ==
  /\ At(p, "openContainer") /\ NumberTaken(tx[p].number)
  /\ End(p)
  /\ UNCHANGED <<rows, started>>

\* INSERT INTO funnels; its foreign key takes a share lock on the parent.
InsertFunnel(p) ==
  /\ At(p, "insert")
  /\ Acquire(p, Wants(p))
  /\ LET t == tx[p] IN
     Write(p, Nothing,
           Just(t.funnel,
                [opp |-> t.opp, ppvvc |-> t.ppvvc, nature |-> t.input.nature,
                 amount |-> t.input.amount, currency |-> t.input.currency]))
  /\ Goto(p, "sum")
  /\ UNCHANGED <<tx, started>>

-----------------------------------------------------------------------------
(* updateOpportunity (a Funnel) and updateOpportunityContainer.            *)

\* Mutant: what the caller leaves out is written as it is.
Unresolved(i, row) == i

\* What the caller leaves out is filled in from the row that was read.
Resolved(i, row) ==
  [i EXCEPT !.nature = IF @ = Unset THEN row.nature ELSE @,
            !.amount = IF @ = Unset THEN row.amount ELSE @,
            !.currency = IF @ = Unset THEN row.currency ELSE @]

FirstLock(i, otherwise) == IF DOMAIN i.patch = {} THEN otherwise ELSE "lockParent"

\* The funnel is read without a lock.
StartEdit(p) ==
  \E i \in Edits, f \in Funnels :
    /\ funnel[f].opp # None
    /\ Start(p, FirstLock(i, "update"),
         [NoTx EXCEPT !.kind = "edit", !.opp = funnel[f].opp, !.funnel = f,
                      !.ppvvc = funnel[f].ppvvc, !.input = Resolved(i, funnel[f])])

\* So is the Opportunity.
StartContainerEdit(p) ==
  \E i \in ContainerEdits, c \in Containers :
    /\ Exists(c)
    /\ Start(p, FirstLock(i, "parent"),
         [NoTx EXCEPT !.kind = "container", !.opp = c, !.ppvvc = opp[c].ppvvc,
                      !.input = IF i.nature = Unset
                                THEN [i EXCEPT !.nature = opp[c].nature] ELSE i])

LockParent(p) ==
  /\ At(p, "lockParent")
  /\ Acquire(p, Wants(p))
  /\ Goto(p, "children")
  /\ UNCHANGED <<rows, draft, tx, started>>

\* The snapshot of a statement over the children of the Opportunity.
SeeChildren(p) ==
  /\ pc[p] \in {"children", "cascade"}
  /\ tx' = [tx EXCEPT ![p].children = ChildrenSeen(p)]
  /\ Goto(p, IF At(p, "children") THEN "lockChild" ELSE "cascadeChild")
  /\ UNCHANGED <<rows, draft, held, started>>

LockChild(p) ==
  /\ pc[p] \in {"lockChild", "cascadeChild"}
  /\ \E f \in Unlocked(p) : Acquire(p, {Lock("funnel", f, "write")})
  /\ UNCHANGED <<rows, draft, pc, tx, started>>

\* Mutant: all fields are written, from the row that was read first.
WholePpvvc(p, ppvvc) == Over(tx[p].input.patch, tx[p].ppvvc)

\* normalizePpvvcPatch: the keys that were submitted, no others.
Patched(p, ppvvc) == Over(tx[p].input.patch, ppvvc)

\* The live children, with the patch.
SyncedChildren(p) ==
  [f \in tx[p].children |->
     [FunnelsSeen(p)[f] EXCEPT !.ppvvc = Patched(p, @)]]

\* updateOpportunityPpvvc: the parent and its children, all of them locked.
Sync(p) ==
  /\ At(p, "lockChild") /\ Unlocked(p) = {}
  /\ LET c == tx[p].opp IN
     Write(p, Just(c, [OppsSeen(p)[c] EXCEPT !.ppvvc = Patched(p, @)]),
           SyncedChildren(p))
  /\ Goto(p, IF tx[p].kind = "edit" THEN "update" ELSE "parent")
  /\ UNCHANGED <<held, tx, started>>

\* Mutant: the row that was read is written back with its PPVVC.
WithPpvvc(p, row) ==
  [row EXCEPT !.nature = tx[p].input.nature, !.amount = tx[p].input.amount,
              !.currency = tx[p].input.currency, !.ppvvc = tx[p].ppvvc]

\* The columns of updateOpportunity's UPDATE.
Edited(p, row) ==
  [row EXCEPT !.nature = tx[p].input.nature, !.amount = tx[p].input.amount,
              !.currency = tx[p].input.currency]

UpdateFunnel(p) ==
  /\ At(p, "update")
  /\ Acquire(p, Wants(p))
  /\ LET f == tx[p].funnel IN
     Write(p, Nothing, Just(f, Edited(p, FunnelsSeen(p)[f])))
  /\ Goto(p, "sum")
  /\ UNCHANGED <<tx, started>>

\* Mutant: the sum is read outside the transaction.
SummedOutside(p) == funnel

\* recomputeOpportunityTotal sums what its transaction sees.
Summed(p) == FunnelsSeen(p)

SumTotals(p) ==
  /\ At(p, "sum")
  /\ tx' = [tx EXCEPT ![p].totals = TotalsOf(tx[p].opp, Summed(p))]
  /\ Goto(p, "total")
  /\ UNCHANGED <<rows, draft, held, started>>

\* The last statement of creating and of editing a Funnel.
StoreTotals(p) ==
  /\ At(p, "total") /\ Free(p, Wants(p))
  /\ LET c == tx[p].opp IN
     Commit(p, Just(c, [OppsSeen(p)[c] EXCEPT !.totals = tx[p].totals]), Nothing)
  /\ UNCHANGED started

UpdateParent(p) ==
  /\ At(p, "parent")
  /\ Acquire(p, Wants(p))
  /\ LET c == tx[p].opp IN
     Write(p, Just(c, [OppsSeen(p)[c] EXCEPT !.nature = tx[p].input.nature]), Nothing)
  /\ Goto(p, "cascade")
  /\ UNCHANGED <<tx, started>>

\* The last statement of editing an Opportunity: the nature of the children.
CascadeNature(p) ==
  /\ At(p, "cascadeChild") /\ Unlocked(p) = {}
  /\ Commit(p, Nothing,
       [f \in tx[p].children |->
          [FunnelsSeen(p)[f] EXCEPT !.nature = tx[p].input.nature]])
  /\ UNCHANGED started

\* PostgreSQL aborts a session of a cycle; runInTenant does not retry it.
AbortDeadlock(p) ==
  /\ \E S \in SUBSET Sessions : p \in S /\ Cycle(S)
  /\ End(p)
  /\ UNCHANGED <<rows, started>>

Step(p) ==
  \/ OpenContainer(p) \/ RefuseNumber(p) \/ InsertFunnel(p)
  \/ LockParent(p) \/ SeeChildren(p) \/ LockChild(p) \/ Sync(p)
  \/ UpdateFunnel(p) \/ SumTotals(p) \/ StoreTotals(p)
  \/ UpdateParent(p) \/ CascadeNature(p) \/ AbortDeadlock(p)

Next ==
  \E p \in Sessions :
    \/ StartAdd(p) \/ StartOpen(p) \/ StartEdit(p) \/ StartContainerEdit(p)
    \/ Step(p)

Spec == Init /\ [][Next]_vars

-----------------------------------------------------------------------------
Children(c) == {f \in Funnels : funnel[f].opp = c}
Committing(p) == StoreTotals(p) \/ CascadeNature(p)

\* "PPVVC is authoritative on the Opportunity and synchronizes live child
\* Funnels": a Funnel that was in step with its Opportunity stays so, however
\* edits of the two, from either side, are interleaved; here, the Funnels there
\* are in the beginning.  A Funnel inserted later may carry values read before an
\* edit that committed first.
FirstChildrenInSync ==
  \A f \in Funnels : Home[f] # None => funnel[f].ppvvc = opp[Home[f]].ppvvc

\* A PPVVC edit changes the fields of its patch, and leaves the others as the
\* last commit before its own left them, however old the form it comes from.
PatchesApply ==
  [][\A p \in Sessions :
       LET t == tx[p] IN
       Committing(p) /\ t.kind # "open" =>
         opp'[t.opp].ppvvc = Over(t.input.patch, opp[t.opp].ppvvc)]_vars

\* When a PPVVC edit commits, every child there is then has what it wrote, one
\* inserted since the edit began included: the edit looks for the children when
\* it holds the parent, which an insertion has to lock before it can commit.
EditReachesChildren ==
  [][\A p \in Sessions :
       LET t == tx[p] IN
       Committing(p) => \A f \in Funnels, k \in DOMAIN t.input.patch :
         funnel'[f].opp = t.opp => funnel'[f].ppvvc[k] = t.input.patch[k]]_vars

\* The running numbers of the Opportunities are 1, 2, ... without a gap or a
\* duplicate, although each is computed from a maximum read without a lock.
NumbersRunOn ==
  {opp[c].number : c \in Containers} \ {0} = 1 .. Cardinality({c \in Containers : Exists(c)})

\* While an Opportunity has one Funnel its totals are that Funnel's amount, at
\* every commit and whichever edits of the Funnel ran at once.
OnlyChildTotal ==
  \A c \in Containers :
    Cardinality(Children(c)) = 1 => opp[c].totals = TotalsOf(c, funnel)

\* An Opportunity's number and totals come out as if its writers had queued.
ContainersAddUp == NumbersRunOn /\ OnlyChildTotal

\* A PPVVC edit is neither undone nor widened by the ones it races with, and
\* reaches every child.
EditsLand == PatchesApply /\ EditReachesChildren

\* Sessions wait in a cycle only if one of them edits a Funnel without PPVVC,
\* the one transaction that locks a Funnel before its Opportunity.
OnlyPlainEditsDeadlock ==
  \A S \in SUBSET Sessions : Cycle(S) =>
    \E p \in S : tx[p].kind = "edit" /\ DOMAIN tx[p].input.patch = {}

=============================================================================
