----------------------- MODULE OpportunityRecordsProofs -----------------------
(***************************************************************************)
(* Proofs about OpportunityRecords for any number of sessions and starts,  *)
(* any inputs, and any finite sets of Opportunities and Funnels.           *)
(***************************************************************************)
EXTENDS OpportunityRecords, FiniteSetTheorems, WellFoundedInduction, TLAPS

-----------------------------------------------------------------------------
(* The inductive invariant.                                                *)

Live == {c \in Containers : Exists(c)}

Patches(p) == DOMAIN tx[p].input.patch # {}
Inserts(p) == tx[p].kind \in {"add", "open"}

\* p keeps everybody else from writing the Opportunity, and from joining it.
OwnsParent(p) ==
  \/ Lock("opp", tx[p].opp, "write") \in held[p]
  \/ Lock("opp", tx[p].opp, "update") \in held[p]

Owns(p, f) == Lock("funnel", f, "write") \in held[p]

\* No two sessions hold conflicting locks.
LocksOK ==
  \A p, q \in Sessions : p # q => \A a \in held[p], b \in held[q] : ~Conflict(a, b)

\* Rows that are being inserted have ids of their own.
Distinct ==
  \A p, q \in Sessions : p # q =>
    /\ Inserts(p) /\ Inserts(q) => tx[p].funnel # tx[q].funnel
    /\ tx[p].kind = "open" => tx[q].opp # tx[p].opp

Path(kind) ==
  CASE kind = "none"      -> {"idle"}
    [] kind = "add"       -> {"insert", "sum", "total"}
    [] kind = "open"      -> {"openContainer", "insert", "sum", "total"}
    [] kind = "edit"      -> {"lockParent", "children", "lockChild", "update", "sum",
                              "total"}
    [] kind = "container" -> {"lockParent", "children", "lockChild", "parent",
                              "cascade", "cascadeChild"}

\* What a session's inputs and ids stand for.
Refers(p) ==
  LET t == tx[p] IN
  /\ pc[p] \in Path(t.kind)
  /\ t.kind = "none" => t.opp = None
  /\ t.kind # "none" => t.opp \in Containers
  /\ t.kind \in {"add", "edit", "container"} => Exists(t.opp)
  /\ t.kind = "open" => ~Exists(t.opp)
  /\ Inserts(p) => ~Patches(p) /\ funnel[t.funnel].opp = None
  /\ t.kind = "edit" => funnel[t.funnel].opp = t.opp
  /\ t.kind \in {"add", "open", "edit"} =>
       t.input.amount \in Amounts /\ t.input.currency \in Currencies
  /\ t.kind # "none" => t.input.nature \in Natures
  /\ pc[p] \in {"lockParent", "children", "lockChild"} => Patches(p)

\* The number of an insertion is the next one, and no other one's.
Numbered(p) ==
  tx[p].kind = "open" =>
    /\ tx[p].number \in 1 .. Cardinality(Live) + 1
    /\ pc[p] # "openContainer" =>
         /\ ~NumberTaken(tx[p].number)
         /\ Lock("number", tx[p].number, "write") \in held[p]

\* The locks a session may hold.
HoldsOnly(p) ==
  LET t == tx[p] IN
  \A l \in held[p] :
    \/ l = Lock("number", t.number, "write") /\ t.kind = "open" /\ pc[p] # "openContainer"
    \/ l = Lock("opp", t.opp, "share") /\ Inserts(p) /\ pc[p] \in {"sum", "total"}
    \/ /\ l \in {Lock("opp", t.opp, "write"), Lock("opp", t.opp, "update")}
       /\ t.kind \in {"edit", "container"}
    \/ /\ \E f \in Funnels : l = Lock("funnel", f, "write") /\ funnel[f].opp = t.opp
       /\ OwnsParent(p) \/ (t.kind = "edit" /\ ~Patches(p))

\* The locks it has for certain.
Holds(p) ==
  /\ Patches(p) /\ pc[p] # "lockParent" => Lock("opp", tx[p].opp, "update") \in held[p]
  /\ pc[p] \in {"cascade", "cascadeChild"} => OwnsParent(p)
  /\ tx[p].kind = "edit" /\ pc[p] \in {"sum", "total"} => Owns(p, tx[p].funnel)
  /\ pc[p] = "lockParent" => ~OwnsParent(p)

\* The Opportunity's row in the draft.
DraftsParent(p) ==
  LET t == tx[p]
      d == draft[p].opps IN
  /\ DOMAIN d \subseteq {t.opp}
  /\ t.kind = "open" /\ pc[p] # "openContainer" =>
       t.opp \in DOMAIN d /\ d[t.opp].number = t.number
  /\ t.kind # "open" /\ t.opp \in DOMAIN d =>
       /\ OwnsParent(p)
       /\ d[t.opp].ppvvc = Patched(p, opp[t.opp].ppvvc)
       /\ d[t.opp].number = opp[t.opp].number /\ d[t.opp].totals = opp[t.opp].totals

\* The Funnels' rows in the draft.
DraftsFunnels(p) ==
  LET t == tx[p]
      d == draft[p].funnels IN
  \A f \in DOMAIN d :
    /\ d[f].opp = t.opp
    /\ Inserts(p) => f = t.funnel
    /\ t.kind \in {"edit", "container"} =>
         /\ Owns(p, f) /\ funnel[f].opp = t.opp
         /\ d[f].ppvvc = Patched(p, funnel[f].ppvvc)
    /\ t.kind = "container" =>
         d[f].amount = funnel[f].amount /\ d[f].currency = funnel[f].currency

\* How far a transaction has come.
Written(p) ==
  LET t == tx[p] IN
  /\ pc[p] \in {"idle", "openContainer", "lockParent", "children", "lockChild"} =>
       DOMAIN draft[p].opps = {} /\ DOMAIN draft[p].funnels = {}
  /\ pc[p] \in {"lockChild", "cascadeChild"} => t.children = Children(t.opp)
  /\ Patches(p) /\ pc[p] \notin {"lockParent", "children", "lockChild"} =>
       t.opp \in DOMAIN draft[p].opps /\ Children(t.opp) \subseteq DOMAIN draft[p].funnels
  /\ pc[p] \in {"sum", "total"} => t.funnel \in DOMAIN draft[p].funnels

\* The sum of an only child is that child's.
SumStands(p) ==
  pc[p] = "total" /\ ChildrenSeen(p) = {tx[p].funnel} =>
    tx[p].totals = TotalsOf(tx[p].opp, FunnelsSeen(p))

SessionOK(p) ==
  /\ Refers(p) /\ Numbered(p) /\ HoldsOnly(p) /\ Holds(p)
  /\ DraftsParent(p) /\ DraftsFunnels(p) /\ Written(p) /\ SumStands(p)

ParentsLive ==
  \A f \in Funnels : funnel[f].opp # None => funnel[f].opp \in Live

HomesKept == \A f \in Funnels : Home[f] # None => funnel[f].opp = Home[f]

RowsTyped ==
  /\ opp \in [Containers -> OppRow]
  /\ funnel \in [Funnels -> FunnelRow]

DraftTyped(p) ==
  /\ draft[p].opps \in [DOMAIN draft[p].opps \cap Containers -> OppRow]
  /\ draft[p].funnels \in [DOMAIN draft[p].funnels \cap Funnels -> FunnelRow]

SessionsTyped ==
  /\ DOMAIN draft = Sessions
  /\ \A p \in Sessions : DraftTyped(p)
  /\ held \in [Sessions -> SUBSET Locks]
  /\ pc \in [Sessions -> ControlPoint]
  /\ tx \in [Sessions -> Tx]
  /\ started \in Nat

RowsOK ==
  /\ RowsTyped /\ ParentsLive /\ HomesKept
  /\ FirstChildrenInSync /\ NumbersRunOn /\ OnlyChildTotal

RecordsInv ==
  /\ RowsOK /\ SessionsTyped /\ LocksOK /\ Distinct
  /\ \A p \in Sessions : SessionOK(p)

-----------------------------------------------------------------------------
(* Rows over rows.                                                         *)

LEMMA OverIs ==
  ASSUME NEW new, NEW old
  PROVE  /\ DOMAIN Over(new, old) = DOMAIN new \cup DOMAIN old
         /\ \A x \in DOMAIN new : Over(new, old)[x] = new[x]
         /\ \A x \in DOMAIN old \ DOMAIN new : Over(new, old)[x] = old[x]
BY DEF Over

\* Rows of the same type.
LEMMA OverTyped ==
  ASSUME NEW S, NEW T, NEW D, NEW new \in [D -> T], NEW old \in [S -> T]
  PROVE  Over(new, old) \in [D \cup S -> T]
BY DEF Over

LEMMA OverNothing ==
  ASSUME NEW S, NEW T, NEW old \in [S -> T], NEW new, DOMAIN new = {}
  PROVE  Over(new, old) = old
BY DEF Over

LEMMA JustIs ==
  ASSUME NEW x, NEW row
  PROVE  /\ DOMAIN Just(x, row) = {x} /\ Just(x, row)[x] = row
         /\ DOMAIN Nothing = {}
BY DEF Just, Nothing

-----------------------------------------------------------------------------
(* Types.                                                                  *)

LEMMA TypesSplit == TypeOK <=> RowsTyped /\ SessionsTyped
BY DEF TypeOK, RowsTyped, SessionsTyped, DraftTyped

LEMMA Types ==
  ASSUME SessionsTyped, NEW p \in Sessions
  PROVE  /\ tx[p] \in Tx /\ pc[p] \in ControlPoint /\ held[p] \in SUBSET Locks
         /\ tx[p].kind \in {"none", "add", "open", "edit", "container"}
         /\ tx[p].opp \in Containers \cup {None} /\ tx[p].funnel \in Funnels
         /\ tx[p].input \in Input /\ tx[p].ppvvc \in Ppvvc /\ tx[p].number \in Nat
         /\ tx[p].children \in SUBSET Funnels /\ tx[p].totals \in Totals
BY DEF SessionsTyped, Tx

LEMMA InputTypes ==
  ASSUME NEW i \in Input
  PROVE  /\ i.patch \in Patch /\ i.nature \in Natures \cup {Unset}
         /\ i.amount \in Amounts \cup {Unset} /\ i.currency \in Currencies \cup {Unset}
BY DEF Input

LEMMA RowTypes ==
  ASSUME RowsTyped
  PROVE  /\ DOMAIN opp = Containers /\ DOMAIN funnel = Funnels
         /\ \A c \in Containers :
              /\ opp[c] \in OppRow
              /\ opp[c].number \in Nat /\ opp[c].ppvvc \in Ppvvc
              /\ opp[c].nature \in Natures /\ opp[c].totals \in Totals
         /\ \A f \in Funnels :
              /\ funnel[f] \in FunnelRow
              /\ funnel[f].opp \in Containers \cup {None} /\ funnel[f].ppvvc \in Ppvvc
              /\ funnel[f].nature \in Natures /\ funnel[f].amount \in Amounts
              /\ funnel[f].currency \in Currencies
BY DEF RowsTyped, OppRow, FunnelRow

\* A patch of PPVVC fields makes PPVVC of PPVVC, and one without fields nothing.
LEMMA PatchedTyped ==
  ASSUME SessionsTyped, NEW p \in Sessions, NEW v \in Ppvvc
  PROVE  /\ Patched(p, v) \in Ppvvc
         /\ ~Patches(p) => Patched(p, v) = v
         /\ \A k \in DOMAIN tx[p].input.patch :
              k \in Fields /\ Patched(p, v)[k] = tx[p].input.patch[k]
<1> DEFINE d == tx[p].input.patch
<1>6. d \in Patch
  BY Types, InputTypes
<1> HIDE DEF d
<1>1. PICK S \in SUBSET Fields : d \in [S -> Grades]
  BY <1>6 DEF Patch
<1>2. v \in [Fields -> Grades]
  BY DEF Ppvvc
<1>3. Over(d, v) \in [S \cup Fields -> Grades] /\ S \cup Fields = Fields
  BY <1>1, <1>2, OverTyped
<1>4. DOMAIN d = {} => Over(d, v) = v
  BY <1>2, OverNothing
<1>5. \A k \in DOMAIN d : Over(d, v)[k] = d[k] /\ k \in Fields
  BY <1>1, OverIs
<1> QED BY <1>3, <1>4, <1>5 DEF Patched, Patches, Ppvvc, d

\* The rows as a session sees them.
LEMMA SeenTyped ==
  ASSUME RowsTyped, SessionsTyped, NEW p \in Sessions
  PROVE  /\ OppsSeen(p) \in [Containers -> OppRow]
         /\ FunnelsSeen(p) \in [Funnels -> FunnelRow]
         /\ DOMAIN draft[p].opps \subseteq Containers
         /\ DOMAIN draft[p].funnels \subseteq Funnels
         /\ \A c \in Containers : OppsSeen(p)[c] =
              IF c \in DOMAIN draft[p].opps THEN draft[p].opps[c] ELSE opp[c]
         /\ \A f \in Funnels : FunnelsSeen(p)[f] =
              IF f \in DOMAIN draft[p].funnels THEN draft[p].funnels[f] ELSE funnel[f]
<1> DEFINE C == DOMAIN draft[p].opps
           F == DOMAIN draft[p].funnels
<1>1. /\ draft[p].opps \in [C \cap Containers -> OppRow]
      /\ draft[p].funnels \in [F \cap Funnels -> FunnelRow]
  BY DEF SessionsTyped, DraftTyped
<1>2. C \subseteq Containers /\ F \subseteq Funnels
  BY <1>1
<1>3. opp \in [Containers -> OppRow] /\ funnel \in [Funnels -> FunnelRow]
  BY DEF RowsTyped
<1>4. /\ OppsSeen(p) \in [(C \cap Containers) \cup Containers -> OppRow]
      /\ FunnelsSeen(p) \in [(F \cap Funnels) \cup Funnels -> FunnelRow]
  BY <1>1, <1>3, OverTyped DEF OppsSeen, FunnelsSeen
<1>5. /\ (C \cap Containers) \cup Containers = Containers
      /\ (F \cap Funnels) \cup Funnels = Funnels
  OBVIOUS
<1>6. /\ \A c \in Containers : OppsSeen(p)[c] =
              IF c \in C THEN draft[p].opps[c] ELSE opp[c]
      /\ \A f \in Funnels : FunnelsSeen(p)[f] =
              IF f \in F THEN draft[p].funnels[f] ELSE funnel[f]
  BY <1>2, <1>3 DEF OppsSeen, FunnelsSeen, Over
<1> QED BY <1>2, <1>4, <1>5, <1>6

LEMMA SeenTypes ==
  ASSUME RowsTyped, SessionsTyped, NEW p \in Sessions
  PROVE  /\ \A c \in Containers :
              /\ OppsSeen(p)[c] \in OppRow
              /\ OppsSeen(p)[c].number \in Nat /\ OppsSeen(p)[c].ppvvc \in Ppvvc
              /\ OppsSeen(p)[c].nature \in Natures /\ OppsSeen(p)[c].totals \in Totals
         /\ \A f \in Funnels :
              /\ FunnelsSeen(p)[f] \in FunnelRow
              /\ FunnelsSeen(p)[f].opp \in Containers \cup {None}
              /\ FunnelsSeen(p)[f].ppvvc \in Ppvvc
              /\ FunnelsSeen(p)[f].nature \in Natures
              /\ FunnelsSeen(p)[f].amount \in Amounts
              /\ FunnelsSeen(p)[f].currency \in Currencies
<1>1. /\ \A c \in Containers : OppsSeen(p)[c] \in OppRow
      /\ \A f \in Funnels : FunnelsSeen(p)[f] \in FunnelRow
  BY SeenTyped
<1> QED BY <1>1 DEF OppRow, FunnelRow

\* A set of numbers has a least one.
LEMMA LeastNumber ==
  ASSUME NEW T, T \subseteq Nat, T # {}
  PROVE  \E x \in T : \A y \in T : x <= y
<1> DEFINE R == OpToRel(<, Nat)
<1>1. IsWellFoundedOn(R, Nat)
  BY NatLessThanWellFounded
<1>2. \A x, y \in Nat : y < x => <<y, x>> \in R
  BY DEF OpToRel
<1> HIDE DEF R
<1>3. PICK x \in T : \A y \in T : ~(<<y, x>> \in R)
  BY <1>1, WFMin
<1>4. ASSUME NEW y \in T PROVE x <= y
  <2>1. y \in Nat /\ x \in Nat /\ ~(y < x)
    BY <1>2, <1>3
  <2> QED BY <2>1
<1> QED BY <1>4

-----------------------------------------------------------------------------
(* Sums.  The sum of the library is a recursive function over the subsets   *)
(* of a set; that there is one, and its bound, go by the least cardinality  *)
(* of a counterexample.                                                     *)

Some(s) == CHOOSE x \in s : TRUE

SumBody(h, a, D) ==
  [s \in D |-> IF s = {} THEN 0 ELSE a[Some(s)] + h[s \ {Some(s)}]]

Small(n, S) == {s \in SUBSET S : Cardinality(s) <= n}

LEMMA SmallLess ==
  ASSUME NEW S, IsFiniteSet(S), NEW n \in Nat, NEW s \in Small(n + 1, S), s # {}
  PROVE  s \ {Some(s)} \in Small(n, S)
<1>1. Some(s) \in s /\ s \in SUBSET S /\ Cardinality(s) <= n + 1
  BY DEF Some, Small
<1>2. IsFiniteSet(s) /\ Cardinality(s) \in Nat
  BY <1>1, FS_Subset, FS_CardinalityType
<1>3. Cardinality(s \ {Some(s)}) = Cardinality(s) - 1
  BY <1>1, <1>2, FS_RemoveElement
<1> QED BY <1>1, <1>2, <1>3 DEF Small

LEMMA SmallGrows ==
  ASSUME NEW S, IsFiniteSet(S), NEW n \in Nat
  PROVE  Small(n, S) \subseteq Small(n + 1, S)
<1> SUFFICES ASSUME NEW s \in Small(n, S) PROVE Cardinality(s) <= n + 1
  BY DEF Small
<1>1. Cardinality(s) \in Nat /\ Cardinality(s) <= n
  BY FS_Subset, FS_CardinalityType DEF Small
<1> QED BY <1>1

LEMMA SumOfSmall ==
  ASSUME NEW S, IsFiniteSet(S), NEW a, NEW n \in Nat,
         NEW h, h = SumBody(h, a, Small(n, S))
  PROVE  \E g : g = SumBody(g, a, Small(n + 1, S))
<1> DEFINE g == SumBody(h, a, Small(n + 1, S))
<1>1. ASSUME NEW u \in Small(n, S) PROVE g[u] = h[u]
  BY SmallGrows DEF SumBody
<1>2. ASSUME NEW s \in Small(n + 1, S), s # {}
      PROVE  g[s \ {Some(s)}] = h[s \ {Some(s)}]
  BY <1>1, <1>2, SmallLess
<1>3. \A s \in Small(n + 1, S) :
        g[s] = IF s = {} THEN 0 ELSE a[Some(s)] + g[s \ {Some(s)}]
  <2>1. \A s \in Small(n + 1, S) :
          g[s] = IF s = {} THEN 0 ELSE a[Some(s)] + h[s \ {Some(s)}]
    BY DEF SumBody
  <2> HIDE DEF g
  <2> QED BY <1>2, <2>1
<1>4. g = [s \in Small(n + 1, S) |-> g[s]]
  BY DEF SumBody
<1> HIDE DEF g
<1>5. g = SumBody(g, a, Small(n + 1, S))
  BY <1>3, <1>4 DEF SumBody
<1> QED BY <1>5

LEMMA SumExists ==
  ASSUME NEW S, IsFiniteSet(S), NEW a
  PROVE  \E h : h = SumBody(h, a, SUBSET S)
<1> DEFINE P(n) == \E h : h = SumBody(h, a, Small(n, S))
           T == {n \in Nat : ~P(n)}
<1>1. P(0)
  <2>1. \A s \in Small(0, S) : s = {}
    <3> SUFFICES ASSUME NEW s \in Small(0, S) PROVE s = {}
      OBVIOUS
    <3>1. IsFiniteSet(s) /\ Cardinality(s) \in Nat /\ Cardinality(s) <= 0
      BY FS_Subset, FS_CardinalityType DEF Small
    <3>2. Cardinality(s) = 0
      BY <3>1
    <3> QED BY <3>1, <3>2, FS_EmptySet
  <2> DEFINE h == [s \in Small(0, S) |-> 0]
  <2>2. h = SumBody(h, a, Small(0, S))
    BY <2>1 DEF SumBody
  <2> QED BY <2>2
<1>2. ASSUME NEW n \in Nat, P(n) PROVE P(n + 1)
  <2>1. PICK h : h = SumBody(h, a, Small(n, S))
    BY <1>2
  <2> QED BY <2>1, SumOfSmall
<1>3. T = {}
  <2> SUFFICES ASSUME T # {} PROVE FALSE
    OBVIOUS
  <2>1. T \subseteq Nat
    BY Zenon
  <2>2. \E x \in T : \A y \in T : x <= y
    <3> HIDE DEF T
    <3> QED BY <2>1, LeastNumber
  <2>3. PICK n \in T : \A y \in T : n <= y
    BY <2>2
  <2>4. n \in Nat /\ ~P(n)
    BY Zenon
  <2> HIDE DEF P
  <2>5. n # 0
    BY <1>1, <2>4
  <2>6. n - 1 \in Nat /\ (n - 1) + 1 = n
    BY <2>4, <2>5
  <2>7. P(n - 1)
    <3> SUFFICES ASSUME ~P(n - 1) PROVE FALSE
      OBVIOUS
    <3>1. n - 1 \in T
      BY <2>6
    <3> HIDE DEF T
    <3>2. n <= n - 1
      BY <2>3, <3>1
    <3> QED BY <2>4, <3>2
  <2>8. P((n - 1) + 1)
    BY <1>2, <2>6, <2>7
  <2> QED BY <2>4, <2>6, <2>8
<1>4. Cardinality(S) \in Nat
  BY FS_CardinalityType
<1>5. P(Cardinality(S))
  <2> HIDE DEF P
  <2> QED BY <1>3, <1>4
<1>6. Small(Cardinality(S), S) = SUBSET S
  BY FS_Subset DEF Small
<1> QED BY <1>5, <1>6

LEMMA SumBodyBound ==
  ASSUME NEW S, IsFiniteSet(S), NEW a, NEW m \in Nat, \A x \in S : a[x] \in 0 .. m,
         NEW h, h = SumBody(h, a, SUBSET S), NEW z \in SUBSET S
  PROVE  h[z] \in 0 .. m * Cardinality(z)
<1> DEFINE Bad(s) == h[s] \notin 0 .. m * Cardinality(s)
           T == {Cardinality(s) : s \in {u \in SUBSET S : Bad(u)}}
<1>1. ASSUME NEW s \in SUBSET S PROVE IsFiniteSet(s) /\ Cardinality(s) \in Nat
  BY FS_Subset, FS_CardinalityType
<1>2. \A s \in SUBSET S : h[s] = IF s = {} THEN 0 ELSE a[Some(s)] + h[s \ {Some(s)}]
  BY DEF SumBody
<1> SUFFICES ASSUME T # {} PROVE FALSE
  OBVIOUS
<1>3. T \subseteq Nat
  BY <1>1
<1>4. \E x \in T : \A y \in T : x <= y
  <2> HIDE DEF T
  <2> QED BY <1>3, LeastNumber
<1>5. PICK s \in SUBSET S : Bad(s) /\ \A y \in T : Cardinality(s) <= y
  BY <1>4
<1> DEFINE k == Cardinality(s)
           x == Some(s)
           u == s \ {x}
<1>6. IsFiniteSet(s) /\ k \in Nat
  BY <1>1
<1>7. CASE s = {}
  <2>1. k = 0
    BY <1>7, FS_EmptySet
  <2>2. h[s] = 0
    <3> HIDE DEF T, k
    <3>1. s \in SUBSET S
      BY <1>5
    <3> QED BY <1>2, <1>7, <3>1
  <2>3. h[s] \in 0 .. m * k
    <3> HIDE DEF k
    <3>1. m * k = 0
      BY <2>1
    <3> QED BY <2>2, <3>1
  <2> HIDE DEF T
  <2> QED BY <1>5, <2>3, Zenon
<1>8. CASE s # {}
  <2>1. x \in s /\ u \in SUBSET S
    BY <1>8 DEF Some
  <2>2. Cardinality(u) = k - 1 /\ IsFiniteSet(u) /\ Cardinality(u) \in Nat
    BY <1>1, <1>6, <2>1, FS_RemoveElement
  <2>3. ~Bad(u)
    <3> SUFFICES ASSUME Bad(u) PROVE FALSE
      OBVIOUS
    <3>1. Cardinality(u) \in T
      BY <2>1
    <3>2. k <= k - 1
      <4>1. Cardinality(u) = k - 1
        BY <2>2
      <4> HIDE DEF T, Bad, k, u
      <4>2. k <= Cardinality(u)
        BY <1>5, <3>1, Zenon DEF k
      <4> QED BY <4>1, <4>2
    <3> QED BY <1>6, <3>2
  <2>4. h[u] \in 0 .. m * (k - 1)
    BY <2>2, <2>3
  <2>5. a[x] \in 0 .. m
    BY <2>1
  <2>6. h[s] = a[x] + h[u]
    BY <1>2, <1>8
  <2>7. k - 1 \in Nat /\ m * (k - 1) \in Nat /\ m * (k - 1) + m = m * k
    BY <1>6, <2>2
  <2> HIDE DEF x, u, k
  <2>8. h[s] \in 0 .. m * k
    BY <2>4, <2>5, <2>6, <2>7
  <2> HIDE DEF T
  <2> QED BY <1>5, <2>8, Zenon DEF k
<1> QED BY <1>7, <1>8

\* The sum of numbers up to m over a finite set is at most m for each of them.
LEMMA SumBound ==
  ASSUME NEW S, IsFiniteSet(S), NEW a, NEW m \in Nat, \A x \in S : a[x] \in 0 .. m
  PROVE  SumFunctionOnSet(a, S) \in 0 .. m * Cardinality(S)
<1>1. \E h : h = SumBody(h, a, SUBSET S)
  BY SumExists
<1>2. \E h : h = SumBody(h, a, SUBSET S) /\ SumFunctionOnSet(a, S) = h[S]
  BY <1>1 DEF SumBody, Some, SumFunctionOnSet, FoldFunctionOnSet, MapThenFoldSet
<1>3. PICK h : h = SumBody(h, a, SUBSET S) /\ SumFunctionOnSet(a, S) = h[S]
  BY <1>2, Zenon
<1>4. S \in SUBSET S
  OBVIOUS
<1>5. h[S] \in 0 .. m * Cardinality(S)
  <2>1. h = SumBody(h, a, SUBSET S)
    BY <1>3
  <2> QED BY <1>4, <2>1, SumBodyBound
<1> QED BY <1>3, <1>5

\* recomputeOpportunityTotal: what it stores is a total.
LEMMA TotalsTyped ==
  ASSUME NEW c, NEW fs \in [Funnels -> FunnelRow]
  PROVE  TotalsOf(c, fs) \in Totals
<1> DEFINE B == {f \in Funnels : fs[f].opp = c}
           a == [f \in B |-> fs[f].amount]
           Of(k) == {f \in B : fs[f].currency = k}
           K == {fs[f].currency : f \in B}
           n == Cardinality(Funnels)
<1>1. /\ IsFiniteSet(Funnels) /\ n \in Nat /\ MaxAmount \in Nat
  BY ConstantsAssumption, FS_CardinalityType
<1>2. \A f \in Funnels : fs[f].currency \in Currencies /\ fs[f].amount \in 0 .. MaxAmount
  BY DEF FunnelRow, Amounts
<1>3. ASSUME NEW k PROVE SumFunctionOnSet(a, Of(k)) \in 0 .. MaxAmount * n
  <2>1. Of(k) \in SUBSET Funnels
    OBVIOUS
  <2>2. \A x \in Of(k) : a[x] \in 0 .. MaxAmount
    BY <1>2
  <2>3. /\ IsFiniteSet(Of(k)) /\ Cardinality(Of(k)) \in Nat /\ Cardinality(Of(k)) <= n
    BY <1>1, <2>1, FS_Subset, FS_CardinalityType
  <2> DEFINE S == Of(k)
             m == Cardinality(S)
  <2> HIDE DEF S, a
  <2>4. SumFunctionOnSet(a, S) \in 0 .. MaxAmount * m
    BY <1>1, <2>2, <2>3, SumBound DEF S
  <2>5. m \in Nat /\ m <= n
    BY <2>3 DEF S
  <2> HIDE DEF m, n
  <2>6. MaxAmount * m \in Nat /\ MaxAmount * n \in Nat /\ MaxAmount * m <= MaxAmount * n
    BY <1>1, <2>5
  <2> QED BY <2>4, <2>6 DEF S
<1>4. K \subseteq Currencies
  BY <1>2
<1>5. TotalsOf(c, fs) = [k \in K |-> SumFunctionOnSet(a, Of(k))]
  BY DEF TotalsOf
<1> HIDE DEF K, a, Of, n
<1>6. TotalsOf(c, fs) \in [K -> 0 .. MaxAmount * n]
  BY <1>3, <1>5
<1> QED BY <1>4, <1>6 DEF Totals, n

\* It depends on the amounts and currencies of the children alone.
LEMMA TotalsSame ==
  ASSUME NEW c, NEW fs, NEW gs,
         {f \in Funnels : gs[f].opp = c} = {f \in Funnels : fs[f].opp = c},
         \A f \in Funnels : fs[f].opp = c =>
           gs[f].amount = fs[f].amount /\ gs[f].currency = fs[f].currency
  PROVE  TotalsOf(c, gs) = TotalsOf(c, fs)
<1> DEFINE B == {f \in Funnels : fs[f].opp = c}
           a(hs) == [f \in B |-> hs[f].amount]
           Of(hs, k) == {f \in B : hs[f].currency = k}
           K(hs) == {hs[f].currency : f \in B}
<1>1. a(gs) = a(fs) /\ K(gs) = K(fs)
  OBVIOUS
<1>2. \A k : Of(gs, k) = Of(fs, k)
  OBVIOUS
<1>3. TotalsOf(c, fs) = [k \in K(fs) |-> SumFunctionOnSet(a(fs), Of(fs, k))]
  BY DEF TotalsOf
<1>4. TotalsOf(c, gs) = [k \in K(gs) |-> SumFunctionOnSet(a(gs), Of(gs, k))]
  BY DEF TotalsOf
<1> HIDE DEF a, Of, K
<1> QED BY <1>1, <1>2, <1>3, <1>4

-----------------------------------------------------------------------------
(* Locks, and what one session leaves of the others.                       *)

LEMMA ConflictIs ==
  /\ \A k, i, m, l, j, n :
       Conflict(Lock(k, i, m), Lock(l, j, n)) <=>
         /\ k = l /\ i = j
         /\ <<m, n>> \notin {<<"share", "share">>, <<"share", "write">>,
                             <<"write", "share">>}
  /\ \A a \in Locks, b \in Locks : Conflict(a, b) => Conflict(b, a)
<1>1. \A k, i, m, l, j, n :
       Conflict(Lock(k, i, m), Lock(l, j, n)) <=>
         /\ k = l /\ i = j
         /\ <<m, n>> \notin {<<"share", "share">>, <<"share", "write">>,
                             <<"write", "share">>}
  BY DEF Conflict, Lock
<1>2. \A a \in Locks, b \in Locks : Conflict(a, b) => Conflict(b, a)
  BY DEF Conflict
<1> QED BY <1>1, <1>2

\* The sessions other than p are left as they are.
OthersStay(p) ==
  \A q \in Sessions : q # p =>
    /\ pc'[q] = pc[q] /\ tx'[q] = tx[q]
    /\ held'[q] = held[q] /\ draft'[q] = draft[q]

LEMMA FreeIs ==
  ASSUME LocksOK, SessionsTyped, NEW p \in Sessions, NEW w, w \subseteq Locks,
         SessionsTyped', OthersStay(p), Free(p, w), held'[p] \subseteq held[p] \cup w
  PROVE  LocksOK'
<1>1. ASSUME NEW q \in Sessions, q # p, NEW a \in held'[p], NEW b \in held[q]
      PROVE  ~Conflict(a, b) /\ ~Conflict(b, a)
  <2>1. a \in Locks /\ b \in Locks
    BY DEF SessionsTyped
  <2>2. ~Conflict(b, a)
    <3>1. CASE a \in held[p]
      BY <1>1, <3>1 DEF LocksOK
    <3>2. CASE a \in w
      BY <1>1, <3>2 DEF Free, Blocks
    <3> QED BY <3>1, <3>2
  <2> QED BY <2>1, <2>2, ConflictIs
<1>2. ASSUME NEW q \in Sessions, NEW r \in Sessions, q # r,
             NEW a \in held'[q], NEW b \in held'[r]
      PROVE  ~Conflict(a, b)
  <2>1. CASE q = p
    BY <1>1, <1>2, <2>1 DEF OthersStay
  <2>2. CASE r = p
    BY <1>1, <1>2, <2>2 DEF OthersStay
  <2>3. CASE q # p /\ r # p
    BY <1>2, <2>3 DEF OthersStay, LocksOK
  <2> QED BY <2>1, <2>2, <2>3
<1> QED BY <1>2 DEF LocksOK

LEMMA LocksStay ==
  ASSUME LocksOK, NEW p \in Sessions, OthersStay(p), held'[p] \subseteq held[p]
  PROVE  LocksOK'
<1>1. \A q \in Sessions : held'[q] \subseteq held[q]
  BY DEF OthersStay
<1> QED BY <1>1 DEF LocksOK

\* What p inserts, and under which Opportunity, is decided when it starts.
LEMMA DistinctStays ==
  ASSUME Distinct, NEW p \in Sessions, OthersStay(p),
         tx'[p].kind = tx[p].kind, tx'[p].opp = tx[p].opp, tx'[p].funnel = tx[p].funnel
  PROVE  Distinct'
<1>1. \A q \in Sessions : /\ tx'[q].kind = tx[q].kind /\ tx'[q].opp = tx[q].opp
                          /\ tx'[q].funnel = tx[q].funnel
  BY DEF OthersStay
<1> QED BY <1>1 DEF Distinct, Inserts

LEMMA DistinctEnds ==
  ASSUME Distinct, NEW p \in Sessions, OthersStay(p),
         tx'[p].kind = "none", tx'[p].opp = None,
         \A q \in Sessions : Refers(q)
  PROVE  Distinct'
<1>1. \A q \in Sessions : tx[q].kind = "open" => tx[q].opp # None
  BY ConstantsAssumption DEF Refers
<1>2. ASSUME NEW q \in Sessions, NEW r \in Sessions, q # r
      PROVE  /\ (Inserts(q) /\ Inserts(r))' => tx'[q].funnel # tx'[r].funnel
             /\ tx'[q].kind = "open" => tx'[r].opp # tx'[q].opp
  <2>1. CASE q = p
    BY <2>1 DEF Inserts
  <2>2. CASE r = p
    BY <1>1, <1>2, <2>2 DEF Inserts, OthersStay
  <2>3. CASE q # p /\ r # p
    BY <1>2, <2>3 DEF Inserts, OthersStay, Distinct
  <2> QED BY <2>1, <2>2, <2>3
<1> QED BY <1>2 DEF Distinct

\* Rows only come, and keep their places.
Grows ==
  /\ \A c \in Containers : Exists(c) => Exists(c)'
  /\ \A f \in Funnels : funnel[f].opp # None => funnel'[f].opp = funnel[f].opp
  /\ 1 .. Cardinality(Live) + 1 \subseteq 1 .. Cardinality(Live)' + 1

\* What q relies on is left as it is.
Undisturbed(q) ==
  LET t == tx[q] IN
  /\ pc'[q] = pc[q] /\ tx'[q] = tx[q] /\ held'[q] = held[q] /\ draft'[q] = draft[q]
  /\ OwnsParent(q) =>
       /\ opp'[t.opp] = opp[t.opp]
       /\ \A f \in Funnels : funnel'[f].opp = t.opp <=> funnel[f].opp = t.opp
  /\ \A f \in Funnels : Owns(q, f) => funnel'[f] = funnel[f]
  /\ Inserts(q) => funnel'[t.funnel] = funnel[t.funnel]
  /\ t.kind = "open" => opp'[t.opp] = opp[t.opp]
  /\ t.kind = "open" /\ pc[q] # "openContainer" =>
       \A c \in Containers : opp'[c].number # t.number

\* The control points of each kind of transaction.
LEMMA PathOf ==
  ASSUME NEW p \in Sessions, SessionsTyped, Refers(p)
  PROVE  /\ pc[p] = "idle" <=> tx[p].kind = "none"
         /\ pc[p] \in {"lockParent", "children", "lockChild"} =>
              tx[p].kind \in {"edit", "container"}
         /\ pc[p] = "openContainer" => tx[p].kind = "open"
         /\ pc[p] = "insert" => Inserts(p)
         /\ pc[p] = "update" => tx[p].kind = "edit"
         /\ pc[p] \in {"sum", "total"} => tx[p].kind \in {"add", "open", "edit"}
         /\ pc[p] \in {"parent", "cascade", "cascadeChild"} => tx[p].kind = "container"
<1>1. tx[p].kind \in {"none", "add", "open", "edit", "container"} /\ pc[p] \in Path(tx[p].kind)
  BY Types DEF Refers
<1> DEFINE k == tx[p].kind
<1>2. pc[p] \in Path(k) /\ k \in {"none", "add", "open", "edit", "container"}
  BY <1>1
<1> HIDE DEF k
<1>3. /\ k = "none" => Path(k) = {"idle"}
      /\ k = "add" => Path(k) = {"insert", "sum", "total"}
      /\ k = "open" => Path(k) = {"openContainer", "insert", "sum", "total"}
      /\ k = "edit" => Path(k) = {"lockParent", "children", "lockChild", "update", "sum",
                                  "total"}
      /\ k = "container" => Path(k) = {"lockParent", "children", "lockChild", "parent",
                                       "cascade", "cascadeChild"}
  BY DEF Path
<1>4. CASE k = "none"
  BY <1>2, <1>3, <1>4 DEF Inserts, k
<1>5. CASE k = "add"
  BY <1>2, <1>3, <1>5 DEF Inserts, k
<1>6. CASE k = "open"
  BY <1>2, <1>3, <1>6 DEF Inserts, k
<1>7. CASE k = "edit"
  BY <1>2, <1>3, <1>7 DEF Inserts, k
<1>8. CASE k = "container"
  BY <1>2, <1>3, <1>8 DEF Inserts, k
<1> QED BY <1>2, <1>4, <1>5, <1>6, <1>7, <1>8

\* The locks of a session that only inserts are those of its keys.
LEMMA InsertsLittle ==
  ASSUME NEW p \in Sessions, HoldsOnly(p), tx[p].kind \notin {"edit", "container"}
  PROVE  /\ ~OwnsParent(p) /\ \A f : ~Owns(p, f)
         /\ tx[p].kind = "none" => held[p] = {}
<1>1. ASSUME NEW l \in held[p] PROVE l[1] # "opp" \/ l[3] = "share"
  BY DEF HoldsOnly, Lock
<1>2. ~OwnsParent(p)
  <2>1. ASSUME NEW m \in {"write", "update"} PROVE Lock("opp", tx[p].opp, m) \notin held[p]
    <3>1. Lock("opp", tx[p].opp, m)[1] = "opp" /\ Lock("opp", tx[p].opp, m)[3] # "share"
      BY DEF Lock
    <3> QED BY <1>1, <3>1
  <2> QED BY <2>1 DEF OwnsParent
<1>3. ASSUME NEW l \in held[p] PROVE l[1] # "funnel"
  <2>1. \/ l = Lock("number", tx[p].number, "write")
        \/ l = Lock("opp", tx[p].opp, "share")
    BY <1>2 DEF HoldsOnly
  <2> QED BY <2>1 DEF Lock
<1>4. \A f : ~Owns(p, f)
  BY <1>3 DEF Owns, Lock
<1>5. ASSUME tx[p].kind = "none", NEW l \in held[p] PROVE FALSE
  BY <1>2, <1>5 DEF HoldsOnly, Inserts
<1> QED BY <1>2, <1>4, <1>5

LEMMA RefersKept ==
  ASSUME NEW q \in Sessions, SessionsTyped, RowsTyped, Grows, Undisturbed(q), Refers(q)
  PROVE  Refers(q)'
<1> DEFINE t == tx[q]
<1>1. /\ pc'[q] = pc[q] /\ tx'[q] = t
      /\ Inserts(q) => funnel'[t.funnel] = funnel[t.funnel]
      /\ t.kind = "open" => opp'[t.opp] = opp[t.opp]
  BY DEF Undisturbed
<1>2. t.funnel \in Funnels
  BY Types
<1>3. t.kind \in {"add", "edit", "container"} => t.opp \in Containers /\ Exists(t.opp)
  BY DEF Refers
<1>4. t.kind \in {"add", "edit", "container"} => Exists(t.opp)'
  BY <1>1, <1>3 DEF Grows, Exists
<1>5. t.kind = "open" => opp'[t.opp].number = 0
  BY <1>1 DEF Refers, Exists
<1>6. t.kind = "edit" => funnel'[t.funnel].opp = t.opp
  <2>1. t.kind = "edit" => funnel[t.funnel].opp = t.opp /\ t.opp # None
    BY ConstantsAssumption DEF Refers
  <2> QED BY <1>2, <2>1 DEF Grows
<1>7. Inserts(q) => funnel'[t.funnel].opp = None
  BY <1>1 DEF Refers
<1>8. Inserts(q)' <=> Inserts(q)
  BY <1>1 DEF Inserts
<1>9. Patches(q)' <=> Patches(q)
  BY <1>1 DEF Patches
<1>10. t.kind \in {"add", "edit", "container"} => opp'[t.opp].number # 0
  BY <1>1, <1>4 DEF Exists
<1>11. /\ pc[q] \in Path(t.kind)
       /\ t.kind = "none" => t.opp = None
       /\ t.kind # "none" => t.opp \in Containers
       /\ Inserts(q) => ~Patches(q)
       /\ t.kind \in {"add", "open", "edit"} =>
            t.input.amount \in Amounts /\ t.input.currency \in Currencies
       /\ t.kind # "none" => t.input.nature \in Natures
       /\ pc[q] \in {"lockParent", "children", "lockChild"} => Patches(q)
  BY DEF Refers
<1> HIDE DEF t
<1> QED BY <1>1, <1>5, <1>6, <1>7, <1>8, <1>9, <1>10, <1>11 DEF Refers, Exists

LEMMA NumberedKept ==
  ASSUME NEW q \in Sessions, SessionsTyped, RowsTyped, Grows, Undisturbed(q), Numbered(q)
  PROVE  Numbered(q)'
<1>1. /\ pc'[q] = pc[q] /\ tx'[q] = tx[q] /\ held'[q] = held[q]
      /\ tx[q].kind = "open" /\ pc[q] # "openContainer" =>
           \A c \in Containers : opp'[c].number # tx[q].number
  BY DEF Undisturbed
<1>2. 1 .. Cardinality(Live) + 1 \subseteq 1 .. Cardinality(Live)' + 1
  BY DEF Grows
<1> QED BY <1>1, <1>2 DEF Numbered, NumberTaken

LEMMA LocksKept ==
  ASSUME NEW q \in Sessions, SessionsTyped, RowsTyped, Grows, Undisturbed(q), Refers(q),
         HoldsOnly(q), Holds(q)
  PROVE  HoldsOnly(q)' /\ Holds(q)'
<1>1. /\ pc'[q] = pc[q] /\ tx'[q] = tx[q] /\ held'[q] = held[q]
  BY DEF Undisturbed
<1>2. /\ (OwnsParent(q)' <=> OwnsParent(q)) /\ (Patches(q)' <=> Patches(q))
      /\ (Inserts(q)' <=> Inserts(q))
  BY <1>1 DEF OwnsParent, Patches, Inserts
<1>3. ASSUME NEW l \in held[q], NEW f \in Funnels, funnel[f].opp = tx[q].opp,
             OwnsParent(q) \/ tx[q].kind = "edit"
      PROVE  funnel'[f].opp = tx[q].opp
  <2>1. tx[q].opp # None
    <3>1. tx[q].kind \in {"edit", "container"}
      BY <1>3, InsertsLittle
    <3> QED BY <3>1, ConstantsAssumption DEF Refers
  <2> QED BY <1>3, <2>1 DEF Grows
<1>4. ASSUME NEW l \in held[q]
      PROVE
        \/ l = Lock("number", tx[q].number, "write") /\ tx[q].kind = "open"
             /\ pc[q] # "openContainer"
        \/ l = Lock("opp", tx[q].opp, "share") /\ Inserts(q) /\ pc[q] \in {"sum", "total"}
        \/ /\ l \in {Lock("opp", tx[q].opp, "write"), Lock("opp", tx[q].opp, "update")}
           /\ tx[q].kind \in {"edit", "container"}
        \/ /\ \E f \in Funnels : l = Lock("funnel", f, "write") /\ funnel'[f].opp = tx[q].opp
           /\ OwnsParent(q) \/ (tx[q].kind = "edit" /\ ~Patches(q))
  BY <1>3 DEF HoldsOnly
<1>5. HoldsOnly(q)'
  BY <1>1, <1>2, <1>4 DEF HoldsOnly
<1>6. Holds(q)'
  BY <1>1, <1>2 DEF Holds, Owns
<1> QED BY <1>5, <1>6

LEMMA DraftsKept ==
  ASSUME NEW q \in Sessions, SessionsTyped, RowsTyped, Grows, Undisturbed(q), Refers(q),
         DraftsParent(q), DraftsFunnels(q)
  PROVE  DraftsParent(q)' /\ DraftsFunnels(q)'
<1>1. /\ pc'[q] = pc[q] /\ tx'[q] = tx[q] /\ held'[q] = held[q] /\ draft'[q] = draft[q]
      /\ OwnsParent(q) => opp'[tx[q].opp] = opp[tx[q].opp]
      /\ \A f \in Funnels : Owns(q, f) => funnel'[f] = funnel[f]
  BY DEF Undisturbed
<1>2. DOMAIN draft[q].funnels \subseteq Funnels
  BY SeenTyped
<1>3. /\ (OwnsParent(q)' <=> OwnsParent(q)) /\ (Inserts(q)' <=> Inserts(q))
      /\ \A f : Owns(q, f)' <=> Owns(q, f)
  BY <1>1 DEF OwnsParent, Inserts, Owns
<1>4. DraftsParent(q)'
  <2>1. ASSUME tx[q].kind # "open", tx[q].opp \in DOMAIN draft[q].opps
        PROVE  /\ OwnsParent(q) /\ opp'[tx[q].opp] = opp[tx[q].opp]
    BY <1>1, <2>1 DEF DraftsParent
  <2> QED BY <1>1, <1>3, <2>1 DEF DraftsParent, Patched
<1>5. DraftsFunnels(q)'
  <2>1. ASSUME NEW f \in DOMAIN draft[q].funnels, tx[q].kind \in {"edit", "container"}
        PROVE  Owns(q, f) /\ funnel'[f] = funnel[f]
    BY <1>1, <1>2, <2>1 DEF DraftsFunnels
  <2> QED BY <1>1, <1>3, <2>1 DEF DraftsFunnels, Patched
<1> QED BY <1>4, <1>5

LEMMA WrittenKept ==
  ASSUME NEW q \in Sessions, SessionsTyped, RowsTyped, Grows, Undisturbed(q), Refers(q),
         Holds(q), Written(q)
  PROVE  Written(q)'
<1>1. /\ pc'[q] = pc[q] /\ tx'[q] = tx[q] /\ held'[q] = held[q] /\ draft'[q] = draft[q]
      /\ OwnsParent(q) =>
           \A f \in Funnels : funnel'[f].opp = tx[q].opp <=> funnel[f].opp = tx[q].opp
  BY DEF Undisturbed
<1>2. Patches(q)' <=> Patches(q)
  BY <1>1 DEF Patches
<1>3. /\ pc[q] \in {"lockChild", "cascadeChild"} => OwnsParent(q)
      /\ Patches(q) /\ pc[q] \notin {"lockParent", "children", "lockChild"} => OwnsParent(q)
  BY DEF Holds, Refers, OwnsParent
<1>4. OwnsParent(q) => Children(tx[q].opp)' = Children(tx[q].opp)
  BY <1>1 DEF Children
<1> QED BY <1>1, <1>2, <1>3, <1>4 DEF Written, Children

LEMMA SumKept ==
  ASSUME NEW q \in Sessions, SessionsTyped, RowsTyped, Grows, Undisturbed(q), Refers(q),
         DraftsFunnels(q), Written(q), SumStands(q), SessionsTyped', RowsTyped'
  PROVE  SumStands(q)'
<1> DEFINE f == tx[q].funnel
           c == tx[q].opp
           d == draft[q].funnels
           seen == FunnelsSeen(q)
<1> SUFFICES ASSUME pc[q] = "total", ChildrenSeen(q)' = {f}
             PROVE  tx[q].totals = TotalsOf(c, FunnelsSeen(q)')
  BY DEF Undisturbed, SumStands
<1>1. /\ tx'[q] = tx[q] /\ draft'[q] = draft[q]
      /\ \A g \in Funnels : funnel[g].opp # None => funnel'[g].opp = funnel[g].opp
  BY DEF Undisturbed, Grows
<1>2. f \in Funnels /\ f \in DOMAIN d /\ d[f].opp = c /\ c # None
  <2>1. f \in Funnels /\ f \in DOMAIN d /\ d[f].opp = c
    BY Types DEF Written, DraftsFunnels
  <2>2. tx[q].kind # "none"
    BY PathOf
  <2> QED BY <2>1, <2>2, ConstantsAssumption DEF Refers
<1>3. \A g \in Funnels : seen[g] = IF g \in DOMAIN d THEN d[g] ELSE funnel[g]
  BY SeenTyped
<1>4. \A g \in Funnels : seen'[g] = IF g \in DOMAIN d THEN d[g] ELSE funnel'[g]
  <2>1. seen' = Over(d, funnel')
    BY <1>1 DEF FunnelsSeen
  <2>2. DOMAIN funnel' = Funnels
    BY DEF RowsTyped
  <2> QED BY <2>1, <2>2 DEF Over
<1>5. ChildrenSeen(q)' = {g \in Funnels : seen'[g].opp = c}
  BY <1>1 DEF ChildrenSeen
<1>6. ChildrenSeen(q) = {g \in Funnels : seen[g].opp = c}
  BY DEF ChildrenSeen
<1> HIDE DEF seen, d, f, c
<1>7. \A g \in Funnels : seen[g].opp = c => seen'[g].opp = c
  BY <1>1, <1>2, <1>3, <1>4
<1>8. seen[f].opp = c
  BY <1>2, <1>3
<1>9. ChildrenSeen(q) = {f}
  BY <1>2, <1>5, <1>6, <1>7, <1>8
<1>10. tx[q].totals = TotalsOf(c, seen)
  BY <1>9 DEF SumStands, f, c, seen
<1>11. TotalsOf(c, seen') = TotalsOf(c, seen)
  <2>1. {g \in Funnels : seen'[g].opp = c} = {g \in Funnels : seen[g].opp = c}
    BY <1>5, <1>6, <1>9
  <2>2. \A g \in Funnels : seen[g].opp = c =>
          seen'[g].amount = seen[g].amount /\ seen'[g].currency = seen[g].currency
    BY <1>2, <1>3, <1>4, <1>6, <1>9
  <2> QED BY <2>1, <2>2, TotalsSame
<1> QED BY <1>10, <1>11 DEF c, seen

\* A session that nobody disturbs stays as it is.
LEMMA SessionKept ==
  ASSUME NEW q \in Sessions, SessionsTyped, RowsTyped, Grows, Undisturbed(q), SessionOK(q),
         SessionsTyped', RowsTyped'
  PROVE  SessionOK(q)'
<1>1. /\ Refers(q) /\ Numbered(q) /\ HoldsOnly(q) /\ Holds(q)
      /\ DraftsParent(q) /\ DraftsFunnels(q) /\ Written(q) /\ SumStands(q)
  BY DEF SessionOK
<1>2. Refers(q)' /\ Numbered(q)' /\ HoldsOnly(q)' /\ Holds(q)'
  BY <1>1, RefersKept, NumberedKept, LocksKept
<1>3. DraftsParent(q)' /\ DraftsFunnels(q)' /\ Written(q)' /\ SumStands(q)'
  BY <1>1, DraftsKept, WrittenKept, SumKept
<1> QED BY <1>2, <1>3 DEF SessionOK

LEMMA RowsAlone ==
  ASSUME RowsOK, UNCHANGED rows
  PROVE  RowsOK' /\ Grows
<1>1. opp' = opp /\ funnel' = funnel
  BY DEF rows
<1>2. RowsOK'
  BY <1>1 DEF RowsOK, RowsTyped, ParentsLive, HomesKept, FirstChildrenInSync, NumbersRunOn,
              OnlyChildTotal, Live, Exists, Children
<1>3. Grows
  BY <1>1 DEF Grows, Exists, Live
<1> QED BY <1>2, <1>3

\* A step of p that commits nothing.
LEMMA LocalStep ==
  ASSUME RecordsInv, NEW p \in Sessions, OthersStay(p), UNCHANGED rows,
         SessionsTyped', LocksOK', Distinct', SessionOK(p)'
  PROVE  RecordsInv'
<1>1. opp' = opp /\ funnel' = funnel
  BY DEF rows
<1>2. RowsOK' /\ Grows
  BY RowsAlone DEF RecordsInv
<1>3. ASSUME NEW q \in Sessions, q # p PROVE SessionOK(q)'
  <2>1. /\ pc'[q] = pc[q] /\ tx'[q] = tx[q] /\ held'[q] = held[q] /\ draft'[q] = draft[q]
    BY <1>3 DEF OthersStay
  <2>2. SessionOK(q) /\ SessionsTyped /\ RowsTyped /\ RowsTyped'
    BY <1>2 DEF RecordsInv, RowsOK
  <2>3. tx[q].kind = "open" /\ pc[q] # "openContainer" =>
          \A c \in Containers : opp[c].number # tx[q].number
    BY <2>2 DEF SessionOK, Numbered, NumberTaken
  <2>4. Undisturbed(q)
    BY <1>1, <2>1, <2>3 DEF Undisturbed
  <2> QED BY <1>2, <2>2, <2>4, SessionKept
<1> QED BY <1>2, <1>3 DEF RecordsInv

-----------------------------------------------------------------------------
(* Starting and ending.                                                    *)

LEMMA BlankTyped ==
  /\ Blank \in Input /\ Blank.patch = [k \in {} |-> NewRow.ppvvc]
  /\ DOMAIN Blank.patch = {} /\ Blank.nature = Unset
  /\ NewRow \in Values /\ NewRow.ppvvc \in Ppvvc /\ NewRow.nature \in Natures
  /\ NewRow.amount \in Amounts /\ NewRow.currency \in Currencies
<1>1. NewRow \in Values
  BY ConstantsAssumption
<1>2. /\ NewRow.ppvvc \in Ppvvc /\ NewRow.nature \in Natures
      /\ NewRow.amount \in Amounts /\ NewRow.currency \in Currencies
  BY <1>1 DEF Values
<1>3. [k \in {} |-> NewRow.ppvvc] \in Patch
  <2>1. [k \in {} |-> NewRow.ppvvc] \in [{} -> Grades]
    OBVIOUS
  <2>2. {} \in SUBSET Fields
    OBVIOUS
  <2> QED BY <2>1, <2>2 DEF Patch
<1>4. Blank \in Input /\ Blank.patch = [k \in {} |-> NewRow.ppvvc] /\ Blank.nature = Unset
  BY <1>3 DEF Blank, Input
<1> QED BY <1>1, <1>2, <1>4

LEMMA NothingTyped ==
  /\ Nothing \in Totals /\ \A S : Nothing \in [{} -> S]
  /\ DOMAIN Nothing = {} /\ NoDraft.opps = Nothing /\ NoDraft.funnels = Nothing
<1>1. \A S : Nothing \in [{} -> S]
  BY DEF Nothing
<1>2. {} \in SUBSET Currencies
  OBVIOUS
<1> QED BY <1>1, <1>2 DEF Totals, NoDraft, Nothing

LEMMA NoTxTyped ==
  /\ NoTx \in Tx /\ NoTx.kind = "none" /\ NoTx.opp = None /\ NoTx.input = Blank
  /\ NoTx.number = 0 /\ NoTx.children = {} /\ NoTx.ppvvc = NewRow.ppvvc
  /\ NoTx.totals = Nothing /\ NoTx.funnel \in Funnels
<1>1. (CHOOSE f \in Funnels : TRUE) \in Funnels
  BY ConstantsAssumption
<1>2. NewRow.ppvvc \in Ppvvc /\ Blank \in Input /\ Nothing \in Totals
  BY BlankTyped, NothingTyped
<1> HIDE DEF Blank
<1> QED BY <1>1, <1>2 DEF NoTx, Tx

LEMMA IdleIs ==
  ASSUME NEW p \in Sessions, pc[p] = "idle", tx[p] = NoTx, held[p] = {}, draft[p] = NoDraft
  PROVE  SessionOK(p) /\ DraftTyped(p)
<1>1. DraftTyped(p)
  BY NothingTyped DEF DraftTyped
<1>2. /\ tx[p].kind = "none" /\ tx[p].opp = None /\ ~Patches(p) /\ ~Inserts(p)
  BY NoTxTyped, BlankTyped DEF Patches, Inserts
<1>3. Refers(p)
  BY <1>2 DEF Refers, Path
<1>4. Numbered(p) /\ HoldsOnly(p) /\ Holds(p)
  BY <1>2 DEF Numbered, HoldsOnly, Holds
<1>5. DraftsParent(p) /\ DraftsFunnels(p) /\ Written(p) /\ SumStands(p)
  BY <1>2, NothingTyped DEF DraftsParent, DraftsFunnels, Written, SumStands
<1> QED BY <1>1, <1>3, <1>4, <1>5 DEF SessionOK

\* The state of p, of a session that is not running, in the next state.
IdleNow(p) ==
  pc[p] = "idle" /\ tx[p] = NoTx /\ held[p] = {} /\ draft[p] = NoDraft

LEMMA IdleNext == ASSUME NEW p \in Sessions PROVE IdleNow(p)' => (SessionOK(p) /\ DraftTyped(p))'
<1>1. IdleNow(p) => (SessionOK(p) /\ DraftTyped(p))
  BY IdleIs DEF IdleNow
<1> QED BY <1>1, PTL

\* The end of a transaction, whatever became of its rows.
LEMMA EndIs ==
  ASSUME SessionsTyped, LocksOK, Distinct, \A q \in Sessions : Refers(q),
         NEW p \in Sessions, End(p), started' = started
  PROVE  /\ OthersStay(p) /\ IdleNow(p)'
         /\ SessionsTyped' /\ LocksOK' /\ Distinct' /\ SessionOK(p)'
<1>1. OthersStay(p)
  BY DEF End, Goto, OthersStay, SessionsTyped
<1>2. /\ pc'[p] = "idle" /\ tx'[p] = NoTx /\ held'[p] = {} /\ draft'[p] = NoDraft
  BY DEF End, Goto, SessionsTyped
<1>3. IdleNow(p)'
  BY <1>2 DEF IdleNow
<1>4. (SessionOK(p) /\ DraftTyped(p))'
  BY <1>3, IdleNext
<1>5. SessionsTyped'
  <2>1. DOMAIN draft' = Sessions
    BY DEF End, SessionsTyped
  <2>2. ASSUME NEW q \in Sessions PROVE DraftTyped(q)'
    <3>1. CASE q = p
      BY <1>4, <3>1
    <3>2. CASE q # p
      <4>1. draft'[q] = draft[q] /\ DraftTyped(q)
        BY <1>1, <3>2 DEF OthersStay, SessionsTyped
      <4> QED BY <4>1 DEF DraftTyped
    <3> QED BY <3>1, <3>2
  <2>3. held' \in [Sessions -> SUBSET Locks]
    BY DEF End, SessionsTyped
  <2>4. pc' \in [Sessions -> ControlPoint]
    BY DEF End, Goto, SessionsTyped, ControlPoint
  <2>5. tx' \in [Sessions -> Tx]
    BY NoTxTyped DEF End, SessionsTyped
  <2> QED BY <2>1, <2>2, <2>3, <2>4, <2>5 DEF SessionsTyped
<1>6. LocksOK'
  BY <1>1, <1>2, LocksStay
<1>7. Distinct'
  BY <1>1, <1>2, NoTxTyped, DistinctEnds
<1> QED BY <1>1, <1>3, <1>4, <1>5, <1>6, <1>7

\* A transaction that ends without a trace.
LEMMA EndStep ==
  ASSUME RecordsInv, NEW p \in Sessions, End(p), UNCHANGED <<rows, started>>
  PROVE  RecordsInv'
<1>1. /\ SessionsTyped /\ LocksOK /\ Distinct /\ \A q \in Sessions : Refers(q)
  BY DEF RecordsInv, SessionOK
<1>2. /\ OthersStay(p) /\ SessionsTyped' /\ LocksOK' /\ Distinct' /\ SessionOK(p)'
  BY <1>1, EndIs
<1> QED BY <1>2, LocalStep

\* A transaction starts with the locals given, and has done nothing yet.
LEMMA StartIs ==
  ASSUME RecordsInv, NEW p \in Sessions, NEW first \in ControlPoint, NEW locals \in Tx,
         Start(p, first, locals)
  PROVE  /\ OthersStay(p) /\ UNCHANGED rows /\ SessionsTyped' /\ LocksOK'
         /\ pc[p] = "idle" /\ pc'[p] = first /\ tx'[p] = locals /\ held'[p] = {}
         /\ DOMAIN draft'[p].opps = {} /\ DOMAIN draft'[p].funnels = {}
<1>1. SessionsTyped /\ LocksOK /\ SessionOK(p)
  BY DEF RecordsInv
<1>2. OthersStay(p)
  BY <1>1 DEF Start, Goto, OthersStay, SessionsTyped
<1>3. /\ pc[p] = "idle" /\ pc'[p] = first /\ tx'[p] = locals /\ held' = held /\ draft' = draft
  BY <1>1 DEF Start, Goto, At, SessionsTyped
<1>4. Refers(p) /\ HoldsOnly(p) /\ Written(p)
  BY <1>1 DEF SessionOK
<1>5. held[p] = {} /\ DOMAIN draft[p].opps = {} /\ DOMAIN draft[p].funnels = {}
  BY <1>1, <1>3, <1>4, PathOf, InsertsLittle DEF Written
<1>6. SessionsTyped'
  <2>1. /\ pc' = [pc EXCEPT ![p] = first] /\ tx' = [tx EXCEPT ![p] = locals]
        /\ started' = started + 1
    BY DEF Start, Goto
  <2>2. pc' \in [Sessions -> ControlPoint] /\ tx' \in [Sessions -> Tx] /\ started' \in Nat
    BY <1>1, <2>1 DEF SessionsTyped
  <2> QED BY <1>1, <1>3, <2>2 DEF SessionsTyped, DraftTyped
<1>7. LocksOK'
  BY <1>1, <1>2, <1>3, LocksStay
<1>8. UNCHANGED rows
  BY DEF Start
<1> QED BY <1>2, <1>3, <1>5, <1>6, <1>7, <1>8

\* A session that has done nothing yet.
Fresh(p) ==
  /\ Refers(p) /\ Numbered(p)
  /\ held[p] = {} /\ DOMAIN draft[p].opps = {} /\ DOMAIN draft[p].funnels = {}
  /\ \/ pc[p] = "lockParent"
     \/ pc[p] \in {"openContainer", "insert", "update", "parent"} /\ ~Patches(p)

LEMMA FreshIs ==
  ASSUME NEW p \in Sessions
  PROVE  Fresh(p)' => SessionOK(p)'
<1>1. Fresh(p) => SessionOK(p)
  <2> SUFFICES ASSUME Fresh(p) PROVE SessionOK(p)
    OBVIOUS
  <2>0. Refers(p) /\ Numbered(p)
    BY DEF Fresh
  <2>1. HoldsOnly(p) /\ Holds(p)
    <3>1. tx[p].kind = "edit" /\ pc[p] \in {"sum", "total"} => FALSE
      BY DEF Fresh
    <3> QED BY <3>1 DEF Fresh, HoldsOnly, Holds, OwnsParent
  <2>2. DraftsParent(p) /\ DraftsFunnels(p)
    <3>1. tx[p].kind = "open" => pc[p] = "openContainer" \/ pc[p] # "openContainer"
      OBVIOUS
    <3>2. tx[p].kind = "open" => pc[p] = "openContainer"
      BY DEF Fresh, Numbered
    <3> QED BY <3>2 DEF Fresh, DraftsParent, DraftsFunnels
  <2>3. Written(p) /\ SumStands(p)
    BY DEF Fresh, Written, SumStands
  <2> QED BY <2>0, <2>1, <2>2, <2>3 DEF SessionOK
<1> QED BY <1>1, PTL

LEMMA DistinctStarts ==
  ASSUME Distinct, NEW p \in Sessions, OthersStay(p),
         NEW k, NEW c, NEW f, tx'[p].kind = k, tx'[p].opp = c, tx'[p].funnel = f,
         \A q \in Sessions : q # p =>
           /\ k \in {"add", "open"} /\ Inserts(q) => tx[q].funnel # f
           /\ k = "open" => tx[q].opp # c
           /\ tx[q].kind = "open" => tx[q].opp # c
  PROVE  Distinct'
<1>2. ASSUME NEW q \in Sessions, NEW r \in Sessions, q # r
      PROVE  /\ (Inserts(q) /\ Inserts(r))' => tx'[q].funnel # tx'[r].funnel
             /\ tx'[q].kind = "open" => tx'[r].opp # tx'[q].opp
  <2>1. CASE q = p
    BY <1>2, <2>1 DEF Inserts, OthersStay
  <2>2. CASE r = p
    BY <1>2, <2>2 DEF Inserts, OthersStay
  <2>3. CASE q # p /\ r # p
    BY <1>2, <2>3 DEF Inserts, OthersStay, Distinct
  <2> QED BY <2>1, <2>2, <2>3
<1> QED BY <1>2 DEF Distinct

\* What the form fills in before it inserts.
Filled(n, a, k) == [Blank EXCEPT !.nature = n, !.amount = a, !.currency = k]

LEMMA FilledTyped ==
  ASSUME NEW n \in Natures, NEW a \in Amounts, NEW k \in Currencies
  PROVE  /\ Filled(n, a, k) \in Input /\ DOMAIN Filled(n, a, k).patch = {}
         /\ Filled(n, a, k).nature = n /\ Filled(n, a, k).amount = a
         /\ Filled(n, a, k).currency = k
<1>1. Blank \in Input /\ DOMAIN Blank.patch = {}
  BY BlankTyped
<1>2. Blank \in [patch: Patch, nature: Natures \cup {Unset}, amount: Amounts \cup {Unset},
                 currency: Currencies \cup {Unset}]
  BY <1>1 DEF Input
<1> HIDE DEF Blank
<1> QED BY <1>1, <1>2 DEF Input, Filled

LEMMA StartAddKeeps ==
  ASSUME RecordsInv, NEW p \in Sessions, StartAdd(p)
  PROVE  RecordsInv'
<1>1. PICK i \in Creations, f \in NewFunnels :
        /\ i.opp # None /\ Exists(i.opp)
        /\ Start(p, "insert",
             [NoTx EXCEPT !.kind = "add", !.opp = i.opp, !.funnel = f,
                          !.ppvvc = opp[i.opp].ppvvc,
                          !.input = [Blank EXCEPT !.nature = opp[i.opp].nature,
                                                  !.amount = i.values.amount,
                                                  !.currency = i.values.currency]])
  BY DEF StartAdd
<1> DEFINE c == i.opp
           in == Filled(opp[c].nature, i.values.amount, i.values.currency)
           t == [NoTx EXCEPT !.kind = "add", !.opp = c, !.funnel = f,
                             !.ppvvc = opp[c].ppvvc, !.input = in]
<1>2. RowsTyped /\ SessionsTyped /\ Distinct /\ \A q \in Sessions : Refers(q)
  BY DEF RecordsInv, RowsOK, SessionOK
<1>3. c \in Containers /\ i.values.amount \in Amounts /\ i.values.currency \in Currencies
  <2>1. i \in [opp: Containers \cup {None}, values: Values]
    BY ConstantsAssumption
  <2>2. i.values \in Values
    BY <2>1
  <2> QED BY <1>1, <2>1, <2>2 DEF Values
<1>4. opp[c].nature \in Natures /\ opp[c].ppvvc \in Ppvvc
  BY <1>2, <1>3, RowTypes
<1>5. /\ in \in Input /\ DOMAIN in.patch = {} /\ in.nature = opp[c].nature
      /\ in.amount = i.values.amount /\ in.currency = i.values.currency
  BY <1>3, <1>4, FilledTyped
<1>6. /\ f \in Funnels /\ funnel[f].opp = None
      /\ \A q \in Sessions : Inserts(q) => tx[q].funnel # f
  BY DEF NewFunnels, Inserts
<1> HIDE DEF in
<1>7. t \in Tx /\ t.kind = "add" /\ t.opp = c /\ t.funnel = f /\ t.input = in
  <2>1. NoTx \in Tx
    BY NoTxTyped
  <2> HIDE DEF c
  <2> QED BY <1>3, <1>4, <1>5, <1>6, <2>1 DEF Tx
<1>8. Start(p, "insert", t)
  BY <1>1 DEF in, Filled
<1> HIDE DEF t
<1>9. /\ OthersStay(p) /\ UNCHANGED rows /\ SessionsTyped' /\ LocksOK'
      /\ pc'[p] = "insert" /\ tx'[p] = t /\ held'[p] = {}
      /\ DOMAIN draft'[p].opps = {} /\ DOMAIN draft'[p].funnels = {}
  BY <1>7, <1>8, StartIs DEF ControlPoint
<1>10. Distinct'
  <2>1. ASSUME NEW q \in Sessions, q # p
        PROVE  /\ Inserts(q) => tx[q].funnel # f
               /\ tx[q].kind = "open" => tx[q].opp # c
    BY <1>1, <1>2, <1>6 DEF Refers
  <2> QED BY <1>2, <1>7, <1>9, <2>1, DistinctStarts
<1>11. opp' = opp /\ funnel' = funnel
  BY <1>9 DEF rows
<1>12. Refers(p)' /\ Numbered(p)'
  <2>1. Exists(c)'
    BY <1>1, <1>11 DEF Exists
  <2>2. ~Patches(p)'
    BY <1>5, <1>7, <1>9 DEF Patches
  <2>3. (pc[p] \in Path(tx[p].kind))'
    BY <1>7, <1>9 DEF Path
  <2> QED BY <1>3, <1>4, <1>5, <1>6, <1>7, <1>9, <1>11, <2>1, <2>2, <2>3
          DEF Refers, Numbered, Exists
<1>13. Fresh(p)'
  BY <1>5, <1>7, <1>9, <1>12 DEF Fresh, Patches
<1> QED BY <1>9, <1>10, <1>13, FreshIs, LocalStep

\* The number after the largest one.
LEMMA MaxIs ==
  ASSUME NEW T, T \subseteq Nat, T # {}, NEW K \in Nat, T \ {0} = 1 .. K
  PROVE  Max(T) \in 0 .. K
<1>1. \A x \in T : x \in 0 .. K
  OBVIOUS
<1>2. \E x \in T : \A y \in T : x >= y
  <2>1. CASE K = 0
    <3>1. \A x \in T : x = 0
      BY <1>1, <2>1
    <3> QED BY <3>1
  <2>2. CASE K # 0
    <3>1. K \in T
      BY <2>2
    <3> QED BY <1>1, <3>1
  <2> QED BY <2>1, <2>2
<1>3. Max(T) \in T
  BY <1>2 DEF Max
<1> QED BY <1>1, <1>3

LEMMA LiveFinite ==
  /\ IsFiniteSet(Containers) /\ IsFiniteSet(Live) /\ Cardinality(Live) \in Nat
<1>1. IsFiniteSet(Containers)
  BY ConstantsAssumption
<1>2. Live \subseteq Containers
  BY DEF Live
<1> QED BY <1>1, <1>2, FS_Subset, FS_CardinalityType

LEMMA NextNumberIs ==
  ASSUME RowsTyped, NumbersRunOn, Containers # {}
  PROVE  NextNumber \in 1 .. Cardinality(Live) + 1
<1> DEFINE T == {opp[c].number : c \in Containers}
           K == Cardinality(Live)
<1>1. T \subseteq Nat /\ T # {}
  BY RowTypes
<1>2. T \ {0} = 1 .. K
  BY DEF NumbersRunOn, Live
<1>3. K \in Nat
  BY LiveFinite
<1> HIDE DEF T, K
<1>4. Max(T) \in 0 .. K
  BY <1>1, <1>2, <1>3, MaxIs
<1>5. NextNumber = Max(T) + 1
  BY DEF NextNumber, T
<1> QED BY <1>3, <1>4, <1>5 DEF K

LEMMA StartOpenKeeps ==
  ASSUME RecordsInv, NEW p \in Sessions, StartOpen(p)
  PROVE  RecordsInv'
<1>1. PICK i \in Creations, c \in NewContainers, f \in NewFunnels :
        /\ i.opp = None
        /\ Start(p, "openContainer",
             [NoTx EXCEPT !.kind = "open", !.opp = c, !.funnel = f,
                          !.number = NextNumber, !.ppvvc = i.values.ppvvc,
                          !.input = [Blank EXCEPT !.nature = i.values.nature,
                                                  !.amount = i.values.amount,
                                                  !.currency = i.values.currency]])
  BY DEF StartOpen
<1> DEFINE in == Filled(i.values.nature, i.values.amount, i.values.currency)
           n == NextNumber
           t == [NoTx EXCEPT !.kind = "open", !.opp = c, !.funnel = f, !.number = n,
                             !.ppvvc = i.values.ppvvc, !.input = in]
<1>2. RowsTyped /\ NumbersRunOn /\ SessionsTyped /\ Distinct /\ \A q \in Sessions : Refers(q)
  BY DEF RecordsInv, RowsOK, SessionOK
<1>3. /\ i.values.amount \in Amounts /\ i.values.currency \in Currencies
      /\ i.values.nature \in Natures /\ i.values.ppvvc \in Ppvvc
  <2>1. i \in [opp: Containers \cup {None}, values: Values]
    BY ConstantsAssumption
  <2>2. i.values \in Values
    BY <2>1
  <2> QED BY <2>2 DEF Values
<1>4. c \in Containers /\ ~Exists(c) /\ \A q \in Sessions : tx[q].opp # c
  BY DEF NewContainers
<1>5. /\ in \in Input /\ DOMAIN in.patch = {} /\ in.nature = i.values.nature
      /\ in.amount = i.values.amount /\ in.currency = i.values.currency
  BY <1>3, FilledTyped
<1>6. /\ f \in Funnels /\ funnel[f].opp = None
      /\ \A q \in Sessions : Inserts(q) => tx[q].funnel # f
  BY DEF NewFunnels, Inserts
<1>14. n \in 1 .. Cardinality(Live) + 1 /\ n \in Nat
  BY <1>2, <1>4, NextNumberIs, LiveFinite
<1> HIDE DEF in, n
<1>7. t \in Tx /\ t.kind = "open" /\ t.opp = c /\ t.funnel = f /\ t.input = in /\ t.number = n
  <2>1. NoTx \in Tx
    BY NoTxTyped
  <2> QED BY <1>3, <1>4, <1>5, <1>6, <1>14, <2>1 DEF Tx
<1>8. Start(p, "openContainer", t)
  BY <1>1 DEF in, Filled, n
<1> HIDE DEF t
<1>9. /\ OthersStay(p) /\ UNCHANGED rows /\ SessionsTyped' /\ LocksOK'
      /\ pc'[p] = "openContainer" /\ tx'[p] = t /\ held'[p] = {}
      /\ DOMAIN draft'[p].opps = {} /\ DOMAIN draft'[p].funnels = {}
  BY <1>7, <1>8, StartIs DEF ControlPoint
<1>10. Distinct'
  BY <1>2, <1>4, <1>6, <1>7, <1>9, DistinctStarts
<1>11. opp' = opp /\ funnel' = funnel
  BY <1>9 DEF rows
<1>12. Refers(p)'
  <2>1. ~Exists(c)'
    BY <1>4, <1>11 DEF Exists
  <2>2. ~Patches(p)'
    BY <1>5, <1>7, <1>9 DEF Patches
  <2>3. (pc[p] \in Path(tx[p].kind))'
    BY <1>7, <1>9 DEF Path
  <2> QED BY <1>3, <1>4, <1>5, <1>6, <1>7, <1>9, <1>11, <2>1, <2>2, <2>3
          DEF Refers, Exists
<1>15. Numbered(p)'
  <2>1. Cardinality(Live)' = Cardinality(Live)
    BY <1>11 DEF Live, Exists
  <2> QED BY <1>7, <1>9, <1>14, <2>1 DEF Numbered
<1>13. Fresh(p)'
  BY <1>5, <1>7, <1>9, <1>12, <1>15 DEF Fresh, Patches
<1> QED BY <1>9, <1>10, <1>13, FreshIs, LocalStep

\* What the form leaves out is there after it was resolved.
LEMMA ResolvedTyped ==
  ASSUME NEW i \in Input, NEW row \in FunnelRow
  PROVE  /\ Resolved(i, row) \in Input /\ Resolved(i, row).patch = i.patch
         /\ Resolved(i, row).nature \in Natures /\ Resolved(i, row).amount \in Amounts
         /\ Resolved(i, row).currency \in Currencies
BY DEF Resolved, Input, FunnelRow

LEMMA StartEditKeeps ==
  ASSUME RecordsInv, NEW p \in Sessions, StartEdit(p)
  PROVE  RecordsInv'
<1>1. PICK i \in Edits, f \in Funnels :
        /\ funnel[f].opp # None
        /\ Start(p, FirstLock(i, "update"),
             [NoTx EXCEPT !.kind = "edit", !.opp = funnel[f].opp, !.funnel = f,
                          !.ppvvc = funnel[f].ppvvc, !.input = Resolved(i, funnel[f])])
  BY DEF StartEdit
<1> DEFINE in == Resolved(i, funnel[f])
           c == funnel[f].opp
           first == FirstLock(i, "update")
           t == [NoTx EXCEPT !.kind = "edit", !.opp = c, !.funnel = f,
                             !.ppvvc = funnel[f].ppvvc, !.input = in]
<1>2. /\ RowsTyped /\ ParentsLive /\ SessionsTyped /\ Distinct
      /\ \A q \in Sessions : Refers(q)
  BY DEF RecordsInv, RowsOK, SessionOK
<1>3. funnel[f] \in FunnelRow /\ funnel[f].ppvvc \in Ppvvc
  BY <1>2, RowTypes
<1>4. c \in Containers /\ Exists(c)
  BY <1>1, <1>2 DEF ParentsLive, Live
<1>5. /\ in \in Input /\ in.patch = i.patch
      /\ in.nature \in Natures /\ in.amount \in Amounts /\ in.currency \in Currencies
  <2>1. i \in Input
    BY ConstantsAssumption
  <2> QED BY <1>3, <2>1, ResolvedTyped
<1>6. first = IF DOMAIN i.patch = {} THEN "update" ELSE "lockParent"
  BY DEF FirstLock
<1> HIDE DEF in, first, c
<1>7. t \in Tx /\ t.kind = "edit" /\ t.opp = c /\ t.funnel = f /\ t.input = in
  <2>1. NoTx \in Tx
    BY NoTxTyped
  <2> QED BY <1>3, <1>4, <1>5, <2>1 DEF Tx
<1>8. Start(p, first, t)
  BY <1>1 DEF in, first, c
<1> HIDE DEF t
<1>9. /\ OthersStay(p) /\ UNCHANGED rows /\ SessionsTyped' /\ LocksOK'
      /\ pc'[p] = first /\ tx'[p] = t /\ held'[p] = {}
      /\ DOMAIN draft'[p].opps = {} /\ DOMAIN draft'[p].funnels = {}
  <2>1. first \in ControlPoint
    BY <1>6 DEF ControlPoint
  <2> QED BY <1>7, <1>8, <2>1, StartIs
<1>10. Distinct'
  <2>1. ASSUME NEW q \in Sessions, q # p
        PROVE  tx[q].kind = "open" => tx[q].opp # c
    BY <1>2, <1>4 DEF Refers
  <2> QED BY <1>2, <1>7, <1>9, <2>1, DistinctStarts
<1>11. opp' = opp /\ funnel' = funnel
  BY <1>9 DEF rows
<1>14. Patches(p)' <=> first # "update"
  BY <1>5, <1>6, <1>7, <1>9 DEF Patches
<1>12. Refers(p)' /\ Numbered(p)'
  <2>1. opp'[c].number # 0
    BY <1>4, <1>11 DEF Exists
  <2>3. (pc[p] \in Path(tx[p].kind))'
    BY <1>6, <1>7, <1>9 DEF Path
  <2>4. first \in {"update", "lockParent"}
    BY <1>6
  <2>5. funnel[f].opp = c
    BY DEF c
  <2> QED BY <1>4, <1>5, <1>7, <1>9, <1>11, <1>14, <2>1, <2>3, <2>4, <2>5
          DEF Refers, Numbered, Exists, Inserts
<1>13. Fresh(p)'
  BY <1>6, <1>9, <1>12, <1>14 DEF Fresh
<1> QED BY <1>9, <1>10, <1>13, FreshIs, LocalStep

LEMMA StartContainerEditKeeps ==
  ASSUME RecordsInv, NEW p \in Sessions, StartContainerEdit(p)
  PROVE  RecordsInv'
<1>1. PICK i \in ContainerEdits, c \in Containers :
        /\ Exists(c)
        /\ Start(p, FirstLock(i, "parent"),
             [NoTx EXCEPT !.kind = "container", !.opp = c, !.ppvvc = opp[c].ppvvc,
                          !.input = IF i.nature = Unset
                                    THEN [i EXCEPT !.nature = opp[c].nature] ELSE i])
  BY DEF StartContainerEdit
<1> DEFINE in == IF i.nature = Unset THEN [i EXCEPT !.nature = opp[c].nature] ELSE i
           first == FirstLock(i, "parent")
           t == [NoTx EXCEPT !.kind = "container", !.opp = c,
                             !.ppvvc = opp[c].ppvvc, !.input = in]
<1>2. /\ RowsTyped /\ SessionsTyped /\ Distinct /\ \A q \in Sessions : Refers(q)
  BY DEF RecordsInv, RowsOK, SessionOK
<1>3. opp[c].nature \in Natures /\ opp[c].ppvvc \in Ppvvc
  BY <1>2, RowTypes
<1>5. in \in Input /\ in.patch = i.patch /\ in.nature \in Natures
  <2>1. i \in Input
    BY ConstantsAssumption
  <2> QED BY <1>3, <2>1 DEF Input
<1>6. first = IF DOMAIN i.patch = {} THEN "parent" ELSE "lockParent"
  BY DEF FirstLock
<1> HIDE DEF in, first
<1>7. t \in Tx /\ t.kind = "container" /\ t.opp = c /\ t.input = in
  <2>1. NoTx \in Tx
    BY NoTxTyped
  <2> QED BY <1>3, <1>5, <2>1 DEF Tx
<1>8. Start(p, first, t)
  BY <1>1 DEF in, first
<1> HIDE DEF t
<1>9. /\ OthersStay(p) /\ UNCHANGED rows /\ SessionsTyped' /\ LocksOK'
      /\ pc'[p] = first /\ tx'[p] = t /\ held'[p] = {}
      /\ DOMAIN draft'[p].opps = {} /\ DOMAIN draft'[p].funnels = {}
  <2>1. first \in ControlPoint
    BY <1>6 DEF ControlPoint
  <2> QED BY <1>7, <1>8, <2>1, StartIs
<1>10. Distinct'
  <2>1. ASSUME NEW q \in Sessions, q # p
        PROVE  tx[q].kind = "open" => tx[q].opp # c
    BY <1>1, <1>2 DEF Refers
  <2> DEFINE f == t.funnel
  <2>2. tx'[p].funnel = f
    BY <1>9
  <2> HIDE DEF f
  <2> QED BY <1>2, <1>7, <1>9, <2>1, <2>2, DistinctStarts
<1>11. opp' = opp /\ funnel' = funnel
  BY <1>9 DEF rows
<1>14. Patches(p)' <=> first # "parent"
  BY <1>5, <1>6, <1>7, <1>9 DEF Patches
<1>12. Refers(p)' /\ Numbered(p)'
  <2>1. Exists(c)'
    BY <1>1, <1>11 DEF Exists
  <2>3. (pc[p] \in Path(tx[p].kind))'
    BY <1>6, <1>7, <1>9 DEF Path
  <2>4. first \in {"parent", "lockParent"}
    BY <1>6
  <2> QED BY <1>5, <1>7, <1>9, <1>11, <1>14, <2>1, <2>3, <2>4
          DEF Refers, Numbered, Exists, Inserts
<1>13. Fresh(p)'
  BY <1>6, <1>9, <1>12, <1>14 DEF Fresh
<1> QED BY <1>9, <1>10, <1>13, FreshIs, LocalStep

-----------------------------------------------------------------------------
(* Statements that lock and write.                                         *)

LEMMA LockTyped ==
  /\ \A c \in Containers, m \in {"share", "write", "update"} : Lock("opp", c, m) \in Locks
  /\ \A f \in Funnels : Lock("funnel", f, "write") \in Locks
  /\ \A n \in Nat : Lock("number", n, "write") \in Locks
BY DEF Lock, Locks

LEMMA WantsIs ==
  ASSUME NEW p \in Sessions
  PROVE  /\ pc[p] = "openContainer" => Wants(p) = {Lock("number", tx[p].number, "write")}
         /\ pc[p] = "insert" => Wants(p) = {Lock("opp", tx[p].opp, "share")}
         /\ pc[p] = "lockParent" => Wants(p) = {Lock("opp", tx[p].opp, "update")}
         /\ pc[p] = "parent" => Wants(p) = {Lock("opp", tx[p].opp, "write")}
         /\ pc[p] = "total" => Wants(p) = {Lock("opp", tx[p].opp, "write")}
         /\ pc[p] = "update" => Wants(p) = {Lock("funnel", tx[p].funnel, "write")}
         /\ pc[p] \in {"lockChild", "cascadeChild"} =>
              Wants(p) = {Lock("funnel", f, "write") : f \in Unlocked(p)}
         /\ pc[p] \in {"idle", "children", "sum", "cascade"} => Wants(p) = {}
<1>1. CASE pc[p] \in {"openContainer", "insert", "lockParent", "parent"}
  BY <1>1 DEF Wants, ParentLock
<1>2. CASE pc[p] \in {"total", "update"}
  BY <1>2 DEF Wants, TotalLock
<1>3. CASE pc[p] \in {"lockChild", "cascadeChild"}
  BY <1>3 DEF Wants
<1>4. CASE pc[p] \in {"idle", "children", "sum", "cascade"}
  BY <1>4 DEF Wants
<1> QED BY <1>1, <1>2, <1>3, <1>4

LEMMA JustTyped ==
  ASSUME NEW x, NEW T, NEW row \in T
  PROVE  Just(x, row) \in [{x} -> T]
BY DEF Just

LEMMA WriteIs ==
  ASSUME SessionsTyped, NEW p \in Sessions,
         NEW D, D \subseteq Containers, NEW os \in [D -> OppRow],
         NEW E, E \subseteq Funnels, NEW fs \in [E -> FunnelRow],
         Write(p, os, fs)
  PROVE  /\ opp' = opp /\ funnel' = funnel /\ DOMAIN draft' = Sessions
         /\ \A q \in Sessions : q # p => draft'[q] = draft[q]
         /\ draft'[p].opps = Over(os, draft[p].opps)
         /\ draft'[p].funnels = Over(fs, draft[p].funnels)
         /\ DraftTyped(p)'
<1>1. /\ opp' = opp /\ funnel' = funnel /\ DOMAIN draft' = Sessions
      /\ \A q \in Sessions : q # p => draft'[q] = draft[q]
      /\ draft'[p].opps = Over(os, draft[p].opps)
      /\ draft'[p].funnels = Over(fs, draft[p].funnels)
  BY DEF Write, rows, SessionsTyped
<1> DEFINE do == draft[p].opps
           df == draft[p].funnels
<1>2. /\ do \in [DOMAIN do \cap Containers -> OppRow]
      /\ df \in [DOMAIN df \cap Funnels -> FunnelRow]
  BY DEF SessionsTyped, DraftTyped
<1> HIDE DEF do, df
<1>3. /\ Over(os, do) \in [D \cup (DOMAIN do \cap Containers) -> OppRow]
      /\ Over(fs, df) \in [E \cup (DOMAIN df \cap Funnels) -> FunnelRow]
  BY <1>2, OverTyped
<1>4. /\ DOMAIN Over(os, do) = D \cup (DOMAIN do \cap Containers)
      /\ DOMAIN Over(fs, df) = E \cup (DOMAIN df \cap Funnels)
  BY <1>3
<1>5. /\ DOMAIN Over(os, do) \cap Containers = D \cup (DOMAIN do \cap Containers)
      /\ DOMAIN Over(fs, df) \cap Funnels = E \cup (DOMAIN df \cap Funnels)
  BY <1>4
<1>6. /\ draft'[p].opps = Over(os, do) /\ draft'[p].funnels = Over(fs, df)
  BY <1>1 DEF do, df
<1>7. DraftTyped(p)'
  BY <1>3, <1>5, <1>6 DEF DraftTyped
<1> QED BY <1>1, <1>7

LEMMA AcquireIs ==
  ASSUME SessionsTyped, NEW p \in Sessions, NEW w, w \subseteq Locks, Acquire(p, w)
  PROVE  /\ Free(p, w) /\ held' \in [Sessions -> SUBSET Locks]
         /\ held'[p] = held[p] \cup w
         /\ \A q \in Sessions : q # p => held'[q] = held[q]
BY DEF Acquire, SessionsTyped

\* A statement of p, with the locks w.
LEMMA StepIs ==
  ASSUME RecordsInv, NEW p \in Sessions, NEW point \in ControlPoint, Goto(p, point),
         UNCHANGED <<opp, funnel, started>>,
         DOMAIN draft' = Sessions, DraftTyped(p)',
         \A q \in Sessions : q # p => draft'[q] = draft[q],
         NEW w, w \subseteq Locks, Free(p, w), held' \in [Sessions -> SUBSET Locks],
         held'[p] = held[p] \cup w, \A q \in Sessions : q # p => held'[q] = held[q],
         tx' \in [Sessions -> Tx], \A q \in Sessions : q # p => tx'[q] = tx[q],
         tx'[p].kind = tx[p].kind, tx'[p].opp = tx[p].opp, tx'[p].funnel = tx[p].funnel,
         pc'[p] = point => SessionOK(p)'
  PROVE  RecordsInv'
<1>1. SessionsTyped /\ LocksOK /\ Distinct
  BY DEF RecordsInv
<1>2. /\ pc' \in [Sessions -> ControlPoint] /\ pc'[p] = point
      /\ \A q \in Sessions : q # p => pc'[q] = pc[q]
  BY <1>1 DEF Goto, SessionsTyped
<1>3. OthersStay(p) /\ UNCHANGED rows
  BY <1>2 DEF OthersStay, rows
<1>4. SessionsTyped'
  <2>1. ASSUME NEW q \in Sessions PROVE DraftTyped(q)'
    <3>1. CASE q = p
      BY <3>1
    <3>2. CASE q # p
      BY <1>1, <3>2 DEF SessionsTyped, DraftTyped
    <3> QED BY <3>1, <3>2
  <2>2. started' \in Nat
    BY <1>1 DEF SessionsTyped
  <2> QED BY <1>2, <2>1, <2>2 DEF SessionsTyped
<1>5. LocksOK'
  BY <1>1, <1>3, <1>4, FreeIs
<1>6. Distinct'
  BY <1>1, <1>3, DistinctStays
<1> QED BY <1>2, <1>3, <1>4, <1>5, <1>6, LocalStep

LEMMA OpenContainerKeeps ==
  ASSUME RecordsInv, NEW p \in Sessions, OpenContainer(p)
  PROVE  RecordsInv'
<1> DEFINE t == tx[p]
           c == t.opp
           w == {Lock("number", t.number, "write")}
           row == [number |-> t.number, ppvvc |-> t.ppvvc, nature |-> t.input.nature,
                   totals |-> Nothing]
           d == Just(c, row)
<1>1. /\ SessionsTyped /\ RowsTyped /\ Refers(p) /\ Numbered(p) /\ HoldsOnly(p)
      /\ DraftsParent(p) /\ DraftsFunnels(p) /\ Written(p)
  BY DEF RecordsInv, RowsOK, SessionOK
<1>2. /\ pc[p] = "openContainer" /\ ~NumberTaken(t.number) /\ Goto(p, "insert")
      /\ Acquire(p, w) /\ Write(p, d, Nothing) /\ tx' = tx /\ started' = started
  BY WantsIs DEF OpenContainer, At
<1>3. t.kind = "open" /\ ~Patches(p) /\ c \in Containers /\ t.input.nature \in Natures
  BY <1>1, <1>2, PathOf DEF Refers, Inserts
<1>4. w \subseteq Locks
  BY <1>1, Types, LockTyped
<1>5. d \in [{c} -> OppRow] /\ DOMAIN d = {c} /\ d[c] = row
  <2>1. row \in OppRow
    BY <1>1, <1>3, Types, NothingTyped DEF OppRow
  <2> HIDE DEF row
  <2> QED BY <2>1, JustTyped, JustIs
<1>6. /\ opp' = opp /\ funnel' = funnel /\ DOMAIN draft' = Sessions /\ DraftTyped(p)'
      /\ \A q \in Sessions : q # p => draft'[q] = draft[q]
      /\ draft'[p].opps = Over(d, draft[p].opps)
      /\ draft'[p].funnels = Over(Nothing, draft[p].funnels)
  <2>1. {c} \subseteq Containers /\ {} \subseteq Funnels /\ Nothing \in [{} -> FunnelRow]
    BY <1>3, NothingTyped
  <2> HIDE DEF d
  <2> QED BY <1>1, <1>2, <1>5, <2>1, WriteIs
<1>7. /\ DOMAIN draft'[p].opps = {c} /\ draft'[p].opps[c].number = t.number
      /\ DOMAIN draft'[p].funnels = {}
  <2>1. DOMAIN draft[p].opps = {} /\ DOMAIN draft[p].funnels = {}
    BY <1>1, <1>2 DEF Written
  <2>2. DOMAIN Nothing = {}
    BY NothingTyped
  <2>3. d[c].number = t.number
    BY <1>5
  <2> DEFINE do == draft[p].opps
             df == draft[p].funnels
  <2> HIDE DEF d, do, df
  <2>4. DOMAIN Over(d, do) = {c} /\ Over(d, do)[c] = d[c] /\ DOMAIN Over(Nothing, df) = {}
    <3>1. DOMAIN d = {c} /\ DOMAIN do = {} /\ DOMAIN df = {}
      BY <1>5, <2>1 DEF do, df
    <3> HIDE DEF c
    <3>2. DOMAIN Over(d, do) = DOMAIN d \cup DOMAIN do /\ Over(d, do)[c] = d[c]
      BY <3>1, OverIs
    <3>3. DOMAIN Over(Nothing, df) = DOMAIN Nothing \cup DOMAIN df
      BY OverIs
    <3> QED BY <2>2, <3>1, <3>2, <3>3
  <2> QED BY <1>6, <2>3, <2>4 DEF do, df
<1> HIDE DEF d, w, row
<1>8. /\ Free(p, w) /\ held' \in [Sessions -> SUBSET Locks] /\ held'[p] = held[p] \cup w
      /\ \A q \in Sessions : q # p => held'[q] = held[q]
  BY <1>1, <1>2, <1>4, AcquireIs
<1>9. ASSUME pc'[p] = "insert" PROVE SessionOK(p)'
  <2>1. tx'[p] = t /\ Lock("number", t.number, "write") \in held'[p]
    BY <1>2, <1>8 DEF w
  <2>2. ~Patches(p)' /\ Inserts(p)'
    BY <1>3, <2>1 DEF Patches, Inserts
  <2>3. Refers(p)'
    <3>1. "insert" \in Path("open")
      BY DEF Path
    <3>2. /\ funnel[t.funnel].opp = None /\ ~Exists(c)
          /\ t.input.amount \in Amounts /\ t.input.currency \in Currencies
      BY <1>1, <1>3 DEF Refers, Inserts
    <3> HIDE DEF t
    <3> QED BY <1>3, <1>6, <1>9, <2>1, <2>2, <3>1, <3>2 DEF Refers, Exists
  <2>4. Numbered(p)'
    <3>1. Cardinality(Live)' = Cardinality(Live)
      BY <1>6 DEF Live, Exists
    <3>2. \A c2 \in Containers : opp'[c2].number # t.number
      BY <1>2, <1>6 DEF NumberTaken
    <3> QED BY <1>1, <1>3, <1>9, <2>1, <3>1, <3>2 DEF Numbered, NumberTaken
  <2>5. HoldsOnly(p)' /\ Holds(p)'
    <3>1. \A l \in held[p] : l = Lock("number", t.number, "write")
      <4>1. ~OwnsParent(p)
        BY <1>1, <1>3, InsertsLittle
      <4> QED BY <1>1, <1>2, <1>3, <4>1 DEF HoldsOnly
    <3>2. \A l \in held'[p] : l = Lock("number", t.number, "write")
      BY <1>8, <3>1 DEF w
    <3>3. HoldsOnly(p)'
      BY <1>3, <1>9, <2>1, <3>2 DEF HoldsOnly
    <3>4. Holds(p)'
      BY <1>3, <1>9, <2>1, <2>2 DEF Holds
    <3> QED BY <3>3, <3>4
  <2>6. DraftsParent(p)' /\ DraftsFunnels(p)'
    BY <1>3, <1>7, <2>1 DEF DraftsParent, DraftsFunnels
  <2>7. Written(p)' /\ SumStands(p)'
    BY <1>9, <2>2 DEF Written, SumStands
  <2> QED BY <2>3, <2>4, <2>5, <2>6, <2>7 DEF SessionOK
<1>10. tx' \in [Sessions -> Tx]
  BY <1>1, <1>2 DEF SessionsTyped
<1>11. "insert" \in ControlPoint
  BY DEF ControlPoint
<1> QED BY <1>2, <1>4, <1>6, <1>8, <1>9, <1>10, <1>11, StepIs

\* What stays of a session's references and number in a step that keeps the rows.
LEMMA RefersSteps ==
  ASSUME NEW p \in Sessions, SessionsTyped, Refers(p), Numbered(p),
         opp' = opp, funnel' = funnel,
         tx'[p].kind = tx[p].kind, tx'[p].opp = tx[p].opp, tx'[p].funnel = tx[p].funnel,
         tx'[p].input = tx[p].input, tx'[p].number = tx[p].number,
         held[p] \subseteq held'[p], pc'[p] \in Path(tx[p].kind),
         pc'[p] \in {"lockParent", "children", "lockChild"} => Patches(p),
         pc[p] # "openContainer"
  PROVE  Refers(p)' /\ Numbered(p)'
<1>1. /\ (Patches(p)' <=> Patches(p)) /\ (Inserts(p)' <=> Inserts(p))
  BY DEF Patches, Inserts
<1>2. /\ tx[p].kind = "none" => tx[p].opp = None
      /\ tx[p].kind # "none" => tx[p].opp \in Containers
      /\ tx[p].kind \in {"add", "edit", "container"} => opp[tx[p].opp].number # 0
      /\ tx[p].kind = "open" => opp[tx[p].opp].number = 0
      /\ Inserts(p) => ~Patches(p) /\ funnel[tx[p].funnel].opp = None
      /\ tx[p].kind = "edit" => funnel[tx[p].funnel].opp = tx[p].opp
      /\ tx[p].kind \in {"add", "open", "edit"} =>
           tx[p].input.amount \in Amounts /\ tx[p].input.currency \in Currencies
      /\ tx[p].kind # "none" => tx[p].input.nature \in Natures
  BY DEF Refers, Exists
<1>3. Refers(p)'
  BY <1>1, <1>2 DEF Refers, Exists
<1>4. Cardinality(Live)' = Cardinality(Live)
  BY DEF Live, Exists
<1>5. Numbered(p)'
  BY <1>4 DEF Numbered, NumberTaken
<1> QED BY <1>3, <1>5

LEMMA InsertFunnelKeeps ==
  ASSUME RecordsInv, NEW p \in Sessions, InsertFunnel(p)
  PROVE  RecordsInv'
<1> DEFINE t == tx[p]
           f == t.funnel
           w == {Lock("opp", t.opp, "share")}
           row == [opp |-> t.opp, ppvvc |-> t.ppvvc, nature |-> t.input.nature,
                   amount |-> t.input.amount, currency |-> t.input.currency]
<1>1. /\ SessionsTyped /\ RowsTyped /\ Refers(p) /\ Numbered(p) /\ HoldsOnly(p) /\ Holds(p)
      /\ DraftsParent(p) /\ DraftsFunnels(p) /\ Written(p)
  BY DEF RecordsInv, RowsOK, SessionOK
<1>2. /\ pc[p] = "insert" /\ Goto(p, "sum") /\ Acquire(p, w)
      /\ Write(p, Nothing, Just(f, row)) /\ tx' = tx /\ started' = started
  BY WantsIs DEF InsertFunnel, At
<1>3. /\ t.kind \in {"add", "open"} /\ ~Patches(p) /\ t.opp \in Containers /\ f \in Funnels
      /\ t.input.nature \in Natures /\ t.input.amount \in Amounts
      /\ t.input.currency \in Currencies
  BY <1>1, <1>2, PathOf, Types DEF Refers, Inserts
<1>4. w \subseteq Locks
  BY <1>3, LockTyped
<1>5. row \in FunnelRow /\ row.opp = t.opp
  BY <1>1, <1>3, Types DEF FunnelRow
<1> DEFINE do == draft[p].opps
           df == draft[p].funnels
<1> HIDE DEF row
<1>6. /\ opp' = opp /\ funnel' = funnel /\ DOMAIN draft' = Sessions /\ DraftTyped(p)'
      /\ \A q \in Sessions : q # p => draft'[q] = draft[q]
      /\ draft'[p].opps = Over(Nothing, do)
      /\ draft'[p].funnels = Over(Just(f, row), df)
  <2>1. {} \subseteq Containers /\ {f} \subseteq Funnels /\ Nothing \in [{} -> OppRow]
    BY <1>3, NothingTyped
  <2>2. Just(f, row) \in [{f} -> FunnelRow]
    BY <1>5, JustTyped
  <2> QED BY <1>1, <1>2, <2>1, <2>2, WriteIs
<1> HIDE DEF do, df
<1>7. /\ DOMAIN draft'[p].opps = DOMAIN do
      /\ \A c \in DOMAIN do : draft'[p].opps[c] = do[c]
      /\ DOMAIN draft'[p].funnels = {f} \cup DOMAIN df
      /\ draft'[p].funnels[f] = row
      /\ \A g \in DOMAIN df : g # f => draft'[p].funnels[g] = df[g]
  <2> HIDE DEF f
  <2>1. /\ DOMAIN Over(Nothing, do) = DOMAIN do
        /\ \A c \in DOMAIN do : Over(Nothing, do)[c] = do[c]
    BY NothingTyped DEF Over
  <2>2. /\ DOMAIN Over(Just(f, row), df) = {f} \cup DOMAIN df
        /\ Over(Just(f, row), df)[f] = row
        /\ \A g \in DOMAIN df : g # f => Over(Just(f, row), df)[g] = df[g]
    BY DEF Over, Just
  <2> QED BY <1>6, <2>1, <2>2
<1> HIDE DEF w, f
<1>8. /\ Free(p, w) /\ held' \in [Sessions -> SUBSET Locks] /\ held'[p] = held[p] \cup w
      /\ \A q \in Sessions : q # p => held'[q] = held[q]
  BY <1>1, <1>2, <1>4, AcquireIs
<1>9. ASSUME pc'[p] = "sum" PROVE SessionOK(p)'
  <2>1. tx'[p] = t
    BY <1>2
  <2>2. ~Patches(p)' /\ Inserts(p)' /\ Inserts(p) /\ t.kind \notin {"edit", "container"}
    BY <1>3, <2>1 DEF Patches, Inserts
  <2>3. Refers(p)' /\ Numbered(p)'
    <3>1. "sum" \in Path("add") /\ "sum" \in Path("open")
      BY DEF Path
    <3> QED BY <1>1, <1>2, <1>3, <1>6, <1>8, <1>9, <2>1, <3>1, RefersSteps
  <2>5. HoldsOnly(p)' /\ Holds(p)'
    <3>1. ASSUME NEW l \in held'[p]
          PROVE \/ l = Lock("number", t.number, "write") /\ t.kind = "open"
                \/ l = Lock("opp", t.opp, "share")
      <4>1. ~OwnsParent(p)
        BY <1>1, <2>2, InsertsLittle
      <4> QED BY <1>1, <1>8, <2>2, <4>1 DEF HoldsOnly, w
    <3>3. HoldsOnly(p)'
      BY <1>9, <2>1, <2>2, <3>1 DEF HoldsOnly
    <3>4. Holds(p)'
      BY <1>9, <2>1, <2>2 DEF Holds
    <3> QED BY <3>3, <3>4
  <2>6. DraftsParent(p)'
    <3>1. /\ DOMAIN do \subseteq {t.opp}
          /\ t.kind = "open" => t.opp \in DOMAIN do /\ do[t.opp].number = t.number
          /\ t.kind # "open" /\ t.opp \in DOMAIN do => OwnsParent(p)
      BY <1>1, <1>2 DEF DraftsParent, do
    <3>2. ~OwnsParent(p)
      BY <1>1, <2>2, InsertsLittle
    <3> QED BY <1>7, <2>1, <3>1, <3>2 DEF DraftsParent
  <2>8. DraftsFunnels(p)'
    <3>1. \A g \in DOMAIN df : df[g].opp = t.opp /\ g = f
      BY <1>1, <2>2 DEF DraftsFunnels, df, f
    <3> QED BY <1>5, <1>7, <2>1, <2>2, <3>1 DEF DraftsFunnels, f
  <2>7. Written(p)' /\ SumStands(p)'
    BY <1>7, <1>9, <2>1, <2>2 DEF Written, SumStands, f
  <2> QED BY <2>3, <2>5, <2>6, <2>7, <2>8 DEF SessionOK
<1>10. tx' \in [Sessions -> Tx]
  BY <1>1, <1>2 DEF SessionsTyped
<1>11. "sum" \in ControlPoint
  BY DEF ControlPoint
<1> QED BY <1>2, <1>4, <1>6, <1>8, <1>9, <1>10, <1>11, StepIs

LEMMA LockParentKeeps ==
  ASSUME RecordsInv, NEW p \in Sessions, LockParent(p)
  PROVE  RecordsInv'
<1> DEFINE t == tx[p]
           w == {Lock("opp", t.opp, "update")}
<1>1. /\ SessionsTyped /\ RowsTyped /\ Refers(p) /\ Numbered(p) /\ HoldsOnly(p) /\ Holds(p)
      /\ DraftsParent(p) /\ DraftsFunnels(p) /\ Written(p)
  BY DEF RecordsInv, RowsOK, SessionOK
<1>2. /\ pc[p] = "lockParent" /\ Goto(p, "children") /\ Acquire(p, w)
      /\ opp' = opp /\ funnel' = funnel /\ draft' = draft /\ tx' = tx /\ started' = started
  BY WantsIs DEF LockParent, At, rows
<1>3. t.kind \in {"edit", "container"} /\ Patches(p) /\ t.opp \in Containers
  BY <1>1, <1>2, PathOf, Types DEF Refers
<1>4. w \subseteq Locks
  BY <1>3, LockTyped
<1> HIDE DEF w
<1>8. /\ Free(p, w) /\ held' \in [Sessions -> SUBSET Locks] /\ held'[p] = held[p] \cup w
      /\ \A q \in Sessions : q # p => held'[q] = held[q]
  BY <1>1, <1>2, <1>4, AcquireIs
<1>9. ASSUME pc'[p] = "children" PROVE SessionOK(p)'
  <2>1. tx'[p] = t /\ draft'[p] = draft[p]
    BY <1>2
  <2>2. Patches(p)' /\ ~Inserts(p)' /\ Lock("opp", t.opp, "update") \in held'[p] /\ OwnsParent(p)'
    BY <1>3, <1>8, <2>1 DEF Patches, Inserts, OwnsParent, w
  <2>3. Refers(p)' /\ Numbered(p)'
    <3>1. "children" \in Path("edit") /\ "children" \in Path("container")
      BY DEF Path
    <3> QED BY <1>1, <1>2, <1>3, <1>8, <1>9, <2>1, <3>1, RefersSteps
  <2>5. HoldsOnly(p)' /\ Holds(p)'
    <3>1. ASSUME NEW l \in held'[p]
          PROVE  \/ l \in {Lock("opp", t.opp, "write"), Lock("opp", t.opp, "update")}
                 \/ \E g \in Funnels : l = Lock("funnel", g, "write") /\ funnel[g].opp = t.opp
      BY <1>1, <1>3, <1>8 DEF HoldsOnly, Inserts, w
    <3>3. HoldsOnly(p)'
      BY <1>2, <1>3, <2>1, <2>2, <3>1 DEF HoldsOnly
    <3>4. Holds(p)'
      BY <1>9, <2>1, <2>2 DEF Holds
    <3> QED BY <3>3, <3>4
  <2>6. DOMAIN draft[p].opps = {} /\ DOMAIN draft[p].funnels = {}
    BY <1>1, <1>2 DEF Written
  <2>7. DraftsParent(p)' /\ DraftsFunnels(p)' /\ Written(p)' /\ SumStands(p)'
    BY <1>3, <1>9, <2>1, <2>6 DEF DraftsParent, DraftsFunnels, Written, SumStands
  <2> QED BY <2>3, <2>5, <2>7 DEF SessionOK
<1>10. /\ tx' \in [Sessions -> Tx] /\ DOMAIN draft' = Sessions /\ DraftTyped(p)'
  BY <1>1, <1>2 DEF SessionsTyped, DraftTyped
<1>11. "children" \in ControlPoint
  BY DEF ControlPoint
<1> QED BY <1>2, <1>4, <1>8, <1>9, <1>10, <1>11, StepIs

\* The locks of an edit stay the ones it may hold.
LEMMA EditHolds ==
  ASSUME NEW p \in Sessions, HoldsOnly(p), funnel' = funnel,
         tx'[p].kind = tx[p].kind, tx'[p].opp = tx[p].opp, tx'[p].input = tx[p].input,
         tx[p].kind \in {"edit", "container"},
         NEW w, held'[p] = held[p] \cup w,
         \A l \in w :
           \/ l \in {Lock("opp", tx[p].opp, "write"), Lock("opp", tx[p].opp, "update")}
           \/ /\ \E f \in Funnels : l = Lock("funnel", f, "write") /\ funnel[f].opp = tx[p].opp
              /\ OwnsParent(p) \/ (tx[p].kind = "edit" /\ ~Patches(p))
  PROVE  HoldsOnly(p)' /\ (OwnsParent(p) => OwnsParent(p)')
<1>1. /\ (Patches(p)' <=> Patches(p)) /\ (Inserts(p)' <=> Inserts(p)) /\ ~Inserts(p)
      /\ OwnsParent(p) => OwnsParent(p)'
  BY DEF Patches, Inserts, OwnsParent
<1>2. ASSUME NEW l \in held'[p]
      PROVE
        \/ l \in {Lock("opp", tx[p].opp, "write"), Lock("opp", tx[p].opp, "update")}
        \/ /\ \E f \in Funnels : l = Lock("funnel", f, "write") /\ funnel[f].opp = tx[p].opp
           /\ OwnsParent(p) \/ (tx[p].kind = "edit" /\ ~Patches(p))
  BY <1>1 DEF HoldsOnly
<1> QED BY <1>1, <1>2 DEF HoldsOnly

\* The children an edit sees are those there are.
LEMMA EditSees ==
  ASSUME NEW p \in Sessions, RowsTyped, SessionsTyped, DraftsFunnels(p),
         tx[p].kind \in {"edit", "container"}
  PROVE  ChildrenSeen(p) = Children(tx[p].opp)
<1>1. \A f \in Funnels : FunnelsSeen(p)[f] =
        IF f \in DOMAIN draft[p].funnels THEN draft[p].funnels[f] ELSE funnel[f]
  BY SeenTyped
<1>2. \A f \in DOMAIN draft[p].funnels :
        draft[p].funnels[f].opp = tx[p].opp /\ funnel[f].opp = tx[p].opp
  BY DEF DraftsFunnels
<1>3. \A f \in Funnels : FunnelsSeen(p)[f].opp = tx[p].opp <=> funnel[f].opp = tx[p].opp
  BY <1>1, <1>2
<1> QED BY <1>3 DEF ChildrenSeen, Children

LEMMA SeeChildrenKeeps ==
  ASSUME RecordsInv, NEW p \in Sessions, SeeChildren(p)
  PROVE  RecordsInv'
<1> DEFINE t == tx[p]
           kids == ChildrenSeen(p)
           point == IF pc[p] = "children" THEN "lockChild" ELSE "cascadeChild"
<1>1. /\ SessionsTyped /\ RowsTyped /\ Refers(p) /\ Numbered(p) /\ HoldsOnly(p) /\ Holds(p)
      /\ DraftsParent(p) /\ DraftsFunnels(p) /\ Written(p)
  BY DEF RecordsInv, RowsOK, SessionOK
<1>2. /\ pc[p] \in {"children", "cascade"} /\ Goto(p, point)
      /\ tx' = [tx EXCEPT ![p].children = kids] /\ held' = held
      /\ opp' = opp /\ funnel' = funnel /\ draft' = draft /\ started' = started
  BY DEF SeeChildren, At, rows
<1>3. /\ t.kind \in {"edit", "container"} /\ (pc[p] = "cascade" => t.kind = "container")
      /\ t.opp \in Containers
  BY <1>1, <1>2, PathOf DEF Refers
<1>4. kids = Children(t.opp)
  BY <1>1, <1>3, EditSees
<1> HIDE DEF kids
<1>5. kids \in SUBSET Funnels
  BY <1>4 DEF Children
<1>6. /\ tx'[p] = [t EXCEPT !.children = kids] /\ \A q \in Sessions : q # p => tx'[q] = tx[q]
      /\ tx' \in [Sessions -> Tx]
  BY <1>1, <1>2, <1>5 DEF SessionsTyped, Tx
<1>7. /\ tx'[p].kind = t.kind /\ tx'[p].opp = t.opp /\ tx'[p].funnel = t.funnel
      /\ tx'[p].input = t.input /\ tx'[p].number = t.number /\ tx'[p].children = kids
  BY <1>1, <1>6, Types DEF Tx
<1>8. point \in {"lockChild", "cascadeChild"} /\ (point = "lockChild" <=> pc[p] = "children")
  BY <1>2
<1> HIDE DEF point
<1>9. ASSUME pc'[p] = point PROVE SessionOK(p)'
  <2>1. Patches(p)' <=> Patches(p)
    BY <1>7 DEF Patches
  <2>2. Refers(p)' /\ Numbered(p)'
    <3>1. /\ "lockChild" \in Path("edit") /\ "lockChild" \in Path("container")
          /\ "cascadeChild" \in Path("container")
      BY DEF Path
    <3>2. pc'[p] \in Path(t.kind)
      BY <1>2, <1>3, <1>8, <1>9, <3>1
    <3>3. pc[p] = "children" => Patches(p)
      BY <1>1 DEF Refers
    <3> QED BY <1>1, <1>2, <1>7, <1>8, <1>9, <3>2, <3>3, RefersSteps
  <2>3. HoldsOnly(p)' /\ (OwnsParent(p) => OwnsParent(p)')
    <3> DEFINE w == {}
    <3>1. held'[p] = held[p] \cup w /\ \A l \in w : FALSE
      BY <1>2
    <3> HIDE DEF w
    <3> QED BY <1>1, <1>2, <1>3, <1>7, <3>1, EditHolds
  <2>4. Holds(p)'
    <3>1. Patches(p) => Lock("opp", t.opp, "update") \in held[p]
      BY <1>1, <1>2 DEF Holds
    <3>2. pc[p] = "cascade" => OwnsParent(p)
      BY <1>1 DEF Holds
    <3> QED BY <1>2, <1>7, <1>8, <1>9, <2>1, <2>3, <3>1, <3>2 DEF Holds
  <2>5. DraftsParent(p)'
    <3>1. t.kind # "open" /\ OwnsParent(p)' <=> t.kind # "open" /\ OwnsParent(p)
      BY <1>2, <1>7 DEF OwnsParent
    <3> QED BY <1>1, <1>2, <1>3, <1>7, <3>1 DEF DraftsParent, Patched
  <2>6. DraftsFunnels(p)'
    BY <1>1, <1>2, <1>3, <1>7 DEF DraftsFunnels, Owns, Patched, Inserts
  <2>7. Written(p)' /\ SumStands(p)'
    <3>1. Children(t.opp)' = Children(t.opp)
      BY <1>2 DEF Children
    <3>2. /\ pc[p] = "children" => DOMAIN draft[p].opps = {} /\ DOMAIN draft[p].funnels = {}
          /\ Patches(p) /\ pc[p] = "cascade" =>
               t.opp \in DOMAIN draft[p].opps /\ Children(t.opp) \subseteq DOMAIN draft[p].funnels
      BY <1>1 DEF Written
    <3>3. Children(tx[p].opp)' = kids
      BY <1>2, <1>4, <1>7 DEF Children
    <3> QED BY <1>2, <1>4, <1>7, <1>8, <1>9, <2>1, <3>2, <3>3 DEF Written, SumStands
  <2> QED BY <2>2, <2>3, <2>4, <2>5, <2>6, <2>7 DEF SessionOK
<1>10. DOMAIN draft' = Sessions /\ DraftTyped(p)'
  BY <1>1, <1>2 DEF SessionsTyped, DraftTyped
<1>11. point \in ControlPoint
  BY <1>8 DEF ControlPoint
<1>12. {} \subseteq Locks /\ Free(p, {}) /\ held'[p] = held[p] \cup {}
       /\ held' \in [Sessions -> SUBSET Locks]
  BY <1>1, <1>2 DEF Free, Blocks, SessionsTyped
<1>13. \A q \in Sessions : q # p => held'[q] = held[q] /\ draft'[q] = draft[q]
  BY <1>2
<1> QED BY <1>2, <1>6, <1>7, <1>9, <1>10, <1>11, <1>12, <1>13, StepIs

LEMMA LockChildKeeps ==
  ASSUME RecordsInv, NEW p \in Sessions, LockChild(p)
  PROVE  RecordsInv'
<1> DEFINE t == tx[p]
<1>1. /\ SessionsTyped /\ RowsTyped /\ Refers(p) /\ Numbered(p) /\ HoldsOnly(p) /\ Holds(p)
      /\ DraftsParent(p) /\ DraftsFunnels(p) /\ Written(p)
  BY DEF RecordsInv, RowsOK, SessionOK
<1>2. PICK f \in Unlocked(p) : Acquire(p, {Lock("funnel", f, "write")})
  BY DEF LockChild
<1> DEFINE w == {Lock("funnel", f, "write")}
<1>3. /\ pc[p] \in {"lockChild", "cascadeChild"} /\ pc' = pc /\ tx' = tx
      /\ opp' = opp /\ funnel' = funnel /\ draft' = draft /\ started' = started
  BY DEF LockChild, rows
<1>4. /\ t.kind \in {"edit", "container"} /\ t.opp \in Containers
      /\ f \in Funnels /\ funnel[f].opp = t.opp
  <2>1. t.children = Children(t.opp)
    BY <1>1, <1>3 DEF Written
  <2>2. f \in Children(t.opp)
    BY <2>1 DEF Unlocked
  <2> QED BY <1>1, <1>3, <2>2, PathOf DEF Refers, Children
<1>5. OwnsParent(p)
  BY <1>1, <1>3 DEF Holds, Refers, OwnsParent
<1>6. w \subseteq Locks
  BY <1>4, LockTyped
<1>8. /\ Free(p, w) /\ held' \in [Sessions -> SUBSET Locks] /\ held'[p] = held[p] \cup w
      /\ \A q \in Sessions : q # p => held'[q] = held[q]
  BY <1>1, <1>2, <1>6, AcquireIs
<1>9. SessionOK(p)'
  <2>1. tx'[p] = t /\ draft'[p] = draft[p] /\ pc'[p] = pc[p]
    BY <1>3
  <2>2. (Patches(p)' <=> Patches(p)) /\ (Inserts(p)' <=> Inserts(p))
    BY <2>1 DEF Patches, Inserts
  <2>3. Refers(p)' /\ Numbered(p)'
    BY <1>1, <1>3, <1>8, <2>1, RefersSteps DEF Refers
  <2>4. HoldsOnly(p)' /\ OwnsParent(p)'
    <3>1. \A l \in w : \E g \in Funnels : l = Lock("funnel", g, "write") /\ funnel[g].opp = t.opp
      BY <1>4
    <3> HIDE DEF w
    <3> QED BY <1>1, <1>3, <1>4, <1>5, <1>8, <2>1, <3>1, EditHolds
  <2>5. Holds(p)'
    BY <1>1, <1>3, <1>8, <2>1, <2>2, <2>4 DEF Holds
  <2>6. DraftsParent(p)'
    BY <1>1, <1>3, <1>4, <2>1, <2>4 DEF DraftsParent, Patched
  <2>7. DraftsFunnels(p)'
    <3>1. \A g : Owns(p, g) => Owns(p, g)'
      BY <1>8 DEF Owns
    <3> QED BY <1>1, <1>3, <2>1, <2>2, <3>1 DEF DraftsFunnels, Patched
  <2>8. Written(p)' /\ SumStands(p)'
    BY <1>1, <1>3, <2>1, <2>2 DEF Written, SumStands, Children
  <2> QED BY <2>3, <2>4, <2>5, <2>6, <2>7, <2>8 DEF SessionOK
<1>10. /\ tx' \in [Sessions -> Tx] /\ DOMAIN draft' = Sessions /\ DraftTyped(p)'
       /\ Goto(p, pc[p]) /\ pc[p] \in ControlPoint
  BY <1>1, <1>3 DEF SessionsTyped, DraftTyped, Goto
<1> HIDE DEF w
<1> QED BY <1>3, <1>6, <1>8, <1>9, <1>10, StepIs

LEMMA SyncKeeps ==
  ASSUME RecordsInv, NEW p \in Sessions, Sync(p)
  PROVE  RecordsInv'
<1> DEFINE t == tx[p]
           c == t.opp
           row == [OppsSeen(p)[c] EXCEPT !.ppvvc = Patched(p, @)]
           kids == SyncedChildren(p)
           point == IF t.kind = "edit" THEN "update" ELSE "parent"
           do == draft[p].opps
           df == draft[p].funnels
<1>1. /\ SessionsTyped /\ RowsTyped /\ Refers(p) /\ Numbered(p) /\ HoldsOnly(p) /\ Holds(p)
      /\ DraftsParent(p) /\ DraftsFunnels(p) /\ Written(p)
  BY DEF RecordsInv, RowsOK, SessionOK
<1>2. /\ pc[p] = "lockChild" /\ Unlocked(p) = {} /\ Goto(p, point)
      /\ Write(p, Just(c, row), kids) /\ held' = held /\ tx' = tx /\ started' = started
  BY DEF Sync, At
<1>3. t.kind \in {"edit", "container"} /\ Patches(p) /\ c \in Containers
  BY <1>1, <1>2, PathOf DEF Refers
<1>4. /\ Lock("opp", c, "update") \in held[p] /\ OwnsParent(p)
      /\ DOMAIN do = {} /\ DOMAIN df = {} /\ t.children = Children(c)
  BY <1>1, <1>2, <1>3 DEF Holds, OwnsParent, Written
<1>5. \A f \in Children(c) : f \in Funnels /\ funnel[f].opp = c /\ Owns(p, f)
  BY <1>2, <1>4 DEF Unlocked, Children, Owns, Lock
<1>6. /\ OppsSeen(p)[c] = opp[c] /\ \A f \in Funnels : FunnelsSeen(p)[f] = funnel[f]
  BY <1>1, <1>3, <1>4, SeenTyped
<1>7. /\ row \in OppRow /\ row.ppvvc = Patched(p, opp[c].ppvvc)
      /\ row.number = opp[c].number /\ row.totals = opp[c].totals
  <2>1. opp[c] \in OppRow /\ opp[c].ppvvc \in Ppvvc
    BY <1>1, <1>3, RowTypes
  <2>2. Patched(p, opp[c].ppvvc) \in Ppvvc
    BY <1>1, <2>1, PatchedTyped
  <2>3. row = [opp[c] EXCEPT !.ppvvc = Patched(p, opp[c].ppvvc)]
    BY <1>6
  <2> QED BY <2>1, <2>2, <2>3 DEF OppRow
<1>8. /\ kids \in [Children(c) -> FunnelRow]
      /\ \A f \in Children(c) : /\ kids[f].opp = c
                                /\ kids[f].ppvvc = Patched(p, funnel[f].ppvvc)
                                /\ kids[f].amount = funnel[f].amount
                                /\ kids[f].currency = funnel[f].currency
  <2>1. kids = [f \in Children(c) |->
                 [FunnelsSeen(p)[f] EXCEPT !.ppvvc = Patched(p, @)]]
    BY <1>4 DEF SyncedChildren
  <2>2. ASSUME NEW f \in Children(c)
        PROVE  /\ kids[f] \in FunnelRow /\ kids[f].opp = c
               /\ kids[f].ppvvc = Patched(p, funnel[f].ppvvc)
               /\ kids[f].amount = funnel[f].amount
               /\ kids[f].currency = funnel[f].currency
    <3>1. funnel[f] \in FunnelRow /\ funnel[f].ppvvc \in Ppvvc /\ funnel[f].opp = c
      BY <1>1, <1>5, RowTypes
    <3>2. Patched(p, funnel[f].ppvvc) \in Ppvvc
      BY <1>1, <3>1, PatchedTyped
    <3>3. kids[f] = [funnel[f] EXCEPT !.ppvvc = Patched(p, funnel[f].ppvvc)]
      BY <1>5, <1>6, <2>1
    <3> HIDE DEF kids
    <3> QED BY <3>1, <3>2, <3>3 DEF FunnelRow
  <2>3. DOMAIN kids = Children(c) /\ kids = [f \in DOMAIN kids |-> kids[f]]
    BY <2>1
  <2> HIDE DEF kids
  <2> QED BY <2>2, <2>3
<1> HIDE DEF row, kids
<1>9. /\ opp' = opp /\ funnel' = funnel /\ DOMAIN draft' = Sessions /\ DraftTyped(p)'
      /\ \A q \in Sessions : q # p => draft'[q] = draft[q]
      /\ draft'[p].opps = Over(Just(c, row), do)
      /\ draft'[p].funnels = Over(kids, df)
  <2>1. {c} \subseteq Containers /\ Children(c) \subseteq Funnels
    BY <1>3 DEF Children
  <2>2. Just(c, row) \in [{c} -> OppRow]
    BY <1>7, JustTyped
  <2> QED BY <1>1, <1>2, <1>8, <2>1, <2>2, WriteIs
<1> HIDE DEF do, df
<1>10. /\ DOMAIN draft'[p].opps = {c} /\ draft'[p].opps[c] = row
       /\ DOMAIN draft'[p].funnels = Children(c)
       /\ \A f \in Children(c) : draft'[p].funnels[f] = kids[f]
  <2>1. DOMAIN draft'[p].opps = {c} \cup DOMAIN do /\ draft'[p].opps[c] = row
    <3> HIDE DEF c
    <3> QED BY <1>9 DEF Over, Just
  <2>2. DOMAIN kids = Children(c)
    BY <1>8
  <2>3. /\ DOMAIN Over(kids, df) = DOMAIN kids
        /\ \A f \in DOMAIN kids : Over(kids, df)[f] = kids[f]
    BY <1>4 DEF Over
  <2> QED BY <1>4, <1>9, <2>1, <2>2, <2>3
<1>11. point \in {"update", "parent"} /\ (point = "update" <=> t.kind = "edit")
  OBVIOUS
<1> HIDE DEF point
<1>12. ASSUME pc'[p] = point PROVE SessionOK(p)'
  <2>1. tx'[p] = t /\ held'[p] = held[p]
    BY <1>2
  <2>2. (Patches(p)' <=> Patches(p)) /\ ~Inserts(p)' /\ OwnsParent(p)'
    BY <1>3, <1>4, <2>1 DEF Patches, Inserts, OwnsParent
  <2>3. Refers(p)' /\ Numbered(p)'
    <3>1. "update" \in Path("edit") /\ "parent" \in Path("container")
      BY DEF Path
    <3>2. pc'[p] \in Path(t.kind)
      BY <1>3, <1>11, <1>12, <3>1
    <3> QED BY <1>1, <1>2, <1>9, <1>11, <1>12, <2>1, <3>2, RefersSteps
  <2>4. HoldsOnly(p)'
    <3> DEFINE w == {}
    <3>1. held'[p] = held[p] \cup w /\ \A l \in w : FALSE
      BY <2>1
    <3> HIDE DEF w
    <3> QED BY <1>1, <1>3, <1>9, <2>1, <3>1, EditHolds
  <2>5. Holds(p)'
    BY <1>4, <1>11, <1>12, <2>1 DEF Holds
  <2>6. DraftsParent(p)'
    BY <1>3, <1>7, <1>9, <1>10, <2>1, <2>2 DEF DraftsParent, Patched
  <2>7. DraftsFunnels(p)'
    <3>1. \A f \in Children(c) : Owns(p, f)' /\ funnel'[f].opp = c
      BY <1>5, <1>9, <2>1 DEF Owns
    <3> QED BY <1>8, <1>9, <1>10, <2>1, <2>2, <3>1 DEF DraftsFunnels, Patched
  <2>8. Written(p)' /\ SumStands(p)'
    BY <1>9, <1>10, <1>11, <1>12, <2>1 DEF Written, SumStands, Children
  <2> QED BY <2>3, <2>4, <2>5, <2>6, <2>7, <2>8 DEF SessionOK
<1>13. point \in ControlPoint
  BY <1>11 DEF ControlPoint
<1>14. {} \subseteq Locks /\ Free(p, {}) /\ held'[p] = held[p] \cup {}
       /\ held' \in [Sessions -> SUBSET Locks] /\ tx' \in [Sessions -> Tx]
  BY <1>1, <1>2 DEF Free, Blocks, SessionsTyped
<1>15. \A q \in Sessions : q # p => held'[q] = held[q] /\ tx'[q] = tx[q]
  BY <1>2
<1>16. tx'[p] = t
  BY <1>2
<1> QED BY <1>2, <1>9, <1>12, <1>13, <1>14, <1>15, <1>16, StepIs

LEMMA UpdateFunnelKeeps ==
  ASSUME RecordsInv, NEW p \in Sessions, UpdateFunnel(p)
  PROVE  RecordsInv'
<1> DEFINE t == tx[p]
           c == t.opp
           f == t.funnel
           w == {Lock("funnel", f, "write")}
           row == Edited(p, FunnelsSeen(p)[f])
           do == draft[p].opps
           df == draft[p].funnels
<1>1. /\ SessionsTyped /\ RowsTyped /\ Refers(p) /\ Numbered(p) /\ HoldsOnly(p) /\ Holds(p)
      /\ DraftsParent(p) /\ DraftsFunnels(p) /\ Written(p)
  BY DEF RecordsInv, RowsOK, SessionOK
<1>2. /\ pc[p] = "update" /\ Goto(p, "sum") /\ Acquire(p, w)
      /\ Write(p, Nothing, Just(f, row)) /\ tx' = tx /\ started' = started
  BY WantsIs DEF UpdateFunnel, At
<1>3. /\ t.kind = "edit" /\ c \in Containers /\ f \in Funnels /\ funnel[f].opp = c
      /\ t.input.nature \in Natures /\ t.input.amount \in Amounts
      /\ t.input.currency \in Currencies
  BY <1>1, <1>2, PathOf, Types DEF Refers
<1>4. w \subseteq Locks
  BY <1>3, LockTyped
<1>5. /\ Patches(p) => /\ OwnsParent(p) /\ Lock("opp", c, "update") \in held[p]
                       /\ c \in DOMAIN do /\ Children(c) \subseteq DOMAIN df
  BY <1>1, <1>2 DEF Holds, OwnsParent, Written
<1>6. /\ row \in FunnelRow /\ row.opp = c /\ row.ppvvc = Patched(p, funnel[f].ppvvc)
  <2> DEFINE old == FunnelsSeen(p)[f]
  <2>1. old \in FunnelRow
    BY <1>1, <1>3, SeenTypes
  <2>2. f \in DOMAIN df => old = df[f] /\ df[f].opp = c
                             /\ df[f].ppvvc = Patched(p, funnel[f].ppvvc)
    BY <1>1, <1>3, SeenTyped DEF DraftsFunnels
  <2>3. f \notin DOMAIN df => old = funnel[f] /\ Patched(p, funnel[f].ppvvc) = funnel[f].ppvvc
    <3>1. f \notin DOMAIN df => old = funnel[f]
      BY <1>1, <1>3, SeenTyped
    <3>2. f \notin DOMAIN df => ~Patches(p)
      BY <1>3, <1>5 DEF Children
    <3>3. funnel[f].ppvvc \in Ppvvc
      BY <1>1, <1>3, RowTypes
    <3> QED BY <1>1, <3>1, <3>2, <3>3, PatchedTyped
  <2>4. old.opp = c /\ old.ppvvc = Patched(p, funnel[f].ppvvc)
    BY <1>3, <2>2, <2>3
  <2>5. row = [old EXCEPT !.nature = t.input.nature, !.amount = t.input.amount,
                          !.currency = t.input.currency]
    BY DEF Edited
  <2> HIDE DEF old, row
  <2> QED BY <1>3, <2>1, <2>4, <2>5 DEF FunnelRow
<1> HIDE DEF row
<1>9. /\ opp' = opp /\ funnel' = funnel /\ DOMAIN draft' = Sessions /\ DraftTyped(p)'
      /\ \A q \in Sessions : q # p => draft'[q] = draft[q]
      /\ draft'[p].opps = Over(Nothing, do)
      /\ draft'[p].funnels = Over(Just(f, row), df)
  <2>1. {} \subseteq Containers /\ {f} \subseteq Funnels /\ Nothing \in [{} -> OppRow]
    BY <1>3, NothingTyped
  <2>2. Just(f, row) \in [{f} -> FunnelRow]
    BY <1>6, JustTyped
  <2> QED BY <1>1, <1>2, <2>1, <2>2, WriteIs
<1> HIDE DEF do, df
<1>10. /\ DOMAIN draft'[p].opps = DOMAIN do
       /\ \A x \in DOMAIN do : draft'[p].opps[x] = do[x]
       /\ DOMAIN draft'[p].funnels = {f} \cup DOMAIN df
       /\ draft'[p].funnels[f] = row
       /\ \A g \in DOMAIN df : g # f => draft'[p].funnels[g] = df[g]
  <2> HIDE DEF f
  <2>1. /\ DOMAIN Over(Nothing, do) = DOMAIN do
        /\ \A x \in DOMAIN do : Over(Nothing, do)[x] = do[x]
    BY NothingTyped DEF Over
  <2>2. /\ DOMAIN Over(Just(f, row), df) = {f} \cup DOMAIN df
        /\ Over(Just(f, row), df)[f] = row
        /\ \A g \in DOMAIN df : g # f => Over(Just(f, row), df)[g] = df[g]
    BY DEF Over, Just
  <2> QED BY <1>9, <2>1, <2>2
<1> HIDE DEF w
<1>11. /\ Free(p, w) /\ held' \in [Sessions -> SUBSET Locks] /\ held'[p] = held[p] \cup w
       /\ \A q \in Sessions : q # p => held'[q] = held[q]
  BY <1>1, <1>2, <1>4, AcquireIs
<1>12. ASSUME pc'[p] = "sum" PROVE SessionOK(p)'
  <2>1. tx'[p] = t /\ held[p] \subseteq held'[p] /\ Lock("funnel", f, "write") \in held'[p]
    BY <1>2, <1>11 DEF w
  <2>2. /\ (Patches(p)' <=> Patches(p)) /\ ~Inserts(p)' /\ (OwnsParent(p) => OwnsParent(p)')
        /\ \A g : Owns(p, g) => Owns(p, g)'
    BY <1>3, <2>1 DEF Patches, Inserts, OwnsParent, Owns
  <2>3. Refers(p)' /\ Numbered(p)'
    <3>1. "sum" \in Path("edit")
      BY DEF Path
    <3> QED BY <1>1, <1>2, <1>3, <1>9, <1>12, <2>1, <3>1, RefersSteps
  <2>4. HoldsOnly(p)'
    <3>1. \A l \in w : /\ \E g \in Funnels : l = Lock("funnel", g, "write") /\ funnel[g].opp = c
                       /\ OwnsParent(p) \/ (t.kind = "edit" /\ ~Patches(p))
      BY <1>3, <1>5 DEF w
    <3> QED BY <1>1, <1>3, <1>9, <1>11, <2>1, <3>1, EditHolds
  <2>5. Holds(p)'
    BY <1>5, <1>12, <2>1, <2>2 DEF Holds, Owns
  <2>6. DraftsParent(p)'
    <3>1. /\ DOMAIN do \subseteq {c}
          /\ c \in DOMAIN do =>
               /\ OwnsParent(p)
               /\ do[c].ppvvc = Patched(p, opp[c].ppvvc)
               /\ do[c].number = opp[c].number /\ do[c].totals = opp[c].totals
      BY <1>1, <1>3 DEF DraftsParent, do
    <3> QED BY <1>3, <1>9, <1>10, <2>1, <2>2, <3>1 DEF DraftsParent, Patched
  <2>7. DraftsFunnels(p)'
    <3>1. \A g \in DOMAIN df : /\ df[g].opp = c /\ Owns(p, g) /\ funnel[g].opp = c
                               /\ df[g].ppvvc = Patched(p, funnel[g].ppvvc)
      BY <1>1, <1>3 DEF DraftsFunnels, df
    <3>2. ASSUME NEW g \in DOMAIN draft'[p].funnels
          PROVE  /\ draft'[p].funnels[g].opp = c /\ Owns(p, g)' /\ funnel[g].opp = c
                 /\ draft'[p].funnels[g].ppvvc = Patched(p, funnel[g].ppvvc)
      <4> HIDE DEF f, c
      <4>1. CASE g = f
        <5>1. Owns(p, g)'
          BY <2>1, <4>1 DEF Owns
        <5>2. funnel[g].opp = c /\ draft'[p].funnels[g] = row
          BY <1>3, <1>10, <4>1
        <5> QED BY <1>6, <4>1, <5>1, <5>2
      <4>2. CASE g # f
        BY <1>10, <2>2, <3>1, <4>2
      <4> QED BY <4>1, <4>2
    <3> QED BY <1>3, <1>9, <2>1, <2>2, <3>2 DEF DraftsFunnels, Patched
  <2>8. Written(p)' /\ SumStands(p)'
    BY <1>5, <1>9, <1>10, <1>12, <2>1, <2>2 DEF Written, SumStands, Children
  <2> QED BY <2>3, <2>4, <2>5, <2>6, <2>7, <2>8 DEF SessionOK
<1>13. "sum" \in ControlPoint
  BY DEF ControlPoint
<1>14. tx' \in [Sessions -> Tx]
  BY <1>1, <1>2 DEF SessionsTyped
<1> QED BY <1>2, <1>4, <1>9, <1>11, <1>12, <1>13, <1>14, StepIs

LEMMA SumTotalsKeeps ==
  ASSUME RecordsInv, NEW p \in Sessions, SumTotals(p)
  PROVE  RecordsInv'
<1> DEFINE t == tx[p]
           sum == TotalsOf(t.opp, FunnelsSeen(p))
<1>1. /\ SessionsTyped /\ RowsTyped /\ Refers(p) /\ Numbered(p) /\ HoldsOnly(p) /\ Holds(p)
      /\ DraftsParent(p) /\ DraftsFunnels(p) /\ Written(p)
  BY DEF RecordsInv, RowsOK, SessionOK
<1>2. /\ pc[p] = "sum" /\ Goto(p, "total") /\ tx' = [tx EXCEPT ![p].totals = sum]
      /\ held' = held /\ opp' = opp /\ funnel' = funnel /\ draft' = draft
      /\ started' = started
  BY DEF SumTotals, Summed, At, rows
<1>3. t.kind \in {"add", "open", "edit"}
  BY <1>1, <1>2, PathOf
<1>4. FunnelsSeen(p)' = FunnelsSeen(p)
  BY <1>2 DEF FunnelsSeen
<1>5. sum \in Totals
  BY <1>1, SeenTyped, TotalsTyped
<1> HIDE DEF sum
<1>6. /\ tx'[p] = [t EXCEPT !.totals = sum] /\ \A q \in Sessions : q # p => tx'[q] = tx[q]
      /\ tx' \in [Sessions -> Tx]
  BY <1>1, <1>2, <1>5 DEF SessionsTyped, Tx
<1>7. /\ tx'[p].kind = t.kind /\ tx'[p].opp = t.opp /\ tx'[p].funnel = t.funnel
      /\ tx'[p].input = t.input /\ tx'[p].number = t.number /\ tx'[p].totals = sum
  BY <1>1, <1>6, Types DEF Tx
<1>8. ASSUME pc'[p] = "total" PROVE SessionOK(p)'
  <2>1. /\ (Patches(p)' <=> Patches(p)) /\ (Inserts(p)' <=> Inserts(p))
        /\ (OwnsParent(p)' <=> OwnsParent(p)) /\ \A g : Owns(p, g)' <=> Owns(p, g)
    BY <1>2, <1>7 DEF Patches, Inserts, OwnsParent, Owns
  <2>2. Refers(p)' /\ Numbered(p)'
    <3>1. "total" \in Path("add") /\ "total" \in Path("open") /\ "total" \in Path("edit")
      BY DEF Path
    <3> QED BY <1>1, <1>2, <1>3, <1>7, <1>8, <3>1, RefersSteps
  <2>3. HoldsOnly(p)' /\ Holds(p)'
    BY <1>1, <1>2, <1>7, <1>8, <2>1 DEF HoldsOnly, Holds
  <2>4. DraftsParent(p)' /\ DraftsFunnels(p)'
    BY <1>1, <1>2, <1>7, <1>8, <2>1 DEF DraftsParent, DraftsFunnels, Patched
  <2>5. Written(p)'
    BY <1>1, <1>2, <1>7, <1>8, <2>1 DEF Written, Children
  <2>6. SumStands(p)'
    BY <1>4, <1>7 DEF SumStands, sum
  <2> QED BY <2>2, <2>3, <2>4, <2>5, <2>6 DEF SessionOK
<1>10. DOMAIN draft' = Sessions /\ DraftTyped(p)'
  BY <1>1, <1>2 DEF SessionsTyped, DraftTyped
<1>11. "total" \in ControlPoint
  BY DEF ControlPoint
<1>12. {} \subseteq Locks /\ Free(p, {}) /\ held'[p] = held[p] \cup {}
       /\ held' \in [Sessions -> SUBSET Locks]
  BY <1>1, <1>2 DEF Free, Blocks, SessionsTyped
<1>13. \A q \in Sessions : q # p => held'[q] = held[q] /\ draft'[q] = draft[q]
  BY <1>2
<1> QED BY <1>2, <1>6, <1>7, <1>8, <1>10, <1>11, <1>12, <1>13, StepIs

LEMMA UpdateParentKeeps ==
  ASSUME RecordsInv, NEW p \in Sessions, UpdateParent(p)
  PROVE  RecordsInv'
<1> DEFINE t == tx[p]
           c == t.opp
           w == {Lock("opp", c, "write")}
           row == [OppsSeen(p)[c] EXCEPT !.nature = t.input.nature]
           do == draft[p].opps
           df == draft[p].funnels
<1>1. /\ SessionsTyped /\ RowsTyped /\ Refers(p) /\ Numbered(p) /\ HoldsOnly(p) /\ Holds(p)
      /\ DraftsParent(p) /\ DraftsFunnels(p) /\ Written(p)
  BY DEF RecordsInv, RowsOK, SessionOK
<1>2. /\ pc[p] = "parent" /\ Goto(p, "cascade") /\ Acquire(p, w)
      /\ Write(p, Just(c, row), Nothing) /\ tx' = tx /\ started' = started
  BY WantsIs DEF UpdateParent, At
<1>3. t.kind = "container" /\ c \in Containers /\ t.input.nature \in Natures
  BY <1>1, <1>2, PathOf DEF Refers
<1>4. w \subseteq Locks
  BY <1>3, LockTyped
<1>5. /\ Patches(p) => /\ Lock("opp", c, "update") \in held[p]
                       /\ c \in DOMAIN do /\ Children(c) \subseteq DOMAIN df
  BY <1>1, <1>2 DEF Holds, Written
<1>6. /\ row \in OppRow /\ row.ppvvc = Patched(p, opp[c].ppvvc)
      /\ row.number = opp[c].number /\ row.totals = opp[c].totals
  <2> DEFINE old == OppsSeen(p)[c]
  <2>1. old \in OppRow
    BY <1>1, <1>3, SeenTypes
  <2>2. c \in DOMAIN do => /\ old = do[c] /\ do[c].ppvvc = Patched(p, opp[c].ppvvc)
                           /\ do[c].number = opp[c].number /\ do[c].totals = opp[c].totals
    BY <1>1, <1>3, SeenTyped DEF DraftsParent
  <2>3. c \notin DOMAIN do => old = opp[c] /\ Patched(p, opp[c].ppvvc) = opp[c].ppvvc
    <3>1. c \notin DOMAIN do => old = opp[c]
      BY <1>1, <1>3, SeenTyped
    <3>2. opp[c].ppvvc \in Ppvvc
      BY <1>1, <1>3, RowTypes
    <3> QED BY <1>1, <1>5, <3>1, <3>2, PatchedTyped
  <2>4. /\ old.ppvvc = Patched(p, opp[c].ppvvc)
        /\ old.number = opp[c].number /\ old.totals = opp[c].totals
    BY <2>2, <2>3
  <2>5. row = [old EXCEPT !.nature = t.input.nature]
    OBVIOUS
  <2> HIDE DEF old, row
  <2> QED BY <1>3, <2>1, <2>4, <2>5 DEF OppRow
<1> HIDE DEF row
<1>9. /\ opp' = opp /\ funnel' = funnel /\ DOMAIN draft' = Sessions /\ DraftTyped(p)'
      /\ \A q \in Sessions : q # p => draft'[q] = draft[q]
      /\ draft'[p].opps = Over(Just(c, row), do)
      /\ draft'[p].funnels = Over(Nothing, df)
  <2>1. {} \subseteq Funnels /\ {c} \subseteq Containers /\ Nothing \in [{} -> FunnelRow]
    BY <1>3, NothingTyped
  <2>2. Just(c, row) \in [{c} -> OppRow]
    BY <1>6, JustTyped
  <2> QED BY <1>1, <1>2, <2>1, <2>2, WriteIs
<1> HIDE DEF do, df
<1>10. /\ DOMAIN draft'[p].opps = {c} /\ draft'[p].opps[c] = row
       /\ DOMAIN draft'[p].funnels = DOMAIN df
       /\ \A g \in DOMAIN df : draft'[p].funnels[g] = df[g]
  <2>1. DOMAIN do \subseteq {c}
    BY <1>1 DEF DraftsParent, do
  <2> HIDE DEF c
  <2>2. /\ DOMAIN Over(Just(c, row), do) = {c} \cup DOMAIN do
        /\ Over(Just(c, row), do)[c] = row
    BY DEF Over, Just
  <2>3. /\ DOMAIN Over(Nothing, df) = DOMAIN df
        /\ \A g \in DOMAIN df : Over(Nothing, df)[g] = df[g]
    BY NothingTyped DEF Over
  <2> QED BY <1>9, <2>1, <2>2, <2>3
<1> HIDE DEF w
<1>11. /\ Free(p, w) /\ held' \in [Sessions -> SUBSET Locks] /\ held'[p] = held[p] \cup w
       /\ \A q \in Sessions : q # p => held'[q] = held[q]
  BY <1>1, <1>2, <1>4, AcquireIs
<1>12. ASSUME pc'[p] = "cascade" PROVE SessionOK(p)'
  <2>1. tx'[p] = t /\ held[p] \subseteq held'[p] /\ Lock("opp", c, "write") \in held'[p]
    BY <1>2, <1>11 DEF w
  <2>2. /\ (Patches(p)' <=> Patches(p)) /\ ~Inserts(p)' /\ OwnsParent(p)'
        /\ \A g : Owns(p, g) => Owns(p, g)'
    BY <1>3, <2>1 DEF Patches, Inserts, OwnsParent, Owns
  <2>3. Refers(p)' /\ Numbered(p)'
    <3>1. "cascade" \in Path("container")
      BY DEF Path
    <3> QED BY <1>1, <1>2, <1>3, <1>9, <1>12, <2>1, <3>1, RefersSteps
  <2>4. HoldsOnly(p)'
    <3>1. \A l \in w : l \in {Lock("opp", c, "write"), Lock("opp", c, "update")}
      BY DEF w
    <3> QED BY <1>1, <1>3, <1>9, <1>11, <2>1, <3>1, EditHolds
  <2>5. Holds(p)'
    BY <1>3, <1>5, <1>12, <2>1, <2>2 DEF Holds
  <2>6. DraftsParent(p)'
    BY <1>3, <1>6, <1>9, <1>10, <2>1, <2>2 DEF DraftsParent, Patched
  <2>7. DraftsFunnels(p)'
    <3>1. \A g \in DOMAIN df : /\ df[g].opp = c /\ Owns(p, g) /\ funnel[g].opp = c
                               /\ df[g].ppvvc = Patched(p, funnel[g].ppvvc)
                               /\ df[g].amount = funnel[g].amount
                               /\ df[g].currency = funnel[g].currency
      BY <1>1, <1>3 DEF DraftsFunnels, df
    <3> QED BY <1>3, <1>9, <1>10, <2>1, <2>2, <3>1 DEF DraftsFunnels, Patched
  <2>8. Written(p)' /\ SumStands(p)'
    BY <1>5, <1>9, <1>10, <1>12, <2>1, <2>2 DEF Written, SumStands, Children
  <2> QED BY <2>3, <2>4, <2>5, <2>6, <2>7, <2>8 DEF SessionOK
<1>13. "cascade" \in ControlPoint
  BY DEF ControlPoint
<1>14. tx' \in [Sessions -> Tx]
  BY <1>1, <1>2 DEF SessionsTyped
<1> QED BY <1>2, <1>4, <1>9, <1>11, <1>12, <1>13, <1>14, StepIs

-----------------------------------------------------------------------------
(* Commits.                                                                *)

\* What a commit of p does to the rows.
Lands(p) ==
  LET t == tx[p]
      c == t.opp IN
  /\ opp' \in [Containers -> OppRow] /\ funnel' \in [Funnels -> FunnelRow]
  /\ t.kind # "none" /\ pc[p] # "openContainer" /\ c \in Containers
  /\ \A x \in Containers : x # c => opp'[x] = opp[x]
  /\ opp'[c].number = IF t.kind = "open" THEN t.number ELSE opp[c].number
  /\ t.kind # "open" => opp'[c].ppvvc = Patched(p, opp[c].ppvvc)
  /\ \A f \in Funnels :
       \/ funnel'[f] = funnel[f]
       \/ Inserts(p) /\ f = t.funnel /\ funnel'[f].opp = c
       \/ /\ t.kind \in {"edit", "container"} /\ Owns(p, f)
          /\ funnel[f].opp = c /\ funnel'[f].opp = c
          /\ funnel'[f].ppvvc = Patched(p, funnel[f].ppvvc)
  /\ Patches(p) =>
       \A f \in Children(c) : funnel'[f].ppvvc = Patched(p, funnel[f].ppvvc)
  /\ \A q \in Sessions : q # p /\ OwnsParent(q) => tx[q].opp # c

\* The totals of the Opportunity, if it has one child.
AddsUp(p) ==
  Cardinality({f \in Funnels : funnel'[f].opp = tx[p].opp}) = 1 =>
    opp'[tx[p].opp].totals = TotalsOf(tx[p].opp, funnel')

LEMMA StoreLands ==
  ASSUME RecordsInv, NEW p \in Sessions, StoreTotals(p)
  PROVE  Lands(p) /\ AddsUp(p) /\ End(p) /\ started' = started
<1> DEFINE t == tx[p]
           c == t.opp
           row == [OppsSeen(p)[c] EXCEPT !.totals = t.totals]
           do == draft[p].opps
           df == draft[p].funnels
<1>1. /\ SessionsTyped /\ RowsTyped /\ Refers(p) /\ HoldsOnly(p) /\ Holds(p)
      /\ DraftsParent(p) /\ DraftsFunnels(p) /\ Written(p) /\ SumStands(p)
  BY DEF RecordsInv, RowsOK, SessionOK
<1>2. /\ pc[p] = "total" /\ Free(p, {Lock("opp", c, "write")})
      /\ opp' = Over(Just(c, row), OppsSeen(p)) /\ funnel' = Over(Nothing, FunnelsSeen(p))
      /\ End(p) /\ started' = started
  BY WantsIs DEF StoreTotals, At, Commit
<1>3. t.kind \in {"add", "open", "edit"} /\ c \in Containers
  BY <1>1, <1>2, PathOf DEF Refers
<1>4. /\ OppsSeen(p) \in [Containers -> OppRow] /\ FunnelsSeen(p) \in [Funnels -> FunnelRow]
      /\ \A x \in Containers : OppsSeen(p)[x] = IF x \in DOMAIN do THEN do[x] ELSE opp[x]
      /\ \A f \in Funnels : FunnelsSeen(p)[f] = IF f \in DOMAIN df THEN df[f] ELSE funnel[f]
  BY <1>1, SeenTyped
<1>5. /\ DOMAIN do \subseteq {c}
      /\ t.kind = "open" => c \in DOMAIN do /\ do[c].number = t.number
      /\ t.kind # "open" /\ c \in DOMAIN do =>
           do[c].number = opp[c].number /\ do[c].ppvvc = Patched(p, opp[c].ppvvc)
      /\ Patches(p) => c \in DOMAIN do /\ Children(c) \subseteq DOMAIN df
      /\ t.funnel \in DOMAIN df
  BY <1>1, <1>2 DEF DraftsParent, Written
<1>6. \A f \in DOMAIN df :
        /\ df[f].opp = c
        /\ Inserts(p) => f = t.funnel
        /\ t.kind = "edit" => /\ Owns(p, f) /\ funnel[f].opp = c
                              /\ df[f].ppvvc = Patched(p, funnel[f].ppvvc)
  BY <1>1 DEF DraftsFunnels
<1>7. /\ row \in OppRow /\ row.totals = t.totals
      /\ row.number = OppsSeen(p)[c].number /\ row.ppvvc = OppsSeen(p)[c].ppvvc
  <2>1. OppsSeen(p)[c] \in OppRow /\ t.totals \in Totals
    BY <1>1, <1>3, <1>4, Types
  <2> QED BY <2>1 DEF OppRow
<1> HIDE DEF row, do, df
<1>8. funnel' = FunnelsSeen(p)
  <2> DEFINE old == FunnelsSeen(p)
  <2>1. old \in [Funnels -> FunnelRow] /\ DOMAIN Nothing = {}
    BY <1>4, NothingTyped
  <2> HIDE DEF old
  <2>2. Over(Nothing, old) = old
    BY <2>1, OverNothing
  <2> QED BY <1>2, <2>2 DEF old
<1>9. /\ opp' \in [Containers -> OppRow] /\ opp'[c] = row
      /\ \A x \in Containers : x # c => opp'[x] = OppsSeen(p)[x]
  <2> DEFINE old == OppsSeen(p)
  <2>1. old \in [Containers -> OppRow]
    BY <1>4
  <2> HIDE DEF old, c
  <2>2. /\ DOMAIN Over(Just(c, row), old) = {c} \cup Containers
        /\ Over(Just(c, row), old)[c] = row
        /\ \A x \in Containers : x # c => Over(Just(c, row), old)[x] = old[x]
    BY <2>1 DEF Over, Just
  <2>3. Over(Just(c, row), old) \in [{c} \cup Containers -> OppRow]
    BY <1>7, <2>1, JustTyped, OverTyped
  <2>4. {c} \cup Containers = Containers
    BY <1>3 DEF c
  <2> QED BY <1>2, <2>2, <2>3, <2>4 DEF old
<1>10. t.kind # "open" => opp'[c].ppvvc = Patched(p, opp[c].ppvvc)
  <2>1. opp[c].ppvvc \in Ppvvc
    BY <1>1, <1>3, RowTypes
  <2>2. ~Patches(p) => Patched(p, opp[c].ppvvc) = opp[c].ppvvc
    BY <1>1, <2>1, PatchedTyped
  <2> QED BY <1>3, <1>4, <1>5, <1>7, <1>9, <2>2
<1>11. opp'[c].number = IF t.kind = "open" THEN t.number ELSE opp[c].number
  BY <1>3, <1>4, <1>5, <1>7, <1>9
<1>12. \A x \in Containers : x # c => opp'[x] = opp[x]
  BY <1>4, <1>5, <1>9
<1>13. ASSUME NEW f \in Funnels
       PROVE  \/ funnel'[f] = funnel[f]
              \/ Inserts(p) /\ f = t.funnel /\ funnel'[f].opp = c
              \/ /\ t.kind \in {"edit", "container"} /\ Owns(p, f)
                 /\ funnel[f].opp = c /\ funnel'[f].opp = c
                 /\ funnel'[f].ppvvc = Patched(p, funnel[f].ppvvc)
  <2>1. CASE f \in DOMAIN df
    BY <1>3, <1>4, <1>6, <1>8, <2>1 DEF Inserts
  <2>2. CASE f \notin DOMAIN df
    BY <1>4, <1>8, <2>2
  <2> QED BY <2>1, <2>2
<1>14. ASSUME Patches(p), NEW f \in Children(c)
       PROVE  funnel'[f].ppvvc = Patched(p, funnel[f].ppvvc)
  <2>1. t.kind = "edit" /\ f \in DOMAIN df /\ f \in Funnels
    BY <1>1, <1>3, <1>5, <1>14 DEF Refers, Inserts, Children
  <2> QED BY <1>4, <1>6, <1>8, <2>1
<1>15. ASSUME NEW q \in Sessions, q # p, OwnsParent(q) PROVE tx[q].opp # c
  <2>1. \A a \in held[q] : ~Conflict(a, Lock("opp", c, "write"))
    BY <1>2, <1>15 DEF Free, Blocks
  <2>2. /\ Conflict(Lock("opp", c, "write"), Lock("opp", c, "write"))
        /\ Conflict(Lock("opp", c, "update"), Lock("opp", c, "write"))
    BY ConflictIs
  <2> QED BY <1>15, <2>1, <2>2 DEF OwnsParent
<1>16. AddsUp(p)
  <2> DEFINE kids == {f \in Funnels : funnel'[f].opp = c}
  <2> SUFFICES ASSUME Cardinality(kids) = 1
               PROVE  opp'[c].totals = TotalsOf(c, funnel')
    BY DEF AddsUp
  <2>1. kids = ChildrenSeen(p)
    BY <1>8 DEF ChildrenSeen
  <2>2. t.funnel \in kids
    BY <1>1, <1>4, <1>5, <1>6, <1>8, Types
  <2>3. IsFiniteSet(kids)
    <3>1. kids \subseteq Funnels
      OBVIOUS
    <3> QED BY <3>1, ConstantsAssumption, FS_Subset
  <2> HIDE DEF kids
  <2>4. kids = {t.funnel}
    BY <2>2, <2>3, FS_Singleton
  <2>5. t.totals = TotalsOf(c, FunnelsSeen(p))
    BY <1>1, <1>2, <2>1, <2>4 DEF SumStands
  <2> QED BY <1>7, <1>8, <1>9, <2>5
<1>17. Lands(p)
  <2>1. funnel' \in [Funnels -> FunnelRow]
    BY <1>4, <1>8
  <2> QED BY <1>2, <1>3, <1>9, <1>10, <1>11, <1>12, <1>13, <1>14, <1>15, <2>1 DEF Lands
<1> QED BY <1>2, <1>16, <1>17

LEMMA CascadeLands ==
  ASSUME RecordsInv, NEW p \in Sessions, CascadeNature(p)
  PROVE  Lands(p) /\ AddsUp(p) /\ End(p) /\ started' = started
<1> DEFINE t == tx[p]
           c == t.opp
           seen == FunnelsSeen(p)
           kids == [f \in t.children |-> [seen[f] EXCEPT !.nature = t.input.nature]]
           do == draft[p].opps
           df == draft[p].funnels
<1>1. /\ SessionsTyped /\ RowsTyped /\ Refers(p) /\ HoldsOnly(p) /\ Holds(p) /\ LocksOK
      /\ DraftsParent(p) /\ DraftsFunnels(p) /\ Written(p) /\ OnlyChildTotal
  BY DEF RecordsInv, RowsOK, SessionOK
<1>2. /\ pc[p] = "cascadeChild" /\ Unlocked(p) = {}
      /\ opp' = Over(Nothing, OppsSeen(p)) /\ funnel' = Over(kids, seen)
      /\ End(p) /\ started' = started
  BY DEF CascadeNature, At, Commit
<1>3. t.kind = "container" /\ c \in Containers /\ t.input.nature \in Natures
  BY <1>1, <1>2, PathOf DEF Refers
<1>4. /\ OppsSeen(p) \in [Containers -> OppRow] /\ seen \in [Funnels -> FunnelRow]
      /\ \A x \in Containers : OppsSeen(p)[x] = IF x \in DOMAIN do THEN do[x] ELSE opp[x]
      /\ \A f \in Funnels : seen[f] = IF f \in DOMAIN df THEN df[f] ELSE funnel[f]
  BY <1>1, SeenTyped
<1>5. /\ DOMAIN do \subseteq {c}
      /\ c \in DOMAIN do => /\ do[c].number = opp[c].number
                            /\ do[c].ppvvc = Patched(p, opp[c].ppvvc)
                            /\ do[c].totals = opp[c].totals
      /\ Patches(p) => c \in DOMAIN do /\ Children(c) \subseteq DOMAIN df
      /\ t.children = Children(c)
  BY <1>1, <1>2, <1>3 DEF DraftsParent, Written
<1>6. \A f \in DOMAIN df :
        /\ df[f].opp = c /\ funnel[f].opp = c
        /\ df[f].ppvvc = Patched(p, funnel[f].ppvvc)
        /\ df[f].amount = funnel[f].amount /\ df[f].currency = funnel[f].currency
  BY <1>1, <1>3 DEF DraftsFunnels
<1>7. \A f \in Children(c) : f \in Funnels /\ funnel[f].opp = c /\ Owns(p, f)
  BY <1>2, <1>5 DEF Unlocked, Children, Owns, Lock
<1> HIDE DEF do, df, seen
<1>8. opp' = OppsSeen(p)
  <2> DEFINE old == OppsSeen(p)
  <2>1. old \in [Containers -> OppRow] /\ DOMAIN Nothing = {}
    BY <1>4, NothingTyped
  <2> HIDE DEF old
  <2>2. Over(Nothing, old) = old
    BY <2>1, OverNothing
  <2> QED BY <1>2, <2>2 DEF old
<1>9. /\ kids \in [Children(c) -> FunnelRow]
      /\ \A f \in Children(c) : /\ kids[f].opp = c
                                /\ kids[f].ppvvc = seen[f].ppvvc
                                /\ kids[f].amount = seen[f].amount
                                /\ kids[f].currency = seen[f].currency
  <2>1. kids = [f \in Children(c) |-> [seen[f] EXCEPT !.nature = t.input.nature]]
    BY <1>5
  <2>2. ASSUME NEW f \in Children(c)
        PROVE  /\ kids[f] \in FunnelRow /\ kids[f].opp = c
               /\ kids[f].ppvvc = seen[f].ppvvc
               /\ kids[f].amount = seen[f].amount /\ kids[f].currency = seen[f].currency
    <3>1. seen[f] \in FunnelRow /\ seen[f].opp = c
      BY <1>4, <1>6, <1>7
    <3>3. kids[f] = [seen[f] EXCEPT !.nature = t.input.nature]
      BY <2>1
    <3> HIDE DEF kids
    <3> QED BY <1>3, <3>1, <3>3 DEF FunnelRow
  <2>3. DOMAIN kids = Children(c) /\ kids = [f \in DOMAIN kids |-> kids[f]]
    BY <2>1
  <2> HIDE DEF kids
  <2> QED BY <2>2, <2>3
<1> HIDE DEF kids
<1>10. /\ funnel' \in [Funnels -> FunnelRow]
       /\ \A f \in Children(c) : funnel'[f] = kids[f]
       /\ \A f \in Funnels : f \notin Children(c) => funnel'[f] = seen[f]
  <2>1. Over(kids, seen) \in [Children(c) \cup Funnels -> FunnelRow]
    BY <1>4, <1>9, OverTyped
  <2>2. Children(c) \cup Funnels = Funnels
    BY DEF Children
  <2>3. DOMAIN kids = Children(c) /\ DOMAIN seen = Funnels
    BY <1>4, <1>9
  <2>4. /\ \A f \in Children(c) : Over(kids, seen)[f] = kids[f]
        /\ \A f \in Funnels : f \notin Children(c) => Over(kids, seen)[f] = seen[f]
    BY <2>2, <2>3 DEF Over
  <2> QED BY <1>2, <2>1, <2>2, <2>4
<1>11. opp[c].ppvvc \in Ppvvc /\ \A f \in Funnels : funnel[f].ppvvc \in Ppvvc
  BY <1>1, <1>3, RowTypes
<1>12. ~Patches(p) => /\ Patched(p, opp[c].ppvvc) = opp[c].ppvvc
                      /\ \A f \in Funnels : Patched(p, funnel[f].ppvvc) = funnel[f].ppvvc
  BY <1>1, <1>11, PatchedTyped
<1>13. /\ opp'[c].number = opp[c].number /\ opp'[c].totals = opp[c].totals
       /\ opp'[c].ppvvc = Patched(p, opp[c].ppvvc)
       /\ \A x \in Containers : x # c => opp'[x] = opp[x]
  BY <1>3, <1>4, <1>5, <1>8, <1>12
<1>14. ASSUME NEW f \in Children(c)
       PROVE  /\ funnel'[f].opp = c /\ funnel'[f].ppvvc = Patched(p, funnel[f].ppvvc)
              /\ funnel'[f].amount = funnel[f].amount
              /\ funnel'[f].currency = funnel[f].currency
  <2>1. f \in Funnels /\ funnel'[f] = kids[f]
    BY <1>7, <1>10
  <2>2. CASE f \in DOMAIN df
    BY <1>4, <1>6, <1>9, <2>1, <2>2
  <2>3. CASE f \notin DOMAIN df
    <3>1. ~Patches(p)
      BY <1>5, <2>3
    <3> QED BY <1>4, <1>9, <1>12, <2>1, <2>3, <3>1
  <2> QED BY <2>2, <2>3
<1>15. ASSUME NEW f \in Funnels, f \notin Children(c) PROVE funnel'[f] = funnel[f]
  <2>1. f \notin DOMAIN df
    BY <1>6, <1>15 DEF Children
  <2> QED BY <1>4, <1>10, <1>15, <2>1
<1>16. ASSUME NEW q \in Sessions, q # p, OwnsParent(q) PROVE tx[q].opp # c
  <2>1. OwnsParent(p)
    BY <1>1, <1>2 DEF Holds
  <2>2. \A a \in held[q], b \in held[p] : ~Conflict(a, b)
    BY <1>1, <1>16 DEF LocksOK
  <2>3. \A m, n \in {"write", "update"} : Conflict(Lock("opp", c, m), Lock("opp", c, n))
    BY ConflictIs
  <2> QED BY <1>16, <2>1, <2>2, <2>3 DEF OwnsParent
<1>17. AddsUp(p)
  <2>1. {f \in Funnels : funnel'[f].opp = c} = {f \in Funnels : funnel[f].opp = c}
    BY <1>14, <1>15 DEF Children
  <2>2. \A f \in Funnels : funnel[f].opp = c =>
          funnel'[f].amount = funnel[f].amount /\ funnel'[f].currency = funnel[f].currency
    BY <1>14 DEF Children
  <2>3. TotalsOf(c, funnel') = TotalsOf(c, funnel)
    BY <2>1, <2>2, TotalsSame
  <2>4. Cardinality({f \in Funnels : funnel[f].opp = c}) = 1 =>
          opp[c].totals = TotalsOf(c, funnel)
    BY <1>1, <1>3 DEF OnlyChildTotal, Children
  <2> QED BY <1>13, <2>1, <2>3, <2>4 DEF AddsUp
<1>18. Lands(p)
  <2>1. opp' \in [Containers -> OppRow]
    BY <1>4, <1>8
  <2>2. \A f \in Funnels :
         \/ funnel'[f] = funnel[f]
         \/ /\ t.kind \in {"edit", "container"} /\ Owns(p, f)
            /\ funnel[f].opp = c /\ funnel'[f].opp = c
            /\ funnel'[f].ppvvc = Patched(p, funnel[f].ppvvc)
    BY <1>3, <1>7, <1>14, <1>15
  <2> QED BY <1>2, <1>3, <1>10, <1>13, <1>14, <1>16, <2>1, <2>2 DEF Lands
<1> QED BY <1>2, <1>17, <1>18

LEMMA LandsGrows ==
  ASSUME RecordsInv, NEW p \in Sessions, Lands(p)
  PROVE  Grows /\ RowsTyped' /\ (Exists(tx[p].opp) <=> tx[p].kind # "open")
<1> DEFINE t == tx[p]
           c == t.opp
           after == {x \in Containers : opp'[x].number # 0}
<1>1. SessionsTyped /\ RowsTyped /\ Refers(p)
  BY DEF RecordsInv, RowsOK, SessionOK
<1>2. /\ \A x \in Containers : x # c => opp'[x] = opp[x]
      /\ opp'[c].number = IF t.kind = "open" THEN t.number ELSE opp[c].number
      /\ t.kind # "none" /\ c \in Containers
  BY DEF Lands
<1>3. /\ t.kind = "open" <=> ~Exists(c)
  BY <1>1, <1>2, Types DEF Refers
<1>4. \A x \in Containers : Exists(x) => opp'[x].number # 0
  BY <1>2, <1>3 DEF Exists
<1>5. ASSUME NEW f \in Funnels, funnel[f].opp # None PROVE funnel'[f].opp = funnel[f].opp
  <2>1. Inserts(p) => f # t.funnel
    BY <1>1, <1>5 DEF Refers
  <2> QED BY <2>1 DEF Lands
<1>6. Live \subseteq after /\ after \subseteq Containers /\ Live' = after
  BY <1>4 DEF Live, Exists
<1>7. Cardinality(Live) \in Nat /\ Cardinality(after) \in Nat
      /\ Cardinality(Live) <= Cardinality(after)
  <2> HIDE DEF after
  <2>1. IsFiniteSet(after)
    BY <1>6, LiveFinite, FS_Subset
  <2> QED BY <1>6, <2>1, LiveFinite, FS_Subset, FS_CardinalityType
<1> HIDE DEF after
<1>8. 1 .. Cardinality(Live) + 1 \subseteq 1 .. Cardinality(after) + 1
  BY <1>7
<1>9. Grows
  BY <1>4, <1>5, <1>6, <1>8 DEF Grows, Exists
<1> QED BY <1>3, <1>9 DEF Lands, RowsTyped

LEMMA LandsLeave ==
  ASSUME RecordsInv, NEW p \in Sessions, Lands(p), OthersStay(p), NEW q \in Sessions, q # p
  PROVE  Undisturbed(q)
<1> DEFINE t == tx[p]
           c == t.opp
           u == tx[q]
<1>1. /\ SessionsTyped /\ RowsTyped /\ Refers(p) /\ Numbered(p) /\ LocksOK /\ Distinct
      /\ Refers(q) /\ Numbered(q) /\ HoldsOnly(q)
  BY DEF RecordsInv, RowsOK, SessionOK
<1>2. /\ \A x \in Containers : x # c => opp'[x] = opp[x]
      /\ opp'[c].number = IF t.kind = "open" THEN t.number ELSE opp[c].number
      /\ t.kind # "none" /\ pc[p] # "openContainer" /\ c \in Containers
      /\ \A f \in Funnels :
           \/ funnel'[f] = funnel[f]
           \/ Inserts(p) /\ f = t.funnel /\ funnel'[f].opp = c
           \/ Owns(p, f) /\ funnel[f].opp = c /\ funnel'[f].opp = c
      /\ OwnsParent(q) => u.opp # c
  BY DEF Lands
<1>3. /\ pc'[q] = pc[q] /\ tx'[q] = u /\ held'[q] = held[q] /\ draft'[q] = draft[q]
  BY DEF OthersStay
<1>4. c # None /\ u.funnel \in Funnels /\ t.funnel \in Funnels
  BY <1>1, <1>2, Types, ConstantsAssumption
<1>5. ASSUME OwnsParent(q)
      PROVE  /\ opp'[u.opp] = opp[u.opp]
             /\ \A f \in Funnels : funnel'[f].opp = u.opp <=> funnel[f].opp = u.opp
  <2>1. u.kind \in {"edit", "container"}
    BY <1>1, <1>5, InsertsLittle
  <2>2. u.opp \in Containers /\ u.opp # c /\ u.opp # None
    BY <1>1, <1>2, <1>5, <2>1, ConstantsAssumption DEF Refers
  <2>3. opp'[u.opp] = opp[u.opp]
    BY <1>2, <2>2
  <2>4. ASSUME NEW f \in Funnels PROVE funnel'[f].opp = u.opp <=> funnel[f].opp = u.opp
    <3>1. Inserts(p) /\ f = t.funnel => funnel[f].opp = None
      BY <1>1 DEF Refers
    <3> QED BY <1>2, <2>2, <3>1
  <2> QED BY <2>3, <2>4
<1>6. ASSUME NEW f \in Funnels, Owns(q, f) PROVE funnel'[f] = funnel[f]
  <2>1. u.kind \in {"edit", "container"}
    BY <1>1, <1>6, InsertsLittle
  <2>2. funnel[f].opp # None
    <3>1. \E g \in Funnels : Lock("funnel", f, "write") = Lock("funnel", g, "write")
                             /\ funnel[g].opp = u.opp
      BY <1>1, <1>6, <2>1 DEF HoldsOnly, Owns, Lock, Inserts
    <3>2. funnel[f].opp = u.opp
      BY <3>1 DEF Lock
    <3> QED BY <1>1, <2>1, <3>2, ConstantsAssumption DEF Refers
  <2>3. ~(Inserts(p) /\ f = t.funnel)
    BY <1>1, <2>2 DEF Refers
  <2>4. ~Owns(p, f)
    <3>1. Conflict(Lock("funnel", f, "write"), Lock("funnel", f, "write"))
      BY ConflictIs
    <3> QED BY <1>1, <1>6, <3>1 DEF LocksOK, Owns
  <2> QED BY <1>2, <2>3, <2>4
<1>7. ASSUME Inserts(q) PROVE funnel'[u.funnel] = funnel[u.funnel]
  <2>1. funnel[u.funnel].opp = None
    BY <1>1, <1>7 DEF Refers
  <2>2. ~(Inserts(p) /\ u.funnel = t.funnel)
    BY <1>1, <1>7 DEF Distinct
  <2> QED BY <1>2, <1>4, <2>1, <2>2
<1>8. ASSUME u.kind = "open" PROVE opp'[u.opp] = opp[u.opp]
  <2>1. u.opp \in Containers /\ u.opp # c
    BY <1>1, <1>8 DEF Refers, Distinct
  <2> QED BY <1>2, <2>1
<1>9. ASSUME u.kind = "open", pc[q] # "openContainer", NEW x \in Containers
      PROVE  opp'[x].number # u.number
  <2>1. opp[x].number # u.number /\ Lock("number", u.number, "write") \in held[q]
    BY <1>1, <1>9 DEF Numbered, NumberTaken
  <2>2. t.kind = "open" => t.number # u.number
    <3>1. t.kind = "open" => Lock("number", t.number, "write") \in held[p]
      BY <1>1, <1>2 DEF Numbered
    <3>2. \A n : Conflict(Lock("number", n, "write"), Lock("number", n, "write"))
      BY ConflictIs
    <3> QED BY <1>1, <2>1, <3>1, <3>2 DEF LocksOK
  <2> QED BY <1>2, <2>1, <2>2
<1> HIDE DEF u
<1> QED BY <1>3, <1>5, <1>6, <1>7, <1>8, <1>9 DEF Undisturbed, u

LEMMA LandsRows ==
  ASSUME RecordsInv, NEW p \in Sessions, Lands(p), AddsUp(p)
  PROVE  RowsOK'
<1> DEFINE t == tx[p]
           c == t.opp
<1>1. /\ SessionsTyped /\ RowsTyped /\ ParentsLive /\ HomesKept /\ FirstChildrenInSync
      /\ NumbersRunOn /\ OnlyChildTotal /\ Refers(p) /\ Numbered(p)
  BY DEF RecordsInv, RowsOK, SessionOK
<1>2. Grows /\ RowsTyped' /\ (Exists(c) <=> t.kind # "open")
  BY LandsGrows
<1>3. /\ t.kind # "none" /\ pc[p] # "openContainer" /\ c \in Containers /\ c # None
      /\ \A x \in Containers : x # c => opp'[x] = opp[x]
      /\ opp'[c].number = IF t.kind = "open" THEN t.number ELSE opp[c].number
      /\ t.kind # "open" => opp'[c].ppvvc = Patched(p, opp[c].ppvvc)
      /\ \A f \in Funnels :
           \/ funnel'[f] = funnel[f]
           \/ Inserts(p) /\ f = t.funnel /\ funnel'[f].opp = c
           \/ /\ funnel[f].opp = c /\ funnel'[f].opp = c
              /\ funnel'[f].ppvvc = Patched(p, funnel[f].ppvvc)
      /\ Patches(p) =>
           \A f \in Children(c) : funnel'[f].ppvvc = Patched(p, funnel[f].ppvvc)
  BY ConstantsAssumption DEF Lands
<1>4. t.kind = "open" =>
        t.number \in 1 .. Cardinality(Live) + 1 /\ \A x \in Containers : opp[x].number # t.number
  BY <1>1, <1>3 DEF Numbered, NumberTaken
<1>5. Cardinality(Live) \in Nat
  BY LiveFinite
<1>6. opp'[c].number # 0
  <2>1. t.kind = "open" => t.number # 0
    BY <1>4, <1>5
  <2> QED BY <1>2, <1>3, <2>1 DEF Exists
<1>7. ParentsLive'
  <2>1. ASSUME NEW f \in Funnels, funnel'[f].opp # None
        PROVE  funnel'[f].opp \in Containers /\ opp'[funnel'[f].opp].number # 0
    <3>1. CASE funnel'[f] = funnel[f]
      <4>1. funnel[f].opp \in Containers /\ Exists(funnel[f].opp)
        BY <1>1, <2>1, <3>1 DEF ParentsLive, Live
      <4>2. \A x \in Containers : Exists(x) => opp'[x].number # 0
        BY <1>2 DEF Grows, Exists
      <4> QED BY <3>1, <4>1, <4>2
    <3>2. CASE funnel'[f].opp = c
      BY <1>3, <1>6, <3>2
    <3> QED BY <1>3, <3>1, <3>2
  <2> QED BY <2>1 DEF ParentsLive, Live, Exists
<1>8. HomesKept'
  BY <1>1, <1>2 DEF HomesKept, Grows
<1>9. FirstChildrenInSync'
  <2> SUFFICES ASSUME NEW f \in Funnels, Home[f] # None
               PROVE  funnel'[f].ppvvc = opp'[Home[f]].ppvvc
    BY DEF FirstChildrenInSync
  <2> DEFINE h == Home[f]
  <2>1. /\ funnel[f].opp = h /\ h # None /\ h \in Containers /\ Exists(h)
        /\ funnel[f].ppvvc = opp[h].ppvvc
    BY <1>1 DEF HomesKept, FirstChildrenInSync, ParentsLive, Live
  <2> HIDE DEF h
  <2>2. ~(Inserts(p) /\ f = t.funnel)
    BY <1>1, <2>1 DEF Refers
  <2>3. CASE h # c
    BY <1>3, <2>1, <2>2, <2>3 DEF h
  <2>4. CASE h = c
    <3>1. opp'[c].ppvvc = Patched(p, opp[c].ppvvc)
      BY <1>2, <1>3, <2>1, <2>4
    <3>2. CASE Patches(p)
      <4>1. f \in Children(c)
        BY <2>1, <2>4 DEF Children
      <4>2. funnel'[f].ppvvc = Patched(p, funnel[f].ppvvc)
        BY <1>3, <3>2, <4>1
      <4> QED BY <2>1, <2>4, <3>1, <4>2 DEF h
    <3>3. CASE ~Patches(p)
      <4>1. funnel[f].ppvvc \in Ppvvc
        BY <1>1, RowTypes
      <4>2. Patched(p, funnel[f].ppvvc) = funnel[f].ppvvc
        BY <1>1, <3>3, <4>1, PatchedTyped
      <4>3. funnel'[f].ppvvc = funnel[f].ppvvc
        BY <1>3, <2>2, <4>2
      <4> QED BY <2>1, <2>4, <3>1, <4>2, <4>3 DEF h
    <3> QED BY <3>2, <3>3
  <2> QED BY <2>3, <2>4
<1>10. NumbersRunOn'
  <2> DEFINE K == Cardinality(Live)
             after == {x \in Containers : opp'[x].number # 0}
             N == {opp[x].number : x \in Containers}
             M == {opp'[x].number : x \in Containers}
  <2>1. N \ {0} = 1 .. K
    BY <1>1 DEF NumbersRunOn, Live
  <2>2. SUFFICES M \ {0} = 1 .. Cardinality(after)
    BY DEF NumbersRunOn, Exists
  <2>3. CASE t.kind # "open"
    <3>1. \A x \in Containers : opp'[x].number = opp[x].number
      BY <1>3, <2>3
    <3>2. after = Live /\ M = N
      BY <3>1 DEF Live, Exists
    <3> QED BY <2>1, <3>2
  <2>4. CASE t.kind = "open"
    <3>1. after = Live \cup {c} /\ c \notin Live
      BY <1>2, <1>3, <1>6, <2>4 DEF Live, Exists
    <3>2. Cardinality(after) = K + 1
      BY <3>1, LiveFinite, FS_AddElement
    <3>3. t.number \in 1 .. K + 1 /\ t.number \notin N
      BY <1>4, <2>4
    <3>4. opp[c].number = 0
      BY <1>2, <2>4 DEF Exists
    <3>5. M \ {0} = (N \ {0}) \cup {t.number}
      <4>1. \A x \in Containers : opp'[x].number = IF x = c THEN t.number ELSE opp[x].number
        BY <1>3, <2>4
      <4>2. t.number # 0
        BY <1>5, <3>3
      <4> HIDE DEF t, c
      <4> QED BY <1>3, <3>4, <4>1, <4>2
    <3> HIDE DEF K, N, M, after, t
    <3>6. K \in Nat
      BY <1>5 DEF K
    <3>7. t.number = K + 1
      BY <2>1, <3>3, <3>6
    <3>8. (1 .. K) \cup {K + 1} = 1 .. K + 1
      BY <3>6
    <3> QED BY <2>1, <3>2, <3>5, <3>7, <3>8
  <2> QED BY <2>3, <2>4
<1>11. OnlyChildTotal'
  <2> DEFINE kids(x) == {f \in Funnels : funnel'[f].opp = x}
  <2> SUFFICES ASSUME NEW x \in Containers, Cardinality(kids(x)) = 1
               PROVE  opp'[x].totals = TotalsOf(x, funnel')
    BY DEF OnlyChildTotal, Children
  <2>1. CASE x = c
    BY <2>1 DEF AddsUp
  <2>2. CASE x # c
    <3>1. ASSUME NEW f \in Funnels
          PROVE  /\ funnel'[f].opp = x <=> funnel[f].opp = x
                 /\ funnel[f].opp = x => funnel'[f] = funnel[f]
      <4>1. Inserts(p) /\ f = t.funnel => funnel[f].opp = None
        BY <1>1 DEF Refers
      <4>2. x # None
        BY ConstantsAssumption
      <4> QED BY <1>3, <2>2, <4>1, <4>2
    <3>2. kids(x) = {f \in Funnels : funnel[f].opp = x}
      BY <3>1
    <3>3. TotalsOf(x, funnel') = TotalsOf(x, funnel)
      BY <3>1, <3>2, TotalsSame
    <3>4. Cardinality(kids(x)) = 1 => opp[x].totals = TotalsOf(x, funnel)
      BY <1>1, <3>2 DEF OnlyChildTotal, Children
    <3>5. opp'[x] = opp[x]
      BY <1>3, <2>2
    <3> QED BY <3>3, <3>4, <3>5
  <2> QED BY <2>1, <2>2
<1> QED BY <1>2, <1>7, <1>8, <1>9, <1>10, <1>11 DEF RowsOK

\* A transaction that commits.
LEMMA CommitStep ==
  ASSUME RecordsInv, NEW p \in Sessions, Lands(p), AddsUp(p), End(p), started' = started
  PROVE  RecordsInv'
<1>1. /\ SessionsTyped /\ RowsTyped /\ LocksOK /\ Distinct /\ \A q \in Sessions : Refers(q)
  BY DEF RecordsInv, RowsOK, SessionOK
<1>2. /\ OthersStay(p) /\ SessionsTyped' /\ LocksOK' /\ Distinct' /\ SessionOK(p)'
  BY <1>1, EndIs
<1>3. RowsOK' /\ Grows /\ RowsTyped'
  BY LandsRows, LandsGrows
<1>4. ASSUME NEW q \in Sessions, q # p PROVE SessionOK(q)'
  <2>1. Undisturbed(q)
    BY <1>2, <1>4, LandsLeave
  <2>2. SessionOK(q)
    BY DEF RecordsInv
  <2> QED BY <1>1, <1>2, <1>3, <2>1, <2>2, SessionKept
<1> QED BY <1>2, <1>3, <1>4 DEF RecordsInv

-----------------------------------------------------------------------------
(* The invariant.                                                          *)

LEMMA StepKeeps ==
  ASSUME RecordsInv, NEW p \in Sessions, Step(p)
  PROVE  RecordsInv'
<1>1. CASE OpenContainer(p)
  BY <1>1, OpenContainerKeeps
<1>2. CASE RefuseNumber(p)
  BY <1>2, EndStep DEF RefuseNumber, rows
<1>3. CASE InsertFunnel(p)
  BY <1>3, InsertFunnelKeeps
<1>4. CASE LockParent(p)
  BY <1>4, LockParentKeeps
<1>5. CASE SeeChildren(p)
  BY <1>5, SeeChildrenKeeps
<1>6. CASE LockChild(p)
  BY <1>6, LockChildKeeps
<1>7. CASE Sync(p)
  BY <1>7, SyncKeeps
<1>8. CASE UpdateFunnel(p)
  BY <1>8, UpdateFunnelKeeps
<1>9. CASE SumTotals(p)
  BY <1>9, SumTotalsKeeps
<1>10. CASE StoreTotals(p)
  BY <1>10, StoreLands, CommitStep
<1>11. CASE UpdateParent(p)
  BY <1>11, UpdateParentKeeps
<1>12. CASE CascadeNature(p)
  BY <1>12, CascadeLands, CommitStep
<1>13. CASE AbortDeadlock(p)
  BY <1>13, EndStep DEF AbortDeadlock, rows
<1> QED BY <1>1, <1>2, <1>3, <1>4, <1>5, <1>6, <1>7, <1>8, <1>9, <1>10, <1>11, <1>12, <1>13
        DEF Step

LEMMA NextKeeps == RecordsInv /\ [Next]_vars => RecordsInv'
<1> SUFFICES ASSUME RecordsInv, [Next]_vars PROVE RecordsInv'
  OBVIOUS
<1>1. CASE Next
  <2> SUFFICES ASSUME NEW p \in Sessions,
                      StartAdd(p) \/ StartOpen(p) \/ StartEdit(p) \/ StartContainerEdit(p)
                        \/ Step(p)
               PROVE  RecordsInv'
    BY <1>1 DEF Next
  <2> QED BY StartAddKeeps, StartOpenKeeps, StartEditKeeps, StartContainerEditKeeps, StepKeeps
<1>2. CASE UNCHANGED vars
  <2>1. /\ opp' = opp /\ funnel' = funnel /\ draft' = draft /\ held' = held
        /\ pc' = pc /\ tx' = tx /\ started' = started
    BY <1>2 DEF vars, rows
  <2>2. RowsOK'
    BY <2>1, RowsAlone DEF RecordsInv, rows
  <2>3. SessionsTyped' /\ LocksOK' /\ Distinct'
    BY <2>1 DEF RecordsInv, SessionsTyped, DraftTyped, LocksOK, Distinct, Inserts
  <2>4. ASSUME NEW q \in Sessions PROVE SessionOK(q)'
    <3>1. SessionOK(q) /\ SessionsTyped /\ RowsTyped /\ RowsTyped' /\ RowsOK
      BY <2>2 DEF RecordsInv, RowsOK
    <3>2. Grows
      BY <2>1, <3>1, RowsAlone DEF rows
    <3>3. tx[q].kind = "open" /\ pc[q] # "openContainer" =>
            \A c \in Containers : opp[c].number # tx[q].number
      BY <3>1 DEF SessionOK, Numbered, NumberTaken
    <3>4. Undisturbed(q)
      BY <2>1, <3>3 DEF Undisturbed
    <3> QED BY <2>3, <3>1, <3>2, <3>4, SessionKept
  <2> QED BY <2>2, <2>3, <2>4 DEF RecordsInv
<1> QED BY <1>1, <1>2

\* There are running numbers to begin with.
LEMMA FirstNumbersExist ==
  LET homes == {Home[f] : f \in Funnels} \ {None} IN
  /\ FirstNumbers \in [Containers -> 0 .. Cardinality(Containers)]
  /\ {FirstNumbers[c] : c \in homes} = 1 .. Cardinality(homes)
  /\ \A c \in Containers \ homes : FirstNumbers[c] = 0
  /\ homes \subseteq Containers /\ IsFiniteSet(homes)
<1> DEFINE homes == {Home[f] : f \in Funnels} \ {None}
           K == Cardinality(homes)
           fine(n) == /\ {n[c] : c \in homes} = 1 .. K
                      /\ \A c \in Containers \ homes : n[c] = 0
<1>1. homes \subseteq Containers
  BY ConstantsAssumption
<1>2. IsFiniteSet(Containers)
  BY ConstantsAssumption
<1> HIDE DEF homes
<1>3. /\ IsFiniteSet(homes) /\ K \in Nat /\ Cardinality(Containers) \in Nat
      /\ K <= Cardinality(Containers)
  BY <1>1, <1>2, FS_Subset, FS_CardinalityType
<1>4. PICK b : b \in Bijection(1 .. K, homes)
  BY <1>3, FS_CardinalityType DEF ExistsBijection
<1>5. /\ b \in [1 .. K -> homes]
      /\ \A i, j \in 1 .. K : b[i] = b[j] => i = j
      /\ \A c \in homes : \E i \in 1 .. K : b[i] = c
  BY <1>4 DEF Bijection, Injection, Surjection, IsInjective
<1> DEFINE at(c) == CHOOSE i \in 1 .. K : b[i] = c
           n == [c \in Containers |-> IF c \in homes THEN at(c) ELSE 0]
<1>6. \A c \in homes : at(c) \in 1 .. K /\ b[at(c)] = c
  BY <1>5
<1>7. \A i \in 1 .. K : b[i] \in homes /\ at(b[i]) = i
  BY <1>5, <1>6
<1> HIDE DEF at, K
<1>8. n \in [Containers -> 0 .. Cardinality(Containers)]
  <2>1. \A c \in Containers : n[c] \in 0 .. Cardinality(Containers)
    <3>1. 1 .. K \subseteq 0 .. Cardinality(Containers) /\ 0 \in 0 .. Cardinality(Containers)
      BY <1>3
    <3> QED BY <1>6, <3>1
  <2> QED BY <2>1
<1>9. {n[c] : c \in homes} = 1 .. K
  <2>1. \A c \in homes : n[c] = at(c)
    BY <1>1
  <2> HIDE DEF n
  <2> QED BY <1>6, <1>7, <2>1
<1>10. \A c \in Containers \ homes : n[c] = 0
  OBVIOUS
<1> HIDE DEF n
<1>11. \E m \in [Containers -> 0 .. Cardinality(Containers)] : fine(m)
  BY <1>8, <1>9, <1>10
<1>12. FirstNumbers = CHOOSE m \in [Containers -> 0 .. Cardinality(Containers)] : fine(m)
  BY DEF FirstNumbers, homes, K
<1> HIDE DEF fine
<1>13. FirstNumbers \in [Containers -> 0 .. Cardinality(Containers)] /\ fine(FirstNumbers)
  BY <1>11, <1>12
<1> QED BY <1>1, <1>3, <1>13 DEF fine, homes, K

LEMMA InitHolds == Init => RecordsInv
<1> SUFFICES ASSUME Init PROVE RecordsInv
  OBVIOUS
<1> DEFINE homes == {Home[f] : f \in Funnels} \ {None}
           N == FirstNumbers
<1>1. /\ funnel = Initially
      /\ opp = [c \in Containers |->
                  [number |-> N[c], ppvvc |-> NewRow.ppvvc, nature |-> NewRow.nature,
                   totals |-> TotalsOf(c, Initially)]]
      /\ draft = [p \in Sessions |-> NoDraft] /\ held = [p \in Sessions |-> {}]
      /\ pc = [p \in Sessions |-> "idle"] /\ tx = [p \in Sessions |-> NoTx] /\ started = 0
  BY DEF Init
<1>2. /\ N \in [Containers -> 0 .. Cardinality(Containers)]
      /\ {N[c] : c \in homes} = 1 .. Cardinality(homes)
      /\ \A c \in Containers \ homes : N[c] = 0
      /\ homes \subseteq Containers /\ IsFiniteSet(homes)
  BY FirstNumbersExist
<1>3. Cardinality(Containers) \in Nat /\ Cardinality(homes) \in Nat
  BY <1>2, ConstantsAssumption, FS_CardinalityType
<1> HIDE DEF N
<1>4. \A c \in Containers : N[c] \in Nat
  BY <1>2, <1>3
<1>5. /\ NewRow.ppvvc \in Ppvvc /\ NewRow.nature \in Natures
      /\ NewRow.amount \in Amounts /\ NewRow.currency \in Currencies
  BY BlankTyped
<1>6. /\ funnel \in [Funnels -> FunnelRow]
      /\ \A f \in Funnels : funnel[f].opp = Home[f] /\ funnel[f].ppvvc = NewRow.ppvvc
  <2>1. \A f \in Funnels : Home[f] \in Containers \cup {None}
    BY ConstantsAssumption
  <2> QED BY <1>1, <1>5, <2>1 DEF Initially, FunnelRow
<1>7. \A c \in Containers : TotalsOf(c, Initially) \in Totals
  BY <1>1, <1>6, TotalsTyped
<1>8. /\ opp \in [Containers -> OppRow]
      /\ \A c \in Containers : /\ opp[c].number = N[c] /\ opp[c].ppvvc = NewRow.ppvvc
                               /\ opp[c].totals = TotalsOf(c, funnel)
  BY <1>1, <1>4, <1>5, <1>7 DEF OppRow
<1>9. \A c \in homes : N[c] # 0
  <2>1. \A c \in homes : N[c] \in 1 .. Cardinality(homes)
    BY <1>2
  <2> QED BY <1>3, <2>1
<1>10. Live = homes
  BY <1>2, <1>8, <1>9 DEF Live, Exists
<1>11. RowsTyped
  BY <1>6, <1>8 DEF RowsTyped
<1>12. ParentsLive /\ HomesKept /\ FirstChildrenInSync
  <2>1. \A f \in Funnels : Home[f] # None => Home[f] \in homes
    OBVIOUS
  <2> HIDE DEF homes
  <2> QED BY <1>2, <1>6, <1>8, <1>10, <2>1 DEF ParentsLive, HomesKept, FirstChildrenInSync
<1>13. NumbersRunOn
  <2> HIDE DEF homes
  <2>1. {opp[c].number : c \in Containers} = {N[c] : c \in Containers}
    BY <1>8
  <2>2. {N[c] : c \in Containers} \ {0} = {N[c] : c \in homes}
    BY <1>2, <1>9
  <2> QED BY <1>2, <1>10, <2>1, <2>2 DEF NumbersRunOn, Live
<1>14. OnlyChildTotal
  BY <1>8 DEF OnlyChildTotal
<1>15. ASSUME NEW p \in Sessions PROVE SessionOK(p) /\ DraftTyped(p)
  BY <1>1, IdleIs
<1>16. SessionsTyped
  BY <1>1, <1>15, NoTxTyped DEF SessionsTyped, ControlPoint
<1>17. LocksOK
  BY <1>1 DEF LocksOK
<1>18. Distinct
  BY <1>1, NoTxTyped DEF Distinct, Inserts
<1> QED BY <1>11, <1>12, <1>13, <1>14, <1>15, <1>16, <1>17, <1>18 DEF RecordsInv, RowsOK

LEMMA RecordsInvariant == Spec => []RecordsInv
<1>1. Init => RecordsInv
  BY InitHolds
<1>2. RecordsInv /\ [Next]_vars => RecordsInv'
  BY NextKeeps
<1> QED BY <1>1, <1>2, PTL DEF Spec

\* The variables keep their types: rows, drafts, locks and locals of every
\* transaction, whatever its inputs are.
THEOREM TypeCorrect == Spec => []TypeOK
<1>1. RecordsInv => TypeOK
  BY TypesSplit DEF RecordsInv, RowsOK
<1> QED BY <1>1, RecordsInvariant, PTL

\* updateOpportunityPpvvc and updateOpportunity keep the Funnels there are in the
\* beginning in step with their Opportunities.
THEOREM ChildrenStayInSync == Spec => []FirstChildrenInSync
<1>1. RecordsInv => FirstChildrenInSync
  BY DEF RecordsInv, RowsOK
<1> QED BY <1>1, RecordsInvariant, PTL

\* createOpportunityContainer numbers the Opportunities without a gap or a
\* duplicate, and recomputeOpportunityTotal leaves an only child's amount.
THEOREM NumbersAndTotals == Spec => []ContainersAddUp
<1>1. RecordsInv => ContainersAddUp
  BY DEF RecordsInv, RowsOK, ContainersAddUp
<1> QED BY <1>1, RecordsInvariant, PTL

-----------------------------------------------------------------------------
(* Deadlocks.                                                              *)

Plain(p) == tx[p].kind = "edit" /\ DOMAIN tx[p].input.patch = {}

\* Who waits for the lock on an Opportunity that a store or an insertion needs
\* waits for its owner.
LEMMA WaitsForOwner ==
  ASSUME RecordsInv, NEW p \in Sessions, NEW q \in Sessions, Blocks(q, p, Wants(p)),
         pc[p] \in {"insert", "total", "parent"}
  PROVE  OwnsParent(q) /\ tx[q].opp = tx[p].opp /\ tx[q].kind \in {"edit", "container"}
<1> DEFINE c == tx[p].opp
<1>1. HoldsOnly(q)
  BY DEF RecordsInv, SessionOK
<1>2. PICK a \in held[q], m \in {"share", "write"} : Conflict(a, Lock("opp", c, m))
  BY WantsIs DEF Blocks
<1>3. a[1] = "opp" /\ a[2] = c /\ a[3] # "share"
  BY <1>2 DEF Conflict, Lock
<1>4. /\ a \in {Lock("opp", tx[q].opp, "write"), Lock("opp", tx[q].opp, "update")}
      /\ tx[q].kind \in {"edit", "container"}
  BY <1>1, <1>3 DEF HoldsOnly, Lock
<1> QED BY <1>3, <1>4 DEF OwnsParent, Lock

\* Who waits for a Funnel waits for an owner of its Opportunity, or for a plain
\* edit.
LEMMA WaitsForChild ==
  ASSUME RecordsInv, NEW p \in Sessions, NEW q \in Sessions, Blocks(q, p, Wants(p)),
         pc[p] \in {"lockChild", "cascadeChild", "update"}
  PROVE  (OwnsParent(q) /\ tx[q].opp = tx[p].opp) \/ Plain(q)
<1> DEFINE c == tx[p].opp
<1>1. SessionsTyped /\ HoldsOnly(q) /\ Written(p) /\ Refers(p)
  BY DEF RecordsInv, SessionOK
<1>2. PICK f \in Funnels : /\ funnel[f].opp = c
                           /\ \E a \in held[q] : Conflict(a, Lock("funnel", f, "write"))
  <2>1. CASE pc[p] = "update"
    <3>1. tx[p].funnel \in Funnels /\ funnel[tx[p].funnel].opp = c
      BY <1>1, <2>1, PathOf, Types DEF Refers
    <3> QED BY <2>1, <3>1, WantsIs DEF Blocks
  <2>2. CASE pc[p] \in {"lockChild", "cascadeChild"}
    <3>1. \A f \in Unlocked(p) : f \in Funnels /\ funnel[f].opp = c
      BY <1>1, <2>2 DEF Unlocked, Written, Children
    <3> QED BY <2>2, <3>1, WantsIs DEF Blocks
  <2> QED BY <2>1, <2>2
<1>3. PICK a \in held[q] : Conflict(a, Lock("funnel", f, "write"))
  BY <1>2
<1>4. a[1] = "funnel" /\ a[2] = f
  BY <1>3 DEF Conflict, Lock
<1>5. /\ \E g \in Funnels : a = Lock("funnel", g, "write") /\ funnel[g].opp = tx[q].opp
      /\ OwnsParent(q) \/ (tx[q].kind = "edit" /\ ~Patches(q))
  BY <1>1, <1>4 DEF HoldsOnly, Lock
<1>6. funnel[f].opp = tx[q].opp
  BY <1>4, <1>5 DEF Lock
<1> QED BY <1>2, <1>5, <1>6 DEF Plain, Patches

\* An Opportunity has one owner.
LEMMA OneOwner ==
  ASSUME RecordsInv, NEW p \in Sessions, NEW q \in Sessions, p # q,
         OwnsParent(p), OwnsParent(q)
  PROVE  tx[p].opp # tx[q].opp
<1> SUFFICES ASSUME tx[p].opp = tx[q].opp PROVE FALSE
  OBVIOUS
<1>1. \A a \in held[q], b \in held[p] : ~Conflict(a, b)
  BY DEF RecordsInv, LocksOK
<1>2. \A c : \A m, n \in {"write", "update"} : Conflict(Lock("opp", c, m), Lock("opp", c, n))
  BY ConflictIs
<1> QED BY <1>1, <1>2 DEF OwnsParent

\* An owner of an Opportunity waits for plain edits alone.
LEMMA OwnersWait ==
  ASSUME RecordsInv, NEW p \in Sessions, OwnsParent(p),
         NEW q \in Sessions, Blocks(q, p, Wants(p))
  PROVE  Plain(q)
<1>1. SessionsTyped /\ Refers(p) /\ HoldsOnly(p) /\ Holds(p)
  BY DEF RecordsInv, SessionOK
<1>2. tx[p].kind \in {"edit", "container"}
  BY <1>1, InsertsLittle
<1>3. p # q /\ pc[p] # "lockParent" /\ Wants(p) # {}
  BY <1>1 DEF Holds, Blocks
<1>4. pc[p] \in {"total", "parent", "lockChild", "cascadeChild", "update"}
  <2>1. pc[p] \notin {"openContainer", "insert"}
    BY <1>1, <1>2, PathOf DEF Inserts
  <2>2. pc[p] \in ControlPoint
    BY <1>1, Types
  <2>3. pc[p] \notin {"idle", "children", "sum", "cascade"}
    BY <1>3, WantsIs
  <2> QED BY <1>3, <2>1, <2>2, <2>3 DEF ControlPoint
<1>5. CASE pc[p] \in {"total", "parent"}
  BY <1>3, <1>5, WaitsForOwner, OneOwner
<1>6. CASE pc[p] \in {"lockChild", "cascadeChild", "update"}
  BY <1>3, <1>6, WaitsForChild, OneOwner
<1> QED BY <1>4, <1>5, <1>6

\* Nobody else can want or hold what an insertion of an Opportunity locks, once
\* it has its number.
LEMMA OpeningsRun ==
  ASSUME RecordsInv, NEW p \in Sessions, tx[p].kind = "open", pc[p] # "openContainer",
         NEW q \in Sessions
  PROVE  ~Blocks(q, p, Wants(p))
<1> SUFFICES ASSUME Blocks(q, p, Wants(p)) PROVE FALSE
  OBVIOUS
<1>1. SessionsTyped /\ Refers(p) /\ Distinct
  BY DEF RecordsInv, SessionOK
<1>2. p # q /\ Wants(p) # {}
  BY DEF Blocks
<1>3. pc[p] \in {"insert", "sum", "total"}
  BY <1>1 DEF Refers, Path
<1>4. pc[p] \in {"insert", "total"}
  BY <1>2, <1>3, WantsIs
<1>5. tx[q].opp = tx[p].opp
  BY <1>4, WaitsForOwner
<1> QED BY <1>1, <1>2, <1>5 DEF Distinct

LEMMA CyclesHavePlain ==
  ASSUME RecordsInv, NEW S \in SUBSET Sessions, Cycle(S)
  PROVE  \E p \in S : Plain(p)
<1> SUFFICES ASSUME \A p \in S : ~Plain(p) PROVE FALSE
  OBVIOUS
<1>1. /\ \A p \in S : p \in Sessions
      /\ \A p \in S : \E q \in S : Blocks(q, p, Wants(p))
      /\ S # {}
  BY DEF Cycle
<1>2. \A p \in S : ~OwnsParent(p)
  BY <1>1, OwnersWait
<1>3. \A p \in S : tx[p].kind = "open" => pc[p] = "openContainer"
  BY <1>1, OpeningsRun
<1>4. ASSUME NEW p \in S PROVE pc[p] \notin {"insert", "total", "parent"}
  BY <1>1, <1>2, WaitsForOwner
<1>5. ASSUME NEW p \in S PROVE pc[p] \notin {"lockChild", "cascadeChild", "update"}
  BY <1>1, <1>2, WaitsForChild
<1>6. PICK p \in S : TRUE
  BY <1>1
<1>7. p \in Sessions
  BY <1>1
<1>8. PICK q \in S : Blocks(q, p, Wants(p))
  BY <1>1
<1>9. SessionsTyped /\ HoldsOnly(q) /\ Refers(q) /\ q \in Sessions /\ Refers(p)
  BY <1>1 DEF RecordsInv, SessionOK
<1>10. \A r \in S : pc[r] \notin {"idle", "children", "sum", "cascade"}
  BY <1>1, WantsIs DEF Blocks
<1>11. pc[p] \in {"openContainer", "lockParent"}
  <2>1. pc[p] \in ControlPoint
    BY <1>7, <1>9, Types
  <2> QED BY <1>4, <1>5, <1>10, <2>1 DEF ControlPoint
<1>12. PICK a \in held[q], b \in Wants(p) : Conflict(a, b)
  BY <1>8 DEF Blocks
<1>13. CASE pc[p] = "openContainer"
  <2>1. a[1] = "number"
    BY <1>7, <1>12, <1>13, WantsIs DEF Conflict, Lock
  <2>2. tx[q].kind = "open" /\ pc[q] # "openContainer"
    BY <1>9, <2>1 DEF HoldsOnly, Lock
  <2> QED BY <1>3, <2>2
<1>14. CASE pc[p] = "lockParent"
  <2>1. a[1] = "opp"
    BY <1>7, <1>12, <1>14, WantsIs DEF Conflict, Lock
  <2>2. pc[q] \in {"sum", "total"}
    BY <1>2, <1>9, <2>1 DEF HoldsOnly, Lock, OwnsParent
  <2> QED BY <1>4, <1>10, <2>2
<1> QED BY <1>11, <1>13, <1>14

\* Waits among the transactions of updateOpportunity, updateOpportunityContainer and
\* createOpportunity close a cycle only through a Funnel edit without PPVVC.
THEOREM DeadlocksArePlain == Spec => []OnlyPlainEditsDeadlock
<1>1. RecordsInv => OnlyPlainEditsDeadlock
  BY CyclesHavePlain DEF OnlyPlainEditsDeadlock, Plain
<1> QED BY <1>1, RecordsInvariant, PTL

-----------------------------------------------------------------------------
(* What a commit says of the edit it ends.                                 *)

LEMMA CommitsLand ==
  ASSUME RecordsInv, NEW p \in Sessions, Committing(p)
  PROVE  Lands(p)
BY StoreLands, CascadeLands DEF Committing

LEMMA PatchLands ==
  ASSUME RecordsInv, NEW p \in Sessions, Committing(p), tx[p].kind # "open"
  PROVE  opp'[tx[p].opp].ppvvc = Over(tx[p].input.patch, opp[tx[p].opp].ppvvc)
BY CommitsLand DEF Lands, Patched

LEMMA PatchReaches ==
  ASSUME RecordsInv, NEW p \in Sessions, Committing(p), NEW f \in Funnels,
         NEW k \in DOMAIN tx[p].input.patch, funnel'[f].opp = tx[p].opp
  PROVE  funnel'[f].ppvvc[k] = tx[p].input.patch[k]
<1>1. Lands(p) /\ SessionsTyped /\ RowsTyped /\ Refers(p)
  BY CommitsLand DEF RecordsInv, RowsOK, SessionOK
<1>2. Patches(p) /\ ~Inserts(p)
  BY <1>1 DEF Patches, Refers
<1>3. funnel[f].opp = tx[p].opp
  BY <1>1, <1>2 DEF Lands
<1>4. funnel'[f].ppvvc = Patched(p, funnel[f].ppvvc)
  BY <1>1, <1>2, <1>3 DEF Lands, Children
<1>5. funnel[f].ppvvc \in Ppvvc
  BY <1>1, RowTypes
<1> QED BY <1>1, <1>4, <1>5, PatchedTyped

\* A PPVVC edit's commit writes its patch over what the last commit left, and every
\* child there then is has it: no edit is undone or widened by those it races with.
THEOREM PatchesLand == Spec => EditsLand
<1>1. ASSUME RecordsInv
      PROVE  \A p \in Sessions :
               Committing(p) /\ tx[p].kind # "open" =>
                 opp'[tx[p].opp].ppvvc = Over(tx[p].input.patch, opp[tx[p].opp].ppvvc)
  BY <1>1, PatchLands
<1>2. ASSUME RecordsInv
      PROVE  \A p \in Sessions :
               Committing(p) => \A f \in Funnels, k \in DOMAIN tx[p].input.patch :
                 funnel'[f].opp = tx[p].opp =>
                   funnel'[f].ppvvc[k] = tx[p].input.patch[k]
  BY <1>2, PatchReaches
<1>3. Spec => PatchesApply
  BY <1>1, RecordsInvariant, PTL DEF PatchesApply, Spec
<1>4. Spec => EditReachesChildren
  BY <1>2, RecordsInvariant, PTL DEF EditReachesChildren, Spec
<1> QED BY <1>3, <1>4 DEF EditsLand
=============================================================================
