------------------------- MODULE DeploymentSeatsProofs -------------------------
(***************************************************************************)
(* DeploymentSeats for any number of sessions, people and organizations:   *)
(* what a request has decided stays true until it commits, since whatever  *)
(* could change it waits for the row of deployment_seat_state.             *)
(***************************************************************************)
EXTENDS DeploymentSeats, FiniteSetTheorems, TLAPS

\* Whom a request that was admitted had counted.
Counted(s) == Occupants \cup Promised(tx[s].now, tx[s].id) \cup {tx[s].who}

\* The request commits under the lock of the seats.
Decided(s) == tx[s].at = "commit" /\ tx[s].op # "roles"

\* Which locks a request holds, by where it is.
Before == {"idle", "gate", "org", "owner", "row", "seat"}
HoldsAsNeeded(s) ==
  /\ tx[s].at \in Before => held[s] = {}
  /\ tx[s].at = "trigger" => held[s] = {"control"}
  /\ tx[s].at = "checkpoint" => held[s] = {"seat"}
  /\ tx[s].at = "decide" \/ Decided(s) => "seat" \in held[s]
  /\ tx[s].at = "commit" /\ tx[s].op = "roles" => held[s] = {}
  /\ tx[s].at \in {"org", "seat", "checkpoint", "decide"} => tx[s].op # "roles"
  /\ tx[s].at = "owner" => tx[s].op = "roles"

LocksExclude == \A s, r \in Sessions : s # r => held[s] \cap held[r] = {}

\* What a request that decided to go on still knows.
Admitted(s) ==
  Decided(s) /\ tx[s].op \in Admissions => Cardinality(Counted(s)) <= control.limit
Reserving(s) ==
  Decided(s) /\ tx[s].op \in {"reserve", "provision"} =>
    \/ /\ tx[s].id = Len(seats) + 1
       /\ \A i \in invites : i.org # tx[s].org \/ i.who # tx[s].who
    \/ \E i \in invites : i.id = tx[s].id /\ i.org = tx[s].org /\ i.who = tx[s].who
Activating(s) ==
  Decided(s) /\ tx[s].op \in Admissions \ {"reserve", "provision"} =>
    tx[s].id = 0 \/ \E i \in invites : i.id = tx[s].id
Revoking(s) ==
  Decided(s) /\ tx[s].op = "revoke" => \E i \in invites : i.id = tx[s].id
Claiming(s) ==
  Decided(s) /\ tx[s].op = "claim" /\ tx[s].who # ConfiguredOwner =>
    \A u \in People \ {tx[s].who} : profile[tx[s].org][u].status = "none"

Applying(s) ==
  tx[s].op = "apply" => tx[s].id \in DOMAIN Envelopes /\ tx[s].at \in {"row", "trigger"}

RequestOK(s) ==
  /\ HoldsAsNeeded(s) /\ Applying(s) /\ tx[s].now <= clock
  /\ Admitted(s) /\ Reserving(s) /\ Activating(s) /\ Revoking(s) /\ Claiming(s)

SeatsInv ==
  /\ TypeOK
  /\ LocksExclude
  /\ \A s \in Sessions : RequestOK(s)
  /\ InvitesHoldSeats

-----------------------------------------------------------------------------
(* Values.                                                                 *)

LEMMA NobodyType == Nobody \in People
BY SeatsAssumption DEF Nobody

LEMMA NoTxType == NoTx \in Tx
BY NobodyType, SeatsAssumption DEF NoTx, Tx, AllOperations, Point, RoleSet, Unassigned

LEMMA EnvelopeType ==
  \A r \in DOMAIN Envelopes : Envelopes[r] \in [limit : Nat, until : Nat]
<1>1. ASSUME NEW T, NEW q \in Seq(T) PROVE \A r \in DOMAIN q : q[r] \in T
  OBVIOUS
<1>2. Envelopes \in Seq([limit : Nat, until : Nat])
  BY SeatsAssumption
<1> QED BY <1>1, <1>2

LEMMA OnlyType == ASSUME NEW role \in Roles \cup {"none"} PROVE Only(role) \in RoleSet
BY DEF Only, RoleSet, Unassigned

LEMMA Greatest ==
  ASSUME NEW a \in Nat, NEW b \in Nat
  PROVE  Max({a, b}) \in Nat /\ Max({a, b}) >= a /\ Max({a, b}) >= b
<1>1. CASE a >= b
  <2>1. \E x \in {a, b} : \A y \in {a, b} : x >= y
    BY <1>1
  <2> QED BY <2>1 DEF Max
<1>2. CASE b >= a
  <2>1. \E x \in {a, b} : \A y \in {a, b} : x >= y
    BY <1>2
  <2> QED BY <2>1 DEF Max
<1> QED BY <1>1, <1>2

\* One element of the reservations changes, or one is added.
LEMMA SeatUpdate ==
  ASSUME NEW q \in Seq(Seat), NEW k \in DOMAIN q, NEW seat \in Seat
  PROVE  [q EXCEPT ![k] = seat] \in Seq(Seat) /\ DOMAIN [q EXCEPT ![k] = seat] = DOMAIN q
<1>1. DOMAIN q = 1 .. Len(q) /\ Len(q) \in Nat
  OBVIOUS
<1>2. [q EXCEPT ![k] = seat] \in [1 .. Len(q) -> Seat]
  BY <1>1
<1> QED BY <1>1, <1>2

LEMMA SeatAppend ==
  ASSUME NEW q \in Seq(Seat), NEW seat \in Seat
  PROVE  /\ Append(q, seat) \in Seq(Seat)
         /\ DOMAIN Append(q, seat) = DOMAIN q \cup {Len(q) + 1}
         /\ Append(q, seat)[Len(q) + 1] = seat
         /\ \A k \in DOMAIN q : Append(q, seat)[k] = q[k]
<1>1. Append(q, seat) \in Seq(Seat) /\ Len(Append(q, seat)) = Len(q) + 1
  OBVIOUS
<1>2. DOMAIN Append(q, seat) = 1 .. (Len(q) + 1) /\ DOMAIN q = 1 .. Len(q) /\ Len(q) \in Nat
  BY <1>1
<1>3. 1 .. (Len(q) + 1) = (1 .. Len(q)) \cup {Len(q) + 1}
  BY <1>2
<1>4. Append(q, seat)[Len(q) + 1] = seat /\ \A k \in 1 .. Len(q) : Append(q, seat)[k] = q[k]
  OBVIOUS
<1> QED BY <1>1, <1>2, <1>3, <1>4

LEMMA SeatMap ==
  ASSUME NEW q \in Seq(Seat), NEW f, DOMAIN f = DOMAIN q, f = [k \in DOMAIN f |-> f[k]],
         \A k \in DOMAIN q : f[k] \in Seat
  PROVE  f \in Seq(Seat)
<1>1. DOMAIN q = 1 .. Len(q) /\ Len(q) \in Nat
  OBVIOUS
<1>2. f \in [1 .. Len(q) -> Seat]
  BY <1>1
<1> QED BY <1>1, <1>2

\* People are finitely many, so fewer of them count for less.
LEMMA Fewer ==
  ASSUME NEW S, NEW T, S \subseteq People, T \subseteq S
  PROVE  Cardinality(T) <= Cardinality(S) /\ Cardinality(T) \in Nat /\ Cardinality(S) \in Nat
<1>1. IsFiniteSet(People)
  BY SeatsAssumption
<1>2. IsFiniteSet(S)
  BY <1>1, FS_Subset
<1>3. IsFiniteSet(T) /\ Cardinality(T) <= Cardinality(S)
  BY <1>2, FS_Subset
<1> QED BY <1>2, <1>3, FS_CardinalityType

LEMMA HoldersArePeople ==
  TypeOK => /\ SeatHolders(clock) \subseteq People
            /\ \A s \in Sessions : Counted(s) \subseteq People
<1> SUFFICES ASSUME TypeOK
             PROVE  /\ SeatHolders(clock) \subseteq People
                    /\ \A s \in Sessions : Counted(s) \subseteq People
  OBVIOUS
<1>1. Occupants \subseteq People
  BY DEF Occupants
<1>2. \A now, besides : Promised(now, besides) \subseteq People
  BY DEF TypeOK, Promised, Invite
<1>3. \A s \in Sessions : tx[s].who \in People
  BY DEF TypeOK, Tx
<1> QED BY <1>1, <1>2, <1>3 DEF SeatHolders, Counted

-----------------------------------------------------------------------------
(* Steps that leave the seats alone.                                       *)

SameStatuses == \A o \in Orgs, u \in People : profile'[o][u].status = profile[o][u].status

Quiet ==
  /\ seats' = seats /\ invites' = invites /\ SameStatuses
  /\ archived \subseteq archived' /\ control'.limit = control.limit /\ clock <= clock'

OthersStay(s) == \A r \in Sessions \ {s} : tx'[r] = tx[r] /\ held'[r] = held[r]

LEMMA QuietCounts ==
  ASSUME SeatsInv, TypeOK', Quiet
  PROVE  /\ SeatHolders(clock)' \subseteq SeatHolders(clock)
         /\ Used' <= Used
         /\ \A r \in Sessions : tx'[r] = tx[r] => Counted(r)' \subseteq Counted(r)
<1>1. Occupants' \subseteq Occupants
  BY DEF Quiet, SameStatuses, Occupants, Active
<1>2. \A now, besides : Promised(now, besides)' \subseteq Promised(now, besides)
  BY DEF Quiet, Promised
<1>3. Promised(clock, 0)' \subseteq Promised(clock, 0)
  <2>1. clock \in Nat /\ clock' \in Nat /\ clock <= clock'
    BY DEF Quiet, SeatsInv, TypeOK
  <2>2. \A i \in invites : seats[i.id].until \in Nat
    BY DEF SeatsInv, TypeOK, Invite, InvitesHoldSeats, Together
  <2>3. \A i \in invites : seats[i.id].until > clock' => seats[i.id].until > clock
    BY <2>1, <2>2
  <2> QED BY <2>3 DEF Quiet, Promised
<1>4. SeatHolders(clock)' \subseteq SeatHolders(clock)
  BY <1>1, <1>3 DEF SeatHolders
<1>5. Used' <= Used
  BY <1>4, HoldersArePeople, Fewer DEF Used, SeatsInv
<1>6. \A r \in Sessions : tx'[r] = tx[r] => Counted(r)' \subseteq Counted(r)
  BY <1>1, <1>2 DEF Counted
<1> QED BY <1>4, <1>5, <1>6

LEMMA QuietOther ==
  ASSUME SeatsInv, TypeOK', Quiet,
         NEW r \in Sessions, tx'[r] = tx[r], held'[r] = held[r]
  PROVE  RequestOK(r)'
<1>0. RequestOK(r)
  BY DEF SeatsInv
<1>1. HoldsAsNeeded(r)' /\ Applying(r)'
  BY <1>0 DEF RequestOK, HoldsAsNeeded, Applying, Decided
<1>2. (tx[r].now <= clock)'
  BY <1>0 DEF Quiet, RequestOK, SeatsInv, TypeOK, Tx
<1>3. Admitted(r)'
  <2>1. SUFFICES ASSUME Decided(r)', tx'[r].op \in Admissions
                 PROVE  Cardinality(Counted(r)') <= control'.limit
    BY DEF Admitted
  <2>2. Cardinality(Counted(r)) <= control.limit
    BY <1>0, <2>1 DEF RequestOK, Admitted, Decided
  <2>3. Counted(r)' \subseteq Counted(r) /\ Counted(r) \subseteq People
    BY QuietCounts, HoldersArePeople DEF SeatsInv
  <2>4. Cardinality(Counted(r)') <= Cardinality(Counted(r)) /\ Cardinality(Counted(r)') \in Nat
          /\ Cardinality(Counted(r)) \in Nat
    BY <2>3, Fewer
  <2>5. control.limit \in Nat /\ control'.limit = control.limit
    BY DEF Quiet, SeatsInv, TypeOK
  <2> QED BY <2>2, <2>4, <2>5
<1>4. Reserving(r)' /\ Activating(r)' /\ Revoking(r)'
  BY <1>0 DEF RequestOK, Reserving, Activating, Revoking, Decided, Quiet
<1>5. Claiming(r)'
  <2>1. tx[r].org \in Orgs
    BY DEF SeatsInv, TypeOK, Tx
  <2> QED BY <1>0, <2>1 DEF RequestOK, Claiming, Decided, Quiet, SameStatuses
<1> QED BY <1>1, <1>2, <1>3, <1>4, <1>5 DEF RequestOK

LEMMA QuietTogether ==
  ASSUME SeatsInv, TypeOK', Quiet
  PROVE  InvitesHoldSeats'
<1>1. clock \in Nat /\ clock' \in Nat /\ \A i \in invites : i.until \in Nat
  BY DEF SeatsInv, TypeOK, Invite
<1> QED BY <1>1 DEF SeatsInv, InvitesHoldSeats, Together, Quiet

\* What a step of one request does to the requests and their locks.
OwnStep(s) ==
  /\ tx' \in [Sessions -> Tx] /\ held' \in [Sessions -> SUBSET {"seat", "control"}]
  /\ OthersStay(s)
  /\ \A r \in Sessions \ {s} : held'[s] \cap held[r] = {}
  /\ RequestOK(s)'

LEMMA QuietStep ==
  ASSUME SeatsInv, TypeOK', Quiet, NEW s \in Sessions, OwnStep(s)
  PROVE  SeatsInv'
<1>1. \A r \in Sessions : RequestOK(r)'
  BY QuietOther DEF OwnStep, OthersStay
<1>2. LocksExclude'
  BY DEF LocksExclude, OthersStay, OwnStep, SeatsInv
<1> QED BY <1>1, <1>2, QuietTogether DEF SeatsInv

\* A request that has decided nothing promises nothing.
LEMMA Undecided ==
  ASSUME NEW s \in Sessions, ~Decided(s)',
         HoldsAsNeeded(s)', Applying(s)', (tx[s].now <= clock)'
  PROVE  RequestOK(s)'
BY DEF RequestOK, Admitted, Reserving, Activating, Revoking, Claiming, Decided

LEMMA EndStep ==
  ASSUME SeatsInv, clock' \in Nat, NEW s \in Sessions, End(s)
  PROVE  OwnStep(s)
<1>1. /\ tx' = [tx EXCEPT ![s] = NoTx] /\ held' = [held EXCEPT ![s] = {}]
      /\ tx \in [Sessions -> Tx] /\ held \in [Sessions -> SUBSET {"seat", "control"}]
  BY DEF End, SeatsInv, TypeOK
<1>2. tx' \in [Sessions -> Tx] /\ tx'[s] = NoTx
  BY <1>1, NoTxType
<1>3. held' \in [Sessions -> SUBSET {"seat", "control"}] /\ held'[s] = {}
  BY <1>1
<1>4. OthersStay(s)
  BY <1>1 DEF OthersStay
<1>5. tx'[s].at = "idle" /\ tx'[s].op = "none" /\ tx'[s].now = 0
  BY <1>2 DEF NoTx
<1>6. HoldsAsNeeded(s)' /\ Applying(s)' /\ ~Decided(s)'
  BY <1>3, <1>5 DEF HoldsAsNeeded, Before, Applying, Decided
<1>7. (tx[s].now <= clock)'
  BY <1>5
<1>8. RequestOK(s)'
  BY <1>5, <1>6, <1>7, Undecided
<1> QED BY <1>2, <1>3, <1>4, <1>8 DEF OwnStep

\* A request goes on, with the locks of where it goes.
LEMMA GotoFields ==
  ASSUME SeatsInv, NEW s \in Sessions, NEW point \in Point, Goto(s, point)
  PROVE  /\ tx' \in [Sessions -> Tx]
         /\ tx'[s].at = point /\ tx'[s].op = tx[s].op
         /\ tx'[s].id = tx[s].id /\ tx'[s].now = tx[s].now
         /\ \A r \in Sessions \ {s} : tx'[r] = tx[r]
<1>1. tx \in [Sessions -> Tx] /\ tx' = [tx EXCEPT ![s].at = point]
  BY DEF Goto, SeatsInv, TypeOK
<1> QED BY <1>1 DEF Tx

LEMMA GotoStep ==
  ASSUME SeatsInv, clock' = clock, NEW s \in Sessions, NEW point \in Point \ {"commit"},
         Goto(s, point), held' \in [Sessions -> SUBSET {"seat", "control"}],
         \A r \in Sessions \ {s} : held'[r] = held[r] /\ held'[s] \cap held[r] = {},
         HoldsAsNeeded(s)', tx[s].op = "apply" => point = "trigger"
  PROVE  OwnStep(s)
<1>1. /\ tx' \in [Sessions -> Tx] /\ tx'[s].at = point /\ tx'[s].now = tx[s].now
      /\ tx'[s].op = tx[s].op /\ tx'[s].id = tx[s].id
      /\ \A r \in Sessions \ {s} : tx'[r] = tx[r]
  BY GotoFields
<1>2. tx[s].now <= clock /\ Applying(s)
  BY DEF SeatsInv, RequestOK
<1>3. ~Decided(s)' /\ Applying(s)' /\ tx'[s].now <= clock'
  BY <1>1, <1>2 DEF Applying, Decided
<1>4. RequestOK(s)'
  BY <1>3, Undecided
<1> QED BY <1>1, <1>4 DEF OwnStep, OthersStay

LEMMA EnterStep ==
  ASSUME SeatsInv, clock' = clock, NEW s \in Sessions, Enter(s), tx[s].op # "apply"
  PROVE  OwnStep(s)
<1>1. CASE tx[s].op = "read"
  BY <1>1, EndStep DEF Enter, SeatsInv, TypeOK
<1>2. CASE tx[s].op # "read"
  <2> DEFINE point == CASE tx[s].op \in SignIns \cup {"provision"} -> "org"
                        [] tx[s].op = "roles" -> "owner"
                        [] OTHER -> "seat"
  <2>1. /\ tx' = [tx EXCEPT ![s].now = clock, ![s].at = point]
        /\ held' = [held EXCEPT ![s] = {}]
        /\ tx \in [Sessions -> Tx] /\ held \in [Sessions -> SUBSET {"seat", "control"}]
        /\ clock \in Nat
    BY <1>2 DEF Enter, SeatsInv, TypeOK
  <2>2. /\ point \in {"org", "owner", "seat"}
        /\ point = "owner" <=> tx[s].op = "roles"
    BY DEF SignIns
  <2>3. tx[s] \in Tx
    BY <2>1
  <2> HIDE DEF point
  <2>4. tx'[s] = [tx[s] EXCEPT !.now = clock, !.at = point]
    BY <2>1
  <2>5. tx'[s].at = point /\ tx'[s].op = tx[s].op /\ tx'[s].now = clock /\ tx'[s] \in Tx
    BY <2>1, <2>2, <2>3, <2>4 DEF Tx, Point
  <2>6. tx' \in [Sessions -> Tx] /\ \A r \in Sessions \ {s} : tx'[r] = tx[r]
    BY <2>1, <2>5
  <2>7. held'[s] = {} /\ held' \in [Sessions -> SUBSET {"seat", "control"}]
          /\ \A r \in Sessions \ {s} : held'[r] = held[r]
    BY <2>1
  <2>8. HoldsAsNeeded(s)' /\ Applying(s)' /\ ~Decided(s)' /\ tx'[s].now <= clock'
    BY <2>1, <2>2, <2>5, <2>7 DEF HoldsAsNeeded, Before, Applying, Decided
  <2>9. RequestOK(s)'
    BY <2>8, Undecided
  <2> QED BY <2>6, <2>7, <2>9 DEF OwnStep, OthersStay
<1> QED BY <1>1, <1>2

LEMMA TakeFields ==
  ASSUME SeatsInv, NEW s \in Sessions, NEW l \in {"seat", "control"}, Take(s, l)
  PROVE  /\ held' \in [Sessions -> SUBSET {"seat", "control"}]
         /\ held'[s] = held[s] \cup {l}
         /\ \A r \in Sessions \ {s} : held'[r] = held[r] /\ held'[s] \cap held[r] = {}
<1>1. /\ held' = [held EXCEPT ![s] = @ \cup {l}] /\ \A r \in Sessions \ {s} : l \notin held[r]
      /\ held \in [Sessions -> SUBSET {"seat", "control"}]
  BY DEF Take, Free, SeatsInv, TypeOK
<1>2. \A r \in Sessions \ {s} : held[s] \cap held[r] = {}
  BY DEF SeatsInv, LocksExclude
<1> QED BY <1>1, <1>2

LEMMA KeptFields ==
  ASSUME SeatsInv, held' = held, NEW s \in Sessions
  PROVE  /\ held' \in [Sessions -> SUBSET {"seat", "control"}]
         /\ held'[s] = held[s]
         /\ \A r \in Sessions \ {s} : held'[r] = held[r] /\ held'[s] \cap held[r] = {}
BY DEF SeatsInv, TypeOK, LocksExclude

\* What OverageNeverGrows says of a step.
Bounded == Used' > Used => Used' <= control'.limit

LEMMA QuietBounded ==
  ASSUME SeatsInv, TypeOK', Quiet
  PROVE  Bounded
<1>1. SeatHolders(clock) \subseteq People /\ SeatHolders(clock)' \subseteq People
  BY HoldersArePeople, QuietCounts DEF SeatsInv
<1>2. Used \in Nat /\ Used' \in Nat
  BY <1>1, Fewer DEF Used
<1> QED BY <1>2, QuietCounts DEF Bounded

\* Only requests and locks change.
LEMMA RequestStep ==
  ASSUME SeatsInv, UNCHANGED <<clock, tables>>, starts' \in Nat, NEW s \in Sessions, OwnStep(s)
  PROVE  SeatsInv' /\ Bounded
<1>1. TypeOK'
  BY DEF SeatsInv, TypeOK, tables, OwnStep
<1>2. control.limit' = control.limit /\ clock <= clock'
  BY DEF tables, SeatsInv, TypeOK
<1>3. Quiet
  BY <1>2 DEF Quiet, SameStatuses, tables
<1> QED BY <1>1, <1>3, QuietStep, QuietBounded

-----------------------------------------------------------------------------
(* The steps before a decision.                                            *)

LEMMA AskedType ==
  ASSUME SeatsInv, NEW op \in AllOperations, NEW at \in Point
  PROVE  /\ Asked(op, at) \in Tx
         /\ Asked(op, at).op = op /\ Asked(op, at).at = at /\ Asked(op, at).now = clock
BY NobodyType, SeatsAssumption DEF Asked, NoTx, Tx, RoleSet, Unassigned, SeatsInv, TypeOK

\* What a new request is.
Fresh(q) ==
  /\ q \in Tx /\ q.at \in {"gate", "row", "seat"} /\ q.now = clock
  /\ q.at = "seat" => q.op # "roles"
  /\ q.op = "apply" => q.id \in DOMAIN Envelopes /\ q.at = "row"

LEMMA LaunchStep ==
  ASSUME SeatsInv, UNCHANGED <<clock, tables, held>>, starts' \in Nat, NEW s \in Sessions,
         tx[s].at = "idle", NEW q, Fresh(q), tx' = [tx EXCEPT ![s] = q]
  PROVE  SeatsInv' /\ Bounded
<1>1. tx \in [Sessions -> Tx] /\ clock \in Nat /\ held[s] = {}
  BY DEF SeatsInv, TypeOK, RequestOK, HoldsAsNeeded, Before
<1>2. tx' \in [Sessions -> Tx] /\ tx'[s] = q /\ \A r \in Sessions \ {s} : tx'[r] = tx[r]
  BY <1>1 DEF Fresh
<1>3. /\ held' \in [Sessions -> SUBSET {"seat", "control"}] /\ held'[s] = {}
      /\ \A r \in Sessions \ {s} : held'[r] = held[r] /\ held'[s] \cap held[r] = {}
  BY <1>1, KeptFields
<1>4. HoldsAsNeeded(s)' /\ Applying(s)' /\ ~Decided(s)' /\ tx'[s].now <= clock'
  BY <1>1, <1>2, <1>3 DEF Fresh, HoldsAsNeeded, Before, Applying, Decided
<1>5. RequestOK(s)'
  BY <1>4, Undecided
<1>6. OwnStep(s)
  BY <1>2, <1>3, <1>5 DEF OwnStep, OthersStay
<1>7. UNCHANGED <<clock, tables>>
  OBVIOUS
<1> QED BY <1>6, <1>7, RequestStep

LEMMA AskedFresh ==
  ASSUME SeatsInv
  PROVE  /\ \A op \in Actions \cup SignIns \cup {"provision", "read", "roles"} :
              Fresh(Asked(op, "gate"))
         /\ Fresh(Asked("status", "seat"))
<1>1. ASSUME NEW op \in Actions \cup SignIns \cup {"provision", "read", "roles"}
      PROVE  Fresh(Asked(op, "gate"))
  <2>1. op \in AllOperations /\ "gate" \in Point /\ op # "apply"
    BY DEF AllOperations, Actions, SignIns, Point
  <2>2. /\ Asked(op, "gate") \in Tx /\ Asked(op, "gate").op = op
        /\ Asked(op, "gate").at = "gate" /\ Asked(op, "gate").now = clock
    BY <2>1, AskedType
  <2> QED BY <2>1, <2>2 DEF Fresh
<1>2. Fresh(Asked("status", "seat"))
  <2>1. "status" \in AllOperations /\ "seat" \in Point
    BY DEF AllOperations, Point
  <2>2. /\ Asked("status", "seat") \in Tx /\ Asked("status", "seat").op = "status"
        /\ Asked("status", "seat").at = "seat" /\ Asked("status", "seat").now = clock
    BY <2>1, AskedType
  <2> QED BY <2>2 DEF Fresh
<1> QED BY <1>1, <1>2

LEMMA Swept ==
  ASSUME NEW q, Fresh(q), NEW b \in BOOLEAN
  PROVE  Fresh([q EXCEPT !.sweep = b])
BY DEF Fresh, Tx

\* Some request is launched that is fresh.
Launched(s) == \E q : Fresh(q) /\ tx' = [tx EXCEPT ![s] = q]

LEMMA AskLaunches ==
  ASSUME SeatsInv, NEW s \in Sessions, NEW o \in Orgs, NEW u \in People,
         NEW actor \in People \cup Masters, NEW roles \in RoleSet, NEW id \in Nat,
         NEW op \in Actions \cup SignIns \cup {"provision", "roles"},
         Ask(s, op, o, u, actor, roles, id)
  PROVE  Launched(s)
<1> DEFINE q == [Asked(op, "gate") EXCEPT !.org = o, !.who = u, !.actor = actor,
                                          !.roles = roles, !.id = id]
<1>1. Fresh(Asked(op, "gate")) /\ Asked(op, "gate").at = "gate"
  BY AskedFresh, AskedType DEF AllOperations, Actions, SignIns, Point
<1>2. Fresh(q)
  BY <1>1 DEF Fresh, Tx
<1>3. tx' = [tx EXCEPT ![s] = q]
  BY DEF Ask, Launch
<1> QED BY <1>2, <1>3 DEF Launched

LEMMA BeginLaunches ==
  ASSUME SeatsInv, NEW s \in Sessions, BeginAction(s) \/ BeginSignIn(s) \/ BeginOther(s)
  PROVE  Launched(s)
<1>1. /\ \A role \in InviteRoles : Only(role) \in RoleSet
      /\ \A o \in Orgs, u \in People : Only(profile[o][u].roles.first) \in RoleSet
      /\ Only(JoinRole) \in RoleSet /\ Only("Owner") \in RoleSet /\ Unassigned \in RoleSet
      /\ RoleEdits \subseteq RoleSet
  <2>1. \A o \in Orgs, u \in People : profile[o][u].roles.first \in Roles \cup {"none"}
    BY DEF SeatsInv, TypeOK, Profile, RoleSet
  <2>2. Unassigned \in RoleSet
    BY DEF Unassigned, RoleSet
  <2> QED BY <2>1, <2>2, OnlyType, SeatsAssumption
<1>2. Nobody \in People \cup Masters /\ Home \in Orgs /\ Joinable \subseteq Orgs
  BY NobodyType, SeatsAssumption
<1>3. \A i \in invites : i.id \in Nat /\ i.org \in Orgs
  BY DEF SeatsInv, TypeOK, Invite
<1>4. CASE BeginAction(s)
  BY <1>1, <1>2, <1>3, <1>4, AskLaunches DEF BeginAction, Actions
<1>5. CASE BeginSignIn(s)
  <2>1. accounts \subseteq People
    BY DEF SeatsInv, TypeOK
  <2> QED BY <1>1, <1>2, <1>3, <1>5, <2>1, AskLaunches DEF BeginSignIn, SignIns
<1>6. CASE BeginOther(s)
  <2>1. CASE \E o \in Orgs, u \in People, role \in InviteRoles :
               Ask(s, "provision", o, u, Nobody, Only(role), 0)
    BY <1>1, <1>2, <2>1, AskLaunches
  <2>2. CASE Launch(s, Asked("read", "gate"))
    BY <2>2, AskedFresh DEF Launch, Launched
  <2>3. CASE Launch(s, [Asked("status", "seat") EXCEPT !.sweep = reconciled < clock])
    <3> DEFINE q == [Asked("status", "seat") EXCEPT !.sweep = reconciled < clock]
    <3>1. Fresh(Asked("status", "seat")) /\ (reconciled < clock) \in BOOLEAN
      BY AskedFresh
    <3>2. Fresh(q)
      BY <3>1, Swept
    <3>3. tx' = [tx EXCEPT ![s] = q]
      BY <2>3 DEF Launch
    <3> QED BY <3>2, <3>3 DEF Launched
  <2>4. CASE \E r \in DOMAIN Envelopes : Launch(s, [Asked("apply", "row") EXCEPT !.id = r])
    <3>1. /\ Asked("apply", "row") \in Tx /\ Asked("apply", "row").at = "row"
          /\ Asked("apply", "row").now = clock /\ DOMAIN Envelopes \subseteq Nat
      BY AskedType, SeatsAssumption DEF AllOperations, Point
    <3>2. PICK r \in DOMAIN Envelopes : Launch(s, [Asked("apply", "row") EXCEPT !.id = r])
      BY <2>4
    <3> DEFINE q == [Asked("apply", "row") EXCEPT !.id = r]
    <3>3. Fresh(q)
      BY <3>1 DEF Fresh, Tx
    <3>4. tx' = [tx EXCEPT ![s] = q]
      BY <3>2 DEF Launch
    <3> QED BY <3>3, <3>4 DEF Launched
  <2> QED BY <1>6, <2>1, <2>2, <2>3, <2>4, Zenon DEF BeginOther
<1> QED BY <1>4, <1>5, <1>6

LEMMA BeginStep ==
  ASSUME SeatsInv, NEW s \in Sessions, Begin(s)
  PROVE  SeatsInv' /\ Bounded
<1>1. /\ tx[s].at = "idle" /\ starts' = starts + 1 /\ UNCHANGED <<clock, tables, held>>
      /\ BeginAction(s) \/ BeginSignIn(s) \/ BeginOther(s)
  BY Zenon DEF Begin
<1>2. starts' \in Nat
  BY <1>1 DEF SeatsInv, TypeOK
<1>3. PICK q : Fresh(q) /\ tx' = [tx EXCEPT ![s] = q]
  BY <1>1, BeginLaunches DEF Launched
<1> QED BY <1>1, <1>2, <1>3, LaunchStep

LEMMA EndsHere ==
  ASSUME SeatsInv, UNCHANGED <<clock, tables, starts>>, NEW s \in Sessions, End(s)
  PROVE  SeatsInv' /\ Bounded
<1>1. clock' \in Nat /\ starts' \in Nat
  BY DEF SeatsInv, TypeOK
<1>2. OwnStep(s)
  BY <1>1, EndStep
<1> QED BY <1>1, <1>2, RequestStep

LEMMA GateStep ==
  ASSUME SeatsInv, NEW s \in Sessions, Gate(s)
  PROVE  SeatsInv' /\ Bounded
<1>1. tx[s].at = "gate" /\ UNCHANGED <<clock, tables, starts>>
  BY Zenon DEF Gate
<1>2. starts' \in Nat /\ held[s] = {} /\ (tx[s].at = "gate" => tx[s].op # "apply")
  BY <1>1 DEF SeatsInv, TypeOK, RequestOK, HoldsAsNeeded, Applying, Before
<1>3. CASE Take(s, "control") /\ Goto(s, "trigger")
  <2>1. tx'[s].at = "trigger" /\ held'[s] = {"control"}
    BY <1>2, <1>3, GotoFields, TakeFields DEF Point
  <2>2. HoldsAsNeeded(s)'
    BY <2>1 DEF HoldsAsNeeded, Before, Decided
  <2>3. OwnStep(s)
    BY <1>1, <1>2, <1>3, <2>2, GotoStep, TakeFields DEF Point
  <2> QED BY <1>1, <1>2, <2>3, RequestStep
<1>4. CASE Enter(s)
  BY <1>1, <1>2, <1>4, EnterStep, RequestStep
<1>5. CASE End(s)
  BY <1>1, <1>5, EndsHere
<1>6. (Take(s, "control") /\ Goto(s, "trigger")) \/ Enter(s) \/ End(s)
  BY Zenon DEF Gate
<1> QED BY <1>3, <1>4, <1>5, <1>6

LEMMA RowStep ==
  ASSUME SeatsInv, NEW s \in Sessions, Row(s)
  PROVE  SeatsInv' /\ Bounded
<1>1. tx[s].at = "row" /\ UNCHANGED <<clock, tables, starts>>
  BY Zenon DEF Row
<1>2. starts' \in Nat /\ held[s] = {} /\ (tx[s].at = "gate" => tx[s].op # "apply")
  BY <1>1 DEF SeatsInv, TypeOK, RequestOK, HoldsAsNeeded, Applying, Before
<1>3. CASE Take(s, "control") /\ Goto(s, "trigger")
  <2>1. tx'[s].at = "trigger" /\ held'[s] = {"control"}
    BY <1>2, <1>3, GotoFields, TakeFields DEF Point
  <2>2. HoldsAsNeeded(s)'
    BY <2>1 DEF HoldsAsNeeded, Before, Decided
  <2>3. OwnStep(s)
    BY <1>1, <1>2, <1>3, <2>2, GotoStep, TakeFields DEF Point
  <2> QED BY <1>1, <1>2, <2>3, RequestStep
<1>4. CASE End(s)
  BY <1>1, <1>4, EndsHere
<1>5. (Take(s, "control") /\ Goto(s, "trigger")) \/ End(s)
  BY Zenon DEF Row
<1> QED BY <1>3, <1>4, <1>5

LEMMA OrgCheckStep ==
  ASSUME SeatsInv, NEW s \in Sessions, OrgCheck(s)
  PROVE  SeatsInv' /\ Bounded
<1>1. tx[s].at = "org" /\ UNCHANGED <<clock, tables, starts>>
  BY Zenon DEF OrgCheck
<1>2. starts' \in Nat /\ held[s] = {} /\ tx[s].op \notin {"roles", "apply"}
  BY <1>1 DEF SeatsInv, TypeOK, RequestOK, HoldsAsNeeded, Applying, Before
<1>3. CASE Goto(s, "seat") /\ UNCHANGED held
  <2>1. tx'[s].at = "seat" /\ tx'[s].op = tx[s].op /\ held'[s] = {}
    BY <1>2, <1>3, GotoFields, KeptFields DEF Point
  <2>2. HoldsAsNeeded(s)'
    BY <1>2, <2>1 DEF HoldsAsNeeded, Before, Decided
  <2>3. OwnStep(s)
    BY <1>1, <1>2, <1>3, <2>2, GotoStep, KeptFields DEF Point
  <2> QED BY <1>1, <1>2, <2>3, RequestStep
<1>4. CASE End(s)
  BY <1>1, <1>4, EndsHere
<1>5. (Goto(s, "seat") /\ UNCHANGED held) \/ End(s)
  BY Zenon DEF OrgCheck
<1> QED BY <1>3, <1>4, <1>5

\* An edit of roles goes straight to its end: it is not a decision about seats.
LEMMA OwnerStep ==
  ASSUME SeatsInv, NEW s \in Sessions, Owner(s)
  PROVE  SeatsInv' /\ Bounded
<1>1. tx[s].at = "owner" /\ UNCHANGED <<clock, tables, starts>>
  BY Zenon DEF Owner
<1>2. /\ starts' \in Nat /\ held[s] = {} /\ tx[s].op = "roles"
      /\ tx[s] \in Tx /\ tx[s].now <= clock
  BY <1>1 DEF SeatsInv, TypeOK, RequestOK, HoldsAsNeeded, Before
<1>3. CASE Goto(s, "commit") /\ UNCHANGED held
  <2>1. /\ tx'[s].at = "commit" /\ tx'[s].op = "roles" /\ held'[s] = {}
        /\ tx'[s].now = tx[s].now
    BY <1>2, <1>3, GotoFields, KeptFields DEF Point
  <2>2. HoldsAsNeeded(s)' /\ Applying(s)' /\ ~Decided(s)' /\ tx'[s].now <= clock'
    BY <1>1, <1>2, <2>1 DEF HoldsAsNeeded, Before, Applying, Decided
  <2>3. RequestOK(s)'
    BY <2>2, Undecided
  <2>4. tx' \in [Sessions -> Tx] /\ \A r \in Sessions \ {s} : tx'[r] = tx[r]
    BY <1>3, GotoFields DEF Point
  <2>5. OwnStep(s)
    BY <1>3, <2>3, <2>4, KeptFields DEF OwnStep, OthersStay
  <2> QED BY <1>1, <1>2, <2>5, RequestStep
<1>4. CASE End(s)
  BY <1>1, <1>4, EndsHere
<1>5. (Goto(s, "commit") /\ UNCHANGED held) \/ End(s)
  BY Zenon DEF Owner
<1> QED BY <1>3, <1>4, <1>5

LEMMA LockSeatsStep ==
  ASSUME SeatsInv, NEW s \in Sessions, LockSeats(s)
  PROVE  SeatsInv' /\ Bounded
<1>1. tx[s].at = "seat" /\ UNCHANGED <<clock, tables, starts>>
  BY Zenon DEF LockSeats
<1>2. starts' \in Nat /\ held[s] = {} /\ tx[s].op \notin {"roles", "apply"}
  BY <1>1 DEF SeatsInv, TypeOK, RequestOK, HoldsAsNeeded, Applying, Before
<1>3. CASE Take(s, "seat") /\ Goto(s, "checkpoint")
  <2>1. tx'[s].at = "checkpoint" /\ tx'[s].op = tx[s].op /\ held'[s] = {"seat"}
    BY <1>2, <1>3, GotoFields, TakeFields DEF Point
  <2>2. HoldsAsNeeded(s)'
    BY <1>2, <2>1 DEF HoldsAsNeeded, Before, Decided
  <2>3. OwnStep(s)
    BY <1>1, <1>2, <1>3, <2>2, GotoStep, TakeFields DEF Point
  <2> QED BY <1>1, <1>2, <2>3, RequestStep
<1>4. CASE End(s)
  BY <1>1, <1>4, EndsHere
<1>5. (Take(s, "seat") /\ Goto(s, "checkpoint")) \/ End(s)
  BY Zenon DEF LockSeats, SeatLock
<1> QED BY <1>3, <1>4, <1>5

LEMMA CheckpointStep ==
  ASSUME SeatsInv, NEW s \in Sessions, Checkpoint(s)
  PROVE  SeatsInv' /\ Bounded
<1>1. tx[s].at = "checkpoint" /\ UNCHANGED <<clock, tables, starts>> /\ Goto(s, "decide")
  BY Zenon DEF Checkpoint
<1>2. starts' \in Nat /\ held[s] = {"seat"} /\ tx[s].op \notin {"roles", "apply"}
  BY <1>1 DEF SeatsInv, TypeOK, RequestOK, HoldsAsNeeded, Applying
<1>3. /\ held' \in [Sessions -> SUBSET {"seat", "control"}] /\ "seat" \in held'[s]
      /\ \A r \in Sessions \ {s} : held'[r] = held[r] /\ held'[s] \cap held[r] = {}
  <2>1. CASE Take(s, "control")
    BY <1>2, <2>1, TakeFields
  <2>2. CASE held' = held
    BY <1>2, <2>2, KeptFields
  <2> QED BY <2>1, <2>2 DEF Checkpoint
<1>4. tx'[s].at = "decide" /\ tx'[s].op = tx[s].op
  BY <1>1, <1>2, GotoFields DEF Point
<1>5. HoldsAsNeeded(s)'
  BY <1>2, <1>3, <1>4 DEF HoldsAsNeeded, Before, Decided
<1>6. OwnStep(s)
  BY <1>1, <1>2, <1>3, <1>5, GotoStep DEF Point
<1> QED BY <1>1, <1>2, <1>6, RequestStep

LEMMA AbortStep ==
  ASSUME SeatsInv, NEW s \in Sessions, Abort(s)
  PROVE  SeatsInv' /\ Bounded
BY EndsHere DEF Abort

-----------------------------------------------------------------------------
(* The decision.                                                           *)

LEMMA CheckedFields ==
  ASSUME SeatsInv, NEW s \in Sessions, control' \in {control, Checked(s)}
  PROVE  /\ control' \in [revision : DOMAIN Envelopes, limit : Nat, until : Nat, trusted : Nat]
         /\ control'.limit = control.limit
<1>1. /\ control \in [revision : DOMAIN Envelopes, limit : Nat, until : Nat, trusted : Nat]
      /\ tx[s].now \in Nat
  BY DEF SeatsInv, TypeOK, Tx
<1>2. Max({control.trusted, tx[s].now}) \in Nat
  BY <1>1, Greatest
<1>3. CASE control' = control
  BY <1>1, <1>3
<1>4. CASE control' = [control EXCEPT !.trusted = Max({control.trusted, tx[s].now})]
  BY <1>1, <1>2, <1>4
<1> QED BY <1>3, <1>4 DEF Checked

\* Of the tables, only the control row changes, and not its limit.
LEMMA ControlStep ==
  ASSUME SeatsInv, NEW s \in Sessions, OwnStep(s),
         control' \in [revision : DOMAIN Envelopes, limit : Nat, until : Nat, trusted : Nat],
         control'.limit = control.limit,
         UNCHANGED <<clock, reconciled, accounts, archived, profile, seats, invites, starts>>
  PROVE  SeatsInv' /\ Bounded
<1>1. TypeOK'
  BY DEF SeatsInv, TypeOK, OwnStep
<1>2. clock <= clock'
  BY DEF SeatsInv, TypeOK
<1>3. Quiet
  BY <1>2 DEF Quiet, SameStatuses
<1> QED BY <1>1, <1>3, QuietStep, QuietBounded

LEMMA TargetIs ==
  ASSUME NEW s \in Sessions
  PROVE  /\ tx[s].op \in {"reserve", "provision"} => Target(s) = InviteFor(s)
         /\ tx[s].op \in {"activate", "reactivate"} \cup SignIns => Target(s) = ChosenInvite(s)
         /\ tx[s].op = "revoke" =>
              Target(s) = 0 \/ \E i \in invites : i.id = Target(s)
         /\ tx[s].op \notin {"reserve", "provision", "activate", "reactivate", "revoke"}
                            \cup SignIns => Target(s) = 0
<1>1. tx[s].op \in {"reserve", "provision"} => Target(s) = InviteFor(s)
  BY DEF Target, SignIns
<1>2. tx[s].op \in {"activate", "reactivate"} \cup SignIns => Target(s) = ChosenInvite(s)
  BY DEF Target, SignIns
<1>3. tx[s].op = "revoke" => Target(s) = 0 \/ \E i \in invites : i.id = Target(s)
  <2>1. CASE \E i \in invites : i.id = tx[s].id /\ i.org = tx[s].org
    <3>1. tx[s].op = "revoke" => Target(s) = tx[s].id
      BY <2>1 DEF Target, SignIns
    <3> QED BY <2>1, <3>1
  <2>2. CASE ~\E i \in invites : i.id = tx[s].id /\ i.org = tx[s].org
    <3>1. tx[s].op = "revoke" => Target(s) = 0
      BY <2>2 DEF Target, SignIns
    <3> QED BY <3>1
  <2> QED BY <2>1, <2>2
<1>4. tx[s].op \notin {"reserve", "provision", "activate", "reactivate", "revoke"} \cup SignIns
        => Target(s) = 0
  BY DEF Target, SignIns
<1> QED BY <1>1, <1>2, <1>3, <1>4

LEMMA InviteForIs ==
  ASSUME NEW s \in Sessions
  PROVE  \/ /\ InviteFor(s) = Len(seats) + 1
            /\ \A i \in invites : i.org # tx[s].org \/ i.who # tx[s].who
         \/ \E i \in invites : i.id = InviteFor(s) /\ i.org = tx[s].org /\ i.who = tx[s].who
<1> DEFINE mine == {i \in invites : i.org = tx[s].org /\ i.who = tx[s].who}
<1>1. CASE mine = {}
  <2>1. InviteFor(s) = Len(seats) + 1
    BY <1>1 DEF InviteFor
  <2>2. \A i \in invites : i.org # tx[s].org \/ i.who # tx[s].who
    BY <1>1
  <2> QED BY <2>1, <2>2
<1>2. CASE mine # {}
  <2>1. (CHOOSE i \in mine : TRUE) \in mine
    BY <1>2
  <2>2. InviteFor(s) = (CHOOSE i \in mine : TRUE).id
    BY <1>2 DEF InviteFor
  <2> QED BY <2>1, <2>2
<1> QED BY <1>1, <1>2

LEMMA ChosenInviteIs ==
  ASSUME NEW s \in Sessions
  PROVE  ChosenInvite(s) = 0 \/ \E i \in invites : i.id = ChosenInvite(s)
<1>1. CASE tx[s].op = "consume"
  <2>1. CASE LiveInvite(s, tx[s].id)
    BY <1>1, <2>1 DEF ChosenInvite, LiveInvite
  <2>2. CASE ~LiveInvite(s, tx[s].id)
    BY <1>1, <2>2 DEF ChosenInvite
  <2> QED BY <2>1, <2>2
<1>2. CASE tx[s].op # "consume"
  <2> DEFINE mine == {i \in invites : LiveInvite(s, i.id)}
  <2>1. CASE mine = {}
    BY <1>2, <2>1 DEF ChosenInvite
  <2>2. CASE mine # {}
    <3>1. (CHOOSE i \in mine : TRUE) \in mine
      BY <2>2
    <3>2. ChosenInvite(s) = (CHOOSE i \in mine : TRUE).id
      BY <1>2, <2>2 DEF ChosenInvite
    <3> QED BY <3>1, <3>2
  <2> QED BY <2>1, <2>2
<1> QED BY <1>1, <1>2

LEMMA TargetType ==
  ASSUME SeatsInv, NEW s \in Sessions
  PROVE  Target(s) \in Nat
<1>1. \A i \in invites : i.id \in Nat
  BY DEF SeatsInv, TypeOK, Invite
<1>2. Len(seats) + 1 \in Nat
  BY DEF SeatsInv, TypeOK
<1> QED BY <1>1, <1>2, TargetIs, InviteForIs, ChosenInviteIs

LEMMA RolesGivenType ==
  ASSUME SeatsInv, NEW s \in Sessions, ~Refused(s), ~Kept(s)
  PROVE  RolesGiven(s) \in RoleSet
<1>1. CASE tx[s].op = "consume"
  <2>1. Target(s) # 0
    BY <1>1 DEF Refused, Kept
  <2>2. PICK j \in invites : j.id = Target(s)
    BY <1>1, <2>1, TargetIs, ChosenInviteIs DEF SignIns
  <2>3. (CHOOSE i \in invites : i.id = Target(s)) \in invites
    BY <2>2
  <2>4. (CHOOSE i \in invites : i.id = Target(s)).role \in Roles \cup {"none"}
    BY <2>3 DEF SeatsInv, TypeOK, Invite
  <2> QED BY <1>1, <2>4, OnlyType DEF RolesGiven
<1>2. CASE tx[s].op # "consume"
  BY <1>2 DEF RolesGiven, SeatsInv, TypeOK, Tx
<1> QED BY <1>1, <1>2

LEMMA DecideStep ==
  ASSUME SeatsInv, NEW s \in Sessions, Decide(s)
  PROVE  SeatsInv' /\ Bounded
<1>1. /\ tx[s].at = "decide"
      /\ UNCHANGED <<clock, reconciled, accounts, archived, profile, seats, invites, starts>>
  BY Zenon DEF Decide
<1>2. /\ "seat" \in held[s] /\ tx[s].op \notin {"roles", "apply"} /\ tx[s].now <= clock
      /\ tx \in [Sessions -> Tx] /\ clock \in Nat
  BY <1>1 DEF SeatsInv, TypeOK, RequestOK, HoldsAsNeeded, Applying
<1>3. CASE control' \in {control, Checked(s)} /\ End(s)
  <2>1. OwnStep(s)
    BY <1>1, <1>2, <1>3, EndStep
  <2> QED BY <1>1, <1>3, <2>1, CheckedFields, ControlStep
<1>4. ASSUME ~Refused(s), ~Kept(s), UNCHANGED <<control, held>>,
             tx' = [tx EXCEPT ![s].at = "commit", ![s].id = Target(s), ![s].roles = RolesGiven(s)]
      PROVE  SeatsInv' /\ Bounded
  <2>1. Target(s) \in Nat /\ RolesGiven(s) \in RoleSet
    BY <1>4, TargetType, RolesGivenType
  <2>2. /\ tx' \in [Sessions -> Tx] /\ tx'[s].at = "commit" /\ tx'[s].id = Target(s)
        /\ tx'[s].op = tx[s].op /\ tx'[s].org = tx[s].org /\ tx'[s].who = tx[s].who
        /\ tx'[s].now = tx[s].now /\ \A r \in Sessions \ {s} : tx'[r] = tx[r]
    <3> DEFINE q == [tx[s] EXCEPT !.at = "commit", !.id = Target(s), !.roles = RolesGiven(s)]
    <3>1. tx[s] \in Tx
      BY <1>2
    <3>2. /\ q \in Tx /\ q.at = "commit" /\ q.id = Target(s) /\ q.op = tx[s].op
          /\ q.org = tx[s].org /\ q.who = tx[s].who /\ q.now = tx[s].now
      BY <2>1, <3>1 DEF Tx, Point
    <3>3. tx' = [tx EXCEPT ![s] = q]
      BY <1>4
    <3> HIDE DEF q
    <3> QED BY <1>2, <3>2, <3>3
  <2>3. HoldsAsNeeded(s)' /\ Applying(s)' /\ (tx[s].now <= clock)'
    BY <1>1, <1>2, <1>4, <2>2 DEF HoldsAsNeeded, Applying, Before, Decided
  <2>4. Admitted(s)'
    <3>1. tx[s].op \in Admissions => Fits(s, Target(s))
      BY <1>4 DEF Refused
    <3>2. Counted(s)' = Occupants \cup Promised(tx[s].now, Target(s)) \cup {tx[s].who}
      BY <1>1, <2>2 DEF Counted, Occupants, Promised, Active
    <3> QED BY <1>4, <2>2, <3>1, <3>2 DEF Admitted, Fits
  <2>5. Reserving(s)'
    BY <1>1, <2>2, TargetIs, InviteForIs DEF Reserving
  <2>6. Activating(s)'
    BY <1>1, <2>2, TargetIs, ChosenInviteIs DEF Activating, Admissions
  <2>7. Revoking(s)'
    BY <1>1, <1>4, <2>2, TargetIs DEF Revoking, Kept
  <2>8. Claiming(s)'
    BY <1>1, <1>4, <2>2 DEF Claiming, Refused, ClaimRefused
  <2>9. OwnStep(s)
    BY <1>4, <2>2, <2>3, <2>4, <2>5, <2>6, <2>7, <2>8, KeptFields
       DEF OwnStep, OthersStay, RequestOK
  <2> QED BY <1>1, <1>4, <2>9, CheckedFields, ControlStep
<1>5. \/ control' \in {control, Checked(s)} /\ End(s)
      \/ /\ ~Refused(s) /\ ~Kept(s) /\ UNCHANGED <<control, held>>
         /\ tx' = [tx EXCEPT ![s].at = "commit", ![s].id = Target(s), ![s].roles = RolesGiven(s)]
  <2>1. CASE ~Refused(s) /\ ~Kept(s)
    BY <2>1, Zenon DEF Decide
  <2>2. CASE Refused(s)
    BY <2>2, Zenon DEF Decide
  <2>3. CASE ~Refused(s) /\ Kept(s)
    BY <2>3, Zenon DEF Decide
  <2> QED BY <2>1, <2>2, <2>3
<1> QED BY <1>3, <1>4, <1>5

-----------------------------------------------------------------------------
(* Steps that other decisions wait for.                                    *)

\* Whoever is not at work with the seats has decided nothing.
LEMMA NobodyElse ==
  ASSUME SeatsInv, NEW r \in Sessions, "seat" \notin held[r]
  PROVE  ~Decided(r)
BY DEF SeatsInv, RequestOK, HoldsAsNeeded

LEMMA LoudStep ==
  ASSUME SeatsInv, TypeOK', clock' = clock, NEW s \in Sessions, OwnStep(s), InvitesHoldSeats',
         \A r \in Sessions \ {s} : "seat" \notin held[r]
  PROVE  SeatsInv'
<1>1. ASSUME NEW r \in Sessions, r # s PROVE RequestOK(r)'
  <2>1. ~Decided(r) /\ RequestOK(r)
    BY <1>1, NobodyElse DEF SeatsInv
  <2>2. tx'[r] = tx[r] /\ held'[r] = held[r]
    BY <1>1 DEF OwnStep, OthersStay
  <2>3. HoldsAsNeeded(r)' /\ Applying(r)' /\ ~Decided(r)' /\ (tx[r].now <= clock)'
    BY <2>1, <2>2 DEF RequestOK, HoldsAsNeeded, Applying, Decided
  <2> QED BY <2>3, Undecided
<1>2. LocksExclude'
  BY DEF LocksExclude, OthersStay, OwnStep, SeatsInv
<1> QED BY <1>1, <1>2 DEF SeatsInv, OwnStep

LEMMA TriggerStep ==
  ASSUME SeatsInv, NEW s \in Sessions, Trigger(s)
  PROVE  SeatsInv' /\ Bounded
<1> DEFINE now == Max({control.trusted, tx[s].now})
<1>1. /\ tx[s].at = "trigger"
      /\ UNCHANGED <<clock, reconciled, accounts, archived, profile, seats, invites, starts>>
  BY Zenon DEF Trigger
<1>2. \A r \in Sessions \ {s} : "seat" \notin held[r]
  BY Zenon DEF Trigger, SeatLockTrigger, Free
<1>3. /\ control \in [revision : DOMAIN Envelopes, limit : Nat, until : Nat, trusted : Nat]
      /\ Applying(s) /\ tx[s].now \in Nat /\ clock \in Nat
  BY DEF SeatsInv, TypeOK, RequestOK, Tx
<1>4. now \in Nat
  BY <1>3, Greatest
<1>5. CASE tx[s].op = "apply"
  <2>1. /\ control' = [revision |-> tx[s].id, limit |-> Envelopes[tx[s].id].limit,
                       until |-> Envelopes[tx[s].id].until, trusted |-> now]
        /\ End(s)
    BY <1>5, Zenon DEF Trigger
  <2>2. tx[s].id \in DOMAIN Envelopes /\ Envelopes[tx[s].id] \in [limit : Nat, until : Nat]
    BY <1>3, <1>5, EnvelopeType DEF Applying
  <2> HIDE DEF now
  <2>3. control' \in [revision : DOMAIN Envelopes, limit : Nat, until : Nat, trusted : Nat]
    BY <1>4, <2>1, <2>2
  <2>4. OwnStep(s)
    BY <1>1, <1>3, <2>1, EndStep
  <2>5. TypeOK'
    BY <1>1, <2>3, <2>4 DEF SeatsInv, TypeOK, OwnStep
  <2>6. InvitesHoldSeats'
    BY <1>1 DEF SeatsInv, InvitesHoldSeats
  <2>7. SeatHolders(clock)' = SeatHolders(clock)
    BY <1>1 DEF SeatHolders, Occupants, Promised, Active
  <2>8. Used \in Nat /\ Used' = Used
    BY <2>7, HoldersArePeople, Fewer DEF Used, SeatsInv
  <2> QED BY <1>1, <1>2, <2>4, <2>5, <2>6, <2>8, LoudStep DEF Bounded
<1>6. CASE tx[s].op # "apply"
  <2>1. control' = [control EXCEPT !.trusted = now] /\ (Enter(s) \/ End(s))
    BY <1>6, Zenon DEF Trigger
  <2>2. OwnStep(s)
    BY <1>1, <1>3, <1>6, <2>1, EnterStep, EndStep
  <2> HIDE DEF now
  <2>3. /\ control' \in [revision : DOMAIN Envelopes, limit : Nat, until : Nat, trusted : Nat]
        /\ control'.limit = control.limit
    BY <1>3, <1>4, <2>1
  <2> QED BY <1>1, <2>2, <2>3, ControlStep
<1> QED BY <1>5, <1>6

-----------------------------------------------------------------------------
(* Commits.                                                                *)

LEMMA ProfileUpdate ==
  ASSUME SeatsInv, NEW o \in Orgs, NEW u \in People, NEW m \in Profile
  PROVE  /\ [profile EXCEPT ![o][u] = m] \in [Orgs -> [People -> Profile]]
         /\ \A p \in Orgs, v \in People :
              [profile EXCEPT ![o][u] = m][p][v] = IF p = o /\ v = u THEN m ELSE profile[p][v]
BY DEF SeatsInv, TypeOK

\* Reservations over by their time stay with their invitations.
LEMMA LapsedIs ==
  ASSUME SeatsInv, NEW s \in Sessions
  PROVE  /\ Lapsed(tx[s].now) \in Seq(Seat) /\ DOMAIN Lapsed(tx[s].now) = DOMAIN seats
         /\ Len(Lapsed(tx[s].now)) = Len(seats)
         /\ \A k \in DOMAIN seats :
              Lapsed(tx[s].now)[k].status = "reserved" => Lapsed(tx[s].now)[k] = seats[k]
         /\ Together(invites, Lapsed(tx[s].now), clock)
<1> DEFINE now == tx[s].now
           q == Lapsed(now)
<1>1. seats \in Seq(Seat) /\ now \in Nat /\ clock \in Nat /\ now <= clock
  BY DEF SeatsInv, TypeOK, RequestOK, Tx
<1>2. \A k \in DOMAIN seats : seats[k] \in Seat
  BY <1>1
<1>3. /\ DOMAIN q = DOMAIN seats /\ q = [k \in DOMAIN q |-> q[k]]
      /\ \A k \in DOMAIN seats :
           q[k] = IF seats[k].status = "reserved" /\ seats[k].until <= now
                  THEN [seats[k] EXCEPT !.status = "expired"] ELSE seats[k]
  BY DEF Lapsed
<1> HIDE DEF q
<1>4. \A k \in DOMAIN seats :
        /\ q[k] \in Seat /\ q[k].who = seats[k].who /\ q[k].until = seats[k].until
        /\ q[k].status = "reserved" => q[k] = seats[k]
        /\ \/ q[k].status = seats[k].status
           \/ q[k].status = "expired" /\ seats[k].until <= now
  BY <1>2, <1>3 DEF Seat
<1>5. q \in Seq(Seat)
  BY <1>1, <1>3, <1>4, SeatMap
<1>6. Len(q) = Len(seats)
  BY <1>1, <1>3, <1>5
<1>7. Together(invites, q, clock)
  <2>1. Together(invites, seats, clock)
    BY DEF SeatsInv, InvitesHoldSeats
  <2>2. \A k \in DOMAIN seats : seats[k].until \in Nat
    BY <1>2 DEF Seat
  <2>3. \A k \in DOMAIN seats : seats[k].until <= now => seats[k].until <= clock
    BY <1>1, <2>2
  <2> QED BY <1>3, <1>4, <2>1, <2>3 DEF Together
<1> QED BY <1>3, <1>4, <1>5, <1>6, <1>7 DEF q

\* An invitation and its reservation are written together: a new one, or again.
LEMMA PutTogether ==
  ASSUME NEW I, NEW q, NEW t, Together(I, q, t), NEW new, NEW p,
         p[new.id].status = "reserved", p[new.id].who = new.who, p[new.id].until = new.until,
         DOMAIN p = DOMAIN q \cup {new.id}, \A k \in DOMAIN q \ {new.id} : p[k] = q[k],
         \A i \in I : i.org = new.org /\ i.who = new.who => i.id = new.id
  PROVE  Together({i \in I : i.id # new.id} \cup {new}, p, t)
<1> DEFINE J == {i \in I : i.id # new.id} \cup {new}
<1>1. \A i \in J :
        /\ i.id \in DOMAIN p
        /\ p[i.id].who = i.who /\ p[i.id].until = i.until
        /\ \/ p[i.id].status = "reserved"
           \/ p[i.id].status = "expired" /\ i.until <= t
  BY DEF Together
<1>2. \A i, j \in J : (i.org = j.org /\ i.who = j.who) \/ i.id = j.id => i = j
  BY DEF Together
<1>3. \A k \in DOMAIN p : p[k].status = "reserved" => \E i \in J : i.id = k
  BY DEF Together
<1> QED BY <1>1, <1>2, <1>3 DEF Together

\* What every commit under the lock of the seats does besides.
Committing(s) ==
  /\ tx[s].at = "commit" /\ tx[s].op # "roles" /\ control' = Checked(s) /\ End(s)
  /\ UNCHANGED <<clock, accounts, archived, starts>>

LEMMA CommittingFields ==
  ASSUME SeatsInv, NEW s \in Sessions, Committing(s)
  PROVE  /\ OwnStep(s) /\ Decided(s) /\ RequestOK(s)
         /\ \A r \in Sessions \ {s} : "seat" \notin held[r]
         /\ control' \in [revision : DOMAIN Envelopes, limit : Nat, until : Nat, trusted : Nat]
         /\ control'.limit = control.limit
         /\ tx[s] \in Tx /\ tx[s].now <= clock /\ clock \in Nat
<1>1. OwnStep(s)
  BY EndStep DEF Committing, SeatsInv, TypeOK
<1>2. Decided(s) /\ RequestOK(s) /\ tx[s].now <= clock
  BY DEF Committing, Decided, SeatsInv, RequestOK
<1>3. \A r \in Sessions \ {s} : "seat" \notin held[r]
  BY <1>2 DEF SeatsInv, LocksExclude, RequestOK, HoldsAsNeeded
<1>4. tx[s] \in Tx /\ clock \in Nat
  BY DEF SeatsInv, TypeOK
<1> QED BY <1>1, <1>2, <1>3, <1>4, CheckedFields DEF Committing

\* A commit of well-formed tables that stay together is one of SeatsInv.
LEMMA CommitSafe ==
  ASSUME SeatsInv, NEW s \in Sessions, Committing(s),
         reconciled' \in Nat, profile' \in [Orgs -> [People -> Profile]],
         seats' \in Seq(Seat), invites' \subseteq Invite, Together(invites', seats', clock)
  PROVE  SeatsInv' /\ TypeOK'
<1>1. TypeOK'
  BY CommittingFields DEF Committing, SeatsInv, TypeOK, OwnStep
<1>2. InvitesHoldSeats'
  BY DEF InvitesHoldSeats, Committing
<1> QED BY <1>1, <1>2, CommittingFields, LoudStep DEF Committing

\* Whoever holds a seat afterwards held one, or was counted.
LEMMA FewHolders ==
  ASSUME SeatsInv, TypeOK', NEW s \in Sessions, Committing(s),
         \/ SeatHolders(clock)' \subseteq SeatHolders(clock)
         \/ tx[s].op \in Admissions /\ SeatHolders(clock)' \subseteq Counted(s)
  PROVE  Bounded
<1>1. SeatHolders(clock) \subseteq People /\ Counted(s) \subseteq People
  BY HoldersArePeople DEF SeatsInv
<1>2. control.limit \in Nat /\ control'.limit = control.limit
  BY CommittingFields DEF SeatsInv, TypeOK
<1>3. CASE SeatHolders(clock)' \subseteq SeatHolders(clock)
  <2>1. Used' <= Used /\ Used \in Nat /\ Used' \in Nat
    BY <1>1, <1>3, Fewer DEF Used
  <2> QED BY <2>1 DEF Bounded
<1>4. CASE tx[s].op \in Admissions /\ SeatHolders(clock)' \subseteq Counted(s)
  <2>1. Cardinality(Counted(s)) <= control.limit
    BY <1>4, CommittingFields DEF RequestOK, Admitted
  <2>2. /\ Used' <= Cardinality(Counted(s)) /\ Cardinality(Counted(s)) \in Nat
        /\ Used' \in Nat
    BY <1>1, <1>4, Fewer DEF Used
  <2>3. Used' <= control.limit
    BY <1>2, <2>1, <2>2
  <2> QED BY <1>2, <2>3 DEF Bounded
<1> QED BY <1>3, <1>4

\* What is promised afterwards was promised before, or to the person admitted.
LEMMA Promises ==
  ASSUME SeatsInv, NEW s \in Sessions, Committing(s), NEW new,
         invites' \subseteq Without(tx[s].id) \cup {new}, new.who = tx[s].who,
         \A i \in Without(tx[s].id) :
           seats'[i.id].status = "reserved" => seats'[i.id] = seats[i.id]
  PROVE  (Promised(clock, 0))' \subseteq Promised(tx[s].now, tx[s].id) \cup {tx[s].who}
<1>1. SUFFICES ASSUME NEW j \in invites', j.org \notin archived,
                      seats'[j.id].status = "reserved", seats'[j.id].until > clock
               PROVE  j.who \in Promised(tx[s].now, tx[s].id) \cup {tx[s].who}
  BY DEF Promised, Committing
<1>2. CASE j \in Without(tx[s].id)
  <2>1. seats[j.id].status = "reserved" /\ seats[j.id].until > clock /\ j.id # tx[s].id
          /\ j \in invites
    BY <1>1, <1>2 DEF Without
  <2>2. seats[j.id].until \in Nat
    <3>1. seats[j.id].until = j.until /\ j \in Invite
      BY <2>1 DEF SeatsInv, TypeOK, InvitesHoldSeats, Together
    <3> QED BY <3>1 DEF Invite
  <2>3. tx[s].now \in Nat /\ clock \in Nat /\ tx[s].now <= clock
    BY CommittingFields DEF Tx
  <2>4. seats[j.id].until > tx[s].now
    BY <2>1, <2>2, <2>3
  <2> QED BY <1>1, <2>1, <2>4 DEF Promised
<1>3. CASE j = new
  BY <1>3
<1> QED BY <1>1, <1>2, <1>3

LEMMA ReservationStep ==
  ASSUME SeatsInv, NEW s \in Sessions, Committing(s), CommitReservation(s)
  PROVE  SeatsInv' /\ Bounded
<1> DEFINE until == tx[s].now + Validity
           seat == [who |-> tx[s].who, status |-> "reserved", until |-> until]
           new == [id |-> tx[s].id, org |-> tx[s].org, who |-> tx[s].who,
                   role |-> tx[s].roles.first, until |-> until]
           q == Lapsed(tx[s].now)
<1>1. /\ tx[s].op \in {"reserve", "provision"}
      /\ seats' = IF tx[s].id > Len(seats) THEN Append(q, seat) ELSE [q EXCEPT ![tx[s].id] = seat]
      /\ invites' = Without(tx[s].id) \cup {new}
      /\ UNCHANGED <<reconciled, profile>>
  BY DEF CommitReservation, Invited
<1>2. /\ tx[s].id \in Nat /\ tx[s].org \in Orgs /\ tx[s].who \in People
      /\ tx[s].roles.first \in Roles \cup {"none"} /\ tx[s].now \in Nat
  BY CommittingFields DEF Tx, RoleSet
<1>3. until \in Nat /\ seat \in Seat /\ new \in Invite
  BY <1>2, SeatsAssumption DEF Seat, Invite
<1>4. /\ seat.status = "reserved" /\ seat.who = new.who /\ seat.until = new.until
      /\ new.id = tx[s].id /\ new.org = tx[s].org /\ new.who = tx[s].who
  OBVIOUS
<1>5. /\ q \in Seq(Seat) /\ DOMAIN q = DOMAIN seats /\ Len(q) = Len(seats)
      /\ \A k \in DOMAIN seats : q[k].status = "reserved" => q[k] = seats[k]
      /\ Together(invites, q, clock)
  BY LapsedIs
<1>6. /\ \A i \in invites : i.org = tx[s].org /\ i.who = tx[s].who => i.id = tx[s].id
      /\ tx[s].id = Len(seats) + 1 \/ tx[s].id \in DOMAIN seats
  BY <1>1, CommittingFields DEF RequestOK, Reserving, SeatsInv, InvitesHoldSeats, Together
<1>7. seats \in Seq(Seat)
  BY DEF SeatsInv, TypeOK
<1> HIDE DEF until, seat, new, q
<1>8. /\ seats' \in Seq(Seat) /\ DOMAIN seats' = DOMAIN q \cup {tx[s].id}
      /\ seats'[tx[s].id] = seat /\ \A k \in DOMAIN q \ {tx[s].id} : seats'[k] = q[k]
  <2>1. CASE tx[s].id = Len(seats) + 1
    <3>1. Len(seats) \in Nat
      BY <1>7
    <3>2. tx[s].id > Len(seats) /\ tx[s].id = Len(q) + 1
      BY <1>5, <2>1, <3>1
    <3>3. seats' = Append(q, seat)
      BY <1>1, <3>2
    <3> QED BY <1>3, <1>5, <3>2, <3>3, SeatAppend
  <2>2. CASE tx[s].id \in DOMAIN seats
    <3>1. seats' = [q EXCEPT ![tx[s].id] = seat]
      BY <1>1, <1>7, <2>2
    <3>2. seats' \in Seq(Seat) /\ DOMAIN seats' = DOMAIN q
      BY <1>3, <1>5, <2>2, <3>1, SeatUpdate
    <3> QED BY <1>5, <2>2, <3>1, <3>2
  <2> QED BY <1>6, <2>1, <2>2
<1>9. Together(invites', seats', clock)
  <2>1. /\ \A i \in invites : i.org = new.org /\ i.who = new.who => i.id = new.id
        /\ seats'[new.id].status = "reserved" /\ seats'[new.id].who = new.who
        /\ seats'[new.id].until = new.until /\ DOMAIN seats' = DOMAIN q \cup {new.id}
        /\ \A k \in DOMAIN q \ {new.id} : seats'[k] = q[k]
    BY <1>4, <1>6, <1>8
  <2>2. Together({i \in invites : i.id # new.id} \cup {new}, seats', clock)
    BY <1>5, <2>1, PutTogether
  <2>3. invites' = {i \in invites : i.id # new.id} \cup {new}
    BY <1>1, <1>4 DEF Without
  <2> QED BY <2>2, <2>3
<1>10. invites' \subseteq Invite
  BY <1>1, <1>3 DEF Without, SeatsInv, TypeOK
<1>11. reconciled' \in Nat /\ profile' \in [Orgs -> [People -> Profile]]
  BY <1>1 DEF SeatsInv, TypeOK
<1>12. SeatsInv' /\ TypeOK'
  BY <1>8, <1>9, <1>10, <1>11, CommitSafe
<1>13. \A i \in Without(tx[s].id) :
         seats'[i.id].status = "reserved" => seats'[i.id] = seats[i.id]
  BY <1>5, <1>8 DEF Without, SeatsInv, InvitesHoldSeats, Together
<1>14. SeatHolders(clock)' \subseteq Counted(s)
  <2>1. Occupants' = Occupants /\ clock' = clock
    BY <1>1 DEF Occupants, Active, Committing
  <2>2. Promised(clock, 0)' \subseteq Promised(tx[s].now, tx[s].id) \cup {tx[s].who}
    BY <1>1, <1>4, <1>13, Promises
  <2> QED BY <2>1, <2>2 DEF SeatHolders, Counted
<1> QED BY <1>1, <1>12, <1>14, FewHolders DEF Admissions

LEMMA ActivationStep ==
  ASSUME SeatsInv, NEW s \in Sessions, Committing(s), CommitActivation(s)
  PROVE  SeatsInv' /\ Bounded
<1> DEFINE id == tx[s].id
           q == Lapsed(tx[s].now)
           member == [status |-> "active", roles |-> tx[s].roles]
<1>1. /\ tx[s].op \in Admissions \ {"reserve", "provision"}
      /\ seats' = IF id = 0 THEN q ELSE [q EXCEPT ![id].status = "consumed"]
      /\ invites' = Without(id)
      /\ profile' = [profile EXCEPT ![tx[s].org][tx[s].who] = member]
      /\ reconciled' = reconciled
  BY DEF CommitActivation
<1>2. id \in Nat /\ tx[s].org \in Orgs /\ tx[s].who \in People /\ member \in Profile
  BY CommittingFields DEF Tx, Profile
<1>3. /\ q \in Seq(Seat) /\ DOMAIN q = DOMAIN seats
      /\ \A k \in DOMAIN seats : q[k].status = "reserved" => q[k] = seats[k]
      /\ Together(invites, q, clock)
  BY LapsedIs
<1>4. id = 0 \/ id \in DOMAIN seats
  BY <1>1, CommittingFields DEF RequestOK, Activating, SeatsInv, InvitesHoldSeats, Together
<1>5. 0 \notin DOMAIN seats
  BY DEF SeatsInv, TypeOK
<1> HIDE DEF q
<1>6. /\ seats' \in Seq(Seat) /\ DOMAIN seats' = DOMAIN q
      /\ \A k \in DOMAIN q \ {id} : seats'[k] = q[k]
      /\ id \in DOMAIN q => seats'[id].status # "reserved"
  <2>1. CASE id = 0
    BY <1>1, <1>3, <1>5, <2>1
  <2>2. CASE id \in DOMAIN seats
    <3>1. q[id] \in Seat
      BY <1>3, <2>2
    <3>2. [q[id] EXCEPT !.status = "consumed"] \in Seat
      BY <3>1 DEF Seat
    <3>3. seats' = [q EXCEPT ![id] = [q[id] EXCEPT !.status = "consumed"]]
      BY <1>1, <1>5, <2>2
    <3>4. seats' \in Seq(Seat) /\ DOMAIN seats' = DOMAIN q
      BY <1>3, <2>2, <3>2, <3>3, SeatUpdate
    <3>5. seats'[id].status = "consumed"
      BY <1>3, <2>2, <3>1, <3>3 DEF Seat
    <3> QED BY <1>3, <2>2, <3>3, <3>4, <3>5
  <2> QED BY <1>4, <2>1, <2>2
<1>7. Together(invites', seats', clock)
  <2>1. invites' \subseteq invites /\ \A i \in invites : i \in invites' <=> i.id # tx[s].id
    BY <1>1 DEF Without
  <2>2. \A k \in DOMAIN q : k # tx[s].id => seats'[k] = q[k]
    BY <1>6
  <2>3. tx[s].id \in DOMAIN q => seats'[tx[s].id].status # "reserved"
    BY <1>6
  <2> QED BY <1>3, <1>6, <2>1, <2>2, <2>3 DEF Together
<1>8. invites' \subseteq Invite
  BY <1>1 DEF Without, SeatsInv, TypeOK
<1>9. profile' \in [Orgs -> [People -> Profile]]
  BY <1>1, <1>2, ProfileUpdate
<1>10. SeatsInv' /\ TypeOK'
  <2>1. reconciled' \in Nat
    BY <1>1 DEF SeatsInv, TypeOK
  <2> QED BY <1>6, <1>7, <1>8, <1>9, <2>1, CommitSafe
<1>11. \A i \in Without(id) :
         seats'[i.id].status = "reserved" => seats'[i.id] = seats[i.id]
  BY <1>3, <1>6 DEF Without, SeatsInv, InvitesHoldSeats, Together
<1>12. SeatHolders(clock)' \subseteq Counted(s)
  <2>1. Occupants' \subseteq Occupants \cup {tx[s].who}
    <3>1. \A o \in Orgs, v \in People : v # tx[s].who => profile'[o][v] = profile[o][v]
      BY <1>1, <1>2, ProfileUpdate
    <3> QED BY <3>1 DEF Occupants, Active, Committing
  <2>2. \E new : new.who = tx[s].who
    <3>1. [who |-> tx[s].who].who = tx[s].who
      OBVIOUS
    <3> QED BY <3>1
  <2>3. Promised(clock, 0)' \subseteq Promised(tx[s].now, id) \cup {tx[s].who}
    BY <1>1, <1>11, <2>2, Promises
  <2> QED BY <2>1, <2>3 DEF SeatHolders, Counted, Committing
<1> QED BY <1>1, <1>10, <1>12, FewHolders

LEMMA ChangeStep ==
  ASSUME SeatsInv, NEW s \in Sessions, Committing(s), CommitChange(s)
  PROVE  SeatsInv' /\ Bounded
<1>1. tx[s].org \in Orgs /\ tx[s].who \in People
  BY CommittingFields DEF Tx
<1>2. PICK m \in Profile :
        m.status # "active" /\ profile' = [profile EXCEPT ![tx[s].org][tx[s].who] = m]
  <2>1. profile[tx[s].org][tx[s].who] \in Profile
    BY <1>1 DEF SeatsInv, TypeOK
  <2>2. CASE profile' = [profile EXCEPT ![tx[s].org][tx[s].who].status = "disabled"]
    <3> DEFINE m == [profile[tx[s].org][tx[s].who] EXCEPT !.status = "disabled"]
    <3>1. m \in Profile /\ m.status = "disabled"
      BY <2>1 DEF Profile
    <3>2. profile' = [profile EXCEPT ![tx[s].org][tx[s].who] = m]
      BY <1>1, <2>2 DEF SeatsInv, TypeOK
    <3> QED BY <3>1, <3>2
  <2>3. CASE profile' = [profile EXCEPT ![tx[s].org][tx[s].who] = NoMember]
    <3>1. NoMember \in Profile /\ NoMember.status = "none"
      BY DEF NoMember, Profile, Unassigned, RoleSet
    <3> QED BY <2>3, <3>1
  <2> QED BY <2>2, <2>3, Zenon DEF CommitChange
<1>3. UNCHANGED <<reconciled, seats, invites>>
  BY Zenon DEF CommitChange
<1>4. profile' \in [Orgs -> [People -> Profile]]
  BY <1>1, <1>2, ProfileUpdate
<1>5. SeatsInv' /\ TypeOK'
  BY <1>3, <1>4, CommitSafe DEF SeatsInv, TypeOK, InvitesHoldSeats
<1>6. SeatHolders(clock)' \subseteq SeatHolders(clock)
  <2>1. \A o \in Orgs, v \in People :
          profile'[o][v].status = "active" => profile[o][v].status = "active"
    BY <1>1, <1>2, ProfileUpdate
  <2>2. Occupants' \subseteq Occupants
    BY <2>1 DEF Occupants, Active, Committing
  <2>3. Promised(clock, 0)' = Promised(clock, 0)
    BY <1>3 DEF Promised, Committing
  <2> QED BY <2>2, <2>3 DEF SeatHolders
<1> QED BY <1>5, <1>6, FewHolders

LEMMA RevocationStep ==
  ASSUME SeatsInv, NEW s \in Sessions, Committing(s), CommitRevocation(s)
  PROVE  SeatsInv' /\ Bounded
<1> DEFINE id == tx[s].id
<1>1. /\ seats' = [seats EXCEPT ![id].status = IF @ = "reserved" THEN "released" ELSE @]
      /\ invites' = Without(id) /\ UNCHANGED <<reconciled, profile>> /\ tx[s].op = "revoke"
  BY Zenon DEF CommitRevocation
<1>2. id \in DOMAIN seats /\ seats \in Seq(Seat) /\ Together(invites, seats, clock)
  BY <1>1, CommittingFields
     DEF RequestOK, Revoking, SeatsInv, TypeOK, InvitesHoldSeats, Together
<1>3. /\ seats' \in Seq(Seat) /\ DOMAIN seats' = DOMAIN seats
      /\ \A k \in DOMAIN seats : k # id => seats'[k] = seats[k]
      /\ seats'[id].status # "reserved"
  <2> DEFINE status == IF seats[id].status = "reserved" THEN "released" ELSE seats[id].status
             seat == [seats[id] EXCEPT !.status = status]
  <2>1. seats[id] \in Seat
    BY <1>2
  <2>2. seat \in Seat /\ seat.status # "reserved"
    BY <2>1 DEF Seat
  <2>3. seats' = [seats EXCEPT ![id] = seat]
    BY <1>1
  <2> HIDE DEF seat
  <2> QED BY <1>2, <2>2, <2>3, SeatUpdate
<1>4. Together(invites', seats', clock)
  <2>1. invites' \subseteq invites /\ \A i \in invites : i \in invites' <=> i.id # id
    BY <1>1 DEF Without
  <2> QED BY <1>2, <1>3, <2>1 DEF Together
<1>5. invites' \subseteq Invite
  BY <1>1 DEF Without, SeatsInv, TypeOK
<1>6. SeatsInv' /\ TypeOK'
  <2>1. reconciled' \in Nat /\ profile' \in [Orgs -> [People -> Profile]]
    BY <1>1 DEF SeatsInv, TypeOK
  <2> QED BY <1>3, <1>4, <1>5, <2>1, CommitSafe
<1>7. SeatHolders(clock)' \subseteq SeatHolders(clock)
  <2>1. Occupants' = Occupants
    BY <1>1 DEF Occupants, Active, Committing
  <2>2. \A i \in invites' : i \in invites /\ i.id \in DOMAIN seats /\ seats'[i.id] = seats[i.id]
    BY <1>1, <1>2, <1>3 DEF Without, Together
  <2>3. Promised(clock, 0)' \subseteq Promised(clock, 0)
    BY <2>2 DEF Promised, Committing
  <2> QED BY <2>1, <2>3 DEF SeatHolders
<1> QED BY <1>6, <1>7, FewHolders

LEMMA StatusStep ==
  ASSUME SeatsInv, NEW s \in Sessions, Committing(s), CommitStatus(s)
  PROVE  SeatsInv' /\ Bounded
<1>1. seats \in Seq(Seat) /\ Together(invites, seats, clock) /\ profile' = profile
  BY DEF CommitStatus, SeatsInv, TypeOK, InvitesHoldSeats
<1>2. PICK pass \in SUBSET invites :
        /\ seats' = [k \in DOMAIN seats |->
                       IF \E i \in pass : i.id = k
                       THEN [seats[k] EXCEPT !.status = "expired"] ELSE seats[k]]
        /\ invites' = invites \ pass
  <2>1. CASE tx[s].sweep
    BY <2>1 DEF CommitStatus
  <2>2. CASE ~tx[s].sweep
    <3>1. seats' = seats /\ invites' = invites \ {}
      BY <2>2 DEF CommitStatus
    <3>2. seats = [k \in DOMAIN seats |->
                     IF \E i \in {} : i.id = k
                     THEN [seats[k] EXCEPT !.status = "expired"] ELSE seats[k]]
      BY <1>1
    <3> QED BY <3>1, <3>2
  <2> QED BY <2>1, <2>2
<1>3. reconciled' \in Nat
  <2>1. reconciled' \in {reconciled, tx[s].now}
    BY DEF CommitStatus
  <2> QED BY <2>1, CommittingFields DEF SeatsInv, TypeOK, Tx
<1>4. DOMAIN seats' = DOMAIN seats /\ seats' = [k \in DOMAIN seats' |-> seats'[k]]
  BY <1>2
<1>5. \A k \in DOMAIN seats :
        IF \E i \in pass : i.id = k
        THEN seats'[k] = [seats[k] EXCEPT !.status = "expired"] ELSE seats'[k] = seats[k]
  BY <1>2
<1>6. seats' \in Seq(Seat)
  <2>1. \A k \in DOMAIN seats : seats[k] \in Seat
    BY <1>1
  <2>2. \A k \in DOMAIN seats : [seats[k] EXCEPT !.status = "expired"] \in Seat
    BY <2>1 DEF Seat
  <2>3. ASSUME NEW k \in DOMAIN seats PROVE seats'[k] \in Seat
    <3>1. CASE \E i \in pass : i.id = k
      <4>1. seats'[k] = [seats[k] EXCEPT !.status = "expired"]
        BY <1>5, <3>1
      <4> QED BY <2>2, <4>1
    <3>2. CASE ~\E i \in pass : i.id = k
      BY <1>5, <2>1, <3>2
    <3> QED BY <3>1, <3>2
  <2> QED BY <1>1, <1>4, <2>3, SeatMap
<1>7. \A i \in invites' :
        /\ i \in invites /\ i.id \in DOMAIN seats /\ ~\E j \in pass : j.id = i.id
        /\ seats'[i.id] = seats[i.id]
  BY <1>1, <1>2, <1>5 DEF Together
<1>8. Together(invites', seats', clock)
  <2>1. \A k \in DOMAIN seats' : seats'[k].status = "reserved" => \E i \in invites' : i.id = k
    <3>1. SUFFICES ASSUME NEW k \in DOMAIN seats, seats'[k].status = "reserved"
                   PROVE  \E i \in invites' : i.id = k
      BY <1>4
    <3>2. CASE \E i \in pass : i.id = k
      <4>1. seats[k] \in Seat
        BY <1>1
      <4>2. seats'[k].status = "expired"
        BY <1>5, <3>2, <4>1 DEF Seat
      <4> QED BY <3>1, <4>2
    <3>3. CASE ~\E i \in pass : i.id = k
      <4>1. seats[k].status = "reserved"
        BY <1>5, <3>1, <3>3
      <4> QED BY <1>1, <1>2, <3>3, <4>1 DEF Together
    <3> QED BY <3>2, <3>3
  <2> QED BY <1>1, <1>4, <1>7, <2>1 DEF Together
<1>9. SeatsInv' /\ TypeOK'
  <2>1. invites' \subseteq Invite /\ profile' \in [Orgs -> [People -> Profile]]
    BY <1>1, <1>7 DEF SeatsInv, TypeOK
  <2> QED BY <1>3, <1>6, <1>8, <2>1, CommitSafe
<1>10. SeatHolders(clock)' \subseteq SeatHolders(clock)
  <2>1. Occupants' = Occupants
    BY <1>1 DEF Occupants, Active, Committing
  <2>2. Promised(clock, 0)' \subseteq Promised(clock, 0)
    BY <1>7 DEF Promised, Committing
  <2> QED BY <2>1, <2>2 DEF SeatHolders
<1> QED BY <1>9, <1>10, FewHolders

\* An edit of roles holds no lock and moves no status.
LEMMA RolesStep ==
  ASSUME SeatsInv, NEW s \in Sessions, Commit(s), tx[s].op = "roles"
  PROVE  SeatsInv' /\ Bounded
<1>1. /\ tx[s].at = "commit" /\ control' = Checked(s) /\ End(s)
      /\ UNCHANGED <<clock, accounts, archived, starts>>
  BY Zenon DEF Commit
<1>2. CommitRoles(s)
  BY DEF Commit, CommitReservation, CommitActivation, CommitChange, CommitRevocation,
         CommitStatus, Admissions, SignIns
<1>3. tx[s].org \in Orgs /\ tx[s].who \in People /\ tx[s].roles \in RoleSet
  BY DEF SeatsInv, TypeOK, Tx
<1>4. profile' \in [Orgs -> [People -> Profile]] /\ SameStatuses
  <2>1. CASE profile' = profile
    BY <2>1 DEF SeatsInv, TypeOK, SameStatuses
  <2>2. CASE profile' = [profile EXCEPT ![tx[s].org][tx[s].who].roles = tx[s].roles]
    <3> DEFINE m == [profile[tx[s].org][tx[s].who] EXCEPT !.roles = tx[s].roles]
    <3>1. profile[tx[s].org][tx[s].who] \in Profile
      BY <1>3 DEF SeatsInv, TypeOK
    <3>2. m \in Profile /\ m.status = profile[tx[s].org][tx[s].who].status
      BY <1>3, <3>1 DEF Profile
    <3>3. profile' = [profile EXCEPT ![tx[s].org][tx[s].who] = m]
      BY <1>3, <2>2 DEF SeatsInv, TypeOK
    <3> HIDE DEF m
    <3> QED BY <1>3, <3>2, <3>3, ProfileUpdate DEF SameStatuses
  <2> QED BY <1>2, <2>1, <2>2 DEF CommitRoles
<1>5. UNCHANGED <<reconciled, seats, invites>>
  BY <1>2, Zenon DEF CommitRoles
<1>6. OwnStep(s)
  BY <1>1, EndStep DEF SeatsInv, TypeOK
<1>7. /\ control' \in [revision : DOMAIN Envelopes, limit : Nat, until : Nat, trusted : Nat]
      /\ control'.limit = control.limit
  BY <1>1, CheckedFields
<1>8. TypeOK'
  BY <1>1, <1>4, <1>5, <1>6, <1>7 DEF SeatsInv, TypeOK, OwnStep
<1>9. Quiet
  BY <1>1, <1>4, <1>5, <1>7 DEF Quiet, SeatsInv, TypeOK
<1> QED BY <1>6, <1>8, <1>9, QuietStep, QuietBounded

LEMMA CommitStep ==
  ASSUME SeatsInv, NEW s \in Sessions, Commit(s)
  PROVE  SeatsInv' /\ Bounded
<1>1. CASE tx[s].op = "roles"
  BY <1>1, RolesStep
<1>2. CASE tx[s].op # "roles"
  <2>1. Committing(s)
    BY <1>2, Zenon DEF Commit, Committing
  <2>2. \/ CommitReservation(s) \/ CommitActivation(s) \/ CommitChange(s)
        \/ CommitRevocation(s) \/ CommitStatus(s)
    BY <1>2, Zenon DEF Commit, CommitRoles
  <2> QED BY <2>1, <2>2, ReservationStep, ActivationStep, ChangeStep, RevocationStep, StatusStep
<1> QED BY <1>1, <1>2

LEMMA OutsideStep ==
  ASSUME SeatsInv,
         (\E u \in People : SignUp(u)) \/ (\E o \in Orgs : Archive(o)) \/ Tick \/ UNCHANGED vars
  PROVE  SeatsInv' /\ Bounded
<1>1. /\ UNCHANGED <<control, reconciled, profile, seats, invites, held, tx>>
      /\ clock' \in {clock, clock + 1} /\ starts' \in {starts, starts + 1}
      /\ accounts' \subseteq People /\ archived' \subseteq Orgs /\ archived \subseteq archived'
  BY DEF SignUp, Archive, Tick, vars, tables, SeatsInv, TypeOK
<1>2. TypeOK'
  BY <1>1 DEF SeatsInv, TypeOK
<1>3. clock <= clock'
  BY <1>1 DEF SeatsInv, TypeOK
<1>4. Quiet
  BY <1>1, <1>3 DEF Quiet, SameStatuses
<1>5. \A r \in Sessions : RequestOK(r)'
  BY <1>1, <1>2, <1>4, QuietOther
<1>6. LocksExclude'
  BY <1>1 DEF SeatsInv, LocksExclude
<1> QED BY <1>2, <1>4, <1>5, <1>6, QuietTogether, QuietBounded DEF SeatsInv

-----------------------------------------------------------------------------
(* Theorems.                                                               *)

LEMMA SeatsInit == Init => SeatsInv
<1> SUFFICES ASSUME Init PROVE SeatsInv
  OBVIOUS
<1>1. PICK b \in Beginnings :
        /\ control = [revision |-> b.revision, limit |-> Envelopes[b.revision].limit,
                      until |-> Envelopes[b.revision].until, trusted |-> 0]
        /\ accounts = b.accounts /\ profile = b.profile
        /\ seats = b.seats /\ invites = b.invites
  BY Zenon DEF Init
<1>2. /\ clock = 0 /\ reconciled = 0 /\ archived = {} /\ starts = 0
      /\ held = [s \in Sessions |-> {}] /\ tx = [s \in Sessions |-> NoTx]
  BY Zenon DEF Init
<1>3. /\ b.revision \in DOMAIN Envelopes
      /\ b.accounts \subseteq People /\ b.profile \in [Orgs -> [People -> Profile]]
      /\ b.seats \in Seq(Seat) /\ b.invites \subseteq Invite
      /\ Together(b.invites, b.seats, 0)
  BY BeginningsAssumption
<1>4. control \in [revision : DOMAIN Envelopes, limit : Nat, until : Nat, trusted : Nat]
  BY <1>1, <1>3, EnvelopeType
<1>5. TypeOK
  BY <1>1, <1>2, <1>3, <1>4, NoTxType DEF TypeOK
<1>6. \A s \in Sessions : RequestOK(s)
  <2>1. \A s \in Sessions : tx[s].at = "idle" /\ tx[s].op = "none" /\ tx[s].now = 0 /\ held[s] = {}
    BY <1>2 DEF NoTx
  <2> QED BY <1>2, <2>1
       DEF RequestOK, HoldsAsNeeded, Applying, Before, Admitted, Reserving, Activating,
           Revoking, Claiming, Decided
<1>7. LocksExclude /\ InvitesHoldSeats
  BY <1>1, <1>2, <1>3 DEF LocksExclude, InvitesHoldSeats
<1> QED BY <1>5, <1>6, <1>7 DEF SeatsInv

LEMMA SeatsStep == SeatsInv /\ [Next]_vars => SeatsInv' /\ Bounded
<1> SUFFICES ASSUME SeatsInv, [Next]_vars PROVE SeatsInv' /\ Bounded
  OBVIOUS
<1>1. CASE \E s \in Sessions :
             \/ Begin(s) \/ Gate(s) \/ Row(s) \/ Trigger(s) \/ OrgCheck(s) \/ Owner(s)
             \/ LockSeats(s) \/ Checkpoint(s) \/ Decide(s) \/ Commit(s) \/ Abort(s)
  BY <1>1, BeginStep, GateStep, RowStep, TriggerStep, OrgCheckStep, OwnerStep, LockSeatsStep,
     CheckpointStep, DecideStep, CommitStep, AbortStep
<1>2. CASE (\E u \in People : SignUp(u)) \/ (\E o \in Orgs : Archive(o)) \/ Tick
             \/ UNCHANGED vars
  BY <1>2, OutsideStep
<1> QED BY <1>1, <1>2 DEF Next

\* What requests know and how invitations stand holds in every state.
THEOREM SeatsSafe == Spec => []SeatsInv
<1>1. SeatsInv /\ [Next]_vars => SeatsInv'
  BY SeatsStep
<1> QED BY <1>1, SeatsInit, PTL DEF Spec

\* Every variable of the seats keeps its type.
THEOREM SeatsTyped == Spec => []TypeOK
<1>1. SeatsInv => TypeOK
  BY DEF SeatsInv
<1> QED BY <1>1, SeatsSafe, PTL

\* Pending invitations and reservations belong together, whatever interleaves
\* (reserve, activate, release, reconcile).
THEOREM InvitesKept == Spec => []InvitesHoldSeats
<1>1. SeatsInv => InvitesHoldSeats
  BY DEF SeatsInv
<1> QED BY <1>1, SeatsSafe, PTL

\* No step, of however many concurrent admissions, takes more seats than the limit
\* in force allows: a lower limit may leave an overage, and nothing adds to it.
THEOREM LimitKept == Spec => OverageNeverGrows
<1>1. SeatsInv /\ [Next]_vars => [Used' > Used => Used' <= control'.limit]_vars
  BY SeatsStep DEF Bounded
<1> QED BY <1>1, SeatsSafe, PTL DEF Spec, OverageNeverGrows

LEMMA OnlyCommitsWriteProfiles ==
  ASSUME NEW s \in Sessions, [Next]_vars, tx[s].at = "commit", tx'[s].at = "idle",
         profile' # profile, tx \in [Sessions -> Tx]
  PROVE  Commit(s)
<1>1. PICK r \in Sessions : Commit(r)
  BY Zenon DEF Next, vars, tables, Begin, Gate, Row, Trigger, OrgCheck, Owner, LockSeats,
     Checkpoint, Decide, Abort, SignUp, Archive, Tick
<1>2. \A q \in Sessions \ {r} : tx'[q] = tx[q]
  BY <1>1 DEF Commit, End
<1> QED BY <1>1, <1>2

\* bootstrap_deployment_owner: two first sign-ins cannot both claim an organization.
THEOREM ClaimAlone == Spec => ClaimsAlone
<1> DEFINE Alone ==
      \A s \in Sessions :
        tx[s].op = "claim" /\ tx[s].who # ConfiguredOwner /\ profile' # profile
          /\ tx'[s].at = "idle" /\ tx[s].at = "commit"
        => \A u \in People \ {tx[s].who} : profile'[tx[s].org][u].status = "none"
<1>1. ASSUME SeatsInv, [Next]_vars, NEW s \in Sessions, tx[s].op = "claim",
             tx[s].who # ConfiguredOwner, profile' # profile, tx'[s].at = "idle",
             tx[s].at = "commit"
      PROVE  \A u \in People \ {tx[s].who} : profile'[tx[s].org][u].status = "none"
  <2>1. Commit(s)
    BY <1>1, OnlyCommitsWriteProfiles DEF SeatsInv, TypeOK
  <2>2. CommitActivation(s)
    BY <1>1, <2>1, Zenon
       DEF Commit, CommitReservation, CommitChange, CommitRevocation, CommitStatus, CommitRoles
  <2>3. tx[s].org \in Orgs /\ tx[s].who \in People /\ profile \in [Orgs -> [People -> Profile]]
    BY <1>1 DEF SeatsInv, TypeOK, Tx
  <2>4. profile' = [profile EXCEPT ![tx[s].org][tx[s].who] =
                      [status |-> "active", roles |-> tx[s].roles]]
    BY <2>2, Zenon DEF CommitActivation
  <2>5. \A u \in People \ {tx[s].who} : profile'[tx[s].org][u] = profile[tx[s].org][u]
    BY <2>3, <2>4
  <2>6. Claiming(s) /\ Decided(s)
    BY <1>1 DEF SeatsInv, RequestOK, Decided
  <2> QED BY <1>1, <2>5, <2>6 DEF Claiming
<1>2. SeatsInv /\ [Next]_vars => [Alone]_vars
  BY <1>1
<1> QED BY <1>2, SeatsSafe, PTL DEF Spec, ClaimsAlone

\* The order in which the functions and triggers lock the rows of the seats and of
\* the control state closes a circle only through a checkpoint that is due.
THEOREM NoOtherDeadlock == Spec => []DeadlockNeedsCheckpoint
<1>1. ASSUME SeatsInv, NEW s \in Sessions, NEW r \in Sessions, Awaits(s, r), Awaits(r, s)
      PROVE  \E t \in {s, r} : tx[t].at = "checkpoint" /\ control.trusted < tx[t].now
  <2>1. HoldsAsNeeded(s) /\ HoldsAsNeeded(r)
    BY <1>1 DEF SeatsInv, RequestOK
  <2>2. held[s] # {} /\ held[r] # {}
    BY <1>1 DEF Awaits
  <2>3. tx[s].at \in {"trigger", "checkpoint"} /\ tx[r].at \in {"trigger", "checkpoint"}
    BY <1>1, <2>1, <2>2 DEF Awaits, HoldsAsNeeded, Before
  <2>4. ~(tx[s].at = "trigger" /\ tx[r].at = "trigger")
    BY <1>1, <2>1 DEF Awaits, HoldsAsNeeded
  <2> QED BY <1>1, <2>3, <2>4 DEF Awaits, CheckpointDue
<1>2. SeatsInv => DeadlockNeedsCheckpoint
  BY <1>1 DEF DeadlockNeedsCheckpoint
<1> QED BY <1>2, SeatsSafe, PTL
=============================================================================
