---------------------------- MODULE DeploymentSeats ----------------------------
(***************************************************************************)
(* The licensed seats of one deployment: invitations that reserve a seat,  *)
(* memberships that occupy one, and the signed limit                       *)
(* (src/apps/web/lib/deployment-seats.ts, migrations 0066 to 0075 and      *)
(* 0089, team/actions.ts, lib/auth.ts, lib/bootstrap.ts).                  *)
(*                                                                         *)
(* Every change of a seat goes through a function of the database that     *)
(* first locks the row of deployment_seat_state and keeps it until its     *)
(* transaction ends.  Role edits and the archiving of an organization lock *)
(* nothing of it.  A person stands for a user and for the email.           *)
(***************************************************************************)
EXTENDS Naturals, Sequences, FiniteSets, FiniteSetsExt

CONSTANTS
  Sessions,      \* requests at work
  People, Orgs,
  Masters,       \* verified platform masters, members of nothing
  Home,          \* the organization the first sign-in may claim
  ConfiguredOwner, \* BOOTSTRAP_OWNER_EMAIL; anything else when there is none
  Joinable,      \* organizations people join by the domain of their email
  Roles, JoinRole,
  RoleEdits,     \* what a role edit may enter
  Envelopes,     \* the signed entitlements, by revision
  InviteRoles,   \* what an invitation or an activation may give
  Beginnings,    \* what a deployment may have at the start
  Operations,    \* operations of an instance, of AllOperations
  Validity,      \* ticks an invitation lives, a tick being 15 minutes or more
  SweepLimit,    \* expired invitations one pass removes (500)
  MaxTime, MaxStarts \* bounds: ticks, requests

Actions    == {"reserve", "activate", "reactivate", "disable", "remove", "revoke"}
SignIns    == {"consume", "join", "claim"}
AllOperations ==
  Actions \cup SignIns \cup {"provision", "read", "status", "apply", "roles", "archive"}
Authority  == {"Owner", "Admin"}

Unassigned == [first |-> "none", all |-> {}]
RoleSet    == [first : Roles \cup {"none"}, all : SUBSET Roles]
Only(role) == IF role = "none" THEN Unassigned ELSE [first |-> role, all |-> {role}]

Profile  == [status : {"none", "active", "disabled"}, roles : RoleSet]
NoMember == [status |-> "none", roles |-> Unassigned]
Seat     == [who : People, status : {"reserved", "consumed", "released", "expired"}, until : Nat]
Invite   ==
  [id : Nat, org : Orgs, who : People, role : Roles \cup {"none"}, until : Nat]

\* Pending invitations and their reservations, as they belong together.
Together(pending, reservations, now) ==
  /\ \A i \in pending :
       /\ i.id \in DOMAIN reservations
       /\ reservations[i.id].who = i.who /\ reservations[i.id].until = i.until
       /\ \/ reservations[i.id].status = "reserved"
          \/ reservations[i.id].status = "expired" /\ i.until <= now
  /\ \A i, j \in pending : (i.org = j.org /\ i.who = j.who) \/ i.id = j.id => i = j
  /\ \A k \in DOMAIN reservations :
       reservations[k].status = "reserved" => \E i \in pending : i.id = k

ASSUME SeatsAssumption ==
  /\ Masters \cap People = {} /\ Home \in Orgs /\ Joinable \subseteq Orgs
  /\ "Owner" \in Roles /\ "none" \notin Roles /\ JoinRole \in Roles /\ InviteRoles \subseteq Roles
  /\ RoleEdits \subseteq RoleSet
  /\ Envelopes \in Seq([limit : Nat, until : Nat]) /\ Envelopes # <<>>
  /\ IsFiniteSet(People) /\ People # {}
  /\ Operations \subseteq AllOperations
  /\ Validity \in Nat \ {0} /\ SweepLimit \in Nat \ {0}
  /\ MaxTime \in Nat /\ MaxStarts \in Nat

\* Migration 0068 starts with a reservation for every invitation.
ASSUME BeginningsAssumption ==
  \A b \in Beginnings :
    /\ b.revision \in DOMAIN Envelopes
    /\ b.accounts \subseteq People /\ b.profile \in [Orgs -> [People -> Profile]]
    /\ b.seats \in Seq(Seat) /\ b.invites \subseteq Invite
    /\ Together(b.invites, b.seats, 0)

VARIABLES
  clock,
  control,    \* deployment_control_state
  reconciled, \* deployment_seat_state.last_reconciled_at
  accounts,   \* rows of "user"
  archived,   \* organizations with status archived
  profile,    \* member with membership_profiles (roles.first is role_id) and member_roles
  seats,      \* deployment_seat_reservations, in order of creation
  invites,    \* pending_invites, their id an index into seats
  held,       \* row locks: of deployment_seat_state and of deployment_control_state
  tx,         \* the request of each session
  starts

tables == <<control, reconciled, accounts, archived, profile, seats, invites>>
vars   == <<clock, tables, held, tx, starts>>

Point ==
  {"idle", "gate", "org", "owner", "row", "trigger", "seat", "checkpoint", "decide", "commit"}

\* now: the instant the request works with, taken before it waits for a lock; id:
\* an invitation, the revision applied, or 0; sweep: the status call reconciles.
Tx ==
  [op : AllOperations \cup {"none"}, at : Point, org : Orgs, who : People,
   actor : People \cup Masters, roles : RoleSet, id : Nat, now : Nat, sweep : BOOLEAN]
Nobody == CHOOSE p \in People : TRUE
NoTx ==
  [op |-> "none", at |-> "idle", org |-> Home, who |-> Nobody, actor |-> Nobody,
   roles |-> Unassigned, id |-> 0, now |-> 0, sweep |-> FALSE]

TypeOK ==
  /\ clock \in Nat
  /\ control \in [revision : DOMAIN Envelopes, limit : Nat, until : Nat, trusted : Nat]
  /\ reconciled \in Nat
  /\ accounts \subseteq People /\ archived \subseteq Orgs
  /\ profile \in [Orgs -> [People -> Profile]]
  /\ seats \in Seq(Seat)
  /\ invites \subseteq Invite
  /\ held \in [Sessions -> SUBSET {"seat", "control"}]
  /\ tx \in [Sessions -> Tx]
  /\ starts \in Nat

Init ==
  /\ clock = 0
  /\ \E b \in Beginnings :
       /\ control = [revision |-> b.revision, limit |-> Envelopes[b.revision].limit,
                     until |-> Envelopes[b.revision].until, trusted |-> 0]
       /\ accounts = b.accounts /\ profile = b.profile
       /\ seats = b.seats /\ invites = b.invites
  /\ reconciled = 0 /\ archived = {}
  /\ held = [s \in Sessions |-> {}]
  /\ tx = [s \in Sessions |-> NoTx]
  /\ starts = 0

-----------------------------------------------------------------------------
(* What the tables say.                                                    *)

Active(o, u) == profile[o][u].status = "active"

Entitled(o, u) ==
  LET r == profile[o][u].roles IN
  Active(o, u) /\ (r.all \cup {r.first}) \cap Authority # {}

\* change_deployment_membership looks at every role, isLastOwner at the first.
IsOwner(o, u) ==
  Active(o, u) /\ "Owner" \in profile[o][u].roles.all \cup {profile[o][u].roles.first}
FirstOwners(o) == {u \in People : Active(o, u) /\ profile[o][u].roles.first = "Owner"}

\* require_deployment_seat_actor; team/actions.ts asks for the permission.
MayAct(o, actor) == IF actor \in Masters THEN TRUE ELSE Entitled(o, actor)

\* deployment_seat_access.
Writable(now) == Max({now, control.trusted}) <= control.until

\* deployment_seat_snapshot: a person is counted once, whatever the number of
\* organizations, and an invited person only if active nowhere.
Occupants == {u \in People : \E o \in Orgs \ archived : Active(o, u)}
Promised(now, besides) ==
  {i.who : i \in {j \in invites : /\ j.org \notin archived /\ j.id # besides
                                  /\ seats[j.id].status = "reserved"
                                  /\ seats[j.id].until > now}}
SeatHolders(now) == Occupants \cup Promised(now, 0)

Fits(s, id) ==
  Cardinality(Occupants \cup Promised(tx[s].now, id) \cup {tx[s].who}) <= control.limit

\* Mutant: the control row is locked whenever it is read.
AlwaysLocked(s) == TRUE

\* The checkpoint of read_deployment_entitlement_state: once in 60 seconds.
CheckpointDue(s) == control.trusted < tx[s].now

-----------------------------------------------------------------------------
(* Requests.                                                               *)

Free(s, l) == \A r \in Sessions \ {s} : l \notin held[r]

Take(s, l) == Free(s, l) /\ held' = [held EXCEPT ![s] = @ \cup {l}]

Goto(s, point) == tx' = [tx EXCEPT ![s].at = point]

\* Refused, rolled back or committed.
End(s) ==
  /\ tx' = [tx EXCEPT ![s] = NoTx]
  /\ held' = [held EXCEPT ![s] = {}]

Launch(s, request) ==
  /\ request.op \in Operations
  /\ tx' = [tx EXCEPT ![s] = request]

Asked(op, at) == [NoTx EXCEPT !.op = op, !.at = at, !.now = clock]

Ask(s, op, o, u, actor, roles, id) ==
  Launch(s, [Asked(op, "gate") EXCEPT !.org = o, !.who = u, !.actor = actor,
                                      !.roles = roles, !.id = id])

\* addMember invites who has no account and activates who has one; setMemberStatus
\* and removeMember look at the profile, revokePendingInvite at nothing.
BeginAction(s) ==
  \E o \in Orgs, u \in People, role \in InviteRoles, actor \in People \cup Masters :
    LET m == profile[o][u] IN
    /\ MayAct(o, actor)
    /\ \/ u \notin accounts /\ Ask(s, "reserve", o, u, actor, Only(role), 0)
       \/ /\ u \in accounts /\ m.status = "none"
          /\ Ask(s, "activate", o, u, actor, Only(role), 0)
       \/ /\ m.status = "disabled" /\ actor # u
          /\ Ask(s, "reactivate", o, u, actor, Only(m.roles.first), 0)
       \/ m.status = "active" /\ actor # u /\ Ask(s, "disable", o, u, actor, Unassigned, 0)
       \/ m.status # "none" /\ actor # u /\ Ask(s, "remove", o, u, actor, Unassigned, 0)
       \/ /\ m.status # "none" /\ actor # u
          /\ \E roles \in RoleEdits : Ask(s, "roles", o, u, Nobody, roles, 0)
       \/ \E i \in invites : /\ i.org = o /\ i.who = u
                            /\ Ask(s, "revoke", o, u, actor, Unassigned, i.id)

\* consumePendingInvites takes each live invitation it finds, autoJoinByDomain the
\* organization of the domain; ensureBootstrap claims the first organization.
BeginSignIn(s) ==
  \E u \in accounts :
    \/ \E i \in invites : /\ i.who = u /\ i.until > clock
                         /\ Ask(s, "consume", i.org, u, Nobody, Unassigned, i.id)
    \/ \E o \in Joinable : /\ profile[o][u].status = "none"
                          /\ Ask(s, "join", o, u, Nobody, Only(JoinRole), 0)
    \/ Ask(s, "claim", Home, u, Nobody, Only("Owner"), 0)

\* createEntity reserves the seats of a new organization; pages read the access;
\* the agent asks for the status and puts entitlements.
BeginOther(s) ==
  \/ \E o \in Orgs, u \in People, role \in InviteRoles :
       /\ \A v \in People : profile[o][v].status = "none"
       /\ Ask(s, "provision", o, u, Nobody, Only(role), 0)
  \/ Launch(s, Asked("read", "gate"))
  \/ Launch(s, [Asked("status", "seat") EXCEPT !.sweep = reconciled < clock])
  \/ \E r \in DOMAIN Envelopes : Launch(s, [Asked("apply", "row") EXCEPT !.id = r])

Begin(s) ==
  /\ tx[s].at = "idle" /\ starts < MaxStarts
  /\ starts' = starts + 1
  /\ BeginAction(s) \/ BeginSignIn(s) \/ BeginOther(s)
  /\ UNCHANGED <<clock, tables, held>>

\* Where a request goes once writing is allowed, with the time of then.
Enter(s) ==
  IF tx[s].op = "read" THEN End(s)
  ELSE /\ tx' = [tx EXCEPT ![s].now = clock,
                           ![s].at = CASE tx[s].op \in SignIns \cup {"provision"} -> "org"
                                       [] tx[s].op = "roles" -> "owner"
                                       [] OTHER -> "seat"]
       /\ held' = [held EXCEPT ![s] = {}]

\* assertWriteAllowed: a transaction of its own, which may be due a checkpoint.
Gate(s) ==
  /\ tx[s].at = "gate"
  /\ IF CheckpointDue(s)
     THEN Take(s, "control") /\ Goto(s, "trigger")
     ELSE IF Writable(tx[s].now) THEN Enter(s) ELSE End(s)
  /\ UNCHANGED <<clock, tables, starts>>

\* apply_verified_deployment_entitlement locks the row and looks at the revision.
Row(s) ==
  /\ tx[s].at = "row"
  /\ IF tx[s].id < control.revision
     THEN Free(s, "control") /\ End(s)
     ELSE Take(s, "control") /\ Goto(s, "trigger")
  /\ UNCHANGED <<clock, tables, starts>>

\* Mutant: there is no deployment_control_state_seat_lock.
NoTrigger(s) == TRUE

\* lock_deployment_seat_state_before_control_write.
SeatLockTrigger(s) == Free(s, "seat")

\* Every write of the control row waits for the seats; it is the last step of an
\* application, and of a checkpoint outside of a seat function.
Trigger(s) ==
  LET now == Max({control.trusted, tx[s].now}) IN
  /\ tx[s].at = "trigger"
  /\ SeatLockTrigger(s)
  /\ IF tx[s].op = "apply"
     THEN /\ control' = [revision |-> tx[s].id, limit |-> Envelopes[tx[s].id].limit,
                         until |-> Envelopes[tx[s].id].until, trusted |-> now]
          /\ End(s)
     ELSE /\ control' = [control EXCEPT !.trusted = now]
          /\ IF now <= control.until THEN Enter(s) ELSE End(s)
  /\ UNCHANGED <<clock, reconciled, accounts, archived, profile, seats, invites, starts>>

\* An invitation of the person that is live for the request; one consumed before.
LiveInvite(s, id) ==
  \E i \in invites :
    i.id = id /\ i.org = tx[s].org /\ i.who = tx[s].who /\ i.until > tx[s].now
Consumed(s, id) ==
  /\ seats[id].status = "consumed" /\ seats[id].who = tx[s].who
  /\ Active(tx[s].org, tx[s].who)

\* What the functions of a sign-in and of a new organization check before they lock.
\* require_active_organization locks the organization FOR KEY SHARE, which the
\* archiving UPDATE does not wait for.
OrgCheck(s) ==
  /\ tx[s].at = "org"
  /\ IF /\ tx[s].org \notin archived
        /\ tx[s].op = "consume" => LiveInvite(s, tx[s].id) \/ Consumed(s, tx[s].id)
     THEN Goto(s, "seat") /\ UNCHANGED held
     ELSE End(s)
  /\ UNCHANGED <<clock, tables, starts>>

\* isLastOwner, before updateMember replaces the roles.
Owner(s) ==
  LET t == tx[s] IN
  /\ t.at = "owner"
  /\ IF t.roles.first = "Owner" \/ "Owner" \in t.roles.all \/ FirstOwners(t.org) # {t.who}
     THEN Goto(s, "commit") /\ UNCHANGED held
     ELSE End(s)
  /\ UNCHANGED <<clock, tables, starts>>

\* Mutant: the mutex row is read, not locked.
NoSeatLock(s) == UNCHANGED held

SeatLock(s) == Take(s, "seat")

\* reserve_ and activate_deployment_... ask for the actor first, the changes of a
\* membership and of an invitation after the checkpoint.
ActorFirst == {"reserve", "activate", "reactivate"}
ActorLater == {"disable", "remove", "revoke"}
ActorRefused(s) == tx[s].org \in archived \/ ~MayAct(tx[s].org, tx[s].actor)

LockSeats(s) ==
  /\ tx[s].at = "seat"
  /\ Free(s, "seat")
  /\ IF tx[s].op \in ActorFirst /\ ActorRefused(s)
     THEN End(s)
     ELSE SeatLock(s) /\ Goto(s, "checkpoint")
  /\ UNCHANGED <<clock, tables, starts>>

Checkpoint(s) ==
  /\ tx[s].at = "checkpoint"
  /\ IF CheckpointDue(s) THEN Take(s, "control") ELSE UNCHANGED held
  /\ Goto(s, "decide")
  /\ UNCHANGED <<clock, tables, starts>>

\* The id an invitation of the person has, or a new one.
InviteFor(s) ==
  LET mine == {i \in invites : i.org = tx[s].org /\ i.who = tx[s].who} IN
  IF mine = {} THEN Len(seats) + 1 ELSE (CHOOSE i \in mine : TRUE).id

\* perform_deployment_membership_activation takes the invitation it was given, or
\* one that is live for the email; 0 is none.
ChosenInvite(s) ==
  IF tx[s].op = "consume" THEN IF LiveInvite(s, tx[s].id) THEN tx[s].id ELSE 0
  ELSE LET mine == {i \in invites : LiveInvite(s, i.id)} IN
       IF mine = {} THEN 0 ELSE (CHOOSE i \in mine : TRUE).id

\* The seat of the invitation is still kept for the person.
SeatKept(s, id) ==
  \/ id = 0
  \/ seats[id].status = "reserved" /\ seats[id].until > tx[s].now
  \/ seats[id].status = "consumed" /\ seats[id].who = tx[s].who

\* bootstrap_deployment_owner.
ClaimRefused(s) ==
  IF tx[s].who = ConfiguredOwner THEN FALSE
  ELSE \E u \in People \ {tx[s].who} : profile[tx[s].org][u].status # "none"

\* The last Owner neither goes nor is disabled.
LastOwner(s) ==
  {u \in People : IsOwner(tx[s].org, u)} = {tx[s].who}

\* The invitation a deciding request will write, 0 for none.
Target(s) ==
  CASE tx[s].op \in {"reserve", "provision"} -> InviteFor(s)
    [] tx[s].op \in {"activate", "reactivate"} \cup SignIns -> ChosenInvite(s)
    [] tx[s].op = "revoke" /\ \E i \in invites : i.id = tx[s].id /\ i.org = tx[s].org ->
         tx[s].id
    [] OTHER -> 0

Admissions == {"reserve", "provision", "activate", "reactivate"} \cup SignIns

\* Nothing is left to do: the function answers and writes nothing.
Kept(s) ==
  LET op == tx[s].op  o == tx[s].org  u == tx[s].who IN
  \/ op \in {"activate", "reactivate", "join", "claim"} /\ Active(o, u)
  \/ op = "consume" /\ Target(s) = 0 /\ Active(o, u)
  \/ op = "disable" /\ ~Active(o, u)
  \/ op = "remove" /\ profile[o][u].status = "none"
  \/ op = "revoke" /\ Target(s) = 0

\* The function raises an error, which rolls the transaction back.
Refused(s) ==
  LET op == tx[s].op  o == tx[s].org  u == tx[s].who  id == Target(s) IN
  \/ op \in ActorLater /\ ActorRefused(s)
  \/ op = "provision" /\ \E v \in People : Active(o, v)
  \/ op = "claim" /\ ClaimRefused(s)
  \/ op = "consume" /\ id = 0 /\ ~Active(o, u)
  \/ /\ ~Kept(s)
     /\ \/ op \in Admissions \ {"reserve", "provision"} /\ ~SeatKept(s, id)
        \/ op \in Admissions /\ ~(Writable(tx[s].now) /\ Fits(s, id))
        \/ op \in {"disable", "remove"} /\ Active(o, u) /\ LastOwner(s)
        \/ op \in {"disable", "remove"} /\ ~Writable(tx[s].now)
        \/ op = "revoke" /\ seats[id].status = "reserved" /\ ~Writable(tx[s].now)

\* An invitation gives its own role.
RolesGiven(s) ==
  IF tx[s].op = "consume" THEN Only((CHOOSE i \in invites : i.id = Target(s)).role)
  ELSE tx[s].roles

\* The control row as the transaction leaves it.
Checked(s) ==
  IF "control" \in held[s]
  THEN [control EXCEPT !.trusted = Max({control.trusted, tx[s].now})] ELSE control

Decide(s) ==
  /\ tx[s].at = "decide"
  /\ \/ /\ ~Refused(s) /\ ~Kept(s)
        /\ tx' = [tx EXCEPT ![s].at = "commit", ![s].id = Target(s), ![s].roles = RolesGiven(s)]
        /\ UNCHANGED <<control, held>>
     \/ /\ Refused(s) \/ Kept(s)
        /\ control' = IF Refused(s) THEN control ELSE Checked(s)
        /\ End(s)
  /\ UNCHANGED <<clock, reconciled, accounts, archived, profile, seats, invites, starts>>

\* Admissions mark the reservations that are over by their time.
Lapsed(now) ==
  [i \in DOMAIN seats |->
     IF seats[i].status = "reserved" /\ seats[i].until <= now
     THEN [seats[i] EXCEPT !.status = "expired"] ELSE seats[i]]

Without(id) == {i \in invites : i.id # id}

\* Mutant: a repeated invitation keeps the end it had.
KeepEnd(s, until) ==
  Without(tx[s].id) \cup
  {[id |-> tx[s].id, org |-> tx[s].org, who |-> tx[s].who, role |-> tx[s].roles.first,
    until |-> Max({i.until : i \in {j \in invites : j.id = tx[s].id}} \cup {0})]}

Invited(s, until) ==
  Without(tx[s].id) \cup
  {[id |-> tx[s].id, org |-> tx[s].org, who |-> tx[s].who, role |-> tx[s].roles.first,
    until |-> until]}

\* perform_deployment_invitation_reservation.
CommitReservation(s) ==
  LET until == tx[s].now + Validity
      seat  == [who |-> tx[s].who, status |-> "reserved", until |-> until]
  IN
  /\ tx[s].op \in {"reserve", "provision"}
  /\ seats' = IF tx[s].id > Len(seats) THEN Append(Lapsed(tx[s].now), seat)
              ELSE [Lapsed(tx[s].now) EXCEPT ![tx[s].id] = seat]
  /\ invites' = Invited(s, until)
  /\ UNCHANGED <<reconciled, profile>>

\* perform_deployment_membership_activation replaces whatever roles a member had.
CommitActivation(s) ==
  LET id == tx[s].id IN
  /\ tx[s].op \in Admissions \ {"reserve", "provision"}
  /\ seats' = IF id = 0 THEN Lapsed(tx[s].now)
              ELSE [Lapsed(tx[s].now) EXCEPT ![id].status = "consumed"]
  /\ invites' = Without(id)
  /\ profile' = [profile EXCEPT ![tx[s].org][tx[s].who] =
                   [status |-> "active", roles |-> tx[s].roles]]
  /\ UNCHANGED reconciled

CommitChange(s) ==
  /\ \/ /\ tx[s].op = "disable"
        /\ profile' = [profile EXCEPT ![tx[s].org][tx[s].who].status = "disabled"]
     \/ /\ tx[s].op = "remove"
        /\ profile' = [profile EXCEPT ![tx[s].org][tx[s].who] = NoMember]
  /\ UNCHANGED <<reconciled, seats, invites>>

CommitRevocation(s) ==
  /\ tx[s].op = "revoke"
  /\ seats' = [seats EXCEPT ![tx[s].id].status = IF @ = "reserved" THEN "released" ELSE @]
  /\ invites' = Without(tx[s].id)
  /\ UNCHANGED <<reconciled, profile>>

\* read_deployment_status_rollup: the invitations first to expire, at most so many.
CommitStatus(s) ==
  LET over == {i \in invites : /\ seats[i.id].status \in {"reserved", "expired"}
                               /\ seats[i.id].until <= tx[s].now}
  IN
  /\ tx[s].op = "status"
  /\ IF tx[s].sweep
     THEN \E pass \in SUBSET over :
            /\ Cardinality(pass) <= SweepLimit
            /\ pass = over \/ Cardinality(pass) = SweepLimit
            /\ \A i \in pass, j \in over \ pass : seats[i.id].until <= seats[j.id].until
            /\ seats' = [k \in DOMAIN seats |->
                           IF \E i \in pass : i.id = k
                           THEN [seats[k] EXCEPT !.status = "expired"] ELSE seats[k]]
            /\ invites' = invites \ pass
            /\ reconciled' = tx[s].now
     ELSE UNCHANGED <<seats, invites, reconciled>>
  /\ UNCHANGED profile

\* updateMember: the insertion of roles fails when the member is gone.
CommitRoles(s) ==
  /\ tx[s].op = "roles"
  /\ profile' = IF profile[tx[s].org][tx[s].who].status = "none" THEN profile
                ELSE [profile EXCEPT ![tx[s].org][tx[s].who].roles = tx[s].roles]
  /\ UNCHANGED <<reconciled, seats, invites>>

Commit(s) ==
  /\ tx[s].at = "commit"
  /\ \/ CommitReservation(s) \/ CommitActivation(s) \/ CommitChange(s)
     \/ CommitRevocation(s) \/ CommitStatus(s) \/ CommitRoles(s)
  /\ control' = Checked(s)
  /\ End(s)
  /\ UNCHANGED <<clock, accounts, archived, starts>>

\* A lost connection, or the victim of a deadlock.
Abort(s) == tx[s].at # "idle" /\ End(s) /\ UNCHANGED <<clock, tables, starts>>

\* A first sign-in; an organization archived; time.
SignUp(u) ==
  /\ u \notin accounts /\ starts < MaxStarts
  /\ starts' = starts + 1
  /\ accounts' = accounts \cup {u}
  /\ UNCHANGED <<clock, control, reconciled, archived, profile, seats, invites, held, tx>>

Archive(o) ==
  /\ "archive" \in Operations /\ o \notin archived /\ starts < MaxStarts
  /\ starts' = starts + 1
  /\ archived' = archived \cup {o}
  /\ UNCHANGED <<clock, control, reconciled, accounts, profile, seats, invites, held, tx>>

Tick ==
  /\ clock < MaxTime
  /\ clock' = clock + 1
  /\ UNCHANGED <<tables, held, tx, starts>>

Next ==
  \/ \E s \in Sessions :
       \/ Begin(s) \/ Gate(s) \/ Row(s) \/ Trigger(s) \/ OrgCheck(s) \/ Owner(s)
       \/ LockSeats(s) \/ Checkpoint(s) \/ Decide(s) \/ Commit(s) \/ Abort(s)
  \/ \E u \in People : SignUp(u)
  \/ \E o \in Orgs : Archive(o)
  \/ Tick

Spec == Init /\ [][Next]_vars

-----------------------------------------------------------------------------
(* Properties.                                                             *)

Used == Cardinality(SeatHolders(clock))

\* However admissions, releases, expiries, role edits, archivings and new signed
\* limits interleave, more seats are in use after a step only if they are within
\* the limit then in force: an overage may be left by a lower limit, and never grows.
OverageNeverGrows == [][Used' > Used => Used' <= control'.limit]_vars

\* An invitation that waits and its reservation stay together: the same person and
\* end, reserved unless that end has passed; no reservation is left reserved without
\* an invitation, and nobody is invited twice by an organization.
InvitesHoldSeats == Together(invites, seats, clock)

\* "so two concurrent first-logins can't both claim ownership of a zero-member org"
\* (bootstrap.ts:30): who claims the first organization is alone in it.
ClaimsAlone ==
  [][\A s \in Sessions :
       tx[s].op = "claim" /\ tx[s].who # ConfiguredOwner /\ profile' # profile
         /\ tx'[s].at = "idle" /\ tx[s].at = "commit"
       => \A u \in People \ {tx[s].who} : profile'[tx[s].org][u].status = "none"]_vars

\* Who waits for whom.
Awaits(s, r) ==
  /\ s # r
  /\ \/ tx[s].at = "gate" /\ CheckpointDue(s) /\ "control" \in held[r]
     \/ tx[s].at = "row" /\ "control" \in held[r]
     \/ tx[s].at \in {"trigger", "seat"} /\ "seat" \in held[r]
     \/ tx[s].at = "checkpoint" /\ CheckpointDue(s) /\ "control" \in held[r]

\* Two requests wait for each other only when a checkpoint of the trusted time is
\* due within a seat function: not by any order of locks within a tick.
DeadlockNeedsCheckpoint ==
  \A s, r \in Sessions :
    Awaits(s, r) /\ Awaits(r, s) =>
      \E t \in {s, r} : tx[t].at = "checkpoint" /\ control.trusted < tx[t].now

\* "Protect the last Owner: can't strip the Owner role off the last owner"
\* (team/actions.ts:730): an organization that has an Owner keeps one.
LastOwnerStays ==
  [][\A o \in Orgs :
       (\E u \in People : IsOwner(o, u)) => \E u \in People : IsOwner(o, u)']_vars
=============================================================================
