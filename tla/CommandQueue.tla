----------------------------- MODULE CommandQueue -----------------------------
(***************************************************************************)
(* The remote commands of one deployment: the operator's queue             *)
(* (control-plane/src/repos/commands.ts, migration 0010), the routes the   *)
(* agent calls (routes/commands.ts), and what the agent does with a        *)
(* command (pollCommandsOnce, executeCommand in deployment-agent/runner.ts).*)
(*                                                                         *)
(* Every statement or batch of the database is a step.  pollCommands takes *)
(* no lock, so calls overlap: those of several callers, and one that was   *)
(* given up with the one that tries again.  Nothing in start() schedules   *)
(* it; a call begins whenever its caller likes.                            *)
(***************************************************************************)
EXTENDS Naturals, Sequences

CONSTANTS
  MaxCommands, \* bound: commands enqueued
  MaxCalls,    \* bound: calls of pollCommands, retries included
  MaxChanges,  \* bound: changes of the deployment's status
  MaxFaults    \* bound: broken connections, killed agents, failed statements

ASSUME QueueAssumption ==
  /\ MaxCommands \in Nat /\ MaxCalls \in Nat
  /\ MaxChanges \in Nat /\ MaxFaults \in Nat

VARIABLES
  active,    \* the deployment's status; its key is registered
  commands,  \* deployment_command_queue with its audit rows, in order of insertion
  calls,     \* calls of pollCommands, in the order in which they began
  changes, faults

vars == <<active, commands, calls, changes, faults>>

State    == {"pending", "in_flight", "acked", "expired", "cancelled"}
Result   == {"none", "completed", "failed_dependencies"}

\* created: the rank of (created_at, id); due: expires_at has passed; outcome:
\* ack_outcome; audited: the outcome in deployment_command_audit.  among, a history
\* field: how many commands there were when the call that claimed this one chose
\* it; 0 before that.
Command ==
  [state: State, created: 1 .. MaxCommands, due: BOOLEAN, among: Nat,
   outcome: Result, audited: Result]
NewCommand(stamp) ==
  [state |-> "pending", created |-> stamp, due |-> FALSE, among |-> 0,
   outcome |-> "none", audited |-> "none"]

\* Where a call is: the request for the next command (next, select, claim), its
\* execution (run), the acknowledgement (ack, settle, audit); or it has ended, in
\* peace or with its command on its hands (lost).
Handed == {"claim", "run", "ack", "settle", "audit", "lost"}
Point  == Handed \cup {"next", "select", "done"}
\* among: how many commands there were when it chose cmd, until it claims it;
\* heard: the agent still waits.
PollCall == [at: Point, cmd: Nat, among: Nat, result: Result, heard: BOOLEAN]
NewCall  == [at |-> "next", cmd |-> 0, among |-> 0, result |-> "none", heard |-> TRUE]

TypeOK ==
  /\ active \in BOOLEAN
  /\ commands \in Seq(Command) /\ calls \in Seq(PollCall)
  /\ \A c \in DOMAIN calls :
       /\ calls[c].at \in Handed => calls[c].cmd \in DOMAIN commands
       /\ calls[c].at = "run" => calls[c].heard
       /\ calls[c].at \in {"ack", "settle", "audit"} => calls[c].result # "none"
  /\ \A i \in DOMAIN commands :
       commands[i].outcome # "none" <=> commands[i].state = "acked"
  /\ changes \in Nat /\ faults \in Nat

Init ==
  /\ active = TRUE
  /\ commands = <<>> /\ calls = <<>>
  /\ changes = 0 /\ faults = 0

-----------------------------------------------------------------------------
(* Operators and time.                                                     *)

\* enqueueCommand: the row and its audit rows in one batch.  created_at was taken
\* before, with awaits in between, and the random id decides among equal instants:
\* a row can come in behind rows that are younger than it.
Enqueue ==
  /\ Len(commands) < MaxCommands
  /\ \E stamp \in 1 .. MaxCommands :
       /\ \A i \in DOMAIN commands : commands[i].created # stamp
       /\ commands' = Append(commands, NewCommand(stamp))
  /\ UNCHANGED <<active, calls, changes, faults>>

Unsettled(i) == commands[i].state \in {"pending", "in_flight"}

\* retryCommand issues the payload anew once the command is settled.
Retry(i) ==
  /\ ~Unsettled(i)
  /\ Enqueue

Cancel(i) ==
  /\ Unsettled(i)
  /\ commands' = [commands EXCEPT ![i].state = "cancelled"]
  /\ UNCHANGED <<active, calls, changes, faults>>

ComesDue(i) ==
  /\ ~commands[i].due
  /\ commands' = [commands EXCEPT ![i].due = TRUE]
  /\ UNCHANGED <<active, calls, changes, faults>>

\* Every poll, of whichever deployment, expires what is due and not yet claimed.
WithoutDue ==
  [i \in DOMAIN commands |->
     IF commands[i].state = "pending" /\ commands[i].due
     THEN [commands[i] EXCEPT !.state = "expired"] ELSE commands[i]]

OtherDeploymentPolls ==
  /\ commands' = WithoutDue
  /\ UNCHANGED <<active, calls, changes, faults>>

SetDeploymentStatus ==
  /\ changes < MaxChanges
  /\ active' = ~active
  /\ changes' = changes + 1
  /\ UNCHANGED <<commands, calls, faults>>

-----------------------------------------------------------------------------
(* A call of pollCommands.                                                 *)

At(c, point) == calls[c].at = point

\* A call that has ended is told by its command alone, if it lost it.
Goto(c, point) ==
  calls' = [calls EXCEPT ![c] =
              CASE point = "done" -> [NewCall EXCEPT !.at = "done"]
                [] point = "lost" -> [NewCall EXCEPT !.at = "lost", !.cmd = calls[c].cmd]
                [] OTHER -> [@ EXCEPT !.at = point, !.among = 0]]

Poll ==
  /\ Len(calls) < MaxCalls
  /\ calls' = Append(calls, NewCall)
  /\ UNCHANGED <<active, commands, changes, faults>>

\* A request is authenticated first: 401 for a deployment that is disabled.
Authenticate(c) ==
  /\ \/ At(c, "next") /\ Goto(c, IF active THEN "select" ELSE "done")
     \/ At(c, "ack") /\ Goto(c, IF active THEN "settle" ELSE "lost")
  /\ UNCHANGED <<active, commands, changes, faults>>

Waiting == {i \in DOMAIN commands : commands[i].state = "pending" /\ ~commands[i].due}

\* Mutant: ORDER BY created_at DESC.
Latest(i) == \A j \in Waiting : commands[j].created <= commands[i].created

Oldest(i) == \A j \in Waiting : commands[i].created <= commands[j].created

\* claimNextPendingCommand: one batch selects the oldest command and expires what
\* is due ...
Select(c) ==
  /\ At(c, "select")
  /\ \/ Waiting = {} /\ Goto(c, "done")
     \/ \E i \in Waiting :
          /\ Oldest(i)
          /\ calls' = [calls EXCEPT ![c].at = "claim", ![c].cmd = i,
                                   ![c].among = Len(commands)]
  /\ commands' = WithoutDue
  /\ UNCHANGED <<active, changes, faults>>

\* ... a second statement claims the command if it is still pending, and the row
\* is read again and answered as it then is.
Claim(c) ==
  LET i == calls[c].cmd IN
  /\ At(c, "claim")
  /\ commands' =
       IF commands[i].state = "pending"
       THEN [commands EXCEPT ![i].state = "in_flight", ![i].among = calls[c].among]
       ELSE commands
  /\ Goto(c, IF calls[c].heard THEN "run" ELSE "lost")
  /\ UNCHANGED <<active, changes, faults>>

\* executeCommand, which may fail on the environment file.
Execute(c) ==
  /\ At(c, "run")
  /\ \E r \in Result \ {"none"} :
       calls' = [calls EXCEPT ![c].at = "ack", ![c].result = r]
  /\ UNCHANGED <<active, commands, changes, faults>>

\* Mutant: an acknowledgement may be repeated.
AckableAgain(i) == commands[i].state \in {"in_flight", "acked"}

\* Mutant: not after the command's expiry.
AckableInTime(i) == commands[i].state = "in_flight" /\ ~commands[i].due

Ackable(i) == commands[i].state = "in_flight"

\* acknowledgeCommand: 409 unless the command is in flight.
Settle(c) ==
  LET i == calls[c].cmd IN
  /\ At(c, "settle")
  /\ \/ /\ Ackable(i)
        /\ commands' = [commands EXCEPT ![i].state = "acked",
                                        ![i].outcome = calls[c].result]
        /\ Goto(c, "audit")
     \/ ~Ackable(i) /\ commands' = commands /\ Goto(c, "done")
  /\ UNCHANGED <<active, changes, faults>>

\* The audit row follows in a statement of its own.
Audit(c) ==
  /\ At(c, "audit")
  /\ commands' = [commands EXCEPT ![calls[c].cmd].audited = calls[c].result]
  /\ Goto(c, "done")
  /\ UNCHANGED <<active, changes, faults>>

\* The agent stops waiting: killed, or its connection broke.  Nothing of it is
\* repeated but the whole call, as a new one.  A request that has arrived is
\* carried on; a command that was answered or run stays as it is.
GiveUp(c) ==
  /\ calls[c].heard /\ calls[c].at \notin {"done", "lost"}
  /\ \/ At(c, "next") /\ Goto(c, "done")
     \/ calls[c].at \in {"run", "ack"} /\ Goto(c, "lost")
     \/ ~At(c, "run") /\ calls' = [calls EXCEPT ![c].heard = FALSE]

\* The control plane fails between two statements.
Fail(c) ==
  \/ calls[c].at \in {"select", "claim", "audit"} /\ Goto(c, "done")
  \/ At(c, "settle") /\ Goto(c, "lost")

Fault(c) ==
  /\ faults < MaxFaults
  /\ GiveUp(c) \/ Fail(c)
  /\ faults' = faults + 1
  /\ UNCHANGED <<active, commands, changes>>

-----------------------------------------------------------------------------
Operator ==
  \/ Enqueue \/ SetDeploymentStatus
  \/ \E i \in DOMAIN commands : Retry(i) \/ Cancel(i)

Next ==
  \/ Operator
  \/ \E i \in DOMAIN commands : ComesDue(i)
  \/ OtherDeploymentPolls
  \/ Poll
  \/ \E c \in DOMAIN calls :
       \/ Authenticate(c) \/ Select(c) \/ Claim(c) \/ Execute(c)
       \/ Settle(c) \/ Audit(c) \/ Fault(c)

Spec == Init /\ [][Next]_vars

-----------------------------------------------------------------------------
(* Properties.                                                             *)

\* The audit trail never tells another outcome than the queue, although calls
\* that ran the same command acknowledge it at once and each outcome is written
\* in two steps.
HistoryAgrees ==
  \A i \in DOMAIN commands :
    commands[i].audited # "none" => commands[i].audited = commands[i].outcome

\* A command is overtaken only by one that was chosen before its own row was there
\* (claimNextPendingCommand): of the commands a call could see when it chose,
\* none older than the one it claims still waits, although choosing and claiming
\* are separate statements of calls that overlap and older rows come in late.
ClaimedInOrder ==
  \A i, j \in DOMAIN commands :
    i <= commands[j].among /\ commands[i].created < commands[j].created
      => commands[i].state # "pending"

\* A command is in flight only as long as a call works on it, or because one
\* lost it: no outcome of an overlapping call leaves it behind.  (Nothing expires
\* a command in flight: the lost ones stay until an operator cancels them.)
InFlightIsCarried ==
  \A i \in DOMAIN commands :
    commands[i].state = "in_flight" =>
      \E c \in DOMAIN calls :
        calls[c].cmd = i /\ calls[c].at \in {"run", "ack", "settle", "lost"}
=============================================================================
