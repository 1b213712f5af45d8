--------------------------- MODULE CommandQueueProofs ---------------------------
(***************************************************************************)
(* CommandQueue for any number of commands, calls and faults: what a call  *)
(* remembers of a command it selected stays true however long it takes,    *)
(* so the queue stays in order and its audit trail agrees with it.         *)
(***************************************************************************)
EXTENDS CommandQueue, TLAPS

Carrying == {"run", "ack", "settle", "lost"}

\* What is true of a call: TypeOK's part, and what it knows of its command.
CallOK(c) ==
  /\ calls[c].at \in Handed => calls[c].cmd \in DOMAIN commands
  /\ calls[c].at = "run" => calls[c].heard
  /\ calls[c].at \in {"ack", "settle", "audit"} => calls[c].result # "none"
  /\ calls[c].at = "claim" =>
       /\ calls[c].among <= Len(commands)
       /\ \A i \in DOMAIN commands :
            i <= calls[c].among /\ commands[i].created < commands[calls[c].cmd].created
              => commands[i].state # "pending"
  /\ calls[c].at = "audit" =>
       /\ commands[calls[c].cmd].state = "acked"
       /\ commands[calls[c].cmd].outcome = calls[c].result

CallsOK == \A c \in DOMAIN calls : CallOK(c)

\* The parts of TypeOK that concern the queue.
Settled(i) ==
  /\ commands[i].outcome # "none" <=> commands[i].state = "acked"
  /\ commands[i].among <= Len(commands)

QueueTyped ==
  /\ active \in BOOLEAN /\ changes \in Nat /\ faults \in Nat
  /\ commands \in Seq(Command) /\ calls \in Seq(PollCall)
  /\ \A i \in DOMAIN commands : Settled(i)

QueueInv ==
  /\ QueueTyped
  /\ CallsOK
  /\ HistoryAgrees
  /\ ClaimedInOrder
  /\ InFlightIsCarried

LEMMA InitInv == Init => QueueInv
BY DEF Init, QueueInv, QueueTyped, CallsOK, CallOK, HistoryAgrees, ClaimedInOrder,
   InFlightIsCarried, Settled

LEMMA InvType == QueueInv => TypeOK
BY DEF QueueInv, QueueTyped, CallsOK, CallOK, TypeOK, Settled

\* Sequences of which one element changes.
LEMMA CommandUpdate ==
  ASSUME commands \in Seq(Command), NEW i \in DOMAIN commands, NEW row \in Command
  PROVE  /\ [commands EXCEPT ![i] = row] \in Seq(Command)
         /\ DOMAIN [commands EXCEPT ![i] = row] = DOMAIN commands
         /\ Len([commands EXCEPT ![i] = row]) = Len(commands)
<1>1. DOMAIN commands = 1 .. Len(commands) /\ Len(commands) \in Nat
  OBVIOUS
<1>2. [commands EXCEPT ![i] = row] \in [1 .. Len(commands) -> Command]
  BY <1>1
<1>3. [commands EXCEPT ![i] = row] \in Seq(Command)
  BY <1>1, <1>2
<1> QED BY <1>1, <1>2, <1>3

LEMMA CallUpdate ==
  ASSUME calls \in Seq(PollCall), NEW c \in DOMAIN calls, NEW call \in PollCall
  PROVE  /\ [calls EXCEPT ![c] = call] \in Seq(PollCall)
         /\ DOMAIN [calls EXCEPT ![c] = call] = DOMAIN calls
<1>1. DOMAIN calls = 1 .. Len(calls) /\ Len(calls) \in Nat
  OBVIOUS
<1>2. [calls EXCEPT ![c] = call] \in [1 .. Len(calls) -> PollCall]
  BY <1>1
<1>3. [calls EXCEPT ![c] = call] \in Seq(PollCall)
  BY <1>1, <1>2
<1> QED BY <1>1, <1>2, <1>3

\* What may become of a command in a step: never pending again, nor older or
\* younger, nor acknowledged with another outcome.
Aged(i) ==
  /\ commands'[i].created = commands[i].created
  /\ commands'[i].state = "pending" => commands[i].state = "pending"
  /\ commands[i].state = "acked" =>
       commands'[i].state = "acked" /\ commands'[i].outcome = commands[i].outcome

\* A call that rests in a step stays in order.
LEMMA Resting ==
  ASSUME QueueInv, NEW c \in DOMAIN calls, calls'[c] = calls[c],
         commands' \in Seq(Command), DOMAIN commands \subseteq DOMAIN commands',
         \A i \in DOMAIN commands : Aged(i)
  PROVE  CallOK(c)'
<1>1. CallOK(c) /\ calls[c] \in PollCall
  BY DEF QueueInv, QueueTyped, CallsOK
<1>0. /\ DOMAIN commands = 1 .. Len(commands) /\ DOMAIN commands' = 1 .. Len(commands')
      /\ Len(commands) \in Nat /\ Len(commands') \in Nat /\ Len(commands) <= Len(commands')
      /\ calls[c].among \in Nat
  <2>1. /\ DOMAIN commands = 1 .. Len(commands) /\ DOMAIN commands' = 1 .. Len(commands')
        /\ Len(commands) \in Nat /\ Len(commands') \in Nat
    BY DEF QueueInv, QueueTyped
  <2>2. Len(commands) <= Len(commands')
    <3>1. CASE Len(commands) = 0
      BY <2>1, <3>1
    <3>2. CASE Len(commands) # 0
      <4>1. Len(commands) \in DOMAIN commands'
        BY <2>1, <3>2
      <4> QED BY <2>1, <4>1
    <3> QED BY <3>1, <3>2
  <2> QED BY <1>1, <2>1, <2>2 DEF PollCall
<1>2. ASSUME calls[c].at = "claim", NEW i \in DOMAIN commands', i <= calls[c].among,
             commands'[i].created < commands'[calls[c].cmd].created
      PROVE  commands'[i].state # "pending"
  <2>1. calls[c].cmd \in DOMAIN commands /\ calls[c].among <= Len(commands)
    BY <1>1, <1>2 DEF CallOK, Handed
  <2>2. i \in DOMAIN commands
    BY <1>0, <1>2, <2>1
  <2>3. commands[i].created < commands[calls[c].cmd].created
    BY <1>2, <2>1, <2>2 DEF Aged
  <2>4. commands[i].state # "pending"
    BY <1>1, <1>2, <2>2, <2>3 DEF CallOK
  <2> QED BY <2>2, <2>4 DEF Aged
<1>5. calls[c].at = "claim" => calls[c].among <= Len(commands')
  BY <1>0, <1>1 DEF CallOK
<1>3. calls[c].at = "audit" =>
        commands'[calls[c].cmd].state = "acked"
        /\ commands'[calls[c].cmd].outcome = calls[c].result
  BY <1>1 DEF CallOK, Aged, Handed
<1>4. calls[c].at \in Handed => calls[c].cmd \in DOMAIN commands'
  BY <1>1 DEF CallOK
<1> QED BY <1>1, <1>2, <1>3, <1>4, <1>5 DEF CallOK

-----------------------------------------------------------------------------
(* Steps of the queue: no call moves.                                      *)

LEMMA QueueStep ==
  ASSUME QueueInv, calls' = calls,
         active' \in BOOLEAN, changes' \in Nat, faults' \in Nat,
         commands' \in Seq(Command), DOMAIN commands \subseteq DOMAIN commands',
         \A i \in DOMAIN commands :
           /\ Aged(i) /\ Settled(i)'
           /\ commands'[i].state = "in_flight" => commands[i].state = "in_flight"
           /\ commands'[i].among = commands[i].among
           /\ commands'[i].audited = commands[i].audited
           /\ commands'[i].outcome = commands[i].outcome,
         \A i \in (DOMAIN commands') \ (DOMAIN commands) :
           \E stamp \in 1 .. MaxCommands : commands'[i] = NewCommand(stamp)
  PROVE  QueueInv'
<1> USE DEF QueueInv
<1>1. QueueTyped'
  <2>1. \A i \in DOMAIN commands' : Settled(i)'
    BY DEF Settled, NewCommand
  <2> QED BY <2>1 DEF QueueTyped
<1>2. CallsOK'
  BY Resting DEF CallsOK
<1>3. HistoryAgrees'
  BY DEF HistoryAgrees, NewCommand
<1>4. ClaimedInOrder'
  <2> SUFFICES ASSUME NEW i \in DOMAIN commands', NEW j \in DOMAIN commands',
                      i <= commands'[j].among,
                      commands'[i].created < commands'[j].created
               PROVE  commands'[i].state # "pending"
    BY DEF ClaimedInOrder
  <2>1. DOMAIN commands = 1 .. Len(commands) /\ DOMAIN commands' = 1 .. Len(commands')
        /\ Len(commands) \in Nat /\ Len(commands') \in Nat
    BY DEF QueueTyped
  <2>2. j \in DOMAIN commands
    BY <2>1 DEF NewCommand
  <2>3. i \in DOMAIN commands
    <3>1. commands[j] \in Command /\ Settled(j)
      BY <2>2 DEF QueueTyped
    <3>2. commands[j].among \in Nat /\ commands[j].among <= Len(commands)
          /\ commands'[j].among = commands[j].among
      BY <2>2, <3>1 DEF Settled, Command
    <3> QED BY <2>1, <3>2
  <2>4. i <= commands[j].among /\ commands[i].created < commands[j].created
    BY <2>2, <2>3 DEF Aged
  <2>5. commands[i].state # "pending"
    BY <2>2, <2>3, <2>4 DEF ClaimedInOrder
  <2> QED BY <2>3, <2>5 DEF Aged
<1>5. InFlightIsCarried'
  BY DEF InFlightIsCarried, NewCommand
<1> QED BY <1>1, <1>2, <1>3, <1>4, <1>5

LEMMA EnqueueInv == QueueInv /\ Enqueue => QueueInv'
<1> SUFFICES ASSUME QueueInv, Enqueue PROVE QueueInv'
  OBVIOUS
<1>1. commands \in Seq(Command) /\ active \in BOOLEAN /\ changes \in Nat /\ faults \in Nat
  BY DEF QueueInv, QueueTyped
<1>3. PICK stamp \in 1 .. MaxCommands :
        /\ commands' = Append(commands, NewCommand(stamp))
        /\ UNCHANGED <<active, calls, changes, faults>>
  BY DEF Enqueue
<1>2. NewCommand(stamp) \in Command
  BY DEF NewCommand, Command, State, Result
<1> DEFINE new == NewCommand(stamp)
<1> HIDE DEF new
<1>4. /\ commands' \in Seq(Command)
      /\ DOMAIN commands' = DOMAIN commands \cup {Len(commands) + 1}
      /\ \A i \in DOMAIN commands : commands'[i] = commands[i]
      /\ commands'[Len(commands) + 1] = new
      /\ Len(commands') = Len(commands) + 1 /\ Len(commands) \in Nat
  <2>1. new \in Command /\ commands' = Append(commands, new)
    BY <1>2, <1>3 DEF new
  <2> QED BY <1>1, <2>1
<1>5. \A i \in DOMAIN commands : Settled(i)
  BY DEF QueueInv, QueueTyped
<1>6. \A i \in DOMAIN commands : Aged(i) /\ Settled(i)'
  <2> SUFFICES ASSUME NEW i \in DOMAIN commands PROVE Aged(i) /\ Settled(i)'
    OBVIOUS
  <2>2. commands[i] \in Command
    BY <1>1
  <2>1. commands'[i] = commands[i] /\ Settled(i) /\ commands[i].among \in Nat
    BY <1>4, <1>5, <2>2 DEF Command
  <2> QED BY <1>4, <2>1 DEF Aged, Settled
<1>7. \A i \in (DOMAIN commands') \ (DOMAIN commands) :
        \E s \in 1 .. MaxCommands : commands'[i] = NewCommand(s)
  BY <1>4 DEF new
<1> QED BY <1>1, <1>3, <1>4, <1>6, <1>7, QueueStep

LEMMA CancelInv ==
  ASSUME QueueInv, NEW i \in DOMAIN commands, Cancel(i) PROVE QueueInv'
<1> DEFINE row == [commands[i] EXCEPT !.state = "cancelled"]
<1>1. /\ commands \in Seq(Command) /\ commands[i] \in Command
      /\ active \in BOOLEAN /\ changes \in Nat /\ faults \in Nat
      /\ \A j \in DOMAIN commands : Settled(j)
  BY DEF QueueInv, QueueTyped
<1>2. /\ row \in Command /\ row.state = "cancelled" /\ row.among = commands[i].among /\ row.created = commands[i].created
      /\ row.audited = commands[i].audited /\ row.outcome = commands[i].outcome
  BY <1>1 DEF Command, State
<1>3. /\ commands' = [commands EXCEPT ![i] = row] /\ commands[i].state # "acked"
      /\ UNCHANGED <<active, calls, changes, faults>>
  BY DEF Cancel, Unsettled
<1> HIDE DEF row
<1>4. /\ commands' \in Seq(Command) /\ DOMAIN commands' = DOMAIN commands
      /\ commands'[i] = row /\ Len(commands') = Len(commands)
      /\ \A j \in DOMAIN commands : j # i => commands'[j] = commands[j]
  BY <1>1, <1>2, <1>3, CommandUpdate
<1>5. \A j \in DOMAIN commands :
        /\ Aged(j) /\ Settled(j)'
        /\ commands'[j].state = "in_flight" => commands[j].state = "in_flight"
        /\ commands'[j].among = commands[j].among
        /\ commands'[j].audited = commands[j].audited
        /\ commands'[j].outcome = commands[j].outcome
  BY <1>1, <1>2, <1>3, <1>4 DEF Aged, Settled
<1> QED BY <1>1, <1>3, <1>4, <1>5, QueueStep

LEMMA ComesDueInv ==
  ASSUME QueueInv, NEW i \in DOMAIN commands, ComesDue(i) PROVE QueueInv'
<1> DEFINE row == [commands[i] EXCEPT !.due = TRUE]
<1>1. /\ commands \in Seq(Command) /\ commands[i] \in Command
      /\ active \in BOOLEAN /\ changes \in Nat /\ faults \in Nat
      /\ \A j \in DOMAIN commands : Settled(j)
  BY DEF QueueInv, QueueTyped
<1>2. /\ row \in Command /\ row.state = commands[i].state
      /\ row.among = commands[i].among /\ row.created = commands[i].created
      /\ row.audited = commands[i].audited /\ row.outcome = commands[i].outcome
  BY <1>1 DEF Command
<1>3. /\ commands' = [commands EXCEPT ![i] = row]
      /\ UNCHANGED <<active, calls, changes, faults>>
  BY DEF ComesDue
<1> HIDE DEF row
<1>4. /\ commands' \in Seq(Command) /\ DOMAIN commands' = DOMAIN commands
      /\ commands'[i] = row /\ Len(commands') = Len(commands)
      /\ \A j \in DOMAIN commands : j # i => commands'[j] = commands[j]
  BY <1>1, <1>2, <1>3, CommandUpdate
<1>5. \A j \in DOMAIN commands :
        /\ Aged(j) /\ Settled(j)'
        /\ commands'[j].state = "in_flight" => commands[j].state = "in_flight"
        /\ commands'[j].among = commands[j].among
        /\ commands'[j].audited = commands[j].audited
        /\ commands'[j].outcome = commands[j].outcome
  BY <1>1, <1>2, <1>3, <1>4 DEF Aged, Settled
<1> QED BY <1>1, <1>3, <1>4, <1>5, QueueStep

\* Expiry turns what is pending and due into expired commands, and no other.
LEMMA WithoutDueFacts ==
  ASSUME QueueInv, commands' = WithoutDue
  PROVE  /\ commands' \in Seq(Command) /\ DOMAIN commands' = DOMAIN commands
         /\ \A i \in DOMAIN commands :
              /\ Aged(i) /\ Settled(i)'
              /\ commands'[i].state = "in_flight" => commands[i].state = "in_flight"
              /\ commands'[i].among = commands[i].among
              /\ commands'[i].audited = commands[i].audited
              /\ commands'[i].outcome = commands[i].outcome
              /\ commands'[i].state = "pending" => ~commands[i].due
<1>1. /\ commands \in Seq(Command) /\ \A j \in DOMAIN commands : Settled(j)
      /\ \A j \in DOMAIN commands : commands[j] \in Command
  BY DEF QueueInv, QueueTyped
<1>2. DOMAIN commands = 1 .. Len(commands) /\ Len(commands) \in Nat
  BY <1>1
<1>3. \A i \in DOMAIN commands :
        /\ commands'[i] \in Command
        /\ \/ /\ commands'[i] = commands[i]
              /\ ~(commands[i].state = "pending" /\ commands[i].due)
           \/ /\ commands[i].state = "pending" /\ commands'[i].state = "expired"
              /\ commands'[i].among = commands[i].among
              /\ commands'[i].created = commands[i].created
              /\ commands'[i].audited = commands[i].audited
              /\ commands'[i].outcome = commands[i].outcome
  BY <1>1 DEF WithoutDue, Command, State
<1>4. DOMAIN commands' = DOMAIN commands
  BY DEF WithoutDue
<1>5. commands' \in [1 .. Len(commands) -> Command]
  BY <1>2, <1>3 DEF WithoutDue
<1>6. commands' \in Seq(Command)
  BY <1>2, <1>5
<1>8. Len(commands') = Len(commands)
  <2>1. DOMAIN commands' = 1 .. Len(commands') /\ Len(commands') \in Nat
    BY <1>6
  <2> QED BY <1>2, <1>4, <2>1
<1>7. ASSUME NEW i \in DOMAIN commands
      PROVE  /\ Aged(i) /\ Settled(i)'
             /\ commands'[i].state = "in_flight" => commands[i].state = "in_flight"
             /\ commands'[i].among = commands[i].among
             /\ commands'[i].audited = commands[i].audited
             /\ commands'[i].outcome = commands[i].outcome
             /\ commands'[i].state = "pending" => ~commands[i].due
  <2>1. CASE commands'[i] = commands[i] /\ ~(commands[i].state = "pending" /\ commands[i].due)
    BY <2>1, <1>1, <1>8 DEF Aged, Settled
  <2>2. CASE /\ commands[i].state = "pending" /\ commands'[i].state = "expired"
             /\ commands'[i].among = commands[i].among
             /\ commands'[i].created = commands[i].created
             /\ commands'[i].audited = commands[i].audited
             /\ commands'[i].outcome = commands[i].outcome
    BY <2>2, <1>1, <1>8 DEF Aged, Settled
  <2> QED BY <2>1, <2>2, <1>3
<1> QED BY <1>4, <1>6, <1>7

LEMMA OtherPollInv == QueueInv /\ OtherDeploymentPolls => QueueInv'
<1> SUFFICES ASSUME QueueInv, OtherDeploymentPolls PROVE QueueInv'
  OBVIOUS
<1>1. active \in BOOLEAN /\ changes \in Nat /\ faults \in Nat
  BY DEF QueueInv, QueueTyped
<1>2. commands' = WithoutDue /\ UNCHANGED <<active, calls, changes, faults>>
  BY DEF OtherDeploymentPolls
<1> QED BY <1>1, <1>2, WithoutDueFacts, QueueStep

LEMMA StatusInv == QueueInv /\ SetDeploymentStatus => QueueInv'
<1> SUFFICES ASSUME QueueInv, SetDeploymentStatus PROVE QueueInv'
  OBVIOUS
<1>1. /\ active' \in BOOLEAN /\ changes' \in Nat /\ faults' \in Nat
      /\ commands' = commands /\ calls' = calls
  BY DEF SetDeploymentStatus, QueueInv, QueueTyped
<1>2. /\ commands \in Seq(Command) /\ \A j \in DOMAIN commands : Settled(j)
  BY DEF QueueInv, QueueTyped
<1>3. \A i \in DOMAIN commands : Aged(i) /\ Settled(i)'
  BY <1>1, <1>2 DEF Aged, Settled
<1> QED BY <1>1, <1>2, <1>3, QueueStep

-----------------------------------------------------------------------------
(* Steps of one call.                                                      *)

\* A call moves and the queue stays as it is.
LEMMA CallStep ==
  ASSUME QueueInv, UNCHANGED <<active, commands, changes>>, faults' \in Nat,
         NEW c \in DOMAIN calls, NEW call \in PollCall,
         calls' = [calls EXCEPT ![c] = call],
         CallOK(c)',
         calls[c].at \in Carrying /\ commands[calls[c].cmd].state = "in_flight" =>
           call.at \in Carrying /\ call.cmd = calls[c].cmd
  PROVE  QueueInv'
<1> USE DEF QueueInv
<1>1. /\ calls' \in Seq(PollCall) /\ DOMAIN calls' = DOMAIN calls /\ calls'[c] = call
      /\ \A d \in DOMAIN calls : d # c => calls'[d] = calls[d]
  BY CallUpdate DEF QueueTyped
<1>2. QueueTyped'
  BY <1>1 DEF QueueTyped, Settled
<1>3. \A i \in DOMAIN commands : Aged(i)
  BY DEF Aged
<1>4. CallsOK'
  <2> SUFFICES ASSUME NEW d \in DOMAIN calls PROVE CallOK(d)'
    BY <1>1 DEF CallsOK
  <2>1. CASE d = c
    BY <2>1
  <2>2. CASE d # c
    BY <2>2, <1>1, <1>2, <1>3, Resting DEF QueueTyped
  <2> QED BY <2>1, <2>2
<1>5. HistoryAgrees' /\ ClaimedInOrder'
  BY DEF HistoryAgrees, ClaimedInOrder
<1>6. InFlightIsCarried'
  <2> SUFFICES ASSUME NEW i \in DOMAIN commands, commands[i].state = "in_flight"
               PROVE  \E d \in DOMAIN calls' : calls'[d].cmd = i /\ calls'[d].at \in Carrying
    BY DEF InFlightIsCarried, Carrying
  <2>1. PICK d \in DOMAIN calls : calls[d].cmd = i /\ calls[d].at \in Carrying
    BY DEF InFlightIsCarried, Carrying
  <2>2. calls'[d].cmd = i /\ calls'[d].at \in Carrying
    BY <2>1, <1>1
  <2> QED BY <2>2, <1>1
<1> QED BY <1>2, <1>4, <1>5, <1>6

LEMMA PollInv == QueueInv /\ Poll => QueueInv'
<1> SUFFICES ASSUME QueueInv, Poll PROVE QueueInv'
  OBVIOUS
<1> USE DEF QueueInv
<1>1. calls' = Append(calls, NewCall) /\ UNCHANGED <<active, commands, changes, faults>>
  BY DEF Poll
<1>2. calls \in Seq(PollCall) /\ NewCall \in PollCall
  BY DEF QueueTyped, NewCall, PollCall, Point, Result
<1>3. /\ calls' \in Seq(PollCall)
      /\ DOMAIN calls' = DOMAIN calls \cup {Len(calls) + 1}
      /\ \A c \in DOMAIN calls : calls'[c] = calls[c]
      /\ calls'[Len(calls) + 1] = NewCall
  BY <1>1, <1>2
<1>4. QueueTyped'
  BY <1>1, <1>3 DEF QueueTyped, Settled
<1>5. CallsOK'
  BY <1>1, <1>3 DEF CallsOK, CallOK, NewCall, Handed
<1>6. HistoryAgrees' /\ ClaimedInOrder'
  BY <1>1 DEF HistoryAgrees, ClaimedInOrder
<1>7. InFlightIsCarried'
  BY <1>1, <1>3 DEF InFlightIsCarried
<1> QED BY <1>4, <1>5, <1>6, <1>7

\* Where Goto leads.
Gone(c, point) ==
  CASE point = "done" -> [NewCall EXCEPT !.at = "done"]
    [] point = "lost" -> [NewCall EXCEPT !.at = "lost", !.cmd = calls[c].cmd]
    [] OTHER -> [calls[c] EXCEPT !.at = point, !.among = 0]

LEMMA GotoFacts ==
  ASSUME QueueInv, NEW c \in DOMAIN calls, NEW point \in Point, Goto(c, point)
  PROVE  /\ calls' = [calls EXCEPT ![c] = Gone(c, point)]
         /\ Gone(c, point) \in PollCall
         /\ Gone(c, point).at = point
         /\ point # "done" => Gone(c, point).cmd = calls[c].cmd
         /\ point \notin {"done", "lost"} =>
              /\ Gone(c, point).result = calls[c].result
              /\ Gone(c, point).heard = calls[c].heard
         /\ calls'[c] = Gone(c, point)
<1>1. calls[c] \in PollCall
  BY DEF QueueInv, QueueTyped
<1>2. calls' = [calls EXCEPT ![c] = Gone(c, point)]
  BY DEF Goto, Gone
<1>3. /\ Gone(c, point) \in PollCall /\ Gone(c, point).at = point
      /\ point # "done" => Gone(c, point).cmd = calls[c].cmd
      /\ point \notin {"done", "lost"} =>
           /\ Gone(c, point).result = calls[c].result
           /\ Gone(c, point).heard = calls[c].heard
  <2>1. CASE point = "done"
    BY <2>1 DEF Gone, NewCall, PollCall, Point, Result
  <2>2. CASE point = "lost"
    BY <2>2, <1>1 DEF Gone, NewCall, PollCall, Point, Result
  <2>3. CASE point \notin {"done", "lost"}
    BY <2>3, <1>1 DEF Gone, PollCall
  <2> QED BY <2>1, <2>2, <2>3
<1> QED BY <1>2, <1>3

LEMMA AuthenticateInv ==
  ASSUME QueueInv, NEW c \in DOMAIN calls, Authenticate(c) PROVE QueueInv'
<1>1. UNCHANGED <<active, commands, changes, faults>> /\ faults \in Nat /\ CallOK(c)
  BY DEF Authenticate, QueueInv, QueueTyped, CallsOK
<1>2. PICK point \in {"select", "done", "settle", "lost"} :
        /\ Goto(c, point)
        /\ \/ calls[c].at = "next" /\ point \in {"select", "done"}
           \/ calls[c].at = "ack" /\ point \in {"settle", "lost"}
  BY DEF Authenticate, At
<1>3. point \in Point
  BY DEF Point, Handed
<1>4. CallOK(c)'
  BY <1>1, <1>2, <1>3, GotoFacts DEF CallOK, Handed
<1>5. calls[c].at \in Carrying => Gone(c, point).at \in Carrying /\ point # "done"
  BY <1>2, <1>3, GotoFacts DEF Carrying
<1> QED BY <1>1, <1>2, <1>3, <1>4, <1>5, GotoFacts, CallStep

LEMMA ExecuteInv ==
  ASSUME QueueInv, NEW c \in DOMAIN calls, Execute(c) PROVE QueueInv'
<1>1. /\ UNCHANGED <<active, commands, changes, faults>> /\ faults \in Nat /\ CallOK(c)
      /\ calls[c] \in PollCall /\ calls[c].at = "run"
  BY DEF Execute, QueueInv, QueueTyped, CallsOK, At
<1>2. PICK r \in Result \ {"none"} :
        calls' = [calls EXCEPT ![c].at = "ack", ![c].result = r]
  BY DEF Execute
<1> DEFINE call == [calls[c] EXCEPT !.at = "ack", !.result = r]
<1>3. /\ call \in PollCall /\ call.at = "ack" /\ call.result = r
      /\ call.cmd = calls[c].cmd
  BY <1>1 DEF PollCall, Point, Handed
<1>4. calls' = [calls EXCEPT ![c] = call]
  BY <1>2
<1>5. calls'[c] = call
  BY <1>4
<1> HIDE DEF call
<1>6. CallOK(c)'
  BY <1>1, <1>2, <1>3, <1>5 DEF CallOK, Handed
<1>7. call.at \in Carrying
  BY <1>3 DEF Carrying
<1> QED BY <1>1, <1>3, <1>4, <1>6, <1>7, CallStep

\* A call moves while the queue ages: what is left to show of such a step.
LEMMA CallsKeep ==
  ASSUME QueueInv, commands' \in Seq(Command), DOMAIN commands' = DOMAIN commands,
         \A i \in DOMAIN commands : Aged(i),
         NEW c \in DOMAIN calls, NEW call \in PollCall,
         calls' = [calls EXCEPT ![c] = call], CallOK(c)'
  PROVE  /\ calls' \in Seq(PollCall) /\ DOMAIN calls' = DOMAIN calls /\ calls'[c] = call
         /\ \A d \in DOMAIN calls : d # c => calls'[d] = calls[d]
         /\ CallsOK'
<1>1. /\ calls' \in Seq(PollCall) /\ DOMAIN calls' = DOMAIN calls /\ calls'[c] = call
      /\ \A d \in DOMAIN calls : d # c => calls'[d] = calls[d]
  BY CallUpdate DEF QueueInv, QueueTyped
<1>2. ASSUME NEW d \in DOMAIN calls PROVE CallOK(d)'
  <2>1. CASE d = c
    BY <2>1
  <2>2. CASE d # c
    BY <2>2, <1>1, Resting
  <2> QED BY <2>1, <2>2
<1>3. CallsOK'
  BY <1>1, <1>2 DEF CallsOK
<1> QED BY <1>1, <1>3

LEMMA SelectInv ==
  ASSUME QueueInv, NEW c \in DOMAIN calls, Select(c) PROVE QueueInv'
<1>1. /\ calls[c].at = "select" /\ commands' = WithoutDue
      /\ UNCHANGED <<active, changes, faults>>
      /\ calls[c] \in PollCall
  <2>1. calls[c] \in PollCall
    BY DEF QueueInv, QueueTyped
  <2>2. At(c, "select") /\ commands' = WithoutDue /\ UNCHANGED <<active, changes, faults>>
    BY Zenon DEF Select
  <2> QED BY <2>1, <2>2 DEF At
<1>2. /\ commands' \in Seq(Command) /\ DOMAIN commands' = DOMAIN commands
      /\ \A i \in DOMAIN commands :
           /\ Aged(i) /\ Settled(i)'
           /\ commands'[i].state = "in_flight" => commands[i].state = "in_flight"
           /\ commands'[i].among = commands[i].among
           /\ commands'[i].audited = commands[i].audited
           /\ commands'[i].outcome = commands[i].outcome
           /\ commands'[i].state = "pending" => ~commands[i].due
  BY <1>1, WithoutDueFacts
<1>3. \E call \in PollCall : calls' = [calls EXCEPT ![c] = call] /\ CallOK(c)'
  <2>1. CASE Goto(c, "done")
    <3>1. "done" \in Point
      BY DEF Point
    <3>2. /\ calls' = [calls EXCEPT ![c] = Gone(c, "done")]
          /\ Gone(c, "done") \in PollCall /\ Gone(c, "done").at = "done"
          /\ calls'[c] = Gone(c, "done")
      BY <2>1, <3>1, GotoFacts
    <3>3. CallOK(c)'
      BY <3>2 DEF CallOK, Handed
    <3> QED BY <3>2, <3>3
  <2>2. ASSUME NEW i \in Waiting, Oldest(i),
               calls' = [calls EXCEPT ![c].at = "claim", ![c].cmd = i,
                                      ![c].among = Len(commands)]
        PROVE  \E call \in PollCall : calls' = [calls EXCEPT ![c] = call] /\ CallOK(c)'
    <3> DEFINE call == [calls[c] EXCEPT !.at = "claim", !.cmd = i,
                                        !.among = Len(commands)]
    <3>1. DOMAIN commands = 1 .. Len(commands) /\ Len(commands) \in Nat
      BY DEF QueueInv, QueueTyped
    <3>2. i \in DOMAIN commands /\ i \in Nat
      BY <3>1, <2>2 DEF Waiting
    <3>3. /\ call \in PollCall /\ call.at = "claim" /\ call.cmd = i
          /\ call.among = Len(commands)
      BY <1>1, <3>1, <3>2 DEF PollCall, Point, Handed
    <3>4. calls' = [calls EXCEPT ![c] = call] /\ calls'[c] = call
      BY <2>2
    <3> HIDE DEF call
    <3>5. ASSUME NEW j \in DOMAIN commands, commands'[j].created < commands'[i].created,
                 commands'[j].state = "pending"
          PROVE  FALSE
      <4>1. j \in Waiting
        BY <1>2, <3>5 DEF Waiting, Aged
      <4>2. commands[i].created <= commands[j].created
        BY <4>1, <2>2 DEF Oldest
      <4>3. commands[j].created < commands[i].created
        BY <1>2, <3>2, <3>5 DEF Aged
      <4>4. commands[i].created \in Nat /\ commands[j].created \in Nat
        <5>1. commands[i] \in Command /\ commands[j] \in Command
          BY <3>2 DEF QueueInv, QueueTyped
        <5> QED BY <5>1, QueueAssumption DEF Command
      <4> QED BY <4>2, <4>3, <4>4
    <3>7. Len(commands') = Len(commands)
      <4>1. DOMAIN commands' = 1 .. Len(commands') /\ Len(commands') \in Nat
        BY <1>2
      <4> QED BY <1>2, <3>1, <4>1
    <3>6. CallOK(c)'
      BY <1>2, <3>1, <3>2, <3>3, <3>4, <3>5, <3>7 DEF CallOK, Handed
    <3> QED BY <3>3, <3>4, <3>6
  <2> QED BY <2>1, <2>2 DEF Select
<1>4. PICK call \in PollCall : calls' = [calls EXCEPT ![c] = call] /\ CallOK(c)'
  BY <1>3
<1>5. /\ calls' \in Seq(PollCall) /\ DOMAIN calls' = DOMAIN calls
      /\ \A d \in DOMAIN calls : d # c => calls'[d] = calls[d]
      /\ CallsOK'
  BY <1>2, <1>4, CallsKeep
<1>6. QueueTyped'
  BY <1>1, <1>2, <1>5 DEF QueueInv, QueueTyped
<1>7. HistoryAgrees'
  BY <1>2 DEF QueueInv, HistoryAgrees
<1>8. ClaimedInOrder'
  BY <1>2 DEF QueueInv, ClaimedInOrder, Aged
<1>9. InFlightIsCarried'
  <2> SUFFICES ASSUME NEW i \in DOMAIN commands, commands'[i].state = "in_flight"
               PROVE  \E d \in DOMAIN calls' : calls'[d].cmd = i /\ calls'[d].at \in Carrying
    BY <1>2 DEF InFlightIsCarried, Carrying
  <2>1. PICK d \in DOMAIN calls : calls[d].cmd = i /\ calls[d].at \in Carrying
    BY <1>2 DEF QueueInv, InFlightIsCarried, Carrying
  <2>2. d # c
    BY <2>1, <1>1 DEF Carrying
  <2> QED BY <2>1, <2>2, <1>5
<1> QED BY <1>5, <1>6, <1>7, <1>8, <1>9 DEF QueueInv

LEMMA ClaimInv ==
  ASSUME QueueInv, NEW c \in DOMAIN calls, Claim(c) PROVE QueueInv'
<1> DEFINE i == calls[c].cmd
           row == [commands[i] EXCEPT !.state = "in_flight", !.among = calls[c].among]
<1>1. /\ calls[c].at = "claim" /\ CallOK(c) /\ i \in DOMAIN commands
      /\ UNCHANGED <<active, changes, faults>>
      /\ commands \in Seq(Command) /\ commands[i] \in Command
      /\ \A j \in DOMAIN commands : Settled(j)
  BY DEF Claim, At, QueueInv, QueueTyped, CallsOK, CallOK, Handed
<1>11. calls[c].among \in Nat /\ calls[c].among <= Len(commands)
  <2>1. calls[c] \in PollCall
    BY DEF QueueInv, QueueTyped
  <2> QED BY <1>1, <2>1 DEF PollCall, CallOK
<1>2. PICK point \in {"run", "lost"} :
        Goto(c, point) /\ (point = "run" => calls[c].heard)
  BY DEF Claim
<1>3. /\ calls' = [calls EXCEPT ![c] = Gone(c, point)]
      /\ Gone(c, point) \in PollCall /\ Gone(c, point).at = point
      /\ Gone(c, point).cmd = i /\ calls'[c] = Gone(c, point)
      /\ point = "run" => Gone(c, point).heard
  <2>1. point \in Point
    BY DEF Point, Handed
  <2> QED BY <1>2, <2>1, GotoFacts
<1>4. /\ commands' \in Seq(Command) /\ DOMAIN commands' = DOMAIN commands
      /\ \A j \in DOMAIN commands :
           /\ Aged(j) /\ Settled(j)'
           /\ j # i => commands'[j] = commands[j]
           /\ commands'[j].among \in {commands[j].among, calls[c].among}
           /\ commands'[j].audited = commands[j].audited
           /\ commands'[j].outcome = commands[j].outcome
  <2>1. CASE commands[i].state = "pending"
    <3>1. commands' = [commands EXCEPT ![i] = row]
      BY <2>1 DEF Claim
    <3>2. /\ row \in Command /\ row.state = "in_flight"
          /\ row.among = calls[c].among /\ row.created = commands[i].created
          /\ row.audited = commands[i].audited /\ row.outcome = commands[i].outcome
      BY <1>1, <1>11 DEF Command, State
    <3> HIDE DEF row, i
    <3>3. /\ commands' \in Seq(Command) /\ DOMAIN commands' = DOMAIN commands
          /\ commands'[i] = row /\ Len(commands') = Len(commands)
          /\ \A j \in DOMAIN commands : j # i => commands'[j] = commands[j]
      BY <1>1, <3>1, <3>2, CommandUpdate
    <3> QED BY <1>1, <1>11, <2>1, <3>2, <3>3 DEF Aged, Settled
  <2>2. CASE commands[i].state # "pending"
    <3>1. commands' = commands
      BY <2>2 DEF Claim
    <3> QED BY <1>1, <3>1 DEF Aged, Settled
  <2> QED BY <2>1, <2>2
<1>5. CallOK(c)'
  BY <1>1, <1>3, <1>4 DEF CallOK, Handed
<1>6. /\ calls' \in Seq(PollCall) /\ DOMAIN calls' = DOMAIN calls
      /\ \A d \in DOMAIN calls : d # c => calls'[d] = calls[d]
      /\ CallsOK'
  BY <1>3, <1>4, <1>5, CallsKeep
<1>7. QueueTyped'
  BY <1>1, <1>4, <1>6 DEF QueueInv, QueueTyped
<1>8. HistoryAgrees'
  BY <1>4 DEF QueueInv, HistoryAgrees
<1> HIDE DEF i
<1>9. ClaimedInOrder'
  <2> SUFFICES ASSUME NEW j \in DOMAIN commands, NEW k \in DOMAIN commands,
                      j <= commands'[k].among,
                      commands'[j].created < commands'[k].created
               PROVE  commands'[j].state # "pending"
    BY <1>4 DEF ClaimedInOrder
  <2>0. commands[j].created < commands[k].created
    BY <1>4 DEF Aged
  <2>1. CASE k = i /\ commands'[k].among = calls[c].among
    <3>1. commands[j].state # "pending"
      BY <2>0, <2>1, <1>1 DEF CallOK, i
    <3> QED BY <3>1, <1>4 DEF Aged
  <2>2. CASE commands'[k].among = commands[k].among
    <3>1. commands[j].state # "pending"
      BY <2>0, <2>2 DEF QueueInv, ClaimedInOrder
    <3> QED BY <3>1, <1>4 DEF Aged
  <2> QED BY <2>1, <2>2, <1>4
<1>10. InFlightIsCarried'
  <2> SUFFICES ASSUME NEW j \in DOMAIN commands, commands'[j].state = "in_flight"
               PROVE  \E d \in DOMAIN calls' : calls'[d].cmd = j /\ calls'[d].at \in Carrying
    BY <1>4 DEF InFlightIsCarried, Carrying
  <2>1. CASE j = i
    BY <2>1, <1>3, <1>6 DEF Carrying
  <2>2. CASE j # i
    <3>1. commands[j].state = "in_flight"
      BY <2>2, <1>4
    <3>2. PICK d \in DOMAIN calls : calls[d].cmd = j /\ calls[d].at \in Carrying
      BY <3>1 DEF QueueInv, InFlightIsCarried, Carrying
    <3>3. d # c
      BY <3>2, <1>1 DEF Carrying
    <3> QED BY <3>2, <3>3, <1>6
  <2> QED BY <2>1, <2>2
<1> QED BY <1>6, <1>7, <1>8, <1>9, <1>10 DEF QueueInv

LEMMA SettleInv ==
  ASSUME QueueInv, NEW c \in DOMAIN calls, Settle(c) PROVE QueueInv'
<1> DEFINE i == calls[c].cmd
           row == [commands[i] EXCEPT !.state = "acked", !.outcome = calls[c].result]
<1>1. /\ calls[c].at = "settle" /\ CallOK(c) /\ i \in DOMAIN commands
      /\ calls[c].result # "none" /\ calls[c] \in PollCall
      /\ UNCHANGED <<active, changes, faults>>
      /\ commands \in Seq(Command) /\ commands[i] \in Command
      /\ \A j \in DOMAIN commands : Settled(j)
  <2>1. At(c, "settle") /\ UNCHANGED <<active, changes, faults>>
    BY Zenon DEF Settle
  <2> QED BY <2>1 DEF At, QueueInv, QueueTyped, CallsOK, CallOK, Handed
<1>2. \/ /\ commands[i].state = "in_flight" /\ commands' = [commands EXCEPT ![i] = row]
         /\ Goto(c, "audit")
      \/ /\ commands[i].state # "in_flight" /\ commands' = commands /\ Goto(c, "done")
  BY DEF Settle, Ackable
<1>3. /\ row \in Command /\ row.state = "acked" /\ row.outcome = calls[c].result
      /\ row.among = commands[i].among /\ row.created = commands[i].created /\ row.audited = commands[i].audited
  BY <1>1 DEF Command, State, PollCall
<1> HIDE DEF row, i
<1>4. CASE /\ commands[i].state = "in_flight" /\ commands' = [commands EXCEPT ![i] = row]
           /\ Goto(c, "audit")
  <2>1. /\ calls' = [calls EXCEPT ![c] = Gone(c, "audit")]
        /\ Gone(c, "audit") \in PollCall /\ Gone(c, "audit").at = "audit"
        /\ Gone(c, "audit").cmd = i /\ calls'[c] = Gone(c, "audit")
        /\ Gone(c, "audit").result = calls[c].result
    <3>1. "audit" \in Point
      BY DEF Point, Handed
    <3> QED BY <1>4, <3>1, GotoFacts DEF i
  <2>2. /\ commands' \in Seq(Command) /\ DOMAIN commands' = DOMAIN commands
        /\ commands'[i] = row /\ Len(commands') = Len(commands)
        /\ \A j \in DOMAIN commands : j # i => commands'[j] = commands[j]
    BY <1>1, <1>3, <1>4, CommandUpdate
  <2>3. \A j \in DOMAIN commands : Aged(j) /\ Settled(j)'
    BY <1>1, <1>3, <1>4, <2>2 DEF Aged, Settled
  <2>4. CallOK(c)'
    BY <1>1, <1>3, <2>1, <2>2 DEF CallOK, Handed
  <2>5. /\ calls' \in Seq(PollCall) /\ DOMAIN calls' = DOMAIN calls
        /\ \A d \in DOMAIN calls : d # c => calls'[d] = calls[d]
        /\ CallsOK'
    BY <2>1, <2>2, <2>3, <2>4, CallsKeep
  <2>6. QueueTyped'
    BY <1>1, <2>2, <2>3, <2>5 DEF QueueInv, QueueTyped
  <2>7. HistoryAgrees'
    <3>1. commands[i].audited = "none"
      BY <1>1, <1>4 DEF QueueInv, HistoryAgrees, Settled
    <3> QED BY <1>3, <2>2, <3>1 DEF QueueInv, HistoryAgrees
  <2>8. ClaimedInOrder'
    BY <1>3, <2>2 DEF QueueInv, ClaimedInOrder
  <2>9. InFlightIsCarried'
    <3> SUFFICES ASSUME NEW j \in DOMAIN commands, commands'[j].state = "in_flight"
                 PROVE  \E d \in DOMAIN calls' : calls'[d].cmd = j /\ calls'[d].at \in Carrying
      BY <2>2 DEF InFlightIsCarried, Carrying
    <3>1. j # i /\ commands[j].state = "in_flight"
      BY <1>3, <2>2
    <3>2. PICK d \in DOMAIN calls : calls[d].cmd = j /\ calls[d].at \in Carrying
      BY <3>1 DEF QueueInv, InFlightIsCarried, Carrying
    <3>3. d # c
      BY <3>1, <3>2 DEF i
    <3> QED BY <3>2, <3>3, <2>5
  <2> QED BY <2>5, <2>6, <2>7, <2>8, <2>9 DEF QueueInv
<1>5. CASE commands[i].state # "in_flight" /\ commands' = commands /\ Goto(c, "done")
  <2>1. /\ calls' = [calls EXCEPT ![c] = Gone(c, "done")]
        /\ Gone(c, "done") \in PollCall /\ Gone(c, "done").at = "done"
        /\ calls'[c] = Gone(c, "done")
    <3>1. "done" \in Point
      BY DEF Point
    <3> QED BY <1>5, <3>1, GotoFacts
  <2>2. CallOK(c)'
    BY <2>1 DEF CallOK, Handed
  <2>3. faults' \in Nat /\ UNCHANGED <<active, commands, changes>>
    BY <1>1, <1>5 DEF QueueInv, QueueTyped
  <2> QED BY <1>5, <2>1, <2>2, <2>3, CallStep DEF i
<1> QED BY <1>2, <1>4, <1>5

LEMMA AuditInv ==
  ASSUME QueueInv, NEW c \in DOMAIN calls, Audit(c) PROVE QueueInv'
<1> DEFINE i == calls[c].cmd
           row == [commands[i] EXCEPT !.audited = calls[c].result]
<1>1. /\ calls[c].at = "audit" /\ CallOK(c) /\ i \in DOMAIN commands
      /\ calls[c] \in PollCall
      /\ UNCHANGED <<active, changes, faults>>
      /\ commands \in Seq(Command) /\ commands[i] \in Command
      /\ \A j \in DOMAIN commands : Settled(j)
  <2>1. At(c, "audit") /\ UNCHANGED <<active, changes, faults>>
    BY Zenon DEF Audit
  <2> QED BY <2>1 DEF At, QueueInv, QueueTyped, CallsOK, CallOK, Handed
<1>2. commands' = [commands EXCEPT ![i] = row] /\ Goto(c, "done")
  BY DEF Audit
<1>3. /\ row \in Command /\ row.state = commands[i].state
      /\ row.outcome = commands[i].outcome
      /\ row.among = commands[i].among /\ row.created = commands[i].created /\ row.audited = commands[i].outcome
      /\ row.state = "acked"
  BY <1>1 DEF Command, PollCall, CallOK
<1> HIDE DEF row, i
<1>4. /\ calls' = [calls EXCEPT ![c] = Gone(c, "done")]
      /\ Gone(c, "done") \in PollCall /\ Gone(c, "done").at = "done"
      /\ calls'[c] = Gone(c, "done")
  <2>1. "done" \in Point
    BY DEF Point
  <2> QED BY <1>2, <2>1, GotoFacts
<1>5. /\ commands' \in Seq(Command) /\ DOMAIN commands' = DOMAIN commands
      /\ commands'[i] = row /\ Len(commands') = Len(commands)
      /\ \A j \in DOMAIN commands : j # i => commands'[j] = commands[j]
  BY <1>1, <1>2, <1>3, CommandUpdate
<1>6. \A j \in DOMAIN commands : Aged(j) /\ Settled(j)'
  BY <1>1, <1>3, <1>5 DEF Aged, Settled
<1>7. CallOK(c)'
  BY <1>4 DEF CallOK, Handed
<1>8. /\ calls' \in Seq(PollCall) /\ DOMAIN calls' = DOMAIN calls
      /\ \A d \in DOMAIN calls : d # c => calls'[d] = calls[d]
      /\ CallsOK'
  BY <1>4, <1>5, <1>6, <1>7, CallsKeep
<1>9. QueueTyped'
  BY <1>1, <1>5, <1>6, <1>8 DEF QueueInv, QueueTyped
<1>10. HistoryAgrees' /\ ClaimedInOrder'
  BY <1>3, <1>5 DEF QueueInv, HistoryAgrees, ClaimedInOrder
<1>11. InFlightIsCarried'
  <2> SUFFICES ASSUME NEW j \in DOMAIN commands, commands'[j].state = "in_flight"
               PROVE  \E d \in DOMAIN calls' : calls'[d].cmd = j /\ calls'[d].at \in Carrying
    BY <1>5 DEF InFlightIsCarried, Carrying
  <2>1. commands[j].state = "in_flight"
    BY <1>3, <1>5
  <2>2. PICK d \in DOMAIN calls : calls[d].cmd = j /\ calls[d].at \in Carrying
    BY <2>1 DEF QueueInv, InFlightIsCarried, Carrying
  <2>3. d # c
    BY <2>2, <1>1 DEF Carrying
  <2> QED BY <2>2, <2>3, <1>8
<1> QED BY <1>8, <1>9, <1>10, <1>11 DEF QueueInv

-----------------------------------------------------------------------------
(* Faults, and the specification.                                          *)

LEMMA FaultInv ==
  ASSUME QueueInv, NEW c \in DOMAIN calls, Fault(c) PROVE QueueInv'
<1>1. /\ UNCHANGED <<active, commands, changes>> /\ faults' \in Nat
      /\ CallOK(c) /\ calls[c] \in PollCall
  <2>1. UNCHANGED <<active, commands, changes>> /\ faults' = faults + 1
    BY Zenon DEF Fault
  <2> QED BY <2>1 DEF QueueInv, QueueTyped, CallsOK
<1>2. \/ Goto(c, "done") /\ calls[c].at \in {"next", "select", "claim", "audit"}
      \/ Goto(c, "lost") /\ calls[c].at \in {"run", "ack", "settle"}
      \/ calls' = [calls EXCEPT ![c].heard = FALSE] /\ calls[c].at # "run"
  BY DEF Fault, GiveUp, Fail, At
<1>3. CASE Goto(c, "done") /\ calls[c].at \in {"next", "select", "claim", "audit"}
  <2>1. "done" \in Point
    BY DEF Point
  <2>2. /\ calls' = [calls EXCEPT ![c] = Gone(c, "done")]
        /\ Gone(c, "done") \in PollCall /\ Gone(c, "done").at = "done"
        /\ calls'[c] = Gone(c, "done")
    BY <1>3, <2>1, GotoFacts
  <2>3. CallOK(c)'
    BY <2>2 DEF CallOK, Handed
  <2>4. calls[c].at \notin Carrying
    BY <1>3 DEF Carrying
  <2> QED BY <1>1, <2>2, <2>3, <2>4, CallStep
<1>4. CASE Goto(c, "lost") /\ calls[c].at \in {"run", "ack", "settle"}
  <2>1. "lost" \in Point
    BY DEF Point, Handed
  <2>2. /\ calls' = [calls EXCEPT ![c] = Gone(c, "lost")]
        /\ Gone(c, "lost") \in PollCall /\ Gone(c, "lost").at = "lost"
        /\ Gone(c, "lost").cmd = calls[c].cmd
        /\ calls'[c] = Gone(c, "lost")
    BY <1>4, <2>1, GotoFacts
  <2>3. CallOK(c)'
    BY <1>1, <1>4, <2>2 DEF CallOK, Handed
  <2>4. Gone(c, "lost").at \in Carrying
    BY <2>2 DEF Carrying
  <2> QED BY <1>1, <2>2, <2>3, <2>4, CallStep
<1>5. CASE calls' = [calls EXCEPT ![c].heard = FALSE] /\ calls[c].at # "run"
  <2> DEFINE call == [calls[c] EXCEPT !.heard = FALSE]
  <2>1. /\ call \in PollCall /\ call.at = calls[c].at /\ call.cmd = calls[c].cmd
        /\ call.result = calls[c].result /\ call.among = calls[c].among
    BY <1>1 DEF PollCall
  <2>2. calls' = [calls EXCEPT ![c] = call] /\ calls'[c] = call
    BY <1>5
  <2> HIDE DEF call
  <2>3. CallOK(c)'
    BY <1>1, <1>5, <2>1, <2>2 DEF CallOK
  <2> QED BY <1>1, <2>1, <2>2, <2>3, CallStep
<1> QED BY <1>2, <1>3, <1>4, <1>5

LEMMA NextInv == QueueInv /\ [Next]_vars => QueueInv'
<1> SUFFICES ASSUME QueueInv, [Next]_vars PROVE QueueInv'
  OBVIOUS
<1>1. CASE Operator
  <2>1. ASSUME NEW i \in DOMAIN commands, Retry(i) PROVE QueueInv'
    BY <2>1, EnqueueInv DEF Retry
  <2> QED BY <1>1, <2>1, EnqueueInv, StatusInv, CancelInv DEF Operator
<1>2. ASSUME NEW i \in DOMAIN commands, ComesDue(i) PROVE QueueInv'
  BY <1>2, ComesDueInv
<1>3. CASE OtherDeploymentPolls
  BY <1>3, OtherPollInv
<1>4. CASE Poll
  BY <1>4, PollInv
<1>5. ASSUME NEW c \in DOMAIN calls,
             \/ Authenticate(c) \/ Select(c) \/ Claim(c) \/ Execute(c)
             \/ Settle(c) \/ Audit(c) \/ Fault(c)
      PROVE  QueueInv'
  BY <1>5, AuthenticateInv, SelectInv, ClaimInv, ExecuteInv, SettleInv, AuditInv, FaultInv
<1>6. CASE UNCHANGED vars
  BY <1>6 DEF vars, QueueInv, QueueTyped, CallsOK, CallOK, HistoryAgrees, ClaimedInOrder,
     InFlightIsCarried, Settled
<1> QED BY <1>1, <1>2, <1>3, <1>4, <1>5, <1>6 DEF Next

\* However calls overlap, are given up or fail, every call's knowledge of its
\* command stays true (claimNextPendingCommand and acknowledgeCommand, repos/commands.ts).
THEOREM QueueSafe == Spec => []QueueInv
<1> QED BY InitInv, NextInv, PTL DEF Spec

\* Every state of the queue and of its callers is well formed.
THEOREM QueueTypedAlways == Spec => []TypeOK
<1> QED BY QueueSafe, InvType, PTL

\* The audit row of a command never tells another outcome than its row in the queue.
THEOREM AuditAgrees == Spec => []HistoryAgrees
<1>1. QueueInv => HistoryAgrees
  BY DEF QueueInv
<1> QED BY QueueSafe, <1>1, PTL

\* Of the commands that were in the queue when a call chose, none older than the one
\* it claims still waits (claimNextPendingCommand).
THEOREM FirstInFirstOut == Spec => []ClaimedInOrder
<1>1. QueueInv => ClaimedInOrder
  BY DEF QueueInv
<1> QED BY QueueSafe, <1>1, PTL

\* A command in flight is in the hands of a call, or was lost by one.
THEOREM NothingForgotten == Spec => []InFlightIsCarried
<1>1. QueueInv => InFlightIsCarried
  BY DEF QueueInv
<1> QED BY QueueSafe, <1>1, PTL
=============================================================================
