----------------------- MODULE DeploymentAgentProofs -----------------------
(***************************************************************************)
(* Proofs about DeploymentAgent for any number of versions and faults, in  *)
(* the instances where no database is restored.                            *)
(***************************************************************************)
EXTENDS DeploymentAgent, SequenceTheorems, TLAPS

-----------------------------------------------------------------------------
(* The invariant, regrouped: the apply lock, the shared data, each loop.   *)

Locked ==
  /\ queue \in Seq(Loops)
  /\ pc \in [Loops -> ControlPoint]
  /\ \A i, j \in DOMAIN queue : queue[i] = queue[j] => i = j
  /\ \A l \in Loops : pc[l] \in Stopped <=> \A i \in DOMAIN queue : queue[i] # l
  /\ HolderIsFirst

DataTyped ==
  /\ versions \in Seq(Nat) /\ era \in Nat /\ reported \in Nat
  /\ web \in Version
  /\ runtime \in Runtime
  /\ repair \in BOOLEAN /\ cooled \in BOOLEAN
  /\ lateReports \in Seq(Nat) /\ latePuts \subseteq Version
  /\ faults \in Nat

DataSound ==
  /\ web.rev <= Newest /\ runtime.applied <= Newest
  /\ web.rev > 0 => web.content = versions[web.rev]
  /\ \A v \in latePuts :
       v.rev <= Newest /\ v.rev > 0 /\ v.content = versions[v.rev]

LateInOrder ==
  /\ reported <= web.rev
  /\ \A i \in DOMAIN lateReports :
       /\ reported <= lateReports[i] /\ lateReports[i] <= web.rev
       /\ \A j \in DOMAIN lateReports : i <= j => lateReports[i] <= lateReports[j]

LoopTyped(l) ==
  /\ loc[l] \in Locals
  /\ loc[l].error # "none" <=> pc[l] \in {"failed", "failSave"}
  /\ loc[l].error \notin Alarms
  /\ loc[l].web <= web.rev /\ loc[l].target.rev <= Newest
  /\ loc[l].saved.applied <= Newest

ReportSound(l) ==
  pc[l] \in {"report", "current"} =>
    /\ reported <= loc[l].web
    /\ \A i \in DOMAIN lateReports : lateReports[i] <= loc[l].web

TargetSound(l) ==
  pc[l] \in {"fetch", "put", "save", "restatus"} =>
    /\ loc[l].target.rev \in DOMAIN versions
    /\ web.rev <= loc[l].target.rev
    /\ \A v \in latePuts : v.rev <= loc[l].target.rev
    /\ pc[l] \in {"save", "restatus"} => web.rev = loc[l].target.rev
    /\ pc[l] = "put" => loc[l].target.content = versions[loc[l].target.rev]

LoopSound(l) == LoopTyped(l) /\ ReportSound(l) /\ TargetSound(l)

\* All that the steps preserve.
Sound ==
  /\ Locked /\ DataTyped /\ DataSound /\ LateInOrder
  /\ loc \in [Loops -> Locals]
  /\ \A l \in Loops : LoopSound(l)

LEMMA SoundIsAgentInv == Sound <=> AgentInv
<1>1. Sound => AgentInv
  BY DEF Sound, Locked, DataTyped, DataSound, LateInOrder, LoopSound, LoopTyped,
         ReportSound, TargetSound, AgentInv, TypeOK, HolderIsFirst, NothingAhead,
         ReportsInOrder, TargetIsNewest, ContentIsIssued, NoFalseAlarm
<1>2. AgentInv => Sound
  BY DEF Sound, Locked, DataTyped, DataSound, LateInOrder, LoopSound, LoopTyped,
         ReportSound, TargetSound, AgentInv, TypeOK, HolderIsFirst, NothingAhead,
         ReportsInOrder, TargetIsNewest, ContentIsIssued, NoFalseAlarm
<1> QED BY <1>1, <1>2

LEMMA VersionNumbers ==
  ASSUME DataTyped
  PROVE  Newest \in Nat /\ DOMAIN versions = 1 .. Newest
BY DEF DataTyped, Newest

LEMMA BlankTypes ==
  /\ NoVersion \in Version /\ EmptyRuntime \in Runtime /\ NoLocals \in Locals
BY DEF NoVersion, Version, EmptyRuntime, Runtime, ErrorCode, NoLocals, Locals

-----------------------------------------------------------------------------
(* The apply lock.                                                         *)

\* At most one loop holds the lock.
LEMMA OneHolder ==
  ASSUME Locked, NEW l \in Loops, NEW m \in Loops \ {l}, pc[l] \in Holding
  PROVE  pc[m] \notin Holding
BY DEF Locked, HolderIsFirst

\* A loop that starts to wait goes to the end of the queue.
LEMMA Enqueue ==
  ASSUME Locked, NEW l \in Loops, pc[l] \in Stopped,
         queue' = Append(queue, l), pc' = [pc EXCEPT ![l] = "wait"]
  PROVE  Locked'
<1> DEFINE q == Append(queue, l)
<1>1. /\ q \in Seq(Loops) /\ Len(q) = Len(queue) + 1 /\ Len(queue) \in Nat
      /\ q # <<>> /\ q[Len(queue) + 1] = l
      /\ \A i \in 1 .. Len(queue) : q[i] = queue[i]
      /\ DOMAIN queue = 1 .. Len(queue) /\ DOMAIN q = 1 .. Len(queue) + 1
  BY AppendProperties DEF Locked
<1>2. \A i \in DOMAIN queue : queue[i] # l
  BY DEF Locked
<1>3. pc' \in [Loops -> ControlPoint]
  BY DEF Locked, ControlPoint
<1>4. \A i, j \in DOMAIN q : q[i] = q[j] => i = j
  <2>1. \A i \in DOMAIN q : q[i] = l => i = Len(queue) + 1
    BY <1>1, <1>2
  <2>2. \A i, j \in DOMAIN queue : queue[i] = queue[j] => i = j
    BY DEF Locked
  <2> QED BY <1>1, <2>1, <2>2
<1>5. \A m \in Loops : pc'[m] \in Stopped <=> \A i \in DOMAIN q : q[i] # m
  <2> SUFFICES ASSUME NEW m \in Loops
               PROVE pc'[m] \in Stopped <=> \A i \in DOMAIN q : q[i] # m
    OBVIOUS
  <2>1. CASE m = l
    BY <2>1, <1>1 DEF Locked, Stopped
  <2>2. CASE m # l
    <3>1. pc'[m] = pc[m]
      BY <2>2 DEF Locked
    <3>2. (\A i \in DOMAIN queue : queue[i] # m) <=> \A i \in DOMAIN q : q[i] # m
      BY <2>2, <1>1
    <3> QED BY <3>1, <3>2 DEF Locked
  <2> QED BY <2>1, <2>2
<1>6. \A m \in Loops : pc'[m] \in Holding => q # <<>> /\ Head(q) = m
  <2> SUFFICES ASSUME NEW m \in Loops, pc'[m] \in Holding PROVE Head(q) = m
    BY <1>1
  <2>1. m # l /\ pc[m] \in Holding
    BY DEF Locked, Holding, Calls
  <2>2. queue # <<>> /\ Head(queue) = m
    BY <2>1 DEF Locked, HolderIsFirst
  <2> QED BY <2>2, HeadTailAppend DEF Locked
<1> QED BY <1>1, <1>3, <1>4, <1>5, <1>6 DEF Locked, HolderIsFirst

\* The first loop leaves the queue and stops; another one may begin to tick.
LEMMA Dequeue ==
  ASSUME Locked, NEW l \in Loops, HasTurn(l), queue' = Tail(queue),
         pc' \in [Loops -> ControlPoint], pc'[l] \in Stopped,
         \A m \in Loops \ {l} : pc'[m] = pc[m] \/ (pc[m] = "off" /\ pc'[m] = "timer")
  PROVE  Locked'
<1> DEFINE q == Tail(queue)
<1>1. /\ queue # <<>> /\ Head(queue) = l
  BY DEF HasTurn
<1>2. /\ q \in Seq(Loops) /\ Len(q) = Len(queue) - 1 /\ Len(queue) \in Nat
      /\ Len(queue) >= 1 /\ queue[1] = l
      /\ \A i \in 1 .. Len(queue) - 1 : q[i] = queue[i + 1]
      /\ DOMAIN queue = 1 .. Len(queue) /\ DOMAIN q = 1 .. Len(queue) - 1
  BY <1>1, HeadTailProperties DEF Locked
<1>3. \A i, j \in DOMAIN queue : queue[i] = queue[j] => i = j
  BY DEF Locked
<1>4. \A i, j \in DOMAIN q : q[i] = q[j] => i = j
  BY <1>2, <1>3
<1>5. \A i \in DOMAIN q : q[i] # l
  BY <1>2, <1>3
<1>6. \A m \in Loops : pc'[m] \in Stopped <=> \A i \in DOMAIN q : q[i] # m
  <2> SUFFICES ASSUME NEW m \in Loops
               PROVE pc'[m] \in Stopped <=> \A i \in DOMAIN q : q[i] # m
    OBVIOUS
  <2>1. CASE m = l
    BY <2>1, <1>5
  <2>2. CASE m # l
    <3>1. pc'[m] \in Stopped <=> pc[m] \in Stopped
      BY <2>2 DEF Stopped
    <3>2. ASSUME NEW i \in DOMAIN queue, queue[i] = m
          PROVE  \E j \in DOMAIN q : q[j] = m
      <4>1. i - 1 \in DOMAIN q /\ q[i - 1] = m
        BY <3>2, <2>2, <1>2
      <4> QED BY <4>1
    <3>3. ASSUME NEW j \in DOMAIN q, q[j] = m
          PROVE  \E i \in DOMAIN queue : queue[i] = m
      <4>1. j + 1 \in DOMAIN queue /\ queue[j + 1] = m
        BY <3>3, <1>2
      <4> QED BY <4>1
    <3> QED BY <3>1, <3>2, <3>3 DEF Locked
  <2> QED BY <2>1, <2>2
<1>7. \A m \in Loops : pc'[m] \notin Holding
  <2>1. pc'[l] \notin Holding
    BY DEF Stopped, Holding, Calls
  <2>2. ASSUME NEW m \in Loops \ {l} PROVE pc'[m] \notin Holding
    BY <1>1 DEF Locked, HolderIsFirst, Holding, Calls
  <2> QED BY <2>1, <2>2
<1> QED BY <1>2, <1>4, <1>6, <1>7 DEF Locked, HolderIsFirst

\* The loop whose turn it is goes on.
LEMMA KeepTurn ==
  ASSUME Locked, NEW l \in Loops, HasTurn(l), NEW point \in Holding,
         pc[l] \notin Stopped,
         queue' = queue, pc' = [pc EXCEPT ![l] = point]
  PROVE  Locked'
<1>1. pc' \in [Loops -> ControlPoint] /\ point \notin Stopped
  BY DEF Locked, ControlPoint, Holding, Calls, Stopped
<1> QED BY <1>1 DEF Locked, HolderIsFirst, HasTurn

\* A loop outside the lock goes from one such point to another.
LEMMA StayOut ==
  ASSUME Locked, queue' = queue, pc' \in [Loops -> ControlPoint],
         \A m \in Loops : pc'[m] = pc[m] \/ (pc[m] \in Stopped /\ pc'[m] \in Stopped)
  PROVE  Locked'
BY DEF Locked, HolderIsFirst, Stopped, Holding, Calls

-----------------------------------------------------------------------------
(* What a step of one loop means for itself and for the other one.         *)

\* The other loop keeps its locals and at most begins to tick.
OthersKeep(l) ==
  \A m \in Loops \ {l} :
    /\ loc'[m] = loc[m]
    /\ pc'[m] = pc[m] \/ (pc[m] = "off" /\ pc'[m] = "timer")

Grows == Newest' >= Newest /\ web'.rev >= web.rev

SharedUnchanged == UNCHANGED <<versions, web, reported, lateReports, latePuts>>

LEMMA OtherLoop ==
  ASSUME NEW m \in Loops, LoopSound(m), DataTyped, DataTyped', Grows,
         loc'[m] = loc[m], pc'[m] = pc[m] \/ (pc[m] = "off" /\ pc'[m] = "timer"),
         pc[m] \notin Holding \/ SharedUnchanged
  PROVE  LoopSound(m)'
<1>1. /\ Newest \in Nat /\ Newest' \in Nat /\ web.rev \in Nat /\ web'.rev \in Nat
  BY DEF DataTyped, Newest, Version
<1>2. /\ loc[m] \in Locals /\ loc[m].web \in Nat /\ loc[m].target.rev \in Nat
      /\ loc[m].saved.applied \in Nat
  BY DEF LoopSound, LoopTyped, Locals, Version, Runtime
<1>3. LoopTyped(m)'
  BY <1>1, <1>2 DEF LoopSound, LoopTyped, Grows
<1>4. CASE pc[m] \notin Holding
  BY <1>3, <1>4 DEF LoopSound, ReportSound, TargetSound, Holding, Calls
<1>5. CASE SharedUnchanged
  BY <1>3, <1>5 DEF SharedUnchanged, LoopSound, ReportSound, TargetSound
<1> QED BY <1>4, <1>5

\* What is to be shown of a step of loop l.
LEMMA LoopStep ==
  ASSUME Sound, NEW l \in Loops, OthersKeep(l), Grows,
         (\A m \in Loops \ {l} : pc[m] \notin Holding) \/ SharedUnchanged,
         Locked', DataTyped', DataSound', LateInOrder',
         loc' \in [Loops -> Locals], LoopSound(l)'
  PROVE  Sound'
<1>1. ASSUME NEW m \in Loops \ {l} PROVE LoopSound(m)'
  BY OtherLoop DEF Sound, OthersKeep
<1> QED BY <1>1 DEF Sound

LEMMA Held ==
  ASSUME Sound, NEW l \in Loops, pc[l] \in Holding
  PROVE  /\ HasTurn(l) /\ pc[l] \notin Stopped
         /\ \A m \in Loops \ {l} : pc[m] \notin Holding
<1>1. Locked
  BY DEF Sound
<1> QED BY <1>1, OneHolder DEF Locked, HolderIsFirst, HasTurn, Holding, Calls, Stopped

LEMMA Finishing ==
  ASSUME Sound, NEW l \in Loops, HasTurn(l), Finish(l), DataTyped'
  PROVE  /\ Locked' /\ OthersKeep(l) /\ loc' \in [Loops -> Locals]
         /\ LoopSound(l)' /\ repair' \in BOOLEAN
<1>1. /\ Locked /\ loc \in [Loops -> Locals] /\ pc \in [Loops -> ControlPoint]
      /\ repair \in BOOLEAN
  BY DEF Sound, Locked, DataTyped
<1>2. /\ pc' \in [Loops -> ControlPoint] /\ pc'[l] = "timer"
      /\ \A m \in Loops \ {l} :
           pc'[m] = pc[m] \/ (pc[m] = "off" /\ pc'[m] = "timer")
  BY <1>1 DEF Finish, Rest, ControlPoint
<1>3. /\ loc' \in [Loops -> Locals] /\ loc'[l] = NoLocals
      /\ \A m \in Loops \ {l} : loc'[m] = loc[m]
  BY <1>1, BlankTypes DEF Finish
<1>4. Locked'
  BY <1>1, <1>2, Dequeue DEF Finish, Release, Stopped
<1>5. Newest' \in Nat /\ web'.rev \in Nat
  BY DEF DataTyped, Newest, Version
<1>6. LoopSound(l)'
  BY <1>2, <1>3, <1>5, BlankTypes
  DEF LoopSound, LoopTyped, ReportSound, TargetSound, NoLocals, NoVersion,
      EmptyRuntime, Alarms
<1> QED BY <1>1, <1>2, <1>3, <1>4, <1>6 DEF OthersKeep, Finish

LEMMA Failing ==
  ASSUME Sound, NEW l \in Loops, HasTurn(l), NEW code \in ErrorCode \ {"none"},
         code \notin Alarms, DataTyped',
         Release(l), Goto(l, "failed"),
         loc' = [loc EXCEPT ![l] = [NoLocals EXCEPT !.error = code]]
  PROVE  /\ Locked' /\ OthersKeep(l) /\ loc' \in [Loops -> Locals]
         /\ LoopSound(l)'
<1>1. Locked /\ loc \in [Loops -> Locals] /\ pc \in [Loops -> ControlPoint]
  BY DEF Sound, Locked
<1>2. /\ pc' \in [Loops -> ControlPoint] /\ pc'[l] = "failed"
      /\ \A m \in Loops \ {l} : pc'[m] = pc[m]
  BY <1>1 DEF Goto, ControlPoint
<1> DEFINE failed == [NoLocals EXCEPT !.error = code]
<1>3. /\ failed \in Locals /\ failed.error = code /\ failed.web = 0
      /\ failed.target.rev = 0 /\ failed.saved.applied = 0
  BY BlankTypes DEF Locals, NoLocals, NoVersion, EmptyRuntime
<1>4. /\ loc' \in [Loops -> Locals] /\ loc'[l] = failed
      /\ \A m \in Loops \ {l} : loc'[m] = loc[m]
  BY <1>1, <1>3
<1>5. Locked'
  BY <1>1, <1>2, Dequeue DEF Release, Stopped
<1>6. Newest' \in Nat /\ web'.rev \in Nat
  BY DEF DataTyped, Newest, Version
<1>7. LoopSound(l)'
  <2> HIDE DEF failed
  <2>1. LoopTyped(l)'
    <3>1. /\ loc'[l] \in Locals /\ loc'[l].error = code /\ loc'[l].web = 0
          /\ loc'[l].target.rev = 0 /\ loc'[l].saved.applied = 0
      BY <1>3, <1>4
    <3>2. code # "none"
      OBVIOUS
    <3>3. 0 <= Newest' /\ 0 <= web'.rev
      BY <1>6
    <3> QED BY <1>2, <3>1, <3>2, <3>3 DEF LoopTyped
  <2>2. ReportSound(l)' /\ TargetSound(l)'
    BY <1>2 DEF ReportSound, TargetSound
  <2> QED BY <2>1, <2>2 DEF LoopSound
<1> QED BY <1>2, <1>4, <1>5, <1>7 DEF OthersKeep

LEMMA Continuing ==
  ASSUME Sound, NEW l \in Loops, HasTurn(l), pc[l] \notin Stopped,
         NEW point \in Holding, NEW locals \in Locals,
         Continue(l, point, locals)
  PROVE  /\ Locked' /\ OthersKeep(l) /\ loc' \in [Loops -> Locals]
         /\ loc'[l] = locals /\ pc'[l] = point
         /\ queue' = queue /\ repair' = repair
<1>1. Locked /\ loc \in [Loops -> Locals] /\ pc \in [Loops -> ControlPoint]
  BY DEF Sound, Locked
<1>2. pc' = [pc EXCEPT ![l] = point] /\ queue' = queue
  BY DEF Continue, Goto
<1>3. Locked'
  BY <1>1, <1>2, KeepTurn
<1> QED BY <1>1, <1>2, <1>3 DEF Continue, OthersKeep

\* An attempt begins.
LEMMA Attempting ==
  ASSUME Sound, NEW l \in Loops, HasTurn(l), pc[l] \notin Stopped, Attempt(l),
         DataTyped', Grows
  PROVE  /\ Locked' /\ OthersKeep(l) /\ loc' \in [Loops -> Locals]
         /\ LoopSound(l)' /\ repair' = repair
<1> DEFINE fresh == [NoLocals EXCEPT !.saved = runtime]
<1>1. /\ runtime \in Runtime /\ runtime.applied <= Newest
      /\ runtime.applied \in Nat /\ Newest \in Nat /\ Newest' \in Nat
      /\ web'.rev \in Nat
  BY DEF Sound, DataTyped, DataSound, Newest, Runtime, Version
<1>2. /\ fresh \in Locals /\ fresh.error = "none" /\ fresh.web = 0
      /\ fresh.target.rev = 0 /\ fresh.saved = runtime
  BY <1>1, BlankTypes DEF Locals, NoLocals, NoVersion
<1> HIDE DEF fresh
<1>3. Continue(l, "status", fresh)
  BY DEF Attempt, fresh
<1>4. /\ Locked' /\ OthersKeep(l) /\ loc' \in [Loops -> Locals]
      /\ loc'[l] = fresh /\ pc'[l] = "status" /\ repair' = repair
  <2>1. "status" \in Holding
    BY DEF Holding, Calls
  <2> QED BY <1>2, <1>3, <2>1, Continuing
<1>5. LoopSound(l)'
  BY <1>1, <1>2, <1>4 DEF LoopSound, LoopTyped, ReportSound, TargetSound, Grows, Alarms
<1> QED BY <1>4, <1>5

\* The databases and the calls on their way are as before.
LEMMA SharedKept ==
  ASSUME Sound, SharedUnchanged, era' = era, faults' = faults,
         repair' \in BOOLEAN, cooled' \in BOOLEAN,
         runtime' \in Runtime, runtime'.applied <= Newest
  PROVE  DataTyped' /\ DataSound' /\ LateInOrder' /\ Grows
<1>1. Newest' = Newest /\ Newest \in Nat /\ web.rev \in Nat
  BY DEF SharedUnchanged, Newest, Sound, DataTyped, Version
<1>2. DataTyped'
  BY DEF Sound, DataTyped, SharedUnchanged
<1>3. DataSound'
  BY <1>1 DEF Sound, DataSound, SharedUnchanged
<1>4. LateInOrder'
  BY DEF Sound, LateInOrder, SharedUnchanged
<1> QED BY <1>1, <1>2, <1>3, <1>4 DEF Grows, SharedUnchanged

LEMMA RuntimeTypes ==
  ASSUME Sound
  PROVE  /\ runtime \in Runtime /\ runtime.applied \in Nat
         /\ runtime.applied <= Newest /\ Newest \in Nat /\ web.rev \in Nat
         /\ web.rev <= Newest /\ repair \in BOOLEAN /\ cooled \in BOOLEAN
         /\ \A l \in Loops :
              /\ loc[l] \in Locals /\ loc[l].saved \in Runtime
              /\ loc[l].saved.applied <= Newest /\ loc[l].web \in Nat
              /\ loc[l].target \in Version /\ loc[l].target.rev \in Nat
BY DEF Sound, DataTyped, DataSound, Newest, Runtime, Version, LoopSound, LoopTyped,
       Locals

-----------------------------------------------------------------------------
(* The steps of a loop.                                                    *)

LEMMA StartStep ==
  ASSUME Sound, NEW l \in Loops, Start(l) PROVE Sound'
<1>1. /\ pc[l] = "timer" /\ queue' = Append(queue, l)
      /\ pc' = [pc EXCEPT ![l] = "wait"] /\ loc' = loc /\ SharedUnchanged
      /\ UNCHANGED <<era, runtime, repair, cooled, faults>>
  BY DEF Start, Goto, control, crm, SharedUnchanged
<1>2. Locked'
  BY <1>1, Enqueue DEF Sound, Stopped
<1>3. DataTyped' /\ DataSound' /\ LateInOrder' /\ Grows
  BY <1>1, SharedKept, RuntimeTypes
<1>4. OthersKeep(l) /\ pc'[l] = "wait"
  BY <1>1 DEF OthersKeep, Sound, Locked
<1>5. LoopSound(l)'
  BY <1>1, <1>4, RuntimeTypes
  DEF Sound, LoopSound, LoopTyped, ReportSound, TargetSound, SharedUnchanged, Newest
<1> QED BY <1>1, <1>2, <1>3, <1>4, <1>5, LoopStep DEF Sound

LEMMA AcquireStep ==
  ASSUME Sound, NEW l \in Loops, Acquire(l) PROVE Sound'
<1>1. /\ pc[l] = "wait" /\ HasTurn(l) /\ SharedUnchanged
      /\ UNCHANGED <<era, runtime, cooled, faults>>
  BY DEF Acquire, control, crm, SharedUnchanged
<1>2. CASE Fail(l, "agent_error")
  <2>1. DataTyped' /\ DataSound' /\ LateInOrder' /\ Grows
    BY <1>1, <1>2, SharedKept, RuntimeTypes DEF Fail
  <2>2. "agent_error" \in ErrorCode \ {"none"} /\ "agent_error" \notin Alarms
    BY DEF ErrorCode, Alarms
  <2> QED BY <1>1, <1>2, <2>1, <2>2, Failing, LoopStep DEF Fail
<1>3. CASE Attempt(l)
  <2>1. DataTyped' /\ DataSound' /\ LateInOrder' /\ Grows
    BY <1>1, <1>3, SharedKept, RuntimeTypes DEF Attempt, Continue
  <2> QED BY <1>1, <1>3, <2>1, Attempting, LoopStep DEF Stopped
<1> QED BY <1>2, <1>3 DEF Acquire

\* The holder of the lock ends its turn, or goes on.
LEMMA FinishStep ==
  ASSUME Sound, NEW l \in Loops, pc[l] \in Holding, Finish(l),
         DataTyped', DataSound', LateInOrder', Grows
  PROVE  Sound'
BY Held, Finishing, LoopStep

LEMMA FailStep ==
  ASSUME Sound, NEW l \in Loops, pc[l] \in Holding, NEW code \in ErrorCode \ {"none"},
         code \notin Alarms, Release(l), Goto(l, "failed"),
         loc' = [loc EXCEPT ![l] = [NoLocals EXCEPT !.error = code]],
         DataTyped', DataSound', LateInOrder', Grows
  PROVE  Sound'
<1>1. /\ HasTurn(l) /\ \A m \in Loops \ {l} : pc[m] \notin Holding
  BY Held
<1>2. /\ Locked' /\ OthersKeep(l) /\ loc' \in [Loops -> Locals] /\ LoopSound(l)'
  BY <1>1, Failing
<1> QED BY <1>1, <1>2, LoopStep

LEMMA ContinueStep ==
  ASSUME Sound, NEW l \in Loops, pc[l] \in Holding,
         NEW point \in Holding, NEW locals \in Locals, Continue(l, point, locals),
         locals.error = "none", locals.web <= web'.rev,
         locals.target.rev <= Newest', locals.saved.applied <= Newest',
         pc'[l] = point /\ loc'[l] = locals => ReportSound(l)' /\ TargetSound(l)',
         DataTyped', DataSound', LateInOrder', Grows
  PROVE  Sound'
<1>1. /\ HasTurn(l) /\ pc[l] \notin Stopped
      /\ \A m \in Loops \ {l} : pc[m] \notin Holding
  BY Held
<1>2. /\ Locked' /\ OthersKeep(l) /\ loc' \in [Loops -> Locals]
      /\ loc'[l] = locals /\ pc'[l] = point
  BY <1>1, Continuing
<1>3. LoopTyped(l)'
  BY <1>2 DEF LoopTyped, Holding, Calls, Alarms
<1> QED BY <1>1, <1>2, <1>3, LoopStep DEF LoopSound

LEMMA StatusStep ==
  ASSUME Sound, NEW l \in Loops, Status(l) PROVE Sound'
<1>1. /\ pc[l] = "status" /\ pc[l] \in Holding /\ SharedUnchanged
      /\ UNCHANGED <<era, cooled, faults>>
  BY DEF Status, control, crm, SharedUnchanged, Holding, Calls
<1>2. /\ Newest' = Newest /\ web' = web /\ lateReports' = lateReports
      /\ reported' = reported
  BY <1>1 DEF SharedUnchanged, Newest
<1>3. LateInOrder
  BY DEF Sound
<1> DEFINE cycleLocals == [NoLocals EXCEPT !.web = web.rev]
           pollLocals == [NoLocals EXCEPT !.web = web.rev, !.saved = runtime]
<1>4. /\ cycleLocals \in Locals /\ cycleLocals.error = "none"
      /\ cycleLocals.web = web.rev /\ cycleLocals.target.rev = 0
      /\ cycleLocals.saved.applied = 0
      /\ pollLocals \in Locals /\ pollLocals.error = "none"
      /\ pollLocals.web = web.rev /\ pollLocals.target.rev = 0
      /\ pollLocals.saved = runtime
  BY RuntimeTypes, BlankTypes DEF Locals, NoLocals, NoVersion, EmptyRuntime
<1> HIDE DEF cycleLocals, pollLocals
<1>5. ASSUME NEW point \in {"report", "current"}, pc'[l] = point, loc'[l].web = web.rev
      PROVE  ReportSound(l)' /\ TargetSound(l)'
  <2>1. ReportSound(l)'
    BY <1>2, <1>3, <1>5 DEF ReportSound, LateInOrder
  <2>2. TargetSound(l)'
    BY <1>5 DEF TargetSound
  <2> QED BY <2>1, <2>2
<1>6. CASE l = "cycle"
  <2>1. /\ runtime' = [loc[l].saved EXCEPT !.applied = web.rev, !.error = "none"]
        /\ Continue(l, "report", cycleLocals)
    BY <1>6 DEF Status, cycleLocals
  <2>2. runtime' \in Runtime /\ runtime'.applied <= Newest
    BY <2>1, RuntimeTypes DEF Runtime, ErrorCode
  <2>3. DataTyped' /\ DataSound' /\ LateInOrder' /\ Grows
    BY <1>1, <2>1, <2>2, SharedKept, RuntimeTypes DEF Continue
  <2>4. "report" \in Holding
    BY DEF Holding, Calls
  <2>5. pc'[l] = "report" /\ loc'[l] = cycleLocals => ReportSound(l)' /\ TargetSound(l)'
    BY <1>4, <1>5
  <2> QED BY <1>1, <1>2, <1>4, <2>1, <2>3, <2>4, <2>5, ContinueStep, RuntimeTypes
<1>7. CASE l # "cycle"
  <2>1. /\ runtime' = runtime
        /\ Finish(l) \/ Continue(l, "current", pollLocals)
    BY <1>7 DEF Status, pollLocals
  <2>2. repair' \in BOOLEAN
    BY <2>1, RuntimeTypes DEF Finish, Continue
  <2>3. DataTyped' /\ DataSound' /\ LateInOrder' /\ Grows
    BY <1>1, <2>1, <2>2, SharedKept, RuntimeTypes
  <2>4. CASE Finish(l)
    BY <1>1, <2>3, <2>4, FinishStep
  <2>5. CASE Continue(l, "current", pollLocals)
    <3>1. "current" \in Holding
      BY DEF Holding, Calls
    <3>2. pc'[l] = "current" /\ loc'[l] = pollLocals => ReportSound(l)' /\ TargetSound(l)'
      BY <1>4, <1>5
    <3> QED BY <1>1, <1>2, <1>4, <2>3, <2>5, <3>1, <3>2, ContinueStep, RuntimeTypes
  <2> QED BY <2>1, <2>4, <2>5
<1> QED BY <1>6, <1>7

\* The target of a put is what the control plane issued under its number.
LEMMA PutTarget ==
  ASSUME Sound, NEW l \in Loops, pc[l] = "put"
  PROVE  /\ Accepted(loc[l].target) /\ AfterPut(loc[l].target) \in Version
         /\ AfterPut(loc[l].target).rev = loc[l].target.rev
         /\ AfterPut(loc[l].target).content = versions[loc[l].target.rev]
<1> DEFINE t == loc[l].target
<1>1. /\ t.rev \in DOMAIN versions /\ web.rev <= t.rev
      /\ t.content = versions[t.rev]
  BY DEF Sound, LoopSound, TargetSound
<1>2. t \in Version /\ t.rev \in Nat /\ web \in Version /\ web.rev \in Nat
  BY RuntimeTypes DEF Sound, DataTyped
<1>3. CASE web.rev < t.rev
  BY <1>1, <1>2, <1>3 DEF Accepted, AfterPut
<1>4. CASE web.rev = t.rev
  <2>1. t.rev > 0
    BY <1>1, <1>2, VersionNumbers DEF Sound
  <2>2. web.content = versions[web.rev]
    BY <1>4, <2>1 DEF Sound, DataSound
  <2>3. web = t
    BY <1>1, <1>2, <1>4, <2>2 DEF Version
  <2> QED BY <1>1, <1>2, <1>4, <2>2, <2>3 DEF Accepted, AfterPut
<1> QED BY <1>1, <1>2, <1>3, <1>4

LEMMA PutStep ==
  ASSUME Sound, NEW l \in Loops, Put(l) PROVE Sound'
<1>1. /\ pc[l] = "put" /\ pc[l] \in Holding
      /\ UNCHANGED <<versions, era, reported, lateReports, latePuts, runtime, cooled, faults>>
      /\ web' = AfterPut(loc[l].target)
  BY DEF Put, control, Holding, Calls
<1>2. Continue(l, "save", loc[l])
  BY <1>1, PutTarget DEF Put
<1>3. /\ web' \in Version /\ web'.rev = loc[l].target.rev
      /\ web'.content = versions[loc[l].target.rev] /\ web'.rev \in Nat
  BY <1>1, PutTarget, RuntimeTypes
<1>4. /\ loc[l].target.rev \in DOMAIN versions /\ web.rev <= loc[l].target.rev
      /\ \A v \in latePuts : v.rev <= loc[l].target.rev
  BY <1>1 DEF Sound, LoopSound, TargetSound
<1>5. LoopTyped(l) /\ loc[l].error = "none"
  BY <1>1 DEF Sound, LoopSound, LoopTyped
<1>6. Newest' = Newest /\ Newest \in Nat
  BY <1>1, RuntimeTypes DEF Newest
<1>7. DataTyped'
  BY <1>1, <1>2, <1>3 DEF Sound, DataTyped, Continue
<1>8. DataSound'
  BY <1>1, <1>3, <1>5, <1>6 DEF Sound, DataSound, LoopTyped
<1>9. LateInOrder'
  <2>1. lateReports \in Seq(Nat) /\ reported \in Nat /\ web.rev \in Nat
    BY DEF Sound, DataTyped, Version
  <2>2. \A i \in DOMAIN lateReports : lateReports[i] \in Nat
    BY <2>1
  <2> QED BY <1>1, <1>3, <1>4, <2>1, <2>2 DEF Sound, LateInOrder
<1>10. Grows
  BY <1>3, <1>4, <1>6 DEF Grows
<1>11. pc'[l] = "save" /\ loc'[l] = loc[l] => ReportSound(l)' /\ TargetSound(l)'
  BY <1>1, <1>3, <1>4 DEF ReportSound, TargetSound
<1>12. /\ "save" \in Holding /\ loc[l] \in Locals /\ loc[l].web \in Nat
       /\ loc[l].web <= web'.rev
  BY <1>3, <1>4, <1>5, RuntimeTypes DEF Holding, LoopTyped
<1> QED BY <1>1, <1>2, <1>5, <1>6, <1>7, <1>8, <1>9, <1>10, <1>11, <1>12,
           ContinueStep DEF LoopTyped

LEMMA SaveStep ==
  ASSUME Sound, NEW l \in Loops, Save(l) PROVE Sound'
<1>1. /\ pc[l] = "save" /\ pc[l] \in Holding /\ SharedUnchanged
      /\ UNCHANGED <<era, cooled, faults>> /\ Continue(l, "restatus", loc[l])
      /\ runtime' = [applied |-> loc[l].target.rev, pending |-> loc[l].target.rev,
                     error |-> "none"]
  BY DEF Save, control, crm, SharedUnchanged, Holding
<1>2. LoopTyped(l) /\ loc[l].error = "none" /\ TargetSound(l)
  BY <1>1 DEF Sound, LoopSound, LoopTyped
<1>3. runtime' \in Runtime /\ runtime'.applied <= Newest
  BY <1>1, <1>2, RuntimeTypes DEF Runtime, ErrorCode, LoopTyped
<1>4. DataTyped' /\ DataSound' /\ LateInOrder' /\ Grows
  BY <1>1, <1>3, SharedKept, RuntimeTypes DEF Continue
<1>5. pc'[l] = "restatus" /\ loc'[l] = loc[l] => ReportSound(l)' /\ TargetSound(l)'
  BY <1>1, <1>2 DEF ReportSound, TargetSound, SharedUnchanged
<1>6. "restatus" \in Holding /\ Newest' = Newest /\ web' = web
  BY <1>1 DEF Holding, Calls, SharedUnchanged, Newest
<1> QED BY <1>1, <1>2, <1>4, <1>5, <1>6, ContinueStep, RuntimeTypes DEF LoopTyped

LEMMA RestatusStep ==
  ASSUME Sound, NEW l \in Loops, Restatus(l) PROVE Sound'
<1>1. /\ pc[l] = "restatus" /\ pc[l] \in Holding /\ SharedUnchanged
      /\ UNCHANGED <<era, runtime, cooled, faults>>
  BY DEF Restatus, control, crm, SharedUnchanged, Holding, Calls
<1> DEFINE closing == [loc[l] EXCEPT !.web = web.rev, !.closing = TRUE]
<1>2. LoopTyped(l) /\ loc[l].error = "none" /\ web.rev = loc[l].target.rev
  BY <1>1 DEF Sound, LoopSound, LoopTyped, TargetSound
<1>3. Continue(l, "report", closing)
  BY <1>2 DEF Restatus
<1>4. /\ closing \in Locals /\ closing.error = "none" /\ closing.web = web.rev
      /\ closing.target = loc[l].target /\ closing.saved = loc[l].saved
  BY <1>2, RuntimeTypes DEF Locals
<1> HIDE DEF closing
<1>5. DataTyped' /\ DataSound' /\ LateInOrder' /\ Grows
  BY <1>1, <1>3, SharedKept, RuntimeTypes DEF Continue
<1>6. pc'[l] = "report" /\ loc'[l] = closing => ReportSound(l)' /\ TargetSound(l)'
  BY <1>1, <1>4 DEF ReportSound, TargetSound, SharedUnchanged, Sound, LateInOrder
<1>7. "report" \in Holding /\ Newest' = Newest /\ web' = web
  BY <1>1 DEF Holding, Calls, SharedUnchanged, Newest
<1> QED BY <1>1, <1>2, <1>3, <1>4, <1>5, <1>6, <1>7, ContinueStep, RuntimeTypes
       DEF LoopTyped

\* A loop that was told of a newer version turns to it.
LEMMA FetchNext ==
  ASSUME Sound, NEW l \in Loops, pc[l] \in {"report", "current"},
         web.rev < Newest \/ Newest > loc[l].web,
         Continue(l, "fetch", [loc[l] EXCEPT !.target.rev = Newest]),
         UNCHANGED <<versions, web, latePuts>>,
         DataTyped', DataSound', LateInOrder', Grows
  PROVE  Sound'
<1> DEFINE next == [loc[l] EXCEPT !.target.rev = Newest]
<1>1. LoopTyped(l) /\ loc[l].error = "none" /\ Newest' = Newest
  BY DEF Sound, LoopSound, LoopTyped, Newest
<1>2. /\ next \in Locals /\ next.error = "none" /\ next.web = loc[l].web
      /\ next.target.rev = Newest /\ next.saved = loc[l].saved
  BY <1>1, RuntimeTypes DEF Locals, Version
<1> HIDE DEF next
<1>3. Newest \in DOMAIN versions
  BY RuntimeTypes, VersionNumbers DEF Sound
<1>4. pc'[l] = "fetch" /\ loc'[l] = next => ReportSound(l)' /\ TargetSound(l)'
  BY <1>1, <1>2, <1>3, RuntimeTypes DEF ReportSound, TargetSound, Sound, DataSound
<1>5. "fetch" \in Holding /\ pc[l] \in Holding
  BY DEF Holding, Calls
<1>6. Continue(l, "fetch", next)
  BY DEF next
<1> QED BY <1>1, <1>2, <1>4, <1>5, <1>6, ContinueStep, RuntimeTypes DEF LoopTyped

LEMMA ReportStep ==
  ASSUME Sound, NEW l \in Loops, Report(l) PROVE Sound'
<1>1. /\ pc[l] = "report" /\ pc[l] \in Holding /\ Recorded(l)
      /\ UNCHANGED <<versions, era, web, latePuts, cooled, faults>>
  BY DEF Report, crm, Holding, Calls
<1>2. LoopTyped(l) /\ ReportSound(l)
  BY <1>1 DEF Sound, LoopSound
<1>3. Newest' = Newest /\ Grows
  BY <1>1, RuntimeTypes DEF Newest, Grows
<1>4. runtime' \in Runtime /\ runtime'.applied = runtime.applied
  <2>1. runtime.pending \in Nat /\ loc[l].web \in Nat
    BY RuntimeTypes DEF Runtime
  <2> QED BY <1>1, <2>1, RuntimeTypes DEF Recorded, Runtime, ErrorCode
<1>5. repair' \in BOOLEAN
  BY RuntimeTypes DEF Report, Finish, Fail, Continue
<1>6. DataTyped'
  BY <1>1, <1>4, <1>5, RuntimeTypes DEF Sound, DataTyped, Recorded
<1>7. DataSound'
  BY <1>1, <1>3, <1>4 DEF Sound, DataSound
<1>8. LateInOrder'
  <2>1. reported' = loc[l].web /\ lateReports' = <<>> /\ web' = web
    BY <1>1 DEF Recorded
  <2> QED BY <1>2, <2>1 DEF LateInOrder, LoopTyped
<1>9. CASE Finish(l)
  BY <1>1, <1>3, <1>6, <1>7, <1>8, <1>9, FinishStep
<1>10. CASE loc[l].web > Newest
  BY <1>2, <1>10, RuntimeTypes DEF LoopTyped
<1>11. CASE /\ loc[l].web < Newest
            /\ Continue(l, "fetch", [loc[l] EXCEPT !.target.rev = Newest])
  BY <1>1, <1>3, <1>6, <1>7, <1>8, <1>11, FetchNext
<1>12. \/ Finish(l) \/ loc[l].web > Newest
       \/ /\ loc[l].web < Newest
          /\ Continue(l, "fetch", [loc[l] EXCEPT !.target.rev = Newest])
  BY RuntimeTypes DEF Report
<1> QED BY <1>9, <1>10, <1>11, <1>12

LEMMA CurrentStep ==
  ASSUME Sound, NEW l \in Loops, Current(l) PROVE Sound'
<1>1. /\ pc[l] = "current" /\ pc[l] \in Holding /\ SharedUnchanged
      /\ UNCHANGED <<era, runtime, cooled, faults>>
  BY DEF Current, control, crm, SharedUnchanged, Holding, Calls
<1>2. LoopTyped(l) /\ ReportSound(l) /\ loc[l].error = "none"
  BY <1>1 DEF Sound, LoopSound, LoopTyped
<1>3. Newest >= loc[l].web /\ Newest >= loc[l].saved.applied
  <2>1. loc[l].saved.applied \in Nat
    BY RuntimeTypes DEF Runtime
  <2> QED BY <1>2, <2>1, RuntimeTypes DEF LoopTyped
<1> DEFINE closing == [loc[l] EXCEPT !.closing = TRUE]
<1>4. /\ closing \in Locals /\ closing.error = "none" /\ closing.web = loc[l].web
      /\ closing.target = loc[l].target /\ closing.saved = loc[l].saved
  BY <1>2, RuntimeTypes DEF Locals
<1>5. \/ Finish(l) \/ Continue(l, "report", closing)
      \/ /\ Newest > loc[l].web
         /\ Continue(l, "fetch", [loc[l] EXCEPT !.target.rev = Newest])
  <2>1. loc[l].saved.applied \in Nat
    BY RuntimeTypes DEF Runtime
  <2> QED BY <1>3, <2>1, RuntimeTypes DEF Current
<1> HIDE DEF closing
<1>6. DataTyped' /\ DataSound' /\ LateInOrder' /\ Grows
  <2>1. repair' \in BOOLEAN
    BY <1>5, RuntimeTypes DEF Finish, Continue
  <2> QED BY <1>1, <2>1, SharedKept, RuntimeTypes
<1>7. CASE Finish(l)
  BY <1>1, <1>6, <1>7, FinishStep
<1>8. CASE Continue(l, "report", closing)
  <2>1. pc'[l] = "report" /\ loc'[l] = closing => ReportSound(l)' /\ TargetSound(l)'
    BY <1>1, <1>2, <1>4 DEF ReportSound, TargetSound, SharedUnchanged
  <2>2. "report" \in Holding /\ Newest' = Newest /\ web' = web
    BY <1>1 DEF Holding, Calls, SharedUnchanged, Newest
  <2> QED BY <1>1, <1>2, <1>4, <1>6, <1>8, <2>1, <2>2, ContinueStep DEF LoopTyped
<1>9. CASE /\ Newest > loc[l].web
           /\ Continue(l, "fetch", [loc[l] EXCEPT !.target.rev = Newest])
  BY <1>1, <1>6, <1>9, FetchNext DEF SharedUnchanged
<1> QED BY <1>5, <1>7, <1>8, <1>9

LEMMA FetchStep ==
  ASSUME Sound, NEW l \in Loops, Fetch(l) PROVE Sound'
<1>1. /\ pc[l] = "fetch" /\ pc[l] \in Holding /\ SharedUnchanged
      /\ UNCHANGED <<era, runtime, cooled, faults>>
  BY DEF Fetch, control, crm, SharedUnchanged, Holding, Calls
<1>2. LoopTyped(l) /\ TargetSound(l) /\ loc[l].error = "none"
  BY <1>1 DEF Sound, LoopSound, LoopTyped
<1> DEFINE t == loc[l].target.rev
           fetched == [loc[l] EXCEPT !.target.content = versions[t]]
<1>3. t \in DOMAIN versions /\ versions[t] \in Nat
  BY <1>1, <1>2 DEF TargetSound, Sound, DataTyped
<1>4. Continue(l, "put", fetched)
  BY <1>3 DEF Fetch
<1>5. /\ fetched \in Locals /\ fetched.error = "none" /\ fetched.web = loc[l].web
      /\ fetched.target.rev = t /\ fetched.target.content = versions[t]
      /\ fetched.saved = loc[l].saved
  BY <1>2, <1>3, RuntimeTypes DEF Locals, Version
<1> HIDE DEF fetched
<1>6. DataTyped' /\ DataSound' /\ LateInOrder' /\ Grows
  BY <1>1, <1>4, SharedKept, RuntimeTypes DEF Continue
<1>7. pc'[l] = "put" /\ loc'[l] = fetched => ReportSound(l)' /\ TargetSound(l)'
  BY <1>1, <1>2, <1>5 DEF ReportSound, TargetSound, SharedUnchanged
<1>8. "put" \in Holding /\ Newest' = Newest /\ web' = web
  BY <1>1 DEF Holding, Calls, SharedUnchanged, Newest
<1> QED BY <1>1, <1>2, <1>4, <1>5, <1>6, <1>7, <1>8, ContinueStep DEF LoopTyped

LEMMA LoadFailedStep ==
  ASSUME Sound, NEW l \in Loops, LoadFailed(l) PROVE Sound'
<1>1. /\ pc[l] = "failed" /\ pc' = [pc EXCEPT ![l] = "failSave"]
      /\ loc' = [loc EXCEPT ![l].saved = runtime] /\ SharedUnchanged
      /\ UNCHANGED <<era, runtime, repair, cooled, queue, faults>>
  BY DEF LoadFailed, Goto, control, crm, SharedUnchanged
<1>2. DataTyped' /\ DataSound' /\ LateInOrder' /\ Grows
  BY <1>1, SharedKept, RuntimeTypes
<1>3. /\ pc' \in [Loops -> ControlPoint] /\ pc'[l] = "failSave"
      /\ \A m \in Loops \ {l} : pc'[m] = pc[m]
  BY <1>1 DEF Sound, Locked, ControlPoint
<1>4. Locked'
  <2>1. \A m \in Loops : pc'[m] = pc[m] \/ (pc[m] \in Stopped /\ pc'[m] \in Stopped)
    BY <1>1, <1>3 DEF Stopped
  <2> QED BY <1>1, <1>3, <2>1, StayOut DEF Sound
<1>5. /\ loc' \in [Loops -> Locals] /\ loc'[l].saved = runtime
      /\ loc'[l].web = loc[l].web /\ loc'[l].target = loc[l].target
      /\ loc'[l].error = loc[l].error /\ loc'[l] \in Locals
      /\ \A m \in Loops \ {l} : loc'[m] = loc[m]
  BY <1>1, RuntimeTypes DEF Sound, Locals
<1>6. LoopSound(l)'
  <2>1. LoopTyped(l) /\ Newest' = Newest /\ web' = web
    BY <1>1 DEF Sound, LoopSound, SharedUnchanged, Newest
  <2>2. LoopTyped(l)'
    BY <1>1, <1>3, <1>5, <2>1, RuntimeTypes DEF LoopTyped
  <2> QED BY <1>3, <2>2 DEF LoopSound, ReportSound, TargetSound
<1>7. OthersKeep(l)
  BY <1>3, <1>5 DEF OthersKeep
<1> QED BY <1>1, <1>2, <1>4, <1>5, <1>6, <1>7, LoopStep

LEMMA SaveFailedStep ==
  ASSUME Sound, NEW l \in Loops, SaveFailed(l) PROVE Sound'
<1>1. /\ pc[l] = "failSave" /\ Rest(l) /\ SharedUnchanged
      /\ loc' = [loc EXCEPT ![l] = NoLocals]
      /\ runtime' = [loc[l].saved EXCEPT !.error = loc[l].error]
      /\ UNCHANGED <<era, repair, cooled, queue, faults>>
  BY DEF SaveFailed, WithError, control, crm, SharedUnchanged
<1>2. runtime' \in Runtime /\ runtime'.applied <= Newest
  <2>1. loc[l].error \in ErrorCode
    BY RuntimeTypes DEF Locals
  <2> QED BY <1>1, <2>1, RuntimeTypes DEF Runtime
<1>3. DataTyped' /\ DataSound' /\ LateInOrder' /\ Grows
  BY <1>1, <1>2, SharedKept, RuntimeTypes
<1>4. /\ pc' \in [Loops -> ControlPoint] /\ pc'[l] = "timer"
      /\ \A m \in Loops \ {l} :
           pc'[m] = pc[m] \/ (pc[m] = "off" /\ pc'[m] = "timer")
  BY <1>1 DEF Rest, Sound, Locked, ControlPoint
<1>5. Locked'
  <2>1. \A m \in Loops : pc'[m] = pc[m] \/ (pc[m] \in Stopped /\ pc'[m] \in Stopped)
    BY <1>1, <1>4 DEF Stopped
  <2> QED BY <1>1, <1>4, <2>1, StayOut DEF Sound
<1>6. /\ loc' \in [Loops -> Locals] /\ loc'[l] = NoLocals
      /\ \A m \in Loops \ {l} : loc'[m] = loc[m]
  BY <1>1, BlankTypes DEF Sound
<1>7. LoopSound(l)'
  <2>1. Newest' \in Nat /\ web'.rev \in Nat
    BY <1>3 DEF DataTyped, Newest, Version
  <2> QED BY <1>4, <1>6, <2>1, BlankTypes
      DEF LoopSound, LoopTyped, ReportSound, TargetSound, NoLocals, NoVersion,
          EmptyRuntime, Alarms
<1>8. OthersKeep(l)
  BY <1>4, <1>6 DEF OthersKeep
<1> QED BY <1>1, <1>3, <1>5, <1>6, <1>7, <1>8, LoopStep

-----------------------------------------------------------------------------
(* Faults.                                                                 *)

\* What a given-up call leaves behind is in order with what is on its way.
LEMMA Lingering ==
  ASSUME Sound, NEW l \in Loops, NEW late, Linger(l, late),
         UNCHANGED <<versions, web, reported>>
  PROVE  /\ lateReports' \in Seq(Nat) /\ latePuts' \subseteq Version
         /\ DataSound /\ LateInOrder'
         /\ \A v \in latePuts' :
              v.rev <= Newest' /\ v.rev > 0 /\ v.content = versions'[v.rev]
<1>1. /\ lateReports \in Seq(Nat) /\ latePuts \subseteq Version /\ web.rev \in Nat
      /\ reported \in Nat /\ LateInOrder /\ DataSound /\ LoopSound(l)
      /\ loc[l].web \in Nat /\ loc[l].target \in Version
  BY RuntimeTypes DEF Sound, DataTyped
<1>2. lateReports' \in Seq(Nat) /\ LateInOrder'
  <2>1. CASE lateReports' = lateReports
    BY <1>1, <2>1 DEF LateInOrder
  <2>2. CASE lateReports' = Append(lateReports, loc[l].web) /\ pc[l] = "report"
    <3> DEFINE n == Len(lateReports)
    <3>1. /\ n \in Nat /\ lateReports' \in Seq(Nat) /\ DOMAIN lateReports = 1 .. n
          /\ DOMAIN lateReports' = 1 .. n + 1
          /\ lateReports'[n + 1] = loc[l].web
          /\ \A i \in 1 .. n : lateReports'[i] = lateReports[i]
      BY <1>1, <2>2, AppendProperties
    <3>2. /\ reported <= loc[l].web /\ loc[l].web <= web.rev
          /\ \A i \in 1 .. n : lateReports[i] <= loc[l].web
      BY <1>1, <2>2, <3>1 DEF LoopSound, LoopTyped, ReportSound
    <3> HIDE DEF n
    <3>3. ASSUME NEW i \in 1 .. n + 1
          PROVE  reported <= lateReports'[i] /\ lateReports'[i] <= web.rev
      <4>1. CASE i = n + 1
        BY <3>1, <3>2, <4>1
      <4>2. CASE i # n + 1
        <5>1. i \in 1 .. n
          BY <3>1, <4>2
        <5> QED BY <1>1, <3>1, <5>1 DEF LateInOrder
      <4> QED BY <4>1, <4>2
    <3>4. ASSUME NEW i \in 1 .. n + 1, NEW j \in 1 .. n + 1, i <= j
          PROVE  lateReports'[i] <= lateReports'[j]
      <4>1. CASE j = n + 1
        BY <1>1, <3>1, <3>2, <4>1
      <4>2. CASE j # n + 1
        <5>1. i \in 1 .. n /\ j \in 1 .. n
          BY <3>1, <3>4, <4>2
        <5> QED BY <1>1, <3>1, <3>4, <5>1 DEF LateInOrder
      <4> QED BY <4>1, <4>2
    <3> QED BY <1>1, <3>1, <3>3, <3>4 DEF LateInOrder
  <2> QED BY <2>1, <2>2 DEF Linger
<1>3. \A v \in latePuts' : v \in latePuts \/ (v = loc[l].target /\ pc[l] = "put")
  BY DEF Linger
<1>4. latePuts' \subseteq Version
  BY <1>1, <1>3
<1>5. Newest' = Newest
  BY DEF Newest
<1>6. ASSUME pc[l] = "put"
      PROVE  /\ loc[l].target.rev <= Newest /\ loc[l].target.rev > 0
             /\ loc[l].target.content = versions[loc[l].target.rev]
  BY <1>1, <1>6, VersionNumbers, RuntimeTypes DEF LoopSound, TargetSound, Sound
<1>7. ASSUME NEW v \in latePuts'
      PROVE  v.rev <= Newest' /\ v.rev > 0 /\ v.content = versions'[v.rev]
  BY <1>1, <1>3, <1>5, <1>6 DEF DataSound
<1> QED BY <1>1, <1>2, <1>4, <1>7

LEMMA BreakStep ==
  ASSUME Sound, NEW l \in Loops, Break(l) PROVE Sound'
<1>1. /\ pc[l] \in Holding /\ UNCHANGED <<versions, era, reported, web, runtime, cooled>>
      /\ faults' = faults + 1
      /\ \E late \in BOOLEAN : Linger(l, late)
      /\ Attempt(l) \/ Fail(l, "network_error")
  BY DEF Break, Fault, Holding
<1>2. /\ lateReports' \in Seq(Nat) /\ latePuts' \subseteq Version
      /\ LateInOrder'
      /\ \A v \in latePuts' :
           v.rev <= Newest' /\ v.rev > 0 /\ v.content = versions'[v.rev]
  BY <1>1, Lingering
<1>3. repair' = repair
  BY <1>1 DEF Attempt, Continue, Fail
<1>4. DataTyped'
  BY <1>1, <1>2, <1>3 DEF Sound, DataTyped
<1>5. Newest' = Newest
  BY <1>1 DEF Newest
<1>6. DataSound'
  BY <1>1, <1>2, <1>5 DEF Sound, DataSound
<1>7. Grows
  BY <1>1, <1>5, RuntimeTypes DEF Grows
<1>8. CASE Attempt(l)
  <2>1. /\ HasTurn(l) /\ pc[l] \notin Stopped
        /\ \A m \in Loops \ {l} : pc[m] \notin Holding
    BY <1>1, Held
  <2>2. /\ Locked' /\ OthersKeep(l) /\ loc' \in [Loops -> Locals] /\ LoopSound(l)'
    BY <1>4, <1>7, <1>8, <2>1, Attempting
  <2> QED BY <1>2, <1>4, <1>6, <1>7, <2>1, <2>2, LoopStep
<1>9. CASE Fail(l, "network_error")
  <2>1. "network_error" \in ErrorCode \ {"none"} /\ "network_error" \notin Alarms
    BY DEF ErrorCode, Alarms
  <2> QED BY <1>1, <1>2, <1>4, <1>6, <1>7, <1>9, <2>1, FailStep DEF Fail
<1> QED BY <1>1, <1>8, <1>9

LEMMA RefuseStep ==
  ASSUME Sound, NEW l \in Loops, Refuse(l) PROVE Sound'
<1>1. /\ pc[l] \in Holding /\ SharedUnchanged /\ UNCHANGED <<era, runtime>>
      /\ faults' = faults + 1 /\ repair' = TRUE /\ cooled' = FALSE
      /\ Release(l) /\ Goto(l, "failed")
      /\ loc' = [loc EXCEPT ![l] = [NoLocals EXCEPT !.error = "identity_rejected"]]
  BY DEF Refuse, Fault, Holding, control, crm, SharedUnchanged
<1>2. "identity_rejected" \in ErrorCode \ {"none"} /\ "identity_rejected" \notin Alarms
  BY DEF ErrorCode, Alarms
<1>3. DataTyped'
  <2>1. repair' \in BOOLEAN /\ cooled' \in BOOLEAN
    BY <1>1
  <2> QED BY <1>1, <2>1 DEF Sound, DataTyped, SharedUnchanged
<1>4. DataSound' /\ LateInOrder'
  BY <1>1 DEF Sound, DataSound, LateInOrder, SharedUnchanged, Newest
<1>5. Grows
  BY <1>1, RuntimeTypes DEF Grows, SharedUnchanged, Newest
<1> QED BY <1>1, <1>2, <1>3, <1>4, <1>5, FailStep

\* The steps of the two databases and of the network leave the loops alone.
LEMMA LoopsRest ==
  ASSUME Sound, UNCHANGED <<queue, pc, loc>>, DataTyped', DataSound', LateInOrder', Grows,
         \A l \in Loops : ReportSound(l)' /\ TargetSound(l)'
  PROVE  Sound'
<1>1. Locked'
  BY DEF Sound, Locked, HolderIsFirst
<1>2. ASSUME NEW l \in Loops PROVE LoopSound(l)'
  <2>1. LoopTyped(l) /\ Newest' \in Nat /\ web'.rev \in Nat
    BY DEF Sound, LoopSound, DataTyped, Newest, Version
  <2>2. /\ loc[l].web \in Nat /\ loc[l].target.rev \in Nat
        /\ loc[l].saved.applied \in Nat
    BY RuntimeTypes DEF Runtime
  <2>3. LoopTyped(l)'
    BY <2>1, <2>2, RuntimeTypes DEF LoopTyped, Grows
  <2> QED BY <2>3 DEF LoopSound
<1> QED BY <1>1, <1>2 DEF Sound

LEMMA IssueStep ==
  ASSUME Sound, Issue PROVE Sound'
<1>1. /\ versions' = Append(versions, era)
      /\ UNCHANGED <<era, reported, lateReports, web, latePuts, runtime, repair,
                     cooled, queue, pc, loc, faults>>
  BY DEF Issue, crm, agent
<1>2. /\ versions' \in Seq(Nat) /\ Newest' = Newest + 1 /\ Newest \in Nat
      /\ \A i \in 1 .. Newest : versions'[i] = versions[i]
      /\ DOMAIN versions = 1 .. Newest /\ DOMAIN versions' = 1 .. Newest + 1
  BY <1>1, AppendProperties DEF Sound, DataTyped, Newest
<1>3. DataTyped'
  BY <1>1, <1>2 DEF Sound, DataTyped
<1>4. DataSound'
  <2>1. \A v \in latePuts : v.rev \in Nat
    BY DEF Sound, DataTyped, Version
  <2> QED BY <1>1, <1>2, <2>1, RuntimeTypes DEF Sound, DataSound
<1>5. LateInOrder' /\ Grows
  BY <1>1, <1>2, RuntimeTypes DEF Sound, LateInOrder, Grows
<1>6. ASSUME NEW l \in Loops PROVE ReportSound(l)' /\ TargetSound(l)'
  BY <1>1, <1>2 DEF Sound, LoopSound, ReportSound, TargetSound
<1> QED BY <1>1, <1>3, <1>4, <1>5, <1>6, LoopsRest

LEMMA CoolDownStep ==
  ASSUME Sound, CoolDown PROVE Sound'
<1>1. /\ SharedUnchanged /\ cooled' \in BOOLEAN
      /\ UNCHANGED <<era, runtime, repair, queue, pc, loc, faults>>
  BY DEF CoolDown, control, crm, SharedUnchanged
<1>2. DataTyped' /\ DataSound' /\ LateInOrder' /\ Grows
  BY <1>1, SharedKept, RuntimeTypes
<1>3. ASSUME NEW l \in Loops PROVE ReportSound(l)' /\ TargetSound(l)'
  BY <1>1 DEF Sound, LoopSound, ReportSound, TargetSound, SharedUnchanged
<1> QED BY <1>1, <1>2, <1>3, LoopsRest

\* What is left of the late reports arrived later, and names no lower version.
LEMMA DeliverReportStep ==
  ASSUME Sound, DeliverReport
  PROVE  Sound' /\ reported' >= reported /\ reported' <= web.rev
<1> PICK i \in DOMAIN lateReports :
      /\ reported' = lateReports[i] /\ lateReports' = LaterThan(i)
      /\ UNCHANGED <<versions, era, web, latePuts, runtime, repair, cooled, queue,
                     pc, loc, faults>>
  BY DEF DeliverReport, crm, agent
<1> DEFINE n == Len(lateReports)
<1>1. /\ lateReports \in Seq(Nat) /\ n \in Nat /\ DOMAIN lateReports = 1 .. n
      /\ i \in 1 .. n /\ LateInOrder /\ reported \in Nat /\ web.rev \in Nat
  BY RuntimeTypes DEF Sound, DataTyped
<1>a. n \in Nat /\ i \in Nat /\ 1 <= i /\ i <= n
  BY <1>1
<1>2. /\ lateReports' \in Seq(Nat) /\ DOMAIN lateReports' = 1 .. n - i
      /\ \A j \in 1 .. n - i : lateReports'[j] = lateReports[i + j]
  <2> DEFINE m == i + 1
             rest == SubSeq(lateReports, m, n)
  <2>1. m \in Int /\ n \in Int /\ \A j \in m .. n : lateReports[j] \in Nat
    BY <1>1
  <2>2. rest = lateReports'
    BY DEF LaterThan
  <2>3. m = i + 1
    OBVIOUS
  <2> HIDE DEF m
  <2>4. /\ rest \in Seq(Nat) /\ Len(rest) = IF m <= n THEN n - m + 1 ELSE 0
        /\ \A j \in 1 .. n - m + 1 : rest[j] = lateReports[m + j - 1]
    BY <2>1, SubSeqProperties
  <2> HIDE DEF rest
  <2>5. Len(rest) = n - i /\ DOMAIN rest = 1 .. Len(rest)
    BY <1>1, <2>3, <2>4
  <2>6. ASSUME NEW j \in 1 .. n - i PROVE rest[j] = lateReports[i + j]
    <3> HIDE DEF n
    <3>1. j \in 1 .. n - m + 1 /\ m + j - 1 = i + j
      BY <1>a, <2>3
    <3> QED BY <2>4, <3>1
  <2> QED BY <2>2, <2>4, <2>5, <2>6
<1>3. reported' \in Nat /\ reported' >= reported /\ reported' <= web.rev
  BY <1>1 DEF LateInOrder
<1> HIDE DEF n
<1>4. ASSUME NEW j \in 1 .. n - i
      PROVE  reported' <= lateReports'[j] /\ lateReports'[j] <= web.rev
  <2>1. i + j \in 1 .. n /\ i <= i + j
    BY <1>a
  <2> QED BY <1>1, <1>2, <2>1 DEF LateInOrder
<1>5. ASSUME NEW j \in 1 .. n - i, NEW k \in 1 .. n - i, j <= k
      PROVE  lateReports'[j] <= lateReports'[k]
  <2>1. i + j \in 1 .. n /\ i + k \in 1 .. n /\ i + j <= i + k
    BY <1>a, <1>5
  <2> QED BY <1>1, <1>2, <2>1 DEF LateInOrder
<1>6. LateInOrder'
  BY <1>2, <1>3, <1>4, <1>5 DEF LateInOrder
<1>7. DataTyped' /\ DataSound' /\ Grows
  <2>1. DataTyped'
    BY <1>2, <1>3 DEF Sound, DataTyped
  <2>2. DataSound'
    BY DEF Sound, DataSound, Newest
  <2>3. Grows
    BY RuntimeTypes DEF Newest, Grows
  <2> QED BY <2>1, <2>2, <2>3
<1>8. ASSUME NEW l \in Loops PROVE ReportSound(l)' /\ TargetSound(l)'
  <2>1. ReportSound(l) /\ TargetSound(l)
    BY DEF Sound, LoopSound
  <2>2. TargetSound(l)'
    BY <2>1 DEF TargetSound
  <2>3. ASSUME pc[l] \in {"report", "current"}, NEW j \in 1 .. n - i
        PROVE  lateReports'[j] <= loc[l].web
    <3>1. i + j \in 1 .. n
      BY <1>a
    <3> QED BY <1>1, <1>2, <2>1, <2>3, <3>1 DEF ReportSound
  <2> QED BY <1>1, <1>2, <2>1, <2>2, <2>3 DEF ReportSound
<1> QED BY <1>3, <1>6, <1>7, <1>8, LoopsRest

\* A late put is not newer than what the holder of the lock is about to put.
LEMMA DeliverPutStep ==
  ASSUME Sound, DeliverPut
  PROVE  Sound' /\ web'.rev >= web.rev /\ web'.rev <= Newest
<1> PICK v \in latePuts :
      /\ web' = AfterPut(v) /\ latePuts' = latePuts \ {v}
      /\ UNCHANGED <<versions, era, reported, lateReports, runtime, repair, cooled,
                     queue, pc, loc, faults>>
  BY DEF DeliverPut, control, agent
<1>1. /\ v \in Version /\ v.rev \in Nat /\ v.rev <= Newest /\ v.rev > 0
      /\ v.content = versions[v.rev] /\ web \in Version /\ web.rev \in Nat
  BY DEF Sound, DataTyped, DataSound, Version
<1>2. /\ web' \in Version /\ web'.rev \in Nat /\ web'.rev >= web.rev
      /\ web'.rev <= Newest /\ Newest \in Nat /\ Newest' = Newest
      /\ web' = web \/ web' = v
  BY <1>1, RuntimeTypes DEF AfterPut, Newest
<1>3. DataTyped'
  BY <1>2 DEF Sound, DataTyped
<1>4. DataSound'
  BY <1>1, <1>2 DEF Sound, DataSound
<1>5. LateInOrder' /\ Grows
  <2>1. reported \in Nat /\ lateReports \in Seq(Nat) /\ LateInOrder
    BY DEF Sound, DataTyped
  <2>2. \A i \in DOMAIN lateReports : lateReports[i] \in Nat
    BY <2>1
  <2> QED BY <1>1, <1>2, <2>1, <2>2 DEF LateInOrder, Grows
<1>6. ASSUME NEW l \in Loops PROVE ReportSound(l)' /\ TargetSound(l)'
  <2>1. ReportSound(l) /\ TargetSound(l)
    BY DEF Sound, LoopSound
  <2>2. ReportSound(l)'
    BY <2>1 DEF ReportSound
  <2>3. TargetSound(l)'
    <3> SUFFICES ASSUME pc[l] \in {"fetch", "put", "save", "restatus"}
                 PROVE  /\ web'.rev <= loc[l].target.rev
                        /\ pc[l] \in {"save", "restatus"} =>
                             web'.rev = loc[l].target.rev
      BY <2>1 DEF TargetSound
    <3>1. v.rev <= loc[l].target.rev /\ web.rev <= loc[l].target.rev
      BY <2>1 DEF TargetSound
    <3>2. web'.rev <= loc[l].target.rev
      BY <1>2, <3>1
    <3>3. CASE pc[l] \in {"save", "restatus"}
      <4>1. web.rev = loc[l].target.rev
        BY <2>1, <3>3 DEF TargetSound
      <4> QED BY <1>1, <1>2, <3>2, <4>1
    <3> QED BY <3>2, <3>3
  <2> QED BY <2>2, <2>3
<1> QED BY <1>2, <1>3, <1>4, <1>5, <1>6, LoopsRest

\* The agent starts with its queue, its control points and its locals fresh.
Fresh ==
  /\ queue = <<"cycle">>
  /\ pc = [l \in Loops |-> IF l = "cycle" THEN "wait" ELSE "off"]
  /\ loc = [l \in Loops |-> NoLocals]

AgentSound == Locked /\ loc \in [Loops -> Locals] /\ \A l \in Loops : LoopSound(l)

LEMMA FreshAgent == Fresh /\ DataTyped => AgentSound
<1> SUFFICES ASSUME Fresh, DataTyped PROVE AgentSound
  OBVIOUS
<1> USE DEF Fresh
<1>1. /\ queue \in Seq(Loops) /\ DOMAIN queue = {1} /\ queue[1] = "cycle"
  BY DEF Loops
<1>2. Locked
  BY <1>1 DEF Locked, HolderIsFirst, Loops, ControlPoint, Stopped, Holding, Calls
<1>3. Newest \in Nat /\ web.rev \in Nat
  BY DEF DataTyped, Newest, Version
<1>4. ASSUME NEW l \in Loops PROVE LoopSound(l)
  BY <1>3, BlankTypes
  DEF LoopSound, LoopTyped, ReportSound, TargetSound, NoLocals, NoVersion,
      EmptyRuntime, Alarms
<1> QED BY <1>2, <1>4, BlankTypes DEF AgentSound

LEMMA RestartStep ==
  ASSUME Sound, Restart PROVE Sound'
<1>1. /\ UNCHANGED <<versions, era, reported, web, runtime>> /\ faults' = faults + 1
      /\ repair' \in BOOLEAN /\ cooled' \in BOOLEAN
      /\ queue' = <<"cycle">>
      /\ pc' = [l \in Loops |-> IF l = "cycle" THEN "wait" ELSE "off"]
      /\ loc' = [l \in Loops |-> NoLocals]
      /\ \E l \in Loops : \E late \in BOOLEAN : Linger(l, late)
  BY DEF Restart, Fault
<1>2. /\ lateReports' \in Seq(Nat) /\ latePuts' \subseteq Version
      /\ LateInOrder'
      /\ \A v \in latePuts' :
           v.rev <= Newest' /\ v.rev > 0 /\ v.content = versions'[v.rev]
  BY <1>1, Lingering
<1>3. DataTyped'
  BY <1>1, <1>2 DEF Sound, DataTyped
<1>4. DataSound'
  BY <1>1, <1>2 DEF Sound, DataSound, Newest
<1>5. AgentSound'
  <2>1. Fresh'
    BY <1>1 DEF Fresh
  <2> QED BY <1>3, <2>1, FreshAgent, PTL
<1> QED BY <1>2, <1>3, <1>4, <1>5 DEF Sound, AgentSound

-----------------------------------------------------------------------------
(* The theorems: all of them for instances without restored databases.     *)

NoRestores == FaultKinds \cap {"webRestored", "controlRestored"} = {}

LEMMA InitSound == Init => Sound
<1> SUFFICES ASSUME Init PROVE Sound
  OBVIOUS
<1>1. /\ versions = <<>> /\ Newest = 0 /\ lateReports = <<>> /\ latePuts = {}
      /\ reported = 0 /\ web = NoVersion /\ runtime = EmptyRuntime
      /\ web.rev = 0 /\ runtime.applied = 0
  BY DEF Init, Newest, NoVersion, EmptyRuntime
<1>2. DataTyped
  <2>1. era = 0 /\ faults = 0 /\ repair \in BOOLEAN /\ cooled \in BOOLEAN
    BY DEF Init
  <2>2. versions \in Seq(Nat) /\ lateReports \in Seq(Nat)
    BY <1>1
  <2> QED BY <1>1, <2>1, <2>2, BlankTypes DEF DataTyped
<1>3. DataSound /\ LateInOrder
  BY <1>1 DEF DataSound, LateInOrder
<1>4. AgentSound
  BY <1>2, FreshAgent DEF Init, Fresh
<1> QED BY <1>2, <1>3, <1>4 DEF Sound, AgentSound

LEMMA StepSound ==
  ASSUME NoRestores, Sound, [Next]_vars PROVE Sound'
<1>1. CASE UNCHANGED vars
  <2>1. /\ SharedUnchanged
        /\ UNCHANGED <<era, faults, runtime, repair, cooled, queue, pc, loc>>
    BY <1>1 DEF vars, control, crm, agent, SharedUnchanged
  <2>2. DataTyped' /\ DataSound' /\ LateInOrder' /\ Grows
    BY <2>1, SharedKept, RuntimeTypes
  <2>3. ASSUME NEW l \in Loops PROVE ReportSound(l)' /\ TargetSound(l)'
    BY <2>1 DEF Sound, LoopSound, ReportSound, TargetSound, SharedUnchanged
  <2> QED BY <2>1, <2>2, <2>3, LoopsRest
<1>2. ASSUME NEW l \in Loops, Work(l) PROVE Sound'
  BY <1>2, StartStep, AcquireStep, StatusStep, PutStep, SaveStep, RestatusStep,
     ReportStep, CurrentStep, FetchStep, LoadFailedStep, SaveFailedStep DEF Work
<1>3. ASSUME NEW l \in Loops, Break(l) \/ Refuse(l) PROVE Sound'
  BY <1>3, BreakStep, RefuseStep
<1>4. ~WebRestored /\ ~ControlRestored
  BY DEF NoRestores, WebRestored, ControlRestored, Fault
<1> QED BY <1>1, <1>2, <1>3, <1>4, IssueStep, CoolDownStep, DeliverReportStep,
           DeliverPutStep, RestartStep DEF Next

\* Without restores the agent's invariant is inductive: the lock is held by one
\* loop, reports on their way and to come are in order, and what is put is what
\* the control plane has issued and at least as new as any late put.
THEOREM AgentSafe ==
  ASSUME NoRestores PROVE Spec => []AgentInv
<1>1. Init => Sound
  BY InitSound
<1>2. Sound /\ [Next]_vars => Sound'
  BY StepSound
<1>3. Sound => AgentInv
  BY SoundIsAgentInv
<1> QED BY <1>1, <1>2, <1>3, PTL DEF Spec

\* Every state has the types the code gives it; the two loops never hold the
\* apply lock together.
THEOREM AgentTyped ==
  ASSUME NoRestores PROVE Spec => []TypeOK
<1>1. AgentInv => TypeOK
  BY DEF AgentInv
<1>2. Spec => []AgentInv
  BY AgentSafe
<1> QED BY <1>1, <1>2, PTL

\* Neither the other loop nor a late call makes the agent see a regression of
\* the control plane, a rejection by the CRM or a missing version.
THEOREM NoAlarmIsFalse ==
  ASSUME NoRestores PROVE Spec => []NoFalseAlarm
<1>1. AgentInv => NoFalseAlarm
  BY DEF AgentInv
<1>2. Spec => []AgentInv
  BY AgentSafe
<1> QED BY <1>1, <1>2, PTL

LEMMA InitRefines == Init => Delivery!Init
BY DEF Init, Delivery!Init, Newest, NoVersion

\* A put, in time or late, applies; a heartbeat, in time or late, acknowledges.
LEMMA StepRefines ==
  ASSUME NoRestores, Sound, [Next]_vars
  PROVE  [Delivery!Next]_<<Newest, web.rev, reported>>
<1>0. /\ Newest \in Nat /\ web.rev \in Nat /\ web.rev <= Newest /\ reported \in Nat
      /\ reported <= web.rev
  BY RuntimeTypes DEF Sound, DataTyped, LateInOrder
<1>1. CASE UNCHANGED <<versions, web, reported>>
  BY <1>1 DEF Newest
<1>2. ASSUME UNCHANGED <<versions, reported>>, web'.rev >= web.rev,
             web'.rev <= Newest, web'.rev \in Nat
      PROVE  [Delivery!Next]_<<Newest, web.rev, reported>>
  BY <1>0, <1>2 DEF Newest, Delivery!Next, Delivery!Apply
<1>3. ASSUME UNCHANGED <<versions, web>>, reported' >= reported,
             reported' <= web.rev, reported' \in Nat
      PROVE  [Delivery!Next]_<<Newest, web.rev, reported>>
  BY <1>0, <1>3 DEF Newest, Delivery!Next, Delivery!Acknowledge
<1>4. CASE Issue
  <2>1. /\ UNCHANGED <<web, reported>> /\ versions' = Append(versions, era)
        /\ Newest' = Newest + 1
    BY <1>4, AppendProperties DEF Issue, crm, Sound, DataTyped, Newest
  <2> QED BY <1>0, <2>1 DEF Delivery!Next, Delivery!Issue
<1>5. CASE DeliverReport
  <2>1. reported' >= reported /\ reported' <= web.rev
    BY <1>5, DeliverReportStep
  <2>2. UNCHANGED <<versions, web>>
    BY <1>5 DEF DeliverReport, crm
  <2>3. reported' \in Nat
    BY <1>5 DEF DeliverReport, Sound, DataTyped
  <2> QED BY <1>3, <2>1, <2>2, <2>3
<1>6. CASE DeliverPut
  <2>1. web'.rev >= web.rev /\ web'.rev <= Newest
    BY <1>6, DeliverPutStep
  <2>2. UNCHANGED <<versions, reported>>
    BY <1>6 DEF DeliverPut, control
  <2>3. web'.rev \in Nat
    BY <1>6, DeliverPutStep DEF Sound, DataTyped, Version
  <2> QED BY <1>2, <2>1, <2>2, <2>3
<1>7. ASSUME NEW l \in Loops, Put(l)
      PROVE  [Delivery!Next]_<<Newest, web.rev, reported>>
  <2>1. /\ pc[l] = "put" /\ UNCHANGED <<versions, reported>>
        /\ web' = AfterPut(loc[l].target)
    BY <1>7 DEF Put, control
  <2>2. web'.rev = loc[l].target.rev /\ web'.rev \in Nat
    BY <2>1, PutTarget, RuntimeTypes
  <2>3. web.rev <= loc[l].target.rev /\ loc[l].target.rev <= Newest
    BY <2>1, RuntimeTypes DEF Sound, LoopSound, LoopTyped, TargetSound
  <2> QED BY <1>2, <2>1, <2>2, <2>3
<1>8. ASSUME NEW l \in Loops, Report(l)
      PROVE  [Delivery!Next]_<<Newest, web.rev, reported>>
  <2>1. pc[l] = "report" /\ UNCHANGED <<versions, web>> /\ reported' = loc[l].web
    BY <1>8 DEF Report, Recorded, crm
  <2>2. reported <= loc[l].web /\ loc[l].web <= web.rev /\ loc[l].web \in Nat
    BY <2>1, RuntimeTypes DEF Sound, LoopSound, LoopTyped, ReportSound
  <2> QED BY <1>3, <2>1, <2>2
<1>9. ~WebRestored /\ ~ControlRestored
  BY DEF NoRestores, WebRestored, ControlRestored, Fault
<1>10. ASSUME NEW l \in Loops,
              \/ Start(l) \/ Acquire(l) \/ Status(l) \/ Save(l) \/ Restatus(l)
              \/ Current(l) \/ Fetch(l) \/ LoadFailed(l) \/ SaveFailed(l)
              \/ Break(l) \/ Refuse(l)
       PROVE  UNCHANGED <<versions, web, reported>>
  BY <1>10 DEF Start, Acquire, Status, Save, Restatus, Current, Fetch, LoadFailed,
               SaveFailed, Break, Refuse, control, crm
<1>11. (CoolDown \/ Restart \/ UNCHANGED vars) => UNCHANGED <<versions, web, reported>>
  BY DEF CoolDown, Restart, vars, control, crm
<1> QED BY <1>1, <1>4, <1>5, <1>6, <1>7, <1>8, <1>9, <1>10, <1>11 DEF Next, Work

\* The agent implements the delivery of entitlements: the CRM takes only issued
\* versions, each newer than the one before, and the control plane hears only of
\* versions that were applied, in order.
THEOREM AgentDelivers ==
  ASSUME NoRestores PROVE Spec => DeliversInOrder
<1>1. Init => Delivery!Init
  BY InitRefines
<1>2. Init => Sound
  BY InitSound
<1>3. Sound /\ [Next]_vars => Sound'
  BY StepSound
<1>4. Sound /\ [Next]_vars => [Delivery!Next]_<<Newest, web.rev, reported>>
  BY StepRefines
<1> QED BY <1>1, <1>2, <1>3, <1>4, PTL DEF Spec, DeliversInOrder, Delivery!Spec

-----------------------------------------------------------------------------
(* What the runtime file records has been acknowledged.                    *)

\* No loop has read, and the runtime file does not name, a newer revision than
\* the CRM's.
AppliedBehind ==
  /\ runtime.applied <= web.rev
  /\ \A l \in Loops : loc[l].saved.applied <= web.rev

\* The revision that is to be reported is not older than the one that the
\* runtime file names, nor than the one a failed loop is about to write there.
ReadsNewest ==
  \A l \in Loops : pc[l] \in {"current", "report"} =>
    /\ runtime.applied <= loc[l].web
    /\ \A m \in Loops : pc[m] = "failSave" => loc[m].saved.applied <= loc[l].web

\* The file names the revision of the CRM and no error, and nobody is about to
\* write one or, as the cycle, to report.
Settled ==
  /\ runtime.error = "none" /\ runtime.applied = web.rev
  /\ pc["poll"] # "off"
  /\ \A l \in Loops : pc[l] \notin {"failed", "failSave"}
  /\ pc["cycle"] \notin Holding

\* The poll is at work on an acknowledgement that the file says is pending.
Owed ==
  /\ pc["poll"] \in Holding
  /\ runtime.pending = web.rev
  /\ pc["poll"] = "current" => loc["poll"].saved.pending = web.rev

\* Inductive together with Sound.
RecordInv ==
  /\ AppliedBehind /\ ReadsNewest
  /\ pc["cycle"] # "current"
  /\ Settled => reported = web.rev \/ Owed

LEMMA Numbers ==
  ASSUME Sound
  PROVE  /\ runtime.applied \in Nat /\ runtime.pending \in Nat /\ web.rev \in Nat
         /\ reported \in Nat /\ reported <= web.rev
         /\ pc \in [Loops -> ControlPoint] /\ loc \in [Loops -> Locals]
         /\ \A l \in Loops :
              /\ loc[l].web \in Nat /\ loc[l].web <= web.rev
              /\ loc[l].target.rev \in Nat /\ loc[l].saved.applied \in Nat
              /\ loc[l].saved.pending \in Nat /\ loc[l].error \in ErrorCode
<1>1. /\ reported \in Nat /\ reported <= web.rev /\ runtime \in Runtime
      /\ loc \in [Loops -> Locals] /\ pc \in [Loops -> ControlPoint]
  BY DEF Sound, DataTyped, LateInOrder, Locked
<1>2. runtime.applied \in Nat /\ runtime.pending \in Nat /\ web.rev \in Nat
  BY <1>1, RuntimeTypes DEF Runtime
<1>3. ASSUME NEW l \in Loops
      PROVE  /\ loc[l].web \in Nat /\ loc[l].web <= web.rev
             /\ loc[l].target.rev \in Nat /\ loc[l].saved.applied \in Nat
             /\ loc[l].saved.pending \in Nat /\ loc[l].error \in ErrorCode
  <2>1. loc[l] \in Locals /\ loc[l].saved \in Runtime /\ loc[l].target.rev \in Nat
    BY RuntimeTypes
  <2>2. loc[l].web <= web.rev
    BY DEF Sound, LoopSound, LoopTyped
  <2> QED BY <2>1, <2>2 DEF Locals, Runtime
<1> QED BY <1>1, <1>2, <1>3

\* How a turn ends or goes on, seen from the control points and the locals.
LEMMA Finished ==
  ASSUME Sound, NEW l \in Loops, Finish(l)
  PROVE  OthersKeep(l) /\ pc'[l] = "timer" /\ loc'[l] = NoLocals
BY Numbers DEF Finish, Rest, OthersKeep

LEMMA Failed ==
  ASSUME Sound, NEW l \in Loops, NEW code, Goto(l, "failed"),
         loc' = [loc EXCEPT ![l] = [NoLocals EXCEPT !.error = code]]
  PROVE  OthersKeep(l) /\ pc'[l] = "failed" /\ loc'[l].saved = EmptyRuntime
BY Numbers DEF Goto, OthersKeep, NoLocals

LEMMA Continued ==
  ASSUME Sound, NEW l \in Loops, NEW point, NEW locals, Continue(l, point, locals)
  PROVE  OthersKeep(l) /\ pc'[l] = point /\ loc'[l] = locals
BY Numbers DEF Continue, Goto, OthersKeep

LEMMA Attempted ==
  ASSUME Sound, NEW l \in Loops, Attempt(l)
  PROVE  OthersKeep(l) /\ pc'[l] = "status" /\ loc'[l].saved = runtime
<1> DEFINE fresh == [NoLocals EXCEPT !.saved = runtime]
<1>1. fresh.saved = runtime
  BY DEF NoLocals
<1> HIDE DEF fresh
<1>2. Continue(l, "status", fresh)
  BY DEF Attempt, fresh
<1> QED BY <1>1, <1>2, Continued

\* A step of the loop whose turn it is.
LEMMA TurnKeepsBounds ==
  ASSUME Sound, AppliedBehind, ReadsNewest, NEW l \in Loops, OthersKeep(l),
         \A m \in Loops \ {l} : pc[m] \notin Holding,
         web'.rev \in Nat, web'.rev >= web.rev,
         runtime'.applied \in Nat, runtime'.applied <= web'.rev,
         loc'[l].saved.applied \in Nat, loc'[l].saved.applied <= web'.rev,
         pc'[l] # "failSave",
         pc'[l] \in {"current", "report"} =>
           \/ loc'[l].web = web'.rev
           \/ /\ pc[l] \in {"current", "report"} /\ loc'[l].web = loc[l].web
              /\ runtime'.applied = runtime.applied
  PROVE  AppliedBehind' /\ ReadsNewest'
<1>1. AppliedBehind'
  BY Numbers DEF AppliedBehind, OthersKeep
<1>2. ASSUME NEW m \in Loops \ {l} PROVE pc'[m] \notin {"current", "report"}
  BY DEF OthersKeep, Holding, Calls
<1>3. ASSUME NEW m \in Loops, pc'[m] = "failSave"
      PROVE  /\ m # l /\ pc[m] = "failSave" /\ loc'[m] = loc[m]
             /\ loc[m].saved.applied <= web'.rev
  BY <1>3, Numbers DEF OthersKeep, AppliedBehind
<1>4. ASSUME pc'[l] \in {"current", "report"}
      PROVE  /\ runtime'.applied <= loc'[l].web
             /\ \A m \in Loops :
                  pc'[m] = "failSave" => loc'[m].saved.applied <= loc'[l].web
  BY <1>3, <1>4 DEF ReadsNewest
<1>5. ReadsNewest'
  BY <1>2, <1>4 DEF ReadsNewest
<1> QED BY <1>1, <1>5

\* A step outside the lock: of a failed loop, a timer, a database, the network.
LEMMA OutsideKeepsBounds ==
  ASSUME Sound, AppliedBehind, ReadsNewest,
         web'.rev \in Nat, web'.rev >= web.rev,
         \/ runtime'.applied = runtime.applied
         \/ \E m \in Loops :
              pc[m] = "failSave" /\ runtime'.applied = loc[m].saved.applied,
         \A m \in Loops :
           /\ pc'[m] \in {"current", "report"} =>
                pc[m] \in {"current", "report"} /\ loc'[m].web = loc[m].web
           /\ \/ loc'[m].saved.applied = loc[m].saved.applied
              \/ loc'[m].saved.applied \in {0, runtime.applied}
           /\ pc'[m] = "failSave" =>
                \/ pc[m] = "failSave" /\ loc'[m].saved = loc[m].saved
                \/ loc'[m].saved = runtime
  PROVE  AppliedBehind' /\ ReadsNewest'
<1>1. AppliedBehind'
  BY Numbers DEF AppliedBehind
<1>2. ASSUME NEW l \in Loops, pc'[l] \in {"current", "report"}
      PROVE  /\ runtime'.applied <= loc'[l].web
             /\ \A m \in Loops :
                  pc'[m] = "failSave" => loc'[m].saved.applied <= loc'[l].web
  <2>1. /\ runtime.applied <= loc[l].web /\ loc'[l].web = loc[l].web
        /\ \A m \in Loops : pc[m] = "failSave" => loc[m].saved.applied <= loc[l].web
    BY <1>2 DEF ReadsNewest
  <2> QED BY <2>1
<1>3. ReadsNewest'
  BY <1>2 DEF ReadsNewest
<1> QED BY <1>1, <1>3

-----------------------------------------------------------------------------
(* The steps of a loop, again.                                             *)

LEMMA StartRecord ==
  ASSUME Sound, RecordInv, NEW l \in Loops, Start(l) PROVE RecordInv'
<1>1. /\ pc[l] = "timer" /\ loc' = loc /\ runtime' = runtime /\ web' = web
      /\ reported' = reported /\ pc' = [pc EXCEPT ![l] = "wait"]
  BY DEF Start, Goto, control, crm
<1>2. pc'[l] = "wait" /\ \A m \in Loops \ {l} : pc'[m] = pc[m]
  BY <1>1, Numbers
<1>3. AppliedBehind' /\ ReadsNewest'
  BY <1>1, <1>2, OutsideKeepsBounds, Numbers DEF RecordInv
<1>4. Settled' => Settled
  BY <1>1, <1>2 DEF Settled, Loops, Holding, Calls
<1>5. Owed => Owed'
  BY <1>1, <1>2 DEF Owed, Loops, Holding, Calls
<1> QED BY <1>1, <1>2, <1>3, <1>4, <1>5 DEF RecordInv, Loops

\* An attempt reads the file; one that fails leaves an error to be written.
LEMMA AttemptRecord ==
  ASSUME Sound, RecordInv, NEW l \in Loops,
         \A m \in Loops \ {l} : pc[m] \notin Holding,
         pc[l] \notin {"off", "failed", "failSave"},
         pc[l] \in Holding \/ pc[l] = "wait",
         UNCHANGED <<web, reported, runtime>>,
         \/ Attempt(l)
         \/ \E code \in ErrorCode :
              /\ Goto(l, "failed")
              /\ loc' = [loc EXCEPT ![l] = [NoLocals EXCEPT !.error = code]]
  PROVE  RecordInv'
<1>1. /\ OthersKeep(l) /\ pc'[l] \in {"status", "failed"}
      /\ loc'[l].saved \in {runtime, EmptyRuntime}
  BY Attempted, Failed
<1>2. AppliedBehind' /\ ReadsNewest'
  BY <1>1, TurnKeepsBounds, Numbers DEF RecordInv, AppliedBehind, EmptyRuntime
<1>3. pc'["cycle"] # "current"
  BY <1>1 DEF OthersKeep, RecordInv, Loops
<1>4. CASE l = "cycle" \/ pc'[l] = "failed"
  <2>1. ~Settled'
    BY <1>1, <1>4 DEF Settled, Holding, Calls
  <2> QED BY <1>2, <1>3, <2>1 DEF RecordInv
<1>5. CASE l = "poll" /\ pc'[l] = "status"
  <2>1. Settled' => Settled
    <3>1. pc'["cycle"] = pc["cycle"] \/ (pc["cycle"] = "off" /\ pc'["cycle"] = "timer")
      BY <1>1, <1>5 DEF OthersKeep, Loops
    <3> QED BY <1>1, <1>5, <3>1 DEF Settled, Loops, Holding, Calls
  <2>2. Owed => Owed'
    BY <1>5 DEF Owed, Holding, Calls
  <2> QED BY <1>2, <1>3, <2>1, <2>2 DEF RecordInv
<1> QED BY <1>1, <1>4, <1>5 DEF Loops

LEMMA AcquireRecord ==
  ASSUME Sound, RecordInv, NEW l \in Loops, Acquire(l) PROVE RecordInv'
<1>1. /\ pc[l] = "wait" /\ HasTurn(l) /\ UNCHANGED <<web, reported, runtime>>
      /\ Fail(l, "agent_error") \/ Attempt(l)
  BY DEF Acquire, control, crm
<1>2. \A m \in Loops \ {l} : pc[m] \notin Holding
  BY <1>1 DEF HasTurn, Sound, Locked, HolderIsFirst
<1>3. "agent_error" \in ErrorCode
  BY DEF ErrorCode
<1> QED BY <1>1, <1>2, <1>3, AttemptRecord DEF Fail

LEMMA BreakRecord ==
  ASSUME Sound, RecordInv, NEW l \in Loops, Break(l) \/ Refuse(l) PROVE RecordInv'
<1>1. /\ pc[l] \in Holding /\ UNCHANGED <<web, reported, runtime>>
  BY DEF Break, Refuse, Holding, control, crm
<1>2. \/ Attempt(l)
      \/ \E code \in ErrorCode :
           /\ Goto(l, "failed")
           /\ loc' = [loc EXCEPT ![l] = [NoLocals EXCEPT !.error = code]]
  <2>1. "network_error" \in ErrorCode /\ "identity_rejected" \in ErrorCode
    BY DEF ErrorCode
  <2> QED BY <2>1 DEF Break, Refuse, Fail
<1>3. pc[l] \notin {"off", "failed", "failSave"}
  BY <1>1 DEF Holding, Calls
<1> QED BY <1>1, <1>2, <1>3, Held, AttemptRecord

\* What is common to the poll's steps under the lock: it goes on or ends its
\* turn, and what is owed stays owed or has been paid.
LEMMA PollRecord ==
  ASSUME Sound, RecordInv, OthersKeep("poll"),
         pc["poll"] \in Holding,
         AppliedBehind', ReadsNewest',
         Settled' /\ Settled => reported' = web'.rev \/ Owed',
         Settled' => runtime.error = "none" /\ runtime.applied = web.rev
  PROVE  RecordInv'
<1>1. pc'["cycle"] = pc["cycle"] \/ (pc["cycle"] = "off" /\ pc'["cycle"] = "timer")
  BY DEF OthersKeep, Loops
<1>2. pc'["cycle"] # "current"
  BY <1>1 DEF RecordInv
<1>3. Settled' => Settled
  <2> SUFFICES ASSUME Settled' PROVE Settled
    OBVIOUS
  <2>1. pc["cycle"] \notin Holding /\ pc["cycle"] \notin {"failed", "failSave"}
    BY <1>1 DEF Settled, Loops, Holding, Calls
  <2>2. pc["poll"] \notin {"off", "failed", "failSave"}
    BY DEF Holding, Calls
  <2> QED BY <2>1, <2>2 DEF Settled, Loops
<1> QED BY <1>2, <1>3 DEF RecordInv

LEMMA StatusRecord ==
  ASSUME Sound, RecordInv, NEW l \in Loops, Status(l) PROVE RecordInv'
<1>1. /\ pc[l] = "status" /\ pc[l] \in Holding /\ UNCHANGED <<web, reported>>
  BY DEF Status, control, crm, Holding, Calls
<1>2. \A m \in Loops \ {l} : pc[m] \notin Holding
  BY <1>1, Held
<1> DEFINE cycleLocals == [NoLocals EXCEPT !.web = web.rev]
           pollLocals == [NoLocals EXCEPT !.web = web.rev, !.saved = runtime]
<1>3. /\ cycleLocals.web = web.rev /\ cycleLocals.saved.applied = 0
      /\ pollLocals.web = web.rev /\ pollLocals.saved = runtime
  BY DEF NoLocals, EmptyRuntime
<1>4. NoLocals.saved.applied = 0
  BY DEF NoLocals, EmptyRuntime
<1> HIDE DEF cycleLocals, pollLocals
<1>5. CASE l = "cycle"
  <2>1. /\ runtime' = [loc[l].saved EXCEPT !.applied = web.rev, !.error = "none"]
        /\ Continue(l, "report", cycleLocals)
    BY <1>5 DEF Status, cycleLocals
  <2>2. runtime'.applied = web.rev
    BY <2>1, RuntimeTypes DEF Runtime
  <2>3. OthersKeep(l) /\ pc'[l] = "report" /\ loc'[l] = cycleLocals
    BY <2>1, Continued
  <2>4. AppliedBehind' /\ ReadsNewest'
    BY <1>1, <1>2, <1>3, <2>2, <2>3, TurnKeepsBounds, Numbers DEF RecordInv
  <2>5. ~Settled'
    BY <1>5, <2>3 DEF Settled, Holding, Calls
  <2> QED BY <1>5, <2>3, <2>4, <2>5 DEF RecordInv
<1>6. CASE l = "poll" /\ web.rev = 0 /\ Finish(l)
  <2>1. runtime' = runtime
    BY <1>6 DEF Status
  <2>2. OthersKeep(l) /\ pc'[l] = "timer" /\ loc'[l] = NoLocals
    BY <1>6, Finished
  <2>3. AppliedBehind' /\ ReadsNewest'
    BY <1>1, <1>2, <1>4, <2>1, <2>2, TurnKeepsBounds, Numbers
    DEF RecordInv, AppliedBehind
  <2>4. reported' = web'.rev
    BY <1>1, <1>6, Numbers
  <2>5. Settled' => runtime.error = "none" /\ runtime.applied = web.rev
    BY <1>1, <2>1 DEF Settled
  <2> QED BY <1>1, <1>6, <2>2, <2>3, <2>4, <2>5, PollRecord
<1>7. CASE l = "poll" /\ Continue(l, "current", pollLocals)
  <2>1. runtime' = runtime
    BY <1>7 DEF Status
  <2>2. OthersKeep(l) /\ pc'[l] = "current" /\ loc'[l] = pollLocals
    BY <1>7, Continued
  <2>3. AppliedBehind' /\ ReadsNewest'
    BY <1>1, <1>2, <1>3, <2>1, <2>2, TurnKeepsBounds, Numbers
    DEF RecordInv, AppliedBehind
  <2>4. Settled => reported' = web'.rev \/ Owed'
    BY <1>1, <1>3, <1>7, <2>1, <2>2 DEF RecordInv, Owed, Holding, Calls
  <2>5. Settled' => runtime.error = "none" /\ runtime.applied = web.rev
    BY <1>1, <2>1 DEF Settled
  <2> QED BY <1>1, <1>7, <2>2, <2>3, <2>4, <2>5, PollRecord
<1>8. \/ l = "cycle" \/ (l = "poll" /\ web.rev = 0 /\ Finish(l))
      \/ (l = "poll" /\ Continue(l, "current", pollLocals))
  BY DEF Status, pollLocals, Loops
<1> QED BY <1>5, <1>6, <1>7, <1>8

\* The steps of the cycle under the lock that do not end its turn.
LEMMA CycleRecord ==
  ASSUME RecordInv, AppliedBehind', ReadsNewest',
         pc'["cycle"] \in Holding \ {"current"}
  PROVE  RecordInv'
BY DEF RecordInv, Settled

LEMMA PutRecord ==
  ASSUME Sound, RecordInv, NEW l \in Loops, Put(l) PROVE RecordInv'
<1>1. /\ pc[l] = "put" /\ pc[l] \in Holding /\ UNCHANGED <<reported, runtime>>
      /\ web' = AfterPut(loc[l].target)
  BY DEF Put, control, Holding, Calls
<1>2. \A m \in Loops \ {l} : pc[m] \notin Holding
  BY <1>1, Held
<1>3. Continue(l, "save", loc[l])
  BY <1>1, PutTarget DEF Put
<1>4. OthersKeep(l) /\ pc'[l] = "save" /\ loc'[l] = loc[l]
  BY <1>3, Continued
<1>5. web'.rev = loc[l].target.rev /\ web.rev <= web'.rev /\ web'.rev \in Nat
  BY <1>1, PutTarget, Numbers DEF Sound, LoopSound, TargetSound
<1>6. AppliedBehind' /\ ReadsNewest'
  BY <1>1, <1>2, <1>4, <1>5, TurnKeepsBounds, Numbers DEF RecordInv, AppliedBehind
<1>7. CASE l = "cycle"
  BY <1>4, <1>6, <1>7, CycleRecord DEF Holding
<1>8. CASE l = "poll"
  <2>1. Settled' => /\ web'.rev = web.rev /\ runtime.applied = web.rev
                    /\ runtime.error = "none"
    <3>1. Settled' => runtime.applied = web'.rev /\ runtime.error = "none"
      BY <1>1 DEF Settled
    <3>2. runtime.applied <= web.rev /\ web.rev \in Nat
      BY Numbers DEF RecordInv, AppliedBehind
    <3> QED BY <1>5, <3>1, <3>2
  <2>2. Settled' /\ Settled => reported' = web'.rev \/ Owed'
    BY <1>1, <1>4, <1>8, <2>1 DEF RecordInv, Owed, Holding
  <2> QED BY <1>1, <1>4, <1>6, <1>8, <2>1, <2>2, PollRecord
<1> QED BY <1>7, <1>8 DEF Loops

LEMMA SaveRecord ==
  ASSUME Sound, RecordInv, NEW l \in Loops, Save(l) PROVE RecordInv'
<1>1. /\ pc[l] = "save" /\ pc[l] \in Holding /\ UNCHANGED <<web, reported>>
      /\ runtime'.applied = loc[l].target.rev /\ runtime'.pending = loc[l].target.rev
      /\ Continue(l, "restatus", loc[l])
  BY DEF Save, control, crm, Holding
<1>2. \A m \in Loops \ {l} : pc[m] \notin Holding
  BY <1>1, Held
<1>3. OthersKeep(l) /\ pc'[l] = "restatus" /\ loc'[l] = loc[l]
  BY <1>1, Continued
<1>4. web.rev = loc[l].target.rev
  BY <1>1 DEF Sound, LoopSound, TargetSound
<1>5. AppliedBehind' /\ ReadsNewest'
  BY <1>1, <1>2, <1>3, <1>4, TurnKeepsBounds, Numbers DEF RecordInv, AppliedBehind
<1>6. CASE l = "cycle"
  BY <1>3, <1>5, <1>6, CycleRecord DEF Holding, Calls
<1>7. CASE l = "poll"
  <2>1. Owed' /\ pc'["cycle"] # "current"
    BY <1>1, <1>3, <1>4, <1>7 DEF Owed, Holding, Calls, OthersKeep, RecordInv, Loops
  <2> QED BY <1>5, <2>1 DEF RecordInv
<1> QED BY <1>6, <1>7 DEF Loops

LEMMA RestatusRecord ==
  ASSUME Sound, RecordInv, NEW l \in Loops, Restatus(l) PROVE RecordInv'
<1>1. /\ pc[l] = "restatus" /\ pc[l] \in Holding
      /\ UNCHANGED <<web, reported, runtime>>
  BY DEF Restatus, control, crm, Holding, Calls
<1>2. \A m \in Loops \ {l} : pc[m] \notin Holding
  BY <1>1, Held
<1> DEFINE closing == [loc[l] EXCEPT !.web = web.rev, !.closing = TRUE]
<1>3. web.rev = loc[l].target.rev
  BY <1>1 DEF Sound, LoopSound, TargetSound
<1>4. Continue(l, "report", closing)
  BY <1>3 DEF Restatus
<1>5. closing.web = web.rev /\ closing.saved = loc[l].saved
  BY RuntimeTypes DEF Locals
<1> HIDE DEF closing
<1>6. OthersKeep(l) /\ pc'[l] = "report" /\ loc'[l] = closing
  BY <1>4, Continued
<1>7. AppliedBehind' /\ ReadsNewest'
  BY <1>1, <1>2, <1>5, <1>6, TurnKeepsBounds, Numbers DEF RecordInv, AppliedBehind
<1>8. CASE l = "cycle"
  BY <1>6, <1>7, <1>8, CycleRecord DEF Holding, Calls
<1>9. CASE l = "poll"
  <2>1. Settled => reported' = web'.rev \/ Owed'
    BY <1>1, <1>6, <1>9 DEF RecordInv, Owed, Holding, Calls
  <2>2. Settled' => runtime.error = "none" /\ runtime.applied = web.rev
    BY <1>1 DEF Settled
  <2> QED BY <1>1, <1>6, <1>7, <1>9, <2>1, <2>2, PollRecord
<1> QED BY <1>8, <1>9 DEF Loops

\* A report pays what is owed: it names the revision that was read, and if the
\* file names the CRM's, so does the report.
LEMMA ReportRecord ==
  ASSUME Sound, RecordInv, NEW l \in Loops, Report(l) PROVE RecordInv'
<1>1. /\ pc[l] = "report" /\ pc[l] \in Holding /\ reported' = loc[l].web
      /\ web' = web /\ runtime'.applied = runtime.applied
  BY RuntimeTypes DEF Report, Recorded, crm, Holding, Calls, Runtime
<1>2. \A m \in Loops \ {l} : pc[m] \notin Holding
  BY <1>1, Held
<1> DEFINE next == [loc[l] EXCEPT !.target.rev = Newest]
<1>3. next.saved = loc[l].saved
  BY RuntimeTypes DEF Locals
<1>4. NoLocals.saved.applied = 0 /\ EmptyRuntime.applied = 0
  BY DEF NoLocals, EmptyRuntime
<1> HIDE DEF next
<1>5. /\ OthersKeep(l)
      /\ \/ pc'[l] = "timer" /\ loc'[l] = NoLocals
         \/ pc'[l] = "failed" /\ loc'[l].saved = EmptyRuntime
         \/ pc'[l] = "fetch" /\ loc'[l] = next
  <2>1. \/ Finish(l) \/ Fail(l, "control_entitlement_regressed")
        \/ Continue(l, "fetch", next)
    <3>1. \/ loc[l].closing \/ loc[l].web = Newest
          \/ ~loc[l].closing /\ loc[l].web > Newest
          \/ ~(loc[l].closing \/ loc[l].web = Newest) /\ ~(loc[l].web > Newest)
      OBVIOUS
    <3> QED BY <3>1, RuntimeTypes DEF Report, next
  <2> QED BY <2>1, Finished, Failed, Continued DEF Fail
<1>6. AppliedBehind' /\ ReadsNewest'
  <2>1. loc'[l].saved.applied \in Nat /\ loc'[l].saved.applied <= web'.rev
    BY <1>1, <1>3, <1>4, <1>5, Numbers DEF RecordInv, AppliedBehind
  <2>2. pc'[l] \notin {"failSave", "current", "report"}
    BY <1>5
  <2> QED BY <1>1, <1>2, <1>5, <2>1, <2>2, TurnKeepsBounds, Numbers
          DEF RecordInv, AppliedBehind
<1>7. Settled' => reported' = web'.rev
  <2> SUFFICES ASSUME Settled' PROVE loc[l].web = web.rev
    BY <1>1
  <2>1. runtime.applied = web.rev
    BY <1>1 DEF Settled
  <2>2. runtime.applied <= loc[l].web
    BY <1>1 DEF RecordInv, ReadsNewest
  <2>3. loc[l].web \in Nat /\ web.rev \in Nat /\ loc[l].web <= web.rev
    BY Numbers
  <2> QED BY <2>1, <2>2, <2>3
<1>8. pc'["cycle"] # "current"
  BY <1>5 DEF RecordInv, OthersKeep, Loops
<1> QED BY <1>6, <1>7, <1>8 DEF RecordInv

\* The poll ends its turn without a report only when the file it read does not
\* say that one is pending.
LEMMA CurrentRecord ==
  ASSUME Sound, RecordInv, NEW l \in Loops, Current(l) PROVE RecordInv'
<1>1. /\ pc[l] = "current" /\ pc[l] \in Holding
      /\ UNCHANGED <<web, reported, runtime>>
  BY DEF Current, control, crm, Holding, Calls
<1>2. \A m \in Loops \ {l} : pc[m] \notin Holding
  BY <1>1, Held
<1>3. l = "poll"
  BY <1>1 DEF RecordInv, Loops
<1> DEFINE next == [loc[l] EXCEPT !.target.rev = Newest]
           closing == [loc[l] EXCEPT !.closing = TRUE]
<1>4. /\ next.saved = loc[l].saved
      /\ closing.saved = loc[l].saved /\ closing.web = loc[l].web
  BY RuntimeTypes DEF Locals
<1>5. NoLocals.saved.applied = 0 /\ EmptyRuntime.applied = 0
  BY DEF NoLocals, EmptyRuntime
<1> HIDE DEF next, closing
<1>6. /\ OthersKeep(l)
      /\ \/ pc'[l] = "timer" /\ loc'[l] = NoLocals /\ ~MustReport(l)
         \/ pc'[l] = "failed" /\ loc'[l].saved = EmptyRuntime
         \/ pc'[l] = "report" /\ loc'[l] = closing
         \/ pc'[l] = "fetch" /\ loc'[l] = next
  <2>1. \/ Finish(l) /\ ~MustReport(l)
        \/ Fail(l, "control_entitlement_regressed")
        \/ Continue(l, "report", closing) \/ Continue(l, "fetch", next)
    <3>1. Newest \in Nat /\ loc[l].web \in Nat /\ loc[l].saved.applied \in Nat
      BY RuntimeTypes, Numbers
    <3> QED BY <3>1 DEF Current, next, closing
  <2> QED BY <2>1, Finished, Failed, Continued DEF Fail
<1>7. AppliedBehind' /\ ReadsNewest'
  <2>1. loc'[l].saved.applied \in Nat /\ loc'[l].saved.applied <= web'.rev
    BY <1>1, <1>4, <1>5, <1>6, Numbers DEF RecordInv, AppliedBehind
  <2>2. /\ pc'[l] # "failSave"
        /\ pc'[l] \in {"current", "report"} => loc'[l].web = loc[l].web
    BY <1>4, <1>6
  <2> QED BY <1>1, <1>2, <1>6, <2>1, <2>2, TurnKeepsBounds, Numbers
          DEF RecordInv, AppliedBehind
<1>8. Settled' /\ Settled => reported' = web'.rev \/ Owed'
  <2> SUFFICES ASSUME Settled', Settled, reported # web.rev PROVE Owed'
    BY <1>1
  <2>1. Owed
    BY DEF RecordInv
  <2>2. loc[l].saved.pending = web.rev /\ runtime.pending = web.rev
    BY <1>1, <1>3, <2>1 DEF Owed
  <2>3. loc[l].web = web.rev
    <3>1. runtime.applied <= loc[l].web /\ runtime.applied = web.rev
      BY <1>1 DEF RecordInv, ReadsNewest, Settled
    <3>2. loc[l].web \in Nat /\ web.rev \in Nat /\ loc[l].web <= web.rev
      BY Numbers
    <3> QED BY <3>1, <3>2
  <2>4. MustReport(l)
    BY <2>2, <2>3 DEF MustReport
  <2>5. pc'[l] # "failed"
    BY DEF Settled
  <2> QED BY <1>1, <1>3, <1>6, <2>2, <2>4, <2>5 DEF Owed, Holding, Calls
<1>9. Settled' => runtime.error = "none" /\ runtime.applied = web.rev
  BY <1>1 DEF Settled
<1> QED BY <1>1, <1>3, <1>6, <1>7, <1>8, <1>9, PollRecord

LEMMA FetchRecord ==
  ASSUME Sound, RecordInv, NEW l \in Loops, Fetch(l) PROVE RecordInv'
<1>1. /\ pc[l] = "fetch" /\ pc[l] \in Holding
      /\ UNCHANGED <<web, reported, runtime>>
  BY DEF Fetch, control, crm, Holding, Calls
<1>2. \A m \in Loops \ {l} : pc[m] \notin Holding
  BY <1>1, Held
<1> DEFINE fetched == [loc[l] EXCEPT !.target.content = versions[loc[l].target.rev]]
<1>3. fetched.saved = loc[l].saved
  BY RuntimeTypes DEF Locals
<1> HIDE DEF fetched
<1>4. loc[l].target.rev \in DOMAIN versions
  BY <1>1 DEF Sound, LoopSound, TargetSound
<1>5. Continue(l, "put", fetched)
  BY <1>4 DEF Fetch, fetched
<1>6. OthersKeep(l) /\ pc'[l] = "put" /\ loc'[l] = fetched
  BY <1>5, Continued
<1>7. AppliedBehind' /\ ReadsNewest'
  BY <1>1, <1>2, <1>3, <1>6, TurnKeepsBounds, Numbers DEF RecordInv, AppliedBehind
<1>8. CASE l = "cycle"
  BY <1>6, <1>7, <1>8, CycleRecord DEF Holding, Calls
<1>9. CASE l = "poll"
  <2>1. Settled => reported' = web'.rev \/ Owed'
    BY <1>1, <1>6, <1>9 DEF RecordInv, Owed, Holding, Calls
  <2>2. Settled' => runtime.error = "none" /\ runtime.applied = web.rev
    BY <1>1 DEF Settled
  <2> QED BY <1>1, <1>6, <1>7, <1>9, <2>1, <2>2, PollRecord
<1> QED BY <1>8, <1>9 DEF Loops

LEMMA LoadFailedRecord ==
  ASSUME Sound, RecordInv, NEW l \in Loops, LoadFailed(l) PROVE RecordInv'
<1>1. /\ pc[l] = "failed" /\ pc' = [pc EXCEPT ![l] = "failSave"]
      /\ loc' = [loc EXCEPT ![l].saved = runtime]
      /\ UNCHANGED <<web, reported, runtime>>
  BY DEF LoadFailed, Goto, control, crm
<1> DEFINE loaded == [loc[l] EXCEPT !.saved = runtime]
<1>2. loaded.saved = runtime
  BY RuntimeTypes DEF Locals
<1> HIDE DEF loaded
<1>3. /\ pc'[l] = "failSave" /\ loc'[l] = loaded
      /\ \A m \in Loops \ {l} : pc'[m] = pc[m] /\ loc'[m] = loc[m]
  BY <1>1, Numbers DEF loaded
<1>4. AppliedBehind' /\ ReadsNewest'
  BY <1>1, <1>2, <1>3, OutsideKeepsBounds, Numbers DEF RecordInv
<1>5. ~Settled'
  BY <1>3 DEF Settled
<1>6. pc'["cycle"] # "current"
  BY <1>3 DEF RecordInv, Loops
<1> QED BY <1>4, <1>5, <1>6 DEF RecordInv

\* An error that is written out unsettles the file.
LEMMA SaveFailedRecord ==
  ASSUME Sound, RecordInv, NEW l \in Loops, SaveFailed(l) PROVE RecordInv'
<1>1. /\ pc[l] = "failSave" /\ Rest(l) /\ loc' = [loc EXCEPT ![l] = NoLocals]
      /\ runtime' = [loc[l].saved EXCEPT !.error = loc[l].error]
      /\ UNCHANGED <<web, reported>>
  BY DEF SaveFailed, WithError, control, crm
<1>2. runtime'.applied = loc[l].saved.applied /\ runtime'.error = loc[l].error
  BY <1>1, RuntimeTypes DEF Runtime
<1>3. loc[l].error # "none"
  BY <1>1 DEF Sound, LoopSound, LoopTyped
<1>4. NoLocals.saved.applied = 0
  BY DEF NoLocals, EmptyRuntime
<1>5. /\ pc'[l] = "timer" /\ loc'[l] = NoLocals
      /\ \A m \in Loops \ {l} :
           /\ loc'[m] = loc[m]
           /\ pc'[m] = pc[m] \/ (pc[m] = "off" /\ pc'[m] = "timer")
  BY <1>1, Numbers DEF Rest
<1>6. AppliedBehind' /\ ReadsNewest'
  BY <1>1, <1>2, <1>4, <1>5, OutsideKeepsBounds, Numbers DEF RecordInv
<1>7. ~Settled'
  BY <1>2, <1>3 DEF Settled
<1>8. pc'["cycle"] # "current"
  BY <1>5 DEF RecordInv, Loops
<1> QED BY <1>6, <1>7, <1>8 DEF RecordInv

-----------------------------------------------------------------------------
(* The steps of the databases and of the network.                          *)

\* The agent stands still.
LEMMA StillRecord ==
  ASSUME Sound, RecordInv, UNCHANGED <<pc, loc, runtime>>,
         web'.rev \in Nat, web'.rev >= web.rev,
         web'.rev = web.rev /\ reported = web.rev => reported' = web.rev
  PROVE  RecordInv'
<1>1. AppliedBehind' /\ ReadsNewest'
  BY OutsideKeepsBounds, Numbers DEF RecordInv
<1>2. Settled' => Settled /\ web'.rev = web.rev
  <2> SUFFICES ASSUME Settled' PROVE Settled /\ web'.rev = web.rev
    OBVIOUS
  <2>1. runtime.applied = web'.rev /\ runtime.applied <= web.rev
    BY DEF Settled, RecordInv, AppliedBehind
  <2>2. web'.rev = web.rev
    <3>1. web.rev \in Nat
      BY Numbers
    <3> QED BY <2>1, <3>1
  <2> QED BY <2>2 DEF Settled
<1>3. web'.rev = web.rev /\ Owed => Owed'
  BY DEF Owed
<1> QED BY <1>1, <1>2, <1>3 DEF RecordInv

LEMMA RestartRecord ==
  ASSUME Sound, RecordInv, Restart PROVE RecordInv'
<1>1. /\ UNCHANGED <<web, runtime>>
      /\ pc' = [l \in Loops |-> IF l = "cycle" THEN "wait" ELSE "off"]
      /\ loc' = [l \in Loops |-> NoLocals]
  BY DEF Restart
<1>2. /\ pc'["cycle"] = "wait" /\ pc'["poll"] = "off"
      /\ \A l \in Loops :
           pc'[l] \in {"wait", "off"} /\ loc'[l].saved.applied = 0
  BY <1>1 DEF Loops, NoLocals, EmptyRuntime
<1>3. AppliedBehind' /\ ReadsNewest'
  BY <1>1, <1>2, Numbers DEF RecordInv, AppliedBehind, ReadsNewest
<1>4. ~Settled'
  BY <1>2 DEF Settled
<1> QED BY <1>2, <1>3, <1>4 DEF RecordInv

LEMMA InitRecord == Init => RecordInv
<1> SUFFICES ASSUME Init PROVE RecordInv
  OBVIOUS
<1>1. /\ runtime.applied = 0 /\ web.rev = 0
      /\ pc["cycle"] = "wait" /\ pc["poll"] = "off"
      /\ \A l \in Loops :
           pc[l] \in {"wait", "off"} /\ loc[l].saved.applied = 0
  BY DEF Init, NoVersion, EmptyRuntime, Loops, NoLocals
<1> QED BY <1>1 DEF RecordInv, AppliedBehind, ReadsNewest, Settled

LEMMA StepRecord ==
  ASSUME NoRestores, Sound, RecordInv, [Next]_vars PROVE RecordInv'
<1>1. CASE UNCHANGED vars
  <2>1. UNCHANGED <<pc, loc, runtime, web, reported>>
    BY <1>1 DEF vars, control, crm, agent
  <2> QED BY <2>1, StillRecord, Numbers
<1>2. ASSUME NEW l \in Loops, Work(l) PROVE RecordInv'
  BY <1>2, StartRecord, AcquireRecord, StatusRecord, PutRecord, SaveRecord,
     RestatusRecord, ReportRecord, CurrentRecord, FetchRecord, LoadFailedRecord,
     SaveFailedRecord DEF Work
<1>3. ASSUME NEW l \in Loops, Break(l) \/ Refuse(l) PROVE RecordInv'
  BY <1>3, BreakRecord
<1>4. CASE Issue \/ CoolDown
  <2>1. UNCHANGED <<pc, loc, runtime, web, reported>>
    BY <1>4 DEF Issue, CoolDown, control, crm, agent
  <2> QED BY <2>1, StillRecord, Numbers
<1>5. CASE DeliverReport
  <2>1. UNCHANGED <<pc, loc, runtime, web>>
    BY <1>5 DEF DeliverReport, crm, agent
  <2>2. reported' \in Nat /\ reported' >= reported /\ reported' <= web.rev
    <3>1. Sound' /\ reported' >= reported /\ reported' <= web.rev
      BY <1>5, DeliverReportStep
    <3> QED BY <3>1 DEF Sound, DataTyped
  <2> QED BY <2>1, <2>2, StillRecord, Numbers
<1>6. CASE DeliverPut
  <2>1. UNCHANGED <<pc, loc, runtime, reported>>
    BY <1>6 DEF DeliverPut, control, agent
  <2>2. web'.rev >= web.rev /\ web'.rev \in Nat
    <3>1. Sound' /\ web'.rev >= web.rev
      BY <1>6, DeliverPutStep
    <3> QED BY <3>1 DEF Sound, DataTyped, Version
  <2> QED BY <2>1, <2>2, StillRecord, Numbers
<1>7. ~WebRestored /\ ~ControlRestored
  BY DEF NoRestores, WebRestored, ControlRestored, Fault
<1> QED BY <1>1, <1>2, <1>3, <1>4, <1>5, <1>6, <1>7, RestartRecord DEF Next

\* When both loops rest without an error and the runtime file names the revision
\* that the CRM runs under, the control plane has heard of it: the cycle reports
\* what it reads before it ends, and the poll ends without a report only when no
\* acknowledgement is pending.
THEOREM RecordAcknowledged ==
  ASSUME NoRestores PROVE Spec => []RecordedIsAcknowledged
<1>1. Init => Sound /\ RecordInv
  BY InitSound, InitRecord
<1>2. Sound /\ RecordInv /\ [Next]_vars => (Sound /\ RecordInv)'
  BY StepSound, StepRecord
<1>3. Sound /\ RecordInv => RecordedIsAcknowledged
  <2> SUFFICES ASSUME RecordInv, AtRest, runtime.applied = web.rev
               PROVE  reported = web.rev
    BY DEF RecordedIsAcknowledged
  <2>1. \A l \in Loops : pc[l] \notin Holding /\ pc[l] \notin {"off", "failed", "failSave"}
    BY DEF AtRest, Holding, Calls
  <2>2. Settled /\ ~Owed
    BY <2>1 DEF Settled, Owed, AtRest, Loops
  <2> QED BY <2>2 DEF RecordInv
<1> QED BY <1>1, <1>2, <1>3, PTL DEF Spec

\* Restored databases included: the CRM never takes an older version or other content
\* under the number it has, in whatever order puts arrive; only its own restore does.
THEOREM OnlyRestoresReturn == Spec => AppliedOnlyGrows
<1>1. ASSUME [Next]_vars, web' # web
      PROVE  web'.rev > web.rev \/ WebRestored
  <2>1. ASSUME NEW v, web' = AfterPut(v) PROVE web'.rev > web.rev
    BY <1>1, <2>1 DEF AfterPut
  <2>2. ASSUME NEW l \in Loops, Put(l) PROVE web'.rev > web.rev
    BY <2>1, <2>2 DEF Put
  <2>3. CASE DeliverPut
    BY <2>1, <2>3 DEF DeliverPut
  <2>4. ASSUME NEW l \in Loops,
               \/ Start(l) \/ Acquire(l) \/ Status(l) \/ Save(l) \/ Restatus(l)
               \/ Current(l) \/ Fetch(l) \/ LoadFailed(l) \/ SaveFailed(l)
               \/ Report(l) \/ Break(l) \/ Refuse(l)
        PROVE  FALSE
    BY <1>1, <2>4 DEF Start, Acquire, Status, Save, Restatus, Current, Fetch,
       LoadFailed, SaveFailed, Report, Break, Refuse, crm
  <2>5. ~Issue /\ ~CoolDown /\ ~DeliverReport /\ ~Restart /\ ~ControlRestored
        /\ ~UNCHANGED vars
    BY <1>1 DEF Issue, CoolDown, DeliverReport, Restart, ControlRestored, vars, crm
  <2> QED BY <1>1, <2>2, <2>3, <2>4, <2>5 DEF Next, Work
<1>2. [Next]_vars => [web' # web => web'.rev > web.rev \/ WebRestored]_vars
  BY <1>1
<1> QED BY <1>2, PTL DEF Spec, AppliedOnlyGrows
=============================================================================
