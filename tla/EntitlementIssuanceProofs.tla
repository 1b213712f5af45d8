---------------------- MODULE EntitlementIssuanceProofs ----------------------
(***************************************************************************)
(* Proofs about EntitlementIssuance, for any number of requests, contracts,*)
(* settings and keys and any bounds.                                       *)
(***************************************************************************)
EXTENDS EntitlementIssuance, TLAPS

-----------------------------------------------------------------------------
(* Types of the values requests are built from.                            *)

LEMMA BlankTypes ==
  /\ AnySetting \in Settings
  /\ NoSnapshot \in Snapshot
  /\ Idle \in Request
<1>1. AnySetting \in Settings
  BY ConstantsAssumption DEF AnySetting
<1>2. NoSnapshot \in Snapshot
  BY <1>1 DEF NoSnapshot, Snapshot
<1>3. Idle \in Request
  BY <1>2 DEF Idle, Request, Expectation, NoExpectation
<1> QED BY <1>1, <1>2, <1>3

LEMMA ReadStateType ==
  ASSUME TypeOK PROVE ReadState \in Snapshot
<1>1. CASE Assigned
  <2>1. /\ schedule.contract \in Contracts /\ schedule.srev \in Nat
        /\ schedule.latest \in Nat /\ policy.rev \in Nat
        /\ policy.terms \in Settings /\ policy.modules \in Settings
        /\ available \in BOOLEAN
    BY <1>1 DEF TypeOK, Assigned
  <2>2. /\ contract[schedule.contract].rev \in Nat
        /\ contract[schedule.contract].terms \in Settings
    BY <2>1 DEF TypeOK
  <2> QED BY <1>1, <2>1, <2>2, BlankTypes DEF ReadState, Snapshot
<1>2. CASE ~Assigned
  BY <1>2, BlankTypes DEF ReadState
<1> QED BY <1>1, <1>2

LEMMA WithModulesType ==
  ASSUME TypeOK, NEW s \in Snapshot, s.contract \in Contracts
  PROVE  /\ WithModules(s) \in Snapshot
         /\ WithModules(s).contract = s.contract
         /\ WithModules(s).crev = s.crev
         /\ WithModules(s).srev = s.srev
         /\ WithModules(s).policy = s.policy
<1>1. contract[s.contract].modules \in Settings
  BY DEF TypeOK
<1> QED BY <1>1 DEF WithModules, Snapshot

LEMMA DesiredType ==
  ASSUME NEW s \in Snapshot PROVE Desired(s) \in Content
BY DEF Desired, Content, Snapshot

\* The key a renewal claims is well formed: the highest stored version exists.
LEMMA RenewalKeyType ==
  ASSUME TypeOK, LatestIsHighest, NEW s \in Snapshot
  PROVE  RenewalKey(s) \in AutoKey
<1>1. CASE versions = {}
  BY <1>1, DesiredType DEF RenewalKey, AutoKey
<1>2. CASE versions # {}
  <2>1. PICK e \in versions : e.version = schedule.latest
    BY <1>2 DEF LatestIsHighest
  <2>2. IsCurrent(e)
    BY <2>1 DEF IsCurrent, LatestIsHighest
  <2>3. (CHOOSE f \in versions : IsCurrent(f)) \in versions
    BY <2>1, <2>2
  <2>4. (CHOOSE f \in versions : IsCurrent(f)).version \in Nat
    BY <2>3 DEF TypeOK, Version
  <2> QED BY <1>2, <2>4, DesiredType DEF RenewalKey, AutoKey
<1> QED BY <1>1, <1>2

\* Rewriting the claims a request holds keeps them well formed.
LEMMA FailClaimType ==
  ASSUME TypeOK, NEW r \in Requests, NEW b \in BOOLEAN, FailClaim(r, b)
  PROVE  claims' \subseteq Claim
<1>1. \A c \in HeldClaims(r) : [c EXCEPT !.state = "failed", !.lapsed = b] \in Claim
  BY DEF HeldClaims, TypeOK, Claim
<1> QED BY <1>1 DEF FailClaim, TypeOK

-----------------------------------------------------------------------------
(* The inductive invariant, read request by request.                       *)

\* What IssuanceInv says of one request ...
Sound(r) ==
  /\ pc[r] \in Keyed => req[r].key \in Key
  /\ pc[r] = "claim" => req[r].key \in AutoKey
  /\ pc[r] = "assign" => req[r].target \in Contracts
  /\ pc[r] \in Loaded =>
       /\ req[r].snap.contract \in Contracts
       /\ NotAhead(req[r].snap.contract, req[r].snap.crev, req[r].snap.srev,
                   req[r].snap.policy)
  /\ pc[r] \in Numbered =>
       /\ req[r].version \in 1 .. sequence - 1
       /\ \A e \in versions : req[r].version < e.version =>
            /\ req[r].snap.srev <= e.srev
            /\ req[r].snap.contract = e.contract => req[r].snap.crev <= e.crev
            /\ req[r].snap.policy <= e.content.policy

\* ... and of the stored versions.
StoredSound ==
  /\ LatestIsHighest
  /\ \A e \in versions : e.version < sequence
  /\ \A e \in versions : NotAhead(e.contract, e.crev, e.srev, e.content.policy)
  /\ VersionOrder

LEMMA InvByRequest ==
  IssuanceInv <=> TypeOK /\ (\A r \in Requests : Sound(r)) /\ StoredSound
BY DEF IssuanceInv, Sound, StoredSound, LocalsOK, NothingAhead, NumberedInOrder

LEMMA InvByRequestPrime ==
  IssuanceInv' <=> TypeOK' /\ (\A r \in Requests : Sound(r)') /\ StoredSound'
BY DEF IssuanceInv, Sound, StoredSound, LocalsOK, NothingAhead, NumberedInOrder

\* The tables a version is signed from only move forward.
Forward ==
  /\ schedule.srev <= schedule'.srev
  /\ schedule.latest = schedule'.latest
  /\ \A c \in Contracts : contract[c].rev <= contract'[c].rev
  /\ policy.rev <= policy'.rev
  /\ sequence <= sequence'
  /\ versions' = versions

LEMMA ForwardNotAhead ==
  ASSUME TypeOK, TypeOK', Forward, NEW c \in Contracts,
         NEW crev \in Nat, NEW srev \in Nat, NEW p \in Nat,
         NotAhead(c, crev, srev, p)
  PROVE  NotAhead(c, crev, srev, p)'
<1>1. /\ schedule.srev \in Nat /\ schedule'.srev \in Nat
      /\ contract[c].rev \in Nat /\ contract'[c].rev \in Nat
      /\ policy.rev \in Nat /\ policy'.rev \in Nat
  BY DEF TypeOK
<1> QED BY <1>1 DEF NotAhead, Forward

\* Every step but Commit: it stores no version, and whatever request it moves is
\* left sound.
LEMMA QuietStep ==
  ASSUME IssuanceInv, TypeOK', Forward,
         \A r \in Requests :
           \/ pc'[r] = pc[r] /\ req'[r] = req[r]
           \/ Sound(r)'
  PROVE  IssuanceInv'
<1>1. TypeOK /\ (\A r \in Requests : Sound(r)) /\ StoredSound
  BY InvByRequest
<1>2. ASSUME NEW r \in Requests, pc'[r] = pc[r], req'[r] = req[r]
      PROVE  Sound(r)'
  <2>1. /\ req[r] \in Request /\ req[r].snap \in Snapshot
        /\ sequence \in Nat /\ sequence' \in Nat
    BY <1>1 DEF TypeOK, Request
  <2>2. /\ req[r].snap.crev \in Nat /\ req[r].snap.srev \in Nat
        /\ req[r].snap.policy \in Nat
    BY <2>1 DEF Snapshot
  <2>3. Sound(r)
    BY <1>1
  <2>4. pc[r] \in Loaded =>
          NotAhead(req[r].snap.contract, req[r].snap.crev, req[r].snap.srev,
                   req[r].snap.policy)'
    <3>1. SUFFICES ASSUME pc[r] \in Loaded
                   PROVE NotAhead(req[r].snap.contract, req[r].snap.crev,
                                  req[r].snap.srev, req[r].snap.policy)'
      OBVIOUS
    <3>2. /\ req[r].snap.contract \in Contracts
          /\ NotAhead(req[r].snap.contract, req[r].snap.crev,
                      req[r].snap.srev, req[r].snap.policy)
      BY <2>3, <3>1 DEF Sound
    <3> QED
      BY <1>1, <1>2, <2>2, <3>2, ForwardNotAhead
  <2>5. req[r].version \in 1 .. sequence - 1 => req[r].version \in 1 .. sequence' - 1
    BY <2>1 DEF Forward
  <2> QED BY <1>2, <2>3, <2>4, <2>5 DEF Sound, Forward
<1>3. \A r \in Requests : Sound(r)'
  BY <1>2
<1>4. LatestIsHighest' /\ VersionOrder'
  BY <1>1 DEF StoredSound, LatestIsHighest, VersionOrder, Forward
<1>5. ASSUME NEW e \in versions'
      PROVE  NotAhead(e.contract, e.crev, e.srev, e.content.policy)'
  <2>1. e \in versions
    BY <1>5 DEF Forward
  <2>2. /\ e.contract \in Contracts /\ e.crev \in Nat /\ e.srev \in Nat
        /\ e.content.policy \in Nat
    BY <1>1, <2>1 DEF TypeOK, Version, Content
  <2>3. NotAhead(e.contract, e.crev, e.srev, e.content.policy)
    BY <1>1, <2>1 DEF StoredSound
  <2> QED BY <1>1, <2>2, <2>3, ForwardNotAhead
<1>6. \A e \in versions' : e.version < sequence'
  <2>1. sequence \in Nat /\ sequence' \in Nat /\ \A e \in versions : e.version \in Nat
    BY <1>1 DEF TypeOK, Version
  <2> QED BY <1>1, <2>1 DEF StoredSound, Forward
<1>7. StoredSound'
  BY <1>4, <1>5, <1>6 DEF StoredSound
<1> QED BY <1>3, <1>7, InvByRequestPrime

-----------------------------------------------------------------------------
(* Steps that write no table but claims.                                   *)

\* Request r moves to label with locals q.
Moves(r, q, label) ==
  /\ pc' = [pc EXCEPT ![r] = label]
  /\ req' = [req EXCEPT ![r] = q]

LEMMA MovesType ==
  ASSUME TypeOK, NEW r \in Requests, NEW q \in Request,
         NEW label \in ControlPoint, Moves(r, q, label)
  PROVE  /\ pc' \in [Requests -> ControlPoint] /\ req' \in [Requests -> Request]
         /\ pc'[r] = label /\ req'[r] = q
         /\ \A p \in Requests \ {r} : pc'[p] = pc[p] /\ req'[p] = req[p]
BY DEF TypeOK, Moves

\* Control points whose locals the invariant says nothing of.
LEMMA FreePoints ==
  /\ {"idle", "postpone", "save"} \subseteq ControlPoint
  /\ \A l \in {"idle", "postpone", "save"} :
       l \notin Keyed /\ l \notin Loaded /\ l \notin Numbered
       /\ l # "claim" /\ l # "assign"
BY DEF ControlPoint, Keyed, Loaded, Numbered

LEMMA LocalStep ==
  ASSUME IssuanceInv, NEW r \in Requests, NEW q \in Request,
         NEW label \in ControlPoint, Moves(r, q, label),
         UNCHANGED <<tables, issued>>, claims' \subseteq Claim,
         answers' \subseteq Key \X Nat, faults' \in Nat,
         Sound(r)'
  PROVE  IssuanceInv'
<1>1. TypeOK
  BY DEF IssuanceInv
<1>2. /\ pc' \in [Requests -> ControlPoint] /\ req' \in [Requests -> Request]
      /\ \A p \in Requests \ {r} : pc'[p] = pc[p] /\ req'[p] = req[p]
  BY <1>1, MovesType
<1>3. TypeOK'
  BY <1>1, <1>2 DEF TypeOK, tables, issued
<1>4. Forward
  BY <1>1 DEF Forward, TypeOK, tables, issued
<1> QED BY <1>2, <1>3, <1>4, QuietStep

LEMMA FreeStep ==
  ASSUME IssuanceInv, NEW r \in Requests, NEW q \in Request,
         NEW label \in {"idle", "postpone", "save"}, Moves(r, q, label),
         UNCHANGED <<tables, issued>>, claims' \subseteq Claim,
         answers' \subseteq Key \X Nat, faults' \in Nat
  PROVE  IssuanceInv'
<1>1. label \in ControlPoint /\ TypeOK
  BY FreePoints DEF IssuanceInv
<1>2. pc'[r] = label
  BY <1>1, MovesType
<1>3. Sound(r)'
  BY <1>2, FreePoints DEF Sound
<1> QED BY <1>1, <1>3, LocalStep

LEMMA FinishStep ==
  ASSUME IssuanceInv, NEW r \in Requests, Finish(r),
         UNCHANGED <<tables, issued>>, claims' \subseteq Claim,
         answers' \subseteq Key \X Nat, faults' \in Nat
  PROVE  IssuanceInv'
<1>1. Moves(r, Idle, "idle")
  BY DEF Finish, Goto, Moves
<1> QED BY <1>1, BlankTypes, FreeStep

LEMMA PostponeStep ==
  ASSUME IssuanceInv, NEW r \in Requests, Goto(r, "postpone"), UNCHANGED req,
         UNCHANGED <<tables, issued>>, claims' \subseteq Claim,
         answers' \subseteq Key \X Nat, faults' \in Nat
  PROVE  IssuanceInv'
<1>1. req[r] \in Request /\ Moves(r, req[r], "postpone")
  BY DEF IssuanceInv, TypeOK, Goto, Moves
<1> QED BY <1>1, FreeStep

\* Any of the endings of a request that failed.
LEMMA FailDelayedStep ==
  ASSUME IssuanceInv, NEW r \in Requests, FailDelayed(r),
         UNCHANGED <<tables, issued, answers>>, faults' \in Nat
  PROVE  IssuanceInv'
<1>1. TypeOK
  BY DEF IssuanceInv
<1>2. claims' \subseteq Claim
  BY <1>1, FailClaimType DEF FailDelayed
<1>3. answers' \subseteq Key \X Nat /\ UNCHANGED <<tables, issued>>
  BY <1>1 DEF TypeOK
<1>4. CASE Finish(r)
  BY <1>2, <1>3, <1>4, FinishStep
<1>5. CASE Goto(r, "postpone") /\ UNCHANGED req
  BY <1>2, <1>3, <1>5, PostponeStep
<1> QED BY <1>4, <1>5 DEF FailDelayed

LEMMA FailChangedStep ==
  ASSUME IssuanceInv, NEW r \in Requests, FailChanged(r),
         UNCHANGED <<tables, issued, answers, faults>>
  PROVE  IssuanceInv'
<1>1. TypeOK
  BY DEF IssuanceInv
<1>2. claims' \subseteq Claim
  BY <1>1, FailClaimType DEF FailChanged
<1>3. /\ answers' \subseteq Key \X Nat /\ faults' \in Nat
      /\ UNCHANGED <<tables, issued>>
  BY <1>1 DEF TypeOK
<1> QED BY <1>2, <1>3, FinishStep DEF FailChanged

\* A request that moves on and keeps its locals, to a control point at which
\* the invariant asks no more than where it was.
LEMMA OnwardStep ==
  ASSUME IssuanceInv, NEW r \in Requests, NEW label \in ControlPoint,
         Goto(r, label), UNCHANGED req,
         label \in Keyed, pc[r] \in Keyed \cup {"claim"},
         label \in Loaded => pc[r] \in Loaded,
         label \in Numbered => pc[r] \in Numbered,
         UNCHANGED <<tables, issued, answers, faults>>, claims' \subseteq Claim
  PROVE  IssuanceInv'
<1>1. TypeOK /\ Sound(r)
  BY InvByRequest
<1>2. req[r] \in Request /\ Moves(r, req[r], label)
  BY <1>1 DEF TypeOK, Goto, Moves
<1>3. /\ answers' \subseteq Key \X Nat /\ faults' \in Nat
      /\ UNCHANGED <<tables, issued>>
  BY <1>1 DEF TypeOK
<1>4. pc'[r] = label /\ req'[r] = req[r]
  BY <1>1, <1>2, MovesType
<1>5. label # "claim" /\ label # "assign"
  BY DEF Keyed
<1>6. req[r].key \in Key
  BY <1>1 DEF Sound, Key
<1>7. Sound(r)'
  BY <1>1, <1>4, <1>5, <1>6 DEF Sound, NotAhead, tables, issued
<1> QED BY <1>2, <1>3, <1>7, LocalStep

-----------------------------------------------------------------------------
(* The operator's requests.                                                *)

LEMMA AssignReadInv ==
  ASSUME IssuanceInv, NEW r \in Requests, NEW c \in Contracts, AssignRead(r, c)
  PROVE  IssuanceInv'
<1> DEFINE q == [Idle EXCEPT !.kind = "assign", !.target = c]
<1>1. TypeOK
  BY DEF IssuanceInv
<1>2. q \in Request
  BY BlankTypes DEF Request
<1>3. "assign" \in ControlPoint /\ "assign" \notin Keyed
      /\ "assign" \notin Loaded /\ "assign" \notin Numbered
  BY DEF ControlPoint, Keyed, Loaded, Numbered
<1>4. Moves(r, q, "assign")
  BY DEF AssignRead, Goto, Moves
<1>5. pc'[r] = "assign" /\ req'[r] = q
  BY <1>1, <1>2, <1>3, <1>4, MovesType
<1>6. q.target = c
  BY DEF Idle
<1>7. Sound(r)'
  BY <1>3, <1>5, <1>6 DEF Sound
<1>8. /\ UNCHANGED <<tables, issued>> /\ claims' \subseteq Claim
      /\ answers' \subseteq Key \X Nat /\ faults' \in Nat
  BY <1>1 DEF TypeOK, AssignRead
<1> QED BY <1>2, <1>3, <1>4, <1>7, <1>8, LocalStep

\* A request for key k that carries no snapshot yet and looks the key up.
LEMMA LookupStep ==
  ASSUME IssuanceInv, NEW r \in Requests, NEW q \in Request, q.key \in Key,
         Moves(r, q, "lookup"), UNCHANGED <<tables, issued, claims, answers, faults>>
  PROVE  IssuanceInv'
<1>1. TypeOK
  BY DEF IssuanceInv
<1>2. "lookup" \in ControlPoint /\ "lookup" \notin Loaded /\ "lookup" \notin Numbered
  BY DEF ControlPoint, Loaded, Numbered
<1>3. pc'[r] = "lookup" /\ req'[r] = q
  BY <1>1, <1>2, MovesType
<1>4. Sound(r)'
  BY <1>2, <1>3 DEF Sound
<1>5. /\ UNCHANGED <<tables, issued>> /\ claims' \subseteq Claim
      /\ answers' \subseteq Key \X Nat /\ faults' \in Nat
  BY <1>1 DEF TypeOK
<1> QED BY <1>2, <1>4, <1>5, LocalStep

LEMMA SaveReadInv ==
  ASSUME IssuanceInv, NEW r \in Requests, NEW t \in Settings, NEW m \in Settings,
         SaveRead(r, t, m)
  PROVE  IssuanceInv'
<1>1. TypeOK
  BY DEF IssuanceInv
<1> DEFINE same == Adopted /\ policy.terms = t /\ policy.modules = m
           key  == IF same THEN [type |-> "service", rev |-> policy.rev] ELSE NoKey
           read(e) == [ReadState EXCEPT !.latest = e.version, !.policy = policy.rev,
                                        !.terms = t, !.modules = m]
           q(e) == [Idle EXCEPT !.kind = "service", !.key = key, !.snap = read(e)]
<1>2. PICK e \in versions : Moves(r, q(e), IF same THEN "lookup" ELSE "save")
  BY DEF SaveRead, Goto, Moves
<1>3. policy.rev \in Nat /\ e.version \in Nat
  BY <1>1 DEF TypeOK, Version
<1>4. key \in Key \cup {NoKey} /\ (same => key \in Key)
  BY <1>3 DEF Key, ServiceKey
<1>5. read(e) \in Snapshot
  BY <1>1, <1>3, ReadStateType DEF Snapshot
<1>6. q(e) \in Request /\ q(e).key = key
  <2> HIDE DEF key, read
  <2> QED BY <1>4, <1>5, BlankTypes DEF Request, Idle
<1>7. UNCHANGED <<tables, issued, claims, answers, faults>>
  BY DEF SaveRead
<1> HIDE DEF q, key
<1>8. CASE same
  BY <1>2, <1>4, <1>6, <1>7, <1>8, LookupStep
<1>9. CASE ~same
  <2>1. /\ UNCHANGED <<tables, issued>> /\ claims' \subseteq Claim
        /\ answers' \subseteq Key \X Nat /\ faults' \in Nat
    BY <1>1, <1>7 DEF TypeOK
  <2>2. Moves(r, q(e), "save")
    BY <1>2, <1>9
  <2> QED BY <1>6, <2>1, <2>2, FreeStep
<1> QED BY <1>8, <1>9

LEMMA StartManualInv ==
  ASSUME IssuanceInv, NEW r \in Requests, NEW k \in ManualKeys,
         NEW reviewed \in BOOLEAN, StartManual(r, k, reviewed)
  PROVE  IssuanceInv'
<1>1. TypeOK
  BY DEF IssuanceInv
<1> DEFINE key == [type |-> "manual", id |-> k]
           target == IF reviewed THEN schedule.contract ELSE NoContract
           expected == IF reviewed THEN <<ReadState.crev, ReadState.srev>>
                       ELSE NoExpectation
           q == [Idle EXCEPT !.kind = "manual", !.key = key,
                             !.target = target, !.expected = expected]
<1>2. Moves(r, q, "lookup")
  BY DEF StartManual, Goto, Moves
<1>3. key \in Key
  BY DEF Key, ManualKey
<1>4. target \in Contracts \cup {NoContract}
  BY <1>1 DEF TypeOK
<1>5. expected \in Expectation
  BY <1>1, ReadStateType DEF Expectation, Snapshot
<1>6. q \in Request /\ q.key = key
  <2> HIDE DEF key, target, expected
  <2> QED BY <1>3, <1>4, <1>5, BlankTypes DEF Request, Idle
<1>7. UNCHANGED <<tables, issued, claims, answers, faults>>
  BY DEF StartManual
<1> HIDE DEF q, key
<1> QED BY <1>2, <1>3, <1>6, <1>7, LookupStep

LEMMA RenewScanInv ==
  ASSUME IssuanceInv, NEW r \in Requests, RenewScan(r)
  PROVE  IssuanceInv'
<1>1. TypeOK
  BY DEF IssuanceInv
<1> DEFINE label == IF available THEN "renew" ELSE "postpone"
           q == [Idle EXCEPT !.kind = "renewal", !.target = schedule.contract,
                             !.snap = ReadState]
<1>2. Moves(r, q, label)
  BY DEF RenewScan, Goto, Moves
<1>3. q \in Request /\ q.snap = ReadState
  BY <1>1, ReadStateType, BlankTypes DEF Request, Idle, TypeOK
<1>4. /\ UNCHANGED <<tables, issued>> /\ claims' \subseteq Claim
      /\ answers' \subseteq Key \X Nat /\ faults' \in Nat
  BY <1>1 DEF TypeOK, RenewScan
<1>5. CASE available
  <2>1. "renew" \in ControlPoint /\ "renew" \notin Keyed /\ "renew" \notin Numbered
    BY DEF ControlPoint, Keyed, Numbered
  <2>2. pc'[r] = "renew" /\ req'[r] = q
    BY <1>1, <1>2, <1>3, <1>5, <2>1, MovesType
  <2>3. /\ ReadState.contract \in Contracts
        /\ NotAhead(ReadState.contract, ReadState.crev, ReadState.srev,
                    ReadState.policy)
    BY <1>1 DEF RenewScan, Assigned, ReadState, NotAhead, TypeOK
  <2>4. Sound(r)'
    BY <1>3, <1>4, <2>1, <2>2, <2>3 DEF Sound, NotAhead, tables, issued
  <2> QED BY <1>2, <1>3, <1>4, <1>5, <2>1, <2>4, LocalStep
<1>6. CASE ~available
  BY <1>2, <1>3, <1>4, <1>6, FreeStep
<1> QED BY <1>5, <1>6

-----------------------------------------------------------------------------
(* issueEntitlement.                                                       *)

\* The answer a request gets adds one pair to the history.
LEMMA AnswerStep ==
  ASSUME IssuanceInv, NEW r \in Requests, pc[r] \in Keyed,
         NEW e \in versions, Answer(r, e.version),
         UNCHANGED <<tables, issued, claims, faults>>
  PROVE  IssuanceInv'
<1>1. TypeOK /\ Sound(r)
  BY InvByRequest
<1>2. req[r].key \in Key /\ e.version \in Nat
  BY <1>1 DEF Sound, TypeOK, Version
<1>3. answers' \subseteq Key \X Nat
  BY <1>1, <1>2 DEF TypeOK, Answer
<1>4. claims' \subseteq Claim /\ faults' \in Nat /\ UNCHANGED <<tables, issued>>
  BY <1>1 DEF TypeOK
<1> QED BY <1>3, <1>4, FinishStep DEF Answer

LEMMA LookupHitInv ==
  ASSUME IssuanceInv, NEW r \in Requests, LookupHit(r) PROVE IssuanceInv'
<1>1. pc[r] \in Keyed
  BY DEF LookupHit, Running, Keyed
<1>2. PICK e \in versions : Answer(r, e.version)
  BY DEF LookupHit
<1> QED BY <1>1, <1>2, AnswerStep DEF LookupHit

LEMMA RacedHitInv ==
  ASSUME IssuanceInv, NEW r \in Requests, RacedHit(r) PROVE IssuanceInv'
<1>1. pc[r] \in Keyed
  BY DEF RacedHit, Keyed
<1>2. PICK e \in versions : Answer(r, e.version)
  BY DEF RacedHit
<1> QED BY <1>1, <1>2, AnswerStep DEF RacedHit

LEMMA LookupMissInv ==
  ASSUME IssuanceInv, NEW r \in Requests, LookupMiss(r) PROVE IssuanceInv'
<1>1. /\ "load" \in ControlPoint /\ "load" \in Keyed
      /\ "load" \notin Loaded /\ "load" \notin Numbered
  BY DEF ControlPoint, Keyed, Loaded, Numbered
<1>2. pc[r] \in Keyed
  BY DEF LookupMiss, Running, Keyed
<1>3. UNCHANGED <<tables, issued, answers, faults>> /\ claims' \subseteq Claim
  BY DEF LookupMiss, IssuanceInv, TypeOK
<1> QED BY <1>1, <1>2, <1>3, OnwardStep DEF LookupMiss

LEMMA LoadInv ==
  ASSUME IssuanceInv, NEW r \in Requests, Load(r) PROVE IssuanceInv'
<1>1. TypeOK /\ Sound(r)
  BY InvByRequest
<1> DEFINE q == [req[r] EXCEPT !.snap = ReadState]
<1>2. req[r] \in Request /\ ReadState \in Snapshot
  BY <1>1, ReadStateType DEF TypeOK
<1>3. q \in Request /\ q.snap = ReadState /\ q.key = req[r].key
  BY <1>2 DEF Request
<1>4. /\ "allocate" \in ControlPoint /\ "allocate" \notin Numbered
      /\ "allocate" # "claim" /\ "allocate" # "assign" /\ "load" \in Keyed
  BY DEF ControlPoint, Keyed, Numbered
<1>5. Moves(r, q, "allocate")
  BY <1>1 DEF Load, Goto, Moves, TypeOK
<1>6. pc'[r] = "allocate" /\ req'[r] = q
  BY <1>1, <1>3, <1>4, <1>5, MovesType
<1>7. /\ ReadState.contract \in Contracts
      /\ NotAhead(ReadState.contract, ReadState.crev, ReadState.srev,
                  ReadState.policy)
  BY <1>1 DEF Load, Found, Assigned, ReadState, NotAhead, TypeOK
<1>8. req[r].key \in Key
  BY <1>1, <1>4 DEF Sound, Load, Running
<1>9. /\ UNCHANGED <<tables, issued>> /\ claims' \subseteq Claim
      /\ answers' \subseteq Key \X Nat /\ faults' \in Nat
  BY <1>1 DEF TypeOK, Load
<1>10. Sound(r)'
  BY <1>3, <1>4, <1>6, <1>7, <1>8, <1>9 DEF Sound, NotAhead, tables, issued
<1> QED BY <1>3, <1>4, <1>5, <1>9, <1>10, LocalStep

LEMMA LoadRefusedInv ==
  ASSUME IssuanceInv, NEW r \in Requests, LoadRefused(r) PROVE IssuanceInv'
<1>1. TypeOK
  BY DEF IssuanceInv
<1>2. /\ UNCHANGED <<tables, issued, answers, faults>> /\ UNCHANGED <<tables, issued>>
      /\ answers' \subseteq Key \X Nat /\ faults' \in Nat
  BY <1>1 DEF LoadRefused, TypeOK
<1>3. CASE FailDelayed(r)
  BY <1>2, <1>3, FailDelayedStep
<1>4. CASE FailChanged(r)
  BY <1>2, <1>4, FailChangedStep
<1>5. CASE Finish(r) /\ UNCHANGED claims
  BY <1>1, <1>2, <1>5, FinishStep DEF TypeOK
<1>6. CASE /\ Goto(r, "postpone")
           /\ req' = [req EXCEPT ![r].snap = ReadState]
           /\ UNCHANGED claims
  <2> DEFINE q == [req[r] EXCEPT !.snap = ReadState]
  <2>1. req[r] \in Request /\ ReadState \in Snapshot
    BY <1>1, ReadStateType DEF TypeOK
  <2>2. q \in Request
    BY <2>1 DEF Request
  <2>3. Moves(r, q, "postpone")
    BY <1>1, <1>6 DEF Goto, Moves, TypeOK
  <2>4. claims' \subseteq Claim
    BY <1>1, <1>6 DEF TypeOK
  <2> QED BY <1>2, <2>2, <2>3, <2>4, FreeStep
<1> QED BY <1>3, <1>4, <1>5, <1>6 DEF LoadRefused

LEMMA AllocateInv ==
  ASSUME IssuanceInv, NEW r \in Requests, Allocate(r)
  PROVE  IssuanceInv'
<1>0. \A e \in versions : e.version < sequence
  BY InvByRequest DEF StoredSound
<1>1. TypeOK /\ Sound(r)
  BY InvByRequest
<1> DEFINE label == IF req[r].snap.policy # 0 THEN "commit" ELSE "modules"
           q == [req[r] EXCEPT !.version = sequence]
<1>2. /\ {"commit", "modules"} \subseteq Keyed \cap Loaded \cap Numbered \cap ControlPoint
      /\ "allocate" \in Keyed \cap Loaded
      /\ "claim" \notin Keyed /\ "assign" \notin Keyed
  BY DEF ControlPoint, Keyed, Loaded, Numbered
<1>3. req[r] \in Request /\ sequence \in Nat \ {0} /\ label \in ControlPoint
  BY <1>1, <1>2 DEF TypeOK
<1>4. q \in Request /\ q.snap = req[r].snap /\ q.key = req[r].key /\ q.version = sequence
  BY <1>3 DEF Request
<1>5. Moves(r, q, label)
  BY <1>1 DEF Allocate, Allocated, Goto, Moves, TypeOK
<1>6. /\ pc' \in [Requests -> ControlPoint] /\ req' \in [Requests -> Request]
      /\ pc'[r] = label /\ req'[r] = q
      /\ \A p \in Requests \ {r} : pc'[p] = pc[p] /\ req'[p] = req[p]
  BY <1>1, <1>3, <1>4, <1>5, MovesType
<1>7. TypeOK' /\ sequence' = sequence + 1
  BY <1>1, <1>3, <1>6 DEF TypeOK, Allocate, tables, issued
<1>8. Forward
  BY <1>1, <1>3, <1>7 DEF Forward, TypeOK, Allocate, tables
<1>9. sequence \in 1 .. sequence' - 1
  BY <1>3, <1>7
<1>10. \A e \in versions' : ~(sequence < e.version)
  BY <1>0, <1>1, <1>3, <1>8 DEF Forward, TypeOK, Version
<1>11. /\ req[r].key \in Key /\ req[r].snap.contract \in Contracts
       /\ NotAhead(req[r].snap.contract, req[r].snap.crev, req[r].snap.srev,
                   req[r].snap.policy)'
  BY <1>1, <1>2 DEF Sound, Allocate, Running, NotAhead, tables
<1>12. Sound(r)'
  BY <1>2, <1>4, <1>6, <1>9, <1>10, <1>11 DEF Sound
<1> QED BY <1>6, <1>7, <1>8, <1>12, QuietStep

LEMMA AllocateRefusedInv ==
  ASSUME IssuanceInv, NEW r \in Requests, AllocateRefused(r) PROVE IssuanceInv'
BY FailDelayedStep DEF AllocateRefused, IssuanceInv, TypeOK

LEMMA ReadModulesInv ==
  ASSUME IssuanceInv, NEW r \in Requests, ReadModules(r) PROVE IssuanceInv'
<1>1. TypeOK /\ Sound(r)
  BY InvByRequest
<1> DEFINE s == WithModules(req[r].snap)
           q == [req[r] EXCEPT !.snap = s]
<1>2. /\ "commit" \in Keyed \cap Loaded \cap Numbered \cap ControlPoint
      /\ "modules" \in Keyed \cap Loaded \cap Numbered
      /\ "claim" \notin Keyed /\ "assign" \notin Keyed
  BY DEF ControlPoint, Keyed, Loaded, Numbered
<1>3. req[r] \in Request /\ req[r].snap \in Snapshot /\ req[r].snap.contract \in Contracts
  BY <1>1, <1>2 DEF TypeOK, Request, Sound, ReadModules, Running
<1>4. /\ s \in Snapshot /\ s.contract = req[r].snap.contract
      /\ s.crev = req[r].snap.crev /\ s.srev = req[r].snap.srev
      /\ s.policy = req[r].snap.policy
  BY <1>1, <1>3, WithModulesType
<1>5. /\ q \in Request /\ q.snap = s /\ q.key = req[r].key
      /\ q.version = req[r].version
  BY <1>3, <1>4 DEF Request
<1>6. Moves(r, q, "commit")
  BY <1>1 DEF ReadModules, Goto, Moves, TypeOK
<1>7. pc'[r] = "commit" /\ req'[r] = q
  BY <1>1, <1>2, <1>5, <1>6, MovesType
<1>8. /\ UNCHANGED <<tables, issued>> /\ claims' \subseteq Claim
      /\ answers' \subseteq Key \X Nat /\ faults' \in Nat
  BY <1>1 DEF TypeOK, ReadModules
<1> HIDE DEF q, s
<1>9. Sound(r)'
  <2>1. /\ req[r].key \in Key /\ req[r].version \in 1 .. sequence - 1
        /\ req[r].snap.contract \in Contracts
        /\ NotAhead(req[r].snap.contract, req[r].snap.crev, req[r].snap.srev,
                    req[r].snap.policy)
        /\ \A e \in versions : req[r].version < e.version =>
             /\ req[r].snap.srev <= e.srev
             /\ req[r].snap.contract = e.contract => req[r].snap.crev <= e.crev
             /\ req[r].snap.policy <= e.content.policy
    BY <1>1, <1>2 DEF Sound, ReadModules, Running
  <2> QED BY <1>2, <1>4, <1>5, <1>7, <1>8, <2>1 DEF Sound, NotAhead, tables, issued
<1> QED BY <1>2, <1>5, <1>6, <1>8, <1>9, LocalStep

LEMMA CommitAbortedInv ==
  ASSUME IssuanceInv, NEW r \in Requests, CommitAborted(r) PROVE IssuanceInv'
<1>1. PICK label \in {"raced", "denied"} : Goto(r, label)
  BY DEF CommitAborted
<1>2. /\ label \in Keyed \cap Loaded \cap ControlPoint /\ label \notin Numbered
      /\ pc[r] \in Keyed \cap Loaded
  BY <1>1 DEF ControlPoint, Keyed, Loaded, Numbered, CommitAborted, Running
<1>3. claims' \subseteq Claim /\ UNCHANGED <<tables, issued, answers, faults>>
      /\ UNCHANGED req
  BY DEF CommitAborted, IssuanceInv, TypeOK
<1> QED BY <1>1, <1>2, <1>3, OnwardStep

LEMMA RacedMissInv ==
  ASSUME IssuanceInv, NEW r \in Requests, RacedMiss(r) PROVE IssuanceInv'
<1>1. faults' \in Nat
  BY DEF RacedMiss, IssuanceInv, TypeOK
<1> QED BY <1>1, FailChangedStep, FailDelayedStep DEF RacedMiss

LEMMA FaultInv ==
  ASSUME IssuanceInv, NEW r \in Requests, Fault(r) PROVE IssuanceInv'
<1>1. faults' \in Nat
  BY DEF Fault, IssuanceInv, TypeOK
<1> QED BY <1>1, FailDelayedStep DEF Fault

LEMMA EvictInv ==
  ASSUME IssuanceInv, NEW r \in Requests, Evict(r) PROVE IssuanceInv'
<1>1. /\ faults' \in Nat /\ claims' \subseteq Claim /\ answers' \subseteq Key \X Nat
      /\ UNCHANGED <<tables, issued>>
  BY DEF Evict, IssuanceInv, TypeOK
<1> QED BY <1>1, FinishStep DEF Evict

-----------------------------------------------------------------------------
(* The scheduled run.                                                      *)

LEMMA RenewDecideInv ==
  ASSUME IssuanceInv, NEW r \in Requests, RenewDecide(r) PROVE IssuanceInv'
<1>1. TypeOK /\ Sound(r) /\ LatestIsHighest
  BY InvByRequest DEF StoredSound
<1>2. /\ UNCHANGED <<tables, issued>> /\ claims' \subseteq Claim
      /\ answers' \subseteq Key \X Nat /\ faults' \in Nat
  BY <1>1 DEF TypeOK, RenewDecide
<1> DEFINE s == WithModules(req[r].snap)
           key == RenewalKey(s)
           expected == <<s.crev, s.srev>>
           q == [req[r] EXCEPT !.key = key, !.expected = expected]
<1>3. CASE Goto(r, "postpone") /\ UNCHANGED req
  BY <1>2, <1>3, PostponeStep
<1>4. CASE Goto(r, "claim") /\ req' = [req EXCEPT ![r].key = RenewalKey(s),
                                                  ![r].expected = <<s.crev, s.srev>>]
  <2>1. /\ "renew" \in Loaded /\ "claim" \in ControlPoint /\ "claim" # "assign"
        /\ "claim" \notin Keyed /\ "claim" \notin Loaded /\ "claim" \notin Numbered
    BY DEF ControlPoint, Keyed, Loaded, Numbered
  <2>2. req[r] \in Request /\ req[r].snap \in Snapshot /\ req[r].snap.contract \in Contracts
    BY <1>1, <2>1 DEF TypeOK, Request, Sound, RenewDecide, Running
  <2>3. s \in Snapshot
    BY <1>1, <2>2, WithModulesType
  <2>4. key \in AutoKey
    BY <1>1, <2>3, RenewalKeyType
  <2>5. expected \in Expectation
    BY <2>3 DEF Expectation, Snapshot
  <2>6. Moves(r, q, "claim")
    BY <1>1, <1>4 DEF Goto, Moves, TypeOK
  <2> HIDE DEF key, expected
  <2>7. q \in Request /\ q.key = key
    BY <2>2, <2>4, <2>5 DEF Request, Key
  <2>8. pc'[r] = "claim" /\ req'[r] = q
    BY <1>1, <2>1, <2>6, <2>7, MovesType
  <2>9. Sound(r)'
    BY <2>1, <2>4, <2>7, <2>8 DEF Sound
  <2> QED BY <1>2, <2>1, <2>6, <2>7, <2>9, LocalStep
<1> QED BY <1>3, <1>4 DEF RenewDecide

LEMMA ClaimRenewalInv ==
  ASSUME IssuanceInv, NEW r \in Requests, ClaimRenewal(r) PROVE IssuanceInv'
<1>1. TypeOK /\ Sound(r)
  BY InvByRequest
<1>2. /\ "lookup" \in Keyed \cap ControlPoint
      /\ "lookup" \notin Loaded /\ "lookup" \notin Numbered
  BY DEF ControlPoint, Keyed, Loaded, Numbered
<1>3. req[r].key \in AutoKey
  BY <1>1 DEF Sound, ClaimRenewal, Running
<1>4. [key |-> req[r].key, owner |-> r, state |-> "claimed", lapsed |-> FALSE,
       version |-> 0] \in Claim
  BY <1>3 DEF Claim
<1>5. claims' \subseteq Claim
  BY <1>1, <1>4 DEF ClaimRenewal, TypeOK
<1> QED BY <1>2, <1>5, OnwardStep DEF ClaimRenewal, Running

LEMMA ClaimBlockedInv ==
  ASSUME IssuanceInv, NEW r \in Requests, ClaimBlocked(r) PROVE IssuanceInv'
<1>1. /\ claims' \subseteq Claim /\ answers' \subseteq Key \X Nat /\ faults' \in Nat
      /\ UNCHANGED <<tables, issued>>
  BY DEF ClaimBlocked, IssuanceInv, TypeOK
<1> QED BY <1>1, FinishStep, PostponeStep DEF ClaimBlocked

-----------------------------------------------------------------------------
(* Steps that write the tables a version is signed from.                   *)

\* Such a step of request r leaves it at a control point the invariant says
\* nothing of, or with a key to look up.
LEMMA TableStep ==
  ASSUME IssuanceInv, NEW r \in Requests, NEW q \in Request,
         NEW label \in {"idle", "postpone", "lookup"}, Moves(r, q, label),
         label = "lookup" => q.key \in Key,
         UNCHANGED <<contract, available, issued, claims, answers, faults>>,
         schedule' \in [contract: Contracts \cup {NoContract}, srev: Nat,
                        due: BOOLEAN, latest: Nat],
         policy' \in [rev: Nat, terms: Settings, modules: Settings],
         schedule.srev <= schedule'.srev, schedule'.latest = schedule.latest,
         policy.rev <= policy'.rev
  PROVE  IssuanceInv'
<1>1. TypeOK
  BY DEF IssuanceInv
<1>2. /\ label \in ControlPoint /\ label \notin Loaded /\ label \notin Numbered
      /\ label # "claim" /\ label # "assign"
      /\ label \in Keyed => label = "lookup"
  BY DEF ControlPoint, Keyed, Loaded, Numbered
<1>3. /\ pc' \in [Requests -> ControlPoint] /\ req' \in [Requests -> Request]
      /\ pc'[r] = label /\ req'[r] = q
      /\ \A p \in Requests \ {r} : pc'[p] = pc[p] /\ req'[p] = req[p]
  BY <1>1, <1>2, MovesType
<1>4. TypeOK'
  BY <1>1, <1>3 DEF TypeOK, issued
<1>5. Forward
  BY <1>1 DEF Forward, TypeOK, issued
<1>6. Sound(r)'
  BY <1>2, <1>3 DEF Sound
<1> QED BY <1>3, <1>4, <1>5, <1>6, QuietStep

\* A schedule row that may follow the present one.
Follows(x) ==
  /\ x \in [contract: Contracts \cup {NoContract}, srev: Nat,
            due: BOOLEAN, latest: Nat]
  /\ schedule.srev <= x.srev /\ x.latest = schedule.latest

LEMMA ScheduleForward ==
  ASSUME TypeOK, NEW c \in Contracts \cup {NoContract}, NEW d \in BOOLEAN
  PROVE  /\ Follows(schedule)
         /\ Follows([schedule EXCEPT !.due = d])
         /\ Follows([schedule EXCEPT !.srev = @ + 1, !.due = d])
         /\ Follows([schedule EXCEPT !.contract = c, !.srev = @ + 1, !.due = d])
<1>1. /\ schedule \in [contract: Contracts \cup {NoContract}, srev: Nat,
                       due: BOOLEAN, latest: Nat]
      /\ schedule.srev \in Nat /\ schedule.srev <= schedule.srev + 1
      /\ schedule.srev + 1 \in Nat
  BY DEF TypeOK
<1> DEFINE n == schedule.srev + 1
<1>2. n \in Nat /\ schedule.srev <= n
  BY <1>1
<1> HIDE DEF n
<1>3. Follows(schedule) /\ Follows([schedule EXCEPT !.due = d])
  BY <1>1 DEF Follows
<1>4. Follows([schedule EXCEPT !.srev = n, !.due = d])
  BY <1>1, <1>2 DEF Follows
<1>5. Follows([schedule EXCEPT !.contract = c, !.srev = n, !.due = d])
  BY <1>1, <1>2 DEF Follows
<1> QED BY <1>3, <1>4, <1>5 DEF n

LEMMA AssignCommitInv ==
  ASSUME IssuanceInv, NEW r \in Requests, AssignCommit(r) PROVE IssuanceInv'
<1>1. TypeOK /\ Sound(r)
  BY InvByRequest
<1>2. req[r].target \in Contracts
  BY <1>1 DEF Sound, AssignCommit, Running
<1>3. /\ schedule' \in [contract: Contracts \cup {NoContract}, srev: Nat,
                        due: BOOLEAN, latest: Nat]
      /\ schedule.srev <= schedule'.srev /\ schedule'.latest = schedule.latest
  <2>1. Follows(schedule')
    <3>1. CASE Adopted
      BY <1>1, <3>1, ScheduleForward DEF AssignCommit, TypeOK
    <3>2. CASE ~Adopted
      BY <1>1, <1>2, <3>2, ScheduleForward DEF AssignCommit
    <3> QED BY <3>1, <3>2
  <2> QED BY <2>1 DEF Follows
<1>4. policy' = policy /\ policy.rev \in Nat
  BY <1>1 DEF AssignCommit, TypeOK
<1>5. Moves(r, Idle, "idle")
  BY DEF AssignCommit, Finish, Goto, Moves
<1>6. UNCHANGED <<contract, available, issued, claims, answers, faults>>
  BY DEF AssignCommit
<1>7. policy' \in [rev: Nat, terms: Settings, modules: Settings] /\ policy.rev <= policy'.rev
  BY <1>1, <1>4 DEF TypeOK
<1> QED BY <1>3, <1>5, <1>6, <1>7, BlankTypes, TableStep

LEMMA SaveCommitInv ==
  ASSUME IssuanceInv, NEW r \in Requests, SaveCommit(r) PROVE IssuanceInv'
<1>1. TypeOK
  BY DEF IssuanceInv
<1> DEFINE key == [type |-> "service", rev |-> policy.rev + 1]
           q == [req[r] EXCEPT !.key = key, !.snap = NoSnapshot]
<1>2. /\ req[r] \in Request /\ req[r].snap.terms \in Settings
      /\ req[r].snap.modules \in Settings
  BY <1>1 DEF TypeOK, Request, Snapshot
<1>3. key \in Key
  BY <1>1 DEF TypeOK, Key, ServiceKey
<1>4. Moves(r, q, "lookup")
  BY <1>1 DEF SaveCommit, Goto, Moves, TypeOK
<1> HIDE DEF key
<1>5. q \in Request /\ q.key = key
  BY <1>2, <1>3, BlankTypes DEF Request
<1>6. /\ schedule' \in [contract: Contracts \cup {NoContract}, srev: Nat,
                        due: BOOLEAN, latest: Nat]
      /\ schedule.srev <= schedule'.srev /\ schedule'.latest = schedule.latest
  <2>1. Follows(schedule')
    BY <1>1, ScheduleForward DEF SaveCommit, TypeOK
  <2> QED BY <2>1 DEF Follows
<1>7. /\ policy' \in [rev: Nat, terms: Settings, modules: Settings]
      /\ policy.rev <= policy'.rev
  BY <1>1, <1>2 DEF SaveCommit, TypeOK
<1>8. UNCHANGED <<contract, available, issued, claims, answers, faults>>
  BY DEF SaveCommit
<1> QED BY <1>3, <1>4, <1>5, <1>6, <1>7, <1>8, TableStep

LEMMA SaveRefusedInv ==
  ASSUME IssuanceInv, NEW r \in Requests, SaveRefused(r) PROVE IssuanceInv'
<1>1. /\ claims' \subseteq Claim /\ answers' \subseteq Key \X Nat /\ faults' \in Nat
      /\ UNCHANGED <<tables, issued>>
  BY DEF SaveRefused, IssuanceInv, TypeOK
<1> QED BY <1>1, FinishStep DEF SaveRefused

LEMMA PostponeInv ==
  ASSUME IssuanceInv, NEW r \in Requests, Postpone(r) PROVE IssuanceInv'
<1>1. TypeOK
  BY DEF IssuanceInv
<1>2. /\ schedule' \in [contract: Contracts \cup {NoContract}, srev: Nat,
                        due: BOOLEAN, latest: Nat]
      /\ schedule.srev <= schedule'.srev /\ schedule'.latest = schedule.latest
  <2>1. schedule' = schedule \/ schedule' = [schedule EXCEPT !.due = FALSE]
    BY DEF Postpone
  <2>2. Follows(schedule')
    BY <1>1, <2>1, ScheduleForward DEF TypeOK
  <2> QED BY <2>2 DEF Follows
<1>3. policy' \in [rev: Nat, terms: Settings, modules: Settings] /\ policy.rev <= policy'.rev
  BY <1>1 DEF Postpone, TypeOK
<1>4. Moves(r, Idle, "idle")
  BY DEF Postpone, Finish, Goto, Moves
<1>5. UNCHANGED <<contract, available, issued, claims, answers, faults>>
  BY DEF Postpone
<1> QED BY <1>2, <1>3, <1>4, <1>5, BlankTypes, TableStep

\* Changes that move no request.
LEMMA OutsideStep ==
  ASSUME IssuanceInv, UNCHANGED <<pc, req>>, TypeOK', Forward
  PROVE  IssuanceInv'
BY QuietStep

LEMMA OperatorInv == ASSUME IssuanceInv, Operator PROVE IssuanceInv'
<1>1. TypeOK
  BY DEF IssuanceInv
<1>2. ASSUME NEW c \in Contracts, NEW t \in Settings, UpdateControls(c, t)
      PROVE  IssuanceInv'
  <2>1. Follows(schedule')
    <3>1. \/ schedule' = schedule
          \/ schedule' = [schedule EXCEPT !.srev = @ + 1, !.due = TRUE]
      BY <1>2 DEF UpdateControls
    <3> QED BY <1>1, <3>1, ScheduleForward DEF TypeOK
  <2>2. /\ contract' \in [Contracts -> [rev: Nat, terms: Settings, modules: Settings]]
        /\ \A d \in Contracts : contract[d].rev <= contract'[d].rev
    <3> DEFINE k == [contract EXCEPT ![c].rev = @ + 1]
    <3>1. /\ k \in [Contracts -> [rev: Nat, terms: Settings, modules: Settings]]
          /\ \A d \in Contracts : contract[d].rev <= k[d].rev
      BY <1>1 DEF TypeOK
    <3>2. contract' = [k EXCEPT ![c].terms = t]
      BY <1>2 DEF UpdateControls
    <3> HIDE DEF k
    <3> QED BY <3>1, <3>2
  <2>3. UNCHANGED <<available, policy, issued, claims, pc, req, answers, faults>>
    BY <1>2 DEF UpdateControls
  <2>4. TypeOK'
    BY <1>1, <2>1, <2>2, <2>3 DEF TypeOK, issued, Follows
  <2>5. Forward
    BY <1>1, <2>1, <2>2, <2>3 DEF Forward, TypeOK, issued, Follows
  <2> QED BY <2>3, <2>4, <2>5, OutsideStep
<1>3. ASSUME NEW c \in Contracts, NEW t \in Settings, NEW m \in Settings,
             UpdateContract(c, t, m)
      PROVE  IssuanceInv'
  <2>1. TypeOK'
    BY <1>1, <1>3 DEF TypeOK, UpdateContract, issued
  <2>2. Forward
    BY <1>1, <1>3 DEF Forward, TypeOK, UpdateContract, issued
  <2> QED BY <1>3, <2>1, <2>2, OutsideStep DEF UpdateContract
<1>4. ASSUME SetDeploymentStatus PROVE IssuanceInv'
  <2>1. TypeOK'
    BY <1>1, <1>4 DEF TypeOK, SetDeploymentStatus, issued
  <2>2. Forward
    BY <1>1, <1>4 DEF Forward, TypeOK, SetDeploymentStatus, issued
  <2> QED BY <1>4, <2>1, <2>2, OutsideStep DEF SetDeploymentStatus
<1> QED BY <1>2, <1>3, <1>4 DEF Operator

LEMMA TimeInv == ASSUME IssuanceInv, Time PROVE IssuanceInv'
<1>1. TypeOK
  BY DEF IssuanceInv
<1>2. ASSUME CheckComesDue PROVE IssuanceInv'
  <2>1. TypeOK'
    BY <1>1, <1>2 DEF TypeOK, CheckComesDue, issued
  <2>2. Forward
    BY <1>1, <1>2 DEF Forward, TypeOK, CheckComesDue, issued
  <2> QED BY <1>2, <2>1, <2>2, OutsideStep DEF CheckComesDue
<1>3. ASSUME LeaseAges PROVE IssuanceInv'
  <2>1. TypeOK'
    BY <1>1, <1>3 DEF TypeOK, LeaseAges, tables
  <2>2. Forward
    BY <1>1, <1>3 DEF Forward, TypeOK, LeaseAges, tables
  <2> QED BY <1>3, <2>1, <2>2, OutsideStep DEF LeaseAges
<1>4. ASSUME NEW c \in claims, ClaimLapses(c) PROVE IssuanceInv'
  <2>1. [c EXCEPT !.lapsed = TRUE] \in Claim
    BY <1>1 DEF TypeOK, Claim
  <2>2. claims' \subseteq Claim /\ faults' \in Nat
    <3>1. claims' = (claims \ {c}) \cup {[c EXCEPT !.lapsed = TRUE]}
      BY <1>4 DEF ClaimLapses
    <3>2. faults' = faults \/ faults' = faults + 1
      BY <1>4 DEF ClaimLapses
    <3>3. claims' \subseteq Claim
      BY <1>1, <2>1, <3>1 DEF TypeOK
    <3>4. faults' \in Nat
      BY <1>1, <3>2 DEF TypeOK
    <3> QED BY <3>3, <3>4
  <2>3. UNCHANGED <<tables, issued, pc, req, answers>>
    BY <1>4 DEF ClaimLapses
  <2>4. TypeOK'
    BY <1>1, <2>2, <2>3 DEF TypeOK, tables, issued
  <2>5. Forward
    BY <1>1, <1>4 DEF Forward, TypeOK, ClaimLapses, tables, issued
  <2> QED BY <2>3, <2>4, <2>5, OutsideStep
<1> QED BY <1>2, <1>3, <1>4 DEF Time

-----------------------------------------------------------------------------
(* Commit.  Its guard makes the new version carry the present revisions, and *)
(* nothing stored or read is ahead of those: so whatever is numbered below it *)
(* is no newer, and NumberedInOrder says the same of what is numbered above. *)

LEMMA NewVersionFacts ==
  ASSUME IssuanceInv, NEW r \in Requests, Commit(r)
  PROVE  /\ NewVersion(r) \in Version
         /\ NewVersion(r).version = req[r].version
         /\ NewVersion(r).srev = schedule.srev
         /\ NewVersion(r).crev = contract[NewVersion(r).contract].rev
         /\ NewVersion(r).content.policy = policy.rev
         /\ NewVersion(r).contract = req[r].snap.contract
<1>1. TypeOK /\ Sound(r)
  BY InvByRequest
<1>2. /\ "commit" \in Keyed \cap Loaded \cap Numbered
      /\ pc[r] = "commit"
  BY DEF Keyed, Loaded, Numbered, Commit, Running
<1>3. /\ req[r].key \in Key /\ req[r].version \in 1 .. sequence - 1
      /\ req[r].snap.contract \in Contracts /\ sequence \in Nat
  BY <1>1, <1>2 DEF Sound, TypeOK
<1>4. req[r].snap \in Snapshot
  BY <1>1 DEF TypeOK, Request
<1>5. /\ schedule.srev = req[r].snap.srev
      /\ contract[req[r].snap.contract].rev = req[r].snap.crev
  BY DEF Commit, StateUnmoved
<1>6. policy.rev = req[r].snap.policy
  <2>1. CASE Adopted
    BY <2>1 DEF Commit, StateUnmoved
  <2>2. CASE ~Adopted
    <3>1. req[r].snap.policy \in Nat /\ req[r].snap.policy <= policy.rev
      BY <1>1, <1>2, <1>4 DEF Sound, NotAhead, Snapshot
    <3> QED BY <2>2, <3>1 DEF Adopted
  <2> QED BY <2>1, <2>2
<1>7. req[r].version \in Nat \ {0}
  BY <1>3
<1>8. Desired(req[r].snap) \in Content /\ Desired(req[r].snap).policy = req[r].snap.policy
  BY <1>4, DesiredType DEF Desired
<1>9. NewVersion(r) \in Version
  BY <1>3, <1>4, <1>7, <1>8 DEF NewVersion, Version, Snapshot
<1> QED BY <1>5, <1>6, <1>8, <1>9 DEF NewVersion

LEMMA CommitType ==
  ASSUME IssuanceInv, NEW r \in Requests, Commit(r)
  PROVE  /\ TypeOK'
         /\ pc'[r] = "idle"
         /\ \A p \in Requests \ {r} : pc'[p] = pc[p] /\ req'[p] = req[p]
         /\ schedule'.srev = schedule.srev
         /\ schedule'.latest = LatestAfter(req[r].version)
<1>1. TypeOK /\ Sound(r)
  BY InvByRequest
<1>2. NewVersion(r) \in Version /\ req[r].version \in Nat \ {0}
  BY NewVersionFacts DEF Version
<1>3. versions' \subseteq Version
  BY <1>1, <1>2 DEF TypeOK, Commit
<1>4. claims' \subseteq Claim
  <2>1. \A c \in HeldClaims(r) :
          [c EXCEPT !.state = "issued", !.version = req[r].version] \in Claim
    <3>1. ASSUME NEW c \in Claim
          PROVE  [c EXCEPT !.state = "issued", !.version = req[r].version] \in Claim
      BY <1>2 DEF Claim
    <3> QED BY <1>1, <3>1 DEF HeldClaims, TypeOK
  <2>2. claims \subseteq Claim
    BY <1>1 DEF TypeOK
  <2> QED BY <2>1, <2>2 DEF Commit
<1>5. /\ schedule' \in [contract: Contracts \cup {NoContract}, srev: Nat,
                        due: BOOLEAN, latest: Nat]
      /\ schedule'.srev = schedule.srev
      /\ schedule'.latest = LatestAfter(req[r].version)
  <2>1. LatestAfter(req[r].version) \in Nat
    BY <1>1, <1>2 DEF LatestAfter, TypeOK
  <2>2. schedule' = [schedule EXCEPT !.latest = LatestAfter(req[r].version),
                                     !.due = FALSE]
    BY DEF Commit
  <2> QED BY <1>1, <2>1, <2>2 DEF TypeOK
<1>6. nearExpiry' \in BOOLEAN
  BY DEF Commit
<1>7. Moves(r, Idle, "idle")
  BY DEF Commit, Answer, Finish, Goto, Moves
<1>8. /\ pc' \in [Requests -> ControlPoint] /\ req' \in [Requests -> Request]
      /\ pc'[r] = "idle"
      /\ \A p \in Requests \ {r} : pc'[p] = pc[p] /\ req'[p] = req[p]
  BY <1>1, <1>7, BlankTypes, FreePoints, MovesType
<1>9. answers' \subseteq (Key \X Nat)
  <2>1. req[r].key \in Key
    BY <1>1 DEF Sound, Commit, Running, Keyed
  <2>2. answers' = answers \cup {<<req[r].key, req[r].version>>}
    BY DEF Commit, Answer
  <2>3. req[r].version \in Nat /\ answers \subseteq (Key \X Nat)
    BY <1>1, <1>2 DEF TypeOK
  <2> QED BY <2>1, <2>2, <2>3
<1>10. UNCHANGED <<contract, available, policy, sequence, faults>>
  BY DEF Commit
<1>11. TypeOK'
  BY <1>1, <1>3, <1>4, <1>5, <1>6, <1>8, <1>9, <1>10 DEF TypeOK
<1> QED BY <1>5, <1>8, <1>11

LEMMA CommitInv ==
  ASSUME IssuanceInv, NEW r \in Requests, Commit(r) PROVE IssuanceInv'
<1>0. PICK v : v = NewVersion(r)
  OBVIOUS
<1>1. TypeOK /\ (\A p \in Requests : Sound(p)) /\ StoredSound
  BY InvByRequest
<1>2. /\ v \in Version /\ v.version = req[r].version /\ v.srev = schedule.srev
      /\ v.crev = contract[v.contract].rev /\ v.content.policy = policy.rev
      /\ v.contract = req[r].snap.contract
  BY <1>0, NewVersionFacts
<1>3. /\ TypeOK' /\ pc'[r] = "idle"
      /\ \A p \in Requests \ {r} : pc'[p] = pc[p] /\ req'[p] = req[p]
      /\ schedule'.srev = schedule.srev
      /\ schedule'.latest = LatestAfter(req[r].version)
  BY CommitType
<1>4. versions' = versions \cup {v} /\ UNCHANGED <<contract, policy, sequence>>
  BY <1>0 DEF Commit
<1>5. /\ v.version \in Nat \ {0} /\ sequence \in Nat /\ schedule.latest \in Nat
      /\ schedule.srev \in Nat /\ policy.rev \in Nat
      /\ \A c \in Contracts : contract[c].rev \in Nat
      /\ v.contract \in Contracts
  BY <1>1, <1>2 DEF TypeOK, Version
<1>6. ASSUME NEW e \in versions
      PROVE  /\ e.version \in Nat /\ e.srev \in Nat /\ e.crev \in Nat
             /\ e.content.policy \in Nat /\ e.contract \in Contracts
  BY <1>1 DEF TypeOK, Version, Content
<1>7. /\ v.version < sequence
      /\ \A e \in versions : v.version < e.version =>
           /\ v.srev <= e.srev
           /\ v.contract = e.contract => v.crev <= e.crev
           /\ v.content.policy <= e.content.policy
  <2>1. /\ pc[r] = "commit" /\ "commit" \in Numbered
        /\ req[r].version \in 1 .. sequence - 1
        /\ \A e \in versions : req[r].version < e.version =>
             /\ req[r].snap.srev <= e.srev
             /\ req[r].snap.contract = e.contract => req[r].snap.crev <= e.crev
             /\ req[r].snap.policy <= e.content.policy
    BY <1>1 DEF Sound, Commit, Running, Numbered
  <2>2. v.srev = req[r].snap.srev /\ v.crev = req[r].snap.crev
        /\ v.content.policy = req[r].snap.policy
    BY <1>0 DEF NewVersion, Desired
  <2>3. v.version < sequence
    BY <1>2, <1>5, <2>1
  <2> QED BY <1>2, <2>1, <2>2, <2>3
<1>8. ASSUME NEW e \in versions
      PROVE  /\ e.srev <= v.srev
             /\ e.contract = v.contract => e.crev <= v.crev
             /\ e.content.policy <= v.content.policy
  BY <1>1, <1>2, <1>8 DEF StoredSound, NotAhead
<1>9. VersionOrder'
  <2>1. ASSUME NEW e \in versions', NEW f \in versions', e.version < f.version
        PROVE  /\ e.srev <= f.srev
               /\ e.contract = f.contract => e.crev <= f.crev
               /\ e.content.policy <= f.content.policy
    <3>1. CASE e \in versions /\ f \in versions
      BY <1>1, <2>1, <3>1 DEF StoredSound, VersionOrder
    <3>2. CASE e \in versions /\ f = v
      BY <1>8, <3>2
    <3>3. CASE e = v /\ f \in versions
      BY <1>7, <2>1, <3>3
    <3>4. CASE e = v /\ f = v
      BY <1>5, <2>1, <3>4
    <3> QED BY <1>4, <3>1, <3>2, <3>3, <3>4
  <2> QED BY <2>1 DEF VersionOrder
<1>10. LatestIsHighest'
  <2>1. LatestIsHighest
    BY <1>1 DEF StoredSound
  <2>2. CASE schedule.latest < v.version
    BY <1>2, <1>3, <1>4, <1>5, <1>6, <2>1, <2>2 DEF LatestIsHighest, LatestAfter
  <2>3. CASE ~(schedule.latest < v.version)
    <3>1. schedule'.latest = schedule.latest
      BY <1>2, <1>3, <2>3 DEF LatestAfter
    <3>2. PICK e \in versions : e.version = schedule.latest
      BY <1>5, <2>1, <2>3 DEF LatestIsHighest
    <3> QED BY <1>4, <1>5, <2>1, <2>3, <3>1, <3>2 DEF LatestIsHighest
  <2> QED BY <2>2, <2>3
<1>11. \A e \in versions' : NotAhead(e.contract, e.crev, e.srev, e.content.policy)'
  <2>1. NotAhead(v.contract, v.crev, v.srev, v.content.policy)'
    BY <1>2, <1>3, <1>4, <1>5 DEF NotAhead
  <2>2. ASSUME NEW e \in versions
        PROVE  NotAhead(e.contract, e.crev, e.srev, e.content.policy)'
    BY <1>1, <1>3, <1>4 DEF StoredSound, NotAhead
  <2> QED BY <1>4, <2>1, <2>2
<1>12. \A e \in versions' : e.version < sequence'
  BY <1>1, <1>4, <1>7 DEF StoredSound
<1>13. ASSUME NEW p \in Requests PROVE Sound(p)'
  <2>1. CASE p = r
    BY <1>3, <2>1, FreePoints DEF Sound
  <2>2. CASE p # r
    <3>1. Sound(p) /\ pc'[p] = pc[p] /\ req'[p] = req[p]
      BY <1>1, <1>3, <2>2
    <3>2. /\ req[p].snap \in Snapshot /\ req[p].snap.srev \in Nat
          /\ req[p].snap.crev \in Nat /\ req[p].snap.policy \in Nat
      BY <1>1 DEF TypeOK, Request, Snapshot
    <3>3. pc[p] \in Loaded =>
            NotAhead(req[p].snap.contract, req[p].snap.crev, req[p].snap.srev,
                     req[p].snap.policy)'
      BY <1>3, <1>4, <3>1 DEF Sound, NotAhead
    <3>4. pc[p] \in Numbered =>
            /\ req[p].snap.srev <= v.srev
            /\ req[p].snap.contract = v.contract => req[p].snap.crev <= v.crev
            /\ req[p].snap.policy <= v.content.policy
      <4>1. pc[p] \in Numbered => pc[p] \in Loaded
        BY DEF Numbered, Loaded
      <4> QED BY <1>2, <3>1, <4>1 DEF Sound, NotAhead
    <3> QED BY <1>4, <3>1, <3>3, <3>4 DEF Sound
  <2> QED BY <2>1, <2>2
<1>14. StoredSound'
  BY <1>9, <1>10, <1>11, <1>12 DEF StoredSound
<1> QED BY <1>3, <1>13, <1>14, InvByRequestPrime

-----------------------------------------------------------------------------
(* The theorems.                                                           *)

LEMMA InitInv == Init => IssuanceInv
<1> SUFFICES ASSUME Init PROVE IssuanceInv
  OBVIOUS
<1>1. TypeOK
  <2>1. AnySetting \in Settings /\ Idle \in Request /\ "idle" \in ControlPoint
    BY BlankTypes, FreePoints
  <2>2. contract \in [Contracts -> [rev: Nat, terms: Settings, modules: Settings]]
    BY <2>1 DEF Init
  <2>3. /\ schedule \in [contract: Contracts \cup {NoContract}, srev: Nat,
                          due: BOOLEAN, latest: Nat]
        /\ policy \in [rev: Nat, terms: Settings, modules: Settings]
    BY <2>1 DEF Init
  <2>4. pc \in [Requests -> ControlPoint] /\ req \in [Requests -> Request]
    BY <2>1 DEF Init
  <2>5. /\ available \in BOOLEAN /\ nearExpiry \in BOOLEAN /\ sequence \in Nat \ {0}
        /\ versions \subseteq Version /\ claims \subseteq Claim /\ faults \in Nat
        /\ answers \subseteq (Key \X Nat)
    <3>1. 0 \in Nat /\ 1 \in Nat \ {0}
      OBVIOUS
    <3>2. /\ available = TRUE /\ nearExpiry = FALSE /\ sequence = 1 /\ versions = {}
          /\ claims = {} /\ faults = 0 /\ answers = {}
      BY DEF Init
    <3> QED BY <3>1, <3>2, Zenon
  <2> QED BY <2>2, <2>3, <2>4, <2>5 DEF TypeOK
<1>2. \A r \in Requests : Sound(r)
  BY FreePoints DEF Init, Sound
<1>3. StoredSound
  BY DEF Init, StoredSound, LatestIsHighest, VersionOrder
<1> QED BY <1>1, <1>2, <1>3, InvByRequest

LEMMA NextInv == IssuanceInv /\ [Next]_vars => IssuanceInv'
<1> SUFFICES ASSUME IssuanceInv, [Next]_vars PROVE IssuanceInv'
  OBVIOUS
<1>1. CASE Operator
  BY <1>1, OperatorInv
<1>2. CASE Time
  BY <1>2, TimeInv
<1>3. ASSUME NEW r \in Requests, Arrive(r) PROVE IssuanceInv'
  BY <1>3, AssignReadInv, SaveReadInv, StartManualInv, RenewScanInv DEF Arrive
<1>4. ASSUME NEW r \in Requests, Issue(r) PROVE IssuanceInv'
  BY <1>4, LookupHitInv, LookupMissInv, LoadInv, LoadRefusedInv, AllocateInv,
     AllocateRefusedInv, ReadModulesInv, CommitInv, CommitAbortedInv,
     RacedHitInv, RacedMissInv DEF Issue
<1>5. ASSUME NEW r \in Requests, Continue(r) PROVE IssuanceInv'
  BY <1>4, <1>5, RenewDecideInv, ClaimRenewalInv, ClaimBlockedInv, PostponeInv,
     AssignCommitInv, SaveCommitInv, SaveRefusedInv DEF Continue, Renewal
<1>6. ASSUME NEW r \in Requests, Fault(r) \/ Evict(r) PROVE IssuanceInv'
  BY <1>6, FaultInv, EvictInv
<1>7. CASE UNCHANGED vars
  BY <1>7 DEF IssuanceInv, TypeOK, LocalsOK, LatestIsHighest, NothingAhead,
     NotAhead, NumberedInOrder, VersionOrder, vars, tables, issued
<1> QED BY <1>1, <1>2, <1>3, <1>5, <1>6, <1>7 DEF Next

\* However requests, faults and time interleave, the inductive invariant holds.
THEOREM IssuanceSafe == Spec => []IssuanceInv
<1> QED BY InitInv, NextInv, PTL DEF Spec

\* Every variable keeps its type.
THEOREM TypeCorrect == Spec => []TypeOK
<1>1. IssuanceInv => TypeOK
  BY DEF IssuanceInv
<1> QED BY <1>1, IssuanceSafe, PTL

\* A version with a higher number never carries older revisions, for any number
\* of concurrent requests (entitlement_versions_state_guard).
THEOREM VersionsInOrder == Spec => []VersionOrder
<1>1. IssuanceInv => VersionOrder
  BY DEF IssuanceInv
<1> QED BY <1>1, IssuanceSafe, PTL

\* schedules.latest_version is the highest stored version.
THEOREM LatestCorrect == Spec => []LatestIsHighest
<1>1. IssuanceInv => LatestIsHighest
  BY DEF IssuanceInv
<1> QED BY <1>1, IssuanceSafe, PTL

\* The newest version is the latest one and carries no older revisions than any
\* before it, however issuers, savers and renewals interleave.
THEOREM LatestNewest == Spec => []LatestIsNewest
<1>1. IssuanceInv => LatestIsNewest
  BY DEF IssuanceInv, LatestIsNewest
<1> QED BY <1>1, IssuanceSafe, PTL

-----------------------------------------------------------------------------
(* One key, one version.  A claim marked issued stays as it is and a version *)
(* is stored only under a new key, so IssuesOnce needs one thing more: keys  *)
(* of stored versions differ.                                              *)

KeysUnique == \A e, f \in versions : e.key = f.key => e = f

OnceInv == KeysUnique /\ IssuesOnce

-----------------------------------------------------------------------------
(* What a version says.  SigningInv relates what requests have read to what *)
(* stands in the tables, and is relative to IssuanceInv.                    *)

\* A manual version was stored for these revisions of the contract.
Reviewed(c, crev, srev) ==
  \E f \in versions :
    f.key.type = "manual" /\ f.contract = c /\ f.crev = crev /\ f.srev = srev

Asking  == {"claim", "lookup", "load"}
Signing == {"allocate", "modules", "commit"}

\* Why the request may sign: a saved policy, or an operator's own version for the
\* revisions it expects (asking) or has read (signing).
Entitled(r) ==
  /\ pc[r] = "renew" => req[r].target = req[r].snap.contract
  /\ pc[r] \in Asking /\ req[r].key.type = "service" => policy.rev # 0
  /\ pc[r] \in Asking /\ req[r].key.type = "auto" =>
       /\ req[r].target \in Contracts
       /\ req[r].expected # NoExpectation
       /\ policy.rev = 0 =>
            Reviewed(req[r].target, req[r].expected[1], req[r].expected[2])
  /\ pc[r] \in Signing /\ req[r].key.type = "service" => req[r].snap.policy # 0
  /\ pc[r] \in Signing /\ req[r].key.type = "auto" /\ req[r].snap.policy = 0 =>
       \E f \in versions :
         /\ f.key.type = "manual" /\ f.contract = req[r].snap.contract
         /\ f.crev = req[r].snap.crev /\ f.srev = req[r].snap.srev
         /\ pc[r] \in Numbered => f.version < req[r].version

\* Content read under revisions that still stand is the content that stands.
ContentStands(c, crev, srev, p, t, ms, whole) ==
  /\ srev = schedule.srev => c = schedule.contract
  /\ p = policy.rev /\ p # 0 => t = policy.terms /\ ms = policy.modules
  /\ p = 0 /\ crev = contract[c].rev =>
       t = contract[c].terms /\ (whole => ms = contract[c].modules)

ReadStands(r) ==
  pc[r] \in Signing =>
    ContentStands(req[r].snap.contract, req[r].snap.crev, req[r].snap.srev,
                  req[r].snap.policy, req[r].snap.terms, req[r].snap.modules,
                  pc[r] = "commit")

\* A number handed out is nobody else's.
NumberOwn(r) ==
  pc[r] \in Numbered =>
    /\ \A e \in versions : e.version # req[r].version
    /\ \A p \in Requests : p # r /\ pc[p] \in Numbered =>
         req[p].version # req[r].version

Signable(r) == Entitled(r) /\ ReadStands(r) /\ NumberOwn(r)

VersionStands(e) ==
  /\ e.key.type = "service" => e.content.policy # 0
  /\ ContentStands(e.contract, e.crev, e.srev, e.content.policy,
                   e.content.terms, e.content.modules, TRUE)

SigningInv ==
  /\ AutoFollowsReview
  /\ \A r \in Requests : Signable(r)
  /\ \A e \in versions : VersionStands(e)

-----------------------------------------------------------------------------
(* OnceInv is inductive.                                                   *)

\* A step that stores no version and leaves the issued claims alone.
Kept ==
  /\ versions' = versions
  /\ \A c \in claims : c.state = "issued" => c \in claims'
  /\ \A c \in claims' : c.state = "issued" => c \in claims

LEMMA KeptOnce ==
  ASSUME OnceInv, Kept,
         \/ answers' = answers
         \/ \E e \in versions : answers' = answers \cup {<<e.key, e.version>>}
  PROVE  OnceInv'
<1>1. KeysUnique' /\ IssuedClaimBacked'
  BY DEF OnceInv, IssuesOnce, KeysUnique, IssuedClaimBacked, Kept
<1>2. AnswersAgree'
  <2>1. ASSUME NEW a \in answers'
        PROVE  \E e \in versions' : e.key = a[1] /\ e.version = a[2]
    BY DEF OnceInv, IssuesOnce, AnswersAgree, Kept
  <2> QED BY <1>1, <2>1 DEF KeysUnique, AnswersAgree
<1> QED BY <1>1, <1>2 DEF OnceInv, IssuesOnce

\* A claim a request still holds is not marked issued, nor is one that failed.
LEMMA FailClaimKept ==
  ASSUME NEW r \in Requests, NEW b \in BOOLEAN, FailClaim(r, b), versions' = versions,
         TypeOK
  PROVE  Kept
<1>1. \A c \in HeldClaims(r) :
        c.state = "claimed" /\ [c EXCEPT !.state = "failed", !.lapsed = b].state = "failed"
  BY DEF HeldClaims, TypeOK, Claim
<1> QED BY <1>1 DEF FailClaim, Kept

LEMMA CommitOnce ==
  ASSUME IssuanceInv, OnceInv, NEW r \in Requests, Commit(r)
  PROVE  OnceInv'
<1>1. /\ NewVersion(r).key = req[r].key /\ NewVersion(r).version = req[r].version
      /\ TypeOK
  BY DEF NewVersion, IssuanceInv
<1> DEFINE issue(c) == [c EXCEPT !.state = "issued", !.version = req[r].version]
<1>2. \A c \in HeldClaims(r) :
        /\ c \in claims /\ c.state = "claimed" /\ c.key = req[r].key
        /\ issue(c).state = "issued" /\ issue(c).key = req[r].key
        /\ issue(c).version = req[r].version
  BY <1>1 DEF HeldClaims, TypeOK, Claim
<1>3. /\ claims' = (claims \ HeldClaims(r)) \cup {issue(c) : c \in HeldClaims(r)}
      /\ answers' = answers \cup {<<req[r].key, req[r].version>>}
      /\ KeyIsNew(r) /\ StateUnmoved(r)
  BY DEF Commit, Answer
<1> HIDE DEF issue
<1>4. PICK v : v = NewVersion(r)
  OBVIOUS
<1>5. versions' = versions \cup {v} /\ v.key = req[r].key /\ v.version = req[r].version
  BY <1>1, <1>4 DEF Commit
<1>6. KeysUnique'
  BY <1>3, <1>5 DEF OnceInv, KeysUnique, KeyIsNew
<1>7. IssuedClaimBacked'
  <2>1. ASSUME NEW c \in claims', c.state = "issued"
        PROVE  \E e \in versions' : e.key = c.key /\ e.version = c.version
    <3>1. CASE c \in claims
      BY <1>5, <2>1, <3>1 DEF OnceInv, IssuesOnce, IssuedClaimBacked
    <3>2. CASE \E h \in HeldClaims(r) : c = issue(h)
      BY <1>2, <1>5, <3>2
    <3> QED BY <1>3, <3>1, <3>2
  <2>2. ASSUME NEW e \in versions', e.key.type = "auto"
        PROVE  \E c \in claims' : c.key = e.key /\ c.state = "issued" /\ c.version = e.version
    <3>1. CASE e \in versions
      <4>1. PICK c \in claims : c.key = e.key /\ c.state = "issued" /\ c.version = e.version
        BY <2>2, <3>1 DEF OnceInv, IssuesOnce, IssuedClaimBacked
      <4>2. c \notin HeldClaims(r)
        BY <1>2, <4>1
      <4> QED BY <1>3, <4>1, <4>2
    <3>2. CASE e = v
      <4>1. HeldClaims(r) # {}
        BY <1>3, <1>5, <2>2, <3>2 DEF StateUnmoved
      <4> QED BY <1>2, <1>3, <1>5, <3>2, <4>1
    <3> QED BY <1>5, <3>1, <3>2
  <2> QED BY <2>1, <2>2 DEF IssuedClaimBacked
<1>8. AnswersAgree'
  <2>1. ASSUME NEW a \in answers'
        PROVE  \E e \in versions' : e.key = a[1] /\ e.version = a[2]
    <3>1. CASE a \in answers
      BY <1>5, <3>1 DEF OnceInv, IssuesOnce, AnswersAgree
    <3>2. CASE a = <<req[r].key, req[r].version>>
      BY <1>5, <3>2
    <3> QED BY <1>3, <3>1, <3>2
  <2> QED BY <1>6, <2>1 DEF KeysUnique, AnswersAgree
<1> QED BY <1>6, <1>7, <1>8 DEF OnceInv, IssuesOnce

\* Only a claim that is not issued may be taken over.
LEMMA ClaimRenewalOnce ==
  ASSUME OnceInv, NEW r \in Requests, ClaimRenewal(r) PROVE OnceInv'
<1> DEFINE new == [key |-> req[r].key, owner |-> r, state |-> "claimed",
                   lapsed |-> FALSE, version |-> 0]
<1>1. new.state = "claimed"
  OBVIOUS
<1>2. /\ claims' = {c \in claims : c.key # req[r].key} \cup {new}
      /\ \A c \in claims : c.key = req[r].key => c.state # "issued"
      /\ versions' = versions /\ answers' = answers
  BY DEF ClaimRenewal, Claimable, issued
<1> HIDE DEF new
<1>3. Kept
  BY <1>1, <1>2 DEF Kept
<1> QED BY <1>2, <1>3, KeptOnce

LEMMA ClaimLapsesOnce ==
  ASSUME TypeOK, OnceInv, NEW c \in claims, ClaimLapses(c) PROVE OnceInv'
<1>1. [c EXCEPT !.lapsed = TRUE].state = c.state
  BY DEF TypeOK, Claim
<1>2. Kept /\ answers' = answers
  BY <1>1 DEF ClaimLapses, Kept, issued
<1> QED BY <1>2, KeptOnce

LEMMA NextOnce == IssuanceInv /\ OnceInv /\ [Next]_vars => OnceInv'
<1> SUFFICES ASSUME IssuanceInv, OnceInv, [Next]_vars PROVE OnceInv'
  OBVIOUS
<1>1. TypeOK
  BY DEF IssuanceInv
<1>2. ASSUME UNCHANGED <<versions, claims, answers>> PROVE OnceInv'
  <2>1. Kept
    BY <1>2 DEF Kept
  <2> QED BY <1>2, <2>1, KeptOnce
<1>3. CASE Operator
  <2>1. UNCHANGED <<versions, claims, answers>>
    BY <1>3 DEF Operator, UpdateControls, UpdateContract, SetDeploymentStatus, issued
  <2> QED BY <1>2, <2>1
<1>4. CASE Time
  <2>1. CASE CheckComesDue \/ LeaseAges
    BY <1>2, <2>1 DEF CheckComesDue, LeaseAges, issued
  <2> QED BY <1>1, <1>4, <2>1, ClaimLapsesOnce DEF Time
<1>5. ASSUME NEW r \in Requests, Arrive(r) PROVE OnceInv'
  <2>1. UNCHANGED <<versions, claims, answers>>
    BY <1>5 DEF Arrive, AssignRead, SaveRead, StartManual, RenewScan, issued
  <2> QED BY <1>2, <2>1
<1>6. ASSUME NEW r \in Requests,
             \/ LookupMiss(r) \/ Load(r) \/ Allocate(r) \/ ReadModules(r)
             \/ CommitAborted(r) \/ RenewDecide(r) \/ ClaimBlocked(r) \/ Postpone(r)
             \/ AssignCommit(r) \/ SaveCommit(r) \/ SaveRefused(r) \/ Evict(r)
      PROVE  OnceInv'
  <2>1. UNCHANGED <<versions, claims, answers>>
    BY <1>6 DEF LookupMiss, Load, Allocate, ReadModules, CommitAborted, RenewDecide,
       ClaimBlocked, Postpone, AssignCommit, SaveCommit, SaveRefused, Evict, issued
  <2> QED BY <1>2, <2>1
<1>7. ASSUME NEW r \in Requests, LookupHit(r) \/ RacedHit(r) PROVE OnceInv'
  <2>1. PICK e \in versions : answers' = answers \cup {<<e.key, e.version>>}
    BY <1>7 DEF LookupHit, RacedHit, Answer
  <2>2. Kept
    BY <1>7 DEF LookupHit, RacedHit, Kept, issued
  <2> QED BY <2>1, <2>2, KeptOnce
<1>8. ASSUME NEW r \in Requests, FailChanged(r) \/ FailDelayed(r),
             UNCHANGED <<versions, answers>>
      PROVE  OnceInv'
  <2>1. Kept
    BY <1>1, <1>8, FailClaimKept DEF FailChanged, FailDelayed
  <2> QED BY <1>8, <2>1, KeptOnce
<1>9. ASSUME NEW r \in Requests, LoadRefused(r) PROVE OnceInv'
  BY <1>2, <1>8, <1>9 DEF LoadRefused, issued
<1>10. ASSUME NEW r \in Requests, AllocateRefused(r) \/ RacedMiss(r) \/ Fault(r)
       PROVE  OnceInv'
  BY <1>8, <1>10 DEF AllocateRefused, RacedMiss, Fault, issued
<1>11. CASE UNCHANGED vars
  BY <1>2, <1>11 DEF vars, issued
<1> QED BY <1>3, <1>4, <1>5, <1>6, <1>7, <1>9, <1>10, <1>11, CommitOnce, ClaimRenewalOnce
       DEF Next, Continue, Issue, Renewal

LEMMA InitOnce == Init => OnceInv
BY DEF Init, OnceInv, KeysUnique, IssuesOnce, AnswersAgree, IssuedClaimBacked

\* One issuance key stands for one version, however often it is posted, retried,
\* claimed, taken over or abandoned.
THEOREM KeyAnsweredOnce == Spec => []IssuesOnce
<1>1. Spec => []OnceInv
  BY InitOnce, NextOnce, IssuanceSafe, PTL DEF Spec
<1>2. OnceInv => IssuesOnce
  BY DEF OnceInv
<1> QED BY <1>1, <1>2, PTL

-----------------------------------------------------------------------------
(* SigningInv is inductive.                                                *)

\* A step that stores no version: revisions only grow, and what a revision stands
\* for changes only with it.
Ahead ==
  /\ versions' = versions
  /\ \A c \in Contracts :
       /\ contract[c].rev <= contract'[c].rev
       /\ contract'[c].rev = contract[c].rev => contract'[c] = contract[c]
  /\ policy.rev <= policy'.rev
  /\ policy'.rev = policy.rev => policy' = policy
  /\ schedule.srev <= schedule'.srev
  /\ schedule'.srev = schedule.srev => schedule'.contract = schedule.contract

LEMMA AheadStands ==
  ASSUME TypeOK, TypeOK', Ahead, NEW c \in Contracts, NEW crev \in Nat, NEW srev \in Nat,
         NEW p \in Nat, NEW t, NEW ms, NEW whole \in BOOLEAN,
         NotAhead(c, crev, srev, p), ContentStands(c, crev, srev, p, t, ms, whole)
  PROVE  ContentStands(c, crev, srev, p, t, ms, whole)'
<1>1. /\ schedule.srev \in Nat /\ schedule'.srev \in Nat
      /\ contract[c].rev \in Nat /\ contract'[c].rev \in Nat
      /\ policy.rev \in Nat /\ policy'.rev \in Nat
  BY DEF TypeOK
<1>2. srev = schedule'.srev => srev = schedule.srev /\ schedule'.contract = schedule.contract
  BY <1>1 DEF Ahead, NotAhead
<1>3. p = policy'.rev => p = policy.rev /\ policy' = policy
  BY <1>1 DEF Ahead, NotAhead
<1>4. crev = contract'[c].rev => crev = contract[c].rev /\ contract'[c] = contract[c]
  BY <1>1 DEF Ahead, NotAhead
<1> QED BY <1>2, <1>3, <1>4 DEF ContentStands

\* What the invariants say of the locals of a request that has read the tables.
LEMMA SnapTypes ==
  ASSUME IssuanceInv, NEW r \in Requests
  PROVE  /\ req[r] \in Request /\ req[r].snap \in Snapshot /\ pc[r] \in ControlPoint
         /\ req[r].snap.crev \in Nat /\ req[r].snap.srev \in Nat
         /\ req[r].snap.policy \in Nat /\ req[r].version \in Nat
         /\ pc[r] \in Loaded =>
              /\ req[r].snap.contract \in Contracts
              /\ NotAhead(req[r].snap.contract, req[r].snap.crev, req[r].snap.srev,
                          req[r].snap.policy)
<1>1. TypeOK /\ Sound(r)
  BY InvByRequest
<1> QED BY <1>1 DEF TypeOK, Request, Snapshot, Sound

LEMMA VersionTypes ==
  ASSUME IssuanceInv, NEW e \in versions
  PROVE  /\ e \in Version /\ e.version \in Nat /\ e.version < sequence
         /\ e.contract \in Contracts /\ e.crev \in Nat /\ e.srev \in Nat
         /\ e.content.policy \in Nat
         /\ NotAhead(e.contract, e.crev, e.srev, e.content.policy)
<1>1. TypeOK /\ StoredSound
  BY InvByRequest
<1> QED BY <1>1 DEF TypeOK, Version, Content, StoredSound

\* Every step but Commit: whatever request it moves is left able to sign only
\* what stands.
LEMMA SigningStep ==
  ASSUME IssuanceInv, TypeOK', SigningInv, Ahead,
         \A r \in Requests :
           \/ pc'[r] = pc[r] /\ req'[r] = req[r]
           \/ Signable(r)'
  PROVE  SigningInv'
<1>1. TypeOK
  BY DEF IssuanceInv
<1>2. AutoFollowsReview'
  BY DEF SigningInv, AutoFollowsReview, Ahead
<1>3. ASSUME NEW e \in versions' PROVE VersionStands(e)'
  <2>1. e \in versions
    BY DEF Ahead
  <2>2. VersionStands(e)
    BY <2>1 DEF SigningInv
  <2>3. /\ e.contract \in Contracts /\ e.crev \in Nat /\ e.srev \in Nat
        /\ e.content.policy \in Nat
        /\ NotAhead(e.contract, e.crev, e.srev, e.content.policy)
    BY <2>1, VersionTypes
  <2>4. ContentStands(e.contract, e.crev, e.srev, e.content.policy,
                      e.content.terms, e.content.modules, TRUE)
    BY <2>2 DEF VersionStands
  <2>5. ContentStands(e.contract, e.crev, e.srev, e.content.policy,
                      e.content.terms, e.content.modules, TRUE)'
    BY <1>1, <2>3, <2>4, AheadStands
  <2> QED BY <2>2, <2>5 DEF VersionStands
<1>4. ASSUME NEW r \in Requests, pc'[r] = pc[r], req'[r] = req[r]
      PROVE  Signable(r)'
  <2>1. Signable(r)
    BY DEF SigningInv
  <2>2. /\ req[r].snap.crev \in Nat /\ req[r].snap.srev \in Nat
        /\ req[r].snap.policy \in Nat
        /\ pc[r] \in Loaded =>
              /\ req[r].snap.contract \in Contracts
              /\ NotAhead(req[r].snap.contract, req[r].snap.crev, req[r].snap.srev,
                          req[r].snap.policy)
    BY SnapTypes
  <2>3. Entitled(r)'
    <3>1. policy.rev # 0 => policy'.rev # 0
      BY <1>1 DEF TypeOK, Ahead
    <3> QED BY <1>4, <2>1, <3>1 DEF Signable, Entitled, Reviewed, Ahead
  <2>4. ReadStands(r)'
    <3>1. ReadStands(r)
      BY <2>1 DEF Signable
    <3>2. ASSUME pc[r] \in Signing
          PROVE  ContentStands(req[r].snap.contract, req[r].snap.crev, req[r].snap.srev,
                     req[r].snap.policy, req[r].snap.terms, req[r].snap.modules,
                     pc[r] = "commit")'
      <4>1. pc[r] \in Loaded
        BY <3>2 DEF Loaded, Signing
      <4>2. PICK whole \in BOOLEAN : whole = (pc[r] = "commit")
        OBVIOUS
      <4>3. ContentStands(req[r].snap.contract, req[r].snap.crev, req[r].snap.srev,
                          req[r].snap.policy, req[r].snap.terms, req[r].snap.modules,
                          whole)
        BY <3>1, <3>2, <4>2 DEF ReadStands
      <4>4. ContentStands(req[r].snap.contract, req[r].snap.crev, req[r].snap.srev,
                          req[r].snap.policy, req[r].snap.terms, req[r].snap.modules,
                          whole)'
        <5>1. PICK s : s = req[r].snap
          OBVIOUS
        <5>2. ContentStands(s.contract, s.crev, s.srev, s.policy, s.terms, s.modules,
                            whole)'
          BY <1>1, <2>2, <4>1, <4>3, <5>1, AheadStands
        <5> QED BY <1>4, <5>1, <5>2
      <4> QED BY <1>4, <4>2, <4>4
    <3> QED BY <1>4, <3>2 DEF ReadStands
  <2>5. NumberOwn(r)'
    <3>1. NumberOwn(r)
      BY <2>1 DEF Signable
    <3>2. ASSUME pc'[r] \in Numbered, NEW p \in Requests, p # r, pc'[p] \in Numbered
          PROVE  req'[p].version # req'[r].version
      <4>1. CASE pc'[p] = pc[p] /\ req'[p] = req[p]
        BY <1>4, <3>1, <3>2, <4>1 DEF NumberOwn
      <4>2. CASE Signable(p)'
        BY <3>2, <4>2 DEF Signable, NumberOwn
      <4> QED BY <4>1, <4>2
    <3> QED BY <1>4, <3>1, <3>2 DEF NumberOwn, Ahead
  <2> QED BY <2>3, <2>4, <2>5 DEF Signable
<1>5. \A r \in Requests : Signable(r)'
  BY <1>4
<1> QED BY <1>2, <1>3, <1>5 DEF SigningInv

\* Points at which nothing is asked of a request.
Parked == {"idle", "postpone", "save", "assign", "raced", "denied"}

LEMMA ParkedSignable ==
  ASSUME NEW r \in Requests, pc'[r] \in Parked PROVE Signable(r)'
BY DEF Signable, Entitled, ReadStands, NumberOwn, Parked, Asking, Signing, Numbered

\* Steps of one request that write no table.
LEMMA TablesStand ==
  ASSUME TypeOK, UNCHANGED <<tables, versions>> PROVE Ahead
BY DEF Ahead, tables, TypeOK

LEMMA ParkedStep ==
  ASSUME IssuanceInv, IssuanceInv', SigningInv, Ahead, NEW r \in Requests,
         NEW label \in Parked, Goto(r, label),
         req' = req \/ \E q : req' = [req EXCEPT ![r] = q]
  PROVE  SigningInv'
<1>1. TypeOK /\ TypeOK'
  BY DEF IssuanceInv
<1>2. pc'[r] = label /\ \A p \in Requests \ {r} : pc'[p] = pc[p] /\ req'[p] = req[p]
  BY <1>1 DEF Goto, TypeOK
<1>3. Signable(r)'
  BY <1>2, ParkedSignable
<1> QED BY <1>1, <1>2, <1>3, SigningStep

\* The endings of a request, whether it was answered or failed.
LEMMA EndingSigning ==
  ASSUME IssuanceInv, IssuanceInv', SigningInv, UNCHANGED <<tables, versions>>,
         NEW r \in Requests,
         \/ Finish(r)
         \/ Goto(r, "postpone") /\ UNCHANGED req
         \/ Goto(r, "raced") /\ UNCHANGED req
         \/ Goto(r, "denied") /\ UNCHANGED req
         \/ \E q : Moves(r, q, "postpone") \/ Moves(r, q, "save") \/ Moves(r, q, "assign")
  PROVE  SigningInv'
<1>1. Ahead
  BY TablesStand DEF IssuanceInv
<1>2. {"idle", "postpone", "raced", "denied", "save", "assign"} \subseteq Parked
  BY DEF Parked
<1>3. CASE Finish(r)
  BY <1>1, <1>2, <1>3, ParkedStep DEF Finish
<1>4. CASE Goto(r, "postpone") /\ UNCHANGED req
  BY <1>1, <1>2, <1>4, ParkedStep
<1>5. CASE Goto(r, "raced") /\ UNCHANGED req
  BY <1>1, <1>2, <1>5, ParkedStep
<1>6. CASE Goto(r, "denied") /\ UNCHANGED req
  BY <1>1, <1>2, <1>6, ParkedStep
<1>7. ASSUME NEW q, NEW label \in Parked, Moves(r, q, label) PROVE SigningInv'
  BY <1>1, <1>7, ParkedStep DEF Moves, Goto
<1> QED BY <1>2, <1>3, <1>4, <1>5, <1>6, <1>7

\* Request r moves on to label with locals q and is able to sign there.
LEMMA MovedSigning ==
  ASSUME IssuanceInv, IssuanceInv', SigningInv, Ahead, NEW r \in Requests,
         NEW q \in Request, NEW label \in ControlPoint, Moves(r, q, label),
         Signable(r)'
  PROVE  SigningInv'
<1>1. TypeOK /\ TypeOK'
  BY DEF IssuanceInv
<1>2. \A p \in Requests \ {r} : pc'[p] = pc[p] /\ req'[p] = req[p]
  BY <1>1, MovesType
<1> QED BY <1>1, <1>2, SigningStep

\* A request that is about to look its key up needs a reason only for a key that
\* is no operator's.
LEMMA AskingSigning ==
  ASSUME IssuanceInv, IssuanceInv', SigningInv, Ahead, NEW r \in Requests,
         pc'[r] \in {"claim", "lookup", "load"},
         \A p \in Requests \ {r} : pc'[p] = pc[p] /\ req'[p] = req[p],
         req'[r].key.type = "service" => policy'.rev # 0,
         req'[r].key.type = "auto" =>
           /\ req'[r].target \in Contracts
           /\ req'[r].expected # NoExpectation
           /\ policy'.rev = 0 =>
                Reviewed(req'[r].target, req'[r].expected[1], req'[r].expected[2])
  PROVE  SigningInv'
<1>1. TypeOK /\ TypeOK'
  BY DEF IssuanceInv
<1>2. pc'[r] \notin Signing /\ pc'[r] # "renew" /\ pc'[r] \notin Numbered
  BY DEF Signing, Numbered
<1>3. Entitled(r)'
  BY <1>2 DEF Entitled, Reviewed, Ahead
<1>4. Signable(r)'
  BY <1>2, <1>3 DEF Signable, ReadStands, NumberOwn
<1> QED BY <1>1, <1>4, SigningStep

\* From one asking point to the next, with the same locals.
LEMMA StillAskingSigning ==
  ASSUME IssuanceInv, IssuanceInv', SigningInv, NEW r \in Requests,
         pc[r] \in Asking, NEW label \in Asking, Goto(r, label),
         UNCHANGED <<req, tables, versions>>
  PROVE  SigningInv'
<1>1. TypeOK /\ Ahead
  BY TablesStand DEF IssuanceInv
<1>2. pc'[r] = label /\ \A p \in Requests \ {r} : pc'[p] = pc[p] /\ req'[p] = req[p]
  BY <1>1 DEF Goto, TypeOK
<1>3. Entitled(r)
  BY DEF SigningInv, Signable
<1> QED BY <1>1, <1>2, <1>3, AskingSigning DEF Entitled, Asking, tables

LEMMA SaveReadSigning ==
  ASSUME IssuanceInv, IssuanceInv', SigningInv, NEW r \in Requests,
         NEW t \in Settings, NEW m \in Settings, SaveRead(r, t, m)
  PROVE  SigningInv'
<1>1. TypeOK
  BY DEF IssuanceInv
<1>2. UNCHANGED <<tables, versions>>
  BY DEF SaveRead, issued
<1> DEFINE same == Adopted /\ policy.terms = t /\ policy.modules = m
           key  == IF same THEN [type |-> "service", rev |-> policy.rev] ELSE NoKey
           read(e) == [ReadState EXCEPT !.latest = e.version, !.policy = policy.rev,
                                        !.terms = t, !.modules = m]
           q(e) == [Idle EXCEPT !.kind = "service", !.key = key, !.snap = read(e)]
<1>3. PICK e \in versions : Moves(r, q(e), IF same THEN "lookup" ELSE "save")
  BY DEF SaveRead, Goto, Moves
<1>4. q(e).key = key
  <2> HIDE DEF key, read
  <2> QED BY DEF Idle
<1>5. same => key.type = "service" /\ policy.rev # 0
  BY DEF Adopted
<1> HIDE DEF q, key
<1>6. CASE same
  <2>1. /\ pc'[r] = "lookup" /\ req'[r] = q(e)
        /\ \A p \in Requests \ {r} : pc'[p] = pc[p] /\ req'[p] = req[p]
    BY <1>1, <1>3, <1>6 DEF TypeOK, Moves
  <2>2. Ahead /\ policy' = policy
    BY <1>1, <1>2, TablesStand DEF tables
  <2> QED BY <1>4, <1>5, <1>6, <2>1, <2>2, AskingSigning
<1>7. CASE ~same
  <2>1. Moves(r, q(e), "save")
    BY <1>3, <1>7
  <2> QED BY <1>2, <2>1, EndingSigning
<1> QED BY <1>6, <1>7

LEMMA StartManualSigning ==
  ASSUME IssuanceInv, IssuanceInv', SigningInv, NEW r \in Requests, NEW k \in ManualKeys,
         NEW reviewed \in BOOLEAN, StartManual(r, k, reviewed)
  PROVE  SigningInv'
<1>1. TypeOK /\ UNCHANGED <<tables, versions>>
  BY DEF IssuanceInv, StartManual, issued
<1>2. /\ pc'[r] = "lookup" /\ req'[r].key.type = "manual"
      /\ \A p \in Requests \ {r} : pc'[p] = pc[p] /\ req'[p] = req[p]
  BY <1>1 DEF TypeOK, StartManual, Goto, Idle
<1>3. Ahead
  BY <1>1, TablesStand
<1> QED BY <1>2, <1>3, AskingSigning

LEMMA RenewScanSigning ==
  ASSUME IssuanceInv, IssuanceInv', SigningInv, NEW r \in Requests, RenewScan(r)
  PROVE  SigningInv'
<1>1. TypeOK /\ UNCHANGED <<tables, versions>>
  BY DEF IssuanceInv, RenewScan, issued
<1> DEFINE q == [Idle EXCEPT !.kind = "renewal", !.target = schedule.contract,
                             !.snap = ReadState]
           label == IF available THEN "renew" ELSE "postpone"
<1>2. Moves(r, q, label)
  BY DEF RenewScan, Goto, Moves
<1>3. CASE ~available
  BY <1>1, <1>2, <1>3, EndingSigning
<1>4. CASE available
  <2>1. /\ q.target = schedule.contract /\ q.snap = ReadState
        /\ ReadState.contract = schedule.contract /\ ReadState.policy = policy.rev
        /\ ReadState.srev = schedule.srev
    BY DEF RenewScan, ReadState, Idle
  <2>2. ReadState \in Snapshot /\ schedule.contract \in Contracts
    BY <1>1, ReadStateType DEF RenewScan, Assigned, TypeOK
  <2>3. q \in Request
    BY <2>2, BlankTypes DEF Request
  <2>4. "renew" \in ControlPoint /\ Moves(r, q, "renew") /\ label = "renew"
    BY <1>2, <1>4 DEF ControlPoint
  <2> HIDE DEF q, label
  <2>5. pc'[r] = "renew" /\ req'[r] = q
    BY <1>1, <2>3, <2>4, MovesType
  <2>6. "renew" \notin Asking /\ "renew" \notin Signing /\ "renew" \notin Numbered
    BY DEF Asking, Signing, Numbered
  <2>7. Signable(r)'
    BY <2>1, <2>5, <2>6 DEF Signable, Entitled, ReadStands, NumberOwn
  <2>8. Ahead
    BY <1>1, TablesStand
  <2> QED BY <2>3, <2>4, <2>7, <2>8, MovedSigning
<1> QED BY <1>3, <1>4

\* The state a request reads is what stands.
LEMMA LoadSigning ==
  ASSUME IssuanceInv, IssuanceInv', SigningInv, NEW r \in Requests, Load(r)
  PROVE  SigningInv'
<1>1. TypeOK /\ UNCHANGED <<tables, versions>>
  BY DEF IssuanceInv, Load, issued
<1> DEFINE q == [req[r] EXCEPT !.snap = ReadState]
<1>2. /\ ReadState.contract = schedule.contract /\ ReadState.policy = policy.rev
      /\ ReadState.srev = schedule.srev /\ schedule.contract \in Contracts
      /\ ReadState.crev = contract[schedule.contract].rev
      /\ policy.rev # 0 => ReadState.terms = policy.terms /\ ReadState.modules = policy.modules
      /\ policy.rev = 0 => ReadState.terms = contract[schedule.contract].terms
  BY <1>1 DEF Load, Found, Assigned, Adopted, ReadState, TypeOK
<1>3. ReadState \in Snapshot /\ req[r] \in Request
  BY <1>1, ReadStateType DEF TypeOK
<1>4. /\ q \in Request /\ q.snap = ReadState /\ q.key = req[r].key
      /\ q.target = req[r].target /\ q.expected = req[r].expected
  BY <1>3 DEF Request
<1>5. "allocate" \in ControlPoint /\ Moves(r, q, "allocate")
  BY <1>1 DEF ControlPoint, Load, Goto, Moves, TypeOK
<1> HIDE DEF q
<1>6. pc'[r] = "allocate" /\ req'[r] = q
  BY <1>1, <1>4, <1>5, MovesType
<1>7. /\ "allocate" \notin Asking /\ "allocate" \in Signing /\ "allocate" \notin Numbered
      /\ "load" \in Asking
  BY DEF Asking, Signing, Numbered
<1>8. Entitled(r) /\ pc[r] = "load"
  BY DEF SigningInv, Signable, Load, Running
<1>9. Entitled(r)'
  <2>1. req[r].key.type = "service" => ReadState.policy # 0
    BY <1>2, <1>7, <1>8 DEF Entitled
  <2>2. ASSUME req[r].key.type = "auto", policy.rev = 0
        PROVE  \E f \in versions :
                 /\ f.key.type = "manual" /\ f.contract = schedule.contract
                 /\ f.crev = ReadState.crev /\ f.srev = ReadState.srev
    <3>1. /\ req[r].target = schedule.contract
          /\ req[r].expected = <<ReadState.crev, ReadState.srev>>
      BY <1>7, <1>8, <2>2, ConstantsAssumption DEF Entitled, Load, Found, AsExpected
    <3> QED BY <1>7, <1>8, <2>2, <3>1 DEF Entitled, Reviewed
  <2> QED BY <1>1, <1>2, <1>4, <1>6, <1>7, <2>1, <2>2 DEF Entitled, tables
<1>10. ReadStands(r)'
  BY <1>1, <1>2, <1>4, <1>6, <1>7 DEF ReadStands, ContentStands, tables
<1>11. Signable(r)'
  BY <1>6, <1>7, <1>9, <1>10 DEF Signable, NumberOwn
<1>12. Ahead
  BY <1>1, TablesStand
<1> QED BY <1>4, <1>5, <1>11, <1>12, MovedSigning

LEMMA AllocateSigning ==
  ASSUME IssuanceInv, IssuanceInv', SigningInv, NEW r \in Requests, Allocate(r)
  PROVE  SigningInv'
<1>1. TypeOK /\ UNCHANGED <<tables, versions>>
  BY DEF IssuanceInv, Allocate
<1> DEFINE label == IF req[r].snap.policy # 0 THEN "commit" ELSE "modules"
           q == [req[r] EXCEPT !.version = sequence]
<1>2. /\ label \in ControlPoint /\ label \in Signing /\ label \in Numbered
      /\ label \notin Asking /\ label # "renew"
      /\ "allocate" \in Signing
  BY DEF ControlPoint, Signing, Numbered, Asking
<1>3. req[r] \in Request /\ sequence \in Nat
  BY <1>1 DEF TypeOK
<1>4. /\ q \in Request /\ q.snap = req[r].snap /\ q.key = req[r].key
      /\ q.version = sequence
  BY <1>3 DEF Request
<1>5. Moves(r, q, label)
  BY <1>1 DEF Allocate, Allocated, Goto, Moves, TypeOK
<1>6. label = "commit" => req[r].snap.policy # 0
  OBVIOUS
<1> HIDE DEF q, label
<1>7. /\ pc'[r] = label /\ req'[r] = q
      /\ \A p \in Requests \ {r} : pc'[p] = pc[p] /\ req'[p] = req[p]
  BY <1>1, <1>2, <1>4, <1>5, MovesType
<1>8. Entitled(r) /\ ReadStands(r) /\ pc[r] = "allocate"
  BY DEF SigningInv, Signable, Allocate, Running
<1>9. \A e \in versions : e.version \in Nat /\ e.version < sequence
  BY VersionTypes
<1>10. Entitled(r)'
  BY <1>1, <1>2, <1>3, <1>4, <1>7, <1>8, <1>9 DEF Entitled, tables
<1>11. ReadStands(r)'
  BY <1>1, <1>2, <1>4, <1>6, <1>7, <1>8 DEF ReadStands, ContentStands, tables
<1>12. NumberOwn(r)'
  <2>1. ASSUME NEW p \in Requests, p # r, pc'[p] \in Numbered
        PROVE  req'[p].version # sequence
    <3>1. Sound(p) /\ pc[p] \in Numbered
      BY <1>7, <2>1, InvByRequest
    <3>2. req[p].version \in 1 .. sequence - 1
      BY <3>1 DEF Sound
    <3> QED BY <1>3, <1>7, <2>1, <3>2
  <2>2. \A e \in versions : e.version # sequence
    BY <1>3, <1>9
  <2> QED BY <1>1, <1>4, <1>7, <2>1, <2>2 DEF NumberOwn
<1>13. Ahead
  BY <1>1, TablesStand
<1>14. Signable(r)'
  BY <1>10, <1>11, <1>12 DEF Signable
<1> QED BY <1>2, <1>4, <1>5, <1>13, <1>14, MovedSigning

\* The modules are those of the contract as it is: if it has moved on since the
\* snapshot, the snapshot's revision shows it.
LEMMA ReadModulesSigning ==
  ASSUME IssuanceInv, IssuanceInv', SigningInv, NEW r \in Requests, ReadModules(r)
  PROVE  SigningInv'
<1>1. TypeOK /\ UNCHANGED <<tables, versions>>
  BY DEF IssuanceInv, ReadModules, issued
<1> DEFINE s == WithModules(req[r].snap)
           q == [req[r] EXCEPT !.snap = s]
<1>2. /\ "commit" \in ControlPoint \cap Signing \cap Numbered
      /\ "commit" \notin Asking /\ "modules" \in Signing \cap Numbered \cap Loaded
  BY DEF ControlPoint, Signing, Numbered, Asking, Loaded
<1>3. /\ req[r] \in Request /\ req[r].snap \in Snapshot
      /\ req[r].snap.contract \in Contracts /\ pc[r] = "modules"
  BY <1>2, SnapTypes DEF ReadModules, Running
<1>4. /\ s \in Snapshot /\ s.contract = req[r].snap.contract
      /\ s.crev = req[r].snap.crev /\ s.srev = req[r].snap.srev
      /\ s.policy = req[r].snap.policy
  BY <1>1, <1>3, WithModulesType
<1>5. /\ s.terms = req[r].snap.terms
      /\ s.policy # 0 => s.modules = req[r].snap.modules
      /\ s.policy = 0 => s.modules = contract[s.contract].modules
  BY <1>3, <1>4 DEF WithModules, Snapshot
<1>6. /\ q \in Request /\ q.snap = s /\ q.key = req[r].key
      /\ q.version = req[r].version
  BY <1>3, <1>4 DEF Request
<1>7. Moves(r, q, "commit")
  BY <1>1 DEF ReadModules, Goto, Moves, TypeOK
<1> HIDE DEF q, s
<1>8. /\ pc'[r] = "commit" /\ req'[r] = q
      /\ \A p \in Requests \ {r} : pc'[p] = pc[p] /\ req'[p] = req[p]
  BY <1>1, <1>2, <1>6, <1>7, MovesType
<1>9. Entitled(r) /\ ReadStands(r) /\ NumberOwn(r)
  BY DEF SigningInv, Signable
<1>10. Entitled(r)'
  BY <1>1, <1>2, <1>3, <1>4, <1>6, <1>8, <1>9 DEF Entitled, tables
<1>11. ReadStands(r)'
  BY <1>1, <1>2, <1>3, <1>4, <1>5, <1>6, <1>8, <1>9 DEF ReadStands, ContentStands, tables
<1>12. NumberOwn(r)'
  BY <1>1, <1>2, <1>3, <1>6, <1>8, <1>9 DEF NumberOwn
<1>13. Ahead
  BY <1>1, TablesStand
<1>14. Signable(r)'
  BY <1>10, <1>11, <1>12 DEF Signable
<1> QED BY <1>2, <1>6, <1>7, <1>13, <1>14, MovedSigning

\* An unadopted deployment is renewed only for the revisions its current version
\* carries, and those were reviewed: the version is an operator's own, or the
\* scheduled run's, which repeats one.
LEMMA RenewDecideSigning ==
  ASSUME IssuanceInv, IssuanceInv', SigningInv, NEW r \in Requests, RenewDecide(r)
  PROVE  SigningInv'
<1>1. TypeOK /\ UNCHANGED <<tables, versions>>
  BY DEF IssuanceInv, RenewDecide, issued
<1> DEFINE s == WithModules(req[r].snap)
<1>2. CASE Goto(r, "postpone") /\ UNCHANGED req
  BY <1>1, <1>2, EndingSigning
<1>3. ASSUME ~Drifted(s), Goto(r, "claim"),
             req' = [req EXCEPT ![r].key = RenewalKey(s),
                                ![r].expected = <<s.crev, s.srev>>]
      PROVE  SigningInv'
  <2>1. /\ req[r] \in Request /\ req[r].snap \in Snapshot
        /\ req[r].snap.contract \in Contracts /\ pc[r] = "renew"
    BY SnapTypes DEF RenewDecide, Running, Loaded
  <2>2. /\ s \in Snapshot /\ s.contract = req[r].snap.contract
        /\ s.policy = req[r].snap.policy
    BY <1>1, <2>1, WithModulesType
  <2>3. RenewalKey(s).type = "auto"
    BY DEF RenewalKey
  <2> HIDE DEF s
  <2>4. /\ pc'[r] = "claim" /\ req'[r].key.type = "auto"
        /\ req'[r].target = req[r].target /\ req'[r].expected = <<s.crev, s.srev>>
        /\ \A p \in Requests \ {r} : pc'[p] = pc[p] /\ req'[p] = req[p]
    BY <1>1, <1>3, <2>1, <2>3 DEF Goto, TypeOK, Request
  <2>5. req[r].target = req[r].snap.contract
    BY <2>1 DEF SigningInv, Signable, Entitled
  <2>6. ASSUME policy.rev = 0 PROVE Reviewed(s.contract, s.crev, s.srev)
    <3>1. s.policy = 0
      <4>1. NotAhead(req[r].snap.contract, req[r].snap.crev, req[r].snap.srev,
                     req[r].snap.policy)
        BY <2>1, SnapTypes DEF Loaded
      <4> QED BY <2>1, <2>2, <2>6, <4>1 DEF NotAhead, Snapshot
    <3>2. PICK e \in versions : e.contract = s.contract /\ e.crev = s.crev /\ e.srev = s.srev
      BY <1>3, <3>1 DEF Drifted
    <3>3. e.content.policy = 0
      BY <2>6, VersionTypes DEF NotAhead
    <3>4. e.key.type \in {"manual", "service", "auto"}
      BY VersionTypes DEF Version, Key, ManualKey, ServiceKey, AutoKey
    <3>5. e.key.type # "service"
      BY <3>3 DEF SigningInv, VersionStands
    <3>6. CASE e.key.type = "manual"
      BY <3>2, <3>6 DEF Reviewed
    <3>7. CASE e.key.type = "auto"
      BY <3>2, <3>3, <3>7 DEF SigningInv, AutoFollowsReview, Reviewed
    <3> QED BY <3>4, <3>5, <3>6, <3>7
  <2>7. Ahead /\ policy' = policy
    BY <1>1, TablesStand DEF tables
  <2>8. <<s.crev, s.srev>> # NoExpectation
    BY DEF NoExpectation
  <2>9. req'[r].expected[1] = s.crev /\ req'[r].expected[2] = s.srev
    BY <2>4
  <2>10. req'[r].target = s.contract
    BY <2>2, <2>4, <2>5
  <2> QED BY <2>1, <2>2, <2>4, <2>6, <2>7, <2>8, <2>9, <2>10, AskingSigning
<1> QED BY <1>2, <1>3 DEF RenewDecide

-----------------------------------------------------------------------------
(* Steps that write the tables.                                            *)

\* No request moves.
LEMMA OutsideSigning ==
  ASSUME IssuanceInv, IssuanceInv', SigningInv, Ahead, UNCHANGED <<pc, req>>
  PROVE  SigningInv'
BY SigningStep DEF IssuanceInv

LEMMA OperatorSigning ==
  ASSUME IssuanceInv, IssuanceInv', SigningInv, Operator PROVE SigningInv'
<1>1. TypeOK
  BY DEF IssuanceInv
<1>2. ASSUME NEW c \in Contracts, NEW t \in Settings, UpdateControls(c, t)
      PROVE  SigningInv'
  <2>1. Ahead
    BY <1>1, <1>2 DEF TypeOK, UpdateControls, issued, Ahead
  <2> QED BY <1>2, <2>1, OutsideSigning DEF UpdateControls
<1>3. ASSUME NEW c \in Contracts, NEW t \in Settings, NEW m \in Settings,
             UpdateContract(c, t, m)
      PROVE  SigningInv'
  <2>1. Ahead
    BY <1>1, <1>3 DEF TypeOK, UpdateContract, issued, Ahead
  <2> QED BY <1>3, <2>1, OutsideSigning DEF UpdateContract
<1>4. ASSUME SetDeploymentStatus PROVE SigningInv'
  <2>1. Ahead
    BY <1>1, <1>4 DEF TypeOK, SetDeploymentStatus, issued, Ahead
  <2> QED BY <1>4, <2>1, OutsideSigning DEF SetDeploymentStatus
<1> QED BY <1>2, <1>3, <1>4 DEF Operator

LEMMA TimeSigning ==
  ASSUME IssuanceInv, IssuanceInv', SigningInv, Time PROVE SigningInv'
<1>1. TypeOK
  BY DEF IssuanceInv
<1>2. Ahead /\ UNCHANGED <<pc, req>>
  <2>1. CASE CheckComesDue
    BY <1>1, <2>1 DEF TypeOK, CheckComesDue, issued, Ahead
  <2>2. CASE LeaseAges
    BY <1>1, <2>2, TablesStand DEF LeaseAges
  <2>3. ASSUME NEW c \in claims, ClaimLapses(c) PROVE Ahead /\ UNCHANGED <<pc, req>>
    BY <1>1, <2>3, TablesStand DEF ClaimLapses, issued
  <2> QED BY <2>1, <2>2, <2>3 DEF Time
<1> QED BY <1>2, OutsideSigning

LEMMA AssignCommitSigning ==
  ASSUME IssuanceInv, IssuanceInv', SigningInv, NEW r \in Requests, AssignCommit(r)
  PROVE  SigningInv'
<1>1. TypeOK
  BY DEF IssuanceInv
<1>2. Ahead
  BY <1>1 DEF TypeOK, AssignCommit, issued, Ahead
<1>3. Goto(r, "idle") /\ req' = [req EXCEPT ![r] = Idle] /\ "idle" \in Parked
  BY DEF AssignCommit, Finish, Parked
<1> QED BY <1>2, <1>3, ParkedStep

LEMMA PostponeSigning ==
  ASSUME IssuanceInv, IssuanceInv', SigningInv, NEW r \in Requests, Postpone(r)
  PROVE  SigningInv'
<1>1. TypeOK
  BY DEF IssuanceInv
<1>2. Ahead
  BY <1>1 DEF TypeOK, Postpone, issued, Ahead
<1>3. Goto(r, "idle") /\ req' = [req EXCEPT ![r] = Idle] /\ "idle" \in Parked
  BY DEF Postpone, Finish, Parked
<1> QED BY <1>2, <1>3, ParkedStep

LEMMA SaveCommitSigning ==
  ASSUME IssuanceInv, IssuanceInv', SigningInv, NEW r \in Requests, SaveCommit(r)
  PROVE  SigningInv'
<1>1. TypeOK
  BY DEF IssuanceInv
<1>2. /\ policy'.rev = policy.rev + 1
      /\ schedule'.srev = schedule.srev + 1 /\ schedule'.contract = schedule.contract
      /\ UNCHANGED <<contract, versions>>
  BY <1>1 DEF SaveCommit, TypeOK, issued
<1>3. Ahead
  BY <1>1, <1>2 DEF TypeOK, Ahead
<1>4. /\ pc'[r] = "lookup" /\ req'[r].key.type = "service"
      /\ \A p \in Requests \ {r} : pc'[p] = pc[p] /\ req'[p] = req[p]
  <2>1. req[r] \in Request
    BY SnapTypes
  <2>2. [req[r] EXCEPT !.key = [type |-> "service", rev |-> policy.rev + 1],
                       !.snap = NoSnapshot].key.type = "service"
    BY <2>1 DEF Request
  <2>3. pc' = [pc EXCEPT ![r] = "lookup"]
    BY DEF SaveCommit, Goto
  <2>4. req' = [req EXCEPT ![r] =
          [req[r] EXCEPT !.key = [type |-> "service", rev |-> policy.rev + 1],
                         !.snap = NoSnapshot]]
    BY <1>1 DEF SaveCommit, TypeOK
  <2> QED BY <1>1, <2>2, <2>3, <2>4 DEF TypeOK
<1>5. policy'.rev # 0
  BY <1>1, <1>2 DEF TypeOK
<1> QED BY <1>3, <1>4, <1>5, AskingSigning

-----------------------------------------------------------------------------
(* Commit: the version stored is the one its request was able to sign.     *)

LEMMA CommitSigning ==
  ASSUME IssuanceInv, IssuanceInv', SigningInv, NEW r \in Requests, Commit(r)
  PROVE  SigningInv'
<1>1. PICK v : v = NewVersion(r)
  OBVIOUS
<1>2. /\ v.version = req[r].version /\ v.key = req[r].key
      /\ v.contract = req[r].snap.contract /\ v.crev = req[r].snap.crev
      /\ v.srev = req[r].snap.srev /\ v.content.policy = req[r].snap.policy
      /\ v.content.terms = req[r].snap.terms /\ v.content.modules = req[r].snap.modules
  BY <1>1 DEF NewVersion, Desired
<1>3. /\ versions' = versions \cup {v} /\ UNCHANGED <<contract, policy>>
      /\ schedule'.srev = schedule.srev /\ schedule'.contract = schedule.contract
  BY <1>1 DEF Commit, IssuanceInv, TypeOK
<1>4. /\ pc'[r] = "idle"
      /\ \A p \in Requests \ {r} : pc'[p] = pc[p] /\ req'[p] = req[p]
  BY CommitType
<1>5. Entitled(r) /\ ReadStands(r) /\ NumberOwn(r) /\ pc[r] = "commit"
  BY DEF SigningInv, Signable, Commit, Running
<1>6. "commit" \in Signing \cap Numbered
  BY DEF Signing, Numbered
<1>7. AutoFollowsReview'
  <2>1. ASSUME NEW e \in versions', e.key.type = "auto", e.content.policy = 0
        PROVE  \E f \in versions' :
                 /\ f.key.type = "manual" /\ f.version < e.version
                 /\ f.contract = e.contract /\ f.crev = e.crev /\ f.srev = e.srev
    <3>1. CASE e \in versions
      BY <1>3, <2>1, <3>1 DEF SigningInv, AutoFollowsReview
    <3>2. CASE e = v
      BY <1>2, <1>3, <1>5, <1>6, <2>1, <3>2 DEF Entitled
    <3> QED BY <1>3, <3>1, <3>2
  <2> QED BY <2>1 DEF AutoFollowsReview
<1>8. ASSUME NEW p \in Requests, p # r PROVE Signable(p)'
  <2>1. Entitled(p) /\ ReadStands(p) /\ NumberOwn(p) /\ pc'[p] = pc[p] /\ req'[p] = req[p]
    BY <1>4, <1>8 DEF SigningInv, Signable
  <2>2. Entitled(p)'
    BY <1>3, <2>1 DEF Entitled, Reviewed
  <2>3. ReadStands(p)'
    BY <1>3, <2>1 DEF ReadStands, ContentStands
  <2>4. NumberOwn(p)'
    <3>1. ASSUME pc[p] \in Numbered, NEW q \in Requests, q # p, pc'[q] \in Numbered
          PROVE  req'[q].version # req'[p].version
      <4>1. q # r
        BY <1>4, <3>1 DEF Numbered
      <4> QED BY <1>4, <2>1, <3>1, <4>1 DEF NumberOwn
    <3>2. ASSUME pc[p] \in Numbered PROVE v.version # req[p].version
      BY <1>2, <1>5, <1>6, <1>8, <3>2 DEF NumberOwn
    <3> QED BY <1>3, <2>1, <3>1, <3>2 DEF NumberOwn
  <2> QED BY <2>2, <2>3, <2>4 DEF Signable
<1>9. Signable(r)'
  BY <1>4, ParkedSignable DEF Parked
<1>10. ASSUME NEW e \in versions' PROVE VersionStands(e)'
  <2>1. CASE e \in versions
    <3>1. VersionStands(e)
      BY <2>1 DEF SigningInv
    <3> QED BY <1>3, <3>1 DEF VersionStands, ContentStands
  <2>2. CASE e = v
    <3>1. v.key.type = "service" => v.content.policy # 0
      BY <1>2, <1>5, <1>6 DEF Entitled
    <3>2. ContentStands(v.contract, v.crev, v.srev, v.content.policy,
                        v.content.terms, v.content.modules, TRUE)
      BY <1>2, <1>5, <1>6 DEF ReadStands, ContentStands
    <3> QED BY <1>3, <2>2, <3>1, <3>2 DEF VersionStands, ContentStands
  <2> QED BY <1>3, <2>1, <2>2
<1> QED BY <1>7, <1>8, <1>9, <1>10 DEF SigningInv

LEMMA NextSigning ==
  IssuanceInv /\ IssuanceInv' /\ SigningInv /\ [Next]_vars => SigningInv'
<1> SUFFICES ASSUME IssuanceInv, IssuanceInv', SigningInv, [Next]_vars
             PROVE  SigningInv'
  OBVIOUS
<1>1. TypeOK
  BY DEF IssuanceInv
<1>2. CASE Operator
  BY <1>2, OperatorSigning
<1>3. CASE Time
  BY <1>3, TimeSigning
<1>4. ASSUME NEW r \in Requests, Arrive(r) PROVE SigningInv'
  <2>1. ASSUME NEW c \in Contracts, AssignRead(r, c) PROVE SigningInv'
    <3>1. UNCHANGED <<tables, versions>> /\ \E q : Moves(r, q, "assign")
      BY <2>1 DEF AssignRead, Goto, Moves, issued
    <3> QED BY <3>1, EndingSigning
  <2> QED BY <1>4, <2>1, SaveReadSigning, StartManualSigning, RenewScanSigning DEF Arrive
<1>5. ASSUME NEW r \in Requests, UNCHANGED <<tables, versions>>,
             \/ Finish(r)
             \/ Goto(r, "postpone") /\ UNCHANGED req
             \/ Goto(r, "raced") /\ UNCHANGED req
             \/ Goto(r, "denied") /\ UNCHANGED req
      PROVE  SigningInv'
  BY <1>5, EndingSigning
<1>6. ASSUME NEW r \in Requests,
             \/ LookupHit(r) \/ RacedHit(r) \/ AllocateRefused(r) \/ CommitAborted(r)
             \/ RacedMiss(r) \/ Fault(r) \/ Evict(r) \/ ClaimBlocked(r) \/ SaveRefused(r)
      PROVE  SigningInv'
  <2>1. UNCHANGED <<tables, versions>>
    BY <1>6 DEF LookupHit, RacedHit, AllocateRefused, CommitAborted, RacedMiss, Fault,
       Evict, ClaimBlocked, SaveRefused, issued
  <2>2. \/ Finish(r)
        \/ Goto(r, "postpone") /\ UNCHANGED req
        \/ Goto(r, "raced") /\ UNCHANGED req
        \/ Goto(r, "denied") /\ UNCHANGED req
    BY <1>6 DEF LookupHit, RacedHit, AllocateRefused, CommitAborted, RacedMiss, Fault,
       Evict, ClaimBlocked, SaveRefused, Answer, FailDelayed, FailChanged
  <2> QED BY <1>5, <2>1, <2>2
<1>7. ASSUME NEW r \in Requests, LoadRefused(r) PROVE SigningInv'
  <2>1. UNCHANGED <<tables, versions>>
    BY <1>7 DEF LoadRefused, issued
  <2>2. \/ Finish(r)
        \/ Goto(r, "postpone") /\ UNCHANGED req
        \/ \E q : Moves(r, q, "postpone")
    <3>1. ASSUME Goto(r, "postpone"), req' = [req EXCEPT ![r].snap = ReadState]
          PROVE  Moves(r, [req[r] EXCEPT !.snap = ReadState], "postpone")
      BY <1>1, <3>1 DEF Goto, Moves, TypeOK
    <3> QED BY <1>7, <3>1 DEF LoadRefused, FailDelayed, FailChanged
  <2> QED BY <2>1, <2>2, EndingSigning
<1>8. ASSUME NEW r \in Requests, LookupMiss(r) \/ ClaimRenewal(r) PROVE SigningInv'
  <2>1. /\ pc[r] \in Asking /\ UNCHANGED <<req, tables, versions>>
        /\ Goto(r, "load") \/ Goto(r, "lookup")
    BY <1>8 DEF LookupMiss, ClaimRenewal, Running, Asking, issued
  <2>2. {"load", "lookup"} \subseteq Asking
    BY DEF Asking
  <2> QED BY <2>1, <2>2, StillAskingSigning
<1>9. CASE UNCHANGED vars
  <2>1. Ahead /\ UNCHANGED <<pc, req>>
    BY <1>1, <1>9, TablesStand DEF vars, issued
  <2> QED BY <2>1, OutsideSigning
<1> QED BY <1>2, <1>3, <1>4, <1>6, <1>7, <1>8, <1>9, LoadSigning, AllocateSigning,
       ReadModulesSigning, RenewDecideSigning, CommitSigning, AssignCommitSigning,
       SaveCommitSigning, PostponeSigning
       DEF Next, Continue, Issue, Renewal

LEMMA InitSigning == Init => SigningInv
BY DEF Init, SigningInv, AutoFollowsReview, Signable, Entitled, ReadStands, NumberOwn,
   Asking, Signing, Numbered

\* Whatever a request is about to sign, and whatever was signed, repeats what stood
\* under the revisions it carries.
THEOREM SignsWhatStands == Spec => []SigningInv
<1>1. IssuanceInv /\ SigningInv /\ [Next]_vars => SigningInv'
  BY NextInv, NextSigning
<1> QED BY <1>1, InitSigning, IssuanceSafe, PTL DEF Spec

\* The scheduled run repeats revisions an operator has issued a version for,
\* whatever changes, takeovers and adoptions come between its scan and its insert.
THEOREM AutoReviewed == Spec => []AutoFollowsReview
<1>1. SigningInv => AutoFollowsReview
  BY DEF SigningInv
<1> QED BY <1>1, SignsWhatStands, PTL

-----------------------------------------------------------------------------
(* The refinement of AtomicIssuance.  Only Commit stores a version, and      *)
(* SignsWhatStands says that its content is that of the tables; every other  *)
(* step changes what is to be signed as operators may.                     *)

\* What SignableNow is of the tables.
LEMMA SignableIs ==
  ASSUME TypeOK, Assigned
  PROVE  /\ SignableNow.contract = schedule.contract
         /\ SignableNow.crev = contract[schedule.contract].rev
         /\ SignableNow.srev = schedule.srev
         /\ SignableNow.policy = policy.rev
         /\ Adopted => /\ SignableNow.terms = policy.terms
                       /\ SignableNow.modules = policy.modules
         /\ ~Adopted => /\ SignableNow.terms = contract[schedule.contract].terms
                        /\ SignableNow.modules = contract[schedule.contract].modules
<1>1. ReadState \in Snapshot /\ schedule.contract \in Contracts
  BY ReadStateType DEF TypeOK, Assigned
<1>2. /\ ReadState.contract = schedule.contract
      /\ ReadState.crev = contract[schedule.contract].rev
      /\ ReadState.srev = schedule.srev /\ ReadState.policy = policy.rev
      /\ Adopted => ReadState.terms = policy.terms /\ ReadState.modules = policy.modules
      /\ ~Adopted => ReadState.terms = contract[schedule.contract].terms
  BY DEF ReadState
<1>3. WithModules(ReadState) =
        IF Adopted THEN ReadState
        ELSE [ReadState EXCEPT !.modules = contract[schedule.contract].modules]
  BY <1>2 DEF WithModules, Adopted
<1>4. PICK s : s = WithModules(ReadState)
  OBVIOUS
<1>5. /\ s.contract = schedule.contract /\ s.crev = contract[schedule.contract].rev
      /\ s.srev = schedule.srev /\ s.policy = policy.rev
      /\ Adopted => s.terms = policy.terms /\ s.modules = policy.modules
      /\ ~Adopted => /\ s.terms = contract[schedule.contract].terms
                     /\ s.modules = contract[schedule.contract].modules
  BY <1>1, <1>2, <1>3, <1>4 DEF Snapshot
<1>6. SignableNow = [contract |-> s.contract, crev |-> s.crev, srev |-> s.srev,
                     policy |-> s.policy, terms |-> s.terms, modules |-> s.modules]
  BY <1>4 DEF SignableNow
<1> QED BY <1>5, <1>6

LEMMA SignableBlank ==
  ~Assigned => SignableNow = [contract |-> NoContract, crev |-> 0, srev |-> 0, policy |-> 0,
                              terms |-> AnySetting, modules |-> AnySetting]
BY DEF SignableNow

\* The commit signs the state that stands.  A higher number may be stored, but it
\* was then signed from that very state.
LEMMA CommitSigns ==
  ASSUME IssuanceInv, IssuanceInv', SigningInv, NEW r \in Requests, Commit(r)
  PROVE  Atomic!Sign(NewVersion(r))
<1>1. PICK v : v = NewVersion(r)
  OBVIOUS
<1>2. /\ v.version = req[r].version /\ v.key = req[r].key
      /\ v.contract = req[r].snap.contract /\ v.crev = req[r].snap.crev
      /\ v.srev = req[r].snap.srev /\ v.content = Desired(req[r].snap)
  BY <1>1 DEF NewVersion
<1>3. /\ v.contract \in Contracts /\ v.srev = schedule.srev /\ v.version \in Nat
      /\ v.crev = contract[v.contract].rev /\ v.content.policy = policy.rev
  BY <1>1, NewVersionFacts DEF Version
<1>4. schedule.contract = v.contract /\ Assigned /\ TypeOK
  BY <1>2, <1>3, ConstantsAssumption
     DEF Commit, StateUnmoved, Assigned, IssuanceInv
<1>5. Entitled(r) /\ ReadStands(r) /\ NumberOwn(r) /\ pc[r] = "commit"
  BY DEF SigningInv, Signable, Commit, Running
<1>6. "commit" \in Signing \cap Numbered
  BY DEF Signing, Numbered
<1>7. PICK now : now = SignableNow
  OBVIOUS
<1>8. /\ now.contract = v.contract /\ now.crev = v.crev /\ now.srev = v.srev
      /\ now.policy = policy.rev
      /\ policy.rev # 0 => now.terms = policy.terms /\ now.modules = policy.modules
      /\ policy.rev = 0 => /\ now.terms = contract[v.contract].terms
                           /\ now.modules = contract[v.contract].modules
  BY <1>3, <1>4, <1>7, SignableIs DEF Adopted
<1>9. v.content = [policy |-> now.policy, terms |-> now.terms, modules |-> now.modules]
  <2>1. ContentStands(v.contract, v.crev, v.srev, policy.rev,
                      req[r].snap.terms, req[r].snap.modules, TRUE)
    BY <1>2, <1>3, <1>5, <1>6 DEF ReadStands, ContentStands, Desired
  <2>2. req[r].snap.terms = now.terms /\ req[r].snap.modules = now.modules
    BY <1>3, <1>8, <2>1 DEF ContentStands
  <2>3. req[r].snap.policy = now.policy
    BY <1>2, <1>3, <1>8 DEF Desired
  <2> QED BY <1>2, <2>2, <2>3 DEF Desired
<1>10. ASSUME NEW e \in versions
       PROVE  e.version # v.version /\ e.key # v.key
  BY <1>2, <1>5, <1>6 DEF NumberOwn, Commit, KeyIsNew
<1>11. ASSUME NEW e \in versions, e.version > v.version
       PROVE  /\ e.contract = v.contract /\ e.crev = v.crev
              /\ e.srev = v.srev /\ e.content = v.content
  <2>1. /\ e \in Version /\ e.version \in Nat /\ e.contract \in Contracts /\ e.crev \in Nat
        /\ e.srev \in Nat /\ e.content.policy \in Nat
        /\ NotAhead(e.contract, e.crev, e.srev, e.content.policy)
    BY VersionTypes
  <2>2. /\ v.srev <= e.srev
        /\ v.contract = e.contract => v.crev <= e.crev
        /\ v.content.policy <= e.content.policy
    <3>1. Sound(r) /\ req[r].version < e.version
      BY <1>2, <1>3, <1>11, <2>1, InvByRequest
    <3> QED BY <1>2, <1>5, <1>6, <3>1 DEF Sound, Desired
  <2>3. schedule.srev \in Nat /\ policy.rev \in Nat /\ contract[e.contract].rev \in Nat
    BY <1>4, <2>1 DEF TypeOK
  <2>4. e.srev = schedule.srev /\ e.content.policy = policy.rev
    BY <1>3, <2>1, <2>2, <2>3 DEF NotAhead
  <2>5. VersionStands(e)
    BY DEF SigningInv
  <2>6. e.contract = v.contract
    BY <1>4, <2>4, <2>5 DEF VersionStands, ContentStands
  <2>7. e.crev = contract[v.contract].rev
    BY <1>3, <2>1, <2>2, <2>3, <2>6 DEF NotAhead
  <2>8. e.content.terms = now.terms /\ e.content.modules = now.modules
    BY <1>8, <2>4, <2>5, <2>6, <2>7 DEF VersionStands, ContentStands
  <2>9. e.content = [policy |-> now.policy, terms |-> now.terms, modules |-> now.modules]
    BY <1>8, <2>1, <2>4, <2>8 DEF Version, Content
  <2> QED BY <1>3, <1>9, <2>4, <2>6, <2>7, <2>9
<1>12. versions' = versions \cup {v}
  BY <1>1 DEF Commit
<1>13. SignableNow' = SignableNow
  <2>1. /\ schedule'.contract = schedule.contract /\ schedule'.srev = schedule.srev
        /\ UNCHANGED <<contract, policy>>
    BY <1>4 DEF Commit, TypeOK
  <2>2. schedule'.contract # NoContract /\ schedule.contract # NoContract
    BY <1>4, <2>1 DEF Assigned
  <2> QED BY <2>1, <2>2 DEF SignableNow, WithModules, ReadState, Assigned, Adopted
<1> QED BY <1>1, <1>7, <1>8, <1>9, <1>10, <1>11, <1>12, <1>13 DEF Atomic!Sign

\* Every step but Commit stores nothing and moves the tables forward; a
\* deployment that has a schedule keeps one.
LEMMA NextAhead ==
  ASSUME IssuanceInv, IssuanceInv', [Next]_vars
  PROVE  \/ Ahead /\ (Assigned => Assigned')
         \/ \E r \in Requests : Commit(r)
<1>1. TypeOK /\ TypeOK'
  BY DEF IssuanceInv
<1>2. ASSUME UNCHANGED <<tables, versions>> PROVE Ahead /\ (Assigned => Assigned')
  BY <1>1, <1>2, TablesStand DEF tables, Assigned
<1>3. CASE Operator
  <2>1. ASSUME NEW c \in Contracts, NEW t \in Settings, UpdateControls(c, t)
        PROVE  Ahead /\ (Assigned => Assigned')
    BY <1>1, <2>1 DEF TypeOK, UpdateControls, issued, Ahead, Assigned
  <2>2. ASSUME NEW c \in Contracts, NEW t \in Settings, NEW m \in Settings,
               UpdateContract(c, t, m)
        PROVE  Ahead /\ (Assigned => Assigned')
    BY <1>1, <2>2 DEF TypeOK, UpdateContract, issued, Ahead, Assigned
  <2>3. ASSUME SetDeploymentStatus PROVE Ahead /\ (Assigned => Assigned')
    BY <1>1, <2>3 DEF TypeOK, SetDeploymentStatus, issued, Ahead, Assigned
  <2> QED BY <1>3, <2>1, <2>2, <2>3 DEF Operator
<1>4. CASE Time
  <2>1. ASSUME CheckComesDue PROVE Ahead /\ (Assigned => Assigned')
    BY <1>1, <2>1 DEF TypeOK, CheckComesDue, issued, Ahead, Assigned
  <2>2. ASSUME LeaseAges \/ \E c \in claims : ClaimLapses(c)
        PROVE  UNCHANGED <<tables, versions>>
    BY <2>2 DEF LeaseAges, ClaimLapses, issued
  <2> QED BY <1>2, <1>4, <2>1, <2>2 DEF Time
<1>5. ASSUME NEW r \in Requests, Arrive(r) \/ Fault(r) \/ Evict(r)
      PROVE  UNCHANGED <<tables, versions>>
  BY <1>5 DEF Arrive, AssignRead, SaveRead, StartManual, RenewScan, Fault, Evict, issued
<1>6. ASSUME NEW r \in Requests, Issue(r), ~Commit(r)
      PROVE  UNCHANGED <<tables, versions>>
  BY <1>6 DEF Issue, LookupHit, LookupMiss, Load, LoadRefused, Allocate, AllocateRefused,
     ReadModules, CommitAborted, RacedHit, RacedMiss, issued
<1>7. ASSUME NEW r \in Requests,
             RenewDecide(r) \/ ClaimRenewal(r) \/ ClaimBlocked(r) \/ SaveRefused(r)
      PROVE  UNCHANGED <<tables, versions>>
  BY <1>7 DEF RenewDecide, ClaimRenewal, ClaimBlocked, SaveRefused, issued
<1>8. ASSUME NEW r \in Requests, AssignCommit(r) PROVE Ahead /\ (Assigned => Assigned')
  <2>1. req[r].target \in Contracts
    BY <1>8 DEF IssuanceInv, LocalsOK, AssignCommit, Running
  <2> QED BY <1>1, <1>8, <2>1, ConstantsAssumption
         DEF TypeOK, AssignCommit, issued, Ahead, Assigned
<1>9. ASSUME NEW r \in Requests, SaveCommit(r) PROVE Ahead /\ (Assigned => Assigned')
  <2>1. /\ policy'.rev = policy.rev + 1
        /\ schedule'.srev = schedule.srev + 1 /\ schedule'.contract = schedule.contract
        /\ UNCHANGED <<contract, versions>>
    BY <1>1, <1>9 DEF SaveCommit, TypeOK, issued
  <2> QED BY <1>1, <2>1 DEF TypeOK, Ahead, Assigned
<1>10. ASSUME NEW r \in Requests, Postpone(r) PROVE Ahead /\ (Assigned => Assigned')
  BY <1>1, <1>10 DEF TypeOK, Postpone, issued, Ahead, Assigned
<1>11. CASE UNCHANGED vars
  <2>1. UNCHANGED <<tables, versions>>
    BY <1>11 DEF vars, issued
  <2> QED BY <1>2, <2>1
<1> QED BY <1>2, <1>3, <1>4, <1>5, <1>6, <1>7, <1>8, <1>9, <1>10, <1>11
       DEF Next, Continue, Renewal

\* The revisions a version signed now would carry.
RevisionsNow ==
  /\ SignableNow.contract = schedule.contract
  /\ SignableNow.crev = contract[schedule.contract].rev
  /\ SignableNow.srev = schedule.srev
  /\ SignableNow.policy = policy.rev

LEMMA RevisionsStand == TypeOK /\ Assigned => RevisionsNow
BY SignableIs DEF RevisionsNow

LEMMA RevisionsStandNext == TypeOK' /\ Assigned' => RevisionsNow'
BY RevisionsStand, PTL

LEMMA AheadChanges ==
  ASSUME TypeOK, TypeOK', Ahead, Assigned => Assigned'
  PROVE  Atomic!Change(SignableNow') \/ UNCHANGED <<SignableNow, versions>>
<1>1. /\ schedule.srev \in Nat /\ schedule'.srev \in Nat
      /\ policy.rev \in Nat /\ policy'.rev \in Nat
      /\ schedule.srev <= schedule'.srev /\ policy.rev <= policy'.rev
      /\ schedule'.srev = schedule.srev => schedule'.contract = schedule.contract
      /\ versions' = versions
  BY DEF TypeOK, Ahead
<1>2. CASE ~Assigned'
  <2>1. SignableNow' = SignableNow
    BY <1>2 DEF SignableNow, Assigned
  <2> QED BY <1>1, <2>1
<1>3. CASE Assigned' /\ ~Assigned
  <2>1. SignableNow.srev = 0 /\ SignableNow.policy = 0
    BY <1>3, SignableBlank
  <2>2. SignableNow'.srev = schedule'.srev /\ SignableNow'.policy = policy'.rev
    BY <1>3, RevisionsStandNext DEF RevisionsNow
  <2>3. schedule'.srev # 0
    BY <1>1, <1>3 DEF Assigned
  <2> HIDE DEF SignableNow
  <2> QED BY <1>1, <2>1, <2>2, <2>3 DEF Atomic!Change
<1>4. CASE Assigned' /\ Assigned
  <2>1. RevisionsNow /\ RevisionsNow'
    BY <1>4, RevisionsStand, RevisionsStandNext
  <2>2. \A c \in Contracts : /\ contract[c].rev \in Nat /\ contract'[c].rev \in Nat
                            /\ contract[c].rev <= contract'[c].rev
    BY DEF TypeOK, Ahead
  <2>3. schedule.contract \in Contracts
    BY <1>4 DEF TypeOK, Assigned
  <2> HIDE DEF SignableNow
  <2> QED BY <1>1, <2>1, <2>2, <2>3 DEF Atomic!Change, RevisionsNow
<1> QED BY <1>2, <1>3, <1>4

\* Issuance in five statements looks, to whoever reads the stored versions, like
\* an atomic read, numbering and insert.
THEOREM IssuanceImplementsAtomic == Spec => IssuesAtomically
<1>1. Init => Atomic!Init
  BY DEF Init, Atomic!Init, SignableNow, Assigned
<1>2. IssuanceInv /\ IssuanceInv' /\ SigningInv /\ [Next]_vars => [Atomic!Next]_(Atomic!vars)
  <2> SUFFICES ASSUME IssuanceInv, IssuanceInv', SigningInv, [Next]_vars
               PROVE  Atomic!Next \/ UNCHANGED Atomic!vars
    OBVIOUS
  <2>1. ASSUME NEW r \in Requests, Commit(r) PROVE Atomic!Next
    <3>1. Atomic!Sign(NewVersion(r))
      BY <2>1, CommitSigns
    <3>2. NewVersion(r) \in versions'
      BY <2>1 DEF Commit
    <3> QED BY <3>1, <3>2 DEF Atomic!Next
  <2>2. ASSUME Ahead, Assigned => Assigned' PROVE Atomic!Next \/ UNCHANGED Atomic!vars
    BY <2>2, AheadChanges DEF IssuanceInv, Atomic!Next, Atomic!vars
  <2> QED BY <2>1, <2>2, NextAhead
<1> QED BY <1>1, <1>2, IssuanceSafe, SignsWhatStands, PTL
       DEF Spec, IssuesAtomically, Atomic!Spec

-----------------------------------------------------------------------------
(* A saved policy stays pursued.  PursuitInv is relative to IssuanceInv.   *)

\* A state that was read at the present revision of the schedule was read under
\* the present policy: every save moves the schedule's revision.
SnapStands(s) ==
  /\ s.srev <= schedule.srev
  /\ s.srev = schedule.srev => s.policy = policy.rev

\* A renewal claims the policy it has read, its claim stays on record, and what it
\* may postpone is pursued.
Pursues(r) ==
  LET s == req[r].snap
      renewing == req[r].kind = "renewal"
  IN
  /\ pc[r] \in {"renew", "claim", "postpone"} => renewing
  /\ pc[r] = "save" => ~renewing
  /\ pc[r] \in Loaded \/ renewing => SnapStands(s)
  /\ renewing /\ pc[r] \in Keyed \cup {"claim"} =>
       /\ req[r].expected # NoExpectation /\ req[r].expected[2] = s.srev
       /\ req[r].key.content.policy = s.policy
  /\ renewing /\ pc[r] \in Keyed => \E c \in claims : c.key = req[r].key
  /\ pc[r] = "postpone" /\ Adopted /\ s.srev = schedule.srev => Pursued

PursuitInv ==
  /\ SavedPolicyPursued
  /\ Adopted => available
  /\ \A r \in Requests : Pursues(r)

\* A claim is taken over or marked, never deleted.
ClaimsLast == \A c \in claims : \E d \in claims' : d.key = c.key

\* What every step leaves standing.
Lasting ==
  /\ schedule.srev <= schedule'.srev
  /\ schedule'.srev = schedule.srev => policy'.rev = policy.rev
  /\ Adopted' => available'
  /\ ClaimsLast
  /\ Adopted /\ Pursued /\ policy'.rev = policy.rev => Pursued'

LEMMA FailClaimLasts ==
  ASSUME TypeOK, NEW r \in Requests, NEW b, FailClaim(r, b)
  PROVE  ClaimsLast
<1> SUFFICES ASSUME NEW c \in claims PROVE \E d \in claims' : d.key = c.key
  BY DEF ClaimsLast
<1>1. CASE c \in HeldClaims(r)
  <2> DEFINE d == [c EXCEPT !.state = "failed", !.lapsed = b]
  <2>1. d \in claims'
    BY <1>1 DEF FailClaim
  <2>2. d.key = c.key
    BY DEF TypeOK, Claim
  <2> QED BY <2>1, <2>2
<1>2. CASE c \notin HeldClaims(r)
  BY <1>2 DEF FailClaim
<1> QED BY <1>1, <1>2

\* A policy that was pursued is pursued as long as it is the policy, if the step
\* stores no version.
LEMMA StoredLasts ==
  ASSUME versions' = versions, ClaimsLast, Pursued, policy'.rev = policy.rev
  PROVE  Pursued'
<1>1. CASE \E e \in versions : IsCurrent(e) /\ e.content.policy = policy.rev
  BY <1>1 DEF Pursued, IsCurrent
<1>2. CASE \E c \in claims : c.key.content.policy = policy.rev
  <2>1. PICK c \in claims : c.key.content.policy = policy.rev
    BY <1>2
  <2>2. PICK d \in claims' : d.key = c.key
    BY DEF ClaimsLast
  <2> QED BY <2>1, <2>2 DEF Pursued
<1> QED BY <1>1, <1>2 DEF Pursued

LEMMA PursuitStep ==
  ASSUME IssuanceInv, IssuanceInv', PursuitInv, Lasting, SavedPolicyPursued',
         \A r \in Requests :
           \/ pc'[r] = pc[r] /\ req'[r] = req[r]
           \/ Pursues(r)'
  PROVE  PursuitInv'
<1>1. ASSUME NEW r \in Requests, pc'[r] = pc[r], req'[r] = req[r]
      PROVE  Pursues(r)'
  <2>1. Pursues(r)
    BY DEF PursuitInv
  <2>2. /\ schedule.srev \in Nat /\ schedule'.srev \in Nat
        /\ req[r].snap.srev \in Nat
    BY SnapTypes DEF IssuanceInv, TypeOK
  <2>3. ASSUME SnapStands(req[r].snap) PROVE SnapStands(req[r].snap)'
    BY <1>1, <2>2, <2>3 DEF SnapStands, Lasting
  <2>4. ASSUME \E c \in claims : c.key = req[r].key
        PROVE  \E c \in claims' : c.key = req'[r].key
    BY <1>1, <2>4 DEF Lasting, ClaimsLast
  <2>5. ASSUME pc[r] = "postpone", Adopted', req[r].snap.srev = schedule'.srev
        PROVE  Pursued'
    <3>1. SnapStands(req[r].snap)
      BY <2>1, <2>5 DEF Pursues
    <3>2. req[r].snap.srev = schedule.srev /\ schedule'.srev = schedule.srev
      BY <2>2, <2>5, <3>1 DEF SnapStands, Lasting
    <3>3. policy'.rev = policy.rev /\ Adopted
      BY <2>5, <3>2 DEF Lasting, Adopted
    <3> QED BY <2>1, <2>5, <3>2, <3>3 DEF Pursues, Lasting
  <2> QED BY <1>1, <2>1, <2>3, <2>4, <2>5 DEF Pursues
<1> QED BY <1>1 DEF PursuitInv, Lasting

\* A step that writes no table but claims.
LEMMA StillLasting ==
  ASSUME PursuitInv, TypeOK, UNCHANGED <<tables, versions>>, ClaimsLast
  PROVE  Lasting /\ SavedPolicyPursued'
<1>1. UNCHANGED <<schedule, policy, available, versions>>
  BY DEF tables
<1>2. schedule.srev \in Nat
  BY DEF TypeOK
<1>3. Pursued => Pursued'
  BY <1>1, StoredLasts
<1> QED BY <1>1, <1>2, <1>3 DEF Lasting, PursuitInv, SavedPolicyPursued, Adopted

\* Such a step of request r.
LEMMA MovedPursuit ==
  ASSUME IssuanceInv, IssuanceInv', PursuitInv, UNCHANGED <<tables, versions>>,
         ClaimsLast, NEW r \in Requests, NEW label, Goto(r, label),
         req' = req \/ \E q : req' = [req EXCEPT ![r] = q],
         pc'[r] = label => Pursues(r)'
  PROVE  PursuitInv'
<1>1. TypeOK /\ pc'[r] = label
  BY DEF IssuanceInv, TypeOK, Goto
<1>2. \A p \in Requests \ {r} : pc'[p] = pc[p] /\ req'[p] = req[p]
  BY <1>1 DEF Goto, TypeOK
<1> QED BY <1>1, <1>2, StillLasting, PursuitStep

LEMMA FinishPursuit ==
  ASSUME IssuanceInv, IssuanceInv', PursuitInv, UNCHANGED <<tables, versions>>,
         ClaimsLast, NEW r \in Requests, Finish(r)
  PROVE  PursuitInv'
<1>1. pc'[r] = "idle" /\ req'[r] = Idle
  BY DEF IssuanceInv, TypeOK, Finish, Goto
<1>2. Pursues(r)'
  BY <1>1 DEF Pursues, Idle, Keyed, Loaded
<1> QED BY <1>2, MovedPursuit DEF Finish

\* A request of an operator, which does not renew.
LEMMA OperatorsPursuit ==
  ASSUME IssuanceInv, IssuanceInv', PursuitInv, UNCHANGED <<tables, versions>>,
         ClaimsLast, NEW r \in Requests, NEW q, q.kind # "renewal",
         NEW label \in {"assign", "save", "lookup"}, Moves(r, q, label)
  PROVE  PursuitInv'
<1>1. pc'[r] = label /\ req'[r] = q
  BY DEF IssuanceInv, TypeOK, Moves
<1>2. Pursues(r)'
  BY <1>1 DEF Pursues, Loaded
<1> QED BY <1>2, MovedPursuit DEF Moves, Goto

\* A renewal that postpones what is pursued.
LEMMA PostponedPursuit ==
  ASSUME IssuanceInv, IssuanceInv', PursuitInv, UNCHANGED <<tables, versions>>,
         ClaimsLast, NEW r \in Requests, Goto(r, "postpone"), UNCHANGED req,
         req[r].kind = "renewal",
         Adopted /\ req[r].snap.srev = schedule.srev => Pursued
  PROVE  PursuitInv'
<1>1. pc'[r] = "postpone" /\ req'[r] = req[r]
  BY DEF IssuanceInv, TypeOK, Goto
<1>2. SnapStands(req[r].snap)
  BY DEF PursuitInv, Pursues
<1>3. Lasting /\ UNCHANGED <<schedule, policy>>
  BY StillLasting DEF IssuanceInv, tables
<1>4. Pursues(r)'
  BY <1>1, <1>2, <1>3 DEF Pursues, SnapStands, Adopted, Lasting, Keyed, Loaded
<1> QED BY <1>4, MovedPursuit

\* A renewal whose claim is on record pursues the policy it read.
LEMMA ClaimPursues ==
  ASSUME PursuitInv, NEW r \in Requests, req[r].kind = "renewal",
         pc[r] \in Keyed \cup {"claim"}, req[r].snap.srev = schedule.srev,
         \E c \in claims : c.key = req[r].key
  PROVE  Pursued
BY DEF PursuitInv, Pursues, SnapStands, Pursued

LEMMA FailedPursuit ==
  ASSUME IssuanceInv, IssuanceInv', PursuitInv, UNCHANGED <<tables, versions>>,
         NEW r \in Requests, pc[r] \in Keyed, FailDelayed(r) \/ FailChanged(r)
  PROVE  PursuitInv'
<1>1. ClaimsLast
  BY FailClaimLasts DEF FailDelayed, FailChanged, IssuanceInv
<1>2. CASE Finish(r)
  BY <1>1, <1>2, FinishPursuit
<1>3. CASE Goto(r, "postpone") /\ UNCHANGED req /\ req[r].kind = "renewal"
  <2>1. \E c \in claims : c.key = req[r].key
    BY <1>3 DEF PursuitInv, Pursues
  <2>2. req[r].snap.srev = schedule.srev => Pursued
    BY <1>3, <2>1, ClaimPursues
  <2> QED BY <1>1, <1>3, <2>2, PostponedPursuit
<1> QED BY <1>2, <1>3 DEF FailDelayed, FailChanged

\* From one point at which the key is known to another, with the same key, and a
\* state of the same revisions.
LEMMA OnwardPursuit ==
  ASSUME IssuanceInv, IssuanceInv', PursuitInv, UNCHANGED <<tables, versions>>,
         ClaimsLast, NEW r \in Requests, NEW label \in Keyed, Goto(r, label),
         req' = req \/ \E q : req' = [req EXCEPT ![r] = q],
         pc[r] \in Keyed \cup {"claim"},
         pc[r] = "claim" => \E c \in claims' : c.key = req[r].key,
         label \in Loaded => pc[r] \in Loaded,
         req'[r].kind = req[r].kind, req'[r].key = req[r].key,
         req'[r].expected = req[r].expected,
         req'[r].snap.srev = req[r].snap.srev, req'[r].snap.policy = req[r].snap.policy
  PROVE  PursuitInv'
<1>1. pc'[r] = label /\ UNCHANGED <<schedule, policy>>
  BY DEF IssuanceInv, TypeOK, Goto, tables
<1>2. Pursues(r)
  BY DEF PursuitInv
<1>3. label \notin {"renew", "claim", "postpone", "save"}
  BY DEF Keyed
<1>4. ASSUME req[r].kind = "renewal" PROVE \E c \in claims' : c.key = req[r].key
  BY <1>2, <1>4 DEF Pursues, ClaimsLast
<1>5. pc'[r] \in Loaded \/ req'[r].kind = "renewal" => SnapStands(req[r].snap)
  BY <1>1, <1>2 DEF Pursues
<1>6. SnapStands(req[r].snap) => SnapStands(req[r].snap)'
  BY <1>1 DEF SnapStands
<1>7. Pursues(r)'
  BY <1>1, <1>2, <1>3, <1>4, <1>5, <1>6 DEF Pursues
<1> QED BY <1>7, MovedPursuit

LEMMA RenewScanPursuit ==
  ASSUME IssuanceInv, IssuanceInv', PursuitInv, NEW r \in Requests, RenewScan(r)
  PROVE  PursuitInv'
<1>1. TypeOK /\ UNCHANGED <<tables, versions, claims>>
  BY DEF IssuanceInv, RenewScan, issued
<1> DEFINE q == [Idle EXCEPT !.kind = "renewal", !.target = schedule.contract,
                             !.snap = ReadState]
           label == IF available THEN "renew" ELSE "postpone"
<1>2. ReadState.srev = schedule.srev /\ ReadState.policy = policy.rev
  BY DEF RenewScan, ReadState
<1>3. q.kind = "renewal" /\ q.snap = ReadState
  BY DEF Idle
<1>4. Goto(r, label) /\ req' = [req EXCEPT ![r] = q]
  BY DEF RenewScan
<1>5. ~available => ~Adopted
  BY DEF PursuitInv
<1>6. UNCHANGED <<schedule, policy, available>> /\ schedule.srev \in Nat
  BY <1>1 DEF tables, TypeOK
<1> HIDE DEF q
<1>7. ASSUME pc'[r] = label PROVE Pursues(r)'
  <2>1. req'[r] = q
    BY <1>1, <1>4 DEF TypeOK
  <2>2. SnapStands(req[r].snap)'
    BY <1>2, <1>3, <1>6, <2>1 DEF SnapStands
  <2>3. label \notin Keyed /\ label \notin {"claim", "save"}
    BY DEF Keyed
  <2>4. label = "postpone" => ~Adopted'
    BY <1>5, <1>6 DEF Adopted
  <2> QED BY <1>3, <1>7, <2>1, <2>2, <2>3, <2>4 DEF Pursues
<1>8. ClaimsLast
  BY <1>1 DEF ClaimsLast
<1> QED BY <1>1, <1>4, <1>7, <1>8, MovedPursuit

\* The expectation makes the state that is loaded one of the revision claimed.
LEMMA LoadPursuit ==
  ASSUME IssuanceInv, IssuanceInv', PursuitInv, NEW r \in Requests, Load(r)
  PROVE  PursuitInv'
<1>1. TypeOK /\ UNCHANGED <<tables, versions, claims>> /\ pc[r] = "load"
  BY DEF IssuanceInv, Load, Running, issued
<1>2. ReadState.srev = schedule.srev /\ ReadState.policy = policy.rev
  BY DEF Load, Found, ReadState
<1>3. /\ Goto(r, "allocate") /\ req' = [req EXCEPT ![r].snap = ReadState]
      /\ req[r] \in Request
  BY <1>1 DEF Load, TypeOK
<1>4. UNCHANGED <<schedule, policy>> /\ schedule.srev \in Nat
  BY <1>1 DEF tables, TypeOK
<1>5. /\ req'[r].snap = ReadState /\ req'[r].kind = req[r].kind
      /\ req'[r].key = req[r].key /\ req'[r].expected = req[r].expected
  BY <1>1, <1>3 DEF TypeOK, Request
<1>6. Pursues(r) /\ pc[r] \in Keyed
  BY <1>1 DEF PursuitInv, Keyed
<1>7. ASSUME req[r].kind = "renewal"
      PROVE  /\ req[r].expected[2] = ReadState.srev
             /\ req[r].key.content.policy = ReadState.policy
             /\ \E c \in claims : c.key = req[r].key
  <2>1. /\ req[r].expected # NoExpectation /\ req[r].expected[2] = req[r].snap.srev
        /\ req[r].key.content.policy = req[r].snap.policy
        /\ SnapStands(req[r].snap) /\ \E c \in claims : c.key = req[r].key
    BY <1>6, <1>7 DEF Pursues
  <2>2. req[r].expected = <<ReadState.crev, ReadState.srev>>
    BY <2>1 DEF Load, AsExpected
  <2>3. <<ReadState.crev, ReadState.srev>>[2] = ReadState.srev
    OBVIOUS
  <2> QED BY <1>2, <2>1, <2>2, <2>3 DEF SnapStands
<1>8. SnapStands(req[r].snap)'
  BY <1>2, <1>4, <1>5 DEF SnapStands
<1>9. ASSUME pc'[r] = "allocate" PROVE Pursues(r)'
  BY <1>1, <1>5, <1>6, <1>7, <1>8, <1>9 DEF Pursues
<1>10. req' = [req EXCEPT ![r] = [req[r] EXCEPT !.snap = ReadState]] /\ ClaimsLast
  BY <1>1, <1>3 DEF ClaimsLast
<1> QED BY <1>1, <1>3, <1>9, <1>10, MovedPursuit

LEMMA LoadRefusedPursuit ==
  ASSUME IssuanceInv, IssuanceInv', PursuitInv, NEW r \in Requests, LoadRefused(r)
  PROVE  PursuitInv'
<1>1. TypeOK /\ UNCHANGED <<tables, versions>> /\ pc[r] \in Keyed
  BY DEF IssuanceInv, LoadRefused, Running, issued, Keyed
<1>2. CASE FailDelayed(r) \/ FailChanged(r)
  BY <1>1, <1>2, FailedPursuit
<1>3. CASE Finish(r) /\ UNCHANGED claims
  <2>1. ClaimsLast
    BY <1>3 DEF ClaimsLast
  <2> QED BY <1>1, <1>3, <2>1, FinishPursuit
<1>4. ASSUME Assigned, ~available, UNCHANGED claims, req[r].kind = "renewal",
             Goto(r, "postpone"), req' = [req EXCEPT ![r].snap = ReadState]
      PROVE  PursuitInv'
  <2>1. ReadState.srev = schedule.srev /\ ReadState.policy = policy.rev
    BY <1>4 DEF ReadState
  <2>2. req'[r].snap = ReadState /\ req'[r].kind = req[r].kind
    BY <1>1, <1>4 DEF TypeOK, Request
  <2>3. UNCHANGED <<schedule, policy>> /\ schedule.srev \in Nat /\ ~Adopted'
    BY <1>1, <1>4 DEF tables, TypeOK, PursuitInv, Adopted
  <2>4. SnapStands(req[r].snap)'
    BY <2>1, <2>2, <2>3 DEF SnapStands
  <2>5. ASSUME pc'[r] = "postpone" PROVE Pursues(r)'
    BY <1>4, <2>2, <2>3, <2>4, <2>5 DEF Pursues, Keyed
  <2>6. req' = [req EXCEPT ![r] = [req[r] EXCEPT !.snap = ReadState]] /\ ClaimsLast
    BY <1>1, <1>4 DEF ClaimsLast
  <2> QED BY <1>1, <1>4, <2>5, <2>6, MovedPursuit
<1> QED BY <1>2, <1>3, <1>4 DEF LoadRefused, Found

LEMMA RenewDecidePursuit ==
  ASSUME IssuanceInv, IssuanceInv', PursuitInv, NEW r \in Requests, RenewDecide(r)
  PROVE  PursuitInv'
<1>1. TypeOK /\ UNCHANGED <<tables, versions, claims>> /\ pc[r] = "renew"
  BY DEF IssuanceInv, RenewDecide, Running, issued
<1> DEFINE s == WithModules(req[r].snap)
<1>2. /\ req[r] \in Request /\ req[r].snap \in Snapshot
      /\ req[r].snap.contract \in Contracts
  BY <1>1, SnapTypes DEF Loaded
<1>3. s.srev = req[r].snap.srev /\ s.policy = req[r].snap.policy
  BY <1>1, <1>2, WithModulesType
<1>4. req[r].kind = "renewal" /\ SnapStands(req[r].snap)
  BY <1>1 DEF PursuitInv, Pursues
<1>5. ClaimsLast /\ UNCHANGED <<schedule, policy>>
  BY <1>1 DEF ClaimsLast, tables
<1> HIDE DEF s
<1>6. ASSUME Drifted(s) \/ Settled(s), Goto(r, "postpone"), UNCHANGED req
      PROVE  PursuitInv'
  <2>1. ASSUME Adopted, req[r].snap.srev = schedule.srev PROVE Pursued
    <3>1. s.policy = policy.rev /\ s.policy # 0
      BY <1>3, <1>4, <2>1 DEF SnapStands, Adopted
    <3>2. PICK e \in versions : IsCurrent(e) /\ e.content = Desired(s)
      BY <1>6, <3>1 DEF Drifted, Settled
    <3>3. e.content.policy = policy.rev
      BY <3>1, <3>2 DEF Desired
    <3> QED BY <3>2, <3>3 DEF Pursued
  <2> QED BY <1>1, <1>4, <1>5, <1>6, <2>1, PostponedPursuit
<1>7. ASSUME Goto(r, "claim"),
             req' = [req EXCEPT ![r].key = RenewalKey(s),
                                ![r].expected = <<s.crev, s.srev>>]
      PROVE  PursuitInv'
  <2>1. RenewalKey(s).content.policy = s.policy
    BY DEF RenewalKey, Desired
  <2>2. /\ req'[r].key = RenewalKey(s) /\ req'[r].expected = <<s.crev, s.srev>>
        /\ req'[r].kind = req[r].kind /\ req'[r].snap = req[r].snap
    BY <1>1, <1>2, <1>7 DEF TypeOK, Request
  <2>3. SnapStands(req[r].snap)'
    BY <1>4, <1>5, <2>2 DEF SnapStands
  <2>4. /\ req'[r].expected # NoExpectation /\ req'[r].expected[2] = req'[r].snap.srev
        /\ req'[r].key.content.policy = req'[r].snap.policy
    BY <1>3, <2>1, <2>2 DEF NoExpectation
  <2>5. ASSUME pc'[r] = "claim" PROVE Pursues(r)'
    BY <1>4, <2>2, <2>3, <2>4, <2>5 DEF Pursues, Keyed
  <2>6. \E q : req' = [req EXCEPT ![r] = q]
    BY <1>7
  <2> QED BY <1>1, <1>5, <1>7, <2>5, <2>6, MovedPursuit
<1> QED BY <1>6, <1>7 DEF RenewDecide, s

LEMMA ClaimRenewalPursuit ==
  ASSUME IssuanceInv, IssuanceInv', PursuitInv, NEW r \in Requests, ClaimRenewal(r)
  PROVE  PursuitInv'
<1> DEFINE mine == [key |-> req[r].key, owner |-> r, state |-> "claimed",
                    lapsed |-> FALSE, version |-> 0]
<1>1. UNCHANGED <<tables, versions, req>> /\ pc[r] = "claim" /\ Goto(r, "lookup")
  BY DEF ClaimRenewal, Running, issued
<1>2. mine \in claims' /\ mine.key = req[r].key
  BY DEF ClaimRenewal
<1>3. ClaimsLast
  <2> SUFFICES ASSUME NEW c \in claims PROVE \E d \in claims' : d.key = c.key
    BY DEF ClaimsLast
  <2>1. c.key # req[r].key => c \in claims'
    BY DEF ClaimRenewal
  <2> QED BY <1>2, <2>1
<1>4. "lookup" \in Keyed /\ "lookup" \notin Loaded
  BY DEF Keyed, Loaded
<1> QED BY <1>1, <1>2, <1>3, <1>4, OnwardPursuit

LEMMA ClaimBlockedPursuit ==
  ASSUME IssuanceInv, IssuanceInv', PursuitInv, NEW r \in Requests, ClaimBlocked(r)
  PROVE  PursuitInv'
<1>1. UNCHANGED <<tables, versions, claims>> /\ pc[r] = "claim" /\ ClaimsLast
  BY DEF ClaimBlocked, Running, issued, ClaimsLast
<1>2. req[r].kind = "renewal"
  BY <1>1 DEF PursuitInv, Pursues
<1>3. CASE Finish(r)
  BY <1>1, <1>3, FinishPursuit
<1>4. ASSUME Goto(r, "postpone"), UNCHANGED req, \E c \in claims : c.key = req[r].key
      PROVE  PursuitInv'
  <2>1. req[r].snap.srev = schedule.srev => Pursued
    BY <1>1, <1>2, <1>4, ClaimPursues
  <2> QED BY <1>1, <1>2, <1>4, <2>1, PostponedPursuit
<1> QED BY <1>3, <1>4 DEF ClaimBlocked

\* What is stored, or the higher version above it, carries the present policy.
LEMMA CommitPursuit ==
  ASSUME IssuanceInv, IssuanceInv', PursuitInv, NEW r \in Requests, Commit(r)
  PROVE  PursuitInv'
<1>1. TypeOK /\ pc[r] = "commit" /\ Finish(r) /\ UNCHANGED <<contract, available, policy>>
  BY DEF IssuanceInv, Commit, Running, Answer
<1>2. /\ pc'[r] = "idle" /\ req'[r] = Idle
      /\ \A p \in Requests \ {r} : pc'[p] = pc[p] /\ req'[p] = req[p]
  BY <1>1 DEF Finish, Goto, TypeOK
<1>3. schedule'.srev = schedule.srev /\ schedule.srev \in Nat
  BY <1>1 DEF Commit, TypeOK
<1>4. PICK new : new = NewVersion(r)
  OBVIOUS
<1>5. /\ new \in versions' /\ versions' = versions \cup {new}
      /\ new.version = req[r].version /\ new.content.policy = req[r].snap.policy
  BY <1>4 DEF Commit, NewVersion, Desired
<1>6. req[r].snap.policy = policy.rev
  <2>1. SnapStands(req[r].snap)
    BY <1>1 DEF PursuitInv, Pursues, Loaded
  <2> QED BY <2>1 DEF SnapStands, Commit, StateUnmoved
<1>7. Pursued'
  <2>1. req[r].version \in Nat /\ policy.rev \in Nat
    BY <1>1, SnapTypes DEF TypeOK
  <2>2. CASE \A e \in versions : e.version <= new.version
    <3>1. IsCurrent(new)'
      BY <1>5, <2>1, <2>2 DEF IsCurrent
    <3> QED BY <1>1, <1>5, <1>6, <3>1 DEF Pursued
  <2>3. CASE ~\A e \in versions : e.version <= new.version
    <3>1. PICK e \in versions : e.version = schedule.latest
      BY <2>3 DEF IssuanceInv, LatestIsHighest
    <3>2. \A f \in versions : f.version <= e.version
      BY <3>1 DEF IssuanceInv, LatestIsHighest
    <3>3. \A f \in versions : f.version \in Nat
      BY VersionTypes
    <3>4. new.version < e.version
      BY <1>5, <2>1, <2>3, <3>2, <3>3
    <3>5. IsCurrent(e)'
      BY <1>5, <2>1, <3>2, <3>3, <3>4 DEF IsCurrent
    <3>6. req[r].snap.policy <= e.content.policy
      BY <1>1, <1>5, <3>4 DEF IssuanceInv, NumberedInOrder, Numbered
    <3>7. e.content.policy \in Nat /\ e.content.policy <= policy.rev
      BY VersionTypes DEF NotAhead
    <3>8. e.content.policy = policy.rev
      BY <1>6, <2>1, <3>6, <3>7
    <3> QED BY <1>1, <1>5, <3>5, <3>8 DEF Pursued
  <2> QED BY <2>2, <2>3
<1>8. ClaimsLast
  <2> SUFFICES ASSUME NEW c \in claims PROVE \E d \in claims' : d.key = c.key
    BY DEF ClaimsLast
  <2>1. CASE c \in HeldClaims(r)
    <3> DEFINE d == [c EXCEPT !.state = "issued", !.version = req[r].version]
    <3>1. d \in claims'
      BY <2>1 DEF Commit
    <3>2. d.key = c.key
      BY <1>1 DEF TypeOK, Claim
    <3> QED BY <3>1, <3>2
  <2>2. CASE c \notin HeldClaims(r)
    BY <2>2 DEF Commit
  <2> QED BY <2>1, <2>2
<1>9. Lasting /\ SavedPolicyPursued'
  BY <1>1, <1>3, <1>7, <1>8 DEF Lasting, SavedPolicyPursued, PursuitInv, Adopted
<1>10. Pursues(r)'
  BY <1>2 DEF Pursues, Idle, Keyed, Loaded
<1> QED BY <1>2, <1>9, <1>10, PursuitStep

\* The check is put off only by who read the present revision.
LEMMA PostponePursuit ==
  ASSUME IssuanceInv, IssuanceInv', PursuitInv, NEW r \in Requests, Postpone(r)
  PROVE  PursuitInv'
<1>1. /\ TypeOK /\ pc[r] = "postpone" /\ Finish(r)
      /\ UNCHANGED <<contract, available, policy, versions, claims>>
  BY DEF IssuanceInv, Postpone, Running, issued
<1>2. /\ pc'[r] = "idle" /\ req'[r] = Idle
      /\ \A p \in Requests \ {r} : pc'[p] = pc[p] /\ req'[p] = req[p]
  BY <1>1 DEF Finish, Goto, TypeOK
<1>3. schedule'.srev = schedule.srev /\ schedule.srev \in Nat
  BY <1>1 DEF Postpone, TypeOK
<1>4. Pursued => Pursued'
  BY <1>1, StoredLasts DEF ClaimsLast
<1>5. SavedPolicyPursued'
  <2>1. CASE Unmoved(req[r].snap)
    <3>1. req[r].snap.srev = schedule.srev
      BY <2>1 DEF Unmoved
    <3>2. Adopted => Pursued
      BY <1>1, <3>1 DEF PursuitInv, Pursues
    <3> QED BY <1>1, <1>4, <3>2 DEF SavedPolicyPursued, Adopted
  <2>2. CASE ~Unmoved(req[r].snap)
    <3>1. schedule' = schedule
      BY <2>2 DEF Postpone
    <3> QED BY <1>1, <1>4, <3>1 DEF PursuitInv, SavedPolicyPursued, Adopted
  <2> QED BY <2>1, <2>2
<1>6. Lasting
  BY <1>1, <1>3, <1>4 DEF Lasting, PursuitInv, Adopted, ClaimsLast
<1>7. Pursues(r)'
  BY <1>2 DEF Pursues, Idle, Keyed, Loaded
<1> QED BY <1>2, <1>5, <1>6, <1>7, PursuitStep

\* Every change of the schedule's revision makes the check due.
LEMMA RaisedPursuit ==
  ASSUME IssuanceInv, IssuanceInv', PursuitInv, versions' = versions, ClaimsLast,
         schedule'.srev = schedule.srev + 1, schedule'.due, Adopted' => available',
         \A r \in Requests :
           \/ pc'[r] = pc[r] /\ req'[r] = req[r]
           \/ Pursues(r)'
  PROVE  PursuitInv'
<1>1. schedule.srev \in Nat
  BY DEF IssuanceInv, TypeOK
<1>2. Lasting /\ SavedPolicyPursued'
  BY <1>1, StoredLasts DEF Lasting, SavedPolicyPursued
<1> QED BY <1>2, PursuitStep

LEMMA SaveCommitPursuit ==
  ASSUME IssuanceInv, IssuanceInv', PursuitInv, NEW r \in Requests, SaveCommit(r)
  PROVE  PursuitInv'
<1>1. /\ TypeOK /\ pc[r] = "save" /\ UNCHANGED <<versions, claims, available>>
      /\ SaveAllowed(r)
  BY DEF IssuanceInv, SaveCommit, Running, issued
<1>2. schedule'.srev = schedule.srev + 1 /\ schedule'.due
  BY <1>1 DEF SaveCommit, TypeOK
<1>3. available
  BY <1>1 DEF SaveAllowed, PursuitInv, Adopted
<1>4. req[r].kind # "renewal"
  BY <1>1 DEF PursuitInv, Pursues
<1>5. /\ pc'[r] = "lookup" /\ req'[r].kind = req[r].kind
      /\ \A p \in Requests \ {r} : pc'[p] = pc[p] /\ req'[p] = req[p]
  BY <1>1 DEF SaveCommit, Goto, TypeOK, Request
<1>6. Pursues(r)'
  BY <1>4, <1>5 DEF Pursues, Loaded
<1> QED BY <1>1, <1>2, <1>3, <1>5, <1>6, RaisedPursuit DEF ClaimsLast

LEMMA AssignCommitPursuit ==
  ASSUME IssuanceInv, IssuanceInv', PursuitInv, NEW r \in Requests, AssignCommit(r)
  PROVE  PursuitInv'
<1>1. TypeOK /\ Finish(r) /\ UNCHANGED <<contract, available, policy, versions, claims>>
  BY DEF IssuanceInv, AssignCommit, issued
<1>2. /\ pc'[r] = "idle" /\ req'[r] = Idle
      /\ \A p \in Requests \ {r} : pc'[p] = pc[p] /\ req'[p] = req[p]
  BY <1>1 DEF Finish, Goto, TypeOK
<1>3. Pursues(r)' /\ ClaimsLast
  BY <1>1, <1>2 DEF Pursues, Idle, Keyed, Loaded, ClaimsLast
<1>4. CASE Adopted
  <2>1. UNCHANGED <<tables, versions>>
    BY <1>1, <1>4 DEF AssignCommit, tables
  <2> QED BY <1>1, <1>3, <2>1, FinishPursuit
<1>5. CASE ~Adopted
  <2>1. schedule'.srev = schedule.srev + 1 /\ schedule'.due /\ ~Adopted'
    BY <1>1, <1>5 DEF AssignCommit, TypeOK, Adopted
  <2> QED BY <1>1, <1>2, <1>3, <2>1, RaisedPursuit
<1> QED BY <1>4, <1>5

LEMMA OperatorPursuit ==
  ASSUME IssuanceInv, IssuanceInv', PursuitInv, Operator PROVE PursuitInv'
<1>1. UNCHANGED <<policy, versions, claims, pc, req>> /\ ClaimsLast /\ TypeOK
  BY DEF Operator, UpdateControls, UpdateContract, SetDeploymentStatus, issued,
     ClaimsLast, IssuanceInv
<1>2. ASSUME UNCHANGED schedule, Adopted => UNCHANGED available PROVE PursuitInv'
  <2>1. Lasting /\ SavedPolicyPursued'
    BY <1>1, <1>2, StoredLasts
       DEF Lasting, SavedPolicyPursued, PursuitInv, Adopted, TypeOK
  <2> QED BY <1>1, <2>1, PursuitStep
<1>3. ASSUME NEW c \in Contracts, NEW t \in Settings, UpdateControls(c, t)
      PROVE  PursuitInv'
  <2>1. CASE schedule.contract = c
    <3>1. ~Adopted /\ schedule'.srev = schedule.srev + 1 /\ schedule'.due
      BY <1>1, <1>3, <2>1 DEF UpdateControls, Retired, TypeOK
    <3> QED BY <1>1, <3>1, RaisedPursuit DEF Adopted
  <2>2. CASE schedule.contract # c
    BY <1>2, <1>3, <2>2 DEF UpdateControls
  <2> QED BY <2>1, <2>2
<1>4. ASSUME NEW c \in Contracts, NEW t \in Settings, NEW m \in Settings,
             UpdateContract(c, t, m)
      PROVE  PursuitInv'
  BY <1>2, <1>4 DEF UpdateContract
<1>5. CASE SetDeploymentStatus
  BY <1>2, <1>5 DEF SetDeploymentStatus
<1> QED BY <1>3, <1>4, <1>5 DEF Operator

LEMMA TimePursuit ==
  ASSUME IssuanceInv, IssuanceInv', PursuitInv, Time PROVE PursuitInv'
<1>1. UNCHANGED <<policy, versions, pc, req, available>> /\ TypeOK
  BY DEF Time, CheckComesDue, LeaseAges, ClaimLapses, issued, tables, IssuanceInv
<1>2. ClaimsLast
  <2>1. ASSUME NEW c \in claims, ClaimLapses(c), NEW k \in claims
        PROVE  \E d \in claims' : d.key = k.key
    <3>1. /\ [c EXCEPT !.lapsed = TRUE] \in claims'
          /\ [c EXCEPT !.lapsed = TRUE].key = c.key
      BY <1>1, <2>1 DEF ClaimLapses, TypeOK, Claim
    <3>2. k # c => k \in claims'
      BY <2>1 DEF ClaimLapses
    <3> QED BY <3>1, <3>2
  <2> QED BY <2>1 DEF Time, CheckComesDue, LeaseAges, ClaimsLast
<1>3. schedule'.srev = schedule.srev /\ schedule.srev \in Nat /\ schedule'.due \in BOOLEAN
      /\ (schedule'.due = schedule.due \/ schedule'.due)
  BY <1>1 DEF Time, CheckComesDue, LeaseAges, ClaimLapses, tables, TypeOK
<1>4. Lasting /\ SavedPolicyPursued'
  BY <1>1, <1>2, <1>3, StoredLasts DEF Lasting, SavedPolicyPursued, PursuitInv, Adopted
<1> QED BY <1>1, <1>4, PursuitStep

LEMMA ArrivePursuit ==
  ASSUME IssuanceInv, IssuanceInv', PursuitInv, NEW r \in Requests, Arrive(r)
  PROVE  PursuitInv'
<1>1. UNCHANGED <<tables, versions, claims>> /\ ClaimsLast
  BY DEF Arrive, AssignRead, SaveRead, StartManual, RenewScan, issued, ClaimsLast
<1>2. ASSUME NEW q, q.kind # "renewal", NEW label \in {"assign", "save", "lookup"},
             Moves(r, q, label)
      PROVE  PursuitInv'
  BY <1>1, <1>2, OperatorsPursuit
<1>3. ASSUME NEW c \in Contracts, AssignRead(r, c) PROVE PursuitInv'
  <2>1. Moves(r, [Idle EXCEPT !.kind = "assign", !.target = c], "assign")
    BY <1>3 DEF AssignRead, Moves, Goto
  <2>2. [Idle EXCEPT !.kind = "assign", !.target = c].kind # "renewal"
    BY DEF Idle
  <2> QED BY <1>2, <2>1, <2>2
<1>4. ASSUME NEW t \in Settings, NEW m \in Settings, SaveRead(r, t, m) PROVE PursuitInv'
  <2> DEFINE same == Adopted /\ policy.terms = t /\ policy.modules = m
             q(e) == [Idle EXCEPT
                        !.kind = "service",
                        !.key  = IF same THEN [type |-> "service", rev |-> policy.rev]
                                 ELSE NoKey,
                        !.snap = [ReadState EXCEPT !.latest = e.version,
                                                   !.policy = policy.rev,
                                                   !.terms = t, !.modules = m]]
  <2>1. PICK e \in versions : Moves(r, q(e), IF same THEN "lookup" ELSE "save")
    BY <1>4 DEF SaveRead, Moves, Goto
  <2>2. q(e).kind # "renewal"
    BY DEF Idle
  <2> HIDE DEF q
  <2> QED BY <1>2, <2>1, <2>2
<1>5. ASSUME NEW k \in ManualKeys, NEW reviewed \in BOOLEAN, StartManual(r, k, reviewed)
      PROVE  PursuitInv'
  <2> DEFINE q == [Idle EXCEPT
                     !.kind = "manual", !.key = [type |-> "manual", id |-> k],
                     !.target = IF reviewed THEN schedule.contract ELSE NoContract,
                     !.expected = IF reviewed THEN <<ReadState.crev, ReadState.srev>>
                                  ELSE NoExpectation]
  <2>1. Moves(r, q, "lookup")
    BY <1>5 DEF StartManual, Moves, Goto
  <2>2. q.kind # "renewal"
    BY DEF Idle
  <2> HIDE DEF q
  <2> QED BY <1>2, <2>1, <2>2
<1> QED BY <1>3, <1>4, <1>5, RenewScanPursuit DEF Arrive

LEMMA NumberingPursuit ==
  ASSUME IssuanceInv, IssuanceInv', PursuitInv, NEW r \in Requests,
         Allocate(r) \/ ReadModules(r)
  PROVE  PursuitInv'
<1>1. TypeOK /\ UNCHANGED <<tables, versions, claims>> /\ ClaimsLast
  BY DEF IssuanceInv, Allocate, ReadModules, issued, ClaimsLast
<1>2. pc[r] \in Keyed /\ pc[r] \in Loaded
  BY DEF Allocate, ReadModules, Running, Keyed, Loaded
<1>3. /\ req[r] \in Request /\ req[r].snap \in Snapshot
      /\ req[r].snap.contract \in Contracts
  BY <1>2, SnapTypes
<1>4. /\ \E label \in Keyed : Goto(r, label)
      /\ \E q : req' = [req EXCEPT ![r] = q]
      /\ req'[r].kind = req[r].kind /\ req'[r].key = req[r].key
      /\ req'[r].expected = req[r].expected
      /\ \/ req'[r].snap = req[r].snap
         \/ req'[r].snap = WithModules(req[r].snap)
  BY <1>1, <1>3 DEF Allocate, ReadModules, TypeOK, Request, Keyed
<1>5. /\ req'[r].snap.srev = req[r].snap.srev
      /\ req'[r].snap.policy = req[r].snap.policy
  BY <1>1, <1>3, <1>4, WithModulesType
<1>6. PICK label \in Keyed : Goto(r, label)
  BY <1>4
<1>7. pc[r] # "claim"
  BY <1>2 DEF Keyed
<1> QED BY <1>1, <1>2, <1>4, <1>5, <1>6, <1>7, OnwardPursuit

LEMMA NextPursuit ==
  IssuanceInv /\ IssuanceInv' /\ PursuitInv /\ [Next]_vars => PursuitInv'
<1> SUFFICES ASSUME IssuanceInv, IssuanceInv', PursuitInv, [Next]_vars
             PROVE  PursuitInv'
  OBVIOUS
<1>1. TypeOK
  BY DEF IssuanceInv
<1>2. ASSUME NEW r \in Requests,
             LookupHit(r) \/ RacedHit(r) \/ Evict(r) \/ SaveRefused(r)
      PROVE  PursuitInv'
  <2>1. UNCHANGED <<tables, versions>> /\ ClaimsLast /\ Finish(r)
    BY <1>2 DEF LookupHit, RacedHit, Evict, SaveRefused, Answer, issued, ClaimsLast
  <2> QED BY <2>1, FinishPursuit
<1>3. ASSUME NEW r \in Requests, AllocateRefused(r) \/ RacedMiss(r) \/ Fault(r)
      PROVE  PursuitInv'
  <2>1. UNCHANGED <<tables, versions>> /\ (FailDelayed(r) \/ FailChanged(r))
    BY <1>3 DEF AllocateRefused, RacedMiss, Fault, issued
  <2>2. pc[r] \in Keyed
    BY <1>3 DEF AllocateRefused, RacedMiss, Fault, Running, Keyed
  <2> QED BY <2>1, <2>2, FailedPursuit
<1>4. ASSUME NEW r \in Requests, LookupMiss(r) \/ CommitAborted(r) PROVE PursuitInv'
  <2>1. UNCHANGED <<tables, versions, req>> /\ ClaimsLast
    BY <1>4 DEF LookupMiss, CommitAborted, issued, ClaimsLast
  <2>2. /\ pc[r] \in Keyed
        /\ \E label \in Keyed : Goto(r, label) /\ (label \in Loaded => pc[r] \in Loaded)
    BY <1>4 DEF LookupMiss, CommitAborted, Running, Keyed, Loaded
  <2>3. pc[r] # "claim"
    BY <2>2 DEF Keyed
  <2> QED BY <2>1, <2>2, <2>3, OnwardPursuit
<1>5. CASE UNCHANGED vars
  <2>1. UNCHANGED <<tables, versions, claims, pc, req>> /\ ClaimsLast
    BY <1>5 DEF vars, issued, ClaimsLast
  <2> QED BY <1>1, <2>1, StillLasting, PursuitStep
<1> QED BY <1>2, <1>3, <1>4, <1>5, OperatorPursuit, TimePursuit, ArrivePursuit, LoadPursuit,
       LoadRefusedPursuit, NumberingPursuit, RenewDecidePursuit, ClaimRenewalPursuit,
       ClaimBlockedPursuit, CommitPursuit, PostponePursuit, SaveCommitPursuit,
       AssignCommitPursuit
       DEF Next, Continue, Issue, Renewal

LEMMA InitPursuit == Init => PursuitInv
BY DEF Init, PursuitInv, SavedPolicyPursued, Adopted, Pursues, Idle, Keyed, Loaded

\* While the next check lies in the future, the highest version carries the saved
\* policy or a claim to renew under it is on record.
THEOREM SavedPolicyKept == Spec => []SavedPolicyPursued
<1>1. IssuanceInv /\ PursuitInv /\ [Next]_vars => PursuitInv'
  BY NextInv, NextPursuit
<1>2. PursuitInv => SavedPolicyPursued
  BY DEF PursuitInv
<1> QED BY <1>1, <1>2, InitPursuit, IssuanceSafe, PTL DEF Spec

-----------------------------------------------------------------------------
(* An action property.                                                     *)

\* A policy is replaced only by who had read it, and adopted only by who had read
\* the version that is current.
THEOREM NoPolicyOverwritten == Spec => NoStaleOverwrite
<1> DEFINE P == policy' # policy =>
                  \E r \in Requests :
                    /\ pc[r] = "save" /\ pc'[r] # "save"
                    /\ req[r].snap.policy = policy.rev
                    /\ policy.rev = 0 => req[r].snap.latest = schedule.latest
<1>1. IssuanceInv /\ [Next]_vars => [P]_vars
  <2> SUFFICES ASSUME IssuanceInv, Next, policy' # policy PROVE P
    OBVIOUS
  <2>1. ASSUME NEW r \in Requests, SaveCommit(r) PROVE P
    <3>1. pc[r] = "save" /\ pc'[r] # "save"
      BY <2>1 DEF SaveCommit, Running, Goto, IssuanceInv, TypeOK
    <3>2. req[r].snap.policy = policy.rev
      BY <2>1 DEF SaveCommit, SaveAllowed
    <3>3. ASSUME policy.rev = 0 PROVE req[r].snap.latest = schedule.latest
      <4>1. PICK e \in versions : IsCurrent(e) /\ e.version = req[r].snap.latest
        BY <2>1, <3>2, <3>3 DEF SaveCommit, SaveAllowed
      <4>2. PICK f \in versions : f.version = schedule.latest
        BY <4>1 DEF IssuanceInv, LatestIsHighest
      <4>3. e.version <= f.version /\ f.version <= e.version
        BY <4>1, <4>2 DEF IsCurrent, IssuanceInv, LatestIsHighest
      <4>4. e.version \in Nat /\ f.version \in Nat
        BY VersionTypes
      <4> QED BY <4>1, <4>2, <4>3, <4>4
    <3> QED BY <3>1, <3>2, <3>3
  <2>2. ASSUME Operator \/ Time PROVE FALSE
    BY <2>2 DEF Operator, Time, UpdateControls, UpdateContract, SetDeploymentStatus,
       CheckComesDue, LeaseAges, ClaimLapses, tables
  <2>3. ASSUME NEW r \in Requests, Arrive(r) \/ Fault(r) \/ Evict(r) PROVE FALSE
    BY <2>3 DEF Arrive, AssignRead, SaveRead, StartManual, RenewScan, Fault, Evict, tables
  <2>4. ASSUME NEW r \in Requests, Continue(r), ~SaveCommit(r) PROVE FALSE
    <3>1. CASE Issue(r)
      BY <3>1 DEF Issue, LookupHit, LookupMiss, Load, LoadRefused, Allocate,
         AllocateRefused, ReadModules, Commit, CommitAborted, RacedHit, RacedMiss, tables
    <3>2. CASE \/ RenewDecide(r) \/ ClaimRenewal(r) \/ ClaimBlocked(r) \/ SaveRefused(r)
               \/ AssignCommit(r) \/ Postpone(r)
      BY <3>2 DEF RenewDecide, ClaimRenewal, ClaimBlocked, SaveRefused, AssignCommit,
         Postpone, tables
    <3> QED BY <2>4, <3>1, <3>2 DEF Continue, Renewal
  <2> HIDE DEF P
  <2> QED BY <2>1, <2>2, <2>3, <2>4 DEF Next
<1> QED BY <1>1, IssuanceSafe, PTL DEF Spec, NoStaleOverwrite
=============================================================================
