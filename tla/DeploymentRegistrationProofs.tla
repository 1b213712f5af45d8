---------------------- MODULE DeploymentRegistrationProofs ----------------------
(***************************************************************************)
(* DeploymentRegistration for any processes and any bounds: the control    *)
(* plane trusts one key, the one on disk, and one token at most can still  *)
(* register the deployment.                                                *)
(*                                                                         *)
(* RegistrationInv is inductive.  Besides the three properties it says     *)
(* what a process and a request may hold: once an identity is installed,   *)
(* nothing works with another one.                                         *)
(***************************************************************************)
EXTENDS DeploymentRegistration, TLAPS

Running == {"check", "send", "wait", "mark", "up"}

\* What processes work with.
ProcessOK(p) ==
  /\ pc[p] \in Running => mine[p] = identity /\ identity # 0
  /\ pc[p] = "install" => mine[p] # 0
  /\ pc[p] \in {"send", "wait"} => token[p] # 0
  /\ pc[p] = "wait" => request[p].key = identity
  /\ pc[p] = "mark" => registered = identity

ProcessesOK == \A p \in Processes : ProcessOK(p)

StraysOK == \A c \in strays : c.key = identity /\ identity # 0

NothingUsed == registered = 0 => \A t \in DOMAIN tokens : tokens[t].used = 0

RegistrationInv ==
  /\ TypeOK
  /\ ProcessesOK
  /\ StraysOK
  /\ NothingUsed
  /\ RegistrationAgrees
  /\ OneLiveToken

LEMMA InitInv == Init => RegistrationInv
<1> SUFFICES ASSUME Init PROVE RegistrationInv
  OBVIOUS
<1> USE DEF Init
<1>1. TypeOK
  BY DEF TypeOK, Token, KeyRow, Call, NoCall, ControlPoint
<1>2. ProcessesOK /\ StraysOK /\ NothingUsed
  BY DEF ProcessesOK, ProcessOK, StraysOK, NothingUsed, Running
<1>3. RegistrationAgrees /\ OneLiveToken
  BY DEF RegistrationAgrees, OneLiveToken, Live
<1> QED BY <1>1, <1>2, <1>3 DEF RegistrationInv

\* Tokens only change in their fields, and only new ones are added.
LEMMA SupersededFacts ==
  ASSUME tokens \in Seq(Token)
  PROVE  /\ Superseded \in Seq(Token)
         /\ Len(Superseded) = Len(tokens)
         /\ DOMAIN Superseded = DOMAIN tokens
         /\ \A t \in DOMAIN tokens :
              /\ Superseded[t].used = tokens[t].used
              /\ tokens[t].used = 0 => Superseded[t].superseded
              /\ tokens[t].superseded => Superseded[t].superseded
<1>1. \A t \in DOMAIN tokens : tokens[t] \in Token
  OBVIOUS
<1>2. \A t \in DOMAIN tokens :
        [tokens[t] EXCEPT !.superseded = TRUE] \in Token
  BY <1>1 DEF Token
<1>3. DOMAIN tokens = 1 .. Len(tokens) /\ Len(tokens) \in Nat
  OBVIOUS
<1>4. Superseded \in [1 .. Len(tokens) -> Token]
  BY <1>1, <1>2, <1>3 DEF Superseded
<1>5. Superseded \in Seq(Token) /\ Len(Superseded) = Len(tokens)
  BY <1>3, <1>4
<1>6. \A t \in DOMAIN tokens :
        /\ Superseded[t].used = tokens[t].used
        /\ tokens[t].used = 0 => Superseded[t].superseded
        /\ tokens[t].superseded => Superseded[t].superseded
  BY <1>1 DEF Superseded, Token
<1> QED BY <1>3, <1>4, <1>5, <1>6

\* A live token stays the only one when others are superseded.
LEMMA TokenUpdate ==
  ASSUME tokens \in Seq(Token), NEW t \in DOMAIN tokens, NEW row \in Token
  PROVE  /\ [tokens EXCEPT ![t] = row] \in Seq(Token)
         /\ Len([tokens EXCEPT ![t] = row]) = Len(tokens)
         /\ DOMAIN [tokens EXCEPT ![t] = row] = DOMAIN tokens
<1>1. DOMAIN tokens = 1 .. Len(tokens) /\ Len(tokens) \in Nat
  OBVIOUS
<1>2. [tokens EXCEPT ![t] = row] \in [1 .. Len(tokens) -> Token]
  BY <1>1
<1>3. [tokens EXCEPT ![t] = row] \in Seq(Token)
  BY <1>1, <1>2
<1> QED BY <1>1, <1>2, <1>3

-----------------------------------------------------------------------------
(* The control plane answers a registration.                               *)

\* What a registration for the installed identity does to the tables.
LEMMA PerformFacts ==
  ASSUME TypeOK, NothingUsed, RegistrationAgrees, OneLiveToken,
         NEW c \in Call, c.token \in DOMAIN tokens, c.key = identity, identity # 0,
         Perform(c), UNCHANGED files
  PROVE  /\ active' \in BOOLEAN /\ registered' \in Nat
         /\ tokens' \in Seq(Token) /\ keys' \subseteq KeyRow
         /\ issuing' \in Nat /\ changes' \in Nat
         /\ DOMAIN tokens' = DOMAIN tokens /\ Len(tokens') = Len(tokens)
         /\ NothingUsed' /\ RegistrationAgrees' /\ OneLiveToken'
         /\ registered # 0 => registered' = registered
         /\ Outcome(c) = "ok" => registered' = identity
<1> USE DEF TypeOK, files
<1>1. CASE c.at = "claim" /\ Claimable(c)
  <2> DEFINE row == [tokens[c.token] EXCEPT !.used = c.key]
  <2>1. tokens' = [tokens EXCEPT ![c.token] = row]
    BY <1>1 DEF Perform
  <2>2. keys' = keys \cup {[key |-> c.key, token |-> c.token]} /\ registered' = c.key
    BY <1>1 DEF Perform
  <2>3. UNCHANGED <<active, issuing, changes>>
    BY <1>1 DEF Perform
  <2>4. registered = 0 /\ tokens[c.token].used = 0 /\ ~tokens[c.token].superseded
    BY <1>1 DEF Claimable, Untouched
  <2>5. tokens[c.token] \in Token /\ c.key \in Nat /\ c.token \in Nat
    BY DEF Call
  <2>6. row \in Token /\ row.used = c.key
    BY <2>5 DEF Token
  <2>7. /\ tokens' \in Seq(Token) /\ DOMAIN tokens' = DOMAIN tokens
        /\ Len(tokens') = Len(tokens)
    BY <2>1, <2>6, TokenUpdate
  <2>8. tokens'[c.token] = row
    BY <2>1
  <2>9. \A t \in DOMAIN tokens : t # c.token => tokens'[t] = tokens[t]
    BY <2>1
  <2> HIDE DEF row
  <2>10. keys = {} /\ keys' = {[key |-> registered', token |-> c.token]}
    BY <2>2, <2>4 DEF RegistrationAgrees
  <2>11. keys' \subseteq KeyRow
    BY <2>2, <2>5, <2>10 DEF KeyRow
  <2>12. RegistrationAgrees'
    <3>1. marked = 0
      BY <2>4 DEF RegistrationAgrees
    <3>2. tokens'[c.token].used = registered' /\ c.token \in DOMAIN tokens'
      BY <2>2, <2>6, <2>7, <2>8
    <3> QED BY <3>1, <3>2, <2>2, <2>10 DEF RegistrationAgrees
  <2>13. NothingUsed'
    BY <2>2 DEF NothingUsed
  <2>14. OneLiveToken'
    <3>1. \A t \in DOMAIN tokens' : ~Live(t)'
      <4> SUFFICES ASSUME NEW t \in DOMAIN tokens' PROVE ~Live(t)'
        OBVIOUS
      <4>1. CASE t = c.token
        BY <4>1, <2>6, <2>8 DEF Live
      <4>2. CASE t # c.token
        BY <4>2, <2>4, <2>7, <2>9 DEF Live, OneLiveToken
      <4> QED BY <4>1, <4>2
    <3> QED BY <3>1 DEF OneLiveToken
  <2> QED BY <2>2, <2>3, <2>4, <2>5, <2>7, <2>11, <2>12, <2>13, <2>14
<1>2. CASE ~(c.at = "claim" /\ Claimable(c))
  <2>1. UNCHANGED control
    BY <1>2 DEF Perform
  <2>2. NothingUsed' /\ RegistrationAgrees' /\ OneLiveToken'
    BY <2>1 DEF control, NothingUsed, RegistrationAgrees, OneLiveToken, Live
  <2>3. Outcome(c) = "ok" => registered = c.key
    <3>1. c.at \in {"read", "claim"}
      BY DEF Call
    <3> QED BY <1>2, <3>1 DEF Outcome, Recoverable
  <2> QED BY <2>1, <2>2, <2>3 DEF control
<1> QED BY <1>1, <1>2

-----------------------------------------------------------------------------
(* Steps of operators.                                                     *)

LEMMA IssueCommitInv == RegistrationInv /\ IssueCommit => RegistrationInv'
<1> SUFFICES ASSUME RegistrationInv, IssueCommit PROVE RegistrationInv'
  OBVIOUS
<1> USE DEF RegistrationInv
<1>1. /\ issuing' \in Nat
      /\ UNCHANGED <<active, registered, keys, changes, given, files, process, strays, faults>>
  BY DEF IssueCommit, TypeOK
<1>2. CASE ~Prerequisites
  <2>1. tokens' = tokens
    BY <1>2 DEF IssueCommit
  <2>2. TypeOK'
    BY <1>1, <2>1 DEF TypeOK, files, process
  <2>3. ProcessesOK' /\ StraysOK'
    BY <1>1 DEF ProcessesOK, ProcessOK, StraysOK, Running, files, process
  <2>4. NothingUsed' /\ RegistrationAgrees' /\ OneLiveToken'
    BY <1>1, <2>1 DEF NothingUsed, RegistrationAgrees, OneLiveToken, Live, files
  <2> QED BY <2>2, <2>3, <2>4
<1>3. CASE Prerequisites
  <2>1. tokens' = Append(Superseded, FreshToken)
    BY <1>3 DEF IssueCommit
  <2>2. tokens \in Seq(Token) /\ FreshToken \in Token
    BY DEF TypeOK, FreshToken, Token
  <2>3. /\ Superseded \in Seq(Token)
        /\ Len(Superseded) = Len(tokens)
        /\ DOMAIN Superseded = DOMAIN tokens
        /\ \A t \in DOMAIN tokens :
              /\ Superseded[t].used = tokens[t].used
              /\ tokens[t].used = 0 => Superseded[t].superseded
    BY <2>2, SupersededFacts
  <2>4. /\ tokens' \in Seq(Token) /\ Len(tokens') = Len(tokens) + 1
        /\ DOMAIN tokens' = DOMAIN tokens \cup {Len(tokens) + 1}
        /\ Len(tokens) + 1 \notin DOMAIN tokens
    BY <2>1, <2>2, <2>3
  <2>5. \A t \in DOMAIN tokens : tokens'[t] = Superseded[t]
    BY <2>1, <2>2, <2>3
  <2>6. tokens'[Len(tokens) + 1] = FreshToken
    BY <2>1, <2>2, <2>3
  <2>7. registered = 0
    BY <1>3 DEF Prerequisites
  <2>8. 0 .. Len(tokens) \subseteq 0 .. Len(tokens')
    BY <2>2, <2>4
  <2>9. TypeOK'
    BY <1>1, <2>4, <2>8 DEF TypeOK, files, process
  <2>10. ProcessesOK' /\ StraysOK'
    BY <1>1 DEF ProcessesOK, ProcessOK, StraysOK, Running, files, process
  <2>11. NothingUsed'
    BY <2>3, <2>4, <2>5, <2>6, <2>7 DEF NothingUsed, FreshToken
  <2>12. RegistrationAgrees'
    BY <1>1, <2>7 DEF RegistrationAgrees, files
  <2>13. \A t \in DOMAIN tokens : ~Live(t)'
    BY <2>3, <2>5 DEF Live
  <2>14. OneLiveToken'
    BY <1>1, <2>4, <2>7, <2>13 DEF OneLiveToken
  <2> QED BY <2>9, <2>10, <2>11, <2>12, <2>14
<1> QED BY <1>2, <1>3

LEMMA RevokeInv == RegistrationInv /\ RevokeInstallTokens => RegistrationInv'
<1> SUFFICES ASSUME RegistrationInv, RevokeInstallTokens PROVE RegistrationInv'
  OBVIOUS
<1> USE DEF RegistrationInv
<1>1. /\ changes' \in Nat /\ tokens' = Superseded
      /\ UNCHANGED <<active, registered, keys, issuing, given, files, process, strays, faults>>
  BY DEF RevokeInstallTokens, TypeOK
<1>2. /\ Superseded \in Seq(Token)
      /\ Len(Superseded) = Len(tokens)
      /\ DOMAIN Superseded = DOMAIN tokens
      /\ \A t \in DOMAIN tokens :
            /\ Superseded[t].used = tokens[t].used
            /\ tokens[t].superseded => Superseded[t].superseded
  BY SupersededFacts DEF TypeOK
<1>3. TypeOK'
  BY <1>1, <1>2 DEF TypeOK, files, process
<1>4. ProcessesOK' /\ StraysOK'
  BY <1>1 DEF ProcessesOK, ProcessOK, StraysOK, Running, files, process
<1>5. NothingUsed'
  BY <1>1, <1>2 DEF NothingUsed
<1>6. RegistrationAgrees'
  BY <1>1, <1>2 DEF RegistrationAgrees, files
<1>7. OneLiveToken'
  BY <1>1, <1>2 DEF OneLiveToken, Live
<1> QED BY <1>3, <1>4, <1>5, <1>6, <1>7

LEMMA ExpireInv ==
  ASSUME RegistrationInv, NEW t \in DOMAIN tokens, Expire(t) PROVE RegistrationInv'
<1> USE DEF RegistrationInv
<1> DEFINE row == [tokens[t] EXCEPT !.expired = TRUE]
<1>1. /\ tokens' = [tokens EXCEPT ![t] = row]
      /\ UNCHANGED <<active, registered, keys, issuing, changes, given, files, process,
                     strays, faults>>
  BY DEF Expire
<1>2. tokens \in Seq(Token) /\ tokens[t] \in Token
  BY DEF TypeOK
<1>3. /\ row \in Token /\ row.used = tokens[t].used
      /\ row.superseded = tokens[t].superseded
  BY <1>2 DEF Token
<1> HIDE DEF row
<1>4. /\ tokens' \in Seq(Token) /\ Len(tokens') = Len(tokens)
      /\ DOMAIN tokens' = DOMAIN tokens
  BY <1>1, <1>2, <1>3, TokenUpdate
<1>5. \A u \in DOMAIN tokens :
        /\ tokens'[u].used = tokens[u].used
        /\ tokens'[u].superseded = tokens[u].superseded
  BY <1>1, <1>2, <1>3
<1>6. TypeOK'
  BY <1>1, <1>4 DEF TypeOK, files, process
<1>7. ProcessesOK' /\ StraysOK'
  BY <1>1 DEF ProcessesOK, ProcessOK, StraysOK, Running, files, process
<1>8. NothingUsed'
  BY <1>1, <1>4, <1>5 DEF NothingUsed
<1>9. RegistrationAgrees'
  BY <1>1, <1>4, <1>5 DEF RegistrationAgrees, files
<1>10. OneLiveToken'
  BY <1>1, <1>4, <1>5 DEF OneLiveToken, Live
<1> QED BY <1>6, <1>7, <1>8, <1>9, <1>10

\* The steps that leave the tables' tokens, keys and registration alone, and what
\* the agent has.
LEMMA OtherOperatorInv ==
  RegistrationInv /\ (IssueCheck \/ Configure \/ SetDeploymentStatus) => RegistrationInv'
<1> SUFFICES ASSUME RegistrationInv, IssueCheck \/ Configure \/ SetDeploymentStatus
             PROVE  RegistrationInv'
  OBVIOUS
<1> USE DEF RegistrationInv
<1>1. /\ active' \in BOOLEAN /\ issuing' \in Nat /\ changes' \in Nat
      /\ given' \in 0 .. Len(tokens)
      /\ UNCHANGED <<registered, tokens, keys, files, process, strays, faults>>
  <2>1. CASE IssueCheck
    BY <2>1 DEF IssueCheck, TypeOK
  <2>2. CASE Configure
    <3>1. Len(tokens) \in Nat
      BY DEF TypeOK
    <3>2. given' \in 0 .. Len(tokens)
      BY <2>2, <3>1 DEF Configure
    <3> QED BY <2>2, <3>2 DEF Configure, control, TypeOK
  <2>3. CASE SetDeploymentStatus
    BY <2>3 DEF SetDeploymentStatus, TypeOK
  <2> QED BY <2>1, <2>2, <2>3
<1>2. TypeOK'
  BY <1>1 DEF TypeOK, files, process
<1>3. ProcessesOK' /\ StraysOK'
  BY <1>1 DEF ProcessesOK, ProcessOK, StraysOK, Running, files, process
<1>4. NothingUsed' /\ RegistrationAgrees' /\ OneLiveToken'
  BY <1>1 DEF NothingUsed, RegistrationAgrees, OneLiveToken, Live, files
<1> QED BY <1>2, <1>3, <1>4

-----------------------------------------------------------------------------
(* Steps of the agent.                                                     *)

\* A process's step that leaves the tables and what is on its way to them alone
\* only has to keep that process in order.
LEMMA LocalStep ==
  ASSUME RegistrationInv, NEW p \in Processes,
         UNCHANGED <<control, given, files, strays>>,
         minted' \in Nat, faults' \in Nat,
         NEW point \in ControlPoint, pc' = [pc EXCEPT ![p] = point],
         NEW key \in Nat, mine' = [mine EXCEPT ![p] = key],
         NEW tok \in 0 .. Len(tokens), token' = [token EXCEPT ![p] = tok],
         NEW call \in Call, request' = [request EXCEPT ![p] = call],
         point = "wait" => call.token \in DOMAIN tokens,
         ProcessOK(p)'
  PROVE  RegistrationInv'
<1> USE DEF RegistrationInv
<1>1. TypeOK'
  BY DEF TypeOK, control, files
<1>2. ProcessesOK'
  <2> SUFFICES ASSUME NEW q \in Processes PROVE ProcessOK(q)'
    BY DEF ProcessesOK
  <2>1. CASE q = p
    BY <2>1
  <2>2. CASE q # p
    <3>1. /\ pc'[q] = pc[q] /\ mine'[q] = mine[q] /\ token'[q] = token[q]
          /\ request'[q] = request[q]
      BY <2>2 DEF TypeOK
    <3> QED BY <3>1 DEF ProcessesOK, ProcessOK, files, control
  <2> QED BY <2>1, <2>2
<1>3. StraysOK' /\ NothingUsed'
  BY DEF StraysOK, NothingUsed, files, control
<1>4. RegistrationAgrees' /\ OneLiveToken'
  BY DEF RegistrationAgrees, OneLiveToken, Live, files, control
<1> QED BY <1>1, <1>2, <1>3, <1>4

LEMMA NoCallType == NoCall \in Call
BY DEF NoCall, Call

LEMMA StartInv ==
  ASSUME RegistrationInv, NEW p \in Processes, Start(p) PROVE RegistrationInv'
<1> USE DEF RegistrationInv
<1>1. /\ pc \in [Processes -> ControlPoint] /\ mine \in [Processes -> Nat]
      /\ token \in [Processes -> 0 .. Len(tokens)]
      /\ request \in [Processes -> Call]
      /\ given \in 0 .. Len(tokens) /\ identity \in Nat /\ minted \in Nat
      /\ faults \in Nat
  BY DEF TypeOK
<1>2. /\ token' = [token EXCEPT ![p] = given]
      /\ UNCHANGED <<control, given, files, request, strays, faults>>
  BY DEF Start
<1>3. request' = [request EXCEPT ![p] = request[p]] /\ request[p] \in Call
  BY <1>1, <1>2
<1>4. CASE identity # 0
  <2>1. /\ mine' = [mine EXCEPT ![p] = identity] /\ pc' = [pc EXCEPT ![p] = "check"]
        /\ minted' = minted
    BY <1>4 DEF Start, Goto
  <2>2. ProcessOK(p)'
    BY <1>1, <1>2, <1>4, <2>1 DEF ProcessOK, files
  <2>3. "check" \in ControlPoint
    BY DEF ControlPoint
  <2> QED BY <1>1, <1>2, <1>3, <2>1, <2>2, <2>3, LocalStep
<1>5. CASE identity = 0
  <2>1. /\ mine' = [mine EXCEPT ![p] = minted + 1]
        /\ pc' = [pc EXCEPT ![p] = "install"] /\ minted' = minted + 1
    BY <1>5 DEF Start, Goto
  <2>2. ProcessOK(p)'
    BY <1>1, <2>1 DEF ProcessOK, Running
  <2>3. "install" \in ControlPoint /\ minted + 1 \in Nat
    BY <1>1 DEF ControlPoint
  <2> QED BY <1>1, <1>2, <1>3, <2>1, <2>2, <2>3, LocalStep
<1> QED BY <1>4, <1>5

\* Before an identity is installed nothing is registered or on its way.
LEMMA NothingBefore ==
  ASSUME RegistrationInv, identity = 0
  PROVE  /\ registered = 0 /\ marked = 0 /\ strays = {}
         /\ \A q \in Processes : pc[q] \notin Running
<1> USE DEF RegistrationInv
<1>1. registered = 0 /\ marked = 0
  BY DEF RegistrationAgrees
<1>2. strays = {} /\ \A q \in Processes : pc[q] \notin Running
  BY DEF StraysOK, ProcessesOK, ProcessOK
<1> QED BY <1>1, <1>2

LEMMA InstallInv ==
  ASSUME RegistrationInv, NEW p \in Processes, Install(p) PROVE RegistrationInv'
<1> USE DEF RegistrationInv
<1>1. /\ pc[p] = "install" /\ mine[p] # 0 /\ mine[p] \in Nat /\ identity \in Nat
      /\ pc \in [Processes -> ControlPoint] /\ mine \in [Processes -> Nat]
  BY DEF Install, TypeOK, ProcessesOK, ProcessOK
<1>2. /\ identity' = IF identity = 0 THEN mine[p] ELSE identity
      /\ mine' = [mine EXCEPT ![p] = identity'] /\ pc' = [pc EXCEPT ![p] = "check"]
      /\ UNCHANGED <<control, given, marked, minted, token, request, strays, faults>>
  BY DEF Install, Adopted, Goto
<1>3. identity' \in Nat /\ identity' # 0
  BY <1>1, <1>2
<1>4. TypeOK'
  <2>1. "check" \in ControlPoint
    BY DEF ControlPoint
  <2>2. pc' \in [Processes -> ControlPoint] /\ mine' \in [Processes -> Nat]
    BY <1>1, <1>2, <1>3, <2>1
  <2>3. \A q \in Processes : pc'[q] = "wait" => pc[q] = "wait"
    BY <1>1, <1>2
  <2> QED BY <1>2, <1>3, <2>2, <2>3 DEF TypeOK, control
<1>5. ProcessesOK'
  <2> SUFFICES ASSUME NEW q \in Processes PROVE ProcessOK(q)'
    BY DEF ProcessesOK
  <2>1. CASE q = p
    BY <2>1, <1>1, <1>2, <1>3 DEF ProcessOK
  <2>2. CASE q # p
    <3>1. pc'[q] = pc[q] /\ mine'[q] = mine[q]
      BY <2>2, <1>1, <1>2
    <3>2. pc[q] \in Running => identity' = identity
      BY <1>2, NothingBefore
    <3>3. ProcessOK(q)
      BY DEF ProcessesOK
    <3> QED BY <1>2, <3>1, <3>2, <3>3 DEF ProcessOK, Running, control
  <2> QED BY <2>1, <2>2
<1>6. StraysOK' /\ RegistrationAgrees'
  <2>1. CASE identity = 0
    BY <2>1, <1>2, NothingBefore DEF StraysOK, RegistrationAgrees, control
  <2>2. CASE identity # 0
    BY <2>2, <1>2 DEF StraysOK, RegistrationAgrees, control
  <2> QED BY <2>1, <2>2
<1>7. NothingUsed' /\ OneLiveToken'
  BY <1>2 DEF NothingUsed, OneLiveToken, Live, control
<1> QED BY <1>4, <1>5, <1>6, <1>7

LEMMA CheckInv ==
  ASSUME RegistrationInv, NEW p \in Processes, Check(p) PROVE RegistrationInv'
<1> USE DEF RegistrationInv
<1> DEFINE point == IF marked = mine[p] THEN "up"
                    ELSE IF marked = 0 /\ HasToken(p) THEN "send" ELSE "down"
<1>1. /\ pc \in [Processes -> ControlPoint] /\ mine \in [Processes -> Nat]
      /\ token \in [Processes -> 0 .. Len(tokens)] /\ request \in [Processes -> Call]
      /\ minted \in Nat /\ faults \in Nat
  BY DEF TypeOK
<1>2. /\ pc[p] = "check" /\ pc' = [pc EXCEPT ![p] = point]
      /\ UNCHANGED <<control, given, files, minted, mine, token, request, strays, faults>>
  BY DEF Check, Goto
<1>3. point \in ControlPoint /\ point # "wait" /\ point \notin {"install", "mark"}
      /\ (point = "send" => token[p] # 0)
  BY DEF ControlPoint, HasToken
<1> HIDE DEF point
<1>4. mine[p] = identity /\ identity # 0
  BY <1>2 DEF ProcessesOK, ProcessOK, Running
<1>5. ProcessOK(p)'
  BY <1>1, <1>2, <1>3, <1>4 DEF ProcessOK, files
<1>6. /\ mine' = [mine EXCEPT ![p] = mine[p]] /\ token' = [token EXCEPT ![p] = token[p]]
      /\ request' = [request EXCEPT ![p] = request[p]]
      /\ mine[p] \in Nat /\ token[p] \in 0 .. Len(tokens) /\ request[p] \in Call
  BY <1>1, <1>2
<1> QED BY <1>1, <1>2, <1>3, <1>5, <1>6, LocalStep

LEMMA SendInv ==
  ASSUME RegistrationInv, NEW p \in Processes, Send(p) PROVE RegistrationInv'
<1> USE DEF RegistrationInv
<1> DEFINE call == [key |-> mine[p], token |-> token[p], at |-> "read"]
<1>1. /\ pc \in [Processes -> ControlPoint] /\ mine \in [Processes -> Nat]
      /\ token \in [Processes -> 0 .. Len(tokens)] /\ request \in [Processes -> Call]
      /\ minted \in Nat /\ faults \in Nat /\ tokens \in Seq(Token)
  BY DEF TypeOK
<1>2. /\ pc[p] = "send" /\ pc' = [pc EXCEPT ![p] = "wait"]
      /\ request' = [request EXCEPT ![p] = call]
      /\ UNCHANGED <<control, given, files, minted, mine, token, strays, faults>>
  BY DEF Send, Goto
<1>3. mine[p] = identity /\ identity # 0 /\ token[p] # 0
  BY <1>2 DEF ProcessesOK, ProcessOK, Running
<1>4. token[p] \in 1 .. Len(tokens) /\ token[p] \in DOMAIN tokens
  BY <1>1, <1>3
<1>5. call \in Call /\ call.key = identity /\ call.token \in DOMAIN tokens
  BY <1>1, <1>3, <1>4 DEF Call
<1> HIDE DEF call
<1>6. ProcessOK(p)'
  BY <1>1, <1>2, <1>3, <1>5 DEF ProcessOK, files
<1>7. /\ mine' = [mine EXCEPT ![p] = mine[p]] /\ token' = [token EXCEPT ![p] = token[p]]
      /\ mine[p] \in Nat /\ token[p] \in 0 .. Len(tokens) /\ "wait" \in ControlPoint
  BY <1>1, <1>2 DEF ControlPoint
<1> QED BY <1>1, <1>2, <1>5, <1>6, <1>7, LocalStep

LEMMA HandleInv ==
  ASSUME RegistrationInv, NEW p \in Processes, Handle(p) PROVE RegistrationInv'
<1> USE DEF RegistrationInv
<1> DEFINE c == request[p]
<1>1. /\ pc \in [Processes -> ControlPoint] /\ request \in [Processes -> Call]
      /\ c \in Call /\ pc[p] = "wait" /\ c.token \in DOMAIN tokens
  BY DEF TypeOK, Handle
<1>2. c.key = identity /\ identity # 0 /\ mine[p] = identity /\ token[p] # 0
  BY <1>1 DEF ProcessesOK, ProcessOK, Running
<1>3. /\ Perform(c)
      /\ UNCHANGED <<given, files, minted, mine, token, strays, faults>>
  BY DEF Handle
<1>4. /\ active' \in BOOLEAN /\ registered' \in Nat
      /\ tokens' \in Seq(Token) /\ keys' \subseteq KeyRow
      /\ issuing' \in Nat /\ changes' \in Nat
      /\ DOMAIN tokens' = DOMAIN tokens /\ Len(tokens') = Len(tokens)
      /\ NothingUsed' /\ RegistrationAgrees' /\ OneLiveToken'
      /\ registered # 0 => registered' = registered
      /\ Outcome(c) = "ok" => registered' = identity
  BY <1>1, <1>2, <1>3, PerformFacts
<1>5. /\ pc' \in [Processes -> ControlPoint] /\ request' \in [Processes -> Call]
      /\ \A q \in Processes : q # p => pc'[q] = pc[q] /\ request'[q] = request[q]
      /\ \/ pc'[p] = "wait" /\ request'[p].key = c.key /\ request'[p].token = c.token
         \/ pc'[p] = "mark" /\ registered' = identity
         \/ pc'[p] \in {"send", "down"}
  <2>1. CASE Outcome(c) = "claim"
    <3>1. request' = [request EXCEPT ![p].at = "claim"] /\ pc' = pc
      BY <2>1 DEF Handle
    <3>2. /\ [c EXCEPT !.at = "claim"] \in Call
          /\ [c EXCEPT !.at = "claim"].key = c.key
          /\ [c EXCEPT !.at = "claim"].token = c.token
      BY <1>1 DEF Call
    <3> QED BY <1>1, <3>1, <3>2
  <2>2. CASE Outcome(c) # "claim"
    <3>1. request' = [request EXCEPT ![p] = NoCall]
      BY <2>2 DEF Handle
    <3>2. \/ Outcome(c) = "ok" /\ pc' = [pc EXCEPT ![p] = "mark"]
          \/ \E point \in {"send", "down"} : pc' = [pc EXCEPT ![p] = point]
      BY <2>2 DEF Handle, Goto
    <3>3. request' \in [Processes -> Call]
          /\ \A q \in Processes : q # p => request'[q] = request[q]
      BY <1>1, <3>1, NoCallType
    <3>4. CASE Outcome(c) = "ok" /\ pc' = [pc EXCEPT ![p] = "mark"]
      BY <1>1, <1>4, <3>3, <3>4 DEF ControlPoint
    <3>5. ASSUME NEW point \in {"send", "down"}, pc' = [pc EXCEPT ![p] = point]
          PROVE  /\ pc' \in [Processes -> ControlPoint] /\ pc'[p] \in {"send", "down"}
                 /\ \A q \in Processes : q # p => pc'[q] = pc[q]
      BY <1>1, <3>5 DEF ControlPoint
    <3> QED BY <3>2, <3>3, <3>4, <3>5
  <2> QED BY <2>1, <2>2
<1> HIDE DEF c
<1>6. TypeOK'
  <2>1. ASSUME NEW q \in Processes, pc'[q] = "wait"
        PROVE  request'[q].token \in DOMAIN tokens'
    <3>1. CASE q = p
      BY <1>1, <1>4, <1>5, <2>1, <3>1
    <3>2. CASE q # p
      BY <1>4, <1>5, <2>1, <3>2 DEF TypeOK
    <3> QED BY <3>1, <3>2
  <2> QED BY <1>3, <1>4, <1>5, <2>1 DEF TypeOK, files
<1>7. ProcessesOK'
  <2> SUFFICES ASSUME NEW q \in Processes PROVE ProcessOK(q)'
    BY DEF ProcessesOK
  <2>1. CASE q = p
    BY <2>1, <1>2, <1>3, <1>5 DEF ProcessOK, Running, files
  <2>2. CASE q # p
    <3>1. ProcessOK(q) /\ pc'[q] = pc[q] /\ request'[q] = request[q]
      BY <2>2, <1>5 DEF ProcessesOK
    <3>2. pc[q] = "mark" => registered' = identity
      BY <1>4, <3>1 DEF ProcessOK, Running
    <3> QED BY <1>3, <3>1, <3>2 DEF ProcessOK, files
  <2> QED BY <2>1, <2>2
<1>8. StraysOK'
  BY <1>3 DEF StraysOK, files
<1> QED BY <1>4, <1>6, <1>7, <1>8

LEMMA MarkInv ==
  ASSUME RegistrationInv, NEW p \in Processes, Mark(p) PROVE RegistrationInv'
<1> USE DEF RegistrationInv
<1>1. /\ pc[p] = "mark" /\ registered = identity /\ mine[p] = identity /\ identity # 0
      /\ pc \in [Processes -> ControlPoint]
  BY DEF Mark, ProcessesOK, ProcessOK, Running, TypeOK
<1>2. /\ marked' = IF marked = 0 THEN identity ELSE marked
      /\ UNCHANGED <<control, given, identity, minted, mine, token, request, strays, faults>>
      /\ \E point \in {"up", "down"} : pc' = [pc EXCEPT ![p] = point]
  BY <1>1 DEF Mark, Goto
<1>3. marked' = registered
  BY <1>1, <1>2 DEF RegistrationAgrees
<1>4. /\ pc' \in [Processes -> ControlPoint] /\ pc'[p] \in {"up", "down"}
      /\ \A q \in Processes : q # p => pc'[q] = pc[q]
  BY <1>1, <1>2 DEF ControlPoint
<1>5. TypeOK'
  <2>1. \A q \in Processes : pc'[q] = "wait" => pc[q] = "wait"
    BY <1>4
  <2>2. marked' \in Nat
    BY <1>3 DEF TypeOK
  <2> QED BY <1>2, <1>4, <2>1, <2>2 DEF TypeOK, control
<1>6. ProcessesOK'
  <2> SUFFICES ASSUME NEW q \in Processes PROVE ProcessOK(q)'
    BY DEF ProcessesOK
  <2>1. CASE q = p
    BY <2>1, <1>1, <1>2, <1>4 DEF ProcessOK
  <2>2. CASE q # p
    BY <2>2, <1>2, <1>4 DEF ProcessesOK, ProcessOK, control
  <2> QED BY <2>1, <2>2
<1>7. StraysOK' /\ NothingUsed' /\ RegistrationAgrees' /\ OneLiveToken'
  BY <1>2, <1>3 DEF StraysOK, NothingUsed, RegistrationAgrees, OneLiveToken, Live, control
<1> QED BY <1>5, <1>6, <1>7

LEMMA HandleStrayInv ==
  ASSUME RegistrationInv, NEW c \in strays, HandleStray(c) PROVE RegistrationInv'
<1> USE DEF RegistrationInv
<1>1. /\ c \in Call /\ c.token \in DOMAIN tokens /\ c.key = identity /\ identity # 0
  BY DEF TypeOK, StraysOK
<1>2. Perform(c) /\ UNCHANGED <<given, files, process, faults>>
  BY DEF HandleStray
<1>3. /\ active' \in BOOLEAN /\ registered' \in Nat
      /\ tokens' \in Seq(Token) /\ keys' \subseteq KeyRow
      /\ issuing' \in Nat /\ changes' \in Nat
      /\ DOMAIN tokens' = DOMAIN tokens /\ Len(tokens') = Len(tokens)
      /\ NothingUsed' /\ RegistrationAgrees' /\ OneLiveToken'
      /\ registered # 0 => registered' = registered
  BY <1>1, <1>2, PerformFacts
<1> DEFINE next == [c EXCEPT !.at = "claim"]
<1>4. next \in Call /\ next.key = c.key /\ next.token = c.token
  BY <1>1 DEF Call
<1>5. strays' \subseteq strays \cup {next}
  BY DEF HandleStray
<1> HIDE DEF next
<1>6. StraysOK'
  BY <1>1, <1>2, <1>4, <1>5 DEF StraysOK, files
<1>7. TypeOK'
  <2>1. strays' \subseteq Call /\ \A d \in strays' : d.token \in DOMAIN tokens'
    BY <1>1, <1>3, <1>4, <1>5 DEF TypeOK
  <2> QED BY <1>2, <1>3, <2>1 DEF TypeOK, files, process
<1>8. ProcessesOK'
  <2> SUFFICES ASSUME NEW q \in Processes PROVE ProcessOK(q)'
    BY DEF ProcessesOK
  <2>1. ProcessOK(q)
    BY DEF ProcessesOK
  <2>2. pc[q] = "mark" => registered' = identity
    BY <1>3, <2>1 DEF ProcessOK, Running
  <2> QED BY <1>2, <2>1, <2>2 DEF ProcessOK, files, process
<1> QED BY <1>3, <1>6, <1>7, <1>8

LEMMA FaultInv ==
  ASSUME RegistrationInv, NEW p \in Processes, AnswerLost(p) \/ Kill(p)
  PROVE  RegistrationInv'
<1> USE DEF RegistrationInv
<1>1. /\ pc \in [Processes -> ControlPoint] /\ request \in [Processes -> Call]
      /\ tokens \in Seq(Token)
  BY DEF TypeOK
<1>2. /\ UNCHANGED <<control, given, files, minted, mine, token>>
      /\ Abandon(p)
  BY DEF AnswerLost, Kill
<1>3. \/ pc' = [pc EXCEPT ![p] = "down"]
      \/ pc[p] = "wait" /\ pc' = [pc EXCEPT ![p] = "send"]
  BY DEF AnswerLost, Kill, Goto
<1>4. /\ request' = [request EXCEPT ![p] = NoCall] /\ faults' \in Nat
      /\ \/ strays' = strays
         \/ pc[p] = "wait" /\ strays' = strays \cup {request[p]}
  BY <1>2 DEF Abandon, TypeOK
<1>5. /\ pc' \in [Processes -> ControlPoint] /\ request' \in [Processes -> Call]
      /\ \A q \in Processes : q # p => pc'[q] = pc[q] /\ request'[q] = request[q]
      /\ \/ pc'[p] = "down"
         \/ pc[p] = "wait" /\ pc'[p] = "send"
  BY <1>1, <1>3, <1>4, NoCallType DEF ControlPoint
<1>6. pc[p] = "wait" =>
        /\ request[p] \in Call /\ request[p].token \in DOMAIN tokens
        /\ request[p].key = identity /\ identity # 0
  BY DEF TypeOK, ProcessesOK, ProcessOK, Running
<1>7. StraysOK'
  BY <1>2, <1>4, <1>6 DEF StraysOK, files
<1>8. TypeOK'
  <2>1. strays' \subseteq Call /\ \A d \in strays' : d.token \in DOMAIN tokens
    BY <1>4, <1>6 DEF TypeOK
  <2>2. \A q \in Processes : pc'[q] = "wait" => request'[q].token \in DOMAIN tokens
    BY <1>5 DEF TypeOK
  <2> QED BY <1>2, <1>4, <1>5, <2>1, <2>2 DEF TypeOK, control, files
<1>9. ProcessesOK'
  <2> SUFFICES ASSUME NEW q \in Processes PROVE ProcessOK(q)'
    BY DEF ProcessesOK
  <2>1. ProcessOK(q)
    BY DEF ProcessesOK
  <2>2. CASE q = p
    BY <2>1, <2>2, <1>2, <1>5 DEF ProcessOK, Running, files, control
  <2>3. CASE q # p
    BY <2>1, <2>3, <1>2, <1>5 DEF ProcessOK, files, control
  <2> QED BY <2>2, <2>3
<1>10. NothingUsed' /\ RegistrationAgrees' /\ OneLiveToken'
  BY <1>2 DEF NothingUsed, RegistrationAgrees, OneLiveToken, Live, control, files
<1> QED BY <1>7, <1>8, <1>9, <1>10

-----------------------------------------------------------------------------
LEMMA NextInv == RegistrationInv /\ [Next]_vars => RegistrationInv'
<1> SUFFICES ASSUME RegistrationInv, [Next]_vars PROVE RegistrationInv'
  OBVIOUS
<1>1. CASE Operator
  BY <1>1, IssueCommitInv, RevokeInv, ExpireInv, OtherOperatorInv DEF Operator
<1>2. ASSUME NEW p \in Processes, Run(p) PROVE RegistrationInv'
  BY <1>2, StartInv, InstallInv, CheckInv, SendInv, HandleInv, MarkInv DEF Run
<1>3. ASSUME NEW p \in Processes, AnswerLost(p) \/ Kill(p) PROVE RegistrationInv'
  BY <1>3, FaultInv
<1>4. ASSUME NEW c \in strays, HandleStray(c) PROVE RegistrationInv'
  BY <1>4, HandleStrayInv
<1>5. CASE UNCHANGED vars
  BY <1>5 DEF RegistrationInv, TypeOK, ProcessesOK, ProcessOK, StraysOK, NothingUsed,
     RegistrationAgrees, OneLiveToken, Live, Running, vars, control, files, process
<1> QED BY <1>1, <1>2, <1>3, <1>4, <1>5 DEF Next

\* However operators, processes, faults and late requests interleave, the
\* inductive invariant holds.
THEOREM RegistrationSafe == Spec => []RegistrationInv
<1> QED BY InitInv, NextInv, PTL DEF Spec

\* Every variable keeps its type.
THEOREM RegistrationTyped == Spec => []TypeOK
<1>1. RegistrationInv => TypeOK
  BY DEF RegistrationInv
<1> QED BY <1>1, RegistrationSafe, PTL

\* For any number of processes over the state directory, kills and late requests,
\* the one key the control plane trusts is the one on disk (registerDeployment,
\* generateIdentity, markRegistered).
THEOREM OneKeyTrusted == Spec => []RegistrationAgrees
<1>1. RegistrationInv => RegistrationAgrees
  BY DEF RegistrationInv
<1> QED BY <1>1, RegistrationSafe, PTL

\* For any number of issue requests at once, one token at most can register the
\* deployment, and none once it is registered (issueInstallToken, migration 0008).
THEOREM OneTokenLives == Spec => []OneLiveToken
<1>1. RegistrationInv => OneLiveToken
  BY DEF RegistrationInv
<1> QED BY <1>1, RegistrationSafe, PTL
=============================================================================
