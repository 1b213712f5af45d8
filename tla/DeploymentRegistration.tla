------------------------ MODULE DeploymentRegistration ------------------------
(***************************************************************************)
(* How a deployment's agent becomes known to the control plane: the        *)
(* operator's install tokens and the registration of a key                 *)
(* (control-plane/src/repos/deployments.ts, migrations 0004 and 0008), and *)
(* the agent's first start (deployment-agent/src/identity.ts, runner.ts).  *)
(*                                                                         *)
(* Several agent processes may share a state directory (a container that   *)
(* is replaced while its predecessor still runs).  Requests that a process *)
(* gave up, or that outlive it, are still carried out.                     *)
(***************************************************************************)
EXTENDS Naturals, FiniteSets, Sequences

CONSTANTS
  Processes,   \* agent processes over one state directory
  MaxTokens,   \* bound: install tokens issued
  MaxIssuing,  \* bound: operators' issue requests in flight
  MaxChanges,  \* bound: revocations and changes of the deployment's status
  MaxFaults    \* bound: processes killed and answers lost

ASSUME RegistrationAssumption ==
  /\ MaxTokens \in Nat /\ MaxIssuing \in Nat
  /\ MaxChanges \in Nat /\ MaxFaults \in Nat

VARIABLES
  active,      \* deployments.status
  registered,  \* deployments.registration_key_fingerprint, 0: not registered
  tokens,      \* install_tokens, in order of creation
  keys,        \* deployment_keys
  issuing,     \* issue requests that found their prerequisites met
  given,       \* the token in the agent's environment, 0: none
  identity,    \* identity.json: a key, 0: no file
  marked,      \* registration.json: the key it names, 0: no file
  minted,      \* keys generated so far
  pc, mine,    \* control point of each process; the identity it works with
  token,       \* the token each process was started with
  request,     \* the registration each process waits for
  strays,      \* registrations nobody waits for any more
  changes, faults

control == <<active, registered, tokens, keys, issuing, changes>>
files   == <<identity, marked>>
process == <<minted, pc, mine, token, request>>
vars    == <<control, given, files, process, strays, faults>>

\* used: the key registered with it, 0: none (used_at, registration_key_fingerprint).
Token == [used: Nat, superseded: BOOLEAN, expired: BOOLEAN]
FreshToken == [used |-> 0, superseded |-> FALSE, expired |-> FALSE]

KeyRow == [key: Nat, token: Nat]

\* A registration on its way: to the reading of the token row, or to the batch.
Call   == [key: Nat, token: Nat, at: {"read", "claim"}]
NoCall == [key |-> 0, token |-> 0, at |-> "read"]

ControlPoint == {"down", "install", "check", "send", "wait", "mark", "up"}

TypeOK ==
  /\ active \in BOOLEAN /\ registered \in Nat
  /\ tokens \in Seq(Token) /\ keys \subseteq KeyRow
  /\ issuing \in Nat /\ given \in 0 .. Len(tokens)
  /\ identity \in Nat /\ marked \in Nat /\ minted \in Nat
  /\ pc \in [Processes -> ControlPoint]
  /\ mine \in [Processes -> Nat]
  /\ token \in [Processes -> 0 .. Len(tokens)]
  /\ request \in [Processes -> Call]
  /\ strays \subseteq Call
  /\ \A p \in Processes : pc[p] = "wait" => request[p].token \in DOMAIN tokens
  /\ \A c \in strays : c.token \in DOMAIN tokens
  /\ changes \in Nat /\ faults \in Nat

Init ==
  /\ active = TRUE /\ registered = 0
  /\ tokens = <<>> /\ keys = {} /\ issuing = 0 /\ given = 0
  /\ identity = 0 /\ marked = 0 /\ minted = 0
  /\ pc = [p \in Processes |-> "down"]
  /\ mine = [p \in Processes |-> 0]
  /\ token = [p \in Processes |-> 0]
  /\ request = [p \in Processes |-> NoCall]
  /\ strays = {}
  /\ changes = 0 /\ faults = 0

-----------------------------------------------------------------------------
(* Operators.                                                              *)

Superseded ==
  [t \in DOMAIN tokens |->
     IF tokens[t].used = 0 THEN [tokens[t] EXCEPT !.superseded = TRUE]
     ELSE tokens[t]]

\* Mutant: without the trigger of migration 0008.
NoPrerequisites == TRUE

Prerequisites == active /\ registered = 0

\* issueInstallToken reads the prerequisites ...
IssueCheck ==
  /\ issuing < MaxIssuing /\ active /\ registered = 0
  /\ issuing' = issuing + 1
  /\ UNCHANGED <<active, registered, tokens, keys, changes,
                 given, files, process, strays, faults>>

\* ... and its batch supersedes what is unused and inserts the token; the
\* trigger aborts it when the prerequisites are gone by then.
IssueCommit ==
  /\ issuing > 0 /\ Len(tokens) < MaxTokens
  /\ issuing' = issuing - 1
  /\ tokens' = IF Prerequisites THEN Append(Superseded, FreshToken) ELSE tokens
  /\ UNCHANGED <<active, registered, keys, changes,
                 given, files, process, strays, faults>>

\* The operator puts the newest token into the agent's environment, or takes
\* the token out of it.
Configure ==
  /\ given' \in {0, Len(tokens)} \ {given}
  /\ UNCHANGED <<control, files, process, strays, faults>>

RevokeInstallTokens ==
  /\ changes < MaxChanges
  /\ tokens' = Superseded
  /\ changes' = changes + 1
  /\ UNCHANGED <<active, registered, keys, issuing,
                 given, files, process, strays, faults>>

SetDeploymentStatus ==
  /\ changes < MaxChanges
  /\ active' = ~active
  /\ changes' = changes + 1
  /\ UNCHANGED <<registered, tokens, keys, issuing,
                 given, files, process, strays, faults>>

Expire(t) ==
  /\ ~tokens[t].expired
  /\ tokens' = [tokens EXCEPT ![t].expired = TRUE]
  /\ UNCHANGED <<active, registered, keys, issuing, changes,
                 given, files, process, strays, faults>>

-----------------------------------------------------------------------------
(* The control plane's answer to a registration.                           *)

\* Mutant: the token is checked for expiry first.
RecoverableInTime(c) ==
  /\ active /\ ~tokens[c.token].superseded /\ ~tokens[c.token].expired
  /\ tokens[c.token].used = c.key /\ registered = c.key

\* recoverRegisteredKey: the same key was registered with the same token.
\* Expiry is no matter any more.
Recoverable(c) ==
  /\ active /\ ~tokens[c.token].superseded
  /\ tokens[c.token].used = c.key /\ registered = c.key
  /\ [key |-> c.key, token |-> c.token] \in keys

\* No key was registered, and this token may still be used for one.
Untouched(c) == registered = 0 /\ tokens[c.token].used = 0

\* The row lets the batch go ahead.
Admissible(c) ==
  /\ active /\ ~tokens[c.token].superseded
  /\ Untouched(c) /\ ~tokens[c.token].expired

\* The conditions of the batch's update and of the key gate's trigger.
Claimable(c) == active /\ ~tokens[c.token].superseded /\ Untouched(c)

\* A call reaches its next point: answered "ok", "refused" (401) or "failed"
\* (5xx), or goes on to the batch.
Outcome(c) ==
  IF c.at = "read"
  THEN IF Admissible(c) THEN "claim"
       ELSE IF Recoverable(c) THEN "ok" ELSE "refused"
  ELSE IF Claimable(c) \/ Recoverable(c) THEN "ok" ELSE "failed"

\* The batch marks the token, inserts the key and registers the deployment; when
\* it is aborted nothing of it remains.
Perform(c) ==
  IF c.at = "claim" /\ Claimable(c)
  THEN /\ tokens' = [tokens EXCEPT ![c.token].used = c.key]
       /\ keys' = keys \cup {[key |-> c.key, token |-> c.token]}
       /\ registered' = c.key
       /\ UNCHANGED <<active, issuing, changes>>
  ELSE UNCHANGED control

-----------------------------------------------------------------------------
(* The agent: main, initialize.                                            *)

Goto(p, point) == pc' = [pc EXCEPT ![p] = point]

\* The process starts with the configured token and loads the identity, or
\* generates one.  Without either it exits and is started again.
Start(p) ==
  /\ pc[p] = "down"
  /\ identity # 0 \/ given # 0
  /\ token' = [token EXCEPT ![p] = given]
  /\ IF identity # 0
     THEN /\ mine' = [mine EXCEPT ![p] = identity]
          /\ Goto(p, "check")
          /\ UNCHANGED minted
     ELSE /\ minted' = minted + 1
          /\ mine' = [mine EXCEPT ![p] = minted + 1]
          /\ Goto(p, "install")
  /\ UNCHANGED <<control, given, files, request, strays, faults>>

\* Mutant: the process that finds the file installed keeps the key it made.
KeepsOwn(p) == mine[p]

\* generateIdentity: the process that comes second adopts what is installed.
Adopted(p) == IF identity = 0 THEN mine[p] ELSE identity

Install(p) ==
  /\ pc[p] = "install"
  /\ identity' = IF identity = 0 THEN mine[p] ELSE identity
  /\ mine' = [mine EXCEPT ![p] = Adopted(p)]
  /\ Goto(p, "check")
  /\ UNCHANGED <<control, given, marked, minted, token, request, strays, faults>>

HasToken(p) == token[p] # 0

\* isRegistered: a file of another identity, or no token, ends the process.
Check(p) ==
  /\ pc[p] = "check"
  /\ Goto(p, IF marked = mine[p] THEN "up"
             ELSE IF marked = 0 /\ HasToken(p) THEN "send" ELSE "down")
  /\ UNCHANGED <<control, given, files, minted, mine, token, request, strays, faults>>

Send(p) ==
  /\ pc[p] = "send"
  /\ Goto(p, "wait")
  /\ request' = [request EXCEPT ![p] =
                   [key |-> mine[p], token |-> token[p], at |-> "read"]]
  /\ UNCHANGED <<control, given, files, minted, mine, token, strays, faults>>

\* A refusal ends the process; a failure is tried again, six times at most.
Handle(p) ==
  LET outcome == Outcome(request[p]) IN
  /\ pc[p] = "wait"
  /\ Perform(request[p])
  /\ \/ /\ outcome = "claim"
        /\ request' = [request EXCEPT ![p].at = "claim"]
        /\ UNCHANGED pc
     \/ /\ outcome # "claim"
        /\ request' = [request EXCEPT ![p] = NoCall]
        /\ \/ outcome = "ok" /\ Goto(p, "mark")
           \/ outcome = "refused" /\ Goto(p, "down")
           \/ outcome = "failed" /\ \E next \in {"send", "down"} : Goto(p, next)
  /\ UNCHANGED <<given, files, minted, mine, token, strays, faults>>

\* markRegistered; a file of another identity is an error.
Mark(p) ==
  /\ pc[p] = "mark"
  /\ marked' = IF marked = 0 THEN mine[p] ELSE marked
  /\ Goto(p, IF marked' = mine[p] THEN "up" ELSE "down")
  /\ UNCHANGED <<control, given, identity, minted, mine, token, request, strays, faults>>

HandleStray(c) ==
  /\ Perform(c)
  /\ strays' = (strays \ {c}) \cup
                 IF Outcome(c) = "claim" THEN {[c EXCEPT !.at = "claim"]} ELSE {}
  /\ UNCHANGED <<given, files, process, faults>>

\* What the process was waiting for goes on without it, or never arrived.
Abandon(p) ==
  /\ request' = [request EXCEPT ![p] = NoCall]
  /\ \/ strays' = strays
     \/ pc[p] = "wait" /\ strays' = strays \cup {request[p]}
  /\ faults < MaxFaults /\ faults' = faults + 1

\* The connection breaks: a network error is tried again, or ends the process.
AnswerLost(p) ==
  /\ pc[p] = "wait"
  /\ Abandon(p)
  /\ \E next \in {"send", "down"} : Goto(p, next)
  /\ UNCHANGED <<control, given, files, minted, mine, token>>

\* The process is killed, or its container replaced.
Kill(p) ==
  /\ pc[p] # "down"
  /\ Abandon(p)
  /\ Goto(p, "down")
  /\ UNCHANGED <<control, given, files, minted, mine, token>>

-----------------------------------------------------------------------------
Operator ==
  \/ IssueCheck \/ IssueCommit \/ Configure
  \/ RevokeInstallTokens \/ SetDeploymentStatus
  \/ \E t \in DOMAIN tokens : Expire(t)

Run(p) ==
  Start(p) \/ Install(p) \/ Check(p) \/ Send(p) \/ Handle(p) \/ Mark(p)

Next ==
  \/ Operator
  \/ \E p \in Processes : Run(p) \/ AnswerLost(p) \/ Kill(p)
  \/ \E c \in strays : HandleStray(c)

Spec == Init /\ [][Next]_vars

\* A process runs on while it lives and its container is restarted when it ends
\* (compose.yaml: restart: unless-stopped).  Operators owe nothing.
FairSpec == Spec /\ \A p \in Processes : WF_vars(Run(p))

-----------------------------------------------------------------------------
(* Properties.                                                             *)

\* The control plane trusts one key, the one whose private part is on disk, and
\* the agent counts itself registered only then, however processes race and
\* requests outlive them.
RegistrationAgrees ==
  /\ registered # 0 =>
       /\ registered = identity
       /\ \E t \in DOMAIN tokens :
            keys = {[key |-> registered, token |-> t]} /\ tokens[t].used = registered
  /\ registered = 0 => keys = {}
  /\ marked # 0 => marked = registered

Live(t) == tokens[t].used = 0 /\ ~tokens[t].superseded

\* At most one token can still register the deployment, none once it is
\* registered, although the issuer checks that before its batch.
OneLiveToken ==
  /\ \A t, u \in DOMAIN tokens : Live(t) /\ Live(u) => t = u
  /\ registered # 0 => \A t \in DOMAIN tokens : ~Live(t)

\* The configured token was not withdrawn and had not run out before its use.
Usable ==
  /\ active /\ given # 0 /\ given = Len(tokens)
  /\ ~tokens[given].superseded
  /\ tokens[given].used = 0 => ~tokens[given].expired

\* With a usable token, or once one of them got through, every process gets
\* through its first start in the end, whichever registered, even if that answer
\* was lost or the process was killed and the token has expired since.
AllConverge ==
  <>[](Usable \/ marked # 0) => <>[](\A p \in Processes : pc[p] = "up" /\ mine[p] = identity)
=============================================================================
