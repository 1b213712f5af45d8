--------------------------- MODULE AtomicIssuance ---------------------------
(***************************************************************************)
(* What issuance promises whoever reads entitlement_versions: versions are *)
(* signed as if the state were read, the version numbered and its row      *)
(* stored in a single step.  EntitlementIssuance, which does this in five  *)
(* statements with other requests in between, implements it.               *)
(***************************************************************************)
EXTENDS Integers

CONSTANTS Blank     \* the state before a schedule exists

VARIABLES
  state,     \* what a version signed now has to say, with its revisions
  versions   \* the versions stored so far

vars == <<state, versions>>

Init == state = Blank /\ versions = {}

\* Operators change what is to be signed; the schedule revision never falls,
\* nor does the revision of a contract while it stays assigned.
Change(new) ==
  /\ new.srev >= state.srev
  /\ new.srev = state.srev => new.contract = state.contract /\ new.crev >= state.crev
  /\ new.policy >= state.policy
  /\ state' = new
  /\ UNCHANGED versions

\* A version repeats the present state.  Higher numbers may already be stored,
\* but only for this very state.
Sign(new) ==
  /\ \A e \in versions : e.version # new.version /\ e.key # new.key
  /\ \A e \in versions : e.version > new.version =>
       /\ e.contract = new.contract /\ e.crev = new.crev
       /\ e.srev = new.srev /\ e.content = new.content
  /\ new.contract = state.contract /\ new.crev = state.crev
  /\ new.srev = state.srev
  /\ new.content = [policy |-> state.policy, terms |-> state.terms,
                    modules |-> state.modules]
  /\ versions' = versions \cup {new}
  /\ UNCHANGED state

\* Nothing stored is ever altered or deleted.
Next ==
  \/ Change(state')
  \/ \E new \in versions' : Sign(new)

Spec == Init /\ [][Next]_vars
=============================================================================
