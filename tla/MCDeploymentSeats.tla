--------------------------- MODULE MCDeploymentSeats ---------------------------
(* Small instances of DeploymentSeats.                                      *)
EXTENDS DeploymentSeats, TLC

CONSTANTS s1, s2, o1, o2, p1, p2, master

Is(status, role) == [status |-> status, roles |-> Only(role)]

\* Both people members of the first organization, one of the second.
Members(first, second, other) ==
  [o \in Orgs |-> [u \in People |->
     IF o = Home THEN IF u = p1 THEN first ELSE second
     ELSE IF u = p1 THEN NoMember ELSE other]]

Beginning(revision, accts, members) ==
  [revision |-> revision, accounts |-> accts, profile |-> members,
   seats |-> <<>>, invites |-> {}]

\* Nobody yet, both signed up, one seat or two.
Unclaimed == {Beginning(r, People, Members(NoMember, NoMember, NoMember)) : r \in {1, 2}}

\* The Owner alone and two seats; the other person invited, in time or not.
Started ==
  LET alone == Beginning(1, {p1}, Members(Is("active", "Owner"), NoMember, NoMember)) IN
  {alone} \cup
  {[alone EXCEPT
      !.seats = <<[who |-> p2, status |-> "reserved", until |-> end]>>,
      !.invites = {[id |-> 1, org |-> Home, who |-> p2, role |-> "Rep", until |-> end]}] :
     end \in {Validity}}

\* The other one disabled here, active there; one seat.
Disabled ==
  {Beginning(1, People, Members(Is("active", "Owner"), Is("disabled", "Rep"), other)) :
     other \in {NoMember, Is("active", "Owner")}}

Several == Unclaimed \cup Started \cup Disabled

\* The Owner alone.
Founded == {Beginning(1, {p1}, Members(Is("active", "Owner"), NoMember, NoMember))}

\* Two seats, then one.
Shrinking == <<[limit |-> 2, until |-> 9], [limit |-> 1, until |-> 9]>>

Edits == {Only("Rep")}

\* Another role, or another role first.
Demotions == Edits \cup {[first |-> "Rep", all |-> {"Rep", "Owner"}]}

SessionSymmetry == Permutations(Sessions)
=============================================================================
