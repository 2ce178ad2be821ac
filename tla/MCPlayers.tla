------------------------------ MODULE MCPlayers ------------------------------
(***************************************************************************)
(* Small instances of users and portfolios.  A trade reads nothing of the  *)
(* directory but who is active, and a change of the directory nothing of a *)
(* portfolio, so each is explored while the other is at rest.              *)
(***************************************************************************)
EXTENDS Players, TLC

Untraded ==
  /\ \A a \in Ids : portfolio[a] = NewAccount
  /\ \A s \in Symbols : lastPrice[s] = 0

\* The first user was added, and nothing happened since.
TwoUsers ==
  /\ Len(users) = 2 /\ users[1].name = "admin" /\ users[2].name = "ann"
  /\ Cardinality(DOMAIN held) = 2
  /\ \A i \in {1, 2} : users[i].profile = "active" /\ held[users[i].id] = {users[i].name}
  /\ file.users = users

\* At most one user is not active.
OneInactive ==
  Cardinality({i \in DOMAIN users' : users'[i].profile # "active"}) <= 1

ApartSpec ==
  Init /\ [][(UserNext /\ Untraded /\ OneInactive) \/ (MoneyNext /\ TwoUsers)]_playersVars

IdSymmetry == Permutations(Ids)
=============================================================================
