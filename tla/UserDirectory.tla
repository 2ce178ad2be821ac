---------------------------- MODULE UserDirectory ----------------------------
(***************************************************************************)
(* UserRepository and AuthService: users by id in the order they came, an  *)
(* index from names to ids, and the JSON file that is rewritten as a whole *)
(* by every change.  A stored user is a mutable object: who changes it     *)
(* changes it in the repository, before update is called.                  *)
(***************************************************************************)
EXTENDS Integers, FiniteSets, SequencesExt

CONSTANTS
  Ids,          \* uuids
  Names,
  Profiles,     \* the rest of what is stored of a user: status, role, password
  NoUser,
  IOErrors,     \* whether a save may fail
  Kills         \* whether the process may be killed in the middle of one

ASSUME DirectoryAssumption ==
  /\ "admin" \in Names /\ "active" \in Profiles
  /\ NoUser \notin Ids
  /\ IOErrors \in BOOLEAN /\ Kills \in BOOLEAN

VARIABLES
  users,        \* _users: [id, name, profile], in insertion order
  index,        \* _username_idx: ids by name
  file,         \* users.json: absent, torn, or whole with the users it lists
  up,           \* whether the process runs
  unsaved,      \* history: the last save did not come to its end
  held          \* history: the names each id has had since the process started

directoryVars == <<users, index, file, up, unsaved, held>>

IdsOf(list) == {list[i].id : i \in DOMAIN list}
PlaceOf(id) == CHOOSE i \in DOMAIN users : users[i].id = id
User(id) == users[PlaceOf(id)]

\* get_by_username: an index entry without its user finds nobody.
GetByUsername(name) ==
  IF name \in DOMAIN index /\ index[name] \in IdsOf(users) THEN index[name] ELSE NoUser

Fresh(id) == id \notin IdsOf(users) \cup DOMAIN held

-----------------------------------------------------------------------------
(* The file *)

\* How _save ends: the file is truncated when it is opened and then written.
Endings == {"saved"} \cup (IF IOErrors THEN {"not opened", "half written"} ELSE {})
                     \cup (IF Kills THEN {"killed"} ELSE {})

\* _save.
WriteFile(ending) ==
  /\ file' = CASE ending = "saved" -> [state |-> "whole", users |-> users']
               [] ending = "not opened" -> file
               [] OTHER -> [state |-> "torn", users |-> <<>>]
  /\ unsaved' = (ending # "saved")

\* _save at the end of a change; when it raises, so does the handler.
Save(ending) ==
  /\ WriteFile(ending)
  /\ up' = (ending # "killed")

\* _load: a file that cannot be parsed counts as none.
Loaded == IF file.state = "whole" THEN file.users ELSE <<>>

\* Of two users with one name the last that is loaded is found.
IndexOf(list) ==
  [n \in {list[i].name : i \in DOMAIN list} |->
     list[SelectLastInSeq(list, LAMBDA u : u.name = n)].id]

NamesOf(list) ==
  [id \in IdsOf(list) |-> {list[i].name : i \in {i \in DOMAIN list : list[i].id = id}}]

-----------------------------------------------------------------------------
(* The operations: the state they leave, for a save that ends in any way *)

\* Mutant of Add: the index is forgotten.
AddWithoutIndex(id, name, ending) ==
  /\ Fresh(id)
  /\ name \notin DOMAIN index
  /\ users' = Append(users, [id |-> id, name |-> name, profile |-> "active"])
  /\ UNCHANGED index
  /\ held' = [i \in DOMAIN held \cup {id} |-> IF i = id THEN {name} ELSE held[i]]
  /\ Save(ending)

\* add, behind register: refused when the index has the name.
Add(id, name, ending) ==
  /\ Fresh(id)
  /\ name \notin DOMAIN index
  /\ users' = Append(users, [id |-> id, name |-> name, profile |-> "active"])
  /\ index' = [n \in DOMAIN index \cup {name} |-> IF n = name THEN id ELSE index[n]]
  /\ held' = [i \in DOMAIN held \cup {id} |-> IF i = id THEN {name} ELSE held[i]]
  /\ Save(ending)

Changed(id, u) == [i \in DOMAIN users |-> IF users[i].id = id THEN u ELSE users[i]]

\* admin_update_user with a name: update compares the stored object with itself,
\* so the index stays as it was; nothing asks whether the name is taken.
Rename(id, name, ending) ==
  /\ id \in IdsOf(users) /\ name # User(id).name
  /\ users' = Changed(id, [User(id) EXCEPT !.name = name])
  /\ held' = [held EXCEPT ![id] = @ \cup {name}]
  /\ UNCHANGED index
  /\ Save(ending)

\* Mutant of ChangeProfile: the change is not saved.
ChangeProfileOnly(id, profile, ending) ==
  /\ id \in IdsOf(users)
  /\ users' = Changed(id, [User(id) EXCEPT !.profile = profile])
  /\ UNCHANGED <<index, held, file, unsaved, up>>

\* change_password, admin_reset_password, and admin_update_user without a name.
ChangeProfile(id, profile, ending) ==
  /\ id \in IdsOf(users)
  /\ users' = Changed(id, [User(id) EXCEPT !.profile = profile])
  /\ UNCHANGED <<index, held>>
  /\ Save(ending)

\* delete: the entry of the user's present name goes, whoever it leads to.
Delete(id, ending) ==
  /\ id \in IdsOf(users)
  /\ users' = RemoveAt(users, PlaceOf(id))
  /\ index' = [n \in DOMAIN index \ {User(id).name} |-> index[n]]
  /\ UNCHANGED held
  /\ Save(ending)

\* A process starts: _load, and ensure_admin_exists, which looks for the name and
\* whose exception ends the process.
Start(id, ending) ==
  /\ up = FALSE
  /\ IF "admin" \in DOMAIN IndexOf(Loaded)
     THEN /\ users' = Loaded
          /\ up' = TRUE
          /\ UNCHANGED <<file, unsaved>>
     ELSE /\ id \notin IdsOf(Loaded)
          /\ users' = Append(Loaded, [id |-> id, name |-> "admin", profile |-> "active"])
          /\ WriteFile(ending)
          /\ up' = (ending = "saved")
  /\ index' = IndexOf(users')
  /\ held' = NamesOf(users')

Die ==
  /\ up
  /\ up' = FALSE
  /\ UNCHANGED <<users, index, file, unsaved, held>>

DirectoryInit ==
  /\ users = <<>> /\ index = <<>> /\ held = <<>>
  /\ file = [state |-> "absent", users |-> <<>>]
  /\ up = FALSE
  /\ unsaved = FALSE
=============================================================================
