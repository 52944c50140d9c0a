------------------------------ MODULE Accounts ------------------------------
(***************************************************************************)
(* Accounts: registration, the owner's PATCH /account, the admin's         *)
(* PUT /admin/accounts/:id, deletion, the seeding of the admin account     *)
(* when a replica of the API starts, and POST /login. Every update reads   *)
(* the row, changes the copy and writes all its columns back, with the     *)
(* statements of other requests in between.                                *)
(*                                                                         *)
(* An account's password is given at creation and never changes, so each   *)
(* account stands for its own password too.                                *)
(*                                                                         *)
(* Definitions named X_Y are definition X with the slip Y, which some      *)
(* property must detect.                                                   *)
(***************************************************************************)
EXTENDS FiniteSets

CONSTANTS
  Ids,       \* account IDs, each drawn once (uuid.New)
  Emails,
  SeedEmail, \* SEED_ADMIN_EMAIL
  Procs,     \* requests, and starts of the API, in progress at one time
  NoRow,     \* the ID is not in use yet
  Gone,      \* the row was deleted
  NoCopy, NoId

Roles == {"user", "admin"}
States == {"active", "inactive"}
Account == [email : Emails, role : Roles, state : States]

ASSUME AccountsAssumption ==
  /\ SeedEmail \in Emails
  /\ NoRow # Gone
  /\ {NoRow, Gone} \cap Account = {}
  /\ NoCopy \notin Account
  /\ NoId \notin Ids

VARIABLES
  row,     \* the table accounts
  step,    \* what each request does next
  id,      \* the account a request works on, or whose password it verified
  copy,    \* the account as the request read and changed it
  token,   \* what POST /login answered: the account of the token
  granted, \* history: the roles and states creation and admins gave each account
  raced    \* history: the requests whose account changed since they read it last

table == <<row, granted>>
request == <<step, id, copy>>
vars == <<table, request, token, raced>>

Live(i) == row[i] \notin {NoRow, Gone}
Holders(email) == {i \in Ids : Live(i) /\ row[i].email = email}

(* Type correctness of the state. *)
TypeOK ==
  /\ row \in [Ids -> Account \cup {NoRow, Gone}]
  /\ step \in [Procs -> {"idle", "seed", "preserve", "patch", "put", "issue"}]
  /\ id \in [Procs -> Ids \cup {NoId}]
  /\ copy \in [Procs -> Account \cup {NoCopy}]
  /\ \A p \in Procs : step[p] \in {"preserve", "patch", "put", "issue"} =>
       id[p] \in Ids /\ copy[p] \in Account
  /\ token \in [Procs -> Ids \cup {NoId}]
  /\ granted \in [Ids -> SUBSET (Roles \cup States)]
  /\ raced \subseteq Procs

Init ==
  /\ row = [i \in Ids |-> NoRow]
  /\ step = [p \in Procs |-> "idle"]
  /\ id = [p \in Procs |-> NoId]
  /\ copy = [p \in Procs |-> NoCopy]
  /\ token = [p \in Procs |-> NoId]
  /\ granted = [i \in Ids |-> {}]
  /\ raced = {}

Goto(p, s) == step' = [step EXCEPT ![p] = s]

(* A request has read account i and holds the copy c of it. *)
Hold(p, s, i, c) ==
  /\ Goto(p, s)
  /\ id' = [id EXCEPT ![p] = i]
  /\ copy' = [copy EXCEPT ![p] = c]
  /\ token' = [token EXCEPT ![p] = NoId]
  /\ raced' = raced \ {p}

(* The requests that have read account i, when it changes under them. *)
Readers(i) == {p \in Procs : id[p] = i}

(* The request is answered. *)
Finish(p) ==
  /\ Goto(p, "idle")
  /\ id' = [id EXCEPT ![p] = NoId]
  /\ copy' = [copy EXCEPT ![p] = NoCopy]

-----------------------------------------------------------------------------
(* Creation *)

NewRow(i, email, role) ==
  /\ row[i] = NoRow
  /\ row' = [row EXCEPT ![i] = [email |-> email, role |-> role, state |-> "active"]]
  /\ granted' = [granted EXCEPT ![i] = {role, "active"}]

Insert_NotUnique(i, email, role) == NewRow(i, email, role)

(* The INSERT of CreateAccount; new accounts are active. The UNIQUE email   *)
(* makes it fail while another row has the email, and nothing changes.      *)
Insert(i, email, role) == Holders(email) = {} /\ NewRow(i, email, role)

Create_DefaultRoleMissing(i, email, role) ==
  /\ Insert(i, email, IF role = "user" THEN "" ELSE role)
  /\ UNCHANGED <<request, token, raced>>

(* POST /accounts creates users, POST /admin/accounts either role. *)
Create(i, email, role) ==
  /\ Insert(i, email, role)
  /\ UNCHANGED <<request, token, raced>>

(* main: a replica starts and finds no account with the seed's email, or    *)
(* the query fails, which GetByEmail does not tell apart.                   *)
SeedLookup(p) ==
  /\ step[p] = "idle"
  /\ Goto(p, "seed")
  /\ UNCHANGED <<table, id, copy, token, raced>>

SeedCreate(p, i) ==
  /\ step[p] = "seed"
  /\ Insert(i, SeedEmail, "admin")
  /\ Finish(p)
  /\ raced' = raced \ {p}
  /\ UNCHANGED token

(* Another replica or a user was first: a warning, and the replica serves. *)
SeedFails(p) ==
  /\ step[p] = "seed"
  /\ Finish(p)
  /\ raced' = raced \ {p}
  /\ UNCHANGED <<table, token>>

-----------------------------------------------------------------------------
(* PATCH /account: two reads, one write *)

(* The handler reads the account and sets the email the body asks for. *)
PatchRead(p, i, email) ==
  /\ step[p] = "idle"
  /\ Live(i)
  /\ Hold(p, "preserve", i, [row[i] EXCEPT !.email = email])
  /\ UNCHANGED table

PatchPreserve_NotRead(p) ==
  /\ step[p] = "preserve"
  /\ Live(id[p])
  /\ Goto(p, "patch")
  /\ raced' = raced \ {p}
  /\ UNCHANGED <<table, id, copy, token>>

PatchPreserve_ByEmail(p) ==
  /\ step[p] = "preserve"
  /\ \E j \in Holders(copy[p].email) :
       Hold(p, "patch", id[p], [row[j] EXCEPT !.email = copy[p].email])
  /\ UNCHANGED table

(* UpdateAccount reads it again, to preserve role and active status. *)
PatchPreserve(p) ==
  /\ step[p] = "preserve"
  /\ Live(id[p])
  /\ Hold(p, "patch", id[p], [row[id[p]] EXCEPT !.email = copy[p].email])
  /\ UNCHANGED table

(* PUT /admin/accounts/:id: UpdateAccountAdmin reads the account and applies *)
(* the fields of the body; a missing field keeps what was read.              *)
PutRead(p, i, c) ==
  /\ step[p] = "idle"
  /\ Live(i)
  /\ Hold(p, "put", i, c)
  /\ UNCHANGED table

(* What an admin's PUT writes counts as granted, the owner's PATCH adds     *)
(* nothing.                                                                 *)
Grant(p) ==
  granted' = [granted EXCEPT ![id[p]] =
                IF step[p] = "put" THEN @ \cup {copy[p].role, copy[p].state} ELSE @]

(* All the columns of the row. *)
WriteBack(p) ==
  /\ row' = [row EXCEPT ![id[p]] = copy[p]]
  /\ Grant(p)
  /\ raced' = (raced \cup Readers(id[p])) \ {p}
  /\ Finish(p)

Update_NotUnique(p) ==
  /\ step[p] \in {"patch", "put"}
  /\ Live(id[p])
  /\ WriteBack(p)
  /\ UNCHANGED token

Update_Upsert(p) ==
  /\ step[p] \in {"patch", "put"}
  /\ Holders(copy[p].email) \subseteq {id[p]}
  /\ WriteBack(p)
  /\ UNCHANGED token

(* repo.Update succeeds unless the row is gone or another account has the   *)
(* email.                                                                   *)
Update(p) ==
  /\ step[p] \in {"patch", "put"}
  /\ Live(id[p])
  /\ Holders(copy[p].email) \subseteq {id[p]}
  /\ WriteBack(p)
  /\ UNCHANGED token

(* 404, 409 or 500: the account is gone, the email taken, or the database   *)
(* failed.                                                                  *)
UpdateFails(p) ==
  /\ step[p] \in {"preserve", "patch", "put"}
  /\ Finish(p)
  /\ raced' = raced \ {p}
  /\ UNCHANGED <<table, token>>

(* DELETE /account and DELETE /admin/accounts/:id *)
Delete(i) ==
  /\ Live(i)
  /\ row' = [row EXCEPT ![i] = Gone]
  /\ raced' = raced \cup Readers(i)
  /\ UNCHANGED <<granted, request, token>>

-----------------------------------------------------------------------------
(* POST /login: two reads by email *)

(* VerifyPassword: the client knows the password of the account that has    *)
(* the email, and the account is active.                                    *)
LoginVerify(p, i) ==
  /\ step[p] = "idle"
  /\ Live(i)
  /\ row[i].state = "active"
  /\ Hold(p, "issue", i, row[i])
  /\ UNCHANGED table

(* GetByEmail again, and a token for the account it finds. *)
LoginIssue(p, i) ==
  /\ step[p] = "issue"
  /\ i \in Holders(copy[p].email)
  /\ token' = [token EXCEPT ![p] = i]
  /\ Finish(p)
  /\ raced' = raced \ {p}
  /\ UNCHANGED table

LoginFails(p) ==
  /\ step[p] = "issue"
  /\ Finish(p)
  /\ raced' = raced \ {p}
  /\ UNCHANGED <<table, token>>

-----------------------------------------------------------------------------
Next ==
  \/ \E i \in Ids, email \in Emails, role \in Roles : Create(i, email, role)
  \/ \E p \in Procs : SeedLookup(p) \/ SeedFails(p)
  \/ \E p \in Procs, i \in Ids : SeedCreate(p, i)
  \/ \E p \in Procs, i \in Ids, email \in Emails : PatchRead(p, i, email)
  \/ \E p \in Procs : PatchPreserve(p)
  \/ \E p \in Procs, i \in Ids, c \in Account : PutRead(p, i, c)
  \/ \E p \in Procs : Update(p) \/ UpdateFails(p)
  \/ \E i \in Ids : Delete(i)
  \/ \E p \in Procs, i \in Ids : LoginVerify(p, i) \/ LoginIssue(p, i)
  \/ \E p \in Procs : LoginFails(p)

Spec == Init /\ [][Next]_vars

-----------------------------------------------------------------------------
(* An email leads to one account, whichever inserts, updates and seedings   *)
(* race for it: logins and the seed rely on it.                             *)
EmailUnique == \A i, j \in Ids : Live(i) /\ Live(j) /\ row[i].email = row[j].email => i = j

(* No interleaving of updates gives an account rights nobody gave it: its   *)
(* role and its state were each set at its creation or by an admin, also    *)
(* when an owner's PATCH writes back older ones.                            *)
RightsWereGranted ==
  \A i \in Ids : Live(i) => {row[i].role, row[i].state} \subseteq granted[i]

(* Whatever still holds a copy of a deleted account does not bring it back. *)
DeletedForGood == [][\A i \in Ids : row[i] = Gone => row'[i] = Gone]_vars

Patches(p) == step[p] = "patch" /\ step'[p] = "idle"
KeepsRights(i) == Live(i) => row'[i].role = row[i].role /\ row'[i].state = row[i].state

(* PATCH /account ("Role and active status cannot be changed via this       *)
(* endpoint") leaves role and state alone unless the account changed after  *)
(* UpdateAccount's own read, however long before that the handler's was.    *)
UnracedPatchKeepsRights ==
  [][\A p \in Procs : Patches(p) /\ p \notin raced => KeepsRights(id[p])]_vars

(* The same without exception, as the comment of UpdateCurrentAccount says. *)
PatchKeepsRights == [][\A p \in Procs : Patches(p) => KeepsRights(id[p])]_vars

(* The token of a login is for the account whose password was verified,     *)
(* unless that account changed between the two reads.                       *)
UnracedLogin ==
  [][\A p \in Procs : step[p] = "issue" /\ p \notin raced => token'[p] \in {NoId, id[p]}]_vars
=============================================================================
