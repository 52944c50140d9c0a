--------------------------- MODULE AccountsProofs ---------------------------
(***************************************************************************)
(* Proofs about Accounts. Emails stay unique by the table's constraint;    *)
(* the rest follows from what the copies of the requests in progress say   *)
(* about the rows they were read from.                                     *)
(***************************************************************************)
EXTENDS Accounts, TLAPS

(* A request works on an account that was created.                          *)
CreatedInv == \A p \in Procs : id[p] # NoId => id[p] \in Ids /\ row[id[p]] # NoRow

(* The rights a PATCH is going to write back were granted.                  *)
CopyGrantedInv == \A p \in Procs :
  step[p] = "patch" => {copy[p].role, copy[p].state} \subseteq granted[id[p]]

(* Unless the account changed since, the copy agrees with the row.          *)
FreshInv == \A p \in Procs : p \notin raced =>
  /\ step[p] = "patch" =>
       /\ Live(id[p])
       /\ copy[p].role = row[id[p]].role /\ copy[p].state = row[id[p]].state
  /\ step[p] = "issue" => Live(id[p]) /\ copy[p] = row[id[p]]

(* A login in progress has no token yet.                                    *)
PendingInv == \A p \in Procs : step[p] = "issue" => token[p] = NoId

IInv ==
  /\ TypeOK /\ CreatedInv /\ EmailUnique
  /\ RightsWereGranted /\ CopyGrantedInv /\ FreshInv /\ PendingInv

USE DEF vars, table, request, Goto, Finish, Hold, NewRow, WriteBack, Grant

-----------------------------------------------------------------------------
LEMMA AccountFields ==
  ASSUME NEW c \in Account
  PROVE  /\ c.email \in Emails /\ c.role \in Roles /\ c.state \in States
         /\ c \notin {NoRow, Gone, NoCopy}
  BY AccountsAssumption DEF Account

LEMMA LiveRow ==
  ASSUME TypeOK, NEW i \in Ids
  PROVE  Live(i) <=> row[i] \in Account
  BY AccountFields DEF TypeOK, Live

(* Every step keeps the types.                                              *)
LEMMA TypeStep == TypeOK /\ [Next]_vars => TypeOK'
<1> SUFFICES ASSUME TypeOK, [Next]_vars PROVE TypeOK'
  OBVIOUS
<1> USE DEF TypeOK
<1>1. ASSUME NEW i \in Ids, NEW e \in Emails, NEW r \in Roles, Create(i, e, r) PROVE TypeOK'
  BY <1>1 DEF Create, Insert, Account, Roles, States
<1>2. ASSUME NEW p \in Procs, SeedLookup(p) \/ SeedFails(p) \/ UpdateFails(p) \/ LoginFails(p)
      PROVE  TypeOK'
  BY <1>2 DEF SeedLookup, SeedFails, UpdateFails, LoginFails
<1>3. ASSUME NEW p \in Procs, NEW i \in Ids, SeedCreate(p, i) PROVE TypeOK'
  BY <1>3, AccountsAssumption DEF SeedCreate, Insert, Account, Roles, States
<1>4. ASSUME NEW p \in Procs, NEW i \in Ids, NEW e \in Emails, PatchRead(p, i, e) PROVE TypeOK'
  <2>1. [row[i] EXCEPT !.email = e] \in Account
    BY <1>4, LiveRow DEF PatchRead, Account
  <2> QED
    BY <1>4, <2>1 DEF PatchRead
<1>5. ASSUME NEW p \in Procs, PatchPreserve(p) PROVE TypeOK'
  <2>1. /\ id[p] \in Ids /\ row[id[p]] \in Account /\ copy[p].email \in Emails
    BY <1>5, LiveRow, AccountFields DEF PatchPreserve
  <2>2. [row[id[p]] EXCEPT !.email = copy[p].email] \in Account
    BY <2>1 DEF Account
  <2> QED
    BY <1>5, <2>1, <2>2 DEF PatchPreserve
<1>6. ASSUME NEW p \in Procs, NEW i \in Ids, NEW c \in Account, PutRead(p, i, c) PROVE TypeOK'
  BY <1>6 DEF PutRead
<1>7. ASSUME NEW p \in Procs, Update(p) PROVE TypeOK'
  <2>1. id[p] \in Ids /\ copy[p] \in Account
    BY <1>7 DEF Update
  <2>2. {copy[p].role, copy[p].state} \subseteq Roles \cup States
    BY <2>1, AccountFields
  <2> QED
    BY <1>7, <2>1, <2>2 DEF Update, Readers
<1>8. ASSUME NEW i \in Ids, Delete(i) PROVE TypeOK'
  BY <1>8 DEF Delete, Readers
<1>9. ASSUME NEW p \in Procs, NEW i \in Ids, LoginVerify(p, i) \/ LoginIssue(p, i) PROVE TypeOK'
  BY <1>9, LiveRow DEF LoginVerify, LoginIssue
<1>10. CASE UNCHANGED vars
  BY <1>10
<1> QED
  BY <1>1, <1>2, <1>3, <1>4, <1>5, <1>6, <1>7, <1>8, <1>9, <1>10 DEF Next

(* An insert or an update gives an email only to the account that has it    *)
(* already or when nobody has it.                                           *)
LEMMA EmailStep == TypeOK /\ EmailUnique /\ [Next]_vars => EmailUnique'
<1> SUFFICES ASSUME TypeOK, EmailUnique, [Next]_vars PROVE EmailUnique'
  OBVIOUS
<1> USE DEF TypeOK
<1>1. ASSUME NEW i \in Ids, NEW e \in Emails, NEW r \in Roles, Insert(i, e, r)
      PROVE  EmailUnique'
  <2>1. /\ row' = [row EXCEPT ![i] = [email |-> e, role |-> r, state |-> "active"]]
        /\ \A j \in Ids : Live(j) => row[j].email # e
    BY <1>1 DEF Insert, Holders
  <2> QED
    BY <2>1 DEF EmailUnique, Live
<1>2. ASSUME NEW p \in Procs, Update(p) PROVE EmailUnique'
  <2>1. /\ row' = [row EXCEPT ![id[p]] = copy[p]]
        /\ \A j \in Ids : Live(j) /\ row[j].email = copy[p].email => j = id[p]
        /\ id[p] \in Ids
    BY <1>2 DEF Update, Holders
  <2> QED
    BY <2>1 DEF EmailUnique, Live
<1>3. ASSUME NEW i \in Ids, Delete(i) PROVE EmailUnique'
  BY <1>3 DEF Delete, EmailUnique, Live
<1>4. CASE UNCHANGED row
  BY <1>4 DEF EmailUnique, Live
<1> QED
  BY <1>1, <1>2, <1>3, <1>4, AccountsAssumption
     DEF Next, Create, SeedCreate, SeedLookup, SeedFails, PatchRead, PatchPreserve, PutRead,
         UpdateFails, LoginVerify, LoginIssue, LoginFails, Roles

(* IDs are never freed.                                                     *)
LEMMA CreatedStep == TypeOK /\ CreatedInv /\ [Next]_vars => CreatedInv'
<1> SUFFICES ASSUME TypeOK, CreatedInv, [Next]_vars PROVE CreatedInv'
  OBVIOUS
<1> USE AccountsAssumption DEF TypeOK, CreatedInv
<1>1. ASSUME NEW i \in Ids, NEW e \in Emails, NEW r \in Roles, Insert(i, e, r)
      PROVE  \A j \in Ids : row[j] # NoRow => row'[j] # NoRow
  BY <1>1 DEF Insert
<1>2. ASSUME NEW p \in Procs, Update(p) PROVE CreatedInv'
  <2>1. copy[p] # NoRow
    BY <1>2, AccountFields DEF Update
  <2> QED
    BY <1>2, <2>1 DEF Update
<1>3. ASSUME NEW i \in Ids, Delete(i) PROVE CreatedInv'
  BY <1>3 DEF Delete
<1>4. ASSUME NEW p \in Procs, NEW i \in Ids, Live(i), id' = [id EXCEPT ![p] = i], UNCHANGED row
      PROVE  CreatedInv'
  BY <1>4 DEF Live
<1>5. ASSUME NEW p \in Procs, PatchPreserve(p) PROVE CreatedInv'
  BY <1>5 DEF PatchPreserve
<1>6. ASSUME NEW p \in Procs, id' = [id EXCEPT ![p] = NoId],
             \A j \in Ids : row[j] # NoRow => row'[j] # NoRow
      PROVE  CreatedInv'
  BY <1>6
<1>7. CASE UNCHANGED id /\ \A j \in Ids : row[j] # NoRow => row'[j] # NoRow
  BY <1>7
<1>8. ASSUME NEW p \in Procs, NEW i \in Ids, SeedCreate(p, i) PROVE CreatedInv'
  <2>1. \A j \in Ids : row[j] # NoRow => row'[j] # NoRow
    BY <1>8, <1>1 DEF SeedCreate, Roles
  <2> QED
    BY <1>6, <1>8, <2>1 DEF SeedCreate
<1>9. ASSUME NEW p \in Procs, SeedFails(p) \/ UpdateFails(p) \/ LoginFails(p) PROVE CreatedInv'
  BY <1>6, <1>9 DEF SeedFails, UpdateFails, LoginFails
<1>10. ASSUME NEW p \in Procs, NEW i \in Ids, LoginIssue(p, i) PROVE CreatedInv'
  BY <1>6, <1>10 DEF LoginIssue
<1>11. ASSUME NEW p \in Procs, NEW i \in Ids, NEW e \in Emails, PatchRead(p, i, e)
       PROVE  CreatedInv'
  BY <1>4, <1>11 DEF PatchRead
<1>12. ASSUME NEW p \in Procs, NEW i \in Ids, NEW c \in Account, PutRead(p, i, c)
       PROVE  CreatedInv'
  BY <1>4, <1>12 DEF PutRead
<1>13. ASSUME NEW p \in Procs, NEW i \in Ids, LoginVerify(p, i) PROVE CreatedInv'
  BY <1>4, <1>13 DEF LoginVerify
<1>14. ASSUME NEW i \in Ids, NEW e \in Emails, NEW r \in Roles, Create(i, e, r)
       PROVE  CreatedInv'
  BY <1>1, <1>7, <1>14 DEF Create
<1>15. ASSUME NEW p \in Procs, SeedLookup(p) PROVE CreatedInv'
  BY <1>15 DEF SeedLookup
<1>16. CASE UNCHANGED vars
  BY <1>16
<1> QED
  BY <1>2, <1>3, <1>5, <1>8, <1>9, <1>10, <1>11, <1>12, <1>13, <1>14, <1>15, <1>16 DEF Next

(* What was granted stays granted, and a row only gets rights that were.    *)
LEMMA GrantedStep ==
  ASSUME TypeOK, CreatedInv, RightsWereGranted, CopyGrantedInv, [Next]_vars
  PROVE  RightsWereGranted' /\ CopyGrantedInv'
<1> USE AccountsAssumption DEF TypeOK, CreatedInv, RightsWereGranted, CopyGrantedInv
<1>0. \A p \in Procs : step[p] = "patch" => id[p] \in Ids
  OBVIOUS
<1>1. ASSUME NEW i \in Ids, NEW e \in Emails, NEW r \in Roles, Insert(i, e, r)
      PROVE  /\ RightsWereGranted'
             /\ \A j \in Ids : row[j] # NoRow => granted'[j] = granted[j]
  BY <1>1 DEF Insert, Live
<1>2. ASSUME NEW i \in Ids, NEW e \in Emails, NEW r \in Roles, Create(i, e, r)
      PROVE  RightsWereGranted' /\ CopyGrantedInv'
  <2>1. /\ RightsWereGranted'
        /\ \A j \in Ids : row[j] # NoRow => granted'[j] = granted[j]
    BY <1>1, <1>2 DEF Create
  <2>2. \A p \in Procs : step[p] = "patch" => granted'[id[p]] = granted[id[p]]
    BY <1>0, <2>1
  <2> QED
    BY <1>2, <2>1, <2>2 DEF Create
<1>3. ASSUME NEW p \in Procs, NEW i \in Ids, SeedCreate(p, i)
      PROVE  RightsWereGranted' /\ CopyGrantedInv'
  <2>1. /\ RightsWereGranted'
        /\ \A j \in Ids : row[j] # NoRow => granted'[j] = granted[j]
    BY <1>1, <1>3 DEF SeedCreate, Roles
  <2>2. \A q \in Procs : step[q] = "patch" => granted'[id[q]] = granted[id[q]]
    BY <1>0, <2>1
  <2>3. \A q \in Procs : step'[q] = "patch" =>
          step[q] = "patch" /\ id'[q] = id[q] /\ copy'[q] = copy[q]
    BY <1>3 DEF SeedCreate
  <2> QED
    BY <2>1, <2>2, <2>3
<1>4. ASSUME UNCHANGED table,
             \A q \in Procs : step'[q] = "patch" =>
               step[q] = "patch" /\ id'[q] = id[q] /\ copy'[q] = copy[q]
      PROVE  RightsWereGranted' /\ CopyGrantedInv'
  BY <1>4 DEF Live
<1>5. ASSUME NEW p \in Procs, PatchPreserve(p) PROVE RightsWereGranted' /\ CopyGrantedInv'
  <2>1. id[p] \in Ids /\ row[id[p]] \in Account
    BY <1>5, LiveRow DEF PatchPreserve
  <2>2. /\ copy'[p].role = row[id[p]].role /\ copy'[p].state = row[id[p]].state
        /\ id'[p] = id[p]
    BY <1>5, <2>1 DEF PatchPreserve, Account
  <2>3. {copy'[p].role, copy'[p].state} \subseteq granted[id[p]]
    BY <1>5, <2>1, <2>2 DEF PatchPreserve
  <2>4. \A q \in Procs \ {p} : step'[q] = step[q] /\ id'[q] = id[q] /\ copy'[q] = copy[q]
    BY <1>5 DEF PatchPreserve
  <2>5. UNCHANGED <<row, granted>>
    BY <1>5 DEF PatchPreserve
  <2> QED
    BY <2>2, <2>3, <2>4, <2>5 DEF Live
<1>6. ASSUME NEW p \in Procs, Update(p) PROVE RightsWereGranted' /\ CopyGrantedInv'
  <2>1. /\ id[p] \in Ids
        /\ row' = [row EXCEPT ![id[p]] = copy[p]]
        /\ \A i \in Ids : granted[i] \subseteq granted'[i]
        /\ {copy[p].role, copy[p].state} \subseteq granted'[id[p]]
    BY <1>6 DEF Update
  <2>2. RightsWereGranted'
    BY <2>1 DEF Live
  <2>3. \A q \in Procs : step'[q] = "patch" =>
          step[q] = "patch" /\ id'[q] = id[q] /\ copy'[q] = copy[q]
    BY <1>6 DEF Update
  <2> QED
    BY <1>0, <2>1, <2>2, <2>3
<1>7. ASSUME NEW i \in Ids, Delete(i) PROVE RightsWereGranted' /\ CopyGrantedInv'
  BY <1>7 DEF Delete, Live
<1>8. ASSUME NEW p \in Procs, NEW i \in Ids,
             \/ \E e \in Emails : PatchRead(p, i, e)
             \/ \E c \in Account : PutRead(p, i, c)
             \/ LoginVerify(p, i) \/ LoginIssue(p, i)
      PROVE  RightsWereGranted' /\ CopyGrantedInv'
  BY <1>4, <1>8 DEF PatchRead, PutRead, LoginVerify, LoginIssue
<1>9. ASSUME NEW p \in Procs, SeedLookup(p) \/ SeedFails(p) \/ UpdateFails(p) \/ LoginFails(p)
      PROVE  RightsWereGranted' /\ CopyGrantedInv'
  BY <1>4, <1>9 DEF SeedLookup, SeedFails, UpdateFails, LoginFails
<1>10. CASE UNCHANGED vars
  BY <1>4, <1>10
<1> QED
  BY <1>2, <1>3, <1>5, <1>6, <1>7, <1>8, <1>9, <1>10 DEF Next

(* A change of a row marks everyone who has read it.                        *)
LEMMA FreshStep == TypeOK /\ CreatedInv /\ FreshInv /\ [Next]_vars => FreshInv'
<1> SUFFICES ASSUME TypeOK, CreatedInv, FreshInv, [Next]_vars PROVE FreshInv'
  OBVIOUS
<1> USE AccountsAssumption DEF TypeOK, CreatedInv, FreshInv
<1> DEFINE Same(q) == step'[q] = step[q] /\ id'[q] = id[q] /\ copy'[q] = copy[q]
<1>0. \A q \in Procs : step[q] \in {"patch", "issue"} => id[q] \in Ids
  OBVIOUS
<1>1. ASSUME NEW p \in Procs, step'[p] \notin {"patch", "issue"},
             \A q \in Procs \ {p} : Same(q) /\ (q \notin raced' => q \notin raced),
             \A q \in Procs \ {p} : q \notin raced' /\ step[q] \in {"patch", "issue"} =>
               row'[id[q]] = row[id[q]]
      PROVE  FreshInv'
  BY <1>1 DEF Live
<1>2. ASSUME NEW i \in Ids, NEW e \in Emails, NEW r \in Roles, Insert(i, e, r)
      PROVE  \A q \in Procs : step[q] \in {"patch", "issue"} => row'[id[q]] = row[id[q]]
  BY <1>2, <1>0 DEF Insert
<1>3. ASSUME NEW i \in Ids, NEW e \in Emails, NEW r \in Roles, Create(i, e, r) PROVE FreshInv'
  <2>1. \A q \in Procs : step[q] \in {"patch", "issue"} => row'[id[q]] = row[id[q]]
    BY <1>2, <1>3 DEF Create
  <2> QED
    BY <1>3, <2>1 DEF Create, Live
<1>4. ASSUME NEW p \in Procs, NEW i \in Ids, SeedCreate(p, i) PROVE FreshInv'
  <2>1. \A q \in Procs : step[q] \in {"patch", "issue"} => row'[id[q]] = row[id[q]]
    BY <1>2, <1>4 DEF SeedCreate, Roles
  <2>2. /\ \A q \in Procs \ {p} : Same(q) /\ (q \notin raced' => q \notin raced)
        /\ step'[p] = "idle"
    BY <1>4 DEF SeedCreate
  <2> QED
    BY <2>1, <2>2, <1>1
<1>5. ASSUME NEW p \in Procs, PatchPreserve(p) PROVE FreshInv'
  <2>1. id[p] \in Ids /\ row[id[p]] \in Account
    BY <1>5, LiveRow DEF PatchPreserve
  <2>2. /\ copy'[p].role = row[id[p]].role /\ copy'[p].state = row[id[p]].state
        /\ id'[p] = id[p] /\ step'[p] = "patch" /\ Live(id[p])
    BY <1>5, <2>1 DEF PatchPreserve, Account
  <2>3. \A q \in Procs \ {p} : Same(q) /\ (q \notin raced' => q \notin raced)
    BY <1>5 DEF PatchPreserve
  <2>4. UNCHANGED row
    BY <1>5 DEF PatchPreserve
  <2> QED
    BY <2>2, <2>3, <2>4 DEF Live
<1>6. ASSUME NEW p \in Procs, Update(p) PROVE FreshInv'
  <2>1. /\ \A q \in Procs \ {p} : Same(q) /\ (q \notin raced' => q \notin raced /\ id[q] # id[p])
        /\ step'[p] = "idle"
    BY <1>6 DEF Update, Readers
  <2>2. \A i \in Ids \ {id[p]} : row'[i] = row[i]
    BY <1>6 DEF Update
  <2> QED
    BY <2>1, <2>2, <1>0, <1>1
<1>7. ASSUME NEW i \in Ids, Delete(i) PROVE FreshInv'
  <2>1. \A q \in Procs : Same(q) /\ (q \notin raced' => q \notin raced /\ id[q] # i)
    BY <1>7 DEF Delete, Readers
  <2>2. \A j \in Ids \ {i} : row'[j] = row[j]
    BY <1>7 DEF Delete
  <2> QED
    BY <2>1, <2>2, <1>0 DEF Live
<1>8. ASSUME NEW p \in Procs, NEW i \in Ids, LoginVerify(p, i) PROVE FreshInv'
  <2>1. \A q \in Procs \ {p} : Same(q) /\ (q \notin raced' => q \notin raced)
    BY <1>8 DEF LoginVerify
  <2>2. step'[p] = "issue" /\ id'[p] = i /\ copy'[p] = row[i] /\ Live(i) /\ UNCHANGED row
    BY <1>8 DEF LoginVerify
  <2> QED
    BY <2>1, <2>2 DEF Live
<1>9. ASSUME NEW p \in Procs, UNCHANGED row, step'[p] \notin {"patch", "issue"},
             \A q \in Procs \ {p} : Same(q) /\ (q \notin raced' => q \notin raced)
      PROVE  FreshInv'
  BY <1>9, <1>1
<1>10. ASSUME NEW p \in Procs, NEW i \in Ids,
              \/ \E e \in Emails : PatchRead(p, i, e)
              \/ \E c \in Account : PutRead(p, i, c)
              \/ LoginIssue(p, i)
       PROVE  FreshInv'
  BY <1>9, <1>10 DEF PatchRead, PutRead, LoginIssue
<1>11. ASSUME NEW p \in Procs, SeedLookup(p) \/ SeedFails(p) \/ UpdateFails(p) \/ LoginFails(p)
       PROVE  FreshInv'
  BY <1>9, <1>11 DEF SeedLookup, SeedFails, UpdateFails, LoginFails
<1>12. CASE UNCHANGED vars
  BY <1>12 DEF Live
<1> QED
  BY <1>3, <1>4, <1>5, <1>6, <1>7, <1>8, <1>10, <1>11, <1>12 DEF Next

LEMMA PendingStep == TypeOK /\ PendingInv /\ [Next]_vars => PendingInv'
<1> SUFFICES ASSUME TypeOK, PendingInv, [Next]_vars PROVE PendingInv'
  OBVIOUS
<1> USE DEF TypeOK, PendingInv
<1>1. ASSUME NEW p \in Procs, NEW i \in Ids,
             \/ \E e \in Emails : PatchRead(p, i, e)
             \/ \E c \in Account : PutRead(p, i, c)
             \/ SeedCreate(p, i) \/ LoginVerify(p, i) \/ LoginIssue(p, i)
      PROVE  PendingInv'
  BY <1>1 DEF PatchRead, PutRead, SeedCreate, LoginVerify, LoginIssue
<1>2. ASSUME NEW p \in Procs,
             \/ SeedLookup(p) \/ SeedFails(p) \/ PatchPreserve(p) \/ Update(p)
             \/ UpdateFails(p) \/ LoginFails(p)
      PROVE  PendingInv'
  BY <1>2 DEF SeedLookup, SeedFails, PatchPreserve, Update, UpdateFails, LoginFails
<1>3. CASE UNCHANGED <<step, token>>
  BY <1>3
<1> QED
  BY <1>1, <1>2, <1>3 DEF Next, Create, Delete

-----------------------------------------------------------------------------
(* The parts of IInv hold initially and are kept by every step.             *)
THEOREM Invariance == Spec => []IInv
<1>1. Init => IInv
  BY DEF Init, IInv, TypeOK, CreatedInv, EmailUnique, RightsWereGranted, CopyGrantedInv,
     FreshInv, PendingInv, Live
<1>2. IInv /\ [Next]_vars => IInv'
  BY TypeStep, EmailStep, CreatedStep, GrantedStep, FreshStep, PendingStep
     DEF IInv
<1> QED
  BY <1>1, <1>2, PTL DEF Spec

(* Type correctness, for every set of IDs, emails and requests.             *)
THEOREM TypeCorrectness == Spec => []TypeOK
<1>1. IInv => TypeOK
  BY DEF IInv
<1> QED
  BY <1>1, Invariance, PTL

(* No two accounts ever share an email.                                     *)
THEOREM EmailsStayUnique == Spec => []EmailUnique
<1>1. IInv => EmailUnique
  BY DEF IInv
<1> QED
  BY <1>1, Invariance, PTL

(* Whatever updates race, they only ever write back rights that creation or *)
(* an admin gave the account at some time.                                  *)
THEOREM RightsStayGranted == Spec => []RightsWereGranted
<1>1. IInv => RightsWereGranted
  BY DEF IInv
<1> QED
  BY <1>1, Invariance, PTL

(* A deleted account stays deleted, although requests still hold its copy.  *)
THEOREM DeletionIsFinal == Spec => DeletedForGood
<1>1. TypeOK /\ [Next]_vars => [\A i \in Ids : row[i] = Gone => row'[i] = Gone]_vars
  <2> SUFFICES ASSUME TypeOK, [Next]_vars, NEW i \in Ids, row[i] = Gone PROVE row'[i] = Gone
    OBVIOUS
  <2>1. ~Live(i) /\ row[i] # NoRow
    BY AccountsAssumption DEF Live
  <2> QED
    BY <2>1 DEF TypeOK, Next, Create, Insert, SeedCreate, SeedLookup, SeedFails, PatchRead,
       PatchPreserve, PutRead, Update, UpdateFails, Delete, LoginVerify, LoginIssue, LoginFails
<1> QED
  BY <1>1, TypeCorrectness, PTL DEF Spec, DeletedForGood

(* A PATCH whose account did not change after the service's read writes     *)
(* back the role and the state the account has.                             *)
THEOREM UnracedPatchIsHarmless == Spec => UnracedPatchKeepsRights
<1>1. ASSUME IInv, [Next]_vars, NEW p \in Procs, Patches(p), p \notin raced
      PROVE  KeepsRights(id[p])
  <2>1. /\ step[p] = "patch" /\ step'[p] = "idle" /\ id[p] \in Ids /\ Live(id[p])
        /\ copy[p].role = row[id[p]].role /\ copy[p].state = row[id[p]].state
    BY <1>1 DEF IInv, TypeOK, FreshInv, Patches
  <2>2. row' = row \/ row' = [row EXCEPT ![id[p]] = copy[p]]
    BY <1>1, <2>1 DEF IInv, TypeOK, Next, Create, SeedCreate, SeedLookup, SeedFails, PatchRead,
       PatchPreserve, PutRead, Update, UpdateFails, Delete, LoginVerify, LoginIssue, LoginFails
  <2> QED
    BY <1>1, <2>1, <2>2 DEF IInv, TypeOK, KeepsRights
<1>2. IInv /\ [Next]_vars =>
        [\A p \in Procs : Patches(p) /\ p \notin raced => KeepsRights(id[p])]_vars
  BY <1>1
<1> QED
  BY <1>2, Invariance, PTL DEF Spec, UnracedPatchKeepsRights

(* A login whose account did not change between its two reads gets a token  *)
(* for the account it verified: the second read finds no other.             *)
THEOREM UnracedLoginIsRight == Spec => UnracedLogin
<1>1. ASSUME IInv, [Next]_vars, NEW p \in Procs, step[p] = "issue", p \notin raced
      PROVE  token'[p] \in {NoId, id[p]}
  <2>1. /\ id[p] \in Ids /\ Live(id[p]) /\ copy[p] = row[id[p]]
        /\ token[p] = NoId
    BY <1>1 DEF IInv, TypeOK, FreshInv, PendingInv
  <2>2. token \in [Procs -> Ids \cup {NoId}]
    BY <1>1 DEF IInv, TypeOK
  <2>3. ASSUME NEW q \in Procs, NEW i \in Ids, LoginIssue(q, i)
        PROVE  token'[p] \in {NoId, id[p]}
    <3>1. q = p => i = id[p]
      BY <2>1, <2>3, <1>1 DEF LoginIssue, Holders, IInv, EmailUnique
    <3> QED
      BY <2>1, <2>2, <2>3, <3>1 DEF LoginIssue
  <2>4. ASSUME NEW q \in Procs, token' = [token EXCEPT ![q] = NoId]
        PROVE  token'[p] \in {NoId, id[p]}
    BY <2>1, <2>2, <2>4
  <2>5. CASE UNCHANGED token
    BY <2>1, <2>5
  <2> QED
    BY <1>1, <2>3, <2>4, <2>5 DEF Next, Create, SeedCreate, SeedLookup, SeedFails, PatchRead,
       PatchPreserve, PutRead, Update, UpdateFails, Delete, LoginVerify, LoginFails
<1>2. IInv /\ [Next]_vars =>
        [\A p \in Procs : step[p] = "issue" /\ p \notin raced => token'[p] \in {NoId, id[p]}]_vars
  BY <1>1
<1> QED
  BY <1>2, Invariance, PTL DEF Spec, UnracedLogin
=============================================================================
