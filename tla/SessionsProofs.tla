-------------------------- MODULE SessionsProofs --------------------------
(***************************************************************************)
(* Proofs about Sessions, for any accounts, any number of requests at a    *)
(* time, and any lifetime of tokens.                                       *)
(***************************************************************************)
EXTENDS Sessions, Integers, TLAPS

Requests == {Idle} \cup LoggingIn \cup Issuing \cup Entering \cup Serving \cup Writing

(* How old the role may be with which a request began: a key's account is   *)
(* read by the request itself, a token's when the token was made.           *)
Lag(via) == IF via = "key" THEN 0 ELSE Lifetime + MaxLatency - 1

(* The older the role or the check a request relies on, the older it is.    *)
Fresh(q) ==
  /\ q.step = "issue" /\ q.claim = "admin" => sinceAdmin[q.who] <= q.age
  /\ q.step \in {"account", "guard"} /\ q.claim = "admin" =>
       sinceAdmin[q.who] <= Lag(q.via) + q.age
  /\ q.step \in {"handler", "write"} /\ q.route = "admin" =>
       sinceAdmin[q.who] <= Lag(q.via) + q.age
  /\ q.step \in {"guard", "handler", "write"} => sinceActive[q.who] <= q.age

ClocksOK ==
  \A a \in Accounts :
    /\ role[a] = "admin" => sinceAdmin[a] = 0
    /\ state[a] = "active" => sinceActive[a] = 0

(* A token was made from a role no older than one request.                  *)
TokenOK ==
  \A a \in Accounts : token[a]["admin"] > 0 =>
    sinceAdmin[a] + token[a]["admin"] <= Lifetime + MaxLatency

FreshOK == \A p \in Procs : Fresh(request[p])

IInv == TypeOK /\ ClocksOK /\ TokenOK /\ FreshOK

-----------------------------------------------------------------------------
(* What a request knows follows from its step. *)
LEMMA Shapes ==
  ASSUME NEW q \in Requests
  PROVE  /\ q.step \in {"idle", "login", "issue", "account", "guard", "handler", "write"}
         /\ q.step = "idle" => q = Idle
         /\ q.step = "login" => q \in LoggingIn
         /\ q.step = "issue" => q \in Issuing
         /\ q.step \in {"account", "guard"} => q \in Entering
         /\ q.step = "handler" => q \in Serving
         /\ q.step = "write" => q \in Writing
BY DEF Requests, Idle, LoggingIn, Issuing, Entering, Serving, Writing

(* A request that is not idle has an account and an age. *)
LEMMA Busy ==
  ASSUME NEW q \in Requests, q.step # "idle"
  PROVE  q.who \in Accounts /\ q.age \in 0..MaxLatency
BY Shapes DEF LoggingIn, Issuing, Entering, Serving, Writing

(* A request whose step is another's is as fresh as before when no clock    *)
(* has gone on.                                                             *)
LEMMA StaysFresh ==
  ASSUME SessionsAssumption, TypeOK, sinceAdmin' \in [Accounts -> 0..Staleness],
         sinceActive' \in [Accounts -> 0..(MaxLatency + 1)],
         \A a \in Accounts : sinceAdmin'[a] <= sinceAdmin[a] /\ sinceActive'[a] <= sinceActive[a],
         NEW q \in Requests, Fresh(q)
  PROVE  Fresh(q)'
<1>1. CASE q.step \in {"idle", "login"}
  BY <1>1 DEF Fresh
<1>2. CASE q.step \notin {"idle", "login"}
  <2>1. /\ q.who \in Accounts /\ q.age \in 0..MaxLatency
        /\ Lag(q.via) \in Int
    BY <1>2, Busy DEF Lag, SessionsAssumption
  <2>2. /\ sinceAdmin'[q.who] <= sinceAdmin[q.who]
        /\ sinceActive'[q.who] <= sinceActive[q.who]
        /\ sinceAdmin[q.who] \in Int /\ sinceActive[q.who] \in Int
        /\ sinceAdmin'[q.who] \in Int /\ sinceActive'[q.who] \in Int
    BY <2>1 DEF TypeOK, SessionsAssumption, Staleness
  <2>3. Lag(q.via)' = Lag(q.via)
    BY DEF Lag
  <2>. QED  BY <2>1, <2>2, <2>3 DEF Fresh
<1>. QED  BY <1>1, <1>2

(* A step of one request, after which no clock shows more than before.      *)
LEMMA OneRequest ==
  ASSUME SessionsAssumption, IInv, sinceAdmin' \in [Accounts -> 0..Staleness],
         sinceActive' \in [Accounts -> 0..(MaxLatency + 1)],
         \A a \in Accounts : sinceAdmin'[a] <= sinceAdmin[a] /\ sinceActive'[a] <= sinceActive[a],
         NEW p \in Procs, request' = [request EXCEPT ![p] = request'[p]],
         request'[p] \in Requests, Fresh(request[p])'
  PROVE  request' \in [Procs -> Requests] /\ FreshOK'
<1>1. request \in [Procs -> Requests] /\ TypeOK /\ FreshOK
  BY DEF IInv, TypeOK, Requests
<1>2. \A q \in Requests : Fresh(q) => Fresh(q)'
  BY <1>1, StaysFresh
<1>3. ASSUME NEW r \in Procs, r # p PROVE Fresh(request[r])'
  <2>1. request'[r] = request[r] /\ request[r] \in Requests /\ Fresh(request[r])
    BY <1>1, <1>3 DEF FreshOK
  <2>. QED  BY <2>1, <1>2 DEF Fresh
<1>4. FreshOK'
  BY <1>3 DEF FreshOK
<1>. QED  BY <1>1, <1>4

(* A step of one request that changes nothing else. *)
LEMMA RequestOnly ==
  ASSUME SessionsAssumption, IInv, UNCHANGED <<rows, token, clocks>>,
         NEW p \in Procs, request' = [request EXCEPT ![p] = request'[p]],
         request'[p] \in Requests, Fresh(request[p])'
  PROVE  IInv'
<1>1. /\ role' = role /\ state' = state /\ token' = token
      /\ sinceAdmin' = sinceAdmin /\ sinceActive' = sinceActive
  BY DEF rows, clocks
<1>2. request' \in [Procs -> Requests] /\ FreshOK'
  <2>1. /\ sinceAdmin' \in [Accounts -> 0..Staleness]
        /\ sinceActive' \in [Accounts -> 0..(MaxLatency + 1)]
        /\ \A a \in Accounts : sinceAdmin'[a] <= sinceAdmin[a] /\ sinceActive'[a] <= sinceActive[a]
    BY <1>1 DEF IInv, TypeOK, SessionsAssumption, Staleness
  <2>. QED  BY <2>1, OneRequest
<1>3. TypeOK'
  BY <1>1, <1>2 DEF IInv, TypeOK, Requests
<1>4. ClocksOK' /\ TokenOK'
  BY <1>1 DEF IInv, ClocksOK, TokenOK
<1>. QED  BY <1>2, <1>3, <1>4 DEF IInv

-----------------------------------------------------------------------------
(* One lemma per group of actions. *)
LEMMA LoginStep ==
  ASSUME SessionsAssumption, IInv, NEW p \in Procs,
         (\E a \in Accounts : LoginVerify(p, a)) \/ LoginRead(p)
  PROVE  IInv'
<1>. USE DEF IInv
<1>1. request[p] \in Requests /\ request \in [Procs -> Requests]
  BY DEF TypeOK, Requests
<1>2. CASE \E a \in Accounts : LoginVerify(p, a)
  <2>1. PICK a \in Accounts : LoginVerify(p, a)
    BY <1>2
  <2>2. /\ request'[p] = [step |-> "login", who |-> a, age |-> 0]
        /\ request' = [request EXCEPT ![p] = request'[p]]
    BY <2>1, <1>1 DEF LoginVerify, Become
  <2>3. request'[p] \in Requests
    BY <2>2 DEF Requests, LoggingIn, SessionsAssumption
  <2>4. Fresh(request[p])'
    BY <2>2 DEF Fresh
  <2>. QED  BY <2>1, <2>2, <2>3, <2>4, RequestOnly DEF LoginVerify
<1>3. CASE LoginRead(p)
  <2>1. request[p] \in LoggingIn
    BY <1>1, <1>3, Shapes DEF LoginRead, At
  <2>2. /\ request'[p] = [step |-> "issue", who |-> request[p].who,
                          claim |-> role[request[p].who], age |-> request[p].age]
        /\ request' = [request EXCEPT ![p] = request'[p]]
        /\ state[request[p].who] # "deleted"
    BY <1>1, <1>3 DEF LoginRead, Become
  <2>3. role[request[p].who] \in Roles
    BY <2>1, <2>2 DEF TypeOK, LoggingIn
  <2>4. request'[p] \in Requests
    BY <2>1, <2>2, <2>3 DEF Requests, LoggingIn, Issuing
  <2>5. Fresh(request[p])'
    <3>1. role[request[p].who] = "admin" => sinceAdmin[request[p].who] = 0
      BY <2>1 DEF ClocksOK, LoggingIn
    <3>2. sinceAdmin' = sinceAdmin /\ request[p].age >= 0
      BY <1>3, <2>1 DEF LoginRead, clocks, LoggingIn, SessionsAssumption
    <3>. QED  BY <2>2, <3>1, <3>2 DEF Fresh
  <2>. QED  BY <1>3, <2>2, <2>4, <2>5, RequestOnly DEF LoginRead
<1>. QED  BY <1>2, <1>3

LEMMA IssueStep ==
  ASSUME SessionsAssumption, IInv, NEW p \in Procs, LoginIssue(p)
  PROVE  IInv'
<1>. USE DEF IInv
<1>. DEFINE a == request[p].who
            r == request[p].claim
<1>1. request[p] \in Issuing /\ request \in [Procs -> Requests]
  BY Shapes DEF TypeOK, Requests, LoginIssue, At
<1>2. /\ a \in Accounts /\ r \in Roles /\ request[p].age \in 0..MaxLatency
      /\ request[p].step = "issue"
  BY <1>1 DEF Issuing
<1>3. /\ role' = role /\ state' = state
      /\ sinceAdmin' = sinceAdmin /\ sinceActive' = sinceActive
      /\ token' = [token EXCEPT ![a][r] = Lifetime]
      /\ request'[p] = Idle /\ request' = [request EXCEPT ![p] = request'[p]]
  BY <1>1 DEF LoginIssue, Become, rows, clocks
<1>4. request' \in [Procs -> Requests] /\ FreshOK'
  <2>1. /\ sinceAdmin' \in [Accounts -> 0..Staleness]
        /\ sinceActive' \in [Accounts -> 0..(MaxLatency + 1)]
        /\ \A b \in Accounts : sinceAdmin'[b] <= sinceAdmin[b] /\ sinceActive'[b] <= sinceActive[b]
    BY <1>3 DEF TypeOK, SessionsAssumption, Staleness
  <2>2. request'[p] \in Requests /\ Fresh(request[p])'
    BY <1>3 DEF Requests, Fresh, Idle
  <2>. QED  BY <1>3, <2>1, <2>2, OneRequest
<1>5. token' \in [Accounts -> [Roles -> 0..Lifetime]]
  BY <1>2, <1>3 DEF TypeOK, SessionsAssumption
<1>6. TypeOK'
  BY <1>3, <1>4, <1>5 DEF TypeOK, Requests
<1>7. ClocksOK'
  BY <1>3 DEF ClocksOK
<1>8. TokenOK'
  <2>. SUFFICES ASSUME NEW b \in Accounts, token'[b]["admin"] > 0
                PROVE  sinceAdmin[b] + token'[b]["admin"] <= Lifetime + MaxLatency
    BY <1>3 DEF TokenOK
  <2>1. CASE b = a /\ r = "admin"
    <3>1. token'[b]["admin"] = Lifetime
      BY <2>1, <1>2, <1>3 DEF TypeOK, Roles
    <3>2. sinceAdmin[b] <= MaxLatency
      BY <2>1, <1>2 DEF FreshOK, Fresh, TypeOK, SessionsAssumption, Staleness
    <3>3. sinceAdmin[b] \in Int
      BY DEF TypeOK, Staleness, SessionsAssumption
    <3>. QED  BY <3>1, <3>2, <3>3 DEF SessionsAssumption
  <2>2. CASE ~(b = a /\ r = "admin")
    <3>1. token'[b]["admin"] = token[b]["admin"]
      BY <2>2, <1>2, <1>3 DEF TypeOK, Roles
    <3>. QED  BY <3>1 DEF TokenOK
  <2>. QED  BY <2>1, <2>2
<1>. QED  BY <1>4, <1>6, <1>7, <1>8

LEMMA EnterStep ==
  ASSUME SessionsAssumption, IInv, NEW p \in Procs, NEW a \in Accounts, NEW path \in Routes,
         ApiKey(p, a, path) \/ \E r \in Roles : Bearer(p, a, r, path)
  PROVE  IInv'
<1>. USE DEF IInv
<1>1. request \in [Procs -> Requests]
  BY DEF TypeOK, Requests
<1>2. CASE ApiKey(p, a, path)
  <2>1. /\ request'[p] = [step |-> "account", via |-> "key", route |-> path,
                          who |-> a, claim |-> role[a], age |-> 0]
        /\ request' = [request EXCEPT ![p] = request'[p]]
        /\ state[a] = "active" /\ sinceAdmin' = sinceAdmin
    BY <1>1, <1>2 DEF ApiKey, Enter, Become, clocks
  <2>2. role[a] \in Roles
    BY <2>1 DEF TypeOK
  <2>3. request'[p] \in Requests
    BY <2>1, <2>2 DEF Requests, Entering, SessionsAssumption
  <2>4. Fresh(request[p])'
    BY <2>1 DEF Fresh, ClocksOK, Lag
  <2>. QED  BY <1>2, <2>1, <2>3, <2>4, RequestOnly DEF ApiKey
<1>3. CASE \E r \in Roles : Bearer(p, a, r, path)
  <2>0. PICK r \in Roles : Bearer(p, a, r, path)
    BY <1>3
  <2>1. /\ request'[p] = [step |-> "account", via |-> "token", route |-> path,
                          who |-> a, claim |-> r, age |-> 0]
        /\ request' = [request EXCEPT ![p] = request'[p]]
        /\ token[a][r] > 0 /\ sinceAdmin' = sinceAdmin
    BY <1>1, <2>0 DEF Bearer, Enter, Become, clocks
  <2>2. request'[p] \in Requests
    BY <2>1 DEF Requests, Entering, SessionsAssumption
  <2>3. r = "admin" => sinceAdmin[a] <= Lifetime + MaxLatency - 1
    BY <2>1 DEF TokenOK, TypeOK, SessionsAssumption, Staleness, Roles
  <2>4. Fresh(request[p])'
    <3>1. Lag("token") = Lifetime + MaxLatency - 1
      BY DEF Lag
    <3>2. Lifetime + MaxLatency - 1 + 0 = Lifetime + MaxLatency - 1
      BY DEF SessionsAssumption
    <3>. QED  BY <2>1, <2>3, <3>1, <3>2 DEF Fresh, Lag
  <2>. QED  BY <2>0, <2>1, <2>2, <2>4, RequestOnly DEF Bearer
<1>. QED  BY <1>2, <1>3

LEMMA GuardStep ==
  ASSUME SessionsAssumption, IInv, NEW p \in Procs, ReadAccount(p) \/ RequireAdmin(p)
  PROVE  IInv'
<1>. USE DEF IInv
<1>. DEFINE q == request[p]
            served == [step |-> "handler", via |-> q.via, route |-> q.route,
                       who |-> q.who, age |-> q.age]
<1>1. request \in [Procs -> Requests] /\ q \in Entering
  BY Shapes DEF TypeOK, Requests, ReadAccount, RequireAdmin, At
<1>2. /\ q.via \in {"token", "key"} /\ q.route \in Routes /\ q.who \in Accounts
      /\ q.claim \in Roles /\ q.age \in 0..MaxLatency /\ q.step \in {"account", "guard"}
  BY <1>1 DEF Entering
<1>3. served \in Requests /\ [q EXCEPT !.step = "guard"] \in Requests
  <2>1. served \in Serving
    BY <1>2 DEF Serving
  <2>2. [q EXCEPT !.step = "guard"] \in Entering
    BY <1>1, <1>2 DEF Entering
  <2>. QED  BY <2>1, <2>2 DEF Requests
<1>4. /\ UNCHANGED <<rows, token, clocks>>
      /\ sinceAdmin' = sinceAdmin /\ sinceActive' = sinceActive
  BY DEF ReadAccount, RequireAdmin, clocks
<1>5. Fresh(q)
  BY DEF FreshOK
<1>6. sinceAdmin[q.who] \in Int /\ sinceActive[q.who] \in Int
  BY <1>2 DEF TypeOK, Staleness, SessionsAssumption
<1>7. CASE ReadAccount(p)
  <2>1. sinceActive[q.who] = 0 /\ sinceActive[q.who] <= q.age
    BY <1>2, <1>7 DEF ReadAccount, ClocksOK, SessionsAssumption
  <2>2. CASE q.route = "admin"
    <3>1. request' = [request EXCEPT ![p] = [q EXCEPT !.step = "guard"]]
      BY <1>7, <2>2 DEF ReadAccount, AfterAuth, Become
    <3>2. /\ request'[p] = [q EXCEPT !.step = "guard"]
          /\ request' = [request EXCEPT ![p] = request'[p]]
      BY <1>1, <3>1
    <3>3. Fresh(request[p])'
      BY <1>1, <1>2, <1>4, <1>5, <2>1, <3>2 DEF Fresh, Entering, Lag
    <3>. QED  BY <1>3, <1>4, <3>2, <3>3, RequestOnly
  <2>3. CASE q.route # "admin"
    <3>1. request' = [request EXCEPT ![p] = served]
      BY <1>7, <2>3 DEF ReadAccount, AfterAuth, Serve, Become
    <3>2. request'[p] = served /\ request' = [request EXCEPT ![p] = request'[p]]
      BY <1>1, <3>1
    <3>3. Fresh(request[p])'
      BY <1>4, <2>1, <2>3, <3>2 DEF Fresh
    <3>. QED  BY <1>3, <1>4, <3>2, <3>3, RequestOnly
  <2>. QED  BY <2>2, <2>3
<1>8. CASE RequireAdmin(p) /\ q.claim = "admin"
  <2>1. request' = [request EXCEPT ![p] = served]
    BY <1>8 DEF RequireAdmin, Serve, Become
  <2>2. request'[p] = served /\ request' = [request EXCEPT ![p] = request'[p]]
    BY <1>1, <2>1
  <2>3. Fresh(request[p])'
    BY <1>2, <1>4, <1>5, <1>8, <2>2 DEF Fresh, RequireAdmin, At, Lag
  <2>. QED  BY <1>3, <1>4, <2>2, <2>3, RequestOnly
<1>9. CASE RequireAdmin(p) /\ q.claim # "admin"
  <2>1. request'[p] = Idle /\ request' = [request EXCEPT ![p] = request'[p]]
    BY <1>1, <1>9 DEF RequireAdmin, Become
  <2>2. request'[p] \in Requests /\ Fresh(request[p])'
    BY <2>1 DEF Requests, Fresh, Idle
  <2>. QED  BY <1>4, <2>1, <2>2, RequestOnly
<1>. QED  BY <1>7, <1>8, <1>9

LEMMA RefuseStep ==
  ASSUME SessionsAssumption, IInv, NEW p \in Procs, Refuse(p)
  PROVE  IInv'
<1>1. request'[p] = Idle /\ request' = [request EXCEPT ![p] = request'[p]]
  BY DEF Refuse, Become, IInv, TypeOK
<1>2. request'[p] \in Requests /\ Fresh(request[p])'
  BY <1>1 DEF Requests, Fresh, Idle
<1>. QED  BY <1>1, <1>2, RequestOnly DEF Refuse

LEMMA ReadTargetStep ==
  ASSUME SessionsAssumption, IInv, NEW p \in Procs, NEW t \in Accounts, NEW r \in Roles,
         NEW s \in States, ReadTarget(p, t, r, s)
  PROVE  IInv'
<1>. USE DEF IInv
<1>. DEFINE q == request[p]
<1>1. request \in [Procs -> Requests] /\ q \in Serving
  BY Shapes DEF TypeOK, Requests, ReadTarget, At
<1>2. /\ request'[p] = [step |-> "write", via |-> q.via, route |-> q.route, who |-> q.who,
                        age |-> q.age, target |-> t, role |-> r, state |-> s]
      /\ request' = [request EXCEPT ![p] = request'[p]]
      /\ sinceAdmin' = sinceAdmin /\ sinceActive' = sinceActive
  BY <1>1 DEF ReadTarget, Become, clocks
<1>3. request'[p] \in Requests
  BY <1>1, <1>2 DEF Requests, Serving, Writing
<1>4. Fresh(request[p])'
  BY <1>1, <1>2 DEF Fresh, FreshOK, Serving, Lag
<1>. QED  BY <1>2, <1>3, <1>4, RequestOnly DEF ReadTarget

(* A write and a deletion: an account that gains a role or comes back to    *)
(* life has its clock restarted.                                            *)
LEMMA WriteStep ==
  ASSUME SessionsAssumption, IInv, NEW p \in Procs, WriteTarget(p)
  PROVE  IInv'
<1>. USE DEF IInv
<1>. DEFINE w == request[p]
<1>1. request \in [Procs -> Requests] /\ w \in Writing
  BY Shapes DEF TypeOK, Requests, WriteTarget, At
<1>2. w.target \in Accounts /\ w.role \in Roles /\ w.state \in States
  BY <1>1 DEF Writing
<1>3. /\ role' = [role EXCEPT ![w.target] = w.role]
      /\ state' = [state EXCEPT ![w.target] = w.state]
      /\ sinceAdmin' = [sinceAdmin EXCEPT ![w.target] =
                          IF w.role = "admin" THEN 0 ELSE sinceAdmin[w.target]]
      /\ sinceActive' = [sinceActive EXCEPT ![w.target] =
                           IF w.state = "active" THEN 0 ELSE sinceActive[w.target]]
      /\ token' = token
      /\ request'[p] = Idle /\ request' = [request EXCEPT ![p] = request'[p]]
  BY <1>1 DEF WriteTarget, Restart, Become
<1>4. /\ sinceAdmin' \in [Accounts -> 0..Staleness]
      /\ sinceActive' \in [Accounts -> 0..(MaxLatency + 1)]
      /\ \A b \in Accounts : sinceAdmin'[b] <= sinceAdmin[b] /\ sinceActive'[b] <= sinceActive[b]
  BY <1>2, <1>3 DEF TypeOK, SessionsAssumption, Staleness
<1>5. request' \in [Procs -> Requests] /\ FreshOK'
  <2>1. request'[p] \in Requests /\ Fresh(request[p])'
    BY <1>3 DEF Requests, Fresh, Idle
  <2>. QED  BY <1>3, <1>4, <2>1, OneRequest
<1>6. TypeOK'
  <2>1. /\ role' \in [Accounts -> Roles \cup {"none"}]
        /\ state' \in [Accounts -> States \cup {"deleted"}]
        /\ \A b \in Accounts : role'[b] = "none" <=> state'[b] = "deleted"
    BY <1>2, <1>3 DEF TypeOK, Roles, States
  <2>. QED  BY <1>3, <1>4, <1>5, <2>1 DEF TypeOK, Requests
<1>7. ClocksOK'
  BY <1>2, <1>3 DEF ClocksOK, TypeOK
<1>8. TokenOK'
  <2>. SUFFICES ASSUME NEW b \in Accounts, token[b]["admin"] > 0
                PROVE  sinceAdmin'[b] + token[b]["admin"] <= Lifetime + MaxLatency
    BY <1>3 DEF TokenOK
  <2>1. /\ sinceAdmin'[b] \in Int /\ sinceAdmin[b] \in Int /\ token[b]["admin"] \in Int
        /\ sinceAdmin'[b] <= sinceAdmin[b]
    BY <1>4 DEF TypeOK, Staleness, SessionsAssumption, Roles
  <2>2. sinceAdmin[b] + token[b]["admin"] <= Lifetime + MaxLatency
    BY DEF TokenOK
  <2>. QED  BY <2>1, <2>2 DEF SessionsAssumption
<1>. QED  BY <1>5, <1>6, <1>7, <1>8

LEMMA DeleteStep ==
  ASSUME SessionsAssumption, IInv, NEW p \in Procs, NEW t \in Accounts, DeleteTarget(p, t)
  PROVE  IInv'
<1>. USE DEF IInv
<1>1. /\ role' = [role EXCEPT ![t] = "none"] /\ state' = [state EXCEPT ![t] = "deleted"]
      /\ sinceAdmin' = sinceAdmin /\ sinceActive' = sinceActive /\ token' = token
      /\ request'[p] = Idle /\ request' = [request EXCEPT ![p] = request'[p]]
  BY DEF DeleteTarget, Become, clocks, TypeOK
<1>2. /\ sinceAdmin' \in [Accounts -> 0..Staleness]
      /\ sinceActive' \in [Accounts -> 0..(MaxLatency + 1)]
      /\ \A b \in Accounts : sinceAdmin'[b] <= sinceAdmin[b] /\ sinceActive'[b] <= sinceActive[b]
  BY <1>1 DEF TypeOK, SessionsAssumption, Staleness
<1>3. request' \in [Procs -> Requests] /\ FreshOK'
  <2>1. request'[p] \in Requests /\ Fresh(request[p])'
    BY <1>1 DEF Requests, Fresh, Idle
  <2>. QED  BY <1>1, <1>2, <2>1, OneRequest
<1>4. TypeOK'
  <2>1. /\ role' \in [Accounts -> Roles \cup {"none"}]
        /\ state' \in [Accounts -> States \cup {"deleted"}]
        /\ \A b \in Accounts : role'[b] = "none" <=> state'[b] = "deleted"
    BY <1>1 DEF TypeOK, Roles, States
  <2>. QED  BY <1>1, <1>2, <1>3, <2>1 DEF TypeOK, Requests
<1>5. ClocksOK' /\ TokenOK'
  BY <1>1 DEF ClocksOK, TokenOK, TypeOK
<1>. QED  BY <1>3, <1>4, <1>5

-----------------------------------------------------------------------------
(* A tick ages a request and changes nothing else of it. *)
LEMMA Older ==
  ASSUME SessionsAssumption, NEW q \in Requests, q.step # "idle", q.age < MaxLatency,
         NEW o, o = [q EXCEPT !.age = q.age + 1]
  PROVE  /\ o \in Requests
         /\ o.step = q.step /\ o.who = q.who /\ o.age = q.age + 1
         /\ q.step \in {"issue", "account", "guard"} => o.claim = q.claim
         /\ q.step \in {"account", "guard", "handler", "write"} =>
              o.via = q.via /\ o.route = q.route
<1>1. q.age \in 0..MaxLatency /\ q.age + 1 \in 0..MaxLatency
  BY Busy DEF SessionsAssumption
<1>2. CASE q \in LoggingIn
  BY <1>1, <1>2 DEF LoggingIn, Requests
<1>3. CASE q \in Issuing
  BY <1>1, <1>3 DEF Issuing, Requests
<1>4. CASE q \in Entering
  BY <1>1, <1>4 DEF Entering, Requests
<1>5. CASE q \in Serving
  BY <1>1, <1>5 DEF Serving, Requests
<1>6. CASE q \in Writing
  BY <1>1, <1>6 DEF Writing, Requests
<1>. QED  BY <1>2, <1>3, <1>4, <1>5, <1>6, Shapes

(* No clock gains more than one tick. *)
LEMMA ClocksTick ==
  ASSUME SessionsAssumption, IInv, Tick
  PROVE  /\ sinceAdmin' \in [Accounts -> 0..Staleness]
         /\ sinceActive' \in [Accounts -> 0..(MaxLatency + 1)]
         /\ \A a \in Accounts : /\ sinceAdmin'[a] <= sinceAdmin[a] + 1
                               /\ sinceActive'[a] <= sinceActive[a] + 1
         /\ ClocksOK'
<1>. USE DEF IInv
<1>1. /\ sinceAdmin' = [a \in Accounts |->
            IF role[a] = "admin" THEN 0
            ELSE IF sinceAdmin[a] >= Staleness THEN sinceAdmin[a] ELSE sinceAdmin[a] + 1]
      /\ sinceActive' = [a \in Accounts |->
            IF state[a] = "active" THEN 0
            ELSE IF sinceActive[a] >= MaxLatency + 1 THEN sinceActive[a] ELSE sinceActive[a] + 1]
      /\ role' = role /\ state' = state
  BY DEF Tick, Later, rows
<1>2. Staleness \in Nat /\ MaxLatency \in Nat
  BY DEF Staleness, SessionsAssumption
<1>3. \A a \in Accounts : sinceAdmin[a] \in 0..Staleness /\ sinceActive[a] \in 0..(MaxLatency + 1)
  BY DEF TypeOK
<1>4. /\ sinceAdmin' \in [Accounts -> 0..Staleness]
      /\ \A a \in Accounts : sinceAdmin'[a] <= sinceAdmin[a] + 1
  BY <1>1, <1>2, <1>3
<1>5. /\ sinceActive' \in [Accounts -> 0..(MaxLatency + 1)]
      /\ \A a \in Accounts : sinceActive'[a] <= sinceActive[a] + 1
  BY <1>1, <1>2, <1>3
<1>6. ClocksOK'
  BY <1>1 DEF ClocksOK
<1>. QED  BY <1>4, <1>5, <1>6

LEMMA TickStep ==
  ASSUME SessionsAssumption, IInv, Tick
  PROVE  IInv'
<1>. USE DEF IInv
<1>1. /\ request \in [Procs -> Requests]
      /\ role' = role /\ state' = state
  BY DEF TypeOK, Requests, Tick, rows
<1>2. \A p \in Procs : request'[p] \in Requests /\ Fresh(request[p])'
  <2>. SUFFICES ASSUME NEW p \in Procs PROVE request'[p] \in Requests /\ Fresh(request[p])'
    OBVIOUS
  <2>1. CASE At(p, "idle")
    <3>1. request'[p] = Idle
      BY <2>1 DEF Tick
    <3>. QED  BY <3>1 DEF Requests, Fresh, Idle
  <2>2. CASE ~At(p, "idle")
    <3>. DEFINE q == request[p]
    <3>1. /\ q \in Requests /\ q.step # "idle" /\ q.age < MaxLatency
          /\ request'[p] = [q EXCEPT !.age = q.age + 1]
      BY <1>1, <2>2 DEF Tick, At
    <3>2. /\ request'[p] \in Requests
          /\ request'[p].step = q.step /\ request'[p].who = q.who
          /\ request'[p].age = q.age + 1
          /\ q.step \in {"issue", "account", "guard"} => request'[p].claim = q.claim
          /\ q.step \in {"account", "guard", "handler", "write"} =>
               request'[p].via = q.via /\ request'[p].route = q.route
      BY <3>1, Older
    <3>3. /\ q.who \in Accounts /\ q.age \in Int /\ Lag(q.via) \in Int
      BY <3>1, Busy DEF Lag, SessionsAssumption
    <3>4. /\ sinceAdmin'[q.who] <= sinceAdmin[q.who] + 1
          /\ sinceActive'[q.who] <= sinceActive[q.who] + 1
          /\ sinceAdmin'[q.who] \in Int /\ sinceActive'[q.who] \in Int
          /\ sinceAdmin[q.who] \in Int /\ sinceActive[q.who] \in Int
      BY <3>3, ClocksTick DEF TypeOK, Staleness, SessionsAssumption
    <3>5. Fresh(q)
      BY DEF FreshOK
    <3>6. request'[p].via = q.via => Lag(request[p].via)' = Lag(q.via)
      BY DEF Lag
    <3>7. Fresh(request[p])'
      BY <3>2, <3>3, <3>4, <3>5, <3>6 DEF Fresh
    <3>. QED  BY <3>2, <3>7
  <2>. QED  BY <2>1, <2>2
<1>3. request' \in [Procs -> Requests]
  <2>1. request' = [p \in Procs |-> request'[p]]
    BY DEF Tick
  <2>. QED  BY <1>2, <2>1
<1>4. token' \in [Accounts -> [Roles -> 0..Lifetime]]
  <2>1. token' = [a \in Accounts |->
                   [r \in Roles |-> IF token[a][r] = 0 THEN 0 ELSE token[a][r] - 1]]
    BY DEF Tick, TickTokens
  <2>2. \A a \in Accounts, r \in Roles : token[a][r] \in 0..Lifetime
    BY DEF TypeOK
  <2>3. \A n \in 0..Lifetime : (IF n = 0 THEN 0 ELSE n - 1) \in 0..Lifetime
    BY DEF SessionsAssumption
  <2>4. \A a \in Accounts : [r \in Roles |-> IF token[a][r] = 0 THEN 0 ELSE token[a][r] - 1]
                           \in [Roles -> 0..Lifetime]
    BY <2>2, <2>3
  <2>. QED  BY <2>1, <2>4
<1>5. TypeOK'
  BY <1>1, <1>3, <1>4, ClocksTick DEF TypeOK, Requests
<1>6. TokenOK'
  <2>. SUFFICES ASSUME NEW a \in Accounts, token'[a]["admin"] > 0
                PROVE  sinceAdmin'[a] + token'[a]["admin"] <= Lifetime + MaxLatency
    BY DEF TokenOK
  <2>1. token[a]["admin"] \in Nat /\ sinceAdmin[a] \in Int /\ sinceAdmin'[a] \in Int
        /\ sinceAdmin'[a] <= sinceAdmin[a] + 1
    BY ClocksTick DEF TypeOK, Roles, Staleness, SessionsAssumption
  <2>2. token[a]["admin"] > 0 /\ token'[a]["admin"] = token[a]["admin"] - 1
    BY <2>1 DEF Tick, TickTokens, Roles
  <2>3. sinceAdmin[a] + token[a]["admin"] <= Lifetime + MaxLatency
    BY <2>2 DEF TokenOK
  <2>. QED  BY <2>1, <2>2, <2>3 DEF SessionsAssumption
<1>. QED  BY <1>2, <1>5, <1>6, ClocksTick DEF FreshOK

-----------------------------------------------------------------------------
LEMMA InitIInv ==
  ASSUME SessionsAssumption, Init
  PROVE  IInv
<1>1. Staleness \in Nat /\ MaxLatency \in Nat /\ Lifetime \in Nat
  BY DEF Staleness, SessionsAssumption
<1>2. TypeOK
  <2>1. /\ role \in [Accounts -> Roles \cup {"none"}]
        /\ state \in [Accounts -> States \cup {"deleted"}]
        /\ \A a \in Accounts : role[a] = "none" <=> state[a] = "deleted"
    BY DEF Init, Roles, States
  <2>2. /\ token \in [Accounts -> [Roles -> 0..Lifetime]]
        /\ sinceAdmin \in [Accounts -> 0..Staleness]
        /\ sinceActive \in [Accounts -> 0..(MaxLatency + 1)]
    BY <1>1 DEF Init
  <2>3. request \in [Procs -> Requests]
    BY DEF Init, Requests
  <2>. QED  BY <2>1, <2>2, <2>3 DEF TypeOK, Requests
<1>3. ClocksOK /\ TokenOK
  BY DEF Init, ClocksOK, TokenOK, Roles
<1>4. FreshOK
  BY DEF Init, FreshOK, Fresh, Idle
<1>. QED  BY <1>2, <1>3, <1>4 DEF IInv

LEMMA NextIInv ==
  ASSUME SessionsAssumption, IInv, [Next]_vars
  PROVE  IInv'
<1>1. ASSUME NEW p \in Procs, NEW a \in Accounts, LoginVerify(p, a) PROVE IInv'
  BY <1>1, LoginStep
<1>2. ASSUME NEW p \in Procs, NEW a \in Accounts, NEW path \in Routes,
             ApiKey(p, a, path) \/ \E r \in Roles : Bearer(p, a, r, path)
      PROVE IInv'
  BY <1>2, EnterStep
<1>3. ASSUME NEW p \in Procs, Step(p) PROVE IInv'
  <2>1. CASE LoginRead(p)
    BY <2>1, LoginStep
  <2>2. CASE LoginIssue(p)
    BY <2>2, IssueStep
  <2>3. CASE ReadAccount(p) \/ RequireAdmin(p)
    BY <2>3, GuardStep
  <2>4. CASE Refuse(p)
    BY <2>4, RefuseStep
  <2>5. CASE \E t \in Accounts, r \in Roles, s \in States : ReadTarget(p, t, r, s)
    BY <2>5, ReadTargetStep
  <2>6. CASE WriteTarget(p)
    BY <2>6, WriteStep
  <2>7. CASE \E t \in Accounts : DeleteTarget(p, t)
    BY <2>7, DeleteStep
  <2>. QED  BY <1>3, <2>1, <2>2, <2>3, <2>4, <2>5, <2>6, <2>7 DEF Step
<1>4. CASE Tick
  BY <1>4, TickStep
<1>5. CASE UNCHANGED vars
  <2>1. /\ role' = role /\ state' = state /\ token' = token /\ request' = request
        /\ sinceAdmin' = sinceAdmin /\ sinceActive' = sinceActive
    BY <1>5 DEF vars, rows, clocks
  <2>2. TypeOK' /\ ClocksOK' /\ TokenOK'
    BY <2>1 DEF IInv, TypeOK, ClocksOK, TokenOK
  <2>3. FreshOK'
    BY <2>1 DEF IInv, FreshOK, Fresh, Lag
  <2>. QED  BY <2>2, <2>3 DEF IInv
<1>. QED  BY <1>1, <1>2, <1>3, <1>4, <1>5 DEF Next

(* The invariant behind the bounds: clocks show zero for whoever has the    *)
(* right now, and no token and no request is older than its steps allow.    *)
THEOREM Invariance == Spec => []IInv
<1>1. Init => IInv
  BY InitIInv, SessionsAssumption
<1>2. IInv /\ [Next]_vars => IInv'
  BY NextIInv, SessionsAssumption
<1>. QED  BY <1>1, <1>2, PTL DEF Spec

(* Type correctness of sessions, whatever the accounts and requests. *)
THEOREM TypeCorrectness == Spec => []TypeOK
<1>1. IInv => TypeOK
  BY DEF IInv
<1>. QED  BY <1>1, Invariance, PTL

(* A demoted admin's last token and two requests are all it has left, and   *)
(* with an API key its one request: UniversalAuth and RequireAdmin go by    *)
(* the role they were given, LoginIssue by the one LoginRead saw.           *)
THEOREM DemotedAdminsRunOut == Spec => DemotionBounded
<1>. DEFINE Bound(p) ==
       Changes(p) /\ request[p].route = "admin" =>
         IF request[p].via = "key" THEN sinceAdmin[request[p].who] <= MaxLatency
         ELSE sinceAdmin[request[p].who] < Staleness
<1>1. ASSUME IInv, NEW p \in Procs PROVE Bound(p)
  <2>. DEFINE q == request[p]
  <2>. SUFFICES ASSUME q.step \in {"handler", "write"}, q.route = "admin"
                PROVE  IF q.via = "key" THEN sinceAdmin[q.who] <= MaxLatency
                       ELSE sinceAdmin[q.who] < Staleness
    BY DEF Changes
  <2>1. /\ q \in Requests /\ q.step # "idle"
    BY <1>1 DEF IInv, TypeOK, Requests
  <2>2. q.who \in Accounts /\ q.age \in 0..MaxLatency
    BY <2>1, Busy
  <2>3. sinceAdmin[q.who] <= Lag(q.via) + q.age
    BY <1>1 DEF IInv, FreshOK, Fresh
  <2>4. sinceAdmin[q.who] \in Int
    BY <1>1, <2>2, SessionsAssumption DEF IInv, TypeOK, Staleness, SessionsAssumption
  <2>. QED  BY <2>2, <2>3, <2>4, SessionsAssumption DEF Lag, Staleness, SessionsAssumption
<1>2. IInv /\ [Next]_vars => [\A p \in Procs : Bound(p)]_vars
  BY <1>1
<1>3. [][\A p \in Procs : Bound(p)]_vars => DemotionBounded
  BY DEF DemotionBounded
<1>. QED  BY <1>2, <1>3, Invariance, PTL DEF Spec

(* A deactivated or deleted account is left with the requests that passed   *)
(* UniversalAuth's look at it before: ReadAccount refuses every other.      *)
THEOREM DeactivationEndsRequests == Spec => DeactivationBounded
<1>. DEFINE Bound(p) == Changes(p) => sinceActive[request[p].who] <= MaxLatency
<1>1. ASSUME IInv, NEW p \in Procs PROVE Bound(p)
  <2>. DEFINE q == request[p]
  <2>. SUFFICES ASSUME q.step \in {"handler", "write"}
                PROVE  sinceActive[q.who] <= MaxLatency
    BY DEF Changes
  <2>1. q \in Requests /\ q.step # "idle"
    BY <1>1 DEF IInv, TypeOK, Requests
  <2>2. q.who \in Accounts /\ q.age \in 0..MaxLatency
    BY <2>1, Busy
  <2>3. sinceActive[q.who] <= q.age
    BY <1>1 DEF IInv, FreshOK, Fresh
  <2>4. sinceActive[q.who] \in Int
    BY <1>1, <2>2, SessionsAssumption DEF IInv, TypeOK, SessionsAssumption
  <2>. QED  BY <2>2, <2>3, <2>4, SessionsAssumption DEF SessionsAssumption
<1>2. IInv /\ [Next]_vars => [\A p \in Procs : Bound(p)]_vars
  BY <1>1
<1>3. [][\A p \in Procs : Bound(p)]_vars => DeactivationBounded
  BY DEF DeactivationBounded
<1>. QED  BY <1>2, <1>3, Invariance, PTL DEF Spec

-----------------------------------------------------------------------------
(* Tokens keep the promise of Leases: LoginIssue copies the role LoginRead  *)
(* saw, within MaxLatency; writes to the accounts change the facts and      *)
(* leave the copies; no other step is visible.                              *)
Admins == {a \in Accounts : role[a] = "admin"}
Left == [a \in Accounts |-> token[a]["admin"]]

(* A write of the accounts, seen from the tokens. *)
LEMMA ChangeFacts ==
  ASSUME IInv, ClocksOK', UNCHANGED token,
         sinceAdmin' \in [Accounts -> 0..Staleness],
         \A a \in Accounts : sinceAdmin'[a] = sinceAdmin[a] \/ role'[a] = "admin"
  PROVE  Tokens!Next
<1>1. sinceAdmin' = [a \in Accounts |-> IF a \in Admins' THEN 0 ELSE sinceAdmin[a]]
  BY DEF Admins, ClocksOK, IInv, TypeOK
<1>2. Admins' \in SUBSET Accounts /\ UNCHANGED Left
  BY DEF Admins, Left
<1>. QED  BY <1>1, <1>2 DEF Tokens!Next, Tokens!Change, Admins, Left

LEMMA IssueCopies ==
  ASSUME SessionsAssumption, IInv, NEW p \in Procs, LoginIssue(p)
  PROVE  [Tokens!Next]_(Tokens!vars)
<1>. DEFINE q == request[p]
<1>1. q \in Issuing /\ q.who \in Accounts /\ q.claim \in Roles /\ q.age \in 0..MaxLatency
  <2>1. q \in Requests
    BY DEF IInv, TypeOK, Requests
  <2>2. q \in Issuing
    BY <2>1, Shapes DEF LoginIssue, At
  <2>. QED  BY <2>2 DEF Issuing
<1>2. /\ role' = role /\ sinceAdmin' = sinceAdmin
      /\ token' = [token EXCEPT ![q.who][q.claim] = Lifetime]
  BY DEF LoginIssue, rows, clocks
<1>3. token \in [Accounts -> [Roles -> 0..Lifetime]]
  BY DEF IInv, TypeOK
<1>4. CASE q.claim = "admin"
  <2>1. sinceAdmin[q.who] <= MaxLatency
    <3>1. sinceAdmin[q.who] <= q.age
      BY <1>1, <1>4 DEF IInv, FreshOK, Fresh, LoginIssue, At
    <3>2. sinceAdmin[q.who] \in Int
      BY <1>1 DEF IInv, TypeOK, Staleness, SessionsAssumption
    <3>. QED  BY <1>1, <3>1, <3>2 DEF SessionsAssumption
  <2>2. \A a \in Accounts : token'[a]["admin"] = IF a = q.who THEN Lifetime ELSE token[a]["admin"]
    BY <1>1, <1>2, <1>3, <1>4
  <2>3. Left' = [a \in Accounts |-> IF a = q.who THEN Lifetime
                                    ELSE IF a \in {} THEN 0 ELSE Left[a]]
    BY <2>2 DEF Left
  <2>4. Tokens!Copy(q.who, {})
    BY <1>2, <2>1, <2>3 DEF Tokens!Copy, Left
  <2>. QED  BY <1>1, <2>4 DEF Tokens!Next
<1>5. CASE q.claim # "admin"
  <2>1. \A a \in Accounts : token'[a]["admin"] = token[a]["admin"]
    BY <1>1, <1>2, <1>3, <1>5 DEF Roles
  <2>2. UNCHANGED Left
    BY <2>1 DEF Left
  <2>. QED  BY <1>2, <2>2 DEF Tokens!vars, Left
<1>. QED  BY <1>4, <1>5

LEMMA TickCopies ==
  ASSUME SessionsAssumption, IInv, Tick
  PROVE  Tokens!Tick
<1>1. sinceAdmin' = [a \in Accounts |-> IF a \in Admins THEN 0
                       ELSE IF sinceAdmin[a] >= Staleness THEN sinceAdmin[a] ELSE sinceAdmin[a] + 1]
  BY DEF Tick, Later, Admins
<1>2. Left' = [a \in Accounts |-> IF Left[a] = 0 THEN 0 ELSE Left[a] - 1]
  BY DEF Tick, TickTokens, Left, Roles
<1>3. UNCHANGED Admins
  BY DEF Tick, rows, Admins
<1>. QED  BY <1>1, <1>2, <1>3 DEF Tokens!Tick, Admins, Left

(* Every step of the logins, guards and handlers is a step of Leases or     *)
(* invisible to it: only LoginIssue makes or prolongs a token.              *)
THEOREM TokenRefinement == Spec => ImplementsLeases
<1>1. Init => Tokens!Init
  <2>. SUFFICES ASSUME Init PROVE Tokens!Init
    OBVIOUS
  <2>1. sinceAdmin = [a \in Accounts |-> IF a \in Admins THEN 0 ELSE Staleness]
    BY DEF Init, Admins
  <2>2. Left = [a \in Accounts |-> 0]
    BY DEF Init, Left, Roles
  <2>. QED  BY <2>1, <2>2 DEF Tokens!Init, Admins, Left
<1>2. ASSUME IInv, IInv', [Next]_vars PROVE [Tokens!Next]_(Tokens!vars)
  <2>1. ASSUME UNCHANGED <<rows, token, clocks>> PROVE UNCHANGED Tokens!vars
    BY <2>1 DEF Tokens!vars, rows, clocks
  <2>2. ASSUME NEW p \in Procs, Step(p) PROVE [Tokens!Next]_(Tokens!vars)
    <3>1. CASE LoginIssue(p)
      BY <1>2, <3>1, IssueCopies, SessionsAssumption
    <3>2. CASE WriteTarget(p)
      <4>1. \A a \in Accounts : sinceAdmin'[a] = sinceAdmin[a] \/ role'[a] = "admin"
        BY <1>2, <3>2 DEF WriteTarget, Restart, IInv, TypeOK
      <4>. QED  BY <1>2, <3>2, <4>1, ChangeFacts DEF WriteTarget, IInv, TypeOK
    <3>3. CASE \E t \in Accounts : DeleteTarget(p, t)
      BY <1>2, <3>3, ChangeFacts DEF DeleteTarget, clocks, IInv, TypeOK
    <3>4. CASE UNCHANGED <<rows, token, clocks>>
      BY <2>1, <3>4
    <3>. QED
      BY <2>2, <3>1, <3>2, <3>3, <3>4 DEF Step, LoginRead, ReadAccount, RequireAdmin, Refuse, ReadTarget
  <2>3. CASE Tick
    BY <1>2, <2>3, TickCopies, SessionsAssumption DEF Tokens!Next
  <2>. QED
    BY <1>2, <2>1, <2>2, <2>3 DEF Next, LoginVerify, ApiKey, Bearer, vars
<1>. QED  BY <1>1, <1>2, Invariance, PTL DEF Spec, ImplementsLeases, Tokens!Spec

(* What Leases promises holds of the tokens by that refinement alone: an    *)
(* admin's token that has x ticks left was issued to whom the table had for *)
(* an admin at most Lifetime + MaxLatency - x ticks ago.                    *)
Promise == INSTANCE LeasesProofs WITH
  Facts <- Accounts,
  Life <- Lifetime, Delay <- MaxLatency, Horizon <- Staleness,
  holds <- Admins, since <- sinceAdmin, left <- Left

(* An admin's token with x ticks left was issued to an account that was     *)
(* an admin at most Lifetime + MaxLatency - x ticks ago.                    *)
THEOREM ClaimedRolesAreRecent == Spec => []Promise!Recent
<1>1. Promise!Durations
  BY SessionsAssumption DEF Promise!Durations, Staleness, SessionsAssumption
<1>2. Promise!Spec => []Promise!Recent
  BY <1>1, Promise!CopiesAreRecent, PTL
<1>3. Tokens!Init => Promise!Init
  BY DEF Tokens!Init, Promise!Init, Admins, Left
<1>4. [Tokens!Next]_(Tokens!vars) => [Promise!Next]_(Promise!vars)
  BY DEF Tokens!Next, Promise!Next, Tokens!vars, Promise!vars, Tokens!Change, Promise!Change,
     Tokens!Copy, Promise!Copy, Tokens!Drop, Promise!Drop, Tokens!Tick, Promise!Tick,
     Admins, Left
<1> QED
  BY <1>2, <1>3, <1>4, TokenRefinement, PTL DEF ImplementsLeases, Tokens!Spec, Promise!Spec
=============================================================================
