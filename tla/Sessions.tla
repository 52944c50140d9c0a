------------------------------ MODULE Sessions ------------------------------
(***************************************************************************)
(* Who may do what: logins and their tokens, UniversalAuth, RequireAdmin,  *)
(* and the requests behind them, which change the very roles and states    *)
(* that the guards look at. A token carries the role of the moment of the  *)
(* login; the account's state is looked up for every request, its role     *)
(* only for an API key.                                                    *)
(*                                                                         *)
(* Each request is a process and makes its statements one at a time. How   *)
(* a key is recognised is ApiKeyAuth's matter, emails and passwords are    *)
(* Accounts'. Time passes in ticks; MaxLatency is an assumption about the  *)
(* environment: no request takes longer.                                   *)
(*                                                                         *)
(* Definitions named X_Y are definition X with the slip Y, which some      *)
(* property must detect.                                                   *)
(***************************************************************************)
EXTENDS Naturals

CONSTANTS
  Accounts,
  Procs,     \* requests in progress at one time
  Lifetime,  \* of a token: jwtExpiresHours, in ticks
  MaxLatency \* the longest request, in ticks

ASSUME SessionsAssumption == Lifetime \in Nat \ {0} /\ MaxLatency \in Nat

VARIABLES
  role,        \* accounts: the role, "none" without a row
  state,       \* accounts: "active", "inactive" or "deleted"
  token,       \* per account and claimed role, the ticks its newest token has left
  request,     \* the requests in progress, with what each does next
  sinceAdmin,  \* history: per account, the ticks since it was last an admin
  sinceActive  \* history: since it was last active

rows == <<role, state>>
clocks == <<sinceAdmin, sinceActive>>
vars == <<rows, token, request, clocks>>

Roles == {"user", "admin"}
States == {"active", "inactive"}
Routes == {"admin", "own"}

(* How long the role in a token may outlive the account's, at most.         *)
Staleness == Lifetime + 2 * MaxLatency

Idle == [step |-> "idle"]

(* What a request knows at each of its steps. *)
LoggingIn == [step : {"login"}, who : Accounts, age : 0..MaxLatency]
Issuing == [step : {"issue"}, who : Accounts, claim : Roles, age : 0..MaxLatency]
Entering == [step : {"account", "guard"}, via : {"token", "key"}, route : Routes,
             who : Accounts, claim : Roles, age : 0..MaxLatency]
Serving == [step : {"handler"}, via : {"token", "key"}, route : Routes,
            who : Accounts, age : 0..MaxLatency]
Writing == [step : {"write"}, via : {"token", "key"}, route : Routes, who : Accounts,
            age : 0..MaxLatency, target : Accounts, role : Roles, state : States]

(* Type correctness of the state: a row has a role while it exists, and a   *)
(* request that read an account has its role.                               *)
TypeOK ==
  /\ role \in [Accounts -> Roles \cup {"none"}]
  /\ state \in [Accounts -> States \cup {"deleted"}]
  /\ \A a \in Accounts : role[a] = "none" <=> state[a] = "deleted"
  /\ token \in [Accounts -> [Roles -> 0..Lifetime]]
  /\ request \in [Procs -> {Idle} \cup LoggingIn \cup Issuing \cup Entering
                                  \cup Serving \cup Writing]
  /\ sinceAdmin \in [Accounts -> 0..Staleness]
  /\ sinceActive \in [Accounts -> 0..(MaxLatency + 1)]

Init ==
  /\ role \in [Accounts -> Roles]
  /\ state = [a \in Accounts |-> "active"]
  /\ token = [a \in Accounts |-> [r \in Roles |-> 0]]
  /\ request = [p \in Procs |-> Idle]
  /\ sinceAdmin = [a \in Accounts |-> IF role[a] = "admin" THEN 0 ELSE Staleness]
  /\ sinceActive = [a \in Accounts |-> 0]

At(p, step) == request[p].step = step
Become(p, req) == request' = [request EXCEPT ![p] = req]

-----------------------------------------------------------------------------
(* Login: the password is that of an active account; a later read tells the *)
(* role; the token's life begins when it is made.                           *)
LoginVerify(p, a) ==
  /\ At(p, "idle")
  /\ state[a] = "active"
  /\ Become(p, [step |-> "login", who |-> a, age |-> 0])
  /\ UNCHANGED <<rows, token, clocks>>

LoginRead_NotFoundIgnored(p) ==
  /\ At(p, "login")
  /\ LET a == request[p].who
     IN  Become(p, [step |-> "issue", who |-> a, claim |-> role[a], age |-> request[p].age])
  /\ UNCHANGED <<rows, token, clocks>>

LoginRead(p) ==
  /\ At(p, "login")
  /\ LET a == request[p].who
     IN  /\ state[a] # "deleted"
         /\ Become(p, [step |-> "issue", who |-> a, claim |-> role[a], age |-> request[p].age])
  /\ UNCHANGED <<rows, token, clocks>>

LoginIssue(p) ==
  /\ At(p, "issue")
  /\ token' = [token EXCEPT ![request[p].who][request[p].claim] = Lifetime]
  /\ Become(p, Idle)
  /\ UNCHANGED <<rows, clocks>>

-----------------------------------------------------------------------------
(* UniversalAuth *)

Enter(p, a, r, with, path) ==
  /\ At(p, "idle")
  /\ Become(p, [step |-> "account", via |-> with, route |-> path,
                who |-> a, claim |-> r, age |-> 0])

(* A token that has not expired: its account and role are taken from it.    *)
Bearer(p, a, r, path) ==
  /\ token[a][r] > 0
  /\ Enter(p, a, r, "token", path)
  /\ UNCHANGED <<rows, token, clocks>>

(* A key of account a: APIKeyValidatorFunc reads the account for its role.  *)
ApiKey(p, a, path) ==
  /\ state[a] = "active"
  /\ Enter(p, a, role[a], "key", path)
  /\ UNCHANGED <<rows, token, clocks>>

Serve(p) ==
  Become(p, [step |-> "handler", via |-> request[p].via, route |-> request[p].route,
             who |-> request[p].who, age |-> request[p].age])

AfterAuth(p) ==
  IF request[p].route = "admin"
  THEN Become(p, [request[p] EXCEPT !.step = "guard"])
  ELSE Serve(p)

ReadAccount_NotForTokens(p) ==
  /\ At(p, "account")
  /\ request[p].via = "token" \/ state[request[p].who] = "active"
  /\ AfterAuth(p)
  /\ UNCHANGED <<rows, token, clocks>>

ReadAccount_RenewsToken(p) ==
  /\ At(p, "account")
  /\ state[request[p].who] = "active"
  /\ AfterAuth(p)
  /\ token' = IF request[p].via = "token"
              THEN [token EXCEPT ![request[p].who][request[p].claim] = Lifetime] ELSE token
  /\ UNCHANGED <<rows, clocks>>

(* accountGetter: the account exists and is active. Its role is not looked  *)
(* at when there is one already.                                            *)
ReadAccount(p) ==
  /\ At(p, "account")
  /\ state[request[p].who] = "active"
  /\ AfterAuth(p)
  /\ UNCHANGED <<rows, token, clocks>>

RequireAdmin(p) ==
  /\ At(p, "guard")
  /\ IF request[p].claim = "admin" THEN Serve(p) ELSE Become(p, Idle)
  /\ UNCHANGED <<rows, token, clocks>>

(* An account is missing or inactive, or a statement fails: nothing has     *)
(* been changed before.                                                     *)
Refuse(p) ==
  /\ request[p].step \in {"login", "issue", "account", "handler", "write"}
  /\ Become(p, Idle)
  /\ UNCHANGED <<rows, token, clocks>>

-----------------------------------------------------------------------------
(* The handlers: an admin's of any account, an owner's of its own.          *)
Reaches(p, t) == request[p].route = "own" => t = request[p].who

(* PUT /admin/accounts/:id sets role and state as asked for, PATCH /account *)
(* keeps what it reads; both write the whole row later.                     *)
ReadTarget(p, t, r, s) ==
  /\ At(p, "handler")
  /\ Reaches(p, t) /\ state[t] # "deleted"
  /\ request[p].route = "own" => r = role[t] /\ s = state[t]
  /\ Become(p, [step |-> "write", via |-> request[p].via, route |-> request[p].route,
                who |-> request[p].who, age |-> request[p].age,
                target |-> t, role |-> r, state |-> s])
  /\ UNCHANGED <<rows, token, clocks>>

Restart(clock, t, holds) == [clock EXCEPT ![t] = IF holds THEN 0 ELSE @]

WriteTarget(p) ==
  /\ At(p, "write")
  /\ LET w == request[p]
     IN  /\ state[w.target] # "deleted"
         /\ role' = [role EXCEPT ![w.target] = w.role]
         /\ state' = [state EXCEPT ![w.target] = w.state]
         /\ sinceAdmin' = Restart(sinceAdmin, w.target, w.role = "admin")
         /\ sinceActive' = Restart(sinceActive, w.target, w.state = "active")
  /\ Become(p, Idle)
  /\ UNCHANGED token

DeleteTarget(p, t) ==
  /\ At(p, "handler")
  /\ Reaches(p, t) /\ state[t] # "deleted"
  /\ role' = [role EXCEPT ![t] = "none"]
  /\ state' = [state EXCEPT ![t] = "deleted"]
  /\ Become(p, Idle)
  /\ UNCHANGED <<token, clocks>>

-----------------------------------------------------------------------------
TickTokens_NeverExpire == UNCHANGED token

TickTokens ==
  token' = [a \in Accounts |->
              [r \in Roles |-> IF token[a][r] = 0 THEN 0 ELSE token[a][r] - 1]]

Later(n, cap) == IF n >= cap THEN n ELSE n + 1

Tick ==
  /\ \A p \in Procs : ~At(p, "idle") => request[p].age < MaxLatency
  /\ TickTokens
  /\ request' = [p \in Procs |-> IF At(p, "idle") THEN Idle
                                 ELSE [request[p] EXCEPT !.age = @ + 1]]
  /\ sinceAdmin' =
       [a \in Accounts |-> IF role[a] = "admin" THEN 0 ELSE Later(sinceAdmin[a], Staleness)]
  /\ sinceActive' =
       [a \in Accounts |-> IF state[a] = "active" THEN 0 ELSE Later(sinceActive[a], MaxLatency + 1)]
  /\ UNCHANGED rows

Step(p) ==
  \/ LoginRead(p) \/ LoginIssue(p)
  \/ ReadAccount(p) \/ RequireAdmin(p) \/ Refuse(p)
  \/ \E t \in Accounts, r \in Roles, s \in States : ReadTarget(p, t, r, s)
  \/ WriteTarget(p)
  \/ \E t \in Accounts : DeleteTarget(p, t)

Next ==
  \/ \E p \in Procs, a \in Accounts : LoginVerify(p, a)
  \/ \E p \in Procs, a \in Accounts, path \in Routes :
       ApiKey(p, a, path) \/ \E r \in Roles : Bearer(p, a, r, path)
  \/ \E p \in Procs : Step(p)
  \/ Tick

Spec == Init /\ [][Next]_vars

-----------------------------------------------------------------------------
Changes(p) == request[p].step \in {"handler", "write"} /\ rows' # rows /\ request'[p] = Idle

(* An account that lost the admin role changes other accounts for less time *)
(* than its last token lives and two requests take: the login that read    *)
(* the role before, and the request that came just before the token         *)
(* expired. With an API key, it is the one request.                         *)
DemotionBounded ==
  [][\A p \in Procs : Changes(p) /\ request[p].route = "admin" =>
       IF request[p].via = "key" THEN sinceAdmin[request[p].who] <= MaxLatency
       ELSE sinceAdmin[request[p].who] < Staleness]_vars

(* A deactivated or deleted account changes nothing any more once the       *)
(* requests it had in progress are through, however long its tokens live.   *)
DeactivationBounded ==
  [][\A p \in Procs : Changes(p) => sinceActive[request[p].who] <= MaxLatency]_vars

(* Tokens keep the promise of Leases: they are copies of the admin role.    *)
Tokens == INSTANCE Leases WITH
  Facts <- Accounts,
  Life <- Lifetime, Delay <- MaxLatency, Horizon <- Staleness,
  holds <- {a \in Accounts : role[a] = "admin"},
  since <- sinceAdmin,
  left <- [a \in Accounts |-> token[a]["admin"]]

ImplementsLeases == Tokens!Spec
=============================================================================
