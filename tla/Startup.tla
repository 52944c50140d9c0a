------------------------------ MODULE Startup ------------------------------
(***************************************************************************)
(* Start and end of one container of the API or of the worker: loading the *)
(* configuration, connecting to PostgreSQL, Redis and NATS, seeding the    *)
(* admin account, serving, and leaving on SIGTERM, while the services it   *)
(* needs come and go and the container is restarted whenever it exits      *)
(* (restart: unless-stopped).                                              *)
(*                                                                         *)
(* Time passes in ticks only where the program measures it: in the retries *)
(* of the Redis connection, in the shutdown, and in nats.go's reconnects.  *)
(*                                                                         *)
(* Definitions named X_Y are not part of the specification: they are       *)
(* definition X with the slip Y, which some property must detect.          *)
(***************************************************************************)
EXTENDS Naturals

CONSTANTS
  Settings,       \* the programs and environments considered
  FirstBackoff,   \* retryConnect: 100 ms
  MaxBackoff,     \* retryConnect: 5 s
  Deadline,       \* the context of connectRedisWithRetry: 30 s
  MaxAttempt,     \* the context of NewRedisClient's ping: 5 s
  MaxReconnect,   \* nats.go gives up after 60 attempts, 2 s apart
  Grace,          \* per program: the 30 s of Shutdown, the worker's 2 s
  Work,           \* the requests or messages one process works on
  MaxDeaths       \* bound on the crashes of one behaviour

Services == {"db", "redis", "nats"}

(* valid: config.Load accepts them; pool: pgxpool accepts DB_MAX_CONNS;     *)
(* subject: BROKER_SUBJECT is the one of stream EVENTS; jetStream: it is    *)
(* enabled; seed: SEED_ADMIN_EMAIL and SEED_ADMIN_PASSWORD are set;         *)
(* hashable: bcrypt accepts that password, which is not longer than 72      *)
(* bytes.                                                                   *)
Setting == [program : {"api", "worker"}, valid : BOOLEAN, pool : BOOLEAN,
            subject : BOOLEAN, jetStream : BOOLEAN, seed : BOOLEAN, hashable : BOOLEAN]

ASSUME StartupAssumption ==
  /\ Settings \subseteq Setting
  /\ FirstBackoff \in Nat \ {0}
  /\ MaxBackoff \in Nat /\ FirstBackoff <= MaxBackoff
  /\ Deadline \in Nat
  /\ MaxAttempt \in Nat
  /\ MaxReconnect \in Nat
  /\ Grace \in [{"api", "worker"} -> Nat]
  /\ MaxDeaths \in Nat

VARIABLES
  settings,   \* one of Settings, for good
  up,         \* the services that answer; db: with the migrations applied
  upFor,      \* for how long Redis has answered, as far as anyone asks
  wanted,     \* the operator wants the container to run
  phase,      \* where main is
  cause,      \* why the process ended last
  elapsed,    \* since connectRedisWithRetry was entered
  backoff,    \* retryConnect's next back-off
  timer,      \* how long the attempt, the back-off or the shutdown lasts
  sawDown,    \* did Redis fail to answer at some time of this attempt?
  link,       \* the NATS connection
  tries,      \* reconnects nats.go has tried in vain
  holder,     \* who has the account with SEED_ADMIN_EMAIL
  steady,     \* history: since seeding began the database answered and nobody
              \* gave the email up
  work,       \* the requests or messages in progress
  deaths      \* the crashes so far

environment == <<up, upFor, wanted>>
retry == <<elapsed, backoff, timer, sawDown>>
nats == <<link, tries>>
seeding == <<holder, steady>>
vars == <<settings, environment, phase, cause, retry, nats, seeding, work, deaths>>

Connecting == {"ping", "backoff"}
Phases == {"down", "load", "postgres", "broker", "stream", "subscribe", "lookup",
           "create", "serving", "stopping", "closing"} \cup Connecting
Causes == {"none", "settings", "redis", "broker", "stopped", "died"}
Patience == MaxBackoff + MaxAttempt

(* Type correctness of the state. *)
TypeOK ==
  /\ settings \in Settings
  /\ up \subseteq Services
  /\ upFor \in 0..Patience + 1
  /\ wanted \in BOOLEAN
  /\ phase \in Phases
  /\ cause \in Causes
  /\ elapsed \in Nat
  /\ backoff \in FirstBackoff..MaxBackoff
  /\ timer \in Nat
  /\ sawDown \in BOOLEAN
  /\ link \in {"none", "open", "reconnecting", "closed"}
  /\ tries \in 0..MaxReconnect
  /\ holder \in {"nobody", "admin", "user"}
  /\ steady \in BOOLEAN
  /\ work \subseteq Work
  /\ deaths \in 0..MaxDeaths

Init ==
  /\ settings \in Settings
  /\ up \in SUBSET Services
  /\ upFor = 0
  /\ wanted = TRUE
  /\ phase = "down"
  /\ cause = "none"
  /\ elapsed = 0 /\ backoff = FirstBackoff /\ timer = 0 /\ sawDown = FALSE
  /\ link = "none" /\ tries = 0
  /\ holder = "nobody"
  /\ steady = FALSE
  /\ work = {}
  /\ deaths = 0

Api == settings.program = "api"
Worker == settings.program = "worker"

-----------------------------------------------------------------------------
(* The container *)

(* Docker starts the container, again after every exit it was not told of. *)
Start ==
  /\ phase = "down"
  /\ wanted
  /\ phase' = "load"
  /\ UNCHANGED <<settings, environment, cause, retry, nats, seeding, work, deaths>>

(* The process is gone, with its connections and with what it worked on. *)
End(why) ==
  /\ phase' = "down"
  /\ cause' = why
  /\ elapsed' = 0 /\ backoff' = FirstBackoff /\ timer' = 0 /\ sawDown' = FALSE
  /\ link' = "none" /\ tries' = 0
  /\ steady' = FALSE
  /\ work' = {}
  /\ UNCHANGED <<settings, up, upFor, holder>>

Exit(why) == End(why) /\ UNCHANGED <<wanted, deaths>>

Dies ==
  /\ phase # "down"
  /\ deaths < MaxDeaths
  /\ deaths' = deaths + 1
  /\ End("died")
  /\ UNCHANGED wanted

(* SIGTERM: main handles it once it waits for it, and before that it kills. *)
Signal ==
  /\ wanted
  /\ wanted' = FALSE
  /\ \/ /\ phase = "serving"
        /\ phase' = "stopping"
        /\ timer' = 0
        /\ UNCHANGED <<settings, up, upFor, cause, elapsed, backoff, sawDown, nats,
                       seeding, work, deaths>>
     \/ phase \notin {"serving", "stopping", "closing", "down"} /\ End("stopped") /\ UNCHANGED deaths

(* The operator starts the stopped container again. *)
Deploy ==
  /\ ~wanted
  /\ phase = "down"
  /\ wanted' = TRUE
  /\ UNCHANGED <<settings, up, upFor, phase, cause, retry, nats, seeding, work, deaths>>

-----------------------------------------------------------------------------
(* main, up to the broker *)

Goto(next) ==
  /\ phase' = next
  /\ UNCHANGED <<settings, environment, cause, retry, nats, seeding, work, deaths>>

Load ==
  /\ phase = "load"
  /\ IF settings.valid THEN Goto("postgres") ELSE Exit("settings")

(* pgxpool.NewWithConfig does not connect: it only checks the pool's size.  *)
(* A size it refuses is refused until the 30 s are over.                    *)
ConnectPostgres ==
  /\ phase = "postgres"
  /\ IF ~settings.pool THEN Exit("settings")
     ELSE IF Worker THEN Goto("broker")
     ELSE /\ phase' = "ping"
          /\ sawDown' = ("redis" \notin up)
          /\ UNCHANGED <<settings, environment, cause, elapsed, backoff, timer, nats,
                         seeding, work, deaths>>

(* Ping is answered while its five seconds last. *)
PingAnswered ==
  /\ phase = "ping"
  /\ "redis" \in up
  /\ phase' = "broker"
  /\ elapsed' = 0 /\ backoff' = FirstBackoff /\ timer' = 0 /\ sawDown' = FALSE
  /\ UNCHANGED <<settings, environment, cause, nats, seeding, work, deaths>>

(* Ping fails, because Redis did not answer at some time of the attempt. *)
PingFails ==
  /\ phase = "ping"
  /\ sawDown
  /\ phase' = "backoff"
  /\ timer' = 0
  /\ UNCHANGED <<settings, environment, cause, elapsed, backoff, sawDown, nats,
                 seeding, work, deaths>>

NextBackoff_Uncapped == backoff * 2

NextBackoff == IF backoff * 2 > MaxBackoff THEN MaxBackoff ELSE backoff * 2

(* select, case <-time.After(backoff): the next attempt begins, also when   *)
(* the context has just expired.                                            *)
BackoffOver ==
  /\ phase = "backoff"
  /\ timer = backoff
  /\ phase' = "ping"
  /\ backoff' = NextBackoff
  /\ timer' = 0
  /\ sawDown' = ("redis" \notin up)
  /\ UNCHANGED <<settings, environment, cause, elapsed, nats, seeding, work, deaths>>

(* select, case <-ctx.Done(): the 30 s are over, and main exits. *)
GiveUp ==
  /\ phase = "backoff"
  /\ elapsed >= Deadline
  /\ Exit("redis")

-----------------------------------------------------------------------------
(* main, from the broker on *)

ConnectBroker_ErrorLogged ==
  /\ phase = "broker"
  /\ IF "nats" \notin up THEN Goto(IF Api THEN "lookup" ELSE "subscribe")
     ELSE /\ link' = "open"
          /\ phase' = IF settings.jetStream THEN "stream"
                      ELSE IF Api THEN "lookup" ELSE "subscribe"
          /\ UNCHANGED <<settings, environment, cause, retry, tries, seeding, work, deaths>>

(* nats.Connect, which is not retried. *)
ConnectBroker ==
  /\ phase = "broker"
  /\ IF "nats" \notin up THEN Exit("broker")
     ELSE /\ link' = "open"
          /\ phase' = IF settings.jetStream THEN "stream"
                      ELSE IF Api THEN "lookup" ELSE "subscribe"
          /\ UNCHANGED <<settings, environment, cause, retry, tries, seeding, work, deaths>>

Answers == link = "open" /\ "nats" \in up

(* StreamInfo and AddStream need an answer from the server. *)
EnsureStream ==
  /\ phase = "stream"
  /\ IF Answers THEN Goto(IF Api THEN "lookup" ELSE "subscribe") ELSE Exit("broker")

(* The worker's QueueSubscribe: JetStream must answer and know the subject; *)
(* core NATS registers the subscription also while nats.go reconnects.      *)
Subscribe ==
  /\ phase = "subscribe"
  /\ IF \/ settings.jetStream /\ settings.subject /\ Answers
        \/ ~settings.jetStream /\ link # "closed"
     THEN Goto("serving")
     ELSE Exit("broker")

SeedLookup_Inverted ==
  /\ phase = "lookup"
  /\ phase' = IF settings.seed /\ "db" \in up /\ holder # "nobody" THEN "create" ELSE "serving"
  /\ steady' = ("db" \in up)
  /\ UNCHANGED <<settings, environment, cause, retry, nats, holder, work, deaths>>

(* GetByEmail: a lookup that fails for any reason reports "not found". *)
SeedLookup ==
  /\ phase = "lookup"
  /\ phase' = IF settings.seed /\ ("db" \notin up \/ holder = "nobody") THEN "create" ELSE "serving"
  /\ steady' = ("db" \in up)
  /\ UNCHANGED <<settings, environment, cause, retry, nats, holder, work, deaths>>

(* CreateAccount: a failure, of the hash, the database or the UNIQUE email, *)
(* is only logged.                                                          *)
SeedCreate ==
  /\ phase = "create"
  /\ phase' = "serving"
  /\ holder' = IF settings.hashable /\ "db" \in up /\ holder = "nobody" THEN "admin" ELSE holder
  /\ UNCHANGED <<settings, environment, cause, retry, nats, steady, work, deaths>>

-----------------------------------------------------------------------------
(* Serving and stopping *)

Begin_WhileClosed(r) ==
  /\ phase = "serving" \/ (phase = "stopping" /\ Worker)
  /\ r \notin work
  /\ work' = work \cup {r}
  /\ UNCHANGED <<settings, environment, phase, cause, retry, nats, seeding, deaths>>

(* A request or a message arrives. Shutdown has closed the listener, but    *)
(* the worker stays subscribed while it sleeps.                             *)
Begin(r) ==
  /\ phase = "serving" \/ (phase = "stopping" /\ Worker)
  /\ Worker => link = "open"
  /\ r \notin work
  /\ work' = work \cup {r}
  /\ UNCHANGED <<settings, environment, phase, cause, retry, nats, seeding, deaths>>

Finish(r) ==
  /\ r \in work
  /\ work' = work \ {r}
  /\ UNCHANGED <<settings, environment, phase, cause, retry, nats, seeding, deaths>>

Close_Unbounded ==
  /\ phase = "stopping" /\ Api
  /\ work = {}
  /\ Exit("stopped")

(* srv.Shutdown returns when nothing is in progress or its context expires. *)
(* What still hangs then does not keep main from returning.                 *)
Close ==
  /\ phase = "stopping" /\ Api
  /\ timer = Grace["api"] \/ work = {}
  /\ Exit("stopped")

(* The worker has slept. Its deferred calls unsubscribe, which drops what   *)
(* waits in the buffer, and close the connection to NATS.                   *)
Unsubscribe ==
  /\ phase = "stopping" /\ Worker
  /\ timer = Grace["worker"]
  /\ phase' = "closing"
  /\ timer' = 0
  /\ link' = "closed" /\ tries' = 0
  /\ work' = {} \/ \E r \in work : work' = {r}
  /\ UNCHANGED <<settings, environment, cause, elapsed, backoff, sawDown, seeding, deaths>>

(* The last of them, pool.Close, waits for the connection that the handler  *)
(* in progress holds. The INSERT's context is context.Background().         *)
ClosePool ==
  /\ phase = "closing"
  /\ work = {}
  /\ Exit("stopped")

-----------------------------------------------------------------------------
(* nats.go's reconnects, and the clock *)

LinkBreaks ==
  /\ link = "open"
  /\ "nats" \notin up
  /\ link' = "reconnecting"
  /\ UNCHANGED <<settings, environment, phase, cause, retry, tries, seeding, work, deaths>>

Reconnect ==
  /\ link = "reconnecting"
  /\ "nats" \in up
  /\ link' = "open"
  /\ tries' = 0
  /\ UNCHANGED <<settings, environment, phase, cause, retry, seeding, work, deaths>>

(* The last attempt was in vain: the connection is closed for good, and     *)
(* nothing in the program looks.                                            *)
ReconnectGivesUp ==
  /\ link = "reconnecting"
  /\ tries = MaxReconnect
  /\ link' = "closed"
  /\ tries' = 0
  /\ UNCHANGED <<settings, environment, phase, cause, retry, seeding, work, deaths>>

Due_WithoutContext ==
  \/ phase = "ping" /\ timer = MaxAttempt
  \/ phase = "backoff" /\ timer = backoff
  \/ phase = "stopping" /\ (timer = Grace[settings.program] \/ (Api /\ work = {}))
  \/ link = "reconnecting" /\ (tries = MaxReconnect \/ "nats" \in up)

(* A deadline that is reached is noticed before time goes on. *)
Due ==
  \/ phase = "ping" /\ timer = MaxAttempt
  \/ phase = "backoff" /\ (timer = backoff \/ elapsed >= Deadline)
  \/ phase = "stopping" /\ (timer = Grace[settings.program] \/ (Api /\ work = {}))
  \/ link = "reconnecting" /\ (tries = MaxReconnect \/ "nats" \in up)

Tick ==
  /\ ~Due
  /\ upFor' = IF "redis" \in up /\ upFor <= Patience THEN upFor + 1 ELSE upFor
  /\ elapsed' = IF phase \in Connecting THEN elapsed + 1 ELSE elapsed
  /\ timer' = IF phase \in Connecting \cup {"stopping"} THEN timer + 1 ELSE timer
  /\ tries' = IF link = "reconnecting" THEN tries + 1 ELSE tries
  /\ UNCHANGED <<settings, up, wanted, phase, cause, backoff, sawDown, link, seeding,
                 work, deaths>>

-----------------------------------------------------------------------------
(* The services, and the other processes that write accounts *)

ComesUp(s) ==
  /\ s \notin up
  /\ up' = up \cup {s}
  /\ UNCHANGED <<settings, upFor, wanted, phase, cause, retry, nats, seeding, work, deaths>>

GoesDown(s) ==
  /\ s \in up
  /\ up' = up \ {s}
  /\ upFor' = IF s = "redis" THEN 0 ELSE upFor
  /\ sawDown' = (sawDown \/ (s = "redis" /\ phase = "ping"))
  /\ steady' = (steady /\ s # "db")
  /\ UNCHANGED <<settings, wanted, phase, cause, elapsed, backoff, timer, nats, holder,
                 work, deaths>>

(* Another replica seeds the account, or a user registers its email. *)
OthersCreate(who) ==
  /\ "db" \in up
  /\ holder = "nobody"
  /\ holder' = who
  /\ UNCHANGED <<settings, environment, phase, cause, retry, nats, steady, work, deaths>>

(* The account is deleted or given another email. *)
OthersFree ==
  /\ "db" \in up
  /\ holder # "nobody"
  /\ holder' = "nobody"
  /\ steady' = FALSE
  /\ UNCHANGED <<settings, environment, phase, cause, retry, nats, work, deaths>>

Main ==
  \/ Load \/ ConnectPostgres \/ PingAnswered \/ PingFails \/ BackoffOver \/ GiveUp
  \/ ConnectBroker \/ EnsureStream \/ Subscribe \/ SeedLookup \/ SeedCreate

Leave == Close \/ Unsubscribe \/ ClosePool

Link == LinkBreaks \/ Reconnect \/ ReconnectGivesUp

Next ==
  \/ Start \/ Dies \/ Signal \/ Deploy
  \/ Main
  \/ \E r \in Work : Begin(r)
  \/ \E r \in Work : Finish(r)
  \/ Leave
  \/ Link
  \/ Tick
  \/ \E s \in Services : ComesUp(s)
  \/ \E s \in Services : GoesDown(s)
  \/ \E who \in {"admin", "user"} : OthersCreate(who)
  \/ OthersFree

Spec == Init /\ [][Next]_vars

(* Docker restarts what exits, main and nats.go go on, and time passes.     *)
(* Nothing in progress need ever finish, and no service need ever answer.   *)
Fairness ==
  /\ WF_vars(Start) /\ WF_vars(Main) /\ WF_vars(Leave)
  /\ WF_vars(Link) /\ SF_vars(Tick)

FairSpec == Spec /\ Fairness

-----------------------------------------------------------------------------
(* A Redis that came up late is not missed: when retryConnect gives up, it  *)
(* has answered for no longer than the longest back-off and one attempt,    *)
(* whenever it went and came before and however long the attempts took.     *)
NotGivenUpOn ==
  [][phase = "backoff" /\ phase' = "down" /\ cause' = "redis" => upFor <= Patience]_vars

(* The retries end: from the first attempt until Redis answers or the       *)
(* process exits it takes the context's 30 s and at most one attempt more,  *)
(* although an attempt has a context of its own.                            *)
StartsInTime == phase \in Connecting => elapsed <= Deadline + MaxAttempt

(* An API that serves has seen to the admin account, if bcrypt takes its    *)
(* password: unless the database failed or the email was given up since     *)
(* seeding began, somebody has it, whichever replica or user came first.    *)
SeededWhenReachable ==
  phase = "serving" /\ Api /\ settings.seed /\ settings.hashable /\ steady
    => holder # "nobody"

(* The settings with which the process can serve at all. *)
Sound ==
  /\ settings.valid /\ settings.pool
  /\ Worker /\ settings.jetStream => settings.subject

(* The restarts heal what the retries do not: once every service answers    *)
(* for good and the operator wants the container, the process serves for    *)
(* good, with its connection to NATS unless nats.go gave that one up.       *)
Recovers ==
  <>[](Sound /\ wanted /\ up = Services)
    => <>[](phase = "serving" /\ link \in {"open", "closed"})

(* A worker's process is one of WorkerLife, and so one of EventPipeline: it *)
(* hears from its subscription on, through every reconnect, until nats.go   *)
(* gives up, its own shutdown closes the connection or the process ends.    *)
Life == INSTANCE WorkerLife WITH
  Workers <- {"worker"},
  life <- [w \in {"worker"} |->
             IF ~Worker \/ phase \notin {"serving", "stopping", "closing"} THEN "down"
             ELSE IF link = "closed" THEN "deaf" ELSE "subscribed"],
  busy <- {w \in {"worker"} : Worker /\ work # {}}

ImplementsWorkerLife == Life!Spec

(* SIGTERM ends the API also when a request hangs for ever, and the worker  *)
(* if no message does: for an INSERT that is never answered pool.Close      *)
(* waits, until the container is killed.                                    *)
SignalEnds ==
  (Worker => \A r \in Work : []<>(r \notin work))
    => (phase \in {"stopping", "closing"} ~> phase = "down")
=============================================================================
