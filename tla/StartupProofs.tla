--------------------------- MODULE StartupProofs ---------------------------
(***************************************************************************)
(* Proofs about Startup, for any settings, back-offs, deadlines and any    *)
(* coming and going of the services.                                       *)
(***************************************************************************)
EXTENDS Startup, TLAPS

(* An attempt and a back-off begin before the context's end or with it, and *)
(* for how long Redis can have answered since it last failed an attempt.    *)
RetryInv ==
  /\ "redis" \notin up => upFor = 0
  /\ phase \notin Connecting => elapsed = 0
  /\ phase \notin Connecting \cup {"stopping"} => timer = 0
  /\ phase = "ping" =>
       /\ timer <= MaxAttempt
       /\ elapsed <= Deadline + timer
       /\ sawDown => upFor <= timer
  /\ phase = "backoff" =>
       /\ timer <= backoff
       /\ elapsed <= Deadline + MaxAttempt
       /\ elapsed <= Deadline \/ timer = 0
       /\ upFor <= timer + MaxAttempt

(* Only the API seeds, and while nothing happened to the seeding the        *)
(* database answers.                                                        *)
SeedInv ==
  /\ steady => "db" \in up
  /\ phase \in {"lookup", "create"} => Api
  /\ phase = "subscribe" => Worker

IInv == TypeOK /\ RetryInv /\ SeedInv /\ SeededWhenReachable

-----------------------------------------------------------------------------
USE DEF environment, retry, nats, seeding, Services, Connecting, Patience, Answers

(* A process that ends satisfies everything that is said about a running one. *)
LEMMA EndStep ==
  ASSUME IInv, NEW why \in Causes, End(why), wanted' \in BOOLEAN,
         deaths' \in 0..MaxDeaths
  PROVE  IInv'
<1>. USE StartupAssumption DEF IInv, End, Causes
<1>1. TypeOK'
  <2>1. /\ settings' \in Settings /\ up' \subseteq Services
        /\ upFor' \in 0..Patience + 1
    BY DEF TypeOK
  <2>2. /\ phase' \in Phases /\ cause' \in Causes
        /\ sawDown' \in BOOLEAN /\ steady' \in BOOLEAN
        /\ link' \in {"none", "open", "reconnecting", "closed"}
    BY DEF Phases
  <2>3. /\ elapsed' \in Nat
        /\ backoff' \in FirstBackoff..MaxBackoff
        /\ timer' \in Nat
        /\ tries' \in 0..MaxReconnect
    OBVIOUS
  <2>4. holder' \in {"nobody", "admin", "user"} /\ work' \subseteq Work
    BY DEF TypeOK
  <2>. QED  BY <2>1, <2>2, <2>3, <2>4 DEF TypeOK
<1>2. RetryInv'
  BY DEF RetryInv
<1>3. SeedInv' /\ SeededWhenReachable'
  BY DEF SeedInv, SeededWhenReachable
<1>. QED  BY <1>1, <1>2, <1>3

(* A change of phase alone, to a phase without timer. *)
LEMMA GotoStep ==
  ASSUME IInv, NEW next \in Phases \ (Connecting \cup {"serving", "lookup", "create"}),
         Goto(next), next = "subscribe" => Worker,
         phase \notin Connecting \cup {"stopping"}
  PROVE  IInv'
<1>. USE StartupAssumption DEF IInv, Goto
<1>1. TypeOK'
  BY DEF TypeOK
<1>2. RetryInv'
  BY DEF RetryInv
<1>3. SeedInv' /\ SeededWhenReachable'
  BY DEF SeedInv, SeededWhenReachable, Worker
<1>. QED  BY <1>1, <1>2, <1>3

(* The same to a phase in which main has passed the broker. *)
LEMMA AfterBroker ==
  ASSUME IInv, Goto(IF Api THEN "lookup" ELSE "subscribe"), phase \in {"broker", "stream"}
  PROVE  IInv'
<1>. USE StartupAssumption DEF IInv, Goto
<1>1. TypeOK'
  BY DEF TypeOK, Phases
<1>2. RetryInv'
  BY DEF RetryInv
<1>3. Api \/ Worker
  BY DEF TypeOK, Setting, Api, Worker
<1>4. SeedInv' /\ SeededWhenReachable'
  BY <1>3 DEF SeedInv, SeededWhenReachable, Worker, Api
<1>. QED  BY <1>1, <1>2, <1>4

(* Every step leads to a type-correct state. *)
LEMMA TypeStep ==
  ASSUME IInv, Next
  PROVE  TypeOK'
<1>. USE StartupAssumption DEF IInv
<1>1. CASE Start
  BY <1>1 DEF TypeOK, Start, Phases
<1>2. CASE Dies
  BY <1>2, EndStep DEF TypeOK, Dies, Causes
<1>3. CASE Signal
  <2>1. CASE phase = "serving" /\ phase' = "stopping"
    <3>1. /\ wanted' = FALSE /\ timer' = 0
          /\ UNCHANGED <<settings, up, upFor, cause, elapsed, backoff, sawDown, nats,
                         seeding, work, deaths>>
      BY <1>3, <2>1 DEF Signal, End
    <3>2. wanted' \in BOOLEAN /\ timer' \in Nat /\ phase' \in Phases
      BY <2>1, <3>1 DEF Phases
    <3>. QED  BY <3>1, <3>2 DEF TypeOK
  <2>2. CASE End("stopped") /\ UNCHANGED deaths
    BY <1>3, <2>2, EndStep DEF TypeOK, Signal, Causes
  <2>. QED  BY <1>3, <2>1, <2>2 DEF Signal
<1>4. CASE Deploy
  BY <1>4 DEF TypeOK, Deploy
<1>5. CASE Load
  BY <1>5, EndStep, GotoStep DEF TypeOK, Load, Exit, Causes, Phases
<1>6. CASE ConnectPostgres
  <2>1. CASE ~settings.pool
    BY <1>6, <2>1, EndStep DEF ConnectPostgres, Exit, TypeOK, Causes
  <2>2. CASE settings.pool /\ Worker
    BY <1>6, <2>2, GotoStep DEF ConnectPostgres, Phases
  <2>3. CASE settings.pool /\ ~Worker
    BY <1>6, <2>3 DEF ConnectPostgres, TypeOK, Phases
  <2>. QED  BY <2>1, <2>2, <2>3
<1>7. CASE PingAnswered
  <2>1. /\ phase' = "broker" /\ elapsed' = 0 /\ backoff' = FirstBackoff
        /\ timer' = 0 /\ sawDown' = FALSE
        /\ UNCHANGED <<settings, environment, cause, nats, seeding, work, deaths>>
    BY <1>7 DEF PingAnswered
  <2>2. /\ elapsed' \in Nat
        /\ backoff' \in FirstBackoff..MaxBackoff
        /\ timer' \in Nat
    BY <2>1
  <2>3. sawDown' \in BOOLEAN /\ phase' \in Phases
    BY <2>1 DEF Phases
  <2>. QED  BY <2>1, <2>2, <2>3 DEF TypeOK
<1>8. CASE PingFails
  BY <1>8 DEF TypeOK, PingFails, Phases
<1>9. CASE BackoffOver
  BY <1>9 DEF TypeOK, BackoffOver, NextBackoff, Phases
<1>10. CASE GiveUp
  BY <1>10, EndStep DEF TypeOK, GiveUp, Exit, Causes
<1>11. CASE ConnectBroker
  BY <1>11, EndStep DEF TypeOK, ConnectBroker, Exit, Causes, Phases
<1>12. CASE EnsureStream
  BY <1>12, EndStep, AfterBroker DEF TypeOK, EnsureStream, Exit, Causes
<1>13. CASE Subscribe
  <2>1. ASSUME NEW why \in Causes, Exit(why) PROVE TypeOK'
    BY <2>1, EndStep DEF TypeOK, Exit
  <2>2. CASE Goto("serving")
    BY <2>2 DEF TypeOK, Goto, Phases
  <2>3. Exit("broker") \/ Goto("serving")
    BY <1>13 DEF Subscribe
  <2>. QED  BY <2>1, <2>2, <2>3 DEF Causes
<1>14. CASE SeedLookup
  BY <1>14 DEF TypeOK, SeedLookup, Phases
<1>15. CASE SeedCreate
  BY <1>15 DEF TypeOK, SeedCreate, Phases
<1>16. ASSUME NEW r \in Work, Begin(r) \/ Finish(r) PROVE TypeOK'
  BY <1>16 DEF TypeOK, Begin, Finish
<1>17. CASE Close \/ ClosePool
  BY <1>17, EndStep DEF TypeOK, Close, ClosePool, Exit, Causes
<1>22. CASE Unsubscribe
  <2>1. work' \subseteq Work
    BY <1>22 DEF TypeOK, Unsubscribe
  <2>2. /\ phase' \in Phases /\ timer' \in Nat /\ tries' \in 0..MaxReconnect
        /\ link' \in {"none", "open", "reconnecting", "closed"}
    BY <1>22 DEF Unsubscribe, Phases
  <2>. QED  BY <1>22, <2>1, <2>2 DEF TypeOK, Unsubscribe
<1>18. CASE Link
  <2>1. /\ link' \in {"none", "open", "reconnecting", "closed"}
        /\ tries' \in 0..MaxReconnect
        /\ UNCHANGED <<settings, environment, phase, cause, retry, seeding, work, deaths>>
    BY <1>18 DEF TypeOK, Link, LinkBreaks, Reconnect, ReconnectGivesUp
  <2>. QED  BY <2>1 DEF TypeOK
<1>19. CASE Tick
  <2>1. elapsed' \in Nat
    BY <1>19 DEF TypeOK, Tick
  <2>2. upFor' \in 0..Patience + 1 /\ timer' \in Nat /\ tries' \in 0..MaxReconnect
    BY <1>19 DEF TypeOK, Tick, Due
  <2>. QED  BY <1>19, <2>1, <2>2 DEF TypeOK, Tick
<1>20. ASSUME NEW s \in Services, ComesUp(s) \/ GoesDown(s) PROVE TypeOK'
  <2>1. /\ up' = up \cup {s} \/ up' = up \ {s}
        /\ upFor' = 0 \/ upFor' = upFor
    BY <1>20, Zenon DEF ComesUp, GoesDown
  <2>2. up' \subseteq Services
    BY <2>1 DEF TypeOK
  <2>3. upFor \in 0..Patience + 1 /\ 0 \in 0..Patience + 1
    BY DEF TypeOK
  <2>4. /\ upFor' \in 0..Patience + 1
        /\ UNCHANGED <<settings, wanted, phase, cause, elapsed, backoff, timer, nats,
                       holder, work, deaths>>
    BY <1>20, <2>1, <2>3 DEF ComesUp, GoesDown
  <2>5. sawDown' \in BOOLEAN /\ steady' \in BOOLEAN
    BY <1>20, Zenon DEF TypeOK, ComesUp, GoesDown
  <2>. QED  BY <2>2, <2>4, <2>5 DEF TypeOK
<1>21. ASSUME NEW who \in {"admin", "user"}, OthersCreate(who) PROVE TypeOK'
  BY <1>21 DEF TypeOK, OthersCreate
<1>23. CASE OthersFree
  BY <1>23 DEF TypeOK, OthersFree
<1>. QED
  BY <1>1, <1>2, <1>3, <1>4, <1>5, <1>6, <1>7, <1>8, <1>9, <1>10, <1>11, <1>12,
     <1>13, <1>14, <1>15, <1>16, <1>17, <1>18, <1>19, <1>20, <1>21, <1>22, <1>23
     DEF Next, Main, Leave

(* The retries keep to the context, up to one attempt, and to what they saw *)
(* of Redis.                                                                *)
LEMMA RetryStep ==
  ASSUME IInv, Next
  PROVE  RetryInv'
<1>. USE StartupAssumption DEF IInv
<1>0. /\ elapsed \in Nat /\ timer \in Nat /\ upFor \in Nat /\ backoff \in Nat
      /\ backoff <= MaxBackoff /\ FirstBackoff <= backoff
  BY DEF TypeOK
<1>1. ASSUME NEW why \in Causes, End(why) PROVE RetryInv'
  BY <1>1 DEF RetryInv, End
<1>2. CASE Start \/ Deploy
  BY <1>2 DEF RetryInv, Start, Deploy
<1>3. CASE Signal
  BY <1>1, <1>3 DEF RetryInv, Signal, Causes
<1>4. CASE Load
  BY <1>1, <1>4 DEF RetryInv, Load, Exit, Goto, Causes
<1>5. CASE ConnectPostgres
  <2>1. ASSUME phase' = "ping", sawDown' = ("redis" \notin up),
               phase = "postgres", UNCHANGED <<up, upFor, elapsed, backoff, timer>>
        PROVE  RetryInv'
    <3>1. sawDown' => upFor' = 0
      BY <2>1 DEF RetryInv
    <3>. HIDE DEF IInv
    <3>2. RetryInv
      BY DEF IInv
    <3>. QED  BY <1>0, <2>1, <3>1, <3>2 DEF RetryInv
  <2>2. CASE Exit("settings")
    BY <1>1, <2>2 DEF Exit, Causes
  <2>3. CASE Goto("broker")
    BY <1>5, <2>3 DEF RetryInv, Goto, ConnectPostgres
  <2>. QED  BY <1>5, <2>1, <2>2, <2>3 DEF ConnectPostgres
<1>6. CASE PingAnswered
  BY <1>6 DEF RetryInv, PingAnswered
<1>7. CASE PingFails
  <2>1. /\ phase' = "backoff" /\ timer' = 0 /\ phase = "ping" /\ sawDown
        /\ UNCHANGED <<up, upFor, elapsed, backoff>>
    BY <1>7 DEF PingFails
  <2>2. upFor' <= MaxAttempt /\ timer' <= backoff'
    BY <1>0, <2>1 DEF RetryInv
  <2>. QED  BY <1>0, <2>1, <2>2 DEF RetryInv
<1>8. CASE BackoffOver
  <2>1. /\ phase = "backoff" /\ phase' = "ping" /\ timer = backoff /\ timer' = 0
        /\ sawDown' = ("redis" \notin up)
        /\ UNCHANGED <<up, upFor, elapsed>>
    BY <1>8 DEF BackoffOver
  <2>2. sawDown' => upFor' = 0
    BY <2>1 DEF RetryInv
  <2>3. elapsed' <= Deadline
    BY <1>0, <2>1 DEF RetryInv
  <2>4. /\ "redis" \notin up' => upFor' = 0
        /\ phase' = "ping" /\ timer' = 0
    BY <2>1 DEF RetryInv
  <2>. HIDE DEF IInv
  <2>. QED  BY <1>0, <2>1, <2>2, <2>3, <2>4 DEF RetryInv
<1>9. CASE ConnectBroker \/ EnsureStream \/ Subscribe
  BY <1>1, <1>9 DEF RetryInv, ConnectBroker, EnsureStream, Subscribe, Exit, Goto, Causes
<1>10. CASE SeedLookup \/ SeedCreate
  BY <1>10 DEF RetryInv, SeedLookup, SeedCreate
<1>11. CASE Tick
  BY <1>0, <1>11 DEF RetryInv, Tick, Due
<1>12. ASSUME NEW s \in Services, ComesUp(s) PROVE RetryInv'
  BY <1>12 DEF RetryInv, ComesUp
<1>13. ASSUME NEW s \in Services, GoesDown(s) PROVE RetryInv'
  <2>1. CASE s = "redis"
    BY <1>0, <1>13, <2>1 DEF RetryInv, GoesDown
  <2>2. CASE s # "redis"
    <3>1. sawDown' = sawDown
      BY <1>13, <2>2, Zenon DEF TypeOK, GoesDown
    <3>. QED  BY <1>13, <2>2, <3>1 DEF RetryInv, GoesDown
  <2>. QED  BY <2>1, <2>2
<1>14. CASE UNCHANGED <<up, upFor, phase, retry>>
  BY <1>14 DEF RetryInv
<1>15. CASE Unsubscribe
  BY <1>15 DEF RetryInv, Unsubscribe
<1>. QED
  BY <1>1, <1>2, <1>3, <1>4, <1>5, <1>6, <1>7, <1>8, <1>9, <1>10, <1>11, <1>12,
     <1>13, <1>14, <1>15
     DEF Next, Main, Leave, Dies, GiveUp, Close, ClosePool, Exit, Begin, Finish, Link,
         LinkBreaks, Reconnect, ReconnectGivesUp, OthersCreate, OthersFree, Causes

(* Seeding ends with an owner of the email, unless the database failed, the *)
(* password was refused or the email was given up meanwhile.                *)
LEMMA SeedStep ==
  ASSUME IInv, Next
  PROVE  SeedInv' /\ SeededWhenReachable'
<1>. USE DEF IInv, SeedInv, SeededWhenReachable, Api, Worker
<1>0. Api \/ Worker
  BY StartupAssumption DEF TypeOK, Setting
<1>1. ASSUME NEW why \in Causes, End(why) PROVE SeedInv' /\ SeededWhenReachable'
  BY <1>1 DEF End
<1>2. ASSUME NEW next \in Phases \ {"serving", "lookup", "create"}, Goto(next),
             next = "subscribe" => Worker
      PROVE SeedInv' /\ SeededWhenReachable'
  BY <1>2 DEF Goto
<1>3. CASE Signal
  BY <1>1, <1>3 DEF Signal, Causes
<1>4. CASE Load
  BY <1>1, <1>2, <1>4 DEF Load, Exit, Causes, Phases
<1>5. CASE ConnectPostgres
  BY <1>1, <1>2, <1>5 DEF ConnectPostgres, Exit, Causes, Phases
<1>6. CASE PingAnswered \/ PingFails \/ BackoffOver
  BY <1>6 DEF PingAnswered, PingFails, BackoffOver
<1>7. CASE ConnectBroker
  BY <1>0, <1>1, <1>7 DEF ConnectBroker, Exit, Goto, Causes
<1>8. CASE EnsureStream
  BY <1>0, <1>1, <1>8 DEF EnsureStream, Exit, Goto, Causes
<1>9. CASE Subscribe
  BY <1>0, <1>1, <1>9 DEF Subscribe, Exit, Goto, Causes
<1>10. CASE SeedLookup
  BY <1>10 DEF SeedLookup
<1>11. CASE SeedCreate
  BY <1>11 DEF SeedCreate
<1>12. ASSUME NEW s \in Services, ComesUp(s) \/ GoesDown(s)
       PROVE SeedInv' /\ SeededWhenReachable'
  <2>1. UNCHANGED <<settings, phase, holder>>
    BY <1>12 DEF ComesUp, GoesDown
  <2>2. steady' => steady /\ "db" \in up'
    BY <1>12 DEF ComesUp, GoesDown
  <2>. QED  BY <2>1, <2>2
<1>13. ASSUME NEW who \in {"admin", "user"}, OthersCreate(who)
       PROVE SeedInv' /\ SeededWhenReachable'
  BY <1>13 DEF OthersCreate
<1>14. CASE Start \/ Deploy
  BY <1>14 DEF Start, Deploy
<1>15. CASE UNCHANGED <<settings, up, phase, seeding>>
  BY <1>15
<1>16. CASE OthersFree
  BY <1>16 DEF OthersFree
<1>17. CASE Unsubscribe
  BY <1>17 DEF Unsubscribe
<1>. QED
  BY <1>1, <1>3, <1>4, <1>5, <1>6, <1>7, <1>8, <1>9, <1>10, <1>11, <1>12, <1>13,
     <1>14, <1>15, <1>16, <1>17
     DEF Next, Main, Leave, Dies, GiveUp, Close, ClosePool, Exit, Begin, Finish, Link,
         LinkBreaks, Reconnect, ReconnectGivesUp, Tick, Causes

(* IInv is an inductive invariant. *)
THEOREM Invariance == Spec => []IInv
<1>1. Init => IInv
  <2>. SUFFICES ASSUME Init PROVE IInv
    OBVIOUS
  <2>1. /\ elapsed \in Nat
        /\ backoff \in FirstBackoff..MaxBackoff
        /\ upFor \in 0..Patience + 1
        /\ tries \in 0..MaxReconnect /\ deaths \in 0..MaxDeaths
    BY StartupAssumption DEF Init
  <2>2. TypeOK
    BY <2>1 DEF Init, TypeOK, Phases, Causes
  <2>3. RetryInv
    BY DEF Init, RetryInv
  <2>4. SeedInv /\ SeededWhenReachable
    BY DEF Init, SeedInv, SeededWhenReachable
  <2>. QED  BY <2>2, <2>3, <2>4 DEF IInv
<1>2. IInv /\ [Next]_vars => IInv'
  <2>1. ASSUME IInv, Next PROVE IInv'
    BY <2>1, TypeStep, RetryStep, SeedStep DEF IInv
  <2>2. ASSUME IInv, UNCHANGED vars PROVE IInv'
    BY <2>2 DEF IInv, TypeOK, RetryInv, SeedInv, SeededWhenReachable, vars, Api, Worker
  <2>. QED  BY <2>1, <2>2
<1>. QED  BY <1>1, <1>2, PTL DEF Spec

(* The state is always type-correct. *)
THEOREM TypeCorrectness == Spec => []TypeOK
<1>1. IInv => TypeOK
  BY DEF IInv
<1>. QED  BY <1>1, Invariance, PTL

(* The retries end with the context, but for one attempt. *)
THEOREM RetriesEnd == Spec => []StartsInTime
<1>1. IInv => StartsInTime
  <2>. SUFFICES ASSUME IInv, phase \in Connecting PROVE elapsed <= Deadline + MaxAttempt
    BY DEF StartsInTime
  <2>1. elapsed \in Nat /\ timer \in Nat
    BY DEF IInv, TypeOK
  <2>. QED  BY StartupAssumption, <2>1 DEF IInv, RetryInv
<1>. QED  BY <1>1, Invariance, PTL

(* An API serves with somebody at the seed email, if its password can be    *)
(* hashed and since seeding began the database answered and nobody gave the *)
(* email up.                                                                *)
THEOREM SeedsWhenItCan == Spec => []SeededWhenReachable
<1>1. IInv => SeededWhenReachable
  BY DEF IInv
<1>. QED  BY <1>1, Invariance, PTL

(* When the retries give up, Redis has answered for no longer than the      *)
(* longest back-off and one attempt.                                        *)
THEOREM LateRedisIsNotMissed == Spec => NotGivenUpOn
<1> DEFINE A == phase = "backoff" /\ phase' = "down" /\ cause' = "redis" => upFor <= Patience
<1>1. IInv => A
  BY StartupAssumption DEF IInv, TypeOK, RetryInv
<1>. QED  BY <1>1, Invariance, PTL DEF Spec, NotGivenUpOn

-----------------------------------------------------------------------------
(* A worker's process lives as WorkerLife says: Subscribe makes it hear,    *)
(* Begin and Finish give and take it messages, ReconnectGivesUp and         *)
(* Unsubscribe make it deaf, whatever ends it ends it there, and no other   *)
(* step is visible.                                                         *)
Running == {"serving", "stopping", "closing"}
LifeOfWorker == IF ~Worker \/ phase \notin Running THEN "down"
                ELSE IF link = "closed" THEN "deaf" ELSE "subscribed"
LifeOfAll == [w \in {"worker"} |-> LifeOfWorker]
BusyAll == {w \in {"worker"} : Worker /\ work # {}}

USE DEF Running

LEMMA SettingsStay ==
  ASSUME Next
  PROVE  settings' = settings /\ Worker' = Worker
<1>1. settings' = settings
  BY DEF Next, Main, Link, Start, Dies, Signal, Deploy, End, Load, ConnectPostgres, PingAnswered,
     PingFails, BackoffOver, GiveUp, Exit, ConnectBroker, EnsureStream, Subscribe, SeedLookup,
     SeedCreate, Goto, Begin, Finish, Leave, Close, Unsubscribe, ClosePool, LinkBreaks, Reconnect,
     ReconnectGivesUp, Tick, ComesUp, GoesDown, OthersCreate, OthersFree
<1>. QED  BY <1>1 DEF Worker

(* A step that nobody sees in the process of an API, or in that of a worker *)
(* which keeps its phase, its link and its work.                            *)
LEMMA Unseen ==
  ASSUME settings' = settings, LifeOfWorker' = LifeOfWorker,
         Worker => (work' = {} <=> work = {})
  PROVE  UNCHANGED Life!vars
<1>1. LifeOfAll' = LifeOfAll
  BY DEF LifeOfAll
<1>2. BusyAll' = BusyAll
  BY DEF BusyAll, Worker
<1>. QED  BY <1>1, <1>2 DEF Life!vars, LifeOfAll, LifeOfWorker, BusyAll

LEMMA EndEnds ==
  ASSUME NEW why, End(why)
  PROVE  [Life!Next]_(Life!vars)
<1>1. LifeOfAll' = [LifeOfAll EXCEPT !["worker"] = "down"]
  BY DEF End, LifeOfAll, LifeOfWorker, Worker
<1>2. BusyAll' = BusyAll \ {"worker"}
  BY DEF End, BusyAll
<1>3. Life!End("worker")
  BY <1>1, <1>2 DEF Life!End, Life!Become, LifeOfAll, LifeOfWorker, BusyAll
<1>. QED  BY <1>3 DEF Life!Next

LEMMA GivingUpDeafens ==
  ASSUME ReconnectGivesUp
  PROVE  [Life!Next]_(Life!vars)
<1>1. settings' = settings /\ phase' = phase /\ work' = work /\ link = "reconnecting" /\ link' = "closed"
  BY DEF ReconnectGivesUp
<1>2. CASE Worker /\ phase \in Running
  <2>1. LifeOfAll' = [LifeOfAll EXCEPT !["worker"] = "deaf"] /\ LifeOfAll["worker"] = "subscribed"
    BY <1>1, <1>2 DEF LifeOfAll, LifeOfWorker, Worker
  <2>2. BusyAll' = BusyAll
    BY <1>1 DEF BusyAll, Worker
  <2>3. Life!GoDeaf("worker")
    BY <2>1, <2>2 DEF Life!GoDeaf, Life!Become, LifeOfAll, LifeOfWorker, BusyAll
  <2>. QED  BY <2>3 DEF Life!Next
<1>3. CASE ~(Worker /\ phase \in Running)
  BY <1>1, <1>3, Unseen DEF LifeOfWorker, Worker
<1>. QED  BY <1>2, <1>3

LEMMA UnsubscribeDeafens ==
  ASSUME Unsubscribe
  PROVE  [Life!Next]_(Life!vars)
<1>1. /\ settings' = settings /\ Worker /\ Worker'
      /\ phase = "stopping" /\ phase' = "closing" /\ link' = "closed"
  BY DEF Unsubscribe, Worker
<1>2. /\ BusyAll' \in {BusyAll, BusyAll \ {"worker"}}
      /\ LifeOfAll' = [LifeOfAll EXCEPT !["worker"] = "deaf"]
  <2>1. work' = {} \/ (work' # {} /\ work # {})
    BY DEF Unsubscribe
  <2>. QED  BY <1>1, <2>1 DEF BusyAll, LifeOfAll, LifeOfWorker
<1>3. CASE link # "closed"
  <2>1. LifeOfAll["worker"] = "subscribed"
    BY <1>1, <1>3 DEF LifeOfAll, LifeOfWorker
  <2>2. Life!GoDeaf("worker")
    BY <1>2, <2>1 DEF Life!GoDeaf, Life!Become, LifeOfAll, LifeOfWorker, BusyAll
  <2>. QED  BY <2>2 DEF Life!Next
<1>4. CASE link = "closed"
  <2>1. LifeOfAll' = LifeOfAll
    BY <1>1, <1>4 DEF LifeOfAll, LifeOfWorker
  <2>2. Life!Finish("worker") \/ UNCHANGED Life!vars
    BY <1>2, <2>1 DEF Life!Finish, Life!vars, LifeOfAll, LifeOfWorker, BusyAll
  <2>. QED  BY <2>2 DEF Life!Next
<1>. QED  BY <1>3, <1>4

LEMMA SubscribeSubscribes ==
  ASSUME IInv, Subscribe
  PROVE  [Life!Next]_(Life!vars)
<1>1. CASE Goto("serving")
  <2>1. /\ settings' = settings /\ link' = link /\ link # "closed" /\ work' = work
        /\ phase = "subscribe" /\ phase' = "serving" /\ Worker
    BY <1>1 DEF Subscribe, Goto, Exit, End, IInv, SeedInv
  <2>2. LifeOfAll' = [LifeOfAll EXCEPT !["worker"] = "subscribed"] /\ LifeOfAll["worker"] = "down"
    BY <2>1 DEF LifeOfAll, LifeOfWorker, Worker
  <2>3. BusyAll' = BusyAll
    BY <2>1 DEF BusyAll, Worker
  <2>4. Life!Subscribe("worker")
    BY <2>2, <2>3 DEF Life!Subscribe, Life!Become, LifeOfAll, LifeOfWorker, BusyAll
  <2>. QED  BY <2>4 DEF Life!Next
<1>2. CASE Exit("broker")
  BY <1>2, EndEnds DEF Exit
<1>. QED  BY <1>1, <1>2 DEF Subscribe

LEMMA WorkTakesAndFinishes ==
  ASSUME NEW r \in Work, Begin(r) \/ Finish(r)
  PROVE  [Life!Next]_(Life!vars)
<1>1. settings' = settings /\ phase' = phase /\ link' = link
  BY DEF Begin, Finish
<1>2. LifeOfAll' = LifeOfAll
  BY <1>1 DEF LifeOfAll, LifeOfWorker, Worker
<1>3. CASE Worker /\ Begin(r)
  <2>1. LifeOfAll["worker"] = "subscribed" /\ BusyAll' = BusyAll \cup {"worker"}
    BY <1>1, <1>3 DEF Begin, LifeOfAll, LifeOfWorker, BusyAll, Worker
  <2>2. Life!Take("worker")
    BY <1>2, <2>1 DEF Life!Take, LifeOfAll, LifeOfWorker, BusyAll
  <2>. QED  BY <2>2 DEF Life!Next
<1>4. CASE Worker /\ Finish(r) /\ work' = {}
  <2>1. BusyAll' = BusyAll \ {"worker"}
    BY <1>4 DEF BusyAll
  <2>2. Life!Finish("worker")
    BY <1>2, <2>1 DEF Life!Finish, LifeOfAll, LifeOfWorker, BusyAll
  <2>. QED  BY <2>2 DEF Life!Next
<1>5. CASE ~Worker \/ (Finish(r) /\ work' # {})
  <2>1. Worker => work' # {} /\ work # {}
    BY <1>5 DEF Finish
  <2>. QED  BY <1>1, <2>1, Unseen DEF LifeOfWorker, Worker
<1>. QED  BY <1>3, <1>4, <1>5

(* Every step of a worker's main is a step of WorkerLife or invisible to    *)
(* it: it takes work only while it is subscribed, and after nats.go gave    *)
(* up nothing but its end makes it hear again.                              *)
THEOREM WorkerRefinement == Spec => ImplementsWorkerLife
<1>1. Init => Life!Init
  <2>1. ASSUME Init PROVE LifeOfAll = [w \in {"worker"} |-> "down"] /\ BusyAll = {}
    BY <2>1 DEF Init, LifeOfAll, LifeOfWorker, BusyAll
  <2>. QED  BY <2>1 DEF Life!Init, LifeOfAll, LifeOfWorker, BusyAll
<1>2. ASSUME IInv, [Next]_vars PROVE [Life!Next]_(Life!vars)
  <2>1. CASE \E why \in Causes : End(why)
    BY <2>1, EndEnds
  <2>2. CASE Subscribe
    BY <1>2, <2>2, SubscribeSubscribes
  <2>3. CASE ReconnectGivesUp
    BY <2>3, GivingUpDeafens
  <2>4. CASE \E r \in Work : Begin(r) \/ Finish(r)
    BY <2>4, WorkTakesAndFinishes
  <2>5. ASSUME Next, work' = work, LifeOfWorker' = LifeOfWorker PROVE UNCHANGED Life!vars
    BY <2>5, SettingsStay, Unseen
  <2>6. CASE Next /\ work' = work /\ phase \in Running /\ phase' \in Running
             /\ (link' = "closed" <=> link = "closed")
    BY <2>5, <2>6, SettingsStay DEF LifeOfWorker
  <2>7. CASE Next /\ work' = work /\ phase \notin Running
             /\ (phase' \notin Running \/ ~Worker)
    BY <2>5, <2>7, SettingsStay DEF LifeOfWorker
  <2>8. CASE UNCHANGED vars
    BY <2>8, Unseen DEF vars, LifeOfWorker, Worker
  <2>9. ASSUME Main PROVE [Life!Next]_(Life!vars)
    <3>1. CASE Load \/ ConnectPostgres \/ PingAnswered \/ PingFails \/ BackoffOver \/ GiveUp
      BY <2>1, <2>7, <2>9, <3>1 DEF Next, Load, ConnectPostgres, PingAnswered, PingFails,
         BackoffOver, GiveUp, Goto, Exit, Causes
    <3>2. CASE ConnectBroker \/ EnsureStream
      BY <2>1, <2>7, <2>9, <3>2 DEF Next, ConnectBroker, EnsureStream, Goto, Exit, Causes
    <3>3. CASE SeedLookup \/ SeedCreate
      BY <1>2, <2>7, <2>9, <3>3 DEF Next, SeedLookup, SeedCreate, IInv, SeedInv, Api, Worker
    <3>. QED  BY <2>2, <2>9, <3>1, <3>2, <3>3 DEF Main
  <2>10. ASSUME Start \/ Dies \/ Signal \/ Deploy PROVE [Life!Next]_(Life!vars)
    BY <2>1, <2>6, <2>7, <2>10 DEF Next, Start, Dies, Signal, Deploy, Causes
  <2>11. ASSUME LinkBreaks \/ Reconnect \/ Tick
                \/ (\E s \in Services : ComesUp(s) \/ GoesDown(s))
                \/ (\E who \in {"admin", "user"} : OthersCreate(who))
                \/ OthersFree
         PROVE  [Life!Next]_(Life!vars)
    <3>1. /\ work' = work /\ phase' = phase /\ (link' = "closed" <=> link = "closed")
      BY <2>11 DEF LinkBreaks, Reconnect, Tick, ComesUp, GoesDown, OthersCreate,
         OthersFree
    <3>2. Next
      BY <2>11 DEF Next, Link
    <3>. QED  BY <2>6, <2>7, <3>1, <3>2
  <2>12. ASSUME Leave PROVE [Life!Next]_(Life!vars)
    BY <2>1, <2>12, UnsubscribeDeafens DEF Leave, Close, ClosePool, Exit, Causes
  <2>. QED
    BY <1>2, <2>2, <2>3, <2>4, <2>8, <2>9, <2>10, <2>11, <2>12 DEF Next, Link
<1>. QED  BY <1>1, <1>2, Invariance, PTL DEF Spec, ImplementsWorkerLife, Life!Spec
=============================================================================
