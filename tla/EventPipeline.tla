--------------------------- MODULE EventPipeline ---------------------------
(***************************************************************************)
(* The asynchronous event pipeline: the API's POST /events handler, the    *)
(* broker (NATS JetStream or core NATS), the worker replicas of the queue  *)
(* group "event-workers", and the tables accounts, api_keys and events.    *)
(*                                                                         *)
(* The setting BROKER_JETSTREAM_ENABLED picks one of the two brokers.      *)
(* Every step that needs something to go wrong (a crash, a lost            *)
(* acknowledgement, a slow handler, a broken connection, a worker taken    *)
(* out of service) spends one unit of the bound MaxFaults.                 *)
(*                                                                         *)
(* Definitions named X_Y are not part of the specification: they are       *)
(* definition X with the slip Y, which some property must detect.          *)
(***************************************************************************)
EXTENDS Naturals, Sequences, FiniteSets

CONSTANTS
  Events,         \* one identifier (uuid.New) per accepted POST /events request
  Blank,          \* the events whose request body has no payload
  Accounts, Keys, \* the accounts and the API keys that exist at the start
  KeyOwner,       \* the account of each key (api_keys.account_id)
  Credential,     \* what each request comes with: a key, or NoKey for a token
  Workers,        \* the worker replicas
  Kept,           \* the replicas that are always brought back after they stop
  Brokers,        \* the brokers considered, of "jetstream" and "core"
  MaxAckPending,  \* nats.MaxAckPending(100)
  MaxFaults,      \* bound on the faults of one behaviour
  NoKey, NoMsg, NoWorker, Absent

ASSUME ConstantsAssumption ==
  /\ Blank \subseteq Events
  /\ KeyOwner \in [Keys -> Accounts]
  /\ Credential \in [Events -> Keys \cup {NoKey}]
  /\ Kept \subseteq Workers
  /\ Brokers \subseteq {"jetstream", "core"}
  /\ MaxAckPending \in Nat \ {0}
  /\ MaxFaults \in Nat

ASSUME NullsAssumption ==
  /\ NoKey \notin Keys
  /\ Absent \notin Keys \cup {NoKey}
  /\ NoWorker \notin Workers

VARIABLES
  broker,          \* the one BROKER_JETSTREAM_ENABLED picks
  accounts, keys,  \* the rows of tables accounts and api_keys
  row,             \* events table: Absent, or the row's api_key_id (NoKey is NULL)
  reply,           \* how far each POST /events is: its publication, its answer
  msg,             \* the message of each event: its author and its key
  buffered,        \* what nats.go keeps in the API until it is connected again
  stream,          \* the messages stream EVENTS holds
  pending,         \* the consumer's delivered and unacknowledged messages
  redeliver,       \* the pending messages queued for redelivery
  consumer,        \* does the durable consumer "event-workers" exist?
  creator,         \* the running worker whose QueueSubscribe created it
  attached,        \* the workers subscribed to the subject it delivers to
  deaf,            \* the running workers nats.go gave up reconnecting
  up,              \* the workers that are running and not on their way out
  inbox,           \* per worker, the subscription's buffer of undone messages
  pc,              \* per worker, what the handler did with the buffer's head
  faults,          \* the faults so far
  everStored       \* history: the events whose INSERT committed

JetStream == broker = "jetstream"

db == <<accounts, keys, row, everStored>>
server == <<stream, pending, redeliver>>
subscription == <<consumer, creator, attached, deaf>>
worker == <<up, inbox, pc>>
vars == <<broker, db, reply, msg, buffered, server, subscription, worker, faults>>

Replies == {"none", "open", "sent", "202", "500"}
Identity == [account : Accounts, key : Keys \cup {NoKey}]

(* Type correctness of the state. *)
TypeOK ==
  /\ broker \in Brokers
  /\ accounts \subseteq Accounts
  /\ keys \subseteq Keys
  /\ row \in [Events -> Keys \cup {NoKey, Absent}]
  /\ reply \in [Events -> Replies]
  /\ msg \in [Events -> Identity \cup {NoMsg}]
  /\ buffered \subseteq Events
  /\ stream \subseteq Events
  /\ pending \subseteq stream
  /\ redeliver \subseteq pending
  /\ consumer \in BOOLEAN
  /\ creator \in Workers \cup {NoWorker}
  /\ up \subseteq Workers
  /\ attached \subseteq up
  /\ deaf \subseteq up
  /\ inbox \in [Workers -> Seq(Events)]
  /\ pc \in [Workers -> {"ready", "ok", "err"}]
  /\ faults \in 0..MaxFaults
  /\ everStored \subseteq Events

Init ==
  /\ broker \in Brokers
  /\ accounts = Accounts
  /\ keys = Keys
  /\ row = [e \in Events |-> Absent]
  /\ reply = [e \in Events |-> "none"]
  /\ msg = [e \in Events |-> NoMsg]
  /\ buffered = {}
  /\ stream = {} /\ pending = {} /\ redeliver = {}
  /\ consumer = FALSE
  /\ creator = NoWorker
  /\ attached = {}
  /\ deaf = {}
  /\ up = {}
  /\ inbox = [w \in Workers |-> << >>]
  /\ pc = [w \in Workers |-> "ready"]
  /\ faults = 0
  /\ everStored = {}

Fault == faults < MaxFaults /\ faults' = faults + 1

-----------------------------------------------------------------------------
(* POST /events *)

(* UniversalAuth has found the account, by a token or by one of its keys,   *)
(* and CreateEvent has built the message. A key deleted meanwhile still     *)
(* authenticates from the key cache, so its row is not looked at.           *)
Receive(e, a) ==
  /\ reply[e] = "none"
  /\ a \in accounts
  /\ Credential[e] \in Keys => KeyOwner[Credential[e]] = a
  /\ reply' = [reply EXCEPT ![e] = "open"]
  /\ msg' = [msg EXCEPT ![e] = [account |-> a, key |-> Credential[e]]]
  /\ UNCHANGED <<broker, db, buffered, server, subscription, worker, faults>>

(* js.Publish: the stream stores the message, which the workers may handle  *)
(* at once; the handler waits for the confirmation.                         *)
PublishToStream(e) ==
  /\ JetStream
  /\ reply[e] = "open"
  /\ stream' = stream \cup {e}
  /\ reply' = [reply EXCEPT ![e] = "sent"]
  /\ UNCHANGED <<broker, db, msg, buffered, pending, redeliver, subscription, worker, faults>>

Confirmed(e) ==
  /\ reply[e] = "sent"
  /\ reply' = [reply EXCEPT ![e] = "202"]
  /\ UNCHANGED <<broker, db, msg, buffered, server, subscription, worker, faults>>

(* The confirmation is lost or late, and the handler answers 500. *)
Unconfirmed(e) ==
  /\ reply[e] = "sent"
  /\ Fault
  /\ reply' = [reply EXCEPT ![e] = "500"]
  /\ UNCHANGED <<broker, db, msg, buffered, server, subscription, worker>>

(* NATS is away: nats.go buffers the message. js.Publish waits in vain for  *)
(* a confirmation and the handler answers 500; conn.Publish returns at once *)
(* without an error.                                                        *)
PublishBuffered(e) ==
  /\ reply[e] = "open"
  /\ Fault
  /\ buffered' = buffered \cup {e}
  /\ reply' = [reply EXCEPT ![e] = IF JetStream THEN "500" ELSE "202"]
  /\ UNCHANGED <<broker, db, msg, server, subscription, worker>>

(* nats.go is connected again and sends what it buffered, maybe long after  *)
(* the client had its answer; the server treats it as any publication. It   *)
(* need not happen: the buffer is lost with the API's process.              *)
FlushToStream(e) ==
  /\ JetStream
  /\ e \in buffered
  /\ buffered' = buffered \ {e}
  /\ stream' = stream \cup {e}
  /\ UNCHANGED <<broker, db, reply, msg, pending, redeliver, subscription, worker, faults>>

FlushToSubscriber(e, w) ==
  /\ ~JetStream
  /\ e \in buffered
  /\ w \in attached
  /\ buffered' = buffered \ {e}
  /\ inbox' = [inbox EXCEPT ![w] = Append(@, e)]
  /\ UNCHANGED <<broker, db, reply, msg, server, subscription, up, pc, faults>>

FlushToNobody(e) ==
  /\ ~JetStream
  /\ e \in buffered
  /\ attached = {}
  /\ buffered' = buffered \ {e}
  /\ UNCHANGED <<broker, db, reply, msg, server, subscription, worker, faults>>

PublishToSubscriber_NoQueueGroup(e, w) ==
  /\ ~JetStream
  /\ reply[e] = "open"
  /\ w \in attached
  /\ inbox' = [v \in Workers |-> IF v \in attached THEN Append(inbox[v], e) ELSE inbox[v]]
  /\ reply' = [reply EXCEPT ![e] = "202"]
  /\ UNCHANGED <<broker, db, msg, buffered, server, subscription, up, pc, faults>>

(* conn.Publish: the server hands the message to one subscriber of the      *)
(* queue group.                                                             *)
PublishToSubscriber(e, w) ==
  /\ ~JetStream
  /\ reply[e] = "open"
  /\ w \in attached
  /\ inbox' = [inbox EXCEPT ![w] = Append(@, e)]
  /\ reply' = [reply EXCEPT ![e] = "202"]
  /\ UNCHANGED <<broker, db, msg, buffered, server, subscription, up, pc, faults>>

(* conn.Publish: nobody is subscribed, and the server drops the message.    *)
PublishToNobody(e) ==
  /\ ~JetStream
  /\ reply[e] = "open"
  /\ attached = {}
  /\ reply' = [reply EXCEPT ![e] = "202"]
  /\ UNCHANGED <<broker, db, msg, buffered, server, subscription, worker, faults>>

PublishError_Swallowed(e) ==
  /\ reply[e] = "open"
  /\ Fault
  /\ reply' = [reply EXCEPT ![e] = "202"]
  /\ UNCHANGED <<broker, db, msg, buffered, server, subscription, worker>>

(* Publish failed and nothing was sent. *)
PublishError(e) ==
  /\ reply[e] = "open"
  /\ Fault
  /\ reply' = [reply EXCEPT ![e] = "500"]
  /\ UNCHANGED <<broker, db, msg, buffered, server, subscription, worker>>

-----------------------------------------------------------------------------
(* The JetStream server *)

DeliverNew(e, w) ==
  /\ consumer
  /\ e \in stream \ pending
  /\ Cardinality(pending) < MaxAckPending
  /\ w \in attached
  /\ pending' = pending \cup {e}
  /\ inbox' = [inbox EXCEPT ![w] = Append(@, e)]
  /\ UNCHANGED <<broker, db, reply, msg, buffered, stream, redeliver, subscription, up, pc, faults>>

Redeliver(e, w) ==
  /\ consumer
  /\ e \in redeliver
  /\ w \in attached
  /\ redeliver' = redeliver \ {e}
  /\ inbox' = [inbox EXCEPT ![w] = Append(@, e)]
  /\ UNCHANGED <<broker, db, reply, msg, buffered, stream, pending, subscription, up, pc, faults>>

Holds(w, e) == \E i \in 1..Len(inbox[w]) : inbox[w][i] = e

(* AckWait (30 s) ran out. When a worker still has the message, the handler *)
(* or the messages buffered before it were slow, which counts as a fault.   *)
AckWaitExpires(e) ==
  /\ consumer
  /\ e \in pending \ redeliver
  /\ IF \E w \in Workers : Holds(w, e) THEN Fault ELSE UNCHANGED faults
  /\ redeliver' = redeliver \cup {e}
  /\ UNCHANGED <<broker, db, reply, msg, buffered, stream, pending, subscription, worker>>

-----------------------------------------------------------------------------
(* The workers *)

Start_WithoutJetStream(w) ==
  /\ w \notin up /\ inbox[w] = << >>
  /\ up' = up \cup {w}
  /\ attached' = attached \cup {w}
  /\ UNCHANGED <<broker, db, reply, msg, buffered, server, consumer, creator, deaf, inbox, pc, faults>>

(* cmd/worker subscribes: it joins the durable consumer, and creates it     *)
(* when it does not exist. Subscribers of a deleted consumer stay behind on *)
(* the old delivery subject.                                                *)
Start(w) ==
  /\ w \notin up /\ inbox[w] = << >>
  /\ up' = up \cup {w}
  /\ IF JetStream /\ ~consumer
     THEN consumer' = TRUE /\ creator' = w /\ attached' = {w}
     ELSE attached' = attached \cup {w} /\ UNCHANGED <<consumer, creator>>
  /\ UNCHANGED <<broker, db, reply, msg, buffered, server, deaf, inbox, pc, faults>>

(* The process dies with what it buffered, between any two steps, also on   *)
(* its way out.                                                             *)
Crash(w) ==
  /\ w \in up \/ inbox[w] # << >>
  /\ Fault
  /\ up' = up \ {w} /\ attached' = attached \ {w} /\ deaf' = deaf \ {w}
  /\ creator' = IF creator = w THEN NoWorker ELSE creator
  /\ inbox' = [inbox EXCEPT ![w] = << >>]
  /\ pc' = [pc EXCEPT ![w] = "ready"]
  /\ UNCHANGED <<broker, db, reply, msg, buffered, server, consumer>>

Busy(w) == pc[w] = "ready" /\ inbox[w] # << >>

(* The connection is closed: its buffer is dropped, and an INSERT in        *)
(* progress goes on.                                                        *)
DropBuffer(w) ==
  \/ /\ inbox' = [inbox EXCEPT ![w] = << >>]
     /\ pc' = [pc EXCEPT ![w] = "ready"]
  \/ /\ Busy(w)
     /\ inbox' = [inbox EXCEPT ![w] = <<Head(@)>>]
     /\ UNCHANGED pc

(* SIGTERM: after two seconds subscriber.Close unsubscribes, which deletes  *)
(* the durable consumer when this subscription created it, and closes the   *)
(* connection. The deferred pool.Close waits for an INSERT in progress; the *)
(* process is gone when its buffer is empty.                                *)
Stop(w) ==
  /\ w \in up
  /\ Fault
  /\ up' = up \ {w} /\ deaf' = deaf \ {w}
  /\ DropBuffer(w)
  /\ IF creator = w
     THEN /\ consumer' = FALSE /\ creator' = NoWorker /\ attached' = {}
          /\ pending' = {} /\ redeliver' = {}
     ELSE /\ attached' = attached \ {w}
          /\ UNCHANGED <<consumer, creator, pending, redeliver>>
  /\ UNCHANGED <<broker, db, reply, msg, buffered, stream>>

LinkCloses_StaysAttached(w) ==
  /\ w \in up \ deaf
  /\ Fault
  /\ deaf' = deaf \cup {w}
  /\ creator' = IF creator = w THEN NoWorker ELSE creator
  /\ inbox' = [inbox EXCEPT ![w] = << >>]
  /\ pc' = [pc EXCEPT ![w] = "ready"]
  /\ UNCHANGED <<broker, db, reply, msg, buffered, server, consumer, attached, up>>

(* NATS was away for longer than nats.go tries to reconnect. The connection *)
(* is closed for good and whatever the handler in progress answers is lost; *)
(* the process goes on waiting for a signal, and its Unsubscribe will       *)
(* delete no consumer.                                                      *)
LinkCloses(w) ==
  /\ w \in up \ deaf
  /\ Fault
  /\ deaf' = deaf \cup {w}
  /\ attached' = attached \ {w}
  /\ creator' = IF creator = w THEN NoWorker ELSE creator
  /\ DropBuffer(w)
  /\ UNCHANGED <<broker, db, reply, msg, buffered, server, consumer, up>>

Insertable_NoForeignKeys(e) == e \notin Blank /\ row[e] = Absent

(* The checks PostgreSQL makes on the INSERT of event e: the payload is     *)
(* JSON, the id is new, and the rows it references exist.                   *)
Insertable(e) ==
  /\ e \notin Blank
  /\ row[e] = Absent
  /\ msg[e].account \in accounts
  /\ msg[e].key \in keys \cup {NoKey}

CommitInsert(e) ==
  /\ row' = [row EXCEPT ![e] = msg[e].key]
  /\ everStored' = everStored \cup {e}

(* EventService.CreateEvent on the buffer's head. *)
InsertCommits(w) ==
  /\ Busy(w)
  /\ Insertable(Head(inbox[w]))
  /\ CommitInsert(Head(inbox[w]))
  /\ pc' = [pc EXCEPT ![w] = "ok"]
  /\ UNCHANGED <<broker, accounts, keys, reply, msg, buffered, server, subscription, up, inbox, faults>>

InsertRejected(w) ==
  /\ Busy(w)
  /\ ~Insertable(Head(inbox[w]))
  /\ pc' = [pc EXCEPT ![w] = "err"]
  /\ UNCHANGED <<broker, db, reply, msg, buffered, server, subscription, up, inbox, faults>>

(* The connection to the database breaks: the handler sees an error,        *)
(* whether or not the INSERT committed.                                     *)
InsertBreaks(w) ==
  /\ Busy(w)
  /\ Fault
  /\ pc' = [pc EXCEPT ![w] = "err"]
  /\ \/ Insertable(Head(inbox[w])) /\ CommitInsert(Head(inbox[w]))
     \/ UNCHANGED <<row, everStored>>
  /\ UNCHANGED <<broker, accounts, keys, reply, msg, buffered, server, subscription, up, inbox>>

Connected(w) == w \in up \ deaf

(* The callback returns, and the subscription turns to its next message. *)
NextMessage(w) ==
  /\ pc' = [pc EXCEPT ![w] = "ready"]
  /\ inbox' = [inbox EXCEPT ![w] = Tail(@)]
  /\ UNCHANGED <<broker, db, reply, msg, buffered, subscription, up>>

(* msg.Ack: the work queue stream removes a message that is pending. *)
Ack(w) ==
  LET acked == {Head(inbox[w])} \cap pending
  IN  /\ pc[w] = "ok"
      /\ Connected(w)
      /\ stream' = stream \ acked
      /\ pending' = pending \ acked
      /\ redeliver' = redeliver \ acked
      /\ NextMessage(w)
      /\ UNCHANGED faults

Nak_OfSettled(w) ==
  /\ pc[w] = "err"
  /\ Connected(w)
  /\ redeliver' = redeliver \cup {Head(inbox[w])}
  /\ NextMessage(w)
  /\ UNCHANGED <<stream, pending, faults>>

Nak_FallsThroughToAck(w) ==
  LET acked == {Head(inbox[w])} \cap pending
  IN  /\ pc[w] = "err"
      /\ Connected(w)
      /\ stream' = stream \ acked
      /\ pending' = pending \ acked
      /\ redeliver' = redeliver \ acked
      /\ NextMessage(w)
      /\ UNCHANGED faults

(* msg.Nak: a pending message is redelivered at once. *)
Nak(w) ==
  /\ pc[w] = "err"
  /\ Connected(w)
  /\ redeliver' = redeliver \cup ({Head(inbox[w])} \cap pending)
  /\ NextMessage(w)
  /\ UNCHANGED <<stream, pending, faults>>

(* The answer does not reach the server; its error is discarded. *)
AnswerLost(w) ==
  /\ pc[w] # "ready"
  /\ IF Connected(w) THEN JetStream /\ Fault ELSE UNCHANGED faults
  /\ NextMessage(w)
  /\ UNCHANGED server

-----------------------------------------------------------------------------
(* Deletes that race with the pipeline *)

(* api_keys and events of the account go with it (ON DELETE CASCADE). *)
DeleteAccount(a) ==
  /\ a \in accounts
  /\ accounts' = accounts \ {a}
  /\ keys' = {k \in keys : KeyOwner[k] # a}
  /\ row' = [e \in Events |->
               IF row[e] # Absent /\ msg[e].account = a THEN Absent ELSE row[e]]
  /\ UNCHANGED <<broker, everStored, reply, msg, buffered, server, subscription, worker, faults>>

(* The key's events stay, with a null api_key_id (ON DELETE SET NULL). *)
DeleteKey(k) ==
  /\ k \in keys
  /\ keys' = keys \ {k}
  /\ row' = [e \in Events |-> IF row[e] = k THEN NoKey ELSE row[e]]
  /\ UNCHANGED <<broker, accounts, everStored, reply, msg, buffered, server, subscription, worker, faults>>

-----------------------------------------------------------------------------
Publish(e) ==
  \/ PublishToStream(e)
  \/ \E w \in Workers : PublishToSubscriber(e, w)
  \/ PublishToNobody(e)
  \/ PublishBuffered(e)
  \/ PublishError(e)

Flush(e) ==
  \/ FlushToStream(e)
  \/ \E w \in Workers : FlushToSubscriber(e, w)
  \/ FlushToNobody(e)

Insert(w) == InsertCommits(w) \/ InsertRejected(w) \/ InsertBreaks(w)
Answer(w) == Ack(w) \/ Nak(w) \/ AnswerLost(w)

Next ==
  \/ \E e \in Events, a \in Accounts : Receive(e, a)
  \/ \E e \in Events : Publish(e)
  \/ \E e \in Events : Confirmed(e) \/ Unconfirmed(e)
  \/ \E e \in Events : Flush(e)
  \/ \E e \in Events, w \in Workers : DeliverNew(e, w)
  \/ \E e \in Events, w \in Workers : Redeliver(e, w)
  \/ \E e \in Events : AckWaitExpires(e)
  \/ \E w \in Workers : Start(w)
  \/ \E w \in Workers : Crash(w)
  \/ \E w \in Workers : Stop(w)
  \/ \E w \in Workers : LinkCloses(w)
  \/ \E w \in Workers : Insert(w)
  \/ \E w \in Workers : Answer(w)
  \/ \E a \in Accounts : DeleteAccount(a)
  \/ \E k \in Keys : DeleteKey(k)

Spec == Init /\ [][Next]_vars

(* What the server does for a message, of which one is possible at a time,  *)
(* and what a worker does for its buffer's head.                            *)
Serve(e) ==
  \/ \E w \in Workers : DeliverNew(e, w) \/ Redeliver(e, w)
  \/ AckWaitExpires(e)
Handle(w) == Insert(w) \/ Answer(w)

(* The server delivers what it may deliver and times out what it has        *)
(* waited for, a running worker goes on with its handler, and the replicas  *)
(* in Kept are brought back. Requests, deletes and faults need not happen.  *)
Fairness ==
  /\ \A e \in Events : WF_vars(Serve(e))
  /\ \A w \in Workers : WF_vars(Handle(w))
  /\ \A w \in Kept : WF_vars(Start(w))

FairSpec == Spec /\ Fairness

-----------------------------------------------------------------------------
(* Nothing accepted is lost before it was stored: with JetStream an event   *)
(* the client got a 202 for is in the stream or its row was committed,      *)
(* through lost and late acknowledgements, crashes and consumer deletions.  *)
NoSilentLoss ==
  JetStream => \A e \in Events : reply[e] = "202" => e \in stream \cup everStored

(* At-least-once delivery stores at most once: no redelivery ever brings    *)
(* back an event whose INSERT committed before, not even after the          *)
(* account's deletion removed the row the primary key was protecting.       *)
StoredOnce ==
  [][\A e \in everStored : row[e] = Absent => row'[e] = Absent]_vars

(* With JetStream the pipeline implements EventDelivery: the three places   *)
(* an event passes through are the stream, the table, and before them       *)
(* nothing; an open request has no answer yet. With core NATS the promise   *)
(* is made to nobody.                                                       *)
Delivery == INSTANCE EventDelivery WITH
  status <- [e \in Events |-> IF JetStream /\ e \in everStored THEN "stored"
                              ELSE IF e \in stream THEN "queued" ELSE "new"],
  answer <- [e \in Events |-> IF JetStream /\ reply[e] \in {"202", "500"}
                              THEN reply[e] ELSE "none"]

ImplementsDelivery == Delivery!Spec

(* The workers are those of WorkerLife, and so those of Startup: whoever is *)
(* deaf or on its way out gets nothing any more, whatever the server still  *)
(* takes for attached.                                                      *)
Lives == INSTANCE WorkerLife WITH
  life <- [w \in Workers |-> IF w \notin up /\ inbox[w] = << >> THEN "down"
                             ELSE IF Connected(w) THEN "subscribed" ELSE "deaf"],
  busy <- {w \in Workers : inbox[w] # << >>}

ImplementsWorkerLife == Lives!Spec

(* A core NATS message is handled by one worker once: no buffered message   *)
(* is an event that was stored already, so no INSERT meets its own row.     *)
CoreHandlesOnce ==
  ~JetStream => \A w \in Workers : \A i \in 1..Len(inbox[w]) :
    inbox[w][i] \in everStored => i = 1 /\ pc[w] # "ready"

(* Rows agree with the message and with the referenced tables whatever      *)
(* order inserts and deletes happen in: a row's account exists, and it      *)
(* names the message's key exactly as long as that key exists.              *)
Attribution ==
  \A e \in Events : row[e] # Absent =>
    /\ msg[e].account \in accounts
    /\ row[e] = IF msg[e].key \in keys THEN msg[e].key ELSE NoKey

AuthorGone(e) == msg[e].account \notin accounts
KeyGone(e) == msg[e].key \notin keys \cup {NoKey}

(* The client was promised that e is going to be stored, and it neither was *)
(* nor became impossible by the deletion of its author or its key.          *)
Awaited(e) ==
  reply[e] = "202" /\ e \notin everStored /\ ~AuthorGone(e) /\ ~KeyGone(e)

(* Every accepted event whose author and key are not deleted, and which has *)
(* a payload, gets stored (CreateEvent: "processed asynchronously by        *)
(* workers"), whichever faults happened, also when other messages fail on   *)
(* every delivery.                                                          *)
AcceptedIsStored == \A e \in Events \ Blank : []<>~Awaited(e)

(* Every replica runs, so that none will be restarted, and none of them is  *)
(* subscribed to the consumer any more.                                     *)
Abandoned == up = Workers /\ attached = {}

(* The same for the events JetStream confirmed only: each one that fits     *)
(* MaxAckPending with all the others is stored in the end, through every    *)
(* fault, with no retry by the client, unless the workers end up running    *)
(* without any subscription. Again and again none is waited for.            *)
StreamedIsStored ==
  []<>(JetStream => Abandoned \/ \A e \in Events \ Blank : ~Awaited(e))
=============================================================================
