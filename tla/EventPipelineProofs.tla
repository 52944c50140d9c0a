------------------------ MODULE EventPipelineProofs ------------------------
(***************************************************************************)
(* Proofs about EventPipeline, for any number of events, accounts, keys,   *)
(* workers and faults and for both brokers.                                *)
(***************************************************************************)
EXTENDS EventPipeline, SequenceTheorems, TLAPS

Published == {e \in Events : reply[e] \in {"sent", "202", "500"}}

(* Only published events are anywhere behind the API, and a message in      *)
(* flight says who sent it, with a key of that account.                     *)
MessagesInv ==
  /\ stream \cup everStored \subseteq Published
  /\ \A w \in Workers : \A i \in 1..Len(inbox[w]) : inbox[w][i] \in Published
  /\ \A e \in Events : reply[e] # "none" =>
       /\ msg[e] \in Identity
       /\ msg[e].key \in Keys => KeyOwner[msg[e].key] = msg[e].account

(* A message nats.go still buffers has reached nobody, and with JetStream   *)
(* its client was refused; one that waits for its confirmation was stored   *)
(* by the stream.                                                           *)
BufferInv ==
  /\ \A e \in buffered : /\ e \notin stream \cup everStored
                         /\ reply[e] = IF JetStream THEN "500" ELSE "202"
  /\ \A w \in Workers : \A i \in 1..Len(inbox[w]) : inbox[w][i] \notin buffered
  /\ \A e \in Events : reply[e] = "sent" => JetStream /\ e \in stream \cup everStored

(* What JetStream delivered and a worker has not answered yet is still in   *)
(* the stream, or was stored by an earlier delivery.                        *)
FlightInv ==
  JetStream => \A w \in Workers : \A i \in 1..Len(inbox[w]) :
                 inbox[w][i] \in stream \cup everStored

(* A handler that did its INSERT has a message, and one that is about to    *)
(* acknowledge has stored it.                                               *)
HandlersInv ==
  \A w \in Workers :
    /\ pc[w] # "ready" => inbox[w] # << >>
    /\ pc[w] = "ok" => Head(inbox[w]) \in everStored

(* The history variable and the table: rows were stored, and a stored event *)
(* lost its row only together with its account.                             *)
HistoryInv ==
  \A e \in Events :
    /\ row[e] # Absent => e \in everStored
    /\ e \in everStored => row[e] # Absent \/ msg[e].account \notin accounts

(* Core NATS keeps nothing: a message is in one place of one buffer, and    *)
(* nowhere once a handler is done with it.                                  *)
CoreInv ==
  ~JetStream =>
    /\ stream = {}
    /\ ~consumer
    /\ \A v, w \in Workers : \A i \in 1..Len(inbox[v]), j \in 1..Len(inbox[w]) :
         inbox[v][i] = inbox[w][j] => v = w /\ i = j

IInv ==
  /\ TypeOK
  /\ MessagesInv
  /\ BufferInv
  /\ FlightInv
  /\ HandlersInv
  /\ HistoryInv
  /\ NoSilentLoss
  /\ Attribution
  /\ CoreInv
  /\ CoreHandlesOnce

-----------------------------------------------------------------------------
(* What delivering to and taking from a buffer does to every buffer. *)

LEMMA DeliverToBuffer ==
  ASSUME inbox \in [Workers -> Seq(Events)],
         NEW w \in Workers, NEW e \in Events,
         inbox' = [inbox EXCEPT ![w] = Append(@, e)]
  PROVE  /\ inbox' \in [Workers -> Seq(Events)]
         /\ \A v \in Workers : inbox[v] # << >> =>
              inbox'[v] # << >> /\ Head(inbox'[v]) = Head(inbox[v])
         /\ \A v \in Workers : \A i \in 1..Len(inbox'[v]) :
              inbox'[v][i] = e \/ \E j \in 1..Len(inbox[v]) : inbox'[v][i] = inbox[v][j]
<1> DEFINE s == inbox[w]
<1>1. /\ Append(s, e) \in Seq(Events)
      /\ Append(s, e) # << >>
      /\ Len(Append(s, e)) = Len(s) + 1
      /\ \A i \in 1..Len(s) : Append(s, e)[i] = s[i]
      /\ Append(s, e)[Len(s) + 1] = e
  BY AppendProperties
<1>2. s # << >> => Head(Append(s, e)) = Head(s)
  <2>1. ASSUME s # << >> PROVE Len(s) \in Nat \ {0}
    BY <2>1, EmptySeq
  <2>. QED  BY <1>1, <2>1
<1>3. \A i \in 1..Len(Append(s, e)) :
        Append(s, e)[i] = e \/ \E j \in 1..Len(s) : Append(s, e)[i] = s[j]
  <2>1. Len(s) \in Nat
    BY LenProperties
  <2>. HIDE DEF s
  <2>. QED  BY <1>1, <2>1
<1>4. \A v \in Workers : inbox'[v] = IF v = w THEN Append(s, e) ELSE inbox[v]
  OBVIOUS
<1>5. inbox' \in [Workers -> Seq(Events)]
  BY <1>1
<1>. HIDE DEF s
<1>6. s = inbox[w]
  BY DEF s
<1>. QED  BY <1>2, <1>3, <1>1, <1>4, <1>5, <1>6

LEMMA TakeFromBuffer ==
  ASSUME inbox \in [Workers -> Seq(Events)],
         NEW w \in Workers, inbox[w] # << >>,
         inbox' = [inbox EXCEPT ![w] = Tail(@)]
  PROVE  /\ inbox' \in [Workers -> Seq(Events)]
         /\ \A v \in Workers \ {w} : inbox'[v] = inbox[v]
         /\ \A v \in Workers : \A i \in 1..Len(inbox'[v]) :
              \E j \in 1..Len(inbox[v]) : inbox'[v][i] = inbox[v][j]
<1> DEFINE s == inbox[w]
<1>1. /\ Tail(s) \in Seq(Events)
      /\ Len(Tail(s)) = Len(s) - 1
      /\ \A i \in 1..Len(Tail(s)) : Tail(s)[i] = s[i + 1]
  BY HeadTailProperties
<1>2. \A i \in 1..Len(Tail(s)) : \E j \in 1..Len(s) : Tail(s)[i] = s[j]
  <2>1. Len(s) \in Nat
    BY LenProperties
  <2>. HIDE DEF s
  <2>. QED  BY <1>1, <2>1
<1>3. \A v \in Workers : inbox'[v] = IF v = w THEN Tail(s) ELSE inbox[v]
  OBVIOUS
<1>4. inbox' \in [Workers -> Seq(Events)]
  BY <1>1
<1>. HIDE DEF s
<1>5. s = inbox[w]
  BY DEF s
<1>. QED  BY <1>2, <1>3, <1>4, <1>5

(* A worker that crashes, stops or loses its connection keeps at most the   *)
(* head of its buffer, and that one only while it is not handled.           *)
Loses(w) == Crash(w) \/ Stop(w) \/ LinkCloses(w)

LEMMA LoseBuffer ==
  ASSUME inbox \in [Workers -> Seq(Events)], pc \in [Workers -> {"ready", "ok", "err"}],
         NEW w \in Workers, Loses(w)
  PROVE  /\ inbox' \in [Workers -> Seq(Events)]
         /\ pc' \in [Workers -> {"ready", "ok", "err"}]
         /\ pc'[w] = "ready"
         /\ \A v \in Workers \ {w} : inbox'[v] = inbox[v] /\ pc'[v] = pc[v]
         /\ inbox'[w] # << >> => inbox[w] # << >> /\ Head(inbox'[w]) = Head(inbox[w])
         /\ \A v \in Workers : \A i \in 1..Len(inbox'[v]) :
              i \in 1..Len(inbox[v]) /\ inbox'[v][i] = inbox[v][i]
<1>0. inbox[w] \in Seq(Events) /\ Len(inbox[w]) \in Nat
  BY LenProperties
<1>1. CASE /\ inbox' = [inbox EXCEPT ![w] = << >>]
           /\ pc' = [pc EXCEPT ![w] = "ready"]
  <2>1. inbox'[w] = << >> /\ 1..Len(inbox'[w]) = {} /\ << >> \in Seq(Events)
    BY <1>1, EmptySeq
  <2>. QED  BY <1>1, <2>1
<1>2. CASE /\ Busy(w)
           /\ inbox' = [inbox EXCEPT ![w] = <<Head(@)>>]
           /\ UNCHANGED pc
  <2>1. /\ inbox[w] # << >>
        /\ 1 \in 1..Len(inbox[w])
        /\ Head(inbox[w]) = inbox[w][1]
        /\ Head(inbox[w]) \in Events
        /\ pc[w] = "ready"
    BY <1>0, <1>2, EmptySeq DEF Busy
  <2>2. /\ inbox'[w] = <<Head(inbox[w])>>
        /\ <<Head(inbox[w])>> \in Seq(Events)
        /\ Len(inbox'[w]) = 1
        /\ Head(inbox'[w]) = Head(inbox[w])
        /\ inbox'[w][1] = inbox[w][1]
    BY <1>2, <2>1
  <2>3. \A i \in 1..Len(inbox'[w]) : i = 1
    BY <2>2
  <2>4. \A v \in Workers \ {w} : inbox'[v] = inbox[v]
    BY <1>2
  <2>5. inbox' \in [Workers -> Seq(Events)]
    BY <1>2, <2>2
  <2>. QED  BY <1>2, <2>1, <2>2, <2>3, <2>4, <2>5
<1>. QED  BY <1>1, <1>2 DEF Loses, Crash, Stop, LinkCloses, DropBuffer

(* The head of a buffer is a published event with a well-formed message. *)
LEMMA HeadIsPublished ==
  ASSUME TypeOK, MessagesInv, NEW w \in Workers, inbox[w] # << >>
  PROVE  /\ Head(inbox[w]) \in Published
         /\ Head(inbox[w]) \in Events
         /\ msg[Head(inbox[w])] \in Identity
         /\ JetStream /\ FlightInv => Head(inbox[w]) \in stream \cup everStored
<1>1. inbox[w] \in Seq(Events)
  BY DEF TypeOK
<1>2. Len(inbox[w]) \in Nat \ {0}
  BY <1>1, EmptySeq
<1>3. Head(inbox[w]) = inbox[w][1] /\ 1 \in 1..Len(inbox[w])
  BY <1>1, <1>2
<1>4. Head(inbox[w]) \in Published
  BY <1>3 DEF MessagesInv
<1>5. JetStream /\ FlightInv => Head(inbox[w]) \in stream \cup everStored
  BY <1>3 DEF FlightInv
<1>. QED  BY <1>4, <1>5 DEF MessagesInv, Published

(* Every step leads to a type-correct state. *)
LEMMA TypeStep ==
  ASSUME IInv, Next
  PROVE  TypeOK'
<1>. USE ConstantsAssumption, NullsAssumption DEF JetStream, db, server, subscription, worker
<1>1. ASSUME NEW e \in Events, NEW a \in Accounts, Receive(e, a)
      PROVE TypeOK'
  BY <1>1 DEF IInv, TypeOK, Identity, Replies, Receive
<1>2. ASSUME NEW e \in Events, PublishToStream(e) PROVE TypeOK'
  BY <1>2 DEF IInv, TypeOK, Replies, PublishToStream
<1>3. ASSUME NEW e \in Events, Confirmed(e) PROVE TypeOK'
  BY <1>3 DEF IInv, TypeOK, Replies, Confirmed
<1>26. ASSUME NEW e \in Events, Unconfirmed(e) PROVE TypeOK'
  BY <1>26 DEF IInv, TypeOK, Replies, Unconfirmed, Fault
<1>22. ASSUME NEW e \in Events, PublishBuffered(e) PROVE TypeOK'
  BY <1>22 DEF IInv, TypeOK, Replies, PublishBuffered, Fault
<1>23. ASSUME NEW e \in Events, FlushToStream(e) PROVE TypeOK'
  BY <1>23 DEF IInv, TypeOK, FlushToStream
<1>24. ASSUME NEW e \in Events, NEW w \in Workers, FlushToSubscriber(e, w)
       PROVE TypeOK'
  BY <1>24, DeliverToBuffer DEF IInv, TypeOK, FlushToSubscriber
<1>25. ASSUME NEW e \in Events, FlushToNobody(e) PROVE TypeOK'
  BY <1>25 DEF IInv, TypeOK, FlushToNobody
<1>4. ASSUME NEW e \in Events, NEW w \in Workers, PublishToSubscriber(e, w)
      PROVE TypeOK'
  BY <1>4, DeliverToBuffer DEF IInv, TypeOK, Replies, PublishToSubscriber
<1>5. ASSUME NEW e \in Events, PublishToNobody(e) PROVE TypeOK'
  BY <1>5 DEF IInv, TypeOK, Replies, PublishToNobody
<1>6. ASSUME NEW e \in Events, PublishError(e) PROVE TypeOK'
  BY <1>6 DEF IInv, TypeOK, Replies, PublishError, Fault
<1>7. ASSUME NEW e \in Events, NEW w \in Workers, DeliverNew(e, w) PROVE TypeOK'
  BY <1>7, DeliverToBuffer DEF IInv, TypeOK, DeliverNew
<1>8. ASSUME NEW e \in Events, NEW w \in Workers, Redeliver(e, w) PROVE TypeOK'
  BY <1>8, DeliverToBuffer DEF IInv, TypeOK, Redeliver
<1>9. ASSUME NEW e \in Events, AckWaitExpires(e) PROVE TypeOK'
  BY <1>9 DEF IInv, TypeOK, AckWaitExpires, Fault
<1>10. ASSUME NEW w \in Workers, Start(w) PROVE TypeOK'
  BY <1>10 DEF IInv, TypeOK, Start
<1>12. ASSUME NEW w \in Workers, Loses(w) PROVE TypeOK'
  <2>1. /\ inbox' \in [Workers -> Seq(Events)]
        /\ pc' \in [Workers -> {"ready", "ok", "err"}]
    BY <1>12, LoseBuffer DEF IInv, TypeOK
  <2>2. /\ UNCHANGED <<broker, db, reply, msg, buffered, stream>>
        /\ faults' \in 0..MaxFaults
    BY <1>12 DEF IInv, TypeOK, Loses, Crash, Stop, LinkCloses, Fault
  <2>3. /\ consumer' \in BOOLEAN
        /\ creator' \in Workers \cup {NoWorker}
        /\ up' \subseteq Workers
    BY <1>12 DEF IInv, TypeOK, Loses, Crash, Stop, LinkCloses
  <2>4. attached' \subseteq up' /\ deaf' \subseteq up'
    BY <1>12 DEF IInv, TypeOK, Loses, Crash, Stop, LinkCloses
  <2>5. /\ pending' \in {{}, pending} /\ redeliver' \in {{}, redeliver}
        /\ pending' = {} => redeliver' = {}
    BY <1>12 DEF IInv, TypeOK, Loses, Crash, Stop, LinkCloses
  <2>6. pending' \subseteq stream' /\ redeliver' \subseteq pending'
    BY <2>2, <2>5 DEF IInv, TypeOK
  <2>. QED  BY <2>1, <2>2, <2>3, <2>4, <2>6 DEF IInv, TypeOK
<1>13. ASSUME NEW w \in Workers, InsertCommits(w) PROVE TypeOK'
  BY <1>13, HeadIsPublished
     DEF IInv, TypeOK, MessagesInv, Identity, Published, InsertCommits, Busy,
         Insertable, CommitInsert
<1>14. ASSUME NEW w \in Workers, InsertRejected(w) PROVE TypeOK'
  BY <1>14 DEF IInv, TypeOK, InsertRejected, Busy
<1>15. ASSUME NEW w \in Workers, InsertBreaks(w) PROVE TypeOK'
  <2>1. /\ UNCHANGED <<broker, accounts, keys, reply, msg, buffered, server,
                      subscription, up, inbox>>
        /\ pc' \in [Workers -> {"ready", "ok", "err"}]
        /\ faults' \in 0..MaxFaults
    BY <1>15 DEF IInv, TypeOK, InsertBreaks, Fault
  <2>2. CASE Insertable(Head(inbox[w])) /\ CommitInsert(Head(inbox[w]))
    <3>1. Head(inbox[w]) \in Events /\ msg[Head(inbox[w])] \in Identity
      BY <1>15, HeadIsPublished DEF IInv, InsertBreaks, Busy
    <3>2. /\ row' \in [Events -> Keys \cup {NoKey, Absent}]
          /\ everStored' \subseteq Events
      BY <2>2, <3>1 DEF IInv, TypeOK, CommitInsert, Identity
    <3>. QED  BY <2>1, <3>2 DEF IInv, TypeOK
  <2>3. CASE UNCHANGED <<row, everStored>>
    BY <2>1, <2>3 DEF IInv, TypeOK
  <2>. QED  BY <1>15, <2>2, <2>3 DEF InsertBreaks
<1>16. ASSUME NEW w \in Workers, Ack(w) PROVE TypeOK'
  BY <1>16, TakeFromBuffer DEF IInv, TypeOK, HandlersInv, Ack, NextMessage
<1>17. ASSUME NEW w \in Workers, Nak(w) PROVE TypeOK'
  BY <1>17, TakeFromBuffer DEF IInv, TypeOK, HandlersInv, Nak, NextMessage
<1>18. ASSUME NEW w \in Workers, AnswerLost(w) PROVE TypeOK'
  BY <1>18, TakeFromBuffer
     DEF IInv, TypeOK, HandlersInv, AnswerLost, NextMessage, Fault
<1>19. ASSUME NEW a \in Accounts, DeleteAccount(a) PROVE TypeOK'
  BY <1>19 DEF IInv, TypeOK, DeleteAccount
<1>20. ASSUME NEW k \in Keys, DeleteKey(k) PROVE TypeOK'
  BY <1>20 DEF IInv, TypeOK, DeleteKey
<1>. QED
  BY <1>1, <1>2, <1>3, <1>4, <1>5, <1>6, <1>7, <1>8, <1>9, <1>10, <1>12,
     <1>13, <1>14, <1>15, <1>16, <1>17, <1>18, <1>19, <1>20, <1>22,
     <1>23, <1>24, <1>25, <1>26
     DEF Loses, Next, Publish, Flush, Insert, Answer

(* Messages get behind the API only by being published. *)
LEMMA MessagesStep ==
  ASSUME IInv, Next
  PROVE  MessagesInv'
<1>. USE ConstantsAssumption, NullsAssumption DEF JetStream, db, server, subscription, worker
<1>1. ASSUME NEW e \in Events, NEW a \in Accounts, Receive(e, a)
      PROVE MessagesInv'
  BY <1>1 DEF IInv, TypeOK, MessagesInv, Published, Identity, Receive
<1>2. ASSUME NEW e \in Events, PublishToStream(e) PROVE MessagesInv'
  BY <1>2 DEF IInv, TypeOK, MessagesInv, Published, PublishToStream
<1>3. ASSUME NEW e \in Events, Confirmed(e) PROVE MessagesInv'
  BY <1>3 DEF IInv, TypeOK, MessagesInv, Published, Confirmed
<1>21. ASSUME NEW e \in Events, Unconfirmed(e) PROVE MessagesInv'
  BY <1>21 DEF IInv, TypeOK, MessagesInv, Published, Unconfirmed, Fault
<1>18. ASSUME NEW e \in Events, PublishBuffered(e) PROVE MessagesInv'
  BY <1>18 DEF IInv, TypeOK, MessagesInv, Published, PublishBuffered, Fault
<1>19. ASSUME NEW e \in Events, FlushToStream(e) PROVE MessagesInv'
  BY <1>19 DEF IInv, TypeOK, MessagesInv, BufferInv, Published, FlushToStream
<1>20. ASSUME NEW e \in Events, NEW w \in Workers, FlushToSubscriber(e, w)
      PROVE MessagesInv'
  BY <1>20, DeliverToBuffer
     DEF IInv, TypeOK, MessagesInv, BufferInv, Published, FlushToSubscriber
<1>4. ASSUME NEW e \in Events, NEW w \in Workers, PublishToSubscriber(e, w)
      PROVE MessagesInv'
  BY <1>4, DeliverToBuffer
     DEF IInv, TypeOK, MessagesInv, Published, PublishToSubscriber
<1>5. ASSUME NEW e \in Events, PublishToNobody(e) PROVE MessagesInv'
  BY <1>5 DEF IInv, TypeOK, MessagesInv, Published, PublishToNobody
<1>6. ASSUME NEW e \in Events, PublishError(e) PROVE MessagesInv'
  BY <1>6 DEF IInv, TypeOK, MessagesInv, Published, PublishError, Fault
<1>7. ASSUME NEW e \in Events, NEW w \in Workers, DeliverNew(e, w)
      PROVE MessagesInv'
  BY <1>7, DeliverToBuffer DEF IInv, TypeOK, MessagesInv, Published, DeliverNew
<1>8. ASSUME NEW e \in Events, NEW w \in Workers, Redeliver(e, w) PROVE MessagesInv'
  BY <1>8, DeliverToBuffer DEF IInv, TypeOK, MessagesInv, Published, Redeliver
<1>11. ASSUME NEW w \in Workers, InsertCommits(w) PROVE MessagesInv'
  BY <1>11, HeadIsPublished
     DEF IInv, TypeOK, MessagesInv, Published, Identity, InsertCommits, Busy,
         Insertable, CommitInsert
<1>12. ASSUME NEW w \in Workers, InsertBreaks(w) PROVE MessagesInv'
  BY <1>12, HeadIsPublished
     DEF IInv, TypeOK, MessagesInv, Published, Identity, InsertBreaks, Busy, Fault,
         Insertable, CommitInsert
<1>13. ASSUME NEW w \in Workers, Ack(w) PROVE MessagesInv'
  BY <1>13, TakeFromBuffer
     DEF IInv, TypeOK, MessagesInv, Published, HandlersInv, Ack, NextMessage
<1>14. ASSUME NEW w \in Workers, Nak(w) PROVE MessagesInv'
  BY <1>14, TakeFromBuffer
     DEF IInv, TypeOK, MessagesInv, Published, HandlersInv, Nak, NextMessage
<1>15. ASSUME NEW w \in Workers, AnswerLost(w) PROVE MessagesInv'
  BY <1>15, TakeFromBuffer
     DEF IInv, TypeOK, MessagesInv, Published, HandlersInv, AnswerLost,
         NextMessage, Fault
<1>16. ASSUME UNCHANGED <<stream, everStored, inbox, reply, msg>> PROVE MessagesInv'
  BY <1>16 DEF IInv, MessagesInv, Published
<1>17. ASSUME NEW w \in Workers, Loses(w) PROVE MessagesInv'
  <2>1. \A v \in Workers : \A i \in 1..Len(inbox'[v]) : inbox'[v][i] \in Published
    BY <1>17, LoseBuffer DEF IInv, TypeOK, MessagesInv
  <2>2. UNCHANGED <<stream, everStored, reply, msg>>
    BY <1>17 DEF Loses, Crash, Stop, LinkCloses
  <2>. QED  BY <2>1, <2>2 DEF IInv, MessagesInv, Published
<1>. QED
  BY <1>1, <1>2, <1>3, <1>4, <1>5, <1>6, <1>7, <1>8, <1>11, <1>12, <1>13,
     <1>14, <1>15, <1>16, <1>17, <1>18, <1>19, <1>20, <1>21
     DEF Loses, Next, Publish, Flush, Insert, Answer, FlushToNobody, AckWaitExpires, Start,
         InsertRejected, DeleteAccount, DeleteKey

(* A buffered message is sent once, and only what the stream stored waits   *)
(* for a confirmation.                                                      *)
LEMMA BufferStep ==
  ASSUME IInv, Next
  PROVE  BufferInv'
<1>. USE ConstantsAssumption, NullsAssumption DEF JetStream, db, server, subscription, worker
<1>1. ASSUME NEW e \in Events, NEW a \in Accounts, Receive(e, a) PROVE BufferInv'
  BY <1>1 DEF IInv, TypeOK, BufferInv, Receive
<1>2. ASSUME NEW e \in Events, PublishToStream(e) PROVE BufferInv'
  BY <1>2 DEF IInv, TypeOK, BufferInv, PublishToStream
<1>3. ASSUME NEW e \in Events, Confirmed(e) \/ Unconfirmed(e) PROVE BufferInv'
  BY <1>3 DEF IInv, TypeOK, BufferInv, Confirmed, Unconfirmed, Fault
<1>4. ASSUME NEW e \in Events, NEW w \in Workers, PublishToSubscriber(e, w)
      PROVE BufferInv'
  BY <1>4, DeliverToBuffer DEF IInv, TypeOK, BufferInv, PublishToSubscriber
<1>5. ASSUME NEW e \in Events, PublishToNobody(e) PROVE BufferInv'
  BY <1>5 DEF IInv, TypeOK, BufferInv, PublishToNobody
<1>6. ASSUME NEW e \in Events, PublishBuffered(e) PROVE BufferInv'
  BY <1>6 DEF IInv, TypeOK, BufferInv, MessagesInv, Published, PublishBuffered, Fault
<1>7. ASSUME NEW e \in Events, PublishError(e) PROVE BufferInv'
  BY <1>7 DEF IInv, TypeOK, BufferInv, PublishError, Fault
<1>8. ASSUME NEW e \in Events, FlushToStream(e) PROVE BufferInv'
  BY <1>8 DEF IInv, TypeOK, BufferInv, FlushToStream
<1>9. ASSUME NEW e \in Events, NEW w \in Workers, FlushToSubscriber(e, w)
      PROVE BufferInv'
  BY <1>9, DeliverToBuffer DEF IInv, TypeOK, BufferInv, FlushToSubscriber
<1>10. ASSUME NEW e \in Events, FlushToNobody(e) PROVE BufferInv'
  BY <1>10 DEF IInv, TypeOK, BufferInv, FlushToNobody
<1>11. ASSUME NEW e \in Events, NEW w \in Workers, DeliverNew(e, w) PROVE BufferInv'
  BY <1>11, DeliverToBuffer DEF IInv, TypeOK, BufferInv, DeliverNew
<1>17. ASSUME NEW e \in Events, NEW w \in Workers, Redeliver(e, w) PROVE BufferInv'
  BY <1>17, DeliverToBuffer DEF IInv, TypeOK, BufferInv, Redeliver
<1>13. ASSUME NEW w \in Workers, Loses(w) PROVE BufferInv'
  <2>1. \A v \in Workers : \A i \in 1..Len(inbox'[v]) :
          i \in 1..Len(inbox[v]) /\ inbox'[v][i] = inbox[v][i]
    BY <1>13, LoseBuffer DEF IInv, TypeOK
  <2>2. UNCHANGED <<broker, buffered, stream, everStored, reply>>
    BY <1>13 DEF Loses, Crash, Stop, LinkCloses
  <2>. QED  BY <2>1, <2>2 DEF IInv, BufferInv
<1>14. ASSUME NEW w \in Workers, Insert(w) PROVE BufferInv'
  <2>1. /\ everStored' \subseteq everStored \cup {Head(inbox[w])}
        /\ everStored \subseteq everStored'
        /\ inbox[w] # << >>
        /\ UNCHANGED <<broker, buffered, stream, reply, inbox>>
    BY <1>14 DEF Insert, InsertCommits, InsertRejected, InsertBreaks, CommitInsert, Busy
  <2>2. Head(inbox[w]) \notin buffered
    <3>1. Head(inbox[w]) = inbox[w][1] /\ 1 \in 1..Len(inbox[w])
      BY <2>1, EmptySeq DEF IInv, TypeOK
    <3>. QED  BY <3>1 DEF IInv, BufferInv
  <2>. QED  BY <2>1, <2>2 DEF IInv, BufferInv
<1>15. ASSUME NEW w \in Workers, Answer(w) PROVE BufferInv'
  <2>1. /\ inbox[w] # << >>
        /\ inbox' = [inbox EXCEPT ![w] = Tail(@)]
        /\ UNCHANGED <<broker, buffered, everStored, reply>>
    BY <1>15 DEF IInv, HandlersInv, Answer, Ack, Nak, AnswerLost, NextMessage
  <2>2. /\ stream' \subseteq stream
        /\ stream \cup everStored \subseteq stream' \cup everStored
    BY <1>15 DEF IInv, HandlersInv, Answer, Ack, Nak, AnswerLost
  <2>. QED  BY <2>1, <2>2, TakeFromBuffer DEF IInv, TypeOK, BufferInv
<1>16. ASSUME UNCHANGED <<broker, buffered, stream, everStored, reply, inbox>> PROVE BufferInv'
  BY <1>16 DEF IInv, BufferInv
<1>. QED
  BY <1>1, <1>2, <1>3, <1>4, <1>5, <1>6, <1>7, <1>8, <1>9, <1>10, <1>11,
     <1>13, <1>14, <1>15, <1>16, <1>17
     DEF Loses, Next, Publish, Flush, AckWaitExpires, Start, DeleteAccount, DeleteKey

(* Only what was stored leaves the stream while it is delivered. *)
LEMMA FlightStep ==
  ASSUME IInv, Next
  PROVE  FlightInv'
<1>. USE ConstantsAssumption DEF JetStream, db, server, subscription, worker
<1>1. ASSUME NEW e \in Events, PublishToStream(e) PROVE FlightInv'
  BY <1>1 DEF IInv, TypeOK, FlightInv, PublishToStream
<1>2. ASSUME NEW e \in Events, FlushToStream(e) PROVE FlightInv'
  BY <1>2 DEF IInv, TypeOK, FlightInv, FlushToStream
<1>3. ASSUME NEW e \in Events, NEW w \in Workers,
             PublishToSubscriber(e, w) \/ FlushToSubscriber(e, w)
      PROVE FlightInv'
  BY <1>3 DEF IInv, TypeOK, FlightInv, PublishToSubscriber, FlushToSubscriber
<1>4. ASSUME NEW e \in Events, NEW w \in Workers, DeliverNew(e, w) PROVE FlightInv'
  BY <1>4, DeliverToBuffer DEF IInv, TypeOK, FlightInv, DeliverNew
<1>5. ASSUME NEW e \in Events, NEW w \in Workers, Redeliver(e, w) PROVE FlightInv'
  BY <1>5, DeliverToBuffer DEF IInv, TypeOK, FlightInv, Redeliver
<1>8. ASSUME NEW w \in Workers, InsertCommits(w) PROVE FlightInv'
  BY <1>8 DEF IInv, TypeOK, FlightInv, InsertCommits, CommitInsert
<1>9. ASSUME NEW w \in Workers, InsertBreaks(w) PROVE FlightInv'
  BY <1>9 DEF IInv, TypeOK, FlightInv, InsertBreaks, Fault, CommitInsert
<1>10. ASSUME NEW w \in Workers, Ack(w) PROVE FlightInv'
  BY <1>10, TakeFromBuffer
     DEF IInv, TypeOK, FlightInv, Ack, NextMessage, HandlersInv
<1>11. ASSUME NEW w \in Workers, Nak(w) PROVE FlightInv'
  BY <1>11, TakeFromBuffer
     DEF IInv, TypeOK, FlightInv, Nak, NextMessage, HandlersInv
<1>12. ASSUME NEW w \in Workers, AnswerLost(w) PROVE FlightInv'
  BY <1>12, TakeFromBuffer
     DEF IInv, TypeOK, FlightInv, AnswerLost, Fault, NextMessage, HandlersInv
<1>13. ASSUME UNCHANGED <<broker, stream, everStored, inbox>> PROVE FlightInv'
  BY <1>13 DEF IInv, FlightInv
<1>14. ASSUME NEW w \in Workers, Loses(w) PROVE FlightInv'
  <2>1. \A v \in Workers : \A i \in 1..Len(inbox'[v]) :
          i \in 1..Len(inbox[v]) /\ inbox'[v][i] = inbox[v][i]
    BY <1>14, LoseBuffer DEF IInv, TypeOK
  <2>2. UNCHANGED <<broker, stream, everStored>>
    BY <1>14 DEF Loses, Crash, Stop, LinkCloses
  <2>. QED  BY <2>1, <2>2 DEF IInv, FlightInv
<1>. QED
  BY <1>1, <1>2, <1>3, <1>4, <1>5, <1>8, <1>9, <1>10, <1>11, <1>12,
     <1>13, <1>14
     DEF Loses, Next, Publish, Flush, Insert, Answer, Receive, Confirmed, Unconfirmed,
         PublishToNobody, PublishBuffered, PublishError, FlushToNobody, AckWaitExpires, Start, InsertRejected, DeleteAccount, DeleteKey

(* A handler acknowledges only after its INSERT committed. *)
LEMMA HandlersStep ==
  ASSUME IInv, Next
  PROVE  HandlersInv'
<1>. USE ConstantsAssumption, NullsAssumption DEF JetStream, db, server, subscription, worker
<1>1. ASSUME NEW e \in Events, NEW w \in Workers,
             PublishToSubscriber(e, w) \/ FlushToSubscriber(e, w)
      PROVE HandlersInv'
  BY <1>1, DeliverToBuffer
     DEF IInv, TypeOK, HandlersInv, PublishToSubscriber, FlushToSubscriber
<1>2. ASSUME NEW e \in Events, NEW w \in Workers, DeliverNew(e, w)
      PROVE HandlersInv'
  BY <1>2, DeliverToBuffer DEF IInv, TypeOK, HandlersInv, DeliverNew
<1>3. ASSUME NEW e \in Events, NEW w \in Workers, Redeliver(e, w) PROVE HandlersInv'
  <2>1. UNCHANGED <<pc, everStored>>
    BY <1>3 DEF Redeliver
  <2>2. \A v \in Workers : inbox[v] # << >> =>
          inbox'[v] # << >> /\ Head(inbox'[v]) = Head(inbox[v])
    BY <1>3, DeliverToBuffer DEF IInv, TypeOK, Redeliver
  <2>. QED  BY <2>1, <2>2 DEF IInv, HandlersInv
<1>6. ASSUME NEW w \in Workers, InsertCommits(w) PROVE HandlersInv'
  BY <1>6, HeadIsPublished
     DEF IInv, TypeOK, HandlersInv, Identity, InsertCommits, Busy, Insertable,
         CommitInsert
<1>7. ASSUME NEW w \in Workers, InsertRejected(w) PROVE HandlersInv'
  BY <1>7 DEF IInv, TypeOK, HandlersInv, InsertRejected, Busy
<1>8. ASSUME NEW w \in Workers, InsertBreaks(w) PROVE HandlersInv'
  BY <1>8, HeadIsPublished
     DEF IInv, TypeOK, HandlersInv, Identity, InsertBreaks, Busy, Fault,
         Insertable, CommitInsert
<1>9. ASSUME NEW w \in Workers, Ack(w) PROVE HandlersInv'
  BY <1>9, TakeFromBuffer DEF IInv, TypeOK, HandlersInv, Ack, NextMessage
<1>10. ASSUME NEW w \in Workers, Nak(w) PROVE HandlersInv'
  BY <1>10, TakeFromBuffer DEF IInv, TypeOK, HandlersInv, Nak, NextMessage
<1>11. ASSUME NEW w \in Workers, AnswerLost(w) PROVE HandlersInv'
  BY <1>11, TakeFromBuffer
     DEF IInv, TypeOK, HandlersInv, AnswerLost, NextMessage, Fault
<1>12. ASSUME UNCHANGED <<pc, inbox, everStored>> PROVE HandlersInv'
  BY <1>12 DEF IInv, HandlersInv, Published
<1>13. ASSUME NEW w \in Workers, Loses(w) PROVE HandlersInv'
  BY <1>13, LoseBuffer DEF IInv, TypeOK, HandlersInv, Loses, Crash, Stop, LinkCloses
<1>. QED
  BY <1>1, <1>2, <1>3, <1>6, <1>7, <1>8, <1>9, <1>10, <1>11, <1>12, <1>13
     DEF Loses, Next, Publish, Flush, Insert, Answer, Receive, PublishToStream, Confirmed,
         Unconfirmed, PublishToNobody, PublishBuffered, PublishError, FlushToStream,
         FlushToNobody, AckWaitExpires, Start, DeleteAccount, DeleteKey

(* Rows come with INSERTs and go with their account. *)
LEMMA HistoryStep ==
  ASSUME IInv, Next
  PROVE  HistoryInv'
<1>. USE ConstantsAssumption, NullsAssumption DEF JetStream, db, server, subscription, worker
<1>1. ASSUME NEW e \in Events, NEW a \in Accounts, Receive(e, a)
      PROVE HistoryInv'
  BY <1>1 DEF IInv, TypeOK, MessagesInv, Published, HistoryInv, Identity, Receive
<1>2. ASSUME NEW w \in Workers, InsertCommits(w) PROVE HistoryInv'
  BY <1>2, HeadIsPublished
     DEF IInv, TypeOK, MessagesInv, Published, HistoryInv, Identity, InsertCommits,
         Busy, Insertable, CommitInsert
<1>3. ASSUME NEW w \in Workers, InsertBreaks(w) PROVE HistoryInv'
  BY <1>3, HeadIsPublished
     DEF IInv, TypeOK, MessagesInv, Published, HistoryInv, Identity, InsertBreaks,
         Busy, Fault, Insertable, CommitInsert
<1>4. ASSUME NEW a \in Accounts, DeleteAccount(a) PROVE HistoryInv'
  BY <1>4 DEF IInv, TypeOK, MessagesInv, Published, HistoryInv, DeleteAccount
<1>5. ASSUME NEW k \in Keys, DeleteKey(k) PROVE HistoryInv'
  BY <1>5 DEF IInv, TypeOK, MessagesInv, Published, HistoryInv, DeleteKey
<1>6. ASSUME UNCHANGED <<row, everStored, msg, accounts>> PROVE HistoryInv'
  BY <1>6 DEF IInv, HistoryInv, Published
<1>. QED
  BY <1>1, <1>2, <1>3, <1>4, <1>5, <1>6
     DEF Next, Publish, Flush, Insert, Answer, PublishToStream, Confirmed,
         Unconfirmed, PublishToSubscriber, PublishToNobody, PublishBuffered,
         PublishError, FlushToStream, FlushToSubscriber, FlushToNobody, DeliverNew,
         Redeliver,
         AckWaitExpires, Start, Crash, Stop, LinkCloses, InsertRejected, Ack, Nak, AnswerLost,
         NextMessage

(* Only an acknowledgement takes a message out of the stream. *)
LEMMA NoSilentLossStep ==
  ASSUME IInv, Next
  PROVE  NoSilentLoss'
<1>. USE ConstantsAssumption, NullsAssumption DEF JetStream, db, server, subscription, worker
<1>1. ASSUME NEW e \in Events, NEW a \in Accounts, Receive(e, a)
      PROVE NoSilentLoss'
  BY <1>1 DEF IInv, TypeOK, HandlersInv, NoSilentLoss, Identity, Receive
<1>2. ASSUME NEW e \in Events, PublishToStream(e) PROVE NoSilentLoss'
  BY <1>2 DEF IInv, TypeOK, HandlersInv, NoSilentLoss, PublishToStream
<1>3. ASSUME NEW e \in Events, Confirmed(e) \/ Unconfirmed(e) PROVE NoSilentLoss'
  BY <1>3 DEF IInv, TypeOK, BufferInv, NoSilentLoss, Confirmed, Unconfirmed, Fault
<1>11. ASSUME NEW e \in Events, PublishBuffered(e) PROVE NoSilentLoss'
  BY <1>11 DEF IInv, TypeOK, NoSilentLoss, PublishBuffered, Fault
<1>12. ASSUME NEW e \in Events, FlushToStream(e) PROVE NoSilentLoss'
  BY <1>12 DEF IInv, TypeOK, NoSilentLoss, FlushToStream
<1>4. ASSUME NEW e \in Events, NEW w \in Workers, PublishToSubscriber(e, w)
      PROVE NoSilentLoss'
  BY <1>4 DEF IInv, TypeOK, HandlersInv, NoSilentLoss, PublishToSubscriber
<1>5. ASSUME NEW e \in Events, PublishToNobody(e) PROVE NoSilentLoss'
  BY <1>5 DEF IInv, TypeOK, HandlersInv, NoSilentLoss, PublishToNobody
<1>6. ASSUME NEW e \in Events, PublishError(e) PROVE NoSilentLoss'
  BY <1>6 DEF IInv, TypeOK, HandlersInv, NoSilentLoss, PublishError, Fault
<1>7. ASSUME NEW w \in Workers, InsertCommits(w) PROVE NoSilentLoss'
  BY <1>7, HeadIsPublished
     DEF IInv, TypeOK, HandlersInv, NoSilentLoss, MessagesInv, Identity,
         InsertCommits, Busy, Insertable, CommitInsert
<1>8. ASSUME NEW w \in Workers, InsertBreaks(w) PROVE NoSilentLoss'
  BY <1>8, HeadIsPublished
     DEF IInv, TypeOK, HandlersInv, NoSilentLoss, MessagesInv, Identity,
         InsertBreaks, Busy, Fault, Insertable, CommitInsert
<1>9. ASSUME NEW w \in Workers, Ack(w) PROVE NoSilentLoss'
  BY <1>9 DEF IInv, TypeOK, HandlersInv, NoSilentLoss, Ack, NextMessage
<1>10. ASSUME UNCHANGED <<broker, reply, stream, everStored>> PROVE NoSilentLoss'
  BY <1>10 DEF IInv, NoSilentLoss, Published
<1>. QED
  BY <1>1, <1>2, <1>3, <1>4, <1>5, <1>6, <1>7, <1>8, <1>9, <1>10,
     <1>11, <1>12
     DEF Next, Publish, Flush, Insert, Answer, FlushToSubscriber, FlushToNobody, DeliverNew, Redeliver, AckWaitExpires,
         Start, Crash, Stop, LinkCloses, InsertRejected, Nak, AnswerLost, DeleteAccount,
         DeleteKey, NextMessage

(* Deletes and inserts keep the rows and what they reference in step. *)
LEMMA AttributionStep ==
  ASSUME IInv, Next
  PROVE  Attribution'
<1>. USE ConstantsAssumption, NullsAssumption DEF JetStream, db, server, subscription, worker
<1>1. ASSUME NEW e \in Events, NEW a \in Accounts, Receive(e, a)
      PROVE Attribution'
  BY <1>1
     DEF IInv, TypeOK, MessagesInv, Published, Attribution, HistoryInv, Identity,
         Receive
<1>2. ASSUME NEW w \in Workers, InsertCommits(w) PROVE Attribution'
  BY <1>2, HeadIsPublished
     DEF IInv, TypeOK, MessagesInv, Published, Attribution, HistoryInv, Identity,
         InsertCommits, Busy, Insertable, CommitInsert
<1>3. ASSUME NEW w \in Workers, InsertBreaks(w) PROVE Attribution'
  BY <1>3, HeadIsPublished
     DEF IInv, TypeOK, MessagesInv, Published, Attribution, HistoryInv, Identity,
         InsertBreaks, Busy, Fault, Insertable, CommitInsert
<1>4. ASSUME NEW a \in Accounts, DeleteAccount(a) PROVE Attribution'
  BY <1>4
     DEF IInv, TypeOK, MessagesInv, Published, Attribution, HistoryInv,
         DeleteAccount
<1>5. ASSUME NEW k \in Keys, DeleteKey(k) PROVE Attribution'
  BY <1>5
     DEF IInv, TypeOK, MessagesInv, Published, Attribution, HistoryInv, DeleteKey
<1>6. ASSUME UNCHANGED <<row, msg, accounts, keys>> PROVE Attribution'
  BY <1>6 DEF IInv, Attribution, Published
<1>. QED
  BY <1>1, <1>2, <1>3, <1>4, <1>5, <1>6
     DEF Next, Publish, Flush, Insert, Answer, PublishToStream, Confirmed,
         Unconfirmed, PublishToSubscriber, PublishToNobody, PublishBuffered,
         PublishError, FlushToStream, FlushToSubscriber, FlushToNobody, DeliverNew,
         Redeliver,
         AckWaitExpires, Start, Crash, Stop, LinkCloses, InsertRejected, Ack, Nak, AnswerLost,
         NextMessage

LEMMA BrokerIsFixed ==
  ASSUME Next
  PROVE  broker' = broker
BY DEF Next, Publish, Flush, Insert, Answer, Receive, PublishToStream, Confirmed,
   Unconfirmed, PublishToSubscriber, PublishToNobody, PublishBuffered, PublishError,
   FlushToStream, FlushToSubscriber, FlushToNobody,
   DeliverNew, Redeliver, AckWaitExpires, Start, Crash, Stop, LinkCloses, InsertCommits,
   InsertRejected, InsertBreaks, Ack, Nak, AnswerLost, NextMessage,
   DeleteAccount, DeleteKey

(* With core NATS nothing but a publish puts a message into a buffer. *)
LEMMA CoreStep ==
  ASSUME IInv, Next
  PROVE  CoreInv' /\ CoreHandlesOnce'
<1>. USE ConstantsAssumption, NullsAssumption DEF JetStream, db, server, subscription, worker
<1>. SUFFICES ASSUME ~JetStream, ~JetStream' PROVE CoreInv' /\ CoreHandlesOnce'
  BY BrokerIsFixed DEF CoreInv, CoreHandlesOnce
<1>0. inbox \in [Workers -> Seq(Events)] /\ pc \in [Workers -> {"ready", "ok", "err"}]
  BY DEF IInv, TypeOK
<1>00. \A w \in Workers : inbox[w] \in Seq(Events) /\ Len(inbox[w]) \in Nat
  BY <1>0, LenProperties
<1>1. ASSUME NEW e \in Events, NEW w \in Workers,
             PublishToSubscriber(e, w) \/ FlushToSubscriber(e, w)
      PROVE CoreInv' /\ CoreHandlesOnce'
  <2>1. /\ \A v \in Workers : \A i \in 1..Len(inbox[v]) : inbox[v][i] # e
        /\ e \notin everStored
    BY <1>1
       DEF IInv, MessagesInv, BufferInv, Published, PublishToSubscriber, FlushToSubscriber
  <2>2. /\ \A v \in Workers \ {w} : inbox'[v] = inbox[v]
        /\ inbox'[w] = Append(inbox[w], e)
    BY <1>1, <1>0 DEF PublishToSubscriber, FlushToSubscriber
  <2>3. /\ Len(inbox'[w]) = Len(inbox[w]) + 1
        /\ \A i \in 1..Len(inbox[w]) : inbox'[w][i] = inbox[w][i]
        /\ inbox'[w][Len(inbox[w]) + 1] = e
    BY <2>2, <1>00, AppendProperties
  <2>. DEFINE New(v, i) == v = w /\ i = Len(inbox[w]) + 1 /\ inbox'[v][i] = e
              Old(v, i) == i \in 1..Len(inbox[v]) /\ inbox'[v][i] = inbox[v][i]
  <2>7. \A v \in Workers : \A i \in 1..Len(inbox'[v]) : New(v, i) \/ Old(v, i)
    BY <2>2, <2>3, <1>00
  <2>4. UNCHANGED <<stream, consumer, everStored, pc>>
    BY <1>1 DEF PublishToSubscriber, FlushToSubscriber
  <2>8. ASSUME NEW u \in Workers, NEW v \in Workers,
               NEW i \in 1..Len(inbox'[u]), NEW j \in 1..Len(inbox'[v]),
               inbox'[u][i] = inbox'[v][j]
        PROVE  u = v /\ i = j
    <3>1. (New(u, i) \/ Old(u, i)) /\ (New(v, j) \/ Old(v, j))
      BY <2>7
    <3>2. CASE New(u, i) /\ New(v, j)
      BY <3>2
    <3>3. CASE Old(u, i) /\ Old(v, j)
      <4>1. /\ i \in 1..Len(inbox[u]) /\ j \in 1..Len(inbox[v])
            /\ inbox[u][i] = inbox[v][j]
        BY <3>3, <2>8
      <4>. HIDE DEF New, Old
      <4>. QED  BY <4>1 DEF IInv, CoreInv
    <3>4. CASE New(u, i) /\ Old(v, j)
      BY <3>4, <2>8, <2>1
    <3>5. CASE Old(u, i) /\ New(v, j)
      BY <3>5, <2>8, <2>1
    <3>. QED  BY <3>1, <3>2, <3>3, <3>4, <3>5
  <2>5. CoreInv'
    BY <2>4, <2>8 DEF IInv, CoreInv
  <2>6. CoreHandlesOnce'
    BY <2>1, <2>4, <2>7 DEF IInv, CoreHandlesOnce
  <2>. QED  BY <2>5, <2>6
<1>3. ASSUME NEW w \in Workers, Busy(w), pc' \in {[pc EXCEPT ![w] = "ok"], [pc EXCEPT ![w] = "err"]},
             UNCHANGED <<inbox, stream, consumer>>,
             everStored' \subseteq everStored \cup {Head(inbox[w])}
      PROVE CoreInv' /\ CoreHandlesOnce'
  <2>1. /\ 1 \in 1..Len(inbox[w])
        /\ Head(inbox[w]) = inbox[w][1]
    BY <1>3, <1>00, EmptySeq DEF Busy
  <2>2. pc'[w] # "ready" /\ \A v \in Workers \ {w} : pc'[v] = pc[v]
    BY <1>3, <1>0
  <2>3. \A v \in Workers : \A i \in 1..Len(inbox[v]) :
          inbox[v][i] = Head(inbox[w]) => v = w /\ i = 1
    BY <2>1 DEF IInv, CoreInv
  <2>4. CoreInv'
    BY <1>3 DEF IInv, CoreInv
  <2>5. CoreHandlesOnce'
    BY <1>3, <2>2, <2>3 DEF IInv, CoreHandlesOnce
  <2>. QED  BY <2>4, <2>5
<1>4. ASSUME NEW w \in Workers, inbox[w] # << >>, NextMessage(w),
             stream' \subseteq stream
      PROVE CoreInv' /\ CoreHandlesOnce'
  <2>1. /\ \A v \in Workers \ {w} : inbox'[v] = inbox[v] /\ pc'[v] = pc[v]
        /\ inbox'[w] = Tail(inbox[w])
        /\ UNCHANGED <<consumer, everStored>>
    BY <1>4, <1>0 DEF NextMessage
  <2>2. /\ Len(inbox'[w]) = Len(inbox[w]) - 1
        /\ \A i \in 1..Len(inbox'[w]) :
             i + 1 \in 1..Len(inbox[w]) /\ inbox'[w][i] = inbox[w][i + 1]
    BY <2>1, <1>4, <1>00, HeadTailProperties
  <2>3. \A i \in 1..Len(inbox'[w]) : i \in Nat \ {0} /\ i + 1 # 1
    BY <2>2, <1>00
  <2>. DEFINE was(v, i) == IF v = w THEN i + 1 ELSE i
  <2>6. \A v \in Workers : \A i \in 1..Len(inbox'[v]) :
          was(v, i) \in 1..Len(inbox[v]) /\ inbox'[v][i] = inbox[v][was(v, i)]
    BY <2>1, <2>2
  <2>7. \A v \in Workers : \A i, j \in Int : was(v, i) = was(v, j) => i = j
    OBVIOUS
  <2>8. stream' = {} /\ ~consumer'
    BY <1>4, <2>1 DEF IInv, CoreInv
  <2>9. ASSUME NEW u \in Workers, NEW v \in Workers,
               NEW i \in 1..Len(inbox'[u]), NEW j \in 1..Len(inbox'[v]),
               inbox'[u][i] = inbox'[v][j]
        PROVE  u = v /\ i = j
    <3>1. /\ was(u, i) \in 1..Len(inbox[u]) /\ was(v, j) \in 1..Len(inbox[v])
          /\ inbox[u][was(u, i)] = inbox[v][was(v, j)]
      BY <2>6, <2>9
    <3>. HIDE DEF was
    <3>2. u = v /\ was(u, i) = was(v, j)
      BY <3>1 DEF IInv, CoreInv
    <3>. QED  BY <3>2, <2>7
  <2>4. CoreInv'
    BY <2>8, <2>9 DEF CoreInv
  <2>5. CoreHandlesOnce'
    <3>. SUFFICES ASSUME NEW v \in Workers, NEW i \in 1..Len(inbox'[v]),
                         inbox'[v][i] \in everStored
                  PROVE  i = 1 /\ pc'[v] # "ready"
      BY <2>1 DEF CoreHandlesOnce
    <3>1. was(v, i) = 1 /\ pc[v] # "ready"
      BY <2>6 DEF IInv, CoreHandlesOnce
    <3>2. v # w
      BY <3>1, <2>3
    <3>. QED  BY <3>1, <3>2, <2>1
  <2>. QED  BY <2>4, <2>5
<1>7. ASSUME NEW w \in Workers, Insert(w) PROVE CoreInv' /\ CoreHandlesOnce'
  BY <1>3, <1>7 DEF Insert, InsertCommits, InsertRejected, InsertBreaks, CommitInsert, Busy
<1>8. ASSUME NEW w \in Workers, Answer(w) PROVE CoreInv' /\ CoreHandlesOnce'
  BY <1>4, <1>8 DEF IInv, HandlersInv, Answer, Ack, Nak, AnswerLost
<1>9. CASE UNCHANGED <<stream, consumer, inbox, pc, everStored>>
  BY <1>9 DEF IInv, CoreInv, CoreHandlesOnce
<1>10. ASSUME NEW w \in Workers, Loses(w) PROVE CoreInv' /\ CoreHandlesOnce'
  <2>1. \A v \in Workers : pc[v] # "ready" /\ inbox'[v] # << >> => pc'[v] = pc[v]
    BY <1>10, <1>0 DEF Loses, Crash, Stop, LinkCloses, DropBuffer, Busy
  <2>2. \A v \in Workers : 1..Len(inbox'[v]) # {} => inbox'[v] # << >>
    OBVIOUS
  <2>3. UNCHANGED <<stream, everStored>> /\ (consumer' => consumer)
    BY <1>10 DEF Loses, Crash, Stop, LinkCloses
  <2>4. CoreInv'
    BY <1>0, <1>10, <2>3, LoseBuffer DEF IInv, CoreInv
  <2>5. CoreHandlesOnce'
    <3>. SUFFICES ASSUME NEW v \in Workers, NEW i \in 1..Len(inbox'[v]),
                         inbox'[v][i] \in everStored
                  PROVE  i = 1 /\ pc'[v] # "ready"
      BY <2>3 DEF CoreHandlesOnce
    <3>1. i \in 1..Len(inbox[v]) /\ inbox[v][i] \in everStored
      BY <1>0, <1>10, LoseBuffer
    <3>2. i = 1 /\ pc[v] # "ready"
      BY <3>1 DEF IInv, CoreHandlesOnce
    <3>3. inbox'[v] # << >>
      BY <2>2
    <3>. QED  BY <2>1, <3>2, <3>3
  <2>. QED  BY <2>4, <2>5
<1>. QED
  BY <1>1, <1>7, <1>8, <1>9, <1>10
     DEF Loses, IInv, CoreInv, Next, Publish, Flush, Receive, PublishToStream, Confirmed,
         Unconfirmed, PublishToNobody, PublishBuffered, PublishError, FlushToStream,
         FlushToNobody, DeliverNew, Redeliver, AckWaitExpires, Start,
         DeleteAccount, DeleteKey

(* IInv is an inductive invariant. *)
THEOREM Invariance == Spec => []IInv
<1>1. Init => IInv
  <2>. SUFFICES ASSUME Init PROVE IInv
    OBVIOUS
  <2>1. TypeOK
    <3>1. << >> \in Seq(Events)
      BY EmptySeq
    <3>2. inbox \in [Workers -> Seq(Events)]
      BY <3>1 DEF Init
    <3>3. MaxFaults \in Nat
      BY ConstantsAssumption
    <3>4. /\ row \in [Events -> Keys \cup {NoKey, Absent}]
          /\ reply \in [Events -> Replies]
          /\ msg \in [Events -> Identity \cup {NoMsg}]
          /\ pc \in [Workers -> {"ready", "ok", "err"}]
      BY DEF Init, Replies
    <3>5. consumer \in BOOLEAN /\ creator \in Workers \cup {NoWorker}
      BY DEF Init
    <3>6. faults \in 0..MaxFaults
      BY <3>3 DEF Init
    <3>. QED  BY <3>2, <3>4, <3>5, <3>6, Zenon DEF Init, TypeOK
  <2>2. MessagesInv /\ BufferInv /\ FlightInv /\ HandlersInv
    BY DEF Init, MessagesInv, BufferInv, FlightInv, HandlersInv
  <2>3. HistoryInv /\ NoSilentLoss /\ Attribution
    BY NullsAssumption DEF Init, HistoryInv, NoSilentLoss, Attribution
  <2>4. CoreInv /\ CoreHandlesOnce
    BY DEF Init, CoreInv, CoreHandlesOnce
  <2>. QED  BY <2>1, <2>2, <2>3, <2>4 DEF IInv
<1>2. IInv /\ [Next]_vars => IInv'
  <2>1. ASSUME IInv, Next PROVE IInv'
    BY <2>1, TypeStep, MessagesStep, BufferStep, FlightStep, HandlersStep, HistoryStep,
       NoSilentLossStep, AttributionStep, CoreStep DEF IInv
  <2>2. ASSUME IInv, UNCHANGED vars PROVE IInv'
    BY <2>2 DEF IInv, TypeOK, MessagesInv, BufferInv, FlightInv, HandlersInv, HistoryInv,
       NoSilentLoss, Attribution, CoreInv, CoreHandlesOnce, JetStream, Published,
       vars, db, server, subscription, worker
  <2>. QED  BY <2>1, <2>2
<1>. QED  BY <1>1, <1>2, PTL DEF Spec

(* The state is always type-correct. *)
THEOREM TypeCorrectness == Spec => []TypeOK
<1>1. IInv => TypeOK
  BY DEF IInv
<1>. QED  BY <1>1, Invariance, PTL

(* No accepted event leaves JetStream's stream before it was stored. *)
THEOREM NoLoss == Spec => []NoSilentLoss
<1>1. IInv => NoSilentLoss
  BY DEF IInv
<1>. QED  BY <1>1, Invariance, PTL

(* Stored rows agree with their message and with the tables they reference. *)
THEOREM RowsAttributed == Spec => []Attribution
<1>1. IInv => Attribution
  BY DEF IInv
<1>. QED  BY <1>1, Invariance, PTL

(* With core NATS a message is handled once: none that was stored waits.    *)
THEOREM CoreHandlesEachOnce == Spec => []CoreHandlesOnce
<1>1. IInv => CoreHandlesOnce
  BY DEF IInv
<1>. QED  BY <1>1, Invariance, PTL

(* A redelivered event is never stored a second time, with either broker:   *)
(* its row is still there, or its account is gone for good.                 *)
THEOREM StoresAtMostOnce == Spec => StoredOnce
<1> DEFINE A == \A e \in everStored : row[e] = Absent => row'[e] = Absent
<1>1. ASSUME IInv, Next PROVE A
  <2>. SUFFICES ASSUME NEW e \in everStored, row[e] = Absent PROVE row'[e] = Absent
    OBVIOUS
  <2>1. e \in Events /\ msg[e].account \notin accounts
    BY <1>1 DEF IInv, TypeOK, HistoryInv
  <2>2. ASSUME NEW w \in Workers, inbox[w] # << >>, Insertable(Head(inbox[w])),
               CommitInsert(Head(inbox[w]))
        PROVE  row'[e] = Absent
    BY <2>1, <2>2, <1>1 DEF IInv, TypeOK, Insertable, CommitInsert
  <2>3. ASSUME NEW a \in Accounts, DeleteAccount(a) PROVE row'[e] = Absent
    BY <2>1, <2>3 DEF DeleteAccount
  <2>4. ASSUME NEW k \in Keys, DeleteKey(k) PROVE row'[e] = Absent
    BY <2>1, <2>4, NullsAssumption DEF DeleteKey
  <2>5. CASE UNCHANGED row
    BY <2>5
  <2>. QED
    BY <1>1, <2>2, <2>3, <2>4, <2>5
       DEF Next, Publish, Flush, Insert, Answer, Receive, PublishToStream, Confirmed,
           Unconfirmed, PublishToSubscriber, PublishToNobody, PublishBuffered,
           PublishError, FlushToStream, FlushToSubscriber, FlushToNobody, DeliverNew,
           Redeliver,
           AckWaitExpires, Start, Crash, Stop, LinkCloses, InsertCommits, InsertRejected,
              InsertBreaks,
           Busy, Ack, Nak, AnswerLost, NextMessage, db
<1>2. IInv /\ [Next]_vars => [A]_vars
  BY <1>1
<1>. QED  BY <1>2, Invariance, PTL DEF Spec, StoredOnce

-----------------------------------------------------------------------------
(* With JetStream the pipeline keeps the promise of EventDelivery: storing  *)
(* a message queues the event, whether its client still waits for an answer *)
(* or was refused already, a confirmation accepts it, a committed INSERT    *)
(* stores a queued event, and no other step, delivery, answer or fault is   *)
(* visible to the client.                                                   *)
THEOREM DeliveryRefinement == Spec => ImplementsDelivery
<1>1. Init => Delivery!Init
  BY NullsAssumption DEF Init, Delivery!Init
<1>2. ASSUME IInv, Next, ~JetStream PROVE UNCHANGED Delivery!vars
  <2>1. ~JetStream' /\ stream = {} /\ stream' = {}
    BY <1>2, BrokerIsFixed, CoreStep DEF IInv, CoreInv, JetStream
  <2>. QED  BY <1>2, <2>1 DEF Delivery!vars
<1>3. ASSUME IInv, Next, JetStream PROVE [Delivery!Next]_(Delivery!vars)
  <2>. USE <1>3 DEF db, server, subscription, worker
  <2>0. JetStream'
    BY BrokerIsFixed DEF JetStream
  <2>1. ASSUME NEW e \in Events, PublishToStream(e) \/ FlushToStream(e)
        PROVE  Delivery!Next
    <3>1. /\ e \notin stream \cup everStored
          /\ reply[e] \in {"open", "500"}
          /\ \/ reply' = reply
             \/ reply[e] = "open" /\ reply' = [reply EXCEPT ![e] = "sent"]
      BY <2>1 DEF IInv, MessagesInv, BufferInv, Published, PublishToStream, FlushToStream
    <3>2. stream' = stream \cup {e} /\ everStored' = everStored
      BY <2>1 DEF PublishToStream, FlushToStream
    <3>3. Delivery!Queue(e)
      BY <2>0, <3>1, <3>2 DEF IInv, TypeOK, Delivery!Queue
    <3>. QED  BY <3>3 DEF Delivery!Next
  <2>2. ASSUME NEW e \in Events, Confirmed(e) PROVE Delivery!Next
    <3>1. Delivery!Accept(e)
      BY <2>0, <2>2 DEF IInv, TypeOK, BufferInv, Confirmed, Delivery!Accept
    <3>. QED  BY <3>1 DEF Delivery!Next
  <2>3. ASSUME NEW e \in Events, Unconfirmed(e) \/ PublishBuffered(e) PROVE Delivery!Next
    <3>1. Delivery!Refuse(e)
      BY <2>0, <2>3 DEF IInv, TypeOK, Unconfirmed, PublishBuffered, Delivery!Refuse
    <3>. QED  BY <3>1 DEF Delivery!Next
  <2>4. ASSUME NEW e \in Events, PublishError(e) PROVE Delivery!Next
    <3>1. Delivery!Refuse(e)
      BY <2>0, <2>4 DEF IInv, TypeOK, PublishError, Delivery!Refuse
    <3>. QED  BY <3>1 DEF Delivery!Next
  <2>5. ASSUME NEW w \in Workers, Busy(w), Insertable(Head(inbox[w])),
               CommitInsert(Head(inbox[w])), UNCHANGED <<stream, reply>>
        PROVE  Delivery!Next
    <3>1. /\ Head(inbox[w]) \in Events
          /\ Head(inbox[w]) \in stream \cup everStored
      BY <2>0, <2>5, HeadIsPublished DEF IInv, Busy
    <3>2. PICK e \in Events : e = Head(inbox[w])
      BY <3>1
    <3>3. e \in stream \ everStored
      BY <2>0, <2>5, <3>1, <3>2 DEF IInv, HistoryInv, Insertable
    <3>4. everStored' = everStored \cup {e}
      BY <2>0, <2>5, <3>2 DEF CommitInsert
    <3>5. Delivery!Store(e)
      BY <2>0, <2>5, <3>3, <3>4 DEF Delivery!Store
    <3>. QED  BY <3>5 DEF Delivery!Next
  <2>6. ASSUME NEW w \in Workers, Ack(w) PROVE UNCHANGED Delivery!vars
    <3>1. Head(inbox[w]) \in everStored
      BY <2>0, <2>6 DEF IInv, HandlersInv, Ack
    <3>. QED
      BY <2>0, <2>6, <3>1 DEF Ack, NextMessage, Delivery!vars
  <2>7. ASSUME NEW e \in Events, reply[e] = "none", UNCHANGED <<stream,
     everStored>>,
               reply' = [reply EXCEPT ![e] = "open"]
        PROVE  UNCHANGED Delivery!vars
    BY <2>0, <2>7 DEF IInv, TypeOK, Delivery!vars
  <2>8. CASE UNCHANGED <<stream, everStored, reply>>
    BY <2>0, <2>8 DEF Delivery!vars
  <2>. QED
    BY <2>0, <2>1, <2>2, <2>3, <2>4, <2>5, <2>6, <2>7, <2>8
       DEF Next, Publish, Flush, Insert, Answer, Receive, PublishToSubscriber,
           PublishToNobody, FlushToSubscriber, FlushToNobody, DeliverNew, Redeliver, AckWaitExpires, Start, Crash, Stop, LinkCloses, InsertCommits,
           InsertRejected, InsertBreaks, Nak, AnswerLost, NextMessage,
           DeleteAccount, DeleteKey, vars
<1>4. IInv /\ [Next]_vars => [Delivery!Next]_(Delivery!vars)
  <2>1. UNCHANGED vars => UNCHANGED Delivery!vars
    BY DEF vars, db, server, Delivery!vars, JetStream
  <2>. QED  BY <1>2, <1>3, <2>1
<1>. QED  BY <1>1, <1>4, Invariance, PTL DEF Spec, ImplementsDelivery, Delivery!Spec

-----------------------------------------------------------------------------
(* The workers live as WorkerLife says: only a subscribed worker is given   *)
(* messages, and one whose connection was closed, by nats.go or by its own  *)
(* shutdown, gets none until its process ended.                             *)
DeafInv == attached \cap deaf = {}

LifeOf(w) == IF w \notin up /\ inbox[w] = << >> THEN "down"
             ELSE IF Connected(w) THEN "subscribed" ELSE "deaf"
LifeOfAll == [w \in Workers |-> LifeOf(w)]
BusyAll == {w \in Workers : inbox[w] # << >>}

LEMMA DeafStep == TypeOK /\ DeafInv /\ [Next]_vars => DeafInv'
<1>. SUFFICES ASSUME TypeOK, DeafInv, [Next]_vars PROVE DeafInv'
  OBVIOUS
<1>. USE DEF DeafInv, subscription, TypeOK
<1>1. ASSUME NEW w \in Workers, Start(w) PROVE DeafInv'
  BY <1>1 DEF Start
<1>2. ASSUME NEW w \in Workers, Crash(w) \/ Stop(w) PROVE DeafInv'
  BY <1>2 DEF Crash, Stop
<1>3. ASSUME NEW w \in Workers, LinkCloses(w) PROVE DeafInv'
  BY <1>3 DEF LinkCloses
<1>4. CASE UNCHANGED subscription
  BY <1>4
<1>. QED
  BY <1>1, <1>2, <1>3, <1>4
     DEF Next, Receive, Publish, Flush, PublishToStream, Confirmed, Unconfirmed,
         PublishToSubscriber, PublishToNobody, PublishBuffered, PublishError,
         FlushToStream, FlushToSubscriber, FlushToNobody, DeliverNew, Redeliver, AckWaitExpires, Insert,
         InsertCommits, InsertRejected, InsertBreaks, Answer, Ack, Nak, AnswerLost,
         NextMessage, DeleteAccount, DeleteKey, vars

(* Steps that neither start nor end a worker nor close its link. *)
LEMMA DeliveryIsATake ==
  ASSUME TypeOK, DeafInv, NEW w \in Workers, NEW e \in Events, w \in attached,
         inbox' = [inbox EXCEPT ![w] = Append(@, e)], UNCHANGED <<up, deaf>>
  PROVE  Lives!Next
<1>1. BusyAll' = BusyAll \cup {w}
  <2>1. \A v \in Workers \ {w} : inbox'[v] = inbox[v]
    BY DEF TypeOK
  <2>2. inbox'[w] # << >>
    BY AppendProperties DEF TypeOK
  <2>. QED  BY <2>1, <2>2 DEF BusyAll
<1>2. LifeOf(w) = "subscribed" /\ UNCHANGED LifeOfAll
  <2>1. Connected(w) /\ Connected(w)'
    BY DEF Connected, DeafInv, TypeOK
  <2>2. \A v \in Workers : LifeOf(v)' = LifeOf(v)
    BY <2>1 DEF LifeOf, Connected, TypeOK
  <2>. QED  BY <2>1, <2>2 DEF LifeOf, LifeOfAll, Connected
<1>3. Lives!Take(w)
  BY <1>1, <1>2 DEF Lives!Take, LifeOfAll, BusyAll, LifeOf
<1>. QED  BY <1>3 DEF Lives!Next

LEMMA AnswerFinishes ==
  ASSUME IInv, NEW w \in Workers, Answer(w)
  PROVE  [Lives!Next]_(Lives!vars)
<1>1. /\ inbox' = [inbox EXCEPT ![w] = Tail(@)] /\ up' = up /\ deaf' = deaf
      /\ inbox[w] # << >>
  BY DEF Answer, Ack, Nak, AnswerLost, NextMessage, subscription, IInv, HandlersInv
<1>2. \A v \in Workers \ {w} : inbox'[v] = inbox[v] /\ LifeOf(v)' = LifeOf(v)
  BY <1>1 DEF IInv, TypeOK, LifeOf, Connected
<1>3. CASE inbox'[w] # << >>
  <2>1. BusyAll' = BusyAll /\ LifeOf(w)' = LifeOf(w)
    BY <1>1, <1>2, <1>3 DEF BusyAll, LifeOf, Connected
  <2>2. UNCHANGED LifeOfAll
    BY <1>2, <2>1 DEF LifeOfAll
  <2>. QED  BY <2>1, <2>2 DEF Lives!vars, LifeOfAll, BusyAll, LifeOf
<1>4. CASE inbox'[w] = << >> /\ w \in up
  <2>1. BusyAll' = BusyAll \ {w} /\ LifeOf(w)' = LifeOf(w)
    BY <1>1, <1>2, <1>4 DEF BusyAll, LifeOf, Connected
  <2>2. UNCHANGED LifeOfAll
    BY <1>2, <2>1 DEF LifeOfAll
  <2>3. Lives!Finish(w)
    BY <2>1, <2>2 DEF Lives!Finish, LifeOfAll, BusyAll, LifeOf
  <2>. QED  BY <2>3 DEF Lives!Next
<1>5. CASE inbox'[w] = << >> /\ w \notin up
  <2>1. BusyAll' = BusyAll \ {w} /\ LifeOf(w)' = "down"
    BY <1>1, <1>2, <1>5 DEF BusyAll, LifeOf
  <2>2. LifeOfAll' = [LifeOfAll EXCEPT ![w] = "down"]
    BY <1>2, <2>1 DEF LifeOfAll
  <2>3. Lives!End(w)
    BY <2>1, <2>2 DEF Lives!End, Lives!Become, LifeOfAll, BusyAll, LifeOf
  <2>. QED  BY <2>3 DEF Lives!Next
<1>. QED  BY <1>3, <1>4, <1>5

LEMMA StartSubscribes ==
  ASSUME TypeOK, NEW w \in Workers, Start(w)
  PROVE  Lives!Next
<1>1. UNCHANGED BusyAll
  BY DEF Start, BusyAll
<1>2. LifeOfAll' = [LifeOfAll EXCEPT ![w] = "subscribed"] /\ LifeOf(w) = "down"
  BY DEF Start, LifeOfAll, LifeOf, Connected, TypeOK
<1>3. Lives!Subscribe(w)
  BY <1>1, <1>2 DEF Lives!Subscribe, Lives!Become, LifeOfAll, LifeOf, BusyAll
<1>. QED  BY <1>3 DEF Lives!Next

LEMMA LosingEndsOrDeafens ==
  ASSUME TypeOK, NEW w \in Workers, Loses(w)
  PROVE  [Lives!Next]_(Lives!vars)
<1>1. /\ \A v \in Workers \ {w} : inbox'[v] = inbox[v]
      /\ inbox'[w] # << >> => inbox[w] # << >>
  BY LoseBuffer DEF TypeOK
<1>2. /\ BusyAll' \in {BusyAll, BusyAll \ {w}}
      /\ inbox'[w] = << >> => BusyAll' = BusyAll \ {w}
  BY <1>1 DEF BusyAll
<1>3. \A v \in Workers \ {w} : LifeOf(v)' = LifeOf(v)
  <2>1. \A v \in Workers \ {w} : (v \in up' <=> v \in up) /\ (v \in deaf' <=> v \in deaf)
    BY DEF Loses, Crash, Stop, LinkCloses
  <2>. QED  BY <1>1, <2>1 DEF LifeOf, Connected
<1>4. LifeOf(w)' # "subscribed"
  BY DEF Loses, Crash, Stop, LinkCloses, LifeOf, Connected
<1>5. LifeOf(w)' = "deaf" => LifeOf(w) # "down"
  BY <1>1 DEF Loses, Crash, Stop, LinkCloses, LifeOf
<1>6. CASE LifeOf(w)' = "down"
  <2>1. inbox'[w] = << >>
    BY <1>6 DEF LifeOf
  <2>2. LifeOfAll' = [LifeOfAll EXCEPT ![w] = "down"]
    BY <1>3, <1>6 DEF LifeOfAll
  <2>3. Lives!End(w)
    BY <1>2, <2>1, <2>2 DEF Lives!End, Lives!Become, LifeOfAll, LifeOf, BusyAll
  <2>. QED  BY <2>3 DEF Lives!Next
<1>7. CASE LifeOf(w)' = "deaf" /\ LifeOf(w) = "subscribed"
  <2>1. LifeOfAll' = [LifeOfAll EXCEPT ![w] = "deaf"]
    BY <1>3, <1>7 DEF LifeOfAll
  <2>2. Lives!GoDeaf(w)
    BY <1>2, <1>7, <2>1 DEF Lives!GoDeaf, Lives!Become, LifeOfAll, LifeOf, BusyAll
  <2>. QED  BY <2>2 DEF Lives!Next
<1>8. CASE LifeOf(w)' = "deaf" /\ LifeOf(w) = "deaf"
  <2>1. UNCHANGED LifeOfAll
    BY <1>3, <1>8 DEF LifeOfAll
  <2>2. Lives!Finish(w) \/ UNCHANGED Lives!vars
    BY <1>2, <2>1 DEF Lives!Finish, Lives!vars, LifeOfAll, LifeOf, BusyAll
  <2>. QED  BY <2>2 DEF Lives!Next
<1>. QED  BY <1>4, <1>5, <1>6, <1>7, <1>8 DEF LifeOf

(* Every step of the pipeline is a step of WorkerLife or invisible to it:   *)
(* DeliverNew and Redeliver choose among attached workers, which are up     *)
(* and not deaf.                                                            *)
THEOREM WorkerRefinement == Spec => ImplementsWorkerLife
<1>1. Init => Lives!Init /\ DeafInv
  <2>1. ASSUME Init PROVE LifeOfAll = [w \in Workers |-> "down"] /\ BusyAll = {}
    BY <2>1 DEF Init, LifeOfAll, LifeOf, BusyAll
  <2>. QED  BY <2>1 DEF Lives!Init, LifeOfAll, LifeOf, BusyAll, Init, DeafInv
<1>2. ASSUME IInv, DeafInv, [Next]_vars PROVE [Lives!Next]_(Lives!vars)
  <2>. USE <1>2 DEF IInv
  <2>1. ASSUME UNCHANGED <<up, deaf, inbox>> PROVE UNCHANGED Lives!vars
    BY <2>1 DEF Lives!vars, Connected
  <2>2. ASSUME NEW e \in Events, NEW w \in Workers,
               \/ PublishToSubscriber(e, w) \/ FlushToSubscriber(e, w)
               \/ DeliverNew(e, w) \/ Redeliver(e, w)
        PROVE  Lives!Next
    BY <2>2, DeliveryIsATake
       DEF PublishToSubscriber, FlushToSubscriber, DeliverNew, Redeliver, subscription
  <2>3. ASSUME NEW w \in Workers, Loses(w) PROVE [Lives!Next]_(Lives!vars)
    BY <2>3, LosingEndsOrDeafens
  <2>4. ASSUME NEW w \in Workers, Start(w) PROVE Lives!Next
    BY <2>4, StartSubscribes
  <2>6. ASSUME NEW w \in Workers, Answer(w) PROVE [Lives!Next]_(Lives!vars)
    BY <2>6, AnswerFinishes
  <2>7. ASSUME NEW e \in Events, Publish(e) \/ Flush(e) PROVE [Lives!Next]_(Lives!vars)
    BY <2>1, <2>2, <2>7
       DEF Publish, PublishToStream, PublishToNobody, PublishBuffered, PublishError,
           Flush, FlushToStream, FlushToNobody, subscription, worker
  <2>8. ASSUME NEW w \in Workers, Insert(w) PROVE [Lives!Next]_(Lives!vars)
    BY <2>1, <2>8 DEF Insert, InsertCommits, InsertRejected, InsertBreaks, subscription
  <2>. QED
    BY <2>1, <2>2, <2>3, <2>4, <2>6, <2>7, <2>8
       DEF Loses, Next, Receive, Confirmed, Unconfirmed, AckWaitExpires, DeleteAccount, DeleteKey,
           vars, subscription, worker
<1>3. IInv /\ DeafInv /\ [Next]_vars => DeafInv'
  BY DeafStep DEF IInv
<1>. QED
  BY <1>1, <1>2, <1>3, Invariance, PTL DEF Spec, ImplementsWorkerLife, Lives!Spec
=============================================================================
