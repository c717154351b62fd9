-------------------------- MODULE TransferEventsProofs --------------------------
(***************************************************************************)
(* Proofs about TransferEvents, for any number of replicas, events, users  *)
(* and incidents: EventsInv is inductive, and the safety properties        *)
(* follow.  The wallet's half moves the topics and the consumer's half     *)
(* only reads them, so a step is taken apart by the half that takes it.    *)
(***************************************************************************)
EXTENDS TransferEvents, SequenceTheorems, TLAPS

WalletStep ==
    \/ \E e \in Transfers : AppendEvent(e)
    \/ \E u \in Newcomers : PublishUser(u)
    \/ \E r \in Replicas :
         RelayStep(r) \/ PublishFails(r) \/ BatchRollsBack(r) \/ RelayCrashes(r)
    \/ Expire

ConsumerStep ==
    \/ Connect \/ ConnectFails \/ RunFails \/ OnModuleDestroy \/ ConsumerCrashes
    \/ \E t \in Topics : Poll(t)
    \/ HandlerStep \/ CommitFails
    \/ AdminSeek
    \/ \E kind \in Asked : Request(kind)

LEMMA Halves == Next => WalletStep \/ ConsumerStep
  BY DEF Next, WalletStep, ConsumerStep

Log == "transfer-events"
Users == "user-events"

LEMMA InitInv == Init => EventsInv
  <1> SUFFICES ASSUME Init PROVE EventsInv
    OBVIOUS
  <1> USE TransferEventsAssumption DEF Init, Topics, NoOffset, Resting
  <1>1. \A t \in Topics : Len(topic[t]) = 0 /\ Logged(t) = {}
    BY DEF Logged
  <1>2. IsABag(mails) /\ BagToSet(mails) = {}
    BY DEF IsABag, BagToSet, EmptyBag, SetToBag
  <1>3. RelayShape
    BY <1>1 DEF RelayShape
  <1>4. ConsumerShape
    BY <1>1, <1>2 DEF ConsumerShape, Positions
  <1>5. RecInv /\ SentInv /\ CoverInv
    BY <1>1 DEF RecInv, SentInv, PublishedIsOnTopic, CoverInv
  <1>6. MailInv /\ SingleInv
    BY <1>2 DEF MailInv, RightMail, SingleInv
  <1>7. OnceInv
    BY <1>1 DEF OnceInv, Once
  <1>8. QED
    BY <1>3, <1>4, <1>5, <1>6, <1>7 DEF EventsInv

-----------------------------------------------------------------------------
(* The wallet's half *)

LEMMA AppendShape ==
  ASSUME RelayShape, NEW t \in Topics, NEW e \in Transfers \cup Newcomers,
         topic' = [topic EXCEPT ![t] = Append(@, e)]
  PROVE  /\ topic' \in [Topics -> Seq(Transfers \cup Newcomers)]
         /\ Logged(t)' = Logged(t) \cup {e}
         /\ \A u \in Topics \ {t} : topic'[u] = topic[u] /\ Logged(u)' = Logged(u)
         /\ Len(topic'[t]) = Len(topic[t]) + 1
         /\ \A i \in 1..Len(topic[t]) : topic'[t][i] = topic[t][i]
         /\ topic'[t][Len(topic[t]) + 1] = e
  <1>1. topic[t] \in Seq(Transfers \cup Newcomers) /\ Len(topic[t]) \in Nat
    BY DEF RelayShape
  <1>2. topic'[t] = Append(topic[t], e) /\ \A u \in Topics \ {t} : topic'[u] = topic[u]
    BY DEF RelayShape
  <1>3. /\ Len(topic'[t]) = Len(topic[t]) + 1
        /\ \A i \in 1..Len(topic[t]) : topic'[t][i] = topic[t][i]
        /\ topic'[t][Len(topic[t]) + 1] = e
    BY <1>1, <1>2
  <1>4. topic' \in [Topics -> Seq(Transfers \cup Newcomers)]
    BY <1>1 DEF RelayShape
  <1>5. Logged(t)' = Logged(t) \cup {e}
    BY <1>1, <1>3 DEF Logged
  <1>6. QED
    BY <1>2, <1>3, <1>4, <1>5 DEF Logged

Grows ==
    /\ topic' \in [Topics -> Seq(Transfers \cup Newcomers)]
    /\ \A t \in Topics : /\ Len(topic[t]) <= Len(topic'[t])
                         /\ \A i \in 1..Len(topic[t]) : topic'[t][i] = topic[t][i]

\* A step of the wallet's half appends to one topic, if to any: what it may append to the
\* transfers' log is in the outbox, and what to the users' has just registered.
LEMMA GrowsShape ==
  ASSUME RelayShape, NEW t \in Topics, NEW e \in Transfers \cup Newcomers,
         topic' \in {topic, [topic EXCEPT ![t] = Append(@, e)]}
  PROVE  /\ Grows /\ Logged(t)' \in {Logged(t), Logged(t) \cup {e}}
         /\ \A u \in Topics \ {t} : Logged(u)' = Logged(u)
  <1>1. CASE topic' = topic
    <2>1. \A u \in Topics : Logged(u)' = Logged(u)
      BY <1>1 DEF Logged
    <2>2. Grows
      BY <1>1 DEF Grows, RelayShape
    <2>3. QED
      BY <2>1, <2>2
  <1>2. CASE topic' = [topic EXCEPT ![t] = Append(@, e)]
    <2> DEFINE logs == [Topics -> Seq(Transfers \cup Newcomers)]
    <2>1. \A u \in Topics : Len(topic[u]) \in Nat
      BY DEF RelayShape
    <2>2. /\ topic' \in logs /\ Logged(t)' = Logged(t) \cup {e}
          /\ \A u \in Topics \ {t} : topic'[u] = topic[u] /\ Logged(u)' = Logged(u)
          /\ Len(topic'[t]) = Len(topic[t]) + 1
          /\ \A i \in 1..Len(topic[t]) : topic'[t][i] = topic[t][i]
      BY <1>2, AppendShape
    <2>3. ASSUME NEW u \in Topics
          PROVE  /\ Len(topic[u]) <= Len(topic'[u])
                 /\ \A i \in 1..Len(topic[u]) : topic'[u][i] = topic[u][i]
      <3>1. CASE u = t
        BY <2>1, <2>2, <3>1
      <3>2. CASE u # t
        BY <2>1, <2>2, <3>2
      <3>3. QED
        BY <3>1, <3>2
    <2>4. QED
      BY <2>2, <2>3 DEF Grows
  <1>3. QED
    BY <1>1, <1>2

LEMMA RelayShapeStep ==
  ASSUME RelayShape, WalletStep
  PROVE  RelayShape' /\ Grows
  <1> USE DEF RelayShape, wallet, process, offsets, outcome, bounds, Faulty, MoreIncidents
  <1>1. Log \in Topics /\ Users \in Topics /\ Log # Users
    BY DEF Topics, Log, Users
  <1>2. UNCHANGED topic => Grows /\ \A t \in Topics : Logged(t)' = Logged(t)
    BY DEF Grows, Logged
  <1>3. ASSUME NEW e \in Transfers, AppendEvent(e) PROVE RelayShape' /\ Grows
    BY <1>2, <1>3 DEF AppendEvent, Topics
  <1>4. ASSUME NEW u \in Newcomers, PublishUser(u) PROVE RelayShape' /\ Grows
    <2> DEFINE log == topic[Users]
    <2>1. \/ topic' \in {topic, [topic EXCEPT ![Users] = Append(@, u)]}
          \/ topic' = [topic EXCEPT ![Users] = log \o <<u, u>>]
      BY <1>4 DEF PublishUser, Users
    <2>2. registered' = registered \cup {u} /\ {faults', seeks', requests'} \subseteq Nat
          /\ UNCHANGED <<outbox, marked, lease, relay>>
      BY <1>4 DEF PublishUser
    <2>3. Grows /\ Logged(Log)' = Logged(Log) /\ Logged(Users)' \subseteq Logged(Users) \cup {u}
      <3>1. CASE topic' \in {topic, [topic EXCEPT ![Users] = Append(@, u)]}
        BY <1>1, <3>1, GrowsShape
      <3>2. CASE topic' = [topic EXCEPT ![Users] = log \o <<u, u>>]
        <4>1. log \in Seq(Transfers \cup Newcomers) /\ Len(log) \in Nat
          BY <1>1
        <4>2. /\ topic'[Users] = log \o <<u, u>> /\ topic'[Log] = topic[Log]
              /\ topic' \in [Topics -> Seq(Transfers \cup Newcomers)]
          BY <1>1, <3>2, <4>1
        <4>3. Len(log \o <<u, u>>) = Len(log) + 2
              /\ \A i \in 1..Len(log) + 2 : (log \o <<u, u>>)[i] = IF i <= Len(log) THEN log[i] ELSE u
          BY <4>1
        <4>4. Grows
          BY <4>1, <4>2, <4>3 DEF Grows, Topics, Log, Users
        <4>5. Logged(Log)' = Logged(Log)
          BY <4>2 DEF Logged
        <4>6. Len(topic'[Users]) = Len(log) + 2
              /\ \A i \in 1..Len(log) + 2 : topic'[Users][i] = IF i <= Len(log) THEN log[i] ELSE u
          BY <4>2, <4>3
        <4>7. Logged(Users)' \subseteq Logged(Users) \cup {u}
          BY <4>1, <4>6 DEF Logged
        <4>8. QED
          BY <4>4, <4>5, <4>7
      <3>3. QED
        BY <2>1, <3>1, <3>2
    <2>4. QED
      BY <2>2, <2>3 DEF Grows, Log, Users
  <1>5. ASSUME NEW r \in Replicas, Acquire(r) PROVE RelayShape' /\ Grows
    BY <1>2, <1>5, ZenonT(60) DEF Acquire, Topics
  <1>6. ASSUME NEW r \in Replicas, Publish(r) \/ PublishFails(r) PROVE RelayShape' /\ Grows
    <2>1. PICK e \in Oldest(r) :
             /\ topic' \in {topic, [topic EXCEPT ![Log] = Append(@, e)]}
             /\ \/ relay' = [relay EXCEPT ![r].queue = {}]
                \/ relay' = [relay EXCEPT ![r].queue = @ \ {e}, ![r].sent = @ \cup {e}]
      BY <1>6 DEF Publish, PublishFails, Log
    <2>2. e \in relay[r].queue /\ e \in outbox /\ relay[r].pc = "sending"
      BY DEF Oldest, Resting
    <2>3. /\ relay' \in [Replicas -> [pc : {"idle", "sending"}, queue : SUBSET outbox,
                                      sent : SUBSET outbox]]
          /\ \A q \in Replicas : relay'[q].pc = relay[q].pc /\ (q # r => relay'[q] = relay[q])
      <3>1. CASE relay' = [relay EXCEPT ![r].queue = {}]
        BY <3>1
      <3>2. CASE relay' = [relay EXCEPT ![r].queue = @ \ {e}, ![r].sent = @ \cup {e}]
        BY <2>2, <3>2, ZenonT(60)
      <3>3. QED
        BY <2>1, <3>1, <3>2
    <2>4. /\ UNCHANGED <<outbox, marked, lease, registered>>
          /\ {faults', seeks', requests'} \subseteq Nat
      <3>1. CASE Publish(r)
        BY <3>1 DEF Publish
      <3>2. CASE PublishFails(r)
        BY <3>2 DEF PublishFails
      <3>3. QED
        BY <1>6, <3>1, <3>2
    <2>5. Grows /\ Logged(Log)' \subseteq Logged(Log) \cup {e} /\ Logged(Users)' = Logged(Users)
      BY <1>1, <2>1, <2>2, GrowsShape
    <2>6. QED
      BY <2>2, <2>3, <2>4, <2>5 DEF Grows, Log, Users
  <1>7. ASSUME NEW r \in Replicas, SaveBatch(r) \/ BatchRollsBack(r) \/ RelayCrashes(r)
        PROVE  RelayShape' /\ Grows
    <2>1. /\ relay' = [relay EXCEPT ![r] = Resting]
          /\ marked' \in {marked, marked \cup relay[r].sent} /\ lease' \in {lease, NoOne}
          /\ UNCHANGED <<outbox, registered, topic>> /\ {faults', seeks', requests'} \subseteq Nat
      BY <1>7 DEF SaveBatch, BatchRollsBack, RelayCrashes, Unlock
    <2>2. QED
      BY <1>2, <2>1 DEF Resting, Topics
  <1>8. CASE Expire
    BY <1>2, <1>8 DEF Expire, Topics
  <1>9. QED
    BY <1>3, <1>4, <1>5, <1>6, <1>7, <1>8 DEF WalletStep, RelayStep

LEMMA LogsGrow ==
  ASSUME RelayShape, Grows
  PROVE  \A t \in Topics : Logged(t) \subseteq Logged(t)'
  BY DEF RelayShape, Grows, Logged

LEMMA FaultsStay ==
  ASSUME RelayShape, Next, faults' = 0
  PROVE  faults = 0
  <1> USE DEF Faulty, bounds
  <1>1. faults \in Nat
    BY DEF RelayShape
  <1>2. ASSUME NEW e \in Transfers, AppendEvent(e) PROVE faults = 0
    BY <1>1, <1>2 DEF AppendEvent
  <1>3. ASSUME NEW u \in Newcomers, PublishUser(u) PROVE faults = 0
    BY <1>1, <1>3 DEF PublishUser
  <1>4. ASSUME NEW r \in Replicas,
               RelayStep(r) \/ PublishFails(r) \/ BatchRollsBack(r) \/ RelayCrashes(r)
        PROVE  faults = 0
    <2>1. CASE Acquire(r) \/ SaveBatch(r) \/ Publish(r)
      BY <1>1, <2>1 DEF Acquire, SaveBatch, Publish
    <2>2. CASE PublishFails(r) \/ BatchRollsBack(r) \/ RelayCrashes(r)
      BY <1>1, <2>2 DEF PublishFails, BatchRollsBack, RelayCrashes
    <2>3. QED
      BY <1>4, <2>1, <2>2 DEF RelayStep
  <1>5. CASE Expire
    BY <1>5, <1>1 DEF Expire
  <1>6. CASE Connect
    BY <1>6, <1>1 DEF Connect
  <1>7. CASE ConnectFails \/ RunFails \/ OnModuleDestroy \/ ConsumerCrashes
    BY <1>7, <1>1 DEF ConnectFails, RunFails, OnModuleDestroy, ConsumerCrashes
  <1>8. ASSUME NEW t \in Topics, Poll(t) PROVE faults = 0
    BY <1>1, <1>8 DEF Poll
  <1>9. CASE HandlerStep \/ CommitFails
    <2>1. CASE Lookup
      BY <2>1, <1>1 DEF Lookup
    <2>2. ASSUME NEW m, SendEmail(m) PROVE faults = 0
      BY <2>2, <1>1 DEF SendEmail
    <2>3. CASE Debit \/ Credit \/ Welcome
      BY <2>2, <2>3 DEF Debit, Credit, Welcome
    <2>4. CASE CommitOffsets \/ CommitFails
      BY <2>4, <1>1 DEF CommitOffsets, CommitFails
    <2>5. QED
      BY <1>9, <2>1, <2>3, <2>4 DEF HandlerStep
  <1>10. CASE AdminSeek
    BY <1>10, <1>1 DEF AdminSeek, Seek
  <1>11. ASSUME NEW kind \in Asked, Request(kind)
        PROVE  faults = 0
    BY <1>1, <1>11 DEF Request
  <1>12. QED
    BY <1>1, <1>2, <1>3, <1>4, <1>5, <1>6, <1>7, <1>8, <1>9, <1>10, <1>11 DEF Next

\* OutboxRelay: a mark follows an acknowledgement.
LEMMA SentStep ==
  ASSUME RelayShape, SentInv, WalletStep
  PROVE  SentInv'
  <1> USE DEF SentInv, PublishedIsOnTopic, wallet, process, offsets, outcome
  <1>1. Logged(Log) \subseteq Logged(Log)'
    BY RelayShapeStep, LogsGrow DEF Log, Topics
  <1>2. CASE \/ \E e \in Transfers : AppendEvent(e)
             \/ \E u \in Newcomers : PublishUser(u)
             \/ Expire
    BY <1>1, <1>2 DEF AppendEvent, PublishUser, Expire, Log
  <1>3. ASSUME NEW r \in Replicas, Acquire(r) PROVE SentInv'
    BY <1>1, <1>3 DEF Acquire, RelayShape, Log
  <1>4. ASSUME NEW r \in Replicas, Publish(r) PROVE SentInv'
    <2>1. PICK e \in Oldest(r) :
             /\ topic' = [topic EXCEPT ![Log] = Append(@, e)]
             /\ relay' = [relay EXCEPT ![r].queue = @ \ {e}, ![r].sent = @ \cup {e}]
      BY <1>4 DEF Publish, Log
    <2>2. e \in Transfers
      BY DEF Oldest, RelayShape
    <2>3. Logged(Log)' = Logged(Log) \cup {e}
      BY <2>1, <2>2, AppendShape DEF Topics, Log
    <2>4. UNCHANGED marked
      BY <1>4 DEF Publish
    <2>5. \A q \in Replicas : relay'[q].sent \subseteq relay[q].sent \cup {e}
      BY <2>1 DEF RelayShape
    <2>6. QED
      BY <2>3, <2>4, <2>5 DEF Log
  <1>5. ASSUME NEW r \in Replicas, PublishFails(r) PROVE SentInv'
    <2>1. UNCHANGED marked /\ \A q \in Replicas : relay'[q].sent = relay[q].sent
      BY <1>5 DEF PublishFails, RelayShape
    <2>2. QED
      BY <1>1, <2>1 DEF Log
  <1>6. ASSUME NEW r \in Replicas, SaveBatch(r) \/ BatchRollsBack(r) \/ RelayCrashes(r)
        PROVE  SentInv'
    BY <1>1, <1>6 DEF SaveBatch, BatchRollsBack, RelayCrashes, Unlock, Resting, RelayShape, Log
  <1>7. QED
    BY <1>2, <1>3, <1>4, <1>5, <1>6 DEF WalletStep, RelayStep

\* The lease: the rows of a batch are read while nobody else has one.
LEMMA OnceStep ==
  ASSUME RelayShape, OnceInv, WalletStep
  PROVE  OnceInv'
  <1> SUFFICES ASSUME faults' = 0 PROVE OnceInv'
    BY DEF OnceInv
  <1>1. faults = 0
    BY FaultsStay DEF WalletStep, Next
  <1> USE <1>1 DEF OnceInv, wallet, process, offsets, outcome, Faulty, Log
  <1>2. UNCHANGED topic => \A t \in Topics : Logged(t)' = Logged(t) /\ (Once(t) => Once(t)')
    BY DEF Logged, Once
  <1>3. ASSUME NEW t \in Topics, NEW e \in (Transfers \cup Newcomers) \ Logged(t),
               topic' = [topic EXCEPT ![t] = Append(@, e)]
        PROVE  \A u \in Topics : Once(u)'
    <2>1. /\ \A u \in Topics \ {t} : topic'[u] = topic[u]
          /\ Len(topic'[t]) = Len(topic[t]) + 1 /\ topic'[t][Len(topic[t]) + 1] = e
          /\ \A i \in 1..Len(topic[t]) : topic'[t][i] = topic[t][i]
      BY <1>3, AppendShape
    <2>2. Len(topic[t]) \in Nat /\ \A i \in 1..Len(topic[t]) : topic[t][i] # e
      BY <1>3 DEF Logged, RelayShape
    <2>3. Once(t)'
      BY <2>1, <2>2, SMTT(60) DEF Once
    <2>4. QED
      BY <2>1, <2>3 DEF Once
  <1>4. ASSUME NEW e \in Transfers, AppendEvent(e) PROVE OnceInv'
    BY <1>2, <1>4 DEF AppendEvent, Topics
  <1>5. ASSUME NEW u \in Newcomers, PublishUser(u) PROVE OnceInv'
    <2>1. topic' = [topic EXCEPT ![Users] = Append(@, u)]
      BY <1>5 DEF PublishUser, RelayShape, Users
    <2>2. u \notin Logged(Users)
      BY <1>5 DEF PublishUser, RelayShape, Users
    <2>3. \A t \in Topics : Once(t)'
      BY <1>3, <2>1, <2>2 DEF Topics, Users
    <2>4. Logged(Log)' = Logged(Log)
      BY <2>1, AppendShape DEF Topics, Users
    <2>5. QED
      BY <1>5, <2>3, <2>4 DEF PublishUser
  <1>6. ASSUME NEW r \in Replicas, Acquire(r) PROVE OnceInv'
    <2>1. \A q \in Replicas : relay[q].pc = "idle" /\ relay[q].sent = {}
      BY <1>6, TransferEventsAssumption DEF Acquire, RelayShape, Resting
    <2>2. QED
      BY <1>2, <1>6, <2>1 DEF Acquire, RelayShape, Topics
  <1>7. ASSUME NEW r \in Replicas, Publish(r) PROVE OnceInv'
    <2>1. PICK e \in Oldest(r) :
             /\ topic' = [topic EXCEPT ![Log] = Append(@, e)]
             /\ relay' = [relay EXCEPT ![r].queue = @ \ {e}, ![r].sent = @ \cup {e}]
      BY <1>7 DEF Publish
    <2>2. e \in relay[r].queue /\ e \in Transfers /\ relay[r].pc # "idle"
      BY DEF Oldest, RelayShape, Resting
    <2>3. e \notin Logged(Log) /\ \A q \in Replicas \ {r} : relay[q].pc = "idle"
      BY <2>2
    <2>4. Logged(Log)' = Logged(Log) \cup {e} /\ \A t \in Topics : Once(t)'
      BY <1>3, <2>1, <2>2, <2>3, AppendShape DEF Topics
    <2>5. /\ \A q \in Replicas : relay'[q].pc = relay[q].pc
          /\ relay'[r].queue = relay[r].queue \ {e} /\ relay'[r].sent = relay[r].sent \cup {e}
          /\ \A q \in Replicas \ {r} : relay'[q] = relay[q]
      BY <2>1 DEF RelayShape
    <2>6. UNCHANGED <<lease, marked>>
      BY <1>7 DEF Publish
    <2>7. QED
      BY <2>2, <2>3, <2>4, <2>5, <2>6
  <1>8. ASSUME NEW r \in Replicas, SaveBatch(r) PROVE OnceInv'
    <2>1. relay[r].pc = "sending" /\ lease = r
      BY <1>8 DEF SaveBatch
    <2>2. \A q \in Replicas \ {r} : relay[q].pc = "idle"
      BY <2>1
    <2>3. relay' = [relay EXCEPT ![r] = Resting] /\ marked' = marked \cup relay[r].sent
          /\ UNCHANGED topic
      BY <1>8 DEF SaveBatch, Unlock
    <2>4. QED
      BY <1>2, <2>1, <2>2, <2>3 DEF Resting, RelayShape, Topics
  <1>9. CASE Expire
    BY <1>2, <1>9 DEF Expire, Topics
  <1>10. ASSUME NEW r \in Replicas, PublishFails(r) \/ BatchRollsBack(r) \/ RelayCrashes(r)
         PROVE  FALSE
    BY <1>10 DEF PublishFails, BatchRollsBack, RelayCrashes
  <1>11. QED
    BY <1>4, <1>5, <1>6, <1>7, <1>8, <1>9, <1>10 DEF WalletStep, RelayStep

-----------------------------------------------------------------------------
(* The consumer's half while the topics grow                                   *)

LEMMA WalletLeaves == WalletStep => UNCHANGED <<process, offsets, rec, outcome, seeks>>
  <1> USE DEF Faulty, bounds
  <1>1. ASSUME NEW u \in Newcomers, PublishUser(u)
        PROVE  UNCHANGED <<process, offsets, rec, outcome, seeks>>
    BY <1>1 DEF PublishUser
  <1>2. ASSUME NEW r \in Replicas,
               RelayStep(r) \/ PublishFails(r) \/ BatchRollsBack(r) \/ RelayCrashes(r)
        PROVE  UNCHANGED <<process, offsets, rec, outcome, seeks>>
    BY <1>2 DEF RelayStep, Acquire, Publish, SaveBatch, PublishFails, BatchRollsBack,
                RelayCrashes, Unlock
  <1>3. ASSUME (\E e \in Transfers : AppendEvent(e)) \/ Expire
        PROVE  UNCHANGED <<process, offsets, rec, outcome, seeks>>
    BY <1>3 DEF AppendEvent, Expire
  <1>4. QED
    BY <1>1, <1>2, <1>3 DEF WalletStep

LEMMA WalletKeepsConsumer ==
  ASSUME RelayShape, ConsumerShape, RecInv, CoverInv, MailInv, WalletStep
  PROVE  ConsumerShape' /\ RecInv' /\ CoverInv' /\ MailInv'
  <1>1. Grows /\ UNCHANGED <<process, offsets, rec, outcome>>
    BY RelayShapeStep, WalletLeaves
  <1> USE DEF process, offsets, outcome
  <1>2. \A t \in Topics : Len(topic[t]) \in Nat /\ Len(topic'[t]) \in Nat
                         /\ Len(topic[t]) <= Len(topic'[t])
    BY <1>1 DEF RelayShape, Grows
  <1>3. Positions \subseteq Positions'
    BY <1>2 DEF Positions
  <1>4. \A x \in Positions : EventOf(x[1], x[2])' = EventOf(x[1], x[2])
    BY <1>1 DEF Positions, EventOf, Grows, RelayShape
  <1>5. ConsumerShape'
    BY <1>1, <1>2, <1>3 DEF ConsumerShape
  <1>6. rec # NoRecord => Record' = Record
    <2> SUFFICES ASSUME rec # NoRecord PROVE Record' = Record
      OBVIOUS
    <2>1. rec.topic \in Topics /\ rec.offset \in Nat /\ rec.offset < Len(topic[rec.topic])
      BY DEF RecInv
    <2>2. rec.offset + 1 \in 1..Len(topic[rec.topic])
      BY <1>2, <2>1
    <2>3. QED
      BY <1>1, <2>1, <2>2 DEF Record, Grows
  <1>7. RecInv'
    BY <1>1, <1>2, <1>6 DEF RecInv, FoundFor
  <1>8. CoverInv'
    BY <1>1 DEF CoverInv, InHand
  <1>9. MailInv'
    BY <1>1, <1>4, <1>6 DEF MailInv, RightMail, Told, ConsumerShape
  <1>10. QED
    BY <1>5, <1>7, <1>8, <1>9

LEMMA WalletKeepsSingle ==
  ASSUME RelayShape, ConsumerShape, RecInv, SingleInv, WalletStep
  PROVE  SingleInv'
  <1>1. Grows /\ UNCHANGED <<process, offsets, rec, outcome, seeks>> /\ (faults' = 0 => faults = 0)
    BY RelayShapeStep, WalletLeaves, FaultsStay DEF WalletStep, Next
  <1>2. \A t \in Topics, i \in Nat :
           i \in 0..Len(topic[t]) - 1 =>
             i \in (0..Len(topic[t]) - 1)' /\ EventOf(t, i)' = EventOf(t, i)
    BY <1>1 DEF Grows, RelayShape, EventOf
  <1>3. \A kind : Source(kind) \in Topics /\ Source(kind)' = Source(kind)
    BY DEF Source, Topics
  <1>4. \A kind, t, i : Past(kind, t, i)' = Past(kind, t, i)
    BY <1>1 DEF Past, InHand, offsets
  <1>5. QED
    BY <1>1, <1>2, <1>3, <1>4 DEF SingleInv, process, offsets, outcome

-----------------------------------------------------------------------------
(* Mails *)

LEMMA MailTaken ==
  ASSUME IsABag(mails), NEW m, mails' = mails (+) SetToBag({m})
  PROVE  /\ IsABag(mails)' /\ BagToSet(mails') = BagToSet(mails) \cup {m}
         /\ \A x \in BagToSet(mails) \ {m} : mails'[x] = mails[x]
         /\ m \notin BagToSet(mails) => mails'[m] = 1
  BY DEF IsABag, BagToSet, SetToBag, (+)

\* A mail is taken or, with a fault, lost.
LEMMA MailSent ==
  ASSUME IsABag(mails), NEW m, SendEmail(m)
  PROVE  /\ IsABag(mails)' /\ lost \subseteq lost'
         /\ BagToSet(mails) \subseteq BagToSet(mails')
         /\ BagToSet(mails') \subseteq BagToSet(mails) \cup {m}
         /\ m \in BagToSet(mails') \/ <<m.about, m.to>> \in lost'
  BY MailTaken DEF SendEmail

-----------------------------------------------------------------------------
(* The consumer's half *)

LEMMA ConsumerLeaves ==
  ASSUME {faults, seeks, requests} \subseteq Nat, ConsumerStep
  PROVE  UNCHANGED <<wallet, topic, registered>> /\ {faults', seeks', requests'} \subseteq Nat
  <1> USE DEF Faulty, bounds
  <1>1. CASE Connect
    BY <1>1 DEF Connect
  <1>2. CASE ConnectFails \/ RunFails
    BY <1>2 DEF ConnectFails, RunFails
  <1>3. CASE OnModuleDestroy \/ ConsumerCrashes
    BY <1>3 DEF OnModuleDestroy, ConsumerCrashes, Leave
  <1>4. ASSUME NEW t \in Topics, Poll(t)
        PROVE  UNCHANGED <<wallet, topic, registered>> /\ {faults', seeks', requests'} \subseteq Nat
    BY <1>4 DEF Poll
  <1>5. CASE Lookup
    BY <1>5 DEF Lookup
  <1>6. ASSUME NEW m, SendEmail(m) PROVE {faults', seeks', requests'} \subseteq Nat
    BY <1>6 DEF SendEmail
  <1>7. CASE Debit \/ Credit \/ Welcome
    BY <1>6, <1>7 DEF Debit, Credit, Welcome
  <1>8. CASE CommitOffsets \/ CommitFails
    BY <1>8 DEF CommitOffsets, CommitFails, Done
  <1>9. CASE AdminSeek
    BY <1>9 DEF AdminSeek, Seek
  <1>10. ASSUME NEW kind \in Asked, Request(kind)
         PROVE  UNCHANGED <<wallet, topic, registered>> /\ {faults', seeks', requests'} \subseteq Nat
    BY <1>10 DEF Request
  <1>11. QED
    BY <1>1, <1>2, <1>3, <1>4, <1>5, <1>7, <1>8, <1>9, <1>10 DEF ConsumerStep, HandlerStep

LEMMA ConsumerKeepsWallet ==
  ASSUME RelayShape, SentInv, OnceInv, ConsumerStep
  PROVE  UNCHANGED topic /\ RelayShape' /\ SentInv' /\ OnceInv'
  <1>1. UNCHANGED <<wallet, topic, registered>> /\ {faults', seeks', requests'} \subseteq Nat
        /\ (faults' = 0 => faults = 0)
    BY ConsumerLeaves, FaultsStay DEF RelayShape, ConsumerStep, Next
  <1>2. \A t \in Topics : Logged(t)' = Logged(t) /\ Once(t)' = Once(t)
    BY <1>1 DEF Logged, Once
  <1> USE DEF wallet, Topics
  <1>3. RelayShape'
    BY <1>1, <1>2 DEF RelayShape
  <1>4. SentInv'
    BY <1>1, <1>2 DEF SentInv, PublishedIsOnTopic
  <1>5. OnceInv'
    BY <1>1, <1>2 DEF OnceInv
  <1>6. QED
    BY <1>1, <1>3, <1>4, <1>5

LEMMA FunctionIsSeq ==
  ASSUME NEW S, NEW n \in Nat, NEW f \in [1..n -> S]
  PROVE  f \in Seq(S) /\ Len(f) = n
  <1>1. f \in Seq(S)
    BY SeqDef
  <1>2. Len(f) \in Nat /\ 1..Len(f) = 1..n
    BY <1>1, LenProperties
  <1>3. Len(f) <= n /\ n <= Len(f)
    <2>1. Len(f) > 0 => Len(f) \in 1..n
      BY <1>2
    <2>2. n > 0 => n \in 1..Len(f)
      BY <1>2
    <2>3. QED
      BY <1>2, <2>1, <2>2
  <1>4. QED
    BY <1>1, <1>2, <1>3

\* What a lookup can find.
LEMMA Finds ==
  ASSUME NEW e, NEW f \in Settled(UserIds(e))
  PROVE  /\ f \in Seq({Sender, Receiver, NoOne})
         /\ e \in Deposits => Len(f) = 1 /\ f[1] \in {Receiver, NoOne}
         /\ e \notin Deposits =>
              Len(f) = 2 /\ f[1] \in {Sender, NoOne} /\ f[2] \in {Receiver, NoOne}
  <1>1. CASE e \in Deposits
    <2>1. UserIds(e) = <<Receiver>> /\ Len(UserIds(e)) = 1
      BY <1>1 DEF UserIds
    <2>2. DOMAIN f = 1..1 /\ f \in [1..1 -> {Receiver, NoOne}]
      BY <2>1 DEF Settled, Found
    <2>3. f \in [1..1 -> {Sender, Receiver, NoOne}] /\ f[1] \in {Receiver, NoOne}
      BY <2>2
    <2>4. f \in Seq({Sender, Receiver, NoOne}) /\ Len(f) = 1
      BY <2>3, FunctionIsSeq
    <2>5. QED
      BY <1>1, <2>3, <2>4
  <1>2. CASE e \notin Deposits
    <2>1. UserIds(e) = <<Sender, Receiver>> /\ Len(UserIds(e)) = 2
      BY <1>2 DEF UserIds
    <2>2. f \in [1..2 -> {Sender, Receiver, NoOne}]
      BY <2>1 DEF Settled, Found
    <2>3. f[1] \in {Sender, NoOne} /\ f[2] \in {Receiver, NoOne}
      BY <2>1 DEF Settled, Found
    <2>4. f \in Seq({Sender, Receiver, NoOne}) /\ Len(f) = 2
      BY <2>2, FunctionIsSeq
    <2>5. QED
      BY <1>2, <2>3, <2>4
  <1>3. QED
    BY <1>1, <1>2

LEMMA LifeCycleShape ==
  ASSUME RelayShape, ConsumerShape, RecInv, UNCHANGED topic,
         Connect \/ ConnectFails \/ RunFails \/ OnModuleDestroy \/ ConsumerCrashes
  PROVE  ConsumerShape' /\ RecInv'
  <1> USE TransferEventsAssumption
      DEF ConsumerShape, process, offsets, outcome
  <1>1. Positions' = Positions /\ \A t \in Topics : Len(topic[t]) \in Nat
    BY DEF Positions, RelayShape
  <1>2. CASE Connect
    <2>1. rec = NoRecord
      BY <1>2 DEF Connect, RecInv
    <2>2. position' \in [Topics -> Nat] /\ \A t \in Topics : position'[t] <= Len(topic[t])
      BY <1>1, <1>2 DEF Connect, StartAt
    <2>3. skipped' \subseteq Positions
      BY <1>1, <1>2 DEF Connect, Offsets, Positions
    <2>4. ConsumerShape'
      BY <1>1, <1>2, <2>2, <2>3 DEF Connect
    <2>5. QED
      BY <1>2, <2>1, <2>4 DEF Connect, RecInv
  <1>3. CASE ConnectFails
    BY <1>1, <1>3 DEF ConnectFails, RecInv
  <1>4. CASE RunFails
    BY <1>1, <1>4 DEF RunFails, RecInv
  <1>5. CASE OnModuleDestroy \/ ConsumerCrashes
    BY <1>1, <1>5 DEF OnModuleDestroy, ConsumerCrashes, Leave, RecInv
  <1>6. QED
    BY <1>2, <1>3, <1>4, <1>5

LEMMA PollShape ==
  ASSUME RelayShape, ConsumerShape, RecInv, NEW t \in Topics, Poll(t)
  PROVE  ConsumerShape' /\ RecInv'
  <1> USE DEF ConsumerShape, process, offsets, outcome, Poll
  <1>1. Positions' = Positions /\ Len(topic[t]) \in Nat
    BY DEF Positions, RelayShape
  <1>2. ConsumerShape'
    BY <1>1
  <1>3. RecInv'
    <2>1. <<>> \in Seq({Sender, Receiver, NoOne})
      BY EmptySeq
    <2>2. rec' \in [topic : Topics, offset : Nat, found : Seq({Sender, Receiver, NoOne}),
                    pc : {"lookup", "debit", "credit", "welcome", "commit"}]
      BY <2>1
    <2>3. QED
      BY <2>2 DEF RecInv, Topics
  <1>4. QED
    BY <1>2, <1>3

\* The handler has a record in hand.
LEMMA HandlerHolds == HandlerStep \/ CommitFails => rec # NoRecord
  <1>1. rec.pc # "none" => rec # NoRecord
    BY DEF NoRecord
  <1>2. Lookup \/ Debit \/ Credit \/ Welcome \/ Done => rec.pc # "none"
    BY DEF Lookup, Debit, Credit, Welcome, Done
  <1>3. QED
    BY <1>1, <1>2 DEF HandlerStep, CommitOffsets, CommitFails

LEMMA HandlerShape ==
  ASSUME RelayShape, ConsumerShape, RecInv, UNCHANGED topic, HandlerStep \/ CommitFails
  PROVE  ConsumerShape' /\ RecInv'
  <1> USE DEF process, offsets, outcome
  <1>1. Positions' = Positions /\ \A t \in Topics : Len(topic[t]) \in Nat
    BY DEF Positions, RelayShape
  <1>2. rec # NoRecord /\ rec.topic \in Topics /\ rec.offset \in Nat
        /\ rec.offset < Len(topic[rec.topic])
    BY HandlerHolds DEF RecInv
  <1>3. CASE Lookup
    <2>1. ConsumerShape'
      BY <1>1, <1>3 DEF Lookup, ConsumerShape
    <2>2. PICK f \in Settled(UserIds(Record)) : rec' = [rec EXCEPT !.pc = "debit", !.found = f]
      BY <1>3 DEF Lookup
    <2>3. /\ f \in Seq({Sender, Receiver, NoOne})
          /\ Record \in Deposits => Len(f) = 1 /\ f[1] \in {Receiver, NoOne}
          /\ Record \notin Deposits =>
               Len(f) = 2 /\ f[1] \in {Sender, NoOne} /\ f[2] \in {Receiver, NoOne}
      BY Finds
    <2>4. rec.topic = "transfer-events" /\ consumer' = "running"
      BY <1>2, <1>3 DEF Lookup, RecInv, Topics
    <2>5. Record' = Record
      BY <1>2, <2>2 DEF Record, RecInv
    <2>6. QED
      BY <1>2, <2>1, <2>2, <2>3, <2>4, <2>5 DEF RecInv, FoundFor
  <1>4. CASE Debit \/ Credit \/ Welcome
    <2>1. \E pc \in {"credit", "commit"} :
             /\ rec' = [rec EXCEPT !.pc = pc]
             /\ rec.pc = "welcome" => pc = "commit"
             /\ rec.pc # "lookup"
      BY <1>4 DEF Debit, Credit, Welcome
    <2>2. IsABag(mails)'
      BY <1>4, MailSent DEF Debit, Credit, Welcome, ConsumerShape
    <2>3. UNCHANGED <<consumer, inits, position, committed, tried, skipped>>
      BY <1>4 DEF Debit, Credit, Welcome
    <2>4. ConsumerShape'
      BY <1>1, <2>2, <2>3 DEF ConsumerShape
    <2>5. rec'.topic = rec.topic /\ rec'.offset = rec.offset /\ rec'.found = rec.found
          /\ Record' = Record
      BY <1>2, <2>1 DEF RecInv, Record
    <2>6. /\ consumer = "running" /\ rec.found \in Seq({Sender, Receiver, NoOne})
          /\ rec.topic = "user-events" => rec.pc \in {"welcome", "commit"}
          /\ rec.topic = "transfer-events" /\ rec.pc # "lookup" => FoundFor(Record)
      BY <1>2 DEF RecInv
    <2>7. rec' \in [topic : Topics, offset : Nat, found : Seq({Sender, Receiver, NoOne}),
                    pc : {"lookup", "debit", "credit", "welcome", "commit"}]
      BY <1>2, <2>1 DEF RecInv
    <2>8. /\ rec'.topic = "user-events" => rec'.pc \in {"welcome", "commit"}
          /\ rec'.topic = "transfer-events" => rec'.pc # "welcome"
      BY <1>2, <1>4, <2>1, <2>5 DEF Debit, Credit, Welcome, RecInv, Topics
    <2>9. FoundFor(Record)' = FoundFor(Record)
      BY <2>5 DEF FoundFor
    <2>10. RecInv'
      BY <1>2, <2>1, <2>3, <2>5, <2>6, <2>7, <2>8, <2>9, <1>4 DEF RecInv
    <2>11. QED
      BY <2>4, <2>10
  <1>5. CASE CommitOffsets \/ CommitFails
    <2>1. /\ rec' = NoRecord /\ tried' = tried \cup {<<rec.topic, rec.offset>>}
          /\ committed' \in {committed, [committed EXCEPT ![rec.topic] = rec.offset + 1]}
          /\ UNCHANGED <<consumer, inits, position, mails, skipped>>
      BY <1>5 DEF CommitOffsets, CommitFails, Done
    <2>2. <<rec.topic, rec.offset>> \in Positions
      BY <1>2 DEF Positions
    <2>3. /\ committed' \in [Topics -> Int]
          /\ \A t \in Topics : committed'[t] = NoOffset \/ committed'[t] \in 0..Len(topic[t])
      BY <1>1, <1>2, <2>1, SMTT(60) DEF ConsumerShape
    <2>4. ConsumerShape'
      BY <1>1, <2>1, <2>2, <2>3 DEF ConsumerShape
    <2>5. QED
      BY <2>1, <2>4 DEF RecInv, NoRecord
  <1>6. QED
    BY <1>3, <1>4, <1>5 DEF HandlerStep

LEMMA ControllerShape ==
  ASSUME RelayShape, ConsumerShape, RecInv, UNCHANGED topic,
         AdminSeek \/ \E kind \in Asked : Request(kind)
  PROVE  ConsumerShape' /\ RecInv'
  <1> USE DEF process, offsets, outcome, ConsumerShape
  <1>1. Positions' = Positions /\ \A t \in Topics : Len(topic[t]) \in Nat
    BY DEF Positions, RelayShape
  <1>2. ASSUME NEW t \in Topics, NEW o \in 0..High(t), Seek(t, o)
        PROVE  ConsumerShape' /\ RecInv'
    <2>1. skipped' \subseteq Positions
      BY <1>1, <1>2 DEF Seek, Offsets, Positions, High
    <2>2. UNCHANGED <<consumer, inits, committed, rec, mails, tried>>
          /\ position' = [position EXCEPT ![t] = o]
      BY <1>2 DEF Seek
    <2>3. QED
      BY <1>1, <2>1, <2>2 DEF High, RecInv, FoundFor, Record
  <1>3. ASSUME NEW kind \in Asked, Request(kind)
        PROVE  ConsumerShape' /\ RecInv'
    BY <1>1, <1>3, MailTaken DEF Request, RecInv, FoundFor, Record
  <1>4. QED
    BY <1>2, <1>3 DEF AdminSeek
-----------------------------------------------------------------------------
(* Commits never pass over a record *)

LEMMA CoverStep ==
  ASSUME RelayShape, ConsumerShape, RecInv, CoverInv, UNCHANGED topic, ConsumerStep
  PROVE  CoverInv'
  <1> USE DEF process, offsets, outcome
  <1>1. \A t \in Topics : Len(topic[t]) \in Nat /\ position[t] \in Nat
    BY DEF RelayShape, ConsumerShape
  <1>2. CASE Connect
    <2>1. rec = NoRecord /\ UNCHANGED <<committed, rec, tried>>
      BY <1>2 DEF Connect, RecInv
    <2>2. ASSUME NEW t \in Topics, NEW i \in Nat, <<t, i>> \notin tried' \cup skipped'
          PROVE  i >= committed[t] /\ i >= position'[t]
      <3>1. position'[t] = StartAt(t) /\ skipped \subseteq skipped'
            /\ (committed[t] = NoOffset => Offsets(t, 0, Len(topic[t])) \subseteq skipped')
        BY <1>2 DEF Connect
      <3>2. <<t, i>> \notin tried \cup skipped
        BY <2>1, <2>2, <3>1
      <3>3. i >= committed[t]
        BY <3>2 DEF CoverInv
      <3>4. CASE committed[t] = NoOffset
        <4>1. i >= Len(topic[t])
          BY <1>1, <2>2, <3>1, <3>4 DEF Offsets
        <4>2. QED
          BY <3>1, <3>3, <3>4, <4>1 DEF StartAt
      <3>5. CASE committed[t] # NoOffset
        BY <3>1, <3>3, <3>5 DEF StartAt
      <3>6. QED
        BY <3>4, <3>5
    <2>3. QED
      BY <2>1, <2>2 DEF CoverInv
  <1>3. CASE ConnectFails \/ RunFails \/ OnModuleDestroy \/ ConsumerCrashes
    <2>1. consumer' # "running" /\ UNCHANGED <<committed, tried, skipped>> /\ rec' \in {rec, NoRecord}
      BY <1>3 DEF ConnectFails, RunFails, OnModuleDestroy, ConsumerCrashes, Leave
    <2>2. QED
      BY <2>1 DEF CoverInv
  <1>4. ASSUME NEW t \in Topics, Poll(t) PROVE CoverInv'
    <2>1. /\ rec = NoRecord /\ consumer = "running" /\ UNCHANGED <<committed, tried, skipped>>
          /\ rec'.topic = t /\ rec'.offset = position[t]
          /\ rec' # NoRecord
          /\ position' = [position EXCEPT ![t] = @ + 1]
      BY <1>4 DEF Poll, NoRecord
    <2>2. position'[t] = position[t] + 1 /\ \A u \in Topics \ {t} : position'[u] = position[u]
      BY <2>1 DEF ConsumerShape
    <2> SUFFICES ASSUME NEW u \in Topics, NEW i \in Nat, <<u, i>> \notin tried' \cup skipped'
                 PROVE  /\ i >= committed'[u]
                        /\ rec'.topic = u => i >= rec'.offset
                        /\ i >= position'[u] \/ InHand(u, i)'
      BY DEF CoverInv, InHand
    <2>3. i >= committed[u] /\ i >= position[u]
      BY <2>1 DEF CoverInv, InHand
    <2>4. QED
      BY <1>1, <2>1, <2>2, <2>3 DEF InHand
  <1>5. CASE Lookup \/ Debit \/ Credit \/ Welcome
    <2>1. UNCHANGED <<consumer, committed, position, tried, skipped>>
      BY <1>5 DEF Lookup, Debit, Credit, Welcome
    <2>2. rec # NoRecord
      BY <1>5, HandlerHolds DEF HandlerStep
    <2>3. rec'.topic = rec.topic /\ rec'.offset = rec.offset /\ rec'.pc # "none"
      BY <1>5, <2>2 DEF Lookup, Debit, Credit, Welcome, RecInv
    <2>4. rec' # NoRecord
      BY <2>3 DEF NoRecord
    <2>5. QED
      BY <2>1, <2>2, <2>3, <2>4 DEF CoverInv, InHand
  <1>6. CASE CommitOffsets \/ CommitFails
    <2>1. /\ rec' = NoRecord /\ tried' = tried \cup {<<rec.topic, rec.offset>>}
          /\ committed' \in {committed, [committed EXCEPT ![rec.topic] = rec.offset + 1]}
          /\ UNCHANGED <<consumer, position, skipped>>
      BY <1>6 DEF CommitOffsets, CommitFails, Done
    <2>2. rec # NoRecord /\ rec.topic \in Topics /\ rec.offset \in Nat
      BY <1>6, HandlerHolds DEF HandlerStep, RecInv
    <2>3. ASSUME NEW t \in Topics, NEW i \in Nat, <<t, i>> \notin tried' \cup skipped'
          PROVE  i >= committed'[t] /\ (consumer = "running" => i >= position[t])
      <3>1. <<t, i>> \notin tried \cup skipped /\ ~ (t = rec.topic /\ i = rec.offset)
        BY <2>1, <2>3
      <3>2. /\ i >= committed[t] /\ (consumer = "running" => i >= position[t])
            /\ t = rec.topic => i >= rec.offset
        BY <2>2, <3>1 DEF CoverInv, InHand
      <3>3. t = rec.topic => i >= rec.offset + 1
        BY <2>2, <3>1, <3>2
      <3>4. committed'[t] \in {committed[t], IF t = rec.topic THEN rec.offset + 1 ELSE committed[t]}
        BY <2>1 DEF ConsumerShape
      <3>5. QED
        BY <3>2, <3>3, <3>4
    <2>4. QED
      BY <2>1, <2>3 DEF CoverInv
  <1>7. ASSUME NEW t \in Topics, NEW o \in 0..High(t), Seek(t, o) PROVE CoverInv'
    <2>1. /\ skipped' = skipped \cup Offsets(t, position[t], o)
          /\ UNCHANGED <<consumer, committed, rec, tried>>
          /\ position'[t] = o /\ \A u \in Topics \ {t} : position'[u] = position[u]
      BY <1>7 DEF Seek, ConsumerShape
    <2>2. ASSUME NEW i \in Nat, <<t, i>> \notin skipped', i >= position[t]
          PROVE  i >= o
      BY <1>1, <2>1, <2>2 DEF Offsets, High
    <2>3. QED
      BY <2>1, <2>2 DEF CoverInv, InHand
  <1>8. ASSUME NEW kind \in Asked, Request(kind) PROVE CoverInv'
    BY <1>8 DEF Request, CoverInv, InHand
  <1>9. QED
    BY <1>2, <1>3, <1>4, <1>5, <1>6, <1>7, <1>8 DEF ConsumerStep, HandlerStep, AdminSeek
-----------------------------------------------------------------------------
(* The right mail *)

Addressed ==
    \A m \in BagToSet(mails) :
        m.about \in Transfers \ Deposits =>
            m.to = IF m.kind = "debit" THEN Sender ELSE Receiver

BothTold(e) == Told("debit", Sender, e) /\ Told("credit", Receiver, e)

TriedTold ==
    \A x \in tried :
        x[1] = "transfer-events" /\ EventOf(x[1], x[2]) \notin Deposits =>
            BothTold(EventOf(x[1], x[2]))

HandTold ==
    rec # NoRecord /\ rec.topic = "transfer-events" /\ Record \notin Deposits =>
        /\ rec.pc \in {"credit", "commit"} => Told("debit", Sender, Record)
        /\ rec.pc = "commit" => Told("credit", Receiver, Record)
        /\ rec.pc \in {"debit", "credit", "commit"} =>
             /\ rec.found[1] = NoOne => <<Record, Sender>> \in lost
             /\ rec.found[2] = NoOne => <<Record, Receiver>> \in lost

LEMMA MailParts ==
    /\ MailInv <=> Addressed /\ TriedTold /\ HandTold
    /\ MailInv' <=> Addressed' /\ TriedTold' /\ HandTold'
  BY DEF MailInv, RightMail, Addressed, TriedTold, HandTold, BothTold, Told

\* What was told stays told.
LEMMA ToldStays ==
  ASSUME UNCHANGED topic, lost \subseteq lost', BagToSet(mails) \subseteq BagToSet(mails')
  PROVE  /\ \A kind, to, e : Told(kind, to, e) => Told(kind, to, e)'
         /\ TriedTold /\ UNCHANGED tried => TriedTold'
  <1>1. \A kind, to, e : Told(kind, to, e) => Told(kind, to, e)'
    BY DEF Told, Mail
  <1>2. \A t, i : EventOf(t, i)' = EventOf(t, i)
    BY DEF EventOf
  <1>3. QED
    BY <1>1, <1>2 DEF TriedTold, BothTold

LEMMA RecordLogged ==
  ASSUME RelayShape, RecInv, rec # NoRecord
  PROVE  /\ rec.topic = "transfer-events" => Record \in Transfers
         /\ rec.topic = "user-events" => Record \in Newcomers
  <1>1. /\ rec.topic \in Topics /\ rec.offset \in Nat /\ rec.offset < Len(topic[rec.topic])
        /\ Len(topic[rec.topic]) \in Nat
    BY DEF RecInv, RelayShape
  <1>2. Record \in Logged(rec.topic)
    BY <1>1 DEF Record, Logged
  <1>3. QED
    BY <1>2 DEF RelayShape

\* The handler's steps after the lookup.
LEMMA SendingTells ==
  ASSUME RelayShape, ConsumerShape, RecInv, MailInv, UNCHANGED topic,
         Debit \/ Credit \/ Welcome
  PROVE  MailInv'
  <1> USE DEF outcome
  <1>1. rec # NoRecord /\ IsABag(mails) /\ Addressed /\ TriedTold /\ HandTold
    BY HandlerHolds, MailParts DEF HandlerStep, ConsumerShape
  <1>2. /\ UNCHANGED tried /\ rec'.topic = rec.topic /\ rec'.offset = rec.offset
        /\ rec'.found = rec.found /\ Record' = Record
    BY <1>1 DEF Debit, Credit, Welcome, RecInv, Record
  <1>3. ASSUME NEW m, SendEmail(m), m.about \in Transfers \ Deposits =>
                                      m.to = IF m.kind = "debit" THEN Sender ELSE Receiver
        PROVE  Addressed' /\ TriedTold'
    <2>1. /\ lost \subseteq lost' /\ BagToSet(mails) \subseteq BagToSet(mails')
          /\ BagToSet(mails') \subseteq BagToSet(mails) \cup {m}
      BY <1>1, <1>3, MailSent
    <2>2. Addressed'
      BY <1>1, <1>3, <2>1 DEF Addressed
    <2>3. QED
      BY <1>1, <1>2, <2>1, <2>2, ToldStays
  <1>4. UNCHANGED <<mails, lost>> => Addressed' /\ TriedTold'
    BY <1>1, <1>2, ToldStays DEF Addressed
  <1>5. ASSUME NEW m, SendEmail(m)
        PROVE  /\ lost \subseteq lost' /\ BagToSet(mails) \subseteq BagToSet(mails')
               /\ m \in BagToSet(mails') \/ <<m.about, m.to>> \in lost'
    BY <1>1, <1>5, MailSent
  <1>6. CASE Debit
    <2>1. /\ rec.pc = "debit" /\ rec'.pc = "credit" /\ rec.topic = "transfer-events"
          /\ FoundFor(Record) /\ Record \in Transfers
      BY <1>1, <1>6, RecordLogged DEF Debit, RecInv, Topics
    <2>2. CASE rec.found[1] = NoOne
      <3>1. UNCHANGED <<mails, lost>>
        BY <1>6, <2>2 DEF Debit
      <3>2. HandTold'
        BY <1>1, <1>2, <2>1, <2>2, <3>1 DEF HandTold, Told
      <3>3. QED
        BY <1>4, <3>1, <3>2, MailParts
    <2>3. CASE rec.found[1] # NoOne
      <3>1. SendEmail(Mail("debit", rec.found[1], Record))
        BY <1>6, <2>3 DEF Debit
      <3>2. Record \notin Deposits => rec.found[1] = Sender
        BY <2>1, <2>3 DEF FoundFor
      <3>3. Addressed' /\ TriedTold'
        BY <1>3, <3>1, <3>2 DEF Mail
      <3>4. /\ lost \subseteq lost'
            /\ \/ <<Record, rec.found[1]>> \in lost'
               \/ Mail("debit", rec.found[1], Record) \in BagToSet(mails')
        BY <1>5, <3>1 DEF Mail
      <3>5. HandTold'
        BY <1>1, <1>2, <2>1, <2>3, <3>2, <3>4 DEF HandTold, Told
      <3>6. QED
        BY <3>3, <3>5, MailParts
    <2>4. QED
      BY <2>2, <2>3
  <1>7. CASE Credit
    <2>1. /\ rec.pc = "credit" /\ rec'.pc = "commit" /\ rec.topic = "transfer-events"
          /\ FoundFor(Record) /\ Record \in Transfers
      BY <1>1, <1>7, RecordLogged DEF Credit, RecInv, Topics
    <2>2. CASE Len(rec.found) < 2 \/ rec.found[Len(rec.found)] = NoOne
      <3>1. UNCHANGED <<mails, lost>>
        BY <1>7, <2>2 DEF Credit
      <3>2. Record \notin Deposits => rec.found[2] = NoOne
        BY <2>1, <2>2 DEF FoundFor
      <3>3. HandTold'
        BY <1>1, <1>2, <2>1, <3>1, <3>2 DEF HandTold, Told
      <3>4. QED
        BY <1>4, <3>1, <3>3, MailParts
    <2>3. CASE ~ (Len(rec.found) < 2 \/ rec.found[Len(rec.found)] = NoOne)
      <3>1. SendEmail(Mail("credit", rec.found[2], Record))
        BY <1>7, <2>3 DEF Credit
      <3>2. Record \notin Deposits => rec.found[2] = Receiver
        BY <2>1, <2>3 DEF FoundFor
      <3>3. Addressed' /\ TriedTold'
        BY <1>3, <3>1, <3>2 DEF Mail
      <3>4. /\ lost \subseteq lost' /\ BagToSet(mails) \subseteq BagToSet(mails')
            /\ \/ <<Record, rec.found[2]>> \in lost'
               \/ Mail("credit", rec.found[2], Record) \in BagToSet(mails')
        BY <1>5, <3>1 DEF Mail
      <3>5. HandTold'
        BY <1>1, <1>2, <2>1, <2>3, <3>2, <3>4 DEF HandTold, Told
      <3>6. QED
        BY <3>3, <3>5, MailParts
    <2>4. QED
      BY <2>2, <2>3
  <1>8. CASE Welcome
    <2>1. rec.topic = "user-events" /\ Record \in Newcomers
      BY <1>1, <1>8, RecordLogged DEF Welcome, RecInv, Topics
    <2>2. SendEmail(Mail("welcome", Record, Record)) /\ Record \notin Transfers
      BY <1>8, <2>1, TransferEventsAssumption DEF Welcome
    <2>3. Addressed' /\ TriedTold'
      BY <1>3, <2>2 DEF Mail
    <2>4. HandTold'
      BY <1>2, <2>1 DEF HandTold
    <2>5. QED
      BY <2>3, <2>4, MailParts
  <1>9. QED
    BY <1>6, <1>7, <1>8

LEMMA MailStep ==
  ASSUME RelayShape, ConsumerShape, RecInv, MailInv, UNCHANGED topic, ConsumerStep
  PROVE  MailInv'
  <1> USE DEF process, offsets, outcome
  <1>1. Addressed /\ TriedTold /\ HandTold /\ IsABag(mails)
    BY MailParts DEF ConsumerShape
  <1>2. \A t, i : EventOf(t, i)' = EventOf(t, i)
    BY DEF EventOf
  <1>3. ASSUME UNCHANGED <<mails, lost, tried>>, rec' \in {rec, NoRecord} PROVE MailInv'
    <2>1. Addressed' /\ TriedTold'
      BY <1>1, <1>3, ToldStays DEF Addressed
    <2>2. HandTold'
      BY <1>1, <1>3 DEF HandTold, Record, Told
    <2>3. QED
      BY <2>1, <2>2, MailParts
  <1>4. CASE Connect \/ ConnectFails \/ RunFails \/ OnModuleDestroy \/ ConsumerCrashes
    BY <1>3, <1>4 DEF Connect, ConnectFails, RunFails, OnModuleDestroy, ConsumerCrashes, Leave
  <1>5. ASSUME NEW t \in Topics, Poll(t) PROVE MailInv'
    <2>1. /\ UNCHANGED <<mails, lost, tried>>
          /\ rec'.topic = "transfer-events" => rec'.pc = "lookup"
      BY <1>5 DEF Poll
    <2>2. Addressed' /\ TriedTold'
      BY <1>1, <2>1, ToldStays DEF Addressed
    <2>3. HandTold'
      BY <2>1 DEF HandTold
    <2>4. QED
      BY <2>2, <2>3, MailParts
  <1>6. CASE Lookup
    <2>1. PICK f \in Settled(UserIds(Record)) :
            /\ rec' = [rec EXCEPT !.pc = "debit", !.found = f]
            /\ lost' = lost \cup {<<Record, UserIds(Record)[i]>> :
                                    i \in {i \in 1..Len(UserIds(Record)) : f[i] = NoOne}}
            /\ UNCHANGED <<mails, tried>>
      BY <1>6 DEF Lookup
    <2>2. Addressed' /\ TriedTold'
      BY <1>1, <2>1, ToldStays DEF Addressed
    <2>3. rec # NoRecord /\ rec'.pc = "debit" /\ rec'.found = f /\ Record' = Record
      BY <1>6, <2>1, HandlerHolds DEF HandlerStep, RecInv, Record
    <2>4. ASSUME Record \notin Deposits
          PROVE  /\ f[1] = NoOne => <<Record, Sender>> \in lost'
                 /\ f[2] = NoOne => <<Record, Receiver>> \in lost'
      <3>1. UserIds(Record) = <<Sender, Receiver>>
        BY <2>4 DEF UserIds
      <3>2. Len(UserIds(Record)) = 2 /\ UserIds(Record)[1] = Sender /\ UserIds(Record)[2] = Receiver
        BY <3>1
      <3>3. QED
        BY <2>1, <3>2
    <2>5. HandTold'
      BY <2>3, <2>4 DEF HandTold
    <2>6. QED
      BY <2>2, <2>5, MailParts
  <1>7. CASE Debit \/ Credit \/ Welcome
    BY <1>7, SendingTells
  <1>8. CASE CommitOffsets \/ CommitFails
    <2>1. /\ rec' = NoRecord /\ tried' = tried \cup {<<rec.topic, rec.offset>>}
          /\ rec.pc = "commit" /\ UNCHANGED <<mails, lost>>
      BY <1>8 DEF CommitOffsets, CommitFails, Done
    <2>2. rec # NoRecord
      BY <1>8, HandlerHolds DEF HandlerStep
    <2>3. rec.topic = "transfer-events" /\ Record \notin Deposits => BothTold(Record)
      BY <1>1, <2>1, <2>2 DEF HandTold, BothTold
    <2>4. \A e : BothTold(e) => BothTold(e)'
      BY <2>1 DEF BothTold, Told
    <2>5. TriedTold'
      BY <1>1, <1>2, <2>1, <2>3, <2>4 DEF TriedTold, Record, EventOf
    <2>6. Addressed' /\ HandTold'
      BY <1>1, <2>1 DEF Addressed, HandTold
    <2>7. QED
      BY <2>5, <2>6, MailParts
  <1>9. CASE AdminSeek
    BY <1>3, <1>9 DEF AdminSeek, Seek
  <1>10. ASSUME NEW kind \in Asked, Request(kind) PROVE MailInv'
    <2> DEFINE m == Mail(kind, Receiver, NoOne)
    <2>1. /\ UNCHANGED <<lost, tried, rec>>
          /\ BagToSet(mails') \in {BagToSet(mails), BagToSet(mails) \cup {m}}
      BY <1>1, <1>10, MailTaken DEF Request
    <2>2. m.about = NoOne
      BY DEF Mail
    <2>3. Addressed'
      BY <1>1, <2>1, <2>2, TransferEventsAssumption DEF Addressed
    <2>4. TriedTold' /\ \A k, to, e : Told(k, to, e) => Told(k, to, e)'
      BY <1>1, <2>1, ToldStays
    <2>5. HandTold'
      BY <1>1, <2>1, <2>4 DEF HandTold, Record
    <2>6. QED
      BY <2>3, <2>4, <2>5, MailParts
  <1>11. QED
    BY <1>4, <1>5, <1>6, <1>7, <1>8, <1>9, <1>10 DEF ConsumerStep, HandlerStep
-----------------------------------------------------------------------------
(* Each mail once *)

\* The record in hand is past the mail of this kind.
Passed(kind, pc) == pc = "commit" \/ (kind = "debit" /\ pc = "credit")

\* Among records all different, a mail not sent yet for the one in hand is a new one.
LEMMA SendsOnce ==
  ASSUME RelayShape, ConsumerShape, RecInv, SingleInv, rec # NoRecord,
         faults = 0, seeks = 0, Once(rec.topic),
         NEW kind, NEW to, Source(kind) = rec.topic,
         UNCHANGED mails \/ mails' = mails (+) SetToBag({Mail(kind, to, Record)}),
         UNCHANGED <<topic, consumer, position>>,
         rec'.topic = rec.topic, rec'.offset = rec.offset,
         ~ Passed(kind, rec.pc), Passed(kind, rec'.pc),
         \A k : Passed(k, rec.pc) => Passed(k, rec'.pc)
  PROVE  SingleInv'
  <1> DEFINE m0 == Mail(kind, to, Record)
             n(t) == Len(topic[t])
  <1>1. /\ rec.topic \in Topics /\ rec.offset \in 0..n(rec.topic) - 1 /\ n(rec.topic) \in Nat
        /\ rec.offset < position[rec.topic] /\ consumer = "running"
    BY DEF RecInv, RelayShape, SingleInv
  <1>2. m0.kind = kind /\ m0.about = Record /\ EventOf(rec.topic, rec.offset) = Record
    BY DEF Mail, EventOf, Record
  <1>3. ASSUME NEW m \in BagToSet(mails), m.about # NoOne
        PROVE  /\ mails[m] = 1 /\ m # m0
               /\ \E i \in 0..n(Source(m.kind)) - 1 :
                    /\ EventOf(Source(m.kind), i) = m.about /\ i < position[Source(m.kind)]
                    /\ rec.topic = Source(m.kind) /\ rec.offset = i => Passed(m.kind, rec.pc)
    <2>1. PICK i \in 0..n(Source(m.kind)) - 1 :
             /\ EventOf(Source(m.kind), i) = m.about /\ i < position[Source(m.kind)]
             /\ rec.topic = Source(m.kind) /\ rec.offset = i => Passed(m.kind, rec.pc)
      BY <1>3 DEF SingleInv, Past, InHand, Passed
    <2>2. mails[m] = 1
      BY <1>3 DEF SingleInv
    <2>3. m # m0
      <3> SUFFICES ASSUME m = m0 PROVE FALSE
        OBVIOUS
      <3>1. /\ i \in 0..n(rec.topic) - 1 /\ EventOf(rec.topic, i) = Record
            /\ rec.offset = i => Passed(kind, rec.pc)
        BY <1>2, <2>1
      <3>2. topic[rec.topic][i + 1] = topic[rec.topic][rec.offset + 1]
            /\ i + 1 \in 1..n(rec.topic) /\ rec.offset + 1 \in 1..n(rec.topic)
        BY <1>1, <1>2, <3>1 DEF EventOf
      <3>3. i + 1 = rec.offset + 1
        BY <3>2 DEF Once
      <3>4. QED
        BY <1>1, <3>1, <3>3
    <2>4. QED
      BY <2>1, <2>2, <2>3
  <1>4. ASSUME NEW m \in BagToSet(mails'), m.about # NoOne
        PROVE  /\ mails'[m] = 1
               /\ \E i \in 0..n(Source(m.kind)) - 1 :
                    /\ EventOf(Source(m.kind), i) = m.about /\ i < position[Source(m.kind)]
                    /\ rec.topic = Source(m.kind) /\ rec.offset = i => Passed(m.kind, rec'.pc)
    <2>1. IsABag(mails)
      BY DEF ConsumerShape
    <2>2. CASE m \in BagToSet(mails) /\ m # m0
      <3>1. mails'[m] = mails[m]
        BY <2>1, <2>2, MailTaken
      <3>2. QED
        BY <1>3, <1>4, <2>2, <3>1
    <2>3. CASE m \notin BagToSet(mails) \/ m = m0
      <3>1. m0.about # NoOne => m0 \notin BagToSet(mails)
        BY <1>3
      <3>2. m = m0 /\ mails' = mails (+) SetToBag({m0})
        BY <1>4, <2>1, <2>3, <3>1, MailTaken, ZenonT(60)
      <3>3. mails'[m] = 1
        BY <1>4, <2>1, <3>1, <3>2, MailTaken
      <3>4. QED
        BY <1>1, <1>2, <3>2, <3>3
    <2>4. QED
      BY <2>2, <2>3
  <1>5. \A t, i : EventOf(t, i)' = EventOf(t, i)
    BY DEF EventOf
  <1>6. QED
    BY <1>1, <1>4, <1>5 DEF SingleInv, Past, InHand, Passed, Source
\* A failure or a seek ends the calm.
LEMMA Calm ==
  ASSUME RelayShape, ConsumerStep, faults' = 0, seeks' = 0
  PROVE  faults = 0 /\ seeks = 0
  <1>1. faults = 0
    BY FaultsStay DEF ConsumerStep, Next
  <1>2. seeks \in Nat
    BY DEF RelayShape
  <1> USE <1>1, <1>2 DEF Faulty, bounds
  <1>3. CASE Connect \/ \E t \in Topics : Poll(t)
    BY <1>3 DEF Connect, Poll
  <1>4. CASE ConnectFails \/ RunFails \/ OnModuleDestroy \/ ConsumerCrashes \/ CommitFails
    BY <1>4 DEF ConnectFails, RunFails, OnModuleDestroy, ConsumerCrashes, CommitFails
  <1>5. CASE Lookup
    BY <1>5 DEF Lookup
  <1>6. ASSUME NEW m, SendEmail(m) PROVE UNCHANGED seeks
    BY <1>6 DEF SendEmail
  <1>7. CASE Debit \/ Credit \/ Welcome
    BY <1>6, <1>7 DEF Debit, Credit, Welcome
  <1>8. CASE CommitOffsets
    BY <1>8 DEF CommitOffsets
  <1>9. CASE AdminSeek
    BY <1>9 DEF AdminSeek, Seek
  <1>10. ASSUME NEW kind \in Asked, Request(kind) PROVE UNCHANGED seeks
    BY <1>10 DEF Request
  <1>11. QED
    BY <1>3, <1>4, <1>5, <1>7, <1>8, <1>9, <1>10 DEF ConsumerStep, HandlerStep

LEMMA SingleStep ==
  ASSUME RelayShape, ConsumerShape, RecInv, OnceInv, SingleInv, UNCHANGED topic, ConsumerStep
  PROVE  SingleInv'
  <1> USE DEF process, offsets, outcome
  <1> SUFFICES ASSUME faults' = 0, seeks' = 0 PROVE SingleInv'
    BY DEF SingleInv
  <1>1. faults = 0 /\ seeks = 0
    BY Calm
  <1>2. \A t \in Topics : Once(t) /\ Len(topic[t]) \in Nat /\ position[t] \in Nat
    BY <1>1 DEF OnceInv, RelayShape, ConsumerShape
  <1>3. \A t, i : EventOf(t, i)' = EventOf(t, i)
    BY DEF EventOf
  <1>4. \A kind : Source(kind) \in Topics /\ Source(kind)' = Source(kind)
    BY DEF Source, Topics
  <1>5. CASE Connect
    <2>1. rec = NoRecord /\ \A m \in BagToSet(mails) : m.about = NoOne
      BY <1>1, <1>5 DEF Connect, RecInv, SingleInv
    <2>2. UNCHANGED <<rec, mails>>
      BY <1>5 DEF Connect
    <2>3. QED
      BY <2>1, <2>2 DEF SingleInv
  <1>6. CASE ConnectFails \/ RunFails \/ OnModuleDestroy \/ ConsumerCrashes \/ CommitFails
    <2>1. Faulty
      BY <1>6 DEF ConnectFails, RunFails, OnModuleDestroy, ConsumerCrashes, CommitFails
    <2>2. QED
      BY <1>1, <2>1 DEF Faulty
  <1>7. ASSUME NEW t \in Topics, Poll(t) PROVE SingleInv'
    <2>1. /\ rec = NoRecord /\ UNCHANGED <<consumer, mails>>
          /\ rec'.topic = t /\ rec'.offset = position[t]
          /\ position' = [position EXCEPT ![t] = @ + 1]
      BY <1>7 DEF Poll
    <2>2. position'[t] = position[t] + 1 /\ \A u \in Topics \ {t} : position'[u] = position[u]
      BY <2>1 DEF ConsumerShape
    <2>3. rec'.offset < position'[rec'.topic]
      BY <1>2, <2>1, <2>2
    <2>4. \A kind, i : i \in Nat /\ i < position[Source(kind)] => Past(kind, Source(kind), i)'
      BY <1>2, <1>4, <2>1, <2>2 DEF Past, InHand
    <2>5. QED
      BY <1>1, <1>3, <1>4, <2>1, <2>3, <2>4 DEF SingleInv, Past
  <1>8. CASE Lookup \/ CommitOffsets
    <2>1. /\ UNCHANGED <<consumer, position, mails>>
          /\ rec.pc \notin {"commit", "credit"} \/ rec' = NoRecord
      BY <1>8 DEF Lookup, CommitOffsets, Done
    <2>2. rec # NoRecord
      BY <1>8, HandlerHolds DEF HandlerStep
    <2>3. rec' = NoRecord \/ (rec'.topic = rec.topic /\ rec'.offset = rec.offset)
      BY <1>8, <2>2 DEF Lookup, CommitOffsets, Done, RecInv
    <2>4. \A kind, t, i : Past(kind, t, i) => Past(kind, t, i)'
      BY <2>1, <2>2, <2>3 DEF Past, InHand
    <2>5. QED
      BY <1>1, <1>3, <1>4, <2>1, <2>2, <2>3, <2>4 DEF SingleInv
  <1>9. CASE Debit \/ Credit \/ Welcome
    <2>1. /\ rec # NoRecord /\ UNCHANGED <<consumer, position>>
          /\ \A m : SendEmail(m) => mails' = mails (+) SetToBag({m})
      BY <1>1, <1>9, HandlerHolds
         DEF HandlerStep, SendEmail, Faulty, Debit, Credit, Welcome
    <2>2. rec'.topic = rec.topic /\ rec'.offset = rec.offset /\ Once(rec.topic)
      BY <1>2, <1>9, <2>1 DEF Debit, Credit, Welcome, RecInv
    <2>3. \E kind, to :
             /\ Source(kind) = rec.topic
             /\ UNCHANGED mails \/ mails' = mails (+) SetToBag({Mail(kind, to, Record)})
             /\ ~ Passed(kind, rec.pc) /\ Passed(kind, rec'.pc)
             /\ \A k : Passed(k, rec.pc) => Passed(k, rec'.pc)
      <3>1. /\ rec.topic \in Topics
            /\ rec.pc \in {"debit", "credit", "welcome"}
            /\ rec.topic = "user-events" => rec.pc = "welcome"
            /\ rec.topic = "transfer-events" => rec.pc # "welcome"
        BY <1>9, <2>1 DEF Debit, Credit, Welcome, RecInv
      <3>2. CASE Debit
        <4>1. rec.pc = "debit" /\ rec'.pc = "credit" /\ rec.topic = "transfer-events"
          BY <2>1, <3>1, <3>2 DEF Debit, RecInv, Topics
        <4>2. UNCHANGED mails \/ mails' = mails (+) SetToBag({Mail("debit", rec.found[1], Record)})
          BY <2>1, <3>2 DEF Debit
        <4>3. QED
          BY <4>1, <4>2 DEF Passed, Source
      <3>3. CASE Credit
        <4>1. rec.pc = "credit" /\ rec'.pc = "commit" /\ rec.topic = "transfer-events"
          BY <2>1, <3>1, <3>3 DEF Credit, RecInv, Topics
        <4>2. UNCHANGED mails \/ mails' = mails (+) SetToBag({Mail("credit", rec.found[2], Record)})
          BY <2>1, <3>3 DEF Credit
        <4>3. QED
          BY <4>1, <4>2 DEF Passed, Source
      <3>4. CASE Welcome
        <4>1. rec.pc = "welcome" /\ rec'.pc = "commit" /\ rec.topic = "user-events"
          BY <2>1, <3>1, <3>4 DEF Welcome, RecInv, Topics
        <4>2. mails' = mails (+) SetToBag({Mail("welcome", Record, Record)})
          BY <2>1, <3>4 DEF Welcome
        <4>3. QED
          BY <4>1, <4>2 DEF Passed, Source
      <3>5. QED
        BY <1>9, <3>2, <3>3, <3>4
    <2>4. QED
      BY <1>1, <2>1, <2>2, <2>3, SendsOnce
  <1>10. CASE AdminSeek
    BY <1>1, <1>10 DEF AdminSeek, Seek
  <1>11. ASSUME NEW kind \in Asked, Request(kind) PROVE SingleInv'
    <2> DEFINE m0 == Mail(kind, Receiver, NoOne)
    <2>1. UNCHANGED <<consumer, position, rec>>
          /\ (UNCHANGED mails \/ mails' = mails (+) SetToBag({m0}))
      BY <1>11 DEF Request
    <2>2. m0.about = NoOne
      BY DEF Mail
    <2>3. \A m \in BagToSet(mails') : m.about # NoOne =>
              m \in BagToSet(mails) /\ mails'[m] = mails[m]
      BY <2>1, <2>2, MailTaken, ZenonT(60) DEF ConsumerShape
    <2>4. \A k, t, i : Past(k, t, i)' = Past(k, t, i)
      BY <2>1 DEF Past, InHand
    <2>5. QED
      BY <1>1, <1>3, <1>4, <2>1, <2>3, <2>4 DEF SingleInv
  <1>12. QED
    BY <1>5, <1>6, <1>7, <1>8, <1>9, <1>10, <1>11 DEF ConsumerStep, HandlerStep
-----------------------------------------------------------------------------
(* The invariant *)

LEMMA StepInv == EventsInv /\ [Next]_vars => EventsInv'
  <1> SUFFICES ASSUME EventsInv, [Next]_vars PROVE EventsInv'
    OBVIOUS
  <1> USE DEF EventsInv
  <1>1. CASE WalletStep
    BY <1>1, RelayShapeStep, SentStep, OnceStep, WalletKeepsConsumer, WalletKeepsSingle
  <1>2. CASE ConsumerStep
    <2>1. UNCHANGED topic /\ RelayShape' /\ SentInv' /\ OnceInv'
      BY <1>2, ConsumerKeepsWallet
    <2>2. ConsumerShape' /\ RecInv'
      BY <1>2, <2>1, LifeCycleShape, PollShape, HandlerShape, ControllerShape DEF ConsumerStep
    <2>3. CoverInv' /\ MailInv' /\ SingleInv'
      BY <1>2, <2>1, CoverStep, MailStep, SingleStep
    <2>4. QED
      BY <2>1, <2>2, <2>3
  <1>3. CASE UNCHANGED vars
    <2> USE <1>3 DEF vars, wallet, process, offsets, outcome, bounds
    <2>1. RelayShape' /\ SentInv' /\ OnceInv'
      <3>1. \A t \in Topics : Logged(t)' = Logged(t) /\ Once(t)' = Once(t)
        BY DEF Logged, Once
      <3>2. RelayShape'
        BY <3>1 DEF RelayShape, Topics
      <3>3. SentInv'
        BY <3>1 DEF SentInv, PublishedIsOnTopic, Topics
      <3>4. OnceInv'
        BY <3>1 DEF OnceInv, Topics
      <3>5. QED
        BY <3>2, <3>3, <3>4
    <2>2. ConsumerShape' /\ RecInv' /\ CoverInv'
      BY DEF ConsumerShape, RecInv, FoundFor, Record, CoverInv, InHand, Positions
    <2>3. MailInv'
      BY DEF MailInv, RightMail, Told, Record, EventOf
    <2>4. SingleInv'
      BY DEF SingleInv, Past, InHand, EventOf, Source
    <2>5. QED
      BY <2>1, <2>2, <2>3, <2>4
  <1>4. QED
    BY <1>1, <1>2, <1>3, Halves

LEMMA EventsAlways == Spec => []EventsInv
  BY InitInv, StepInv, PTL DEF Spec

\* TransferEvents: in every behaviour each part of the state has its shape, and each offset
\* the group holds is one of its topic's.
THEOREM EventsTypeCorrect == Spec => []TypeOK
  <1>1. EventsInv => TypeOK
    <2> SUFFICES ASSUME EventsInv PROVE TypeOK
      OBVIOUS
    <2>1. RelayShape /\ ConsumerShape /\ RecInv
      BY DEF EventsInv
    <2>2. \A t \in Topics : Len(topic[t]) \in Nat
      BY <2>1 DEF RelayShape
    <2>3. \A t \in Topics : /\ position[t] \in 0..Len(topic[t])
                           /\ committed[t] \in {NoOffset} \cup 0..Len(topic[t])
      BY <2>1, <2>2 DEF ConsumerShape
    <2>4. rec.pc \in {"none", "lookup", "debit", "credit", "welcome", "commit"}
      BY <2>1 DEF RecInv, NoRecord
    <2>5. tried \subseteq Topics \X Nat /\ skipped \subseteq Topics \X Nat
      BY <2>1 DEF ConsumerShape, Positions
    <2>6. \A r \in Replicas : /\ relay[r].pc \in {"idle", "sending"}
                             /\ relay[r].queue \cup relay[r].sent \subseteq outbox
      BY <2>1 DEF RelayShape
    <2>7. QED
      BY <2>1, <2>3, <2>4, <2>5, <2>6 DEF TypeOK, RelayShape, ConsumerShape
  <1>2. QED
    BY <1>1, EventsAlways, PTL

\* OutboxRelay: whatever a replica, a lease, a send or a commit does, a row marked
\* PUBLISHED has a record on the topic.
THEOREM MarkedIsOnTopic == Spec => []PublishedIsOnTopic
  <1>1. EventsInv => PublishedIsOnTopic
    BY DEF EventsInv, SentInv
  <1>2. QED
    BY <1>1, EventsAlways, PTL

\* OutboxRelay and KafkaConsumerService: unless something fails or is replayed, no mail
\* about an event is taken twice, however many replicas tick.
THEOREM OneMailEach == Spec => []NoDuplicateWithoutFault
  <1>1. EventsInv => NoDuplicateWithoutFault
    BY DEF EventsInv, SingleInv, NoDuplicateWithoutFault
  <1>2. QED
    BY <1>1, EventsAlways, PTL

\* KafkaConsumerService and getTopicOffsets: the lag covers each record neither handled to
\* its end nor jumped over, across crashes, failed commits and seeks.
THEOREM LagIsEnough == Spec => []LagCoversUntried
  <1>1. EventsInv => LagCoversUntried
    <2> SUFFICES ASSUME EventsInv, NEW t \in Topics, NEW i \in 0..High(t) - 1,
                        <<t, i>> \notin tried \cup skipped
                 PROVE  i >= High(t) - Lag(t)
      BY DEF LagCoversUntried
    <2>1. High(t) \in Nat /\ committed[t] \in Int /\ i \in Nat
      BY DEF EventsInv, RelayShape, ConsumerShape, High
    <2>2. i >= committed[t]
      BY <2>1 DEF EventsInv, CoverInv
    <2>3. QED
      BY <2>1, <2>2 DEF Lag
  <1>2. QED
    BY <1>1, EventsAlways, PTL

\* handleTransfer: the debit mail of a transfer between users goes to its sender and the
\* credit mail to its receiver, and its handled record has sent both but for those lost.
THEOREM EachTheirOwnMail == Spec => []RightMail
  <1>1. EventsInv => RightMail
    BY DEF EventsInv, MailInv
  <1>2. QED
    BY <1>1, EventsAlways, PTL
=============================================================================
