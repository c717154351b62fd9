---------------------------- MODULE TransferEvents ----------------------------
(***************************************************************************)
(* From committed events to e-mails: the OutboxRelay of every              *)
(* wallet-service replica behind its ShedLock lease, user-service's        *)
(* fire-and-forget registration events, the two Kafka topics, and          *)
(* notification-service, whose single consumer handles one record at a     *)
(* time.  Events are numbered in the order of created_at; each topic has   *)
(* one partition and keeps all its records.                                *)
(***************************************************************************)
EXTENDS Integers, Sequences, Bags, SequencesExt

CONSTANTS
    NoOne,          \* nobody
    Replicas,       \* wallet-service processes
    Transfers,      \* TransferCompleted events, numbered by created_at
    Deposits,       \* those of deposits: the funding account has no owner
    Sender,         \* the user whose wallet any other transfer debits
    Receiver,       \* the user whose wallet is credited
    Newcomers,      \* users who may register
    Asked,          \* kinds of mail asked for through the HTTP API
    MaxInits,       \* maxRetries of onModuleInit
    MaxIncidents       \* bound: crashes, failed calls of any kind, overrun leases, and
                    \* requests to the two HTTP controllers

ASSUME TransferEventsAssumption ==
    /\ Transfers \subseteq Nat /\ Deposits \subseteq Transfers
    /\ MaxInits \in Nat \ {0} /\ MaxIncidents \in Nat
    \* Users and events have ids of their own, and nobody is none of them.
    /\ NoOne \notin Transfers \cup Newcomers \cup {Sender, Receiver}
    /\ Transfers \cap Newcomers = {}

VARIABLES
    outbox,         \* events committed with their money movement
    marked,         \* those marked PUBLISHED
    lease,          \* the replica Redis names as holder of the outboxRelay lock
    relay,          \* publishPending of each replica
    topic,          \* records of transfer-events and user-events
    registered,     \* users whose registration has been published or lost
    consumer,       \* "connecting", "running" or "disabled"
    inits,          \* failed attempts of onModuleInit
    position,       \* next offset to fetch, per topic
    committed,      \* offset committed by the group, NoOffset if none
    rec,            \* the record in hand
    mails,          \* bag of the mails the SMTP server took
    lost,           \* mails of events given up after a failed lookup or send
    tried,          \* records handled to their end
    skipped,        \* records a start without an offset, or a seek, jumped over
    faults,         \* what has failed
    seeks, requests \* what the HTTP controllers were asked

wallet == <<outbox, marked, lease, relay>>
process == <<consumer, inits>>
offsets == <<position, committed>>
outcome == <<mails, lost, tried, skipped>>
bounds == <<faults, seeks, requests>>
vars == <<wallet, topic, registered, process, offsets, rec, outcome, bounds>>

Topics == {"transfer-events", "user-events"}
NoOffset == -1
NoRecord == [topic |-> NoOne, offset |-> 0, pc |-> "none", found |-> <<>>]
Resting == [pc |-> "idle", queue |-> {}, sent |-> {}]

MoreIncidents == faults + seeks + requests < MaxIncidents

Faulty == MoreIncidents /\ faults' = faults + 1 /\ UNCHANGED <<seeks, requests>>

\* Records lo, ..., hi - 1 of t.
Offsets(t, lo, hi) == {t} \X {i \in 0..Len(topic[t]) : lo <= i /\ i < hi}

Init ==
    /\ outbox = {} /\ marked = {} /\ lease = NoOne
    /\ relay = [r \in Replicas |-> Resting]
    /\ topic = [t \in Topics |-> <<>>] /\ registered = {}
    /\ consumer = "connecting" /\ inits = 0
    /\ position = [t \in Topics |-> 0]
    /\ committed = [t \in Topics |-> NoOffset]
    /\ rec = NoRecord
    /\ mails = EmptyBag /\ lost = {} /\ tried = {} /\ skipped = {}
    /\ faults = 0 /\ seeks = 0 /\ requests = 0

-----------------------------------------------------------------------------
(* The sources of events *)

\* A movement commits together with its outbox row; rows may become visible in
\* another order than that of their creation.
AppendEvent(e) ==
    /\ e \in Transfers \ outbox
    /\ outbox' = outbox \cup {e}
    /\ UNCHANGED <<marked, lease, relay, topic, registered, process, offsets, rec,
                   outcome, bounds>>

\* register does not wait for the publication.  A failure is only logged, and a retry
\* after a lost acknowledgement writes the record again.
PublishUser(u) ==
    LET log == topic["user-events"]
    IN  /\ u \in Newcomers \ registered
        /\ registered' = registered \cup {u}
        /\ \/ /\ topic' = [topic EXCEPT !["user-events"] = Append(log, u)]
              /\ UNCHANGED bounds
           \/ /\ Faulty
              /\ topic' \in {topic, [topic EXCEPT !["user-events"] = log \o <<u, u>>]}
        /\ UNCHANGED <<wallet, process, offsets, rec, outcome>>

-----------------------------------------------------------------------------
(* OutboxRelay.publishPending, inside the lock *)

MutantAcquire(r) ==
    /\ relay[r].pc = "idle"
    /\ outbox \ marked # {}
    /\ lease' = r
    /\ relay' = [relay EXCEPT ![r].pc = "sending", ![r].queue = outbox \ marked]
    /\ UNCHANGED <<outbox, marked, topic, registered, process, offsets, rec, outcome, bounds>>

\* A tick that gets the lock reads the PENDING rows; it is skipped while another holds
\* the lock, and does nothing if there are no rows.
Acquire(r) ==
    /\ relay[r].pc = "idle" /\ lease = NoOne
    /\ outbox \ marked # {}
    /\ lease' = r
    /\ relay' = [relay EXCEPT ![r].pc = "sending", ![r].queue = outbox \ marked]
    /\ UNCHANGED <<outbox, marked, topic, registered, process, offsets, rec, outcome, bounds>>

Oldest(r) == {e \in relay[r].queue : \A f \in relay[r].queue : e <= f}

\* The oldest row is sent, its acknowledgement awaited, the row marked in memory.
Publish(r) ==
    \E e \in Oldest(r) :
        /\ topic' = [topic EXCEPT !["transfer-events"] = Append(@, e)]
        /\ relay' = [relay EXCEPT ![r].queue = @ \ {e}, ![r].sent = @ \cup {e}]
        /\ UNCHANGED <<outbox, marked, lease, registered, process, offsets, rec, outcome, bounds>>

MutantPublishFails(r) ==
    \E e \in Oldest(r) :
        /\ Faulty
        /\ relay' = [relay EXCEPT ![r].queue = {}, ![r].sent = @ \cup {e}]
        /\ UNCHANGED <<outbox, marked, lease, topic, registered, process, offsets, rec, outcome>>

\* The send fails, though the record may have been written; the rest of the batch stays
\* PENDING.
PublishFails(r) ==
    \E e \in Oldest(r) :
        /\ Faulty
        /\ topic' \in {topic, [topic EXCEPT !["transfer-events"] = Append(@, e)]}
        /\ relay' = [relay EXCEPT ![r].queue = {}]
        /\ UNCHANGED <<outbox, marked, lease, registered, process, offsets, rec, outcome>>

\* After the commit the lock is given back.  Whether a holder whose lease has ended can
\* end its successor's depends on the provider.
Unlock(r) ==
    /\ lease' \in IF lease = r THEN {NoOne} ELSE {lease, NoOne}
    /\ relay' = [relay EXCEPT ![r] = Resting]
    /\ UNCHANGED <<outbox, topic, registered, process, offsets, rec, outcome>>

\* saveAll and the commit.
SaveBatch(r) ==
    /\ relay[r].pc = "sending" /\ relay[r].queue = {}
    /\ marked' = marked \cup relay[r].sent
    /\ Unlock(r)
    /\ UNCHANGED bounds

\* A statement or the commit fails: no mark survives.
BatchRollsBack(r) ==
    /\ Faulty
    /\ relay[r].pc = "sending"
    /\ Unlock(r)
    /\ UNCHANGED marked

\* The process dies and starts again; its lease stays.
RelayCrashes(r) ==
    /\ Faulty
    /\ relay[r].pc # "idle"
    /\ relay' = [relay EXCEPT ![r] = Resting]
    /\ UNCHANGED <<outbox, marked, lease, topic, registered, process, offsets, rec, outcome>>

MutantExpire ==
    /\ lease # NoOne /\ relay[lease].pc # "idle" /\ Faulty
    /\ lease' = NoOne
    /\ UNCHANGED <<outbox, marked, relay, topic, registered, process, offsets, rec, outcome>>

\* lockAtMostFor: the lease of a process that died ends, and so does that of a batch
\* that takes longer than 30 s.
Expire ==
    /\ lease # NoOne
    /\ IF relay[lease].pc = "idle" THEN UNCHANGED bounds ELSE Faulty
    /\ lease' = NoOne
    /\ UNCHANGED <<outbox, marked, relay, topic, registered, process, offsets, rec, outcome>>

-----------------------------------------------------------------------------
(* KafkaConsumerService, life cycle *)

\* The group goes on at its committed offset, or, fromBeginning being false, at the end
\* of a topic it has none for.
StartAt(t) == IF committed[t] = NoOffset THEN Len(topic[t]) ELSE committed[t]

Connect ==
    /\ consumer = "connecting"
    /\ consumer' = "running"
    /\ position' = [t \in Topics |-> StartAt(t)]
    /\ skipped' = skipped \cup UNION {Offsets(t, 0, Len(topic[t])) :
                                         t \in {u \in Topics : committed[u] = NoOffset}}
    /\ UNCHANGED <<wallet, topic, registered, inits, committed, rec,
                   mails, lost, tried, bounds>>

\* connect or subscribe fails: try again after a pause, at most MaxInits times.
ConnectFails ==
    /\ Faulty
    /\ consumer = "connecting"
    /\ inits' = inits + 1
    /\ consumer' = IF inits' = MaxInits THEN "disabled" ELSE "connecting"
    /\ UNCHANGED <<wallet, topic, registered, offsets, rec, outcome>>

\* consumer.run itself fails: logged, and nothing consumes until the next start.
RunFails ==
    /\ Faulty
    /\ consumer = "connecting"
    /\ consumer' = "disabled"
    /\ UNCHANGED <<wallet, topic, registered, inits, offsets, rec, outcome>>

\* onModuleDestroy waits for the record in hand; the next process starts from scratch.
Leave ==
    /\ consumer' = "connecting" /\ inits' = 0
    /\ UNCHANGED <<wallet, topic, registered, position, committed, outcome>>

OnModuleDestroy == Faulty /\ rec = NoRecord /\ Leave /\ UNCHANGED rec

ConsumerCrashes == Faulty /\ rec # NoRecord /\ Leave /\ rec' = NoRecord

-----------------------------------------------------------------------------
(* KafkaConsumerService.eachMessage *)

Record == topic[rec.topic][rec.offset + 1]

MutantPoll(t) ==
    /\ consumer = "running" /\ rec = NoRecord
    /\ position[t] < Len(topic[t])
    /\ rec' = [topic |-> t, offset |-> position[t], found |-> <<>>,
               pc |-> IF t = "transfer-events" THEN "lookup" ELSE "welcome"]
    /\ position' = [position EXCEPT ![t] = @ + 1]
    /\ committed' = [committed EXCEPT ![t] = position[t] + 1]
    /\ UNCHANGED <<wallet, topic, registered, process, outcome, bounds>>

\* The next record of a topic; a later failure does not bring it back.
Poll(t) ==
    /\ consumer = "running" /\ rec = NoRecord
    /\ position[t] < Len(topic[t])
    /\ rec' = [topic |-> t, offset |-> position[t], found |-> <<>>,
               pc |-> IF t = "transfer-events" THEN "lookup" ELSE "welcome"]
    /\ position' = [position EXCEPT ![t] = @ + 1]
    /\ UNCHANGED <<wallet, topic, registered, process, committed, outcome, bounds>>

\* The users an event names, in the order handleTransfer looks them up.
UserIds(e) == IF e \in Deposits THEN <<Receiver>> ELSE <<Sender, Receiver>>

\* GET /internal/users/:id knows every user an event names; the request may fail.
Found(id) == {id, NoOne}

\* Promise.allSettled keeps the order of the requests; one that fails, as each does in a
\* process without its private key, leaves no user in its place.
Settled(ids) ==
    {f \in [1..Len(ids) -> Range(ids) \cup {NoOne}] :
        \A i \in 1..Len(ids) : f[i] \in Found(ids[i])}

Lookup ==
    LET ids == UserIds(Record)
    IN  /\ rec.pc = "lookup"
        /\ \E f \in Settled(ids) :
             /\ rec' = [rec EXCEPT !.pc = "debit", !.found = f]
             /\ lost' = lost \cup {<<Record, ids[i]>> : i \in {i \in 1..Len(ids) : f[i] = NoOne}}
             /\ IF f = ids THEN UNCHANGED bounds ELSE Faulty
        /\ UNCHANGED <<wallet, topic, registered, process, offsets, mails, tried, skipped>>

\* The template of each kind of mail names the event it is about.
Mail(kind, to, about) == [kind |-> kind, to |-> to, about |-> about]

\* sendEmail never throws: the mail is taken by the SMTP server, or it is lost.
SendEmail(m) ==
    \/ mails' = mails (+) SetToBag({m}) /\ UNCHANGED <<lost, bounds>>
    \/ lost' = lost \cup {<<m.about, m.to>>} /\ Faulty /\ UNCHANGED mails

\* The first user found is taken for the sender.
Debit ==
    /\ rec.pc = "debit"
    /\ IF rec.found[1] = NoOne THEN UNCHANGED <<mails, lost, bounds>>
       ELSE SendEmail(Mail("debit", rec.found[1], Record))
    /\ rec' = [rec EXCEPT !.pc = "credit"]
    /\ UNCHANGED <<wallet, topic, registered, process, offsets, tried, skipped>>

Credit ==
    /\ rec.pc = "credit"
    /\ IF Len(rec.found) < 2 \/ rec.found[Len(rec.found)] = NoOne
       THEN UNCHANGED <<mails, lost, bounds>>
       ELSE SendEmail(Mail("credit", rec.found[2], Record))
    /\ rec' = [rec EXCEPT !.pc = "commit"]
    /\ UNCHANGED <<wallet, topic, registered, process, offsets, tried, skipped>>

\* handleUserEvent; registration publishes user.created only.
Welcome ==
    /\ rec.pc = "welcome"
    /\ SendEmail(Mail("welcome", Record, Record))
    /\ rec' = [rec EXCEPT !.pc = "commit"]
    /\ UNCHANGED <<wallet, topic, registered, process, offsets, tried, skipped>>

Done ==
    /\ rec.pc = "commit"
    /\ tried' = tried \cup {<<rec.topic, rec.offset>>}
    /\ rec' = NoRecord
    /\ UNCHANGED <<wallet, topic, registered, process, position, mails, lost, skipped>>

MutantCommitOffsets ==
    /\ Done
    /\ committed' = [committed EXCEPT ![rec.topic] = rec.offset + 2]
    /\ UNCHANGED bounds

CommitOffsets ==
    /\ Done
    /\ committed' = [committed EXCEPT ![rec.topic] = rec.offset + 1]
    /\ UNCHANGED bounds

\* The error is logged and the next record follows.
CommitFails == Done /\ Faulty /\ UNCHANGED committed

-----------------------------------------------------------------------------
(* KafkaAdminController and NotificationController *)

High(t) == Len(topic[t])

\* getTopicOffsets; the low watermark is 0.
Lag(t) ==
    IF committed[t] = NoOffset THEN High(t)
    ELSE IF High(t) > committed[t] THEN High(t) - committed[t] ELSE 0

\* Pause the topic, set its next offset, resume: a later offset jumps over records.
Seek(t, offset) ==
    /\ MoreIncidents /\ seeks' = seeks + 1
    /\ consumer = "running"
    /\ position' = [position EXCEPT ![t] = offset]
    /\ skipped' = skipped \cup Offsets(t, position[t], offset)
    /\ UNCHANGED <<wallet, topic, registered, process, committed, rec, mails, lost, tried,
                   faults, requests>>

\* The entries of a request: a topic, and an offset it has or will have next.
AdminSeek == \E t \in Topics : \E o \in 0..High(t) : Seek(t, o)

\* A complete request sends its mail at once; any other is answered 400.
Request(kind) ==
    /\ MoreIncidents /\ requests' = requests + 1
    /\ \/ mails' = mails (+) SetToBag({Mail(kind, Receiver, NoOne)})
       \/ UNCHANGED mails
    /\ UNCHANGED <<wallet, topic, registered, process, offsets, rec, lost, tried, skipped,
                   faults, seeks>>

-----------------------------------------------------------------------------

RelayStep(r) ==
    Acquire(r) \/ Publish(r) \/ SaveBatch(r)

HandlerStep == Lookup \/ Debit \/ Credit \/ Welcome \/ CommitOffsets

Next ==
    \/ \E e \in Transfers : AppendEvent(e)
    \/ \E u \in Newcomers : PublishUser(u)
    \/ \E r \in Replicas :
         RelayStep(r) \/ PublishFails(r) \/ BatchRollsBack(r) \/ RelayCrashes(r)
    \/ Expire
    \/ Connect \/ ConnectFails \/ RunFails \/ OnModuleDestroy \/ ConsumerCrashes
    \/ \E t \in Topics : Poll(t)
    \/ HandlerStep \/ CommitFails
    \/ AdminSeek
    \/ \E kind \in Asked : Request(kind)

\* The scheduler keeps ticking, Redis ends leases, the consumer's loop, its reconnection
\* are timers; events, failures and operators owe nothing.
Fairness ==
    /\ \A r \in Replicas : WF_vars(RelayStep(r))
    /\ WF_vars(Expire /\ UNCHANGED bounds)
    /\ WF_vars(Connect)
    /\ \A t \in Topics : SF_vars(Poll(t))
    /\ WF_vars(HandlerStep)

Spec == Init /\ [][Next]_vars /\ Fairness

-----------------------------------------------------------------------------

EventOf(t, i) == topic[t][i + 1]
Logged(t) == {topic[t][i] : i \in 1..Len(topic[t])}

\* Shape of the state.
TypeOK ==
    /\ outbox \subseteq Transfers /\ marked \subseteq outbox
    /\ lease \in Replicas \cup {NoOne}
    /\ \A r \in Replicas : /\ relay[r].pc \in {"idle", "sending"}
                            /\ relay[r].queue \cup relay[r].sent \subseteq outbox
    /\ Logged("transfer-events") \subseteq outbox
    /\ Logged("user-events") \subseteq registered
    /\ consumer \in {"connecting", "running", "disabled"} /\ inits \in 0..MaxInits
    /\ \A t \in Topics : /\ position[t] \in 0..Len(topic[t])
                          /\ committed[t] \in {NoOffset} \cup 0..Len(topic[t])
    /\ rec.pc \in {"none", "lookup", "debit", "credit", "welcome", "commit"}
    /\ tried \subseteq Topics \X Nat /\ skipped \subseteq Topics \X Nat

\* What is marked PUBLISHED is on the topic: whatever fails, a row is never marked on the
\* strength of a send that was not acknowledged (OutboxRelay.java, "the event can never
\* be lost").
PublishedIsOnTopic == marked \subseteq Logged("transfer-events")

\* With no failure and no replay, nobody gets the same mail twice, although neither the
\* consumer nor the mailer recognises a duplicate: replicas never publish a row twice
\* as long as no lease is overrun.
NoDuplicateWithoutFault ==
    faults = 0 /\ seeks = 0 =>
        \A m \in BagToSet(mails) : m.about # NoOne => mails[m] = 1

\* The lag the admin endpoint reports covers every record that was neither handled to its
\* end nor jumped over by a start or a seek: commits never pass over a record.
LagCoversUntried ==
    \A t \in Topics : \A i \in 0..High(t) - 1 :
        <<t, i>> \notin tried \cup skipped => i >= High(t) - Lag(t)

\* Of a transfer between users the debit mail goes to the sender and the credit mail to
\* the receiver, and a record handled to its end has sent both but for what a failed
\* lookup or send has lost.
RightMail ==
    /\ \A m \in BagToSet(mails) :
        m.about \in Transfers \ Deposits =>
            m.to = IF m.kind = "debit" THEN Sender ELSE Receiver
    /\ \A x \in tried :
        x[1] = "transfer-events" /\ EventOf(x[1], x[2]) \notin Deposits =>
            LET e == EventOf(x[1], x[2])
            IN  /\ <<e, Sender>> \in lost \/ Mail("debit", Sender, e) \in BagToSet(mails)
                /\ <<e, Receiver>> \in lost \/ Mail("credit", Receiver, e) \in BagToSet(mails)

Handled(e) ==
    \E i \in 0..High("transfer-events") - 1 :
        /\ EventOf("transfer-events", i) = e
        /\ <<"transfer-events", i>> \in tried \cup skipped

\* Every movement that committed is in the end published and its record handled, or jumped
\* over, unless the consumer has given up connecting: no crash, overrun lease, failed
\* send or failed commit leaves it behind.
EventuallyHandled ==
    \A e \in Transfers : e \in outbox ~> Handled(e) \/ consumer = "disabled"

-----------------------------------------------------------------------------
(* What makes the safety properties inductive; proved in                     *)
(* TransferEventsProofs.                                                     *)

Positions == {x \in Topics \X Nat : x[2] < Len(topic[x[1]])}

\* Shape of the wallet's half, and of the topics.
RelayShape ==
    /\ outbox \subseteq Transfers /\ marked \subseteq outbox /\ registered \subseteq Newcomers
    /\ lease \in Replicas \cup {NoOne}
    /\ relay \in [Replicas -> [pc : {"idle", "sending"}, queue : SUBSET outbox,
                               sent : SUBSET outbox]]
    /\ \A r \in Replicas : relay[r].pc = "idle" => relay[r] = Resting
    /\ topic \in [Topics -> Seq(Transfers \cup Newcomers)]
    /\ Logged("transfer-events") \subseteq outbox /\ Logged("user-events") \subseteq registered
    /\ {faults, seeks, requests} \subseteq Nat

\* Shape of the consumer's half.
ConsumerShape ==
    /\ consumer \in {"connecting", "running", "disabled"} /\ inits \in 0..MaxInits
    /\ consumer = "connecting" => inits < MaxInits
    /\ position \in [Topics -> Nat] /\ \A t \in Topics : position[t] <= Len(topic[t])
    /\ committed \in [Topics -> Int]
    /\ \A t \in Topics : committed[t] = NoOffset \/ committed[t] \in 0..Len(topic[t])
    /\ tried \subseteq Positions /\ skipped \subseteq Positions
    /\ IsABag(mails)

\* Whom the lookup has found: each named user, in order, or no one in their place.
FoundFor(e) ==
    IF e \in Deposits
    THEN Len(rec.found) = 1 /\ rec.found[1] \in {Receiver, NoOne}
    ELSE /\ Len(rec.found) = 2
         /\ rec.found[1] \in {Sender, NoOne} /\ rec.found[2] \in {Receiver, NoOne}

\* The record in hand is one of the topic's, at a step its topic has.
RecInv ==
    rec # NoRecord =>
        /\ consumer = "running"
        /\ rec \in [topic : Topics, offset : Nat, found : Seq({Sender, Receiver, NoOne}),
                    pc : {"lookup", "debit", "credit", "welcome", "commit"}]
        /\ rec.offset < Len(topic[rec.topic])
        /\ rec.topic = "user-events" => rec.pc \in {"welcome", "commit"}
        /\ rec.topic = "transfer-events" => rec.pc # "welcome"
        /\ rec.topic = "transfer-events" /\ rec.pc # "lookup" => FoundFor(Record)

\* A row counts as sent once its record is on the topic.
SentInv ==
    /\ PublishedIsOnTopic
    /\ \A r \in Replicas : relay[r].sent \subseteq Logged("transfer-events")

\* Whatever lies before the committed offset, before the record in hand, or before the
\* consumer's position, that record apart, was handled or jumped over.
InHand(t, i) == rec # NoRecord /\ rec.topic = t /\ rec.offset = i
CoverInv ==
    \A t \in Topics, i \in Nat :
        <<t, i>> \notin tried \cup skipped =>
            /\ i >= committed[t]
            /\ rec # NoRecord /\ rec.topic = t => i >= rec.offset
            /\ consumer = "running" => i >= position[t] \/ InHand(t, i)

\* The mails of a transfer the consumer has come past.
Told(kind, to, e) == <<e, to>> \in lost \/ Mail(kind, to, e) \in BagToSet(mails)
MailInv ==
    /\ RightMail
    /\ rec # NoRecord /\ rec.topic = "transfer-events" /\ Record \notin Deposits =>
        /\ rec.pc \in {"credit", "commit"} => Told("debit", Sender, Record)
        /\ rec.pc = "commit" => Told("credit", Receiver, Record)
        /\ rec.pc \in {"debit", "credit", "commit"} =>
             /\ rec.found[1] = NoOne => <<Record, Sender>> \in lost
             /\ rec.found[2] = NoOne => <<Record, Receiver>> \in lost

\* With no failure, one replica at a time has a batch, under the lease, of rows that are
\* not on the topic yet, and no event is there twice.
Once(t) == \A i, j \in 1..Len(topic[t]) : topic[t][i] = topic[t][j] => i = j
OnceInv ==
    faults = 0 =>
        /\ \A t \in Topics : Once(t)
        /\ \A r \in Replicas : relay[r].pc # "idle" =>
              lease = r /\ relay[r].queue \cap Logged("transfer-events") = {}
        /\ \A e \in Logged("transfer-events") :
              e \in marked \/ \E r \in Replicas : e \in relay[r].sent

\* With no failure and no seek, a mail about an event is the only one of its kind, and
\* comes from a record the consumer has come past.
Source(kind) == IF kind = "welcome" THEN "user-events" ELSE "transfer-events"
Past(kind, t, i) ==
    /\ i < position[t]
    /\ InHand(t, i) => rec.pc = "commit" \/ (kind = "debit" /\ rec.pc = "credit")
SingleInv ==
    faults = 0 /\ seeks = 0 =>
        /\ rec # NoRecord => rec.offset < position[rec.topic]
        /\ \A m \in BagToSet(mails) : m.about # NoOne =>
              /\ consumer = "running" /\ mails[m] = 1
              /\ \E i \in 0..Len(topic[Source(m.kind)]) - 1 :
                   EventOf(Source(m.kind), i) = m.about /\ Past(m.kind, Source(m.kind), i)

EventsInv ==
    /\ RelayShape /\ ConsumerShape /\ RecInv /\ SentInv /\ CoverInv /\ MailInv
    /\ OnceInv /\ SingleInv
=============================================================================
