------------------------------- MODULE CardTopup -------------------------------
(***************************************************************************)
(* A card top-up from end to end: PaymentGateway composed with its         *)
(* OutboxRelay, the Kafka topic payment-events and the wallet-service      *)
(* consumer.  Captures, webhooks, publications and deliveries may each     *)
(* happen twice; what must happen once is the credit to the wallet.        *)
(* The posting itself is one step here; WalletCore has its interleavings.  *)
(***************************************************************************)
EXTENDS PaymentGateway, Sequences

CONSTANTS
    MaxAttempts,    \* app.payments.consumer.max-attempts, first delivery included
    MaxFaults       \* bound: failed publications and crashes of relay and consumer

ASSUME PipelineAssumption == MaxAttempts \in Nat \ {0} /\ MaxFaults \in Nat

VARIABLES
    connected,      \* the gateway's Kafka producer connected when its process started
    published,      \* outbox rows marked PUBLISHED
    batch,          \* PENDING rows the relay's current tick has still to publish
    sending,        \* the row it has published and not marked yet
    topic,          \* records of payment-events
    offset,         \* offset committed by group wallet-service
    handled,        \* the record at offset is done with, its offset not committed yet
    attempt,        \* failed deliveries of the record at offset
    applied,        \* rows of applied_payments
    credits,        \* postings per payment
    dead,           \* records on payment-events.DLT
    faults

relay == <<connected, published, batch, sending>>
consumer == <<offset, handled, attempt, applied, credits, dead>>
pipeline == <<relay, topic, consumer, faults>>
allVars == <<vars, pipeline>>

NothingSent == <<>>

PipelineInit ==
    /\ connected \in BOOLEAN
    /\ published = {} /\ batch = {} /\ sending = NothingSent
    /\ topic = <<>>
    /\ offset = 0 /\ handled = FALSE /\ attempt = 0
    /\ applied = {} /\ credits = [t \in Topups |-> 0] /\ dead = {}
    /\ faults = 0

Faulty == faults < MaxFaults /\ faults' = faults + 1

-----------------------------------------------------------------------------
(* OutboxRelay.tick *)

\* The busy flag keeps ticks apart; a tick reads the PENDING rows.
Tick ==
    /\ batch = {} /\ sending = NothingSent
    /\ outbox \ published # {}
    /\ batch' = outbox \ published
    /\ UNCHANGED <<connected, published, sending, topic, consumer, faults>>

\* A row is sent and acknowledged.
Send(e) ==
    /\ connected /\ e \in batch /\ sending = NothingSent
    /\ topic' = Append(topic, e)
    /\ sending' = <<e>> /\ batch' = batch \ {e}
    /\ UNCHANGED <<connected, published, consumer, faults>>

\* Only then is it marked PUBLISHED.
MarkPublished ==
    /\ sending # NothingSent
    /\ published' = published \cup {sending[1]}
    /\ sending' = NothingSent
    /\ UNCHANGED <<connected, batch, topic, consumer, faults>>

\* A producer that did not connect fails every send; nothing connects it later.
Unsent ==
    /\ ~connected /\ batch # {}
    /\ batch' = {}
    /\ UNCHANGED <<connected, published, sending, topic, consumer, faults>>

\* The send, its acknowledgement or the UPDATE fails, or the process dies and starts
\* again: the rest of the batch waits for the next tick, and a row sent but not marked
\* is sent again.
MutantBreakBatch(e) ==
    /\ Faulty
    /\ e \in batch /\ sending = NothingSent
    /\ sending' = <<e>> /\ published' = published \cup {e} /\ batch' = {}
    /\ UNCHANGED <<connected, topic, consumer>>

BreakBatch(e) ==
    /\ Faulty
    /\ \/ /\ e \in batch /\ sending = NothingSent
          /\ topic' \in {topic} \cup (IF connected THEN {Append(topic, e)} ELSE {})
       \/ sending = <<e>> /\ UNCHANGED topic
    /\ batch' = {} /\ sending' = NothingSent
    /\ connected' \in BOOLEAN
    /\ UNCHANGED <<published, consumer>>

-----------------------------------------------------------------------------
(* PaymentEventsConsumer with KafkaConsumerConfig's error handler *)

Waiting == offset < Len(topic) /\ ~handled
Record == topic[offset + 1]

\* ApplyPaymentService: the guard is the payment, not the event, and the posting and
\* the guard row commit together.
MutantApply ==
    /\ Waiting
    /\ credits' = [credits EXCEPT ![PaymentOf(Record)] =
                     IF \E i \in 1..offset : topic[i] = Record THEN @ ELSE @ + 1]
    /\ applied' = applied \cup {PaymentOf(Record)}
    /\ handled' = TRUE
    /\ UNCHANGED <<relay, topic, offset, attempt, dead, faults>>

Apply ==
    /\ Waiting
    /\ IF PaymentOf(Record) \in applied
       THEN UNCHANGED <<credits, applied>>
       ELSE /\ credits' = [credits EXCEPT ![PaymentOf(Record)] = @ + 1]
            /\ applied' = applied \cup {PaymentOf(Record)}
    /\ handled' = TRUE
    /\ UNCHANGED <<relay, topic, offset, attempt, dead, faults>>

\* A delivery fails; the last allowed one sends the record to the dead-letter topic.
MutantFailDelivery ==
    /\ Waiting
    /\ attempt' = attempt + 1
    /\ handled' = (attempt + 1 = MaxAttempts)
    /\ UNCHANGED <<relay, topic, offset, applied, credits, dead, faults>>

FailDelivery ==
    /\ Waiting
    /\ attempt' = attempt + 1
    /\ IF attempt + 1 = MaxAttempts
       THEN dead' = dead \cup {Record} /\ handled' = TRUE
       ELSE UNCHANGED <<dead, handled>>
    /\ UNCHANGED <<relay, topic, offset, applied, credits, faults>>

CommitOffset ==
    /\ handled
    /\ offset' = offset + 1 /\ handled' = FALSE /\ attempt' = 0
    /\ UNCHANGED <<relay, topic, applied, credits, dead, faults>>

\* The consumer dies before its offset commit: the record is delivered again.
Redeliver ==
    /\ Faulty
    /\ handled \/ attempt > 0
    /\ handled' = FALSE /\ attempt' = 0
    /\ UNCHANGED <<relay, topic, offset, applied, credits, dead>>

-----------------------------------------------------------------------------
RelayStep == Tick \/ (\E e \in Settlements : Send(e)) \/ MarkPublished \/ Unsent
ConsumerStep == Apply \/ FailDelivery \/ CommitOffset
PipelineNext ==
    RelayStep \/ ConsumerStep \/ (\E e \in Settlements : BreakBatch(e)) \/ Redeliver

TopupNext ==
    \/ Next /\ UNCHANGED pipeline
    \/ PipelineNext /\ UNCHANGED vars

TopupSpec == Init /\ PipelineInit /\ [][TopupNext]_allVars

\* The relay's timer keeps firing and the consumer keeps polling.
FairTopupSpec ==
    /\ TopupSpec
    /\ WF_allVars(RelayStep /\ UNCHANGED vars)
    /\ WF_allVars(ConsumerStep /\ UNCHANGED vars)

-----------------------------------------------------------------------------
(* Properties *)

\* A payment credits its wallet at most once, however often it was captured, settled,
\* published or delivered.
CreditedOnce == \A t \in Topups : credits[t] <= 1

\* Money posted to a wallet was captured: the acquirer approved the payment and its
\* settlement is recorded, and the payment shows it unless the acquirer took it back.
CreditBacked ==
    \A t \in Topups :
        credits[t] > 0 =>
            /\ t \in approved
            /\ \E e \in processed : PaymentOf(e) = t /\ verdict[e] = "SETTLED"
            /\ status[t] = "CAPTURED" \/ ReportedFailed(t)

\* A captured payment is never dropped on the way: its row is still PENDING, or its
\* record is still ahead of the consumer, or the wallet has the money, or the record
\* is on the dead-letter topic.
NothingLost ==
    \A e \in outbox :
        \/ e \notin published
        \/ \E i \in offset + 1 .. Len(topic) : topic[i] = e
        \/ credits[PaymentOf(e)] = 1
        \/ e \in dead

\* With finitely many faults, every captured payment reaches the wallet or the
\* dead-letter topic and no record blocks the partition, unless the gateway's producer
\* was refused by Kafka when the process last started.
EventuallyPosted ==
    \A e \in Settlements :
        e \in outbox ~> credits[PaymentOf(e)] = 1 \/ e \in dead \/ ~connected

-----------------------------------------------------------------------------
(* What makes them inductive, together with GatewayInv; proved in            *)
(* CardTopupProofs.                                                          *)

\* Shape of the pipeline's state.
RelayTypeOK ==
    /\ connected \in BOOLEAN
    /\ published \subseteq Settlements /\ batch \subseteq Settlements
    /\ sending \in {NothingSent} \cup {<<e>> : e \in Settlements}
    /\ topic \in Seq(Settlements) /\ faults \in Nat

ConsumerTypeOK ==
    /\ offset \in 0..Len(topic) /\ attempt \in Nat
    /\ applied \subseteq Topups /\ credits \in [Topups -> Nat]
    /\ dead \subseteq Settlements

PipelineTypeOK == RelayTypeOK /\ ConsumerTypeOK /\ handled \in BOOLEAN

\* What is on its way comes from a committed outbox row, and what the relay has marked or
\* is about to mark is on the topic.
RelayInv ==
    /\ batch \subseteq outbox
    /\ \A i \in 1..Len(topic) : topic[i] \in outbox
    /\ \A e \in Settlements :
          e \in published \/ sending = <<e>> => \E i \in 1..Len(topic) : topic[i] = e

\* A record that is done with.
Settled(e) == PaymentOf(e) \in applied \/ e \in dead

\* The guard row and the posting go together, and every record behind the consumer, or
\* handled by it, has been posted or put aside.
ConsumerInv ==
    /\ \A t \in Topups : credits[t] = IF t \in applied THEN 1 ELSE 0
    /\ \A t \in applied : \E e \in outbox : PaymentOf(e) = t
    /\ \A i \in 1..offset : Settled(topic[i])
    /\ handled => offset < Len(topic) /\ Settled(Record)

PipelineInv == RelayInv /\ ConsumerInv
=============================================================================
