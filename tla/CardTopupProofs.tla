---------------------------- MODULE CardTopupProofs ----------------------------
(***************************************************************************)
(* Proofs about CardTopup, for any number of payments, deliveries and      *)
(* faults: the composition keeps what PaymentGateway guarantees, and the   *)
(* pipeline posts every captured payment at most once and loses none.      *)
(***************************************************************************)
EXTENDS CardTopup, PaymentGatewayProofs

\* The pipeline only reads the gateway's tables: the composition is PaymentGateway with
\* steps of its own in between, so all that is proved of the gateway holds in it.
THEOREM TopupImplementsGateway == TopupSpec => Spec
  <1>1. [TopupNext]_allVars => [Next]_vars
    BY DEF TopupNext, allVars
  <1>2. QED
    BY <1>1, PTL DEF TopupSpec, Spec

LEMMA PipelineInitInv == Init /\ PipelineInit => PipelineTypeOK /\ PipelineInv
  <1> SUFFICES ASSUME Init, PipelineInit PROVE PipelineTypeOK /\ PipelineInv
    OBVIOUS
  <1> USE DEF Init, PipelineInit, NothingSent
  <1>1. RelayTypeOK /\ ConsumerTypeOK
    BY DEF RelayTypeOK, ConsumerTypeOK
  <1>2. PipelineTypeOK
    BY <1>1 DEF PipelineTypeOK
  <1>3. RelayInv
    BY DEF RelayInv
  <1>4. ConsumerInv
    BY DEF ConsumerInv
  <1>5. QED
    BY <1>2, <1>3, <1>4 DEF PipelineInv

\* The gateway adds outbox rows and never takes one away.
LEMMA OutboxGrows == TypeOK /\ [Next]_vars => outbox \subseteq outbox'
  BY ZenonT(60)
  DEF TypeOK, Next, TopupStep, AcquirerStep, HandlerStep, Fault, Replay, Insert, Authorize,
         SaveDeclined, SaveAuthorized, TopupLost, Captured, NotCaptured, CaptureLost, Post,
         Acknowledged, TryAgain, SettlementLost, Dedupe, Mark, Load, Save, CommitSettlement,
         CommitIgnored, AbortSettlement, vars, rows, calls, acquirer, handlers

LEMMA GatewayStep ==
  ASSUME TypeOK, PipelineTypeOK, PipelineInv, [Next]_vars, UNCHANGED pipeline
  PROVE  PipelineTypeOK' /\ PipelineInv'
  <1> USE DEF pipeline, relay, consumer
  <1>1. PipelineTypeOK'
    BY DEF PipelineTypeOK, RelayTypeOK, ConsumerTypeOK
  <1>2. outbox \subseteq outbox'
    BY OutboxGrows
  <1>3. RelayInv'
    BY <1>2 DEF PipelineInv, RelayInv
  <1>4. ConsumerInv'
    BY <1>2 DEF PipelineInv, ConsumerInv, Settled, Record
  <1>5. QED
    BY <1>1, <1>3, <1>4 DEF PipelineInv

\* A step of the relay may append the record of a committed row to the topic; it moves
\* nothing the consumer is at.
LEMMA RelaySteps ==
  ASSUME TypeOK, PipelineTypeOK, PipelineInv, UNCHANGED vars,
         RelayStep \/ \E e \in Settlements : BreakBatch(e)
  PROVE  PipelineTypeOK' /\ PipelineInv'
  <1> USE DEF PipelineTypeOK, RelayTypeOK, ConsumerTypeOK, PipelineInv, consumer, vars, rows,
              NothingSent
  <1>1. PICK e \in Settlements \cup {0} :
          /\ topic' = topic \/ (e \in outbox /\ topic' = Append(topic, e))
          /\ UNCHANGED <<outbox, consumer>>
    BY DEF RelayStep, Tick, Send, MarkPublished, Unsent, BreakBatch, RelayInv
  <1>2. /\ topic' \in Seq(Settlements) /\ Len(topic') >= Len(topic)
        /\ \A i \in 1..Len(topic) : topic'[i] = topic[i]
        /\ \A i \in 1..Len(topic') : topic'[i] \in outbox
    <2>1. \A i \in 1..Len(topic) : topic[i] \in outbox
      BY DEF RelayInv
    <2>2. CASE topic' = topic
      BY <2>1, <2>2
    <2>3. CASE e \in outbox /\ topic' = Append(topic, e)
      <3>1. topic \in Seq(Settlements) /\ e \in Settlements
        BY <2>3 DEF TypeOK
      <3>2. QED
        BY <2>1, <2>3, <3>1
    <2>4. QED
      BY <1>1, <2>2, <2>3
  <1>3. PipelineTypeOK'
    BY <1>1, <1>2 DEF RelayStep, Tick, Send, MarkPublished, Unsent, BreakBatch, Faulty, TypeOK
  <1>4. \A f \in Settlements :
          (\E i \in 1..Len(topic) : topic[i] = f) => \E i \in 1..Len(topic') : topic'[i] = f
    BY <1>2
  <1>5. \A f \in Settlements :
          topic' = Append(topic, f) => \E i \in 1..Len(topic') : topic'[i] = f
    BY <1>2
  <1>6. RelayInv'
    <2>1. batch' \subseteq outbox
      BY DEF RelayInv, RelayStep, Tick, Send, MarkPublished, Unsent, BreakBatch
    <2>2. ASSUME NEW f \in Settlements, f \in published' \/ sending' = <<f>>
          PROVE  \/ f \in published \/ sending = <<f>>
                 \/ topic' = Append(topic, f)
      BY <2>2 DEF RelayStep, Tick, Send, MarkPublished, Unsent, BreakBatch
    <2>3. QED
      BY <1>1, <1>2, <1>4, <1>5, <2>1, <2>2 DEF RelayInv
  <1>7. ConsumerInv'
    <2>1. offset' = offset /\ applied' = applied /\ credits' = credits /\ dead' = dead
          /\ handled' = handled /\ outbox' = outbox
      BY <1>1
    <2>2. \A i \in 1..offset : topic'[i] = topic[i]
      BY <1>2
    <2>3. offset < Len(topic) => offset < Len(topic') /\ topic'[offset + 1] = topic[offset + 1]
      BY <1>2
    <2>4. QED
      BY <2>1, <2>2, <2>3 DEF ConsumerInv, Settled, Record
  <1>8. QED
    BY <1>3, <1>6, <1>7

LEMMA ConsumerSteps ==
  ASSUME TypeOK, PipelineTypeOK, PipelineInv, UNCHANGED vars, ConsumerStep \/ Redeliver
  PROVE  PipelineTypeOK' /\ PipelineInv'
  <1> USE SettlementType
      DEF PipelineTypeOK, RelayTypeOK, ConsumerTypeOK, PipelineInv, RelayInv, ConsumerInv, Settled, Record, relay, vars, rows
  <1>1. CASE Apply
    <2>1. /\ Record \in Settlements /\ PaymentOf(Record) \in Topups /\ Record \in outbox
          /\ offset < Len(topic)
      BY <1>1 DEF Apply, Waiting
    <2>2. /\ applied' = applied \cup {PaymentOf(Record)}
          /\ handled' = TRUE
          /\ UNCHANGED <<relay, topic, offset, attempt, dead, faults>>
      BY <1>1 DEF Apply
    <2>3. credits' = [credits EXCEPT ![PaymentOf(Record)] =
                        IF PaymentOf(Record) \in applied THEN @ ELSE @ + 1]
      BY <1>1 DEF Apply
    <2> HIDE DEF Record
    <2>4. handled' \in BOOLEAN
      BY <2>2
    <2>5. RelayTypeOK' /\ ConsumerTypeOK' /\ RelayInv'
      BY <2>1, <2>2, <2>3
    <2>6. ConsumerInv'
      BY <2>1, <2>2, <2>3 DEF Record
    <2>7. QED
      BY <2>4, <2>5, <2>6
  <1>2. CASE FailDelivery
    <2>1. Record \in Settlements /\ offset < Len(topic)
      BY <1>2 DEF FailDelivery, Waiting
    <2>2. handled' \in BOOLEAN
      BY <1>2 DEF FailDelivery
    <2>3. RelayTypeOK' /\ ConsumerTypeOK' /\ RelayInv'
      BY <1>2, <2>1 DEF FailDelivery
    <2>4. ConsumerInv'
      BY <1>2, <2>1 DEF FailDelivery
    <2>5. QED
      BY <2>2, <2>3, <2>4
  <1>3. CASE CommitOffset
    <2>1. handled' \in BOOLEAN
      BY <1>3 DEF CommitOffset
    <2>2. RelayTypeOK' /\ ConsumerTypeOK' /\ RelayInv'
      BY <1>3 DEF CommitOffset
    <2>3. \A i \in 1..offset' : Settled(topic[i])
      BY <1>3 DEF CommitOffset
    <2>4. ConsumerInv'
      BY <1>3, <2>3 DEF CommitOffset
    <2>5. QED
      BY <2>1, <2>2, <2>4
  <1>4. CASE Redeliver
    <2>1. handled' \in BOOLEAN
      BY <1>4 DEF Redeliver
    <2>2. RelayTypeOK' /\ ConsumerTypeOK' /\ RelayInv'
      BY <1>4 DEF Redeliver, Faulty
    <2>3. ConsumerInv'
      BY <1>4 DEF Redeliver
    <2>4. QED
      BY <2>1, <2>2, <2>3
  <1>5. QED
    BY <1>1, <1>2, <1>3, <1>4 DEF ConsumerStep

LEMMA PipelineAlways == TopupSpec => [](TypeOK /\ GatewayInv /\ PipelineTypeOK /\ PipelineInv)
  <1>1. TypeOK /\ PipelineTypeOK /\ PipelineInv /\ [TopupNext]_allVars
          => (PipelineTypeOK /\ PipelineInv)'
    <2> SUFFICES ASSUME TypeOK, PipelineTypeOK, PipelineInv, [TopupNext]_allVars
                 PROVE  PipelineTypeOK' /\ PipelineInv'
      OBVIOUS
    <2>1. \/ [Next]_vars /\ UNCHANGED pipeline
          \/ PipelineNext /\ UNCHANGED vars
      BY DEF TopupNext, allVars
    <2>2. QED
      BY <2>1, GatewayStep, RelaySteps, ConsumerSteps DEF PipelineNext
  <1>2. QED
    BY <1>1, PipelineInitInv, TopupImplementsGateway, GatewayAlways, PTL DEF TopupSpec

-----------------------------------------------------------------------------
(* What follows *)

\* A payment credits its wallet at most once, however often it was captured, settled,
\* published or delivered, and however relay and consumer crash.
THEOREM OneCredit == TopupSpec => []CreditedOnce
  <1>1. PipelineTypeOK /\ PipelineInv => CreditedOnce
    BY DEF PipelineInv, ConsumerInv, CreditedOnce
  <1>2. QED
    BY <1>1, PipelineAlways, PTL

\* Money posted to a wallet was captured: the acquirer approved the payment, its settlement
\* is recorded, and the payment shows it unless the acquirer took it back.
THEOREM CreditsAreBacked == TopupSpec => []CreditBacked
  <1>1. TypeOK /\ GatewayInv /\ PipelineTypeOK /\ PipelineInv => CreditBacked
    <2> SUFFICES ASSUME TypeOK, GatewayInv, PipelineTypeOK, PipelineInv,
                        NEW t \in Topups, credits[t] > 0
                 PROVE  /\ t \in approved
                        /\ \E e \in processed : PaymentOf(e) = t /\ verdict[e] = "SETTLED"
                        /\ status[t] = "CAPTURED" \/ ReportedFailed(t)
      BY DEF CreditBacked
    <2>1. PICK e \in outbox : PaymentOf(e) = t
      BY DEF PipelineInv, ConsumerInv
    <2>2. e \in processed /\ verdict[e] = "SETTLED"
      BY DEF GatewayInv, RecordInv
    <2>3. t \in approved
      BY <2>1, <2>2 DEF TypeOK, GatewayInv, DeliveryInv
    <2>4. QED
      BY <2>1, <2>2, <2>3 DEF GatewayInv, RecordInv
  <1>2. QED
    BY <1>1, PipelineAlways, PTL

\* A captured payment is never dropped between the outbox and the wallet.
THEOREM NoCaptureLost == TopupSpec => []NothingLost
  <1>1. TypeOK /\ PipelineTypeOK /\ PipelineInv => NothingLost
    <2> SUFFICES ASSUME TypeOK, PipelineTypeOK, PipelineInv, NEW e \in outbox, e \in published
                 PROVE  \/ \E i \in offset + 1 .. Len(topic) : topic[i] = e
                        \/ credits[PaymentOf(e)] = 1
                        \/ e \in dead
      BY DEF NothingLost
    <2>1. e \in Settlements /\ PaymentOf(e) \in Topups
      BY SettlementType DEF TypeOK
    <2>2. PICK i \in 1..Len(topic) : topic[i] = e
      BY <2>1 DEF PipelineInv, RelayInv
    <2>3. CASE i > offset
      BY <2>2, <2>3 DEF PipelineTypeOK, RelayTypeOK, ConsumerTypeOK
    <2>4. CASE i <= offset
      BY <2>1, <2>2, <2>4
      DEF PipelineTypeOK, RelayTypeOK, ConsumerTypeOK, PipelineInv, ConsumerInv, Settled
    <2>5. QED
      BY <2>2, <2>3, <2>4 DEF PipelineTypeOK, RelayTypeOK, ConsumerTypeOK
  <1>2. QED
    BY <1>1, PipelineAlways, PTL
=============================================================================
