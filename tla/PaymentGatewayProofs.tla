------------------------- MODULE PaymentGatewayProofs -------------------------
(***************************************************************************)
(* Proofs about PaymentGateway, for any number of top-up calls, keys,      *)
(* retries and deliveries.                                                 *)
(***************************************************************************)
EXTENDS PaymentGateway, TLAPS

\* Settlements and deliveries, taken apart.
LEMMA SettlementType ==
  /\ \A e \in Settlements : PaymentOf(e) \in Topups /\ e[2] \in 0..MaxRetries
  /\ \A e \in Settlements : e = <<PaymentOf(e), e[2]>>
  /\ \A t \in Topups : \A n \in 0..MaxRetries :
        <<t, n>> \in Settlements /\ PaymentOf(<<t, n>>) = t
  BY DEF Settlements, PaymentOf

LEMMA DeliveryType ==
  /\ \A d \in Deliveries : SettlementOf(d) \in Settlements /\ d[2] \in 1..WebhookTries
  /\ \A e \in Settlements : \A n \in 1..WebhookTries :
        <<e, n>> \in Deliveries /\ SettlementOf(<<e, n>>) = e
  BY DEF Deliveries, SettlementOf

LEMMA InitType == Init => TypeOK
  BY GatewayAssumption DEF Init, TypeOK, AnyVerdict

-----------------------------------------------------------------------------
(* Type correctness.  sent stays within WebhookTries because only a delivery *)
(* that is due is sent.                                                      *)

LEMMA TopupType ==
  ASSUME TypeOK, NEW t \in Topups, TopupStep(t) \/ TopupLost(t)
  PROVE  TypeOK'
  <1> USE DEF TypeOK, Answer, Goto, StoredUnder, rows, calls, acquirer, handlers
  <1>1. CASE Replay(t)
    BY <1>1 DEF Replay
  <1>2. CASE Insert(t)
    BY <1>2 DEF Insert
  <1>3. CASE Authorize(t)
    BY <1>3, GatewayAssumption DEF Authorize, Approved, Declined, Unanswered
  <1>4. CASE SaveDeclined(t)
    BY <1>4 DEF SaveDeclined
  <1>5. CASE SaveAuthorized(t)
    BY <1>5 DEF SaveAuthorized
  <1>6. CASE TopupLost(t)
    BY <1>6 DEF TopupLost
  <1>7. QED
    BY <1>1, <1>2, <1>3, <1>4, <1>5, <1>6 DEF TopupStep

LEMMA CaptureType ==
  ASSUME TypeOK, DeliveryInv, NEW t \in Topups,
         \/ \E answered \in BOOLEAN : Captured(t, answered)
         \/ NotCaptured(t)
         \/ CaptureLost(t)
  PROVE  TypeOK'
  <1> USE DEF TypeOK, rows, calls, acquirer, handlers
  <1>1. ASSUME NEW answered \in BOOLEAN, AfterAttempt(t, answered)
        PROVE  /\ tries' \in [Topups -> 0..MaxRetries]
               /\ capture' \in [Topups -> {"none", "running", "ended"}]
    BY <1>1, GatewayAssumption DEF AfterAttempt
  <1>2. ASSUME NEW answered \in BOOLEAN, Captured(t, answered) PROVE TypeOK'
    BY <1>1, <1>2, SettlementType DEF Captured
  <1>3. CASE NotCaptured(t)
    BY <1>1, <1>3 DEF NotCaptured
  <1>4. CASE CaptureLost(t)
    BY <1>4 DEF CaptureLost
  <1>5. QED
    BY <1>2, <1>3, <1>4

LEMMA WebhookType ==
  ASSUME TypeOK, DeliveryInv, NEW e \in Settlements,
         Post(e) \/ Acknowledged(e) \/ TryAgain(e) \/ SettlementLost(e)
  PROVE  TypeOK'
  <1> USE DEF TypeOK, rows, calls, acquirer, handlers
  <1>1. CASE Post(e)
    <2>1. sent[e] + 1 \in 0..WebhookTries
      BY <1>1, GatewayAssumption DEF Post, DeliveryInv
    <2>2. QED
      BY <1>1, <2>1 DEF Post
  <1>2. CASE Acknowledged(e)
    BY <1>2 DEF Acknowledged
  <1>3. CASE TryAgain(e)
    BY <1>3 DEF TryAgain
  <1>4. CASE SettlementLost(e)
    BY <1>4 DEF SettlementLost
  <1>5. QED
    BY <1>1, <1>2, <1>3, <1>4

LEMMA HandlerType ==
  ASSUME TypeOK, NEW d \in Deliveries, HandlerStep(d) \/ AbortSettlement(d)
  PROVE  TypeOK'
  <1> USE DeliveryType, SettlementType
      DEF TypeOK, HandlerAt, Unlocked, rows, calls, acquirer, handlers
  <1>1. CASE Dedupe(d)
    BY <1>1 DEF Dedupe
  <1>2. CASE Mark(d)
    BY <1>2 DEF Mark
  <1>3. CASE Load(d)
    BY <1>3 DEF Load
  <1>4. CASE Save(d)
    BY <1>4 DEF Save
  <1>5. CASE CommitSettlement(d)
    BY <1>5 DEF CommitSettlement, Becomes
  <1>6. CASE CommitIgnored(d)
    BY <1>6 DEF CommitIgnored
  <1>7. CASE AbortSettlement(d)
    BY <1>7 DEF AbortSettlement
  <1>8. QED
    BY <1>1, <1>2, <1>3, <1>4, <1>5, <1>6, <1>7 DEF HandlerStep

LEMMA NextType == TypeOK /\ DeliveryInv /\ [Next]_vars => TypeOK'
  <1> SUFFICES ASSUME TypeOK, DeliveryInv, [Next]_vars PROVE TypeOK'
    OBVIOUS
  <1>1. CASE UNCHANGED vars
    BY <1>1 DEF TypeOK, vars, rows, calls, acquirer, handlers
  <1>2. QED
    BY <1>1, TopupType, CaptureType, WebhookType, HandlerType
    DEF Next, AcquirerStep, Fault
-----------------------------------------------------------------------------
(* The inductive invariant.  A step of one topup call changes at most its own *)
(* row; a step of a capture or a delivery changes none; a handler changes the *)
(* row of the payment it holds.                                               *)

LEMMA InitInv == Init => GatewayInv
  BY SettlementType, DeliveryType
  DEF Init, GatewayInv, CallInv, KeyInv, DeliveryInv, RecordInv, HandlerInv

\* What was reported stays reported, as long as no recorded verdict changes.
LEMMA ReportStays ==
  ASSUME NEW t, ReportedFailed(t), processed \subseteq processed',
         \A e \in processed : verdict'[e] = verdict[e]
  PROVE  ReportedFailed(t)'
  BY DEF ReportedFailed

LEMMA TopupInv ==
  ASSUME TypeOK, GatewayInv, NEW t \in Topups, TopupStep(t) \/ TopupLost(t)
  PROVE  GatewayInv'
  <1> USE DEF TypeOK, GatewayInv, Answer, Goto, rows, calls, acquirer, handlers
  <1>1. /\ UNCHANGED <<key, processed, outbox, acquirer, handlers>>
        /\ \A u \in Topups \ {t} : /\ status'[u] = status[u]
                                   /\ capture'[u] = capture[u] /\ tries'[u] = tries[u]
                                   /\ pc'[u] = pc[u] /\ answer'[u] = answer[u]
                                   /\ u \in approved' <=> u \in approved
    BY DEF TopupStep, Replay, Insert, Authorize, Approved, Declined, Unanswered,
           SaveDeclined, SaveAuthorized, TopupLost, StoredUnder
  <1>2. CallInv'
    BY DEF CallInv, TopupStep, Replay, Insert, Authorize, Approved, Declined, Unanswered,
           SaveDeclined, SaveAuthorized, TopupLost, StoredUnder
  <1>3. KeyInv'
    BY DEF CallInv, KeyInv, TopupStep, Replay, Insert, Authorize, Approved, Declined,
           Unanswered, SaveDeclined, SaveAuthorized, TopupLost, StoredUnder
  <1>4. DeliveryInv'
    BY <1>1, SettlementType
    DEF CallInv, DeliveryInv, TopupStep, Replay, Insert, Authorize, Approved, Declined,
        Unanswered, SaveDeclined, SaveAuthorized, TopupLost
  <1>5. \A u \in Topups : ReportedFailed(u) <=> ReportedFailed(u)'
    BY <1>1 DEF ReportedFailed
  <1>6. RecordInv'
    <2>1. \A e \in outbox : PaymentOf(e) # t \/ pc[t] = "done"
      BY SettlementType DEF CallInv, DeliveryInv, RecordInv
    <2>2. \A e \in processed : PaymentOf(e) # t \/ pc[t] = "done"
      BY SettlementType DEF CallInv, DeliveryInv
    <2>3. status'[t] \in {status[t], "PENDING", "AUTHORIZED"} \/ SaveDeclined(t)
      BY DEF TopupStep, Replay, Insert, Authorize, SaveAuthorized, TopupLost
    <2>4. SaveDeclined(t) => status'[t] = "FAILED" /\ pc[t] = "declined" /\ t \notin approved'
      BY DEF SaveDeclined, CallInv
    <2>5. approved \subseteq approved' /\ approved' \subseteq Topups
      BY DEF TopupStep, Replay, Insert, Authorize, Approved, Declined, Unanswered,
             SaveDeclined, SaveAuthorized, TopupLost
    <2>6. t \in approved' /\ t \notin approved => pc[t] = "authorize" /\ status'[t] = status[t]
      BY DEF TopupStep, Replay, Insert, Authorize, Approved, Declined, Unanswered,
             SaveDeclined, SaveAuthorized, TopupLost
    <2>7. status'[t] # status[t] => pc[t] # "done"
      BY DEF CallInv, TopupStep, Replay, Insert, Authorize, Approved, Declined,
             Unanswered, SaveDeclined, SaveAuthorized, TopupLost
    <2>8. \A u \in Topups : status'[u] = "CAPTURED" => status[u] = "CAPTURED" /\ u \in approved'
      BY <1>1, <2>3, <2>4, <2>5 DEF RecordInv
    <2>9. ASSUME NEW u \in approved', ~ReportedFailed(u)'
          PROVE  /\ status'[u] # "FAILED"
                 /\ status'[u] = "CAPTURED" <=> \E e \in outbox : PaymentOf(e) = u
                 /\ \A e \in processed : PaymentOf(e) = u => e \in outbox
      <3>1. CASE u # t
        BY <1>1, <1>5, <2>9, <2>5, <3>1 DEF RecordInv
      <3>2. CASE u = t /\ t \in approved /\ status'[t] = status[t]
        BY <1>1, <1>5, <2>9, <3>2 DEF RecordInv
      <3>3. CASE u = t /\ pc[t] # "done"
        BY <1>1, <2>1, <2>2, <2>3, <2>6, <2>9, <2>4, <3>3 DEF CallInv, RecordInv
      <3>4. QED
        BY <1>1, <2>6, <2>7, <2>9, <3>1, <3>2, <3>3
    <2>10. QED
      BY <1>1, <2>8, <2>9 DEF RecordInv
  <1>7. HandlerInv'
    <2> SUFFICES ASSUME NEW d \in Deliveries, NEW u, u = PaymentOf(SettlementOf(d))
                 PROVE  /\ run[d] = "ignore" => ReportedFailed(u)'
                        /\ run[d] = "commit" => \/ rowLock[u] = d
                                                \/ status'[u] = Becomes(SettlementOf(d))
                                                \/ ReportedFailed(u)'
      BY <1>1 DEF HandlerInv, Becomes
    <2>1. u \in Topups /\ (run[d] # "none" => pc[u] = "done")
      BY SettlementType, DeliveryType DEF CallInv, DeliveryInv
    <2>2. pc[u] = "done" => status'[u] = status[u]
      BY <1>1, <2>1 DEF TopupStep, Replay, Insert, Authorize, SaveDeclined, SaveAuthorized, TopupLost
    <2>3. QED
      BY <1>5, <2>1, <2>2 DEF HandlerInv
  <1>8. QED
    BY <1>2, <1>3, <1>4, <1>6, <1>7

\* A capture or a delivery touches no row; a verdict is chosen before anybody heard it.
LEMMA UntouchedRows ==
  ASSUME TypeOK, GatewayInv, UNCHANGED <<key, rows, pc, answer, rowLock>>, DeliveryInv',
         \A e \in processed : verdict'[e] = verdict[e],
         \A t \in Topups : capture'[t] # "none" => capture[t] # "none",
         \A d \in Deliveries : /\ run'[d] = run[d] \/ run'[d] = "dedupe"
                               /\ run[d] # "none" =>
                                    verdict'[SettlementOf(d)] = verdict[SettlementOf(d)]
  PROVE  GatewayInv'
  <1> USE DEF TypeOK, GatewayInv, rows
  <1>1. \A t \in Topups : ReportedFailed(t)' <=> ReportedFailed(t)
    BY DEF ReportedFailed
  <1>2. CallInv' /\ KeyInv'
    BY DEF CallInv, KeyInv
  <1>3. RecordInv'
    BY <1>1 DEF RecordInv
  <1>4. HandlerInv'
    <2> SUFFICES ASSUME NEW d \in Deliveries, NEW t \in Topups, t = PaymentOf(SettlementOf(d))
                 PROVE  /\ run'[d] = "ignore" => ReportedFailed(t)'
                        /\ run'[d] = "commit" => \/ rowLock[t] = d
                                                 \/ status[t] = Becomes(SettlementOf(d))'
                                                 \/ ReportedFailed(t)'
      BY SettlementType, DeliveryType DEF HandlerInv
    <2>1. QED
      BY <1>1 DEF HandlerInv, Becomes
  <1>5. QED
    BY <1>2, <1>3, <1>4

LEMMA CaptureInv ==
  ASSUME TypeOK, GatewayInv, NEW t \in Topups,
         \/ \E answered \in BOOLEAN : Captured(t, answered)
         \/ NotCaptured(t)
         \/ CaptureLost(t)
  PROVE  GatewayInv'
  <1> USE DEF TypeOK, GatewayInv, rows, calls, acquirer, handlers
  <1>1. ASSUME NEW answered \in BOOLEAN, AfterAttempt(t, answered), capture[t] = "running"
        PROVE  /\ \A u \in Topups \ {t} : tries'[u] = tries[u] /\ capture'[u] = capture[u]
               /\ capture'[t] = "running" => tries'[t] = tries[t] + 1
               /\ capture'[t] \in {"running", "ended"}
    BY <1>1 DEF AfterAttempt
  <1>2. ASSUME NEW answered \in BOOLEAN, Captured(t, answered) PROVE GatewayInv'
    <2> DEFINE e == <<t, tries[t]>>
    <2>1. /\ e \in Settlements /\ PaymentOf(e) = t
          /\ webhook[e] = "none"
          /\ webhook' = [webhook EXCEPT ![e] = "due"]
          /\ \A f \in Settlements \ {e} : verdict'[f] = verdict[f]
      BY <1>2, SettlementType DEF Captured, DeliveryInv
    <2>2. DeliveryInv'
      BY <1>1, <1>2, <2>1, GatewayAssumption, SettlementType, DeliveryType
      DEF Captured, DeliveryInv
    <2>3. QED
      BY <1>1, <1>2, <2>1, <2>2, UntouchedRows, DeliveryType DEF Captured, DeliveryInv
  <1>3. CASE NotCaptured(t)
    <2>1. /\ \A u \in Topups \ {t} : tries'[u] = tries[u] /\ capture'[u] = capture[u]
          /\ capture'[t] = "running" => tries'[t] = tries[t] + 1
          /\ capture[t] = "running" /\ capture'[t] \in {"running", "ended"}
      BY <1>1, <1>3 DEF NotCaptured
    <2>2. DeliveryInv'
      <3>1. UNCHANGED <<rows, webhook, sent, run>>
        BY <1>3 DEF NotCaptured
      <3>2. \A e \in Settlements : e[2] \in Nat /\ tries[PaymentOf(e)] \in Nat
        BY SettlementType
      <3>3. QED
        BY <2>1, <3>1, <3>2, SettlementType, DeliveryType DEF DeliveryInv
    <2>3. QED
      BY <1>3, <2>1, <2>2, UntouchedRows DEF NotCaptured
  <1>4. CASE CaptureLost(t)
    <2>1. DeliveryInv'
      BY <1>4, SettlementType, DeliveryType DEF CaptureLost, DeliveryInv
    <2>2. QED
      BY <1>4, <2>1, UntouchedRows DEF CaptureLost
  <1>5. QED
    BY <1>2, <1>3, <1>4

LEMMA WebhookInv ==
  ASSUME TypeOK, GatewayInv, NEW e \in Settlements,
         Post(e) \/ Acknowledged(e) \/ TryAgain(e) \/ SettlementLost(e)
  PROVE  GatewayInv'
  <1> USE DEF TypeOK, GatewayInv, rows, calls, acquirer, handlers
  <1>1. /\ UNCHANGED <<key, rows, calls, verdict, rowLock>>
        /\ \A d \in Deliveries : run'[d] = run[d] \/ run'[d] = "dedupe"
    BY DEF Post, Acknowledged, TryAgain, SettlementLost
  <1>2. DeliveryInv'
    <2>1. CASE Post(e)
      BY <2>1, GatewayAssumption, SettlementType, DeliveryType DEF Post, DeliveryInv
    <2>2. CASE Acknowledged(e) \/ TryAgain(e) \/ SettlementLost(e)
      BY <2>2, SettlementType, DeliveryType DEF Acknowledged, TryAgain, SettlementLost, DeliveryInv
    <2>3. QED
      BY <2>1, <2>2
  <1>3. QED
    BY <1>1, <1>2, UntouchedRows

\* A handler that reads, waits or rolls back: no table changes.
LEMMA ReadInv ==
  ASSUME TypeOK, GatewayInv, NEW d \in Deliveries,
         Dedupe(d) \/ Mark(d) \/ Load(d) \/ Save(d) \/ AbortSettlement(d)
  PROVE  GatewayInv'
  <1> USE DEF TypeOK, GatewayInv, HandlerAt, rows, calls, acquirer
  <1>1. /\ UNCHANGED <<key, rows, calls, acquirer>>
        /\ \A x \in Deliveries \ {d} : run'[x] = run[x]
        /\ run[d] # "none"
    BY DEF Dedupe, Mark, Load, Save, AbortSettlement
  <1>2. CallInv' /\ KeyInv' /\ DeliveryInv'
    BY <1>1, DeliveryType DEF CallInv, KeyInv, DeliveryInv
  <1>3. \A t \in Topups : ReportedFailed(t)' <=> ReportedFailed(t)
    BY <1>1 DEF ReportedFailed
  <1>4. RecordInv'
    BY <1>1, <1>3 DEF RecordInv
  <1>5. \A x \in Deliveries \ {d} : \A t \in Topups : rowLock[t] = x => rowLock'[t] = x
    BY NoOneAssumption DEF Dedupe, Mark, Load, Save, AbortSettlement, Unlocked
  <1>6. HandlerInv'
    <2> SUFFICES ASSUME NEW x \in Deliveries, NEW t \in Topups, t = PaymentOf(SettlementOf(x))
                 PROVE  /\ run'[x] = "ignore" => ReportedFailed(t)
                        /\ run'[x] = "commit" => \/ rowLock'[t] = x
                                                 \/ status[t] = Becomes(SettlementOf(x))
                                                 \/ ReportedFailed(t)
      BY <1>1, <1>3, SettlementType, DeliveryType DEF HandlerInv, Becomes
    <2>1. CASE x # d
      BY <1>1, <1>5, <2>1 DEF HandlerInv
    <2>2. CASE x = d /\ run'[d] = "ignore"
      <3>1. status[t] \in {"NONE", "FAILED"}
        BY <2>2 DEF Dedupe, Mark, Load, Save, AbortSettlement
      <3>2. t \in approved
        BY <1>1, <2>2, SettlementType, DeliveryType DEF DeliveryInv
      <3>3. QED
        BY <2>2, <3>1, <3>2 DEF CallInv, RecordInv
    <2>3. CASE x = d /\ run'[d] = "commit"
      BY <2>3 DEF Dedupe, Mark, Load, Save, AbortSettlement
    <2>4. QED
      BY <2>1, <2>2, <2>3
  <1>7. QED
    BY <1>2, <1>4, <1>6

LEMMA CommitIgnoredInv ==
  ASSUME TypeOK, GatewayInv, NEW d \in Deliveries, CommitIgnored(d)
  PROVE  GatewayInv'
  <1> USE DEF TypeOK, GatewayInv, HandlerAt, CommitIgnored, calls, acquirer
  <1>1. CallInv' /\ KeyInv' /\ DeliveryInv'
    BY SettlementType, DeliveryType DEF CallInv, KeyInv, DeliveryInv
  <1>2. \A t \in Topups : ReportedFailed(t) => ReportedFailed(t)'
    BY ReportStays
  <1>3. ReportedFailed(PaymentOf(SettlementOf(d)))
    BY DEF HandlerInv
  <1>4. RecordInv'
    BY <1>2, <1>3, SettlementType, DeliveryType DEF RecordInv
  <1>5. HandlerInv'
    BY <1>2, SettlementType, DeliveryType DEF HandlerInv, Becomes
  <1>6. QED
    BY <1>1, <1>4, <1>5

LEMMA CommitSettlementInv ==
  ASSUME TypeOK, GatewayInv, NEW d \in Deliveries, CommitSettlement(d)
  PROVE  GatewayInv'
  <1> DEFINE e == SettlementOf(d)
             t == PaymentOf(e)
  <1> USE DEF TypeOK, GatewayInv, HandlerAt, CommitSettlement, calls, acquirer
  <1>1. /\ e \in Settlements /\ t \in Topups /\ t \in approved
        /\ run[d] = "commit" /\ capture[t] # "none" /\ webhook[e] # "none"
        /\ verdict[e] \in {"SETTLED", "FAILED"}
    BY SettlementType, DeliveryType, GatewayAssumption DEF DeliveryInv
  <1>2. /\ status' = [status EXCEPT ![t] = IF rowLock[t] = d THEN Becomes(e) ELSE @]
        /\ processed' = processed \cup {e}
        /\ outbox' = IF verdict[e] = "SETTLED" THEN outbox \cup {e} ELSE outbox
        /\ rowLock' = Unlocked(d) /\ run' = [run EXCEPT ![d] = "ok"]
        /\ UNCHANGED <<key, approved, calls, acquirer>>
    OBVIOUS
  <1> HIDE DEF CommitSettlement, e, t
  <1>3. Becomes(e) = (IF verdict[e] = "SETTLED" THEN "CAPTURED" ELSE "FAILED")
    BY DEF Becomes
  <1>4. CallInv' /\ KeyInv'
    BY <1>1, <1>2, <1>3 DEF CallInv, KeyInv
  <1>5. DeliveryInv'
    BY <1>1, <1>2, DeliveryType DEF DeliveryInv
  <1>6. \A u \in Topups : ReportedFailed(u) => ReportedFailed(u)'
    BY <1>2, ReportStays
  <1>7. verdict[e] = "FAILED" => ReportedFailed(t)'
    BY <1>1, <1>2 DEF ReportedFailed, t
  <1>8. verdict[e] = "SETTLED" => status'[t] = "CAPTURED" \/ ReportedFailed(t)'
    BY <1>1, <1>2, <1>3, <1>6 DEF HandlerInv, e, t
  <1>9. RecordInv'
    <2>1. \A f \in outbox' : f \in processed' /\ verdict'[f] = "SETTLED"
      BY <1>2 DEF RecordInv
    <2>2. \A u \in Topups : status'[u] = "CAPTURED" => u \in approved'
      BY <1>1, <1>2 DEF RecordInv
    <2>3. \A u \in approved' :
            \/ ReportedFailed(u)'
            \/ /\ status'[u] # "FAILED"
               /\ status'[u] = "CAPTURED" <=> \E f \in outbox' : PaymentOf(f) = u
               /\ \A f \in processed' : PaymentOf(f) = u => f \in outbox'
      <3>1. CASE verdict[e] = "FAILED"
        BY <1>1, <1>2, <1>6, <1>7, <3>1 DEF RecordInv, t
      <3>2. CASE verdict[e] = "SETTLED"
        BY <1>1, <1>2, <1>6, <1>8, <3>2 DEF RecordInv, t
      <3>3. QED
        BY <1>1, <3>1, <3>2
    <2>4. QED
      BY <2>1, <2>2, <2>3 DEF RecordInv
  <1>10. HandlerInv'
    <2> SUFFICES ASSUME NEW x \in Deliveries, NEW u \in Topups, u = PaymentOf(SettlementOf(x))
                 PROVE  /\ run'[x] = "ignore" => ReportedFailed(u)'
                        /\ run'[x] = "commit" => \/ rowLock'[u] = x
                                                 \/ status'[u] = Becomes(SettlementOf(x))
                                                 \/ ReportedFailed(u)'
      BY <1>2, SettlementType, DeliveryType DEF HandlerInv, Becomes
    <2>1. rowLock[u] = x /\ x # d => rowLock'[u] = x
      BY <1>2 DEF Unlocked
    <2>2. u = t /\ status'[t] # status[t] => ReportedFailed(t)' \/ status'[t] = "CAPTURED"
      BY <1>1, <1>2, <1>3, <1>7
    <2>3. u = t => Becomes(SettlementOf(x)) = "CAPTURED" \/ status[t] # "FAILED" \/ ReportedFailed(t)'
      BY <1>1, <1>6 DEF RecordInv
    <2>4. Becomes(SettlementOf(x)) \in {"CAPTURED", "FAILED"}
      BY DEF Becomes
    <2>5. QED
      BY <1>2, <1>6, <2>1, <2>2, <2>3, <2>4 DEF HandlerInv
  <1>11. QED
    BY <1>4, <1>5, <1>9, <1>10

LEMMA NextInv == TypeOK /\ GatewayInv /\ [Next]_vars => GatewayInv'
  <1> SUFFICES ASSUME TypeOK, GatewayInv, [Next]_vars PROVE GatewayInv'
    OBVIOUS
  <1>1. CASE UNCHANGED vars
    BY <1>1
    DEF GatewayInv, CallInv, KeyInv, DeliveryInv, RecordInv, HandlerInv, ReportedFailed,
        Becomes, vars, rows, calls, acquirer, handlers
  <1>2. QED
    BY <1>1, TopupInv, CaptureInv, WebhookInv, ReadInv, CommitIgnoredInv, CommitSettlementInv
    DEF Next, TopupStep, AcquirerStep, HandlerStep, Fault

LEMMA GatewayAlways == Spec => [](TypeOK /\ GatewayInv)
  <1>1. Init => TypeOK /\ GatewayInv
    BY InitType, InitInv
  <1>2. TypeOK /\ GatewayInv /\ [Next]_vars => (TypeOK /\ GatewayInv)'
    BY NextType, NextInv DEF GatewayInv
  <1>3. QED
    BY <1>1, <1>2, PTL DEF Spec

-----------------------------------------------------------------------------
(* What follows from it *)

\* The rows, the calls and the deliveries keep their shape; in particular no settlement is
\* sent more often than WebhookTries, however many captures were made of its payment.
THEOREM GatewayTypeCorrect == Spec => []TypeOK
  BY GatewayAlways, PTL

\* However many calls carry one key and however they race, they get one payment, and one
\* payment reaches the acquirer.
THEOREM OnePayment == Spec => []OnePaymentPerKey
  <1>1. TypeOK /\ GatewayInv => OnePaymentPerKey
    <2> SUFFICES ASSUME TypeOK, GatewayInv, NEW t \in Topups, NEW u \in Topups, key[t] = key[u]
                 PROVE  /\ answer[t] # NoOne /\ answer[u] # NoOne => answer[t] = answer[u]
                        /\ t \in approved /\ u \in approved => t = u
      BY DEF OnePaymentPerKey
    <2>1. answer[t] # NoOne /\ answer[u] # NoOne => answer[t] = answer[u]
      BY DEF TypeOK, GatewayInv, KeyInv
    <2>2. t \in approved /\ u \in approved => t = u
      BY DEF GatewayInv, CallInv, KeyInv
    <2>3. QED
      BY <2>1, <2>2
  <1>2. QED
    BY <1>1, GatewayAlways, PTL

\* A settled webhook that is recorded as processed has left a PaymentCaptured row: no
\* crash, overlap or retry turns money the acquirer took into a no-op.
THEOREM NothingSwallowed == Spec => []NoSettlementSwallowed
  <1>1. TypeOK /\ GatewayInv => NoSettlementSwallowed
    BY DEF TypeOK, GatewayInv, DeliveryInv, RecordInv, NoSettlementSwallowed
  <1>2. QED
    BY <1>1, GatewayAlways, PTL

\* A payment shows CAPTURED exactly when wallet-service is told to post it, and only if
\* the acquirer approved it.
THEOREM CapturedIsPublished == Spec => []CapturedIffPublished
  <1>1. TypeOK /\ GatewayInv => CapturedIffPublished
    <2> SUFFICES ASSUME TypeOK, GatewayInv, NEW t \in Topups
                 PROVE  /\ ~ReportedFailed(t) =>
                             (status[t] = "CAPTURED" <=> \E e \in outbox : PaymentOf(e) = t)
                        /\ status[t] = "CAPTURED" => t \in approved
      BY DEF CapturedIffPublished
    <2>1. (\E e \in outbox : PaymentOf(e) = t) => t \in approved
      BY DEF TypeOK, GatewayInv, DeliveryInv, RecordInv
    <2>2. QED
      BY <2>1 DEF GatewayInv, RecordInv
  <1>2. QED
    BY <1>1, GatewayAlways, PTL

\* A payment's status never goes back: whatever races, the answer to an authorization
\* overwrites no settlement and only the acquirer's report makes a capture a failure.
THEOREM StatusOnlyMoves == Spec => StatusMoves
  <1>1. ASSUME TypeOK, GatewayInv, TypeOK', GatewayInv', [Next]_vars, NEW t \in Topups
        PROVE  \/ status'[t] = status[t]
               \/ <<status[t], status'[t]>> \in Forward
               \/ /\ ReportedFailed(t)' /\ status[t] # "PENDING"
                  /\ status'[t] \in {"CAPTURED", "FAILED"}
    <2> USE <1>1 DEF rows, calls, acquirer, handlers
    <2>1. ASSUME NEW u \in Topups, TopupStep(u)
          PROVE  status'[t] = status[t] \/ <<status[t], status'[t]>> \in Forward
      BY <2>1
      DEF TypeOK, GatewayInv, CallInv, Forward, TopupStep, Replay, Insert, Authorize,
          SaveDeclined, SaveAuthorized
    <2>2. ASSUME NEW d \in Deliveries, CommitSettlement(d)
          PROVE  \/ status'[t] = status[t]
                 \/ <<status[t], status'[t]>> \in Forward
                 \/ /\ ReportedFailed(t)' /\ status[t] # "PENDING"
                    /\ status'[t] \in {"CAPTURED", "FAILED"}
      <3> DEFINE e == SettlementOf(d)
      <3>1. CASE t # PaymentOf(e)
        BY <2>2, <3>1 DEF CommitSettlement, TypeOK
      <3>2. CASE t = PaymentOf(e)
        <4>1. /\ e \in Settlements /\ t \in approved /\ status[t] \notin {"NONE", "PENDING"}
              /\ e \in processed'
          BY <2>2, <3>2, DeliveryType
          DEF CommitSettlement, HandlerAt, GatewayInv, CallInv, DeliveryInv
        <4>2. status'[t] # status[t] =>
                status'[t] = IF verdict'[e] = "SETTLED" THEN "CAPTURED" ELSE "FAILED"
          BY <2>2, <3>2 DEF CommitSettlement, Becomes, TypeOK
        <4>3. verdict'[e] \in {"SETTLED", "FAILED"}
          BY <4>1, GatewayAssumption DEF TypeOK
        <4>4. status'[t] = "FAILED" => ReportedFailed(t)'
          BY <2>2, <4>1 DEF GatewayInv, RecordInv, CommitSettlement
        <4>5. status[t] = "FAILED" => ReportedFailed(t)'
          BY <2>2, <4>1, ReportStays DEF GatewayInv, RecordInv, CommitSettlement
        <4>6. status[t] \in {"AUTHORIZED", "CAPTURED", "FAILED"}
          BY <4>1 DEF TypeOK
        <4>7. QED
          BY <4>1, <4>2, <4>3, <4>4, <4>5, <4>6 DEF Forward
      <3>3. QED
        BY <3>1, <3>2
    <2>3. \/ status' = status
          \/ \E u \in Topups : TopupStep(u)
          \/ \E d \in Deliveries : CommitSettlement(d)
      BY DEF Next, AcquirerStep, HandlerStep, Fault, vars, TopupLost, CaptureLost, SettlementLost,
          AbortSettlement, Captured, NotCaptured, Post, Acknowledged, TryAgain, Dedupe,
          Mark, Load, Save, CommitIgnored
    <2>4. QED
      BY <2>1, <2>2, <2>3
  <1>2. TypeOK /\ GatewayInv /\ (TypeOK /\ GatewayInv)' /\ [Next]_vars =>
          [\A t \in Topups :
              \/ status'[t] = status[t]
              \/ <<status[t], status'[t]>> \in Forward
              \/ ReportedFailed(t)' /\ status[t] # "PENDING" /\ status'[t] \in {"CAPTURED", "FAILED"}
            ]_vars
    BY <1>1
  <1>3. QED
    BY <1>2, GatewayAlways, PTL DEF Spec, StatusMoves
=============================================================================
