---------------------------- MODULE PaymentGateway ----------------------------
(***************************************************************************)
(* payment-gateway's card top-ups and the acquirer it talks to             *)
(* (acquirer-sim).  A POST /payments/topups call inserts a payment,        *)
(* authorizes it over HTTP and captures it in the background; the acquirer *)
(* answers a capture with a settlement webhook some time later.  Requests  *)
(* time out and are retried on both sides, so captures and webhooks may    *)
(* arrive twice and the handlers of several webhooks run at once, each in  *)
(* its own READ COMMITTED transaction.                                     *)
(***************************************************************************)
EXTENDS Naturals, FiniteSets

CONSTANTS
    Topups,         \* POST /payments/topups calls; a call's id is also its payment's id
    Keys,           \* Idempotency-Key values
    NoOne,          \* stands for "no payment" and "no webhook request"
    MaxRetries,     \* retries of AcquirerClient.requestWithRetry
    WebhookTries,   \* attempts of WebhookClient.fireSettlement
    Verdicts        \* what settlements may say; acquirer-sim only says "SETTLED"

ASSUME GatewayAssumption ==
    /\ MaxRetries \in Nat /\ WebhookTries \in Nat \ {0}
    /\ Verdicts # {} /\ Verdicts \subseteq {"SETTLED", "FAILED"}

\* The settlement of the n-th capture request of a payment, named by its
\* providerEventId, and the attempts to deliver it.
Settlements == Topups \X (0..MaxRetries)
Deliveries == Settlements \X (1..WebhookTries)

PaymentOf(e) == e[1]
SettlementOf(d) == d[1]

ASSUME NoOneAssumption == NoOne \notin Topups \cup Deliveries

VARIABLES
    key,            \* the Idempotency-Key each top-up call carries
    status,         \* payments.status, "NONE" where there is no row
    approved,       \* payments whose approval, with a providerRef, reached the gateway
    processed,      \* committed rows of processed_webhooks
    outbox,         \* settlements with a committed PaymentCaptured outbox row
    pc, answer,     \* where each top-up call is, and the payment id it returned
    tries,          \* retries of the current acquirer request, per payment
    capture,        \* the background capture of each payment
    webhook, sent,  \* the acquirer's delivery of each settlement, attempts so far
    verdict,        \* what each settlement says
    run,            \* where the gateway's handler of each webhook request is
    rowLock         \* the handler whose open transaction has updated a payment row

rows == <<status, approved, processed, outbox>>
calls == <<pc, answer, tries, capture>>
acquirer == <<webhook, sent, verdict>>
handlers == <<run, rowLock>>
vars == <<key, rows, calls, acquirer, handlers>>

-----------------------------------------------------------------------------
\* Payments stored under idempotency key k.
StoredUnder(k) == {t \in Topups : key[t] = k /\ status[t] # "NONE"}

Answer(t, label, id) ==
    /\ pc' = [pc EXCEPT ![t] = label]
    /\ answer' = [answer EXCEPT ![t] = id]

Goto(t, label) == pc' = [pc EXCEPT ![t] = label] /\ UNCHANGED answer

\* The attempts of a delivery before its verdict is known have this one.
AnyVerdict == CHOOSE v \in Verdicts : TRUE

Init ==
    /\ key \in [Topups -> Keys]
    /\ status = [t \in Topups |-> "NONE"]
    /\ approved = {} /\ processed = {} /\ outbox = {}
    /\ pc = [t \in Topups |-> "idle"]
    /\ answer = [t \in Topups |-> NoOne]
    /\ tries = [t \in Topups |-> 0]
    /\ capture = [t \in Topups |-> "none"]
    /\ webhook = [e \in Settlements |-> "none"]
    /\ sent = [e \in Settlements |-> 0]
    /\ verdict = [e \in Settlements |-> AnyVerdict]
    /\ run = [d \in Deliveries |-> "none"]
    /\ rowLock = [t \in Topups |-> NoOne]

-----------------------------------------------------------------------------
(* PaymentsService.topup *)

\* A known key answers with its payment and never reaches the acquirer.
Replay(t) ==
    /\ pc[t] = "idle"
    /\ \/ \E id \in StoredUnder(key[t]) : Answer(t, "done", id)
       \/ StoredUnder(key[t]) = {} /\ Goto(t, "insert")
    /\ UNCHANGED <<key, rows, tries, capture, acquirer, handlers>>

\* INSERT of the PENDING row; the loser of a race on the unique key replays the winner.
MutantInsert(t) ==
    /\ pc[t] = "insert"
    /\ status' = [status EXCEPT ![t] = "PENDING"] /\ Goto(t, "authorize")
    /\ UNCHANGED <<key, approved, processed, outbox, tries, capture, acquirer, handlers>>

Insert(t) ==
    /\ pc[t] = "insert"
    /\ \/ /\ StoredUnder(key[t]) = {}
          /\ status' = [status EXCEPT ![t] = "PENDING"] /\ Goto(t, "authorize")
       \/ \E id \in StoredUnder(key[t]) : Answer(t, "done", id) /\ UNCHANGED status
    /\ UNCHANGED <<key, approved, processed, outbox, tries, capture, acquirer, handlers>>

\* The acquirer approves an allowed BIN, unless its dice decline it ...
Approved(t) ==
    Goto(t, "authorized") /\ approved' = approved \cup {t} /\ tries' = [tries EXCEPT ![t] = 0]

\* ... and answers 402 to what it does not approve, which is not retried.
Declined(t) == Goto(t, "declined") /\ UNCHANGED <<approved, tries>>

\* A timeout, a network error or an error status is retried; the last error status is
\* returned like a success, without a providerRef, and the last exception leaves topup.
Unanswered(t) ==
    /\ \/ /\ tries[t] < MaxRetries
          /\ tries' = [tries EXCEPT ![t] = @ + 1] /\ UNCHANGED <<pc, answer>>
       \/ /\ tries[t] = MaxRetries
          /\ Goto(t, "authorized") \/ Answer(t, "done", NoOne)
          /\ tries' = [tries EXCEPT ![t] = 0]
    /\ UNCHANGED approved

\* One attempt of AcquirerClient.authorize.
MutantAuthorize(t) ==
    /\ pc[t] = "authorize"
    /\ Goto(t, "authorized") /\ approved' = approved \cup {t} /\ tries' = [tries EXCEPT ![t] = 0]
    /\ capture' = [capture EXCEPT ![t] = "running"]
    /\ UNCHANGED <<key, status, processed, outbox, acquirer, handlers>>

Authorize(t) ==
    /\ pc[t] = "authorize"
    /\ Approved(t) \/ Declined(t) \/ Unanswered(t)
    /\ UNCHANGED <<key, status, processed, outbox, capture, acquirer, handlers>>

\* A decline is stored and reported as 422.
SaveDeclined(t) ==
    /\ pc[t] = "declined" /\ rowLock[t] = NoOne
    /\ status' = [status EXCEPT ![t] = "FAILED"]
    /\ Answer(t, "done", NoOne)
    /\ UNCHANGED <<key, approved, processed, outbox, tries, capture, acquirer, handlers>>

\* AUTHORIZED is stored, the capture starts in the background, the caller is answered.
SaveAuthorized(t) ==
    /\ pc[t] = "authorized" /\ rowLock[t] = NoOne
    /\ status' = [status EXCEPT ![t] = "AUTHORIZED"]
    /\ capture' = [capture EXCEPT ![t] = "running"]
    /\ Answer(t, "done", t)
    /\ UNCHANGED <<key, approved, processed, outbox, tries, acquirer, handlers>>

\* The process dies or the database fails: the caller gets no answer, rows stay.
TopupLost(t) ==
    /\ pc[t] \notin {"idle", "done"}
    /\ Answer(t, "done", NoOne)
    /\ UNCHANGED <<key, rows, tries, capture, acquirer, handlers>>

-----------------------------------------------------------------------------
(* The background capture, and AcquirerService.capture at its other end *)

\* The attempt ends the capture, or fails and is followed by another one.
AfterAttempt(t, answered) ==
    IF ~answered /\ tries[t] < MaxRetries
    THEN tries' = [tries EXCEPT ![t] = @ + 1] /\ UNCHANGED capture
    ELSE capture' = [capture EXCEPT ![t] = "ended"] /\ UNCHANGED tries

\* The acquirer accepts the request and schedules a settlement; its answer may be lost.
MutantCaptured(t, answered) ==
    /\ capture[t] = "running"
    /\ webhook' = [webhook EXCEPT ![<<t, tries[t]>>] = "due"]
    /\ AfterAttempt(t, answered)
    /\ UNCHANGED <<key, rows, pc, answer, sent, verdict, handlers>>

Captured(t, answered) ==
    /\ capture[t] = "running" /\ t \in approved
    /\ LET e == <<t, tries[t]>> IN
         /\ webhook' = [webhook EXCEPT ![e] = "due"]
         /\ \E v \in Verdicts : verdict' = [verdict EXCEPT ![e] = v]
    /\ AfterAttempt(t, answered)
    /\ UNCHANGED <<key, rows, pc, answer, sent, handlers>>

\* The request does not arrive, or is refused: without a providerRef it always is.
NotCaptured(t) ==
    /\ capture[t] = "running"
    /\ AfterAttempt(t, FALSE)
    /\ UNCHANGED <<key, rows, pc, answer, acquirer, handlers>>

\* The gateway dies with the capture under way.
CaptureLost(t) ==
    /\ capture[t] = "running"
    /\ capture' = [capture EXCEPT ![t] = "ended"]
    /\ UNCHANGED <<key, rows, pc, answer, tries, acquirer, handlers>>

-----------------------------------------------------------------------------
(* WebhookClient.fireSettlement *)

\* The next attempt reaches the gateway.
MutantPost(e) ==
    /\ webhook[e] = "due"
    /\ sent' = [sent EXCEPT ![e] = @ + 1]
    /\ webhook' = [webhook EXCEPT ![e] = "due"]
    /\ run' = IF sent[e] < WebhookTries
              THEN [run EXCEPT ![<<e, sent[e] + 1>>] = "dedupe"] ELSE run
    /\ UNCHANGED <<key, rows, calls, verdict, rowLock>>

Post(e) ==
    /\ webhook[e] = "due"
    /\ sent' = [sent EXCEPT ![e] = @ + 1]
    /\ webhook' = [webhook EXCEPT ![e] = "waiting"]
    /\ run' = [run EXCEPT ![<<e, sent[e] + 1>>] = "dedupe"]
    /\ UNCHANGED <<key, rows, calls, verdict, rowLock>>

\* 200: the delivery ends.
Acknowledged(e) ==
    /\ webhook[e] = "waiting" /\ run[<<e, sent[e]>>] = "ok"
    /\ webhook' = [webhook EXCEPT ![e] = "ended"]
    /\ UNCHANGED <<key, rows, calls, sent, verdict, handlers>>

\* An error status, or the connection fails while the handler runs on: sleep and
\* try again, up to WebhookTries times.
TryAgain(e) ==
    /\ webhook[e] = "waiting"
    /\ webhook' = [webhook EXCEPT ![e] = IF sent[e] < WebhookTries THEN "due" ELSE "ended"]
    /\ UNCHANGED <<key, rows, calls, sent, verdict, handlers>>

\* The acquirer dies with its timers: nobody delivers this settlement any more.
SettlementLost(e) ==
    /\ webhook[e] \in {"due", "waiting"}
    /\ webhook' = [webhook EXCEPT ![e] = "ended"]
    /\ UNCHANGED <<key, rows, calls, sent, verdict, handlers>>

-----------------------------------------------------------------------------
(* PaymentsService.onSettlement, one run per webhook request that arrives *)

\* What the settlement makes of its payment.
Becomes(e) == IF verdict[e] = "SETTLED" THEN "CAPTURED" ELSE "FAILED"

\* Uncommitted rows of processed_webhooks.
Marking(d) == run[d] \in {"load", "save", "commit", "ignore"}

HandlerAt(d, from, to) == run[d] = from /\ run' = [run EXCEPT ![d] = to]

\* A providerEventId already processed is a no-op.
Dedupe(d) ==
    /\ \/ SettlementOf(d) \in processed /\ HandlerAt(d, "dedupe", "ok")
       \/ SettlementOf(d) \notin processed /\ HandlerAt(d, "dedupe", "mark")
    /\ UNCHANGED <<key, rows, calls, acquirer, rowLock>>

\* INSERT of the guard row: an uncommitted duplicate is waited for, a committed one is
\* a unique violation that rolls back and answers 500.
MutantMark(d) ==
    /\ SettlementOf(d) \notin processed /\ HandlerAt(d, "mark", "load")
    /\ processed' = processed \cup {SettlementOf(d)}
    /\ UNCHANGED <<key, status, approved, outbox, calls, acquirer, rowLock>>

Mark(d) ==
    /\ \A x \in Deliveries : SettlementOf(x) = SettlementOf(d) => ~Marking(x)
    /\ \/ SettlementOf(d) \in processed /\ HandlerAt(d, "mark", "error")
       \/ SettlementOf(d) \notin processed /\ HandlerAt(d, "mark", "load")
    /\ UNCHANGED <<key, rows, calls, acquirer, rowLock>>

\* The payment is read without a lock; an unknown or FAILED one is left alone.
Load(d) ==
    /\ \/ /\ status[PaymentOf(SettlementOf(d))] \in {"NONE", "FAILED"}
          /\ HandlerAt(d, "load", "ignore")
       \/ /\ status[PaymentOf(SettlementOf(d))] \notin {"NONE", "FAILED"}
          /\ HandlerAt(d, "load", "save")
    /\ UNCHANGED <<key, rows, calls, acquirer, rowLock>>

\* save() compares with the committed row: an UPDATE locks the row until the
\* transaction ends, waiting for whoever has it; an unchanged row is not written.
Save(d) ==
    LET e == SettlementOf(d)  t == PaymentOf(e) IN
    /\ HandlerAt(d, "save", "commit")
    /\ \/ status[t] = Becomes(e) /\ UNCHANGED rowLock
       \/ status[t] # Becomes(e) /\ rowLock[t] = NoOne /\ rowLock' = [rowLock EXCEPT ![t] = d]
    /\ UNCHANGED <<key, rows, calls, acquirer>>

Unlocked(d) == [t \in Topups |-> IF rowLock[t] = d THEN NoOne ELSE rowLock[t]]

\* Guard row, status and, for a settled payment, its PaymentCaptured row commit together.
MutantCommitSettlement(d) ==
    LET e == SettlementOf(d)  t == PaymentOf(e) IN
    /\ HandlerAt(d, "commit", "ok")
    /\ status' = [status EXCEPT ![t] = Becomes(e)]
    /\ processed' = processed \cup {e}
    /\ UNCHANGED outbox
    /\ rowLock' = Unlocked(d)
    /\ UNCHANGED <<key, approved, calls, acquirer>>

CommitSettlement(d) ==
    LET e == SettlementOf(d)  t == PaymentOf(e) IN
    /\ HandlerAt(d, "commit", "ok")
    /\ status' = [status EXCEPT ![t] = IF rowLock[t] = d THEN Becomes(e) ELSE @]
    /\ processed' = processed \cup {e}
    /\ outbox' = IF verdict[e] = "SETTLED" THEN outbox \cup {e} ELSE outbox
    /\ rowLock' = Unlocked(d)
    /\ UNCHANGED <<key, approved, calls, acquirer>>

\* A payment left alone still records its webhook.
CommitIgnored(d) ==
    /\ HandlerAt(d, "ignore", "ok")
    /\ processed' = processed \cup {SettlementOf(d)}
    /\ UNCHANGED <<key, status, approved, outbox, calls, acquirer, rowLock>>

\* An exception or a crash rolls the transaction back and answers 500, if at all.
AbortSettlement(d) ==
    /\ run[d] \notin {"none", "ok", "error"}
    /\ run' = [run EXCEPT ![d] = "error"]
    /\ rowLock' = Unlocked(d)
    /\ UNCHANGED <<key, rows, calls, acquirer>>

-----------------------------------------------------------------------------
TopupStep(t) ==
    \/ Replay(t) \/ Insert(t) \/ Authorize(t) \/ SaveDeclined(t) \/ SaveAuthorized(t)

AcquirerStep ==
    \/ \E t \in Topups :
         \/ \E answered \in BOOLEAN : Captured(t, answered)
         \/ NotCaptured(t)
    \/ \E e \in Settlements : Post(e) \/ Acknowledged(e) \/ TryAgain(e)

HandlerStep(d) ==
    \/ Dedupe(d) \/ Mark(d) \/ Load(d) \/ Save(d) \/ CommitSettlement(d) \/ CommitIgnored(d)

Fault ==
    \/ \E t \in Topups : TopupLost(t) \/ CaptureLost(t)
    \/ \E e \in Settlements : SettlementLost(e)
    \/ \E d \in Deliveries : AbortSettlement(d)

Next ==
    \/ \E t \in Topups : TopupStep(t)
    \/ AcquirerStep
    \/ \E d \in Deliveries : HandlerStep(d)
    \/ Fault

Spec == Init /\ [][Next]_vars

-----------------------------------------------------------------------------
(* Properties *)

\* Shape of the rows, the calls and the deliveries; no settlement is sent more often
\* than WebhookTries.
TypeOK ==
    /\ key \in [Topups -> Keys]
    /\ status \in [Topups -> {"NONE", "PENDING", "AUTHORIZED", "CAPTURED", "FAILED"}]
    /\ approved \subseteq Topups
    /\ processed \subseteq Settlements /\ outbox \subseteq Settlements
    /\ pc \in [Topups -> {"idle", "insert", "authorize", "authorized", "declined", "done"}]
    /\ answer \in [Topups -> Topups \cup {NoOne}]
    /\ tries \in [Topups -> 0..MaxRetries]
    /\ capture \in [Topups -> {"none", "running", "ended"}]
    /\ webhook \in [Settlements -> {"none", "due", "waiting", "ended"}]
    /\ sent \in [Settlements -> 0..WebhookTries]
    /\ verdict \in [Settlements -> Verdicts]
    /\ run \in [Deliveries -> {"none", "dedupe", "mark", "load", "save", "commit", "ignore",
                               "ok", "error"}]
    /\ rowLock \in [Topups -> Deliveries \cup {NoOne}]

\* Calls that carry one key get one payment: all of them that are answered name it,
\* and only that payment ever reaches the acquirer.
OnePaymentPerKey ==
    \A t, u \in Topups :
        key[t] = key[u] =>
            /\ answer[t] # NoOne /\ answer[u] # NoOne => answer[t] = answer[u]
            /\ t \in approved /\ u \in approved => t = u

\* The acquirer reported a failure of payment t and the gateway recorded the report.
ReportedFailed(t) ==
    \E e \in processed : PaymentOf(e) = t /\ verdict[e] = "FAILED"

\* Whatever crashes or overlaps, a payment with a settled webhook marked as processed
\* has a PaymentCaptured row: no retry is answered "duplicate" for money nobody posts.
NoSettlementSwallowed ==
    \A e \in processed :
        verdict[e] = "SETTLED" /\ ~ReportedFailed(PaymentOf(e)) =>
            \E f \in outbox : PaymentOf(f) = PaymentOf(e)

\* A payment shows CAPTURED only if the acquirer approved it, and exactly when
\* wallet-service is told to post it.  A payment for which the acquirer reported a failure
\* too (ReportedFailed) is exempt from the latter: its status follows the last report to
\* commit, and what was published stays published.
CapturedIffPublished ==
    \A t \in Topups :
        /\ ~ReportedFailed(t) =>
             (status[t] = "CAPTURED" <=> \E e \in outbox : PaymentOf(e) = t)
        /\ status[t] = "CAPTURED" => t \in approved

\* A payment's status never goes back: the answer to an authorization does not
\* overwrite a settlement, a decline is final, and only the acquirer's own report
\* turns a payment that was authorized into a FAILED one.
Forward ==
    {<<"NONE", "PENDING">>, <<"PENDING", "AUTHORIZED">>, <<"PENDING", "FAILED">>,
     <<"AUTHORIZED", "CAPTURED">>}
StatusMoves ==
    [][\A t \in Topups :
          \/ status'[t] = status[t]
          \/ <<status[t], status'[t]>> \in Forward
          \/ ReportedFailed(t)' /\ status[t] # "PENDING" /\ status'[t] \in {"CAPTURED", "FAILED"}
      ]_vars

\* A settlement does not revive a payment that already FAILED
\* (payments.service.spec.ts: "should ignore webhook for already-failed payment").
FailedStaysFailed ==
    [][\A t \in Topups : status[t] = "FAILED" => status'[t] = "FAILED"]_vars
-----------------------------------------------------------------------------
(* What makes the safety properties inductive; checked with them, proved in *)
(* PaymentGatewayProofs.                                                    *)

\* How far a call is tells what its row says: a settlement never meets a payment whose
\* authorization is not stored yet, and a declined payment was never approved.
CallInv ==
    \A t \in Topups :
        /\ pc[t] \in {"idle", "insert"} => status[t] = "NONE"
        /\ pc[t] \in {"authorize", "authorized", "declined"} => status[t] = "PENDING"
        /\ pc[t] \in {"authorize", "declined"} => t \notin approved
        /\ pc[t] # "done" => capture[t] = "none"
        /\ status[t] = "NONE" => t \notin approved
        /\ capture[t] # "none" => status[t] \notin {"NONE", "PENDING"}

\* The unique index on the key: one row each, and every answer names it.
KeyInv ==
    /\ \A t, u \in Topups :
          key[t] = key[u] /\ status[t] # "NONE" /\ status[u] # "NONE" => t = u
    /\ \A t \in Topups :
          answer[t] # NoOne => key[answer[t]] = key[t] /\ status[answer[t]] # "NONE"

\* Only a capture that was approved schedules a settlement, each attempt its own, and
\* what a settlement says is settled before it is first sent.
DeliveryInv ==
    /\ \A e \in Settlements :
          /\ webhook[e] # "none" => PaymentOf(e) \in approved /\ capture[PaymentOf(e)] # "none"
          /\ webhook[e] # "none" /\ capture[PaymentOf(e)] = "running" => e[2] < tries[PaymentOf(e)]
          /\ webhook[e] = "none" => sent[e] = 0 /\ e \notin processed
          /\ webhook[e] = "due" => sent[e] < WebhookTries
    /\ \A d \in Deliveries : run[d] # "none" => webhook[SettlementOf(d)] # "none"

\* What the gateway has recorded of an approved payment, as long as the acquirer has not
\* taken it back: CAPTURED, a PaymentCaptured row and the settlements go together.
RecordInv ==
    /\ \A e \in outbox : e \in processed /\ verdict[e] = "SETTLED"
    /\ \A t \in Topups : status[t] = "CAPTURED" => t \in approved
    /\ \A t \in approved :
          \/ ReportedFailed(t)
          \/ /\ status[t] # "FAILED"
             /\ status[t] = "CAPTURED" <=> \E e \in outbox : PaymentOf(e) = t
             /\ \A e \in processed : PaymentOf(e) = t => e \in outbox

\* A handler that has read the payment: it ignores only one reported as FAILED, and one
\* that writes nothing because the row says what it wants to say stays right about that.
HandlerInv ==
    \A d \in Deliveries :
        LET e == SettlementOf(d)  t == PaymentOf(e) IN
        /\ run[d] = "ignore" => ReportedFailed(t)
        /\ run[d] = "commit" => \/ rowLock[t] = d
                                \/ status[t] = Becomes(e)
                                \/ ReportedFailed(t)

GatewayInv == CallInv /\ KeyInv /\ DeliveryInv /\ RecordInv /\ HandlerInv
=============================================================================
