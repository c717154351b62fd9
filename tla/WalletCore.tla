------------------------------ MODULE WalletCore ------------------------------
(***************************************************************************)
(* The money core of wallet-service.  HTTP threads running TransferService *)
(* (directly, or for DepositService) and the Kafka listener thread running *)
(* ApplyPaymentService share one PostgreSQL database at READ COMMITTED.    *)
(* Each call is one pass through a service method; its program counter     *)
(* stops at every statement the database can interleave with another call. *)
(*                                                                         *)
(* Amounts are whole multiples of 0.0001, the scale Money.of rounds to.    *)
(* A call's transaction writes nothing another call can see before Commit; *)
(* what it holds meanwhile are row locks (SELECT ... FOR UPDATE) and the   *)
(* uncommitted idempotency key in transfers' unique index.                 *)
(***************************************************************************)
EXTENDS Integers, FiniteSets

CONSTANTS
    LastId,             \* the largest uuid
    Wallets,            \* wallet ids, numbered in the order uuids compare
    SystemWallets,      \* the SYSTEM accounts the migrations seed
    Existing,           \* wallets with a row when the run starts
    Opening,            \* their balances, backed by an earlier ledger
    Currency,           \* currency of each wallet
    Owner,              \* user owning each wallet
    Funding,            \* funding account of each supported currency
    Clearing,           \* card clearing account of each supported currency
    Keys,               \* Idempotency-Key values
    Payments,           \* card payment ids
    Calls,              \* service calls; a call's id is also its transfer's id
    NoCall,             \* stands for "nobody" and "no transfer"
    TransferRequests,   \* POST /transfers requests that may arrive
    DepositRequests,    \* POST /wallets/{id}/deposits requests from an admin
    CapturedEvents,     \* PaymentCaptured records on payment-events
    ExclusiveConsumer   \* TRUE: a partition has one consumer thread at a time

Ids == Keys \cup Payments
Currencies == {Currency[w] : w \in Wallets}

\* Currencies SUPPORTED and the two account maps have an entry for.
Supported == DOMAIN Funding \cap DOMAIN Clearing

\* The TransferCommand DepositService builds: money comes from the funding account.
AsTransfer(d) ==
    [op |-> "deposit", key |-> d.key, src |-> Funding[d.cur], dst |-> d.dst,
     amt |-> d.amt, cur |-> d.cur, caller |-> d.caller]

\* A card top-up debits the clearing account of its currency.
AsPosting(e) ==
    [op |-> "payment", key |-> e.key, src |-> Clearing[e.cur], dst |-> e.dst,
     amt |-> e.amt, cur |-> e.cur, caller |-> "gateway"]

\* What a call can be asked to do.  A deposit or payment in an unsupported currency
\* is refused before it reaches the database.
Requests ==
    TransferRequests
      \cup {AsTransfer(d) : d \in {x \in DepositRequests : x.cur \in DOMAIN Funding}}
      \cup {AsPosting(e) : e \in {x \in CapturedEvents : x.cur \in DOMAIN Clearing}}

ASSUME WalletsAssumption ==
    /\ LastId \in Nat
    /\ Wallets \subseteq 0..LastId
    /\ SystemWallets \subseteq Existing
    /\ Existing \subseteq Wallets
    /\ Opening \in [Wallets -> Int]
    /\ \A w \in Wallets \ SystemWallets : Opening[w] >= 0
    /\ \A w \in Wallets \ Existing : Opening[w] = 0

ASSUME IdsAssumption ==
    /\ Keys \cap Payments = {}
    /\ NoCall \notin Calls
    /\ ExclusiveConsumer \in BOOLEAN

\* A payment id stands for one payment: every record about it says the same.
ASSUME RequestsAssumption ==
    /\ \A r \in Requests :
         /\ r.op \in {"transfer", "deposit", "payment"}
         /\ r.key \in IF r.op = "payment" THEN Payments ELSE Keys
         /\ r.src \in Wallets /\ r.dst \in Wallets /\ r.amt \in Int
    /\ \A r, s \in Requests : r.op = "payment" /\ s.op = "payment" /\ r.key = s.key => r = s

VARIABLES
    kind,       \* wallets.kind, "NONE" where there is no row
    balance,    \* wallets.balance, committed
    version,    \* wallets.version (@Version), committed
    net,        \* credits minus debits of each wallet's committed ledger entries
    postings,   \* committed debit/credit pairs per idempotency key or payment id
    transfers,  \* committed rows of transfers
    applied,    \* committed rows of applied_payments
    outbox,     \* transfers with a committed outbox event
    lock,       \* which call's transaction holds each wallet row FOR UPDATE
    keyHolder,  \* which call has inserted a key and not committed yet
    cmd,        \* the request each call carries
    pc,         \* where each call is
    need,       \* rows a call's SELECT ... FOR UPDATE still has to lock
    seenBalance, seenVersion,   \* what a call read from the rows it locked
    outcome,    \* how each call ended
    answer      \* the transfer id it returned

tables == <<kind, balance, version, net, postings, transfers, applied, outbox>>
locks == <<lock, keyHolder>>
reads == <<need, seenBalance, seenVersion>>
results == <<outcome, answer>>
vars == <<tables, locks, cmd, pc, reads, results>>

-----------------------------------------------------------------------------
(* Small vocabulary *)

IsPayment(c) == cmd[c].op = "payment"
Src(c) == cmd[c].src
Dst(c) == cmd[c].dst
Amt(c) == cmd[c].amt
Key(c) == cmd[c].key

Opened(w) == kind[w] # "NONE"
Held(c) == {w \in Wallets : lock[w] = c}
WithKey(k) == {t \in transfers : t.key = k}
InTransaction(c) == pc[c] \in {"lock", "post", "commit"}
Ended(c) == pc[c] \in {"idle", "done"}

NothingSeen == [w \in Wallets |-> 0]

\* Commit and rollback: PostgreSQL frees rows and keys, and the persistence context
\* with the entities read closes.
Release(c) ==
    /\ lock' = [w \in Wallets |-> IF lock[w] = c THEN NoCall ELSE lock[w]]
    /\ keyHolder' = [k \in Keys |-> IF keyHolder[k] = c THEN NoCall ELSE keyHolder[k]]
    /\ need' = [need EXCEPT ![c] = {}]
    /\ seenBalance' = [seenBalance EXCEPT ![c] = NothingSeen]
    /\ seenVersion' = [seenVersion EXCEPT ![c] = NothingSeen]

Goto(c, label) == pc' = [pc EXCEPT ![c] = label]

\* Call c ends with a result and answers with transfer id t (or NoCall).
End(c, how, t) ==
    /\ Goto(c, "done")
    /\ outcome' = [outcome EXCEPT ![c] = how]
    /\ answer' = [answer EXCEPT ![c] = t]

\* An exception leaves the method outside a transaction, or rolls it back.
Fail(c, how) == End(c, how, NoCall) /\ Release(c) /\ UNCHANGED <<tables, cmd>>

Reply(c, t) == End(c, "ok", t) /\ UNCHANGED <<tables, locks, cmd, reads>>

Step(c, label) == Goto(c, label) /\ UNCHANGED <<tables, locks, cmd, reads, results>>

-----------------------------------------------------------------------------
Init ==
    /\ kind = [w \in Wallets |-> IF w \in SystemWallets THEN "SYSTEM"
                                 ELSE IF w \in Existing THEN "USER" ELSE "NONE"]
    /\ balance = Opening
    /\ version = [w \in Wallets |-> 0]
    /\ net = Opening
    /\ postings = [i \in Ids |-> 0]
    /\ transfers = {} /\ applied = {} /\ outbox = {}
    /\ lock = [w \in Wallets |-> NoCall]
    /\ keyHolder = [k \in Keys |-> NoCall]
    /\ cmd \in [Calls -> Requests]
    /\ pc = [c \in Calls |-> "idle"]
    /\ need = [c \in Calls |-> {}]
    /\ seenBalance = [c \in Calls |-> NothingSeen]
    /\ seenVersion = [c \in Calls |-> NothingSeen]
    /\ outcome = [c \in Calls |-> "none"]
    /\ answer = [c \in Calls |-> NoCall]

\* WalletService.create: a new empty USER wallet in a supported currency.
MutantOpenSystem(w) ==
    /\ kind[w] = "NONE" /\ Currency[w] \in Supported
    /\ kind' = [kind EXCEPT ![w] = "SYSTEM"]
    /\ UNCHANGED <<balance, version, net, postings, transfers, applied, outbox,
                   locks, cmd, pc, reads, results>>

CreateWallet(w) ==
    /\ kind[w] = "NONE" /\ Currency[w] \in Supported
    /\ kind' = [kind EXCEPT ![w] = "USER"]
    /\ UNCHANGED <<balance, version, net, postings, transfers, applied, outbox,
                   locks, cmd, pc, reads, results>>

-----------------------------------------------------------------------------
(* TransferService.transfer, before its transaction *)

\* Two wallets, and a positive amount: as sent, so one that Money.of will round to 0
\* is let in.
Valid(r) == r.src # r.dst /\ r.amt >= 0

\* The request reaches transfer(); validate() refuses it or lets it in.
AcceptTransfer(c) ==
    /\ pc[c] = "idle" /\ ~IsPayment(c)
    /\ \/ Valid(cmd[c]) /\ Step(c, "replay")
       \/ (~Valid(cmd[c]) \/ Amt(c) = 0) /\ Fail(c, "refused")

\* Step 1: a key already processed answers with the original transfer.
Replay(c) ==
    /\ pc[c] = "replay"
    /\ \/ \E t \in WithKey(Key(c)) : Reply(c, t.id)
       \/ WithKey(Key(c)) = {} /\ Step(c, "check")

\* Step 2: both wallets exist, the caller owns a USER source, one currency.
Admissible(c) ==
    /\ Opened(Src(c)) /\ Opened(Dst(c))
    /\ kind[Src(c)] = "USER" => cmd[c].caller = Owner[Src(c)]
    /\ cmd[c].cur = Currency[Src(c)]
    /\ Currency[Src(c)] = Currency[Dst(c)]

Check(c) ==
    /\ pc[c] = "check"
    /\ \/ Admissible(c) /\ Step(c, "fraud")
       \/ ~Admissible(c) /\ Fail(c, "refused")

\* Step 3: fraud-service allows or rejects, with no transaction open.
Fraud(c) ==
    /\ pc[c] = "fraud"
    /\ Step(c, "select") \/ Fail(c, "refused")

-----------------------------------------------------------------------------
(* ApplyPaymentService.post, before it locks *)

\* The listener hands a PaymentCaptured record to the service.
Deliver(c) ==
    /\ pc[c] = "idle" /\ IsPayment(c)
    /\ ExclusiveConsumer =>
         \A d \in Calls : IsPayment(d) /\ Key(d) = Key(c) => Ended(d)
    /\ Step(c, "applied")

\* isApplied: a payment already posted is skipped.
MutantIsApplied(c) == pc[c] = "applied" /\ Step(c, "select")

IsApplied(c) ==
    /\ pc[c] = "applied"
    /\ \/ Key(c) \in applied /\ Reply(c, NoCall)
       \/ Key(c) \notin applied /\ Step(c, "select")

-----------------------------------------------------------------------------
(* The shared transactional unit: lock, move, write *)

\* SELECT ... FOR UPDATE sees the rows that exist when the statement starts.
Select(c) ==
    /\ pc[c] = "select"
    /\ LET rows == {w \in {Src(c), Dst(c)} : Opened(w)} IN
         /\ need' = [need EXCEPT ![c] = rows]
         /\ Goto(c, IF rows = {} THEN "post" ELSE "lock")
    /\ UNCHANGED <<tables, locks, cmd, seenBalance, seenVersion, results>>

\* ORDER BY w.id: the next row is the smallest id not locked yet.
MutantNextRow(c, w) == w \in need[c] /\ (Src(c) \in need[c] => w = Src(c))

NextRow(c, w) == w \in need[c] /\ \A v \in need[c] : w <= v

\* A row someone else holds is waited for; a granted row is read as committed now.
MutantLockRow(c) ==
    /\ pc[c] = "lock"
    /\ \E w \in need[c] :
         /\ NextRow(c, w)
         /\ seenBalance' = [seenBalance EXCEPT ![c][w] = balance[w]]
         /\ seenVersion' = [seenVersion EXCEPT ![c][w] = version[w]]
         /\ lock' = [lock EXCEPT ![w] = c]
         /\ need' = [need EXCEPT ![c] = @ \ {w}]
         /\ Goto(c, IF need[c] = {w} THEN "post" ELSE "lock")
    /\ UNCHANGED <<tables, keyHolder, cmd, results>>

LockRow(c) ==
    /\ pc[c] = "lock"
    /\ \E w \in need[c] :
         /\ NextRow(c, w)
         /\ lock[w] = NoCall
         /\ lock' = [lock EXCEPT ![w] = c]
         /\ seenBalance' = [seenBalance EXCEPT ![c][w] = balance[w]]
         /\ seenVersion' = [seenVersion EXCEPT ![c][w] = version[w]]
         /\ need' = [need EXCEPT ![c] = @ \ {w}]
         /\ Goto(c, IF need[c] = {w} THEN "post" ELSE "lock")
    /\ UNCHANGED <<tables, keyHolder, cmd, results>>

\* A wallet the SELECT did not return, or one in another currency.
Mismatch(c) ==
    \/ ~({Src(c), Dst(c)} \subseteq Held(c))
    \/ cmd[c].cur # Currency[Src(c)]
    \/ cmd[c].cur # Currency[Dst(c)]

\* Wallet.debit: a USER wallet may not be overdrawn.
Overdraws(c) == kind[Src(c)] = "USER" /\ seenBalance[c][Src(c)] - Amt(c) < 0

\* Transfer.complete and LedgerEntry accept positive amounts only.
BadAmount(c) == Amt(c) <= 0

\* The service refuses to post and the transaction rolls back.
Refuse(c) ==
    /\ pc[c] = "post"
    /\ \/ Mismatch(c) /\ Fail(c, "refused")
       \/ ~Mismatch(c) /\ Overdraws(c) /\ Fail(c, "funds")
       \/ ~Mismatch(c) /\ ~Overdraws(c) /\ BadAmount(c) /\ Fail(c, "refused")

Postable(c) == ~Mismatch(c) /\ ~Overdraws(c) /\ ~BadAmount(c)

\* Balance of w as the transaction will write it.
MutantBalanceAfter(c, w) ==
    IF w = Src(c) THEN seenBalance[c][w] - Amt(c) ELSE balance[w]

BalanceAfter(c, w) ==
    IF w \in {Src(c), Dst(c)}
    THEN seenBalance[c][w] + (IF w = Dst(c) THEN Amt(c) ELSE 0)
                           - (IF w = Src(c) THEN Amt(c) ELSE 0)
    ELSE balance[w]

\* The two backstops the flush runs into if the locking above were wrong.
StaleVersion(c) == \E w \in {Src(c), Dst(c)} : seenVersion[c][w] # version[w]
CheckFails(c) ==
    \E w \in {Src(c), Dst(c)} : kind[w] # "SYSTEM" /\ BalanceAfter(c, w) < 0

\* saveAndFlush: INSERT the transfer, then UPDATE both wallets.  An uncommitted
\* duplicate of the key is waited for, a committed one is a constraint violation.
MutantFlush(c) ==
    /\ pc[c] = "post" /\ Postable(c) /\ ~IsPayment(c)
    /\ Goto(c, "commit") /\ UNCHANGED <<tables, lock, keyHolder, cmd, reads, results>>

Flush(c) ==
    /\ pc[c] = "post" /\ Postable(c) /\ ~IsPayment(c)
    /\ keyHolder[Key(c)] = NoCall
    /\ \/ /\ WithKey(Key(c)) # {} \/ CheckFails(c)
          /\ Goto(c, "race") /\ Release(c)
          /\ UNCHANGED <<tables, cmd, results>>
       \/ /\ WithKey(Key(c)) = {} /\ StaleVersion(c)
          /\ Fail(c, "failed")
       \/ /\ WithKey(Key(c)) = {} /\ ~StaleVersion(c) /\ ~CheckFails(c)
          /\ keyHolder' = [keyHolder EXCEPT ![Key(c)] = c]
          /\ Goto(c, "commit")
          /\ UNCHANGED <<tables, lock, cmd, reads, results>>

\* A payment has nothing to insert under a contended key: merge() looks for its
\* guard row and the wallets are written at commit.
FlushPayment(c) ==
    /\ pc[c] = "post" /\ Postable(c) /\ IsPayment(c)
    /\ \/ (StaleVersion(c) \/ CheckFails(c)) /\ Fail(c, "failed")
       \/ ~StaleVersion(c) /\ ~CheckFails(c) /\ Step(c, "commit")

\* Everything the transaction wrote becomes visible at once.
Commit(c) ==
    /\ pc[c] = "commit"
    /\ balance' = [w \in Wallets |-> BalanceAfter(c, w)]
    /\ version' = [w \in Wallets |->
                     IF BalanceAfter(c, w) # balance[w] THEN version[w] + 1 ELSE version[w]]
    /\ net' = [w \in Wallets |-> net[w] + (IF w = Dst(c) THEN Amt(c) ELSE 0)
                                        - (IF w = Src(c) THEN Amt(c) ELSE 0)]
    /\ postings' = [postings EXCEPT ![Key(c)] = @ + 1]
    /\ IF IsPayment(c)
       THEN /\ applied' = applied \cup {Key(c)}
            /\ UNCHANGED <<transfers, outbox>>
       ELSE /\ transfers' = transfers \cup {[id |-> c, key |-> Key(c), src |-> Src(c),
                                             dst |-> Dst(c), amt |-> Amt(c)]}
            /\ outbox' = outbox \cup {c}
            /\ UNCHANGED applied
    /\ Release(c)
    /\ Goto(c, "evictSrc")
    /\ UNCHANGED <<kind, cmd, results>>

-----------------------------------------------------------------------------
(* After the transaction *)

\* A constraint violation: answer with the winner's transfer, or give up.
MutantRaceReplay(c) ==
    /\ pc[c] = "race"
    /\ \/ WithKey(Key(c)) # {} /\ Reply(c, c)
       \/ WithKey(Key(c)) = {} /\ Fail(c, "failed")

RaceReplay(c) ==
    /\ pc[c] = "race"
    /\ \/ \E t \in WithKey(Key(c)) : Reply(c, t.id)
       \/ WithKey(Key(c)) = {} /\ Fail(c, "failed")

\* The two evictView calls (their effect on Redis is in WalletPages), then the answer.
EvictSource(c) == pc[c] = "evictSrc" /\ Step(c, "evictDst")

MutantEvictDest(c) ==
    /\ pc[c] = "evictDst"
    /\ Reply(c, IF IsPayment(c) THEN NoCall ELSE Key(c))

EvictDest(c) ==
    /\ pc[c] = "evictDst"
    /\ Reply(c, IF IsPayment(c) THEN NoCall ELSE c)

\* The process dies, the connection drops, or a statement fails: an open
\* transaction rolls back, and the caller gets no answer.
Abort(c) == ~Ended(c) /\ Fail(c, "failed")

-----------------------------------------------------------------------------
CallStep(c) ==
    \/ AcceptTransfer(c) \/ Replay(c) \/ Check(c) \/ Fraud(c)
    \/ Deliver(c) \/ IsApplied(c)
    \/ Select(c) \/ LockRow(c) \/ Refuse(c) \/ Flush(c) \/ FlushPayment(c) \/ Commit(c)
    \/ RaceReplay(c) \/ EvictSource(c) \/ EvictDest(c)

Next ==
    \/ \E w \in Wallets : CreateWallet(w)
    \/ \E c \in Calls : CallStep(c) \/ Abort(c)

Spec == Init /\ [][Next]_vars

\* A thread that has work keeps running and the database answers it: nothing in
\* the transaction waits for the network.
Fairness == \A c \in Calls : WF_vars(CallStep(c))
FairSpec == Spec /\ Fairness

-----------------------------------------------------------------------------
(* Properties *)

Labels == {"idle", "replay", "check", "fraud", "applied", "select", "lock", "post",
           "commit", "race", "evictSrc", "evictDst", "done"}

\* Shape of the state: rows, locks and the calls' local variables.
TypeOK ==
    /\ kind \in [Wallets -> {"NONE", "USER", "SYSTEM"}]
    /\ balance \in [Wallets -> Int] /\ net \in [Wallets -> Int]
    /\ version \in [Wallets -> Nat]
    /\ postings \in [Ids -> Nat]
    /\ transfers \subseteq [id : Calls, key : Keys, src : Wallets, dst : Wallets, amt : Int]
    /\ applied \subseteq Payments /\ outbox \subseteq Calls
    /\ lock \in [Wallets -> Calls \cup {NoCall}]
    /\ keyHolder \in [Keys -> Calls \cup {NoCall}]
    /\ cmd \in [Calls -> Requests]
    /\ pc \in [Calls -> Labels]
    /\ need \in [Calls -> SUBSET Wallets]
    /\ seenBalance \in [Calls -> [Wallets -> Int]]
    /\ seenVersion \in [Calls -> [Wallets -> Nat]]
    /\ outcome \in [Calls -> {"none", "ok", "refused", "funds", "failed"}]
    /\ answer \in [Calls -> Calls \cup {NoCall}]

\* Every wallet's balance column equals the sum of its ledger entries
\* (WalletService.reconcile answers "balanced"), whatever calls interleave.
Reconciled == \A w \in Wallets : balance[w] = net[w]

\* A wallet that WalletService.create opened is never overdrawn.
NoOverdraft == \A w \in Wallets \ SystemWallets : balance[w] >= 0

\* What wallet w adds to the money there is in currency cur, by the column b of balances,
\* and the totals so far, going through the ids in their order.
Share(b, cur, w) == IF w \in Wallets /\ Currency[w] = cur THEN b[w] ELSE 0
RunningTotal(b, cur) ==
    LET sum[w \in 0..LastId] == Share(b, cur, w) + IF w = 0 THEN 0 ELSE sum[w - 1]
    IN  sum

\* Money never appears or vanishes: per currency, the balances of all wallets, SYSTEM
\* accounts included, keep the total they opened with, whatever calls interleave or fail.
MoneyConserved ==
    \A cur \in Currencies :
        RunningTotal(balance, cur)[LastId] = RunningTotal(Opening, cur)[LastId]

\* The row locks and Wallet.debit do their work: no flush ever meets a stale
\* @Version or the wallets_balance_nonneg_for_user CHECK, the last-line backstops.
BackstopsNeverFire ==
    \A c \in Calls : pc[c] = "post" /\ Postable(c) => ~StaleVersion(c) /\ ~CheckFails(c)

\* An idempotency key and a card payment move money at most once, under retries,
\* concurrent duplicates, crashes and redelivery.
PostedOnce == \A i \in Ids : postings[i] <= 1

\* Every transfer or deposit call that succeeds answers with the one transfer stored
\* under its key, be it the winner, a replay or the loser of the insert race.
AnswersAgree ==
    \A c \in Calls :
        outcome[c] = "ok" /\ ~IsPayment(c) => {t.id : t \in WithKey(Key(c))} = {answer[c]}

\* Call c cannot move before call d does: d holds the next row c wants, or the
\* uncommitted duplicate of the key c inserts.
WaitsFor(c, d) ==
    /\ c # d
    /\ \/ pc[c] = "lock" /\ \E w \in need[c] : NextRow(c, w) /\ lock[w] = d
       \/ pc[c] = "post" /\ Postable(c) /\ ~IsPayment(c) /\ keyHolder[Key(c)] = d

\* No set of calls waits for one another: opposing transfers, top-ups and duplicate
\* keys never need PostgreSQL's deadlock detector.
NoWaitCycle ==
    \A S \in (SUBSET Calls) \ {{}} : \E c \in S : \A d \in S : ~WaitsFor(c, d)

\* Every call that started ends: no lock wait lasts for ever.
CallsEnd == \A c \in Calls : pc[c] \notin {"idle", "done"} ~> pc[c] = "done"

\* A retry of a request whose transfer is already committed is not refused for lack
\* of funds (IdempotencyIT: "never a double charge, never an error").
DuplicateNeverRefused ==
    [][\A c \in Calls :
          outcome[c] = "none" /\ outcome'[c] = "funds" =>
            ~\E t \in WithKey(Key(c)) : t.src = Src(c) /\ t.dst = Dst(c) /\ t.amt = Amt(c)]_vars

-----------------------------------------------------------------------------
(* The inductive invariant behind the safety properties *)

\* A held row belongs to an open transaction of the holder's, is one of its two
\* wallets, and still has the values the holder read from it.
LockInv ==
    \A c \in Calls : \A w \in Wallets : lock[w] = c =>
        /\ InTransaction(c)
        /\ w \in {Src(c), Dst(c)} /\ w \notin need[c]
        /\ Opened(w)
        /\ seenBalance[c][w] = balance[w] /\ seenVersion[c][w] = version[w]

\* Only a call in its SELECT still needs rows, and only rows that exist.
NeedInv ==
    \A c \in Calls :
        /\ need[c] \subseteq {w \in {Src(c), Dst(c)} : Opened(w)}
        /\ pc[c] # "lock" => need[c] = {}

\* What a call about to commit has checked is still so.
CommitInv == \A c \in Calls : pc[c] = "commit" => Postable(c)

\* An uncommitted key belongs to the transfer about to commit it.
KeyInv ==
    /\ \A c \in Calls : pc[c] = "commit" /\ ~IsPayment(c) => keyHolder[Key(c)] = c
    /\ \A k \in Keys : \A c \in Calls : keyHolder[k] = c =>
          pc[c] = "commit" /\ ~IsPayment(c) /\ Key(c) = k /\ WithKey(k) = {}

\* Only payment deliveries look up their guard row; only transfers run the checks.
RouteInv ==
    \A c \in Calls :
        /\ pc[c] = "applied" => IsPayment(c)
        /\ pc[c] \in {"replay", "check", "fraud"} => ~IsPayment(c)

KindInv == \A w \in Wallets : kind[w] = "SYSTEM" <=> w \in SystemWallets

\* The unique index: one transfer row per key, and its posting went with it.
TransferInv ==
    /\ \A s, t \in transfers : s.key = t.key => s = t
    /\ \A k \in Keys : postings[k] = IF WithKey(k) = {} THEN 0 ELSE 1
    /\ \A c \in Calls : pc[c] \in {"evictSrc", "evictDst"} /\ ~IsPayment(c) =>
          \E t \in transfers : t.key = Key(c) /\ t.id = c
    /\ \A c \in Calls : outcome[c] = "ok" /\ ~IsPayment(c) =>
          \E t \in transfers : t.key = Key(c) /\ t.id = answer[c]

\* The guard row and the posting of a payment go together, and with one consumer
\* thread a delivery that passed isApplied stays the only one under way.
PaymentInv ==
    /\ \A p \in Payments : postings[p] = IF p \in applied THEN 1 ELSE 0
    /\ \A c \in Calls : IsPayment(c) /\ (pc[c] = "select" \/ InTransaction(c)) =>
          Key(c) \notin applied
    /\ \A c, d \in Calls :
          IsPayment(c) /\ IsPayment(d) /\ Key(c) = Key(d) /\ c # d => Ended(c) \/ Ended(d)

\* A transaction locks rows in ascending order.
LockOrderInv ==
    \A c \in Calls : \A w \in Wallets : \A v \in need[c] : lock[w] = c => w < v

MoneyInv == LockInv /\ NeedInv /\ CommitInv /\ KindInv /\ Reconciled /\ NoOverdraft

-----------------------------------------------------------------------------
(* The abstract specification it implements *)

\* The movement a request or a transfer row x stands for, and those committed so
\* far: one per transfer row and one per applied payment.
Movement(x) == [op |-> x.key, src |-> x.src, dst |-> x.dst, amt |-> x.amt]
Moves ==
    {Movement(t) : t \in transfers}
      \cup {Movement(r) : r \in {q \in Requests : q.op = "payment" /\ q.key \in applied}}

Ledger == INSTANCE DoubleEntry WITH
    Movements <- {Movement(r) : r \in Requests},
    OpeningKind <- [w \in Wallets |-> IF w \in SystemWallets THEN "SYSTEM"
                                      ELSE IF w \in Existing THEN "USER" ELSE "NONE"],
    moves <- Moves

\* The threads, locks and retries implement the indivisible double entry.
ImplementsDoubleEntry == Ledger!Spec
=============================================================================
