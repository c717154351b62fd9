------------------------------ MODULE Bookkeeping ------------------------------
(***************************************************************************)
(* What a movement of money leaves behind, value by value: the amount as   *)
(* it is sent, rounded, checked for fraud, charged, stored and read again; *)
(* the rows of a transfer or a card payment, its ledger entries and its    *)
(* event; and what history, detail, reconciliation and a replay make of    *)
(* them.  One call at a time: how calls interleave is WalletCore's and     *)
(* PaymentGateway's.                                                       *)
(*                                                                         *)
(* Money is in multiples of 0.0001, an amount as sent in parts of that,    *)
(* Fine to one.                                                            *)
(***************************************************************************)
EXTENDS Integers, FiniteSets, FiniteSetsExt

CONSTANTS
    Wallets,        \* wallet ids
    CurrencyOf,     \* their currencies
    OwnerOf,        \* their owners; None for a SYSTEM account
    Funding,        \* funding account of each supported currency
    Clearing,       \* card clearing account of each supported currency
    Users,
    Admins,
    Transfers,      \* bound: bodies of POST /transfers
    Deposits,       \* bound: and of POST /wallets/{id}/deposits, their src of no account
    LongKeys,       \* Idempotency-Keys of more than 200 characters
    CardKeys,       \* bound: Idempotency-Keys of top-ups
    None,           \* SQL's null
    TopUps,         \* bound: bodies of POST /payments/topup
    Fine,           \* parts of an amount to 0.0001
    Limit,          \* no NUMERIC(19,4) holds it, 10^19
    Ticks,          \* bound: readings of the clock
    Micro           \* clock ticks to the microsecond timestamptz keeps

ASSUME BookkeepingAssumption ==
    /\ \A c \in DOMAIN Funding : CurrencyOf[Funding[c]] = c /\ OwnerOf[Funding[c]] = None
    /\ \A c \in DOMAIN Clearing : CurrencyOf[Clearing[c]] = c /\ OwnerOf[Clearing[c]] = None
    /\ \A w \in Wallets : OwnerOf[w] \in Users \cup {None}
    /\ \A q \in Transfers \cup Deposits :
         /\ {q.src, q.dst} \subseteq Wallets /\ q.caller \in Users /\ q.amount \in Int
         /\ q.remark \in {"none", "long"} /\ q.key \notin CardKeys \cup {None}
    /\ \A q \in TopUps : q.wallet \in Wallets /\ q.currency \in DOMAIN Clearing /\ q.amount \in Int
    /\ Fine \in Nat \ {0} /\ Micro \in Nat \ {0} /\ Ticks \subseteq Nat

VARIABLES
    balance,    \* wallets.balance of the wallets there are
    transfers,  \* rows of transfers; a transfer's id is written as its key
    entries,    \* rows of ledger_entries
    outbox,     \* payloads of TransferCompleted
    applied,    \* rows of applied_payments
    payments,   \* rows of payments, at the gateway; their ids likewise
    charged,    \* what the acquirer was told to charge for each
    dead,       \* payments whose event is on payment-events.DLT
    allowed,    \* ghost: what fraud-service was asked about and let pass
    replies,    \* ghost: results of transfers that callers were given
    last        \* ghost: the last call of POST /transfers or .../deposits, its status

books == <<balance, transfers, entries, outbox, applied>>
gateway == <<payments, charged, dead>>
vars == <<books, gateway, allowed, replies, last>>

Supported == DOMAIN Funding \cap DOMAIN Clearing
System(w) == OwnerOf[w] = None
Abs(x) == IF x < 0 THEN -x ELSE x

-----------------------------------------------------------------------------
(* Amounts *)

\* Money's constructor: setScale(4, HALF_EVEN).
HalfEven(x) ==
    LET q == x \div Fine
        r == 2 * (x % Fine)
    IN  IF r > Fine \/ (r = Fine /\ q % 2 = 1) THEN q + 1 ELSE q

Money(x, currency) == [amount |-> HalfEven(x), currency |-> currency]

\* A BigDecimal of a row, or of Money, is read back as it is.
Reread(m) == Money(Fine * m.amount, m.currency)

MutantHalfUp(x) == IF x >= 0 THEN x \div Fine ELSE -((-x) \div Fine)

\* PostgreSQL rounds what it stores as NUMERIC(19,4) half away from zero.
HalfUp(x) ==
    IF x >= 0 THEN (2 * x + Fine) \div (2 * Fine) ELSE -((Fine - 2 * x) \div (2 * Fine))

Fits(n) == Abs(n) < Limit

\* timestamptz keeps microseconds; the driver rounds to them.
Micros(t) == ((2 * t + Micro) \div (2 * Micro)) * Micro

-----------------------------------------------------------------------------
(* Rows *)

MutantTransferRow(t) == [t EXCEPT !.money = Money(@.amount, @.currency)]

\* A row of transfers: its second amount and currency repeat the first, its rate is 1.
TransferRow(t) == [t EXCEPT !.at = Micros(@)]

ReadTransfer(row) == [row EXCEPT !.money = Reread(@)]

\* A row of ledger_entries names a transfer or a payment.
EntryRow(e) ==
    [transferId |-> IF e.source = "PAYMENT" THEN None ELSE e.ref,
     paymentId |-> IF e.source = "PAYMENT" THEN e.ref ELSE None,
     wallet |-> e.wallet, direction |-> e.direction, money |-> e.money]

ReadEntry(row) ==
    LET payment == row.transferId = None /\ row.paymentId # None
    IN  [source |-> IF payment THEN "PAYMENT" ELSE "TRANSFER",
         ref |-> IF payment THEN row.paymentId ELSE row.transferId,
         wallet |-> row.wallet, direction |-> row.direction, money |-> Reread(row.money)]

Debit(ref, source, w, m) ==
    [ref |-> ref, source |-> source, wallet |-> w, direction |-> "DEBIT", money |-> m]

MutantCredit(ref, source, w, m) == Debit(ref, source, w, m)

Credit(ref, source, w, m) ==
    [ref |-> ref, source |-> source, wallet |-> w, direction |-> "CREDIT", money |-> m]

\* Money.subtract and add.
Debited(w, m) == balance[w] - m.amount
Credited(w, m) == balance[w] + m.amount

\* Wallet.debit refuses to overdraw a USER wallet.
Overdraws(w, m) == ~System(w) /\ Debited(w, m) < 0

MutantPostable(src, dst, m) == m.amount > 0

\* LedgerEntry and Transfer.complete refuse what is not positive, the columns what is
\* too large.
Postable(src, dst, m) ==
    /\ m.amount > 0 /\ Fits(m.amount)
    /\ Fits(Debited(src, m)) /\ Fits(Credited(dst, m))

\* Both wallets and both entries, for a transfer and for a card payment.
Post(ref, source, src, dst, m) ==
    /\ balance' = [balance EXCEPT ![src] = Debited(src, m), ![dst] = Credited(dst, m)]
    /\ entries' = entries \cup
           {EntryRow(Debit(ref, source, src, m)), EntryRow(Credit(ref, source, dst, m))}

MutantEvent(t) ==
    [id |-> t.id, source |-> t.dst, dest |-> t.src, sourceUser |-> OwnerOf[t.src],
     destUser |-> OwnerOf[t.dst], money |-> t.money, at |-> t.at, remark |-> t.remark]

\* The payload of TransferCompleted.
Event(t) ==
    [id |-> t.id, source |-> t.src, dest |-> t.dst, sourceUser |-> OwnerOf[t.src],
     destUser |-> OwnerOf[t.dst], money |-> t.money, at |-> t.at, remark |-> t.remark]

-----------------------------------------------------------------------------
(* Reads *)

\* findByOwner; wallets of no owner are in nobody's list.
ListByOwner(u) == {w \in DOMAIN balance : OwnerOf[w] = u}

History(w) == {ReadEntry(row) : row \in {x \in entries : x.wallet = w}}

\* sum(case when CREDIT then amount else -amount end)
ReconciledBalance(w) ==
    MapThenSumSet(LAMBDA row : IF row.direction = "CREDIT" THEN row.money.amount
                               ELSE -row.money.amount,
                  {x \in entries : x.wallet = w})

Reconcile(w) == [cached |-> balance[w], ledger |-> ReconciledBalance(w),
                 balanced |-> balance[w] = ReconciledBalance(w)]

Found(key) == {ReadTransfer(row) : row \in {x \in transfers : x.key = key}}

MutantDetail(id, caller) ==
    {t \in {ReadTransfer(row) : row \in {x \in transfers : x.id = id}} : caller = OwnerOf[t.src]}

\* getTransfer answers a participant only.
Detail(id, caller) ==
    {t \in {ReadTransfer(row) : row \in {x \in transfers : x.id = id}} :
        caller \in {OwnerOf[t.src], OwnerOf[t.dst]}}

\* TransferResult, without the status, COMPLETED always.
Result(t) ==
    [key |-> t.key, id |-> t.id, src |-> t.src, dst |-> t.dst, money |-> t.money,
     at |-> t.at, remark |-> t.remark]

-----------------------------------------------------------------------------

Init ==
    /\ balance = [w \in {x \in Wallets : System(x)} |-> 0]
    /\ transfers = {} /\ entries = {} /\ outbox = {} /\ applied = {}
    /\ payments = {} /\ charged = {} /\ dead = {}
    /\ allowed = {} /\ replies = {} /\ last = [status |-> 0]

\* POST /wallets: an empty wallet, in a currency there are accounts for.
Open(w) ==
    /\ w \notin DOMAIN balance /\ CurrencyOf[w] \in Supported
    /\ balance' = [x \in DOMAIN balance \cup {w} |-> IF x = w THEN 0 ELSE balance[x]]
    /\ UNCHANGED <<transfers, entries, outbox, applied, gateway, allowed, replies, last>>

-----------------------------------------------------------------------------
(* Transfers and deposits *)

Answer(q, status) == last' = [q |-> q, status |-> status]

\* An exception rolls back what the call has done; the handler turns it into a status.
Refuse(q, status) == Answer(q, status) /\ UNCHANGED <<books, gateway, allowed, replies>>

MutantLargeEnough(q) == q.amount > 0

\* @DecimalMin("0.0001") of the bodies.
LargeEnough(q) == q.amount >= Fine

\* The status of what is refused before anybody is asked about fraud, 0 if nothing is.
Refusal(q) ==
    IF ~LargeEnough(q) \/ q.src = q.dst THEN 400
    ELSE IF q.key \in LongKeys THEN 500
    ELSE IF {q.src, q.dst} \cap DOMAIN balance # {q.src, q.dst} THEN 404
    ELSE IF ~System(q.src) /\ q.caller # OwnerOf[q.src] THEN 403
    ELSE IF {CurrencyOf[q.src], CurrencyOf[q.dst]} # {q.currency} THEN 400
    ELSE 0

\* The key is looked up before the wallets are.
Replays(q) == LargeEnough(q) /\ q.src # q.dst /\ Found(q.key) # {}

Replay(q) ==
    /\ Replays(q)
    /\ replies' = replies \cup {Result(t) : t \in Found(q.key)}
    /\ Answer(q, 201)
    /\ UNCHANGED <<books, gateway, allowed>>

MutantAsked(q) ==
    [src |-> q.src, dst |-> q.dst, money |-> [amount |-> q.amount, currency |-> q.currency]]

Asked(q) == [src |-> q.src, dst |-> q.dst, money |-> Money(q.amount, q.currency)]

\* fraud-service, its absence with the switch fail-open, and the check switched off.
Denied(q) == Refuse(q, 422)
Allowed(q) == allowed' = allowed \cup {Asked(q)}

\* move, in one transaction.  A remark of more than 500 characters does not fit its column:
\* that is taken for a race on the key, and there is no winner to replay.
Move(q, tick) ==
    LET m == Money(q.amount, q.currency)
        t == [id |-> q.key, key |-> q.key, src |-> q.src, dst |-> q.dst, money |-> m,
              at |-> tick, remark |-> q.remark]
    IN  IF Overdraws(q.src, m) THEN Answer(q, 422) /\ UNCHANGED <<books, replies>>
        ELSE IF ~Postable(q.src, q.dst, m) \/ q.remark = "long"
        THEN Answer(q, 500) /\ UNCHANGED <<books, replies>>
        ELSE /\ Post(t.id, "TRANSFER", q.src, q.dst, m)
             /\ transfers' = transfers \cup {TransferRow(t)}
             /\ outbox' = outbox \cup {Event(t)}
             /\ replies' = replies \cup {Result(t)}
             /\ Answer(q, 201)
             /\ UNCHANGED applied

Transfer(q) ==
    \/ Replay(q)
    \/ ~Replays(q) /\ Refusal(q) # 0 /\ Refuse(q, Refusal(q))
    \/ ~Replays(q) /\ Refusal(q) = 0 /\ Denied(q)
    \/ /\ ~Replays(q) /\ Refusal(q) = 0
       /\ \E tick \in Ticks : Move(q, tick)
       /\ Allowed(q) /\ UNCHANGED gateway

\* POST /wallets/{id}/deposits: the role, the currency, and then a transfer.
Deposit(q) ==
    IF ~LargeEnough(q) THEN Refuse(q, 400)
    ELSE IF q.caller \notin Admins THEN Refuse(q, 403)
    ELSE IF q.currency \notin DOMAIN Funding THEN Refuse(q, 422)
    ELSE Transfer([q EXCEPT !.src = Funding[q.currency]])

-----------------------------------------------------------------------------
(* Card payments *)

\* The row of payments: its column rounds.
PaymentRow(key, q) ==
    [id |-> key, key |-> key, wallet |-> q.wallet,
     money |-> [amount |-> HalfUp(q.amount), currency |-> q.currency], status |-> "AUTHORIZED"]

\* topup, of what the acquirer approves: it is asked for the amount as it was sent.  (Number()
\* keeps every amount of up to 15 digits.)
TopUp(key, q) ==
    /\ \A p \in payments : p.key # key
    /\ Fits(HalfUp(q.amount))
    /\ payments' = payments \cup {PaymentRow(key, q)}
    /\ charged' = charged \cup {[id |-> key, amount |-> q.amount]}
    /\ UNCHANGED <<books, dead, allowed, replies, last>>

\* onSettlement: what is published is the row.
Settle(p) ==
    /\ p \in payments /\ p.status = "AUTHORIZED"
    /\ payments' = (payments \ {p}) \cup {[p EXCEPT !.status = "CAPTURED"]}
    /\ UNCHANGED <<books, charged, dead, allowed, replies, last>>

Accepts(p, m) ==
    /\ p.money.currency \in DOMAIN Clearing
    /\ p.wallet \in DOMAIN balance /\ CurrencyOf[p.wallet] = p.money.currency
    /\ Postable(Clearing[p.money.currency], p.wallet, m)

\* onMessage, its record handed out again or not: applied once, or given up in the end.
Apply(p) ==
    LET m == Reread(p.money)
    IN  /\ p \in payments /\ p.status = "CAPTURED"
        /\ p.id \notin applied \cup dead
        /\ IF Accepts(p, m)
           THEN /\ Post(p.id, "PAYMENT", Clearing[m.currency], p.wallet, m)
                /\ applied' = applied \cup {p.id}
                /\ UNCHANGED <<transfers, outbox, dead>>
           ELSE dead' = dead \cup {p.id} /\ UNCHANGED books
        /\ UNCHANGED <<payments, charged, allowed, replies, last>>

-----------------------------------------------------------------------------

Next ==
    \/ \E w \in Wallets : Open(w)
    \/ \E q \in Transfers : Transfer(q)
    \/ \E q \in Deposits : Deposit(q)
    \/ \E key \in CardKeys, q \in TopUps : TopUp(key, q)
    \/ \E p \in payments : Settle(p) \/ Apply(p)

-----------------------------------------------------------------------------

\* The rows fit their columns and their checks.
RowsFit ==
    /\ DOMAIN balance \subseteq Wallets /\ \A w \in DOMAIN balance : Fits(balance[w])
    /\ \A row \in entries :
         /\ row.money.amount > 0 /\ (row.transferId = None) # (row.paymentId = None)
         /\ row.wallet \in DOMAIN balance /\ row.money.currency = CurrencyOf[row.wallet]
    /\ \A row \in transfers : row.money.amount > 0 /\ row.src # row.dst
    /\ \A p \in payments : Fits(p.money.amount)
    /\ applied \cap dead = {}

\* reconcile, from the rows: every balance is the sum of its wallet's entries as stored.
BooksReconcile == \A w \in DOMAIN balance : Reconcile(w).balanced

\* A history entry of a transfer leads to a detail its reader may see, of that amount and
\* with the wallet on that side; one of a payment, to a payment that was applied.
HistoryResolves ==
    \A u \in Users : \A w \in ListByOwner(u) : \A e \in History(w) :
        IF e.source = "PAYMENT" THEN e.ref \in applied
        ELSE \E t \in Detail(e.ref, u) :
                /\ t.money = e.money
                /\ w = (IF e.direction = "DEBIT" THEN t.src ELSE t.dst)

\* Every transfer has its event, which names the wallets the ledger has debited and
\* credited, their owners and the amount.
EventsMatch ==
    /\ {e.id : e \in outbox} = {t.id : t \in transfers}
    /\ \A e \in outbox : \E debit, credit \in {ReadEntry(row) : row \in entries} :
         /\ debit.source = "TRANSFER" /\ debit.direction = "DEBIT" /\ debit.ref = e.id
         /\ credit.source = "TRANSFER" /\ credit.direction = "CREDIT" /\ credit.ref = e.id
         /\ debit.money = e.money /\ credit.money = e.money
         /\ debit.wallet = e.source /\ credit.wallet = e.dest
         /\ e.sourceUser = OwnerOf[debit.wallet] /\ e.destUser = OwnerOf[credit.wallet]

\* All answers about a key agree, but for what of the time is finer than a microsecond.
ReplayAgrees ==
    \A r, s \in replies : r.key = s.key =>
        /\ [r EXCEPT !.at = 0] = [s EXCEPT !.at = 0]
        /\ Abs(r.at - s.at) < Micro

\* Balances, ledger, events, history, details and the answers to callers are written and
\* read by different code, and tell the same movements to the last digit, whatever the
\* amounts were rounded from and whichever calls were rolled back.
BooksAgree == RowsFit /\ BooksReconcile /\ HistoryResolves /\ EventsMatch /\ ReplayAgrees

\* What a transfer moves is what fraud-service let pass, to the last digit.
MovedWasChecked ==
    \A t \in transfers : [src |-> t.src, dst |-> t.dst, money |-> t.money] \in allowed

\* What a wallet is credited is within half of 0.0001 of what its card was charged.
ChargedIsCredited ==
    \A c \in charged : \A row \in entries :
        row.paymentId = c.id => 2 * Abs(Fine * row.money.amount - c.amount) <= Fine

\* The money that moves is the money others were asked about.  fraud-service is shown the
\* amount as it was sent, rounded by Money; the acquirer is told it unrounded, PostgreSQL
\* rounds it for the gateway, and Money once more for the wallet.
MovedAsAsked == MovedWasChecked /\ ChargedIsCredited

\* What passes the 0.0001 of the bodies is never refused by the ledger for its amount:
\* rounding leaves it positive.  A call fails as the server's fault only for a key or a
\* remark that is too long, or an amount or balance its column cannot hold.
ServerErrorsExplained ==
    [][last' # last /\ last'.status = 500 =>
          LET q == last'.q
              m == Money(q.amount, q.currency)
          IN  \/ q.key \in LongKeys \/ q.remark = "long"
              \/ ~Fits(m.amount) \/ ~Fits(Debited(q.src, m)) \/ ~Fits(Credited(q.dst, m))]_vars
=============================================================================
