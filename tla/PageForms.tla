------------------------------- MODULE PageForms -------------------------------
(***************************************************************************)
(* The forms of vietpay-web, field by field: what their inputs let through *)
(* the browser's constraints and handleSubmit's checks, and what the       *)
(* service behind each makes of the request.  One form is on the screen at *)
(* a time, and is looked at until its request is answered; leaving it      *)
(* before is WalletPages'.  Everything typed stays editable while a        *)
(* request is out: only the button is disabled.                            *)
(***************************************************************************)
EXTENDS Integers

CONSTANTS
    Mine,           \* the user's wallets
    Others,         \* wallets of somebody else
    DenominationOf,     \* the currency of each of them
    Nowhere,        \* the id of no wallet
    NotAnId,        \* what is no UUID
    NoWallet,       \* nothing typed or selected
    Currencies,     \* bound: the currencies looked at
    Lengths,        \* bound: digits of a card number somebody types or pastes
    Details         \* bound: fields of the card that may lack something

Typed == Mine \cup Others \cup {Nowhere, NotAnId}

ASSUME PageFormsAssumption ==
    /\ DenominationOf \in [Mine \cup Others -> Currencies]
    /\ NoWallet \notin Typed /\ Nowhere # NotAnId
    /\ Lengths \subseteq Nat

VARIABLES
    page,       \* the form on the screen
    list,       \* its list of wallets: "loading", "loaded", or "none" if there are none
    form,       \* its fields
    call,       \* its last request and what became of it
    error,      \* what it reports: "none", "list", "check" or "refused"
    result,     \* it reports a success
    typed,      \* ghost: an amount was entered that no payment has used
    chosen      \* ghost: the currency is what choosing the wallet made it

formsVars == <<page, list, form, call, error, result, typed, chosen>>

Pages == {"transfer", "card", "deposit", "dashboard", "login", "register"}

\* CURRENCIES of the pages, and those wallet-service supports and has funding accounts for.
OfferedBy(p) ==
    Currencies \cap
        IF p = "card" THEN {"USD", "EUR", "GBP", "VND"}
        ELSE {"VND", "USD", "EUR", "GBP", "JPY", "AUD", "CAD"}
Fundable == {"USD", "EUR", "VND", "GBP"}

Fresh(p) ==
    [wallet |-> NoWallet, dest |-> NoWallet, amount |-> "none",
     currency |-> IF p = "card" THEN "USD" ELSE "VND",
     panel |-> FALSE, digits |-> 0, letters |-> 0, lacks |-> Details,
     email |-> "none", password |-> "none"]

NoCall == [pc |-> "none", page |-> "none", req |-> Fresh("none"), chosen |-> FALSE, status |-> 0]

\* A mounted page remembers nothing; Transfer and CardDeposit ask for the wallets first.
Mount(p) ==
    /\ page' = p /\ form' = Fresh(p) /\ call' = NoCall
    /\ list' = IF p \in {"transfer", "card"} THEN "loading" ELSE "loaded"
    /\ error' = "none" /\ result' = FALSE /\ typed' = FALSE /\ chosen' = FALSE

FormsInit ==
    /\ page = "login" /\ form = Fresh("login") /\ call = NoCall /\ list = "loaded"
    /\ error = "none" /\ result = FALSE /\ typed = FALSE /\ chosen = FALSE

OpenPage(p) == call.pc # "sent" /\ Mount(p)

\* The first wallet is preselected, and nothing else set.  Without wallets, or without an
\* answer, there is no form to transfer with.
TransferLists ==
    /\ page = "transfer" /\ list = "loading"
    /\ \/ list' = "loaded" /\ \E w \in Mine : form' = [form EXCEPT !.wallet = w]
       \/ list' = "none" /\ UNCHANGED form
    /\ UNCHANGED <<page, call, error, result, typed, chosen>>

CardLists ==
    /\ page = "card" /\ list = "loading"
    /\ \/ /\ list' = "loaded" /\ \E w \in Mine : form' = [form EXCEPT !.wallet = w]
          /\ UNCHANGED error
       \/ /\ list' = "none" /\ UNCHANGED form
          /\ error' \in {"list"} \cup (IF Mine = {} THEN {"none"} ELSE {})
    /\ UNCHANGED <<page, call, result, typed, chosen>>

-----------------------------------------------------------------------------
(* The inputs *)

Set(fields) == form' = fields /\ UNCHANGED <<page, list, call, error, result>>

EnterAmount ==
    /\ \E a \in {"none", "small", "fine"} : Set([form EXCEPT !.amount = a])
    /\ typed' = (form'.amount # "none") /\ UNCHANGED chosen

Enter(fields) == Set(fields) /\ UNCHANGED <<typed, chosen>>

\* The currency shown is that of the source wallet.
TransferInputs ==
    /\ page = "transfer" /\ list = "loaded"
    /\ \/ \E w \in Mine : Enter([form EXCEPT !.wallet = w])
       \/ \E w \in Typed : Enter([form EXCEPT !.dest = w])
       \/ EnterAmount


ChooseWallet(w) ==
    /\ Set([form EXCEPT !.wallet = w, !.currency = DenominationOf[w]])
    /\ chosen' = TRUE

\* What is typed for the number is kept as it is, up to 19 characters, its letters too,
\* though the input shows the first 16 digits of it.  The wallet is typed if there is
\* none to choose from.
CardInputs ==
    /\ page = "card" /\ list # "loading"
    /\ \/ \E d \in Lengths, l \in {0, 1} :
            d + l <= 19 /\ Enter([form EXCEPT !.digits = d, !.letters = l])
       \/ \E lacks \in SUBSET Details : Enter([form EXCEPT !.lacks = lacks])
       \/ IF list = "loaded" THEN \E w \in Mine : ChooseWallet(w) /\ UNCHANGED typed
          ELSE \E w \in Typed : Enter([form EXCEPT !.wallet = w])
       \/ EnterAmount
       \/ \E c \in OfferedBy(page) : Set([form EXCEPT !.currency = c]) /\ chosen' = FALSE
                                       /\ UNCHANGED typed

DepositInputs ==
    /\ page = "deposit"
    /\ \/ \E w \in Typed : Enter([form EXCEPT !.wallet = w])
       \/ EnterAmount
       \/ \E c \in OfferedBy(page) : Enter([form EXCEPT !.currency = c])

CreateInputs ==
    /\ page = "dashboard"
    /\ \/ \E b \in BOOLEAN : Enter([form EXCEPT !.panel = b])
       \/ form.panel /\ \E c \in OfferedBy(page) : Enter([form EXCEPT !.currency = c])

\* An "odd" address passes for one in a browser but not with the service: no dot in its domain.
Addresses == {"none", "odd", "fine"}

LoginInputs ==
    /\ page = "login"
    /\ \/ \E e \in Addresses : Enter([form EXCEPT !.email = e])
       \/ \E p \in {"none", "short", "fine"} : Enter([form EXCEPT !.password = p])

RegisterInputs ==
    /\ page = "register"
    /\ \/ \E e \in Addresses : Enter([form EXCEPT !.email = e])
       \/ \E p \in {"none", "short", "fine"} : Enter([form EXCEPT !.password = p])

-----------------------------------------------------------------------------
(* Submitting *)

\* required, min and minLength of the inputs: the browser submits nothing else.
Complete ==
    CASE page = "transfer" -> list = "loaded" /\ form.dest # NoWallet /\ form.amount = "fine"
      [] page = "card" -> list # "loading" /\ form.amount # "small"
      [] page = "deposit" -> form.wallet # NoWallet /\ form.amount = "fine"
      [] page = "dashboard" -> form.panel
      [] OTHER -> form.email # "none" /\ form.password = "fine"

\* The checks of handleSubmit.
CardComplaint ==
    \/ form.digits + form.letters # 16 \/ form.lacks # {} \/ form.amount = "none"
    \/ form.wallet = NoWallet

MutantComplaint ==
    CASE page = "card" -> CardComplaint
      [] OTHER -> FALSE

Complaint ==
    CASE page = "card" -> CardComplaint
      [] page = "transfer" -> form.wallet = form.dest
      [] OTHER -> FALSE

Submit == call.pc # "sent" /\ Complete

Complain ==
    /\ Submit /\ Complaint
    /\ error' = "check" /\ result' = FALSE
    /\ UNCHANGED <<page, list, form, call, typed, chosen>>

\* Request as it is sent: a transfer's currency is its source's.
Request ==
    IF page = "transfer" THEN [form EXCEPT !.currency = DenominationOf[form.wallet]] ELSE form

Send ==
    /\ Submit /\ ~Complaint
    /\ call' = [pc |-> "sent", page |-> page, req |-> Request, chosen |-> chosen, status |-> 0]
    /\ error' = "none" /\ result' = FALSE /\ typed' = FALSE
    /\ UNCHANGED <<page, list, form, chosen>>

-----------------------------------------------------------------------------
(* The services *)

\* TransferService.transfer: the ids are looked up, the currencies compared, and then the
\* fraud check and the balance decide.
Transferred(q, source, dest) ==
    CASE dest \in {NotAnId, source} -> {400}
      [] dest = Nowhere -> {404}
      [] OTHER -> IF DenominationOf[dest] = q.currency THEN {201, 422} ELSE {400}

FundingAccount == "funding account"

\* DepositService.deposit transfers from the funding account of the currency.
Deposited(q) ==
    IF q.wallet = NotAnId THEN {400}
    ELSE IF q.currency \notin Fundable THEN {422} ELSE Transferred(q, FundingAccount, q.wallet)

\* The gateway asks no one about the wallet; the acquirer approves or declines.
ToppedUp(q) == IF q.wallet = NotAnId \/ q.amount = "none" THEN {400} ELSE {201, 422}

Created(q) == IF q.currency \in Fundable THEN {201} ELSE {422}

\* IsEmail and MinLength of the bodies.
Malformed(q) == q.email # "fine" \/ q.password # "fine"
LoggedIn(q) == IF Malformed(q) THEN {400} ELSE {201, 401}
Registered(q) == IF Malformed(q) THEN {400} ELSE {201, 409}

\* What the service may answer: 201 for every success, 503 for every other failure, a lost
\* answer included.
Answers(q) ==
    {503} \cup
        CASE call.page = "transfer" -> Transferred(q, q.wallet, q.dest)
          [] call.page = "deposit" -> Deposited(q)
          [] call.page = "card" -> ToppedUp(q)
          [] call.page = "dashboard" -> Created(q)
          [] call.page = "login" -> LoggedIn(q)
          [] call.page = "register" -> Registered(q)

\* A captured top-up is posted by ApplyPaymentService or dead-lettered.
Creditable(q) == q.wallet \in Mine \cup Others /\ DenominationOf[q.wallet] = q.currency

-----------------------------------------------------------------------------
(* The answer *)

MutantSpent == form

\* After a payment its amount is taken away, and the wallet of a deposit with it; the panel
\* is closed once there is a wallet.
Spent ==
    CASE page = "deposit" -> [form EXCEPT !.amount = "none", !.wallet = NoWallet]
      [] page \in {"transfer", "card"} -> [form EXCEPT !.amount = "none"]
      [] OTHER -> [form EXCEPT !.panel = FALSE]

Succeeds ==
    /\ call.pc = "sent" /\ page \notin {"login", "register"}
    /\ 201 \in Answers(call.req)
    /\ call' = [call EXCEPT !.pc = "answered", !.status = 201]
    /\ form' = Spent /\ result' = (page # "dashboard") /\ typed' = FALSE
    /\ UNCHANGED <<page, list, error, chosen>>

\* Whoever is let in goes on to the dashboard.
LetIn ==
    /\ call.pc = "sent" /\ page \in {"login", "register"}
    /\ 201 \in Answers(call.req)
    /\ Mount("dashboard")

\* The fields stay; the next try is a payment of its own.
Fails ==
    /\ call.pc = "sent"
    /\ \E s \in Answers(call.req) \ {201} :
         call' = [call EXCEPT !.pc = "answered", !.status = s]
    /\ error' = "refused" /\ typed' = (form.amount # "none")
    /\ UNCHANGED <<page, list, form, result, chosen>>

-----------------------------------------------------------------------------

FormsNext ==
    \/ \E p \in Pages : OpenPage(p)
    \/ TransferLists \/ CardLists
    \/ TransferInputs \/ CardInputs \/ DepositInputs \/ CreateInputs \/ LoginInputs
    \/ RegisterInputs
    \/ Complain \/ Send
    \/ Succeeds \/ LetIn \/ Fails

-----------------------------------------------------------------------------

Payments == {"transfer", "card", "deposit"}

\* An amount that was entered is paid once, though the form stays on the screen and stays
\* editable: after a payment nothing is sent before an amount is entered again.  What a
\* failure left in the form may be sent once more, also if only the answer was lost.
PaidOnceTyped ==
    [][call.pc # "sent" /\ call'.pc = "sent" /\ page \in Payments => typed]_formsVars

FoundWellFormed ==
    call.status = 400 =>
        LET q == call.req
            dest == IF call.page = "transfer" THEN q.dest ELSE q.wallet
        IN  IF call.page \in Payments
            THEN dest = NotAnId \/ DenominationOf[dest] # q.currency
            ELSE q.email = "odd"

ChosenWalletCredited ==
    call.page = "card" /\ call.status = 201 /\ call.chosen => Creditable(call.req)

=============================================================================
