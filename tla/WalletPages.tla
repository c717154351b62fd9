------------------------------ MODULE WalletPages ------------------------------
(***************************************************************************)
(* What a user sees of one wallet, and what the pages do to it: the reads  *)
(* of wallet-service (the cached view, the ledger's pages, the             *)
(* reconciliation) while money moves, and the pages of vietpay-web that    *)
(* call them: Dashboard, WalletDetail, Transfer, CardDeposit and the admin *)
(* Deposit.  A balance is the number of the movement that made it, and so  *)
(* is a ledger entry; how a movement is posted is WalletCore's.            *)
(***************************************************************************)
EXTENDS Integers, SequencesExt

CONSTANTS
    Limit,          \* entries a page of the history has (20 in the code)
    Start,          \* movements the wallet has had before
    MaxMoves,       \* bound: movements there are in all
    MaxCalls,       \* bound: calls the pages make
    MaxFaults       \* bound: Redis errors, lost requests and answers

ASSUME WalletPagesAssumption ==
    /\ Limit \in Nat \ {0}
    /\ {Start, MaxMoves, MaxCalls, MaxFaults} \subseteq Nat

Forms == {"transfer", "card", "deposit"}
Pages == {"dashboard", "wallet"} \cup Forms
None == -1

VARIABLES
    moved,      \* movements committed
    cache,      \* the balance under walletView::id, or None
    due,        \* movements whose eviction has not happened yet
    ui,         \* the page on the screen
    calls,      \* the calls whose answers the pages have not dealt with, in their order
    made,       \* calls made so far
    faults,
    excused,    \* ghost: the cached view is a late fill or missed an eviction
    doubled,    \* ghost: what was clicked again before its answer: "txns", "detail"
    last        \* ghost: what became of the last form submitted

server == <<moved, cache, due, excused>>
screen == <<ui, doubled>>
traffic == <<calls, made>>
vars == <<server, screen, traffic, faults, last>>

\* since: the movements there were when the page was opened; asked: the entry whose
\* details were asked for last.
Blank(page) ==
    [page |-> page, loading |-> page # "deposit", balance |-> None, rows |-> <<>>,
     recon |-> "none", offset |-> 0, hasMore |-> TRUE, busy |-> FALSE,
     detail |-> None, asked |-> None, told |-> "nothing", since |-> moved]

\* A call is dead when its page has been left: what it still does, it does to the server.
Call(page, kind, arg) ==
    [page |-> page, kind |-> kind, pc |-> "sent", arg |-> arg, val |-> 0, live |-> TRUE]

Init ==
    /\ moved = Start /\ cache \in {None, Start} /\ due = {}
    /\ ui = Blank("deposit") /\ calls = <<>> /\ made = 0
    /\ faults = 0 /\ excused = FALSE /\ doubled = {}
    /\ last = [taken |-> FALSE, lost |-> FALSE, kind |-> "none"]

Faulty == faults < MaxFaults /\ faults' = faults + 1
Settles(pc) == pc \in {"ok", "off", "failed"}

\* The answer to a dead call is dealt with by no one.
Reply(c, pc, val) ==
    /\ calls' = IF Settles(pc) /\ ~calls[c].live THEN RemoveAt(calls, c)
                ELSE [calls EXCEPT ![c].pc = pc, ![c].val = val]
    /\ UNCHANGED made
At(c, kind, pc) == calls[c].kind = kind /\ calls[c].pc = pc

\* The members of s that are in K, in their order: SelectSeq, as a function.
Among(s, K) ==
    LET kept[n \in 0..Len(s)] ==
            IF n = 0 THEN <<>>
            ELSE IF s[n] \in K THEN Append(kept[n - 1], s[n]) ELSE kept[n - 1]
    IN  kept[Len(s)]

-----------------------------------------------------------------------------
(* wallet-service *)

MutantMove(source) ==
    /\ moved < MaxMoves /\ moved' = moved + 1
    /\ due' = IF source THEN due \cup {moved + 1} ELSE due
    /\ UNCHANGED <<cache, excused>>

\* TransferService and ApplyPaymentService evict the views of both wallets once the
\* movement is committed; the wallet is its source or its destination.
Move(source) ==
    /\ moved < MaxMoves /\ moved' = moved + 1
    /\ due' = due \cup {moved + 1}
    /\ UNCHANGED <<cache, excused>>

\* Other people's transfers, deposits and settled top-ups.
MoveElsewhere ==
    /\ \E source \in BOOLEAN : Move(source)
    /\ UNCHANGED <<screen, traffic, faults, last>>

Evict(m) ==
    /\ m \in due /\ due' = due \ {m}
    /\ cache' = None /\ excused' = FALSE
    /\ UNCHANGED <<moved, screen, traffic, faults, last>>

\* Redis refuses and the error handler only logs it, or the process dies.
EvictFails(m) ==
    /\ m \in due /\ due' = due \ {m} /\ Faulty
    /\ excused' = (excused \/ cache # None)
    /\ UNCHANGED <<moved, cache, screen, traffic, last>>

MutantExpire == FALSE /\ UNCHANGED vars

\* entryTtl
Expire ==
    /\ cache # None /\ cache' = None /\ excused' = FALSE
    /\ UNCHANGED <<moved, due, screen, traffic, faults, last>>

\* get, @Cacheable: an error of the cache counts as a miss.
Get(c) ==
    /\ At(c, "view", "sent")
    /\ \/ cache # None /\ Reply(c, "ok", cache) /\ UNCHANGED faults
       \/ cache = None /\ Reply(c, "loaded", moved) /\ UNCHANGED faults
       \/ cache # None /\ Faulty /\ Reply(c, "loaded", moved)
    /\ UNCHANGED <<server, screen, last>>

\* What get loaded is put into the cache, whatever has moved in between.
Put(c) ==
    /\ At(c, "view", "loaded") /\ Reply(c, "ok", calls[c].val)
    /\ \/ /\ cache' = calls[c].val
          /\ excused' = (calls[c].val < moved /\ due = {})
          /\ UNCHANGED faults
       \/ Faulty /\ UNCHANGED <<cache, excused>>
    /\ UNCHANGED <<moved, due, screen, last>>

MutantReconcile(c) ==
    /\ At(c, "recon", "sent") /\ Reply(c, "loaded", IF cache = None THEN moved ELSE cache)
    /\ UNCHANGED <<server, screen, faults, last>>

\* reconcile reads the wallet first ...
Reconcile(c) ==
    /\ At(c, "recon", "sent") /\ Reply(c, "loaded", moved)
    /\ UNCHANGED <<server, screen, faults, last>>

\* ... and then the sum of the ledger, in a snapshot of its own.
ReconciledBalance(c) ==
    /\ At(c, "recon", "loaded")
    /\ Reply(c, IF calls[c].val = moved THEN "ok" ELSE "off", moved)
    /\ UNCHANGED <<server, screen, faults, last>>

MutantHistory(offset, n) ==
    LET older == n - offset * Limit
    IN  [i \in 1..(IF older > Limit THEN Limit ELSE IF older < 0 THEN 0 ELSE older)
            |-> older - i + 1]

\* history: page offset / limit of the n entries there are, newest first.
History(offset, n) ==
    LET older == n - (offset \div Limit) * Limit
    IN  [i \in 1..(IF older > Limit THEN Limit ELSE IF older < 0 THEN 0 ELSE older)
            |-> older - i + 1]

\* transactions and listByOwner, one query each; neither uses the cache.
Query(c) ==
    /\ At(c, "list", "sent") \/ At(c, "txns", "sent") \/ At(c, "relist", "sent")
    /\ Reply(c, "ok", moved)
    /\ UNCHANGED <<server, screen, faults, last>>

Taken(c) == last' = IF calls[c].live THEN [last EXCEPT !.taken = TRUE] ELSE last

\* create opens another wallet, which this model does not follow; JPY is refused.
Create(c) ==
    /\ At(c, "create", "sent")
    /\ \/ Reply(c, "ok", 0) /\ Taken(c)
       \/ Reply(c, "failed", 0) /\ UNCHANGED last
    /\ UNCHANGED <<server, screen, faults>>

\* A transfer from the wallet and a deposit to it move money before they answer; a
\* top-up is taken and moves it when it has settled.
Pay(c) ==
    /\ calls[c].kind \in Forms /\ calls[c].pc = "sent"
    /\ \/ Reply(c, "failed", 0) /\ UNCHANGED <<server, last>>
       \/ /\ calls[c].kind = "card"
          /\ Reply(c, "ok", 0) /\ Taken(c) /\ UNCHANGED server
       \/ /\ calls[c].kind # "card"
          /\ Move(calls[c].kind = "transfer") /\ Reply(c, "moved", moved + 1) /\ Taken(c)
    /\ UNCHANGED <<screen, faults>>

\* Both views are evicted before the answer.
PaymentAnswers(c) ==
    /\ calls[c].kind \in Forms /\ calls[c].pc = "moved" /\ calls[c].val \notin due
    /\ Reply(c, "ok", calls[c].val)
    /\ UNCHANGED <<server, screen, faults, last>>

\* The request is lost or refused by an error, or its answer is lost.
AnswerLost(c) ==
    /\ calls[c].pc \in {"sent", "ok"} /\ calls[c].live /\ Faulty
    /\ Reply(c, "failed", calls[c].val)
    /\ last' = [last EXCEPT !.lost = @ \/ (At(c, last.kind, "ok"))]
    /\ UNCHANGED <<server, screen>>

-----------------------------------------------------------------------------
(* The pages *)

Settled(c) == Settles(calls[c].pc)

\* The answer of c is dealt with, and the calls new are made.
Handle(c, new) ==
    /\ made' = made + Len(new) /\ made' <= MaxCalls
    /\ calls' = RemoveAt(calls, c) \o new

\* getWallet, getTransactions, getReconciliation, listMyWallets: what a page asks for
\* when it is mounted.
OnMount(page) ==
    CASE page = "wallet" ->
            <<Call(page, "view", 0), Call(page, "txns", 0), Call(page, "recon", 0)>>
      [] page = "deposit" -> <<>>
      [] OTHER -> <<Call(page, "list", 0)>>

\* Another page is opened, or the same one again; the calls of the one before go on where
\* they can still do something: put a view into the cache, or move money.
Open(page) ==
    /\ made' = made + Len(OnMount(page)) /\ made' <= MaxCalls
    /\ ui' = Blank(page) /\ doubled' = {}
    /\ LET left == Among(calls, {a \in Range(calls) : /\ a.kind \in Forms \cup {"view"}
                                                     /\ a.pc \in {"sent", "loaded"}})
       IN  calls' = [c \in DOMAIN left |-> [left[c] EXCEPT !.live = FALSE]] \o OnMount(page)
    /\ last' = [taken |-> FALSE, lost |-> FALSE, kind |-> "none"]
    /\ UNCHANGED <<server, faults>>

\* WalletDetail waits for all three answers and shows those that came.
LoadSettles ==
    /\ ui.page = "wallet" /\ ui.loading
    /\ \A c \in DOMAIN calls : calls[c].live => Settled(c)
    /\ LET Of(kind) == CHOOSE a \in {calls[c] : c \in DOMAIN calls} : a.live /\ a.kind = kind
           first == History(0, Of("txns").val)
           came == Of("txns").pc = "ok"
       IN  ui' = [ui EXCEPT
               !.loading = FALSE,
               !.balance = IF Of("view").pc = "ok" THEN Of("view").val ELSE None,
               !.rows = IF came THEN first ELSE <<>>,
               !.hasMore = ~came \/ Len(first) = Limit,
               !.recon = IF Of("recon").pc = "failed" THEN "none" ELSE Of("recon").pc]
    /\ calls' = Among(calls, {a \in Range(calls) : ~a.live})
    /\ UNCHANGED <<server, made, doubled, faults, last>>

\* The balance card, with "In sync" or "Out of sync" beside the balance, is there once the
\* wallet is.
ShowsCard == ui.page = "wallet" /\ ~ui.loading /\ ui.balance # None

\* "Load more" is offered under the rows, also while an answer is awaited.
OffersMore == ShowsCard /\ ui.rows # <<>> /\ ui.hasMore

\* A call of this kind is made again before its answer.
Twice(kind) ==
    doubled' = IF \E c \in DOMAIN calls : calls[c].live /\ calls[c].kind = kind
               THEN doubled \cup {kind} ELSE doubled

LoadMore ==
    /\ OffersMore /\ made < MaxCalls /\ made' = made + 1
    /\ calls' = Append(calls, Call("wallet", "txns", ui.offset + Limit))
    /\ Twice("txns")
    /\ UNCHANGED <<server, ui, faults, last>>

MoreAnswered(c) ==
    /\ calls[c].kind = "txns" /\ calls[c].live /\ Settled(c) /\ ~ui.loading
    /\ Handle(c, <<>>)
    /\ IF calls[c].pc = "failed" THEN UNCHANGED ui
       ELSE LET more == History(calls[c].arg, calls[c].val)
            IN  ui' = [ui EXCEPT !.rows = @ \o more, !.offset = calls[c].arg,
                                 !.hasMore = Len(more) = Limit]
    /\ UNCHANGED <<server, doubled, faults, last>>

\* Clicking an entry asks for its transfer or its payment; nothing disables a second click.
OpenDetail(m) ==
    /\ ShowsCard /\ m \in Range(ui.rows) /\ made < MaxCalls /\ made' = made + 1
    /\ ui' = [ui EXCEPT !.detail = None, !.asked = m]
    /\ calls' = Append(calls, Call("wallet", "detail", m))
    /\ Twice("detail")
    /\ UNCHANGED <<server, faults, last>>

\* getTransferDetail or getPayment finds what the entry refers to.
Find(c) ==
    /\ At(c, "detail", "sent") /\ Reply(c, "ok", calls[c].arg)
    /\ UNCHANGED <<server, screen, faults, last>>

DetailAnswered(c) ==
    /\ calls[c].kind = "detail" /\ Settled(c)
    /\ Handle(c, <<>>)
    /\ ui' = [ui EXCEPT !.detail = IF calls[c].pc = "ok" THEN calls[c].val ELSE @]
    /\ UNCHANGED <<server, doubled, faults, last>>

\* The panel of a transfer or of a card payment, and its "close" button.
ShowsDetail == ui.detail # None
CloseDetail ==
    /\ ShowsDetail /\ ui' = [ui EXCEPT !.detail = None]
    /\ UNCHANGED <<server, doubled, traffic, faults, last>>

\* Dashboard, Transfer and CardDeposit show what was listed, if it was.
Listed(c) ==
    /\ calls[c].kind = "list" /\ Settled(c)
    /\ Handle(c, <<>>)
    /\ ui' = [ui EXCEPT !.loading = FALSE,
                        !.balance = IF calls[c].pc = "ok" THEN calls[c].val ELSE None]
    /\ UNCHANGED <<server, doubled, faults, last>>

\* When the list fails, Dashboard fetches the wallets whose ids it has in localStorage, if
\* any, one by one.
FallBack(c) ==
    /\ At(c, "list", "failed") /\ calls[c].page = "dashboard"
    /\ Handle(c, <<Call("dashboard", "view", 0)>>)
    /\ UNCHANGED <<server, screen, faults, last>>

FallbackAnswered(c) ==
    /\ calls[c].kind = "view" /\ calls[c].page = "dashboard" /\ Settled(c)
    /\ Handle(c, <<>>)
    /\ ui' = [ui EXCEPT !.loading = FALSE,
                        !.balance = IF calls[c].pc = "ok" THEN calls[c].val ELSE None]
    /\ UNCHANGED <<server, doubled, faults, last>>

\* The form each page offers: Transfer has nothing to offer without the user's wallets,
\* CardDeposit lets the id be typed in, Deposit loads nothing.
OffersCreate == ui.page = "dashboard"
OffersTransfer == ui.page = "transfer" /\ ~ui.loading /\ ui.balance # None
OffersCard == ui.page = "card" /\ ~ui.loading
OffersDeposit == ui.page = "deposit"
Offers(kind) ==
    /\ ~ui.busy
    /\ CASE kind = "create" -> OffersCreate
         [] kind = "transfer" -> OffersTransfer
         [] kind = "card" -> OffersCard
         [] kind = "deposit" -> OffersDeposit

\* What was typed in is not a valid amount, wallet or card: no request is made.
Invalid(kind) ==
    /\ Offers(kind) /\ kind \in Forms
    /\ ui' = [ui EXCEPT !.told = "error"]
    /\ last' = [taken |-> FALSE, lost |-> FALSE, kind |-> kind]
    /\ UNCHANGED <<server, traffic, doubled, faults>>

\* handleSubmit and handleCreate, whose button is disabled until they return.
Submit(kind) ==
    /\ Offers(kind) /\ made < MaxCalls /\ made' = made + 1
    /\ ui' = [ui EXCEPT !.busy = TRUE, !.told = "nothing"]
    /\ calls' = Append(calls, Call(ui.page, kind, 0))
    /\ last' = [taken |-> FALSE, lost |-> FALSE, kind |-> kind]
    /\ UNCHANGED <<server, doubled, faults>>

\* Transfer reports success, and refreshes the list without waiting for it.
TransferAnswered(c) ==
    /\ At(c, "transfer", "ok")
    /\ Handle(c, <<Call("transfer", "relist", 0)>>)
    /\ ui' = [ui EXCEPT !.busy = FALSE, !.told = "ok"]
    /\ UNCHANGED <<server, doubled, faults, last>>

DepositAnswered(c) ==
    /\ At(c, "card", "ok") \/ At(c, "deposit", "ok")
    /\ Handle(c, <<>>)
    /\ ui' = [ui EXCEPT !.busy = FALSE, !.told = "ok"]
    /\ UNCHANGED <<server, doubled, faults, last>>

\* handleCreate awaits the new list in the same try.
Created(c) ==
    /\ At(c, "create", "ok")
    /\ Handle(c, <<Call("dashboard", "relist", 0)>>)
    /\ UNCHANGED <<server, screen, faults, last>>

SubmitFailed(c) ==
    /\ calls[c].kind \in Forms \cup {"create"} /\ calls[c].pc = "failed"
    /\ Handle(c, <<>>)
    /\ ui' = [ui EXCEPT !.busy = FALSE, !.told = "error"]
    /\ UNCHANGED <<server, doubled, faults, last>>

Relisted(c) ==
    /\ calls[c].kind = "relist" /\ Settled(c)
    /\ Handle(c, <<>>)
    /\ ui' = [ui EXCEPT
           !.balance = IF calls[c].pc = "ok" THEN calls[c].val ELSE @,
           !.busy = calls[c].page # "dashboard" /\ @,
           !.told = IF calls[c].page # "dashboard" THEN @
                    ELSE IF calls[c].pc = "ok" THEN "ok" ELSE "error"]
    /\ UNCHANGED <<server, doubled, faults, last>>

-----------------------------------------------------------------------------

Serve ==
    \/ \E m \in due : Evict(m)
    \/ \E c \in DOMAIN calls :
            \/ Get(c) \/ Put(c) \/ Reconcile(c) \/ ReconciledBalance(c) \/ Query(c)
            \/ Find(c) \/ Create(c) \/ Pay(c) \/ PaymentAnswers(c)

Receive ==
    \/ LoadSettles
    \/ \E c \in DOMAIN calls :
            \/ MoreAnswered(c) \/ DetailAnswered(c) \/ Listed(c) \/ FallBack(c) \/ FallbackAnswered(c)
            \/ TransferAnswered(c) \/ DepositAnswered(c) \/ Created(c) \/ SubmitFailed(c)
            \/ Relisted(c)

Use ==
    \/ \E page \in Pages : Open(page)
    \/ LoadMore \/ CloseDetail
    \/ \E m \in Range(ui.rows) : OpenDetail(m)
    \/ \E kind \in Forms \cup {"create"} : Submit(kind) \/ Invalid(kind)

Next ==
    \/ Serve \/ Receive \/ Use
    \/ MoveElsewhere
    \/ Expire
    \/ \E m \in due : EvictFails(m)
    \/ \E c \in DOMAIN calls : AnswerLost(c)

\* Requests are served, Redis expires keys; users and other people do as they like.
Spec == Init /\ [][Next]_vars /\ WF_vars(Serve) /\ WF_vars(Receive) /\ WF_vars(Expire)

-----------------------------------------------------------------------------
\* A cached balance (WalletService.get) is behind the wallet's own only while the
\* eviction of a movement is still to come, after an eviction that failed, or after a
\* read that had loaded the old balance before a movement filled the cache behind the
\* movement's eviction.
CacheFresh == cache # None /\ cache < moved => due # {} \/ excused

\* However it got there, an old balance does not stay in the cache (CacheConfig's TTL).
EventuallyFresh == <>[](cache \in {None, moved})

\* WalletDetail shows "Out of sync" only if the wallet's balance has moved since the page
\* was opened: the two reads of reconcile saw different states, the ledger was in order.
OutOfSyncOnlyIfMoved == ShowsCard /\ ui.recon = "off" => moved > ui.since

\* However often "Load more" is clicked, WalletDetail shows the newest entries of the
\* ledger, each once, and stops offering more only when it shows all of them, unless the
\* wallet has moved in the meantime or a click came before the answer to the one before.
PagesTile ==
    ui.page = "wallet" /\ moved = ui.since /\ "txns" \notin doubled =>
        /\ ui.rows = [i \in 1..Len(ui.rows) |-> moved - i + 1]
        /\ ui.hasMore \/ Len(ui.rows) = moved

\* A payment form that reports a failure has not paid, unless the answer to its request
\* was lost, and one that reports success has.  handleCreate is the exception: it reports
\* "Create wallet failed" also when only the list after it fails.  The details on show are
\* those of the entry clicked last, unless it was clicked before the answer for another.
ReportsAreTrue ==
    /\ ui.told = "error" /\ last.kind # "create" => ~last.taken \/ last.lost
    /\ ui.told = "ok" => last.taken
    /\ ShowsDetail => ui.detail = ui.asked \/ "detail" \in doubled

-----------------------------------------------------------------------------
(* What makes them inductive; proved in WalletPagesProofs. *)

\* The calls each page makes.
Belongs ==
    {"wallet"} \X {"view", "txns", "recon", "detail"}
      \cup {"dashboard"} \X {"list", "view", "create", "relist"}
      \cup {"transfer"} \X {"list", "transfer", "relist"}
      \cup {"card"} \X {"list", "card"} \cup {"deposit"} \X {"deposit"}

Kinds == {"view", "txns", "recon", "detail", "list", "create", "relist"} \cup Forms
Stages == {"sent", "loaded", "moved", "ok", "off", "failed"}

ServerShape ==
    /\ moved \in Nat /\ cache \in Int /\ excused \in BOOLEAN /\ made \in Nat /\ faults \in Nat
    /\ last \in [taken : BOOLEAN, lost : BOOLEAN, kind : Kinds \cup {"none"}]

ScreenShape ==
    ui \in [page : Pages, loading : BOOLEAN, balance : Int, rows : Seq(Int),
           recon : {"none", "ok", "off"}, offset : Nat, hasMore : BOOLEAN, busy : BOOLEAN,
           detail : Int, asked : Int, told : {"nothing", "ok", "error"}, since : 0..moved]

\* Shape of the calls.  One whose page has been left still has something to do.
CallType == [page : Pages, kind : Kinds, pc : Stages, arg : Int, val : Int, live : BOOLEAN]
CallShape ==
    /\ calls \in Seq(CallType)
    /\ \A c \in DOMAIN calls :
          /\ <<calls[c].page, calls[c].kind>> \in Belongs
          /\ calls[c].pc = "off" => calls[c].kind = "recon"
          /\ IF calls[c].live THEN calls[c].page = ui.page
             ELSE calls[c].kind \in Forms \cup {"view"} /\ ~Settled(c)

\* What the balances read since the page was opened say: for every answer to come, and on
\* the screen.
Read(c, kind, pc) == calls[c].live /\ At(c, kind, pc)
ReconInv ==
    /\ \A c \in DOMAIN calls :
          /\ Read(c, "recon", "loaded") => calls[c].val \in ui.since..moved
          /\ Read(c, "recon", "off") => moved > ui.since
    /\ ui.recon = "off" => moved > ui.since

\* While WalletDetail loads, the three calls it waits for are there, and no other.
LoadInv ==
    ui.page = "wallet" /\ ui.loading =>
        /\ \A c \in DOMAIN calls : calls[c].live => calls[c].kind \in {"view", "txns", "recon"}
        /\ \A kind \in {"view", "txns", "recon"} :
              \E c \in DOMAIN calls : calls[c].live /\ calls[c].kind = kind

\* The rows end where the next page begins, and if there is more to load, no row is missing
\* so far; one call at most asks for that page.
IsTxns(c) == calls[c].live /\ calls[c].kind = "txns"
RowsInv ==
    ui.page = "wallet" =>
        /\ \E k \in Nat : ui.offset = k * Limit
        /\ ui.loading => ui.rows = <<>> /\ ui.hasMore /\ ui.offset = 0
        /\ \A c \in DOMAIN calls : IsTxns(c) =>
              /\ calls[c].pc = "ok" => calls[c].val \in ui.since..moved
              /\ ui.loading => calls[c].arg = 0
              /\ \E k \in Nat : calls[c].arg = k * Limit
        /\ "txns" \notin doubled =>
              /\ \A c, d \in DOMAIN calls : IsTxns(c) /\ IsTxns(d) => c = d
              /\ ~ui.loading => \A c \in DOMAIN calls : IsTxns(c) =>
                    ui.hasMore /\ ui.rows # <<>> /\ calls[c].arg = ui.offset + Limit
        /\ "txns" \notin doubled /\ moved = ui.since =>
              /\ ui.rows = [i \in 1..Len(ui.rows) |-> moved - i + 1]
              /\ IF ui.hasMore
                 THEN ui.rows # <<>> => Len(ui.rows) = ui.offset + Limit /\ Len(ui.rows) <= moved
                 ELSE Len(ui.rows) = moved

\* The details asked for last are the only ones to come.
DetailInv ==
    /\ \A c \in DOMAIN calls : calls[c].live /\ calls[c].kind = "detail" =>
          /\ calls[c].pc = "ok" => calls[c].val = calls[c].arg
          /\ "detail" \notin doubled => calls[c].arg = ui.asked
    /\ ShowsDetail => ui.detail = ui.asked \/ "detail" \in doubled

\* The form in hand has one call, and what is known of it goes with what became of the form.
IsForm(c) ==
    /\ calls[c].live
    /\ \/ calls[c].kind \in Forms \cup {"create"}
       \/ calls[c].kind = "relist" /\ calls[c].page = "dashboard"
FormInv ==
    /\ ui.busy => ui.told = "nothing"
    /\ \A c, d \in DOMAIN calls : IsForm(c) /\ IsForm(d) => c = d
    /\ \A c \in DOMAIN calls : IsForm(c) =>
          /\ ui.busy
          /\ last.kind = IF calls[c].kind = "relist" THEN "create" ELSE calls[c].kind
          /\ calls[c].pc = "sent" /\ calls[c].kind # "relist" => ~last.taken
          /\ calls[c].pc \in {"moved", "ok"} \/ calls[c].kind = "relist" => last.taken
          /\ calls[c].pc = "failed" /\ calls[c].kind \in Forms => ~last.taken \/ last.lost
    /\ ui.told = "error" /\ last.kind # "create" => ~last.taken \/ last.lost
    /\ ui.told = "ok" => last.taken

PagesInv ==
    /\ ServerShape /\ ScreenShape /\ CallShape /\ CacheFresh
    /\ ReconInv /\ LoadInv /\ RowsInv /\ DetailInv /\ FormInv
=============================================================================
