-------------------------------- MODULE FxPage --------------------------------
(***************************************************************************)
(* The FxRates page of vietpay-web and the reads of fx-service it makes.   *)
(* Of the tables behind them it matters only whether they hold rates yet.  *)
(***************************************************************************)
EXTENDS Integers, FiniteSets, Bags

CONSTANTS
    Codes,          \* POPULAR_CODES
    MaxCalls,       \* bound: calls the page makes
    MaxFailures     \* bound: calls that fail

ASSUME FxPageAssumption ==
    /\ "USD" \in Codes /\ "none" \notin Codes
    /\ {MaxCalls, MaxFailures} \subseteq Nat

VARIABLES
    stored,     \* fx_rates holds rates
    page,       \* what the page shows
    calls,      \* bag of its calls that are not answered
    made,       \* calls made so far
    failures,
    slipped     \* ghost: panels whose last answer was not for the page's code

pageVars == <<stored, page, calls, made, failures, slipped>>

Call(kind, code) == [kind |-> kind, code |-> code]

\* Mounted, the page asks for the first rate, its history, and the same rate once more.
PageInit ==
    /\ stored \in BOOLEAN
    /\ page = [code |-> "USD", loading |-> TRUE, current |-> "none", historyLoading |-> TRUE,
               history |-> "none", rates |-> {}, showAll |-> FALSE]
    /\ calls = SetToBag({Call("first", "USD"), Call("history", "USD"), Call("rate", "USD")})
    /\ made = 3 /\ failures = 0 /\ slipped = {}

Fails == failures < MaxFailures /\ failures' = failures + 1
Pending(kinds) == \E a \in BagToSet(calls) : a.kind \in kinds

\* The first refresh.
Store ==
    /\ ~stored /\ stored' = TRUE
    /\ UNCHANGED <<page, calls, made, failures, slipped>>

Ask(new) ==
    /\ made' = made + Cardinality(new) /\ made' <= MaxCalls
    /\ calls' = calls (+) SetToBag(new)

\* The answer of call a is dealt with.
Answered(a) == calls' = calls (-) SetToBag({a}) /\ UNCHANGED made

\* A panel shows the rate or the history of code; its answers come in any order.
Slip(panel, code) ==
    slipped' = IF code = page.code THEN slipped \ {panel} ELSE slipped \cup {panel}

\* The server has no rate before its first refresh.
RateFound(a) == a.kind \in {"first", "rate"} /\ stored

FirstRate(a) ==
    /\ a.kind = "first" /\ RateFound(a) /\ Answered(a)
    /\ page' = [page EXCEPT !.loading = FALSE, !.current = "USD", !.rates = {"USD"}]
    /\ Slip("rate", "USD")
    /\ UNCHANGED <<stored, failures>>

OneRate(a) ==
    /\ a.kind = "rate" /\ RateFound(a) /\ Answered(a)
    /\ page' = [page EXCEPT !.current = a.code]
    /\ Slip("rate", a.code)
    /\ UNCHANGED <<stored, failures>>

\* The rate that was on the page stays, whatever currency it was for.
NoRate(a) ==
    /\ a.kind \in {"first", "rate"} /\ Answered(a)
    /\ IF ~stored THEN UNCHANGED failures ELSE Fails
    /\ page' = IF a.kind = "first" THEN [page EXCEPT !.loading = FALSE] ELSE page
    /\ slipped' = slipped \cup {"rate"}
    /\ UNCHANGED stored

\* Any answer ends the loading, also one for a currency chosen before.
History(a) ==
    /\ a.kind = "history" /\ Answered(a)
    /\ \/ /\ page' = [page EXCEPT !.historyLoading = FALSE, !.history = a.code]
          /\ Slip("history", a.code) /\ UNCHANGED failures
       \/ /\ page' = [page EXCEPT !.historyLoading = FALSE, !.history = "none"]
          /\ Fails /\ UNCHANGED slipped
    /\ UNCHANGED stored

\* loadAllRates; until it is answered the button is there to be clicked again.
ShowAll ==
    /\ ~page.showAll /\ Ask({Call("all", "none")})
    /\ UNCHANGED <<stored, page, slipped, failures>>

AllRates(a) ==
    /\ a.kind = "all" /\ Answered(a)
    /\ \/ /\ page' = [page EXCEPT !.rates = IF ~stored THEN {} ELSE Codes, !.showAll = TRUE]
          /\ UNCHANGED failures
       \/ Fails /\ UNCHANGED page
    /\ UNCHANGED <<stored, slipped>>

HideAll ==
    /\ page.showAll /\ page' = [page EXCEPT !.showAll = FALSE]
    /\ UNCHANGED <<stored, calls, made, slipped, failures>>

\* What is on the screen: the snapshot beside the selector, the chart below it, and the
\* table of all currencies, of which it needs one at least.
ShownRate == IF page.loading THEN "none" ELSE page.current
ShownHistory == IF page.historyLoading THEN "none" ELSE page.history
Table == IF page.showAll THEN page.rates ELSE {}

\* The currencies that can be chosen, in the selector or by their row of the table.
Offered == Table \cup IF page.showAll THEN {} ELSE Codes

MutantSelect(code) ==
    /\ code \in Offered \ {page.code}
    /\ LET found == page.showAll /\ code \in page.rates
           current == IF found THEN code ELSE page.current
           new == {Call("history", code)}
                    \cup IF current # "none" THEN {} ELSE {Call("rate", code)}
       IN  /\ Ask(new)
           /\ page' = [page EXCEPT !.code = code, !.current = current, !.historyLoading = TRUE]
           /\ slipped' = IF found THEN slipped \ {"rate"}
                         ELSE IF code = "USD" /\ current # "none" THEN slipped \cup {"rate"}
                         ELSE slipped
    /\ UNCHANGED <<stored, failures>>

\* handleCodeChange and the two effects: the rate is taken from the table, if it is
\* shown, and asked for, unless the currency is USD and there is a rate on the page.
Select(code) ==
    /\ code \in Offered \ {page.code}
    /\ LET found == page.showAll /\ code \in page.rates
           current == IF found THEN code ELSE page.current
           kept == code = "USD" /\ current # "none"
           new == {Call("history", code)} \cup IF kept THEN {} ELSE {Call("rate", code)}
       IN  /\ Ask(new)
           /\ page' = [page EXCEPT !.code = code, !.current = current, !.historyLoading = TRUE]
           /\ slipped' = IF found THEN slipped \ {"rate"}
                         ELSE IF kept THEN slipped \cup {"rate"} ELSE slipped
    /\ UNCHANGED <<stored, failures>>

-----------------------------------------------------------------------------

PageNext ==
    \/ Store \/ ShowAll \/ HideAll
    \/ \E code \in Codes : Select(code)
    \/ \E a \in BagToSet(calls) :
            FirstRate(a) \/ OneRate(a) \/ NoRate(a) \/ History(a) \/ AllRates(a)

PageSpec == PageInit /\ [][PageNext]_pageVars

-----------------------------------------------------------------------------
\* Once it has its answers, FxRates shows the rate and the history of the currency that
\* is selected, unless an answer was overtaken by one for another currency, a rate could
\* not be had, or the user came back to USD, for which no rate is fetched.
ShowsSelected ==
    /\ Pending({"first", "rate"}) \/ "rate" \in slipped \/ ShownRate \in {"none", page.code}
    /\ "history" \in slipped \/ ShownHistory \in {"none", page.code}

-----------------------------------------------------------------------------
\* Shape of what the page holds, with which ShowsSelected is inductive; proved in FxProofs.
PageInv ==
    /\ page \in [code : Codes, loading : BOOLEAN, current : Codes \cup {"none"},
                 historyLoading : BOOLEAN, history : Codes \cup {"none"},
                 rates : SUBSET Codes, showAll : BOOLEAN]
    /\ IsABag(calls) /\ \A a \in BagToSet(calls) : a.code \in Codes \cup {"none"}
    /\ \A a \in BagToSet(calls) : a.kind # "all" => a.code \in Codes
    /\ ShowsSelected
=============================================================================
