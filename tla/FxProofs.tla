------------------------------- MODULE FxProofs -------------------------------
(***************************************************************************)
(* Proofs about FxRates and FxPage, for any number of workers, versions,   *)
(* calls and faults.                                                       *)
(***************************************************************************)
EXTENDS MCFx, TLAPS

LEMMA RatesInit == Init => RatesInv
  BY DEF Init, NoJob, RatesInv, LatestHasSnapshot

LEMMA RatesStep == RatesInv /\ [Next]_vars => RatesInv'
  <1> SUFFICES ASSUME RatesInv, [Next]_vars PROVE RatesInv'
    OBVIOUS
  <1> USE DEF RatesInv, LatestHasSnapshot, tables, NoJob
  <1>1. CASE NewFeed \/ Tick \/ UNCHANGED vars
    BY <1>1 DEF NewFeed, Tick, vars, queue
  <1>2. ASSUME NEW w \in Workers, StartUp(w) \/ Schedule(w) \/ WarmUp(w) PROVE RatesInv'
    BY <1>2 DEF StartUp, Schedule, WarmUp
  <1>3. ASSUME NEW w \in Workers, Take(w) PROVE RatesInv'
    <2>1. \/ job' = [job EXCEPT ![w].pc = "fetch"]
          \/ \E kind \in {"warmup", "stalled"} :
               job' = [job EXCEPT ![w] = [NoJob EXCEPT !.pc = "fetch", !.stalled = kind = "stalled"]]
      BY <1>3 DEF Take
    <2>2. job[w].pc = "idle" /\ UNCHANGED <<feed, rate, snapshots, torn>>
      BY <1>3 DEF Take, Running
    <2>3. CASE job' = [job EXCEPT ![w].pc = "fetch"]
      BY <2>2, <2>3
    <2>4. ASSUME NEW kind \in {"warmup", "stalled"},
                 job' = [job EXCEPT ![w] = [NoJob EXCEPT !.pc = "fetch", !.stalled = kind = "stalled"]]
          PROVE  RatesInv'
      <3>1. [NoJob EXCEPT !.pc = "fetch", !.stalled = kind = "stalled"]
               \in [pc : {"idle", "fetch", "upsert", "save"}, got : Nat, stalled : BOOLEAN]
        OBVIOUS
      <3>2. QED
        BY <2>2, <2>4, <3>1
    <2>5. QED
      BY <2>1, <2>3, <2>4
  <1>4. ASSUME NEW w \in Workers, Fetch(w) PROVE RatesInv'
    BY <1>4 DEF Fetch, Running
  <1>5. ASSUME NEW w \in Workers, Upsert(w) PROVE RatesInv'
    BY <1>5 DEF Upsert, Running
  <1>6. ASSUME NEW w \in Workers, SaveSnapshots(w) PROVE RatesInv'
    BY <1>6 DEF SaveSnapshots, Running
  <1>7. ASSUME NEW w \in Workers, Crash(w) \/ StoreFails(w) PROVE RatesInv'
    <2>1. /\ job' = [job EXCEPT ![w] = NoJob] /\ UNCHANGED <<feed, rate, snapshots>>
          /\ torn' = IF job[w].pc = "save" THEN torn \cup {job[w].got} ELSE torn
      BY <1>7 DEF Crash, StoreFails
    <2>2. QED
      BY <2>1
  <1>8. ASSUME NEW w \in Workers, FetchFails(w) PROVE RatesInv'
    BY <1>8 DEF FetchFails, Running
  <1>9. QED
    BY <1>1, <1>2, <1>3, <1>4, <1>5, <1>6, <1>7, <1>8 DEF Next, Step

\* fx-service, upsertMany and saveSnapshots: whatever crashes, fails or overtakes what, the rates
\* on offer are in the history, unless the refresh that stored them was cut short.
THEOREM RatesHaveHistory == Spec => []LatestHasSnapshot
  <1>1. RatesInv => LatestHasSnapshot
    BY DEF RatesInv
  <1>2. QED
    BY RatesInit, RatesStep, <1>1, PTL DEF Spec

-----------------------------------------------------------------------------
(* The page *)

LEMMA PageInitInv == PageInit => PageInv
  <1> SUFFICES ASSUME PageInit PROVE PageInv
    OBVIOUS
  <1> USE FxPageAssumption DEF PageInit
  <1>1. IsABag(calls) /\ BagToSet(calls) = {Call("first", "USD"), Call("history", "USD"),
                                            Call("rate", "USD")}
    BY DEF IsABag, BagToSet, SetToBag
  <1>2. ShowsSelected
    BY DEF ShowsSelected, ShownRate, ShownHistory
  <1>3. QED
    BY <1>1, <1>2 DEF PageInv, Call

\* The calls that are made join those under way; an answer takes one of them away.
LEMMA AskedCalls ==
  ASSUME IsABag(calls), NEW new, Ask(new)
  PROVE  IsABag(calls)' /\ BagToSet(calls') = BagToSet(calls) \cup new
  BY DEF Ask, IsABag, BagToSet, SetToBag, (+)

LEMMA AnsweredCalls ==
  ASSUME IsABag(calls), NEW a \in BagToSet(calls), Answered(a)
  PROVE  /\ IsABag(calls)' /\ BagToSet(calls') \subseteq BagToSet(calls)
         /\ BagToSet(calls) \ {a} \subseteq BagToSet(calls')
  BY DEF Answered, IsABag, BagToSet, SetToBag, (-)

LEMMA PageStep == PageInv /\ [PageNext]_pageVars => PageInv'
  <1> SUFFICES ASSUME PageInv, [PageNext]_pageVars PROVE PageInv'
    OBVIOUS
  <1> USE FxPageAssumption DEF PageInv, ShowsSelected, ShownRate, ShownHistory, Pending, Slip
  <1>1. CASE Store \/ HideAll \/ UNCHANGED pageVars
    BY <1>1 DEF Store, HideAll, pageVars
  <1>2. CASE ShowAll
    BY <1>2, AskedCalls DEF ShowAll, Call
  <1>3. ASSUME NEW code \in Codes, Select(code) PROVE PageInv'
    <2> DEFINE found == page.showAll /\ code \in page.rates
               current == IF found THEN code ELSE page.current
               kept == code = "USD" /\ current # "none"
               new == {Call("history", code)} \cup IF kept THEN {} ELSE {Call("rate", code)}
    <2>1. /\ Ask(new)
          /\ page' = [page EXCEPT !.code = code, !.current = current, !.historyLoading = TRUE]
          /\ slipped' = IF found THEN slipped \ {"rate"}
                        ELSE IF kept THEN slipped \cup {"rate"} ELSE slipped
      BY <1>3 DEF Select
    <2>2. current \in Codes \cup {"none"} /\ (found => current = code)
      OBVIOUS
    <2>3. IsABag(calls)' /\ BagToSet(calls') = BagToSet(calls) \cup new
      BY <2>1, AskedCalls
    <2>4. Call("history", code).code = code /\ Call("rate", code).code = code
          /\ Call("rate", code).kind = "rate"
      BY DEF Call
    <2>5. kept \/ Pending({"first", "rate"})'
      BY <2>3, <2>4
    <2> HIDE DEF found, current, kept
    <2>6. page' \in [code : Codes, loading : BOOLEAN, current : Codes \cup {"none"},
                     historyLoading : BOOLEAN, history : Codes \cup {"none"},
                     rates : SUBSET Codes, showAll : BOOLEAN]
      BY <2>1, <2>2
    <2>7. page'.code = code /\ page'.current = current /\ page'.historyLoading
      BY <2>1
    <2>8. ShownHistory' = "none" /\ ShownRate' \in {"none", current}
      BY <2>7
    <2>9. Pending({"first", "rate"})' \/ "rate" \in slipped' \/ ShownRate' \in {"none", code}
      BY <2>1, <2>2, <2>5, <2>8
    <2>10. ShowsSelected'
      BY <2>7, <2>8, <2>9
    <2>11. QED
      BY <2>3, <2>4, <2>6, <2>10
  <1>4. ASSUME NEW a \in BagToSet(calls), FirstRate(a) PROVE PageInv'
    BY <1>4, AnsweredCalls DEF FirstRate
  <1>5. ASSUME NEW a \in BagToSet(calls), OneRate(a) PROVE PageInv'
    BY <1>5, AnsweredCalls DEF OneRate
  <1>6. ASSUME NEW a \in BagToSet(calls), NoRate(a) PROVE PageInv'
    BY <1>6, AnsweredCalls DEF NoRate
  <1>7. ASSUME NEW a \in BagToSet(calls), History(a) PROVE PageInv'
    BY <1>7, AnsweredCalls DEF History
  <1>8. ASSUME NEW a \in BagToSet(calls), AllRates(a) PROVE PageInv'
    BY <1>8, AnsweredCalls DEF AllRates
  <1>9. QED
    BY <1>1, <1>2, <1>3, <1>4, <1>5, <1>6, <1>7, <1>8 DEF PageNext

\* FxRates.tsx: once the page has its answers, it shows the rate and the history of the currency
\* that is selected, but for the three ways to slip that its handlers leave open.
THEOREM PageShowsSelected == PageSpec => []ShowsSelected
  <1>1. PageInv => ShowsSelected
    BY DEF PageInv
  <1>2. QED
    BY PageInitInv, PageStep, <1>1, PTL DEF PageSpec
=============================================================================
