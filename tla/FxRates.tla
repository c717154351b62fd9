-------------------------------- MODULE FxRates --------------------------------
(***************************************************************************)
(* fx-service: the BullMQ queue that refreshes the exchange rates and the  *)
(* two tables a refresh writes.  The bank's feed holds every currency, so  *)
(* a version of the feed stands for the rates in it.  The page that shows  *)
(* them is FxPage's.                                                       *)
(***************************************************************************)
EXTENDS Integers, FiniteSets

CONSTANTS
    Workers,        \* processes of fx-service: one, and its successor in a restart
    MaxFeeds,       \* bound: versions of the feed
    MaxFaults       \* bound: crashes and failed jobs

ASSUME FxRatesAssumption ==
    /\ MaxFeeds \in Nat \ {0}
    /\ MaxFaults \in Nat

VARIABLES
    feed,       \* the version the bank publishes
    rate,       \* the version in fx_rates, 0 while it is empty
    snapshots,  \* the versions in fx_rate_snapshots
    cron,       \* the next run of 'fx-refresh-cron': "none", "delayed" or "waiting"
    waiting,    \* other jobs in the queue: the warm-ups, and those that stalled
    boot,       \* per worker: "down", "cron", "warmup" or "up"
    job,        \* per worker: the job it runs, if any, and the version it fetched
    faults,
    torn        \* ghost: versions stored whose snapshots were not

queue == <<cron, waiting, boot, job>>
tables == <<rate, snapshots, torn>>
vars == <<feed, tables, queue, faults>>

NoJob == [pc |-> "idle", got |-> 0, stalled |-> FALSE]

Init ==
    /\ feed = 1 /\ rate = 0 /\ snapshots = {} /\ torn = {}
    /\ cron = "none" /\ waiting = [warmup |-> 0, stalled |-> 0]
    /\ boot = [w \in Workers |-> "down"] /\ job = [w \in Workers |-> NoJob]
    /\ faults = 0

Faulty == faults < MaxFaults /\ faults' = faults + 1

-----------------------------------------------------------------------------
(* The scheduler and the queue *)

NewFeed ==
    /\ feed < MaxFeeds /\ feed' = feed + 1
    /\ UNCHANGED <<tables, queue, faults>>

\* The container is started; its worker takes jobs from now on.
StartUp(w) ==
    /\ boot[w] = "down" /\ boot' = [boot EXCEPT ![w] = "cron"]
    /\ UNCHANGED <<feed, tables, cron, waiting, job, faults>>

MutantSchedule(w) ==
    /\ boot[w] = "cron" /\ boot' = [boot EXCEPT ![w] = "warmup"]
    /\ UNCHANGED <<feed, tables, cron, waiting, job, faults>>

\* A repeatable job that exists already is not added again.
Schedule(w) ==
    /\ boot[w] = "cron" /\ boot' = [boot EXCEPT ![w] = "warmup"]
    /\ cron' = IF cron = "none" THEN "delayed" ELSE cron
    /\ UNCHANGED <<feed, tables, waiting, job, faults>>

WarmUp(w) ==
    /\ boot[w] = "warmup" /\ boot' = [boot EXCEPT ![w] = "up"]
    /\ waiting' = [waiting EXCEPT !.warmup = @ + 1]
    /\ UNCHANGED <<feed, tables, cron, job, faults>>

\* The time of the pattern has come.
Tick ==
    /\ cron = "delayed" /\ cron' = "waiting"
    /\ UNCHANGED <<feed, tables, waiting, boot, job, faults>>

Running(w, pc) == boot[w] # "down" /\ job[w].pc = pc

\* A worker runs one job at a time.  Taking the repeatable job schedules its next run.
Take(w) ==
    /\ Running(w, "idle")
    /\ \/ /\ cron = "waiting" /\ cron' = "delayed"
          /\ job' = [job EXCEPT ![w].pc = "fetch"] /\ UNCHANGED waiting
       \/ \E kind \in {"warmup", "stalled"} :
            /\ waiting[kind] > 0 /\ waiting' = [waiting EXCEPT ![kind] = @ - 1]
            /\ job' = [job EXCEPT ![w] = [NoJob EXCEPT !.pc = "fetch",
                                                       !.stalled = kind = "stalled"]]
            /\ UNCHANGED cron
    /\ UNCHANGED <<feed, tables, boot, faults>>

\* The process dies.  A job it was running is found stalled and run once more, but not
\* a third time.
Crash(w) ==
    /\ boot[w] # "down" /\ boot' = [boot EXCEPT ![w] = "down"] /\ Faulty
    /\ job' = [job EXCEPT ![w] = NoJob]
    /\ waiting' = IF job[w].pc = "idle" \/ job[w].stalled THEN waiting
                  ELSE [waiting EXCEPT !.stalled = @ + 1]
    /\ torn' = IF job[w].pc = "save" THEN torn \cup {job[w].got} ELSE torn
    /\ UNCHANGED <<feed, rate, snapshots, cron>>

-----------------------------------------------------------------------------
(* The refresh *)

Fetch(w) ==
    /\ Running(w, "fetch")
    /\ job' = [job EXCEPT ![w].pc = "upsert", ![w].got = feed]
    /\ UNCHANGED <<feed, tables, cron, waiting, boot, faults>>

\* The feed times out, is refused or holds no currency; a failed job is not tried again.
FetchFails(w) ==
    /\ Running(w, "fetch") /\ Faulty
    /\ job' = [job EXCEPT ![w] = NoJob]
    /\ UNCHANGED <<feed, tables, cron, waiting, boot>>

\* upsertMany: one statement for every currency; what was fetched later may be there.
Upsert(w) ==
    /\ Running(w, "upsert") /\ rate' = job[w].got
    /\ job' = [job EXCEPT ![w].pc = "save"]
    /\ UNCHANGED <<feed, snapshots, torn, cron, waiting, boot, faults>>

SaveSnapshots(w) ==
    /\ Running(w, "save")
    /\ snapshots' = snapshots \cup {job[w].got} /\ torn' = torn \ {job[w].got}
    /\ job' = [job EXCEPT ![w] = NoJob]
    /\ UNCHANGED <<feed, rate, cron, waiting, boot, faults>>

\* A statement fails, and the job with it; nothing is rolled back.
StoreFails(w) ==
    /\ Running(w, "upsert") \/ Running(w, "save")
    /\ Faulty
    /\ torn' = IF job[w].pc = "save" THEN torn \cup {job[w].got} ELSE torn
    /\ job' = [job EXCEPT ![w] = NoJob]
    /\ UNCHANGED <<feed, rate, snapshots, cron, waiting, boot>>

-----------------------------------------------------------------------------

Step(w) ==
    \/ StartUp(w) \/ Schedule(w) \/ WarmUp(w) \/ Take(w)
    \/ Fetch(w) \/ Upsert(w) \/ SaveSnapshots(w)

Next ==
    \/ NewFeed \/ Tick
    \/ \E w \in Workers : Step(w) \/ Crash(w) \/ FetchFails(w) \/ StoreFails(w)

\* Docker restarts the container, BullMQ's clock ticks, and a process that runs goes on.
Fairness == WF_vars(Tick) /\ \A w \in Workers : WF_vars(Step(w))

Spec == Init /\ [][Next]_vars /\ Fairness

-----------------------------------------------------------------------------
\* The rates on offer (fx_rates) are in the history too (fx_rate_snapshots), unless the
\* refresh that stored them has still to append them, or stopped between the two
\* statements and has not been run again.
LatestHasSnapshot ==
    rate # 0 => \/ rate \in snapshots \cup torn
                \/ \E w \in Workers : job[w].pc = "save" /\ job[w].got = rate

\* Whatever fails, restarts or overtakes what, the table ends up with what the bank
\* publishes, as long as the schedule survives.
EventuallyCurrent == <>[](rate = feed)

-----------------------------------------------------------------------------
\* Shape of what the workers and the tables hold, with which LatestHasSnapshot is inductive;
\* proved in FxProofs.
RatesInv ==
    /\ feed \in Nat /\ rate \in Nat
    /\ job \in [Workers -> [pc : {"idle", "fetch", "upsert", "save"}, got : Nat,
                            stalled : BOOLEAN]]
    /\ LatestHasSnapshot
=============================================================================
