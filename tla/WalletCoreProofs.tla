-------------------------- MODULE WalletCoreProofs --------------------------
(***************************************************************************)
(* Proofs about WalletCore, for any number of wallets, keys, payments and  *)
(* concurrent calls.                                                       *)
(***************************************************************************)
EXTENDS WalletCore, NatInduction, TLAPS

\* What a request carries: the part of RequestsAssumption a single call needs.
LEMMA CommandType ==
  ASSUME cmd \in [Calls -> Requests], NEW c \in Calls
  PROVE  /\ cmd[c] \in Requests
         /\ Src(c) \in Wallets /\ Dst(c) \in Wallets /\ Amt(c) \in Int
         /\ IsPayment(c) => Key(c) \in Payments
         /\ ~IsPayment(c) => Key(c) \in Keys
         /\ Key(c) \in Ids
  BY RequestsAssumption DEF Src, Dst, Amt, Key, IsPayment, Ids

\* A failing call frees what it held and leaves every table alone.
LEMMA FailType ==
  ASSUME TypeOK, NEW c \in Calls, NEW how \in {"refused", "funds", "failed"}, Fail(c, how)
  PROVE  TypeOK'
  BY DEF TypeOK, Fail, End, Goto, Release, NothingSeen, tables, Labels

LEMMA ReplyType ==
  ASSUME TypeOK, NEW c \in Calls, NEW t \in Calls \cup {NoCall}, Reply(c, t)
  PROVE  TypeOK'
  BY DEF TypeOK, Reply, End, Goto, tables, locks, reads, Labels

LEMMA StepType ==
  ASSUME TypeOK, NEW c \in Calls, NEW label \in Labels, Step(c, label)
  PROVE  TypeOK'
  BY DEF TypeOK, Step, Goto, tables, locks, reads, results

LEMMA InitType == Init => TypeOK
  BY WalletsAssumption DEF Init, TypeOK, Labels, NothingSeen

LEMMA NextType == TypeOK /\ [Next]_vars => TypeOK'
  <1> SUFFICES ASSUME TypeOK, [Next]_vars PROVE TypeOK'
    OBVIOUS
  <1> USE DEF Labels
  <1>1. ASSUME NEW w \in Wallets, CreateWallet(w) PROVE TypeOK'
    BY <1>1 DEF CreateWallet, TypeOK, locks, reads, results
  <1>2. ASSUME NEW c \in Calls, AcceptTransfer(c) PROVE TypeOK'
    BY <1>2, StepType, FailType DEF AcceptTransfer
  <1>3. ASSUME NEW c \in Calls, Replay(c) PROVE TypeOK'
    BY <1>3, StepType, ReplyType DEF Replay, TypeOK, WithKey
  <1>4. ASSUME NEW c \in Calls, Check(c) PROVE TypeOK'
    BY <1>4, StepType, FailType DEF Check
  <1>5. ASSUME NEW c \in Calls, Fraud(c) PROVE TypeOK'
    BY <1>5, StepType, FailType DEF Fraud
  <1>6. ASSUME NEW c \in Calls, Deliver(c) PROVE TypeOK'
    BY <1>6, StepType DEF Deliver
  <1>7. ASSUME NEW c \in Calls, IsApplied(c) PROVE TypeOK'
    BY <1>7, StepType, ReplyType DEF IsApplied
  <1>8. ASSUME NEW c \in Calls, Select(c) PROVE TypeOK'
    BY <1>8, CommandType DEF Select, TypeOK, Goto, tables, locks, results
  <1>9. ASSUME NEW c \in Calls, LockRow(c) PROVE TypeOK'
    BY <1>9 DEF LockRow, TypeOK, Goto, tables, results
  <1>10. ASSUME NEW c \in Calls, Refuse(c) PROVE TypeOK'
    BY <1>10, FailType DEF Refuse
  <1>11. ASSUME NEW c \in Calls, Flush(c) PROVE TypeOK'
    <2>1. CASE Fail(c, "failed")
      BY <2>1, FailType
    <2>2. CASE Goto(c, "race") /\ Release(c) /\ UNCHANGED <<tables, cmd, results>>
      BY <2>2 DEF TypeOK, Goto, Release, NothingSeen, tables, results
    <2>3. CASE /\ keyHolder' = [keyHolder EXCEPT ![Key(c)] = c]
               /\ Goto(c, "commit")
               /\ UNCHANGED <<tables, lock, cmd, reads, results>>
      BY <2>3 DEF TypeOK, Goto, tables, reads, results
    <2>4. QED
      BY <1>11, <2>1, <2>2, <2>3 DEF Flush
  <1>12. ASSUME NEW c \in Calls, FlushPayment(c) PROVE TypeOK'
    BY <1>12, StepType, FailType DEF FlushPayment
  <1>13. ASSUME NEW c \in Calls, Commit(c) PROVE TypeOK'
    <2>1. /\ Src(c) \in Wallets /\ Dst(c) \in Wallets /\ Amt(c) \in Int /\ Key(c) \in Ids
          /\ IsPayment(c) => Key(c) \in Payments
          /\ ~IsPayment(c) => Key(c) \in Keys
      BY CommandType DEF TypeOK
    <2>2. \A w \in Wallets : BalanceAfter(c, w) \in Int
      BY <2>1 DEF BalanceAfter, TypeOK
    <2>3. /\ balance' \in [Wallets -> Int] /\ net' \in [Wallets -> Int]
          /\ version' \in [Wallets -> Nat] /\ postings' \in [Ids -> Nat]
      BY <1>13, <2>1, <2>2 DEF Commit, TypeOK
    <2>4. /\ transfers' \subseteq [id : Calls, key : Keys, src : Wallets, dst : Wallets, amt : Int]
          /\ applied' \subseteq Payments /\ outbox' \subseteq Calls
      BY <1>13, <2>1 DEF Commit, TypeOK
    <2>5. QED
      BY <1>13, <2>3, <2>4 DEF Commit, TypeOK, Release, Goto, NothingSeen, results
  <1>14. ASSUME NEW c \in Calls, RaceReplay(c) PROVE TypeOK'
    BY <1>14, ReplyType, FailType DEF RaceReplay, TypeOK, WithKey
  <1>15. ASSUME NEW c \in Calls, EvictSource(c) PROVE TypeOK'
    BY <1>15, StepType DEF EvictSource
  <1>16. ASSUME NEW c \in Calls, EvictDest(c) PROVE TypeOK'
    BY <1>16, ReplyType DEF EvictDest
  <1>17. ASSUME NEW c \in Calls, Abort(c) PROVE TypeOK'
    BY <1>17, FailType DEF Abort
  <1>18. CASE UNCHANGED vars
    BY <1>18 DEF vars, tables, locks, reads, results, TypeOK
  <1>19. QED
    BY <1>1, <1>2, <1>3, <1>4, <1>5, <1>6, <1>7, <1>8, <1>9, <1>10, <1>11, <1>12,
       <1>13, <1>14, <1>15, <1>16, <1>17, <1>18 DEF Next, CallStep

\* The state of the tables, locks and calls keeps its shape for ever.
THEOREM TypeCorrect == Spec => []TypeOK
  BY InitType, NextType, PTL DEF Spec

-----------------------------------------------------------------------------
(* Money: a held row still has the values its holder read, so what a commit *)
(* writes is the committed balance plus or minus the amount.               *)

OutsideTransaction == Labels \ {"lock", "post", "commit"}

LEMMA InitMoney == Init => MoneyInv
  BY WalletsAssumption, IdsAssumption
  DEF Init, MoneyInv, LockInv, NeedInv, CommitInv, KindInv, Reconciled, NoOverdraft

\* A step outside any transaction touches nothing the invariant speaks of.
LEMMA QuietMoney ==
  ASSUME TypeOK, MoneyInv, NEW c \in Calls, NEW label \in OutsideTransaction,
         ~InTransaction(c), Goto(c, label), UNCHANGED <<tables, locks, cmd, reads>>
  PROVE  MoneyInv'
  <1> USE DEF tables, locks, reads, Goto, OutsideTransaction, Labels, TypeOK
  <1>1. /\ LockInv' /\ NeedInv'
    BY DEF MoneyInv, LockInv, NeedInv, InTransaction, Src, Dst, Opened
  <1>2. CommitInv'
    BY DEF MoneyInv, CommitInv, Postable, Mismatch, Overdraws, BadAmount, Held, Src, Dst, Amt
  <1>3. KindInv' /\ Reconciled' /\ NoOverdraft'
    BY DEF MoneyInv, KindInv, Reconciled, NoOverdraft
  <1>4. QED
    BY <1>1, <1>2, <1>3 DEF MoneyInv

\* Rolling back frees the rows of one call and leaves the others' alone.
LEMMA ReleaseMoney ==
  ASSUME TypeOK, MoneyInv, NEW c \in Calls, NEW label \in OutsideTransaction,
         Goto(c, label), Release(c), UNCHANGED <<tables, cmd>>
  PROVE  MoneyInv'
  <1> USE IdsAssumption DEF tables, Goto, Release, NothingSeen, OutsideTransaction, Labels, TypeOK
  <1>1. /\ LockInv' /\ NeedInv'
    BY DEF MoneyInv, LockInv, NeedInv, InTransaction, Src, Dst, Opened
  <1>2. CommitInv'
    BY DEF MoneyInv, CommitInv, Postable, Mismatch, Overdraws, BadAmount, Held, Src, Dst, Amt
  <1>3. KindInv' /\ Reconciled' /\ NoOverdraft'
    BY DEF MoneyInv, KindInv, Reconciled, NoOverdraft
  <1>4. QED
    BY <1>1, <1>2, <1>3 DEF MoneyInv

LEMMA CreateMoney ==
  ASSUME TypeOK, MoneyInv, NEW v \in Wallets, CreateWallet(v)
  PROVE  MoneyInv'
  <1> USE DEF CreateWallet, locks, reads, TypeOK
  <1>1. /\ LockInv' /\ NeedInv'
    BY DEF MoneyInv, LockInv, NeedInv, InTransaction, Src, Dst, Opened
  <1>2. CommitInv'
    <2> SUFFICES ASSUME NEW c \in Calls, pc[c] = "commit" PROVE Postable(c)'
      BY DEF CommitInv
    <2>1. Postable(c) /\ Src(c) \in Held(c)
      BY DEF MoneyInv, CommitInv, Postable, Mismatch
    <2>2. kind'[Src(c)] = kind[Src(c)]
      BY <2>1 DEF Held, MoneyInv, LockInv, Opened
    <2>3. QED
      BY <2>1, <2>2 DEF Postable, Mismatch, Overdraws, BadAmount, Held, Src, Dst, Amt
  <1>3. KindInv' /\ Reconciled' /\ NoOverdraft'
    BY DEF MoneyInv, KindInv, Reconciled, NoOverdraft
  <1>4. QED
    BY <1>1, <1>2, <1>3 DEF MoneyInv

LEMMA SelectMoney ==
  ASSUME TypeOK, MoneyInv, NEW c \in Calls, Select(c)
  PROVE  MoneyInv'
  <1> USE DEF Select, tables, locks, Goto, TypeOK
  <1>1. \A w \in Wallets : lock[w] # c
    BY DEF MoneyInv, LockInv, InTransaction
  <1>2. /\ LockInv' /\ NeedInv'
    BY <1>1 DEF MoneyInv, LockInv, NeedInv, InTransaction, Src, Dst, Opened
  <1>3. CommitInv'
    BY DEF MoneyInv, CommitInv, Postable, Mismatch, Overdraws, BadAmount, Held, Src, Dst, Amt
  <1>4. KindInv' /\ Reconciled' /\ NoOverdraft'
    BY DEF MoneyInv, KindInv, Reconciled, NoOverdraft
  <1>5. QED
    BY <1>2, <1>3, <1>4 DEF MoneyInv

LEMMA LockMoney ==
  ASSUME TypeOK, MoneyInv, NEW c \in Calls, LockRow(c)
  PROVE  MoneyInv'
  <1> USE IdsAssumption DEF tables, Goto, TypeOK
  <1>1. PICK v \in need[c] :
          /\ lock[v] = NoCall
          /\ lock' = [lock EXCEPT ![v] = c]
          /\ seenBalance' = [seenBalance EXCEPT ![c][v] = balance[v]]
          /\ seenVersion' = [seenVersion EXCEPT ![c][v] = version[v]]
          /\ need' = [need EXCEPT ![c] = @ \ {v}]
          /\ pc' = [pc EXCEPT ![c] = IF need[c] = {v} THEN "post" ELSE "lock"]
    BY DEF LockRow
  <1>2. pc[c] = "lock" /\ UNCHANGED <<tables, cmd>>
    BY DEF LockRow
  <1>3. v \in Wallets /\ v \in {Src(c), Dst(c)} /\ Opened(v)
    BY DEF MoneyInv, NeedInv
  <1>4. LockInv'
    <2> SUFFICES ASSUME NEW d \in Calls, NEW w \in Wallets, lock'[w] = d
                 PROVE  /\ InTransaction(d)'
                        /\ w \in {Src(d), Dst(d)}' /\ w \notin need'[d]
                        /\ Opened(w)'
                        /\ seenBalance'[d][w] = balance'[w] /\ seenVersion'[d][w] = version'[w]
      BY DEF LockInv
    <2>1. CASE w = v
      BY <1>1, <1>2, <1>3, <2>1 DEF InTransaction, Src, Dst, Opened
    <2>2. CASE w # v
      BY <1>1, <1>2, <1>3, <2>2 DEF MoneyInv, LockInv, InTransaction, Src, Dst, Opened
    <2>3. QED
      BY <2>1, <2>2
  <1>5. NeedInv'
    BY <1>1, <1>2 DEF MoneyInv, NeedInv, Src, Dst, Opened
  <1>6. CommitInv'
    BY <1>1, <1>2, <1>3
    DEF MoneyInv, CommitInv, Postable, Mismatch, Overdraws, BadAmount, Held, Src, Dst, Amt
  <1>7. KindInv' /\ Reconciled' /\ NoOverdraft'
    BY <1>2 DEF MoneyInv, KindInv, Reconciled, NoOverdraft
  <1>8. QED
    BY <1>4, <1>5, <1>6, <1>7 DEF MoneyInv

\* A call whose checks passed moves on to its commit.
LEMMA ReadyMoney ==
  ASSUME TypeOK, MoneyInv, NEW c \in Calls, pc[c] = "post", Postable(c), Goto(c, "commit"),
         UNCHANGED <<tables, lock, cmd, reads>>
  PROVE  MoneyInv'
  <1> USE DEF tables, reads, Goto, TypeOK
  <1>1. /\ LockInv' /\ NeedInv'
    BY DEF MoneyInv, LockInv, NeedInv, InTransaction, Src, Dst, Opened
  <1>2. CommitInv'
    BY DEF MoneyInv, CommitInv, Postable, Mismatch, Overdraws, BadAmount, Held, Src, Dst, Amt
  <1>3. KindInv' /\ Reconciled' /\ NoOverdraft'
    BY DEF MoneyInv, KindInv, Reconciled, NoOverdraft
  <1>4. QED
    BY <1>1, <1>2, <1>3 DEF MoneyInv

\* What a postable call knows: it holds both rows, read their committed balances, and
\* neither backstop would fire.
LEMMA PostableFacts ==
  ASSUME TypeOK, MoneyInv, NEW c \in Calls, Postable(c)
  PROVE  /\ Src(c) \in Wallets /\ Dst(c) \in Wallets /\ Amt(c) \in Int /\ Amt(c) > 0
         /\ lock[Src(c)] = c /\ lock[Dst(c)] = c
         /\ \A w \in Wallets : BalanceAfter(c, w) =
              balance[w] + (IF w = Dst(c) THEN Amt(c) ELSE 0) - (IF w = Src(c) THEN Amt(c) ELSE 0)
         /\ ~StaleVersion(c)
         /\ \A w \in Wallets : BalanceAfter(c, w) \in Int
         /\ \A w \in Wallets \ SystemWallets : BalanceAfter(c, w) >= 0
  <1>1. Src(c) \in Wallets /\ Dst(c) \in Wallets /\ Amt(c) \in Int
    BY CommandType DEF TypeOK
  <1>2. lock[Src(c)] = c /\ lock[Dst(c)] = c /\ Amt(c) > 0
    BY <1>1 DEF Postable, Mismatch, Held, BadAmount
  <1>3. \A w \in {Src(c), Dst(c)} :
          Opened(w) /\ seenBalance[c][w] = balance[w] /\ seenVersion[c][w] = version[w]
    BY <1>1, <1>2 DEF MoneyInv, LockInv
  <1>4. \A w \in Wallets : BalanceAfter(c, w) =
          balance[w] + (IF w = Dst(c) THEN Amt(c) ELSE 0) - (IF w = Src(c) THEN Amt(c) ELSE 0)
    BY <1>1, <1>3 DEF BalanceAfter, TypeOK
  <1>5. ASSUME NEW w \in Wallets \ SystemWallets PROVE BalanceAfter(c, w) >= 0
    <2>1. balance[w] >= 0 /\ balance[w] \in Int /\ kind[w] # "SYSTEM"
      BY DEF MoneyInv, NoOverdraft, KindInv, TypeOK
    <2>2. CASE w = Src(c) /\ w # Dst(c)
      <3>1. kind[w] = "USER"
        BY <1>3, <2>1, <2>2 DEF Opened, TypeOK
      <3>2. seenBalance[c][w] = balance[w] /\ seenBalance[c][w] - Amt(c) >= 0
        BY <1>1, <1>3, <2>1, <2>2, <3>1 DEF Postable, Overdraws
      <3>3. QED
        BY <1>1, <1>4, <2>1, <2>2, <3>2
    <2>3. CASE w = Dst(c) \/ w # Src(c)
      BY <1>1, <1>2, <1>4, <2>1, <2>3
    <2>4. QED
      BY <2>2, <2>3
  <1>6. ASSUME NEW w \in Wallets PROVE BalanceAfter(c, w) \in Int
    <2>1. balance[w] \in Int
      BY DEF TypeOK
    <2>2. QED
      BY <1>1, <1>4, <2>1
  <1>7. QED
    BY <1>1, <1>2, <1>3, <1>4, <1>5, <1>6 DEF StaleVersion

LEMMA CommitMoney ==
  ASSUME TypeOK, MoneyInv, NEW c \in Calls, Commit(c)
  PROVE  MoneyInv'
  <1>1. pc[c] = "commit" /\ Postable(c)
    BY DEF Commit, MoneyInv, CommitInv
  <1>2. /\ lock[Src(c)] = c /\ lock[Dst(c)] = c
        /\ Src(c) \in Wallets /\ Dst(c) \in Wallets /\ Amt(c) \in Int
        /\ \A w \in Wallets : BalanceAfter(c, w) =
              balance[w] + (IF w = Dst(c) THEN Amt(c) ELSE 0) - (IF w = Src(c) THEN Amt(c) ELSE 0)
        /\ \A w \in Wallets \ SystemWallets : BalanceAfter(c, w) >= 0
    BY <1>1, PostableFacts
  <1>3. ASSUME NEW w \in Wallets, lock[w] # c
        PROVE  balance'[w] = balance[w] /\ version'[w] = version[w]
    <2>1. balance[w] \in Int /\ w # Src(c) /\ w # Dst(c)
      BY <1>2, <1>3 DEF TypeOK
    <2>2. BalanceAfter(c, w) = balance[w]
      BY <1>2, <2>1
    <2>3. QED
      BY <2>2 DEF Commit
  <1>4. LockInv'
    <2> SUFFICES ASSUME NEW d \in Calls, NEW w \in Wallets, lock'[w] = d
                 PROVE  /\ InTransaction(d)'
                        /\ w \in {Src(d), Dst(d)}' /\ w \notin need'[d]
                        /\ Opened(w)'
                        /\ seenBalance'[d][w] = balance'[w] /\ seenVersion'[d][w] = version'[w]
      BY DEF LockInv
    <2>1. lock[w] = d /\ d # c
      BY IdsAssumption DEF Commit, Release, TypeOK
    <2>2. QED
      BY <1>3, <2>1
      DEF MoneyInv, LockInv, Commit, Release, Goto, InTransaction, Src, Dst, Opened, TypeOK
  <1>5. NeedInv'
    BY DEF MoneyInv, NeedInv, Commit, Release, Goto, Src, Dst, Opened, TypeOK
  <1>6. CommitInv'
    <2> SUFFICES ASSUME NEW d \in Calls, pc'[d] = "commit" PROVE Postable(d)'
      BY DEF CommitInv
    <2>1. d # c /\ pc[d] = "commit" /\ Postable(d)
      BY DEF Commit, Goto, MoneyInv, CommitInv, TypeOK
    <2>2. Held(d)' = Held(d) /\ seenBalance'[d] = seenBalance[d] /\ kind' = kind /\ cmd' = cmd
      BY <2>1, IdsAssumption DEF Commit, Release, Held, TypeOK
    <2>3. QED
      BY <2>1, <2>2 DEF Postable, Mismatch, Overdraws, BadAmount, Src, Dst, Amt
  <1>7. Reconciled'
    BY <1>2 DEF Commit, MoneyInv, Reconciled, TypeOK
  <1>8. KindInv' /\ NoOverdraft'
    BY <1>2 DEF Commit, MoneyInv, KindInv, NoOverdraft, TypeOK
  <1>9. QED
    BY <1>4, <1>5, <1>6, <1>7, <1>8 DEF MoneyInv

LEMMA FailMoney ==
  ASSUME TypeOK, MoneyInv, NEW c \in Calls, NEW how, Fail(c, how)
  PROVE  MoneyInv'
  BY ReleaseMoney DEF Fail, End, OutsideTransaction, Labels

LEMMA ReplyMoney ==
  ASSUME TypeOK, MoneyInv, NEW c \in Calls, NEW t, ~InTransaction(c), Reply(c, t)
  PROVE  MoneyInv'
  BY QuietMoney DEF Reply, End, OutsideTransaction, Labels

LEMMA StepMoney ==
  ASSUME TypeOK, MoneyInv, NEW c \in Calls, NEW label \in OutsideTransaction,
         ~InTransaction(c), Step(c, label)
  PROVE  MoneyInv'
  BY QuietMoney DEF Step

LEMMA NextMoney == TypeOK /\ MoneyInv /\ [Next]_vars => MoneyInv'
  <1> SUFFICES ASSUME TypeOK, MoneyInv, [Next]_vars PROVE MoneyInv'
    OBVIOUS
  <1> USE DEF OutsideTransaction, Labels, InTransaction
  <1>1. ASSUME NEW w \in Wallets, CreateWallet(w) PROVE MoneyInv'
    BY <1>1, CreateMoney
  <1>2. ASSUME NEW c \in Calls, AcceptTransfer(c) PROVE MoneyInv'
    BY <1>2, StepMoney, FailMoney DEF AcceptTransfer
  <1>3. ASSUME NEW c \in Calls, Replay(c) PROVE MoneyInv'
    BY <1>3, StepMoney, ReplyMoney DEF Replay
  <1>4. ASSUME NEW c \in Calls, Check(c) PROVE MoneyInv'
    BY <1>4, StepMoney, FailMoney DEF Check
  <1>5. ASSUME NEW c \in Calls, Fraud(c) PROVE MoneyInv'
    BY <1>5, StepMoney, FailMoney DEF Fraud
  <1>6. ASSUME NEW c \in Calls, Deliver(c) PROVE MoneyInv'
    BY <1>6, StepMoney DEF Deliver
  <1>7. ASSUME NEW c \in Calls, IsApplied(c) PROVE MoneyInv'
    BY <1>7, StepMoney, ReplyMoney DEF IsApplied
  <1>8. ASSUME NEW c \in Calls, Select(c) PROVE MoneyInv'
    BY <1>8, SelectMoney
  <1>9. ASSUME NEW c \in Calls, LockRow(c) PROVE MoneyInv'
    BY <1>9, LockMoney
  <1>10. ASSUME NEW c \in Calls, Refuse(c) PROVE MoneyInv'
    BY <1>10, FailMoney DEF Refuse
  <1>11. ASSUME NEW c \in Calls, Flush(c) PROVE MoneyInv'
    <2>1. CASE Fail(c, "failed")
      BY <2>1, FailMoney
    <2>2. CASE Goto(c, "race") /\ Release(c) /\ UNCHANGED <<tables, cmd, results>>
      BY <2>2, ReleaseMoney
    <2>3. CASE Goto(c, "commit") /\ UNCHANGED <<tables, lock, cmd, reads, results>>
      BY <1>11, <2>3, ReadyMoney DEF Flush
    <2>4. QED
      BY <1>11, <2>1, <2>2, <2>3 DEF Flush
  <1>12. ASSUME NEW c \in Calls, FlushPayment(c) PROVE MoneyInv'
    <2>1. CASE Fail(c, "failed")
      BY <2>1, FailMoney
    <2>2. CASE Step(c, "commit")
      BY <1>12, <2>2, ReadyMoney DEF FlushPayment, Step, locks
    <2>3. QED
      BY <1>12, <2>1, <2>2 DEF FlushPayment
  <1>13. ASSUME NEW c \in Calls, Commit(c) PROVE MoneyInv'
    BY <1>13, CommitMoney
  <1>14. ASSUME NEW c \in Calls, RaceReplay(c) PROVE MoneyInv'
    BY <1>14, ReplyMoney, FailMoney DEF RaceReplay
  <1>15. ASSUME NEW c \in Calls, EvictSource(c) PROVE MoneyInv'
    BY <1>15, StepMoney DEF EvictSource
  <1>16. ASSUME NEW c \in Calls, EvictDest(c) PROVE MoneyInv'
    BY <1>16, ReplyMoney DEF EvictDest
  <1>17. ASSUME NEW c \in Calls, Abort(c) PROVE MoneyInv'
    BY <1>17, FailMoney DEF Abort
  <1>18. CASE UNCHANGED vars
    BY <1>18
    DEF vars, tables, locks, reads, MoneyInv, LockInv, NeedInv, CommitInv, KindInv, Reconciled,
        NoOverdraft, Postable, Mismatch, Overdraws, BadAmount, Held, Src, Dst, Amt, Opened
  <1>19. QED
    BY <1>1, <1>2, <1>3, <1>4, <1>5, <1>6, <1>7, <1>8, <1>9, <1>10, <1>11, <1>12,
       <1>13, <1>14, <1>15, <1>16, <1>17, <1>18 DEF Next, CallStep

LEMMA MoneyInvariant == Spec => []MoneyInv
  BY InitMoney, NextMoney, TypeCorrect, PTL DEF Spec

\* Whatever calls interleave, crash or retry, each balance equals the sum of the
\* wallet's ledger entries.
THEOREM AlwaysReconciled == Spec => []Reconciled
  <1>1. MoneyInv => Reconciled
    BY DEF MoneyInv
  <1>2. QED
    BY <1>1, MoneyInvariant, PTL

\* No wallet a user opened is ever overdrawn.
THEOREM NeverOverdrawn == Spec => []NoOverdraft
  <1>1. MoneyInv => NoOverdraft
    BY DEF MoneyInv
  <1>2. QED
    BY <1>1, MoneyInvariant, PTL

\* The @Version column and the balance CHECK are never needed: row locks and
\* Wallet.debit already exclude what they would reject.
THEOREM BackstopsIdle == Spec => []BackstopsNeverFire
  <1>1. TypeOK /\ MoneyInv => BackstopsNeverFire
    <2> SUFFICES ASSUME TypeOK, MoneyInv, NEW c \in Calls, Postable(c)
                 PROVE  ~StaleVersion(c) /\ ~CheckFails(c)
      BY DEF BackstopsNeverFire
    <2>1. /\ Src(c) \in Wallets /\ Dst(c) \in Wallets /\ ~StaleVersion(c)
          /\ \A w \in Wallets : BalanceAfter(c, w) \in Int
          /\ \A w \in Wallets \ SystemWallets : BalanceAfter(c, w) >= 0
      BY PostableFacts
    <2>2. \A w \in Wallets : kind[w] # "SYSTEM" => w \notin SystemWallets
      BY DEF MoneyInv, KindInv
    <2>3. QED
      BY <2>1, <2>2 DEF CheckFails
  <1>2. QED
    BY <1>1, TypeCorrect, MoneyInvariant, PTL

-----------------------------------------------------------------------------
(* Deadlock freedom: a call waits for a row larger than all it holds, or    *)
(* for a call that is about to commit and waits for nobody.                *)

LEMMA InitLockOrder == Init => LockOrderInv
  BY DEF Init, LockOrderInv

LEMMA NextLockOrder == TypeOK /\ MoneyInv /\ LockOrderInv /\ [Next]_vars => LockOrderInv'
  <1> SUFFICES ASSUME TypeOK, MoneyInv, LockOrderInv, [Next]_vars PROVE LockOrderInv'
    OBVIOUS
  <1> USE DEF LockOrderInv
  <1>1. ASSUME UNCHANGED <<lock, need>> PROVE LockOrderInv'
    BY <1>1
  <1>2. ASSUME NEW c \in Calls, Release(c) PROVE LockOrderInv'
    <2>1. \A w \in Wallets : lock'[w] = IF lock[w] = c THEN NoCall ELSE lock[w]
      BY <1>2 DEF Release
    <2>2. \A d \in Calls : \A w \in Wallets : lock'[w] = d => d # c /\ lock[w] = d
      BY <2>1, IdsAssumption
    <2>3. \A d \in Calls : d # c => need'[d] = need[d]
      BY <1>2 DEF Release, TypeOK
    <2>4. QED
      BY <2>2, <2>3
  <1>3. ASSUME NEW c \in Calls, Select(c) PROVE LockOrderInv'
    <2>1. \A w \in Wallets : lock[w] # c
      BY <1>3 DEF Select, MoneyInv, LockInv, InTransaction
    <2>2. QED
      BY <1>3, <2>1 DEF Select, locks, TypeOK
  <1>4. ASSUME NEW c \in Calls, LockRow(c) PROVE LockOrderInv'
    <2>1. PICK v \in need[c] :
            /\ NextRow(c, v)
            /\ lock' = [lock EXCEPT ![v] = c]
            /\ need' = [need EXCEPT ![c] = @ \ {v}]
      BY <1>4 DEF LockRow
    <2>2. v \in Wallets /\ need[c] \subseteq Wallets /\ Wallets \subseteq Int
      BY WalletsAssumption DEF TypeOK
    <2>3. SUFFICES ASSUME NEW d \in Calls, NEW w \in Wallets, NEW u \in need'[d], lock'[w] = d
                   PROVE  w < u
      OBVIOUS
    <2>4. CASE d = c /\ w = v
      BY <2>1, <2>2, <2>3, <2>4 DEF NextRow, TypeOK
    <2>5. CASE d # c \/ w # v
      BY <2>1, <2>2, <2>3, <2>5 DEF TypeOK
    <2>6. QED
      BY <2>4, <2>5
  <1>5. ASSUME NEW c \in Calls, NEW how, Fail(c, how) PROVE LockOrderInv'
    BY <1>2, <1>5 DEF Fail
  <1>6. ASSUME NEW w \in Wallets, CreateWallet(w) PROVE LockOrderInv'
    BY <1>1, <1>6 DEF CreateWallet, locks, reads
  <1>7. ASSUME NEW c \in Calls, CallStep(c) PROVE LockOrderInv'
    <2>1. ASSUME NEW t, Reply(c, t) PROVE LockOrderInv'
      BY <1>1, <2>1 DEF Reply, locks, reads
    <2>2. ASSUME NEW label, Step(c, label) PROVE LockOrderInv'
      BY <1>1, <2>2 DEF Step, locks, reads
    <2>3. CASE AcceptTransfer(c) \/ Check(c) \/ Fraud(c) \/ FlushPayment(c) \/ Refuse(c)
      BY <1>5, <2>2, <2>3 DEF AcceptTransfer, Check, Fraud, FlushPayment, Refuse
    <2>4. CASE Replay(c) \/ Deliver(c) \/ IsApplied(c) \/ RaceReplay(c)
               \/ EvictSource(c) \/ EvictDest(c)
      BY <1>5, <2>1, <2>2, <2>4
      DEF Replay, Deliver, IsApplied, RaceReplay, EvictSource, EvictDest
    <2>5. CASE Flush(c)
      BY <1>1, <1>2, <1>5, <2>5 DEF Flush, reads
    <2>6. CASE Commit(c)
      BY <1>2, <2>6 DEF Commit
    <2>7. QED
      BY <1>3, <1>4, <1>7, <2>3, <2>4, <2>5, <2>6 DEF CallStep
  <1>8. CASE UNCHANGED vars
    BY <1>1, <1>8 DEF vars, locks, reads
  <1>9. QED
    BY <1>5, <1>6, <1>7, <1>8 DEF Next, Abort

\* Any nonempty set of wallet ids has a largest one.
LEMMA LargestWallet ==
  ASSUME NEW T \in SUBSET Wallets, T # {}
  PROVE  \E w \in T : \A v \in T : v <= w
  <1> DEFINE D == {LastId - w : w \in T}
  <1>1. T \subseteq 0..LastId /\ LastId \in Nat
    BY WalletsAssumption
  <1>2. D \in SUBSET Nat /\ D # {}
    <2>1. \A w \in T : LastId - w \in Nat
      BY <1>1
    <2>2. QED
      BY <2>1
  <1>3. \E m \in D : \A y \in D : m <= y
    <2> HIDE DEF D
    <2>1. QED
      BY <1>2, LeastElement
  <1>4. PICK w \in T : \A y \in D : LastId - w <= y
    BY <1>3
  <1>5. \A v \in T : LastId - v \in D /\ v \in Int /\ w \in Int
    BY <1>1
  <1>6. \A v \in T : v <= w
    <2> TAKE v \in T
    <2>1. LastId - w <= LastId - v
      BY <1>4, <1>5
    <2>2. QED
      BY <2>1, <1>5, <1>1
  <1>7. QED
    BY <1>6

LEMMA OrderedWaits == TypeOK /\ MoneyInv /\ KeyInv /\ LockOrderInv => NoWaitCycle
  <1> SUFFICES ASSUME TypeOK, MoneyInv, KeyInv, LockOrderInv,
                      NEW S \in (SUBSET Calls) \ {{}},
                      \A c \in S : \E d \in S : WaitsFor(c, d)
               PROVE  FALSE
    BY DEF NoWaitCycle
  <1>1. \A c, d \in S : WaitsFor(c, d) => pc[c] \in {"lock", "post"}
    BY DEF WaitsFor
  <1>2. \A c \in S : pc[c] = "lock"
    <2> SUFFICES ASSUME NEW c \in S, pc[c] # "lock" PROVE FALSE
      OBVIOUS
    <2>1. PICK d \in S : WaitsFor(c, d)
      OBVIOUS
    <2>2. ~IsPayment(c) /\ keyHolder[Key(c)] = d /\ Key(c) \in Keys /\ c \in Calls
      BY <2>1, CommandType DEF WaitsFor, TypeOK
    <2>3. pc[d] = "commit"
      BY <2>2 DEF KeyInv
    <2>4. QED
      BY <1>1, <2>3
  <1> DEFINE T == {w \in Wallets : \E c \in S : w \in need[c] /\ lock[w] \in S}
  <1>3. \A c \in S : \E w \in T : w \in need[c]
    <2> TAKE c \in S
    <2>1. PICK d \in S : WaitsFor(c, d)
      OBVIOUS
    <2>2. PICK w \in need[c] : lock[w] = d
      BY <1>2, <2>1 DEF WaitsFor
    <2>3. w \in Wallets
      BY DEF TypeOK
    <2>4. QED
      BY <2>2, <2>3
  <1>4. PICK w \in T : \A v \in T : v <= w
    <2>1. T # {} /\ T \in SUBSET Wallets
      BY <1>3
    <2> HIDE DEF T
    <2>2. QED
      BY <2>1, LargestWallet
  <1>5. PICK v \in T : v \in need[lock[w]]
    BY <1>3
  <1>6. w < v
    BY <1>5 DEF LockOrderInv
  <1>7. v <= w /\ v \in Int /\ w \in Int
    BY <1>4, WalletsAssumption
  <1>8. QED
    BY <1>6, <1>7

-----------------------------------------------------------------------------
(* Idempotency keys: the unique index admits one transfer per key, its       *)
(* posting goes with it, and every success answers with it.                  *)

BookInv == KeyInv /\ TransferInv /\ RouteInv

Answered == {"evictSrc", "evictDst"}

LEMMA InitBook == Init => BookInv
  BY IdsAssumption, WalletsAssumption DEF Init, BookInv, KeyInv, TransferInv, RouteInv, WithKey, Ids

\* A call moves on without writing a table, taking a key or answering.
LEMMA StepBook ==
  ASSUME TypeOK, BookInv, NEW c \in Calls, NEW label \in Labels, Goto(c, label),
         UNCHANGED <<tables, keyHolder, cmd, results>>,
         pc[c] # "commit", label \in {"applied", "commit"} => IsPayment(c),
         label \in {"replay", "check", "fraud"} => ~IsPayment(c),
         label \in Answered => pc[c] \in Answered
  PROVE  BookInv'
  <1> USE DEF tables, results, Goto, TypeOK, Key, IsPayment, WithKey, Answered
  <1>1. KeyInv'
    BY DEF BookInv, KeyInv
  <1>2. TransferInv'
    BY DEF BookInv, TransferInv
  <1>3. RouteInv'
    BY DEF BookInv, RouteInv
  <1>4. QED
    BY <1>1, <1>2, <1>3 DEF BookInv

\* A call gives up its key and its rows.
LEMMA ReleaseBook ==
  ASSUME TypeOK, BookInv, NEW c \in Calls, NEW label \in {"race", "done"},
         Goto(c, label), Release(c), UNCHANGED <<tables, cmd>>,
         \A d \in Calls : outcome'[d] = "ok" => outcome[d] = "ok" /\ answer'[d] = answer[d]
  PROVE  BookInv'
  <1> USE DEF tables, Goto, Key, IsPayment, WithKey, Answered
  <1>1. KeyInv'
    <2>1. \A k \in Keys : keyHolder'[k] = IF keyHolder[k] = c THEN NoCall ELSE keyHolder[k]
      BY DEF Release
    <2>2. \A d \in Calls : d # c => pc'[d] = pc[d]
      BY DEF TypeOK
    <2>3. pc'[c] # "commit"
      BY DEF TypeOK
    <2>4. \A d \in Calls : ~IsPayment(d) => Key(d) \in Keys
      BY CommandType DEF TypeOK
    <2>5. QED
      BY <2>1, <2>2, <2>3, <2>4, IdsAssumption DEF BookInv, KeyInv
  <1>2. TransferInv'
    <2>1. \A d \in Calls : pc'[d] \in Answered => pc[d] \in Answered
      BY DEF TypeOK
    <2>2. QED
      BY <2>1 DEF BookInv, TransferInv
  <1>3. RouteInv'
    BY DEF BookInv, RouteInv, TypeOK
  <1>4. QED
    BY <1>1, <1>2, <1>3 DEF BookInv

LEMMA FailBook ==
  ASSUME TypeOK, BookInv, NEW c \in Calls, NEW how \in {"refused", "funds", "failed"},
         Fail(c, how)
  PROVE  BookInv'
  <1>1. \A d \in Calls : outcome'[d] = "ok" => outcome[d] = "ok" /\ answer'[d] = answer[d]
    BY DEF Fail, End, TypeOK
  <1>2. QED
    BY <1>1, ReleaseBook DEF Fail, End, Labels, Answered

LEMMA ReplyBook ==
  ASSUME TypeOK, BookInv, NEW c \in Calls, NEW t, Reply(c, t), pc[c] # "commit",
         ~IsPayment(c) => \E r \in transfers : r.key = Key(c) /\ r.id = t
  PROVE  BookInv'
  <1> USE DEF Reply, End, tables, locks, Goto, TypeOK, Key, IsPayment, WithKey
  <1>1. KeyInv'
    BY DEF BookInv, KeyInv
  <1>2. TransferInv'
    BY DEF BookInv, TransferInv
  <1>3. RouteInv'
    BY DEF BookInv, RouteInv
  <1>4. QED
    BY <1>1, <1>2, <1>3 DEF BookInv

LEMMA CommitBook ==
  ASSUME TypeOK, BookInv, NEW c \in Calls, Commit(c)
  PROVE  BookInv'
  <1> USE DEF Key, IsPayment, WithKey
  <1>1. /\ pc[c] = "commit" /\ pc' = [pc EXCEPT ![c] = "evictSrc"]
        /\ UNCHANGED <<cmd, results>> /\ cmd' = cmd
        /\ \A k \in Keys : keyHolder'[k] = IF keyHolder[k] = c THEN NoCall ELSE keyHolder[k]
    BY DEF Commit, Goto, Release
  <1>2. /\ \A d \in Calls : ~IsPayment(d) => Key(d) \in Keys
        /\ IsPayment(c) => Key(c) \in Payments
        /\ Key(c) \in Ids
    BY CommandType DEF TypeOK
  <1>3. postings' = [postings EXCEPT ![Key(c)] = @ + 1] /\ postings \in [Ids -> Nat]
    BY DEF Commit, TypeOK
  <1>4. \A d \in Calls : d # c => pc'[d] = pc[d]
    BY <1>1 DEF TypeOK
  <1>5. RouteInv'
    BY <1>1, <1>4 DEF BookInv, RouteInv, TypeOK
  <1>6. CASE IsPayment(c)
    <2>1. transfers' = transfers
      BY <1>6 DEF Commit
    <2>2. \A k \in Keys : postings'[k] = postings[k]
      BY <1>2, <1>3, <1>6, IdsAssumption DEF Ids
    <2>3. KeyInv'
      <3>1. \A d \in Calls : pc'[d] = "commit" => d # c /\ pc[d] = "commit"
        BY <1>1, <1>4 DEF TypeOK
      <3>2. \A d \in Calls : pc[d] = "commit" /\ ~IsPayment(d) => keyHolder'[Key(d)] = d
        BY <1>1, <1>2, <1>6 DEF BookInv, KeyInv
      <3>3. \A k \in Keys : \A d \in Calls : keyHolder'[k] = d =>
              d # c /\ pc[d] = "commit" /\ ~IsPayment(d) /\ Key(d) = k /\ WithKey(k) = {}
        BY <1>1, IdsAssumption DEF BookInv, KeyInv
      <3>4. QED
        BY <1>1, <1>4, <2>1, <3>1, <3>2, <3>3 DEF KeyInv
    <2>4. TransferInv'
      BY <1>1, <1>4, <1>6, <2>1, <2>2 DEF BookInv, TransferInv, results, TypeOK
    <2>5. QED
      BY <1>5, <2>3, <2>4 DEF BookInv
  <1>7. CASE ~IsPayment(c)
    <2> DEFINE row == [id |-> c, key |-> Key(c), src |-> Src(c), dst |-> Dst(c), amt |-> Amt(c)]
    <2>1. transfers' = transfers \cup {row} /\ row.key = Key(c) /\ row.id = c
      BY <1>7 DEF Commit
    <2> HIDE DEF row
    <2>2. keyHolder[Key(c)] = c /\ Key(c) \in Keys /\ WithKey(Key(c)) = {}
      BY <1>1, <1>2, <1>7 DEF BookInv, KeyInv
    <2>3. \A k \in Keys : postings'[k] = IF k = Key(c) THEN postings[k] + 1 ELSE postings[k]
      BY <1>3, <1>2 DEF Ids
    <2>4. KeyInv'
      <3>1. \A d \in Calls : pc'[d] = "commit" => d # c /\ pc[d] = "commit"
        BY <1>1, <1>4 DEF TypeOK
      <3>2. \A d \in Calls : pc[d] = "commit" /\ ~IsPayment(d) /\ d # c =>
              keyHolder'[Key(d)] = d
        BY <1>1, <1>2 DEF BookInv, KeyInv
      <3>3. \A k \in Keys : \A d \in Calls : keyHolder'[k] = d =>
              d # c /\ pc[d] = "commit" /\ ~IsPayment(d) /\ Key(d) = k /\ WithKey(k) = {}
        BY <1>1, IdsAssumption DEF BookInv, KeyInv
      <3>4. \A k \in Keys : \A d \in Calls : keyHolder'[k] = d => k # Key(c)
        BY <1>1, <2>2, IdsAssumption
      <3>5. \A k \in Keys : k # Key(c) => WithKey(k)' = WithKey(k)
        BY <2>1
      <3>6. QED
        BY <1>1, <1>4, <3>1, <3>2, <3>3, <3>4, <3>5 DEF KeyInv
    <2>5. TransferInv'
      <3>1. \A s, t \in transfers' : s.key = t.key => s = t
        BY <2>1, <2>2 DEF BookInv, TransferInv
      <3>2. \A k \in Keys : postings'[k] = IF WithKey(k)' = {} THEN 0 ELSE 1
        <4>1. \A k \in Keys : k # Key(c) => WithKey(k)' = WithKey(k)
          BY <2>1
        <4>2. WithKey(Key(c))' # {}
          BY <1>1, <2>1
        <4>3. QED
          BY <1>1, <2>2, <2>3, <4>1, <4>2 DEF BookInv, TransferInv
      <3>3. \A d \in Calls : pc'[d] \in Answered /\ ~IsPayment(d) =>
              \E t \in transfers' : t.key = Key(d) /\ t.id = d
        BY <1>4, <2>1 DEF BookInv, TransferInv, Answered
      <3>4. \A d \in Calls : outcome[d] = "ok" /\ ~IsPayment(d) =>
              \E t \in transfers' : t.key = Key(d) /\ t.id = answer[d]
        BY <2>1 DEF BookInv, TransferInv
      <3>5. QED
        BY <1>1, <3>1, <3>2, <3>3, <3>4 DEF TransferInv, results, Answered
    <2>6. QED
      BY <1>5, <2>4, <2>5 DEF BookInv
  <1>8. QED
    BY <1>6, <1>7

LEMMA FlushBook ==
  ASSUME TypeOK, BookInv, NEW c \in Calls, Flush(c)
  PROVE  BookInv'
  <1>1. pc[c] = "post" /\ ~IsPayment(c) /\ keyHolder[Key(c)] = NoCall /\ Key(c) \in Keys
    BY CommandType DEF Flush, TypeOK
  <1>2. CASE Fail(c, "failed")
    BY <1>2, FailBook
  <1>3. CASE Goto(c, "race") /\ Release(c) /\ UNCHANGED <<tables, cmd, results>>
    BY <1>3, ReleaseBook DEF Labels, Answered, results
  <1>4. CASE /\ WithKey(Key(c)) = {}
             /\ keyHolder' = [keyHolder EXCEPT ![Key(c)] = c]
             /\ Goto(c, "commit")
             /\ UNCHANGED <<tables, lock, cmd, reads, results>>
    <2> USE DEF tables, results, Goto, TypeOK, Key, IsPayment, WithKey
    <2>1. KeyInv'
      BY <1>1, <1>4, IdsAssumption DEF BookInv, KeyInv
    <2>2. TransferInv'
      BY <1>4 DEF BookInv, TransferInv
    <2>3. RouteInv'
      BY <1>1, <1>4 DEF BookInv, RouteInv
    <2>4. QED
      BY <2>1, <2>2, <2>3 DEF BookInv
  <1>5. QED
    BY <1>2, <1>3, <1>4 DEF Flush

LEMMA NextBook == TypeOK /\ BookInv /\ [Next]_vars => BookInv'
  <1> SUFFICES ASSUME TypeOK, BookInv, [Next]_vars PROVE BookInv'
    OBVIOUS
  <1> USE DEF Labels, Answered
  <1>1. ASSUME NEW w \in Wallets, CreateWallet(w) PROVE BookInv'
    BY <1>1 DEF CreateWallet, BookInv, KeyInv, TransferInv, RouteInv, locks, results, WithKey, Key,
                IsPayment
  <1>2. ASSUME NEW c \in Calls, NEW label \in Labels \ {"commit", "evictSrc", "evictDst"},
               Step(c, label), pc[c] # "commit", label = "applied" => IsPayment(c),
               label \in {"replay", "check", "fraud"} => ~IsPayment(c)
        PROVE  BookInv'
    BY <1>2, StepBook DEF Step, locks
  <1>3. ASSUME NEW c \in Calls, \/ AcceptTransfer(c) \/ Check(c) \/ Fraud(c) \/ Deliver(c)
                                \/ Refuse(c) \/ Abort(c)
        PROVE  BookInv'
    BY <1>2, <1>3, FailBook DEF AcceptTransfer, Check, Fraud, Deliver, Refuse, Abort, BookInv,
                                RouteInv
  <1>4. ASSUME NEW c \in Calls, Replay(c) \/ RaceReplay(c) PROVE BookInv'
    <2>1. ASSUME NEW t \in WithKey(Key(c)), Reply(c, t.id), pc[c] # "commit" PROVE BookInv'
      BY <2>1, ReplyBook DEF WithKey
    <2>2. QED
      BY <1>2, <1>4, <2>1, FailBook DEF Replay, RaceReplay, BookInv, RouteInv
  <1>5. ASSUME NEW c \in Calls, IsApplied(c) PROVE BookInv'
    BY <1>2, <1>5, ReplyBook DEF IsApplied, BookInv, RouteInv
  <1>6. ASSUME NEW c \in Calls, Select(c) \/ LockRow(c) PROVE BookInv'
    BY <1>6, StepBook DEF Select, LockRow, locks
  <1>7. ASSUME NEW c \in Calls, FlushPayment(c) PROVE BookInv'
    BY <1>7, StepBook, FailBook DEF FlushPayment, Step, locks
  <1>8. ASSUME NEW c \in Calls, EvictSource(c) PROVE BookInv'
    BY <1>8, StepBook DEF EvictSource, Step, locks
  <1>9. ASSUME NEW c \in Calls, EvictDest(c) PROVE BookInv'
    <2>1. ~IsPayment(c) => \E r \in transfers : r.key = Key(c) /\ r.id = c
      BY <1>9 DEF EvictDest, BookInv, TransferInv
    <2>2. QED
      BY <1>9, <2>1, ReplyBook DEF EvictDest
  <1>10. CASE UNCHANGED vars
    BY <1>10 DEF vars, tables, locks, results, BookInv, KeyInv, TransferInv, RouteInv, WithKey, Key,
                 IsPayment
  <1>11. QED
    BY <1>1, <1>3, <1>4, <1>5, <1>6, <1>7, <1>8, <1>9, <1>10, FlushBook, CommitBook
    DEF Next, CallStep

LEMMA BookInvariant == Spec => []BookInv
  BY InitBook, NextBook, TypeCorrect, PTL DEF Spec

\* A success under a key, be it the winner's, a retry's or the loser's of the insert
\* race, answers with the one transfer stored under that key.
THEOREM SameAnswer == Spec => []AnswersAgree
  <1>1. BookInv => AnswersAgree
    <2> SUFFICES ASSUME BookInv, NEW c \in Calls, outcome[c] = "ok", ~IsPayment(c)
                 PROVE  {t.id : t \in WithKey(Key(c))} = {answer[c]}
      BY DEF AnswersAgree
    <2>1. PICK r \in transfers : r.key = Key(c) /\ r.id = answer[c]
      BY DEF BookInv, TransferInv
    <2>2. WithKey(Key(c)) = {r}
      BY <2>1 DEF BookInv, TransferInv, WithKey
    <2>3. QED
      BY <2>1, <2>2
  <1>2. QED
    BY <1>1, BookInvariant, PTL

\* Opposing transfers, top-ups and duplicate keys never wait for one another in a ring.
THEOREM DeadlockFree == Spec => []NoWaitCycle
  <1>1. Spec => []LockOrderInv
    BY InitLockOrder, NextLockOrder, TypeCorrect, MoneyInvariant, PTL DEF Spec
  <1>2. BookInv => KeyInv
    BY DEF BookInv
  <1>3. QED
    BY <1>1, <1>2, OrderedWaits, TypeCorrect, MoneyInvariant, BookInvariant, PTL

-----------------------------------------------------------------------------
(* Card payments: with one consumer thread per partition, a delivery that    *)
(* passed isApplied is the only one under way, so its guard row is missing.  *)

LEMMA InitPayment == Init => PaymentInv
  BY DEF Init, PaymentInv, InTransaction, Ended, Ids

\* A call that is under way, or a delivery nobody else works on, moves on.
LEMMA QuietPayment ==
  ASSUME TypeOK, PaymentInv, NEW c \in Calls, NEW label \in Labels,
         pc' = [pc EXCEPT ![c] = label],
         UNCHANGED <<postings, applied, cmd>>,
         IsPayment(c) /\ label \in {"select", "lock", "post", "commit"} =>
            Key(c) \notin applied,
         \/ label = "done" \/ ~Ended(c) \/ ~IsPayment(c)
         \/ \A d \in Calls : IsPayment(d) /\ Key(d) = Key(c) => Ended(d)
  PROVE  PaymentInv'
  <1> USE DEF TypeOK, IsPayment, Key, Ended, InTransaction
  <1>1. \A d \in Calls : d # c => pc'[d] = pc[d]
    OBVIOUS
  <1>2. pc'[c] = label
    OBVIOUS
  <1>3. \A d \in Calls : IsPayment(d)' = IsPayment(d) /\ Key(d)' = Key(d)
    OBVIOUS
  <1>4. \A d \in Calls : d # c => Ended(d)' = Ended(d) /\ InTransaction(d)' = InTransaction(d)
    BY <1>1
  <1>5. \A d \in Calls : IsPayment(d) /\ (pc'[d] = "select" \/ InTransaction(d)') =>
          Key(d) \notin applied
    BY <1>1, <1>2 DEF PaymentInv
  <1>6. \A d \in Calls : IsPayment(c) /\ IsPayment(d) /\ Key(c) = Key(d) /\ c # d =>
          Ended(c)' \/ Ended(d)
    BY <1>2 DEF PaymentInv
  <1>7. \A d, e \in Calls :
          IsPayment(d) /\ IsPayment(e) /\ Key(d) = Key(e) /\ d # e => Ended(d)' \/ Ended(e)'
    <2> HIDE DEF Ended, Key, IsPayment, InTransaction
    <2>1. QED
      BY <1>4, <1>6 DEF PaymentInv
  <1>8. QED
    <2> HIDE DEF Ended, Key, IsPayment, InTransaction
    <2>1. QED
      BY <1>3, <1>5, <1>7 DEF PaymentInv

LEMMA CommitPayment ==
  ASSUME TypeOK, PaymentInv, NEW c \in Calls, Commit(c)
  PROVE  PaymentInv'
  <1>1. /\ pc[c] = "commit" /\ pc' = [pc EXCEPT ![c] = "evictSrc"] /\ cmd' = cmd
        /\ postings' = [postings EXCEPT ![Key(c)] = @ + 1] /\ postings \in [Ids -> Nat]
        /\ applied' = IF IsPayment(c) THEN applied \cup {Key(c)} ELSE applied
    BY DEF Commit, Goto, TypeOK
  <1>2. /\ ~IsPayment(c) => Key(c) \in Keys
        /\ IsPayment(c) => Key(c) \in Payments
        /\ Key(c) \in Ids
    BY CommandType DEF TypeOK
  <1>3. \A p \in Payments : postings'[p] = IF p = Key(c) THEN postings[p] + 1 ELSE postings[p]
    BY <1>1, <1>2 DEF Ids
  <1>4. IsPayment(c) => Key(c) \notin applied
    BY <1>1 DEF PaymentInv, InTransaction
  <1>5. \A p \in Payments : postings'[p] = IF p \in applied' THEN 1 ELSE 0
    BY <1>1, <1>2, <1>3, <1>4, IdsAssumption DEF PaymentInv
  <1>6. /\ \A d \in Calls : d # c => pc'[d] = pc[d]
        /\ pc'[c] = "evictSrc"
    BY <1>1 DEF TypeOK
  <1>7. \A d \in Calls : IsPayment(d)' = IsPayment(d) /\ Key(d)' = Key(d)
    BY <1>1 DEF IsPayment, Key
  <1>8. \A d \in Calls : Ended(d)' = Ended(d)
    BY <1>1, <1>6 DEF Ended
  <1>9. \A d \in Calls : IsPayment(d) /\ (pc'[d] = "select" \/ InTransaction(d)') =>
          d # c /\ ~Ended(d) /\ Key(d) \notin applied
    BY <1>6 DEF PaymentInv, InTransaction, Ended
  <1>10. ~Ended(c)
    BY <1>1 DEF Ended
  <1>11. \A d \in Calls : IsPayment(d) /\ (pc'[d] = "select" \/ InTransaction(d)') =>
          Key(d) \notin applied'
    BY <1>1, <1>9, <1>10 DEF PaymentInv
  <1>12. QED
    BY <1>5, <1>7, <1>8, <1>11 DEF PaymentInv

LEMMA NextPayment ==
  ExclusiveConsumer /\ TypeOK /\ BookInv /\ PaymentInv /\ [Next]_vars => PaymentInv'
  <1> SUFFICES ASSUME ExclusiveConsumer, TypeOK, BookInv, PaymentInv, [Next]_vars
               PROVE  PaymentInv'
    OBVIOUS
  <1> USE DEF Labels, tables
  <1>1. ASSUME NEW w \in Wallets, CreateWallet(w) PROVE PaymentInv'
    BY <1>1 DEF CreateWallet, PaymentInv, Key, IsPayment, InTransaction, Ended
  <1>2. ASSUME NEW c \in Calls, pc' = [pc EXCEPT ![c] = "done"],
               UNCHANGED <<postings, applied, cmd>>
        PROVE  PaymentInv'
    BY <1>2, QuietPayment
  <1>3. ASSUME NEW c \in Calls, NEW how, Fail(c, how) PROVE PaymentInv'
    BY <1>2, <1>3 DEF Fail, End, Goto
  <1>4. ASSUME NEW c \in Calls, NEW t, Reply(c, t) PROVE PaymentInv'
    BY <1>2, <1>4 DEF Reply, End, Goto
  <1>5. ASSUME NEW c \in Calls, ~IsPayment(c), NEW label \in Labels, Step(c, label)
        PROVE  PaymentInv'
    BY <1>5, QuietPayment DEF Step, Goto
  <1>6. ASSUME NEW c \in Calls, AcceptTransfer(c) PROVE PaymentInv'
    BY <1>3, <1>5, <1>6 DEF AcceptTransfer
  <1>7. ASSUME NEW c \in Calls, Replay(c) \/ Check(c) \/ Fraud(c) PROVE PaymentInv'
    <2>1. ASSUME NEW label \in {"check", "fraud"}, Step(c, label), ~Ended(c) PROVE PaymentInv'
      BY <2>1, QuietPayment DEF Step, Goto
    <2>2. ASSUME Step(c, "select"), pc[c] = "fraud" PROVE PaymentInv'
      BY <2>2, <1>5 DEF BookInv, RouteInv
    <2>3. QED
      BY <1>3, <1>4, <1>7, <2>1, <2>2 DEF Replay, Check, Fraud, Ended
  <1>8. ASSUME NEW c \in Calls, Deliver(c) PROVE PaymentInv'
    BY <1>8, QuietPayment DEF Deliver, Step, Goto
  <1>9. ASSUME NEW c \in Calls, IsApplied(c) PROVE PaymentInv'
    <2>1. CASE Key(c) \notin applied /\ Step(c, "select")
      BY <1>9, <2>1, QuietPayment DEF IsApplied, Step, Goto, Ended
    <2>2. QED
      BY <1>4, <1>9, <2>1 DEF IsApplied
  <1>10. ASSUME NEW c \in Calls, Select(c) \/ LockRow(c) PROVE PaymentInv'
    <2>1. ~Ended(c) /\ (IsPayment(c) => Key(c) \notin applied)
      BY <1>10 DEF Select, LockRow, PaymentInv, InTransaction, Ended
    <2>2. QED
      BY <1>10, <2>1, QuietPayment DEF Select, LockRow, Goto
  <1>11. ASSUME NEW c \in Calls, Refuse(c) PROVE PaymentInv'
    BY <1>3, <1>11 DEF Refuse
  <1>12. ASSUME NEW c \in Calls, Flush(c) PROVE PaymentInv'
    <2>1. ~Ended(c) /\ ~IsPayment(c)
      BY <1>12 DEF Flush, Ended
    <2>2. ASSUME NEW label \in {"race", "commit"}, Goto(c, label),
                 UNCHANGED <<tables, cmd>>
          PROVE  PaymentInv'
      BY <2>1, <2>2, QuietPayment DEF Goto
    <2>3. QED
      BY <1>3, <1>12, <2>2 DEF Flush
  <1>13. ASSUME NEW c \in Calls, FlushPayment(c) PROVE PaymentInv'
    <2>1. ~Ended(c) /\ Key(c) \notin applied
      BY <1>13 DEF FlushPayment, PaymentInv, InTransaction, Ended
    <2>2. CASE Step(c, "commit")
      BY <2>1, <2>2, QuietPayment DEF Step, Goto
    <2>3. QED
      BY <1>3, <1>13, <2>2 DEF FlushPayment
  <1>14. ASSUME NEW c \in Calls, RaceReplay(c) PROVE PaymentInv'
    BY <1>3, <1>4, <1>14 DEF RaceReplay
  <1>15. ASSUME NEW c \in Calls, EvictSource(c) PROVE PaymentInv'
    BY <1>15, QuietPayment DEF EvictSource, Step, Goto, Ended
  <1>16. ASSUME NEW c \in Calls, EvictDest(c) PROVE PaymentInv'
    BY <1>4, <1>16 DEF EvictDest
  <1>17. ASSUME NEW c \in Calls, Abort(c) PROVE PaymentInv'
    BY <1>3, <1>17 DEF Abort
  <1>18. CASE UNCHANGED vars
    BY <1>18 DEF vars, PaymentInv, Key, IsPayment, InTransaction, Ended
  <1>19. QED
    BY <1>1, <1>6, <1>7, <1>8, <1>9, <1>10, <1>11, <1>12, <1>13, <1>14, <1>15, <1>16,
       <1>17, <1>18, CommitPayment DEF Next, CallStep

\* A key moves money at most once, and so does a card payment as long as a partition
\* has a single consumer thread at a time.
THEOREM OncePerOperation ==
  ASSUME ExclusiveConsumer
  PROVE  Spec => []PostedOnce
  <1>1. TypeOK /\ BookInv /\ PaymentInv /\ [Next]_vars => PaymentInv'
    BY NextPayment
  <1>2. BookInv /\ PaymentInv => PostedOnce
    BY DEF BookInv, TransferInv, PaymentInv, PostedOnce, Ids
  <1>3. QED
    BY <1>1, <1>2, InitPayment, TypeCorrect, BookInvariant, PTL DEF Spec

\* Without any assumption on consumers, an Idempotency-Key moves money at most once.
THEOREM OncePerKey == Spec => [](\A k \in Keys : postings[k] <= 1)
  <1>1. BookInv => \A k \in Keys : postings[k] <= 1
    BY DEF BookInv, TransferInv
  <1>2. QED
    BY <1>1, BookInvariant, PTL

-----------------------------------------------------------------------------
(* Refinement: a commit is the one step in which money moves, and it is a    *)
(* DoubleEntry!Move; opening a wallet is Open; all else stutters.            *)

LEMMA InitMaps == Init => Ledger!Init
  BY DEF Init, Ledger!Init, Moves

LEMMA QuietTables ==
  ASSUME NEW c \in Calls, CallStep(c) \/ Abort(c), ~Commit(c)
  PROVE  UNCHANGED tables
  BY DEF CallStep, Abort, AcceptTransfer, Replay, Check, Fraud, Deliver, IsApplied, Select,
         LockRow, Refuse, Flush, FlushPayment, RaceReplay, EvictSource, EvictDest, Fail, Reply,
         Step, tables

\* The movement a commit adds, and that no earlier movement has its key.
LEMMA CommitMoves ==
  ASSUME TypeOK, BookInv, PaymentInv, NEW c \in Calls, Commit(c)
  PROVE  /\ Moves' = Moves \cup {Movement(cmd[c])}
         /\ \A n \in Moves : n.op # Key(c)
  <1> USE DEF Movement
  <1>1. /\ cmd[c] \in Requests
        /\ IsPayment(c) => Key(c) \in Payments
        /\ ~IsPayment(c) => Key(c) \in Keys
    BY CommandType DEF TypeOK
  <1>2. \A t \in transfers : t.key \in Keys
    BY DEF TypeOK
  <1>3. applied \subseteq Payments
    BY DEF TypeOK
  <1>4. CASE IsPayment(c)
    <2>1. transfers' = transfers /\ applied' = applied \cup {Key(c)} /\ Key(c) \notin applied
      BY <1>4 DEF Commit, PaymentInv, InTransaction
    <2>2. \A r \in Requests : r.op = "payment" /\ r.key = Key(c) => r = cmd[c]
      BY <1>1, <1>4, RequestsAssumption DEF Key, IsPayment
    <2>3. Moves' = Moves \cup {Movement(cmd[c])}
      BY <1>1, <1>4, <2>1, <2>2 DEF Moves, IsPayment, Key
    <2>4. \A n \in Moves : n.op # Key(c)
      BY <1>1, <1>2, <1>4, <2>1, IdsAssumption DEF Moves
    <2>5. QED
      BY <2>3, <2>4
  <1>5. CASE ~IsPayment(c)
    <2> DEFINE row == [id |-> c, key |-> Key(c), src |-> Src(c), dst |-> Dst(c), amt |-> Amt(c)]
    <2>1. transfers' = transfers \cup {row} /\ applied' = applied
      BY <1>5 DEF Commit
    <2>2. Movement(row) = Movement(cmd[c])
      BY DEF Key, Src, Dst, Amt
    <2>3. \A t \in transfers : t.key # Key(c)
      BY <1>1, <1>5 DEF Commit, BookInv, KeyInv, WithKey
    <2> HIDE DEF row
    <2>4. Moves' = Moves \cup {Movement(cmd[c])}
      <3> HIDE DEF Movement
      <3>1. QED
        BY <2>1, <2>2 DEF Moves
    <2>5. \A n \in Moves : n.op # Key(c)
      BY <1>1, <1>3, <1>5, <2>3, IdsAssumption DEF Moves
    <2>6. QED
      BY <2>4, <2>5
  <1>6. QED
    BY <1>4, <1>5

LEMMA CommitMaps ==
  ASSUME TypeOK, MoneyInv, BookInv, PaymentInv, NEW c \in Calls, Commit(c)
  PROVE  Ledger!Move(Movement(cmd[c]))
  <1> DEFINE m == Movement(cmd[c])
  <1>1. m.op = Key(c) /\ m.src = Src(c) /\ m.dst = Dst(c) /\ m.amt = Amt(c)
    BY DEF Movement, Key, Src, Dst, Amt
  <1>2. /\ Src(c) \in Wallets /\ Dst(c) \in Wallets /\ Amt(c) \in Int
    BY CommandType DEF TypeOK
  <1>3. Postable(c)
    BY DEF Commit, MoneyInv, CommitInv
  <1>4. \A w \in {Src(c), Dst(c)} : lock[w] = c
    BY <1>3 DEF Postable, Mismatch, Held
  <1>5. \A w \in {Src(c), Dst(c)} : Opened(w) /\ seenBalance[c][w] = balance[w] /\ balance[w] \in Int
    BY <1>2, <1>4 DEF MoneyInv, LockInv, TypeOK
  <1>6. kind[Src(c)] # "NONE" /\ kind[Dst(c)] # "NONE"
    BY <1>5 DEF Opened
  <1>7. Amt(c) > 0
    BY <1>2, <1>3 DEF Postable, BadAmount
  <1>8. kind[Src(c)] = "USER" => balance[Src(c)] >= Amt(c)
    BY <1>2, <1>3, <1>5 DEF Postable, Overdraws
  <1>9. balance' = [w \in Wallets |-> Ledger!After(w, m)]
    <2>1. \A w \in Wallets : balance[w] \in Int
      BY DEF TypeOK
    <2>2. \A w \in Wallets : BalanceAfter(c, w) = Ledger!After(w, m)
      BY <1>1, <1>2, <1>5, <2>1 DEF BalanceAfter, Ledger!After
    <2>3. QED
      BY <2>2 DEF Commit
  <1>10. Moves' = Moves \cup {m} /\ (\A n \in Moves : n.op # m.op)
    BY <1>1, CommitMoves
  <1>11. UNCHANGED kind
    BY DEF Commit
  <1> HIDE DEF m
  <1>12. Ledger!Move(m)
    BY <1>1, <1>6, <1>7, <1>8, <1>9, <1>10, <1>11 DEF Ledger!Move
  <1>13. QED
    BY <1>12 DEF m

LEMMA NextMaps ==
  TypeOK /\ MoneyInv /\ BookInv /\ PaymentInv /\ [Next]_vars => [Ledger!Next]_Ledger!vars
  <1> SUFFICES ASSUME TypeOK, MoneyInv, BookInv, PaymentInv, [Next]_vars
               PROVE  [Ledger!Next]_Ledger!vars
    OBVIOUS
  <1>1. ASSUME UNCHANGED tables PROVE UNCHANGED Ledger!vars
    BY <1>1 DEF tables, Ledger!vars, Moves
  <1>2. ASSUME NEW w \in Wallets, CreateWallet(w) PROVE Ledger!Next
    <2>1. Moves' = Moves
      BY <1>2 DEF CreateWallet, Moves
    <2>2. QED
      BY <1>2, <2>1 DEF CreateWallet, Ledger!Next, Ledger!Open
  <1>3. ASSUME NEW c \in Calls, Commit(c) PROVE Ledger!Next
    <2>1. cmd[c] \in Requests
      BY DEF TypeOK
    <2>2. QED
      BY <1>3, <2>1, CommitMaps DEF Ledger!Next
  <1>4. CASE UNCHANGED vars
    BY <1>1, <1>4 DEF vars
  <1>5. QED
    BY <1>1, <1>2, <1>3, <1>4, QuietTables DEF Next

\* With one consumer thread per partition, transfers, deposits and card payments, run
\* by any number of interleaved, failing and retried calls, implement DoubleEntry.
THEOREM CoreImplementsDoubleEntry ==
  ASSUME ExclusiveConsumer
  PROVE  Spec => ImplementsDoubleEntry
  <1>1. TypeOK /\ BookInv /\ PaymentInv /\ [Next]_vars => PaymentInv'
    BY NextPayment
  <1>2. Spec => []PaymentInv
    BY <1>1, InitPayment, TypeCorrect, BookInvariant, PTL DEF Spec
  <1>3. QED
    BY <1>2, InitMaps, NextMaps, TypeCorrect, MoneyInvariant, BookInvariant, PTL
    DEF Spec, ImplementsDoubleEntry, Ledger!Spec

-----------------------------------------------------------------------------
(* Money is conserved: a commit adds to one wallet what it takes from        *)
(* another of the same currency, so that the running totals differ only      *)
(* between the two.                                                          *)

\* The recursion defines what it says: each total is the one before plus one wallet's share.
LEMMA Running ==
  ASSUME NEW b, NEW cur, \A w \in Wallets : b[w] \in Int
  PROVE  /\ RunningTotal(b, cur) \in [0..LastId -> Int]
         /\ \A w \in 0..LastId : RunningTotal(b, cur)[w] =
               Share(b, cur, w) + IF w = 0 THEN 0 ELSE RunningTotal(b, cur)[w - 1]
  <1> USE WalletsAssumption
  <1>1. \A w \in Nat : Share(b, cur, w) \in Int
    BY DEF Share
  <1> DEFINE Sums(f, n) == \A w \in 0..n : f[w] = Share(b, cur, w) + IF w = 0 THEN 0 ELSE f[w - 1]
             S == {n \in Nat : \E f \in [0..n -> Int] : Sums(f, n)}
  <1>2. 0 \in S
    <2>1. [w \in 0..0 |-> Share(b, cur, w)] \in [0..0 -> Int]
      BY <1>1
    <2>2. Sums([w \in 0..0 |-> Share(b, cur, w)], 0)
      BY <1>1
    <2>3. QED
      BY <2>1, <2>2
  <1>3. ASSUME NEW n \in Nat, n \in S PROVE n + 1 \in S
    <2>1. PICK f \in [0..n -> Int] : Sums(f, n)
      BY <1>3, Zenon
    <2> DEFINE g == [w \in 0..n + 1 |-> IF w <= n THEN f[w] ELSE Share(b, cur, w) + f[n]]
    <2>2. g \in [0..n + 1 -> Int]
      BY <1>1
    <2>3. Sums(g, n + 1)
      BY <2>1
    <2> HIDE DEF g, Sums
    <2>4. n + 1 \in Nat
      OBVIOUS
    <2>5. QED
      BY <2>2, <2>3, <2>4
  <1>4. LastId \in S
    <2> HIDE DEF S
    <2>1. QED
      BY <1>2, <1>3, NatInduct
  <1>5. PICK f \in [0..LastId -> Int] : Sums(f, LastId)
    BY <1>4
  <1> DEFINE Extend(g) == [w \in 0..LastId |-> Share(b, cur, w) + IF w = 0 THEN 0 ELSE g[w - 1]]
  <1>6. f = Extend(f)
    BY <1>5
  <1>7. RunningTotal(b, cur) = Extend(RunningTotal(b, cur))
    <2>1. RunningTotal(b, cur) = CHOOSE g : g = Extend(g)
      BY DEF RunningTotal
    <2> HIDE DEF Extend
    <2>2. QED
      BY <1>6, <2>1, Zenon
  <1>8. \A w \in 0..LastId : RunningTotal(b, cur)[w] =
          Share(b, cur, w) + IF w = 0 THEN 0 ELSE RunningTotal(b, cur)[w - 1]
    BY <1>7, Zenon
  <1>9. QED
    <2> DEFINE T == {n \in Nat : n \in 0..LastId => RunningTotal(b, cur)[n] \in Int}
    <2>1. 0 \in T
      BY <1>1, <1>8
    <2>2. ASSUME NEW n \in Nat, n \in T PROVE n + 1 \in T
      <3> SUFFICES ASSUME n + 1 \in 0..LastId PROVE RunningTotal(b, cur)[n + 1] \in Int
        OBVIOUS
      <3>1. n \in 0..LastId /\ n + 1 # 0 /\ (n + 1) - 1 = n
        OBVIOUS
      <3>2. RunningTotal(b, cur)[n + 1] = Share(b, cur, n + 1) + RunningTotal(b, cur)[n]
        BY <1>8, <3>1
      <3>3. QED
        BY <1>1, <2>2, <3>1, <3>2
    <2>3. Nat \subseteq T
      <3> HIDE DEF T
      <3>1. QED
        BY <2>1, <2>2, NatInduct
    <2>4. \A n \in 0..LastId : RunningTotal(b, cur)[n] \in Int
      BY <2>3
    <2>5. QED
      BY <1>7, <1>8, <2>4

\* Amount amt goes from src to dst, and the column of balances b becomes moved.
Moved(b, moved, src, dst, amt) ==
    /\ \A w \in Wallets : b[w] \in Int
    /\ src \in Wallets /\ dst \in Wallets /\ amt \in Int
    /\ Currency[src] = Currency[dst]
    /\ \A w \in Wallets : moved[w] = b[w] + (IF w = dst THEN amt ELSE 0)
                                      - (IF w = src THEN amt ELSE 0)

LEMMA MoveKeepsTotal ==
  ASSUME NEW b, NEW moved, NEW cur, NEW src, NEW dst, NEW amt, Moved(b, moved, src, dst, amt)
  PROVE  RunningTotal(moved, cur)[LastId] = RunningTotal(b, cur)[LastId]
  <1> DEFINE before == RunningTotal(b, cur)
             after == RunningTotal(moved, cur)
             x == IF Currency[src] = cur THEN amt ELSE 0
             Gap(w) == (IF dst <= w THEN x ELSE 0) - (IF src <= w THEN x ELSE 0)
             S == {w \in Nat : w \in 0..LastId => after[w] = before[w] + Gap(w)}
  <1>1. LastId \in Nat /\ src \in 0..LastId /\ dst \in 0..LastId /\ x \in Int
    BY WalletsAssumption DEF Moved
  <1>2. /\ \A w \in 0..LastId : before[w] \in Int /\ after[w] \in Int
        /\ \A w \in 0..LastId : before[w] = Share(b, cur, w) + IF w = 0 THEN 0 ELSE before[w - 1]
        /\ \A w \in 0..LastId : after[w] = Share(moved, cur, w) + IF w = 0 THEN 0 ELSE after[w - 1]
    <2>1. \A w \in Wallets : b[w] \in Int /\ moved[w] \in Int
      BY DEF Moved
    <2>2. before \in [0..LastId -> Int] /\ after \in [0..LastId -> Int]
      BY <2>1, Running
    <2>3. QED
      BY <2>1, <2>2, Running
  <1>3. \A w \in 0..LastId : /\ Share(b, cur, w) \in Int
                            /\ Share(moved, cur, w) = Share(b, cur, w)
                                 + (IF w = dst THEN x ELSE 0) - (IF w = src THEN x ELSE 0)
    BY <1>1 DEF Share, Moved
  <1> HIDE DEF before, after, x
  <1>4. 0 \in S
    BY <1>1, <1>2, <1>3
  <1>5. ASSUME NEW n \in Nat, n \in S PROVE n + 1 \in S
    <2> SUFFICES ASSUME n + 1 \in 0..LastId PROVE after[n + 1] = before[n + 1] + Gap(n + 1)
      OBVIOUS
    <2>1. n \in 0..LastId /\ n + 1 # 0 /\ (n + 1) - 1 = n
      BY <1>1
    <2>2. after[n] = before[n] + Gap(n)
      BY <1>5, <2>1
    <2>3. /\ before[n + 1] = Share(b, cur, n + 1) + before[n]
          /\ after[n + 1] = Share(moved, cur, n + 1) + after[n]
      BY <1>2, <2>1
    <2>4. Gap(n + 1) = Gap(n) + (IF n + 1 = dst THEN x ELSE 0) - (IF n + 1 = src THEN x ELSE 0)
      BY <1>1
    <2>5. /\ Share(moved, cur, n + 1) = Share(b, cur, n + 1)
               + (IF n + 1 = dst THEN x ELSE 0) - (IF n + 1 = src THEN x ELSE 0)
          /\ Share(b, cur, n + 1) \in Int /\ before[n] \in Int /\ after[n] \in Int
      BY <1>2, <1>3, <2>1
    <2>6. Gap(n) \in Int
      BY <1>1
    <2>7. QED
      <3> HIDE DEF Gap
      <3>1. QED
        BY <1>1, <2>2, <2>3, <2>4, <2>5, <2>6
  <1>6. LastId \in S
    <2> HIDE DEF S
    <2>1. QED
      BY <1>1, <1>4, <1>5, NatInduct
  <1>7. after[LastId] = before[LastId] + Gap(LastId)
    BY <1>1, <1>6
  <1>8. QED
    BY <1>1, <1>2, <1>7 DEF before, after

\* wallet-service: no interleaving, crash, retry or redelivery of transfers, deposits and
\* card payments makes money or loses it, in any currency.
THEOREM NoMoneyMadeOrLost == Spec => []MoneyConserved
  <1>1. Init => MoneyConserved
    BY DEF Init, MoneyConserved
  <1>2. TypeOK /\ MoneyInv /\ MoneyConserved /\ [Next]_vars => MoneyConserved'
    <2> SUFFICES ASSUME TypeOK, MoneyInv, MoneyConserved, [Next]_vars,
                        NEW cur \in Currencies
                 PROVE  RunningTotal(balance', cur)[LastId] = RunningTotal(Opening, cur)[LastId]
      BY DEF MoneyConserved
    <2>1. ASSUME UNCHANGED balance
          PROVE  RunningTotal(balance', cur)[LastId] = RunningTotal(Opening, cur)[LastId]
      BY <2>1 DEF MoneyConserved
    <2>2. ASSUME NEW c \in Calls, Commit(c)
          PROVE  RunningTotal(balance', cur)[LastId] = RunningTotal(balance, cur)[LastId]
      <3>1. /\ Src(c) \in Wallets /\ Dst(c) \in Wallets /\ Amt(c) \in Int
            /\ \A w \in Wallets : balance[w] \in Int
        BY CommandType DEF TypeOK
      <3>2. Postable(c)
        BY <2>2 DEF Commit, MoneyInv, CommitInv
      <3>3. Currency[Src(c)] = Currency[Dst(c)] /\ \A w \in {Src(c), Dst(c)} : lock[w] = c
        BY <3>2 DEF Postable, Mismatch, Held
      <3>4. \A w \in {Src(c), Dst(c)} : seenBalance[c][w] = balance[w]
        BY <3>1, <3>3 DEF MoneyInv, LockInv
      <3>5. \A w \in Wallets : balance'[w] = balance[w] + (IF w = Dst(c) THEN Amt(c) ELSE 0)
                                                       - (IF w = Src(c) THEN Amt(c) ELSE 0)
        BY <2>2, <3>1, <3>4 DEF Commit, BalanceAfter
      <3>6. Moved(balance, balance', Src(c), Dst(c), Amt(c))
        BY <3>1, <3>3, <3>5 DEF Moved
      <3>7. QED
        BY <3>6, MoveKeepsTotal
    <2>3. QED
      BY <2>1, <2>2, QuietTables
      DEF Next, CreateWallet, tables, vars, MoneyConserved
  <1>3. QED
    BY <1>1, <1>2, TypeCorrect, MoneyInvariant, PTL DEF Spec
=============================================================================
