----------------------------- MODULE MCWalletCore -----------------------------
(***************************************************************************)
(* WalletCore on a small instance: the USD clearing account 1 and funding  *)
(* account 2, Ann's wallet 3, Bob's wallet 4 (opened during the run) and   *)
(* Eve's wallets 5 (USD) and 6 (EUR).                                      *)
(***************************************************************************)
EXTENDS WalletCore, TLC

CONSTANTS c1, c2, c3

MCWallets == 1..6
MCSystemWallets == {1, 2}
MCExisting == {1, 2, 3, 5, 6}
MCOpening == <<0, -3, 3, 0, 0, 0>>
MCCurrency == <<"USD", "USD", "USD", "USD", "USD", "EUR">>
MCOwner == <<"nobody", "nobody", "ann", "bob", "eve", "eve">>
MCFunding == [cur \in {"USD"} |-> 2]
MCClearing == [cur \in {"USD"} |-> 1]

Request(key, src, dst, amt, cur, caller) ==
    [op |-> "transfer", key |-> key, src |-> src, dst |-> dst, amt |-> amt,
     cur |-> cur, caller |-> caller]

\* Ann pays Bob 2 of her 3, under k1 and again under k2; Bob pays Ann; k1 is reused
\* for another amount; one request crosses currencies, one pays itself,
\* and one is for less than the smallest amount.
AnnPaysBob == Request("k1", 3, 4, 2, "USD", "ann")
AnnPaysBobAgain == Request("k2", 3, 4, 2, "USD", "ann")
BobPaysAnn == Request("k3", 4, 3, 1, "USD", "bob")
KeyReused == Request("k1", 3, 4, 1, "USD", "ann")
CrossCurrency == Request("k3", 3, 6, 1, "USD", "ann")
ToItself == Request("k3", 3, 3, 1, "USD", "ann")
RoundsToZero == Request("k3", 3, 5, 0, "USD", "ann")

\* A deposit for Eve under the key of Ann's transfer: same key, no row in common.
FundEve == [key |-> "k1", dst |-> 5, amt |-> 1, cur |-> "USD", caller |-> "root"]

TopUpBob == [key |-> "p1", dst |-> 4, amt |-> 1, cur |-> "USD"]
TopUpMismatch == [key |-> "p2", dst |-> 6, amt |-> 1, cur |-> "USD"]

AllTransfers ==
    {AnnPaysBob, AnnPaysBobAgain, BobPaysAnn, KeyReused, CrossCurrency, ToItself,
     RoundsToZero}
AllDeposits == {FundEve}
AllEvents == {TopUpBob, TopUpMismatch}

\* Smaller choices for the runs that ask one question.
OpposingTransfers == {AnnPaysBob, BobPaysAnn}
DuplicateTransfers == {AnnPaysBob}
ConflictingTransfers == {AnnPaysBob, KeyReused}
OneTopUp == {TopUpBob}
Nothing == {}

Symmetry == Permutations(Calls)
=============================================================================
