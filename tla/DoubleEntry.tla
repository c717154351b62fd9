----------------------------- MODULE DoubleEntry -----------------------------
(***************************************************************************)
(* What wallet-service promises about money, with no threads, locks or     *)
(* retries in sight: money moves between two wallets in one indivisible    *)
(* step, a business operation (an Idempotency-Key or a card payment id)    *)
(* moves money at most once, and a wallet a user opened never goes below   *)
(* zero.  WalletCore is shown to implement this specification.             *)
(***************************************************************************)
EXTENDS Integers

CONSTANTS
    Wallets,        \* wallet ids
    Movements,      \* the movements that may be asked for: [op, src, dst, amt], where
                    \* op is the business operation, an idempotency key or payment id
    OpeningKind,    \* "SYSTEM", "USER" or "NONE" (no such wallet yet), per wallet
    Opening         \* balance of each wallet when the story starts

VARIABLES
    kind,           \* kind of each wallet, "NONE" until it is opened
    balance,        \* balance of each wallet
    moves           \* the movements that took place

vars == <<kind, balance, moves>>

Init ==
    /\ kind = OpeningKind
    /\ balance = Opening
    /\ moves = {}

\* A user opens a wallet.
Open(w) ==
    /\ kind[w] = "NONE"
    /\ kind' = [kind EXCEPT ![w] = "USER"]
    /\ UNCHANGED <<balance, moves>>

\* The balance of w after movement m.
After(w, m) ==
    balance[w] + (IF w = m.dst THEN m.amt ELSE 0) - (IF w = m.src THEN m.amt ELSE 0)

\* Movement m takes place: the first and only one of its operation.
Move(m) ==
    /\ \A n \in moves : n.op # m.op
    /\ kind[m.src] # "NONE" /\ kind[m.dst] # "NONE"
    /\ m.amt > 0
    /\ kind[m.src] = "USER" => balance[m.src] >= m.amt
    /\ balance' = [w \in Wallets |-> After(w, m)]
    /\ moves' = moves \cup {m}
    /\ UNCHANGED kind

Next ==
    \/ \E w \in Wallets : Open(w)
    \/ \E m \in Movements : Move(m)

Spec == Init /\ [][Next]_vars
=============================================================================
