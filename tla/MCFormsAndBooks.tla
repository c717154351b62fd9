---------------------------- MODULE MCFormsAndBooks ----------------------------
(***************************************************************************)
(* PageForms and Bookkeeping in one run: what users may ask for, and what  *)
(* is left of what they asked for.  A form tells only kinds of amounts     *)
(* apart and the books their digits, so the two are not interleaved: a     *)
(* behaviour is one of the forms or one of the books.                      *)
(*                                                                         *)
(* The forms: a user with a wallet in dollars and one in euros, and        *)
(* somebody else's in dollars.  The books: two users with wallets in       *)
(* dollars, one of them with one in euros too, the accounts of both        *)
(* currencies, and calls that tell the amounts and refusals apart.         *)
(***************************************************************************)
EXTENDS Bookkeeping, PageForms

CONSTANTS
    m1, m2, o1,
    ann, bob, a, b, e, fund, clear, fundE, clearE, k1, k2, long, c1

Denominations == [w \in {m1, m2, o1} |-> IF w = m2 THEN "EUR" ELSE "USD"]

Accounts == {a, b, e, fund, clear, fundE, clearE}
Currency == [w \in Accounts |-> IF w \in {e, fundE, clearE} THEN "EUR" ELSE "USD"]
Owner == [w \in Accounts |-> CASE w \in {a, e} -> ann [] w = b -> bob [] OTHER -> None]
FundingOf == [c \in {"USD", "EUR"} |-> IF c = "USD" THEN fund ELSE fundE]
ClearingOf == [c \in {"USD", "EUR"} |-> IF c = "USD" THEN clear ELSE clearE]

Body(key, src, dst, amount, caller) ==
    [key |-> key, src |-> src, dst |-> dst, amount |-> amount, remark |-> "none",
     currency |-> "USD", caller |-> caller]

SomeTransfers ==
    {Body(k1, a, b, 15, ann), Body(k2, a, b, 26, ann), Body(k2, b, a, 10, bob),
     Body(k2, a, b, 4, ann), Body(k1, a, b, 15, bob), Body(k1, a, e, 15, ann),
     Body(k2, a, a, 10, ann), Body(long, a, b, 10, ann),
     [Body(k1, a, b, 10, ann) EXCEPT !.remark = "long"]}

SomeDeposits ==
    {Body(k1, a, a, 25, bob), Body(k2, b, b, 75, bob), Body(k1, a, a, 4, bob),
     Body(k1, a, a, 10, ann), [Body(k1, e, e, 10, bob) EXCEPT !.currency = "JPY"]}

SomeTopUps ==
    {[wallet |-> a, amount |-> x, currency |-> "USD"] : x \in {4, 17, 25}}
      \cup {[wallet |-> e, amount |-> 17, currency |-> c] : c \in {"USD", "EUR"}}

VARIABLE half

MCInit == half \in {"forms", "books"} /\ Init /\ FormsInit

Browser == half = "forms" /\ FormsNext /\ UNCHANGED <<half, vars>>
Services == half = "books" /\ Next /\ UNCHANGED <<half, formsVars>>

MCSpec == MCInit /\ [][Browser \/ Services]_<<half, vars, formsVars>>
=============================================================================
