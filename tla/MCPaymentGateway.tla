--------------------------- MODULE MCPaymentGateway ---------------------------
(***************************************************************************)
(* PaymentGateway with two top-up calls that may share a key, one retry of *)
(* every acquirer request and two attempts to deliver a settlement: up to  *)
(* four webhook requests of one payment run at once.                       *)
(***************************************************************************)
EXTENDS PaymentGateway, TLC

Symmetry == Permutations(Topups)
=============================================================================
