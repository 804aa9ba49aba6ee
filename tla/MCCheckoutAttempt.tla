-------------------------- MODULE MCCheckoutAttempt ---------------------------
(***************************************************************************)
(* Two taps on the payment screen, each with a cart of its own, and two    *)
(* submissions of the shortfall dialog, all under one attempt id.          *)
(***************************************************************************)
EXTENDS CheckoutAttempt, TLC

CONSTANTS first, second, dialog, again

\* The two taps are alike, and so are the two submissions of the dialog
Alike == Permutations(Tap) \cup Permutations(Dialog)

=============================================================================
