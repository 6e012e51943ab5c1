--------------------------- MODULE MCBookingSaga ---------------------------
(* Model-checking instances of BookingSaga: model values for the sessions  *)
(* and the offers.                                                         *)
EXTENDS BookingSaga

CONSTANTS s1, o1, o2

OneSession == {s1}
OneOffer == {o1}
TwoOffers == {o1, o2}
=============================================================================
