--------------------------- MODULE MCMCSDelivery ---------------------------
(* The instance TLC checks: two ordinary messages, one the client cannot   *)
(* decrypt, and one without persistent id.                                 *)
EXTENDS MCSDelivery

CONSTANTS m1, m2, bad, anon

MCMessages  == {m1, m2, bad, anon}
MCAnonymous == {anon}
MCBroken    == {bad}

=============================================================================
