------------------------- MODULE MCPaymentGateway -------------------------
(***************************************************************************)
(* Small instances of PaymentGateway.  A shape says which key, fingerprint *)
(* and payload each request carries:                                       *)
(*   single  one request, for races between it and the sweepers            *)
(*   retry   r1 and r2 are attempts of one client: one key, one cart       *)
(*   rival   r1 and r2 carry the same cart under two keys                  *)
(*   trio    r2 reuses r1's key for another cart, r3 is a rival of r1      *)
(***************************************************************************)
EXTENDS PaymentGateway, TLC

CONSTANTS r1, r2, r3, k1, k2, f1, f2, p1, p2

SingleKey == (r1 :> k1)
SingleFp == (r1 :> f1)
SinglePayload == (r1 :> p1)

RetryKey == (r1 :> k1) @@ (r2 :> k1)
RivalKey == (r1 :> k1) @@ (r2 :> k2)
SameFp == (r1 :> f1) @@ (r2 :> f1)
SamePayload == (r1 :> p1) @@ (r2 :> p1)

TrioKey == (r1 :> k1) @@ (r2 :> k1) @@ (r3 :> k2)
TrioFp == (r1 :> f1) @@ (r2 :> f2) @@ (r3 :> f1)
TrioPayload == (r1 :> p1) @@ (r2 :> p2) @@ (r3 :> p1)
=============================================================================
