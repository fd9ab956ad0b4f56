------------------------------ MODULE MC_PZone ------------------------------
(* Model-checking instance of PZone and of the invariant IInv of its     *)
(* proofs: 2-byte pages in a 16-byte space, addresses that satisfy NoWrap. *)
EXTENDS PZoneProofs

MC_PhysAddrs == {0, 1, 4, 7, 10, 14}

(* 4-byte pages: 13 and 15 lie in the last, partial page of the space, so *)
(* ALIGN_UP(13) wraps to 0 and pzone_new() bumps the start to one page.   *)
MC_WrapAddrs == {3, 8, 13, 15}

=============================================================================
