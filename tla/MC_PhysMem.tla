----------------------------- MODULE MC_PhysMem -----------------------------
(* Model-checking instance of PhysMem: 4-byte pages in a 32-byte space, 2-byte ppage{}s.   *)
EXTENDS PhysMemLookupProofs, PhysMemTypeProofs

MC_PhysAddrs == {0, 3, 8, 14, 21, 31}

=============================================================================
