-------------------------------- MODULE MC_Pit --------------------------------
(* Model-checking instance of the PIT. *)
EXTENDS Pit

\* Two RTC readings in BCD: 2015-03-09 12:30:45 and 2024-12-31 23:59:58.
MC_RtcSamples ==
  {[sec |-> 69, min |-> 48, hour |-> 18, day |-> 9, month |-> 3, year |-> 21,
    binary |-> FALSE],
   [sec |-> 88, min |-> 89, hour |-> 35, day |-> 49, month |-> 18, year |-> 36,
    binary |-> FALSE]}

=============================================================================
