\* ClockRate: expected to be violated by pit.c.
CONSTANTS
  HzChoices = {1, 20, 1193183}
  TICK_MOD = 32
  MaxTime = 2
  SleepArgs = {0, 1, 2}
  TIME_MOD = 8
  MaxSets = 2
  RtcSamples <- MC_RtcSamples
SPECIFICATION PitSpec
INVARIANT ClockRate
