------------------------------ MODULE PitProofs ------------------------------
(***************************************************************************)
(* Proofs about the timer of Pit, for every value of the constants that   *)
(* satisfies Pit's assumptions: type correctness, the tick count staying  *)
(* below the rate, and the safety part of the refinement of AbsClock.     *)
(***************************************************************************)
EXTENDS Pit, TLAPS

USE HzAssumption, TickModAssumption, MaxTimeAssumption, SleepArgsAssumption,
    TimeModAssumption, MaxSetsAssumption

(* One more interrupt: the uint32_t increment wraps only at TICK_MOD. *)
LEMMA TickIncrement ==
  ASSUME NEW x \in 0 .. TICK_MOD - 1
  PROVE  (x + 1) % TICK_MOD = IF x + 1 < TICK_MOD THEN x + 1 ELSE 0
<1>1. CASE x + 1 < TICK_MOD
  BY <1>1
<1>2. CASE x + 1 = TICK_MOD
  BY <1>2
<1>3. QED
  BY <1>1, <1>2

(* A rate pit_set_freq() stores is 18 or above, and is one of Rates. *)
LEMMA TimerHzRange ==
  ASSUME NEW h \in HzChoices
  PROVE  TimerHz(h) \in Rates \ {0} /\ TimerHz(h) >= 18
<1>1. ReloadVal(h) # 0 => h > 18
  BY DEF ReloadVal
<1>2. QED
  BY <1>1 DEF TimerHz, Rates

(* Every element of Rates but 0 is at least 18. *)
LEMMA RatesBound ==
  ASSUME NEW r \in Rates \ {0}
  PROVE  r >= 18
BY DEF Rates, ReloadVal

(* The two branches of the ISR: a tick within the second, or the tick   *)
(* that completes it.                                                    *)
LEMMA IsrCases ==
  ASSUME Isr
  PROVE  /\ \/ /\ (timer_ticks + 1) % TICK_MOD = timer_hz
               /\ timer_ticks' = 1
               /\ system_time' = IF system_time < MaxTime THEN system_time + 1
                                                          ELSE MaxTime
            \/ /\ (timer_ticks + 1) % TICK_MOD # timer_hz
               /\ timer_ticks' = (timer_ticks + 1) % TICK_MOD
               /\ system_time' = system_time
         /\ irqs' = IF system_time < MaxTime THEN irqs + 1 ELSE irqs
         /\ UNCHANGED <<timer_hz, spc, sets, tpc, secs, wake, base, rtc>>
BY Zenon DEF Isr

-----------------------------------------------------------------------------
(* Each step of the timer keeps the types of PitTypeOK. *)
LEMMA PitTypeStep == PitTypeOK /\ [PitNext]_pitVars => PitTypeOK'
<1> SUFFICES ASSUME PitTypeOK, [PitNext]_pitVars PROVE PitTypeOK'
  OBVIOUS
<1>1. CASE Isr
  <2>1. timer_ticks \in 0 .. TICK_MOD - 1
    BY DEF PitTypeOK
  <2>2. timer_ticks' \in 0 .. TICK_MOD - 1
    BY <1>1, <2>1, IsrCases, TickIncrement
  <2>3. QED
    BY <1>1, <2>2, IsrCases DEF PitTypeOK
<1>2. CASE \E hz \in HzChoices : SetFreqHz(hz)
  BY <1>2, TimerHzRange DEF SetFreqHz, PitTypeOK
<1>3. CASE SetFreqReset
  BY <1>3 DEF SetFreqReset, PitTypeOK
<1>4. CASE SetFreqProgram
  BY <1>4 DEF SetFreqProgram, PitTypeOK
<1>5. CASE \E s \in SleepArgs : SleepCall(s)
  BY <1>5 DEF SleepCall, PitTypeOK
<1>6. CASE SleepReturn
  BY <1>6 DEF SleepReturn, PitTypeOK
<1>7. CASE InitUnixTime
  BY <1>7 DEF InitUnixTime, PitTypeOK
<1>8. CASE UNCHANGED pitVars
  BY <1>8 DEF pitVars, PitTypeOK
<1>9. QED
  BY <1>1, <1>2, <1>3, <1>4, <1>5, <1>6, <1>7, <1>8 DEF PitNext

(***************************************************************************)
(* Every state the timer, pit_set_freq() and timer_sleep() reach has the  *)
(* types of PitTypeOK: in particular timer_hz is never a rate the PIT     *)
(* cannot be programmed to, and timer_ticks stays a uint32_t.             *)
(***************************************************************************)
THEOREM PitTypeCorrect == PitSpec => []PitTypeOK
<1>1. Init => PitTypeOK
  BY DEF Init, PitTypeOK, Rates
<1>2. PitTypeOK /\ [PitNext]_pitVars => PitTypeOK'
  BY PitTypeStep
<1>3. QED
  BY <1>1, <1>2, PTL DEF PitSpec

-----------------------------------------------------------------------------
(***************************************************************************)
(* The inductive invariant behind NoTickOverrun.  Once pit_set_freq() has *)
(* stored a rate, the rate is at least 18, and outside the window between *)
(* its two assignments the count is below it.  The lower bound is needed: *)
(* the ISR restarts the count at 1, which is below timer_hz only when the *)
(* rate exceeds 1, and pit_set_freq() under way has counted itself.     *)
(***************************************************************************)
TickInv ==
  /\ PitTypeOK
  /\ spc # "idle" => sets > 0
  /\ sets > 0 => timer_hz >= 18
  /\ (sets > 0 /\ spc # "hzset") => timer_ticks < timer_hz

LEMMA TickInvStep == TickInv /\ [PitNext]_pitVars => TickInv'
<1> SUFFICES ASSUME TickInv, [PitNext]_pitVars PROVE TickInv'
  OBVIOUS
<1>1. PitTypeOK'
  BY PitTypeStep DEF TickInv
<1>2. CASE Isr
  <2>1. timer_hz \in Nat /\ timer_ticks \in 0 .. TICK_MOD - 1
    BY RatesBound DEF TickInv, PitTypeOK, Rates
  <2>2. (timer_ticks + 1) % TICK_MOD = IF timer_ticks + 1 < TICK_MOD
                                       THEN timer_ticks + 1 ELSE 0
    BY <2>1, TickIncrement
  <2>3. QED
    BY <1>1, <1>2, <2>1, <2>2, IsrCases DEF TickInv
<1>3. CASE \E hz \in HzChoices : SetFreqHz(hz)
  <2>1. PICK hz \in HzChoices : SetFreqHz(hz)
    BY <1>3
  <2>2. TimerHz(hz) >= 18 /\ sets \in Nat
    BY TimerHzRange DEF TickInv, PitTypeOK
  <2>3. QED
    BY <1>1, <2>1, <2>2 DEF SetFreqHz, TickInv
<1>4. CASE SetFreqReset
  <2>1. sets > 0 /\ timer_hz >= 18 /\ sets \in Nat
    BY <1>4 DEF SetFreqReset, TickInv, PitTypeOK
  <2>4. timer_hz \in Nat
    BY RatesBound DEF TickInv, PitTypeOK, Rates
  <2>2. timer_ticks' = 0 /\ timer_hz' = timer_hz /\ sets' = sets
        /\ spc' = "reset"
    BY <1>4 DEF SetFreqReset
  <2>3. QED
    BY <1>1, <2>1, <2>2, <2>4 DEF TickInv
<1>5. CASE SetFreqProgram
  BY <1>1, <1>5 DEF SetFreqProgram, TickInv
<1>6. CASE \E s \in SleepArgs : SleepCall(s)
  BY <1>1, <1>6 DEF SleepCall, TickInv
<1>7. CASE SleepReturn
  BY <1>1, <1>7 DEF SleepReturn, TickInv
<1>8. CASE InitUnixTime
  BY <1>1, <1>8 DEF InitUnixTime, TickInv
<1>9. CASE UNCHANGED pitVars
  BY <1>1, <1>9 DEF pitVars, TickInv
<1>10. QED
  BY <1>2, <1>3, <1>4, <1>5, <1>6, <1>7, <1>8, <1>9 DEF PitNext

(***************************************************************************)
(* Once pit_set_freq() has returned, timer_ticks is below timer_hz in     *)
(* every reachable state, whatever the rates, the wrap TICK_MOD and the   *)
(* interleaving of the ISR with pit_set_freq()'s two assignments.         *)
(***************************************************************************)
THEOREM NoTickOverrunCorrect == PitSpec => []NoTickOverrun
<1>1. Init => TickInv
  BY DEF Init, TickInv, PitTypeOK, Rates
<1>2. TickInv => NoTickOverrun
  BY DEF TickInv, NoTickOverrun
<1>3. QED
  BY <1>1, <1>2, TickInvStep, PTL DEF PitSpec

-----------------------------------------------------------------------------
(* timer_sleep() is only called with a non-negative number of seconds. *)
NoNegativeSleep == SleepArgs \subseteq Nat

(* Each step of the timer is a step of the abstract clock or a stutter. *)
LEMMA RefinementStep ==
  ASSUME NoNegativeSleep, PitTypeOK, [PitNext]_pitVars
  PROVE  [AC!Next]_AC!absVars
<1>1. CASE Isr
  <2>1. CASE system_time' = system_time + 1
    BY <1>1, <2>1, IsrCases DEF AC!Next, AC!Tick
  <2>2. CASE system_time' = system_time
    BY <1>1, <2>2, IsrCases DEF AC!absVars
  <2>3. QED
    BY <2>1, <2>2, <1>1, IsrCases DEF PitTypeOK
<1>2. CASE \E s \in SleepArgs : SleepCall(s)
  <2>1. PICK s \in SleepArgs : SleepCall(s)
    BY <1>2
  <2>2. s \in Nat /\ system_time + s < TIME_MOD
    BY <2>1 DEF NoNegativeSleep, SleepCall, PitTypeOK
  <2>3. wake' = system_time + s
    BY <2>1, <2>2 DEF SleepCall, PitTypeOK
  <2>4. QED
    BY <2>1, <2>2, <2>3 DEF SleepCall, PitTypeOK, AC!Next, AC!Sleep
<1>3. CASE SleepReturn
  BY <1>3 DEF SleepReturn, AC!Next, AC!Wake
<1>4. CASE (\E hz \in HzChoices : SetFreqHz(hz)) \/ SetFreqReset
           \/ SetFreqProgram \/ InitUnixTime \/ UNCHANGED pitVars
  BY <1>4 DEF SetFreqHz, SetFreqReset, SetFreqProgram, InitUnixTime, pitVars,
              AC!absVars
<1>5. QED
  BY <1>1, <1>2, <1>3, <1>4 DEF PitNext

(***************************************************************************)
(* For non-negative sleeps, every behaviour of the timer is, on           *)
(* system_time, the sleeping task and its wake_time, a behaviour of the   *)
(* abstract clock: seconds start at 0 and only ever go up by one, and     *)
(* timer_sleep() never returns before its wake time.  (The fairness half  *)
(* of AbsClockSpec is checked by TLC.)                                     *)
(***************************************************************************)
THEOREM PitRefinesAbsClock ==
  NoNegativeSleep => (PitSpec => AC!Init /\ [][AC!Next]_AC!absVars)
<1> SUFFICES ASSUME NoNegativeSleep
             PROVE  PitSpec => AC!Init /\ [][AC!Next]_AC!absVars
  OBVIOUS
<1>1. Init => AC!Init
  BY DEF Init, AC!Init
<1>2. PitTypeOK /\ [PitNext]_pitVars => [AC!Next]_AC!absVars
  BY RefinementStep
<1>3. QED
  BY <1>1, <1>2, PitTypeCorrect, PTL DEF PitSpec
=============================================================================
