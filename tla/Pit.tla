--------------------------------- MODULE Pit ---------------------------------
(***************************************************************************)
(* The programmable interval timer of src/sys/interrupt/pit.c: the timer  *)
(* interrupt handler ISR_HANDLER(32) counting timer_ticks and seconds     *)
(* (system_time), pit_set_freq() reprogramming the rate, the busy-wait    *)
(* timer_sleep() of a kernel task, and init_unix_time() reading the RTC.  *)
(*                                                                         *)
(* The ISR runs with interrupts disabled, so each run is one step.         *)
(* pit_set_freq() runs in a task with interrupts enabled until its cli(): *)
(* its assignments to timer_hz and to timer_ticks are separate steps and  *)
(* the ISR may run between them.  timer_ticks is a uint32_t and wraps     *)
(* modulo TICK_MOD.  system_time, a uint64_t that never wraps, saturates *)
(* at MaxTime, the model's horizon: the interrupt keeps firing after it,  *)
(* as the PIT does, and no sleep reaches past it.  Printing               *)
(* the seconds, unix_time.tv_sec (which only follows system_time), the EOI *)
(* and the time-slice accounting of the ISR are left out.                 *)
(***************************************************************************)
EXTENDS Integers

CONSTANTS
  HzChoices,   \* frequencies passed to pit_set_freq()
  TICK_MOD,    \* 2^32, the range of the uint32_t timer_ticks
  MaxTime,     \* bound on system_time
  SleepArgs,   \* int seconds passed to timer_sleep()
  TIME_MOD,    \* 2^64, the range of the uint64_t wake_time
  MaxSets,     \* bound on the number of pit_set_freq() calls
  RtcSamples   \* contents of the RTC registers init_unix_time() may read

ASSUME HzAssumption == HzChoices \subseteq Nat \ {0}
ASSUME TickModAssumption == TICK_MOD \in Nat /\ TICK_MOD > 1
ASSUME MaxTimeAssumption == MaxTime \in Nat
ASSUME SleepArgsAssumption == SleepArgs \subseteq Int
ASSUME TimeModAssumption == TIME_MOD \in Nat /\ MaxTime < TIME_MOD
ASSUME MaxSetsAssumption == MaxSets \in Nat

VARIABLES
  timer_ticks,  \* current count of timer IRQs
  timer_hz,     \* timer frequency the ISR counts a second by
  system_time,  \* seconds since boot
  spc,          \* where the task calling pit_set_freq() is
  sets,         \* number of pit_set_freq() calls made (bounded)
  tpc,          \* where the task calling timer_sleep() is
  secs,         \* timer_sleep()'s argument seconds
  wake,         \* timer_sleep()'s wake_time
  irqs,         \* ghost: ISR runs since timer_ticks was last zeroed,
                \* counted up to the horizon MaxTime
  base,         \* ghost: system_time when timer_ticks was last zeroed
  rtc           \* ghost: the RTC registers read and the fields decoded

pitVars == <<timer_ticks, timer_hz, system_time, spc, sets, tpc, secs, wake,
             irqs, base, rtc>>

PIT_FREQ == 1193182   \* input clock of the PIT in Hz
NoRtc == [done |-> FALSE]

(* reload_val = (uint16_t)(1193182 / hz), or 0 for hz <= 18. *)
ReloadVal(hz) == IF hz <= 18 THEN 0 ELSE (PIT_FREQ \div hz) % 65536

(* Seeded fault (mutation test of PitTypeOK): only the first assignment *)
(* timer_hz = hz, without the reload_val test.                           *)
TimerHzRaw(hz) == hz

(* timer_hz = reload_val ? hz : 18, the assignment that stands. *)
TimerHz(hz) == IF ReloadVal(hz) # 0 THEN hz ELSE 18

-----------------------------------------------------------------------------
Init ==
  /\ timer_ticks = 0
  /\ timer_hz = 0
  /\ system_time = 0
  /\ spc = "idle"
  /\ sets = 0
  /\ tpc = "user"
  /\ secs = 0
  /\ wake = 0
  /\ irqs = 0
  /\ base = 0
  /\ rtc = NoRtc

(***************************************************************************)
(* ISR_HANDLER(32): timer_ticks++; when it reaches timer_hz it restarts   *)
(* at 1 and a second is counted.                                           *)
(***************************************************************************)
Isr ==
  LET t == (timer_ticks + 1) % TICK_MOD
  IN /\ IF t = timer_hz
        THEN /\ timer_ticks' = 1
             /\ system_time' = IF system_time < MaxTime THEN system_time + 1
                                                     ELSE MaxTime
        ELSE /\ timer_ticks' = t
             /\ UNCHANGED system_time
     /\ irqs' = IF system_time < MaxTime THEN irqs + 1 ELSE irqs
     /\ UNCHANGED <<timer_hz, spc, sets, tpc, secs, wake, base, rtc>>

(* pit_set_freq(hz), lines up to timer_hz = reload_val ? hz : 18. *)
SetFreqHz(hz) ==
  /\ spc = "idle"
  /\ sets < MaxSets
  /\ timer_hz' = TimerHz(hz)
  /\ spc' = "hzset"
  /\ sets' = sets + 1
  /\ UNCHANGED <<timer_ticks, system_time, tpc, secs, wake, irqs, base, rtc>>

(* Seeded fault (mutation test of NoTickOverrun): timer_ticks not zeroed. *)
SetFreqNoReset ==
  /\ spc = "hzset"
  /\ spc' = "reset"
  /\ UNCHANGED <<timer_ticks, timer_hz, system_time, sets, tpc, secs, wake, irqs,
                 base, rtc>>

(* timer_ticks = 0; the ghosts restart the count of the new rate. *)
SetFreqReset ==
  /\ spc = "hzset"
  /\ timer_ticks' = 0
  /\ spc' = "reset"
  /\ irqs' = 0
  /\ base' = system_time
  /\ UNCHANGED <<timer_hz, system_time, sets, tpc, secs, wake, rtc>>

(* cli(); the reload value goes out to ports 0x43/0x40; sti(). *)
SetFreqProgram ==
  /\ spc = "reset"
  /\ spc' = "idle"
  /\ UNCHANGED <<timer_ticks, timer_hz, system_time, sets, tpc, secs, wake, irqs,
                 base, rtc>>

(* Seeded fault (mutation test of AbsClockSpec): wake_time = seconds. *)
SleepCallNoBase(s) ==
  /\ tpc = "user"
  /\ system_time + s <= MaxTime
  /\ secs' = s
  /\ wake' = s % TIME_MOD
  /\ tpc' = "spin"
  /\ UNCHANGED <<timer_ticks, timer_hz, system_time, spc, sets, irqs, base,
                 rtc>>

(***************************************************************************)
(* timer_sleep(seconds): wake_time = system_time + seconds, the int       *)
(* seconds converted to uint64_t, so the sum is taken modulo TIME_MOD.    *)
(* Sleeps reaching past the horizon MaxTime are not explored.             *)
(***************************************************************************)
SleepCall(s) ==
  /\ tpc = "user"
  /\ system_time + s <= MaxTime
  /\ secs' = s
  /\ wake' = (system_time + s) % TIME_MOD
  /\ tpc' = "spin"
  /\ UNCHANGED <<timer_ticks, timer_hz, system_time, spc, sets, irqs, base,
                 rtc>>

(* Seeded fault (mutation test of SleepReturns): system_time read once,  *)
(* at the call, as a compiler may do for a counter not declared volatile. *)
SleepReturnStale ==
  /\ tpc = "spin"
  /\ wake <= wake - secs
  /\ tpc' = "user"
  /\ UNCHANGED <<timer_ticks, timer_hz, system_time, spc, sets, secs, wake, irqs,
                 base, rtc>>

(* while(system_time < wake_time); re-reads the volatile system_time. *)
SleepReturn ==
  /\ tpc = "spin"
  /\ wake <= system_time
  /\ tpc' = "user"
  /\ UNCHANGED <<timer_ticks, timer_hz, system_time, spc, sets, secs, wake, irqs,
                 base, rtc>>

(* BCD_TO_BIN (in a header outside src/): two decimal digits per byte. *)
BcdToBin(v) == (v \div 16) * 10 + (v % 16)

(***************************************************************************)
(* read_rtc_time(): after an RTC update cycle, read the six registers,    *)
(* translate them from BCD unless register B says binary, add 2011 to the *)
(* year.  The year is read from the RTC_MONTH register.  mktime() (outside *)
(* src/) is left out: the fields are what this code computes.             *)
(***************************************************************************)
RtcDecode(r, v) == IF r.binary THEN v ELSE BcdToBin(v)
ReadRtcTime(r) ==
  [sec |-> RtcDecode(r, r.sec), min |-> RtcDecode(r, r.min),
   hour |-> RtcDecode(r, r.hour), day |-> RtcDecode(r, r.day),
   month |-> RtcDecode(r, r.month), year |-> RtcDecode(r, r.month) + 2011]

(* init_unix_time(): unix_time from the RTC. *)
InitUnixTime ==
  /\ ~rtc.done
  /\ \E r \in RtcSamples :
       rtc' = [done |-> TRUE, regs |-> r, fields |-> ReadRtcTime(r)]
  /\ UNCHANGED <<timer_ticks, timer_hz, system_time, spc, sets, tpc, secs,
                 wake, irqs, base>>

PitNext ==
  \/ Isr
  \/ \E hz \in HzChoices : SetFreqHz(hz)
  \/ SetFreqReset \/ SetFreqProgram
  \/ \E s \in SleepArgs : SleepCall(s)
  \/ SleepReturn
  \/ InitUnixTime

(***************************************************************************)
(* The PIT raises IRQ 0 for as long as interrupts are enabled (they are   *)
(* outside the ISR and the cli()/sti() bracket), and the spinning task,   *)
(* a kernel task preempted by the time slice, keeps being scheduled.      *)
(***************************************************************************)
PitFairness == WF_pitVars(Isr) /\ WF_pitVars(SleepReturn)

PitSpec == Init /\ [][PitNext]_pitVars /\ PitFairness

-----------------------------------------------------------------------------
(* The rates the ISR may count by: 0 before any pit_set_freq(). *)
Rates == {0, 18} \cup {h \in HzChoices : ReloadVal(h) # 0}

(* Type invariant.  timer_hz is only ever 0, 18 or a rate the PIT can be *)
(* programmed to: pit_set_freq() falls back to 18 Hz for a zero reload.   *)
PitTypeOK ==
  /\ timer_ticks \in 0 .. TICK_MOD - 1
  /\ timer_hz \in Rates
  /\ system_time \in 0 .. MaxTime
  /\ spc \in {"idle", "hzset", "reset"}
  /\ sets \in 0 .. MaxSets
  /\ tpc \in {"user", "spin"}
  /\ secs \in SleepArgs \cup {0}
  /\ wake \in 0 .. TIME_MOD - 1
  /\ irqs \in Nat
  /\ base \in 0 .. MaxTime

(***************************************************************************)
(* Once pit_set_freq() has returned, timer_ticks is below timer_hz, so    *)
(* the equality test of the ISR is met within timer_hz interrupts and the *)
(* seconds keep coming.  pit_set_freq() lowers timer_hz before it zeroes  *)
(* timer_ticks, with interrupts enabled in between: without the reset a   *)
(* count above the new rate would run to the 2^32 wrap.                   *)
(***************************************************************************)
NoTickOverrun == (spc = "idle" /\ sets > 0) => timer_ticks < timer_hz

(***************************************************************************)
(* timer_sleep() returns: the interrupt advances system_time to the wake  *)
(* time and the spinning loop, re-reading the volatile counter, sees it.  *)
(***************************************************************************)
SleepReturns == (tpc = "spin") ~> (tpc = "user")

(***************************************************************************)
(* system_time counts seconds since boot: with the PIT raising timer_hz   *)
(* interrupts a second, after pit_set_freq() has zeroed the count every   *)
(* timer_hz interrupts make one more second.                               *)
(***************************************************************************)
ClockRate ==
  (spc = "idle" /\ sets > 0) => system_time - base = irqs \div timer_hz

-----------------------------------------------------------------------------
(***************************************************************************)
(* pit.c implements the abstract clock: system_time is the clock, the     *)
(* timer_sleep() caller is the sleeper and wake_time its wake time.  The  *)
(* ISR's ticks within a second, pit_set_freq() and the RTC read are       *)
(* stutters of the clock; the ISR that completes a second is Tick.        *)
(***************************************************************************)
AC == INSTANCE AbsClock WITH time <- system_time, sleeper <- tpc, wake <- wake

(* The timer keeps the abstract clock's promises: seconds only move       *)
(* forward by one, timer_sleep() returns no earlier than its wake time,   *)
(* and it returns.                                                         *)
AbsClockSpec == AC!Spec
=============================================================================
