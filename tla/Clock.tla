------------------------------- MODULE Clock -------------------------------
(***************************************************************************)
(* Time: the real-time clock that is read while it runs (devices/rtc.c),   *)
(* the counter of the interval timer (devices/pit.c), and the calibration  *)
(* and the delays of devices/timer.c.                                      *)
(***************************************************************************)
EXTENDS Calls

CONSTANTS
  Radix,         \* the registers of the clock, the fastest (seconds) first: values of each
  LastMoment,    \* bound: the clock is watched up to here
  PassTicks,     \* bound: updates of the clock while the registers are read once
  PIT_HZ, TIMER_FREQ,
  THOUSAND,      \* 1000 in the code: units are scaled down by it
  FIRST_LOOPS,   \* where the calibration starts; 2^10 in the code
  REFINED        \* the bits below the highest that it stops before; 10 in the code

\* The registers are read in less than a turn of the fastest of them: six reads, a minute.
\* An update of the clock takes time, and what a register shows meanwhile is that of before or
\* that of after the update.
ASSUME ClockAssumption ==
  /\ Radix \in Seq(Nat \ {0}) /\ Radix # <<>>
  /\ {LastMoment, PassTicks} \subseteq Nat /\ PassTicks < Radix[1]

VARIABLES
  moment,     \* what time it is
  updating,   \* the registers are being set to the next moment (RTCSA_UIP)
  reading,    \* the registers that have been read in this pass
  began,      \* when the pass began
  stable,     \* the loop has ended
  midway      \* history: some read of this pass was made in the middle of an update

rtcVars == <<moment, updating, reading, began, stable, midway>>

\* The registers at time t, in BCD.
bcd(x) == ((x \div 10) * 16) + (x % 10)
bcd_to_bin(x) == (x % 16) + ((x \div 16) * 10)
\* Register k changes every lasts[k].
lasts[k \in 1 .. Len(Radix)] == IF k = 1 THEN 1 ELSE lasts[k - 1] * Radix[k - 1]
register(t, k) == bcd((t \div lasts[k]) % Radix[k])
-----------------------------------------------------------------------------
StartUpdate ==
  /\ ~updating /\ moment < LastMoment /\ moment < began + PassTicks
  /\ updating' = TRUE
  /\ UNCHANGED <<moment, reading, began, stable, midway>>

EndUpdate ==
  /\ updating /\ updating' = FALSE
  /\ moment' = moment + 1
  /\ UNCHANGED <<reading, began, stable, midway>>

\* What register k may show.  rtc.c never asks whether an update is in progress.
Showing(k) == {register(t, k) : t \in moment .. IF updating THEN moment + 1 ELSE moment}

cmos_read ==
  LET k == Len(reading) + 1
  IN  /\ ~stable /\ k <= Len(Radix)
      /\ \E byte \in Showing(k) : reading' = Append(reading, bcd_to_bin(byte))
      /\ began' = IF k = 1 THEN moment ELSE began
      /\ midway' = (midway \/ updating)
      /\ UNCHANGED <<moment, updating, stable>>

\* Mutant: the seconds are not read again.
not_compared(sec) == TRUE
same_second(sec) == sec = reading[1]

\* The seconds are read again: when they have changed, everything is.
rtc_get_time ==
  /\ ~stable /\ Len(reading) = Len(Radix)
  /\ \E byte \in Showing(1) :
       IF same_second(bcd_to_bin(byte))
       THEN stable' = TRUE /\ midway' = (midway \/ updating) /\ UNCHANGED <<reading, began>>
       ELSE reading' = <<>> /\ began' = moment /\ midway' = FALSE /\ UNCHANGED stable
  /\ UNCHANGED <<moment, updating>>

RtcInit ==
  /\ moment \in 0 .. LastMoment /\ updating = FALSE
  /\ reading = <<>> /\ began = moment /\ stable = FALSE /\ midway = FALSE
RtcNext == StartUpdate \/ EndUpdate \/ cmos_read \/ rtc_get_time
RtcSpec == RtcInit /\ [][RtcNext]_rtcVars
-----------------------------------------------------------------------------
\* pit_configure_channel: 0 stands for 65536.
pit_count(frequency) ==
  IF frequency < 19 THEN 0 ELSE IF frequency > PIT_HZ THEN 2 ELSE (PIT_HZ + frequency \div 2) \div frequency

\* timer_calibrate on a machine on which a tick lasts `limit' loops.
too_many_loops(loops, limit) == loops > limit
greatest_power(limit) ==
  LET from[loops \in Nat] == IF too_many_loops(loops * 2, limit) THEN loops ELSE from[loops * 2]
  IN  from[FIRST_LOOPS]
refine(high_bit, limit) ==
  LET from[loops, test_bit \in Nat] ==
        IF test_bit = high_bit \div 2 ^ REFINED THEN loops
        ELSE from[IF too_many_loops(high_bit + test_bit, limit) THEN loops ELSE loops + test_bit, test_bit \div 2]
  IN  from[high_bit, high_bit \div 2]
timer_calibrate(limit) == refine(greatest_power(limit), limit)

\* timer_msleep, timer_usleep and timer_nsleep, and the delays of the same units.
units == {THOUSAND, THOUSAND ^ 2, THOUSAND ^ 3}

\* real_time_sleep and real_time_delay of num/denom seconds: ticks, or loops of busy waiting.
real_time_sleep(num, denom, loops_per_tick) ==
  LET ticks == (num * TIMER_FREQ) \div denom
  IN  IF ticks > 0 THEN [ticks |-> ticks, loops |-> 0]
      ELSE [ticks |-> 0,
            loops |-> (((loops_per_tick * num) \div THOUSAND) * TIMER_FREQ) \div (denom \div THOUSAND)]
-----------------------------------------------------------------------------
ClockFns == {"pit", "calibrate", "sleep"}
ClockInit ==
  \/ fn = "pit" /\ arg \in (1 .. 40) \union {100, 1000, 20000, PIT_HZ \div 2, (2 * PIT_HZ) \div 3,
                                              (2 * PIT_HZ) \div 3 + 1, 1000000, PIT_HZ, PIT_HZ + 1}
  \/ fn = "calibrate" /\ arg \in FIRST_LOOPS .. 16 * FIRST_LOOPS
  \/ fn = "sleep" /\ arg \in (0 .. 20) \X units \X {40, 100, 333}

ClockRun ==
  CASE fn = "pit" -> pit_count(arg)
    [] fn = "calibrate" -> timer_calibrate(arg)
    [] fn = "sleep" -> real_time_sleep(arg[1], arg[2], arg[3])

ClockCall == Answers(ClockFns, ClockRun)
-----------------------------------------------------------------------------
Registers(t) == [k \in DOMAIN Radix |-> bcd_to_bin(register(t, k))]

\* What the loop of rtc_get_time ends with is what the clock showed at one moment, although it
\* runs on between the reads of its registers, as long as none of them is made in the middle
\* of an update (rtc.c, the comment in rtc_get_time).
ReadingIsAMoment == stable /\ ~midway => \E t \in began .. moment : reading = Registers(t)

\* The same also for reads in the middle of an update, which is what the comment gives as the
\* purpose of the loop (rtc.c:55-59).  The loop compares the seconds alone: when they have
\* changed already and the minutes have not, it ends.
ReadingIsATime ==
  stable => \E t \in began .. IF updating THEN moment + 1 ELSE moment : reading = Registers(t)

\* The count is that nearest to the frequency, also where that is 1 (see CountLegal), and is
\* forced to 65536 or 2 for what is out of range; the calibration finds at least what a tick
\* lasts, down to the bits it tests, and less than twice that; a sleep is as many ticks as fit
\* in the time, and what is shorter than a tick is waited for, no longer than asked.
ClockRight ==
  answer # <<>> /\ fn \in ClockFns =>
    LET a == answer[1]
    IN  CASE fn = "pit" ->
               LET count == IF a = 0 THEN 65536 ELSE a   off == count * arg - PIT_HZ
               IN  CASE arg < 19 -> count = 65536
                     [] arg > PIT_HZ -> count = 2
                     [] OTHER -> count \in 1 .. 65535 /\ 2 * off <= arg /\ -2 * off <= arg
          [] fn = "calibrate" ->
               LET unit == 2 ^ (CHOOSE n \in 0 .. 30 : 2 ^ n <= arg /\ arg < 2 ^ (n + 1))
                   tested == unit \div 2 ^ (REFINED - 1)
               IN  (arg \div tested) * tested <= a /\ a < 2 * unit
          [] fn = "sleep" ->
               LET exact == arg[3] * TIMER_FREQ * arg[1]
               IN  /\ a.ticks * arg[2] <= arg[1] * TIMER_FREQ /\ arg[1] * TIMER_FREQ < (a.ticks + 1) * arg[2]
                   /\ a.ticks = 0 => /\ a.loops * arg[2] <= exact /\ a.loops <= arg[3]
                                     /\ exact < (a.loops + 1) * arg[2] + TIMER_FREQ * THOUSAND

\* "A count of 1 is illegal in mode 2, so we force it to 2" (pit.c:67-71).  The test in front of
\* it asks only for a frequency above PIT_HZ: for the upper third of those below, it is 1.
CountLegal == answer # <<>> /\ fn = "pit" => answer[1] # 1
=============================================================================
