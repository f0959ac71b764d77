------------------------------ MODULE SwTimer -------------------------------
(***************************************************************************)
(* SwTimer.c and the Lua library over it (lext_timerlib.c): times are 64   *)
(* bits, but tic captures its time in a variable of 32, and the library    *)
(* cuts the elapsed time to 32 bits before it divides.  Half is the modulus*)
(* of the short type and Full that of the long one.                        *)
(***************************************************************************)
EXTENDS Integers

CONSTANTS Half, Full, Thousand

\* What SwTimer_tic leaves in capture, at a time.
Tic(now) == now % Half

\* DELTA, of 64 bits.
Delta(count, ref) == (count - ref) % Full

\* SwTimer_toc
Toc(now, capture) == Delta(now, capture)

\* Mutant: the time is divided before it is cut.
Mut_LuaToc(now, capture) == (Toc(now, capture) \div Thousand) % Half

\* timer_toc of Lua, in milliseconds.
LuaToc(now, capture) == (Toc(now, capture) % Half) \div Thousand

\* SwTimer_setUs and SwTimer_test: the state a timer is in after a test.
SetUs(now, us) == [state |-> "running", capture |-> now, delay |-> us]

Test(swt, now) ==
  IF swt.state = "running" /\ Delta(now, swt.capture) >= swt.delay
    THEN [swt EXCEPT !.state = "expired"] ELSE swt

\* What SwTimer_test returns: also for a timer that was never set.
Expired(swt, now) == Test(swt, now).state # "running"

\* A script measures a time exactly, however long the device has been running: the
\* time is cut to 32 bits twice, by tic and by the library, and the two cancel out,
\* as long as what is measured itself fits.  (For C callers SwTimer_toc is right only
\* if tic came in the first 2^32 microseconds.)
ElapsedIsExact(start, elapsed) ==
  LET now == start + elapsed
  IN /\ elapsed < Half => LuaToc(now, Tic(start)) = elapsed \div Thousand
     /\ start < Half => Toc(now, Tic(start)) = elapsed

\* A timer that was set runs out when its delay has passed, not before, and then stays
\* so: sleepUs, which spins on it, ends.
RunsOutOnce(start, elapsed, us) ==
  LET swt == SetUs(start, us)
      then == Test(swt, start + elapsed)
  IN /\ Expired(swt, start + elapsed) <=> elapsed >= us
     /\ elapsed >= us => Expired(then, start)
=============================================================================
