------------------------------ MODULE TimedRead ------------------------------
(***************************************************************************)
(* readtimed(), waitfdtimed(), gettimeout() and add2currenttime() of       *)
(* restart_lib-Robbins.c: wait for input until a deadline, through any     *)
(* number of interruptions.  A time is a pair <<tv_sec, tv_usec>>.         *)
(***************************************************************************)
EXTENDS Integers, Sequences

CONSTANTS MILLION,     \* units of a second
          MaxTime      \* bound: units that pass

\* The values the constants may have.
TimedReadAssumption == MILLION \in Nat \ {0} /\ MaxTime \in Nat

VARIABLES now,       \* the clock, in units
          end,       \* the deadline
          timeout,   \* what select() gets
          since,     \* when select() was called
          data,      \* input is available
          taken,     \* another reader has taken the input that select() reported
          pc,        \* "start", "gettimeout", "select", "read" or "returned"
          ret        \* "none", "data", "ETIME" or "error"

vars == <<now, end, timeout, since, data, taken, pc, ret>>

Units(t) == t[1] * MILLION + t[2]
Time(u) == <<u \div MILLION, u % MILLION>>

Init ==
  /\ now \in 0..(MILLION - 1)
  /\ end = <<0, 0>> /\ timeout = <<0, 0>> /\ since = 0
  /\ data = FALSE /\ taken = FALSE /\ pc = "start" /\ ret = "none"

\* The two corrections of the sum and of the difference of two times.
CarryUp(t) == IF t[2] >= MILLION THEN <<t[1] + 1, t[2] - MILLION>> ELSE t
CarryDown(t) == IF t[2] < 0 THEN <<t[1] - 1, t[2] + MILLION>> ELSE t

\* add2currenttime(): the fraction of a second, rounded, may be a whole one.
Add(t, s) == CarryUp(<<t[1] + s[1], t[2] + s[2]>>)

\* The deadline is computed; waitfdtimed() refuses a descriptor outside a fd_set.
Start ==
  /\ pc = "start"
  /\ \E s \in (0..1) \X (0..MILLION) : end' = Add(Time(now), s)
  /\ \/ pc' = "gettimeout" /\ UNCHANGED ret
     \/ pc' = "returned" /\ ret' = "error"
  /\ UNCHANGED <<now, timeout, since, data, taken>>

\* Mutant of Difference: the borrow is forgotten.
Difference_NoBorrow(t, u) == CarryUp(<<t[1] - u[1], t[2] - u[2]>>)

Difference(t, u) == CarryDown(CarryUp(<<t[1] - u[1], t[2] - u[2]>>))

\* Mutant of Expired: only an exact hit counts.
Expired_Never(d) == d[1] = 0 /\ d[2] = 0

\* gettimeout() fails when nothing is left of the time.
Expired(d) == d[1] < 0 \/ (d[1] = 0 /\ d[2] = 0)

\* The call of gettimeout() before every select().
Gettimeout ==
  /\ pc = "gettimeout"
  /\ timeout' = Difference(end, Time(now))
  /\ IF Expired(timeout')
       THEN pc' = "returned" /\ ret' = "ETIME" /\ UNCHANGED since
       ELSE pc' = "select" /\ since' = now /\ UNCHANGED ret
  /\ UNCHANGED <<now, end, data, taken>>

\* Mutant of SelectReturns: the timeout is not told from input.
SelectReturns_Any ==
  /\ pc = "select" /\ (data \/ now >= since + Units(timeout))
  /\ pc' = "read" /\ UNCHANGED ret
  /\ UNCHANGED <<now, end, timeout, since, data, taken>>

\* select() returns with input, or 0 when the timeout has passed.
SelectReturns ==
  /\ pc = "select"
  /\ \/ data /\ pc' = "read" /\ UNCHANGED ret
     \/ ~ data /\ now >= since + Units(timeout) /\ pc' = "returned" /\ ret' = "ETIME"
  /\ UNCHANGED <<now, end, timeout, since, data, taken>>

\* Mutant of Interrupted: select() is called again with the same timeout.
Interrupted_Same ==
  /\ pc = "select" /\ since' = now
  /\ UNCHANGED <<now, end, timeout, data, taken, pc, ret>>

\* EINTR: the timeout is computed again.
Interrupted ==
  /\ pc = "select" /\ pc' = "gettimeout"
  /\ UNCHANGED <<now, end, timeout, since, data, taken, ret>>

\* Any other error of select() or of read().
Error ==
  /\ pc \in {"select", "read"} /\ pc' = "returned" /\ ret' = "error"
  /\ UNCHANGED <<now, end, timeout, since, data, taken>>

\* r_read() of readtimed(): it waits until there is input, and starts again when it
\* is interrupted.
Read ==
  /\ pc = "read" /\ data
  /\ pc' = "returned" /\ ret' = "data" /\ data' = FALSE
  /\ UNCHANGED <<now, end, timeout, since, taken>>

\* The surroundings: input arrives, another reader of the same file takes it, also
\* between the select() and the read(), and time passes.
Arrive ==
  /\ ~ data /\ pc # "returned" /\ data' = TRUE
  /\ UNCHANGED <<now, end, timeout, since, taken, pc, ret>>

Taken ==
  /\ data /\ pc # "returned" /\ data' = FALSE
  /\ taken' = (taken \/ pc = "read")
  /\ UNCHANGED <<now, end, timeout, since, pc, ret>>

Tick ==
  /\ now < MaxTime /\ pc \notin {"start", "returned"} /\ now' = now + 1
  /\ UNCHANGED <<end, timeout, since, data, taken, pc, ret>>

Code == Start \/ Gettimeout \/ SelectReturns \/ Read
Next == Code \/ Interrupted \/ Error \/ Arrive \/ Taken \/ Tick

Spec == Init /\ [][Next]_vars

-----------------------------------------------------------------------------
(* Properties.                                                             *)

\* Every variable has its type, and the times given to the kernel are normal.
TypeOK ==
  /\ now \in 0..(MaxTime + MILLION) /\ data \in BOOLEAN /\ taken \in BOOLEAN
  /\ end \in Nat \X (0..(MILLION - 1))
  /\ timeout \in Int \X (0..(MILLION - 1))
  /\ pc \in {"start", "gettimeout", "select", "read", "returned"}
  /\ ret \in {"none", "data", "ETIME", "error"}

\* The corrections of gettimeout() and add2currenttime() compute the exact time
\* that is left until a, and the exact sum, and expiry is decided right.
TimeArithmetic ==
  \A a \in 0..(3 * MILLION) :
    LET d == Difference(Time(a), Time(now))
    IN  /\ Units(d) = a - now /\ d[2] \in 0..(MILLION - 1)
        /\ Expired(d) <=> a <= now
        /\ Units(Add(Time(now), Time(a))) = a + now

\* A call reports a timeout only at or after its deadline, however often it was
\* interrupted, and while it waits its timeout ends at the deadline.
NoEarlyTimeout ==
  /\ ret = "ETIME" => now >= Units(end)
  /\ pc = "select" => since + Units(timeout) = Units(end)

\* readtimed() calls read() only after select() has seen input: it can wait there,
\* past its deadline and without a limit, only because another reader was faster.
BlockedBy == pc = "read" /\ ~ data => taken

\* The call has returned, or waits for what another reader took.
Settled == pc = "returned" \/ (pc = "read" /\ taken)
=============================================================================
