----------------------------- MODULE Timestamp -----------------------------
(***************************************************************************)
(* base/Timestamp.cpp: a wall-clock time as a struct timeval.  The clock   *)
(* counts milliseconds, Second of them make one second (1000 in the code), *)
(* and tv_usec is kept in milliseconds too.  AddMillisecond does not carry *)
(* from tv_usec into tv_sec, and the comparisons are lexicographic.        *)
(***************************************************************************)
EXTENDS Integers

CONSTANT Second     \* milliseconds per second

ASSUME SecondAssumption == Second \in Nat \ {0}

Time == [sec : Nat, usec : Nat]

\* Timestamp(): gettimeofday when the clock shows t milliseconds.
TimestampAt(t) == [sec |-> t \div Second, usec |-> t % Second]

AddMillisecond(ts, ms) ==
  [sec  |-> ts.sec + ms \div Second,
   usec |-> ts.usec + (ms % Second)]

\* operator <
Before(a, b) ==
  \/ a.sec < b.sec
  \/ a.sec = b.sec /\ a.usec < b.usec

\* operator -
Difference(a, b) == Second * (a.sec - b.sec) + (a.usec - b.usec)
=============================================================================
