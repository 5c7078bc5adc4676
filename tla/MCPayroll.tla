------------------------------ MODULE MCPayroll ------------------------------
(* The instance of Payroll and AttendanceCompute for TLC: the instants around *)
(* each limit of attendance.compute.ts, with two ticks a minute, and a month  *)
(* of two employees. *)
EXTENDS Payroll, TLC

\* Both sides of every limit of the code, on a timeline that passes midnight.
AroundLimits ==
    {120 * h + m : h \in {4, 8, 9, 12, 18, 20, 24}, m \in {0, 60}}
      \cup {962, 1082, 1618, 1620, 2098, 2100, 2218, 3358}

\* Half minutes, around the windows that start between 08:00 and 09:00.
HalfMinutes == {961, 1019, 2099, 2101, 2159, 2219}

LimitInstants == AroundLimits \cup HalfMinutes

\* From 08:30 to 20:30 on a weekday, of which OT is the part after 18:30 and
\* more than eight hours; later an explanation makes it midnight or noon.
LongDay == {<<1020, 2460, 2460, FALSE>>}
MidnightOrNoon == {1440, 2880}
RestOfTheMonth == (1 :> 1235) @@ (2 :> 20000)
=============================================================================
