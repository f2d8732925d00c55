----------------------------- MODULE WallClock -----------------------------
(***************************************************************************)
(* The wall clock of kernel/timer.c: Unix time, computed at boot from the  *)
(* registers of the real time clock.  The result is a pair of days and     *)
(* seconds of the day; the registers hold two BCD digits each.             *)
(***************************************************************************)
EXTENDS Integers

\* Mutant: no century is a leap year.
is_leap_Century(year) == year % 4 = 0 /\ year % 100 # 0

is_leap(year) ==
    IF year >= 1582
    THEN year % 4 = 0 /\ (year % 100 # 0 \/ year % 400 = 0)
    ELSE year % 4 = 0

nr_days_per_year(year) == IF is_leap(year) THEN 366 ELSE 365

days_per_month == <<31, 28, 31, 30, 31, 30, 31, 31, 30, 31, 30, 31>>

nr_days_per_month(month, year) ==
    IF is_leap(year) /\ month = 1 THEN 29 ELSE days_per_month[month + 1]

bcd_to_dec[n \in Nat] ==
    IF n = 0 THEN 0 ELSE (n % 16) + 10 * bcd_to_dec[n \div 16]

\* The sum of f[i] for i from a to b - 1, as the loops compute it.
Total(f, a, b) ==
    LET sum[i \in Int] == IF i < a THEN 0 ELSE f[i] + sum[i - 1]
    IN  sum[b - 1]

\* realtime after init_wall_clock.
init_wall_clock(rtc) ==
    LET date  == bcd_to_dec[rtc.date]
        month == bcd_to_dec[rtc.month]
        year  == 2000 + bcd_to_dec[rtc.year]
    IN  <<Total([y \in 1970..year |-> nr_days_per_year(y)], 1970, year)
            + Total([m \in 0..11 |-> nr_days_per_month(m, year)], 0, month - 1)
            + (date - 1),
          3600 * bcd_to_dec[rtc.hour] + 60 * bcd_to_dec[rtc.minute]
            + bcd_to_dec[rtc.second]>>
=============================================================================
