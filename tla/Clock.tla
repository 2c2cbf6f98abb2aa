------------------------------- MODULE Clock --------------------------------
(***************************************************************************)
(* The CMOS clock (src/io/cmos.h).  The chip counts on while cmos_dump     *)
(* reads its registers one by one, in ascending order, without looking at  *)
(* its update-in-progress flag.  A time is a sequence of the fields in the *)
(* order of their registers 0, 2, 4, 7, 8, 9: second, minute, hour, day,   *)
(* month, year of the century.  The chip holds them as BCD.                *)
(***************************************************************************)
EXTENDS Integers, Sequences

CONSTANTS Starts,     \* times at which a call may begin
          MaxTicks    \* bound: seconds that pass during a call

timezone == 2

Leap(y) == y % 4 = 0 /\ (y % 100 # 0 \/ y % 400 = 0)

MonthLength(mo, y) == CASE mo \in {4, 6, 9, 11} -> 30
                        [] mo = 2               -> IF Leap(2000 + y) THEN 29 ELSE 28
                        [] OTHER                -> 31

\* Times of the calendar.
Time(t) == /\ DOMAIN t = 1 .. 6
           /\ t[1] \in 0 .. 59 /\ t[2] \in 0 .. 59 /\ t[3] \in 0 .. 23
           /\ t[4] \in 1 .. MonthLength(t[5], t[6]) /\ t[5] \in 1 .. 12 /\ t[6] \in 0 .. 99

\* A call reads a few hundred registers and takes less than a minute.
ASSUME ClockAssumption == (\A t \in Starts : Time(t)) /\ MaxTicks \in 0 .. 59

VARIABLES rtc,        \* the time
          clockCall,  \* "none", "now", "date" or "time", the two dumps of get_today
          values,     \* the registers read so far
          date,       \* what get_date returned
          answer,     \* what the last call returned
          began,      \* the time when it was called (history)
          ticks       \* seconds since then, not counted between calls (history)

clockVars == <<rtc, clockCall, values, date, answer, began, ticks>>

ClockInit == /\ rtc \in Starts
             /\ clockCall = "none" /\ values = <<>> /\ date = <<>> /\ answer = <<>>
             /\ began = rtc /\ ticks = 0

-----------------------------------------------------------------------------
(* The chip.                                                               *)

\* A field is counted when all the fields below it start again.
After(t) ==
    LET first == <<0, 0, 0, 1, 1, 0>>
        last  == <<59, 59, 23, MonthLength(t[5], t[6]), 12, 99>>
    IN  [i \in 1 .. 6 |-> IF \E j \in 1 .. i - 1 : t[j] # last[j] THEN t[i]
                         ELSE IF t[i] = last[i] THEN first[i] ELSE t[i] + 1]

ToBcd(n) == (n \div 10) * 16 + (n % 10)

Tick == /\ clockCall # "none" /\ ticks < MaxTicks
        /\ rtc' = After(rtc) /\ ticks' = ticks + 1
        /\ UNCHANGED <<clockCall, values, date, answer, began>>

-----------------------------------------------------------------------------
(* The arithmetic of cmos.h.  Seconds since 1970 are given as days and      *)
(* seconds of the day.                                                      *)

\* A register's byte, which read_port returns as a char and cmos_dump stores as 16 bits:
\* from 0x80 on, the years 80 to 99, the sign fills the upper half (idt.h:16, cmos.h:19).
Stored(byte) == IF byte >= 128 THEN byte + 65280 ELSE byte

FromBcd(val) == (val \div 16) * 10 + (val % 16)

\* is_leap_year, and the same test in secs_of_years and secs_of_month.
IsLeapYear(year) == year % 4 = 0 /\ (year % 100 = 0 => year % 400 = 0)

\* The loop of secs_of_years, from the last year down to 1970.
YearDays[year \in Nat] ==
    IF year > 1969 THEN YearDays[year - 1] + (IF IsLeapYear(year) THEN 366 ELSE 365) ELSE 0

\* secs_of_years.  The loop comes to 146097 days in each four hundred years.
DaysOfYears(years) == LET cycles == (30 + years) \div 400
                      IN  YearDays[2000 + years - 400 * cycles] + 146097 * cycles

\* The cases of secs_of_month fall through, from the last month to January.
DaysOfMonths(months, year) ==
    LET case(m, days) == IF months >= m THEN days ELSE 0
    IN  case(11, 30) + case(10, 31) + case(9, 30) + case(8, 31) + case(7, 31) + case(6, 30)
        + case(5, 31) + case(4, 30) + case(3, 31)
        + case(2, IF IsLeapYear(2000 + year) THEN 29 ELSE 28) + case(1, 31)

\* A uint32_t of seconds starts again after 2^32 of them: 49710 days and 23296 seconds.
Wrapped(days, secs) ==
    IF days < 49710 THEN <<days, secs>>
    ELSE LET left(k) == <<days - k * 49710 + (secs - k * 23296) \div 86400,
                          (secs - k * 23296) % 86400>>
             below(t) == t[1] < 49710 \/ (t[1] = 49710 /\ t[2] < 23296)
         IN  left(CHOOSE k \in 0 .. days \div 49710 : left(k)[1] >= 0 /\ below(left(k)))

\* gettimeofday
TimeOfDay(v) ==
    LET f == [i \in 1 .. 6 |-> FromBcd(v[i])]
    IN  Wrapped(DaysOfYears(f[6] - 1) + DaysOfMonths(f[5] - 1, f[6]) + f[4] - 1,
                f[3] * 3600 + f[2] * 60 + f[1])

\* Wrong: the hours of the next day are not taken back.
HourBeyondDay(h) == <<h + timezone, h + timezone >= 24>>

\* get_time's hour and whether it is one of the next day.
Hour(h) == IF h + timezone >= 24 THEN <<h + timezone - 24, TRUE>> ELSE <<h + timezone, FALSE>>

\* The tests of get_today on <<day, month, year>>, one after the other.
OddMonth(t)  == IF t[1] > 31 /\ t[2] % 2 # 0 /\ t[2] # 9 THEN <<1, t[2] + 1, t[3]>> ELSE t
EvenMonth(t) == IF t[1] > 30 /\ t[2] % 2 = 0 /\ t[2] # 2 THEN <<1, t[2] + 1, t[3]>> ELSE t
February(t)  == IF t[2] = 2 /\ t[1] > (IF IsLeapYear(t[3]) THEN 29 ELSE 28)
                THEN <<1, 3, t[3]>> ELSE t
NewYear(t)   == IF t[2] > 12 THEN <<t[1], t[2], t[3] + 1>> ELSE t

-----------------------------------------------------------------------------
(* The thread.                                                             *)

ClockIdle == clockCall = "none"

CallClock(c) == /\ clockCall' = c /\ values' = <<>> /\ date' = <<>> /\ answer' = <<>>
                /\ began' = rtc /\ ticks' = 0
                /\ UNCHANGED rtc

Now      == ClockIdle /\ rtc \in Starts /\ CallClock("now")
GetToday == ClockIdle /\ rtc \in Starts /\ CallClock("date")

\* Wrong: from the year down to the second.
DumpDownwards == /\ clockCall # "none" /\ Len(values) < 6
                 /\ values' = <<Stored(ToBcd(rtc[6 - Len(values)]))>> \o values
                 /\ UNCHANGED <<rtc, clockCall, date, answer, began, ticks>>

\* cmos_dump, the next register that is used.
Dump == /\ clockCall # "none" /\ Len(values) < 6
        /\ values' = Append(values, Stored(ToBcd(rtc[Len(values) + 1])))
        /\ UNCHANGED <<rtc, clockCall, date, answer, began, ticks>>

NowReturns == /\ clockCall = "now" /\ Len(values) = 6
              /\ clockCall' = "none" /\ answer' = TimeOfDay(values)
              /\ UNCHANGED <<rtc, values, date, began, ticks>>

\* get_date, and on to get_time, which makes a dump of its own.
GetDate == /\ clockCall = "date" /\ Len(values) = 6
           /\ date' = <<FromBcd(values[4]), FromBcd(values[5]), 2000 + FromBcd(values[6])>>
           /\ clockCall' = "time" /\ values' = <<>>
           /\ UNCHANGED <<rtc, answer, began, ticks>>

TodayReturns ==
    LET hour == Hour(FromBcd(values[3]))
        day  == IF hour[2] THEN <<date[1] + 1, date[2], date[3]>> ELSE date
    IN  /\ clockCall = "time" /\ Len(values) = 6
        /\ clockCall' = "none"
        /\ answer' = NewYear(February(EvenMonth(OddMonth(day))))
                     \o <<hour[1], FromBcd(values[2]), FromBcd(values[1])>>
        /\ UNCHANGED <<rtc, values, date, began, ticks>>

ClockNext == Now \/ GetToday \/ Dump \/ NowReturns \/ GetDate \/ TodayReturns \/ Tick

-----------------------------------------------------------------------------
(* Properties                                                              *)

Word == {n \in Nat : n < 65536}

ClockTypeOK == /\ \A i \in 1 .. 6 : rtc[i] \in 0 .. 99
               /\ clockCall \in {"none", "now", "date", "time"}
               /\ values \in Seq(Word) /\ Len(values) <= 6
               /\ ticks \in 0 .. MaxTicks

NowAnswered   == ClockIdle /\ Len(answer) = 2
TodayAnswered == ClockIdle /\ Len(answer) = 6

\* Days since 1970 in closed form, years beginning in March.
Epoch(t) ==
    LET y == IF t[5] > 2 THEN 2000 + t[6] ELSE 1999 + t[6]
        m == IF t[5] > 2 THEN t[5] - 3 ELSE t[5] + 9
    IN  <<365 * y + y \div 4 - y \div 100 + y \div 400 + (153 * m + 2) \div 5 + t[4] - 719469,
          t[3] * 3600 + t[2] * 60 + t[1]>>

NotAfter(a, b) == a[1] < b[1] \/ (a[1] = b[1] /\ a[2] <= b[2])

\* Nothing but seconds was counted while the clock was read.
SameMinute == \A i \in 2 .. 6 : rtc[i] = began[i]

\* However the clock counts on between two registers, now() never returns a time before
\* it was called: of a torn reading the low fields are the old ones (cmos.h:15-21).  If
\* the minute stays the same, it returns a time of the call.  This holds until 2079.  From
\* 2080 on the year's register is stored as 0xFF80 and more, and the year is one above
\* 40000 (cmos.h:1, 19, idt.h:16).
NowRight ==
    NowAnswered /\ rtc[6] \in began[6] .. 79 =>
        /\ NotAfter(Epoch(began), answer)
        /\ SameMinute => NotAfter(answer, Epoch(rtc))

NextDay(t) == IF t[1] < MonthLength(t[2], t[3] - 2000) THEN <<t[1] + 1, t[2], t[3]>>
              ELSE IF t[2] < 12 THEN <<1, t[2] + 1, t[3]>> ELSE <<1, 1, t[3] + 1>>

Local(t) == LET day == <<t[4], t[5], 2000 + t[6]>>
            IN  (IF t[3] >= 24 - timezone THEN NextDay(day) ELSE day)
                \o <<(t[3] + timezone) % 24, t[2]>>

\* If the minute stays the same over its two dumps, get_today returns the time two hours
\* east of the clock's, on all days of January to July, and of the other months on the
\* first 29 days and in the first 22 hours of the 30th.  On the other days its tests
\* (cmos.h:157-164) mistake the length of the month, and in December there is a 13th.
\* As for now(), the year is right until 2079.
TodayRight ==
    TodayAnswered /\ SameMinute /\ began[6] < 80
    /\ (began[5] <= 7 \/ began[4] <= 29 \/ (began[4] = 30 /\ began[3] < 24 - timezone)) =>
        /\ SubSeq(answer, 1, 5) = Local(began)
        /\ began[1] <= answer[6] /\ answer[6] <= rtc[1]
=============================================================================
