------------------------------- MODULE Dates -------------------------------
(***************************************************************************)
(* Calendar and clock arithmetic of ztl_times.c, for a time zone without   *)
(* daylight saving.  A date is the number yyyymmdd, a time the number      *)
(* hhmmss.  A caller walks through the calendar (obj is the date, spec the *)
(* number of the day since 1970) or around the clock (obj is the time,     *)
(* spec the second of the day).                                            *)
(***************************************************************************)
EXTENDS Integers, Sequences, FiniteSets

CONSTANTS FirstDate,   \* where the walk through the calendar starts
          DayCount,    \* and how many days it visits
          DayOffsets,  \* offsets given to ztl_get_distance_date
          Seconds,     \* offsets given to ztl_get_distance_time
          RangeSize    \* entries of the arrays the ranges fill

VARIABLES obj, spec

SECONDS_PER_DATE == 86400

(***************************************************************************)
(* mktime and localtime on days (external): the Gregorian calendar counted *)
(* in years that start in March.                                           *)
(***************************************************************************)
mktime(y, m, d) ==
    LET year == IF m <= 2 THEN y - 1 ELSE y
        fromMarch == IF m <= 2 THEN m + 9 ELSE m - 3
    IN 365 * year + year \div 4 - year \div 100 + year \div 400
         + (153 * fromMarch + 2) \div 5 + d - 719469
localtime(day) ==
    LET z == day + 719468
        ofEra == z % 146097
        yearOfEra == (ofEra - ofEra \div 1460 + ofEra \div 36524 - ofEra \div 146096) \div 365
        ofYear == ofEra - (365 * yearOfEra + yearOfEra \div 4 - yearOfEra \div 100)
        fromMarch == (5 * ofYear + 2) \div 153
        month == IF fromMarch < 10 THEN fromMarch + 3 ELSE fromMarch - 9
    IN [year |-> yearOfEra + 400 * (z \div 146097) + IF month <= 2 THEN 1 ELSE 0,
        month |-> month,
        day |-> ofYear - (153 * fromMarch + 2) \div 5 + 1,
        wday |-> (day + 4) % 7]

(***************************************************************************)
(* C's division truncates.                                                 *)
(***************************************************************************)
CDiv(a, b) == IF a < 0 THEN -((-a) \div b) ELSE a \div b
CMod(a, b) == a - b * CDiv(a, b)

ymd(y, m, d) == y * 10000 + m * 100 + d
hms(h, m, s) == h * 10000 + m * 100 + s

ztl_int_pdate(date) == [year |-> date \div 10000, month |-> (date \div 100) % 100, day |-> date % 100]
ztl_int_ptime(time) == [hour |-> time \div 10000, minute |-> (time \div 100) % 100, second |-> time % 100]

(***************************************************************************)
(* Days and seconds: a time_t is 86400 * day + second.                     *)
(***************************************************************************)
ztl_ymd_int(t) == LET l == localtime(t \div SECONDS_PER_DATE) IN ymd(l.year, l.month, l.day)
ztl_hms_int(t) ==
    LET s == t % SECONDS_PER_DATE IN hms(s \div 3600, (s \div 60) % 60, s % 60)
ztl_ymdhms_int(t) == <<ztl_ymd_int(t), ztl_hms_int(t)>>   \* the two halves of the 14 digits

\* A time without a date is on a day nobody reads.
ztl_int_to_time(date, time) ==
    LET d == ztl_int_pdate(date)
        c == ztl_int_ptime(time)
    IN SECONDS_PER_DATE * (IF date > 0 THEN mktime(d.year, d.month, d.day) ELSE 0)
         + (IF time > 0 THEN 3600 * c.hour + 60 * c.minute + c.second ELSE 0)

(***************************************************************************)
(* hh:mm:ss and hh:mm:ss.mmm are the tuples of their fields.               *)
(***************************************************************************)
ztl_int2hms(time) == <<time \div 10000, (time % 10000) \div 100, time % 100>>
ztl_int2hmsf(time) ==
    <<time \div 10000000, (time % 10000000) \div 100000, (time % 100000) \div 1000, time % 1000>>
ztl_hms2int(f) == hms(f[1], f[2], f[3])
ztl_hmsf2int(f) == f[1] * 10000000 + f[2] * 100000 + f[3] * 1000 + f[4]

(***************************************************************************)
(* Texts of dates and times are sequences of digits and one separator.     *)
(***************************************************************************)
Sep == -1
TwoDigits(n) == <<n \div 10, n % 10>>
FourDigits(n) == TwoDigits(n \div 100) \o TwoDigits(n % 100)
NumberAt(text, from, len) ==       \* what atoi_n reads
    LET value[k \in 0..len] == IF k = 0 THEN 0 ELSE 10 * value[k - 1] + text[from + k - 1]
    IN value[len]

\* strftime of a given second; without one the code takes the current second.
ztl_ymd0(t) ==
    LET l == localtime(t \div SECONDS_PER_DATE)
    IN FourDigits(l.year) \o TwoDigits(l.month) \o TwoDigits(l.day)
ztl_ymd(t) ==
    LET l == localtime(t \div SECONDS_PER_DATE)
    IN FourDigits(l.year) \o <<Sep>> \o TwoDigits(l.month) \o <<Sep>> \o TwoDigits(l.day)
ztl_hms(t) ==
    LET s == t % SECONDS_PER_DATE
    IN TwoDigits(s \div 3600) \o <<Sep>> \o TwoDigits((s \div 60) % 60) \o <<Sep>> \o TwoDigits(s % 60)
ztl_ymdhms(t) == ztl_ymd(t) \o <<Sep>> \o ztl_hms(t)

\* Another length than 8 or 10 leaves month and day 0.
ztl_str_pdate(text) ==
    [year |-> NumberAt(text, 1, 4),
     month |-> CASE Len(text) = 8 -> NumberAt(text, 5, 2) [] Len(text) = 10 -> NumberAt(text, 6, 2) [] OTHER -> 0,
     day |-> CASE Len(text) = 8 -> NumberAt(text, 7, 2) [] Len(text) = 10 -> NumberAt(text, 9, 2) [] OTHER -> 0]
ztl_str_ptime(text) ==
    [hour |-> NumberAt(text, 1, 2), minute |-> NumberAt(text, 4, 2), second |-> NumberAt(text, 7, 2)]
ztl_str_to_time(date, time) ==
    LET d == ztl_str_pdate(date)
        c == ztl_str_ptime(time)
    IN SECONDS_PER_DATE * mktime(d.year, d.month, d.day) + 3600 * c.hour + 60 * c.minute + c.second

\* As many as the shorter array holds.
ztl_times_to_dates(dsize, times) ==
    [i \in 1..(IF dsize < Len(times) THEN dsize ELSE Len(times)) |-> ztl_ymd_int(times[i])]
ztl_dates_to_times(tsize, dates) ==
    [i \in 1..(IF tsize < Len(dates) THEN tsize ELSE Len(dates)) |-> ztl_int_to_time(dates[i], 0)]

ztl_get_wday(date) == localtime(ztl_int_to_time(date, 0) \div SECONDS_PER_DATE).wday
ztl_is_weekend(date) == ztl_get_wday(date) \in {0, 6}

ztl_get_distance_date(date, offset) ==
    IF offset = 0 THEN date
    ELSE ztl_ymd_int(ztl_int_to_time(date, 0) + offset * SECONDS_PER_DATE)

ztl_get_prev_date(date) ==
    LET d == ztl_int_pdate(date)
    IN CASE d.day > 1 -> date - 1
         [] d.day = 1 /\ d.month = 1 -> ymd(d.year - 1, 12, 31)
         [] d.day = 1 /\ d.month = 3 -> ztl_get_distance_date(date, -1)
         [] d.day = 1 /\ d.month \in {2, 4, 6, 7, 9, 11, 12} -> ymd(d.year, d.month - 1, 31)
         [] d.day = 1 /\ d.month \in {5, 8, 10} -> ymd(d.year, d.month - 1, 30)

ztl_get_next_date(date) ==
    LET d == ztl_int_pdate(date)
        next == d.day + 1
        long == d.month \in {1, 3, 5, 7, 8, 10, 12}
    IN CASE next < 28 -> date + 1
         [] next >= 28 /\ d.month = 2 -> ztl_get_distance_date(date, 1)
         [] next >= 28 /\ d.month # 2 /\ next < (IF long THEN 31 ELSE 30) -> date + 1
         [] next >= 31 /\ d.month = 12 -> ymd(d.year + 1, 1, 1)
         [] OTHER -> ymd(d.year, d.month + 1, 1)

\* The loop counts the days it looks at, not the ones it stores.
ztl_date_range(size, from, to, exclude_weekend) ==
    LET date[i \in 0..size] ==
            IF i = 0 THEN from ELSE LET d == date[i - 1] IN ztl_get_distance_date(d, 1)
        seen == SelectSeq([i \in 1..size |-> date[i - 1]], LAMBDA d : d <= to)
    IN SelectSeq(seen, LAMBDA d : ~(exclude_weekend /\ ztl_is_weekend(d)))

ztl_diffday(from, to, exclude_weekend) ==
    LET days == (ztl_int_to_time(to, 0) - ztl_int_to_time(from, 0)) \div SECONDS_PER_DATE
        wday(date) == IF ztl_get_wday(date) = 0 THEN 7 ELSE ztl_get_wday(date)
        ls == wday(from)
        le == wday(to)
        weeks == CDiv(days - le + 1 - (8 - ls), 7)
    IN IF exclude_weekend
       THEN weeks * 5 + (6 - (IF ls <= 5 THEN ls ELSE 6)) + (IF le > 5 THEN 5 ELSE le - 1)
       ELSE days

ztl_diffnow(today, endday, exclude_weekend) ==
    CASE today < endday -> ztl_diffday(today, endday, exclude_weekend)
      [] today > endday -> ztl_diffday(endday, today, exclude_weekend)
      [] OTHER -> 0

ztl_get_distance_time(time, offset) ==
    LET c == ztl_int_ptime(time)
        s == c.second + offset
    IN CASE s \in 0..60 -> hms(c.hour, c.minute, s)
         [] s > 60 -> LET m == c.minute + s \div 60
                          h == c.hour + m \div 60
                      IN IF m > 60 THEN hms(IF h > 24 THEN h % 24 ELSE h, m % 60, s % 60)
                         ELSE hms(c.hour, m, s % 60)
         [] s < 0 -> LET m == c.minute + CDiv(s, 60) - 1
                         h == c.hour + CDiv(m, 60) - 1
                         sec == 60 + CMod(s, 60)
                     IN IF m < 0 THEN hms(IF h < 0 THEN (-h) % 24 ELSE h, 60 + CMod(m, 60), sec)
                        ELSE hms(c.hour, m, sec)

\* start_time is compared but never advanced: the array is filled up.
ztl_minute_range(size, from, to) ==
    LET Minutes(start) ==
            [i \in 1..size |-> ztl_hms_int((ztl_int_to_time(0, start) + 60 * (i - 1)) % SECONDS_PER_DATE)]
    IN IF from > to /\ from > 235900 THEN Minutes(0) ELSE Minutes(from)

ztl_difftime(t1, t2, have_millisec) ==
    LET div == IF have_millisec THEN 1000 ELSE 1
        c1 == ztl_int_ptime(t1 \div div)
        c2 == ztl_int_ptime(t2 \div div)
        diff == 3600 * (c1.hour - c2.hour) + 60 * (c1.minute - c2.minute) + c1.second - c2.second
    IN CASE t1 = t2 -> 0
         [] t1 # t2 /\ have_millisec -> diff * 1000 + (t1 % 1000) - (t2 % 1000)
         [] OTHER -> diff

(***************************************************************************)
(* The walks.                                                              *)
(***************************************************************************)
DayOf(date) == ztl_int_to_time(date, 0) \div SECONDS_PER_DATE
Start == DayOf(FirstDate)

DateInit == obj = FirstDate /\ spec = Start
DateNext ==
    \E offset \in DayOffsets :
        /\ spec + offset \in Start..Start + DayCount
        /\ obj' = ztl_get_distance_date(obj, offset)
        /\ spec' = spec + offset

Midnight == 0
Lost == -1
ClockInit == obj = Midnight /\ spec = 0
ClockNext ==
    \E offset \in Seconds :
        /\ spec # Lost
        /\ obj' = ztl_get_distance_time(obj, offset)
        /\ spec' = IF spec + offset < 0 THEN Lost ELSE (spec + offset) % SECONDS_PER_DATE

\* Where ztl_get_next_date and ztl_get_prev_date leave the calendar.
NextSlips(date) ==
    LET d == ztl_int_pdate(date)
    IN \/ d.day = 30 /\ d.month \in {1, 3, 5, 7, 8, 10, 12}
       \/ d.day = 29 /\ d.month \in {4, 6, 9, 11}
PrevSlips(date) ==
    LET d == ztl_int_pdate(date) IN d.day = 1 /\ d.month \in {7, 8, 12}

Weekday(day) == localtime(day).wday \in 1..5

(***************************************************************************)
(* On every day reached, also over the ends of months, years and a leap    *)
(* February: ztl_get_distance_date lands on the right day, the previous    *)
(* and the next date are right except where they slip, ztl_diffday counts  *)
(* the days, and the working days, from the first date, ztl_date_range     *)
(* lists the days of its first RangeSize days, and a second written out in *)
(* either form of the date reads back as the same second.                  *)
(***************************************************************************)
CalendarExact ==
    LET Date(day) == ztl_ymd_int(day * SECONDS_PER_DATE)
        Noon == spec * SECONDS_PER_DATE + 12 * 3600 + 34 * 60 + 56
        Working(days) == {day \in days : Weekday(day)}
    IN /\ obj = Date(spec) /\ DayOf(obj) = spec
       /\ (ztl_get_next_date(obj) = Date(spec + 1)) = ~NextSlips(obj)
       /\ (ztl_get_prev_date(obj) = Date(spec - 1)) = ~PrevSlips(obj)
       /\ ztl_diffday(FirstDate, obj, FALSE) = spec - Start
       /\ ztl_diffday(FirstDate, obj, TRUE) = Cardinality(Working(Start..(spec - 1)))
       /\ \A date \in {ztl_ymd(Noon), ztl_ymd0(Noon), SubSeq(ztl_ymdhms(Noon), 1, 10)} :
            ztl_str_to_time(date, ztl_hms(Noon)) = Noon
       /\ \A exclude \in BOOLEAN :
            ztl_diffnow(obj, FirstDate, exclude) = ztl_diffday(FirstDate, obj, exclude)
       /\ \A exclude \in BOOLEAN :
            LET range == ztl_date_range(RangeSize, obj, Date(spec + RangeSize + 1), exclude)
                days == spec..spec + RangeSize - 1
                listed == IF exclude THEN Working(days) ELSE days
            IN /\ {range[i] : i \in DOMAIN range} = {Date(day) : day \in listed}
               /\ Len(range) = Cardinality(listed)
               /\ ztl_times_to_dates(RangeSize, ztl_dates_to_times(RangeSize, range)) = range
               /\ Len(ztl_times_to_dates(2, ztl_dates_to_times(RangeSize, range))) = 2

(***************************************************************************)
(* Around the clock: ztl_get_distance_time may leave 60 seconds, 60        *)
(* minutes or 24 hours standing, and still its result, read as a number    *)
(* of seconds, is the right second of the day, until an offset goes back   *)
(* over midnight.  ztl_difftime agrees, texts convert back.                *)
(***************************************************************************)
ClockExact ==
    spec # Lost =>
      /\ ztl_difftime(obj, Midnight, FALSE) % SECONDS_PER_DATE = spec
      /\ ztl_difftime(1000 * obj + 500, 250, TRUE) = 1000 * ztl_difftime(obj, Midnight, FALSE) + 250
      /\ ztl_hms2int(ztl_int2hms(obj)) = obj
      /\ ztl_hmsf2int(ztl_int2hmsf(1000 * obj + 5)) = 1000 * obj + 5
      /\ ztl_hms_int(spec) = obj
           \/ LET c == ztl_int_ptime(obj) IN c.second = 60 \/ c.minute = 60 \/ c.hour = 24
      /\ LET now == ztl_hms_int(spec)
             range == ztl_minute_range(RangeSize, now, now)
         IN \A i \in DOMAIN range :
              ztl_difftime(range[i], now, FALSE) % SECONDS_PER_DATE = 60 * (i - 1)
=============================================================================
