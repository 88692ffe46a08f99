------------------------------ MODULE TimeStamps ------------------------------
(***************************************************************************)
(* The moments a schedule asks for: the next time it is hour:minute, the   *)
(* next time it is on a day of the week, and that of this week, in 64 bits *)
(* and in seconds from BASE_TIME in 32 bits (src/wlib/wtime_api.cpp).      *)
(*                                                                         *)
(* Of a broken-down time the number of the day since 1970 stands for the   *)
(* date; 1 January 1970 was a Thursday. gmtime_r and mktime are external.  *)
(* The clock goes on, and the time zone may be set anew.                   *)
(***************************************************************************)
EXTENDS Integers

CONSTANTS
  Times,   (* bound: the seconds since 1970 at which a stamp is asked for *)
  Zones,   (* values of set_time_zone                                     *)
  Hours,   (* bound: hours that are asked for                             *)
  Minutes, (* bound: minutes that are asked for                          *)
  Local,   (* seconds by which the TZ of the process is east             *)
  IntMax   (* the greatest int: 2^31 - 1                                  *)

VARIABLES
  now,  (* time(NULL)              *)
  zone  (* g_time_zone, in seconds *)

vars == <<now, zone>>

Minute == 60
Hour   == 60 * Minute
Day    == 24 * Hour
Week   == 7 * Day
Wdays  == 0..6

BaseTime == 946598400

(* BASE_TIME is an int, and the values of an int are no whole days of seconds. *)
TimeStampsAssumption ==
  /\ Times \subseteq Nat /\ Zones \subseteq -11..11 /\ Hours \subseteq 0..23 /\ Minutes \subseteq 0..59
  /\ Local \in Int
  /\ IntMax \in Nat /\ BaseTime <= IntMax /\ (2 * (IntMax + 1)) % Day # 0

Init == now \in Times /\ zone \in {z * Hour : z \in Zones}

TimePasses == \E t \in Times : t > now /\ now' = t /\ zone' = zone

SetTimeZone == \E z \in Zones : zone' = z * Hour /\ now' = now

Next == TimePasses \/ SetTimeZone

Spec == Init /\ [][Next]_vars

-----------------------------------------------------------------------------
(* time_t_to_tm. *)
Tm(time) ==
  LET local == time + zone IN
    [day |-> local \div Day, wday |-> (local \div Day + 4) % 7,
     hour |-> (local % Day) \div Hour, min |-> (local % Hour) \div Minute, sec |-> local % Minute]

(* mktime takes a broken-down time as one of the TZ. *)
MkTime(tm) == tm.day * Day + tm.hour * Hour + tm.min * Minute + tm.sec - Local

(* tm_to_time_t. *)
TmToTime(tm) == MkTime(tm) + zone

(* Mutant: the minute that has begun is still to come. *)
SameMinuteBefore(tm, hour, minute) ==
  tm.hour < hour \/ (tm.hour = hour /\ tm.min <= minute)

(* The hour and minute are still to come on the day of tm. *)
Before(tm, hour, minute) ==
  tm.hour < hour \/ (tm.hour = hour /\ tm.min < minute)

OnTheHour(time, tm, hour, minute) ==
  time - (tm.hour - hour) * Hour - (tm.min - minute) * Minute - tm.sec

(* get_day_stamp_time64. *)
DayStamp64(time, hour, minute) ==
  LET tm == Tm(time) IN
    OnTheHour(time, tm, hour, minute) + (IF Before(tm, hour, minute) THEN 0 ELSE Day)

(* get_this_week_stamp_time64. *)
ThisWeekStamp64(time, wday, hour, minute) ==
  LET tm == Tm(time) IN OnTheHour(time, tm, hour, minute) - (tm.wday - wday) * Day

BeforeInWeek(tm, wday, hour, minute) ==
  tm.wday < wday \/ (tm.wday = wday /\ Before(tm, hour, minute))

(* get_week_stamp_time64. *)
WeekStamp64(time, wday, hour, minute) ==
  ThisWeekStamp64(time, wday, hour, minute)
    + (IF BeforeInWeek(Tm(time), wday, hour, minute) THEN 0 ELSE Week)

(* get_today_stamp_time64. *)
TodayStamp64(time, hour) ==
  LET tm == Tm(time) IN OnTheHour(time, tm, hour, 0)

(* What an int keeps of a number. *)
Ints == 2 * (IntMax + 1)

Int32(n) == LET kept == n % Ints IN IF kept <= IntMax THEN kept ELSE kept - Ints

(* time_t_to_time32: a cast to int. *)
Time32(time) == Int32(time - BaseTime)

(* time32_to_time_t: the sum of two ints. To overflow it is undefined; what  *)
(* the builds make of it, with and without optimization, wraps.              *)
Time64(time32) == Int32(BaseTime + time32)

(* get_day_stamp and get_week_stamp. *)
DayStamp(time32, hour, minute) == Time32(DayStamp64(Time64(time32), hour, minute))

WeekStamp(time32, wday, hour, minute) == Time32(WeekStamp64(Time64(time32), wday, hour, minute))

(* get_this_week_stamp, get_today_stamp_time32, time32_to_tm and tm_to_time32. *)
ThisWeekStamp(time32, wday, hour, minute) ==
  Time32(ThisWeekStamp64(Time64(time32), wday, hour, minute))

TodayStamp(time, hour) == Time32(TodayStamp64(time, hour))

Tm32(time32) == Tm(Time64(time32))

TmToTime32(tm) == Time32(TmToTime(tm))

-----------------------------------------------------------------------------
(* The stamp of a day is the first moment after now, never now itself, at   *)
(* which a clock in the zone shows hour:minute.                             *)
NextOfDay ==
  \A h \in Hours, m \in Minutes : LET s == DayStamp64(now, h, m) IN
    /\ now < s /\ s <= now + Day
    /\ Tm(s).hour = h /\ Tm(s).min = m /\ Tm(s).sec = 0
    /\ TodayStamp64(now, h) \in {DayStamp64(now, h, 0), DayStamp64(now, h, 0) - Day}

ThisWeeksDay(d, h, m) == ThisWeekStamp64(now, d, h, m)

(* The stamps of the days of the week and that of the day agree: the next   *)
(* hour:minute is the next one of some day of the week, and of no other day *)
(* before; the stamp of this week is of the week now is in.                 *)
WeekMeetsDay ==
  \A h \in Hours, m \in Minutes :
    /\ \E d \in Wdays : WeekStamp64(now, d, h, m) = DayStamp64(now, h, m)
    /\ \A d \in Wdays : LET s == WeekStamp64(now, d, h, m) IN
         /\ DayStamp64(now, h, m) <= s /\ s <= now + Week
         /\ Tm(s).wday = d
         /\ s \in {ThisWeeksDay(d, h, m), ThisWeeksDay(d, h, m) + Week}
         /\ ThisWeekStamp64(ThisWeeksDay(d, h, m), 0, 0, 0) = ThisWeeksDay(0, 0, 0)

Fits(time) == time - BaseTime \in (-IntMax - 1)..IntMax

(* A stamp in 32 bits, if it can be one, is the one in 64 just as long as an *)
(* int holds the seconds since 1970.                                         *)
RightUntil2038(stamp, stamp64) ==
  Fits(stamp64) => (stamp = stamp64 - BaseTime <=> now <= IntMax)

(* An int that counts from BASE_TIME lasts until 2068, but the way back from *)
(* it overflows in 2038: until then, and not a second longer, the stamps     *)
(* that are asked for with a time in 32 bits are those in 64. The one that   *)
(* reads the clock itself does not go that way.                              *)
StampsAgree ==
  Fits(now) =>
    /\ Time64(Time32(now)) = now <=> now <= IntMax
    /\ \A h \in Hours, m \in Minutes :
         /\ Fits(TodayStamp64(now, h)) => TodayStamp(now, h) = TodayStamp64(now, h) - BaseTime
         /\ RightUntil2038(DayStamp(Time32(now), h, m), DayStamp64(now, h, m))
         /\ \A d \in Wdays :
              /\ RightUntil2038(WeekStamp(Time32(now), d, h, m), WeekStamp64(now, d, h, m))
              /\ RightUntil2038(ThisWeekStamp(Time32(now), d, h, m), ThisWeekStamp64(now, d, h, m))

(* A broken-down time of 32 bits goes back to the time it was made of in a  *)
(* process that runs in UTC with no time zone set, and in no other but one  *)
(* with twice the zone in its TZ (until 2038).                              *)
TmGoesBack ==
  now <= IntMax /\ Fits(now + 2 * zone - Local) =>
    (TmToTime32(Tm32(Time32(now))) = Time32(now) <=> Local = 2 * zone)

(* "1900 -> 2000-1-1": BASE_TIME is in the first day of the year 2000, a    *)
(* Saturday, whatever the time zone.                                        *)
BaseIs2000 == Tm(BaseTime).wday = 6
=============================================================================
