------------------------------ MODULE Reporting ------------------------------
(***************************************************************************)
(* reporting-service: ReportingService for one hotel, and the figures of   *)
(* kpi.ts. Nothing at this commit writes the facts that channelMix and     *)
(* housekeepingPerformance read but the seed, so they are constants.       *)
(*                                                                         *)
(* Each statement is a step: a comparison reads twice. Days are numbered   *)
(* from a Monday; percentages are counted in tenths. Figures recorded with *)
(* a night that no report reads are left out.                              *)
(***************************************************************************)
EXTENDS Integers, FiniteSets, FiniteSetsExt

CONSTANTS
    Nights,       \* days that may be recorded
    Performances, \* what may be recorded of a night
    MonthOf,      \* MonthOf[d]: the month of day d
    BookingFacts, \* rows: [id, channel, status, createdOn, total, nights, lead]
    CleaningFacts, \* rows of housekeeping_facts: [id, staff, date, tasks, minutes, rework]
    NoNight, NoReport

VARIABLES
    night, \* night[d]: the row of daily_performance, or NoNight
    report \* the last report: asked for, and answered

vars == <<night, report>>

Init == night = [d \in Nights |-> NoNight] /\ report = NoReport

-----------------------------------------------------------------------------
(* kpi.ts *)

(* Math.round of a quotient whose divisor is positive.                     *)
rounded(a, b) == (2 * a + b) \div (2 * b)

ratio(a, b) == IF b = 0 THEN 0 ELSE rounded(a, b)

total(days, figure) == MapThenSumSet(LAMBDA d : days[d][figure], DOMAIN days)

(* days: a function from the days that were recorded to their rows.        *)
computeKpis(days) ==
    LET sold      == total(days, "roomsSold")
        available == total(days, "roomsAvailable")
        rooms     == total(days, "roomRevenue")
        services  == total(days, "serviceRevenue")
    IN [occupancyPct |-> ratio(1000 * sold, available),
        adr          |-> ratio(rooms, sold),
        revpar       |-> ratio(rooms, available),
        trevpar      |-> ratio(rooms + services, available),
        roomsSold    |-> sold,
        roomRevenue  |-> rooms,
        totalRevenue |-> rooms + services,
        nights       |-> Cardinality(DOMAIN days)]

percentChange(from, to) ==
    IF from = 0 THEN (IF to = 0 THEN 0 ELSE 1000) ELSE rounded(1000 * (to - from), from)

deltas(current, previous) ==
    [occupancyPoints |-> current.occupancyPct - previous.occupancyPct,
     adrPct          |-> percentChange(previous.adr, current.adr),
     revparPct       |-> percentChange(previous.revpar, current.revpar)]

-----------------------------------------------------------------------------
(* An upsert: a night recorded again is the same row.                      *)
RecordDaily ==
    /\ \E d \in Nights, dto \in Performances : night' = [night EXCEPT ![d] = dto]
    /\ UNCHANGED report

loadDays(from, to) ==
    [d \in {d \in Nights : night[d] # NoNight /\ d >= from /\ d <= to} |-> night[d]]

Performance ==
    /\ \E from, to \in Nights, compare \in BOOLEAN :
          /\ from <= to
          /\ report' = [kind |-> IF compare THEN "COMPARE" ELSE "PERFORMANCE",
                        from |-> from, to |-> to, days |-> loadDays(from, to),
                        current |-> computeKpis(loadDays(from, to))]
    /\ UNCHANGED night

(* Mutant: the window ends on the first day of the period.                 *)
dayBefore_same(from) == from

dayBefore(from) == from - 1

(* The window of the same length immediately before.                       *)
ComparePrevious ==
    /\ report # NoReport
    /\ report.kind = "COMPARE"
    /\ LET length       == report.to - report.from + 1
           previousTo   == dayBefore(report.from)
           previousFrom == previousTo - length + 1
           previous     == computeKpis(loadDays(previousFrom, previousTo))
       IN report' = [kind |-> "COMPARISON", from |-> report.from, to |-> report.to,
                     previousFrom |-> previousFrom, previousTo |-> previousTo,
                     days |-> report.days, previousDays |-> loadDays(previousFrom, previousTo),
                     current |-> report.current, previous |-> previous,
                     deltas |-> deltas(report.current, previous)]
    /\ UNCHANGED night

(* Mutant: weeks are counted from Sunday.                                  *)
bucketKey_sunday(d, granularity) ==
    CASE granularity = "day" -> d [] granularity = "month" -> MonthOf[d]
      [] granularity = "week" -> d - ((d + 1) % 7)

(* A day, a month, or the Monday of a week.                                *)
bucketKey(d, granularity) ==
    CASE granularity = "day" -> d [] granularity = "month" -> MonthOf[d]
      [] granularity = "week" -> d - (d % 7)

Trend ==
    /\ \E from, to \in Nights, granularity \in {"day", "week", "month"} :
          LET days == loadDays(from, to)
          IN report' =
              [kind |-> "TREND", granularity |-> granularity, days |-> days,
               current |-> [key \in {bucketKey(d, granularity) : d \in DOMAIN days} |->
                   computeKpis([d \in {d \in DOMAIN days : bucketKey(d, granularity) = key} |-> days[d]])]]
    /\ UNCHANGED night

(* A night without a row has sold nothing.                                 *)
Today ==
    /\ \E d \in Nights :
          LET days == loadDays(d, d)
          IN report' =
              [kind |-> "TODAY", days |-> days,
               current |-> IF DOMAIN days = {} THEN [occupancyPct |-> 0, roomsSold |-> 0, revenue |-> 0]
                           ELSE [occupancyPct |-> ratio(1000 * night[d].roomsSold,
                                                        night[d].roomsAvailable),
                                 roomsSold |-> night[d].roomsSold,
                                 revenue |-> night[d].roomRevenue + night[d].serviceRevenue]]
    /\ UNCHANGED night

sumOf(rows, figure) == MapThenSumSet(LAMBDA f : f[figure], rows)

(* Mutant: bookings that fell through are counted.                         *)
kept_all(f) == TRUE

kept(f) == f.status \notin {"CANCELLED", "NO_SHOW"}

ChannelMix ==
    /\ \E from, to \in Nights :
          LET facts  == {f \in BookingFacts : f.createdOn >= from /\ f.createdOn <= to /\ kept(f)}
              by(ch) == {f \in facts : f.channel = ch}
          IN report' =
              [kind |-> "CHANNELS", facts |-> facts,
               current |-> [ch \in {f.channel : f \in facts} |->
                   [bookings      |-> Cardinality(by(ch)),
                    revenue       |-> sumOf(by(ch), "total"),
                    share         |-> ratio(1000 * sumOf(by(ch), "total"), sumOf(facts, "total")),
                    averageNights |-> ratio(10 * sumOf(by(ch), "nights"), Cardinality(by(ch))),
                    averageLead   |-> ratio(sumOf(by(ch), "lead"), Cardinality(by(ch)))]]]
    /\ UNCHANGED night

HousekeepingPerformance ==
    /\ \E from, to \in Nights :
          LET facts == {f \in CleaningFacts : f.date >= from /\ f.date <= to}
              by(s) == {f \in facts : f.staff = s}
          IN report' =
              [kind |-> "CLEANING", facts |-> facts,
               current |-> [s \in {f.staff : f \in facts} |->
                   [tasks          |-> sumOf(by(s), "tasks"),
                    minutes        |-> sumOf(by(s), "minutes"),
                    averageMinutes |-> ratio(10 * sumOf(by(s), "minutes"), sumOf(by(s), "tasks")),
                    reworkRate     |-> ratio(1000 * sumOf(by(s), "rework"), sumOf(by(s), "tasks"))]]]
    /\ UNCHANGED night

Next ==
    \/ RecordDaily \/ Performance \/ ComparePrevious \/ Trend
    \/ Today \/ ChannelMix \/ HousekeepingPerformance

Spec == Init /\ [][Next]_vars

-----------------------------------------------------------------------------
(* Properties. *)

(* A night is recorded as it was last reported, or not at all.             *)
TypeOK == night \in [Nights -> Performances \cup {NoNight}]

(* The revenue of nights that sold rooms is the rate times the rooms, but  *)
(* for half a unit each.                                                   *)
isTotalled(kpis) ==
    kpis.roomsSold > 0 =>
        LET off == 2 * (kpis.adr * kpis.roomsSold - kpis.roomRevenue)
        IN off <= kpis.roomsSold /\ - off <= kpis.roomsSold

(* The channels are those of the bookings that came true, and their shares *)
(* add up but for half a tenth each.                                       *)
isWhole(mix, facts) ==
    LET channels == DOMAIN mix
        shares   == MapThenSumSet(LAMBDA ch : mix[ch].share, channels)
        off      == 2 * (shares - 1000)
    IN /\ MapThenSumSet(LAMBDA ch : mix[ch].bookings, channels)
             = Cardinality({f \in facts : f.status \notin {"CANCELLED", "NO_SHOW"}})
       /\ sumOf(facts, "total") > 0 => off <= Cardinality(channels) /\ - off <= Cardinality(channels)

(* performance: "The comparison window is the same length, immediately     *)
(* before". The two windows are as long as each other and together are the *)
(* days up to the last one asked for, with none in both; and no figure of  *)
(* one is of a night of the other.                                         *)
isJustBefore(comparison) ==
    LET asked  == comparison.from .. comparison.to
        before == comparison.previousFrom .. comparison.previousTo
    IN /\ Cardinality(before) = Cardinality(asked)
       /\ before \cap asked = {} /\ before \cup asked = comparison.previousFrom .. comparison.to
       /\ DOMAIN comparison.days \subseteq asked /\ DOMAIN comparison.previousDays \subseteq before
       /\ comparison.previous.nights + comparison.current.nights
             = Cardinality(DOMAIN comparison.days \cup DOMAIN comparison.previousDays)

(* computeKpis: "Aggregation is over room-nights, not an average of daily  *)
(* averages"; bucketKey: "a week never straddles two labels". The points   *)
(* of a trend add up to the nights it is drawn from, a week is seven days  *)
(* from a Monday, rates multiply back to revenue, and a comparison takes   *)
(* the nights just before and never reports a fall as a rise. The overview *)
(* card of a night says what its report says; the shares of the channels   *)
(* are of all the bookings that were kept, and make up the whole; and a    *)
(* housekeeper whose every clean is redone reads 100 %.                    *)
FiguresHold ==
    report # NoReport =>
    CASE report.kind \in {"PERFORMANCE", "COMPARE"} -> isTotalled(report.current)
      [] report.kind = "COMPARISON" ->
            /\ isJustBefore(report)
            /\ isTotalled(report.previous)
            /\ report.deltas.adrPct > 0 => report.current.adr > report.previous.adr
            /\ report.deltas.adrPct < 0 => report.current.adr < report.previous.adr
      [] report.kind = "TREND" ->
            LET keys == DOMAIN report.current
            IN /\ \A k \in keys : isTotalled(report.current[k])
               /\ \A figure \in {"roomsSold", "roomRevenue"} :
                     MapThenSumSet(LAMBDA k : report.current[k][figure], keys)
                        = total(report.days, figure)
               /\ MapThenSumSet(LAMBDA k : report.current[k].nights, keys)
                     = Cardinality(DOMAIN report.days)
               /\ report.granularity = "week" =>
                     \A d \in DOMAIN report.days :
                        \E k \in keys : k % 7 = 0 /\ k <= d /\ d <= k + 6
      [] report.kind = "TODAY" ->
            LET kpis == computeKpis(report.days)
            IN report.current = [occupancyPct |-> kpis.occupancyPct, roomsSold |-> kpis.roomsSold,
                                 revenue |-> kpis.totalRevenue]
      [] report.kind = "CHANNELS" -> isWhole(report.current, report.facts)
      [] report.kind = "CLEANING" ->
            \A s \in DOMAIN report.current :
                LET line == report.current[s]
                    off  == 2 * (line.averageMinutes * line.tasks - 10 * line.minutes)
                IN /\ line.tasks > 0 => off <= line.tasks /\ - off <= line.tasks
                   /\ (\A f \in report.facts : f.staff = s => f.rework = f.tasks) /\ line.tasks > 0 =>
                         line.reworkRate = 1000
=============================================================================
