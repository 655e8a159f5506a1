------------------------------- MODULE Reports -------------------------------
(***************************************************************************)
(* The figures that the administrators' pages and the owner's dashboard    *)
(* show of a period: the list of stores with its totals, the summary and   *)
(* the series of one store, the series of all, and the dashboard's stats.  *)
(*                                                                         *)
(* A figure is computed in several ways: by grouping in the database, by   *)
(* filling buckets in memory, per store and over all. An instant is a      *)
(* number of ticks in UTC; a period is given as days of Korea.             *)
(***************************************************************************)
EXTENDS ReservationStatus, Integers, FiniteSets

CONSTANTS
    Store, Reservation, PaymentId,
    Amount,         \* Reservation \union PaymentId -> total_amount, amount_total
    NoRow, NoAnswer,
    DAY,            \* ticks of a day
    KST_OFFSET,     \* ticks by which Korea is ahead
    WEEK, MONTH,    \* days
    MAX_RANGE_DAYS,
    MaxTime,        \* bound on the clock
    MaxEvents       \* bound on what happens besides

ASSUME ReportsAssumption ==
    /\ IsFiniteSet(Store) /\ IsFiniteSet(Reservation) /\ IsFiniteSet(PaymentId)
    /\ Amount \in [Reservation \union PaymentId -> Nat]
    /\ Reservation \intersect PaymentId = {}
    /\ NoRow \notin Store \union Reservation
    /\ {DAY, WEEK, MONTH, MAX_RANGE_DAYS} \subseteq Nat \ {0}
    /\ KST_OFFSET \in 0..DAY - 1
    /\ {MaxTime, MaxEvents} \subseteq Nat

VARIABLES
    rows,       \* reservations
    payments,
    closed,     \* stores with a closed_at
    answer,     \* the last report, of the rows as they are
    instant, events

reportVars == <<rows, payments, closed, answer, instant, events>>

\* status NULL is "none"; group NULL is NoRow.
ReservationRow ==
    [store : Store, group : Reservation \union {NoRow}, created : 0..MaxTime,
     status : Status \union {"none"}, paid : BOOLEAN]

PaymentRow ==
    [store : Store, status : {"SUCCESS", "CANCELED", "REFUNDED", "FAILED"},
     paid : 0..MaxTime, canceled : 0..MaxTime + 1]

NotCanceled == MaxTime + 1

----------------------------------------------------------------------------
(* Periods *)

KstDay(t) == (t + KST_OFFSET) \div DAY

Days == 0..KstDay(MaxTime)

\* getKstDateRange: from the first instant of a day to before the one after the
\* last day.
InRange(t, from, to) ==
    from * DAY - KST_OFFSET <= t /\ t < (to + 1) * DAY - KST_OFFSET

Granularity == {"day", "week", "month"}

toBucketKeyFromDate(day, granularity) ==
    CASE granularity = "day" -> day
      [] granularity = "week" -> day - (day % WEEK)
      [] granularity = "month" -> day \div MONTH

\* Faulty: the date of an instant is taken in UTC.
UtcBucketKey(t, granularity) == toBucketKeyFromDate(t \div DAY, granularity)

toBucketKey(t, granularity) == toBucketKeyFromDate(KstDay(t), granularity)

\* A key of a week or a month may be that of a day before the period.
buildBucketKeys(from, to, granularity) ==
    {toBucketKeyFromDate(d, granularity) : d \in from..to}

----------------------------------------------------------------------------
(* Figures *)

\* The sum of a function's values: how many units they have together.
Units(f) == UNION {{x} \X (1..f[x]) : x \in DOMAIN f}
SumOf(f) == Cardinality(Units(f))

Total(ids) == SumOf([i \in ids |-> Amount[i]])

Reservations == {r \in Reservation : rows[r] # NoRow}
PaymentsMade == {p \in PaymentId : payments[p] # NoRow}

isRepresentative(r) == rows[r].group \in {NoRow, r}

coalesceStatus(s) == IF s = "none" THEN "pending" ELSE s

PAYMENT_REVENUE_STATUSES == {"SUCCESS", "CANCELED", "REFUNDED"}
PAYMENT_REFUND_STATUSES == {"CANCELED", "REFUNDED"}

CreatedIn(S, from, to) ==
    {r \in Reservations : rows[r].store \in S /\ InRange(rows[r].created, from, to)}

PaidIn(S, from, to) ==
    {p \in PaymentsMade : /\ payments[p].store \in S
                          /\ payments[p].status \in PAYMENT_REVENUE_STATUSES
                          /\ InRange(payments[p].paid, from, to)}

RefundedIn(S, from, to) ==
    {p \in PaymentsMade : /\ payments[p].store \in S
                          /\ payments[p].status \in PAYMENT_REFUND_STATUSES
                          /\ payments[p].canceled # NotCanceled
                          /\ InRange(payments[p].canceled, from, to)}

Counted(S, from, to, statuses) ==
    Cardinality({r \in CreatedIn(S, from, to) :
                    isRepresentative(r) /\ coalesceStatus(rows[r].status) \in statuses})

\* aggregateByStore for one store, and buildMetrics; the rates are left out.
Metrics(s, from, to) ==
    LET count(statuses) == Counted({s}, from, to, statuses) IN
    [reservationRevenue |->
        Total({r \in CreatedIn({s}, from, to) : rows[r].paid}),
     paymentRevenue |-> Total(PaidIn({s}, from, to)),
     refundedAmount |-> Total(RefundedIn({s}, from, to)),
     paymentCount |-> Cardinality(PaidIn({s}, from, to)),
     pendingCount |-> count({"pending", "pending_approval"}),
     activeCount |-> count({"confirmed", "in_progress"}),
     completedCount |-> count({"completed"}),
     cancelledCount |-> count({"cancelled"}),
     rejectedCount |-> count({"rejected"}),
     noShowCount |-> count({"no_show"})]

Figure == {"reservationRevenue", "paymentRevenue", "refundedAmount",
           "paymentCount", "pendingCount", "activeCount", "completedCount",
           "cancelledCount", "rejectedCount", "noShowCount"}

\* The figures of a series; its reservationCount is the sum of all the counts.
SeriesFigure == {"reservationRevenue", "paymentRevenue", "refundedAmount",
                 "completedCount", "cancelledCount", "rejectedCount", "noShowCount"}

reservationCount(m) ==
    m.pendingCount + m.activeCount + m.completedCount + m.cancelledCount
        + m.rejectedCount + m.noShowCount

sumMetricsInputs(S, from, to) ==
    LET metrics == [s \in S |-> Metrics(s, from, to)] IN
    [f \in Figure |-> SumOf([s \in S |-> metrics[s][f]])]

\* One bucket of buildTimeseries, which reads the rows of the period.
Bucket(S, from, to, granularity, key) ==
    LET at(t) == toBucketKey(t, granularity) = key
        created == {r \in CreatedIn(S, from, to) : at(rows[r].created)}
        counted == {r \in created : isRepresentative(r)}
        count(s) == Cardinality({r \in counted : coalesceStatus(rows[r].status) = s}) IN
    [reservationRevenue |-> Total({r \in created : rows[r].paid}),
     paymentRevenue |->
        Total({p \in PaidIn(S, from, to) : at(payments[p].paid)}),
     refundedAmount |->
        Total({p \in RefundedIn(S, from, to) : at(payments[p].canceled)}),
     reservationCount |-> Cardinality(counted),
     completedCount |-> count("completed"),
     cancelledCount |-> count("cancelled"),
     rejectedCount |-> count("rejected"),
     noShowCount |-> count("no_show")]

buildTimeseries(S, from, to, granularity) ==
    [key \in buildBucketKeys(from, to, granularity) |->
        Bucket(S, from, to, granularity, key)]

\* Faulty: the revenue of a booking is that of its representative.
RepresentativeRevenue(s, from, to) ==
    LET paid == {r \in CreatedIn({s}, from, to) : rows[r].paid /\ isRepresentative(r)} IN
    [total |-> Total(paid), count |-> Cardinality(paid)]

\* The dashboard's revenue: rows of any status.
DashboardRevenue(s, from, to) ==
    LET paid == {r \in CreatedIn({s}, from, to) : rows[r].paid} IN
    [total |-> Total(paid), count |-> Cardinality(paid)]

----------------------------------------------------------------------------
(* What the reports are about *)

Happens ==
    /\ events < MaxEvents
    /\ events' = events + 1
    /\ answer' = NoAnswer

\* status and paid. The columns may be NULL, which the server does not write; no
\* such row is paid.
Arrivals == {<<"pending", FALSE>>, <<"pending", TRUE>>, <<"none", FALSE>>}

\* A row on its own, or one of the booking of a row of the same store; paid at
\* once or not.
Reserve(r, s, g, status, paid) ==
    /\ Happens
    /\ rows[r] = NoRow
    /\ g \in {NoRow, r} \/ (g \in Reservations /\ rows[g].group = g
                               /\ rows[g].store = s)
    /\ s \notin closed
    /\ rows' = [rows EXCEPT ![r] = [store |-> s, group |-> g, created |-> instant,
                                    status |-> status, paid |-> paid]]
    /\ UNCHANGED <<payments, closed, instant>>

ChangeStatus(r, to) ==
    /\ Happens
    /\ rows[r] # NoRow
    /\ rows' = [rows EXCEPT ![r].status = to]
    /\ UNCHANGED <<payments, closed, instant>>

MarkPaid(r) ==
    /\ Happens
    /\ rows[r] # NoRow
    /\ rows' = [rows EXCEPT ![r].paid = TRUE]
    /\ UNCHANGED <<payments, closed, instant>>

Pay(p, s) ==
    /\ Happens
    /\ payments[p] = NoRow
    /\ payments' = [payments EXCEPT ![p] =
          [store |-> s, status |-> "SUCCESS", paid |-> instant, canceled |-> NotCanceled]]
    /\ UNCHANGED <<rows, closed, instant>>

Refund(p, status) ==
    /\ Happens
    /\ payments[p] # NoRow
    /\ payments' = [payments EXCEPT ![p].status = status, ![p].canceled = instant]
    /\ UNCHANGED <<rows, closed, instant>>

CloseStore(s) ==
    /\ Happens
    /\ closed' = closed \union {s}
    /\ UNCHANGED <<rows, payments, instant>>

InstantPasses ==
    /\ instant < MaxTime
    /\ instant' = instant + 1
    /\ answer' = NoAnswer
    /\ UNCHANGED <<rows, payments, closed, events>>

----------------------------------------------------------------------------
(* The reports *)

Answer(endpoint, stores, from, to, granularity, body) ==
    /\ from <= to /\ to - from < MAX_RANGE_DAYS
    /\ answer = NoAnswer
    /\ answer' = [endpoint |-> endpoint, stores |-> stores, from |-> from,
                  to |-> to, granularity |-> granularity, body |-> body]
    /\ UNCHANGED <<rows, payments, closed, instant, events>>

\* All stores that are open, or those a filter leaves. Without a filter the
\* locales are counted over the rows of all stores.
listStores(from, to, filter) ==
    LET listed == filter \ closed
        scope == IF filter = Store THEN Store ELSE listed IN
    Answer("list", listed, from, to, "day",
           [totals |-> sumMetricsInputs(listed, from, to),
            locales |-> Counted(scope, from, to, Status)])

getStoreSummary(s, from, to) ==
    Answer("summary", {s}, from, to, "day", Metrics(s, from, to))

getStoreTimeseries(s, from, to, granularity) ==
    Answer("series", {s}, from, to, granularity,
           buildTimeseries({s}, from, to, granularity))

getPlatformTimeseries(from, to, granularity) ==
    Answer("series", Store, from, to, granularity,
           buildTimeseries(Store, from, to, granularity))

getStats(s, from) ==
    Answer("stats", {s}, from, KstDay(instant), "day",
           DashboardRevenue(s, from, KstDay(instant)))

ReportsTypeOK ==
    /\ rows \in [Reservation -> ReservationRow \union {NoRow}]
    /\ payments \in [PaymentId -> PaymentRow \union {NoRow}]
    /\ closed \in SUBSET Store
    /\ instant \in 0..MaxTime /\ events \in 0..MaxEvents

ReportsInit ==
    /\ rows = [r \in Reservation |-> NoRow]
    /\ payments = [p \in PaymentId |-> NoRow]
    /\ closed = {}
    /\ answer = NoAnswer
    /\ instant = 0 /\ events = 0

ReportsNext ==
    \/ \E s \in Store :
          \/ \E r \in Reservation, g \in Reservation \union {NoRow},
                arrival \in Arrivals : Reserve(r, s, g, arrival[1], arrival[2])
          \/ \E p \in PaymentId : Pay(p, s)
          \/ CloseStore(s)
    \/ \E r \in Reservation :
          MarkPaid(r) \/ \E to \in {"confirmed", "no_show"} : ChangeStatus(r, to)
    \/ \E p \in PaymentId, status \in PAYMENT_REFUND_STATUSES : Refund(p, status)
    \/ InstantPasses
    \/ \E from, to \in Days :
          \/ \E filter \in SUBSET Store : listStores(from, to, filter)
          \/ \E s \in Store : getStoreSummary(s, from, to)
          \/ \E granularity \in Granularity :
                \/ \E s \in Store : getStoreTimeseries(s, from, to, granularity)
                \/ getPlatformTimeseries(from, to, granularity)
    \/ \E s \in Store, from \in Days : getStats(s, from)

ReportsSpec == ReportsInit /\ [][ReportsNext]_reportVars

----------------------------------------------------------------------------
Answered(endpoint) == answer # NoAnswer /\ answer.endpoint = endpoint

OverBuckets(field) ==
    SumOf([k \in DOMAIN answer.body |-> answer.body[k][field]])

SeriesIs(m) ==
    /\ \A f \in SeriesFigure : OverBuckets(f) = m[f]
    /\ OverBuckets("reservationCount") = reservationCount(m)

\* By days, weeks or months, a series adds up to what the summaries of its
\* stores say of the period: nothing falls between two buckets or out of the
\* first or the last (admin-store-timeseries.service.ts, buildTimeseries;
\* admin-store-metrics.service.ts, aggregateByStore).
SeriesAddsUp ==
    Answered("series") =>
        SeriesIs(sumMetricsInputs(answer.stores, answer.from, answer.to))

\* The dashboard and the administrators' pages show the same revenue of a store
\* for the same days (docs/api/admin/store-operations.md:293;
\* dashboard-stats.service.ts, getStats).
SameRevenue ==
    Answered("stats") => \A s \in answer.stores :
        answer.body.total = Metrics(s, answer.from, answer.to).reservationRevenue

\* The locales of the list count the bookings that its totals count
\* (docs/api/admin/store-operations.md:161), if no store was closed.
LocalesAddUp ==
    Answered("list") /\ closed = {} =>
        answer.body.locales = reservationCount(answer.body.totals)

\* Pages that show a figure of the same stores and days show the same one.
FiguresAgree == SeriesAddsUp /\ SameRevenue /\ LocalesAddUp

\* The buckets of all stores add up to the totals of the list without a filter
\* (docs/api/admin/store-operations.md:263).
TotalsMatchSeries ==
    Answered("series") /\ answer.stores = Store =>
        SeriesIs(sumMetricsInputs(Store \ closed, answer.from, answer.to))
=============================================================================
