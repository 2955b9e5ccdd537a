----------------------------- MODULE Dashboard -----------------------------
(***************************************************************************)
(* The dashboard (dashboard_service.go over dashboard_repository.go), the  *)
(* sidebar's counters (navigation_repository.go) and the status filter of  *)
(* the request list, over requests that come in and move on while they are *)
(* read.  An overview makes its reads in any order, each of them a         *)
(* statement of its own; the activity feed is left out.                    *)
(*                                                                         *)
(* Time is counted in ticks, and months and years are as many ticks and    *)
(* months long as the constants say: what matters is that they begin Zone  *)
(* ticks earlier than in UTC.                                              *)
(***************************************************************************)
EXTENDS RequestVocabulary, FiniteSetsExt

CONSTANTS
  Requests,      \* the requests there may ever be, numbered as their ids sort
  Categories,    \* the codes of the asset types
  MonthTicks, YearMonths, Zone,
  MinYear, MaxYear,   \* dashboardMinYear and dashboardMaxYear
  LastTick,      \* how far time goes
  Limit          \* dashboardAttentionLimit

DashboardAssumption ==
  /\ Requests \subseteq Nat /\ IsFiniteSet(Requests)
  /\ {MonthTicks, YearMonths, MinYear, Limit} \subseteq Nat \ {0}
  /\ {Zone, LastTick, MaxYear} \subseteq Nat

VARIABLES
  now,        \* the clock
  requests,   \* status, created_at, category and priority of each request
  page        \* what the overview in progress has read

vars == <<now, requests, page>>

NoRequest == [status |-> Absent, created |-> 0, category |-> "", priority |-> ""]

Reads == {"Stats", "CategoryMonthCounts", "AttentionRequests"}
NoStats == [thisMonth |-> 0, pending |-> 0, inProgress |-> 0]
NoPage ==
  [at |-> "closed", now |-> 0, year |-> 0, left |-> Reads, stats |-> NoStats,
   bars |-> <<>>, attention |-> {}]

Init ==
  /\ now = 0
  /\ requests = [r \in Requests |-> NoRequest]
  /\ page = NoPage

---------------------------------------------------------------------------
(* Months and years in businessZone.  Months are numbered from the first   *)
(* of MinYear on.                                                          *)
MonthNumber(t) == (t + Zone) \div MonthTicks
Year(t) == MinYear + MonthNumber(t) \div YearMonths
Month(t) == 1 + (MonthNumber(t) % YearMonths)

(* The clock stops before the last year to choose is over.                 *)
TimeAssumption == Year(LastTick) =< MaxYear

monthStart(t) == MonthNumber(t) * MonthTicks - Zone

(* The mutant takes the year to begin where it does in UTC.                *)
yearStartMutant(year) == (year - MinYear) * YearMonths * MonthTicks
yearStart(year) == (year - MinYear) * YearMonths * MonthTicks - Zone

monthsToShow(year, t) ==
  IF year < Year(t) THEN YearMonths ELSE IF year = Year(t) THEN Month(t) ELSE 0

---------------------------------------------------------------------------
(* The statements.                                                         *)
Existing == {r \in Requests : requests[r].status # Absent}
WithStatus(statuses) == {r \in Existing : requests[r].status \in statuses}
CreatedIn(from, to) ==
  {r \in Existing : from =< requests[r].created /\ requests[r].created < to}

(* The mutant takes requests whose fulfillment is over for in progress.    *)
StatsMutant(t) ==
  [thisMonth |-> Cardinality(CreatedIn(monthStart(t), monthStart(t) + MonthTicks)),
   pending |-> Cardinality(WithStatus({"WAITING_APPROVAL"})),
   inProgress |-> Cardinality(WithStatus({"APPROVED"} \cup PastApproval))]

Stats(t) ==
  [thisMonth |-> Cardinality(CreatedIn(monthStart(t), monthStart(t) + MonthTicks)),
   pending |-> Cardinality(WithStatus({"WAITING_APPROVAL"})),
   inProgress |-> Cardinality(WithStatus({"APPROVED", "FULFILLMENT"}))]

(* CategoryMonthCounts, folded by foldMonths: a bar is what the requests   *)
(* of a year, a month shown and a category on the chart come to.           *)
Charted == {"Barcode", "Android", "Server", "Mobile Printer"}

InBar(r, year, month, category) ==
  /\ r \in CreatedIn(yearStart(year), yearStart(year + 1))
  /\ Month(requests[r].created) = month
  /\ requests[r].category = category

foldMonths(year, n) ==
  [month \in 1 .. n |->
     [c \in Charted |-> Cardinality({r \in Requests : InBar(r, year, month, c)})]]

(* AttentionRequests: waiting, the urgent first, then the oldest.          *)
Rank(priority) == IF priority = "urgent" THEN 0 ELSE IF priority = "high" THEN 1 ELSE 2

Before(r, s) ==
  LET p == Rank(requests[r].priority)
      q == Rank(requests[s].priority)
      since == requests[r].created
      others == requests[s].created
  IN  p < q \/ (p = q /\ (since < others \/ (since = others /\ r < s)))

AttentionRequests ==
  LET waiting == WithStatus({"WAITING_APPROVAL"}) IN
  {r \in waiting : Cardinality({s \in waiting : Before(s, r)}) < Limit}

(* The sidebar of a master user, and of one who may open the fulfillment.  *)
CountWaitingApproval == Cardinality(WithStatus({"WAITING_APPROVAL"}))
CountInProgress == Cardinality(WithStatus({"APPROVED", "FULFILLMENT"}))

(* The status filter of the list.                                          *)
statusesForFilter ==
  [Waiting |-> {"WAITING_APPROVAL"}, InProgress |-> {"APPROVED", "FULFILLMENT"},
   Completed |-> {"COMPLETED"}, Rejected |-> {"REJECTED"}, Revision |-> {"REVISION"}]

---------------------------------------------------------------------------
(* What happens meanwhile.                                                 *)
Tick ==
  /\ now < LastTick
  /\ now' = now + 1
  /\ UNCHANGED <<requests, page>>

(* A request that changes between the reads of a page tears it: its parts  *)
(* are of different moments, and it is not followed any further.           *)
Disturbed == page' = IF page.at = "closed" THEN page ELSE [NoPage EXCEPT !.at = "torn"]

Submit(r, category, priority) ==
  /\ requests[r].status = Absent
  /\ requests' = [requests EXCEPT ![r] =
       [status |-> "WAITING_APPROVAL", created |-> now,
        category |-> category, priority |-> priority]]
  /\ Disturbed
  /\ UNCHANGED now

(* The steps of a request's life, as RequestLifecycle has them.            *)
Following ==
  [status \in RequestStatus |->
     CASE status = "WAITING_APPROVAL" -> {"APPROVED", "REJECTED"}
       [] status = "APPROVED" -> {"FULFILLMENT"}
       [] status = "FULFILLMENT" -> {"COMPLETED"}
       [] OTHER -> {}]

MoveOn(r) ==
  /\ \E status \in Following[requests[r].status] :
       requests' = [requests EXCEPT ![r].status = status]
  /\ Disturbed
  /\ UNCHANGED now

---------------------------------------------------------------------------
(* Overview, of a year or, year 0, of this one.                            *)
Open(year) ==
  LET asked == IF year = 0 THEN Year(now) ELSE year IN
  /\ page.at = "closed"
  /\ asked \in MinYear .. MaxYear
  /\ page' = [NoPage EXCEPT !.at = "reading", !.now = now, !.year = asked]
  /\ UNCHANGED <<now, requests>>

Read(what, field, value) ==
  /\ page.at = "reading" /\ what \in page.left
  /\ page' = [page EXCEPT !.left = @ \ {what}, ![field] = value]
  /\ UNCHANGED <<now, requests>>

ReadStats == Read("Stats", "stats", Stats(page.now))
ReadCounts ==
  Read("CategoryMonthCounts", "bars",
       foldMonths(page.year, monthsToShow(page.year, page.now)))
ReadAttention == Read("AttentionRequests", "attention", AttentionRequests)

(* The answer is sent, or one of the reads failed and the call with it.    *)
Close ==
  /\ page.at # "closed"
  /\ page' = NoPage
  /\ UNCHANGED <<now, requests>>

Next ==
  \/ Tick
  \/ \E r \in Requests :
       \/ \E category \in Categories, priority \in {"urgent", ""} : Submit(r, category, priority)
       \/ MoveOn(r)
  \/ \E year \in 0 .. MaxYear + 1 : Open(year)
  \/ ReadStats \/ ReadCounts \/ ReadAttention \/ Close

Spec == Init /\ [][Next]_vars

---------------------------------------------------------------------------
(* Read apart as they are, the parts of a page agree if no request changed *)
(* meanwhile, though the month, or the year, may have: this month's bars   *)
(* add up to its tile, the sidebar and the filters of the list count what  *)
(* the tiles count, each request is under one filter, and the table lists  *)
(* as many waiting requests as it has room for, an urgent one among them   *)
(* if there is any.                                                        *)
Listed(filter) == WithStatus(statusesForFilter[filter])

PageAgrees ==
  page.left = {}
    => /\ page.year = Year(page.now) /\ (\A r \in Existing : requests[r].category \in Charted)
            => page.stats.thisMonth
                 = MapThenSumSet(LAMBDA c : page.bars[Month(page.now)][c], Charted)
       /\ page.stats.pending = Cardinality(Listed("Waiting"))
       /\ page.stats.inProgress = Cardinality(Listed("InProgress"))
       /\ page.stats.pending = CountWaitingApproval
       /\ page.stats.inProgress = CountInProgress
       /\ \A r \in Existing :
            Cardinality({f \in DOMAIN statusesForFilter : r \in Listed(f)}) = 1
       /\ Cardinality(page.attention) = Min({Limit, page.stats.pending})
       /\ (\E r \in Listed("Waiting") : requests[r].priority = "urgent")
            => \E r \in page.attention : requests[r].priority = "urgent"

(* Through all years there are to choose, a request of a category on the   *)
(* chart is in exactly one bar, that of the month it was made in ("so a    *)
(* request made at 06:30 on the 1st does not count toward the previous     *)
(* month").                                                                *)
BarsWith(r) ==
  {bar \in (MinYear .. MaxYear) \X (1 .. YearMonths) :
     /\ bar[2] =< monthsToShow(bar[1], now)
     /\ \E c \in Charted : InBar(r, bar[1], bar[2], c)}

EachInOneBar ==
  \A r \in Existing :
    requests[r].category \in Charted
      => BarsWith(r) = {<<Year(requests[r].created), Month(requests[r].created)>>}
=============================================================================
