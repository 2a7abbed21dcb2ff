------------------------------ MODULE RapidApi ------------------------------
(***************************************************************************)
(* The requests to RapidAPI: the daily tallies (NbaApiUsage), the monthly  *)
(* count that responses report (quota.py), and who asks: the injury button *)
(* and command, the schedule's load and the news pull.                     *)
(*                                                                         *)
(* The injuries are fetched inside the transaction that stores them, so    *)
(* that their reservation, the reported count and the locks on both last   *)
(* until it ends and are undone when it fails; the other two reserve and   *)
(* record each in a transaction of its own.  A tally row that is not there *)
(* yet is inserted, and a second insert of it waits as for a lock.         *)
(***************************************************************************)
EXTENDS Integers, FiniteSets

CONSTANTS
  Workers,
  Features,            \* of "injuries", "schedule" and "news", those in use
  Failing,             \* those whose requests or storing may fail
  LowerLimit, HigherLimit,  \* a user's injury updates a day, and a superuser's
  ScheduleLimit, NewsLimit,
  Ranges,              \* requests a load of the schedule takes
  Reserve, MonthlyLimit,
  MayForce,            \* whether commands are run with --force
  MonthDays,
  OthersLeave,         \* bound: other servers leave at least so many requests
  MaxMade, LastDay     \* bounds: no request begins after so many of a day, or days

ApiConstants ==
  /\ Features \subseteq {"injuries", "schedule", "news"} /\ Failing \subseteq Features
  /\ LowerLimit \in Nat /\ HigherLimit \in Nat /\ LowerLimit <= HigherLimit
  /\ {ScheduleLimit, NewsLimit, Ranges, Reserve, MonthlyLimit, MonthDays, MaxMade, LastDay} \subseteq Nat \ {0}
  /\ MayForce \in BOOLEAN /\ OthersLeave \in Nat

VARIABLES
  day,
  remaining,           \* at RapidAPI: each provider's requests left this month
  quota,               \* ApiQuota rows
  tally,               \* NbaApiUsage rows
  made,                \* the requests sent out, by the day they were reserved
  undone,              \* those of them whose place in the tally was given back
  reported_low,        \* a response of this month has said too few are left
  job

vars == <<day, remaining, quota, tally, made, undone, reported_low, job>>

-----------------------------------------------------------------------------
Days == 1..LastDay
Providers == {"basketball", "rotowire"}
Provider(f) == IF f = "news" THEN "rotowire" ELSE "basketball"

NoQuota == [remaining |-> Reserve, resets_on |-> 0]
Quota == [remaining : 0..(MonthlyLimit + Reserve), resets_on : 0..(LastDay + MonthDays)]

DailyLimit(f) ==
  CASE f = "injuries" -> HigherLimit [] f = "schedule" -> ScheduleLimit [] f = "news" -> NewsLimit

\* A slip: one request more than a superuser's limit.
LimitForOneMore(f, superuser) ==
  IF f = "injuries" THEN IF superuser THEN HigherLimit + 1 ELSE LowerLimit ELSE DailyLimit(f)

\* daily_limit_for, and the limits of the other two.
LimitFor(f, superuser) == IF f = "injuries" /\ ~superuser THEN LowerLimit ELSE DailyLimit(f)

\* The reset the header announces: the first day of the next month.
Resets == ((day - 1) \div MonthDays + 1) * MonthDays + 1

\* A slip: the reserve itself may be used.
LowAtLast(p) == quota[p].remaining < Reserve - 1 /\ quota[p].resets_on > day

\* quota.low
Low(p) == quota[p].remaining < Reserve /\ quota[p].resets_on > day

Idle == [pc |-> "idle", feature |-> "news", superuser |-> FALSE, forced |-> FALSE, left |-> 0,
         day |-> 1, answer |-> "none", report |-> 0, reserved |-> FALSE, count |-> NoQuota]

At(w, pc) == job[w].pc = pc

\* Only the injuries keep what they write to themselves until they are done.
OneTransaction(f) == f = "injuries"

TallyLocked(w, f) == \E v \in Workers \ {w} :
  job[v].reserved /\ job[v].feature = f /\ job[v].day = day

QuotaLocked(w) == \E v \in Workers \ {w} :
  job[v].count # NoQuota /\ Provider(job[v].feature) = Provider(job[w].feature)

-----------------------------------------------------------------------------
(* The steps of a request *)

Goes(w, pc) == job' = [job EXCEPT ![w].pc = pc]
Ends(w) == job' = [job EXCEPT ![w] = Idle]

\* why_not_now: the schedule and the news look at the reserve before they begin.
MayBegin(f, forced) == f = "injuries" \/ forced \/ ~Low(Provider(f))

Begin(w, f, superuser, forced) ==
  /\ At(w, "idle") /\ MayBegin(f, forced) /\ made[f][day] < MaxMade
  /\ forced => MayForce /\ f # "injuries"
  /\ superuser => f = "injuries"
  /\ job' = [job EXCEPT ![w] = [Idle EXCEPT
       !.pc = IF f = "news" THEN "reserving" ELSE "checking",
       !.feature = f, !.superuser = superuser, !.forced = forced,
       !.left = IF f = "schedule" THEN Ranges ELSE 1]]
  /\ UNCHANGED <<day, remaining, quota, tally, made, undone, reported_low>>

\* check_monthly_reserve, before each request of the injuries and the schedule.
CheckReserve(w) ==
  /\ At(w, "checking")
  /\ Goes(w, IF Low(Provider(job[w].feature)) THEN "failing" ELSE "reserving")
  /\ UNCHANGED <<day, remaining, quota, tally, made, undone, reported_low>>

\* _reserve_api_call
ReserveCall(w) ==
  LET f == job[w].feature
  IN /\ At(w, "reserving") /\ ~TallyLocked(w, f)
     /\ IF tally[f][day] >= LimitFor(f, job[w].superuser)
        THEN Goes(w, "failing") /\ UNCHANGED tally
        ELSE /\ job' = [job EXCEPT ![w].pc = "sending", ![w].day = day,
                                   ![w].reserved = OneTransaction(f)]
             /\ tally' = IF OneTransaction(f) THEN tally ELSE [tally EXCEPT ![f][day] = @ + 1]
     /\ UNCHANGED <<day, remaining, quota, made, undone, reported_low>>

\* The request goes out and RapidAPI counts it.  Its answer may be an error,
\* with headers or, after a timeout, with none.
Send(w, answer) ==
  LET f == job[w].feature  p == Provider(f)
  IN /\ At(w, "sending")
     /\ answer = "ok" => remaining[p] > 0
     /\ answer # "ok" => f \in Failing \/ remaining[p] = 0
     /\ remaining' = [remaining EXCEPT ![p] = IF @ > 0 THEN @ - 1 ELSE 0]
     /\ made' = [made EXCEPT ![f][job[w].day] = @ + 1]
     /\ job' = [job EXCEPT ![w].pc = "answered", ![w].answer = answer,
                           ![w].report = remaining'[p], ![w].left = @ - 1]
     /\ UNCHANGED <<day, quota, tally, undone, reported_low>>

\* quota.record, whatever the answer was, and on to the next range or the end.
Record(w) ==
  LET f == job[w].feature
      p == Provider(f)
      count == [remaining |-> job[w].report, resets_on |-> Resets]
      next == IF job[w].answer # "ok" THEN "failing"
              ELSE IF job[w].left > 0 THEN "checking" ELSE "storing"
  IN /\ At(w, "answered")
     /\ IF job[w].answer = "lost"
        THEN Goes(w, next) /\ UNCHANGED <<quota, reported_low>>
        ELSE /\ ~QuotaLocked(w)
             /\ job' = [job EXCEPT ![w].pc = next, ![w].count = IF OneTransaction(f) THEN count ELSE @]
             /\ quota' = IF OneTransaction(f) THEN quota ELSE [quota EXCEPT ![p] = count]
             /\ reported_low' = [reported_low EXCEPT ![p] = @ \/ count.remaining < Reserve]
     /\ UNCHANGED <<day, remaining, tally, made, undone>>

\* What was fetched is stored, and a transaction of the whole commits.
Store(w) ==
  LET f == job[w].feature
  IN /\ At(w, "storing")
     /\ tally' = IF job[w].reserved THEN [tally EXCEPT ![f][job[w].day] = @ + 1] ELSE tally
     /\ quota' = IF job[w].count # NoQuota THEN [quota EXCEPT ![Provider(f)] = job[w].count] ELSE quota
     /\ Ends(w)
     /\ UNCHANGED <<day, remaining, made, undone, reported_low>>

StoreFails(w) ==
  /\ At(w, "storing") /\ job[w].feature \in Failing
  /\ Goes(w, "failing")
  /\ UNCHANGED <<day, remaining, quota, tally, made, undone, reported_low>>

\* A request that went out and whose place is not committed: what ends the
\* transaction early takes the place back, but not the request.
Spent(w) == job[w].reserved /\ ~At(w, "sending")

RollsBack(w) ==
  /\ undone' = IF Spent(w) THEN [undone EXCEPT ![job[w].day] = @ + 1] ELSE undone
  /\ Ends(w)

\* An exception, which the caller reports.
Fail(w) ==
  /\ At(w, "failing")
  /\ RollsBack(w)
  /\ UNCHANGED <<day, remaining, quota, tally, made, reported_low>>

\* A worker is killed, of a feature that may fail.
Crash(w) ==
  /\ ~At(w, "idle") /\ job[w].feature \in Failing
  /\ RollsBack(w)
  /\ UNCHANGED <<day, remaining, quota, tally, made, reported_low>>

OthersCall(p) ==
  /\ remaining[p] > OthersLeave
  /\ remaining' = [remaining EXCEPT ![p] = @ - 1]
  /\ UNCHANGED <<day, quota, tally, made, undone, reported_low, job>>

\* Midnight, and RapidAPI's count begins anew with the month.  No request
\* is on its way for longer than RAPID_API_TIMEOUT, so none over a month's end.
NextDay ==
  /\ day < LastDay
  /\ LET new_month == day % MonthDays = 0
     IN /\ new_month => \A w \in Workers : ~At(w, "answered")
        /\ remaining' = IF new_month THEN [p \in Providers |-> MonthlyLimit] ELSE remaining
        /\ reported_low' = IF new_month THEN [p \in Providers |-> FALSE] ELSE reported_low
  /\ day' = day + 1
  /\ UNCHANGED <<quota, tally, made, undone, job>>

-----------------------------------------------------------------------------
Init ==
  /\ day = 1
  /\ remaining = [p \in Providers |-> MonthlyLimit]
  /\ quota = [p \in Providers |-> NoQuota]
  /\ tally = [f \in Features |-> [d \in Days |-> 0]]
  /\ made = [f \in Features |-> [d \in Days |-> 0]]
  /\ undone = [d \in Days |-> 0]
  /\ reported_low = [p \in Providers |-> FALSE]
  /\ job = [w \in Workers |-> Idle]

GoOn(w) ==
  \/ CheckReserve(w) \/ ReserveCall(w) \/ Record(w) \/ Store(w) \/ StoreFails(w) \/ Fail(w)
  \/ \E answer \in {"ok", "error", "lost"} : Send(w, answer)

Next ==
  \/ \E w \in Workers :
       \/ \E f \in Features, superuser, forced \in BOOLEAN : Begin(w, f, superuser, forced)
       \/ GoOn(w) \/ Crash(w)
  \/ \E p \in Providers : OthersCall(p)
  \/ NextDay

Spec == Init /\ [][Next]_vars

\* Requests time out, and the database grants a lock in the order asked for.
Fairness == \A w \in Workers : SF_vars(GoOn(w))

-----------------------------------------------------------------------------
(* Properties *)

TypeOK ==
  /\ day \in Days
  /\ remaining \in [Providers -> 0..MonthlyLimit]
  /\ quota \in [Providers -> Quota]
  /\ tally \in [Features -> [Days -> Nat]] /\ made \in [Features -> [Days -> Nat]]
  /\ undone \in [Days -> Nat]
  /\ reported_low \in [Providers -> BOOLEAN]
  /\ \A w \in Workers : job[w].feature \in {"injuries", "schedule", "news"} /\ job[w].count \in Quota

\* No more requests go out than a day's limit, whoever asks at the same time, and
\* whatever fails of a load or a pull.  An update of the injuries that fails after
\* its request lets one more go out, and no more than that: it is one transaction,
\* which gives back the "one daily slot" it has consumed.
DailyLimitKept ==
  \A f \in Features, d \in Days :
    made[f][d] <= DailyLimit(f) + (IF OneTransaction(f) THEN undone[d] ELSE 0)

\* A user on the lower limit never makes an update after that many were made,
\* not counting those that failed.
UsersGetTheLowerLimit ==
  \A w \in Workers :
    /\ job[w].feature = "injuries" /\ ~job[w].superuser /\ made'["injuries"] # made["injuries"]
    /\ At(w, "sending") /\ job'[w].pc = "answered"
    => made["injuries"][job[w].day] < LowerLimit + undone[job[w].day]

\* "Both stop once RapidAPI reports fewer left than this": no request is
\* let past the check after a response of the month has said so.
StopsOnceReported ==
  \A w \in Workers : At(w, "checking") /\ job'[w].pc = "reserving" =>
    ~reported_low[Provider(job[w].feature)]

\* A count that speaks of an earlier month stops nobody: at the check, a
\* request is refused only while RapidAPI has fewer left than the reserve.
NotStoppedForNothing ==
  \A w \in Workers : At(w, "checking") /\ job'[w].pc = "failing" =>
    remaining[Provider(job[w].feature)] < Reserve
=============================================================================
