--------------------------- MODULE RapidApiProofs ---------------------------
(***************************************************************************)
(* Proofs about the requests to RapidAPI, for any number of workers, any   *)
(* limits and any calendar, with requests that fail, are lost or die: the  *)
(* loads of the schedule and the pulls of news never make more requests a  *)
(* day than their limit, and the injuries make only one more for each      *)
(* update that failed after its request (which takes its place in the      *)
(* tally back), nobody is stopped by a count of an earlier month, and a    *)
(* report that too few are left is heeded.                                 *)
(***************************************************************************)
EXTENDS RapidApi, FiniteSetTheorems, TLAPS

Instance == ApiConstants /\ IsFiniteSet(Workers)

\* The features that reserve in a transaction of its own.
OnTheirOwn == Features \ {"injuries"}

-----------------------------------------------------------------------------
(* The inductive invariant *)

Count == [remaining : Int, resets_on : Int]

Job == [pc : {"idle", "checking", "reserving", "sending", "answered", "storing", "failing"},
        feature : Features \union {"news"}, superuser : BOOLEAN, forced : BOOLEAN, left : Int,
        day : Days, answer : {"none", "ok", "error", "lost"}, report : Int,
        reserved : BOOLEAN, count : Count]

Shape ==
  /\ day \in Days
  /\ remaining \in [Providers -> Int]
  /\ quota \in [Providers -> Count]
  /\ tally \in [Features -> [Days -> Nat]]
  /\ made \in [Features -> [Days -> Nat]]
  /\ job \in [Workers -> Job]

\* Whoever is under way is of a feature in use, and only the injuries hold a
\* reservation back.
JobsFit ==
  \A w \in Workers : ~At(w, "idle") =>
    /\ job[w].feature \in Features
    /\ job[w].reserved => job[w].feature = "injuries"

\* Those who have reserved a request of the day d and not sent it.
Sending(f, d) == {w \in Workers : At(w, "sending") /\ job[w].feature = f /\ job[w].day = d}

\* Each request made, and each about to be, was counted before; and nobody
\* counted beyond the limit.
Counted ==
  \A f \in OnTheirOwn, d \in Days :
    /\ made[f][d] + Cardinality(Sending(f, d)) <= tally[f][d]
    /\ tally[f][d] <= DailyLimit(f)

ApiInv == Shape /\ JobsFit /\ Counted

-----------------------------------------------------------------------------
(* Facts about the constants *)

LEMMA LimitsAreNumbers ==
  ASSUME Instance, NEW f \in Features
  PROVE  DailyLimit(f) \in Nat
BY DEF Instance, ApiConstants, DailyLimit

LEMMA OneLimit ==
  ASSUME Instance, NEW f \in OnTheirOwn, NEW superuser
  PROVE  LimitFor(f, superuser) = DailyLimit(f) /\ ~OneTransaction(f) /\ f \in Features
BY DEF OnTheirOwn, LimitFor, OneTransaction

LEMMA IdleFits ==
  ASSUME Instance
  PROVE  Idle \in Job
<1>1. 1 \in Days
  BY DEF Instance, ApiConstants, Days
<1>2. NoQuota \in Count
  BY DEF Instance, ApiConstants, NoQuota, Count
<1> QED BY <1>1, <1>2 DEF Idle, Job

LEMMA ResetIsADay ==
  ASSUME Instance, day \in Days
  PROVE  Resets \in Int
<1>1. day \in Int /\ MonthDays \in Nat \ {0}
  BY DEF Instance, ApiConstants, Days
<1>2. (day - 1) \div MonthDays \in Int
  BY <1>1
<1> QED BY <1>1, <1>2 DEF Resets

LEMMA SendingIsFinite ==
  ASSUME Instance, NEW f, NEW d
  PROVE  IsFiniteSet(Sending(f, d)) /\ Cardinality(Sending(f, d)) \in Nat
BY FS_Subset, FS_CardinalityType DEF Instance, Sending

LEMMA InitInv ==
  ASSUME Instance, Init
  PROVE  ApiInv
<1>1. Shape
  <2>1. 1 \in Days /\ MonthlyLimit \in Int
    BY DEF Instance, ApiConstants, Days
  <2>2. NoQuota \in Count
    BY DEF Instance, ApiConstants, NoQuota, Count
  <2> QED BY <2>1, <2>2, IdleFits DEF Init, Shape
<1>2. \A w \in Workers : job[w].pc = "idle"
  BY DEF Init, Idle
<1>3. JobsFit
  BY <1>2 DEF JobsFit, At
<1>4. Counted
  <2> SUFFICES ASSUME NEW f \in OnTheirOwn, NEW d \in Days
               PROVE  made[f][d] + Cardinality(Sending(f, d)) <= tally[f][d] /\ tally[f][d] <= DailyLimit(f)
    BY DEF Counted
  <2>1. Sending(f, d) = {}
    BY <1>2 DEF Sending, At
  <2>2. Cardinality(Sending(f, d)) = 0
    BY <2>1, FS_EmptySet
  <2>3. f \in Features /\ made[f][d] = 0 /\ tally[f][d] = 0
    BY DEF Init, OnTheirOwn
  <2> QED BY <2>2, <2>3, LimitsAreNumbers
<1> QED BY <1>1, <1>3, <1>4 DEF ApiInv

-----------------------------------------------------------------------------
(* Steps in general *)

\* Nothing is sent and no tally of these features changes; those about to send
\* are at most those who were.
LEMMA QuietStep ==
  ASSUME Instance, ApiInv, Shape', JobsFit', UNCHANGED made,
         \A f \in OnTheirOwn : tally'[f] = tally[f],
         \A w \in Workers : job'[w].pc = "sending" => job'[w] = job[w]
  PROVE  ApiInv'
<1> SUFFICES ASSUME NEW f \in OnTheirOwn, NEW d \in Days
             PROVE  /\ made[f][d] + Cardinality(Sending(f, d)') <= tally[f][d]
                    /\ tally[f][d] <= DailyLimit(f)
  BY DEF ApiInv, Counted
<1>1. Sending(f, d)' \subseteq Sending(f, d)
  BY DEF Sending, At
<1>2. Cardinality(Sending(f, d)') <= Cardinality(Sending(f, d)) /\ Cardinality(Sending(f, d)') \in Nat
  BY <1>1, SendingIsFinite, FS_Subset, FS_CardinalityType
<1>3. /\ made[f][d] \in Nat /\ tally[f][d] \in Nat
      /\ made[f][d] + Cardinality(Sending(f, d)) <= tally[f][d] /\ tally[f][d] <= DailyLimit(f)
      /\ Cardinality(Sending(f, d)) \in Nat
  BY SendingIsFinite DEF ApiInv, Shape, Counted, OnTheirOwn
<1> QED BY <1>2, <1>3

\* One worker goes on to where nothing is sent, and its job fits.
LEMMA JobStep ==
  ASSUME Instance, ApiInv, NEW w \in Workers, NEW j \in Job,
         j.pc # "sending",
         j.pc # "idle" => j.feature \in Features /\ (j.reserved => j.feature = "injuries"),
         job' = [job EXCEPT ![w] = j],
         UNCHANGED made, \A f \in OnTheirOwn : tally'[f] = tally[f],
         day' \in Days, remaining' \in [Providers -> Int], quota' \in [Providers -> Count],
         tally' \in [Features -> [Days -> Nat]]
  PROVE  ApiInv'
<1>1. job' \in [Workers -> Job] /\ \A v \in Workers : job'[v] = IF v = w THEN j ELSE job[v]
  BY DEF ApiInv, Shape
<1>2. Shape'
  BY <1>1 DEF ApiInv, Shape
<1>3. JobsFit'
  BY <1>1 DEF ApiInv, JobsFit, At
<1>4. \A v \in Workers : job'[v].pc = "sending" => job'[v] = job[v]
  BY <1>1
<1> QED BY <1>2, <1>3, <1>4, QuietStep

\* A request that is under way goes on to pc, or ends.
LEMMA GoesKeeps ==
  ASSUME Instance, ApiInv, NEW w \in Workers, ~At(w, "idle"),
         NEW pc \in {"checking", "reserving", "storing", "failing"}, Goes(w, pc),
         UNCHANGED <<day, remaining, quota, tally, made>>
  PROVE  ApiInv'
<1> DEFINE j == [job[w] EXCEPT !.pc = pc]
<1>1. job[w] \in Job /\ job \in [Workers -> Job]
  BY DEF ApiInv, Shape
<1>2. j \in Job /\ j.pc = pc /\ j.feature = job[w].feature /\ j.reserved = job[w].reserved
  BY <1>1 DEF Job
<1>3. job' = [job EXCEPT ![w] = j]
  BY <1>1 DEF Goes
<1>4. /\ day' \in Days /\ remaining' \in [Providers -> Int] /\ quota' \in [Providers -> Count]
      /\ tally' \in [Features -> [Days -> Nat]]
  BY DEF ApiInv, Shape
<1>5. job[w].feature \in Features /\ (job[w].reserved => job[w].feature = "injuries")
  BY DEF ApiInv, JobsFit
<1> HIDE DEF j
<1> QED BY <1>2, <1>3, <1>4, <1>5, JobStep

LEMMA EndsKeeps ==
  ASSUME Instance, ApiInv, NEW w \in Workers, Ends(w), UNCHANGED <<day, remaining, made>>,
         quota' \in [Providers -> Count], tally' \in [Features -> [Days -> Nat]],
         \A f \in OnTheirOwn : tally'[f] = tally[f]
  PROVE  ApiInv'
<1>1. Idle \in Job /\ Idle.pc = "idle"
  BY IdleFits DEF Idle
<1>2. day' \in Days /\ remaining' \in [Providers -> Int]
  BY DEF ApiInv, Shape
<1> QED BY <1>1, <1>2, JobStep DEF Ends

-----------------------------------------------------------------------------
(* Each step *)

LEMMA BeginKeeps ==
  ASSUME Instance, ApiInv, NEW w \in Workers, NEW f \in Features,
         NEW superuser \in BOOLEAN, NEW forced \in BOOLEAN, Begin(w, f, superuser, forced)
  PROVE  ApiInv'
<1> DEFINE j == [Idle EXCEPT
       !.pc = IF f = "news" THEN "reserving" ELSE "checking",
       !.feature = f, !.superuser = superuser, !.forced = forced,
       !.left = IF f = "schedule" THEN Ranges ELSE 1]
<1>1. (IF f = "schedule" THEN Ranges ELSE 1) \in Int
  BY DEF Instance, ApiConstants
<1>2. j \in Job
  <2>1. \A left \in Int, pc \in {"reserving", "checking"} :
          [Idle EXCEPT !.pc = pc, !.feature = f, !.superuser = superuser, !.forced = forced,
                       !.left = left] \in Job
    BY IdleFits DEF Job
  <2> QED BY <1>1, <2>1
<1>3. j.pc # "sending" /\ j.feature = f /\ ~j.reserved
  BY DEF Idle
<1>4. job' = [job EXCEPT ![w] = j] /\ UNCHANGED <<day, remaining, quota, tally, made>>
  BY DEF Begin
<1>5. /\ day' \in Days /\ remaining' \in [Providers -> Int] /\ quota' \in [Providers -> Count]
      /\ tally' \in [Features -> [Days -> Nat]]
  BY <1>4 DEF ApiInv, Shape
<1> HIDE DEF j
<1> QED BY <1>2, <1>3, <1>4, <1>5, JobStep

LEMMA CheckReserveKeeps ==
  ASSUME Instance, ApiInv, NEW w \in Workers, CheckReserve(w)
  PROVE  ApiInv'
<1>1. ~At(w, "idle")
  BY DEF CheckReserve, At
<1>2. PICK pc \in {"failing", "reserving"} : Goes(w, pc)
  BY DEF CheckReserve
<1> QED BY <1>1, <1>2, GoesKeeps DEF CheckReserve

\* Counted before it is sent.
LEMMA ReserveCallKeeps ==
  ASSUME Instance, ApiInv, NEW w \in Workers, ReserveCall(w)
  PROVE  ApiInv'
<1> DEFINE f == job[w].feature
           j == [job[w] EXCEPT !.pc = "sending", !.day = day, !.reserved = OneTransaction(f)]
<1>1. /\ job[w] \in Job /\ job \in [Workers -> Job] /\ job[w].pc = "reserving" /\ ~At(w, "idle")
      /\ f \in Features /\ day \in Days
      /\ tally \in [Features -> [Days -> Nat]] /\ made \in [Features -> [Days -> Nat]]
  BY DEF ApiInv, Shape, JobsFit, ReserveCall, At
<1>2. CASE tally[f][day] >= LimitFor(f, job[w].superuser)
  <2>1. Goes(w, "failing") /\ UNCHANGED <<day, remaining, quota, tally, made>>
    BY <1>2 DEF ReserveCall
  <2> QED BY <1>1, <2>1, GoesKeeps
<1>3. CASE ~(tally[f][day] >= LimitFor(f, job[w].superuser))
  <2>1. /\ job' = [job EXCEPT ![w] = j]
        /\ tally' = IF OneTransaction(f) THEN tally ELSE [tally EXCEPT ![f][day] = @ + 1]
        /\ UNCHANGED <<day, remaining, quota, made>>
    BY <1>1, <1>3 DEF ReserveCall
  <2>2. OneTransaction(f) \in BOOLEAN
    BY DEF OneTransaction
  <2>3. j \in Job /\ j.pc = "sending" /\ j.feature = f /\ j.day = day /\ j.reserved = OneTransaction(f)
    BY <1>1, <2>2 DEF Job
  <2> HIDE DEF j
  <2>4. \A v \in Workers : job'[v] = IF v = w THEN j ELSE job[v]
    BY <1>1, <2>1
  <2>5. tally' \in [Features -> [Days -> Nat]]
    BY <1>1, <2>1
  <2>6. Shape'
    BY <1>1, <2>1, <2>3, <2>5 DEF ApiInv, Shape
  <2>7. JobsFit'
    BY <1>1, <2>3, <2>4 DEF ApiInv, JobsFit, At, OneTransaction
  <2>8. Counted'
    <3> SUFFICES ASSUME NEW g \in OnTheirOwn, NEW d \in Days
                 PROVE  /\ made[g][d] + Cardinality(Sending(g, d)') <= tally'[g][d]
                        /\ tally'[g][d] <= DailyLimit(g)
      BY <2>1 DEF Counted
    <3>1. /\ g \in Features /\ made[g][d] \in Nat /\ tally[g][d] \in Nat
          /\ made[g][d] + Cardinality(Sending(g, d)) <= tally[g][d] /\ tally[g][d] <= DailyLimit(g)
          /\ DailyLimit(g) \in Nat /\ Cardinality(Sending(g, d)) \in Nat
          /\ IsFiniteSet(Sending(g, d))
      BY SendingIsFinite, LimitsAreNumbers DEF ApiInv, Shape, Counted, OnTheirOwn
    <3>2. CASE g = f /\ d = day
      <4>1. LimitFor(f, job[w].superuser) = DailyLimit(g) /\ ~OneTransaction(f)
        BY <3>2, OneLimit
      <4>2. tally'[g][d] = tally[g][d] + 1
        BY <1>1, <2>1, <3>2, <4>1
      <4>3. tally[g][d] < DailyLimit(g)
        BY <1>3, <3>1, <3>2, <4>1
      <4>4. Sending(g, d)' = Sending(g, d) \union {w} /\ w \notin Sending(g, d)
        BY <1>1, <2>3, <2>4, <3>2 DEF Sending, At
      <4>5. Cardinality(Sending(g, d)') = Cardinality(Sending(g, d)) + 1
        BY <3>1, <4>4, FS_AddElement
      <4> QED BY <3>1, <4>2, <4>3, <4>5
    <3>3. CASE ~(g = f /\ d = day)
      <4>1. Sending(g, d)' = Sending(g, d)
        BY <1>1, <2>3, <2>4, <3>3 DEF Sending, At
      <4>2. tally'[g][d] = tally[g][d]
        BY <1>1, <2>1, <3>1, <3>3
      <4> QED BY <3>1, <4>1, <4>2
    <3> QED BY <3>2, <3>3
  <2> QED BY <2>6, <2>7, <2>8 DEF ApiInv
<1> QED BY <1>2, <1>3

\* Sent, it is one of the requests made and no longer one about to be.
LEMMA SendKeeps ==
  ASSUME Instance, ApiInv, NEW w \in Workers, NEW answer \in {"ok", "error", "lost"}, Send(w, answer)
  PROVE  ApiInv'
<1> DEFINE f == job[w].feature
           p == Provider(f)
           j == [job[w] EXCEPT !.pc = "answered", !.answer = answer,
                               !.report = remaining'[p], !.left = @ - 1]
<1>1. /\ job[w] \in Job /\ job \in [Workers -> Job] /\ job[w].pc = "sending"
      /\ f \in Features /\ day \in Days /\ (job[w].reserved => f = "injuries")
      /\ tally \in [Features -> [Days -> Nat]] /\ made \in [Features -> [Days -> Nat]]
      /\ remaining \in [Providers -> Int] /\ quota \in [Providers -> Count]
  BY DEF ApiInv, Shape, JobsFit, Send, At
<1>2. /\ remaining' = [remaining EXCEPT ![p] = IF @ > 0 THEN @ - 1 ELSE 0]
      /\ made' = [made EXCEPT ![f][job[w].day] = @ + 1]
      /\ job' = [job EXCEPT ![w] = j]
      /\ UNCHANGED <<day, quota, tally>>
  <2>1. job' = [job EXCEPT ![w].pc = "answered", ![w].answer = answer,
                           ![w].report = remaining'[p], ![w].left = @ - 1]
    BY DEF Send
  <2>2. job' = [job EXCEPT ![w] = j]
    BY <1>1, <2>1 DEF Job
  <2> QED BY <2>2 DEF Send
<1>3. p \in Providers
  BY DEF Provider, Providers
<1>4. remaining' \in [Providers -> Int] /\ remaining'[p] \in Int
  BY <1>1, <1>2, <1>3
<1>5. /\ j \in Job /\ j.pc = "answered" /\ j.feature = f /\ j.reserved = job[w].reserved
      /\ job[w].day \in Days
  <2>1. \A report, left \in Int :
          [job[w] EXCEPT !.pc = "answered", !.answer = answer, !.report = report, !.left = left] \in Job
    BY <1>1 DEF Job
  <2>2. job[w].left - 1 \in Int /\ job[w].day \in Days
    BY <1>1 DEF Job
  <2> QED BY <1>1, <1>4, <2>1, <2>2 DEF Job
<1> HIDE DEF j, p
<1>6. \A v \in Workers : job'[v] = IF v = w THEN j ELSE job[v]
  BY <1>1, <1>2
<1>7. Shape'
  <2>1. job' \in [Workers -> Job] /\ made' \in [Features -> [Days -> Nat]]
    BY <1>1, <1>2, <1>5
  <2> QED BY <1>1, <1>2, <1>4, <2>1 DEF Shape
<1>8. JobsFit'
  BY <1>1, <1>5, <1>6 DEF ApiInv, JobsFit, At
<1>9. Counted'
  <2> SUFFICES ASSUME NEW g \in OnTheirOwn, NEW d \in Days
               PROVE  /\ made'[g][d] + Cardinality(Sending(g, d)') <= tally[g][d]
                      /\ tally[g][d] <= DailyLimit(g)
    BY <1>2 DEF Counted
  <2>1. /\ g \in Features /\ made[g][d] \in Nat /\ tally[g][d] \in Nat
        /\ made[g][d] + Cardinality(Sending(g, d)) <= tally[g][d] /\ tally[g][d] <= DailyLimit(g)
        /\ Cardinality(Sending(g, d)) \in Nat /\ IsFiniteSet(Sending(g, d))
    BY SendingIsFinite DEF ApiInv, Shape, Counted, OnTheirOwn
  <2>2. CASE g = f /\ d = job[w].day
    <3>1. made'[g][d] = made[g][d] + 1
      BY <1>1, <1>2, <1>5, <2>2
    <3>2. w \in Sending(g, d)
      BY <1>1, <2>2 DEF Sending, At
    <3>3. Sending(g, d)' = Sending(g, d) \ {w}
      BY SMTT(30), <1>5, <1>6 DEF Sending, At
    <3>4. Cardinality(Sending(g, d)') = Cardinality(Sending(g, d)) - 1
      <4>1. Cardinality(Sending(g, d) \ {w}) = Cardinality(Sending(g, d)) - 1
        BY ZenonT(60), <2>1, <3>2, FS_RemoveElement
      <4> QED BY <3>3, <4>1
    <3> QED BY <2>1, <3>1, <3>4
  <2>3. CASE ~(g = f /\ d = job[w].day)
    <3>1. Sending(g, d)' = Sending(g, d)
      BY <1>1, <1>5, <1>6, <2>3 DEF Sending, At
    <3>2. made'[g][d] = made[g][d]
      BY <1>1, <1>2, <1>5, <2>1, <2>3
    <3> QED BY <2>1, <3>1, <3>2
  <2> QED BY <2>2, <2>3
<1> QED BY <1>7, <1>8, <1>9 DEF ApiInv

LEMMA RecordKeeps ==
  ASSUME Instance, ApiInv, NEW w \in Workers, Record(w)
  PROVE  ApiInv'
<1> DEFINE f == job[w].feature
           p == Provider(f)
           count == [remaining |-> job[w].report, resets_on |-> Resets]
<1>1. /\ job[w] \in Job /\ job \in [Workers -> Job] /\ job[w].pc = "answered" /\ ~At(w, "idle")
      /\ f \in Features /\ (job[w].reserved => f = "injuries")
      /\ day \in Days /\ quota \in [Providers -> Count]
      /\ remaining \in [Providers -> Int] /\ tally \in [Features -> [Days -> Nat]]
  BY DEF ApiInv, Shape, JobsFit, Record, At
<1>2. PICK next \in {"failing", "checking", "storing"} :
        IF job[w].answer = "lost"
        THEN Goes(w, next) /\ UNCHANGED <<quota, reported_low>>
        ELSE /\ job' = [job EXCEPT ![w].pc = next, ![w].count = IF OneTransaction(f) THEN count ELSE @]
             /\ quota' = IF OneTransaction(f) THEN quota ELSE [quota EXCEPT ![p] = count]
  <2> DEFINE next == IF job[w].answer # "ok" THEN "failing" ELSE IF job[w].left > 0 THEN "checking" ELSE "storing"
  <2>1. next \in {"failing", "checking", "storing"}
    BY SMT
  <2>2. IF job[w].answer = "lost"
        THEN Goes(w, next) /\ UNCHANGED <<quota, reported_low>>
        ELSE /\ job' = [job EXCEPT ![w].pc = next, ![w].count = IF OneTransaction(f) THEN count ELSE @]
             /\ quota' = IF OneTransaction(f) THEN quota ELSE [quota EXCEPT ![p] = count]
    BY DEF Record
  <2> HIDE DEF next
  <2> QED BY <2>1, <2>2
<1>3. UNCHANGED <<day, remaining, tally, made>>
  BY DEF Record
<1>4. CASE job[w].answer = "lost"
  BY <1>1, <1>2, <1>3, <1>4, GoesKeeps
<1>5. CASE job[w].answer # "lost"
  <2> DEFINE j == [job[w] EXCEPT !.pc = next, !.count = IF OneTransaction(f) THEN count ELSE @]
  <2>1. count \in Count /\ p \in Providers
    BY <1>1, ResetIsADay DEF Count, Job, Provider, Providers
  <2> HIDE DEF count, p
  <2>2. j \in Job /\ j.pc = next /\ j.feature = f /\ j.reserved = job[w].reserved
    BY <1>1, <2>1 DEF Job
  <2>3. job' = [job EXCEPT ![w] = j]
    BY <1>1, <1>2, <1>5
  <2>4. quota' \in [Providers -> Count]
    BY <1>1, <1>2, <1>5, <2>1
  <2>5. day' \in Days /\ remaining' \in [Providers -> Int] /\ tally' \in [Features -> [Days -> Nat]]
    BY <1>1, <1>3
  <2> HIDE DEF j
  <2> QED BY <1>1, <1>3, <2>2, <2>3, <2>4, <2>5, JobStep
<1> QED BY <1>4, <1>5

\* Only the injuries count when they store.
LEMMA StoreKeeps ==
  ASSUME Instance, ApiInv, NEW w \in Workers, Store(w)
  PROVE  ApiInv'
<1> DEFINE f == job[w].feature
           p == Provider(f)
<1>1. /\ job[w] \in Job /\ f \in Features /\ (job[w].reserved => f = "injuries")
      /\ quota \in [Providers -> Count] /\ tally \in [Features -> [Days -> Nat]]
      /\ job[w].day \in Days /\ job[w].count \in Count
  BY DEF ApiInv, Shape, JobsFit, Store, At, Job
<1>2. p \in Providers
  BY DEF Provider, Providers
<1>3. /\ tally' = IF job[w].reserved THEN [tally EXCEPT ![f][job[w].day] = @ + 1] ELSE tally
      /\ quota' = IF job[w].count # NoQuota THEN [quota EXCEPT ![p] = job[w].count] ELSE quota
      /\ Ends(w) /\ UNCHANGED <<day, remaining, made>>
  BY DEF Store
<1>4. quota' \in [Providers -> Count]
  BY <1>1, <1>2, <1>3
<1>5. tally' \in [Features -> [Days -> Nat]] /\ \A g \in OnTheirOwn : tally'[g] = tally[g]
  BY <1>1, <1>3 DEF OnTheirOwn
<1> QED BY <1>3, <1>4, <1>5, EndsKeeps

LEMMA StopsKeep ==
  ASSUME Instance, ApiInv, NEW w \in Workers, StoreFails(w) \/ Fail(w) \/ Crash(w)
  PROVE  ApiInv'
<1>1. UNCHANGED <<day, remaining, quota, tally, made>>
  BY DEF StoreFails, Fail, Crash
<1>2. quota' \in [Providers -> Count] /\ tally' \in [Features -> [Days -> Nat]]
  BY <1>1 DEF ApiInv, Shape
<1>3. CASE StoreFails(w)
  <2>1. ~At(w, "idle")
    BY <1>3 DEF StoreFails, At
  <2> QED BY <1>1, <1>3, <2>1, GoesKeeps DEF StoreFails
<1>4. CASE Fail(w) \/ Crash(w)
  BY <1>1, <1>2, <1>4, EndsKeeps DEF Fail, Crash, RollsBack
<1> QED BY <1>3, <1>4

LEMMA OthersKeep ==
  ASSUME Instance, ApiInv,
         (\E p \in Providers : OthersCall(p)) \/ NextDay \/ UNCHANGED vars
  PROVE  ApiInv'
<1>1. UNCHANGED <<quota, tally, made, job>>
  BY DEF OthersCall, NextDay, vars
<1>2. remaining' \in [Providers -> Int]
  BY DEF OthersCall, NextDay, vars, ApiInv, Shape, Instance, ApiConstants
<1>3. day' \in Days
  BY DEF OthersCall, NextDay, vars, ApiInv, Shape, Days, Instance, ApiConstants
<1>4. Shape' /\ JobsFit'
  BY <1>1, <1>2, <1>3 DEF ApiInv, Shape, JobsFit, At
<1> QED BY <1>1, <1>4, QuietStep

-----------------------------------------------------------------------------
(* The theorems *)

LEMMA NextKeeps ==
  ASSUME Instance, ApiInv, [Next]_vars
  PROVE  ApiInv'
<1>1. ASSUME NEW w \in Workers, GoOn(w)
      PROVE  ApiInv'
  BY <1>1, CheckReserveKeeps, ReserveCallKeeps, RecordKeeps, StoreKeeps, StopsKeep, SendKeeps
     DEF GoOn
<1> QED BY <1>1, BeginKeeps, StopsKeep, OthersKeep DEF Next

LEMMA NeverTooMany ==
  ASSUME Instance, ApiInv, NEW f \in OnTheirOwn, NEW d \in Days
  PROVE  made[f][d] <= DailyLimit(f)
<1>1. /\ made[f][d] \in Nat /\ tally[f][d] \in Nat /\ Cardinality(Sending(f, d)) \in Nat
      /\ DailyLimit(f) \in Nat
  BY SendingIsFinite, LimitsAreNumbers DEF ApiInv, Shape, OnTheirOwn
<1> QED BY <1>1 DEF ApiInv, Counted

\* The loads of the schedule (nba/schedule.py:170) and the pulls of news
\* (nba/rotowire.py:180) never make more requests a day than their limit, also
\* beside updates of the injuries.
THEOREM TalliesHold ==
  Instance => (Spec => [](\A f \in OnTheirOwn, d \in Days : made[f][d] <= DailyLimit(f)))
<1> SUFFICES ASSUME Instance
             PROVE  Spec => [](\A f \in OnTheirOwn, d \in Days : made[f][d] <= DailyLimit(f))
  OBVIOUS
<1>1. Init => ApiInv
  BY InitInv
<1>2. ApiInv /\ [Next]_vars => ApiInv'
  BY NextKeeps
<1>3. ApiInv => \A f \in OnTheirOwn, d \in Days : made[f][d] <= DailyLimit(f)
  BY NeverTooMany
<1> QED BY <1>1, <1>2, <1>3, PTL DEF Spec

\* Without updates of the injuries no limit is passed.
THEOREM NoLimitIsPassed ==
  Instance /\ "injuries" \notin Features => (Spec => []DailyLimitKept)
<1> SUFFICES ASSUME Instance, "injuries" \notin Features PROVE Spec => []DailyLimitKept
  OBVIOUS
<1>1. (\A f \in OnTheirOwn, d \in Days : made[f][d] <= DailyLimit(f)) => DailyLimitKept
  BY DEF OnTheirOwn, DailyLimitKept, OneTransaction, DailyLimit, Instance, ApiConstants
<1> QED BY <1>1, TalliesHold, PTL
-----------------------------------------------------------------------------
(* The calendar of the monthly count *)

ResetAt(d) == ((d - 1) \div MonthDays + 1) * MonthDays + 1

LEMMA Division ==
  ASSUME NEW a \in Int, NEW m \in Nat \ {0}
  PROVE  /\ a \div m \in Int /\ a % m \in Int
         /\ a = m * (a \div m) + (a % m) /\ 0 <= a % m /\ a % m < m
OBVIOUS

LEMMA OneQuotient ==
  ASSUME NEW m \in Nat \ {0}, NEW q \in Int, NEW k \in Int, NEW r \in Int, NEW s \in Int,
         0 <= r, r < m, 0 <= s, s < m, m * q + r = m * k + s
  PROVE  q = k
<1>1. m * (q - k) = s - r
  OBVIOUS
<1>2. q - k >= 1 => m * (q - k) >= m
  OBVIOUS
<1>3. q - k <= -1 => m * (q - k) <= -m
  OBVIOUS
<1> QED BY <1>1, <1>2, <1>3

\* The count begins anew on a later day, the next one at the end of a month, and
\* within a month it is always the same day.
LEMMA ResetsLater ==
  ASSUME Instance, NEW d \in Nat \ {0}
  PROVE  /\ ResetAt(d) \in Int /\ ResetAt(d) > d
         /\ d % MonthDays = 0 => ResetAt(d) = d + 1
         /\ d % MonthDays # 0 => ResetAt(d + 1) = ResetAt(d)
<1> DEFINE m == MonthDays
           q == (d - 1) \div m
           r == (d - 1) % m
           k == d \div m
           s == d % m
<1>1. m \in Nat \ {0}
  BY DEF Instance, ApiConstants
<1>2. q \in Int /\ r \in Int /\ d - 1 = m * q + r /\ 0 <= r /\ r < m
  <2>1. d - 1 \in Int
    OBVIOUS
  <2> QED BY <1>1, <2>1, Division
<1>3. k \in Int /\ s \in Int /\ d = m * k + s /\ 0 <= s /\ s < m
  BY <1>1, Division
<1>4. ResetAt(d) = (q + 1) * m + 1 /\ ResetAt(d + 1) = (k + 1) * m + 1
  <2>1. (d + 1) - 1 = d
    OBVIOUS
  <2> QED BY <2>1 DEF ResetAt
<1> HIDE DEF m, q, r, k, s
<1>5. (q + 1) * m = m * q + m /\ (q + 1) * m \in Int
  BY <1>1, <1>2
<1>6. ResetAt(d) \in Int /\ ResetAt(d) > d
  <2>1. m * q \in Int
    BY <1>1, <1>2
  <2> QED BY <1>1, <1>2, <1>4, <1>5, <2>1
<1>7. ASSUME s = 0 PROVE ResetAt(d) = d + 1
  <2>1. m * k = m * (k - 1) + m /\ m * (k - 1) \in Int
    BY <1>1, <1>3
  <2>2. m * q + r = m * (k - 1) + (m - 1)
    BY <1>1, <1>2, <1>3, <1>7, <2>1
  <2>3. q = k - 1
    <3>1. k - 1 \in Int /\ m - 1 \in Int /\ 0 <= m - 1 /\ m - 1 < m
      BY <1>1, <1>3
    <3> QED BY <1>1, <1>2, <2>2, <3>1, OneQuotient
  <2>4. (q + 1) * m = m * k
    BY <1>1, <1>3, <2>3
  <2> QED BY <1>1, <1>3, <1>4, <1>7, <2>4
<1>8. ASSUME s # 0 PROVE ResetAt(d + 1) = ResetAt(d)
  <2>1. m * k \in Int
    BY <1>1, <1>3
  <2>2. m * q + r = m * k + (s - 1)
    BY <1>2, <1>3, <2>1
  <2>3. s - 1 \in Int /\ 0 <= s - 1 /\ s - 1 < m
    BY <1>1, <1>3, <1>8
  <2>4. q = k
    BY <1>1, <1>2, <1>3, <2>2, <2>3, OneQuotient
  <2> QED BY <1>4, <2>4
<1> QED BY <1>6, <1>7, <1>8 DEF m, s

LEMMA ResetsToday ==
  ASSUME Instance, ApiInv
  PROVE  /\ day \in Nat \ {0} /\ Resets = ResetAt(day) /\ Resets \in Int /\ Resets > day
BY ResetsLater DEF ApiInv, Shape, Days, Resets, ResetAt, Instance, ApiConstants

-----------------------------------------------------------------------------
(* A count says no less than there is, until its month is over *)

\* A count of this month or an earlier one; if it still holds, no fewer requests
\* than `left` were left when it was reported.
Sound(c, left, today) ==
  c.resets_on <= ResetAt(today) /\ (c.resets_on > today => left <= c.remaining)

\* What is stored, what a transaction has not committed, and what is on its way.
Reported ==
  /\ \A p \in Providers : remaining[p] >= 0 /\ Sound(quota[p], remaining[p], day)
  /\ \A w \in Workers :
       /\ Sound(job[w].count, remaining[Provider(job[w].feature)], day)
       /\ At(w, "answered") => remaining[Provider(job[w].feature)] <= job[w].report

ReportInv == ApiInv /\ Reported

LEMMA ProvidersOnly ==
  ASSUME NEW f
  PROVE  Provider(f) \in Providers
BY DEF Provider, Providers

LEMMA NoQuotaIsSound ==
  ASSUME Instance, ApiInv, NEW left
  PROVE  Sound(NoQuota, left, day)
<1>1. NoQuota.resets_on = 0
  BY DEF NoQuota
<1> QED BY <1>1, ResetsToday DEF Sound

\* Fewer requests left make no count wrong.
LEMMA SoundStays ==
  ASSUME NEW c \in Count, NEW left \in Int, NEW fewer \in Int, fewer <= left, NEW today,
         Sound(c, left, today)
  PROVE  Sound(c, fewer, today)
BY DEF Sound, Count

\* A new count is a report of no less than there is.
LEMMA NewIsSound ==
  ASSUME Instance, ApiInv, NEW left, NEW n, left <= n
  PROVE  Sound([remaining |-> n, resets_on |-> Resets], left, day)
BY ResetsToday DEF Sound

LEMMA InitReported ==
  ASSUME Instance, Init
  PROVE  Reported
<1>1. ApiInv
  BY InitInv
<1>2. \A p \in Providers : remaining[p] = MonthlyLimit /\ quota[p] = NoQuota
  BY DEF Init
<1>3. \A w \in Workers : job[w].pc = "idle" /\ job[w].count = NoQuota
  BY DEF Init, Idle
<1>4. MonthlyLimit >= 0
  BY DEF Instance, ApiConstants
<1> QED BY <1>1, <1>2, <1>3, <1>4, NoQuotaIsSound DEF Reported, At

\* A request goes on with j within the day.
LEMMA ReportStep ==
  ASSUME Instance, ReportInv, NEW w \in Workers, NEW j, job' = [job EXCEPT ![w] = j],
         UNCHANGED day, remaining' \in [Providers -> Int],
         \A p \in Providers : 0 <= remaining'[p] /\ remaining'[p] <= remaining[p],
         \A p \in Providers : quota'[p] = quota[p] \/ Sound(quota'[p], remaining'[p], day),
         Sound(j.count, remaining'[Provider(j.feature)], day),
         j.pc = "answered" => remaining'[Provider(j.feature)] <= j.report
  PROVE  Reported'
<1>1. /\ quota \in [Providers -> Count] /\ remaining \in [Providers -> Int]
      /\ job \in [Workers -> Job]
  BY DEF ReportInv, ApiInv, Shape
<1>2. \A v \in Workers : job'[v] = IF v = w THEN j ELSE job[v]
  BY <1>1
<1>3. ASSUME NEW p \in Providers
      PROVE  remaining'[p] >= 0 /\ Sound(quota'[p], remaining'[p], day)
  BY <1>1, SoundStays DEF ReportInv, Reported
<1>4. ASSUME NEW v \in Workers \ {w}
      PROVE  /\ Sound(job[v].count, remaining'[Provider(job[v].feature)], day)
             /\ At(v, "answered") => remaining'[Provider(job[v].feature)] <= job[v].report
  <2> DEFINE p == Provider(job[v].feature)
  <2>1. /\ p \in Providers /\ job[v].count \in Count /\ job[v].report \in Int
        /\ remaining[p] \in Int /\ remaining'[p] \in Int /\ remaining'[p] <= remaining[p]
    BY <1>1, ProvidersOnly DEF Job
  <2>2. /\ Sound(job[v].count, remaining[p], day)
        /\ At(v, "answered") => remaining[p] <= job[v].report
    BY DEF ReportInv, Reported
  <2> HIDE DEF p
  <2>3. Sound(job[v].count, remaining'[p], day)
    BY <2>1, <2>2, SoundStays
  <2> QED BY <2>1, <2>2, <2>3 DEF p
<1> QED BY <1>2, <1>3, <1>4 DEF Reported, At

\* A request goes on and nothing is counted.
LEMMA SilentStep ==
  ASSUME Instance, ReportInv, NEW w \in Workers, NEW j, job' = [job EXCEPT ![w] = j],
         UNCHANGED <<day, remaining, quota>>, j.pc # "answered",
         j.count = NoQuota \/ (j.count = job[w].count /\ j.feature = job[w].feature)
  PROVE  Reported'
<1>1. /\ remaining \in [Providers -> Int]
      /\ \A p \in Providers : 0 <= remaining[p] /\ remaining[p] <= remaining[p]
  BY DEF ReportInv, ApiInv, Shape, Reported
<1>2. Sound(j.count, remaining[Provider(j.feature)], day)
  BY NoQuotaIsSound DEF ReportInv, Reported
<1> QED BY <1>1, <1>2, ReportStep

LEMMA EndsReported ==
  ASSUME Instance, ReportInv, NEW w \in Workers, Ends(w), UNCHANGED <<day, remaining, quota>>
  PROVE  Reported'
<1>1. Idle.pc = "idle" /\ Idle.count = NoQuota
  BY DEF Idle
<1> QED BY <1>1, SilentStep DEF Ends

LEMMA GoesReported ==
  ASSUME Instance, ReportInv, NEW w \in Workers, NEW pc, pc # "answered", Goes(w, pc),
         UNCHANGED <<day, remaining, quota>>
  PROVE  Reported'
<1> DEFINE j == [job[w] EXCEPT !.pc = pc]
<1>1. job' = [job EXCEPT ![w] = j] /\ job[w] \in Job
  BY DEF Goes, ReportInv, ApiInv, Shape
<1>2. j.pc = pc /\ j.count = job[w].count /\ j.feature = job[w].feature
  BY <1>1 DEF Job
<1> HIDE DEF j
<1> QED BY <1>1, <1>2, SilentStep

LEMMA BeginReported ==
  ASSUME Instance, ReportInv, NEW w \in Workers, NEW f \in Features,
         NEW superuser \in BOOLEAN, NEW forced \in BOOLEAN, Begin(w, f, superuser, forced)
  PROVE  Reported'
<1> DEFINE pc == IF f = "news" THEN "reserving" ELSE "checking"
           left == IF f = "schedule" THEN Ranges ELSE 1
           j == [Idle EXCEPT !.pc = pc, !.feature = f, !.superuser = superuser,
                             !.forced = forced, !.left = left]
<1>1. job' = [job EXCEPT ![w] = j] /\ UNCHANGED <<day, remaining, quota>>
  BY DEF Begin
<1>2. j.pc # "answered" /\ j.count = NoQuota
  BY DEF Idle
<1> HIDE DEF j
<1> QED BY <1>1, <1>2, SilentStep

LEMMA ReserveCallReported ==
  ASSUME Instance, ReportInv, NEW w \in Workers, ReserveCall(w)
  PROVE  Reported'
<1> DEFINE f == job[w].feature
           kept == OneTransaction(f)
           j == [job[w] EXCEPT !.pc = "sending", !.day = day, !.reserved = kept]
<1>1. job[w] \in Job /\ UNCHANGED <<day, remaining, quota>>
      /\ (Goes(w, "failing") \/ job' = [job EXCEPT ![w] = j])
  BY DEF ReserveCall, ReportInv, ApiInv, Shape
<1>2. CASE Goes(w, "failing")
  BY <1>1, <1>2, GoesReported
<1>3. CASE job' = [job EXCEPT ![w] = j]
  <2> HIDE DEF kept
  <2>1. j.pc = "sending" /\ j.count = job[w].count /\ j.feature = job[w].feature
    BY <1>1 DEF Job
  <2> HIDE DEF j
  <2> QED BY <1>1, <1>3, <2>1, SilentStep
<1> QED BY <1>1, <1>2, <1>3

\* The answer tells what is left after the request.
LEMMA SendReported ==
  ASSUME Instance, ReportInv, NEW w \in Workers, NEW answer \in {"ok", "error", "lost"},
         Send(w, answer)
  PROVE  Reported'
<1> DEFINE f == job[w].feature
           p == Provider(f)
           told == remaining'[p]
           j == [job[w] EXCEPT !.pc = "answered", !.answer = answer, !.report = told, !.left = @ - 1]
<1>1. /\ job[w] \in Job /\ p \in Providers /\ remaining \in [Providers -> Int]
      /\ job' = [job EXCEPT ![w] = j] /\ UNCHANGED <<day, quota>>
      /\ remaining' = [remaining EXCEPT ![p] = IF @ > 0 THEN @ - 1 ELSE 0]
  BY ProvidersOnly DEF Send, ReportInv, ApiInv, Shape
<1>2. \A o \in Providers : remaining[o] >= 0
  BY DEF ReportInv, Reported
<1> HIDE DEF p
<1>3. /\ remaining' \in [Providers -> Int]
      /\ \A o \in Providers : 0 <= remaining'[o] /\ remaining'[o] <= remaining[o]
  BY <1>1, <1>2
<1>4. j.pc = "answered" /\ j.report = told /\ j.count = job[w].count /\ j.feature = f
  <2> HIDE DEF told
  <2> QED BY <1>1 DEF Job
<1>5. Sound(job[w].count, remaining'[p], day)
  <2>1. job[w].count \in Count /\ remaining[p] \in Int /\ remaining'[p] \in Int
        /\ remaining'[p] <= remaining[p]
    BY <1>1, <1>3 DEF Job
  <2>2. Sound(job[w].count, remaining[p], day)
    BY DEF ReportInv, Reported, p
  <2> QED BY <2>1, <2>2, SoundStays
<1>6. remaining'[p] <= told
  BY <1>1, <1>3
<1> HIDE DEF j, told
<1> QED BY <1>1, <1>3, <1>4, <1>5, <1>6, ReportStep DEF p

\* The report becomes the count, at once or when the transaction commits.
LEMMA RecordReported ==
  ASSUME Instance, ReportInv, NEW w \in Workers, Record(w)
  PROVE  Reported'
<1> DEFINE f == job[w].feature
           p == Provider(f)
           count == [remaining |-> job[w].report, resets_on |-> Resets]
           next == IF job[w].answer # "ok" THEN "failing" ELSE IF job[w].left > 0 THEN "checking" ELSE "storing"
           kept == IF OneTransaction(f) THEN count ELSE job[w].count
           j == [job[w] EXCEPT !.pc = next, !.count = kept]
<1>1. /\ job[w] \in Job /\ p \in Providers /\ quota \in [Providers -> Count]
      /\ remaining \in [Providers -> Int] /\ job \in [Workers -> Job]
      /\ UNCHANGED <<day, remaining>> /\ At(w, "answered")
  BY ProvidersOnly DEF Record, ReportInv, ApiInv, Shape
<1>2. next # "answered"
  BY SMT
<1>3. \/ Goes(w, next) /\ UNCHANGED quota
      \/ /\ job' = [job EXCEPT ![w] = j]
         /\ quota' = IF OneTransaction(f) THEN quota ELSE [quota EXCEPT ![p] = count]
  BY <1>1 DEF Record
<1>4. Sound(count, remaining[p], day)
  BY <1>1, NewIsSound DEF ReportInv, Reported
<1>5. CASE Goes(w, next) /\ UNCHANGED quota
  <2> HIDE DEF next
  <2> QED BY <1>1, <1>2, <1>5, GoesReported
<1>6. CASE /\ job' = [job EXCEPT ![w] = j]
           /\ quota' = IF OneTransaction(f) THEN quota ELSE [quota EXCEPT ![p] = count]
  <2>1. Sound(kept, remaining[p], day)
    BY <1>4 DEF ReportInv, Reported
  <2>2. j.pc = next /\ j.count = kept /\ j.feature = f
    <3> HIDE DEF next, kept
    <3> QED BY <1>1 DEF Job
  <2> HIDE DEF j, kept, count, next
  <2>3. \A o \in Providers : quota'[o] = quota[o] \/ Sound(quota'[o], remaining'[o], day)
    BY <1>1, <1>4, <1>6
  <2>4. \A o \in Providers : 0 <= remaining'[o] /\ remaining'[o] <= remaining[o]
    BY <1>1 DEF ReportInv, Reported
  <2> QED BY <1>1, <1>2, <1>6, <2>1, <2>2, <2>3, <2>4, ReportStep
<1> QED BY <1>3, <1>5, <1>6

LEMMA StoreReported ==
  ASSUME Instance, ReportInv, NEW w \in Workers, Store(w)
  PROVE  Reported'
<1> DEFINE p == Provider(job[w].feature)
<1>1. /\ p \in Providers /\ quota \in [Providers -> Count] /\ remaining \in [Providers -> Int]
      /\ UNCHANGED <<day, remaining>> /\ job' = [job EXCEPT ![w] = Idle]
      /\ quota' = IF job[w].count # NoQuota THEN [quota EXCEPT ![p] = job[w].count] ELSE quota
  BY ProvidersOnly DEF Store, Ends, ReportInv, ApiInv, Shape
<1>2. Sound(job[w].count, remaining[p], day)
  BY DEF ReportInv, Reported
<1>3. Idle.pc = "idle" /\ Idle.count = NoQuota
  BY DEF Idle
<1>4. Sound(Idle.count, remaining'[Provider(Idle.feature)], day)
  BY <1>3, NoQuotaIsSound DEF ReportInv
<1>5. \A o \in Providers : 0 <= remaining'[o] /\ remaining'[o] <= remaining[o]
  BY <1>1 DEF ReportInv, Reported
<1> HIDE DEF p
<1>6. \A o \in Providers : quota'[o] = quota[o] \/ Sound(quota'[o], remaining'[o], day)
  BY <1>1, <1>2
<1> QED BY <1>1, <1>3, <1>4, <1>5, <1>6, ReportStep

LEMMA OthersCallReported ==
  ASSUME Instance, ReportInv, NEW p \in Providers, OthersCall(p)
  PROVE  Reported'
<1>1. /\ remaining \in [Providers -> Int] /\ quota \in [Providers -> Count]
      /\ job \in [Workers -> Job] /\ UNCHANGED <<day, quota, job>>
      /\ remaining' = [remaining EXCEPT ![p] = @ - 1] /\ remaining[p] > OthersLeave
      /\ OthersLeave \in Nat
  BY DEF OthersCall, ReportInv, ApiInv, Shape, Instance, ApiConstants
<1>2. \A o \in Providers : /\ remaining'[o] \in Int /\ remaining'[o] <= remaining[o]
                           /\ (remaining[o] >= 0 => remaining'[o] >= 0)
  BY <1>1
<1>3. \A o \in Providers : remaining'[o] >= 0 /\ Sound(quota[o], remaining'[o], day)
  BY <1>1, <1>2, SoundStays DEF ReportInv, Reported
<1>4. ASSUME NEW w \in Workers
      PROVE  /\ Sound(job[w].count, remaining'[Provider(job[w].feature)], day)
             /\ At(w, "answered") => remaining'[Provider(job[w].feature)] <= job[w].report
  <2> DEFINE o == Provider(job[w].feature)
  <2>1. /\ o \in Providers /\ job[w].count \in Count /\ job[w].report \in Int
        /\ remaining[o] \in Int /\ remaining'[o] \in Int /\ remaining'[o] <= remaining[o]
    BY <1>1, <1>2, ProvidersOnly DEF Job
  <2>2. /\ Sound(job[w].count, remaining[o], day)
        /\ At(w, "answered") => remaining[o] <= job[w].report
    BY DEF ReportInv, Reported
  <2> HIDE DEF o
  <2>3. Sound(job[w].count, remaining'[o], day)
    BY <2>1, <2>2, SoundStays
  <2> QED BY <2>1, <2>2, <2>3 DEF o
<1> QED BY <1>1, <1>3, <1>4 DEF Reported, At

\* In a new month the counts of the old one no longer hold.
LEMMA NextDayReported ==
  ASSUME Instance, ReportInv, NextDay
  PROVE  Reported'
<1>1. /\ day' = day + 1 /\ UNCHANGED <<quota, job>> /\ day \in Nat \ {0}
      /\ remaining \in [Providers -> Int] /\ quota \in [Providers -> Count]
      /\ job \in [Workers -> Job]
  BY ResetsToday DEF NextDay, ReportInv, ApiInv, Shape
<1>2. /\ ResetAt(day) \in Int
      /\ day % MonthDays = 0 => ResetAt(day) = day + 1
      /\ ResetAt(day + 1) \in Int /\ ResetAt(day + 1) > day + 1
      /\ day % MonthDays # 0 => ResetAt(day + 1) = ResetAt(day)
  <2>1. day + 1 \in Nat \ {0}
    BY <1>1
  <2> QED BY <1>1, <2>1, ResetsLater
<1>3. CASE day % MonthDays = 0
  <2>1. /\ remaining' = [p \in Providers |-> MonthlyLimit] /\ MonthlyLimit \in Nat
        /\ \A w \in Workers : ~At(w, "answered")
    BY <1>3 DEF NextDay, Instance, ApiConstants
  <2>2. ASSUME NEW c \in Count, NEW old, NEW left, Sound(c, old, day)
        PROVE  Sound(c, left, day')
    <3>1. ResetAt(day) = day' /\ ResetAt(day') \in Int /\ ResetAt(day') > day'
      BY <1>1, <1>2, <1>3
    <3>2. c.resets_on <= day' /\ c.resets_on \in Int /\ day' \in Int
      BY <1>1, <2>2, <3>1 DEF Sound, Count
    <3> QED BY <3>1, <3>2 DEF Sound
  <2>3. \A p \in Providers : remaining'[p] >= 0 /\ Sound(quota'[p], remaining'[p], day')
    BY <1>1, <2>1, <2>2 DEF ReportInv, Reported
  <2>4. \A w \in Workers : Sound(job'[w].count, remaining'[Provider(job'[w].feature)], day')
    BY <1>1, <2>2 DEF ReportInv, Reported, Job
  <2> QED BY <1>1, <2>1, <2>3, <2>4 DEF Reported, At
<1>4. CASE day % MonthDays # 0
  <2>1. remaining' = remaining
    BY <1>4 DEF NextDay
  <2>2. ASSUME NEW c \in Count, NEW left, Sound(c, left, day)
        PROVE  Sound(c, left, day')
    <3>1. ResetAt(day') = ResetAt(day)
      BY <1>1, <1>2, <1>4
    <3>2. c.resets_on > day' => c.resets_on > day
      BY <1>1 DEF Count
    <3> QED BY <2>2, <3>1, <3>2 DEF Sound
  <2>3. \A p \in Providers : remaining'[p] >= 0 /\ Sound(quota'[p], remaining'[p], day')
    BY <1>1, <2>1, <2>2 DEF ReportInv, Reported
  <2>4. \A w \in Workers : Sound(job'[w].count, remaining'[Provider(job'[w].feature)], day')
    BY <1>1, <2>1, <2>2 DEF ReportInv, Reported, Job
  <2> QED BY <1>1, <2>1, <2>3, <2>4 DEF ReportInv, Reported, At
<1> QED BY <1>3, <1>4

LEMMA NextReported ==
  ASSUME Instance, ReportInv, [Next]_vars
  PROVE  ReportInv'
<1>1. SUFFICES Reported'
  BY NextKeeps DEF ReportInv
<1>2. ASSUME NEW w \in Workers, CheckReserve(w) \/ StoreFails(w)
      PROVE  Reported'
  <2> DEFINE pc == IF Low(Provider(job[w].feature)) THEN "failing" ELSE "reserving"
  <2>1. UNCHANGED <<day, remaining, quota>> /\ (Goes(w, pc) \/ Goes(w, "failing"))
    BY <1>2 DEF CheckReserve, StoreFails
  <2>2. pc # "answered"
    OBVIOUS
  <2> HIDE DEF pc
  <2> QED BY <2>1, <2>2, GoesReported
<1>3. ASSUME NEW w \in Workers, Fail(w) \/ Crash(w)
      PROVE  Reported'
  BY <1>3, EndsReported DEF Fail, Crash, RollsBack
<1>4. ASSUME NEW w \in Workers, GoOn(w)
      PROVE  Reported'
  BY <1>2, <1>3, <1>4, ReserveCallReported, SendReported, RecordReported, StoreReported DEF GoOn
<1>5. CASE UNCHANGED vars
  BY <1>5 DEF vars, ReportInv, Reported, At
<1> QED BY <1>3, <1>4, <1>5, BeginReported, OthersCallReported, NextDayReported DEF Next

\* Whoever is at the check leaves it by the check, or dies.
LEMMA LeavesTheCheck ==
  ASSUME Instance, ApiInv, [Next]_vars, NEW w \in Workers, At(w, "checking"),
         job'[w].pc \in {"reserving", "failing"}
  PROVE  CheckReserve(w)
<1>1. job \in [Workers -> Job] /\ Idle.pc = "idle"
  BY DEF ApiInv, Shape, Idle
<1>2. job'[w] # job[w]
  BY DEF At
<1>3. PICK v \in Workers :
        \/ \E f \in Features, superuser, forced \in BOOLEAN : Begin(v, f, superuser, forced)
        \/ GoOn(v) \/ Crash(v)
  BY <1>2 DEF Next, OthersCall, NextDay, vars
<1>4. \A u \in Workers \ {v} : job'[u] = job[u]
  BY <1>1, <1>3 DEF Begin, GoOn, Crash, CheckReserve, ReserveCall, Record, Store, StoreFails,
                    Fail, Send, Goes, Ends, RollsBack
<1>5. v = w
  BY <1>2, <1>4
<1>6. ~Crash(w)
  BY <1>1 DEF Crash, RollsBack, Ends
<1> QED BY <1>3, <1>5, <1>6 DEF Begin, GoOn, ReserveCall, Record, Store, StoreFails, Fail, Send, At

LEMMA RefusedAreFew ==
  ASSUME Instance, ReportInv, [Next]_vars
  PROVE  NotStoppedForNothing
<1> SUFFICES ASSUME NEW w \in Workers, At(w, "checking"), job'[w].pc = "failing"
             PROVE  remaining[Provider(job[w].feature)] < Reserve
  BY DEF NotStoppedForNothing
<1> DEFINE p == Provider(job[w].feature)
<1>1. CheckReserve(w) /\ job \in [Workers -> Job]
  BY LeavesTheCheck DEF ReportInv, ApiInv, Shape
<1>2. Low(p)
  BY <1>1 DEF CheckReserve, Goes, Job
<1>3. /\ p \in Providers /\ quota \in [Providers -> Count] /\ remaining \in [Providers -> Int]
      /\ Reserve \in Nat
  BY ProvidersOnly DEF ReportInv, ApiInv, Shape, Instance, ApiConstants
<1>4. Sound(quota[p], remaining[p], day)
  BY <1>3 DEF ReportInv, Reported
<1> QED BY <1>2, <1>3, <1>4 DEF Low, Sound, Count

\* A request is refused at the check only while RapidAPI has fewer left than the
\* reserve: a count of an earlier month stops nobody (low, nba/quota.py:43-59),
\* however the reports of several workers and features overtake each other.
THEOREM NobodyStopsForNothing == Instance => (Spec => [][NotStoppedForNothing]_vars)
<1> SUFFICES ASSUME Instance PROVE Spec => [][NotStoppedForNothing]_vars
  OBVIOUS
<1>1. Init => ReportInv
  BY InitInv, InitReported DEF ReportInv
<1>2. ReportInv /\ [Next]_vars => ReportInv'
  BY NextReported
<1>3. ReportInv /\ [Next]_vars => [NotStoppedForNothing]_vars
  BY RefusedAreFew
<1> QED BY <1>1, <1>2, <1>3, PTL DEF Spec
-----------------------------------------------------------------------------
(* What was reported is heeded, with one request at a time *)

\* Loads and pulls record what they are told at once; and between the answer and
\* the record of one request there is no other.
OneByOne == "injuries" \notin Features /\ \A v, w \in Workers : v = w

\* Once too few were reported in this month the stored count says so, and any
\* answer that is on its way.
Heeded ==
  /\ reported_low \in [Providers -> BOOLEAN]
  /\ \A p \in Providers : reported_low[p] =>
       quota[p].remaining < Reserve /\ quota[p].resets_on = ResetAt(day)
  /\ \A w \in Workers :
       /\ job[w].count = NoQuota
       /\ At(w, "answered") /\ reported_low[Provider(job[w].feature)] => job[w].report < Reserve

HeedInv == ReportInv /\ Heeded

LEMMA InitHeeded ==
  ASSUME Instance, Init
  PROVE  Heeded
BY DEF Init, Idle, Heeded, At

\* The request goes on with j; no count changes.
LEMMA HeedStep ==
  ASSUME Instance, OneByOne, HeedInv, NEW w \in Workers, NEW j, job' = [job EXCEPT ![w] = j],
         UNCHANGED <<day, quota, reported_low>>, j.count = NoQuota,
         j.pc = "answered" /\ reported_low[Provider(j.feature)] => j.report < Reserve
  PROVE  Heeded'
<1>1. \A v \in Workers : job'[v] = j
  BY DEF OneByOne, HeedInv, ReportInv, ApiInv, Shape
<1> QED BY <1>1 DEF HeedInv, Heeded, At

LEMMA EndsHeeded ==
  ASSUME Instance, OneByOne, HeedInv, NEW w \in Workers, Ends(w),
         UNCHANGED <<day, quota, reported_low>>
  PROVE  Heeded'
<1>1. Idle.pc = "idle" /\ Idle.count = NoQuota
  BY DEF Idle
<1> QED BY <1>1, HeedStep DEF Ends

LEMMA GoesHeeded ==
  ASSUME Instance, OneByOne, HeedInv, NEW w \in Workers, NEW pc, pc # "answered", Goes(w, pc),
         UNCHANGED <<day, quota, reported_low>>
  PROVE  Heeded'
<1> DEFINE j == [job[w] EXCEPT !.pc = pc]
<1>1. job' = [job EXCEPT ![w] = j] /\ job[w] \in Job /\ job[w].count = NoQuota
  BY DEF Goes, HeedInv, Heeded, ReportInv, ApiInv, Shape
<1>2. j.pc = pc /\ j.count = job[w].count
  BY <1>1 DEF Job
<1> HIDE DEF j
<1> QED BY <1>1, <1>2, HeedStep

LEMMA BeginHeeded ==
  ASSUME Instance, OneByOne, HeedInv, NEW w \in Workers, NEW f \in Features,
         NEW superuser \in BOOLEAN, NEW forced \in BOOLEAN, Begin(w, f, superuser, forced)
  PROVE  Heeded'
<1> DEFINE pc == IF f = "news" THEN "reserving" ELSE "checking"
           left == IF f = "schedule" THEN Ranges ELSE 1
           j == [Idle EXCEPT !.pc = pc, !.feature = f, !.superuser = superuser,
                             !.forced = forced, !.left = left]
<1>1. job' = [job EXCEPT ![w] = j] /\ UNCHANGED <<day, quota, reported_low>>
  BY DEF Begin
<1>2. j.pc # "answered" /\ j.count = NoQuota
  BY DEF Idle
<1> HIDE DEF j
<1> QED BY <1>1, <1>2, HeedStep

LEMMA ReserveCallHeeded ==
  ASSUME Instance, OneByOne, HeedInv, NEW w \in Workers, ReserveCall(w)
  PROVE  Heeded'
<1> DEFINE kept == OneTransaction(job[w].feature)
           j == [job[w] EXCEPT !.pc = "sending", !.day = day, !.reserved = kept]
<1>1. /\ job[w] \in Job /\ UNCHANGED <<day, quota, reported_low>> /\ job[w].count = NoQuota
      /\ (Goes(w, "failing") \/ job' = [job EXCEPT ![w] = j])
  BY DEF ReserveCall, HeedInv, Heeded, ReportInv, ApiInv, Shape
<1>2. CASE Goes(w, "failing")
  BY <1>1, <1>2, GoesHeeded
<1>3. CASE job' = [job EXCEPT ![w] = j]
  <2> HIDE DEF kept
  <2>1. j.pc = "sending" /\ j.count = job[w].count
    BY <1>1 DEF Job
  <2> HIDE DEF j
  <2> QED BY <1>1, <1>3, <2>1, HeedStep
<1> QED BY <1>1, <1>2, <1>3

\* No answer reports more than the stored count, so none takes the warning back.
LEMMA SendHeeded ==
  ASSUME Instance, OneByOne, HeedInv, NEW w \in Workers, NEW answer \in {"ok", "error", "lost"},
         Send(w, answer)
  PROVE  Heeded'
<1> DEFINE f == job[w].feature
           p == Provider(f)
           told == remaining'[p]
           j == [job[w] EXCEPT !.pc = "answered", !.answer = answer, !.report = told, !.left = @ - 1]
<1>1. /\ job[w] \in Job /\ p \in Providers /\ remaining \in [Providers -> Int]
      /\ quota \in [Providers -> Count] /\ job[w].count = NoQuota
      /\ job' = [job EXCEPT ![w] = j] /\ UNCHANGED <<day, quota, reported_low>>
      /\ remaining' = [remaining EXCEPT ![p] = IF @ > 0 THEN @ - 1 ELSE 0]
  BY ProvidersOnly DEF Send, HeedInv, Heeded, ReportInv, ApiInv, Shape
<1>2. j.pc = "answered" /\ j.report = told /\ j.count = job[w].count /\ j.feature = f
  <2> HIDE DEF told
  <2> QED BY <1>1 DEF Job
<1>3. reported_low[p] => told < Reserve
  <2>1. remaining[p] >= 0 /\ Sound(quota[p], remaining[p], day)
    BY <1>1 DEF HeedInv, ReportInv, Reported
  <2>2. told <= remaining[p] /\ told \in Int
    BY <1>1, <2>1
  <2>3. reported_low[p] => quota[p].remaining < Reserve /\ quota[p].resets_on = ResetAt(day)
    BY <1>1 DEF HeedInv, Heeded
  <2>4. ResetAt(day) > day /\ Reserve \in Int
    BY ResetsToday DEF HeedInv, ReportInv, Instance, ApiConstants
  <2> HIDE DEF told, p
  <2> QED BY <1>1, <2>1, <2>2, <2>3, <2>4 DEF Sound, Count
<1> HIDE DEF j, told
<1> QED BY <1>1, <1>2, <1>3, HeedStep

LEMMA RecordHeeded ==
  ASSUME Instance, OneByOne, HeedInv, NEW w \in Workers, Record(w)
  PROVE  Heeded'
<1> DEFINE f == job[w].feature
           p == Provider(f)
           count == [remaining |-> job[w].report, resets_on |-> Resets]
           next == IF job[w].answer # "ok" THEN "failing" ELSE IF job[w].left > 0 THEN "checking" ELSE "storing"
           kept == job[w].count
           j == [job[w] EXCEPT !.pc = next, !.count = kept]
<1>1. /\ job[w] \in Job /\ p \in Providers /\ quota \in [Providers -> Count]
      /\ job \in [Workers -> Job] /\ UNCHANGED day /\ At(w, "answered") /\ kept = NoQuota
      /\ reported_low \in [Providers -> BOOLEAN]
      /\ reported_low[p] => job[w].report < Reserve
  BY ProvidersOnly DEF Record, HeedInv, Heeded, ReportInv, ApiInv, Shape
<1>2. ~OneTransaction(f)
  BY <1>1 DEF OneByOne, OneTransaction, HeedInv, ReportInv, ApiInv, JobsFit, At
<1>3. next # "answered"
  BY SMT
<1>4. \/ Goes(w, next) /\ UNCHANGED <<quota, reported_low>>
      \/ /\ job' = [job EXCEPT ![w] = j]
         /\ quota' = [quota EXCEPT ![p] = count]
         /\ reported_low' = [reported_low EXCEPT ![p] = @ \/ count.remaining < Reserve]
  BY <1>1, <1>2 DEF Record
<1>5. CASE Goes(w, next) /\ UNCHANGED <<quota, reported_low>>
  <2> HIDE DEF next
  <2> QED BY <1>1, <1>3, <1>5, GoesHeeded
<1>6. CASE /\ job' = [job EXCEPT ![w] = j]
           /\ quota' = [quota EXCEPT ![p] = count]
           /\ reported_low' = [reported_low EXCEPT ![p] = @ \/ count.remaining < Reserve]
  <2>1. j.pc = next /\ j.count = kept
    <3> HIDE DEF next, kept
    <3> QED BY <1>1 DEF Job
  <2>2. count.remaining = job[w].report /\ count.resets_on = ResetAt(day)
    BY ResetsToday DEF HeedInv, ReportInv
  <2> HIDE DEF j, kept, count, next
  <2>3. \A v \in Workers : job'[v] = j
    BY <1>1, <1>6 DEF OneByOne
  <2>4. reported_low' \in [Providers -> BOOLEAN]
    BY <1>1, <1>6
  <2>5. /\ reported_low'[p] => job[w].report < Reserve
        /\ \A o \in Providers \ {p} : reported_low'[o] = reported_low[o] /\ quota'[o] = quota[o]
        /\ quota'[p] = count
    BY <1>1, <1>6, <2>2
  <2>6. \A o \in Providers : reported_low'[o] =>
          quota'[o].remaining < Reserve /\ quota'[o].resets_on = ResetAt(day)
    BY <2>2, <2>5 DEF HeedInv, Heeded
  <2> QED BY <1>1, <1>3, <2>1, <2>3, <2>4, <2>6 DEF Heeded, At
<1> QED BY <1>4, <1>5, <1>6

LEMMA NextDayHeeded ==
  ASSUME Instance, OneByOne, HeedInv, NextDay
  PROVE  Heeded'
<1>1. /\ day' = day + 1 /\ UNCHANGED <<quota, job>> /\ day \in Nat \ {0}
  BY ResetsToday DEF NextDay, HeedInv, ReportInv
<1>2. CASE day % MonthDays = 0
  <2>1. /\ reported_low' = [p \in Providers |-> FALSE] /\ \A w \in Workers : ~At(w, "answered")
    BY <1>2 DEF NextDay
  <2> QED BY <1>1, <2>1, ProvidersOnly DEF HeedInv, Heeded, At
<1>3. CASE day % MonthDays # 0
  <2>1. reported_low' = reported_low
    BY <1>3 DEF NextDay
  <2>2. ResetAt(day') = ResetAt(day)
    BY <1>1, <1>3, ResetsLater
  <2> QED BY <1>1, <2>1, <2>2 DEF HeedInv, Heeded, At
<1> QED BY <1>2, <1>3

LEMMA NextHeeded ==
  ASSUME Instance, OneByOne, HeedInv, [Next]_vars
  PROVE  HeedInv'
<1>1. SUFFICES Heeded'
  BY NextReported DEF HeedInv
<1>2. ASSUME NEW w \in Workers, CheckReserve(w) \/ StoreFails(w)
      PROVE  Heeded'
  <2> DEFINE pc == IF Low(Provider(job[w].feature)) THEN "failing" ELSE "reserving"
  <2>1. UNCHANGED <<day, quota, reported_low>> /\ (Goes(w, pc) \/ Goes(w, "failing"))
    BY <1>2 DEF CheckReserve, StoreFails
  <2>2. pc # "answered"
    OBVIOUS
  <2> HIDE DEF pc
  <2> QED BY <2>1, <2>2, GoesHeeded
<1>3. ASSUME NEW w \in Workers, Store(w)
      PROVE  Heeded'
  <2>1. Ends(w) /\ UNCHANGED <<day, quota, reported_low>>
    BY <1>3 DEF Store, HeedInv, Heeded
  <2> QED BY <2>1, EndsHeeded
<1>4. ASSUME NEW w \in Workers, Fail(w) \/ Crash(w)
      PROVE  Heeded'
  BY <1>4, EndsHeeded DEF Fail, Crash, RollsBack
<1>5. ASSUME NEW w \in Workers, GoOn(w)
      PROVE  Heeded'
  BY <1>2, <1>3, <1>4, <1>5, ReserveCallHeeded, SendHeeded, RecordHeeded DEF GoOn
<1>6. CASE UNCHANGED vars \/ \E p \in Providers : OthersCall(p)
  BY <1>6 DEF vars, OthersCall, HeedInv, Heeded, At
<1> QED BY <1>4, <1>5, <1>6, BeginHeeded, NextDayHeeded DEF Next

LEMMA LetPastAreEnough ==
  ASSUME Instance, OneByOne, HeedInv, [Next]_vars
  PROVE  StopsOnceReported
<1> SUFFICES ASSUME NEW w \in Workers, At(w, "checking"), job'[w].pc = "reserving",
                    reported_low[Provider(job[w].feature)]
             PROVE  FALSE
  BY DEF StopsOnceReported
<1> DEFINE p == Provider(job[w].feature)
<1>1. CheckReserve(w) /\ job \in [Workers -> Job]
  BY LeavesTheCheck DEF HeedInv, ReportInv, ApiInv, Shape
<1>2. ~Low(p)
  BY <1>1 DEF CheckReserve, Goes, Job
<1>3. quota[p].remaining < Reserve /\ quota[p].resets_on = ResetAt(day) /\ ResetAt(day) > day
  BY ProvidersOnly, ResetsToday DEF HeedInv, Heeded, ReportInv
<1> QED BY <1>2, <1>3 DEF Low

\* "Both stop once RapidAPI reports fewer left than this"
\* (RAPID_API_MONTHLY_RESERVE, settings/base.py:160-162): after such a report no
\* load or pull passes the check until the month is over, when requests are made
\* one at a time, whatever fails, is lost or forced, and whatever other servers
\* use up.
THEOREM TheReserveIsHeeded == Instance /\ OneByOne => (Spec => [][StopsOnceReported]_vars)
<1> SUFFICES ASSUME Instance, OneByOne PROVE Spec => [][StopsOnceReported]_vars
  OBVIOUS
<1>1. Init => HeedInv
  BY InitInv, InitReported, InitHeeded DEF HeedInv, ReportInv
<1>2. HeedInv /\ [Next]_vars => HeedInv'
  BY NextHeeded
<1>3. HeedInv /\ [Next]_vars => [StopsOnceReported]_vars
  BY LetPastAreEnough
<1> QED BY <1>1, <1>2, <1>3, PTL DEF Spec
-----------------------------------------------------------------------------
(* Updates of the injuries *)

\* An update has its reservation from the moment it counted until it ends, and
\* makes one request.
UpdateFits(j) ==
  /\ j.reserved => j.feature = "injuries" /\ j.pc \in {"sending", "answered", "storing", "failing"}
  /\ j.feature = "injuries" =>
       /\ j.pc \in {"checking", "reserving", "sending"} => j.left = 1
       /\ j.pc = "answered" => j.left = 0
       /\ j.pc \in {"sending", "answered", "storing"} => j.reserved

\* The lock on the tally: of a day one update only is reserved and not yet
\* counted, and there is room for it.
Reserved ==
  /\ \A v, w \in Workers :
       job[v].reserved /\ job[w].reserved /\ job[v].day = job[w].day => v = w
  /\ \A w \in Workers : job[w].reserved =>
       tally["injuries"][job[w].day] < LimitFor("injuries", job[w].superuser)
  /\ \A d \in Days : tally["injuries"][d] <= HigherLimit

UpdateInv == (\A w \in Workers : UpdateFits(job[w])) /\ Reserved

\* The request of this update was made, and is not yet counted.
Unsettled(j, d) == j.reserved /\ j.pc # "sending" /\ j.day = d

\* Every update made was counted, has been undone, or is about to be either.
Settled ==
  \A d \in Days :
    \/ made["injuries"][d] <= tally["injuries"][d] + undone[d]
    \/ /\ made["injuries"][d] <= tally["injuries"][d] + undone[d] + 1
       /\ \E w \in Workers : Unsettled(job[w], d)

AccountInv == undone \in [Days -> Nat] /\ Settled

Updating == Instance /\ "injuries" \in Features

\* The reservations after a step that makes none.
LEMMA UpdateStep ==
  ASSUME Updating, ApiInv, UpdateInv, NEW w \in Workers, NEW j,
         job' = [job EXCEPT ![w] = j], UpdateFits(j),
         j.reserved => /\ job[w].reserved /\ j.day = job[w].day
                       /\ j.superuser = job[w].superuser,
         tally'["injuries"] = tally["injuries"]
  PROVE  UpdateInv'
<1>1. \A v \in Workers : job'[v] = IF v = w THEN j ELSE job[v]
  BY DEF ApiInv, Shape
<1>2. \A v \in Workers : job'[v].reserved =>
        job[v].reserved /\ job'[v].day = job[v].day /\ job'[v].superuser = job[v].superuser
  BY <1>1
<1>3. (\A v \in Workers : UpdateFits(job[v]))'
  BY <1>1 DEF UpdateInv, UpdateFits
<1>4. Reserved'
  BY <1>2 DEF UpdateInv, Reserved
<1> QED BY <1>3, <1>4 DEF UpdateInv

\* The requests after a step that sends none, counts none and undoes none.
LEMMA AccountStep ==
  ASSUME Updating, ApiInv, AccountInv, NEW w \in Workers, NEW j,
         job' = [job EXCEPT ![w] = j],
         \A d \in Days : Unsettled(job[w], d) => Unsettled(j, d),
         tally'["injuries"] = tally["injuries"], made'["injuries"] = made["injuries"],
         UNCHANGED undone
  PROVE  AccountInv'
<1>1. \A v \in Workers : job'[v] = IF v = w THEN j ELSE job[v]
  BY DEF ApiInv, Shape
<1>2. \A d \in Days, v \in Workers : Unsettled(job[v], d) => Unsettled(job'[v], d)
  BY <1>1
<1> QED BY <1>2 DEF AccountInv, Settled, Unsettled

LEMMA UpdateGoes ==
  ASSUME Updating, ApiInv, UpdateInv, NEW w \in Workers, NEW pc, Goes(w, pc),
         UNCHANGED <<tally, made, undone>>,
         \/ At(w, "checking") /\ pc \in {"failing", "reserving"}
         \/ At(w, "reserving") /\ pc = "failing"
         \/ At(w, "storing") /\ pc = "failing"
         \/ At(w, "answered") /\ pc \in {"failing", "storing"}
         \/ At(w, "answered") /\ pc = "checking" /\ job[w].left # 0
  PROVE  UpdateInv' /\ (AccountInv => AccountInv')
<1> DEFINE j == [job[w] EXCEPT !.pc = pc]
<1>1. job' = [job EXCEPT ![w] = j] /\ job[w] \in Job
  BY DEF Goes, ApiInv, Shape
<1>2. /\ j.pc = pc /\ j.feature = job[w].feature /\ j.reserved = job[w].reserved
      /\ j.day = job[w].day /\ j.superuser = job[w].superuser /\ j.left = job[w].left
  BY <1>1 DEF Job
<1>3. UpdateFits(job[w])
  BY DEF UpdateInv
<1> HIDE DEF j
<1>4. UpdateFits(j)
  BY <1>2, <1>3 DEF UpdateFits, At
<1>5. UpdateInv'
  BY <1>1, <1>2, <1>4, UpdateStep
<1>6. ASSUME AccountInv PROVE AccountInv'
  <2>1. \A d \in Days : Unsettled(job[w], d) => Unsettled(j, d)
    BY <1>2 DEF Unsettled
  <2> QED BY <1>1, <1>6, <2>1, AccountStep
<1> QED BY <1>5, <1>6

LEMMA UpdateEnds ==
  ASSUME Updating, ApiInv, UpdateInv, NEW w \in Workers, Ends(w), UNCHANGED made,
         tally'["injuries"] = tally["injuries"]
  PROVE  /\ UpdateInv'
         /\ AccountInv /\ UNCHANGED undone /\ (\A d \in Days : ~Unsettled(job[w], d)) => AccountInv'
<1>1. ~Idle.reserved /\ Idle.pc = "idle" /\ Idle.feature = "news"
  BY DEF Idle
<1>2. UpdateFits(Idle)
  BY <1>1 DEF UpdateFits
<1> QED BY <1>1, <1>2, UpdateStep, AccountStep DEF Ends

\* What an update had spent when it fails or dies is undone.
LEMMA UpdateRollsBack ==
  ASSUME Updating, ApiInv, UpdateInv, NEW w \in Workers, RollsBack(w), UNCHANGED <<tally, made>>
  PROVE  UpdateInv' /\ (AccountInv => AccountInv')
<1> DEFINE e == job[w].day
<1>1. Ends(w)
  BY DEF RollsBack
<1>2. UpdateInv'
  BY <1>1, UpdateEnds
<1>3. CASE ~Spent(w)
  <2>1. UNCHANGED undone /\ \A d \in Days : ~Unsettled(job[w], d)
    BY <1>3 DEF RollsBack, Spent, Unsettled, At
  <2> QED BY <1>1, <1>2, <2>1, UpdateEnds
<1>4. CASE Spent(w)
  <2> SUFFICES ASSUME AccountInv PROVE AccountInv'
    BY <1>2
  <2>1. /\ e \in Days /\ undone \in [Days -> Nat] /\ undone' = [undone EXCEPT ![e] = @ + 1]
        /\ job \in [Workers -> Job]
    BY <1>4 DEF RollsBack, AccountInv, ApiInv, Shape, Job
  <2>2. \A v \in Workers : job'[v] = IF v = w THEN Idle ELSE job[v]
    BY <1>1, <2>1 DEF Ends
  <2>3. \A d \in Days : made["injuries"][d] \in Nat /\ tally["injuries"][d] \in Nat
    BY DEF ApiInv, Shape, Updating
  <2>4. undone' \in [Days -> Nat]
    BY <2>1
  <2>5. Settled'
    <3> SUFFICES ASSUME NEW d \in Days
                 PROVE  \/ made["injuries"][d] <= tally["injuries"][d] + undone'[d]
                        \/ /\ made["injuries"][d] <= tally["injuries"][d] + undone'[d] + 1
                           /\ \E v \in Workers : Unsettled(job'[v], d)
      BY DEF Settled, Unsettled
    <3>1. CASE d = e
      <4>1. undone'[d] = undone[d] + 1 /\ undone[d] \in Nat
        BY <2>1, <3>1
      <4>2. made["injuries"][d] <= tally["injuries"][d] + undone[d] + 1
        BY <2>3, <4>1 DEF AccountInv, Settled
      <4> QED BY <2>3, <4>1, <4>2
    <3>2. CASE d # e
      <4>1. undone'[d] = undone[d]
        BY <2>1, <3>2
      <4>2. \A v \in Workers : Unsettled(job[v], d) => Unsettled(job'[v], d)
        BY <2>2, <3>2 DEF Unsettled
      <4> QED BY <4>1, <4>2 DEF AccountInv, Settled
    <3> QED BY <3>1, <3>2
  <2> QED BY <2>4, <2>5 DEF AccountInv
<1> QED BY <1>3, <1>4

LEMMA UpdateBegins ==
  ASSUME Updating, ApiInv, UpdateInv, NEW w \in Workers, NEW f \in Features,
         NEW superuser \in BOOLEAN, NEW forced \in BOOLEAN, Begin(w, f, superuser, forced)
  PROVE  UpdateInv' /\ (AccountInv => AccountInv')
<1> DEFINE pc == IF f = "news" THEN "reserving" ELSE "checking"
           left == IF f = "schedule" THEN Ranges ELSE 1
           j == [Idle EXCEPT !.pc = pc, !.feature = f, !.superuser = superuser,
                             !.forced = forced, !.left = left]
<1>1. job' = [job EXCEPT ![w] = j] /\ UNCHANGED <<tally, made, undone>> /\ At(w, "idle")
  BY DEF Begin
<1>2. ~j.reserved /\ j.pc = pc /\ j.feature = f /\ j.left = left
  BY DEF Idle
<1>3. UpdateFits(j)
  BY <1>2 DEF UpdateFits
<1>4. \A d \in Days : ~Unsettled(job[w], d)
  BY <1>1 DEF Unsettled, At, UpdateInv, UpdateFits
<1> HIDE DEF j
<1> QED BY <1>1, <1>2, <1>3, <1>4, UpdateStep, AccountStep

\* Whoever counts waits for whoever has counted and not stored, and sees what he stored.
LEMMA UpdateReserves ==
  ASSUME Updating, ApiInv, UpdateInv, NEW w \in Workers, ReserveCall(w)
  PROVE  UpdateInv' /\ (AccountInv => AccountInv')
<1> DEFINE f == job[w].feature
           kept == OneTransaction(f)
           j == [job[w] EXCEPT !.pc = "sending", !.day = day, !.reserved = kept]
<1>1. /\ job[w] \in Job /\ job \in [Workers -> Job] /\ At(w, "reserving") /\ f \in Features
      /\ UNCHANGED <<made, undone>> /\ day \in Days /\ tally \in [Features -> [Days -> Nat]]
      /\ kept = (f = "injuries") /\ UpdateFits(job[w])
  BY DEF ReserveCall, ApiInv, Shape, JobsFit, At, OneTransaction, UpdateInv
<1>2. CASE Goes(w, "failing") /\ UNCHANGED tally
  BY <1>1, <1>2, UpdateGoes DEF At
<1>3. CASE /\ ~(tally[f][day] >= LimitFor(f, job[w].superuser))
           /\ job' = [job EXCEPT ![w] = j]
           /\ tally' = IF kept THEN tally ELSE [tally EXCEPT ![f][day] = @ + 1]
  <2>1. /\ j.pc = "sending" /\ j.feature = f /\ j.day = day /\ j.reserved = kept
        /\ j.superuser = job[w].superuser /\ j.left = job[w].left
    BY <1>1 DEF Job
  <2>2. tally'["injuries"] = tally["injuries"]
    BY <1>1, <1>3 DEF Updating
  <2>3. UpdateFits(j) /\ \A d \in Days : ~Unsettled(job[w], d)
    BY <1>1, <2>1 DEF UpdateFits, Unsettled, At
  <2> HIDE DEF j, kept
  <2>4. UpdateInv'
    <3>1. CASE f # "injuries"
      BY <1>1, <1>3, <2>1, <2>2, <2>3, <3>1, UpdateStep
    <3>2. CASE f = "injuries"
      <4>1. \A v \in Workers : job'[v] = IF v = w THEN j ELSE job[v]
        BY <1>1, <1>3
      <4>2. \A v \in Workers \ {w} : ~(job[v].reserved /\ job[v].day = day)
        BY <3>2 DEF ReserveCall, TallyLocked, UpdateInv, UpdateFits
      <4>3. tally["injuries"][day] < LimitFor("injuries", j.superuser)
        <5>1. LimitFor("injuries", job[w].superuser) \in Nat /\ tally["injuries"][day] \in Nat
          BY <1>1 DEF LimitFor, DailyLimit, Updating, Instance, ApiConstants
        <5> QED BY <1>3, <2>1, <3>2, <5>1
      <4>4. (\A v \in Workers : UpdateFits(job[v]))'
        BY <2>3, <4>1 DEF UpdateInv, UpdateFits
      <4>5. Reserved'
        BY <2>1, <2>2, <4>1, <4>2, <4>3 DEF UpdateInv, Reserved
      <4> QED BY <4>4, <4>5 DEF UpdateInv
    <3> QED BY <3>1, <3>2
  <2>5. AccountInv => AccountInv'
    BY <1>1, <1>3, <2>2, <2>3, AccountStep
  <2> QED BY <2>4, <2>5
<1>4. \/ Goes(w, "failing") /\ UNCHANGED tally
      \/ /\ ~(tally[f][day] >= LimitFor(f, job[w].superuser))
         /\ job' = [job EXCEPT ![w] = j]
         /\ tally' = IF kept THEN tally ELSE [tally EXCEPT ![f][day] = @ + 1]
  BY <1>1 DEF ReserveCall
<1> QED BY <1>2, <1>3, <1>4
\* Sent by an update, the request is one that is not yet counted.
LEMMA UpdateSends ==
  ASSUME Updating, ApiInv, UpdateInv, NEW w \in Workers, NEW answer \in {"ok", "error", "lost"},
         Send(w, answer)
  PROVE  UpdateInv' /\ (AccountInv => AccountInv')
<1> DEFINE f == job[w].feature
           told == remaining'[Provider(f)]
           j == [job[w] EXCEPT !.pc = "answered", !.answer = answer, !.report = told, !.left = @ - 1]
<1>1. /\ job[w] \in Job /\ job \in [Workers -> Job] /\ At(w, "sending") /\ f \in Features
      /\ UNCHANGED <<tally, undone>> /\ tally \in [Features -> [Days -> Nat]]
      /\ made \in [Features -> [Days -> Nat]] /\ made' = [made EXCEPT ![f][job[w].day] = @ + 1]
      /\ UpdateFits(job[w]) /\ job[w].left \in Int /\ job[w].day \in Days
  BY DEF Send, ApiInv, Shape, JobsFit, At, UpdateInv, Job
<1>2. job' = [job EXCEPT ![w] = j]
  <2>1. job' = [job EXCEPT ![w].pc = "answered", ![w].answer = answer, ![w].report = told,
                           ![w].left = @ - 1]
    BY DEF Send
  <2> HIDE DEF told
  <2> QED BY <1>1, <2>1 DEF Job
<1> HIDE DEF told
<1>3. /\ j.pc = "answered" /\ j.feature = f /\ j.day = job[w].day /\ j.reserved = job[w].reserved
      /\ j.superuser = job[w].superuser /\ j.left = job[w].left - 1 /\ j.answer = answer
  BY <1>1 DEF Job
<1> HIDE DEF j
<1>4. UpdateFits(j)
  BY <1>1, <1>3 DEF UpdateFits, At
<1>5. UpdateInv'
  BY <1>1, <1>2, <1>3, <1>4, UpdateStep
<1>6. ASSUME AccountInv PROVE AccountInv'
  <2>1. \A d \in Days : ~Unsettled(job[w], d)
    BY <1>1 DEF Unsettled, At
  <2>2. CASE f # "injuries"
    <3>1. made'["injuries"] = made["injuries"]
      BY <1>1, <2>2 DEF Updating
    <3> QED BY <1>1, <1>2, <1>6, <2>1, <3>1, AccountStep
  <2>3. CASE f = "injuries"
    <3>1. \A v \in Workers : job'[v] = IF v = w THEN j ELSE job[v]
      BY <1>1, <1>2
    <3>2. Unsettled(job'[w], job[w].day)
      BY <1>1, <1>3, <2>3, <3>1 DEF Unsettled, UpdateFits, At
    <3>3. \A v \in Workers : ~Unsettled(job[v], job[w].day)
      BY <1>1, <2>3 DEF Unsettled, UpdateInv, Reserved, UpdateFits, At
    <3>4. undone \in [Days -> Nat]
      BY <1>6 DEF AccountInv
    <3>5. made["injuries"][job[w].day] <= tally["injuries"][job[w].day] + undone[job[w].day]
      BY <1>1, <1>6, <3>3 DEF AccountInv, Settled
    <3>6. made'["injuries"][job[w].day] <= tally'["injuries"][job[w].day] + undone[job[w].day] + 1
      <4>1. made'["injuries"][job[w].day] = made["injuries"][job[w].day] + 1
        BY <1>1, <2>3
      <4>2. /\ made["injuries"][job[w].day] \in Nat /\ tally["injuries"][job[w].day] \in Nat
            /\ undone[job[w].day] \in Nat
        BY <1>1, <2>3, <3>4
      <4> QED BY <1>1, <3>5, <4>1, <4>2
    <3>7. ASSUME NEW d \in Days, d # job[w].day
          PROVE  /\ made'["injuries"][d] = made["injuries"][d] /\ tally'["injuries"][d] = tally["injuries"][d]
                 /\ \A v \in Workers : Unsettled(job[v], d) => Unsettled(job'[v], d)
      BY <1>1, <1>3, <2>1, <2>3, <3>1, <3>7
    <3>8. Settled'
      <4> SUFFICES ASSUME NEW d \in Days
                   PROVE  \/ made'["injuries"][d] <= tally'["injuries"][d] + undone[d]
                          \/ /\ made'["injuries"][d] <= tally'["injuries"][d] + undone[d] + 1
                             /\ \E v \in Workers : Unsettled(job'[v], d)
        BY <1>1 DEF Settled, Unsettled
      <4>1. CASE d = job[w].day
        BY <3>2, <3>6, <4>1
      <4>2. CASE d # job[w].day
        BY <1>6, <3>7, <4>2 DEF AccountInv, Settled
      <4> QED BY <4>1, <4>2
    <3> QED BY <1>1, <3>4, <3>8 DEF AccountInv
  <2> QED BY <2>2, <2>3
<1> QED BY <1>5, <1>6

LEMMA UpdateRecords ==
  ASSUME Updating, ApiInv, UpdateInv, NEW w \in Workers, Record(w)
  PROVE  UpdateInv' /\ (AccountInv => AccountInv')
<1> DEFINE f == job[w].feature
           next == IF job[w].answer # "ok" THEN "failing" ELSE IF job[w].left > 0 THEN "checking" ELSE "storing"
           told == [remaining |-> job[w].report, resets_on |-> Resets]
           kept == IF OneTransaction(f) THEN told ELSE job[w].count
           j == [job[w] EXCEPT !.pc = next, !.count = kept]
<1>1. /\ job[w] \in Job /\ job \in [Workers -> Job] /\ At(w, "answered")
      /\ UNCHANGED <<tally, made, undone>> /\ UpdateFits(job[w]) /\ job[w].left \in Int
  BY DEF Record, ApiInv, Shape, JobsFit, At, UpdateInv, Job
<1>2. Goes(w, next) \/ job' = [job EXCEPT ![w] = j]
  BY DEF Record
<1>3. next \in {"failing", "storing"} \/ (next = "checking" /\ job[w].left # 0)
  BY <1>1
<1>4. f = "injuries" => next # "checking"
  BY <1>1, <1>3 DEF UpdateFits, At
<1> HIDE DEF next, kept
<1>5. CASE Goes(w, next)
  BY <1>1, <1>3, <1>4, <1>5, UpdateGoes
<1>6. CASE job' = [job EXCEPT ![w] = j]
  <2>1. /\ j.pc = next /\ j.feature = f /\ j.day = job[w].day /\ j.reserved = job[w].reserved
        /\ j.superuser = job[w].superuser /\ j.left = job[w].left
    BY <1>1 DEF Job
  <2> HIDE DEF j
  <2>2. UpdateFits(j)
    BY <1>1, <1>3, <1>4, <2>1 DEF UpdateFits, At
  <2>3. UpdateInv'
    BY <1>1, <1>6, <2>1, <2>2, UpdateStep
  <2>4. ASSUME AccountInv PROVE AccountInv'
    <3>1. \A d \in Days : Unsettled(job[w], d) => Unsettled(j, d)
      BY <1>3, <2>1 DEF Unsettled
    <3> QED BY <1>1, <1>6, <2>4, <3>1, AccountStep
  <2> QED BY <2>3, <2>4
<1> QED BY <1>2, <1>5, <1>6

\* Stored, the update is counted, for which there is room.
LEMMA UpdateStores ==
  ASSUME Updating, ApiInv, UpdateInv, NEW w \in Workers, Store(w)
  PROVE  UpdateInv' /\ (AccountInv => AccountInv')
<1> DEFINE f == job[w].feature
           d == job[w].day
<1>1. /\ job \in [Workers -> Job] /\ At(w, "storing") /\ f \in Features
      /\ Ends(w) /\ UNCHANGED <<made, undone>> /\ d \in Days
      /\ tally' = IF job[w].reserved THEN [tally EXCEPT ![f][d] = @ + 1] ELSE tally
      /\ tally \in [Features -> [Days -> Nat]] /\ made \in [Features -> [Days -> Nat]]
      /\ UpdateFits(job[w])
  BY DEF Store, ApiInv, Shape, JobsFit, At, UpdateInv, Job
<1>2. CASE f # "injuries"
  <2>1. tally'["injuries"] = tally["injuries"] /\ \A e \in Days : ~Unsettled(job[w], e)
    BY <1>1, <1>2 DEF UpdateFits, Unsettled
  <2> QED BY <1>1, <2>1, UpdateEnds
<1>3. CASE f = "injuries"
  <2>1. job[w].reserved
    BY <1>1, <1>3 DEF UpdateFits, At
  <2>2. /\ tally'["injuries"][d] = tally["injuries"][d] + 1
        /\ \A e \in Days \ {d} : tally'["injuries"][e] = tally["injuries"][e]
        /\ \A e \in Days : tally["injuries"][e] \in Nat /\ made["injuries"][e] \in Nat
    BY <1>1, <1>3, <2>1
  <2>3. \A v \in Workers : job'[v] = IF v = w THEN Idle ELSE job[v]
    BY <1>1 DEF Ends
  <2>4. ~Idle.reserved /\ Idle.pc = "idle" /\ UpdateFits(Idle)
    BY DEF Idle, UpdateFits
  <2>5. \A v \in Workers \ {w} : job[v].reserved => job[v].day # d
    BY <1>1, <2>1 DEF UpdateInv, Reserved
  <2>6. (\A v \in Workers : UpdateFits(job[v]))'
    BY <2>3, <2>4 DEF UpdateInv, UpdateFits
  <2>7. tally["injuries"][d] < HigherLimit /\ HigherLimit \in Nat
    <3>1. tally["injuries"][d] < LimitFor("injuries", job[w].superuser)
      BY <1>1, <2>1 DEF UpdateInv, Reserved
    <3> QED BY <2>2, <1>1, <3>1 DEF LimitFor, DailyLimit, Updating, Instance, ApiConstants
  <2>8. Reserved'
    <3>1. \A v \in Workers : job'[v].reserved =>
            job[v].reserved /\ job'[v] = job[v] /\ job[v].day \in Days \ {d}
      BY <1>1, <2>3, <2>4, <2>5 DEF Job
    <3>2. \A v, u \in Workers :
            job'[v].reserved /\ job'[u].reserved /\ job'[v].day = job'[u].day => v = u
      BY <3>1 DEF UpdateInv, Reserved
    <3>3. \A v \in Workers : job'[v].reserved =>
            tally'["injuries"][job'[v].day] < LimitFor("injuries", job'[v].superuser)
      BY <2>2, <3>1 DEF UpdateInv, Reserved
    <3>4. \A e \in Days : tally'["injuries"][e] <= HigherLimit
      BY <1>1, <2>2, <2>7 DEF UpdateInv, Reserved
    <3> QED BY <3>2, <3>3, <3>4 DEF Reserved
  <2>9. ASSUME AccountInv PROVE AccountInv'
    <3>1. undone \in [Days -> Nat] /\ undone' = undone
      BY <1>1, <2>9 DEF AccountInv
    <3>2. Settled'
      <4> SUFFICES ASSUME NEW e \in Days
                   PROVE  \/ made["injuries"][e] <= tally'["injuries"][e] + undone[e]
                          \/ /\ made["injuries"][e] <= tally'["injuries"][e] + undone[e] + 1
                             /\ \E v \in Workers : Unsettled(job'[v], e)
        BY <1>1 DEF Settled, Unsettled
      <4>1. CASE e = d
        <5>1. made["injuries"][e] <= tally["injuries"][e] + undone[e] + 1
          BY <2>2, <2>9, <3>1 DEF AccountInv, Settled
        <5>2. tally'["injuries"][e] = tally["injuries"][e] + 1 /\ undone[e] \in Nat
          BY <2>2, <3>1, <4>1
        <5> QED BY <2>2, <5>1, <5>2
      <4>2. CASE e # d
        <5>1. \A v \in Workers : Unsettled(job[v], e) => Unsettled(job'[v], e)
          BY <2>3, <4>2 DEF Unsettled
        <5>2. tally'["injuries"][e] = tally["injuries"][e]
          BY <2>2, <4>2
        <5> QED BY <2>9, <5>1, <5>2 DEF AccountInv, Settled
      <4> QED BY <4>1, <4>2
    <3> QED BY <3>1, <3>2 DEF AccountInv
  <2> QED BY <2>6, <2>8, <2>9 DEF UpdateInv
<1> QED BY <1>2, <1>3

LEMMA UpdateInit ==
  ASSUME Updating, Init
  PROVE  UpdateInv /\ AccountInv
<1>1. /\ \A w \in Workers : job[w] = Idle
      /\ \A d \in Days : tally["injuries"][d] = 0 /\ made["injuries"][d] = 0
  BY DEF Init, Updating
<1>2. ~Idle.reserved /\ UpdateFits(Idle)
  BY DEF Idle, UpdateFits
<1>3. HigherLimit >= 0
  BY DEF Updating, Instance, ApiConstants
<1>4. Reserved
  BY <1>1, <1>2, <1>3 DEF Reserved
<1>5. undone \in [Days -> Nat] /\ \A d \in Days : undone[d] = 0
  BY DEF Init
<1>6. Settled
  BY <1>1, <1>5 DEF Settled
<1> QED BY <1>1, <1>2, <1>4, <1>5, <1>6 DEF UpdateInv, AccountInv

LEMMA UpdateNext ==
  ASSUME Updating, ApiInv, UpdateInv, [Next]_vars
  PROVE  UpdateInv' /\ (AccountInv => AccountInv')
<1>1. ASSUME NEW w \in Workers, NEW f \in Features, NEW superuser \in BOOLEAN,
             NEW forced \in BOOLEAN, Begin(w, f, superuser, forced)
      PROVE  UpdateInv' /\ (AccountInv => AccountInv')
  BY <1>1, UpdateBegins
<1>2. ASSUME NEW w \in Workers, CheckReserve(w)
      PROVE  UpdateInv' /\ (AccountInv => AccountInv')
  <2>1. At(w, "checking") /\ UNCHANGED <<tally, made, undone>>
    BY <1>2 DEF CheckReserve
  <2>2. PICK pc \in {"failing", "reserving"} : Goes(w, pc)
    BY <1>2 DEF CheckReserve
  <2> QED BY <2>1, <2>2, UpdateGoes
<1>3. ASSUME NEW w \in Workers, StoreFails(w)
      PROVE  UpdateInv' /\ (AccountInv => AccountInv')
  <2>1. At(w, "storing") /\ UNCHANGED <<tally, made, undone>> /\ Goes(w, "failing")
    BY <1>3 DEF StoreFails
  <2> QED BY <2>1, UpdateGoes
<1>4. ASSUME NEW w \in Workers, Fail(w) \/ Crash(w)
      PROVE  UpdateInv' /\ (AccountInv => AccountInv')
  <2>1. RollsBack(w) /\ UNCHANGED <<tally, made>>
    BY <1>4 DEF Fail, Crash
  <2> QED BY <2>1, UpdateRollsBack
<1>5. ASSUME NEW w \in Workers, GoOn(w)
      PROVE  UpdateInv' /\ (AccountInv => AccountInv')
  BY <1>2, <1>3, <1>4, <1>5, UpdateReserves, UpdateSends, UpdateRecords, UpdateStores DEF GoOn
<1>6. CASE UNCHANGED <<tally, made, undone, job>>
  BY <1>6 DEF UpdateInv, Reserved, AccountInv, Settled
<1>7. (\E p \in Providers : OthersCall(p)) \/ NextDay \/ UNCHANGED vars
        => UNCHANGED <<tally, made, undone, job>>
  BY DEF OthersCall, NextDay, vars
<1> QED BY <1>1, <1>4, <1>5, <1>6, <1>7 DEF Next

LEMMA UpdatesAreFew ==
  ASSUME Updating, ApiInv, UpdateInv, AccountInv
  PROVE  \A d \in Days : made["injuries"][d] <= HigherLimit + undone[d]
<1> SUFFICES ASSUME NEW d \in Days PROVE made["injuries"][d] <= HigherLimit + undone[d]
  OBVIOUS
<1>1. /\ tally["injuries"][d] \in Nat /\ made["injuries"][d] \in Nat /\ HigherLimit \in Nat
      /\ LowerLimit \in Nat /\ LowerLimit <= HigherLimit /\ undone[d] \in Nat
  BY DEF AccountInv, ApiInv, Shape, Updating, Instance, ApiConstants
<1>2. CASE made["injuries"][d] <= tally["injuries"][d] + undone[d]
  <2>1. tally["injuries"][d] <= HigherLimit
    BY DEF UpdateInv, Reserved
  <2> QED BY <1>1, <1>2, <2>1
<1>3. CASE /\ made["injuries"][d] <= tally["injuries"][d] + undone[d] + 1
           /\ \E w \in Workers : Unsettled(job[w], d)
  <2>1. PICK w \in Workers : job[w].reserved /\ job[w].day = d
    BY <1>3 DEF Unsettled
  <2>2. tally["injuries"][d] < LimitFor("injuries", job[w].superuser)
    BY <2>1 DEF UpdateInv, Reserved
  <2>3. tally["injuries"][d] < HigherLimit
    BY <1>1, <2>2 DEF LimitFor, DailyLimit
  <2> QED BY <1>1, <1>3, <2>3
<1> QED BY <1>2, <1>3 DEF AccountInv, Settled

\* An update that is sent has the day's tally to itself, and the tally has every
\* request made that was not undone.
LEMMA UsersAreHeld ==
  ASSUME Updating, ApiInv, UpdateInv, AccountInv, [Next]_vars
  PROVE  [UsersGetTheLowerLimit]_vars
<1> SUFFICES ASSUME NEW w \in Workers, job[w].feature = "injuries", ~job[w].superuser, At(w, "sending")
             PROVE  made["injuries"][job[w].day] < LowerLimit + undone[job[w].day]
  BY DEF UsersGetTheLowerLimit
<1> DEFINE d == job[w].day
<1>1. /\ d \in Days /\ tally["injuries"][d] \in Nat /\ made["injuries"][d] \in Nat
      /\ LowerLimit \in Nat /\ undone[d] \in Nat
  BY DEF AccountInv, ApiInv, Shape, Job, Updating, Instance, ApiConstants
<1>2. job[w].reserved
  BY DEF UpdateInv, UpdateFits, At
<1>3. tally["injuries"][d] < LowerLimit
  BY <1>2 DEF UpdateInv, Reserved, LimitFor
<1>4. \A v \in Workers : ~Unsettled(job[v], d)
  BY <1>2 DEF UpdateInv, Reserved, Unsettled, At
<1>5. made["injuries"][d] <= tally["injuries"][d] + undone[d]
  BY <1>1, <1>4 DEF AccountInv, Settled
<1> HIDE DEF d
<1> QED BY <1>1, <1>3, <1>5 DEF d

\* No more updates of the injuries are stored a day than the higher limit, by
\* however many users at the same time, whatever fails or dies
\* (_reserve_api_call, nba/services.py).
THEOREM StoredUpdatesAreFew ==
  Updating => (Spec => [](\A d \in Days : tally["injuries"][d] <= HigherLimit))
<1> SUFFICES ASSUME Updating
             PROVE  Spec => [](\A d \in Days : tally["injuries"][d] <= HigherLimit)
  OBVIOUS
<1>1. Init => ApiInv /\ UpdateInv
  BY InitInv, UpdateInit DEF Updating
<1>2. ApiInv /\ UpdateInv /\ [Next]_vars => ApiInv' /\ UpdateInv'
  BY NextKeeps, UpdateNext DEF Updating
<1>3. UpdateInv => \A d \in Days : tally["injuries"][d] <= HigherLimit
  BY DEF UpdateInv, Reserved
<1> QED BY <1>1, <1>2, <1>3, PTL DEF Spec

\* However many updates run, fail or die at the same time: no more requests are made
\* a day than the limit, the injuries' included, but for one more for each update
\* that failed after its request; and but for those a user on the lower limit makes
\* none once that many were made, by whomever (daily_limit_for, nba/services.py).  A
\* check and a count that two updates make at the same time are made one after the
\* other.
THEOREM NoUpdateTooMany ==
  Updating => (Spec => []DailyLimitKept /\ [][UsersGetTheLowerLimit]_vars)
<1> SUFFICES ASSUME Updating PROVE Spec => []DailyLimitKept /\ [][UsersGetTheLowerLimit]_vars
  OBVIOUS
<1> DEFINE Inv == ApiInv /\ UpdateInv /\ AccountInv
<1>1. Init => Inv
  BY InitInv, UpdateInit DEF Updating
<1>2. Inv /\ [Next]_vars => Inv'
  BY NextKeeps, UpdateNext DEF Updating
<1>3. Inv => DailyLimitKept
  <2> SUFFICES ASSUME Inv, NEW f \in Features, NEW d \in Days
               PROVE  made[f][d] <= DailyLimit(f) + (IF OneTransaction(f) THEN undone[d] ELSE 0)
    BY DEF DailyLimitKept
  <2>1. CASE f = "injuries"
    BY <2>1, UpdatesAreFew DEF DailyLimit, OneTransaction
  <2>2. CASE f # "injuries"
    <3>1. made[f][d] <= DailyLimit(f) /\ DailyLimit(f) \in Nat
      BY <2>2, NeverTooMany, LimitsAreNumbers DEF OnTheirOwn, Updating
    <3> QED BY <2>2, <3>1 DEF OneTransaction
  <2> QED BY <2>1, <2>2
<1>4. Inv /\ [Next]_vars => [UsersGetTheLowerLimit]_vars
  BY UsersAreHeld
<1> QED BY <1>1, <1>2, <1>3, <1>4, PTL DEF Spec
=============================================================================
