-------------------------- MODULE SeasonStatsProofs --------------------------
(***************************************************************************)
(* Proofs about the uploads of season stats, for any number of workers,    *)
(* uploads, seasons and players: imports of a season take turns, an upload *)
(* once closed stays as it was closed, an import replaces its season's     *)
(* stats by those of its file, and writes the numbers its preview showed.  *)
(***************************************************************************)
EXTENDS SeasonStats, SeasonStatsFile, FiniteSetTheorems, TLAPS

Instance == StatsConstants /\ IsFiniteSet(Players)

\* What may become of an upload, and that its season stays: a preview is used,
\* closed or fails once; only one that has expired may be recorded as failed.
StatusMovesOn ==
  \A r \in Runs :
    /\ runs'[r].status # runs[r].status =>
         \/ runs[r].status = "absent" /\ runs'[r].status = "previewed"
         \/ runs[r].status = "previewed" /\ runs'[r].status # "absent"
         \/ runs[r].status = "expired" /\ runs'[r].status = "failed"
    /\ runs[r].status # "absent" => runs'[r].season = runs[r].season

-----------------------------------------------------------------------------
(* The inductive invariant *)

Value == Runs \union {NoRow, OldRow}

Drafts == UNION {[D -> Value] : D \in SUBSET Players}

Job == [pc : {"idle", "expiring", "counted", "asked", "opened", "reading", "loaded", "written",
              "deleting", "deleted", "closing", "done", "failing"},
        kind : {"page", "upload", "confirm", "discard"}, source : {"web", "command", "dry_run"},
        user : Users \union {Nobody}, run : Runs \union {0}, season : Seasons,
        matched : SUBSET Players, scan : (SUBSET Runs) \union (SUBSET Players),
        existing : SUBSET Players, alive : SUBSET Players, held : SUBSET Runs,
        draft : Drafts, counts : Nat \X Nat \X Nat]

Shape ==
  /\ now \in 0..LastInstant
  /\ runs \in [Runs -> Upload]
  /\ stats \in [Seasons -> [Players -> Value]]
  /\ gone \subseteq Players
  /\ job \in [Workers -> Job]

\* A closed upload holds no pending rows.
ClosedAreEmpty == \A r \in Runs : runs[r].payload # {} => IsOpen(r)

\* Between the opening of the preview and the commit, and about an upload at all.
Importing == InTransaction \union {"done"}
About == Importing \union {"asked", "failing"}

\* A request holds open uploads only, its own among them while it imports.  A
\* command's upload is nobody's, so no page can use it.
Fits(uploads, j) ==
  /\ j.pc \in Importing => /\ j.run \in j.held /\ uploads[j.run].season = j.season
                           /\ j.source = "web" => uploads[j.run].triggered_by # Nobody
  /\ \A r \in j.held : uploads[r].status = "previewed"
  /\ j.pc \notin Importing \union {"counted"} => j.held = {}
  /\ j.pc \in About => j.run \in Runs
  /\ j.pc \in {"expiring", "closing"} => j.scan \subseteq Runs
  /\ j.pc = "asked" /\ j.source = "web" => j.user # Nobody
  /\ j.pc \in {"expiring", "counted"} /\ j.source # "web" => j.user = Nobody
  /\ j.pc \in About /\ j.source # "web" =>
       uploads[j.run].triggered_by = Nobody /\ uploads[j.run].status \in {"previewed", "expired"}

JobsFit == \A w \in Workers : Fits(runs, job[w])

\* Of two imports of a season, one at least has seen the other's preview, and
\* waits for it before it is done.
TakeTurns(i, j) ==
  /\ ~(i.pc = "done" /\ j.pc = "done")
  /\ i.pc = "done" /\ j.pc = "closing" => i.run \in j.scan
  /\ i.pc = "closing" /\ j.pc = "closing" => i.run \in j.scan \/ j.run \in i.scan

Apart(i, j) ==
  /\ i.held \intersect j.held = {}
  /\ i.pc \in About /\ j.pc \in About /\ i.source # "web" /\ j.source # "web" => i.run # j.run
  /\ i.season = j.season => TakeTurns(i, j)

AllApart == \A v, w \in Workers : v # w => Apart(job[v], job[w])

StatsInv == Shape /\ ClosedAreEmpty /\ JobsFit /\ AllApart

-----------------------------------------------------------------------------
(* Requests that are nowhere, and the first state *)

LEMMA NothingFits ==
  ASSUME Instance
  PROVE  /\ Idle \in Job /\ NoRun \in Upload
         /\ Idle.pc = "idle" /\ Idle.held = {} /\ Idle.source = "web"
<1>1. (CHOOSE s \in Seasons : TRUE) \in Seasons
  BY DEF Instance, StatsConstants
<1>2. << >> \in Drafts
  <2>1. << >> \in [{} -> Value]
    OBVIOUS
  <2> QED BY <2>1 DEF Drafts
<1>3. {} \in SUBSET Players /\ {} \in SUBSET Runs
      /\ {} \in (SUBSET Runs) \union (SUBSET Players) /\ <<0, 0, 0>> \in Nat \X Nat \X Nat
  OBVIOUS
<1>4. Idle \in Job
  BY <1>1, <1>2, <1>3 DEF Idle, Job
<1>5. NoRun \in Upload
  BY <1>1, <1>3 DEF NoRun, Upload, Instance, StatsConstants
<1> QED BY <1>4, <1>5 DEF Idle

\* A request that is over stands in nobody's way.
LEMMA IdleApart ==
  ASSUME NEW i, i.pc = "idle", i.held = {}, i.source = "web"
  PROVE  (\A uploads : Fits(uploads, i)) /\ \A j : Apart(i, j) /\ Apart(j, i)
BY DEF Fits, Apart, TakeTurns, Importing, InTransaction, About

LEMMA InitInv ==
  ASSUME Instance, Init
  PROVE  StatsInv
<1>1. Idle \in Job /\ NoRun \in Upload
  BY NothingFits
<1>2. Shape
  <2>1. now \in 0..LastInstant
    BY DEF Init, Instance, StatsConstants
  <2>2. stats \in [Seasons -> [Players -> Value]]
    BY DEF Init, Value
  <2> QED BY <1>1, <2>1, <2>2 DEF Init, Shape
<1>3. \A w \in Workers : job[w] = Idle
  BY DEF Init
<1>4. JobsFit /\ AllApart
  BY <1>3, NothingFits, IdleApart DEF JobsFit, AllApart
<1>5. ClosedAreEmpty
  BY DEF Init, NoRun, ClosedAreEmpty
<1> QED BY <1>2, <1>4, <1>5 DEF StatsInv

-----------------------------------------------------------------------------
(* Steps in general *)

\* A request goes on and no upload changes.
LEMMA JobStep ==
  ASSUME StatsInv, NEW w \in Workers, NEW j \in Job, Fits(runs, j),
         \A v \in Workers \ {w} : Apart(job[v], j) /\ Apart(j, job[v]),
         job' = [job EXCEPT ![w] = j], UNCHANGED <<now, runs, stats, gone>>
  PROVE  StatsInv'
<1>1. Shape' /\ ClosedAreEmpty'
  BY DEF StatsInv, Shape, ClosedAreEmpty, IsOpen
<1>2. \A v \in Workers : job'[v] = IF v = w THEN j ELSE job[v]
  BY DEF StatsInv, Shape
<1>3. JobsFit'
  BY <1>2 DEF StatsInv, JobsFit, Fits, IsOpen
<1>4. AllApart'
  BY <1>2 DEF StatsInv, AllApart, Apart, TakeTurns
<1> QED BY <1>1, <1>3, <1>4 DEF StatsInv

\* The request of w changes uploads that nobody else holds, and is over or goes
\* on with j.
LEMMA RunsStep ==
  ASSUME StatsInv, NEW w \in Workers, NEW j \in Job, Fits(runs', j),
         \A v \in Workers \ {w} : Apart(job[v], j) /\ Apart(j, job[v]),
         job' = [job EXCEPT ![w] = j], UNCHANGED <<now, gone>>,
         runs' \in [Runs -> Upload], ClosedAreEmpty',
         stats' \in [Seasons -> [Players -> Value]],
         \A r \in Runs :
           \/ runs'[r] = runs[r]
           \/ runs[r].status = "absent"
           \/ /\ \A v \in Workers \ {w} : r \notin job[v].held
              /\ runs'[r].season = runs[r].season /\ runs'[r].triggered_by = runs[r].triggered_by
              /\ \/ runs'[r].status \in {"previewed", "expired"}
                 \/ runs[r].triggered_by # Nobody
                 \/ job[w].pc \in About /\ job[w].source # "web" /\ job[w].run = r
  PROVE  StatsInv'
<1>1. Shape'
  BY DEF StatsInv, Shape
<1>2. job \in [Workers -> Job] /\ \A v \in Workers : job'[v] = IF v = w THEN j ELSE job[v]
  BY DEF StatsInv, Shape
<1>3. AllApart'
  BY <1>2 DEF StatsInv, AllApart, Apart, TakeTurns
<1>4. ASSUME NEW v \in Workers \ {w} PROVE Fits(runs', job[v])
  <2> DEFINE i == job[v]
  <2>1. i \in Job /\ Fits(runs, i) /\ job'[v] = i
    BY <1>2 DEF StatsInv, JobsFit
  <2>2. i.held \subseteq Runs
    BY <2>1 DEF Job
  <2>3. \A r \in i.held : runs'[r] = runs[r]
    BY <2>1, <2>2 DEF Fits, IsOpen
  <2>4. i.pc \in About /\ i.source # "web" =>
          runs'[i.run].triggered_by = Nobody /\ runs'[i.run].status \in {"previewed", "expired"}
    <3> SUFFICES ASSUME i.pc \in About, i.source # "web"
                 PROVE  runs'[i.run].triggered_by = Nobody
                        /\ runs'[i.run].status \in {"previewed", "expired"}
      OBVIOUS
    <3>1. /\ i.run \in Runs /\ runs[i.run].triggered_by = Nobody
          /\ runs[i.run].status \in {"previewed", "expired"}
      BY <2>1 DEF Fits
    <3>2. ~(job[w].pc \in About /\ job[w].source # "web" /\ job[w].run = i.run)
      BY <1>2 DEF StatsInv, AllApart, Apart
    <3> HIDE DEF i
    <3> QED BY <3>1, <3>2
  <2> HIDE DEF i
  <2>5. \A r \in i.held : runs'[r].status = "previewed"
    BY <2>1, <2>3 DEF Fits
  <2>6. i.pc \in Importing => /\ i.run \in i.held /\ runs'[i.run].season = i.season
                              /\ i.source = "web" => runs'[i.run].triggered_by # Nobody
    BY <2>1, <2>3 DEF Fits
  <2>7. /\ i.pc \notin Importing \union {"counted"} => i.held = {}
        /\ i.pc \in About => i.run \in Runs
        /\ i.pc \in {"expiring", "closing"} => i.scan \subseteq Runs
        /\ i.pc = "asked" /\ i.source = "web" => i.user # Nobody
        /\ i.pc \in {"expiring", "counted"} /\ i.source # "web" => i.user = Nobody
    BY <2>1 DEF Fits
  <2> QED BY <2>1, <2>4, <2>5, <2>6, <2>7 DEF Fits, i, Importing, InTransaction, About
<1>5. JobsFit'
  BY <1>2, <1>4 DEF JobsFit
<1> QED BY <1>1, <1>3, <1>5 DEF StatsInv

\* Where a request is: what the invariant says of it and of the others.
LEMMA Standing ==
  ASSUME StatsInv, NEW w \in Workers
  PROVE  /\ job[w] \in Job /\ Fits(runs, job[w])
         /\ \A v \in Workers \ {w} : job[v] \in Job /\ Fits(runs, job[v])
                                     /\ Apart(job[v], job[w]) /\ Apart(job[w], job[v])
         /\ job \in [Workers -> Job] /\ runs \in [Runs -> Upload]
         /\ stats \in [Seasons -> [Players -> Value]]
BY DEF StatsInv, Shape, JobsFit, AllApart

LEMMA EndKeeps ==
  ASSUME Instance, StatsInv, NEW w \in Workers, job' = [job EXCEPT ![w] = Idle],
         UNCHANGED <<now, runs, stats, gone>>
  PROVE  StatsInv'
BY NothingFits, IdleApart, JobStep

\* A new request holds nothing.
LEMMA BeginKeeps ==
  ASSUME Instance, StatsInv, NEW w \in Workers, NEW j \in Job, job' = [job EXCEPT ![w] = j],
         j.held = {}, j.pc = "expiring" \/ (j.pc = "asked" /\ j.source = "web"),
         Fits(runs, j), UNCHANGED <<now, runs, stats, gone>>
  PROVE  StatsInv'
<1>1. \A v \in Workers \ {w} : Apart(job[v], j) /\ Apart(j, job[v])
  BY DEF Apart, TakeTurns, About, Importing, InTransaction
<1> QED BY <1>1, JobStep

\* An import goes on reading and writing.
LEMMA InnerStep ==
  ASSUME Instance, StatsInv, NEW w \in Workers, NEW j \in Job, job' = [job EXCEPT ![w] = j],
         job[w].pc \in {"opened", "reading", "loaded", "written", "deleting"},
         j.pc \in {"reading", "loaded", "written", "deleting", "deleted"},
         j.run = job[w].run, j.season = job[w].season, j.source = job[w].source,
         j.user = job[w].user, j.held = job[w].held,
         UNCHANGED <<now, runs, stats, gone>>
  PROVE  StatsInv'
<1>1. Fits(runs, j)
  BY Standing DEF Fits, About, Importing, InTransaction
<1>2. \A v \in Workers \ {w} : Apart(job[v], j) /\ Apart(j, job[v])
  BY Standing DEF Apart, TakeTurns, About, Importing, InTransaction
<1> QED BY <1>1, <1>2, JobStep

LEMMA RaiseKeeps ==
  ASSUME Instance, StatsInv, NEW w \in Workers, job[w].pc \in InTransaction,
         job' = [job EXCEPT ![w].pc = "failing", ![w].held = {}, ![w].draft = << >>],
         UNCHANGED <<now, runs, stats, gone>>
  PROVE  StatsInv'
<1> DEFINE j == [job[w] EXCEPT !.pc = "failing", !.held = {}, !.draft = << >>]
<1>1. << >> \in Drafts
  BY NothingFits DEF Idle, Job
<1>2. job[w] \in Job /\ job \in [Workers -> Job]
  BY Standing
<1>3. /\ j \in Job /\ j.pc = "failing" /\ j.held = {} /\ j.run = job[w].run
      /\ j.source = job[w].source /\ j.season = job[w].season
  BY <1>1, <1>2 DEF Job
<1>4. job' = [job EXCEPT ![w] = j]
  BY <1>2
<1> HIDE DEF j
<1>5. Fits(runs, j)
  BY <1>3, Standing DEF Fits, About, Importing, InTransaction
<1>6. \A v \in Workers \ {w} : Apart(job[v], j) /\ Apart(j, job[v])
  BY <1>3, Standing DEF Apart, TakeTurns, About, Importing, InTransaction
<1> QED BY <1>3, <1>4, <1>5, <1>6, JobStep

-----------------------------------------------------------------------------
(* Requests that begin *)

LEMMA OpenPageKeeps ==
  ASSUME Instance, StatsInv, NEW w \in Workers, OpenPage(w)
  PROVE  StatsInv'
<1> DEFINE j == [Idle EXCEPT !.pc = "expiring", !.scan = Stale]
<1>1. Stale \in (SUBSET Runs) \union (SUBSET Players) /\ Stale \subseteq Runs
  BY DEF Stale
<1>2. j \in Job /\ j.pc = "expiring" /\ j.held = {} /\ j.source = "web" /\ j.scan = Stale
  BY <1>1, NothingFits DEF Job
<1>3. job' = [job EXCEPT ![w] = j] /\ UNCHANGED <<now, runs, stats, gone>>
  BY DEF OpenPage
<1> HIDE DEF j
<1>4. Fits(runs, j)
  BY <1>1, <1>2 DEF Fits, About, Importing, InTransaction
<1> QED BY <1>2, <1>3, <1>4, BeginKeeps

LEMMA BeginUploadKeeps ==
  ASSUME Instance, StatsInv, NEW w \in Workers, NEW u \in Users, NEW from \in Sources,
         NEW s \in Seasons, NEW m \in SUBSET Players, BeginUpload(w, u, from, s, m)
  PROVE  StatsInv'
<1> DEFINE whose == IF from = "web" THEN u ELSE Nobody
           j == [Idle EXCEPT
                  !.pc = "expiring", !.kind = "upload", !.source = from,
                  !.user = whose, !.season = s, !.matched = m \ gone, !.scan = Stale]
<1>1. Stale \in (SUBSET Runs) \union (SUBSET Players) /\ Stale \subseteq Runs
  BY DEF Stale
<1>2. /\ whose \in Users \union {Nobody} /\ m \ gone \in SUBSET Players
      /\ from \in {"web", "command", "dry_run"} /\ (from # "web" => whose = Nobody)
  BY DEF Instance, StatsConstants
<1>3. /\ j \in Job /\ j.pc = "expiring" /\ j.held = {} /\ j.source = from /\ j.scan = Stale
      /\ j.user = whose
  <2> HIDE DEF whose
  <2> QED BY ZenonT(60), <1>1, <1>2, NothingFits DEF Job
<1>4. job' = [job EXCEPT ![w] = j] /\ UNCHANGED <<now, runs, stats, gone>>
  BY DEF BeginUpload
<1> HIDE DEF j, whose
<1>5. Fits(runs, j)
  BY <1>1, <1>2, <1>3 DEF Fits, About, Importing, InTransaction
<1>6. j \in Job /\ j.pc = "expiring" /\ j.held = {}
  BY <1>3
<1>7. \A v \in Workers \ {w} : Apart(job[v], j) /\ Apart(j, job[v])
  BY <1>6 DEF Apart, TakeTurns, About, Importing, InTransaction
<1> QED BY <1>4, <1>5, <1>6, <1>7, JobStep

LEMMA AskKeeps ==
  ASSUME Instance, StatsInv, NEW w \in Workers, NEW u \in Users,
         NEW kind \in {"confirm", "discard"}, NEW r \in Runs, Ask(w, u, kind, r)
  PROVE  StatsInv'
<1> DEFINE j == [Idle EXCEPT !.pc = "asked", !.kind = kind, !.user = u, !.run = r]
<1>1. /\ j \in Job /\ j.pc = "asked" /\ j.held = {} /\ j.source = "web" /\ j.user = u
      /\ j.run = r
  BY NothingFits DEF Job
<1>2. job' = [job EXCEPT ![w] = j] /\ UNCHANGED <<now, runs, stats, gone>>
  BY DEF Ask
<1>3. u # Nobody
  BY DEF Instance, StatsConstants
<1> HIDE DEF j
<1>4. Fits(runs, j)
  BY <1>1, <1>3 DEF Fits, About, Importing, InTransaction
<1> QED BY <1>1, <1>2, <1>4, BeginKeeps

-----------------------------------------------------------------------------
(* An import, up to its commit *)

\* What nobody else has locked, nobody else holds.
LEMMA Unblocked ==
  ASSUME NEW w \in Workers, NEW R, RunBlockers(w, R) = {}
  PROVE  \A v \in Workers \ {w} : job[v].held \intersect R = {}
BY DEF RunBlockers

LEMMA OpenPreviewKeeps ==
  ASSUME Instance, StatsInv, NEW w \in Workers, OpenPreview(w)
  PROVE  StatsInv'
<1> DEFINE r == job[w].run
           j == [job[w] EXCEPT !.pc = "opened", !.held = {r}, !.season = runs[r].season]
<1>1. /\ job[w].pc = "asked" /\ MayUse(w) /\ UNCHANGED <<now, runs, stats, gone>>
      /\ job' = [job EXCEPT ![w].pc = "opened", ![w].held = {r}, ![w].season = runs[r].season]
      /\ \A v \in Workers \ {w} : r \notin job[v].held
  BY Unblocked DEF OpenPreview, At
<1>2. /\ job[w] \in Job /\ Fits(runs, job[w]) /\ job \in [Workers -> Job] /\ runs \in [Runs -> Upload]
  BY Standing
<1>3. r \in Runs /\ runs[r].season \in Seasons
  BY <1>1, <1>2 DEF Fits, About, Upload
<1>4. /\ j \in Job /\ j.pc = "opened" /\ j.held = {r} /\ j.run = r /\ j.season = runs[r].season
      /\ j.source = job[w].source /\ j.user = job[w].user
  BY <1>2, <1>3 DEF Job
<1>5. job' = [job EXCEPT ![w] = j]
  BY <1>1, <1>2
<1> HIDE DEF j, r
<1>6. runs[r].status = "previewed" /\ (j.source = "web" => runs[r].triggered_by # Nobody)
  BY <1>1, <1>2, <1>4 DEF MayUse, Fits, r
<1>7. Fits(runs, j)
  BY <1>1, <1>2, <1>3, <1>4, <1>6 DEF Fits, About, Importing, InTransaction, r
<1>8. \A v \in Workers \ {w} : Apart(job[v], j) /\ Apart(j, job[v])
  BY <1>1, <1>4, Standing DEF Apart, TakeTurns, About, Importing, InTransaction, r
<1> QED BY <1>1, <1>4, <1>5, <1>7, <1>8, JobStep

LEMMA FindStatsKeeps ==
  ASSUME Instance, StatsInv, NEW w \in Workers, FindStats(w)
  PROVE  StatsInv'
<1> DEFINE j == [job[w] EXCEPT !.pc = "reading", !.scan = HasRow(job[w].season),
                               !.alive = Players \ gone]
<1>1. job[w] \in Job /\ job \in [Workers -> Job]
  BY Standing
<1>2. HasRow(job[w].season) \in (SUBSET Runs) \union (SUBSET Players)
  BY DEF HasRow
<1>3. /\ j \in Job /\ j.pc = "reading" /\ j.held = job[w].held /\ j.run = job[w].run
      /\ j.season = job[w].season /\ j.source = job[w].source /\ j.user = job[w].user
  BY <1>1, <1>2 DEF Job
<1>4. /\ job' = [job EXCEPT ![w] = j] /\ job[w].pc = "opened"
      /\ UNCHANGED <<now, runs, stats, gone>>
  BY <1>1 DEF FindStats, At
<1> HIDE DEF j
<1> QED BY <1>3, <1>4, InnerStep

LEMMA LockStatsKeeps ==
  ASSUME Instance, StatsInv, NEW w \in Workers, LockStats(w)
  PROVE  StatsInv'
<1> DEFINE locked == job[w].scan \intersect HasRow(job[w].season)
           draft == [p \in locked |-> stats[job[w].season][p]]
           j == [job[w] EXCEPT !.pc = "loaded", !.existing = locked, !.draft = draft]
<1>1. job[w] \in Job /\ job \in [Workers -> Job] /\ stats \in [Seasons -> [Players -> Value]]
  BY Standing
<1>2. locked \in SUBSET Players /\ job[w].season \in Seasons
  BY <1>1 DEF HasRow, Job
<1>3. draft \in Drafts
  <2>1. draft \in [locked -> Value]
    BY <1>1, <1>2
  <2> QED BY <1>2, <2>1 DEF Drafts
<1>4. /\ job' = [job EXCEPT ![w] = j] /\ job[w].pc = "reading"
      /\ UNCHANGED <<now, runs, stats, gone>>
  BY <1>1 DEF LockStats, At
<1>5. /\ j \in Job /\ j.pc = "loaded" /\ j.held = job[w].held /\ j.run = job[w].run
      /\ j.season = job[w].season /\ j.source = job[w].source /\ j.user = job[w].user
  <2> HIDE DEF locked, draft
  <2> QED BY <1>1, <1>2, <1>3 DEF Job
<1> HIDE DEF j
<1> QED BY <1>4, <1>5, InnerStep

LEMMA OverIsADraft ==
  ASSUME NEW f \in Drafts, NEW g \in Drafts
  PROVE  Over(f, g) \in Drafts /\ DOMAIN Over(f, g) = DOMAIN f \union DOMAIN g
<1>1. /\ f \in [DOMAIN f -> Value] /\ g \in [DOMAIN g -> Value]
      /\ DOMAIN f \subseteq Players /\ DOMAIN g \subseteq Players
  BY DEF Drafts
<1>2. Over(f, g) \in [DOMAIN f \union DOMAIN g -> Value]
  BY <1>1 DEF Over
<1> QED BY <1>1, <1>2 DEF Drafts

LEMMA WriteKeeps ==
  ASSUME Instance, StatsInv, NEW w \in Workers, Write(w)
  PROVE  StatsInv'
<1> DEFINE written == runs[job[w].run].payload \intersect job[w].alive
           fresh == [p \in written |-> job[w].run]
           draft == Over(fresh, job[w].draft)
           j == [job[w] EXCEPT !.pc = "written", !.draft = draft]
<1>1. /\ job[w] \in Job /\ job \in [Workers -> Job] /\ Fits(runs, job[w])
      /\ job[w].pc = "loaded"
  BY Standing DEF Write, At
<1>2. job[w].run \in Runs /\ written \subseteq Players /\ job[w].draft \in Drafts
  BY <1>1 DEF Fits, About, Importing, InTransaction, Job
<1>3. draft \in Drafts
  <2>1. fresh \in [written -> Value]
    BY <1>2 DEF Value
  <2>2. fresh \in Drafts
    BY <1>2, <2>1 DEF Drafts
  <2> QED BY <1>2, <2>2, OverIsADraft
<1>4. job' = [job EXCEPT ![w] = j] /\ UNCHANGED <<now, runs, stats, gone>>
  BY <1>1 DEF Write
<1>5. /\ j \in Job /\ j.pc = "written" /\ j.held = job[w].held /\ j.run = job[w].run
      /\ j.season = job[w].season /\ j.source = job[w].source /\ j.user = job[w].user
  <2> HIDE DEF draft
  <2> QED BY <1>1, <1>3 DEF Job
<1> HIDE DEF j
<1> QED BY <1>1, <1>4, <1>5, InnerStep

LEMMA FindLeavingKeeps ==
  ASSUME Instance, StatsInv, NEW w \in Workers, FindLeaving(w)
  PROVE  StatsInv'
<1> DEFINE leaving == HasRow(job[w].season) \ Written(w)
           j == [job[w] EXCEPT !.pc = "deleting", !.scan = leaving]
<1>1. job[w] \in Job /\ job \in [Workers -> Job]
  BY Standing
<1>2. leaving \in (SUBSET Runs) \union (SUBSET Players)
  BY DEF HasRow
<1>3. /\ job' = [job EXCEPT ![w] = j] /\ job[w].pc = "written"
      /\ UNCHANGED <<now, runs, stats, gone>>
  BY <1>1 DEF FindLeaving, At
<1>4. /\ j \in Job /\ j.pc = "deleting" /\ j.held = job[w].held /\ j.run = job[w].run
      /\ j.season = job[w].season /\ j.source = job[w].source /\ j.user = job[w].user
  <2> HIDE DEF leaving
  <2> QED BY <1>1, <1>2 DEF Job
<1> HIDE DEF j
<1> QED BY <1>3, <1>4, InnerStep

LEMMA DeleteLeavingKeeps ==
  ASSUME Instance, StatsInv, NEW w \in Workers, DeleteLeaving(w)
  PROVE  StatsInv'
<1> DEFINE leaving == job[w].scan \intersect HasRow(job[w].season)
           fresh == [p \in leaving |-> NoRow]
           draft == Over(fresh, job[w].draft)
           counts == <<Cardinality(Written(w) \ job[w].existing),
                       Cardinality(Written(w) \intersect job[w].existing),
                       Cardinality(leaving)>>
           j == [job[w] EXCEPT !.pc = "deleted", !.draft = draft, !.counts = counts]
<1>1. job[w] \in Job /\ job \in [Workers -> Job] /\ job[w].draft \in Drafts
  BY Standing DEF Job
<1>2. leaving \subseteq Players /\ Written(w) \subseteq Players
  BY <1>1 DEF HasRow, Written, Drafts
<1>3. draft \in Drafts
  <2>1. fresh \in [leaving -> Value]
    BY DEF Value
  <2>2. fresh \in Drafts
    BY <1>2, <2>1 DEF Drafts
  <2> QED BY <1>1, <2>2, OverIsADraft
<1>4. counts \in Nat \X Nat \X Nat
  <2>1. \A P \in SUBSET Players : Cardinality(P) \in Nat
    BY FS_Subset, FS_CardinalityType DEF Instance
  <2>2. /\ Written(w) \ job[w].existing \in SUBSET Players
        /\ Written(w) \intersect job[w].existing \in SUBSET Players
        /\ leaving \in SUBSET Players
    BY <1>2
  <2> QED BY <2>1, <2>2
<1>5. /\ job' = [job EXCEPT ![w] = j] /\ job[w].pc = "deleting"
      /\ UNCHANGED <<now, runs, stats, gone>>
  BY <1>1 DEF DeleteLeaving, At
<1>6. /\ j \in Job /\ j.pc = "deleted" /\ j.held = job[w].held /\ j.run = job[w].run
      /\ j.season = job[w].season /\ j.source = job[w].source /\ j.user = job[w].user
  <2> HIDE DEF draft, counts
  <2> QED BY <1>1, <1>3, <1>4 DEF Job
<1> HIDE DEF j
<1> QED BY <1>5, <1>6, InnerStep

\* Whoever looks for the other previews sees those that are being imported:
\* they are open until their commit.
LEMMA FindOthersKeeps ==
  ASSUME Instance, StatsInv, NEW w \in Workers, FindOthers(w)
  PROVE  StatsInv'
<1> DEFINE others == {r \in Runs \ {job[w].run} : IsOpen(r) /\ runs[r].season = job[w].season}
           j == [job[w] EXCEPT !.pc = "closing", !.scan = others]
<1>1. job[w] \in Job /\ job \in [Workers -> Job] /\ Fits(runs, job[w])
  BY Standing
<1>2. others \in (SUBSET Runs) \union (SUBSET Players) /\ others \subseteq Runs
  OBVIOUS
<1>3. /\ job' = [job EXCEPT ![w] = j] /\ job[w].pc = "deleted"
      /\ UNCHANGED <<now, runs, stats, gone>>
  BY <1>1 DEF FindOthers, At
<1>4. /\ j \in Job /\ j.pc = "closing" /\ j.held = job[w].held /\ j.run = job[w].run
      /\ j.season = job[w].season /\ j.source = job[w].source /\ j.user = job[w].user
      /\ j.scan = others
  <2> HIDE DEF others
  <2> QED BY <1>1, <1>2 DEF Job
<1> HIDE DEF j
<1>5. Fits(runs, j)
  BY <1>1, <1>2, <1>3, <1>4 DEF Fits, About, Importing, InTransaction
<1>6. ASSUME NEW v \in Workers \ {w}, job[v].pc \in {"closing", "done"}, job[v].season = j.season
      PROVE  job[v].run \in j.scan
  <2>1. /\ job[v] \in Job /\ Fits(runs, job[v]) /\ Apart(job[v], job[w])
    BY Standing
  <2>2. /\ job[v].run \in job[v].held /\ runs[job[v].run].status = "previewed"
        /\ runs[job[v].run].season = job[v].season /\ job[v].run \in Runs
    BY <1>6, <2>1 DEF Fits, About, Importing, InTransaction
  <2>3. job[w].run \in job[w].held
    BY <1>1, <1>3 DEF Fits, Importing, InTransaction
  <2>4. job[v].run # job[w].run
    BY <2>1, <2>2, <2>3 DEF Apart
  <2> QED BY <1>4, <1>6, <2>2, <2>4 DEF IsOpen
<1>7. \A v \in Workers \ {w} : Apart(job[v], j) /\ Apart(j, job[v])
  BY <1>3, <1>4, <1>6, Standing DEF Apart, TakeTurns, About, Importing, InTransaction
<1> QED BY <1>3, <1>4, <1>5, <1>7, JobStep

\* The other one's preview is held until it has committed: whoever has seen it
\* waits.
LEMMA CloseOthersKeeps ==
  ASSUME Instance, StatsInv, NEW w \in Workers, CloseOthers(w)
  PROVE  StatsInv'
<1> DEFINE held == job[w].held \union {r \in job[w].scan : IsOpen(r)}
           j == [job[w] EXCEPT !.pc = "done", !.held = held]
<1>1. job[w] \in Job /\ job \in [Workers -> Job] /\ Fits(runs, job[w]) /\ job[w].pc = "closing"
  BY Standing DEF CloseOthers, At
<1>2. held \in SUBSET Runs
  BY <1>1 DEF Fits, Job
<1>3. /\ job' = [job EXCEPT ![w] = j] /\ UNCHANGED <<now, runs, stats, gone>>
      /\ \A v \in Workers \ {w} : job[v].held \intersect job[w].scan = {}
  BY <1>1, Unblocked DEF CloseOthers
<1>4. /\ j \in Job /\ j.pc = "done" /\ j.held = held /\ j.run = job[w].run
      /\ j.season = job[w].season /\ j.source = job[w].source /\ j.user = job[w].user
      /\ j.scan = job[w].scan
  <2> HIDE DEF held
  <2> QED BY <1>1, <1>2 DEF Job
<1> HIDE DEF j
<1>5. Fits(runs, j)
  BY <1>1, <1>2, <1>4 DEF Fits, About, Importing, InTransaction, IsOpen
<1>6. ASSUME NEW v \in Workers \ {w}
      PROVE  Apart(job[v], j) /\ Apart(j, job[v])
  <2>1. /\ job[v] \in Job /\ Fits(runs, job[v]) /\ Apart(job[v], job[w]) /\ Apart(job[w], job[v])
    BY Standing
  <2>2. job[v].held \intersect j.held = {}
    BY <1>3, <1>4, <2>1 DEF Apart
  <2>3. job[v].pc \in {"closing", "done"} => job[v].run \notin job[w].scan
    BY <1>3, <2>1 DEF Fits, Importing, InTransaction
  <2>4. job[v].season = job[w].season =>
          job[v].pc # "done" /\ (job[v].pc = "closing" => job[w].run \in job[v].scan)
    BY <1>1, <2>1, <2>3 DEF Apart, TakeTurns
  <2> QED BY <1>1, <1>4, <2>1, <2>2, <2>4 DEF Apart, TakeTurns, About, Importing, InTransaction
<1> QED BY <1>3, <1>4, <1>5, <1>6, JobStep

-----------------------------------------------------------------------------
(* Steps that change uploads *)

LEMMA ClosingCloses ==
  ASSUME StatsInv, NEW R \in SUBSET Runs,
         NEW status \in {"imported", "discarded", "expired", "failed"}
  PROVE  /\ Closing(R, status) \in [Runs -> Upload]
         /\ \A r \in R : /\ Closing(R, status)[r].status = status
                         /\ Closing(R, status)[r].payload = {}
                         /\ Closing(R, status)[r].season = runs[r].season
                         /\ Closing(R, status)[r].triggered_by = runs[r].triggered_by
         /\ \A r \in Runs \ R : Closing(R, status)[r] = runs[r]
<1>1. runs \in [Runs -> Upload]
  BY DEF StatsInv, Shape
<1>2. ASSUME NEW r \in Runs
      PROVE  /\ ClosedAs(r, status) \in Upload
             /\ ClosedAs(r, status).status = status /\ ClosedAs(r, status).payload = {}
             /\ ClosedAs(r, status).season = runs[r].season
             /\ ClosedAs(r, status).triggered_by = runs[r].triggered_by
  BY <1>1 DEF ClosedAs, Upload
<1>3. \A r \in Runs : Closing(R, status)[r] = IF r \in R THEN ClosedAs(r, status) ELSE runs[r]
  BY DEF Closing
<1>4. Closing(R, status) \in [Runs -> Upload]
  BY <1>1, <1>2 DEF Closing
<1> QED BY <1>2, <1>3, <1>4

\* A request that ends by closing uploads nobody else holds.
LEMMA ClosingKeeps ==
  ASSUME Instance, StatsInv, NEW w \in Workers, NEW R \in SUBSET Runs,
         NEW status \in {"imported", "discarded", "expired", "failed"},
         \A v \in Workers \ {w} : job[v].held \intersect R = {},
         \A r \in R : \/ status = "expired"
                      \/ runs[r].triggered_by # Nobody
                      \/ job[w].pc \in About /\ job[w].source # "web" /\ job[w].run = r,
         runs' = Closing(R, status), job' = [job EXCEPT ![w] = Idle],
         UNCHANGED <<now, stats, gone>>
  PROVE  StatsInv'
<1>1. runs' \in [Runs -> Upload] /\ stats' \in [Seasons -> [Players -> Value]]
  BY ClosingCloses DEF StatsInv, Shape
<1>2. ClosedAreEmpty'
  BY ClosingCloses DEF StatsInv, ClosedAreEmpty, IsOpen
<1>3. Idle \in Job /\ Fits(runs', Idle)
      /\ \A v \in Workers \ {w} : Apart(job[v], Idle) /\ Apart(Idle, job[v])
  BY NothingFits, IdleApart
<1>4. \A r \in Runs :
        \/ runs'[r] = runs[r]
        \/ /\ \A v \in Workers \ {w} : r \notin job[v].held
           /\ runs'[r].season = runs[r].season /\ runs'[r].triggered_by = runs[r].triggered_by
           /\ \/ runs'[r].status \in {"previewed", "expired"}
              \/ runs[r].triggered_by # Nobody
              \/ job[w].pc \in About /\ job[w].source # "web" /\ job[w].run = r
  <2>1. SUFFICES ASSUME NEW r \in R
        PROVE  /\ \A v \in Workers \ {w} : r \notin job[v].held
               /\ runs'[r].season = runs[r].season /\ runs'[r].triggered_by = runs[r].triggered_by
               /\ \/ runs'[r].status \in {"previewed", "expired"}
                  \/ runs[r].triggered_by # Nobody
                  \/ job[w].pc \in About /\ job[w].source # "web" /\ job[w].run = r
    BY ClosingCloses
  <2>2. \A v \in Workers \ {w} : r \notin job[v].held
    OBVIOUS
  <2>3. /\ runs'[r].season = runs[r].season /\ runs'[r].triggered_by = runs[r].triggered_by
        /\ runs'[r].status = status
    BY ClosingCloses
  <2> QED BY <2>2, <2>3
<1> QED BY <1>1, <1>2, <1>3, <1>4, RunsStep

LEMMA ExpireStaleKeeps ==
  ASSUME Instance, StatsInv, NEW w \in Workers, ExpireStale(w)
  PROVE  StatsInv'
<1> DEFINE expiring == job[w].scan \intersect Stale
           counts == Counts(job[w].season, job[w].matched)
           j == [job[w] EXCEPT !.pc = "counted", !.held = expiring, !.counts = counts]
<1>1. /\ job[w] \in Job /\ job \in [Workers -> Job] /\ Fits(runs, job[w])
      /\ job[w].pc = "expiring" /\ stats \in [Seasons -> [Players -> Value]]
  BY Standing DEF ExpireStale, At
<1>2. expiring \in SUBSET Runs
      /\ \A v \in Workers \ {w} : job[v].held \intersect expiring = {}
  BY Unblocked DEF ExpireStale, Stale
<1>3. CASE job[w].kind = "page"
  <2>1. /\ runs' = Closing(expiring, "expired") /\ job' = [job EXCEPT ![w] = Idle]
        /\ UNCHANGED <<now, stats, gone>>
    BY <1>3 DEF ExpireStale
  <2> HIDE DEF expiring
  <2> QED BY <1>2, <2>1, ClosingKeeps
<1>4. CASE job[w].kind # "page"
  <2>1. job' = [job EXCEPT ![w] = j] /\ UNCHANGED <<now, runs, stats, gone>>
    BY <1>1, <1>4 DEF ExpireStale
  <2>2. counts \in Nat \X Nat \X Nat
    <3>1. \A P \in SUBSET Players : Cardinality(P) \in Nat
      BY FS_Subset, FS_CardinalityType DEF Instance
    <3>2. /\ job[w].matched \ HasRow(job[w].season) \in SUBSET Players
          /\ job[w].matched \intersect HasRow(job[w].season) \in SUBSET Players
          /\ HasRow(job[w].season) \ job[w].matched \in SUBSET Players
      BY <1>1 DEF Job, HasRow
    <3> QED BY <3>1, <3>2 DEF Counts
  <2>3. /\ j \in Job /\ j.pc = "counted" /\ j.held = expiring /\ j.source = job[w].source
        /\ j.user = job[w].user
    <3> HIDE DEF counts, expiring
    <3> QED BY <1>1, <1>2, <2>2 DEF Job
  <2>4. \A r \in expiring : runs[r].status = "previewed"
    BY DEF Stale, IsOpen
  <2> HIDE DEF j, counts, expiring
  <2>5. Fits(runs, j)
    BY <1>1, <2>3, <2>4 DEF Fits, About, Importing, InTransaction
  <2>6. \A v \in Workers \ {w} : Apart(job[v], j) /\ Apart(j, job[v])
    BY <1>2, <2>3 DEF Apart, TakeTurns, About, Importing, InTransaction
  <2> QED BY <2>1, <2>3, <2>5, <2>6, JobStep
<1> QED BY <1>3, <1>4

\* The preview is a new row; a command goes on with it, and nobody else can.
LEMMA StorePreviewKeeps ==
  ASSUME Instance, StatsInv, NEW w \in Workers, StorePreview(w)
  PROVE  StatsInv'
<1>1. PICK r \in Runs :
        /\ runs[r].status = "absent"
        /\ runs' = [Closing(job[w].held, "expired") EXCEPT ![r] =
             [status |-> "previewed", season |-> job[w].season,
              triggered_by |-> job[w].user, created_at |-> now, payload |-> job[w].matched,
              created |-> job[w].counts[1], updated |-> job[w].counts[2],
              removed |-> job[w].counts[3]]]
        /\ job' = [job EXCEPT ![w] =
             IF job[w].source = "web" THEN Idle
             ELSE [Idle EXCEPT !.pc = "asked", !.source = job[w].source, !.run = r,
                               !.kind = IF job[w].source = "dry_run" THEN "discard" ELSE "confirm"]]
  BY DEF StorePreview
<1> DEFINE new == [status |-> "previewed", season |-> job[w].season,
                   triggered_by |-> job[w].user, created_at |-> now, payload |-> job[w].matched,
                   created |-> job[w].counts[1], updated |-> job[w].counts[2],
                   removed |-> job[w].counts[3]]
           kind == IF job[w].source = "dry_run" THEN "discard" ELSE "confirm"
           go == [Idle EXCEPT !.pc = "asked", !.source = job[w].source, !.run = r, !.kind = kind]
           j == IF job[w].source = "web" THEN Idle ELSE go
<1>2. /\ job[w] \in Job /\ Fits(runs, job[w]) /\ job[w].pc = "counted"
      /\ now \in 0..LastInstant /\ UNCHANGED <<now, stats, gone>>
      /\ stats \in [Seasons -> [Players -> Value]]
  BY Standing DEF StorePreview, At, StatsInv, Shape
<1>3. /\ new \in Upload /\ new.status = "previewed" /\ new.triggered_by = job[w].user
  BY <1>2 DEF Upload, Job
<1>4. job[w].held \in SUBSET Runs /\ r \notin job[w].held
  BY <1>1, <1>2 DEF Fits, Job
<1>5. /\ go \in Job /\ go.pc = "asked" /\ go.held = {} /\ go.run = r
      /\ go.source = job[w].source
  BY ZenonT(60), <1>2, NothingFits DEF Job
<1>6. j \in Job /\ job' = [job EXCEPT ![w] = j]
  <2>1. j \in Job
    BY <1>5, NothingFits
  <2> QED BY <1>1, <2>1
<1>7. /\ runs' \in [Runs -> Upload] /\ runs'[r] = new
      /\ \A q \in Runs \ {r} : runs'[q] = Closing(job[w].held, "expired")[q]
  <2> HIDE DEF new
  <2> QED BY <1>1, <1>3, <1>4, ClosingCloses DEF new
<1> HIDE DEF new, go
<1>8. ClosedAreEmpty'
  BY <1>3, <1>4, <1>7, ClosingCloses DEF StatsInv, ClosedAreEmpty, IsOpen
<1>9. Fits(runs', j)
  <2>1. CASE job[w].source = "web"
    BY <2>1, NothingFits, IdleApart
  <2>2. CASE job[w].source # "web"
    <3>1. j = go /\ new.triggered_by = Nobody
      BY <1>2, <1>3, <2>2 DEF Fits
    <3> HIDE DEF j
    <3> QED BY <1>3, <1>5, <1>7, <2>2, <3>1 DEF Fits, About, Importing, InTransaction
  <2> QED BY <2>1, <2>2
<1>10. \A v \in Workers \ {w} : Apart(job[v], j) /\ Apart(j, job[v])
  <2>1. CASE job[w].source = "web"
    BY <2>1, NothingFits, IdleApart
  <2>2. CASE job[w].source # "web"
    <3>1. j = go
      BY <2>2
    <3>2. \A v \in Workers \ {w} : job[v].pc \in About /\ job[v].source # "web" => job[v].run # r
      BY <1>1, Standing DEF Fits
    <3> HIDE DEF j
    <3> QED BY <1>5, <3>1, <3>2 DEF Apart, TakeTurns, About, Importing, InTransaction
  <2> QED BY <2>1, <2>2
<1>11. \A q \in Runs :
         \/ runs'[q] = runs[q]
         \/ runs[q].status = "absent"
         \/ /\ \A v \in Workers \ {w} : q \notin job[v].held
            /\ runs'[q].season = runs[q].season /\ runs'[q].triggered_by = runs[q].triggered_by
            /\ runs'[q].status \in {"previewed", "expired"}
  <2>1. \A q \in job[w].held : \A v \in Workers \ {w} : q \notin job[v].held
    BY Standing DEF Apart
  <2> QED BY <1>1, <1>4, <1>7, <2>1, ClosingCloses
<1> HIDE DEF j
<1> QED BY <1>2, <1>6, <1>7, <1>8, <1>9, <1>10, <1>11, RunsStep

LEMMA OpenTooLateKeeps ==
  ASSUME Instance, StatsInv, NEW w \in Workers, OpenTooLate(w)
  PROVE  StatsInv'
<1>1. job[w].run \in Runs
  BY Standing DEF OpenTooLate, At, Fits, About
<1>2. /\ runs' = Closing({job[w].run}, "expired") /\ job' = [job EXCEPT ![w] = Idle]
      /\ UNCHANGED <<now, stats, gone>>
      /\ \A v \in Workers \ {w} : job[v].held \intersect {job[w].run} = {}
  BY Unblocked DEF OpenTooLate
<1> DEFINE R == {job[w].run}
<1>3. R \in SUBSET Runs
  BY <1>1
<1> HIDE DEF R
<1> QED BY <1>2, <1>3, ClosingKeeps DEF R

\* Who may discard: the one whose preview it is.  A command's is nobody's.
LEMMA DiscardKeeps ==
  ASSUME Instance, StatsInv, NEW w \in Workers, Discard(w)
  PROVE  StatsInv'
<1>1. job[w].run \in Runs /\ job[w].pc = "asked"
      /\ (job[w].source = "web" => job[w].user # Nobody)
  BY Standing DEF Discard, At, Fits, About
<1>2. /\ runs' = Closing({job[w].run}, "discarded") /\ job' = [job EXCEPT ![w] = Idle]
      /\ UNCHANGED <<now, stats, gone>>
      /\ \A v \in Workers \ {w} : job[v].held \intersect {job[w].run} = {}
      /\ MayUse(w)
  BY Unblocked DEF Discard
<1> DEFINE R == {job[w].run}
<1>3. R \in SUBSET Runs
  BY <1>1
<1>4. \A r \in R : \/ runs[r].triggered_by # Nobody
                   \/ job[w].pc \in About /\ job[w].source # "web" /\ job[w].run = r
  BY <1>1, <1>2 DEF MayUse, About
<1> HIDE DEF R
<1> QED BY <1>2, <1>3, <1>4, ClosingKeeps DEF R

\* A command's failure is recorded; what a page raises takes its record with it.
LEMMA RecordFailureKeeps ==
  ASSUME Instance, StatsInv, NEW w \in Workers, RecordFailure(w)
  PROVE  StatsInv'
<1>1. job[w].run \in Runs /\ job[w].pc = "failing"
  BY Standing DEF RecordFailure, At, Fits, About
<1>2. /\ job' = [job EXCEPT ![w] = Idle] /\ UNCHANGED <<now, stats, gone>>
      /\ \A v \in Workers \ {w} : job[v].held \intersect {job[w].run} = {}
      /\ runs' = IF job[w].source = "web" THEN runs ELSE Closing({job[w].run}, "failed")
  BY Unblocked DEF RecordFailure
<1>3. CASE job[w].source = "web"
  BY <1>2, <1>3, EndKeeps
<1>4. CASE job[w].source # "web"
  <2> DEFINE R == {job[w].run}
  <2>1. R \in SUBSET Runs
    BY <1>1
  <2>2. \A r \in R : job[w].pc \in About /\ job[w].source # "web" /\ job[w].run = r
    BY <1>1, <1>4 DEF About
  <2>3. runs' = Closing(R, "failed") /\ \A v \in Workers \ {w} : job[v].held \intersect R = {}
    BY <1>2, <1>4
  <2> HIDE DEF R
  <2> QED BY <1>2, <2>1, <2>2, <2>3, ClosingKeeps
<1> QED BY <1>3, <1>4

LEMMA CommitKeeps ==
  ASSUME Instance, StatsInv, NEW w \in Workers, Commit(w)
  PROVE  StatsInv'
<1> DEFINE r == job[w].run
           new == [ClosedAs(r, "imported") EXCEPT !.created = job[w].counts[1],
                     !.updated = job[w].counts[2], !.removed = job[w].counts[3]]
<1>1. /\ job[w].pc = "done" /\ UNCHANGED <<now, gone>> /\ job' = [job EXCEPT ![w] = Idle]
      /\ runs' = [Closing(job[w].held, "expired") EXCEPT ![r] = new]
      /\ stats' = [stats EXCEPT ![job[w].season] = Over(job[w].draft, @)]
  BY DEF Commit, At
<1>2. /\ job[w] \in Job /\ Fits(runs, job[w]) /\ runs \in [Runs -> Upload]
      /\ stats \in [Seasons -> [Players -> Value]]
  BY Standing
<1>3. /\ r \in Runs /\ r \in job[w].held /\ job[w].held \in SUBSET Runs
      /\ (job[w].source = "web" => runs[r].triggered_by # Nobody)
  BY <1>1, <1>2 DEF Fits, About, Importing, Job
<1>4. /\ new \in Upload /\ new.payload = {} /\ new.season = runs[r].season
      /\ new.triggered_by = runs[r].triggered_by
  <2>1. /\ runs[r] \in Upload /\ ClosedAs(r, "imported") \in Upload
        /\ ClosedAs(r, "imported").payload = {}
        /\ ClosedAs(r, "imported").season = runs[r].season
        /\ ClosedAs(r, "imported").triggered_by = runs[r].triggered_by
    <3> HIDE DEF new
    <3>1. runs[r] \in Upload
      BY <1>2, <1>3
    <3> HIDE DEF r
    <3> QED BY <3>1 DEF ClosedAs, Upload
  <2>2. /\ job[w].counts[1] \in Nat /\ job[w].counts[2] \in Nat /\ job[w].counts[3] \in Nat
    BY <1>2 DEF Job
  <2> QED BY <2>1, <2>2 DEF Upload
<1>5. stats' \in [Seasons -> [Players -> Value]]
  <2>1. /\ job[w].draft \in [DOMAIN job[w].draft -> Value] /\ DOMAIN job[w].draft \subseteq Players
        /\ job[w].season \in Seasons
    BY <1>2 DEF Job, Drafts
  <2>2. Over(job[w].draft, stats[job[w].season]) \in [Players -> Value]
    BY <1>2, <2>1 DEF Over
  <2> QED BY <1>1, <1>2, <2>1, <2>2
<1>6. /\ runs' \in [Runs -> Upload] /\ runs'[r] = new
      /\ \A q \in Runs \ {r} : runs'[q] = Closing(job[w].held, "expired")[q]
  <2> HIDE DEF new, r
  <2> QED BY <1>1, <1>3, <1>4, ClosingCloses
<1>7. ClosedAreEmpty'
  <2> HIDE DEF new, r
  <2> QED BY <1>3, <1>4, <1>6, ClosingCloses DEF StatsInv, ClosedAreEmpty, IsOpen
<1>8. Idle \in Job /\ Fits(runs', Idle)
      /\ \A v \in Workers \ {w} : Apart(job[v], Idle) /\ Apart(Idle, job[v])
  BY NothingFits, IdleApart
<1>9. \A q \in Runs :
        \/ runs'[q] = runs[q]
        \/ /\ \A v \in Workers \ {w} : q \notin job[v].held
           /\ runs'[q].season = runs[q].season /\ runs'[q].triggered_by = runs[q].triggered_by
           /\ \/ runs'[q].status \in {"previewed", "expired"}
              \/ runs[q].triggered_by # Nobody
              \/ job[w].pc \in About /\ job[w].source # "web" /\ job[w].run = q
  <2>1. \A q \in job[w].held : \A v \in Workers \ {w} : q \notin job[v].held
    BY Standing DEF Apart
  <2>2. \/ runs[r].triggered_by # Nobody
        \/ job[w].pc \in About /\ job[w].source # "web" /\ job[w].run = r
    BY <1>1, <1>3 DEF About, Importing
  <2> HIDE DEF new, r
  <2>3. CASE job[w].source = "web"
    BY <1>3, <1>4, <1>6, <2>1, <2>2, ClosingCloses
  <2>4. CASE job[w].source # "web"
    BY <1>3, <1>4, <1>6, <2>1, <2>2, ClosingCloses DEF r
  <2> QED BY <2>3, <2>4
<1> QED BY <1>1, <1>5, <1>6, <1>7, <1>8, <1>9, RunsStep

LEMMA DeletePlayerKeeps ==
  ASSUME Instance, StatsInv, NEW p \in Players, DeletePlayer(p)
  PROVE  StatsInv'
<1>1. stats' \in [Seasons -> [Players -> Value]]
  BY DEF DeletePlayer, StatsInv, Shape, Value
<1>2. Shape' /\ ClosedAreEmpty' /\ JobsFit' /\ AllApart'
  BY <1>1 DEF DeletePlayer, StatsInv, Shape, ClosedAreEmpty, IsOpen, JobsFit, AllApart
<1> QED BY <1>2 DEF StatsInv

LEMMA NextKeeps ==
  ASSUME Instance, StatsInv, [Next]_vars
  PROVE  StatsInv'
<1>1. ASSUME NEW w \in Workers, Request(w) PROVE StatsInv'
  BY <1>1, OpenPageKeeps, BeginUploadKeeps, AskKeeps DEF Request
<1>2. ASSUME NEW w \in Workers, Step(w) PROVE StatsInv'
  <2>1. CASE Refuse(w)
    BY <2>1, EndKeeps DEF Refuse
  <2>2. CASE WriteFails(w)
    BY <2>2, RaiseKeeps DEF WriteFails, At, InTransaction
  <2> QED BY <1>2, <2>1, <2>2, ExpireStaleKeeps, StorePreviewKeeps, OpenTooLateKeeps,
             DiscardKeeps, OpenPreviewKeeps, FindStatsKeeps, LockStatsKeeps, WriteKeeps,
             FindLeavingKeeps, DeleteLeavingKeeps, FindOthersKeeps, CloseOthersKeeps,
             CommitKeeps, RecordFailureKeeps DEF Step
<1>3. ASSUME NEW w \in Workers, Raise(w) PROVE StatsInv'
  BY <1>3, RaiseKeeps DEF Raise
<1>4. ASSUME NEW w \in Workers, Crash(w) PROVE StatsInv'
  BY <1>4, EndKeeps DEF Crash
<1>5. CASE Tick
  BY <1>5 DEF Tick, StatsInv, Shape, ClosedAreEmpty, IsOpen, JobsFit, AllApart, Instance,
              StatsConstants
<1>6. CASE UNCHANGED vars
  BY <1>6 DEF vars, StatsInv, Shape, ClosedAreEmpty, IsOpen, JobsFit, AllApart
<1> QED BY <1>1, <1>2, <1>3, <1>4, <1>5, <1>6, DeletePlayerKeeps DEF Next

-----------------------------------------------------------------------------
(* What follows *)

\* Closed uploads hold no pending rows, and never are two imports of a season
\* both between closing the other previews and their commit
\* (season_stats.py:493-551), whatever fails, crashes or is killed on the way.
THEOREM ImportsOfASeasonTakeTurns == Instance => (Spec => []ImportsTakeTurns)
<1> SUFFICES ASSUME Instance PROVE Spec => []ImportsTakeTurns
  OBVIOUS
<1>1. Init => StatsInv
  BY InitInv
<1>2. StatsInv /\ [Next]_vars => StatsInv'
  BY NextKeeps
<1>3. StatsInv => ImportsTakeTurns
  BY DEF StatsInv, Shape, AllApart, Apart, TakeTurns, ClosedAreEmpty, ImportsTakeTurns, At, SameSeason
<1> QED BY <1>1, <1>2, <1>3, PTL DEF Spec

LEMMA StepMovesOn ==
  ASSUME Instance, StatsInv, [Next]_vars
  PROVE  StatusMovesOn
<1>1. CASE UNCHANGED runs
  BY <1>1 DEF StatusMovesOn
<1>2. ASSUME NEW w \in Workers, ExpireStale(w), runs' # runs
      PROVE  StatusMovesOn
  <2> DEFINE expiring == job[w].scan \intersect Stale
  <2>1. /\ expiring \in SUBSET Runs /\ runs' = Closing(expiring, "expired")
        /\ \A r \in expiring : runs[r].status = "previewed"
    BY <1>2 DEF ExpireStale, Stale, IsOpen
  <2>2. \A r \in expiring : /\ runs'[r].status = "expired" /\ runs'[r].season = runs[r].season
                            /\ runs[r].status = "previewed"
    BY <2>1, ClosingCloses
  <2>3. \A r \in Runs \ expiring : runs'[r] = runs[r]
    BY <2>1, ClosingCloses
  <2> HIDE DEF expiring
  <2> QED BY <2>2, <2>3 DEF StatusMovesOn
<1>3. ASSUME NEW w \in Workers, StorePreview(w)
      PROVE  StatusMovesOn
  <2>1. /\ job[w].held \in SUBSET Runs /\ \A r \in job[w].held : runs[r].status = "previewed"
    BY Standing DEF Fits, Job
  <2>2. PICK r \in Runs : /\ runs[r].status = "absent" /\ runs'[r].status = "previewed"
                          /\ \A q \in Runs \ {r} : runs'[q] = Closing(job[w].held, "expired")[q]
    BY <1>3, <2>1, ClosingCloses DEF StorePreview
  <2>3. \A q \in Runs \ {r} :
          \/ runs'[q] = runs[q]
          \/ /\ runs[q].status = "previewed" /\ runs'[q].status = "expired"
             /\ runs'[q].season = runs[q].season
    BY <2>1, <2>2, ClosingCloses
  <2> QED BY <2>2, <2>3 DEF StatusMovesOn
<1>4. ASSUME NEW w \in Workers, OpenTooLate(w) \/ Discard(w)
      PROVE  StatusMovesOn
  <2> DEFINE R == {job[w].run}
  <2>1. /\ R \in SUBSET Runs /\ \A r \in R : runs[r].status = "previewed"
    <3>1. job[w].pc = "asked" /\ runs[job[w].run].status = "previewed"
      BY <1>4 DEF OpenTooLate, Discard, MayUse, At
    <3>2. Fits(runs, job[w])
      BY Standing
    <3>3. job[w].run \in Runs
      BY <3>1, <3>2 DEF Fits, About
    <3> QED BY <3>1, <3>3
  <2>2. runs' = Closing(R, "expired") \/ runs' = Closing(R, "discarded")
    BY <1>4 DEF OpenTooLate, Discard
  <2> HIDE DEF R
  <2>3. \A r \in R : /\ runs'[r].status \in {"expired", "discarded"}
                     /\ runs'[r].season = runs[r].season
    BY <2>1, <2>2, ClosingCloses
  <2>4. \A r \in Runs \ R : runs'[r] = runs[r]
    BY <2>1, <2>2, ClosingCloses
  <2> QED BY <2>1, <2>3, <2>4 DEF StatusMovesOn
<1>5. ASSUME NEW w \in Workers, Commit(w)
      PROVE  StatusMovesOn
  <2> DEFINE r == job[w].run
  <2>1. /\ job[w].held \in SUBSET Runs /\ \A q \in job[w].held : runs[q].status = "previewed"
        /\ r \in job[w].held
    BY <1>5, Standing DEF Commit, At, Importing, Fits, Job
  <2>2. /\ runs'[r].status = "imported" /\ runs'[r].season = runs[r].season
        /\ \A q \in Runs \ {r} : runs'[q] = Closing(job[w].held, "expired")[q]
    BY <1>5, <2>1, ClosingCloses DEF Commit, ClosedAs, StatsInv, Shape, Upload
  <2> HIDE DEF r
  <2>3. \A q \in Runs \ {r} :
          \/ runs'[q] = runs[q]
          \/ /\ runs[q].status = "previewed" /\ runs'[q].status = "expired"
             /\ runs'[q].season = runs[q].season
    BY <2>1, <2>2, ClosingCloses
  <2> QED BY <2>1, <2>2, <2>3 DEF StatusMovesOn
<1>6. ASSUME NEW w \in Workers, RecordFailure(w), runs' # runs
      PROVE  StatusMovesOn
  <2> DEFINE R == {job[w].run}
  <2>1. /\ R \in SUBSET Runs
        /\ \A q \in R : runs[q].status = "previewed" \/ runs[q].status = "expired"
    BY <1>6, Standing DEF RecordFailure, At, Fits, About
  <2>2. runs' = Closing(R, "failed")
    BY <1>6 DEF RecordFailure
  <2> HIDE DEF R
  <2>3. \A r \in R : runs'[r].status = "failed" /\ runs'[r].season = runs[r].season
    BY <2>1, <2>2, ClosingCloses
  <2>4. \A r \in Runs \ R : runs'[r] = runs[r]
    BY <2>1, <2>2, ClosingCloses
  <2> QED BY <2>1, <2>3, <2>4 DEF StatusMovesOn
<1>7. ASSUME NEW w \in Workers, Step(w)
      PROVE  StatusMovesOn
  BY <1>1, <1>2, <1>3, <1>4, <1>5, <1>6, <1>7
     DEF Step, Refuse, OpenPreview, FindStats, LockStats, Write, WriteFails, FindLeaving,
         DeleteLeaving, FindOthers, CloseOthers
<1>8. CASE \E w \in Workers : Request(w) \/ Raise(w) \/ Crash(w)
  BY <1>1, <1>8 DEF Request, OpenPage, BeginUpload, Ask, Raise, Crash
<1>9. CASE Tick \/ UNCHANGED vars \/ \E p \in Players : DeletePlayer(p)
  BY <1>1, <1>9 DEF Tick, vars, DeletePlayer
<1> QED BY <1>7, <1>8, <1>9 DEF Next

\* An upload is used, discarded, expired or failed at most once, and keeps its
\* season: only one that has expired meanwhile may still be recorded as failed,
\* by the command that was importing it (season_stats.py:425-490).
THEOREM UploadsMoveOn == Instance => (Spec => [][StatusMovesOn]_vars)
<1> SUFFICES ASSUME Instance PROVE Spec => [][StatusMovesOn]_vars
  OBVIOUS
<1>1. Init => StatsInv
  BY InitInv
<1>2. StatsInv /\ [Next]_vars => StatsInv'
  BY NextKeeps
<1>3. StatsInv /\ [Next]_vars => [StatusMovesOn]_vars
  BY StepMovesOn
<1> QED BY <1>1, <1>2, <1>3, PTL DEF Spec

-----------------------------------------------------------------------------
(* What an import carries: the invariant the promise rests on *)

\* Where the rows of a season make its imports wait for each other: there are
\* rows from the start and none are deleted but by an import.  Or there is only
\* one request at a time, whatever becomes of players and rows.
Undisturbed == (Stored # {} /\ ~MayVanish) \/ \A v, w \in Workers : v = w

RowsOf(table, s) == {p \in Players : table[s][p] # NoRow}

\* The rows a request has written, by its own upload.
Mine(j) == {p \in DOMAIN j.draft : j.draft[p] = j.run}

\* From having the season's rows locked to the commit.
Past == {"loaded", "written", "deleting", "deleted", "closing", "done"}
Emptied == {"deleted", "closing", "done"}

\* What a request has locked and written is all there is of its season: rows it
\* found, its own, and at the end nothing of any other upload.
Carries(table, j) ==
  /\ j.pc \in {"loaded", "written", "deleting"} =>
       DOMAIN j.draft \subseteq Mine(j) \union RowsOf(table, j.season)
  /\ j.pc = "deleting" => /\ RowsOf(table, j.season) \subseteq j.scan \union Mine(j)
                          /\ j.scan \intersect Mine(j) = {}
  /\ j.pc \in Emptied => /\ RowsOf(table, j.season) \subseteq DOMAIN j.draft
                         /\ \A p \in DOMAIN j.draft : j.draft[p] \in {j.run, NoRow}

\* No import leaves its season without rows.
HasRows(uploads, j) ==
  /\ j.pc \in {"opened", "reading", "loaded"} => uploads[j.run].payload # {}
  /\ j.pc \in {"reading", "loaded"} /\ ~MayVanish => j.alive = Players
  /\ j.pc \in Past \ {"loaded"} /\ ~MayVanish => Mine(j) # {}

\* Of two imports of a season, i is in j's way until it has committed.
InLine(i, j) ==
  /\ i.pc = "closing" /\ j.pc \in Past => j.run \in i.scan
  /\ i.pc = "closing" /\ j.pc = "reading" =>
       j.run \in i.scan \/ j.scan \intersect DOMAIN i.draft # {}
  /\ i.pc = "done" => j.pc \notin Past
  /\ i.pc = "done" /\ j.pc = "reading" => j.scan \intersect DOMAIN i.draft # {}

RowsRemain ==
  ~MayVanish => gone = {} /\ (Stored # {} => \A s \in Seasons : RowsOf(stats, s) # {})

Flow ==
  /\ RowsRemain
  /\ \A w \in Workers : Carries(stats, job[w]) /\ HasRows(runs, job[w])
  /\ \A v, w \in Workers : v # w /\ job[v].season = job[w].season => InLine(job[v], job[w])

FlowInv == StatsInv /\ Flow

-----------------------------------------------------------------------------
(* The first state, and steps that leave the rows alone *)

Quiet(j) == j.pc \notin Past \union {"opened", "reading"}

LEMMA QuietFlows ==
  ASSUME NEW j, Quiet(j)
  PROVE  /\ \A table, uploads : Carries(table, j) /\ HasRows(uploads, j)
         /\ \A i : InLine(i, j) /\ InLine(j, i)
BY DEF Quiet, Carries, HasRows, InLine, Past, Emptied

LEMMA InitFlows ==
  ASSUME Instance, Init
  PROVE  Flow
<1>1. \A w \in Workers : job[w] = Idle /\ Quiet(job[w])
  BY DEF Init, Idle, Quiet, Past
<1>2. RowsRemain
  BY DEF Init, RowsRemain, RowsOf, Instance, StatsConstants
<1> QED BY <1>1, <1>2, QuietFlows DEF Flow

\* A request goes on with j; whatever uploads another one holds stay as they are.
LEMMA FlowStep ==
  ASSUME Instance, FlowInv, NEW w \in Workers, NEW j,
         job' = [job EXCEPT ![w] = j], UNCHANGED <<stats, gone>>,
         \A v \in Workers \ {w} : \A r \in job[v].held : runs'[r] = runs[r],
         Carries(stats, j), HasRows(runs', j),
         \A v \in Workers \ {w} :
           job[v].season = j.season => InLine(job[v], j) /\ InLine(j, job[v])
  PROVE  Flow'
<1>1. \A v \in Workers : job'[v] = IF v = w THEN j ELSE job[v]
  BY Standing DEF FlowInv
<1>2. ASSUME NEW v \in Workers \ {w}
      PROVE  HasRows(runs', job[v])
  <2>1. HasRows(runs, job[v]) /\ (job[v].pc \in Importing => job[v].run \in job[v].held)
    BY Standing DEF FlowInv, Flow, Fits
  <2>2. job[v].pc \in Importing => runs'[job[v].run] = runs[job[v].run]
    BY <2>1
  <2> QED BY <2>1, <2>2 DEF HasRows, Importing, InTransaction
<1>3. RowsRemain'
  BY DEF FlowInv, Flow, RowsRemain
<1>4. \A v \in Workers : Carries(stats', job'[v]) /\ HasRows(runs', job'[v])
  BY <1>1, <1>2 DEF FlowInv, Flow
<1>5. \A u, v \in Workers : u # v /\ job'[u].season = job'[v].season => InLine(job'[u], job'[v])
  BY <1>1 DEF FlowInv, Flow
<1> QED BY <1>3, <1>4, <1>5 DEF Flow

\* A request that is not importing, or not any more.
LEMMA QuietStep ==
  ASSUME Instance, FlowInv, NEW w \in Workers, NEW j, Quiet(j),
         job' = [job EXCEPT ![w] = j], UNCHANGED <<stats, gone>>,
         \A v \in Workers \ {w} : \A r \in job[v].held : runs'[r] = runs[r]
  PROVE  Flow'
BY QuietFlows, FlowStep

\* Uploads that nobody else has locked are closed, or a new one is made.
LEMMA OthersKeepTheirs ==
  ASSUME StatsInv, NEW w \in Workers, NEW R \in SUBSET Runs,
         NEW status \in {"imported", "discarded", "expired", "failed"},
         \A v \in Workers \ {w} : job[v].held \intersect R = {},
         \A q \in Runs \ R :
           runs'[q] = Closing(R, status)[q] \/ runs[q].status = "absent"
  PROVE  \A v \in Workers \ {w} : \A r \in job[v].held : runs'[r] = runs[r]
<1> SUFFICES ASSUME NEW v \in Workers \ {w}, NEW r \in job[v].held PROVE runs'[r] = runs[r]
  OBVIOUS
<1>1. r \in Runs /\ runs[r].status = "previewed" /\ r \notin R
  BY Standing DEF Fits, Job
<1> QED BY <1>1, ClosingCloses

LEMMA RaiseFlows ==
  ASSUME Instance, FlowInv, NEW w \in Workers,
         job' = [job EXCEPT ![w].pc = "failing", ![w].held = {}, ![w].draft = << >>],
         UNCHANGED <<runs, stats, gone>>
  PROVE  Flow'
<1> DEFINE j == [job[w] EXCEPT !.pc = "failing", !.held = {}, !.draft = << >>]
<1>1. job[w] \in Job /\ job \in [Workers -> Job]
  BY Standing DEF FlowInv
<1>2. j.pc = "failing" /\ job' = [job EXCEPT ![w] = j]
  BY <1>1 DEF Job
<1> HIDE DEF j
<1> QED BY <1>2, QuietStep DEF Quiet, Past

LEMMA EndFlows ==
  ASSUME Instance, FlowInv, NEW w \in Workers, job' = [job EXCEPT ![w] = Idle],
         UNCHANGED <<stats, gone>>,
         \A v \in Workers \ {w} : \A r \in job[v].held : runs'[r] = runs[r]
  PROVE  Flow'
<1>1. Quiet(Idle)
  BY NothingFits DEF Quiet, Past
<1> QED BY <1>1, QuietStep

\* A request begins: nothing is written yet.
LEMMA RequestBegins ==
  ASSUME Instance, NEW w \in Workers, Request(w)
  PROVE  /\ UNCHANGED <<runs, stats, gone>>
         /\ \E j : job' = [job EXCEPT ![w] = j] /\ j.pc \in {"expiring", "asked"}
<1>1. UNCHANGED <<runs, stats, gone>>
  BY DEF Request, OpenPage, BeginUpload, Ask
<1>2. \E j : job' = [job EXCEPT ![w] = j] /\ j.pc \in {"expiring", "asked"}
  <2>1. CASE OpenPage(w)
    <3> DEFINE j == [Idle EXCEPT !.pc = "expiring", !.scan = Stale]
    <3>1. j.pc = "expiring"
      BY NothingFits DEF Job
    <3> QED BY <2>1, <3>1 DEF OpenPage
  <2>2. ASSUME NEW u \in Users, NEW from \in Sources, NEW s \in Seasons, NEW m \in SUBSET Players,
               BeginUpload(w, u, from, s, m)
        PROVE  \E j : job' = [job EXCEPT ![w] = j] /\ j.pc \in {"expiring", "asked"}
    <3> DEFINE j == [Idle EXCEPT !.pc = "expiring", !.kind = "upload", !.source = from,
                       !.user = IF from = "web" THEN u ELSE Nobody, !.season = s,
                       !.matched = m \ gone, !.scan = Stale]
    <3>1. j.pc = "expiring"
      BY NothingFits DEF Job
    <3> QED BY <2>2, <3>1 DEF BeginUpload
  <2>3. ASSUME NEW u \in Users, NEW kind \in {"confirm", "discard"}, NEW r \in Runs,
               Ask(w, u, kind, r)
        PROVE  \E j : job' = [job EXCEPT ![w] = j] /\ j.pc \in {"expiring", "asked"}
    <3> DEFINE j == [Idle EXCEPT !.pc = "asked", !.kind = kind, !.user = u, !.run = r]
    <3>1. j.pc = "asked"
      BY NothingFits DEF Job
    <3> QED BY <2>3, <3>1 DEF Ask
  <2> QED BY <2>1, <2>2, <2>3 DEF Request
<1> QED BY <1>1, <1>2

LEMMA RequestFlows ==
  ASSUME Instance, FlowInv, NEW w \in Workers, Request(w)
  PROVE  Flow'
BY RequestBegins, QuietStep DEF Quiet, Past

\* Steps around an import: what is closed is nobody else's, and no row changes.
LEMMA AroundFlows ==
  ASSUME Instance, FlowInv, NEW w \in Workers,
         \/ ExpireStale(w) \/ Refuse(w) \/ OpenTooLate(w) \/ Discard(w) \/ RecordFailure(w)
  PROVE  Flow'
<1> USE DEF FlowInv
<1>1. CASE Refuse(w)
  BY <1>1, EndFlows DEF Refuse
<1>2. CASE ExpireStale(w)
  <2> DEFINE expiring == job[w].scan \intersect Stale
             counts == Counts(job[w].season, job[w].matched)
             j == [job[w] EXCEPT !.pc = "counted", !.held = expiring, !.counts = counts]
  <2>1. /\ expiring \in SUBSET Runs
        /\ \A v \in Workers \ {w} : job[v].held \intersect expiring = {}
    BY <1>2, Unblocked DEF ExpireStale, Stale
  <2>2. CASE job[w].kind = "page"
    <3>1. /\ runs' = Closing(expiring, "expired") /\ job' = [job EXCEPT ![w] = Idle]
          /\ UNCHANGED <<stats, gone>>
      BY <1>2, <2>2 DEF ExpireStale
    <3> HIDE DEF expiring
    <3>2. \A v \in Workers \ {w} : \A r \in job[v].held : runs'[r] = runs[r]
      BY <2>1, <3>1, OthersKeepTheirs
    <3> QED BY <3>1, <3>2, EndFlows
  <2>3. CASE job[w].kind # "page"
    <3>1. job' = [job EXCEPT ![w] = j] /\ UNCHANGED <<runs, stats, gone>>
      BY <1>2, <2>3, Standing DEF ExpireStale
    <3>2. j.pc = "counted"
      BY Standing DEF Job
    <3> HIDE DEF j
    <3> QED BY <3>1, <3>2, QuietStep DEF Quiet, Past
  <2> QED BY <2>2, <2>3
<1>3. CASE OpenTooLate(w) \/ Discard(w) \/ RecordFailure(w)
  <2> DEFINE R == {job[w].run}
  <2>1. /\ R \in SUBSET Runs /\ \A v \in Workers \ {w} : job[v].held \intersect R = {}
        /\ job' = [job EXCEPT ![w] = Idle] /\ UNCHANGED <<stats, gone>>
        /\ \/ UNCHANGED runs
           \/ \E status \in {"discarded", "expired", "failed"} : runs' = Closing(R, status)
    <3>1. job[w].run \in Runs
      BY <1>3, Standing DEF OpenTooLate, Discard, RecordFailure, At, Fits, About
    <3> QED BY <1>3, <3>1, Unblocked DEF OpenTooLate, Discard, RecordFailure
  <2> HIDE DEF R
  <2>2. \A v \in Workers \ {w} : \A r \in job[v].held : runs'[r] = runs[r]
    BY <2>1, OthersKeepTheirs
  <2> QED BY <2>1, <2>2, EndFlows
<1> QED BY <1>1, <1>2, <1>3

LEMMA StorePreviewFlows ==
  ASSUME Instance, FlowInv, NEW w \in Workers, StorePreview(w)
  PROVE  Flow'
<1>1. /\ job[w].held \in SUBSET Runs
      /\ \A v \in Workers \ {w} : job[v].held \intersect job[w].held = {}
  BY Standing DEF FlowInv, Job, Apart
<1>2. PICK r \in Runs :
        /\ runs[r].status = "absent"
        /\ \E new : runs' = [Closing(job[w].held, "expired") EXCEPT ![r] = new]
        /\ job' = [job EXCEPT ![w] =
             IF job[w].source = "web" THEN Idle
             ELSE [Idle EXCEPT !.pc = "asked", !.source = job[w].source, !.run = r,
                               !.kind = IF job[w].source = "dry_run" THEN "discard" ELSE "confirm"]]
  BY DEF StorePreview
<1>3. UNCHANGED <<stats, gone>>
  BY DEF StorePreview
<1>4. \A v \in Workers \ {w} : \A q \in job[v].held : runs'[q] = runs[q]
  <2>1. \A q \in Runs \ {r} : runs'[q] = Closing(job[w].held, "expired")[q]
    BY <1>2 DEF Closing
  <2> QED BY <1>1, <1>2, <2>1, OthersKeepTheirs DEF FlowInv
<1>5. CASE job[w].source = "web"
  BY <1>2, <1>3, <1>4, <1>5, EndFlows
<1>6. CASE job[w].source # "web"
  <2> DEFINE kind == IF job[w].source = "dry_run" THEN "discard" ELSE "confirm"
             j == [Idle EXCEPT !.pc = "asked", !.source = job[w].source, !.run = r, !.kind = kind]
  <2>1. j.pc = "asked"
    BY NothingFits DEF Job
  <2>2. job' = [job EXCEPT ![w] = j]
    BY <1>2, <1>6
  <2> HIDE DEF j
  <2> QED BY <1>3, <1>4, <2>1, <2>2, QuietStep DEF Quiet, Past
<1> QED BY <1>5, <1>6

-----------------------------------------------------------------------------
(* An import finds, writes and deletes the rows of its season *)

LEMMA OpenPreviewFlows ==
  ASSUME Instance, FlowInv, NEW w \in Workers, OpenPreview(w)
  PROVE  Flow'
<1> DEFINE j == [job[w] EXCEPT !.pc = "opened", !.held = {job[w].run},
                               !.season = runs[job[w].run].season]
<1>1. /\ job' = [job EXCEPT ![w] = j] /\ UNCHANGED <<runs, stats, gone>>
      /\ runs[job[w].run].payload # {}
  BY Standing DEF OpenPreview, FlowInv
<1>2. j.pc = "opened" /\ j.run = job[w].run
  BY Standing DEF FlowInv, Job
<1> HIDE DEF j
<1>3. Carries(stats, j) /\ HasRows(runs', j) /\ \A i : InLine(i, j) /\ InLine(j, i)
  BY <1>1, <1>2 DEF Carries, HasRows, InLine, Past, Emptied
<1> QED BY <1>1, <1>3, FlowStep

\* Whoever is closing or done has all the rows of the season locked: there are
\* some, and w has to wait for them.
LEMMA FindStatsFlows ==
  ASSUME Instance, Undisturbed, FlowInv, NEW w \in Workers, FindStats(w)
  PROVE  Flow'
<1> DEFINE j == [job[w] EXCEPT !.pc = "reading", !.scan = HasRow(job[w].season),
                               !.alive = Players \ gone]
<1>1. /\ job' = [job EXCEPT ![w] = j] /\ UNCHANGED <<runs, stats, gone>> /\ job[w].pc = "opened"
      /\ job[w] \in Job
  BY Standing DEF FindStats, FlowInv, At
<1>2. /\ j.pc = "reading" /\ j.run = job[w].run /\ j.season = job[w].season
      /\ j.scan = RowsOf(stats, j.season) /\ j.alive = Players \ gone
  BY <1>1 DEF Job, HasRow, RowsOf
<1> HIDE DEF j
<1>3. Carries(stats, j) /\ HasRows(runs', j)
  BY <1>1, <1>2 DEF Carries, HasRows, Past, Emptied, FlowInv, Flow, RowsRemain
<1>4. ASSUME NEW v \in Workers \ {w}, job[v].season = j.season
      PROVE  InLine(job[v], j) /\ InLine(j, job[v])
  <2>1. RowsOf(stats, j.season) # {}
    BY <1>1, <1>2 DEF Undisturbed, FlowInv, Flow, RowsRemain, Job
  <2>2. job[v].pc \in {"closing", "done"} => RowsOf(stats, j.season) \subseteq DOMAIN job[v].draft
    BY <1>4 DEF FlowInv, Flow, Carries, Emptied
  <2> QED BY <1>2, <2>1, <2>2 DEF InLine, Past
<1> QED BY <1>1, <1>3, <1>4, FlowStep

LEMMA LockStatsFlows ==
  ASSUME Instance, FlowInv, NEW w \in Workers, LockStats(w)
  PROVE  Flow'
<1> DEFINE locked == job[w].scan \intersect HasRow(job[w].season)
           draft == [p \in locked |-> stats[job[w].season][p]]
           j == [job[w] EXCEPT !.pc = "loaded", !.existing = locked, !.draft = draft]
<1>1. /\ job' = [job EXCEPT ![w] = j] /\ UNCHANGED <<runs, stats, gone>> /\ job[w].pc = "reading"
      /\ job[w] \in Job /\ RowBlockers(w, job[w].scan) = {}
  BY Standing DEF LockStats, FlowInv, At
<1>2. /\ j.pc = "loaded" /\ j.run = job[w].run /\ j.season = job[w].season
      /\ DOMAIN j.draft \subseteq RowsOf(stats, j.season) /\ j.alive = job[w].alive
  BY <1>1 DEF Job, HasRow, RowsOf
<1> HIDE DEF j
<1>3. Carries(stats, j) /\ HasRows(runs', j)
  BY <1>1, <1>2 DEF Carries, HasRows, Past, Emptied, FlowInv, Flow
<1>4. ASSUME NEW v \in Workers \ {w}, job[v].season = j.season
      PROVE  InLine(job[v], j) /\ InLine(j, job[v])
  <2>1. InLine(job[v], job[w]) /\ job[w].scan \intersect DOMAIN job[v].draft = {}
    BY <1>1, <1>2, <1>4 DEF FlowInv, Flow, RowBlockers, SameSeason
  <2> QED BY <1>1, <1>2, <2>1 DEF InLine, Past
<1> QED BY <1>1, <1>3, <1>4, FlowStep

\* An import goes on between having its rows locked and closing the others.
LEMMA PastStep ==
  ASSUME Instance, FlowInv, NEW w \in Workers, NEW j, job' = [job EXCEPT ![w] = j],
         UNCHANGED <<runs, stats, gone>>, job[w].pc \in Past,
         j.pc \in {"written", "deleting", "deleted"},
         j.run = job[w].run, j.season = job[w].season,
         Carries(stats, j), HasRows(runs, j)
  PROVE  Flow'
<1>1. ASSUME NEW v \in Workers \ {w}, job[v].season = j.season
      PROVE  InLine(job[v], j) /\ InLine(j, job[v])
  <2>1. InLine(job[v], job[w])
    BY <1>1 DEF FlowInv, Flow
  <2> QED BY <2>1 DEF InLine, Past
<1> QED BY <1>1, FlowStep

LEMMA WriteFlows ==
  ASSUME Instance, FlowInv, NEW w \in Workers, Write(w)
  PROVE  Flow'
<1> DEFINE written == runs[job[w].run].payload \intersect job[w].alive
           fresh == [p \in written |-> job[w].run]
           draft == Over(fresh, job[w].draft)
           j == [job[w] EXCEPT !.pc = "written", !.draft = draft]
<1>1. /\ job[w] \in Job /\ job' = [job EXCEPT ![w] = j] /\ UNCHANGED <<runs, stats, gone>>
      /\ job[w].pc = "loaded"
  BY Standing DEF Write, FlowInv, At
<1>2. /\ DOMAIN draft = written \union DOMAIN job[w].draft
      /\ \A p \in DOMAIN draft :
           draft[p] = IF p \in written THEN job[w].run ELSE job[w].draft[p]
  BY DEF Over
<1>3. /\ j.pc = "written" /\ j.run = job[w].run /\ j.season = job[w].season /\ j.draft = draft
  <2> HIDE DEF draft
  <2> QED BY <1>1 DEF Job
<1>4. ~MayVanish => written # {}
  <2>1. job[w].run \in Runs
    BY <1>1, Standing DEF FlowInv, Fits, About, Importing, InTransaction
  <2>2. runs[job[w].run].payload \subseteq Players
    BY <2>1, Standing DEF FlowInv, Upload
  <2> QED BY <1>1, <2>2 DEF FlowInv, Flow, HasRows
<1> HIDE DEF j, draft, written
<1>5. Mine(job[w]) \union written \subseteq Mine(j)
  BY <1>2, <1>3 DEF Mine
<1>6. DOMAIN job[w].draft \subseteq Mine(job[w]) \union RowsOf(stats, j.season)
  BY <1>1, <1>3 DEF FlowInv, Flow, Carries
<1>7. Carries(stats, j) /\ HasRows(runs, j)
  BY <1>2, <1>3, <1>4, <1>5, <1>6 DEF Carries, HasRows, Emptied
<1> QED BY <1>1, <1>3, <1>7, PastStep DEF Past

LEMMA FindLeavingFlows ==
  ASSUME Instance, FlowInv, NEW w \in Workers, FindLeaving(w)
  PROVE  Flow'
<1> DEFINE leaving == HasRow(job[w].season) \ Written(w)
           j == [job[w] EXCEPT !.pc = "deleting", !.scan = leaving]
<1>1. /\ job[w] \in Job /\ job' = [job EXCEPT ![w] = j] /\ UNCHANGED <<runs, stats, gone>>
      /\ job[w].pc = "written"
  BY Standing DEF FindLeaving, FlowInv, At
<1>2. leaving = RowsOf(stats, job[w].season) \ Mine(job[w])
  BY DEF HasRow, RowsOf, Written, Mine
<1>3. /\ j.pc = "deleting" /\ j.run = job[w].run /\ j.season = job[w].season
      /\ j.draft = job[w].draft /\ j.scan = leaving
  <2> HIDE DEF leaving
  <2> QED BY <1>1 DEF Job
<1> HIDE DEF j, leaving
<1>4. Mine(j) = Mine(job[w])
  BY <1>3 DEF Mine
<1>5. Carries(stats, j) /\ HasRows(runs, j)
  BY <1>1, <1>2, <1>3, <1>4 DEF FlowInv, Flow, Carries, HasRows, Past, Emptied
<1> QED BY <1>1, <1>3, <1>5, PastStep DEF Past

\* Every row of the season is the import's own by now, or is deleted.
LEMMA DeleteLeavingFlows ==
  ASSUME Instance, FlowInv, NEW w \in Workers, DeleteLeaving(w)
  PROVE  Flow'
<1> DEFINE leaving == job[w].scan \intersect HasRow(job[w].season)
           fresh == [p \in leaving |-> NoRow]
           draft == Over(fresh, job[w].draft)
           counts == <<Cardinality(Written(w) \ job[w].existing),
                       Cardinality(Written(w) \intersect job[w].existing),
                       Cardinality(leaving)>>
           j == [job[w] EXCEPT !.pc = "deleted", !.draft = draft, !.counts = counts]
<1>1. /\ job[w] \in Job /\ job' = [job EXCEPT ![w] = j] /\ UNCHANGED <<runs, stats, gone>>
      /\ job[w].pc = "deleting"
  BY Standing DEF DeleteLeaving, FlowInv, At
<1>2. /\ DOMAIN draft = leaving \union DOMAIN job[w].draft
      /\ \A p \in DOMAIN draft : draft[p] = IF p \in leaving THEN NoRow ELSE job[w].draft[p]
  BY DEF Over
<1>3. /\ j.pc = "deleted" /\ j.run = job[w].run /\ j.season = job[w].season /\ j.draft = draft
  <2> HIDE DEF draft, counts
  <2> QED BY <1>1 DEF Job
<1>4. leaving = job[w].scan \intersect RowsOf(stats, job[w].season)
  BY DEF HasRow, RowsOf
<1>5. /\ DOMAIN job[w].draft \subseteq Mine(job[w]) \union RowsOf(stats, job[w].season)
      /\ RowsOf(stats, job[w].season) \subseteq job[w].scan \union Mine(job[w])
      /\ job[w].scan \intersect Mine(job[w]) = {}
      /\ (~MayVanish => Mine(job[w]) # {})
  BY <1>1 DEF FlowInv, Flow, Carries, HasRows, Past
<1> HIDE DEF j, draft, leaving
<1>6. Mine(job[w]) \subseteq DOMAIN job[w].draft
      /\ \A p \in Mine(job[w]) : job[w].draft[p] = job[w].run
  BY DEF Mine
<1>7. RowsOf(stats, j.season) \subseteq DOMAIN j.draft
  BY <1>2, <1>3, <1>4, <1>5, <1>6
<1>8. \A p \in DOMAIN j.draft : j.draft[p] \in {j.run, NoRow}
  BY <1>2, <1>3, <1>4, <1>5, <1>6
<1>9. Mine(job[w]) \subseteq Mine(j)
  <2>1. \A p \in Mine(job[w]) : p \in DOMAIN j.draft /\ j.draft[p] = j.run
    BY <1>2, <1>3, <1>4, <1>5, <1>6
  <2> QED BY <2>1 DEF Mine
<1>10. Carries(stats, j) /\ HasRows(runs, j)
  BY <1>3, <1>5, <1>7, <1>8, <1>9 DEF Carries, HasRows, Emptied
<1> QED BY <1>1, <1>3, <1>10, PastStep DEF Past

-----------------------------------------------------------------------------
(* An import closes the other previews and commits *)

\* Whoever is past finding the season's rows holds an open preview of it, and is
\* seen.
LEMMA FindOthersFlows ==
  ASSUME Instance, FlowInv, NEW w \in Workers, FindOthers(w)
  PROVE  Flow'
<1> DEFINE others == {r \in Runs \ {job[w].run} : IsOpen(r) /\ runs[r].season = job[w].season}
           j == [job[w] EXCEPT !.pc = "closing", !.scan = others]
<1>1. /\ job[w] \in Job /\ Fits(runs, job[w]) /\ job' = [job EXCEPT ![w] = j]
      /\ UNCHANGED <<runs, stats, gone>> /\ job[w].pc = "deleted"
  BY Standing DEF FindOthers, FlowInv, At
<1>2. /\ j.pc = "closing" /\ j.run = job[w].run /\ j.season = job[w].season
      /\ j.draft = job[w].draft /\ j.scan = others
  <2> HIDE DEF others
  <2> QED BY <1>1 DEF Job
<1> HIDE DEF j
<1>3. Mine(j) = Mine(job[w])
  BY <1>2 DEF Mine
<1>4. Carries(stats, j) /\ HasRows(runs, j)
  BY <1>1, <1>2, <1>3 DEF FlowInv, Flow, Carries, HasRows, Past, Emptied
<1>5. ASSUME NEW v \in Workers \ {w}, job[v].season = j.season
      PROVE  InLine(job[v], j) /\ InLine(j, job[v])
  <2>1. Fits(runs, job[v]) /\ Apart(job[v], job[w]) /\ InLine(job[v], job[w])
    BY <1>2, <1>5, Standing DEF FlowInv, Flow
  <2>2. job[w].run \in job[w].held
    BY <1>1 DEF Fits, Importing, InTransaction
  <2>3. job[v].pc \in Past \union {"reading"} => job[v].run \in others
    <3> SUFFICES ASSUME job[v].pc \in Past \union {"reading"} PROVE job[v].run \in others
      OBVIOUS
    <3>1. /\ job[v].run \in job[v].held /\ runs[job[v].run].season = job[v].season
          /\ job[v].run \in Runs /\ runs[job[v].run].status = "previewed"
      BY <2>1 DEF Fits, About, Importing, InTransaction, Past
    <3>2. job[v].run # job[w].run
      BY <2>1, <2>2, <3>1 DEF Apart
    <3> QED BY <1>2, <1>5, <3>1, <3>2 DEF IsOpen
  <2> HIDE DEF others
  <2> QED BY <1>1, <1>2, <2>1, <2>3 DEF InLine, Past
<1> QED BY <1>1, <1>4, <1>5, FlowStep

LEMMA CloseOthersFlows ==
  ASSUME Instance, FlowInv, NEW w \in Workers, CloseOthers(w)
  PROVE  Flow'
<1> DEFINE held == job[w].held \union {r \in job[w].scan : IsOpen(r)}
           j == [job[w] EXCEPT !.pc = "done", !.held = held]
<1>1. /\ job[w] \in Job /\ job' = [job EXCEPT ![w] = j] /\ UNCHANGED <<runs, stats, gone>>
      /\ job[w].pc = "closing"
      /\ \A v \in Workers \ {w} : job[v].held \intersect job[w].scan = {}
  BY Standing, Unblocked DEF CloseOthers, FlowInv, At
<1>2. /\ j.pc = "done" /\ j.run = job[w].run /\ j.season = job[w].season
      /\ j.draft = job[w].draft /\ j.scan = job[w].scan
  <2> HIDE DEF held
  <2> QED BY <1>1 DEF Job
<1> HIDE DEF j
<1>3. Mine(j) = Mine(job[w])
  BY <1>2 DEF Mine
<1>4. Carries(stats, j) /\ HasRows(runs, j)
  BY <1>1, <1>2, <1>3 DEF FlowInv, Flow, Carries, HasRows, Past, Emptied
<1>5. ASSUME NEW v \in Workers \ {w}, job[v].season = j.season
      PROVE  InLine(job[v], j) /\ InLine(j, job[v])
  <2>1. Fits(runs, job[v]) /\ InLine(job[v], job[w]) /\ InLine(job[w], job[v])
    BY <1>2, <1>5, Standing DEF FlowInv, Flow
  <2>2. job[v].pc \in Past \union {"reading"} => job[v].run \notin job[w].scan
    BY <1>1, <2>1 DEF Fits, Importing, InTransaction, Past
  <2> QED BY <1>1, <1>2, <2>1, <2>2 DEF InLine, Past
<1> QED BY <1>1, <1>4, <1>5, FlowStep

\* Nobody else of the season has its rows locked when an import commits.
LEMMA CommitFlows ==
  ASSUME Instance, FlowInv, NEW w \in Workers, Commit(w)
  PROVE  Flow'
<1> DEFINE s == job[w].season
           draft == job[w].draft
<1>1. /\ job[w] \in Job /\ job[w].pc = "done" /\ job' = [job EXCEPT ![w] = Idle]
      /\ stats' = [stats EXCEPT ![s] = Over(draft, stats[s])] /\ UNCHANGED gone
      /\ stats \in [Seasons -> [Players -> Value]]
      /\ s \in Seasons /\ draft \in Drafts /\ job[w].held \in SUBSET Runs
      /\ job[w].run \in Runs /\ job[w].run \in job[w].held
  BY Standing DEF Commit, FlowInv, At, Job, Fits, About, Importing
<1>2. \A v \in Workers : job'[v] = IF v = w THEN Idle ELSE job[v]
  BY <1>1, Standing DEF FlowInv
<1>3. Quiet(Idle)
  BY NothingFits DEF Quiet, Past
<1> HIDE DEF s, draft
<1>4. \A t \in Seasons \ {s} : RowsOf(stats', t) = RowsOf(stats, t)
  BY <1>1 DEF RowsOf
<1>5. ASSUME NEW v \in Workers \ {w}
      PROVE  Carries(stats', job[v]) /\ HasRows(runs', job[v])
  <2>1. Carries(stats, job[v]) /\ HasRows(runs, job[v]) /\ job[v] \in Job
    BY Standing DEF FlowInv, Flow
  <2>2. Carries(stats', job[v])
    <3>1. CASE job[v].season = s
      <4>1. job[v].pc \notin Past
        BY <1>1, <3>1 DEF FlowInv, Flow, InLine, s
      <4> QED BY <4>1 DEF Carries, Past, Emptied
    <3>2. CASE job[v].season # s
      <4>1. RowsOf(stats', job[v].season) = RowsOf(stats, job[v].season)
        BY <1>4, <2>1, <3>2 DEF Job
      <4> QED BY <2>1, <4>1 DEF Carries
    <3> QED BY <3>1, <3>2
  <2>3. \A r \in job[v].held : runs'[r] = runs[r]
    <3>1. \A q \in Runs \ {job[w].run} : runs'[q] = Closing(job[w].held, "expired")[q]
      BY DEF Commit, Closing
    <3>2. ASSUME NEW r \in job[v].held PROVE runs'[r] = runs[r]
      <4>1. r \in Runs /\ r \notin job[w].held /\ r # job[w].run
        BY <1>1, Standing DEF FlowInv, Apart, Job
      <4> QED BY <1>1, <3>1, <4>1, ClosingCloses DEF FlowInv
    <3> QED BY <3>2
  <2>4. job[v].pc \in Importing => job[v].run \in job[v].held
    BY Standing DEF FlowInv, Fits
  <2> QED BY <2>1, <2>2, <2>3, <2>4 DEF HasRows, Importing, InTransaction
<1>6. RowsRemain'
  <2> SUFFICES ASSUME ~MayVanish, Stored # {}, NEW t \in Seasons PROVE RowsOf(stats', t) # {}
    BY <1>1 DEF FlowInv, Flow, RowsRemain
  <2>1. RowsOf(stats, t) # {}
    BY DEF FlowInv, Flow, RowsRemain
  <2>2. CASE t = s
    <3>1. PICK p \in Mine(job[w]) : TRUE
      BY <1>1 DEF FlowInv, Flow, HasRows, Past
    <3>2. p \in DOMAIN draft /\ draft[p] = job[w].run /\ p \in Players
      BY <1>1, <3>1 DEF Mine, Drafts, draft
    <3>3. stats'[s][p] = job[w].run
      BY <1>1, <3>2 DEF Over
    <3> QED BY <1>1, <2>2, <3>2, <3>3 DEF RowsOf, Instance, StatsConstants
  <2> QED BY <1>4, <2>1, <2>2
<1>7. \A v \in Workers : Carries(stats', job'[v]) /\ HasRows(runs', job'[v])
  BY <1>2, <1>3, <1>5, QuietFlows
<1>8. \A u, v \in Workers : u # v /\ job'[u].season = job'[v].season => InLine(job'[u], job'[v])
  BY <1>2, <1>3, QuietFlows DEF FlowInv, Flow
<1> QED BY <1>6, <1>7, <1>8 DEF Flow

\* Nobody has the deleted rows locked, and there is nobody else.
LEMMA DeletePlayerFlows ==
  ASSUME Instance, Undisturbed, FlowInv, NEW p \in Players, DeletePlayer(p)
  PROVE  Flow'
<1>1. /\ MayVanish /\ UNCHANGED <<runs, job>> /\ \A w \in Workers : p \notin DOMAIN job[w].draft
      /\ stats' = [s \in Seasons |-> [stats[s] EXCEPT ![p] = NoRow]]
      /\ stats \in [Seasons -> [Players -> Value]]
  BY DEF DeletePlayer, FlowInv, StatsInv, Shape
<1>2. \A s \in Seasons : RowsOf(stats', s) = RowsOf(stats, s) \ {p}
  BY <1>1 DEF RowsOf
<1>3. ASSUME NEW w \in Workers
      PROVE  Carries(stats', job[w])
  <2>1. /\ Carries(stats, job[w]) /\ RowsOf(stats', job[w].season) = RowsOf(stats, job[w].season) \ {p}
        /\ p \notin DOMAIN job[w].draft
    BY <1>1, <1>2, Standing DEF FlowInv, Flow, Job
  <2> QED BY <2>1 DEF Carries
<1>4. RowsRemain'
  BY <1>1 DEF RowsRemain
<1> QED BY <1>1, <1>3, <1>4 DEF FlowInv, Flow

LEMMA NextFlows ==
  ASSUME Instance, Undisturbed, FlowInv, [Next]_vars
  PROVE  FlowInv'
<1>1. SUFFICES Flow'
  BY NextKeeps DEF FlowInv
<1>2. ASSUME NEW w \in Workers, Step(w) PROVE Flow'
  <2>1. CASE WriteFails(w)
    BY <2>1, RaiseFlows DEF WriteFails
  <2> QED BY <1>2, <2>1, AroundFlows, StorePreviewFlows, OpenPreviewFlows, FindStatsFlows,
             LockStatsFlows, WriteFlows, FindLeavingFlows, DeleteLeavingFlows, FindOthersFlows,
             CloseOthersFlows, CommitFlows DEF Step
<1>3. ASSUME NEW w \in Workers, Raise(w) \/ Crash(w) PROVE Flow'
  <2>1. CASE Raise(w)
    BY <2>1, RaiseFlows DEF Raise
  <2>2. CASE Crash(w)
    BY <2>2, EndFlows DEF Crash
  <2> QED BY <1>3, <2>1, <2>2
<1>4. CASE Tick \/ UNCHANGED vars
  BY <1>4 DEF Tick, vars, FlowInv, Flow, RowsRemain
<1> QED BY <1>2, <1>3, <1>4, RequestFlows, DeletePlayerFlows DEF Next

-----------------------------------------------------------------------------
(* An import holds previews of its own season only *)

OfOneSeason(uploads, j) ==
  /\ j.pc \in Importing => \A r \in j.held : uploads[r].season = j.season
  /\ j.pc = "closing" => \A r \in j.scan : uploads[r].status # "absent" /\ uploads[r].season = j.season

SeasonsHeld == \A w \in Workers : OfOneSeason(runs, job[w])

LEMMA InitSeasons ==
  ASSUME Init
  PROVE  SeasonsHeld
BY DEF Init, Idle, SeasonsHeld, OfOneSeason, Importing, InTransaction

\* An upload that is there keeps its season.
LEMMA SeasonsStep ==
  ASSUME StatsInv, SeasonsHeld, StatusMovesOn, NEW w \in Workers,
         \A v \in Workers \ {w} : job'[v] = job[v], OfOneSeason(runs', job'[w])
  PROVE  SeasonsHeld'
<1>1. ASSUME NEW v \in Workers \ {w}
      PROVE  OfOneSeason(runs', job[v])
  <2>1. Fits(runs, job[v]) /\ job[v] \in Job /\ OfOneSeason(runs, job[v])
    BY Standing DEF SeasonsHeld
  <2>2. \A r \in Runs : runs[r].status # "absent" =>
          runs'[r].status # "absent" /\ runs'[r].season = runs[r].season
    BY DEF StatusMovesOn
  <2>3. job[v].held \subseteq Runs /\ \A r \in job[v].held : runs[r].status = "previewed"
    BY <2>1 DEF Fits, Job
  <2>4. job[v].pc = "closing" => job[v].scan \subseteq Runs
    BY <2>1 DEF Fits
  <2> QED BY <2>1, <2>2, <2>3, <2>4 DEF OfOneSeason
<1> QED BY <1>1 DEF SeasonsHeld

LEMMA NextSeasons ==
  ASSUME Instance, StatsInv, SeasonsHeld, [Next]_vars
  PROVE  SeasonsHeld'
<1>1. StatusMovesOn
  BY StepMovesOn
<1>2. ASSUME NEW w \in Workers, \A v \in Workers \ {w} : job'[v] = job[v],
             job'[w].pc \notin Importing
      PROVE  SeasonsHeld'
  BY <1>1, <1>2, SeasonsStep DEF OfOneSeason, Importing, InTransaction
<1>3. ASSUME NEW w \in Workers, job' = [job EXCEPT ![w] = Idle]
      PROVE  SeasonsHeld'
  BY <1>2, <1>3, NothingFits, Standing DEF Importing, InTransaction
<1>4. ASSUME NEW w \in Workers, Request(w)
      PROVE  SeasonsHeld'
  <2>1. /\ \A v \in Workers \ {w} : job'[v] = job[v]
        /\ job'[w].pc \in {"expiring", "asked"}
    BY <1>4, Standing, RequestBegins
  <2> QED BY <1>2, <2>1 DEF Importing, InTransaction
<1>5. ASSUME NEW w \in Workers, Raise(w) \/ WriteFails(w)
      PROVE  SeasonsHeld'
  <2>1. (\A v \in Workers \ {w} : job'[v] = job[v]) /\ job'[w].pc = "failing"
    BY <1>5, Standing DEF Raise, WriteFails, Job
  <2> QED BY <1>2, <2>1 DEF Importing, InTransaction
<1>6. ASSUME NEW w \in Workers, ExpireStale(w)
      PROVE  SeasonsHeld'
  <2>1. CASE job[w].kind = "page"
    BY <1>3, <1>6, <2>1 DEF ExpireStale
  <2>2. CASE job[w].kind # "page"
    <3>1. (\A v \in Workers \ {w} : job'[v] = job[v]) /\ job'[w].pc = "counted"
      BY <1>6, <2>2, Standing DEF ExpireStale, Job
    <3> QED BY <1>2, <3>1 DEF Importing, InTransaction
  <2> QED BY <2>1, <2>2
<1>7. ASSUME NEW w \in Workers, StorePreview(w)
      PROVE  SeasonsHeld'
  <2>1. (\A v \in Workers \ {w} : job'[v] = job[v]) /\ job'[w].pc \in {"idle", "asked"}
    BY <1>7, Standing, NothingFits DEF StorePreview, Job
  <2> QED BY <1>2, <2>1 DEF Importing, InTransaction
<1>8. ASSUME NEW w \in Workers, OpenPreview(w)
      PROVE  SeasonsHeld'
  <2>1. /\ \A v \in Workers \ {w} : job'[v] = job[v]
        /\ job'[w].pc = "opened" /\ job'[w].held = {job[w].run}
        /\ job'[w].season = runs[job[w].run].season /\ runs' = runs
    BY <1>8, Standing DEF OpenPreview, Job
  <2>2. OfOneSeason(runs', job'[w])
    BY <2>1 DEF OfOneSeason
  <2> QED BY <1>1, <2>1, <2>2, SeasonsStep
<1>9. ASSUME NEW w \in Workers,
             \/ FindStats(w) \/ LockStats(w) \/ Write(w) \/ FindLeaving(w) \/ DeleteLeaving(w)
      PROVE  SeasonsHeld'
  <2>1. /\ \A v \in Workers \ {w} : job'[v] = job[v]
        /\ job'[w].pc \in {"reading", "loaded", "written", "deleting", "deleted"}
        /\ job'[w].held = job[w].held /\ job'[w].season = job[w].season /\ runs' = runs
    <3>1. CASE FindStats(w)
      BY <3>1, Standing DEF FindStats, Job
    <3>2. CASE LockStats(w)
      BY <3>2, Standing DEF LockStats, Job
    <3>3. CASE Write(w)
      BY <3>3, Standing DEF Write, Job
    <3>4. CASE FindLeaving(w)
      BY <3>4, Standing DEF FindLeaving, Job
    <3>5. CASE DeleteLeaving(w)
      BY <3>5, Standing DEF DeleteLeaving, Job
    <3> QED BY <1>9, <3>1, <3>2, <3>3, <3>4, <3>5
  <2>2. job[w].pc \in Importing
    BY <1>9 DEF FindStats, LockStats, Write, FindLeaving, DeleteLeaving, At, Importing,
                InTransaction
  <2>3. OfOneSeason(runs', job'[w])
    BY <2>1, <2>2 DEF SeasonsHeld, OfOneSeason
  <2> QED BY <1>1, <2>1, <2>3, SeasonsStep
<1>10. ASSUME NEW w \in Workers, FindOthers(w)
       PROVE  SeasonsHeld'
  <2>1. /\ \A v \in Workers \ {w} : job'[v] = job[v]
        /\ job'[w].pc = "closing" /\ job[w].pc = "deleted" /\ runs' = runs
        /\ job'[w].held = job[w].held /\ job'[w].season = job[w].season
        /\ job'[w].scan = {r \in Runs \ {job[w].run} : IsOpen(r) /\ runs[r].season = job[w].season}
    BY <1>10, Standing DEF FindOthers, At, Job
  <2>2. OfOneSeason(runs', job'[w])
    BY <2>1 DEF SeasonsHeld, OfOneSeason, Importing, InTransaction, IsOpen
  <2> QED BY <1>1, <2>1, <2>2, SeasonsStep
<1>11. ASSUME NEW w \in Workers, CloseOthers(w)
       PROVE  SeasonsHeld'
  <2>1. /\ \A v \in Workers \ {w} : job'[v] = job[v]
        /\ job'[w].pc = "done" /\ job[w].pc = "closing" /\ runs' = runs
        /\ job'[w].held = job[w].held \union {r \in job[w].scan : IsOpen(r)}
        /\ job'[w].season = job[w].season
    BY <1>11, Standing DEF CloseOthers, At, Job
  <2>2. OfOneSeason(runs', job'[w])
    BY <2>1 DEF SeasonsHeld, OfOneSeason, Importing, InTransaction
  <2> QED BY <1>1, <2>1, <2>2, SeasonsStep
<1>12. ASSUME NEW w \in Workers, Step(w)
       PROVE  SeasonsHeld'
  BY <1>3, <1>5, <1>6, <1>7, <1>8, <1>9, <1>10, <1>11, <1>12
     DEF Step, Refuse, OpenTooLate, Discard, Commit, RecordFailure
<1>13. ASSUME UNCHANGED <<runs, job>>
       PROVE  SeasonsHeld'
  BY <1>13 DEF SeasonsHeld
<1>14. ASSUME NEW w \in Workers, Crash(w)
       PROVE  SeasonsHeld'
  BY <1>3, <1>14 DEF Crash
<1> QED BY <1>4, <1>5, <1>12, <1>13, <1>14 DEF Next, Tick, DeletePlayer, vars

-----------------------------------------------------------------------------
(* Every step is a step of the promise *)

Statuses == [r \in Runs |-> runs[r].status]
SeasonsOf == [r \in Runs |-> runs[r].season]
Seen == <<Statuses, SeasonsOf, stats>>

\* What is closed was open, and nothing else of what the pages show changes.
LEMMA ClosingPromised ==
  ASSUME Instance, StatsInv, NEW R \in SUBSET Runs, \A r \in R : runs[r].status = "previewed",
         NEW how \in {"expired", "discarded"}, runs' = Closing(R, how), UNCHANGED stats
  PROVE  Promise!Close
<1>1. \A q \in Runs : /\ runs'[q].status = IF q \in R THEN how ELSE runs[q].status
                      /\ runs'[q].season = runs[q].season
  BY ClosingCloses
<1>2. /\ Statuses' = [q \in Runs |-> IF q \in R THEN how ELSE Statuses[q]]
      /\ SeasonsOf' = SeasonsOf
  BY <1>1 DEF Statuses, SeasonsOf
<1>3. R \in SUBSET Promise!Open
  BY DEF Promise!Open
<1> QED BY <1>2, <1>3 DEF Promise!Close, Statuses, SeasonsOf

LEMMA StorePreviewPromised ==
  ASSUME Instance, StatsInv, NEW w \in Workers, StorePreview(w)
  PROVE  Promise!Offer
<1>1. /\ job[w].held \in SUBSET Runs /\ \A r \in job[w].held : runs[r].status = "previewed"
      /\ runs \in [Runs -> Upload] /\ UNCHANGED stats
  BY Standing DEF Fits, Job, StorePreview
<1>2. PICK r \in Runs :
        /\ runs[r].status = "absent"
        /\ \E new : new.status = "previewed"
                    /\ runs' = [Closing(job[w].held, "expired") EXCEPT ![r] = new]
  BY DEF StorePreview
<1>3. \A q \in Runs :
        /\ runs'[q].status = IF q = r THEN "previewed"
                             ELSE IF q \in job[w].held THEN "expired" ELSE runs[q].status
        /\ q # r => runs'[q].season = runs[q].season
  <2>1. /\ runs'[r].status = "previewed"
        /\ \A q \in Runs \ {r} : runs'[q] = Closing(job[w].held, "expired")[q]
    BY <1>2 DEF Closing
  <2> QED BY <1>1, <2>1, ClosingCloses
<1>4. /\ Statuses' = [q \in Runs |-> IF q = r THEN "previewed"
                        ELSE IF q \in job[w].held THEN "expired" ELSE Statuses[q]]
      /\ \A q \in Runs \ {r} : SeasonsOf'[q] = SeasonsOf[q]
  BY <1>3 DEF Statuses, SeasonsOf
<1>5. job[w].held \in SUBSET Promise!Open /\ Statuses[r] = "absent"
  BY <1>1, <1>2 DEF Promise!Open, Statuses
<1> QED BY <1>1, <1>4, <1>5 DEF Promise!Offer, Statuses, SeasonsOf

\* The rows of the season are its own upload's afterwards, whoever wrote them
\* before.
LEMMA CommitPromised ==
  ASSUME Instance, FlowInv, SeasonsHeld, NEW w \in Workers, Commit(w)
  PROVE  Promise!Use
<1> DEFINE r == job[w].run
           s == job[w].season
           draft == job[w].draft
           held == job[w].held
<1>1. /\ job[w] \in Job /\ job[w].pc = "done"
      /\ stats' = [stats EXCEPT ![s] = Over(draft, stats[s])]
      /\ stats \in [Seasons -> [Players -> Value]] /\ runs \in [Runs -> Upload]
      /\ s \in Seasons /\ draft \in Drafts /\ held \in SUBSET Runs /\ r \in held
      /\ runs[r].season = s /\ \A q \in held : runs[q].status = "previewed" /\ runs[q].season = s
  <2>1. /\ job[w] \in Job /\ job[w].pc = "done"
        /\ Fits(runs, job[w]) /\ OfOneSeason(runs, job[w])
        /\ stats' = [stats EXCEPT ![s] = Over(draft, stats[s])]
        /\ stats \in [Seasons -> [Players -> Value]] /\ runs \in [Runs -> Upload]
    BY Standing DEF Commit, FlowInv, SeasonsHeld, At
  <2>2. s \in Seasons /\ draft \in Drafts /\ held \in SUBSET Runs
    BY <2>1 DEF Job
  <2>3. r \in held /\ runs[r].season = s
        /\ \A q \in held : runs[q].status = "previewed" /\ runs[q].season = s
    BY <2>1 DEF Fits, OfOneSeason, Importing
  <2> QED BY <2>1, <2>2, <2>3
<1>2. /\ RowsOf(stats, s) \subseteq DOMAIN draft
      /\ \A p \in DOMAIN draft : draft[p] \in {r, NoRow}
  BY <1>1 DEF FlowInv, Flow, Carries, Emptied
<1>3. \E new : /\ new.status = "imported" /\ new.season = runs[r].season
               /\ runs' = [Closing(held, "expired") EXCEPT ![r] = new]
  <2> DEFINE new == [ClosedAs(r, "imported") EXCEPT !.created = job[w].counts[1],
                       !.updated = job[w].counts[2], !.removed = job[w].counts[3]]
  <2>1. runs' = [Closing(held, "expired") EXCEPT ![r] = new]
    BY DEF Commit
  <2>2. new.status = "imported" /\ new.season = runs[r].season
    <3>1. runs[r] \in Upload
      BY <1>1
    <3> HIDE DEF r
    <3> QED BY <3>1 DEF ClosedAs, Upload
  <2> QED BY <2>1, <2>2
<1> HIDE DEF r, s, draft, held
<1>4. \A q \in Runs :
        /\ runs'[q].status = IF q = r THEN "imported"
                             ELSE IF q \in held THEN "expired" ELSE runs[q].status
        /\ runs'[q].season = runs[q].season
  <2>1. /\ runs'[r].status = "imported" /\ runs'[r].season = runs[r].season
        /\ \A q \in Runs \ {r} : runs'[q] = Closing(held, "expired")[q]
    BY <1>1, <1>3 DEF Closing
  <2> QED BY <1>1, <2>1, ClosingCloses DEF FlowInv
<1>5. /\ Statuses' = [q \in Runs |-> IF q = r THEN "imported"
                        ELSE IF q \in held THEN "expired" ELSE Statuses[q]]
      /\ SeasonsOf' = SeasonsOf
  BY <1>4 DEF Statuses, SeasonsOf
<1>6. /\ r \in Promise!Open /\ held \in SUBSET Promise!Open /\ SeasonsOf[r] = s
      /\ \A q \in held : SeasonsOf[q] = SeasonsOf[r]
  BY <1>1 DEF Promise!Open, SeasonsOf
<1>7. \A p \in Players : stats'[s][p] \in {r, NoRow}
  <2> SUFFICES ASSUME NEW p \in Players PROVE stats'[s][p] \in {r, NoRow}
    OBVIOUS
  <2>1. stats[s] \in [Players -> Value] /\ DOMAIN draft \subseteq Players
    BY <1>1 DEF Drafts
  <2>2. stats'[s][p] = IF p \in DOMAIN draft THEN draft[p] ELSE stats[s][p]
    BY <1>1, <2>1 DEF Over
  <2>3. p \notin DOMAIN draft => stats[s][p] = NoRow
    BY <1>2 DEF RowsOf
  <2> QED BY <1>2, <2>2, <2>3
<1>8. \A t \in Seasons \ {s} : stats'[t] = stats[t]
  BY <1>1
<1>9. Promise!ReplacedBy(r, SeasonsOf[r])
  BY <1>6, <1>7, <1>8 DEF Promise!ReplacedBy
<1> QED BY <1>5, <1>6, <1>9 DEF Promise!Use, Statuses, SeasonsOf

LEMMA FailurePromised ==
  ASSUME Instance, StatsInv, NEW w \in Workers, RecordFailure(w)
  PROVE  Promise!Fail \/ UNCHANGED Seen
<1>1. UNCHANGED stats
  BY DEF RecordFailure
<1>2. CASE job[w].source = "web"
  BY <1>1, <1>2 DEF RecordFailure, Seen, Statuses, SeasonsOf
<1>3. CASE job[w].source # "web"
  <2> DEFINE r == job[w].run
             R == {r}
  <2>1. /\ r \in Runs /\ runs[r].status \in {"previewed", "expired"}
        /\ runs' = Closing(R, "failed") /\ R \in SUBSET Runs
    BY <1>3, Standing DEF RecordFailure, At, Fits, About
  <2> HIDE DEF r
  <2>2. \A q \in Runs : /\ runs'[q].status = IF q = r THEN "failed" ELSE runs[q].status
                        /\ runs'[q].season = runs[q].season
    BY <2>1, ClosingCloses
  <2>3. Statuses' = [Statuses EXCEPT ![r] = "failed"] /\ SeasonsOf' = SeasonsOf
    BY <2>1, <2>2 DEF Statuses, SeasonsOf
  <2>4. Statuses[r] \in {"previewed", "expired"}
    BY <2>1 DEF Statuses
  <2> QED BY <1>1, <2>1, <2>3, <2>4 DEF Promise!Fail, Statuses, SeasonsOf
<1> QED BY <1>2, <1>3

LEMMA StepPromised ==
  ASSUME Instance, FlowInv, SeasonsHeld, [Next]_vars
  PROVE  Promise!PromiseNext \/ UNCHANGED Seen
<1> USE DEF FlowInv
<1>1. CASE UNCHANGED <<runs, stats>>
  BY <1>1 DEF Seen, Statuses, SeasonsOf
<1>2. ASSUME NEW w \in Workers, ExpireStale(w), runs' # runs
      PROVE  Promise!Close
  <2> DEFINE expiring == job[w].scan \intersect Stale
  <2>1. /\ expiring \in SUBSET Runs /\ runs' = Closing(expiring, "expired") /\ UNCHANGED stats
        /\ \A r \in expiring : runs[r].status = "previewed"
    BY <1>2 DEF ExpireStale, Stale, IsOpen
  <2> HIDE DEF expiring
  <2> QED BY <2>1, ClosingPromised
<1>3. ASSUME NEW w \in Workers, OpenTooLate(w) \/ Discard(w)
      PROVE  Promise!Close
  <2> DEFINE R == {job[w].run}
  <2>1. /\ R \in SUBSET Runs /\ \A r \in R : runs[r].status = "previewed"
        /\ UNCHANGED stats
        /\ runs' = Closing(R, "expired") \/ runs' = Closing(R, "discarded")
    <3>1. job[w].pc = "asked" /\ runs[job[w].run].status = "previewed"
      BY <1>3 DEF OpenTooLate, Discard, MayUse, At
    <3>2. job[w].run \in Runs
      BY <3>1, Standing DEF Fits, About
    <3> QED BY <1>3, <3>1, <3>2 DEF OpenTooLate, Discard
  <2> HIDE DEF R
  <2> QED BY <2>1, ClosingPromised
<1>4. ASSUME NEW p \in Players, DeletePlayer(p)
      PROVE  Promise!Vanish
  BY <1>4 DEF DeletePlayer, Promise!Vanish
<1>5. ASSUME NEW w \in Workers, Step(w)
      PROVE  Promise!PromiseNext \/ UNCHANGED Seen
  BY <1>1, <1>2, <1>3, <1>5, StorePreviewPromised, CommitPromised, FailurePromised
     DEF Step, ExpireStale, Refuse, OpenPreview, FindStats, LockStats, Write, WriteFails,
         FindLeaving, DeleteLeaving, FindOthers, CloseOthers, Promise!PromiseNext
<1>6. CASE \E w \in Workers : Request(w) \/ Raise(w) \/ Crash(w)
  BY <1>1, <1>6, RequestBegins DEF Raise, Crash
<1>7. CASE Tick \/ UNCHANGED vars
  BY <1>1, <1>7 DEF Tick, vars
<1> QED BY <1>4, <1>5, <1>6, <1>7 DEF Next, Promise!PromiseNext

LEMMA InitPromised ==
  ASSUME Instance, Init
  PROVE  Promise!PromiseInit
<1>1. StatsInv
  BY InitInv
<1>2. \A r \in Runs : runs[r].status = "absent" /\ runs[r].season \in Seasons
  BY <1>1 DEF Init, NoRun, StatsInv, Shape, Upload
<1> QED BY <1>1, <1>2 DEF Promise!PromiseInit, StatsInv, Shape, Value

\* "The file is the whole season" (confirm_season_stats, season_stats.py:425-458):
\* the uploads implement the promise of SeasonStatsPromise if they are undisturbed:
\* either every season has rows from the start and no player is deleted, and then
\* whatever confirmations, discards and expiries run side by side, fail or crash;
\* or one request comes at a time.  Then a preview is used once or closed, and
\* using it replaces the stats of its season by the rows of that one file.  Two
\* imports at a time into a season without rows break it (season_stats.py:545).
THEOREM TheFileIsTheWholeSeason == Instance /\ Undisturbed => (Spec => PromiseKept)
<1> SUFFICES ASSUME Instance, Undisturbed PROVE Spec => PromiseKept
  OBVIOUS
<1> DEFINE Inv == FlowInv /\ SeasonsHeld
<1>1. Init => Inv /\ Promise!PromiseInit
  BY InitInv, InitFlows, InitSeasons, InitPromised DEF FlowInv
<1>2. Inv /\ [Next]_vars => Inv'
  BY NextFlows, NextSeasons DEF FlowInv
<1>3. Inv /\ [Next]_vars => Promise!PromiseNext \/ UNCHANGED Seen
  BY StepPromised
<1>4. Inv /\ [Next]_vars =>
        [Promise!PromiseNext]_<<[r \in Runs |-> runs[r].status],
                                [r \in Runs |-> runs[r].season], stats>>
  BY <1>3 DEF Seen, Statuses, SeasonsOf
<1> QED BY <1>1, <1>2, <1>4, PTL DEF Spec, PromiseKept, Promise!PromiseSpec

-----------------------------------------------------------------------------
(* One request at a time: a preview tells what its import will do *)

Alone == ~MayVanish /\ \A v, w \in Workers : v = w

CountsIn(table, s, P) ==
  <<Cardinality(P \ RowsOf(table, s)), Cardinality(P \intersect RowsOf(table, s)),
    Cardinality(RowsOf(table, s) \ P)>>

\* A row is an import's that was committed.
RowsAreImported ==
  \A s \in Seasons, p \in Players : stats[s][p] \in Runs => runs[stats[s][p]].status = "imported"

\* What an open preview shows is what importing it would do to the stats as they
\* are: whatever changes them closes it.
PreviewsTell ==
  \A r \in Runs : IsOpen(r) =>
    <<runs[r].created, runs[r].updated, runs[r].removed>>
      = CountsIn(stats, runs[r].season, runs[r].payload)

\* How far a request has come with its file: the rows it found are all there
\* are, those it wrote are the file's, and the others it deletes.
Tallies(table, uploads, j) ==
  /\ j.pc = "counted" => j.counts = CountsIn(table, j.season, j.matched)
  /\ j.pc = "reading" => j.scan = RowsOf(table, j.season)
  /\ j.pc \in {"loaded", "written", "deleting"} => j.existing = RowsOf(table, j.season)
  /\ j.pc = "loaded" => Mine(j) = {}
  /\ j.pc \in {"written", "deleting"} => Mine(j) = uploads[j.run].payload
  /\ j.pc = "deleting" => j.scan = RowsOf(table, j.season) \ Mine(j)
  /\ j.pc \in Emptied => j.counts = CountsIn(table, j.season, uploads[j.run].payload)
  /\ j.pc = "closing" => \A r \in Runs \ {j.run} :
       uploads[r].status = "previewed" /\ uploads[r].season = j.season => r \in j.scan
  /\ j.pc = "done" => \A r \in Runs :
       uploads[r].status = "previewed" /\ uploads[r].season = j.season => r \in j.held

AllTally == \A w \in Workers : Tallies(stats, runs, job[w])

NumbersInv == FlowInv /\ RowsAreImported /\ PreviewsTell /\ AllTally

\* A request that is not counting or importing.
Aside(j) == j.pc \notin Past \union {"counted", "reading"}

LEMMA AsideTallies ==
  ASSUME NEW j, Aside(j)
  PROVE  \A table, uploads : Tallies(table, uploads, j)
BY DEF Aside, Tallies, Past, Emptied

LEMMA IdleIsAside ==
  ASSUME Instance
  PROVE  Aside(Idle)
BY NothingFits DEF Aside, Past

LEMMA CountsAgree ==
  ASSUME NEW s, NEW P
  PROVE  Counts(s, P) = CountsIn(stats, s, P)
BY DEF Counts, CountsIn, HasRow, RowsOf

LEMMA InitNumbers ==
  ASSUME Instance, Init
  PROVE  RowsAreImported /\ PreviewsTell /\ AllTally
<1>1. \A r \in Runs : runs[r].status = "absent"
  BY DEF Init, NoRun
<1>2. RowsAreImported
  <2>1. \A s \in Seasons, p \in Players : stats[s][p] \in {OldRow, NoRow}
    BY DEF Init
  <2> QED BY <2>1 DEF RowsAreImported, Instance, StatsConstants
<1>3. PreviewsTell
  BY <1>1 DEF PreviewsTell, IsOpen
<1>4. AllTally
  BY IdleIsAside, AsideTallies DEF Init, AllTally
<1> QED BY <1>2, <1>3, <1>4

-----------------------------------------------------------------------------
(* Steps in general, with nobody else *)

\* The request goes on with j, and no upload and no row changes.
LEMMA TalliesStep ==
  ASSUME Alone, NumbersInv, NEW w \in Workers, NEW j, job' = [job EXCEPT ![w] = j],
         UNCHANGED <<runs, stats>>, Tallies(stats, runs, j)
  PROVE  RowsAreImported' /\ PreviewsTell' /\ AllTally'
<1>1. \A v \in Workers : job'[v] = j
  BY Standing DEF Alone, NumbersInv, FlowInv
<1>2. AllTally'
  BY <1>1 DEF AllTally
<1> QED BY <1>2 DEF NumbersInv, RowsAreImported, PreviewsTell, IsOpen

LEMMA AsideStep ==
  ASSUME Alone, NumbersInv, NEW w \in Workers, NEW j, job' = [job EXCEPT ![w] = j],
         UNCHANGED <<runs, stats>>, Aside(j)
  PROVE  RowsAreImported' /\ PreviewsTell' /\ AllTally'
BY AsideTallies, TalliesStep

\* Uploads change, the request goes on with j, which is no import: what was open
\* and still is has not changed, and what is new tells the truth.
LEMMA RunsTell ==
  ASSUME Alone, NumbersInv, StatusMovesOn, NEW w \in Workers, NEW j, job' = [job EXCEPT ![w] = j],
         UNCHANGED stats, Aside(j),
         \A r \in Runs : runs'[r].status = "previewed" =>
           \/ runs'[r] = runs[r]
           \/ <<runs'[r].created, runs'[r].updated, runs'[r].removed>>
                = CountsIn(stats, runs'[r].season, runs'[r].payload)
  PROVE  RowsAreImported' /\ PreviewsTell' /\ AllTally'
<1>1. \A v \in Workers : job'[v] = j
  BY Standing DEF Alone, NumbersInv, FlowInv
<1>2. AllTally'
  BY <1>1, AsideTallies DEF AllTally
<1>3. RowsAreImported'
  BY DEF NumbersInv, RowsAreImported, StatusMovesOn
<1>4. PreviewsTell'
  BY DEF NumbersInv, PreviewsTell, IsOpen
<1> QED BY <1>2, <1>3, <1>4

LEMMA ClosingTells ==
  ASSUME Instance, Alone, NumbersInv, StatusMovesOn, NEW w \in Workers,
         job' = [job EXCEPT ![w] = Idle], UNCHANGED stats, NEW R \in SUBSET Runs,
         NEW status \in {"discarded", "expired", "failed"}, runs' = Closing(R, status)
  PROVE  RowsAreImported' /\ PreviewsTell' /\ AllTally'
<1>1. \A r \in Runs : runs'[r].status = "previewed" => runs'[r] = runs[r]
  BY ClosingCloses DEF NumbersInv, FlowInv
<1> QED BY <1>1, IdleIsAside, RunsTell

LEMMA RequestTells ==
  ASSUME Instance, Alone, NumbersInv, NEW w \in Workers, Request(w)
  PROVE  RowsAreImported' /\ PreviewsTell' /\ AllTally'
BY RequestBegins, AsideStep DEF Aside, Past

\* Steps around an import: the counting of a new file among them.
LEMMA AroundTells ==
  ASSUME Instance, Alone, NumbersInv, StatusMovesOn, NEW w \in Workers,
         \/ ExpireStale(w) \/ Refuse(w) \/ OpenTooLate(w) \/ Discard(w) \/ RecordFailure(w)
  PROVE  RowsAreImported' /\ PreviewsTell' /\ AllTally'
<1> USE DEF NumbersInv, FlowInv
<1>1. CASE Refuse(w)
  BY <1>1, IdleIsAside, AsideStep DEF Refuse
<1>2. CASE ExpireStale(w)
  <2> DEFINE expiring == job[w].scan \intersect Stale
             counts == Counts(job[w].season, job[w].matched)
             j == [job[w] EXCEPT !.pc = "counted", !.held = expiring, !.counts = counts]
  <2>1. expiring \in SUBSET Runs
    BY DEF Stale
  <2>2. CASE job[w].kind = "page"
    <3>1. /\ runs' = Closing(expiring, "expired") /\ job' = [job EXCEPT ![w] = Idle]
          /\ UNCHANGED stats
      BY <1>2, <2>2 DEF ExpireStale
    <3> HIDE DEF expiring
    <3> QED BY <2>1, <3>1, ClosingTells
  <2>3. CASE job[w].kind # "page"
    <3>1. job' = [job EXCEPT ![w] = j] /\ UNCHANGED <<runs, stats>>
      BY <1>2, <2>3, Standing DEF ExpireStale
    <3>2. /\ j.pc = "counted" /\ j.counts = counts
          /\ j.season = job[w].season /\ j.matched = job[w].matched
      <4> HIDE DEF counts
      <4> QED BY Standing DEF Job
    <3>3. counts = CountsIn(stats, job[w].season, job[w].matched)
      BY CountsAgree
    <3> HIDE DEF j, counts
    <3>4. Tallies(stats, runs, j)
      BY <3>2, <3>3 DEF Tallies, Emptied
    <3> QED BY <3>1, <3>4, TalliesStep
  <2> QED BY <2>2, <2>3
<1>3. CASE OpenTooLate(w) \/ Discard(w) \/ RecordFailure(w)
  <2> DEFINE R == {job[w].run}
  <2>1. /\ R \in SUBSET Runs
        /\ job' = [job EXCEPT ![w] = Idle] /\ UNCHANGED stats
        /\ \/ UNCHANGED runs
           \/ \E status \in {"discarded", "expired", "failed"} : runs' = Closing(R, status)
    <3>1. job[w].run \in Runs
      BY <1>3, Standing DEF OpenTooLate, Discard, RecordFailure, At, Fits, About
    <3> QED BY <1>3, <3>1 DEF OpenTooLate, Discard, RecordFailure
  <2> HIDE DEF R
  <2>2. CASE UNCHANGED runs
    BY <2>1, <2>2, IdleIsAside, AsideStep
  <2> QED BY <2>1, <2>2, ClosingTells
<1> QED BY <1>1, <1>2, <1>3

\* The counts are of the stats as they still are.
LEMMA StorePreviewTells ==
  ASSUME Instance, Alone, NumbersInv, StatusMovesOn, NEW w \in Workers, StorePreview(w)
  PROVE  RowsAreImported' /\ PreviewsTell' /\ AllTally'
<1> USE DEF NumbersInv, FlowInv
<1>1. job[w] \in Job /\ job[w].pc = "counted" /\ UNCHANGED stats
  BY Standing DEF StorePreview, At
<1>2. PICK r \in Runs :
        /\ runs' = [Closing(job[w].held, "expired") EXCEPT ![r] =
             [status |-> "previewed", season |-> job[w].season,
              triggered_by |-> job[w].user, created_at |-> now, payload |-> job[w].matched,
              created |-> job[w].counts[1], updated |-> job[w].counts[2],
              removed |-> job[w].counts[3]]]
        /\ job' = [job EXCEPT ![w] =
             IF job[w].source = "web" THEN Idle
             ELSE [Idle EXCEPT !.pc = "asked", !.source = job[w].source, !.run = r,
                               !.kind = IF job[w].source = "dry_run" THEN "discard" ELSE "confirm"]]
  BY DEF StorePreview
<1>3. <<runs'[r].created, runs'[r].updated, runs'[r].removed>>
        = CountsIn(stats, runs'[r].season, runs'[r].payload)
  <2>1. job[w].counts = CountsIn(stats, job[w].season, job[w].matched)
    BY <1>1 DEF AllTally, Tallies
  <2>2. job[w].counts = <<job[w].counts[1], job[w].counts[2], job[w].counts[3]>>
    BY <1>1 DEF Job
  <2>3. /\ runs'[r].created = job[w].counts[1] /\ runs'[r].updated = job[w].counts[2]
        /\ runs'[r].removed = job[w].counts[3]
        /\ runs'[r].season = job[w].season /\ runs'[r].payload = job[w].matched
    BY <1>2 DEF Closing
  <2> QED BY <2>1, <2>2, <2>3
<1>4. \A q \in Runs \ {r} : runs'[q].status = "previewed" => runs'[q] = runs[q]
  <2>1. \A q \in Runs \ {r} : runs'[q] = Closing(job[w].held, "expired")[q]
    BY <1>2 DEF Closing
  <2>2. job[w].held \in SUBSET Runs
    BY <1>1 DEF Job
  <2> QED BY <2>1, <2>2, ClosingCloses
<1>5. \E j : job' = [job EXCEPT ![w] = j] /\ Aside(j)
  <2> DEFINE kind == IF job[w].source = "dry_run" THEN "discard" ELSE "confirm"
             j == [Idle EXCEPT !.pc = "asked", !.source = job[w].source, !.run = r, !.kind = kind]
  <2>1. j.pc = "asked"
    BY NothingFits DEF Job
  <2>2. CASE job[w].source = "web"
    BY <1>2, <2>2, IdleIsAside
  <2>3. CASE job[w].source # "web"
    <3>1. job' = [job EXCEPT ![w] = j]
      BY <1>2, <2>3
    <3> HIDE DEF j
    <3> QED BY <2>1, <3>1 DEF Aside, Past
  <2> QED BY <2>2, <2>3
<1> QED BY <1>1, <1>3, <1>4, <1>5, RunsTell

-----------------------------------------------------------------------------
(* The import does what its preview told *)

LEMMA FindStatsTells ==
  ASSUME Instance, Alone, NumbersInv, NEW w \in Workers, FindStats(w)
  PROVE  RowsAreImported' /\ PreviewsTell' /\ AllTally'
<1> DEFINE scan == HasRow(job[w].season)
           alive == Players \ gone
           j == [job[w] EXCEPT !.pc = "reading", !.scan = scan, !.alive = alive]
<1>1. job' = [job EXCEPT ![w] = j] /\ UNCHANGED <<runs, stats>> /\ job[w] \in Job
  BY Standing DEF FindStats, NumbersInv, FlowInv
<1>2. j.pc = "reading" /\ j.season = job[w].season /\ j.scan = scan
  <2> HIDE DEF scan, alive
  <2> QED BY <1>1 DEF Job
<1>3. scan = RowsOf(stats, job[w].season)
  BY DEF HasRow, RowsOf
<1> HIDE DEF j, scan
<1>4. Tallies(stats, runs, j)
  BY <1>2, <1>3 DEF Tallies, Emptied
<1> QED BY <1>1, <1>4, TalliesStep

\* No row is the import's own yet: its preview is open, and those of the rows
\* are not.
LEMMA LockStatsTells ==
  ASSUME Instance, Alone, NumbersInv, NEW w \in Workers, LockStats(w)
  PROVE  RowsAreImported' /\ PreviewsTell' /\ AllTally'
<1> DEFINE locked == job[w].scan \intersect HasRow(job[w].season)
           draft == [p \in locked |-> stats[job[w].season][p]]
           j == [job[w] EXCEPT !.pc = "loaded", !.existing = locked, !.draft = draft]
<1>1. /\ job' = [job EXCEPT ![w] = j] /\ UNCHANGED <<runs, stats>> /\ job[w] \in Job
      /\ job[w].pc = "reading" /\ Fits(runs, job[w])
  BY Standing DEF LockStats, NumbersInv, FlowInv, At
<1>2. /\ j.pc = "loaded" /\ j.season = job[w].season /\ j.existing = locked
      /\ j.draft = draft /\ j.run = job[w].run
  <2> HIDE DEF locked, draft
  <2> QED BY <1>1 DEF Job
<1>3. locked = RowsOf(stats, job[w].season)
  BY <1>1 DEF HasRow, RowsOf, NumbersInv, AllTally, Tallies
<1>4. Mine(j) = {}
  <2>1. job[w].run \in Runs /\ runs[job[w].run].status = "previewed" /\ job[w].season \in Seasons
    BY <1>1 DEF Fits, Importing, InTransaction, About, Job
  <2>2. locked \subseteq Players
    BY DEF HasRow
  <2>3. ASSUME NEW p \in locked PROVE stats[job[w].season][p] # job[w].run
    BY <2>1, <2>2 DEF NumbersInv, RowsAreImported
  <2> HIDE DEF locked, j
  <2> QED BY <1>2, <2>3 DEF Mine
<1> HIDE DEF j, locked
<1>5. Tallies(stats, runs, j)
  BY <1>2, <1>3, <1>4 DEF Tallies, Emptied
<1> QED BY <1>1, <1>5, TalliesStep

\* Every player of the file is there, so every one is written.
LEMMA WriteTells ==
  ASSUME Instance, Alone, NumbersInv, NEW w \in Workers, Write(w)
  PROVE  RowsAreImported' /\ PreviewsTell' /\ AllTally'
<1> DEFINE written == runs[job[w].run].payload \intersect job[w].alive
           fresh == [p \in written |-> job[w].run]
           draft == Over(fresh, job[w].draft)
           j == [job[w] EXCEPT !.pc = "written", !.draft = draft]
<1>1. /\ job' = [job EXCEPT ![w] = j] /\ UNCHANGED <<runs, stats>> /\ job[w] \in Job
      /\ job[w].pc = "loaded" /\ Fits(runs, job[w])
  BY Standing DEF Write, NumbersInv, FlowInv, At
<1>2. /\ DOMAIN draft = written \union DOMAIN job[w].draft
      /\ \A p \in DOMAIN draft :
           draft[p] = IF p \in written THEN job[w].run ELSE job[w].draft[p]
  BY DEF Over
<1>3. /\ j.pc = "written" /\ j.run = job[w].run /\ j.season = job[w].season /\ j.draft = draft
      /\ j.existing = job[w].existing
  <2> HIDE DEF draft
  <2> QED BY <1>1 DEF Job
<1>4. written = runs[job[w].run].payload
  <2>1. job[w].run \in Runs /\ job[w].alive = Players
    BY <1>1 DEF Fits, About, Importing, InTransaction, NumbersInv, FlowInv, Flow, HasRows, Alone
  <2>2. runs[job[w].run].payload \subseteq Players
    BY <2>1, Standing DEF NumbersInv, FlowInv, Upload
  <2> QED BY <2>1, <2>2
<1>5. Mine(job[w]) = {} /\ job[w].existing = RowsOf(stats, job[w].season)
  BY <1>1 DEF NumbersInv, AllTally, Tallies
<1> HIDE DEF j, draft, written
<1>6. Mine(j) = written
  BY <1>2, <1>3, <1>5 DEF Mine
<1>7. Tallies(stats, runs, j)
  BY <1>3, <1>4, <1>5, <1>6 DEF Tallies, Emptied
<1> QED BY <1>1, <1>7, TalliesStep

LEMMA FindLeavingTells ==
  ASSUME Instance, Alone, NumbersInv, NEW w \in Workers, FindLeaving(w)
  PROVE  RowsAreImported' /\ PreviewsTell' /\ AllTally'
<1> DEFINE leaving == HasRow(job[w].season) \ Written(w)
           j == [job[w] EXCEPT !.pc = "deleting", !.scan = leaving]
<1>1. /\ job' = [job EXCEPT ![w] = j] /\ UNCHANGED <<runs, stats>> /\ job[w] \in Job
      /\ job[w].pc = "written"
  BY Standing DEF FindLeaving, NumbersInv, FlowInv, At
<1>2. leaving = RowsOf(stats, job[w].season) \ Mine(job[w])
  BY DEF HasRow, RowsOf, Written, Mine
<1>3. /\ j.pc = "deleting" /\ j.run = job[w].run /\ j.season = job[w].season
      /\ j.draft = job[w].draft /\ j.scan = leaving /\ j.existing = job[w].existing
  <2> HIDE DEF leaving
  <2> QED BY <1>1 DEF Job
<1> HIDE DEF j, leaving
<1>4. Mine(j) = Mine(job[w])
  BY <1>3 DEF Mine
<1>5. Mine(job[w]) = runs[job[w].run].payload /\ job[w].existing = RowsOf(stats, job[w].season)
  BY <1>1 DEF NumbersInv, AllTally, Tallies
<1>6. Tallies(stats, runs, j)
  BY <1>2, <1>3, <1>4, <1>5 DEF Tallies, Emptied
<1> QED BY <1>1, <1>6, TalliesStep

LEMMA DeleteLeavingTells ==
  ASSUME Instance, Alone, NumbersInv, NEW w \in Workers, DeleteLeaving(w)
  PROVE  RowsAreImported' /\ PreviewsTell' /\ AllTally'
<1> DEFINE leaving == job[w].scan \intersect HasRow(job[w].season)
           fresh == [p \in leaving |-> NoRow]
           draft == Over(fresh, job[w].draft)
           counts == <<Cardinality(Written(w) \ job[w].existing),
                       Cardinality(Written(w) \intersect job[w].existing),
                       Cardinality(leaving)>>
           j == [job[w] EXCEPT !.pc = "deleted", !.draft = draft, !.counts = counts]
<1>1. /\ job' = [job EXCEPT ![w] = j] /\ UNCHANGED <<runs, stats>> /\ job[w] \in Job
      /\ job[w].pc = "deleting"
  BY Standing DEF DeleteLeaving, NumbersInv, FlowInv, At
<1>2. /\ j.pc = "deleted" /\ j.run = job[w].run /\ j.season = job[w].season /\ j.counts = counts
  <2> HIDE DEF draft, counts
  <2> QED BY <1>1 DEF Job
<1>3. counts = CountsIn(stats, job[w].season, runs[job[w].run].payload)
  <2>1. /\ Mine(job[w]) = runs[job[w].run].payload
        /\ job[w].existing = RowsOf(stats, job[w].season)
        /\ job[w].scan = RowsOf(stats, job[w].season) \ Mine(job[w])
    BY <1>1 DEF NumbersInv, AllTally, Tallies
  <2>2. Written(w) = Mine(job[w])
    BY DEF Written, Mine
  <2>3. leaving = RowsOf(stats, job[w].season) \ Mine(job[w])
    BY <2>1 DEF HasRow, RowsOf
  <2> HIDE DEF leaving
  <2> QED BY <2>1, <2>2, <2>3 DEF CountsIn
<1> HIDE DEF j, counts
<1>4. Tallies(stats, runs, j)
  BY <1>2, <1>3 DEF Tallies, Emptied
<1> QED BY <1>1, <1>4, TalliesStep

LEMMA FindOthersTells ==
  ASSUME Instance, Alone, NumbersInv, NEW w \in Workers, FindOthers(w)
  PROVE  RowsAreImported' /\ PreviewsTell' /\ AllTally'
<1> DEFINE others == {r \in Runs \ {job[w].run} : IsOpen(r) /\ runs[r].season = job[w].season}
           j == [job[w] EXCEPT !.pc = "closing", !.scan = others]
<1>1. /\ job' = [job EXCEPT ![w] = j] /\ UNCHANGED <<runs, stats>> /\ job[w] \in Job
      /\ job[w].pc = "deleted"
  BY Standing DEF FindOthers, NumbersInv, FlowInv, At
<1>2. /\ j.pc = "closing" /\ j.run = job[w].run /\ j.season = job[w].season
      /\ j.counts = job[w].counts /\ j.scan = others
  <2> HIDE DEF others
  <2> QED BY <1>1 DEF Job
<1> HIDE DEF j
<1>3. j.counts = CountsIn(stats, j.season, runs[j.run].payload)
  BY <1>1, <1>2 DEF NumbersInv, AllTally, Tallies, Emptied
<1>4. Tallies(stats, runs, j)
  BY <1>2, <1>3 DEF Tallies, IsOpen
<1> QED BY <1>1, <1>4, TalliesStep

LEMMA CloseOthersTells ==
  ASSUME Instance, Alone, NumbersInv, NEW w \in Workers, CloseOthers(w)
  PROVE  RowsAreImported' /\ PreviewsTell' /\ AllTally'
<1> DEFINE held == job[w].held \union {r \in job[w].scan : IsOpen(r)}
           j == [job[w] EXCEPT !.pc = "done", !.held = held]
<1>1. /\ job' = [job EXCEPT ![w] = j] /\ UNCHANGED <<runs, stats>> /\ job[w] \in Job
      /\ job[w].pc = "closing" /\ Fits(runs, job[w])
  BY Standing DEF CloseOthers, NumbersInv, FlowInv, At
<1>2. /\ j.pc = "done" /\ j.run = job[w].run /\ j.season = job[w].season
      /\ j.counts = job[w].counts /\ j.held = held
  <2> HIDE DEF held
  <2> QED BY <1>1 DEF Job
<1> HIDE DEF j
<1>3. j.counts = CountsIn(stats, j.season, runs[j.run].payload)
  BY <1>1, <1>2 DEF NumbersInv, AllTally, Tallies, Emptied
<1>4. \A r \in Runs : runs[r].status = "previewed" /\ runs[r].season = j.season => r \in held
  <2>1. job[w].run \in job[w].held
    BY <1>1 DEF Fits, Importing, InTransaction
  <2>2. \A r \in Runs \ {job[w].run} :
          runs[r].status = "previewed" /\ runs[r].season = job[w].season => r \in job[w].scan
    BY <1>1 DEF NumbersInv, AllTally, Tallies
  <2> QED BY <1>2, <2>1, <2>2 DEF IsOpen
<1> HIDE DEF held
<1>5. Tallies(stats, runs, j)
  BY <1>2, <1>3, <1>4 DEF Tallies
<1> QED BY <1>1, <1>5, TalliesStep

\* The previews that are still open afterwards are of other seasons.
LEMMA CommitTells ==
  ASSUME Instance, Alone, NumbersInv, StatusMovesOn, NEW w \in Workers, Commit(w)
  PROVE  RowsAreImported' /\ PreviewsTell' /\ AllTally'
<1> DEFINE s == job[w].season
           r == job[w].run
           draft == job[w].draft
           held == job[w].held
<1>1. /\ job[w] \in Job /\ job[w].pc = "done" /\ job' = [job EXCEPT ![w] = Idle]
      /\ stats' = [stats EXCEPT ![s] = Over(draft, stats[s])]
      /\ stats \in [Seasons -> [Players -> Value]] /\ runs \in [Runs -> Upload]
      /\ Fits(runs, job[w])
  BY Standing DEF Commit, NumbersInv, FlowInv, At
<1>2. s \in Seasons /\ draft \in Drafts /\ held \in SUBSET Runs /\ r \in Runs /\ r \in held
  BY <1>1 DEF Job, Fits, About, Importing
<1>3. \A p \in DOMAIN draft : draft[p] \in {r, NoRow}
  BY <1>1 DEF NumbersInv, FlowInv, Flow, Carries, Emptied
<1>4. \A q \in Runs : runs[q].status = "previewed" /\ runs[q].season = s => q \in held
  BY <1>1 DEF NumbersInv, AllTally, Tallies
<1>5. /\ runs'[r].status = "imported"
      /\ \A q \in Runs \ {r} : runs'[q] = Closing(held, "expired")[q]
  <2> DEFINE new == [ClosedAs(r, "imported") EXCEPT !.created = job[w].counts[1],
                       !.updated = job[w].counts[2], !.removed = job[w].counts[3]]
  <2>1. runs' = [Closing(held, "expired") EXCEPT ![r] = new]
    BY DEF Commit
  <2>2. new.status = "imported"
    <3>1. runs[r] \in Upload
      BY <1>1, <1>2
    <3> HIDE DEF r
    <3> QED BY <3>1 DEF ClosedAs, Upload
  <2> HIDE DEF new, r, held
  <2> QED BY <1>2, <2>1, <2>2 DEF Closing
<1> HIDE DEF s, r, draft, held
<1>6. \A v \in Workers : job'[v] = Idle
  BY <1>1, Standing DEF Alone, NumbersInv, FlowInv
<1>7. AllTally'
  BY <1>6, IdleIsAside, AsideTallies DEF AllTally
<1>8. RowsAreImported'
  <2> SUFFICES ASSUME NEW t \in Seasons, NEW p \in Players, stats'[t][p] \in Runs
               PROVE  runs'[stats'[t][p]].status = "imported"
    BY DEF RowsAreImported
  <2>1. \/ stats'[t][p] = stats[t][p]
        \/ p \in DOMAIN draft /\ stats'[t][p] = draft[p]
    <3>1. stats[s] \in [Players -> Value] /\ DOMAIN draft \subseteq Players
      BY <1>1, <1>2 DEF Drafts
    <3> QED BY <1>1, <1>2, <3>1 DEF Over
  <2>2. \A q \in Runs : runs[q].status = "imported" => runs'[q].status = "imported"
    BY DEF StatusMovesOn
  <2>3. NoRow \notin Runs
    BY DEF Instance, StatsConstants
  <2> QED BY <1>3, <1>5, <2>1, <2>2, <2>3 DEF NumbersInv, RowsAreImported
<1>9. PreviewsTell'
  <2> SUFFICES ASSUME NEW q \in Runs, runs'[q].status = "previewed"
               PROVE  <<runs'[q].created, runs'[q].updated, runs'[q].removed>>
                        = CountsIn(stats', runs'[q].season, runs'[q].payload)
    BY DEF PreviewsTell, IsOpen
  <2>1. runs'[q] = runs[q] /\ q \notin held
    BY <1>2, <1>5, ClosingCloses DEF NumbersInv, FlowInv
  <2>2. runs[q].season \in Seasons \ {s}
    BY <1>1, <1>4, <2>1 DEF Upload
  <2>3. RowsOf(stats', runs[q].season) = RowsOf(stats, runs[q].season)
    BY <1>1, <2>2 DEF RowsOf
  <2>4. <<runs[q].created, runs[q].updated, runs[q].removed>>
          = CountsIn(stats, runs[q].season, runs[q].payload)
    BY <2>1 DEF NumbersInv, PreviewsTell, IsOpen
  <2> QED BY <2>1, <2>3, <2>4 DEF CountsIn
<1> QED BY <1>7, <1>8, <1>9

LEMMA NextNumbers ==
  ASSUME Instance, Alone, NumbersInv, [Next]_vars
  PROVE  NumbersInv'
<1>1. FlowInv' /\ StatusMovesOn
  BY NextFlows, StepMovesOn DEF NumbersInv, FlowInv, Alone, Undisturbed
<1>2. SUFFICES RowsAreImported' /\ PreviewsTell' /\ AllTally'
  BY <1>1 DEF NumbersInv
<1>3. ASSUME NEW w \in Workers, job' = [job EXCEPT ![w].pc = "failing", ![w].held = {},
                                                    ![w].draft = << >>],
             UNCHANGED <<runs, stats>>
      PROVE  RowsAreImported' /\ PreviewsTell' /\ AllTally'
  <2> DEFINE j == [job[w] EXCEPT !.pc = "failing", !.held = {}, !.draft = << >>]
  <2>1. job[w] \in Job /\ job \in [Workers -> Job]
    BY Standing DEF NumbersInv, FlowInv
  <2>2. j.pc = "failing" /\ job' = [job EXCEPT ![w] = j]
    BY <1>3, <2>1 DEF Job
  <2> HIDE DEF j
  <2> QED BY <1>3, <2>2, AsideStep DEF Aside, Past
<1>4. ASSUME NEW w \in Workers, OpenPreview(w)
      PROVE  RowsAreImported' /\ PreviewsTell' /\ AllTally'
  <2> DEFINE j == [job[w] EXCEPT !.pc = "opened", !.held = {job[w].run},
                                 !.season = runs[job[w].run].season]
  <2>1. job' = [job EXCEPT ![w] = j] /\ UNCHANGED <<runs, stats>>
    BY <1>4, Standing DEF OpenPreview, NumbersInv, FlowInv
  <2>2. j.pc = "opened"
    BY Standing DEF NumbersInv, FlowInv, Job
  <2> HIDE DEF j
  <2> QED BY <2>1, <2>2, AsideStep DEF Aside, Past
<1>5. ASSUME NEW w \in Workers, Step(w)
      PROVE  RowsAreImported' /\ PreviewsTell' /\ AllTally'
  BY <1>1, <1>3, <1>4, <1>5, AroundTells, StorePreviewTells, FindStatsTells, LockStatsTells,
     WriteTells, FindLeavingTells, DeleteLeavingTells, FindOthersTells, CloseOthersTells,
     CommitTells DEF Step, WriteFails
<1>6. ASSUME NEW w \in Workers, Raise(w) \/ Crash(w)
      PROVE  RowsAreImported' /\ PreviewsTell' /\ AllTally'
  BY <1>3, <1>6, IdleIsAside, AsideStep DEF Raise, Crash
<1>7. CASE Tick \/ UNCHANGED vars
  BY <1>7 DEF Tick, vars, NumbersInv, RowsAreImported, PreviewsTell, AllTally, IsOpen
<1> QED BY <1>5, <1>6, <1>7, RequestTells DEF Next, DeletePlayer, Alone

\* Only a commit imports, and it writes what the request has counted.
LEMMA CommitWritesWhatWasTold ==
  ASSUME Instance, Alone, NumbersInv, [Next]_vars
  PROVE  NumbersHold
<1> SUFFICES ASSUME NEW r \in Runs, IsOpen(r), runs'[r].status = "imported"
             PROVE  /\ runs'[r].created = runs[r].created
                    /\ runs'[r].updated = runs[r].updated
                    /\ runs'[r].removed = runs[r].removed
  BY DEF NumbersHold
<1> USE DEF NumbersInv, FlowInv
<1>1. ASSUME NEW R \in SUBSET Runs, NEW status \in {"discarded", "expired", "failed"}
      PROVE  runs' # Closing(R, status)
  BY <1>1, ClosingCloses DEF IsOpen
<1>2. runs' # runs
  BY DEF IsOpen
<1>3. ASSUME NEW w \in Workers, ExpireStale(w)
      PROVE  FALSE
  <2> DEFINE expiring == job[w].scan \intersect Stale
  <2>1. expiring \in SUBSET Runs /\ (runs' = Closing(expiring, "expired") \/ runs' = runs)
    BY <1>3 DEF ExpireStale, Stale
  <2> HIDE DEF expiring
  <2> QED BY <1>1, <1>2, <2>1
<1>4. ASSUME NEW w \in Workers, OpenTooLate(w) \/ Discard(w) \/ RecordFailure(w)
      PROVE  FALSE
  <2> DEFINE R == {job[w].run}
  <2>1. job[w].run \in Runs
    BY <1>4, Standing DEF OpenTooLate, Discard, RecordFailure, At, Fits, About
  <2>2. /\ R \in SUBSET Runs
        /\ \/ UNCHANGED runs
           \/ \E status \in {"discarded", "expired", "failed"} : runs' = Closing(R, status)
    BY <1>4, <2>1 DEF OpenTooLate, Discard, RecordFailure
  <2> HIDE DEF R
  <2> QED BY <1>1, <1>2, <2>2
<1>5. ASSUME NEW w \in Workers, StorePreview(w)
      PROVE  FALSE
  <2>1. PICK q \in Runs :
          \E new : /\ new.status = "previewed"
                   /\ runs' = [Closing(job[w].held, "expired") EXCEPT ![q] = new]
    BY <1>5 DEF StorePreview
  <2>2. r # q /\ runs'[r] = Closing(job[w].held, "expired")[r]
    BY <2>1 DEF Closing
  <2>3. job[w].held \in SUBSET Runs
    BY Standing DEF Job
  <2> QED BY <2>2, <2>3, ClosingCloses DEF IsOpen
<1>6. ASSUME NEW w \in Workers, Commit(w)
      PROVE  /\ runs'[r].created = runs[r].created
             /\ runs'[r].updated = runs[r].updated
             /\ runs'[r].removed = runs[r].removed
  <2> DEFINE new == [ClosedAs(job[w].run, "imported") EXCEPT !.created = job[w].counts[1],
                       !.updated = job[w].counts[2], !.removed = job[w].counts[3]]
  <2>1. /\ job[w] \in Job /\ Fits(runs, job[w]) /\ job[w].pc = "done"
        /\ runs' = [Closing(job[w].held, "expired") EXCEPT ![job[w].run] = new]
    <3>1. job[w] \in Job /\ Fits(runs, job[w])
      BY Standing
    <3>2. job[w].pc = "done"
      BY <1>6 DEF Commit, At
    <3>3. runs' = [Closing(job[w].held, "expired") EXCEPT ![job[w].run] = new]
      BY <1>6 DEF Commit
    <3> QED BY <3>1, <3>2, <3>3
  <2>2. job[w].run \in Runs /\ job[w].held \in SUBSET Runs /\ runs[job[w].run] \in Upload
        /\ runs[job[w].run].season = job[w].season
    <3>1. job[w].run \in Runs \union {0} /\ job[w].held \in SUBSET Runs
      BY <2>1 DEF Job
    <3>2. job[w].run \in Runs /\ runs[job[w].run].season = job[w].season
      BY <2>1, <3>1 DEF Fits, About, Importing
    <3> QED BY <3>1, <3>2, Standing
  <2>3. /\ new.created = job[w].counts[1] /\ new.updated = job[w].counts[2]
        /\ new.removed = job[w].counts[3]
    BY <2>2 DEF ClosedAs, Upload
  <2> HIDE DEF new
  <2>4. r = job[w].run
    <3>1. r # job[w].run => runs'[r] = Closing(job[w].held, "expired")[r]
      BY <2>1 DEF Closing
    <3> QED BY <2>2, <3>1, ClosingCloses DEF IsOpen
  <2>5. runs'[r] = new
    BY <2>1, <2>4 DEF Closing
  <2>6. job[w].counts = <<runs[r].created, runs[r].updated, runs[r].removed>>
    <3>1. job[w].counts = CountsIn(stats, job[w].season, runs[job[w].run].payload)
      BY <2>1 DEF AllTally, Tallies, Emptied
    <3> QED BY <2>2, <2>4, <3>1 DEF PreviewsTell
  <2> QED BY <2>3, <2>5, <2>6
<1>7. ASSUME NEW w \in Workers, Step(w)
      PROVE  /\ runs'[r].created = runs[r].created
             /\ runs'[r].updated = runs[r].updated
             /\ runs'[r].removed = runs[r].removed
  BY <1>2, <1>3, <1>4, <1>5, <1>6, <1>7
     DEF Step, Refuse, OpenPreview, FindStats, LockStats, Write, WriteFails, FindLeaving,
         DeleteLeaving, FindOthers, CloseOthers
<1> QED BY <1>2, <1>7, RequestBegins DEF Next, Raise, Crash, DeletePlayer, Tick, vars

\* The numbers a preview shows (created, updated and removed,
\* season_stats.py:364-409) are the numbers its import writes
\* (season_stats.py:493-555), when requests are handled one at a time and no
\* player is deleted.
THEOREM ThePreviewTellsTheNumbers == Instance /\ Alone => (Spec => [][NumbersHold]_vars)
<1> SUFFICES ASSUME Instance, Alone PROVE Spec => [][NumbersHold]_vars
  OBVIOUS
<1>1. Init => NumbersInv
  BY InitInv, InitFlows, InitNumbers DEF NumbersInv, FlowInv
<1>2. NumbersInv /\ [Next]_vars => NumbersInv'
  BY NextNumbers
<1>3. NumbersInv /\ [Next]_vars => [NumbersHold]_vars
  BY CommitWritesWhatWasTold
<1> QED BY <1>1, <1>2, <1>3, PTL DEF Spec

-----------------------------------------------------------------------------
(* The reading of a file, for any lines, names, players and bounds: each   *)
(* line lands in one list, and a match is never a guess.  The inductive    *)
(* invariant is what the lists hold at each step.                          *)

Parsed == {i \in Records : ParseRecord(file.lines[i], file.delimiter)}

\* The lines that can be read and whose key no other such line has.
Unrepeated == {i \in Parsed : \A j \in Parsed \ {i} : Key(i) # Key(j)}

Single == {r \in rows : Cardinality(Candidates(players, r)) = 1}

FileShape ==
  /\ file \in Files
  /\ players \in [OurPlayers -> [key : Keys, team : Teams \union {NoTeam}]]
  /\ step \in {"uploaded", "refused", "parsed", "read", "found", "matched"}

\* Up to the search for the players: only lines are sorted out.
OnlyLines == found = << >> /\ matched = {} /\ unmatched = {} /\ ambiguous = {}

\* Each line that was read has no candidate, one, or several.
SortedOut ==
  /\ rows = Unrepeated /\ problems = Records \ rows
  /\ unmatched = {r \in rows : Candidates(players, r) = {}}
  /\ DOMAIN found = Single
  /\ \A r \in Single : Candidates(players, r) = {found[r]}

Several == {r \in rows : Cardinality(Candidates(players, r)) > 1}

FileInv ==
  /\ FileShape
  /\ step \in {"uploaded", "refused"} => NothingYet
  /\ step = "parsed" => rows = Parsed /\ problems = Records \ rows /\ OnlyLines
  /\ step = "read" => rows = Unrepeated /\ problems = Records \ rows /\ OnlyLines
  /\ step = "found" => SortedOut /\ ambiguous = Several /\ matched = {}
  /\ step = "matched" => /\ SortedOut
                         /\ matched = Single \ Contested(found)
                         /\ ambiguous = Several \union Contested(found)

-----------------------------------------------------------------------------
(* Lemmas about the operators *)

\* There are finitely many lines, and candidates are some of our players.
LEMMA RecordsAreFinite == FileShape => IsFiniteSet(Records)
<1> SUFFICES ASSUME FileShape PROVE IsFiniteSet(Records)
  OBVIOUS
<1>1. PICK n \in 0..MaxLines : file.lines \in [1..n -> Lines]
  BY DEF FileShape, Files
<1>2. IsFiniteSet(1..Len(file.lines))
  BY FS_Interval
<1> QED BY <1>2, FS_Subset DEF Records

LEMMA DisjointUnion ==
  ASSUME NEW S, IsFiniteSet(S), NEW T, IsFiniteSet(T), S \intersect T = {}
  PROVE  /\ IsFiniteSet(S \union T)
         /\ Cardinality(S \union T) = Cardinality(S) + Cardinality(T)
<1>1. Cardinality(S \intersect T) = 0
  BY FS_EmptySet
<1> QED BY <1>1, FS_Union, FS_CardinalityType

LEMMA CandidatesAreOurs ==
  ASSUME FileConstants, NEW r
  PROVE  /\ Candidates(players, r) \subseteq OurPlayers
         /\ IsFiniteSet(Candidates(players, r))
         /\ Cardinality(Candidates(players, r)) \in Nat
         /\ Cardinality(Candidates(players, r)) = 0 <=> Candidates(players, r) = {}
<1>1. Candidates(players, r) \subseteq OurPlayers
  BY DEF Candidates, TieBroken, ByName, Named
<1>2. IsFiniteSet(Candidates(players, r))
  BY <1>1, FS_Subset DEF FileConstants
<1> QED BY <1>1, <1>2, FS_CardinalityType, FS_EmptySet

\* The one candidate that was found is all the candidates.
LEMMA OneCandidate ==
  ASSUME FileConstants, NEW r, Cardinality(Candidates(players, r)) = 1
  PROVE  Candidates(players, r) = {CHOOSE p \in Candidates(players, r) : TRUE}
<1>1. PICK p : Candidates(players, r) = {p}
  BY CandidatesAreOurs, FS_Singleton
<1> QED BY <1>1

-----------------------------------------------------------------------------
(* Every step keeps the invariant *)

LEMMA ParseKeeps == FileInv /\ Parse => FileInv'
<1> SUFFICES ASSUME FileInv, Parse PROVE FileInv'
  OBVIOUS
<1>1. Records' = Records /\ Parsed' = Parsed
  BY DEF Parse, Records, Parsed
<1>2. rows' = Parsed' /\ problems' = Records' \ rows'
  BY <1>1 DEF Parse, Parsed
<1>3. FileShape' /\ OnlyLines' /\ step' = "parsed"
  BY DEF FileInv, FileShape, Parse, NothingYet, OnlyLines
<1> QED BY <1>2, <1>3 DEF FileInv

LEMMA DropDuplicatesKeeps == FileInv /\ DropDuplicates => FileInv'
<1> SUFFICES ASSUME FileInv, DropDuplicates PROVE FileInv'
  OBVIOUS
<1>1. /\ Records' = Records /\ Parsed' = Parsed /\ Unrepeated' = Unrepeated
      /\ rows = Parsed /\ problems = Records \ rows
  BY DEF DropDuplicates, FileInv, Records, Parsed, Unrepeated, Key
<1>2. Unrepeated = rows \ Repeated /\ Repeated \subseteq rows /\ rows \subseteq Records
  BY <1>1 DEF Unrepeated, Repeated, Parsed
<1>3. rows' = Unrepeated' /\ problems' = Records' \ rows'
  BY <1>1, <1>2 DEF DropDuplicates
<1>4. FileShape' /\ OnlyLines' /\ step' = "read"
  BY DEF FileInv, FileShape, DropDuplicates, OnlyLines
<1> QED BY <1>3, <1>4 DEF FileInv

LEMMA FindPlayersKeeps == FileConstants /\ FileInv /\ FindPlayers => FileInv'
<1> SUFFICES ASSUME FileConstants, FileInv, FindPlayers PROVE FileInv'
  OBVIOUS
<1>1. /\ Records' = Records /\ Unrepeated' = Unrepeated /\ rows' = rows /\ problems' = problems
      /\ players' = players /\ file' = file /\ matched' = {} /\ step' = "found"
  BY DEF FindPlayers, FileInv, OnlyLines, Records, Parsed, Unrepeated, Key
<1>2. \A r : Candidates(players, r)' = Candidates(players, r)
  BY <1>1 DEF Candidates, TieBroken, ByName, Named, Key
<1>3. Single' = Single /\ Several' = Several
  BY <1>1, <1>2 DEF Single, Several
<1>4. /\ unmatched' = {r \in rows : Candidates(players, r) = {}}
      /\ found' = [r \in Single |-> CHOOSE p \in Candidates(players, r) : TRUE]
      /\ ambiguous' = Several
  <2> DEFINE candidates == [r \in rows |-> Candidates(players, r)]
             single == {r \in rows : Cardinality(candidates[r]) = 1}
  <2>1. /\ unmatched' = {r \in rows : candidates[r] = {}}
        /\ found' = [r \in single |-> CHOOSE p \in candidates[r] : TRUE]
        /\ ambiguous' = {r \in rows : Cardinality(candidates[r]) > 1}
    BY Zenon DEF FindPlayers
  <2>2. \A r \in rows : candidates[r] = Candidates(players, r)
    OBVIOUS
  <2> HIDE DEF candidates
  <2>3. single = Single
    BY <2>2 DEF Single
  <2>4. \A r \in Single : candidates[r] = Candidates(players, r)
    BY <2>2 DEF Single
  <2> QED BY <2>1, <2>2, <2>3, <2>4 DEF Several
<1>5. \A r \in Single : Candidates(players, r) = {found'[r]}
  BY <1>4, OneCandidate DEF Single
<1>6. rows = Unrepeated /\ problems = Records \ rows
  BY DEF FindPlayers, FileInv
<1>7. SortedOut'
  BY <1>1, <1>2, <1>3, <1>4, <1>5, <1>6 DEF SortedOut
<1>8. FileShape'
  BY DEF FileInv, FileShape, FindPlayers
<1> QED BY <1>1, <1>3, <1>4, <1>7, <1>8 DEF FileInv

LEMMA MatchRowsKeeps == FileInv /\ MatchRows => FileInv'
<1> SUFFICES ASSUME FileInv, MatchRows PROVE FileInv'
  OBVIOUS
<1>1. /\ Records' = Records /\ Unrepeated' = Unrepeated /\ rows' = rows /\ problems' = problems
      /\ players' = players /\ found' = found /\ unmatched' = unmatched /\ step' = "matched"
  BY DEF MatchRows, Records, Parsed, Unrepeated, Key
<1>2. \A r : Candidates(players, r)' = Candidates(players, r)
  BY DEF MatchRows, Candidates, TieBroken, ByName, Named, Key
<1>3. Single' = Single /\ Several' = Several /\ Contested(found)' = Contested(found)
  BY <1>1, <1>2 DEF Single, Several, Contested
<1>4. SortedOut /\ ambiguous = Several
  BY DEF MatchRows, FileInv
<1>5. SortedOut'
  BY <1>1, <1>2, <1>3, <1>4 DEF SortedOut
<1>6. matched' = Single' \ Contested(found)' /\ ambiguous' = Several' \union Contested(found)'
  BY <1>3, <1>4 DEF MatchRows, SortedOut
<1>7. FileShape'
  BY DEF FileInv, FileShape, MatchRows
<1> QED BY <1>1, <1>5, <1>6, <1>7 DEF FileInv

LEMMA FileInvHolds == FileConstants => (FileSpec => []FileInv)
<1> SUFFICES ASSUME FileConstants PROVE FileSpec => []FileInv
  OBVIOUS
<1>1. FileInit => FileInv
  BY DEF FileInit, FileInv, FileShape
<1>2. FileInv /\ [FileNext]_file_vars => FileInv'
  <2> SUFFICES ASSUME FileInv, [FileNext]_file_vars PROVE FileInv'
    OBVIOUS
  <2>1. CASE RefuseFile
    BY <2>1 DEF RefuseFile, FileInv, FileShape, NothingYet
  <2>2. CASE UNCHANGED file_vars
    <3>1. UNCHANGED <<Records, Parsed, Unrepeated, Single, Several, Contested(found), SortedOut>>
      <4>1. UNCHANGED <<file, players, rows, problems, found, unmatched>>
        BY <2>2 DEF file_vars
      <4>2. UNCHANGED <<Records, Parsed, Unrepeated>>
        BY <4>1 DEF Records, Parsed, Unrepeated, Key
      <4>3. \A r : Candidates(players, r)' = Candidates(players, r)
        BY <4>1 DEF Candidates, TieBroken, ByName, Named, Key
      <4>4. Single' = Single /\ Several' = Several
        BY <4>1, <4>3 DEF Single, Several
      <4>5. Contested(found)' = Contested(found)
        BY <4>1 DEF Contested
      <4>6. SortedOut' = SortedOut
        BY <4>1, <4>2, <4>3, <4>4 DEF SortedOut
      <4> QED BY <4>2, <4>4, <4>5, <4>6
    <3> QED BY <2>2, <3>1 DEF file_vars, FileInv, FileShape, NothingYet, OnlyLines
  <2> QED BY <2>1, <2>2, ParseKeeps, DropDuplicatesKeeps, FindPlayersKeeps, MatchRowsKeeps
          DEF FileNext
<1> QED BY <1>1, <1>2, PTL DEF FileSpec

-----------------------------------------------------------------------------
(* Every line in one list *)

LEMMA EachLine == FileConstants /\ FileInv => EachLineOnce
<1> SUFFICES ASSUME FileConstants, FileInv, step = "matched" PROVE EachLineOnce
  BY DEF EachLineOnce
<1> DEFINE C == Contested(found)
           rest == Single \ C
           many == Several \union C
<1>1. /\ SortedOut /\ matched = rest /\ ambiguous = many
      /\ rows \subseteq Records /\ problems = Records \ rows
      /\ C \subseteq Single
  BY DEF FileInv, SortedOut, Unrepeated, Parsed, Contested
<1>2. \A r \in rows : \/ r \in unmatched /\ r \notin Single /\ r \notin Several
                      \/ r \notin unmatched /\ r \in Single /\ r \notin Several
                      \/ r \notin unmatched /\ r \notin Single /\ r \in Several
  <2> SUFFICES ASSUME NEW r \in rows
               PROVE  \/ r \in unmatched /\ r \notin Single /\ r \notin Several
                      \/ r \notin unmatched /\ r \in Single /\ r \notin Several
                      \/ r \notin unmatched /\ r \notin Single /\ r \in Several
    OBVIOUS
  <2> DEFINE n == Cardinality(Candidates(players, r))
  <2>1. n \in Nat /\ (r \in unmatched <=> n = 0)
    BY <1>1, CandidatesAreOurs DEF SortedOut
  <2>2. (r \in Single <=> n = 1) /\ (r \in Several <=> n > 1)
    BY DEF Single, Several
  <2> HIDE DEF n
  <2> QED BY <2>1, <2>2
<1>3. Single \subseteq rows /\ Several \subseteq rows /\ unmatched \subseteq rows
  BY <1>1 DEF Single, Several, SortedOut
<1> HIDE DEF C
<1>4. /\ rest \union unmatched \union many \union problems = Records
      /\ rest \intersect unmatched = {}
      /\ (rest \union unmatched) \intersect many = {}
      /\ (rest \union unmatched \union many) \intersect problems = {}
  BY <1>1, <1>2, <1>3
<1>5. /\ IsFiniteSet(rest) /\ IsFiniteSet(unmatched) /\ IsFiniteSet(many)
      /\ IsFiniteSet(problems)
  BY <1>4, RecordsAreFinite, FS_Subset DEF FileInv
<1> HIDE DEF rest, many
<1>6. Cardinality(rest \union unmatched) = Cardinality(rest) + Cardinality(unmatched)
  BY <1>4, <1>5, DisjointUnion
<1>7. /\ IsFiniteSet(rest \union unmatched)
      /\ Cardinality((rest \union unmatched) \union many)
           = Cardinality(rest \union unmatched) + Cardinality(many)
  BY <1>4, <1>5, DisjointUnion
<1>8. /\ IsFiniteSet(rest \union unmatched \union many)
      /\ Cardinality((rest \union unmatched \union many) \union problems)
           = Cardinality(rest \union unmatched \union many) + Cardinality(problems)
  BY <1>4, <1>5, <1>7, DisjointUnion
<1>9. /\ Cardinality(rest) \in Nat /\ Cardinality(unmatched) \in Nat
      /\ Cardinality(many) \in Nat /\ Cardinality(problems) \in Nat
  BY <1>5, FS_CardinalityType
<1> QED BY <1>1, <1>4, <1>6, <1>7, <1>8, <1>9 DEF EachLineOnce

-----------------------------------------------------------------------------
(* Nothing is guessed *)

\* A candidate is of the name searched for, and the only one of two with it when
\* the team decides.
LEMMA OneOfTheName ==
  ASSUME FileConstants, NEW r, NEW p, Candidates(players, r) = {p},
         NEW q \in OurPlayers \ {p}, players[q].key = players[p].key
  PROVE  players[p].team = file.lines[r].team /\ players[q].team # file.lines[r].team
<1> DEFINE named == ByName(players, Key(r))
           there == {x \in named : players[x].team = file.lines[r].team}
<1>1. {p} = IF Cardinality(named) > 1 /\ there # {} THEN there ELSE named
  BY DEF Candidates, TieBroken
<1>2. p \in named /\ (p \in named => q \in named)
  BY <1>1 DEF ByName, Named
<1>3. {p} = there
  BY <1>1, <1>2
<1> QED BY <1>2, <1>3

LEMMA NoGuess == FileConstants /\ FileInv => NeverGuessed
<1> SUFFICES ASSUME FileConstants, FileInv, step = "matched", NEW r \in matched
             PROVE  LET p == found[r]
                        line == file.lines[r]
                        rivals == {q \in OurPlayers \ {p} : players[q].key = players[p].key}
                    IN /\ \A other \in DOMAIN found \ {r} : found[other] # p
                       /\ \A other \in Records \ {r} :
                            ParseRecord(file.lines[other], file.delimiter) => Key(other) # Key(r)
                       /\ rivals # {} => /\ players[p].team = line.team
                                         /\ \A q \in rivals : players[q].team # line.team
  BY DEF NeverGuessed
<1>1. /\ SortedOut /\ r \in Single /\ r \in DOMAIN found /\ r \notin Contested(found)
      /\ r \in Unrepeated
  BY DEF FileInv, SortedOut, Single
<1>2. \A other \in DOMAIN found \ {r} : found[other] # found[r]
  BY <1>1 DEF Contested
<1>3. \A other \in Records \ {r} :
        ParseRecord(file.lines[other], file.delimiter) => Key(other) # Key(r)
  BY <1>1 DEF Unrepeated, Parsed
<1>4. \A q \in OurPlayers \ {found[r]} : players[q].key = players[found[r]].key =>
        /\ players[found[r]].team = file.lines[r].team
        /\ players[q].team # file.lines[r].team
  BY <1>1, OneOfTheName DEF SortedOut
<1> QED BY <1>2, <1>3, <1>4

-----------------------------------------------------------------------------
(* A later respelling *)

LEMMA Respelling == FileConstants /\ FileInv => RespellingIsSafe
<1> SUFFICES ASSUME FileConstants, FileInv, step = "matched", NEW r \in matched,
                    players[found[r]].key = AliasOf[Key(r)]
             PROVE  Candidates([players EXCEPT ![found[r]].key = Key(r)], r) = {found[r]}
  BY DEF RespellingIsSafe
<1> DEFINE p == found[r]
           key == Key(r)
           renamed == [players EXCEPT ![p].key = key]
<1>1. /\ Candidates(players, r) = {p} /\ p \in OurPlayers
      /\ players \in [OurPlayers -> [key : Keys, team : Teams \union {NoTeam}]]
  BY CandidatesAreOurs DEF FileInv, FileShape, SortedOut, Single
<1> HIDE DEF p, key
<1>2. /\ DOMAIN renamed = OurPlayers
      /\ \A q \in OurPlayers : renamed[q].key = (IF q = p THEN key ELSE players[q].key)
      /\ \A q \in OurPlayers : renamed[q].team = players[q].team
  BY <1>1
<1> HIDE DEF renamed
<1>3. CASE Named(players, key) # {}
  <2>1. p \in Named(players, key)
    BY <1>1, <1>3 DEF Candidates, TieBroken, ByName, key
  <2>2. Named(renamed, key) = Named(players, key)
    BY <1>2, <2>1 DEF Named
  <2>3. Candidates(renamed, r) = Candidates(players, r)
    <3>1. ByName(renamed, key) = ByName(players, key) /\ ByName(players, key) \subseteq OurPlayers
      BY <1>3, <2>2 DEF ByName, Named
    <3>2. {q \in ByName(players, key) : renamed[q].team = file.lines[r].team}
            = {q \in ByName(players, key) : players[q].team = file.lines[r].team}
      BY <1>2, <3>1
    <3> QED BY <3>1, <3>2 DEF Candidates, TieBroken, key
  <2> QED BY <1>1, <2>3 DEF p, key, renamed
<1>4. CASE Named(players, key) = {}
  <2>1. Named(renamed, key) = {p}
    BY <1>1, <1>2, <1>4 DEF Named
  <2>2. ByName(renamed, key) = {p}
    BY <2>1 DEF ByName
  <2>3. Cardinality({p}) = 1
    BY FS_Singleton
  <2>4. Candidates(renamed, r) = {p}
    BY <2>2, <2>3 DEF Candidates, TieBroken, key
  <2> QED BY <2>4 DEF p, key, renamed
<1> QED BY <1>3, <1>4

\* "Nothing is ever guessed" (season_stats.py:290-340): whatever the file, each
\* of its lines is in exactly one list of the preview, a matched line is the only
\* one that can be the player's, and a player renamed to the file's spelling is
\* still found.
THEOREM NothingIsGuessed == FileConstants => (FileSpec => []LinesLandRight)
<1> SUFFICES ASSUME FileConstants PROVE FileSpec => []LinesLandRight
  OBVIOUS
<1>1. FileInv => LinesLandRight
  BY EachLine, NoGuess, Respelling DEF LinesLandRight
<1>2. FileSpec => []FileInv
  BY FileInvHolds
<1> QED BY <1>1, <1>2, PTL

-----------------------------------------------------------------------------
(* The points of a line *)

\* The sheet of a line that is not blank holds whole tenths.
LEMMA SheetsAreWhole ==
  ASSUME FileConstants, FileShape, NEW r \in Records
  PROVE  file.lines[r].sheet \in [Columns -> Int]
<1>1. PICK n \in 0..MaxLines : file.lines \in [1..n -> Lines]
  BY DEF FileShape, Files
<1>2. Len(file.lines) = n
  BY <1>1 DEF FileConstants
<1>3. file.lines[r] \in Lines
  BY <1>1, <1>2 DEF Records
<1> QED BY <1>3 DEF FileConstants

\* The formula of the site and the frozen copy, over any eleven whole numbers.
LEMMA PointsOfASheet ==
  ASSUME NEW sheet \in [Columns -> Int]
  PROVE  LET noAttempts == [sheet EXCEPT !.field_goals_attempted = sheet.field_goals_made,
                                         !.free_throws_attempted = sheet.free_throws_made]
         IN /\ GameFantasyPoints(sheet) = MigratedFantasyPoints(sheet)
            /\ GameFantasyPoints(sheet) <= GameFantasyPoints(noAttempts)
<1> DEFINE noAttempts == [sheet EXCEPT !.field_goals_attempted = sheet.field_goals_made,
                                       !.free_throws_attempted = sheet.free_throws_made]
<1>1. \A c \in Columns : sheet[c] \in Int
  OBVIOUS
<1>2. /\ noAttempts.field_goals_attempted = sheet.field_goals_made
      /\ noAttempts.free_throws_attempted = sheet.free_throws_made
      /\ \A c \in Columns \ {"field_goals_attempted", "free_throws_attempted"} :
           noAttempts[c] = sheet[c]
  BY DEF Columns
<1> HIDE DEF noAttempts
<1>3. GameFantasyPoints(sheet) = MigratedFantasyPoints(sheet)
  BY <1>1 DEF Columns, GameFantasyPoints, MigratedFantasyPoints, AtLeastZero
<1>4. GameFantasyPoints(sheet) <= GameFantasyPoints(noAttempts)
  BY <1>1, <1>2 DEF Columns, GameFantasyPoints, AtLeastZero
<1> QED BY <1>3, <1>4 DEF noAttempts

\* game_fantasy_points (season_stats.py:228-258) and the copy that migration 0015
\* froze give each row of a file the same points, and a shot that was missed never
\* adds any, whatever the rounded averages say.
THEOREM PointsAlwaysAgree == FileConstants => (FileSpec => []PointsAgree)
<1> SUFFICES ASSUME FileConstants PROVE FileSpec => []PointsAgree
  OBVIOUS
<1>1. FileInv => PointsAgree
  <2> SUFFICES ASSUME FileInv, step # "uploaded", NEW r \in rows
               PROVE  r \in Records
    BY SheetsAreWhole, PointsOfASheet DEF PointsAgree, FileInv
  <2> QED BY DEF FileInv, FileShape, NothingYet, SortedOut, Unrepeated, Parsed
<1>2. FileSpec => []FileInv
  BY FileInvHolds
<1> QED BY <1>1, <1>2, PTL
=============================================================================
