------------------------- MODULE SeasonStatsPromise -------------------------
(***************************************************************************)
(* What the season stats pages promise, with no workers and no locks: a    *)
(* preview is offered, then used once or closed; using it replaces the     *)
(* stats of its season, all of them, by the rows of that one file.         *)
(***************************************************************************)
EXTENDS FiniteSets

CONSTANTS Runs, Seasons, Players, NoRow, OldRow

VARIABLES
  status,              \* [Runs -> what became of each upload]
  season,              \* [Runs -> the season it is of]
  stats                \* [Seasons -> [Players -> the run whose row it is]]

Open == {r \in Runs : status[r] = "previewed"}

\* The rows of a season are those of one run.
ReplacedBy(r, s) ==
  /\ \A p \in Players : stats'[s][p] \in {r, NoRow}
  /\ \A t \in Seasons \ {s} : stats'[t] = stats[t]

PromiseInit ==
  /\ status = [r \in Runs |-> "absent"]
  /\ season \in [Runs -> Seasons]
  /\ stats \in [Seasons -> [Players -> Runs \union {NoRow, OldRow}]]

Offer ==
  \E r \in Runs, closing \in SUBSET Open :
    /\ status[r] = "absent"
    /\ status' = [q \in Runs |-> IF q = r THEN "previewed"
                                 ELSE IF q \in closing THEN "expired" ELSE status[q]]
    /\ \A q \in Runs \ {r} : season'[q] = season[q]
    /\ UNCHANGED stats

Close ==
  \E closing \in SUBSET Open, how \in {"expired", "discarded"} :
    /\ status' = [q \in Runs |-> IF q \in closing THEN how ELSE status[q]]
    /\ UNCHANGED <<season, stats>>

Use ==
  \E r \in Open, closing \in SUBSET Open :
    /\ \A q \in closing : season[q] = season[r]
    /\ status' = [q \in Runs |-> IF q = r THEN "imported"
                                 ELSE IF q \in closing THEN "expired" ELSE status[q]]
    /\ ReplacedBy(r, season[r])
    /\ UNCHANGED season

\* A failure leaves the stats alone.
Fail ==
  \E r \in Runs :
    /\ status[r] \in {"previewed", "expired"}
    /\ status' = [status EXCEPT ![r] = "failed"]
    /\ UNCHANGED <<season, stats>>

Vanish ==
  \E p \in Players :
    /\ stats' = [s \in Seasons |-> [stats[s] EXCEPT ![p] = NoRow]]
    /\ UNCHANGED <<status, season>>

PromiseNext == Offer \/ Close \/ Use \/ Fail \/ Vanish

PromiseSpec == PromiseInit /\ [][PromiseNext]_<<status, season, stats>>
=============================================================================
