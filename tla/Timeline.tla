------------------------------ MODULE Timeline ------------------------------
(***************************************************************************)
(* The roster timeline (fantasy/timeline.py): a roster's spells and trades *)
(* as the write layer leaves them, one request at a time, and the lanes    *)
(* the chart draws: one per place on the roster, cut wherever a trade      *)
(* swapped one player for the next.                                        *)
(***************************************************************************)
EXTENDS Integers, Sequences, FiniteSets, FiniteSetsExt

CONSTANTS
  Players, None,
  Seasons,              \* [signings_close_at, season_open_at], the former None if never
  ROSTER_SIZE,
  TotalFp,              \* [Players -> Seq(Nat)]: total_fp at each moment from 1 on
  LastInstant           \* bound

TimelineConstants ==
  /\ LastInstant \in Nat /\ ROSTER_SIZE \in Nat /\ None \notin Int
  /\ Seasons \subseteq [signings_close_at : Nat \union {None}, season_open_at : Nat]
  /\ \A p \in Players : TotalFp[p] \in Seq(Nat)

\* Of the data, not of the code: nobody's total falls.
TotalsGrow ==
  \A p \in Players : \A i \in 1..Len(TotalFp[p]) - 1 : TotalFp[p][i] <= TotalFp[p][i + 1]

VARIABLES
  now,
  season,
  spells,               \* RosterPlayer rows: player, added_at, removed_at
  trades                \* Transaction rows of trades: player_out, player_in, occurred_at

vars == <<now, season, spells, trades>>

-----------------------------------------------------------------------------
(* What the write layer does, each move at a moment of its own *)

IsOpen(i) == spells[i].removed_at = None
Squad == {spells[i].player : i \in {j \in DOMAIN spells : IsOpen(j)}}

\* transactions_allowed and trading_allowed, at the moment of the move.
TransactionsAllowed(t) == season.signings_close_at # None => t < season.signings_close_at
TradingAllowed(t) == season.signings_close_at # None => t >= season.season_open_at

Opened(p, t) == [player |-> p, added_at |-> t, removed_at |-> None]
Closed(p, t) == [i \in DOMAIN spells |-> IF spells[i].player = p /\ IsOpen(i)
                                         THEN [spells[i] EXCEPT !.removed_at = t] ELSE spells[i]]

Buy(p) ==
  /\ TransactionsAllowed(now') /\ p \notin Squad /\ Cardinality(Squad) < ROSTER_SIZE
  /\ spells' = Append(spells, Opened(p, now')) /\ UNCHANGED <<season, trades>>

Sell(p) ==
  /\ TransactionsAllowed(now') /\ p \in Squad
  /\ spells' = Closed(p, now') /\ UNCHANGED <<season, trades>>

Trade(out, in) ==
  /\ TradingAllowed(now') /\ out \in Squad /\ in \notin Squad
  /\ spells' = Append(Closed(out, now'), Opened(in, now'))
  /\ trades' = Append(trades, [player_out |-> out, player_in |-> in, occurred_at |-> now'])
  /\ UNCHANGED season

Init == now = 0 /\ season \in Seasons /\ spells = <<>> /\ trades = <<>>

Next ==
  /\ now < LastInstant /\ now' = now + 1
  /\ \/ \E p \in Players : Buy(p) \/ Sell(p)
     \/ \E out, in \in Players : Trade(out, in)
     \/ UNCHANGED <<season, spells, trades>>

Spec == Init /\ [][Next]_vars

-----------------------------------------------------------------------------
(* The chart *)

cutoff == IF season.signings_close_at = None THEN season.season_open_at ELSE season.signings_close_at

Latest(a, b) == IF a < b THEN b ELSE a

\* The spells drawn, by their place in `spells`: their creation, and their start.
Stints == {i \in DOMAIN spells : IsOpen(i) \/ spells[i].removed_at > cutoff}
Start(i) == Latest(spells[i].added_at, cutoff)
End(i) == spells[i].removed_at

Drawn == {n \in DOMAIN trades : trades[n].occurred_at > cutoff}

FirstOf(exact, near) == IF exact # {} THEN Min(exact) ELSE IF near # {} THEN Min(near) ELSE 0

Unlinked == [left |-> {}, came |-> {}, traded_for |-> [i \in DOMAIN spells |-> 0]]

\* One trade: the spell that left by it, and the one that came by it in its place.
\* The exact moment first, the nearest spell second.
Link(before, n) ==
  LET t == trades[n]
      leaving == {i \in Stints \ before.left : spells[i].player = t.player_out}
      out == FirstOf({i \in leaving : End(i) = t.occurred_at},
                     {i \in leaving : Start(i) < t.occurred_at
                                      /\ (IsOpen(i) \/ End(i) >= t.occurred_at)})
      arriving == {i \in Stints \ before.came : spells[i].player = t.player_in}
      in == FirstOf({i \in arriving : spells[i].added_at = t.occurred_at},
                    {i \in arriving : spells[i].added_at >= t.occurred_at})
  IN IF n \notin Drawn THEN before
     ELSE [left |-> before.left \union {out}, came |-> before.came \union {in},
           traded_for |-> [before.traded_for EXCEPT ![in] = out]]

\* _link_trades: for each spell the one it replaced, 0 for none.
Replaced ==
  LET linked[n \in 0..Len(trades)] == IF n = 0 THEN Unlinked ELSE Link(linked[n - 1], n)
  IN linked[Len(trades)].traded_for

\* A slip: a lane is free before the stint on it has ended.
FreeWhenLeaving(last, i) == {k \in DOMAIN last : ~IsOpen(last[k])}

Free(last, i) == {k \in DOMAIN last : ~IsOpen(last[k]) /\ End(last[k]) <= Start(i)}

\* One spell: its lane, and the last spell on each lane.
Place(before, n, replaced) ==
  LET fresh == Len(before.last) + 1
      free == Free(before.last, n)
      lane == IF replaced[n] # 0 THEN before.lane[replaced[n]]
              ELSE IF free # {} THEN Min(free) ELSE fresh
  IN IF n \notin Stints THEN [before EXCEPT !.lane = Append(@, 0)]
     ELSE [lane |-> Append(before.lane, lane),
           last |-> IF lane = fresh THEN Append(before.last, n)
                    ELSE [before.last EXCEPT ![lane] = n]]

\* _assign_lanes.
Assigned ==
  LET replaced == Replaced
      assigned[n \in 0..Len(spells)] ==
        IF n = 0 THEN [lane |-> <<>>, last |-> <<>>] ELSE Place(assigned[n - 1], n, replaced)
  IN assigned[Len(spells)]

\* total_at: the newest snapshot up to a moment, None before the first.
TotalAt(p, moment) ==
  LET read == {i \in DOMAIN TotalFp[p] : i <= moment}
  IN IF read = {} THEN None ELSE TotalFp[p][Max(read)]

\* _add_points, from a total at arrival to one at the end; unknown without a
\* snapshot before an arrival in the season.
Scored(i, after) ==
  LET before == TotalAt(spells[i].player, Start(i))
      from == IF before = None THEN 0 ELSE before
  IN IF after = None \/ (before = None /\ Start(i) > season.season_open_at) THEN None
     ELSE Latest(0, after - from)

\* A slip: what a player scores after he has left counts as well.
PointsToDate(i) == Scored(i, TotalAt(spells[i].player, now))

Points(i) == Scored(i, TotalAt(spells[i].player, IF IsOpen(i) THEN now ELSE End(i)))

-----------------------------------------------------------------------------
Apart(i, j) == (~IsOpen(i) /\ End(i) <= Start(j)) \/ (~IsOpen(j) /\ End(j) <= Start(i))

\* There are no more lanes than places on the roster, no two players are on one
\* lane at a time, and a trade goes on in the lane of the player it gave away.
LanesHold ==
  LET assigned == Assigned
  IN now >= cutoff =>
       /\ Len(assigned.last) <= ROSTER_SIZE
       /\ \A i, j \in Stints : i < j /\ assigned.lane[i] = assigned.lane[j] => Apart(i, j)
       /\ \A n \in Drawn : \E i, j \in Stints :
            /\ spells[i].player = trades[n].player_out /\ spells[j].player = trades[n].player_in
            /\ End(i) = trades[n].occurred_at /\ Start(j) = End(i)
            /\ assigned.lane[i] = assigned.lane[j]

\* Nobody scores the same points for a roster twice: a player's spells together
\* have at most what he scored since the chart begins.
PointsCountedOnce ==
  now >= cutoff =>
    \A p \in Players :
      LET known == {i \in Stints : spells[i].player = p /\ Points(i) # None}
          from == TotalAt(p, cutoff)
      IN known # {} =>
           MapThenSumSet(Points, known) <= TotalAt(p, now) - (IF from = None THEN 0 ELSE from)
=============================================================================
