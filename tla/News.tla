-------------------------------- MODULE News --------------------------------
(***************************************************************************)
(* RotoWire's player news (nba/rotowire.py): pulls of a feed that shows    *)
(* its newest items only, and the links from the items to our players.     *)
(*                                                                         *)
(* A pull fetches, then stores in one transaction, item by item; what it   *)
(* has written is in `ids` and `links` until it commits, and both are      *)
(* locks.  The players are read once, before the first item.               *)
(***************************************************************************)
EXTENDS Integers, FiniteSets

CONSTANTS
  Workers,
  Items,               \* RotoWire's numbers, in the order of publication
  Players, Names, Teams, Ids,
  NameOf,              \* [Players -> Names]
  Says,                \* what an item says: [id, name, team]
  NoId, NoPlayer, NoTeam,
  Window,              \* how many items the feed shows
  ByHand,              \* whether administrators link and number by hand
  MayFail,             \* whether requests fail and workers die
  MaxChanges           \* bound: how often players and links change otherwise

NewsConstants ==
  /\ IsFiniteSet(Items) /\ Items = 1..Cardinality(Items)
  /\ Window \in Nat \ {0} /\ MaxChanges \in Nat
  /\ NoPlayer \notin Players /\ NameOf \in [Players -> Names]
  /\ Says \in [Items -> [id : Ids \union {NoId}, name : Names, team : Teams]]

VARIABLES
  published,           \* how many items RotoWire has published
  player,              \* Player rows, as far as the news need them
  news,                \* PlayerNews rows
  logged,              \* the log says that some items may have been missed
  changes,
  pull                 \* each worker's pull

vars == <<published, player, news, logged, changes, pull>>

-----------------------------------------------------------------------------
\* A player not imported yet is one who is not active and has no number.
Player == [rotowire_id : Ids \union {NoId}, team : Teams \union {NoTeam}, is_active : BOOLEAN]

\* `by_hand` says that an administrator has set the link.
Item == [stored : BOOLEAN, player : Players \union {NoPlayer}, by_hand : BOOLEAN]
NotStored == [stored |-> FALSE, player |-> NoPlayer, by_hand |-> FALSE]

\* The feed as it is now.
Shown == {i \in Items : published - Window < i /\ i <= published}

\* `known` is PlayerMatcher: the players as it read them, and the numbers it
\* has remembered since.  `links` says of the rows written which player was
\* given to them, none when the link was left alone.
Idle == [pc |-> "idle", items |-> {}, todo |-> {}, had_news |-> FALSE, created |-> 0,
         known |-> [p \in {} |-> NoId], ids |-> [p \in {} |-> NoId],
         links |-> [i \in {} |-> NoPlayer]]

At(w, pc) == pull[w].pc = pc

With(f, x, y) == [z \in DOMAIN f \union {x} |-> IF z = x THEN y ELSE f[z]]

-----------------------------------------------------------------------------
(* PlayerMatcher *)

\* A slip: one who has another number is taken for the same person.
CandidatesByName(known, i) ==
  {p \in Players : known[p].is_active /\ NameOf[p] = Says[i].name}

Candidates(known, i) ==
  {p \in Players : known[p].is_active /\ NameOf[p] = Says[i].name /\ known[p].rotowire_id = NoId}

\* match: by number, else by name and team, else by the name alone; a name
\* that fits two links neither.
Match(known, i) ==
  LET carriers == {p \in Players : known[p].rotowire_id = Says[i].id /\ Says[i].id # NoId}
      same_team == {p \in Candidates(known, i) : known[p].team = Says[i].team}
      TheOnly(S) == CHOOSE p \in S : TRUE
  IN IF carriers # {} THEN TheOnly(carriers)
     ELSE IF Cardinality(same_team) = 1 THEN TheOnly(same_team)
     ELSE IF Cardinality(Candidates(known, i)) = 1 THEN TheOnly(Candidates(known, i))
     ELSE NoPlayer

\* _remember writes the number at once.
Remembers(known, i) ==
  /\ Match(known, i) # NoPlayer /\ Says[i].id # NoId
  /\ known[Match(known, i)].rotowire_id # Says[i].id

-----------------------------------------------------------------------------
(* A pull *)

Fetch(w) ==
  /\ At(w, "idle") /\ Shown # {}
  /\ pull' = [pull EXCEPT ![w] = [Idle EXCEPT !.pc = "fetched", !.items = Shown,
                                              !.had_news = \E i \in Items : news[i].stored]]
  /\ UNCHANGED <<published, player, news, logged, changes>>

ReadPlayers(w) ==
  /\ At(w, "fetched")
  /\ pull' = [pull EXCEPT ![w].pc = "storing", ![w].todo = pull[w].items, ![w].known = player]
  /\ UNCHANGED <<published, player, news, logged, changes>>

\* Give item i the player the matcher finds, his number remembered.  A number
\* somebody else has by now is a breach of the unique column, and ends the pull.
Link(w, i, written) ==
  LET known == pull[w].known
      p == Match(known, i)
  IN IF ~Remembers(known, i) THEN [written EXCEPT !.links = With(@, i, p)]
     ELSE IF \E q \in Players \ {p} : player[q].rotowire_id = Says[i].id THEN Idle
     ELSE [written EXCEPT !.links = With(@, i, p),
                          !.known[p].rotowire_id = Says[i].id,
                          !.ids = With(@, p, Says[i].id)]

\* Who has written item i, or the player it is about, or has given out the number
\* it names, and has not committed.
Blockers(w, i) ==
  LET known == pull[w].known
  IN {v \in Workers \ {w} :
        \/ i \in DOMAIN pull[v].links
        \/ /\ Remembers(known, i)
           /\ \/ Match(known, i) \in DOMAIN pull[v].ids
              \/ \E q \in DOMAIN pull[v].ids : pull[v].ids[q] = Says[i].id}

MayWrite(w, i) == Blockers(w, i) = {}

\* The item w is at, if it is to be written.
AtItem(w) ==
  {i \in pull[w].todo : /\ \A k \in pull[w].todo : k <= i
                        /\ At(w, "linking") => Match(pull[w].known, i) # NoPlayer}

InDeadlock(w) ==
  \E n \in 1..Cardinality(Workers) : \E f \in [1..n -> Workers] :
    /\ f[1] = w
    /\ \A k \in 1..n : \E i \in AtItem(f[k]) : f[IF k = n THEN 1 ELSE k + 1] \in Blockers(f[k], i)

\* The pull when item i is dealt with, counted if it is new.
Past(w, i) == [pull[w] EXCEPT !.todo = @ \ {i}]
Counting(w, i) == [Past(w, i) EXCEPT !.created = IF news[i].stored THEN @ ELSE @ + 1]

\* The items in the feed's order, the newest first.
StoreItem(w) ==
  \E i \in pull[w].todo :
    /\ At(w, "storing") /\ \A k \in pull[w].todo : k <= i /\ MayWrite(w, i)
    /\ pull' = [pull EXCEPT ![w] = Link(w, i, Counting(w, i))]
    /\ UNCHANGED <<published, player, news, logged, changes>>

\* A slip: what is stored already is not looked at again.
UnlinkedNone(w) == {}

\* The stored items without a player, those of this pull left out.
Unlinked(w) == {i \in Items \ pull[w].items : news[i].stored /\ news[i].player = NoPlayer}

FindUnlinked(w) ==
  /\ At(w, "storing") /\ pull[w].todo = {}
  /\ pull' = [pull EXCEPT ![w].pc = "linking", ![w].todo = Unlinked(w)]
  /\ UNCHANGED <<published, player, news, logged, changes>>

\* The row is written without another look at it.
Relink(w) ==
  \E i \in pull[w].todo :
    /\ At(w, "linking") /\ \A k \in pull[w].todo : k <= i
    /\ Match(pull[w].known, i) # NoPlayer => MayWrite(w, i)
    /\ pull' = [pull EXCEPT ![w] =
                  IF Match(pull[w].known, i) = NoPlayer THEN Past(w, i)
                  ELSE Link(w, i, Past(w, i))]
    /\ UNCHANGED <<published, player, news, logged, changes>>

\* "Never cleared here."
Linked(w, i) ==
  IF pull[w].links[i] = NoPlayer THEN [news[i] EXCEPT !.stored = TRUE]
  ELSE [stored |-> TRUE, player |-> pull[w].links[i], by_hand |-> FALSE]

\* A slip: only a pull that could match nothing is suspicious.
AllNewAndUnlinked(w) ==
  pull[w].had_news /\ \A i \in pull[w].items : pull[w].links[i] = NoPlayer

\* scheduled_rotowire_news_import: every item was new.
AllNew(w) == pull[w].had_news /\ pull[w].created = Cardinality(pull[w].items)

Commit(w) ==
  /\ At(w, "linking") /\ pull[w].todo = {}
  /\ news' = [i \in Items |-> IF i \in DOMAIN pull[w].links THEN Linked(w, i) ELSE news[i]]
  /\ player' = [p \in Players |->
       IF p \in DOMAIN pull[w].ids THEN [player[p] EXCEPT !.rotowire_id = pull[w].ids[p]]
       ELSE player[p]]
  /\ logged' = (logged \/ AllNew(w))
  /\ pull' = [pull EXCEPT ![w] = Idle]
  /\ UNCHANGED <<published, changes>>

\* An error, a worker killed, or the database choosing w as the victim of a
\* deadlock of pulls: all is rolled back.
Abort(w) ==
  /\ MayFail \/ InDeadlock(w)
  /\ ~At(w, "idle")
  /\ pull' = [pull EXCEPT ![w] = Idle]
  /\ UNCHANGED <<published, player, news, logged, changes>>

-----------------------------------------------------------------------------
(* Everybody else *)

Publish ==
  /\ published < Cardinality(Items)
  /\ published' = published + 1
  /\ UNCHANGED <<player, news, logged, changes, pull>>

Changing ==
  /\ changes < MaxChanges /\ changes' = changes + 1
  /\ UNCHANGED <<published, logged, pull>>

\* The player import adds a player, marks him inactive, or moves him.
ImportPlayer(p, team, active) ==
  /\ Changing /\ \A w \in Workers : p \notin DOMAIN pull[w].ids
  /\ player' = [player EXCEPT ![p].team = team, ![p].is_active = active]
  /\ player' # player
  /\ UNCHANGED news

\* The admin's pages of players and of news.
NumberByHand(p, id) ==
  /\ Changing /\ ByHand /\ \A w \in Workers : p \notin DOMAIN pull[w].ids
  /\ player[p].rotowire_id # id
  /\ id # NoId => \A q \in Players : player[q].rotowire_id # id
  /\ \A w \in Workers : \A q \in DOMAIN pull[w].ids : pull[w].ids[q] # id
  /\ player' = [player EXCEPT ![p].rotowire_id = id]
  /\ UNCHANGED news

LinkByHand(i, p) ==
  /\ Changing /\ ByHand /\ news[i].stored /\ \A w \in Workers : i \notin DOMAIN pull[w].links
  /\ news' = [news EXCEPT ![i] = [stored |-> TRUE, player |-> p, by_hand |-> TRUE]]
  /\ UNCHANGED player

-----------------------------------------------------------------------------
Init ==
  /\ published = 0 /\ changes = 0 /\ logged = FALSE
  /\ player \in [Players -> {[rotowire_id |-> NoId, team |-> t, is_active |-> a] :
                              t \in Teams, a \in BOOLEAN}]
  /\ news = [i \in Items |-> NotStored]
  /\ pull = [w \in Workers |-> Idle]

Pull(w) == Fetch(w) \/ ReadPlayers(w) \/ StoreItem(w) \/ FindUnlinked(w) \/ Relink(w) \/ Commit(w)

Next ==
  \/ \E w \in Workers : Pull(w) \/ Abort(w)
  \/ Publish
  \/ \E p \in Players :
       \/ \E t \in Teams \union {NoTeam}, a \in BOOLEAN : ImportPlayer(p, t, a)
       \/ \E id \in Ids \union {NoId} : NumberByHand(p, id)
       \/ \E i \in Items : LinkByHand(i, p)

Spec == Init /\ [][Next]_vars

\* The schedule pulls three times a day, a pull ends, and the database ends every
\* deadlock.
Fairness == \A w \in Workers : SF_vars(Pull(w)) /\ WF_vars(Abort(w) /\ InDeadlock(w))

-----------------------------------------------------------------------------
(* Properties *)

TypeOK ==
  /\ published \in 0..Cardinality(Items) /\ logged \in BOOLEAN /\ changes \in 0..MaxChanges
  /\ player \in [Players -> Player] /\ news \in [Items -> Item]
  /\ \A w \in Workers :
       /\ pull[w].created \in 0..Cardinality(pull[w].items)
       /\ DOMAIN pull[w].links \subseteq Items /\ DOMAIN pull[w].ids \subseteq Players

\* "No link beats a wrong one": an item that a pull has linked, and that names
\* its player by number, is linked to the one player who has the number.
LinksAgree ==
  \A i \in Items : news[i].player # NoPlayer /\ ~news[i].by_hand /\ Says[i].id # NoId =>
    \A p \in Players : (player[p].rotowire_id = Says[i].id) = (p = news[i].player)

\* A link, "set by hand in the admin" or not, "survives a pull that cannot match
\* the name": what a pull changes, it changes to another player.
LinksSurvive ==
  \A i \in Items : news[i].player # NoPlayer => news'[i].player # NoPlayer

\* "A pull in which every item is new may have missed some in between; that is
\* logged": whenever an older item has been missed, the log says so.
MissedIsLogged ==
  (\E i, j, k \in DOMAIN news : /\ i < j /\ j < k /\ ~news[j].stored
                                /\ news[i].stored /\ news[k].stored) => logged

\* "Items stored before their player was": this one could be linked now.
Linkable(i, p) ==
  /\ news[i].stored /\ news[i].player = NoPlayer
  /\ Says[i].id # NoId /\ player[p].rotowire_id = Says[i].id
=============================================================================
