------------------------------ MODULE NewsProofs ------------------------------
(***************************************************************************)
(* Proofs about the features that a provider feeds, the pulls of           *)
(* RotoWire's news and the injury report, for any players, items, entries, *)
(* windows and numbers of changes: no link is lost, and nobody is declared *)
(* healthy unseen; and as long as they do not overlap, what a pull may     *)
(* have missed is logged, a number links to one player, and an update      *)
(* leaves every player as its feed says.                                   *)
(***************************************************************************)
EXTENDS News, Sequences, FiniteSetTheorems, WellFoundedInduction, TLAPS

\* One pull at a time.
OneAtATime == \A v, w \in Workers : v = w

-----------------------------------------------------------------------------
(* Types *)

Knowledge == UNION {[D -> Player] : D \in SUBSET Players}
Numbers == UNION {[D -> Ids \union {NoId}] : D \in SUBSET Players}
Links == UNION {[D -> Players \union {NoPlayer}] : D \in SUBSET Items}

PullRecord ==
  [pc : {"idle", "fetched", "storing", "linking"}, items : SUBSET Items, todo : SUBSET Items,
   had_news : BOOLEAN, created : Nat, known : Knowledge, ids : Numbers, links : Links]

Shape ==
  /\ published \in Nat /\ logged \in BOOLEAN
  /\ player \in [Players -> Player] /\ news \in [Items -> Item]
  /\ pull \in [Workers -> PullRecord]

\* A pull that stores knows all players.
AllKnown(j) == j.pc \in {"storing", "linking"} => j.known \in [Players -> Player]

NewsShape == Shape /\ \A w \in Workers : AllKnown(pull[w])

-----------------------------------------------------------------------------
(* Lemmas about the operators *)

LEMMA WithIsALink ==
  ASSUME NEW f \in Links, NEW x \in Items, NEW y \in Players \union {NoPlayer}
  PROVE  With(f, x, y) \in Links
<1>1. PICK D \in SUBSET Items : f \in [D -> Players \union {NoPlayer}]
  BY DEF Links
<1>2. With(f, x, y) \in [D \union {x} -> Players \union {NoPlayer}]
  BY <1>1 DEF With
<1> QED BY <1>2 DEF Links

LEMMA WithIsANumber ==
  ASSUME NEW f \in Numbers, NEW x \in Players, NEW y \in Ids \union {NoId}
  PROVE  With(f, x, y) \in Numbers
<1>1. PICK D \in SUBSET Players : f \in [D -> Ids \union {NoId}]
  BY DEF Numbers
<1>2. With(f, x, y) \in [D \union {x} -> Ids \union {NoId}]
  BY <1>1 DEF With
<1> QED BY <1>2 DEF Numbers

\* The matcher finds the one who carries the number, or somebody without one when
\* nobody carries it.
LEMMA MatchFinds ==
  ASSUME NEW known, NEW i, Match(known, i) # NoPlayer
  PROVE  /\ Match(known, i) \in Players
         /\ \/ /\ Says[i].id # NoId
               /\ known[Match(known, i)].rotowire_id = Says[i].id
            \/ /\ known[Match(known, i)].rotowire_id = NoId
               /\ \A p \in Players : known[p].rotowire_id = Says[i].id => Says[i].id = NoId
<1> DEFINE carriers == {p \in Players : known[p].rotowire_id = Says[i].id /\ Says[i].id # NoId}
           same_team == {p \in Candidates(known, i) : known[p].team = Says[i].team}
           m == Match(known, i)
<1>1. CASE carriers # {}
  <2>1. m = CHOOSE p \in carriers : TRUE
    BY <1>1 DEF Match
  <2>2. m \in carriers
    BY <1>1, <2>1
  <2> QED BY <2>2
<1>2. CASE carriers = {}
  <2>1. m \in same_team \/ m \in Candidates(known, i)
    <3>1. \A S : Cardinality(S) = 1 => (CHOOSE p \in S : TRUE) \in S
      BY FS_EmptySet
    <3>2. \/ /\ Cardinality(same_team) = 1 /\ m = CHOOSE p \in same_team : TRUE
          \/ /\ Cardinality(Candidates(known, i)) = 1
             /\ m = CHOOSE p \in Candidates(known, i) : TRUE
      BY <1>2 DEF Match
    <3> HIDE DEF m, same_team
    <3> QED BY <3>1, <3>2
  <2>2. m \in Candidates(known, i)
    BY <2>1
  <2> QED BY <1>2, <2>2 DEF Candidates
<1> QED BY <1>1, <1>2
\* What a row's link adds to the pull: the item's player, and his number when it
\* is new.
LinkedTo(w, i, j, k) ==
  LET known == pull[w].known
      p == Match(known, i)
  IN /\ k \in PullRecord /\ k.known \in [Players -> Player]
     /\ k.pc = j.pc /\ k.items = j.items /\ k.todo = j.todo
     /\ k.had_news = j.had_news /\ k.created = j.created
     /\ DOMAIN k.links = DOMAIN j.links \union {i}
     /\ k.links[i] = p
     /\ \A x \in DOMAIN j.links \ {i} : k.links[x] = j.links[x]
     /\ IF Remembers(known, i)
        THEN /\ \A q \in Players : k.known[q].rotowire_id =
                   IF q = p THEN Says[i].id ELSE known[q].rotowire_id
             /\ k.ids = With(j.ids, p, Says[i].id)
        ELSE k.known = known /\ k.ids = j.ids

LEMMA LinkAdds ==
  ASSUME NewsConstants, NEW w \in Workers, pull[w].known \in [Players -> Player],
         NEW i \in Items, NEW j \in PullRecord, j.known = pull[w].known
  PROVE  Link(w, i, j) = Idle \/ LinkedTo(w, i, j, Link(w, i, j))
<1> DEFINE known == pull[w].known
           p == Match(known, i)
           id == Says[i].id
           k == Link(w, i, j)
<1>1. /\ p \in Players \union {NoPlayer} /\ id \in Ids \union {NoId}
      /\ j.links \in Links /\ j.ids \in Numbers
  BY MatchFinds DEF NewsConstants, PullRecord
<1>2. /\ With(j.links, i, p) \in Links
      /\ DOMAIN With(j.links, i, p) = DOMAIN j.links \union {i}
      /\ With(j.links, i, p)[i] = p
      /\ \A x \in DOMAIN j.links \ {i} : With(j.links, i, p)[x] = j.links[x]
  <2> HIDE DEF p
  <2>1. With(j.links, i, p) \in Links
    BY <1>1, WithIsALink
  <2> QED BY <2>1 DEF With
<1>3. CASE ~Remembers(known, i)
  <2>1. k = [j EXCEPT !.links = With(@, i, p)]
    BY <1>3 DEF Link
  <2>2. /\ k \in PullRecord /\ k.known = known /\ k.links = With(j.links, i, p)
        /\ k.pc = j.pc /\ k.items = j.items /\ k.todo = j.todo
        /\ k.had_news = j.had_news /\ k.created = j.created /\ k.ids = j.ids
    BY <1>2, <2>1 DEF PullRecord
  <2> HIDE DEF k, p
  <2> QED BY <1>2, <1>3, <2>2 DEF LinkedTo, k, p
<1>4. CASE Remembers(known, i) /\ k # Idle
  <2>1. k = [j EXCEPT !.links = With(@, i, p), !.known[p].rotowire_id = id,
                      !.ids = With(@, p, id)]
    BY <1>4 DEF Link
  <2>2. p \in Players
    BY <1>1, <1>4 DEF Remembers
  <2> DEFINE learnt == [known EXCEPT ![p].rotowire_id = id]
  <2>3. /\ learnt \in [Players -> Player]
        /\ \A q \in Players : learnt[q].rotowire_id = IF q = p THEN id ELSE known[q].rotowire_id
    BY <1>1, <2>2 DEF Player
  <2>4. learnt \in Knowledge /\ With(j.ids, p, id) \in Numbers
    BY <1>1, <2>2, <2>3, WithIsANumber DEF Knowledge
  <2>5. k = [j EXCEPT !.links = With(j.links, i, p), !.known = learnt, !.ids = With(j.ids, p, id)]
    BY <2>1 DEF PullRecord
  <2> HIDE DEF learnt, k, p, id
  <2>6. /\ k \in PullRecord /\ k.known = learnt /\ k.links = With(j.links, i, p)
        /\ k.pc = j.pc /\ k.items = j.items /\ k.todo = j.todo
        /\ k.had_news = j.had_news /\ k.created = j.created /\ k.ids = With(j.ids, p, id)
    BY <1>2, <2>4, <2>5 DEF PullRecord
  <2> QED BY <1>2, <1>4, <2>3, <2>6 DEF LinkedTo, k, p, id
<1> QED BY <1>3, <1>4

-----------------------------------------------------------------------------
(* A worker between two pulls *)

LEMMA IdleIsARecord == Idle \in PullRecord /\ Idle.pc = "idle"
<1>1. /\ [p \in {} |-> NoId] \in [{} -> Player]
      /\ [p \in {} |-> NoId] \in [{} -> Ids \union {NoId}]
      /\ [i \in {} |-> NoPlayer] \in [{} -> Players \union {NoPlayer}]
  OBVIOUS
<1>2. {} \in SUBSET Players /\ {} \in SUBSET Items
  OBVIOUS
<1>3. [p \in {} |-> NoId] \in Knowledge
  BY <1>1, <1>2 DEF Knowledge
<1>4. [p \in {} |-> NoId] \in Numbers
  BY <1>1, <1>2 DEF Numbers
<1>5. [i \in {} |-> NoPlayer] \in Links
  BY <1>1, <1>2 DEF Links
<1> QED BY <1>3, <1>4, <1>5 DEF Idle, PullRecord

-----------------------------------------------------------------------------
(* The inductive invariant: what has been stored, and what a pull has seen *)

Stored == {i \in Items : news[i].stored}

\* Nothing is left out between two of these.
Whole(S) == \A i, k \in S, j \in Items : i < j /\ j < k => j \in S

\* The fetched items a pull has dealt with.
Done(j) == IF j.pc = "storing" THEN j.items \ j.todo ELSE j.items

\* A pull has written the items it has dealt with, and has counted those that
\* were not stored when it began.
Counted(j) ==
  /\ j.pc # "idle" => Whole(j.items) /\ (j.had_news <=> Stored # {})
  /\ j.pc = "fetched" => DOMAIN j.links = {} /\ DOMAIN j.ids = {} /\ j.created = 0
  /\ j.pc \in {"storing", "linking"} =>
       /\ Done(j) \subseteq DOMAIN j.links
       /\ DOMAIN j.links \subseteq Done(j) \union Stored
       /\ j.created = Cardinality(Done(j) \ Stored)
  /\ j.pc = "storing" => j.todo \subseteq j.items
  /\ j.pc = "linking" => j.todo \subseteq Stored

StoredInv ==
  /\ NewsShape
  /\ ~logged => Whole(Stored)
  /\ \A w \in Workers : Counted(pull[w])

\* Numbers are unique.
Unique(known) ==
  \A p, q \in Players :
    known[p].rotowire_id = known[q].rotowire_id /\ known[p].rotowire_id # NoId => p = q

\* What a pull knows is what is stored and what it has written; it takes no number
\* away, and its links carry the numbers of their items.
Learns(j) ==
  j.pc \in {"storing", "linking"} =>
    /\ \A p \in Players : /\ j.known[p].rotowire_id =
                               IF p \in DOMAIN j.ids THEN j.ids[p] ELSE player[p].rotowire_id
                          /\ player[p].rotowire_id # NoId =>
                               j.known[p].rotowire_id = player[p].rotowire_id
    /\ Unique(j.known)
    /\ \A i \in DOMAIN j.links : j.links[i] # NoPlayer /\ Says[i].id # NoId =>
         j.known[j.links[i]].rotowire_id = Says[i].id

NumbersInv ==
  /\ Unique(player)
  /\ \A i \in Items : news[i].player # NoPlayer /\ Says[i].id # NoId =>
       player[news[i].player].rotowire_id = Says[i].id
  /\ \A w \in Workers : Learns(pull[w])

-----------------------------------------------------------------------------
(* The steps of a pull up to its commit *)

\* A step that changes a pull only.
LEMMA PullStep ==
  ASSUME OneAtATime, StoredInv, NEW w \in Workers, NEW k \in PullRecord,
         AllKnown(k), Counted(k),
         pull' = [pull EXCEPT ![w] = k], UNCHANGED <<published, player, news, logged>>
  PROVE  StoredInv' /\ (NumbersInv /\ Learns(k) => NumbersInv')
<1>1. pull' \in [Workers -> PullRecord] /\ \A v \in Workers : pull'[v] = k
  BY DEF StoredInv, NewsShape, Shape, OneAtATime
<1>2. Shape' /\ \A v \in Workers : AllKnown(pull[v])'
  BY <1>1 DEF StoredInv, NewsShape, Shape, AllKnown
<1>3. Stored' = Stored
  BY DEF Stored
<1>4. \A v \in Workers : Counted(pull[v])'
  BY <1>1, <1>3 DEF Counted, Whole, Done
<1>5. StoredInv'
  BY <1>2, <1>3, <1>4 DEF StoredInv, NewsShape, Whole
<1>6. ASSUME NumbersInv, Learns(k) PROVE NumbersInv'
  <2>1. \A v \in Workers : Learns(pull[v])'
    BY <1>1, <1>6 DEF Learns
  <2> QED BY <1>6, <2>1 DEF NumbersInv, Unique
<1> QED BY <1>5, <1>6

LEMMA IdleFits == AllKnown(Idle) /\ Counted(Idle) /\ Learns(Idle)
  BY DEF Idle, AllKnown, Counted, Learns

LEMMA GoneIdle ==
  ASSUME OneAtATime, StoredInv, NEW w \in Workers,
         pull' = [pull EXCEPT ![w] = Idle], UNCHANGED <<published, player, news, logged>>
  PROVE  StoredInv' /\ (NumbersInv => NumbersInv')
  BY PullStep, IdleFits, IdleIsARecord

LEMMA FetchKeeps ==
  ASSUME NewsConstants, OneAtATime, StoredInv, NEW w \in Workers, Fetch(w)
  PROVE  StoredInv' /\ (NumbersInv => NumbersInv')
<1> DEFINE had == \E i \in Items : news[i].stored
           k == [Idle EXCEPT !.pc = "fetched", !.items = Shown, !.had_news = had]
<1>1. /\ k \in PullRecord /\ k.pc = "fetched" /\ k.items = Shown /\ k.had_news = had
      /\ k.links = Idle.links /\ k.ids = Idle.ids /\ k.created = 0
  <2>1. Shown \in SUBSET Items /\ had \in BOOLEAN
    BY DEF Shown
  <2> HIDE DEF had
  <2>2. Idle.created = 0
    BY DEF Idle
  <2> QED BY <2>1, <2>2, IdleIsARecord DEF PullRecord
<1>2. DOMAIN Idle.links = {} /\ DOMAIN Idle.ids = {}
  BY DEF Idle
<1>3. Whole(Shown)
  <2>1. /\ Items = 1..Cardinality(Items) /\ Cardinality(Items) \in Nat
        /\ published \in Nat /\ Window \in Nat
    BY FS_CardinalityType DEF NewsConstants, StoredInv, NewsShape, Shape
  <2> QED BY <2>1 DEF Whole, Shown
<1>4. had <=> Stored # {}
  BY DEF Stored
<1>5. pull' = [pull EXCEPT ![w] = k] /\ UNCHANGED <<published, player, news, logged>>
  BY DEF Fetch
<1> HIDE DEF k, had
<1>6. AllKnown(k) /\ Counted(k) /\ Learns(k)
  BY <1>1, <1>2, <1>3, <1>4 DEF AllKnown, Counted, Learns
<1> QED BY <1>1, <1>5, <1>6, PullStep

LEMMA ReadPlayersKeeps ==
  ASSUME OneAtATime, StoredInv, NEW w \in Workers, ReadPlayers(w)
  PROVE  StoredInv' /\ (NumbersInv => NumbersInv')
<1> DEFINE j == pull[w]
           k == [j EXCEPT !.pc = "storing", !.todo = j.items, !.known = player]
<1>1. j \in PullRecord /\ Counted(j) /\ j.pc = "fetched" /\ player \in [Players -> Player]
  BY DEF StoredInv, NewsShape, Shape, ReadPlayers, At
<1>2. pull' = [pull EXCEPT ![w] = k] /\ UNCHANGED <<published, player, news, logged>>
  BY DEF ReadPlayers
<1> HIDE DEF j
<1>3. player \in Knowledge
  BY <1>1 DEF Knowledge
<1>4. /\ k \in PullRecord /\ k.pc = "storing" /\ k.items = j.items /\ k.todo = j.items
      /\ k.known = player /\ k.links = j.links /\ k.ids = j.ids /\ k.created = j.created
      /\ k.had_news = j.had_news
  BY <1>1, <1>3 DEF PullRecord
<1> HIDE DEF k
<1>5. AllKnown(k)
  BY <1>1, <1>4 DEF AllKnown
<1>6. Counted(k)
  <2>1. Done(k) = {} /\ Cardinality({}) = 0
    BY <1>4, FS_EmptySet DEF Done
  <2>2. Done(k) \ Stored = {}
    BY <2>1
  <2> QED BY <1>1, <1>4, <2>1, <2>2 DEF Counted
<1>7. NumbersInv => Learns(k)
  BY <1>1, <1>4 DEF NumbersInv, Learns, Counted
<1> QED BY <1>2, <1>4, <1>5, <1>6, <1>7, PullStep
\* The link of one more item keeps what is known in order.
LEMMA LinkLearns ==
  ASSUME NEW w \in Workers, pull[w] \in PullRecord, Learns(pull[w]),
         pull[w].known \in [Players -> Player], pull[w].pc \in {"storing", "linking"},
         NEW i \in Items, NEW j \in PullRecord, j.known = pull[w].known,
         j.ids = pull[w].ids, j.links = pull[w].links, j.pc = pull[w].pc,
         NEW k, LinkedTo(w, i, j, k)
  PROVE  Learns(k)
<1> DEFINE known == pull[w].known
           m == Match(known, i)
<1>1. /\ \A p \in Players : /\ known[p].rotowire_id =
                                 IF p \in DOMAIN j.ids THEN j.ids[p] ELSE player[p].rotowire_id
                            /\ player[p].rotowire_id # NoId =>
                                 known[p].rotowire_id = player[p].rotowire_id
      /\ Unique(known)
      /\ \A x \in DOMAIN j.links : j.links[x] # NoPlayer /\ Says[x].id # NoId =>
           known[j.links[x]].rotowire_id = Says[x].id
  BY DEF Learns
<1>2. /\ DOMAIN k.links = DOMAIN j.links \union {i} /\ k.links[i] = m
      /\ \A x \in DOMAIN j.links \ {i} : k.links[x] = j.links[x]
  BY DEF LinkedTo
<1>3. CASE ~Remembers(known, i)
  <2>1. k.known = known /\ k.ids = j.ids
    BY <1>3 DEF LinkedTo
  <2>2. m # NoPlayer /\ Says[i].id # NoId => known[m].rotowire_id = Says[i].id
    BY <1>3 DEF Remembers
  <2> HIDE DEF known, m
  <2> QED BY <1>1, <1>2, <2>1, <2>2 DEF Learns
<1>4. CASE Remembers(known, i)
  <2>1. /\ m # NoPlayer /\ Says[i].id # NoId
        /\ m \in Players /\ known[m].rotowire_id = NoId
        /\ \A p \in Players : known[p].rotowire_id # Says[i].id
    BY <1>4, MatchFinds DEF Remembers
  <2>2. /\ \A q \in Players : k.known[q].rotowire_id =
             IF q = m THEN Says[i].id ELSE known[q].rotowire_id
        /\ k.ids = With(j.ids, m, Says[i].id)
    BY <1>4 DEF LinkedTo
  <2>3. /\ DOMAIN k.ids = DOMAIN j.ids \union {m}
        /\ \A q \in DOMAIN k.ids : k.ids[q] = IF q = m THEN Says[i].id ELSE j.ids[q]
    BY <2>2 DEF With
  <2> HIDE DEF known, m
  <2>4. \A p \in Players : /\ k.known[p].rotowire_id =
                                IF p \in DOMAIN k.ids THEN k.ids[p] ELSE player[p].rotowire_id
                           /\ player[p].rotowire_id # NoId =>
                                k.known[p].rotowire_id = player[p].rotowire_id
    BY <1>1, <2>1, <2>2, <2>3
  <2>5. Unique(k.known)
    BY <1>1, <2>1, <2>2 DEF Unique
  <2>6. ASSUME NEW x \in DOMAIN k.links, k.links[x] # NoPlayer, Says[x].id # NoId
        PROVE  k.known[k.links[x]].rotowire_id = Says[x].id
    <3>1. CASE x = i
      BY <1>2, <2>1, <2>2, <3>1
    <3>2. CASE x # i
      <4>1. x \in DOMAIN j.links /\ k.links[x] = j.links[x]
        BY <1>2, <3>2
      <4>2. known[k.links[x]].rotowire_id = Says[x].id
        BY <1>1, <2>6, <4>1
      <4>3. k.links[x] \in Players
        <5>1. j.links \in Links
          BY DEF PullRecord
        <5> QED BY <2>6, <4>1, <5>1 DEF Links
      <4> QED BY <2>1, <2>2, <2>6, <4>2, <4>3
    <3> QED BY <3>1, <3>2
  <2> QED BY <2>4, <2>5, <2>6 DEF Learns
<1> QED BY <1>3, <1>4

LEMMA StoreItemKeeps ==
  ASSUME NewsConstants, OneAtATime, StoredInv, NEW w \in Workers, StoreItem(w)
  PROVE  StoredInv' /\ (NumbersInv => NumbersInv')
<1>1. PICK i \in pull[w].todo :
        /\ At(w, "storing")
        /\ pull' = [pull EXCEPT ![w] = Link(w, i, Counting(w, i))]
        /\ UNCHANGED <<published, player, news, logged, changes>>
  BY DEF StoreItem
<1> DEFINE o == pull[w]
           count == IF news[i].stored THEN o.created ELSE o.created + 1
           j == Counting(w, i)
           k == Link(w, i, j)
<1>2. /\ o \in PullRecord /\ o.pc = "storing" /\ Counted(o) /\ i \in o.todo /\ i \in Items
      /\ o.known \in [Players -> Player] /\ o.created \in Nat
  BY <1>1 DEF StoredInv, NewsShape, Shape, AllKnown, At, PullRecord
<1>3. pull' = [pull EXCEPT ![w] = k]
  BY <1>1
<1>4. count \in Nat /\ j = [o EXCEPT !.todo = o.todo \ {i}, !.created = count]
  BY <1>2 DEF Counting, Past, PullRecord
<1> HIDE DEF o, count, j
<1>5. /\ j \in PullRecord /\ j.pc = o.pc /\ j.items = o.items /\ j.todo = o.todo \ {i}
      /\ j.known = o.known /\ j.ids = o.ids /\ j.links = o.links /\ j.had_news = o.had_news
      /\ j.created = count
  BY <1>2, <1>4 DEF PullRecord
<1> HIDE DEF k
<1>6. k = Idle \/ LinkedTo(w, i, j, k)
  BY <1>2, <1>5, LinkAdds DEF k, o
<1>7. CASE k = Idle
  BY <1>1, <1>3, <1>7, GoneIdle
<1>8. CASE LinkedTo(w, i, j, k)
  <2>1. /\ k \in PullRecord /\ AllKnown(k) /\ k.pc = "storing" /\ k.items = o.items
        /\ k.todo = o.todo \ {i} /\ k.had_news = o.had_news /\ k.created = count
        /\ DOMAIN k.links = DOMAIN o.links \union {i}
    BY <1>2, <1>5, <1>8 DEF LinkedTo, AllKnown
  <2>2. /\ Done(k) = Done(o) \union {i} /\ i \notin Done(o)
        /\ Done(o) \subseteq Items
    BY <1>2, <2>1 DEF Done, Counted, PullRecord
  <2>3. count = Cardinality(Done(k) \ Stored)
    <3>1. IsFiniteSet(Done(o) \ Stored) /\ o.created = Cardinality(Done(o) \ Stored)
      BY <1>2, <2>2, FS_Subset DEF NewsConstants, Counted
    <3>2. CASE i \in Stored
      BY <2>2, <3>1, <3>2 DEF count, Stored
    <3>3. CASE i \notin Stored
      <4>1. Done(k) \ Stored = (Done(o) \ Stored) \union {i} /\ i \notin Done(o) \ Stored
        BY <2>2, <3>3
      <4>2. count = o.created + 1
        BY <1>2, <3>3 DEF count, Stored
      <4> QED BY <3>1, <4>1, <4>2, FS_AddElement
    <3> QED BY <3>2, <3>3
  <2>4. Counted(k)
    BY <1>2, <2>1, <2>2, <2>3 DEF Counted
  <2>5. NumbersInv => Learns(k)
    BY <1>2, <1>5, <1>8, LinkLearns DEF NumbersInv, o
  <2> QED BY <1>1, <1>3, <2>1, <2>4, <2>5, PullStep
<1> QED BY <1>6, <1>7, <1>8
LEMMA FindUnlinkedKeeps ==
  ASSUME OneAtATime, StoredInv, NEW w \in Workers, FindUnlinked(w)
  PROVE  StoredInv' /\ (NumbersInv => NumbersInv')
<1> DEFINE o == pull[w]
           rest == Unlinked(w)
           k == [o EXCEPT !.pc = "linking", !.todo = rest]
<1>1. /\ o \in PullRecord /\ o.pc = "storing" /\ Counted(o) /\ AllKnown(o) /\ o.todo = {}
      /\ pull' = [pull EXCEPT ![w] = k]
      /\ UNCHANGED <<published, player, news, logged>>
  BY DEF FindUnlinked, StoredInv, NewsShape, Shape, At
<1>2. rest \in SUBSET Items /\ rest \subseteq Stored
  BY DEF Unlinked, Stored
<1> HIDE DEF o, rest
<1>3. /\ k \in PullRecord /\ k.pc = "linking" /\ k.items = o.items /\ k.todo = rest
      /\ k.had_news = o.had_news /\ k.created = o.created /\ k.known = o.known
      /\ k.ids = o.ids /\ k.links = o.links
  BY <1>1, <1>2 DEF PullRecord
<1> HIDE DEF k
<1>4. Done(k) = Done(o)
  BY <1>1, <1>3 DEF Done
<1>5. AllKnown(k) /\ Counted(k)
  BY <1>1, <1>2, <1>3, <1>4 DEF AllKnown, Counted
<1>6. NumbersInv => Learns(k)
  BY <1>1, <1>3 DEF NumbersInv, Learns, o
<1> QED BY <1>1, <1>3, <1>5, <1>6, PullStep

LEMMA RelinkKeeps ==
  ASSUME NewsConstants, OneAtATime, StoredInv, NEW w \in Workers, Relink(w)
  PROVE  StoredInv' /\ (NumbersInv => NumbersInv')
<1>1. PICK i \in pull[w].todo :
        /\ At(w, "linking")
        /\ pull' = [pull EXCEPT ![w] = IF Match(pull[w].known, i) = NoPlayer THEN Past(w, i)
                                       ELSE Link(w, i, Past(w, i))]
        /\ UNCHANGED <<published, player, news, logged, changes>>
  BY DEF Relink
<1> DEFINE o == pull[w]
           j == Past(w, i)
           k == Link(w, i, j)
<1>2. /\ o \in PullRecord /\ o.pc = "linking" /\ Counted(o) /\ i \in o.todo /\ i \in Items
      /\ o.known \in [Players -> Player] /\ i \in Stored
  BY <1>1 DEF StoredInv, NewsShape, Shape, AllKnown, At, PullRecord, Counted
<1>3. j = [o EXCEPT !.todo = o.todo \ {i}]
  BY DEF Past
<1>4. pull' = [pull EXCEPT ![w] = j] \/ pull' = [pull EXCEPT ![w] = k]
  BY <1>1
<1> HIDE DEF o, j, k
<1>5. /\ j \in PullRecord /\ j.pc = o.pc /\ j.items = o.items /\ j.todo = o.todo \ {i}
      /\ j.known = o.known /\ j.ids = o.ids /\ j.links = o.links /\ j.had_news = o.had_news
      /\ j.created = o.created
  BY <1>2, <1>3 DEF PullRecord
<1>6. k = Idle \/ LinkedTo(w, i, j, k)
  BY <1>2, <1>5, LinkAdds DEF k, o
<1>7. CASE pull' = [pull EXCEPT ![w] = j]
  <2>1. AllKnown(j) /\ Counted(j)
    BY <1>2, <1>5 DEF AllKnown, Counted, Done
  <2>2. NumbersInv => Learns(j)
    BY <1>2, <1>5 DEF NumbersInv, Learns, o
  <2> QED BY <1>1, <1>5, <1>7, <2>1, <2>2, PullStep
<1>8. CASE pull' = [pull EXCEPT ![w] = k] /\ k = Idle
  BY <1>1, <1>8, GoneIdle
<1>9. CASE pull' = [pull EXCEPT ![w] = k] /\ LinkedTo(w, i, j, k)
  <2>1. /\ k \in PullRecord /\ AllKnown(k) /\ k.pc = "linking" /\ k.items = o.items
        /\ k.todo = o.todo \ {i} /\ k.had_news = o.had_news /\ k.created = o.created
        /\ DOMAIN k.links = DOMAIN o.links \union {i}
    BY <1>2, <1>5, <1>9 DEF LinkedTo, AllKnown
  <2>2. Done(k) = Done(o)
    BY <1>2, <2>1 DEF Done
  <2>3. Counted(k)
    BY <1>2, <2>1, <2>2 DEF Counted
  <2>4. NumbersInv => Learns(k)
    BY <1>2, <1>5, <1>9, LinkLearns DEF NumbersInv, o
  <2> QED BY <1>1, <1>9, <2>1, <2>3, <2>4, PullStep
<1> QED BY <1>4, <1>6, <1>7, <1>8, <1>9

-----------------------------------------------------------------------------
(* The commit of a pull *)

\* Two stretches without a gap that have an item in common are one.
LEMMA WholeTogether ==
  ASSUME NEW S \in SUBSET Int, NEW T \in SUBSET Int, Items \subseteq Int,
         Whole(S), Whole(T), S = {} \/ S \intersect T # {}
  PROVE  Whole(S \union T)
<1>1. CASE S = {}
  BY <1>1 DEF Whole
<1>2. CASE S \intersect T # {}
  <2>1. PICK x \in Int : x \in S /\ x \in T
    BY <1>2
  <2>2. SUFFICES ASSUME NEW i \in S \union T, NEW k \in S \union T, NEW j \in Items,
                        i < j, j < k
                 PROVE  j \in S \union T
    BY DEF Whole
  <2>3. i \in Int /\ j \in Int /\ k \in Int
    BY <2>2
  <2>4. CASE i \in S /\ k \in S
    BY <2>2, <2>4 DEF Whole
  <2>5. CASE i \in T /\ k \in T
    BY <2>2, <2>5 DEF Whole
  <2>6. CASE x = j
    BY <2>1, <2>6
  <2>7. CASE x < j
    BY <2>1, <2>2, <2>3, <2>7 DEF Whole
  <2>8. CASE j < x
    BY <2>1, <2>2, <2>3, <2>8 DEF Whole
  <2> QED BY <2>1, <2>3, <2>6, <2>7, <2>8
<1> QED BY <1>1, <1>2

LEMMA CommitStores ==
  ASSUME NewsConstants, OneAtATime, StoredInv, NEW w \in Workers, Commit(w)
  PROVE  StoredInv'
<1> DEFINE o == pull[w]
<1>1. /\ o \in PullRecord /\ o.pc = "linking" /\ Counted(o) /\ AllKnown(o)
      /\ news' = [i \in Items |-> IF i \in DOMAIN o.links THEN Linked(w, i) ELSE news[i]]
      /\ player' = [p \in Players |->
           IF p \in DOMAIN o.ids THEN [player[p] EXCEPT !.rotowire_id = o.ids[p]] ELSE player[p]]
      /\ logged' = (logged \/ AllNew(w)) /\ pull' = [pull EXCEPT ![w] = Idle]
      /\ published' = published
  BY DEF Commit, StoredInv, NewsShape, Shape, At
<1>2. /\ news \in [Items -> Item] /\ player \in [Players -> Player]
      /\ logged \in BOOLEAN /\ published \in Nat /\ pull \in [Workers -> PullRecord]
  BY DEF StoredInv, NewsShape, Shape
<1>3. news' \in [Items -> Item] /\ \A i \in DOMAIN o.links : Linked(w, i).stored
  <2>1. o.links \in Links
    BY <1>1 DEF PullRecord
  <2>2. \A i \in DOMAIN o.links : i \in Items /\ o.links[i] \in Players \union {NoPlayer}
    BY <2>1 DEF Links
  <2>3. \A i \in DOMAIN o.links : Linked(w, i) \in Item /\ Linked(w, i).stored
    BY <1>2, <2>2 DEF Linked, Item
  <2> HIDE DEF o
  <2> QED BY <1>1, <1>2, <2>3
<1>4. player' \in [Players -> Player]
  <2>1. o.ids \in Numbers
    BY <1>1 DEF PullRecord
  <2>2. \A p \in DOMAIN o.ids : o.ids[p] \in Ids \union {NoId}
    BY <2>1 DEF Numbers
  <2> HIDE DEF o
  <2>3. \A p \in Players, id \in Ids \union {NoId} :
          [player[p] EXCEPT !.rotowire_id = id] \in Player
    BY <1>2 DEF Player
  <2> QED BY <1>1, <1>2, <2>2, <2>3
<1>5. AllNew(w) \in BOOLEAN
  BY <1>1 DEF AllNew, PullRecord
<1>6. \A v \in Workers : pull'[v] = Idle
  BY <1>1, <1>2 DEF OneAtATime
<1>7. pull' \in [Workers -> PullRecord]
  BY <1>1, <1>2, IdleIsARecord
<1>8. NewsShape'
  BY <1>1, <1>2, <1>3, <1>4, <1>5, <1>6, <1>7, IdleFits DEF NewsShape, Shape, AllKnown
<1>9. \A v \in Workers : Counted(pull[v])'
  BY <1>6 DEF Counted, Idle
<1>10. ASSUME ~logged' PROVE Whole(Stored)'
  <2>1. Done(o) = o.items /\ o.items \subseteq Items
    BY <1>1 DEF Done, PullRecord
  <2>2. Stored' = Stored \union o.items
    <3>1. Stored' = Stored \union (DOMAIN o.links \intersect Items)
      BY <1>1, <1>3 DEF Stored
    <3>2. o.items \subseteq DOMAIN o.links /\ DOMAIN o.links \subseteq o.items \union Stored
      BY <1>1, <2>1 DEF Counted
    <3>3. Stored \subseteq Items
      BY DEF Stored
    <3> QED BY <2>1, <3>1, <3>2, <3>3
  <2>3. Stored = {} \/ Stored \intersect o.items # {}
    <3>1. ~AllNew(w)
      BY <1>1, <1>10
    <3>2. CASE ~o.had_news
      BY <1>1, <3>2 DEF Counted
    <3>3. CASE o.created # Cardinality(o.items)
      <4>1. o.items \ Stored # o.items
        BY <1>1, <2>1, <3>3 DEF Counted
      <4> QED BY <4>1
    <3> QED BY <3>1, <3>2, <3>3 DEF AllNew
  <2>4. Whole(Stored) /\ Whole(o.items)
    BY <1>1, <1>2, <1>10 DEF StoredInv, Counted
  <2>5. Items \subseteq Int /\ Stored \in SUBSET Int /\ o.items \in SUBSET Int
    <3>1. \A n \in Int : 1..n \subseteq Int
      OBVIOUS
    <3>2. Items \subseteq Int
      BY <3>1, FS_CardinalityType DEF NewsConstants
    <3> QED BY <2>1, <3>2 DEF Stored
  <2> HIDE DEF o
  <2>6. Whole(Stored \union o.items)
    BY <2>3, <2>4, <2>5, WholeTogether
  <2> QED BY <2>2, <2>6 DEF Whole
<1> QED BY <1>8, <1>9, <1>10 DEF StoredInv
LEMMA CommitLinks ==
  ASSUME NewsConstants, OneAtATime, StoredInv, NumbersInv, NEW w \in Workers, Commit(w)
  PROVE  NumbersInv'
<1> DEFINE o == pull[w]
<1>1. /\ o \in PullRecord /\ Learns(o) /\ o.pc = "linking" /\ o.known \in [Players -> Player]
      /\ news' = [i \in Items |-> IF i \in DOMAIN o.links THEN Linked(w, i) ELSE news[i]]
      /\ player' = [p \in Players |->
           IF p \in DOMAIN o.ids THEN [player[p] EXCEPT !.rotowire_id = o.ids[p]] ELSE player[p]]
      /\ pull' = [pull EXCEPT ![w] = Idle]
  BY DEF Commit, StoredInv, NewsShape, Shape, AllKnown, NumbersInv, At
<1>2. /\ news \in [Items -> Item] /\ player \in [Players -> Player]
      /\ pull \in [Workers -> PullRecord]
  BY DEF StoredInv, NewsShape, Shape
<1>3. \A v \in Workers : pull'[v] = Idle
  BY <1>1, <1>2 DEF OneAtATime
<1>4. \A v \in Workers : Learns(pull[v])'
  BY <1>3 DEF Learns, Idle
<1> HIDE DEF o
<1>5. \A p \in Players : player'[p].rotowire_id = o.known[p].rotowire_id
  <2>1. \A p \in Players : player'[p].rotowire_id =
                             IF p \in DOMAIN o.ids THEN o.ids[p] ELSE player[p].rotowire_id
    BY <1>1, <1>2 DEF Player
  <2> QED BY <1>1, <2>1 DEF Learns
<1>6. Unique(player)'
  BY <1>1, <1>5 DEF Learns, Unique
<1>7. ASSUME NEW i \in Items, news'[i].player # NoPlayer, Says[i].id # NoId
      PROVE  player'[news'[i].player].rotowire_id = Says[i].id
  <2>1. CASE i \in DOMAIN o.links /\ o.links[i] # NoPlayer
    <3>1. news'[i].player = o.links[i]
      BY <1>1, <2>1 DEF Linked, o
    <3>2. o.known[o.links[i]].rotowire_id = Says[i].id
      BY <1>1, <1>7, <2>1 DEF Learns
    <3>3. o.links[i] \in Players
      <4>1. o.links \in Links
        BY <1>1 DEF PullRecord
      <4> QED BY <2>1, <4>1 DEF Links
    <3> QED BY <1>5, <3>1, <3>2, <3>3
  <2>2. CASE ~(i \in DOMAIN o.links /\ o.links[i] # NoPlayer)
    <3>1. news'[i].player = news[i].player
      BY <1>1, <1>2, <2>2 DEF Linked, Item, o
    <3>2. news[i].player \in Players
      BY <1>2, <1>7, <3>1 DEF Item
    <3>3. player[news[i].player].rotowire_id = Says[i].id
      BY <1>7, <3>1 DEF NumbersInv
    <3>4. o.known[news[i].player].rotowire_id = Says[i].id
      BY <1>1, <1>7, <3>2, <3>3 DEF Learns
    <3> QED BY <1>5, <3>1, <3>2, <3>4
  <2> QED BY <2>1, <2>2
<1> QED BY <1>4, <1>6, <1>7 DEF NumbersInv

-----------------------------------------------------------------------------
(* Everybody else *)

LEMMA OthersKeepStored ==
  ASSUME StoredInv, pull' = pull, logged' = logged,
         published' \in Nat, player' \in [Players -> Player], news' \in [Items -> Item],
         \A i \in Items : news'[i].stored = news[i].stored
  PROVE  StoredInv'
<1>1. Stored' = Stored
  BY DEF Stored
<1>2. NewsShape'
  BY DEF StoredInv, NewsShape, Shape, AllKnown
<1>3. \A v \in Workers : Counted(pull[v])'
  BY <1>1 DEF StoredInv, Counted, Whole, Done
<1> QED BY <1>1, <1>2, <1>3 DEF StoredInv, Whole

LEMMA OthersKeepNumbers ==
  ASSUME NumbersInv, pull' = pull, news' = news, player \in [Players -> Player],
         news \in [Items -> Item],
         \A p \in Players : player'[p].rotowire_id = player[p].rotowire_id
  PROVE  NumbersInv'
<1>1. Unique(player)'
  BY DEF NumbersInv, Unique
<1>2. \A w \in Workers : Learns(pull[w])'
  BY DEF NumbersInv, Learns, Unique
<1>3. \A i \in Items : news'[i].player # NoPlayer /\ Says[i].id # NoId =>
        player'[news'[i].player].rotowire_id = Says[i].id
  BY DEF NumbersInv, Item
<1> QED BY <1>1, <1>2, <1>3 DEF NumbersInv

LEMMA OthersKeep ==
  ASSUME NewsConstants, StoredInv,
         \/ Publish
         \/ \E p \in Players, t \in Teams \union {NoTeam}, a \in BOOLEAN : ImportPlayer(p, t, a)
         \/ \E p \in Players, id \in Ids \union {NoId} : NumberByHand(p, id)
         \/ \E p \in Players, i \in Items : LinkByHand(i, p)
  PROVE  StoredInv' /\ (~ByHand /\ NumbersInv => NumbersInv')
<1>1. /\ published \in Nat /\ player \in [Players -> Player] /\ news \in [Items -> Item]
  BY DEF StoredInv, NewsShape, Shape
<1>2. CASE Publish
  <2>1. /\ published' \in Nat /\ UNCHANGED <<player, news, logged, pull>>
    BY <1>1, <1>2 DEF Publish
  <2> QED BY <1>1, <2>1, OthersKeepStored, OthersKeepNumbers
<1>3. ASSUME NEW p \in Players, NEW t \in Teams \union {NoTeam}, NEW a \in BOOLEAN,
             ImportPlayer(p, t, a)
      PROVE  StoredInv' /\ (NumbersInv => NumbersInv')
  <2>1. /\ player' = [player EXCEPT ![p].team = t, ![p].is_active = a]
        /\ UNCHANGED <<published, news, logged, pull>>
    BY <1>3 DEF ImportPlayer, Changing
  <2>2. player' \in [Players -> Player]
    BY <1>1, <2>1 DEF Player
  <2>3. \A q \in Players : player'[q].rotowire_id = player[q].rotowire_id
    BY <1>1, <2>1 DEF Player
  <2> QED BY <1>1, <2>1, <2>2, <2>3, OthersKeepStored, OthersKeepNumbers
<1>4. ASSUME NEW p \in Players, NEW id \in Ids \union {NoId}, NumberByHand(p, id)
      PROVE  StoredInv' /\ ByHand
  <2>1. /\ player' = [player EXCEPT ![p].rotowire_id = id] /\ ByHand
        /\ UNCHANGED <<published, news, logged, pull>>
    BY <1>4 DEF NumberByHand, Changing
  <2>2. player' \in [Players -> Player]
    BY <1>1, <2>1 DEF Player
  <2> QED BY <1>1, <2>1, <2>2, OthersKeepStored
<1>5. ASSUME NEW p \in Players, NEW i \in Items, LinkByHand(i, p)
      PROVE  StoredInv' /\ ByHand
  <2>1. /\ news' = [news EXCEPT ![i] = [stored |-> TRUE, player |-> p, by_hand |-> TRUE]]
        /\ ByHand /\ news[i].stored /\ UNCHANGED <<published, player, logged, pull>>
    BY <1>5 DEF LinkByHand, Changing
  <2>2. news' \in [Items -> Item] /\ \A k \in Items : news'[k].stored = news[k].stored
    BY <1>1, <2>1 DEF Item
  <2> QED BY <1>1, <2>1, <2>2, OthersKeepStored
<1> QED BY <1>2, <1>3, <1>4, <1>5

-----------------------------------------------------------------------------
(* What holds *)

LEMMA NewsInit == NewsConstants /\ Init => StoredInv /\ NumbersInv
<1> SUFFICES ASSUME NewsConstants, Init PROVE StoredInv /\ NumbersInv
  OBVIOUS
<1>1. /\ published = 0 /\ logged = FALSE /\ pull = [w \in Workers |-> Idle]
      /\ news = [i \in Items |-> NotStored]
      /\ player \in [Players -> Player]
      /\ \A p \in Players : player[p].rotowire_id = NoId
  BY DEF Init, Player
<1>2. news \in [Items -> Item] /\ Stored = {} /\ \A i \in Items : news[i].player = NoPlayer
  BY <1>1 DEF Item, NotStored, Stored
<1>3. pull \in [Workers -> PullRecord] /\ \A w \in Workers : pull[w] = Idle
  BY <1>1, IdleIsARecord
<1>4. StoredInv
  BY <1>1, <1>2, <1>3, IdleFits DEF StoredInv, NewsShape, Shape, Whole
<1>5. NumbersInv
  BY <1>1, <1>2, <1>3, IdleFits DEF NumbersInv, Unique
<1> QED BY <1>4, <1>5

LEMMA NewsNext ==
  ASSUME NewsConstants, OneAtATime, StoredInv, [Next]_vars
  PROVE  StoredInv' /\ (~ByHand /\ NumbersInv => NumbersInv')
<1>1. ASSUME NEW w \in Workers, Abort(w)
      PROVE  StoredInv' /\ (NumbersInv => NumbersInv')
  BY <1>1, GoneIdle DEF Abort
<1>2. ASSUME NEW w \in Workers, Pull(w)
      PROVE  StoredInv' /\ (NumbersInv => NumbersInv')
  <2>1. CASE Fetch(w)
    BY <2>1, FetchKeeps
  <2>2. CASE ReadPlayers(w)
    BY <2>2, ReadPlayersKeeps
  <2>3. CASE StoreItem(w)
    BY <2>3, StoreItemKeeps
  <2>4. CASE FindUnlinked(w)
    BY <2>4, FindUnlinkedKeeps
  <2>5. CASE Relink(w)
    BY <2>5, RelinkKeeps
  <2>6. CASE Commit(w)
    BY <2>6, CommitStores, CommitLinks
  <2> QED BY <1>2, <2>1, <2>2, <2>3, <2>4, <2>5, <2>6 DEF Pull
<1>3. CASE UNCHANGED vars
  <2>1. /\ UNCHANGED <<published, player, news, logged, pull>>
        /\ published \in Nat /\ player \in [Players -> Player] /\ news \in [Items -> Item]
    BY <1>3 DEF vars, StoredInv, NewsShape, Shape
  <2> QED BY <2>1, OthersKeepStored, OthersKeepNumbers
<1> QED BY <1>1, <1>2, <1>3, OthersKeep DEF Next

\* What may have been missed is logged (tasks.py:84-89): as
\* long as pulls do not overlap, an item that is missing between two stored ones
\* has been reported, whatever the feed shows, whatever fails and whoever edits the
\* links.
THEOREM MissedItemsAreLogged ==
  NewsConstants /\ OneAtATime => (Spec => []MissedIsLogged)
<1> SUFFICES ASSUME NewsConstants, OneAtATime PROVE Spec => []MissedIsLogged
  OBVIOUS
<1>1. Init => StoredInv
  BY NewsInit
<1>2. StoredInv /\ [Next]_vars => StoredInv'
  BY NewsNext
<1>3. StoredInv => MissedIsLogged
  BY DEF StoredInv, NewsShape, Shape, Stored, Whole, MissedIsLogged
<1> QED BY <1>1, <1>2, <1>3, PTL DEF Spec

\* "No link beats a wrong one": as long as pulls do not overlap and nobody edits by
\* hand, an item that names its player by number is linked to nobody or to the one
\* player who has that number, whoever moves, comes or goes during a pull.
THEOREM NumbersLinkOnePlayer ==
  NewsConstants /\ OneAtATime /\ ~ByHand => (Spec => []LinksAgree)
<1> SUFFICES ASSUME NewsConstants, OneAtATime, ~ByHand PROVE Spec => []LinksAgree
  OBVIOUS
<1>1. Init => StoredInv /\ NumbersInv
  BY NewsInit
<1>2. StoredInv /\ NumbersInv /\ [Next]_vars => StoredInv' /\ NumbersInv'
  BY NewsNext
<1>3. StoredInv /\ NumbersInv => LinksAgree
  BY DEF StoredInv, NewsShape, Shape, Item, NumbersInv, Unique, LinksAgree
<1> QED BY <1>1, <1>2, <1>3, PTL DEF Spec
-----------------------------------------------------------------------------
(* Links survive *)

\* Each item has a row, or the empty one, with its three fields.
RowsOfItems == DOMAIN news = Items /\ \A i \in Items : DOMAIN news[i] = DOMAIN NotStored

LEMMA RowsOfItemsStay ==
  ASSUME RowsOfItems, [Next]_vars
  PROVE  RowsOfItems'
<1>1. ASSUME NEW w \in Workers, Commit(w) PROVE RowsOfItems'
  <2>1. \A i \in Items : DOMAIN Linked(w, i) = DOMAIN NotStored
    BY DEF RowsOfItems, Linked, NotStored
  <2> QED BY <1>1, <2>1 DEF RowsOfItems, Commit
<1>2. ASSUME NEW p \in Players, NEW i \in Items, LinkByHand(i, p) PROVE RowsOfItems'
  BY <1>2 DEF RowsOfItems, LinkByHand, NotStored
<1>3. CASE news' = news
  BY <1>3 DEF RowsOfItems
<1>4. \/ news' = news
      \/ \E w \in Workers : Commit(w)
      \/ \E p \in Players, i \in Items : LinkByHand(i, p)
  BY DEF Next, Pull, Abort, Fetch, ReadPlayers, StoreItem, FindUnlinked, Relink, Publish,
         ImportPlayer, NumberByHand, vars
<1> QED BY <1>1, <1>2, <1>3, <1>4

LEMMA StepsKeepLinks ==
  ASSUME NewsConstants, RowsOfItems, Next
  PROVE  LinksSurvive
<1> SUFFICES ASSUME NEW i \in Items, news[i].player # NoPlayer
             PROVE  news'[i].player # NoPlayer
  BY DEF LinksSurvive
<1>1. ASSUME NEW w \in Workers, Commit(w) PROVE news'[i].player # NoPlayer
  <2>1. news'[i] = IF i \in DOMAIN pull[w].links THEN Linked(w, i) ELSE news[i]
    BY <1>1 DEF Commit
  <2>2. Linked(w, i).player # NoPlayer
    BY DEF Linked, RowsOfItems, NotStored
  <2> QED BY <2>1, <2>2
<1>2. ASSUME NEW p \in Players, NEW k \in Items, LinkByHand(k, p)
      PROVE  news'[i].player # NoPlayer
  BY <1>2 DEF LinkByHand, RowsOfItems, NewsConstants
<1>3. CASE news' = news
  BY <1>3
<1>4. \/ news' = news
      \/ \E w \in Workers : Commit(w)
      \/ \E p \in Players, k \in Items : LinkByHand(k, p)
  BY DEF Next, Pull, Abort, Fetch, ReadPlayers, StoreItem, FindUnlinked, Relink, Publish,
         ImportPlayer, NumberByHand
<1> QED BY <1>1, <1>2, <1>3, <1>4

\* An item that is linked stays linked, by whatever link ("never cleared here",
\* nba/rotowire.py): however many pulls overlap, match nothing or fail, and
\* whoever links by hand meanwhile.
THEOREM LinksAreNeverLost == NewsConstants => (Spec => [][LinksSurvive]_vars)
<1> SUFFICES ASSUME NewsConstants PROVE Spec => [][LinksSurvive]_vars
  OBVIOUS
<1>1. Init => RowsOfItems
  BY DEF Init, RowsOfItems
<1>2. RowsOfItems /\ [Next]_vars => RowsOfItems'
  BY RowsOfItemsStay
<1>3. RowsOfItems /\ [Next]_vars => [LinksSurvive]_vars
  BY StepsKeepLinks
<1> QED BY <1>1, <1>2, <1>3, PTL DEF Spec

-----------------------------------------------------------------------------
(* The injury report *)

CONSTANTS Entries, Entry, Status, Healthy, DayToDay, Recovered, NoReport,
          LastInstant, MaxReports
VARIABLES now, roll, feed, reports, update

\* Any number of updates at the same time.
Hurt == INSTANCE Injuries

\* There are finitely many players, and the feed can be read to its end.
HurtConstants ==
  Hurt!InjuryConstants /\ LastInstant \in Nat /\ IsFiniteSet(Players) /\ IsFiniteSet(Entries)

LEMMA HurtCounts == \A S : Hurt!Cardinality(S) = Cardinality(S)
BY Zenon DEF Hurt!Cardinality, Cardinality, Hurt!IsFiniteSet, IsFiniteSet

-----------------------------------------------------------------------------
(* Finite sets of numbers *)

LEMMA LeastNumber ==
  ASSUME NEW T \in SUBSET Nat, T # {}
  PROVE  \E m \in T : \A n \in T : m <= n
<1> DEFINE R == OpToRel(<, Nat)
<1>1. IsWellFoundedOn(R, Nat)
  BY NatLessThanWellFounded
<1>2. \A m, n \in Nat : n < m => <<n, m>> \in R
  BY DEF OpToRel
<1> HIDE DEF R
<1>3. PICK m \in T : \A n \in T : ~(<<n, m>> \in R)
  BY <1>1, WFMin
<1>4. \A n \in T : ~(n < m)
  BY <1>2, <1>3
<1> QED BY <1>4

LEMMA GreatestNumber ==
  ASSUME NEW T \in SUBSET Nat, T # {}, NEW top \in Nat, \A n \in T : n <= top
  PROVE  \E m \in T : \A n \in T : n <= m
<1> DEFINE U == {top - n : n \in T}
<1>1. U \in SUBSET Nat /\ U # {}
  <2>1. \A n \in T : n \in Nat /\ top - n \in Nat
    OBVIOUS
  <2> QED BY <2>1
<1>2. PICK u \in U : \A v \in U : u <= v
  <2> HIDE DEF U
  <2> QED BY <1>1, LeastNumber
<1>3. PICK m \in T : u = top - m
  BY <1>2
<1>4. \A n \in T : top - n \in U /\ top - m <= top - n
  BY <1>2, <1>3
<1>5. \A n \in T : n <= m
  BY <1>4
<1> QED BY <1>5

Enumeration(S) ==
  [n \in 1..Cardinality(S) |-> CHOOSE e \in S : Cardinality({f \in S : f <= e}) = n]

\* Finitely many numbers, told off from the least one upwards.
LEMMA Enumerated ==
  ASSUME NEW S \in SUBSET Nat, IsFiniteSet(S)
  PROVE  /\ Cardinality(S) \in Nat /\ Enumeration(S) \in [1..Cardinality(S) -> S]
         /\ \A m, n \in 1..Cardinality(S) : m < n => Enumeration(S)[m] < Enumeration(S)[n]
         /\ \A e \in S : \E n \in 1..Cardinality(S) : Enumeration(S)[n] = e
<1> DEFINE nth == Enumeration(S)
           upto(e) == {f \in S : f <= e}
           k == Cardinality(S)
           rank == [e \in S |-> Cardinality(upto(e))]
<1>1. k \in Nat
  BY FS_CardinalityType
<1>2. \A e \in S : upto(e) \in SUBSET S /\ IsFiniteSet(upto(e)) /\ Cardinality(upto(e)) \in 1..k
  <2> TAKE e \in S
  <2>1. upto(e) \in SUBSET S /\ e \in upto(e)
    OBVIOUS
  <2>2. IsFiniteSet(upto(e)) /\ Cardinality(upto(e)) <= k
    BY <2>1, FS_Subset
  <2>3. Cardinality(upto(e)) \in Nat /\ Cardinality(upto(e)) # 0
    BY <2>1, <2>2, FS_CardinalityType, FS_EmptySet
  <2> QED BY <2>1, <2>2, <2>3, <1>1
<1>3. \A e, f \in S : e < f => Cardinality(upto(e)) < Cardinality(upto(f))
  <2> TAKE e, f \in S
  <2> HAVE e < f
  <2>1. upto(e) \in SUBSET upto(f)
    <3>1. \A g \in S : g <= e => g <= f
      <4>1. \A g \in S : g \in Nat
        OBVIOUS
      <4> QED BY <4>1
    <3> QED BY <3>1
  <2>2. f \in upto(f) /\ f \notin upto(e)
    <3>1. f \in Nat /\ e \in Nat
      OBVIOUS
    <3> QED BY <3>1
  <2>3. /\ Cardinality(upto(e)) \in 1..k /\ Cardinality(upto(f)) \in 1..k
        /\ IsFiniteSet(upto(f))
    BY <1>2
  <2> HIDE DEF upto
  <2>4. Cardinality(upto(e)) <= Cardinality(upto(f)) /\ Cardinality(upto(f)) # Cardinality(upto(e))
    BY <2>1, <2>2, <2>3, FS_Subset
  <2> HIDE DEF k
  <2> QED BY <1>1, <2>3, <2>4
<1> HIDE DEF upto
<1>4. rank \in [S -> 1..k] /\ \A e, f \in S : e < f => rank[e] < rank[f]
  BY <1>2, <1>3
<1> HIDE DEF rank
<1>5. rank \in Injection(S, 1..k)
  <2> HIDE DEF k
  <2>1. ASSUME NEW e \in S, NEW f \in S, e # f PROVE rank[e] # rank[f]
    <3>1. e \in Nat /\ f \in Nat /\ rank[e] \in Int /\ rank[f] \in Int
      BY <1>4, <1>1
    <3>2. e < f \/ f < e
      BY <2>1, <3>1
    <3>3. rank[e] < rank[f] \/ rank[f] < rank[e]
      BY <1>4, <3>2
    <3> QED BY <3>1, <3>3
  <2> QED BY <1>4, <2>1, Zenon DEF Injection, IsInjective
<1>6. \A n \in 1..k : \E e \in S : rank[e] = n
  <2>1. IsFiniteSet(1..k) /\ Cardinality(1..k) = k
    BY <1>1, FS_Interval
  <2>2. rank \in Surjection(S, 1..k)
    BY <1>5, <2>1, FS_Injection
  <2> QED BY <2>2 DEF Surjection
<1>7. \A n \in 1..k : nth[n] \in S /\ rank[nth[n]] = n
  <2> TAKE n \in 1..k
  <2>1. nth[n] = CHOOSE e \in S : rank[e] = n
    <3>1. \A e \in S : rank[e] = Cardinality({f \in S : f <= e})
      BY DEF rank, upto
    <3>2. nth[n] = CHOOSE e \in S : Cardinality({f \in S : f <= e}) = n
      BY DEF Enumeration
    <3> QED BY <3>1, <3>2, Zenon
  <2> QED BY <2>1, <1>6
<1>8. nth \in [1..k -> S]
  <2> DEFINE pick(n) == CHOOSE e \in S : Cardinality({f \in S : f <= e}) = n
  <2>1. nth = [n \in 1..k |-> pick(n)]
    BY Zenon DEF Enumeration
  <2>2. \A n \in 1..k : nth[n] = pick(n)
    BY Zenon DEF Enumeration
  <2> HIDE DEF pick, nth
  <2> QED BY <2>1, <2>2, <1>7
<1>10. ASSUME NEW m \in 1..k, NEW n \in 1..k, m < n PROVE nth[m] < nth[n]
  <2>1. nth[m] \in S /\ nth[n] \in S /\ rank[nth[m]] = m /\ rank[nth[n]] = n
    BY <1>7
  <2>2. nth[m] \in Nat /\ nth[n] \in Nat /\ m \in Int /\ n \in Int
    <3>1. m \in Int /\ n \in Int
      BY <1>1
    <3>2. \A e \in S : e \in Nat
      OBVIOUS
    <3> QED BY <3>1, <3>2, <2>1
  <2>3. ~(nth[n] < nth[m]) /\ nth[m] # nth[n]
    <3>1. nth[n] < nth[m] => n < m
      BY <1>4, <2>1
    <3>2. ~(n < m) /\ m # n
      BY <1>10, <2>2
    <3> QED BY <3>1, <3>2, <2>1
  <2> HIDE DEF k
  <2> QED BY <2>2, <2>3
<1>11. \A e \in S : \E n \in 1..k : nth[n] = e
  <2> TAKE e \in S
  <2>1. rank[e] \in 1..k
    BY <1>4
  <2>2. nth[rank[e]] \in S /\ rank[nth[rank[e]]] = rank[e]
    BY <2>1, <1>7
  <2>3. nth[rank[e]] = e
    BY <2>2, <1>5, Zenon DEF Injection, IsInjective
  <2> QED BY <2>1, <2>3
<1> QED BY <1>1, <1>8, <1>10, <1>11 DEF nth

-----------------------------------------------------------------------------
(* The newest report *)

ReportRow ==
  [player : Players, status : Status, id : {Entry[e].id : e \in Entries} \union {NoId},
   observed_at : Nat]

OfPlayer(rows, p) == {r \in DOMAIN rows : rows[r].player = p}

Older(rows, s, r) ==
  \/ rows[s].observed_at < rows[r].observed_at
  \/ rows[s].observed_at = rows[r].observed_at /\ s < r

\* r is p's newest report.
IsNewest(rows, p, r) ==
  r \in OfPlayer(rows, p) /\ \A s \in OfPlayer(rows, p) \ {r} : Older(rows, s, r)

StatusIn(rows, p) ==
  IF OfPlayer(rows, p) = {} THEN NoReport
  ELSE rows[CHOOSE r \in OfPlayer(rows, p) : \A s \in OfPlayer(rows, p) \ {r} : Older(rows, s, r)].status

LEMMA TheNewestExists ==
  ASSUME NEW rows \in Seq(ReportRow), NEW p, OfPlayer(rows, p) # {}
  PROVE  \E r \in DOMAIN rows : IsNewest(rows, p, r)
<1> DEFINE mine == OfPlayer(rows, p)
           stamps == {rows[r].observed_at : r \in mine}
<1>1. mine \subseteq 1..Len(rows) /\ Len(rows) \in Nat /\ mine # {}
  BY DEF OfPlayer
<1>2. \A r \in mine : rows[r].observed_at \in Nat
  <2>1. \A r \in 1..Len(rows) : rows[r] \in ReportRow
    OBVIOUS
  <2> QED BY <1>1, <2>1 DEF ReportRow
<1> HIDE DEF mine
<1>4. \E top \in stamps : \A t \in stamps : t <= top
  <2> DEFINE late(r) == {s \in mine : rows[s].observed_at > rows[r].observed_at}
             sizes == {Cardinality(late(r)) : r \in mine}
  <2>1. IsFiniteSet(mine)
    <3>1. IsFiniteSet(1..Len(rows))
      BY <1>1, FS_Interval
    <3> QED BY <1>1, <3>1, FS_Subset
  <2>2. \A r \in mine : IsFiniteSet(late(r)) /\ Cardinality(late(r)) \in Nat
    BY <2>1, FS_Subset, FS_CardinalityType
  <2>3. sizes \in SUBSET Nat /\ sizes # {}
    BY <1>1, <2>2
  <2>4. PICK n \in sizes : \A m \in sizes : n <= m
    <3> HIDE DEF sizes
    <3> QED BY <2>3, LeastNumber
  <2>5. PICK r \in mine : \A s \in mine : Cardinality(late(r)) <= Cardinality(late(s))
    <3> HIDE DEF late
    <3> QED BY <2>4
  <2>6. ASSUME NEW s \in mine, rows[s].observed_at > rows[r].observed_at PROVE FALSE
    <3>1. late(s) \in SUBSET late(r) /\ s \in late(r) /\ s \notin late(s)
      BY <1>2, <2>6
    <3>2. Cardinality(late(s)) <= Cardinality(late(r)) /\ Cardinality(late(s)) # Cardinality(late(r))
      BY <2>2, <3>1, FS_Subset
    <3>3. Cardinality(late(s)) \in Nat /\ Cardinality(late(r)) \in Nat
      BY <2>2
    <3> HIDE DEF late
    <3> QED BY <2>5, <3>2, <3>3
  <2>7. \A s \in mine : rows[s].observed_at <= rows[r].observed_at
    BY <2>6, <1>2
  <2> QED BY <2>7
<1>5. PICK top \in stamps : \A t \in stamps : t <= top
  BY <1>4
<1> DEFINE last == {r \in mine : rows[r].observed_at = top}
<1>6. last # {} /\ last \in SUBSET Nat /\ \A r \in last : r <= Len(rows)
  <2>1. \E r \in mine : rows[r].observed_at = top
    BY <1>5
  <2>2. last \subseteq 1..Len(rows)
    BY <1>1
  <2> HIDE DEF mine
  <2>3. last # {}
    BY <2>1
  <2> HIDE DEF last
  <2> QED BY <2>2, <2>3, <1>1
<1>7. PICK r \in last : \A s \in last : s <= r
  <2> HIDE DEF last
  <2> QED BY <1>1, <1>6, GreatestNumber
<1>8. \A s \in mine \ {r} : Older(rows, s, r)
  <2> TAKE s \in mine \ {r}
  <2>1. rows[s].observed_at <= top /\ rows[r].observed_at = top
    BY <1>5, <1>7
  <2>2. CASE rows[s].observed_at = top
    BY <1>1, <1>7, <2>1, <2>2 DEF Older
  <2>3. CASE rows[s].observed_at # top
    BY <1>2, <2>1, <2>3 DEF Older
  <2> QED BY <2>2, <2>3
<1> QED BY <1>1, <1>7, <1>8 DEF IsNewest, mine

LEMMA TheNewestIsOne ==
  ASSUME NEW rows \in Seq(ReportRow), NEW p, NEW r, NEW s, IsNewest(rows, p, r), IsNewest(rows, p, s)
  PROVE  r = s
<1>1. \A q \in DOMAIN rows : q \in Nat /\ rows[q].observed_at \in Nat
  <2>1. DOMAIN rows = 1..Len(rows) /\ Len(rows) \in Nat
    OBVIOUS
  <2>2. \A q \in 1..Len(rows) : rows[q] \in ReportRow
    OBVIOUS
  <2> QED BY <2>1, <2>2 DEF ReportRow
<1>2. r \in DOMAIN rows /\ s \in DOMAIN rows
  BY DEF IsNewest, OfPlayer
<1> SUFFICES ASSUME r # s PROVE FALSE
  OBVIOUS
<1>3. Older(rows, r, s) /\ Older(rows, s, r)
  BY DEF IsNewest
<1> QED BY <1>1, <1>2, <1>3 DEF Older

LEMMA TheNewestTells ==
  ASSUME NEW rows \in Seq(ReportRow), NEW p, NEW r, IsNewest(rows, p, r)
  PROVE  StatusIn(rows, p) = rows[r].status
<1> DEFINE c == CHOOSE q \in OfPlayer(rows, p) : \A s \in OfPlayer(rows, p) \ {q} : Older(rows, s, q)
<1>1. c \in OfPlayer(rows, p) /\ \A s \in OfPlayer(rows, p) \ {c} : Older(rows, s, c)
  BY DEF IsNewest
<1>2. IsNewest(rows, p, c)
  BY <1>1 DEF IsNewest
<1>3. c = r
  <2> HIDE DEF c
  <2> QED BY <1>2, TheNewestIsOne
<1>4. StatusIn(rows, p) = rows[c].status
  BY DEF StatusIn, IsNewest
<1> QED BY <1>3, <1>4

LEMMA AStatusIsReported ==
  ASSUME NEW rows \in Seq(ReportRow), NEW p, OfPlayer(rows, p) # {}
  PROVE  /\ StatusIn(rows, p) \in Status
         /\ StatusIn(rows, p) \in {rows[r].status : r \in DOMAIN rows}
<1>1. PICK r \in DOMAIN rows : IsNewest(rows, p, r)
  BY TheNewestExists
<1>2. StatusIn(rows, p) = rows[r].status
  BY <1>1, TheNewestTells
<1>3. rows[r] \in ReportRow
  BY <1>1
<1> QED BY <1>1, <1>2, <1>3 DEF ReportRow

LEMMA LatestIsStatusIn ==
  /\ \A p : Hurt!LatestStatus(p) = StatusIn(reports, p)
  /\ \A p : Hurt!LatestStatus(p)' = StatusIn(reports', p)
<1>1. ASSUME NEW p PROVE Hurt!LatestStatus(p) = StatusIn(reports, p)
  BY Zenon DEF Hurt!LatestStatus, StatusIn, Hurt!ReportsOf, OfPlayer, Hurt!Before, Older
<1>2. ASSUME NEW p PROVE Hurt!LatestStatus(p)' = StatusIn(reports', p)
  BY Zenon DEF Hurt!LatestStatus, StatusIn, Hurt!ReportsOf, OfPlayer, Hurt!Before, Older
<1> QED BY <1>1, <1>2

LEMMA HurtInIsStatusIn ==
  ASSUME NEW rows, NEW p
  PROVE  Hurt!HurtIn(rows, p) <=> OfPlayer(rows, p) # {} /\ StatusIn(rows, p) \notin Healthy
BY Zenon DEF Hurt!HurtIn, StatusIn, OfPlayer, Older

LEMMA AppendedRows ==
  ASSUME NEW rows \in Seq(ReportRow), NEW new \in Seq(ReportRow)
  PROVE  /\ rows \o new \in Seq(ReportRow)
         /\ DOMAIN rows = 1..Len(rows) /\ DOMAIN new = 1..Len(new)
         /\ DOMAIN (rows \o new) = 1..(Len(rows) + Len(new))
         /\ Len(rows) \in Nat /\ Len(new) \in Nat
         /\ \A r \in 1..Len(rows) : (rows \o new)[r] = rows[r]
         /\ \A r \in 1..(Len(rows) + Len(new)) :
              r \notin 1..Len(rows) => /\ r - Len(rows) \in 1..Len(new)
                                       /\ (rows \o new)[r] = new[r - Len(rows)]
         /\ \A n \in 1..Len(new) : /\ Len(rows) + n \in 1..(Len(rows) + Len(new))
                                   /\ (rows \o new)[Len(rows) + n] = new[n]
         /\ \A r \in 1..Len(rows) : rows[r].observed_at \in Nat
         /\ \A n \in 1..Len(new) : new[n].observed_at \in Nat
<1>1. rows \o new \in Seq(ReportRow) /\ Len(rows) \in Nat /\ Len(new) \in Nat
  OBVIOUS
<1>2. /\ DOMAIN rows = 1..Len(rows) /\ DOMAIN new = 1..Len(new)
      /\ DOMAIN (rows \o new) = 1..(Len(rows) + Len(new))
  OBVIOUS
<1>3. \A r \in 1..Len(rows) : (rows \o new)[r] = rows[r]
  OBVIOUS
<1>4. ASSUME NEW r \in 1..(Len(rows) + Len(new)), r \notin 1..Len(rows)
      PROVE  r - Len(rows) \in 1..Len(new) /\ (rows \o new)[r] = new[r - Len(rows)]
  BY <1>1, <1>4
<1>5. ASSUME NEW n \in 1..Len(new)
      PROVE  /\ Len(rows) + n \in 1..(Len(rows) + Len(new))
             /\ (rows \o new)[Len(rows) + n] = new[n]
  BY <1>1
<1>6. /\ \A r \in 1..Len(rows) : rows[r] \in ReportRow
      /\ \A n \in 1..Len(new) : new[n] \in ReportRow
  OBVIOUS
<1> QED BY <1>1, <1>2, <1>3, <1>4, <1>5, <1>6 DEF ReportRow

NoneAfter(rows, stamp) == \A r \in DOMAIN rows : rows[r].observed_at <= stamp
AllAt(rows, stamp) == \A r \in DOMAIN rows : rows[r].observed_at = stamp
IsLastOf(rows, p, n) == n \in OfPlayer(rows, p) /\ \A m \in OfPlayer(rows, p) : m <= n

\* Of the reports added at one instant, not before any other, the last one tells.
LEMMA TheLastAddedTells ==
  ASSUME NEW rows \in Seq(ReportRow), NEW new \in Seq(ReportRow), NEW p, NEW stamp \in Nat,
         NoneAfter(rows, stamp), AllAt(new, stamp), NEW n, IsLastOf(new, p, n)
  PROVE  StatusIn(rows \o new, p) = new[n].status
<1> USE DEF NoneAfter, AllAt, IsLastOf
<1> DEFINE all == rows \o new
           top == Len(rows) + n
<1>1. /\ all \in Seq(ReportRow) /\ DOMAIN rows = 1..Len(rows) /\ DOMAIN new = 1..Len(new)
      /\ DOMAIN all = 1..(Len(rows) + Len(new))
      /\ Len(rows) \in Nat /\ Len(new) \in Nat
      /\ \A r \in 1..Len(rows) : all[r] = rows[r]
      /\ \A r \in 1..(Len(rows) + Len(new)) :
           r \notin 1..Len(rows) => r - Len(rows) \in 1..Len(new) /\ all[r] = new[r - Len(rows)]
      /\ \A m \in 1..Len(new) :
           Len(rows) + m \in 1..(Len(rows) + Len(new)) /\ all[Len(rows) + m] = new[m]
      /\ \A r \in 1..Len(rows) : rows[r].observed_at \in Nat
  BY AppendedRows
<1> HIDE DEF all
<1>2. n \in 1..Len(new) /\ new[n].player = p /\ n \in Nat
  BY <1>1 DEF OfPlayer
<1>3. top \in OfPlayer(all, p) /\ all[top] = new[n] /\ all[top].observed_at = stamp
  <2>1. top \in DOMAIN all /\ all[top] = new[n]
    BY <1>1, <1>2
  <2>2. new[n].observed_at = stamp
    BY <1>1, <1>2
  <2> HIDE DEF top
  <2> QED BY <1>2, <2>1, <2>2 DEF OfPlayer
<1>4. ASSUME NEW s \in OfPlayer(all, p) \ {top} PROVE Older(all, s, top)
  <2>1. s \in 1..(Len(rows) + Len(new)) /\ all[s].player = p
    BY <1>1 DEF OfPlayer
  <2>2. CASE s \in 1..Len(rows)
    <3>1. all[s] = rows[s] /\ rows[s].observed_at <= stamp /\ rows[s].observed_at \in Nat
      BY <1>1, <2>2
    <3>2. s < top
      BY <1>1, <1>2, <2>2
    <3> HIDE DEF top
    <3>3. all[s].observed_at < stamp \/ all[s].observed_at = stamp
      BY <3>1
    <3> QED BY <1>3, <3>2, <3>3 DEF Older
  <2>3. CASE s \notin 1..Len(rows)
    <3>1. s - Len(rows) \in 1..Len(new) /\ all[s] = new[s - Len(rows)]
      BY <1>1, <2>1, <2>3
    <3>2. s - Len(rows) \in OfPlayer(new, p) /\ all[s].observed_at = stamp
      BY <1>1, <2>1, <3>1 DEF OfPlayer
    <3>3. s - Len(rows) <= n
      BY <3>2
    <3>4. s < top
      <4>1. s \in Int /\ s # Len(rows) + n /\ Len(rows) \in Int /\ n \in Int
        BY <1>1, <1>2, <2>1
      <4>2. \A i, j, k \in Int : i - j <= k /\ i # j + k => i < j + k
        OBVIOUS
      <4>3. s < Len(rows) + n
        BY <3>3, <4>1, <4>2
      <4> QED BY <4>3
    <3> HIDE DEF top
    <3> QED BY <1>3, <3>2, <3>4 DEF Older
  <2> QED BY <2>2, <2>3
<1> HIDE DEF top
<1>5. IsNewest(all, p, top)
  BY <1>3, <1>4 DEF IsNewest
<1>6. StatusIn(all, p) = all[top].status
  BY <1>1, <1>5, TheNewestTells
<1> QED BY <1>3, <1>6 DEF all

\* The newest of all the reports is an added one, or it was the newest already.
LEMMA OldOrAdded ==
  ASSUME NEW rows \in Seq(ReportRow), NEW new \in Seq(ReportRow), NEW p
  PROVE  \/ StatusIn(rows \o new, p) = StatusIn(rows, p)
         \/ \E n \in OfPlayer(new, p) : StatusIn(rows \o new, p) = new[n].status
<1> DEFINE all == rows \o new
<1>1. /\ all \in Seq(ReportRow) /\ DOMAIN rows = 1..Len(rows) /\ DOMAIN new = 1..Len(new)
      /\ DOMAIN all = 1..(Len(rows) + Len(new))
      /\ Len(rows) \in Nat /\ Len(new) \in Nat
      /\ \A r \in 1..Len(rows) : all[r] = rows[r]
      /\ \A r \in 1..(Len(rows) + Len(new)) :
           r \notin 1..Len(rows) => r - Len(rows) \in 1..Len(new) /\ all[r] = new[r - Len(rows)]
  BY AppendedRows
<1> HIDE DEF all
<1>2. OfPlayer(rows, p) = OfPlayer(all, p) \intersect (1..Len(rows))
  BY <1>1 DEF OfPlayer
<1>3. CASE OfPlayer(all, p) = {}
  BY <1>2, <1>3 DEF StatusIn, all
<1>4. CASE OfPlayer(all, p) # {}
  <2>1. PICK r \in DOMAIN all : IsNewest(all, p, r)
    BY <1>1, <1>4, TheNewestExists
  <2>2. StatusIn(all, p) = all[r].status
    BY <1>1, <2>1, TheNewestTells
  <2>3. CASE r \in 1..Len(rows)
    <3>1. r \in OfPlayer(rows, p) /\ all[r] = rows[r]
      BY <1>1, <1>2, <2>1, <2>3 DEF IsNewest
    <3>2. \A s \in OfPlayer(rows, p) \ {r} : Older(rows, s, r)
      BY <1>1, <1>2, <2>1, <2>3 DEF IsNewest, Older
    <3>3. IsNewest(rows, p, r)
      BY <3>1, <3>2 DEF IsNewest
    <3>4. StatusIn(rows, p) = rows[r].status
      BY <3>3, TheNewestTells
    <3> QED BY <2>2, <3>1, <3>4 DEF all
  <2>4. CASE r \notin 1..Len(rows)
    <3>1. r - Len(rows) \in 1..Len(new) /\ all[r] = new[r - Len(rows)]
      BY <1>1, <2>4
    <3>2. all[r].player = p
      BY <2>1 DEF IsNewest, OfPlayer
    <3>3. r - Len(rows) \in OfPlayer(new, p)
      BY <1>1, <3>1, <3>2 DEF OfPlayer
    <3> QED BY <2>2, <3>1, <3>3 DEF all
  <2> QED BY <2>3, <2>4
<1> QED BY <1>3, <1>4

LEMMA NobodyElseIsTold ==
  ASSUME NEW rows \in Seq(ReportRow), NEW new \in Seq(ReportRow), NEW p, OfPlayer(new, p) = {}
  PROVE  StatusIn(rows \o new, p) = StatusIn(rows, p)
BY OldOrAdded

-----------------------------------------------------------------------------
(* What an update writes *)

\* What a feed was parsed to.
Reads ==
  UNION {[D -> [id : {Entry[e].id : e \in Entries}, name : {Entry[e].name : e \in Entries},
                status : Status, team : {Entry[e].team : e \in Entries}
                                        \union {Entry[e].group : e \in Entries}]] :
         D \in SUBSET Entries}

LEMMA ReadFeed ==
  ASSUME NEW read \in Reads
  PROVE  /\ DOMAIN read \in SUBSET Entries
         /\ \A e \in DOMAIN read : /\ read[e].status \in Status
                                   /\ read[e].id \in {Entry[f].id : f \in Entries}
BY DEF Reads

LEMMA ParsedIsRead ==
  ASSUME HurtConstants, NEW shown \in SUBSET Entries
  PROVE  Hurt!Parsed(shown) \in Reads
<1> DEFINE row(e) == [id |-> Entry[e].id, name |-> Entry[e].name, status |-> Entry[e].status,
                      team |-> IF Entry[e].team # NoTeam THEN Entry[e].team ELSE Entry[e].group]
           Rows == [id : {Entry[e].id : e \in Entries}, name : {Entry[e].name : e \in Entries},
                    status : Status, team : {Entry[e].team : e \in Entries}
                                            \union {Entry[e].group : e \in Entries}]
<1>1. \A e \in Entries : Entry[e].status \in Status
  BY DEF HurtConstants, Hurt!InjuryConstants
<1>2. \A e \in shown : row(e) \in Rows
  BY <1>1
<1>3. Hurt!Parsed(shown) = [e \in shown |-> row(e)]
  BY DEF Hurt!Parsed
<1> HIDE DEF row, Rows
<1>4. Hurt!Parsed(shown) \in [shown -> Rows]
  BY <1>2, <1>3
<1> QED BY <1>4 DEF Reads, Rows

LEMMA NothingIsRead == <<>> \in Reads
<1> DEFINE Rows == [id : {Entry[e].id : e \in Entries}, name : {Entry[e].name : e \in Entries},
                    status : Status, team : {Entry[e].team : e \in Entries}
                                            \union {Entry[e].group : e \in Entries}]
<1> HIDE DEF Rows
<1>1. <<>> \in [{} -> Rows]
  OBVIOUS
<1> QED BY <1>1 DEF Reads, Rows

\* An entry that is placed is of one player, who has its name.
LEMMA AnEntryIsOfItsPlayer ==
  ASSUME HurtConstants, NEW read, NEW e \in Hurt!Placed(read)
  PROVE  /\ e \in DOMAIN read
         /\ Hurt!PlayerOf(read[e]) \in Players
         /\ read[e].name = NameOf[Hurt!PlayerOf(read[e])]
<1> DEFINE fit == Hurt!Candidates(read[e])
<1>1. e \in DOMAIN read /\ Cardinality(fit) = 1
  BY HurtCounts DEF Hurt!Placed
<1>2. fit # {}
  BY <1>1, FS_EmptySet
<1>3. \A p \in fit : p \in Players /\ NameOf[p] = read[e].name
  BY DEF Hurt!Candidates
<1> HIDE DEF fit
<1>4. Hurt!PlayerOf(read[e]) = CHOOSE p \in Players : p \in fit
  BY DEF Hurt!PlayerOf, fit
<1>5. Hurt!PlayerOf(read[e]) \in fit
  BY <1>2, <1>3, <1>4
<1> QED BY <1>1, <1>3, <1>5

StampOf(w) == update[w].observed_at

\* The reports an update adds for the entries.
Told(told, w, read) ==
  /\ \A n \in DOMAIN told :
       /\ told[n].observed_at = StampOf(w)
       /\ \E e \in Hurt!Written(read) :
            told[n].player = Hurt!PlayerOf(read[e]) /\ told[n].status = read[e].status
  /\ \A p : \A e \in Hurt!Written(read) :
       Hurt!PlayerOf(read[e]) = p
       /\ (\A f \in Hurt!Written(read) : Hurt!PlayerOf(read[f]) = p => f <= e)
       => \E n : IsLastOf(told, p, n) /\ told[n].status = read[e].status

LEMMA TheReported ==
  ASSUME HurtConstants, NEW w, StampOf(w) \in Nat, NEW read \in Reads
  PROVE  /\ Hurt!Reported(w, read) \in Seq(ReportRow)
         /\ Told(Hurt!Reported(w, read), w, read)
<1> DEFINE new == Hurt!Written(read)
           k == Cardinality(new)
           nth == Enumeration(new)
           row(e) == Hurt!Report(Hurt!PlayerOf(read[e]), read[e].status, read[e].id, w)
           all == Hurt!Reported(w, read)
<1>1. new \in SUBSET Nat /\ IsFiniteSet(new) /\ new \subseteq DOMAIN read
      /\ new \subseteq Hurt!Placed(read)
  <2>1. new \subseteq Hurt!Placed(read) /\ Hurt!Placed(read) \subseteq DOMAIN read
    BY DEF Hurt!Written, Hurt!Placed
  <2>2. DOMAIN read \in SUBSET Entries
    BY ReadFeed
  <2>3. Entries \subseteq Nat /\ IsFiniteSet(Entries)
    BY DEF HurtConstants, Hurt!InjuryConstants
  <2> HIDE DEF new
  <2>4. new \in SUBSET Entries
    BY <2>1, <2>2
  <2> QED BY <2>1, <2>3, <2>4, FS_Subset
<1>2. all = [n \in DOMAIN nth |-> row(nth[n])]
  BY Zenon DEF Hurt!Reported, Hurt!Cardinality, Cardinality, Hurt!IsFiniteSet, IsFiniteSet,
               Enumeration
<1> HIDE DEF new, all
<1>3. /\ k \in Nat /\ nth \in [1..k -> new]
      /\ \A m, n \in 1..k : m < n => nth[m] < nth[n]
      /\ \A e \in new : \E n \in 1..k : nth[n] = e
  BY <1>1, Enumerated
<1> HIDE DEF nth, k
<1>4. \A e \in new : row(e) \in ReportRow
  <2> TAKE e \in new
  <2>1. e \in Hurt!Placed(read) /\ e \in DOMAIN read
    BY <1>1
  <2>2. Hurt!PlayerOf(read[e]) \in Players
    BY <2>1, AnEntryIsOfItsPlayer
  <2>3. read[e].status \in Status /\ read[e].id \in {Entry[f].id : f \in Entries}
    BY <2>1, ReadFeed
  <2> QED BY <2>2, <2>3 DEF Hurt!Report, ReportRow, StampOf
<1>5. \A e : /\ row(e).player = Hurt!PlayerOf(read[e]) /\ row(e).status = read[e].status
             /\ row(e).observed_at = StampOf(w)
  BY DEF Hurt!Report, StampOf
<1> HIDE DEF row
<1>6. DOMAIN all = 1..k /\ \A n \in 1..k : nth[n] \in new /\ all[n] = row(nth[n])
  BY <1>2, <1>3
<1>7. all \in Seq(ReportRow)
  <2>1. all \in [1..k -> ReportRow]
    BY <1>2, <1>3, <1>4
  <2> QED BY <2>1, <1>3
<1>8. ASSUME NEW p, NEW e \in new, Hurt!PlayerOf(read[e]) = p,
             \A f \in new : Hurt!PlayerOf(read[f]) = p => f <= e
      PROVE  \E n : IsLastOf(all, p, n) /\ all[n].status = read[e].status
  <2>1. PICK n \in 1..k : nth[n] = e
    BY <1>3
  <2>2. n \in OfPlayer(all, p) /\ all[n].status = read[e].status
    BY <1>5, <1>6, <1>8, <2>1 DEF OfPlayer
  <2>3. ASSUME NEW m \in OfPlayer(all, p) PROVE m <= n
    <3>1. m \in 1..k /\ all[m].player = p
      BY <1>6 DEF OfPlayer
    <3>2. nth[m] \in new /\ Hurt!PlayerOf(read[nth[m]]) = p
      BY <1>5, <1>6, <3>1
    <3>3. nth[m] <= e
      BY <1>8, <3>2
    <3>4. n < m => e < nth[m]
      BY <1>3, <2>1, <3>1
    <3>5. e \in Nat /\ nth[m] \in Nat /\ m \in Int /\ n \in Int
      <4>1. \A f \in new : f \in Nat
        BY <1>1
      <4>2. m \in Int /\ n \in Int
        BY <1>3, <3>1
      <4> QED BY <3>2, <4>1, <4>2
    <3> QED BY <3>3, <3>4, <3>5
  <2> QED BY <2>2, <2>3 DEF IsLastOf
<1>9. \A n \in 1..k : /\ all[n].observed_at = StampOf(w)
                      /\ \E e \in new : /\ all[n].player = Hurt!PlayerOf(read[e])
                                        /\ all[n].status = read[e].status
  BY <1>5, <1>6
<1> QED BY <1>6, <1>7, <1>8, <1>9 DEF new, all, Told

\* The players an update finds to have recovered.
Back(rows, read) ==
  {p \in Players : /\ Hurt!HurtIn(rows, p) /\ Hurt!Missing(p, read)
                   /\ \A e \in Hurt!Placed(read) : Hurt!PlayerOf(read[e]) # p}

\* The marks an update adds to the rows.
Marks(marks, w, rows, read) ==
  /\ Hurt!WithMarks(rows, Hurt!MarkRecovered(w, rows, read)) = rows \o marks
  /\ \A n \in DOMAIN marks :
       /\ DOMAIN read # {} /\ marks[n].player \in Back(rows, read)
       /\ marks[n].status = Recovered /\ marks[n].observed_at = StampOf(w)
  /\ DOMAIN read # {} =>
       \A p \in Back(rows, read) : OfPlayer(marks, p) # {}

LEMMA TheMarks ==
  ASSUME HurtConstants, NEW w, StampOf(w) \in Nat, NEW rows \in Seq(ReportRow), NEW read
  PROVE  \E marks \in Seq(ReportRow) : Marks(marks, w, rows, read)
<1> DEFINE mark(p) == Hurt!Report(p, Recovered, NoId, w)
           back == Back(rows, read)
           who == IF DOMAIN read = {} THEN {} ELSE back
           set == Hurt!MarkRecovered(w, rows, read)
           pair == [p \in who |-> <<p, mark(p)>>]
           k == Cardinality(set)
           order == CHOOSE f \in [1..k -> set] : \A m \in set : \E n \in DOMAIN f : f[n] = m
           marks == [n \in DOMAIN order |-> order[n][2]]
<1>1. set = {<<p, mark(p)>> : p \in who}
  <2>1. set = IF DOMAIN read = {} THEN {} ELSE {<<p, mark(p)>> : p \in back}
    BY Zenon DEF Hurt!MarkRecovered, Back
  <2> HIDE DEF back, set
  <2> QED BY <2>1
<1>2. Hurt!WithMarks(rows, set) = rows \o marks
  BY Zenon DEF Hurt!WithMarks, Hurt!Cardinality, Cardinality, Hurt!IsFiniteSet, IsFiniteSet
<1>3. back \in SUBSET Players /\ who \in SUBSET Players
  BY DEF Back
<1> HIDE DEF set, back
<1>4. IsFiniteSet(set)
  <2>1. IsFiniteSet(who)
    BY <1>3, FS_Subset DEF HurtConstants
  <2> HIDE DEF who, mark
  <2>2. pair \in Surjection(who, set)
    BY <1>1 DEF Surjection
  <2> QED BY <2>1, <2>2, FS_Surjection
<1>5. k \in Nat /\ \E f \in [1..k -> set] : \A m \in set : \E n \in 1..k : f[n] = m
  <2>1. k \in Nat /\ ExistsBijection(1..k, set)
    BY <1>4, FS_CardinalityType
  <2> QED BY <2>1 DEF ExistsBijection, Bijection, Surjection
<1> HIDE DEF k
<1>6. order \in [1..k -> set] /\ \A m \in set : \E n \in 1..k : order[n] = m
  <2>1. \E f \in [1..k -> set] : \A m \in set : \E n \in DOMAIN f : f[n] = m
    BY <1>5
  <2>2. order \in [1..k -> set] /\ \A m \in set : \E n \in DOMAIN order : order[n] = m
    BY <2>1, Zenon
  <2> HIDE DEF order
  <2> QED BY <2>2
<1> HIDE DEF order
<1>7. \A p \in who : mark(p) \in ReportRow
  BY <1>3 DEF HurtConstants, Hurt!InjuryConstants, Hurt!Report, ReportRow, StampOf
<1>8. \A p : mark(p).player = p /\ mark(p).status = Recovered /\ mark(p).observed_at = StampOf(w)
  BY DEF Hurt!Report, StampOf
<1>9. \A p \in who : DOMAIN read # {} /\ p \in back
  OBVIOUS
<1>10. DOMAIN read # {} => who = back
  OBVIOUS
<1> HIDE DEF mark, who
<1>11. \A n \in 1..k : \E p \in who : order[n][2] = mark(p)
  BY <1>1, <1>6
<1>12. \A p \in who : \E n \in 1..k : order[n][2] = mark(p)
  <2> TAKE p \in who
  <2>1. <<p, mark(p)>> \in set
    BY <1>1
  <2>2. PICK n \in 1..k : order[n] = <<p, mark(p)>>
    BY <1>6, <2>1
  <2> QED BY <2>2
<1>13. DOMAIN marks = 1..k /\ \A n \in 1..k : marks[n] = order[n][2]
  BY <1>6
<1>14. marks \in Seq(ReportRow)
  <2>1. \A n \in 1..k : order[n][2] \in ReportRow
    BY <1>7, <1>11
  <2>2. marks \in [1..k -> ReportRow]
    BY <2>1, <1>6
  <2> QED BY <2>2, <1>5
<1> HIDE DEF marks
<1>15. \A n \in DOMAIN marks :
         /\ DOMAIN read # {} /\ marks[n].player \in back
         /\ marks[n].status = Recovered /\ marks[n].observed_at = StampOf(w)
  BY <1>8, <1>9, <1>11, <1>13
<1>16. \A p \in who : OfPlayer(marks, p) # {}
  BY <1>8, <1>12, <1>13 DEF OfPlayer
<1> QED BY <1>2, <1>10, <1>14, <1>15, <1>16 DEF set, back, Marks

\* The rows an update writes: the reports of the entries, then the marks.
StoredAs(told, marks, w) ==
  /\ reports \o told \in Seq(ReportRow) /\ Told(told, w, update[w].read)
  /\ reports' = (reports \o told) \o marks /\ reports' \in Seq(ReportRow)
  /\ Marks(marks, w, reports \o told, update[w].read)

LEMMA TheRowsStored ==
  ASSUME HurtConstants, NEW w, StampOf(w) \in Nat, update[w].read \in Reads,
         reports \in Seq(ReportRow), Hurt!Store(w)
  PROVE  \E told \in Seq(ReportRow), marks \in Seq(ReportRow) : StoredAs(told, marks, w)
<1> DEFINE read == update[w].read
           told == Hurt!Reported(w, read)
           rows == reports \o told
<1>1. told \in Seq(ReportRow) /\ Told(told, w, read)
  BY TheReported
<1>2. rows \in Seq(ReportRow)
  <2> HIDE DEF told
  <2> QED BY <1>1, AppendedRows
<1>3. reports' = Hurt!WithMarks(rows, Hurt!MarkRecovered(w, rows, read))
  BY DEF Hurt!Store
<1> HIDE DEF told, rows, read
<1>4. PICK marks \in Seq(ReportRow) : Marks(marks, w, rows, read)
  BY <1>2, TheMarks
<1>5. reports' = rows \o marks
  BY <1>3, <1>4 DEF Marks
<1>6. rows \o marks \in Seq(ReportRow)
  BY <1>2, <1>4, AppendedRows
<1> QED BY <1>1, <1>2, <1>4, <1>5, <1>6 DEF told, rows, read, StoredAs

\* What a player's newest report says after an update: what it said before, what
\* an entry says that is his, or, if no entry has his name, that he has recovered.
LEMMA WhatAnUpdateSays ==
  ASSUME HurtConstants, NEW w, StampOf(w) \in Nat, update[w].read \in Reads,
         reports \in Seq(ReportRow), Hurt!Store(w), NEW p
  PROVE  \/ StatusIn(reports', p) = StatusIn(reports, p)
         \/ \E e \in Hurt!Written(update[w].read) :
              /\ Hurt!PlayerOf(update[w].read[e]) = p
              /\ StatusIn(reports', p) = update[w].read[e].status
         \/ /\ DOMAIN update[w].read # {} /\ Hurt!Missing(p, update[w].read)
            /\ StatusIn(reports', p) = Recovered
<1> DEFINE read == update[w].read
<1>1. PICK told \in Seq(ReportRow), marks \in Seq(ReportRow) : StoredAs(told, marks, w)
  BY TheRowsStored
<1>2. Told(told, w, read) /\ Marks(marks, w, reports \o told, read)
      /\ reports \o told \in Seq(ReportRow) /\ reports' = (reports \o told) \o marks
  BY <1>1 DEF StoredAs
<1> HIDE DEF read
<1> DEFINE rows == reports \o told
<1>3. \/ StatusIn(rows, p) = StatusIn(reports, p)
      \/ \E n \in OfPlayer(told, p) : StatusIn(rows, p) = told[n].status
  BY OldOrAdded
<1>4. \/ StatusIn(reports', p) = StatusIn(rows, p)
      \/ \E n \in OfPlayer(marks, p) : StatusIn(reports', p) = marks[n].status
  <2> HIDE DEF rows
  <2>1. rows \in Seq(ReportRow) /\ reports' = rows \o marks
    BY <1>2 DEF rows
  <2> QED BY <2>1, OldOrAdded
<1> HIDE DEF rows
<1>5. \A n \in OfPlayer(told, p) : \E e \in Hurt!Written(read) :
        Hurt!PlayerOf(read[e]) = p /\ told[n].status = read[e].status
  BY <1>2 DEF OfPlayer, Told
<1>6. \A n \in OfPlayer(marks, p) :
        DOMAIN read # {} /\ Hurt!Missing(p, read) /\ marks[n].status = Recovered
  <2> TAKE n \in OfPlayer(marks, p)
  <2>1. n \in DOMAIN marks /\ marks[n].player = p
    BY DEF OfPlayer
  <2> QED BY <1>2, <2>1 DEF Back, Marks
<1> QED BY <1>3, <1>4, <1>5, <1>6 DEF read

\* The entries written that are a player's.
EntriesOf(p, read) == {e \in Hurt!Written(read) : Hurt!PlayerOf(read[e]) = p}
Named(p, read) == \E e \in DOMAIN read : read[e].name = NameOf[p]

ToldOf(p, read, before) ==
  IF EntriesOf(p, read) # {}
  THEN read[CHOOSE e \in EntriesOf(p, read) : \A f \in EntriesOf(p, read) : f <= e].status
  ELSE IF ~Named(p, read) /\ before \notin Healthy \union {NoReport} THEN Recovered
  ELSE before

LEMMA TheLastEntry ==
  ASSUME HurtConstants, NEW read \in Reads, NEW p, EntriesOf(p, read) # {}
  PROVE  LET last == CHOOSE e \in EntriesOf(p, read) : \A f \in EntriesOf(p, read) : f <= e
         IN last \in EntriesOf(p, read) /\ \A f \in EntriesOf(p, read) : f <= last
<1>1. EntriesOf(p, read) \in SUBSET Entries
  BY ReadFeed DEF EntriesOf, Hurt!Written, Hurt!Placed
<1>2. IsFiniteSet(Entries) /\ Entries \subseteq Nat
  BY DEF HurtConstants, Hurt!InjuryConstants
<1> DEFINE mine == EntriesOf(p, read)
           later(e) == {f \in mine : f > e}
           sizes == {Cardinality(later(e)) : e \in mine}
<1> HIDE DEF mine
<1>3. mine # {} /\ mine \in SUBSET Nat /\ IsFiniteSet(mine)
  BY <1>1, <1>2, FS_Subset DEF mine
<1>4. \A e \in mine : IsFiniteSet(later(e)) /\ Cardinality(later(e)) \in Nat
  BY <1>3, FS_Subset, FS_CardinalityType
<1>5. sizes \in SUBSET Nat /\ sizes # {}
  BY <1>3, <1>4
<1>6. PICK n \in sizes : \A m \in sizes : n <= m
  <2> HIDE DEF sizes
  <2> QED BY <1>5, LeastNumber
<1>7. PICK e \in mine : \A f \in mine : Cardinality(later(e)) <= Cardinality(later(f))
  BY <1>6
<1>8. ASSUME NEW f \in mine, f > e PROVE FALSE
  <2>1. later(f) \in SUBSET later(e) /\ f \in later(e) /\ f \notin later(f)
    <3>1. \A g \in mine : g \in Nat
      BY <1>3
    <3> QED BY <1>8, <3>1
  <2>2. /\ IsFiniteSet(later(e)) /\ Cardinality(later(f)) \in Nat /\ Cardinality(later(e)) \in Nat
        /\ Cardinality(later(e)) <= Cardinality(later(f))
    BY <1>4, <1>7
  <2> HIDE DEF later
  <2>3. Cardinality(later(f)) <= Cardinality(later(e)) /\ Cardinality(later(f)) # Cardinality(later(e))
    BY <2>1, <2>2, FS_Subset
  <2> QED BY <2>2, <2>3
<1>9. \A f \in mine : f <= e
  <2>1. \A f \in mine : f \in Nat
    BY <1>3
  <2> QED BY <1>8, <2>1
<1>10. \E f \in mine : \A g \in mine : g <= f
  BY <1>9
<1> QED BY <1>10, Zenon DEF mine

\* An update that is stamped no earlier than any report tells what the feed says.
LEMMA AnUpdateInOrderTells ==
  ASSUME HurtConstants, NEW w, StampOf(w) \in Nat, update[w].read \in Reads,
         reports \in Seq(ReportRow), Hurt!Store(w), reports' # reports, NEW p \in Players,
         \A r \in DOMAIN reports : reports[r].observed_at <= StampOf(w)
  PROVE  StatusIn(reports', p) = ToldOf(p, update[w].read, StatusIn(reports, p))
<1> DEFINE read == update[w].read
           before == StatusIn(reports, p)
<1>1. PICK told \in Seq(ReportRow), marks \in Seq(ReportRow) : StoredAs(told, marks, w)
  BY TheRowsStored
<1>2. Told(told, w, read) /\ Marks(marks, w, reports \o told, read)
      /\ reports \o told \in Seq(ReportRow) /\ reports' = (reports \o told) \o marks
  BY <1>1 DEF StoredAs
<1>3. read \in Reads
  OBVIOUS
<1> HIDE DEF read
<1> DEFINE rows == reports \o told
<1>4. rows \in Seq(ReportRow) /\ reports' = rows \o marks
  BY <1>2
<1>5. NoneAfter(rows, StampOf(w))
  <2>1. /\ DOMAIN rows = 1..(Len(reports) + Len(told))
        /\ DOMAIN reports = 1..Len(reports) /\ DOMAIN told = 1..Len(told)
        /\ \A r \in 1..Len(reports) : rows[r] = reports[r]
        /\ \A r \in 1..(Len(reports) + Len(told)) :
             r \notin 1..Len(reports) => /\ r - Len(reports) \in 1..Len(told)
                                         /\ rows[r] = told[r - Len(reports)]
    BY AppendedRows
  <2> HIDE DEF rows
  <2>2. ASSUME NEW r \in DOMAIN rows PROVE rows[r].observed_at <= StampOf(w)
    <3>1. CASE r \in 1..Len(reports)
      BY <2>1, <3>1
    <3>2. CASE r \notin 1..Len(reports)
      <4>1. r - Len(reports) \in DOMAIN told /\ rows[r] = told[r - Len(reports)]
        BY <2>1, <2>2, <3>2
      <4>2. rows[r].observed_at = StampOf(w)
        BY <1>2, <4>1 DEF Told
      <4> QED BY <4>2
    <3> QED BY <3>1, <3>2
  <2> QED BY <2>2 DEF NoneAfter
<1>6. p \in Back(rows, read) =>
        StatusIn(rows, p) \notin Healthy /\ ~Named(p, read) /\ OfPlayer(rows, p) # {}
  BY HurtInIsStatusIn DEF Back, Hurt!Missing, Named
<1>7. ~Named(p, read) => EntriesOf(p, read) = {} /\ \A e \in Hurt!Placed(read) : Hurt!PlayerOf(read[e]) # p
  <2>1. \A e \in Hurt!Placed(read) : e \in DOMAIN read /\ read[e].name = NameOf[Hurt!PlayerOf(read[e])]
    BY AnEntryIsOfItsPlayer
  <2>2. Hurt!Written(read) \subseteq Hurt!Placed(read)
    BY DEF Hurt!Written
  <2> QED BY <2>1, <2>2 DEF Named, EntriesOf
<1> HIDE DEF rows
<1>8. CASE EntriesOf(p, read) # {}
  <2> DEFINE last == CHOOSE e \in EntriesOf(p, read) : \A f \in EntriesOf(p, read) : f <= e
  <2>1. last \in EntriesOf(p, read) /\ \A f \in EntriesOf(p, read) : f <= last
    BY <1>3, <1>8, TheLastEntry
  <2> HIDE DEF last
  <2>2. PICK n : IsLastOf(told, p, n) /\ told[n].status = read[last].status
    BY <1>2, <2>1 DEF EntriesOf, Told
  <2>3. StatusIn(rows, p) = told[n].status
    <3>1. NoneAfter(reports, StampOf(w)) /\ AllAt(told, StampOf(w))
      BY <1>2 DEF NoneAfter, AllAt, Told
    <3> QED BY <2>2, <3>1, TheLastAddedTells DEF rows
  <2>4. OfPlayer(marks, p) = {}
    BY <1>2, <1>6, <1>7, <1>8 DEF OfPlayer, rows, Marks
  <2>5. StatusIn(reports', p) = StatusIn(rows, p)
    BY <1>4, <2>4, NobodyElseIsTold
  <2> QED BY <1>8, <2>2, <2>3, <2>5 DEF ToldOf, last, read
<1>9. CASE EntriesOf(p, read) = {}
  <2>1. OfPlayer(told, p) = {}
    BY <1>2, <1>9 DEF OfPlayer, EntriesOf, Told
  <2>2. StatusIn(rows, p) = before
    BY <2>1, NobodyElseIsTold DEF rows
  <2>3. CASE OfPlayer(marks, p) # {}
    <3>1. PICK n \in OfPlayer(marks, p) : \A m \in OfPlayer(marks, p) : m <= n
      <4>1. OfPlayer(marks, p) \subseteq 1..Len(marks) /\ Len(marks) \in Nat
        BY DEF OfPlayer
      <4>2. OfPlayer(marks, p) \in SUBSET Nat /\ \A m \in OfPlayer(marks, p) : m <= Len(marks)
        BY <4>1
      <4> QED BY <2>3, <4>1, <4>2, GreatestNumber
    <3>2. StatusIn(reports', p) = marks[n].status
      <4>1. IsLastOf(marks, p, n)
        BY <3>1 DEF IsLastOf
      <4>2. AllAt(marks, StampOf(w))
        BY <1>2 DEF AllAt, Marks
      <4> QED BY <1>4, <1>5, <4>1, <4>2, TheLastAddedTells
    <3>3. n \in DOMAIN marks /\ marks[n].player = p
      BY <3>1 DEF OfPlayer
    <3>4. marks[n].status = Recovered /\ p \in Back(rows, read)
      BY <1>2, <3>3 DEF rows, Marks
    <3>5. OfPlayer(reports, p) # {}
      <4>1. OfPlayer(rows, p) # {}
        BY <1>6, <3>4
      <4>2. OfPlayer(rows, p) \subseteq OfPlayer(reports, p)
        <5>1. /\ DOMAIN rows = 1..(Len(reports) + Len(told))
              /\ DOMAIN reports = 1..Len(reports) /\ DOMAIN told = 1..Len(told)
              /\ \A r \in 1..Len(reports) : rows[r] = reports[r]
              /\ \A r \in 1..(Len(reports) + Len(told)) :
                   r \notin 1..Len(reports) => /\ r - Len(reports) \in 1..Len(told)
                                               /\ rows[r] = told[r - Len(reports)]
          BY AppendedRows DEF rows
        <5> QED BY <2>1, <5>1 DEF OfPlayer
      <4> QED BY <4>1, <4>2
    <3>6. before \in Status
      BY <3>5, AStatusIsReported
    <3>7. before \notin Healthy \union {NoReport}
      <4>1. before \notin Healthy
        BY <1>6, <2>2, <3>4
      <4> QED BY <3>6, <4>1 DEF HurtConstants, Hurt!InjuryConstants
    <3> QED BY <1>6, <1>9, <3>2, <3>4, <3>7 DEF ToldOf, read
  <2>4. CASE OfPlayer(marks, p) = {}
    <3>1. StatusIn(reports', p) = before
      BY <1>4, <2>2, <2>4, NobodyElseIsTold
    <3>2. ASSUME ~Named(p, read), before \notin Healthy \union {NoReport} PROVE FALSE
      <4>1. StatusIn(rows, p) \notin Healthy /\ OfPlayer(rows, p) # {}
        BY <2>2, <3>2 DEF StatusIn
      <4>2. Hurt!Missing(p, read)
        BY <3>2 DEF Named, Hurt!Missing
      <4>3. p \in Back(rows, read)
        BY <1>7, <3>2, <4>1, <4>2, HurtInIsStatusIn DEF Back
      <4>4. DOMAIN read = {}
        BY <1>2, <2>4, <4>3 DEF rows, Marks
      <4>5. DOMAIN told = {} /\ DOMAIN marks = {}
        BY <1>2, <4>4 DEF Hurt!Written, Hurt!Placed, Told, Marks
      <4>6. told = <<>> /\ marks = <<>>
        BY <4>5
      <4>7. rows = reports
        BY <4>6 DEF rows
      <4>8. reports' = reports
        BY <1>4, <4>6, <4>7
      <4> QED BY <4>8
    <3> QED BY <1>9, <3>1, <3>2 DEF ToldOf, read
  <2> QED BY <2>3, <2>4
<1> QED BY <1>8, <1>9

-----------------------------------------------------------------------------
(* The injury report: the invariant *)

UpdateRecord == [pc : {"idle", "waiting", "storing"}, observed_at : Nat, read : Reads]

HurtShape ==
  /\ now \in 0..LastInstant /\ feed \in SUBSET Entries
  /\ roll \in [Players -> [team : Teams, is_active : BOOLEAN]]
  /\ reports \in Seq(ReportRow) /\ update \in [Workers -> UpdateRecord]

\* Nothing is stamped in the future.
StampedByNow ==
  NoneAfter(reports, now) /\ \A w \in Workers : update[w].observed_at <= now

\* The tally is one's at a time.
StoredInTurn == \A v, w \in Workers : Hurt!At(v, "storing") /\ Hurt!At(w, "storing") => v = w

HurtInv == HurtShape /\ StampedByNow /\ StoredInTurn

LEMMA HurtInitInv == HurtConstants /\ Hurt!Init => HurtInv
<1> SUFFICES ASSUME HurtConstants, Hurt!Init PROVE HurtInv
  OBVIOUS
<1>1. Hurt!Idle \in UpdateRecord
  BY NothingIsRead DEF Hurt!Idle, UpdateRecord
<1>2. HurtShape
  <2>1. roll \in [Players -> [team : Teams, is_active : BOOLEAN]]
    BY DEF Hurt!Init
  <2>2. update \in [Workers -> UpdateRecord]
    BY <1>1 DEF Hurt!Init
  <2>3. reports \in Seq(ReportRow) /\ now \in 0..LastInstant /\ feed \in SUBSET Entries
    BY DEF Hurt!Init, HurtConstants
  <2> QED BY <2>1, <2>2, <2>3 DEF HurtShape
<1>3. StampedByNow
  BY DEF Hurt!Init, StampedByNow, NoneAfter, Hurt!Idle
<1>4. StoredInTurn
  BY DEF Hurt!Init, StoredInTurn, Hurt!At, Hurt!Idle
<1> QED BY <1>2, <1>3, <1>4 DEF HurtInv

LEMMA HurtStoreInv ==
  ASSUME HurtConstants, HurtInv, NEW w \in Workers, Hurt!Store(w)
  PROVE  HurtInv'
<1>1. /\ reports \in Seq(ReportRow) /\ update[w] \in UpdateRecord /\ now \in Nat
      /\ update \in [Workers -> UpdateRecord]
  BY DEF HurtInv, HurtShape
<1>2. StampOf(w) \in Nat /\ update[w].read \in Reads /\ StampOf(w) <= now
  BY <1>1 DEF UpdateRecord, StampOf, HurtInv, StampedByNow
<1>3. PICK told \in Seq(ReportRow), marks \in Seq(ReportRow) : StoredAs(told, marks, w)
  BY <1>1, <1>2, TheRowsStored
<1>4. /\ reports' \in Seq(ReportRow) /\ reports' = (reports \o told) \o marks
      /\ reports \o told \in Seq(ReportRow)
      /\ AllAt(told, StampOf(w)) /\ AllAt(marks, StampOf(w))
  BY <1>3 DEF StoredAs, Told, Marks, AllAt
<1>5. ASSUME NEW rows \in Seq(ReportRow), NEW new \in Seq(ReportRow),
             NoneAfter(rows, now), AllAt(new, StampOf(w))
      PROVE  NoneAfter(rows \o new, now)
  <2>1. /\ DOMAIN (rows \o new) = 1..(Len(rows) + Len(new))
        /\ DOMAIN rows = 1..Len(rows) /\ DOMAIN new = 1..Len(new)
        /\ \A r \in 1..Len(rows) : (rows \o new)[r] = rows[r]
        /\ \A r \in 1..(Len(rows) + Len(new)) :
             r \notin 1..Len(rows) => /\ r - Len(rows) \in 1..Len(new)
                                      /\ (rows \o new)[r] = new[r - Len(rows)]
    BY AppendedRows
  <2> DEFINE all == rows \o new
  <2> HIDE DEF all
  <2>2. ASSUME NEW r \in DOMAIN all PROVE all[r].observed_at <= now
    <3>1. CASE r \in 1..Len(rows)
      BY <1>5, <2>1, <3>1 DEF all, NoneAfter
    <3>2. CASE r \notin 1..Len(rows)
      <4>1. r - Len(rows) \in DOMAIN new /\ all[r] = new[r - Len(rows)]
        BY <2>1, <2>2, <3>2 DEF all
      <4>2. all[r].observed_at = StampOf(w)
        BY <1>5, <4>1 DEF AllAt
      <4> QED BY <1>2, <4>2
    <3> QED BY <3>1, <3>2
  <2> QED BY <2>2 DEF all, NoneAfter
<1>6. NoneAfter(reports', now)
  <2>1. NoneAfter(reports, now)
    BY DEF HurtInv, StampedByNow
  <2>2. NoneAfter(reports \o told, now)
    BY <1>1, <1>4, <1>5, <2>1
  <2> QED BY <1>4, <1>5, <2>2
<1>7. now' = now /\ feed' = feed /\ roll' = roll /\ update' = [update EXCEPT ![w] = Hurt!Idle]
  BY DEF Hurt!Store
<1>8. Hurt!Idle \in UpdateRecord /\ Hurt!Idle.observed_at = 0 /\ Hurt!Idle.pc = "idle"
  BY NothingIsRead DEF Hurt!Idle, UpdateRecord
<1>9. HurtShape'
  BY <1>1, <1>4, <1>7, <1>8 DEF HurtInv, HurtShape
<1>10. StampedByNow'
  <2>1. \A v \in Workers : update'[v] = update[v] \/ update'[v].observed_at = 0
    BY <1>1, <1>7, <1>8
  <2>2. \A v \in Workers : update[v].observed_at <= now
    BY DEF HurtInv, StampedByNow
  <2>3. NoneAfter(reports', now')
    BY <1>6, <1>7
  <2> QED BY <1>1, <1>7, <2>1, <2>2, <2>3 DEF StampedByNow
<1>11. StoredInTurn'
  BY <1>1, <1>7, <1>8 DEF HurtInv, StoredInTurn, Hurt!At
<1> QED BY <1>9, <1>10, <1>11 DEF HurtInv

LEMMA HurtStepInv == HurtConstants /\ HurtInv /\ [Hurt!Next]_(Hurt!vars) => HurtInv'
<1> SUFFICES ASSUME HurtConstants, HurtInv, [Hurt!Next]_(Hurt!vars) PROVE HurtInv'
  OBVIOUS
<1>1. /\ now \in 0..LastInstant /\ now \in Nat /\ LastInstant \in Nat
      /\ update \in [Workers -> UpdateRecord]
  BY DEF HurtInv, HurtShape, HurtConstants
<1>2. Hurt!Idle \in UpdateRecord /\ Hurt!Idle.observed_at = 0 /\ Hurt!Idle.pc = "idle"
  BY NothingIsRead DEF Hurt!Idle, UpdateRecord
<1>3. ASSUME NEW w \in Workers, Hurt!Begin(w) PROVE HurtInv'
  <2>1. [Hurt!Idle EXCEPT !.pc = "waiting", !.observed_at = now] \in UpdateRecord
    BY <1>1, <1>2 DEF UpdateRecord
  <2>2. HurtShape'
    BY <1>1, <1>3, <2>1 DEF Hurt!Begin, HurtInv, HurtShape
  <2>3. \A v \in Workers : \/ update'[v] = update[v]
                           \/ update'[v].observed_at = now /\ update'[v].pc = "waiting"
    BY <1>1, <1>2, <1>3 DEF Hurt!Begin, UpdateRecord
  <2>4. StampedByNow'
    BY <1>1, <1>3, <2>3 DEF Hurt!Begin, HurtInv, StampedByNow, NoneAfter
  <2>5. StoredInTurn'
    BY <2>3 DEF HurtInv, StoredInTurn, Hurt!At
  <2> QED BY <2>2, <2>4, <2>5 DEF HurtInv
<1>4. ASSUME NEW w \in Workers, Hurt!Fetch(w) PROVE HurtInv'
  <2>1. Hurt!Parsed(feed) \in Reads
    BY ParsedIsRead DEF HurtInv, HurtShape
  <2>2. HurtShape'
    <3>1. update' = [update EXCEPT ![w] = [update[w] EXCEPT !.pc = "storing", !.read = Hurt!Parsed(feed)]]
      BY <1>1, <1>4 DEF Hurt!Fetch, UpdateRecord
    <3>2. [update[w] EXCEPT !.pc = "storing", !.read = Hurt!Parsed(feed)] \in UpdateRecord
      BY <1>1, <2>1 DEF UpdateRecord
    <3>3. update' \in [Workers -> UpdateRecord]
      BY <1>1, <3>1, <3>2
    <3> QED BY <1>4, <3>3 DEF Hurt!Fetch, HurtInv, HurtShape
  <2>3. \A v \in Workers : /\ update'[v].observed_at = update[v].observed_at
                           /\ v # w => update'[v] = update[v]
    BY <1>1, <1>4 DEF Hurt!Fetch, UpdateRecord
  <2>4. StampedByNow'
    BY <1>4, <2>3 DEF Hurt!Fetch, HurtInv, StampedByNow, NoneAfter
  <2>5. StoredInTurn'
    BY <1>4, <2>3 DEF Hurt!Fetch, HurtInv, StoredInTurn, Hurt!At
  <2> QED BY <2>2, <2>4, <2>5 DEF HurtInv
<1>5. ASSUME NEW w \in Workers, Hurt!Store(w) PROVE HurtInv'
  BY <1>5, HurtStoreInv
<1>6. ASSUME NEW w \in Workers, Hurt!Fail(w) PROVE HurtInv'
  <2>1. HurtShape'
    BY <1>1, <1>2, <1>6 DEF Hurt!Fail, HurtInv, HurtShape
  <2>2. \A v \in Workers : \/ update'[v] = update[v]
                           \/ update'[v].observed_at = 0 /\ update'[v].pc = "idle"
    BY <1>1, <1>2, <1>6 DEF Hurt!Fail
  <2>3. StampedByNow'
    BY <1>1, <1>6, <2>2 DEF Hurt!Fail, HurtInv, StampedByNow, NoneAfter
  <2>4. StoredInTurn'
    BY <2>2 DEF HurtInv, StoredInTurn, Hurt!At
  <2> QED BY <2>1, <2>3, <2>4 DEF HurtInv
<1>7. CASE Hurt!FeedChanges
  BY <1>7 DEF Hurt!FeedChanges, HurtInv, HurtShape, StampedByNow, NoneAfter, StoredInTurn, Hurt!At
<1>8. CASE Hurt!Tick
  <2>1. now' \in 0..LastInstant /\ now <= now' /\ reports' = reports /\ update' = update
        /\ feed' = feed /\ roll' = roll
    BY <1>1, <1>8 DEF Hurt!Tick
  <2>2. HurtShape' /\ StoredInTurn'
    BY <2>1 DEF HurtInv, HurtShape, StoredInTurn, Hurt!At
  <2>3. /\ \A r \in DOMAIN reports : reports[r].observed_at \in Nat
        /\ \A w \in Workers : update[w].observed_at \in Nat
    <3>1. \A r \in DOMAIN reports : reports[r] \in ReportRow
      BY DEF HurtInv, HurtShape
    <3> QED BY <1>1, <3>1 DEF ReportRow, UpdateRecord
  <2>4. StampedByNow'
    BY <1>1, <2>1, <2>3 DEF HurtInv, StampedByNow, NoneAfter
  <2> QED BY <2>2, <2>4 DEF HurtInv
<1>9. ASSUME NEW p \in Players, NEW t \in Teams, NEW a \in BOOLEAN, Hurt!ImportPlayer(p, t, a)
      PROVE  HurtInv'
  BY <1>9 DEF Hurt!ImportPlayer, HurtInv, HurtShape, StampedByNow, NoneAfter, StoredInTurn, Hurt!At
<1>10. CASE UNCHANGED Hurt!vars
  BY <1>10 DEF Hurt!vars, HurtInv, HurtShape, StampedByNow, NoneAfter, StoredInTurn, Hurt!At
<1> QED BY <1>3, <1>4, <1>5, <1>6, <1>7, <1>8, <1>9, <1>10 DEF Hurt!Next

\* Whoever stores is the one the tally is locked for.
LEMMA WhoeverStores ==
  ASSUME HurtInv, [Hurt!Next]_(Hurt!vars), NEW w \in Workers, Hurt!Storing(w)
  PROVE  Hurt!Store(w)
<1>1. PICK v \in Workers : Hurt!Store(v)
  BY DEF Hurt!Storing, Hurt!Next, Hurt!Begin, Hurt!Fetch, Hurt!Fail, Hurt!FeedChanges,
         Hurt!Tick, Hurt!ImportPlayer, Hurt!vars
<1>2. v = w
  BY <1>1 DEF HurtInv, StoredInTurn, Hurt!Storing, Hurt!Store
<1> QED BY <1>1, <1>2

LEMMA OfAnUpdate ==
  ASSUME HurtInv, NEW w \in Workers
  PROVE  StampOf(w) \in Nat /\ update[w].read \in Reads /\ reports \in Seq(ReportRow)
BY DEF HurtInv, HurtShape, UpdateRecord, StampOf

LEMMA HurtHasTypes == HurtConstants /\ HurtInv => Hurt!TypeOK
<1> SUFFICES ASSUME HurtConstants, HurtInv PROVE Hurt!TypeOK
  OBVIOUS
<1>1. ASSUME NEW r \in DOMAIN reports
      PROVE  /\ reports[r].player \in Players /\ reports[r].status \in Status
             /\ reports[r].observed_at \in 0..now
  <2>1. reports[r] \in ReportRow /\ now \in Nat
    BY DEF HurtInv, HurtShape
  <2> QED BY <2>1 DEF HurtInv, StampedByNow, NoneAfter, ReportRow
<1>2. ASSUME NEW w \in Workers PROVE DOMAIN update[w].read \subseteq Entries
  BY OfAnUpdate, ReadFeed
<1> QED BY <1>1, <1>2 DEF Hurt!TypeOK, HurtInv, HurtShape

\* As long as updates do not overlap, none is stamped before a report is.
InOrder == \A w \in Workers : ~Hurt!At(w, "idle") => NoneAfter(reports, StampOf(w))

LEMMA InOrderStep ==
  OneAtATime /\ HurtConstants /\ HurtInv /\ InOrder /\ [Hurt!Next]_(Hurt!vars) => InOrder'
<1> SUFFICES ASSUME OneAtATime, HurtConstants, HurtInv, InOrder, [Hurt!Next]_(Hurt!vars),
                    NEW w \in Workers, ~Hurt!At(w, "idle")'
             PROVE  NoneAfter(reports', StampOf(w)')
  BY DEF InOrder
<1> USE DEF Hurt!At, StampOf
<1>1. update \in [Workers -> UpdateRecord] /\ Hurt!Idle.pc = "idle"
  BY DEF HurtInv, HurtShape, Hurt!Idle
<1>2. ASSUME NEW v \in Workers, Hurt!Begin(v) PROVE NoneAfter(reports', StampOf(w)')
  <2>1. v = w /\ update'[w].observed_at = now /\ reports' = reports
    BY <1>1, <1>2 DEF OneAtATime, Hurt!Begin, Hurt!Idle
  <2> QED BY <2>1 DEF HurtInv, StampedByNow
<1>3. ASSUME NEW v \in Workers, Hurt!Fetch(v) PROVE NoneAfter(reports', StampOf(w)')
  <2>1. v = w /\ update'[w].observed_at = update[w].observed_at /\ reports' = reports
        /\ update[w].pc # "idle"
    BY <1>1, <1>3 DEF OneAtATime, Hurt!Fetch, UpdateRecord
  <2> QED BY <2>1 DEF InOrder
<1>4. ASSUME NEW v \in Workers, Hurt!Store(v) PROVE FALSE
  BY <1>1, <1>4 DEF OneAtATime, Hurt!Store
<1>5. ASSUME NEW v \in Workers, Hurt!Fail(v) PROVE FALSE
  BY <1>1, <1>5 DEF OneAtATime, Hurt!Fail
<1>6. CASE reports' = reports /\ update' = update
  BY <1>6 DEF InOrder
<1> QED BY <1>2, <1>3, <1>4, <1>5, <1>6
        DEF Hurt!Next, Hurt!FeedChanges, Hurt!Tick, Hurt!ImportPlayer, Hurt!vars

-----------------------------------------------------------------------------
(* The injury report: the theorems *)

\* The variables of the injury report keep their types, and no report is stamped
\* in the future, however many updates run at the same time.
THEOREM HurtTypeCorrect == HurtConstants => (Hurt!Spec => []Hurt!TypeOK)
<1> SUFFICES ASSUME HurtConstants PROVE Hurt!Spec => []Hurt!TypeOK
  OBVIOUS
<1>1. Hurt!Init => HurtInv
  BY HurtInitInv
<1>2. HurtInv /\ [Hurt!Next]_(Hurt!vars) => HurtInv'
  BY HurtStepInv
<1>3. HurtInv => Hurt!TypeOK
  BY HurtHasTypes
<1> QED BY <1>1, <1>2, <1>3, PTL DEF Hurt!Spec

\* However many updates overlap, only a feed that names somebody, and does not
\* name this player as nothing but hurt, makes him healthy again.
THEOREM HurtNeverHealedUnseen ==
  HurtConstants => (Hurt!Spec => [][Hurt!NeverHealedUnseen]_(Hurt!vars))
<1> SUFFICES ASSUME HurtConstants PROVE Hurt!Spec => [][Hurt!NeverHealedUnseen]_(Hurt!vars)
  OBVIOUS
<1>1. Hurt!Init => HurtInv
  BY HurtInitInv
<1>2. HurtInv /\ [Hurt!Next]_(Hurt!vars) => HurtInv'
  BY HurtStepInv
<1>3. HurtInv /\ [Hurt!Next]_(Hurt!vars) => Hurt!NeverHealedUnseen
  <2> SUFFICES ASSUME HurtInv, [Hurt!Next]_(Hurt!vars), NEW w \in Workers, NEW p \in Players,
                      Hurt!Storing(w), Hurt!InjuryState(Hurt!LatestStatus(p)) # "healthy",
                      Hurt!InjuryState(Hurt!LatestStatus(p)') = "healthy"
               PROVE  /\ DOMAIN update[w].read # {}
                      /\ {e \in DOMAIN update[w].read : update[w].read[e].name = NameOf[p]} # {} =>
                           \E e \in {e \in DOMAIN update[w].read :
                                       update[w].read[e].name = NameOf[p]} :
                             Hurt!InjuryState(update[w].read[e].status) = "healthy"
    BY DEF Hurt!NeverHealedUnseen
  <2> DEFINE read == update[w].read
  <2>1. Hurt!Store(w)
    BY WhoeverStores
  <2>2. \/ StatusIn(reports', p) = StatusIn(reports, p)
        \/ \E e \in Hurt!Written(read) :
             Hurt!PlayerOf(read[e]) = p /\ StatusIn(reports', p) = read[e].status
        \/ DOMAIN read # {} /\ Hurt!Missing(p, read)
    BY <2>1, OfAnUpdate, WhatAnUpdateSays
  <2>3. /\ Hurt!InjuryState(StatusIn(reports, p)) # "healthy"
        /\ Hurt!InjuryState(StatusIn(reports', p)) = "healthy"
    BY LatestIsStatusIn
  <2>4. \A e \in Hurt!Written(read) :
          e \in DOMAIN read /\ read[e].name = NameOf[Hurt!PlayerOf(read[e])]
    BY AnEntryIsOfItsPlayer DEF Hurt!Written
  <2> HIDE DEF read
  <2>5. CASE \E e \in Hurt!Written(read) :
               Hurt!PlayerOf(read[e]) = p /\ StatusIn(reports', p) = read[e].status
    BY <2>3, <2>4, <2>5 DEF read
  <2>6. CASE DOMAIN read # {} /\ Hurt!Missing(p, read)
    BY <2>6 DEF read, Hurt!Missing
  <2> QED BY <2>2, <2>3, <2>5, <2>6
<1> QED BY <1>1, <1>2, <1>3, PTL DEF Hurt!Spec

\* As long as updates do not overlap, what is stored says of each player what the
\* feed says: how hurt he is if an entry is placed with him, that he has recovered
\* if he was hurt and is not named, and of anybody else nothing new.
THEOREM HurtFeedIsTold ==
  OneAtATime /\ HurtConstants => (Hurt!Spec => [][Hurt!FeedIsTold]_(Hurt!vars))
<1> SUFFICES ASSUME OneAtATime, HurtConstants PROVE Hurt!Spec => [][Hurt!FeedIsTold]_(Hurt!vars)
  OBVIOUS
<1>1. Hurt!Init => HurtInv /\ InOrder
  <2> SUFFICES ASSUME Hurt!Init PROVE InOrder
    BY HurtInitInv
  <2>1. \A w \in Workers : update[w].pc = "idle"
    BY DEF Hurt!Init, Hurt!Idle
  <2> QED BY <2>1 DEF InOrder, Hurt!At
<1>2. HurtInv /\ InOrder /\ [Hurt!Next]_(Hurt!vars) => (HurtInv /\ InOrder)'
  BY HurtStepInv, InOrderStep
<1>3. HurtInv /\ InOrder /\ [Hurt!Next]_(Hurt!vars) => Hurt!FeedIsTold
  <2> SUFFICES ASSUME HurtInv, InOrder, [Hurt!Next]_(Hurt!vars), NEW w \in Workers,
                      Hurt!Storing(w), NEW p \in Players
               PROVE  Hurt!LatestStatus(p)' =
                        ToldOf(p, update[w].read, Hurt!LatestStatus(p))
    BY Zenon DEF Hurt!FeedIsTold, ToldOf, EntriesOf, Named
  <2>1. Hurt!Store(w) /\ reports' # reports
    BY WhoeverStores DEF Hurt!Storing
  <2>2. \A r \in DOMAIN reports : reports[r].observed_at <= StampOf(w)
    BY DEF InOrder, NoneAfter, Hurt!At, Hurt!Storing
  <2>3. StatusIn(reports', p) = ToldOf(p, update[w].read, StatusIn(reports, p))
    BY <2>1, <2>2, OfAnUpdate, AnUpdateInOrderTells
  <2> QED BY <2>3, LatestIsStatusIn
<1> QED BY <1>1, <1>2, <1>3, PTL DEF Hurt!Spec

HurtStates == {"healthy", "day_to_day", "injured"}

LEMMA NoReportIsNeither ==
  ASSUME HurtConstants
  PROVE  NoReport \notin Healthy \union DayToDay /\ Healthy \intersect DayToDay = {}
BY DEF HurtConstants, Hurt!InjuryConstants

LEMMA ABlankStatus ==
  ASSUME Hurt!BlankIsNeither, NEW s, Hurt!BlankStatus(s)
  PROVE  s \notin Healthy \union DayToDay \union {NoReport} /\ Hurt!InjuryState(s) = "healthy"
BY Zenon DEF Hurt!BlankIsNeither, Hurt!InjuryState

LEMMA AStatusGiven ==
  ASSUME HurtConstants, NEW s, ~Hurt!BlankStatus(s)
  PROVE  /\ Hurt!InjuryState(s) = "healthy" <=> s \in Healthy \union {NoReport}
         /\ Hurt!InjuryState(s) = "day_to_day" <=> s \in DayToDay
         /\ Hurt!InjuryState(s) = "injured" <=> s \notin Healthy \union DayToDay \union {NoReport}
<1>1. NoReport \notin DayToDay /\ Healthy \intersect DayToDay = {}
  BY NoReportIsNeither
<1> QED BY <1>1 DEF Hurt!InjuryState

\* What the filter lets through of a player with that status.
LEMMA WhatTheFilterShows ==
  ASSUME HurtConstants, Hurt!BlankIsNeither, NEW s, NEW state \in HurtStates
  PROVE  Hurt!Filtered(state, s) <=>
           state = IF Hurt!BlankStatus(s) THEN "injured" ELSE Hurt!InjuryState(s)
<1>1. /\ Hurt!Filtered("healthy", s) <=> s \in Healthy \union {NoReport}
      /\ Hurt!Filtered("day_to_day", s) <=> s \in DayToDay
      /\ Hurt!Filtered("injured", s) <=> s \notin Healthy \union DayToDay \union {NoReport}
  <2>1. "healthy" # "injured" /\ "day_to_day" # "injured" /\ "healthy" # "day_to_day"
    OBVIOUS
  <2> QED BY <2>1, Zenon DEF Hurt!Filtered
<1>2. state = "healthy" \/ state = "day_to_day" \/ state = "injured"
  BY DEF HurtStates
<1>3. CASE Hurt!BlankStatus(s)
  <2>1. s \notin Healthy \union DayToDay \union {NoReport}
    BY <1>3, ABlankStatus
  <2> QED BY <1>1, <1>2, <1>3, <2>1
<1>4. CASE ~Hurt!BlankStatus(s)
  BY <1>1, <1>2, <1>4, AStatusGiven
<1> QED BY <1>3, <1>4

\* The player page, the list's filter and an update's own look tell the same of every
\* player, but of one whose newest report has no status: the page has him healthy,
\* the filter injured, and an update takes him for hurt.
THEOREM HurtPagesAgree ==
  HurtConstants /\ Hurt!BlankIsNeither => (Hurt!Spec => []Hurt!PagesAgree)
<1> SUFFICES ASSUME HurtConstants, Hurt!BlankIsNeither PROVE Hurt!Spec => []Hurt!PagesAgree
  OBVIOUS
<1>1. Hurt!Init => HurtInv
  BY HurtInitInv
<1>2. HurtInv /\ [Hurt!Next]_(Hurt!vars) => HurtInv'
  BY HurtStepInv
<1>3. HurtInv => Hurt!PagesAgree
  <2> SUFFICES ASSUME HurtInv, NEW p \in Players
               PROVE  LET s == StatusIn(reports, p)
                          blank == Hurt!BlankStatus(s)
                      IN /\ \A state \in HurtStates :
                              Hurt!Filtered(state, s) <=>
                                state = IF blank THEN "injured" ELSE Hurt!InjuryState(s)
                         /\ Hurt!HurtIn(reports, p) <=> Hurt!InjuryState(s) # "healthy" \/ blank
    BY LatestIsStatusIn DEF Hurt!PagesAgree, HurtStates
  <2> DEFINE s == StatusIn(reports, p)
  <2>1. reports \in Seq(ReportRow) /\ NoReport \notin Status
    BY DEF HurtInv, HurtShape, HurtConstants, Hurt!InjuryConstants
  <2>2. IF OfPlayer(reports, p) = {} THEN s = NoReport ELSE s \in Status
    BY <2>1, AStatusIsReported DEF StatusIn
  <2>3. Hurt!HurtIn(reports, p) <=> OfPlayer(reports, p) # {} /\ s \notin Healthy
    BY HurtInIsStatusIn
  <2> HIDE DEF s
  <2>4. \A state \in HurtStates :
          Hurt!Filtered(state, s) <=>
            state = IF Hurt!BlankStatus(s) THEN "injured" ELSE Hurt!InjuryState(s)
    BY WhatTheFilterShows
  <2>5. Hurt!HurtIn(reports, p) <=> s \notin Healthy \union {NoReport}
    BY <2>1, <2>2, <2>3
  <2>6. Hurt!HurtIn(reports, p) <=> Hurt!InjuryState(s) # "healthy" \/ Hurt!BlankStatus(s)
    <3>1. CASE Hurt!BlankStatus(s)
      BY <2>5, <3>1, ABlankStatus
    <3>2. CASE ~Hurt!BlankStatus(s)
      BY <2>5, <3>2, AStatusGiven
    <3> QED BY <3>1, <3>2
  <2> QED BY <2>4, <2>6 DEF s
<1> QED BY <1>1, <1>2, <1>3, PTL DEF Hurt!Spec
=============================================================================
