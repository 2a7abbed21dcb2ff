---------------------------- MODULE RosterProofs ----------------------------
(***************************************************************************)
(* What a running balance satisfies for every list of amounts; what holds  *)
(* of every ledger of that kind, and of a roster for every season, every   *)
(* set of workers and players, and every price; what no single step of it  *)
(* may do, whichever request makes it and however long that has waited for *)
(* the lock; what a release pays back as long as requests come one at a    *)
(* time; that the pages offer what is allowed, and say what is so; and     *)
(* that the chart of a roster has a lane for every place and counts no     *)
(* point twice.                                                            *)
(*                                                                         *)
(* Induction over the naturals is carried by sets: a set of naturals that  *)
(* holds 0 and the successor of each member holds them all, because its    *)
(* complement has no least element.                                        *)
(***************************************************************************)
EXTENDS RosterPage, SequenceTheorems, WellFoundedInduction, FiniteSetTheorems, TLAPS

-----------------------------------------------------------------------------
(* Natural numbers *)

(***************************************************************************)
(* Every nonempty set of naturals has a least element.                     *)
(***************************************************************************)
LEMMA LeastNumber ==
  ASSUME NEW T \in SUBSET Nat, T # {}
  PROVE  \E m \in T : \A n \in T : m <= n
<1> DEFINE R == OpToRel(<, Nat)
<1>1. IsWellFoundedOn(R, Nat)
  BY NatLessThanWellFounded
<1>2. \A x, y \in Nat : y < x => <<y, x>> \in R
  BY DEF OpToRel
<1> HIDE DEF R
<1>3. PICK x \in T : \A y \in T : ~(<<y, x>> \in R)
  BY <1>1, WFMin
<1>4. \A y \in T : ~(y < x)
  BY <1>2, <1>3
<1> QED BY <1>4

(***************************************************************************)
(* Induction: a set closed under successor that holds 0 holds every        *)
(* natural number.                                                         *)
(***************************************************************************)
LEMMA SetInduction ==
  ASSUME NEW T, 0 \in T, \A n \in Nat : n \in T => n + 1 \in T
  PROVE  Nat \subseteq T
<1> SUFFICES ASSUME Nat \ T # {} PROVE FALSE
  OBVIOUS
<1>1. PICK m \in Nat \ T : \A n \in Nat \ T : m <= n
  <2> DEFINE U == Nat \ T
  <2> U \in SUBSET Nat /\ U # {}
    OBVIOUS
  <2> HIDE DEF U
  <2>1. \E x \in U : \A n \in U : x <= n
    BY LeastNumber
  <2> QED BY <2>1 DEF U
<1>2. m # 0
  OBVIOUS
<1>3. m - 1 \in Nat /\ m - 1 \in T
  BY <1>1, <1>2
<1> QED BY <1>1, <1>3

(***************************************************************************)
(* A list of naturals with an upper bound has a greatest member: what the  *)
(* choice of a latest arrival rests on.                                    *)
(***************************************************************************)
LEMMA GreatestExists ==
  ASSUME NEW S, S # {}, NEW f \in [S -> Nat],
         NEW bound \in Nat, \A x \in S : f[x] <= bound
  PROVE  \E x \in S : \A y \in S : f[y] <= f[x]
<1> DEFINE T == {n \in Nat : \E x \in S : n = bound - f[x]}
<1>1. T # {}
  <2>1. PICK x \in S : TRUE
    OBVIOUS
  <2>2. bound - f[x] \in T
    OBVIOUS
  <2> QED BY <2>2
<1>2. PICK m \in T : \A n \in T : m <= n
  <2> T \in SUBSET Nat
    OBVIOUS
  <2> HIDE DEF T
  <2> QED BY <1>1, LeastNumber
<1>3. PICK x \in S : m = bound - f[x]
  BY <1>2
<1>4. ASSUME NEW y \in S PROVE f[y] <= f[x]
  <2>1. bound - f[y] \in T
    OBVIOUS
  <2> QED BY <1>2, <1>3, <2>1
<1> QED BY <1>4

-----------------------------------------------------------------------------
(* The recursive balance is what its equations say *)

StartsAndSteps(b, s, n) ==
  /\ b \in [0..n -> Int]
  /\ b[0] = 0
  /\ \A i \in 1..n : b[i] = b[i - 1] + s[i]

IsRunning(b, s) ==
  b = [i \in 0..Len(s) |-> IF i = 0 THEN 0 ELSE b[i - 1] + s[i]]

(***************************************************************************)
(* The recursive definition of the running balance has a solution.         *)
(***************************************************************************)
LEMMA RunningExists ==
  ASSUME NEW s \in Seq(Int)
  PROVE  \E b : StartsAndSteps(b, s, Len(s))
<1> DEFINE T == {n \in Nat : n <= Len(s) => \E b : StartsAndSteps(b, s, n)}
<1>0. Len(s) \in Nat /\ \A i \in 1..Len(s) : s[i] \in Int
  OBVIOUS
<1>1. 0 \in T
  <2>1. StartsAndSteps([i \in 0..0 |-> 0], s, 0)
    BY DEF StartsAndSteps
  <2> QED BY <2>1
<1>2. ASSUME NEW n \in Nat, n \in T PROVE n + 1 \in T
  <2> SUFFICES ASSUME n + 1 <= Len(s) PROVE \E b : StartsAndSteps(b, s, n + 1)
    BY <1>0
  <2>1. n <= Len(s)
    BY <1>0
  <2>2. PICK b : StartsAndSteps(b, s, n)
    BY <1>2, <2>1
  <2> DEFINE c == [i \in 0..(n + 1) |-> IF i <= n THEN b[i] ELSE b[n] + s[n + 1]]
  <2>3. b \in [0..n -> Int] /\ b[0] = 0 /\ \A i \in 1..n : b[i] = b[i - 1] + s[i]
    BY <2>2 DEF StartsAndSteps
  <2>4. b[n] \in Int /\ s[n + 1] \in Int
    BY <2>3, <1>0
  <2>5. c \in [0..(n + 1) -> Int]
    BY <2>3, <2>4
  <2>6. c[0] = 0
    BY <2>3
  <2>7. ASSUME NEW i \in 1..(n + 1) PROVE c[i] = c[i - 1] + s[i]
    <3>1. CASE i <= n
      BY <3>1, <2>3
    <3>2. CASE i = n + 1
      BY <3>2, <2>3
    <3> QED BY <3>1, <3>2
  <2>8. StartsAndSteps(c, s, n + 1)
    BY <2>5, <2>6, <2>7 DEF StartsAndSteps
  <2> QED BY <2>8
<1>3. Nat \subseteq T
  <2> HIDE DEF T
  <2> QED BY <1>1, <1>2, SetInduction
<1>4. Len(s) \in T
  BY <1>3, <1>0
<1> QED BY <1>4, <1>0

(***************************************************************************)
(* The running balance of the history page starts at 0 and each entry adds *)
(* its amount to the one before it.                                        *)
(***************************************************************************)
THEOREM RunningBalance ==
  ASSUME NEW s \in Seq(Int)
  PROVE  StartsAndSteps(Running(s), s, Len(s))
<1>0. Len(s) \in Nat /\ \A i \in 1..Len(s) : s[i] \in Int
  OBVIOUS
<1>1. PICK b : StartsAndSteps(b, s, Len(s))
  BY RunningExists
<1>2. IsRunning(b, s)
  BY <1>1, <1>0 DEF IsRunning, StartsAndSteps
<1> DEFINE B == Running(s)
<1>3. IsRunning(B, s)
  BY <1>2 DEF IsRunning, Running
<1> HIDE DEF B
<1>4. /\ B = [i \in 0..Len(s) |-> B[i]]
      /\ B[0] = 0
      /\ \A i \in 1..Len(s) : B[i] = B[i - 1] + s[i]
  <2> DEFINE n == Len(s)
             C == [i \in 0..n |-> IF i = 0 THEN 0 ELSE B[i - 1] + s[i]]
  <2>1. B = C
    BY <1>3 DEF IsRunning
  <2>2. n \in Nat
    BY <1>0
  <2> HIDE DEF n
  <2>3. \A i \in 0..n : C[i] = IF i = 0 THEN 0 ELSE B[i - 1] + s[i]
    OBVIOUS
  <2>4. C = [i \in 0..n |-> C[i]]
    OBVIOUS
  <2> HIDE DEF C
  <2> QED BY <2>1, <2>2, <2>3, <2>4 DEF n
<1> DEFINE T == {n \in Nat : n <= Len(s) => B[n] = b[n]}
<1>5. 0 \in T
  BY <1>4, <1>1 DEF StartsAndSteps
<1>6. ASSUME NEW n \in Nat, n \in T PROVE n + 1 \in T
  <2> SUFFICES ASSUME n + 1 <= Len(s) PROVE B[n + 1] = b[n + 1]
    OBVIOUS
  <2>1. B[n] = b[n] /\ n + 1 \in 1..Len(s) /\ (n + 1) - 1 = n
    BY <1>6, <1>0
  <2>2. B[n + 1] = B[n] + s[n + 1]
    BY <2>1, <1>4
  <2>3. b[n + 1] = b[n] + s[n + 1]
    BY <2>1, <1>1 DEF StartsAndSteps
  <2> QED BY <2>1, <2>2, <2>3
<1>7. Nat \subseteq T
  <2> HIDE DEF T
  <2> QED BY <1>5, <1>6, SetInduction
<1>8. \A i \in 0..Len(s) : B[i] \in Int
  BY SMTT(30), <1>7, <1>1, <1>0 DEF StartsAndSteps
<1> QED BY <1>4, <1>8 DEF StartsAndSteps, B

-----------------------------------------------------------------------------
(* Totals *)

(***************************************************************************)
(* Whole amounts add up to a whole amount.                                 *)
(***************************************************************************)
LEMMA TotalType ==
  ASSUME NEW s \in Seq(Int)
  PROVE  Total(s) \in Int
<1>1. StartsAndSteps(Running(s), s, Len(s)) /\ Len(s) \in Nat
  BY RunningBalance
<1> QED BY <1>1 DEF StartsAndSteps, Total

(***************************************************************************)
(* No amounts add up to nothing.                                           *)
(***************************************************************************)
LEMMA TotalEmpty == Total(<<>>) = 0
<1>1. <<>> \in Seq(Int) /\ Len(<<>>) = 0
  OBVIOUS
<1>2. StartsAndSteps(Running(<<>>), <<>>, Len(<<>>))
  BY <1>1, RunningBalance
<1> QED BY <1>1, <1>2 DEF StartsAndSteps, Total

(***************************************************************************)
(* One amount adds up to itself.                                           *)
(***************************************************************************)
LEMMA TotalSingle ==
  ASSUME NEW x \in Int
  PROVE  Total(<<x>>) = x
<1> DEFINE s == <<x>>
<1>1. s \in Seq(Int) /\ Len(s) = 1 /\ s[1] = x
  OBVIOUS
<1>2. StartsAndSteps(Running(s), s, Len(s))
  BY <1>1, RunningBalance
<1> HIDE DEF s
<1>3. Running(s)[1] = Running(s)[0] + s[1] /\ Running(s)[0] = 0
  BY <1>1, <1>2 DEF StartsAndSteps
<1> QED BY <1>1, <1>3 DEF Total, s

(***************************************************************************)
(* A list of zeros adds nothing, and amounts that are never negative never *)
(* add up to less than zero.                                               *)
(***************************************************************************)
LEMMA TotalZero ==
  ASSUME NEW s \in Seq(Int), \A i \in 1..Len(s) : s[i] = 0
  PROVE  Total(s) = 0
<1>0. Len(s) \in Nat
  OBVIOUS
<1> DEFINE B == Running(s)
           T == {n \in Nat : n <= Len(s) => B[n] = 0}
<1>1. StartsAndSteps(B, s, Len(s))
  BY RunningBalance
<1> HIDE DEF B
<1>2. 0 \in T
  BY <1>1 DEF StartsAndSteps
<1>3. ASSUME NEW n \in Nat, n \in T PROVE n + 1 \in T
  <2> SUFFICES ASSUME n + 1 <= Len(s) PROVE B[n + 1] = 0
    OBVIOUS
  <2>1. B[n] = 0 /\ n + 1 \in 1..Len(s) /\ (n + 1) - 1 = n
    BY <1>3, <1>0
  <2>2. B[n + 1] = B[n] + s[n + 1]
    BY <2>1, <1>1 DEF StartsAndSteps
  <2> QED BY <2>1, <2>2
<1>4. Nat \subseteq T
  <2> HIDE DEF T
  <2> QED BY <1>2, <1>3, SetInduction
<1> QED BY <1>0, <1>4 DEF Total, B

(***************************************************************************)
(* Amounts that are not negative add up to one that is not.                *)
(***************************************************************************)
LEMMA TotalNat ==
  ASSUME NEW s \in Seq(Int), \A i \in 1..Len(s) : s[i] >= 0
  PROVE  Total(s) \in Nat
<1>0. Len(s) \in Nat /\ \A i \in 1..Len(s) : s[i] \in Int
  OBVIOUS
<1> DEFINE B == Running(s)
           T == {n \in Nat : n <= Len(s) => B[n] \in Nat}
<1>1. StartsAndSteps(B, s, Len(s))
  BY RunningBalance
<1> HIDE DEF B
<1>2. 0 \in T
  BY <1>1 DEF StartsAndSteps
<1>3. ASSUME NEW n \in Nat, n \in T PROVE n + 1 \in T
  <2> SUFFICES ASSUME n + 1 <= Len(s) PROVE B[n + 1] \in Nat
    OBVIOUS
  <2>1. B[n] \in Nat /\ n + 1 \in 1..Len(s) /\ (n + 1) - 1 = n
    BY <1>3, <1>0
  <2>2. B[n + 1] = B[n] + s[n + 1]
    BY <2>1, <1>1 DEF StartsAndSteps
  <2>3. s[n + 1] \in Int /\ s[n + 1] >= 0
    BY <2>1, <1>0
  <2> QED BY <2>1, <2>2, <2>3
<1>4. Nat \subseteq T
  <2> HIDE DEF T
  <2> QED BY <1>2, <1>3, SetInduction
<1> QED BY <1>0, <1>4 DEF Total, B

(***************************************************************************)
(* The total of two lists in a row is the sum of their totals: appending   *)
(* moves to a history changes its balance by exactly those moves.          *)
(***************************************************************************)
THEOREM TotalConcat ==
  ASSUME NEW s \in Seq(Int), NEW t \in Seq(Int)
  PROVE  Total(s \o t) = Total(s) + Total(t)
<1> DEFINE u == s \o t
           A == Running(s)
           B == Running(t)
           C == Running(u)
           k == Len(s)
           m == Len(t)
<1>0. /\ u \in Seq(Int)
      /\ Len(u) = k + m
      /\ k \in Nat /\ m \in Nat
      /\ \A i \in 1..k : u[i] = s[i]
      /\ \A i \in 1..m : u[k + i] = t[i]
      /\ \A i \in 1..m : t[i] \in Int
  BY ConcatProperties
<1>1. StartsAndSteps(A, s, k) /\ StartsAndSteps(B, t, m)
  BY RunningBalance
<1>2. StartsAndSteps(C, u, k + m)
  BY RunningBalance, <1>0
<1> HIDE DEF u, A, B, C
<1> DEFINE T == {n \in Nat : n <= k => C[n] = A[n]}
<1>3. Nat \subseteq T
  <2>1. 0 \in T
    BY <1>1, <1>2 DEF StartsAndSteps
  <2>2. ASSUME NEW n \in Nat, n \in T PROVE n + 1 \in T
    BY SMTT(30), <2>2, <1>0, <1>1, <1>2 DEF StartsAndSteps
  <2> HIDE DEF T
  <2> QED BY <2>1, <2>2, SetInduction
<1>4. C[k] = A[k]
  BY <1>3, <1>0
<1> DEFINE U == {n \in Nat : n <= m => C[k + n] = A[k] + B[n]}
<1>5. Nat \subseteq U
  <2> HIDE DEF k, m
  <2>1. A[k] \in Int /\ \A n \in 0..m : B[n] \in Int
    BY <1>0, <1>1 DEF StartsAndSteps
  <2>2. 0 \in U
    <3>1. B[0] = 0 /\ k + 0 = k
      BY <1>0, <1>1 DEF StartsAndSteps
    <3> QED BY <2>1, <3>1, <1>4
  <2>3. ASSUME NEW n \in Nat, n \in U PROVE n + 1 \in U
    <3> SUFFICES ASSUME n + 1 <= m
                 PROVE  C[k + (n + 1)] = A[k] + B[n + 1]
      OBVIOUS
    <3>1. C[k + n] = A[k] + B[n]
      BY <2>3, <1>0
    <3>2. n + 1 \in 1..m /\ (n + 1) - 1 = n
      BY <1>0
    <3>3. B[n + 1] = B[n] + t[n + 1]
      BY <3>2, <1>1 DEF StartsAndSteps
    <3>4. k + (n + 1) \in 1..(k + m) /\ (k + (n + 1)) - 1 = k + n
      BY <1>0
    <3>5. C[k + (n + 1)] = C[k + n] + u[k + (n + 1)]
      BY <3>4, <1>2 DEF StartsAndSteps
    <3>6. u[k + (n + 1)] = t[n + 1] /\ t[n + 1] \in Int /\ B[n] \in Int
      BY <3>2, <1>0, <2>1
    <3> QED BY <3>1, <3>3, <3>5, <3>6, <2>1
  <2> HIDE DEF U
  <2> QED BY <2>2, <2>3, SetInduction
<1>6. C[k + m] = A[k] + B[m]
  BY <1>5, <1>0
<1> QED BY <1>6, <1>0 DEF Total, A, B, C, u


-----------------------------------------------------------------------------
(* Flows *)

(***************************************************************************)
(* The flows of a history are lists of integers as long as the history.    *)
(***************************************************************************)
LEMMA RowTypes ==
  ASSUME NEW l \in Seq(Row)
  PROVE  /\ CashFlow(l) \in Seq(Int) /\ Len(CashFlow(l)) = Len(l)
         /\ TradeFlow(l) \in Seq(Int) /\ Len(TradeFlow(l)) = Len(l)
         /\ \A p \in Players : SpellFlow(l, p) \in Seq(Int) /\ Len(SpellFlow(l, p)) = Len(l)
<1>1. Len(l) \in Nat /\ \A i \in 1..Len(l) : l[i] \in Row
  OBVIOUS
<1>2. \A i \in 1..Len(l) : l[i].cash_delta \in Int /\ TradesMoved(l[i]) \in Int
  BY <1>1 DEF Row, TradesMoved
<1> QED BY <1>1, <1>2 DEF CashFlow, TradeFlow, SpellFlow

(***************************************************************************)
(* A list that agrees with one list and then with another adds up to the   *)
(* totals of both.                                                         *)
(***************************************************************************)
LEMMA TotalSplit ==
  ASSUME NEW s \in Seq(Int), NEW t \in Seq(Int), NEW u \in Seq(Int),
         Len(u) = Len(s) + Len(t),
         \A i \in 1..Len(s) : u[i] = s[i],
         \A i \in 1..Len(t) : u[Len(s) + i] = t[i]
  PROVE  Total(u) = Total(s) + Total(t)
<1>1. /\ s \o t \in Seq(Int)
      /\ Len(s \o t) = Len(s) + Len(t)
      /\ Len(s) \in Nat /\ Len(t) \in Nat
      /\ \A i \in 1..Len(s) : (s \o t)[i] = s[i]
      /\ \A i \in 1..Len(t) : (s \o t)[Len(s) + i] = t[i]
  BY ConcatProperties
<1>2. \A i \in 1..Len(u) : u[i] = (s \o t)[i]
  <2> SUFFICES ASSUME NEW i \in 1..Len(u) PROVE u[i] = (s \o t)[i]
    OBVIOUS
  <2>1. CASE i <= Len(s)
    BY <2>1, <1>1
  <2>2. CASE ~(i <= Len(s))
    <3>1. i - Len(s) \in 1..Len(t) /\ Len(s) + (i - Len(s)) = i
      BY <2>2, <1>1
    <3> QED BY <3>1, <1>1
  <2> QED BY <2>1, <2>2
<1>3. u = s \o t
  BY <1>1, <1>2, SeqEqual
<1> QED BY <1>3, TotalConcat

(***************************************************************************)
(* Each flow of two histories in a row is the flow of one and then of the  *)
(* other.                                                                  *)
(***************************************************************************)
LEMMA FlowConcat ==
  ASSUME NEW l \in Seq(Row), NEW m \in Seq(Row)
  PROVE  /\ Total(CashFlow(l \o m)) = Total(CashFlow(l)) + Total(CashFlow(m))
         /\ Total(TradeFlow(l \o m)) = Total(TradeFlow(l)) + Total(TradeFlow(m))
         /\ \A p \in Players : Total(SpellFlow(l \o m, p)) =
                               Total(SpellFlow(l, p)) + Total(SpellFlow(m, p))
<1> DEFINE k == l \o m
<1>1. /\ k \in Seq(Row)
      /\ Len(k) = Len(l) + Len(m)
      /\ Len(l) \in Nat /\ Len(m) \in Nat
      /\ \A i \in 1..Len(l) : k[i] = l[i]
      /\ \A i \in 1..Len(m) : k[Len(l) + i] = m[i]
      /\ \A i \in 1..Len(l) : i \in 1..Len(k)
      /\ \A i \in 1..Len(m) : Len(l) + i \in 1..Len(k)
  BY ConcatProperties
<1> HIDE DEF k
<1>2. Total(CashFlow(k)) = Total(CashFlow(l)) + Total(CashFlow(m))
  <2> DEFINE u == CashFlow(k)  s == CashFlow(l)  t == CashFlow(m)
  <2>1. /\ u \in Seq(Int) /\ Len(u) = Len(k)
        /\ s \in Seq(Int) /\ Len(s) = Len(l)
        /\ t \in Seq(Int) /\ Len(t) = Len(m)
    BY <1>1, RowTypes
  <2>2. /\ \A i \in 1..Len(l) : u[i] = s[i]
        /\ \A i \in 1..Len(m) : u[Len(l) + i] = t[i]
    BY <1>1 DEF CashFlow
  <2> HIDE DEF u, s, t
  <2>3. Total(u) = Total(s) + Total(t)
    <3>1. /\ Len(u) = Len(s) + Len(t)
          /\ \A i \in 1..Len(s) : u[i] = s[i]
          /\ \A i \in 1..Len(t) : u[Len(s) + i] = t[i]
      BY <2>1, <2>2, <1>1
    <3> QED BY <2>1, <3>1, TotalSplit
  <2> QED BY <2>3 DEF u, s, t
<1>3. Total(TradeFlow(k)) = Total(TradeFlow(l)) + Total(TradeFlow(m))
  <2> DEFINE u == TradeFlow(k)  s == TradeFlow(l)  t == TradeFlow(m)
  <2>1. /\ u \in Seq(Int) /\ Len(u) = Len(k)
        /\ s \in Seq(Int) /\ Len(s) = Len(l)
        /\ t \in Seq(Int) /\ Len(t) = Len(m)
    BY <1>1, RowTypes
  <2>2. /\ \A i \in 1..Len(l) : u[i] = s[i]
        /\ \A i \in 1..Len(m) : u[Len(l) + i] = t[i]
    BY <1>1 DEF TradeFlow
  <2> HIDE DEF u, s, t
  <2>3. Total(u) = Total(s) + Total(t)
    <3>1. /\ Len(u) = Len(s) + Len(t)
          /\ \A i \in 1..Len(s) : u[i] = s[i]
          /\ \A i \in 1..Len(t) : u[Len(s) + i] = t[i]
      BY <2>1, <2>2, <1>1
    <3> QED BY <2>1, <3>1, TotalSplit
  <2> QED BY <2>3 DEF u, s, t
<1>4. ASSUME NEW p \in Players
      PROVE  Total(SpellFlow(k, p)) = Total(SpellFlow(l, p)) + Total(SpellFlow(m, p))
  <2> DEFINE u == SpellFlow(k, p)  s == SpellFlow(l, p)  t == SpellFlow(m, p)
  <2>1. /\ u \in Seq(Int) /\ Len(u) = Len(k)
        /\ s \in Seq(Int) /\ Len(s) = Len(l)
        /\ t \in Seq(Int) /\ Len(t) = Len(m)
    BY <1>1, RowTypes
  <2>2. /\ \A i \in 1..Len(l) : u[i] = s[i]
        /\ \A i \in 1..Len(m) : u[Len(l) + i] = t[i]
    BY <1>1 DEF SpellFlow
  <2> HIDE DEF u, s, t
  <2>3. Total(u) = Total(s) + Total(t)
    <3>1. /\ Len(u) = Len(s) + Len(t)
          /\ \A i \in 1..Len(s) : u[i] = s[i]
          /\ \A i \in 1..Len(t) : u[Len(s) + i] = t[i]
      BY <2>1, <2>2, <1>1
    <3> QED BY <2>1, <3>1, TotalSplit
  <2> QED BY <2>3 DEF u, s, t
<1> QED BY <1>2, <1>3, <1>4, Zenon DEF k

LogTotals(l) ==
  /\ Total(CashFlow(l)) \in Int
  /\ Total(TradeFlow(l)) \in Int
  /\ \A p \in Players : Total(SpellFlow(l, p)) \in Int

(***************************************************************************)
(* Every total taken over a history is an integer.                         *)
(***************************************************************************)
LEMMA FlowTypes ==
  ASSUME NEW l \in Seq(Row)
  PROVE  LogTotals(l)
BY RowTypes, TotalType DEF LogTotals

(***************************************************************************)
(* A payout brings in trades only: no cash, no players.                    *)
(***************************************************************************)
LEMMA PayoutFlow ==
  ASSUME NEW rows \in Seq(GrantRows)
  PROVE  /\ rows \in Seq(Row)
         /\ Total(CashFlow(rows)) = 0
         /\ Total(TradeFlow(rows)) = Granted(rows)
         /\ Granted(rows) \in Nat
         /\ \A p \in Players : Total(SpellFlow(rows, p)) = 0
<1>1. /\ Len(rows) \in Nat
      /\ \A i \in 1..Len(rows) : rows[i] \in GrantRows
      /\ rows \in Seq(Row)
  BY DEF GrantRows
<1>2. Total(CashFlow(rows)) = 0
  <2>1. \A i \in 1..Len(CashFlow(rows)) : CashFlow(rows)[i] = 0
    BY <1>1, RowTypes DEF CashFlow, GrantRows
  <2> QED BY <2>1, <1>1, RowTypes, TotalZero
<1>3. TradeFlow(rows) = [i \in 1..Len(rows) |-> rows[i].trades_granted]
  BY <1>1 DEF TradeFlow, TradesMoved, GrantRows
<1>4. \A i \in 1..Len(TradeFlow(rows)) : TradeFlow(rows)[i] >= 0
  BY <1>1, <1>3, RowTypes DEF GrantRows, Row
<1>5. ASSUME NEW p \in Players PROVE Total(SpellFlow(rows, p)) = 0
  <2>1. \A i \in 1..Len(SpellFlow(rows, p)) : SpellFlow(rows, p)[i] = 0
    BY <1>1, RowTypes, LedgerConstants DEF SpellFlow, GrantRows
  <2> QED BY <2>1, <1>1, RowTypes, TotalZero
<1>6. Granted(rows) = Total(TradeFlow(rows))
  BY <1>3 DEF Granted
<1>7. Total(TradeFlow(rows)) \in Nat
  BY <1>1, <1>4, RowTypes, TotalNat
<1> QED BY <1>1, <1>2, <1>5, <1>6, <1>7

(***************************************************************************)
(* A single move flows as its row says.                                    *)
(***************************************************************************)
LEMMA MoveFlow ==
  ASSUME NEW row \in Row
  PROVE  /\ <<row>> \in Seq(Row)
         /\ Total(CashFlow(<<row>>)) = row.cash_delta
         /\ Total(TradeFlow(<<row>>)) = TradesMoved(row)
         /\ \A p \in Players :
              Total(SpellFlow(<<row>>, p)) = (IF row.player_in = p THEN 1 ELSE 0)
                                           - (IF row.player_out = p THEN 1 ELSE 0)
<1>1. row.cash_delta \in Int /\ TradesMoved(row) \in Int
  BY DEF Row, TradesMoved
<1>2. CashFlow(<<row>>) = <<row.cash_delta>>
  BY DEF CashFlow
<1>3. TradeFlow(<<row>>) = <<TradesMoved(row)>>
  BY DEF TradeFlow
<1>4. ASSUME NEW p \in Players
      PROVE  Total(SpellFlow(<<row>>, p)) = (IF row.player_in = p THEN 1 ELSE 0)
                                          - (IF row.player_out = p THEN 1 ELSE 0)
  <2> DEFINE x == (IF row.player_in = p THEN 1 ELSE 0) - (IF row.player_out = p THEN 1 ELSE 0)
  <2>1. x \in Int
    OBVIOUS
  <2>2. SpellFlow(<<row>>, p) = <<x>>
    BY DEF SpellFlow
  <2> HIDE DEF x
  <2> QED BY <2>1, <2>2, TotalSingle DEF x
<1> QED BY <1>1, <1>2, <1>3, <1>4, TotalSingle

-----------------------------------------------------------------------------
(* No grant twice *)

(***************************************************************************)
(* A payout that repeats no grant of the history leaves none paid twice.   *)
(***************************************************************************)
LEMMA PayoutKeepsPaidOnce ==
  ASSUME NEW l \in Seq(Row), PaidOnce(l), NEW rows, IsPayout(rows, l)
  PROVE  PaidOnce(l \o rows)
<1> DEFINE k == l \o rows
           n == Len(l)
           m == Len(rows)
<1>1. /\ rows \in Seq(GrantRows)
      /\ \A i, j \in 1..m : rows[i].grant_key = rows[j].grant_key => i = j
      /\ \A i \in 1..m : rows[i].grant_key \notin PaidKeys(l)
  BY DEF IsPayout
<1>2. /\ Len(k) = n + m /\ n \in Nat /\ m \in Nat
      /\ \A i \in 1..n : k[i] = l[i]
      /\ \A i \in (n + 1)..(n + m) : k[i] = rows[i - n] /\ i - n \in 1..m
  BY <1>1
<1>3. \A i \in 1..n : l[i].kind = "GRANT_TRADE" => l[i].grant_key \in PaidKeys(l)
  BY DEF PaidKeys
<1> HIDE DEF k
<1> SUFFICES ASSUME NEW i \in 1..(n + m), NEW j \in 1..(n + m),
                    k[i].kind = "GRANT_TRADE", k[j].kind = "GRANT_TRADE",
                    k[i].grant_key = k[j].grant_key
             PROVE  i = j
  BY <1>2 DEF PaidOnce, k
<1>4. CASE i \in 1..n /\ j \in 1..n
  BY <1>2, <1>4 DEF PaidOnce
<1>5. CASE i \in 1..n /\ j \notin 1..n
  BY <1>1, <1>2, <1>3, <1>5
<1>6. CASE i \notin 1..n /\ j \in 1..n
  BY <1>1, <1>2, <1>3, <1>6
<1>7. CASE i \notin 1..n /\ j \notin 1..n
  <2>1. i - n = j - n
    <3>1. /\ i - n \in 1..m /\ j - n \in 1..m
          /\ k[i] = rows[i - n] /\ k[j] = rows[j - n]
      BY <1>2, <1>7
    <3> QED BY <1>1, <3>1
  <2> QED BY <2>1, <1>2
<1> QED BY <1>4, <1>5, <1>6, <1>7

(***************************************************************************)
(* A move pays no grant, so it repeats none.                               *)
(***************************************************************************)
LEMMA MoveKeepsPaidOnce ==
  ASSUME NEW l \in Seq(Row), PaidOnce(l), NEW row \in MoveRows
  PROVE  PaidOnce(Append(l, row))
<1> DEFINE k == Append(l, row)
<1>1. /\ Len(k) = Len(l) + 1 /\ Len(l) \in Nat
      /\ \A i \in 1..Len(l) : k[i] = l[i]
      /\ k[Len(l) + 1] = row
  OBVIOUS
<1>2. row.kind # "GRANT_TRADE"
  BY DEF MoveRows
<1> HIDE DEF k
<1>3. ASSUME NEW i \in 1..Len(k), k[i].kind = "GRANT_TRADE"
      PROVE  i \in 1..Len(l)
  BY <1>1, <1>2, <1>3
<1> QED BY <1>1, <1>3 DEF PaidOnce, k

-----------------------------------------------------------------------------
(* The ledger's invariant *)

LedgerType ==
  /\ cash \in Int
  /\ trades_available \in Int
  /\ squad \in SUBSET Players
  /\ log \in Seq(Row)

LedgerInv ==
  /\ LedgerType
  /\ CashReconciles
  /\ TradesReconcile
  /\ SquadReconciles
  /\ GrantsPaidOnce
  /\ WithinLimits

(***************************************************************************)
(* A new roster has an empty history and its starting balance.             *)
(***************************************************************************)
LEMMA LedgerInvInit == LedgerInit => LedgerInv
<1> SUFFICES ASSUME LedgerInit PROVE LedgerInv
  OBVIOUS
<1>1. /\ log = <<>> /\ squad = {}
      /\ cash = StartingCash /\ trades_available = StartingTrades
  BY DEF LedgerInit
<1>2. LedgerType /\ WithinLimits
  <2>1. Cardinality({}) = 0
    BY FS_EmptySet
  <2> QED BY <1>1, <2>1, LedgerConstants DEF LedgerType, WithinLimits
<1>3. <<>> \in Seq(GrantRows)
  OBVIOUS
<1>4. /\ Total(CashFlow(<<>>)) = 0
      /\ \A p \in Players : Total(SpellFlow(<<>>, p)) = 0
  BY <1>3, PayoutFlow
<1>5. Total(TradeFlow(<<>>)) = 0
  <2>1. TradeFlow(<<>>) = <<>>
    BY DEF TradeFlow
  <2> QED BY <2>1, TotalEmpty
<1>6. CashReconciles /\ TradesReconcile
  BY <1>1, <1>4, <1>5, LedgerConstants DEF CashReconciles, TradesReconcile
<1>7. SquadReconciles
  BY <1>1, <1>4 DEF SquadReconciles
<1>8. GrantsPaidOnce
  BY <1>1 DEF GrantsPaidOnce, PaidOnce
<1> QED BY <1>2, <1>6, <1>7, <1>8 DEF LedgerInv

(***************************************************************************)
(* Paying grants moves the trade count and the history together.           *)
(***************************************************************************)
LEMMA PayOutKeepsInv ==
  ASSUME LedgerInv, NEW rows, PayOut(rows)
  PROVE  LedgerInv'
<1>1. /\ rows \in Seq(GrantRows) /\ IsPayout(rows, log)
      /\ log' = log \o rows
      /\ trades_available' = trades_available + Granted(rows)
      /\ cash' = cash /\ squad' = squad
  BY DEF PayOut, IsPayout
<1>2. /\ cash \in Int /\ trades_available \in Int
      /\ squad \in SUBSET Players /\ log \in Seq(Row)
  BY DEF LedgerInv, LedgerType
<1>3. /\ rows \in Seq(Row)
      /\ Total(CashFlow(rows)) = 0
      /\ Total(TradeFlow(rows)) = Granted(rows)
      /\ Granted(rows) \in Nat
      /\ \A p \in Players : Total(SpellFlow(rows, p)) = 0
  BY <1>1, PayoutFlow
<1>4. /\ Total(CashFlow(log')) = Total(CashFlow(log)) + 0
      /\ Total(TradeFlow(log')) = Total(TradeFlow(log)) + Granted(rows)
      /\ \A p \in Players : Total(SpellFlow(log', p)) = Total(SpellFlow(log, p)) + 0
  BY <1>1, <1>2, <1>3, FlowConcat
<1>5. LogTotals(log)
  BY <1>2, FlowTypes
<1>6. LedgerType' /\ WithinLimits'
  BY <1>1, <1>2, <1>3 DEF LedgerInv, LedgerType, WithinLimits
<1>7. CashReconciles' /\ TradesReconcile'
  <2>1. /\ cash = StartingCash + Total(CashFlow(log))
        /\ trades_available = StartingTrades + Total(TradeFlow(log))
    BY DEF LedgerInv, CashReconciles, TradesReconcile
  <2>2. /\ Total(CashFlow(log)) \in Int /\ Total(TradeFlow(log)) \in Int
        /\ StartingCash \in Int /\ StartingTrades \in Int
    BY <1>5, LedgerConstants DEF LogTotals
  <2>3. cash' = StartingCash + Total(CashFlow(log'))
    BY <1>1, <1>4, <2>1, <2>2
  <2>4. trades_available' = StartingTrades + Total(TradeFlow(log'))
    BY <1>1, <1>3, <1>4, <2>1, <2>2
  <2> QED BY <2>3, <2>4 DEF CashReconciles, TradesReconcile
<1>8. SquadReconciles'
  BY <1>1, <1>4, <1>5 DEF LedgerInv, SquadReconciles, LogTotals
<1>9. GrantsPaidOnce'
  BY <1>1, <1>2, PayoutKeepsPaidOnce DEF LedgerInv, GrantsPaidOnce
<1> QED BY <1>6, <1>7, <1>8, <1>9 DEF LedgerInv

(***************************************************************************)
(* A move shifts cash, squad, trades and history by the same amounts.      *)
(***************************************************************************)
LEMMA MoveKeepsInv ==
  ASSUME LedgerInv, NEW rows, NEW row, Move(rows, row)
  PROVE  LedgerInv'
<1>1. /\ rows \in Seq(GrantRows) /\ IsPayout(rows, log)
      /\ row \in MoveRows /\ row \in Row
      /\ log' = Append(log \o rows, row)
      /\ trades_available' = trades_available + Granted(rows) + TradesMoved(row)
      /\ cash' = cash + row.cash_delta
  BY DEF Move, IsPayout, MoveRows
<1>2. /\ cash \in Int /\ trades_available \in Int
      /\ squad \in SUBSET Players /\ log \in Seq(Row)
  BY DEF LedgerInv, LedgerType
<1>3. /\ rows \in Seq(Row)
      /\ Total(CashFlow(rows)) = 0
      /\ Total(TradeFlow(rows)) = Granted(rows)
      /\ Granted(rows) \in Nat
      /\ \A p \in Players : Total(SpellFlow(rows, p)) = 0
  BY <1>1, PayoutFlow
<1> DEFINE before == log \o rows
           spell(p) == (IF row.player_in = p THEN 1 ELSE 0)
                     - (IF row.player_out = p THEN 1 ELSE 0)
<1>4. before \in Seq(Row) /\ log' = before \o <<row>> /\ log' \in Seq(Row)
  BY <1>1, <1>2, <1>3
<1>5. /\ Total(CashFlow(before)) = Total(CashFlow(log)) + 0
      /\ Total(TradeFlow(before)) = Total(TradeFlow(log)) + Granted(rows)
      /\ \A p \in Players : Total(SpellFlow(before, p)) = Total(SpellFlow(log, p)) + 0
  BY <1>2, <1>3, FlowConcat
<1> HIDE DEF before
<1>6. /\ Total(CashFlow(log')) = Total(CashFlow(before)) + row.cash_delta
      /\ Total(TradeFlow(log')) = Total(TradeFlow(before)) + TradesMoved(row)
      /\ \A p \in Players : Total(SpellFlow(log', p)) = Total(SpellFlow(before, p)) + spell(p)
  <2>1. /\ <<row>> \in Seq(Row)
        /\ Total(CashFlow(<<row>>)) = row.cash_delta
        /\ Total(TradeFlow(<<row>>)) = TradesMoved(row)
        /\ \A p \in Players : Total(SpellFlow(<<row>>, p)) = spell(p)
    BY <1>1, MoveFlow
  <2> HIDE DEF spell
  <2> DEFINE last == <<row>>
  <2> HIDE DEF last
  <2>2. /\ Total(CashFlow(log')) = Total(CashFlow(before)) + Total(CashFlow(last))
        /\ Total(TradeFlow(log')) = Total(TradeFlow(before)) + Total(TradeFlow(last))
        /\ \A p \in Players :
             Total(SpellFlow(log', p)) = Total(SpellFlow(before, p)) + Total(SpellFlow(last, p))
    BY <1>4, <2>1, FlowConcat DEF last
  <2> QED BY <2>1, <2>2 DEF last
<1>7. LogTotals(log) /\ row.cash_delta \in Int /\ TradesMoved(row) \in Int
  <2>1. row.cash_delta \in Int
    BY <1>1 DEF Row
  <2>2. TradesMoved(row) \in Int
    BY <1>1 DEF Row, TradesMoved
  <2> QED BY <2>1, <2>2, <1>2, FlowTypes
<1>8. squad' \in SUBSET Players
  BY <1>1, <1>2 DEF Move, Row, OptionalPlayer
<1>9. LedgerType' /\ WithinLimits'
  <2>1. cash' \in Int /\ trades_available' \in Int
    BY <1>1, <1>2, <1>3, <1>7
  <2>2. LedgerType'
    BY <1>4, <1>8, <2>1 DEF LedgerType
  <2>3. WithinLimits'
    BY <1>1 DEF Move, WithinLimits
  <2> QED BY <2>2, <2>3
<1>10. CashReconciles' /\ TradesReconcile'
  <2>1. /\ cash = StartingCash + Total(CashFlow(log))
        /\ trades_available = StartingTrades + Total(TradeFlow(log))
    BY DEF LedgerInv, CashReconciles, TradesReconcile
  <2>2. /\ Total(CashFlow(log)) \in Int /\ Total(TradeFlow(log)) \in Int
        /\ StartingCash \in Int /\ StartingTrades \in Int
    BY <1>7, LedgerConstants DEF LogTotals
  <2>3. cash' = StartingCash + Total(CashFlow(log'))
    BY SMTT(30), <1>1, <1>5, <1>6, <1>7, <2>1, <2>2
  <2>4. trades_available' = StartingTrades + Total(TradeFlow(log'))
    BY SMTT(30), <1>1, <1>3, <1>5, <1>6, <1>7, <2>1, <2>2
  <2> QED BY <2>3, <2>4 DEF CashReconciles, TradesReconcile
<1>11. SquadReconciles'
  <2> SUFFICES ASSUME NEW p \in Players
               PROVE  Total(SpellFlow(log', p)) = IF p \in squad' THEN 1 ELSE 0
    BY DEF SquadReconciles
  <2>1. Total(SpellFlow(log', p)) = (IF p \in squad THEN 1 ELSE 0) + spell(p)
    BY <1>5, <1>6, <1>7 DEF LedgerInv, SquadReconciles, LogTotals
  <2>2. /\ row.player_out \in squad \union {NoPlayer}
        /\ row.player_in \notin squad
        /\ squad' = ((squad \ {row.player_out}) \union {row.player_in}) \ {NoPlayer}
    BY DEF Move
  <2>3. row.player_in = p => row.player_out # p
    BY <1>1, LedgerConstants DEF MoveRows, MovesPlayer
  <2> QED BY <2>1, <2>2, <2>3, LedgerConstants
<1>12. GrantsPaidOnce'
  BY <1>1, <1>2, <1>4, PayoutKeepsPaidOnce, MoveKeepsPaidOnce
     DEF LedgerInv, GrantsPaidOnce, before
<1> QED BY <1>9, <1>10, <1>11, <1>12 DEF LedgerInv

(***************************************************************************)
(* No step of the ledger breaks its invariant.                             *)
(***************************************************************************)
LEMMA LedgerInvStep == LedgerInv /\ [LedgerNext]_roster => LedgerInv'
<1> SUFFICES ASSUME LedgerInv, [LedgerNext]_roster PROVE LedgerInv'
  OBVIOUS
<1>1. CASE PayOut(Written(Len(log')))
  BY <1>1, PayOutKeepsInv
<1>2. CASE Move(Written(Len(log') - 1), log'[Len(log')])
  BY <1>2, MoveKeepsInv
<1>3. CASE UNCHANGED roster
  BY <1>3 DEF roster, LedgerInv, LedgerType, CashReconciles, TradesReconcile,
              SquadReconciles, GrantsPaidOnce, WithinLimits
<1> QED BY <1>1, <1>2, <1>3 DEF LedgerNext

(***************************************************************************)
(* At all times the balance, the trade count and the squad are what the    *)
(* history adds up to, no grant was paid twice, and nothing was overspent. *)
(***************************************************************************)
THEOREM LedgerInvariant == LedgerSpec => []LedgerInv
BY LedgerInvInit, LedgerInvStep, PTL DEF LedgerSpec

-----------------------------------------------------------------------------
(* The season's calendar *)

(***************************************************************************)
(* With both signing dates set, the dates a season form accepts keep the   *)
(* signing window and the trading window apart.                            *)
(***************************************************************************)
THEOREM WindowsDisjoint ==
  ASSUME NEW t \in Nat, Given(SigningsOpenAt), Given(SigningsCloseAt)
  PROVE  ~(TransactionsAllowed(t) /\ TradingAllowed(t))
BY CalendarType, SeasonIsClean
   DEF SeasonClean, TransactionsAllowed, TradingAllowed, Given, OptionalDate

(***************************************************************************)
(* The grants due by an instant are finitely many, are told apart by their *)
(* keys, and are all due by then.                                          *)
(***************************************************************************)
LEMMA ScheduleFacts ==
  ASSUME NEW live \in SUBSET GrantIds, NEW until \in Nat
  PROVE  LET due == TradeGrantSchedule(live, until) IN
         /\ IsFiniteSet(due)
         /\ due \subseteq GrantDue
         /\ \A d \in due : d.granted_at <= until
         /\ \A d, e \in due : d.key = e.key => d = e
<1> DEFINE due == TradeGrantSchedule(live, until)
           ids == {g \in live : GrantedAt[g] <= until}
           weeks == WeeklyMoments(until)
           keys == ids \union weeks
           row(k) == IF k \in GrantIds
                     THEN [key |-> k, granted_at |-> GrantedAt[k], trades |-> GrantTrades[k]]
                     ELSE [key |-> k, granted_at |-> k, trades |-> WeeklyTradesPerWeek]
           f == [k \in keys |-> row(k)]
<1>1. weeks \subseteq 0..SeasonCloseAt /\ weeks \subseteq Nat /\ \A m \in weeks : m <= until
  BY CalendarType DEF WeeklyMoments
<1>2. IsFiniteSet(keys)
  <2>1. IsFiniteSet(ids)
    BY CalendarType, FS_Subset
  <2>2. IsFiniteSet(0..SeasonCloseAt)
    BY CalendarType, FS_Interval
  <2>3. IsFiniteSet(weeks)
    BY <1>1, <2>2, FS_Subset
  <2> HIDE DEF ids, weeks
  <2> QED BY <2>1, <2>3, FS_Union
<1>3. ids \subseteq GrantIds /\ \A m \in weeks : m \notin GrantIds
  BY <1>1, CalendarType
<1>4. due = {row(k) : k \in keys}
  BY <1>3 DEF TradeGrantSchedule
<1>5. \A k \in keys : row(k) \in GrantDue /\ row(k).key = k /\ row(k).granted_at <= until
  BY <1>1, <1>3, CalendarType DEF GrantDue
<1>6. IsFiniteSet(due)
  <2>1. f \in Surjection(keys, due)
    <3> HIDE DEF row, keys
    <3> QED BY <1>4 DEF Surjection
  <2> HIDE DEF f, keys, due
  <2> QED BY <2>1, <1>2, FS_Surjection
<1> HIDE DEF row, keys, due
<1> QED BY <1>4, <1>5, <1>6 DEF due

-----------------------------------------------------------------------------
(* Payouts *)

(***************************************************************************)
(* The row written for a due grant is a grant row with its key, its        *)
(* instant and its trades.                                                 *)
(***************************************************************************)
LEMMA GrantRowFacts ==
  ASSUME NEW d \in GrantDue
  PROVE  /\ GrantRow(d) \in GrantRows
         /\ GrantRow(d).grant_key = d.key
         /\ GrantRow(d).occurred_at = d.granted_at
         /\ GrantRow(d).trades_granted = d.trades
<1>1. GrantRow(d) =
        [kind |-> "GRANT_TRADE", player_in |-> NoPlayer, player_out |-> NoPlayer,
         price_in |-> NoPrice, price_out |-> NoPrice,
         cash_delta |-> 0, trades_granted |-> d.trades, grant_key |-> d.key,
         occurred_at |-> d.granted_at]
  BY DEF GrantRow
<1>2. d.trades \in Nat /\ d.granted_at \in Nat /\ d.key \in GrantIds \union Nat
  BY DEF GrantDue
<1>3. GrantRow(d) \in Row
  BY <1>1, <1>2 DEF Row, Kinds, OptionalPlayer, OptionalPrice
<1> QED BY <1>1, <1>3 DEF GrantRows

(***************************************************************************)
(* What is paid is never in the history yet, and no grant is in the same   *)
(* payout twice.                                                           *)
(***************************************************************************)
LEMMA PayoutsAreFresh ==
  ASSUME NEW old, NEW until \in Nat, NEW rows \in Payouts(old, until)
  PROVE  IsPayout(rows, old) /\ Stamped(rows, until)
<1> DEFINE all == TradeGrantSchedule(LiveGrants, until)
           due == UnpaidGrants(old, until)
           n == Cardinality(due)
<1>1. /\ IsFiniteSet(all)
      /\ all \subseteq GrantDue
      /\ \A d \in all : d.granted_at <= until
      /\ \A d, e \in all : d.key = e.key => d = e
  <2>1. LiveGrants \in SUBSET GrantIds
    BY DEF LiveGrants
  <2> QED BY <2>1, ScheduleFacts
<1>2. due \subseteq all /\ \A d \in due : d.key \notin PaidKeys(old)
  BY DEF UnpaidGrants
<1>3. n \in Nat
  <2> HIDE DEF all, due
  <2>1. IsFiniteSet(due)
    BY <1>1, <1>2, FS_Subset
  <2> QED BY <2>1, FS_CardinalityType
<1>4. PICK f \in [1..n -> due] :
        /\ \A i, j \in 1..n : i < j => f[i] # f[j] /\ f[i].granted_at <= f[j].granted_at
        /\ rows = [i \in 1..n |-> GrantRow(f[i])]
  BY DEF Payouts
<1> HIDE DEF all, due, n
<1>5. \A i \in 1..n : /\ f[i] \in GrantDue
                      /\ f[i].granted_at <= until
                      /\ f[i].key \notin PaidKeys(old)
  BY <1>1, <1>2, <1>4
<1>6. \A i \in 1..n : /\ rows[i] \in GrantRows
                      /\ rows[i].grant_key = f[i].key
                      /\ rows[i].occurred_at = f[i].granted_at
  BY <1>4, <1>5, GrantRowFacts
<1>7. rows \in Seq(GrantRows) /\ Len(rows) = n
  BY <1>3, <1>4, <1>6
<1>8. ASSUME NEW i \in 1..n, NEW j \in 1..n, rows[i].grant_key = rows[j].grant_key
      PROVE  i = j
  <2> SUFFICES ASSUME i # j PROVE FALSE
    OBVIOUS
  <2>1. f[i] = f[j]
    <3>1. f[i] \in all /\ f[j] \in all
      BY <1>2, <1>4
    <3>2. f[i].key = f[j].key
      BY <1>6, <1>8
    <3> QED BY <3>1, <3>2, <1>1
  <2>2. i < j \/ j < i
    BY <1>3
  <2> QED BY <2>1, <2>2, <1>4
<1> QED BY <1>5, <1>6, <1>7, <1>8 DEF IsPayout, Stamped

(***************************************************************************)
(* Rows stamped by an instant are stamped by every later one.              *)
(***************************************************************************)
LEMMA StampedLater ==
  ASSUME NEW rows \in Seq(Row), NEW t \in Nat, NEW u \in Nat, t <= u, Stamped(rows, t)
  PROVE  Stamped(rows, u)
<1> SUFFICES ASSUME NEW i \in 1..Len(rows) PROVE rows[i].occurred_at <= u
  BY DEF Stamped
<1>1. rows[i] \in Row
  OBVIOUS
<1>2. rows[i].occurred_at \in Nat
  BY <1>1 DEF Row
<1>3. rows[i].occurred_at <= t
  BY DEF Stamped
<1> QED BY <1>2, <1>3

(***************************************************************************)
(* Paying nothing is a payout of nothing.                                  *)
(***************************************************************************)
LEMMA EmptyPayout ==
  ASSUME NEW old, NEW t
  PROVE  IsPayout(<<>>, old) /\ Stamped(<<>>, t) /\ Granted(<<>>) = 0 /\ <<>> \in Seq(Row)
<1>1. <<>> \in Seq(GrantRows) /\ Len(<<>>) = 0 /\ <<>> \in Seq(Row)
  OBVIOUS
<1>2. Granted(<<>>) = Total(<<>>)
  BY <1>1 DEF Granted
<1> QED BY <1>1, <1>2, TotalEmpty DEF IsPayout, Stamped

(***************************************************************************)
(* What is paid while fetching the roster and what is paid under the lock  *)
(* of the service call make one payout: the second one reads the first.    *)
(***************************************************************************)
LEMMA PayoutConcat ==
  ASSUME NEW old \in Seq(Row), NEW a, NEW b, NEW t,
         IsPayout(a, old), IsPayout(b, old \o a), Stamped(a, t), Stamped(b, t)
  PROVE  /\ a \in Seq(Row) /\ b \in Seq(Row) /\ a \o b \in Seq(Row)
         /\ IsPayout(a \o b, old)
         /\ Stamped(a \o b, t)
         /\ Granted(a \o b) = Granted(a) + Granted(b)
         /\ Granted(a) \in Nat /\ Granted(b) \in Nat
<1> DEFINE c == a \o b  n == Len(a)  m == Len(b)  k == old \o a
<1>1. /\ a \in Seq(GrantRows) /\ b \in Seq(GrantRows)
      /\ \A i, j \in 1..n : a[i].grant_key = a[j].grant_key => i = j
      /\ \A i, j \in 1..m : b[i].grant_key = b[j].grant_key => i = j
      /\ \A i \in 1..n : a[i].grant_key \notin PaidKeys(old)
      /\ \A i \in 1..m : b[i].grant_key \notin PaidKeys(k)
  BY DEF IsPayout
<1>2. /\ c \in Seq(GrantRows) /\ Len(c) = n + m /\ n \in Nat /\ m \in Nat
      /\ \A i \in 1..n : c[i] = a[i]
      /\ \A i \in (n + 1)..(n + m) : c[i] = b[i - n] /\ i - n \in 1..m
  BY <1>1
<1>3. /\ a \in Seq(Row) /\ b \in Seq(Row) /\ c \in Seq(Row)
      /\ Granted(a) = Total(TradeFlow(a)) /\ Granted(a) \in Nat
      /\ Granted(b) = Total(TradeFlow(b)) /\ Granted(b) \in Nat
      /\ Granted(c) = Total(TradeFlow(c))
  BY <1>1, <1>2, PayoutFlow
<1>4. Granted(c) = Granted(a) + Granted(b)
  BY <1>3, FlowConcat
<1>5. /\ Len(k) = Len(old) + n /\ Len(old) \in Nat
      /\ \A i \in 1..Len(old) : k[i] = old[i] /\ i \in 1..Len(k)
      /\ \A i \in 1..n : k[Len(old) + i] = a[i] /\ Len(old) + i \in 1..Len(k)
  BY <1>1, <1>2
<1> HIDE DEF c, k
<1>6. PaidKeys(old) \subseteq PaidKeys(k)
  BY <1>5 DEF PaidKeys
<1>7. \A i \in 1..n : a[i].grant_key \in PaidKeys(k)
  <2>1. \A i \in 1..n : a[i].kind = "GRANT_TRADE"
    BY <1>1 DEF GrantRows
  <2> QED BY <1>5, <2>1 DEF PaidKeys
<1>8. ASSUME NEW i \in 1..(n + m), NEW j \in 1..(n + m),
             c[i].grant_key = c[j].grant_key
      PROVE  i = j
  <2>1. CASE i \in 1..n /\ j \in 1..n
    BY <1>1, <1>2, <1>8, <2>1
  <2>2. CASE i \in 1..n /\ j \notin 1..n
    <3>1. c[i].grant_key \in PaidKeys(k)
      BY <1>2, <1>7, <2>2
    <3>2. j - n \in 1..m /\ c[j] = b[j - n]
      BY <1>2, <2>2
    <3>3. c[j].grant_key \notin PaidKeys(k)
      BY <1>1, <3>2
    <3> QED BY <1>8, <3>1, <3>3
  <2>3. CASE i \notin 1..n /\ j \in 1..n
    <3>1. c[j].grant_key \in PaidKeys(k)
      BY <1>2, <1>7, <2>3
    <3>2. i - n \in 1..m /\ c[i] = b[i - n]
      BY <1>2, <2>3
    <3>3. c[i].grant_key \notin PaidKeys(k)
      BY <1>1, <3>2
    <3> QED BY <1>8, <3>1, <3>3
  <2>4. CASE i \notin 1..n /\ j \notin 1..n
    <3>1. /\ i - n \in 1..m /\ j - n \in 1..m
          /\ c[i] = b[i - n] /\ c[j] = b[j - n]
      BY <1>2, <2>4
    <3>2. i - n = j - n
      BY <1>1, <1>8, <3>1
    <3> QED BY <3>2, <1>2
  <2> QED BY <2>1, <2>2, <2>3, <2>4
<1>9. ASSUME NEW i \in 1..(n + m)
      PROVE  c[i].grant_key \notin PaidKeys(old) /\ c[i].occurred_at <= t
  <2>1. CASE i \in 1..n
    BY <1>1, <1>2, <2>1 DEF Stamped
  <2>2. CASE i \notin 1..n
    <3>1. c[i] = b[i - n] /\ i - n \in 1..m
      BY <1>2, <2>2
    <3> QED BY <1>1, <1>6, <3>1 DEF Stamped
  <2> QED BY <2>1, <2>2
<1>10. IsPayout(c, old) /\ Stamped(c, t)
  BY <1>2, <1>8, <1>9 DEF IsPayout, Stamped
<1> QED BY <1>3, <1>4, <1>10 DEF c

-----------------------------------------------------------------------------
(* A step writes what it appends *)

(***************************************************************************)
(* What a commit appends to the history is what it has written.            *)
(***************************************************************************)
LEMMA WrittenPayout ==
  ASSUME log \in Seq(Row), NEW new \in Seq(Row), log' = log \o new
  PROVE  Written(Len(log')) = new
<1> DEFINE sub == SubSeq(log', Len(log) + 1, Len(log'))
<1>1. /\ log' \in Seq(Row) /\ Len(log') = Len(log) + Len(new)
      /\ Len(log) \in Nat /\ Len(new) \in Nat
      /\ \A i \in 1..Len(new) : log'[Len(log) + i] = new[i]
  BY ConcatProperties
<1>2. /\ sub \in Seq(Row) /\ Len(sub) = Len(new)
      /\ \A i \in 1..Len(new) : sub[i] = log'[Len(log) + i]
  BY <1>1
<1>3. sub = new
  BY <1>1, <1>2, SeqEqual
<1> QED BY <1>3 DEF Written

(***************************************************************************)
(* After a move the history ends in its row, behind the payouts it came    *)
(* with.                                                                   *)
(***************************************************************************)
LEMMA WrittenMove ==
  ASSUME log \in Seq(Row), NEW new \in Seq(Row), NEW row \in Row,
         log' = Append(log \o new, row)
  PROVE  /\ Len(log') > Len(log)
         /\ Written(Len(log') - 1) = new
         /\ log'[Len(log')] = row
<1> DEFINE old == log \o new
           sub == SubSeq(log', Len(log) + 1, Len(log') - 1)
<1>1. /\ old \in Seq(Row) /\ Len(old) = Len(log) + Len(new)
      /\ Len(log) \in Nat /\ Len(new) \in Nat
      /\ \A i \in 1..Len(new) : old[Len(log) + i] = new[i]
  BY ConcatProperties
<1> HIDE DEF old
<1>2. /\ log' \in Seq(Row) /\ Len(log') = Len(old) + 1
      /\ log'[Len(log')] = row
      /\ \A i \in 1..Len(old) : log'[i] = old[i]
  BY <1>1 DEF old
<1>3. /\ sub \in Seq(Row) /\ Len(sub) = Len(new)
      /\ \A i \in 1..Len(new) : sub[i] = log'[Len(log) + i]
  BY <1>1, <1>2
<1>4. \A i \in 1..Len(new) : sub[i] = new[i]
  BY <1>1, <1>2, <1>3
<1>5. sub = new
  BY <1>3, <1>4, SeqEqual
<1> QED BY <1>1, <1>2, <1>5 DEF Written

-----------------------------------------------------------------------------
(* The inductive invariant: the ledger's promise, the types, and who may   *)
(* have written what he has not committed                                  *)

RosterInv == LedgerInv /\ TypeOK /\ RequestsInOrder

StepKeeps == [LedgerNext]_roster /\ TypeOK' /\ RequestsInOrder'

RequestsTyped ==
  /\ lock \in Workers \union {Nobody}
  /\ pc \in [Workers -> {"idle", "fetched", "paying", "open", "quoted"}]
  /\ req \in [Workers -> Request]
  /\ seen \in [Workers -> Int]
  /\ at \in [Workers -> Nat]
  /\ paid \in [Workers -> Seq(Row)]

(***************************************************************************)
(* An idle worker has a request in good order.                             *)
(***************************************************************************)
LEMMA NoRequestFacts == NoRequest \in Request /\ WellFormed(NoRequest)
BY LedgerConstants
   DEF NoRequest, Ask, Request, WellFormed, AllOps, OptionalPlayer, OptionalPrice

(***************************************************************************)
(* A request that ends takes its payouts and its lock along, and leaves    *)
(* the others as they were: whoever may extend the history has the lock,   *)
(* so nobody else has payouts the new history could contradict.            *)
(***************************************************************************)
LEMMA EndKeepsOrder ==
  ASSUME RosterInv, NEW w \in Workers, End(w), now' = now,
         log' = log \/ LockFree(w)
  PROVE  RequestsTyped' /\ \A v \in Workers : RequestInOrder(v)'
<1>1. /\ lock \in Workers \union {Nobody}
      /\ pc \in [Workers -> {"idle", "fetched", "paying", "open", "quoted"}]
      /\ req \in [Workers -> Request]
      /\ seen \in [Workers -> Int]
      /\ at \in [Workers -> Nat]
      /\ paid \in [Workers -> Seq(Row)]
      /\ now \in Nat
  BY DEF RosterInv, TypeOK
<1>2. /\ lock' = IF lock = w THEN Nobody ELSE lock
      /\ pc' = [pc EXCEPT ![w] = "idle"]
      /\ req' = [req EXCEPT ![w] = NoRequest]
      /\ seen' = [seen EXCEPT ![w] = 0]
      /\ at' = [at EXCEPT ![w] = 0]
      /\ paid' = [paid EXCEPT ![w] = <<>>]
  BY DEF End
<1>3. RequestsTyped'
  BY <1>1, <1>2, NoRequestFacts, EmptyPayout DEF RequestsTyped
<1>4. RequestInOrder(w)'
  <2>1. /\ lock' # w /\ pc'[w] = "idle" /\ req'[w] = NoRequest
        /\ at'[w] = 0 /\ paid'[w] = <<>>
    BY <1>1, <1>2, RosterConstants
  <2>2. IsPayout(paid'[w], log') /\ Stamped(paid'[w], now')
    BY <2>1, EmptyPayout
  <2> QED BY <1>1, <2>1, <2>2, NoRequestFacts DEF RequestInOrder
<1>5. ASSUME NEW v \in Workers, v # w PROVE RequestInOrder(v)'
  <2>1. /\ pc'[v] = pc[v] /\ req'[v] = req[v]
        /\ at'[v] = at[v] /\ paid'[v] = paid[v]
        /\ lock' = v => lock = v
    BY <1>1, <1>2, <1>5, RosterConstants
  <2>2. /\ at[v] <= now
        /\ IsPayout(paid[v], log) /\ Stamped(paid[v], now)
        /\ lock # v => paid[v] = <<>>
        /\ pc[v] = "idle" => lock # v
        /\ WellFormed(req[v])
        /\ pc[v] = "quoted" => Priced(req[v])
    BY DEF RosterInv, RequestsInOrder, RequestInOrder
  <2>3. lock' # v => paid[v] = <<>>
    BY <1>2, <1>5, <2>2
  <2>4. IsPayout(paid'[v], log') /\ Stamped(paid'[v], now')
    <3>1. CASE log' = log
      BY <2>1, <2>2, <3>1
    <3>2. CASE LockFree(w)
      <4>1. lock # v
        BY <1>5, <3>2, RosterConstants DEF LockFree
      <4> QED BY <2>1, <2>2, <4>1, EmptyPayout
    <3> QED BY <3>1, <3>2
  <2> QED BY <2>1, <2>2, <2>3, <2>4 DEF RequestInOrder
<1> QED BY <1>3, <1>4, <1>5

(***************************************************************************)
(* Payouts may be appended one after the other or together.                *)
(***************************************************************************)
LEMMA RowsConcatAssociative ==
  ASSUME NEW a \in Seq(Row), NEW b \in Seq(Row), NEW c \in Seq(Row)
  PROVE  (a \o b) \o c = a \o (b \o c)
<1> DEFINE l == (a \o b) \o c  r == a \o (b \o c)  ab == a \o b  bc == b \o c
<1>1. /\ ab \in Seq(Row) /\ Len(ab) = Len(a) + Len(b)
      /\ bc \in Seq(Row) /\ Len(bc) = Len(b) + Len(c)
      /\ Len(a) \in Nat /\ Len(b) \in Nat /\ Len(c) \in Nat
  OBVIOUS
<1>2. /\ l \in Seq(Row) /\ Len(l) = Len(a) + Len(b) + Len(c)
      /\ r \in Seq(Row) /\ Len(r) = Len(a) + Len(b) + Len(c)
  BY <1>1
<1>3. ASSUME NEW i \in 1..(Len(a) + Len(b) + Len(c)) PROVE l[i] = r[i]
  <2>1. CASE i <= Len(a)
    BY <1>1, <2>1
  <2>2. CASE ~(i <= Len(a)) /\ i <= Len(a) + Len(b)
    BY <1>1, <2>2
  <2>3. CASE ~(i <= Len(a) + Len(b))
    BY <1>1, <2>3
  <2> QED BY <2>1, <2>2, <2>3, <1>1
<1> HIDE DEF l, r
<1>4. l = r
  BY <1>2, <1>3, SeqEqual
<1> QED BY <1>4 DEF l, r

(***************************************************************************)
(* Everything a service call pays is new to the history it found.          *)
(***************************************************************************)
LEMMA ServicePays ==
  ASSUME RosterInv, NEW w \in Workers, NEW rows \in DueNow(w)
  PROVE  /\ rows \in Seq(Row) /\ paid[w] \o rows \in Seq(Row)
         /\ IsPayout(paid[w] \o rows, log) /\ Stamped(paid[w] \o rows, now)
         /\ Granted(paid[w] \o rows) = Granted(paid[w]) + Granted(rows)
         /\ Granted(paid[w]) \in Nat /\ Granted(rows) \in Nat
         /\ log \o paid[w] \o rows = log \o (paid[w] \o rows)
<1>1. /\ now \in Nat /\ log \in Seq(Row) /\ paid[w] \in Seq(Row)
  BY DEF RosterInv, TypeOK, LedgerInv, LedgerType
<1>2. IsPayout(paid[w], log) /\ Stamped(paid[w], now)
  BY DEF RosterInv, RequestsInOrder, RequestInOrder
<1>3. IsPayout(rows, log \o paid[w]) /\ Stamped(rows, now)
  BY <1>1, PayoutsAreFresh DEF DueNow
<1>4. rows \in Seq(Row)
  BY <1>3, PayoutFlow DEF IsPayout
<1>5. log \o paid[w] \o rows = log \o (paid[w] \o rows)
  BY <1>1, <1>4, RowsConcatAssociative
<1> DEFINE p == paid[w]
<1> HIDE DEF p
<1>6. /\ p \o rows \in Seq(Row)
      /\ IsPayout(p \o rows, log)
      /\ Stamped(p \o rows, now)
      /\ Granted(p \o rows) = Granted(p) + Granted(rows)
      /\ Granted(p) \in Nat /\ Granted(rows) \in Nat
  <2>1. IsPayout(p, log) /\ Stamped(p, now) /\ IsPayout(rows, log \o p)
    BY <1>2, <1>3 DEF p
  <2> QED BY ZenonT(60), <1>1, <1>3, <2>1, PayoutConcat
<1> QED BY <1>4, <1>5, <1>6 DEF p

(***************************************************************************)
(* A row written for a priced request is a move in good order.             *)
(***************************************************************************)
LEMMA MoveRowFacts ==
  ASSUME NEW r \in Request, WellFormed(r), Priced(r),
         NEW kind \in Kinds, kind # "GRANT_TRADE", NEW delta \in Int, NEW t \in Nat,
         r.player_in \in Players \/ r.player_out \in Players =>
           /\ r.player_in # r.player_out
           /\ delta = Amount(r.price_out) - Amount(r.price_in)
  PROVE  LET row == MoveRow(kind, r, delta, t) IN
         /\ row \in MoveRows /\ row \in Row
         /\ row.kind = kind /\ row.cash_delta = delta /\ row.occurred_at = t
         /\ row.player_in = r.player_in /\ row.player_out = r.player_out
         /\ row.price_in = r.price_in
<1> DEFINE row == MoveRow(kind, r, delta, t)
<1>1. row = [kind |-> kind, player_in |-> r.player_in, player_out |-> r.player_out,
             price_in |-> r.price_in, price_out |-> r.price_out,
             cash_delta |-> delta, trades_granted |-> 0, grant_key |-> NoKey,
             occurred_at |-> t]
  BY DEF MoveRow
<1>2. /\ r.player_in \in OptionalPlayer /\ r.player_out \in OptionalPlayer
      /\ r.price_in \in OptionalPrice /\ r.price_out \in OptionalPrice
  BY DEF Request
<1> HIDE DEF row
<1>3. row \in Row
  BY <1>1, <1>2 DEF Row
<1>4. /\ (r.player_in # NoPlayer) = (r.player_in \in Players)
      /\ (r.player_out # NoPlayer) = (r.player_out \in Players)
      /\ (r.price_in # NoPrice) = (r.price_in \in Nat)
      /\ (r.price_out # NoPrice) = (r.price_out \in Nat)
  BY <1>2, LedgerConstants DEF OptionalPlayer, OptionalPrice
<1>5. row \in MoveRows
  <2>1. /\ row.kind # "GRANT_TRADE"
        /\ row.player_in = r.player_in /\ row.player_out = r.player_out
        /\ row.price_in = r.price_in /\ row.price_out = r.price_out
        /\ row.cash_delta = delta
    BY <1>1
  <2> QED BY <2>1, <1>3, <1>4 DEF MoveRows, MovesPlayer, Priced
<1> QED BY <1>1, <1>3, <1>5 DEF row

(***************************************************************************)
(* A service call that passes its checks is one move of the ledger.        *)
(***************************************************************************)
LEMMA RecordIsMove ==
  ASSUME RosterInv, NEW w \in Workers, LockFree(w), NEW rows \in DueNow(w),
         NEW kind, NEW delta, Record(w, rows, kind, delta),
         NEW row \in MoveRows, row = MoveRow(kind, req[w], delta, at[w]),
         row.cash_delta = delta, row.occurred_at = at[w],
         cash' = cash + delta,
         trades_available' = TradesHeld(w) + Granted(rows) + TradesMoved(row),
         row.player_out \in squad \union {NoPlayer},
         row.player_in \notin squad,
         squad' = ((squad \ {row.player_out}) \union {row.player_in}) \ {NoPlayer},
         cash' >= 0, trades_available' >= 0, Cardinality(squad') <= RosterSize
  PROVE  StepKeeps
<1> DEFINE new == paid[w] \o rows
<1>1. /\ now \in Nat /\ log \in Seq(Row) /\ at[w] \in Nat /\ at[w] <= now
      /\ cash \in Int /\ trades_available \in Int /\ squad \in SUBSET Players
  BY DEF RosterInv, TypeOK, LedgerInv, LedgerType, RequestsInOrder, RequestInOrder
<1>2. /\ new \in Seq(Row)
      /\ IsPayout(new, log) /\ Stamped(new, now)
      /\ Granted(new) = Granted(paid[w]) + Granted(rows)
      /\ Granted(paid[w]) \in Nat /\ Granted(rows) \in Nat
      /\ log \o paid[w] \o rows = log \o new
  BY ServicePays
<1> HIDE DEF new
<1>3. /\ log' = Append(log \o new, row)
      /\ End(w)
      /\ now' = now /\ salary' = salary /\ grants' = grants
  BY <1>2 DEF Record, season
<1>4. row \in Row /\ TradesMoved(row) \in Int /\ row.cash_delta \in Int
  <2>1. row \in Row
    BY DEF MoveRows
  <2>2. row.cash_delta \in Int
    BY <2>1 DEF Row
  <2>3. TradesMoved(row) \in Int
    BY <2>1 DEF Row, TradesMoved
  <2> QED BY <2>1, <2>2, <2>3
<1>5. trades_available' = trades_available + Granted(new) + TradesMoved(row)
  BY <1>1, <1>2, <1>4 DEF TradesHeld
<1>6. Move(new, row)
  BY <1>2, <1>3, <1>5 DEF Move
<1>7. LedgerNext
  BY <1>1, <1>2, <1>3, <1>4, <1>6, WrittenMove DEF LedgerNext
<1>8. RequestsTyped' /\ \A v \in Workers : RequestInOrder(v)'
  BY <1>3, EndKeepsOrder
<1>9. LedgerType'
  BY <1>6, MoveKeepsInv DEF RosterInv, LedgerInv
<1>10. TypeOK'
  BY <1>3, <1>8, <1>9 DEF RosterInv, TypeOK, RequestsTyped, LedgerType
<1>11. HistoryInOrder'
  <2> DEFINE k == log \o new
  <2>1. /\ Len(log') = Len(log) + Len(new) + 1
        /\ Len(log) \in Nat /\ Len(new) \in Nat
        /\ \A i \in 1..Len(log) : log'[i] = log[i]
        /\ \A i \in (Len(log) + 1)..(Len(log) + Len(new)) :
             log'[i] = new[i - Len(log)] /\ i - Len(log) \in 1..Len(new)
        /\ log'[Len(log) + Len(new) + 1] = row
    <3>1. /\ k \in Seq(Row) /\ Len(k) = Len(log) + Len(new)
          /\ Len(log) \in Nat /\ Len(new) \in Nat
          /\ \A i \in 1..Len(log) : k[i] = log[i] /\ i \in 1..Len(k)
          /\ \A i \in (Len(log) + 1)..(Len(log) + Len(new)) :
               /\ k[i] = new[i - Len(log)] /\ i \in 1..Len(k)
               /\ i - Len(log) \in 1..Len(new)
      BY SMTT(30), <1>1, <1>2
    <3> HIDE DEF k
    <3>2. /\ log' = Append(k, row)
          /\ Len(log') = Len(k) + 1
          /\ \A i \in 1..Len(k) : log'[i] = k[i]
          /\ log'[Len(k) + 1] = row
      BY <1>3, <1>4, <3>1 DEF k
    <3> QED BY <3>1, <3>2
  <2>2. \A i \in 1..Len(new) : new[i].player_in = NoPlayer /\ new[i].occurred_at <= now
    BY <1>2 DEF IsPayout, GrantRows, Stamped
  <2>3. row.player_in # NoPlayer => row.price_in # NoPrice
    BY DEF MoveRows
  <2>4. /\ \A i \in 1..Len(log) : log[i].occurred_at <= now
        /\ \A i \in 1..Len(log) : log[i].player_in # NoPlayer => log[i].price_in # NoPrice
    BY DEF RosterInv, RequestsInOrder, HistoryInOrder, Stamped
  <2>5. ASSUME NEW i \in 1..Len(log')
        PROVE  /\ log'[i].occurred_at <= now
               /\ log'[i].player_in # NoPlayer => log'[i].price_in # NoPrice
    <3>1. CASE i \in 1..Len(log)
      BY <2>1, <2>4, <3>1
    <3>2. CASE i \in (Len(log) + 1)..(Len(log) + Len(new))
      <4>1. log'[i] = new[i - Len(log)] /\ i - Len(log) \in 1..Len(new)
        BY <2>1, <3>2
      <4> QED BY <2>2, <4>1
    <3>3. CASE i = Len(log) + Len(new) + 1
      <4>1. log'[i] = row /\ row.occurred_at <= now
        BY <1>1, <2>1, <3>3
      <4> QED BY <2>3, <4>1
    <3>4. \/ i \in 1..Len(log)
          \/ i \in (Len(log) + 1)..(Len(log) + Len(new))
          \/ i = Len(log) + Len(new) + 1
      <4>1. /\ Len(log') = Len(log) + Len(new) + 1
            /\ Len(log) \in Nat /\ Len(new) \in Nat
        BY <2>1
      <4> QED BY <4>1
    <3> QED BY <3>1, <3>2, <3>3, <3>4
  <2> QED BY <1>3, <2>5 DEF HistoryInOrder, Stamped
<1> QED BY <1>7, <1>8, <1>10, <1>11 DEF StepKeeps, RequestsInOrder

-----------------------------------------------------------------------------
(* The service calls *)

(***************************************************************************)
(* What the checks of a service call may rely on.                          *)
(***************************************************************************)
LEMMA QuotedRequest ==
  ASSUME RosterInv, NEW w \in Workers, NEW op, Locks(w, op)
  PROVE  /\ LockFree(w)
         /\ req[w] \in Request /\ req[w].op = op
         /\ WellFormed(req[w]) /\ Priced(req[w])
         /\ at[w] \in Nat
         /\ cash \in Nat /\ trades_available \in Nat /\ squad \in SUBSET Players
         /\ IsFiniteSet(squad) /\ Cardinality(squad) \in Nat
         /\ Cardinality(squad) <= RosterSize
<1>1. /\ LockFree(w) /\ pc[w] = "quoted" /\ req[w].op = op
  BY DEF Locks
<1>2. req[w] \in Request /\ at[w] \in Nat
  BY DEF RosterInv, TypeOK
<1>3. WellFormed(req[w]) /\ Priced(req[w])
  BY <1>1 DEF RosterInv, RequestsInOrder, RequestInOrder
<1>4. /\ cash \in Nat /\ trades_available \in Nat /\ squad \in SUBSET Players
      /\ Cardinality(squad) <= RosterSize
  BY DEF RosterInv, LedgerInv, LedgerType, WithinLimits
<1>5. IsFiniteSet(squad) /\ Cardinality(squad) \in Nat
  BY <1>4, LedgerConstants, FS_Subset, FS_CardinalityType
<1> QED BY <1>1, <1>2, <1>3, <1>4, <1>5

(***************************************************************************)
(* Signing a player (services.buy).                                        *)
(***************************************************************************)
LEMMA BuyKeeps ==
  ASSUME RosterInv, NEW w \in Workers, Buy(w)
  PROVE  StepKeeps
<1> DEFINE r == req[w]  delta == -r.price_in  row == MoveRow("BUY", r, delta, at[w])
<1>1. Locks(w, "buy") /\ CanBuy(w) /\ squad' = squad \union {r.player_in}
      /\ cash' = cash - r.price_in
  BY DEF Buy
<1>2. PICK rows \in DueNow(w) :
        /\ trades_available' = TradesHeld(w) + Granted(rows)
        /\ Record(w, rows, "BUY", delta)
  BY DEF Buy
<1>3. /\ LockFree(w)
      /\ r \in Request /\ r.op = "buy" /\ WellFormed(r) /\ Priced(r) /\ at[w] \in Nat
      /\ cash \in Nat /\ trades_available \in Nat /\ squad \in SUBSET Players
      /\ IsFiniteSet(squad) /\ Cardinality(squad) \in Nat
  BY <1>1, QuotedRequest
<1>4. /\ r.player_in \in Players /\ r.price_in \in Nat
      /\ r.player_out = NoPlayer /\ r.price_out = NoPrice
  BY <1>3 DEF WellFormed, Priced, Request, OptionalPlayer, OptionalPrice
<1>5. /\ r.price_in <= cash /\ r.player_in \notin squad
      /\ Cardinality(squad) < RosterSize
  BY <1>1 DEF CanBuy
<1> HIDE DEF r
<1>6. /\ row \in MoveRows /\ row.kind = "BUY" /\ row.cash_delta = delta
      /\ row.occurred_at = at[w]
      /\ row.player_in = r.player_in /\ row.player_out = r.player_out
  <2>1. delta \in Int /\ delta = Amount(r.price_out) - Amount(r.price_in)
    BY <1>4, LedgerConstants DEF Amount
  <2>2. r.player_in # r.player_out
    BY <1>4, LedgerConstants
  <2> QED BY <1>3, <2>1, <2>2, MoveRowFacts DEF Kinds
<1>7. TradesMoved(row) = 0
  BY <1>6 DEF TradesMoved
<1>8. Granted(paid[w]) \in Nat /\ Granted(rows) \in Nat
  BY ServicePays
<1>9. /\ cash' = cash + delta /\ cash' >= 0
      /\ trades_available' = TradesHeld(w) + Granted(rows) + TradesMoved(row)
      /\ trades_available' >= 0
  BY <1>1, <1>2, <1>3, <1>4, <1>5, <1>7, <1>8 DEF TradesHeld, r
<1>10. /\ row.player_out \in squad \union {NoPlayer}
       /\ row.player_in \notin squad
       /\ squad' = ((squad \ {row.player_out}) \union {row.player_in}) \ {NoPlayer}
  BY <1>1, <1>3, <1>4, <1>5, <1>6, LedgerConstants DEF r
<1>11. Cardinality(squad') <= RosterSize
  <2>1. Cardinality(squad \union {r.player_in}) = Cardinality(squad) + 1
    BY <1>3, <1>5, FS_AddElement
  <2> QED BY <1>1, <1>3, <1>5, <2>1, LedgerConstants DEF r
<1> QED BY <1>2, <1>3, <1>6, <1>9, <1>10, <1>11, RecordIsMove DEF r

(***************************************************************************)
(* Releasing a player (services.sell).                                     *)
(***************************************************************************)
LEMMA SellKeeps ==
  ASSUME RosterInv, NEW w \in Workers, Sell(w)
  PROVE  StepKeeps
<1> DEFINE r == req[w]  delta == r.price_out  row == MoveRow("SELL", r, delta, at[w])
<1>1. Locks(w, "sell") /\ CanSell(w) /\ squad' = squad \ {r.player_out}
      /\ cash' = cash + r.price_out
  BY DEF Sell
<1>2. PICK rows \in DueNow(w) :
        /\ trades_available' = TradesHeld(w) + Granted(rows)
        /\ Record(w, rows, "SELL", delta)
  BY DEF Sell
<1>3. /\ LockFree(w)
      /\ r \in Request /\ r.op = "sell" /\ WellFormed(r) /\ Priced(r) /\ at[w] \in Nat
      /\ cash \in Nat /\ trades_available \in Nat /\ squad \in SUBSET Players
      /\ IsFiniteSet(squad) /\ Cardinality(squad) \in Nat
      /\ Cardinality(squad) <= RosterSize
  BY <1>1, QuotedRequest
<1>4. /\ r.player_out \in Players /\ r.price_out \in Nat
      /\ r.player_in = NoPlayer /\ r.price_in = NoPrice
  BY <1>3 DEF WellFormed, Priced, Request, OptionalPlayer, OptionalPrice
<1>5. r.player_out \in squad
  BY <1>1 DEF CanSell
<1> HIDE DEF r
<1>6. /\ row \in MoveRows /\ row.kind = "SELL" /\ row.cash_delta = delta
      /\ row.occurred_at = at[w]
      /\ row.player_in = r.player_in /\ row.player_out = r.player_out
  <2>1. delta \in Int /\ delta = Amount(r.price_out) - Amount(r.price_in)
    BY <1>4, LedgerConstants DEF Amount
  <2>2. r.player_in # r.player_out
    BY <1>4, LedgerConstants
  <2> QED BY <1>3, <2>1, <2>2, MoveRowFacts DEF Kinds
<1>7. TradesMoved(row) = 0
  BY <1>6 DEF TradesMoved
<1>8. Granted(paid[w]) \in Nat /\ Granted(rows) \in Nat
  BY ServicePays
<1>9. /\ cash' = cash + delta /\ cash' >= 0
      /\ trades_available' = TradesHeld(w) + Granted(rows) + TradesMoved(row)
      /\ trades_available' >= 0
  BY <1>1, <1>2, <1>3, <1>4, <1>7, <1>8 DEF TradesHeld, r
<1>10. /\ row.player_out \in squad \union {NoPlayer}
       /\ row.player_in \notin squad
       /\ squad' = ((squad \ {row.player_out}) \union {row.player_in}) \ {NoPlayer}
  BY <1>1, <1>3, <1>4, <1>5, <1>6, LedgerConstants DEF r
<1>11. Cardinality(squad') <= RosterSize
  <2>1. Cardinality(squad \ {r.player_out}) = Cardinality(squad) - 1
    BY <1>3, <1>5, FS_RemoveElement
  <2> QED BY <1>1, <1>3, <2>1, LedgerConstants DEF r
<1> QED BY <1>2, <1>3, <1>6, <1>9, <1>10, <1>11, RecordIsMove DEF r

(***************************************************************************)
(* Swapping a player for another (services.trade).                         *)
(***************************************************************************)
LEMMA TradeKeeps ==
  ASSUME RosterInv, NEW w \in Workers, Trade(w)
  PROVE  StepKeeps
<1> DEFINE r == req[w]
           delta == r.price_out - r.price_in
           row == MoveRow("TRADE", r, delta, at[w])
<1>1. Locks(w, "trade")
  BY DEF Trade
<1>2. PICK rows \in DueNow(w) :
        /\ CanTrade(w, TradesHeld(w) + Granted(rows))
        /\ squad' = (squad \ {r.player_out}) \union {r.player_in}
        /\ cash' = cash + (r.price_out - r.price_in)
        /\ trades_available' = TradesHeld(w) + Granted(rows) - 1
        /\ Record(w, rows, "TRADE", delta)
  BY DEF Trade
<1>3. /\ LockFree(w)
      /\ r \in Request /\ r.op = "trade" /\ WellFormed(r) /\ Priced(r) /\ at[w] \in Nat
      /\ cash \in Nat /\ trades_available \in Nat /\ squad \in SUBSET Players
      /\ IsFiniteSet(squad) /\ Cardinality(squad) \in Nat
      /\ Cardinality(squad) <= RosterSize
  BY <1>1, QuotedRequest
<1>4. /\ r.player_out \in Players /\ r.price_out \in Nat
      /\ r.player_in \in Players /\ r.price_in \in Nat
  BY <1>3 DEF WellFormed, Priced
<1>5. /\ TradesHeld(w) + Granted(rows) > 0
      /\ r.player_out # r.player_in
      /\ r.player_out \in squad /\ r.player_in \notin squad
      /\ cash + r.price_out - r.price_in >= 0
  BY <1>2 DEF CanTrade
<1> HIDE DEF r
<1>6. /\ row \in MoveRows /\ row.kind = "TRADE" /\ row.cash_delta = delta
      /\ row.occurred_at = at[w]
      /\ row.player_in = r.player_in /\ row.player_out = r.player_out
  <2>1. delta \in Int /\ delta = Amount(r.price_out) - Amount(r.price_in)
    BY <1>4, LedgerConstants DEF Amount
  <2> QED BY <1>3, <1>5, <2>1, MoveRowFacts DEF Kinds
<1>7. TradesMoved(row) = -1
  BY <1>6 DEF TradesMoved
<1>8. Granted(paid[w]) \in Nat /\ Granted(rows) \in Nat
  BY ServicePays
<1>9. /\ cash' = cash + delta /\ cash' >= 0
      /\ trades_available' = TradesHeld(w) + Granted(rows) + TradesMoved(row)
      /\ trades_available' >= 0
  BY <1>2, <1>3, <1>4, <1>5, <1>7, <1>8 DEF TradesHeld
<1>10. /\ row.player_out \in squad \union {NoPlayer}
       /\ row.player_in \notin squad
       /\ squad' = ((squad \ {row.player_out}) \union {row.player_in}) \ {NoPlayer}
  BY <1>2, <1>3, <1>4, <1>5, <1>6, LedgerConstants
<1>11. Cardinality(squad') <= RosterSize
  <2> DEFINE rest == squad \ {r.player_out}
  <2>1. Cardinality(rest) = Cardinality(squad) - 1 /\ IsFiniteSet(rest)
    BY <1>3, <1>5, FS_RemoveElement
  <2>2. r.player_in \notin rest
    BY <1>5
  <2> HIDE DEF rest
  <2>3. Cardinality(rest \union {r.player_in}) = Cardinality(rest) + 1
    BY <2>1, <2>2, FS_AddElement
  <2> QED BY <1>2, <1>3, <2>1, <2>3, LedgerConstants DEF rest
<1> QED BY <1>2, <1>3, <1>6, <1>9, <1>10, <1>11, RecordIsMove DEF r

(***************************************************************************)
(* Buying a trade for cash (services.buy_trade).                           *)
(***************************************************************************)
LEMMA BuyTradeKeeps ==
  ASSUME RosterInv, NEW w \in Workers, BuyTrade(w)
  PROVE  StepKeeps
<1> DEFINE r == req[w]
           delta == -TradeBuyPrice
           row == MoveRow("BUY_TRADE", r, delta, at[w])
<1>1. Locks(w, "buy_trade") /\ CanBuyTrade /\ squad' = squad
      /\ cash' = cash - TradeBuyPrice
  BY DEF BuyTrade
<1>2. PICK rows \in DueNow(w) :
        /\ trades_available' = TradesHeld(w) + Granted(rows) + 1
        /\ Record(w, rows, "BUY_TRADE", delta)
  BY DEF BuyTrade
<1>3. /\ LockFree(w)
      /\ r \in Request /\ r.op = "buy_trade" /\ WellFormed(r) /\ Priced(r) /\ at[w] \in Nat
      /\ cash \in Nat /\ trades_available \in Nat /\ squad \in SUBSET Players
      /\ Cardinality(squad) <= RosterSize
  BY <1>1, QuotedRequest
<1>4. r.player_in = NoPlayer /\ r.player_out = NoPlayer
  BY <1>3 DEF WellFormed, Request, OptionalPlayer
<1> HIDE DEF r
<1>6. /\ row \in MoveRows /\ row.kind = "BUY_TRADE" /\ row.cash_delta = delta
      /\ row.occurred_at = at[w]
      /\ row.player_in = r.player_in /\ row.player_out = r.player_out
  <2>1. delta \in Int
    BY RosterConstants
  <2>2. ~(r.player_in \in Players \/ r.player_out \in Players)
    BY <1>4, LedgerConstants
  <2> QED BY <1>3, <2>1, <2>2, MoveRowFacts DEF Kinds
<1>7. TradesMoved(row) = 1
  BY <1>6 DEF TradesMoved
<1>8. Granted(paid[w]) \in Nat /\ Granted(rows) \in Nat
  BY ServicePays
<1>9. /\ cash' = cash + delta /\ cash' >= 0
      /\ trades_available' = TradesHeld(w) + Granted(rows) + TradesMoved(row)
      /\ trades_available' >= 0
  BY <1>1, <1>2, <1>3, <1>7, <1>8, RosterConstants DEF TradesHeld, CanBuyTrade
<1>10. /\ row.player_out \in squad \union {NoPlayer}
       /\ row.player_in \notin squad
       /\ squad' = ((squad \ {row.player_out}) \union {row.player_in}) \ {NoPlayer}
  BY <1>1, <1>3, <1>4, <1>6, LedgerConstants
<1> QED BY <1>1, <1>2, <1>3, <1>6, <1>9, <1>10, RecordIsMove DEF r

(***************************************************************************)
(* Selling a trade for cash (services.sell_trade).                         *)
(***************************************************************************)
LEMMA SellTradeKeeps ==
  ASSUME RosterInv, NEW w \in Workers, SellTrade(w)
  PROVE  StepKeeps
<1> DEFINE r == req[w]
           delta == TradeSellPrice
           row == MoveRow("SELL_TRADE", r, delta, at[w])
<1>1. Locks(w, "sell_trade") /\ squad' = squad
  BY DEF SellTrade
<1>2. PICK rows \in DueNow(w) :
        /\ CanSellTrade(TradesHeld(w) + Granted(rows))
        /\ cash' = cash + TradeSellPrice
        /\ trades_available' = TradesHeld(w) + Granted(rows) - 1
        /\ Record(w, rows, "SELL_TRADE", delta)
  BY DEF SellTrade
<1>3. /\ LockFree(w)
      /\ r \in Request /\ r.op = "sell_trade" /\ WellFormed(r) /\ Priced(r) /\ at[w] \in Nat
      /\ cash \in Nat /\ trades_available \in Nat /\ squad \in SUBSET Players
      /\ Cardinality(squad) <= RosterSize
  BY <1>1, QuotedRequest
<1>4. r.player_in = NoPlayer /\ r.player_out = NoPlayer
  BY <1>3 DEF WellFormed, Request, OptionalPlayer
<1> HIDE DEF r
<1>6. /\ row \in MoveRows /\ row.kind = "SELL_TRADE" /\ row.cash_delta = delta
      /\ row.occurred_at = at[w]
      /\ row.player_in = r.player_in /\ row.player_out = r.player_out
  <2>1. delta \in Int
    BY RosterConstants
  <2>2. ~(r.player_in \in Players \/ r.player_out \in Players)
    BY <1>4, LedgerConstants
  <2> QED BY <1>3, <2>1, <2>2, MoveRowFacts DEF Kinds
<1>7. TradesMoved(row) = -1
  BY <1>6 DEF TradesMoved
<1>8. Granted(paid[w]) \in Nat /\ Granted(rows) \in Nat
  BY ServicePays
<1>9. /\ cash' = cash + delta /\ cash' >= 0
      /\ trades_available' = TradesHeld(w) + Granted(rows) + TradesMoved(row)
      /\ trades_available' >= 0
  BY <1>2, <1>3, <1>7, <1>8, RosterConstants DEF TradesHeld, CanSellTrade
<1>10. /\ row.player_out \in squad \union {NoPlayer}
       /\ row.player_in \notin squad
       /\ squad' = ((squad \ {row.player_out}) \union {row.player_in}) \ {NoPlayer}
  BY <1>1, <1>3, <1>4, <1>6, LedgerConstants
<1> QED BY <1>1, <1>2, <1>3, <1>6, <1>9, <1>10, RecordIsMove DEF r

-----------------------------------------------------------------------------
(* Requests that end without a move *)

(***************************************************************************)
(* A request that ends without a move commits what it paid on access and   *)
(* nothing else.                                                           *)
(***************************************************************************)
LEMMA CommitPaidKeeps ==
  ASSUME RosterInv, NEW w \in Workers, CommitPaid(w)
  PROVE  StepKeeps
<1>1. /\ log' = log \o paid[w]
      /\ trades_available' = trades_available + Granted(paid[w])
      /\ End(w)
      /\ now' = now /\ salary' = salary /\ grants' = grants
      /\ cash' = cash /\ squad' = squad
  BY DEF CommitPaid, TradesHeld, season
<1>2. /\ now \in Nat /\ log \in Seq(Row) /\ paid[w] \in Seq(Row)
      /\ lock \in Workers \union {Nobody}
  BY DEF RosterInv, TypeOK
<1>3. /\ IsPayout(paid[w], log) /\ Stamped(paid[w], now)
      /\ lock # w => paid[w] = <<>>
  BY DEF RosterInv, RequestsInOrder, RequestInOrder
<1>4. PayOut(paid[w])
  BY <1>1, <1>3 DEF PayOut
<1>5. LedgerNext
  BY <1>1, <1>2, <1>4, WrittenPayout DEF LedgerNext
<1>6. log' = log \/ LockFree(w)
  <2>1. CASE lock = w
    BY <2>1 DEF LockFree
  <2>2. CASE lock # w
    BY <1>1, <1>2, <1>3, <2>2, ConcatEmptySeq
  <2> QED BY <2>1, <2>2
<1>7. RequestsTyped' /\ \A v \in Workers : RequestInOrder(v)'
  BY <1>1, <1>6, EndKeepsOrder
<1>8. LedgerType'
  BY <1>4, PayOutKeepsInv DEF RosterInv, LedgerInv
<1>9. TypeOK'
  BY <1>1, <1>7, <1>8 DEF RosterInv, TypeOK, RequestsTyped, LedgerType
<1>10. HistoryInOrder'
  <2> DEFINE new == paid[w]
  <2>1. \A i \in 1..Len(new) : new[i].player_in = NoPlayer /\ new[i].occurred_at <= now
    BY <1>3 DEF IsPayout, GrantRows, Stamped
  <2>2. /\ \A i \in 1..Len(log) : log[i].occurred_at <= now
        /\ \A i \in 1..Len(log) : log[i].player_in # NoPlayer => log[i].price_in # NoPrice
    BY DEF RosterInv, RequestsInOrder, HistoryInOrder, Stamped
  <2>3. new \in Seq(Row) /\ log' = log \o new
    BY <1>1, <1>2
  <2> HIDE DEF new
  <2>4. /\ Len(log') = Len(log) + Len(new)
        /\ Len(log) \in Nat /\ Len(new) \in Nat
        /\ \A i \in 1..Len(log) : log'[i] = log[i]
        /\ \A i \in (Len(log) + 1)..(Len(log) + Len(new)) :
             log'[i] = new[i - Len(log)] /\ i - Len(log) \in 1..Len(new)
    BY <1>2, <2>3
  <2>5. ASSUME NEW i \in 1..Len(log')
        PROVE  /\ log'[i].occurred_at <= now
               /\ log'[i].player_in # NoPlayer => log'[i].price_in # NoPrice
    <3>1. CASE i \in 1..Len(log)
      BY <2>2, <2>4, <3>1
    <3>2. CASE i \in (Len(log) + 1)..(Len(log) + Len(new))
      <4>1. log'[i] = new[i - Len(log)] /\ i - Len(log) \in 1..Len(new)
        BY <2>4, <3>2
      <4> QED BY <2>1, <4>1
    <3>3. i \in 1..Len(log) \/ i \in (Len(log) + 1)..(Len(log) + Len(new))
      <4>1. /\ Len(log') = Len(log) + Len(new)
            /\ Len(log) \in Nat /\ Len(new) \in Nat
        BY <2>4
      <4> QED BY <4>1
    <3> QED BY <3>1, <3>2, <3>3
  <2> QED BY <1>1, <2>5 DEF HistoryInOrder, Stamped
<1> QED BY <1>5, <1>7, <1>9, <1>10 DEF StepKeeps, RequestsInOrder

(***************************************************************************)
(* A killed worker leaves the roster as it was.                            *)
(***************************************************************************)
LEMMA CrashKeeps ==
  ASSUME RosterInv, NEW w \in Workers, Crash(w)
  PROVE  StepKeeps
<1>1. /\ End(w) /\ UNCHANGED roster
      /\ now' = now /\ salary' = salary /\ grants' = grants
  BY DEF Crash, season
<1>2. log' = log /\ cash' = cash /\ trades_available' = trades_available /\ squad' = squad
  BY <1>1 DEF roster
<1>3. RequestsTyped' /\ \A v \in Workers : RequestInOrder(v)'
  BY <1>1, <1>2, EndKeepsOrder
<1>4. TypeOK'
  BY <1>1, <1>2, <1>3 DEF RosterInv, TypeOK, RequestsTyped
<1>5. HistoryInOrder'
  BY <1>1, <1>2 DEF RosterInv, RequestsInOrder, HistoryInOrder, Stamped
<1> QED BY <1>1, <1>3, <1>4, <1>5 DEF StepKeeps, RequestsInOrder

-----------------------------------------------------------------------------
(* Requests under way *)

(***************************************************************************)
(* A step that leaves the roster alone keeps the invariant if it keeps the *)
(* requests typed and in order.                                            *)
(***************************************************************************)
LEMMA QuietKeeps ==
  ASSUME RosterInv, UNCHANGED roster, now' \in Nat, now <= now',
         salary' \in [Players -> OptionalPrice],
         grants' \in [GrantIds -> {"unwritten", "live", "deleted"}],
         RequestsTyped', \A v \in Workers : RequestInOrder(v)'
  PROVE  StepKeeps
<1>1. log' = log /\ cash' = cash /\ trades_available' = trades_available /\ squad' = squad
  BY DEF roster
<1>2. TypeOK'
  BY <1>1 DEF RosterInv, TypeOK, RequestsTyped
<1>3. HistoryInOrder'
  <2>1. /\ \A i \in 1..Len(log) : log[i].occurred_at <= now
        /\ \A i \in 1..Len(log) : log[i].player_in # NoPlayer => log[i].price_in # NoPrice
    BY DEF RosterInv, RequestsInOrder, HistoryInOrder, Stamped
  <2>2. now \in Nat /\ log \in Seq(Row) /\ Stamped(log, now)
    BY <2>1 DEF RosterInv, TypeOK, Stamped
  <2>3. Stamped(log, now')
    BY <2>2, StampedLater
  <2> QED BY <1>1, <2>1, <2>3 DEF HistoryInOrder
<1> QED BY <1>2, <1>3 DEF StepKeeps, RequestsInOrder

(***************************************************************************)
(* A request stays in order while it and the history stand still and time  *)
(* does not run backwards.                                                 *)
(***************************************************************************)
LEMMA WaitingKeepsOrder ==
  ASSUME RosterInv, NEW v \in Workers, log' = log, now' \in Nat, now <= now',
         pc'[v] = pc[v], req'[v] = req[v], at'[v] = at[v], paid'[v] = paid[v],
         lock' = v <=> lock = v
  PROVE  RequestInOrder(v)'
<1>1. /\ at[v] <= now
      /\ IsPayout(paid[v], log) /\ Stamped(paid[v], now)
      /\ lock # v => paid[v] = <<>>
      /\ pc[v] = "idle" => lock # v
      /\ WellFormed(req[v])
      /\ pc[v] = "quoted" => Priced(req[v])
  BY DEF RosterInv, RequestsInOrder, RequestInOrder
<1>2. at[v] \in Nat /\ now \in Nat /\ paid[v] \in Seq(Row)
  BY DEF RosterInv, TypeOK
<1>3. Stamped(paid[v], now')
  BY <1>1, <1>2, StampedLater
<1>4. at'[v] <= now'
  BY <1>1, <1>2
<1> QED BY <1>1, <1>3, <1>4 DEF RequestInOrder

(***************************************************************************)
(* Fetching the roster row touches the request only.                       *)
(***************************************************************************)
LEMMA BeginKeeps ==
  ASSUME RosterInv, NEW w \in Workers, NEW op, NEW out, NEW in, Begin(w, op, out, in),
         Ask(op, out, in, NoPrice, NoPrice) \in Request,
         WellFormed(Ask(op, out, in, NoPrice, NoPrice))
  PROVE  StepKeeps
<1> DEFINE ask == Ask(op, out, in, NoPrice, NoPrice)
<1>1. /\ pc[w] = "idle"
      /\ pc' = [pc EXCEPT ![w] = "fetched"]
      /\ req' = [req EXCEPT ![w] = ask]
      /\ seen' = [seen EXCEPT ![w] = trades_available]
      /\ lock' = lock /\ at' = at /\ paid' = paid
      /\ now' = now /\ salary' = salary /\ grants' = grants
      /\ UNCHANGED roster
  BY DEF Begin, season
<1>2. ask \in Request /\ WellFormed(ask)
  OBVIOUS
<1> HIDE DEF ask
<1>3. /\ lock \in Workers \union {Nobody}
      /\ pc \in [Workers -> {"idle", "fetched", "paying", "open", "quoted"}]
      /\ req \in [Workers -> Request]
      /\ seen \in [Workers -> Int]
      /\ at \in [Workers -> Nat]
      /\ paid \in [Workers -> Seq(Row)]
      /\ now \in Nat /\ log' = log
      /\ salary \in [Players -> OptionalPrice]
      /\ grants \in [GrantIds -> {"unwritten", "live", "deleted"}]
      /\ trades_available \in Int
  BY <1>1 DEF RosterInv, TypeOK, roster
<1>4. RequestsTyped'
  BY <1>1, <1>2, <1>3 DEF RequestsTyped
<1>5. RequestInOrder(w)'
  <2>1. lock # w /\ paid[w] = <<>> /\ at[w] <= now
    BY <1>1 DEF RosterInv, RequestsInOrder, RequestInOrder
  <2>2. at'[w] = at[w] /\ req'[w] = ask /\ pc'[w] = "fetched"
    BY <1>1, <1>3
  <2>3. IsPayout(paid'[w], log') /\ Stamped(paid'[w], now')
    BY <1>1, <2>1, EmptyPayout
  <2> QED BY <1>1, <1>2, <1>3, <2>1, <2>2, <2>3 DEF RequestInOrder
<1>6. ASSUME NEW v \in Workers, v # w PROVE RequestInOrder(v)'
  BY <1>1, <1>3, <1>6, WaitingKeepsOrder
<1> QED BY <1>1, <1>3, <1>4, <1>5, <1>6, QuietKeeps

(***************************************************************************)
(* Every request the owner can make is well formed.                        *)
(***************************************************************************)
LEMMA ArriveKeeps ==
  ASSUME RosterInv, NEW w \in Workers, Arrive(w)
  PROVE  StepKeeps
<1>1. CASE \E op \in Ops \cap {"view", "buy_trade", "sell_trade"} :
             Begin(w, op, NoPlayer, NoPlayer)
  <2>1. PICK op \in {"view", "buy_trade", "sell_trade"} : Begin(w, op, NoPlayer, NoPlayer)
    BY <1>1
  <2>2. /\ Ask(op, NoPlayer, NoPlayer, NoPrice, NoPrice) \in Request
        /\ WellFormed(Ask(op, NoPlayer, NoPlayer, NoPrice, NoPrice))
    BY LedgerConstants DEF Ask, Request, WellFormed, AllOps, OptionalPlayer, OptionalPrice
  <2> QED BY <2>1, <2>2, BeginKeeps
<1>2. CASE \E p \in Players : Begin(w, "buy", NoPlayer, p)
  <2>1. PICK p \in Players : Begin(w, "buy", NoPlayer, p)
    BY <1>2
  <2>2. /\ Ask("buy", NoPlayer, p, NoPrice, NoPrice) \in Request
        /\ WellFormed(Ask("buy", NoPlayer, p, NoPrice, NoPrice))
    BY LedgerConstants DEF Ask, Request, WellFormed, AllOps, OptionalPlayer, OptionalPrice
  <2> QED BY <2>1, <2>2, BeginKeeps
<1>3. CASE \E p \in Players : Begin(w, "sell", p, NoPlayer)
  <2>1. PICK p \in Players : Begin(w, "sell", p, NoPlayer)
    BY <1>3
  <2>2. /\ Ask("sell", p, NoPlayer, NoPrice, NoPrice) \in Request
        /\ WellFormed(Ask("sell", p, NoPlayer, NoPrice, NoPrice))
    BY LedgerConstants DEF Ask, Request, WellFormed, AllOps, OptionalPlayer, OptionalPrice
  <2> QED BY <2>1, <2>2, BeginKeeps
<1>4. CASE \E p, q \in Players : Begin(w, "trade", p, q)
  <2>1. PICK p \in Players, q \in Players : Begin(w, "trade", p, q)
    BY <1>4
  <2>2. /\ Ask("trade", p, q, NoPrice, NoPrice) \in Request
        /\ WellFormed(Ask("trade", p, q, NoPrice, NoPrice))
    BY LedgerConstants DEF Ask, Request, WellFormed, AllOps, OptionalPlayer, OptionalPrice
  <2> QED BY <2>1, <2>2, BeginKeeps
<1> QED BY <1>1, <1>2, <1>3, <1>4 DEF Arrive

(***************************************************************************)
(* Comparing the due grants with the history only reads the clock.         *)
(***************************************************************************)
LEMMA CheckGrantsKeeps ==
  ASSUME RosterInv, NEW w \in Workers, CheckGrants(w)
  PROVE  StepKeeps
<1>1. /\ pc[w] = "fetched"
      /\ pc' = [pc EXCEPT ![w] =
                  IF UnpaidGrants(log, now) = {} THEN "open" ELSE "paying"]
      /\ at' = [at EXCEPT ![w] = now]
      /\ lock' = lock /\ req' = req /\ seen' = seen /\ paid' = paid
      /\ now' = now /\ salary' = salary /\ grants' = grants
      /\ UNCHANGED roster
  BY DEF CheckGrants, season
<1>2. /\ RequestsTyped
      /\ now \in Nat /\ log' = log
      /\ salary \in [Players -> OptionalPrice]
      /\ grants \in [GrantIds -> {"unwritten", "live", "deleted"}]
  BY <1>1 DEF RosterInv, TypeOK, RequestsTyped, roster
<1>3. RequestsTyped'
  BY <1>1, <1>2 DEF RequestsTyped
<1>4. RequestInOrder(w)'
  <2>1. at'[w] = now /\ pc'[w] \in {"open", "paying"}
    BY <1>1, <1>2 DEF RequestsTyped
  <2> QED BY <1>1, <1>2, <2>1 DEF RosterInv, RequestsInOrder, RequestInOrder
<1>5. ASSUME NEW v \in Workers, v # w PROVE RequestInOrder(v)'
  BY <1>1, <1>2, <1>5, WaitingKeepsOrder DEF RequestsTyped
<1> QED BY <1>1, <1>2, <1>3, <1>4, <1>5, QuietKeeps

(***************************************************************************)
(* Paying on access takes the lock, so what it holds back stays consistent *)
(* with the history.                                                       *)
(***************************************************************************)
LEMMA PayOnAccessKeeps ==
  ASSUME RosterInv, NEW w \in Workers, PayOnAccess(w)
  PROVE  StepKeeps
<1>1. /\ pc[w] = "paying" /\ LockFree(w) /\ lock' = w
      /\ pc' = [pc EXCEPT ![w] = "open"]
      /\ req' = req /\ at' = at
      /\ now' = now /\ salary' = salary /\ grants' = grants
      /\ UNCHANGED roster
  BY DEF PayOnAccess, season
<1>2. PICK rows \in Payouts(log, at[w]) :
        /\ paid' = [paid EXCEPT ![w] = rows]
        /\ seen' = [seen EXCEPT ![w] = trades_available + Granted(rows)]
  BY DEF PayOnAccess
<1>3. /\ lock \in Workers \union {Nobody}
      /\ pc \in [Workers -> {"idle", "fetched", "paying", "open", "quoted"}]
      /\ req \in [Workers -> Request]
      /\ seen \in [Workers -> Int]
      /\ at \in [Workers -> Nat]
      /\ paid \in [Workers -> Seq(Row)]
      /\ now \in Nat /\ log' = log /\ log \in Seq(Row)
      /\ trades_available \in Int
      /\ salary \in [Players -> OptionalPrice]
      /\ grants \in [GrantIds -> {"unwritten", "live", "deleted"}]
  BY <1>1 DEF RosterInv, TypeOK, roster
<1>4. /\ IsPayout(rows, log) /\ Stamped(rows, at[w])
      /\ rows \in Seq(Row) /\ Granted(rows) \in Nat
  <2>1. IsPayout(rows, log) /\ Stamped(rows, at[w])
    BY <1>3, PayoutsAreFresh
  <2> QED BY <2>1, PayoutFlow DEF IsPayout
<1>5. RequestsTyped'
  BY <1>1, <1>2, <1>3, <1>4 DEF RequestsTyped
<1>6. RequestInOrder(w)'
  <2>1. at[w] <= now /\ WellFormed(req[w])
    BY DEF RosterInv, RequestsInOrder, RequestInOrder
  <2>2. paid'[w] = rows /\ pc'[w] = "open"
    BY <1>1, <1>2, <1>3
  <2>3. Stamped(rows, now)
    <3>1. at[w] \in Nat
      BY <1>3
    <3> QED BY <1>3, <1>4, <2>1, <3>1, StampedLater
  <2> QED BY <1>1, <1>3, <1>4, <2>1, <2>2, <2>3 DEF RequestInOrder
<1>7. ASSUME NEW v \in Workers, v # w PROVE RequestInOrder(v)'
  <2>1. lock' = v <=> lock = v
    BY <1>1, <1>7, RosterConstants DEF LockFree
  <2> QED BY <1>1, <1>2, <1>3, <1>7, <2>1, WaitingKeepsOrder
<1> QED BY <1>1, <1>3, <1>5, <1>6, <1>7, QuietKeeps

(***************************************************************************)
(* A player who has arrived has a latest arrival, and it was priced: every *)
(* arrival in the history was.                                             *)
(***************************************************************************)
LEMMA LatestArrivalFacts ==
  ASSUME RosterInv, NEW p \in Players, Arrivals(p) # {}
  PROVE  LET last == LatestArrival(p) IN
         /\ last \in Arrivals(p)
         /\ \A j \in Arrivals(p) : log[j].occurred_at <= log[last].occurred_at
         /\ log[last].price_in \in Nat /\ log[last].price_in # NoPrice
<1> DEFINE S == Arrivals(p)  f == [i \in S |-> log[i].occurred_at]
<1>1. /\ log \in Seq(Row) /\ now \in Nat
      /\ \A i \in 1..Len(log) : log[i].occurred_at <= now
      /\ \A i \in 1..Len(log) : log[i].player_in # NoPlayer => log[i].price_in # NoPrice
  BY DEF RosterInv, TypeOK, RequestsInOrder, HistoryInOrder, Stamped
<1>2. \A i \in S : i \in 1..Len(log) /\ log[i] \in Row /\ log[i].player_in = p
  BY <1>1 DEF Arrivals
<1>3. \A i \in S : /\ log[i].occurred_at \in Nat /\ log[i].occurred_at <= now
                   /\ log[i].price_in \in Nat
  <2> SUFFICES ASSUME NEW i \in S
               PROVE  /\ log[i].occurred_at \in Nat /\ log[i].occurred_at <= now
                      /\ log[i].price_in \in Nat
    OBVIOUS
  <2>1. log[i].occurred_at \in Nat /\ log[i].price_in \in OptionalPrice
    BY <1>2 DEF Row
  <2>2. log[i].price_in # NoPrice
    BY <1>1, <1>2, LedgerConstants
  <2> QED BY <1>1, <1>2, <2>1, <2>2 DEF OptionalPrice
<1> HIDE DEF S
<1>4. \E x \in S : \A y \in S : f[y] <= f[x]
  <2>1. f \in [S -> Nat] /\ \A x \in S : f[x] <= now
    BY <1>3
  <2>2. S # {}
    BY DEF S
  <2> HIDE DEF f
  <2> QED BY <1>1, <2>1, <2>2, GreatestExists
<1>5. \E x \in S : \A y \in S : log[y].occurred_at <= log[x].occurred_at
  BY <1>4
<1>6. /\ LatestArrival(p) \in S
      /\ \A y \in S : log[y].occurred_at <= log[LatestArrival(p)].occurred_at
  BY <1>5 DEF LatestArrival, S
<1> QED BY <1>3, <1>6, LedgerConstants DEF S

(***************************************************************************)
(* What was paid for a player, or what he costs, is a number.              *)
(***************************************************************************)
LEMMA PaidForIsNumber ==
  ASSUME RosterInv, NEW p \in Players
  PROVE  AmountPaidFor(p) \in Nat
<1>1. CASE Arrivals(p) # {}
  BY <1>1, LatestArrivalFacts DEF AmountPaidFor
<1>2. CASE Arrivals(p) = {}
  <2>1. salary \in [Players -> OptionalPrice]
    BY DEF RosterInv, TypeOK
  <2> QED BY <1>2, <2>1 DEF AmountPaidFor, OptionalPrice
<1> QED BY <1>1, <1>2

(***************************************************************************)
(* Reading prices gives a request both prices its move needs.              *)
(***************************************************************************)
LEMMA QuoteKeeps ==
  ASSUME RosterInv, NEW w \in Workers, Quote(w)
  PROVE  StepKeeps
<1> DEFINE r == req[w]
           ask == Ask(r.op, r.player_out, r.player_in, PriceOut(r), PriceIn(r))
<1>1. /\ pc[w] = "open" /\ CanQuote(w) /\ now' = now + 1
      /\ pc' = [pc EXCEPT ![w] = "quoted"]
      /\ req' = [req EXCEPT ![w] = ask]
      /\ seen' = [seen EXCEPT ![w] = 0]
      /\ at' = [at EXCEPT ![w] = now]
      /\ lock' = lock /\ paid' = paid
      /\ salary' = salary /\ grants' = grants
      /\ UNCHANGED roster
  BY DEF Quote
<1>2. /\ lock \in Workers \union {Nobody}
      /\ pc \in [Workers -> {"idle", "fetched", "paying", "open", "quoted"}]
      /\ req \in [Workers -> Request]
      /\ seen \in [Workers -> Int]
      /\ at \in [Workers -> Nat]
      /\ paid \in [Workers -> Seq(Row)]
      /\ now \in Nat /\ log' = log
      /\ salary \in [Players -> OptionalPrice]
      /\ grants \in [GrantIds -> {"unwritten", "live", "deleted"}]
  BY <1>1 DEF RosterInv, TypeOK, roster
<1>3. /\ IsPayout(paid[w], log) /\ Stamped(paid[w], now)
      /\ lock # w => paid[w] = <<>>
      /\ WellFormed(r)
  BY DEF RosterInv, RequestsInOrder, RequestInOrder
<1>4. /\ r \in Request /\ r.op \in AllOps
      /\ r.player_in \in OptionalPlayer /\ r.player_out \in OptionalPlayer
  BY <1>2 DEF Request
<1> HIDE DEF r
<1>5. IF r.op \in {"buy", "trade"} THEN PriceIn(r) \in Nat ELSE PriceIn(r) = NoPrice
  <2>1. r.op \in {"buy", "trade"} => r.player_in \in Players /\ salary[r.player_in] # NoPrice
    BY <1>1, <1>3 DEF WellFormed, CanQuote, r
  <2> QED BY <1>2, <2>1 DEF PriceIn, OptionalPrice
<1>6. IF r.op \in {"sell", "trade"} THEN PriceOut(r) \in Nat ELSE PriceOut(r) = NoPrice
  <2>1. CASE r.op = "sell"
    <3>1. r.player_out \in Players
      BY <1>3, <2>1 DEF WellFormed
    <3> QED BY <2>1, <3>1, PaidForIsNumber DEF PriceOut
  <2>2. CASE r.op = "trade"
    <3>1. r.player_out \in Players /\ salary[r.player_out] # NoPrice
      BY <1>1, <1>3, <2>2 DEF WellFormed, CanQuote, r
    <3>2. PriceOut(r) = salary[r.player_out]
      BY <2>2 DEF PriceOut
    <3> QED BY <1>2, <2>2, <3>1, <3>2 DEF OptionalPrice
  <2>3. CASE r.op \notin {"sell", "trade"}
    BY <2>3 DEF PriceOut
  <2> QED BY <2>1, <2>2, <2>3
<1>7. ask \in Request /\ WellFormed(ask) /\ Priced(ask)
  <2>1. ask = [op |-> r.op, player_in |-> r.player_in, player_out |-> r.player_out,
               price_in |-> PriceIn(r), price_out |-> PriceOut(r)]
    BY DEF Ask
  <2> HIDE DEF ask
  <2>2. PriceIn(r) \in OptionalPrice /\ PriceOut(r) \in OptionalPrice
    BY <1>5, <1>6 DEF OptionalPrice
  <2>3. ask \in Request
    BY <1>4, <2>1, <2>2 DEF Request
  <2>4. WellFormed(ask)
    BY <1>3, <2>1 DEF WellFormed
  <2>5. Priced(ask)
    BY <1>3, <1>5, <1>6, <2>1, LedgerConstants DEF WellFormed, Priced
  <2> QED BY <2>3, <2>4, <2>5
<1> HIDE DEF ask
<1>8. RequestsTyped'
  BY <1>1, <1>2, <1>7 DEF RequestsTyped
<1>9. RequestInOrder(w)'
  <2>1. at'[w] = now /\ req'[w] = ask /\ pc'[w] = "quoted"
    BY <1>1, <1>2
  <2>2. Stamped(paid[w], now')
    <3>1. paid[w] \in Seq(Row) /\ now' \in Nat /\ now <= now'
      BY <1>1, <1>2
    <3> QED BY <1>2, <1>3, <3>1, StampedLater
  <2> QED BY <1>1, <1>2, <1>3, <1>7, <2>1, <2>2 DEF RequestInOrder
<1>10. ASSUME NEW v \in Workers, v # w PROVE RequestInOrder(v)'
  BY <1>1, <1>2, <1>10, WaitingKeepsOrder
<1>11. now' \in Nat /\ now <= now'
  BY <1>1, <1>2
<1> QED BY <1>1, <1>2, <1>8, <1>9, <1>10, <1>11, QuietKeeps

-----------------------------------------------------------------------------
(* The environment *)

(***************************************************************************)
(* Time, imports and the administrator leave the roster and its requests   *)
(* alone.                                                                  *)
(***************************************************************************)
LEMMA EnvironmentKeeps ==
  ASSUME RosterInv, Environment
  PROVE  StepKeeps
<1>1. UNCHANGED roster /\ UNCHANGED requests
  BY DEF Environment, Tick, Reprice, AddGrant, RemoveGrant
<1>2. /\ lock' = lock /\ pc' = pc /\ req' = req /\ seen' = seen /\ at' = at /\ paid' = paid
      /\ log' = log
  BY <1>1 DEF requests, roster
<1>3. /\ now \in Nat
      /\ salary \in [Players -> OptionalPrice]
      /\ grants \in [GrantIds -> {"unwritten", "live", "deleted"}]
  BY DEF RosterInv, TypeOK
<1>4. /\ now' \in Nat /\ now <= now'
      /\ salary' \in [Players -> OptionalPrice]
      /\ grants' \in [GrantIds -> {"unwritten", "live", "deleted"}]
  <2>1. CASE Tick
    BY <1>3, <2>1 DEF Tick
  <2>2. CASE \E p \in Players, s \in Salaries : Reprice(p, s)
    <3>1. PICK p \in Players, s \in Salaries : Reprice(p, s)
      BY <2>2
    <3>2. s \in OptionalPrice
      BY RosterConstants DEF OptionalPrice
    <3> QED BY <1>3, <3>1, <3>2 DEF Reprice
  <2>3. CASE \E id \in GrantIds : AddGrant(id) \/ RemoveGrant(id)
    <3>1. PICK id \in GrantIds : AddGrant(id) \/ RemoveGrant(id)
      BY <2>3
    <3> QED BY <1>3, <3>1 DEF AddGrant, RemoveGrant
  <2> QED BY <2>1, <2>2, <2>3 DEF Environment
<1>5. RequestsTyped'
  BY <1>2 DEF RequestsTyped, RosterInv, TypeOK
<1>6. \A v \in Workers : RequestInOrder(v)'
  BY <1>2, <1>4, WaitingKeepsOrder
<1> QED BY <1>1, <1>4, <1>5, <1>6, QuietKeeps

-----------------------------------------------------------------------------
(* The theorems *)

(***************************************************************************)
(* The invariant holds of a new roster with nobody at work.                *)
(***************************************************************************)
LEMMA RosterInvInit == Init => RosterInv
<1> SUFFICES ASSUME Init PROVE RosterInv
  OBVIOUS
<1>1. /\ now = 0 /\ LedgerInit
      /\ salary \in [Players -> Salaries \union {NoPrice}]
      /\ grants = [id \in GrantIds |-> "unwritten"]
      /\ lock = Nobody
      /\ pc = [w \in Workers |-> "idle"]
      /\ req = [w \in Workers |-> NoRequest]
      /\ seen = [w \in Workers |-> 0]
      /\ at = [w \in Workers |-> 0]
      /\ paid = [w \in Workers |-> <<>>]
  BY DEF Init
<1>2. LedgerInv
  BY <1>1, LedgerInvInit
<1>3. log = <<>>
  BY <1>1 DEF LedgerInit
<1>4. TypeOK
  <2>1. salary \in [Players -> OptionalPrice]
    BY <1>1, RosterConstants DEF OptionalPrice
  <2>2. paid \in [Workers -> Seq(Row)]
    BY <1>1, EmptyPayout
  <2>3. req \in [Workers -> Request]
    BY <1>1, NoRequestFacts
  <2> QED BY <1>1, <1>2, <2>1, <2>2, <2>3 DEF TypeOK, LedgerInv, LedgerType
<1>5. ASSUME NEW w \in Workers PROVE RequestInOrder(w)
  <2>1. /\ pc[w] = "idle" /\ req[w] = NoRequest /\ at[w] = 0 /\ paid[w] = <<>>
        /\ lock # w
    BY <1>1, <1>5, RosterConstants
  <2>2. IsPayout(paid[w], log) /\ Stamped(paid[w], now)
    BY <2>1, EmptyPayout
  <2> QED BY <1>1, <2>1, <2>2, NoRequestFacts DEF RequestInOrder
<1>6. HistoryInOrder
  BY <1>3 DEF HistoryInOrder, Stamped
<1> QED BY <1>2, <1>4, <1>5, <1>6 DEF RosterInv, RequestsInOrder

(***************************************************************************)
(* Every step is a step of the ledger, or leaves it alone, and keeps the   *)
(* invariant.                                                              *)
(***************************************************************************)
LEMMA StepKeepsInv ==
  RosterInv /\ [Next]_vars => [LedgerNext]_roster /\ RosterInv'
<1> SUFFICES ASSUME RosterInv, [Next]_vars
             PROVE  [LedgerNext]_roster /\ RosterInv'
  OBVIOUS
<1>1. StepKeeps
  <2>1. CASE Environment
    BY <2>1, EnvironmentKeeps
  <2>2. ASSUME NEW w \in Workers, Step(w) PROVE StepKeeps
    <3>1. CASE Arrive(w)
      BY <3>1, ArriveKeeps
    <3>12. CASE CheckGrants(w)
      BY <3>12, CheckGrantsKeeps
    <3>2. CASE PayOnAccess(w)
      BY <3>2, PayOnAccessKeeps
    <3>3. CASE Quote(w)
      BY <3>3, QuoteKeeps
    <3>4. CASE Leave(w)
      BY <3>4, CommitPaidKeeps DEF Leave
    <3>5. CASE Buy(w)
      BY <3>5, BuyKeeps
    <3>6. CASE Sell(w)
      BY <3>6, SellKeeps
    <3>7. CASE Trade(w)
      BY <3>7, TradeKeeps
    <3>8. CASE BuyTrade(w)
      BY <3>8, BuyTradeKeeps
    <3>9. CASE SellTrade(w)
      BY <3>9, SellTradeKeeps
    <3>10. CASE Refuse(w)
      BY <3>10, CommitPaidKeeps DEF Refuse
    <3>11. CASE Crash(w)
      BY <3>11, CrashKeeps
    <3> QED BY <2>2, <3>1, <3>2, <3>3, <3>4, <3>5, <3>6, <3>7, <3>8, <3>9, <3>10, <3>11,
               <3>12
            DEF Step, Service
  <2>3. CASE UNCHANGED vars
    <3>1. UNCHANGED <<now, salary, grants>> /\ UNCHANGED roster
          /\ UNCHANGED <<lock, pc, req, seen, at, paid>>
      BY <2>3 DEF vars, season, requests
    <3>2. /\ now \in Nat /\ salary \in [Players -> OptionalPrice]
          /\ grants \in [GrantIds -> {"unwritten", "live", "deleted"}]
          /\ log' = log
      BY <3>1 DEF RosterInv, TypeOK, roster
    <3>3. RequestsTyped'
      BY <3>1 DEF RequestsTyped, RosterInv, TypeOK
    <3>4. \A v \in Workers : RequestInOrder(v)'
      BY <3>1, <3>2, WaitingKeepsOrder
    <3> QED BY <3>1, <3>2, <3>3, <3>4, QuietKeeps
  <2> QED BY <2>1, <2>2, <2>3 DEF Next
<1>2. [LedgerNext]_roster /\ TypeOK' /\ RequestsInOrder'
  BY <1>1 DEF StepKeeps
<1>3. LedgerInv'
  <2>1. LedgerInv
    BY DEF RosterInv
  <2> QED BY <1>2, <2>1, LedgerInvStep
<1> QED BY <1>2, <1>3 DEF RosterInv

(***************************************************************************)
(* Types, the ledger's invariant and the order of the requests hold in     *)
(* every reachable state.                                                  *)
(***************************************************************************)
THEOREM RosterInvariant == Spec => []RosterInv
BY RosterInvInit, StepKeepsInv, PTL DEF Spec

(***************************************************************************)
(* Every variable keeps its type.                                          *)
(***************************************************************************)
THEOREM TypeCorrect == Spec => []TypeOK
<1>1. RosterInv => TypeOK
  BY DEF RosterInv
<1> QED BY <1>1, RosterInvariant, PTL

(***************************************************************************)
(* Requests interleave, wait for the lock, are refused and are killed, yet *)
(* cash, squad, trades and history only ever change by whole moves and     *)
(* payouts of grants not paid before.                                      *)
(***************************************************************************)
THEOREM RosterImplementsLedger == Spec => LedgerSpec
<1>1. Init => LedgerInit
  BY DEF Init
<1> QED BY <1>1, RosterInvInit, StepKeepsInv, PTL DEF Spec, LedgerSpec

(***************************************************************************)
(* What only the lock's holder has written stays consistent with the       *)
(* history, whatever the other workers do.                                 *)
(***************************************************************************)
THEOREM RequestsStayInOrder == Spec => []RequestsInOrder
<1>1. RosterInv => RequestsInOrder
  BY DEF RosterInv
<1> QED BY <1>1, RosterInvariant, PTL

(***************************************************************************)
(* The History page's promise: starting cash plus every cash flow is the   *)
(* balance.                                                                *)
(***************************************************************************)
THEOREM CashAlwaysReconciles == Spec => []CashReconciles
<1>1. RosterInv => CashReconciles
  BY DEF RosterInv, LedgerInv
<1> QED BY <1>1, RosterInvariant, PTL

(***************************************************************************)
(* The trade count is what was granted and bought, less what was used and  *)
(* sold.                                                                   *)
(***************************************************************************)
THEOREM TradesAlwaysReconcile == Spec => []TradesReconcile
<1>1. RosterInv => TradesReconcile
  BY DEF RosterInv, LedgerInv
<1> QED BY <1>1, RosterInvariant, PTL

(***************************************************************************)
(* A player is on the squad exactly if the history brought him in once     *)
(* more than it let him go.                                                *)
(***************************************************************************)
THEOREM SquadAlwaysReconciles == Spec => []SquadReconciles
<1>1. RosterInv => SquadReconciles
  BY DEF RosterInv, LedgerInv
<1> QED BY <1>1, RosterInvariant, PTL

(***************************************************************************)
(* No two workers ever pay out the same grant, with no help from the       *)
(* database's unique constraint.                                           *)
(***************************************************************************)
THEOREM NoGrantPaidTwice == Spec => []GrantsPaidOnce
<1>1. RosterInv => GrantsPaidOnce
  BY DEF RosterInv, LedgerInv
<1> QED BY <1>1, RosterInvariant, PTL

(***************************************************************************)
(* Concurrent requests never overspend cash, trades or squad places.       *)
(***************************************************************************)
THEOREM NeverBeyondLimits == Spec => []WithinLimits
<1>1. RosterInv => WithinLimits
  BY DEF RosterInv, LedgerInv
<1> QED BY <1>1, RosterInvariant, PTL

(***************************************************************************)
(* A season with both signing dates never permits signing and trading at   *)
(* the same instant.                                                       *)
(***************************************************************************)
THEOREM WindowsNeverOverlap == Spec => []OneWindowAtATime
<1>1. RosterInv => OneWindowAtATime
  BY WindowsDisjoint DEF RosterInv, TypeOK, OneWindowAtATime
<1> QED BY <1>1, RosterInvariant, PTL

-----------------------------------------------------------------------------
(* What no single step of a roster may do *)

(***************************************************************************)
(* Only a service call that passes its checks, or the end of a request     *)
(* that paid on access, writes to the history.                             *)
(***************************************************************************)
LEMMA WhoWrites ==
  ASSUME [Next]_vars
  PROVE  \/ cash' = cash /\ squad' = squad /\ log' = log
         \/ \E w \in Workers :
              CommitPaid(w) \/ Buy(w) \/ Sell(w) \/ Trade(w) \/ BuyTrade(w) \/ SellTrade(w)
<1>1. CASE Environment
  BY <1>1 DEF Environment, Tick, Reprice, AddGrant, RemoveGrant, roster
<1>2. ASSUME NEW w \in Workers, Step(w)
      PROVE  \/ cash' = cash /\ squad' = squad /\ log' = log
             \/ CommitPaid(w) \/ Buy(w) \/ Sell(w) \/ Trade(w) \/ BuyTrade(w) \/ SellTrade(w)
  <2>1. CASE Arrive(w)
    BY <2>1 DEF Arrive, Begin, roster
  <2>2. CASE CheckGrants(w) \/ PayOnAccess(w) \/ Quote(w) \/ Crash(w)
    BY <2>2 DEF CheckGrants, PayOnAccess, Quote, Crash, roster
  <2>3. CASE Leave(w) \/ Refuse(w)
    BY <2>3 DEF Leave, Refuse
  <2> QED BY <1>2, <2>1, <2>2, <2>3 DEF Step, Service
<1>3. CASE UNCHANGED vars
  BY <1>3 DEF vars, roster
<1> QED BY <1>1, <1>2, <1>3 DEF Next

(***************************************************************************)
(* A service call's move is the last row of the history it leaves, behind  *)
(* everything it paid.                                                     *)
(***************************************************************************)
LEMMA MoveComesLast ==
  ASSUME RosterInv, NEW w \in Workers, NEW rows \in DueNow(w),
         NEW kind, NEW delta, Record(w, rows, kind, delta)
  PROVE  LET k == log \o paid[w] \o rows IN
         /\ k \in Seq(Row)
         /\ Len(log') = Len(k) + 1
         /\ \A i \in 1..Len(k) : log'[i] = k[i]
         /\ log'[Len(log')].kind = kind
<1> DEFINE k == log \o paid[w] \o rows
           row == MoveRow(kind, req[w], delta, at[w])
           S == Row \union {row}
<1>1. k \in Seq(Row)
  <2>1. log \in Seq(Row)
    BY DEF RosterInv, TypeOK
  <2> DEFINE new == paid[w] \o rows
  <2>2. new \in Seq(Row) /\ k = log \o new
    BY ServicePays
  <2> HIDE DEF new, k
  <2> QED BY <2>1, <2>2
<1>2. log' = Append(k, row)
  BY DEF Record
<1>3. row.kind = kind
  BY DEF MoveRow
<1> HIDE DEF k, row
<1>4. k \in Seq(S) /\ row \in S
  BY <1>1
<1> HIDE DEF S
<1>5. /\ Len(log') = Len(k) + 1 /\ Len(k) \in Nat
      /\ \A i \in 1..Len(k) : log'[i] = k[i]
      /\ log'[Len(k) + 1] = row
  BY <1>2, <1>4
<1> QED BY <1>1, <1>3, <1>5 DEF k

(***************************************************************************)
(* A service call moves a player exactly if it changes the squad.          *)
(***************************************************************************)
LEMMA SquadMoves ==
  ASSUME RosterInv, NEW w \in Workers
  PROVE  /\ Buy(w) => squad' # squad /\ TransactionsAllowed(now)
         /\ Sell(w) => squad' # squad /\ TransactionsAllowed(now)
         /\ Trade(w) => squad' # squad /\ Cardinality(squad') = Cardinality(squad)
         /\ BuyTrade(w) \/ SellTrade(w) => squad' = squad /\ TradeMarketOpen(now)
<1>1. ASSUME Buy(w) PROVE squad' # squad /\ TransactionsAllowed(now)
  BY <1>1 DEF Buy, CanBuy
<1>2. ASSUME Sell(w) PROVE squad' # squad /\ TransactionsAllowed(now)
  BY <1>2 DEF Sell, CanSell
<1>3. ASSUME Trade(w) PROVE squad' # squad /\ Cardinality(squad') = Cardinality(squad)
  <2> DEFINE out == req[w].player_out  in == req[w].player_in  rest == squad \ {out}
  <2>1. out \in squad /\ in \notin squad /\ squad' = rest \union {in}
    BY <1>3 DEF Trade, CanTrade
  <2>2. IsFiniteSet(squad) /\ Cardinality(squad) \in Nat
    <3>1. Locks(w, "trade")
      BY <1>3 DEF Trade
    <3> QED BY <3>1, QuotedRequest
  <2> HIDE DEF in, out
  <2>3. Cardinality(rest) = Cardinality(squad) - 1 /\ IsFiniteSet(rest)
    BY <2>1, <2>2, FS_RemoveElement
  <2>4. in \notin rest
    BY <2>1
  <2> HIDE DEF rest
  <2>5. Cardinality(rest \union {in}) = Cardinality(rest) + 1
    BY <2>3, <2>4, FS_AddElement
  <2> QED BY <2>1, <2>2, <2>3, <2>5
<1>4. ASSUME BuyTrade(w) \/ SellTrade(w) PROVE squad' = squad /\ TradeMarketOpen(now)
  BY <1>4 DEF BuyTrade, SellTrade, CanBuyTrade, CanSellTrade
<1> QED BY <1>1, <1>2, <1>3, <1>4

(***************************************************************************)
(* Outside the signing window only a one-for-one trade changes a squad,    *)
(* so its size is frozen; waiting for the lock does not get around it.     *)
(***************************************************************************)
THEOREM SquadStaysFrozen == Spec => FrozenInSize
<1> DEFINE Frozen == ~TransactionsAllowed(now) /\ squad' # squad =>
                       /\ Cardinality(squad') = Cardinality(squad)
                       /\ log'[Len(log')].kind = "TRADE"
<1>1. ASSUME RosterInv, [Next]_vars PROVE Frozen
  <2> SUFFICES ASSUME ~TransactionsAllowed(now), squad' # squad
               PROVE  /\ Cardinality(squad') = Cardinality(squad)
                      /\ log'[Len(log')].kind = "TRADE"
    OBVIOUS
  <2>1. PICK w \in Workers :
          CommitPaid(w) \/ Buy(w) \/ Sell(w) \/ Trade(w) \/ BuyTrade(w) \/ SellTrade(w)
    BY <1>1, WhoWrites
  <2>2. ~CommitPaid(w)
    BY DEF CommitPaid
  <2>3. Trade(w) /\ Cardinality(squad') = Cardinality(squad)
    BY <1>1, <2>1, <2>2, SquadMoves
  <2>4. PICK rows \in DueNow(w) :
          Record(w, rows, "TRADE", req[w].price_out - req[w].price_in)
    BY <2>3 DEF Trade
  <2> QED BY <1>1, <2>3, <2>4, MoveComesLast
<1>2. RosterInv /\ [Next]_vars => [Frozen]_vars
  BY <1>1
<1> HIDE DEF Frozen
<1>3. Spec => [][Frozen]_vars
  BY <1>2, RosterInvariant, PTL DEF Spec
<1> QED BY <1>3 DEF FrozenInSize, Frozen

(***************************************************************************)
(* Cash changes hands without a player only while the trade market is open *)
(* at the instant of the write.                                            *)
(***************************************************************************)
THEOREM TradesSellOnlyInMarket == Spec => MarketOnly
<1> DEFINE InMarket == cash' # cash /\ squad' = squad => TradeMarketOpen(now)
<1>1. ASSUME RosterInv, [Next]_vars PROVE InMarket
  <2> SUFFICES ASSUME cash' # cash, squad' = squad PROVE TradeMarketOpen(now)
    OBVIOUS
  <2>1. PICK w \in Workers :
          CommitPaid(w) \/ Buy(w) \/ Sell(w) \/ Trade(w) \/ BuyTrade(w) \/ SellTrade(w)
    BY <1>1, WhoWrites
  <2>2. ~CommitPaid(w)
    BY DEF CommitPaid
  <2> QED BY <1>1, <2>1, <2>2, SquadMoves
<1>2. RosterInv /\ [Next]_vars => [InMarket]_vars
  BY <1>1
<1> HIDE DEF InMarket
<1>3. Spec => [][InMarket]_vars
  BY <1>2, RosterInvariant, PTL DEF Spec
<1> QED BY <1>3 DEF MarketOnly, InMarket

(***************************************************************************)
(* A payout leaves out nothing that is due: as many rows as grants, no two *)
(* for the same one.                                                       *)
(***************************************************************************)
LEMMA PayoutsAreComplete ==
  ASSUME NEW old, NEW until \in Nat, NEW rows \in Payouts(old, until),
         NEW d \in UnpaidGrants(old, until)
  PROVE  \E i \in 1..Len(rows) : rows[i].kind = "GRANT_TRADE" /\ rows[i].grant_key = d.key
<1> DEFINE due == UnpaidGrants(old, until)
           n == Cardinality(due)
<1>1. IsFiniteSet(due) /\ due \subseteq GrantDue /\ n \in Nat
  <2> DEFINE all == TradeGrantSchedule(LiveGrants, until)
  <2>1. LiveGrants \in SUBSET GrantIds
    BY DEF LiveGrants
  <2>2. IsFiniteSet(all) /\ all \subseteq GrantDue
    BY <2>1, ScheduleFacts
  <2>3. due \subseteq all
    BY DEF UnpaidGrants
  <2> HIDE DEF all, due
  <2> QED BY <2>2, <2>3, FS_Subset, FS_CardinalityType
<1>2. PICK f \in [1..n -> due] :
        /\ \A i, j \in 1..n : i < j => f[i] # f[j] /\ f[i].granted_at <= f[j].granted_at
        /\ rows = [i \in 1..n |-> GrantRow(f[i])]
  BY DEF Payouts
<1>3. d \in due
  OBVIOUS
<1> HIDE DEF due, n
<1>4. f \in Injection(1..n, due)
  <2>1. ASSUME NEW i \in 1..n, NEW j \in 1..n, f[i] = f[j] PROVE i = j
    <3>1. ~(i < j) /\ ~(j < i)
      BY <1>2, <2>1
    <3> QED BY <1>1, <3>1
  <2> QED BY <1>2, <2>1 DEF Injection, IsInjective
<1>5. f \in Surjection(1..n, due)
  <2>1. IsFiniteSet(1..n) /\ Cardinality(1..n) = n
    BY <1>1, FS_Interval
  <2> QED BY <1>1, <1>4, <2>1, FS_Injection DEF n
<1>6. PICK i \in 1..n : f[i] = d
  BY <1>3, <1>5 DEF Surjection
<1>7. rows[i] = GrantRow(d) /\ Len(rows) = n
  BY <1>1, <1>2, <1>6
<1>8. GrantRow(d).kind = "GRANT_TRADE" /\ GrantRow(d).grant_key = d.key
  BY <1>1, <1>3, GrantRowFacts DEF GrantRows
<1> QED BY <1>6, <1>7, <1>8

(***************************************************************************)
(* After a move every grant due at its instant is in the history.          *)
(***************************************************************************)
LEMMA MoveSettlesGrants ==
  ASSUME RosterInv, NEW w \in Workers, NEW rows \in DueNow(w),
         NEW kind, NEW delta, Record(w, rows, kind, delta)
  PROVE  UnpaidGrants(log', now) = {}
<1> DEFINE old == log \o paid[w]  k == old \o rows
<1> SUFFICES ASSUME NEW d \in TradeGrantSchedule(LiveGrants, now)
             PROVE  d.key \in PaidKeys(log')
  BY DEF UnpaidGrants
<1>1. /\ log \in Seq(Row) /\ paid[w] \in Seq(Row) /\ rows \in Seq(Row) /\ now \in Nat
  <2>1. rows \in Seq(Row)
    BY ServicePays
  <2> QED BY <2>1 DEF RosterInv, TypeOK
<1>2. old \in Seq(Row)
  BY <1>1
<1>3. /\ Len(log') = Len(k) + 1
      /\ \A i \in 1..Len(k) : log'[i] = k[i]
  BY MoveComesLast
<1>4. rows \in Payouts(old, now)
  BY DEF DueNow
<1> HIDE DEF old
<1>5. /\ Len(k) = Len(old) + Len(rows) /\ Len(old) \in Nat /\ Len(rows) \in Nat
      /\ \A i \in 1..Len(old) : k[i] = old[i]
      /\ \A i \in 1..Len(rows) : k[Len(old) + i] = rows[i]
  BY <1>1, <1>2
<1> HIDE DEF k
<1>6. CASE d.key \in PaidKeys(old)
  <2>1. PICK i \in 1..Len(old) : old[i].kind = "GRANT_TRADE" /\ old[i].grant_key = d.key
    BY <1>6 DEF PaidKeys
  <2>2. i \in 1..Len(log') /\ log'[i] = old[i]
    BY <1>3, <1>5
  <2> QED BY <2>1, <2>2 DEF PaidKeys
<1>7. CASE d.key \notin PaidKeys(old)
  <2>1. d \in UnpaidGrants(old, now)
    BY <1>7 DEF UnpaidGrants
  <2>2. PICK i \in 1..Len(rows) : rows[i].kind = "GRANT_TRADE" /\ rows[i].grant_key = d.key
    BY <1>1, <1>4, <2>1, PayoutsAreComplete
  <2> DEFINE j == Len(old) + i
  <2>3. j \in 1..Len(log') /\ j \in 1..Len(k) /\ k[j] = rows[i]
    BY <1>3, <1>5
  <2>4. log'[j] = rows[i]
    BY <1>3, <2>3
  <2> HIDE DEF j
  <2> QED BY <2>2, <2>3, <2>4 DEF PaidKeys
<1> QED BY <1>6, <1>7

(***************************************************************************)
(* A move is never decided on a trade count that misses a grant already    *)
(* due.                                                                    *)
(***************************************************************************)
THEOREM MovesSeeEveryGrant == Spec => CountIsCurrent
<1> DEFINE Current == log' # log /\ log'[Len(log')].kind # "GRANT_TRADE" =>
                        UnpaidGrants(log', now) = {}
<1>1. ASSUME RosterInv, [Next]_vars PROVE Current
  <2> SUFFICES ASSUME log' # log, log'[Len(log')].kind # "GRANT_TRADE"
               PROVE  UnpaidGrants(log', now) = {}
    OBVIOUS
  <2>1. PICK w \in Workers :
          CommitPaid(w) \/ Buy(w) \/ Sell(w) \/ Trade(w) \/ BuyTrade(w) \/ SellTrade(w)
    BY <1>1, WhoWrites
  <2>2. ~CommitPaid(w)
    <3> SUFFICES ASSUME CommitPaid(w) PROVE FALSE
      OBVIOUS
    <3> DEFINE new == paid[w]
    <3>1. /\ log' = log \o new /\ log \in Seq(Row)
          /\ new \in Seq(Row) /\ \A i \in 1..Len(new) : new[i] \in GrantRows
      BY <1>1 DEF CommitPaid, RosterInv, TypeOK, RequestsInOrder, RequestInOrder, IsPayout
    <3> HIDE DEF new
    <3>2. CASE Len(new) = 0
      BY <3>1, <3>2, ConcatEmptySeq
    <3>3. CASE Len(new) # 0
      <4>1. /\ Len(new) \in 1..Len(new)
            /\ log'[Len(log')] = new[Len(new)]
        BY <3>1, <3>3
      <4> QED BY <3>1, <4>1 DEF GrantRows
    <3> QED BY <3>2, <3>3
  <2>3. \E rows \in DueNow(w), kind \in Kinds : \E delta : Record(w, rows, kind, delta)
    BY <2>1, <2>2 DEF Buy, Sell, Trade, BuyTrade, SellTrade, Kinds
  <2> QED BY <1>1, <2>3, MoveSettlesGrants
<1>2. RosterInv /\ [Next]_vars => [Current]_vars
  BY <1>1
<1> HIDE DEF Current
<1>3. Spec => [][Current]_vars
  BY <1>2, RosterInvariant, PTL DEF Spec
<1> QED BY <1>3 DEF CountIsCurrent, Current

-----------------------------------------------------------------------------
(* One request at a time: what a release pays back *)

OneWorker == \A v, w \in Workers : v = w

(***************************************************************************)
(* Arrivals are stamped in the order in which they are written, so the     *)
(* latest by its stamp is the last one of the history; whoever is on the   *)
(* squad has arrived; and the price a release has read is still that of    *)
(* the player's last arrival.                                              *)
(***************************************************************************)
Arrival(i) == log[i].player_in # NoPlayer

InTurn ==
  /\ \A i \in 1..Len(log) : Arrival(i) => log[i].occurred_at < now
  /\ \A i, j \in 1..Len(log) :
       i < j /\ Arrival(i) /\ Arrival(j) => log[i].occurred_at < log[j].occurred_at

MembersArrived == \A p \in squad : Arrivals(p) # {}

PaidLast(p, price) ==
  \E i \in Arrivals(p) : (\A j \in Arrivals(p) : j <= i) /\ price = log[i].price_in

QuoteStands(w) ==
  pc[w] = "quoted" =>
    /\ at[w] < now
    /\ \A i \in 1..Len(log) : Arrival(i) => log[i].occurred_at < at[w]
    /\ req[w].op = "sell" /\ req[w].player_out \in squad =>
         PaidLast(req[w].player_out, req[w].price_out)

RefundInv ==
  InTurn /\ MembersArrived /\ RefundsExact /\ \A w \in Workers : QuoteStands(w)

(***************************************************************************)
(* What is looked up is what the last arrival cost.                        *)
(***************************************************************************)
LEMMA LookupIsPaidLast ==
  ASSUME RosterInv, InTurn, NEW p \in Players, Arrivals(p) # {}
  PROVE  PaidLast(p, AmountPaidFor(p))
<1> DEFINE last == LatestArrival(p)
<1>1. /\ last \in Arrivals(p)
      /\ \A j \in Arrivals(p) : log[j].occurred_at <= log[last].occurred_at
      /\ log[last].price_in # NoPrice
  BY LatestArrivalFacts
<1> HIDE DEF last
<1>2. log \in Seq(Row)
  BY DEF RosterInv, TypeOK
<1>3. \A j \in Arrivals(p) :
        j \in 1..Len(log) /\ j \in Int /\ Arrival(j) /\ log[j].occurred_at \in Nat
  <2>1. \A j \in 1..Len(log) : j \in Int /\ log[j].occurred_at \in Nat
    <3>1. \A j \in 1..Len(log) : log[j] \in Row
      BY <1>2
    <3> QED BY <3>1 DEF Row
  <2> QED BY <2>1, LedgerConstants DEF Arrivals, Arrival
<1>4. \A j \in Arrivals(p) : j <= last
  <2> SUFFICES ASSUME NEW j \in Arrivals(p), last < j PROVE FALSE
    BY <1>1, <1>3
  <2>1. log[last].occurred_at < log[j].occurred_at
    BY <1>1, <1>3 DEF InTurn
  <2> QED BY <1>1, <1>3, <2>1
<1>5. AmountPaidFor(p) = log[last].price_in
  BY <1>1 DEF AmountPaidFor, last
<1> QED BY <1>1, <1>4, <1>5 DEF PaidLast

(***************************************************************************)
(* The history grows by payouts and at most one move, the last row, whose  *)
(* stamp is later than every arrival before it.                            *)
(***************************************************************************)
LEMMA HistoryGrows ==
  ASSUME RosterInv, InTurn, MembersArrived, RefundsExact, now' = now,
         log' \in Seq(Row), Len(log) <= Len(log'),
         \A i \in 1..Len(log) : log'[i] = log[i],
         \A i \in (Len(log) + 1)..Len(log') :
           log'[i].player_in # NoPlayer =>
             /\ i = Len(log') /\ log'[i].occurred_at < now
             /\ \A j \in 1..Len(log) : Arrival(j) => log[j].occurred_at < log'[i].occurred_at,
         \A i \in (Len(log) + 1)..Len(log') :
           log'[i].kind = "SELL" =>
             /\ i = Len(log') /\ log'[i].player_out \in Players
             /\ PaidLast(log'[i].player_out, log'[i].price_out),
         \A p \in squad' : p \in squad \/ \E i \in 1..Len(log') : log'[i].player_in = p
  PROVE  InTurn' /\ MembersArrived' /\ RefundsExact'
<1>1. Len(log) \in Nat /\ Len(log') \in Nat
  BY DEF RosterInv, TypeOK
<1>2. \A i \in 1..Len(log') : i \in 1..Len(log) \/ i \in (Len(log) + 1)..Len(log')
  BY <1>1
<1>3. 1..Len(log) \subseteq 1..Len(log')
  BY <1>1
<1>4. InTurn'
  <2>1. ASSUME NEW i \in 1..Len(log'), Arrival(i)'
        PROVE  log'[i].occurred_at < now
    BY <1>2, <2>1 DEF InTurn, Arrival
  <2>2. ASSUME NEW i \in 1..Len(log'), NEW j \in 1..Len(log'), i < j, Arrival(i)', Arrival(j)'
        PROVE  log'[i].occurred_at < log'[j].occurred_at
    <3>1. CASE j \in 1..Len(log)
      <4>1. i \in 1..Len(log)
        BY <1>1, <2>2, <3>1
      <4> QED BY <2>2, <3>1, <4>1 DEF InTurn, Arrival
    <3>2. CASE j \in (Len(log) + 1)..Len(log')
      <4>1. i \in 1..Len(log)
        BY <1>1, <1>2, <2>2 DEF Arrival
      <4> QED BY <2>2, <3>2, <4>1 DEF Arrival
    <3> QED BY <1>2, <3>1, <3>2
  <2> QED BY <2>1, <2>2 DEF InTurn
<1>5. \A p : Arrivals(p) \subseteq Arrivals(p)'
  BY <1>3 DEF Arrivals
<1>6. MembersArrived'
  <2> SUFFICES ASSUME NEW p \in squad' PROVE Arrivals(p)' # {}
    BY DEF MembersArrived
  <2>1. CASE p \in squad
    BY <1>5, <2>1 DEF MembersArrived
  <2>2. CASE \E i \in 1..Len(log') : log'[i].player_in = p
    BY <2>2 DEF Arrivals
  <2> QED BY <2>1, <2>2
<1>7. RefundsExact'
  <2> DEFINE before(n, p) == {i \in 1..Len(log') : log'[i].player_in = p /\ i < n}
  <2> SUFFICES ASSUME NEW n \in 1..Len(log'), log'[n].kind = "SELL"
               PROVE  \E i \in before(n, log'[n].player_out) :
                        /\ \A j \in before(n, log'[n].player_out) : j <= i
                        /\ log'[n].price_out = log'[i].price_in
    BY DEF RefundsExact, ArrivalsBefore, Arrivals
  <2>1. CASE n \in 1..Len(log)
    <3> DEFINE p == log[n].player_out
    <3>1. log'[n] = log[n]
      BY <2>1
    <3>2. before(n, p) = ArrivalsBefore(n, p)
      BY <1>1, <2>1, <3>1 DEF ArrivalsBefore, Arrivals
    <3>3. PICK i \in ArrivalsBefore(n, p) :
            (\A j \in ArrivalsBefore(n, p) : j <= i) /\ log[n].price_out = log[i].price_in
      BY <2>1, <3>1 DEF RefundsExact
    <3>4. log'[i] = log[i]
      BY <3>3 DEF ArrivalsBefore, Arrivals
    <3> HIDE DEF before
    <3> QED BY <3>1, <3>2, <3>3, <3>4
  <2>2. CASE n \in (Len(log) + 1)..Len(log')
    <3> DEFINE p == log'[n].player_out
    <3>1. n = Len(log') /\ p \in Players /\ PaidLast(p, log'[n].price_out)
      BY <2>2
    <3>2. before(n, p) = Arrivals(p)
      <4>1. ASSUME NEW i \in before(n, p)
            PROVE  i \in Arrivals(p)
        <5>1. i \in 1..Len(log') /\ log'[i].player_in = p /\ i < n
          OBVIOUS
        <5>2. p # NoPlayer
          BY <3>1, LedgerConstants
        <5> HIDE DEF p, before
        <5>3. i \in 1..Len(log)
          BY <1>1, <1>2, <3>1, <5>1, <5>2
        <5> QED BY <5>1, <5>3 DEF Arrivals
      <4>2. ASSUME NEW i \in Arrivals(p)
            PROVE  i \in before(n, p)
        BY <1>1, <2>2 DEF Arrivals
      <4> QED BY <4>1, <4>2
    <3>3. \A i \in Arrivals(p) : log'[i] = log[i]
      BY DEF Arrivals
    <3> HIDE DEF before
    <3> QED BY <3>1, <3>2, <3>3 DEF PaidLast
  <2> QED BY <1>2, <2>1, <2>2
<1> QED BY <1>4, <1>6, <1>7

(***************************************************************************)
(* A payout alone brings nobody in and lets nobody go.                     *)
(***************************************************************************)
LEMMA CommitRefunds ==
  ASSUME RosterInv, RefundInv, NEW w \in Workers, CommitPaid(w)
  PROVE  InTurn' /\ MembersArrived' /\ RefundsExact'
<1> DEFINE new == paid[w]
<1>1. /\ log' = log \o new /\ squad' = squad /\ now' = now /\ log \in Seq(Row)
      /\ new \in Seq(Row) /\ \A i \in 1..Len(new) : new[i] \in GrantRows
  BY DEF CommitPaid, season, RosterInv, TypeOK, RequestsInOrder, RequestInOrder, IsPayout
<1> HIDE DEF new
<1>2. /\ log' \in Seq(Row) /\ Len(log) <= Len(log')
      /\ \A i \in 1..Len(log) : log'[i] = log[i]
      /\ \A i \in (Len(log) + 1)..Len(log') : log'[i] \in GrantRows
  BY <1>1
<1>3. \A i \in (Len(log) + 1)..Len(log') : log'[i].player_in = NoPlayer /\ log'[i].kind # "SELL"
  BY <1>2 DEF GrantRows
<1> QED BY <1>1, <1>2, <1>3, HistoryGrows DEF RefundInv

(***************************************************************************)
(* A move is stamped with the instant its prices were read at, after every *)
(* arrival there is; and a release pays back what it has read.             *)
(***************************************************************************)
LEMMA RecordRefunds ==
  ASSUME RosterInv, RefundInv, NEW w \in Workers, pc[w] = "quoted",
         NEW rows \in DueNow(w), NEW kind, NEW delta, Record(w, rows, kind, delta),
         log' \in Seq(Row),
         kind = "SELL" => req[w].op = "sell" /\ req[w].player_out \in squad,
         \A p \in squad' : p \in squad \/ req[w].player_in = p
  PROVE  InTurn' /\ MembersArrived' /\ RefundsExact'
<1> DEFINE new == paid[w] \o rows
           row == MoveRow(kind, req[w], delta, at[w])
<1>1. /\ log' = Append(log \o new, row) /\ now' = now /\ log \in Seq(Row) /\ new \in Seq(Row)
      /\ \A i \in 1..Len(new) : new[i] \in GrantRows
  <2>1. IsPayout(new, log) /\ new \in Seq(Row) /\ log \o paid[w] \o rows = log \o new
    BY ServicePays
  <2> HIDE DEF new
  <2> QED BY <2>1 DEF Record, season, RosterInv, TypeOK, IsPayout
<1>2. /\ row.kind = kind /\ row.player_in = req[w].player_in /\ row.player_out = req[w].player_out
      /\ row.price_out = req[w].price_out /\ row.occurred_at = at[w]
  BY DEF MoveRow
<1>3. /\ at[w] < now
      /\ \A i \in 1..Len(log) : Arrival(i) => log[i].occurred_at < at[w]
      /\ kind = "SELL" => PaidLast(req[w].player_out, req[w].price_out)
      /\ kind = "SELL" => req[w].player_out \in Players
  BY DEF RefundInv, QuoteStands, RosterInv, TypeOK
<1> HIDE DEF new, row
<1>4. /\ Len(log) <= Len(log')
      /\ \A i \in 1..Len(log) : log'[i] = log[i]
      /\ \A i \in (Len(log) + 1)..(Len(log') - 1) : log'[i] \in GrantRows
      /\ log'[Len(log')] = row /\ Len(log') \in 1..Len(log')
  <2> DEFINE old == log \o new
  <2>1. /\ old \in Seq(Row) /\ Len(old) = Len(log) + Len(new)
        /\ \A i \in 1..Len(log) : old[i] = log[i]
        /\ \A i \in (Len(log) + 1)..Len(old) : old[i] \in GrantRows
        /\ Len(log) \in Nat /\ Len(new) \in Nat
    BY <1>1
  <2> HIDE DEF old
  <2>2. /\ Len(log') = Len(old) + 1 /\ log'[Len(log')] = row
        /\ \A i \in 1..Len(old) : log'[i] = old[i]
    <3> DEFINE S == Row \union {row}
    <3>1. old \in Seq(S) /\ row \in S
      BY <2>1
    <3>2. log' = Append(old, row)
      BY <1>1 DEF old
    <3> HIDE DEF S
    <3>3. Len(log') = Len(old) + 1 /\ Len(old) \in Nat
      BY <3>1, <3>2
    <3>4. log'[Len(old) + 1] = row
      BY <3>1, <3>2
    <3>5. ASSUME NEW i \in 1..Len(old)
          PROVE  log'[i] = old[i]
      BY <3>1, <3>2, <3>5
    <3> QED BY <3>3, <3>4, <3>5
  <2>3. Len(log') = Len(log) + Len(new) + 1 /\ Len(log) \in Nat /\ Len(new) \in Nat
    BY <2>1, <2>2
  <2>4. Len(log) <= Len(log') /\ Len(log') \in 1..Len(log')
    BY <2>3
  <2>5. ASSUME NEW i \in 1..Len(log)
        PROVE  log'[i] = log[i]
    <3>1. i \in 1..Len(old)
      BY <2>1
    <3> QED BY <3>1, <2>1, <2>2
  <2>6. ASSUME NEW i \in (Len(log) + 1)..(Len(log') - 1)
        PROVE  log'[i] \in GrantRows
    <3>1. i \in 1..Len(old) /\ i \in (Len(log) + 1)..Len(old)
      BY <2>1, <2>2
    <3> QED BY <3>1, <2>1, <2>2
  <2> QED BY <2>2, <2>4, <2>5, <2>6
<1>5. \A i \in (Len(log) + 1)..(Len(log') - 1) : log'[i].player_in = NoPlayer /\ log'[i].kind # "SELL"
  BY <1>4 DEF GrantRows
<1>6. Len(log) \in Nat /\ Len(log') \in Nat
  BY <1>1
<1>7. ASSUME NEW i \in (Len(log) + 1)..Len(log'),
             log'[i].player_in # NoPlayer \/ log'[i].kind = "SELL"
      PROVE  i = Len(log') /\ log'[i] = row
  BY <1>4, <1>5, <1>6, <1>7
<1>8. \A p \in squad' : p \in squad \/ \E i \in 1..Len(log') : log'[i].player_in = p
  BY <1>2, <1>4
<1>9. \A i \in (Len(log) + 1)..Len(log') :
        log'[i].player_in # NoPlayer =>
          /\ i = Len(log') /\ log'[i].occurred_at < now
          /\ \A j \in 1..Len(log) : Arrival(j) => log[j].occurred_at < log'[i].occurred_at
  BY <1>2, <1>3, <1>7
<1>10. \A i \in (Len(log) + 1)..Len(log') :
         log'[i].kind = "SELL" =>
           /\ i = Len(log') /\ log'[i].player_out \in Players
           /\ PaidLast(log'[i].player_out, log'[i].price_out)
  BY <1>2, <1>3, <1>7
<1> QED BY <1>1, <1>4, <1>8, <1>9, <1>10, HistoryGrows DEF RefundInv

(***************************************************************************)
(* While the roster stands still, so does what it says.                    *)
(***************************************************************************)
LEMMA QuietRefunds ==
  ASSUME RosterInv, RefundInv, UNCHANGED roster, now' \in Nat, now <= now'
  PROVE  InTurn' /\ MembersArrived' /\ RefundsExact'
<1>1. log' = log /\ squad' = squad /\ log \in Seq(Row) /\ now \in Nat
  BY DEF roster, RosterInv, TypeOK
<1>2. \A i \in 1..Len(log) : log[i] \in Row
  BY <1>1
<1>3. \A i \in 1..Len(log) : log[i].occurred_at \in Nat
  BY <1>2 DEF Row
<1>4. InTurn'
  BY <1>1, <1>3 DEF RefundInv, InTurn, Arrival
<1>5. MembersArrived'
  BY <1>1 DEF RefundInv, MembersArrived, Arrivals
<1>6. RefundsExact'
  BY <1>1 DEF RefundInv, RefundsExact, ArrivalsBefore, Arrivals
<1> QED BY <1>4, <1>5, <1>6

(***************************************************************************)
(* Every step of the only worker, and of the rest of the site.             *)
(***************************************************************************)
LEMMA EndOfQuotes ==
  ASSUME OneWorker, RosterInv, NEW w \in Workers, NEW step, step # "quoted",
         pc' = [pc EXCEPT ![w] = step]
  PROVE  \A v \in Workers : QuoteStands(v)'
<1>1. \A v \in Workers : pc'[v] = step
  BY DEF OneWorker, RosterInv, TypeOK
<1> QED BY <1>1 DEF QuoteStands

LEMMA StepRefunds ==
  ASSUME OneWorker, RosterInv, RosterInv', RefundInv, NEW w \in Workers, Step(w)
  PROVE  RefundInv'
<1>1. now \in Nat /\ log' \in Seq(Row) /\ pc \in [Workers -> {"idle", "fetched", "paying", "open", "quoted"}]
  BY DEF RosterInv, TypeOK
<1>2. ASSUME CommitPaid(w) PROVE RefundInv'
  <2>1. \A v \in Workers : QuoteStands(v)'
    BY <1>2, EndOfQuotes DEF CommitPaid, End
  <2> QED BY <1>2, <2>1, CommitRefunds DEF RefundInv
<1>3. ASSUME NEW rows \in DueNow(w), NEW kind, NEW delta, Record(w, rows, kind, delta),
             pc[w] = "quoted",
             kind = "SELL" => req[w].op = "sell" /\ req[w].player_out \in squad,
             \A p \in squad' : p \in squad \/ req[w].player_in = p
      PROVE  RefundInv'
  <2>1. \A v \in Workers : QuoteStands(v)'
    BY <1>3, EndOfQuotes DEF Record, End
  <2> QED BY <1>1, <1>3, <2>1, RecordRefunds DEF RefundInv
<1>4. ASSUME NEW step, step # "quoted", pc' = [pc EXCEPT ![w] = step],
             UNCHANGED roster, now' = now
      PROVE  RefundInv'
  <2>1. \A v \in Workers : QuoteStands(v)'
    BY <1>4, EndOfQuotes
  <2>2. now' \in Nat /\ now <= now'
    BY <1>1, <1>4
  <2> QED BY <1>4, <2>1, <2>2, QuietRefunds DEF RefundInv
<1>5. CASE Arrive(w)
  BY <1>4, <1>5 DEF Arrive, Begin, season
<1>6. CASE CheckGrants(w)
  BY <1>4, <1>6 DEF CheckGrants, season
<1>7. CASE PayOnAccess(w)
  BY <1>4, <1>7 DEF PayOnAccess, season
<1>8. CASE Crash(w)
  BY <1>4, <1>8 DEF Crash, End, season
<1>9. CASE Leave(w) \/ Refuse(w)
  BY <1>2, <1>9 DEF Leave, Refuse
<1>10. CASE Quote(w)
  <2> DEFINE r == req[w]
             ask == Ask(r.op, r.player_out, r.player_in, PriceOut(r), PriceIn(r))
  <2>1. /\ now' = now + 1 /\ UNCHANGED roster /\ req' = [req EXCEPT ![w] = ask]
        /\ at' = [at EXCEPT ![w] = now]
    BY <1>10 DEF Quote
  <2>2. req \in [Workers -> Request] /\ at \in [Workers -> Nat] /\ squad \in SUBSET Players
    BY DEF RosterInv, TypeOK
  <2>3. /\ req'[w].op = r.op /\ req'[w].player_out = r.player_out
        /\ req'[w].price_out = PriceOut(r) /\ at'[w] = now
    BY <2>1, <2>2 DEF Ask
  <2>4. log' = log /\ squad' = squad
    BY <2>1 DEF roster
  <2>5. InTurn' /\ MembersArrived' /\ RefundsExact'
    BY <1>1, <2>1, QuietRefunds
  <2>6. req'[w].op = "sell" /\ req'[w].player_out \in squad =>
          PaidLast(req'[w].player_out, req'[w].price_out)
    <3> SUFFICES ASSUME r.op = "sell", r.player_out \in squad
                 PROVE  PaidLast(r.player_out, PriceOut(r))
      BY <2>3
    <3>1. PriceOut(r) = AmountPaidFor(r.player_out)
      BY DEF PriceOut
    <3>2. r.player_out \in Players /\ Arrivals(r.player_out) # {}
      BY <2>2 DEF RefundInv, MembersArrived
    <3> QED BY <3>1, <3>2, LookupIsPaidLast DEF RefundInv
  <2>7. QuoteStands(w)'
    <3>1. now < now' /\ \A i \in 1..Len(log) : Arrival(i) => log[i].occurred_at < now
      BY <1>1, <2>1 DEF RefundInv, InTurn
    <3>2. \A p, price : PaidLast(p, price)' = PaidLast(p, price)
      BY <2>4 DEF PaidLast, Arrivals
    <3> QED BY <2>3, <2>4, <2>6, <3>1, <3>2 DEF QuoteStands, Arrival
  <2> QED BY <2>5, <2>7 DEF RefundInv, OneWorker
<1>11. CASE Buy(w)
  <2>1. PICK rows \in DueNow(w) : Record(w, rows, "BUY", -req[w].price_in)
    BY <1>11 DEF Buy
  <2>2. pc[w] = "quoted" /\ \A p \in squad' : p \in squad \/ req[w].player_in = p
    BY <1>11 DEF Buy, Locks
  <2> QED BY <1>3, <2>1, <2>2
<1>12. CASE Sell(w)
  <2>1. PICK rows \in DueNow(w) : Record(w, rows, "SELL", req[w].price_out)
    BY <1>12 DEF Sell
  <2>2. /\ pc[w] = "quoted" /\ req[w].op = "sell" /\ req[w].player_out \in squad
        /\ \A p \in squad' : p \in squad
    BY <1>12 DEF Sell, Locks, CanSell
  <2> QED BY <1>3, <2>1, <2>2
<1>13. CASE Trade(w)
  <2>1. PICK rows \in DueNow(w) : Record(w, rows, "TRADE", req[w].price_out - req[w].price_in)
    BY <1>13 DEF Trade
  <2>2. pc[w] = "quoted" /\ \A p \in squad' : p \in squad \/ req[w].player_in = p
    BY <1>13 DEF Trade, Locks
  <2> QED BY <1>3, <2>1, <2>2
<1>14. CASE BuyTrade(w)
  <2>1. PICK rows \in DueNow(w) : Record(w, rows, "BUY_TRADE", -TradeBuyPrice)
    BY <1>14 DEF BuyTrade
  <2>2. pc[w] = "quoted" /\ squad' = squad
    BY <1>14 DEF BuyTrade, Locks
  <2> QED BY <1>3, <2>1, <2>2
<1>15. CASE SellTrade(w)
  <2>1. PICK rows \in DueNow(w) : Record(w, rows, "SELL_TRADE", TradeSellPrice)
    BY <1>15 DEF SellTrade
  <2>2. pc[w] = "quoted" /\ squad' = squad
    BY <1>15 DEF SellTrade, Locks
  <2> QED BY <1>3, <2>1, <2>2
<1> QED BY <1>5, <1>6, <1>7, <1>8, <1>9, <1>10, <1>11, <1>12, <1>13, <1>14, <1>15 DEF Step, Service

LEMMA StillRefunds ==
  ASSUME RosterInv, RosterInv', RefundInv, Environment \/ UNCHANGED vars
  PROVE  RefundInv'
<1>1. /\ UNCHANGED <<roster, pc, req, at>> /\ now' \in Nat /\ now <= now' /\ now \in Nat
      /\ at \in [Workers -> Nat]
  BY DEF Environment, Tick, Reprice, AddGrant, RemoveGrant, vars, season, requests, RosterInv, TypeOK
<1>2. InTurn' /\ MembersArrived' /\ RefundsExact'
  BY <1>1, QuietRefunds
<1>3. log' = log /\ squad' = squad
  BY <1>1 DEF roster
<1>4. \A p, price : PaidLast(p, price)' = PaidLast(p, price)
  BY <1>3 DEF PaidLast, Arrivals
<1>5. ASSUME NEW w \in Workers PROVE QuoteStands(w)'
  <2>1. QuoteStands(w)
    BY DEF RefundInv
  <2>2. at[w] < now => at[w] < now'
    BY <1>1
  <2> QED BY <1>1, <1>3, <1>4, <2>1, <2>2 DEF QuoteStands, Arrival
<1> QED BY <1>2, <1>5 DEF RefundInv

LEMMA InitRefunds == Init => RefundInv
<1> SUFFICES ASSUME Init PROVE RefundInv
  OBVIOUS
<1>1. log = <<>> /\ squad = {} /\ \A w \in Workers : pc[w] = "idle"
  BY DEF Init, LedgerInit
<1>2. 1..Len(log) = {}
  BY <1>1
<1> QED BY <1>1, <1>2 DEF RefundInv, InTurn, MembersArrived, RefundsExact, QuoteStands

(***************************************************************************)
(* What a release pays back is what the player's last arrival cost         *)
(* (services.amount_paid_for), as long as the owner's requests come one at *)
(* a time: no price that imports move in between, no grant and no trade    *)
(* gets in the way.  Two workers break it (run RosterRefundRace).          *)
(***************************************************************************)
THEOREM ReleasesRefundExactly == OneWorker => (Spec => []RefundsExact)
<1> SUFFICES ASSUME OneWorker PROVE Spec => []RefundsExact
  OBVIOUS
<1>1. Init => RefundInv
  BY InitRefunds
<1>2. RosterInv /\ RosterInv' /\ RefundInv /\ [Next]_vars => RefundInv'
  BY StepRefunds, StillRefunds DEF Next
<1>3. RefundInv => RefundsExact
  BY DEF RefundInv
<1>4. Spec => []RosterInv
  BY RosterInvariant
<1> QED BY <1>1, <1>2, <1>3, <1>4, PTL DEF Spec

-----------------------------------------------------------------------------
(* What the pages offer and say *)

(***************************************************************************)
(* A grant is paid under the instant at which it fell due, so a key in the *)
(* history is never that of a grant still to come.                         *)
(***************************************************************************)
MomentOf(key) == IF key \in GrantIds THEN GrantedAt[key] ELSE key

PaidWhenDue(rows) ==
  \A i \in 1..Len(rows) :
    rows[i].kind = "GRANT_TRADE" => rows[i].occurred_at = MomentOf(rows[i].grant_key)

AsksForMore(w) == PaidWhenDue(paid[w]) /\ (pc[w] = "quoted" => req[w].op # "view")

PagesInv == PaidWhenDue(log) /\ \A w \in Workers : AsksForMore(w)

LEMMA ScheduledMoments ==
  ASSUME NEW live \in SUBSET GrantIds, NEW until \in Nat,
         NEW due \in TradeGrantSchedule(live, until)
  PROVE  due.granted_at = MomentOf(due.key) /\ due.granted_at \in Nat
<1>1. \A m \in WeeklyMoments(until) : m \in Nat /\ m \notin GrantIds
  BY CalendarType DEF WeeklyMoments
<1> QED BY <1>1, CalendarType DEF TradeGrantSchedule, MomentOf

LEMMA PayoutsWhenDue ==
  ASSUME NEW old, NEW until \in Nat, NEW rows \in Payouts(old, until)
  PROVE  PaidWhenDue(rows)
<1> DEFINE all == TradeGrantSchedule(LiveGrants, until)
           due == UnpaidGrants(old, until)
           n == Cardinality(due)
<1>1. /\ IsFiniteSet(all) /\ all \subseteq GrantDue /\ due \subseteq all
      /\ \A d \in all : d.granted_at = MomentOf(d.key)
  <2>1. LiveGrants \in SUBSET GrantIds
    BY DEF LiveGrants
  <2> QED BY <2>1, ScheduleFacts, ScheduledMoments DEF UnpaidGrants
<1>2. PICK f \in [1..n -> due] : rows = [i \in 1..n |-> GrantRow(f[i])]
  BY DEF Payouts
<1> HIDE DEF all, due
<1>3. n \in Nat
  BY <1>1, FS_Subset, FS_CardinalityType
<1> HIDE DEF n
<1>4. Len(rows) = n
  BY <1>2, <1>3
<1>5. ASSUME NEW i \in 1..n
      PROVE  rows[i].occurred_at = MomentOf(rows[i].grant_key)
  <2>1. f[i] \in GrantDue /\ f[i].granted_at = MomentOf(f[i].key)
    BY <1>1, <1>2
  <2> QED BY <1>2, <2>1, GrantRowFacts
<1> QED BY <1>4, <1>5 DEF PaidWhenDue

LEMMA PaidWhenDueConcat ==
  ASSUME NEW a \in Seq(Row), NEW b \in Seq(Row), PaidWhenDue(a), PaidWhenDue(b)
  PROVE  PaidWhenDue(a \o b)
<1>1. /\ Len(a \o b) = Len(a) + Len(b) /\ Len(a) \in Nat /\ Len(b) \in Nat
      /\ \A i \in 1..Len(a) : (a \o b)[i] = a[i]
      /\ \A i \in 1..Len(b) : (a \o b)[Len(a) + i] = b[i]
  OBVIOUS
<1> SUFFICES ASSUME NEW i \in 1..Len(a \o b), (a \o b)[i].kind = "GRANT_TRADE"
             PROVE  (a \o b)[i].occurred_at = MomentOf((a \o b)[i].grant_key)
  BY DEF PaidWhenDue
<1>2. CASE i <= Len(a)
  <2>1. i \in 1..Len(a) /\ (a \o b)[i] = a[i]
    BY <1>1, <1>2
  <2> QED BY <2>1 DEF PaidWhenDue
<1>3. CASE ~(i <= Len(a))
  <2>1. i - Len(a) \in 1..Len(b) /\ i = Len(a) + (i - Len(a))
    BY <1>1, <1>3
  <2>2. (a \o b)[i] = b[i - Len(a)]
    BY <1>1, <2>1
  <2> QED BY <2>1, <2>2 DEF PaidWhenDue
<1> QED BY <1>2, <1>3

(***************************************************************************)
(* A request that ends asks for nothing any more.                          *)
(***************************************************************************)
LEMMA EndAsks ==
  ASSUME RosterInv, PagesInv, NEW w \in Workers, End(w)
  PROVE  \A v \in Workers : AsksForMore(v)'
<1> SUFFICES ASSUME NEW v \in Workers PROVE AsksForMore(v)'
  OBVIOUS
<1>1. /\ pc' = [pc EXCEPT ![w] = "idle"] /\ req' = [req EXCEPT ![w] = NoRequest]
      /\ paid' = [paid EXCEPT ![w] = <<>>]
      /\ pc \in [Workers -> {"idle", "fetched", "paying", "open", "quoted"}]
      /\ req \in [Workers -> Request] /\ paid \in [Workers -> Seq(Row)]
  BY DEF End, RosterInv, TypeOK
<1>2. CASE v = w
  <2>1. pc'[v] = "idle" /\ paid'[v] = <<>>
    BY <1>1, <1>2
  <2> QED BY <2>1 DEF AsksForMore, PaidWhenDue
<1>3. CASE v # w
  <2>1. pc'[v] = pc[v] /\ req'[v] = req[v] /\ paid'[v] = paid[v]
    BY <1>1, <1>3
  <2> QED BY <2>1 DEF AsksForMore, PaidWhenDue, PagesInv
<1> QED BY <1>2, <1>3

LEMMA RecordKeepsPages ==
  ASSUME RosterInv, PagesInv, NEW w \in Workers, NEW rows \in DueNow(w),
         NEW kind \in Kinds \ {"GRANT_TRADE"}, NEW delta, Record(w, rows, kind, delta)
  PROVE  PagesInv'
<1> DEFINE k == log \o paid[w] \o rows
<1>1. /\ log \in Seq(Row) /\ paid[w] \in Seq(Row) /\ rows \in Seq(Row) /\ now \in Nat
  <2>1. rows \in Seq(Row)
    BY ServicePays
  <2> QED BY <2>1 DEF RosterInv, TypeOK
<1>2. PaidWhenDue(rows)
  BY <1>1, PayoutsWhenDue DEF DueNow
<1>3. PaidWhenDue(k) /\ k \in Seq(Row)
  <2> DEFINE old == log \o paid[w]
  <2>1. old \in Seq(Row) /\ PaidWhenDue(old)
    BY <1>1, PaidWhenDueConcat DEF PagesInv, AsksForMore
  <2> HIDE DEF old
  <2>2. old \o rows \in Seq(Row) /\ PaidWhenDue(old \o rows)
    BY <1>1, <1>2, <2>1, PaidWhenDueConcat
  <2> QED BY <2>2 DEF old
<1>4. /\ Len(log') = Len(k) + 1 /\ \A i \in 1..Len(k) : log'[i] = k[i]
      /\ log'[Len(log')].kind = kind
  BY MoveComesLast
<1> HIDE DEF k
<1>5. ASSUME NEW i \in 1..Len(log'), log'[i].kind = "GRANT_TRADE"
      PROVE  log'[i].occurred_at = MomentOf(log'[i].grant_key)
  <2>1. i # Len(log') /\ Len(k) \in Nat
    BY <1>3, <1>4, <1>5
  <2>2. i \in 1..Len(k)
    BY <1>4, <2>1
  <2> QED BY <1>3, <1>4, <1>5, <2>2 DEF PaidWhenDue
<1>6. PaidWhenDue(log')
  BY <1>5 DEF PaidWhenDue
<1>7. End(w)
  BY DEF Record
<1> QED BY <1>6, <1>7, EndAsks DEF PagesInv, PaidWhenDue

LEMMA CommitKeepsPages ==
  ASSUME RosterInv, PagesInv, NEW w \in Workers, CommitPaid(w)
  PROVE  PagesInv'
<1>1. /\ log' = log \o paid[w] /\ End(w)
      /\ log \in Seq(Row) /\ paid[w] \in Seq(Row)
  BY DEF CommitPaid, RosterInv, TypeOK
<1>2. PaidWhenDue(log')
  BY <1>1, PaidWhenDueConcat DEF PagesInv, AsksForMore
<1> QED BY <1>1, <1>2, EndAsks DEF PagesInv, PaidWhenDue

(***************************************************************************)
(* A request that goes on has paid what fell due, and only one for more    *)
(* than a look is priced.                                                  *)
(***************************************************************************)
LEMMA GoingOnKeepsPages ==
  ASSUME RosterInv, PagesInv, NEW w \in Workers,
         Arrive(w) \/ CheckGrants(w) \/ PayOnAccess(w) \/ Quote(w)
  PROVE  PagesInv'
<1>1. /\ pc \in [Workers -> {"idle", "fetched", "paying", "open", "quoted"}]
      /\ req \in [Workers -> Request] /\ paid \in [Workers -> Seq(Row)] /\ at[w] \in Nat
  BY DEF RosterInv, TypeOK
<1>2. log' = log
  BY DEF Arrive, Begin, CheckGrants, PayOnAccess, Quote, roster
<1>3. PaidWhenDue(paid'[w])
  <2>1. CASE PayOnAccess(w)
    <3>1. PICK rows \in Payouts(log, at[w]) : paid' = [paid EXCEPT ![w] = rows]
      BY <2>1 DEF PayOnAccess
    <3> QED BY <1>1, <3>1, PayoutsWhenDue
  <2>2. CASE paid' = paid
    BY <2>2 DEF PagesInv, AsksForMore
  <2> QED BY <2>1, <2>2 DEF Arrive, Begin, CheckGrants, Quote
<1>4. pc'[w] = "quoted" => req'[w].op # "view"
  <2>1. CASE Quote(w)
    <3>1. req[w].op # "view"
      BY <2>1 DEF Quote, CanQuote
    <3>2. req'[w].op = req[w].op
      BY <1>1, <2>1 DEF Quote, Ask
    <3> QED BY <3>1, <3>2
  <2>2. CASE ~Quote(w)
    <3>1. pc'[w] # "quoted"
      BY <1>1, <2>2 DEF Arrive, Begin, CheckGrants, PayOnAccess
    <3> QED BY <3>1
  <2> QED BY <2>1, <2>2
<1>5. \A v \in Workers \ {w} : pc'[v] = pc[v] /\ req'[v] = req[v] /\ paid'[v] = paid[v]
  BY <1>1 DEF Arrive, Begin, CheckGrants, PayOnAccess, Quote
<1>6. \A v \in Workers : AsksForMore(v)'
  BY <1>3, <1>4, <1>5 DEF PagesInv, AsksForMore, PaidWhenDue
<1> QED BY <1>2, <1>6 DEF PagesInv, PaidWhenDue

LEMMA PagesNext ==
  ASSUME RosterInv, PagesInv, [Next]_vars
  PROVE  PagesInv'
<1>1. ASSUME NEW w \in Workers, Step(w) PROVE PagesInv'
  <2>1. CASE Arrive(w) \/ CheckGrants(w) \/ PayOnAccess(w) \/ Quote(w)
    BY <2>1, GoingOnKeepsPages
  <2>2. CASE Leave(w) \/ Refuse(w)
    BY <2>2, CommitKeepsPages DEF Leave, Refuse
  <2>3. CASE Buy(w) \/ Sell(w) \/ Trade(w) \/ BuyTrade(w) \/ SellTrade(w)
    <3>1. \E rows \in DueNow(w), kind \in Kinds \ {"GRANT_TRADE"} :
            \E delta : Record(w, rows, kind, delta)
      BY <2>3 DEF Buy, Sell, Trade, BuyTrade, SellTrade, Kinds
    <3> QED BY <3>1, RecordKeepsPages
  <2>4. CASE Crash(w)
    <3>1. End(w) /\ log' = log
      BY <2>4 DEF Crash, roster
    <3> QED BY <3>1, EndAsks DEF PagesInv, PaidWhenDue
  <2> QED BY <1>1, <2>1, <2>2, <2>3, <2>4 DEF Step, Service
<1>2. CASE Environment \/ UNCHANGED vars
  <2>1. UNCHANGED <<log, pc, req, paid>>
    BY <1>2 DEF Environment, Tick, Reprice, AddGrant, RemoveGrant, roster, requests, vars
  <2> QED BY <2>1 DEF PagesInv, AsksForMore, PaidWhenDue
<1> QED BY <1>1, <1>2 DEF Next

LEMMA PagesInit == Init => PagesInv
<1> SUFFICES ASSUME Init PROVE PagesInv
  OBVIOUS
<1>1. log = <<>> /\ \A w \in Workers : paid[w] = <<>> /\ pc[w] = "idle"
  BY DEF Init, LedgerInit
<1> QED BY <1>1 DEF PagesInv, AsksForMore, PaidWhenDue

LEMMA PagesHold == Spec => [](RosterInv /\ PagesInv)
BY RosterInvInit, StepKeepsInv, PagesInit, PagesNext, PTL DEF Spec
(***************************************************************************)
(* What the pages and the write layer compare.                             *)
(***************************************************************************)
LEMMA PageTypes ==
  ASSUME RosterInv
  PROVE  /\ now \in Nat /\ cash \in Nat /\ salary \in [Players -> Nat \union {NoPrice}]
         /\ squad \in SUBSET Players /\ IsFiniteSet(squad) /\ Cardinality(squad) \in Nat
<1>1. /\ now \in Nat /\ cash \in Int /\ cash >= 0
      /\ salary \in [Players -> Nat \union {NoPrice}] /\ squad \in SUBSET Players
  BY DEF RosterInv, TypeOK, LedgerInv, WithinLimits, OptionalPrice
<1>2. IsFiniteSet(squad) /\ Cardinality(squad) \in Nat
  BY <1>1, LedgerConstants, FS_Subset, FS_CardinalityType
<1> QED BY <1>1, <1>2

(***************************************************************************)
(* The build page words two reasons into one note, and says nothing        *)
(* exactly while the market is open.                                       *)
(***************************************************************************)
LEMMA NoteIsNone ==
  ASSUME NEW trades
  PROVE  /\ (BuildContext(trades).trade_market_note = "none") <=> TradeMarketOpen(now)
         /\ BuildContext(trades).can_buy_trade = (TradeMarketOpen(now) /\ cash >= TradeBuyPrice)
         /\ BuildContext(trades).can_sell_trade = (TradeMarketOpen(now) /\ trades > 0)
<1> DEFINE note == IF TradeUnavailableReason = "none"
                   THEN TradeMarketClosedReason ELSE TradeUnavailableReason
<1>1. (TradeUnavailableReason = "none") <=> TradingAllowed(now)
  BY DEF TradeUnavailableReason
<1>2. (TradeMarketClosedReason = "none") <=> TradeMarketOpen(now)
  BY DEF TradeMarketClosedReason
<1>3. TradeMarketOpen(now) => TradingAllowed(now)
  BY DEF TradeMarketOpen
<1>4. (note = "none") <=> TradeMarketOpen(now)
  BY <1>1, <1>2, <1>3
<1>5. /\ BuildContext(trades).trade_market_note = note
      /\ BuildContext(trades).can_buy_trade = (note = "none" /\ cash >= TradeBuyPrice)
      /\ BuildContext(trades).can_sell_trade = (note = "none" /\ trades > 0)
  BY DEF BuildContext
<1> HIDE DEF note
<1> QED BY <1>4, <1>5

(***************************************************************************)
(* A request that is priced, at prices that still stand.                   *)
(***************************************************************************)
LEMMA StandingPrices ==
  ASSUME RosterInv, NEW w \in Workers, pc[w] = "quoted", PricesStand(req[w])
  PROVE  LET r == req[w] IN
         /\ r.op \in {"buy", "trade"} =>
              r.player_in \in Players /\ r.price_in \in Nat /\ r.price_in = salary[r.player_in]
         /\ r.op \in {"sell", "trade"} => r.player_out \in Players /\ r.price_out \in Nat
         /\ r.op = "trade" => r.price_out = salary[r.player_out]
<1>1. WellFormed(req[w]) /\ Priced(req[w])
  BY DEF RosterInv, RequestsInOrder, RequestInOrder
<1> QED BY <1>1 DEF WellFormed, Priced, PricesStand, PriceIn, PriceOut

LEMMA SignIsBuy ==
  ASSUME RosterInv, NEW w \in Workers, pc[w] = "quoted", PricesStand(req[w]),
         req[w].op = "buy", NEW trades
  PROVE  /\ (RosterOption(req[w].player_in) = "sign") = CanBuy(w)
         /\ req[w].player_in \in Active =>
              SignButton(BuildContext(trades), req[w].player_in)
                = (CanBuy(w) \/ SignInVain(BuildContext(trades), req[w].player_in))
<1> DEFINE p == req[w].player_in
<1>1. /\ p \in Players /\ salary[p] \in Nat /\ salary[p] # NoPrice /\ req[w].price_in = salary[p]
  BY StandingPrices, LedgerConstants
<1>2. /\ cash \in Nat /\ Cardinality(squad) \in Nat /\ RosterSize \in Nat
  BY PageTypes, LedgerConstants
<1>3. CanBuy(w) = (/\ TransactionsAllowed(now) /\ salary[p] <= cash /\ p \notin squad
                   /\ Cardinality(squad) < RosterSize)
  BY <1>1 DEF CanBuy
<1>4. IsFull <=> ~(Cardinality(squad) < RosterSize)
  BY <1>2 DEF IsFull
<1> HIDE DEF p
<1>5. (RosterOption(p) = "sign") <=>
        (/\ TransactionsAllowed(now) /\ salary[p] <= cash /\ p \notin squad /\ ~IsFull)
  BY <1>1, <1>2 DEF RosterOption
<1>6. ASSUME p \in Active
      PROVE  SignButton(BuildContext(trades), p) = (CanBuy(w) \/ SignInVain(BuildContext(trades), p))
  <2>1. ~IsFull => ~IsComplete
    BY <1>2, <1>4 DEF IsComplete
  <2>2. p \in Affordable(cash) <=> p \notin squad /\ salary[p] <= cash
    BY <1>1, <1>6 DEF Affordable, Market
  <2>3. /\ BuildContext(trades).signings_open = TransactionsAllowed(now)
        /\ BuildContext(trades).affordable = Affordable(cash)
    BY DEF BuildContext
  <2>4. SignButton(BuildContext(trades), p) =
          (TransactionsAllowed(now) /\ ~IsComplete /\ p \in Affordable(cash))
    BY <2>3 DEF SignButton
  <2>5. SignInVain(BuildContext(trades), p) =
          (IsFull /\ ~IsComplete /\ TransactionsAllowed(now) /\ p \in Affordable(cash))
    BY <2>3 DEF SignInVain
  <2> QED BY <1>3, <1>4, <2>1, <2>2, <2>4, <2>5
<1>7. (RosterOption(p) = "sign") = CanBuy(w)
  BY <1>3, <1>4, <1>5
<1> QED BY <1>6, <1>7 DEF p

LEMMA ExecuteIsTrade ==
  ASSUME RosterInv, NEW w \in Workers, pc[w] = "quoted", PricesStand(req[w]),
         req[w].op = "trade", NEW trades
  PROVE  ExecuteButton(req[w].player_out, req[w].player_in, trades) = CanTrade(w, trades)
<1> DEFINE out == req[w].player_out  in == req[w].player_in
           o == IF out \in squad THEN out ELSE NoPlayer
           i == IF in \in squad THEN NoPlayer ELSE in
           pre == TradePreview(o, i, trades)
<1>1. /\ in \in Players /\ out \in Players /\ NoPlayer \notin Players
      /\ salary[in] \in Nat /\ salary[out] \in Nat /\ NoPrice \notin Nat
      /\ req[w].price_in = salary[in] /\ req[w].price_out = salary[out]
  BY StandingPrices, LedgerConstants
<1>2. cash \in Nat
  BY PageTypes
<1>3. CanTrade(w, trades) =
        (/\ TradingAllowed(now) /\ trades > 0 /\ out # in /\ out \in squad /\ in \notin squad
         /\ cash + salary[out] - salary[in] >= 0)
  BY <1>1 DEF CanTrade
<1>4. TradeDialog(out, in, trades).preview = pre
  BY DEF TradeDialog
<1>5. /\ pre.affordable = (cash + (CurrentSalary(o) - CurrentSalary(i)) >= 0)
      /\ pre.has_trades = (trades > 0)
      /\ pre.ready = (o # NoPlayer /\ i # NoPlayer)
  BY DEF TradePreview
<1> HIDE DEF out, in
<1>6. pre.ready <=> out \in squad /\ in \notin squad
  BY <1>1, <1>5
<1>7. ASSUME out \in squad, in \notin squad
      PROVE  pre.affordable <=> cash + salary[out] - salary[in] >= 0
  <2>1. CurrentSalary(o) = salary[out] /\ CurrentSalary(i) = salary[in]
    BY <1>1, <1>7 DEF CurrentSalary
  <2> QED BY <1>1, <1>2, <1>5, <2>1
<1>8. ExecuteButton(out, in, trades) =
        (TradingAllowed(now) /\ pre.ready /\ pre.affordable /\ pre.has_trades)
  BY <1>4 DEF ExecuteButton
<1>9. ExecuteButton(out, in, trades) <=> CanTrade(w, trades)
  <2>1. pre.has_trades <=> trades > 0
    BY <1>5
  <2> HIDE DEF pre
  <2>2. out \in squad /\ in \notin squad => out # in
    OBVIOUS
  <2> QED BY <1>3, <1>6, <1>7, <1>8, <2>1, <2>2
<1> QED BY <1>3, <1>8, <1>9 DEF out, in

(***************************************************************************)
(* A button whose prices the view does not find: only in the dialog, and   *)
(* only of a swap with a player who has none.                              *)
(***************************************************************************)
LEMMA ButtonsArePriced ==
  ASSUME RosterInv, NEW w \in Workers, pc[w] = "open"
  PROVE  OfferIsPriced(w)
<1> DEFINE r == req[w]
           page == BuildContext(seen[w])
<1>1. WellFormed(r)
  BY DEF RosterInv, RequestsInOrder, RequestInOrder
<1>2. NoPlayer \notin Players
  BY LedgerConstants
<1>3. ASSUME r.op = "buy", RosterOption(r.player_in) = "sign" \/ SignButton(page, r.player_in)
      PROVE  CanQuote(w)
  <2>1. RosterOption(r.player_in) = "sign" => salary[r.player_in] # NoPrice
    BY DEF RosterOption
  <2>2. SignButton(page, r.player_in) => salary[r.player_in] # NoPrice
    BY DEF SignButton, BuildContext, Affordable, Market
  <2> QED BY <1>3, <2>1, <2>2 DEF CanQuote
<1>4. ASSUME r.op = "trade", ExecuteButton(r.player_out, r.player_in, seen[w])
      PROVE  CanQuote(w) = HasPrices(r)
  <2> DEFINE out == r.player_out  in == r.player_in
             o == IF out \in squad THEN out ELSE NoPlayer
             i == IF in \in squad THEN NoPlayer ELSE in
             pre == TradePreview(o, i, seen[w])
  <2>1. out \in Players /\ in \in Players
    BY <1>1, <1>4 DEF WellFormed
  <2>2. TradeDialog(out, in, seen[w]).preview = pre
    BY DEF TradeDialog
  <2>3. pre.ready /\ pre.has_trades
    BY <1>4, <2>2 DEF ExecuteButton
  <2>4. o # NoPlayer /\ i # NoPlayer /\ seen[w] > 0
    BY <2>3 DEF TradePreview
  <2>5. out \in squad /\ in \notin squad
    BY <2>4
  <2> QED BY <1>4, <2>4, <2>5 DEF CanQuote, HasPrices
<1> QED BY <1>3, <1>4 DEF OfferIsPriced

(***************************************************************************)
(* Whatever the season, the squad and the prices, and however many workers *)
(* move them: what the build page, a player's page and the trade dialog    *)
(* would offer now the write layer accepts now, and what it accepts they   *)
(* offer (BuildContext, roster_option and TradePreview in fantasy/views.py *)
(* against the checks of fantasy/services.py), with just two exceptions:   *)
(* a full roster that misses a position still has the market's button, and *)
(* a swap with a player without a price the dialog's.                      *)
(***************************************************************************)
THEOREM ThePagesOfferWhatIsAllowed == Spec => []OffersAreKept
<1>1. ASSUME RosterInv, PagesInv PROVE OffersAreKept
  <2> SUFFICES ASSUME NEW w \in Workers
               PROVE  /\ pc[w] = "open" => OfferIsPriced(w)
                      /\ pc[w] = "quoted" /\ PricesStand(req[w]) =>
                           \A rows \in DueNow(w) : OfferAgrees(w, TradesHeld(w) + Granted(rows))
    BY DEF OffersAreKept
  <2>7. pc[w] = "open" => OfferIsPriced(w)
    BY <1>1, ButtonsArePriced
  <2> SUFFICES ASSUME pc[w] = "quoted", PricesStand(req[w]), NEW rows \in DueNow(w)
               PROVE  OfferAgrees(w, TradesHeld(w) + Granted(rows))
    BY <2>7
  <2> DEFINE trades == TradesHeld(w) + Granted(rows)
  <2> HIDE DEF trades
  <2>1. req[w].op \in AllOps /\ req[w].op # "view"
    BY <1>1 DEF RosterInv, TypeOK, Request, PagesInv, AsksForMore
  <2> SUFFICES OfferAgrees(w, trades)
    BY DEF trades
  <2>2. CASE req[w].op = "buy"
    <3>1. /\ (RosterOption(req[w].player_in) = "sign") = CanBuy(w)
          /\ req[w].player_in \in Active =>
               SignButton(BuildContext(trades), req[w].player_in)
                 = (CanBuy(w) \/ SignInVain(BuildContext(trades), req[w].player_in))
      BY <1>1, <2>2, SignIsBuy
    <3> QED BY <2>2, <3>1 DEF OfferAgrees
  <2>3. CASE req[w].op = "sell"
    <3>1. BuildContext(trades).signings_open = TransactionsAllowed(now)
      BY DEF BuildContext
    <3>2. ReleaseButton(BuildContext(trades), req[w].player_out) = CanSell(w)
      BY <3>1 DEF ReleaseButton, CanSell
    <3> QED BY <2>3, <3>2 DEF OfferAgrees
  <2>4. CASE req[w].op = "trade"
    <3>1. ExecuteButton(req[w].player_out, req[w].player_in, trades) = CanTrade(w, trades)
      BY <1>1, <2>4, ExecuteIsTrade
    <3> QED BY <2>4, <3>1 DEF OfferAgrees
  <2>5. CASE req[w].op = "buy_trade"
    <3>1. BuildContext(trades).can_buy_trade = CanBuyTrade
      BY NoteIsNone DEF CanBuyTrade
    <3> QED BY <2>5, <3>1 DEF OfferAgrees
  <2>6. CASE req[w].op = "sell_trade"
    <3>1. BuildContext(trades).can_sell_trade = CanSellTrade(trades)
      BY NoteIsNone DEF CanSellTrade
    <3> QED BY <2>6, <3>1 DEF OfferAgrees
  <2> QED BY <2>1, <2>2, <2>3, <2>4, <2>5, <2>6 DEF AllOps
<1> QED BY <1>1, PagesHold, PTL

(***************************************************************************)
(* For every squad and every market: the dialog dims exactly the players   *)
(* its preview calls too expensive, its preview warns of every player its  *)
(* list flags, and it sells a trade when the build page does (TradePreview *)
(* and flag_minimum_breaks in fantasy/views.py).                           *)
(***************************************************************************)
THEOREM TheDialogTellsOneStory == RosterPageConstants => (Spec => []DialogIsOfOnePiece)
<1> SUFFICES ASSUME RosterPageConstants PROVE Spec => []DialogIsOfOnePiece
  OBVIOUS
<1>1. ASSUME RosterInv PROVE DialogIsOfOnePiece
  <2> DEFINE trades == trades_available
             page == BuildContext(trades)
  <2> SUFFICES ASSUME NEW out \in squad, NEW in \in Market
               PROVE  LET dialog == TradeDialog(out, in, trades) IN
                      /\ (in \in dialog.affordable) = dialog.preview.affordable
                      /\ in \in dialog.flagged => dialog.preview.breaks # {}
                      /\ dialog.can_buy_trade = page.can_buy_trade
    BY DEF DialogIsOfOnePiece
  <2> DEFINE dialog == TradeDialog(out, in, trades)
             pre == TradePreview(out, in, trades)
             counts == PositionCounts(squad)
             after == CountsAfter(out, in)
  <2>1. /\ in \in Players /\ in \notin squad /\ out \in Players
        /\ salary[in] \in Nat /\ NoPlayer \notin Players
        /\ Position \in [Players -> Positions]
        /\ \A pos \in Positions : MINIMUM_BY_POSITION[pos] \in Nat
    BY <1>1, PageTypes, LedgerConstants DEF Market, RosterPageConstants, Positions
  <2>2. CurrentSalary(in) = salary[in] /\ CurrentSalary(out) \in Nat /\ cash \in Nat
    BY <1>1, <2>1, PageTypes, LedgerConstants DEF CurrentSalary
  <2>3. /\ dialog.preview = pre /\ dialog.affordable = Affordable(pre.budget)
        /\ dialog.flagged = {p \in Market : FlagMinimumBreaks(out, p)}
        /\ dialog.can_buy_trade = (TradeMarketOpen(now) /\ cash >= TradeBuyPrice)
    BY <2>1 DEF TradeDialog
  <2>4. /\ pre.affordable = (cash + (CurrentSalary(out) - CurrentSalary(in)) >= 0)
        /\ pre.budget = cash + CurrentSalary(out)
        /\ pre.breaks = Shortfalls(after) \ Shortfalls(counts)
    BY DEF TradePreview
  <2> HIDE DEF dialog, pre
  <2>5. (in \in dialog.affordable) = dialog.preview.affordable
    <3>1. in \in Affordable(pre.budget) <=> salary[in] <= cash + CurrentSalary(out)
      BY <2>4 DEF Affordable
    <3>2. salary[in] <= cash + CurrentSalary(out)
            <=> cash + (CurrentSalary(out) - CurrentSalary(in)) >= 0
      BY <2>1, <2>2
    <3> QED BY <2>3, <2>4, <3>1, <3>2
  <2>6. ASSUME in \in dialog.flagged PROVE dialog.preview.breaks # {}
    <3>1. PICK pos \in Positions : after[pos] < MINIMUM_BY_POSITION[pos] /\ after[pos] < counts[pos]
      BY <2>3, <2>6 DEF FlagMinimumBreaks
    <3>2. counts[pos] \in Nat
      <4>1. IsFiniteSet({p \in squad : Position[p] = pos})
        BY <1>1, PageTypes, FS_Subset
      <4> QED BY <4>1, FS_CardinalityType DEF PositionCounts
    <3>3. after[pos] \in Int
      BY <3>2 DEF CountsAfter
    <3> DEFINE gap == [position |-> pos, short |-> MINIMUM_BY_POSITION[pos] - after[pos]]
    <3>4. gap \in Shortfalls(after)
      BY <3>1 DEF Shortfalls
    <3> HIDE DEF after, counts
    <3>5. gap \notin Shortfalls(counts)
      <4> SUFFICES ASSUME gap \in Shortfalls(counts) PROVE FALSE
        OBVIOUS
      <4>1. PICK q \in Positions :
              gap = [position |-> q, short |-> MINIMUM_BY_POSITION[q] - counts[q]]
        BY DEF Shortfalls
      <4>2. q = pos /\ MINIMUM_BY_POSITION[pos] - after[pos] = MINIMUM_BY_POSITION[q] - counts[q]
        BY <4>1
      <4> QED BY <2>1, <3>1, <3>2, <3>3, <4>2
    <3> QED BY <2>3, <2>4, <3>4, <3>5
  <2>7. dialog.can_buy_trade = page.can_buy_trade
    BY <2>3, NoteIsNone
  <2> QED BY <2>5, <2>6, <2>7 DEF dialog
<1> QED BY <1>1, PagesHold, PTL

(***************************************************************************)
(* For every calendar the administrator may save: a page never gives a     *)
(* reason that is not so, counts down to no moment gone by, and announces  *)
(* as the next grant none that was paid, nor one that an unpaid grant      *)
(* comes before (trade_unavailable_reason, market_closed_reason and        *)
(* next_trade_grant of the season).                                        *)
(***************************************************************************)
THEOREM ThePagesGiveTrueReasons == Spec => []ReasonsAreTrue
<1>1. ASSUME RosterInv, PagesInv PROVE ReasonsAreTrue
  <2> DEFINE page == BuildContext(trades_available)
             note == IF TradeUnavailableReason = "none"
                     THEN TradeMarketClosedReason ELSE TradeUnavailableReason
  <2>1. /\ page.trade_market_note = note /\ page.deadline = SigningsDeadline
        /\ page.next_trade_grant = NextTradeGrant
    BY DEF BuildContext
  <2>2. now \in Nat /\ log \in Seq(Row) /\ Stamped(log, now) /\ PaidWhenDue(log)
    BY <1>1 DEF RosterInv, TypeOK, RequestsInOrder, HistoryInOrder, PagesInv
  <2> HIDE DEF page
  <2>3. (CASE page.trade_market_note = "season ended"        -> now > SeasonCloseAt
           [] page.trade_market_note = "season not started"  -> now < SeasonOpenAt
           [] page.trade_market_note = "market not open yet" -> TradeMarketOpensAt > now
           [] page.trade_market_note = "market closed"       ->
                Given(TradeMarketClosesAt) /\ TradeMarketClosesAt <= now
           [] OTHER                                          -> TradeMarketOpen(now))
    <3>1. CASE ~TradingAllowed(now)
      <4>1. note = IF now < SeasonOpenAt THEN "season not started" ELSE "season ended"
        BY <3>1 DEF TradeUnavailableReason
      <4>2. now < SeasonOpenAt \/ now > SeasonCloseAt
        BY <2>2, <3>1, CalendarType DEF TradingAllowed
      <4> QED BY <2>1, <4>1, <4>2
    <3>2. CASE TradingAllowed(now) /\ TradeMarketOpen(now)
      <4>1. note = "none"
        BY <3>2 DEF TradeUnavailableReason, TradeMarketClosedReason
      <4> QED BY <2>1, <3>2, <4>1
    <3>3. CASE TradingAllowed(now) /\ ~TradeMarketOpen(now)
      <4>1. note = IF Given(TradeMarketOpensAt) /\ now < TradeMarketOpensAt
                   THEN "market not open yet" ELSE "market closed"
        BY <3>3 DEF TradeUnavailableReason, TradeMarketClosedReason
      <4>2. CASE Given(TradeMarketOpensAt) /\ now < TradeMarketOpensAt
        <5>1. TradeMarketOpensAt > now
          BY <2>2, <4>2, CalendarType DEF Given, OptionalDate
        <5> QED BY <2>1, <4>1, <4>2, <5>1
      <4>3. CASE ~(Given(TradeMarketOpensAt) /\ now < TradeMarketOpensAt)
        <5>1. Given(TradeMarketOpensAt) => now >= TradeMarketOpensAt
          BY <2>2, <4>3, CalendarType DEF Given, OptionalDate
        <5>2. Given(TradeMarketClosesAt) /\ TradeMarketClosesAt <= now
          BY <2>2, <3>3, <5>1, CalendarType DEF TradeMarketOpen, Given, OptionalDate
        <5> QED BY <2>1, <4>1, <4>3, <5>2
      <4> QED BY <4>2, <4>3
    <3> QED BY <3>1, <3>2, <3>3
  <2>4. page.deadline # NoDate => page.deadline > now
    <3>1. SigningsDeadline # NoDate => SigningsDeadline > now
      BY <2>2, CalendarType DEF SigningsDeadline, Given, OptionalDate, TransactionsAllowed
    <3> QED BY <2>1, <3>1
  <2>5. ASSUME NEW due \in NextTradeGrant
        PROVE  /\ due.key \notin PaidKeys(log)
               /\ \A other \in UnpaidGrants(log, SeasonCloseAt) :
                    other.granted_at <= now \/ other.granted_at >= due.granted_at
    <3>1. LiveGrants \in SUBSET GrantIds
      BY DEF LiveGrants
    <3>2. /\ due \in Schedule /\ due.granted_at > now
          /\ \A other \in Schedule : other.granted_at > now => due.granted_at <= other.granted_at
      BY <2>5 DEF NextTradeGrant
    <3>3. \A d \in Schedule : d.granted_at = MomentOf(d.key) /\ d.granted_at \in Nat
      <4> SUFFICES ASSUME NEW d \in Schedule
                   PROVE  d.granted_at = MomentOf(d.key) /\ d.granted_at \in Nat
        OBVIOUS
      <4>1. PICK until \in {SeasonCloseAt} \union {GrantedAt[id] : id \in GrantIds} :
              d \in TradeGrantSchedule(LiveGrants, until)
        BY DEF Schedule
      <4>2. until \in Nat
        BY <4>1, CalendarType
      <4> QED BY <3>1, <4>1, <4>2, ScheduledMoments
    <3>4. ASSUME due.key \in PaidKeys(log) PROVE FALSE
      <4>1. PICK i \in 1..Len(log) : log[i].kind = "GRANT_TRADE" /\ log[i].grant_key = due.key
        BY <3>4 DEF PaidKeys
      <4>2. log[i].occurred_at = due.granted_at /\ log[i].occurred_at <= now
        BY <2>2, <3>2, <3>3, <4>1 DEF PaidWhenDue, Stamped
      <4> QED BY <2>2, <3>2, <3>3, <4>2
    <3>5. ASSUME NEW other \in UnpaidGrants(log, SeasonCloseAt)
          PROVE  other.granted_at <= now \/ other.granted_at >= due.granted_at
      <4>1. other \in Schedule
        BY <3>5 DEF Schedule, UnpaidGrants
      <4>2. other.granted_at \in Nat /\ due.granted_at \in Nat
        BY <3>2, <3>3, <4>1
      <4> QED BY <2>2, <3>2, <4>1, <4>2
    <3> QED BY <3>4, <3>5
  <2> QED BY <2>1, <2>3, <2>4, <2>5 DEF ReasonsAreTrue, page
<1> QED BY <1>1, PagesHold, PTL

-----------------------------------------------------------------------------
(* The chart of a roster *)

CONSTANTS None, Seasons, ROSTER_SIZE, TotalFp
VARIABLES calendar, spells, trades

Chart == INSTANCE Timeline WITH season <- calendar

SpellRow == [player : Players, added_at : Nat, removed_at : Nat \union {None}]
TradeRow == [player_out : Players, player_in : Players, occurred_at : Nat]

\* One spell is opened at a time, and one closed; a player's spells do not touch.
SpellsUpTo(rows, a, t) ==
  /\ rows \in Seq(SpellRow)
  /\ \A i \in DOMAIN rows :
       /\ rows[i].added_at <= a
       /\ rows[i].removed_at # None => rows[i].added_at < rows[i].removed_at /\ rows[i].removed_at <= t
  /\ \A i, j \in DOMAIN rows : i < j =>
       /\ rows[i].added_at < rows[j].added_at
       /\ rows[i].player = rows[j].player =>
            rows[i].removed_at # None /\ rows[i].removed_at < rows[j].added_at
  /\ \A i, j \in DOMAIN rows : rows[i].removed_at # None /\ rows[i].removed_at = rows[j].removed_at => i = j

\* Who was on the roster.
Holding(rows, m) ==
  {i \in DOMAIN rows : rows[i].added_at <= m /\ (rows[i].removed_at = None \/ m < rows[i].removed_at)}

OnRoster(rows, m) == {rows[i].player : i \in Holding(rows, m)}

AtMost(players) == IsFiniteSet(players) /\ Cardinality(players) <= ROSTER_SIZE

LeftBy(n, i) == spells[i].player = trades[n].player_out /\ spells[i].removed_at = trades[n].occurred_at
CameBy(n, i) == spells[i].player = trades[n].player_in /\ spells[i].added_at = trades[n].occurred_at

TradesTold ==
  /\ trades \in Seq(TradeRow)
  /\ \A n \in DOMAIN trades : /\ trades[n].occurred_at <= now
                              /\ \E i \in DOMAIN spells : LeftBy(n, i)
                              /\ \E i \in DOMAIN spells : CameBy(n, i)
  /\ \A m, n \in DOMAIN trades : m < n => trades[m].occurred_at < trades[n].occurred_at

ChartInv ==
  /\ now \in Nat /\ calendar \in Seasons
  /\ SpellsUpTo(spells, now, now)
  /\ \A m \in Nat : AtMost(OnRoster(spells, m))
  /\ TradesTold

\* The library's Cardinality is the one the theorems on finite sets are about.
LEMMA ChartCounts == \A S : Chart!Cardinality(S) = Cardinality(S)
BY Zenon DEF Chart!Cardinality, Cardinality, Chart!IsFiniteSet, IsFiniteSet

\* The types of what is stored.
LEMMA ChartTypes ==
  ASSUME Chart!TimelineConstants, ChartInv
  PROVE  /\ Chart!cutoff \in Nat /\ now \in Nat /\ None \notin Int /\ ROSTER_SIZE \in Nat
         /\ Len(spells) \in Nat /\ DOMAIN spells = 1..Len(spells)
         /\ Len(trades) \in Nat /\ DOMAIN trades = 1..Len(trades)
         /\ \A i \in DOMAIN spells : /\ spells[i].player \in Players
                                     /\ spells[i].added_at \in Nat /\ spells[i].added_at <= now
                                     /\ spells[i].removed_at \in Nat \union {None}
         /\ \A n \in DOMAIN trades : trades[n].occurred_at \in Nat /\ trades[n].occurred_at <= now
<1>1. /\ Len(spells) \in Nat /\ DOMAIN spells = 1..Len(spells)
      /\ Len(trades) \in Nat /\ DOMAIN trades = 1..Len(trades)
      /\ \A i \in DOMAIN spells : spells[i] \in SpellRow /\ spells[i].added_at <= now
      /\ \A n \in DOMAIN trades : trades[n] \in TradeRow /\ trades[n].occurred_at <= now
  BY DEF ChartInv, SpellsUpTo, TradesTold
<1>2. Chart!cutoff \in Nat
  <2>1. calendar \in [signings_close_at : Nat \union {None}, season_open_at : Nat]
    BY DEF ChartInv, Chart!TimelineConstants
  <2> QED BY <2>1 DEF Chart!cutoff
<1> QED BY <1>1, <1>2 DEF ChartInv, Chart!TimelineConstants, SpellRow, TradeRow

\* Later bounds.
LEMMA SpellsWait ==
  ASSUME NEW rows, NEW a \in Nat, NEW t \in Nat, NEW b \in Nat, NEW u \in Nat, a <= b, t <= u,
         SpellsUpTo(rows, a, t), None \notin Int
  PROVE  SpellsUpTo(rows, b, u)
<1>1. rows \in Seq(SpellRow)
  BY DEF SpellsUpTo
<1>2. ASSUME NEW i \in DOMAIN rows
      PROVE  /\ rows[i].added_at <= b
             /\ rows[i].removed_at # None => rows[i].added_at < rows[i].removed_at /\ rows[i].removed_at <= u
  <2>1. rows[i] \in SpellRow
    BY <1>1
  <2>2. rows[i].added_at \in Nat /\ rows[i].removed_at \in Nat \union {None}
    BY <2>1 DEF SpellRow
  <2> QED BY <2>2 DEF SpellsUpTo
<1> QED BY <1>1, <1>2 DEF SpellsUpTo

ClosedIn(rows, p, t) ==
  [i \in DOMAIN rows |-> IF rows[i].player = p /\ rows[i].removed_at = None
                         THEN [rows[i] EXCEPT !.removed_at = t] ELSE rows[i]]

\* A player leaves.
LEMMA ClosingKeeps ==
  ASSUME None \notin Int, NEW t \in Nat, NEW rows, SpellsUpTo(rows, t, t), NEW p \in Players
  PROVE  /\ SpellsUpTo(ClosedIn(rows, p, t + 1), t, t + 1)
         /\ \A m \in Nat : m <= t => OnRoster(ClosedIn(rows, p, t + 1), m) = OnRoster(rows, m)
         /\ \A m \in Nat : t < m => OnRoster(ClosedIn(rows, p, t + 1), m) = OnRoster(rows, t) \ {p}
         /\ \A i \in DOMAIN rows : rows[i].player = p /\ rows[i].removed_at = None =>
              ClosedIn(rows, p, t + 1)[i].removed_at = t + 1
         /\ \A i \in DOMAIN rows : /\ ClosedIn(rows, p, t + 1)[i].player = rows[i].player
                                   /\ ClosedIn(rows, p, t + 1)[i].added_at = rows[i].added_at
                                   /\ rows[i].removed_at # None =>
                                        ClosedIn(rows, p, t + 1)[i].removed_at = rows[i].removed_at
         /\ DOMAIN ClosedIn(rows, p, t + 1) = DOMAIN rows
<1> DEFINE closed == ClosedIn(rows, p, t + 1)
<1>1. rows \in Seq(SpellRow) /\ DOMAIN closed = DOMAIN rows
  BY DEF SpellsUpTo, ClosedIn
<1>2. ASSUME NEW i \in DOMAIN rows
      PROVE  /\ rows[i] \in SpellRow /\ closed[i] \in SpellRow
             /\ rows[i].added_at \in Nat /\ rows[i].removed_at \in Nat \union {None}
             /\ closed[i].player = rows[i].player /\ closed[i].added_at = rows[i].added_at
             /\ closed[i].removed_at =
                  IF rows[i].player = p /\ rows[i].removed_at = None THEN t + 1 ELSE rows[i].removed_at
  <2>1. rows[i] \in SpellRow
    BY <1>1
  <2>2. closed[i] = IF rows[i].player = p /\ rows[i].removed_at = None
                    THEN [rows[i] EXCEPT !.removed_at = t + 1] ELSE rows[i]
    BY DEF ClosedIn
  <2> HIDE DEF closed
  <2>3. CASE rows[i].player = p /\ rows[i].removed_at = None
    <3>1. closed[i] = [rows[i] EXCEPT !.removed_at = t + 1]
      BY <2>2, <2>3
    <3> QED BY <2>1, <2>3, <3>1 DEF SpellRow
  <2>4. CASE ~(rows[i].player = p /\ rows[i].removed_at = None)
    BY <2>1, <2>2, <2>4 DEF SpellRow
  <2> QED BY <2>3, <2>4
<1>3. closed \in Seq(SpellRow)
  <2>1. closed \in [1..Len(rows) -> SpellRow] /\ Len(rows) \in Nat
    <3>1. closed = [i \in DOMAIN rows |-> closed[i]] /\ DOMAIN rows = 1..Len(rows) /\ Len(rows) \in Nat
      BY <1>1 DEF ClosedIn
    <3> HIDE DEF closed
    <3> QED BY <1>2, <3>1
  <2> HIDE DEF closed
  <2> QED BY <2>1
<1>a. None \notin Nat /\ t + 1 \in Nat /\ t + 1 # None
  OBVIOUS
<1> HIDE DEF closed
<1>4. ASSUME NEW i \in DOMAIN rows
      PROVE  /\ rows[i].added_at <= t
             /\ rows[i].removed_at # None => rows[i].added_at < rows[i].removed_at /\ rows[i].removed_at <= t
             /\ closed[i].removed_at # None =>
                  closed[i].added_at < closed[i].removed_at /\ closed[i].removed_at <= t + 1
  <2>1. /\ rows[i].added_at <= t
        /\ rows[i].removed_at # None => rows[i].added_at < rows[i].removed_at /\ rows[i].removed_at <= t
    BY DEF SpellsUpTo
  <2> QED BY <1>2, <1>a, <2>1
<1>5. ASSUME NEW i \in DOMAIN rows, NEW j \in DOMAIN rows, i < j
      PROVE  /\ closed[i].added_at < closed[j].added_at
             /\ closed[i].player = closed[j].player =>
                  closed[i].removed_at # None /\ closed[i].removed_at < closed[j].added_at
  <2>1. /\ rows[i].added_at < rows[j].added_at
        /\ rows[i].player = rows[j].player =>
             rows[i].removed_at # None /\ rows[i].removed_at < rows[j].added_at
    BY <1>5 DEF SpellsUpTo
  <2> QED BY <1>2, <2>1
<1>6. ASSUME NEW i \in DOMAIN rows, NEW j \in DOMAIN rows, closed[i].removed_at # None,
             closed[i].removed_at = closed[j].removed_at
      PROVE  i = j
  <2> DEFINE Leaves(k) == rows[k].player = p /\ rows[k].removed_at = None
  <2>0. DOMAIN rows \subseteq Nat
    BY <1>1
  <2>1. CASE Leaves(i) /\ Leaves(j)
    <3>1. ~(i < j) /\ ~(j < i)
      BY <2>1 DEF SpellsUpTo
    <3> QED BY <2>0, <3>1
  <2>2. CASE ~Leaves(i) /\ ~Leaves(j)
    <3>1. rows[i].removed_at # None /\ rows[i].removed_at = rows[j].removed_at
      BY <1>2, <1>6, <2>2
    <3> QED BY <3>1 DEF SpellsUpTo
  <2>3. CASE Leaves(i) /\ ~Leaves(j)
    <3>1. closed[i].removed_at = t + 1 /\ closed[j].removed_at = rows[j].removed_at
      BY <1>2, <2>3
    <3>2. rows[j].removed_at # None
      BY <1>6, <1>a, <3>1
    <3>3. rows[j].removed_at = t + 1
      BY <1>6, <3>1
    <3>4. rows[j].removed_at <= t
      BY <1>4, <3>2
    <3> QED BY <3>3, <3>4
  <2>4. CASE ~Leaves(i) /\ Leaves(j)
    <3>1. closed[j].removed_at = t + 1 /\ closed[i].removed_at = rows[i].removed_at
      BY <1>2, <2>4
    <3> QED BY <1>2, <1>4, <1>6, <3>1
  <2> QED BY <2>1, <2>2, <2>3, <2>4
<1>7. SpellsUpTo(closed, t, t + 1)
  <2>1. \A i \in DOMAIN closed : closed[i].added_at <= t
    BY <1>1, <1>2, <1>4
  <2> QED BY <1>1, <1>3, <1>4, <1>5, <1>6, <2>1 DEF SpellsUpTo
<1>8. ASSUME NEW m \in Nat, m <= t PROVE OnRoster(closed, m) = OnRoster(rows, m)
  <2>1. ASSUME NEW i \in DOMAIN rows PROVE i \in Holding(closed, m) <=> i \in Holding(rows, m)
    BY <1>1, <1>2, <1>8, <1>a DEF Holding
  <2>2. Holding(closed, m) = Holding(rows, m) /\ Holding(rows, m) \subseteq DOMAIN rows
    BY <1>1, <2>1 DEF Holding
  <2> QED BY <1>2, <2>2 DEF OnRoster
<1>9. ASSUME NEW m \in Nat, t < m PROVE OnRoster(closed, m) = OnRoster(rows, t) \ {p}
  <2>1. ASSUME NEW i \in DOMAIN rows
        PROVE  i \in Holding(closed, m) <=> i \in Holding(rows, t) /\ rows[i].player # p
    <3>1. i \in Holding(rows, t) <=> rows[i].removed_at = None
      BY <1>2, <1>4 DEF Holding
    <3>2. i \in Holding(closed, m) <=> closed[i].removed_at = None
      BY <1>1, <1>2, <1>4, <1>9, <1>a DEF Holding
    <3> QED BY <1>2, <1>a, <3>1, <3>2
  <2>2. Holding(closed, m) \subseteq DOMAIN rows /\ Holding(rows, t) \subseteq DOMAIN rows
    BY <1>1 DEF Holding
  <2> QED BY <1>2, <2>1, <2>2 DEF OnRoster
<1> QED BY <1>1, <1>2, <1>7, <1>8, <1>9 DEF closed

\* A player is away, and arrives.
Away(rows, p, t) ==
  \A i \in DOMAIN rows : rows[i].player = p => rows[i].removed_at # None /\ rows[i].removed_at <= t

Opens(opened, rows, p, t) ==
  /\ SpellsUpTo(opened, t, t)
  /\ \A m \in Nat : m < t => OnRoster(opened, m) = OnRoster(rows, m)
  /\ \A m \in Nat : t <= m => OnRoster(opened, m) = OnRoster(rows, m) \union {p}
  /\ Len(opened) = Len(rows) + 1 /\ \A i \in DOMAIN rows : opened[i] = rows[i]
  /\ opened[Len(rows) + 1] = [player |-> p, added_at |-> t, removed_at |-> None]

\* Who arrives is on the roster from that moment on, and nothing else changes.
LEMMA OpeningKeeps ==
  ASSUME None \notin Int, NEW t \in Nat, NEW rows, SpellsUpTo(rows, t, t + 1), NEW p \in Players,
         Away(rows, p, t)
  PROVE  Opens(Append(rows, Chart!Opened(p, t + 1)), rows, p, t + 1)
<1> DEFINE row == Chart!Opened(p, t + 1)
           opened == Append(rows, row)
           L == Len(rows)
<1>1. rows \in Seq(SpellRow) /\ row \in SpellRow /\ L \in Nat /\ DOMAIN rows = 1..L
      /\ row = [player |-> p, added_at |-> t + 1, removed_at |-> None]
  BY DEF SpellsUpTo, Chart!Opened, SpellRow
<1> HIDE DEF row
<1>2. /\ opened \in Seq(SpellRow) /\ Len(opened) = L + 1 /\ DOMAIN opened = 1..(L + 1)
      /\ \A i \in 1..L : opened[i] = rows[i]
      /\ opened[L + 1] = row
  BY <1>1, AppendProperties
<1>3. row.player = p /\ row.added_at = t + 1 /\ row.removed_at = None
  BY <1>1
<1>4. ASSUME NEW i \in 1..L
      PROVE  /\ rows[i] \in SpellRow /\ rows[i].added_at \in Nat /\ rows[i].removed_at \in Nat \union {None}
             /\ rows[i].added_at <= t
             /\ rows[i].removed_at # None => rows[i].added_at < rows[i].removed_at /\ rows[i].removed_at <= t + 1
             /\ rows[i].player = p => rows[i].removed_at # None /\ rows[i].removed_at <= t
  <2>1. rows[i] \in SpellRow
    BY <1>1
  <2>2. rows[i].added_at \in Nat /\ rows[i].removed_at \in Nat \union {None}
    BY <2>1 DEF SpellRow
  <2> QED BY <1>1, <2>1, <2>2 DEF SpellsUpTo, Away
<1> HIDE DEF opened, L
<1>5. \A i \in 1..(L + 1) : i \in 1..L \/ i = L + 1
  BY <1>1
<1>6. ASSUME NEW i \in 1..(L + 1)
      PROVE  /\ opened[i].added_at <= t + 1
             /\ opened[i].removed_at # None =>
                  opened[i].added_at < opened[i].removed_at /\ opened[i].removed_at <= t + 1
  <2>1. CASE i \in 1..L
    BY <1>2, <1>4, <2>1
  <2>2. CASE i = L + 1
    BY <1>2, <1>3, <2>2
  <2> QED BY <1>5, <2>1, <2>2
<1>7. ASSUME NEW i \in 1..(L + 1), NEW j \in 1..(L + 1), i < j
      PROVE  /\ opened[i].added_at < opened[j].added_at
             /\ opened[i].player = opened[j].player =>
                  opened[i].removed_at # None /\ opened[i].removed_at < opened[j].added_at
  <2>1. i \in 1..L
    BY <1>1, <1>7
  <2>2. CASE j \in 1..L
    BY <1>1, <1>2, <1>7, <2>1, <2>2 DEF SpellsUpTo
  <2>3. CASE j = L + 1
    BY <1>2, <1>3, <1>4, <2>1, <2>3
  <2> QED BY <1>5, <2>2, <2>3
<1>8. ASSUME NEW i \in 1..(L + 1), NEW j \in 1..(L + 1), opened[i].removed_at # None,
             opened[i].removed_at = opened[j].removed_at
      PROVE  i = j
  <2>1. i \in 1..L /\ j \in 1..L
    BY <1>2, <1>3, <1>5, <1>8
  <2> QED BY <1>1, <1>2, <1>8, <2>1 DEF SpellsUpTo
<1>9. SpellsUpTo(opened, t + 1, t + 1)
  BY <1>2, <1>6, <1>7, <1>8 DEF SpellsUpTo
<1>10. ASSUME NEW m \in Nat, m <= t PROVE OnRoster(opened, m) = OnRoster(rows, m)
  <2>1. ASSUME NEW i \in 1..L PROVE i \in Holding(opened, m) <=> i \in Holding(rows, m)
    BY <1>1, <1>2, <2>1 DEF Holding
  <2>2. L + 1 \notin Holding(opened, m)
    BY <1>2, <1>3, <1>10 DEF Holding
  <2>3. Holding(opened, m) = Holding(rows, m) /\ Holding(rows, m) \subseteq 1..L
    BY <1>1, <1>2, <1>5, <2>1, <2>2 DEF Holding
  <2> QED BY <1>2, <2>3 DEF OnRoster
<1>11. ASSUME NEW m \in Nat, t < m PROVE OnRoster(opened, m) = OnRoster(rows, m) \union {p}
  <2>1. ASSUME NEW i \in 1..L PROVE i \in Holding(opened, m) <=> i \in Holding(rows, m)
    BY <1>1, <1>2, <2>1 DEF Holding
  <2>2. L + 1 \in Holding(opened, m)
    <3>1. L + 1 \in 1..(L + 1)
      BY <1>1
    <3> QED BY <1>2, <1>3, <1>11, <3>1 DEF Holding
  <2>3. Holding(opened, m) = Holding(rows, m) \union {L + 1} /\ Holding(rows, m) \subseteq 1..L
    BY <1>1, <1>2, <1>5, <2>1, <2>2 DEF Holding
  <2>4. OnRoster(opened, m) = {opened[i].player : i \in Holding(rows, m)} \union {opened[L + 1].player}
    BY <2>3 DEF OnRoster
  <2>5. \A i \in Holding(rows, m) : opened[i].player = rows[i].player
    BY <1>2, <2>3
  <2>6. {opened[i].player : i \in Holding(rows, m)} = OnRoster(rows, m)
    BY <2>5 DEF OnRoster
  <2>7. opened[L + 1].player = p
    BY <1>2, <1>3
  <2> QED BY <2>4, <2>6, <2>7
<1>12. /\ \A m \in Nat : m < t + 1 => OnRoster(opened, m) = OnRoster(rows, m)
       /\ \A m \in Nat : t + 1 <= m => OnRoster(opened, m) = OnRoster(rows, m) \union {p}
  <2>1. \A m \in Nat : (m < t + 1 => m <= t) /\ (t + 1 <= m => t < m)
    OBVIOUS
  <2> QED BY <1>10, <1>11, <2>1
<1>13. Len(opened) = Len(rows) + 1 /\ (\A i \in DOMAIN rows : opened[i] = rows[i])
       /\ opened[Len(rows) + 1] = [player |-> p, added_at |-> t + 1, removed_at |-> None]
  BY <1>1, <1>2 DEF L
<1>14. Opens(opened, rows, p, t + 1)
  BY <1>9, <1>12, <1>13 DEF Opens
<1> QED BY <1>14 DEF opened, row

\* The squad is who is on the roster now.
LEMMA TheSquad ==
  ASSUME Chart!TimelineConstants, ChartInv
  PROVE  /\ Chart!Squad = OnRoster(spells, now)
         /\ \A m \in Nat : now <= m => OnRoster(spells, m) = OnRoster(spells, now)
         /\ \A i \in DOMAIN spells : spells[i].removed_at = None => spells[i].player \in Chart!Squad
<1>1. \A i \in DOMAIN spells :
        /\ spells[i].added_at \in Nat /\ spells[i].removed_at \in Nat \union {None}
        /\ spells[i].added_at <= now
        /\ spells[i].removed_at # None => spells[i].removed_at <= now
  BY ChartTypes DEF ChartInv, SpellsUpTo
<1>2. now \in Nat /\ None \notin Nat
  BY DEF ChartInv, Chart!TimelineConstants
<1>3. ASSUME NEW m \in Nat, now <= m
      PROVE  Holding(spells, m) = {i \in DOMAIN spells : spells[i].removed_at = None}
  BY <1>1, <1>2, <1>3 DEF Holding
<1>4. OnRoster(spells, now) = {spells[i].player : i \in {j \in DOMAIN spells : spells[j].removed_at = None}}
  BY <1>2, <1>3 DEF OnRoster
<1>5. Chart!Squad = OnRoster(spells, now)
  BY <1>4 DEF Chart!Squad, Chart!IsOpen
<1>6. \A m \in Nat : now <= m => OnRoster(spells, m) = OnRoster(spells, now)
  BY <1>2, <1>3 DEF OnRoster
<1> QED BY <1>4, <1>5, <1>6


\* No spell, no trade.
LEMMA ChartInit == Chart!TimelineConstants /\ Chart!Init => ChartInv
<1> SUFFICES ASSUME Chart!TimelineConstants, Chart!Init PROVE ChartInv
  OBVIOUS
<1>1. now = 0 /\ calendar \in Seasons /\ spells = <<>> /\ trades = <<>>
  BY DEF Chart!Init
<1>2. DOMAIN spells = {} /\ DOMAIN trades = {}
  BY <1>1
<1>3. SpellsUpTo(spells, now, now) /\ TradesTold
  BY <1>1, <1>2 DEF SpellsUpTo, TradesTold
<1>4. \A m \in Nat : OnRoster(spells, m) = {}
  BY <1>2 DEF OnRoster, Holding
<1>5. AtMost({})
  BY FS_EmptySet DEF AtMost, Chart!TimelineConstants
<1> QED BY <1>1, <1>3, <1>4, <1>5 DEF ChartInv

\* Nothing changes but the clock.
LEMMA ChartWaits ==
  ASSUME Chart!TimelineConstants, ChartInv, now' = now + 1, UNCHANGED <<calendar, spells, trades>>
  PROVE  ChartInv'
<1>1. now \in Nat /\ now' \in Nat /\ now <= now' /\ None \notin Int
  BY DEF ChartInv, Chart!TimelineConstants
<1>2. SpellsUpTo(spells, now', now')
  BY <1>1, SpellsWait DEF ChartInv
<1>3. TradesTold'
  <2>1. \A n \in DOMAIN trades : trades[n].occurred_at \in Nat
    BY ChartTypes
  <2> QED BY <1>1, <2>1 DEF ChartInv, TradesTold, LeftBy, CameBy
<1>4. SpellsUpTo(spells, now, now)'
  BY <1>2 DEF SpellsUpTo
<1>5. (\A m \in Nat : AtMost(OnRoster(spells, m)))'
  <2>1. (\A m \in Nat : AtMost(OnRoster(spells, m)))' = (\A m \in Nat : AtMost(OnRoster(spells, m)))
    BY DEF AtMost, OnRoster, Holding
  <2> QED BY <2>1 DEF ChartInv
<1> QED BY <1>1, <1>3, <1>4, <1>5 DEF ChartInv

\* What a step does to the spells keeps what the trades before it tell.
LEMMA ToldBefore ==
  ASSUME Chart!TimelineConstants, ChartInv, now' = now + 1, spells' \in Seq(SpellRow),
         DOMAIN spells \subseteq DOMAIN spells',
         \A i \in DOMAIN spells :
           /\ spells'[i].player = spells[i].player /\ spells'[i].added_at = spells[i].added_at
           /\ spells[i].removed_at # None => spells'[i].removed_at = spells[i].removed_at,
         NEW n \in DOMAIN trades, trades' \in Seq(TradeRow), n \in DOMAIN trades', trades'[n] = trades[n]
  PROVE  /\ trades'[n].occurred_at <= now'
         /\ \E i \in DOMAIN spells' : LeftBy(n, i)'
         /\ \E i \in DOMAIN spells' : CameBy(n, i)'
<1>1. now \in Nat /\ None \notin Nat
  BY DEF ChartInv, Chart!TimelineConstants
<1>2. trades[n].occurred_at \in Nat /\ trades[n].occurred_at <= now
  BY ChartTypes
<1>3. PICK i \in DOMAIN spells : LeftBy(n, i)
  BY DEF ChartInv, TradesTold
<1>4. PICK j \in DOMAIN spells : CameBy(n, j)
  BY DEF ChartInv, TradesTold
<1>5. spells[i].removed_at # None
  BY <1>1, <1>2, <1>3 DEF LeftBy
<1>6. i \in DOMAIN spells' /\ j \in DOMAIN spells' /\ LeftBy(n, i)' /\ CameBy(n, j)'
  BY <1>3, <1>4, <1>5 DEF LeftBy, CameBy
<1> QED BY <1>1, <1>2, <1>6

\* The write layer's closing is the one the lemmas speak of.
LEMMA ClosedIs == \A p, t : Chart!Closed(p, t) = ClosedIn(spells, p, t)
BY DEF Chart!Closed, Chart!IsOpen, ClosedIn

\* A signing opens one spell, while there is a place.
LEMMA BuyKeepsChart ==
  ASSUME Chart!TimelineConstants, ChartInv, now' = now + 1, NEW p \in Players, Chart!Buy(p)
  PROVE  ChartInv'
<1> DEFINE members == OnRoster(spells, now)
<1>1. now \in Nat /\ now' \in Nat /\ None \notin Int /\ ROSTER_SIZE \in Nat /\ now \in Int
  BY DEF ChartInv, Chart!TimelineConstants
<1>2. /\ spells' = Append(spells, Chart!Opened(p, now + 1)) /\ calendar' = calendar /\ trades' = trades
      /\ p \notin members /\ Cardinality(members) < ROSTER_SIZE
  BY TheSquad, ChartCounts DEF Chart!Buy
<1>3. SpellsUpTo(spells, now, now + 1)
  BY <1>1, SpellsWait DEF ChartInv
<1>4. Away(spells, p, now)
  BY <1>2, TheSquad DEF ChartInv, SpellsUpTo, Away
<1>5. /\ SpellsUpTo(spells', now + 1, now + 1)
      /\ \A m \in Nat : m <= now => OnRoster(spells', m) = OnRoster(spells, m)
      /\ \A m \in Nat : now < m => OnRoster(spells', m) = OnRoster(spells, m) \union {p}
      /\ Len(spells') = Len(spells) + 1 /\ \A i \in DOMAIN spells : spells'[i] = spells[i]
  <2>1. SpellsUpTo(spells, now, now + 1) /\ Away(spells, p, now) /\ now \in Nat /\ None \notin Int
    BY <1>1, <1>3, <1>4
  <2>2. Opens(Append(spells, Chart!Opened(p, now + 1)), spells, p, now + 1)
    BY <2>1, OpeningKeeps
  <2>3. Opens(spells', spells, p, now + 1)
    BY <1>2, <2>2
  <2>4. \A m \in Nat : (m <= now => m < now + 1) /\ (now < m => now + 1 <= m)
    BY <1>1
  <2> QED BY <2>3, <2>4 DEF Opens
<1>6. spells' \in Seq(SpellRow) /\ spells \in Seq(SpellRow) /\ DOMAIN spells \subseteq DOMAIN spells'
  BY <1>5 DEF SpellsUpTo, ChartInv
<1>7. ASSUME NEW m \in Nat PROVE AtMost(OnRoster(spells', m))
  <2>1. CASE m <= now
    BY <1>5, <2>1 DEF ChartInv
  <2>2. CASE now < m
    <3>1. OnRoster(spells', m) = members \union {p} /\ IsFiniteSet(members)
      BY <1>1, <1>5, <2>2, TheSquad DEF ChartInv, AtMost
    <3>2. IsFiniteSet(members \union {p}) /\ Cardinality(members \union {p}) = Cardinality(members) + 1
          /\ Cardinality(members) \in Nat
      BY <1>2, <3>1, FS_AddElement, FS_CardinalityType
    <3>3. Cardinality(members \union {p}) <= ROSTER_SIZE
      BY <1>1, <1>2, <3>2
    <3> HIDE DEF members
    <3> QED BY <3>1, <3>2, <3>3 DEF AtMost
  <2> QED BY <1>1, <2>1, <2>2
<1>8. TradesTold'
  <2>1. trades \in Seq(TradeRow)
    BY DEF ChartInv, TradesTold
  <2>2. \A n \in DOMAIN trades :
          /\ trades'[n].occurred_at <= now'
          /\ \E i \in DOMAIN spells' : LeftBy(n, i)'
          /\ \E i \in DOMAIN spells' : CameBy(n, i)'
    BY <1>2, <1>5, <1>6, <2>1, ToldBefore
  <2> QED BY <1>2, <2>1, <2>2 DEF ChartInv, TradesTold
<1>9. SpellsUpTo(spells, now, now)' /\ (\A m \in Nat : AtMost(OnRoster(spells, m)))'
  BY <1>5, <1>7 DEF SpellsUpTo, AtMost, OnRoster, Holding
<1> QED BY <1>1, <1>2, <1>8, <1>9 DEF ChartInv

\* A release closes one spell.
LEMMA SellKeepsChart ==
  ASSUME Chart!TimelineConstants, ChartInv, now' = now + 1, NEW p \in Players, Chart!Sell(p)
  PROVE  ChartInv'
<1> DEFINE members == OnRoster(spells, now)
<1>1. now \in Nat /\ now' \in Nat /\ None \notin Int /\ ROSTER_SIZE \in Nat
  BY DEF ChartInv, Chart!TimelineConstants
<1>2. spells' = ClosedIn(spells, p, now + 1) /\ calendar' = calendar /\ trades' = trades
  BY ClosedIs DEF Chart!Sell
<1>3. SpellsUpTo(spells, now, now)
  BY DEF ChartInv
<1>4. /\ SpellsUpTo(spells', now, now + 1)
      /\ \A m \in Nat : m <= now => OnRoster(spells', m) = OnRoster(spells, m)
      /\ \A m \in Nat : now < m => OnRoster(spells', m) = members \ {p}
      /\ \A i \in DOMAIN spells : /\ spells'[i].player = spells[i].player
                                  /\ spells'[i].added_at = spells[i].added_at
                                  /\ spells[i].removed_at # None => spells'[i].removed_at = spells[i].removed_at
      /\ DOMAIN spells' = DOMAIN spells
  BY <1>1, <1>2, <1>3, ClosingKeeps
<1>5. spells' \in Seq(SpellRow) /\ SpellsUpTo(spells', now + 1, now + 1)
  <2>1. now + 1 \in Nat /\ now <= now + 1 /\ now + 1 <= now + 1
    BY <1>1
  <2>2. SpellsUpTo(spells', now + 1, now + 1)
    BY <1>1, <1>4, <2>1, SpellsWait
  <2> QED BY <2>2 DEF SpellsUpTo
<1>6. ASSUME NEW m \in Nat PROVE AtMost(OnRoster(spells', m))
  <2>1. CASE m <= now
    BY <1>4, <2>1 DEF ChartInv
  <2>2. CASE now < m
    <3>1. AtMost(members)
      BY DEF ChartInv
    <3>2. IsFiniteSet(members \ {p}) /\ Cardinality(members \ {p}) <= Cardinality(members)
          /\ Cardinality(members) \in Nat /\ Cardinality(members \ {p}) \in Nat
      BY <3>1, FS_Subset, FS_CardinalityType DEF AtMost
    <3> QED BY <1>1, <1>4, <2>2, <3>1, <3>2 DEF AtMost
  <2> QED BY <1>1, <2>1, <2>2
<1>7. TradesTold'
  <2>1. trades \in Seq(TradeRow)
    BY DEF ChartInv, TradesTold
  <2>2. \A n \in DOMAIN trades :
          /\ trades'[n].occurred_at <= now'
          /\ \E i \in DOMAIN spells' : LeftBy(n, i)'
          /\ \E i \in DOMAIN spells' : CameBy(n, i)'
    BY <1>2, <1>4, <1>5, <2>1, ToldBefore
  <2> QED BY <1>2, <2>1, <2>2 DEF ChartInv, TradesTold
<1>8. SpellsUpTo(spells, now, now)' /\ (\A m \in Nat : AtMost(OnRoster(spells, m)))'
  BY <1>5, <1>6 DEF SpellsUpTo, AtMost, OnRoster, Holding
<1> QED BY <1>1, <1>2, <1>7, <1>8 DEF ChartInv

\* A trade closes one spell and opens another: as many players as before.
LEMMA TradeKeepsChart ==
  ASSUME Chart!TimelineConstants, ChartInv, now' = now + 1, NEW out \in Players, NEW in \in Players,
         Chart!Trade(out, in)
  PROVE  ChartInv'
<1> DEFINE members == OnRoster(spells, now)
           closed == ClosedIn(spells, out, now + 1)
           trade == [player_out |-> out, player_in |-> in, occurred_at |-> now + 1]
<1>1. now \in Nat /\ now' \in Nat /\ None \notin Int /\ ROSTER_SIZE \in Nat /\ None \notin Nat
  BY DEF ChartInv, Chart!TimelineConstants
<1>2. /\ spells' = Append(closed, Chart!Opened(in, now + 1)) /\ calendar' = calendar
      /\ trades' = Append(trades, trade)
      /\ out \in members /\ in \notin members
  BY ClosedIs, TheSquad DEF Chart!Trade
<1>3. SpellsUpTo(spells, now, now)
  BY DEF ChartInv
<1>4. /\ SpellsUpTo(closed, now, now + 1)
      /\ \A m \in Nat : m <= now => OnRoster(closed, m) = OnRoster(spells, m)
      /\ \A m \in Nat : now < m => OnRoster(closed, m) = members \ {out}
      /\ \A i \in DOMAIN spells : spells[i].player = out /\ spells[i].removed_at = None =>
           closed[i].removed_at = now + 1
      /\ \A i \in DOMAIN spells : /\ closed[i].player = spells[i].player
                                  /\ closed[i].added_at = spells[i].added_at
                                  /\ spells[i].removed_at # None => closed[i].removed_at = spells[i].removed_at
      /\ DOMAIN closed = DOMAIN spells
  BY <1>1, <1>3, ClosingKeeps
<1> HIDE DEF closed
<1>5. Away(closed, in, now)
  <2> SUFFICES ASSUME NEW i \in DOMAIN spells, spells[i].player = in
               PROVE  closed[i].removed_at # None /\ closed[i].removed_at <= now
    BY <1>4 DEF Away
  <2>1. spells[i].removed_at # None /\ spells[i].removed_at <= now
    BY <1>2, <1>3, TheSquad DEF SpellsUpTo
  <2> QED BY <1>4, <2>1
<1>6. /\ SpellsUpTo(spells', now + 1, now + 1)
      /\ \A m \in Nat : m <= now => OnRoster(spells', m) = OnRoster(closed, m)
      /\ \A m \in Nat : now < m => OnRoster(spells', m) = OnRoster(closed, m) \union {in}
      /\ Len(spells') = Len(closed) + 1 /\ \A i \in DOMAIN closed : spells'[i] = closed[i]
      /\ spells'[Len(closed) + 1] = [player |-> in, added_at |-> now + 1, removed_at |-> None]
  <2>1. SpellsUpTo(closed, now, now + 1) /\ Away(closed, in, now) /\ now \in Nat /\ None \notin Int
    BY <1>1, <1>4, <1>5
  <2>2. Opens(Append(closed, Chart!Opened(in, now + 1)), closed, in, now + 1)
    BY <2>1, OpeningKeeps
  <2>3. Opens(spells', closed, in, now + 1)
    BY <1>2, <2>2
  <2>4. \A m \in Nat : (m <= now => m < now + 1) /\ (now < m => now + 1 <= m)
    BY <1>1
  <2> QED BY <2>3, <2>4 DEF Opens
<1>7. /\ spells' \in Seq(SpellRow) /\ closed \in Seq(SpellRow) /\ Len(closed) \in Nat
      /\ DOMAIN spells \subseteq DOMAIN spells' /\ Len(closed) + 1 \in DOMAIN spells'
  <2>1. spells' \in Seq(SpellRow) /\ closed \in Seq(SpellRow)
    BY <1>4, <1>6 DEF SpellsUpTo
  <2>2. DOMAIN closed = 1..Len(closed) /\ DOMAIN spells' = 1..(Len(closed) + 1) /\ Len(closed) \in Nat
    BY <1>6, <2>1
  <2> QED BY <1>4, <2>1, <2>2
<1>8. \A i \in DOMAIN spells :
        /\ spells'[i].player = spells[i].player /\ spells'[i].added_at = spells[i].added_at
        /\ spells[i].removed_at # None => spells'[i].removed_at = spells[i].removed_at
  BY <1>4, <1>6
<1>9. ASSUME NEW m \in Nat PROVE AtMost(OnRoster(spells', m))
  <2>1. CASE m <= now
    BY <1>4, <1>6, <2>1 DEF ChartInv
  <2>2. CASE now < m
    <3>1. OnRoster(spells', m) = (members \ {out}) \union {in} /\ IsFiniteSet(members)
          /\ Cardinality(members) <= ROSTER_SIZE
      BY <1>1, <1>4, <1>6, <2>2 DEF ChartInv, AtMost
    <3> DEFINE others == members \ {out}
    <3>2. IsFiniteSet(others) /\ Cardinality(others) = Cardinality(members) - 1 /\ Cardinality(members) \in Nat
      BY <1>2, <3>1, FS_RemoveElement, FS_CardinalityType
    <3>3. in \notin others
      BY <1>2
    <3> HIDE DEF others
    <3>4. IsFiniteSet(others \union {in}) /\ Cardinality(others \union {in}) = Cardinality(others) + 1
      BY <3>2, <3>3, FS_AddElement
    <3>5. OnRoster(spells', m) = others \union {in}
      BY <3>1 DEF others
    <3> QED BY <1>1, <3>1, <3>2, <3>4, <3>5 DEF AtMost
  <2> QED BY <1>1, <2>1, <2>2
<1>10. TradesTold'
  <2>1. trades \in Seq(TradeRow) /\ trade \in TradeRow
    BY <1>1 DEF ChartInv, TradesTold, TradeRow
  <2>2. /\ trades' \in Seq(TradeRow) /\ Len(trades') = Len(trades) + 1 /\ Len(trades) \in Nat
        /\ \A n \in DOMAIN trades : trades'[n] = trades[n]
        /\ trades'[Len(trades) + 1] = trade
        /\ DOMAIN trades = 1..Len(trades) /\ DOMAIN trades' = 1..(Len(trades) + 1)
    <3> HIDE DEF trade
    <3> QED BY <1>2, <2>1, AppendProperties
  <2>0. PICK L \in Nat : L = Len(trades)
    BY <2>2
  <2>a. PICK c \in Nat : c = Len(closed)
    BY <1>7
  <2>3. \A n \in DOMAIN trades :
          /\ trades'[n].occurred_at <= now'
          /\ \E i \in DOMAIN spells' : LeftBy(n, i)'
          /\ \E i \in DOMAIN spells' : CameBy(n, i)'
    <3>1. \A n \in DOMAIN trades : n \in DOMAIN trades'
      BY <2>2
    <3> QED BY <1>7, <1>8, <2>2, <3>1, ToldBefore
  <2>4. /\ trades'[L + 1].occurred_at <= now'
        /\ \E i \in DOMAIN spells' : LeftBy(L + 1, i)'
        /\ \E i \in DOMAIN spells' : CameBy(L + 1, i)'
    <3>1. PICK i \in DOMAIN spells : spells[i].player = out /\ spells[i].removed_at = None
      BY <1>2, TheSquad DEF Chart!Squad, Chart!IsOpen
    <3>2. spells'[i].player = out /\ spells'[i].removed_at = now + 1 /\ i \in DOMAIN spells'
      BY <1>4, <1>6, <1>7, <1>8, <3>1
    <3>3. LeftBy(L + 1, i)'
      BY <2>0, <2>2, <3>2 DEF LeftBy
    <3>4. CameBy(L + 1, c + 1)' /\ c + 1 \in DOMAIN spells'
      BY <1>6, <1>7, <2>0, <2>2, <2>a DEF CameBy
    <3>5. trades'[L + 1].occurred_at <= now'
      BY <1>1, <2>0, <2>2
    <3> QED BY <3>2, <3>3, <3>4, <3>5
  <2>5. ASSUME NEW m \in DOMAIN trades', NEW n \in DOMAIN trades', m < n
        PROVE  trades'[m].occurred_at < trades'[n].occurred_at
    <3>1. m \in DOMAIN trades /\ trades[m].occurred_at <= now /\ trades[m].occurred_at \in Nat
      BY <2>2, <2>5, ChartTypes
    <3>2. CASE n \in DOMAIN trades
      BY <2>2, <2>5, <3>1, <3>2 DEF ChartInv, TradesTold
    <3>3. CASE n = L + 1
      BY <1>1, <2>0, <2>2, <3>1, <3>3
    <3> QED BY <2>0, <2>2, <3>2, <3>3
  <2>6. \A n \in DOMAIN trades' : n \in DOMAIN trades \/ n = L + 1
    BY <2>0, <2>2
  <2> QED BY <2>2, <2>3, <2>4, <2>5, <2>6 DEF TradesTold
<1>11. SpellsUpTo(spells, now, now)' /\ (\A m \in Nat : AtMost(OnRoster(spells, m)))'
  BY <1>6, <1>9 DEF SpellsUpTo, AtMost, OnRoster, Holding
<1> QED BY <1>1, <1>2, <1>10, <1>11 DEF ChartInv

\* No move breaks the order of the spells.
LEMMA ChartStep ==
  ASSUME Chart!TimelineConstants, ChartInv, [Chart!Next]_(Chart!vars)
  PROVE  ChartInv'
<1>1. CASE UNCHANGED Chart!vars
  <2>1. now' = now /\ calendar' = calendar /\ spells' = spells /\ trades' = trades
    BY <1>1 DEF Chart!vars
  <2>2. SpellsUpTo(spells, now, now)' = SpellsUpTo(spells, now, now)
    BY <2>1 DEF SpellsUpTo
  <2>3. (\A m \in Nat : AtMost(OnRoster(spells, m)))' = (\A m \in Nat : AtMost(OnRoster(spells, m)))
    BY <2>1 DEF AtMost, OnRoster, Holding
  <2>4. TradesTold' = TradesTold
    BY <2>1 DEF TradesTold, LeftBy, CameBy
  <2> QED BY <2>1, <2>2, <2>3, <2>4 DEF ChartInv
<1>2. CASE Chart!Next
  BY <1>2, BuyKeepsChart, SellKeepsChart, TradeKeepsChart, ChartWaits DEF Chart!Next
<1> QED BY <1>1, <1>2

\* Spells follow one another, trades are told by the spells they ended and began, and
\* no more players are on the roster at any moment than it has places.
THEOREM ChartHolds == Chart!TimelineConstants => (Chart!Spec => []ChartInv)
<1> SUFFICES ASSUME Chart!TimelineConstants PROVE Chart!Spec => []ChartInv
  OBVIOUS
<1>1. Chart!Init => ChartInv
  BY ChartInit
<1>2. ChartInv /\ [Chart!Next]_(Chart!vars) => ChartInv'
  BY ChartStep
<1> QED BY <1>1, <1>2, PTL DEF Chart!Spec

-----------------------------------------------------------------------------
(* The chart: which spell a trade ended, and which it began *)

OutOf(n) == CHOOSE i \in DOMAIN spells : LeftBy(n, i)
InOf(n) == CHOOSE i \in DOMAIN spells : CameBy(n, i)

\* Where the spells begin and end, on the chart and on the roster.
LEMMA SpellFacts ==
  ASSUME Chart!TimelineConstants, ChartInv
  PROVE  /\ Chart!Stints \subseteq DOMAIN spells
         /\ \A i \in DOMAIN spells :
              /\ Chart!Start(i) \in Nat /\ spells[i].added_at <= Chart!Start(i)
              /\ Chart!cutoff <= Chart!Start(i)
              /\ Chart!Start(i) = spells[i].added_at \/ Chart!Start(i) = Chart!cutoff
              /\ spells[i].removed_at # None =>
                   spells[i].added_at < spells[i].removed_at /\ spells[i].removed_at <= now
         /\ \A i \in Chart!Stints : spells[i].removed_at # None => Chart!Start(i) < spells[i].removed_at
         /\ \A i \in DOMAIN spells : i \in Chart!Stints <=>
              spells[i].removed_at = None \/ Chart!cutoff < spells[i].removed_at
         /\ \A i, j \in DOMAIN spells : i < j =>
              spells[i].added_at < spells[j].added_at /\ Chart!Start(i) <= Chart!Start(j)
<1>1. \A i \in DOMAIN spells :
        Chart!Start(i) = IF spells[i].added_at < Chart!cutoff THEN Chart!cutoff ELSE spells[i].added_at
  BY DEF Chart!Start, Chart!Latest
<1>2. \A i \in DOMAIN spells : spells[i].removed_at # None =>
        spells[i].added_at < spells[i].removed_at /\ spells[i].removed_at <= now
  BY DEF ChartInv, SpellsUpTo
<1>3. Chart!Stints = {i \in DOMAIN spells : spells[i].removed_at = None \/ spells[i].removed_at > Chart!cutoff}
  BY DEF Chart!Stints, Chart!IsOpen
<1>4. \A i, j \in DOMAIN spells : i < j => spells[i].added_at < spells[j].added_at
  BY DEF ChartInv, SpellsUpTo
<1>5. /\ Chart!cutoff \in Nat
      /\ \A i \in DOMAIN spells : spells[i].added_at \in Nat /\ spells[i].removed_at \in Nat \union {None}
  BY ChartTypes
<1>6. \A i, j \in DOMAIN spells : i < j => Chart!Start(i) <= Chart!Start(j)
  BY <1>1, <1>4, <1>5
<1>7. \A i \in DOMAIN spells :
        /\ Chart!Start(i) \in Nat /\ spells[i].added_at <= Chart!Start(i)
        /\ Chart!cutoff <= Chart!Start(i)
        /\ Chart!Start(i) = spells[i].added_at \/ Chart!Start(i) = Chart!cutoff
  BY <1>1, <1>5
<1>8. \A i \in DOMAIN spells : i \in Chart!Stints <=>
        spells[i].removed_at = None \/ Chart!cutoff < spells[i].removed_at
  BY <1>3, <1>5
<1>9. ASSUME NEW i \in Chart!Stints, spells[i].removed_at # None
      PROVE  Chart!Start(i) < spells[i].removed_at
  <2>1. i \in DOMAIN spells /\ Chart!cutoff < spells[i].removed_at
    BY <1>3, <1>8, <1>9
  <2> QED BY <1>2, <1>7, <1>9, <2>1
<1> QED BY <1>2, <1>3, <1>4, <1>6, <1>7, <1>8, <1>9

\* A trade that is drawn has ended one spell and begun a later one; both are drawn.
LEMMA DrawnTrades ==
  ASSUME Chart!TimelineConstants, ChartInv, NEW n \in Chart!Drawn
  PROVE  /\ n \in DOMAIN trades /\ OutOf(n) \in Chart!Stints /\ InOf(n) \in Chart!Stints
         /\ OutOf(n) < InOf(n)
         /\ spells[OutOf(n)].player = trades[n].player_out /\ spells[InOf(n)].player = trades[n].player_in
         /\ spells[OutOf(n)].removed_at = trades[n].occurred_at
         /\ spells[InOf(n)].added_at = trades[n].occurred_at
         /\ Chart!Start(InOf(n)) = trades[n].occurred_at
         /\ \A i \in DOMAIN spells : /\ spells[i].removed_at = trades[n].occurred_at => i = OutOf(n)
                                     /\ spells[i].added_at = trades[n].occurred_at => i = InOf(n)
<1> DEFINE o == OutOf(n)
           c == InOf(n)
           t == trades[n].occurred_at
<1>1. n \in DOMAIN trades /\ t > Chart!cutoff /\ t \in Nat
  BY ChartTypes DEF Chart!Drawn
<1>2. o \in DOMAIN spells /\ LeftBy(n, o)
  <2>1. \E i \in DOMAIN spells : LeftBy(n, i)
    BY <1>1 DEF ChartInv, TradesTold
  <2> QED BY <2>1 DEF OutOf
<1>3. c \in DOMAIN spells /\ CameBy(n, c)
  <2>1. \E i \in DOMAIN spells : CameBy(n, i)
    BY <1>1 DEF ChartInv, TradesTold
  <2> QED BY <2>1 DEF InOf
<1> HIDE DEF o, c
<1>4. /\ spells[o].player = trades[n].player_out /\ spells[c].player = trades[n].player_in
      /\ spells[o].removed_at = t /\ spells[c].added_at = t /\ t # None
  BY <1>1, <1>2, <1>3, ChartTypes DEF LeftBy, CameBy
<1> HIDE DEF t
<1>5. /\ \A i \in DOMAIN spells : spells[i].added_at \in Nat /\ spells[i].removed_at \in Nat \union {None}
      /\ Chart!cutoff \in Nat /\ DOMAIN spells \subseteq Nat
  BY ChartTypes
<1>6. Chart!Start(c) = t
  BY <1>1, <1>3, <1>4, <1>5, SpellFacts
<1>7. o \in Chart!Stints
  BY <1>1, <1>2, <1>4, <1>5, SpellFacts
<1>8. c \in Chart!Stints
  <2>1. spells[c].removed_at # None => t < spells[c].removed_at
    BY <1>3, <1>4, SpellFacts
  <2> QED BY <1>1, <1>3, <1>5, <2>1, SpellFacts
<1>9. o < c
  <2>1. spells[o].added_at < t
    BY <1>2, <1>4, SpellFacts
  <2>2. ~(c < o) /\ c # o
    BY <1>2, <1>3, <1>4, <1>5, <2>1, SpellFacts
  <2> QED BY <1>2, <1>3, <1>5, <2>2
<1>10. \A i \in DOMAIN spells : spells[i].removed_at = t => i = o
  BY <1>2, <1>4 DEF ChartInv, SpellsUpTo
<1>11. ASSUME NEW i \in DOMAIN spells, spells[i].added_at = t PROVE i = c
  <2>1. ~(i < c) /\ ~(c < i)
    BY <1>3, <1>4, <1>5, <1>11, SpellFacts
  <2> QED BY <1>3, <1>5, <2>1
<1> QED BY <1>1, <1>4, <1>6, <1>7, <1>8, <1>9, <1>10, <1>11 DEF o, c, t

\* No two trades have a spell in common at the same end.
LEMMA DrawnApart ==
  ASSUME Chart!TimelineConstants, ChartInv, NEW m \in Chart!Drawn, NEW n \in Chart!Drawn, m # n
  PROVE  OutOf(m) # OutOf(n) /\ InOf(m) # InOf(n)
<1>1. m \in DOMAIN trades /\ n \in DOMAIN trades /\ DOMAIN trades \subseteq Nat
      /\ trades[m].occurred_at \in Nat /\ trades[n].occurred_at \in Nat
  BY ChartTypes DEF Chart!Drawn
<1>2. trades[m].occurred_at # trades[n].occurred_at
  <2>1. m < n \/ n < m
    BY <1>1
  <2>2. \A a, b \in DOMAIN trades : a < b => trades[a].occurred_at < trades[b].occurred_at
    BY DEF ChartInv, TradesTold
  <2> QED BY <1>1, <2>1, <2>2
<1> QED BY <1>2, DrawnTrades

DrawnUpTo(n) == {d \in Chart!Drawn : d <= n}

\* What the trades up to the n-th have linked.
LinkedUpTo(b, n) ==
  /\ b.left = {OutOf(d) : d \in DrawnUpTo(n)}
  /\ b.came = {InOf(d) : d \in DrawnUpTo(n)}
  /\ b.traded_for \in [DOMAIN spells -> Nat]
  /\ \A i \in DOMAIN spells :
       \/ \E d \in DrawnUpTo(n) : i = InOf(d) /\ b.traded_for[i] = OutOf(d)
       \/ b.traded_for[i] = 0 /\ \A d \in DrawnUpTo(n) : i # InOf(d)

\* The only exact match is the one found.
LEMMA FirstOfOne ==
  ASSUME NEW x \in Nat, NEW near
  PROVE  Chart!FirstOf({x}, near) = x
<1>1. Chart!Min({x}) = CHOOSE y \in {x} : \A z \in {x} : y <= z
  BY DEF Chart!Min
<1>2. Chart!Min({x}) = x
  BY <1>1
<1> QED BY <1>2 DEF Chart!FirstOf

\* The exact moment finds them.
LEMMA LinkFinds ==
  ASSUME Chart!TimelineConstants, ChartInv, NEW n \in Chart!Drawn, NEW b, LinkedUpTo(b, n - 1)
  PROVE  Chart!Link(b, n) = [left |-> b.left \union {OutOf(n)}, came |-> b.came \union {InOf(n)},
                             traded_for |-> [b.traded_for EXCEPT ![InOf(n)] = OutOf(n)]]
<1> DEFINE t == trades[n]
           leaving == {i \in Chart!Stints \ b.left : spells[i].player = t.player_out}
           exactly == {i \in leaving : spells[i].removed_at = t.occurred_at}
           arriving == {i \in Chart!Stints \ b.came : spells[i].player = t.player_in}
           now_come == {i \in arriving : spells[i].added_at = t.occurred_at}
<1>1. /\ OutOf(n) \in Chart!Stints /\ InOf(n) \in Chart!Stints
      /\ spells[OutOf(n)].player = t.player_out /\ spells[InOf(n)].player = t.player_in
      /\ spells[OutOf(n)].removed_at = t.occurred_at /\ spells[InOf(n)].added_at = t.occurred_at
      /\ \A i \in DOMAIN spells : /\ spells[i].removed_at = t.occurred_at => i = OutOf(n)
                                  /\ spells[i].added_at = t.occurred_at => i = InOf(n)
  BY DrawnTrades
<1>2. OutOf(n) \notin b.left /\ InOf(n) \notin b.came
  <2>1. ASSUME NEW d \in DrawnUpTo(n - 1) PROVE OutOf(d) # OutOf(n) /\ InOf(d) # InOf(n)
    <3>1. n \in Nat /\ d \in Chart!Drawn /\ d <= n - 1 /\ d \in Nat
      BY ChartTypes DEF DrawnUpTo, Chart!Drawn
    <3>2. d # n
      BY <3>1
    <3> QED BY <3>1, <3>2, DrawnApart
  <2> QED BY <2>1 DEF LinkedUpTo
<1>3. Chart!Stints \subseteq DOMAIN spells /\ OutOf(n) \in Nat /\ InOf(n) \in Nat
  BY <1>1, SpellFacts, ChartTypes
<1>4. exactly = {OutOf(n)} /\ now_come = {InOf(n)}
  <2> HIDE DEF t
  <2> QED BY <1>1, <1>2, <1>3
<1> DEFINE out == Chart!FirstOf({i \in leaving : Chart!End(i) = t.occurred_at},
                     {i \in leaving : Chart!Start(i) < t.occurred_at
                                      /\ (Chart!IsOpen(i) \/ Chart!End(i) >= t.occurred_at)})
           in == Chart!FirstOf({i \in arriving : spells[i].added_at = t.occurred_at},
                    {i \in arriving : spells[i].added_at >= t.occurred_at})
<1>5. out = OutOf(n) /\ in = InOf(n)
  <2>1. {i \in leaving : Chart!End(i) = t.occurred_at} = exactly
    BY DEF Chart!End
  <2> HIDE DEF exactly, now_come
  <2>2. \A near : Chart!FirstOf({OutOf(n)}, near) = OutOf(n) /\ Chart!FirstOf({InOf(n)}, near) = InOf(n)
    BY <1>3, FirstOfOne
  <2> HIDE DEF leaving, t
  <2>3. out = OutOf(n)
    BY <1>4, <2>1, <2>2
  <2>4. in = Chart!FirstOf(now_come, {i \in arriving : spells[i].added_at >= t.occurred_at})
    BY DEF now_come
  <2> HIDE DEF in
  <2>5. in = InOf(n)
    BY <1>4, <2>2, <2>4
  <2> QED BY <2>3, <2>5
<1>6. Chart!Link(b, n) = [left |-> b.left \union {out}, came |-> b.came \union {in},
                          traded_for |-> [b.traded_for EXCEPT ![in] = out]]
  BY Zenon DEF Chart!Link
<1> HIDE DEF out, in
<1> QED BY <1>5, <1>6

\* One trade more is linked.
LEMMA LinkKeeps ==
  ASSUME Chart!TimelineConstants, ChartInv, NEW n \in DOMAIN trades, NEW b, LinkedUpTo(b, n - 1)
  PROVE  LinkedUpTo(Chart!Link(b, n), n)
<1>1. n \in Nat /\ \A d \in Chart!Drawn : d \in Nat
  BY ChartTypes DEF Chart!Drawn
<1>2. CASE n \notin Chart!Drawn
  <2>1. Chart!Link(b, n) = b
    BY <1>2 DEF Chart!Link
  <2>2. DrawnUpTo(n) = DrawnUpTo(n - 1)
    <3>1. \A d \in Chart!Drawn : d <= n <=> d <= n - 1
      BY <1>1, <1>2
    <3> QED BY <3>1 DEF DrawnUpTo
  <2> QED BY <2>1, <2>2 DEF LinkedUpTo
<1>3. CASE n \in Chart!Drawn
  <2> DEFINE l == Chart!Link(b, n)
  <2>1. l = [left |-> b.left \union {OutOf(n)}, came |-> b.came \union {InOf(n)},
             traded_for |-> [b.traded_for EXCEPT ![InOf(n)] = OutOf(n)]]
    BY <1>3, LinkFinds
  <2> HIDE DEF l
  <2>2. \A d : d \in DrawnUpTo(n) <=> d \in DrawnUpTo(n - 1) \/ d = n
    <3>1. \A d \in Chart!Drawn : d <= n <=> d <= n - 1 \/ d = n
      BY <1>1
    <3> QED BY <1>1, <1>3, <3>1 DEF DrawnUpTo
  <2>3. l.left = {OutOf(d) : d \in DrawnUpTo(n)} /\ l.came = {InOf(d) : d \in DrawnUpTo(n)}
    BY <2>1, <2>2 DEF LinkedUpTo
  <2>4. OutOf(n) \in Nat /\ InOf(n) \in DOMAIN spells
    BY <1>3, DrawnTrades, SpellFacts, ChartTypes
  <2>5. b.traded_for \in [DOMAIN spells -> Nat]
    BY DEF LinkedUpTo
  <2>6. l.traded_for \in [DOMAIN spells -> Nat] /\ l.traded_for[InOf(n)] = OutOf(n)
        /\ \A i \in DOMAIN spells : i # InOf(n) => l.traded_for[i] = b.traded_for[i]
    BY <2>1, <2>4, <2>5
  <2>7. ASSUME NEW i \in DOMAIN spells
        PROVE  \/ \E d \in DrawnUpTo(n) : i = InOf(d) /\ l.traded_for[i] = OutOf(d)
               \/ l.traded_for[i] = 0 /\ \A d \in DrawnUpTo(n) : i # InOf(d)
    <3>1. CASE i = InOf(n)
      BY <2>2, <2>6, <3>1
    <3>2. CASE i # InOf(n)
      <4>1. \/ \E d \in DrawnUpTo(n - 1) : i = InOf(d) /\ b.traded_for[i] = OutOf(d)
            \/ b.traded_for[i] = 0 /\ \A d \in DrawnUpTo(n - 1) : i # InOf(d)
        BY DEF LinkedUpTo
      <4> QED BY <2>2, <2>6, <3>2, <4>1
    <3> QED BY <3>1, <3>2
  <2> QED BY <2>3, <2>6, <2>7 DEF LinkedUpTo, l
<1> QED BY <1>2, <1>3

\* Going through the trades.
LinkedTo(f, k) ==
  f = [n \in 0..k |-> IF n = 0 THEN Chart!Unlinked ELSE Chart!Link(f[n - 1], n)]

TheLinked == CHOOSE f : LinkedTo(f, Len(trades))

\* What the model's recursion ends with.
LEMMA ReplacedIsLinked == Chart!Replaced = TheLinked[Len(trades)].traded_for
BY Zenon DEF Chart!Replaced, TheLinked, LinkedTo

\* There is such a recursion, however many trades.
LEMMA LinkingExists ==
  ASSUME NEW N \in Nat
  PROVE  \E f : LinkedTo(f, N)
<1> DEFINE T == {k \in Nat : \E f : LinkedTo(f, k)}
<1>1. 0 \in T
  <2> DEFINE f == [n \in 0..0 |-> Chart!Unlinked]
             g == [n \in 0..0 |-> IF n = 0 THEN Chart!Unlinked ELSE Chart!Link(f[n - 1], n)]
  <2>1. \A n \in 0..0 : f[n] = g[n]
    OBVIOUS
  <2>2. f = g
    <3>1. f = [n \in 0..0 |-> f[n]] /\ g = [n \in 0..0 |-> g[n]]
      OBVIOUS
    <3> HIDE DEF f, g
    <3> QED BY <2>1, <3>1
  <2> HIDE DEF f
  <2>3. LinkedTo(f, 0)
    BY <2>2 DEF LinkedTo
  <2> QED BY <2>3
<1>2. ASSUME NEW k \in Nat, k \in T PROVE k + 1 \in T
  <2>1. PICK f : LinkedTo(f, k)
    BY <1>2
  <2> DEFINE c == Chart!Link(f[k], k + 1)
             g == [n \in 0..(k + 1) |-> IF n <= k THEN f[n] ELSE c]
             h == [n \in 0..(k + 1) |-> IF n = 0 THEN Chart!Unlinked ELSE Chart!Link(g[n - 1], n)]
             e == [n \in 0..k |-> IF n = 0 THEN Chart!Unlinked ELSE Chart!Link(f[n - 1], n)]
  <2>2. f = e
    BY <2>1 DEF LinkedTo
  <2>3. \A n \in 0..k : e[n] = IF n = 0 THEN Chart!Unlinked ELSE Chart!Link(f[n - 1], n)
    OBVIOUS
  <2>4. \A n \in 0..k : f[n] = IF n = 0 THEN Chart!Unlinked ELSE Chart!Link(f[n - 1], n)
    <3> HIDE DEF e
    <3> QED BY <2>2, <2>3
  <2>5. ASSUME NEW n \in 0..(k + 1) PROVE g[n] = h[n]
    <3>1. CASE n = 0
      BY <2>4, <3>1
    <3>2. CASE n # 0 /\ n <= k
      <4>1. g[n] = f[n] /\ g[n - 1] = f[n - 1] /\ n \in 0..k
        BY <3>2
      <4>2. h[n] = Chart!Link(g[n - 1], n)
        BY <3>2
      <4> HIDE DEF g, h
      <4> QED BY <2>4, <3>2, <4>1, <4>2
    <3>3. CASE n = k + 1
      <4>1. g[n] = c /\ g[n - 1] = f[k] /\ n # 0
        BY <3>3
      <4>2. h[n] = Chart!Link(g[n - 1], n)
        BY <4>1
      <4> HIDE DEF g, h
      <4> QED BY <3>3, <4>1, <4>2 DEF c
    <3> QED BY <3>1, <3>2, <3>3
  <2>6. g = h
    <3>1. g = [n \in 0..(k + 1) |-> g[n]] /\ h = [n \in 0..(k + 1) |-> h[n]]
      OBVIOUS
    <3> HIDE DEF g, h
    <3> QED BY <2>5, <3>1
  <2> HIDE DEF g
  <2>7. LinkedTo(g, k + 1)
    BY <2>6 DEF LinkedTo
  <2> QED BY <2>7
<1>3. Nat \subseteq T
  <2> HIDE DEF T
  <2> QED BY <1>1, <1>2, SetInduction
<1> QED BY <1>3

\* Each spell replaced the one that the trade it came by ended.
LEMMA ReplacedIs ==
  ASSUME Chart!TimelineConstants, ChartInv, NEW i \in DOMAIN spells
  PROVE  \/ \E d \in Chart!Drawn : i = InOf(d) /\ Chart!Replaced[i] = OutOf(d)
         \/ Chart!Replaced[i] = 0 /\ \A d \in Chart!Drawn : i # InOf(d)
<1> DEFINE N == Len(trades)
           f == TheLinked
           T == {n \in Nat : n <= N => LinkedUpTo(f[n], n)}
<1>1. N \in Nat /\ DOMAIN trades = 1..N
  BY ChartTypes
<1>2. LinkedTo(f, N)
  <2>1. \E g : LinkedTo(g, N)
    BY <1>1, LinkingExists
  <2> QED BY <2>1 DEF TheLinked
<1> HIDE DEF f
<1>3. \A n \in 0..N : f[n] = IF n = 0 THEN Chart!Unlinked ELSE Chart!Link(f[n - 1], n)
  <2> DEFINE e == [n \in 0..N |-> IF n = 0 THEN Chart!Unlinked ELSE Chart!Link(f[n - 1], n)]
  <2>1. f = e
    BY <1>2 DEF LinkedTo
  <2>2. \A n \in 0..N : e[n] = IF n = 0 THEN Chart!Unlinked ELSE Chart!Link(f[n - 1], n)
    OBVIOUS
  <2> HIDE DEF e
  <2> QED BY <2>1, <2>2
<1>4. 0 \in T
  <2>1. f[0] = Chart!Unlinked
    BY <1>1, <1>3
  <2>2. DrawnUpTo(0) = {}
    <3>1. \A d \in Chart!Drawn : d \in Nat /\ d # 0
      BY <1>1 DEF Chart!Drawn
    <3> QED BY <3>1 DEF DrawnUpTo
  <2>3. LinkedUpTo(Chart!Unlinked, 0)
    BY <2>2 DEF LinkedUpTo, Chart!Unlinked
  <2> QED BY <2>1, <2>3
<1>5. ASSUME NEW n \in Nat, n \in T PROVE n + 1 \in T
  <2> SUFFICES ASSUME n + 1 <= N PROVE LinkedUpTo(f[n + 1], n + 1)
    OBVIOUS
  <2>1. n + 1 \in DOMAIN trades /\ (n + 1) - 1 = n /\ n + 1 \in 0..N /\ n + 1 # 0
    BY <1>1
  <2>2. LinkedUpTo(f[n], n)
    BY <1>1, <1>5, <2>1
  <2>3. f[n + 1] = Chart!Link(f[n], n + 1)
    BY <1>3, <2>1
  <2>4. LinkedUpTo(f[n], (n + 1) - 1)
    BY <2>1, <2>2
  <2> QED BY <2>1, <2>3, <2>4, LinkKeeps
<1>6. LinkedUpTo(f[N], N)
  <2>1. Nat \subseteq T
    <3> HIDE DEF T
    <3> QED BY <1>4, <1>5, SetInduction
  <2> QED BY <1>1, <2>1
<1>7. DrawnUpTo(N) = Chart!Drawn
  <2>1. \A d \in Chart!Drawn : d <= N
    BY <1>1 DEF Chart!Drawn
  <2> QED BY <2>1 DEF DrawnUpTo
<1>8. Chart!Replaced = f[N].traded_for
  BY ReplacedIsLinked DEF f
<1> HIDE DEF N
<1> QED BY <1>6, <1>7, <1>8 DEF LinkedUpTo

-----------------------------------------------------------------------------
(* The chart: the lanes *)

Follows(i, j) == spells[i].removed_at # None /\ spells[i].removed_at <= Chart!Start(j)

\* The first n spells have their lanes.
LanesUpTo(b, n) ==
  /\ b = [lane |-> b.lane, last |-> b.last]
  /\ b.lane \in Seq(Nat) /\ Len(b.lane) = n /\ b.last \in Seq(Nat)
  /\ Len(b.last) <= ROSTER_SIZE
  /\ \A k \in 1..Len(b.last) : b.last[k] \in Chart!Stints /\ b.last[k] <= n /\ b.lane[b.last[k]] = k
  /\ \A i \in Chart!Stints : i <= n => b.lane[i] \in 1..Len(b.last) /\ i <= b.last[b.lane[i]]
  /\ \A i, j \in Chart!Stints : i < j /\ j <= n /\ b.lane[i] = b.lane[j] => Follows(i, j)
  /\ \A d \in Chart!Drawn : InOf(d) <= n => b.lane[InOf(d)] = b.lane[OutOf(d)]

\* A spell follows on a lane whose last one has ended.
LEMMA LaneGoesOn ==
  ASSUME Chart!TimelineConstants, ChartInv, NEW n \in Chart!Stints, NEW b, LanesUpTo(b, n - 1),
         NEW k \in 1..Len(b.last), Follows(b.last[k], n),
         \A d \in Chart!Drawn : InOf(d) = n => b.lane[OutOf(d)] = k
  PROVE  LanesUpTo([lane |-> Append(b.lane, k), last |-> [b.last EXCEPT ![k] = n]], n)
<1> DEFINE lane == Append(b.lane, k)
           last == [b.last EXCEPT ![k] = n]
           L == Len(b.last)
<1>1. /\ Chart!Stints \subseteq Nat /\ n \in Nat /\ n - 1 \in Nat /\ n \in DOMAIN spells
      /\ \A i \in Chart!Stints : i # 0
  BY SpellFacts, ChartTypes
<1>2. b.lane \in Seq(Nat) /\ Len(b.lane) = n - 1 /\ b.last \in Seq(Nat) /\ L <= ROSTER_SIZE
  BY DEF LanesUpTo
<1>3. k \in Nat /\ L \in Nat
  BY <1>2
<1>4. lane \in Seq(Nat) /\ Len(lane) = n /\ lane[n] = k /\ \A i \in 1..(n - 1) : lane[i] = b.lane[i]
  <2>1. /\ lane \in Seq(Nat) /\ Len(lane) = Len(b.lane) + 1 /\ lane[Len(b.lane) + 1] = k
        /\ \A i \in 1..Len(b.lane) : lane[i] = b.lane[i]
    BY <1>2, <1>3, AppendProperties
  <2> QED BY <1>1, <1>2, <2>1
<1>5. /\ last \in Seq(Nat) /\ Len(last) = L /\ last[k] = n
      /\ \A m \in 1..L : m # k => last[m] = b.last[m]
  <2>1. b.last \in [1..L -> Nat]
    BY <1>2
  <2>2. last \in [1..L -> Nat] /\ last[k] = n /\ \A m \in 1..L : m # k => last[m] = b.last[m]
    BY <1>1, <2>1
  <2>3. last \in Seq(Nat) /\ Len(last) = L
    <3> HIDE DEF last
    <3> QED BY <1>3, <2>2
  <2> QED BY <2>2, <2>3
<1> HIDE DEF lane, last, L
<1>6. ASSUME NEW m \in 1..L
      PROVE  /\ b.last[m] \in Chart!Stints /\ b.last[m] <= n - 1 /\ b.lane[b.last[m]] = m
             /\ b.last[m] \in Nat
  BY <1>1 DEF LanesUpTo, L
<1>7. ASSUME NEW i \in Chart!Stints, i <= n - 1
      PROVE  b.lane[i] \in 1..L /\ i <= b.last[b.lane[i]] /\ lane[i] = b.lane[i] /\ i \in 1..(n - 1)
  <2>1. i \in 1..(n - 1)
    BY <1>1, <1>7
  <2> QED BY <1>4, <1>7, <2>1 DEF LanesUpTo, L
<1>8. ASSUME NEW m \in 1..L PROVE last[m] \in Chart!Stints /\ last[m] <= n /\ lane[last[m]] = m
  <2>1. CASE m = k
    BY <1>1, <1>4, <1>5, <2>1
  <2>2. CASE m # k
    <3>1. last[m] = b.last[m] /\ b.last[m] \in Chart!Stints /\ b.last[m] <= n - 1 /\ b.lane[b.last[m]] = m
      BY <1>5, <1>6, <2>2
    <3>2. lane[b.last[m]] = b.lane[b.last[m]]
      BY <1>7, <3>1
    <3>3. b.last[m] <= n
      BY <1>1, <1>6
    <3> QED BY <3>1, <3>2, <3>3
  <2> QED BY <2>1, <2>2
<1>9. ASSUME NEW i \in Chart!Stints, i <= n PROVE lane[i] \in 1..L /\ i <= last[lane[i]]
  <2>1. CASE i = n
    BY <1>1, <1>4, <1>5, <2>1 DEF L
  <2>2. CASE i # n
    <3>1. i <= n - 1
      BY <1>1, <1>9, <2>2
    <3>2. lane[i] = b.lane[i] /\ b.lane[i] \in 1..L /\ i <= b.last[b.lane[i]]
      BY <1>7, <3>1
    <3>3. CASE b.lane[i] = k
      BY <1>4, <1>5, <1>9, <3>2, <3>3
    <3>4. CASE b.lane[i] # k
      BY <1>5, <3>2, <3>4
    <3> QED BY <3>3, <3>4
  <2> QED BY <2>1, <2>2
<1>10. ASSUME NEW i \in Chart!Stints, NEW j \in Chart!Stints, i < j, j <= n, lane[i] = lane[j]
       PROVE  Follows(i, j)
  <2>0. i \in Nat /\ j \in Nat
    BY <1>1
  <2>1. i <= n - 1 /\ i \in Nat /\ j \in Nat
    BY <1>1, <1>10, <2>0
  <2>2. CASE j = n
    <3>1. b.lane[i] = k /\ i <= b.last[k]
      BY <1>4, <1>7, <1>10, <2>1, <2>2
    <3>2. CASE i = b.last[k]
      BY <2>2, <3>2
    <3>3. CASE i # b.last[k]
      <4> DEFINE l == b.last[k]
      <4>1. l \in Chart!Stints /\ l <= n - 1 /\ b.lane[l] = k /\ i < l
        BY <1>6, <2>1, <3>1, <3>3 DEF L
      <4>2. Follows(i, l)
        BY <3>1, <4>1 DEF LanesUpTo
      <4>3. Chart!Start(l) <= Chart!Start(n) /\ Chart!Start(l) \in Nat /\ Chart!Start(n) \in Nat
        <5>1. l \in Chart!Stints /\ l <= n - 1
          BY <4>1
        <5> HIDE DEF l
        <5>2. l \in Nat /\ l \in DOMAIN spells
          BY <1>1, <5>1, SpellFacts
        <5>3. l < n
          BY <1>1, <5>1, <5>2
        <5> QED BY <1>1, <5>2, <5>3, SpellFacts
      <4>4. spells[i].removed_at \in Nat
        BY <4>2, SpellFacts, ChartTypes DEF Follows
      <4> HIDE DEF l
      <4> QED BY <2>2, <4>2, <4>3, <4>4 DEF Follows
    <3> QED BY <3>2, <3>3
  <2>3. CASE j # n
    <3>1. j <= n - 1
      BY <1>1, <1>10, <2>1, <2>3
    <3>2. b.lane[i] = b.lane[j]
      BY <1>7, <1>10, <2>1, <3>1
    <3> QED BY <1>10, <3>1, <3>2 DEF LanesUpTo
  <2> QED BY <2>2, <2>3
<1>11. ASSUME NEW d \in Chart!Drawn, InOf(d) <= n PROVE lane[InOf(d)] = lane[OutOf(d)]
  <2>1. InOf(d) \in Chart!Stints /\ OutOf(d) \in Chart!Stints /\ OutOf(d) < InOf(d)
    BY DrawnTrades
  <2>2. OutOf(d) <= n - 1
    <3>1. OutOf(d) \in Nat /\ InOf(d) \in Nat /\ OutOf(d) < InOf(d) /\ InOf(d) <= n
      BY <1>1, <1>11, <2>1
    <3> QED BY <1>1, <3>1
  <2>3. lane[OutOf(d)] = b.lane[OutOf(d)]
    BY <1>7, <2>1, <2>2
  <2>4. CASE InOf(d) = n
    BY <1>4, <2>3, <2>4
  <2>5. CASE InOf(d) # n
    <3>1. InOf(d) <= n - 1
      BY <1>1, <1>11, <2>1, <2>5
    <3> QED BY <1>7, <2>1, <2>3, <3>1 DEF LanesUpTo
  <2> QED BY <2>4, <2>5
<1> DEFINE c == [lane |-> lane, last |-> last]
<1>12. c.lane = lane /\ c.last = last /\ c = [lane |-> c.lane, last |-> c.last]
  OBVIOUS
<1> HIDE DEF c
<1>13. LanesUpTo(c, n)
  BY <1>2, <1>4, <1>5, <1>8, <1>9, <1>10, <1>11, <1>12 DEF LanesUpTo
<1> QED BY <1>13 DEF c, lane, last

\* A lane is opened only while there is a place for one more.
LEMMA LaneOpens ==
  ASSUME Chart!TimelineConstants, ChartInv, NEW n \in Chart!Stints, NEW b, LanesUpTo(b, n - 1),
         \A k \in 1..Len(b.last) : ~Follows(b.last[k], n),
         \A d \in Chart!Drawn : InOf(d) # n
  PROVE  LanesUpTo([lane |-> Append(b.lane, Len(b.last) + 1), last |-> Append(b.last, n)], n)
<1> DEFINE L == Len(b.last)
           k == L + 1
           lane == Append(b.lane, k)
           last == Append(b.last, n)
           m == Chart!Start(n)
<1>1. /\ Chart!Stints \subseteq Nat /\ Chart!Stints \subseteq DOMAIN spells
      /\ n \in Nat /\ n - 1 \in Nat /\ n \in DOMAIN spells /\ m \in Nat
      /\ \A i \in Chart!Stints : i # 0
  BY SpellFacts, ChartTypes
<1>2. b.lane \in Seq(Nat) /\ Len(b.lane) = n - 1 /\ b.last \in Seq(Nat) /\ L <= ROSTER_SIZE
  BY DEF LanesUpTo
<1>3. k \in Nat /\ L \in Nat
  BY <1>2
<1> HIDE DEF k
<1>4. lane \in Seq(Nat) /\ Len(lane) = n /\ lane[n] = k /\ \A i \in 1..(n - 1) : lane[i] = b.lane[i]
  <2>1. /\ lane \in Seq(Nat) /\ Len(lane) = Len(b.lane) + 1 /\ lane[Len(b.lane) + 1] = k
        /\ \A i \in 1..Len(b.lane) : lane[i] = b.lane[i]
    BY <1>2, <1>3, AppendProperties
  <2> QED BY <1>1, <1>2, <2>1
<1>5. /\ last \in Seq(Nat) /\ Len(last) = k /\ last[k] = n
      /\ \A l \in 1..L : last[l] = b.last[l]
  BY <1>1, <1>2, AppendProperties DEF k
<1>k. \A l \in 1..k : l \in 1..L \/ l = k
  BY <1>3 DEF k
<1> HIDE DEF lane, last, L
<1>6. ASSUME NEW l \in 1..L
      PROVE  /\ b.last[l] \in Chart!Stints /\ b.last[l] <= n - 1 /\ b.lane[b.last[l]] = l
             /\ b.last[l] \in Nat /\ b.last[l] \in 1..(n - 1)
  <2>1. b.last[l] \in Chart!Stints /\ b.last[l] <= n - 1 /\ b.lane[b.last[l]] = l
    BY DEF LanesUpTo, L
  <2>2. b.last[l] \in Nat /\ b.last[l] # 0
    BY <1>1, <2>1
  <2> QED BY <1>1, <2>1, <2>2
<1>7. ASSUME NEW i \in Chart!Stints, i <= n - 1
      PROVE  b.lane[i] \in 1..L /\ i <= b.last[b.lane[i]] /\ lane[i] = b.lane[i] /\ i \in 1..(n - 1)
  <2>1. i \in 1..(n - 1)
    BY <1>1, <1>7
  <2> QED BY <1>4, <1>7, <2>1 DEF LanesUpTo, L
<1>8. ASSUME NEW l \in 1..k PROVE last[l] \in Chart!Stints /\ last[l] <= n /\ lane[last[l]] = l
  <2>1. CASE l = k
    BY <1>1, <1>4, <1>5, <2>1
  <2>2. CASE l \in 1..L
    <3>1. last[l] = b.last[l] /\ b.last[l] <= n
      BY <1>1, <1>5, <1>6, <2>2
    <3> QED BY <1>4, <1>6, <2>2, <3>1
  <2> QED BY <1>k, <2>1, <2>2
<1>9. ASSUME NEW i \in Chart!Stints, i <= n PROVE lane[i] \in 1..k /\ i <= last[lane[i]]
  <2>1. CASE i = n
    <3>1. k \in 1..k
      BY <1>3 DEF k
    <3> QED BY <1>1, <1>4, <1>5, <2>1, <3>1
  <2>2. CASE i # n
    <3>1. i <= n - 1
      BY <1>1, <1>9, <2>2
    <3>2. lane[i] \in 1..L /\ i <= b.last[lane[i]]
      BY <1>7, <3>1
    <3>3. lane[i] \in 1..k
      BY <1>3, <3>2 DEF k
    <3> QED BY <1>5, <3>2, <3>3
  <2> QED BY <2>1, <2>2
<1>10. ASSUME NEW i \in Chart!Stints, NEW j \in Chart!Stints, i < j, j <= n, lane[i] = lane[j]
       PROVE  Follows(i, j)
  <2>0. i \in Nat /\ j \in Nat
    BY <1>1
  <2>1. i <= n - 1 /\ i \in Nat /\ j \in Nat
    BY <1>1, <1>10, <2>0
  <2>2. lane[i] \in 1..L /\ lane[i] # k
    BY <1>3, <1>7, <2>1 DEF k
  <2>3. j <= n - 1
    BY <1>1, <1>4, <1>10, <2>1, <2>2
  <2>4. b.lane[i] = b.lane[j]
    BY <1>7, <1>10, <2>1, <2>3
  <2> QED BY <1>10, <2>3, <2>4 DEF LanesUpTo
<1>11. ASSUME NEW d \in Chart!Drawn, InOf(d) <= n PROVE lane[InOf(d)] = lane[OutOf(d)]
  <2>1. InOf(d) \in Chart!Stints /\ OutOf(d) \in Chart!Stints /\ OutOf(d) < InOf(d)
    BY DrawnTrades
  <2>2. InOf(d) <= n - 1 /\ OutOf(d) <= n - 1
    <3>1. /\ OutOf(d) \in Nat /\ InOf(d) \in Nat /\ OutOf(d) < InOf(d) /\ InOf(d) <= n
          /\ InOf(d) # n
      BY <1>1, <1>11, <2>1
    <3> QED BY <1>1, <3>1
  <2> QED BY <1>7, <2>1, <2>2 DEF LanesUpTo
<1>12. k <= ROSTER_SIZE
  <2> DEFINE h == [l \in 1..k |-> spells[last[l]].player]
             players == OnRoster(spells, m)
  <2>1. ASSUME NEW l \in 1..k PROVE last[l] \in Holding(spells, m)
    <3>1. last[l] \in DOMAIN spells /\ last[l] <= n /\ last[l] \in Nat
      BY <1>1, <1>8
    <3>2. spells[last[l]].added_at <= m
      <4>1. spells[last[l]].added_at <= Chart!Start(last[l]) /\ Chart!Start(last[l]) <= m
            /\ Chart!Start(last[l]) \in Nat /\ spells[last[l]].added_at \in Nat
        <5>1. CASE last[l] = n
          BY <1>1, <5>1, SpellFacts, ChartTypes
        <5>2. CASE last[l] < n
          BY <1>1, <3>1, <5>2, SpellFacts, ChartTypes
        <5> QED BY <1>1, <3>1, <5>1, <5>2
      <4> QED BY <1>1, <4>1
    <3>3. spells[last[l]].removed_at = None \/ m < spells[last[l]].removed_at
      <4>1. CASE l = k
        BY <1>5, <4>1, SpellFacts
      <4>2. CASE l \in 1..L
        <5>1. ~Follows(last[l], n)
          BY <1>5, <4>2 DEF L
        <5> QED BY <1>1, <3>1, <5>1, ChartTypes DEF Follows
      <4> QED BY <1>k, <4>1, <4>2
    <3> QED BY <3>1, <3>2, <3>3 DEF Holding
  <2>2. ASSUME NEW i \in Holding(spells, m), NEW j \in Holding(spells, m), spells[i].player = spells[j].player
        PROVE  i = j
    <3>1. /\ i \in DOMAIN spells /\ j \in DOMAIN spells /\ i \in Nat /\ j \in Nat
          /\ spells[i].added_at <= m /\ (spells[i].removed_at = None \/ m < spells[i].removed_at)
          /\ spells[j].added_at <= m /\ (spells[j].removed_at = None \/ m < spells[j].removed_at)
      BY ChartTypes DEF Holding
    <3>2. \A a, c \in DOMAIN spells : a < c /\ spells[a].player = spells[c].player =>
            spells[a].removed_at # None /\ spells[a].removed_at < spells[c].added_at
      BY DEF ChartInv, SpellsUpTo
    <3>3. ~(i < j)
      BY <1>1, <2>2, <3>1, <3>2, ChartTypes
    <3>4. ~(j < i)
      BY <1>1, <2>2, <3>1, <3>2, ChartTypes
    <3> QED BY <3>1, <3>3, <3>4
  <2>3. \A a, c \in 1..k : last[a] = last[c] => a = c
    BY <1>8
  <2>4. h \in [1..k -> players] /\ \A a, c \in 1..k : h[a] = h[c] => a = c
    BY <2>1, <2>2, <2>3 DEF OnRoster
  <2>5. IsFiniteSet(players) /\ Cardinality(players) <= ROSTER_SIZE
    BY <1>1 DEF ChartInv, AtMost
  <2> HIDE DEF h, players
  <2>6. h \in Injection(1..k, players)
    BY <2>4 DEF Injection, IsInjective
  <2>7. Cardinality(1..k) <= Cardinality(players)
    BY <2>5, <2>6, FS_Injection
  <2>8. Cardinality(1..k) = k
    BY <1>3, FS_Interval DEF k
  <2>9. Cardinality(players) \in Nat /\ ROSTER_SIZE \in Nat
    BY <2>5, FS_CardinalityType, ChartTypes
  <2> QED BY <1>3, <2>5, <2>7, <2>8, <2>9
<1> DEFINE c == [lane |-> lane, last |-> last]
<1>13. c.lane = lane /\ c.last = last /\ c = [lane |-> c.lane, last |-> c.last]
  OBVIOUS
<1> HIDE DEF c
<1>14. LanesUpTo(c, n)
  BY <1>4, <1>5, <1>8, <1>9, <1>10, <1>11, <1>12, <1>13 DEF LanesUpTo
<1> QED BY <1>14 DEF c, lane, last, k, L

\* The lowest of some lanes is one of them.
LEMMA LeastLane ==
  ASSUME NEW S \in SUBSET Nat, S # {}
  PROVE  Chart!Min(S) \in S
<1>1. \E x \in S : \A y \in S : x <= y
  BY LeastNumber
<1> QED BY <1>1 DEF Chart!Min

\* A spell that is not drawn has the lane 0.
LEMMA LaneOfNone ==
  ASSUME Chart!TimelineConstants, ChartInv, NEW n \in DOMAIN spells, n \notin Chart!Stints,
         NEW b, LanesUpTo(b, n - 1)
  PROVE  LanesUpTo([b EXCEPT !.lane = Append(@, 0)], n)
<1> DEFINE lane == Append(b.lane, 0)
           c == [b EXCEPT !.lane = Append(@, 0)]
<1>1. /\ n \in Nat /\ n - 1 \in Nat /\ Chart!Stints \subseteq Nat
      /\ \A i \in Chart!Stints : i # 0 /\ (i <= n <=> i <= n - 1)
  <2>1. n \in Nat /\ n # 0 /\ Chart!Stints \subseteq DOMAIN spells /\ DOMAIN spells \subseteq Nat \ {0}
    BY SpellFacts, ChartTypes
  <2> QED BY <2>1
<1>2. /\ b = [lane |-> b.lane, last |-> b.last] /\ b.lane \in Seq(Nat) /\ Len(b.lane) = n - 1
      /\ b.last \in Seq(Nat) /\ Len(b.last) <= ROSTER_SIZE
      /\ \A k \in 1..Len(b.last) :
           b.last[k] \in Chart!Stints /\ b.last[k] <= n - 1 /\ b.lane[b.last[k]] = k
      /\ \A i \in Chart!Stints : i <= n - 1 => b.lane[i] \in 1..Len(b.last) /\ i <= b.last[b.lane[i]]
      /\ \A i, j \in Chart!Stints : i < j /\ j <= n - 1 /\ b.lane[i] = b.lane[j] => Follows(i, j)
      /\ \A d \in Chart!Drawn : InOf(d) <= n - 1 => b.lane[InOf(d)] = b.lane[OutOf(d)]
  BY DEF LanesUpTo
<1>3. c.lane = lane /\ c.last = b.last /\ c = [lane |-> c.lane, last |-> c.last]
  <2>1. \A x, y : [[lane |-> x, last |-> y] EXCEPT !.lane = Append(x, 0)] = [lane |-> Append(x, 0), last |-> y]
    OBVIOUS
  <2>2. c = [b EXCEPT !.lane = lane]
    OBVIOUS
  <2>3. [[lane |-> b.lane, last |-> b.last] EXCEPT !.lane = lane] = [lane |-> lane, last |-> b.last]
    BY <2>1
  <2> HIDE DEF lane, c
  <2>4. c = [lane |-> lane, last |-> b.last]
    BY <1>2, <2>2, <2>3
  <2> QED BY <2>4
<1>4. lane \in Seq(Nat) /\ Len(lane) = n /\ \A i \in 1..(n - 1) : lane[i] = b.lane[i]
  <2>1. /\ lane \in Seq(Nat) /\ Len(lane) = Len(b.lane) + 1
        /\ \A i \in 1..Len(b.lane) : lane[i] = b.lane[i]
    BY <1>2, AppendProperties
  <2> QED BY <1>1, <1>2, <2>1
<1> HIDE DEF c, lane
<1>5. \A i \in Chart!Stints : i <= n => lane[i] = b.lane[i] /\ i <= n - 1
  <2>1. \A i \in Chart!Stints : i <= n => i \in 1..(n - 1)
    BY <1>1
  <2> QED BY <1>1, <1>4, <2>1
<1>6. ASSUME NEW k \in 1..Len(c.last)
      PROVE  c.last[k] \in Chart!Stints /\ c.last[k] <= n /\ c.lane[c.last[k]] = k
  BY <1>1, <1>2, <1>3, <1>5
<1>7. ASSUME NEW i \in Chart!Stints, i <= n
      PROVE  c.lane[i] \in 1..Len(c.last) /\ i <= c.last[c.lane[i]]
  BY <1>2, <1>3, <1>5, <1>7
<1>8. ASSUME NEW i \in Chart!Stints, NEW j \in Chart!Stints, i < j, j <= n, c.lane[i] = c.lane[j]
      PROVE  Follows(i, j)
  <2>1. i <= n
    BY <1>1, <1>8
  <2> QED BY <1>2, <1>3, <1>5, <1>8, <2>1
<1>9. ASSUME NEW d \in Chart!Drawn, InOf(d) <= n PROVE c.lane[InOf(d)] = c.lane[OutOf(d)]
  <2>1. InOf(d) \in Chart!Stints /\ OutOf(d) \in Chart!Stints /\ OutOf(d) < InOf(d)
    BY DrawnTrades
  <2>2. OutOf(d) <= n
    <3>1. OutOf(d) \in Nat /\ InOf(d) \in Nat
      BY <1>1, <2>1
    <3> QED BY <1>1, <1>9, <2>1, <3>1
  <2> QED BY <1>2, <1>3, <1>5, <1>9, <2>1, <2>2
<1>10. LanesUpTo(c, n)
  BY <1>2, <1>3, <1>4, <1>6, <1>7, <1>8, <1>9 DEF LanesUpTo
<1> QED BY <1>10 DEF c

\* The last spell on a lane that a trade ended is the one the trade ended.
LEMMA LastOnTheLane ==
  ASSUME Chart!TimelineConstants, ChartInv, NEW d \in Chart!Drawn, NEW b, LanesUpTo(b, InOf(d) - 1)
  PROVE  /\ b.lane[OutOf(d)] \in 1..Len(b.last) /\ b.last[b.lane[OutOf(d)]] = OutOf(d)
         /\ Follows(OutOf(d), InOf(d))
<1> DEFINE o == OutOf(d)
           n == InOf(d)
           t == trades[d].occurred_at
           k == b.lane[o]
           l == b.last[k]
<1>1. /\ o \in Chart!Stints /\ n \in Chart!Stints /\ o < n /\ d \in DOMAIN trades
      /\ spells[o].removed_at = t /\ Chart!Start(n) = t
      /\ \A i \in DOMAIN spells : spells[i].added_at = t => i = n
  BY DrawnTrades
<1>2. t \in Nat /\ t # None /\ Chart!cutoff < t /\ Chart!cutoff \in Nat
  BY <1>1, ChartTypes DEF Chart!Drawn
<1> HIDE DEF o, n, t
<1>3. o \in Nat /\ n \in Nat /\ o <= n - 1 /\ Chart!Stints \subseteq DOMAIN spells
      /\ DOMAIN spells \subseteq Nat
  <2>1. DOMAIN spells \subseteq Nat /\ Chart!Stints \subseteq DOMAIN spells
    BY SpellFacts, ChartTypes
  <2>2. o \in Nat /\ n \in Nat
    BY <1>1, <2>1
  <2> QED BY <1>1, <2>1, <2>2
<1>4. k \in 1..Len(b.last) /\ o <= l
  BY <1>1, <1>3 DEF LanesUpTo, n
<1> HIDE DEF k
<1>5. l \in Chart!Stints /\ l <= n - 1 /\ b.lane[l] = k
  BY <1>4 DEF LanesUpTo, n
<1> HIDE DEF l
<1>6. l \in DOMAIN spells /\ l \in Nat /\ l < n
  BY <1>3, <1>5
<1>7. l = o
  <2> SUFFICES ASSUME l # o PROVE FALSE
    OBVIOUS
  <2>1. o < l
    BY <1>3, <1>4, <1>6
  <2>2. Follows(o, l)
    BY <1>1, <1>5, <2>1 DEF LanesUpTo, n, k
  <2>3. t <= Chart!Start(l)
    BY <1>1, <2>2 DEF Follows
  <2>4. Chart!Start(l) <= t /\ Chart!Start(l) \in Nat
        /\ (Chart!Start(l) = spells[l].added_at \/ Chart!Start(l) = Chart!cutoff)
    BY <1>1, <1>3, <1>6, SpellFacts
  <2>5. spells[l].added_at = t
    BY <1>2, <2>3, <2>4
  <2> QED BY <1>1, <1>6, <2>5
<1>8. Follows(o, n)
  BY <1>1, <1>2 DEF Follows
<1> QED BY <1>4, <1>7, <1>8 DEF o, n, k, l

\* One spell more has its lane.
LEMMA PlaceKeeps ==
  ASSUME Chart!TimelineConstants, ChartInv, NEW n \in DOMAIN spells, NEW b, LanesUpTo(b, n - 1)
  PROVE  LanesUpTo(Chart!Place(b, n, Chart!Replaced), n)
<1> DEFINE r == Chart!Replaced
           fresh == Len(b.last) + 1
           free == Chart!Free(b.last, n)
           lane == IF r[n] # 0 THEN b.lane[r[n]] ELSE IF free # {} THEN Chart!Min(free) ELSE fresh
           placed == [lane |-> Append(b.lane, lane),
                      last |-> IF lane = fresh THEN Append(b.last, n) ELSE [b.last EXCEPT ![lane] = n]]
<1>1. Chart!Place(b, n, r) = IF n \notin Chart!Stints THEN [b EXCEPT !.lane = Append(@, 0)] ELSE placed
  BY Zenon DEF Chart!Place
<1>2. CASE n \notin Chart!Stints
  BY <1>1, <1>2, LaneOfNone
<1>3. CASE n \in Chart!Stints
  <2>1. \/ \E d \in Chart!Drawn : n = InOf(d) /\ r[n] = OutOf(d)
        \/ r[n] = 0 /\ \A d \in Chart!Drawn : n # InOf(d)
    BY ReplacedIs
  <2>2. b.last \in Seq(Nat) /\ Len(b.last) \in Nat /\ DOMAIN b.last = 1..Len(b.last) /\ fresh \notin 1..Len(b.last)
    BY DEF LanesUpTo
  <2>3. \A k \in 1..Len(b.last) : k \in free <=> Follows(b.last[k], n)
    BY <2>2 DEF Chart!Free, Chart!IsOpen, Chart!End, Follows
  <2>4. free \subseteq 1..Len(b.last)
    BY <2>2 DEF Chart!Free
  <2> HIDE DEF r, fresh, free
  <2>5. ASSUME NEW k \in 1..Len(b.last), lane = k, Follows(b.last[k], n),
               \A d \in Chart!Drawn : InOf(d) = n => b.lane[OutOf(d)] = k
        PROVE  LanesUpTo(placed, n)
    <3>1. placed = [lane |-> Append(b.lane, k), last |-> [b.last EXCEPT ![k] = n]]
      BY <2>2, <2>5
    <3> HIDE DEF placed, lane
    <3> QED BY <1>3, <2>5, <3>1, LaneGoesOn
  <2>6. ASSUME r[n] # 0 PROVE LanesUpTo(placed, n)
    <3>1. PICK d \in Chart!Drawn : n = InOf(d) /\ r[n] = OutOf(d)
      BY <2>1, <2>6
    <3>2. /\ b.lane[OutOf(d)] \in 1..Len(b.last) /\ b.last[b.lane[OutOf(d)]] = OutOf(d)
          /\ Follows(OutOf(d), n)
      BY <3>1, LastOnTheLane
    <3>3. lane = b.lane[OutOf(d)]
      BY <2>6, <3>1
    <3>4. ASSUME NEW e \in Chart!Drawn, InOf(e) = n PROVE b.lane[OutOf(e)] = lane
      <4>1. e = d
        BY <3>1, <3>4, DrawnApart
      <4> QED BY <3>3, <4>1
    <3> HIDE DEF lane, placed
    <3> QED BY <2>5, <3>2, <3>3, <3>4
  <2>7. ASSUME r[n] = 0 /\ free # {} PROVE LanesUpTo(placed, n)
    <3>1. lane = Chart!Min(free)
      BY <2>7
    <3>2. lane \in free
      <4>1. free \in SUBSET Nat
        BY <2>4
      <4> QED BY <2>7, <3>1, <4>1, LeastLane
    <3>3. lane \in 1..Len(b.last) /\ Follows(b.last[lane], n)
      <4> HIDE DEF lane
      <4> QED BY <2>3, <2>4, <3>2
    <3>4. \A d \in Chart!Drawn : InOf(d) # n
      <4>1. \A d \in Chart!Drawn : OutOf(d) # 0
        BY DrawnTrades, SpellFacts, ChartTypes
      <4> QED BY <2>1, <2>7, <4>1
    <3> HIDE DEF lane, placed
    <3> QED BY <2>5, <3>3, <3>4
  <2>8. ASSUME r[n] = 0 /\ free = {} PROVE LanesUpTo(placed, n)
    <3>1. lane = fresh
      BY <2>8
    <3>2. placed = [lane |-> Append(b.lane, Len(b.last) + 1), last |-> Append(b.last, n)]
      BY <3>1 DEF fresh
    <3>3. \A k \in 1..Len(b.last) : ~Follows(b.last[k], n)
      BY <2>3, <2>8
    <3>4. \A d \in Chart!Drawn : InOf(d) # n
      <4>1. \A d \in Chart!Drawn : OutOf(d) # 0
        BY DrawnTrades, SpellFacts, ChartTypes
      <4> QED BY <2>1, <2>8, <4>1
    <3> HIDE DEF lane, placed
    <3> QED BY <1>3, <3>2, <3>3, <3>4, LaneOpens
  <2>9. LanesUpTo(placed, n)
    BY <2>6, <2>7, <2>8
  <2> HIDE DEF placed
  <2> QED BY <1>1, <1>3, <2>9 DEF r
<1> QED BY <1>2, <1>3

\* Going through the spells.
NoLanes == [lane |-> <<>>, last |-> <<>>]

AssignedTo(f, k) ==
  f = [n \in 0..k |-> IF n = 0 THEN NoLanes ELSE Chart!Place(f[n - 1], n, Chart!Replaced)]

TheAssigned == CHOOSE f : AssignedTo(f, Len(spells))

\* What the model's recursion ends with.
LEMMA AssignedIs == Chart!Assigned = TheAssigned[Len(spells)]
BY Zenon DEF Chart!Assigned, TheAssigned, AssignedTo, NoLanes

\* There is such a recursion, however many spells.
LEMMA AssigningExists ==
  ASSUME NEW N \in Nat
  PROVE  \E f : AssignedTo(f, N)
<1> DEFINE T == {k \in Nat : \E f : AssignedTo(f, k)}
<1>1. 0 \in T
  <2> DEFINE f == [n \in 0..0 |-> NoLanes]
             g == [n \in 0..0 |-> IF n = 0 THEN NoLanes ELSE Chart!Place(f[n - 1], n, Chart!Replaced)]
  <2>1. \A n \in 0..0 : f[n] = g[n]
    OBVIOUS
  <2>2. f = g
    <3>1. f = [n \in 0..0 |-> f[n]] /\ g = [n \in 0..0 |-> g[n]]
      OBVIOUS
    <3> HIDE DEF f, g
    <3> QED BY <2>1, <3>1
  <2> HIDE DEF f
  <2>3. AssignedTo(f, 0)
    BY <2>2 DEF AssignedTo
  <2> QED BY <2>3
<1>2. ASSUME NEW k \in Nat, k \in T PROVE k + 1 \in T
  <2>1. PICK f : AssignedTo(f, k)
    BY <1>2
  <2> DEFINE c == Chart!Place(f[k], k + 1, Chart!Replaced)
             g == [n \in 0..(k + 1) |-> IF n <= k THEN f[n] ELSE c]
             h == [n \in 0..(k + 1) |-> IF n = 0 THEN NoLanes ELSE Chart!Place(g[n - 1], n, Chart!Replaced)]
             e == [n \in 0..k |-> IF n = 0 THEN NoLanes ELSE Chart!Place(f[n - 1], n, Chart!Replaced)]
  <2>2. f = e
    BY <2>1 DEF AssignedTo
  <2>3. \A n \in 0..k : e[n] = IF n = 0 THEN NoLanes ELSE Chart!Place(f[n - 1], n, Chart!Replaced)
    OBVIOUS
  <2>4. \A n \in 0..k : f[n] = IF n = 0 THEN NoLanes ELSE Chart!Place(f[n - 1], n, Chart!Replaced)
    <3> HIDE DEF e
    <3> QED BY <2>2, <2>3
  <2>5. ASSUME NEW n \in 0..(k + 1) PROVE g[n] = h[n]
    <3>1. CASE n = 0
      BY <2>4, <3>1
    <3>2. CASE n # 0 /\ n <= k
      <4>1. g[n] = f[n] /\ g[n - 1] = f[n - 1] /\ n \in 0..k
        BY <3>2
      <4>2. h[n] = Chart!Place(g[n - 1], n, Chart!Replaced)
        BY <3>2
      <4> HIDE DEF g, h
      <4> QED BY <2>4, <3>2, <4>1, <4>2
    <3>3. CASE n = k + 1
      <4>1. g[n] = c /\ g[n - 1] = f[k] /\ n # 0
        BY <3>3
      <4>2. h[n] = Chart!Place(g[n - 1], n, Chart!Replaced)
        BY <4>1
      <4> HIDE DEF g, h
      <4> QED BY <3>3, <4>1, <4>2 DEF c
    <3> QED BY <3>1, <3>2, <3>3
  <2>6. g = h
    <3>1. g = [n \in 0..(k + 1) |-> g[n]] /\ h = [n \in 0..(k + 1) |-> h[n]]
      OBVIOUS
    <3> HIDE DEF g, h
    <3> QED BY <2>5, <3>1
  <2> HIDE DEF g
  <2>7. AssignedTo(g, k + 1)
    BY <2>6 DEF AssignedTo
  <2> QED BY <2>7
<1>3. Nat \subseteq T
  <2> HIDE DEF T
  <2> QED BY <1>1, <1>2, SetInduction
<1> QED BY <1>3

\* All the spells have their lanes.
LEMMA AllHaveLanes ==
  ASSUME Chart!TimelineConstants, ChartInv
  PROVE  LanesUpTo(Chart!Assigned, Len(spells))
<1> DEFINE N == Len(spells)
           f == TheAssigned
           T == {n \in Nat : n <= N => LanesUpTo(f[n], n)}
<1>1. N \in Nat /\ DOMAIN spells = 1..N /\ ROSTER_SIZE \in Nat
  BY ChartTypes
<1>2. AssignedTo(f, N)
  <2>1. \E g : AssignedTo(g, N)
    BY <1>1, AssigningExists
  <2> QED BY <2>1 DEF TheAssigned
<1> HIDE DEF f
<1>3. \A n \in 0..N : f[n] = IF n = 0 THEN NoLanes ELSE Chart!Place(f[n - 1], n, Chart!Replaced)
  <2> DEFINE e == [n \in 0..N |-> IF n = 0 THEN NoLanes ELSE Chart!Place(f[n - 1], n, Chart!Replaced)]
  <2>1. f = e
    BY <1>2 DEF AssignedTo
  <2>2. \A n \in 0..N : e[n] = IF n = 0 THEN NoLanes ELSE Chart!Place(f[n - 1], n, Chart!Replaced)
    OBVIOUS
  <2> HIDE DEF e
  <2> QED BY <2>1, <2>2
<1>4. 0 \in T
  <2>1. f[0] = NoLanes
    BY <1>1, <1>3
  <2>2. \A i \in Chart!Stints : i \in Nat /\ ~(i <= 0)
    <3>1. Chart!Stints \subseteq 1..N
      BY <1>1, SpellFacts
    <3> QED BY <1>1, <3>1
  <2>3. \A d \in Chart!Drawn : InOf(d) \in Chart!Stints
    BY DrawnTrades
  <2>4. NoLanes.lane = <<>> /\ NoLanes.last = <<>> /\ NoLanes = [lane |-> NoLanes.lane, last |-> NoLanes.last]
    BY DEF NoLanes
  <2>5. LanesUpTo(NoLanes, 0)
    BY <1>1, <2>2, <2>3, <2>4 DEF LanesUpTo
  <2> QED BY <2>1, <2>5
<1>5. ASSUME NEW n \in Nat, n \in T PROVE n + 1 \in T
  <2> SUFFICES ASSUME n + 1 <= N PROVE LanesUpTo(f[n + 1], n + 1)
    OBVIOUS
  <2>1. n + 1 \in DOMAIN spells /\ (n + 1) - 1 = n /\ n + 1 \in 0..N /\ n + 1 # 0
    BY <1>1
  <2>2. LanesUpTo(f[n], n)
    BY <1>1, <1>5, <2>1
  <2>3. f[n + 1] = Chart!Place(f[n], n + 1, Chart!Replaced)
    BY <1>3, <2>1
  <2>4. LanesUpTo(f[n], (n + 1) - 1)
    BY <2>1, <2>2
  <2> QED BY <2>1, <2>3, <2>4, PlaceKeeps
<1>6. Nat \subseteq T
  <2> HIDE DEF T
  <2> QED BY <1>4, <1>5, SetInduction
<1>7. LanesUpTo(f[N], N)
  BY <1>1, <1>6
<1>8. Chart!Assigned = f[N]
  BY AssignedIs DEF f
<1> QED BY <1>7, <1>8

\* The chart of any roster of which the invariant holds.
LEMMA TheChartShows ==
  ASSUME Chart!TimelineConstants, ChartInv
  PROVE  Chart!LanesHold
<1> DEFINE a == Chart!Assigned
           N == Len(spells)
<1>1. LanesUpTo(a, N)
  BY AllHaveLanes
<1> HIDE DEF a
<1>2. \A i \in Chart!Stints : i \in Nat /\ i <= N
  <2>1. N \in Nat /\ Chart!Stints \subseteq 1..N
    BY SpellFacts, ChartTypes
  <2> QED BY <2>1
<1>3. Len(a.last) <= ROSTER_SIZE
  BY <1>1 DEF LanesUpTo
<1>4. ASSUME NEW i \in Chart!Stints, NEW j \in Chart!Stints, i < j, a.lane[i] = a.lane[j]
      PROVE  Chart!Apart(i, j)
  <2>1. Follows(i, j)
    BY <1>1, <1>2, <1>4 DEF LanesUpTo
  <2> QED BY <2>1 DEF Follows, Chart!Apart, Chart!IsOpen, Chart!End
<1>5. ASSUME NEW n \in Chart!Drawn
      PROVE  \E i, j \in Chart!Stints :
               /\ spells[i].player = trades[n].player_out /\ spells[j].player = trades[n].player_in
               /\ Chart!End(i) = trades[n].occurred_at /\ Chart!Start(j) = Chart!End(i)
               /\ a.lane[i] = a.lane[j]
  <2>1. /\ OutOf(n) \in Chart!Stints /\ InOf(n) \in Chart!Stints
        /\ spells[OutOf(n)].player = trades[n].player_out /\ spells[InOf(n)].player = trades[n].player_in
        /\ spells[OutOf(n)].removed_at = trades[n].occurred_at
        /\ Chart!Start(InOf(n)) = trades[n].occurred_at
    BY DrawnTrades
  <2>2. a.lane[InOf(n)] = a.lane[OutOf(n)]
    BY <1>1, <1>2, <2>1 DEF LanesUpTo
  <2> QED BY <2>1, <2>2 DEF Chart!End
<1> QED BY <1>3, <1>4, <1>5 DEF Chart!LanesHold, a

\* There are no more lanes than places on the roster, no two players are on one lane at
\* a time, and a trade goes on in the lane of the player it gave away.
THEOREM TheLanesHold == Chart!TimelineConstants => (Chart!Spec => []Chart!LanesHold)
<1> SUFFICES ASSUME Chart!TimelineConstants PROVE Chart!Spec => []Chart!LanesHold
  OBVIOUS
<1>1. ChartInv => Chart!LanesHold
  BY TheChartShows
<1>2. Chart!Spec => []ChartInv
  BY ChartHolds
<1> QED BY <1>1, <1>2, PTL

-----------------------------------------------------------------------------
(* The chart: the points *)

\* A snapshot is the newest one up to a moment.
LEMMA NewestTotal ==
  ASSUME Chart!TimelineConstants, NEW p \in Players, NEW m \in Nat
  PROVE  LET N == Len(TotalFp[p])
         IN  Chart!TotalAt(p, m) =
               IF m = 0 \/ N = 0 THEN None ELSE TotalFp[p][IF m <= N THEN m ELSE N]
<1> DEFINE N == Len(TotalFp[p])
           read == {i \in DOMAIN TotalFp[p] : i <= m}
           k == IF m <= N THEN m ELSE N
<1>1. N \in Nat /\ DOMAIN TotalFp[p] = 1..N
  BY DEF Chart!TimelineConstants
<1>2. Chart!TotalAt(p, m) = IF read = {} THEN None ELSE TotalFp[p][Chart!Max(read)]
  BY DEF Chart!TotalAt
<1>3. CASE m = 0 \/ N = 0
  <2>1. read = {}
    BY <1>1, <1>3
  <2> QED BY <1>2, <1>3, <2>1
<1>4. CASE m # 0 /\ N # 0
  <2>1. read \subseteq Nat /\ k \in read /\ \A i \in read : k >= i
    BY <1>1, <1>4
  <2> HIDE DEF read, k, N
  <2>2. Chart!Max(read) = CHOOSE x \in read : \A y \in read : x >= y
    BY DEF Chart!Max
  <2>3. \A x \in read : (\A y \in read : x >= y) => x = k
    BY <2>1
  <2>4. Chart!Max(read) = k
    BY <2>1, <2>2, <2>3
  <2> QED BY <1>2, <1>4, <2>1, <2>4 DEF k, N
<1> QED BY <1>3, <1>4

\* Totals that do not fall from one moment to the next do not fall at all.
LEMMA TotalsOnlyGrow ==
  ASSUME Chart!TimelineConstants, Chart!TotalsGrow, NEW p \in Players,
         NEW a \in 1..Len(TotalFp[p]), NEW b \in 1..Len(TotalFp[p]), a <= b
  PROVE  TotalFp[p][a] <= TotalFp[p][b]
<1> DEFINE s == TotalFp[p]
           N == Len(s)
           T == {d \in Nat : a + d <= N => s[a] <= s[a + d]}
<1>1. N \in Nat /\ \A i \in 1..N : s[i] \in Nat
  BY DEF Chart!TimelineConstants
<1>2. \A i \in 1..(N - 1) : s[i] <= s[i + 1]
  BY DEF Chart!TotalsGrow
<1> HIDE DEF s, N
<1>3. a \in 1..N /\ b \in 1..N
  BY DEF N, s
<1>4. 0 \in T
  BY <1>1, <1>3
<1>5. ASSUME NEW d \in Nat, d \in T PROVE d + 1 \in T
  <2> SUFFICES ASSUME a + (d + 1) <= N PROVE s[a] <= s[a + (d + 1)]
    OBVIOUS
  <2>1. a + d \in 1..(N - 1) /\ a + d \in 1..N /\ (a + d) + 1 \in 1..N /\ (a + d) + 1 = a + (d + 1)
    BY <1>1, <1>3
  <2>2. s[a] <= s[a + d]
    BY <1>1, <1>5, <2>1
  <2>3. s[a + d] <= s[a + (d + 1)]
    BY <1>2, <2>1
  <2>4. s[a] \in Nat /\ s[a + d] \in Nat /\ s[a + (d + 1)] \in Nat
    BY <1>1, <1>3, <2>1
  <2> QED BY <2>2, <2>3, <2>4
<1>6. Nat \subseteq T
  <2> HIDE DEF T
  <2> QED BY <1>4, <1>5, SetInduction
<1> DEFINE d == b - a
<1>7. d \in Nat /\ a + d = b /\ b <= N
  BY <1>1, <1>3
<1> HIDE DEF d
<1>8. s[a] <= s[a + d]
  BY <1>6, <1>7
<1> QED BY <1>7, <1>8 DEF s

\* What a player has reached at a moment, nothing while no snapshot says it.
Reached(p, m) == IF Chart!TotalAt(p, m) = None THEN 0 ELSE Chart!TotalAt(p, m)

\* What a player has reached is never less later on.
LEMMA ReachedGrows ==
  ASSUME Chart!TimelineConstants, Chart!TotalsGrow, NEW p \in Players, NEW m \in Nat, NEW u \in Nat, m <= u
  PROVE  /\ Reached(p, m) \in Nat /\ Reached(p, u) \in Nat /\ Reached(p, m) <= Reached(p, u)
         /\ Chart!TotalAt(p, m) # None => Chart!TotalAt(p, u) # None
<1> DEFINE N == Len(TotalFp[p])
           s == TotalFp[p]
           k == IF m <= N THEN m ELSE N
           l == IF u <= N THEN u ELSE N
<1>1. N \in Nat /\ (\A i \in 1..N : s[i] \in Nat) /\ None \notin Int
  BY DEF Chart!TimelineConstants
<1>2. /\ Chart!TotalAt(p, m) = IF m = 0 \/ N = 0 THEN None ELSE s[k]
      /\ Chart!TotalAt(p, u) = IF u = 0 \/ N = 0 THEN None ELSE s[l]
  BY NewestTotal
<1>3. m # 0 /\ N # 0 => k \in 1..N /\ l \in 1..N /\ k <= l
  BY <1>1
<1>4. u # 0 /\ N # 0 => l \in 1..N
  BY <1>1
<1>5. m # 0 /\ N # 0 => s[k] <= s[l]
  <2> HIDE DEF k, l
  <2> QED BY <1>3, TotalsOnlyGrow
<1> HIDE DEF k, l, N, s
<1>6. CASE m # 0 /\ N # 0
  <2>1. u # 0 /\ s[k] \in Nat /\ s[l] \in Nat
    BY <1>1, <1>3, <1>6
  <2>2. Chart!TotalAt(p, m) = s[k] /\ Chart!TotalAt(p, u) = s[l] /\ s[k] # None /\ s[l] # None
    BY <1>1, <1>2, <1>6, <2>1
  <2> QED BY <1>5, <1>6, <2>1, <2>2 DEF Reached
<1>7. CASE m = 0 \/ N = 0
  <2>1. Chart!TotalAt(p, m) = None /\ Reached(p, m) = 0
    BY <1>2, <1>7 DEF Reached
  <2>2. Reached(p, u) \in Nat
    BY <1>1, <1>2, <1>4 DEF Reached
  <2> QED BY <2>1, <2>2
<1> QED BY <1>6, <1>7

\* How many numbers there are from one up to another.
LEMMA NumbersUpTo ==
  ASSUME NEW x \in Nat, NEW y \in Nat, x <= y
  PROVE  IsFiniteSet(x..(y - 1)) /\ Cardinality(x..(y - 1)) = y - x
<1> DEFINE z == y - 1
<1>1. z \in Int /\ x \in Int /\ (x > z => y = x) /\ (z - x) + 1 = y - x /\ y - y = 0
  OBVIOUS
<1> HIDE DEF z
<1>2. IsFiniteSet(x..z) /\ Cardinality(x..z) = IF x > z THEN 0 ELSE (z - x) + 1
  BY <1>1, FS_Interval
<1>3. Cardinality(x..z) = y - x
  BY <1>1, <1>2
<1> QED BY <1>2, <1>3 DEF z

\* How long a spell counts, and the points made in it, numbered as the player makes them.
Until(i) == IF Chart!IsOpen(i) THEN now ELSE Chart!End(i)
Worth(i) == Reached(spells[i].player, Chart!Start(i))..(Reached(spells[i].player, Until(i)) - 1)

\* A spell that is drawn lies between the cutoff and now.
LEMMA SpellLasts ==
  ASSUME Chart!TimelineConstants, ChartInv, now >= Chart!cutoff, NEW i \in Chart!Stints
  PROVE  /\ i \in DOMAIN spells /\ spells[i].player \in Players
         /\ Chart!Start(i) \in Nat /\ Until(i) \in Nat
         /\ Chart!cutoff <= Chart!Start(i) /\ Chart!Start(i) <= Until(i) /\ Until(i) <= now
<1>1. i \in DOMAIN spells /\ spells[i].player \in Players
  BY SpellFacts, ChartTypes
<1>2. /\ Chart!Start(i) \in Nat /\ Chart!cutoff <= Chart!Start(i) /\ Chart!cutoff \in Nat
      /\ Chart!Start(i) = spells[i].added_at \/ Chart!Start(i) = Chart!cutoff
  BY <1>1, SpellFacts, ChartTypes
<1>3. now \in Nat /\ spells[i].added_at \in Nat /\ spells[i].added_at <= now
      /\ spells[i].removed_at \in Nat \union {None}
  BY <1>1, ChartTypes
<1>4. spells[i].removed_at # None => Chart!Start(i) < spells[i].removed_at /\ spells[i].removed_at <= now
  BY <1>1, SpellFacts
<1>5. Until(i) = IF spells[i].removed_at = None THEN now ELSE spells[i].removed_at
  BY DEF Until, Chart!IsOpen, Chart!End
<1>6. Chart!Start(i) <= now
  BY <1>2, <1>3
<1> QED BY <1>1, <1>2, <1>3, <1>4, <1>5, <1>6

\* A spell has as many points as were made in it.
LEMMA PointsAreWorth ==
  ASSUME Chart!TimelineConstants, Chart!TotalsGrow, ChartInv, now >= Chart!cutoff,
         NEW i \in Chart!Stints, Chart!Points(i) # None
  PROVE  /\ IsFiniteSet(Worth(i)) /\ Chart!Points(i) = Cardinality(Worth(i))
         /\ Chart!TotalAt(spells[i].player, Until(i)) # None
<1> DEFINE p == spells[i].player
           after == Chart!TotalAt(p, Until(i))
           before == Chart!TotalAt(p, Chart!Start(i))
           x == Reached(p, Chart!Start(i))
           y == Reached(p, Until(i))
<1>1. /\ p \in Players /\ Chart!Start(i) \in Nat /\ Until(i) \in Nat /\ Chart!Start(i) <= Until(i)
  BY SpellLasts
<1>2. Chart!Points(i) = Chart!Scored(i, after)
  BY DEF Chart!Points, Until
<1>3. Chart!Scored(i, after) =
        IF after = None \/ (before = None /\ Chart!Start(i) > calendar.season_open_at) THEN None
        ELSE Chart!Latest(0, after - x)
  BY DEF Chart!Scored, Reached
<1>4. after # None /\ Chart!Points(i) = Chart!Latest(0, after - x)
  BY <1>2, <1>3
<1>5. after = y
  BY <1>4 DEF Reached
<1> HIDE DEF p
<1>6. x \in Nat /\ y \in Nat /\ x <= y
  BY <1>1, ReachedGrows
<1> HIDE DEF x, y, after
<1>7. Chart!Points(i) = y - x
  BY <1>4, <1>5, <1>6 DEF Chart!Latest
<1>8. IsFiniteSet(x..(y - 1)) /\ Cardinality(x..(y - 1)) = y - x
  BY <1>6, NumbersUpTo
<1>9. Worth(i) = x..(y - 1)
  BY DEF Worth, x, y, p
<1> QED BY <1>4, <1>7, <1>8, <1>9 DEF after, p

\* No point is made in two spells of a player.
LEMMA WorthApart ==
  ASSUME Chart!TimelineConstants, Chart!TotalsGrow, ChartInv, now >= Chart!cutoff,
         NEW i \in Chart!Stints, NEW j \in Chart!Stints, i # j, spells[i].player = spells[j].player
  PROVE  Worth(i) \cap Worth(j) = {}
<1>1. ASSUME NEW a \in Chart!Stints, NEW b \in Chart!Stints, a < b, spells[a].player = spells[b].player
      PROVE  Worth(a) \cap Worth(b) = {}
  <2>1. /\ spells[a].player \in Players /\ a \in DOMAIN spells /\ b \in DOMAIN spells
        /\ Chart!Start(a) \in Nat /\ Until(a) \in Nat /\ Chart!Start(b) \in Nat /\ Until(b) \in Nat
        /\ Chart!Start(a) <= Until(a) /\ Chart!Start(b) <= Until(b)
    BY SpellLasts
  <2>2. spells[a].removed_at # None /\ spells[a].removed_at < spells[b].added_at
    BY <1>1, <2>1 DEF ChartInv, SpellsUpTo
  <2>3. Until(a) = spells[a].removed_at
    BY <2>2 DEF Until, Chart!IsOpen, Chart!End
  <2>4. spells[b].added_at \in Nat /\ spells[b].added_at <= Chart!Start(b)
    BY <2>1, SpellFacts, ChartTypes
  <2>5. Until(a) <= Chart!Start(b)
    BY <2>1, <2>2, <2>3, <2>4
  <2> DEFINE p == spells[a].player
             u == Reached(p, Chart!Start(a))
             v == Reached(p, Until(a))
             x == Reached(p, Chart!Start(b))
             y == Reached(p, Until(b))
  <2>6. Worth(a) = u..(v - 1) /\ Worth(b) = x..(y - 1)
    BY <1>1 DEF Worth
  <2> HIDE DEF p
  <2>7. p \in Players
    BY <2>1 DEF p
  <2>8. u \in Nat /\ v \in Nat /\ x \in Nat /\ y \in Nat /\ v <= x
    BY <2>1, <2>5, <2>7, ReachedGrows
  <2> HIDE DEF u, v, x, y
  <2> QED BY <2>6, <2>8
<1>2. i \in Nat /\ j \in Nat
  BY SpellFacts, ChartTypes
<1>3. CASE i < j
  BY <1>1, <1>3
<1>4. CASE j < i
  <2>1. Worth(j) \cap Worth(i) = {}
    BY <1>1, <1>4
  <2> QED BY <2>1
<1> QED BY <1>2, <1>3, <1>4

\* The sum of the library, taken one spell after the other.
Without(T, x) == T \ {x}
TakenFrom(T) == CHOOSE x \in T : TRUE

SumsPoints(sum, S) ==
  sum = [T \in SUBSET S |-> IF T = {} THEN 0
                            ELSE Chart!Points(TakenFrom(T)) + sum[Without(T, TakenFrom(T))]]

SumOfPoints(S) == CHOOSE sum : SumsPoints(sum, S)

\* The fold of the library.
LEMMA SumOfPointsIs ==
  ASSUME NEW S
  PROVE  Chart!MapThenSumSet(Chart!Points, S) = SumOfPoints(S)[S]
BY Zenon DEF Chart!MapThenSumSet, Chart!MapThenFoldSet, SumOfPoints, SumsPoints, Without, TakenFrom

MadeIn(T) == UNION {Worth(i) : i \in T}

\* They are among those made since the chart begins.
LEMMA MadeSinceTheCutoff ==
  ASSUME Chart!TimelineConstants, Chart!TotalsGrow, ChartInv, now >= Chart!cutoff,
         NEW p \in Players, NEW T \in SUBSET Chart!Stints, \A i \in T : spells[i].player = p
  PROVE  /\ MadeIn(T) \subseteq Reached(p, Chart!cutoff)..(Reached(p, now) - 1)
         /\ IsFiniteSet(MadeIn(T))
         /\ Cardinality(MadeIn(T)) <= Reached(p, now) - Reached(p, Chart!cutoff)
<1> DEFINE x == Reached(p, Chart!cutoff)
           y == Reached(p, now)
<1>1. Chart!cutoff \in Nat /\ now \in Nat /\ Chart!cutoff <= now
  BY ChartTypes
<1>2. x \in Nat /\ y \in Nat /\ x <= y
  BY <1>1, ReachedGrows
<1>3. ASSUME NEW i \in T PROVE Worth(i) \subseteq x..(y - 1)
  <2> DEFINE u == Reached(p, Chart!Start(i))
             v == Reached(p, Until(i))
  <2>1. /\ Chart!Start(i) \in Nat /\ Until(i) \in Nat
        /\ Chart!cutoff <= Chart!Start(i) /\ Chart!Start(i) <= Until(i) /\ Until(i) <= now
    BY SpellLasts
  <2>2. u \in Nat /\ v \in Nat /\ x <= u /\ v <= y
    BY <1>1, <2>1, ReachedGrows
  <2>3. Worth(i) = u..(v - 1)
    BY DEF Worth
  <2> HIDE DEF u, v, x, y
  <2> QED BY <1>2, <2>2, <2>3
<1>4. MadeIn(T) \subseteq x..(y - 1)
  BY <1>3 DEF MadeIn
<1> HIDE DEF x, y
<1>5. IsFiniteSet(x..(y - 1)) /\ Cardinality(x..(y - 1)) = y - x
  BY <1>2, NumbersUpTo
<1>6. IsFiniteSet(MadeIn(T)) /\ Cardinality(MadeIn(T)) <= y - x
  <2> DEFINE made == MadeIn(T)
             all == x..(y - 1)
  <2>1. IsFiniteSet(all) /\ made \in SUBSET all
    BY <1>4, <1>5
  <2>2. Cardinality(all) = y - x
    BY <1>5
  <2> HIDE DEF made, all
  <2>3. IsFiniteSet(made) /\ Cardinality(made) <= Cardinality(all)
    BY <2>1, FS_Subset
  <2> QED BY <2>2, <2>3 DEF made
<1> QED BY <1>4, <1>6 DEF x, y

\* The points made in a spell and in the others of the same player are apart.
LEMMA OneSpellMore ==
  ASSUME Chart!TimelineConstants, Chart!TotalsGrow, ChartInv, now >= Chart!cutoff,
         NEW p \in Players, NEW T \in SUBSET Chart!Stints, NEW x \in T,
         \A i \in T : spells[i].player = p /\ Chart!Points(i) # None
  PROVE  Cardinality(MadeIn(T)) = Chart!Points(x) + Cardinality(MadeIn(Without(T, x)))
<1> DEFINE others == Without(T, x)
<1>1. others \in SUBSET Chart!Stints /\ (\A i \in others : spells[i].player = p) /\ others \subseteq T
      /\ x \notin others
  BY DEF Without
<1>2. IsFiniteSet(Worth(x)) /\ Chart!Points(x) = Cardinality(Worth(x))
  BY PointsAreWorth
<1>3. IsFiniteSet(MadeIn(others))
  BY <1>1, MadeSinceTheCutoff
<1>4. MadeIn(T) = Worth(x) \union MadeIn(others)
  BY DEF MadeIn, Without
<1>5. \A i \in others : Worth(x) \cap Worth(i) = {}
  BY <1>1, WorthApart
<1>6. Worth(x) \cap MadeIn(others) = {}
  <2> HIDE DEF others
  <2> QED BY <1>5 DEF MadeIn
<1> HIDE DEF others
<1> DEFINE a == Worth(x)
           b == MadeIn(others)
<1>7. Cardinality(a \union b) = Cardinality(a) + Cardinality(b) - Cardinality(a \cap b)
  BY <1>2, <1>3, FS_Union
<1>8. Cardinality(a \cap b) = 0 /\ Cardinality(a) \in Nat /\ Cardinality(b) \in Nat
  BY <1>2, <1>3, <1>6, FS_EmptySet, FS_CardinalityType
<1>9. Cardinality(a \union b) = Cardinality(a) + Cardinality(b)
  <2> HIDE DEF a, b
  <2> QED BY <1>7, <1>8
<1> QED BY <1>2, <1>4, <1>9 DEF others

\* In whichever order the fold takes the spells, it counts the points made in them.
LEMMA ThePointsAddUp ==
  ASSUME Chart!TimelineConstants, Chart!TotalsGrow, ChartInv, now >= Chart!cutoff,
         NEW p \in Players, NEW S \in SUBSET Chart!Stints,
         \A i \in S : spells[i].player = p /\ Chart!Points(i) # None
  PROVE  Chart!MapThenSumSet(Chart!Points, S) = Cardinality(MadeIn(S))
<1> DEFINE A == [T \in SUBSET S |-> Cardinality(MadeIn(T))]
           sum == SumOfPoints(S)
<1>1. ASSUME NEW T \in SUBSET S, T # {} PROVE TakenFrom(T) \in T /\ Without(T, TakenFrom(T)) \in SUBSET S
  BY <1>1 DEF TakenFrom, Without
<1>2. ASSUME NEW T \in SUBSET S
      PROVE  A[T] = IF T = {} THEN 0 ELSE Chart!Points(TakenFrom(T)) + A[Without(T, TakenFrom(T))]
  <2>1. CASE T = {}
    <3>1. MadeIn(T) = {}
      BY <2>1 DEF MadeIn
    <3> QED BY <2>1, <3>1, FS_EmptySet
  <2>2. CASE T # {}
    <3> DEFINE x == TakenFrom(T)
    <3>1. x \in T /\ Without(T, x) \in SUBSET S
      BY <1>1, <2>2
    <3>2. T \in SUBSET Chart!Stints /\ \A i \in T : spells[i].player = p /\ Chart!Points(i) # None
      OBVIOUS
    <3> HIDE DEF x
    <3>3. Cardinality(MadeIn(T)) = Chart!Points(x) + Cardinality(MadeIn(Without(T, x)))
      BY <3>1, <3>2, OneSpellMore
    <3> QED BY <2>2, <3>1, <3>3 DEF x
  <2> QED BY <2>1, <2>2
<1>3. SumsPoints(A, S)
  <2> DEFINE B == [T \in SUBSET S |-> IF T = {} THEN 0
                                      ELSE Chart!Points(TakenFrom(T)) + A[Without(T, TakenFrom(T))]]
  <2>1. \A T \in SUBSET S : A[T] = B[T]
    BY <1>2
  <2>2. A = B
    <3>1. A = [T \in SUBSET S |-> A[T]] /\ B = [T \in SUBSET S |-> B[T]]
      OBVIOUS
    <3> HIDE DEF A, B
    <3> QED BY <2>1, <3>1
  <2> HIDE DEF A
  <2> QED BY <2>2 DEF SumsPoints
<1>4. SumsPoints(sum, S)
  <2> HIDE DEF A
  <2> QED BY <1>3 DEF SumOfPoints, sum
<1> HIDE DEF sum
<1>5. \A T \in SUBSET S :
        sum[T] = IF T = {} THEN 0 ELSE Chart!Points(TakenFrom(T)) + sum[Without(T, TakenFrom(T))]
  <2> DEFINE B == [T \in SUBSET S |-> IF T = {} THEN 0
                                      ELSE Chart!Points(TakenFrom(T)) + sum[Without(T, TakenFrom(T))]]
  <2>1. \A T \in SUBSET S :
          B[T] = IF T = {} THEN 0 ELSE Chart!Points(TakenFrom(T)) + sum[Without(T, TakenFrom(T))]
    OBVIOUS
  <2>2. sum = B
    BY <1>4 DEF SumsPoints
  <2> HIDE DEF B
  <2> QED BY <2>1, <2>2
<1>6. \A T \in SUBSET S :
        A[T] = IF T = {} THEN 0 ELSE Chart!Points(TakenFrom(T)) + A[Without(T, TakenFrom(T))]
  BY <1>2
<1>7. \A T \in SUBSET S : IsFiniteSet(T)
  <2>1. IsFiniteSet(1..Len(spells)) /\ S \subseteq 1..Len(spells)
    BY FS_Interval, ChartTypes, SpellFacts
  <2> QED BY <2>1, FS_Subset
<1> HIDE DEF A
<1> DEFINE U == {n \in Nat : \A T \in SUBSET S : Cardinality(T) = n => sum[T] = A[T]}
<1>8. 0 \in U
  <2> SUFFICES ASSUME NEW T \in SUBSET S, Cardinality(T) = 0 PROVE sum[T] = A[T]
    OBVIOUS
  <2>1. T = {}
    BY <1>7, FS_EmptySet
  <2> QED BY <1>5, <1>6, <2>1
<1>9. ASSUME NEW n \in Nat, n \in U PROVE n + 1 \in U
  <2> SUFFICES ASSUME NEW T \in SUBSET S, Cardinality(T) = n + 1 PROVE sum[T] = A[T]
    OBVIOUS
  <2>1. T # {}
    BY FS_EmptySet
  <2> DEFINE others == Without(T, TakenFrom(T))
  <2>2. TakenFrom(T) \in T /\ others \in SUBSET S
    BY <1>1, <2>1
  <2>3. Cardinality(others) = n
    <3> DEFINE x == TakenFrom(T)
    <3>1. IsFiniteSet(T) /\ x \in T
      BY <1>7, <2>2
    <3>2. others = T \ {x}
      BY DEF Without
    <3> HIDE DEF x, others
    <3>3. Cardinality(T \ {x}) = Cardinality(T) - 1
      BY <3>1, FS_RemoveElement
    <3> QED BY <3>2, <3>3
  <2> HIDE DEF others
  <2>4. sum[others] = A[others]
    BY <1>9, <2>2, <2>3
  <2>5. /\ sum[T] = Chart!Points(TakenFrom(T)) + sum[others]
        /\ A[T] = Chart!Points(TakenFrom(T)) + A[others]
    BY <1>5, <1>6, <2>1 DEF others
  <2> QED BY <2>4, <2>5
<1>10. Nat \subseteq U
  <2> HIDE DEF U
  <2> QED BY <1>8, <1>9, SetInduction
<1>11. S \in SUBSET S /\ Cardinality(S) \in Nat
  BY <1>7, FS_CardinalityType
<1>12. sum[S] = A[S]
  BY <1>10, <1>11
<1>13. A[S] = Cardinality(MadeIn(S))
  BY <1>11 DEF A
<1> QED BY <1>12, <1>13, SumOfPointsIs DEF sum

\* The points on the chart of any roster of which the invariant holds.
LEMMA TheChartCounts ==
  ASSUME Chart!TimelineConstants, Chart!TotalsGrow, ChartInv
  PROVE  Chart!PointsCountedOnce
<1> SUFFICES ASSUME now >= Chart!cutoff, NEW p \in Players,
                    NEW known, known = {i \in Chart!Stints : spells[i].player = p /\ Chart!Points(i) # None},
                    known # {}
             PROVE  Chart!MapThenSumSet(Chart!Points, known)
                      <= Chart!TotalAt(p, now)
                           - (IF Chart!TotalAt(p, Chart!cutoff) = None THEN 0 ELSE Chart!TotalAt(p, Chart!cutoff))
  BY DEF Chart!PointsCountedOnce
<1>1. known \in SUBSET Chart!Stints /\ \A i \in known : spells[i].player = p /\ Chart!Points(i) # None
  OBVIOUS
<1>2. Chart!MapThenSumSet(Chart!Points, known) = Cardinality(MadeIn(known))
  BY <1>1, ThePointsAddUp
<1>3. Cardinality(MadeIn(known)) <= Reached(p, now) - Reached(p, Chart!cutoff)
  BY <1>1, MadeSinceTheCutoff
<1>4. Reached(p, now) = Chart!TotalAt(p, now)
  <2>1. PICK i \in known : TRUE
    OBVIOUS
  <2>2. i \in Chart!Stints /\ spells[i].player = p /\ Chart!Points(i) # None
    BY <1>1
  <2>3. Chart!TotalAt(p, Until(i)) # None
    BY <2>2, PointsAreWorth
  <2>4. Until(i) \in Nat /\ now \in Nat /\ Until(i) <= now
    BY <2>2, SpellLasts, ChartTypes
  <2>5. Chart!TotalAt(p, now) # None
    BY <2>3, <2>4, ReachedGrows
  <2> QED BY <2>5 DEF Reached
<1> QED BY <1>2, <1>3, <1>4 DEF Reached

\* A player's spells together have at most what he scored since the chart begins.
THEOREM NoPointTwice ==
  Chart!TimelineConstants /\ Chart!TotalsGrow => (Chart!Spec => []Chart!PointsCountedOnce)
<1> SUFFICES ASSUME Chart!TimelineConstants, Chart!TotalsGrow
             PROVE  Chart!Spec => []Chart!PointsCountedOnce
  OBVIOUS
<1>1. ChartInv => Chart!PointsCountedOnce
  BY TheChartCounts
<1>2. Chart!Spec => []ChartInv
  BY ChartHolds
<1> QED BY <1>1, <1>2, PTL
=============================================================================
