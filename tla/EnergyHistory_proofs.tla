-------------------------- MODULE EnergyHistory_proofs --------------------------
(***************************************************************************)
(* Proofs about EnergyHistory, for tables, windows and segments of any      *)
(* length: that the bars of a page agree with the meter, and that a curve   *)
(* is whole where it should be, broken where it should be, and keeps its    *)
(* ends when it is thinned out.                                             *)
(*                                                                          *)
(* What is computed row by row is proved row by row.  The induction is      *)
(* Climb, from the least element of a set of numbers; a recursive function  *)
(* is first shown to exist (StepByStep), then to take its steps (KeptUpTo,  *)
(* BarsUpTo, SumUpTo, FlattenUpTo, SplitUpTo).                              *)
(***************************************************************************)
EXTENDS EnergyHistory, FiniteSetTheorems, SequenceTheorems, WellFoundedInduction, TLAPS

LEMMA LessIsWellFounded == IsWellFoundedOn({p \in Nat \X Nat : p[1] < p[2]}, Nat)
<1>1. OpToRel(<, Nat) = {p \in Nat \X Nat : p[1] < p[2]}
  BY DEF OpToRel
<1> QED BY <1>1, NatLessThanWellFounded

(* A set of numbers that holds 0 and with a number the next holds them all. *)
LEMMA Numbers ==
  ASSUME NEW S \in SUBSET Nat, 0 \in S, \A n \in S : n + 1 \in S
  PROVE  S = Nat
<1> SUFFICES ASSUME Nat \ S # {} PROVE FALSE
  OBVIOUS
<1>1. PICK n \in Nat \ S : \A m \in Nat \ S : <<m, n>> \notin {p \in Nat \X Nat : p[1] < p[2]}
  BY LessIsWellFounded, WFMin
<1>2. n # 0 /\ n - 1 \in Nat /\ n - 1 < n
  OBVIOUS
<1>3. n - 1 \in S
  BY <1>1, <1>2
<1> QED BY <1>2, <1>3

(* A set of numbers has a least one.                                        *)
LEMMA Least ==
  ASSUME NEW S \in SUBSET Nat, S # {}
  PROVE  \E n \in S : n = 0 \/ (n - 1 \in Nat /\ n - 1 \notin S)
<1>1. PICK n \in S : \A m \in S : <<m, n>> \notin {p \in Nat \X Nat : p[1] < p[2]}
  BY LessIsWellFounded, WFMin
<1>2. n # 0 => n - 1 \in Nat /\ n - 1 < n
  OBVIOUS
<1> QED BY <1>1, <1>2

(* Induction up to n.                                                       *)
LEMMA Climb ==
  ASSUME NEW n \in Nat, NEW S, 0 \in S, \A i \in 1..n : i - 1 \in S => i \in S
  PROVE  n \in S
<1> DEFINE R == {m \in Nat : m <= n => m \in S}
<1>1. 0 \in R
  OBVIOUS
<1>2. ASSUME NEW m \in R PROVE m + 1 \in R
  <2>1. CASE m + 1 <= n
    <3>1. m + 1 \in 1..n /\ (m + 1) - 1 = m /\ m \in S
      BY <2>1
    <3>2. m + 1 \in S
      BY <3>1
    <3> QED BY <3>2
  <2>2. CASE ~(m + 1 <= n)
    BY <2>2
  <2> QED BY <2>1, <2>2
<1>3. R \in SUBSET Nat
  OBVIOUS
<1> HIDE DEF R
<1>4. R = Nat
  BY <1>1, <1>2, <1>3, Numbers
<1> QED BY <1>4 DEF R

(* A function given step by step exists.                                    *)
Solves(f, n, V, base, step) ==
  f \in [0..n -> V] /\ f[0] = base /\ \A i \in 1..n : f[i] = step[<<i, f[i - 1]>>]

LEMMA StepByStep ==
  ASSUME NEW n \in Nat, NEW V, NEW base \in V, NEW step \in [(1..n) \X V -> V]
  PROVE  \E f : Solves(f, n, V, base, step)
<1> DEFINE S == {m \in 0..n : \E f : Solves(f, m, V, base, step)}
<1>1. 0 \in S
  <2> DEFINE f == [i \in 0..0 |-> base]
  <2>1. f \in [0..0 -> V] /\ f[0] = base /\ 1..0 = {}
    OBVIOUS
  <2>2. Solves(f, 0, V, base, step)
    BY <2>1 DEF Solves
  <2> QED BY <2>2
<1>2. ASSUME NEW i \in 1..n, i - 1 \in S PROVE i \in S
  <2>1. PICK f : Solves(f, i - 1, V, base, step)
    BY <1>2
  <2>2. f \in [0..(i - 1) -> V] /\ f[0] = base /\ \A j \in 1..(i - 1) : f[j] = step[<<j, f[j - 1]>>]
    BY <2>1 DEF Solves
  <2> DEFINE g == [j \in 0..i |-> IF j = i THEN step[<<i, f[i - 1]>>] ELSE f[j]]
  <2>3. f[i - 1] \in V /\ step[<<i, f[i - 1]>>] \in V
    BY <2>2
  <2>4. \A j \in 0..i : g[j] \in V
    BY <2>2, <2>3
  <2>5. g \in [0..i -> V] /\ g[0] = base
    BY <2>2, <2>4
  <2>6. ASSUME NEW j \in 1..i PROVE g[j] = step[<<j, g[j - 1]>>]
    <3>1. CASE j = i
      <4>1. g[j] = step[<<i, f[i - 1]>>] /\ g[j - 1] = f[i - 1]
        BY <3>1
      <4> QED BY <3>1, <4>1
    <3>2. CASE j # i
      <4>1. j \in 1..(i - 1) /\ g[j] = f[j] /\ g[j - 1] = f[j - 1]
        BY <3>2
      <4> QED BY <2>2, <4>1
    <3> QED BY <3>1, <3>2
  <2> HIDE DEF g
  <2>7. Solves(g, i, V, base, step)
    BY <2>5, <2>6 DEF Solves
  <2> QED BY <2>7
<1> HIDE DEF S
<1>3. n \in S
  BY <1>1, <1>2, Climb
<1> QED BY <1>3 DEF S

-----------------------------------------------------------------------------
(* Kept goes through the positions one by one.                              *)
KeepsUpTo(f, rs, keep) ==
  /\ f[0] = <<>>
  /\ \A i \in 1..Len(rs) : f[i] = IF i \in keep THEN Append(f[i - 1], rs[i]) ELSE f[i - 1]

LEMMA KeptUpTo ==
  ASSUME NEW T, NEW rs \in Seq(T), NEW keep
  PROVE  \E f : KeepsUpTo(f, rs, keep) /\ Kept(rs, keep) = f[Len(rs)]
<1> DEFINE n == Len(rs)
           V == Seq(T)
           step == [c \in (1..n) \X V |-> IF c[1] \in keep THEN Append(c[2], rs[c[1]]) ELSE c[2]]
           Is(f) == f = [i \in 0..n |->
                      IF i = 0 THEN <<>> ELSE IF i \in keep THEN Append(f[i - 1], rs[i]) ELSE f[i - 1]]
<1>0. n \in Nat /\ <<>> \in V
  OBVIOUS
<1>1. step \in [(1..n) \X V -> V]
  <2>1. ASSUME NEW i \in 1..n, NEW q \in V
        PROVE  (IF i \in keep THEN Append(q, rs[i]) ELSE q) \in V
    <3>1. rs[i] \in T
      OBVIOUS
    <3> QED BY <3>1
  <2>2. \A c \in (1..n) \X V : (IF c[1] \in keep THEN Append(c[2], rs[c[1]]) ELSE c[2]) \in V
    BY <2>1
  <2> HIDE DEF V
  <2> QED BY <2>2, Zenon
<1>2. PICK f : Solves(f, n, V, <<>>, step)
  <2> HIDE DEF step, V, n
  <2> QED BY <1>0, <1>1, StepByStep
<1>3. f \in [0..n -> V] /\ f[0] = <<>> /\ \A i \in 1..n : f[i] = step[<<i, f[i - 1]>>]
  BY <1>2 DEF Solves
<1>4. Is(f)
  <2>1. ASSUME NEW i \in 0..n
        PROVE  f[i] = IF i = 0 THEN <<>> ELSE IF i \in keep THEN Append(f[i - 1], rs[i]) ELSE f[i - 1]
    <3>1. CASE i = 0
      BY <1>3, <3>1
    <3>2. CASE i # 0
      <4>1. i \in 1..n /\ f[i - 1] \in V
        BY <1>0, <1>3, <3>2
      <4>2. step[<<i, f[i - 1]>>] = IF i \in keep THEN Append(f[i - 1], rs[i]) ELSE f[i - 1]
        BY <4>1
      <4> QED BY <1>3, <3>2, <4>1, <4>2
    <3> QED BY <3>1, <3>2
  <2>2. f = [i \in 0..n |-> f[i]]
    BY <1>3
  <2> QED BY <2>1, <2>2
<1> DEFINE g == CHOOSE h : Is(h)
<1>5. Is(g)
  <2> HIDE DEF Is
  <2> QED BY <1>4
<1>6. Kept(rs, keep) = g[n]
  BY DEF Kept
<1> HIDE DEF g
<1>7. KeepsUpTo(g, rs, keep)
  <2>1. 0 \in 0..n /\ \A i \in 1..n : i \in 0..n /\ i # 0
    BY <1>0
  <2> QED BY <1>5, <2>1 DEF KeepsUpTo
<1> QED BY <1>6, <1>7

(* The rows that stay keep any order R that they have in the table; they    *)
(* are the rows at the kept positions, and all of these.                    *)
Ordered(rs, R) == \A j, k \in DOMAIN rs : j < k => <<rs[j], rs[k]>> \in R

Holds(q, rs, at) ==
  /\ \A j \in DOMAIN q : \E k \in at : q[j] = rs[k]
  /\ \A k \in at : \E j \in DOMAIN q : q[j] = rs[k]

LEMMA KeptRows ==
  ASSUME NEW T, NEW rs \in Seq(T), NEW keep, NEW R,
         \A j, k \in DOMAIN rs \cap keep : j < k => <<rs[j], rs[k]>> \in R
  PROVE  /\ Kept(rs, keep) \in Seq(T) /\ Ordered(Kept(rs, keep), R)
         /\ Holds(Kept(rs, keep), rs, DOMAIN rs \cap keep)
<1> DEFINE n == Len(rs)
<1>1. PICK f : KeepsUpTo(f, rs, keep) /\ Kept(rs, keep) = f[n]
  BY KeptUpTo
<1> DEFINE Before(q, i) == \A j \in 1..Len(q), k \in ((i + 1)..n) \cap keep : <<q[j], rs[k]>> \in R
           Done(q, i) == q \in Seq(T) /\ Ordered(q, R) /\ Before(q, i) /\ Holds(q, rs, (1..i) \cap keep)
           S == {i \in 0..n : Done(f[i], i)}
<1>0. n \in Nat /\ DOMAIN rs = 1..n
  OBVIOUS
<1>2. 0 \in S
  <2>1. f[0] = <<>>
    BY <1>1 DEF KeepsUpTo
  <2>2. <<>> \in Seq(T) /\ 1..Len(<<>>) = {} /\ DOMAIN <<>> = {} /\ 1..0 = {}
    OBVIOUS
  <2>3. Ordered(<<>>, R) /\ Before(<<>>, 0) /\ Holds(<<>>, rs, (1..0) \cap keep)
    BY <2>2 DEF Ordered, Holds
  <2>4. 0 \in 0..n
    BY <1>0
  <2> HIDE DEF n, Before
  <2> QED BY <2>1, <2>2, <2>3, <2>4
<1>3. ASSUME NEW i \in 1..n, i - 1 \in S PROVE i \in S
  <2> DEFINE q == f[i - 1]
  <2>0. q \in Seq(T) /\ Ordered(q, R) /\ Before(q, i - 1) /\ Holds(q, rs, (1..(i - 1)) \cap keep)
    BY <1>3
  <2>1. \A k \in (i + 1)..n : k \in ((i - 1) + 1)..n
    OBVIOUS
  <2>2. i \in ((i - 1) + 1)..n /\ rs[i] \in T
    OBVIOUS
  <2>3. CASE i \in keep
    <3> DEFINE p == Append(q, rs[i])
    <3>1. f[i] = p
      BY <1>1, <2>3 DEF KeepsUpTo
    <3>a. \A k \in ((i + 1)..n) \cap keep : <<rs[i], rs[k]>> \in R
      BY <1>0, <2>3
    <3>b. (1..i) \cap keep = ((1..(i - 1)) \cap keep) \cup {i}
      BY <2>3
    <3> HIDE DEF q
    <3>2. /\ p \in Seq(T) /\ Len(p) = Len(q) + 1 /\ DOMAIN p = 1..(Len(q) + 1)
          /\ p[Len(q) + 1] = rs[i] /\ Len(q) \in Nat /\ DOMAIN q = 1..Len(q)
          /\ \A j \in 1..Len(q) : p[j] = q[j]
      BY <2>0, <2>2
    <3> HIDE DEF p
    <3>3. \A j \in 1..(Len(q) + 1) : j = Len(q) + 1 \/ j \in 1..Len(q)
      BY <3>2
    <3>4. Before(p, i)
      BY <2>0, <2>1, <3>a, <3>2, <3>3
    <3>5. Ordered(p, R)
      <4> SUFFICES ASSUME NEW j \in DOMAIN p, NEW k \in DOMAIN p, j < k PROVE <<p[j], p[k]>> \in R
        BY DEF Ordered
      <4>1. j \in 1..Len(q)
        BY <3>2
      <4>2. CASE k = Len(q) + 1
        BY <2>0, <2>2, <2>3, <3>2, <4>1, <4>2
      <4>3. CASE k # Len(q) + 1
        BY <2>0, <3>2, <3>3, <4>1, <4>3 DEF Ordered
      <4> QED BY <4>2, <4>3
    <3>6. Holds(p, rs, ((1..(i - 1)) \cap keep) \cup {i})
      <4>1. \A j \in 1..Len(q) : j \in 1..(Len(q) + 1)
        BY <3>2
      <4>2. Len(q) + 1 \in 1..(Len(q) + 1)
        BY <3>2
      <4> QED BY <2>0, <3>2, <3>3, <4>1, <4>2 DEF Holds
    <3> HIDE DEF Before
    <3>7. Done(p, i)
      BY <3>2, <3>4, <3>5, <3>6, <3>b
    <3> HIDE DEF Done
    <3> QED BY <1>0, <3>1, <3>7
  <2>4. CASE i \notin keep
    <3>1. f[i] = q
      BY <1>1, <2>4 DEF KeepsUpTo
    <3>2. Before(q, i)
      BY <2>0, <2>1
    <3>3. (1..i) \cap keep = (1..(i - 1)) \cap keep
      BY <2>4
    <3> HIDE DEF Before, q
    <3>4. Done(q, i)
      BY <2>0, <3>2, <3>3
    <3> HIDE DEF Done
    <3> QED BY <1>0, <3>1, <3>4
  <2> QED BY <2>3, <2>4
<1> HIDE DEF S
<1>4. n \in S
  BY <1>2, <1>3, Climb
<1> QED BY <1>0, <1>1, <1>4 DEF S

LEMMA KeptInOrder ==
  ASSUME NEW T, NEW rs \in Seq(T), NEW keep, NEW R, Ordered(rs, R)
  PROVE  Kept(rs, keep) \in Seq(T) /\ Ordered(Kept(rs, keep), R)
<1>1. \A j, k \in DOMAIN rs \cap keep : j < k => <<rs[j], rs[k]>> \in R
  BY Zenon DEF Ordered
<1> QED BY <1>1, KeptRows

LEMMA KeptAll ==
  ASSUME NEW T, NEW rs \in Seq(T), NEW keep, DOMAIN rs \subseteq keep
  PROVE  Kept(rs, keep) = rs
<1> DEFINE n == Len(rs)
<1>0. n \in Nat /\ DOMAIN rs = 1..n
  OBVIOUS
<1>1. PICK f : KeepsUpTo(f, rs, keep) /\ Kept(rs, keep) = f[n]
  BY KeptUpTo
<1> DEFINE S == {i \in 0..n : f[i] \in Seq(T) /\ Len(f[i]) = i /\ \A j \in 1..i : f[i][j] = rs[j]}
<1>2. 0 \in S
  <2>1. f[0] = <<>>
    BY <1>1 DEF KeepsUpTo
  <2>2. <<>> \in Seq(T) /\ Len(<<>>) = 0 /\ \A j \in 1..0 : <<>>[j] = rs[j]
    OBVIOUS
  <2>3. f[0] \in Seq(T) /\ Len(f[0]) = 0 /\ \A j \in 1..0 : f[0][j] = rs[j]
    BY <2>1, <2>2
  <2> HIDE DEF n
  <2> QED BY <1>0, <2>3
<1>3. ASSUME NEW i \in 1..n, i - 1 \in S PROVE i \in S
  <2> DEFINE q == f[i - 1]
             p == Append(q, rs[i])
  <2>1. f[i] = p
    BY <1>0, <1>1 DEF KeepsUpTo
  <2>2. q \in Seq(T) /\ Len(q) = i - 1 /\ \A j \in 1..(i - 1) : q[j] = rs[j]
    BY <1>3
  <2>3. rs[i] \in T
    OBVIOUS
  <2> HIDE DEF q
  <2>4. p \in Seq(T) /\ Len(p) = i /\ p[i] = rs[i] /\ \A j \in 1..(i - 1) : p[j] = rs[j]
    BY <2>2, <2>3
  <2> HIDE DEF p
  <2>5. \A j \in 1..i : p[j] = rs[j]
    BY <2>4
  <2> QED BY <2>1, <2>4, <2>5
<1> HIDE DEF S
<1>4. n \in S
  BY <1>0, <1>2, <1>3, Climb
<1>5. f[n] \in Seq(T) /\ Len(f[n]) = Len(rs) /\ \A j \in 1..Len(rs) : f[n][j] = rs[j]
  BY <1>4 DEF S
<1> QED BY <1>1, <1>5, SeqEqual

-----------------------------------------------------------------------------
(* The bars and their sum, row by row.                                      *)
PrevUpTo(p, rs) ==
  /\ p[0] = None
  /\ \A i \in 1..Len(rs) : p[i] = PrevTotal(rs[i], p[i - 1])

AddsUpTo(s, bars) ==
  /\ s[0] = 0
  /\ \A i \in 1..Len(bars) : s[i] = s[i - 1] + bars[i]

Rows == [at : Nat, total : Int, delta : Int, serial : Nat, used : Nat]

LEMMA BarsUpTo ==
  ASSUME NEW rs \in Seq(Rows)
  PROVE  \E p : PrevUpTo(p, rs) /\ Bars(rs) = [i \in 1..Len(rs) |-> Bar(rs[i], p[i - 1])]
<1> DEFINE n == Len(rs)
           step == [c \in (1..n) \X Int |-> PrevTotal(rs[c[1]], c[2])]
           Is(p) == p = [i \in 0..n |-> IF i = 0 THEN None ELSE PrevTotal(rs[i], p[i - 1])]
<1>0. n \in Nat /\ None \in Int
  BY DEF None
<1>1. step \in [(1..n) \X Int -> Int]
  <2>1. \A i \in 1..n : rs[i] \in Rows
    OBVIOUS
  <2>2. \A c \in (1..n) \X Int : PrevTotal(rs[c[1]], c[2]) \in Int
    BY <2>1 DEF PrevTotal, Rows
  <2> QED BY <2>2, Zenon
<1>2. PICK p : Solves(p, n, Int, None, step)
  <2> HIDE DEF step, n
  <2> QED BY <1>0, <1>1, StepByStep
<1>3. p \in [0..n -> Int] /\ p[0] = None /\ \A i \in 1..n : p[i] = step[<<i, p[i - 1]>>]
  BY <1>2 DEF Solves
<1>4. Is(p)
  <2>1. ASSUME NEW i \in 0..n
        PROVE  p[i] = IF i = 0 THEN None ELSE PrevTotal(rs[i], p[i - 1])
    <3>1. CASE i = 0
      BY <1>3, <3>1
    <3>2. CASE i # 0
      <4>1. i \in 1..n /\ p[i - 1] \in Int
        BY <1>0, <1>3, <3>2
      <4>2. step[<<i, p[i - 1]>>] = PrevTotal(rs[i], p[i - 1])
        BY <4>1
      <4> QED BY <1>3, <3>2, <4>1, <4>2
    <3> QED BY <3>1, <3>2
  <2>2. p = [i \in 0..n |-> p[i]]
    BY <1>3
  <2> QED BY <2>1, <2>2
<1> DEFINE g == CHOOSE h : Is(h)
<1>5. Is(g)
  <2> HIDE DEF Is
  <2> QED BY <1>4
<1>6. Bars(rs) = [i \in 1..n |-> Bar(rs[i], g[i - 1])]
  BY DEF Bars
<1> HIDE DEF g
<1>7. PrevUpTo(g, rs)
  <2>1. 0 \in 0..n /\ \A i \in 1..n : i \in 0..n /\ i # 0
    BY <1>0
  <2> QED BY <1>5, <2>1 DEF PrevUpTo
<1> QED BY <1>6, <1>7

LEMMA PrevTypes ==
  ASSUME NEW rs \in Seq(Rows), NEW p, PrevUpTo(p, rs), NEW m \in 0..Len(rs)
  PROVE  p[m] \in Int
<1> DEFINE S == {i \in 0..m : p[i] \in Int}
<1>1. 0 \in S
  BY DEF PrevUpTo, None
<1>2. ASSUME NEW i \in 1..m, i - 1 \in S PROVE i \in S
  <2>1. i \in 1..Len(rs) /\ rs[i] \in Rows /\ p[i - 1] \in Int
    BY <1>2
  <2>2. p[i] = PrevTotal(rs[i], p[i - 1])
    BY <2>1 DEF PrevUpTo
  <2>3. p[i] \in Int
    BY <2>1, <2>2 DEF PrevTotal, Rows
  <2> QED BY <2>3
<1> HIDE DEF S
<1>3. m \in S
  BY <1>1, <1>2, Climb
<1> QED BY <1>3 DEF S

LEMMA SumUpTo ==
  ASSUME NEW bars \in Seq(Nat)
  PROVE  \E s : AddsUpTo(s, bars) /\ Sum(bars) = s[Len(bars)]
<1> DEFINE n == Len(bars)
           step == [c \in (1..n) \X Int |-> c[2] + bars[c[1]]]
           Is(s) == s = [i \in 0..n |-> IF i = 0 THEN 0 ELSE s[i - 1] + bars[i]]
<1>0. n \in Nat /\ 0 \in Int /\ \A i \in 1..n : bars[i] \in Nat
  OBVIOUS
<1>1. step \in [(1..n) \X Int -> Int]
  <2>1. \A c \in (1..n) \X Int : c[2] + bars[c[1]] \in Int
    BY <1>0
  <2> HIDE DEF n
  <2> QED BY <2>1
<1>2. PICK s : Solves(s, n, Int, 0, step)
  <2> HIDE DEF step, n, Is
  <2> QED BY <1>0, <1>1, StepByStep, Zenon
<1>3. s \in [0..n -> Int] /\ s[0] = 0 /\ \A i \in 1..n : s[i] = step[<<i, s[i - 1]>>]
  BY <1>2 DEF Solves
<1>4. Is(s)
  <2>1. ASSUME NEW i \in 0..n PROVE s[i] = IF i = 0 THEN 0 ELSE s[i - 1] + bars[i]
    <3>1. CASE i = 0
      BY <1>3, <3>1
    <3>2. CASE i # 0
      <4>1. i \in 1..n /\ s[i - 1] \in Int
        BY <1>0, <1>3, <3>2
      <4>2. step[<<i, s[i - 1]>>] = s[i - 1] + bars[i]
        BY <4>1
      <4> QED BY <1>3, <3>2, <4>1, <4>2
    <3> QED BY <3>1, <3>2
  <2>2. s = [i \in 0..n |-> s[i]]
    BY <1>3
  <2> QED BY <2>1, <2>2
<1> DEFINE g == CHOOSE h : Is(h)
<1>5. Is(g)
  <2> HIDE DEF Is
  <2> QED BY <1>4
<1>6. Sum(bars) = g[n]
  BY DEF Sum
<1> HIDE DEF g
<1>7. AddsUpTo(g, bars)
  <2>1. 0 \in 0..n /\ \A i \in 1..n : i \in 0..n /\ i # 0
    BY <1>0
  <2> QED BY <1>5, <2>1 DEF AddsUpTo
<1> QED BY <1>6, <1>7

-----------------------------------------------------------------------------
(* What the total and the delta of a report are.                            *)
Meter(n) == IF resetAt = None \/ n < resetAt THEN n ELSE n - resetAt + 1
Delta(n) == IF n = 0 THEN 0 ELSE 1

Blank(r) == r.total = None /\ r.delta = None
Full(r) ==
  /\ r.total = IF "total" \in gives THEN Meter(r.serial) ELSE None
  /\ r.delta = IF "delta" \in gives THEN Delta(r.serial) ELSE None

\* The rows that can have been saved by now, and the order they are in.
Valid == {r \in Rows : /\ r.used = r.serial /\ (Blank(r) \/ Full(r))
                       /\ r.at <= now /\ r.serial <= report.serial}
InTime == {p \in Rows \X Rows : p[1].at <= p[2].at /\ p[1].serial <= p[2].serial}

MeterInv ==
  /\ now \in Nat
  /\ report \in [serial : Nat \ {0}, total : Nat, delta : Nat, used : Nat]
  /\ used = report.serial /\ report.used = report.serial
  /\ resetAt = None \/ resetAt \in 1..report.serial
  /\ report.total = Meter(report.serial) /\ report.delta = Delta(report.serial)
  /\ gives \in {{"total"}, {"delta"}, {"total", "delta"}}

HistoryInv == MeterInv /\ rows \in Seq(Valid) /\ Ordered(rows, InTime)

LEMMA HistoryInit == Init => HistoryInv
<1> SUFFICES ASSUME Init PROVE HistoryInv
  OBVIOUS
<1>1. MeterInv
  BY DEF Init, MeterInv, Report1, Meter, Delta, None
<1> DEFINE r0 == Reading(0, Report0, gives)
           r1 == Reading(0, Report1, gives)
<1>2. r0 \in Rows /\ r1 \in Rows
  BY DEF Reading, Report0, Report1, Rows, None
<1>3. Full(r0) /\ Full(r1)
  BY DEF Init, Reading, Report0, Report1, Full, Meter, Delta, None
<1>4. r0 \in Valid /\ r1 \in Valid /\ <<r0, r1>> \in InTime
  BY <1>2, <1>3 DEF Init, Valid, InTime, Reading, Report0, Report1
<1>5. rows \in {<<>>, <<r0, r1>>}
  BY DEF Init
<1> HIDE DEF r0, r1
<1>6. rows \in Seq(Valid)
  <2>1. <<>> \in Seq(Valid)
    OBVIOUS
  <2>2. <<r0, r1>> \in Seq(Valid)
    BY <1>4
  <2> QED BY <1>5, <2>1, <2>2
<1>7. Ordered(rows, InTime)
  BY <1>4, <1>5 DEF Ordered
<1> QED BY <1>1, <1>6, <1>7 DEF HistoryInv

LEMMA RowTypes ==
  \A r \in Rows : r.at \in Nat /\ r.total \in Int /\ r.delta \in Int /\ r.serial \in Nat /\ r.used \in Nat
BY DEF Rows

(* The saved row takes the place of those of its time, or comes last.       *)
LEMMA UpsertInOrder ==
  ASSUME NEW T \in SUBSET Rows, NEW rs \in Seq(T), Ordered(rs, InTime), NEW r \in T,
         \A i \in DOMAIN rs : rs[i].at <= r.at /\ rs[i].serial <= r.serial
  PROVE  Upsert(rs, r) \in Seq(T) /\ Ordered(Upsert(rs, r), InTime)
<1>1. CASE \E i \in DOMAIN rs : rs[i].at = r.at
  <2> DEFINE q == [i \in DOMAIN rs |-> IF rs[i].at = r.at THEN r ELSE rs[i]]
  <2>1. Upsert(rs, r) = q
    BY <1>1 DEF Upsert
  <2>2. DOMAIN rs = 1..Len(rs) /\ Len(rs) \in Nat /\ \A i \in DOMAIN rs : rs[i] \in T
    OBVIOUS
  <2>3. \A i \in 1..Len(rs) : q[i] \in T
    BY <2>2
  <2>4. DOMAIN q = DOMAIN rs /\ q \in Seq(T)
    BY <2>2, <2>3
  <2>5. ASSUME NEW j \in DOMAIN rs, NEW k \in DOMAIN rs, j < k PROVE <<q[j], q[k]>> \in InTime
    <3>1. /\ rs[j] \in Rows /\ rs[k] \in Rows /\ r \in Rows
          /\ rs[j].at <= rs[k].at /\ rs[j].serial <= rs[k].serial
          /\ rs[j].at <= r.at /\ rs[j].serial <= r.serial
          /\ rs[k].at <= r.at /\ rs[k].serial <= r.serial
      BY <2>2, <2>5 DEF Ordered, InTime
    <3>2. q[j] = (IF rs[j].at = r.at THEN r ELSE rs[j]) /\ q[k] = (IF rs[k].at = r.at THEN r ELSE rs[k])
      OBVIOUS
    <3>3. \A a \in Rows, b \in Rows : a.at <= b.at /\ a.serial <= b.serial => <<a, b>> \in InTime
      BY DEF InTime
    <3>4. r.at \in Nat /\ r.serial \in Nat /\ rs[j].at \in Nat /\ rs[k].at \in Nat
      BY <3>1, RowTypes
    <3>5. r.at <= r.at /\ r.serial <= r.serial /\ (rs[j].at = r.at => rs[k].at = r.at)
      BY <3>1, <3>4
    <3> HIDE DEF q
    <3> QED BY <3>1, <3>2, <3>3, <3>4, <3>5
  <2> HIDE DEF q
  <2> QED BY <2>1, <2>4, <2>5 DEF Ordered
<1>2. CASE ~\E i \in DOMAIN rs : rs[i].at = r.at
  <2> DEFINE q == Append(rs, r)
  <2>1. Upsert(rs, r) = q
    BY <1>2 DEF Upsert
  <2>2. /\ q \in Seq(T) /\ DOMAIN q = 1..(Len(rs) + 1) /\ q[Len(rs) + 1] = r
        /\ Len(rs) \in Nat /\ DOMAIN rs = 1..Len(rs)
        /\ \A j \in 1..Len(rs) : q[j] = rs[j] /\ rs[j] \in T
    OBVIOUS
  <2> HIDE DEF q
  <2>3. ASSUME NEW j \in DOMAIN q, NEW k \in DOMAIN q, j < k PROVE <<q[j], q[k]>> \in InTime
    <3>1. j \in 1..Len(rs)
      BY <2>2, <2>3
    <3>2. CASE k = Len(rs) + 1
      <4>1. q[j] \in Rows /\ q[k] = r /\ r \in Rows /\ q[j].at <= r.at /\ q[j].serial <= r.serial
        BY <2>2, <3>1, <3>2
      <4> QED BY <4>1 DEF InTime
    <3>3. CASE k # Len(rs) + 1
      <4>1. k \in 1..Len(rs)
        BY <2>2, <3>3
      <4> QED BY <2>2, <2>3, <3>1, <4>1 DEF Ordered
    <3> QED BY <3>2, <3>3
  <2> QED BY <2>1, <2>2, <2>3 DEF Ordered
<1> QED BY <1>1, <1>2

(* Rows stay valid while the heater reports and its total begins again.     *)
LEMMA StillValid ==
  ASSUME MeterInv, NEW r \in Valid, gives' = gives, now' \in Nat, now <= now',
         report'.serial \in Nat, report.serial <= report'.serial,
         resetAt' = resetAt \/ (resetAt = None /\ resetAt' = report.serial + 1)
  PROVE  r \in Valid'
<1>1. r \in Rows /\ r.serial \in Nat /\ r.at \in Nat
  BY DEF Valid, Rows
<1>2. r.serial <= report.serial /\ r.at <= now /\ r.used = r.serial /\ report.serial \in Nat /\ now \in Nat
  BY DEF Valid, MeterInv
<1>3. Meter(r.serial)' = Meter(r.serial)
  BY <1>1, <1>2 DEF Meter, None
<1>4. Blank(r)' = Blank(r) /\ Full(r)' = Full(r)
  BY <1>3 DEF Blank, Full, Delta
<1>5. Blank(r) \/ Full(r)
  BY DEF Valid
<1> QED BY <1>1, <1>2, <1>4, <1>5 DEF Valid

LEMMA HistoryNext == HistoryInv /\ [Next]_vars => HistoryInv'
<1> SUFFICES ASSUME HistoryInv, [Next]_vars PROVE HistoryInv'
  OBVIOUS
<1>0. MeterInv /\ rows \in Seq(Valid) /\ Ordered(rows, InTime)
  BY DEF HistoryInv
<1>a. ASSUME MeterInv', \A r \in Valid : r \in Valid', rows' = rows PROVE HistoryInv'
  <2>1. \A i \in 1..Len(rows) : rows[i] \in Valid'
    BY <1>0, <1>a
  <2>2. rows \in Seq(Valid')
    BY <1>0, <2>1
  <2> QED BY <1>0, <1>a, <2>2 DEF HistoryInv, Ordered, InTime
<1>1. CASE Reports
  <2>1. MeterInv'
    BY <1>0, <1>1 DEF Reports, MeterInv, Meter, Delta, None
  <2>2. \A r \in Valid : r \in Valid'
    BY <1>0, <1>1, StillValid DEF Reports, MeterInv
  <2> QED BY <1>a, <1>1, <2>1, <2>2 DEF Reports
<1>2. CASE BeginsAgain
  <2>1. report.serial \in Nat \ {0} /\ used = report.serial
    BY <1>0 DEF MeterInv
  <2>3. /\ report' = [serial |-> report.serial + 1, total |-> 1, delta |-> 1, used |-> report.serial + 1]
        /\ used' = report.serial + 1 /\ resetAt' = report.serial + 1
        /\ UNCHANGED <<now, gives, rows>>
    BY <1>2, <2>1 DEF BeginsAgain
  <2>4. /\ report'.serial = report.serial + 1 /\ report'.total = 1 /\ report'.delta = 1
        /\ report'.used = report.serial + 1
        /\ report' \in [serial : Nat \ {0}, total : Nat, delta : Nat, used : Nat]
    BY <2>1, <2>3
  <2>7. resetAt' \in 1..report'.serial
    BY <2>1, <2>3, <2>4
  <2>8. (report.total = Meter(report.serial))' /\ (report.delta = Delta(report.serial))'
    <3>1. /\ resetAt' # None /\ ~(report'.serial < resetAt') /\ report'.serial # 0
          /\ report'.serial - resetAt' + 1 = 1
      BY <2>1, <2>3, <2>4 DEF None
    <3> QED BY <2>4, <3>1 DEF Meter, Delta
  <2>6. MeterInv'
    BY <1>0, <2>1, <2>3, <2>4, <2>7, <2>8 DEF MeterInv
  <2>2. \A r \in Valid : r \in Valid'
    BY <1>0, <1>2, StillValid DEF BeginsAgain, MeterInv
  <2> QED BY <1>a, <1>2, <2>2, <2>6 DEF BeginsAgain
<1>3. CASE Poll
  <2>1. PICK gap \in Gaps, fields \in {gives, {}} :
          now' = now + gap /\ rows' = Upsert(Cleaned(rows), Reading(now', report, fields))
    BY <1>3 DEF Poll
  <2>2. UNCHANGED <<used, resetAt, report, gives>>
    BY <1>3 DEF Poll
  <2>3. now' \in Nat /\ now <= now'
    BY <1>0, <2>1, HistoryAssumption DEF MeterInv
  <2>4. MeterInv'
    BY <1>0, <2>2, <2>3 DEF MeterInv, Meter
  <2>5. Valid \subseteq Valid'
    BY <1>0, <2>2, <2>3, StillValid DEF MeterInv
  <2> DEFINE rs == Cleaned(rows)
  <2>a. PICK r : r = Reading(now', report, fields)
    OBVIOUS
  <2>6. rs \in Seq(Valid) /\ Ordered(rs, InTime)
    BY <1>0, KeptInOrder, Zenon DEF Cleaned
  <2>7. r \in Valid'
    <3>1. r \in Rows /\ r.at = now' /\ r.serial = report.serial /\ r.used = report.serial
      BY <1>0, <2>3, <2>a DEF Reading, Rows, MeterInv, None
    <3>2. Blank(r)' \/ Full(r)'
      BY <1>0, <2>2, <2>a DEF Reading, Blank, Full, MeterInv, Meter, Delta
    <3>3. report'.serial = report.serial /\ report.serial <= report.serial /\ now' <= now'
      BY <1>0, <2>2, <2>3 DEF MeterInv
    <3>4. r.used = r.serial
      BY <1>0, <3>1 DEF MeterInv
    <3> QED BY <3>1, <3>2, <3>3, <3>4 DEF Valid
  <2>8. \A i \in DOMAIN rs : rs[i].at <= r.at /\ rs[i].serial <= r.serial
    <3>1. \A i \in DOMAIN rs : rs[i] \in Valid
      BY <2>6
    <3>2. \A v \in Valid : v.at <= now' /\ v.serial <= report.serial
      BY <1>0, <2>3 DEF Valid, MeterInv, Rows
    <3>3. r.at = now' /\ r.serial = report.serial
      BY <2>a DEF Reading
    <3> HIDE DEF rs
    <3> QED BY <3>1, <3>2, <3>3
  <2>9. rs \in Seq(Valid') /\ Valid' \in SUBSET Rows
    BY <2>5, <2>6 DEF Valid
  <2> HIDE DEF rs
  <2>10. Upsert(rs, r) \in Seq(Valid') /\ Ordered(Upsert(rs, r), InTime)
    BY <2>6, <2>7, <2>8, <2>9, UpsertInOrder
  <2> QED BY <2>1, <2>4, <2>10, <2>a DEF HistoryInv, Ordered, InTime, rs
<1>4. CASE UNCHANGED vars
  <2>1. MeterInv' /\ \A r \in Valid : r \in Valid'
    BY <1>0, <1>4 DEF vars, MeterInv, Meter, Valid, Blank, Full
  <2> QED BY <1>a, <1>4, <2>1 DEF vars
<1>5. CASE PollOthers
  <2>1. UNCHANGED <<used, resetAt, report, gives, rows>> /\ now' \in Nat /\ now <= now'
    BY <1>0, <1>5, HistoryAssumption DEF PollOthers, MeterInv
  <2>2. MeterInv'
    BY <1>0, <2>1 DEF MeterInv, Meter
  <2>3. \A r \in Valid : r \in Valid'
    BY <1>0, <2>1, StillValid DEF MeterInv
  <2> QED BY <1>a, <2>1, <2>2, <2>3
<1> QED BY <1>1, <1>2, <1>3, <1>4, <1>5 DEF Next

-----------------------------------------------------------------------------
LEMMA AppendEnds ==
  ASSUME NEW T, NEW q \in Seq(T), NEW r \in T
  PROVE  /\ Append(q, r) \in Seq(T) /\ Append(q, r) # <<>> /\ Last(Append(q, r)) = r
         /\ Len(q) \in Nat /\ Len(Append(q, r)) = Len(q) + 1 /\ DOMAIN Append(q, r) = 1..(Len(q) + 1)
         /\ DOMAIN q = 1..Len(q) /\ (q = <<>> <=> Len(q) = 0)
         /\ q = <<>> => Head(Append(q, r)) = r
         /\ q # <<>> => Head(Append(q, r)) = Head(q) /\ Head(q) \in T /\ Last(q) \in T /\ Last(q) = q[Len(q)]
         /\ Append(q, r)[Len(q) + 1] = r /\ \A j \in 1..Len(q) : Append(q, r)[j] = q[j]
<1> DEFINE p == Append(q, r)
<1>1. p \in Seq(T) /\ Len(q) \in Nat /\ Len(p) = Len(q) + 1 /\ p[Len(q) + 1] = r
  OBVIOUS
<1>2. \A j \in 1..Len(q) : p[j] = q[j]
  OBVIOUS
<1>3. DOMAIN p = 1..(Len(q) + 1) /\ DOMAIN q = 1..Len(q)
  OBVIOUS
<1>4. q = <<>> <=> Len(q) = 0
  OBVIOUS
<1>5. p # <<>>
  <2>1. Len(p) # Len(<<>>)
    BY <1>1
  <2> QED BY <2>1
<1>6. q # <<>> => 1 \in 1..Len(q) /\ Len(q) \in 1..Len(q) /\ q[1] \in T /\ q[Len(q)] \in T
  BY <1>1, <1>3, <1>4
<1>7. Head(p) = p[1] /\ (q # <<>> => Head(q) = q[1])
  BY <1>1, <1>5
<1>8. Last(p) = r /\ Last(q) = q[Len(q)]
  BY <1>1 DEF Last
<1>9. q = <<>> => p[1] = r
  BY <1>1, <1>4
<1> HIDE DEF p
<1> QED BY <1>1, <1>2, <1>3, <1>4, <1>5, <1>6, <1>7, <1>8, <1>9 DEF p

Recorded(r) == r.total # None \/ r.delta # None
Distinct(q) == \A i, j \in DOMAIN q : i # j => q[i].serial # q[j].serial

(* What the bars add up to, when the rows with metrics so far are q.        *)
TotalsUpTo(q, prev, sum) ==
  /\ q = <<>> => prev = None /\ sum = 0
  /\ q # <<>> =>
       LET a == Head(q).serial
           b == Last(q).serial
       IN  /\ prev = Meter(b) /\ a <= b /\ sum <= b - a
           /\ resetAt \notin (a + 1)..b => sum = b - a

DeltasUpTo(q, sum) ==
  Distinct(q) =>
    /\ q = <<>> => sum = 0
    /\ q # <<>> => /\ sum = Head(q).delta + Len(q) - 1
                   /\ Len(q) - 1 <= Last(q).serial - Head(q).serial

LEMMA ValidTypes ==
  ASSUME NEW r \in Valid
  PROVE  r.serial \in Nat /\ r.used = r.serial /\ r.total \in Int /\ r.delta \in Int
BY DEF Valid, Rows

(* Between two reports the total grows by what was used, or less.           *)
LEMMA MeterGrows ==
  ASSUME MeterInv, NEW m \in Nat, NEW n \in Nat, m <= n
  PROVE  LET d == Meter(n) - Meter(m)
             bar == IF d < 0 THEN 0 ELSE d
         IN  /\ Meter(m) \in Nat /\ Meter(n) \in Nat /\ bar \in Nat /\ bar <= n - m
             /\ resetAt \notin (m + 1)..n => bar = n - m
<1>1. resetAt = None \/ resetAt \in Nat \ {0}
  BY DEF MeterInv
<1> QED BY <1>1 DEF Meter, None

LEMMA TotalStep ==
  ASSUME MeterInv, gives = {"total"}, NEW q \in Seq(Valid), NEW r \in Valid, Recorded(r),
         NEW prev, NEW sum \in Int, TotalsUpTo(q, prev, sum),
         q # <<>> => Last(q).serial <= r.serial
  PROVE  TotalsUpTo(Append(q, r), PrevTotal(r, prev), sum + Bar(r, prev))
<1> DEFINE n == r.serial
           bar == Bar(r, prev)
           p == Append(q, r)
<1>0. /\ p # <<>> /\ Last(p) = r /\ (q = <<>> => Head(p) = r)
      /\ q # <<>> => Head(p) = Head(q) /\ Head(q) \in Valid /\ Last(q) \in Valid
  BY AppendEnds
<1> HIDE DEF p
<1>1. n \in Nat /\ r.total = Meter(n) /\ r.delta = None
  <2>1. Blank(r) \/ Full(r)
    BY DEF Valid
  <2>2. Full(r)
    BY <2>1 DEF Blank, Recorded
  <2>3. "total" \in gives /\ "delta" \notin gives
    OBVIOUS
  <2> QED BY <2>2, <2>3, ValidTypes DEF Full
<1>2. Meter(n) \in Nat
  <2> HIDE DEF n
  <2>1. n <= n
    BY <1>1
  <2> QED BY <1>1, <2>1, MeterGrows, SMTT(30)
<1>3. PrevTotal(r, prev) = Meter(n)
  BY <1>1, <1>2 DEF PrevTotal, None
<1>4. CASE q = <<>>
  <2>1. prev = None /\ sum = 0
    BY <1>4 DEF TotalsUpTo
  <2>2. bar = 0
    BY <1>1, <2>1 DEF Bar, None
  <2>3. p # <<>> /\ Head(p).serial = n /\ Last(p).serial = n
    BY <1>0, <1>4
  <2>4. n <= n /\ n - n = 0 /\ sum + bar = 0 /\ 0 <= 0
    BY <1>1, <2>1, <2>2
  <2>5. TotalsUpTo(p, Meter(n), 0)
    <3> HIDE DEF n
    <3> QED BY <2>3, <2>4 DEF TotalsUpTo
  <2> QED BY <1>3, <2>4, <2>5 DEF p
<1>5. CASE q # <<>>
  <2> DEFINE a == Head(q).serial
             b == Last(q).serial
  <2>1. a \in Nat /\ b \in Nat /\ b <= n
    BY <1>0, <1>5, ValidTypes
  <2>2. prev = Meter(b) /\ a <= b /\ sum <= b - a /\ (resetAt \notin (a + 1)..b => sum = b - a)
    BY <1>5 DEF TotalsUpTo
  <2>3. p # <<>> /\ Head(p).serial = a /\ Last(p).serial = n
    BY <1>0, <1>5
  <2>4. Meter(b) \in Nat
    BY <1>1, <2>1, MeterGrows
  <2>5. bar = IF Meter(n) - Meter(b) < 0 THEN 0 ELSE Meter(n) - Meter(b)
    BY <1>1, <1>2, <2>2, <2>4 DEF Bar, None
  <2> HIDE DEF a, b, n, bar
  <2>6. bar \in Nat /\ bar <= n - b /\ (resetAt \notin (b + 1)..n => bar = n - b)
    BY <1>1, <2>1, <2>5, MeterGrows
  <2>7. sum + bar <= n - a /\ a <= n
    BY <1>1, <2>1, <2>2, <2>6
  <2>8. ASSUME resetAt \notin (a + 1)..n PROVE sum + bar = n - a
    <3>1. resetAt \notin (a + 1)..b /\ resetAt \notin (b + 1)..n
      BY <1>1, <2>1, <2>2, <2>8
    <3> QED BY <1>1, <2>1, <2>2, <2>6, <3>1
  <2> QED BY <1>3, <2>3, <2>7, <2>8 DEF TotalsUpTo, n, bar, p
<1> QED BY <1>4, <1>5

LEMMA DeltaStep ==
  ASSUME MeterInv, "delta" \in gives, NEW q \in Seq(Valid), NEW r \in Valid, Recorded(r),
         NEW prev, NEW sum \in Int, DeltasUpTo(q, sum),
         q # <<>> => Last(q).serial <= r.serial
  PROVE  DeltasUpTo(Append(q, r), sum + Bar(r, prev))
<1> DEFINE p == Append(q, r)
<1>1. r.serial \in Nat /\ r.delta = Delta(r.serial)
  BY ValidTypes DEF Valid, Blank, Full, Recorded
<1>2. Bar(r, prev) = r.delta
  BY <1>1 DEF Bar, Delta, None
<1>3. SUFFICES ASSUME Distinct(p) PROVE DeltasUpTo(p, sum + Bar(r, prev))
  BY DEF DeltasUpTo
<1>4. /\ p # <<>> /\ Last(p) = r /\ Len(q) \in Nat /\ Len(p) = Len(q) + 1
      /\ DOMAIN p = 1..(Len(q) + 1) /\ DOMAIN q = 1..Len(q) /\ (q = <<>> <=> Len(q) = 0)
      /\ p[Len(q) + 1] = r /\ \A j \in 1..Len(q) : p[j] = q[j]
      /\ q = <<>> => Head(p) = r
      /\ q # <<>> => Head(p) = Head(q) /\ Head(q) \in Valid /\ Last(q) \in Valid /\ Last(q) = q[Len(q)]
  BY AppendEnds
<1> HIDE DEF p
<1>5. Distinct(q)
  <2>1. \A i \in 1..Len(q) : i \in DOMAIN p /\ p[i] = q[i]
    BY <1>4
  <2> QED BY <1>3, <1>4, <2>1 DEF Distinct
<1>6. CASE q = <<>>
  <2>1. sum = 0 /\ Len(p) - 1 = 0 /\ Head(p) = r
    BY <1>4, <1>5, <1>6 DEF DeltasUpTo
  <2>2. r.delta \in Int
    BY ValidTypes
  <2> QED BY <1>1, <1>2, <1>4, <2>1, <2>2 DEF DeltasUpTo
<1>7. CASE q # <<>>
  <2>1. sum = Head(q).delta + Len(q) - 1 /\ Len(q) - 1 <= Last(q).serial - Head(q).serial
    BY <1>5, <1>7 DEF DeltasUpTo
  <2>2. Head(q).delta \in Int /\ Head(q).serial \in Nat /\ Last(q).serial \in Nat
    BY <1>4, <1>7, ValidTypes
  <2>3. Len(q) \in DOMAIN p /\ Len(q) + 1 \in DOMAIN p /\ p[Len(q)] = Last(q)
    BY <1>4, <1>7
  <2>4. Last(q).serial # r.serial
    BY <1>3, <1>4, <2>3 DEF Distinct
  <2>5. Last(q).serial < r.serial
    BY <1>1, <1>7, <2>2, <2>4
  <2>6. r.delta = 1
    BY <1>1, <2>2, <2>5 DEF Delta
  <2>7. /\ sum + Bar(r, prev) = Head(q).delta + (Len(q) + 1) - 1
        /\ (Len(q) + 1) - 1 <= r.serial - Head(q).serial
    BY <1>1, <1>2, <1>4, <2>1, <2>2, <2>5, <2>6
  <2> QED BY <1>4, <1>7, <2>7 DEF DeltasUpTo
<1> QED BY <1>6, <1>7

LEMMA BarTypes ==
  ASSUME NEW r \in Rows, NEW prev \in Int
  PROVE  /\ Bar(r, prev) \in Nat
         /\ ~Recorded(r) => Bar(r, prev) = 0 /\ PrevTotal(r, prev) = prev
<1>1. r.delta \in Int /\ r.total \in Int
  BY RowTypes
<1> QED BY <1>1 DEF Bar, PrevTotal, Recorded, None

AddsUp(q, prev, sum) ==
  /\ gives = {"total"} => TotalsUpTo(q, prev, sum)
  /\ "delta" \in gives => DeltasUpTo(q, sum)

(* Row by row: the bars add up to what the known rows say.                  *)
LEMMA BarsAddUp ==
  ASSUME MeterInv, NEW rs \in Seq(Valid), Ordered(rs, InTime)
  PROVE  /\ Bars(rs) \in Seq(Nat) /\ Len(Bars(rs)) = Len(rs)
         /\ Known(rs) \in Seq(Valid) /\ Sum(Bars(rs)) \in Int
         /\ \E prev : AddsUp(Known(rs), prev, Sum(Bars(rs)))
<1> DEFINE n == Len(rs)
           keep == {i \in DOMAIN rs : rs[i].total # None \/ rs[i].delta # None}
           bars == Bars(rs)
<1>0. n \in Nat /\ DOMAIN rs = 1..n /\ \A i \in 1..n : rs[i] \in Valid /\ rs[i] \in Rows
  <2>1. \A i \in 1..n : rs[i] \in Valid
    OBVIOUS
  <2> QED BY <2>1 DEF Valid
<1>1. rs \in Seq(Rows)
  BY <1>0
<1>2. PICK p : PrevUpTo(p, rs) /\ Bars(rs) = [i \in 1..n |-> Bar(rs[i], p[i - 1])]
  BY <1>1, BarsUpTo
<1>a. \A i \in 1..n : p[i - 1] \in Int
  <2>1. \A i \in 1..n : i - 1 \in 0..n
    BY <1>0
  <2> QED BY <1>1, <1>2, <2>1, PrevTypes
<1>3. bars \in Seq(Nat) /\ Len(bars) = n /\ \A i \in 1..n : bars[i] = Bar(rs[i], p[i - 1])
  <2>1. \A i \in 1..n : Bar(rs[i], p[i - 1]) \in Nat
    BY <1>0, <1>a, BarTypes
  <2> HIDE DEF n
  <2>2. Bars(rs) \in [1..n -> Nat]
    BY <1>2, <2>1
  <2> QED BY <1>0, <1>2, <2>2
<1>4. PICK s : AddsUpTo(s, bars) /\ Sum(bars) = s[Len(bars)]
  BY <1>3, SumUpTo
<1>5. PICK f : KeepsUpTo(f, rs, keep) /\ Kept(rs, keep) = f[n]
  BY KeptUpTo
<1> HIDE DEF bars
<1> DEFINE Done(i) ==
             /\ f[i] \in Seq(Valid) /\ s[i] \in Int /\ AddsUp(f[i], p[i], s[i])
             /\ f[i] # <<>> => \A k \in (i + 1)..n : Last(f[i]).serial <= rs[k].serial
           S == {i \in 0..n : Done(i)}
<1>6. 0 \in S
  <2>1. f[0] = <<>> /\ s[0] = 0 /\ p[0] = None /\ 0 \in 0..n
    BY <1>0, <1>2, <1>4, <1>5 DEF KeepsUpTo, AddsUpTo, PrevUpTo
  <2>2. TotalsUpTo(<<>>, None, 0) /\ DeltasUpTo(<<>>, 0)
    BY DEF TotalsUpTo, DeltasUpTo
  <2>3. <<>> \in Seq(Valid) /\ 0 \in Int
    OBVIOUS
  <2>4. AddsUp(f[0], p[0], s[0])
    BY <2>1, <2>2 DEF AddsUp
  <2> HIDE DEF n
  <2> QED BY <2>1, <2>3, <2>4
<1>7. ASSUME NEW i \in 1..n, i - 1 \in S PROVE i \in S
  <2> DEFINE q == f[i - 1]
             r == rs[i]
             prev == p[i - 1]
             sum == s[i - 1]
  <2>1. /\ q \in Seq(Valid) /\ sum \in Int /\ AddsUp(q, prev, sum) /\ i - 1 \in Nat
        /\ q # <<>> => \A k \in i..n : Last(q).serial <= rs[k].serial
    <3>1. Done(i - 1) /\ (i - 1) + 1 = i
      BY <1>7
    <3> QED BY <3>1
  <2>2. r \in Valid /\ r \in Rows /\ i \in DOMAIN rs
    BY <1>0
  <2>3. p[i] = PrevTotal(r, prev) /\ s[i] = sum + Bar(r, prev)
    BY <1>2, <1>3, <1>4 DEF PrevUpTo, AddsUpTo
  <2>a. prev \in Int
    BY <1>a
  <2>4. s[i] \in Int
    <3>1. sum \in Int /\ s[i] = sum + Bar(r, prev)
      BY <2>1, <2>3
    <3> HIDE DEF r, prev, sum
    <3>2. Bar(r, prev) \in Nat
      BY <2>a, <2>2, BarTypes
    <3> QED BY <3>1, <3>2
  <2>5. f[i] = IF i \in keep THEN Append(q, r) ELSE q
    BY <1>5 DEF KeepsUpTo
  <2>6. \A k \in (i + 1)..n : r.serial <= rs[k].serial /\ k \in i..n
    <3> SUFFICES ASSUME NEW k \in (i + 1)..n PROVE r.serial <= rs[k].serial /\ k \in i..n
      OBVIOUS
    <3>1. k \in DOMAIN rs /\ i < k /\ k \in i..n
      BY <1>0
    <3>2. <<rs[i], rs[k]>> \in InTime
      BY <2>2, <3>1 DEF Ordered
    <3> QED BY <3>1, <3>2 DEF InTime
  <2>7. i \in keep <=> Recorded(r)
    BY <2>2 DEF Recorded
  <2>8. q # <<>> => Last(q).serial <= r.serial
    BY <2>1
  <2> HIDE DEF q, r, prev, sum, keep
  <2>9. CASE Recorded(r)
    <3>1. f[i] = Append(q, r)
      BY <2>5, <2>7, <2>9
    <3>2. f[i] \in Seq(Valid) /\ Last(f[i]) = r
      BY <2>1, <2>2, <3>1, AppendEnds
    <3>3. AddsUp(Append(q, r), PrevTotal(r, prev), sum + Bar(r, prev))
      <4>1. gives = {"total"} => TotalsUpTo(Append(q, r), PrevTotal(r, prev), sum + Bar(r, prev))
        BY <2>1, <2>2, <2>8, <2>9, TotalStep DEF AddsUp
      <4>2. "delta" \in gives => DeltasUpTo(Append(q, r), sum + Bar(r, prev))
        BY <2>1, <2>2, <2>8, <2>9, DeltaStep DEF AddsUp
      <4> QED BY <4>1, <4>2 DEF AddsUp
    <3>4. AddsUp(f[i], p[i], s[i])
      BY <2>3, <3>1, <3>3
    <3>5. \A k \in (i + 1)..n : Last(f[i]).serial <= rs[k].serial
      BY <2>6, <3>2
    <3>6. i \in 0..n
      BY <1>0
    <3> QED BY <2>4, <3>2, <3>4, <3>5, <3>6
  <2>10. CASE ~Recorded(r)
    <3>1. f[i] = q
      BY <2>5, <2>7, <2>10
    <3>2. Bar(r, prev) = 0 /\ PrevTotal(r, prev) = prev
      BY <2>a, <2>2, <2>10, BarTypes
    <3>3. p[i] = prev /\ s[i] = sum
      BY <2>1, <2>3, <3>2
    <3> QED BY <2>1, <2>6, <3>1, <3>3
  <2> QED BY <2>9, <2>10
<1>8. n \in S
  <2> HIDE DEF S, n
  <2> QED BY <1>0, <1>6, <1>7, Climb
<1>9. Done(n) /\ Known(rs) = f[n] /\ Sum(bars) = s[n]
  BY <1>3, <1>4, <1>5, <1>8 DEF Known
<1> QED BY <1>3, <1>9 DEF bars

(* For windows of any length, tables of any size, any number of reports and *)
(* any times of polls, the bars of a page agree with the meter              *)
(* (energy_logger.py:109-181, 251-264).                                     *)
THEOREM BarsMatchMeterHolds == Spec => []BarsMatchMeter
<1>1. HistoryInv => BarsMatchMeter
  <2> SUFFICES ASSUME HistoryInv, NEW w \in DOMAIN Windows
               PROVE  BarsMatch(FetchReadings(Windows[w]))
    BY DEF BarsMatchMeter
  <2> DEFINE rs == FetchReadings(Windows[w])
             bars == Bars(rs)
             known == Known(rs)
             first == Head(known)
             final == Last(known)
             span == final.used - first.used
  <2>1. MeterInv /\ rows \in Seq(Valid) /\ Ordered(rows, InTime)
    BY DEF HistoryInv
  <2>2. Cleaned(rows) \in Seq(Valid) /\ Ordered(Cleaned(rows), InTime)
    BY <2>1, KeptInOrder, Zenon DEF Cleaned
  <2>3. rs \in Seq(Valid) /\ Ordered(rs, InTime)
    BY <2>2, KeptInOrder, Zenon DEF FetchReadings
  <2> HIDE DEF rs
  <2>4. /\ bars \in Seq(Nat) /\ Len(bars) = Len(rs) /\ known \in Seq(Valid) /\ Sum(bars) \in Int
        /\ \E prev : AddsUp(known, prev, Sum(bars))
    BY <2>1, <2>3, BarsAddUp
  <2> HIDE DEF bars, known
  <2>5. PICK prev : AddsUp(known, prev, Sum(bars))
    BY <2>4
  <2>6. \A i \in DOMAIN bars : bars[i] >= 0
    BY <2>4
  <2>7. ASSUME known # <<>>
        PROVE  /\ first.serial \in Nat /\ first.used = first.serial /\ first.delta \in Int
               /\ final.serial \in Nat /\ final.used = final.serial /\ Len(known) \in Nat
    <3>1. first \in Valid /\ final \in Valid /\ Len(known) \in Nat
      BY <2>4, <2>7 DEF Last
    <3> QED BY <3>1, ValidTypes
  <2>8. ASSUME known # <<>>, gives = {"total"}
        PROVE  /\ Sum(bars) <= span
               /\ (resetAt \notin (first.serial + 1)..final.serial) => Sum(bars) = span
    BY <2>5, <2>7, <2>8 DEF AddsUp, TotalsUpTo
  <2>9. ASSUME known # <<>>, "delta" \in gives, Distinct(known)
        PROVE  /\ Sum(bars) <= span + first.delta
               /\ Len(known) = final.serial - first.serial + 1 => Sum(bars) = span + first.delta
    <3>1. Sum(bars) = first.delta + Len(known) - 1 /\ Len(known) - 1 <= final.serial - first.serial
      BY <2>5, <2>9 DEF AddsUp, DeltasUpTo
    <3> QED BY <2>7, <2>9, <3>1
  <2> QED BY <2>4, <2>6, <2>8, <2>9 DEF BarsMatch, rs, bars, known, Distinct
<1>2. QED
  BY <1>1, HistoryInit, HistoryNext, PTL DEF Spec

-----------------------------------------------------------------------------
(* Division rounds down.                                                    *)
LEMMA Division ==
  ASSUME NEW n \in Nat, NEW s \in Nat \ {0}
  PROVE  /\ n \div s \in Nat
         /\ (n \div s) * s <= n
         /\ n < (n \div s) * s + s
OBVIOUS

LEMMA Product ==
  ASSUME NEW a \in Int, NEW b \in Int, NEW s \in Nat, a <= b
  PROVE  a * s \in Int /\ b * s \in Int /\ a * s <= b * s
OBVIOUS

LEMMA StrictProduct ==
  ASSUME NEW a \in Int, NEW b \in Int, NEW s \in Nat \ {0}, a < b
  PROVE  a * s \in Int /\ b * s \in Int /\ a * s < b * s
OBVIOUS

LEMMA Between ==
  ASSUME NEW p \in Int, NEW q \in Int, NEW n \in Nat, p <= q, q <= n - 1
  PROVE  ~(n <= p)
OBVIOUS

LEMMA Below ==
  ASSUME NEW n \in Nat, NEW m \in 1..n, m # n
  PROVE  m < n
OBVIOUS

(* Every step-th of n points, where n are too many: they are at most        *)
(* MaxPoints, the first is the first, and all are among the n.              *)
LEMMA Steps ==
  ASSUME NEW n \in Nat, n > MaxPoints
  PROVE  LET step == (n + MaxPoints - 1) \div MaxPoints
             taken == (n + step - 1) \div step
         IN  /\ step \in Nat \ {0}
             /\ taken \in 1..MaxPoints
             /\ \A k \in 1..taken : 1 + (k - 1) * step \in 1..n
             /\ \A j, k \in 1..taken : j < k => 1 + (j - 1) * step < 1 + (k - 1) * step
<1> DEFINE step == (n + MaxPoints - 1) \div MaxPoints
           taken == (n + step - 1) \div step
<1>0. MaxPoints \in Nat \ {0} /\ n + MaxPoints - 1 \in Nat
  BY HistoryAssumption
<1>1. step \in Nat /\ n + MaxPoints - 1 < step * MaxPoints + MaxPoints
  BY <1>0, Division
<1>2. step * MaxPoints \in Int /\ n <= step * MaxPoints
  <2>1. step * MaxPoints \in Int
    BY <1>0, <1>1, Product
  <2> HIDE DEF step
  <2> QED BY <1>0, <1>1, <2>1
<1>3. step # 0
  <2>1. step = 0 => step * MaxPoints = 0
    BY <1>0
  <2> HIDE DEF step
  <2> QED BY <1>0, <1>2, <2>1
<1> HIDE DEF step
<1>4. /\ taken \in Nat /\ taken * step <= n + step - 1
      /\ n + step - 1 < taken * step + step
  <2>1. step \in Nat \ {0} /\ n + step - 1 \in Nat
    BY <1>1, <1>3
  <2> QED BY <2>1, Division
<1> HIDE DEF taken
<1>5. /\ taken * step \in Int /\ (taken - 1) * step = taken * step - step
      /\ (taken - 1) * step <= n - 1
  BY <1>1, <1>4
<1>6. taken # 0
  <2>1. taken = 0 => taken * step = 0
    BY <1>1
  <2> QED BY <1>0, <1>1, <1>4, <1>5, <2>1
<1>7. taken <= MaxPoints
  <2>1. ASSUME taken > MaxPoints PROVE FALSE
    <3>1. MaxPoints * step <= (taken - 1) * step
      BY <1>0, <1>1, <1>4, <2>1, Product
    <3>2. MaxPoints * step = step * MaxPoints /\ (taken - 1) * step \in Int
      BY <1>0, <1>1, <1>4
    <3>3. MaxPoints * step \in Int /\ n <= MaxPoints * step
      BY <1>2, <3>2
    <3> QED BY <1>5, <3>1, <3>2, <3>3, Between
  <2> QED BY <1>0, <1>4, <2>1
<1>8. ASSUME NEW k \in 1..taken PROVE 1 + (k - 1) * step \in 1..n
  <2>1. /\ 0 * step <= (k - 1) * step /\ (k - 1) * step <= (taken - 1) * step
        /\ (k - 1) * step \in Int /\ (taken - 1) * step \in Int
    BY <1>1, <1>4, <1>8, Product
  <2>2. 0 * step = 0
    BY <1>1
  <2> QED BY <1>5, <2>1, <2>2
<1>9. ASSUME NEW j \in 1..taken, NEW k \in 1..taken, j < k
      PROVE  1 + (j - 1) * step < 1 + (k - 1) * step
  BY <1>1, <1>3, <1>4, <1>9, StrictProduct
<1>10. step \in Nat \ {0} /\ taken \in 1..MaxPoints
  BY <1>1, <1>3, <1>4, <1>6, <1>7
<1> QED BY <1>8, <1>9, <1>10 DEF step, taken

-----------------------------------------------------------------------------
\* The points of thin are points of times, in their order, none of them twice.
Thins(thin, times) ==
  \E pick \in [DOMAIN thin -> DOMAIN times] :
    /\ \A k \in DOMAIN thin : thin[k] = times[pick[k]]
    /\ \A j, k \in DOMAIN thin : j < k => pick[j] < pick[k]

(* However long a segment is, its thinned-out curve begins and ends where   *)
(* the segment does, shows points of it in their order, and has at most one *)
(* point more than the picture is wide (temperature_logger.py:885-899).     *)
THEOREM DownsampleKeepsEnds ==
  ASSUME NEW Points, NEW times \in Seq(Points), times # <<>>
  PROVE  LET thin == Downsample(times)
         IN  /\ thin \in Seq(Points) /\ Len(thin) \in 1..(MaxPoints + 1)
             /\ Head(thin) = Head(times) /\ Last(thin) = Last(times)
             /\ Thins(thin, times)
<1> DEFINE n == Len(times)
           thin == Downsample(times)
<1>0. n \in Nat \ {0} /\ MaxPoints \in Nat \ {0} /\ DOMAIN times = 1..n
  BY HistoryAssumption
<1>1. CASE n <= MaxPoints
  <2>1. thin = times
    BY <1>1 DEF Downsample
  <2>2. Thins(times, times)
    <3>1. [k \in DOMAIN times |-> k] \in [DOMAIN times -> DOMAIN times]
      OBVIOUS
    <3> QED BY <3>1 DEF Thins
  <2> QED BY <1>0, <1>1, <2>1, <2>2
<1>2. CASE n > MaxPoints
  <2> DEFINE step == (n + MaxPoints - 1) \div MaxPoints
             count == (n + step - 1) \div step
             taken == [k \in 1..count |-> times[1 + (k - 1) * step]]
  <2>1. /\ step \in Nat \ {0} /\ count \in 1..MaxPoints
        /\ \A k \in 1..count : 1 + (k - 1) * step \in 1..n
        /\ \A j, k \in 1..count : j < k => 1 + (j - 1) * step < 1 + (k - 1) * step
    BY <1>0, <1>2, Steps
  <2>2. thin = IF Last(taken) # Last(times) THEN Append(taken, Last(times)) ELSE taken
    BY <1>0, <1>2 DEF Downsample
  <2> HIDE DEF step, count, thin
  <2>3. /\ taken \in Seq(Points) /\ Len(taken) = count /\ DOMAIN taken = 1..count
        /\ \A k \in 1..count : taken[k] = times[1 + (k - 1) * step]
    <3>1. ASSUME NEW k \in 1..count PROVE times[1 + (k - 1) * step] \in Points
      <4>1. 1 + (k - 1) * step \in 1..n
        BY <2>1
      <4> QED BY <1>0, <4>1
    <3>2. taken \in [1..count -> Points]
      BY <3>1, Zenon
    <3>3. count \in Nat
      BY <2>1
    <3> QED BY <3>2, <3>3
  <2>4. taken[1] = times[1]
    <3>1. 1 \in 1..count /\ 1 + (1 - 1) * step = 1
      BY <1>0, <2>1
    <3> QED BY <2>3, <3>1
  <2> HIDE DEF taken
  <2>5. CASE Last(taken) = Last(times)
    <3>1. thin = taken
      BY <2>2, <2>5
    <3>2. Thins(taken, times)
      <4> DEFINE pick == [k \in 1..count |-> 1 + (k - 1) * step]
      <4>1. pick \in [DOMAIN taken -> DOMAIN times]
        BY <1>0, <2>1, <2>3
      <4>2. \A k \in DOMAIN taken : taken[k] = times[pick[k]]
        BY <2>3
      <4>3. \A j, k \in DOMAIN taken : j < k => pick[j] < pick[k]
        BY <2>1, <2>3
      <4> HIDE DEF pick
      <4> QED BY <4>1, <4>2, <4>3 DEF Thins
    <3>3. Head(taken) = Head(times) /\ Len(taken) \in 1..(MaxPoints + 1)
      BY <1>0, <2>1, <2>3, <2>4
    <3> QED BY <2>3, <2>5, <3>1, <3>2, <3>3 DEF thin
  <2>6. CASE Last(taken) # Last(times)
    <3>1. /\ thin = Append(taken, Last(times)) /\ Last(times) = times[n] /\ times[n] \in Points
          /\ Last(taken) = taken[count]
      BY <1>0, <2>1, <2>2, <2>3, <2>6 DEF Last
    <3>2. /\ thin \in Seq(Points) /\ Len(thin) = count + 1 /\ DOMAIN thin = 1..(count + 1)
          /\ \A k \in 1..count : thin[k] = taken[k]
          /\ thin[count + 1] = times[n]
      BY <2>1, <2>3, <3>1
    <3>3. Thins(thin, times)
      <4> DEFINE pick == [k \in 1..(count + 1) |-> IF k = count + 1 THEN n ELSE 1 + (k - 1) * step]
      <4>1. count \in 1..count /\ 1 + (count - 1) * step \in 1..n /\ 1 + (count - 1) * step # n
        BY <2>1, <2>3, <2>6, <3>1
      <4>2. \A k \in 1..count : pick[k] = 1 + (k - 1) * step /\ pick[k] \in 1..n /\ pick[k] < n
        <5>1. \A k \in 1..count : k \in 1..(count + 1) /\ k # count + 1 /\ (k < count \/ k = count)
          BY <2>1
        <5>2. ASSUME NEW k \in 1..count PROVE 1 + (k - 1) * step \in 1..n /\ 1 + (k - 1) * step < n
          <6>1. 1 + (k - 1) * step \in 1..n /\ (k < count => 1 + (k - 1) * step < 1 + (count - 1) * step)
            BY <2>1, <4>1
          <6> HIDE DEF pick
          <6> DEFINE i == 1 + (k - 1) * step
                     m == 1 + (count - 1) * step
          <6>2. i \in 1..n /\ m \in 1..n /\ m # n /\ (k < count => i < m) /\ (k = count => i = m)
            BY <4>1, <6>1
          <6> HIDE DEF i, m
          <6>3. m < n
            <7>1. n \in Nat /\ m \in 1..n /\ m # n
              BY <1>0, <6>2
            <7> QED BY <7>1, Below
          <6>4. i < n
            <7>1. CASE k < count
              BY <6>2, <6>3, <7>1
            <7>2. CASE k = count
              BY <6>2, <6>3, <7>2
            <7> QED BY <5>1, <7>1, <7>2
          <6> QED BY <6>2, <6>4 DEF i
        <5>3. ASSUME NEW k \in 1..count PROVE pick[k] = 1 + (k - 1) * step
          BY <5>1
        <5> QED BY <5>2, <5>3
      <4>3. pick[count + 1] = n
        BY <2>1
      <4>4. \A k \in DOMAIN thin : k \in 1..count \/ k = count + 1
        BY <2>1, <3>2
      <4>5. pick \in [DOMAIN thin -> DOMAIN times]
        <5>1. ASSUME NEW k \in DOMAIN thin PROVE pick[k] \in 1..n
          <6> HIDE DEF pick
          <6> QED BY <1>0, <4>2, <4>3, <4>4
        <5> QED BY <1>0, <3>2, <5>1
      <4> HIDE DEF pick
      <4>6. \A k \in DOMAIN thin : thin[k] = times[pick[k]]
        BY <2>3, <3>2, <4>2, <4>3, <4>4
      <4>7. \A j, k \in DOMAIN thin : j < k => pick[j] < pick[k]
        <5>1. ASSUME NEW j \in DOMAIN thin, NEW k \in DOMAIN thin, j < k
              PROVE  pick[j] < pick[k]
          <6>1. j \in 1..count
            BY <2>1, <3>2, <5>1
          <6>2. CASE k \in 1..count
            BY <2>1, <4>2, <5>1, <6>1, <6>2
          <6>3. CASE k = count + 1
            BY <4>2, <4>3, <6>1, <6>3
          <6> QED BY <4>4, <6>2, <6>3
        <5> QED BY <5>1
      <4> QED BY <4>5, <4>6, <4>7 DEF Thins
    <3>4. Head(thin) = Head(times) /\ Last(thin) = Last(times)
      BY <1>0, <2>1, <2>4, <3>1, <3>2 DEF Last
    <3>5. Len(thin) \in 1..(MaxPoints + 1)
      BY <1>0, <2>1, <3>2
    <3> QED BY <3>2, <3>3, <3>4, <3>5 DEF thin
  <2> QED BY <2>5, <2>6
<1> QED BY <1>0, <1>1, <1>2

-----------------------------------------------------------------------------
(* FlattenSeq puts the sequences together one by one.                       *)
JoinsUpTo(f, seqs) ==
  f[0] = <<>> /\ \A i \in 1..Len(seqs) : f[i] = f[i - 1] \o seqs[i]

LEMMA FlattenUpTo ==
  ASSUME NEW T, NEW seqs \in Seq(Seq(T))
  PROVE  \E f : /\ JoinsUpTo(f, seqs) /\ FlattenSeq(seqs) = f[Len(seqs)]
                /\ \A i \in 0..Len(seqs) : f[i] \in Seq(T)
<1> DEFINE n == Len(seqs)
           V == Seq(T)
           step == [c \in (1..n) \X V |-> c[2] \o seqs[c[1]]]
           Is(f) == f = [i \in 1..n |-> IF i = 1 THEN seqs[i] ELSE f[i - 1] \o seqs[i]]
<1>0. n \in Nat /\ <<>> \in V /\ \A i \in 1..n : seqs[i] \in V
  OBVIOUS
<1>1. step \in [(1..n) \X V -> V]
  <2>1. \A c \in (1..n) \X V : c[2] \o seqs[c[1]] \in V
    BY <1>0
  <2> HIDE DEF V, n
  <2> QED BY <2>1, Zenon
<1>2. PICK f : Solves(f, n, V, <<>>, step)
  <2> HIDE DEF step, V, n
  <2> QED BY <1>0, <1>1, StepByStep
<1>3. f \in [0..n -> V] /\ f[0] = <<>> /\ \A i \in 1..n : f[i] = step[<<i, f[i - 1]>>]
  BY <1>2 DEF Solves
<1>4. \A i \in 1..n : f[i] = f[i - 1] \o seqs[i]
  <2> SUFFICES ASSUME NEW i \in 1..n PROVE f[i] = f[i - 1] \o seqs[i]
    OBVIOUS
  <2>0. i - 1 \in 0..n
    BY <1>0
  <2>1. f[i - 1] \in V
    <3> HIDE DEF V, n, step
    <3> QED BY <1>3, <2>0
  <2> HIDE DEF V, n
  <2>2. step[<<i, f[i - 1]>>] = f[i - 1] \o seqs[i]
    BY <2>1
  <2> QED BY <1>3, <2>2
<1>5. f[0] = <<>> /\ \A i \in 0..n : f[i] \in V
  BY <1>3
<1> HIDE DEF step
<1>f. 1 \in 1..n => f[1] = seqs[1]
  <2> SUFFICES ASSUME 1 \in 1..n PROVE f[1] = seqs[1]
    OBVIOUS
  <2>1. f[1] = f[0] \o seqs[1] /\ seqs[1] \in Seq(T)
    <3>1. PICK i : i = 1
      OBVIOUS
    <3>2. i \in 1..n /\ i - 1 = 0
      BY <3>1
    <3>3. f[i] = f[i - 1] \o seqs[i] /\ seqs[i] \in V
      <4> HIDE DEF V, n
      <4> QED BY <1>0, <1>4, <3>2, Zenon
    <3> QED BY <3>1, <3>2, <3>3
  <2>2. <<>> \o seqs[1] = seqs[1]
    BY <2>1, ConcatEmptySeq
  <2> QED BY <1>5, <2>1, <2>2
<1> DEFINE g0 == [i \in 1..n |-> f[i]]
<1>6. Is(g0)
  <2>1. ASSUME NEW i \in 1..n
        PROVE  f[i] = IF i = 1 THEN seqs[i] ELSE g0[i - 1] \o seqs[i]
    <3>1. CASE i = 1
      BY <1>f, <3>1
    <3>2. CASE i # 1
      <4>1. i - 1 \in 1..n
        BY <1>0, <3>2
      <4>2. g0[i - 1] = f[i - 1]
        BY <4>1
      <4> QED BY <1>4, <3>2, <4>2
    <3> QED BY <3>1, <3>2
  <2> HIDE DEF n, V
  <2> QED BY <2>1, Zenon
<1> DEFINE g == CHOOSE h : Is(h)
<1>7. Is(g)
  <2> HIDE DEF Is, g0
  <2> QED BY <1>6
<1>8. n # 0 => FlattenSeq(seqs) = g[n]
  BY DEF FlattenSeq
<1> HIDE DEF g
<1>9. \A i \in 1..n : g[i] = IF i = 1 THEN seqs[i] ELSE g[i - 1] \o seqs[i]
  BY <1>7
<1> DEFINE A == {i \in 0..n : i # 0 => g[i] = f[i]}
<1>10. n \in A
  <2>1. 0 \in A
    BY <1>0
  <2>2. ASSUME NEW i \in 1..n, i - 1 \in A PROVE i \in A
    <3>1. CASE i = 1
      BY <1>f, <1>9, <3>1
    <3>2. CASE i # 1
      <4>1. i - 1 # 0 /\ g[i - 1] = f[i - 1] /\ i \in 0..n
        BY <1>0, <2>2, <3>2
      <4> QED BY <1>4, <1>9, <3>2, <4>1
    <3> QED BY <3>1, <3>2
  <2> HIDE DEF A
  <2> QED BY <1>0, <2>1, <2>2, Climb
<1>11. FlattenSeq(seqs) = f[n]
  <2>1. CASE n = 0
    <3>1. seqs = <<>>
      BY <2>1
    <3>2. FlattenSeq(seqs) = seqs
      BY <2>1 DEF FlattenSeq
    <3> QED BY <1>5, <2>1, <3>1, <3>2
  <2>2. CASE n # 0
    BY <1>8, <1>10, <2>2
  <2> QED BY <2>1, <2>2
<1>12. JoinsUpTo(f, seqs)
  BY <1>4, <1>5 DEF JoinsUpTo
<1> QED BY <1>5, <1>11, <1>12

(* One sequence more is put at the end.                                     *)
LEMMA FlattenAppend ==
  ASSUME NEW T, NEW seqs \in Seq(Seq(T)), NEW s \in Seq(T)
  PROVE  FlattenSeq(seqs) \in Seq(T) /\ FlattenSeq(Append(seqs, s)) = FlattenSeq(seqs) \o s
<1> DEFINE n == Len(seqs)
           more == Append(seqs, s)
<1>0. /\ n \in Nat /\ more \in Seq(Seq(T)) /\ Len(more) = n + 1 /\ more[n + 1] = s
      /\ \A i \in 1..n : more[i] = seqs[i]
  BY AppendProperties
<1>1. PICK f : /\ JoinsUpTo(f, seqs) /\ FlattenSeq(seqs) = f[n]
               /\ \A i \in 0..n : f[i] \in Seq(T)
  BY FlattenUpTo
<1> HIDE DEF more
<1>2. PICK g : JoinsUpTo(g, more) /\ FlattenSeq(more) = g[n + 1]
  BY <1>0, FlattenUpTo
<1> DEFINE A == {i \in 0..n : g[i] = f[i]}
<1>3. n \in A
  <2>1. 0 \in A
    BY <1>0, <1>1, <1>2 DEF JoinsUpTo
  <2>2. ASSUME NEW i \in 1..n, i - 1 \in A PROVE i \in A
    <3>1. i \in 1..(n + 1) /\ i \in 0..n /\ g[i - 1] = f[i - 1]
      BY <1>0, <2>2
    <3>2. g[i] = g[i - 1] \o more[i] /\ f[i] = f[i - 1] \o seqs[i]
      BY <1>0, <1>1, <1>2, <3>1 DEF JoinsUpTo
    <3> QED BY <1>0, <3>1, <3>2
  <2> HIDE DEF A
  <2> QED BY <1>0, <2>1, <2>2, Climb
<1>4. g[n + 1] = g[n] \o s
  <2>1. n + 1 \in 1..(n + 1) /\ (n + 1) - 1 = n
    BY <1>0
  <2>2. g[n + 1] = g[(n + 1) - 1] \o more[n + 1]
    BY <1>0, <1>2, <2>1 DEF JoinsUpTo
  <2> QED BY <1>0, <2>1, <2>2
<1>5. n \in 0..n
  BY <1>0
<1> QED BY <1>1, <1>2, <1>3, <1>4, <1>5 DEF more

-----------------------------------------------------------------------------
(* SplitOnGaps takes the points one by one: a curve breaks before a point,  *)
(* or the point goes on with the segment.                                   *)
Breaks(points, i) ==
  i > 1 /\ Threshold(points) # None /\ points[i] - points[i - 1] > Threshold(points)

Parts == [segments : Seq(Seq(Nat)), current : Seq(Nat)]

Goes(points, i, c) ==
  IF Breaks(points, i)
  THEN [segments |-> Append(c.segments, c.current), current |-> <<points[i]>>]
  ELSE [segments |-> c.segments, current |-> Append(c.current, points[i])]

SplitsUpTo(f, points) ==
  /\ f[0] = [segments |-> <<>>, current |-> <<>>]
  /\ \A i \in 1..Len(points) : f[i] = Goes(points, i, f[i - 1])

LEMMA SplitUpTo ==
  ASSUME NEW points \in Seq(Nat), points # <<>>
  PROVE  \E f : /\ SplitsUpTo(f, points)
                /\ SplitOnGaps(points) = Append(f[Len(points)].segments, f[Len(points)].current)
<1> DEFINE n == Len(points)
           none == [segments |-> <<>>, current |-> <<>>]
           step == [c \in (1..n) \X Parts |-> Goes(points, c[1], c[2])]
           Is(f) == f = [i \in 0..n |-> IF i = 0 THEN none
                      ELSE IF Breaks(points, i)
                      THEN [segments |-> Append(f[i - 1].segments, f[i - 1].current), current |-> <<points[i]>>]
                      ELSE [segments |-> f[i - 1].segments, current |-> Append(f[i - 1].current, points[i])]]
<1>0. n \in Nat /\ none \in Parts /\ \A i \in 1..n : points[i] \in Nat
  BY DEF Parts
<1>1. step \in [(1..n) \X Parts -> Parts]
  <2>1. ASSUME NEW i \in 1..n, NEW c \in Parts PROVE Goes(points, i, c) \in Parts
    <3>1. c.segments \in Seq(Seq(Nat)) /\ c.current \in Seq(Nat) /\ points[i] \in Nat
      BY <1>0 DEF Parts
    <3>2. /\ Append(c.segments, c.current) \in Seq(Seq(Nat)) /\ <<points[i]>> \in Seq(Nat)
          /\ Append(c.current, points[i]) \in Seq(Nat)
      BY <3>1
    <3> QED BY <3>1, <3>2 DEF Goes, Parts
  <2>2. \A c \in (1..n) \X Parts : Goes(points, c[1], c[2]) \in Parts
    BY <2>1
  <2> HIDE DEF n
  <2> QED BY <2>2, Zenon
<1>2. PICK f : Solves(f, n, Parts, none, step)
  <2> HIDE DEF step, none, n
  <2> QED BY <1>0, <1>1, StepByStep
<1>3. f \in [0..n -> Parts] /\ f[0] = none /\ \A i \in 1..n : f[i] = step[<<i, f[i - 1]>>]
  BY <1>2 DEF Solves
<1>4. Is(f)
  <2>1. ASSUME NEW i \in 0..n, i # 0 PROVE f[i] = Goes(points, i, f[i - 1])
    <3>1. i \in 1..n /\ i - 1 \in 0..n
      BY <1>0, <2>1
    <3>2. f[i - 1] \in Parts
      BY <1>3, <3>1
    <3>3. step[<<i, f[i - 1]>>] = Goes(points, i, f[i - 1])
      BY <3>1, <3>2
    <3> QED BY <1>3, <3>1, <3>3
  <2>2. f = [i \in 0..n |-> f[i]]
    BY <1>3
  <2>3. ASSUME NEW i \in 0..n
        PROVE f[i] = IF i = 0 THEN none
                      ELSE IF Breaks(points, i)
                      THEN [segments |-> Append(f[i - 1].segments, f[i - 1].current), current |-> <<points[i]>>]
                      ELSE [segments |-> f[i - 1].segments, current |-> Append(f[i - 1].current, points[i])]
    BY <1>3, <2>1, Zenon DEF Goes
  <2> HIDE DEF none, n
  <2> QED BY <2>2, <2>3, Zenon
<1> DEFINE g == CHOOSE h : Is(h)
<1>5. Is(g)
  <2> HIDE DEF Is
  <2> QED BY <1>4
<1>6. SplitOnGaps(points) = Append(g[n].segments, g[n].current)
  BY DEF SplitOnGaps, Breaks
<1> HIDE DEF g
<1>7. SplitsUpTo(g, points)
  <2>1. 0 \in 0..n /\ \A i \in 1..n : i \in 0..n /\ i # 0
    BY <1>0
  <2>2. \A i \in 0..n : g[i] = IF i = 0 THEN none
                      ELSE IF Breaks(points, i)
                      THEN [segments |-> Append(g[i - 1].segments, g[i - 1].current), current |-> <<points[i]>>]
                      ELSE [segments |-> g[i - 1].segments, current |-> Append(g[i - 1].current, points[i])]
    <3> HIDE DEF none, n
    <3> QED BY <1>5, Zenon
  <2> QED BY <2>1, <2>2, Zenon DEF SplitsUpTo, Goes
<1> QED BY <1>6, <1>7

-----------------------------------------------------------------------------
\* The first points of segments, and the points where a segment has to begin.
Heads(segments) == {Head(segments[k]) : k \in DOMAIN segments}
Starts(points, n) == {points[i] : i \in {j \in 1..n : j = 1 \/ Breaks(points, j)}}

(* What a segment more does to the first points, and to that none is empty. *)
LEMMA HeadsAppend ==
  ASSUME NEW T, NEW q \in Seq(Seq(T)), NEW s \in Seq(T)
  PROVE  Heads(Append(q, s)) = Heads(q) \cup {Head(s)}
<1>1. /\ Len(q) \in Nat /\ DOMAIN q = 1..Len(q) /\ DOMAIN Append(q, s) = 1..(Len(q) + 1)
      /\ \A k \in 1..Len(q) : Append(q, s)[k] = q[k]
      /\ Append(q, s)[Len(q) + 1] = s
  OBVIOUS
<1> DEFINE p == Append(q, s)
<1> HIDE DEF p
<1>2. \A k \in 1..(Len(q) + 1) : k \in 1..Len(q) \/ k = Len(q) + 1
  BY <1>1
<1>3. \A k \in 1..Len(q) : k \in 1..(Len(q) + 1)
  BY <1>1
<1>4. Len(q) + 1 \in 1..(Len(q) + 1)
  BY <1>1
<1>5. Heads(p) \subseteq Heads(q) \cup {Head(s)}
  BY <1>1, <1>2 DEF Heads, p
<1>6. Heads(q) \cup {Head(s)} \subseteq Heads(p)
  BY <1>1, <1>3, <1>4 DEF Heads, p
<1> QED BY <1>5, <1>6 DEF p

LEMMA NoneIsEmpty ==
  ASSUME NEW T, NEW q \in Seq(Seq(T)), NEW s \in Seq(T), s # <<>>, \A k \in DOMAIN q : q[k] # <<>>
  PROVE  /\ Append(q, s) \in Seq(Seq(T))
         /\ \A k \in DOMAIN Append(q, s) : Append(q, s)[k] # <<>>
<1>1. /\ Append(q, s) \in Seq(Seq(T)) /\ Len(q) \in Nat /\ DOMAIN q = 1..Len(q)
      /\ DOMAIN Append(q, s) = 1..(Len(q) + 1) /\ Append(q, s)[Len(q) + 1] = s
      /\ \A k \in 1..Len(q) : Append(q, s)[k] = q[k]
  OBVIOUS
<1> DEFINE p == Append(q, s)
<1> HIDE DEF p
<1>2. \A k \in DOMAIN p : k \in DOMAIN q \/ k = Len(q) + 1
  BY <1>1 DEF p
<1>3. \A k \in DOMAIN p : p[k] # <<>>
  BY <1>1, <1>2, Zenon DEF p
<1> QED BY <1>1, <1>3 DEF p

LEMMA FirstStays ==
  ASSUME NEW T, NEW q \in Seq(T), NEW y \in T
  PROVE  /\ Append(q, y) \in Seq(T) /\ Append(q, y) # <<>>
         /\ Head(Append(q, y)) = IF q = <<>> THEN y ELSE Head(q)
BY AppendProperties, HeadTailAppend

(* What is put together of two parts, and one point more.                   *)
LEMMA Appended ==
  ASSUME NEW T, NEW a \in Seq(T), NEW b \in Seq(T), NEW x \in T
  PROVE  /\ a \o b \in Seq(T) /\ <<x>> \in Seq(T)
         /\ a \o Append(b, x) = Append(a \o b, x)
         /\ (a \o b) \o <<x>> = Append(a \o b, x)
<1>1. a \o b \in Seq(T) /\ <<x>> \in Seq(T)
  OBVIOUS
<1>2. a \o Append(b, x) = Append(a \o b, x)
  OBVIOUS
<1>3. (a \o b) \o <<x>> = Append(a \o b, x)
  BY <1>1, AppendIsConcat
<1> QED BY <1>1, <1>2, <1>3

LEMMA SubSeqGrows ==
  ASSUME NEW T, NEW points \in Seq(T), NEW i \in 1..Len(points)
  PROVE  SubSeq(points, 1, i) = Append(SubSeq(points, 1, i - 1), points[i])
OBVIOUS

(* The points up to the i-th are a, followed by b.                          *)
Makes(a, b, points, i) == a \o b = SubSeq(points, 1, i)

LEMMA PointIsNext ==
  ASSUME NEW T, NEW points \in Seq(T), NEW i \in 1..Len(points), NEW a \in Seq(T), NEW b \in Seq(T),
         Makes(a, b, points, i - 1)
  PROVE  Makes(a \o b, <<points[i]>>, points, i) /\ Makes(a, Append(b, points[i]), points, i)
<1> DEFINE x == points[i]
<1>1. x \in T
  OBVIOUS
<1>2. SubSeq(points, 1, i) = Append(SubSeq(points, 1, i - 1), x)
  BY SubSeqGrows
<1> HIDE DEF x
<1>3. a \o Append(b, x) = Append(a \o b, x) /\ (a \o b) \o <<x>> = Append(a \o b, x)
  BY <1>1, Appended
<1> QED BY <1>2, <1>3 DEF x, Makes

(* The segments so far hold the points so far in their order, none is empty *)
(* and each begins where the curve breaks.                                  *)
SplitInv(c, points, i) ==
  /\ c \in Parts
  /\ FlattenSeq(c.segments) \in Seq(Nat) /\ Makes(FlattenSeq(c.segments), c.current, points, i)
  /\ \A k \in DOMAIN c.segments : c.segments[k] # <<>>
  /\ i = 0 => c.segments = <<>> /\ c.current = <<>>
  /\ i # 0 => c.current # <<>> /\ Heads(c.segments) \cup {Head(c.current)} = Starts(points, i)

(* Where segments have to begin, point by point.                            *)
LEMMA StartsStep ==
  ASSUME NEW points, NEW i \in Nat \ {0}
  PROVE  /\ i # 1 /\ ~Breaks(points, i) => Starts(points, i) = Starts(points, i - 1)
         /\ i = 1 \/ Breaks(points, i) => Starts(points, i) = Starts(points, i - 1) \cup {points[i]}
         /\ Starts(points, 0) = {}
<1>1. 1..i = 1..(i - 1) \cup {i} /\ i \notin 1..(i - 1) /\ 1..0 = {}
  OBVIOUS
<1> QED BY <1>1 DEF Starts

(* A point more, at a break and without one.                                *)
LEMMA SplitStep ==
  ASSUME NEW points \in Seq(Nat), NEW i \in 1..Len(points), NEW c, SplitInv(c, points, i - 1)
  PROVE  SplitInv(Goes(points, i, c), points, i)
<1> DEFINE segs == c.segments
           cur == c.current
           flat == FlattenSeq(segs)
           x == points[i]
<1>0. /\ Len(points) \in Nat /\ i \in Nat \ {0} /\ x \in Nat /\ segs \in Seq(Seq(Nat)) /\ cur \in Seq(Nat)
      /\ flat \in Seq(Nat) /\ Makes(flat, cur, points, i - 1)
      /\ \A k \in DOMAIN segs : segs[k] # <<>>
      /\ i = 1 => segs = <<>> /\ cur = <<>>
      /\ i # 1 => cur # <<>> /\ Heads(segs) \cup {Head(cur)} = Starts(points, i - 1)
  BY DEF SplitInv, Parts
<1>1. Makes(flat \o cur, <<x>>, points, i) /\ Makes(flat, Append(cur, x), points, i)
  <2> HIDE DEF segs, flat, cur
  <2> QED BY <1>0, PointIsNext
<1>2. <<x>> \in Seq(Nat) /\ <<x>> # <<>> /\ Head(<<x>>) = x
  BY <1>0
<1>3. CASE Breaks(points, i)
  <2>1. i # 1
    BY <1>3 DEF Breaks
  <2> DEFINE more == Append(segs, cur)
  <2>2. Goes(points, i, c) = [segments |-> more, current |-> <<x>>]
    BY <1>3 DEF Goes
  <2>3. more \in Seq(Seq(Nat))
    BY <1>0
  <2>4. FlattenSeq(more) = flat \o cur
    BY <1>0, FlattenAppend
  <2>5. Heads(more) = Heads(segs) \cup {Head(cur)}
    BY <1>0, HeadsAppend
  <2> HIDE DEF more, segs, cur, flat
  <2>6. \A k \in DOMAIN more : more[k] # <<>>
    <3>1. \A q \in Seq(Seq(Nat)) : \A s \in Seq(Nat) :
            s # <<>> /\ (\A k \in DOMAIN q : q[k] # <<>>)
              => \A k \in DOMAIN Append(q, s) : Append(q, s)[k] # <<>>
      BY NoneIsEmpty, Zenon
    <3> QED BY <1>0, <2>1, <3>1, Zenon DEF more
  <2>7. flat \o cur \in Seq(Nat)
    <3> HIDE DEF x
    <3> QED BY <1>0, Appended, Zenon
  <2>8. Heads(more) \cup {x} = Starts(points, i)
    BY <1>0, <1>3, <2>1, <2>5, StartsStep DEF x
  <2>9. Makes(FlattenSeq(more), <<x>>, points, i) /\ FlattenSeq(more) \in Seq(Nat)
    BY <1>1, <2>4, <2>7
  <2> DEFINE d == [segments |-> more, current |-> <<x>>]
  <2>10. d.segments = more /\ d.current = <<x>> /\ d \in Parts
    BY <1>2, <2>3 DEF Parts
  <2> HIDE DEF d
  <2>11. SplitInv(d, points, i)
    BY <1>0, <1>2, <2>6, <2>8, <2>9, <2>10 DEF SplitInv
  <2> QED BY <2>2, <2>11 DEF d
<1>4. CASE ~Breaks(points, i)
  <2> DEFINE more == Append(cur, x)
  <2>2. Goes(points, i, c) = [segments |-> segs, current |-> more]
    BY <1>4 DEF Goes
  <2>3. more \in Seq(Nat) /\ more # <<>> /\ Head(more) = IF cur = <<>> THEN x ELSE Head(cur)
    <3>1. PICK q \in Seq(Nat), y \in Nat : q = cur /\ y = x
      BY <1>0
    <3>2. Append(q, y) \in Seq(Nat) /\ Append(q, y) # <<>> /\ Head(Append(q, y)) = IF q = <<>> THEN y ELSE Head(q)
      BY FirstStays, Zenon
    <3> HIDE DEF cur, x
    <3> QED BY <3>1, <3>2
  <2> HIDE DEF more, segs, cur, flat
  <2>5. Makes(flat, more, points, i)
    BY <1>1 DEF more
  <2>6. Heads(segs) \cup {Head(more)} = Starts(points, i)
    <3>1. CASE i = 1
      <4>1. segs = <<>> /\ Head(more) = x /\ Heads(<<>>) = {}
        BY <1>0, <2>3, <3>1 DEF Heads
      <4>2. Starts(points, i) = Starts(points, 0) \cup {points[i]} /\ Starts(points, 0) = {}
        BY <1>0, <3>1, StartsStep
      <4> QED BY <4>1, <4>2 DEF x
    <3>2. CASE i # 1
      BY <1>0, <1>4, <2>3, <3>2, StartsStep
    <3> QED BY <3>1, <3>2
  <2> DEFINE d == [segments |-> segs, current |-> more]
  <2>7. d.segments = segs /\ d.current = more /\ d \in Parts
    BY <1>0, <2>3 DEF Parts
  <2> HIDE DEF d
  <2>8. SplitInv(d, points, i)
    BY <1>0, <2>3, <2>5, <2>6, <2>7 DEF SplitInv, flat
  <2> QED BY <2>2, <2>8 DEF d
<1> QED BY <1>3, <1>4

(* The segments of a curve hold all its points in their order, none of them *)
(* is empty and each begins where the curve breaks.                         *)
LEMMA SplitKeepsPoints ==
  ASSUME NEW points \in Seq(Nat), points # <<>>
  PROVE  LET segments == SplitOnGaps(points)
         IN  /\ segments \in Seq(Seq(Nat)) /\ FlattenSeq(segments) = points
             /\ \A k \in DOMAIN segments : segments[k] # <<>>
             /\ Heads(segments) = Starts(points, Len(points))
<1> DEFINE n == Len(points)
<1>0. n \in Nat \ {0}
  OBVIOUS
<1>1. PICK f : /\ SplitsUpTo(f, points)
               /\ SplitOnGaps(points) = Append(f[n].segments, f[n].current)
  BY SplitUpTo
<1> DEFINE S == {i \in 0..n : SplitInv(f[i], points, i)}
<1>2. 0 \in S
  <2>1. f[0] = [segments |-> <<>>, current |-> <<>>] /\ f[0].segments = <<>> /\ f[0].current = <<>>
    BY <1>1 DEF SplitsUpTo
  <2>2. f[0] \in Parts
    BY <2>1 DEF Parts
  <2>3. FlattenSeq(<<>>) = <<>>
    BY DEF FlattenSeq
  <2>4. SubSeq(points, 1, 0) = <<>>
    BY SubSeqEmpty
  <2>5. <<>> \o <<>> = <<>> /\ <<>> \in Seq(Nat)
    OBVIOUS
  <2>6. SplitInv(f[0], points, 0)
    <3> DEFINE c == f[0]
    <3>1. c.segments = <<>> /\ c.current = <<>> /\ c \in Parts /\ DOMAIN <<>> = {}
      BY <2>1, <2>2
    <3> HIDE DEF c
    <3>2. FlattenSeq(c.segments) \in Seq(Nat) /\ Makes(FlattenSeq(c.segments), c.current, points, 0)
      BY <2>3, <2>4, <2>5, <3>1 DEF Makes
    <3>3. SplitInv(c, points, 0)
      BY <3>1, <3>2 DEF SplitInv
    <3> QED BY <3>3 DEF c
  <2> QED BY <1>0, <2>6
<1>3. ASSUME NEW i \in 1..n, i - 1 \in S PROVE i \in S
  <2>1. f[i] = Goes(points, i, f[i - 1])
    BY <1>1 DEF SplitsUpTo
  <2>2. SplitInv(f[i - 1], points, i - 1)
    BY <1>3
  <2>3. SplitInv(f[i], points, i)
    BY <2>1, <2>2, SplitStep
  <2> QED BY <1>0, <2>3
<1>4. n \in S
  <2> HIDE DEF S, n
  <2> QED BY <1>0, <1>2, <1>3, Climb
<1> DEFINE segs == f[n].segments
           cur == f[n].current
           all == Append(segs, cur)
<1>5. /\ segs \in Seq(Seq(Nat)) /\ cur \in Seq(Nat) /\ cur # <<>>
      /\ FlattenSeq(segs) \o cur = SubSeq(points, 1, n)
      /\ \A k \in DOMAIN segs : segs[k] # <<>>
      /\ Heads(segs) \cup {Head(cur)} = Starts(points, n)
  BY <1>0, <1>4 DEF SplitInv, Parts, Makes
<1> HIDE DEF segs, cur
<1>6. FlattenSeq(all) = points
  BY <1>5, FlattenAppend, SubSeqFull
<1>7. Heads(all) = Starts(points, n)
  BY <1>5, HeadsAppend
<1>8. all \in Seq(Seq(Nat)) /\ \A k \in DOMAIN all : all[k] # <<>>
  BY <1>5, NoneIsEmpty
<1> QED BY <1>1, <1>6, <1>7, <1>8 DEF segs, cur, all

-----------------------------------------------------------------------------
(* The upper median of gaps is one of them.                                 *)
Smaller(ds, v) == {i \in DOMAIN ds : ds[i] < v}
NotLarger(ds, v) == {i \in DOMAIN ds : ds[i] <= v}
IsMedian(ds, v) ==
  Cardinality(Smaller(ds, v)) <= Len(ds) \div 2 /\ Len(ds) \div 2 < Cardinality(NotLarger(ds, v))

LEMMA MedianExists ==
  ASSUME NEW ds \in Seq(Nat \ {0}), ds # <<>>, NEW b \in Nat, \A i \in DOMAIN ds : ds[i] <= b
  PROVE  \E v \in ToSet(ds) : IsMedian(ds, v)
<1> DEFINE n == Len(ds)
           middle == n \div 2
           S == {v \in Nat : middle < Cardinality(NotLarger(ds, v))}
<1>0. n \in Nat \ {0} /\ DOMAIN ds = 1..n /\ middle \in Nat /\ middle < n /\ \A i \in 1..n : ds[i] \in Nat \ {0}
  OBVIOUS
<1>1. b \in S
  <2>1. NotLarger(ds, b) = 1..n
    BY <1>0 DEF NotLarger
  <2>2. Cardinality(1..n) = n
    <3>1. 1 \in Int /\ n \in Int /\ ~(1 > n) /\ n - 1 + 1 = n
      BY <1>0
    <3> HIDE DEF n
    <3>2. Cardinality(1..n) = IF 1 > n THEN 0 ELSE n - 1 + 1
      BY <3>1, FS_Interval
    <3> QED BY <3>1, <3>2
  <2> QED BY <1>0, <2>1, <2>2
<1>2. PICK v \in S : v = 0 \/ (v - 1 \in Nat /\ v - 1 \notin S)
  <2>1. S \in SUBSET Nat /\ S # {}
    BY <1>1
  <2> HIDE DEF S
  <2> QED BY <2>1, Least
<1>3. v \in Nat /\ middle < Cardinality(NotLarger(ds, v))
  OBVIOUS
<1>4. v # 0
  <2>1. NotLarger(ds, 0) = {}
    BY <1>0 DEF NotLarger
  <2>2. Cardinality(NotLarger(ds, 0)) = 0
    BY <2>1, FS_EmptySet
  <2> HIDE DEF middle
  <2> QED BY <1>0, <1>3, <2>2
<1>5. NotLarger(ds, v - 1) = Smaller(ds, v)
  BY <1>0, <1>3 DEF NotLarger, Smaller
<1>6. Cardinality(Smaller(ds, v)) \in Nat
  <2>1. IsFiniteSet(1..n)
    BY <1>0, FS_Interval
  <2>2. IsFiniteSet(Smaller(ds, v))
    BY <1>0, <2>1, FS_Subset DEF Smaller
  <2> QED BY <2>2, FS_CardinalityType
<1>7. Cardinality(Smaller(ds, v)) <= middle
  <2>1. ~(middle < Cardinality(NotLarger(ds, v - 1)))
    BY <1>2, <1>4
  <2> QED BY <1>0, <1>5, <1>6, <2>1
<1>8. v \in ToSet(ds)
  <2> SUFFICES ASSUME v \notin ToSet(ds) PROVE FALSE
    OBVIOUS
  <2>1. \A i \in 1..n : ds[i] # v
    BY <1>0 DEF ToSet
  <2>2. NotLarger(ds, v) = Smaller(ds, v)
    BY <1>0, <1>3, <2>1 DEF NotLarger, Smaller
  <2> QED BY <1>0, <1>3, <1>6, <1>7, <2>2
<1> QED BY <1>3, <1>7, <1>8 DEF IsMedian

\* The times that a curve is drawn over: each later than the one before.
Rising(points) ==
  /\ points \in Seq(Nat)
  /\ \A i, j \in DOMAIN points : i < j => points[i] < points[j]

Waits(points) == [i \in 1..(Len(points) - 1) |-> points[i + 1] - points[i]]

(* They are all later, so none of them is left out of the gaps.             *)
LEMMA WaitsBetween ==
  ASSUME NEW points, Rising(points), points # <<>>
  PROVE  /\ Waits(points) \in Seq(Nat \ {0}) /\ Len(Waits(points)) = Len(points) - 1
         /\ DOMAIN Waits(points) = 1..(Len(points) - 1) /\ Len(points) \in Nat \ {0}
         /\ \A i \in 1..(Len(points) - 1) : Waits(points)[i] = points[i + 1] - points[i]
         /\ Deltas(points) = Waits(points)
         /\ \E b \in Nat : \A i \in DOMAIN Waits(points) : Waits(points)[i] <= b
<1> DEFINE n == Len(points) - 1
           ds == Waits(points)
<1>0. points \in Seq(Nat) /\ Len(points) \in Nat \ {0} /\ DOMAIN points = 1..Len(points) /\ n \in Nat
  BY DEF Rising
<1>1. ASSUME NEW i \in 1..n
      PROVE  /\ points[i + 1] - points[i] \in Nat \ {0}
             /\ points[i + 1] - points[i] <= points[n + 1]
  <2>1. i \in DOMAIN points /\ i + 1 \in DOMAIN points /\ n + 1 \in DOMAIN points /\ i < i + 1
    BY <1>0
  <2>2. points[i] \in Nat /\ points[i + 1] \in Nat /\ points[n + 1] \in Nat
    BY <1>0, <2>1
  <2>3. points[i] < points[i + 1]
    BY <2>1 DEF Rising
  <2>4. points[i + 1] <= points[n + 1]
    <3>1. i + 1 = n + 1 \/ i + 1 < n + 1
      <4> HIDE DEF n
      <4> QED BY <1>0
    <3>2. i + 1 < n + 1 => points[i + 1] < points[n + 1]
      BY <2>1, Zenon DEF Rising
    <3> QED BY <2>2, <3>1, <3>2
  <2> QED BY <2>2, <2>3, <2>4
<1>2. /\ ds \in [1..n -> Nat \ {0}] /\ DOMAIN ds = 1..n
      /\ \A i \in 1..n : ds[i] = points[i + 1] - points[i]
  <2>1. \A i \in 1..n : points[i + 1] - points[i] \in Nat \ {0}
    BY <1>1
  <2>2. ds = [i \in 1..n |-> points[i + 1] - points[i]]
    BY DEF Waits
  <2> HIDE DEF n, ds
  <2>3. ds \in [1..n -> Nat \ {0}]
    BY <2>1, <2>2, Zenon
  <2> QED BY <2>2, <2>3
<1> HIDE DEF ds
<1>3. ds \in Seq(Nat \ {0}) /\ Len(ds) = n
  <2> HIDE DEF n
  <2> QED BY <1>0, <1>2
<1>4. Deltas(points) = ds
  <2>1. Deltas(points) = Kept(ds, {i \in DOMAIN ds : ds[i] > 0})
    BY DEF Deltas, Waits, ds
  <2>2. DOMAIN ds \subseteq {i \in DOMAIN ds : ds[i] > 0}
    BY <1>2
  <2> QED BY <1>3, <2>1, <2>2, KeptAll
<1>5. \E b \in Nat : \A i \in DOMAIN ds : ds[i] <= b
  <2>1. points[n + 1] \in Nat
    BY <1>0
  <2>2. \A i \in DOMAIN ds : ds[i] <= points[n + 1]
    BY <1>1, <1>2
  <2> QED BY <2>1, <2>2
<1> QED BY <1>0, <1>2, <1>3, <1>4, <1>5 DEF ds

(* The threshold is three times the median of the gaps, at least an hour.   *)
LEMMA ThresholdIs ==
  ASSUME NEW points, Rising(points), Len(points) > 1
  PROVE  \E v \in ToSet(Waits(points)) :
            /\ v \in Nat \ {0} /\ IsMedian(Waits(points), v)
            /\ Threshold(points) = IF v * 3 > Hour THEN v * 3 ELSE Hour
<1> DEFINE ds == Waits(points)
<1>0. points # <<>> /\ Len(points) \in Nat
  BY DEF Rising
<1>1. /\ ds \in Seq(Nat \ {0}) /\ Len(ds) = Len(points) - 1 /\ Deltas(points) = ds
      /\ \E b \in Nat : \A i \in DOMAIN ds : ds[i] <= b
  BY <1>0, WaitsBetween
<1> HIDE DEF ds
<1>2. ds # <<>>
  BY <1>0, <1>1
<1>3. \E v \in ToSet(ds) : IsMedian(ds, v)
  BY <1>1, <1>2, MedianExists
<1> DEFINE typical == CHOOSE v \in ToSet(ds) : IsMedian(ds, v)
<1>4. typical \in ToSet(ds) /\ IsMedian(ds, typical)
  BY <1>3
<1>5. Threshold(points) = IF typical * 3 > Hour THEN typical * 3 ELSE Hour
  <2> DEFINE median(q) == CHOOSE v \in ToSet(q) : IsMedian(q, v)
             limit(q) == IF q = <<>> THEN None ELSE IF median(q) * 3 > Hour THEN median(q) * 3 ELSE Hour
  <2>1. Threshold(points) = limit(Deltas(points))
    BY DEF Threshold, IsMedian, Smaller, NotLarger
  <2>2. limit(ds) = IF typical * 3 > Hour THEN typical * 3 ELSE Hour
    BY <1>2, Zenon
  <2> HIDE DEF limit, typical
  <2> QED BY <1>1, <2>1, <2>2
<1> HIDE DEF typical
<1>6. typical \in Nat \ {0}
  BY <1>1, <1>4 DEF ToSet
<1> QED BY <1>4, <1>5, <1>6 DEF ds

(* A curve goes on over an hour, and breaks at a gap of more than an hour   *)
(* and more than three times every other of three gaps or more.             *)
LEMMA BreaksWhereNothingWasLogged ==
  ASSUME NEW points, Rising(points), NEW i \in 2..Len(points)
  PROVE  /\ points[i] - points[i - 1] <= Hour => ~Breaks(points, i)
         /\ /\ Len(points) >= 4 /\ points[i] - points[i - 1] > Hour
            /\ \A j \in 2..Len(points) : j # i => points[i] - points[i - 1] > 3 * (points[j] - points[j - 1])
            => Breaks(points, i)
<1> DEFINE ds == Waits(points)
           n == Len(points) - 1
           gap == points[i] - points[i - 1]
<1>0. Len(points) \in Nat /\ Len(points) > 1 /\ points # <<>> /\ n \in Nat \ {0} /\ i - 1 \in 1..n
  BY DEF Rising
<1>1. /\ ds \in Seq(Nat \ {0}) /\ Len(ds) = n /\ DOMAIN ds = 1..n
      /\ \A k \in 1..n : ds[k] = points[k + 1] - points[k] /\ ds[k] \in Nat \ {0}
  BY <1>0, WaitsBetween
<1>2. PICK v \in ToSet(ds) : /\ v \in Nat \ {0} /\ IsMedian(ds, v)
                             /\ Threshold(points) = IF v * 3 > Hour THEN v * 3 ELSE Hour
  BY <1>0, ThresholdIs
<1> HIDE DEF ds
<1>3. gap = ds[i - 1] /\ gap \in Nat
  <2>1. ds[i - 1] = points[(i - 1) + 1] - points[i - 1] /\ ds[i - 1] \in Nat
    <3> HIDE DEF n
    <3> QED BY <1>0, <1>1
  <2>2. (i - 1) + 1 = i
    OBVIOUS
  <2> QED BY <2>1, <2>2
<1> HIDE DEF gap
<1>4. Threshold(points) \in Nat /\ Threshold(points) >= Hour /\ Threshold(points) # None
  BY <1>2 DEF Hour, None
<1>5. Breaks(points, i) <=> gap > Threshold(points)
  BY <1>4 DEF Breaks, gap
<1>6. gap <= Hour => ~Breaks(points, i)
  BY <1>3, <1>4, <1>5 DEF Hour
<1>7. ASSUME n >= 3, gap > Hour, \A j \in 2..Len(points) : j # i => gap > 3 * (points[j] - points[j - 1])
      PROVE  Breaks(points, i)
  <2>1. \A k \in 1..n : k # i - 1 => gap > 3 * ds[k]
    <3> SUFFICES ASSUME NEW k \in 1..n, k # i - 1 PROVE gap > 3 * ds[k]
      OBVIOUS
    <3>1. k + 1 \in 2..Len(points) /\ k + 1 # i /\ (k + 1) - 1 = k
      BY <1>0
    <3>2. gap > 3 * (points[k + 1] - points[(k + 1) - 1])
      BY <1>7, <3>1
    <3> QED BY <1>1, <3>1, <3>2
  <2>2. PICK k \in 1..n : v = ds[k]
    BY <1>1 DEF ToSet
  <2>3. k # i - 1
    <3> SUFFICES ASSUME k = i - 1 PROVE FALSE
      OBVIOUS
    <3>1. Smaller(ds, v) = (1..n) \ {k}
      <4>1. v = gap /\ ~(gap < gap)
        BY <1>3, <2>2
      <4>2. \A m \in 1..n : m # k => ds[m] < gap
        BY <1>1, <1>3, <2>1
      <4> QED BY <1>1, <2>2, <4>1, <4>2 DEF Smaller
    <3>2. IsFiniteSet(1..n) /\ Cardinality(1..n) = n
      <4>1. 1 \in Int /\ n \in Int /\ ~(1 > n) /\ n - 1 + 1 = n
        BY <1>0
      <4> HIDE DEF n
      <4>2. Cardinality(1..n) = IF 1 > n THEN 0 ELSE n - 1 + 1
        BY <4>1, FS_Interval
      <4> QED BY <4>1, <4>2, FS_Interval
    <3>3. Cardinality((1..n) \ {k}) = n - 1
      <4> DEFINE S == 1..n
      <4>1. IsFiniteSet(S) /\ Cardinality(S) = n /\ k \in S
        BY <3>2
      <4> HIDE DEF S
      <4>2. Cardinality(S \ {k}) = n - 1
        BY <4>1, FS_RemoveElement
      <4> QED BY <4>2 DEF S
    <3>4. Cardinality(Smaller(ds, v)) <= n \div 2
      BY <1>1, <1>2 DEF IsMedian
    <3>5. n - 1 <= n \div 2
      BY <3>1, <3>3, <3>4
    <3> HIDE DEF n
    <3> QED BY <1>0, <1>7, <3>5
  <2>4. gap > 3 * v
    BY <2>1, <2>2, <2>3
  <2> QED BY <1>2, <1>3, <1>5, <1>7, <2>4 DEF Hour
<1>8. Len(points) >= 4 => n >= 3
  BY <1>0
<1> QED BY <1>6, <1>7, <1>8 DEF gap

-----------------------------------------------------------------------------
(* What a page reads: rows of different times in their order, the newest    *)
(* row of the table among them if there are any, and there are if one of    *)
(* the table is in the window.                                              *)
Later == {p \in Rows \X Rows : p[1].at < p[2].at}

LEMMA WindowShowsNewest ==
  ASSUME HistoryInv, NEW hours \in Nat
  PROVE  LET shown == FetchReadings(hours)
         IN  /\ shown \in Seq(Valid) /\ Ordered(shown, Later)
             /\ (\E r \in ToSet(rows) : r.at >= now - hours) => shown # <<>>
             /\ shown # <<>> => \A r \in ToSet(rows) : Last(shown).at >= r.at
<1> DEFINE n == Len(rows)
           keep == {i \in DOMAIN rows : \A j \in (i + 1)..n : rows[j].at # rows[i].at}
           table == Cleaned(rows)
           inside == {i \in DOMAIN table : table[i].at >= now - hours}
           shown == FetchReadings(hours)
<1>0. /\ rows \in Seq(Valid) /\ n \in Nat /\ DOMAIN rows = 1..n /\ Ordered(rows, InTime)
      /\ \A i \in 1..n : rows[i] \in Valid /\ rows[i] \in Rows /\ rows[i].at \in Nat
      /\ now \in Nat
  <2>1. rows \in Seq(Valid) /\ Ordered(rows, InTime) /\ now \in Nat
    BY DEF HistoryInv, MeterInv
  <2>2. \A i \in 1..n : rows[i] \in Valid
    BY <2>1
  <2>3. \A r \in Valid : r \in Rows /\ r.at \in Nat
    BY RowTypes DEF Valid
  <2> QED BY <2>1, <2>2, <2>3
<1>1. /\ table \in Seq(Valid) /\ Ordered(table, Later)
      /\ Holds(table, rows, DOMAIN rows \cap keep)
  <2>1. ASSUME NEW j \in DOMAIN rows \cap keep, NEW k \in DOMAIN rows \cap keep, j < k
        PROVE  <<rows[j], rows[k]>> \in Later
    <3>1. rows[j].at <= rows[k].at
      BY <1>0, <2>1 DEF Ordered, InTime
    <3>2. k \in (j + 1)..n
      BY <1>0, <2>1
    <3>3. rows[k].at # rows[j].at
      BY <2>1, <3>2
    <3> QED BY <1>0, <2>1, <3>1, <3>3 DEF Later
  <2>2. table = Kept(rows, keep)
    BY DEF Cleaned
  <2> HIDE DEF table, keep
  <2> QED BY <1>0, <2>1, <2>2, KeptRows
<1>2. shown = Kept(table, inside)
  BY DEF FetchReadings
<1> HIDE DEF table, shown
<1>3. /\ shown \in Seq(Valid) /\ Ordered(shown, Later)
      /\ Holds(shown, table, DOMAIN table \cap inside)
  <2>1. \A j, k \in DOMAIN table \cap inside : j < k => <<table[j], table[k]>> \in Later
    BY <1>1, Zenon DEF Ordered
  <2> HIDE DEF inside
  <2> QED BY <1>1, <1>2, <2>1, KeptRows
<1> DEFINE newest == rows[n]
<1>4. ASSUME n # 0
      PROVE  /\ newest \in Valid /\ newest.at \in Nat
             /\ \A i \in 1..n : rows[i].at <= newest.at
             /\ \E k \in DOMAIN table : table[k] = newest
  <2>1. n \in 1..n /\ n \in DOMAIN rows /\ (n + 1)..n = {}
    BY <1>0, <1>4
  <2>2. n \in DOMAIN rows \cap keep
    BY <2>1
  <2>3. \E k \in DOMAIN table : table[k] = newest
    BY <1>1, <2>2 DEF Holds
  <2>4. ASSUME NEW i \in 1..n PROVE rows[i].at <= newest.at
    <3>1. CASE i = n
      BY <1>0, <3>1
    <3>2. CASE i # n
      <4>1. i < n
        <5> HIDE DEF n
        <5> QED BY <1>0, <3>2
      <4> QED BY <1>0, <2>1, <4>1 DEF Ordered, InTime
    <3> QED BY <3>1, <3>2
  <2> QED BY <1>0, <2>1, <2>3, <2>4
<1> HIDE DEF keep, newest
<1>5. ASSUME n # 0, newest.at >= now - hours
      PROVE  \E j \in DOMAIN shown : shown[j] = newest
  <2>1. PICK k \in DOMAIN table : table[k] = newest
    BY <1>4, <1>5
  <2>2. k \in DOMAIN table \cap inside
    BY <1>5, <2>1
  <2> HIDE DEF inside
  <2>3. PICK j \in DOMAIN shown : shown[j] = table[k]
    BY <1>3, <2>2, Zenon DEF Holds
  <2> QED BY <2>1, <2>3
<1>6. ASSUME NEW r \in ToSet(rows)
      PROVE  n # 0 /\ r.at \in Nat /\ r.at <= newest.at
  <2>1. PICK i \in 1..n : r = rows[i]
    BY <1>0 DEF ToSet
  <2>2. n # 0
    BY <1>0
  <2> QED BY <1>0, <1>4, <2>1, <2>2
<1>7. ASSUME NEW r \in ToSet(rows), r.at >= now - hours PROVE shown # <<>>
  <2>1. newest.at >= now - hours /\ n # 0
    BY <1>0, <1>4, <1>6, <1>7
  <2>2. PICK j \in DOMAIN shown : shown[j] = newest
    BY <1>5, <2>1
  <2> QED BY <2>2
<1>8. ASSUME shown # <<>>, NEW r \in ToSet(rows) PROVE Last(shown).at >= r.at
  <2>1. /\ Len(shown) \in Nat \ {0} /\ DOMAIN shown = 1..Len(shown) /\ 1 \in DOMAIN shown
        /\ Last(shown) = shown[Len(shown)] /\ Len(shown) \in DOMAIN shown
        /\ \A j \in DOMAIN shown : shown[j] \in Valid
    BY <1>3, <1>8 DEF Last
  <2>2. PICK k \in DOMAIN table : k \in inside /\ shown[1] = table[k]
    <3> HIDE DEF inside
    <3> QED BY <1>3, <2>1 DEF Holds
  <2>3. PICK i \in 1..n : table[k] = rows[i]
    BY <1>0, <1>1, <2>2 DEF Holds
  <2>4. newest.at >= now - hours
    <3>1. rows[i].at >= now - hours /\ rows[i].at <= newest.at
      BY <1>4, <1>6, <2>2, <2>3
    <3> QED BY <1>0, <1>4, <1>6, <3>1
  <2>5. PICK j \in DOMAIN shown : shown[j] = newest
    BY <1>5, <1>6, <1>8, <2>4
  <2>6. Last(shown).at >= newest.at
    <3>1. CASE j = Len(shown)
      BY <1>4, <1>6, <1>8, <2>1, <2>5, <3>1
    <3>2. CASE j # Len(shown)
      <4>1. j < Len(shown)
        BY <2>1, <3>2
      <4>2. <<shown[j], shown[Len(shown)]>> \in Later
        BY <1>3, <2>1, <4>1, Zenon DEF Ordered
      <4>3. shown[j] \in Rows /\ shown[Len(shown)] \in Rows /\ shown[j].at < shown[Len(shown)].at
        BY <4>2 DEF Later
      <4> QED BY <2>1, <2>5, <4>3, RowTypes
    <3> QED BY <3>1, <3>2
  <2>7. Last(shown).at \in Nat
    BY <2>1, RowTypes DEF Valid
  <2> QED BY <1>4, <1>6, <2>6, <2>7
<1> QED BY <1>3, <1>7, <1>8 DEF shown

(* The page reads one of its windows, one with rows if there is one, unless *)
(* others have rows where this source has none.                             *)
LEMMA PageReads ==
  /\ PageReadings = <<>> \/ \E n \in DOMAIN Windows : PageReadings = FetchReadings(Windows[n])
  /\ (\E n \in DOMAIN Windows : FetchReadings(Windows[n]) # <<>>) =>
        \/ PageReadings # <<>>
        \/ \E n \in DOMAIN Windows :
              FetchReadings(Windows[n]) = <<>> /\ others # None /\ others >= now - Windows[n]
<1> DEFINE full == {n \in DOMAIN Windows : \/ FetchReadings(Windows[n]) # <<>>
                                           \/ others # None /\ others >= now - Windows[n]}
           shown == Kept(Windows, full)
<1>1. Windows \in Seq(Nat)
  BY HistoryAssumption
<1>2. shown \in Seq(Nat) /\ Holds(shown, Windows, DOMAIN Windows \cap full)
  <2>1. \A j, k \in DOMAIN Windows \cap full : j < k => <<Windows[j], Windows[k]>> \in Nat \X Nat
    BY <1>1
  <2> HIDE DEF full
  <2> QED BY <1>1, <2>1, KeptRows
<1>3. PageReadings = IF shown = <<>> THEN <<>> ELSE FetchReadings(Head(shown))
  BY DEF PageReadings
<1> HIDE DEF shown
<1>4. ASSUME shown # <<>>
      PROVE  \E n \in DOMAIN Windows \cap full : PageReadings = FetchReadings(Windows[n])
  <2>1. 1 \in DOMAIN shown /\ Head(shown) = shown[1]
    BY <1>2, <1>4
  <2>2. PICK n \in DOMAIN Windows \cap full : shown[1] = Windows[n]
    <3> HIDE DEF full
    <3> QED BY <1>2, <2>1, Zenon DEF Holds
  <2> QED BY <1>3, <1>4, <2>1, <2>2
<1>5. ASSUME NEW n \in DOMAIN Windows, FetchReadings(Windows[n]) # <<>> PROVE shown # <<>>
  <2>1. n \in DOMAIN Windows \cap full
    BY <1>5
  <2>2. PICK j \in DOMAIN shown : shown[j] = Windows[n]
    <3> HIDE DEF full
    <3> QED BY <1>2, <2>1, Zenon DEF Holds
  <2> QED BY <2>2
<1> QED BY <1>3, <1>4, <1>5

(* Whatever the windows, the gaps between polls and the size of the picture,*)
(* a page shows the newest row that no other source hides by having rows in *)
(* a narrower window, and its curve holds every point, breaks               *)
(* only where something is missing, and keeps its ends when it is thinned   *)
(* out (temperature_logger.py:855-899, generate_static_report.py:155-192).  *)
THEOREM CurveIsFaithfulHolds == Spec => []CurveIsFaithful
<1>1. HistoryInv => CurveIsFaithful
  <2> SUFFICES ASSUME HistoryInv PROVE CurveIsFaithful
    OBVIOUS
  <2> DEFINE rs == PageReadings
             times == [i \in DOMAIN rs |-> rs[i].at]
             segments == SplitOnGaps(times)
             thin(k) == Curve(times)[k]
  <2>1. Windows \in Seq(Nat) /\ Windows # <<>> /\ \A n \in DOMAIN Windows : Windows[n] \in Nat
    BY HistoryAssumption
  <2>2. rs \in Seq(Valid) /\ Ordered(rs, Later)
    <3>1. CASE rs = <<>>
      <4>1. <<>> \in Seq(Valid) /\ DOMAIN <<>> = {}
        OBVIOUS
      <4> QED BY <3>1, <4>1 DEF Ordered
    <3>2. CASE rs # <<>>
      <4>1. PICK n \in DOMAIN Windows : rs = FetchReadings(Windows[n])
        BY <3>2, PageReads
      <4> HIDE DEF rs
      <4> QED BY <2>1, <4>1, WindowShowsNewest
    <3> QED BY <3>1, <3>2
  <2>3. ASSUME NEW r \in ToSet(rows), r.at >= now - Last(Windows)
        PROVE  \/ rs # <<>> /\ Latest(rs).at >= r.at
               \/ \E n \in DOMAIN Windows :
                     others # None /\ others >= now - Windows[n] /\ now - Windows[n] > r.at
    <3>1. Len(Windows) \in DOMAIN Windows /\ Last(Windows) = Windows[Len(Windows)]
      BY <2>1 DEF Last
    <3>2. FetchReadings(Windows[Len(Windows)]) # <<>>
      BY <2>1, <2>3, <3>1, WindowShowsNewest
    <3>3. \/ rs # <<>>
          \/ \E n \in DOMAIN Windows :
                FetchReadings(Windows[n]) = <<>> /\ others # None /\ others >= now - Windows[n]
      BY <3>1, <3>2, PageReads
    <3>4. rs = <<>> \/ \E n \in DOMAIN Windows : rs = FetchReadings(Windows[n])
      BY PageReads
    <3> HIDE DEF rs
    <3>5. rs # <<>> => Last(rs).at >= r.at
      BY <2>1, <2>3, <3>4, WindowShowsNewest
    <3>6. ASSUME NEW n \in DOMAIN Windows, FetchReadings(Windows[n]) = <<>>
          PROVE  now - Windows[n] > r.at
      <4>1. Windows[n] \in Nat /\ now \in Nat
        BY <2>1 DEF HistoryInv, MeterInv
      <4>2. r.at \in Nat
        <5>1. rows \in Seq(Valid)
          BY DEF HistoryInv
        <5>2. r \in Valid
          BY <2>3, <5>1 DEF ToSet
        <5> QED BY <5>2, RowTypes DEF Valid
      <4>3. ~(r.at >= now - Windows[n])
        BY <2>3, <3>6, <4>1, WindowShowsNewest
      <4> QED BY <4>1, <4>2, <4>3
    <3> QED BY <3>3, <3>5, <3>6 DEF Latest
  <2> HIDE DEF rs
  <2>4. /\ Len(rs) \in Nat /\ DOMAIN rs = 1..Len(rs)
        /\ \A i \in 1..Len(rs) : rs[i] \in Rows /\ rs[i].at \in Nat
    <3>1. \A i \in 1..Len(rs) : rs[i] \in Valid
      BY <2>2
    <3>2. \A r \in Valid : r \in Rows /\ r.at \in Nat
      BY RowTypes DEF Valid
    <3> QED BY <2>2, <3>1, <3>2
  <2>5. Rising(times) /\ Len(times) = Len(rs) /\ DOMAIN times = 1..Len(rs)
    <3>1. times \in Seq(Nat) /\ DOMAIN times = 1..Len(rs) /\ \A i \in 1..Len(rs) : times[i] = rs[i].at
      BY <2>4
    <3>2. \A i, j \in 1..Len(rs) : i < j => rs[i].at < rs[j].at
      BY <2>2, <2>4 DEF Ordered, Later
    <3>3. Len(times) = Len(rs)
      BY <2>4, <3>1
    <3> HIDE DEF times
    <3> QED BY <3>1, <3>2, <3>3 DEF Rising
  <2> HIDE DEF times
  <2>6. times \in Seq(Nat) /\ Len(times) \in Nat
    BY <2>4, <2>5 DEF Rising
  <2>7. FlattenSeq(segments) = times
    <3>1. CASE times = <<>>
      BY <3>1 DEF SplitOnGaps, FlattenSeq
    <3>2. CASE times # <<>>
      BY <2>6, <3>2, SplitKeepsPoints
    <3> QED BY <3>1, <3>2
  <2>8. ASSUME NEW i \in 2..Len(times)
        PROVE  (\E k \in DOMAIN segments : segments[k][1] = times[i]) <=> Breaks(times, i)
    <3>1. times # <<>> /\ i \in DOMAIN times /\ 1 \in DOMAIN times /\ DOMAIN times = 1..Len(times) /\ i # 1
      BY <2>4, <2>5
    <3>2. /\ segments \in Seq(Seq(Nat)) /\ Heads(segments) = Starts(times, Len(times))
          /\ \A k \in DOMAIN segments : segments[k] # <<>>
      BY <2>6, <3>1, SplitKeepsPoints
    <3> HIDE DEF segments
    <3>3. \A k \in DOMAIN segments : Head(segments[k]) = segments[k][1]
      BY <3>2
    <3>4. (\E k \in DOMAIN segments : segments[k][1] = times[i]) <=> times[i] \in Heads(segments)
      BY <3>3 DEF Heads
    <3>5. \A j \in 1..Len(times) : times[j] = times[i] => j = i
      <4> SUFFICES ASSUME NEW j \in 1..Len(times), j # i PROVE times[j] # times[i]
        OBVIOUS
      <4>1. times[j] \in Nat /\ times[i] \in Nat
        BY <2>6, <3>1
      <4>2. (j < i => times[j] < times[i]) /\ (i < j => times[i] < times[j])
        BY <2>5, <3>1 DEF Rising
      <4>3. j < i \/ i < j
        BY <2>6, <3>1
      <4> QED BY <4>1, <4>2, <4>3
    <3>6. times[i] \in Starts(times, Len(times)) <=> Breaks(times, i)
      BY <3>1, <3>5 DEF Starts
    <3> QED BY <3>2, <3>4, <3>6
  <2>9. ASSUME NEW k \in DOMAIN segments
        PROVE  /\ Head(thin(k)) = Head(segments[k]) /\ Last(thin(k)) = Last(segments[k])
               /\ ToSet(thin(k)) \subseteq ToSet(segments[k])
               /\ Len(thin(k)) <= MaxPoints + 1
    <3>1. times # <<>>
      <4>1. SplitOnGaps(<<>>) = <<>> /\ DOMAIN <<>> = {}
        BY DEF SplitOnGaps
      <4> QED BY <2>9, <4>1
    <3>2. segments \in Seq(Seq(Nat)) /\ segments[k] # <<>>
      BY <2>6, <2>9, <3>1, SplitKeepsPoints
    <3>3. thin(k) = Downsample(segments[k])
      BY <2>9 DEF Curve
    <3> DEFINE segment == segments[k]
               few == Downsample(segment)
    <3>4. segment \in Seq(Nat) /\ segment # <<>>
      <4> HIDE DEF segments
      <4> QED BY <2>9, <3>2
    <3> HIDE DEF segment
    <3>5. /\ Len(few) \in 1..(MaxPoints + 1) /\ Head(few) = Head(segment) /\ Last(few) = Last(segment)
          /\ Thins(few, segment)
      BY <3>4, DownsampleKeepsEnds
    <3> HIDE DEF few
    <3>6. ToSet(few) \subseteq ToSet(segment)
      BY <3>5 DEF Thins, ToSet
    <3>7. Len(few) <= MaxPoints + 1
      BY <3>5, HistoryAssumption
    <3> QED BY <3>3, <3>5, <3>6, <3>7 DEF few, segment
  <2>10. ASSUME NEW i \in 2..Len(times)
         PROVE  /\ times[i] - times[i - 1] <= Hour => ~Breaks(times, i)
                /\ /\ Len(times) >= 4 /\ times[i] - times[i - 1] > Hour
                   /\ \A j \in 2..Len(times) : j # i => times[i] - times[i - 1] > 3 * (times[j] - times[j - 1])
                   => Breaks(times, i)
    BY <2>5, <2>10, BreaksWhereNothingWasLogged
  <2> DEFINE gap(i) == times[i] - times[i - 1]
             broken(i) == \E k \in DOMAIN segments : segments[k][1] = times[i]
  <2>11. \A i \in 2..Len(times) :
           /\ gap(i) <= Hour => ~broken(i)
           /\ /\ Len(times) >= 4 /\ gap(i) > Hour
              /\ \A j \in 2..Len(times) : j # i => gap(i) > 3 * gap(j)
              => broken(i)
    BY <2>8, <2>10, Zenon
  <2> QED BY <2>3, <2>7, <2>9, <2>11, Zenon DEF CurveIsFaithful, rs, times
<1>2. QED
  BY <1>1, HistoryInit, HistoryNext, PTL DEF Spec
=============================================================================
