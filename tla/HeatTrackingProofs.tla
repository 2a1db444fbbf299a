------------------------- MODULE HeatTrackingProofs -------------------------
(* Proofs about trackers and heatmap: squashing leaves counters that are    *)
(* apart and have the accesses of all trackers, the heatmap's ranges are    *)
(* proper, and the heatmap is a heat of every page.                         *)
EXTENDS HeatTracking, FiniteSetTheorems, WellFoundedInduction, TLAPS

-----------------------------------------------------------------------------
(* Folds *)


\* h is the fold, over each subset of s, of step: it takes pick[t] last of the elements of t.
IsFold(h, s, T, base, pick, step) ==
  /\ h \in [SUBSET s -> T]
  /\ h[{}] = base
  /\ \A t \in (SUBSET s) \ {{}} : h[t] = step[<<pick[t], h[t \ {pick[t]}]>>]

LEMMA SmallestSet ==
  ASSUME NEW D, IsFiniteSet(D), NEW W \in SUBSET SUBSET D, W # {}
  PROVE  \E s \in W : \A t \in W : t \subseteq s => t = s
<1>1. FiniteSubsetsOf(D) = SUBSET D /\ IsWellFoundedOn(StrictSubsetOrdering(D), FiniteSubsetsOf(D))
  BY FS_FiniteSubsetsOfFinite, FS_StrictSubsetOrderingWellFounded
<1>2. PICK s \in W : \A t \in W : <<t, s>> \notin StrictSubsetOrdering(D)
  BY <1>1, WFMin
<1> QED BY <1>2 DEF StrictSubsetOrdering

LEMMA FoldsAgree ==
  ASSUME NEW D, IsFiniteSet(D), NEW T, NEW base, NEW pick, NEW step,
         \A t \in (SUBSET D) \ {{}} : pick[t] \in t,
         NEW s \in SUBSET D, NEW u \in SUBSET D, NEW h, NEW k,
         IsFold(h, s, T, base, pick, step), IsFold(k, u, T, base, pick, step)
  PROVE  \A t \in SUBSET (s \cap u) : h[t] = k[t]
<1> DEFINE W == {t \in SUBSET (s \cap u) : h[t] # k[t]}
<1> SUFFICES ASSUME W # {} PROVE FALSE
  OBVIOUS
<1>1. PICK t \in W : \A v \in W : v \subseteq t => v = t
  <2>1. W \in SUBSET SUBSET D
    OBVIOUS
  <2> HIDE DEF W
  <2> QED BY <2>1, SmallestSet
<1>2. t # {}
  BY DEF IsFold
<1>3. pick[t] \in t
  BY <1>2
<1>4. t \ {pick[t]} \notin W
  BY <1>1, <1>3
<1>5. h[t \ {pick[t]}] = k[t \ {pick[t]}]
  BY <1>4
<1> QED BY <1>2, <1>5 DEF IsFold

LEMMA FoldExists ==
  ASSUME NEW D, IsFiniteSet(D), NEW T, NEW base \in T, NEW pick, NEW step \in [D \X T -> T],
         \A t \in (SUBSET D) \ {{}} : pick[t] \in t
  PROVE  \E h : IsFold(h, D, T, base, pick, step)
<1> DEFINE Fold(s, h) == IsFold(h, s, T, base, pick, step)
           W == {s \in SUBSET D : ~\E h : Fold(s, h)}
<1> SUFFICES ASSUME W # {} PROVE FALSE
  OBVIOUS
<1>1. PICK s \in W : \A v \in W : v \subseteq s => v = s
  <2>1. W \in SUBSET SUBSET D
    OBVIOUS
  <2> HIDE DEF W
  <2> QED BY <2>1, SmallestSet
<1> DEFINE of(t) == CHOOSE h : Fold(t, h)
           less(t) == t \ {pick[t]}
           h == [t \in SUBSET s |-> IF t = {} THEN base ELSE step[<<pick[t], of(less(t))[less(t)]>>]]
<1> HIDE DEF Fold
<1>2. ASSUME NEW t \in (SUBSET s) \ {{}}
      PROVE  less(t) \in SUBSET s /\ pick[t] \in D /\ Fold(less(t), of(less(t)))
  <2>1. pick[t] \in t
    OBVIOUS
  <2>2. less(t) \subseteq s /\ less(t) # s
    BY <2>1
  <2>3. \E k : Fold(less(t), k)
    BY <1>1, <2>2
  <2> QED BY <2>1, <2>2, <2>3
<1>3. ASSUME NEW t \in (SUBSET s) \ {{}} PROVE of(less(t))[less(t)] \in T
  <2>1. Fold(less(t), of(less(t)))
    BY <1>2
  <2> HIDE DEF of, less
  <2> QED BY <2>1 DEF Fold, IsFold
<1>4. h \in [SUBSET s -> T]
  <2>1. \A t \in (SUBSET s) \ {{}} : step[<<pick[t], of(less(t))[less(t)]>>] \in T
    BY <1>2, <1>3
  <2> HIDE DEF of, less
  <2> QED BY <2>1
<1>5. h[{}] = base
  OBVIOUS
<1>6. ASSUME NEW t \in (SUBSET s) \ {{}} PROVE h[t] = step[<<pick[t], h[less(t)]>>]
  <2> DEFINE u == less(t)
  <2>1. u \in SUBSET s /\ Fold(u, of(u))
    BY <1>2
  <2>2. h[u] = of(u)[u]
    <3>1. CASE u = {}
      BY <2>1, <3>1 DEF Fold, IsFold
    <3>2. CASE u # {}
      <4>1. h[u] = step[<<pick[u], of(less(u))[less(u)]>>]
        BY <2>1, <3>2
      <4>2. of(u)[u] = step[<<pick[u], of(u)[less(u)]>>]
        BY <2>1, <3>2 DEF Fold, IsFold
      <4>3. Fold(less(u), of(less(u))) /\ less(u) \in SUBSET D /\ u \in SUBSET D
        BY <1>2, <2>1, <3>2
      <4>4. less(u) \in SUBSET (u \cap less(u))
        OBVIOUS
      <4> HIDE DEF of, less, h, u
      <4>5. of(u)[less(u)] = of(less(u))[less(u)]
        BY <2>1, <4>3, <4>4, FoldsAgree DEF Fold
      <4> QED BY <4>1, <4>2, <4>5
    <3> QED BY <3>1, <3>2
  <2>3. h[t] = step[<<pick[t], of(u)[u]>>]
    OBVIOUS
  <2> HIDE DEF of, less, h
  <2> QED BY <2>2, <2>3
<1> HIDE DEF h
<1>7. Fold(s, h)
  BY <1>4, <1>5, <1>6 DEF Fold, IsFold
<1> QED BY <1>1, <1>7

\* g has the equations of a fold as far as its values are in T.
GoesBy(g, D, T, pick, step) ==
  /\ g[{}] \in T
  /\ \A t \in (SUBSET D) \ {{}} :
       /\ pick[t] \in t
       /\ g[t \ {pick[t]}] \in T => g[t] = step[<<pick[t], g[t \ {pick[t]}]>>]

\* Then all of them are, if those of step are.
LEMMA FoldStaysIn ==
  ASSUME NEW D, IsFiniteSet(D), NEW T, NEW pick, NEW step, step \in [D \X T -> T],
         NEW g, GoesBy(g, D, T, pick, step)
  PROVE  g[D] \in T
<1> USE DEF GoesBy
<1> DEFINE W == {t \in SUBSET D : g[t] \notin T}
<1> SUFFICES ASSUME W # {} PROVE FALSE
  OBVIOUS
<1>1. PICK t \in W : \A v \in W : v \subseteq t => v = t
  <2>1. W \in SUBSET SUBSET D
    OBVIOUS
  <2> HIDE DEF W
  <2> QED BY <2>1, SmallestSet
<1>2. t # {} /\ pick[t] \in t
  OBVIOUS
<1>3. t \ {pick[t]} \notin W
  BY <1>1, <1>2
<1> QED BY <1>2, <1>3

LEMMA LastOfFew ==
  ASSUME NEW n \in Nat, NEW t \in SUBSET (1 .. n), t # {}
  PROVE  Max(t) \in t
<1> DEFINE T == {n - i : i \in t}
<1>1. T \subseteq Nat /\ T # {}
  <2>1. \A i \in t : n - i \in Nat
    OBVIOUS
  <2> QED BY <2>1
<1>2. PICK x \in T : \A y \in T : <<y, x>> \notin OpToRel(<, Nat)
  BY <1>1, NatLessThanWellFounded, WFMin
<1>3. PICK last \in t : x = n - last
  BY <1>2
<1>4. ASSUME NEW i \in t PROVE last >= i
  <2>1. n - i \in T
    OBVIOUS
  <2>2. ~(n - i < n - last)
    BY <1>1, <1>2, <1>3, <2>1 DEF OpToRel
  <2> HIDE DEF T
  <2> QED BY <2>2
<1> QED BY <1>4 DEF Max

-----------------------------------------------------------------------------
(* What startMoves finds where nothing was known *)
LEMMA LeastNumber ==
  ASSUME NEW T \in SUBSET Nat, T # {}
  PROVE  Min(T) \in T /\ \A y \in T : Min(T) <= y
<1>1. PICK x \in T : \A y \in T : <<y, x>> \notin OpToRel(<, Nat)
  BY NatLessThanWellFounded, WFMin
<1>2. \A y \in T : ~(y < x)
  BY <1>1 DEF OpToRel
<1>3. \A y \in T : x <= y
  BY <1>2
<1> QED BY <1>3 DEF Min

\* Induction up to n over a set of numbers.
LEMMA Upwards ==
  ASSUME NEW n \in Nat, NEW K \in SUBSET (0 .. n), 0 \in K,
         \A k \in 1 .. n : k - 1 \in K => k \in K
  PROVE  n \in K
<1> DEFINE T == (0 .. n) \ K
<1> SUFFICES ASSUME T # {} PROVE FALSE
  OBVIOUS
<1>1. T \in SUBSET Nat
  OBVIOUS
<1>2. Min(T) \in T /\ \A y \in T : Min(T) <= y
  <2> HIDE DEF T
  <2> QED BY <1>1, LeastNumber
<1>3. Min(T) \in 1 .. n /\ Min(T) - 1 \in 0 .. n
  BY <1>2
<1>4. Min(T) - 1 \notin T
  BY <1>2, <1>3
<1> QED BY <1>2, <1>3, <1>4

\* The values of a fold over the beginnings of 1 .. n, one after the other.
WalkAlong(w, n, T, fold, step) ==
  /\ w \in [0 .. n -> T]
  /\ w[0] = fold[{}] /\ w[n] = fold[1 .. n]
  /\ \A k \in 1 .. n : w[k] = step[<<k, w[k - 1]>>]

LEMMA FoldIsWalk ==
  ASSUME NEW n \in Nat, NEW T, NEW step \in [(1 .. n) \X T -> T], NEW fold, fold[{}] \in T,
         \A t \in (SUBSET (1 .. n)) \ {{}} :
            fold[t \ {Max(t)}] \in T => fold[t] = step[<<Max(t), fold[t \ {Max(t)}]>>]
  PROVE  \E w : WalkAlong(w, n, T, fold, step)
<1> DEFINE w == [k \in 0 .. n |-> fold[1 .. k]]
<1>1. ASSUME NEW k \in 1 .. n PROVE Max(1 .. k) = k /\ (1 .. k) \ {k} = 1 .. (k - 1) /\ k - 1 \in 0 .. n
  <2>1. Max(1 .. k) \in 1 .. k /\ \A y \in 1 .. k : Max(1 .. k) >= y
    <3>1. \E x \in 1 .. k : \A y \in 1 .. k : x >= y
      BY DEF Max
    <3> QED BY <3>1 DEF Max
  <2> QED BY <2>1
<1>2. ASSUME NEW k \in 1 .. n, w[k - 1] \in T PROVE w[k] = step[<<k, w[k - 1]>>]
  <2>1. (1 .. k) \in (SUBSET (1 .. n)) \ {{}}
    OBVIOUS
  <2>2. w[k] = fold[1 .. k] /\ w[k - 1] = fold[1 .. (k - 1)]
    OBVIOUS
  <2>3. Max(1 .. k) = k /\ (1 .. k) \ {k} = 1 .. (k - 1)
    BY <1>1
  <2> HIDE DEF w
  <2>4. fold[1 .. k] = step[<<k, fold[1 .. (k - 1)]>>]
    BY <1>2, <2>1, <2>2, <2>3
  <2> QED BY <2>2, <2>4
<1>3. w[0] = fold[{}] /\ w[n] = fold[1 .. n]
  <2>1. 1 .. 0 = {}
    OBVIOUS
  <2> QED BY <2>1
<1> HIDE DEF w
<1>4. \A k \in 0 .. n : w[k] \in T
  <2> SUFFICES ASSUME NEW m \in 0 .. n PROVE w[m] \in T
    OBVIOUS
  <2> DEFINE K == {k \in 0 .. m : w[k] \in T}
  <2>1. 0 \in K
    BY <1>3
  <2>2. ASSUME NEW k \in 1 .. m, k - 1 \in K PROVE k \in K
    <3>1. k \in 1 .. n /\ w[k - 1] \in T
      BY <2>2
    <3>2. w[k] = step[<<k, w[k - 1]>>]
      BY <1>2, <3>1
    <3> QED BY <3>1, <3>2
  <2>3. m \in K
    <3> HIDE DEF K
    <3>1. K \in SUBSET (0 .. m)
      BY DEF K
    <3> QED BY <2>1, <2>2, <3>1, Upwards
  <2> QED BY <2>3
<1>5. w \in [0 .. n -> T]
  BY <1>4 DEF w
<1>6. \A k \in 1 .. n : w[k] = step[<<k, w[k - 1]>>]
  BY <1>1, <1>2, <1>4
<1> QED BY <1>3, <1>5, <1>6 DEF WalkAlong

-----------------------------------------------------------------------------
(* Lists *)

\* Every element is before all later ones.
Chain(l, R) == \A i, j \in DOMAIN l : i < j => <<l[i], l[j]>> \in R

LEMMA ListFields ==
  ASSUME NEW T, NEW l \in Seq(T)
  PROVE  /\ Len(l) \in Nat /\ DOMAIN l = 1 .. Len(l)
         /\ \A i \in DOMAIN l : l[i] \in T /\ l[i] \in ToSet(l)
         /\ ToSet(l) \subseteq T
         /\ \A x \in ToSet(l) : \E i \in DOMAIN l : x = l[i]
  BY DEF ToSet

LEMMA NoElement == \A T, R : <<>> \in Seq(T) /\ ToSet(<<>>) = {} /\ Chain(<<>>, R)
  BY DEF ToSet, Chain

LEMMA OneElement ==
  ASSUME NEW T, NEW x \in T, NEW R
  PROVE  <<x>> \in Seq(T) /\ ToSet(<<x>>) = {x} /\ Chain(<<x>>, R)
<1>1. <<x>> \in Seq(T) /\ DOMAIN <<x>> = {1} /\ <<x>>[1] = x
  OBVIOUS
<1> QED BY <1>1 DEF ToSet, Chain

LEMMA Joining ==
  ASSUME NEW T, NEW s \in Seq(T), NEW t \in Seq(T)
  PROVE  /\ s \o t \in Seq(T) /\ ToSet(s \o t) = ToSet(s) \cup ToSet(t)
         /\ \A R : (/\ Chain(s, R) /\ Chain(t, R)
                    /\ \A x \in ToSet(s), y \in ToSet(t) : <<x, y>> \in R) => Chain(s \o t, R)
<1> DEFINE u == s \o t
<1>1. /\ Len(s) \in Nat /\ Len(t) \in Nat /\ DOMAIN s = 1 .. Len(s) /\ DOMAIN t = 1 .. Len(t)
      /\ u \in Seq(T) /\ DOMAIN u = 1 .. (Len(s) + Len(t))
  OBVIOUS
<1>2. /\ \A i \in DOMAIN s : u[i] = s[i] /\ i \in DOMAIN u
      /\ \A i \in DOMAIN t : u[Len(s) + i] = t[i] /\ Len(s) + i \in DOMAIN u
  OBVIOUS
<1>3. \A i \in DOMAIN u : i \in DOMAIN s \/ (i > Len(s) /\ i - Len(s) \in DOMAIN t /\ u[i] = t[i - Len(s)])
  OBVIOUS
<1> HIDE DEF u
<1>4. ToSet(u) = ToSet(s) \cup ToSet(t)
  <2>1. \A x \in ToSet(u) : x \in ToSet(s) \cup ToSet(t)
    BY <1>2, <1>3 DEF ToSet
  <2>2. \A x \in ToSet(s) : x \in ToSet(u)
    BY <1>2 DEF ToSet
  <2>3. \A x \in ToSet(t) : x \in ToSet(u)
    BY <1>2 DEF ToSet
  <2> QED BY <2>1, <2>2, <2>3
<1>5. ASSUME NEW R, Chain(s, R), Chain(t, R), \A x \in ToSet(s), y \in ToSet(t) : <<x, y>> \in R
      PROVE  Chain(u, R)
  <2> SUFFICES ASSUME NEW i \in DOMAIN u, NEW j \in DOMAIN u, i < j PROVE <<u[i], u[j]>> \in R
    BY DEF Chain
  <2>1. CASE j \in DOMAIN s
    <3>1. i \in DOMAIN s
      BY <1>1, <2>1
    <3> QED BY <1>2, <1>5, <2>1, <3>1 DEF Chain
  <2>2. CASE i \in DOMAIN s /\ j \notin DOMAIN s
    <3>1. u[i] \in ToSet(s) /\ u[j] \in ToSet(t)
      BY <1>2, <1>3, <2>2 DEF ToSet
    <3> QED BY <1>5, <3>1
  <2>3. CASE i \notin DOMAIN s /\ j \notin DOMAIN s
    <3>1. /\ i - Len(s) \in DOMAIN t /\ j - Len(s) \in DOMAIN t /\ i - Len(s) < j - Len(s)
          /\ u[i] = t[i - Len(s)] /\ u[j] = t[j - Len(s)]
      BY <1>1, <1>3, <2>3
    <3> QED BY <1>5, <3>1 DEF Chain
  <2> QED BY <2>1, <2>2, <2>3
<1> QED BY <1>1, <1>4, <1>5 DEF u

LEMMA JoinedChain ==
  ASSUME NEW T, NEW s \in Seq(T), NEW t \in Seq(T), NEW R, Chain(s, R), Chain(t, R),
         \A x \in ToSet(s), y \in ToSet(t) : <<x, y>> \in R
  PROVE  Chain(s \o t, R)
  BY Joining

LEMMA PartOfList ==
  ASSUME NEW T, NEW l \in Seq(T), NEW m \in 1 .. (Len(l) + 1), NEW n \in (m - 1) .. Len(l)
  PROVE  /\ SubSeq(l, m, n) \in Seq(T) /\ Len(SubSeq(l, m, n)) = n - m + 1
         /\ DOMAIN SubSeq(l, m, n) = 1 .. (n - m + 1)
         /\ \A i \in 1 .. (n - m + 1) : SubSeq(l, m, n)[i] = l[m + i - 1] /\ m + i - 1 \in m .. n
         /\ ToSet(SubSeq(l, m, n)) = {l[i] : i \in m .. n}
         /\ \A R : Chain(l, R) => Chain(SubSeq(l, m, n), R)
<1> DEFINE part == SubSeq(l, m, n)
<1>1. Len(l) \in Nat /\ DOMAIN l = 1 .. Len(l) /\ m \in Int /\ n \in Int
  OBVIOUS
<1>2. /\ part \in Seq(T) /\ DOMAIN part = 1 .. (n - m + 1) /\ Len(part) = n - m + 1
      /\ \A i \in 1 .. (n - m + 1) : part[i] = l[m + i - 1] /\ m + i - 1 \in m .. n
  <2>1. \A i \in m .. n : l[i] \in T
    BY <1>1
  <2>2. part \in Seq(T) /\ Len(part) = (IF m <= n THEN n - m + 1 ELSE 0)
        /\ \A i \in 1 .. (n - m + 1) : part[i] = l[m + i - 1]
    BY <1>1
  <2>3. Len(part) = n - m + 1
    BY <1>1, <2>2
  <2> HIDE DEF part
  <2> QED BY <1>1, <2>2, <2>3
<1> HIDE DEF part
<1>3. ToSet(part) = {l[i] : i \in m .. n}
  <2>1. \A x \in ToSet(part) : x \in {l[i] : i \in m .. n}
    BY <1>2 DEF ToSet
  <2>2. ASSUME NEW i \in m .. n PROVE l[i] \in ToSet(part)
    <3>1. i - m + 1 \in 1 .. (n - m + 1) /\ m + (i - m + 1) - 1 = i
      BY <1>1
    <3>2. part[i - m + 1] = l[i]
      BY <1>2, <3>1
    <3> QED BY <1>2, <3>1, <3>2 DEF ToSet
  <2> QED BY <2>1, <2>2
<1>4. ASSUME NEW R, Chain(l, R) PROVE Chain(part, R)
  <2> SUFFICES ASSUME NEW i \in DOMAIN part, NEW j \in DOMAIN part, i < j
               PROVE  <<part[i], part[j]>> \in R
    BY DEF Chain
  <2>1. m + i - 1 \in DOMAIN l /\ m + j - 1 \in DOMAIN l /\ m + i - 1 < m + j - 1
    BY <1>1, <1>2
  <2>2. <<l[m + i - 1], l[m + j - 1]>> \in R
    BY <1>4, <2>1 DEF Chain
  <2>3. part[i] = l[m + i - 1] /\ part[j] = l[m + j - 1]
    BY <1>2
  <2> QED BY <2>2, <2>3
<1> QED BY <1>2, <1>3, <1>4 DEF part

-----------------------------------------------------------------------------
(* Counters and the walk of Flattened over those that a new one overlaps *)

Counter == [pid : Pids, addr : Int, length : Int, accesses : Nat]

\* One counter is of a smaller process, or ends before the other starts.
Ahead == {p \in Counter \X Counter :
            p[1].pid < p[2].pid \/ (p[1].pid = p[2].pid /\ EndAddr(p[1]) <= p[2].addr)}

LEMMA AheadIs ==
  ASSUME NEW x \in Counter, NEW y \in Counter
  PROVE  <<x, y>> \in Ahead <=> x.pid < y.pid \/ (x.pid = y.pid /\ EndAddr(x) <= y.addr)
  BY DEF Ahead

LEMMA CounterFields ==
  ASSUME NEW c \in Counter
  PROVE  /\ c.pid \in Pids /\ c.pid \in Nat /\ c.addr \in Int /\ c.length \in Int /\ c.accesses \in Nat
         /\ EndAddr(c) = c.addr + c.length /\ EndAddr(c) \in Int
         /\ \A pg : pg \in PagesIn(c) <=> pg \in Int /\ c.addr <= pg /\ pg < EndAddr(c)
<1>1. c.pid \in Pids /\ c.addr \in Int /\ c.length \in Int /\ c.accesses \in Nat /\ Pids \subseteq Nat
  BY ConstantsAssumption DEF Counter
<1>2. EndAddr(c) = c.addr + c.length /\ EndAddr(c) \in Int
  BY <1>1 DEF EndAddr
<1>3. PagesIn(c) = c.addr .. (EndAddr(c) - 1)
  BY DEF PagesIn
<1>4. \A pg : pg \in PagesIn(c) <=> pg \in Int /\ c.addr <= pg /\ pg < EndAddr(c)
  BY <1>1, <1>2, <1>3
<1>5. c.pid \in Nat
  BY <1>1
<1> QED BY <1>1, <1>2, <1>4, <1>5

LEMMA CutIs ==
  ASSUME NEW c \in Counter, NEW from \in Int, NEW to \in Int, c.addr <= from, to <= EndAddr(c)
  PROVE  LET cut == Cut(c, from, to) IN
         /\ cut \in Counter /\ cut.pid = c.pid /\ cut.accesses = c.accesses
         /\ cut.addr = from /\ cut.length = to - from /\ EndAddr(cut) = to
<1>1. c \in [pid : Pids, addr : Int, length : Int, accesses : Nat] /\ EndAddr(c) \in Int
  BY CounterFields DEF Counter
<1>2. (IF from > c.addr THEN from ELSE c.addr) = from /\ (IF to < EndAddr(c) THEN to ELSE EndAddr(c)) = to
  BY <1>1
<1>3. Cut(c, from, to) = [c EXCEPT !.addr = from, !.length = to - from]
  BY <1>2 DEF Cut
<1>4. to - from \in Int /\ from + (to - from) = to
  OBVIOUS
<1> QED BY <1>1, <1>3, <1>4 DEF Counter, EndAddr

LEMMA CutTyped ==
  ASSUME NEW c \in Counter, NEW from \in Int, NEW to \in Int
  PROVE  Cut(c, from, to) \in Counter
<1> DEFINE start == IF from > c.addr THEN from ELSE c.addr
           stop == IF to < EndAddr(c) THEN to ELSE EndAddr(c)
<1>1. c \in [pid : Pids, addr : Int, length : Int, accesses : Nat] /\ EndAddr(c) \in Int
  BY CounterFields DEF Counter
<1>2. start \in Int /\ stop - start \in Int
  BY <1>1
<1>3. Cut(c, from, to) = [c EXCEPT !.addr = start, !.length = stop - start]
  BY DEF Cut
<1> HIDE DEF start, stop
<1> QED BY <1>1, <1>2, <1>3 DEF Counter

LEMMA UnionIs ==
  ASSUME NEW c \in Counter, NEW d \in Counter
  PROVE  /\ Union(c, d) \in Counter /\ Union(c, d).pid = c.pid /\ Union(c, d).addr = c.addr
         /\ Union(c, d).length = c.length /\ EndAddr(Union(c, d)) = EndAddr(c)
         /\ Union(c, d).accesses = c.accesses + d.accesses
<1>1. c \in [pid : Pids, addr : Int, length : Int, accesses : Nat] /\ c.accesses + d.accesses \in Nat
  BY CounterFields DEF Counter
<1> QED BY <1>1 DEF Counter, EndAddr, Union

Walks == [tail : Seq(Counter), tc : Counter, start : Int, panics : BOOLEAN]

LEMMA WalkFields ==
  ASSUME NEW walk \in Walks
  PROVE  /\ walk.tail \in Seq(Counter) /\ walk.tc \in Counter /\ walk.start \in Int
         /\ walk.panics \in BOOLEAN
  BY DEF Walks

LEMMA WalkEndIs ==
  ASSUME NEW c \in Counter, NEW tcEnd \in Int
  PROVE  /\ WalkEnd(c, tcEnd) \in Int /\ WalkEnd(c, tcEnd) <= EndAddr(c) /\ WalkEnd(c, tcEnd) <= tcEnd
         /\ WalkEnd(c, tcEnd) = EndAddr(c) \/ WalkEnd(c, tcEnd) = tcEnd
<1>1. EndAddr(c) \in Int
  BY CounterFields
<1> QED BY <1>1 DEF WalkEnd

LEMMA WalkOverTyped ==
  ASSUME NEW walk \in Walks, NEW oltc \in Counter, NEW tcEnd \in Int
  PROVE  WalkOver(walk, oltc, tcEnd) \in Walks
<1> DEFINE end == WalkEnd(oltc, tcEnd)
           shared == Union(Cut(oltc, walk.start, end), Cut(walk.tc, walk.start, end))
           front == IF oltc.addr < walk.start THEN <<Cut(oltc, oltc.addr, walk.start)>> ELSE <<>>
           back == IF EndAddr(oltc) > end THEN <<Cut(oltc, end, EndAddr(oltc))>> ELSE <<>>
<1>1. /\ walk.tail \in Seq(Counter) /\ walk.tc \in Counter /\ walk.start \in Int
      /\ walk.panics \in BOOLEAN /\ end \in Int /\ oltc.addr \in Int /\ EndAddr(oltc) \in Int
  BY WalkFields, WalkEndIs, CounterFields
<1> HIDE DEF end
<1>2. shared \in Counter /\ Cut(walk.tc, end, tcEnd) \in Counter
  BY <1>1, CutTyped, UnionIs
<1>3. front \in Seq(Counter) /\ back \in Seq(Counter) /\ <<shared>> \in Seq(Counter)
  <2>1. Cut(oltc, oltc.addr, walk.start) \in Counter /\ Cut(oltc, end, EndAddr(oltc)) \in Counter
    BY <1>1, CutTyped
  <2> HIDE DEF shared
  <2> QED BY <1>2, <2>1, OneElement, NoElement
<1>4. WalkOver(walk, oltc, tcEnd) =
        [tail |-> walk.tail \o (front \o <<shared>> \o back), tc |-> Cut(walk.tc, end, tcEnd),
         start |-> end, panics |-> walk.panics \/ oltc.addr > walk.start]
  BY DEF WalkOver, Pieces, end
<1> HIDE DEF front, back, shared
<1>5. walk.tail \o (front \o <<shared>> \o back) \in Seq(Counter)
  BY <1>1, <1>3, Joining
<1> QED BY <1>1, <1>2, <1>4, <1>5 DEF Walks

\* The counters of the flat list that a new one, tc, overlaps with or touches.
Touched(mid, tc) ==
  /\ mid \in Seq(Counter) /\ Chain(mid, Ahead)
  /\ \A i \in DOMAIN mid : mid[i].pid = tc.pid /\ mid[i].length >= 0 /\ EndAddr(mid[i]) >= tc.addr
  /\ \A i \in DOMAIN mid : i = 1 /\ mid[i].length = 0 => mid[i].addr # tc.addr

\* The accesses of tc that the walk has given to a page.
Given(walk, tc, pg) == IF tc.addr <= pg /\ pg < walk.start THEN tc.accesses ELSE 0

\* What the walk has made of the first k of them, as long as it has not panicked.
Walked(walk, mid, k, tc) ==
  LET tail == ToSet(walk.tail) IN
  /\ walk \in Walks
  /\ tc.addr <= walk.start /\ walk.start <= EndAddr(tc)
  /\ walk.tc = [tc EXCEPT !.addr = walk.start, !.length = EndAddr(tc) - walk.start]
  /\ k = 0 => walk.tail = <<>> /\ walk.start = tc.addr
  /\ k > 0 => /\ walk.start = WalkEnd(mid[k], EndAddr(tc))
              /\ \E y \in tail : y.length > 0 /\ EndAddr(y) = walk.start
              /\ \A x \in tail : mid[1].addr <= x.addr /\ EndAddr(x) <= EndAddr(mid[k])
  /\ Chain(walk.tail, Ahead)
  /\ \A x \in tail : x.pid = tc.pid /\ x.length >= 0
  /\ \A x \in tail : x.length = 0 => \E y \in tail : y.length > 0 /\ EndAddr(y) = x.addr
  /\ \A x \in tail : \A pg \in PagesIn(x) : \E j \in 1 .. k :
        pg \in PagesIn(mid[j]) /\ x.accesses = mid[j].accesses + Given(walk, tc, pg)
  /\ \A j \in 1 .. k : \A pg \in PagesIn(mid[j]) : \E x \in tail : pg \in PagesIn(x)
  /\ \A pg \in Int : tc.addr <= pg /\ pg < walk.start => \E x \in tail : pg \in PagesIn(x)

\* The pieces of oltc: a list of those before the shared part, that part, and those after it.
ArePieces(pieces, B, shared, A, oltc, start, end) ==
  /\ pieces \in Seq(Counter) /\ Chain(pieces, Ahead)
  /\ ToSet(pieces) = B \cup {shared} \cup A
  /\ B # {} <=> oltc.addr < start
  /\ A # {} <=> end < EndAddr(oltc)
  /\ \A x \in B : /\ x.pid = oltc.pid /\ x.accesses = oltc.accesses
                  /\ x.addr = oltc.addr /\ EndAddr(x) = start /\ x.length = start - oltc.addr
  /\ \A x \in A : /\ x.pid = oltc.pid /\ x.accesses = oltc.accesses /\ x.addr = end
                  /\ EndAddr(x) = EndAddr(oltc) /\ x.length = EndAddr(oltc) - end

LEMMA PiecesAre ==
  ASSUME NEW oltc \in Counter, NEW start \in Int, NEW end \in Int,
         NEW shared \in Counter, NEW walk, walk.start = start,
         oltc.addr <= start, start <= end, end <= EndAddr(oltc),
         shared.pid = oltc.pid, shared.addr = start, EndAddr(shared) = end
  PROVE  \E B, A \in SUBSET Counter :
           ArePieces(Pieces(walk, oltc, shared, end), B, shared, A, oltc, start, end)
<1> DEFINE b == Cut(oltc, oltc.addr, start)
           a == Cut(oltc, end, EndAddr(oltc))
           front == IF oltc.addr < start THEN <<b>> ELSE <<>>
           back == IF EndAddr(oltc) > end THEN <<a>> ELSE <<>>
           B == ToSet(front)
           A == ToSet(back)
           pieces == Pieces(walk, oltc, shared, end)
<1>1. /\ oltc.addr \in Int /\ EndAddr(oltc) \in Int /\ oltc.addr <= oltc.addr
      /\ start <= EndAddr(oltc) /\ oltc.addr <= end /\ EndAddr(oltc) <= EndAddr(oltc)
  BY CounterFields
<1>2. /\ b \in Counter /\ b.pid = oltc.pid /\ b.accesses = oltc.accesses
      /\ b.addr = oltc.addr /\ EndAddr(b) = start /\ b.length = start - oltc.addr
  BY <1>1, CutIs
<1>3. /\ a \in Counter /\ a.pid = oltc.pid /\ a.accesses = oltc.accesses
      /\ a.addr = end /\ EndAddr(a) = EndAddr(oltc) /\ a.length = EndAddr(oltc) - end
  BY <1>1, CutIs
<1>4. pieces = front \o <<shared>> \o back
  BY DEF Pieces
<1> HIDE DEF a, b, pieces
<1>5. front \in Seq(Counter) /\ Chain(front, Ahead) /\ (oltc.addr < start => B = {b}) /\ (~(oltc.addr < start) => B = {})
  BY <1>2, OneElement, NoElement
<1>6. back \in Seq(Counter) /\ Chain(back, Ahead) /\ (EndAddr(oltc) > end => A = {a}) /\ (~(EndAddr(oltc) > end) => A = {})
  BY <1>3, OneElement, NoElement
<1> DEFINE one == <<shared>>
<1>7. one \in Seq(Counter) /\ Chain(one, Ahead) /\ ToSet(one) = {shared}
  BY OneElement
<1> HIDE DEF front, back, one
<1>8. \A x \in B : x = b
  BY <1>5
<1>9. \A x \in A : x = a
  BY <1>6
<1>10. \A x \in B : <<x, shared>> \in Ahead
  BY <1>2, <1>8, AheadIs
<1>11. \A y \in A : <<shared, y>> \in Ahead /\ \A x \in B : <<x, y>> \in Ahead
  BY <1>1, <1>2, <1>3, <1>8, <1>9, AheadIs
<1> DEFINE two == front \o one
<1>12. two \in Seq(Counter) /\ ToSet(two) = B \cup {shared} /\ Chain(two, Ahead)
  <2>1. \A x \in ToSet(front), y \in ToSet(one) : <<x, y>> \in Ahead
    BY <1>7, <1>10
  <2> QED BY <1>5, <1>7, <2>1, Joining
<1>13. pieces \in Seq(Counter) /\ ToSet(pieces) = B \cup {shared} \cup A /\ Chain(pieces, Ahead)
  <2>1. \A x \in ToSet(two), y \in ToSet(back) : <<x, y>> \in Ahead
    BY <1>11, <1>12
  <2>2. pieces = two \o back
    BY <1>4 DEF one
  <2> HIDE DEF two
  <2>3. two \o back \in Seq(Counter) /\ ToSet(two \o back) = ToSet(two) \cup ToSet(back)
    BY <1>6, <1>12, Joining
  <2>4. Chain(two \o back, Ahead)
    BY <1>6, <1>12, <2>1, JoinedChain
  <2>5. ToSet(two \o back) = B \cup {shared} \cup A
    BY <1>12, <2>3
  <2> QED BY <2>2, <2>3, <2>4, <2>5
<1>14. B \in SUBSET Counter /\ A \in SUBSET Counter
  BY <1>2, <1>3, <1>8, <1>9
<1>15. (B # {} <=> oltc.addr < start) /\ (A # {} <=> end < EndAddr(oltc))
  BY <1>1, <1>5, <1>6
<1> HIDE DEF A, B
<1>16. ArePieces(pieces, B, shared, A, oltc, start, end)
  BY <1>2, <1>3, <1>8, <1>9, <1>13, <1>15 DEF ArePieces
<1> QED BY <1>14, <1>16 DEF pieces

\* Where the walk is before it goes over the next counter.
LEMMA WalkIsAt ==
  ASSUME NEW tc \in Counter, NEW mid, Touched(mid, tc), NEW k \in DOMAIN mid,
         NEW walk, Walked(walk, mid, k - 1, tc), ~(mid[k].addr > walk.start)
  PROVE  /\ mid[k] \in Counter /\ mid[k].pid = tc.pid
         /\ walk.start \in Int /\ tc.addr <= walk.start /\ mid[k].addr <= walk.start
         /\ walk.start <= WalkEnd(mid[k], EndAddr(tc))
         /\ k > 1 => walk.start = mid[k].addr /\ EndAddr(mid[k - 1]) = mid[k].addr
         /\ mid[1] \in Counter /\ mid[1].addr <= mid[k].addr
<1>1. /\ mid \in Seq(Counter) /\ DOMAIN mid = 1 .. Len(mid) /\ Len(mid) \in Nat /\ k \in Nat /\ k > 0
      /\ 1 \in DOMAIN mid
  BY ListFields DEF Touched
<1>2. \A i \in DOMAIN mid :
        /\ mid[i] \in Counter /\ mid[i].pid = tc.pid /\ mid[i].addr \in Int /\ EndAddr(mid[i]) \in Int
        /\ mid[i].addr <= EndAddr(mid[i]) /\ EndAddr(mid[i]) >= tc.addr
  <2> SUFFICES ASSUME NEW i \in DOMAIN mid
               PROVE  /\ mid[i] \in Counter /\ mid[i].pid = tc.pid /\ mid[i].addr \in Int
                      /\ EndAddr(mid[i]) \in Int /\ mid[i].addr <= EndAddr(mid[i])
                      /\ EndAddr(mid[i]) >= tc.addr
    OBVIOUS
  <2>1. mid[i] \in Counter /\ mid[i].pid = tc.pid /\ mid[i].length >= 0 /\ EndAddr(mid[i]) >= tc.addr
    BY <1>1, ListFields DEF Touched
  <2> QED BY <2>1, CounterFields
<1>3. \A i, j \in DOMAIN mid : i < j => EndAddr(mid[i]) <= mid[j].addr
  <2> SUFFICES ASSUME NEW i \in DOMAIN mid, NEW j \in DOMAIN mid, i < j
               PROVE  EndAddr(mid[i]) <= mid[j].addr
    OBVIOUS
  <2>1. <<mid[i], mid[j]>> \in Ahead
    BY DEF Touched, Chain
  <2>2. mid[i].pid = mid[j].pid /\ mid[i].pid \in Nat
    BY <1>2, CounterFields
  <2> QED BY <1>2, <2>1, <2>2, AheadIs
<1>4. /\ walk.start \in Int /\ tc.addr \in Int /\ EndAddr(tc) \in Int
      /\ tc.addr <= walk.start /\ walk.start <= EndAddr(tc)
  BY WalkFields, CounterFields DEF Walked
<1>5. mid[k].addr <= walk.start
  BY <1>2, <1>4
<1>6. mid[1].addr <= mid[k].addr
  BY <1>1, <1>2, <1>3
<1>7. CASE k = 1
  <2>1. walk.start = tc.addr
    BY <1>7 DEF Walked
  <2>2. walk.start <= WalkEnd(mid[k], EndAddr(tc))
    BY <1>2, <1>4, <2>1, WalkEndIs
  <2> QED BY <1>2, <1>1, <1>4, <1>5, <1>6, <1>7, <2>2
<1>8. CASE k > 1
  <2>1. k - 1 \in DOMAIN mid /\ k - 1 < k /\ k - 1 > 0
    BY <1>1, <1>8
  <2>2. walk.start = WalkEnd(mid[k - 1], EndAddr(tc))
    BY <2>1 DEF Walked
  <2>3. walk.start <= EndAddr(mid[k - 1]) /\ EndAddr(mid[k - 1]) <= mid[k].addr
    BY <1>2, <1>3, <1>4, <2>1, <2>2, WalkEndIs
  <2>4. walk.start = mid[k].addr /\ EndAddr(mid[k - 1]) = mid[k].addr
    BY <1>2, <1>4, <1>5, <2>1, <2>3
  <2>5. walk.start <= WalkEnd(mid[k], EndAddr(tc))
    BY <1>2, <1>4, <2>4, WalkEndIs
  <2> QED BY <1>2, <1>1, <1>4, <1>5, <1>6, <2>4, <2>5
<1> QED BY <1>1, <1>7, <1>8

\* One more step of the walk.
LEMMA WalkGoesOn ==
  ASSUME NEW tc \in Counter, tc.length > 0, NEW mid, Touched(mid, tc), NEW k \in DOMAIN mid,
         NEW walk, Walked(walk, mid, k - 1, tc), ~(mid[k].addr > walk.start)
  PROVE  Walked(WalkOver(walk, mid[k], EndAddr(tc)), mid, k, tc)
<1> DEFINE oltc == mid[k]
           tcEnd == EndAddr(tc)
           start == walk.start
           end == WalkEnd(oltc, tcEnd)
           shared == Union(Cut(oltc, start, end), Cut(walk.tc, start, end))
           pieces == Pieces(walk, oltc, shared, end)
           new == WalkOver(walk, oltc, tcEnd)
           old == ToSet(walk.tail)
           tail == ToSet(new.tail)
<1>1. /\ mid \in Seq(Counter) /\ DOMAIN mid = 1 .. Len(mid) /\ Len(mid) \in Nat /\ k \in Nat /\ k > 0
      /\ k - 1 \in Nat
  BY ListFields DEF Touched
<1>2. /\ oltc \in Counter /\ oltc.pid = tc.pid /\ start \in Int /\ tc.addr <= start /\ oltc.addr <= start
      /\ start <= end /\ (k > 1 => start = oltc.addr /\ EndAddr(mid[k - 1]) = oltc.addr)
      /\ mid[1] \in Counter /\ mid[1].addr <= oltc.addr
  BY WalkIsAt
<1>3. /\ tc.addr \in Int /\ tcEnd \in Int /\ tc.accesses \in Nat /\ tc.pid \in Nat /\ tc.addr < tcEnd
      /\ oltc.addr \in Int /\ EndAddr(oltc) \in Int /\ oltc.accesses \in Nat /\ mid[1].addr \in Int
  BY <1>2, CounterFields
<1>4. end \in Int /\ end <= EndAddr(oltc) /\ end <= tcEnd /\ (end = EndAddr(oltc) \/ end = tcEnd)
  BY <1>2, <1>3, WalkEndIs
<1>5. /\ walk \in Walks /\ walk.tail \in Seq(Counter) /\ walk.tc \in Counter
      /\ walk.tc = [tc EXCEPT !.addr = start, !.length = tcEnd - start] /\ start <= tcEnd
  BY WalkFields DEF Walked
<1>6. /\ walk.tc.addr = start /\ walk.tc.pid = tc.pid /\ walk.tc.accesses = tc.accesses
      /\ EndAddr(walk.tc) = tcEnd
  <2> HIDE DEF tcEnd, start, end, shared, pieces, new, old, tail, oltc
  <2>1. /\ walk.tc.addr = start /\ walk.tc.pid = tc.pid /\ walk.tc.accesses = tc.accesses
        /\ walk.tc.length = tcEnd - start
    BY <1>5 DEF Counter
  <2>2. EndAddr(walk.tc) = start + (tcEnd - start)
    BY <2>1 DEF EndAddr
  <2> QED BY <1>2, <1>3, <2>1, <2>2
<1>7. /\ shared \in Counter /\ shared.pid = oltc.pid /\ shared.addr = start /\ EndAddr(shared) = end
      /\ shared.length = end - start /\ shared.accesses = oltc.accesses + tc.accesses
  <2> DEFINE c == Cut(oltc, start, end)
             d == Cut(walk.tc, start, end)
  <2>1. /\ c \in Counter /\ c.pid = oltc.pid /\ c.addr = start /\ EndAddr(c) = end
        /\ c.length = end - start /\ c.accesses = oltc.accesses
    BY <1>2, <1>4, CutIs
  <2>2. d \in Counter /\ d.accesses = tc.accesses
    <3>1. walk.tc \in Counter /\ walk.tc.addr <= start /\ end <= EndAddr(walk.tc) /\ walk.tc.accesses = tc.accesses
      BY <1>2, <1>4, <1>5, <1>6
    <3>2. Cut(walk.tc, start, end) \in Counter /\ Cut(walk.tc, start, end).accesses = walk.tc.accesses
      <4> HIDE DEF end, start
      <4> QED BY <1>2, <1>4, <3>1, CutIs
    <3> QED BY <3>1, <3>2
  <2> HIDE DEF c, d
  <2>3. shared = Union(c, d)
    BY DEF c, d
  <2> HIDE DEF shared
  <2> QED BY <2>1, <2>2, <2>3, UnionIs
<1>8. /\ new.tail = walk.tail \o pieces /\ new.start = end /\ new.tc = Cut(walk.tc, end, tcEnd)
  BY DEF WalkOver
<1>9. new \in Walks
  BY <1>2, <1>3, <1>5, WalkOverTyped
<1>10. new.tc = [tc EXCEPT !.addr = end, !.length = tcEnd - end]
  <2>1. (IF end > walk.tc.addr THEN end ELSE walk.tc.addr) = end
    BY <1>2, <1>4, <1>6
  <2>2. (IF tcEnd < EndAddr(walk.tc) THEN tcEnd ELSE EndAddr(walk.tc)) = tcEnd
    BY <1>3, <1>6
  <2>3. Cut(walk.tc, end, tcEnd) = [walk.tc EXCEPT !.addr = end, !.length = tcEnd - end]
    BY <2>1, <2>2 DEF Cut
  <2> HIDE DEF end, tcEnd, start
  <2> QED BY <1>5, <1>8, <2>3 DEF Counter
<1> HIDE DEF shared, end, oltc, new, tcEnd
<1>11. PICK B \in SUBSET Counter, A \in SUBSET Counter :
         /\ pieces \in Seq(Counter) /\ Chain(pieces, Ahead)
         /\ ToSet(pieces) = B \cup {shared} \cup A
         /\ B # {} <=> oltc.addr < start
         /\ A # {} <=> end < EndAddr(oltc)
         /\ \A x \in B : /\ x.pid = oltc.pid /\ x.accesses = oltc.accesses
                         /\ x.addr = oltc.addr /\ EndAddr(x) = start /\ x.length = start - oltc.addr
         /\ \A x \in A : /\ x.pid = oltc.pid /\ x.accesses = oltc.accesses /\ x.addr = end
                         /\ EndAddr(x) = EndAddr(oltc) /\ x.length = EndAddr(oltc) - end
  <2>1. /\ walk.tail \in Seq(Counter) /\ oltc \in Counter /\ start \in Int /\ end \in Int
        /\ shared \in Counter /\ oltc.addr <= start /\ start <= end /\ end <= EndAddr(oltc)
        /\ shared.pid = oltc.pid /\ shared.addr = start /\ EndAddr(shared) = end /\ walk.start = start
    BY <1>2, <1>4, <1>5, <1>7
  <2> HIDE DEF start
  <2>2. \E B, A \in SUBSET Counter :
           ArePieces(Pieces(walk, oltc, shared, end), B, shared, A, oltc, start, end)
    BY <2>1, PiecesAre
  <2> QED BY <2>2 DEF ArePieces
<1> HIDE DEF pieces, start
<1>12. /\ \A x \in old : x \in Counter /\ x.pid = tc.pid /\ x.length >= 0
       /\ k > 1 => \A x \in old : mid[1].addr <= x.addr /\ EndAddr(x) <= oltc.addr
       /\ k = 1 => old = {}
       /\ Chain(walk.tail, Ahead)
  <2>1. \A x \in old : x \in Counter
    BY <1>5, ListFields
  <2>2. k = 1 => old = {}
    BY <1>1, NoElement DEF Walked
  <2>3. k > 1 => \A x \in old : mid[1].addr <= x.addr /\ EndAddr(x) <= oltc.addr
    BY <1>1, <1>2 DEF Walked, start, oltc
  <2> QED BY <2>1, <2>2, <2>3 DEF Walked
<1>13. new.tail \in Seq(Counter) /\ tail = old \cup (B \cup {shared} \cup A) /\ Chain(new.tail, Ahead)
  <2>1. ASSUME NEW x \in old, NEW y \in B \cup {shared} \cup A PROVE <<x, y>> \in Ahead
    <3>1. k > 1 /\ x \in Counter /\ x.pid = tc.pid /\ EndAddr(x) <= oltc.addr /\ EndAddr(x) \in Int
      BY <1>1, <1>12, CounterFields
    <3>2. y \in Counter /\ y.pid = tc.pid /\ y.addr >= oltc.addr
      BY <1>2, <1>3, <1>4, <1>7, <1>11
    <3>3. y.addr \in Int
      BY <3>2, CounterFields
    <3> QED BY <1>3, <3>1, <3>2, <3>3, AheadIs
  <2>2. walk.tail \o pieces \in Seq(Counter) /\ ToSet(walk.tail \o pieces) = old \cup ToSet(pieces)
    BY <1>5, <1>11, Joining
  <2>3. \A x \in ToSet(walk.tail), y \in ToSet(pieces) : <<x, y>> \in Ahead
    BY <1>11, <2>1
  <2>4. Chain(walk.tail \o pieces, Ahead)
    BY <1>5, <1>11, <1>12, <2>3, JoinedChain
  <2> QED BY <1>8, <1>11, <2>2, <2>4
<1> HIDE DEF tail, old
<1>14. \A x \in B \cup {shared} \cup A :
          /\ x \in Counter /\ x.pid = tc.pid /\ x.length >= 0
          /\ mid[1].addr <= x.addr /\ EndAddr(x) <= EndAddr(oltc)
  BY <1>2, <1>3, <1>4, <1>7, <1>11
<1>15. \A x \in tail : x.pid = tc.pid /\ x.length >= 0
  BY <1>12, <1>13, <1>14
<1>16. \A x \in tail : mid[1].addr <= x.addr /\ EndAddr(x) <= EndAddr(oltc)
  <2> SUFFICES ASSUME NEW x \in old PROVE mid[1].addr <= x.addr /\ EndAddr(x) <= EndAddr(oltc)
    BY <1>13, <1>14
  <2>1. x \in Counter /\ mid[1].addr <= x.addr /\ EndAddr(x) <= oltc.addr /\ EndAddr(x) \in Int
    BY <1>1, <1>12, CounterFields
  <2>2. oltc.addr <= EndAddr(oltc)
    BY <1>2, <1>3, <1>4
  <2> QED BY <1>3, <2>1, <2>2
<1>17. \E y \in tail : y.length > 0 /\ EndAddr(y) = end
  <2>1. CASE start < end
    BY <1>2, <1>4, <1>7, <1>13, <2>1
  <2>2. CASE start = end /\ k > 1
    <3>1. \E y \in old : y.length > 0 /\ EndAddr(y) = start
      BY <1>1, <2>2 DEF Walked, old, start
    <3> QED BY <1>13, <2>2, <3>1
  <2>3. CASE start = end /\ k = 1
    <3>1. start = tc.addr /\ end = EndAddr(oltc)
      BY <1>1, <1>3, <1>4, <2>3 DEF Walked, start
    <3>2. oltc.length >= 0 /\ (oltc.length = 0 => oltc.addr # tc.addr) /\ EndAddr(oltc) = oltc.addr + oltc.length
          /\ oltc.length \in Int
      BY <1>2, <2>3, CounterFields DEF Touched, oltc
    <3>3. oltc.addr < start
      <4>1. CASE oltc.length = 0
        <5>1. EndAddr(oltc) = oltc.addr
          BY <1>3, <3>2, <4>1
        <5> QED BY <2>3, <3>1, <3>2, <4>1, <5>1
      <4>2. CASE oltc.length # 0
        <5>1. oltc.addr < EndAddr(oltc)
          BY <1>3, <3>2, <4>2
        <5> QED BY <2>3, <3>1, <5>1
      <4> QED BY <4>1, <4>2
    <3>4. PICK y \in B : TRUE
      BY <1>11, <3>3
    <3>5. y.length > 0 /\ EndAddr(y) = end
      BY <1>2, <1>3, <1>11, <2>3, <3>3
    <3> QED BY <1>13, <3>5
  <2> QED BY <1>1, <1>2, <1>4, <2>1, <2>2, <2>3
<1>18. \A x \in tail : x.length = 0 => \E y \in tail : y.length > 0 /\ EndAddr(y) = x.addr
  <2>1. \A x \in old : x.length = 0 => \E y \in old : y.length > 0 /\ EndAddr(y) = x.addr
    BY DEF Walked, old
  <2>2. \A x \in A : x.length # 0
    BY <1>3, <1>4, <1>11
  <2>3. \A x \in B : x.length # 0
    BY <1>2, <1>3, <1>11
  <2>4. shared.length = 0 => shared.addr = end
    BY <1>2, <1>4, <1>7
  <2> QED BY <1>13, <1>17, <2>1, <2>2, <2>3, <2>4
<1>19. \A x \in tail : \A pg \in PagesIn(x) : \E j \in 1 .. k :
          pg \in PagesIn(mid[j]) /\ x.accesses = mid[j].accesses + Given(new, tc, pg)
  <2>1. ASSUME NEW x \in old, NEW pg \in PagesIn(x)
        PROVE  \E j \in 1 .. k :
                 pg \in PagesIn(mid[j]) /\ x.accesses = mid[j].accesses + Given(new, tc, pg)
    <3>1. k > 1 /\ x \in Counter /\ EndAddr(x) <= oltc.addr /\ start = oltc.addr
      BY <1>1, <1>2, <1>12
    <3>2. pg \in Int /\ pg < start /\ pg < end
      BY <1>2, <1>3, <1>4, <3>1, CounterFields
    <3>3. Given(new, tc, pg) = Given(walk, tc, pg)
      BY <1>8, <3>2 DEF Given, start
    <3>4. \E j \in 1 .. (k - 1) :
             pg \in PagesIn(mid[j]) /\ x.accesses = mid[j].accesses + Given(walk, tc, pg)
      BY DEF Walked, old
    <3> QED BY <1>1, <3>3, <3>4
  <2>2. ASSUME NEW x \in B \cup {shared} \cup A, NEW pg \in PagesIn(x)
        PROVE  pg \in PagesIn(oltc) /\ x.accesses = oltc.accesses + Given(new, tc, pg)
    <3>1. x \in Counter /\ pg \in Int /\ x.addr <= pg /\ pg < EndAddr(x) /\ x.addr \in Int /\ EndAddr(x) \in Int
      BY <1>14, CounterFields
    <3>2. x.addr >= oltc.addr /\ EndAddr(x) <= EndAddr(oltc)
      BY <1>2, <1>3, <1>4, <1>7, <1>11
    <3>3. pg \in PagesIn(oltc)
      BY <1>2, <1>3, <3>1, <3>2, CounterFields
    <3>4. CASE x \in B
      <4>1. k = 1
        BY <1>1, <1>2, <1>3, <1>11, <3>4
      <4>2. start = tc.addr
        BY <1>1, <4>1 DEF Walked, start
      <4>3. pg < tc.addr
        BY <1>11, <3>1, <3>4, <4>2
      <4>4. Given(new, tc, pg) = 0
        BY <1>3, <3>1, <4>3 DEF Given
      <4> QED BY <1>3, <1>11, <3>3, <3>4, <4>4
    <3>5. CASE x = shared
      <4>1. tc.addr <= pg /\ pg < end
        BY <1>2, <1>3, <1>7, <3>1, <3>5
      <4>2. Given(new, tc, pg) = tc.accesses
        BY <1>8, <4>1 DEF Given
      <4> QED BY <1>7, <3>3, <3>5, <4>2
    <3>6. CASE x \in A
      <4>1. ~(pg < end)
        BY <1>4, <1>11, <3>1, <3>6
      <4>2. Given(new, tc, pg) = 0
        BY <1>8, <4>1 DEF Given
      <4> QED BY <1>3, <1>11, <3>3, <3>6, <4>2
    <3> QED BY <3>4, <3>5, <3>6
  <2>3. k \in 1 .. k
    BY <1>1
  <2> QED BY <1>13, <2>1, <2>2, <2>3 DEF oltc
<1>20. ASSUME NEW pg \in PagesIn(oltc) PROVE \E x \in tail : pg \in PagesIn(x)
  <2>1. pg \in Int /\ oltc.addr <= pg /\ pg < EndAddr(oltc)
    BY <1>2, CounterFields
  <2>2. CASE pg < start
    <3>1. PICK x \in B : TRUE
      BY <1>2, <1>3, <1>11, <2>1, <2>2
    <3>2. pg \in PagesIn(x)
      BY <1>11, <2>1, <2>2, <3>1, CounterFields
    <3> QED BY <1>13, <3>2
  <2>3. CASE start <= pg /\ pg < end
    <3>1. pg \in PagesIn(shared)
      BY <1>7, <2>1, <2>3, CounterFields
    <3> QED BY <1>13, <3>1
  <2>4. CASE end <= pg
    <3>1. PICK x \in A : TRUE
      BY <1>3, <1>4, <1>11, <2>1, <2>4
    <3>2. pg \in PagesIn(x)
      BY <1>11, <2>1, <2>4, <3>1, CounterFields
    <3> QED BY <1>13, <3>2
  <2> QED BY <1>2, <1>4, <2>1, <2>2, <2>3, <2>4
<1>21. \A j \in 1 .. k : \A pg \in PagesIn(mid[j]) : \E x \in tail : pg \in PagesIn(x)
  <2> SUFFICES ASSUME NEW j \in 1 .. k, NEW pg \in PagesIn(mid[j]) PROVE \E x \in tail : pg \in PagesIn(x)
    OBVIOUS
  <2>1. CASE j = k
    BY <1>20, <2>1 DEF oltc
  <2>2. CASE j \in 1 .. (k - 1)
    <3>1. \E x \in old : pg \in PagesIn(x)
      BY <2>2 DEF Walked, old
    <3> QED BY <1>13, <3>1
  <2> QED BY <1>1, <2>1, <2>2
<1>22. \A pg \in Int : tc.addr <= pg /\ pg < end => \E x \in tail : pg \in PagesIn(x)
  <2> SUFFICES ASSUME NEW pg \in Int, tc.addr <= pg, pg < end PROVE \E x \in tail : pg \in PagesIn(x)
    OBVIOUS
  <2>1. CASE pg < start
    <3>1. \E x \in old : pg \in PagesIn(x)
      BY <2>1 DEF Walked, old, start
    <3> QED BY <1>13, <3>1
  <2>2. CASE start <= pg
    <3>1. pg \in PagesIn(shared)
      BY <1>7, <2>2, CounterFields
    <3> QED BY <1>13, <3>1
  <2> QED BY <1>2, <2>1, <2>2
<1>23. tc.addr <= end /\ end <= tcEnd
  BY <1>2, <1>3, <1>4
<1>24. Walked(new, mid, k, tc)
  <2>1. k > 0 => /\ new.start = WalkEnd(mid[k], EndAddr(tc))
                 /\ \E y \in tail : y.length > 0 /\ EndAddr(y) = new.start
                 /\ \A x \in tail : mid[1].addr <= x.addr /\ EndAddr(x) <= EndAddr(mid[k])
    BY <1>8, <1>16, <1>17 DEF end, oltc, tcEnd
  <2>2. /\ tc.addr <= new.start /\ new.start <= EndAddr(tc)
        /\ new.tc = [tc EXCEPT !.addr = new.start, !.length = EndAddr(tc) - new.start]
    BY <1>8, <1>10, <1>23 DEF tcEnd
  <2>3. \A pg \in Int : tc.addr <= pg /\ pg < new.start => \E x \in tail : pg \in PagesIn(x)
    BY <1>8, <1>22
  <2> QED BY <1>1, <1>9, <1>13, <1>15, <1>18, <1>19, <1>21, <2>1, <2>2, <2>3 DEF Walked, tail
<1> QED BY <1>24 DEF new, oltc, tcEnd


\* The values of a fold over 1 .. n, the last number first.
FoldOver(h, n, T, base, step) ==
  /\ h \in [SUBSET (1 .. n) -> T]
  /\ h[{}] = base
  /\ \A t \in (SUBSET (1 .. n)) \ {{}} : h[t] = step[<<Max(t), h[t \ {Max(t)}]>>]

LEMMA StepsOfList ==
  ASSUME NEW n \in Nat, NEW T, NEW base \in T, NEW step \in [(1 .. n) \X T -> T]
  PROVE  /\ \E h : FoldOver(h, n, T, base, step)
         /\ \A t \in (SUBSET (1 .. n)) \ {{}} : Max(t) \in t /\ Max(t) \in 1 .. n
<1> DEFINE D == 1 .. n
           pick == [t \in (SUBSET D) \ {{}} |-> Max(t)]
<1>1. IsFiniteSet(D)
  BY FS_Interval
<1>2. \A t \in (SUBSET D) \ {{}} : pick[t] = Max(t) /\ pick[t] \in t
  BY LastOfFew
<1> HIDE DEF D, pick
<1>3. PICK h : IsFold(h, D, T, base, pick, step)
  BY <1>1, <1>2, FoldExists DEF D
<1>4. h \in [SUBSET D -> T] /\ h[{}] = base
  BY <1>3 DEF IsFold
<1>5. \A t \in (SUBSET D) \ {{}} : h[t] = step[<<Max(t), h[t \ {Max(t)}]>>]
  BY <1>2, <1>3 DEF IsFold
<1>6. \A t \in (SUBSET D) \ {{}} : Max(t) \in t /\ Max(t) \in D
  BY <1>2
<1> QED BY <1>4, <1>5, <1>6 DEF D, FoldOver

-----------------------------------------------------------------------------
(* A counter is added to the flat list *)

Beginning(tc) == [tail |-> <<>>, tc |-> tc, start |-> tc.addr, panics |-> FALSE]

WalkOf(mid, tc) ==
  FoldLeft(LAMBDA w, oltc : WalkOver(w, oltc, EndAddr(tc)), Beginning(tc), mid)

LEMMA WalkBegins == \A tc \in Counter : Beginning(tc) \in Walks
<1> SUFFICES ASSUME NEW tc \in Counter PROVE Beginning(tc) \in Walks
  OBVIOUS
<1>1. tc.addr \in Int /\ <<>> \in Seq(Counter)
  BY CounterFields, NoElement
<1> QED BY <1>1 DEF Beginning, Walks

LEMMA WalkByWalk ==
  ASSUME NEW mid \in Seq(Counter), NEW tc \in Counter
  PROVE  \E w \in [0 .. Len(mid) -> Walks] :
            /\ w[0] = Beginning(tc) /\ w[Len(mid)] = WalkOf(mid, tc)
            /\ \A k \in 1 .. Len(mid) : w[k] = WalkOver(w[k - 1], mid[k], EndAddr(tc))
<1> DEFINE n == Len(mid)
           base == Beginning(tc)
           step == [e \in (1 .. n) \X Walks |-> WalkOver(e[2], mid[e[1]], EndAddr(tc))]
           f(g) == [s \in SUBSET DOMAIN mid |->
                      IF s = {} THEN base ELSE WalkOver(g[s \ {Max(s)}], mid[Max(s)], EndAddr(tc))]
           fold == CHOOSE g : g = f(g)
<1>1. WalkOf(mid, tc) = fold[DOMAIN mid]
  BY DEF WalkOf, FoldLeft, MapThenFoldSet
<1>2. n \in Nat /\ DOMAIN mid = 1 .. n /\ (\A i \in 1 .. n : mid[i] \in Counter) /\ EndAddr(tc) \in Int
  BY ListFields, CounterFields
<1>3. base \in Walks
  BY WalkBegins
<1>4. step \in [(1 .. n) \X Walks -> Walks]
  BY <1>2, WalkOverTyped
<1>5. \A i \in 1 .. n, w \in Walks : step[<<i, w>>] = WalkOver(w, mid[i], EndAddr(tc))
  OBVIOUS
<1> HIDE DEF step, base, n
<1>6. \A t \in (SUBSET (1 .. n)) \ {{}} : Max(t) \in t /\ Max(t) \in 1 .. n
  BY <1>2, <1>3, <1>4, StepsOfList
<1>7. fold = f(fold)
  <2>1. PICK h : FoldOver(h, n, Walks, base, step)
    BY <1>2, <1>3, <1>4, StepsOfList
  <2>2. ASSUME NEW t \in (SUBSET (1 .. n)) \ {{}}
        PROVE  h[t] = WalkOver(h[t \ {Max(t)}], mid[Max(t)], EndAddr(tc))
    <3>1. h[t \ {Max(t)}] \in Walks /\ Max(t) \in 1 .. n
      BY <1>6, <2>1 DEF FoldOver
    <3> QED BY <1>5, <2>1, <3>1 DEF FoldOver
  <2>3. h = f(h)
    BY <1>2, <2>1, <2>2 DEF FoldOver
  <2> QED BY <2>3
<1> HIDE DEF fold
<1>8. fold[{}] = base
  BY <1>2, <1>7
<1>9. ASSUME NEW t \in (SUBSET (1 .. n)) \ {{}}, fold[t \ {Max(t)}] \in Walks
      PROVE  fold[t] = step[<<Max(t), fold[t \ {Max(t)}]>>]
  <2>1. fold[t] = WalkOver(fold[t \ {Max(t)}], mid[Max(t)], EndAddr(tc))
    BY <1>2, <1>7
  <2> QED BY <1>5, <1>6, <1>9, <2>1
<1> HIDE DEF f
<1>10. PICK w : WalkAlong(w, n, Walks, fold, step)
  <2>1. fold[{}] \in Walks
    BY <1>3, <1>8
  <2> QED BY <1>2, <1>4, <1>9, <2>1, FoldIsWalk
<1>11. \A k \in 1 .. n : w[k] = WalkOver(w[k - 1], mid[k], EndAddr(tc))
  <2> SUFFICES ASSUME NEW k \in 1 .. n PROVE w[k] = WalkOver(w[k - 1], mid[k], EndAddr(tc))
    OBVIOUS
  <2>1. w[k - 1] \in Walks
    BY <1>2, <1>10 DEF WalkAlong
  <2> QED BY <1>5, <1>10, <2>1 DEF WalkAlong
<1> QED BY <1>1, <1>2, <1>8, <1>10, <1>11 DEF n, base, WalkAlong

\* Of counters that it touches, a new one is put with.
LEMMA WalkDone ==
  ASSUME NEW tc \in Counter, tc.length > 0, NEW mid, Touched(mid, tc), ~WalkOf(mid, tc).panics
  PROVE  Walked(WalkOf(mid, tc), mid, Len(mid), tc)
<1>1. mid \in Seq(Counter) /\ Len(mid) \in Nat /\ DOMAIN mid = 1 .. Len(mid)
  BY ListFields DEF Touched
<1>2. PICK w \in [0 .. Len(mid) -> Walks] :
        /\ w[0] = Beginning(tc) /\ w[Len(mid)] = WalkOf(mid, tc)
        /\ \A k \in 1 .. Len(mid) : w[k] = WalkOver(w[k - 1], mid[k], EndAddr(tc))
  BY <1>1, WalkByWalk
<1> DEFINE K == {k \in 0 .. Len(mid) : ~w[k].panics => Walked(w[k], mid, k, tc)}
<1>3. 0 \in K
  <2>1. tc.addr \in Int /\ tc.length \in Int /\ EndAddr(tc) = tc.addr + tc.length
    BY CounterFields
  <2>2. tc = [tc EXCEPT !.addr = tc.addr, !.length = EndAddr(tc) - tc.addr]
    <3>1. EndAddr(tc) - tc.addr = tc.length
      BY <2>1
    <3> QED BY <3>1 DEF Counter
  <2>3. tc.addr <= EndAddr(tc)
    BY <2>1
  <2>4. ToSet(<<>>) = {} /\ Chain(<<>>, Ahead)
    BY NoElement
  <2>5. /\ w[0].tail = <<>> /\ w[0].start = tc.addr /\ w[0].tc = tc /\ w[0] \in Walks
    BY <1>2, WalkBegins DEF Beginning
  <2>6. \A pg \in Int : ~(tc.addr <= pg /\ pg < tc.addr)
    BY <2>1
  <2>7. 1 .. 0 = {} /\ tc.addr <= tc.addr
    BY <2>1
  <2>8. Walked(w[0], mid, 0, tc)
    BY <2>2, <2>3, <2>4, <2>5, <2>6, <2>7 DEF Walked
  <2> QED BY <1>1, <2>8
<1>4. ASSUME NEW k \in 1 .. Len(mid), k - 1 \in K PROVE k \in K
  <2> SUFFICES ASSUME ~w[k].panics PROVE Walked(w[k], mid, k, tc)
    BY <1>1
  <2>1. w[k] = WalkOver(w[k - 1], mid[k], EndAddr(tc))
    BY <1>2
  <2>2. w[k].panics = (w[k - 1].panics \/ mid[k].addr > w[k - 1].start)
    BY <2>1 DEF WalkOver
  <2>3. Walked(w[k - 1], mid, k - 1, tc) /\ ~(mid[k].addr > w[k - 1].start)
    BY <1>4, <2>2
  <2> QED BY <1>1, <2>1, <2>3, WalkGoesOn
<1>5. Len(mid) \in K
  <2> HIDE DEF K
  <2>1. K \in SUBSET (0 .. Len(mid))
    BY DEF K
  <2> QED BY <1>1, <1>3, <1>4, <2>1, Upwards
<1> QED BY <1>2, <1>5

\* A flat list: no two counters share a page, and an empty one comes right behind one that
\* is not.
Flat(l) ==
  /\ l \in Seq(Counter) /\ Chain(l, Ahead)
  /\ \A x \in ToSet(l) : x.length >= 0
  /\ \A x \in ToSet(l) : x.length = 0 =>
        \E y \in ToSet(l) : y.pid = x.pid /\ y.length > 0 /\ EndAddr(y) = x.addr

\* What a list tells of a page.
Tells(l, pid, pg, n) ==
  /\ \A x \in ToSet(l) : Covers(x, pid, pg) => x.accesses = n
  /\ n # 0 => \E x \in ToSet(l) : Covers(x, pid, pg)

LEMMA FirstOverlappingIs ==
  ASSUME NEW l \in Seq(Counter), l # <<>>, NEW tc \in Counter,
         Last(l).pid = tc.pid, ~(EndAddr(Last(l)) <= tc.addr)
  PROVE  LET first == FirstOverlapping(l, tc) IN
         /\ first \in 1 .. Len(l)
         /\ \A j \in first .. Len(l) : l[j].pid = tc.pid /\ EndAddr(l[j]) >= tc.addr
         /\ first > 1 => /\ first - 1 \in DOMAIN l
                         /\ l[first - 1].pid # tc.pid \/ EndAddr(l[first - 1]) < tc.addr
<1> DEFINE n == Len(l)
           apart == {i \in DOMAIN l : l[i].pid # tc.pid \/ EndAddr(l[i]) < tc.addr}
           W == {i \in 1 .. n : \A j \in i .. n : j \notin apart}
           Right(i) == (\A j \in i .. n : j \notin apart) /\ (i = 1 \/ i - 1 \in apart)
           first == FirstOverlapping(l, tc)
<1>1. /\ n \in Nat /\ DOMAIN l = 1 .. n /\ n >= 1 /\ Last(l) = l[n]
      /\ \A i \in 1 .. n : l[i] \in Counter
  <2>1. Len(l) # 0
    OBVIOUS
  <2> QED BY <2>1, ListFields DEF Last
<1>2. tc.addr \in Int /\ \A i \in 1 .. n : EndAddr(l[i]) \in Int
  BY <1>1, CounterFields
<1>3. n \in W
  <2>1. n \notin apart
    BY <1>1, <1>2
  <2> HIDE DEF apart, n
  <2>2. \A j \in n .. n : j = n
    BY <1>1
  <2> QED BY <1>1, <2>1, <2>2
<1> HIDE DEF apart, n
<1>4. Min(W) \in W /\ \A i \in W : Min(W) <= i
  <2>1. W \in SUBSET Nat /\ W # {}
    BY <1>3
  <2> HIDE DEF W
  <2> QED BY <2>1, LeastNumber
<1>5. Right(Min(W))
  <2> DEFINE m == Min(W)
  <2>1. CASE m = 1
    BY <1>4, <2>1
  <2>2. CASE m > 1
    <3>1. m - 1 \in 1 .. n /\ m - 1 \notin W
      BY <1>1, <1>4, <2>2
    <3>2. PICK j \in (m - 1) .. n : j \in apart
      BY <3>1
    <3>3. j = m - 1
      <4>1. j \in m .. n \/ j = m - 1
        BY <1>1, <1>4, <2>2
      <4> QED BY <1>4, <3>2, <4>1
    <3> QED BY <1>4, <3>2, <3>3
  <2>3. m \in 1 .. n
    BY <1>4
  <2> QED BY <1>1, <2>1, <2>2, <2>3
<1>6. Min(W) \in 1 .. n
  BY <1>4
<1> HIDE DEF W
<1>7. first = CHOOSE i \in 1 .. n : Right(i)
  BY DEF FirstOverlapping, apart, n
<1> HIDE DEF first
<1>8. first \in 1 .. n /\ Right(first)
  <2> HIDE DEF Right
  <2> QED BY <1>5, <1>6, <1>7
<1>9. \A j \in first .. n : l[j].pid = tc.pid /\ EndAddr(l[j]) >= tc.addr
  <2> SUFFICES ASSUME NEW j \in first .. n PROVE l[j].pid = tc.pid /\ EndAddr(l[j]) >= tc.addr
    OBVIOUS
  <2>1. j \in DOMAIN l /\ j \notin apart
    BY <1>1, <1>8
  <2> QED BY <1>1, <1>2, <2>1 DEF apart
<1>10. first > 1 => /\ first - 1 \in DOMAIN l
                    /\ l[first - 1].pid # tc.pid \/ EndAddr(l[first - 1]) < tc.addr
  BY <1>1, <1>8 DEF apart
<1> QED BY <1>8, <1>9, <1>10 DEF first, n

\* Where a counter belongs that does not come behind all others.
Splits(l, tc, front, mid) ==
  /\ front \in Seq(Counter) /\ Chain(front, Ahead)
  /\ Touched(mid, tc) /\ Len(mid) \in Nat /\ Len(mid) > 0
  /\ ToSet(l) = ToSet(front) \cup ToSet(mid)
  /\ \A x \in ToSet(front) : x.pid < tc.pid \/ (x.pid = tc.pid /\ EndAddr(x) < tc.addr)
  /\ \A x \in ToSet(front), y \in ToSet(mid) : <<x, y>> \in Ahead

LEMMA FrontAndMiddle ==
  ASSUME NEW l, Flat(l), l # <<>>, NEW tc \in Counter,
         Last(l).pid = tc.pid, ~(EndAddr(Last(l)) <= tc.addr), \A x \in ToSet(l) : x.pid <= tc.pid
  PROVE  LET first == FirstOverlapping(l, tc) IN
         Splits(l, tc, SubSeq(l, 1, first - 1), SubSeq(l, first, Len(l)))
<1> DEFINE first == FirstOverlapping(l, tc)
           n == Len(l)
           front == SubSeq(l, 1, first - 1)
           mid == SubSeq(l, first, n)
<1>1. /\ l \in Seq(Counter) /\ Chain(l, Ahead) /\ n \in Nat /\ DOMAIN l = 1 .. n
      /\ \A i \in DOMAIN l : l[i] \in Counter /\ l[i] \in ToSet(l)
  BY ListFields DEF Flat
<1>2. /\ first \in 1 .. n
      /\ \A j \in first .. n : l[j].pid = tc.pid /\ EndAddr(l[j]) >= tc.addr
      /\ first > 1 => /\ first - 1 \in DOMAIN l
                      /\ l[first - 1].pid # tc.pid \/ EndAddr(l[first - 1]) < tc.addr
  BY <1>1, FirstOverlappingIs
<1> HIDE DEF first, n
<1>3. /\ front \in Seq(Counter) /\ Chain(front, Ahead) /\ ToSet(front) = {l[i] : i \in 1 .. (first - 1)}
  <2>1. 1 \in 1 .. (n + 1) /\ first - 1 \in (1 - 1) .. n
    BY <1>1, <1>2
  <2> QED BY <1>1, <2>1, PartOfList DEF n
<1>4. /\ mid \in Seq(Counter) /\ Chain(mid, Ahead) /\ ToSet(mid) = {l[i] : i \in first .. n}
      /\ Len(mid) = n - first + 1 /\ DOMAIN mid = 1 .. (n - first + 1)
      /\ \A i \in 1 .. (n - first + 1) : mid[i] = l[first + i - 1] /\ first + i - 1 \in first .. n
  <2>1. first \in 1 .. (n + 1) /\ n \in (first - 1) .. n
    BY <1>1, <1>2
  <2> QED BY <1>1, <2>1, PartOfList DEF n
<1> HIDE DEF front, mid
<1>5. \A i \in DOMAIN l : /\ l[i].pid \in Nat /\ l[i].addr \in Int /\ l[i].length \in Int /\ l[i].length >= 0
                          /\ EndAddr(l[i]) = l[i].addr + l[i].length /\ l[i].addr <= EndAddr(l[i])
                          /\ l[i].pid <= tc.pid
  <2> SUFFICES ASSUME NEW i \in DOMAIN l
               PROVE  /\ l[i].pid \in Nat /\ l[i].addr \in Int /\ l[i].length \in Int /\ l[i].length >= 0
                      /\ EndAddr(l[i]) = l[i].addr + l[i].length /\ l[i].addr <= EndAddr(l[i])
                      /\ l[i].pid <= tc.pid
    OBVIOUS
  <2>1. l[i] \in Counter /\ l[i].length >= 0 /\ l[i].pid <= tc.pid
    BY <1>1 DEF Flat
  <2> QED BY <2>1, CounterFields
<1>6. tc.pid \in Nat /\ tc.addr \in Int
  BY CounterFields
<1>7. \A i, j \in DOMAIN l : i < j => l[i].pid < l[j].pid \/ (l[i].pid = l[j].pid /\ EndAddr(l[i]) <= l[j].addr)
  BY <1>1, AheadIs DEF Chain
<1>8. \A i \in 1 .. (first - 1) :
         l[i].pid < tc.pid \/ (l[i].pid = tc.pid /\ EndAddr(l[i]) < tc.addr)
  <2> SUFFICES ASSUME NEW i \in 1 .. (first - 1)
               PROVE  l[i].pid < tc.pid \/ (l[i].pid = tc.pid /\ EndAddr(l[i]) < tc.addr)
    OBVIOUS
  <2>1. first > 1 /\ i \in DOMAIN l /\ first - 1 \in DOMAIN l
    BY <1>1, <1>2
  <2> DEFINE m == first - 1
  <2>2. l[m].pid < tc.pid \/ (l[m].pid = tc.pid /\ EndAddr(l[m]) < tc.addr)
    BY <1>2, <1>5, <1>6, <2>1
  <2>3. i = m \/ i < m
    BY <1>2
  <2> HIDE DEF m
  <2>4. CASE i < m
    <3>1. l[i].pid < l[m].pid \/ (l[i].pid = l[m].pid /\ EndAddr(l[i]) <= l[m].addr)
      BY <1>7, <2>1, <2>4 DEF m
    <3>2. /\ l[i].pid \in Nat /\ l[m].pid \in Nat /\ EndAddr(l[i]) \in Int /\ EndAddr(l[m]) \in Int
          /\ l[m].addr \in Int /\ l[m].addr <= EndAddr(l[m]) /\ l[i].pid <= tc.pid
      BY <1>5, <2>1 DEF m
    <3> QED BY <1>6, <2>2, <3>1, <3>2
  <2> QED BY <2>2, <2>3, <2>4
<1>9. \A x \in ToSet(front) : x.pid < tc.pid \/ (x.pid = tc.pid /\ EndAddr(x) < tc.addr)
  BY <1>3, <1>8
<1>10. \A x \in ToSet(front), y \in ToSet(mid) : <<x, y>> \in Ahead
  <2> SUFFICES ASSUME NEW i \in 1 .. (first - 1), NEW j \in first .. n PROVE <<l[i], l[j]>> \in Ahead
    BY <1>3, <1>4
  <2>1. i \in DOMAIN l /\ j \in DOMAIN l /\ i < j
    BY <1>1, <1>2
  <2> QED BY <1>1, <2>1 DEF Chain
<1>11. ToSet(l) = ToSet(front) \cup ToSet(mid)
  <2>1. \A x \in ToSet(l) : \E i \in DOMAIN l : x = l[i]
    BY <1>1, ListFields
  <2>2. \A i \in DOMAIN l : i \in 1 .. (first - 1) \/ i \in first .. n
    BY <1>1, <1>2
  <2>3. ToSet(l) \subseteq ToSet(front) \cup ToSet(mid)
    BY <1>3, <1>4, <2>1, <2>2
  <2>4. \A i \in 1 .. (first - 1) : i \in DOMAIN l
    BY <1>1, <1>2
  <2>5. \A i \in first .. n : i \in DOMAIN l
    BY <1>1, <1>2
  <2> QED BY <1>1, <1>3, <1>4, <2>3, <2>4, <2>5
<1>12. \A i \in DOMAIN mid : mid[i].pid = tc.pid /\ mid[i].length >= 0 /\ EndAddr(mid[i]) >= tc.addr
  <2> SUFFICES ASSUME NEW i \in DOMAIN mid
               PROVE  mid[i].pid = tc.pid /\ mid[i].length >= 0 /\ EndAddr(mid[i]) >= tc.addr
    OBVIOUS
  <2>1. mid[i] = l[first + i - 1] /\ first + i - 1 \in first .. n
    BY <1>4
  <2>2. first + i - 1 \in DOMAIN l
    BY <1>1, <1>2, <2>1
  <2> QED BY <1>2, <1>5, <2>1, <2>2
<1>13. ~(mid[1].length = 0 /\ mid[1].addr = tc.addr)
  <2> SUFFICES ASSUME mid[1].length = 0, mid[1].addr = tc.addr PROVE FALSE
    OBVIOUS
  <2>1. mid[1] = l[first] /\ first \in DOMAIN l /\ l[first].pid = tc.pid
    <3>1. 1 \in 1 .. (n - first + 1) /\ first + 1 - 1 = first /\ first \in first .. n
      BY <1>1, <1>2
    <3> QED BY <1>1, <1>2, <1>4, <3>1
  <2>2. PICK y \in ToSet(l) : y.pid = tc.pid /\ y.length > 0 /\ EndAddr(y) = tc.addr
    BY <1>1, <2>1 DEF Flat
  <2>3. PICK j \in DOMAIN l : y = l[j]
    BY <1>1, ListFields
  <2>4. CASE j < first
    <3>1. j \in 1 .. (first - 1)
      BY <1>1, <1>2, <2>4
    <3>2. l[j].pid < tc.pid \/ (l[j].pid = tc.pid /\ EndAddr(l[j]) < tc.addr)
      BY <1>8, <3>1
    <3> QED BY <1>6, <2>2, <2>3, <3>2
  <2>5. CASE j = first
    BY <2>1, <2>2, <2>3, <2>5
  <2>6. CASE j > first
    <3>1. l[first].pid < l[j].pid \/ (l[first].pid = l[j].pid /\ EndAddr(l[first]) <= l[j].addr)
      BY <1>7, <2>1, <2>6
    <3>2. EndAddr(l[first]) <= l[j].addr
      BY <1>6, <2>1, <2>2, <2>3, <3>1
    <3>3. EndAddr(l[first]) = tc.addr
      BY <1>5, <1>6, <2>1
    <3>4. l[j].addr < EndAddr(l[j])
      BY <1>5, <2>2, <2>3
    <3> QED BY <1>5, <1>6, <2>2, <2>3, <3>2, <3>3, <3>4
  <2> QED BY <1>1, <1>2, <2>4, <2>5, <2>6
<1>14. Touched(mid, tc)
  BY <1>4, <1>12, <1>13 DEF Touched
<1>15. Len(mid) \in Nat /\ Len(mid) > 0
  BY <1>1, <1>2, <1>4
<1> QED BY <1>3, <1>9, <1>10, <1>11, <1>14, <1>15 DEF Splits, front, mid, first, n

\* What putting a counter in a flat list makes of it: a flat list again, of the same processes
\* and pages, that tells of every page what the old one did and tc does.
Adds(l, tc, new) ==
  /\ Flat(new)
  /\ \A x \in ToSet(new) : x.pid = tc.pid \/ \E y \in ToSet(l) : x.pid = y.pid
  /\ \A x \in ToSet(new) : \A pg \in PagesIn(x) :
        pg \in PagesIn(tc) \/ \E y \in ToSet(l) : pg \in PagesIn(y)
  /\ \A pid, n : \A pg \in Int : n \in Nat /\ Tells(l, pid, pg, n) =>
        Tells(new, pid, pg, n + (IF Covers(tc, pid, pg) THEN tc.accesses ELSE 0))

\* What the flat list becomes: the front, what the walk has made of the middle, and what
\* is left of the new counter.
LEMMA Assembled ==
  ASSUME NEW l, Flat(l), NEW tc \in Counter, tc.length > 0, NEW front, NEW mid,
         Splits(l, tc, front, mid), NEW walk, Walked(walk, mid, Len(mid), tc), NEW new,
         new = front \o walk.tail \o (IF walk.start < EndAddr(tc) THEN <<walk.tc>> ELSE <<>>)
  PROVE  Adds(l, tc, new)
<1> DEFINE left == IF walk.start < EndAddr(tc) THEN <<walk.tc>> ELSE <<>>
           m == Len(mid)
           F == ToSet(front)
           M == ToSet(mid)
           W == ToSet(walk.tail)
           R == ToSet(left)
           start == walk.start
           tcEnd == EndAddr(tc)
<1>1. /\ mid \in Seq(Counter) /\ DOMAIN mid = 1 .. m /\ m \in Nat /\ m > 0 /\ Chain(mid, Ahead)
      /\ \A i \in DOMAIN mid : /\ mid[i] \in Counter /\ mid[i] \in M /\ mid[i].pid = tc.pid
                               /\ mid[i].length >= 0 /\ EndAddr(mid[i]) >= tc.addr
      /\ \A x \in M : \E i \in DOMAIN mid : x = mid[i]
  BY ListFields DEF Splits, Touched
<1>2. /\ front \in Seq(Counter) /\ Chain(front, Ahead) /\ ToSet(l) = F \cup M /\ F \subseteq Counter
      /\ \A x \in F : x.pid < tc.pid \/ (x.pid = tc.pid /\ EndAddr(x) < tc.addr)
      /\ \A x \in F, y \in M : <<x, y>> \in Ahead
  BY ListFields DEF Splits
<1>3. /\ walk.tail \in Seq(Counter) /\ Chain(walk.tail, Ahead) /\ W \subseteq Counter /\ start \in Int
      /\ \A x \in W : x.pid = tc.pid /\ x.length >= 0
      /\ tc.addr <= start /\ start <= tcEnd
      /\ walk.tc = [tc EXCEPT !.addr = start, !.length = tcEnd - start]
  BY WalkFields, ListFields DEF Walked
<1>4. /\ tc.pid \in Nat /\ tc.addr \in Int /\ tcEnd \in Int /\ tc.accesses \in Nat /\ tc.pid \in Pids
      /\ \A pg : pg \in PagesIn(tc) <=> pg \in Int /\ tc.addr <= pg /\ pg < tcEnd
  BY CounterFields
<1>5. /\ walk.tc \in Counter /\ walk.tc.pid = tc.pid /\ walk.tc.addr = start /\ EndAddr(walk.tc) = tcEnd
      /\ walk.tc.accesses = tc.accesses /\ walk.tc.length = tcEnd - start
  <2> HIDE DEF start, tcEnd
  <2>1. tc \in [pid : Pids, addr : Int, length : Int, accesses : Nat] /\ tcEnd - start \in Int
    BY <1>3, <1>4 DEF Counter
  <2>2. walk.tc \in Counter /\ walk.tc.pid = tc.pid /\ walk.tc.addr = start
        /\ walk.tc.accesses = tc.accesses /\ walk.tc.length = tcEnd - start
    BY <1>3, <2>1 DEF Counter
  <2>3. EndAddr(walk.tc) = start + (tcEnd - start)
    BY <2>2 DEF EndAddr
  <2>4. start + (tcEnd - start) = tcEnd
    BY <1>3, <1>4
  <2> QED BY <2>2, <2>3, <2>4
<1>6. left \in Seq(Counter) /\ Chain(left, Ahead) /\ (start < tcEnd => R = {walk.tc}) /\ (~(start < tcEnd) => R = {})
  BY <1>5, OneElement, NoElement
<1>7. /\ start = WalkEnd(mid[m], tcEnd)
      /\ \A x \in W : mid[1].addr <= x.addr /\ EndAddr(x) <= EndAddr(mid[m])
  BY <1>1 DEF Walked
<1>8. /\ \A x \in W : x.length = 0 => \E y \in W : y.length > 0 /\ EndAddr(y) = x.addr
      /\ \A x \in W : \A pg \in PagesIn(x) : \E j \in 1 .. m :
            pg \in PagesIn(mid[j]) /\ x.accesses = mid[j].accesses + Given(walk, tc, pg)
      /\ \A j \in 1 .. m : \A pg \in PagesIn(mid[j]) : \E x \in W : pg \in PagesIn(x)
      /\ \A pg \in Int : tc.addr <= pg /\ pg < start => \E x \in W : pg \in PagesIn(x)
  BY DEF Walked
<1>9. new = front \o walk.tail \o left
  OBVIOUS
<1> HIDE DEF left, m, start, tcEnd
<1>10. mid[1] \in Counter /\ mid[m] \in Counter /\ 1 \in DOMAIN mid /\ m \in DOMAIN mid
  BY <1>1
<1>11. \A i \in DOMAIN mid : EndAddr(mid[i]) <= EndAddr(mid[m])
  <2> SUFFICES ASSUME NEW i \in DOMAIN mid, i # m PROVE EndAddr(mid[i]) <= EndAddr(mid[m])
    BY <1>1, CounterFields
  <2>1. <<mid[i], mid[m]>> \in Ahead
    BY <1>1 DEF Chain
  <2>2. /\ mid[i].pid \in Nat /\ mid[i].pid = mid[m].pid /\ EndAddr(mid[i]) \in Int
        /\ mid[m].addr \in Int /\ mid[m].length \in Int /\ mid[m].length >= 0
        /\ EndAddr(mid[m]) = mid[m].addr + mid[m].length
    BY <1>1, <1>10, CounterFields
  <2>3. EndAddr(mid[i]) <= mid[m].addr
    BY <1>1, <1>10, <2>1, <2>2, AheadIs
  <2> QED BY <2>2, <2>3
<1>12. start < tcEnd => start = EndAddr(mid[m])
  BY <1>4, <1>7, <1>10, WalkEndIs
<1>13. ASSUME NEW x \in F, NEW y \in W PROVE <<x, y>> \in Ahead
  <2>1. x \in Counter /\ y \in Counter /\ y.pid = tc.pid /\ mid[1].addr <= y.addr /\ <<x, mid[1]>> \in Ahead
    BY <1>1, <1>2, <1>3, <1>7, <1>10
  <2>2. /\ EndAddr(x) \in Int /\ mid[1].addr \in Int /\ y.addr \in Int /\ mid[1].pid = tc.pid
    BY <1>1, <1>10, <2>1, CounterFields
  <2>3. x.pid < mid[1].pid \/ (x.pid = mid[1].pid /\ EndAddr(x) <= mid[1].addr)
    BY <1>10, <2>1, AheadIs
  <2> QED BY <2>1, <2>2, <2>3, AheadIs
<1>14. ASSUME NEW x \in F, start < tcEnd PROVE <<x, walk.tc>> \in Ahead
  <2>1. x \in Counter /\ EndAddr(x) \in Int /\ (x.pid < tc.pid \/ (x.pid = tc.pid /\ EndAddr(x) < tc.addr))
    BY <1>2, CounterFields
  <2>2. x.pid < walk.tc.pid \/ (x.pid = walk.tc.pid /\ EndAddr(x) <= walk.tc.addr)
    <3>1. EndAddr(x) < tc.addr => EndAddr(x) <= start
      BY <1>3, <1>4, <2>1
    <3> QED BY <1>5, <2>1, <3>1
  <2> QED BY <1>5, <2>1, <2>2, AheadIs
<1>15. ASSUME NEW x \in W, start < tcEnd PROVE <<x, walk.tc>> \in Ahead
  <2>1. x \in Counter /\ x.pid = tc.pid /\ EndAddr(x) <= start
    BY <1>3, <1>7, <1>12, <1>15
  <2>2. x.pid = walk.tc.pid /\ EndAddr(x) <= walk.tc.addr
    BY <1>5, <2>1
  <2> QED BY <1>5, <2>1, <2>2, AheadIs
<1>16. new \in Seq(Counter) /\ ToSet(new) = F \cup W \cup R /\ Chain(new, Ahead)
  <2> DEFINE two == front \o walk.tail
  <2>1. two \in Seq(Counter) /\ ToSet(two) = F \cup W
    BY <1>2, <1>3, Joining
  <2>2. Chain(two, Ahead)
    BY <1>2, <1>3, <1>13, JoinedChain
  <2> HIDE DEF two
  <2>3. \A x \in ToSet(two), y \in ToSet(left) : <<x, y>> \in Ahead
    BY <1>6, <1>14, <1>15, <2>1
  <2>4. two \o left \in Seq(Counter) /\ ToSet(two \o left) = ToSet(two) \cup ToSet(left)
    BY <1>6, <2>1, Joining
  <2>5. Chain(two \o left, Ahead)
    BY <1>6, <2>1, <2>2, <2>3, JoinedChain
  <2>6. new = two \o left
    BY <1>9 DEF two
  <2> QED BY <2>1, <2>4, <2>5, <2>6
<1> HIDE DEF F, M, W, R
<1>17. \A x \in R : x = walk.tc /\ start < tcEnd
  BY <1>6
<1>18. \A x \in F \cup M : x \in Counter /\ x.length >= 0 /\ x \in ToSet(l)
  BY <1>1, <1>2 DEF Flat
<1>19. ASSUME NEW x \in F, x.length = 0
       PROVE  \E y \in F : y.pid = x.pid /\ y.length > 0 /\ EndAddr(y) = x.addr
  <2>1. PICK y \in F \cup M : y.pid = x.pid /\ y.length > 0 /\ EndAddr(y) = x.addr
    BY <1>2, <1>19 DEF Flat
  <2>2. y \notin M
    <3> SUFFICES ASSUME y \in M PROVE FALSE
      OBVIOUS
    <3>1. x \in Counter /\ y \in Counter /\ <<x, y>> \in Ahead
      BY <1>2, <1>18
    <3>2. /\ x.pid \in Nat /\ x.addr \in Int /\ EndAddr(x) = x.addr + x.length
          /\ y.addr \in Int /\ EndAddr(y) = y.addr + y.length /\ y.length \in Int
      BY <3>1, CounterFields
    <3>3. EndAddr(x) <= y.addr
      BY <2>1, <3>1, <3>2, AheadIs
    <3>4. EndAddr(x) = x.addr
      BY <1>19, <3>2
    <3> QED BY <2>1, <3>2, <3>3, <3>4
  <2> QED BY <2>1, <2>2
<1>20. Flat(new)
  <2>3. \A x \in R : x.length \in Int /\ x.length > 0
    <3>1. tcEnd - start \in Int /\ (start < tcEnd => tcEnd - start > 0)
      BY <1>3, <1>4
    <3> QED BY <1>5, <1>17, <3>1
  <2>1. \A x \in ToSet(new) : x.length >= 0
    <3>1. \A x \in R : x.length >= 0
      BY <1>3, <1>4, <1>5, <1>17, <2>3
    <3> QED BY <1>3, <1>16, <1>18, <3>1
  <2>2. ASSUME NEW x \in ToSet(new), x.length = 0
        PROVE  \E y \in ToSet(new) : y.pid = x.pid /\ y.length > 0 /\ EndAddr(y) = x.addr
    <3>1. CASE x \in F
      BY <1>16, <1>19, <2>2, <3>1
    <3>2. CASE x \in W
      BY <1>3, <1>8, <1>16, <2>2, <3>2
    <3>3. x \notin R
      BY <2>2, <2>3
    <3> QED BY <1>16, <3>1, <3>2, <3>3
  <2> QED BY <1>16, <2>1, <2>2 DEF Flat
<1>21. \A x \in ToSet(new) : x.pid = tc.pid \/ \E y \in ToSet(l) : x.pid = y.pid
  BY <1>2, <1>3, <1>5, <1>16, <1>17
<1>22. \A x \in ToSet(new) : \A pg \in PagesIn(x) :
          pg \in PagesIn(tc) \/ \E y \in ToSet(l) : pg \in PagesIn(y)
  <2> SUFFICES ASSUME NEW x \in ToSet(new), NEW pg \in PagesIn(x)
               PROVE  pg \in PagesIn(tc) \/ \E y \in ToSet(l) : pg \in PagesIn(y)
    OBVIOUS
  <2>1. CASE x \in F
    BY <1>2, <2>1
  <2>2. CASE x \in W
    <3>1. PICK j \in 1 .. m : pg \in PagesIn(mid[j])
      BY <1>8, <2>2
    <3>2. mid[j] \in ToSet(l)
      BY <1>1, <1>2, <3>1
    <3> QED BY <3>1, <3>2
  <2>3. CASE x \in R
    <3>1. pg \in Int /\ start <= pg /\ pg < tcEnd
      BY <1>5, <1>17, <2>3, CounterFields
    <3> QED BY <1>3, <1>4, <3>1
  <2> QED BY <1>16, <2>1, <2>2, <2>3
<1>23. ASSUME NEW pid, NEW pg \in Int, NEW n \in Nat, Tells(l, pid, pg, n)
       PROVE  Tells(new, pid, pg, n + (IF Covers(tc, pid, pg) THEN tc.accesses ELSE 0))
  <2> DEFINE d == IF Covers(tc, pid, pg) THEN tc.accesses ELSE 0
  <2>1. d \in Nat
    BY <1>4
  <2>2. CASE pid # tc.pid
    <3>1. d = 0
      BY <2>2 DEF Covers
    <3>2. ASSUME NEW x \in ToSet(new), Covers(x, pid, pg) PROVE x.accesses = n
      <4>1. x.pid # tc.pid
        BY <2>2, <3>2 DEF Covers
      <4>2. x \in ToSet(l)
        BY <1>2, <1>3, <1>5, <1>16, <1>17, <4>1
      <4> QED BY <1>23, <3>2, <4>2 DEF Tells
    <3>3. ASSUME n # 0 PROVE \E x \in ToSet(new) : Covers(x, pid, pg)
      <4>1. PICK x \in ToSet(l) : Covers(x, pid, pg)
        BY <1>23, <3>3 DEF Tells
      <4>2. x.pid # tc.pid
        BY <2>2, <4>1 DEF Covers
      <4>3. x \in F
        BY <1>1, <1>2, <4>2
      <4> QED BY <1>16, <4>1, <4>3
    <3> HIDE DEF d
    <3>4. n + d = n
      BY <3>1
    <3> QED BY <3>2, <3>3, <3>4 DEF Tells, d
  <2>3. CASE pid = tc.pid
    <3>1. d = IF tc.addr <= pg /\ pg < tcEnd THEN tc.accesses ELSE 0
      BY <1>4, <2>3 DEF Covers
    <3> HIDE DEF d
    <3>2. ASSUME NEW x \in F, Covers(x, pid, pg) PROVE pg < tc.addr /\ x.accesses = n
      <4>1. x.pid = tc.pid /\ pg < EndAddr(x) /\ EndAddr(x) \in Int
        BY <1>2, <2>3, <3>2, CounterFields DEF Covers
      <4>2. EndAddr(x) < tc.addr
        BY <1>2, <1>4, <4>1
      <4>3. x.accesses = n
        BY <1>2, <1>23, <3>2 DEF Tells
      <4> QED BY <1>4, <4>1, <4>2, <4>3
    <3>3. ASSUME NEW j \in 1 .. m, pg \in PagesIn(mid[j])
          PROVE  mid[j].accesses = n /\ pg < EndAddr(mid[m])
      <4>1. /\ mid[j] \in ToSet(l) /\ mid[j].pid = pid /\ mid[j] \in Counter
            /\ EndAddr(mid[j]) <= EndAddr(mid[m])
        BY <1>1, <1>2, <1>11, <2>3
      <4>2. mid[j].accesses = n
        BY <1>23, <3>3, <4>1 DEF Tells, Covers
      <4>3. pg < EndAddr(mid[j]) /\ EndAddr(mid[j]) \in Int /\ EndAddr(mid[m]) \in Int
        BY <1>10, <3>3, <4>1, CounterFields
      <4> QED BY <4>1, <4>2, <4>3
    <3>4. ASSUME NEW x \in W, Covers(x, pid, pg) PROVE x.accesses = n + d
      <4>1. PICK j \in 1 .. m : pg \in PagesIn(mid[j]) /\ x.accesses = mid[j].accesses + Given(walk, tc, pg)
        BY <1>8, <3>4 DEF Covers
      <4>2. mid[j].accesses = n /\ pg < EndAddr(mid[m])
        BY <3>3, <4>1
      <4>3. pg < start <=> pg < tcEnd
        <5>1. EndAddr(mid[m]) \in Int
          BY <1>10, CounterFields
        <5> QED BY <1>3, <1>4, <1>12, <4>2, <5>1
      <4>4. Given(walk, tc, pg) = d
        BY <3>1, <4>3 DEF Given, start
      <4> QED BY <4>1, <4>2, <4>4
    <3>5. ASSUME NEW x \in R, Covers(x, pid, pg) PROVE x.accesses = n + d
      <4>1. start <= pg /\ pg < tcEnd /\ tc.addr <= pg /\ x.accesses = tc.accesses
        <5>1. pg \in PagesIn(walk.tc) /\ x = walk.tc
          BY <1>17, <3>5 DEF Covers
        <5>2. start <= pg /\ pg < tcEnd
          BY <1>5, <5>1, CounterFields
        <5> QED BY <1>3, <1>4, <1>5, <5>1, <5>2
      <4>2. d = tc.accesses
        BY <3>1, <4>1
      <4>3. n = 0
        <5> SUFFICES ASSUME n # 0 PROVE FALSE
          OBVIOUS
        <5>1. PICK y \in F \cup M : Covers(y, pid, pg)
          BY <1>2, <1>23 DEF Tells
        <5>2. y \notin F
          BY <1>4, <3>2, <4>1, <5>1
        <5>3. PICK j \in 1 .. m : y = mid[j]
          BY <1>1, <5>1, <5>2
        <5>4. pg < EndAddr(mid[m])
          BY <3>3, <5>1, <5>3 DEF Covers
        <5>5. start = EndAddr(mid[m])
          BY <1>12, <1>17
        <5> QED BY <1>3, <4>1, <5>4, <5>5
      <4> QED BY <1>4, <4>1, <4>2, <4>3
    <3>6. \A x \in ToSet(new) : Covers(x, pid, pg) => x.accesses = n + d
      <4> SUFFICES ASSUME NEW x \in ToSet(new), Covers(x, pid, pg) PROVE x.accesses = n + d
        OBVIOUS
      <4>1. CASE x \in F
        <5>1. d = 0 /\ x.accesses = n
          BY <1>4, <3>1, <3>2, <4>1
        <5> QED BY <5>1
      <4> QED BY <1>16, <3>4, <3>5, <4>1
    <3>7. ASSUME n + d # 0 PROVE \E x \in ToSet(new) : Covers(x, pid, pg)
      <4>1. CASE d # 0
        <5>1. tc.addr <= pg /\ pg < tcEnd
          BY <3>1, <4>1
        <5>2. CASE pg < start
          <6>1. PICK x \in W : pg \in PagesIn(x)
            BY <1>8, <5>1, <5>2
          <6> QED BY <1>3, <1>16, <2>3, <6>1 DEF Covers
        <5>3. CASE ~(pg < start)
          <6>1. start < tcEnd /\ start <= pg
            BY <1>3, <1>4, <5>1, <5>3
          <6>2. walk.tc \in R /\ pg \in PagesIn(walk.tc)
            BY <1>5, <1>6, <5>1, <6>1, CounterFields DEF R
          <6> QED BY <1>5, <1>16, <2>3, <6>2 DEF Covers
        <5> QED BY <5>2, <5>3
      <4>2. CASE d = 0
        <5>1. PICK y \in F \cup M : Covers(y, pid, pg)
          <6>1. n # 0
            BY <3>7, <4>2
          <6> QED BY <1>2, <1>23, <6>1 DEF Tells
        <5>2. CASE y \in F
          BY <1>16, <5>1, <5>2
        <5>3. CASE y \in M
          <6>1. PICK j \in 1 .. m : y = mid[j]
            BY <1>1, <5>3
          <6>2. PICK x \in W : pg \in PagesIn(x)
            BY <1>8, <5>1, <6>1 DEF Covers
          <6> QED BY <1>3, <1>16, <2>3, <6>2 DEF Covers
        <5> QED BY <5>1, <5>2, <5>3
      <4> QED BY <4>1, <4>2
    <3> QED BY <3>6, <3>7 DEF Tells, d
  <2> QED BY <2>2, <2>3
<1> QED BY <1>20, <1>21, <1>22, <1>23 DEF Adds

Flats == [tcs : Seq(Counter), panics : BOOLEAN]

LEMMA AddFlatIs ==
  ASSUME NEW flat, NEW tc
  PROVE  LET l == flat.tcs
             first == FirstOverlapping(l, tc)
             walk == WalkOf(SubSeq(l, first, Len(l)), tc)
         IN AddFlat(flat, tc) =
              IF l = <<>> \/ Last(l).pid # tc.pid \/ EndAddr(Last(l)) <= tc.addr
              THEN [flat EXCEPT !.tcs = Append(@, tc)]
              ELSE [tcs |-> SubSeq(l, 1, first - 1) \o walk.tail
                              \o (IF walk.start < EndAddr(tc) THEN <<walk.tc>> ELSE <<>>),
                    panics |-> flat.panics \/ walk.panics]
  BY DEF AddFlat, WalkOf, Beginning, FoldLeft, MapThenFoldSet

LEMMA WalkOfTyped ==
  ASSUME NEW mid \in Seq(Counter), NEW tc \in Counter
  PROVE  WalkOf(mid, tc) \in Walks
<1>1. PICK w \in [0 .. Len(mid) -> Walks] : w[Len(mid)] = WalkOf(mid, tc)
  BY WalkByWalk
<1>2. Len(mid) \in 0 .. Len(mid)
  BY ListFields
<1> QED BY <1>1, <1>2

LEMMA AddFlatTyped ==
  ASSUME NEW flat \in Flats, NEW tc \in Counter
  PROVE  AddFlat(flat, tc) \in Flats /\ (flat.panics => AddFlat(flat, tc).panics)
<1> DEFINE l == flat.tcs
           first == FirstOverlapping(l, tc)
           walk == WalkOf(SubSeq(l, first, Len(l)), tc)
           left == IF walk.start < EndAddr(tc) THEN <<walk.tc>> ELSE <<>>
           behind == l = <<>> \/ Last(l).pid # tc.pid \/ EndAddr(Last(l)) <= tc.addr
           tcs2 == SubSeq(l, 1, first - 1) \o walk.tail \o left
<1>1. l \in Seq(Counter) /\ flat.panics \in BOOLEAN /\ flat = [tcs |-> l, panics |-> flat.panics]
  BY DEF Flats
<1>2. AddFlat(flat, tc) = IF behind THEN [flat EXCEPT !.tcs = Append(@, tc)]
                          ELSE [tcs |-> tcs2, panics |-> flat.panics \/ walk.panics]
  BY AddFlatIs
<1>3. CASE behind
  <2>1. Append(l, tc) \in Seq(Counter)
    BY <1>1
  <2>2. AddFlat(flat, tc) = [flat EXCEPT !.tcs = Append(@, tc)]
    BY <1>2, <1>3
  <2> HIDE DEF behind
  <2> QED BY <1>1, <2>1, <2>2 DEF Flats
<1>4. CASE ~behind
  <2>1. first \in 1 .. Len(l) /\ Len(l) \in Nat
    BY <1>1, <1>4, FirstOverlappingIs, ListFields
  <2> HIDE DEF first, l
  <2>2. 1 \in 1 .. (Len(l) + 1) /\ first - 1 \in (1 - 1) .. Len(l) /\ first \in 1 .. (Len(l) + 1)
        /\ Len(l) \in (first - 1) .. Len(l)
    BY <2>1
  <2>3. SubSeq(l, 1, first - 1) \in Seq(Counter) /\ SubSeq(l, first, Len(l)) \in Seq(Counter)
    BY <1>1, <2>2, PartOfList
  <2>4. walk \in Walks
    BY <2>3, WalkOfTyped
  <2> HIDE DEF walk
  <2>5. walk.tail \in Seq(Counter) /\ walk.panics \in BOOLEAN /\ left \in Seq(Counter)
    BY <2>4, WalkFields, OneElement, NoElement
  <2> HIDE DEF left
  <2>6. tcs2 \in Seq(Counter)
    BY <2>3, <2>5, Joining
  <2>7. AddFlat(flat, tc) = [tcs |-> tcs2, panics |-> flat.panics \/ walk.panics]
    BY <1>2, <1>4
  <2> HIDE DEF tcs2
  <2> QED BY <1>1, <2>5, <2>6, <2>7 DEF Flats
<1> QED BY <1>3, <1>4

\* Behind all others a new counter is appended.
LEMMA Appended ==
  ASSUME NEW l, Flat(l), NEW tc \in Counter, tc.length > 0, \A x \in ToSet(l) : x.pid <= tc.pid,
         l = <<>> \/ Last(l).pid # tc.pid \/ EndAddr(Last(l)) <= tc.addr, NEW new, new = Append(l, tc)
  PROVE  Adds(l, tc, new)
<1> DEFINE L == ToSet(l)
           one == <<tc>>
<1>1. l \in Seq(Counter) /\ Chain(l, Ahead) /\ L \subseteq Counter
  BY ListFields DEF Flat
<1>2. one \in Seq(Counter) /\ Chain(one, Ahead) /\ ToSet(one) = {tc}
  BY OneElement
<1>3. new = l \o one
  BY <1>1
<1> HIDE DEF one
<1>4. /\ tc.pid \in Nat /\ tc.addr \in Int /\ tc.accesses \in Nat /\ tc.length \in Int
  BY CounterFields
<1>5. ASSUME NEW x \in L PROVE x.pid < tc.pid \/ (x.pid = tc.pid /\ EndAddr(x) <= tc.addr)
  <2>1. PICK i \in DOMAIN l : x = l[i]
    BY <1>1, ListFields
  <2> DEFINE n == Len(l)
  <2>2. n \in DOMAIN l /\ Last(l) = l[n] /\ i <= n /\ n \in Nat /\ i \in Nat
    BY <1>1, <2>1, ListFields DEF Last
  <2>3. l # <<>>
    BY <2>1
  <2> HIDE DEF n
  <2>4. l[n] \in Counter /\ l[n] \in L /\ l[n].length >= 0 /\ l[n].pid <= tc.pid /\ x.pid <= tc.pid
    BY <1>1, <2>2, ListFields DEF Flat
  <2>5. /\ x.pid \in Nat /\ EndAddr(x) \in Int /\ l[n].pid \in Nat /\ l[n].addr \in Int
        /\ l[n].length \in Int /\ EndAddr(l[n]) = l[n].addr + l[n].length
    BY <1>1, <2>4, CounterFields
  <2>6. l[n].addr <= EndAddr(l[n])
    BY <2>4, <2>5
  <2>7. l[n].pid < tc.pid \/ (l[n].pid = tc.pid /\ EndAddr(l[n]) <= tc.addr)
    BY <1>4, <2>2, <2>3, <2>4, <2>5
  <2>8. CASE i = n
    BY <2>1, <2>7, <2>8
  <2>9. CASE i < n
    <3>1. <<x, l[n]>> \in Ahead
      BY <1>1, <2>1, <2>2, <2>9 DEF Chain
    <3>2. x.pid < l[n].pid \/ (x.pid = l[n].pid /\ EndAddr(x) <= l[n].addr)
      BY <1>1, <2>4, <3>1, AheadIs
    <3>3. CASE l[n].pid < tc.pid
      BY <1>4, <2>5, <3>2, <3>3
    <3>4. CASE l[n].pid = tc.pid /\ EndAddr(l[n]) <= tc.addr
      <4>1. EndAddr(l[n]) \in Int
        BY <2>5
      <4> QED BY <1>4, <2>5, <2>6, <3>2, <3>4, <4>1
    <3> QED BY <2>7, <3>3, <3>4
  <2> QED BY <2>2, <2>8, <2>9
<1>6. new \in Seq(Counter) /\ ToSet(new) = L \cup {tc} /\ Chain(new, Ahead)
  <2>1. \A x \in ToSet(l), y \in ToSet(one) : <<x, y>> \in Ahead
    BY <1>1, <1>2, <1>5, AheadIs
  <2>2. l \o one \in Seq(Counter) /\ ToSet(l \o one) = ToSet(l) \cup ToSet(one)
    BY <1>1, <1>2, Joining
  <2>3. Chain(l \o one, Ahead)
    BY <1>1, <1>2, <2>1, JoinedChain
  <2> QED BY <1>2, <1>3, <2>2, <2>3
<1> HIDE DEF L
<1>7. Flat(new)
  <2>1. \A x \in ToSet(new) : x.length >= 0
    BY <1>4, <1>6 DEF Flat, L
  <2>2. \A x \in ToSet(new) : x.length = 0 =>
          \E y \in ToSet(new) : y.pid = x.pid /\ y.length > 0 /\ EndAddr(y) = x.addr
    BY <1>4, <1>6 DEF Flat, L
  <2> QED BY <1>6, <2>1, <2>2 DEF Flat
<1>8. ASSUME NEW pid, NEW pg \in Int, NEW n \in Nat, Tells(l, pid, pg, n)
      PROVE  Tells(new, pid, pg, n + (IF Covers(tc, pid, pg) THEN tc.accesses ELSE 0))
  <2>1. \A x \in L : Covers(x, pid, pg) => x.accesses = n
    BY <1>8 DEF Tells, L
  <2>2. n # 0 => \E x \in L : Covers(x, pid, pg)
    BY <1>8 DEF Tells, L
  <2>3. CASE Covers(tc, pid, pg)
    <3>1. \A x \in L : ~Covers(x, pid, pg)
      <4> SUFFICES ASSUME NEW x \in L, Covers(x, pid, pg) PROVE FALSE
        OBVIOUS
      <4>1. x \in Counter /\ x.pid = pid /\ pg \in PagesIn(x) /\ tc.pid = pid /\ pg \in PagesIn(tc)
        BY <1>1, <2>3 DEF Covers, L
      <4>2. pg < EndAddr(x) /\ tc.addr <= pg /\ EndAddr(x) \in Int /\ x.pid \in Nat
        BY <4>1, CounterFields
      <4>3. EndAddr(x) <= tc.addr
        BY <1>4, <1>5, <4>1, <4>2
      <4> QED BY <1>4, <4>2, <4>3
    <3>2. n = 0
      BY <2>2, <3>1
    <3>3. n + tc.accesses = tc.accesses
      BY <1>4, <3>2
    <3> QED BY <1>6, <2>3, <3>1, <3>3 DEF Tells
  <2>4. CASE ~Covers(tc, pid, pg)
    <3>1. n + 0 = n
      OBVIOUS
    <3> QED BY <1>6, <2>1, <2>2, <2>4, <3>1 DEF Tells
  <2> QED BY <2>3, <2>4
<1>9. \A x \in ToSet(new) : x.pid = tc.pid \/ \E y \in ToSet(l) : x.pid = y.pid
  BY <1>6 DEF L
<1>10. \A x \in ToSet(new) : \A pg \in PagesIn(x) :
          pg \in PagesIn(tc) \/ \E y \in ToSet(l) : pg \in PagesIn(y)
  BY <1>6 DEF L
<1> QED BY <1>7, <1>8, <1>9, <1>10 DEF Adds

\* AddFlat adds a counter of the last process to the flat list.
LEMMA AddFlatAdds ==
  ASSUME NEW flat \in Flats, NEW tc \in Counter, tc.length > 0, Flat(flat.tcs),
         \A x \in ToSet(flat.tcs) : x.pid <= tc.pid, ~AddFlat(flat, tc).panics
  PROVE  Adds(flat.tcs, tc, AddFlat(flat, tc).tcs)
<1> DEFINE l == flat.tcs
           first == FirstOverlapping(l, tc)
           front == SubSeq(l, 1, first - 1)
           mid == SubSeq(l, first, Len(l))
           walk == WalkOf(mid, tc)
           left == IF walk.start < EndAddr(tc) THEN <<walk.tc>> ELSE <<>>
           behind == l = <<>> \/ Last(l).pid # tc.pid \/ EndAddr(Last(l)) <= tc.addr
           new == AddFlat(flat, tc)
<1>1. new = IF behind THEN [flat EXCEPT !.tcs = Append(@, tc)]
            ELSE [tcs |-> front \o walk.tail \o left, panics |-> flat.panics \/ walk.panics]
  BY AddFlatIs
<1>2. flat = [tcs |-> l, panics |-> flat.panics]
  BY DEF Flats
<1>3. CASE behind
  <2>1. new.tcs = Append(l, tc)
    <3>1. new = [flat EXCEPT !.tcs = Append(@, tc)]
      BY <1>1, <1>3
    <3> HIDE DEF behind, new
    <3> QED BY <1>2, <3>1
  <2> HIDE DEF new
  <2> QED BY <1>3, <2>1, Appended DEF new
<1>4. CASE ~behind
  <2>1. Splits(l, tc, front, mid)
    BY <1>4, FrontAndMiddle
  <2>2. new = [tcs |-> front \o walk.tail \o left, panics |-> flat.panics \/ walk.panics]
    BY <1>1, <1>4
  <2>3. ~new.panics
    OBVIOUS
  <2> HIDE DEF front, mid, l
  <2>7. new.tcs = front \o walk.tail \o left /\ ~walk.panics
    <3> HIDE DEF left, walk, new
    <3> QED BY <2>2, <2>3
  <2>4. Touched(mid, tc)
    BY <2>1 DEF Splits
  <2>5. Walked(walk, mid, Len(mid), tc)
    BY <2>4, <2>7, WalkDone
  <2> HIDE DEF walk, new
  <2>6. Flat(l)
    BY DEF l
  <2> QED BY <2>1, <2>5, <2>6, <2>7, Assembled DEF new, l
<1> QED BY <1>3, <1>4

-----------------------------------------------------------------------------
(* Sums over sets *)

Sums(sum, D, acc) ==
  /\ sum \in [SUBSET D -> Nat] /\ sum[{}] = 0
  /\ \A t \in SUBSET D : \A x \in t : sum[t] = acc[x] + sum[t \ {x}]

\* A sum that takes the elements in some order is the same in every order.
LEMMA SumsAre ==
  ASSUME NEW D, IsFiniteSet(D), NEW acc \in [D -> Nat], NEW pick, NEW sum,
         sum \in [SUBSET D -> Nat], sum[{}] = 0,
         \A t \in (SUBSET D) \ {{}} : pick[t] \in t /\ sum[t] = acc[pick[t]] + sum[t \ {pick[t]}]
  PROVE  Sums(sum, D, acc)
<1> DEFINE W == {t \in SUBSET D : \E x \in t : sum[t] # acc[x] + sum[t \ {x}]}
<1> SUFFICES ASSUME W # {} PROVE FALSE
  BY DEF Sums
<1>1. PICK t \in W : \A v \in W : v \subseteq t => v = t
  <2>1. W \in SUBSET SUBSET D
    OBVIOUS
  <2> HIDE DEF W
  <2> QED BY <2>1, SmallestSet
<1>2. PICK x \in t : sum[t] # acc[x] + sum[t \ {x}]
  OBVIOUS
<1> DEFINE y == pick[t]
           both == (t \ {x}) \ {y}
<1>3. t \in SUBSET D /\ t # {} /\ y \in t /\ sum[t] = acc[y] + sum[t \ {y}] /\ x # y
  BY <1>2
<1> HIDE DEF y
<1>4. sum[t \ {y}] = acc[x] + sum[(t \ {y}) \ {x}]
  <2>1. t \ {y} \notin W
    BY <1>1, <1>3
  <2> QED BY <1>2, <1>3, <2>1
<1>5. sum[t \ {x}] = acc[y] + sum[(t \ {x}) \ {y}]
  <2>1. t \ {x} \notin W
    BY <1>1, <1>2, <1>3
  <2> QED BY <1>2, <1>3, <2>1
<1>6. (t \ {y}) \ {x} = both
  OBVIOUS
<1>7. both \in SUBSET D
  BY <1>3
<1>8. acc[x] \in Nat /\ acc[y] \in Nat /\ sum[both] \in Nat
  <2> HIDE DEF both
  <2> QED BY <1>2, <1>3, <1>7
<1> HIDE DEF both
<1>9. sum[t] = acc[y] + (acc[x] + sum[both])
  BY <1>3, <1>4, <1>6
<1>10. sum[t \ {x}] = acc[y] + sum[both]
  BY <1>5 DEF both
<1> QED BY <1>2, <1>8, <1>9, <1>10

\* What MapThenSumSet takes the sum from.
AddsUp(h, D, acc) ==
  h = [s \in SUBSET D |->
         IF s = {} THEN 0 ELSE acc[CHOOSE x \in s : TRUE] + h[s \ {CHOOSE x \in s : TRUE}]]

LEMMA SumExists ==
  ASSUME NEW D, IsFiniteSet(D), NEW acc \in [D -> Nat]
  PROVE  \E h : AddsUp(h, D, acc)
<1> DEFINE pick == [t \in (SUBSET D) \ {{}} |-> CHOOSE x \in t : TRUE]
           step == [e \in D \X Nat |-> acc[e[1]] + e[2]]
<1>1. \A t \in (SUBSET D) \ {{}} : pick[t] = (CHOOSE x \in t : TRUE) /\ pick[t] \in t
  OBVIOUS
<1>2. step \in [D \X Nat -> Nat] /\ \A x \in D, n \in Nat : step[<<x, n>>] = acc[x] + n
  OBVIOUS
<1> HIDE DEF pick, step
<1>3. PICK h : IsFold(h, D, Nat, 0, pick, step)
  BY <1>1, <1>2, FoldExists
<1>4. h \in [SUBSET D -> Nat] /\ h[{}] = 0
  BY <1>3 DEF IsFold
<1>5. \A t \in (SUBSET D) \ {{}} : h[t] = acc[pick[t]] + h[t \ {pick[t]}]
  <2> SUFFICES ASSUME NEW t \in (SUBSET D) \ {{}} PROVE h[t] = acc[pick[t]] + h[t \ {pick[t]}]
    OBVIOUS
  <2>1. h[t] = step[<<pick[t], h[t \ {pick[t]}]>>]
    BY <1>3 DEF IsFold
  <2>2. pick[t] \in D /\ h[t \ {pick[t]}] \in Nat
    BY <1>1, <1>4
  <2> QED BY <1>2, <2>1, <2>2
<1>6. AddsUp(h, D, acc)
  BY <1>1, <1>4, <1>5 DEF AddsUp
<1> QED BY <1>6

LEMMA SumIsOne ==
  ASSUME NEW D, IsFiniteSet(D), NEW acc \in [D -> Nat], NEW h, AddsUp(h, D, acc)
  PROVE  Sums(h, D, acc)
<1> DEFINE pick == [t \in (SUBSET D) \ {{}} |-> CHOOSE x \in t : TRUE]
<1>1. \A t \in (SUBSET D) \ {{}} : pick[t] = (CHOOSE x \in t : TRUE) /\ pick[t] \in t
  OBVIOUS
<1> HIDE DEF pick
<1>3. h[{}] = 0 /\ \A t \in (SUBSET D) \ {{}} : h[t] = acc[pick[t]] + h[t \ {pick[t]}]
  BY <1>1 DEF AddsUp
<1>4. DOMAIN h = SUBSET D /\ h = [s \in SUBSET D |-> h[s]]
  BY DEF AddsUp
<1>5. \A s \in SUBSET D : h[s] \in Nat
  <2> SUFFICES ASSUME NEW s \in SUBSET D PROVE h[s] \in Nat
    OBVIOUS
  <2> DEFINE W == {t \in SUBSET D : h[t] \notin Nat}
  <2> SUFFICES ASSUME W # {} PROVE FALSE
    OBVIOUS
  <2>3. PICK t \in W : \A v \in W : v \subseteq t => v = t
    <3>1. W \in SUBSET SUBSET D
      OBVIOUS
    <3> HIDE DEF W
    <3> QED BY <3>1, SmallestSet
  <2>4. t # {} /\ t \in SUBSET D /\ h[t] \notin Nat
    <3>1. t \in SUBSET D /\ h[t] \notin Nat
      BY <2>3
    <3>2. h[{}] \in Nat
      BY <1>3
    <3> QED BY <3>1, <3>2
  <2>5. pick[t] \in t /\ h[t] = acc[pick[t]] + h[t \ {pick[t]}]
    BY <1>1, <1>3, <2>4
  <2>6. h[t \ {pick[t]}] \in Nat
    <3>1. t \ {pick[t]} \notin W
      BY <2>3, <2>5
    <3> QED BY <2>4, <3>1
  <2>7. acc[pick[t]] \in Nat
    BY <2>4, <2>5
  <2> QED BY <2>4, <2>5, <2>6, <2>7
<1>6. h \in [SUBSET D -> Nat]
  BY <1>4, <1>5
<1> QED BY <1>1, <1>3, <1>6, SumsAre

\* The accesses the trackers counted for a page are such a sum, over their counters of the page.
LEMMA CountedIsSum ==
  ASSUME NEW pid, NEW pg, NEW D, \A c : c \in D <=> c \in AllCounters /\ Covers(c[2], pid, pg),
         IsFiniteSet(D), NEW acc \in [D -> Nat], \A c \in D : acc[c] = c[2].accesses
  PROVE  \E sum : Sums(sum, D, acc) /\ AccessesCounted(pid, pg) = sum[D]
<1> DEFINE f(g) == [s \in SUBSET D |-> IF s = {} THEN 0
                      ELSE (CHOOSE x \in s : TRUE)[2].accesses + g[s \ {CHOOSE x \in s : TRUE}]]
           e(g) == [s \in SUBSET D |-> IF s = {} THEN 0
                      ELSE acc[CHOOSE x \in s : TRUE] + g[s \ {CHOOSE x \in s : TRUE}]]
           fold == CHOOSE g : g = f(g)
<1>1. AccessesCounted(pid, pg) = fold[D]
  <2>1. D = {c \in AllCounters : Covers(c[2], pid, pg)}
    OBVIOUS
  <2> HIDE DEF fold
  <2>2. AccessesCounted(pid, pg) = fold[{c \in AllCounters : Covers(c[2], pid, pg)}]
    BY <2>1 DEF AccessesCounted, MapThenSumSet, MapThenFoldSet, fold
  <2> QED BY <2>1, <2>2
<1>2. \A g : f(g) = e(g)
  <2> SUFFICES ASSUME NEW g, NEW s \in (SUBSET D) \ {{}}
               PROVE  (CHOOSE x \in s : TRUE)[2].accesses = acc[CHOOSE x \in s : TRUE]
    OBVIOUS
  <2>1. (CHOOSE x \in s : TRUE) \in D
    OBVIOUS
  <2> QED BY <2>1
<1> HIDE DEF f
<1>3. \E h : h = f(h)
  <2>1. PICK h : AddsUp(h, D, acc)
    BY SumExists
  <2>2. h = e(h)
    BY <2>1 DEF AddsUp
  <2> QED BY <1>2, <2>2
<1>4. fold = f(fold)
  BY <1>3
<1> HIDE DEF fold
<1>5. AddsUp(fold, D, acc)
  BY <1>2, <1>4 DEF AddsUp
<1> QED BY <1>1, <1>5, SumIsOne

LEMMA ToldIsSum ==
  ASSUME NEW l, NEW pid, NEW pg, NEW D, \A i : i \in D <=> i \in DOMAIN l /\ Covers(l[i], pid, pg),
         IsFiniteSet(D), NEW acc \in [D -> Nat], \A i \in D : acc[i] = l[i].accesses
  PROVE  \E sum : Sums(sum, D, acc) /\ AccessesTold(l, pid, pg) = sum[D]
<1> DEFINE f(g) == [s \in SUBSET D |-> IF s = {} THEN 0
                      ELSE l[CHOOSE x \in s : TRUE].accesses + g[s \ {CHOOSE x \in s : TRUE}]]
           e(g) == [s \in SUBSET D |-> IF s = {} THEN 0
                      ELSE acc[CHOOSE x \in s : TRUE] + g[s \ {CHOOSE x \in s : TRUE}]]
           fold == CHOOSE g : g = f(g)
<1>1. AccessesTold(l, pid, pg) = fold[D]
  <2>1. D = {i \in DOMAIN l : Covers(l[i], pid, pg)}
    OBVIOUS
  <2> HIDE DEF fold
  <2>2. AccessesTold(l, pid, pg) = fold[{i \in DOMAIN l : Covers(l[i], pid, pg)}]
    BY <2>1 DEF AccessesTold, MapThenSumSet, MapThenFoldSet, fold
  <2> QED BY <2>1, <2>2
<1>2. \A g : f(g) = e(g)
  <2> SUFFICES ASSUME NEW g, NEW s \in (SUBSET D) \ {{}}
               PROVE  l[CHOOSE x \in s : TRUE].accesses = acc[CHOOSE x \in s : TRUE]
    OBVIOUS
  <2>1. (CHOOSE x \in s : TRUE) \in D
    OBVIOUS
  <2> QED BY <2>1
<1> HIDE DEF f
<1>3. \E h : h = f(h)
  <2>1. PICK h : AddsUp(h, D, acc)
    BY SumExists
  <2>2. h = e(h)
    BY <2>1 DEF AddsUp
  <2> QED BY <1>2, <2>2
<1>4. fold = f(fold)
  BY <1>3
<1> HIDE DEF fold
<1>5. AddsUp(fold, D, acc)
  BY <1>2, <1>4 DEF AddsUp
<1> QED BY <1>1, <1>5, SumIsOne

-----------------------------------------------------------------------------
(* Flattened *)

LEMMA FlattenedByWalk ==
  ASSUME NEW cl \in Seq(Counter)
  PROVE  \E w \in [0 .. Len(cl) -> Flats] :
            /\ w[0] = [tcs |-> <<>>, panics |-> FALSE] /\ w[Len(cl)] = Flattened(cl)
            /\ \A k \in 1 .. Len(cl) : w[k] = AddFlat(w[k - 1], cl[k])
<1> DEFINE n == Len(cl)
           base == [tcs |-> <<>>, panics |-> FALSE]
           step == [e \in (1 .. n) \X Flats |-> AddFlat(e[2], cl[e[1]])]
           f(g) == [s \in SUBSET DOMAIN cl |->
                      IF s = {} THEN base ELSE AddFlat(g[s \ {Max(s)}], cl[Max(s)])]
           fold == CHOOSE g : g = f(g)
<1>1. Flattened(cl) = fold[DOMAIN cl]
  BY DEF Flattened, FoldLeft, MapThenFoldSet
<1>2. n \in Nat /\ DOMAIN cl = 1 .. n /\ (\A i \in 1 .. n : cl[i] \in Counter)
  BY ListFields
<1>3. base \in Flats
  BY NoElement DEF Flats
<1>4. step \in [(1 .. n) \X Flats -> Flats]
  BY <1>2, AddFlatTyped
<1>5. \A i \in 1 .. n, x \in Flats : step[<<i, x>>] = AddFlat(x, cl[i])
  OBVIOUS
<1> HIDE DEF step, base, n
<1>6. \A t \in (SUBSET (1 .. n)) \ {{}} : Max(t) \in t /\ Max(t) \in 1 .. n
  BY <1>2, <1>3, <1>4, StepsOfList
<1>7. fold = f(fold)
  <2>1. PICK h : FoldOver(h, n, Flats, base, step)
    BY <1>2, <1>3, <1>4, StepsOfList
  <2>2. ASSUME NEW t \in (SUBSET (1 .. n)) \ {{}}
        PROVE  h[t] = AddFlat(h[t \ {Max(t)}], cl[Max(t)])
    <3>1. h[t \ {Max(t)}] \in Flats /\ Max(t) \in 1 .. n
      BY <1>6, <2>1 DEF FoldOver
    <3> QED BY <1>5, <2>1, <3>1 DEF FoldOver
  <2>3. h = f(h)
    BY <1>2, <2>1, <2>2 DEF FoldOver
  <2> QED BY <2>3
<1> HIDE DEF fold
<1>8. fold[{}] = base
  BY <1>2, <1>7
<1>9. ASSUME NEW t \in (SUBSET (1 .. n)) \ {{}}, fold[t \ {Max(t)}] \in Flats
      PROVE  fold[t] = step[<<Max(t), fold[t \ {Max(t)}]>>]
  <2>1. fold[t] = AddFlat(fold[t \ {Max(t)}], cl[Max(t)])
    BY <1>2, <1>7
  <2> QED BY <1>5, <1>6, <1>9, <2>1
<1> HIDE DEF f
<1>10. PICK w : WalkAlong(w, n, Flats, fold, step)
  <2>1. fold[{}] \in Flats
    BY <1>3, <1>8
  <2> QED BY <1>2, <1>4, <1>9, <2>1, FoldIsWalk
<1>11. \A k \in 1 .. n : w[k] = AddFlat(w[k - 1], cl[k])
  <2> SUFFICES ASSUME NEW k \in 1 .. n PROVE w[k] = AddFlat(w[k - 1], cl[k])
    OBVIOUS
  <2>1. w[k - 1] \in Flats
    BY <1>2, <1>10 DEF WalkAlong
  <2> QED BY <1>5, <1>10, <2>1 DEF WalkAlong
<1> QED BY <1>1, <1>2, <1>8, <1>10, <1>11 DEF n, base, WalkAlong

\* s[k]: the accesses of a page that the first k counters of a list tell of.
RunningSum(s, cl, pid, pg) ==
  /\ s \in [0 .. Len(cl) -> Nat] /\ s[0] = 0
  /\ \A k \in 1 .. Len(cl) :
        s[k] = s[k - 1] + (IF Covers(cl[k], pid, pg) THEN cl[k].accesses ELSE 0)

\* What the flat list is after k counters.
FlatAfter(l, cl, k) ==
  /\ Flat(l)
  /\ \A x \in ToSet(l) : \E i \in 1 .. k : x.pid = cl[i].pid
  /\ \A x \in ToSet(l) : \A pg \in PagesIn(x) : \E i \in 1 .. k : pg \in PagesIn(cl[i])
  /\ \A pid, s : \A pg \in Int : RunningSum(s, cl, pid, pg) => Tells(l, pid, pg, s[k])

LEMMA FlattenedIs ==
  ASSUME NEW cl \in Seq(Counter), \A i \in DOMAIN cl : cl[i].length > 0,
         \A i, j \in DOMAIN cl : i < j => cl[i].pid <= cl[j].pid, ~Flattened(cl).panics
  PROVE  FlatAfter(Flattened(cl).tcs, cl, Len(cl)) /\ Flattened(cl).tcs \in Seq(Counter)
<1> DEFINE n == Len(cl)
<1>1. n \in Nat /\ DOMAIN cl = 1 .. n /\ (\A i \in 1 .. n : cl[i] \in Counter)
  BY ListFields
<1>2. PICK w \in [0 .. n -> Flats] :
        /\ w[0] = [tcs |-> <<>>, panics |-> FALSE] /\ w[n] = Flattened(cl)
        /\ \A k \in 1 .. n : w[k] = AddFlat(w[k - 1], cl[k])
  BY FlattenedByWalk
<1> HIDE DEF n
<1> DEFINE K == {k \in 0 .. n : ~w[k].panics => FlatAfter(w[k].tcs, cl, k)}
<1>3. 0 \in K
  <2>1. w[0].tcs = <<>> /\ ToSet(<<>>) = {} /\ Chain(<<>>, Ahead) /\ <<>> \in Seq(Counter)
    BY <1>2, NoElement
  <2>2. Flat(<<>>)
    BY <2>1 DEF Flat
  <2>3. \A pid, s : \A pg \in Int : RunningSum(s, cl, pid, pg) => Tells(<<>>, pid, pg, s[0])
    BY <2>1 DEF RunningSum, Tells
  <2> QED BY <1>1, <2>1, <2>2, <2>3 DEF FlatAfter
<1>4. ASSUME NEW k \in 1 .. n, k - 1 \in K PROVE k \in K
  <2> SUFFICES ASSUME ~w[k].panics PROVE FlatAfter(w[k].tcs, cl, k)
    BY <1>1
  <2> DEFINE l == w[k - 1].tcs
             new == w[k].tcs
  <2>1. /\ w[k - 1] \in Flats /\ w[k] = AddFlat(w[k - 1], cl[k]) /\ cl[k] \in Counter /\ k - 1 \in 0 .. n
        /\ 1 .. k = (1 .. (k - 1)) \cup {k} /\ cl[k].length > 0
    <3>1. k - 1 \in 0 .. n /\ k \in DOMAIN cl
      BY <1>1
    <3>2. 1 .. k = (1 .. (k - 1)) \cup {k}
      BY <1>1
    <3> QED BY <1>1, <1>2, <3>1, <3>2
  <2>2. ~w[k - 1].panics
    BY <2>1, AddFlatTyped
  <2>3. FlatAfter(l, cl, k - 1)
    BY <1>4, <2>2
  <2>4. \A x \in ToSet(l) : x.pid <= cl[k].pid
    <3> SUFFICES ASSUME NEW i \in 1 .. (k - 1) PROVE cl[i].pid <= cl[k].pid
      BY <2>3 DEF FlatAfter
    <3>1. i \in DOMAIN cl /\ k \in DOMAIN cl /\ i < k
      BY <1>1
    <3> QED BY <3>1
  <2>5. Flat(l)
    BY <2>3 DEF FlatAfter
  <2>6. Adds(l, cl[k], new)
    BY <2>1, <2>4, <2>5, AddFlatAdds
  <2> HIDE DEF l, new
  <2>7. \A x \in ToSet(new) : \E i \in 1 .. k : x.pid = cl[i].pid
    BY <2>1, <2>3, <2>6 DEF Adds, FlatAfter
  <2>8. \A x \in ToSet(new) : \A pg \in PagesIn(x) : \E i \in 1 .. k : pg \in PagesIn(cl[i])
    BY <2>1, <2>3, <2>6 DEF Adds, FlatAfter
  <2>9. ASSUME NEW pid, NEW s, NEW pg \in Int, RunningSum(s, cl, pid, pg)
        PROVE  Tells(new, pid, pg, s[k])
    <3>1. Tells(l, pid, pg, s[k - 1])
      BY <2>3, <2>9 DEF FlatAfter
    <3>2. s[k - 1] \in Nat /\ s[k] = s[k - 1] + (IF Covers(cl[k], pid, pg) THEN cl[k].accesses ELSE 0)
      BY <2>1, <2>9 DEF RunningSum, n
    <3> QED BY <2>6, <3>1, <3>2 DEF Adds
  <2> QED BY <2>6, <2>7, <2>8, <2>9 DEF Adds, FlatAfter, new
<1>5. n \in K
  <2> HIDE DEF K
  <2>1. K \in SUBSET (0 .. n)
    BY DEF K
  <2> QED BY <1>1, <1>3, <1>4, <2>1, Upwards
<1>6. w[n] \in Flats
  BY <1>1, <1>2
<1> QED BY <1>2, <1>5, <1>6 DEF n, Flats

-----------------------------------------------------------------------------
(* The counters of the trackers, sorted *)

\* What the trackers count: of each tracker finitely many counters, none of them empty.
Counted ==
  /\ counters \in [DOMAIN Trackers -> SUBSET Counter]
  /\ \A i \in DOMAIN Trackers : IsFiniteSet(counters[i])
  /\ \A i \in DOMAIN Trackers : \A tc \in counters[i] :
        tc.length > 0 /\ PagesIn(tc) \subseteq AllPages /\ tc.accesses \in 0 .. MaxCount

LEMMA AllCountersAre ==
  ASSUME Counted
  PROVE  IsFiniteSet(AllCounters) /\ \A c \in AllCounters :
            c[2] \in Counter /\ c[2].length > 0 /\ PagesIn(c[2]) \subseteq AllPages
<1> DEFINE of == [i \in DOMAIN Trackers |-> {i} \X counters[i]]
           S == {{i} \X counters[i] : i \in DOMAIN Trackers}
<1>1. IsFiniteSet(DOMAIN Trackers)
  BY ConstantsAssumption
<1>2. of \in Surjection(DOMAIN Trackers, S)
  BY DEF Surjection
<1>3. IsFiniteSet(S)
  <2> HIDE DEF of, S
  <2> QED BY <1>1, <1>2, FS_Surjection
<1>4. \A T \in S : IsFiniteSet(T)
  <2> SUFFICES ASSUME NEW i \in DOMAIN Trackers PROVE IsFiniteSet({i} \X counters[i])
    OBVIOUS
  <2>1. IsFiniteSet({i}) /\ IsFiniteSet(counters[i])
    BY FS_Singleton DEF Counted
  <2> QED BY <2>1, FS_Product
<1>5. IsFiniteSet(AllCounters)
  <2>1. AllCounters = UNION S
    BY DEF AllCounters
  <2> HIDE DEF S
  <2> QED BY <1>3, <1>4, <2>1, FS_UNION
<1>6. ASSUME NEW c \in AllCounters
      PROVE  c[2] \in Counter /\ c[2].length > 0 /\ PagesIn(c[2]) \subseteq AllPages
  <2>1. PICK i \in DOMAIN Trackers : c \in {i} \X counters[i]
    BY DEF AllCounters
  <2> QED BY <2>1 DEF Counted
<1> QED BY <1>5, <1>6

LEMMA SortedCounters ==
  ASSUME Counted, NEW list \in SortByAddr(AllCounters)
  PROVE  LET cl == [k \in DOMAIN list |-> list[k][2]] IN
         /\ cl \in Seq(Counter) /\ DOMAIN list = 1 .. Len(cl)
         /\ \A i \in DOMAIN cl : cl[i].length > 0 /\ PagesIn(cl[i]) \subseteq AllPages
         /\ \A i, j \in DOMAIN cl : i < j => cl[i].pid <= cl[j].pid
         /\ \A i \in DOMAIN list : list[i] \in AllCounters
         /\ \A c \in AllCounters : \E i \in DOMAIN list : c = list[i]
         /\ \A i, j \in DOMAIN list : list[i] = list[j] => i = j
<1> DEFINE n == Cardinality(AllCounters)
           cl == [k \in DOMAIN list |-> list[k][2]]
<1>1. IsFiniteSet(AllCounters) /\ n \in Nat
  BY AllCountersAre, FS_CardinalityType
<1>2. /\ list \in [1 .. n -> AllCounters] /\ DOMAIN list = 1 .. n
      /\ \A i, j \in 1 .. n : i < j => list[i] # list[j] /\ ~ComesBefore(list[j][2], list[i][2])
  BY DEF SortByAddr
<1> HIDE DEF n
<1>3. \A i, j \in 1 .. n : list[i] = list[j] => i = j
  <2> SUFFICES ASSUME NEW i \in 1 .. n, NEW j \in 1 .. n, i # j PROVE list[i] # list[j]
    OBVIOUS
  <2>1. i < j \/ j < i
    BY <1>1
  <2> QED BY <1>2, <2>1
<1>4. \A c \in AllCounters : \E i \in 1 .. n : c = list[i]
  <2>1. list \in Injection(1 .. n, AllCounters)
    BY <1>2, <1>3 DEF Injection, IsInjective
  <2>2. Cardinality(1 .. n) = n
    BY <1>1, FS_Interval
  <2>3. list \in Surjection(1 .. n, AllCounters)
    BY <1>1, <2>1, <2>2, FS_Injection DEF n
  <2> QED BY <2>3 DEF Surjection
<1>5. \A k \in 1 .. n : cl[k] = list[k][2] /\ cl[k] \in Counter /\ cl[k].length > 0 /\ PagesIn(cl[k]) \subseteq AllPages
  BY <1>2, AllCountersAre
<1>6. cl \in Seq(Counter) /\ Len(cl) = n /\ DOMAIN cl = 1 .. n
  <2>1. cl \in [1 .. n -> Counter]
    BY <1>2, <1>5
  <2> HIDE DEF cl
  <2> QED BY <1>1, <2>1
<1>7. \A i, j \in 1 .. n : i < j => cl[i].pid <= cl[j].pid
  <2> SUFFICES ASSUME NEW i \in 1 .. n, NEW j \in 1 .. n, i < j PROVE cl[i].pid <= cl[j].pid
    OBVIOUS
  <2>1. ~ComesBefore(cl[j], cl[i]) /\ cl[i] \in Counter /\ cl[j] \in Counter
    BY <1>2, <1>5
  <2> HIDE DEF cl
  <2>2. cl[i].pid \in Nat /\ cl[j].pid \in Nat
    BY <2>1, CounterFields
  <2> QED BY <2>1, <2>2 DEF ComesBefore
<1> HIDE DEF cl
<1> QED BY <1>2, <1>3, <1>4, <1>5, <1>6, <1>7 DEF cl

\* A flat list has at most one counter of a page.
LEMMA ToldOf ==
  ASSUME NEW l \in Seq(Counter), Chain(l, Ahead), NEW pid, NEW pg, NEW n \in Nat, Tells(l, pid, pg, n)
  PROVE  AccessesTold(l, pid, pg) = n
<1> DEFINE T == {i \in DOMAIN l : Covers(l[i], pid, pg)}
           acd == [i \in T |-> l[i].accesses]
<1>1. IsFiniteSet(T)
  <2>1. IsFiniteSet(DOMAIN l)
    BY ListFields, FS_Interval
  <2> QED BY <2>1, FS_Subset
<1>2. acd \in [T -> Nat] /\ \A i \in T : acd[i] = l[i].accesses /\ l[i] \in ToSet(l)
  <2>1. \A i \in T : l[i].accesses \in Nat /\ l[i] \in ToSet(l)
    BY ListFields, CounterFields
  <2> QED BY <2>1
<1> HIDE DEF acd
<1>3. PICK told : Sums(told, T, acd) /\ AccessesTold(l, pid, pg) = told[T]
  <2>1. \A i : i \in T <=> i \in DOMAIN l /\ Covers(l[i], pid, pg)
    OBVIOUS
  <2>2. acd \in [T -> Nat] /\ \A i \in T : acd[i] = l[i].accesses
    BY <1>2
  <2> HIDE DEF T
  <2> QED BY <1>1, <2>1, <2>2, ToldIsSum
<1>4. CASE T = {}
  <2>1. AccessesTold(l, pid, pg) = 0
    BY <1>3, <1>4 DEF Sums
  <2>2. ~\E x \in ToSet(l) : Covers(x, pid, pg)
    BY <1>4, ListFields
  <2>3. n = 0
    BY <2>2 DEF Tells
  <2> QED BY <2>1, <2>3
<1>5. ASSUME NEW i \in T PROVE AccessesTold(l, pid, pg) = n
  <2>1. ASSUME NEW j \in T, NEW k \in T, j < k PROVE FALSE
    <3>1. /\ l[j] \in Counter /\ l[k] \in Counter /\ l[j].pid = l[k].pid
          /\ pg \in PagesIn(l[j]) /\ pg \in PagesIn(l[k])
      BY ListFields DEF Covers
    <3>2. <<l[j], l[k]>> \in Ahead
      BY <2>1 DEF Chain
    <3>3. EndAddr(l[j]) <= l[k].addr
      <4>1. l[j].pid \in Nat
        BY <3>1, CounterFields
      <4> QED BY <3>1, <3>2, <4>1, AheadIs
    <3>4. pg < EndAddr(l[j]) /\ l[k].addr <= pg /\ pg \in Int /\ EndAddr(l[j]) \in Int /\ l[k].addr \in Int
      BY <3>1, CounterFields
    <3> QED BY <3>3, <3>4
  <2>2. T \subseteq Nat
    BY ListFields
  <2>3. \A j \in T : j = i
    <3> SUFFICES ASSUME NEW j \in T, j # i PROVE FALSE
      OBVIOUS
    <3>1. j < i \/ i < j
      BY <2>2
    <3> QED BY <2>1, <3>1
  <2> HIDE DEF T
  <2>4. T \ {i} = {}
    BY <2>3
  <2>5. told[T] = acd[i] + told[{}] /\ told[{}] = 0
    BY <1>3, <2>4 DEF Sums
  <2>6. acd[i] \in Nat /\ acd[i] = n
    BY <1>2 DEF Tells, T
  <2> QED BY <1>3, <2>5, <2>6
<1> QED BY <1>4, <1>5

\* What GetCounters returns of counters that did not make the assertion fail.
LEMMA SquashedIs ==
  ASSUME Counted, NEW list \in SortByAddr(AllCounters), NEW cl, cl = [k \in DOMAIN list |-> list[k][2]],
         ~Flattened(cl).panics, NEW l, l = Flattened(cl).tcs
  PROVE  /\ l \in Seq(Counter) /\ Flat(l) /\ \A x \in ToSet(l) : PagesIn(x) \subseteq AllPages
         /\ \A pid \in Pids, pg \in AllPages : AccessesTold(l, pid, pg) = AccessesCounted(pid, pg)
<1> DEFINE n == Len(cl)
<1>1. /\ cl \in Seq(Counter) /\ DOMAIN list = 1 .. n
      /\ \A i \in DOMAIN cl : cl[i].length > 0 /\ PagesIn(cl[i]) \subseteq AllPages
      /\ \A i, j \in DOMAIN cl : i < j => cl[i].pid <= cl[j].pid
      /\ \A i \in DOMAIN list : list[i] \in AllCounters
      /\ \A c \in AllCounters : \E i \in DOMAIN list : c = list[i]
      /\ \A i, j \in DOMAIN list : list[i] = list[j] => i = j
  BY SortedCounters
<1>2. n \in Nat /\ DOMAIN cl = 1 .. n /\ \A i \in 1 .. n : cl[i] \in Counter
  BY <1>1, ListFields
<1>3. FlatAfter(l, cl, n) /\ l \in Seq(Counter)
  BY <1>1, FlattenedIs
<1>4. \A k \in 1 .. n : cl[k] = list[k][2]
  BY <1>1
<1> HIDE DEF n
<1>5. \A x \in ToSet(l) : PagesIn(x) \subseteq AllPages
  <2> SUFFICES ASSUME NEW x \in ToSet(l), NEW pg \in PagesIn(x) PROVE pg \in AllPages
    OBVIOUS
  <2>1. PICK i \in 1 .. n : pg \in PagesIn(cl[i])
    BY <1>3 DEF FlatAfter
  <2> QED BY <1>1, <1>2, <2>1
<1>6. ASSUME NEW pid \in Pids, NEW pg \in AllPages
      PROVE  AccessesTold(l, pid, pg) = AccessesCounted(pid, pg)
  <2> DEFINE D == {c \in AllCounters : Covers(c[2], pid, pg)}
             acc == [c \in D |-> c[2].accesses]
             upto(k) == {list[i] : i \in 1 .. k} \cap D
  <2>1. IsFiniteSet(D)
    BY AllCountersAre, FS_Subset
  <2>2. acc \in [D -> Nat] /\ \A c \in D : acc[c] = c[2].accesses
    <3>1. \A c \in D : c[2].accesses \in Nat
      BY AllCountersAre, CounterFields
    <3> QED BY <3>1
  <2> HIDE DEF acc
  <2>3. PICK sum : Sums(sum, D, acc) /\ AccessesCounted(pid, pg) = sum[D]
    <3>1. \A c : c \in D <=> c \in AllCounters /\ Covers(c[2], pid, pg)
      OBVIOUS
    <3> HIDE DEF D
    <3> QED BY <2>1, <2>2, <3>1, CountedIsSum
  <2> DEFINE s == [k \in 0 .. n |-> sum[upto(k)]]
  <2>4. pg \in Int
    BY ConstantsAssumption
  <2>5. RunningSum(s, cl, pid, pg)
    <3>1. \A k \in 0 .. n : upto(k) \in SUBSET D /\ sum[upto(k)] \in Nat
      BY <2>3 DEF Sums
    <3>2. s[0] = 0
      <4>1. upto(0) = {} /\ 0 \in 0 .. n
        BY <1>2
      <4> QED BY <2>3, <4>1 DEF Sums
    <3>3. ASSUME NEW k \in 1 .. n
          PROVE  s[k] = s[k - 1] + (IF Covers(cl[k], pid, pg) THEN cl[k].accesses ELSE 0)
      <4>1. k - 1 \in 0 .. n /\ k \in 0 .. n /\ 1 .. k = (1 .. (k - 1)) \cup {k} /\ k \notin 1 .. (k - 1)
            /\ 1 .. (k - 1) \subseteq 1 .. n
        <5>1. k \in Nat /\ k >= 1 /\ k <= n
          BY <1>2
        <5> QED BY <1>2, <5>1
      <4>2. list[k] \notin upto(k - 1)
        BY <1>1, <4>1
      <4>3. CASE Covers(cl[k], pid, pg)
        <5>1. list[k] \in D
          BY <1>1, <1>4, <4>3
        <5>2. upto(k) \ {list[k]} = upto(k - 1) /\ list[k] \in upto(k)
          BY <4>1, <4>2, <5>1
        <5>3. acc[list[k]] = cl[k].accesses
          BY <1>4, <2>2, <5>1
        <5> HIDE DEF upto
        <5>4. sum[upto(k)] = cl[k].accesses + sum[upto(k - 1)]
          BY <2>3, <3>1, <4>1, <5>2, <5>3 DEF Sums
        <5>5. cl[k].accesses \in Nat
          BY <1>2, CounterFields
        <5> QED BY <3>1, <4>1, <4>3, <5>4, <5>5
      <4>4. CASE ~Covers(cl[k], pid, pg)
        <5>1. list[k] \notin D
          BY <1>4, <4>4
        <5>2. upto(k) = upto(k - 1)
          BY <4>1, <5>1
        <5> HIDE DEF upto
        <5> QED BY <3>1, <4>1, <4>4, <5>2
      <4> QED BY <4>3, <4>4
    <3> HIDE DEF upto
    <3>4. s \in [0 .. n -> Nat]
      BY <3>1
    <3> HIDE DEF s
    <3> QED BY <3>2, <3>3, <3>4 DEF RunningSum, n
  <2>6. s[n] = AccessesCounted(pid, pg)
    <3>1. upto(n) = D
      BY <1>1
    <3> HIDE DEF upto, D
    <3> QED BY <1>2, <2>3, <3>1
  <2> HIDE DEF s
  <2>7. Tells(l, pid, pg, AccessesCounted(pid, pg))
    BY <1>3, <2>4, <2>5, <2>6 DEF FlatAfter
  <2>8. AccessesCounted(pid, pg) \in Nat
    <3>1. D \in SUBSET D
      OBVIOUS
    <3> HIDE DEF D
    <3> QED BY <2>3, <3>1 DEF Sums
  <2>9. Chain(l, Ahead)
    BY <1>3 DEF FlatAfter, Flat
  <2> QED BY <1>3, <2>7, <2>8, <2>9, ToldOf
<1> QED BY <1>3, <1>5, <1>6 DEF FlatAfter

-----------------------------------------------------------------------------
(* The ranges of the heatmap *)

HR == [addr : Int, length : Int, heat : 0 .. HeatMax, updated : 0 .. MaxTime]

\* One range ends before the other starts.
Before == {p \in HR \X HR : EndAddr(p[1]) <= p[2].addr}

LEMMA BeforeIs ==
  ASSUME NEW x \in HR, NEW y \in HR
  PROVE  <<x, y>> \in Before <=> EndAddr(x) <= y.addr
  BY DEF Before

LEMMA HRFields ==
  ASSUME NEW x \in HR
  PROVE  /\ x.addr \in Int /\ x.length \in Int /\ x.heat \in 0 .. HeatMax /\ x.updated \in 0 .. MaxTime
         /\ EndAddr(x) = x.addr + x.length /\ EndAddr(x) \in Int
         /\ \A pg : pg \in PagesIn(x) <=> pg \in Int /\ x.addr <= pg /\ pg < EndAddr(x)
<1>1. x.addr \in Int /\ x.length \in Int /\ x.heat \in 0 .. HeatMax /\ x.updated \in 0 .. MaxTime
  BY DEF HR
<1>2. EndAddr(x) = x.addr + x.length /\ EndAddr(x) \in Int
  BY <1>1 DEF EndAddr
<1>3. PagesIn(x) = x.addr .. (EndAddr(x) - 1)
  BY DEF PagesIn
<1>4. \A pg : pg \in PagesIn(x) <=> pg \in Int /\ x.addr <= pg /\ pg < EndAddr(x)
  BY <1>1, <1>2, <1>3
<1> QED BY <1>1, <1>2, <1>4

\* The heat of a page of range y that a counter with the heat of thr covers.
NewHeat(y, thr) == AtMost(HeatMax, thr.heat + Cooled(y.heat, Seconds(y.updated, thr.updated)))

LEMMA NewHeatTyped ==
  ASSUME NEW y \in HR, NEW thr \in HR
  PROVE  NewHeat(y, thr) \in 0 .. HeatMax
<1>1. /\ y.heat \in 0 .. HeatMax /\ y.updated \in 0 .. MaxTime /\ thr.heat \in 0 .. HeatMax
      /\ thr.updated \in 0 .. MaxTime /\ MaxTime \in Nat /\ HeatMax \in Nat
  BY HRFields, ConstantsAssumption, HeatMaxAssumption
<1>2. Seconds(y.updated, thr.updated) \in 0 .. MaxTime
  BY <1>1 DEF Seconds
<1>3. Cooled(y.heat, Seconds(y.updated, thr.updated)) \in Nat
  BY <1>1, <1>2, ConstantsAssumption
<1> DEFINE n == thr.heat + Cooled(y.heat, Seconds(y.updated, thr.updated))
<1>4. n \in Nat
  BY <1>1, <1>3
<1> HIDE DEF n
<1>5. AtMost(HeatMax, n) \in 0 .. HeatMax
  BY <1>1, <1>4 DEF AtMost
<1> QED BY <1>5 DEF NewHeat, n

\* A range with the heat of y from one address to another.
Stretch(x, y, from, to) ==
  /\ x \in HR /\ x.addr = from /\ EndAddr(x) = to /\ x.length = to - from
  /\ x.heat = y.heat /\ x.updated = y.updated

LEMMA PartIs ==
  ASSUME NEW y \in HR, NEW from \in Int, NEW to \in Int
  PROVE  /\ Part(y, from, to) \in Seq(HR) /\ Chain(Part(y, from, to), Before)
         /\ ToSet(Part(y, from, to)) # {} <=> from < to
         /\ \A x \in ToSet(Part(y, from, to)) : Stretch(x, y, from, to)
<1> DEFINE x == [y EXCEPT !.addr = from, !.length = to - from]
           part == Part(y, from, to)
<1>1. to - from \in Int /\ from + (to - from) = to
  OBVIOUS
<1>2. Stretch(x, y, from, to)
  BY <1>1 DEF Stretch, HR, EndAddr
<1>3. part = IF from < to THEN <<x>> ELSE <<>>
  BY DEF Part
<1> HIDE DEF x, part
<1>4. x \in HR
  BY <1>2 DEF Stretch
<1>5. CASE from < to
  <2> DEFINE one == <<x>>
  <2>1. part = one
    BY <1>3, <1>5
  <2>2. one \in Seq(HR) /\ Chain(one, Before) /\ ToSet(one) = {x}
    BY <1>4, OneElement
  <2> HIDE DEF one
  <2> QED BY <1>2, <1>5, <2>1, <2>2 DEF part
<1>6. CASE ~(from < to)
  <2>1. part = <<>>
    BY <1>3, <1>6
  <2> QED BY <1>6, <2>1, NoElement DEF part
<1> QED BY <1>5, <1>6

\* The common part of hr and thr, heated.
LEMMA HeatedCommon ==
  ASSUME NEW hr \in HR, NEW thr \in HR
  PROVE  LET c == Heated(Common(hr, thr), thr) IN
         /\ c \in HR /\ c.addr = Later(hr.addr, thr.addr)
         /\ EndAddr(c) = Earlier(EndAddr(hr), EndAddr(thr))
         /\ c.length = Earlier(EndAddr(hr), EndAddr(thr)) - Later(hr.addr, thr.addr)
         /\ c.heat = NewHeat(hr, thr) /\ c.updated = thr.updated
<1> DEFINE from == Later(hr.addr, thr.addr)
           to == Earlier(EndAddr(hr), EndAddr(thr))
           m == Common(hr, thr)
           c == Heated(m, thr)
<1>1. from \in Int /\ to \in Int
  <2>1. hr.addr \in Int /\ thr.addr \in Int /\ EndAddr(hr) \in Int /\ EndAddr(thr) \in Int
    BY HRFields
  <2> QED BY <2>1 DEF Later, Earlier
<1>2. m = [hr EXCEPT !.addr = from, !.length = to - from]
  BY DEF Common
<1> HIDE DEF from, to, m
<1>3. to - from \in Int /\ from + (to - from) = to
  BY <1>1
<1>4. m \in HR /\ m.addr = from /\ m.length = to - from /\ m.heat = hr.heat /\ m.updated = hr.updated
  BY <1>1, <1>2, <1>3 DEF HR
<1>5. c = [m EXCEPT !.heat = NewHeat(m, thr), !.updated = thr.updated]
  BY DEF Heated, NewHeat
<1>6. NewHeat(m, thr) = NewHeat(hr, thr) /\ NewHeat(hr, thr) \in 0 .. HeatMax
  BY <1>4, NewHeatTyped DEF NewHeat
<1>7. thr.updated \in 0 .. MaxTime
  BY HRFields
<1> HIDE DEF c
<1>8. /\ c \in HR /\ c.addr = from /\ c.length = to - from /\ c.heat = NewHeat(hr, thr)
      /\ c.updated = thr.updated
  BY <1>4, <1>5, <1>6, <1>7 DEF HR
<1>9. EndAddr(c) = to
  BY <1>3, <1>8 DEF EndAddr
<1> QED BY <1>8, <1>9 DEF from, to, m, c

HeatWalks == [hrs : Seq(HR), thr : HR]

\* What HeatOne makes of a range that thr overlaps with: B is what is left of it before thr,
\* G the gap between the start of thr and the range, c the common part, A the rest behind thr.
HeatPieces(pieces, B, G, c, A, hr, thr) ==
  /\ pieces \in Seq(HR) /\ Chain(pieces, Before) /\ c \in HR
  /\ ToSet(pieces) = B \cup G \cup {c} \cup A
  /\ B # {} <=> hr.addr < thr.addr
  /\ G # {} <=> thr.addr < hr.addr
  /\ A # {} <=> EndAddr(thr) < EndAddr(hr)
  /\ \A x \in B : Stretch(x, hr, hr.addr, thr.addr)
  /\ \A x \in G : Stretch(x, thr, thr.addr, hr.addr)
  /\ \A x \in A : Stretch(x, hr, EndAddr(thr), EndAddr(hr))
  /\ c.addr = Later(hr.addr, thr.addr) /\ EndAddr(c) = Earlier(EndAddr(hr), EndAddr(thr))
  /\ c.length = Earlier(EndAddr(hr), EndAddr(thr)) - Later(hr.addr, thr.addr)
  /\ c.heat = NewHeat(hr, thr) /\ c.updated = thr.updated

LEMMA JoinedAgain ==
  \A s, t, u \in Seq(HR) : (s \o t) \o u = s \o (t \o u)
<1> SUFFICES ASSUME NEW s \in Seq(HR), NEW t \in Seq(HR), NEW u \in Seq(HR)
             PROVE  (s \o t) \o u = s \o (t \o u)
  OBVIOUS
<1> QED OBVIOUS

LEMMA HeatPiecesOf ==
  ASSUME NEW hr \in HR, NEW thr \in HR,
         hr.addr < EndAddr(thr), thr.addr < EndAddr(hr), hr.addr < EndAddr(hr), thr.addr < EndAddr(thr)
  PROVE  LET front == Part(hr, hr.addr, thr.addr)
             gap == Part(thr, thr.addr, hr.addr)
             c == Heated(Common(hr, thr), thr)
             back == Part(hr, EndAddr(thr), EndAddr(hr))
         IN /\ HeatPieces(front \o gap \o <<c>> \o back, ToSet(front), ToSet(gap), c, ToSet(back), hr, thr)
            /\ \A hrs \in Seq(HR) :
                 hrs \o front \o gap \o <<c>> \o back = hrs \o (front \o gap \o <<c>> \o back)
            /\ Past(thr, hr) \in HR
<1> DEFINE front == Part(hr, hr.addr, thr.addr)
           gap == Part(thr, thr.addr, hr.addr)
           c == Heated(Common(hr, thr), thr)
           one == <<c>>
           back == Part(hr, EndAddr(thr), EndAddr(hr))
           from == Later(hr.addr, thr.addr)
           to == Earlier(EndAddr(hr), EndAddr(thr))
           pieces == front \o gap \o one \o back
           B == ToSet(front)
           G == ToSet(gap)
           A == ToSet(back)
<1>2. hr.addr \in Int /\ thr.addr \in Int /\ EndAddr(hr) \in Int /\ EndAddr(thr) \in Int
  BY HRFields
<1>3. /\ from \in Int /\ to \in Int /\ from < to /\ hr.addr <= from /\ thr.addr <= from
      /\ to <= EndAddr(hr) /\ to <= EndAddr(thr) /\ (from = hr.addr \/ from = thr.addr)
  BY <1>2 DEF Later, Earlier
<1>4. /\ front \in Seq(HR) /\ Chain(front, Before) /\ (B # {} <=> hr.addr < thr.addr)
      /\ \A x \in B : Stretch(x, hr, hr.addr, thr.addr)
  BY <1>2, PartIs
<1>5. /\ gap \in Seq(HR) /\ Chain(gap, Before) /\ (G # {} <=> thr.addr < hr.addr)
      /\ \A x \in G : Stretch(x, thr, thr.addr, hr.addr)
  BY <1>2, PartIs
<1>6. /\ back \in Seq(HR) /\ Chain(back, Before) /\ (A # {} <=> EndAddr(thr) < EndAddr(hr))
      /\ \A x \in A : Stretch(x, hr, EndAddr(thr), EndAddr(hr))
  BY <1>2, PartIs
<1>7. /\ c \in HR /\ c.addr = from /\ EndAddr(c) = to /\ c.length = to - from
      /\ c.heat = NewHeat(hr, thr) /\ c.updated = thr.updated
  BY HeatedCommon
<1> HIDE DEF c, from, to
<1>8. one \in Seq(HR) /\ Chain(one, Before) /\ ToSet(one) = {c}
  BY <1>7, OneElement
<1> HIDE DEF front, gap, one, back
<1> DEFINE two == front \o gap
           three == two \o one
<1>9. two \in Seq(HR) /\ ToSet(two) = B \cup G /\ Chain(two, Before)
  <2>1. \A x \in ToSet(front), y \in ToSet(gap) : <<x, y>> \in Before
    BY <1>2, <1>4, <1>5
  <2>2. two \in Seq(HR) /\ ToSet(two) = B \cup G
    BY <1>4, <1>5, Joining
  <2> QED BY <1>4, <1>5, <2>1, <2>2, JoinedChain
<1> HIDE DEF two
<1>10. three \in Seq(HR) /\ ToSet(three) = B \cup G \cup {c} /\ Chain(three, Before)
  <2>1. \A x \in B : x \in HR /\ EndAddr(x) <= from
    BY <1>3, <1>4 DEF Stretch
  <2>2. \A x \in G : x \in HR /\ EndAddr(x) <= from
    BY <1>3, <1>5 DEF Stretch
  <2>3. \A x \in ToSet(two), y \in ToSet(one) : <<x, y>> \in Before
    BY <1>7, <1>8, <1>9, <2>1, <2>2, BeforeIs
  <2>4. three \in Seq(HR) /\ ToSet(three) = ToSet(two) \cup ToSet(one)
    BY <1>8, <1>9, Joining
  <2>5. Chain(three, Before)
    BY <1>8, <1>9, <2>3, JoinedChain
  <2> QED BY <1>8, <1>9, <2>4, <2>5
<1> HIDE DEF three
<1>11. pieces \in Seq(HR) /\ ToSet(pieces) = B \cup G \cup {c} \cup A /\ Chain(pieces, Before)
  <2>1. \A y \in A : y \in HR /\ y.addr = EndAddr(thr)
    BY <1>6 DEF Stretch
  <2>2. \A x \in ToSet(three) : x \in HR /\ EndAddr(x) <= EndAddr(thr)
    <3>1. \A x \in B : x \in HR /\ EndAddr(x) <= EndAddr(thr)
      BY <1>2, <1>4 DEF Stretch
    <3>2. \A x \in G : x \in HR /\ EndAddr(x) <= EndAddr(thr)
      BY <1>2, <1>5 DEF Stretch
    <3>3. c \in HR /\ EndAddr(c) <= EndAddr(thr)
      BY <1>3, <1>7
    <3> QED BY <1>10, <3>1, <3>2, <3>3
  <2>3. \A x \in ToSet(three), y \in ToSet(back) : <<x, y>> \in Before
    BY <2>1, <2>2, BeforeIs
  <2>4. pieces = three \o back
    BY DEF three, two
  <2>5. three \o back \in Seq(HR) /\ ToSet(three \o back) = ToSet(three) \cup ToSet(back)
    BY <1>6, <1>10, Joining
  <2>6. Chain(three \o back, Before)
    BY <1>6, <1>10, <2>3, JoinedChain
  <2> HIDE DEF pieces
  <2> QED BY <1>10, <2>4, <2>5, <2>6
<1>12. Past(thr, hr) \in HR
  <2>1. Past(thr, hr) = [thr EXCEPT !.addr = to, !.length = EndAddr(thr) - to]
    BY DEF Past, to
  <2>2. EndAddr(thr) - to \in Int
    BY <1>2, <1>3
  <2> QED BY <1>3, <2>1, <2>2 DEF HR
<1>13. ASSUME NEW hrs \in Seq(HR)
       PROVE  hrs \o front \o gap \o one \o back = hrs \o (front \o gap \o one \o back)
  <2>1. hrs \o front \o gap = hrs \o (front \o gap)
    BY <1>4, <1>5, JoinedAgain
  <2>2. hrs \o two \o one = hrs \o (two \o one)
    BY <1>8, <1>9, JoinedAgain
  <2>3. hrs \o three \o back = hrs \o (three \o back)
    BY <1>6, <1>10, JoinedAgain
  <2> QED BY <2>1, <2>2, <2>3, Zenon DEF three, two
<1> HIDE DEF A, B, G, pieces
<1>14. HeatPieces(pieces, B, G, c, A, hr, thr)
  BY <1>4, <1>5, <1>6, <1>7, <1>11 DEF HeatPieces, from, to
<1> QED BY <1>12, <1>13, <1>14, Zenon DEF A, B, G, front, gap, one, back, c, pieces

LEMMA HeatPiecesAre ==
  ASSUME NEW walk \in HeatWalks, NEW hr \in HR,
         hr.addr < EndAddr(walk.thr), walk.thr.addr < EndAddr(hr), hr.addr < EndAddr(hr),
         walk.thr.addr < EndAddr(walk.thr)
  PROVE  /\ HeatOne(walk, hr) \in HeatWalks /\ HeatOne(walk, hr).thr = Past(walk.thr, hr)
         /\ \E pieces, B, G, c, A : /\ HeatOne(walk, hr).hrs = walk.hrs \o pieces
                                    /\ HeatPieces(pieces, B, G, c, A, hr, walk.thr)
<1> DEFINE thr == walk.thr
           front == Part(hr, hr.addr, thr.addr)
           gap == Part(thr, thr.addr, hr.addr)
           c == Heated(Common(hr, thr), thr)
           back == Part(hr, EndAddr(thr), EndAddr(hr))
           pieces == front \o gap \o <<c>> \o back
           B == ToSet(front)
           G == ToSet(gap)
           A == ToSet(back)
<1>1. walk.hrs \in Seq(HR) /\ thr \in HR
  BY DEF HeatWalks
<1>2. HeatOne(walk, hr) = [hrs |-> walk.hrs \o front \o gap \o <<c>> \o back, thr |-> Past(thr, hr)]
  BY Zenon DEF HeatOne
<1>3. /\ HeatPieces(pieces, B, G, c, A, hr, thr)
      /\ \A hrs \in Seq(HR) : hrs \o front \o gap \o <<c>> \o back = hrs \o pieces
      /\ Past(thr, hr) \in HR
  <2> HIDE DEF thr
  <2>1. hr.addr < EndAddr(thr) /\ thr.addr < EndAddr(hr) /\ thr.addr < EndAddr(thr)
    BY DEF thr
  <2> QED BY <1>1, <2>1, HeatPiecesOf, Zenon
<1> HIDE DEF front, gap, c, back, A, B, G
<1>4. HeatOne(walk, hr) = [hrs |-> walk.hrs \o pieces, thr |-> Past(thr, hr)]
  BY <1>1, <1>2, <1>3
<1> HIDE DEF pieces
<1>5. pieces \in Seq(HR)
  BY <1>3 DEF HeatPieces
<1>6. HeatOne(walk, hr) \in HeatWalks
  <2>1. walk.hrs \o pieces \in Seq(HR)
    BY <1>1, <1>5
  <2> QED BY <1>3, <1>4, <2>1 DEF HeatWalks
<1>7. HeatOne(walk, hr).hrs = walk.hrs \o pieces /\ HeatOne(walk, hr).thr = Past(thr, hr)
  BY <1>4
<1> QED BY <1>3, <1>6, <1>7

\* A list has a page with a heat, updated at a time.
Tell(l, pg, heat, updated) ==
  \E x \in ToSet(l) : pg \in PagesIn(x) /\ x.heat = heat /\ x.updated = updated

HasPage(l, pg) == \E x \in ToSet(l) : pg \in PagesIn(x)

\* Two ranges that are not empty overlap.
Meets(hr, thr) ==
  /\ hr.addr < EndAddr(thr) /\ thr.addr < EndAddr(hr)
  /\ hr.addr < EndAddr(hr) /\ thr.addr < EndAddr(thr)

\* What HeatOne makes of hr reaches from the first of the two starts to the end of hr ...
LEMMA PiecesFit ==
  ASSUME NEW hr \in HR, NEW thr \in HR, Meets(hr, thr),
         NEW pieces, NEW B, NEW G, NEW c, NEW A, HeatPieces(pieces, B, G, c, A, hr, thr)
  PROVE  \A x \in ToSet(pieces) :
            /\ x \in HR /\ x.length > 0 /\ EndAddr(x) <= EndAddr(hr)
            /\ x.addr >= thr.addr \/ (hr.addr < thr.addr /\ x.addr = hr.addr /\ EndAddr(x) = thr.addr)
            /\ EndAddr(x) <= EndAddr(thr) \/ x.addr >= EndAddr(thr)
<1>1. hr.addr \in Int /\ thr.addr \in Int /\ EndAddr(hr) \in Int /\ EndAddr(thr) \in Int
  BY HRFields
<1>2. ASSUME NEW x \in B PROVE /\ x \in HR /\ x.length > 0 /\ EndAddr(x) <= EndAddr(hr)
                               /\ hr.addr < thr.addr /\ x.addr = hr.addr /\ EndAddr(x) = thr.addr
                               /\ EndAddr(x) <= EndAddr(thr)
  <2>1. Stretch(x, hr, hr.addr, thr.addr) /\ hr.addr < thr.addr
    BY <1>2 DEF HeatPieces
  <2> QED BY <1>1, <2>1 DEF Stretch, Meets
<1>3. ASSUME NEW x \in G PROVE /\ x \in HR /\ x.length > 0 /\ EndAddr(x) <= EndAddr(hr)
                               /\ x.addr >= thr.addr /\ EndAddr(x) <= EndAddr(thr)
  <2>1. Stretch(x, thr, thr.addr, hr.addr) /\ thr.addr < hr.addr
    BY <1>3 DEF HeatPieces
  <2> QED BY <1>1, <2>1 DEF Stretch, Meets
<1>4. ASSUME NEW x \in A PROVE /\ x \in HR /\ x.length > 0 /\ EndAddr(x) <= EndAddr(hr)
                               /\ x.addr >= thr.addr /\ x.addr >= EndAddr(thr)
  <2>1. Stretch(x, hr, EndAddr(thr), EndAddr(hr)) /\ EndAddr(thr) < EndAddr(hr)
    BY <1>4 DEF HeatPieces
  <2> QED BY <1>1, <2>1 DEF Stretch, Meets
<1>5. c \in HR /\ c.length > 0 /\ EndAddr(c) <= EndAddr(hr) /\ c.addr >= thr.addr /\ EndAddr(c) <= EndAddr(thr)
  <2>1. /\ c \in HR /\ c.addr = Later(hr.addr, thr.addr) /\ EndAddr(c) = Earlier(EndAddr(hr), EndAddr(thr))
        /\ c.length = Earlier(EndAddr(hr), EndAddr(thr)) - Later(hr.addr, thr.addr)
    BY DEF HeatPieces
  <2> QED BY <1>1, <2>1 DEF Later, Earlier, Meets
<1>6. ToSet(pieces) = B \cup G \cup {c} \cup A
  BY DEF HeatPieces
<1> QED BY <1>2, <1>3, <1>4, <1>5, <1>6

\* ... has its pages and those of thr before its end, and the heats they must have.
PiecesTell(pieces, hr, thr) ==
  /\ \A pg : HasPage(pieces, pg) =>
       pg \in PagesIn(hr) \/ (pg \in Int /\ thr.addr <= pg /\ pg < EndAddr(hr) /\ pg < EndAddr(thr))
  /\ \A pg \in PagesIn(hr) :
       IF pg < thr.addr \/ pg >= EndAddr(thr) THEN Tell(pieces, pg, hr.heat, hr.updated)
       ELSE Tell(pieces, pg, NewHeat(hr, thr), thr.updated)
  /\ \A pg \in Int : thr.addr <= pg /\ pg < EndAddr(hr) /\ pg < EndAddr(thr) /\ pg \notin PagesIn(hr) =>
       Tell(pieces, pg, thr.heat, thr.updated)

LEMMA PagesOfPieces ==
  ASSUME NEW hr \in HR, NEW thr \in HR, Meets(hr, thr),
         NEW pieces, NEW B, NEW G, NEW c, NEW A, HeatPieces(pieces, B, G, c, A, hr, thr)
  PROVE  PiecesTell(pieces, hr, thr)
<1>1. hr.addr \in Int /\ thr.addr \in Int /\ EndAddr(hr) \in Int /\ EndAddr(thr) \in Int
  BY HRFields
<1>2. \A pg : pg \in PagesIn(hr) <=> pg \in Int /\ hr.addr <= pg /\ pg < EndAddr(hr)
  BY HRFields
<1>3. ASSUME NEW x \in HR, NEW from \in Int, NEW to \in Int, x.addr = from, EndAddr(x) = to
      PROVE  \A pg : pg \in PagesIn(x) <=> pg \in Int /\ from <= pg /\ pg < to
  BY <1>3, HRFields
<1>4. ToSet(pieces) = B \cup G \cup {c} \cup A
  BY DEF HeatPieces
<1>5. ASSUME NEW x \in B
      PROVE  /\ \A pg : pg \in PagesIn(x) <=> pg \in Int /\ hr.addr <= pg /\ pg < thr.addr
             /\ x.heat = hr.heat /\ x.updated = hr.updated
  <2>1. Stretch(x, hr, hr.addr, thr.addr)
    BY <1>5 DEF HeatPieces
  <2> QED BY <1>1, <1>3, <2>1 DEF Stretch
<1>6. ASSUME NEW x \in G
      PROVE  /\ \A pg : pg \in PagesIn(x) <=> pg \in Int /\ thr.addr <= pg /\ pg < hr.addr
             /\ x.heat = thr.heat /\ x.updated = thr.updated
  <2>1. Stretch(x, thr, thr.addr, hr.addr)
    BY <1>6 DEF HeatPieces
  <2> QED BY <1>1, <1>3, <2>1 DEF Stretch
<1>7. ASSUME NEW x \in A
      PROVE  /\ \A pg : pg \in PagesIn(x) <=> pg \in Int /\ EndAddr(thr) <= pg /\ pg < EndAddr(hr)
             /\ x.heat = hr.heat /\ x.updated = hr.updated
  <2>1. Stretch(x, hr, EndAddr(thr), EndAddr(hr))
    BY <1>7 DEF HeatPieces
  <2> QED BY <1>1, <1>3, <2>1 DEF Stretch
<1>8. /\ \A pg : pg \in PagesIn(c) <=> /\ pg \in Int /\ hr.addr <= pg /\ thr.addr <= pg
                                       /\ pg < EndAddr(hr) /\ pg < EndAddr(thr)
      /\ c.heat = NewHeat(hr, thr) /\ c.updated = thr.updated
  <2>1. /\ c \in HR /\ c.addr = Later(hr.addr, thr.addr) /\ EndAddr(c) = Earlier(EndAddr(hr), EndAddr(thr))
        /\ c.heat = NewHeat(hr, thr) /\ c.updated = thr.updated
    BY DEF HeatPieces
  <2>2. Later(hr.addr, thr.addr) \in Int /\ Earlier(EndAddr(hr), EndAddr(thr)) \in Int
    BY <1>1 DEF Later, Earlier
  <2>3. \A pg : pg \in PagesIn(c) <=> /\ pg \in Int /\ Later(hr.addr, thr.addr) <= pg
                                      /\ pg < Earlier(EndAddr(hr), EndAddr(thr))
    BY <1>3, <2>1, <2>2
  <2> QED BY <1>1, <2>1, <2>3 DEF Later, Earlier
<1>9. B # {} <=> hr.addr < thr.addr
  BY DEF HeatPieces
<1>10. G # {} <=> thr.addr < hr.addr
  BY DEF HeatPieces
<1>11. A # {} <=> EndAddr(thr) < EndAddr(hr)
  BY DEF HeatPieces
<1>12. ASSUME NEW pg, HasPage(pieces, pg)
       PROVE  pg \in PagesIn(hr) \/ (pg \in Int /\ thr.addr <= pg /\ pg < EndAddr(hr) /\ pg < EndAddr(thr))
  <2>1. PICK x \in ToSet(pieces) : pg \in PagesIn(x)
    BY <1>12 DEF HasPage
  <2>2. CASE x \in B
    BY <1>1, <1>2, <1>5, <2>1, <2>2 DEF Meets
  <2>3. CASE x \in G
    BY <1>1, <1>2, <1>6, <2>1, <2>3 DEF Meets
  <2>4. CASE x \in A
    BY <1>1, <1>2, <1>7, <2>1, <2>4 DEF Meets
  <2>5. CASE x = c
    BY <1>1, <1>2, <1>8, <2>1, <2>5
  <2> QED BY <1>4, <2>2, <2>3, <2>4, <2>5
<1>13. ASSUME NEW pg \in PagesIn(hr)
       PROVE  IF pg < thr.addr \/ pg >= EndAddr(thr) THEN Tell(pieces, pg, hr.heat, hr.updated)
              ELSE Tell(pieces, pg, NewHeat(hr, thr), thr.updated)
  <2>1. pg \in Int /\ hr.addr <= pg /\ pg < EndAddr(hr)
    BY <1>2
  <2>2. CASE pg < thr.addr
    <3>1. PICK x \in B : TRUE
      BY <1>1, <1>9, <2>1, <2>2
    <3>2. pg \in PagesIn(x)
      BY <1>5, <2>1, <2>2
    <3> QED BY <1>4, <1>5, <2>2, <3>2 DEF Tell
  <2>3. CASE pg >= EndAddr(thr)
    <3>1. PICK x \in A : TRUE
      BY <1>1, <1>11, <2>1, <2>3
    <3>2. pg \in PagesIn(x)
      BY <1>1, <1>7, <2>1, <2>3
    <3> QED BY <1>4, <1>7, <2>3, <3>2 DEF Tell
  <2>4. CASE ~(pg < thr.addr \/ pg >= EndAddr(thr))
    <3>1. pg \in PagesIn(c)
      BY <1>1, <1>8, <2>1, <2>4
    <3> QED BY <1>4, <1>8, <2>4, <3>1 DEF Tell
  <2> QED BY <2>2, <2>3, <2>4
<1>14. ASSUME NEW pg \in Int, thr.addr <= pg, pg < EndAddr(hr), pg < EndAddr(thr), pg \notin PagesIn(hr)
       PROVE  Tell(pieces, pg, thr.heat, thr.updated)
  <2>1. pg < hr.addr
    BY <1>1, <1>2, <1>14
  <2>2. PICK x \in G : TRUE
    BY <1>1, <1>10, <1>14, <2>1
  <2>3. pg \in PagesIn(x)
    BY <1>6, <1>14, <2>1
  <2> QED BY <1>4, <1>6, <2>3 DEF Tell
<1> QED BY <1>12, <1>13, <1>14 DEF PiecesTell

LEMMA ToldByBoth ==
  ASSUME NEW s \in Seq(HR), NEW t \in Seq(HR)
  PROVE  /\ \A pg, h, u : Tell(s \o t, pg, h, u) <=> Tell(s, pg, h, u) \/ Tell(t, pg, h, u)
         /\ \A pg : HasPage(s \o t, pg) <=> HasPage(s, pg) \/ HasPage(t, pg)
<1>1. ToSet(s \o t) = ToSet(s) \cup ToSet(t)
  BY Joining
<1> DEFINE both == s \o t
<1> HIDE DEF both
<1>2. ToSet(both) = ToSet(s) \cup ToSet(t)
  BY <1>1 DEF both
<1>3. \A pg, h, u : Tell(both, pg, h, u) <=> Tell(s, pg, h, u) \/ Tell(t, pg, h, u)
  BY <1>2 DEF Tell
<1>4. \A pg : HasPage(both, pg) <=> HasPage(s, pg) \/ HasPage(t, pg)
  BY <1>2 DEF HasPage
<1> QED BY <1>3, <1>4 DEF both

\* The ranges that thr overlaps with.
Overlapped(mid, thr) ==
  /\ mid \in Seq(HR) /\ Chain(mid, Before) /\ thr \in HR /\ thr.length > 0
  /\ \A i \in DOMAIN mid : mid[i].length > 0 /\ mid[i].addr < EndAddr(thr) /\ thr.addr < EndAddr(mid[i])

OneOf(mid, k, pg) == \E j \in 1 .. k : pg \in PagesIn(mid[j])

\* Where thr goes on after the first k of them.
GoneOn(walk, mid, k, thr) ==
  /\ walk \in HeatWalks
  /\ walk.thr.heat = thr.heat /\ walk.thr.updated = thr.updated /\ EndAddr(walk.thr) = EndAddr(thr)
  /\ k = 0 => walk.hrs = <<>> /\ walk.thr.addr = thr.addr
  /\ k > 0 => walk.thr.addr = Earlier(EndAddr(mid[k]), EndAddr(thr))

\* The list so far: it starts with the first range or with thr and ends with the last range.
ListedSoFar(walk, mid, k, thr) ==
  /\ Chain(walk.hrs, Before)
  /\ \A x \in ToSet(walk.hrs) :
        /\ x.length > 0 /\ k > 0 /\ EndAddr(x) <= EndAddr(mid[k])
        /\ x.addr >= thr.addr \/ (x.addr >= mid[1].addr /\ EndAddr(x) <= thr.addr)
        /\ EndAddr(x) <= EndAddr(thr) \/ x.addr >= EndAddr(thr)

\* The heats so far.
ToldSoFar(walk, mid, k, thr) ==
  /\ \A pg : HasPage(walk.hrs, pg) =>
       OneOf(mid, k, pg) \/ (pg \in Int /\ thr.addr <= pg /\ pg < walk.thr.addr)
  /\ \A j \in 1 .. k : \A pg \in PagesIn(mid[j]) :
       IF pg < thr.addr \/ pg >= EndAddr(thr) THEN Tell(walk.hrs, pg, mid[j].heat, mid[j].updated)
       ELSE Tell(walk.hrs, pg, NewHeat(mid[j], thr), thr.updated)
  /\ \A pg \in Int : thr.addr <= pg /\ pg < walk.thr.addr /\ ~OneOf(mid, k, pg) =>
       Tell(walk.hrs, pg, thr.heat, thr.updated)

\* thr has come up to the end of a range, or to its own end, and the next range is behind it.
LEMMA NextMeets ==
  ASSUME NEW mid, NEW thr, Overlapped(mid, thr), NEW k \in 1 .. Len(mid),
         NEW walk, GoneOn(walk, mid, k - 1, thr)
  PROVE  /\ mid[k] \in HR /\ walk.thr \in HR /\ Meets(mid[k], walk.thr)
         /\ thr.addr <= walk.thr.addr
         /\ k > 1 => /\ mid[k - 1] \in HR /\ EndAddr(mid[k - 1]) <= mid[k].addr
                     /\ walk.thr.addr = EndAddr(mid[k - 1]) /\ mid[1] \in HR /\ mid[1].addr <= mid[k].addr
<1>1. k \in Nat /\ Len(mid) \in Nat /\ DOMAIN mid = 1 .. Len(mid) /\ thr \in HR /\ thr.length > 0
  BY DEF Overlapped
<1>2. \A i \in 1 .. Len(mid) : /\ mid[i] \in HR /\ mid[i].length > 0 /\ mid[i].addr < EndAddr(thr)
                               /\ thr.addr < EndAddr(mid[i])
  BY <1>1 DEF Overlapped
<1>3. walk.thr \in HR /\ EndAddr(walk.thr) = EndAddr(thr)
  BY DEF GoneOn, HeatWalks
<1>4. /\ thr.addr \in Int /\ thr.length \in Int /\ EndAddr(thr) = thr.addr + thr.length
      /\ walk.thr.addr \in Int
  BY <1>1, <1>3, HRFields
<1>5. mid[k].addr \in Int /\ mid[k].length \in Int /\ EndAddr(mid[k]) = mid[k].addr + mid[k].length
  BY <1>2, HRFields
<1>6. CASE k = 1
  <2>1. walk.thr.addr = thr.addr
    BY <1>6 DEF GoneOn
  <2>2. mid[k] \in HR /\ mid[k].length > 0 /\ mid[k].addr < EndAddr(thr) /\ thr.addr < EndAddr(mid[k])
    BY <1>2
  <2> QED BY <1>1, <1>3, <1>4, <1>5, <1>6, <2>1, <2>2 DEF Meets
<1>7. CASE k > 1
  <2>1. k - 1 \in 1 .. Len(mid) /\ k - 1 < k /\ 1 \in 1 .. Len(mid) /\ 1 < k
    BY <1>1, <1>7
  <2>2. walk.thr.addr = Earlier(EndAddr(mid[k - 1]), EndAddr(thr))
    BY <1>1, <1>7, <2>1 DEF GoneOn
  <2>3. /\ mid[k - 1] \in HR /\ mid[k - 1].length > 0 /\ thr.addr < EndAddr(mid[k - 1]) /\ mid[1] \in HR
        /\ mid[1].length > 0
    BY <1>2, <2>1
  <2>4. <<mid[k - 1], mid[k]>> \in Before /\ <<mid[1], mid[k]>> \in Before
    BY <1>1, <2>1 DEF Overlapped, Chain
  <2>5. mid[k] \in HR /\ mid[k].length > 0 /\ mid[k].addr < EndAddr(thr) /\ thr.addr < EndAddr(mid[k])
    BY <1>2
  <2>6. EndAddr(mid[k - 1]) <= mid[k].addr /\ EndAddr(mid[1]) <= mid[k].addr
    BY <2>3, <2>4, <2>5, BeforeIs
  <2>7. /\ EndAddr(mid[k - 1]) \in Int /\ mid[1].addr \in Int /\ mid[1].length \in Int
        /\ EndAddr(mid[1]) = mid[1].addr + mid[1].length /\ EndAddr(thr) \in Int
    BY <1>1, <2>3, HRFields
  <2>8. walk.thr.addr = EndAddr(mid[k - 1])
    BY <1>5, <2>2, <2>5, <2>6, <2>7 DEF Earlier
  <2>9. mid[1].addr <= mid[k].addr
    <3>1. \A a, n, e, b \in Int : e = a + n /\ n > 0 /\ e <= b => a <= b
      OBVIOUS
    <3> QED BY <1>5, <2>3, <2>6, <2>7, <3>1
  <2>10. thr.addr <= walk.thr.addr /\ walk.thr.addr < EndAddr(mid[k])
    <3>1. mid[k].addr < EndAddr(mid[k])
      BY <1>5, <2>5
    <3>2. \A t, e, b, f \in Int : t < e /\ e <= b /\ b < f => t <= e /\ e < f
      OBVIOUS
    <3> QED BY <1>4, <1>5, <2>3, <2>6, <2>7, <2>8, <3>1, <3>2
  <2>11. walk.thr.addr < EndAddr(walk.thr)
    <3>1. \A e, b, f \in Int : e <= b /\ b < f => e < f
      OBVIOUS
    <3> QED BY <1>3, <1>5, <2>5, <2>6, <2>7, <2>8, <3>1
  <2>12. Meets(mid[k], walk.thr)
    <3>1. mid[k].addr < EndAddr(mid[k]) /\ mid[k].addr < EndAddr(walk.thr)
      BY <1>3, <1>5, <2>5
    <3> QED BY <2>10, <2>11, <3>1 DEF Meets
  <2> QED BY <1>3, <2>3, <2>5, <2>6, <2>8, <2>9, <2>10, <2>12
<1> QED BY <1>1, <1>6, <1>7

LEMMA GoesOn ==
  ASSUME NEW mid, NEW thr, Overlapped(mid, thr), NEW k \in 1 .. Len(mid),
         NEW walk, GoneOn(walk, mid, k - 1, thr),
         NEW next \in HeatWalks, next.thr = Past(walk.thr, mid[k])
  PROVE  GoneOn(next, mid, k, thr)
<1>1. mid[k] \in HR /\ walk.thr \in HR
  BY NextMeets
<1>2. /\ walk.thr.heat = thr.heat /\ walk.thr.updated = thr.updated
      /\ EndAddr(walk.thr) = EndAddr(thr)
  BY DEF GoneOn
<1> DEFINE w == walk.thr
           to == Earlier(EndAddr(mid[k]), EndAddr(w))
<1>3. to \in Int /\ EndAddr(w) \in Int /\ EndAddr(w) - to \in Int /\ to + (EndAddr(w) - to) = EndAddr(w)
  <2>1. EndAddr(mid[k]) \in Int /\ EndAddr(w) \in Int
    BY <1>1, HRFields
  <2> QED BY <2>1 DEF Earlier
<1>4. next.thr = [w EXCEPT !.addr = to, !.length = EndAddr(w) - to]
  BY DEF Past
<1>5. to = Earlier(EndAddr(mid[k]), EndAddr(thr))
  BY <1>2
<1> HIDE DEF to
<1>6. next.thr.addr = to /\ next.thr.length = EndAddr(w) - to /\ next.thr.heat = w.heat /\ next.thr.updated = w.updated
  BY <1>1, <1>4 DEF HR
<1>7. EndAddr(next.thr) = EndAddr(w)
  BY <1>3, <1>6 DEF EndAddr
<1> QED BY <1>2, <1>5, <1>6, <1>7 DEF GoneOn

LEMMA ListsOn ==
  ASSUME NEW mid, NEW thr, Overlapped(mid, thr), NEW k \in 1 .. Len(mid),
         NEW walk, GoneOn(walk, mid, k - 1, thr), ListedSoFar(walk, mid, k - 1, thr),
         NEW pieces, NEW B, NEW G, NEW c, NEW A, HeatPieces(pieces, B, G, c, A, mid[k], walk.thr),
         NEW next, next.hrs = walk.hrs \o pieces
  PROVE  ListedSoFar(next, mid, k, thr)
<1> DEFINE w == walk.thr
           hr == mid[k]
<1>1. /\ hr \in HR /\ w \in HR /\ Meets(hr, w) /\ thr.addr <= w.addr
      /\ k > 1 => /\ mid[k - 1] \in HR /\ EndAddr(mid[k - 1]) <= hr.addr
                  /\ w.addr = EndAddr(mid[k - 1]) /\ mid[1] \in HR /\ mid[1].addr <= hr.addr
  BY NextMeets
<1>2. walk.hrs \in Seq(HR) /\ pieces \in Seq(HR) /\ Chain(pieces, Before)
  BY DEF GoneOn, HeatWalks, HeatPieces
<1>3. \A x \in ToSet(walk.hrs) :
        /\ x.length > 0 /\ k - 1 > 0 /\ EndAddr(x) <= EndAddr(mid[k - 1])
        /\ x.addr >= thr.addr \/ (x.addr >= mid[1].addr /\ EndAddr(x) <= thr.addr)
        /\ EndAddr(x) <= EndAddr(thr) \/ x.addr >= EndAddr(thr)
  BY DEF ListedSoFar
<1>4. \A x \in ToSet(pieces) :
        /\ x \in HR /\ x.length > 0 /\ EndAddr(x) <= EndAddr(hr)
        /\ x.addr >= w.addr \/ (hr.addr < w.addr /\ x.addr = hr.addr /\ EndAddr(x) = w.addr)
        /\ EndAddr(x) <= EndAddr(w) \/ x.addr >= EndAddr(w)
  <2> HIDE DEF w, hr
  <2>1. HeatPieces(pieces, B, G, c, A, hr, w)
    BY DEF w, hr
  <2> QED BY <1>1, <2>1, PiecesFit
<1>5. \A x \in ToSet(walk.hrs) : x \in HR
  BY <1>2, ListFields
<1>6. k \in Nat /\ thr \in HR /\ thr.addr \in Int /\ hr.addr \in Int /\ EndAddr(hr) \in Int /\ w.addr \in Int
      /\ hr.addr < EndAddr(hr)
  BY <1>1, HRFields DEF Overlapped, Meets
<1> HIDE DEF w, hr
<1>7. ASSUME NEW x \in ToSet(walk.hrs), NEW y \in ToSet(pieces) PROVE <<x, y>> \in Before
  <2>1. k > 1 /\ EndAddr(x) <= EndAddr(mid[k - 1])
    BY <1>3, <1>6
  <2>2. /\ EndAddr(mid[k - 1]) \in Int /\ EndAddr(mid[k - 1]) <= hr.addr /\ w.addr = EndAddr(mid[k - 1])
        /\ EndAddr(x) \in Int /\ y.addr \in Int /\ x \in HR /\ y \in HR
    BY <1>1, <1>4, <1>5, <2>1, HRFields
  <2>3. EndAddr(mid[k - 1]) <= y.addr
    BY <1>4, <1>6, <2>2
  <2>4. EndAddr(x) <= y.addr
    BY <2>1, <2>2, <2>3
  <2> QED BY <2>2, <2>4, BeforeIs
<1>8. Chain(walk.hrs, Before)
  BY DEF ListedSoFar
<1>9. Chain(walk.hrs \o pieces, Before)
  BY <1>2, <1>7, <1>8, JoinedChain
<1>10. ToSet(walk.hrs \o pieces) = ToSet(walk.hrs) \cup ToSet(pieces)
  BY <1>2, Joining
<1>11. ASSUME NEW x \in ToSet(walk.hrs)
       PROVE  /\ x.length > 0 /\ k > 0 /\ EndAddr(x) <= EndAddr(hr)
              /\ x.addr >= thr.addr \/ (x.addr >= mid[1].addr /\ EndAddr(x) <= thr.addr)
              /\ EndAddr(x) <= EndAddr(thr) \/ x.addr >= EndAddr(thr)
  <2>1. k > 1 /\ EndAddr(x) <= EndAddr(mid[k - 1]) /\ x.length > 0
    BY <1>3, <1>6
  <2>2. EndAddr(mid[k - 1]) \in Int /\ EndAddr(mid[k - 1]) <= hr.addr /\ EndAddr(x) \in Int
    BY <1>1, <1>5, <2>1, HRFields
  <2> QED BY <1>3, <1>6, <2>1, <2>2
<1>12. ASSUME NEW x \in ToSet(pieces)
       PROVE  /\ x.length > 0 /\ k > 0 /\ EndAddr(x) <= EndAddr(hr)
              /\ x.addr >= thr.addr \/ (x.addr >= mid[1].addr /\ EndAddr(x) <= thr.addr)
              /\ EndAddr(x) <= EndAddr(thr) \/ x.addr >= EndAddr(thr)
  <2>1. x.addr \in Int /\ EndAddr(w) = EndAddr(thr)
    BY <1>4, HRFields DEF GoneOn, w
  <2>2. CASE x.addr >= w.addr
    <3>1. x.addr >= thr.addr
      BY <1>1, <1>6, <2>1, <2>2
    <3> QED BY <1>4, <1>6, <2>1, <3>1
  <2>3. CASE hr.addr < w.addr /\ x.addr = hr.addr /\ EndAddr(x) = w.addr
    <3>1. k = 1
      BY <1>1, <1>6, <2>3
    <3>2. w.addr = thr.addr
      BY <3>1 DEF GoneOn, w
    <3>3. x.addr >= mid[1].addr /\ EndAddr(x) <= thr.addr
      BY <1>6, <2>3, <3>1, <3>2 DEF hr
    <3> QED BY <1>4, <1>6, <2>1, <3>3
  <2> QED BY <1>4, <2>2, <2>3
<1>13. \A x \in ToSet(next.hrs) :
         /\ x.length > 0 /\ k > 0 /\ EndAddr(x) <= EndAddr(mid[k])
         /\ x.addr >= thr.addr \/ (x.addr >= mid[1].addr /\ EndAddr(x) <= thr.addr)
         /\ EndAddr(x) <= EndAddr(thr) \/ x.addr >= EndAddr(thr)
  BY <1>10, <1>11, <1>12 DEF hr
<1> QED BY <1>9, <1>13 DEF ListedSoFar

LEMMA TellsOn ==
  ASSUME NEW mid, NEW thr, Overlapped(mid, thr), NEW k \in 1 .. Len(mid),
         NEW walk, GoneOn(walk, mid, k - 1, thr), ToldSoFar(walk, mid, k - 1, thr),
         NEW pieces \in Seq(HR), PiecesTell(pieces, mid[k], walk.thr),
         NEW next, GoneOn(next, mid, k, thr), next.hrs = walk.hrs \o pieces
  PROVE  ToldSoFar(next, mid, k, thr)
<1> DEFINE w == walk.thr
           hr == mid[k]
           n == next.thr
<1>1. /\ hr \in HR /\ w \in HR /\ Meets(hr, w) /\ thr.addr <= w.addr
      /\ k > 1 => w.addr <= hr.addr
  <2>1. /\ hr \in HR /\ w \in HR /\ Meets(hr, w) /\ thr.addr <= w.addr
        /\ k > 1 => EndAddr(mid[k - 1]) <= hr.addr /\ w.addr = EndAddr(mid[k - 1])
    BY NextMeets
  <2> QED BY <2>1
<1>2. k = 1 => w.addr = thr.addr
  BY DEF GoneOn
<1>3. w.heat = thr.heat /\ w.updated = thr.updated /\ EndAddr(w) = EndAddr(thr)
  BY DEF GoneOn
<1>4. n.addr = Earlier(EndAddr(hr), EndAddr(thr))
  BY DEF GoneOn
<1>5. /\ k \in Nat /\ thr.addr \in Int /\ hr.addr \in Int /\ EndAddr(hr) \in Int /\ w.addr \in Int
      /\ EndAddr(thr) \in Int
      /\ \A pg : pg \in PagesIn(hr) <=> pg \in Int /\ hr.addr <= pg /\ pg < EndAddr(hr)
  <2>1. thr \in HR /\ k \in Nat
    BY DEF Overlapped
  <2>2. thr.addr \in Int /\ EndAddr(thr) \in Int
    BY <2>1, HRFields
  <2>3. w.addr \in Int
    BY <1>1, HRFields
  <2> HIDE DEF w, hr
  <2>4. /\ hr.addr \in Int /\ EndAddr(hr) \in Int
        /\ \A pg : pg \in PagesIn(hr) <=> pg \in Int /\ hr.addr <= pg /\ pg < EndAddr(hr)
    BY <1>1, HRFields
  <2> QED BY <2>1, <2>2, <2>3, <2>4
<1>6. w.addr <= n.addr /\ n.addr \in Int
  BY <1>1, <1>3, <1>4, <1>5 DEF Meets, Earlier
<1>7. /\ \A pg, h, u : Tell(next.hrs, pg, h, u) <=> Tell(walk.hrs, pg, h, u) \/ Tell(pieces, pg, h, u)
      /\ \A pg : HasPage(next.hrs, pg) <=> HasPage(walk.hrs, pg) \/ HasPage(pieces, pg)
  BY ToldByBoth DEF GoneOn, HeatWalks
<1>8. \A pg : OneOf(mid, k, pg) <=> OneOf(mid, k - 1, pg) \/ pg \in PagesIn(hr)
  <2>1. \A j : j \in 1 .. k <=> j \in 1 .. (k - 1) \/ j = k
    BY <1>5
  <2> QED BY <2>1 DEF OneOf
<1>9. NewHeat(hr, w) = NewHeat(hr, thr)
  BY <1>3 DEF NewHeat
<1>10. /\ \A pg : HasPage(pieces, pg) =>
            pg \in PagesIn(hr) \/ (pg \in Int /\ w.addr <= pg /\ pg < EndAddr(hr) /\ pg < EndAddr(thr))
       /\ \A pg \in PagesIn(hr) :
            IF pg < w.addr \/ pg >= EndAddr(thr) THEN Tell(pieces, pg, hr.heat, hr.updated)
            ELSE Tell(pieces, pg, NewHeat(hr, thr), thr.updated)
       /\ \A pg \in Int : w.addr <= pg /\ pg < EndAddr(hr) /\ pg < EndAddr(thr) /\ pg \notin PagesIn(hr) =>
            Tell(pieces, pg, thr.heat, thr.updated)
  BY <1>3, <1>9 DEF PiecesTell
<1>11. /\ \A pg : HasPage(walk.hrs, pg) =>
            OneOf(mid, k - 1, pg) \/ (pg \in Int /\ thr.addr <= pg /\ pg < w.addr)
       /\ \A j \in 1 .. (k - 1) : \A pg \in PagesIn(mid[j]) :
            IF pg < thr.addr \/ pg >= EndAddr(thr) THEN Tell(walk.hrs, pg, mid[j].heat, mid[j].updated)
            ELSE Tell(walk.hrs, pg, NewHeat(mid[j], thr), thr.updated)
       /\ \A pg \in Int : thr.addr <= pg /\ pg < w.addr /\ ~OneOf(mid, k - 1, pg) =>
            Tell(walk.hrs, pg, thr.heat, thr.updated)
  BY DEF ToldSoFar
<1> HIDE DEF w, hr, n
<1>12. \A pg \in Int : pg < n.addr <=> pg < EndAddr(hr) /\ pg < EndAddr(thr)
  BY <1>4, <1>5 DEF Earlier
<1>13. ASSUME NEW pg, HasPage(next.hrs, pg)
       PROVE  OneOf(mid, k, pg) \/ (pg \in Int /\ thr.addr <= pg /\ pg < n.addr)
  <2>1. CASE HasPage(walk.hrs, pg)
    BY <1>5, <1>6, <1>8, <1>11, <2>1
  <2>2. CASE HasPage(pieces, pg)
    BY <1>1, <1>5, <1>8, <1>10, <1>12, <2>2
  <2> QED BY <1>7, <1>13, <2>1, <2>2
<1>14. ASSUME NEW j \in 1 .. k, NEW pg \in PagesIn(mid[j])
       PROVE  IF pg < thr.addr \/ pg >= EndAddr(thr) THEN Tell(next.hrs, pg, mid[j].heat, mid[j].updated)
              ELSE Tell(next.hrs, pg, NewHeat(mid[j], thr), thr.updated)
  <2>1. CASE j \in 1 .. (k - 1)
    BY <1>7, <1>11, <2>1
  <2>2. CASE j = k
    <3>1. pg \in Int /\ hr.addr <= pg /\ pg \in PagesIn(hr)
      BY <1>5, <2>2 DEF hr
    <3>2. CASE pg < thr.addr \/ pg >= EndAddr(thr)
      <4>1. pg < w.addr \/ pg >= EndAddr(thr)
        BY <1>1, <1>5, <3>1, <3>2
      <4>2. Tell(pieces, pg, hr.heat, hr.updated)
        BY <1>10, <3>1, <4>1
      <4> QED BY <1>7, <2>2, <3>2, <4>2 DEF hr
    <3>3. CASE ~(pg < thr.addr \/ pg >= EndAddr(thr))
      <4>0. ~(pg < w.addr)
        <5>1. CASE k = 1
          BY <1>2, <3>3, <5>1
        <5>2. CASE k > 1
          BY <1>1, <1>5, <3>1, <5>2
        <5> QED BY <1>5, <5>1, <5>2
      <4>1. ~(pg < w.addr \/ pg >= EndAddr(thr))
        BY <3>3, <4>0
      <4>2. Tell(pieces, pg, NewHeat(hr, thr), thr.updated)
        BY <1>10, <3>1, <4>1
      <4> QED BY <1>7, <2>2, <3>3, <4>2 DEF hr
    <3> QED BY <3>2, <3>3
  <2> QED BY <1>5, <2>1, <2>2
<1>15. ASSUME NEW pg \in Int, thr.addr <= pg, pg < n.addr, ~OneOf(mid, k, pg)
       PROVE  Tell(next.hrs, pg, thr.heat, thr.updated)
  <2>1. CASE pg < w.addr
    BY <1>7, <1>8, <1>11, <1>15, <2>1
  <2>2. CASE w.addr <= pg
    BY <1>7, <1>8, <1>10, <1>12, <1>15, <2>2
  <2> QED BY <1>5, <2>1, <2>2
<1> QED BY <1>13, <1>14, <1>15 DEF ToldSoFar, n

Heating(walk, mid, k, thr) ==
  GoneOn(walk, mid, k, thr) /\ ListedSoFar(walk, mid, k, thr) /\ ToldSoFar(walk, mid, k, thr)

LEMMA HeatsNext ==
  ASSUME NEW mid, NEW thr, Overlapped(mid, thr), NEW k \in 1 .. Len(mid),
         NEW walk, Heating(walk, mid, k - 1, thr)
  PROVE  Heating(HeatOne(walk, mid[k]), mid, k, thr)
<1> DEFINE w == walk.thr
           hr == mid[k]
           next == HeatOne(walk, hr)
<1>1. GoneOn(walk, mid, k - 1, thr) /\ ListedSoFar(walk, mid, k - 1, thr) /\ ToldSoFar(walk, mid, k - 1, thr)
  BY DEF Heating
<1>2. hr \in HR /\ w \in HR /\ Meets(hr, w) /\ walk \in HeatWalks
  BY <1>1, NextMeets DEF GoneOn
<1> HIDE DEF next
<1>3. /\ next \in HeatWalks /\ next.thr = Past(w, hr)
      /\ \E pieces, B, G, c, A : next.hrs = walk.hrs \o pieces /\ HeatPieces(pieces, B, G, c, A, hr, w)
  BY <1>2, HeatPiecesAre DEF Meets, next
<1>4. PICK pieces, B, G, c, A : next.hrs = walk.hrs \o pieces /\ HeatPieces(pieces, B, G, c, A, hr, w)
  BY <1>3
<1>5. pieces \in Seq(HR)
  BY <1>4 DEF HeatPieces
<1>6. PiecesTell(pieces, hr, w)
  <2> HIDE DEF w, hr
  <2> QED BY <1>2, <1>4, PagesOfPieces
<1>7. GoneOn(next, mid, k, thr)
  BY <1>1, <1>3, GoesOn
<1>8. ListedSoFar(next, mid, k, thr)
  BY <1>1, <1>4, ListsOn
<1>9. ToldSoFar(next, mid, k, thr)
  BY <1>1, <1>4, <1>5, <1>6, <1>7, TellsOn
<1> QED BY <1>7, <1>8, <1>9 DEF Heating, next

LEMMA HeatingBegins ==
  ASSUME NEW mid, NEW thr, Overlapped(mid, thr)
  PROVE  Heating([hrs |-> <<>>, thr |-> thr], mid, 0, thr)
<1> DEFINE walk == [hrs |-> <<>>, thr |-> thr]
<1>1. thr \in HR /\ thr.addr \in Int
  BY HRFields DEF Overlapped
<1>2. walk.hrs = <<>> /\ walk.thr = thr
  OBVIOUS
<1>3. walk \in HeatWalks
  BY <1>1, NoElement DEF HeatWalks
<1>4. ToSet(walk.hrs) = {} /\ Chain(walk.hrs, Before)
  BY <1>2, NoElement
<1> HIDE DEF walk
<1>5. GoneOn(walk, mid, 0, thr)
  BY <1>2, <1>3 DEF GoneOn
<1>6. ListedSoFar(walk, mid, 0, thr)
  BY <1>4 DEF ListedSoFar
<1>7. ToldSoFar(walk, mid, 0, thr)
  BY <1>1, <1>2, <1>4 DEF ToldSoFar, HasPage
<1> QED BY <1>5, <1>6, <1>7 DEF Heating, walk

LEMMA HeatOneTyped ==
  ASSUME NEW walk \in HeatWalks, NEW hr \in HR
  PROVE  HeatOne(walk, hr) \in HeatWalks
<1> DEFINE thr == walk.thr
           front == Part(hr, hr.addr, thr.addr)
           gap == Part(thr, thr.addr, hr.addr)
           c == Heated(Common(hr, thr), thr)
           one == <<c>>
           back == Part(hr, EndAddr(thr), EndAddr(hr))
           to == Earlier(EndAddr(hr), EndAddr(thr))
<1>1. walk.hrs \in Seq(HR) /\ thr \in HR
  BY DEF HeatWalks
<1>2. HeatOne(walk, hr) = [hrs |-> walk.hrs \o front \o gap \o one \o back, thr |-> Past(thr, hr)]
  BY Zenon DEF HeatOne
<1>3. Past(thr, hr) = [thr EXCEPT !.addr = to, !.length = EndAddr(thr) - to]
  BY DEF Past
<1> HIDE DEF thr
<1>4. hr.addr \in Int /\ thr.addr \in Int /\ EndAddr(hr) \in Int /\ EndAddr(thr) \in Int
  BY <1>1, HRFields
<1>5. front \in Seq(HR) /\ gap \in Seq(HR) /\ back \in Seq(HR)
  BY <1>1, <1>4, PartIs
<1>6. c \in HR
  BY <1>1, HeatedCommon
<1>7. one \in Seq(HR)
  BY <1>6, OneElement
<1>8. to \in Int /\ EndAddr(thr) - to \in Int
  BY <1>4 DEF Earlier
<1> HIDE DEF front, gap, one, back, c, to
<1>9. Past(thr, hr) \in HR
  BY <1>1, <1>3, <1>8 DEF HR
<1>10. walk.hrs \o front \o gap \o one \o back \in Seq(HR)
  BY <1>1, <1>5, <1>7
<1> QED BY <1>2, <1>9, <1>10 DEF HeatWalks

HeatStart(thr) == [hrs |-> <<>>, thr |-> thr]

LEMMA HeatWalkByWalk ==
  ASSUME NEW mid \in Seq(HR), NEW thr \in HR
  PROVE  \E w \in [0 .. Len(mid) -> HeatWalks] :
            /\ w[0] = HeatStart(thr) /\ w[Len(mid)] = FoldLeft(HeatOne, HeatStart(thr), mid)
            /\ \A k \in 1 .. Len(mid) : w[k] = HeatOne(w[k - 1], mid[k])
<1> DEFINE n == Len(mid)
           base == HeatStart(thr)
           step == [e \in (1 .. n) \X HeatWalks |-> HeatOne(e[2], mid[e[1]])]
           f(g) == [s \in SUBSET DOMAIN mid |->
                      IF s = {} THEN base ELSE HeatOne(g[s \ {Max(s)}], mid[Max(s)])]
           fold == CHOOSE g : g = f(g)
<1>1. FoldLeft(HeatOne, base, mid) = fold[DOMAIN mid]
  BY DEF FoldLeft, MapThenFoldSet
<1>2. n \in Nat /\ DOMAIN mid = 1 .. n /\ (\A i \in 1 .. n : mid[i] \in HR)
  BY ListFields
<1>3. base \in HeatWalks
  BY NoElement DEF HeatWalks, HeatStart
<1>4. step \in [(1 .. n) \X HeatWalks -> HeatWalks]
  BY <1>2, HeatOneTyped
<1>5. \A i \in 1 .. n, x \in HeatWalks : step[<<i, x>>] = HeatOne(x, mid[i])
  OBVIOUS
<1> HIDE DEF step, base, n
<1>6. \A t \in (SUBSET (1 .. n)) \ {{}} : Max(t) \in t /\ Max(t) \in 1 .. n
  BY <1>2, <1>3, <1>4, StepsOfList
<1>7. fold = f(fold)
  <2>1. PICK h : FoldOver(h, n, HeatWalks, base, step)
    BY <1>2, <1>3, <1>4, StepsOfList
  <2>2. ASSUME NEW t \in (SUBSET (1 .. n)) \ {{}}
        PROVE  h[t] = HeatOne(h[t \ {Max(t)}], mid[Max(t)])
    <3>1. h[t \ {Max(t)}] \in HeatWalks /\ Max(t) \in 1 .. n
      BY <1>6, <2>1 DEF FoldOver
    <3> QED BY <1>5, <2>1, <3>1 DEF FoldOver
  <2>3. h = f(h)
    BY <1>2, <2>1, <2>2 DEF FoldOver
  <2> QED BY <2>3
<1> HIDE DEF fold
<1>8. fold[{}] = base
  BY <1>2, <1>7
<1>9. ASSUME NEW t \in (SUBSET (1 .. n)) \ {{}}, fold[t \ {Max(t)}] \in HeatWalks
      PROVE  fold[t] = step[<<Max(t), fold[t \ {Max(t)}]>>]
  <2>1. fold[t] = HeatOne(fold[t \ {Max(t)}], mid[Max(t)])
    BY <1>2, <1>7
  <2> QED BY <1>5, <1>6, <1>9, <2>1
<1> HIDE DEF f
<1>10. PICK w : WalkAlong(w, n, HeatWalks, fold, step)
  <2>1. fold[{}] \in HeatWalks
    BY <1>3, <1>8
  <2> QED BY <1>2, <1>4, <1>9, <2>1, FoldIsWalk
<1>11. \A k \in 1 .. n : w[k] = HeatOne(w[k - 1], mid[k])
  <2> SUFFICES ASSUME NEW k \in 1 .. n PROVE w[k] = HeatOne(w[k - 1], mid[k])
    OBVIOUS
  <2>1. w[k - 1] \in HeatWalks
    BY <1>2, <1>10 DEF WalkAlong
  <2> QED BY <1>5, <1>10, <2>1 DEF WalkAlong
<1> QED BY <1>1, <1>2, <1>8, <1>10, <1>11 DEF n, base, WalkAlong

LEMMA AllHeated ==
  ASSUME NEW mid, NEW thr, Overlapped(mid, thr)
  PROVE  Heating(FoldLeft(HeatOne, HeatStart(thr), mid), mid, Len(mid), thr)
<1>1. mid \in Seq(HR) /\ thr \in HR /\ Len(mid) \in Nat
  BY DEF Overlapped
<1>2. PICK w \in [0 .. Len(mid) -> HeatWalks] :
        /\ w[0] = HeatStart(thr) /\ w[Len(mid)] = FoldLeft(HeatOne, HeatStart(thr), mid)
        /\ \A k \in 1 .. Len(mid) : w[k] = HeatOne(w[k - 1], mid[k])
  BY <1>1, HeatWalkByWalk
<1> DEFINE K == {k \in 0 .. Len(mid) : Heating(w[k], mid, k, thr)}
<1>3. 0 \in K
  BY <1>1, <1>2, HeatingBegins DEF HeatStart
<1>4. ASSUME NEW k \in 1 .. Len(mid), k - 1 \in K PROVE k \in K
  <2>1. w[k] = HeatOne(w[k - 1], mid[k])
    BY <1>2
  <2> QED BY <1>1, <1>4, <2>1, HeatsNext
<1>5. Len(mid) \in K
  <2> HIDE DEF K
  <2>1. K \in SUBSET (0 .. Len(mid))
    BY DEF K
  <2> QED BY <1>1, <1>3, <1>4, <2>1, Upwards
<1> QED BY <1>2, <1>5

-----------------------------------------------------------------------------
(* One counter heats the ranges of a process *)

\* Sorted, apart, and none of them empty.
Proper(hrs) == hrs \in Seq(HR) /\ Chain(hrs, Before) /\ \A x \in ToSet(hrs) : x.length > 0

LEMMA ProperFields ==
  ASSUME NEW hrs, Proper(hrs)
  PROVE  /\ Len(hrs) \in Nat /\ DOMAIN hrs = 1 .. Len(hrs)
         /\ \A i \in DOMAIN hrs :
              /\ hrs[i] \in HR /\ hrs[i].addr \in Int /\ EndAddr(hrs[i]) \in Int /\ hrs[i].length > 0
              /\ hrs[i].addr < EndAddr(hrs[i])
              /\ \A j \in DOMAIN hrs : i < j => EndAddr(hrs[i]) <= hrs[j].addr
<1>1. /\ Len(hrs) \in Nat /\ DOMAIN hrs = 1 .. Len(hrs)
      /\ \A i \in DOMAIN hrs : hrs[i] \in HR /\ hrs[i] \in ToSet(hrs)
  BY ListFields DEF Proper
<1>2. ASSUME NEW i \in DOMAIN hrs
      PROVE  /\ hrs[i] \in HR /\ hrs[i].addr \in Int /\ EndAddr(hrs[i]) \in Int /\ hrs[i].length > 0
             /\ hrs[i].addr < EndAddr(hrs[i])
  <2>1. hrs[i] \in HR /\ hrs[i].length > 0
    BY <1>1 DEF Proper
  <2>2. hrs[i].addr \in Int /\ hrs[i].length \in Int /\ EndAddr(hrs[i]) = hrs[i].addr + hrs[i].length
    BY <2>1, HRFields
  <2> QED BY <2>1, <2>2
<1>3. ASSUME NEW i \in DOMAIN hrs, NEW j \in DOMAIN hrs, i < j PROVE EndAddr(hrs[i]) <= hrs[j].addr
  <2>1. <<hrs[i], hrs[j]>> \in Before
    BY <1>3 DEF Proper, Chain
  <2> QED BY <1>1, <2>1, BeforeIs
<1> QED BY <1>1, <1>2, <1>3

\* First and Behind say which ranges thr overlaps with.
LEMMA Bounds ==
  ASSUME NEW hrs, Proper(hrs), NEW thr \in HR
  PROVE  LET first == First(hrs, thr)
             behind == Behind(hrs, thr)
         IN /\ first \in 1 .. (Len(hrs) + 1) /\ behind \in first .. (Len(hrs) + 1)
            /\ \A i \in DOMAIN hrs :
                 /\ i < first => EndAddr(hrs[i]) <= thr.addr
                 /\ i >= first => EndAddr(hrs[i]) > thr.addr
                 /\ i >= first /\ i < behind => hrs[i].addr < EndAddr(thr)
                 /\ i >= behind => hrs[i].addr >= EndAddr(thr)
<1> DEFINE first == First(hrs, thr)
           behind == Behind(hrs, thr)
           n == Len(hrs)
           F == {i \in DOMAIN hrs : EndAddr(hrs[i]) > thr.addr} \cup {n + 1}
           B == {i \in DOMAIN hrs : i >= first /\ hrs[i].addr >= EndAddr(thr)} \cup {n + 1}
<1>1. /\ n \in Nat /\ DOMAIN hrs = 1 .. n
      /\ \A i \in DOMAIN hrs :
           /\ hrs[i].addr \in Int /\ EndAddr(hrs[i]) \in Int /\ hrs[i].addr < EndAddr(hrs[i])
           /\ \A j \in DOMAIN hrs : i < j => EndAddr(hrs[i]) <= hrs[j].addr
  BY ProperFields
<1>2. thr.addr \in Int /\ EndAddr(thr) \in Int
  BY HRFields
<1>3. F \in SUBSET Nat /\ F # {} /\ first = Min(F) /\ F \subseteq 1 .. (n + 1)
  BY <1>1 DEF First
<1>4. B \in SUBSET Nat /\ B # {} /\ behind = Min(B) /\ B \subseteq 1 .. (n + 1)
  BY <1>1 DEF Behind
<1>5. first \in F /\ \A i \in F : first <= i
  <2> HIDE DEF F, first
  <2> QED BY <1>3, LeastNumber
<1>6. behind \in B /\ \A i \in B : behind <= i
  <2> HIDE DEF B, behind
  <2> QED BY <1>4, LeastNumber
<1>7. first \in 1 .. (n + 1)
  BY <1>3, <1>5
<1>8. behind \in first .. (n + 1)
  <2>1. behind >= first
    BY <1>6, <1>7
  <2> QED BY <2>1, <1>4, <1>6, <1>7
<1> HIDE DEF first, behind
<1>9. ASSUME NEW i \in DOMAIN hrs PROVE i < first => EndAddr(hrs[i]) <= thr.addr
  <2>1. EndAddr(hrs[i]) > thr.addr => first <= i
    BY <1>5
  <2> QED BY <2>1, <1>1, <1>2, <1>7
<1>10. ASSUME NEW i \in DOMAIN hrs, i >= first PROVE EndAddr(hrs[i]) > thr.addr
  <2>1. first \in DOMAIN hrs /\ EndAddr(hrs[first]) > thr.addr
    BY <1>1, <1>5, <1>7, <1>10
  <2>2. i = first \/ EndAddr(hrs[first]) <= hrs[i].addr
    BY <1>1, <1>7, <1>10, <2>1
  <2> QED BY <1>1, <1>2, <2>1, <2>2
<1>11. ASSUME NEW i \in DOMAIN hrs, i >= first, i < behind PROVE hrs[i].addr < EndAddr(thr)
  <2>1. i \notin B
    BY <1>1, <1>6, <1>8, <1>11
  <2> QED BY <1>1, <1>2, <1>11, <2>1
<1>12. ASSUME NEW i \in DOMAIN hrs, i >= behind PROVE hrs[i].addr >= EndAddr(thr)
  <2>1. behind \in DOMAIN hrs /\ hrs[behind].addr >= EndAddr(thr)
    BY <1>1, <1>6, <1>8, <1>12
  <2>2. i = behind \/ EndAddr(hrs[behind]) <= hrs[i].addr
    BY <1>1, <1>8, <1>12, <2>1
  <2> QED BY <1>1, <1>2, <2>1, <2>2
<1> QED BY <1>7, <1>8, <1>9, <1>10, <1>11, <1>12 DEF first, behind, n

\* What a counter with pages makes of a list.
HeatedOnce(new, old, thr) ==
  /\ Proper(new)
  /\ \A pg : HasPage(new, pg) => pg \in PagesIn(thr) \/ HasPage(old, pg)
  /\ \A pg, h, u : pg \notin PagesIn(thr) /\ Tell(old, pg, h, u) => Tell(new, pg, h, u)
  /\ \A y \in ToSet(old) : \A pg \in PagesIn(y) \cap PagesIn(thr) :
       Tell(new, pg, NewHeat(y, thr), thr.updated)
  /\ \A pg \in PagesIn(thr) : ~HasPage(old, pg) => Tell(new, pg, thr.heat, thr.updated)

\* The list before thr, under it, and behind it.
Parted(old, front, mid, back, thr) ==
  /\ Proper(front) /\ Proper(back) /\ Overlapped(mid, thr)
  /\ ToSet(old) = ToSet(front) \cup ToSet(mid) \cup ToSet(back)
  /\ \A x \in ToSet(front) : EndAddr(x) <= thr.addr
  /\ \A x \in ToSet(back) : x.addr >= EndAddr(thr)
  /\ \A x \in ToSet(front) : \A i \in DOMAIN mid : EndAddr(x) <= mid[i].addr
  /\ \A x \in ToSet(back) : \A i \in DOMAIN mid : EndAddr(mid[i]) <= x.addr

LEMMA CutInThree ==
  ASSUME NEW hrs, Proper(hrs), NEW thr \in HR, thr.length > 0
  PROVE  LET first == First(hrs, thr)
             behind == Behind(hrs, thr)
         IN Parted(hrs, SubSeq(hrs, 1, first - 1), SubSeq(hrs, first, behind - 1),
                SubSeq(hrs, behind, Len(hrs)), thr)
<1> DEFINE first == First(hrs, thr)
           behind == Behind(hrs, thr)
           n == Len(hrs)
           front == SubSeq(hrs, 1, first - 1)
           mid == SubSeq(hrs, first, behind - 1)
           back == SubSeq(hrs, behind, n)
<1>1. /\ n \in Nat /\ DOMAIN hrs = 1 .. n
      /\ \A i \in DOMAIN hrs :
           /\ hrs[i].addr \in Int /\ EndAddr(hrs[i]) \in Int /\ hrs[i].length > 0
           /\ hrs[i].addr < EndAddr(hrs[i])
           /\ \A j \in DOMAIN hrs : i < j => EndAddr(hrs[i]) <= hrs[j].addr
  BY ProperFields
<1>2. /\ first \in 1 .. (n + 1) /\ behind \in first .. (n + 1)
      /\ \A i \in DOMAIN hrs :
           /\ i < first => EndAddr(hrs[i]) <= thr.addr
           /\ i >= first => EndAddr(hrs[i]) > thr.addr
           /\ i >= first /\ i < behind => hrs[i].addr < EndAddr(thr)
           /\ i >= behind => hrs[i].addr >= EndAddr(thr)
  BY Bounds
<1> HIDE DEF first, behind
<1>3. hrs \in Seq(HR) /\ Chain(hrs, Before)
  BY DEF Proper
<1>4. /\ front \in Seq(HR) /\ Chain(front, Before) /\ ToSet(front) = {hrs[i] : i \in 1 .. (first - 1)}
  <2>1. 1 \in 1 .. (n + 1) /\ first - 1 \in (1 - 1) .. n
    BY <1>1, <1>2
  <2> QED BY <1>3, <2>1, PartOfList
<1>5. /\ mid \in Seq(HR) /\ Chain(mid, Before) /\ ToSet(mid) = {hrs[i] : i \in first .. (behind - 1)}
      /\ DOMAIN mid = 1 .. (behind - 1 - first + 1)
      /\ \A i \in DOMAIN mid : mid[i] = hrs[first + i - 1] /\ first + i - 1 \in first .. (behind - 1)
  <2>1. first \in 1 .. (n + 1) /\ behind - 1 \in (first - 1) .. n
    BY <1>1, <1>2
  <2> QED BY <1>3, <2>1, PartOfList
<1>6. /\ back \in Seq(HR) /\ Chain(back, Before) /\ ToSet(back) = {hrs[i] : i \in behind .. n}
  <2>1. behind \in 1 .. (n + 1) /\ n \in (behind - 1) .. n
    BY <1>1, <1>2
  <2> QED BY <1>3, <2>1, PartOfList
<1>7. /\ \A i \in 1 .. (first - 1) : i \in DOMAIN hrs /\ i < first /\ i \in Int
      /\ \A i \in first .. (behind - 1) : i \in DOMAIN hrs /\ i >= first /\ i < behind /\ i \in Int
      /\ \A i \in behind .. n : i \in DOMAIN hrs /\ i >= behind /\ i \in Int
      /\ \A i \in DOMAIN hrs : i \in 1 .. (first - 1) \/ i \in first .. (behind - 1) \/ i \in behind .. n
  BY <1>1, <1>2
<1> HIDE DEF front, mid, back, n
<1>8. Proper(front)
  BY <1>1, <1>4, <1>7 DEF Proper
<1>9. Proper(back)
  BY <1>1, <1>6, <1>7 DEF Proper
<1>10. Overlapped(mid, thr)
  <2>1. ASSUME NEW i \in DOMAIN mid
        PROVE  mid[i].length > 0 /\ mid[i].addr < EndAddr(thr) /\ thr.addr < EndAddr(mid[i])
    <3>1. first + i - 1 \in DOMAIN hrs /\ first + i - 1 >= first /\ first + i - 1 < behind
          /\ mid[i] = hrs[first + i - 1]
      BY <1>5, <1>7
    <3>2. thr.addr \in Int
      BY HRFields
    <3> QED BY <1>1, <1>2, <3>1, <3>2
  <2> QED BY <1>5, <2>1 DEF Overlapped
<1>11. ToSet(hrs) = ToSet(front) \cup ToSet(mid) \cup ToSet(back)
  <2>1. ToSet(hrs) = {hrs[i] : i \in DOMAIN hrs}
    BY DEF ToSet
  <2>2. \A x \in ToSet(hrs) : x \in ToSet(front) \cup ToSet(mid) \cup ToSet(back)
    BY <1>4, <1>5, <1>6, <1>7, <2>1
  <2>3. \A x \in ToSet(front) \cup ToSet(mid) \cup ToSet(back) : x \in ToSet(hrs)
    BY <1>4, <1>5, <1>6, <1>7, <2>1
  <2> QED BY <2>2, <2>3
<1>12. ASSUME NEW x \in ToSet(front)
       PROVE  EndAddr(x) <= thr.addr /\ \A i \in DOMAIN mid : EndAddr(x) <= mid[i].addr
  <2>1. PICK j \in 1 .. (first - 1) : x = hrs[j]
    BY <1>4
  <2>2. j \in DOMAIN hrs /\ j < first
    BY <1>7
  <2>3. ASSUME NEW i \in DOMAIN mid PROVE EndAddr(x) <= mid[i].addr
    <3>1. first + i - 1 \in DOMAIN hrs /\ first + i - 1 >= first /\ mid[i] = hrs[first + i - 1]
      BY <1>5, <1>7
    <3>2. j < first + i - 1
      BY <1>1, <1>2, <2>2, <3>1
    <3> QED BY <1>1, <2>1, <2>2, <3>1, <3>2
  <2> QED BY <1>2, <2>1, <2>2, <2>3
<1>13. ASSUME NEW x \in ToSet(back)
       PROVE  x.addr >= EndAddr(thr) /\ \A i \in DOMAIN mid : EndAddr(mid[i]) <= x.addr
  <2>1. PICK j \in behind .. n : x = hrs[j]
    BY <1>6
  <2>2. j \in DOMAIN hrs /\ j >= behind
    BY <1>7
  <2>3. ASSUME NEW i \in DOMAIN mid PROVE EndAddr(mid[i]) <= x.addr
    <3>1. first + i - 1 \in DOMAIN hrs /\ first + i - 1 < behind /\ mid[i] = hrs[first + i - 1]
      BY <1>5, <1>7
    <3>2. first + i - 1 < j
      BY <1>1, <1>2, <2>2, <3>1
    <3> QED BY <1>1, <2>1, <2>2, <3>1, <3>2
  <2> QED BY <1>2, <2>1, <2>2, <2>3
<1>14. Parted(hrs, front, mid, back, thr)
  BY <1>8, <1>9, <1>10, <1>11, <1>12, <1>13 DEF Parted
<1> QED BY <1>14 DEF front, mid, back, first, behind, n

Rest(walk) == Part(walk.thr, walk.thr.addr, EndAddr(walk.thr))

\* What is left of thr behind the last range it overlaps with.
LEMMA RestIs ==
  ASSUME NEW mid, NEW thr, Overlapped(mid, thr), NEW walk, GoneOn(walk, mid, Len(mid), thr)
  PROVE  /\ Rest(walk) \in Seq(HR) /\ Chain(Rest(walk), Before)
         /\ (ToSet(Rest(walk)) # {} <=> walk.thr.addr < EndAddr(thr))
         /\ thr.addr <= walk.thr.addr /\ walk.thr.addr \in Int
         /\ \A x \in ToSet(Rest(walk)) :
              /\ x \in HR /\ x.addr = walk.thr.addr /\ EndAddr(x) = EndAddr(thr) /\ x.length > 0
              /\ x.heat = thr.heat /\ x.updated = thr.updated
              /\ Len(mid) > 0 => EndAddr(mid[Len(mid)]) = x.addr
<1> DEFINE n == Len(mid)
           w == walk.thr
           rest == Rest(walk)
<1>1. /\ w \in HR /\ w.heat = thr.heat /\ w.updated = thr.updated /\ EndAddr(w) = EndAddr(thr)
      /\ n = 0 => w.addr = thr.addr
      /\ n > 0 => w.addr = Earlier(EndAddr(mid[n]), EndAddr(thr))
  BY DEF GoneOn, HeatWalks
<1>2. w.addr \in Int /\ EndAddr(w) \in Int
  BY <1>1, HRFields
<1>3. thr \in HR /\ thr.length > 0 /\ n \in Nat /\ DOMAIN mid = 1 .. n
  BY DEF Overlapped
<1>4. thr.addr \in Int /\ thr.length \in Int /\ EndAddr(thr) = thr.addr + thr.length
  BY <1>3, HRFields
<1>5. n > 0 => mid[n] \in HR /\ thr.addr < EndAddr(mid[n]) /\ EndAddr(mid[n]) \in Int
  <2> SUFFICES ASSUME n > 0 PROVE mid[n] \in HR /\ thr.addr < EndAddr(mid[n]) /\ EndAddr(mid[n]) \in Int
    OBVIOUS
  <2>1. n \in DOMAIN mid
    BY <1>3
  <2>2. mid[n] \in HR /\ thr.addr < EndAddr(mid[n])
    BY <1>3, <2>1 DEF Overlapped
  <2> QED BY <2>2, HRFields
<1> HIDE DEF n, w
<1>6. thr.addr <= w.addr
  <2>1. CASE n = 0
    BY <1>1, <1>4, <2>1
  <2>2. CASE n > 0
    BY <1>1, <1>3, <1>4, <1>5, <2>2 DEF Earlier
  <2> QED BY <1>3, <2>1, <2>2
<1>7. rest = Part(w, w.addr, EndAddr(w))
  BY DEF Rest, w
<1> HIDE DEF rest
<1>8. /\ rest \in Seq(HR) /\ Chain(rest, Before) /\ (ToSet(rest) # {} <=> w.addr < EndAddr(w))
      /\ \A x \in ToSet(rest) : Stretch(x, w, w.addr, EndAddr(w))
  BY <1>1, <1>2, <1>7, PartIs
<1>9. ASSUME NEW x \in ToSet(rest)
      PROVE  /\ x \in HR /\ x.addr = w.addr /\ EndAddr(x) = EndAddr(thr) /\ x.length > 0
             /\ x.heat = thr.heat /\ x.updated = thr.updated
             /\ n > 0 => EndAddr(mid[n]) = x.addr
  <2>1. w.addr < EndAddr(w)
    BY <1>8, <1>9
  <2>2. /\ x \in HR /\ x.addr = w.addr /\ EndAddr(x) = EndAddr(w) /\ x.length = EndAddr(w) - w.addr
        /\ x.heat = w.heat /\ x.updated = w.updated
    BY <1>8, <1>9 DEF Stretch
  <2>3. x.length > 0
    BY <1>2, <2>1, <2>2
  <2>4. n > 0 => EndAddr(mid[n]) = w.addr
    BY <1>1, <1>2, <1>5, <2>1 DEF Earlier
  <2> QED BY <1>1, <2>2, <2>3, <2>4
<1> QED BY <1>1, <1>2, <1>6, <1>8, <1>9 DEF n, w, rest

\* Together they are as a list must be.
LEMMA HeatedShape ==
  ASSUME NEW old, NEW front, NEW mid, NEW back, NEW thr \in HR, Parted(old, front, mid, back, thr),
         NEW walk, GoneOn(walk, mid, Len(mid), thr), ListedSoFar(walk, mid, Len(mid), thr)
  PROVE  LET new == front \o walk.hrs \o Rest(walk) \o back IN
         /\ Proper(new) /\ walk.hrs \in Seq(HR)
         /\ ToSet(new) = ToSet(front) \cup ToSet(walk.hrs) \cup ToSet(Rest(walk)) \cup ToSet(back)
         /\ \A pg, h, u : Tell(new, pg, h, u) <=> \/ Tell(front, pg, h, u) \/ Tell(walk.hrs, pg, h, u)
                                                  \/ Tell(Rest(walk), pg, h, u) \/ Tell(back, pg, h, u)
         /\ \A pg : HasPage(new, pg) <=> \/ HasPage(front, pg) \/ HasPage(walk.hrs, pg)
                                         \/ HasPage(Rest(walk), pg) \/ HasPage(back, pg)
<1> DEFINE n == Len(mid)
           under == walk.hrs
           rest == Rest(walk)
           two == front \o under
           three == two \o rest
           new == three \o back
<1>1. /\ front \in Seq(HR) /\ Chain(front, Before) /\ back \in Seq(HR) /\ Chain(back, Before)
      /\ \A x \in ToSet(front) : x.length > 0
      /\ \A x \in ToSet(back) : x.length > 0
      /\ Overlapped(mid, thr)
  BY DEF Parted, Proper
<1>2. n \in Nat /\ DOMAIN mid = 1 .. n /\ thr.length > 0
  BY <1>1 DEF Overlapped
<1>3. under \in Seq(HR) /\ Chain(under, Before)
  BY DEF GoneOn, HeatWalks, ListedSoFar
<1>4. /\ rest \in Seq(HR) /\ Chain(rest, Before) /\ thr.addr <= walk.thr.addr /\ walk.thr.addr \in Int
      /\ \A x \in ToSet(rest) :
              /\ x \in HR /\ x.addr = walk.thr.addr /\ EndAddr(x) = EndAddr(thr) /\ x.length > 0
              /\ n > 0 => EndAddr(mid[n]) = x.addr
  BY <1>1, RestIs
<1>5. /\ \A x \in ToSet(front) : x \in HR
      /\ \A x \in ToSet(under) : x \in HR
      /\ \A x \in ToSet(back) : x \in HR
  BY <1>1, <1>3, ListFields
<1>6. ASSUME n > 0
      PROVE  /\ mid[1] \in HR /\ mid[n] \in HR /\ mid[1].addr \in Int /\ EndAddr(mid[n]) \in Int
             /\ 1 \in DOMAIN mid /\ n \in DOMAIN mid
  <2>1. 1 \in DOMAIN mid /\ n \in DOMAIN mid
    BY <1>2, <1>6
  <2>2. mid[1] \in HR /\ mid[n] \in HR
    BY <1>1, <2>1 DEF Overlapped
  <2> QED BY <2>1, <2>2, HRFields
<1>7. \A x \in ToSet(under) :
        /\ x.length > 0 /\ n > 0 /\ EndAddr(x) <= EndAddr(mid[n])
        /\ x.addr >= mid[1].addr \/ x.addr >= thr.addr
  BY DEF ListedSoFar
<1>8. \A x \in ToSet(front) : EndAddr(x) <= thr.addr /\ \A i \in DOMAIN mid : EndAddr(x) <= mid[i].addr
  BY DEF Parted
<1>9. \A x \in ToSet(back) : x.addr >= EndAddr(thr) /\ \A i \in DOMAIN mid : EndAddr(mid[i]) <= x.addr
  BY DEF Parted
<1>10. thr.addr \in Int /\ EndAddr(thr) \in Int /\ thr.addr < EndAddr(thr)
  <2>1. thr.addr \in Int /\ thr.length \in Int /\ EndAddr(thr) = thr.addr + thr.length
    BY HRFields
  <2> QED BY <1>2, <2>1
<1> HIDE DEF n, under, rest
<1>11. ASSUME NEW x \in ToSet(front), NEW y \in ToSet(under) PROVE <<x, y>> \in Before
  <2>1. x \in HR /\ y \in HR /\ EndAddr(x) \in Int /\ y.addr \in Int
    BY <1>5, HRFields
  <2>2. CASE y.addr >= mid[1].addr
    <3>1. EndAddr(x) <= mid[1].addr /\ mid[1].addr \in Int
      BY <1>6, <1>7, <1>8
    <3>2. EndAddr(x) <= y.addr
      BY <2>1, <2>2, <3>1
    <3> QED BY <2>1, <3>2, BeforeIs
  <2>3. CASE y.addr >= thr.addr
    <3>1. EndAddr(x) <= y.addr
      BY <1>8, <1>10, <2>1, <2>3
    <3> QED BY <2>1, <3>1, BeforeIs
  <2> QED BY <1>7, <2>2, <2>3
<1>12. ASSUME NEW x \in ToSet(front), NEW y \in ToSet(rest) PROVE <<x, y>> \in Before
  <2>1. x \in HR /\ y \in HR /\ EndAddr(x) \in Int /\ EndAddr(x) <= thr.addr /\ y.addr = walk.thr.addr
    BY <1>4, <1>5, <1>8, HRFields
  <2>2. EndAddr(x) <= y.addr
    BY <1>4, <1>10, <2>1
  <2> QED BY <2>1, <2>2, BeforeIs
<1>13. ASSUME NEW x \in ToSet(front), NEW y \in ToSet(back) PROVE <<x, y>> \in Before
  <2>1. x \in HR /\ y \in HR /\ EndAddr(x) \in Int /\ y.addr \in Int
    BY <1>5, HRFields
  <2>2. EndAddr(x) <= y.addr
    BY <1>8, <1>9, <1>10, <2>1
  <2> QED BY <2>1, <2>2, BeforeIs
<1>14. ASSUME NEW x \in ToSet(under), NEW y \in ToSet(rest) PROVE <<x, y>> \in Before
  <2>1. x \in HR /\ y \in HR /\ n > 0 /\ EndAddr(x) <= EndAddr(mid[n]) /\ EndAddr(mid[n]) = y.addr
    BY <1>4, <1>5, <1>7
  <2>2. EndAddr(x) <= y.addr
    BY <2>1
  <2> QED BY <2>1, <2>2, BeforeIs
<1>15. ASSUME NEW x \in ToSet(under), NEW y \in ToSet(back) PROVE <<x, y>> \in Before
  <2>1. x \in HR /\ y \in HR /\ EndAddr(x) \in Int /\ y.addr \in Int
    BY <1>5, HRFields
  <2>2. n > 0 /\ EndAddr(x) <= EndAddr(mid[n]) /\ EndAddr(mid[n]) <= y.addr /\ EndAddr(mid[n]) \in Int
    BY <1>6, <1>7, <1>9
  <2>3. EndAddr(x) <= y.addr
    BY <2>1, <2>2
  <2> QED BY <2>1, <2>3, BeforeIs
<1>16. ASSUME NEW x \in ToSet(rest), NEW y \in ToSet(back) PROVE <<x, y>> \in Before
  <2>1. x \in HR /\ y \in HR /\ EndAddr(x) = EndAddr(thr) /\ y.addr >= EndAddr(thr) /\ y.addr \in Int
    BY <1>4, <1>5, <1>9, HRFields
  <2>2. EndAddr(x) <= y.addr
    BY <1>10, <2>1
  <2> QED BY <2>1, <2>2, BeforeIs
<1> HIDE DEF two, three, new
<1>17. two \in Seq(HR) /\ ToSet(two) = ToSet(front) \cup ToSet(under) /\ Chain(two, Before)
  <2>1. two \in Seq(HR) /\ ToSet(two) = ToSet(front) \cup ToSet(under)
    BY <1>1, <1>3, Joining DEF two
  <2>2. Chain(two, Before)
    BY <1>1, <1>3, <1>11, JoinedChain DEF two
  <2> QED BY <2>1, <2>2
<1>18. three \in Seq(HR) /\ ToSet(three) = ToSet(two) \cup ToSet(rest) /\ Chain(three, Before)
  <2>1. three \in Seq(HR) /\ ToSet(three) = ToSet(two) \cup ToSet(rest)
    BY <1>4, <1>17, Joining DEF three
  <2>2. \A x \in ToSet(two), y \in ToSet(rest) : <<x, y>> \in Before
    BY <1>12, <1>14, <1>17, Zenon
  <2>3. Chain(three, Before)
    BY <1>4, <1>17, <2>2, JoinedChain DEF three
  <2> QED BY <2>1, <2>3
<1>19. new \in Seq(HR) /\ ToSet(new) = ToSet(three) \cup ToSet(back) /\ Chain(new, Before)
  <2>1. new \in Seq(HR) /\ ToSet(new) = ToSet(three) \cup ToSet(back)
    BY <1>1, <1>18, Joining DEF new
  <2>2. \A x \in ToSet(three), y \in ToSet(back) : <<x, y>> \in Before
    BY <1>13, <1>15, <1>16, <1>17, <1>18, Zenon
  <2>3. Chain(new, Before)
    BY <1>1, <1>18, <2>2, JoinedChain DEF new
  <2> QED BY <2>1, <2>3
<1>20. ToSet(new) = ToSet(front) \cup ToSet(under) \cup ToSet(rest) \cup ToSet(back)
  BY <1>17, <1>18, <1>19
<1>21. Proper(new)
  BY <1>1, <1>4, <1>7, <1>19, <1>20 DEF Proper
<1>22. \A pg, h, u : Tell(new, pg, h, u) <=> \/ Tell(front, pg, h, u) \/ Tell(under, pg, h, u)
                                             \/ Tell(rest, pg, h, u) \/ Tell(back, pg, h, u)
  BY <1>20 DEF Tell
<1>23. \A pg : HasPage(new, pg) <=> \/ HasPage(front, pg) \/ HasPage(under, pg)
                                    \/ HasPage(rest, pg) \/ HasPage(back, pg)
  BY <1>20 DEF HasPage
<1>24. new = front \o walk.hrs \o Rest(walk) \o back
  BY Zenon DEF new, three, two, under, rest
<1> QED BY <1>3, <1>20, <1>21, <1>22, <1>23, <1>24, Zenon DEF under, rest

\* The four parts have the heats they must have.
LEMMA HeatedTells ==
  ASSUME NEW old, NEW front, NEW mid, NEW back, NEW thr \in HR, Parted(old, front, mid, back, thr),
         NEW walk, GoneOn(walk, mid, Len(mid), thr), ToldSoFar(walk, mid, Len(mid), thr),
         NEW new, Proper(new),
         \A pg, h, u : Tell(new, pg, h, u) <=> \/ Tell(front, pg, h, u) \/ Tell(walk.hrs, pg, h, u)
                                               \/ Tell(Rest(walk), pg, h, u) \/ Tell(back, pg, h, u),
         \A pg : HasPage(new, pg) <=> \/ HasPage(front, pg) \/ HasPage(walk.hrs, pg)
                                      \/ HasPage(Rest(walk), pg) \/ HasPage(back, pg)
  PROVE  HeatedOnce(new, old, thr)
<1> DEFINE n == Len(mid)
           at == walk.thr.addr
           rest == Rest(walk)
<1>1. Overlapped(mid, thr) /\ ToSet(old) = ToSet(front) \cup ToSet(mid) \cup ToSet(back)
  BY DEF Parted
<1>2. /\ n \in Nat /\ DOMAIN mid = 1 .. n
      /\ \A x \in ToSet(mid) : \E j \in 1 .. n : x = mid[j]
      /\ \A j \in 1 .. n : mid[j] \in ToSet(mid)
  <2>1. mid \in Seq(HR)
    BY <1>1 DEF Overlapped
  <2> QED BY <2>1, ListFields
<1>3. /\ (ToSet(rest) # {} <=> at < EndAddr(thr)) /\ thr.addr <= at /\ at \in Int
      /\ \A x \in ToSet(rest) :
              /\ x \in HR /\ x.addr = at /\ EndAddr(x) = EndAddr(thr)
              /\ x.heat = thr.heat /\ x.updated = thr.updated
  BY <1>1, RestIs
<1>4. /\ thr.addr \in Int /\ EndAddr(thr) \in Int
      /\ \A pg : pg \in PagesIn(thr) <=> pg \in Int /\ thr.addr <= pg /\ pg < EndAddr(thr)
  BY HRFields
<1>5. at <= EndAddr(thr)
  <2>1. CASE n = 0
    <3>1. at = thr.addr /\ thr.length > 0 /\ thr.length \in Int /\ EndAddr(thr) = thr.addr + thr.length
      BY <1>1, <2>1, HRFields DEF GoneOn, Overlapped
    <3> QED BY <1>4, <3>1
  <2>2. CASE n > 0
    <3>1. at = Earlier(EndAddr(mid[n]), EndAddr(thr))
      BY <2>2 DEF GoneOn
    <3>2. n \in DOMAIN mid
      BY <1>2, <2>2
    <3>3. mid[n] \in HR
      BY <1>1, <3>2 DEF Overlapped
    <3>4. EndAddr(mid[n]) \in Int
      BY <3>3, HRFields
    <3> QED BY <1>4, <3>1, <3>4 DEF Earlier
  <2> QED BY <1>2, <2>1, <2>2
<1>6. /\ \A pg : HasPage(walk.hrs, pg) => OneOf(mid, n, pg) \/ (pg \in Int /\ thr.addr <= pg /\ pg < at)
      /\ \A j \in 1 .. n : \A pg \in PagesIn(mid[j]) :
           IF pg < thr.addr \/ pg >= EndAddr(thr) THEN Tell(walk.hrs, pg, mid[j].heat, mid[j].updated)
           ELSE Tell(walk.hrs, pg, NewHeat(mid[j], thr), thr.updated)
      /\ \A pg \in Int : thr.addr <= pg /\ pg < at /\ ~OneOf(mid, n, pg) =>
           Tell(walk.hrs, pg, thr.heat, thr.updated)
  BY DEF ToldSoFar
<1>7. \A x \in ToSet(front) : x \in HR /\ EndAddr(x) <= thr.addr
  BY ListFields DEF Parted, Proper
<1>8. \A x \in ToSet(back) : x \in HR /\ x.addr >= EndAddr(thr)
  BY ListFields DEF Parted, Proper
<1>9. \A j \in 1 .. n : mid[j] \in HR
  BY <1>1, <1>2 DEF Overlapped
<1>10. \A x \in HR : \A pg : pg \in PagesIn(x) <=> pg \in Int /\ x.addr <= pg /\ pg < EndAddr(x)
  BY HRFields
<1> HIDE DEF n, at, rest
<1>11. \A pg, h, u : Tell(new, pg, h, u) <=> \/ Tell(front, pg, h, u) \/ Tell(walk.hrs, pg, h, u)
                                             \/ Tell(rest, pg, h, u) \/ Tell(back, pg, h, u)
  BY DEF rest
<1>12. \A pg : HasPage(new, pg) => \/ HasPage(front, pg) \/ HasPage(walk.hrs, pg)
                                   \/ HasPage(rest, pg) \/ HasPage(back, pg)
  BY DEF rest
<1>13. \A pg : OneOf(mid, n, pg) => HasPage(old, pg)
  BY <1>1, <1>2 DEF OneOf, HasPage
<1>14. ASSUME NEW pg, HasPage(new, pg) PROVE pg \in PagesIn(thr) \/ HasPage(old, pg)
  <2>1. CASE HasPage(front, pg) \/ HasPage(back, pg)
    BY <1>1, <2>1 DEF HasPage
  <2>2. CASE HasPage(walk.hrs, pg)
    BY <1>3, <1>4, <1>5, <1>6, <1>13, <2>2
  <2>3. CASE HasPage(rest, pg)
    <3>1. PICK x \in ToSet(rest) : pg \in PagesIn(x)
      BY <2>3 DEF HasPage
    <3>2. pg \in Int /\ at <= pg /\ pg < EndAddr(thr)
      BY <1>3, <1>10, <3>1
    <3> QED BY <1>3, <1>4, <3>2
  <2> QED BY <1>12, <1>14, <2>1, <2>2, <2>3
<1>15. ASSUME NEW pg, NEW h, NEW u, pg \notin PagesIn(thr), Tell(old, pg, h, u) PROVE Tell(new, pg, h, u)
  <2>1. PICK x \in ToSet(old) : pg \in PagesIn(x) /\ x.heat = h /\ x.updated = u
    BY <1>15 DEF Tell
  <2>2. CASE x \in ToSet(front) \/ x \in ToSet(back)
    <3>1. Tell(front, pg, h, u) \/ Tell(back, pg, h, u)
      BY <2>1, <2>2 DEF Tell
    <3> QED BY <1>11, <3>1
  <2>3. CASE x \in ToSet(mid)
    <3>1. PICK j \in 1 .. n : x = mid[j]
      BY <1>2, <2>3
    <3>2. pg \in Int /\ pg \in PagesIn(mid[j])
      BY <1>9, <1>10, <2>1, <3>1
    <3>3. pg < thr.addr \/ pg >= EndAddr(thr)
      BY <1>4, <1>15, <3>2
    <3>4. Tell(walk.hrs, pg, h, u)
      BY <1>6, <2>1, <3>1, <3>2, <3>3
    <3> QED BY <1>11, <3>4
  <2> QED BY <1>1, <2>2, <2>3
<1>16. ASSUME NEW y \in ToSet(old), NEW pg \in PagesIn(y) \cap PagesIn(thr)
       PROVE  Tell(new, pg, NewHeat(y, thr), thr.updated)
  <2>1. pg \in Int /\ thr.addr <= pg /\ pg < EndAddr(thr)
    BY <1>4
  <2>2. y \notin ToSet(front)
    <3> SUFFICES ASSUME y \in ToSet(front) PROVE FALSE
      OBVIOUS
    <3>1. y \in HR /\ EndAddr(y) <= thr.addr /\ pg < EndAddr(y) /\ EndAddr(y) \in Int
      BY <1>7, <1>10, HRFields
    <3> QED BY <1>4, <2>1, <3>1
  <2>3. y \notin ToSet(back)
    <3> SUFFICES ASSUME y \in ToSet(back) PROVE FALSE
      OBVIOUS
    <3>1. y \in HR /\ y.addr >= EndAddr(thr) /\ y.addr <= pg /\ y.addr \in Int
      BY <1>8, <1>10, HRFields
    <3> QED BY <1>4, <2>1, <3>1
  <2>4. PICK j \in 1 .. n : y = mid[j]
    BY <1>1, <1>2, <2>2, <2>3
  <2>5. ~(pg < thr.addr \/ pg >= EndAddr(thr))
    BY <1>4, <2>1
  <2>6. Tell(walk.hrs, pg, NewHeat(y, thr), thr.updated)
    BY <1>6, <2>4, <2>5
  <2> QED BY <1>11, <2>6
<1>17. ASSUME NEW pg \in PagesIn(thr), ~HasPage(old, pg) PROVE Tell(new, pg, thr.heat, thr.updated)
  <2>1. pg \in Int /\ thr.addr <= pg /\ pg < EndAddr(thr) /\ ~OneOf(mid, n, pg)
    BY <1>4, <1>13, <1>17
  <2>2. CASE pg < at
    BY <1>6, <1>11, <2>1, <2>2
  <2>3. CASE at <= pg
    <3>1. PICK x \in ToSet(rest) : TRUE
      BY <1>3, <1>4, <2>1, <2>3
    <3>2. pg \in PagesIn(x)
      BY <1>3, <1>10, <2>1, <2>3
    <3>3. Tell(rest, pg, thr.heat, thr.updated)
      BY <1>3, <3>2 DEF Tell
    <3> QED BY <1>11, <3>3
  <2> QED BY <1>3, <2>1, <2>2, <2>3
<1> QED BY <1>14, <1>15, <1>16, <1>17 DEF HeatedOnce

\* No range of a list reaches across an address.
NoneAround(l, e) == \A x \in ToSet(l) : x.addr >= e \/ EndAddr(x) <= e

\* Where a counter ends, a range ends or starts; where none was split before thr, none is.
EdgesKept(new, old, thr) ==
  /\ NoneAround(new, EndAddr(thr))
  /\ \A e \in Int : e <= thr.addr /\ NoneAround(old, e) => NoneAround(new, e)

LEMMA HeatedEdges ==
  ASSUME NEW old, NEW front, NEW mid, NEW back, NEW thr \in HR, Parted(old, front, mid, back, thr),
         NEW walk, GoneOn(walk, mid, Len(mid), thr), ListedSoFar(walk, mid, Len(mid), thr),
         NEW new, Proper(new),
         ToSet(new) = ToSet(front) \cup ToSet(walk.hrs) \cup ToSet(Rest(walk)) \cup ToSet(back)
  PROVE  EdgesKept(new, old, thr)
<1> DEFINE n == Len(mid)
           under == walk.hrs
           rest == Rest(walk)
<1>1. /\ Overlapped(mid, thr) /\ ToSet(old) = ToSet(front) \cup ToSet(mid) \cup ToSet(back)
      /\ \A x \in ToSet(front) : EndAddr(x) <= thr.addr
      /\ \A x \in ToSet(back) : x.addr >= EndAddr(thr)
  BY DEF Parted
<1>2. /\ \A x \in ToSet(rest) : x.addr = walk.thr.addr /\ EndAddr(x) = EndAddr(thr)
      /\ thr.addr <= walk.thr.addr /\ walk.thr.addr \in Int
  BY <1>1, RestIs
<1>3. \A x \in ToSet(under) :
        /\ n > 0
        /\ x.addr >= thr.addr \/ (x.addr >= mid[1].addr /\ EndAddr(x) <= thr.addr)
        /\ EndAddr(x) <= EndAddr(thr) \/ x.addr >= EndAddr(thr)
  BY DEF ListedSoFar
<1>4. n > 0 => /\ mid[1] \in ToSet(mid) /\ mid[1].addr \in Int /\ EndAddr(mid[1]) \in Int
               /\ thr.addr < EndAddr(mid[1])
  <2> SUFFICES ASSUME n > 0 PROVE /\ mid[1] \in ToSet(mid) /\ mid[1].addr \in Int /\ EndAddr(mid[1]) \in Int
                                  /\ thr.addr < EndAddr(mid[1])
    OBVIOUS
  <2>1. mid \in Seq(HR)
    BY <1>1 DEF Overlapped
  <2>2. n \in Nat /\ DOMAIN mid = 1 .. n
    BY <2>1
  <2>3. 1 \in DOMAIN mid
    BY <2>2
  <2>4. mid[1] \in HR /\ mid[1] \in ToSet(mid)
    BY <2>1, <2>3, ListFields
  <2>5. thr.addr < EndAddr(mid[1])
    BY <1>1, <2>3 DEF Overlapped
  <2> QED BY <2>4, <2>5, HRFields
<1>5. thr.addr \in Int /\ EndAddr(thr) \in Int /\ thr.addr <= EndAddr(thr)
  <2>1. thr.length > 0 /\ thr.addr \in Int /\ thr.length \in Int /\ EndAddr(thr) = thr.addr + thr.length
    BY <1>1, HRFields DEF Overlapped
  <2> QED BY <2>1
<1>6. \A x \in ToSet(new) : x.addr \in Int /\ EndAddr(x) \in Int
  <2>1. \A x \in ToSet(new) : x \in HR
    BY ListFields DEF Proper
  <2> QED BY <2>1, HRFields
<1> HIDE DEF n, under, rest
<1>7. ToSet(new) = ToSet(front) \cup ToSet(under) \cup ToSet(rest) \cup ToSet(back)
  BY DEF under, rest
<1>8. NoneAround(new, EndAddr(thr))
  <2> SUFFICES ASSUME NEW x \in ToSet(new) PROVE x.addr >= EndAddr(thr) \/ EndAddr(x) <= EndAddr(thr)
    BY DEF NoneAround
  <2>1. CASE x \in ToSet(front)
    <3>1. EndAddr(x) <= thr.addr
      BY <1>1, <2>1
    <3> QED BY <1>5, <1>6, <3>1
  <2>2. CASE x \in ToSet(under)
    BY <1>3, <2>2
  <2>3. CASE x \in ToSet(rest)
    <3>1. EndAddr(x) = EndAddr(thr)
      BY <1>2, <2>3
    <3> QED BY <1>5, <3>1
  <2>4. CASE x \in ToSet(back)
    BY <1>1, <2>4
  <2> QED BY <1>7, <2>1, <2>2, <2>3, <2>4
<1>9. ASSUME NEW e \in Int, e <= thr.addr, NoneAround(old, e) PROVE NoneAround(new, e)
  <2> SUFFICES ASSUME NEW x \in ToSet(new) PROVE x.addr >= e \/ EndAddr(x) <= e
    BY DEF NoneAround
  <2>0. x.addr \in Int /\ EndAddr(x) \in Int
    BY <1>6
  <2>1. CASE x \in ToSet(front) \/ x \in ToSet(back)
    BY <1>1, <1>9, <2>1 DEF NoneAround
  <2>2. CASE x \in ToSet(under)
    <3>1. CASE x.addr >= thr.addr
      BY <1>5, <1>9, <2>0, <3>1
    <3>2. CASE x.addr >= mid[1].addr /\ EndAddr(x) <= thr.addr
      <4>1. /\ mid[1] \in ToSet(old) /\ mid[1].addr \in Int /\ EndAddr(mid[1]) \in Int
            /\ thr.addr < EndAddr(mid[1])
        BY <1>1, <1>3, <1>4, <2>2
      <4>2. mid[1].addr >= e \/ EndAddr(mid[1]) <= e
        BY <1>9, <4>1 DEF NoneAround
      <4> QED BY <1>5, <1>9, <2>0, <3>2, <4>1, <4>2
    <3> QED BY <1>3, <2>2, <3>1, <3>2
  <2>3. CASE x \in ToSet(rest)
    <3>1. x.addr = walk.thr.addr
      BY <1>2, <2>3
    <3> QED BY <1>2, <1>5, <1>9, <3>1
  <2> QED BY <1>7, <2>1, <2>2, <2>3
<1> QED BY <1>8, <1>9 DEF EdgesKept

LEMMA HeatedByIs ==
  ASSUME NEW hrs, Proper(hrs), NEW thr \in HR, thr.length > 0
  PROVE  HeatedOnce(HeatedBy(hrs, thr), hrs, thr) /\ EdgesKept(HeatedBy(hrs, thr), hrs, thr)
<1> DEFINE first == First(hrs, thr)
           behind == Behind(hrs, thr)
           front == SubSeq(hrs, 1, first - 1)
           mid == SubSeq(hrs, first, behind - 1)
           back == SubSeq(hrs, behind, Len(hrs))
           walk == FoldLeft(HeatOne, HeatStart(thr), mid)
           new == front \o walk.hrs \o Rest(walk) \o back
<1>1. HeatedBy(hrs, thr) = new
  BY Zenon DEF HeatedBy, HeatStart, Rest
<1>2. Parted(hrs, front, mid, back, thr)
  BY CutInThree
<1> HIDE DEF first, behind, front, mid, back
<1>3. Overlapped(mid, thr)
  BY <1>2 DEF Parted
<1>4. Heating(walk, mid, Len(mid), thr)
  BY <1>3, AllHeated
<1> HIDE DEF walk
<1>5. /\ GoneOn(walk, mid, Len(mid), thr) /\ ListedSoFar(walk, mid, Len(mid), thr)
      /\ ToldSoFar(walk, mid, Len(mid), thr)
  BY <1>4 DEF Heating
<1>6. /\ Proper(new)
      /\ ToSet(new) = ToSet(front) \cup ToSet(walk.hrs) \cup ToSet(Rest(walk)) \cup ToSet(back)
      /\ \A pg, h, u : Tell(new, pg, h, u) <=> \/ Tell(front, pg, h, u) \/ Tell(walk.hrs, pg, h, u)
                                               \/ Tell(Rest(walk), pg, h, u) \/ Tell(back, pg, h, u)
      /\ \A pg : HasPage(new, pg) <=> \/ HasPage(front, pg) \/ HasPage(walk.hrs, pg)
                                      \/ HasPage(Rest(walk), pg) \/ HasPage(back, pg)
  BY <1>2, <1>5, HeatedShape
<1> HIDE DEF new
<1>7. HeatedOnce(new, hrs, thr)
  BY <1>2, <1>5, <1>6, HeatedTells
<1>8. EdgesKept(new, hrs, thr)
  BY <1>2, <1>5, <1>6, HeatedEdges
<1> QED BY <1>1, <1>7, <1>8

-----------------------------------------------------------------------------
(* All the counters heat the ranges *)

LEMMA BoundsTyped ==
  ASSUME NEW hrs \in Seq(HR), NEW thr
  PROVE  First(hrs, thr) \in 1 .. (Len(hrs) + 1) /\ Behind(hrs, thr) \in First(hrs, thr) .. (Len(hrs) + 1)
<1> DEFINE first == First(hrs, thr)
           behind == Behind(hrs, thr)
           n == Len(hrs)
           F == {i \in DOMAIN hrs : EndAddr(hrs[i]) > thr.addr} \cup {n + 1}
           B == {i \in DOMAIN hrs : i >= first /\ hrs[i].addr >= EndAddr(thr)} \cup {n + 1}
<1>1. n \in Nat /\ DOMAIN hrs = 1 .. n
  BY ListFields
<1>2. F \in SUBSET Nat /\ F # {} /\ first = Min(F) /\ F \subseteq 1 .. (n + 1)
  BY <1>1 DEF First
<1>3. B \in SUBSET Nat /\ B # {} /\ behind = Min(B) /\ B \subseteq 1 .. (n + 1)
  BY <1>1 DEF Behind
<1>4. first \in F
  <2> HIDE DEF F, first
  <2> QED BY <1>2, LeastNumber
<1>5. behind \in B
  <2> HIDE DEF B, behind
  <2> QED BY <1>3, LeastNumber
<1>6. first \in 1 .. (n + 1)
  BY <1>2, <1>4
<1>7. behind \in first .. (n + 1)
  <2>1. behind >= first
    BY <1>5, <1>6
  <2> QED BY <2>1, <1>3, <1>5, <1>6
<1> QED BY <1>6, <1>7

LEMMA HeatedByTyped ==
  ASSUME NEW hrs \in Seq(HR), NEW thr \in HR
  PROVE  HeatedBy(hrs, thr) \in Seq(HR)
<1> DEFINE first == First(hrs, thr)
           behind == Behind(hrs, thr)
           n == Len(hrs)
           front == SubSeq(hrs, 1, first - 1)
           mid == SubSeq(hrs, first, behind - 1)
           back == SubSeq(hrs, behind, n)
           walk == FoldLeft(HeatOne, HeatStart(thr), mid)
           rest == Rest(walk)
           new == front \o walk.hrs \o rest \o back
<1>1. HeatedBy(hrs, thr) = new
  BY Zenon DEF HeatedBy, HeatStart, Rest
<1>2. first \in 1 .. (n + 1) /\ behind \in first .. (n + 1) /\ n \in Nat
  BY BoundsTyped, ListFields
<1> HIDE DEF first, behind, n
<1>3. /\ 1 \in 1 .. (n + 1) /\ first - 1 \in (1 - 1) .. n /\ behind - 1 \in (first - 1) .. n
      /\ behind \in 1 .. (n + 1) /\ n \in (behind - 1) .. n
  BY <1>2
<1>4. front \in Seq(HR)
  BY <1>2, <1>3, PartOfList DEF n
<1>5. mid \in Seq(HR)
  BY <1>2, <1>3, PartOfList DEF n
<1>6. back \in Seq(HR)
  BY <1>2, <1>3, PartOfList DEF n
<1> HIDE DEF front, mid, back
<1>7. walk \in HeatWalks
  <2>1. PICK w \in [0 .. Len(mid) -> HeatWalks] : w[Len(mid)] = walk
    BY <1>5, HeatWalkByWalk
  <2>2. Len(mid) \in 0 .. Len(mid)
    BY <1>5
  <2> HIDE DEF walk
  <2> QED BY <2>1, <2>2
<1> HIDE DEF walk
<1>8. walk.hrs \in Seq(HR) /\ walk.thr \in HR
  BY <1>7 DEF HeatWalks
<1>9. rest \in Seq(HR)
  <2>1. walk.thr.addr \in Int /\ EndAddr(walk.thr) \in Int
    BY <1>8, HRFields
  <2> QED BY <1>8, <2>1, PartIs DEF Rest
<1> HIDE DEF rest
<1>10. new \in Seq(HR)
  BY <1>4, <1>6, <1>8, <1>9
<1> QED BY <1>1, <1>10

LEMMA Concatenated ==
  ASSUME NEW s \in Seq(HR), NEW t \in Seq(HR)
  PROVE  /\ s \o t \in Seq(HR) /\ Len(s \o t) = Len(s) + Len(t)
         /\ \A i \in 1 .. Len(s) : (s \o t)[i] = s[i]
         /\ \A i \in (Len(s) + 1) .. (Len(s) + Len(t)) : (s \o t)[i] = t[i - Len(s)]
  OBVIOUS

LEMMA PutTogether ==
  ASSUME NEW s \in Seq(HR), NEW n \in 1 .. (Len(s) + 1)
  PROVE  SubSeq(s, 1, n - 1) \o <<>> \o <<>> \o SubSeq(s, n, Len(s)) = s
<1> DEFINE a == SubSeq(s, 1, n - 1)
           b == SubSeq(s, n, Len(s))
<1>1. Len(s) \in Nat /\ 1 \in 1 .. (Len(s) + 1) /\ n - 1 \in (1 - 1) .. Len(s) /\ Len(s) \in (n - 1) .. Len(s)
      /\ n \in Int /\ DOMAIN s = 1 .. Len(s)
  BY ListFields
<1>2. /\ a \in Seq(HR) /\ Len(a) = n - 1 - 1 + 1
      /\ \A i \in 1 .. (n - 1 - 1 + 1) : a[i] = s[1 + i - 1]
  BY <1>1, PartOfList
<1>3. /\ b \in Seq(HR) /\ Len(b) = Len(s) - n + 1
      /\ \A i \in 1 .. (Len(s) - n + 1) : b[i] = s[n + i - 1]
  BY <1>1, PartOfList
<1> HIDE DEF a, b
<1>4. Len(a) = n - 1 /\ \A i \in 1 .. Len(a) : a[i] = s[i]
  BY <1>1, <1>2
<1>5. \A i \in 1 .. Len(b) : b[i] = s[Len(a) + i]
  BY <1>1, <1>3, <1>4
<1>6. a \o <<>> = a
  BY <1>2
<1>7. /\ a \o b \in Seq(HR) /\ Len(a \o b) = Len(a) + Len(b)
      /\ \A i \in 1 .. Len(a) : (a \o b)[i] = a[i]
      /\ \A i \in (Len(a) + 1) .. (Len(a) + Len(b)) : (a \o b)[i] = b[i - Len(a)]
  BY <1>2, <1>3, Concatenated
<1> DEFINE c == a \o b
<1> HIDE DEF c
<1>8. c \in Seq(HR) /\ Len(c) = Len(s) /\ \A i \in 1 .. Len(s) : c[i] = s[i]
  <2>1. c \in Seq(HR) /\ Len(c) = Len(s)
    BY <1>1, <1>3, <1>4, <1>7 DEF c
  <2>2. ASSUME NEW i \in 1 .. Len(s) PROVE c[i] = s[i]
    <3>1. CASE i <= Len(a)
      <4>1. i \in 1 .. Len(a)
        BY <1>1, <1>4, <3>1
      <4> QED BY <1>4, <1>7, <4>1 DEF c
    <3>2. CASE i > Len(a)
      <4>1. i \in (Len(a) + 1) .. (Len(a) + Len(b)) /\ i - Len(a) \in 1 .. Len(b) /\ Len(a) + (i - Len(a)) = i
        BY <1>1, <1>3, <1>4, <3>2
      <4> QED BY <1>5, <1>7, <4>1 DEF c
    <3> QED BY <1>1, <1>4, <3>1, <3>2
  <2> QED BY <2>1, <2>2
<1>9. c = s
  BY <1>1, <1>8
<1> QED BY <1>6, <1>9 DEF a, b, c

\* A counter without pages changes nothing where no range reaches across its address.
LEMMA EmptyHeatsNothing ==
  ASSUME NEW hrs, Proper(hrs), NEW thr \in HR, thr.length = 0, NoneAround(hrs, thr.addr)
  PROVE  HeatedBy(hrs, thr) = hrs
<1> DEFINE first == First(hrs, thr)
           behind == Behind(hrs, thr)
           n == Len(hrs)
           mid == SubSeq(hrs, first, behind - 1)
           walk == FoldLeft(HeatOne, HeatStart(thr), mid)
<1>1. HeatedBy(hrs, thr) = SubSeq(hrs, 1, first - 1) \o walk.hrs \o Rest(walk) \o SubSeq(hrs, behind, n)
  BY Zenon DEF HeatedBy, HeatStart, Rest
<1>2. /\ first \in 1 .. (n + 1) /\ behind \in first .. (n + 1)
      /\ \A i \in DOMAIN hrs :
           /\ i >= first => EndAddr(hrs[i]) > thr.addr
           /\ i >= first /\ i < behind => hrs[i].addr < EndAddr(thr)
  BY Bounds
<1>3. /\ n \in Nat /\ DOMAIN hrs = 1 .. n
      /\ \A i \in DOMAIN hrs : hrs[i].addr \in Int /\ EndAddr(hrs[i]) \in Int
  BY ProperFields
<1>4. thr.addr \in Int /\ EndAddr(thr) = thr.addr
  <2>1. thr.addr \in Int /\ EndAddr(thr) = thr.addr + thr.length
    BY HRFields
  <2> QED BY <2>1
<1> HIDE DEF first, behind, n
<1>5. hrs \in Seq(HR)
  BY DEF Proper
<1>6. behind = first
  <2> SUFFICES ASSUME behind # first PROVE FALSE
    OBVIOUS
  <2>1. first \in DOMAIN hrs /\ first < behind
    BY <1>2, <1>3
  <2>2. EndAddr(hrs[first]) > thr.addr /\ hrs[first].addr < thr.addr
    BY <1>2, <1>3, <1>4, <2>1
  <2>3. hrs[first] \in ToSet(hrs)
    BY <1>5, <2>1, ListFields
  <2>4. hrs[first].addr >= thr.addr \/ EndAddr(hrs[first]) <= thr.addr
    BY <2>3 DEF NoneAround
  <2> QED BY <1>3, <1>4, <2>1, <2>2, <2>4
<1>7. mid \in Seq(HR) /\ Len(mid) = 0
  <2>1. behind - 1 \in (first - 1) .. n /\ first \in Int
    BY <1>2, <1>3
  <2>2. mid \in Seq(HR) /\ Len(mid) = behind - 1 - first + 1
    BY <1>2, <1>5, <2>1, PartOfList DEF n
  <2> QED BY <1>6, <2>1, <2>2
<1> HIDE DEF mid
<1>8. walk = HeatStart(thr)
  BY <1>7, HeatWalkByWalk
<1> HIDE DEF walk
<1>9. walk.hrs = <<>> /\ walk.thr = thr
  BY <1>8 DEF HeatStart
<1>10. Rest(walk) = <<>>
  <2>1. ~(thr.addr < EndAddr(thr))
    BY <1>4
  <2> QED BY <1>9, <2>1 DEF Rest, Part
<1>11. HeatedBy(hrs, thr) = SubSeq(hrs, 1, first - 1) \o <<>> \o <<>> \o SubSeq(hrs, first, n)
  BY <1>1, <1>6, <1>9, <1>10
<1>12. first \in 1 .. (Len(hrs) + 1)
  BY <1>2 DEF n
<1> QED BY <1>5, <1>11, <1>12, PutTogether DEF n

LEMMA HeatRangeIs ==
  ASSUME NEW tc \in Counter, tc.length >= 0, NEW at \in 0 .. MaxTime
  PROVE  LET thr == HeatRange(tc, at) IN
         /\ thr \in HR /\ thr.addr = tc.addr /\ thr.length = tc.length /\ EndAddr(thr) = EndAddr(tc)
         /\ thr.heat = HeatOf(tc) /\ thr.updated = at /\ PagesIn(thr) = PagesIn(tc)
         /\ HeatOf(tc) \in 0 .. HeatMax
<1>1. tc.addr \in Int /\ tc.length \in Nat /\ tc.accesses \in Nat /\ HeatMax \in Nat
  BY CounterFields, HeatMaxAssumption
<1>2. HeatOf(tc) \in 0 .. HeatMax
  <2>1. CASE tc.length = 0
    BY <1>1, <2>1 DEF HeatOf
  <2>2. CASE tc.length # 0
    <3>1. tc.accesses \div tc.length \in Nat
      <4>1. \A a \in Nat, b \in Nat \ {0} : a \div b \in Nat
        OBVIOUS
      <4> QED BY <1>1, <2>2, <4>1
    <3> QED BY <1>1, <2>2, <3>1 DEF HeatOf, AtMost
  <2> QED BY <2>1, <2>2
<1> DEFINE thr == HeatRange(tc, at)
<1>3. thr = [addr |-> tc.addr, length |-> tc.length, heat |-> HeatOf(tc), updated |-> at]
  BY DEF HeatRange
<1> HIDE DEF thr
<1>4. /\ thr \in HR /\ thr.addr = tc.addr /\ thr.length = tc.length /\ thr.heat = HeatOf(tc)
      /\ thr.updated = at
  BY <1>1, <1>2, <1>3 DEF HR
<1>5. EndAddr(thr) = EndAddr(tc)
  BY <1>4 DEF EndAddr
<1>6. PagesIn(thr) = PagesIn(tc)
  BY <1>4, <1>5 DEF PagesIn
<1> QED BY <1>2, <1>4, <1>5, <1>6 DEF thr

Heatmaps == [Pids -> Seq(HR)]

HeatmapAfter(hm, l, at) == FoldLeft(LAMBDA m, tc : UpdateFromCounter(m, tc, at), hm, l)

LEMMA UpdateByUpdate ==
  ASSUME NEW l \in Seq(Counter), \A x \in ToSet(l) : x.length >= 0, NEW hm \in Heatmaps,
         NEW at \in 0 .. MaxTime
  PROVE  \E w \in [0 .. Len(l) -> Heatmaps] :
            /\ w[0] = hm /\ w[Len(l)] = HeatmapAfter(hm, l, at)
            /\ \A k \in 1 .. Len(l) : w[k] = UpdateFromCounter(w[k - 1], l[k], at)
<1> DEFINE n == Len(l)
           step == [e \in (1 .. n) \X Heatmaps |-> UpdateFromCounter(e[2], l[e[1]], at)]
           f(g) == [s \in SUBSET DOMAIN l |->
                      IF s = {} THEN hm ELSE UpdateFromCounter(g[s \ {Max(s)}], l[Max(s)], at)]
           fold == CHOOSE g : g = f(g)
<1>1. HeatmapAfter(hm, l, at) = fold[DOMAIN l]
  BY DEF HeatmapAfter, FoldLeft, MapThenFoldSet
<1>2. n \in Nat /\ DOMAIN l = 1 .. n /\ (\A i \in 1 .. n : l[i] \in Counter /\ l[i].length >= 0)
  BY ListFields
<1>3. ASSUME NEW i \in 1 .. n, NEW m \in Heatmaps PROVE UpdateFromCounter(m, l[i], at) \in Heatmaps
  <2> DEFINE tc == l[i]
             thr == HeatRange(tc, at)
  <2>1. thr \in HR /\ tc.pid \in Pids
    BY <1>2, HeatRangeIs, CounterFields
  <2> HIDE DEF thr, tc
  <2>2. m \in [Pids -> Seq(HR)]
    BY DEF Heatmaps
  <2>3. HeatedBy(m[tc.pid], thr) \in Seq(HR)
    BY <2>1, <2>2, HeatedByTyped
  <2>4. UpdateFromCounter(m, tc, at) = [m EXCEPT ![tc.pid] = HeatedBy(m[tc.pid], thr)]
    BY <2>1, <2>2 DEF UpdateFromCounter, thr
  <2>5. UpdateFromCounter(m, tc, at) \in Heatmaps
    BY <2>2, <2>3, <2>4 DEF Heatmaps
  <2> QED BY <2>5 DEF tc
<1>4. step \in [(1 .. n) \X Heatmaps -> Heatmaps]
  <2> HIDE DEF n
  <2> QED BY <1>3
<1>5. \A i \in 1 .. n, m \in Heatmaps : step[<<i, m>>] = UpdateFromCounter(m, l[i], at)
  OBVIOUS
<1> HIDE DEF step, n
<1>6. \A t \in (SUBSET (1 .. n)) \ {{}} : Max(t) \in t /\ Max(t) \in 1 .. n
  BY <1>2, <1>4, StepsOfList
<1>7. fold = f(fold)
  <2>1. PICK h : FoldOver(h, n, Heatmaps, hm, step)
    BY <1>2, <1>4, StepsOfList
  <2>2. ASSUME NEW t \in (SUBSET (1 .. n)) \ {{}}
        PROVE  h[t] = UpdateFromCounter(h[t \ {Max(t)}], l[Max(t)], at)
    <3>1. h[t \ {Max(t)}] \in Heatmaps /\ Max(t) \in 1 .. n
      BY <1>6, <2>1 DEF FoldOver
    <3> QED BY <1>5, <2>1, <3>1 DEF FoldOver
  <2>3. h = f(h)
    BY <1>2, <2>1, <2>2 DEF FoldOver
  <2> QED BY <2>3
<1> HIDE DEF fold
<1>8. fold[{}] = hm
  BY <1>2, <1>7
<1>9. ASSUME NEW t \in (SUBSET (1 .. n)) \ {{}}, fold[t \ {Max(t)}] \in Heatmaps
      PROVE  fold[t] = step[<<Max(t), fold[t \ {Max(t)}]>>]
  <2>1. fold[t] = UpdateFromCounter(fold[t \ {Max(t)}], l[Max(t)], at)
    BY <1>2, <1>7
  <2> QED BY <1>5, <1>6, <1>9, <2>1
<1> HIDE DEF f
<1>10. PICK w : WalkAlong(w, n, Heatmaps, fold, step)
  <2>1. fold[{}] \in Heatmaps
    BY <1>8
  <2> QED BY <1>2, <1>4, <1>9, <2>1, FoldIsWalk
<1>11. \A k \in 1 .. n : w[k] = UpdateFromCounter(w[k - 1], l[k], at)
  <2> SUFFICES ASSUME NEW k \in 1 .. n PROVE w[k] = UpdateFromCounter(w[k - 1], l[k], at)
    OBVIOUS
  <2>1. w[k - 1] \in Heatmaps
    BY <1>2, <1>10 DEF WalkAlong
  <2> QED BY <1>5, <1>10, <2>1 DEF WalkAlong
<1> QED BY <1>1, <1>2, <1>8, <1>10, <1>11 DEF n, WalkAlong

\* The list of a process after the first k counters.
HeatsAfter(hrs, old, l, pid, at, k) ==
  /\ Proper(hrs)
  /\ \A i \in 1 .. k : l[i].pid = pid /\ l[i].length > 0 => NoneAround(hrs, EndAddr(l[i]))
  /\ \A pg : HasPage(hrs, pg) => HasPage(old, pg) \/ \E i \in 1 .. k : Covers(l[i], pid, pg)
  /\ \A pg, h, u : (\A i \in 1 .. k : ~Covers(l[i], pid, pg)) /\ Tell(old, pg, h, u) => Tell(hrs, pg, h, u)
  /\ \A i \in 1 .. k : \A pg : Covers(l[i], pid, pg) =>
       /\ \A y \in ToSet(old) : pg \in PagesIn(y) => Tell(hrs, pg, NewHeat(y, HeatRange(l[i], at)), at)
       /\ ~HasPage(old, pg) => Tell(hrs, pg, HeatOf(l[i]), at)

\* A counter of another process.
LEMMA OthersHeat ==
  ASSUME NEW l, NEW pid, NEW at, NEW old, NEW hrs, NEW k \in Nat \ {0},
         HeatsAfter(hrs, old, l, pid, at, k - 1),
         l[k].pid # pid \/ (l[k].length = 0 /\ \A pg : pg \notin PagesIn(l[k]))
  PROVE  HeatsAfter(hrs, old, l, pid, at, k)
<1>1. \A i : i \in 1 .. k <=> i \in 1 .. (k - 1) \/ i = k
  OBVIOUS
<1>2. ~(l[k].pid = pid /\ l[k].length > 0) /\ \A pg : ~Covers(l[k], pid, pg)
  BY DEF Covers
<1>3. \A pg : (\E i \in 1 .. (k - 1) : Covers(l[i], pid, pg)) <=> \E i \in 1 .. k : Covers(l[i], pid, pg)
  BY <1>1, <1>2
<1>4. \A pg : (\A i \in 1 .. k : ~Covers(l[i], pid, pg)) <=> \A i \in 1 .. (k - 1) : ~Covers(l[i], pid, pg)
  BY <1>1, <1>2
<1>5. \A i \in 1 .. k : l[i].pid = pid /\ l[i].length > 0 => NoneAround(hrs, EndAddr(l[i]))
  BY <1>1, <1>2 DEF HeatsAfter
<1>6. \A i \in 1 .. k : \A pg : Covers(l[i], pid, pg) =>
       /\ \A y \in ToSet(old) : pg \in PagesIn(y) => Tell(hrs, pg, NewHeat(y, HeatRange(l[i], at)), at)
       /\ ~HasPage(old, pg) => Tell(hrs, pg, HeatOf(l[i]), at)
  BY <1>1, <1>2 DEF HeatsAfter
<1> QED BY <1>3, <1>4, <1>5, <1>6 DEF HeatsAfter

\* In a flat list, the counters of a process before another end before it starts.
LEMMA FlatOrder ==
  ASSUME NEW l, Flat(l), NEW k \in DOMAIN l, NEW i \in 1 .. (k - 1), l[i].pid = l[k].pid
  PROVE  /\ k \in Nat /\ i \in DOMAIN l /\ l[i] \in Counter /\ l[k] \in Counter
         /\ EndAddr(l[i]) <= l[k].addr
         /\ \A pg : ~(Covers(l[i], l[k].pid, pg) /\ Covers(l[k], l[k].pid, pg))
<1>1. l \in Seq(Counter) /\ Chain(l, Ahead)
  BY DEF Flat
<1>2. k \in Nat /\ i \in DOMAIN l /\ i < k
  BY <1>1
<1>3. l[i] \in Counter /\ l[k] \in Counter
  BY <1>1, <1>2
<1>4. <<l[i], l[k]>> \in Ahead
  BY <1>1, <1>2 DEF Chain
<1>5. EndAddr(l[i]) <= l[k].addr
  <2>1. l[i].pid \in Nat /\ l[k].pid \in Nat
    BY <1>3, CounterFields
  <2>2. ~(l[i].pid < l[k].pid)
    BY <2>1
  <2> QED BY <1>3, <1>4, <2>2, AheadIs
<1>6. ASSUME NEW pg, Covers(l[i], l[k].pid, pg), Covers(l[k], l[k].pid, pg) PROVE FALSE
  <2>1. pg \in PagesIn(l[i]) /\ pg \in PagesIn(l[k])
    BY <1>6 DEF Covers
  <2>2. pg \in Int /\ pg < EndAddr(l[i])
    BY <1>3, <2>1, CounterFields
  <2>3. l[k].addr <= pg
    BY <1>3, <2>1, CounterFields
  <2>4. EndAddr(l[i]) \in Int /\ l[k].addr \in Int
    BY <1>3, CounterFields
  <2> QED BY <1>5, <2>2, <2>3, <2>4
<1> QED BY <1>2, <1>3, <1>5, <1>6

\* A counter with pages.
LEMMA ThisHeats ==
  ASSUME NEW l, Flat(l), NEW at \in 0 .. MaxTime, NEW old, NEW hrs, NEW k \in DOMAIN l,
         HeatsAfter(hrs, old, l, l[k].pid, at, k - 1), l[k].length > 0
  PROVE  HeatsAfter(HeatedBy(hrs, HeatRange(l[k], at)), old, l, l[k].pid, at, k)
<1> DEFINE tc == l[k]
           pid == tc.pid
           thr == HeatRange(tc, at)
           new == HeatedBy(hrs, thr)
<1>1. k \in Nat /\ k > 0 /\ tc \in Counter
  BY DEF Flat
<1>2. /\ thr \in HR /\ thr.addr = tc.addr /\ thr.length = tc.length /\ EndAddr(thr) = EndAddr(tc)
      /\ thr.heat = HeatOf(tc) /\ thr.updated = at /\ PagesIn(thr) = PagesIn(tc)
  <2>1. tc.length >= 0
    BY <1>1, CounterFields
  <2> HIDE DEF tc
  <2> QED BY <1>1, <2>1, HeatRangeIs
<1>3. Proper(hrs)
  BY DEF HeatsAfter
<1>4. HeatedOnce(new, hrs, thr) /\ EdgesKept(new, hrs, thr)
  <2> HIDE DEF thr
  <2> QED BY <1>2, <1>3, HeatedByIs
<1>5. \A i : i \in 1 .. k <=> i \in 1 .. (k - 1) \/ i = k
  BY <1>1
<1>6. \A i \in 1 .. (k - 1) : l[i].pid = pid =>
        /\ EndAddr(l[i]) <= tc.addr /\ EndAddr(l[i]) \in Int
        /\ \A pg : ~(Covers(l[i], pid, pg) /\ Covers(tc, pid, pg))
  BY FlatOrder, CounterFields
<1> HIDE DEF new
<1>7. \A pg : pg \in PagesIn(thr) <=> Covers(tc, pid, pg)
  BY <1>2 DEF Covers
<1> HIDE DEF thr, tc
<1>8. /\ Proper(new)
      /\ \A pg : HasPage(new, pg) => pg \in PagesIn(thr) \/ HasPage(hrs, pg)
      /\ \A pg, h, u : pg \notin PagesIn(thr) /\ Tell(hrs, pg, h, u) => Tell(new, pg, h, u)
      /\ \A y \in ToSet(hrs) : \A pg \in PagesIn(y) \cap PagesIn(thr) :
           Tell(new, pg, NewHeat(y, thr), thr.updated)
      /\ \A pg \in PagesIn(thr) : ~HasPage(hrs, pg) => Tell(new, pg, thr.heat, thr.updated)
  BY <1>4 DEF HeatedOnce
<1>9. /\ \A i \in 1 .. (k - 1) : l[i].pid = pid /\ l[i].length > 0 => NoneAround(hrs, EndAddr(l[i]))
      /\ \A pg : HasPage(hrs, pg) => HasPage(old, pg) \/ \E i \in 1 .. (k - 1) : Covers(l[i], pid, pg)
      /\ \A pg, h, u : (\A i \in 1 .. (k - 1) : ~Covers(l[i], pid, pg)) /\ Tell(old, pg, h, u) =>
           Tell(hrs, pg, h, u)
      /\ \A i \in 1 .. (k - 1) : \A pg : Covers(l[i], pid, pg) =>
           /\ \A y \in ToSet(old) : pg \in PagesIn(y) =>
                Tell(hrs, pg, NewHeat(y, HeatRange(l[i], at)), at)
           /\ ~HasPage(old, pg) => Tell(hrs, pg, HeatOf(l[i]), at)
  BY DEF HeatsAfter, tc
<1>10. \A i \in 1 .. k : l[i].pid = pid /\ l[i].length > 0 => NoneAround(new, EndAddr(l[i]))
  <2> SUFFICES ASSUME NEW i \in 1 .. k, l[i].pid = pid, l[i].length > 0 PROVE NoneAround(new, EndAddr(l[i]))
    OBVIOUS
  <2>1. CASE i = k
    BY <1>2, <1>4, <2>1 DEF EdgesKept, tc
  <2>2. CASE i \in 1 .. (k - 1)
    <3>1. EndAddr(l[i]) \in Int /\ EndAddr(l[i]) <= thr.addr /\ NoneAround(hrs, EndAddr(l[i]))
      BY <1>2, <1>6, <1>9, <2>2
    <3> QED BY <1>4, <3>1 DEF EdgesKept
  <2> QED BY <1>5, <2>1, <2>2
<1>11. ASSUME NEW pg, HasPage(new, pg) PROVE HasPage(old, pg) \/ \E i \in 1 .. k : Covers(l[i], pid, pg)
  <2>1. CASE pg \in PagesIn(thr)
    <3>1. Covers(l[k], pid, pg) /\ k \in 1 .. k
      BY <1>1, <1>7, <2>1 DEF tc
    <3> QED BY <3>1
  <2>2. CASE HasPage(hrs, pg)
    <3>1. HasPage(old, pg) \/ \E i \in 1 .. (k - 1) : Covers(l[i], pid, pg)
      BY <1>9, <2>2
    <3> QED BY <1>5, <3>1
  <2> QED BY <1>8, <1>11, <2>1, <2>2
<1>12. ASSUME NEW pg, NEW h, NEW u, \A i \in 1 .. k : ~Covers(l[i], pid, pg), Tell(old, pg, h, u)
       PROVE  Tell(new, pg, h, u)
  <2>1. \A i \in 1 .. (k - 1) : ~Covers(l[i], pid, pg)
    BY <1>5, <1>12
  <2>2. pg \notin PagesIn(thr)
    BY <1>5, <1>7, <1>12 DEF tc
  <2>3. Tell(hrs, pg, h, u)
    BY <1>9, <1>12, <2>1
  <2> QED BY <1>8, <2>2, <2>3
<1>13. ASSUME NEW i \in 1 .. k, NEW pg, Covers(l[i], pid, pg)
       PROVE  /\ \A y \in ToSet(old) : pg \in PagesIn(y) =>
                   Tell(new, pg, NewHeat(y, HeatRange(l[i], at)), at)
              /\ ~HasPage(old, pg) => Tell(new, pg, HeatOf(l[i]), at)
  <2>1. CASE i \in 1 .. (k - 1)
    <3>1. l[i].pid = pid
      BY <1>13 DEF Covers
    <3>2. pg \notin PagesIn(thr)
      BY <1>6, <1>7, <1>13, <2>1, <3>1
    <3>3. /\ \A y \in ToSet(old) : pg \in PagesIn(y) =>
               Tell(hrs, pg, NewHeat(y, HeatRange(l[i], at)), at)
          /\ ~HasPage(old, pg) => Tell(hrs, pg, HeatOf(l[i]), at)
      BY <1>9, <1>13, <2>1
    <3> QED BY <1>8, <3>2, <3>3
  <2>2. CASE i = k
    <3>1. pg \in PagesIn(thr) /\ HeatRange(l[i], at) = thr
      BY <1>7, <1>13, <2>2 DEF tc, thr
    <3>2. \A j \in 1 .. (k - 1) : ~Covers(l[j], pid, pg)
      <4> SUFFICES ASSUME NEW j \in 1 .. (k - 1), Covers(l[j], pid, pg) PROVE FALSE
        OBVIOUS
      <4>1. l[j].pid = pid
        BY DEF Covers
      <4> QED BY <1>6, <1>7, <3>1, <4>1
    <3>3. ASSUME NEW y \in ToSet(old), pg \in PagesIn(y) PROVE Tell(new, pg, NewHeat(y, thr), at)
      <4>1. Tell(old, pg, y.heat, y.updated)
        BY <3>3 DEF Tell
      <4>2. Tell(hrs, pg, y.heat, y.updated)
        BY <1>9, <3>2, <4>1
      <4>3. PICK x \in ToSet(hrs) : pg \in PagesIn(x) /\ x.heat = y.heat /\ x.updated = y.updated
        BY <4>2 DEF Tell
      <4>4. Tell(new, pg, NewHeat(x, thr), thr.updated)
        BY <1>8, <3>1, <4>3
      <4>5. NewHeat(x, thr) = NewHeat(y, thr)
        BY <4>3 DEF NewHeat
      <4> QED BY <1>2, <4>4, <4>5
    <3>4. ASSUME ~HasPage(old, pg) PROVE Tell(new, pg, HeatOf(l[i]), at)
      <4>1. ~HasPage(hrs, pg)
        BY <1>9, <3>2, <3>4
      <4>2. Tell(new, pg, thr.heat, thr.updated)
        BY <1>8, <3>1, <4>1
      <4>3. thr.heat = HeatOf(l[i]) /\ thr.updated = at
        BY <1>2, <2>2 DEF tc
      <4> QED BY <4>2, <4>3
    <3> QED BY <3>1, <3>3, <3>4
  <2> QED BY <1>5, <2>1, <2>2
<1>14. HeatsAfter(new, old, l, pid, at, k)
  BY <1>8, <1>10, <1>11, <1>12, <1>13 DEF HeatsAfter
<1> QED BY <1>14 DEF new, thr, tc

\* An empty counter, which comes right behind another one.
LEMMA EmptyHeats ==
  ASSUME NEW l, Flat(l), NEW at \in 0 .. MaxTime, NEW old, NEW hrs, NEW k \in DOMAIN l,
         HeatsAfter(hrs, old, l, l[k].pid, at, k - 1), l[k].length = 0
  PROVE  HeatedBy(hrs, HeatRange(l[k], at)) = hrs /\ HeatsAfter(hrs, old, l, l[k].pid, at, k)
<1> DEFINE tc == l[k]
           thr == HeatRange(tc, at)
<1>1. /\ k \in Nat /\ k > 0 /\ tc \in Counter /\ tc \in ToSet(l) /\ l \in Seq(Counter) /\ Chain(l, Ahead)
      /\ DOMAIN l = 1 .. Len(l) /\ Len(l) \in Nat
  BY ListFields DEF Flat
<1>2. /\ tc.addr \in Int /\ EndAddr(tc) = tc.addr + tc.length
      /\ \A pg : pg \in PagesIn(tc) <=> pg \in Int /\ tc.addr <= pg /\ pg < EndAddr(tc)
  BY <1>1, CounterFields
<1>3. EndAddr(tc) = tc.addr /\ \A pg : pg \notin PagesIn(tc)
  BY <1>2
<1>4. thr \in HR /\ thr.addr = tc.addr /\ thr.length = 0
  <2>1. tc.length >= 0
    OBVIOUS
  <2> HIDE DEF tc
  <2>2. thr \in HR /\ thr.addr = tc.addr /\ thr.length = tc.length
    BY <1>1, <2>1, HeatRangeIs
  <2> QED BY <2>2 DEF tc
<1>5. PICK y \in ToSet(l) : y.pid = tc.pid /\ y.length > 0 /\ EndAddr(y) = tc.addr
  BY <1>1 DEF Flat
<1>6. PICK j \in DOMAIN l : y = l[j]
  BY <1>1, ListFields
<1>7. j < k
  <2> SUFFICES ASSUME ~(j < k) PROVE FALSE
    OBVIOUS
  <2>1. j # k
    BY <1>5, <1>6
  <2>2. k < j
    BY <1>1, <2>1
  <2>3. <<tc, y>> \in Ahead
    BY <1>1, <1>6, <2>2 DEF Chain
  <2>4. y \in Counter /\ y.pid \in Nat /\ tc.pid \in Nat /\ y.addr \in Int /\ y.length \in Int
        /\ EndAddr(y) = y.addr + y.length
    <3>1. y \in Counter
      BY <1>1, <1>6
    <3>2. tc.pid \in Nat
      BY <1>1, CounterFields
    <3> HIDE DEF tc
    <3> QED BY <3>1, <3>2, CounterFields
  <2> HIDE DEF tc
  <2>5. EndAddr(tc) <= y.addr
    <3>1. ~(tc.pid < y.pid)
      BY <1>5, <2>4
    <3> QED BY <1>1, <2>3, <2>4, <3>1, AheadIs
  <2> QED BY <1>2, <1>3, <1>5, <2>4, <2>5
<1>8. NoneAround(hrs, tc.addr)
  <2>1. j \in 1 .. (k - 1)
    BY <1>1, <1>7
  <2> QED BY <1>5, <1>6, <2>1 DEF HeatsAfter
<1>9. Proper(hrs)
  BY DEF HeatsAfter
<1>10. HeatedBy(hrs, thr) = hrs
  <2> HIDE DEF thr
  <2> QED BY <1>4, <1>8, <1>9, EmptyHeatsNothing
<1>11. HeatsAfter(hrs, old, l, tc.pid, at, k)
  BY <1>1, <1>3, OthersHeat
<1> QED BY <1>10, <1>11

LEMMA UpdatedIs ==
  ASSUME NEW l, Flat(l), NEW at \in 0 .. MaxTime, NEW hm \in Heatmaps, \A pid \in Pids : Proper(hm[pid])
  PROVE  LET new == UpdateFromCounters(hm, l, at) IN
         /\ new \in Heatmaps
         /\ \A pid \in Pids :
              IF \A i \in DOMAIN l : l[i].pid # pid THEN new[pid] = <<>>
              ELSE HeatsAfter(new[pid], hm[pid], l, pid, at, Len(l))
<1> DEFINE n == Len(l)
           after == HeatmapAfter(hm, l, at)
           new == UpdateFromCounters(hm, l, at)
<1>1. /\ l \in Seq(Counter) /\ n \in Nat /\ DOMAIN l = 1 .. n
      /\ \A x \in ToSet(l) : x.length >= 0
      /\ \A i \in 1 .. n : l[i] \in Counter /\ l[i] \in ToSet(l)
  BY ListFields DEF Flat
<1>2. PICK w \in [0 .. n -> Heatmaps] :
        /\ w[0] = hm /\ w[n] = after
        /\ \A k \in 1 .. n : w[k] = UpdateFromCounter(w[k - 1], l[k], at)
  BY <1>1, UpdateByUpdate
<1> HIDE DEF after, n
<1> DEFINE K == {k \in 0 .. n : \A pid \in Pids : HeatsAfter(w[k][pid], hm[pid], l, pid, at, k)}
<1>3. 0 \in K
  <2>1. 1 .. 0 = {}
    OBVIOUS
  <2>2. \A pid \in Pids : HeatsAfter(w[0][pid], hm[pid], l, pid, at, 0)
    BY <1>2, <2>1 DEF HeatsAfter
  <2> QED BY <1>1, <2>2
<1>4. ASSUME NEW k \in 1 .. n, k - 1 \in K PROVE k \in K
  <2> SUFFICES ASSUME NEW pid \in Pids PROVE HeatsAfter(w[k][pid], hm[pid], l, pid, at, k)
    BY <1>1
  <2>1. HeatsAfter(w[k - 1][pid], hm[pid], l, pid, at, k - 1)
    BY <1>4
  <2>2. k - 1 \in 0 .. n /\ k \in Nat \ {0} /\ k \in DOMAIN l
    BY <1>1
  <2>3. w[k - 1] \in [Pids -> Seq(HR)] /\ w[k] = UpdateFromCounter(w[k - 1], l[k], at)
    BY <1>2, <2>2 DEF Heatmaps
  <2>4. w[k] = [w[k - 1] EXCEPT ![l[k].pid] = HeatedBy(w[k - 1][l[k].pid], HeatRange(l[k], at))]
    BY <2>3 DEF UpdateFromCounter
  <2>5. CASE l[k].pid # pid
    <3>1. w[k][pid] = w[k - 1][pid]
      BY <2>3, <2>4, <2>5
    <3>2. HeatsAfter(w[k - 1][pid], hm[pid], l, pid, at, k)
      BY <2>1, <2>2, <2>5, OthersHeat
    <3> QED BY <3>1, <3>2
  <2>6. CASE l[k].pid = pid
    <3>1. w[k][pid] = HeatedBy(w[k - 1][pid], HeatRange(l[k], at))
      BY <2>3, <2>4, <2>6
    <3>2. HeatsAfter(w[k - 1][pid], hm[pid], l, l[k].pid, at, k - 1)
      BY <2>1, <2>6
    <3>3. CASE l[k].length > 0
      <4>1. HeatsAfter(HeatedBy(w[k - 1][pid], HeatRange(l[k], at)), hm[pid], l, l[k].pid, at, k)
        BY <2>2, <3>2, <3>3, ThisHeats
      <4> QED BY <2>6, <3>1, <4>1
    <3>4. CASE l[k].length = 0
      <4>1. HeatedBy(w[k - 1][pid], HeatRange(l[k], at)) = w[k - 1][pid]
            /\ HeatsAfter(w[k - 1][pid], hm[pid], l, l[k].pid, at, k)
        BY <2>2, <3>2, <3>4, EmptyHeats
      <4> QED BY <2>6, <3>1, <4>1
    <3>5. l[k].length >= 0 /\ l[k].length \in Int
      BY <1>1, CounterFields
    <3> QED BY <3>3, <3>4, <3>5
  <2> QED BY <2>5, <2>6
<1>5. n \in K
  <2> HIDE DEF K
  <2>1. K \in SUBSET (0 .. n)
    BY DEF K
  <2> QED BY <1>1, <1>3, <1>4, <2>1, Upwards
<1>6. after \in [Pids -> Seq(HR)] /\ \A pid \in Pids : HeatsAfter(after[pid], hm[pid], l, pid, at, n)
  <2>1. n \in 0 .. n
    BY <1>1
  <2> QED BY <1>2, <1>5, <2>1 DEF Heatmaps
<1>7. DOMAIN hm = Pids
  BY DEF Heatmaps
<1> DEFINE tracked == {l[i].pid : i \in DOMAIN l}
<1>8. new = Forgotten(after, DOMAIN hm \ tracked)
  BY DEF UpdateFromCounters, HeatmapAfter, after
<1>9. new = [pid \in Pids |-> IF pid \in Pids \ tracked THEN <<>> ELSE after[pid]]
  BY <1>6, <1>7, <1>8 DEF Forgotten
<1> HIDE DEF new
<1>10. new \in Heatmaps
  <2>1. \A pid \in Pids : after[pid] \in Seq(HR) /\ <<>> \in Seq(HR)
    BY <1>6
  <2> QED BY <1>9, <2>1 DEF Heatmaps
<1>11. ASSUME NEW pid \in Pids
       PROVE  IF \A i \in DOMAIN l : l[i].pid # pid THEN new[pid] = <<>>
              ELSE HeatsAfter(new[pid], hm[pid], l, pid, at, n)
  <2>1. pid \in tracked <=> ~(\A i \in DOMAIN l : l[i].pid # pid)
    OBVIOUS
  <2> HIDE DEF tracked
  <2> QED BY <1>6, <1>9, <2>1
<1> QED BY <1>10, <1>11 DEF new, n

-----------------------------------------------------------------------------
(* The heat of every page *)

HeatIn(l, pg) ==
  LET hrs == {i \in DOMAIN l : pg \in PagesIn(l[i])} IN
  IF hrs = {} THEN Cold
  ELSE LET hr == l[CHOOSE i \in hrs : TRUE] IN [heat |-> hr.heat, updated |-> hr.updated]

\* No two ranges of a list have a page, so it has one heat.
LEMMA HeatInIs ==
  ASSUME NEW l, Proper(l), NEW pg
  PROVE  /\ ~HasPage(l, pg) => HeatIn(l, pg) = Cold
         /\ \A h, u : Tell(l, pg, h, u) => HeatIn(l, pg) = [heat |-> h, updated |-> u]
<1> DEFINE hrs == {i \in DOMAIN l : pg \in PagesIn(l[i])}
<1>1. /\ l \in Seq(HR) /\ DOMAIN l = 1 .. Len(l) /\ Len(l) \in Nat
      /\ \A i \in DOMAIN l :
           /\ l[i] \in HR /\ l[i].addr \in Int /\ EndAddr(l[i]) \in Int
           /\ \A j \in DOMAIN l : i < j => EndAddr(l[i]) <= l[j].addr
  BY ProperFields DEF Proper
<1>2. /\ \A i \in DOMAIN l : l[i] \in ToSet(l)
      /\ \A x \in ToSet(l) : \E i \in DOMAIN l : x = l[i]
  BY <1>1, ListFields
<1>3. ASSUME NEW i \in hrs, NEW j \in hrs PROVE i = j
  <2>1. /\ pg \in Int /\ l[i].addr <= pg /\ pg < EndAddr(l[i])
    BY <1>1, HRFields
  <2>2. /\ pg \in Int /\ l[j].addr <= pg /\ pg < EndAddr(l[j])
    BY <1>1, HRFields
  <2>3. ~(i < j)
    <3>1. i < j => EndAddr(l[i]) <= l[j].addr
      BY <1>1
    <3> QED BY <1>1, <2>1, <2>2, <3>1
  <2>4. ~(j < i)
    <3>1. j < i => EndAddr(l[j]) <= l[i].addr
      BY <1>1
    <3> QED BY <1>1, <2>1, <2>2, <3>1
  <2> QED BY <1>1, <2>3, <2>4
<1>4. HeatIn(l, pg) = IF hrs = {} THEN Cold
                      ELSE [heat |-> l[CHOOSE i \in hrs : TRUE].heat,
                            updated |-> l[CHOOSE i \in hrs : TRUE].updated]
  BY DEF HeatIn
<1>5. ASSUME ~HasPage(l, pg) PROVE HeatIn(l, pg) = Cold
  <2>1. hrs = {}
    BY <1>2, <1>5 DEF HasPage
  <2> QED BY <1>4, <2>1
<1>6. ASSUME NEW h, NEW u, Tell(l, pg, h, u) PROVE HeatIn(l, pg) = [heat |-> h, updated |-> u]
  <2>1. PICK x \in ToSet(l) : pg \in PagesIn(x) /\ x.heat = h /\ x.updated = u
    BY <1>6 DEF Tell
  <2>2. PICK i \in DOMAIN l : x = l[i]
    BY <1>2
  <2>3. i \in hrs
    BY <2>1, <2>2
  <2> HIDE DEF hrs
  <2>4. (CHOOSE j \in hrs : TRUE) \in hrs
    BY <2>3
  <2>5. (CHOOSE j \in hrs : TRUE) = i
    BY <1>3, <2>3, <2>4
  <2> QED BY <1>4, <2>1, <2>2, <2>3, <2>5
<1> QED BY <1>5, <1>6

WarmedBy(old, tc, at) ==
  LET before == IF old = Cold THEN 0 ELSE Cooled(old.heat, Seconds(old.updated, at)) IN
  [heat |-> AtMost(HeatMax, before + HeatOf(tc)), updated |-> at]

CoveringIn(l, pid, pg) == {i \in DOMAIN l : l[i].pid = pid /\ pg \in PagesIn(l[i])}

LEMMA WarmedIs ==
  ASSUME NEW l, Flat(l), NEW at \in 0 .. MaxTime, NEW old, Proper(old), NEW new, NEW pid, NEW pg,
         HeatsAfter(new, old, l, pid, at, Len(l)), NEW c \in DOMAIN l, Covers(l[c], pid, pg)
  PROVE  HeatIn(new, pg) = WarmedBy(HeatIn(old, pg), l[c], at)
<1> DEFINE tc == l[c]
           thr == HeatRange(tc, at)
<1>1. tc \in Counter /\ tc.length >= 0 /\ c \in 1 .. Len(l)
  <2>1. l \in Seq(Counter) /\ \A x \in ToSet(l) : x.length >= 0
    BY DEF Flat
  <2> QED BY <2>1, ListFields
<1>2. thr \in HR /\ thr.heat = HeatOf(tc) /\ thr.updated = at /\ HeatOf(tc) \in 0 .. HeatMax
  <2> HIDE DEF tc
  <2> QED BY <1>1, HeatRangeIs
<1>3. Proper(new)
  BY DEF HeatsAfter
<1>4. /\ \A y \in ToSet(old) : pg \in PagesIn(y) => Tell(new, pg, NewHeat(y, thr), at)
      /\ ~HasPage(old, pg) => Tell(new, pg, HeatOf(tc), at)
  BY <1>1 DEF HeatsAfter
<1>5. HeatMax \in Nat /\ MaxTime \in Nat
  BY HeatMaxAssumption, ConstantsAssumption
<1> HIDE DEF tc, thr
<1>6. CASE HasPage(old, pg)
  <2>1. PICK y \in ToSet(old) : pg \in PagesIn(y)
    BY <1>6 DEF HasPage
  <2>2. y \in HR
    BY <2>1, ListFields DEF Proper
  <2>3. y.heat \in 0 .. HeatMax /\ y.updated \in 0 .. MaxTime
    BY <2>2, HRFields
  <2> DEFINE told == [heat |-> y.heat, updated |-> y.updated]
  <2>4. HeatIn(old, pg) = told
    <3>1. Tell(old, pg, y.heat, y.updated)
      BY <2>1 DEF Tell
    <3> QED BY <3>1, HeatInIs
  <2>5. told # Cold
    BY <2>3, ConstantsAssumption
  <2>6. HeatIn(new, pg) = [heat |-> NewHeat(y, thr), updated |-> at]
    BY <1>3, <1>4, <2>1, HeatInIs
  <2>7. Cooled(y.heat, Seconds(y.updated, at)) \in Nat
    <3>1. Seconds(y.updated, at) \in 0 .. MaxTime
      BY <1>5, <2>3 DEF Seconds
    <3> QED BY <2>3, <3>1, ConstantsAssumption
  <2>8. NewHeat(y, thr) = AtMost(HeatMax, Cooled(y.heat, Seconds(y.updated, at)) + HeatOf(tc))
    <3>1. \A a, b \in Nat : a + b = b + a
      OBVIOUS
    <3>2. HeatOf(tc) \in Nat
      BY <1>2, <1>5
    <3> QED BY <1>2, <2>7, <3>1, <3>2 DEF NewHeat
  <2>9. told.heat = y.heat /\ told.updated = y.updated
    OBVIOUS
  <2> HIDE DEF told
  <2>10. WarmedBy(told, tc, at) =
           [heat |-> AtMost(HeatMax, Cooled(y.heat, Seconds(y.updated, at)) + HeatOf(tc)), updated |-> at]
    BY <2>5, <2>9 DEF WarmedBy
  <2> QED BY <2>4, <2>6, <2>8, <2>10 DEF tc
<1>7. CASE ~HasPage(old, pg)
  <2>1. HeatIn(old, pg) = Cold
    BY <1>7, HeatInIs
  <2>2. HeatIn(new, pg) = [heat |-> HeatOf(tc), updated |-> at]
    BY <1>3, <1>4, <1>7, HeatInIs
  <2>3. AtMost(HeatMax, 0 + HeatOf(tc)) = HeatOf(tc)
    BY <1>2, <1>5 DEF AtMost
  <2>4. WarmedBy(Cold, tc, at) = [heat |-> AtMost(HeatMax, 0 + HeatOf(tc)), updated |-> at]
    BY DEF WarmedBy
  <2> QED BY <2>1, <2>2, <2>3, <2>4 DEF tc
<1> QED BY <1>6, <1>7

LEMMA PageUpdated ==
  ASSUME NEW l, Flat(l), NEW at \in 0 .. MaxTime, NEW hm \in Heatmaps, \A p \in Pids : Proper(hm[p]),
         NEW new, new = UpdateFromCounters(hm, l, at), NEW pid \in Pids, NEW pg
  PROVE  HeatIn(new[pid], pg) =
           IF \A i \in DOMAIN l : l[i].pid # pid THEN Cold
           ELSE IF CoveringIn(l, pid, pg) = {} THEN HeatIn(hm[pid], pg)
           ELSE WarmedBy(HeatIn(hm[pid], pg), l[CHOOSE i \in CoveringIn(l, pid, pg) : TRUE], at)
<1> DEFINE covering == CoveringIn(l, pid, pg)
<1>1. IF \A i \in DOMAIN l : l[i].pid # pid THEN new[pid] = <<>>
      ELSE HeatsAfter(new[pid], hm[pid], l, pid, at, Len(l))
  BY UpdatedIs
<1>2. \A i : i \in covering <=> i \in DOMAIN l /\ Covers(l[i], pid, pg)
  BY DEF CoveringIn, Covers
<1>3. DOMAIN l = 1 .. Len(l)
  BY ListFields DEF Flat
<1>4. Proper(hm[pid])
  OBVIOUS
<1> HIDE DEF covering
<1>5. CASE \A i \in DOMAIN l : l[i].pid # pid
  <2>1. new[pid] = <<>>
    BY <1>1, <1>5
  <2>2. Proper(<<>>) /\ ~HasPage(<<>>, pg)
    BY NoElement DEF Proper, HasPage
  <2>3. HeatIn(<<>>, pg) = Cold
    BY <2>2, HeatInIs
  <2> QED BY <1>5, <2>1, <2>3
<1>6. CASE ~(\A i \in DOMAIN l : l[i].pid # pid) /\ covering = {}
  <2>1. HeatsAfter(new[pid], hm[pid], l, pid, at, Len(l))
    BY <1>1, <1>6
  <2>2. \A i \in 1 .. Len(l) : ~Covers(l[i], pid, pg)
    BY <1>2, <1>3, <1>6
  <2>3. Proper(new[pid])
    BY <2>1 DEF HeatsAfter
  <2>4. HeatIn(new[pid], pg) = HeatIn(hm[pid], pg)
    <3>1. CASE HasPage(hm[pid], pg)
      <4>1. PICK y \in ToSet(hm[pid]) : pg \in PagesIn(y)
        BY <3>1 DEF HasPage
      <4>2. Tell(hm[pid], pg, y.heat, y.updated)
        BY <4>1 DEF Tell
      <4>3. Tell(new[pid], pg, y.heat, y.updated)
        BY <2>1, <2>2, <4>2 DEF HeatsAfter
      <4> QED BY <1>4, <2>3, <4>2, <4>3, HeatInIs
    <3>2. CASE ~HasPage(hm[pid], pg)
      <4>1. ~HasPage(new[pid], pg)
        BY <2>1, <2>2, <3>2 DEF HeatsAfter
      <4> QED BY <1>4, <2>3, <3>2, <4>1, HeatInIs
    <3> QED BY <3>1, <3>2
  <2> QED BY <1>6, <2>4 DEF covering
<1>7. CASE ~(\A i \in DOMAIN l : l[i].pid # pid) /\ covering # {}
  <2>1. HeatsAfter(new[pid], hm[pid], l, pid, at, Len(l))
    BY <1>1, <1>7
  <2> DEFINE c == CHOOSE i \in covering : TRUE
  <2>2. c \in DOMAIN l /\ Covers(l[c], pid, pg)
    BY <1>2, <1>7
  <2> HIDE DEF c
  <2>3. HeatIn(new[pid], pg) = WarmedBy(HeatIn(hm[pid], pg), l[c], at)
    BY <1>4, <2>1, <2>2, WarmedIs
  <2> QED BY <1>7, <2>3 DEF c, covering
<1> QED BY <1>5, <1>6, <1>7

-----------------------------------------------------------------------------
(* The loop *)

\* What TypeOK leaves open and the steps need: what kind of numbers there are, that lists are
\* sorted, that the trackers' counters are finitely many and not empty, and that an empty
\* squashed counter comes right behind another one.
HeatInv ==
  /\ Counted
  /\ Flat(tcs) /\ \A x \in ToSet(tcs) : PagesIn(x) \subseteq AllPages
  /\ pidHrs \in Heatmaps
  /\ \A pid \in Pids : Proper(pidHrs[pid]) /\ \A pg : HasPage(pidHrs[pid], pg) => pg \in AllPages
  /\ timestamp \in 0 .. MaxTime
  /\ pc \in {"get", "reset", "update", "panic"}

LEMMA NothingListed == Flat(<<>>) /\ Proper(<<>>) /\ ToSet(<<>>) = {} /\ \A pg : ~HasPage(<<>>, pg)
  BY NoElement DEF Flat, Proper, HasPage

LEMMA NothingCounted ==
  ASSUME NEW empty, empty = [i \in DOMAIN Trackers |-> {}]
  PROVE  /\ empty \in [DOMAIN Trackers -> SUBSET Counter]
         /\ \A i \in DOMAIN Trackers : IsFiniteSet(empty[i])
         /\ \A i \in DOMAIN Trackers : empty[i] = {}
  BY FS_EmptySet

LEMMA InitHeatInv == Init => HeatInv
<1> SUFFICES ASSUME Init PROVE HeatInv
  OBVIOUS
<1>1. Counted
  BY NothingCounted DEF Init, Counted
<1>2. tcs = <<>> /\ pc = "get" /\ timestamp \in 0 .. MaxTime
  BY ConstantsAssumption DEF Init
<1>3. pidHrs \in Heatmaps /\ \A pid \in Pids : pidHrs[pid] = <<>>
  BY NoElement DEF Init, Heatmaps
<1> QED BY <1>1, <1>2, <1>3, NothingListed DEF HeatInv

LEMMA ScanHeatInv ==
  ASSUME HeatInv, NEW i \in DOMAIN Trackers, NEW r \in Regions[i], Scan(i, r)
  PROVE  HeatInv'
<1> DEFINE old == {tc \in counters[i] : SameRange(tc, r)}
           new == IF old = {} THEN r ELSE Union(CHOOSE tc \in old : TRUE, r)
<1>1. /\ counters \in [DOMAIN Trackers -> SUBSET Counter]
      /\ \A j \in DOMAIN Trackers : IsFiniteSet(counters[j])
      /\ \A j \in DOMAIN Trackers : \A tc \in counters[j] :
           tc.length > 0 /\ PagesIn(tc) \subseteq AllPages /\ tc.accesses \in 0 .. MaxCount
  BY DEF HeatInv, Counted
<1>2. /\ r \in [pid : Pids, addr : Nat, length : Nat \ {0}, accesses : Nat]
      /\ PagesIn(r) \subseteq AllPages
  BY ConstantsAssumption
<1>3. r \in Counter /\ r.length > 0 /\ r.accesses \in Nat
  BY <1>2 DEF Counter
<1>4. new \in Counter /\ new.length > 0 /\ PagesIn(new) \subseteq AllPages
  <2>1. CASE old = {}
    BY <1>2, <1>3, <2>1
  <2>2. CASE old # {}
    <3> DEFINE tc == CHOOSE c \in old : TRUE
    <3>1. tc \in old
      BY <2>2
    <3> HIDE DEF tc
    <3>2. tc \in Counter /\ tc.length > 0 /\ PagesIn(tc) \subseteq AllPages
      BY <1>1, <3>1
    <3>3. tc.accesses \in Nat
      BY <3>2, CounterFields
    <3> DEFINE u == Union(tc, r)
    <3>4. u = [tc EXCEPT !.accesses = tc.accesses + r.accesses]
      BY DEF Union
    <3> HIDE DEF u
    <3>5. u \in Counter /\ u.length = tc.length /\ u.addr = tc.addr
      BY <1>3, <3>2, <3>3, <3>4 DEF Counter
    <3>6. PagesIn(u) = PagesIn(tc)
      BY <3>5 DEF PagesIn, EndAddr
    <3>7. new = u
      BY <2>2 DEF tc, u
    <3> QED BY <3>2, <3>5, <3>6, <3>7
  <2> QED BY <2>1, <2>2
<1>5. /\ new.accesses <= MaxCount
      /\ counters' = [counters EXCEPT ![i] = (counters[i] \ old) \cup {new}]
      /\ UNCHANGED <<pc, timestamp, tcs, pidHrs>>
  BY DEF Scan
<1>6. new.accesses \in 0 .. MaxCount
  <2>1. new.accesses \in Nat
    <3> HIDE DEF new
    <3> QED BY <1>4, CounterFields
  <2> QED BY <1>5, <2>1, ConstantsAssumption
<1> HIDE DEF new, old
<1> DEFINE more == (counters[i] \ old) \cup {new}
<1>7. more \in SUBSET Counter /\ IsFiniteSet(more)
  <2>1. counters[i] \in SUBSET Counter /\ IsFiniteSet(counters[i])
    BY <1>1
  <2>2. IsFiniteSet(counters[i] \ old)
    BY <2>1, FS_Difference
  <2>3. IsFiniteSet(more)
    BY <2>2, FS_AddElement
  <2> QED BY <1>4, <2>1, <2>3
<1>8. \A tc \in more : tc.length > 0 /\ PagesIn(tc) \subseteq AllPages /\ tc.accesses \in 0 .. MaxCount
  BY <1>1, <1>4, <1>6
<1> HIDE DEF more
<1>9. counters' = [counters EXCEPT ![i] = more]
  BY <1>5 DEF more
<1>10. Counted'
  <2>1. counters' \in [DOMAIN Trackers -> SUBSET Counter]
    BY <1>1, <1>7, <1>9
  <2>2. \A j \in DOMAIN Trackers : counters'[j] = IF j = i THEN more ELSE counters[j]
    BY <1>1, <1>9
  <2>3. \A j \in DOMAIN Trackers : IsFiniteSet(counters'[j])
    BY <1>1, <1>7, <2>2
  <2>4. \A j \in DOMAIN Trackers : \A tc \in counters'[j] :
          tc.length > 0 /\ PagesIn(tc) \subseteq AllPages /\ tc.accesses \in 0 .. MaxCount
    BY <1>1, <1>8, <2>2
  <2> QED BY <2>1, <2>3, <2>4 DEF Counted
<1> QED BY <1>5, <1>10 DEF HeatInv

LEMMA GotCounters ==
  ASSUME HeatInv, GetCounters
  PROVE  /\ Flat(tcs') /\ \A x \in ToSet(tcs') : PagesIn(x) \subseteq AllPages
         /\ timestamp' \in 0 .. MaxTime /\ pc = "get" /\ pc' \in {"reset", "panic"}
         /\ UNCHANGED <<counters, pidHrs>>
         /\ pc' = "reset" => \A pid \in Pids, pg \in AllPages :
                               AccessesTold(tcs', pid, pg) = AccessesCounted(pid, pg)
<1>1. PICK list \in SortByAddr(AllCounters) :
        LET flat == Flattened([k \in DOMAIN list |-> list[k][2]]) IN
        /\ pc = "get" /\ pc' = IF flat.panics THEN "panic" ELSE "reset"
        /\ timestamp' \in 0 .. MaxTime
        /\ tcs' = IF flat.panics THEN <<>> ELSE flat.tcs
        /\ UNCHANGED <<counters, pidHrs>>
  BY DEF GetCounters
<1> DEFINE cl == [k \in DOMAIN list |-> list[k][2]]
           flat == Flattened(cl)
<1>2. /\ pc = "get" /\ pc' = IF flat.panics THEN "panic" ELSE "reset"
      /\ timestamp' \in 0 .. MaxTime /\ tcs' = (IF flat.panics THEN <<>> ELSE flat.tcs)
      /\ UNCHANGED <<counters, pidHrs>>
  BY <1>1
<1>3. Counted
  BY DEF HeatInv
<1>4. CASE flat.panics
  BY <1>2, <1>4, NothingListed
<1>5. CASE ~flat.panics
  <2> DEFINE l == flat.tcs
  <2>1. /\ Flat(l) /\ \A x \in ToSet(l) : PagesIn(x) \subseteq AllPages
        /\ \A pid \in Pids, pg \in AllPages : AccessesTold(l, pid, pg) = AccessesCounted(pid, pg)
    <3> DEFINE m == cl
    <3>1. m = [k \in DOMAIN list |-> list[k][2]]
      OBVIOUS
    <3>2. ~Flattened(m).panics /\ l = Flattened(m).tcs
      BY <1>5
    <3> HIDE DEF m, l
    <3> QED BY <1>3, <3>1, <3>2, SquashedIs
  <2>2. tcs' = l /\ pc' = "reset"
    BY <1>2, <1>5
  <2> HIDE DEF l
  <2>3. \A x \in ToSet(tcs') : PagesIn(x) \subseteq AllPages
    BY <2>1, <2>2
  <2>4. \A pid \in Pids, pg \in AllPages : AccessesTold(tcs', pid, pg) = AccessesCounted(pid, pg)
    BY <2>1, <2>2
  <2>5. Flat(tcs')
    BY <2>1, <2>2
  <2> QED BY <1>2, <2>2, <2>3, <2>4, <2>5
<1> QED BY <1>4, <1>5

LEMMA ResetHeatInv == HeatInv /\ ResetCounters => HeatInv'
<1> SUFFICES ASSUME HeatInv, ResetCounters PROVE HeatInv'
  OBVIOUS
<1>1. counters' = [i \in DOMAIN Trackers |-> {}] /\ UNCHANGED <<timestamp, tcs, pidHrs>> /\ pc' = "update"
  BY DEF ResetCounters
<1>2. Counted'
  BY <1>1, NothingCounted DEF Counted
<1> QED BY <1>1, <1>2 DEF HeatInv

\* The pages of the ranges come from the ranges before and from the counters.
LEMMA UpdateHeatInv == HeatInv /\ UpdateHeatmap => HeatInv'
<1> SUFFICES ASSUME HeatInv, UpdateHeatmap PROVE HeatInv'
  OBVIOUS
<1>1. /\ pidHrs' = UpdateFromCounters(pidHrs, tcs, timestamp)
      /\ tcs' = <<>> /\ UNCHANGED <<counters, timestamp>> /\ pc' = "get"
  BY DEF UpdateHeatmap
<1>2. /\ Counted /\ Flat(tcs) /\ pidHrs \in Heatmaps /\ timestamp \in 0 .. MaxTime
      /\ \A x \in ToSet(tcs) : PagesIn(x) \subseteq AllPages
      /\ \A pid \in Pids : Proper(pidHrs[pid]) /\ \A pg : HasPage(pidHrs[pid], pg) => pg \in AllPages
  BY DEF HeatInv
<1>3. /\ pidHrs' \in Heatmaps
      /\ \A pid \in Pids :
           IF \A i \in DOMAIN tcs : tcs[i].pid # pid THEN pidHrs'[pid] = <<>>
           ELSE HeatsAfter(pidHrs'[pid], pidHrs[pid], tcs, pid, timestamp, Len(tcs))
  BY <1>1, <1>2, UpdatedIs
<1>4. DOMAIN tcs = 1 .. Len(tcs) /\ \A i \in DOMAIN tcs : tcs[i] \in ToSet(tcs)
  BY <1>2, ListFields DEF Flat
<1>5. ASSUME NEW pid \in Pids
      PROVE  Proper(pidHrs'[pid]) /\ \A pg : HasPage(pidHrs'[pid], pg) => pg \in AllPages
  <2>1. CASE \A i \in DOMAIN tcs : tcs[i].pid # pid
    BY <1>3, <2>1, NothingListed
  <2>2. CASE ~\A i \in DOMAIN tcs : tcs[i].pid # pid
    <3> DEFINE new == pidHrs'[pid]
    <3>1. HeatsAfter(new, pidHrs[pid], tcs, pid, timestamp, Len(tcs))
      BY <1>3, <2>2
    <3> HIDE DEF new
    <3>2. Proper(new)
      BY <3>1 DEF HeatsAfter
    <3>3. ASSUME NEW pg, HasPage(new, pg) PROVE pg \in AllPages
      <4>1. HasPage(pidHrs[pid], pg) \/ \E i \in 1 .. Len(tcs) : Covers(tcs[i], pid, pg)
        BY <3>1, <3>3 DEF HeatsAfter
      <4>2. (\E i \in 1 .. Len(tcs) : Covers(tcs[i], pid, pg)) => pg \in AllPages
        BY <1>2, <1>4 DEF Covers
      <4> QED BY <1>2, <4>1, <4>2
    <3> QED BY <3>2, <3>3 DEF new
  <2> QED BY <2>1, <2>2
<1>6. Counted'
  BY <1>1, <1>2 DEF Counted
<1>7. Flat(tcs') /\ ToSet(tcs') = {}
  BY <1>1, NothingListed
<1> QED BY <1>1, <1>2, <1>3, <1>5, <1>6, <1>7 DEF HeatInv

LEMMA StepHeatInv == HeatInv /\ [Next]_vars => HeatInv'
<1> SUFFICES ASSUME HeatInv, [Next]_vars PROVE HeatInv'
  OBVIOUS
<1>1. ASSUME NEW i \in DOMAIN Trackers, NEW r \in Regions[i], Scan(i, r) PROVE HeatInv'
  BY <1>1, ScanHeatInv
<1>2. CASE GetCounters
  <2>1. /\ Flat(tcs') /\ \A x \in ToSet(tcs') : PagesIn(x) \subseteq AllPages
        /\ timestamp' \in 0 .. MaxTime /\ pc' \in {"reset", "panic"}
        /\ UNCHANGED <<counters, pidHrs>>
    BY <1>2, GotCounters
  <2>2. Counted'
    BY <2>1 DEF HeatInv, Counted
  <2> QED BY <2>1, <2>2 DEF HeatInv
<1>3. CASE ResetCounters
  BY <1>3, ResetHeatInv
<1>4. CASE UpdateHeatmap
  BY <1>4, UpdateHeatInv
<1>5. CASE UNCHANGED vars
  BY <1>5 DEF vars, HeatInv, Counted
<1> QED BY <1>1, <1>2, <1>3, <1>4, <1>5 DEF Next

LEMMA HeatInvTypes == HeatInv => TypeOK
<1> SUFFICES ASSUME HeatInv PROVE TypeOK
  OBVIOUS
<1>1. /\ Counted /\ Flat(tcs) /\ \A x \in ToSet(tcs) : PagesIn(x) \subseteq AllPages
      /\ \A pid \in Pids : Proper(pidHrs[pid]) /\ \A pg : HasPage(pidHrs[pid], pg) => pg \in AllPages
      /\ timestamp \in 0 .. MaxTime /\ pc \in {"get", "reset", "update", "panic"}
  BY DEF HeatInv
<1>2. ASSUME NEW i \in DOMAIN Trackers, NEW tc \in counters[i]
      PROVE  tc.pid \in Pids /\ PagesIn(tc) \subseteq AllPages /\ tc.accesses \in 0 .. MaxCount
  <2>1. tc \in Counter /\ PagesIn(tc) \subseteq AllPages /\ tc.accesses \in 0 .. MaxCount
    BY <1>1 DEF Counted
  <2> QED BY <2>1, CounterFields
<1>3. ASSUME NEW i \in DOMAIN tcs
      PROVE  /\ tcs[i].pid \in Pids /\ tcs[i].length >= 0 /\ PagesIn(tcs[i]) \subseteq AllPages
             /\ tcs[i].accesses \in Nat
  <2>1. tcs[i] \in Counter /\ tcs[i] \in ToSet(tcs)
    BY <1>1, ListFields DEF Flat
  <2>2. tcs[i].length >= 0
    BY <1>1, <2>1 DEF Flat
  <2> QED BY <1>1, <2>1, <2>2, CounterFields
<1>4. ASSUME NEW i \in DOMAIN tcs, NEW j \in DOMAIN tcs, i # j, tcs[i].pid = tcs[j].pid
      PROVE  ~Overlap(tcs[i], tcs[j])
  <2>1. ASSUME NEW k \in DOMAIN tcs, NEW m \in DOMAIN tcs, k < m, tcs[k].pid = tcs[m].pid
        PROVE  PagesIn(tcs[k]) \cap PagesIn(tcs[m]) = {}
    <3>1. k \in 1 .. (m - 1)
      <4>1. DOMAIN tcs = 1 .. Len(tcs) /\ Len(tcs) \in Nat
        BY <1>1, ListFields DEF Flat
      <4> QED BY <2>1, <4>1
    <3>2. \A pg : ~(Covers(tcs[k], tcs[m].pid, pg) /\ Covers(tcs[m], tcs[m].pid, pg))
      BY <1>1, <2>1, <3>1, FlatOrder
    <3> QED BY <2>1, <3>2 DEF Covers
  <2>2. i < j \/ j < i
    <3>1. DOMAIN tcs = 1 .. Len(tcs) /\ Len(tcs) \in Nat
      BY <1>1, ListFields DEF Flat
    <3> QED BY <1>4, <3>1
  <2> QED BY <1>4, <2>1, <2>2 DEF Overlap
<1>5. ASSUME NEW pid \in Pids, NEW i \in DOMAIN pidHrs[pid]
      PROVE  /\ PagesIn(pidHrs[pid][i]) \subseteq AllPages
             /\ pidHrs[pid][i].heat \in 0 .. HeatMax /\ pidHrs[pid][i].updated \in 0 .. MaxTime
             /\ pidHrs[pid][i].length > 0
             /\ i > 1 => EndAddr(pidHrs[pid][i - 1]) <= pidHrs[pid][i].addr
  <2> DEFINE l == pidHrs[pid]
  <2>1. Proper(l) /\ i \in DOMAIN l /\ \A pg : HasPage(l, pg) => pg \in AllPages
    BY <1>1
  <2> HIDE DEF l
  <2>2. /\ l[i] \in HR /\ l[i].length > 0 /\ DOMAIN l = 1 .. Len(l) /\ Len(l) \in Nat
        /\ \A k, j \in DOMAIN l : k < j => EndAddr(l[k]) <= l[j].addr
    BY <2>1, ProperFields
  <2>3. l[i] \in ToSet(l)
    BY <2>1, ListFields DEF Proper
  <2>4. PagesIn(l[i]) \subseteq AllPages
    BY <2>1, <2>3 DEF HasPage
  <2>5. l[i].heat \in 0 .. HeatMax /\ l[i].updated \in 0 .. MaxTime
    BY <2>2, HRFields
  <2>6. i > 1 => i - 1 \in DOMAIN l /\ i - 1 < i
    BY <2>1, <2>2
  <2>7. i > 1 => EndAddr(l[i - 1]) <= l[i].addr
    BY <2>1, <2>2, <2>6
  <2> QED BY <2>2, <2>4, <2>5, <2>7 DEF l
<1> QED BY <1>1, <1>2, <1>3, <1>4, <1>5 DEF TypeOK

LEMMA HeatInvariant == Spec => []HeatInv
<1> QED BY InitHeatInv, StepHeatInv, PTL DEF Spec

\* The squashed counters of a process are apart (tracker.go:205), the ranges of a process in
\* the heatmap are sorted, apart and not empty (counters_heatmap.go:54), and their pages are
\* pages that trackers counted, however many trackers count the same ranges, parts of them
\* or ranges that touch.
THEOREM TypeCorrect == Spec => []TypeOK
<1> QED BY HeatInvariant, HeatInvTypes, PTL

\* What AddFlat makes of one counter after the other, splitting and joining them, has
\* for every page the accesses of all the counters over it (Flattened, tracker.go).
THEOREM NoAccessIsLost == Spec => SquashingKeepsAccesses
<1>1. ASSUME HeatInv, [Next]_vars, pc = "get", pc' = "reset"
      PROVE  \A pid \in Pids, pg \in AllPages : AccessesTold(tcs', pid, pg) = AccessesCounted(pid, pg)
  <2>1. GetCounters
    BY <1>1 DEF Next, vars, Scan, ResetCounters, UpdateHeatmap
  <2> QED BY <1>1, <2>1, GotCounters
<1>2. HeatInv /\ [Next]_vars =>
        [pc = "get" /\ pc' = "reset" =>
           \A pid \in Pids, pg \in AllPages : AccessesTold(tcs', pid, pg) = AccessesCounted(pid, pg)]_vars
  BY <1>1
<1> QED BY <1>2, HeatInvariant, PTL DEF Spec, SquashingKeepsAccesses

-----------------------------------------------------------------------------
(* The heatmap implements a heat of every page *)

HeatOfPages == [pid \in Pids |-> [pg \in AllPages |-> HeatAt(pid, pg)]]

LEMMA HeatAtIs ==
  /\ \A pid, pg : HeatAt(pid, pg) = HeatIn(pidHrs[pid], pg)
  /\ \A pid, pg : HeatAt(pid, pg)' = HeatIn(pidHrs'[pid], pg)
<1>1. \A pid, pg : HeatAt(pid, pg) = HeatIn(pidHrs[pid], pg)
  BY DEF HeatAt, HeatIn
<1>2. \A pid, pg : HeatAt(pid, pg)' = HeatIn(pidHrs'[pid], pg)
  BY DEF HeatAt, HeatIn
<1> QED BY <1>1, <1>2

\* UpdateHeatmap does in one step, for every page, what the counters over it account for.
LEMMA UpdateOfPages == HeatInv /\ UpdateHeatmap => Pages!Update
<1> SUFFICES ASSUME HeatInv, UpdateHeatmap PROVE Pages!Update
  OBVIOUS
<1>1. /\ Flat(tcs) /\ timestamp \in 0 .. MaxTime /\ pidHrs \in Heatmaps
      /\ \A pid \in Pids : Proper(pidHrs[pid])
      /\ pidHrs' = UpdateFromCounters(pidHrs, tcs, timestamp)
  BY DEF HeatInv, UpdateHeatmap
<1> DEFINE new(pid, pg) ==
      IF \A i \in DOMAIN tcs : tcs[i].pid # pid THEN Cold
      ELSE IF Pages!Covering(pid, pg) = {} THEN HeatOfPages[pid][pg]
      ELSE Pages!Warmed(HeatOfPages[pid][pg], tcs[CHOOSE i \in Pages!Covering(pid, pg) : TRUE])
<1>2. ASSUME NEW pid \in Pids, NEW pg \in AllPages PROVE HeatAt(pid, pg)' = new(pid, pg)
  <2>1. HeatOfPages[pid][pg] = HeatIn(pidHrs[pid], pg)
    BY HeatAtIs DEF HeatOfPages
  <2>2. Pages!Covering(pid, pg) = CoveringIn(tcs, pid, pg)
    BY DEF Pages!Covering, Pages!PagesIn, Pages!EndAddr, CoveringIn, PagesIn, EndAddr
  <2>3. \A old, tc : Pages!Warmed(old, tc) = WarmedBy(old, tc, timestamp)
    BY DEF Pages!Warmed, Pages!AtMost, Pages!Seconds, Pages!HeatOf, WarmedBy, AtMost, Seconds, HeatOf
  <2>4. HeatIn(pidHrs'[pid], pg) =
           IF \A i \in DOMAIN tcs : tcs[i].pid # pid THEN Cold
           ELSE IF CoveringIn(tcs, pid, pg) = {} THEN HeatIn(pidHrs[pid], pg)
           ELSE WarmedBy(HeatIn(pidHrs[pid], pg), tcs[CHOOSE i \in CoveringIn(tcs, pid, pg) : TRUE], timestamp)
    BY <1>1, PageUpdated
  <2> QED BY <2>1, <2>2, <2>3, <2>4, HeatAtIs
<1>3. HeatOfPages' = [pid \in Pids |-> [pg \in AllPages |-> HeatAt(pid, pg)']]
  BY DEF HeatOfPages
<1>4. HeatOfPages' = [pid \in Pids |-> [pg \in AllPages |-> new(pid, pg)]]
  BY <1>2, <1>3
<1> QED BY <1>4 DEF Pages!Update, HeatOfPages

\* However often UpdateFromCounters splits, fills and joins ranges (counters_heatmap.go),
\* every page has the heat that the counters over it account for: cooled down for the time
\* since its last counter, warmed up by the new one, kept without one, and forgotten with
\* its process.
THEOREM HeatmapIsPageHeat == Spec => ImplementsPageHeat
<1>1. Init => Pages!Init
  <2> SUFFICES ASSUME Init PROVE Pages!Init
    OBVIOUS
  <2>1. ASSUME NEW pid \in Pids, NEW pg \in AllPages PROVE HeatAt(pid, pg) = Cold
    <3>1. pidHrs[pid] = <<>>
      BY DEF Init
    <3>2. HeatIn(<<>>, pg) = Cold
      BY NothingListed, HeatInIs
    <3> QED BY <3>1, <3>2, HeatAtIs
  <2> QED BY <2>1 DEF Pages!Init
<1>2. HeatInv /\ [Next]_vars => [Pages!Update]_HeatOfPages
  <2> SUFFICES ASSUME HeatInv, [Next]_vars PROVE [Pages!Update]_HeatOfPages
    OBVIOUS
  <2>1. CASE UpdateHeatmap
    BY <2>1, UpdateOfPages
  <2>2. CASE ~UpdateHeatmap
    <3>1. pidHrs' = pidHrs
      BY <2>2, GotCounters DEF Next, vars, Scan, ResetCounters
    <3> QED BY <3>1 DEF HeatOfPages, HeatAt
  <2> QED BY <2>1, <2>2
<1> QED BY <1>1, <1>2, HeatInvariant, PTL DEF Spec, ImplementsPageHeat, Pages!Spec, HeatOfPages
=============================================================================
