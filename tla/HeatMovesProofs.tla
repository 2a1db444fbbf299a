---------------------------- MODULE HeatMovesProofs ----------------------------
(***************************************************************************)
(* Proofs about the heat policy's moves: what SetData does to a book of    *)
(* ranges, the types, that the book never changes without a reason, and    *)
(* that the accounts change as the book does.                              *)
(***************************************************************************)
EXTENDS HeatMoves, SequenceTheorems, FiniteSetTheorems, TLAPS

-----------------------------------------------------------------------------
(* Books of ranges *)

LEMMA LeastNumber ==
  ASSUME NEW T \in SUBSET Nat, T # {}
  PROVE  Min(T) \in T /\ \A y \in T : Min(T) <= y
<1>1. PICK x \in T : \A y \in T : <<y, x>> \notin OpToRel(<, Nat)
  BY NatLessThanWellFounded, WFMin
<1>2. \A y \in T : ~(y < x)
  BY <1>1 DEF OpToRel
<1>3. \A y \in T : x <= y
  BY <1>2
<1> QED BY <1>3 DEF Min

Entries ==
  {e \in [addr : Nat, length : Nat \ {0}, data : Places \cup {Undefined}] : PagesIn(e) \subseteq AllPages}

\* Every range of a list ends before all that follow it.
Apart(ads) == \A i, j \in DOMAIN ads : i < j => EndAddr(ads[i]) <= ads[j].addr

Books == {ads \in Seq(Entries) : Apart(ads)}

Precedes(s, t) == \A i \in DOMAIN s, j \in DOMAIN t : EndAddr(s[i]) <= t[j].addr

\* A range of the list has the address, with that data.
Says(ads, a, d) == \E i \in DOMAIN ads : a \in PagesIn(ads[i]) /\ ads[i].data = d

LEMMA EntryFields ==
  ASSUME NEW e \in Entries
  PROVE  /\ e.addr \in Nat /\ e.length \in Nat \ {0} /\ e.data \in Places \cup {Undefined}
         /\ EndAddr(e) \in Nat /\ EndAddr(e) > e.addr /\ PagesIn(e) \subseteq AllPages
         /\ \A a \in Int : a \in PagesIn(e) <=> e.addr <= a /\ a < EndAddr(e)
  BY DEF Entries, EndAddr, PagesIn

LEMMA BookFields ==
  ASSUME NEW ads \in Books
  PROVE  /\ ads \in Seq(Entries) /\ Len(ads) \in Nat /\ DOMAIN ads = 1 .. Len(ads)
         /\ \A i \in DOMAIN ads : ads[i] \in Entries
         /\ Apart(ads) /\ IsProper(ads)
<1>1. /\ ads \in Seq(Entries) /\ Len(ads) \in Nat /\ DOMAIN ads = 1 .. Len(ads)
      /\ \A i \in DOMAIN ads : ads[i] \in Entries
      /\ Apart(ads)
  BY DEF Books
<1>2. ASSUME NEW i \in DOMAIN ads PROVE ads[i].length > 0 /\ (i > 1 => EndAddr(ads[i - 1]) <= ads[i].addr)
  <2>1. ads[i].length > 0
    BY <1>1, EntryFields
  <2>2. i > 1 => i - 1 \in DOMAIN ads /\ i - 1 < i
    BY <1>1
  <2> QED BY <1>1, <2>1, <2>2 DEF Apart
<1> QED BY <1>1, <1>2 DEF IsProper

LEMMA Joining ==
  ASSUME NEW s \in Books, NEW t \in Books, Precedes(s, t)
  PROVE  /\ s \o t \in Books
         /\ DOMAIN (s \o t) = DOMAIN s \cup {Len(s) + j : j \in DOMAIN t}
         /\ \A i \in DOMAIN s : (s \o t)[i] = s[i]
         /\ \A j \in DOMAIN t : (s \o t)[Len(s) + j] = t[j]
         /\ \A a, d : Says(s \o t, a, d) <=> Says(s, a, d) \/ Says(t, a, d)
<1> DEFINE u == s \o t
<1>1. /\ s \in Seq(Entries) /\ t \in Seq(Entries) /\ Len(s) \in Nat /\ Len(t) \in Nat
      /\ DOMAIN s = 1 .. Len(s) /\ DOMAIN t = 1 .. Len(t)
  BY BookFields
<1>2. /\ u \in Seq(Entries) /\ Len(u) = Len(s) + Len(t) /\ DOMAIN u = 1 .. (Len(s) + Len(t))
      /\ \A i \in DOMAIN s : u[i] = s[i]
      /\ \A i \in DOMAIN u : i > Len(s) => u[i] = t[i - Len(s)]
  BY <1>1
<1> HIDE DEF u
<1>3. \A i \in DOMAIN u : i \in DOMAIN s \/ (i > Len(s) /\ i - Len(s) \in DOMAIN t)
  BY <1>1, <1>2
<1>4. \A j \in DOMAIN t : Len(s) + j \in DOMAIN u /\ u[Len(s) + j] = t[j]
  BY <1>1, <1>2
<1>5. DOMAIN u = DOMAIN s \cup {Len(s) + j : j \in DOMAIN t}
  <2>1. ASSUME NEW i \in DOMAIN u PROVE i \in DOMAIN s \cup {Len(s) + j : j \in DOMAIN t}
    <3>1. i = Len(s) + (i - Len(s))
      BY <1>1, <1>2
    <3> QED BY <1>3, <3>1
  <2>2. DOMAIN s \subseteq DOMAIN u
    BY <1>1, <1>2
  <2> QED BY <1>4, <2>1, <2>2
<1>6. Apart(u)
  <2> SUFFICES ASSUME NEW i \in DOMAIN u, NEW j \in DOMAIN u, i < j PROVE EndAddr(u[i]) <= u[j].addr
    BY DEF Apart
  <2>1. CASE j \in DOMAIN s
    <3>1. i \in DOMAIN s
      BY <1>1, <1>2, <2>1
    <3> QED BY <1>2, <2>1, <3>1, BookFields DEF Apart
  <2>2. CASE j > Len(s) /\ j - Len(s) \in DOMAIN t /\ i \in DOMAIN s
    BY <1>2, <2>2 DEF Precedes
  <2>3. CASE j > Len(s) /\ j - Len(s) \in DOMAIN t /\ i > Len(s) /\ i - Len(s) \in DOMAIN t
    <3>1. i - Len(s) < j - Len(s)
      BY <1>1, <1>2
    <3> QED BY <1>2, <2>3, <3>1, BookFields DEF Apart
  <2> QED BY <1>3, <2>1, <2>2, <2>3
<1>7. ASSUME NEW a, NEW d PROVE Says(u, a, d) <=> Says(s, a, d) \/ Says(t, a, d)
  <2>1. Says(u, a, d) => Says(s, a, d) \/ Says(t, a, d)
    BY <1>2, <1>3 DEF Says
  <2>2. Says(s, a, d) => Says(u, a, d)
    BY <1>2, <1>5 DEF Says
  <2>3. Says(t, a, d) => Says(u, a, d)
    BY <1>4 DEF Says
  <2> QED BY <2>1, <2>2, <2>3
<1> QED BY <1>2, <1>4, <1>5, <1>6, <1>7 DEF Books, u

LEMMA JoiningPrecedes ==
  ASSUME NEW s \in Books, NEW t \in Books, Precedes(s, t), NEW w
  PROVE  /\ Precedes(s, w) /\ Precedes(t, w) => Precedes(s \o t, w)
         /\ Precedes(w, s) /\ Precedes(w, t) => Precedes(w, s \o t)
  BY Joining DEF Precedes

LEMMA NoRange == <<>> \in Books /\ \A s : Precedes(<<>>, s) /\ Precedes(s, <<>>)
  BY DEF Books, Apart, Precedes

LEMMA OneRange ==
  ASSUME NEW e \in Entries
  PROVE  /\ <<e>> \in Books
         /\ \A a, d : Says(<<e>>, a, d) <=> a \in PagesIn(e) /\ e.data = d
         /\ DOMAIN <<e>> = {1} /\ <<e>>[1] = e
<1>1. /\ <<e>> \in Seq(Entries) /\ DOMAIN <<e>> = {1} /\ <<e>>[1] = e
  OBVIOUS
<1> QED BY <1>1 DEF Books, Apart, Says

\* Two ranges of a book have no address in common.
LEMMA DataIs ==
  ASSUME NEW ads \in Books, NEW i \in DOMAIN ads, NEW a \in PagesIn(ads[i])
  PROVE  Data(ads, a) = ads[i].data
<1> DEFINE found == {j \in DOMAIN ads : a \in PagesIn(ads[j])}
<1>1. ASSUME NEW j \in found PROVE j = i
  <2>1. ads[i] \in Entries /\ ads[j] \in Entries /\ i \in Nat /\ j \in Nat /\ Apart(ads)
    BY BookFields
  <2>2. a \in Int
    BY <2>1, EntryFields DEF PagesIn
  <2>3. a < EndAddr(ads[i]) /\ ads[i].addr <= a /\ a < EndAddr(ads[j]) /\ ads[j].addr <= a
    BY <2>1, <2>2, EntryFields
  <2>4. ~(i < j) /\ ~(j < i)
    <3>1. \A m, n \in DOMAIN ads : m < n => EndAddr(ads[m]) <= ads[n].addr
      BY <2>1 DEF Apart
    <3>2. i < j => EndAddr(ads[i]) <= ads[j].addr
      BY <3>1
    <3>3. j < i => EndAddr(ads[j]) <= ads[i].addr
      BY <3>1
    <3>4. EndAddr(ads[i]) \in Nat /\ EndAddr(ads[j]) \in Nat /\ ads[i].addr \in Nat /\ ads[j].addr \in Nat
      BY <2>1, EntryFields
    <3> QED BY <2>2, <2>3, <3>2, <3>3, <3>4
  <2> QED BY <2>1, <2>4
<1>2. found = {i}
  BY <1>1
<1>3. Min(found) = i
  BY <1>2, BookFields DEF Min
<1> QED BY <1>2, <1>3 DEF Data

LEMMA DataSaid ==
  ASSUME NEW ads \in Books, NEW a
  PROVE  /\ \A d : Says(ads, a, d) => Data(ads, a) = d
         /\ (\A d : ~Says(ads, a, d)) => Data(ads, a) = Undefined
         /\ Data(ads, a) = Undefined \/ Says(ads, a, Data(ads, a))
<1>1. ASSUME NEW d, Says(ads, a, d) PROVE Data(ads, a) = d
  BY <1>1, DataIs DEF Says
<1>2. ASSUME \A d : ~Says(ads, a, d) PROVE Data(ads, a) = Undefined
  <2>1. {i \in DOMAIN ads : a \in PagesIn(ads[i])} = {}
    BY <1>2 DEF Says
  <2> QED BY <2>1 DEF Data
<1> QED BY <1>1, <1>2

LEMMA SameSaid ==
  ASSUME NEW ads \in Books, NEW bds \in Books, NEW a, \A d : Says(ads, a, d) <=> Says(bds, a, d)
  PROVE  Data(ads, a) = Data(bds, a)
<1>1. CASE \A d : ~Says(ads, a, d)
  BY <1>1, DataSaid
<1>2. ASSUME NEW d, Says(ads, a, d) PROVE Data(ads, a) = Data(bds, a)
  BY <1>2, DataSaid
<1> QED BY <1>1, <1>2

-----------------------------------------------------------------------------
(* SetData *)

\* A range as SetData is given it: its data is that of the policy.
LEMMA Boundaries ==
  ASSUME NEW ads \in Books, NEW r \in Entries
  PROVE  LET first == FirstOverlapping(ads, r)
             behind == FirstBehind(ads, r)
         IN /\ first \in 1 .. (Len(ads) + 1) /\ behind \in first .. (Len(ads) + 1)
            /\ \A i \in DOMAIN ads :
                 /\ i < first => EndAddr(ads[i]) <= r.addr
                 /\ i >= first => EndAddr(ads[i]) > r.addr
                 /\ i >= first /\ i < behind => ads[i].addr < EndAddr(r)
                 /\ i >= behind => ads[i].addr >= EndAddr(r)
<1> DEFINE first == FirstOverlapping(ads, r)
           behind == FirstBehind(ads, r)
           n == Len(ads)
           F == {i \in DOMAIN ads : EndAddr(ads[i]) > r.addr} \cup {n + 1}
           B == {i \in DOMAIN ads : i >= first /\ ads[i].addr >= EndAddr(r)} \cup {n + 1}
<1>1. /\ n \in Nat /\ DOMAIN ads = 1 .. n /\ Apart(ads)
      /\ r.addr \in Nat /\ EndAddr(r) \in Nat
      /\ \A i \in DOMAIN ads : ads[i].addr \in Nat /\ EndAddr(ads[i]) \in Nat /\ EndAddr(ads[i]) > ads[i].addr
  BY BookFields, EntryFields
<1>2. F \in SUBSET Nat /\ F # {} /\ first = Min(F) /\ F \subseteq 1 .. (n + 1)
  BY <1>1 DEF FirstOverlapping
<1>3. B \in SUBSET Nat /\ B # {} /\ behind = Min(B) /\ B \subseteq 1 .. (n + 1)
  BY <1>1 DEF FirstBehind
<1>4. first \in F /\ \A i \in F : first <= i
  <2> HIDE DEF F, first
  <2> QED BY <1>2, LeastNumber
<1>5. behind \in B /\ \A i \in B : behind <= i
  <2> HIDE DEF B, behind
  <2> QED BY <1>3, LeastNumber
<1>6. first \in 1 .. (n + 1)
  BY <1>2, <1>4
<1>7. behind \in first .. (n + 1)
  <2>1. behind >= first
    BY <1>5, <1>6
  <2> QED BY <2>1, <1>3, <1>5, <1>6
<1> HIDE DEF first, behind
<1>8. ASSUME NEW i \in DOMAIN ads PROVE i < first => EndAddr(ads[i]) <= r.addr
  <2>1. EndAddr(ads[i]) > r.addr => first <= i
    BY <1>4
  <2> QED BY <2>1, <1>1, <1>6
<1>9. ASSUME NEW i \in DOMAIN ads, i >= first PROVE EndAddr(ads[i]) > r.addr
  <2>1. first \in DOMAIN ads /\ EndAddr(ads[first]) > r.addr
    BY <1>1, <1>4, <1>6, <1>9
  <2>2. i = first \/ EndAddr(ads[first]) <= ads[i].addr
    BY <1>1, <1>6, <1>9, <2>1 DEF Apart
  <2> QED BY <1>1, <2>1, <2>2
<1>10. ASSUME NEW i \in DOMAIN ads, i >= first, i < behind PROVE ads[i].addr < EndAddr(r)
  <2>1. i \notin B
    BY <1>1, <1>5, <1>7, <1>10
  <2> QED BY <1>1, <1>10, <2>1
<1>11. ASSUME NEW i \in DOMAIN ads, i >= behind PROVE ads[i].addr >= EndAddr(r)
  <2>1. behind \in DOMAIN ads /\ ads[behind].addr >= EndAddr(r)
    BY <1>1, <1>5, <1>7, <1>11
  <2>2. i = behind \/ EndAddr(ads[behind]) <= ads[i].addr
    BY <1>1, <1>7, <1>11, <2>1 DEF Apart
  <2> QED BY <1>1, <2>1, <2>2
<1> QED BY <1>6, <1>7, <1>8, <1>9, <1>10, <1>11 DEF first, behind, n

LEMMA PartOfBook ==
  ASSUME NEW ads \in Books, NEW m \in 1 .. (Len(ads) + 1), NEW n \in (m - 1) .. Len(ads)
  PROVE  /\ SubSeq(ads, m, n) \in Books
         /\ DOMAIN SubSeq(ads, m, n) = 1 .. (n - m + 1)
         /\ \A i \in DOMAIN SubSeq(ads, m, n) : SubSeq(ads, m, n)[i] = ads[m + i - 1]
         /\ \A a, d : Says(SubSeq(ads, m, n), a, d) <=>
              \E i \in m .. n : a \in PagesIn(ads[i]) /\ ads[i].data = d
<1> DEFINE part == SubSeq(ads, m, n)
<1>1. /\ ads \in Seq(Entries) /\ Len(ads) \in Nat /\ DOMAIN ads = 1 .. Len(ads) /\ Apart(ads)
      /\ m \in Int /\ n \in Int
  BY BookFields
<1>2. /\ part \in Seq(Entries) /\ DOMAIN part = 1 .. (n - m + 1)
      /\ \A i \in 1 .. (n - m + 1) : part[i] = ads[m + i - 1] /\ m + i - 1 \in m .. n
  <2>1. \A i \in m .. n : ads[i] \in Entries
    BY <1>1
  <2>2. part \in Seq(Entries) /\ Len(part) = (IF m <= n THEN n - m + 1 ELSE 0)
        /\ \A i \in 1 .. (n - m + 1) : part[i] = ads[m + i - 1]
    BY <1>1
  <2>3. Len(part) = n - m + 1
    BY <1>1, <2>2
  <2> HIDE DEF part
  <2> QED BY <1>1, <2>2, <2>3
<1> HIDE DEF part
<1>3. Apart(part)
  <2> SUFFICES ASSUME NEW i \in DOMAIN part, NEW j \in DOMAIN part, i < j
               PROVE  EndAddr(part[i]) <= part[j].addr
    BY DEF Apart
  <2>1. m + i - 1 \in DOMAIN ads /\ m + j - 1 \in DOMAIN ads /\ m + i - 1 < m + j - 1
    BY <1>1, <1>2
  <2>2. EndAddr(ads[m + i - 1]) <= ads[m + j - 1].addr
    BY <1>1, <2>1 DEF Apart
  <2> QED BY <1>2, <2>2
<1>4. ASSUME NEW a, NEW d
      PROVE  Says(part, a, d) <=> \E i \in m .. n : a \in PagesIn(ads[i]) /\ ads[i].data = d
  <2>1. Says(part, a, d) => \E i \in m .. n : a \in PagesIn(ads[i]) /\ ads[i].data = d
    BY <1>2 DEF Says
  <2>2. ASSUME NEW i \in m .. n, a \in PagesIn(ads[i]), ads[i].data = d PROVE Says(part, a, d)
    <3>1. i - m + 1 \in DOMAIN part /\ m + (i - m + 1) - 1 = i
      BY <1>1, <1>2
    <3>2. part[i - m + 1] = ads[i]
      BY <1>2, <3>1
    <3> QED BY <2>2, <3>1, <3>2 DEF Says
  <2> QED BY <2>1, <2>2
<1> QED BY <1>2, <1>3, <1>4 DEF Books, part

LEMMA PartOfRange ==
  ASSUME NEW e \in Entries, NEW from \in Nat, NEW to \in Nat,
         e.addr <= from \/ from >= to, to <= EndAddr(e) \/ from >= to
  PROVE  /\ Part(e, from, to) \in Books
         /\ \A i \in DOMAIN Part(e, from, to) :
              Part(e, from, to)[i].addr = from /\ EndAddr(Part(e, from, to)[i]) = to /\ from < to
         /\ \A a \in Int : \A d : Says(Part(e, from, to), a, d) <=> from <= a /\ a < to /\ e.data = d
<1>1. CASE from >= to
  <2>1. Part(e, from, to) = <<>>
    BY <1>1 DEF Part
  <2>2. \A a, d : ~Says(<<>>, a, d)
    BY DEF Says
  <2> QED BY <1>1, <2>1, <2>2, NoRange
<1>2. CASE from < to
  <2> DEFINE part == [addr |-> from, length |-> to - from, data |-> e.data]
  <2>1. e \in [addr : Nat, length : Nat \ {0}, data : Places \cup {Undefined}] /\ PagesIn(e) \subseteq AllPages
    BY DEF Entries
  <2>2. /\ part \in [addr : Nat, length : Nat \ {0}, data : Places \cup {Undefined}]
        /\ part.addr = from /\ part.length = to - from /\ part.data = e.data
    <3>1. to - from \in Nat \ {0} /\ e.data \in Places \cup {Undefined}
      BY <1>2, <2>1
    <3> QED BY <3>1
  <2> HIDE DEF part
  <2>3. EndAddr(part) = to
    BY <2>2 DEF EndAddr
  <2>4. PagesIn(part) \subseteq PagesIn(e)
    BY <1>2, <2>1, <2>2, <2>3 DEF PagesIn, EndAddr
  <2>5. part \in Entries
    BY <2>1, <2>2, <2>4 DEF Entries
  <2>6. Part(e, from, to) = <<part>>
    BY <1>2 DEF Part, part
  <2> QED BY <1>2, <2>2, <2>3, <2>5, <2>6, OneRange, EntryFields
<1> QED BY <1>1, <1>2

\* addrdata.go:101: a range that is set is what the book says of its pages, and of all
\* others it says what it said before; it stays a list of ranges that are apart.
LEMMA SetDataSets ==
  ASSUME NEW ads \in Books, NEW r \in Entries
  PROVE  /\ SetData(ads, r) \in Books
         /\ \A a \in Int : Data(SetData(ads, r), a) =
                             IF a \in PagesIn(r) THEN r.data ELSE Data(ads, a)
<1> DEFINE first == FirstOverlapping(ads, r)
           behind == FirstBehind(ads, r)
           some == first < behind
           start == IF some THEN Part(ads[first], ads[first].addr, r.addr) ELSE <<>>
           rest == IF some THEN Part(ads[behind - 1], EndAddr(r), EndAddr(ads[behind - 1])) ELSE <<>>
           before == SubSeq(ads, 1, first - 1)
           after == SubSeq(ads, behind, Len(ads))
           n == Len(ads)
<1>1. /\ n \in Nat /\ DOMAIN ads = 1 .. n /\ Apart(ads)
      /\ r.addr \in Nat /\ EndAddr(r) \in Nat /\ r.addr < EndAddr(r)
      /\ \A i \in DOMAIN ads :
           /\ ads[i] \in Entries /\ ads[i].addr \in Nat /\ EndAddr(ads[i]) \in Nat
           /\ EndAddr(ads[i]) > ads[i].addr
  BY BookFields, EntryFields
<1>2. /\ first \in 1 .. (n + 1) /\ behind \in first .. (n + 1)
      /\ \A i \in DOMAIN ads :
           /\ i < first => EndAddr(ads[i]) <= r.addr
           /\ i >= first => EndAddr(ads[i]) > r.addr
           /\ i >= first /\ i < behind => ads[i].addr < EndAddr(r)
           /\ i >= behind => ads[i].addr >= EndAddr(r)
  BY Boundaries
<1>3. SetData(ads, r) = before \o start \o <<r>> \o rest \o after
  <2>1. r.length # 0
    BY EntryFields
  <2> QED BY <2>1 DEF SetData
<1> HIDE DEF first, behind
<1>4. /\ before \in Books
      /\ \A i \in DOMAIN before : i \in DOMAIN ads /\ i < first /\ before[i] = ads[i]
      /\ \A a, d : Says(before, a, d) <=> \E i \in 1 .. (first - 1) : a \in PagesIn(ads[i]) /\ ads[i].data = d
  <2>1. first - 1 \in 0 .. n /\ 1 \in 1 .. (n + 1)
    BY <1>1, <1>2
  <2>2. /\ before \in Books
        /\ DOMAIN before = 1 .. (first - 1 - 1 + 1)
        /\ \A i \in DOMAIN before : before[i] = ads[1 + i - 1]
        /\ \A a, d : Says(before, a, d) <=> \E i \in 1 .. (first - 1) : a \in PagesIn(ads[i]) /\ ads[i].data = d
    BY <2>1, PartOfBook
  <2> HIDE DEF before
  <2> QED BY <1>1, <1>2, <2>2
<1>5. /\ after \in Books
      /\ \A i \in DOMAIN after : \E j \in DOMAIN ads : j >= behind /\ after[i] = ads[j]
      /\ \A a, d : Says(after, a, d) <=> \E i \in behind .. n : a \in PagesIn(ads[i]) /\ ads[i].data = d
  <2>1. n \in (behind - 1) .. n /\ behind \in 1 .. (n + 1)
    BY <1>1, <1>2
  <2>2. /\ after \in Books
        /\ DOMAIN after = 1 .. (n - behind + 1)
        /\ \A i \in DOMAIN after : after[i] = ads[behind + i - 1]
        /\ \A a, d : Says(after, a, d) <=> \E i \in behind .. n : a \in PagesIn(ads[i]) /\ ads[i].data = d
    BY <2>1, PartOfBook
  <2> HIDE DEF after
  <2>3. \A i \in DOMAIN after : behind + i - 1 \in DOMAIN ads /\ behind + i - 1 >= behind
    BY <1>1, <1>2, <2>2
  <2> QED BY <2>2, <2>3
<1>6. /\ start \in Books
      /\ \A i \in DOMAIN start :
           EndAddr(start[i]) = r.addr /\ some /\ start[i].addr = ads[first].addr
      /\ \A a \in Int : \A d : Says(start, a, d) <=>
                             some /\ ads[first].addr <= a /\ a < r.addr /\ ads[first].data = d
  <2>1. CASE some
    <3>1. first \in DOMAIN ads /\ EndAddr(ads[first]) > r.addr
      BY <1>1, <1>2, <2>1
    <3> DEFINE e == ads[first]
    <3>2. e \in Entries /\ e.addr \in Nat /\ e.addr <= e.addr /\ r.addr <= EndAddr(e)
      BY <1>1, <3>1
    <3>3. start = Part(e, e.addr, r.addr)
      BY <2>1
    <3> HIDE DEF start
    <3> QED BY <1>1, <2>1, <3>2, <3>3, PartOfRange
  <2>2. CASE ~some
    <3>1. start = <<>> /\ \A a, d : ~Says(<<>>, a, d)
      BY <2>2 DEF Says
    <3> QED BY <2>2, <3>1, NoRange
  <2> QED BY <2>1, <2>2
<1>7. /\ rest \in Books
      /\ \A i \in DOMAIN rest :
           rest[i].addr = EndAddr(r) /\ some /\ EndAddr(rest[i]) = EndAddr(ads[behind - 1])
      /\ \A a \in Int : \A d : Says(rest, a, d) <=>
                             some /\ EndAddr(r) <= a /\ a < EndAddr(ads[behind - 1]) /\ ads[behind - 1].data = d
  <2>1. CASE some
    <3>1. behind - 1 \in DOMAIN ads /\ ads[behind - 1].addr < EndAddr(r)
      BY <1>1, <1>2, <2>1
    <3> QED BY <1>1, <2>1, <3>1, PartOfRange
  <2>2. CASE ~some
    <3>1. rest = <<>> /\ \A a, d : ~Says(<<>>, a, d)
      BY <2>2 DEF Says
    <3> QED BY <2>2, <3>1, NoRange
  <2> QED BY <2>1, <2>2
<1> HIDE DEF start, rest, before, after
<1>8. /\ <<r>> \in Books /\ DOMAIN <<r>> = {1} /\ <<r>>[1] = r
      /\ \A a, d : Says(<<r>>, a, d) <=> a \in PagesIn(r) /\ r.data = d
  BY OneRange
<1>9. Precedes(before, start) /\ Precedes(before, <<r>>) /\ Precedes(before, rest) /\ Precedes(before, after)
  <2> SUFFICES ASSUME NEW i \in DOMAIN before
               PROVE  /\ \A j \in DOMAIN start : EndAddr(before[i]) <= start[j].addr
                      /\ EndAddr(before[i]) <= r.addr
                      /\ \A j \in DOMAIN rest : EndAddr(before[i]) <= rest[j].addr
                      /\ \A j \in DOMAIN after : EndAddr(before[i]) <= after[j].addr
    BY <1>8 DEF Precedes
  <2>1. i \in DOMAIN ads /\ i < first /\ before[i] = ads[i] /\ EndAddr(ads[i]) <= r.addr
    BY <1>2, <1>4
  <2>2. \A j \in DOMAIN start : EndAddr(ads[i]) <= start[j].addr
    <3>1. some => first \in DOMAIN ads /\ i < first
      BY <1>1, <1>2, <2>1
    <3> QED BY <1>1, <1>6, <2>1, <3>1 DEF Apart
  <2>3. \A j \in DOMAIN after : EndAddr(ads[i]) <= after[j].addr
    <3> SUFFICES ASSUME NEW j \in DOMAIN after PROVE EndAddr(ads[i]) <= after[j].addr
      OBVIOUS
    <3>1. PICK k \in DOMAIN ads : k >= behind /\ after[j] = ads[k]
      BY <1>5
    <3>2. ads[k].addr >= EndAddr(r)
      BY <1>2, <3>1
    <3> QED BY <1>1, <2>1, <3>1, <3>2
  <2>4. EndAddr(ads[i]) <= EndAddr(r)
    BY <1>1, <2>1
  <2> QED BY <1>7, <2>1, <2>2, <2>3, <2>4
<1>10. Precedes(start, <<r>>) /\ Precedes(start, rest) /\ Precedes(start, after)
  <2>1. \A i \in DOMAIN start : EndAddr(start[i]) = r.addr
    BY <1>6
  <2>2. \A j \in DOMAIN rest : r.addr <= rest[j].addr
    BY <1>1, <1>7
  <2>3. \A j \in DOMAIN after : r.addr <= after[j].addr
    BY <1>1, <1>2, <1>5
  <2> QED BY <1>1, <1>8, <2>1, <2>2, <2>3 DEF Precedes
<1>11. Precedes(<<r>>, rest) /\ Precedes(<<r>>, after)
  <2>1. \A j \in DOMAIN after : EndAddr(r) <= after[j].addr
    BY <1>1, <1>2, <1>5
  <2> QED BY <1>1, <1>7, <1>8, <2>1 DEF Precedes
<1>12. Precedes(rest, after)
  <2> SUFFICES ASSUME NEW i \in DOMAIN rest, NEW j \in DOMAIN after PROVE EndAddr(rest[i]) <= after[j].addr
    BY DEF Precedes
  <2>1. some /\ EndAddr(rest[i]) = EndAddr(ads[behind - 1])
    BY <1>7
  <2>2. PICK k \in DOMAIN ads : k >= behind /\ after[j] = ads[k]
    BY <1>5
  <2>3. behind - 1 \in DOMAIN ads /\ behind - 1 < k
    BY <1>1, <1>2, <2>1, <2>2
  <2> QED BY <1>1, <2>1, <2>2, <2>3 DEF Apart
<1> DEFINE two == before \o start
           three == two \o <<r>>
           four == three \o rest
           five == four \o after
<1>13. /\ two \in Books /\ Precedes(two, <<r>>) /\ Precedes(two, rest) /\ Precedes(two, after)
       /\ \A a, d : Says(two, a, d) <=> Says(before, a, d) \/ Says(start, a, d)
  BY <1>4, <1>6, <1>9, <1>10, Joining, JoiningPrecedes
<1> HIDE DEF two
<1>14. /\ three \in Books /\ Precedes(three, rest) /\ Precedes(three, after)
       /\ \A a, d : Says(three, a, d) <=> Says(two, a, d) \/ Says(<<r>>, a, d)
  BY <1>8, <1>11, <1>13, Joining, JoiningPrecedes
<1> HIDE DEF three
<1>15. /\ four \in Books /\ Precedes(four, after)
       /\ \A a, d : Says(four, a, d) <=> Says(three, a, d) \/ Says(rest, a, d)
  BY <1>7, <1>12, <1>14, Joining, JoiningPrecedes
<1> HIDE DEF four
<1>16. /\ five \in Books
       /\ \A a, d : Says(five, a, d) <=> Says(four, a, d) \/ Says(after, a, d)
  BY <1>5, <1>15, Joining
<1>17. SetData(ads, r) = five
  BY <1>3 DEF two, three, four
<1> HIDE DEF five
<1>18. ASSUME NEW a \in Int, a \in PagesIn(r) PROVE Data(five, a) = r.data
  <2>1. Says(five, a, r.data)
    BY <1>8, <1>14, <1>15, <1>16, <1>18
  <2> QED BY <1>16, <2>1, DataSaid
<1>19. ASSUME NEW a \in Int, a \notin PagesIn(r) PROVE Data(five, a) = Data(ads, a)
  <2> SUFFICES ASSUME NEW d PROVE Says(five, a, d) <=> Says(ads, a, d)
    BY <1>16, SameSaid
  <2> DEFINE at_(i) == a \in PagesIn(ads[i]) /\ ads[i].data = d
  <2>1. Says(five, a, d) <=> \/ \E i \in 1 .. (first - 1) : at_(i)
                             \/ some /\ ads[first].addr <= a /\ a < r.addr /\ ads[first].data = d
                             \/ some /\ EndAddr(r) <= a /\ a < EndAddr(ads[behind - 1]) /\ ads[behind - 1].data = d
                             \/ \E i \in behind .. n : at_(i)
    BY <1>4, <1>5, <1>6, <1>7, <1>8, <1>13, <1>14, <1>15, <1>16, <1>19
  <2>2. a < r.addr \/ a >= EndAddr(r)
    BY <1>1, <1>19, EntryFields
  <2>3. \A i \in DOMAIN ads : a \in PagesIn(ads[i]) <=> ads[i].addr <= a /\ a < EndAddr(ads[i])
    BY <1>1, EntryFields
  <2>4. ASSUME some
        PROVE  /\ first \in DOMAIN ads /\ behind - 1 \in DOMAIN ads
               /\ EndAddr(ads[first]) > r.addr /\ ads[behind - 1].addr < EndAddr(r)
    BY <1>1, <1>2, <2>4
  <2>5. Says(five, a, d) => Says(ads, a, d)
    <3>1. ASSUME NEW i \in (1 .. (first - 1)) \cup (behind .. n), at_(i) PROVE Says(ads, a, d)
      <4>1. i \in DOMAIN ads
        BY <1>1, <1>2
      <4> QED BY <3>1, <4>1 DEF Says
    <3>2. ASSUME some, ads[first].addr <= a, a < r.addr, ads[first].data = d PROVE Says(ads, a, d)
      <4>1. a < EndAddr(ads[first])
        BY <1>1, <2>4, <3>2
      <4> QED BY <2>3, <2>4, <3>2, <4>1 DEF Says
    <3>3. ASSUME some, EndAddr(r) <= a, a < EndAddr(ads[behind - 1]), ads[behind - 1].data = d
          PROVE  Says(ads, a, d)
      <4>1. ads[behind - 1].addr <= a
        BY <1>1, <2>4, <3>3
      <4> QED BY <2>3, <2>4, <3>3, <4>1 DEF Says
    <3> HIDE DEF at_
    <3> QED BY <2>1, <3>1, <3>2, <3>3
  <2>6. ASSUME NEW i \in DOMAIN ads, at_(i) PROVE Says(five, a, d)
    <3>0. ads[i].addr <= a /\ a < EndAddr(ads[i])
      BY <2>3, <2>6
    <3>1. CASE i < first \/ i >= behind
      <4>1. i \in (1 .. (first - 1)) \cup (behind .. n)
        BY <1>1, <1>2, <3>1
      <4> QED BY <2>1, <2>6, <4>1
    <3>2. CASE i >= first /\ i < behind /\ a < r.addr
      <4>1. some
        BY <1>1, <1>2, <3>2
      <4>2. i = first
        <5>1. i > first => EndAddr(ads[first]) <= ads[i].addr
          BY <1>1, <1>2, <2>4, <4>1 DEF Apart
        <5> QED BY <1>1, <1>2, <2>4, <3>0, <3>2, <4>1, <5>1
      <4> QED BY <2>1, <2>6, <3>0, <3>2, <4>1, <4>2
    <3>3. CASE i >= first /\ i < behind /\ a >= EndAddr(r)
      <4>1. some
        BY <1>1, <1>2, <3>3
      <4>2. i = behind - 1
        <5>1. i < behind - 1 => EndAddr(ads[i]) <= ads[behind - 1].addr
          BY <1>1, <1>2, <2>4, <4>1 DEF Apart
        <5> QED BY <1>1, <1>2, <2>4, <3>0, <3>3, <4>1, <5>1
      <4> QED BY <2>1, <2>6, <3>0, <3>3, <4>1, <4>2
    <3>4. i < first \/ i >= behind \/ (i >= first /\ i < behind)
      BY <1>1, <1>2
    <3> QED BY <2>2, <3>1, <3>2, <3>3, <3>4
  <2>7. Says(ads, a, d) => Says(five, a, d)
    BY <2>6 DEF Says
  <2> QED BY <2>5, <2>7
<1> QED BY <1>16, <1>17, <1>18, <1>19

-----------------------------------------------------------------------------
(* Folds *)

\* h is the fold, over each subset of s, of step: it takes pick[t] last of the elements of t.
IsFold(h, s, T, base, pick, step) ==
  /\ h \in [SUBSET s -> T]
  /\ h[{}] = base
  /\ \A t \in (SUBSET s) \ {{}} : h[t] = step[<<pick[t], h[t \ {pick[t]}]>>]

LEMMA SmallestSet ==
  ASSUME NEW D, IsFiniteSet(D), NEW W \in SUBSET SUBSET D, W # {}
  PROVE  \E s \in W : \A t \in W : t \subseteq s => t = s
<1>1. FiniteSubsetsOf(D) = SUBSET D /\ IsWellFoundedOn(StrictSubsetOrdering(D), FiniteSubsetsOf(D))
  BY FS_FiniteSubsetsOfFinite, FS_StrictSubsetOrderingWellFounded
<1>2. PICK s \in W : \A t \in W : <<t, s>> \notin StrictSubsetOrdering(D)
  BY <1>1, WFMin
<1> QED BY <1>2 DEF StrictSubsetOrdering

LEMMA FoldsAgree ==
  ASSUME NEW D, IsFiniteSet(D), NEW T, NEW base, NEW pick, NEW step,
         \A t \in (SUBSET D) \ {{}} : pick[t] \in t,
         NEW s \in SUBSET D, NEW u \in SUBSET D, NEW h, NEW k,
         IsFold(h, s, T, base, pick, step), IsFold(k, u, T, base, pick, step)
  PROVE  \A t \in SUBSET (s \cap u) : h[t] = k[t]
<1> DEFINE W == {t \in SUBSET (s \cap u) : h[t] # k[t]}
<1> SUFFICES ASSUME W # {} PROVE FALSE
  OBVIOUS
<1>1. PICK t \in W : \A v \in W : v \subseteq t => v = t
  <2>1. W \in SUBSET SUBSET D
    OBVIOUS
  <2> HIDE DEF W
  <2> QED BY <2>1, SmallestSet
<1>2. t # {}
  BY DEF IsFold
<1>3. pick[t] \in t
  BY <1>2
<1>4. t \ {pick[t]} \notin W
  BY <1>1, <1>3
<1>5. h[t \ {pick[t]}] = k[t \ {pick[t]}]
  BY <1>4
<1> QED BY <1>2, <1>5 DEF IsFold

LEMMA FoldExists ==
  ASSUME NEW D, IsFiniteSet(D), NEW T, NEW base \in T, NEW pick, NEW step \in [D \X T -> T],
         \A t \in (SUBSET D) \ {{}} : pick[t] \in t
  PROVE  \E h : IsFold(h, D, T, base, pick, step)
<1> DEFINE Fold(s, h) == IsFold(h, s, T, base, pick, step)
           W == {s \in SUBSET D : ~\E h : Fold(s, h)}
<1> SUFFICES ASSUME W # {} PROVE FALSE
  OBVIOUS
<1>1. PICK s \in W : \A v \in W : v \subseteq s => v = s
  <2>1. W \in SUBSET SUBSET D
    OBVIOUS
  <2> HIDE DEF W
  <2> QED BY <2>1, SmallestSet
<1> DEFINE of(t) == CHOOSE h : Fold(t, h)
           less(t) == t \ {pick[t]}
           h == [t \in SUBSET s |-> IF t = {} THEN base ELSE step[<<pick[t], of(less(t))[less(t)]>>]]
<1> HIDE DEF Fold
<1>2. ASSUME NEW t \in (SUBSET s) \ {{}}
      PROVE  less(t) \in SUBSET s /\ pick[t] \in D /\ Fold(less(t), of(less(t)))
  <2>1. pick[t] \in t
    OBVIOUS
  <2>2. less(t) \subseteq s /\ less(t) # s
    BY <2>1
  <2>3. \E k : Fold(less(t), k)
    BY <1>1, <2>2
  <2> QED BY <2>1, <2>2, <2>3
<1>3. ASSUME NEW t \in (SUBSET s) \ {{}} PROVE of(less(t))[less(t)] \in T
  <2>1. Fold(less(t), of(less(t)))
    BY <1>2
  <2> HIDE DEF of, less
  <2> QED BY <2>1 DEF Fold, IsFold
<1>4. h \in [SUBSET s -> T]
  <2>1. \A t \in (SUBSET s) \ {{}} : step[<<pick[t], of(less(t))[less(t)]>>] \in T
    BY <1>2, <1>3
  <2> HIDE DEF of, less
  <2> QED BY <2>1
<1>5. h[{}] = base
  OBVIOUS
<1>6. ASSUME NEW t \in (SUBSET s) \ {{}} PROVE h[t] = step[<<pick[t], h[less(t)]>>]
  <2> DEFINE u == less(t)
  <2>1. u \in SUBSET s /\ Fold(u, of(u))
    BY <1>2
  <2>2. h[u] = of(u)[u]
    <3>1. CASE u = {}
      BY <2>1, <3>1 DEF Fold, IsFold
    <3>2. CASE u # {}
      <4>1. h[u] = step[<<pick[u], of(less(u))[less(u)]>>]
        BY <2>1, <3>2
      <4>2. of(u)[u] = step[<<pick[u], of(u)[less(u)]>>]
        BY <2>1, <3>2 DEF Fold, IsFold
      <4>3. Fold(less(u), of(less(u))) /\ less(u) \in SUBSET D /\ u \in SUBSET D
        BY <1>2, <2>1, <3>2
      <4>4. less(u) \in SUBSET (u \cap less(u))
        OBVIOUS
      <4> HIDE DEF of, less, h, u
      <4>5. of(u)[less(u)] = of(less(u))[less(u)]
        BY <2>1, <4>3, <4>4, FoldsAgree DEF Fold
      <4> QED BY <4>1, <4>2, <4>5
    <3> QED BY <3>1, <3>2
  <2>3. h[t] = step[<<pick[t], of(u)[u]>>]
    OBVIOUS
  <2> HIDE DEF of, less, h
  <2> QED BY <2>2, <2>3
<1> HIDE DEF h
<1>7. Fold(s, h)
  BY <1>4, <1>5, <1>6 DEF Fold, IsFold
<1> QED BY <1>1, <1>7

\* g has the equations of a fold as far as its values are in T.
GoesBy(g, D, T, pick, step) ==
  /\ g[{}] \in T
  /\ \A t \in (SUBSET D) \ {{}} :
       /\ pick[t] \in t
       /\ g[t \ {pick[t]}] \in T => g[t] = step[<<pick[t], g[t \ {pick[t]}]>>]

\* Then all of them are, if those of step are.
LEMMA FoldStaysIn ==
  ASSUME NEW D, IsFiniteSet(D), NEW T, NEW pick, NEW step, step \in [D \X T -> T],
         NEW g, GoesBy(g, D, T, pick, step)
  PROVE  g[D] \in T
<1> USE DEF GoesBy
<1> DEFINE W == {t \in SUBSET D : g[t] \notin T}
<1> SUFFICES ASSUME W # {} PROVE FALSE
  OBVIOUS
<1>1. PICK t \in W : \A v \in W : v \subseteq t => v = t
  <2>1. W \in SUBSET SUBSET D
    OBVIOUS
  <2> HIDE DEF W
  <2> QED BY <2>1, SmallestSet
<1>2. t # {} /\ pick[t] \in t
  OBVIOUS
<1>3. t \ {pick[t]} \notin W
  BY <1>1, <1>2
<1> QED BY <1>2, <1>3

LEMMA LastOfFew ==
  ASSUME NEW n \in Nat, NEW t \in SUBSET (1 .. n), t # {}
  PROVE  Max(t) \in t
<1> DEFINE T == {n - i : i \in t}
<1>1. T \subseteq Nat /\ T # {}
  <2>1. \A i \in t : n - i \in Nat
    OBVIOUS
  <2> QED BY <2>1
<1>2. PICK x \in T : \A y \in T : <<y, x>> \notin OpToRel(<, Nat)
  BY <1>1, NatLessThanWellFounded, WFMin
<1>3. PICK last \in t : x = n - last
  BY <1>2
<1>4. ASSUME NEW i \in t PROVE last >= i
  <2>1. n - i \in T
    OBVIOUS
  <2>2. ~(n - i < n - last)
    BY <1>1, <1>2, <1>3, <2>1 DEF OpToRel
  <2> HIDE DEF T
  <2> QED BY <2>2
<1> QED BY <1>4 DEF Max

-----------------------------------------------------------------------------
(* What startMoves finds where nothing was known *)

\* The equation of the function that FoldLeft takes its value from has a solution, and
\* what is noted run by run stays in T if every run keeps it there.
LEMMA NoteRunsStayIn ==
  ASSUME NEW p, NEW n \in Nat, NEW runs, DOMAIN runs = 1 .. n, NEW T,
         [node |-> runs[Len(runs)].data, noted |-> datas[p], used |-> numaUsed] \in T,
         \A look \in T, i \in 1 .. n : NoteRun(look, runs, i) \in T
  PROVE  NoteRuns(p, runs) \in T
<1> DEFINE base == [node |-> runs[Len(runs)].data, noted |-> datas[p], used |-> numaUsed]
           D == 1 .. n
           pos == [i \in DOMAIN runs |-> i]
           pick == [t \in (SUBSET D) \ {{}} |-> Max(t)]
           step == [e \in D \X T |-> NoteRun(e[2], runs, e[1])]
           f(g) == [s \in SUBSET DOMAIN pos |->
                      IF s = {} THEN base ELSE NoteRun(g[s \ {Max(s)}], runs, pos[Max(s)])]
           fold == CHOOSE g : g = f(g)
<1>1. NoteRuns(p, runs) = fold[D]
  <2>1. NoteRuns(p, runs) = fold[DOMAIN pos]
    BY DEF NoteRuns, FoldLeft, MapThenFoldSet
  <2> HIDE DEF fold
  <2> QED BY <2>1
<1>2. IsFiniteSet(D) /\ DOMAIN pos = D
  BY FS_Interval
<1>3. base \in T
  OBVIOUS
<1>4. step \in [D \X T -> T]
  OBVIOUS
<1>5. \A t \in (SUBSET D) \ {{}} : pick[t] = Max(t) /\ pick[t] \in t /\ pos[pick[t]] = pick[t]
  BY LastOfFew
<1> HIDE DEF D, pick, step, base, pos
<1>6. PICK h : IsFold(h, D, T, base, pick, step)
  BY <1>2, <1>3, <1>4, <1>5, FoldExists
<1>7. h = f(h)
  <2>1. h \in [SUBSET D -> T] /\ h[{}] = base
    BY <1>6 DEF IsFold
  <2>2. ASSUME NEW t \in (SUBSET D) \ {{}}
        PROVE  h[t] = NoteRun(h[t \ {Max(t)}], runs, pos[Max(t)])
    <3>1. h[t] = step[<<pick[t], h[t \ {pick[t]}]>>] /\ h[t \ {pick[t]}] \in T /\ pick[t] \in D
      BY <1>5, <1>6 DEF IsFold
    <3> QED BY <1>5, <3>1 DEF step
  <2> QED BY <1>2, <2>1, <2>2
<1>8. fold = f(fold)
  BY <1>7
<1> HIDE DEF fold
<1>9. fold[{}] = base
  BY <1>2, <1>8
<1>10. \A t \in (SUBSET D) \ {{}} :
          fold[t \ {pick[t]}] \in T => fold[t] = step[<<pick[t], fold[t \ {pick[t]}]>>]
  <2> SUFFICES ASSUME NEW t \in (SUBSET D) \ {{}}, fold[t \ {pick[t]}] \in T
               PROVE  fold[t] = step[<<pick[t], fold[t \ {pick[t]}]>>]
    OBVIOUS
  <2>1. fold[t] = NoteRun(fold[t \ {Max(t)}], runs, pos[Max(t)])
    BY <1>2, <1>8
  <2>2. pick[t] \in D
    BY <1>5
  <2> QED BY <1>5, <2>1, <2>2 DEF step
<1>11. GoesBy(fold, D, T, pick, step)
  BY <1>3, <1>5, <1>9, <1>10 DEF GoesBy
<1> HIDE DEF f
<1> QED BY <1>1, <1>2, <1>4, <1>11, FoldStaysIn

\* A set of numbers that goes on from one as far as it has any is an interval.
LEMMA GaplessInterval ==
  ASSUME NEW S \in SUBSET Nat, NEW m \in S, NEW bound \in Nat,
         \A q \in S : m <= q /\ q <= bound /\ \A i \in m .. q : i \in S
  PROVE  /\ IsFiniteSet(S) /\ Cardinality(S) \in Nat \ {0}
         /\ S = m .. ((m + Cardinality(S)) - 1)
<1> DEFINE G == {bound - q : q \in S}
<1>1. G \in SUBSET Nat /\ G # {}
  <2>1. \A q \in S : bound - q \in Nat
    OBVIOUS
  <2> QED BY <2>1
<1>2. PICK last \in S : bound - last = Min(G)
  BY <1>1, LeastNumber
<1>3. ASSUME NEW q \in S PROVE q <= last
  <2>1. bound - q \in G
    OBVIOUS
  <2>2. Min(G) <= bound - q
    <3> HIDE DEF G
    <3> QED BY <1>1, <2>1, LeastNumber
  <2> HIDE DEF G
  <2> QED BY <1>2, <2>2
<1> HIDE DEF G
<1>4. S = m .. last
  <2>1. m \in Nat /\ last \in Nat /\ \A q \in S : q \in Nat /\ m <= q /\ q <= last
    BY <1>3
  <2>2. S \subseteq m .. last
    BY <2>1
  <2>3. m .. last \subseteq S
    OBVIOUS
  <2> QED BY <2>2, <2>3
<1>5. IsFiniteSet(m .. last) /\ Cardinality(m .. last) = last - m + 1
  BY FS_Interval
<1> QED BY <1>4, <1>5

\* A range the policy may be asked to plan.
HeatRanges ==
  {r \in [addr : Nat, length : Nat, heat : Nat] :
     /\ r.length > 0 /\ PagesIn(r) \subseteq AllPages
     /\ \A c \in scenario.configs : r.heat \in DOMAIN c}

LEMMA RunIsOnOneNode ==
  ASSUME NEW p \in Pids, NEW r \in HeatRanges, at \in [Pids -> [AllPages -> Places \cup {Absent}]],
         NEW pg \in PagesMatching(p, r)
  PROVE  LET run == RunFrom(p, PagesMatching(p, r), pg)
         IN /\ run \in Entries /\ run.addr = pg /\ run.data = at[p][pg] /\ run.data \in Nodes
            /\ \A a \in PagesIn(run) : a \in PagesMatching(p, r) /\ at[p][a] = run.data
            /\ \A q \in PagesMatching(p, r) :
                 (q >= pg /\ \A i \in pg .. q : i \in PagesMatching(p, r) /\ at[p][i] = at[p][pg]) =>
                   q \in PagesIn(run)
<1> DEFINE pages == PagesMatching(p, r)
           S == {q \in pages : q >= pg /\ \A i \in pg .. q : i \in pages /\ at[p][i] = at[p][pg]}
           run == RunFrom(p, pages, pg)
<1>1. /\ AllPages \subseteq Nat \ {0} /\ r.addr \in Nat /\ r.length \in Nat
      /\ PagesIn(r) \subseteq AllPages
  BY ConstantsAssumption DEF HeatRanges
<1>2. \A q \in pages : q \in AllPages /\ q \in Nat /\ q < r.addr + r.length /\ at[p][q] \in Nodes
  BY <1>1 DEF PagesMatching, BitsSatisfied, PagesIn, EndAddr
<1>3. run = [addr |-> pg, length |-> Cardinality(S), data |-> at[p][pg]]
  BY DEF RunFrom
<1> HIDE DEF pages, run
<1>4. pg \in S
  BY <1>2 DEF pages
<1>5. S \in SUBSET Nat /\ r.addr + r.length \in Nat
  BY <1>1, <1>2
<1>6. \A q \in S : pg <= q /\ q <= r.addr + r.length /\ \A i \in pg .. q : i \in S
  BY <1>1, <1>2
<1>7. Cardinality(S) \in Nat \ {0} /\ S = pg .. ((pg + Cardinality(S)) - 1)
  <2> HIDE DEF S
  <2> QED BY <1>4, <1>5, <1>6, GaplessInterval
<1>8. /\ run.addr = pg /\ run.length = Cardinality(S) /\ run.data = at[p][pg] /\ run.data \in Nodes
      /\ PagesIn(run) = S
  <2>1. /\ run.addr = pg /\ run.length = Cardinality(S) /\ run.data = at[p][pg]
        /\ pg \in Nat /\ at[p][pg] \in Nodes
    BY <1>2, <1>3, <1>4
  <2>2. PagesIn(run) = pg .. ((pg + Cardinality(S)) - 1)
    <3> HIDE DEF S
    <3>1. Cardinality(S) \in Nat
      BY <1>7
    <3>2. EndAddr(run) = pg + Cardinality(S)
      BY <2>1 DEF EndAddr
    <3> QED BY <2>1, <3>2 DEF PagesIn
  <2> HIDE DEF S
  <2> QED BY <1>7, <2>1, <2>2
<1>9. \A a \in S : a \in pages /\ at[p][a] = at[p][pg] /\ a \in AllPages
  BY <1>2
<1>10. run \in Entries
  <2>1. run \in [addr : Nat, length : Nat \ {0}, data : Places \cup {Undefined}]
    BY <1>2, <1>3, <1>4, <1>5, <1>7, <1>8 DEF Places
  <2> QED BY <1>8, <1>9, <2>1 DEF Entries
<1> QED BY <1>8, <1>9, <1>10 DEF run, pages

LEMMA RunsAreOnNodes ==
  ASSUME NEW p \in Pids, NEW r \in HeatRanges, at \in [Pids -> [AllPages -> Places \cup {Absent}]],
         PagesMatching(p, r) # {}, NEW runs \in Runs(p, r)
  PROVE  /\ runs \in Seq(Entries) /\ Len(runs) \in Nat \ {0}
         /\ \A i \in DOMAIN runs : runs[i].data \in Nodes /\
              \A a \in PagesIn(runs[i]) : a \in PagesIn(r) /\ at[p][a] = runs[i].data
<1> DEFINE pages == PagesMatching(p, r)
           starts == {pg \in pages : pg - 1 \notin pages \/ at[p][pg - 1] # at[p][pg]}
<1>1. PICK first \in Ascending(starts) : runs = [i \in DOMAIN first |-> RunFrom(p, pages, first[i])]
  BY DEF Runs
<1>2. /\ AllPages \subseteq Nat \ {0} /\ r.addr \in Nat /\ r.length \in Nat
      /\ PagesIn(r) \subseteq AllPages /\ pages \subseteq PagesIn(r)
  BY ConstantsAssumption DEF HeatRanges, PagesMatching
<1>3. IsFiniteSet(pages)
  <2>1. IsFiniteSet(PagesIn(r))
    <3>1. r.addr \in Int /\ (r.addr + r.length) - 1 \in Int
      BY <1>2
    <3>2. PagesIn(r) = r.addr .. ((r.addr + r.length) - 1)
      BY DEF PagesIn, EndAddr
    <3> QED BY <3>1, <3>2, FS_Interval
  <2> QED BY <1>2, <2>1, FS_Subset
<1>4. Cardinality(starts) \in Nat \ {0}
  <2>1. IsFiniteSet(starts)
    BY <1>3, FS_Subset
  <2>2. Min(pages) \in pages /\ \A y \in pages : Min(pages) <= y
    BY <1>2, LeastNumber
  <2>3. Min(pages) \in starts
    <3> DEFINE m == Min(pages)
    <3>1. m \in Nat
      BY <1>2, <2>2
    <3>2. m - 1 \in pages => m <= m - 1
      BY <2>2
    <3> HIDE DEF m
    <3>3. m - 1 \notin pages
      BY <3>1, <3>2
    <3> QED BY <2>2, <3>3 DEF m
  <2> QED BY <2>1, <2>3, FS_EmptySet, FS_CardinalityType
<1>5. first \in [1 .. Cardinality(starts) -> starts]
  BY <1>1 DEF Ascending
<1>6. ASSUME NEW i \in 1 .. Cardinality(starts)
      PROVE  /\ runs[i] \in Entries /\ runs[i].data \in Nodes
             /\ \A a \in PagesIn(runs[i]) : a \in PagesIn(r) /\ at[p][a] = runs[i].data
  <2>1. first[i] \in pages /\ runs[i] = RunFrom(p, pages, first[i])
    BY <1>1, <1>5
  <2> QED BY <1>2, <2>1, RunIsOnOneNode
<1>7. DOMAIN runs = 1 .. Cardinality(starts)
  BY <1>1, <1>5
<1>8. runs \in [1 .. Cardinality(starts) -> Entries]
  <2>1. runs = [i \in 1 .. Cardinality(starts) |-> runs[i]]
    BY <1>1, <1>5
  <2> HIDE DEF starts
  <2> QED BY <1>6, <2>1
<1> HIDE DEF starts
<1> QED BY <1>4, <1>6, <1>7, <1>8

\* What the book and the accounts may be after a look at a range: nothing is noted but
\* pages of it, where they are.
LooksLike(p, r, noted, used) ==
  /\ noted \in Books /\ used \in [Limited -> Int]
  /\ \A a \in Int : \/ Data(noted, a) = Data(datas[p], a)
                    \/ a \in PagesIn(r) /\ Data(noted, a) = at[p][a]

LEMMA NoteRunsNotes ==
  ASSUME NEW p \in Pids, NEW r \in HeatRanges, at \in [Pids -> [AllPages -> Places \cup {Absent}]],
         datas[p] \in Books, numaUsed \in [Limited -> Int],
         PagesMatching(p, r) # {}, NEW runs \in Runs(p, r)
  PROVE  LET look == NoteRuns(p, runs)
         IN LooksLike(p, r, look.noted, look.used) /\ look.node = runs[Len(runs)].data
<1> DEFINE last == runs[Len(runs)].data
           T == {look \in [node : {last}, noted : Books, used : [Limited -> Int]] :
                   LooksLike(p, r, look.noted, look.used)}
           n == Len(runs)
<1>1. /\ runs \in Seq(Entries) /\ n \in Nat \ {0} /\ DOMAIN runs = 1 .. n
      /\ \A i \in 1 .. n : /\ runs[i] \in Entries
                           /\ \A a \in PagesIn(runs[i]) : a \in PagesIn(r) /\ at[p][a] = runs[i].data
  BY RunsAreOnNodes
<1>2. [node |-> last, noted |-> datas[p], used |-> numaUsed] \in T
  BY DEF LooksLike
<1>3. ASSUME NEW look \in T, NEW i \in 1 .. n PROVE NoteRun(look, runs, i) \in T
  <2> DEFINE noted == SetData(look.noted, runs[i])
             used == Used(look.used, runs[IF i = Len(runs) THEN i ELSE i + 1].data, runs[i].length)
  <2>1. /\ look = [node |-> last, noted |-> look.noted, used |-> look.used]
        /\ LooksLike(p, r, look.noted, look.used)
    OBVIOUS
  <2>2. NoteRun(look, runs, i) = [node |-> last, noted |-> noted, used |-> used]
    BY <2>1 DEF NoteRun
  <2>3. used \in [Limited -> Int]
    <3>1. runs[i].length \in Int
      BY <1>1, EntryFields
    <3> QED BY <2>1, <3>1 DEF Used, LooksLike
  <2>4. /\ noted \in Books
        /\ \A a \in Int : Data(noted, a) = IF a \in PagesIn(runs[i]) THEN runs[i].data ELSE Data(look.noted, a)
    BY <1>1, <2>1, SetDataSets DEF LooksLike
  <2> HIDE DEF noted, used
  <2>5. LooksLike(p, r, noted, used)
    BY <1>1, <2>1, <2>3, <2>4 DEF LooksLike
  <2> QED BY <2>2, <2>3, <2>4, <2>5
<1>4. NoteRuns(p, runs) \in T
  <2> HIDE DEF T
  <2> QED BY <1>1, <1>2, <1>3, NoteRunsStayIn
<1> QED BY <1>4

LEMMA LookNotes ==
  ASSUME NEW p \in Pids, NEW r \in HeatRanges, at \in [Pids -> [AllPages -> Places \cup {Absent}]],
         datas[p] \in Books, numaUsed \in [Limited -> Int], NEW look \in Look(p, r)
  PROVE  LooksLike(p, r, look.noted, look.used)
<1>1. CASE Data(datas[p], r.addr) # Undefined \/ PagesMatching(p, r) = {}
  <2>1. look.noted = datas[p] /\ look.used = numaUsed
    BY <1>1 DEF Look
  <2> QED BY <2>1 DEF LooksLike
<1>2. CASE ~(Data(datas[p], r.addr) # Undefined \/ PagesMatching(p, r) = {})
  <2>1. PICK runs \in Runs(p, r) : look = NoteRuns(p, runs)
    BY <1>2 DEF Look
  <2> QED BY <1>2, <2>1, NoteRunsNotes
<1> QED BY <1>1, <1>2

LEMMA DestinationsAreMeant ==
  ASSUME NEW r \in HeatRanges, scenario \in Scenarios, heatNumas \in scenario.configs, NEW used
  PROVE  /\ heatNumas[r.heat] \in Seq(Places)
         /\ Destinations(r, used) \subseteq Range(heatNumas[r.heat])
<1> DEFINE numas == heatNumas[r.heat]
           free(i) == Free(numas[i], r, used)
           best == {i \in DOMAIN numas : free(i) >= 0 /\ \A j \in DOMAIN numas : free(j) <= free(i)}
<1>1. numas \in Seq(Places)
  <2>1. r.heat \in DOMAIN heatNumas /\ Range(heatNumas) \subseteq Seq(Places)
    BY ConstantsAssumption DEF HeatRanges
  <2> QED BY <2>1 DEF Range
<1>2. best # {} => Min(best) \in best
  <2>1. best \in SUBSET Nat
    BY <1>1
  <2> HIDE DEF best
  <2> QED BY <2>1, LeastNumber
<1>3. best # {} => numas[Min(best)] \in Range(numas)
  <2>1. best \subseteq DOMAIN numas
    OBVIOUS
  <2> HIDE DEF best, numas
  <2> QED BY <1>2, <2>1 DEF Range
<1> QED BY <1>1, <1>3 DEF Destinations

LEMMA DestinationsArePlaces ==
  ASSUME NEW r \in HeatRanges, scenario \in Scenarios, heatNumas \in scenario.configs, NEW used
  PROVE  Destinations(r, used) \subseteq Places
<1>1. Range(heatNumas[r.heat]) \subseteq Places
  BY DestinationsAreMeant DEF Range
<1> QED BY <1>1, DestinationsAreMeant

-----------------------------------------------------------------------------
(* Types *)

Tasks == [pid : Pids, pages : (SUBSET AllPages) \ {{}}, to : Places]

\* The book is a list of ranges that are apart, which is more than that neighbours are.
Typed ==
  /\ scenario \in Scenarios /\ alive \subseteq Pids
  /\ at \in [Pids -> [AllPages -> Places \cup {Absent}]]
  /\ heatNumas \in scenario.configs
  /\ \A p \in Pids : pidHrs[p] \in Seq(HeatRanges)
  /\ datas \in [Pids -> Books]
  /\ numaUsed \in [Limited -> -MaxUsed .. MaxUsed]
  /\ pc \in {"update", "paged out", "start", "moves"}
  /\ pid \in Pids /\ pids \subseteq Pids /\ ranges \in Seq(HeatRanges)
  /\ ranges # <<>> \/ pids # {} => pc = "moves"
  /\ tasks \in Seq(Tasks) /\ inHand \in Tasks \cup {NoTask}

LEMMA TypedIsTypeOK == Typed => TypeOK
<1> SUFFICES ASSUME Typed PROVE TypeOK
  OBVIOUS
<1>1. ASSUME NEW p \in Pids
      PROVE  /\ IsProper(datas[p])
             /\ \A i \in DOMAIN datas[p] :
                  datas[p][i].data \in Places \cup {Undefined} /\ PagesIn(datas[p][i]) \subseteq AllPages
  BY BookFields, EntryFields DEF Typed
<1>2. \A i \in DOMAIN tasks : tasks[i].to \in Places /\ tasks[i].pages # {}
  <2>1. \A i \in DOMAIN tasks : tasks[i] \in Tasks
    <3>1. tasks \in Seq(Tasks)
      BY DEF Typed
    <3> QED BY <3>1
  <2> QED BY <2>1 DEF Tasks
<1> QED BY <1>1, <1>2 DEF Typed, TypeOK

LEMMA EmptyLists == <<>> \in Seq(HeatRanges) /\ <<>> \in Seq(Tasks) /\ <<>> \in Books
  BY NoRange

LEMMA LimitedAreNodes ==
  ASSUME scenario \in Scenarios
  PROVE  Limited \subseteq Nodes /\ MaxUsed \in Nat
  BY ConstantsAssumption DEF Limited

LEMMA AccountTyped ==
  ASSUME scenario \in Scenarios, NEW used \in [Limited -> Int]
  PROVE  Account(used) \in [Limited -> -MaxUsed .. MaxUsed]
  BY LimitedAreNodes DEF Account, Bounded

LEMMA TypedInit == Init => Typed
<1> SUFFICES ASSUME Init PROVE Typed
  OBVIOUS
<1>1. scenario \in Scenarios /\ at \in [Pids -> [AllPages -> Places \cup {Absent}]]
  BY ConstantsAssumption DEF Init
<1>2. numaUsed \in [Limited -> -MaxUsed .. MaxUsed]
  BY <1>1, LimitedAreNodes DEF Init
<1>3. datas \in [Pids -> Books] /\ \A p \in Pids : pidHrs[p] \in Seq(HeatRanges)
  BY EmptyLists DEF Init
<1> QED BY <1>1, <1>2, <1>3, EmptyLists DEF Init, Typed

LEMMA SameRanges == scenario' = scenario => HeatRanges' = HeatRanges /\ Limited' = Limited
  BY DEF HeatRanges, Limited

LEMMA TypedEnvironment == Typed /\ Environment => Typed'
<1> SUFFICES ASSUME Typed, Environment PROVE Typed'
  OBVIOUS
<1> USE DEF config, book, loop, mover
<1>1. ASSUME NEW p \in Pids, Exit(p) PROVE Typed'
  BY <1>1, SameRanges DEF Exit, Typed
<1>2. ASSUME NEW p \in Pids, NEW pg \in AllPages, NEW place \in Nodes \cup {Absent}, PageMoves(p, pg, place)
      PROVE  Typed'
  <2>1. place \in Places \cup {Absent}
    BY DEF Places
  <2> QED BY <1>2, <2>1, SameRanges DEF PageMoves, Typed
<1>3. ASSUME NEW numas \in scenario.configs, SetConfig(numas) PROVE Typed'
  <2>1. [n \in Limited |-> 0] \in [Limited -> -MaxUsed .. MaxUsed]
    <3>1. 0 \in -MaxUsed .. MaxUsed
      <4>1. MaxUsed \in Nat
        BY ConstantsAssumption
      <4> QED BY <4>1
    <3> QED BY <3>1
  <2> QED BY <1>3, <2>1, SameRanges DEF SetConfig, Typed, memory
<1> QED BY <1>1, <1>2, <1>3 DEF Environment

LEMMA TypedMove == Typed /\ Move => Typed'
<1> SUFFICES ASSUME Typed, Move PROVE Typed'
  OBVIOUS
<1> USE DEF config, book, loop
<1>1. CASE PopTask
  <2>1. tasks \in Seq(Tasks) /\ tasks # <<>> /\ inHand' = Last(tasks) /\ tasks' = Front(tasks)
    BY <1>1 DEF PopTask, Typed
  <2>2. Last(tasks) \in Tasks
    BY <2>1 DEF Last
  <2>3. Front(tasks) \in Seq(Tasks)
    <3>1. Len(tasks) \in Nat \ {0} /\ \A i \in 1 .. Len(tasks) : tasks[i] \in Tasks
      BY <2>1
    <3> QED BY <2>1, <3>1, SubSeqProperties DEF Front
  <2> QED BY <1>1, <2>1, <2>2, <2>3, SameRanges DEF PopTask, Typed, memory
<1>2. CASE MoveTask
  <2>1. inHand \in Tasks
    BY <1>2 DEF MoveTask, Typed
  <2>2. inHand.pid \in Pids /\ inHand.to \in Places
    BY <2>1 DEF Tasks
  <2>3. PICK moved : at' = [at EXCEPT ![inHand.pid] =
                              [pg \in AllPages |-> IF pg \in moved THEN inHand.to ELSE @[pg]]]
    BY <1>2 DEF MoveTask
  <2>4. at' \in [Pids -> [AllPages -> Places \cup {Absent}]]
    BY <2>2, <2>3 DEF Typed
  <2> QED BY <1>2, <2>4, SameRanges DEF MoveTask, Typed
<1> QED BY <1>1, <1>2 DEF Move

\* updatePagedOutLocations forgets where ranges are, and changes nothing else.
LEMMA UpdatedBook ==
  ASSUME NEW ads \in Books, NEW bds, NEW F \in SUBSET DOMAIN ads,
         bds = [i \in DOMAIN ads |-> IF i \in F THEN [ads[i] EXCEPT !.data = Undefined] ELSE ads[i]]
  PROVE  /\ bds \in Books
         /\ \A a \in Int : \/ Data(bds, a) = Data(ads, a)
                           \/ \E i \in F : /\ a \in PagesIn(ads[i]) /\ Data(ads, a) = ads[i].data
                                           /\ Data(bds, a) = Undefined
<1>1. /\ ads \in Seq(Entries) /\ Len(ads) \in Nat /\ DOMAIN ads = 1 .. Len(ads)
      /\ \A i \in DOMAIN ads : ads[i] \in Entries
      /\ Apart(ads)
  BY BookFields
<1>2. ASSUME NEW e \in Entries
      PROVE  LET f == [e EXCEPT !.data = Undefined]
             IN f \in Entries /\ f.addr = e.addr /\ f.length = e.length /\ f.data = Undefined
                /\ PagesIn(f) = PagesIn(e) /\ EndAddr(f) = EndAddr(e)
  BY DEF Entries, PagesIn, EndAddr
<1>3. ASSUME NEW i \in DOMAIN ads
      PROVE  /\ bds[i] \in Entries /\ bds[i].addr = ads[i].addr /\ EndAddr(bds[i]) = EndAddr(ads[i])
             /\ PagesIn(bds[i]) = PagesIn(ads[i])
             /\ bds[i].data = IF i \in F THEN Undefined ELSE ads[i].data
  <2>1. ads[i] \in Entries
    BY <1>1
  <2>2. CASE i \in F
    <3>1. bds[i] = [ads[i] EXCEPT !.data = Undefined]
      BY <2>2
    <3> QED BY <1>2, <2>1, <2>2, <3>1
  <2>3. CASE i \notin F
    <3>1. bds[i] = ads[i]
      BY <2>3
    <3> QED BY <2>1, <2>3, <3>1
  <2> QED BY <2>2, <2>3
<1>4. DOMAIN bds = DOMAIN ads
  OBVIOUS
<1>5. bds \in Seq(Entries)
  <2>1. bds = [i \in 1 .. Len(ads) |-> bds[i]]
    BY <1>1
  <2> QED BY <1>1, <1>3, <2>1
<1>6. bds \in Books
  BY <1>1, <1>3, <1>4, <1>5 DEF Apart, Books
<1>7. ASSUME NEW a \in Int, Data(bds, a) # Data(ads, a)
      PROVE  \E i \in F : /\ a \in PagesIn(ads[i]) /\ Data(ads, a) = ads[i].data
                          /\ Data(bds, a) = Undefined
  <2>1. PICK i \in DOMAIN ads : a \in PagesIn(ads[i])
    <3> SUFFICES ASSUME \A i \in DOMAIN ads : a \notin PagesIn(ads[i]) PROVE FALSE
      OBVIOUS
    <3>1. \A d : ~Says(ads, a, d) /\ ~Says(bds, a, d)
      BY <1>3, <1>4 DEF Says
    <3>2. Data(ads, a) = Undefined /\ Data(bds, a) = Undefined
      BY <1>6, <3>1, DataSaid
    <3> QED BY <1>7, <3>2
  <2>2. Data(ads, a) = ads[i].data /\ Data(bds, a) = bds[i].data
    BY <1>3, <1>4, <1>6, <2>1, DataIs
  <2>3. i \in F /\ bds[i].data = Undefined
    BY <1>3, <1>7, <2>2
  <2> QED BY <2>1, <2>2, <2>3
<1> QED BY <1>6, <1>7

LEMMA TaskAdded ==
  ASSUME NEW S, NEW s \in Seq(S), NEW e \in S
  PROVE  Append(s, e) \in Seq(S) /\ Len(Append(s, e)) > Len(s) /\ Last(Append(s, e)) = e
  BY DEF Last

\* What planning a range does to book, accounts and tasks.
LEMMA PlanNotes ==
  ASSUME Typed, NEW p \in Pids, NEW r \in HeatRanges, Plan(p, r)
  PROVE  /\ datas' \in [Pids -> Books] /\ numaUsed' \in [Limited -> -MaxUsed .. MaxUsed]
         /\ tasks' \in Seq(Tasks) /\ inHand' = inHand
         /\ \A q \in Pids, a \in Int :
              \/ Data(datas'[q], a) = Data(datas[q], a)
              \/ /\ q = p /\ a \in PagesIn(r)
                 /\ \/ Data(datas'[q], a) = at[q][a]
                    \/ Len(tasks') > Len(tasks) /\ Data(datas'[q], a) = Last(tasks').to
<1>1. /\ scenario \in Scenarios /\ heatNumas \in scenario.configs
      /\ at \in [Pids -> [AllPages -> Places \cup {Absent}]]
      /\ datas \in [Pids -> Books] /\ tasks \in Seq(Tasks)
  BY DEF Typed
<1>2. numaUsed \in [Limited -> Int]
  <2>1. MaxUsed \in Nat /\ numaUsed \in [Limited -> -MaxUsed .. MaxUsed]
    BY ConstantsAssumption DEF Typed
  <2> QED BY <2>1
<1>3. PICK look \in Look(p, r) :
        LET dests == IF look.node \in Range(heatNumas[r.heat]) \cup {Undefined} THEN {}
                     ELSE Destinations(r, look.used)
        IN
        \/ /\ dests = {} \/ PagesMatching(p, r) = {}
           /\ datas' = [datas EXCEPT ![p] = look.noted] /\ numaUsed' = Account(look.used)
           /\ UNCHANGED mover
        \/ /\ PagesMatching(p, r) # {}
           /\ \E dest \in dests :
                /\ tasks' = Append(tasks, [pid |-> p, pages |-> PagesMatching(p, r), to |-> dest])
                /\ datas' = [datas EXCEPT ![p] =
                               SetData(look.noted, [addr |-> r.addr, length |-> r.length, data |-> dest])]
                /\ numaUsed' = Account(Used(Used(look.used, dest, r.length), look.node, -r.length))
           /\ UNCHANGED inHand
  BY DEF Plan
<1>4. LooksLike(p, r, look.noted, look.used)
  BY <1>1, <1>2, LookNotes
<1>5. CASE /\ datas' = [datas EXCEPT ![p] = look.noted] /\ numaUsed' = Account(look.used)
           /\ UNCHANGED mover
  <2>1. datas' \in [Pids -> Books] /\ datas'[p] = look.noted /\ \A q \in Pids \ {p} : datas'[q] = datas[q]
    BY <1>1, <1>4, <1>5 DEF LooksLike
  <2>2. numaUsed' \in [Limited -> -MaxUsed .. MaxUsed]
    BY <1>1, <1>4, <1>5, AccountTyped DEF LooksLike
  <2>3. tasks' = tasks /\ inHand' = inHand
    BY <1>5 DEF mover
  <2> QED BY <1>1, <1>4, <2>1, <2>2, <2>3 DEF LooksLike
<1>6. ASSUME PagesMatching(p, r) # {}, NEW dest \in Destinations(r, look.used),
             tasks' = Append(tasks, [pid |-> p, pages |-> PagesMatching(p, r), to |-> dest]),
             datas' = [datas EXCEPT ![p] =
                         SetData(look.noted, [addr |-> r.addr, length |-> r.length, data |-> dest])],
             numaUsed' = Account(Used(Used(look.used, dest, r.length), look.node, -r.length)),
             inHand' = inHand
      PROVE  /\ datas' \in [Pids -> Books] /\ numaUsed' \in [Limited -> -MaxUsed .. MaxUsed]
             /\ tasks' \in Seq(Tasks)
             /\ \A q \in Pids, a \in Int :
                  \/ Data(datas'[q], a) = Data(datas[q], a)
                  \/ /\ q = p /\ a \in PagesIn(r)
                     /\ \/ Data(datas'[q], a) = at[q][a]
                        \/ Len(tasks') > Len(tasks) /\ Data(datas'[q], a) = Last(tasks').to
  <2> DEFINE task == [pid |-> p, pages |-> PagesMatching(p, r), to |-> dest]
             e == [addr |-> r.addr, length |-> r.length, data |-> dest]
  <2>1. /\ r.addr \in Nat /\ r.length \in Nat /\ r.length > 0 /\ PagesIn(r) \subseteq AllPages
    BY DEF HeatRanges
  <2>2. dest \in Places
    BY <1>1, DestinationsArePlaces
  <2>3. task \in Tasks
    <3>1. PagesMatching(p, r) \in (SUBSET AllPages) \ {{}}
      BY <1>6, <2>1 DEF PagesMatching
    <3> QED BY <2>2, <3>1 DEF Tasks
  <2>4. e \in Entries /\ PagesIn(e) = PagesIn(r)
    BY <2>1, <2>2 DEF Entries, PagesIn, EndAddr
  <2>5. tasks' \in Seq(Tasks) /\ Len(tasks') > Len(tasks) /\ Last(tasks').to = dest
    <3>1. task.to = dest
      OBVIOUS
    <3> HIDE DEF task
    <3> QED BY <1>1, <1>6, <2>3, <3>1, TaskAdded DEF task
  <2>6. /\ SetData(look.noted, e) \in Books
        /\ \A a \in Int : Data(SetData(look.noted, e), a) = IF a \in PagesIn(r) THEN dest ELSE Data(look.noted, a)
    <3>1. e.data = dest
      OBVIOUS
    <3> HIDE DEF e
    <3> QED BY <1>4, <2>4, <3>1, SetDataSets DEF LooksLike
  <2>7. /\ datas' \in [Pids -> Books] /\ datas'[p] = SetData(look.noted, e)
        /\ \A q \in Pids \ {p} : datas'[q] = datas[q]
    BY <1>1, <1>6, <2>6
  <2>8. numaUsed' \in [Limited -> -MaxUsed .. MaxUsed]
    <3>1. Used(look.used, dest, r.length) \in [Limited -> Int]
      BY <1>4, <2>1 DEF LooksLike, Used
    <3>2. Used(Used(look.used, dest, r.length), look.node, -r.length) \in [Limited -> Int]
      BY <2>1, <3>1 DEF Used
    <3> QED BY <1>1, <1>6, <3>2, AccountTyped
  <2> HIDE DEF e
  <2>9. ASSUME NEW q \in Pids, NEW a \in Int
        PROVE  \/ Data(datas'[q], a) = Data(datas[q], a)
               \/ q = p /\ a \in PagesIn(r) /\ (Data(datas'[q], a) = at[q][a] \/ Data(datas'[q], a) = dest)
    BY <1>4, <2>6, <2>7 DEF LooksLike
  <2> QED BY <2>5, <2>7, <2>8, <2>9
<1>7. inHand' = inHand
  BY <1>3 DEF mover
<1>8. Destinations(r, look.used) = {} \/ Destinations(r, look.used) # {}
  OBVIOUS
<1> QED BY <1>3, <1>5, <1>6, <1>7

LEMMA HeatmapTyped ==
  ASSUME scenario \in Scenarios, NEW heatmap \in scenario.heatmaps, NEW p \in Pids
  PROVE  heatmap[p] \in Seq(HeatRanges)
<1>1. /\ heatmap[p] \in Seq([addr : Nat, length : Nat, heat : Nat]) /\ IsProper(heatmap[p])
      /\ \A i \in DOMAIN heatmap[p] : PagesIn(heatmap[p][i]) \subseteq AllPages
      /\ \A c \in scenario.configs, i \in DOMAIN heatmap[p] : heatmap[p][i].heat \in DOMAIN c
  BY ConstantsAssumption
<1> DEFINE hrs == heatmap[p]
<1>2. ASSUME NEW i \in DOMAIN hrs PROVE hrs[i] \in HeatRanges
  <2>1. hrs[i] \in [addr : Nat, length : Nat, heat : Nat]
    <3> DEFINE R == [addr : Nat, length : Nat, heat : Nat]
    <3>1. hrs \in Seq(R)
      BY <1>1
    <3> HIDE DEF R, hrs
    <3>2. hrs[i] \in R
      BY <3>1
    <3> QED BY <3>2 DEF R
  <2>2. hrs[i].length > 0
    BY <1>1 DEF IsProper
  <2>3. PagesIn(hrs[i]) \subseteq AllPages /\ \A c \in scenario.configs : hrs[i].heat \in DOMAIN c
    BY <1>1
  <2> HIDE DEF hrs
  <2> QED BY <2>1, <2>2, <2>3 DEF HeatRanges
<1>3. hrs \in [1 .. Len(hrs) -> HeatRanges] /\ Len(hrs) \in Nat
  <2> DEFINE R == [addr : Nat, length : Nat, heat : Nat]
  <2>1. hrs \in Seq(R)
    BY <1>1
  <2> HIDE DEF R, hrs
  <2>2. hrs \in [1 .. Len(hrs) -> R] /\ DOMAIN hrs = 1 .. Len(hrs) /\ Len(hrs) \in Nat
    BY <2>1
  <2> QED BY <1>2, <2>2
<1> HIDE DEF hrs
<1>4. hrs \in Seq(HeatRanges)
  BY <1>3
<1> QED BY <1>4 DEF hrs

LEMMA HotToColdTyped ==
  ASSUME NEW hrs \in Seq(HeatRanges), NEW s \in HotToCold(hrs)
  PROVE  s \in Seq(HeatRanges)
<1>1. s \in [DOMAIN hrs -> Range(hrs)] /\ DOMAIN hrs = 1 .. Len(hrs) /\ Len(hrs) \in Nat
  BY DEF HotToCold
<1>2. Range(hrs) \subseteq HeatRanges
  BY DEF Range
<1> QED BY <1>1, <1>2

LEMMA ForgottenBook ==
  ASSUME UpdatePagedOutLocations, datas \in [Pids -> Books], NEW p \in Pids
  PROVE  /\ datas'[p] \in Books
         /\ \A a \in Int : \/ Data(datas'[p], a) = Data(datas[p], a)
                           \/ /\ Data(datas'[p], a) = Undefined
                              /\ \E i \in DOMAIN datas[p] :
                                   a \in PagesIn(datas[p][i]) /\ SwappedIn(p, datas[p][i])
<1> DEFINE ads == datas[p]
           F == {i \in DOMAIN ads : SwappedIn(p, ads[i])}
<1>1. ads \in Books
  OBVIOUS
<1>2. CASE p \notin alive
  BY <1>1, <1>2 DEF UpdatePagedOutLocations
<1>3. CASE p \in alive
  <2>1. datas'[p] = [i \in DOMAIN ads |->
                       IF SwappedIn(p, ads[i]) THEN [ads[i] EXCEPT !.data = Undefined] ELSE ads[i]]
    BY <1>3 DEF UpdatePagedOutLocations
  <2>2. datas'[p] = [i \in DOMAIN ads |-> IF i \in F THEN [ads[i] EXCEPT !.data = Undefined] ELSE ads[i]]
    BY <2>1
  <2>3. F \in SUBSET DOMAIN ads /\ \A i \in F : SwappedIn(p, ads[i]) /\ ads[i].data = Swap
    BY DEF SwappedIn
  <2> HIDE DEF F
  <2>4. /\ datas'[p] \in Books
        /\ \A a \in Int : \/ Data(datas'[p], a) = Data(ads, a)
                          \/ \E i \in F : /\ a \in PagesIn(ads[i]) /\ Data(ads, a) = ads[i].data
                                          /\ Data(datas'[p], a) = Undefined
    BY <1>1, <2>2, <2>3, UpdatedBook
  <2> QED BY <2>3, <2>4
<1> QED BY <1>2, <1>3

LEMMA TypedRound == Typed /\ Round => Typed'
<1> SUFFICES ASSUME Typed, Round PROVE Typed'
  OBVIOUS
<1> USE DEF memory, config, mover
<1>0. scenario' = scenario
  BY DEF Round, UpdateHeatmap, UpdatePagedOutLocations, StartMoves, EndMoves, NextProcess, PlanRange
<1>1. ASSUME NEW heatmap \in scenario.heatmaps, UpdateHeatmap(heatmap) PROVE Typed'
  <2>1. \A p \in Pids : pidHrs'[p] \in Seq(HeatRanges)
    BY <1>1, HeatmapTyped DEF UpdateHeatmap, Typed
  <2> QED BY <1>1, <2>1, SameRanges DEF UpdateHeatmap, Typed, book
<1>2. CASE UpdatePagedOutLocations
  <2>1. ASSUME NEW p \in Pids PROVE datas'[p] \in Books
    BY <1>2, ForgottenBook DEF Typed
  <2>2. datas' \in [Pids -> Books]
    BY <1>2, <2>1 DEF UpdatePagedOutLocations
  <2> QED BY <1>2, <2>2, SameRanges DEF UpdatePagedOutLocations, Typed
<1>3. CASE StartMoves
  BY <1>3, SameRanges DEF StartMoves, Typed, book
<1>4. CASE EndMoves
  BY <1>4, SameRanges DEF EndMoves, Typed, book
<1>5. ASSUME NEW p \in Pids, NextProcess(p) PROVE Typed'
  <2>1. ranges' \in Seq(HeatRanges)
    BY <1>5, HotToColdTyped DEF NextProcess, Typed
  <2> QED BY <1>5, <2>1, SameRanges DEF NextProcess, Typed, book
<1>6. CASE PlanRange
  <2>1. ranges \in Seq(HeatRanges) /\ ranges # <<>> /\ ranges' = Tail(ranges)
    BY <1>6 DEF PlanRange, Typed
  <2>2. Head(ranges) \in HeatRanges /\ ranges' \in Seq(HeatRanges)
    BY <2>1
  <2>3. /\ datas' \in [Pids -> Books] /\ numaUsed' \in [Limited -> -MaxUsed .. MaxUsed]
        /\ tasks' \in Seq(Tasks) /\ inHand' = inHand
    <3>1. CASE UNCHANGED <<book, mover>>
      BY <3>1 DEF book, Typed
    <3>2. CASE Plan(pid, Head(ranges))
      <4>1. pid \in Pids
        BY DEF Typed
      <4> QED BY <2>2, <3>2, <4>1, PlanNotes
    <3> QED BY <1>6, <3>1, <3>2 DEF PlanRange
  <2> QED BY <1>6, <2>2, <2>3, SameRanges DEF PlanRange, Typed
<1> QED BY <1>1, <1>2, <1>3, <1>4, <1>5, <1>6 DEF Round

LEMMA TypedNext == Typed /\ [Next]_vars => Typed'
<1> SUFFICES ASSUME Typed, [Next]_vars PROVE Typed'
  OBVIOUS
<1>1. CASE UNCHANGED vars
  BY <1>1, SameRanges DEF vars, memory, config, book, loop, mover, Typed
<1> QED BY <1>1, TypedEnvironment, TypedRound, TypedMove DEF Next

\* Every value stays in its type.  What is hard is the book: whatever ranges the heatmap
\* and the runs of pages have, SetData cuts and replaces the ranges noted before so that the
\* book stays sorted and says of no page more than one thing (addrdata.go:131-189).
THEOREM TypeCorrect == Spec => []TypeOK
<1>1. Spec => []Typed
  BY TypedInit, TypedNext, PTL DEF Spec
<1> QED BY <1>1, TypedIsTypeOK, PTL

-----------------------------------------------------------------------------
(* Notes *)

\* What a step may do to what is noted of a page.
HasAReason(p, pg) ==
  Noted(p, pg)' # Noted(p, pg) =>
    \/ pc = "moves" /\ p = pid /\ pg \in PagesIn(Head(ranges))
       /\ \/ Noted(p, pg)' = at[p][pg]
          \/ Len(tasks') > Len(tasks) /\ Noted(p, pg)' = Last(tasks').to
    \/ /\ pc = "paged out" /\ Noted(p, pg)' = Undefined
       /\ \E i \in DOMAIN datas[p] :
            /\ datas[p][i].data = Swap /\ pg \in PagesIn(datas[p][i])
            /\ \E q \in PagesIn(datas[p][i]) : at[p][q] # Swap

LEMMA NotedStays == datas' = datas => \A p \in Pids, pg \in AllPages : Noted(p, pg)' = Noted(p, pg)
  BY DEF Noted

LEMMA RoundHasAReason ==
  ASSUME Typed, Round, NEW p \in Pids, NEW pg \in AllPages
  PROVE  HasAReason(p, pg)
<1>0. pg \in Int
  BY ConstantsAssumption
<1>1. CASE datas' = datas
  BY <1>1, NotedStays DEF HasAReason
<1>2. CASE UpdatePagedOutLocations
  <2>1. \/ Data(datas'[p], pg) = Data(datas[p], pg)
        \/ /\ Data(datas'[p], pg) = Undefined
           /\ \E i \in DOMAIN datas[p] :
                pg \in PagesIn(datas[p][i]) /\ SwappedIn(p, datas[p][i])
    BY <1>0, <1>2, ForgottenBook DEF Typed
  <2> QED BY <1>2, <2>1 DEF HasAReason, Noted, SwappedIn, UpdatePagedOutLocations
<1>3. CASE PlanRange /\ Plan(pid, Head(ranges))
  <2>1. Head(ranges) \in HeatRanges /\ pid \in Pids /\ pc = "moves"
    BY <1>3 DEF PlanRange, Typed
  <2>2. \/ Data(datas'[p], pg) = Data(datas[p], pg)
        \/ /\ p = pid /\ pg \in PagesIn(Head(ranges))
           /\ \/ Data(datas'[p], pg) = at[p][pg]
              \/ Len(tasks') > Len(tasks) /\ Data(datas'[p], pg) = Last(tasks').to
    BY <1>0, <1>3, <2>1, PlanNotes
  <2> QED BY <2>1, <2>2 DEF HasAReason, Noted
<1>4. CASE PlanRange /\ UNCHANGED <<book, mover>>
  BY <1>1, <1>4 DEF book
<1> QED BY <1>1, <1>2, <1>3, <1>4
     DEF Round, UpdateHeatmap, StartMoves, EndMoves, NextProcess, PlanRange, book

\* The policy never takes a page for moved or gone that it neither saw nor scheduled:
\* looking at a range and scheduling one set what is noted of pages of the range and leave
\* all others, however ranges of the heatmap and the book cut each other
\* (policy_heat.go:496-598), and updatePagedOutLocations only forgets ranges that were
\* noted as swapped out and have a page that is not (423-456).
THEOREM BookChangesForAReason == Spec => NotesHaveAReason
<1>1. ASSUME Typed, [Next]_vars PROVE [\A p \in Pids, pg \in AllPages : HasAReason(p, pg)]_vars
  <2>1. CASE Round
    BY <1>1, <2>1, RoundHasAReason
  <2>2. CASE datas' = datas
    BY <2>2, NotedStays DEF HasAReason
  <2> QED BY <1>1, <2>1, <2>2
       DEF Next, Environment, Move, Exit, PageMoves, SetConfig, PopTask, MoveTask, book
<1>2. Spec => []Typed
  BY TypedInit, TypedNext, PTL DEF Spec
<1> QED BY <1>1, <1>2, PTL DEF Spec, NotesHaveAReason, HasAReason

-----------------------------------------------------------------------------
(* Accounts *)

\* The pages of which a book for each process says that they are on a node.
On(books, n) == {x \in Pids \X AllPages : Data(books[x[1]], x[2]) = n}

LEMMA OnFinite ==
  ASSUME NEW books, NEW n
  PROVE  IsFiniteSet(On(books, n)) /\ Cardinality(On(books, n)) \in Nat
<1>1. IsFiniteSet(Pids \X AllPages)
  BY ConstantsAssumption, FS_Product
<1> QED BY <1>1, FS_Subset, FS_CardinalityType DEF On

\* The accounts change as the books do.
Follows(used, books, later, laterBooks) ==
  /\ used \in [Limited -> Int] /\ later \in [Limited -> Int]
  /\ \A n \in Limited :
       later[n] - used[n] = Cardinality(On(laterBooks, n)) - Cardinality(On(books, n))

LEMMA FollowsOn ==
  ASSUME NEW used, NEW books, NEW later, NEW laterBooks, NEW last, NEW lastBooks,
         Follows(used, books, later, laterBooks), Follows(later, laterBooks, last, lastBooks)
  PROVE  Follows(used, books, last, lastBooks)
<1>1. ASSUME NEW n \in Limited
      PROVE  last[n] - used[n] = Cardinality(On(lastBooks, n)) - Cardinality(On(books, n))
  <2>1. /\ Cardinality(On(books, n)) \in Nat /\ Cardinality(On(laterBooks, n)) \in Nat
        /\ Cardinality(On(lastBooks, n)) \in Nat
    BY OnFinite
  <2>2. used[n] \in Int /\ later[n] \in Int /\ last[n] \in Int
    BY DEF Follows
  <2>3. /\ later[n] - used[n] = Cardinality(On(laterBooks, n)) - Cardinality(On(books, n))
        /\ last[n] - later[n] = Cardinality(On(lastBooks, n)) - Cardinality(On(laterBooks, n))
    BY DEF Follows
  <2> QED BY <2>1, <2>2, <2>3
<1> QED BY <1>1 DEF Follows

\* The notes of some pages of a process change from one place to another.
LEMMA NotesMoved ==
  ASSUME NEW p \in Pids, NEW P \in SUBSET AllPages, NEW f, NEW g, NEW from, NEW to, from # to,
         \A a \in P : Data(f[p], a) = from /\ Data(g[p], a) = to,
         \A q \in Pids, a \in AllPages : q # p \/ a \notin P => Data(g[q], a) = Data(f[q], a)
  PROVE  /\ Cardinality(P) \in Nat
         /\ Cardinality(On(g, to)) = Cardinality(On(f, to)) + Cardinality(P)
         /\ Cardinality(On(g, from)) = Cardinality(On(f, from)) - Cardinality(P)
         /\ \A n : n \notin {from, to} => On(g, n) = On(f, n)
<1> DEFINE X == {p} \X P
<1>1. IsFiniteSet(X) /\ Cardinality(X) = Cardinality(P) /\ Cardinality(P) \in Nat
  <2>1. IsFiniteSet(P) /\ Cardinality(P) \in Nat
    BY ConstantsAssumption, FS_Subset, FS_CardinalityType
  <2>2. IsFiniteSet({p}) /\ Cardinality({p}) = 1
    BY FS_Singleton
  <2>3. IsFiniteSet(X) /\ Cardinality(X) = 1 * Cardinality(P)
    BY <2>1, <2>2, FS_Product
  <2> QED BY <2>1, <2>3
<1>2. ASSUME NEW x \in Pids \X AllPages
      PROVE  IF x \in X THEN Data(f[x[1]], x[2]) = from /\ Data(g[x[1]], x[2]) = to
             ELSE Data(g[x[1]], x[2]) = Data(f[x[1]], x[2])
  OBVIOUS
<1>3. X \subseteq Pids \X AllPages
  OBVIOUS
<1> HIDE DEF X
<1>4. /\ On(g, to) = On(f, to) \cup X /\ On(f, to) \cap X = {}
      /\ On(f, from) = On(g, from) \cup X /\ On(g, from) \cap X = {}
  BY <1>2, <1>3 DEF On
<1>5. ASSUME NEW S, NEW T, IsFiniteSet(T), S = T \cup X, T \cap X = {}
      PROVE  Cardinality(S) = Cardinality(T) + Cardinality(X)
  <2>1. Cardinality(S) = Cardinality(T) + Cardinality(X) - Cardinality({})
    BY <1>1, <1>5, FS_Union
  <2> QED BY <1>1, <1>5, <2>1, FS_EmptySet, FS_CardinalityType
<1>6. /\ Cardinality(On(g, to)) = Cardinality(On(f, to)) + Cardinality(P)
      /\ Cardinality(On(f, from)) = Cardinality(On(g, from)) + Cardinality(P)
  BY <1>1, <1>4, <1>5, OnFinite
<1>7. Cardinality(On(g, from)) = Cardinality(On(f, from)) - Cardinality(P)
  BY <1>1, <1>6, OnFinite
<1>8. \A n : n \notin {from, to} => On(g, n) = On(f, n)
  BY <1>2 DEF On
<1> QED BY <1>1, <1>6, <1>7, <1>8

\* Counting them there and no longer here keeps the accounts with the books.
LEMMA UsedFollows ==
  ASSUME NEW p \in Pids, NEW r \in HeatRanges, NEW f, NEW g, NEW from, NEW to, from # to,
         \A a \in PagesIn(r) : Data(f[p], a) = from /\ Data(g[p], a) = to,
         \A q \in Pids, a \in AllPages : q # p \/ a \notin PagesIn(r) => Data(g[q], a) = Data(f[q], a),
         NEW used \in [Limited -> Int]
  PROVE  Follows(used, f, Used(Used(used, to, r.length), from, -r.length), g)
<1> DEFINE later == Used(Used(used, to, r.length), from, -r.length)
<1>1. /\ r.length \in Nat /\ PagesIn(r) \in SUBSET AllPages /\ Cardinality(PagesIn(r)) = r.length
  <2>1. r.addr \in Nat /\ r.length \in Nat /\ r.length > 0 /\ PagesIn(r) \subseteq AllPages
    BY DEF HeatRanges
  <2>2. PagesIn(r) = r.addr .. ((r.addr + r.length) - 1)
    BY DEF PagesIn, EndAddr
  <2>3. Cardinality(r.addr .. ((r.addr + r.length) - 1)) = r.length
    <3> DEFINE b == (r.addr + r.length) - 1
    <3>1. b \in Int /\ ~(r.addr > b) /\ b - r.addr + 1 = r.length
      BY <2>1
    <3> HIDE DEF b
    <3>2. Cardinality(r.addr .. b) = IF r.addr > b THEN 0 ELSE b - r.addr + 1
      BY <2>1, <3>1, FS_Interval
    <3> QED BY <3>1, <3>2 DEF b
  <2> QED BY <2>1, <2>2, <2>3
<1>2. /\ later \in [Limited -> Int]
      /\ \A n \in Limited : later[n] = IF n = to THEN used[n] + r.length
                                       ELSE IF n = from THEN used[n] - r.length ELSE used[n]
  BY <1>1 DEF Used
<1>3. /\ Cardinality(On(g, to)) = Cardinality(On(f, to)) + r.length
      /\ Cardinality(On(g, from)) = Cardinality(On(f, from)) - r.length
      /\ \A n : n \notin {from, to} => On(g, n) = On(f, n)
  <2> DEFINE P == PagesIn(r)
  <2>1. P \in SUBSET AllPages /\ Cardinality(P) = r.length
    BY <1>1
  <2> HIDE DEF P
  <2>2. /\ \A a \in P : Data(f[p], a) = from /\ Data(g[p], a) = to
        /\ \A q \in Pids, a \in AllPages : q # p \/ a \notin P => Data(g[q], a) = Data(f[q], a)
    BY DEF P
  <2> QED BY <2>1, <2>2, NotesMoved
<1> HIDE DEF later
<1>4. ASSUME NEW n \in Limited
      PROVE  later[n] - used[n] = Cardinality(On(g, n)) - Cardinality(On(f, n))
  <2>1. used[n] \in Int /\ Cardinality(On(g, n)) \in Nat /\ Cardinality(On(f, n)) \in Nat
    BY OnFinite
  <2>2. CASE n = to
    BY <1>1, <1>2, <1>3, <2>1, <2>2
  <2>3. CASE n # to /\ n = from
    BY <1>1, <1>2, <1>3, <2>1, <2>3
  <2>4. CASE n \notin {from, to}
    BY <1>1, <1>2, <1>3, <2>1, <2>4
  <2> QED BY <2>2, <2>3, <2>4
<1> QED BY <1>2, <1>4 DEF Follows, later

LEMMA NoteOneRun ==
  ASSUME NEW p, NEW runs, DOMAIN runs = 1 .. 1
  PROVE  NoteRuns(p, runs) =
           NoteRun([node |-> runs[Len(runs)].data, noted |-> datas[p], used |-> numaUsed], runs, 1)
<1> DEFINE base == [node |-> runs[Len(runs)].data, noted |-> datas[p], used |-> numaUsed]
           pos == [i \in DOMAIN runs |-> i]
           f(g) == [s \in SUBSET DOMAIN pos |->
                      IF s = {} THEN base ELSE NoteRun(g[s \ {Max(s)}], runs, pos[Max(s)])]
           fold == CHOOSE g : g = f(g)
           h == [s \in SUBSET {1} |-> IF s = {} THEN base ELSE NoteRun(base, runs, 1)]
<1>1. NoteRuns(p, runs) = fold[DOMAIN pos]
  BY DEF NoteRuns, FoldLeft, MapThenFoldSet
<1>2. DOMAIN pos = {1} /\ pos[1] = 1
  OBVIOUS
<1>3. Max({1}) = 1
  BY DEF Max
<1> HIDE DEF base, pos
<1>4. h = f(h)
  <2>1. ASSUME NEW s \in SUBSET {1}
        PROVE  h[s] = IF s = {} THEN base ELSE NoteRun(h[s \ {Max(s)}], runs, pos[Max(s)])
    <3>1. CASE s = {}
      BY <3>1
    <3>2. CASE s = {1}
      <4>1. s \ {Max(s)} = {}
        BY <1>3, <3>2
      <4> QED BY <1>2, <1>3, <3>2, <4>1
    <3> QED BY <3>1, <3>2
  <2> QED BY <1>2, <2>1
<1>5. fold = f(fold)
  BY <1>4
<1> HIDE DEF fold, h
<1>6. fold[{}] = base
  BY <1>2, <1>5
<1>7. fold[{1}] = NoteRun(fold[{1} \ {Max({1})}], runs, pos[Max({1})])
  BY <1>2, <1>5
<1>8. fold[{1}] = NoteRun(base, runs, 1)
  <2>1. {1} \ {Max({1})} = {}
    BY <1>3
  <2> QED BY <1>2, <1>3, <1>6, <1>7, <2>1
<1> QED BY <1>1, <1>2, <1>8 DEF base

\* A range that is in memory on one node is one run.
LEMMA OneRun ==
  ASSUME NEW p \in Pids, NEW r \in HeatRanges, at \in [Pids -> [AllPages -> Places \cup {Absent}]],
         NEW n \in Nodes, \A pg \in PagesIn(r) : at[p][pg] = n, NEW runs \in Runs(p, r)
  PROVE  /\ DOMAIN runs = 1 .. 1 /\ Len(runs) = 1
         /\ runs[1] \in Entries /\ runs[1].data = n /\ runs[1].length = r.length
         /\ PagesIn(runs[1]) = PagesIn(r)
<1> DEFINE pages == PagesMatching(p, r)
           starts == {pg \in pages : pg - 1 \notin pages \/ at[p][pg - 1] # at[p][pg]}
<1>1. /\ AllPages \subseteq Nat \ {0} /\ r.addr \in Nat /\ r.length \in Nat /\ r.length > 0
      /\ PagesIn(r) = r.addr .. ((r.addr + r.length) - 1)
  BY ConstantsAssumption DEF HeatRanges, PagesIn, EndAddr
<1>2. pages = PagesIn(r)
  BY DEF PagesMatching, BitsSatisfied
<1>3. starts = {r.addr}
  <2>1. ASSUME NEW pg \in PagesIn(r)
        PROVE  (pg - 1 \notin PagesIn(r) \/ at[p][pg - 1] # at[p][pg]) <=> pg = r.addr
    <3>1. pg \in Nat /\ r.addr <= pg /\ pg <= (r.addr + r.length) - 1
      BY <1>1
    <3>2. CASE pg = r.addr
      BY <1>1, <3>1, <3>2
    <3>3. CASE pg # r.addr
      <4>1. pg - 1 \in PagesIn(r)
        BY <1>1, <3>1, <3>3
      <4> QED BY <3>3, <4>1
    <3> QED BY <3>2, <3>3
  <2>2. r.addr \in PagesIn(r)
    BY <1>1
  <2> QED BY <1>2, <2>1, <2>2
<1>4. PICK first \in Ascending(starts) : runs = [i \in DOMAIN first |-> RunFrom(p, pages, first[i])]
  BY DEF Runs
<1>5. first \in [1 .. 1 -> {r.addr}]
  <2>1. Cardinality({r.addr}) = 1
    BY FS_Singleton
  <2> QED BY <1>3, <1>4, <2>1 DEF Ascending
<1>6. DOMAIN runs = 1 .. 1 /\ Len(runs) = 1 /\ runs[1] = RunFrom(p, pages, r.addr)
  <2>1. DOMAIN runs = 1 .. 1 /\ runs[1] = RunFrom(p, pages, r.addr)
    BY <1>4, <1>5
  <2>2. runs \in Seq({RunFrom(p, pages, r.addr)})
    BY <1>4, <1>5
  <2> QED BY <2>1, <2>2
<1> HIDE DEF starts, pages
<1>7. r.addr \in pages /\ at[p][r.addr] = n
  BY <1>1, <1>2
<1>8. /\ runs[1] \in Entries /\ runs[1].addr = r.addr /\ runs[1].data = n
      /\ \A a \in PagesIn(runs[1]) : a \in PagesIn(r)
      /\ \A q \in pages :
           (q >= r.addr /\ \A i \in r.addr .. q : i \in pages /\ at[p][i] = n) => q \in PagesIn(runs[1])
  BY <1>2, <1>6, <1>7, RunIsOnOneNode DEF pages
<1>9. ASSUME NEW q \in PagesIn(r) PROVE q \in PagesIn(runs[1])
  <2>1. q \in Nat /\ q >= r.addr /\ \A i \in r.addr .. q : i \in PagesIn(r)
    BY <1>1
  <2> QED BY <1>2, <1>8, <2>1
<1>10. runs[1].length = r.length
  <2>1. /\ runs[1].length \in Nat \ {0}
        /\ \A a \in Int : a \in PagesIn(runs[1]) <=> r.addr <= a /\ a < r.addr + runs[1].length
    BY <1>8, EntryFields DEF EndAddr
  <2>2. \A a \in Int : r.addr <= a /\ a < r.addr + runs[1].length <=>
                       r.addr <= a /\ a <= (r.addr + r.length) - 1
    BY <1>1, <1>8, <1>9, <2>1
  <2>3. (r.addr + runs[1].length) - 1 <= (r.addr + r.length) - 1
    BY <1>1, <2>1, <2>2
  <2>4. (r.addr + r.length) - 1 < r.addr + runs[1].length
    BY <1>1, <2>1, <2>2
  <2> QED BY <1>1, <2>1, <2>3, <2>4
<1> QED BY <1>6, <1>8, <1>9, <1>10

\* After a look at a plain range all its pages are noted on its node, or nothing is known of
\* its node; and what is counted is what is noted.
LEMMA LookFollows ==
  ASSUME Typed, NEW p \in Pids, NEW r \in HeatRanges, Plain(p, r), NEW look \in Look(p, r)
  PROVE  /\ Follows(numaUsed, datas, look.used, [datas EXCEPT ![p] = look.noted])
         /\ look.node # Undefined => \A a \in PagesIn(r) : Data(look.noted, a) = look.node
<1>1. /\ at \in [Pids -> [AllPages -> Places \cup {Absent}]] /\ datas \in [Pids -> Books]
      /\ scenario \in Scenarios /\ numaUsed \in [Limited -> Int]
  <2>1. /\ at \in [Pids -> [AllPages -> Places \cup {Absent}]] /\ datas \in [Pids -> Books]
        /\ scenario \in Scenarios
    BY DEF Typed
  <2>2. MaxUsed \in Nat /\ numaUsed \in [Limited -> -MaxUsed .. MaxUsed]
    BY ConstantsAssumption DEF Typed
  <2>3. numaUsed \in [Limited -> Int]
    BY <2>2
  <2> QED BY <2>1, <2>3
<1>2. /\ r.addr \in PagesIn(r) /\ PagesIn(r) \subseteq AllPages /\ PagesIn(r) \subseteq Int
      /\ AllPages \subseteq Int
  BY ConstantsAssumption DEF HeatRanges, PagesIn, EndAddr
<1>3. Undefined \notin Places /\ Undefined \notin Limited /\ Nodes \subseteq Places /\ Limited \subseteq Nodes
  BY <1>1, ConstantsAssumption, LimitedAreNodes DEF Places
<1>4. ASSUME look.noted = datas[p], look.used = numaUsed
      PROVE  Follows(numaUsed, datas, look.used, [datas EXCEPT ![p] = look.noted])
  <2>1. [datas EXCEPT ![p] = look.noted] = datas
    BY <1>1, <1>4
  <2>2. \A n \in Limited : numaUsed[n] - numaUsed[n] = 0
    BY <1>1
  <2>3. \A n \in Limited : Cardinality(On(datas, n)) - Cardinality(On(datas, n)) = 0
    BY OnFinite
  <2> QED BY <1>1, <1>4, <2>1, <2>2, <2>3 DEF Follows
<1>5. PICK n \in Places :
        \/ \A pg \in PagesIn(r) : Noted(p, pg) = n
        \/ \A pg \in PagesIn(r) : Noted(p, pg) = Undefined /\ at[p][pg] = n
  BY DEF Plain
<1>6. CASE \A pg \in PagesIn(r) : Noted(p, pg) = n
  <2>1. Data(datas[p], r.addr) = n /\ n # Undefined
    BY <1>2, <1>3, <1>6 DEF Noted
  <2>2. look.node = n /\ look.noted = datas[p] /\ look.used = numaUsed
    BY <2>1 DEF Look
  <2> QED BY <1>4, <1>6, <2>2 DEF Noted
<1>7. CASE (\A pg \in PagesIn(r) : Noted(p, pg) = Undefined /\ at[p][pg] = n) /\ n \notin Nodes
  <2>1. PagesMatching(p, r) = {} /\ Data(datas[p], r.addr) = Undefined
    BY <1>2, <1>7 DEF PagesMatching, BitsSatisfied, Noted
  <2>2. look.node = Undefined /\ look.noted = datas[p] /\ look.used = numaUsed
    BY <2>1 DEF Look
  <2> QED BY <1>4, <2>2
<1>8. CASE (\A pg \in PagesIn(r) : Noted(p, pg) = Undefined /\ at[p][pg] = n) /\ n \in Nodes
  <2>1. PagesMatching(p, r) # {} /\ Data(datas[p], r.addr) = Undefined
    BY <1>2, <1>8 DEF PagesMatching, BitsSatisfied, Noted
  <2>2. PICK runs \in Runs(p, r) : look = NoteRuns(p, runs)
    BY <2>1 DEF Look
  <2>3. /\ DOMAIN runs = 1 .. 1 /\ Len(runs) = 1
        /\ runs[1] \in Entries /\ runs[1].data = n /\ runs[1].length = r.length
        /\ PagesIn(runs[1]) = PagesIn(r)
    BY <1>1, <1>8, OneRun
  <2>4. look = NoteRun([node |-> n, noted |-> datas[p], used |-> numaUsed], runs, 1)
    BY <2>2, <2>3, NoteOneRun
  <2>5. /\ look.node = n /\ look.noted = SetData(datas[p], runs[1])
        /\ look.used = Used(numaUsed, n, r.length)
    BY <2>3, <2>4 DEF NoteRun
  <2>6. \A a \in Int : Data(look.noted, a) = IF a \in PagesIn(r) THEN n ELSE Data(datas[p], a)
    BY <1>1, <2>3, <2>5, SetDataSets
  <2> DEFINE g == [datas EXCEPT ![p] = look.noted]
  <2>7. g[p] = look.noted /\ \A q \in Pids \ {p} : g[q] = datas[q]
    BY <1>1
  <2>8. /\ \A a \in PagesIn(r) : Data(datas[p], a) = Undefined /\ Data(g[p], a) = n
        /\ \A q \in Pids, a \in AllPages : q # p \/ a \notin PagesIn(r) => Data(g[q], a) = Data(datas[q], a)
    BY <1>2, <1>8, <2>6, <2>7 DEF Noted
  <2>9. look.used = Used(Used(numaUsed, n, r.length), Undefined, -r.length)
    BY <1>3, <2>5 DEF Used
  <2> HIDE DEF g
  <2>10. Follows(numaUsed, datas, Used(Used(numaUsed, n, r.length), Undefined, -r.length), g)
    <3>1. Undefined # n
      BY <1>3
    <3> QED BY <1>1, <2>8, <3>1, UsedFollows
  <2>11. Follows(numaUsed, datas, look.used, g)
    BY <2>9, <2>10
  <2> QED BY <1>2, <2>5, <2>6, <2>11 DEF g
<1> QED BY <1>5, <1>6, <1>7, <1>8

LEMMA PlanFollows ==
  ASSUME Typed, NEW p \in Pids, NEW r \in HeatRanges, Plain(p, r), Plan(p, r)
  PROVE  \E used : Follows(numaUsed, datas, used, datas') /\ numaUsed' = Account(used)
<1>1. PICK look \in Look(p, r) :
        LET dests == IF look.node \in Range(heatNumas[r.heat]) \cup {Undefined} THEN {}
                     ELSE Destinations(r, look.used)
        IN
        \/ /\ dests = {} \/ PagesMatching(p, r) = {}
           /\ datas' = [datas EXCEPT ![p] = look.noted] /\ numaUsed' = Account(look.used)
           /\ UNCHANGED mover
        \/ /\ PagesMatching(p, r) # {}
           /\ \E dest \in dests :
                /\ tasks' = Append(tasks, [pid |-> p, pages |-> PagesMatching(p, r), to |-> dest])
                /\ datas' = [datas EXCEPT ![p] =
                               SetData(look.noted, [addr |-> r.addr, length |-> r.length, data |-> dest])]
                /\ numaUsed' = Account(Used(Used(look.used, dest, r.length), look.node, -r.length))
           /\ UNCHANGED inHand
  BY DEF Plan
<1> DEFINE f == [datas EXCEPT ![p] = look.noted]
<1>2. /\ Follows(numaUsed, datas, look.used, f)
      /\ look.node # Undefined => \A a \in PagesIn(r) : Data(look.noted, a) = look.node
  BY LookFollows
<1>3. CASE datas' = [datas EXCEPT ![p] = look.noted] /\ numaUsed' = Account(look.used)
  BY <1>2, <1>3
<1>4. ASSUME look.node \notin Range(heatNumas[r.heat]) \cup {Undefined},
             NEW dest \in Destinations(r, look.used),
             datas' = [datas EXCEPT ![p] =
                         SetData(look.noted, [addr |-> r.addr, length |-> r.length, data |-> dest])],
             numaUsed' = Account(Used(Used(look.used, dest, r.length), look.node, -r.length))
      PROVE  \E used : Follows(numaUsed, datas, used, datas') /\ numaUsed' = Account(used)
  <2> DEFINE e == [addr |-> r.addr, length |-> r.length, data |-> dest]
  <2>1. datas \in [Pids -> Books] /\ look.noted \in Books /\ look.used \in [Limited -> Int]
    <3>1. numaUsed \in [Limited -> Int]
      BY <1>2 DEF Follows
    <3> QED BY <3>1, LookNotes DEF Typed, LooksLike
  <2>2. dest \in Places /\ dest \in Range(heatNumas[r.heat])
    BY DestinationsArePlaces, DestinationsAreMeant DEF Typed
  <2>3. /\ r.addr \in Nat /\ r.length \in Nat /\ r.length > 0 /\ PagesIn(r) \subseteq AllPages
        /\ AllPages \subseteq Int /\ PagesIn(r) \subseteq Int
    <3>1. r.addr \in Nat /\ r.length \in Nat /\ r.length > 0 /\ PagesIn(r) \subseteq AllPages
      BY DEF HeatRanges
    <3>2. AllPages \subseteq Int
      BY ConstantsAssumption
    <3> QED BY <3>1, <3>2
  <2>4. e \in Entries /\ PagesIn(e) = PagesIn(r) /\ e.data = dest
    BY <2>2, <2>3 DEF Entries, PagesIn, EndAddr
  <2> HIDE DEF e
  <2>5. \A a \in Int : Data(SetData(look.noted, e), a) = IF a \in PagesIn(r) THEN dest ELSE Data(look.noted, a)
    BY <2>1, <2>4, SetDataSets
  <2>6. /\ datas'[p] = SetData(look.noted, e) /\ f[p] = look.noted
        /\ \A q \in Pids \ {p} : datas'[q] = datas[q] /\ f[q] = datas[q]
    BY <1>4, <2>1 DEF e
  <2>7. /\ \A a \in PagesIn(r) : Data(f[p], a) = look.node /\ Data(datas'[p], a) = dest
        /\ \A q \in Pids, a \in AllPages : q # p \/ a \notin PagesIn(r) => Data(datas'[q], a) = Data(f[q], a)
    <3> HIDE DEF f
    <3>1. look.node # Undefined
      BY <1>4
    <3> QED BY <1>2, <2>3, <2>5, <2>6, <3>1
  <2>8. look.node # dest
    BY <1>4, <2>2
  <2> HIDE DEF f
  <2>9. Follows(look.used, f, Used(Used(look.used, dest, r.length), look.node, -r.length), datas')
    BY <2>1, <2>7, <2>8, UsedFollows
  <2> QED BY <1>2, <1>4, <2>9, FollowsOn
<1> QED BY <1>1, <1>3, <1>4

LEMMA BoundedAccounts ==
  ASSUME scenario \in Scenarios, NEW used \in [Limited -> Int], NEW n \in Limited
  PROVE  Account(used)[n] = used[n] \/ Account(used)[n] \in {-MaxUsed, MaxUsed}
  BY LimitedAreNodes DEF Account, Bounded

\* What is used of a limited node, by the policy's account, changes with the number of pages
\* the book has there, when a range is planned that is on one node or known to be; and only
\* then the sums of policy_heat.go:530-540 and 590-594 are those of the notes.
THEOREM PlainRangesAreAccounted == Spec => AccountsFollowTheBook
<1>1. ASSUME Typed, [Next]_vars, ranges # <<>>, ranges' = Tail(ranges), Plain(pid, Head(ranges)),
             NEW n \in Limited
      PROVE  \/ numaUsed[n]' - numaUsed[n] = NotedOn(n)' - NotedOn(n)
             \/ numaUsed[n]' \in {-MaxUsed, MaxUsed}
  <2>1. ranges \in Seq(HeatRanges) /\ pid \in Pids /\ numaUsed \in [Limited -> -MaxUsed .. MaxUsed]
        /\ scenario \in Scenarios /\ MaxUsed \in Nat
    BY <1>1, ConstantsAssumption DEF Typed
  <2>2. Head(ranges) \in HeatRanges /\ ranges' # ranges
    <3>1. Len(ranges) \in Nat /\ Len(Tail(ranges)) = Len(ranges) - 1
      BY <1>1, <2>1
    <3>2. Head(ranges) \in HeatRanges
      BY <1>1, <2>1
    <3>3. Tail(ranges) # ranges
      BY <3>1
    <3> QED BY <1>1, <3>2, <3>3
  <2>3. PlanRange
    BY <1>1, <2>2 DEF Next, Environment, Round, Move, Exit, PageMoves, SetConfig, UpdateHeatmap,
       UpdatePagedOutLocations, StartMoves, NextProcess, EndMoves, PopTask, MoveTask, vars, loop
  <2>4. NotedOn(n) = Cardinality(On(datas, n)) /\ NotedOn(n)' = Cardinality(On(datas', n))
    BY DEF NotedOn, Noted, On
  <2>5. Cardinality(On(datas, n)) \in Nat /\ numaUsed[n] \in Int
    BY <2>1, OnFinite
  <2>6. CASE UNCHANGED <<book, mover>>
    BY <2>4, <2>5, <2>6 DEF book
  <2>7. CASE Plan(pid, Head(ranges))
    <3>1. PICK used : Follows(numaUsed, datas, used, datas') /\ numaUsed' = Account(used)
      BY <1>1, <2>1, <2>2, <2>7, PlanFollows
    <3>2. used \in [Limited -> Int] /\
          used[n] - numaUsed[n] = Cardinality(On(datas', n)) - Cardinality(On(datas, n))
      BY <3>1 DEF Follows
    <3> QED BY <2>1, <2>4, <3>1, <3>2, BoundedAccounts
  <2> QED BY <2>3, <2>6, <2>7 DEF PlanRange
<1>2. Spec => []Typed
  BY TypedInit, TypedNext, PTL DEF Spec
<1>3. Typed /\ [Next]_vars =>
        [ranges # <<>> /\ ranges' = Tail(ranges) /\ Plain(pid, Head(ranges)) =>
           \A n \in Limited : \/ numaUsed[n]' - numaUsed[n] = NotedOn(n)' - NotedOn(n)
                              \/ numaUsed[n]' \in {-MaxUsed, MaxUsed}]_vars
  BY <1>1
<1> QED BY <1>2, <1>3, PTL DEF Spec, AccountsFollowTheBook
=============================================================================
