----------------------------- MODULE AddrDatas -----------------------------
(***************************************************************************)
(* Data of address ranges (pkg/memtier/addrdata.go): a sorted list of      *)
(* ranges that do not overlap, each with some data.  Addresses and lengths *)
(* are counted in pages.                                                   *)
(***************************************************************************)
EXTENDS Naturals, SequencesExt

CONSTANT Undefined  \* the data of addresses without any

EndAddr(r) == r.addr + r.length
PagesIn(r) == r.addr .. (EndAddr(r) - 1)

\* overlapping: the first range that ends behind the start of r, and the first one from
\* there on that starts at the end of r or behind it.
FirstOverlapping(ads, r) == Min({i \in DOMAIN ads : EndAddr(ads[i]) > r.addr} \cup {Len(ads) + 1})
FirstBehind(ads, r) ==
  Min({i \in DOMAIN ads : i >= FirstOverlapping(ads, r) /\ ads[i].addr >= EndAddr(r)} \cup {Len(ads) + 1})

Data(ads, addr) ==
  LET at == {i \in DOMAIN ads : addr \in PagesIn(ads[i])} IN
  IF at = {} THEN Undefined ELSE ads[Min(at)].data

\* The part of a range between two addresses, if it is not empty.
Part(r, from, to) ==
  IF from < to THEN <<[addr |-> from, length |-> to - from, data |-> r.data]>> ELSE <<>>

\* Mutant: what a range has behind the new one is lost when the new one is inside it.
SetDataInside(ads, r) ==
  LET first == FirstOverlapping(ads, r)
      behind == FirstBehind(ads, r)
      start == IF first < behind THEN Part(ads[first], ads[first].addr, r.addr) ELSE <<>>
      rest == IF first < behind - 1 THEN Part(ads[behind - 1], EndAddr(r), EndAddr(ads[behind - 1])) ELSE <<>>
  IN IF r.length = 0 THEN ads
     ELSE SubSeq(ads, 1, first - 1) \o start \o <<r>> \o rest \o SubSeq(ads, behind, Len(ads))

\* Mutant: the first range that overlaps is not cut.
SetDataUncut(ads, r) ==
  LET first == FirstOverlapping(ads, r)
      behind == FirstBehind(ads, r)
      start == IF first < behind /\ ads[first].addr < r.addr THEN <<ads[first]>> ELSE <<>>
      rest == IF first < behind THEN Part(ads[behind - 1], EndAddr(r), EndAddr(ads[behind - 1])) ELSE <<>>
  IN IF r.length = 0 THEN ads
     ELSE SubSeq(ads, 1, first - 1) \o start \o <<r>> \o rest \o SubSeq(ads, behind, Len(ads))

\* What the first and the last range that overlap have outside of r keeps its data.
SetData(ads, r) ==
  LET first == FirstOverlapping(ads, r)
      behind == FirstBehind(ads, r)
      start == IF first < behind THEN Part(ads[first], ads[first].addr, r.addr) ELSE <<>>
      rest == IF first < behind THEN Part(ads[behind - 1], EndAddr(r), EndAddr(ads[behind - 1])) ELSE <<>>
  IN IF r.length = 0 THEN ads
     ELSE SubSeq(ads, 1, first - 1) \o start \o <<r>> \o rest \o SubSeq(ads, behind, Len(ads))

\* addrdata.go:30 "sorted by non-overlapping address ranges", and none of them is empty.
IsProper(ads) ==
  \A i \in DOMAIN ads :
    /\ ads[i].length > 0
    /\ i > 1 => EndAddr(ads[i - 1]) <= ads[i].addr
=============================================================================
