--------------------------- MODULE PhysMemTypeProofs ---------------------------
(***************************************************************************)
(* Type correctness of the physical memory manager through boot and the   *)
(* steady state: the loop locals of _create_free_page_list() stay         *)
(* addresses, the free-list words hold addresses, the ppage{}s sit at     *)
(* addresses and their map counts stay within the bound.                   *)
(***************************************************************************)
EXTENDS PhysMemProofs, WellFoundedInduction, TLAPS

USE PpageSizeAssumption, MaxIncsAssumption, PageSizeAssumption, ModAssumption,
    MaxNumAssumption, VirtBaseAssumption, PhysAddrsAssumption, MaxCallsAssumption

(* While the inner loop of _create_free_page_list() walks zone i, curr is *)
(* a page of that zone or its end; between zones it is NULL.              *)
BuildInv ==
  /\ boot = "build" => bi \in Nat \ {0}
  /\ curr # NULL =>
    /\ boot = "build" /\ bi \in 1 .. pzone_num
    /\ curr % PAGE_SIZE = 0 /\ curr <= pzones[bi].end

(* No ppage{} has been counted more often than increments were made. *)
MapBound == \A d \in DOMAIN ppage : ppage[d].mapcount <= incs

(* The conjuncts of MemTypeOK about the memory manager's own variables. *)
MemOK ==
  /\ bi \in 0 .. PZONE_MAX_NUM + 1
  /\ prev \in Addr
  /\ curr \in Addr
  /\ freepagehd \in [freepages : Addr, nfree : Nat, maxfree : Nat]
  /\ next \in [Addr -> Addr \cup {UNINIT}]
  /\ DOMAIN ppage \subseteq Addr
  /\ \A d \in DOMAIN ppage : ppage[d] \in Ppage
  /\ incs \in 0 .. MaxIncs
  /\ marked \subseteq Addr

(* The inductive invariant behind MemTypeOK. *)
TInv == MInv /\ MemTypeOK /\ BuildInv /\ MapBound

-----------------------------------------------------------------------------
(* ppage_mark_used() on one ppage{}: still a ppage{}, same count. *)
LEMMA SetPflags ==
  ASSUME NEW p \in Ppage
  PROVE  /\ [p EXCEPT !.pflags = p.pflags \cap PFlags] \in Ppage
         /\ [p EXCEPT !.pflags = p.pflags \cap PFlags].mapcount = p.mapcount
BY DEF Ppage

(* k*_inc_mapcount() on one ppage{} whose count is below the bound. *)
LEMMA IncMapcount ==
  ASSUME NEW p \in Ppage, p.mapcount < MaxIncs
  PROVE  /\ [p EXCEPT !.mapcount = p.mapcount + 1] \in Ppage
         /\ [p EXCEPT !.mapcount = p.mapcount + 1].mapcount = p.mapcount + 1
BY DEF Ppage

(* The next page after an aligned address below an aligned end is at most *)
(* the end: curr++ in the inner loop does not step past the zone.        *)
LEMMA NextPage ==
  ASSUME NEW c \in Nat, NEW e \in Nat, c % PAGE_SIZE = 0, e % PAGE_SIZE = 0, c < e
  PROVE  c + PAGE_SIZE <= e
<1>1. PICK kc \in Nat : c = kc * PAGE_SIZE
  BY AlignedMultiple, Zenon
<1>2. PICK ke \in Nat : e = ke * PAGE_SIZE
  BY AlignedMultiple, Zenon
<1>3. kc < ke
  BY <1>1, <1>2
<1>4. QED
  BY <1>1, <1>2, <1>3

(* The descriptors _pzone_ppages_init() zeroes are addresses: the array  *)
(* ends below the bumped start, which is at most the end of the zone.    *)
LEMMA DescInAddr ==
  ASSUME SmallPpage, NEW z \in Zone, 0 < z.start, z.start <= z.end,
         z.start % PAGE_SIZE = 0, z.end % PAGE_SIZE = 0
  PROVE  DescAddrs(z.start, NumPages(z)) \subseteq Addr
<1>1. /\ z.start + NumPages(z) * PPAGE_SIZE <= Placed(z).start
      /\ Placed(z).start <= z.end
  BY PlacedShape
<1>2. z.start \in Nat /\ z.end \in Addr /\ NumPages(z) \in Int
  BY DEF Zone, Addr, NumPages
<1> SUFFICES ASSUME NEW k \in 0 .. NumPages(z) - 1
             PROVE  z.start + k * PPAGE_SIZE \in Addr
  BY DEF DescAddrs
<1>3. k * PPAGE_SIZE <= NumPages(z) * PPAGE_SIZE - PPAGE_SIZE
  BY <1>2
<1>4. Placed(z).start \in Int
  BY <1>1, <1>2, PlacedShape DEF Zone, Addr
<1> QED
  BY <1>1, <1>2, <1>3, <1>4 DEF Addr

(* The first loop of _create_free_page_list() finds its head: a set of   *)
(* zone indices that is not empty has a least element.                    *)
LEMMA HeadFound ==
  ASSUME pzone_num \in Nat, HeadCandidates # {}
  PROVE  LET h == CHOOSE h \in HeadCandidates : \A k \in HeadCandidates : h <= k
         IN  h \in 1 .. pzone_num
<1>1. HeadCandidates \subseteq Nat
  BY DEF HeadCandidates
<1>2. PICK x \in HeadCandidates : \A y \in HeadCandidates : ~(<<y, x>> \in OpToRel(<, Nat))
  BY <1>1, NatLessThanWellFounded, WFMin
<1>3. \A y \in HeadCandidates : ~(y < x)
  BY <1>1, <1>2, Zenon DEF OpToRel
<1>6. \A y \in HeadCandidates : x <= y
  BY <1>1, <1>3
<1>4. \E h \in HeadCandidates : \A k \in HeadCandidates : h <= k
  BY <1>6
<1>5. HeadCandidates \subseteq 1 .. pzone_num
  BY DEF HeadCandidates
<1> QED
  BY <1>4, <1>5

-----------------------------------------------------------------------------
(* A registry call runs only during registration, with curr still NULL,  *)
(* and leaves the memory manager's variables alone.                       *)
LEMMA ZoneStepT ==
  ASSUME TInv, ZoneStep
  PROVE  MemOK' /\ BuildInv' /\ MapBound'
<1>1. boot \in {"new", "remove"}
  <2>1. boot \notin {"new", "remove"} => rm = NoRemove
    BY DEF TInv, MInv
  <2>2. QED
    BY <2>1, ZoneIdle DEF ZoneStep
<1>2. boot' \in {"new", "remove"} /\ UNCHANGED memVars
  BY <1>1, ZoneBoot DEF ZoneStep
<1>3. curr = NULL /\ MemOK /\ MapBound
  BY <1>1 DEF TInv, BuildInv, MemTypeOK, MemOK
<1> QED
  BY <1>2, <1>3 DEF memVars, MemOK, BuildInv, MapBound

(* physmem_init() enters its loop at i = 1, or kpanics. *)
LEMMA InitStepT ==
  ASSUME TInv, PhysmemInit \/ PhysmemInitPanic
  PROVE  MemOK' /\ BuildInv' /\ MapBound'
<1>1. boot \in {"new", "remove"} /\ curr = NULL /\ MemOK /\ MapBound
  BY DEF PhysmemInit, PhysmemInitPanic, TInv, BuildInv, MemTypeOK, MemOK
<1>2. /\ boot' \in {"init", "panic"} /\ bi' \in {bi, 1}
      /\ UNCHANGED <<prev, curr, freepagehd, next, ppage, incs, marked>>
  BY DEF PhysmemInit, PhysmemInitPanic, memVars
<1> QED
  BY <1>1, <1>2 DEF MemOK, BuildInv, MapBound

(* _pzone_ppages_init() with no room: i++ only. *)
LEMMA NoRoomStepT ==
  ASSUME TInv, PpagesInitNoRoom
  PROVE  MemOK' /\ BuildInv' /\ MapBound'
<1>1. /\ boot = "init" /\ curr = NULL /\ MemOK /\ MapBound
      /\ bi <= pzone_num /\ pzone_num \in 0 .. PZONE_MAX_NUM
  BY DEF PpagesInitNoRoom, TInv, BuildInv, MemTypeOK, MemOK, TypeOK
<1>2. /\ boot' = "init" /\ bi' = bi + 1
      /\ UNCHANGED <<prev, curr, freepagehd, next, ppage, incs, marked>>
  BY DEF PpagesInitNoRoom
<1> QED
  BY <1>1, <1>2 DEF MemOK, BuildInv, MapBound

(* _pzone_ppages_init() with room: the zeroed descriptors are addresses  *)
(* and have a map count of zero.                                         *)
LEMMA PlaceStepT ==
  ASSUME SmallPpage, TInv, PpagesInitPlace
  PROVE  MemOK' /\ BuildInv' /\ MapBound'
<1> DEFINE z == pzones[bi]
           new == DescAddrs(z.start, NumPages(z))
<1>1. /\ boot = "init" /\ curr = NULL /\ MemOK /\ MapBound
      /\ bi \in 1 .. pzone_num /\ pzone_num \in 0 .. PZONE_MAX_NUM
      /\ MemShape /\ TypeOK
  BY DEF PpagesInitPlace, TInv, MInv, BuildInv, MemTypeOK, MemOK, TypeOK
<1>2. /\ boot' = "init" /\ bi' = bi + 1
      /\ ppage' = [d \in DOMAIN ppage \cup new |-> IF d \in new THEN ZeroPpage ELSE ppage[d]]
      /\ UNCHANGED <<prev, curr, freepagehd, next, incs, marked>>
  BY DEF PpagesInitPlace
<1>3. z \in Zone
  BY <1>1 DEF TypeOK, Slots
<1>4. /\ 0 < z.start /\ z.start <= z.end
      /\ z.start % PAGE_SIZE = 0 /\ z.end % PAGE_SIZE = 0
  BY <1>1 DEF MemShape
<1>5. new \subseteq Addr
  BY <1>3, <1>4, DescInAddr
<1>6. ZeroPpage \in Ppage /\ ZeroPpage.mapcount = 0 /\ incs \in Nat
  BY <1>1 DEF ZeroPpage, Ppage, MemOK
<1>7. /\ DOMAIN ppage' \subseteq Addr
      /\ \A d \in DOMAIN ppage' : ppage'[d] \in Ppage /\ ppage'[d].mapcount <= incs'
  BY <1>1, <1>2, <1>5, <1>6 DEF MemOK, MapBound
<1>8. bi' \in 0 .. PZONE_MAX_NUM + 1
  BY <1>1, <1>2
<1>9. MemOK'
  BY <1>1, <1>2, <1>7, <1>8 DEF MemOK
<1>10. BuildInv' /\ MapBound'
  BY <1>1, <1>2, <1>7 DEF BuildInv, MapBound
<1> QED
  BY <1>9, <1>10

(* The parts of TInv the step lemmas below use. *)
LEMMA TInvFacts ==
  ASSUME TInv
  PROVE  /\ MemOK /\ MapBound /\ BuildInv /\ TypeOK
         /\ pzone_num \in 0 .. PZONE_MAX_NUM
         /\ boot \notin {"new", "remove"} => MemShape
<1>1. MInv /\ MemTypeOK /\ BuildInv /\ MapBound
  BY DEF TInv
<1>2. TypeOK /\ MemOK
  BY <1>1, Zenon DEF MemTypeOK, MemOK
<1>3. pzone_num \in 0 .. PZONE_MAX_NUM
  BY <1>2, Zenon DEF TypeOK
<1>4. boot \notin {"new", "remove"} => MemShape
  BY <1>1, Zenon DEF MInv
<1> QED
  BY <1>1, <1>2, <1>3, <1>4

(* The page after an aligned address is aligned. *)
LEMMA NextAligned ==
  ASSUME NEW c \in Nat, c % PAGE_SIZE = 0
  PROVE  (c + PAGE_SIZE) % PAGE_SIZE = 0
<1>1. PICK k \in Nat : c = k * PAGE_SIZE
  BY AlignedMultiple, Zenon
<1>2. c + PAGE_SIZE = (k + 1) * PAGE_SIZE /\ k + 1 \in Nat
  BY <1>1
<1>3. \A q \in Nat : (q * PAGE_SIZE) % PAGE_SIZE = 0
  BY Z3T(30)
<1> QED
  BY <1>2, <1>3

(* The first loop of _create_free_page_list(): the head becomes the      *)
(* start of the first usable zone with pages, and i that zone; or kpanic. *)
LEMMA CreateStepT ==
  ASSUME TInv, CreateFreeList \/ CreateFreeListPanic
  PROVE  MemOK' /\ BuildInv' /\ MapBound'
<1>0. boot = "init"
  BY Zenon DEF CreateFreeList, CreateFreeListPanic
<1>1. /\ curr = NULL /\ MemOK /\ MapBound /\ TypeOK
      /\ pzone_num \in 0 .. PZONE_MAX_NUM
  BY <1>0, TInvFacts DEF BuildInv
<1>2. CASE CreateFreeListPanic
  <2>1. boot' = "panic" /\ UNCHANGED memVars
    BY <1>2, Zenon DEF CreateFreeListPanic
  <2> QED
    BY <1>1, <2>1 DEF memVars, MemOK, BuildInv, MapBound
<1>3. CASE CreateFreeList
  <2> DEFINE h == CHOOSE h \in HeadCandidates : \A k \in HeadCandidates : h <= k
  <2>1. /\ HeadCandidates # {}
        /\ freepagehd' = [freepagehd EXCEPT !.freepages = pzones[h].start]
        /\ prev' = pzones[h].start /\ bi' = h /\ boot' = "build"
        /\ UNCHANGED <<pzones, pzone_num, curr, next, ppage, incs, marked>>
    BY <1>3, Zenon DEF CreateFreeList
  <2>2. h \in 1 .. pzone_num
    BY <1>1, <2>1, HeadFound
  <2> HIDE DEF h
  <2>3. pzones[h].start \in Addr
    BY <1>1, <2>2 DEF TypeOK, Slots, Zone
  <2>4. freepagehd' \in [freepages : Addr, nfree : Nat, maxfree : Nat]
    BY <1>1, <2>1, <2>3 DEF MemOK
  <2>5. MemOK'
    BY <1>1, <2>1, <2>2, <2>3, <2>4 DEF MemOK
  <2>6. BuildInv' /\ MapBound'
    BY <1>1, <2>1, <2>2 DEF BuildInv, MapBound
  <2> QED
    BY <2>5, <2>6
<1> QED
  BY <1>2, <1>3

(* The second loop skips a zone that is not usable, or enters a usable   *)
(* one at its start.                                                      *)
LEMMA EnterStepT ==
  ASSUME TInv, BuildSkipZone \/ BuildEnterZone
  PROVE  MemOK' /\ BuildInv' /\ MapBound'
<1>0. boot = "build" /\ bi <= pzone_num /\ curr = NULL
  BY Zenon DEF BuildSkipZone, BuildEnterZone
<1>1. /\ MemOK /\ MapBound /\ TypeOK /\ MemShape
      /\ bi \in 1 .. pzone_num /\ pzone_num \in 0 .. PZONE_MAX_NUM
  BY <1>0, TInvFacts DEF BuildInv
<1>2. CASE BuildSkipZone
  <2>1. bi' = bi + 1 /\ UNCHANGED <<zoneVars, prev, curr, freepagehd, next, ppage, incs, marked>>
    BY <1>2, Zenon DEF BuildSkipZone
  <2> QED
    BY <1>0, <1>1, <2>1 DEF zoneVars, MemOK, BuildInv, MapBound
<1>3. CASE BuildEnterZone
  <2>1. /\ curr' = pzones[bi].start
        /\ UNCHANGED <<zoneVars, bi, prev, freepagehd, next, ppage, incs, marked>>
    BY <1>3, Zenon DEF BuildEnterZone
  <2>2. /\ pzones[bi].start \in Addr
        /\ pzones[bi].start % PAGE_SIZE = 0 /\ pzones[bi].start <= pzones[bi].end
    BY <1>1 DEF TypeOK, Slots, Zone, MemShape
  <2> QED
    BY <1>0, <1>1, <2>1, <2>2 DEF zoneVars, MemOK, BuildInv, MapBound
<1> QED
  BY <1>2, <1>3

(* Inner loop body: prev->next = curr, nfree++, prev = curr, curr++; the *)
(* next page is at most the end of the zone.                             *)
LEMMA LinkStepT ==
  ASSUME TInv, BuildLink
  PROVE  MemOK' /\ BuildInv' /\ MapBound'
<1>0. /\ boot = "build" /\ curr # NULL /\ curr < pzones[bi].end
      /\ next' = [next EXCEPT ![prev] = curr]
      /\ freepagehd' = [freepagehd EXCEPT !.nfree = @ + 1]
      /\ prev' = curr /\ curr' = curr + PAGE_SIZE
      /\ UNCHANGED <<zoneVars, bi, ppage, incs, marked>>
  BY Zenon DEF BuildLink
<1>1. /\ MemOK /\ MapBound /\ TypeOK /\ MemShape
      /\ bi \in 1 .. pzone_num /\ pzone_num \in 0 .. PZONE_MAX_NUM
      /\ curr % PAGE_SIZE = 0
  BY <1>0, TInvFacts DEF BuildInv
<1>3. pzones[bi].end \in Addr /\ pzones[bi].end % PAGE_SIZE = 0
  BY <1>1 DEF TypeOK, Slots, Zone, MemShape
<1>4. curr \in Nat /\ prev \in Addr /\ curr \in Addr
  BY <1>1 DEF MemOK, Addr
<1>5. curr + PAGE_SIZE <= pzones[bi].end
  BY <1>0, <1>1, <1>3, <1>4, NextPage DEF Addr
<1>6. (curr + PAGE_SIZE) % PAGE_SIZE = 0
  BY <1>1, <1>4, NextAligned
<1>7. curr' \in Addr /\ curr' % PAGE_SIZE = 0 /\ curr' <= pzones'[bi'].end
  BY <1>0, <1>3, <1>4, <1>5, <1>6 DEF Addr, zoneVars
<1>8. next' \in [Addr -> Addr \cup {UNINIT}]
  BY <1>0, <1>1, <1>4 DEF MemOK
<1>9. freepagehd' \in [freepages : Addr, nfree : Nat, maxfree : Nat]
  BY <1>0, <1>1 DEF MemOK
<1>10. MemOK'
  BY <1>0, <1>1, <1>4, <1>7, <1>8, <1>9 DEF MemOK, zoneVars
<1>11. BuildInv' /\ MapBound'
  BY <1>0, <1>1, <1>7 DEF BuildInv, MapBound, zoneVars
<1> QED
  BY <1>10, <1>11

(* The inner loop exits to the next zone, or the outer loop ends with    *)
(* prev->next = NULL and maxfree = nfree.                                 *)
LEMMA ExitStepT ==
  ASSUME TInv, BuildZoneEnd \/ BuildDone
  PROVE  MemOK' /\ BuildInv' /\ MapBound'
<1>0. boot = "build"
  BY Zenon DEF BuildZoneEnd, BuildDone
<1>1. /\ MemOK /\ MapBound /\ BuildInv /\ TypeOK
      /\ pzone_num \in 0 .. PZONE_MAX_NUM
  BY TInvFacts
<1>2. CASE BuildZoneEnd
  <2>1. curr # NULL /\ bi' = bi + 1 /\ curr' = NULL
        /\ UNCHANGED <<zoneVars, prev, freepagehd, next, ppage, incs, marked>>
    BY <1>2, Zenon DEF BuildZoneEnd
  <2>2. bi \in 1 .. pzone_num
    BY <1>1, <2>1 DEF BuildInv
  <2> QED
    BY <1>0, <1>1, <2>1, <2>2 DEF zoneVars, MemOK, BuildInv, MapBound, NULL, Addr
<1>3. CASE BuildDone
  <2>1. /\ bi > pzone_num
        /\ next' = [next EXCEPT ![prev] = NULL]
        /\ freepagehd' = [freepagehd EXCEPT !.maxfree = freepagehd.nfree]
        /\ boot' = "ready"
        /\ UNCHANGED <<bi, prev, curr, ppage, incs, marked>>
    BY <1>3, Zenon DEF BuildDone
  <2>2. curr = NULL
    BY <1>1, <2>1 DEF BuildInv
  <2>3. NULL \in Addr
    BY DEF NULL, Addr
  <2>4. next' \in [Addr -> Addr \cup {UNINIT}]
        /\ freepagehd' \in [freepages : Addr, nfree : Nat, maxfree : Nat]
    BY <1>1, <2>1, <2>3 DEF MemOK
  <2> QED
    BY <1>1, <2>1, <2>2, <2>4 DEF MemOK, BuildInv, MapBound
<1> QED
  BY <1>2, <1>3

(* The pages upper layers look up are addresses. *)
LEMMA LookupInAddr ==
  ASSUME TypeOK
  PROVE  LookupAddrs \subseteq Addr
<1>1. Covered \subseteq Addr
  BY DEF TypeOK, Covered, ZoneAddrs, Slots, Zone, Addr
<1> QED
  BY <1>1 DEF LookupAddrs, UsablePages, Unbacked

(* ppage_mark_used(a) keeps the descriptors ppage{}s with their counts, *)
(* and records an address.                                               *)
LEMMA MarkStepT ==
  ASSUME TInv, NEW a \in LookupAddrs, PpageMarkUsed(a)
  PROVE  MemOK' /\ BuildInv' /\ MapBound'
<1> DEFINE k == KvirtToPpage(a)
<1>0. /\ boot = "ready"
      /\ UNCHANGED <<zoneVars, bi, prev, curr, freepagehd, next, incs>>
  BY Zenon DEF PpageMarkUsed
<1>1. MemOK /\ MapBound /\ TypeOK /\ curr = NULL
  BY <1>0, TInvFacts DEF BuildInv
<1>2. a \in Addr
  BY <1>1, LookupInAddr
<1>3. \/ UNCHANGED <<ppage, marked>>
      \/ ppage' = [ppage EXCEPT ![k].pflags = @ \cap PFlags] /\ marked' = marked \cup {a}
  BY Zenon DEF PpageMarkUsed
<1> HIDE DEF k
<1>4. CASE UNCHANGED <<ppage, marked>>
  BY <1>0, <1>1, <1>4 DEF MemOK, BuildInv, MapBound, zoneVars
<1>5. CASE ppage' = [ppage EXCEPT ![k].pflags = @ \cap PFlags] /\ marked' = marked \cup {a}
  <2>1. DOMAIN ppage' = DOMAIN ppage
    BY <1>5
  <2>2. ASSUME NEW d \in DOMAIN ppage
        PROVE  ppage'[d] \in Ppage /\ ppage'[d].mapcount = ppage[d].mapcount
    <3>1. ppage[d] \in Ppage
      BY <1>1 DEF MemOK
    <3>2. CASE d = k
      <4>1. ppage'[d] = [ppage[d] EXCEPT !.pflags = ppage[d].pflags \cap PFlags]
        BY <1>5, <3>2
      <4> QED
        BY <3>1, <4>1, SetPflags
    <3>3. CASE d # k
      BY <1>5, <3>1, <3>3
    <3> QED
      BY <3>2, <3>3
  <2>3. MemOK'
    BY <1>0, <1>1, <1>2, <1>5, <2>1, <2>2 DEF MemOK, zoneVars
  <2>4. BuildInv' /\ MapBound'
    BY <1>0, <1>1, <2>1, <2>2 DEF BuildInv, MapBound, zoneVars
  <2> QED
    BY <2>3, <2>4
<1> QED
  BY <1>3, <1>4, <1>5

(* kvirt_inc_mapcount(a), for any address a (kphys_inc_mapcount() too):  *)
(* a count stays at most the number of increments, hence below the bound. *)
LEMMA IncStepT ==
  ASSUME TInv, NEW a, KvirtIncMapcount(a)
  PROVE  MemOK' /\ BuildInv' /\ MapBound'
<1> DEFINE k == KvirtToPpage(a)
<1>0. /\ boot = "ready" /\ incs < MaxIncs /\ incs' = incs + 1
      /\ UNCHANGED <<pzones, pzone_num, bi, prev, curr, freepagehd, next, marked>>
  BY Zenon DEF KvirtIncMapcount
<1>1. MemOK /\ MapBound /\ TypeOK /\ curr = NULL
  BY <1>0, TInvFacts DEF BuildInv
<1>2. incs \in Nat /\ incs' \in 0 .. MaxIncs
  BY <1>0, <1>1 DEF MemOK
<1>3. \/ boot' = "panic" /\ ppage' = ppage
      \/ ppage' = [ppage EXCEPT ![k].mapcount = @ + 1] /\ boot' = boot
  BY Zenon DEF KvirtIncMapcount
<1> HIDE DEF k
<1>4. DOMAIN ppage' = DOMAIN ppage /\ boot' \in {"ready", "panic"}
  BY <1>0, <1>3
<1>5. ASSUME NEW d \in DOMAIN ppage
      PROVE  ppage'[d] \in Ppage /\ ppage'[d].mapcount <= incs'
  <2>1. ppage[d] \in Ppage /\ ppage[d].mapcount <= incs
    BY <1>1 DEF MemOK, MapBound
  <2>2. ppage[d].mapcount \in Nat
    BY <2>1 DEF Ppage
  <2>3. CASE ppage' = [ppage EXCEPT ![k].mapcount = @ + 1] /\ d = k
    <3>1. ppage'[d] = [ppage[d] EXCEPT !.mapcount = ppage[d].mapcount + 1]
      BY <2>3
    <3>2. ppage[d].mapcount < MaxIncs
      BY <1>0, <1>2, <2>1, <2>2
    <3> QED
      BY <1>0, <1>2, <2>1, <2>2, <3>1, <3>2, IncMapcount
  <2>4. CASE ppage' = [ppage EXCEPT ![k].mapcount = @ + 1] /\ d # k
    BY <1>0, <1>2, <2>1, <2>2, <2>4
  <2>5. CASE ppage' = ppage
    BY <1>0, <1>2, <2>1, <2>2, <2>5
  <2> QED
    BY <1>3, <2>3, <2>4, <2>5
<1>6. MemOK'
  <2>1. DOMAIN ppage' \subseteq Addr /\ \A d \in DOMAIN ppage' : ppage'[d] \in Ppage
    BY <1>1, <1>4, <1>5 DEF MemOK
  <2>2. /\ bi' \in 0 .. PZONE_MAX_NUM + 1 /\ prev' \in Addr /\ curr' \in Addr
        /\ freepagehd' \in [freepages : Addr, nfree : Nat, maxfree : Nat]
        /\ next' \in [Addr -> Addr \cup {UNINIT}] /\ marked' \subseteq Addr
    BY <1>0, <1>1 DEF MemOK
  <2> QED
    BY <1>2, <2>1, <2>2, Zenon DEF MemOK
<1>7. BuildInv'
  BY <1>0, <1>1, <1>4 DEF BuildInv
<1>8. MapBound'
  BY <1>4, <1>5 DEF MapBound
<1> QED
  BY <1>6, <1>7, <1>8

(* halt_loop(), and a stutter, change nothing. *)
LEMMA HaltStepT ==
  ASSUME TInv, HaltLoop \/ UNCHANGED vars
  PROVE  MemOK' /\ BuildInv' /\ MapBound'
<1>1. UNCHANGED vars
  BY Zenon DEF HaltLoop
<1>2. UNCHANGED <<pzones, pzone_num, boot, bi, prev, curr, freepagehd, next, ppage, incs, marked>>
  BY <1>1 DEF vars, zoneVars, memVars
<1>3. MemOK /\ BuildInv /\ MapBound
  BY TInvFacts
<1> QED
  BY <1>2, <1>3 DEF MemOK, BuildInv, MapBound

-----------------------------------------------------------------------------
(* Every step of boot and of the steady state, or a stutter, keeps TInv. *)
LEMMA TStep ==
  ASSUME NoWrap, SmallPpage, TInv, [MemNext]_vars
  PROVE  TInv'
<1>1. MInv'
  BY MInvStep DEF TInv
<1>2. MemOK' /\ BuildInv' /\ MapBound'
  <2>1. CASE ZoneStep
    BY <2>1, ZoneStepT
  <2>2. CASE PhysmemInitPanic \/ PhysmemInit
    BY <2>2, InitStepT
  <2>3. CASE PpagesInitNoRoom
    BY <2>3, NoRoomStepT
  <2>4. CASE PpagesInitPlace
    BY <2>4, PlaceStepT
  <2>5. CASE CreateFreeListPanic \/ CreateFreeList
    BY <2>5, CreateStepT
  <2>6. CASE BuildSkipZone \/ BuildEnterZone
    BY <2>6, EnterStepT
  <2>7. CASE BuildLink
    BY <2>7, LinkStepT
  <2>8. CASE BuildZoneEnd \/ BuildDone
    BY <2>8, ExitStepT
  <2>9. CASE \E a \in LookupAddrs : PpageMarkUsed(a)
    BY <2>9, MarkStepT
  <2>10. CASE \E a : KvirtIncMapcount(a)
    BY <2>10, IncStepT
  <2>11. CASE HaltLoop \/ UNCHANGED vars
    BY <2>11, HaltStepT
  <2>12. QED
    <3>1. (\E a \in LookupAddrs : KvirtIncMapcount(a)) => \E a : KvirtIncMapcount(a)
      BY Zenon
    <3>2. (\E p \in LookupPhys : KphysIncMapcount(p)) => \E a : KvirtIncMapcount(a)
      BY Zenon DEF KphysIncMapcount
    <3>3. QED
      BY <2>1, <2>2, <2>3, <2>4, <2>5, <2>6, <2>7, <2>8, <2>9, <2>10, <2>11,
         <3>1, <3>2 DEF MemNext
<1>3. TypeOK'
  BY <1>1 DEF MInv
<1> QED
  BY <1>1, <1>2, <1>3, Zenon DEF TInv, MemTypeOK, MemOK

(* Boot begins with NULL locals, an unwritten free list and no ppage{}s. *)
LEMMA MemInitT ==
  ASSUME MemInit
  PROVE  TInv
<1>1. MInv
  BY MemInitMInv
<1>2. TypeOK
  BY <1>1 DEF MInv
<1>3. MemOK
  BY DEF MemInit, MemOK, NULL, Addr, UNINIT
<1>4. BuildInv /\ MapBound
  BY DEF MemInit, Init, BuildInv, MapBound, NULL
<1> QED
  BY <1>1, <1>2, <1>3, <1>4, Zenon DEF TInv, MemTypeOK, MemOK

(* TInv holds in every state of boot and the steady state, for every     *)
(* size of memory and of zone table: _create_free_page_list()'s curr     *)
(* never steps past the end of the zone it walks, and no kvirt/kphys     *)
(* increment takes a map count past the number of increments made.       *)
LEMMA TInvInvariant == NoWrap /\ SmallPpage => (MemSpec => []TInv)
<1> SUFFICES ASSUME NoWrap, SmallPpage PROVE MemSpec => []TInv
  OBVIOUS
<1>1. MemInit => TInv
  BY MemInitT
<1>2. TInv /\ [MemNext]_vars => TInv'
  BY TStep
<1> QED
  BY <1>1, <1>2, PTL DEF MemSpec

(* MemTypeOK holds in every state: the loop locals and the free-list head *)
(* of _create_free_page_list() are addresses, every free-list word holds *)
(* an address or is unwritten, every ppage{} sits at an address and its  *)
(* map count stays within the bound of the increments.                    *)
THEOREM MemTypeCorrect == NoWrap /\ SmallPpage => (MemSpec => []MemTypeOK)
<1> SUFFICES ASSUME NoWrap, SmallPpage PROVE MemSpec => []MemTypeOK
  OBVIOUS
<1>1. TInv => MemTypeOK
  BY DEF TInv
<1> QED
  BY <1>1, TInvInvariant, PTL

=============================================================================
