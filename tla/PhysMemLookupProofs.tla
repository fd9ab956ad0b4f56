------------------------- MODULE PhysMemLookupProofs -------------------------
(***************************************************************************)
(* Proof that kvirt_to_ppage() finds, for every page of a usable zone, a   *)
(* ppage{} that physmem_init() zeroed, inside that zone's own array, and   *)
(* a different one for every page.                                          *)
(***************************************************************************)
EXTENDS PhysMemProofs

(***************************************************************************)
(* What physmem_init() leaves behind for kvirt_to_ppage(): a placed array *)
(* starts at an aligned address and all its ArrayLen ppage{}s were        *)
(* zeroed, and every zone the array loop has passed that is still usable  *)
(* has an array (a zone with no room for one had USABLE cleared).         *)
(***************************************************************************)
ArrayInv ==
  /\ boot \notin {"new", "remove"} =>
       \A j \in 1 .. pzone_num :
         pzones[j].ppages # NULL =>
           /\ pzones[j].ppages % PAGE_SIZE = 0
           /\ DescAddrs(pzones[j].ppages, ArrayLen(j)) \subseteq DOMAIN ppage
  /\ boot = "init" =>
       \A j \in 1 .. pzone_num : j < bi /\ pzones[j].usable => pzones[j].ppages # NULL
  /\ boot \in {"build", "ready"} =>
       \A j \in 1 .. pzone_num : pzones[j].usable => pzones[j].ppages # NULL

(* The inductive invariant behind LookupInBounds. *)
LInv == MInv /\ ArrayInv


USE PpageSizeAssumption, MaxIncsAssumption, PageSizeAssumption, ModAssumption,
    MaxNumAssumption, VirtBaseAssumption, PhysAddrsAssumption, MaxCallsAssumption

-----------------------------------------------------------------------------
(* The steps after the array loop leave the ppage{} addresses alone, and  *)
(* reach the free-list build only from its start or from within it.      *)
LEMMA QuietArrayFacts ==
  ASSUME QuietStep
  PROVE  /\ DOMAIN ppage' = DOMAIN ppage
         /\ boot' \in {"build", "ready"} =>
              \/ boot \in {"build", "ready"}
              \/ boot = "init" /\ bi > pzone_num
<1>1. CASE CreateFreeListPanic \/ CreateFreeList
  BY <1>1, Zenon DEF CreateFreeListPanic, CreateFreeList, memVars
<1>2. CASE BuildSkipZone \/ BuildEnterZone \/ BuildLink \/ BuildZoneEnd \/ BuildDone
  BY <1>2 DEF BuildSkipZone, BuildEnterZone, BuildLink, BuildZoneEnd, BuildDone, zoneVars
<1>3. CASE \E a \in LookupAddrs : PpageMarkUsed(a)
  BY <1>3 DEF PpageMarkUsed
<1>4. CASE \E a : KvirtIncMapcount(a)
  BY <1>4 DEF KvirtIncMapcount
<1>5. CASE HaltLoop
  BY <1>5 DEF HaltLoop, vars, memVars, zoneVars
<1>6. QED
  <2>1. (\E a \in LookupAddrs : KvirtIncMapcount(a)) => \E a : KvirtIncMapcount(a)
    BY Zenon
  <2>2. (\E p \in LookupPhys : KphysIncMapcount(p)) => \E a : KvirtIncMapcount(a)
    BY Zenon DEF KphysIncMapcount
  <2>3. QED
    BY <1>1, <1>2, <1>3, <1>4, <1>5, <2>1, <2>2 DEF QuietStep

(* A quiet step keeps what physmem_init() left behind. *)
LEMMA QuietStepArray ==
  ASSUME LInv, QuietStep
  PROVE  ArrayInv'
<1>1. /\ boot \notin {"new", "remove"}
      /\ boot' \in {"build", "ready", "panic"}
      /\ UNCHANGED <<pzones, pzone_num, rm, calls, lastEnd, registered, reserved>>
  BY QuietFacts
<1>2. /\ DOMAIN ppage' = DOMAIN ppage
      /\ boot' \in {"build", "ready"} =>
           \/ boot \in {"build", "ready"}
           \/ boot = "init" /\ bi > pzone_num
  BY QuietArrayFacts
<1>3. \A j \in 1 .. pzone_num : ArrayLen(j)' = ArrayLen(j)
  BY <1>1 DEF ArrayLen
<1>4. pzone_num \in Nat
  BY DEF LInv, MInv, TypeOK
<1>5. ASSUME NEW j \in 1 .. pzone_num, pzones[j].ppages # NULL
      PROVE  /\ pzones'[j].ppages % PAGE_SIZE = 0
             /\ DescAddrs(pzones'[j].ppages, ArrayLen(j)') \subseteq DOMAIN ppage'
  <2>1. /\ pzones[j].ppages % PAGE_SIZE = 0
        /\ DescAddrs(pzones[j].ppages, ArrayLen(j)) \subseteq DOMAIN ppage
    BY <1>1, <1>5 DEF LInv, ArrayInv
  <2> QED BY <1>1, <1>2, <1>3, <2>1
<1>6. boot' \in {"build", "ready"} =>
        \A j \in 1 .. pzone_num : pzones[j].usable => pzones[j].ppages # NULL
  <2>1. boot = "init" => bi \in Nat
    BY DEF LInv, MInv
  <2> QED BY <1>2, <1>4, <2>1 DEF LInv, ArrayInv
<1>7. QED
  BY <1>1, <1>5, <1>6 DEF ArrayInv

(* A registry call happens only during registration, where nothing is   *)
(* claimed.                                                               *)
LEMMA ZoneStepArray ==
  ASSUME LInv, ZoneStep
  PROVE  ArrayInv'
<1>1. rm = NoRemove => boot \in {"new", "remove"}
  <2>1. SUFFICES ASSUME rm = NoRemove, boot \notin {"new", "remove"} PROVE FALSE
    OBVIOUS
  <2>2. ~ZoneNext
    BY <2>1, ZoneIdle
  <2> QED BY <2>2 DEF ZoneStep
<1>2. boot \in {"new", "remove"}
  BY <1>1 DEF LInv, MInv
<1>3. boot' \in {"new", "remove"}
  BY <1>2, ZoneBoot DEF ZoneStep
<1> QED BY <1>3 DEF ArrayInv

(* physmem_init() starts the array loop at 1, or panics, with no arrays. *)
LEMMA InitStepArray ==
  ASSUME LInv, PhysmemInit \/ PhysmemInitPanic
  PROVE  ArrayInv'
<1>1. /\ boot \in {"new", "remove"} /\ NullPpages /\ TypeOK
      /\ boot' \in {"init", "panic"}
      /\ boot' = "init" => bi' = 1
      /\ UNCHANGED <<pzones, pzone_num>>
  BY Zenon DEF LInv, MInv, PhysmemInit, PhysmemInitPanic
<1>2. \A j \in 1 .. pzone_num : pzones'[j].ppages = NULL
  BY <1>1 DEF NullPpages, TypeOK, Slots
<1> QED BY <1>1, <1>2 DEF ArrayInv

(* A zone with no room loses USABLE and gets no array. *)
LEMMA NoRoomStepArray ==
  ASSUME LInv, PpagesInitNoRoom
  PROVE  ArrayInv'
<1>1. /\ boot = "init" /\ TypeOK /\ bi \in 1 .. pzone_num /\ bi \in Slots
      /\ pzone_num \in Nat
  BY DEF LInv, MInv, PpagesInitNoRoom, TypeOK, Slots
<1>2. /\ pzones' = [pzones EXCEPT ![bi].usable = FALSE]
      /\ UNCHANGED <<pzone_num, boot, ppage>>
      /\ bi' = bi + 1
  BY DEF PpagesInitNoRoom
<1>3. \A j \in 1 .. pzone_num :
        /\ pzones'[j].ppages = pzones[j].ppages
        /\ ArrayLen(j)' = ArrayLen(j)
        /\ pzones'[j].usable => j # bi /\ pzones[j].usable
  BY <1>1, <1>2 DEF TypeOK, Slots, ArrayLen
<1> QED BY <1>1, <1>2, <1>3 DEF LInv, ArrayInv

(***************************************************************************)
(* _pzone_ppages_init() zeroes NumPages ppage{}s at the zone's aligned    *)
(* start and makes that start the array base, so the array it records is  *)
(* the one it zeroed; the other zones and the other ppage{}s are kept.    *)
(***************************************************************************)
LEMMA PlaceStepArray ==
  ASSUME SmallPpage, LInv, PpagesInitPlace
  PROVE  ArrayInv'
<1> DEFINE z == pzones[bi]
           new == DescAddrs(z.start, NumPages(z))
<1>1. /\ boot = "init" /\ MemShape /\ TypeOK
      /\ bi \in 1 .. pzone_num /\ bi \in Slots /\ pzone_num \in 0 .. PZONE_MAX_NUM
  BY DEF LInv, MInv, PpagesInitPlace, TypeOK, Slots
<1>2. /\ pzones' = [pzones EXCEPT ![bi] = Placed(z)]
      /\ ppage' = [d \in DOMAIN ppage \cup new |->
                     IF d \in new THEN ZeroPpage ELSE ppage[d]]
      /\ UNCHANGED <<pzone_num, boot>>
      /\ bi' = bi + 1
  BY Zenon DEF PpagesInitPlace
<1>3. DOMAIN ppage' = DOMAIN ppage \cup new
  BY <1>2
<1>4. /\ z \in Zone /\ 0 < z.start /\ z.start <= z.end
      /\ z.start % PAGE_SIZE = 0 /\ z.end % PAGE_SIZE = 0
  BY <1>1 DEF MemShape, TypeOK
<1>5. /\ Placed(z) \in Zone
      /\ Placed(z).ppages = z.start
      /\ Placed(z).end = z.end
  BY <1>4, PlacedShape
<1>6. pzones'[bi] = Placed(z) /\ \A j \in Slots \ {bi} : pzones'[j] = pzones[j]
  BY <1>1, <1>2 DEF TypeOK
<1>7. Placed(z).usable = z.usable
  BY <1>4 DEF Placed, Zone
<1>8. ASSUME NEW j \in 1 .. pzone_num, pzones'[j].ppages # NULL
      PROVE  /\ pzones'[j].ppages % PAGE_SIZE = 0
             /\ DescAddrs(pzones'[j].ppages, ArrayLen(j)') \subseteq DOMAIN ppage'
  <2>1. CASE j = bi
    <3>1. pzones'[j].ppages = z.start /\ ArrayLen(j)' = NumPages(z)
      BY <2>1, <1>5, <1>6 DEF ArrayLen, NumPages
    <3> QED BY <3>1, <1>3, <1>4
  <2>2. CASE j # bi
    <3>1. pzones'[j] = pzones[j] /\ ArrayLen(j)' = ArrayLen(j)
      BY <2>2, <1>1, <1>6 DEF Slots, ArrayLen
    <3>2. /\ pzones[j].ppages % PAGE_SIZE = 0
          /\ DescAddrs(pzones[j].ppages, ArrayLen(j)) \subseteq DOMAIN ppage
      BY <1>1, <1>8, <3>1 DEF LInv, ArrayInv
    <3> QED BY <1>3, <3>1, <3>2
  <2> QED BY <2>1, <2>2
<1>9. ASSUME NEW j \in 1 .. pzone_num, j < bi', pzones'[j].usable
      PROVE  pzones'[j].ppages # NULL
  <2>1. CASE j = bi
    BY <2>1, <1>4, <1>5, <1>6 DEF NULL
  <2>2. CASE j # bi
    <3>1. pzones'[j] = pzones[j] /\ j < bi
      BY <2>2, <1>1, <1>2, <1>6, <1>9 DEF Slots
    <3> QED BY <1>1, <1>9, <3>1 DEF LInv, ArrayInv
  <2> QED BY <2>1, <2>2
<1> QED BY <1>1, <1>2, <1>8, <1>9 DEF ArrayInv

(* Every step of boot and of the steady state, or a stutter, keeps LInv. *)
LEMMA LInvStep ==
  ASSUME NoWrap, SmallPpage, LInv, [MemNext]_vars
  PROVE  LInv'
<1>1. MInv'
  BY MInvStep DEF LInv
<1>2. ArrayInv'
  <2>1. CASE ZoneStep
    BY <2>1, ZoneStepArray
  <2>2. CASE PhysmemInitPanic \/ PhysmemInit
    BY <2>2, InitStepArray
  <2>3. CASE PpagesInitNoRoom
    BY <2>3, NoRoomStepArray
  <2>4. CASE PpagesInitPlace
    BY <2>4, PlaceStepArray
  <2>5. CASE QuietStep
    BY <2>5, QuietStepArray
  <2>6. CASE UNCHANGED vars
    BY <2>6 DEF vars, zoneVars, memVars, LInv, ArrayInv, ArrayLen, DescAddrs
  <2> QED BY <2>1, <2>2, <2>3, <2>4, <2>5, <2>6 DEF MemNext, QuietStep
<1> QED BY <1>1, <1>2 DEF LInv

(* Boot begins with no arrays. *)
LEMMA MemInitLInv ==
  ASSUME MemInit
  PROVE  LInv
<1>1. MInv
  BY MemInitMInv
<1>2. boot = "new"
  BY DEF MemInit, Init
<1> QED BY <1>1, <1>2 DEF LInv, ArrayInv

-----------------------------------------------------------------------------
(* Dividing a multiple of m by m gives the multiplier back. *)
LEMMA DivExact ==
  ASSUME NEW k \in Int, NEW m \in Nat \ {0}
  PROVE  (k * m) \div m = k
<1>1. k * m \in Int
  OBVIOUS
<1>2. (k * m) \div m \in Int /\ (k * m) % m = k * m - m * ((k * m) \div m)
      /\ (k * m) % m \in 0 .. m - 1
  BY <1>1, ModQuotient, Zenon
<1>3. m * (k - (k * m) \div m) \in 0 .. m - 1
  BY <1>2
<1>4. k - (k * m) \div m = 0
  <2> DEFINE d == k - (k * m) \div m
  <2>1. d \in Int /\ m * d \in 0 .. m - 1
    BY <1>2, <1>3
  <2>2. CASE d >= 1
    <3>1. m * d >= m
      BY <2>1, <2>2
    <3> QED BY <2>1, <3>1
  <2>3. CASE d <= -1
    <3>1. m * d <= -m
      BY <2>1, <2>3
    <3> QED BY <2>1, <3>1
  <2> QED BY <2>1, <2>2, <2>3
<1> QED BY <1>2, <1>4

(***************************************************************************)
(* The index kvirt_to_ppage() computes for an aligned address a of a zone *)
(* [s, e) whose array starts at an aligned p <= s: a whole number of pages *)
(* from s, and fewer than the ArrayLen = (e - p) / PAGE_SIZE descriptors. *)
(***************************************************************************)
LEMMA IndexFacts ==
  ASSUME NEW p \in Nat, NEW s \in Nat, NEW a \in Nat, NEW e \in Nat,
         p % PAGE_SIZE = 0, s % PAGE_SIZE = 0, a % PAGE_SIZE = 0,
         e % PAGE_SIZE = 0, p <= s, s <= a, a < e
  PROVE  /\ (a - s) \div PAGE_SIZE \in Nat
         /\ (a - s) \div PAGE_SIZE < (e - p) \div PAGE_SIZE
         /\ a - s = ((a - s) \div PAGE_SIZE) * PAGE_SIZE
<1>1. PICK kp \in Nat : p = kp * PAGE_SIZE
  BY AlignedMultiple, Zenon
<1>2. PICK ks \in Nat : s = ks * PAGE_SIZE
  BY AlignedMultiple, Zenon
<1>3. PICK ka \in Nat : a = ka * PAGE_SIZE
  BY AlignedMultiple, Zenon
<1>4. PICK ke \in Nat : e = ke * PAGE_SIZE
  BY AlignedMultiple, Zenon
<1>5. a - s = (ka - ks) * PAGE_SIZE /\ e - p = (ke - kp) * PAGE_SIZE
  BY <1>1, <1>2, <1>3, <1>4
<1>6. (a - s) \div PAGE_SIZE = ka - ks /\ (e - p) \div PAGE_SIZE = ke - kp
  <2>1. ka - ks \in Int /\ ke - kp \in Int
    OBVIOUS
  <2>2. ((ka - ks) * PAGE_SIZE) \div PAGE_SIZE = ka - ks
    BY <2>1, DivExact
  <2>3. ((ke - kp) * PAGE_SIZE) \div PAGE_SIZE = ke - kp
    BY <2>1, DivExact
  <2> QED BY <1>5, <2>2, <2>3
<1>7. kp <= ks /\ ks <= ka /\ ka < ke
  <2>1. kp * PAGE_SIZE <= ks * PAGE_SIZE /\ ks * PAGE_SIZE <= ka * PAGE_SIZE
        /\ ka * PAGE_SIZE < ke * PAGE_SIZE
    BY <1>1, <1>2, <1>3, <1>4
  <2>2. \A x, y \in Nat : x * PAGE_SIZE <= y * PAGE_SIZE => x <= y
    <3> SUFFICES ASSUME NEW x \in Nat, NEW y \in Nat, x * PAGE_SIZE <= y * PAGE_SIZE,
                        y < x
                 PROVE  FALSE
      OBVIOUS
    <3>1. (x - y) * PAGE_SIZE >= PAGE_SIZE
      OBVIOUS
    <3> QED BY <3>1
  <2>3. \A x, y \in Nat : x * PAGE_SIZE < y * PAGE_SIZE => x < y
    OBVIOUS
  <2> QED BY <2>1, <2>2, <2>3
<1> QED BY <1>5, <1>6, <1>7

(***************************************************************************)
(* After physmem_init() the zones are separated, so the zone pzone_find() *)
(* returns for an address is the one zone that contains it.              *)
(***************************************************************************)
LEMMA FindUnique ==
  ASSUME MInv, boot \notin {"new", "remove"}, NEW k \in 1 .. pzone_num,
         NEW a \in Int, Contains(k, a)
  PROVE  PzoneFind(a) = k
<1>1. MemShape /\ TypeOK
  BY DEF MInv
<1>2. ASSUME NEW j \in 1 .. pzone_num, Contains(j, a)
      PROVE  j = k
  <2> SUFFICES ASSUME j # k PROVE FALSE
    OBVIOUS
  <2>1. pzones[j].end <= Lo(k) \/ pzones[k].end <= Lo(j)
    BY <1>1 DEF MemShape
  <2>2. /\ Lo(k) <= pzones[k].start /\ Lo(j) <= pzones[j].start
        /\ pzones[j].start \in Nat /\ pzones[j].end \in Nat /\ Lo(j) \in Nat
        /\ pzones[k].start \in Nat /\ pzones[k].end \in Nat /\ Lo(k) \in Nat
    <3>1. j \in Slots /\ k \in Slots
      BY <1>1 DEF TypeOK, Slots
    <3> QED BY <1>1, <3>1 DEF MemShape, Lo, TypeOK, Zone, Addr
  <2> QED BY <1>2, <2>1, <2>2 DEF Contains
<1>3. \E j \in 1 .. pzone_num : Contains(j, a)
  OBVIOUS
<1>4. Contains(k, a) /\ \A i \in 1 .. k - 1 : ~Contains(i, a)
  <2>1. \A i \in 1 .. k - 1 : i \in 1 .. pzone_num /\ i # k
    BY <1>1 DEF TypeOK
  <2> QED BY <1>2, <2>1
<1> DEFINE P(j) == Contains(j, a) /\ \A i \in 1 .. j - 1 : ~Contains(i, a)
<1>5. PzoneFind(a) = CHOOSE j \in 1 .. pzone_num : P(j)
  BY <1>3 DEF PzoneFind
<1>6. (CHOOSE j \in 1 .. pzone_num : P(j)) \in 1 .. pzone_num
      /\ P(CHOOSE j \in 1 .. pzone_num : P(j))
  BY <1>4, Zenon
<1> QED BY <1>2, <1>5, <1>6

(* The index kvirt_to_ppage() computes: pages from the bumped start. *)
PageIndex(a) == (a - pzones[PzoneFind(a)].start) \div PAGE_SIZE

(***************************************************************************)
(* For a page a of a usable zone, once boot is over: pzone_find() finds   *)
(* its zone, which has an array; kvirt_to_ppage(a) is the PageIndex(a)-th  *)
(* ppage{} of it, one physmem_init() zeroed, inside the array, and below  *)
(* the bumped start.                                                        *)
(***************************************************************************)
LEMMA LookupAt ==
  ASSUME LInv, boot = "ready", NEW a \in UsablePages
  PROVE  /\ PzoneFind(a) \in 1 .. pzone_num
         /\ pzones[PzoneFind(a)].ppages \in Nat
         /\ pzones[PzoneFind(a)].ppages # NULL
         /\ pzones[PzoneFind(a)].start \in Nat
         /\ pzones[PzoneFind(a)].start <= pzones[PzoneFind(a)].end
         /\ PageIndex(a) \in Nat
         /\ a - pzones[PzoneFind(a)].start = PageIndex(a) * PAGE_SIZE
         /\ KvirtToPpage(a) = pzones[PzoneFind(a)].ppages + PageIndex(a) * PPAGE_SIZE
         /\ KvirtToPpage(a) \in DOMAIN ppage
         /\ KvirtToPpage(a) \in ArrayBytes(PzoneFind(a))
         /\ pzones[PzoneFind(a)].ppages <= KvirtToPpage(a)
         /\ KvirtToPpage(a) < pzones[PzoneFind(a)].start
<1>1. MInv /\ MemShape /\ TypeOK /\ pzone_num \in 0 .. PZONE_MAX_NUM
  BY DEF LInv, MInv, TypeOK
<1>2. PICK k \in 1 .. pzone_num : a \in ZoneAddrs(pzones[k])
  BY DEF UsablePages, Covered
<1>3. /\ k \in Slots /\ pzones[k] \in Zone
      /\ pzones[k].start \in Nat /\ pzones[k].end \in Nat /\ pzones[k].ppages \in Nat
  BY <1>1 DEF TypeOK, Slots, Zone, Addr
<1>4. a \in Nat /\ Contains(k, a)
  BY <1>2, <1>3 DEF ZoneAddrs, Contains
<1>5. PzoneFind(a) = k
  BY <1>1, <1>4, FindUnique
<1>6. pzones[k].usable /\ a % PAGE_SIZE = 0
  BY <1>5 DEF UsablePages
<1>7. /\ pzones[k].ppages # NULL
      /\ pzones[k].ppages % PAGE_SIZE = 0
      /\ DescAddrs(pzones[k].ppages, ArrayLen(k)) \subseteq DOMAIN ppage
  BY <1>6 DEF LInv, ArrayInv
<1>8. /\ pzones[k].start % PAGE_SIZE = 0 /\ pzones[k].end % PAGE_SIZE = 0
      /\ pzones[k].ppages <= pzones[k].start
      /\ pzones[k].ppages + ArrayLen(k) * PPAGE_SIZE <= pzones[k].start
      /\ pzones[k].start <= pzones[k].end
  BY <1>1, <1>7 DEF MemShape
<1> DEFINE p == pzones[k].ppages
           s0 == pzones[k].start
           e == pzones[k].end
           i == (a - s0) \div PAGE_SIZE
           L == ArrayLen(k)
<1>9. i \in Nat /\ i < (e - p) \div PAGE_SIZE /\ a - s0 = i * PAGE_SIZE
  <2>1. s0 <= a /\ a < e
    BY <1>4 DEF Contains
  <2>2. p \in Nat /\ s0 \in Nat /\ a \in Nat /\ e \in Nat
    BY <1>3, <1>4
  <2>3. /\ p % PAGE_SIZE = 0 /\ s0 % PAGE_SIZE = 0
        /\ a % PAGE_SIZE = 0 /\ e % PAGE_SIZE = 0
        /\ p <= s0
    BY <1>6, <1>7, <1>8
  <2> HIDE DEF p, s0, e
  <2>4. /\ (a - s0) \div PAGE_SIZE \in Nat
        /\ (a - s0) \div PAGE_SIZE < (e - p) \div PAGE_SIZE
        /\ a - s0 = ((a - s0) \div PAGE_SIZE) * PAGE_SIZE
    BY <2>1, <2>2, <2>3, IndexFacts
  <2> QED BY <2>4
<1>10. L = (e - p) \div PAGE_SIZE /\ L \in Nat
  BY <1>3, <1>8 DEF ArrayLen
<1>11. PageIndex(a) = i /\ KvirtToPpage(a) = p + i * PPAGE_SIZE
  BY <1>5 DEF PageIndex, KvirtToPpage
<1>12. p + i * PPAGE_SIZE \in DescAddrs(p, L)
  BY <1>9, <1>10 DEF DescAddrs
<1>13. /\ p <= p + i * PPAGE_SIZE
       /\ p + i * PPAGE_SIZE <= p + L * PPAGE_SIZE - 1
  <2>1. i * PPAGE_SIZE <= (L - 1) * PPAGE_SIZE
    BY <1>9, <1>10
  <2> QED BY <1>3, <1>9, <1>10, <2>1
<1>14. p + i * PPAGE_SIZE \in ArrayBytes(k)
  BY <1>3, <1>9, <1>10, <1>13 DEF ArrayBytes
<1>15. p + i * PPAGE_SIZE < s0
  <2>1. i * PPAGE_SIZE <= L * PPAGE_SIZE - PPAGE_SIZE
    BY <1>9, <1>10
  <2> QED BY <1>3, <1>8, <1>9, <1>10, <2>1
<1>16. /\ k \in 1 .. pzone_num
       /\ p \in Nat /\ p # NULL /\ s0 \in Nat /\ s0 <= e
       /\ PageIndex(a) \in Nat
       /\ a - s0 = PageIndex(a) * PAGE_SIZE
       /\ KvirtToPpage(a) = p + PageIndex(a) * PPAGE_SIZE
       /\ KvirtToPpage(a) \in DOMAIN ppage
       /\ KvirtToPpage(a) \in ArrayBytes(k)
       /\ p <= KvirtToPpage(a)
       /\ KvirtToPpage(a) < s0
  BY <1>3, <1>7, <1>8, <1>9, <1>11, <1>12, <1>13, <1>14, <1>15
<1> QED BY <1>5, <1>16, Zenon

(* Two pages of usable zones never share a ppage{}: within a zone their   *)
(* indices differ, and the arrays of two zones lie in separated ranges.   *)
LEMMA LookupDistinct ==
  ASSUME LInv, boot = "ready", NEW a \in UsablePages, NEW b \in UsablePages, a # b
  PROVE  KvirtToPpage(a) # KvirtToPpage(b)
<1>1. MemShape /\ TypeOK
  BY DEF LInv, MInv
<1>2. /\ PzoneFind(a) \in 1 .. pzone_num
      /\ pzones[PzoneFind(a)].ppages \in Nat
      /\ pzones[PzoneFind(a)].ppages # NULL
      /\ pzones[PzoneFind(a)].start \in Nat
      /\ pzones[PzoneFind(a)].start <= pzones[PzoneFind(a)].end
      /\ PageIndex(a) \in Nat
      /\ a - pzones[PzoneFind(a)].start = PageIndex(a) * PAGE_SIZE
      /\ KvirtToPpage(a) = pzones[PzoneFind(a)].ppages + PageIndex(a) * PPAGE_SIZE
      /\ pzones[PzoneFind(a)].ppages <= KvirtToPpage(a)
      /\ KvirtToPpage(a) < pzones[PzoneFind(a)].start
  BY LookupAt
<1>3. /\ PzoneFind(b) \in 1 .. pzone_num
      /\ pzones[PzoneFind(b)].ppages \in Nat
      /\ pzones[PzoneFind(b)].ppages # NULL
      /\ pzones[PzoneFind(b)].start \in Nat
      /\ pzones[PzoneFind(b)].start <= pzones[PzoneFind(b)].end
      /\ PageIndex(b) \in Nat
      /\ b - pzones[PzoneFind(b)].start = PageIndex(b) * PAGE_SIZE
      /\ KvirtToPpage(b) = pzones[PzoneFind(b)].ppages + PageIndex(b) * PPAGE_SIZE
      /\ pzones[PzoneFind(b)].ppages <= KvirtToPpage(b)
      /\ KvirtToPpage(b) < pzones[PzoneFind(b)].start
  BY LookupAt
<1> DEFINE ja == PzoneFind(a)
           jb == PzoneFind(b)
<1>4. a \in Int /\ b \in Int
  BY DEF UsablePages, Covered, ZoneAddrs
<1>5. CASE ja = jb
  <2>1. PageIndex(a) # PageIndex(b)
    <3>1. pzones[ja].start = pzones[jb].start
      BY <1>5
    <3> SUFFICES ASSUME PageIndex(a) = PageIndex(b) PROVE FALSE
      OBVIOUS
    <3>2. a - pzones[ja].start = b - pzones[ja].start
      BY <1>2, <1>3, <3>1
    <3> QED BY <1>2, <1>4, <3>2
  <2>2. PageIndex(a) * PPAGE_SIZE # PageIndex(b) * PPAGE_SIZE
    <3>1. CASE PageIndex(a) < PageIndex(b)
      BY <1>2, <1>3, <3>1
    <3>2. CASE PageIndex(b) < PageIndex(a)
      BY <1>2, <1>3, <3>2
    <3> QED BY <1>2, <1>3, <2>1, <3>1, <3>2
  <2> QED BY <1>2, <1>3, <1>5, <2>2
<1>6. CASE ja # jb
  <2>1. pzones[ja].end <= Lo(jb) \/ pzones[jb].end <= Lo(ja)
    BY <1>1, <1>2, <1>3, <1>6 DEF MemShape
  <2>2. Lo(ja) = pzones[ja].ppages /\ Lo(jb) = pzones[jb].ppages
    BY <1>2, <1>3 DEF Lo
  <2>3. /\ pzones[ja].ppages <= KvirtToPpage(a) /\ KvirtToPpage(a) < pzones[ja].start
         /\ pzones[jb].ppages <= KvirtToPpage(b) /\ KvirtToPpage(b) < pzones[jb].start
         /\ pzones[ja].start <= pzones[ja].end /\ pzones[jb].start <= pzones[jb].end
    BY <1>2, <1>3
  <2>4. /\ KvirtToPpage(a) \in Int /\ KvirtToPpage(b) \in Int
         /\ pzones[ja].start \in Int /\ pzones[jb].start \in Int
         /\ pzones[ja].ppages \in Int /\ pzones[jb].ppages \in Int
    BY <1>2, <1>3
  <2>6. pzones[ja].end \in Int /\ pzones[jb].end \in Int
    <3>1. ja \in Slots /\ jb \in Slots /\ pzones \in [Slots -> Zone]
      BY <1>1, <1>2, <1>3 DEF TypeOK, Slots
    <3> QED BY <3>1 DEF Zone, Addr
  <2> HIDE DEF ja, jb
  <2>5. pzones[ja].end <= pzones[jb].ppages \/ pzones[jb].end <= pzones[ja].ppages
    BY <2>1, <2>2
  <2> QED BY <2>3, <2>4, <2>5, <2>6
<1> QED BY <1>5, <1>6

(* The strengthening gives LookupInBounds. *)
LEMMA LInvLookup ==
  ASSUME LInv
  PROVE  LookupInBounds
<1> SUFFICES ASSUME boot = "ready" PROVE LookupInBounds
  BY DEF LookupInBounds
<1>1. \A a \in UsablePages :
        /\ KvirtToPpage(a) \in DOMAIN ppage
        /\ KvirtToPpage(a) \in ArrayBytes(PzoneFind(a))
  BY LookupAt
<1>2. \A a, b \in UsablePages : a # b => KvirtToPpage(a) # KvirtToPpage(b)
  BY LookupDistinct
<1> QED BY <1>1, <1>2 DEF LookupInBounds

(***************************************************************************)
(* Every usable zone has its ppage{} array once physmem_init() has       *)
(* reached it, page-aligned and with every descriptor present, for every *)
(* page size, capacity, descriptor size no larger than a page and         *)
(* sequence of registry calls whose addresses do not wrap; with MInv it  *)
(* is the inductive invariant of LookupInBounds.                          *)
(***************************************************************************)
THEOREM LInvInvariant == NoWrap /\ SmallPpage => (MemSpec => []LInv)
<1> SUFFICES ASSUME NoWrap, SmallPpage PROVE MemSpec => []LInv
  OBVIOUS
<1>1. MemInit => LInv
  BY MemInitLInv
<1>2. LInv /\ [MemNext]_vars => LInv'
  BY LInvStep
<1>3. QED
  BY <1>1, <1>2, PTL DEF MemSpec

(***************************************************************************)
(* kvirt_to_ppage() stays in bounds, for every page size, capacity,       *)
(* descriptor size no larger than a page and sequence of registry calls   *)
(* whose addresses do not wrap: once physmem_init() has returned, every   *)
(* page of a usable zone maps to a ppage{} that physmem_init() zeroed,    *)
(* inside its own zone's array, and no two pages share one.  It rests on  *)
(* _pzone_ppages_init() indexing from the bumped start into an array      *)
(* sized from the old one, on USABLE being cleared for a zone with no     *)
(* room, and on the zones being separated when taken from their arrays.   *)
(***************************************************************************)
THEOREM LookupInBoundsCorrect ==
  NoWrap /\ SmallPpage => (MemSpec => []LookupInBounds)
<1> SUFFICES ASSUME NoWrap, SmallPpage PROVE MemSpec => []LookupInBounds
  OBVIOUS
<1>1. MemInit => LInv
  BY MemInitLInv
<1>2. LInv /\ [MemNext]_vars => LInv'
  BY LInvStep
<1>3. LInv => LookupInBounds
  BY LInvLookup
<1>4. QED
  BY <1>1, <1>2, <1>3, PTL DEF MemSpec
=============================================================================
