---------------------------- MODULE PhysMemProofs ----------------------------
(***************************************************************************)
(* Proof that the ppage{} arrays physmem_init() carves off the fronts of  *)
(* the zones lie outside every zone, for every page size, descriptor size *)
(* no larger than a page, capacity and sequence of registry calls whose   *)
(* addresses do not wrap.                                                  *)
(***************************************************************************)
EXTENDS PhysMem, PZoneProofs

USE PpageSizeAssumption, MaxIncsAssumption, PageSizeAssumption, ModAssumption,
    MaxNumAssumption, VirtBaseAssumption, PhysAddrsAssumption, MaxCallsAssumption

(* sizeof(struct ppage) is at most a page: an array of one ppage{} per    *)
(* page is never larger than the zone it describes.                       *)
SmallPpage == PPAGE_SIZE <= PAGE_SIZE

(* While zones are being registered and carved, none has an array yet. *)
NullPpages == \A j \in Slots : pzones[j].ppages = NULL

(* The lowest address zone j ever covered since boot began: the base of  *)
(* its ppage{} array once one is placed, its start before.                *)
Lo(j) == IF pzones[j].ppages = NULL THEN pzones[j].start ELSE pzones[j].ppages

(***************************************************************************)
(* After registration: every zone is aligned, does not start at 0, and    *)
(* its array (if placed) lies between Lo and the bumped start; the zones  *)
(* are separated when each is taken from its Lo, so the front a zone     *)
(* gave up to its array belongs to no other zone.                         *)
(***************************************************************************)
MemShape ==
  /\ \A j \in 1 .. pzone_num :
       /\ 0 < pzones[j].start
       /\ pzones[j].start <= pzones[j].end
       /\ pzones[j].start % PAGE_SIZE = 0
       /\ pzones[j].end % PAGE_SIZE = 0
       /\ pzones[j].ppages # NULL =>
            /\ pzones[j].ppages <= pzones[j].start
            /\ pzones[j].ppages + ArrayLen(j) * PPAGE_SIZE <= pzones[j].start
  /\ \A j, k \in 1 .. pzone_num :
       j # k => pzones[j].end <= Lo(k) \/ pzones[k].end <= Lo(j)

(* The inductive invariant behind MetadataDisjoint. *)
MInv ==
  /\ TypeOK
  /\ boot \in {"new", "remove"} => IInv /\ NullPpages
  /\ boot \notin {"new", "remove"} => rm = NoRemove /\ MemShape
  /\ boot = "init" => bi \in Nat \ {0}

-----------------------------------------------------------------------------
(* The registry calls never give a zone an array: every zone they write  *)
(* is a fresh FillEntry, ZeroZone, a shifted zone or a resized one.       *)
LEMMA NullStep ==
  ASSUME TypeOK, NullPpages, ZoneNext
  PROVE  NullPpages'
<1> USE DEF NullPpages
<1>1. CASE \E s, e \in PhysAddrs, u \in BOOLEAN : s < e /\ PzoneNew(s, e, u)
  BY <1>1 DEF PzoneNew, FillEntry, TypeOK
<1>2. CASE \E s, e \in PhysAddrs : s < e /\ PzoneRemove(s, e)
  BY <1>2 DEF PzoneRemove
<1>0. rm # NoRemove => rm.i \in 1 .. PZONE_MAX_NUM + 2
  <2>1. rm # NoRemove => rm \in RemoveLocals
    BY Zenon DEF TypeOK
  <2>2. QED
    BY <2>1 DEF RemoveLocals
<1>8. pzone_num \in 0 .. PZONE_MAX_NUM /\ PZONE_MAX_NUM \in Nat
  BY DEF TypeOK
<1>3. CASE RemoveWhole
  <2>1. \A j \in Slots : rm.i <= j /\ j < pzone_num => j + 1 \in Slots
    BY <1>8 DEF Slots
  <2>2. pzones' = [j \in Slots |->
                    IF rm.i <= j /\ j < pzone_num THEN pzones[j + 1]
                    ELSE IF j = rm.i THEN ZeroZone
                    ELSE pzones[j]]
    BY <1>3 DEF RemoveWhole
  <2>3. QED
    BY <2>1, <2>2 DEF ZeroZone
<1>4. CASE RemoveFront \/ RemoveBack \/ RemoveSplitFull
  <2>1. PICK f \in {"start", "end"} : \E v : pzones' = [pzones EXCEPT ![rm.i][f] = v]
    BY <1>4, Zenon DEF RemoveFront, RemoveBack, RemoveSplitFull
  <2>2. PICK v : pzones' = [pzones EXCEPT ![rm.i][f] = v]
    BY <2>1
  <2>3. pzones \in [Slots -> Zone]
    BY DEF TypeOK
  <2>4. QED
    BY <2>2, <2>3 DEF Zone
<1>5. CASE RemoveSplit
  <2>1. InLoop /\ rm.i \in 1 .. PZONE_MAX_NUM + 2
    BY <1>0, <1>5 DEF RemoveSplit, InLoop
  <2>2. pzones' = [j \in Slots |->
                    IF j = rm.i THEN [Cur EXCEPT !.end = rm.start]
                    ELSE IF j = rm.i + 1 THEN FillEntry(rm.end, Cur.end, Cur.usable)
                    ELSE IF rm.i + 2 <= j /\ j <= pzone_num + 1 THEN pzones[j - 1]
                    ELSE pzones[j]]
    BY <1>5 DEF RemoveSplit
  <2>3. rm.i \in Slots /\ \A j \in Slots : rm.i + 2 <= j => j - 1 \in Slots
    BY <2>1, <1>8 DEF InLoop, Slots
  <2>4. pzones \in [Slots -> Zone]
    BY DEF TypeOK
  <2>5. QED
    BY <2>2, <2>3, <2>4 DEF FillEntry, Cur, Zone
<1>6. CASE RemoveSkip \/ RemoveDone
  BY <1>6 DEF RemoveSkip, RemoveDone
<1>7. QED
  BY <1>1, <1>2, <1>3, <1>4, <1>5, <1>6 DEF ZoneNext, RemoveLoop

(* Once boot has left registration, no registry call is enabled. *)
LEMMA ZoneIdle ==
  ASSUME boot \notin {"new", "remove"}, rm = NoRemove
  PROVE  ~ZoneNext
BY DEF ZoneNext, PzoneNew, PzoneRemove, RemoveLoop, RemoveWhole, RemoveFront,
       RemoveBack, RemoveSplit, RemoveSplitFull, RemoveSkip, RemoveDone, InLoop
-----------------------------------------------------------------------------
(* The remainder of a division by a positive divisor. *)
LEMMA ModQuotient ==
  ASSUME NEW a \in Int, NEW m \in Nat \ {0}
  PROVE  /\ a \div m \in Int
         /\ a % m = a - m * (a \div m)
         /\ a % m \in 0 .. m - 1
<1>1. a \div m \in Int
  OBVIOUS
<1>2. a % m = a - m * (a \div m)
  BY Z3T(60)
<1>3. a % m \in 0 .. m - 1
  OBVIOUS
<1>4. QED
  BY <1>1, <1>2, <1>3

(* An aligned natural number is a multiple of the alignment. *)
LEMMA AlignedMultiple ==
  ASSUME NEW a \in Nat, NEW m \in Nat \ {0}, a % m = 0
  PROVE  \E k \in Nat : a = k * m
<1>0. a \in Int
  OBVIOUS
<1>1. a \div m \in Int /\ a % m = a - m * (a \div m)
  BY <1>0, ModQuotient, Zenon
<1>2. a = (a \div m) * m
  BY <1>1
<1>3. a \div m \in Nat
  BY <1>1, <1>2
<1>4. QED
  BY <1>2, <1>3

(* ALIGN_UP of x below an aligned address e rounds up, to at most e: x + *)
(* PAGE_SIZE - 1 does not wrap since an aligned e is a page below ADDR_MOD. *)
LEMMA AlignUpBelow ==
  ASSUME NEW x \in Nat, NEW e \in Addr, e % PAGE_SIZE = 0, x <= e
  PROVE  /\ AlignUp(x) \in Nat
         /\ x <= AlignUp(x)
         /\ AlignUp(x) <= e
         /\ AlignUp(x) % PAGE_SIZE = 0
<1> DEFINE y == x + PAGE_SIZE - 1
           q == y \div PAGE_SIZE
<1>1. PAGE_SIZE \in Nat \ {0} /\ ADDR_MOD \in Nat \ {0} /\ ADDR_MOD % PAGE_SIZE = 0
  OBVIOUS
<1>2. e <= ADDR_MOD - PAGE_SIZE
  <2>1. e \div PAGE_SIZE < ADDR_MOD \div PAGE_SIZE
    BY <1>1 DEF Addr
  <2>2. QED
    BY <1>1, <2>1 DEF Addr
<1>3. y \in Nat /\ y < ADDR_MOD
  BY <1>1, <1>2 DEF Addr
<1>4. y % ADDR_MOD = y
  BY <1>1, <1>3
<1>5. AlignUp(x) = y - (y % PAGE_SIZE)
  BY <1>4 DEF AlignUp, AlignDown
<1>6. q \in Int /\ y - (y % PAGE_SIZE) = PAGE_SIZE * q /\ y % PAGE_SIZE \in 0 .. PAGE_SIZE - 1
  <2>1. y \in Int
    BY <1>3
  <2>2. /\ q \in Int
        /\ y % PAGE_SIZE = y - PAGE_SIZE * q
        /\ y % PAGE_SIZE \in 0 .. PAGE_SIZE - 1
    BY <1>1, <2>1, ModQuotient, Zenon
  <2>3. QED
    BY <2>2
<1>7. PICK k \in Nat : e = k * PAGE_SIZE
  <2>1. e \in Nat
    BY DEF Addr
  <2>2. QED
    BY <1>1, <2>1, AlignedMultiple, Zenon
<1>8. PAGE_SIZE * q < PAGE_SIZE * k + PAGE_SIZE
  BY <1>1, <1>3, <1>6, <1>7
<1>9. q <= k
  BY <1>1, <1>6, <1>8
<1>10. PAGE_SIZE * q <= PAGE_SIZE * k
  BY <1>1, <1>6, <1>9
<1>11. (y - (y % PAGE_SIZE)) % PAGE_SIZE = 0
  BY <1>1, <1>3
<1>12. QED
  BY <1>1, <1>5, <1>6, <1>7, <1>10, <1>11

(* _pzone_ppages_init() on an aligned zone: the array of one ppage{} per *)
(* page fits between the old start and the bumped start, which stays an  *)
(* aligned address no higher than the end.                                *)
LEMMA PlacedShape ==
  ASSUME SmallPpage, NEW z \in Zone, 0 < z.start, z.start <= z.end,
         z.start % PAGE_SIZE = 0, z.end % PAGE_SIZE = 0
  PROVE  /\ Placed(z) \in Zone
         /\ Placed(z).ppages = z.start
         /\ Placed(z).end = z.end
         /\ Placed(z).start % PAGE_SIZE = 0
         /\ z.start + NumPages(z) * PPAGE_SIZE <= Placed(z).start
         /\ Placed(z).start <= z.end
<1>1. z.start \in Addr /\ z.end \in Addr /\ PPAGE_SIZE <= PAGE_SIZE
  BY DEF Zone, SmallPpage
<1>2. NumPages(z) \in Nat /\ NumPages(z) * PAGE_SIZE <= z.end - z.start
  BY <1>1 DEF NumPages, Addr
<1>3. NumPages(z) * PPAGE_SIZE <= NumPages(z) * PAGE_SIZE
  BY <1>1, <1>2
<1> DEFINE x == z.start + NumPages(z) * PPAGE_SIZE
<1>4. x \in Nat /\ x <= z.end
  BY <1>1, <1>2, <1>3 DEF Addr
<1>5. AlignUp(x) \in Nat /\ x <= AlignUp(x) /\ AlignUp(x) <= z.end /\ AlignUp(x) % PAGE_SIZE = 0
  BY <1>1, <1>4, AlignUpBelow
<1>6. Placed(z) = [z EXCEPT !.ppages = z.start, !.start = AlignUp(x)]
  BY DEF Placed, NeedBytes
<1>7. AlignUp(x) \in Addr
  BY <1>1, <1>4, <1>5 DEF Addr
<1>8. QED
  BY <1>1, <1>5, <1>6, <1>7 DEF Zone

-----------------------------------------------------------------------------
(* A registry call leaves boot in registration. *)
LEMMA ZoneBoot ==
  ASSUME boot \in {"new", "remove"}, ZoneNext
  PROVE  boot' \in {"new", "remove"}
<1>1. CASE \E s, e \in PhysAddrs, u \in BOOLEAN : s < e /\ PzoneNew(s, e, u)
  BY <1>1, Zenon DEF PzoneNew
<1>2. CASE \E s, e \in PhysAddrs : s < e /\ PzoneRemove(s, e)
  BY <1>2, Zenon DEF PzoneRemove
<1>3. CASE RemoveLoop
  BY <1>3 DEF RemoveLoop, RemoveWhole, RemoveFront, RemoveBack, RemoveSplit,
              RemoveSplitFull, RemoveSkip, RemoveDone
<1>4. QED
  BY <1>1, <1>2, <1>3 DEF ZoneNext

(* When physmem_init() starts, no zone has an array, so Lo is the start  *)
(* and the registry's invariant gives the shape.                          *)
LEMMA ShapeFromIInv ==
  ASSUME IInv, NullPpages
  PROVE  MemShape
<1>1. \A j \in 1 .. pzone_num : Lo(j) = pzones[j].start /\ pzones[j].ppages = NULL
  BY DEF IInv, TypeOK, Slots, Lo, NullPpages
<1>2. \A j \in 1 .. pzone_num :
        /\ 0 < pzones[j].start
        /\ pzones[j].start <= pzones[j].end
        /\ pzones[j].start % PAGE_SIZE = 0
        /\ pzones[j].end % PAGE_SIZE = 0
  <2>1. \A j \in 1 .. pzone_num : pzones[j].start \in Nat /\ pzones[j].end \in Nat
    BY DEF IInv, TypeOK, Slots, Zone, Addr
  <2>2. QED
    BY <2>1 DEF IInv, ZonesWellFormed
<1>3. \A j, k \in 1 .. pzone_num :
        j # k => pzones[j].end <= Lo(k) \/ pzones[k].end <= Lo(j)
  BY <1>1 DEF IInv, Separated
<1>4. QED
  BY <1>1, <1>2, <1>3 DEF MemShape

(* Placing zone bi's array keeps the shape: bi's Lo only rises, to its  *)
(* old start, and its end and every other zone stay as they were.        *)
LEMMA PlaceStep ==
  ASSUME SmallPpage, MInv, PpagesInitPlace
  PROVE  MInv'
<1> DEFINE z == pzones[bi]
<1>1. /\ boot = "init" /\ rm = NoRemove /\ MemShape /\ TypeOK
      /\ bi \in 1 .. pzone_num /\ pzone_num \in 0 .. PZONE_MAX_NUM
  BY DEF MInv, PpagesInitPlace, TypeOK
<1>2. z \in Zone /\ bi \in Slots
  BY <1>1 DEF TypeOK, Slots
<1>3. /\ 0 < z.start /\ z.start <= z.end
      /\ z.start % PAGE_SIZE = 0 /\ z.end % PAGE_SIZE = 0
      /\ z.ppages # NULL => z.ppages <= z.start
  BY <1>1 DEF MemShape
<1>4. /\ Placed(z) \in Zone
      /\ Placed(z).ppages = z.start
      /\ Placed(z).end = z.end
      /\ Placed(z).start % PAGE_SIZE = 0
      /\ z.start + NumPages(z) * PPAGE_SIZE <= Placed(z).start
      /\ Placed(z).start <= z.end
  BY <1>2, <1>3, PlacedShape
<1>5. /\ pzones' = [pzones EXCEPT ![bi] = Placed(z)]
      /\ UNCHANGED <<pzone_num, rm, boot, calls, lastEnd, registered, reserved>>
      /\ bi' = bi + 1
  BY DEF PpagesInitPlace
<1>6. pzones'[bi] = Placed(z) /\ \A j \in Slots \ {bi} : pzones'[j] = pzones[j]
  BY <1>1, <1>2, <1>5 DEF TypeOK
<1>7. TypeOK'
  BY <1>1, <1>2, <1>4, <1>5 DEF TypeOK
<1>8. z.start \in Nat /\ z.end \in Nat /\ z.ppages \in Nat /\ Placed(z).start \in Nat
  BY <1>2, <1>4 DEF Zone, Addr
<1>9. \A j \in 1 .. pzone_num : j = bi => Lo(j) <= z.start /\ Lo(j)' = z.start
  BY <1>3, <1>4, <1>6, <1>8 DEF Lo, NULL
<1>10. \A j \in 1 .. pzone_num : j = bi => ArrayLen(j)' = NumPages(z)
  BY <1>4, <1>6 DEF ArrayLen, NumPages
<1>11. ASSUME NEW j \in 1 .. pzone_num
       PROVE  /\ 0 < pzones'[j].start
              /\ pzones'[j].start <= pzones'[j].end
              /\ pzones'[j].start % PAGE_SIZE = 0
              /\ pzones'[j].end % PAGE_SIZE = 0
              /\ pzones'[j].ppages # NULL =>
                   /\ pzones'[j].ppages <= pzones'[j].start
                   /\ pzones'[j].ppages + ArrayLen(j)' * PPAGE_SIZE <= pzones'[j].start
  <2>1. CASE j = bi
    <3>1. NumPages(z) * PPAGE_SIZE \in Nat
      BY <1>3, <1>8 DEF NumPages
    <3>2. QED
      BY <2>1, <1>3, <1>4, <1>6, <1>8, <1>10, <3>1
  <2>2. CASE j # bi
    <3>1. pzones'[j] = pzones[j] /\ ArrayLen(j)' = ArrayLen(j)
      BY <2>2, <1>1, <1>6 DEF Slots, ArrayLen
    <3>2. QED
      BY <3>1, <1>1 DEF MemShape
  <2>3. QED
    BY <2>1, <2>2
<1>12. ASSUME NEW j \in 1 .. pzone_num, NEW k \in 1 .. pzone_num, j # k
       PROVE  pzones'[j].end <= Lo(k)' \/ pzones'[k].end <= Lo(j)'
  <2>1. pzones[j].end <= Lo(k) \/ pzones[k].end <= Lo(j)
    BY <1>1, <1>12 DEF MemShape
  <2>2. ASSUME NEW m \in 1 .. pzone_num
        PROVE  /\ pzones'[m].end = pzones[m].end
               /\ m # bi => Lo(m)' = Lo(m)
               /\ pzones[m].end \in Nat /\ Lo(m) \in Nat /\ Lo(m)' \in Nat
    <3>1. m \in Slots /\ pzones[m] \in Zone /\ pzones'[m] \in Zone
      BY <1>1, <1>5, <1>7 DEF TypeOK, Slots
    <3>2. pzones'[m].end = pzones[m].end
      BY <1>4, <1>6, <3>1
    <3>3. m # bi => Lo(m)' = Lo(m)
      BY <1>6, <3>1 DEF Lo
    <3>4. pzones[m].end \in Nat /\ Lo(m) \in Nat /\ Lo(m)' \in Nat
      BY <3>1 DEF Lo, Zone, Addr
    <3>5. QED
      BY <3>2, <3>3, <3>4
  <2>3. QED
    BY <2>1, <2>2, <1>9
<1>13. MemShape'
  BY <1>5, <1>11, <1>12 DEF MemShape
<1>14. QED
  BY <1>1, <1>5, <1>7, <1>13 DEF MInv

(* Clearing USABLE of a zone with no room keeps start, end and ppages. *)
LEMMA NoRoomStep ==
  ASSUME MInv, PpagesInitNoRoom
  PROVE  MInv'
<1>1. /\ boot = "init" /\ rm = NoRemove /\ MemShape /\ TypeOK
      /\ bi \in 1 .. pzone_num /\ bi \in Slots
  BY DEF MInv, PpagesInitNoRoom, TypeOK, Slots
<1>2. /\ pzones' = [pzones EXCEPT ![bi].usable = FALSE]
      /\ UNCHANGED <<pzone_num, rm, boot, calls, lastEnd, registered, reserved>>
      /\ bi' = bi + 1
  BY DEF PpagesInitNoRoom
<1>3. \A j \in Slots :
        /\ pzones'[j].start = pzones[j].start
        /\ pzones'[j].end = pzones[j].end
        /\ pzones'[j].ppages = pzones[j].ppages
  BY <1>1, <1>2 DEF TypeOK
<1>4. TypeOK'
  BY <1>1, <1>2 DEF TypeOK, Zone
<1>5. \A j \in 1 .. pzone_num : Lo(j)' = Lo(j) /\ ArrayLen(j)' = ArrayLen(j)
  BY <1>1, <1>2, <1>3 DEF Lo, ArrayLen, Slots
<1>6. MemShape'
  BY <1>1, <1>2, <1>3, <1>5 DEF MemShape, Slots
<1>7. QED
  BY <1>1, <1>2, <1>4, <1>6 DEF MInv

(* physmem_init() enters its loop, or panics, with the registry's shape. *)
LEMMA InitStep ==
  ASSUME MInv, PhysmemInit \/ PhysmemInitPanic
  PROVE  MInv'
<1>1. /\ boot \in {"new", "remove"} /\ rm = NoRemove /\ IInv /\ NullPpages /\ TypeOK
      /\ boot' \in {"init", "panic"}
      /\ boot' = "init" => bi' = 1
      /\ UNCHANGED <<pzones, pzone_num, rm, calls, lastEnd, registered, reserved>>
  BY Zenon DEF MInv, PhysmemInit, PhysmemInitPanic
<1>2. MemShape /\ MemShape'
  BY <1>1, ShapeFromIInv DEF MemShape, Lo, ArrayLen
<1>3. TypeOK'
  BY <1>1 DEF TypeOK, BootStages
<1>4. QED
  BY <1>1, <1>2, <1>3 DEF MInv

(* The steps after the array loop leave the zones alone and stay out of *)
(* registration and out of the array loop.                               *)
QuietStep ==
  \/ CreateFreeListPanic \/ CreateFreeList
  \/ BuildSkipZone \/ BuildEnterZone \/ BuildLink \/ BuildZoneEnd \/ BuildDone
  \/ \E a \in LookupAddrs : PpageMarkUsed(a) \/ KvirtIncMapcount(a)
  \/ \E p \in LookupPhys : KphysIncMapcount(p)
  \/ HaltLoop

LEMMA QuietFacts ==
  ASSUME QuietStep
  PROVE  /\ boot \notin {"new", "remove"}
         /\ boot' \in {"build", "ready", "panic"}
         /\ UNCHANGED <<pzones, pzone_num, rm, calls, lastEnd, registered, reserved>>
<1>1. CASE CreateFreeListPanic \/ CreateFreeList
  BY <1>1, Zenon DEF CreateFreeListPanic, CreateFreeList
<1>2. CASE BuildSkipZone \/ BuildEnterZone \/ BuildLink \/ BuildZoneEnd
  BY <1>2, Zenon DEF BuildSkipZone, BuildEnterZone, BuildLink, BuildZoneEnd, zoneVars
<1>3. CASE BuildDone
  BY <1>3, Zenon DEF BuildDone
<1>4. CASE \E a \in LookupAddrs : PpageMarkUsed(a)
  BY <1>4, Zenon DEF PpageMarkUsed, zoneVars
<1>5. CASE \E a : KvirtIncMapcount(a)
  BY <1>5, Zenon DEF KvirtIncMapcount
<1>6. CASE HaltLoop
  BY <1>6, Zenon DEF HaltLoop, vars, zoneVars
<1>7. QED
  <2>1. (\E a \in LookupAddrs : KvirtIncMapcount(a)) => \E a : KvirtIncMapcount(a)
    BY Zenon
  <2>2. (\E p \in LookupPhys : KphysIncMapcount(p)) => \E a : KvirtIncMapcount(a)
    BY Zenon DEF KphysIncMapcount
  <2>3. QED
    BY <1>1, <1>2, <1>3, <1>4, <1>5, <1>6, <2>1, <2>2 DEF QuietStep

(* A quiet step keeps the shape it finds. *)
LEMMA QuietStepMInv ==
  ASSUME MInv, QuietStep
  PROVE  MInv'
<1>1. /\ boot \notin {"new", "remove"}
      /\ boot' \in {"build", "ready", "panic"}
      /\ UNCHANGED <<pzones, pzone_num, rm, calls, lastEnd, registered, reserved>>
  BY QuietFacts
<1>2. rm = NoRemove /\ MemShape /\ TypeOK
  BY <1>1 DEF MInv
<1>3. MemShape'
  BY <1>1, <1>2 DEF MemShape, Lo, ArrayLen
<1>4. TypeOK'
  BY <1>1, <1>2 DEF TypeOK, BootStages
<1>5. QED
  BY <1>1, <1>2, <1>3, <1>4 DEF MInv

(* A registry call keeps the registry's invariant and no arrays. *)
LEMMA ZoneStepMInv ==
  ASSUME NoWrap, MInv, ZoneStep
  PROVE  MInv'
<1>1. CASE boot \in {"new", "remove"}
  <2>1. IInv /\ NullPpages /\ TypeOK /\ ZoneNext
    BY <1>1 DEF MInv, ZoneStep
  <2>2. IInv'
    BY <2>1, IInvStep
  <2>3. NullPpages'
    BY <2>1, NullStep
  <2>4. boot' \in {"new", "remove"}
    BY <1>1, <2>1, ZoneBoot
  <2>5. TypeOK'
    BY <2>2 DEF IInv
  <2>6. QED
    BY <2>2, <2>3, <2>4, <2>5 DEF MInv
<1>2. CASE boot \notin {"new", "remove"}
  <2>1. rm = NoRemove
    BY <1>2 DEF MInv
  <2>2. ~ZoneNext
    BY <1>2, <2>1, ZoneIdle
  <2>3. QED
    BY <2>2 DEF ZoneStep
<1>3. QED
  BY <1>1, <1>2

(* Every step of boot and of the steady state, or a stutter, keeps MInv. *)
LEMMA MInvStep ==
  ASSUME NoWrap, SmallPpage, MInv, [MemNext]_vars
  PROVE  MInv'
<1>1. CASE ZoneStep
  BY <1>1, ZoneStepMInv
<1>2. CASE PhysmemInitPanic \/ PhysmemInit
  BY <1>2, InitStep
<1>3. CASE PpagesInitNoRoom
  BY <1>3, NoRoomStep
<1>4. CASE PpagesInitPlace
  BY <1>4, PlaceStep
<1>5. CASE QuietStep
  BY <1>5, QuietStepMInv
<1>6. CASE UNCHANGED vars
  BY <1>6 DEF vars, zoneVars, memVars, MInv, TypeOK, IInv, RmOK, ZonesWellFormed,
              Separated, BelowNext, Unprocessed, ZoneAddrs, NullPpages,
              MemShape, Lo, ArrayLen
<1>7. QED
  BY <1>1, <1>2, <1>3, <1>4, <1>5, <1>6 DEF MemNext, QuietStep

-----------------------------------------------------------------------------
(* Boot begins with the empty registry and no arrays. *)
LEMMA MemInitMInv ==
  ASSUME MemInit
  PROVE  MInv
<1>1. IInv
  BY InitIInv DEF MemInit
<1>2. NullPpages /\ boot = "new"
  BY DEF MemInit, Init, NullPpages, ZeroZone, NULL
<1>3. QED
  BY <1>1, <1>2 DEF MInv, IInv

(* The shape keeps every placed array out of every zone. *)
LEMMA MInvMetadata ==
  ASSUME MInv
  PROVE  MetadataDisjoint
<1> SUFFICES ASSUME NEW j \in 1 .. pzone_num, pzones[j].ppages # NULL
             PROVE  ArrayBytes(j) \cap Covered = {}
  BY DEF MetadataDisjoint
<1>1. TypeOK /\ j \in Slots /\ pzone_num \in 0 .. PZONE_MAX_NUM
  BY DEF MInv, TypeOK, Slots
<1>2. boot \notin {"new", "remove"}
  BY <1>1 DEF MInv, NullPpages
<1>3. MemShape
  BY <1>2 DEF MInv
<1>4. SUFFICES ASSUME NEW a \in ArrayBytes(j), NEW k \in 1 .. pzone_num,
                      a \in ZoneAddrs(pzones[k])
               PROVE  FALSE
  BY DEF Covered
<1>5. /\ pzones[j].ppages \in Nat /\ pzones[j].start \in Nat /\ pzones[j].end \in Nat
      /\ pzones[k].ppages \in Nat /\ pzones[k].start \in Nat /\ pzones[k].end \in Nat
      /\ ArrayLen(j) \in Int
  <2>1. k \in Slots /\ pzones[j] \in Zone /\ pzones[k] \in Zone
    BY <1>1 DEF TypeOK, Slots
  <2>2. QED
    BY <2>1 DEF Zone, Addr, ArrayLen
<1>6. /\ a \in Int
      /\ pzones[j].ppages <= a
      /\ a < pzones[j].start
  BY <1>3, <1>5 DEF MemShape, ArrayBytes
<1>7. pzones[k].start <= a /\ a < pzones[k].end
  BY <1>4, <1>5 DEF ZoneAddrs
<1>8. Lo(j) = pzones[j].ppages /\ Lo(k) \in Nat /\ Lo(k) <= pzones[k].start /\ pzones[j].start <= pzones[j].end
  BY <1>3, <1>5 DEF MemShape, Lo
<1>9. CASE k = j
  BY <1>5, <1>6, <1>7, <1>9
<1>10. CASE k # j
  <2>1. pzones[j].end <= Lo(k) \/ pzones[k].end <= Lo(j)
    BY <1>3, <1>10 DEF MemShape
  <2>2. QED
    BY <1>5, <1>6, <1>7, <1>8, <2>1
<1>11. QED
  BY <1>9, <1>10

(***************************************************************************)
(* The registry stays separated through boot, for any page size,         *)
(* capacity and sequence of registry calls whose addresses do not wrap,  *)
(* with a ppage{} no larger than a page: while pzone_new()/pzone_remove() *)
(* run, the zones keep the registry invariant and have no arrays; from    *)
(* physmem_init() on, each placed array lies between ppages and the      *)
(* bumped start, and the zones taken from their Lo are separated.  It is *)
(* the inductive invariant behind MetadataDisjoint.                      *)
(***************************************************************************)
THEOREM MInvInvariant == NoWrap /\ SmallPpage => (MemSpec => []MInv)
<1> SUFFICES ASSUME NoWrap, SmallPpage PROVE MemSpec => []MInv
  OBVIOUS
<1>1. MemInit => MInv
  BY MemInitMInv
<1>2. MInv /\ [MemNext]_vars => MInv'
  BY MInvStep
<1>3. QED
  BY <1>1, <1>2, PTL DEF MemSpec

(***************************************************************************)
(* No ppage{} array physmem_init() places overlaps a zone, in any state   *)
(* boot or the steady state reaches, for any page size, capacity and     *)
(* sequence of registry calls, provided physical addresses do not wrap   *)
(* and a ppage{} is no larger than a page: _pzone_ppages_init() bumps    *)
(* start past the array, ALIGN_UP never rounds it past the end, and the  *)
(* zones were disjoint before any array took a zone's front.             *)
(***************************************************************************)
THEOREM MetadataDisjointCorrect ==
  NoWrap /\ SmallPpage => (MemSpec => []MetadataDisjoint)
<1> SUFFICES ASSUME NoWrap, SmallPpage PROVE MemSpec => []MetadataDisjoint
  OBVIOUS
<1>1. MemInit => MInv
  BY MemInitMInv
<1>2. MInv /\ [MemNext]_vars => MInv'
  BY MInvStep
<1>3. MInv => MetadataDisjoint
  BY MInvMetadata
<1>4. QED
  BY <1>1, <1>2, <1>3, PTL DEF MemSpec
=============================================================================
