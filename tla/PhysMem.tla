------------------------------- MODULE PhysMem -------------------------------
(***************************************************************************)
(* The physical memory manager of src/sys/mm/physmem.c: the zone registry *)
(* and carver of PZone, then physmem_init() (a ppage{} array placed at    *)
(* the front of each zone, _pzone_ppages_init()), the free list threaded  *)
(* through the free pages (_create_free_page_list()), and the steady-state *)
(* lookups ppage_mark_used(), kvirt_inc_mapcount(), kphys_inc_mapcount().  *)
(*                                                                         *)
(* The loops of physmem_init() and _create_free_page_list() run one        *)
(* iteration per step with their locals (i, prev, curr) as variables; boot *)
(* is single-threaded, so nothing else is enabled meanwhile.  Memory is    *)
(* modelled where the code writes it: ppage maps the address of each      *)
(* ppage{} to its contents, next maps a page to the first word of it.      *)
(***************************************************************************)
EXTENDS PZone, FiniteSets

CONSTANTS
  PPAGE_SIZE,  \* sizeof(struct ppage)
  MaxIncs      \* bound on the number of map-count increments

ASSUME PpageSizeAssumption == PPAGE_SIZE \in Nat \ {0}
ASSUME MaxIncsAssumption == MaxIncs \in Nat

VARIABLES
  bi,          \* the loop index i of physmem_init / _create_free_page_list
  prev,        \* struct freepage *prev of _create_free_page_list()
  curr,        \* struct freepage *curr, NULL between two zones
  freepagehd,  \* the global free-list head [freepages, nfree, maxfree]
  next,        \* first word of each page: next[p] is p->next
  ppage,       \* the ppage{} at each descriptor address physmem_init set up
  incs,        \* number of map-count increments so far (bounded)
  marked       \* ghost: pages ppage_mark_used() returned 0 for

memVars == <<bi, prev, curr, freepagehd, next, ppage, incs, marked>>
vars == <<zoneVars, memVars>>

UNINIT == -1                 \* a word never written
PFlags == {"PPAGE_USED"}
Ppage == [pflags : SUBSET PFlags, mapcount : 0 .. MaxIncs]
ZeroPpage == [pflags |-> {}, mapcount |-> 0]

(* PZONE_NUM_PAGES(pz) (the macro lives outside src/). *)
NumPages(z) == (z.end - z.start) \div PAGE_SIZE

(* _pzone_ppages_init(): bytes and pages the ppage{} array needs. *)
NeedBytes(z) == NumPages(z) * PPAGE_SIZE
NeedPages(z) == AlignUp(NeedBytes(z)) \div PAGE_SIZE
NoRoom(z) == NeedPages(z) >= NumPages(z)
(* Seeded fault (mutation test of MetadataDisjoint): start rounded down. *)
PlacedDown(z) == [z EXCEPT !.ppages = z.start,
                           !.start = AlignDown(z.start + NeedBytes(z))]
Placed(z) == [z EXCEPT !.ppages = z.start,
                       !.start = AlignUp(z.start + NeedBytes(z))]

(* The addresses of the ppage{}s of an array of n at base (_ppage_new). *)
DescAddrs(base, n) == {base + k * PPAGE_SIZE : k \in 0 .. n - 1}

(* The bytes of zone j's ppage{} array: one per page from ppages to end. *)
ArrayLen(j) == (pzones[j].end - pzones[j].ppages) \div PAGE_SIZE
ArrayBytes(j) == pzones[j].ppages .. pzones[j].ppages + ArrayLen(j) * PPAGE_SIZE - 1

(* The page addresses of the usable zones: what the free list must hold. *)
UsablePages ==
  {a \in Covered : a % PAGE_SIZE = 0 /\ pzones[PzoneFind(a)].usable}

(* Page addresses no zone contains: lookups of these panic. *)
Unbacked == {a \in Addr : a % PAGE_SIZE = 0 /\ PzoneFind(a) = 0}

(* Seeded fault (mutation test of LookupInBounds): index not shifted. *)
KvirtToPpageNoShift(a) ==
  LET pz == pzones[PzoneFind(a)]
  IN pz.ppages + (a - pz.start) * PPAGE_SIZE

(* kvirt_to_ppage(): &pz->ppages[(a - pz->start) >> PAGE_SHIFT]. *)
KvirtToPpage(a) ==
  LET pz == pzones[PzoneFind(a)]
  IN pz.ppages + ((a - pz.start) \div PAGE_SIZE) * PPAGE_SIZE

-----------------------------------------------------------------------------
MemInit ==
  /\ Init
  /\ bi = 0
  /\ prev = NULL
  /\ curr = NULL
  /\ freepagehd = [freepages |-> NULL, nfree |-> 0, maxfree |-> 0]
  /\ next = [a \in Addr |-> UNINIT]
  /\ ppage = [d \in {} |-> ZeroPpage]
  /\ incs = 0
  /\ marked = {}

(* The registry calls of PZone leave the rest of memory alone. *)
ZoneStep == ZoneNext /\ UNCHANGED memVars

(* physmem_init() with no zones: kpanic. *)
PhysmemInitPanic ==
  /\ boot \in {"new", "remove"} /\ rm = NoRemove
  /\ pzone_num = 0
  /\ boot' = "panic"
  /\ UNCHANGED <<pzones, pzone_num, rm, calls, lastEnd, registered, reserved, memVars>>

(* physmem_init(): enter the loop over the zones. *)
PhysmemInit ==
  /\ boot \in {"new", "remove"} /\ rm = NoRemove
  /\ pzone_num > 0
  /\ boot' = "init"
  /\ bi' = 1
  /\ UNCHANGED <<pzones, pzone_num, rm, calls, lastEnd, registered, reserved>>
  /\ UNCHANGED <<prev, curr, freepagehd, next, ppage, incs, marked>>

(* Seeded fault (mutation test of LInv): USABLE left set with no array. *)
PpagesInitNoRoomKeep ==
  /\ boot = "init" /\ bi <= pzone_num
  /\ NoRoom(pzones[bi])
  /\ bi' = bi + 1
  /\ UNCHANGED <<pzones, pzone_num, rm, boot, calls, lastEnd, registered, reserved>>
  /\ UNCHANGED <<prev, curr, freepagehd, next, ppage, incs, marked>>

(* _pzone_ppages_init(pzones + i), no room for the array: clear USABLE. *)
PpagesInitNoRoom ==
  /\ boot = "init" /\ bi <= pzone_num
  /\ NoRoom(pzones[bi])
  /\ pzones' = [pzones EXCEPT ![bi].usable = FALSE]
  /\ bi' = bi + 1
  /\ UNCHANGED <<pzone_num, rm, boot, calls, lastEnd, registered, reserved>>
  /\ UNCHANGED <<prev, curr, freepagehd, next, ppage, incs, marked>>

(* _pzone_ppages_init(pzones + i): zero the array at start, bump start. *)
PpagesInitPlace ==
  /\ boot = "init" /\ bi <= pzone_num
  /\ ~NoRoom(pzones[bi])
  /\ LET z == pzones[bi]
         new == DescAddrs(z.start, NumPages(z))
     IN /\ pzones' = [pzones EXCEPT ![bi] = Placed(z)]
        /\ ppage' = [d \in DOMAIN ppage \cup new |->
                       IF d \in new THEN ZeroPpage ELSE ppage[d]]
  /\ bi' = bi + 1
  /\ UNCHANGED <<pzone_num, rm, boot, calls, lastEnd, registered, reserved>>
  /\ UNCHANGED <<prev, curr, freepagehd, next, incs, marked>>

(* _create_free_page_list(), first loop: the first usable non-empty zone. *)
HeadCandidates ==
  {j \in 1 .. pzone_num : pzones[j].usable /\ NumPages(pzones[j]) > 0}

CreateFreeListPanic ==
  /\ boot = "init" /\ bi > pzone_num
  /\ HeadCandidates = {}
  /\ boot' = "panic"
  /\ UNCHANGED <<pzones, pzone_num, rm, calls, lastEnd, registered, reserved, memVars>>

CreateFreeList ==
  /\ boot = "init" /\ bi > pzone_num
  /\ HeadCandidates # {}
  /\ LET h == CHOOSE h \in HeadCandidates : \A k \in HeadCandidates : h <= k
     IN /\ freepagehd' = [freepagehd EXCEPT !.freepages = pzones[h].start]
        /\ prev' = pzones[h].start
        /\ bi' = h
  /\ boot' = "build"
  /\ UNCHANGED <<pzones, pzone_num, rm, calls, lastEnd, registered, reserved>>
  /\ UNCHANGED <<curr, next, ppage, incs, marked>>

(* Second loop: a zone that is not usable is skipped. *)
BuildSkipZone ==
  /\ boot = "build" /\ bi <= pzone_num /\ curr = NULL
  /\ ~pzones[bi].usable
  /\ bi' = bi + 1
  /\ UNCHANGED <<zoneVars, prev, curr, freepagehd, next, ppage, incs, marked>>

(* Seeded fault (mutation test of FreeListIntegrity): USABLE not tested. *)
BuildEnterZoneAny ==
  /\ boot = "build" /\ bi <= pzone_num /\ curr = NULL
  /\ curr' = pzones[bi].start
  /\ UNCHANGED <<zoneVars, bi, prev, freepagehd, next, ppage, incs, marked>>

(* curr = base[i].start *)
BuildEnterZone ==
  /\ boot = "build" /\ bi <= pzone_num /\ curr = NULL
  /\ pzones[bi].usable
  /\ curr' = pzones[bi].start
  /\ UNCHANGED <<zoneVars, bi, prev, freepagehd, next, ppage, incs, marked>>

(* Seeded fault (mutation test of MemTypeOK): curr <= end, one page too far. *)
BuildLinkPastEnd ==
  /\ boot = "build" /\ curr # NULL
  /\ curr <= pzones[bi].end
  /\ next' = [next EXCEPT ![prev] = curr]
  /\ freepagehd' = [freepagehd EXCEPT !.nfree = @ + 1]
  /\ prev' = curr
  /\ curr' = curr + PAGE_SIZE
  /\ UNCHANGED <<zoneVars, bi, ppage, incs, marked>>

(* Inner loop body: prev->next = curr; nfree++; prev = curr, curr++. *)
BuildLink ==
  /\ boot = "build" /\ curr # NULL
  /\ curr < pzones[bi].end
  /\ next' = [next EXCEPT ![prev] = curr]
  /\ freepagehd' = [freepagehd EXCEPT !.nfree = @ + 1]
  /\ prev' = curr
  /\ curr' = curr + PAGE_SIZE
  /\ UNCHANGED <<zoneVars, bi, ppage, incs, marked>>

(* Inner loop exits: i++ to the next zone. *)
BuildZoneEnd ==
  /\ boot = "build" /\ curr # NULL
  /\ curr >= pzones[bi].end
  /\ bi' = bi + 1
  /\ curr' = NULL
  /\ UNCHANGED <<zoneVars, prev, freepagehd, next, ppage, incs, marked>>

(* prev->next = NULL; maxfree = nfree. *)
BuildDone ==
  /\ boot = "build" /\ bi > pzone_num
  /\ next' = [next EXCEPT ![prev] = NULL]
  /\ freepagehd' = [freepagehd EXCEPT !.maxfree = freepagehd.nfree]
  /\ boot' = "ready"
  /\ UNCHANGED <<pzones, pzone_num, rm, calls, lastEnd, registered, reserved>>
  /\ UNCHANGED <<bi, prev, curr, ppage, incs, marked>>

(***************************************************************************)
(* Steady state.  The pages upper layers pass in are the pages of usable  *)
(* zones (they come off the free list) and pages no zone contains.        *)
(***************************************************************************)
LookupAddrs == UsablePages \cup Unbacked

(* ppage_mark_used(a): -1 if no zone or already USED, else pflags &= USED. *)
PpageMarkUsed(a) ==
  /\ boot = "ready"
  /\ \/ /\ PzoneFind(a) = 0
        /\ UNCHANGED <<ppage, marked>>
     \/ /\ PzoneFind(a) # 0
        /\ "PPAGE_USED" \in ppage[KvirtToPpage(a)].pflags
        /\ UNCHANGED <<ppage, marked>>
     \/ /\ PzoneFind(a) # 0
        /\ "PPAGE_USED" \notin ppage[KvirtToPpage(a)].pflags
        /\ ppage' = [ppage EXCEPT ![KvirtToPpage(a)].pflags = @ \cap PFlags]
        /\ marked' = marked \cup {a}
  /\ UNCHANGED <<zoneVars, bi, prev, curr, freepagehd, next, incs>>

(* kvirt_inc_mapcount(a): kvirt_to_ppage(a) (kpanic if unbacked), ++. *)
KvirtIncMapcount(a) ==
  /\ boot = "ready"
  /\ incs < MaxIncs
  /\ incs' = incs + 1
  /\ \/ /\ PzoneFind(a) = 0
        /\ boot' = "panic"
        /\ UNCHANGED ppage
     \/ /\ PzoneFind(a) # 0
        /\ ppage' = [ppage EXCEPT ![KvirtToPpage(a)].mapcount = @ + 1]
        /\ UNCHANGED boot
  /\ UNCHANGED <<pzones, pzone_num, rm, calls, lastEnd, registered, reserved>>
  /\ UNCHANGED <<bi, prev, curr, freepagehd, next, marked>>

(* kphys_inc_mapcount(p): the same through kphys_to_virt(p). *)
KphysIncMapcount(p) == KvirtIncMapcount(KphysToVirt(p))

(* Physical addresses whose virtual address is one of LookupAddrs. *)
LookupPhys == {(a + ADDR_MOD - VIRT_BASE) % ADDR_MOD : a \in LookupAddrs}

(* kpanic(): halt_loop() spins forever. *)
HaltLoop ==
  /\ boot = "panic"
  /\ UNCHANGED vars

MemNext ==
  \/ ZoneStep
  \/ PhysmemInitPanic \/ PhysmemInit
  \/ PpagesInitNoRoom \/ PpagesInitPlace
  \/ CreateFreeListPanic \/ CreateFreeList
  \/ BuildSkipZone \/ BuildEnterZone \/ BuildLink \/ BuildZoneEnd \/ BuildDone
  \/ \E a \in LookupAddrs : PpageMarkUsed(a) \/ KvirtIncMapcount(a)
  \/ \E p \in LookupPhys : KphysIncMapcount(p)
  \/ HaltLoop

MemSpec == MemInit /\ [][MemNext]_vars

-----------------------------------------------------------------------------
(* Type invariant. *)
MemTypeOK ==
  /\ TypeOK
  /\ bi \in 0 .. PZONE_MAX_NUM + 1
  /\ prev \in Addr
  /\ curr \in Addr
  /\ freepagehd \in [freepages : Addr, nfree : Nat, maxfree : Nat]
  /\ next \in [Addr -> Addr \cup {UNINIT}]
  /\ DOMAIN ppage \subseteq Addr
  /\ \A d \in DOMAIN ppage : ppage[d] \in Ppage
  /\ incs \in 0 .. MaxIncs
  /\ marked \subseteq Addr

(* The free list as the code's pop would walk it: Walk[k] is the k-th node. *)
Walk[k \in 0 .. ADDR_MOD] ==
  IF k = 0 THEN freepagehd.freepages
  ELSE IF Walk[k - 1] \in Addr THEN next[Walk[k - 1]] ELSE UNINIT

(***************************************************************************)
(* Once _create_free_page_list() has returned, walking the list from      *)
(* freepagehd.freepages visits nfree distinct pages, exactly the pages of *)
(* the usable zones (after the ppage{} arrays were carved off their       *)
(* fronts), and then reaches NULL; maxfree = nfree.  The head is linked   *)
(* to itself first and relinked on the next iteration, and unusable zones *)
(* are skipped, so this rests on the two loops agreeing.                   *)
(***************************************************************************)
FreeListIntegrity ==
  boot = "ready" =>
    /\ freepagehd.nfree = Cardinality(UsablePages)
    /\ freepagehd.maxfree = freepagehd.nfree
    /\ {Walk[k] : k \in 0 .. freepagehd.nfree - 1} = UsablePages
    /\ Walk[freepagehd.nfree] = NULL

(***************************************************************************)
(* A ppage{} array placed at the front of a zone by _pzone_ppages_init()  *)
(* lies outside every zone once start has been bumped past it: no free    *)
(* page, whose first word the free list overwrites, holds a descriptor.   *)
(***************************************************************************)
MetadataDisjoint ==
  \A j \in 1 .. pzone_num :
    pzones[j].ppages # NULL => ArrayBytes(j) \cap Covered = {}

(***************************************************************************)
(* kvirt_to_ppage() indexes from the bumped start: for every page of a    *)
(* usable zone it yields a ppage{} that physmem_init() zeroed, inside that *)
(* zone's own array, and two pages never share a ppage{}.                  *)
(***************************************************************************)
LookupInBounds ==
  boot = "ready" =>
    /\ \A a \in UsablePages :
         /\ KvirtToPpage(a) \in DOMAIN ppage
         /\ KvirtToPpage(a) \in ArrayBytes(PzoneFind(a))
    /\ \A a, b \in UsablePages : a # b => KvirtToPpage(a) # KvirtToPpage(b)

(***************************************************************************)
(* Spec 4.5: ppage_mark_used() sets the used flag, so a page it returned  *)
(* 0 for is USED (and a second call fails).  Checked to be violated: the  *)
(* code does pflags &= PPAGE_USED.                                         *)
(***************************************************************************)
MarkedPagesAreUsed ==
  \A a \in marked : "PPAGE_USED" \in ppage[KvirtToPpage(a)].pflags

(***************************************************************************)
(* Spec 4.3: descriptors are placed only in usable zones.  Checked to be  *)
(* violated: physmem_init() calls _pzone_ppages_init() on every zone.     *)
(***************************************************************************)
PpagesOnlyInUsable ==
  \A j \in 1 .. pzone_num : pzones[j].ppages # NULL => pzones[j].usable

=============================================================================
