-------------------------------- MODULE PZone --------------------------------
(***************************************************************************)
(* The zone registry and the zone carver of the physical memory manager,  *)
(* src/sys/mm/physmem.c: the static array pzones[PZONE_MAX_NUM] with its  *)
(* count pzone_num, pzone_new() (registration), pzone_remove() (carving)  *)
(* and pzone_find() (lookup).                                             *)
(*                                                                         *)
(* Addresses are bytes of an address space of ADDR_MOD bytes: the 64-bit  *)
(* arithmetic of kphys_to_virt() and of the ALIGN macros wraps modulo     *)
(* ADDR_MOD as the C arithmetic wraps modulo 2^64.  C's array index i     *)
(* (from 0) is slot i + 1 here.                                            *)
(*                                                                         *)
(* pzone_remove() is one call whose while loop runs one iteration per     *)
(* step (RemoveWhole ... RemoveSkip) with its locals in rm; the boot code *)
(* is single-threaded, so no other action is enabled while rm # NoRemove. *)
(***************************************************************************)
EXTENDS Integers

CONSTANTS
  PAGE_SIZE,      \* PAGE_SIZE of the kernel
  PZONE_MAX_NUM,  \* capacity of the static array pzones[]
  ADDR_MOD,       \* size of the address space (2^64 in the code)
  VIRT_BASE,      \* virt_base, the offset added by kphys_to_virt()
  PhysAddrs,      \* physical addresses the boot code passes in
  MaxCalls        \* bound on the number of pzone_new/pzone_remove calls

ASSUME PageSizeAssumption == PAGE_SIZE \in Nat \ {0}
ASSUME ModAssumption == ADDR_MOD \in Nat \ {0} /\ ADDR_MOD % PAGE_SIZE = 0
ASSUME MaxNumAssumption == PZONE_MAX_NUM \in Nat \ {0}
ASSUME VirtBaseAssumption == VIRT_BASE \in 0 .. ADDR_MOD - 1
ASSUME PhysAddrsAssumption == PhysAddrs \subseteq 0 .. ADDR_MOD - 1
ASSUME MaxCallsAssumption == MaxCalls \in Nat

VARIABLES
  pzones,     \* pzones[1..PZONE_MAX_NUM], slots past pzone_num are stale
  pzone_num,  \* number of zones in use
  rm,         \* locals of a running pzone_remove(): [i, start, end]
  boot,       \* where the boot sequence is (the caller's state)
  calls,      \* number of registry calls made so far (bounded)
  lastEnd,    \* end of the last pzone_new() range (caller's contract)
  registered, \* ghost: virtual addresses some pzone_new() added
  reserved    \* ghost: virtual addresses some pzone_remove() removed

zoneVars == <<pzones, pzone_num, rm, boot, calls, lastEnd, registered, reserved>>

NULL == 0
Addr == 0 .. ADDR_MOD - 1
Slots == 1 .. PZONE_MAX_NUM
NoRemove == [i |-> 0, start |-> 0, end |-> 0]
RemoveLocals == [i : 1 .. PZONE_MAX_NUM + 2, start : Addr, end : Addr]

(* struct pzone{}: zflags reduced to its PZONE_USABLE bit. *)
Zone == [start : Addr, end : Addr, usable : BOOLEAN, ppages : Addr]
ZeroZone == [start |-> 0, end |-> 0, usable |-> FALSE, ppages |-> NULL]

(* The stages of the boot sequence; PhysMem adds the ones after carving. *)
BootStages == {"new", "remove", "init", "build", "ready", "panic"}

(* kphys_to_virt(): addition of virt_base, wrapping like uint64_t. *)
KphysToVirt(a) == (a + VIRT_BASE) % ADDR_MOD

(* ALIGN_UP / ALIGN_DOWN to PAGE_SIZE (the macros live outside src/). *)
AlignDown(x) == x - (x % PAGE_SIZE)
AlignUp(x) == AlignDown((x + PAGE_SIZE - 1) % ADDR_MOD)

(* The addresses of a zone's half-open range [start, end). *)
ZoneAddrs(z) == z.start .. z.end - 1
Covered == UNION {ZoneAddrs(pzones[j]) : j \in 1 .. pzone_num}

(* _pzone_fill_entry(): a fresh zone with no ppage array. *)
FillEntry(s, e, usable) ==
  [start |-> s, end |-> e, usable |-> usable, ppages |-> NULL]

(* pzone_find(): index of the first zone in use containing a, 0 if none. *)
Contains(j, a) == pzones[j].start <= a /\ a < pzones[j].end
PzoneFind(a) ==
  IF \E j \in 1 .. pzone_num : Contains(j, a)
  THEN CHOOSE j \in 1 .. pzone_num :
         Contains(j, a) /\ \A k \in 1 .. j - 1 : ~Contains(k, a)
  ELSE 0

-----------------------------------------------------------------------------
Init ==
  /\ pzones = [j \in Slots |-> ZeroZone]
  /\ pzone_num = 0
  /\ rm = NoRemove
  /\ boot = "new"
  /\ calls = 0
  /\ lastEnd = 0
  /\ registered = {}
  /\ reserved = {}

(* Seeded fault (mutation test of ZonesWellFormed): no page-0 bump. *)
PzoneNewNoBump(s, e, usable) ==
  LET vs == AlignUp(KphysToVirt(s))
      ve == AlignDown(KphysToVirt(e))
  IN /\ boot = "new"
     /\ calls < MaxCalls
     /\ lastEnd <= s
     /\ calls' = calls + 1
     /\ lastEnd' = e
     /\ \/ /\ pzone_num >= PZONE_MAX_NUM \/ ve <= vs
           /\ UNCHANGED <<pzones, pzone_num, registered>>
        \/ /\ pzone_num < PZONE_MAX_NUM /\ vs < ve
           /\ pzones' = [pzones EXCEPT ![pzone_num + 1] = FillEntry(vs, ve, usable)]
           /\ pzone_num' = pzone_num + 1
           /\ registered' = registered \cup (vs .. ve - 1)
     /\ UNCHANGED <<rm, boot, reserved>>

(***************************************************************************)
(* pzone_new(startpage, endpage, zflags).  The caller registers ranges in *)
(* increasing order, without overlap, before any pzone_remove().          *)
(***************************************************************************)
PzoneNew(s, e, usable) ==
  LET vs == AlignUp(KphysToVirt(s))
      ve == AlignDown(KphysToVirt(e))
      start == IF vs = 0 THEN vs + PAGE_SIZE ELSE vs
  IN /\ boot = "new"
     /\ calls < MaxCalls
     /\ lastEnd <= s
     /\ calls' = calls + 1
     /\ lastEnd' = e
     /\ \/ /\ pzone_num >= PZONE_MAX_NUM \/ ve <= start
           /\ UNCHANGED <<pzones, pzone_num, registered>>
        \/ /\ pzone_num < PZONE_MAX_NUM /\ start < ve
           /\ pzones' = [pzones EXCEPT ![pzone_num + 1] = FillEntry(start, ve, usable)]
           /\ pzone_num' = pzone_num + 1
           /\ registered' = registered \cup (start .. ve - 1)
     /\ UNCHANGED <<rm, boot, reserved>>

(* pzone_remove(startpage, endpage): entry, alignment and early return. *)
PzoneRemove(s, e) ==
  LET vs == AlignDown(KphysToVirt(s))
      ve == AlignUp(KphysToVirt(e))
  IN /\ boot \in {"new", "remove"}
     /\ rm = NoRemove
     /\ calls < MaxCalls
     /\ calls' = calls + 1
     /\ boot' = "remove"
     /\ \/ /\ ve <= vs
           /\ UNCHANGED <<rm, reserved>>
        \/ /\ vs < ve
           /\ rm' = [i |-> 1, start |-> vs, end |-> ve]
           /\ reserved' = reserved \cup (vs .. ve - 1)
     /\ UNCHANGED <<pzones, pzone_num, lastEnd, registered>>

(* The four overlap cases of the loop body, tested in the code's order. *)
CoversWhole(z) == rm.start <= z.start /\ z.end <= rm.end
CutsFront(z) == rm.start <= z.start /\ z.start < rm.end
CutsBack(z) == rm.start < z.end /\ z.end <= rm.end
CutsMiddle(z) == z.start < rm.start /\ rm.end < z.end

InLoop == rm # NoRemove /\ rm.i <= pzone_num
Cur == pzones[rm.i]

(* Seeded faults (mutation tests of ZonesDisjoint and CarvedCoverage): *)
(* pzone_num not decremented; i advanced after a deletion.              *)
RemoveWholeNoDec ==
  /\ InLoop /\ CoversWhole(Cur)
  /\ pzones' = [j \in Slots |->
                  IF rm.i <= j /\ j < pzone_num THEN pzones[j + 1]
                  ELSE IF j = rm.i THEN ZeroZone
                  ELSE pzones[j]]
  /\ UNCHANGED <<pzone_num, rm, boot, calls, lastEnd, registered, reserved>>

RemoveWholeAdvance ==
  /\ InLoop /\ CoversWhole(Cur)
  /\ pzones' = [j \in Slots |->
                  IF rm.i <= j /\ j < pzone_num THEN pzones[j + 1]
                  ELSE IF j = rm.i THEN ZeroZone
                  ELSE pzones[j]]
  /\ pzone_num' = pzone_num - 1
  /\ rm' = [rm EXCEPT !.i = @ + 1]
  /\ UNCHANGED <<boot, calls, lastEnd, registered, reserved>>

(* Case 1: memset the slot, memmove the rest down, don't advance i. *)
RemoveWhole ==
  /\ InLoop /\ CoversWhole(Cur)
  /\ pzones' = [j \in Slots |->
                  IF rm.i <= j /\ j < pzone_num THEN pzones[j + 1]
                  ELSE IF j = rm.i THEN ZeroZone
                  ELSE pzones[j]]
  /\ pzone_num' = pzone_num - 1
  /\ UNCHANGED <<rm, boot, calls, lastEnd, registered, reserved>>

(* Case 2: the range covers the zone's start: start = endpage. *)
RemoveFront ==
  /\ InLoop /\ ~CoversWhole(Cur) /\ CutsFront(Cur)
  /\ pzones' = [pzones EXCEPT ![rm.i].start = rm.end]
  /\ rm' = [rm EXCEPT !.i = @ + 1]
  /\ UNCHANGED <<pzone_num, boot, calls, lastEnd, registered, reserved>>

(* Case 3: the range covers the zone's end: end = startpage. *)
RemoveBack ==
  /\ InLoop /\ ~CoversWhole(Cur) /\ ~CutsFront(Cur) /\ CutsBack(Cur)
  /\ pzones' = [pzones EXCEPT ![rm.i].end = rm.start]
  /\ rm' = [rm EXCEPT !.i = @ + 1]
  /\ UNCHANGED <<pzone_num, boot, calls, lastEnd, registered, reserved>>

(* Seeded fault (mutation test of TypeOK): split without the capacity check. *)
RemoveSplitNoCheck ==
  /\ InLoop /\ CutsMiddle(Cur)
  /\ pzones' = [j \in Slots |->
                  IF j = rm.i THEN [Cur EXCEPT !.end = rm.start]
                  ELSE IF j = rm.i + 1 THEN FillEntry(rm.end, Cur.end, Cur.usable)
                  ELSE IF rm.i + 2 <= j /\ j <= pzone_num + 1 THEN pzones[j - 1]
                  ELSE pzones[j]]
  /\ pzone_num' = pzone_num + 1
  /\ rm' = [rm EXCEPT !.i = @ + 2]
  /\ UNCHANGED <<boot, calls, lastEnd, registered, reserved>>

(* Case 4, room left: shrink, memmove the rest up, fill slot i + 1, i += 2. *)
RemoveSplit ==
  /\ InLoop /\ CutsMiddle(Cur)
  /\ pzone_num < PZONE_MAX_NUM
  /\ pzones' = [j \in Slots |->
                  IF j = rm.i THEN [Cur EXCEPT !.end = rm.start]
                  ELSE IF j = rm.i + 1 THEN FillEntry(rm.end, Cur.end, Cur.usable)
                  ELSE IF rm.i + 2 <= j /\ j <= pzone_num + 1 THEN pzones[j - 1]
                  ELSE pzones[j]]
  /\ pzone_num' = pzone_num + 1
  /\ rm' = [rm EXCEPT !.i = @ + 2]
  /\ UNCHANGED <<boot, calls, lastEnd, registered, reserved>>

(* Case 4, array full: end = startpage already done, printk, continue.   *)
(* The tail [endpage, oldend) is dropped and i is not advanced.           *)
RemoveSplitFull ==
  /\ InLoop /\ CutsMiddle(Cur)
  /\ pzone_num >= PZONE_MAX_NUM
  /\ pzones' = [pzones EXCEPT ![rm.i].end = rm.start]
  /\ UNCHANGED <<pzone_num, rm, boot, calls, lastEnd, registered, reserved>>

(* No overlap: i++. *)
RemoveSkip ==
  /\ InLoop
  /\ ~CoversWhole(Cur) /\ ~CutsFront(Cur) /\ ~CutsBack(Cur) /\ ~CutsMiddle(Cur)
  /\ rm' = [rm EXCEPT !.i = @ + 1]
  /\ UNCHANGED <<pzones, pzone_num, boot, calls, lastEnd, registered, reserved>>

(* The loop condition i < pzone_num fails: pzone_remove() returns. *)
RemoveDone ==
  /\ rm # NoRemove /\ rm.i > pzone_num
  /\ rm' = NoRemove
  /\ UNCHANGED <<pzones, pzone_num, boot, calls, lastEnd, registered, reserved>>

RemoveLoop ==
  \/ RemoveWhole \/ RemoveFront \/ RemoveBack
  \/ RemoveSplit \/ RemoveSplitFull \/ RemoveSkip \/ RemoveDone

ZoneNext ==
  \/ \E s, e \in PhysAddrs, u \in BOOLEAN : s < e /\ PzoneNew(s, e, u)
  \/ \E s, e \in PhysAddrs : s < e /\ PzoneRemove(s, e)
  \/ RemoveLoop

-----------------------------------------------------------------------------
(* Type invariant. *)
TypeOK ==
  /\ pzones \in [Slots -> Zone]
  /\ pzone_num \in 0 .. PZONE_MAX_NUM
  /\ rm \in {NoRemove} \cup RemoveLocals
  /\ boot \in BootStages
  /\ calls \in 0 .. MaxCalls
  /\ lastEnd \in Addr
  /\ registered \subseteq Addr
  /\ reserved \subseteq Addr

ZoneSpec == Init /\ [][ZoneNext]_zoneVars

(* The physical addresses callers pass neither wrap when kphys_to_virt()  *)
(* converts them nor when ALIGN_UP rounds them up.  The proofs of the     *)
(* registry's safety assume it; MC_PZone_AlignWrap shows what happens     *)
(* without it.                                                             *)
NoWrap == \A a \in PhysAddrs : a + VIRT_BASE + PAGE_SIZE - 1 < ADDR_MOD

(***************************************************************************)
(* Every zone in use is a non-empty, page-aligned range that does not     *)
(* contain address 0: pzone_new() bumps a zone starting at virtual 0 one  *)
(* page up, and the carver only ever shrinks or splits zones.  Address 0  *)
(* is NULL, the terminator of the free list built from these zones.       *)
(***************************************************************************)
ZonesWellFormed ==
  \A j \in 1 .. pzone_num :
    /\ 0 < pzones[j].start
    /\ pzones[j].start < pzones[j].end
    /\ pzones[j].start % PAGE_SIZE = 0
    /\ pzones[j].end % PAGE_SIZE = 0

(***************************************************************************)
(* No two zones in use overlap, after any sequence of pzone_new() and     *)
(* pzone_remove() calls: the memmove compaction of a deleted slot and the *)
(* memmove that opens a slot for a split never duplicate or lose a zone.  *)
(***************************************************************************)
ZonesDisjoint ==
  \A j, k \in 1 .. pzone_num :
    j # k => ZoneAddrs(pzones[j]) \cap ZoneAddrs(pzones[k]) = {}

(***************************************************************************)
(* Once pzone_remove() has returned, no zone covers an address some       *)
(* removal asked to exclude, nor one no registration added.  This needs   *)
(* the loop not to advance i after a deletion, since the zone compacted   *)
(* into slot i has not been examined yet.                                  *)
(***************************************************************************)
CarvedCoverage ==
  rm = NoRemove => Covered \subseteq registered \ reserved

=============================================================================
