----------------------------- MODULE PZoneProofs -----------------------------
(***************************************************************************)
(* Proofs about the zone registry and carver of PZone, for every value of *)
(* the constants that satisfies PZone's assumptions.                       *)
(***************************************************************************)
EXTENDS PZone, TLAPS

USE PageSizeAssumption, ModAssumption, MaxNumAssumption, VirtBaseAssumption,
    PhysAddrsAssumption, MaxCallsAssumption

(* kphys_to_virt() stays in the address space. *)
LEMMA KphysToVirtType ==
  ASSUME NEW a \in Addr
  PROVE  KphysToVirt(a) \in Addr
BY DEF KphysToVirt, Addr

(* ALIGN_DOWN of an address is an aligned address no larger than it. *)
LEMMA AlignDownType ==
  ASSUME NEW x \in Addr
  PROVE  /\ AlignDown(x) \in Addr
         /\ AlignDown(x) <= x
         /\ AlignDown(x) % PAGE_SIZE = 0
BY DEF AlignDown, Addr

(* ALIGN_UP, wrapping modulo the address space, is an aligned address. *)
LEMMA AlignUpType ==
  ASSUME NEW x \in Addr
  PROVE  /\ AlignUp(x) \in Addr
         /\ AlignUp(x) % PAGE_SIZE = 0
<1>1. (x + PAGE_SIZE - 1) % ADDR_MOD \in Addr
  BY DEF Addr
<1>2. QED
  BY <1>1, AlignDownType DEF AlignUp

-----------------------------------------------------------------------------
(* pzone_new() keeps TypeOK: the appended zone is built from addresses. *)
LEMMA NewTypeOK ==
  ASSUME TypeOK, NEW s \in PhysAddrs, NEW e \in PhysAddrs, NEW u \in BOOLEAN,
         PzoneNew(s, e, u)
  PROVE  TypeOK'
<1> DEFINE vs == AlignUp(KphysToVirt(s))
           ve == AlignDown(KphysToVirt(e))
           st == IF vs = 0 THEN vs + PAGE_SIZE ELSE vs
<1>1. vs \in Addr /\ ve \in Addr
  BY KphysToVirtType, AlignUpType, AlignDownType DEF Addr
<1>2. /\ calls' \in 0 .. MaxCalls
      /\ lastEnd' \in Addr
      /\ UNCHANGED <<rm, boot, reserved>>
  BY DEF PzoneNew, TypeOK, Addr
<1>3. \/ /\ pzone_num >= PZONE_MAX_NUM \/ ve <= st
         /\ UNCHANGED <<pzones, pzone_num, registered>>
      \/ /\ pzone_num < PZONE_MAX_NUM /\ st < ve
         /\ pzones' = [pzones EXCEPT ![pzone_num + 1] = FillEntry(st, ve, u)]
         /\ pzone_num' = pzone_num + 1
         /\ registered' = registered \cup (st .. ve - 1)
  BY Zenon DEF PzoneNew
<1> HIDE DEF vs, ve, st
<1>4. CASE UNCHANGED <<pzones, pzone_num, registered>>
  BY <1>2, <1>4 DEF TypeOK, Addr
<1>5. CASE /\ pzone_num < PZONE_MAX_NUM /\ st < ve
           /\ pzones' = [pzones EXCEPT ![pzone_num + 1] = FillEntry(st, ve, u)]
           /\ pzone_num' = pzone_num + 1
           /\ registered' = registered \cup (st .. ve - 1)
  <2>1. st \in Addr
    BY <1>1, <1>5 DEF Addr, st
  <2>2. FillEntry(st, ve, u) \in Zone
    BY <1>1, <2>1 DEF FillEntry, Zone, NULL, Addr
  <2>3. pzones' \in [Slots -> Zone]
    BY <1>5, <2>2 DEF TypeOK, Slots
  <2>4. pzone_num' \in 0 .. PZONE_MAX_NUM
    BY <1>5 DEF TypeOK
  <2>5. registered' \subseteq Addr
    BY <1>1, <2>1, <1>5 DEF TypeOK, Addr
  <2>6. QED
    BY <1>2, <2>3, <2>4, <2>5 DEF TypeOK, Addr
<1>6. QED
  BY <1>3, <1>4, <1>5

(* pzone_remove()'s entry keeps TypeOK: the loop locals start at slot 1. *)
LEMMA RemoveTypeOK ==
  ASSUME TypeOK, NEW s \in PhysAddrs, NEW e \in PhysAddrs, PzoneRemove(s, e)
  PROVE  TypeOK'
<1> DEFINE vs == AlignDown(KphysToVirt(s))
           ve == AlignUp(KphysToVirt(e))
<1>1. vs \in Addr /\ ve \in Addr
  BY KphysToVirtType, AlignUpType, AlignDownType DEF Addr
<1>2. /\ calls' \in 0 .. MaxCalls
      /\ boot' \in BootStages
      /\ UNCHANGED <<pzones, pzone_num, lastEnd, registered>>
  BY DEF PzoneRemove, TypeOK, BootStages
<1>3. \/ UNCHANGED <<rm, reserved>>
      \/ /\ rm' = [i |-> 1, start |-> vs, end |-> ve]
         /\ reserved' = reserved \cup (vs .. ve - 1)
  BY Zenon DEF PzoneRemove
<1> HIDE DEF vs, ve
<1>4. CASE UNCHANGED <<rm, reserved>>
  BY <1>2, <1>4 DEF TypeOK
<1>5. CASE /\ rm' = [i |-> 1, start |-> vs, end |-> ve]
           /\ reserved' = reserved \cup (vs .. ve - 1)
  <2>1. rm' \in RemoveLocals
    BY <1>1, <1>5 DEF RemoveLocals
  <2>2. reserved' \subseteq Addr
    BY <1>1, <1>5 DEF TypeOK, Addr
  <2>3. QED
    BY <1>2, <2>1, <2>2 DEF TypeOK
<1>6. QED
  BY <1>3, <1>4, <1>5

(* Inside the remove loop the locals are set and slot i holds a zone. *)
LEMMA LoopFacts ==
  ASSUME TypeOK, rm # NoRemove
  PROVE  /\ rm \in RemoveLocals
         /\ rm.i <= pzone_num => rm.i \in Slots /\ Cur \in Zone
BY DEF TypeOK, RemoveLocals, Slots, Cur

(* Each iteration of the remove loop keeps TypeOK. *)
LEMMA LoopTypeOK ==
  ASSUME TypeOK, RemoveLoop
  PROVE  TypeOK'
<1>0. rm # NoRemove
  BY DEF RemoveLoop, RemoveWhole, RemoveFront, RemoveBack, RemoveSplit,
         RemoveSplitFull, RemoveSkip, RemoveDone, InLoop
<1>00. /\ rm \in RemoveLocals
       /\ InLoop => rm.i \in Slots /\ Cur \in Zone
  BY <1>0, LoopFacts DEF InLoop
<1>. USE <1>0, <1>00
<1>1. CASE RemoveWhole
  <2>1. ZeroZone \in Zone
    BY DEF ZeroZone, NULL, Zone, Addr
  <2>2. pzones' \in [Slots -> Zone]
    BY <1>1, <2>1 DEF RemoveWhole, InLoop, TypeOK, Slots
  <2>3. pzone_num' \in 0 .. PZONE_MAX_NUM
    BY <1>1 DEF RemoveWhole, InLoop, TypeOK, RemoveLocals
  <2>4. QED
    BY <1>1, <2>2, <2>3 DEF RemoveWhole, TypeOK
<1>2. CASE RemoveFront
  <2>1. pzones' \in [Slots -> Zone]
    BY <1>2 DEF RemoveFront, InLoop, TypeOK, Zone, RemoveLocals
  <2>2. rm' \in RemoveLocals
    BY <1>2 DEF RemoveFront, InLoop, TypeOK, RemoveLocals
  <2>3. QED
    BY <1>2, <2>1, <2>2 DEF RemoveFront, TypeOK
<1>3. CASE RemoveBack
  <2>1. pzones' \in [Slots -> Zone]
    BY <1>3 DEF RemoveBack, InLoop, TypeOK, Zone, RemoveLocals
  <2>2. rm' \in RemoveLocals
    BY <1>3 DEF RemoveBack, InLoop, TypeOK, RemoveLocals
  <2>3. QED
    BY <1>3, <2>1, <2>2 DEF RemoveBack, TypeOK
<1>4. CASE RemoveSplit
  <2>1. FillEntry(rm.end, Cur.end, Cur.usable) \in Zone
    BY <1>4 DEF RemoveSplit, InLoop, FillEntry, NULL, Zone, RemoveLocals, Addr
  <2>2. [Cur EXCEPT !.end = rm.start] \in Zone
    BY <1>4 DEF RemoveSplit, InLoop, Zone, RemoveLocals
  <2>3. pzones' \in [Slots -> Zone]
    <3>1. ASSUME NEW j \in Slots, j >= rm.i + 2, j <= pzone_num + 1
          PROVE  j - 1 \in Slots
      BY <3>1 DEF InLoop, Slots, RemoveLocals
    <3>2. \A j \in Slots : pzones[j] \in Zone
      BY DEF TypeOK
    <3>3. QED
      BY <1>4, <2>1, <2>2, <3>1, <3>2 DEF RemoveSplit
  <2>4. rm' \in RemoveLocals /\ pzone_num' \in 0 .. PZONE_MAX_NUM
    BY <1>4 DEF RemoveSplit, InLoop, TypeOK, RemoveLocals
  <2>5. QED
    BY <1>4, <2>3, <2>4 DEF RemoveSplit, TypeOK
<1>5. CASE RemoveSplitFull
  <2>1. pzones' \in [Slots -> Zone]
    BY <1>5 DEF RemoveSplitFull, InLoop, TypeOK, Zone, RemoveLocals
  <2>2. QED
    BY <1>5, <2>1 DEF RemoveSplitFull, TypeOK
<1>6. CASE RemoveSkip
  <2>1. rm' \in RemoveLocals
    BY <1>6 DEF RemoveSkip, InLoop, TypeOK, RemoveLocals
  <2>2. QED
    BY <1>6, <2>1 DEF RemoveSkip, TypeOK
<1>7. CASE RemoveDone
  BY <1>7 DEF RemoveDone, TypeOK
<1>8. QED
  BY <1>1, <1>2, <1>3, <1>4, <1>5, <1>6, <1>7 DEF RemoveLoop

(***************************************************************************)
(* Type correctness of the registry: every reachable state has a          *)
(* pzones[] array of zones, a count within the capacity PZONE_MAX_NUM and *)
(* a remove-loop index within the array plus the split's double step.     *)
(***************************************************************************)
THEOREM TypeCorrect == ZoneSpec => []TypeOK
<1>1. Init => TypeOK
  BY DEF Init, TypeOK, ZeroZone, Zone, NULL, Slots, Addr, BootStages
<1>2. TypeOK /\ [ZoneNext]_zoneVars => TypeOK'
  <2> SUFFICES ASSUME TypeOK, [ZoneNext]_zoneVars PROVE TypeOK'
    OBVIOUS
  <2>1. CASE \E s, e \in PhysAddrs, u \in BOOLEAN : s < e /\ PzoneNew(s, e, u)
    BY <2>1, NewTypeOK
  <2>2. CASE \E s, e \in PhysAddrs : s < e /\ PzoneRemove(s, e)
    BY <2>2, RemoveTypeOK
  <2>3. CASE RemoveLoop
    BY <2>3, LoopTypeOK
  <2>4. CASE UNCHANGED zoneVars
    BY <2>4 DEF TypeOK, zoneVars
  <2>5. QED
    BY <2>1, <2>2, <2>3, <2>4 DEF ZoneNext
<1>3. QED
  BY <1>1, <1>2, PTL DEF ZoneSpec

-----------------------------------------------------------------------------
(***************************************************************************)
(* The registry's safety.  ZonesDisjoint and CarvedCoverage are not       *)
(* inductive: in the middle of a pzone_remove() loop, the zones from slot *)
(* i on may still overlap the range being removed, and pzone_new() needs  *)
(* every zone to lie below the next registration.  The strengthening      *)
(* states both, and states disjointness by the ranges' bounds.            *)
(***************************************************************************)

(* The aligned, non-empty range of the pzone_remove() in progress. *)
RmOK ==
  rm # NoRemove =>
    /\ rm.start < rm.end
    /\ rm.start % PAGE_SIZE = 0
    /\ rm.end % PAGE_SIZE = 0

(* Disjointness by bounds: of two zones in use, one ends before the other. *)
Separated ==
  \A j, k \in 1 .. pzone_num :
    j # k => pzones[j].end <= pzones[k].start \/ pzones[k].end <= pzones[j].start

(* While registering: nothing removed, every zone below the next range.  *)
BelowNext ==
  boot = "new" =>
    /\ rm = NoRemove
    /\ reserved = {}
    /\ \A j \in 1 .. pzone_num : pzones[j].end <= lastEnd + VIRT_BASE

(* Every covered address was registered, and a removed one is still in a *)
(* zone only if that zone is at or after slot i of the loop in progress  *)
(* and the address is in the range being removed.                         *)
Unprocessed ==
  \A j \in 1 .. pzone_num : \A a \in ZoneAddrs(pzones[j]) :
    /\ a \in registered
    /\ a \in reserved =>
         rm # NoRemove /\ rm.i <= j /\ rm.start <= a /\ a < rm.end

IInv == TypeOK /\ RmOK /\ ZonesWellFormed /\ Separated /\ BelowNext /\ Unprocessed

(* Without wrap-around, kphys_to_virt() is the plain sum, ALIGN_UP rounds *)
(* up and ALIGN_DOWN rounds down.                                           *)
LEMMA NoWrapAlign ==
  ASSUME NoWrap, NEW a \in PhysAddrs
  PROVE  /\ KphysToVirt(a) = a + VIRT_BASE
         /\ AlignUp(KphysToVirt(a)) >= a + VIRT_BASE
         /\ AlignDown(KphysToVirt(a)) <= a + VIRT_BASE
<1>1. a \in Addr /\ a + VIRT_BASE + PAGE_SIZE - 1 < ADDR_MOD
  BY DEF NoWrap, Addr
<1>2. KphysToVirt(a) = a + VIRT_BASE
  BY <1>1 DEF KphysToVirt, Addr
<1>3. (a + VIRT_BASE + PAGE_SIZE - 1) % ADDR_MOD = a + VIRT_BASE + PAGE_SIZE - 1
  BY <1>1 DEF Addr
<1>4. (a + VIRT_BASE + PAGE_SIZE - 1) % PAGE_SIZE <= PAGE_SIZE - 1
  BY <1>1 DEF Addr
<1>5. AlignUp(a + VIRT_BASE) >= a + VIRT_BASE
  BY <1>1, <1>3, <1>4 DEF AlignUp, AlignDown, Addr
<1>6. QED
  BY <1>1, <1>2, <1>5, AlignDownType DEF Addr

(* The empty registry satisfies the strengthening. *)
LEMMA InitIInv == Init => IInv
BY DEF Init, IInv, TypeOK, ZeroZone, Zone, NULL, Slots, Addr, BootStages,
       RmOK, ZonesWellFormed, Separated, BelowNext, Unprocessed

(* pzone_new() appends a zone above every zone so far, or changes nothing *)
(* but the caller's bookkeeping.                                           *)
LEMMA NewIInv ==
  ASSUME NoWrap, IInv, NEW s \in PhysAddrs, NEW e \in PhysAddrs,
         NEW u \in BOOLEAN, s < e, PzoneNew(s, e, u)
  PROVE  IInv'
<1> DEFINE vs == AlignUp(KphysToVirt(s))
           ve == AlignDown(KphysToVirt(e))
           st == IF vs = 0 THEN vs + PAGE_SIZE ELSE vs
<1>1. /\ vs \in Addr /\ ve \in Addr
      /\ vs % PAGE_SIZE = 0 /\ ve % PAGE_SIZE = 0
      /\ vs >= s + VIRT_BASE /\ ve <= e + VIRT_BASE
  BY NoWrapAlign, KphysToVirtType, AlignUpType, AlignDownType DEF Addr
<1>2. /\ st \in Nat /\ st > 0 /\ st % PAGE_SIZE = 0 /\ st >= s + VIRT_BASE
  <2>1. s \in Addr /\ e \in Addr
    BY DEF Addr
  <2>2. CASE vs = 0
    <3>1. PAGE_SIZE % PAGE_SIZE = 0
      OBVIOUS
    <3>2. QED
      BY <1>1, <2>1, <2>2, <3>1 DEF Addr, st
  <2>3. CASE vs # 0
    BY <1>1, <2>3 DEF Addr, st
  <2>4. QED
    BY <2>2, <2>3
<1>3. /\ boot = "new" /\ boot' = "new" /\ lastEnd <= s /\ lastEnd' = e
      /\ UNCHANGED <<rm, reserved>>
  BY DEF PzoneNew
<1>4. \/ /\ pzone_num >= PZONE_MAX_NUM \/ ve <= st
         /\ UNCHANGED <<pzones, pzone_num, registered>>
      \/ /\ pzone_num < PZONE_MAX_NUM /\ st < ve
         /\ pzones' = [pzones EXCEPT ![pzone_num + 1] = FillEntry(st, ve, u)]
         /\ pzone_num' = pzone_num + 1
         /\ registered' = registered \cup (st .. ve - 1)
  BY Zenon DEF PzoneNew
<1>5. TypeOK'
  BY NewTypeOK DEF IInv
<1>6. /\ rm = NoRemove /\ reserved = {}
      /\ \A j \in 1 .. pzone_num : pzones[j].end <= lastEnd + VIRT_BASE
  BY <1>3 DEF IInv, BelowNext
<1>60. /\ s \in Nat /\ e \in Nat /\ lastEnd \in Nat /\ VIRT_BASE \in Nat
       /\ lastEnd + VIRT_BASE <= e + VIRT_BASE
  BY <1>3 DEF IInv, TypeOK, Addr
<1> HIDE DEF vs, ve, st
<1>7. RmOK'
  BY <1>3, <1>6 DEF RmOK
<1>8. CASE UNCHANGED <<pzones, pzone_num, registered>>
  <2>1. (ZonesWellFormed /\ Separated /\ Unprocessed)'
    BY <1>3, <1>8 DEF IInv, ZonesWellFormed, Separated, Unprocessed, ZoneAddrs
  <2>2. BelowNext'
    <3>1. \A j \in 1 .. pzone_num : pzones[j].end \in Nat
      BY DEF IInv, TypeOK, Zone, Addr, Slots
    <3>2. \A j \in 1 .. pzone_num' : pzones'[j].end <= lastEnd' + VIRT_BASE
      BY <1>3, <1>6, <1>60, <1>8, <3>1
    <3>3. QED
      BY <1>3, <1>6, <3>2 DEF BelowNext
  <2>3. QED
    BY <1>5, <1>7, <2>1, <2>2 DEF IInv
<1>9. CASE /\ pzone_num < PZONE_MAX_NUM /\ st < ve
           /\ pzones' = [pzones EXCEPT ![pzone_num + 1] = FillEntry(st, ve, u)]
           /\ pzone_num' = pzone_num + 1
           /\ registered' = registered \cup (st .. ve - 1)
  <2> DEFINE n == pzone_num + 1
  <2>1. /\ n \in Slots /\ pzone_num \in Nat
        /\ pzones'[n] = [start |-> st, end |-> ve, usable |-> u, ppages |-> NULL]
        /\ \A j \in 1 .. pzone_num : pzones'[j] = pzones[j]
        /\ 1 .. pzone_num' = (1 .. pzone_num) \cup {n}
    BY <1>9 DEF IInv, TypeOK, Slots, FillEntry
  <2>0. \A j \in 1 .. pzone_num : pzones[j].end \in Nat
    BY DEF IInv, TypeOK, Zone, Addr, Slots
  <2>2. \A j \in 1 .. pzone_num : pzones[j].end <= st
    BY <1>2, <1>3, <1>6, <1>60, <2>0
  <2>3. ZonesWellFormed'
    BY <1>1, <1>2, <1>9, <2>1 DEF IInv, ZonesWellFormed
  <2>4. Separated'
    BY <2>1, <2>2 DEF IInv, Separated
  <2>5. BelowNext'
    <3>1. \A j \in 1 .. pzone_num' : pzones'[j].end <= lastEnd' + VIRT_BASE
      BY <1>1, <1>3, <1>6, <1>60, <2>0, <2>1
    <3>2. QED
      BY <1>3, <1>6, <3>1 DEF BelowNext
  <2>6. Unprocessed'
    BY <1>3, <1>6, <1>9, <2>1 DEF IInv, Unprocessed, ZoneAddrs
  <2>7. QED
    BY <1>5, <1>7, <2>3, <2>4, <2>5, <2>6 DEF IInv
<1>10. QED
  BY <1>4, <1>8, <1>9

(* pzone_remove()'s entry: a new aligned range, the loop at slot 1.  The *)
(* zones are unchanged, so every removed address in a zone lies in it.   *)
LEMMA RemoveIInv ==
  ASSUME IInv, NEW s \in PhysAddrs, NEW e \in PhysAddrs, PzoneRemove(s, e)
  PROVE  IInv'
<1> DEFINE vs == AlignDown(KphysToVirt(s))
           ve == AlignUp(KphysToVirt(e))
<1>1. /\ vs \in Addr /\ ve \in Addr
      /\ vs % PAGE_SIZE = 0 /\ ve % PAGE_SIZE = 0
  BY KphysToVirtType, AlignUpType, AlignDownType DEF Addr
<1>2. /\ rm = NoRemove /\ boot' = "remove"
      /\ UNCHANGED <<pzones, pzone_num, registered>>
  BY DEF PzoneRemove
<1>3. \/ UNCHANGED <<rm, reserved>>
      \/ /\ vs < ve
         /\ rm' = [i |-> 1, start |-> vs, end |-> ve]
         /\ reserved' = reserved \cup (vs .. ve - 1)
  BY Zenon DEF PzoneRemove
<1>4. TypeOK'
  BY RemoveTypeOK DEF IInv
<1>5. BelowNext'
  BY <1>2 DEF BelowNext
<1>6. (ZonesWellFormed /\ Separated)'
  BY <1>2 DEF IInv, ZonesWellFormed, Separated
<1> HIDE DEF vs, ve
<1>7. CASE UNCHANGED <<rm, reserved>>
  <2>1. (RmOK /\ Unprocessed)'
    BY <1>2, <1>7 DEF IInv, RmOK, Unprocessed, ZoneAddrs
  <2>2. QED
    BY <1>4, <1>5, <1>6, <2>1 DEF IInv
<1>8. CASE /\ vs < ve
           /\ rm' = [i |-> 1, start |-> vs, end |-> ve]
           /\ reserved' = reserved \cup (vs .. ve - 1)
  <2>1. RmOK'
    BY <1>1, <1>8 DEF RmOK, NoRemove
  <2>2. \A j \in 1 .. pzone_num : \A a \in ZoneAddrs(pzones[j]) : a \notin reserved
    BY <1>2 DEF IInv, Unprocessed
  <2>3. Unprocessed'
    <3> SUFFICES ASSUME NEW j \in 1 .. pzone_num', NEW a \in ZoneAddrs(pzones'[j])
                 PROVE  /\ a \in registered'
                        /\ a \in reserved' =>
                             rm' # NoRemove /\ rm'.i <= j /\ rm'.start <= a /\ a < rm'.end
      BY DEF Unprocessed
    <3>1. j \in 1 .. pzone_num /\ a \in ZoneAddrs(pzones[j])
      BY <1>2
    <3>2. a \in registered /\ a \notin reserved
      BY <3>1, <2>2 DEF IInv, Unprocessed
    <3>3. a \in reserved' => a \in vs .. ve - 1
      BY <1>8, <3>2
    <3>4. rm' # NoRemove /\ rm'.i = 1 /\ rm'.start = vs /\ rm'.end = ve
      BY <1>8 DEF NoRemove
    <3>5. QED
      BY <1>1, <1>2, <3>1, <3>2, <3>3, <3>4 DEF Addr
  <2>4. QED
    BY <1>4, <1>5, <1>6, <2>1, <2>3 DEF IInv
<1>9. QED
  BY <1>3, <1>7, <1>8

(* Unprocessed at one zone and one address. *)
LEMMA UnprocessedAt ==
  ASSUME Unprocessed, NEW j \in 1 .. pzone_num, NEW a \in ZoneAddrs(pzones[j])
  PROVE  /\ a \in registered
         /\ a \in reserved =>
              rm # NoRemove /\ rm.i <= j /\ rm.start <= a /\ a < rm.end
BY Zenon DEF Unprocessed

(* Separated at one pair of zones. *)
LEMMA SeparatedAt ==
  ASSUME Separated, NEW j \in 1 .. pzone_num, NEW k \in 1 .. pzone_num, j # k
  PROVE  pzones[j].end <= pzones[k].start \/ pzones[k].end <= pzones[j].start
BY Zenon DEF Separated

(* Inside the loop: slot i holds a well-formed zone, the range is aligned *)
(* and non-empty, and registration is over.                               *)
LEMMA LoopSetup ==
  ASSUME IInv, InLoop
  PROVE  /\ rm \in RemoveLocals
         /\ rm.i \in 1 .. pzone_num /\ rm.i \in Slots /\ pzone_num \in Nat
         /\ Cur \in Zone
         /\ 0 < Cur.start /\ Cur.start < Cur.end
         /\ Cur.start % PAGE_SIZE = 0 /\ Cur.end % PAGE_SIZE = 0
         /\ rm.start < rm.end
         /\ rm.start % PAGE_SIZE = 0 /\ rm.end % PAGE_SIZE = 0
         /\ boot # "new"
<1>1. rm # NoRemove /\ rm.i <= pzone_num
  BY DEF InLoop
<1>2. rm \in RemoveLocals /\ rm.i \in Slots /\ Cur \in Zone
  BY <1>1, LoopFacts DEF IInv
<1>3. rm.i \in 1 .. pzone_num /\ pzone_num \in Nat
  BY <1>1, <1>2 DEF RemoveLocals, IInv, TypeOK
<1>4. /\ 0 < Cur.start /\ Cur.start < Cur.end
      /\ Cur.start % PAGE_SIZE = 0 /\ Cur.end % PAGE_SIZE = 0
  BY <1>3 DEF IInv, ZonesWellFormed, Cur
<1>5. QED
  BY <1>1, <1>2, <1>3, <1>4 DEF IInv, RmOK, BelowNext

(* Case 2 of the loop moves the zone's start up to the range's end, past *)
(* every removed address it held, and advances i.                         *)
LEMMA FrontIInv ==
  ASSUME IInv, RemoveFront
  PROVE  IInv'
<1>1. InLoop /\ CutsFront(Cur) /\ ~CoversWhole(Cur)
  BY DEF RemoveFront
<1>0. /\ rm \in RemoveLocals
      /\ rm.i \in 1 .. pzone_num /\ rm.i \in Slots /\ pzone_num \in Nat
      /\ Cur \in Zone
      /\ 0 < Cur.start /\ Cur.start < Cur.end
      /\ rm.start < rm.end
      /\ rm.start % PAGE_SIZE = 0 /\ rm.end % PAGE_SIZE = 0
      /\ boot # "new"
  BY <1>1, LoopSetup
<1>2. rm.start <= Cur.start /\ Cur.start < rm.end /\ rm.end < Cur.end
  BY <1>0, <1>1 DEF CutsFront, CoversWhole, Zone, Addr, RemoveLocals
<1>3. /\ pzones' = [pzones EXCEPT ![rm.i].start = rm.end]
      /\ rm' = [rm EXCEPT !.i = @ + 1]
      /\ UNCHANGED <<pzone_num, boot, registered, reserved>>
  BY DEF RemoveFront
<1>4. /\ pzones'[rm.i] = [Cur EXCEPT !.start = rm.end]
      /\ \A j \in 1 .. pzone_num : j # rm.i => pzones'[j] = pzones[j]
  BY <1>0, <1>3 DEF IInv, TypeOK, Cur
<1>5. TypeOK'
  BY LoopTypeOK DEF IInv, RemoveLoop
<1>6. (RmOK /\ BelowNext)'
  BY <1>0, <1>3 DEF IInv, RmOK, BelowNext, NoRemove, RemoveLocals
<1>7. ZonesWellFormed'
  BY <1>0, <1>2, <1>3, <1>4 DEF IInv, ZonesWellFormed, Zone, Addr, RemoveLocals
<1>8. Separated'
  <2> SUFFICES ASSUME NEW j \in 1 .. pzone_num, NEW k \in 1 .. pzone_num, j # k
               PROVE  pzones'[j].end <= pzones'[k].start \/ pzones'[k].end <= pzones'[j].start
    BY <1>3 DEF Separated
  <2>1. pzones[j].end <= pzones[k].start \/ pzones[k].end <= pzones[j].start
    BY SeparatedAt DEF IInv
  <2>2. ASSUME NEW m \in 1 .. pzone_num
        PROVE  /\ pzones[m].start \in Nat /\ pzones[m].end \in Nat
               /\ pzones'[m].start \in Nat
               /\ pzones'[m].end = pzones[m].end
               /\ pzones'[m].start >= pzones[m].start
    <3>1. pzones[m] \in Zone
      BY DEF IInv, TypeOK, Slots
    <3>2. CASE m = rm.i
      BY <1>0, <1>2, <1>4, <3>1, <3>2 DEF Zone, Addr, RemoveLocals, Cur
    <3>3. CASE m # rm.i
      BY <1>4, <3>1, <3>3 DEF Zone, Addr
    <3>4. QED
      BY <3>2, <3>3
  <2>3. /\ pzones[j].start \in Nat /\ pzones[j].end \in Nat /\ pzones'[j].start \in Nat
        /\ pzones'[j].end = pzones[j].end /\ pzones'[j].start >= pzones[j].start
    BY <2>2
  <2>4. /\ pzones[k].start \in Nat /\ pzones[k].end \in Nat /\ pzones'[k].start \in Nat
        /\ pzones'[k].end = pzones[k].end /\ pzones'[k].start >= pzones[k].start
    BY <2>2
  <2>5. QED
    BY <2>1, <2>3, <2>4
<1>9. Unprocessed'
  <2> SUFFICES ASSUME NEW j \in 1 .. pzone_num, NEW a \in ZoneAddrs(pzones'[j])
               PROVE  /\ a \in registered
                      /\ a \in reserved =>
                           rm' # NoRemove /\ rm'.i <= j /\ rm'.start <= a /\ a < rm'.end
    BY <1>3 DEF Unprocessed
  <2>1. CASE j = rm.i
    <3>1. a \in ZoneAddrs(pzones[j]) /\ a \in Int /\ a >= rm.end
      BY <1>0, <1>2, <1>4, <2>1 DEF ZoneAddrs, Cur, Zone, Addr, RemoveLocals
    <3>2. /\ a \in registered
          /\ a \in reserved => a < rm.end
      BY <3>1, UnprocessedAt DEF IInv
    <3>3. QED
      BY <1>0, <3>1, <3>2 DEF RemoveLocals, Addr
  <2>2. CASE j # rm.i
    <3>1. a \in ZoneAddrs(pzones[j])
      BY <1>4, <2>2
    <3>2. /\ a \in registered
          /\ a \in reserved => rm.i <= j /\ rm.start <= a /\ a < rm.end
      BY <3>1, UnprocessedAt DEF IInv
    <3>3. QED
      BY <1>0, <1>3, <2>2, <3>2 DEF NoRemove, RemoveLocals
  <2>3. QED
    BY <2>1, <2>2
<1>10. QED
  BY <1>5, <1>6, <1>7, <1>8, <1>9 DEF IInv

(* Cutting slot i's end back to the range's start, with i advanced or   *)
(* not (cases 3 and 4 with a full array), keeps the strengthening: the   *)
(* zone keeps only addresses below the range, none of them removed.     *)
LEMMA ShrinkEndIInv ==
  ASSUME IInv, InLoop, Cur.start < rm.start, rm.start < Cur.end,
         pzones' = [pzones EXCEPT ![rm.i].end = rm.start],
         rm' = rm \/ rm' = [rm EXCEPT !.i = @ + 1],
         UNCHANGED <<pzone_num, boot, registered, reserved>>
  PROVE  (ZonesWellFormed /\ Separated /\ Unprocessed /\ RmOK /\ BelowNext)'
<1>0. /\ rm \in RemoveLocals
      /\ rm.i \in 1 .. pzone_num /\ rm.i \in Slots /\ pzone_num \in Nat
      /\ Cur \in Zone
      /\ 0 < Cur.start /\ Cur.start < Cur.end
      /\ Cur.start % PAGE_SIZE = 0
      /\ rm.start < rm.end
      /\ rm.start % PAGE_SIZE = 0 /\ rm.end % PAGE_SIZE = 0
      /\ boot # "new"
  BY LoopSetup
<1>1. /\ pzones'[rm.i] = [Cur EXCEPT !.end = rm.start]
      /\ \A j \in 1 .. pzone_num : j # rm.i => pzones'[j] = pzones[j]
  BY <1>0 DEF IInv, TypeOK, Cur
<1>2. /\ rm'.start = rm.start /\ rm'.end = rm.end /\ rm' # NoRemove
      /\ rm'.i \in {rm.i, rm.i + 1}
  BY <1>0 DEF RemoveLocals, NoRemove
<1>3. (RmOK /\ BelowNext)'
  BY <1>0, <1>2 DEF RmOK, BelowNext
<1>4. ZonesWellFormed'
  BY <1>0, <1>1 DEF IInv, ZonesWellFormed, Zone, Addr, RemoveLocals
<1>5. Separated'
  <2> SUFFICES ASSUME NEW j \in 1 .. pzone_num, NEW k \in 1 .. pzone_num, j # k
               PROVE  pzones'[j].end <= pzones'[k].start \/ pzones'[k].end <= pzones'[j].start
    BY DEF Separated
  <2>1. pzones[j].end <= pzones[k].start \/ pzones[k].end <= pzones[j].start
    BY SeparatedAt DEF IInv
  <2>2. ASSUME NEW m \in 1 .. pzone_num
        PROVE  /\ pzones[m].start \in Nat /\ pzones[m].end \in Nat
               /\ pzones'[m].end \in Nat
               /\ pzones'[m].start = pzones[m].start
               /\ pzones'[m].end <= pzones[m].end
    <3>1. pzones[m] \in Zone
      BY DEF IInv, TypeOK, Slots
    <3>2. CASE m = rm.i
      BY <1>0, <1>1, <3>1, <3>2 DEF Zone, Addr, RemoveLocals, Cur
    <3>3. CASE m # rm.i
      BY <1>1, <3>1, <3>3 DEF Zone, Addr
    <3>4. QED
      BY <3>2, <3>3
  <2>3. /\ pzones[j].start \in Nat /\ pzones[j].end \in Nat /\ pzones'[j].end \in Nat
        /\ pzones'[j].start = pzones[j].start /\ pzones'[j].end <= pzones[j].end
    BY <2>2
  <2>4. /\ pzones[k].start \in Nat /\ pzones[k].end \in Nat /\ pzones'[k].end \in Nat
        /\ pzones'[k].start = pzones[k].start /\ pzones'[k].end <= pzones[k].end
    BY <2>2
  <2>5. QED
    BY <2>1, <2>3, <2>4
<1>6. Unprocessed'
  <2> SUFFICES ASSUME NEW j \in 1 .. pzone_num, NEW a \in ZoneAddrs(pzones'[j])
               PROVE  /\ a \in registered
                      /\ a \in reserved =>
                           rm' # NoRemove /\ rm'.i <= j /\ rm'.start <= a /\ a < rm'.end
    BY DEF Unprocessed
  <2>1. CASE j = rm.i
    <3>1. a \in ZoneAddrs(pzones[j]) /\ a \in Int /\ a < rm.start
      BY <1>0, <1>1, <2>1 DEF ZoneAddrs, Cur, Zone, Addr, RemoveLocals
    <3>2. /\ a \in registered
          /\ a \in reserved => rm.start <= a
      BY <3>1, UnprocessedAt DEF IInv
    <3>3. QED
      BY <1>0, <3>1, <3>2 DEF RemoveLocals, Addr
  <2>2. CASE j # rm.i
    <3>1. a \in ZoneAddrs(pzones[j])
      BY <1>1, <2>2
    <3>2. /\ a \in registered
          /\ a \in reserved => rm.i <= j /\ rm.start <= a /\ a < rm.end
      BY <3>1, UnprocessedAt DEF IInv
    <3>3. QED
      BY <1>0, <1>2, <2>2, <3>2 DEF RemoveLocals
  <2>3. QED
    BY <2>1, <2>2
<1>7. QED
  BY <1>3, <1>4, <1>5, <1>6

(* Case 3 of the loop: the range covers the zone's end. *)
LEMMA BackIInv ==
  ASSUME IInv, RemoveBack
  PROVE  IInv'
<1>1. InLoop /\ ~CutsFront(Cur) /\ CutsBack(Cur)
  BY DEF RemoveBack
<1>2. Cur.start < rm.start /\ rm.start < Cur.end
  <2>1. Cur \in Zone /\ rm \in RemoveLocals /\ Cur.start < Cur.end
    BY <1>1, LoopSetup
  <2>2. QED
    BY <1>1, <2>1 DEF CutsFront, CutsBack, Zone, RemoveLocals, Addr
<1>3. TypeOK'
  BY LoopTypeOK DEF IInv, RemoveLoop
<1>4. (ZonesWellFormed /\ Separated /\ Unprocessed /\ RmOK /\ BelowNext)'
  BY <1>1, <1>2, ShrinkEndIInv DEF RemoveBack
<1>5. QED
  BY <1>3, <1>4 DEF IInv

(* Case 4 with pzones[] full: the end is cut back and i is not advanced. *)
LEMMA SplitFullIInv ==
  ASSUME IInv, RemoveSplitFull
  PROVE  IInv'
<1>1. InLoop /\ CutsMiddle(Cur)
  BY DEF RemoveSplitFull
<1>2. Cur.start < rm.start /\ rm.start < Cur.end
  <2>1. Cur \in Zone /\ rm \in RemoveLocals /\ rm.start < rm.end
    BY <1>1, LoopSetup
  <2>2. QED
    BY <1>1, <2>1 DEF CutsMiddle, Zone, RemoveLocals, Addr
<1>3. TypeOK'
  BY LoopTypeOK DEF IInv, RemoveLoop
<1>4. (ZonesWellFormed /\ Separated /\ Unprocessed /\ RmOK /\ BelowNext)'
  BY <1>1, <1>2, ShrinkEndIInv DEF RemoveSplitFull
<1>5. QED
  BY <1>3, <1>4 DEF IInv

(* No overlap case applies: then the zone and the range are disjoint, so *)
(* the zone holds no removed address and i may advance past it.          *)
LEMMA SkipIInv ==
  ASSUME IInv, RemoveSkip
  PROVE  IInv'
<1>1. /\ InLoop
      /\ ~CoversWhole(Cur) /\ ~CutsFront(Cur) /\ ~CutsBack(Cur) /\ ~CutsMiddle(Cur)
      /\ rm' = [rm EXCEPT !.i = @ + 1]
      /\ UNCHANGED <<pzones, pzone_num, boot, registered, reserved>>
  BY DEF RemoveSkip
<1>0. /\ rm \in RemoveLocals
      /\ rm.i \in 1 .. pzone_num /\ pzone_num \in Nat
      /\ Cur \in Zone /\ Cur.start < Cur.end
      /\ rm.start < rm.end
      /\ boot # "new"
  BY <1>1, LoopSetup
<1>2. Cur.end <= rm.start \/ rm.end <= Cur.start
  BY <1>0, <1>1 DEF CoversWhole, CutsFront, CutsBack, CutsMiddle, Zone, RemoveLocals, Addr
<1>3. TypeOK'
  BY LoopTypeOK DEF IInv, RemoveLoop
<1>4. (RmOK /\ BelowNext /\ ZonesWellFormed /\ Separated)'
  BY <1>0, <1>1 DEF IInv, RmOK, BelowNext, ZonesWellFormed, Separated, RemoveLocals, NoRemove
<1>5. Unprocessed'
  <2> SUFFICES ASSUME NEW j \in 1 .. pzone_num, NEW a \in ZoneAddrs(pzones[j])
               PROVE  /\ a \in registered
                      /\ a \in reserved =>
                           rm' # NoRemove /\ rm'.i <= j /\ rm'.start <= a /\ a < rm'.end
    BY <1>1 DEF Unprocessed
  <2>1. /\ a \in registered
        /\ a \in reserved => rm.i <= j /\ rm.start <= a /\ a < rm.end
    BY UnprocessedAt DEF IInv
  <2>2. CASE j = rm.i
    <3>1. a \in Int /\ Cur.start <= a /\ a < Cur.end
      BY <1>0, <2>2 DEF ZoneAddrs, Cur, Zone, Addr
    <3>2. QED
      BY <1>0, <1>2, <2>1, <3>1 DEF RemoveLocals, Addr, Zone
  <2>3. CASE j # rm.i
    BY <1>0, <1>1, <2>1, <2>3 DEF RemoveLocals, NoRemove
  <2>4. QED
    BY <2>2, <2>3
<1>6. QED
  BY <1>3, <1>4, <1>5 DEF IInv

(* The loop exits once i passes pzone_num: every zone has been visited, *)
(* so no zone holds a removed address.                                   *)
LEMMA DoneIInv ==
  ASSUME IInv, RemoveDone
  PROVE  IInv'
<1>1. /\ rm # NoRemove /\ rm.i > pzone_num /\ rm' = NoRemove
      /\ UNCHANGED <<pzones, pzone_num, boot, registered, reserved>>
  BY DEF RemoveDone
<1>2. rm \in RemoveLocals /\ pzone_num \in Nat /\ boot # "new"
  BY <1>1, LoopFacts DEF IInv, TypeOK, BelowNext
<1>3. TypeOK'
  BY LoopTypeOK DEF IInv, RemoveLoop
<1>4. (RmOK /\ BelowNext /\ ZonesWellFormed /\ Separated)'
  BY <1>1, <1>2 DEF IInv, RmOK, BelowNext, ZonesWellFormed, Separated
<1>5. Unprocessed'
  <2> SUFFICES ASSUME NEW j \in 1 .. pzone_num, NEW a \in ZoneAddrs(pzones[j])
               PROVE  a \in registered /\ a \notin reserved
    BY <1>1 DEF Unprocessed
  <2>1. /\ a \in registered
        /\ a \in reserved => rm.i <= j
    BY UnprocessedAt DEF IInv
  <2>2. QED
    BY <1>1, <1>2, <2>1 DEF RemoveLocals
<1>6. QED
  BY <1>3, <1>4, <1>5 DEF IInv

(* Case 1 of the loop deletes slot i and moves the zones after it down   *)
(* one slot without advancing i: each zone in use afterwards is the zone *)
(* of slot G(j) before, G is injective, and a moved zone keeps an index  *)
(* at or after i, so its removed addresses are still ahead of the loop.  *)
LEMMA WholeIInv ==
  ASSUME IInv, RemoveWhole
  PROVE  IInv'
<1> DEFINE G(j) == IF j >= rm.i THEN j + 1 ELSE j
<1>1. /\ InLoop
      /\ pzones' = [j \in Slots |->
                      IF rm.i <= j /\ j < pzone_num THEN pzones[j + 1]
                      ELSE IF j = rm.i THEN ZeroZone
                      ELSE pzones[j]]
      /\ pzone_num' = pzone_num - 1
      /\ UNCHANGED <<rm, boot, registered, reserved>>
  BY DEF RemoveWhole
<1>0. /\ rm \in RemoveLocals
      /\ rm.i \in 1 .. pzone_num /\ pzone_num \in Nat
      /\ boot # "new"
  BY <1>1, LoopSetup
<1>2. \A j \in 1 .. pzone_num - 1 : G(j) \in 1 .. pzone_num /\ pzones'[j] = pzones[G(j)]
  BY <1>0, <1>1 DEF IInv, TypeOK, Slots, RemoveLocals
<1>3. TypeOK'
  BY LoopTypeOK DEF IInv, RemoveLoop
<1>4. (RmOK /\ BelowNext)'
  BY <1>0, <1>1 DEF IInv, RmOK, BelowNext
<1>5. ZonesWellFormed'
  <2> SUFFICES ASSUME NEW j \in 1 .. pzone_num - 1
               PROVE  /\ 0 < pzones'[j].start
                      /\ pzones'[j].start < pzones'[j].end
                      /\ pzones'[j].start % PAGE_SIZE = 0
                      /\ pzones'[j].end % PAGE_SIZE = 0
    BY <1>1 DEF ZonesWellFormed
  <2>1. G(j) \in 1 .. pzone_num /\ pzones'[j] = pzones[G(j)]
    BY <1>2
  <2>2. QED
    BY <2>1 DEF IInv, ZonesWellFormed
<1>6. Separated'
  <2> SUFFICES ASSUME NEW j \in 1 .. pzone_num - 1, NEW k \in 1 .. pzone_num - 1, j # k
               PROVE  pzones'[j].end <= pzones'[k].start \/ pzones'[k].end <= pzones'[j].start
    BY <1>1 DEF Separated
  <2>1. G(j) # G(k)
    BY <1>0 DEF RemoveLocals
  <2>2. pzones[G(j)].end <= pzones[G(k)].start \/ pzones[G(k)].end <= pzones[G(j)].start
    BY <1>2, <2>1, SeparatedAt DEF IInv
  <2>3. QED
    BY <1>2, <2>2
<1>7. Unprocessed'
  <2> SUFFICES ASSUME NEW j \in 1 .. pzone_num - 1, NEW a \in ZoneAddrs(pzones'[j])
               PROVE  /\ a \in registered
                      /\ a \in reserved =>
                           rm # NoRemove /\ rm.i <= j /\ rm.start <= a /\ a < rm.end
    BY <1>1 DEF Unprocessed
  <2>1. G(j) \in 1 .. pzone_num /\ a \in ZoneAddrs(pzones[G(j)])
    BY <1>2
  <2>2. /\ a \in registered
        /\ a \in reserved =>
             rm # NoRemove /\ rm.i <= G(j) /\ rm.start <= a /\ a < rm.end
    BY <2>1, UnprocessedAt DEF IInv
  <2>3. QED
    BY <1>0, <2>2 DEF RemoveLocals
<1>8. QED
  BY <1>3, <1>4, <1>5, <1>6, <1>7 DEF IInv

(* Case 4 with room: slot i keeps the part below the range, slot i + 1   *)
(* gets the part above it, the zones after i move up one slot, and i     *)
(* advances past both halves.  Each zone in use afterwards lies inside   *)
(* the zone of slot G(j) before; only the two halves share an origin.    *)
LEMMA SplitIInv ==
  ASSUME IInv, RemoveSplit
  PROVE  IInv'
<1> DEFINE G(j) == IF j <= rm.i THEN j ELSE IF j = rm.i + 1 THEN rm.i ELSE j - 1
           Inside(j) ==
             /\ G(j) \in 1 .. pzone_num
             /\ pzones[G(j)].start \in Nat /\ pzones[G(j)].end \in Nat
             /\ pzones[G(j)].start <= pzones'[j].start
             /\ pzones'[j].end <= pzones[G(j)].end
             /\ pzones'[j].start \in Nat /\ pzones'[j].end \in Nat
             /\ 0 < pzones'[j].start /\ pzones'[j].start < pzones'[j].end
             /\ pzones'[j].start % PAGE_SIZE = 0 /\ pzones'[j].end % PAGE_SIZE = 0
<1>1. /\ InLoop /\ CutsMiddle(Cur)
      /\ pzone_num < PZONE_MAX_NUM
      /\ pzones' = [j \in Slots |->
                      IF j = rm.i THEN [Cur EXCEPT !.end = rm.start]
                      ELSE IF j = rm.i + 1 THEN FillEntry(rm.end, Cur.end, Cur.usable)
                      ELSE IF rm.i + 2 <= j /\ j <= pzone_num + 1 THEN pzones[j - 1]
                      ELSE pzones[j]]
      /\ pzone_num' = pzone_num + 1
      /\ rm' = [rm EXCEPT !.i = @ + 2]
      /\ UNCHANGED <<boot, registered, reserved>>
  BY DEF RemoveSplit
<1>0. /\ rm \in RemoveLocals
      /\ rm.i \in 1 .. pzone_num /\ pzone_num \in Nat
      /\ Cur \in Zone
      /\ 0 < Cur.start /\ Cur.start < Cur.end
      /\ Cur.start % PAGE_SIZE = 0 /\ Cur.end % PAGE_SIZE = 0
      /\ rm.start < rm.end
      /\ rm.start % PAGE_SIZE = 0 /\ rm.end % PAGE_SIZE = 0
      /\ boot # "new"
  BY <1>1, LoopSetup
<1>2. Cur.start < rm.start /\ rm.end < Cur.end
  BY <1>0, <1>1 DEF CutsMiddle, Zone, RemoveLocals, Addr
<1>3. \A j \in 1 .. pzone_num + 1 : Inside(j)
  <2> SUFFICES ASSUME NEW j \in 1 .. pzone_num + 1 PROVE Inside(j)
    OBVIOUS
  <2>0. 1 .. pzone_num + 1 \subseteq Slots
    BY <1>1 DEF IInv, TypeOK, Slots
  <2>1. CASE j = rm.i
    <3>0. G(j) = rm.i
      BY <1>0, <2>1
    <3>1. pzones'[j] = [Cur EXCEPT !.end = rm.start]
      BY <1>0, <1>1, <2>0, <2>1
    <3>2. pzones'[j].start = Cur.start /\ pzones'[j].end = rm.start
      BY <1>0, <3>1 DEF Zone
    <3>3. Cur.start \in Nat /\ Cur.end \in Nat /\ rm.start \in Nat
      BY <1>0 DEF Zone, Addr, RemoveLocals
    <3>4. pzones[G(j)] = Cur
      BY <3>0 DEF Cur
    <3>5. pzones'[j].start % PAGE_SIZE = 0 /\ pzones'[j].end % PAGE_SIZE = 0
      BY <1>0, <3>2, Zenon DEF Cur
    <3> HIDE DEF G
    <3>6. G(j) \in 1 .. pzone_num
      BY <1>0, <3>0
    <3>7. pzones[G(j)].start \in Nat /\ pzones[G(j)].end \in Nat
      BY <3>3, <3>4
    <3>11. /\ 0 < Cur.start /\ Cur.start < rm.start /\ rm.end < Cur.end
           /\ rm.start < rm.end /\ rm.start <= Cur.end
      <4>1. 0 < Cur.start /\ rm.start < rm.end
        BY <1>0, Zenon
      <4>2. Cur.start < rm.start /\ rm.end < Cur.end
        BY <1>2, Zenon
      <4>3. rm.end \in Nat /\ rm.start \in Nat
        BY <1>0 DEF RemoveLocals, Addr
      <4> QED BY <3>3, <4>1, <4>2, <4>3
    <3>8. pzones[G(j)].start <= pzones'[j].start /\ pzones'[j].end <= pzones[G(j)].end
      <4>1. rm.end \in Nat /\ rm.start \in Nat
        BY <1>0 DEF RemoveLocals, Addr
      <4> QED BY <3>2, <3>3, <3>4, <3>11, <4>1
    <3>9. pzones'[j].start \in Nat /\ pzones'[j].end \in Nat
      BY <3>2, <3>3
    <3>10. 0 < pzones'[j].start /\ pzones'[j].start < pzones'[j].end
      BY <3>2, <3>3, <3>8, <3>11
    <3> QED BY <3>5, <3>6, <3>7, <3>8, <3>9, <3>10
  <2>2. CASE j = rm.i + 1
    <3>0. G(j) = rm.i
      BY <1>0, <2>2
    <3>1. pzones'[j] = FillEntry(rm.end, Cur.end, Cur.usable)
      BY <1>0, <1>1, <2>0, <2>2
    <3>2. pzones'[j].start = rm.end /\ pzones'[j].end = Cur.end
      BY <3>1 DEF FillEntry
    <3>3. Cur.start \in Nat /\ Cur.end \in Nat /\ rm.end \in Nat /\ rm.start \in Nat
      BY <1>0 DEF Zone, Addr, RemoveLocals
    <3>4. pzones[G(j)] = Cur
      BY <3>0 DEF Cur
    <3>5. pzones'[j].start % PAGE_SIZE = 0 /\ pzones'[j].end % PAGE_SIZE = 0
      BY <1>0, <3>2, Zenon DEF Cur
    <3> HIDE DEF G
    <3>6. G(j) \in 1 .. pzone_num
      BY <1>0, <3>0
    <3>7. pzones[G(j)].start \in Nat /\ pzones[G(j)].end \in Nat
      BY <3>3, <3>4
    <3>11. /\ 0 < Cur.start /\ Cur.start < rm.start /\ rm.end < Cur.end
           /\ rm.start < rm.end /\ rm.start <= Cur.end
      <4>1. 0 < Cur.start /\ rm.start < rm.end
        BY <1>0, Zenon
      <4>2. Cur.start < rm.start /\ rm.end < Cur.end
        BY <1>2, Zenon
      <4>3. rm.end \in Nat /\ rm.start \in Nat
        BY <1>0 DEF RemoveLocals, Addr
      <4> QED BY <3>3, <4>1, <4>2, <4>3
    <3>8. pzones[G(j)].start <= pzones'[j].start /\ pzones'[j].end <= pzones[G(j)].end
      <4>1. rm.end \in Nat /\ rm.start \in Nat
        BY <1>0 DEF RemoveLocals, Addr
      <4> QED BY <3>2, <3>3, <3>4, <3>11, <4>1
    <3>9. pzones'[j].start \in Nat /\ pzones'[j].end \in Nat
      BY <3>2, <3>3
    <3>10. 0 < pzones'[j].start /\ pzones'[j].start < pzones'[j].end
      BY <3>2, <3>3, <3>8, <3>11
    <3> QED BY <3>5, <3>6, <3>7, <3>8, <3>9, <3>10
  <2>3. CASE j # rm.i /\ j # rm.i + 1
    <3>1. G(j) \in 1 .. pzone_num /\ pzones'[j] = pzones[G(j)]
      BY <1>0, <1>1, <2>0, <2>3 DEF RemoveLocals
    <3> HIDE DEF G
    <3>2. pzones[G(j)] \in Zone
      BY <3>1 DEF IInv, TypeOK, Slots
    <3>3. pzones[G(j)].start \in Nat /\ pzones[G(j)].end \in Nat
      BY <3>2 DEF Zone, Addr
    <3>4. ZonesWellFormed
      BY Zenon DEF IInv
    <3>5. /\ 0 < pzones[G(j)].start /\ pzones[G(j)].start < pzones[G(j)].end
          /\ pzones[G(j)].start % PAGE_SIZE = 0 /\ pzones[G(j)].end % PAGE_SIZE = 0
      BY <3>1, <3>4 DEF ZonesWellFormed
    <3>6. QED
      BY <3>1, <3>3, <3>5
  <2>4. QED
    BY <2>1, <2>2, <2>3
<1>4. TypeOK'
  BY LoopTypeOK DEF IInv, RemoveLoop
<1>25. /\ pzones'[rm.i].end = rm.start
       /\ pzones'[rm.i + 1].start = rm.end
  <2>1. rm.i \in Slots /\ rm.i + 1 \in Slots /\ rm.i # rm.i + 1
    BY <1>0, <1>1 DEF Slots
  <2>2. pzones'[rm.i] = [Cur EXCEPT !.end = rm.start]
    BY <1>1, <2>1
  <2>3. pzones'[rm.i + 1] = FillEntry(rm.end, Cur.end, Cur.usable)
    BY <1>1, <2>1
  <2>4. Cur \in Zone
    BY <1>0, Zenon
  <2>5. pzones'[rm.i].end = rm.start
    BY <2>2, <2>4 DEF Zone
  <2>6. pzones'[rm.i + 1].start = rm.end
    BY <2>3 DEF FillEntry
  <2>7. QED
    BY <2>5, <2>6
<1>5. (RmOK /\ BelowNext)'
  BY <1>0, <1>1 DEF RmOK, BelowNext, RemoveLocals, NoRemove
<1>6. ZonesWellFormed'
  BY <1>1, <1>3 DEF ZonesWellFormed
<1>7. Separated'
  <2> SUFFICES ASSUME NEW j \in 1 .. pzone_num + 1, NEW k \in 1 .. pzone_num + 1, j # k
               PROVE  pzones'[j].end <= pzones'[k].start \/ pzones'[k].end <= pzones'[j].start
    BY <1>1 DEF Separated
  <2>1. Inside(j) /\ Inside(k)
    BY <1>3
  <2>2. CASE G(j) # G(k)
    <3>1. pzones[G(j)].end <= pzones[G(k)].start \/ pzones[G(k)].end <= pzones[G(j)].start
      BY <2>1, <2>2, SeparatedAt DEF IInv
    <3>2. /\ pzones[G(j)].start \in Nat /\ pzones[G(j)].end \in Nat
          /\ pzones[G(k)].start \in Nat /\ pzones[G(k)].end \in Nat
      BY <2>1 DEF IInv, TypeOK, Slots, Zone, Addr
    <3>3. QED
      BY <2>1, <3>1, <3>2
  <2>3. CASE G(j) = G(k)
    <3>1. {j, k} = {rm.i, rm.i + 1}
      BY <1>0, <2>3 DEF RemoveLocals
    <3>2. QED
      BY <1>0, <1>25, <3>1 DEF RemoveLocals, Addr
  <2>4. QED
    BY <2>2, <2>3
<1>8. Unprocessed'
  <2> SUFFICES ASSUME NEW j \in 1 .. pzone_num + 1, NEW a \in ZoneAddrs(pzones'[j])
               PROVE  /\ a \in registered
                      /\ a \in reserved =>
                           rm' # NoRemove /\ rm'.i <= j /\ rm'.start <= a /\ a < rm'.end
    BY <1>1 DEF Unprocessed
  <2>1. Inside(j)
    BY <1>3
  <2>2. /\ a \in Int /\ pzones'[j].start <= a /\ a < pzones'[j].end
        /\ a \in ZoneAddrs(pzones[G(j)])
    <3>1. a \in pzones'[j].start .. pzones'[j].end - 1
      BY DEF ZoneAddrs
    <3>2. a \in Int /\ pzones'[j].start <= a /\ a < pzones'[j].end
      BY <2>1, <3>1
    <3>3. a \in pzones[G(j)].start .. pzones[G(j)].end - 1
      BY <2>1, <3>2
    <3>4. QED
      BY <3>2, <3>3 DEF ZoneAddrs
  <2>3. /\ a \in registered
        /\ a \in reserved => rm.i <= G(j) /\ rm.start <= a /\ a < rm.end
    BY <2>1, <2>2, UnprocessedAt DEF IInv
  <2>5. a \in reserved => rm.i + 2 <= j
    BY <1>0, <1>25, <2>2, <2>3 DEF RemoveLocals, Addr
  <2>6. QED
    BY <1>0, <1>1, <2>3, <2>5 DEF RemoveLocals, NoRemove
<1>9. QED
  BY <1>4, <1>5, <1>6, <1>7, <1>8 DEF IInv

(* Every step of the registry, or a stutter, keeps the strengthening. *)
LEMMA IInvStep ==
  ASSUME NoWrap, IInv, [ZoneNext]_zoneVars
  PROVE  IInv'
<1>1. CASE \E s, e \in PhysAddrs, u \in BOOLEAN : s < e /\ PzoneNew(s, e, u)
  BY <1>1, NewIInv
<1>2. CASE \E s, e \in PhysAddrs : s < e /\ PzoneRemove(s, e)
  BY <1>2, RemoveIInv
<1>3. CASE RemoveLoop
  BY <1>3, WholeIInv, FrontIInv, BackIInv, SplitIInv, SplitFullIInv,
     SkipIInv, DoneIInv DEF RemoveLoop
<1>4. CASE UNCHANGED zoneVars
  BY <1>4 DEF zoneVars, IInv, TypeOK, RmOK, ZonesWellFormed, Separated,
              BelowNext, Unprocessed, ZoneAddrs
<1>5. QED
  BY <1>1, <1>2, <1>3, <1>4 DEF ZoneNext

(* Without wrap-around the strengthening holds in every reachable state. *)
THEOREM RegistryInvariant == NoWrap => (ZoneSpec => []IInv)
<1> SUFFICES ASSUME NoWrap PROVE ZoneSpec => []IInv
  OBVIOUS
<1>1. Init => IInv
  BY InitIInv
<1>2. IInv /\ [ZoneNext]_zoneVars => IInv'
  BY IInvStep
<1>3. QED
  BY <1>1, <1>2, PTL DEF ZoneSpec

(***************************************************************************)
(* pzone_new() and pzone_remove() never make two zones overlap, for any   *)
(* capacity, page size and sequence of calls, provided the physical       *)
(* addresses passed in do not wrap on conversion and rounding: the        *)
(* memmove compaction, the split's memmove and i += 2, and the page-0     *)
(* bump all keep the zones apart.                                          *)
(***************************************************************************)
THEOREM ZonesDisjointCorrect == NoWrap => (ZoneSpec => []ZonesDisjoint)
<1>1. IInv => ZonesDisjoint
  <2> SUFFICES ASSUME IInv, NEW j \in 1 .. pzone_num, NEW k \in 1 .. pzone_num, j # k
               PROVE  ZoneAddrs(pzones[j]) \cap ZoneAddrs(pzones[k]) = {}
    BY DEF ZonesDisjoint
  <2>1. pzones[j].end <= pzones[k].start \/ pzones[k].end <= pzones[j].start
    BY SeparatedAt DEF IInv
  <2>2. pzones[j] \in Zone /\ pzones[k] \in Zone
    BY DEF IInv, TypeOK, Slots
  <2>3. QED
    BY <2>1, <2>2 DEF ZoneAddrs, Zone, Addr
<1>2. QED
  BY <1>1, RegistryInvariant, PTL

(***************************************************************************)
(* Every zone in use is non-empty, page-aligned and off page 0 (the NULL  *)
(* that ends the free list), under the same no-wrap condition.            *)
(***************************************************************************)
THEOREM ZonesWellFormedCorrect == NoWrap => (ZoneSpec => []ZonesWellFormed)
<1>1. IInv => ZonesWellFormed
  BY DEF IInv
<1>2. QED
  BY <1>1, RegistryInvariant, PTL

(***************************************************************************)
(* Between calls, no zone holds an address that was not registered or     *)
(* that some pzone_remove() excluded: the loop visits every zone it must, *)
(* in particular the zone memmove brings into slot i after a deletion.    *)
(***************************************************************************)
THEOREM CarvedCoverageCorrect == NoWrap => (ZoneSpec => []CarvedCoverage)
<1>1. IInv => CarvedCoverage
  <2> SUFFICES ASSUME IInv, rm = NoRemove, NEW a \in Covered
               PROVE  a \in registered \ reserved
    BY DEF CarvedCoverage
  <2>1. PICK j \in 1 .. pzone_num : a \in ZoneAddrs(pzones[j])
    BY DEF Covered
  <2>2. a \in registered /\ (a \in reserved => rm # NoRemove)
    BY <2>1, UnprocessedAt DEF IInv
  <2>3. QED
    BY <2>2
<1>2. QED
  BY <1>1, RegistryInvariant, PTL

=============================================================================
