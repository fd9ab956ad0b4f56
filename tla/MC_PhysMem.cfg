\* The whole boot sequence and the steady-state lookups.  A kpanic ends in
\* halt_loop(), a self-loop, so deadlock is checked.
CONSTANTS
  PAGE_SIZE = 4
  PZONE_MAX_NUM = 2
  ADDR_MOD = 32
  VIRT_BASE = 0
  PhysAddrs <- MC_PhysAddrs
  MaxCalls = 3
  PPAGE_SIZE = 2
  MaxIncs = 2
INIT MemInit
NEXT MemNext
INVARIANTS MemTypeOK FreeListIntegrity MetadataDisjoint LookupInBounds MInv LInv
