\* Registry and carver alone.  The behaviour ends when the caller's budget
\* of MaxCalls calls is spent (physmem_init, modelled in PhysMem, comes next),
\* so deadlock is not checked here.
CONSTANTS
  PAGE_SIZE = 2
  PZONE_MAX_NUM = 2
  ADDR_MOD = 16
  VIRT_BASE = 0
  PhysAddrs <- MC_PhysAddrs
  MaxCalls = 4
INIT Init
NEXT ZoneNext
INVARIANTS TypeOK ZonesWellFormed ZonesDisjoint CarvedCoverage IInv
CHECK_DEADLOCK FALSE
