\* pzone_new() on a range whose start lies in the last partial page of the
\* address space: ALIGN_UP wraps to 0, the page-0 bump makes it one page,
\* and the zone spans from there to the range's end, over earlier zones.
CONSTANTS
  PAGE_SIZE = 4
  PZONE_MAX_NUM = 2
  ADDR_MOD = 16
  VIRT_BASE = 0
  PhysAddrs <- MC_WrapAddrs
  MaxCalls = 2
INIT Init
NEXT ZoneNext
INVARIANT ZonesDisjoint
CHECK_DEADLOCK FALSE
