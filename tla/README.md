# Verification of the sbunix kernel: memory bootstrap, terminal, timer and tarfs

This directory holds TLA+ models of the sbunix kernel (`src/`). It also holds
the TLC configurations that model-check them and the TLAPS proofs about them.
`PROJECT.json` is the machine-readable index. It lists:

- the components;
- the runs and their mutants;
- the map from every modelling definition to the source lines it translates;
- the findings, the hazards and the theorems.

## 1. The system and its parts

| Part | Source | State | Operations | Model |
|---|---|---|---|---|
| Zone registry | `src/sys/mm/physmem.c` 19-88 | `pzones[PZONE_MAX_NUM]`, `pzone_num` | `pzone_new`, `pzone_find` | `PZone` |
| Zone carver | `physmem.c` 97-149 | the same array; loop locals `i`, `startpage`, `endpage` | `pzone_remove`, with four overlap cases, compaction and split | `PZone` |
| Descriptor bootstrap | `physmem.c` 156-198 | `pz->ppages`, `pz->start`, `PZONE_USABLE`; the `ppage{}` arrays in memory | `physmem_init`, `_pzone_ppages_init`, `_ppage_new` | `PhysMem` |
| Free-list builder | `physmem.c` 226-267 | `freepagehd`; the first word of every free page | `_create_free_page_list` | `PhysMem` |
| Lookup and accounting | `physmem.c` 273-332 | `ppage{}.pflags`, `ppage{}.mapcount` | `ppage_mark_used`, `kvirt_to_ppage`, `kphys_to_ppage`, `k*_inc_mapcount` | `PhysMem` |
| Terminal input | `src/sys/fs/terminal.c`, `src/sys/terminal.c` | 4096-byte ring buffer, `full`, `delims`, `backspace` | `term_putch` (keyboard IRQ), `term_read` (task) | `Terminal` |
| PIT timer | `src/sys/interrupt/pit.c` | `timer_ticks`, `timer_hz`, `system_time` | timer ISR, `timer_sleep`, `pit_set_freq` | `Pit`, refining `AbsClock` |
| tarfs | `src/sys/tarfs.c` | `struct file`: `private_data`, `f_size`, `f_pos` | `tarfs_open/read/lseek/close/write`, `aotoi` | `Tarfs` |
| exec | `src/sys/syscall/exec.c` | tasks, address spaces | `do_execve` | out of scope |
| libc formatting | `src/libc/printf.c` | none | `itoa`, `uitoa`, `parseint`, `printf` | not yet |

### How the parts interact

Boot runs these calls in order, on one CPU, before interrupts are enabled:

1. `pzone_new()` is called once per memory-map range, in increasing address order.
2. `pzone_remove()` is called for reserved ranges (the kernel image).
3. `physmem_init()` runs. It places a zeroed `ppage{}` array at the front of
   each zone and then builds the free list.

The free-list node of a page is the page itself: `prev->next = curr` writes
the page's first word. For this reason a `ppage{}` array must never overlap a
free page. Afterwards, the page allocator, which is outside `src/`, pops pages
off the list. It maps virtual pages back to their descriptors through
`pzone_find` and `kvirt_to_ppage`.

### Hard behaviours

These behaviours are hard to test and reachable by a model checker:

- **Deleting a zone.** The carver compacts the array with `memmove` and must
  not advance `i`. A split moves the tail up and advances `i` twice. Both are
  index arithmetic over a fixed-capacity array.
- **A full array.** When `pzones[]` is full, a split keeps going with the zone
  already shrunk.
- **Alignment and page 0.** `ALIGN_UP`/`ALIGN_DOWN` round in opposite
  directions in `pzone_new` and `pzone_remove`. A zone may not start at
  virtual address 0, because 0 is NULL and terminates the free list.
- **The metadata carve.** The new start is `ALIGN_UP(start + needbytes)`, and
  a zone with too few pages becomes unusable.
- **The free-list build.** The first loop picks the head. The second loop
  links the head to itself first and then relinks it.
- **Wrap-around.** `kphys_to_virt` adds `virt_base` in 64-bit arithmetic.

## 2. Modules

### `PZone.tla`: the zone registry and carver

**Constants.** The model is parameterised by:

- `PAGE_SIZE`;
- `PZONE_MAX_NUM`;
- `ADDR_MOD` (the size of the address space; `uint64_t` arithmetic is taken
  modulo it);
- `VIRT_BASE`;
- `PhysAddrs`, the physical addresses callers pass;
- `MaxCalls`, the caller's budget.

**State.**

- The C array is `pzones \in [1..PZONE_MAX_NUM -> Zone]`, where C index `i`
  is slot `i+1`. A deleted slot keeps the stale value `memmove` leaves in it.
  The model writes `ZeroZone` only where the code `memset`s.
- `rm` holds the loop locals of a `pzone_remove` in progress (`i`, `startpage`,
  `endpage`). It equals `NoRemove` between calls.
- `boot`, `calls` and `lastEnd` encode the caller's contract: increasing,
  non-overlapping `pzone_new` calls, then `pzone_remove` calls.
- `registered` and `reserved` are ghost sets of the virtual addresses that
  were added and removed.

**Actions.**

- `PzoneNew` is the whole of `pzone_new`. That includes the capacity and
  empty-range early returns, the conversion, the alignment and the page-0
  bump.
- `PzoneRemove` is the entry of `pzone_remove`: conversion, alignment and the
  empty early return.
- Each iteration of its `while` loop is one action:
  - `RemoveWhole`: `memset`, `memmove`, `pzone_num--`, no `i++`;
  - `RemoveFront`;
  - `RemoveBack`;
  - `RemoveSplit`: `memmove` up, fill `i+1`, `i += 2`;
  - `RemoveSplitFull`: shrink, then `continue` without `i++`;
  - `RemoveSkip`;
  - `RemoveDone`: the loop exits.

  Boot is single-threaded and nothing else is enabled during the loop, so
  splitting it into steps adds no interleavings the code does not have.

### `PhysMem.tla`: bootstrap, free list and lookups

`PhysMem` extends `PZone`.

**State.**

- Memory is modelled where the code writes it:
  - `ppage` maps the descriptor addresses `_ppage_new` zeroed to their
    `ppage{}`;
  - `next` maps every page address to the word the free-list builder wrote
    there (`UNINIT` if it wrote none);
  - `freepagehd` is the list head with `nfree` and `maxfree`.
- The loop locals are `bi` (the zone index `i`), `prev` and `curr`.
- `incs` bounds the steady-state map-count increments.
- `marked` is a ghost set of the pages `ppage_mark_used` reported as
  successfully marked.

**Actions.**

- `PhysmemInitPanic` and `PhysmemInit` model `physmem_init`.
- `PpagesInitNoRoom` and `PpagesInitPlace` are one per zone. Each models a
  whole call to `_pzone_ppages_init`.
- `CreateFreeListPanic` and `CreateFreeList` are the first loop and the
  `kpanic`.
- `BuildSkipZone`, `BuildEnterZone`, `BuildLink`, `BuildZoneEnd` and
  `BuildDone` are the second loop, the terminator and `maxfree`.
- `PpageMarkUsed`, `KvirtIncMapcount` and `KphysIncMapcount` model the
  steady-state calls.
- `HaltLoop` is `kpanic`'s `halt_loop`: a state the system never leaves.

### `Terminal.tla`: the terminal input buffer

The variable `term` is `struct terminal_buf` as one record: `start`, `end`,
`full`, `delims`, `backspace` and `buf`. Characters are abstracted to what the
code tells apart: an ordinary key `"x"`, `"nl"`, `"eot"`, `"bs"`, `"tab"` and
`"ctrlc"`. The buffer also holds `"sp"` (tab expansion) and `"nul"` (the
initial zero bytes).

The helpers are pure operators on the record:
- `TermReset`, `TermPush` and `TermPoplast` translate `term_reset`,
  `term_push` and `term_poplast`;
- `PushSpaces` is the tab loop, written as the state after its `n` calls of
  `term_push(' ')`: which cells get a space, where `end` lands, and whether some
  call's new `end` met `start` (then `full` and `delims = 1`). `MC_Terminal`
  keeps the loop itself as the recursive function `PushSpacesLoop`. Its
  assumption `PushSpacesIsLoop`, evaluated by TLC on every terminal run, checks
  that the two agree on every buffer of the run's size for widths up to
  `2 * TERM_BUFSIZE + 1`, where the loop wraps over its own spaces;
- `Erase` is the backspace branch;
- `WakeIfFull` is the final `if(term.full)` wake-up.

`TermPutch(key)` is the whole of `term_putch`, one atomic step, since it runs
in the keyboard ISR with interrupts off. It covers CTRL_C (reset, then
newline), backspace, the full-buffer return, the delimiter, tab (1 to
`MaxTab` spaces, since the width depends on the cursor column) and the
ordinary key. Echo is left out, and so is SIGINT.

`term_read` is split at every statement that touches shared state. The
reader's pc `rpc` takes these values:
- `"check"`: the `delims` test (`ReadCheck`);
- `"toblock"`: `task_block` (`TaskBlock`);
- `"blocked"`: asleep;
- `"pop"`: the loop test and `c = buf[start]`, or the `-1` of an empty
  buffer (`ReadPop`);
- `"adv"`: `start++` (`ReadAdvance`);
- `"clr"`: `full = 0`, the `delims` decrement and the EOT return
  (`ReadClear`).

`Unblock` is `task_unblock_foreground`: a blocked reader goes back to the
`delims` test, as the `while` loop does. `got` holds the bytes copied so far.

`IsrCanRun` says where the keyboard interrupt may fire: while the reader is
in user mode or blocked, and, if `IRQS_IN_READ`, anywhere. Whether interrupts
are masked inside system calls is set by the syscall entry's flag mask,
which is outside `src/`. The passing run takes them to be masked.

### `Pit.tla` and `AbsClock.tla`: the timer

`Pit` has these variables:
- `timer_ticks`, `timer_hz` and `system_time`;
- `spc`, the pc of the `pit_set_freq()` caller;
- `tpc`, `secs` and `wake`: the `timer_sleep()` caller and its locals;
- `rtc`, what `init_unix_time()` read;
- the ghosts `irqs` and `base`, which count interrupts since the last reset.

Its actions are these:
- `Isr` is `ISR_HANDLER(32)`. `timer_ticks` wraps modulo `TICK_MOD`, for
  `uint32_t`. When it equals `timer_hz` the ISR sets it to 1 and adds a second.
- `SetFreqHz`, `SetFreqReset` and `SetFreqProgram` are the three parts of
  `pit_set_freq()`. The ISR may run between them. `TimerHz` is
  `reload_val ? hz : 18` with `reload_val = (uint16_t)(1193182 / hz)`, or 0
  for `hz <= 18`.
- `SleepCall(s)` computes `wake_time = system_time + seconds` modulo
  `TIME_MOD`, for the `int`-to-`uint64_t` sum. `SleepReturn` is the exit of
  the spin loop.
- `InitUnixTime` decodes the RTC registers through `ReadRtcTime`: BCD unless
  register B says binary, with the year taken from the register the code
  reads, plus 2011. `mktime` is outside `src/` and left out.

`system_time` is a `uint64_t` that does not wrap. The model caps it at the
horizon `MaxTime`: the ISR keeps firing at the horizon, but the seconds stop
there. Sleeps are explored only when they end by the horizon.

`AbsClock` is what the timer promises: a seconds clock that moves up by one
at a time, and a sleep that returns no earlier than its wake time, and does
return (weak fairness of `Wake`). `Pit` instantiates it with
`time <- system_time`, `sleeper <- tpc` and `wake <- wake`. `AbsClockSpec`
is that instance's specification, checked as a property of `pit_clock`.
These steps are stutters of the abstract clock:
- ISR ticks within a second;
- the ISR at the horizon;
- the rate changes;
- the RTC read.

### `Tarfs.tla`: the tar filesystem

The archive is the constant `Archive`: the headers in the order
`tarfs_first`/`tarfs_next` walk them. Each header has a name, a typeflag
character, a size field and the data after it. Those two walkers and
`tarfs_isfile` are not in the repository. The model takes a normal file to be
typeflag `'0'` or NUL, as `tarfs_print` classifies one. Characters are ASCII
codes, so `aotoi` subtracts 48 as the C subtracts `'0'`.

The variable `file` maps each `struct file` of `Fds` to its `hd` (the header
index; 0 is NULL), `f_size` and `f_pos`. `ret` is what the last call returned,
as a negative errno for an error. `copied` is what the last read copied to
the user: the header, the offset it started at, and the bytes.

The actions are these. Each is one system call, atomic on one task.
- `Open(fd, path)` is `tarfs_open`. It takes the first header with the name
  (`FirstMatch`), sets `f_size = aotoi(size, 12)` and `f_pos = 0`. A missing
  name gives `-ENOENT`.
- `Read(fd, count)` is `tarfs_read`. The early returns come first, in the
  code's order (`ReadEarly`, `ReadEarlyRet`): a negative offset, a directory,
  a non-file, a count of 0, and the end of the file. After them it copies
  `MIN(bytes_left, count)` bytes from `file_data`, the start of the file, and
  advances the offset. A byte past the end of the data is whatever follows it
  in the archive, -1 in the model.
- `Lseek(fd, offset, whence)` is `tarfs_lseek`. The sums for `SEEK_CUR` and
  `SEEK_END` are `off_t` sums, which wrap at `OFF_BITS` bits (`OffT`). Every
  whence rejects a target below 0 or at or past `f_size`, and an unknown
  whence gives `-EINVAL`.
- `Close(fd)` zeroes the `struct file`. `Write(fd)` returns `-EINVAL`.

Every `struct file` starts as the zeroed struct that `tarfs_close` leaves
(`Init`). The caller hands `tarfs_open` a file it has not opened.

`Aotoi(s, length)` is the loop of `aotoi` as a recursive function over the
iteration count, not a RECURSIVE operator, so `TarfsProofs` may use the
module. `MC_Tarfs` checks it against `OctalRef`, the base-8 value of the
digits before the first non-octal character, and asserts the table of
`test_aotoi`.

## 3. Runs

| Run | Configuration | Result | What it shows |
|---|---|---|---|
| `pzone_carving` | `MC_PZone.cfg` | passes, about 19 000 states | `TypeOK`, `ZonesWellFormed`, `ZonesDisjoint` and `CarvedCoverage` hold after any four registry calls, and the proofs' inductive invariant `IInv` holds in every state |
| `align_up_wrap` | `MC_PZone_AlignWrap.cfg` | violation | `ZonesDisjoint` fails: `ALIGN_UP` of a start in the last partial page wraps to 0, and the page-0 bump turns that into a zone spanning the space |
| `physmem_boot` | `MC_PhysMem.cfg` | passes, about 8 400 states | `MemTypeOK`, `FreeListIntegrity`, `MetadataDisjoint` and `LookupInBounds` hold through boot and the steady state, and so do `MInv` and `LInv`, the inductive invariants of `MetadataDisjointCorrect` and `LookupInBoundsCorrect` |
| `mark_used_never_sets` | `MC_PhysMem_MarkedPagesAreUsed.cfg` | violation | `ppage_mark_used` never sets `PPAGE_USED` |
| `ppages_in_unusable_zone` | `MC_PhysMem_PpagesOnlyInUsable.cfg` | violation | `physmem_init` writes descriptor arrays into unusable zones |
| `terminal_wakeup` | `MC_Terminal.cfg` | passes, about 111 000 states | `TermTypeOK`, `NoLostWakeup` and `ReadReturns` hold against every interleaving of keystrokes with `term_read` |
| `terminal_line_stuck` | `MC_Terminal_LineStuck.cfg` | violation | `delims` goes negative and a reader blocks forever with a line buffered |
| `terminal_tab_overflow` | `MC_Terminal_TabOverflow.cfg` | violation | the tab loop overwrites unread input in a full ring |
| `pit_clock` | `MC_Pit.cfg` | passes, about 56 500 states | `PitTypeOK`, `NoTickOverrun`, `SleepReturns` and `AbsClockSpec` |
| `pit_clock_rate` | `MC_Pit_ClockRate.cfg` | violation | after the first second, a second lasts `timer_hz - 1` interrupts |
| `tarfs_files` | `MC_Tarfs.cfg` | passes, about 1 300 states | `TarfsTypeOK`, `PosInFile` and `AotoiCorrect` hold through any opens, reads, seeks and closes |
| `tarfs_read_offset` | `MC_Tarfs_ReadData.cfg` | violation | a second read copies the file's first bytes again |

### The properties of the passing runs

- `ZonesWellFormed`: every zone in use is page-aligned, non-empty and never
  starts at 0.
- `ZonesDisjoint`: the zones in use are pairwise disjoint.
- `CarvedCoverage`: between calls, every address a zone covers was registered
  and not removed. This property catches both failure modes of the compaction
  index: advancing past a moved zone, and forgetting the decrement.
- `FreeListIntegrity`: after boot, walking `next` from `freepagehd.freepages`
  gives these results:
  - it visits exactly the pages of the usable zones, each once, in `nfree`
    steps;
  - it then reaches NULL;
  - `maxfree = nfree`.
- `MetadataDisjoint`: no `ppage{}` array overlaps a page of a zone, so the
  free list never overwrites a descriptor.
- `LookupInBounds`: `kvirt_to_ppage` maps each usable page to a distinct
  descriptor inside its zone's zeroed array.

- `NoLostWakeup`: a reader asleep in `task_block` has no delimiter counted.
  Each way of buffering a line (delimiter, CTRL_C and a full buffer) must wake
  it.
- `ReadReturns`: a `term_read` that has found a line counted returns to the
  caller. The pop loop must stop on an empty buffer even when `delims` claims
  more.
- `NoTickOverrun`: once `pit_set_freq` has returned, `timer_ticks < timer_hz`.
  Otherwise the ISR's equality test misses and seconds stop until the 2^32
  wrap.
- `SleepReturns`: a task in `timer_sleep` leaves the spin loop.
- `AbsClockSpec`: the timer refines the abstract clock. Seconds only go up by
  one, no sleep returns early, and every sleep returns.
- `PosInFile`: the offset of an open file stays in `0 .. f_size`, through
  reads to the end, seeks in every direction and `off_t` sums that wrap.
- `AotoiCorrect`: `aotoi` agrees with the base-8 reference on every string of
  up to three characters from NUL, space, `'0'`, `'1'`, `'7'` and `'8'`, for
  every length up to 4, and the `f_size` that `tarfs_open` stores is the
  reference value of the header's size field.

### Mutants

Each property has a mutant: a plausible bug in a mapped definition that the
run catches. The mutants are:

- `PzoneNewNoBump`: the page-0 bump is missing;
- `RemoveWholeNoDec`: `pzone_num--` is missing;
- `RemoveWholeAdvance`: `i++` after a delete;
- `RemoveSplitNoCheck`: no capacity check before the split;
- `PlacedDown`: `ALIGN_DOWN` for the new start (it breaks both
  `MetadataDisjoint` and `MInv`);
- `KvirtToPpageNoShift`: no `>> PAGE_SHIFT`;
- `BuildEnterZoneAny`: the `PZONE_USABLE` test is missing;
- `BuildLinkPastEnd`: `<=` in the inner loop;
- `PpagesInitNoRoomKeep`: the no-room branch leaves `PZONE_USABLE` set
  (it breaks `LInv`);
- `EraseNoCheck`: backspace without the `backspace == 0` test;
- `WakeIfFullNever`: no wake-up when a push fills the ring;
- `ReadPopNoBreak`: no `break` on `c < 0`;
- `TimerHzRaw`: `timer_hz = hz` without the reload fallback;
- `SetFreqNoReset`: `timer_ticks = 0` is missing;
- `SleepReturnStale`: `system_time` read once, as for a non-`volatile`
  counter;
- `SleepCallNoBase`: `wake_time = seconds`;
- `CloseKeepPos`: close clears `private_data` only;
- `NumReadNoMin`: `num_read = count`, without the `MIN`;
- `AotoiAnyDigit`: the loop test without `*optr <= '7'`.

### Bounds

`MC_PZone` has these bounds:

- 2-byte pages, 2 slots and a 16-byte space;
- physical addresses {0,1,4,7,10,14}, which include 0 (page-0 bump),
  unaligned values (both roundings) and sub-page ranges (empty returns);
- 4 calls.

These bounds are enough to fill the array, so the capacity return and the
split-full path are reached. They also reach every overlap case, a delete
with and without a following zone, and a split in the middle of the array.

`MC_PhysMem` uses 4-byte pages in a 32-byte space with 2-byte `ppage{}`s, so a
descriptor array is smaller than a page and the `>> PAGE_SHIFT` is visible.
The addresses {0,3,8,14,21,31} give the following zones:

- zones whose array needs all their pages (they become unusable);
- zones with room;
- a carve that empties a zone.

This run also has 3 registry calls and 2 map-count increments.

`VIRT_BASE = 0` in these two runs. The addresses of `MC_PZone` satisfy
`NoWrap`, the hypothesis of the proofs, so `pzone_carving` checks `IInv`
too. A non-zero `virt_base` is covered by the proofs, which hold for every
value. `MC_PZone_AlignWrap` has 4-byte pages
and the addresses {3,8,13,15}. Here 13 lies in the last partial page of a
16-byte space, which is what the overflow needs. A range that crosses the
`kphys_to_virt` wrap point is in the model but not yet exercised (see the
plan).

`MC_Terminal` has these bounds:
- a 3-cell ring, so it fills after three keys;
- all six keys;
- tabs of 1 or 2 spaces;
- read counts 0 to 3;
- 5 keystrokes.

With these bounds a line, a full ring, a CTRL_C reset and a backspace at
the boundary can all happen before or during a read. Each violation run
keeps these bounds but narrows the keys to the two the defect needs, so
that TLC's counterexample is the shortest one.

`MC_Pit` has these bounds:
- the rates {1, 20, 1193183}: below 18 Hz (fallback), a normal rate, and
  above the PIT clock (zero reload, fallback);
- `TICK_MOD = 32`, so the tick counter wraps before any second is counted
  at a rate of 0 (before the first `pit_set_freq`);
- `MaxTime = 2` seconds;
- sleeps of 0 to 2 seconds, and `TIME_MOD = 8`;
- two rate changes, enough to lower the rate from 20 to 18 while the count
  is above 18;
- two RTC readings in BCD.

`MC_Tarfs` has these bounds:
- five headers: a file named `a` (3 bytes), a directory, a second `a`
  (never found), a symbolic link, and an empty file with a NUL typeflag;
- a name the archive lacks;
- two `struct file`s;
- counts {0, 1, 2, 4}, where 4 is more than any file holds;
- offsets {-1, 0, 1, 2, 7} with a 4-bit `off_t`, so `f_pos + 7` wraps.

### Deadlock and fairness

`MC_PZone` disables the deadlock check. Its behaviours end when the caller's
call budget runs out, and the step that follows in the real system
(`physmem_init`) is in `PhysMem`. `MC_PhysMem` keeps the deadlock check on.
`kpanic` is a self-loop. After boot, `ppage_mark_used` with an unbacked
address is always enabled, as it returns -1.

`MC_Terminal` disables the deadlock check. Once the keystroke budget is
spent, a reader blocked for input waits forever. That is the real system
when nobody types.

`MC_Pit` keeps the deadlock check on. The ISR is always enabled.

`MC_Tarfs` keeps the deadlock check on. An open is always possible on a
closed `struct file`, and every call on an open one is.

These fairness assumptions are made:
- **Terminal.** Weak fairness of every step of the reader (`ReaderFairness`).
  The reader is a runnable task, and the round-robin scheduler runs it. The
  keyboard gets no fairness, because the user owes no keystrokes.
- **Timer.** Weak fairness of `Isr` and of `SleepReturn`. The PIT raises
  IRQ 0 periodically, and interrupts are enabled outside the ISR and the
  `cli()` bracket. The spinning task is a kernel task that the time slice
  preempts and the scheduler resumes.

## 4. Findings

Each of these has a violation run.

1. **`ALIGN_UP` overflow in `pzone_new`** (`physmem.c:74`). Take a converted
   start in the last partial page of the 64-bit space. With the kernel's
   `virt_base`, that is a physical start in `(0x7FFFF000, 0x80000000)` and an
   end below 2 GiB. Then the following happens:
   1. The start rounds up to 0.
   2. The page-0 test sets it to `PAGE_SIZE`.
   3. The zone becomes `[PAGE_SIZE, ALIGN_DOWN(end))`, nearly the whole
      space.
   4. This zone overlaps every earlier zone.

   The run `align_up_wrap` reaches it in two calls. Spec §3 says zones are
   pairwise non-overlapping.
2. **`ppage_mark_used` never marks** (`physmem.c:286`). `pflags &= PPAGE_USED`
   clears the other bits and never sets `USED`. The function returns 0, and a
   second call on the same page also returns 0.
3. **Descriptor arrays are placed in unusable zones** (`physmem.c:193`).
   `physmem_init` calls `_pzone_ppages_init` on every zone. So memory
   registered as not usable gets a `ppage{}` array written into it, and its
   `start` is bumped.
4. **`delims` goes negative** (`fs/terminal.c:76`). Suppose two newlines are
   buffered when the ring fills. Then `delims` drops from 2 to 1, and popping
   both newlines takes it to -1. Later a reader blocks with a complete line
   buffered.
5. **The tab loop overruns the ring** (`fs/terminal.c:167`). The loop has no
   `full` check, so `end` passes `start` and unread input is overwritten.
6. **A second lasts `timer_hz - 1` interrupts** (`pit.c:20`). The ISR
   restarts the count at 1, so the clock runs fast by `1/timer_hz`.
7. **`tarfs_read` ignores the offset** (`tarfs.c:188`). `memcpy` copies from
   `file_data`, the start of the file, then `*offset += num_read`. Two
   one-byte reads of `ABC` both return `A`, and a read after `lseek` returns
   the first bytes.

These defects are read from the code while modelling it. No run keeps a
property for them (see the hazard list):

1. **A split with a full array loses memory** (`physmem.c:133-137`). The
   zone's `end` is set to `startpage` before the capacity check, and the code
   only prints a message. The range `[endpage, oldend)` is gone from the
   registry, although spec §7 says the removal is skipped.
2. **A read crosses line boundaries** (`fs/terminal.c:235`). `term_read`
   stops only at EOT, at an empty buffer or at `count`. Typing `nl x` and
   then `read(2)` returns both lines. The comment at lines 200-203 promises
   line-by-line input.
3. **Backspace erases consumed input** (`fs/terminal.c:172`). `backspace` is
   reset only by a delimiter. After a full ring is read, it exceeds what is
   buffered.
4. **A full ring fakes a line** (`fs/terminal.c:76`). `term_push` sets
   `delims = 1` when the ring fills. After `x x x`, a `read(3)` takes the
   three characters, and then a `read(1)` passes the `delims` test and
   returns 0 with no EOT typed.
5. **The RTC year is the month** (`pit.c:103`). `year = read_rtc(RTC_MONTH)`.
6. **`lseek` cannot reach the end** (`tarfs.c:151`). Every whence rejects
   `new_off >= f_size`, so `lseek(fd, 0, SEEK_END)` fails and an empty file
   allows no seek at all. The code's own TODO asks about it.
7. **A negative sleep** (`pit.c:43`). `timer_sleep(-1)` at second 0 computes a
   wake time of `2^64 - 1` and spins practically forever. No caller in `src/`
   passes a negative value.

## 5. Proofs

The registry proofs are in `PZoneProofs.tla`. They hold for every value of the
constants allowed by PZone's named assumptions:

- `PAGE_SIZE > 0`;
- `ADDR_MOD` is a positive multiple of `PAGE_SIZE`;
- `PZONE_MAX_NUM > 0`;
- `VIRT_BASE` and `PhysAddrs` lie in the address space;
- `MaxCalls \in Nat`.

### `TypeCorrect`

`TypeCorrect` states `ZoneSpec => []TypeOK`, and `TypeOK` is inductive as it
stands. The typing of `rm` is `{NoRemove} \cup RemoveLocals`; it excludes
`i = 0` while a removal is in progress.

The proof has one lemma per action group: `NewTypeOK`, `RemoveTypeOK` and
`LoopTypeOK`. Each derives the action's disjunction with Zenon and then splits
on it.

### Registry safety

`RegistryInvariant`, `ZonesDisjointCorrect`, `ZonesWellFormedCorrect` and
`CarvedCoverageCorrect` state `NoWrap => (ZoneSpec => []P)`. `NoWrap` says
that no physical address passed in wraps when `kphys_to_virt` converts it or
`ALIGN_UP` rounds it. Finding 1 shows the hypothesis is needed.

`ZonesDisjoint` and `CarvedCoverage` are not inductive, for two reasons:

- In the middle of the remove loop, zones from slot `i` on may still overlap
  the range.
- `pzone_new` must know that every zone lies below the next registration.

So the proofs use the strengthening `IInv`, which is the conjunction of:

- `TypeOK`;
- `RmOK`: the current range is aligned and non-empty;
- `ZonesWellFormed`;
- `Separated`: disjointness stated by bounds, `end_j <= start_k \/ end_k <= start_j`;
- `BelowNext`: while registering, nothing has been removed, and every zone
  ends at or below `lastEnd + VIRT_BASE`;
- `Unprocessed`: every covered address was registered. A removed address is
  still in zone `j` only if `rm.i <= j` and the address lies in the current
  range.

The argument runs one lemma per loop case:

- **Deletion** (`WholeIInv`). The zone now in slot `j` is the old zone of slot
  `G(j) = IF j >= i THEN j+1 ELSE j`. `G` is injective, and a moved zone's
  index stays `>= i`.
- **Split** (`SplitIInv`). Each new zone lies inside its origin zone. The two
  halves lie below and above the range, and `i` advances past both.
- **Front and back cuts** (`FrontIInv`, `ShrinkEndIInv`). The zone keeps
  only addresses outside the range.
- **Skip** (`SkipIInv`). The failed four tests imply the zone and the range
  are disjoint.
- **Exit** (`DoneIInv`). `i > pzone_num`, so no zone can hold a removed
  address.

`pzone_carving` checks `IInv` with TLC as well.

### The timer (`PitProofs.tla`)

These proofs hold for every value of the constants that satisfies `Pit`'s
assumptions:
- positive rates;
- `TICK_MOD > 1`;
- `MaxTime < TIME_MOD`.

There are three theorems:
- `PitTypeCorrect` (`PitSpec => []PitTypeOK`) is proved by a type-step lemma.
  Each action is one case. The ISR is split into its two branches once, in
  `IsrCases`.
- `NoTickOverrunCorrect` (`PitSpec => []NoTickOverrun`). `NoTickOverrun` is
  not inductive. The inductive invariant `TickInv` adds three facts:
  - a `pit_set_freq` under way has been counted in `sets`;
  - every rate stored is at least 18 (`TimerHzRange`);
  - the count is below the rate outside the window between the two
    assignments.

  The lower bound is what the ISR's restart at 1 needs. `TickIncrement` gives
  the `uint32_t` wrap.
- `PitRefinesAbsClock`: if no sleep argument is negative, then
  `PitSpec => AC!Init /\ [][AC!Next]_AC!absVars`. Every step of the timer is
  one of these:
  - a tick of the abstract clock;
  - a sleep with `wake >= time` (the sum does not wrap because
    `system_time + s <= MaxTime < TIME_MOD`);
  - a wake-up;
  - a stutter.

  The hypothesis is needed. With a negative argument the code computes a wake
  time in the past or near `2^64`.

### The tar filesystem (`TarfsProofs.tla`)

`PosInFileCorrect` states `SizesNat => (Spec => []PosInFile)`. It holds for
every archive, every set of counts and offsets, and every `off_t` width that
`Tarfs`'s assumptions allow. `SizesNat` says that each header's size parses
to a natural number. `aotoi` returns a `uint64_t`, but the provers cannot
show this of the loop, because that takes induction over the string.
`MC_Tarfs` asserts `SizesNat` of its archive.

The inductive invariant `PosInv` adds to `PosInFile` that the fields are
integers. The proof has one case per call:
- **open** needs the first matching header to exist (`FirstMatchFound`, by
  the least-number principle `WFMin` on `<` over `Nat`);
- **read** is split once into its early returns and its copy (`ReadCases`);
  `MIN` keeps the offset at most `f_size`;
- **lseek** sets the offset only to a target in `0 .. f_size - 1`
  (`LseekCases`), and the target is an integer whatever the wrap
  (`LseekTargetInt`);
- **close** zeroes the struct, and **write** changes nothing.

`TarfsTypeCorrect` states `SizesNat => (Spec => []TarfsTypeOK)`, and
`TarfsTypeOK` is inductive as it stands. `TarfsTypeStep` has one case per
call. `FileRec` is the type of one open file. `ReadBody` shows that
`tarfs_read` copies integers and moves the offset by a natural number.
Membership in `Seq(Int)` goes through `SeqDef` and `ElementOfSeq`.

### The ppage{} arrays (`PhysMemProofs.tla`)

`MetadataDisjointCorrect` states
`NoWrap /\ SmallPpage => (MemSpec => []MetadataDisjoint)`. `SmallPpage` says
that `sizeof(struct ppage)` is at most a page. The theorem holds for every
page size, capacity, descriptor size and sequence of registry calls that
PZone's and PhysMem's assumptions allow.

`MetadataDisjoint` is not inductive. Once zone j's array has taken its front,
the array lies below `start`, and nothing in the state says that no other
zone reaches into that front. The strengthening `MInv` says:

- during registration (`boot` is `new` or `remove`), the registry's `IInv`
  holds and no zone has an array (`NullPpages`);
- after registration, no removal is in progress and `MemShape` holds. Every
  zone is aligned and does not start at 0. A placed array lies between
  `ppages` and the bumped `start`. The zones are separated when each is
  taken from its `Lo`: the array base once one is placed, the start before.

The proof has one lemma per kind of step:

- a registry call keeps `IInv` (`IInvStep` of `PZoneProofs`) and
  `NullPpages` (`NullStep`), and cannot happen after registration
  (`ZoneIdle`);
- `physmem_init` turns `IInv` into `MemShape` (`ShapeFromIInv`);
- `_pzone_ppages_init` with room raises only zone `bi`'s `Lo`, to its old
  start (`PlaceStep`). `PlacedShape` shows that the array fits below the
  bumped start and that `ALIGN_UP` keeps that start at or below `end`;
- the other steps leave the zones alone (`QuietFacts`).

The arithmetic rests on `AlignUpBelow`: an aligned `end` lies a page below
`ADDR_MOD`, so `ALIGN_UP` of an address no higher than `end` neither wraps nor
passes `end`. `ModQuotient` and `AlignedMultiple` give the provers the
division facts with a symbolic divisor.

`MInvInvariant` states `MemSpec => []MInv` under the same hypotheses; the
other two theorems of the module follow from it.

TLC checks `MInv` in `physmem_boot`. That instance includes address 31, which
wraps, so the run shows `MetadataDisjoint` beyond the theorem's `NoWrap`
hypothesis.

### Page lookup (`PhysMemLookupProofs.tla`)

`LookupInBoundsCorrect` states
`NoWrap /\ SmallPpage => (MemSpec => []LookupInBounds)`, under the same
assumptions as `MetadataDisjointCorrect`. Once boot is over,
`kvirt_to_ppage(a)` for a page `a` of a usable zone is a `ppage{}` that
physmem_init zeroed, inside its zone's array, and two distinct pages get two
distinct `ppage{}`s.

`MInv` is not enough here. It says where an array lies, but not that a
usable zone has one, nor that its descriptors exist. `LInv` is `MInv` plus
`ArrayInv`:

- after registration, every placed array is page-aligned and all its
  `ArrayLen(j)` descriptors are in `ppage`;
- during `physmem_init`, every usable zone before `bi` has an array;
- from the free-list build on, every usable zone has an array.

`_pzone_ppages_init` keeps `ArrayInv`. With room it places zone `bi`'s array
and zeroes exactly its descriptors (`PlaceStepArray`). Without room it clears
`PZONE_USABLE` (`NoRoomStepArray`). The other steps leave the zones and the
descriptors alone, or only change a descriptor's fields (`QuietStepArray`).
`LInvInvariant` states `MemSpec => []LInv`. TLC checks `LInv` in
`physmem_boot`.

From `LInv` at `ready`, the argument runs as follows:

- the zones are separated, so `pzone_find(a)` returns the one zone holding
  `a` (`FindUnique`);
- the index `(a - start) / PAGE_SIZE` is below
  `(end - ppages) / PAGE_SIZE`, the array's length, because
  `ppages <= start` and all four addresses are page-aligned (`IndexFacts`);
- so the descriptor is one of `DescAddrs`, inside `ArrayBytes`, and below
  the bumped start (`LookupAt`);
- within a zone, distinct pages have distinct indices. Across zones, each
  descriptor lies in its zone's `[ppages, start)`, and those ranges are
  separated (`LookupDistinct`).

### Types through boot (`PhysMemTypeProofs.tla`)

`MemTypeCorrect` states `NoWrap /\ SmallPpage => (MemSpec => []MemTypeOK)`,
under the same assumptions as `MetadataDisjointCorrect`. The loop locals and
the head of `_create_free_page_list` are addresses. Every word written into
the free list holds an address. Every `ppage{}` sits at an address, and its
map count stays in `0 .. MaxIncs`.

`MemTypeOK` is not inductive, for two reasons:
- `BuildLink` adds a page to `curr`, which stays an address only because
  `curr` is an aligned page below the aligned `end` of its zone;
- `k*_inc_mapcount` adds one to a count, which stays at most `MaxIncs` only
  because each count is bounded by the increments made so far.

The lemma `TInvInvariant` proves the strengthening
`TInv == MInv /\ MemTypeOK /\ BuildInv /\ MapBound`. `BuildInv` says that
while the inner loop of `_create_free_page_list` walks zone `i`, `curr` is an
aligned page of that zone or its end. `MapBound` says that no map count
exceeds the number of `k*_inc_mapcount` calls made. `TInv` is a device of the
proof, not a property of its own: TLC checks `MemTypeOK`, the statement it
serves. It
needs `MInv` for two facts: zones are aligned and above 0 when the second
loop enters them, and the zeroed descriptors are addresses (`DescInAddr`,
from `PlacedShape`). The proof has one lemma per group of actions
(`ZoneStepT` .. `HaltStepT`). `TStep` combines them with `MInvStep`. Some
facts needed separate lemmas:
- `HeadFound`: the `CHOOSE` of the first loop picks a zone index, by `WFMin`;
- `NextPage`: `curr++` stops at the end of the zone;
- `NextAligned`: `curr++` stays aligned.

### The terminal (`TerminalProofs.tla`)

Two theorems hold for every buffer size, key set and bound that Terminal's
named assumptions allow:

- `TermTypeCorrect` states `TermSpec => []TermTypeOK`;
- `NoLostWakeupCorrect` states
  `~IRQS_IN_READ => (TermSpec => []NoLostWakeup)`.

The hypothesis of `NoLostWakeupCorrect` is the one the passing run makes: the
keyboard ISR runs only while the reader is in user mode or asleep. With
`IRQS_IN_READ` TRUE the property fails (see the hazard at `terminal.c:230`).

`TermTypeOK` is not inductive as it stands. `ReadClear` appends a byte to
`got`, which keeps `Len(got) <= rcount` only if fewer than `count` bytes were
stored when the byte was read. `TypeInv` adds that, for the reader at `adv` or
`clr`.

`NoLostWakeup` is not inductive either. `TaskBlock` sends the reader to sleep
without looking at `delims`. `WakeInv` says `delims = 0` from the `delims`
test on (`toblock`), not only while the reader is asleep. The lemma
`WakeInvariant` states `~IRQS_IN_READ => (TermSpec => []WakeInv)`; `WakeInv`
serves the proof and is not checked as a property of its own. The argument:

- `ReadCheck` goes to `toblock` only when `delims = 0`;
- the ISR cannot run at `toblock`, and at `blocked` it starts from
  `delims = 0` (`term_reset` for CTRL_C keeps that: `ResetFacts`);
- every branch of `term_putch` either leaves `delims` alone or wakes the
  reader:
  - a delimiter wakes the reader;
  - a dropped key on a full ring wakes it;
  - `term_push` (`PushFacts`) and the tab loop (`SpacesFacts`) change
    `delims` only when they fill the ring, and the final `if(term.full)` then
    wakes the reader;
  - backspace never touches `delims` (`EraseFacts`).

The buffer is a record, and the helpers update several of its fields at once.
The provers cannot show such an update stays in `TermBuf` in one step. The
lemmas `SetStart` .. `SetBufAt` update one field at a time, and each helper's
lemma chains them. `PutchCases` splits `term_putch` into its five branches.
`PushSpaces` is written in closed form for these proofs; the loop itself stays
in `MC_Terminal`.

### What stays with TLC

- `FreeListIntegrity`, the one `PhysMem` invariant of the passing run
  without a theorem. It is stated through `Walk`, the recursive function that
  follows `next` down the list. Proving what that walk reaches is induction
  over data, which the installed provers cannot instantiate.
- Liveness, which is outside TLAPS's reach (fairness and ENABLED).
  This covers `ReadReturns`, `SleepReturns` and the fairness half of
  `AbsClockSpec`.
- The `Terminal` properties other than `TermTypeOK` and `NoLostWakeup`:
  `ReadReturns` is liveness, and `LineDelivered` and `NoUnreadOverwritten`
  are violated. That the closed-form `PushSpaces` is the loop is checked by
  TLC (`PushSpacesIsLoop`) on the run's buffer size only: the loop is a
  recursive function, which the provers cannot unfold.
- `AotoiCorrect`, which is what `Aotoi` computes for every input.
- What the recursive function `Walk` (the free-list walk) computes for every
  input. That is induction over data, which the installed provers cannot
  instantiate.

## 6. Not modelled

- `physmem_report` only prints.
- `exec.c` depends on the VM, ELF loader and scheduler, which are outside
  `src/`.
- The contents of the ppage arrays beyond `pflags` and `mapcount`.
- A lookup of a page in an unusable zone, which indexes a NULL `ppages`. See
  the hazard list.
- Concurrency of the steady-state calls with interrupts.
- `src/sys/terminal.c`, an older terminal (no CTRL_C; it panics when woken
  without input), and `term_write` and the terminal's `lseek`, `readdir` and
  `close`, which only print or return constants.
- The scheduler (`task_block`, `task_unblock_foreground`, `schedule`) and
  signals, which are outside `src/`. The wake-up is a change of the reader's
  pc.
- The PIT's EOI, the on-screen clock, time slicing, and `mktime`.
- `printf.c` and `exec.c`.
- `tarfs_mmap`, `tarfs_get_unmapped_area` and `tarfs_check_flags`, which
  return 0, and `tarfs_print` and the `test_*` routines, which print. The
  kpanics of `tarfs_open` and `tarfs_close` (a path without `/`, a NULL
  `fp`, a shared file) are unreachable from a caller that follows the
  interface.

## 7. Plan

1. (Done in sitting 1: the registry safety theorems.)
2. (Done: `MetadataDisjoint`, `LookupInBounds` and `MemTypeOK`.)
3. Add a wrap-around run with `VIRT_BASE = ADDR_MOD/2` and a coverage property
   over physical ranges, to show `kphys_to_virt` wrapping.
4. Add a run without the caller's ordering contract, to show which properties
   depend on it.
5. Add an abstract registry (a set of usable pages) and a refinement mapping
   from `PZone`. The split-full path makes the refinement fail, which is
   finding 4 again. The refinement holds when capacity suffices.
6. (Done in sitting 2: the terminal and PIT models, and the timer proofs.)
7. (Done: `TerminalProofs` proves `TermTypeOK` and `NoLostWakeup`.)
8. (Done in sitting 2: `Tarfs`, with `aotoi` and the offset proof.) Model
   `itoa`/`uitoa` and `parseint` (libc) as pure operators checked against
   reference definitions over bounded inputs.
