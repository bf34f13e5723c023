# TLA+ models of the xv6 demand-paging subsystem, the bakery simulation and cshark

Most modules model the demand-paging subsystem in `src/A/kernel`. It loads an
executable lazily, resolves page faults from the executable or with zero-filled
memory, evicts pages FIFO under memory pressure, and counts pages sent to a
simulated swap pool. TLC checks the models.
The two other programs in `src/` are unrelated to the kernel:

- `src/B` is cshark, a libpcap CLI;
- `src/C/hotel.c` is a pthread bakery simulation.

`Bakery` models the bakery simulation and `Capture` models cshark's capture
sessions, packet store, session browser and SIGINT handler.

## The system and its parts

| Part | Code | Module |
|---|---|---|
| Address-space descriptor: `p->segments`, `heap_start`, `sz`, `next_seq`, `num_resident`, `exec_inode`, swap fields | used in `exec.c`, `demand.c`, `swap.c` (proc.h is not in `src/`) | `DemandPaging` variables |
| Program loader | `exec.c` `kexec` 26-208, `flags2perm` 13-21 | `Loader` (and `Init` of `DemandPaging`) |
| Swap pool | `swap.c` | `SwapPool` |
| Fault classifier | `demand.c` `find_segment` 13-20, `get_fault_cause` 23-58 | `DemandPaging` `SegIndex`, `GetFaultCause` |
| Page-fault resolver | `demand.c` `demand_page_fault` 271-406, `demand_page_fault_with_pagetable` 138-268, `load_segment_page` 108-135 | `DemandPaging` `Fault*`, `Install`; `Loader` `ArgCopyFault` |
| FIFO eviction | `demand.c` `find_victim_page` 78-105 | `DemandPaging` `FindVictimPage` |
| Introspection | `sysproc.c` `sys_memstat` 110-179 | `DemandPaging` `MemStat` |
| Lazy heap growth | `sysproc.c` `sys_sbrk` 40-64 | `DemandPaging` `SbrkLazy` |
| Dirty-tracking stubs | `dirty.c` | not modelled (no state, no caller) |
| User tests | `user/demandtest.c`, `user/memtest.c` | not modelled (they supply the scenarios) |
| Bakery simulation | `src/C/hotel.c`: customer, chef and time threads, `main` | `Bakery` (parsing and the event log left out) |
| cshark capture and browser | `main.c` `main`, `start_sniffing_*`, `packet_handler`, `store_packet`, `free_packet_store`, `signal_handler`; `inspect.c` `inspect_last_session` | `Capture` |
| cshark dissection and reports | `parser.c`, `utils.c`, `get_packet_protocol`/`get_packet_addresses` | not modelled (byte decoding and printing) |

How the parts interact:

1. `kexec` records the segments and sets `heap_start`, `sz` and the counters.
2. It maps one argument page and copies argv into the new page table. The copy
   faults the top stack page in through `demand_page_fault_with_pagetable`.
   That handler takes its victim from the *old* `p->pagetable`.
3. After that, every user page fault goes to `demand_page_fault`:
   - `get_fault_cause` classifies the fault;
   - a valid PTE is either re-checked or upgraded to writable;
   - otherwise the handler takes a frame from `kalloc`. If there is none,
     `find_victim_page` picks a victim, `swap_out_page` records it and
     `uvmunmap` unmaps it. The handler then fills the frame (from the file
     or with zeros), maps it and increments `next_seq`.
4. `sys_sbrk` raises `p->sz` without allocating.
5. `sys_memstat` reports the counters and walks the page table.
6. The kalloc frame pool is shared with every other process.

## Modules

- **`SwapPool.tla`** holds the per-process swap bookkeeping of `swap.c`:
  - variables `swapFile` (`p->swap_file != 0`), `swapSlots` (the bitmap) and
    `numSwapped`;
  - `SwapAllocSlot` is the lowest free slot;
  - `SwapOutPage` and `SwapOutFull` are the two outcomes of `swap_out_page`.
    Both run `swap_init` first: `InitedSlots` and `InitedCount` are the state
    after its memset.
  - `SwapCleanup` is `swap_cleanup`. `SwapInPage` is `swap_in_page`; nothing in
    `src/` calls it, so no step uses it.
- **`DemandPaging.tla`** is one process after `kexec`, with other processes
  sharing the frames. Addresses are page numbers, and page `MaxPage` stands for
  every address ≥ MAXVA. The state:
  - the page table is a function from the pages with `PTE_V` to
    `[frame, perm]`;
  - `newPagetable` is the table `kexec` is building;
  - `freeFrames` is kalloc's free list and `otherFrames` holds what other
    processes have;
  - `lastEvent` is the tag of the trace line the last step printed, which
    tells a failed fault from a successful one;
  - `swappedOut` is a history variable: the pages evicted and not faulted back.

  A fault is one atomic step. It runs on the process's own kernel thread with
  no lock and no sleep, so nothing of this process interleaves with it.
  There is one action per outcome:
  - `FaultInvalid`, `FaultAlreadyMapped` and `FaultDirtyUpgrade`;
  - `FaultAlloc`, `FaultNoVictim`, `FaultSwapFull` and `FaultEvict`.

  `Install` is the fill/map/commit tail of lines 359-405 with its failure
  paths: no segment, a short read and a mapping failure each kfree the frame.
  `isNew` selects the target table, which turns the same actions into
  `demand_page_fault_with_pagetable`. `Init` is the state `kexec` leaves
  behind: the argument page and the top stack page mapped, and `next_seq` = 1.
  Three steps come from the spec, because their code is in `proc.c`/`kalloc.c`,
  which are not in `src/`:
  - `OtherKalloc` and `OtherKfree`, another process's kalloc and kfree;
  - `ProcExit`, which frees the frames and calls `swap_cleanup`.
- **`Loader.tla`** extends `DemandPaging` with `kexec` itself:
  - `ExecOpenFail`: lines 41-56;
  - `ExecLoad`: the header loop, lines 89-98, `uvmalloc` and line 142;
  - `ExecArgCopy`: lines 144-174, which fault the top stack page into the new
    table;
  - `ExecCommit`: lines 187-198, which free the old table below `oldsz`;
  - `ExecBad`: lines 200-207.

  A program is a sequence of PT_LOAD headers. Each header is a segment plus
  whether it passes the checks of lines 62-71. The process's own steps are
  disabled while it is inside `kexec`; other processes' kalloc and kfree
  interleave with every step.
- **`MCDemandPaging.tla` and `MCLoader.tla`** instantiate the modules. They
  use three frames as model values with symmetry. The images use the xv6
  layout: text at page 0 and data at page 1, so heap_start = 2, the argument
  page is page 2 and the stack is page 3. The address space is pages 0-5, and
  page 6 stands for MAXVA.

- **`Bakery.tla`** is `hotel.c`, a separate program: one pthread per
  customer and per chef, a time thread and `main`. It is described in its own
  section below.
- **`BakeryCustomers.tla`** is what the bakery promises a customer, with
  threads, clock and rings left out. A customer goes outside → entering →
  seated or standing → served → paid → leaving → left, or is turned away. At
  most `MaxCustomers` are in the shop and `SofaCapacity` hold a place, and a
  freed place goes to the longest-standing customer. `Bakery` refines it
  through `CustomerPhase` and `StandingSeq` (`INSTANCE ... WITH`):
  - a phase is read off the customer's pc and its `customer_sync` flags;
  - a standing customer already taken off the ring counts as seated.
- **`AddressSpace.tla`** is what the fault path promises a process, with
  frames, swap and PTE bits left out:
  - variables: the segment pages, `heap_start`, `sz`, the resident pages and
    the killed/exited flags;
  - `Kill(v)` happens only on an illegal page;
  - `Fault(v)` is a fault on a legal page that is not resident. It may map
    `v` and may first evict the FIFO victim, the lowest resident page below
    `sz`; it may also change nothing, since failures return without a mapping;
  - `Grow` is sbrk and `Exit` empties the space.

  `DemandPaging` refines it through `Abstract == INSTANCE AddressSpace WITH
  segPages <- ..., resident <- DOMAIN pagetable`, checked as
  `AddressSpaceRefined`.
- **`MCBakery.tla`** holds the customers, chefs, arrival times and
  `customer_sync` slots of the bakery runs.
- **`Capture.tla`** is cshark's `main` with its capture functions, the packet
  store, the session browser and the SIGINT handler (see below).
  **`MCCapture.tla`** gives its bounds.

## The bakery model

`hotel.c` runs a customer thread per input line, `NUM_CHEFS` chef threads and
a thread that advances `current_time` every 100 ms. Customers enter the shop
(capacity `MAX_CUSTOMERS`), take a sofa place or stand in `standing_queue`,
put a cake request into the ring `sofa_queue`, and wait on their
`customer_sync` entry for `cake_ready` and then `payment_accepted`. Chefs loop:
first a due payment from `payment_queue` (under `cash_register`, a binary
semaphore), else a request from the sofa ring (under the `ovens` semaphore).
`main` joins the customers, clears `simulation_running` and joins the chefs.

State and steps:
- `cpc`/`hpc` are each thread's program counter. `hCust`/`hTime` are a chef's
  locals (the customer and the time it waits for). `cTime`/`handoff` are a
  customer's `leave_time` and the standing customer it promotes.
- The rings are arrays with `front`/`rear` taken `% size`, exactly as in the
  code, so a full ring reads as empty just as it does there.
- Each action is one stretch of a thread that holds a lock or ends at a wait:
  - the customer's `CustomerEnter` through `CustomerLeaveShop`;
  - the chef's `ChefLoop`, `ChefGetPayment`, `ChefAcceptStart`/`End`,
    `ChefPeek`, `ChefTryOven`, `ChefTake` and `ChefBakeStart`/`End`;
  - `MainStop` and `Tick`.
- The `customer_sync` setters (`NotifyCanSit`, `SignalCakeReady`,
  `SignalPaymentAccepted`), `AddPaymentRequest` and `InitCustomerSync` are
  operators of their own. The steps that call them use them, so a slot is
  written only where the code writes it.

  Between two stretches other threads interleave freely. This covers the
  window between the unlock at line 369 and `notify_can_sit`, and the window
  between `sem_trywait(&ovens)` and taking the queue.
- **Time.** `Tick` fires only when no thread can move at the current time
  (`Quiescent`). Waiting threads poll every 10 ms or 50 ms, against 100 ms per
  time unit, so each one sees every time value and acts on it before the next.
- **Idle polling.** A chef with nothing to do (`ChefIdle`) does not step: its
  50 ms poll changes nothing until a tick or another thread changes the state.
- **Termination.** `CHECK_DEADLOCK FALSE` is set because the program really
  ends: once every thread has returned (`Finished`), nothing is left to run.
  A stop before that is a hang. The bakery run does not claim that the
  program always ends, because it does not: when the sofa ring is full,
  requests are hidden and `main` never returns (sofa_ring_full). What it
  checks is progress for every request a chef can see
  (`VisibleRequestsServed`).

Fairness is weak fairness for each customer, each chef, `main` and the time
thread. Every runnable pthread is eventually scheduled, and each wait is a
poll or a condition wait that rechecks its condition, so a thread whose step
stays enabled takes it. Strong fairness is not needed. The only blocking
contended resource is `cash_register`. Each customer pays once, so a chef
waiting for the register can be passed over only finitely often. The oven
semaphore is taken with `sem_trywait`, which never blocks.

## The cshark model

`Capture.tla` follows `main`'s menu loop through one session at a time.
`pc` is where `main` is: at the menu, about to open, about to compile the
filter, in `pcap_loop`, between `pcap_close` and `handle = NULL`, or in the
session browser. `handle` is what the global pointer refers to: NULL, an open
`pcap_t`, or one that `pcap_close` has freed. `breakLoop` is the `break_loop`
flag inside the open `pcap_t`, so a new `pcap_open_live` clears it.
The store is the sequence of stored packet ids with `packet_store != NULL` as
`storeAlloc`. Packet bytes are abstracted to ids. `dropped` is a history
variable with no counterpart in the code: the ids of the session whose
`store_packet` lost them to a failed malloc. It lets the store be stated
against what the session received.

- `SniffAll` and `SniffFiltered` are the session starts: free the store, reset
  the id and `stop_capture`. An invalid filter choice returns before any of it.
- `OpenLive` and `CompileFilter` have their failure returns as disjuncts. A
  failed compile or setfilter closes the handle and returns without clearing
  it.
- `PacketHandler` is one callback: the id advances, and `store_packet` stores
  the packet below `MAX_PACKETS` unless one of its two mallocs fails.
- `LoopReturns`, `Close` and `Clear` are `pcap_loop` returning, `pcap_close`
  and `handle = NULL`. The signal handler can run between each pair.
- `SelectInterface` is `select_interface`: `main` reaches the menu or
  returns 1.
- `InspectOpen`, `InspectNextPage`, `InspectPrevPage` and `InspectQuit` are the
  browser's changes to `current_page`. Its listings only read the store.
- `InspectDetail` and `InspectDetailDone` are the 'i' command. `packetId` and
  `found` are its locals, and the user may type any id a session can assign, or
  0. The linear search is the RECURSIVE operator `FindFrom`. An unknown id
  continues at the prompt and changes nothing.
- `SignalHandler` is `signal_handler`, enabled in every state until exit,
  because a SIGINT can arrive at any instruction.

## Runs

| Run | cfg | Expect | What it shows |
|---|---|---|---|
| demand_paging | MCDemandPaging.cfg | pass | No frame is lost or shared. Every PTE lies inside the layout with the execute right of its origin. This holds across faults of every kind, eviction, swap exhaustion, sbrk, exit and other processes' kalloc/kfree. Each step also refines `AddressSpace` (`AddressSpaceRefined`): only illegal accesses kill, and a fault maps at most its own page. The only page it removes is the lowest resident page below `sz`. |
| swap_refault | MCSwapRefault.cfg | violation | Refaulting an evicted page never calls `swap_in_page`, so `num_swapped` keeps counting it (demand.c:316). |
| no_victim | MCNoVictim.cfg | violation | `find_victim_page` returns 0 for the victim at va 0. The handler reads that as "no victim", logs KILL and returns 0 without `setkilled`, so the fault is not resolved (demand.c:324). |
| text_writable | MCTextWritable.cfg | violation | The dirty upgrade makes a text page writable (demand.c:307). |
| loader_frames | MCLoaderFrames.cfg | pass | Frame accounting holds across exec. This includes the copy fault that moves a victim's frame from the old table to the new one, and every failure path, as long as `p->sz` does not shrink. While `swap_file` is set, `num_swapped` equals the number of marked slots, through repeated exec. |
| exec_shrink_leak | MCExecShrinkLeak.cfg | violation | A failed exec after sbrk shrinks `p->sz` below mapped pages. The next exec frees the old table only below that size (exec.c:142/193). |
| failed_exec_partial | MCFailedExec.cfg | violation | A malformed header leaves the running image with rewritten segments (exec.c:75). |
| max_segments | MCMaxSegments.cfg | violation | Headers past MAX_SEGMENTS are dropped, not refused (exec.c:74). |
| bakery | MCBakery.cfg | pass | Sofa places are counted exactly through the standing hand-over (`SofaSeatsAccounted`). No cake or payment is handled twice (`ServedOnce`). Every cake request visible in the sofa ring is eventually baked and paid for, under weak fairness of each thread (`VisibleRequestsServed`). The staggered arrivals never fill the ring, so the hang of sofa_ring_full is out of this run's scope. The threads refine `BakeryCustomers` (`CustomerLifecycle`), so freed places go out first come, first served. This holds over five customers: one served alone, one waiting for an oven, two standing at once, one turned away at a full shop. |
| capture_sigint_uaf | MCCaptureSigint.cfg | violation | A filtered capture whose `pcap_compile` fails closes the handle and returns without clearing it. A Ctrl+C at the menu then passes the freed `pcap_t` to `pcap_breakloop` (main.c:230). The close/NULL window at main.c:164-165 reaches the same call. |
| capture_sessions | MCCapture.cfg | pass | The store holds exactly the first `MAX_PACKETS` packets of the last session started whose two mallocs succeeded (`StoreHoldsSessionPackets`). This holds across sessions that fail to open or compile, the full-store return, either malloc failing, and a SIGINT anywhere. The browser's page always starts at a stored packet (`BrowserPageInRange`). The 'i' search agrees with a reference lookup of the first matching index, and store ids stay distinct (`PacketLookupExact`). 1,016 states. |
| sofa_ring_full | MCSofaRing.cfg | violation | Two customers arriving together fill the two-slot sofa ring before a chef looks. `rear` wraps onto `front`, so `is_sofa_empty` hides both requests (hotel.c:93) and the customers wait forever. |

The violation runs of `DemandPaging` (swap_refault, no_victim, text_writable)
use only the well-formed image, with `PtPageMayRunOut = FALSE`, so the trace
they print is the code path under discussion and not an incidental mapping
failure. The loader's violation runs (failed_exec_partial, max_segments)
keep `PtPageMayRunOut = TRUE`, as in the passing loader run. Their traces
do not depend on it.

Every property of a passing run has a mutant in PROJECT.json: a plausible bug
written as an operator next to the definition it replaces, which TLC must catch:

- `InstallLeakOnFillFailure` drops a kfree;
- `GetFaultCauseInclusiveSz` is an off-by-one in the stack bound;
- `SwapOutFullCountFirst` counts before the slot search;
- `ExecBadLeak` skips `proc_freepagetable`;
- `InitedSlotsNoMemset` is `swap_init` without its memset;
- `FindVictimPageNewest` turns `find_victim_page`'s minimum into a maximum;
- `CustomerEnterOffByOne`, `CustomerLeaveSofaNoRecount`,
  `ChefGetPaymentUnmarked`, `ChefAcceptEndNoPost` and `CustomerLeaveSofaLifo`
  are bakery bugs: `>` for `>=` at line 298, the recount at 368 dropped, the
  `processed` mark at 276 dropped, the register never posted, and the standing
  ring popped at the wrong end;
- `PacketHandlerFullOffByOne` writes line 265's `>=` as `>`,
  `StartSessionKeepStore` drops the session's `free_packet_store`, and
  `InspectNextPagePastEnd` writes line 129's bound as `current_page <
  total_pages`, and `FindPacketSkipFirst` starts the 'i' search at index 1.

One finding has no run, because the project keeps to twelve runs. The
commit step of the fault handler (demand.c:402) raises `next_seq` but never
`num_resident`, which only exec resets (exec.c:92). memstat therefore always
reports 0 resident pages, against spec 4.3. `DemandPaging` models this:
`MemStat` reads the counter, and a first fault shows it. A violation run
showed it in earlier versions of the project, and its run slot now checks
the cshark store.

## Bounds

- **Frames: 3.** Exec's own pages take two frames, so the third touch already
  exhausts memory and every later fault goes through eviction, swap-full or
  no-victim.
- **Swap slots: 2.** Two evictions fill the pool, so SWAPFULL is reached.
- **MaxSz.** This is 6 in `demand_paging`, so the heap can grow past the
  stack and be faulted in. `loader_frames` fixes it at 4 (no sbrk), because
  exec_shrink_leak shows that growth followed by a failed exec leaks frames.
- **MaxSeq: 6.** This caps `next_seq`. It is reset by exec and never reached
  before frames run out.
- **MaxSegments: 2.** This is the smallest value that lets a three-header
  program overflow it.
- **Bakery: 5 customers, 3 chefs, 2 ovens, sofa 2, shop 4.** The arrivals
  (0, 3, 4, 5, 5) reach every branch:
  - a full shop (one of the two last arrivals is turned away);
  - a full sofa (two customers stand at once, so the order of promotion is
    observable);
  - an oven shortage (`sem_trywait` fails);
  - a chef that wins an oven after another chef emptied the queue.

  The code has `NUM_OVENS`, `NUM_CHEFS` and `SOFA_CAPACITY` 4 and
  `MAX_CUSTOMERS` 25. Two ovens and a sofa of two are the smallest sizes with
  the same shapes. A shop of four is reached with five customers, whereas 25
  would need 26. The 200-unit slack of the time thread is kept as in the code.
- **cshark: `MAX_PACKETS` 2, 3 packets per session, pages of 1.** A third
  packet meets the full-store return. Pages of one packet give a
  two-page session, so both the next and previous guards are crossed. The
  use-after-free needs none of these: it is 4 steps from the start.

## Fairness

The paging runs check safety only, so no fairness is assumed for them (the
bakery's fairness is described in its section). Liveness is planned:
that a fault either resolves or kills. It needs the trap path in `trap.c`,
which is not in `src/`.

## Not modelled, and why

- **`vm.c`, `proc.c`, `kalloc.c` and `trap.c` are not in `src/`.**
  - `walk`, `mappages` and `uvmunmap` appear only as their effect on the page
    table. The possibility that `mappages` cannot get a page-table page is the
    constant `PtPageMayRunOut`.
  - `copyout` reaching `demand_page_fault_with_pagetable` is assumed, because
    no other caller exists.
  - What the trap path does with a 0 return is not modelled. That covers the
    possible refault loop after the KILL paths that do not call `setkilled`.
- **Page contents, file offsets, trace text and the fault address below page
  granularity** are abstracted. A segment is page-granular, with a count of
  file-backed pages and a flag for whether the file really holds them.
- **Inode references.** `exec_inode` is a boolean, so the iput missing at
  exec.c:96 is not checked.
- **The bakery's input parsing, event log and output** (`main` 477-499,
  `add_event`, `compare_events`, `print_events`) are I/O. The unchecked
  `inputs[1000]` at hotel.c:489 needs 1001 customers and is not checked.
  `customer_sync` aliasing (equal `id % 100000`) can be expressed through
  `SyncSlot`. The bakery run uses distinct ids. Given two customers one slot,
  `ServedOnce` fails within a few hundred states.
- **cshark's packet bytes.** The parsers, `get_packet_protocol`,
  `get_packet_addresses`, the hex dump and `utils.c` decode and print bytes.
  The over-read at main.c:289 (`memcpy` of `len` bytes from a buffer of
  `caplen`) is a byte-level bound, which the id abstraction does not carry.
  The same is true of the header fields the parsers trust: `ip_hl`
  (parser.c:42) and the UDP length whose `- 8` sizes the hex dump
  (parser.c:210). These bugs sit in one sequential decode with no
  interleaving, so a fuzzer reaches them better than a model checker.
- **The lost Ctrl+C (main.c:151).** `Capture` contains this interleaving: a
  SIGINT at `pc = "open"` finds `handle` NULL, so the next `pcap_loop` does not
  stop. The property it breaks, that a Ctrl+C ends the session, is not
  checked.
- **xv6's other system calls** (`sys_exit`, `sys_fork`, `sys_wait`,
  `sys_pause`, `sys_kill`, `sys_uptime` in sysproc.c) are the stock kernel's.
  Of the process life cycle, only exit's effect on the address space is
  modelled.
- **Addresses ≥ 999999 pages and sz past MAXVA** are out of reach of any
  bound (see the hazards in PROJECT.json).

## Plan for later work

1. **The lost Ctrl+C as liveness.** Under weak fairness of the capture
   actions, a SIGINT during a session should lead to the menu. `Capture`
   already reaches the counterexample (main.c:151). Checking it needs a run
   slot.
2. **The resident-count finding** (demand.c:402) could take back a run
   slot if two violation runs of `DemandPaging` were merged.
