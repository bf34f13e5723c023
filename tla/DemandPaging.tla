---------------------------- MODULE DemandPaging ----------------------------
(***************************************************************************)
(* The demand-paging fault path of one process: src/A/kernel/demand.c,     *)
(* the lazy branch of sys_sbrk (sysproc.c) and sys_memstat's snapshot,     *)
(* composed with the swap pool of swap.c (module SwapPool) and with the    *)
(* physical frame allocator that all processes share.                      *)
(*                                                                         *)
(* Addresses are page numbers: page v stands for [v*PGSIZE, (v+1)*PGSIZE). *)
(* Page MaxPage stands for every address >= MAXVA.  A segment is a record  *)
(* of page numbers; its flags are the ELF bits it carries, "X" (0x1) and   *)
(* "W" (0x2).  A page-table entry is a record of its frame and permission  *)
(* bits; the page table is a function whose domain is the set of pages     *)
(* whose PTE has PTE_V set.  PTE_U is set on every entry and is left out.  *)
(*                                                                         *)
(* One fault is one step: the handler runs on the faulting process's own   *)
(* kernel thread, holds no lock and never sleeps, so nothing of this       *)
(* process interleaves with it.  Other processes only share the frame      *)
(* pool; their kalloc/kfree calls are the steps OtherKalloc/OtherKfree.    *)
(***************************************************************************)
EXTENDS Naturals, FiniteSets, Sequences, Functions, TLC, SwapPool

CONSTANTS
    MaxPage,      \* MAXVA / PGSIZE
    Frames,       \* the physical frames kalloc hands out
    Images,       \* the segment tables exec can have recorded
    UserStack,    \* USERSTACK: stack pages exec reserves above the argument page
    MaxSz,        \* bound on p->sz (pages) reached through sbrk
    MaxSeq,       \* bound on p->next_seq
    MinSeqInit,   \* the initial min_seq of find_victim_page (999999)
    MaxPagesInfo, \* MAX_PAGES_INFO of memstat.h
    PtPageMayRunOut \* whether mappages may find kalloc empty for a page-table page

Pages == 0 .. MaxPage
Accesses == {"read", "write", "exec"}
SegFlags == SUBSET {"X", "W"}
Segment == [start : Pages, end : Pages, filePages : Nat, flags : SegFlags,
            fileOk : BOOLEAN]
Pte == [frame : Frames, perm : SUBSET {"R", "W", "X"}]

ASSUME /\ MaxSz <= MaxPage
       /\ \A img \in Images : img \in Seq(Segment)

VARIABLES
    segments,     \* p->segments[0 .. num_segments-1], written by exec
    heapStart,    \* p->heap_start
    sz,           \* p->sz
    pagetable,    \* p->pagetable: valid page -> PTE
    newPagetable, \* the page table kexec is building (<<>> outside exec)
    freeFrames,   \* kalloc's free list
    otherFrames,  \* frames held by other processes and the rest of the kernel
    nextSeq,      \* p->next_seq
    numResident,  \* p->num_resident
    execInode,    \* p->exec_inode # 0
    killed,       \* p->killed, set through setkilled
    exited,       \* the process has exited and its address space is freed
    lastEvent,    \* the tag of the last trace line the handler printed
    swappedOut    \* history: pages evicted whose content has not been faulted back

procVars == <<segments, heapStart, sz, execInode>>
vars == <<procVars, pagetable, newPagetable, freeFrames, otherFrames, nextSeq, numResident,
          killed, exited, lastEvent, swappedOut, swapVars>>

Events == {"exec", "invalid-access", "mapped", "dirty", "no-victim",
           "swapout-failed", "no-segment", "load-failed", "mapping-failed",
           "resident", "exec-failed"}

TypeOK ==
    /\ segments \in Seq(Segment)
    /\ heapStart \in Pages /\ sz \in Pages
    /\ DOMAIN pagetable \subseteq Pages
    /\ \A v \in DOMAIN pagetable : pagetable[v] \in Pte
    /\ DOMAIN newPagetable \subseteq Pages
    /\ \A v \in DOMAIN newPagetable : newPagetable[v] \in Pte
    /\ freeFrames \subseteq Frames /\ otherFrames \subseteq Frames
    /\ nextSeq \in 0 .. MaxSeq /\ numResident \in Nat
    /\ execInode \in BOOLEAN /\ killed \in BOOLEAN /\ exited \in BOOLEAN
    /\ lastEvent \in Events
    /\ swappedOut \subseteq Pages
    /\ SwapTypeOK

-----------------------------------------------------------------------------
(* Classification (demand.c 13-58) and permissions (exec.c 13-21).         *)

(* find_segment: index of the first segment holding v, 0 if none.         *)
SegIndex(v) ==
    LET hits == {i \in 1 .. Len(segments) :
                    segments[i].start <= v /\ v < segments[i].end}
    IN  IF hits = {} THEN 0 ELSE Min(hits)

(* Seeded fault: the stack test written "va <= p->sz".                    *)
GetFaultCauseInclusiveSz(v, a) ==
    IF v >= MaxPage THEN "invalid"
    ELSE IF SegIndex(v) # 0
         THEN IF "X" \in segments[SegIndex(v)].flags THEN "text" ELSE "data"
    ELSE IF Len(segments) = 0 /\ v = 0 /\ a = "exec" THEN "text"
    ELSE IF Len(segments) = 0 /\ v = 1 THEN "data"
    ELSE IF heapStart <= v /\ v <= sz THEN "stack"
    ELSE "invalid"

(* get_fault_cause, in the order of its early returns.  The WORKAROUND     *)
(* branch applies to a process with no recorded segment: 0x0 on an exec    *)
(* fault is "text" and [0x1000, 0x2000) is "data".  The handler never      *)
(* sees "heap": heap and stack share "stack".                              *)
GetFaultCause(v, a) ==
    IF v >= MaxPage THEN "invalid"
    ELSE IF SegIndex(v) # 0
         THEN IF "X" \in segments[SegIndex(v)].flags THEN "text" ELSE "data"
    ELSE IF Len(segments) = 0 /\ v = 0 /\ a = "exec" THEN "text"
    ELSE IF Len(segments) = 0 /\ v = 1 THEN "data"
    ELSE IF heapStart <= v /\ v < sz THEN "stack"
    ELSE "invalid"

(* flags2perm: always readable, X and W mirrored from the ELF flags.       *)
Flags2Perm(flags) == {"R"} \cup flags

(* load_segment_page succeeds: a segment and the executable are there, and *)
(* readi returns every byte asked for.  A page past file_size reads        *)
(* nothing; a page inside it reads the file, which fails when the image is *)
(* shorter than the segment header says (fileOk = FALSE).                  *)
LoadSegmentPageOk(v) ==
    /\ SegIndex(v) # 0
    /\ execInode
    /\ v - segments[SegIndex(v)].start < segments[SegIndex(v)].filePages
           => segments[SegIndex(v)].fileOk

(* Seeded fault: the comparison at line 97 turned into a running maximum, *)
(* so the page with the greatest sequence number is the victim.           *)
FindVictimPageNewest ==
    LET cands == {v \in DOMAIN pagetable : v < sz /\ v < MinSeqInit}
    IN  IF cands = {} THEN 0 ELSE Max(cands)

(* find_victim_page: the resident page below p->sz with the least          *)
(* get_page_seq (= va / PGSIZE) under the starting bound min_seq, and 0    *)
(* when there is none -- the same value as a victim at address 0.          *)
FindVictimPage ==
    LET cands == {v \in DOMAIN pagetable : v < sz /\ v < MinSeqInit}
    IN  IF cands = {} THEN 0 ELSE Min(cands)

-----------------------------------------------------------------------------
(* The fault handler: demand_page_fault (demand.c 271-406) and its twin    *)
(* demand_page_fault_with_pagetable (138-268), which kexec's argument copy *)
(* calls on the page table it is building.  Both take the victim from      *)
(* p->pagetable; the twin installs into the table it is given.  isNew      *)
(* says which table is the target: p->pagetable, or newPagetable.          *)

Running == ~killed /\ ~exited

Target(isNew) == IF isNew THEN newPagetable ELSE pagetable

(* The tables after a fault: cur is p->pagetable (less any victim), tgt   *)
(* the target table.                                                       *)
SetTables(isNew, cur, tgt) ==
    IF isNew THEN pagetable' = cur /\ newPagetable' = tgt
             ELSE pagetable' = tgt /\ newPagetable' = newPagetable

Unmapped(v, a, isNew) ==
    /\ Running
    /\ GetFaultCause(v, a) # "invalid"
    /\ v \notin DOMAIN Target(isNew)

(* Seeded fault: a failed fill returns without kfree(mem).                 *)
InstallLeakOnFillFailure(v, a, mem, cur, pt, free, isNew) ==
    LET fromFile == GetFaultCause(v, a) \in {"text", "data"}
        perm == IF fromFile THEN Flags2Perm(segments[SegIndex(v)].flags)
                ELSE {"R", "W"}
    IN  \/ /\ fromFile /\ ~LoadSegmentPageOk(v)
           /\ SetTables(isNew, cur, pt) /\ freeFrames' = free
           /\ lastEvent' = IF SegIndex(v) = 0 \/ ~execInode
                           THEN "no-segment" ELSE "load-failed"
           /\ UNCHANGED nextSeq
        \/ /\ fromFile => LoadSegmentPageOk(v)
           /\ PtPageMayRunOut /\ free = {}
           /\ SetTables(isNew, cur, pt) /\ freeFrames' = free \cup {mem}
           /\ lastEvent' = "mapping-failed"
           /\ UNCHANGED nextSeq
        \/ /\ fromFile => LoadSegmentPageOk(v)
           /\ SetTables(isNew, cur, pt @@ (v :> [frame |-> mem, perm |-> perm]))
           /\ freeFrames' = free
           /\ nextSeq' = nextSeq + 1
           /\ lastEvent' = "resident"

(* Lines 359-405 (220-267), once a frame mem is in hand, p->pagetable is   *)
(* cur, the target table pt and the free list free: fill the frame per the *)
(* cause, map it into pt, commit.  The "invalid" branch at 387-392 is      *)
(* dead: invalid returned at 289.  Every failure kfree's mem.              *)
(* num_resident is never incremented.                                      *)
Install(v, a, mem, cur, pt, free, isNew) ==
    LET fromFile == GetFaultCause(v, a) \in {"text", "data"}
        perm == IF fromFile THEN Flags2Perm(segments[SegIndex(v)].flags)
                ELSE {"R", "W"}
    IN  \/ /\ fromFile /\ ~LoadSegmentPageOk(v)
           /\ SetTables(isNew, cur, pt) /\ freeFrames' = free \cup {mem}
           /\ lastEvent' = IF SegIndex(v) = 0 \/ ~execInode
                           THEN "no-segment" ELSE "load-failed"
           /\ UNCHANGED nextSeq
        \/ /\ fromFile => LoadSegmentPageOk(v)
           \* mappages needs a page-table page, which kalloc may not have
           /\ PtPageMayRunOut /\ free = {}
           /\ SetTables(isNew, cur, pt) /\ freeFrames' = free \cup {mem}
           /\ lastEvent' = "mapping-failed"
           /\ UNCHANGED nextSeq
        \/ /\ fromFile => LoadSegmentPageOk(v)
           /\ SetTables(isNew, cur, pt @@ (v :> [frame |-> mem, perm |-> perm]))
           /\ freeFrames' = free
           /\ nextSeq' = nextSeq + 1
           /\ lastEvent' = "resident"

(* Content evicted to swap comes back once its page of the running image   *)
(* is faulted in again.                                                    *)
SwappedAfter(v, evicted, isNew) ==
    (swappedOut \cup evicted)
        \ (IF ~isNew /\ v \in DOMAIN pagetable' THEN {v} ELSE {})

(* Invalid address: KILL invalid-access and setkilled (lines 288-295).     *)
FaultInvalid(v, a, isNew) ==
    /\ Running
    /\ GetFaultCause(v, a) = "invalid"
    /\ killed' = TRUE
    /\ lastEvent' = "invalid-access"
    /\ UNCHANGED <<procVars, pagetable, newPagetable, freeFrames, otherFrames,
                   nextSeq, numResident, exited, swappedOut, swapVars>>

(* The PTE is valid and the access needs no new right (lines 297-311).    *)
FaultAlreadyMapped(v, a, isNew) ==
    /\ Running
    /\ GetFaultCause(v, a) # "invalid"
    /\ v \in DOMAIN Target(isNew)
    /\ ~(a = "write" /\ "W" \notin Target(isNew)[v].perm)
    /\ lastEvent' = "mapped"
    /\ UNCHANGED <<procVars, pagetable, newPagetable, freeFrames, otherFrames,
                   nextSeq, numResident, killed, exited, swappedOut, swapVars>>

(* A write to a valid PTE without PTE_W sets PTE_W in place (305-310).    *)
FaultDirtyUpgrade(v, a, isNew) ==
    /\ Running
    /\ GetFaultCause(v, a) # "invalid"
    /\ v \in DOMAIN Target(isNew)
    /\ a = "write" /\ "W" \notin Target(isNew)[v].perm
    /\ SetTables(isNew, pagetable,
                 [Target(isNew) EXCEPT ![v].perm = @ \cup {"W"}])
    /\ lastEvent' = "dirty"
    /\ UNCHANGED <<procVars, freeFrames, otherFrames, nextSeq, numResident,
                   killed, exited, swappedOut, swapVars>>

(* kalloc returns a frame (line 317), then Install.                        *)
FaultAlloc(v, a, isNew) ==
    /\ Unmapped(v, a, isNew)
    /\ nextSeq < MaxSeq
    /\ \E f \in freeFrames :
          Install(v, a, f, pagetable, Target(isNew), freeFrames \ {f}, isNew)
    /\ swappedOut' = SwappedAfter(v, {}, isNew)
    /\ UNCHANGED <<procVars, otherFrames, numResident, killed, exited, swapVars>>

(* kalloc fails and find_victim_page answers 0: KILL no-victim, return 0   *)
(* without setkilled (lines 318-327).                                      *)
FaultNoVictim(v, a, isNew) ==
    /\ Unmapped(v, a, isNew)
    /\ freeFrames = {}
    /\ FindVictimPage = 0
    /\ lastEvent' = "no-victim"
    /\ UNCHANGED <<procVars, pagetable, newPagetable, freeFrames, otherFrames,
                   nextSeq, numResident, killed, exited, swappedOut, swapVars>>

(* A victim is found but swap_out_page finds no slot: KILL swapout-failed, *)
(* return 0 without setkilled (lines 329-350).                             *)
FaultSwapFull(v, a, isNew) ==
    /\ Unmapped(v, a, isNew)
    /\ freeFrames = {}
    /\ FindVictimPage # 0
    /\ SwapOutFull
    /\ lastEvent' = "swapout-failed"
    /\ UNCHANGED <<procVars, pagetable, newPagetable, freeFrames, otherFrames,
                   nextSeq, numResident, killed, exited, swappedOut>>

(* Eviction (lines 318-357): swap the victim out, uvmunmap it from         *)
(* p->pagetable without freeing, and reuse its frame for v, then Install.  *)
FaultEvict(v, a, isNew) ==
    /\ Unmapped(v, a, isNew)
    /\ nextSeq < MaxSeq
    /\ freeFrames = {}
    /\ LET victim == FindVictimPage
           cur == Restrict(pagetable, DOMAIN pagetable \ {victim})
       IN  /\ victim # 0
           /\ SwapOutPage
           /\ Install(v, a, pagetable[victim].frame, cur,
                      IF isNew THEN newPagetable ELSE cur, {}, isNew)
           /\ swappedOut' = SwappedAfter(v, {victim}, isNew)
    /\ UNCHANGED <<procVars, otherFrames, numResident, killed, exited>>

-----------------------------------------------------------------------------
(* The rest of the process and of the machine.                             *)

(* sys_sbrk, lazy branch (sysproc.c 55-63): grow p->sz by n bytes        *)
(* without allocating; the overflow check cannot fire below MaxSz.         *)
SbrkLazy(n) ==
    /\ Running
    /\ sz + n <= MaxSz
    /\ sz' = sz + n
    /\ UNCHANGED <<segments, heapStart, execInode, pagetable, newPagetable, freeFrames,
                   otherFrames, nextSeq, numResident, killed, exited, lastEvent,
                   swappedOut, swapVars>>

(* Another process's kalloc and kfree.                                     *)
OtherKalloc ==
    \E f \in freeFrames :
        /\ freeFrames' = freeFrames \ {f}
        /\ otherFrames' = otherFrames \cup {f}
        /\ UNCHANGED <<procVars, pagetable, newPagetable, nextSeq, numResident, killed, exited,
                       lastEvent, swappedOut, swapVars>>

OtherKfree ==
    \E f \in otherFrames :
        /\ otherFrames' = otherFrames \ {f}
        /\ freeFrames' = freeFrames \cup {f}
        /\ UNCHANGED <<procVars, pagetable, newPagetable, nextSeq, numResident, killed, exited,
                       lastEvent, swappedOut, swapVars>>

(* The process exits, on its own or because it was killed: its frames go  *)
(* back to kalloc, its swap slots are released (swap_cleanup, swap.c       *)
(* 36-53) and the executable is let go.  The caller is proc.c, which is    *)
(* not among the sources; the spec (section 3, Lifecycle) says what it     *)
(* does.                                                                   *)
ProcExit ==
    /\ ~exited
    /\ exited' = TRUE
    /\ freeFrames' = freeFrames \cup {pagetable[v].frame : v \in DOMAIN pagetable}
    /\ pagetable' = <<>>
    /\ execInode' = FALSE
    /\ swappedOut' = {}
    /\ SwapCleanup
    /\ UNCHANGED <<segments, heapStart, sz, newPagetable, otherFrames, nextSeq, numResident,
                   killed, lastEvent>>

(* The state kexec (exec.c 58-142) leaves: segments recorded, heap_start   *)
(* at the rounded-up end of the highest segment, p->sz covering the       *)
(* argument page and USERSTACK stack pages, the argument page mapped by    *)
(* uvmalloc, the top stack page demand-faulted by the argv copy (next_seq  *)
(* is 1), counters and swap marker reset, the executable held.            *)
HeapStartOf(img) ==
    LET ends == {img[i].end : i \in 1 .. Len(img)}
    IN  IF ends = {} THEN 0 ELSE Max(ends)

Init ==
    \E img \in Images, f1, f2 \in Frames :
        LET argPage == HeapStartOf(img)
            topPage == argPage + UserStack
        IN  /\ f1 # f2
            /\ segments = img
            /\ heapStart = argPage
            /\ sz = argPage + UserStack + 1
            /\ pagetable = (argPage :> [frame |-> f1, perm |-> {"R", "W"}])
                           @@ (topPage :> [frame |-> f2, perm |-> {"R", "W"}])
            /\ newPagetable = <<>>
            /\ freeFrames = Frames \ {f1, f2}
            /\ otherFrames = {}
            /\ nextSeq = 1
            /\ numResident = 0
            /\ execInode = TRUE
            /\ killed = FALSE
            /\ exited = FALSE
            /\ lastEvent = "exec"
            /\ swappedOut = {}
            /\ SwapInit

Fault(v, a, isNew) ==
    \/ FaultInvalid(v, a, isNew)
    \/ FaultAlreadyMapped(v, a, isNew)
    \/ FaultDirtyUpgrade(v, a, isNew)
    \/ FaultAlloc(v, a, isNew)
    \/ FaultNoVictim(v, a, isNew)
    \/ FaultSwapFull(v, a, isNew)
    \/ FaultEvict(v, a, isNew)

Next ==
    \/ \E v \in Pages, a \in Accesses : Fault(v, a, FALSE)
    \/ SbrkLazy(1)
    \/ ProcExit
    \/ OtherKalloc
    \/ OtherKfree

Spec == Init /\ [][Next]_vars

-----------------------------------------------------------------------------
(* sys_memstat (sysproc.c 110-179): the snapshot copied out to the user.   *)
(* The per-page dirty, seq and swap-slot fields are constants (0, -1, -1)  *)
(* and are left out.                                                       *)
MemStat ==
    LET shown == IF sz > MaxPagesInfo THEN MaxPagesInfo ELSE sz
    IN  [num_resident_pages |-> numResident,
         num_swapped_pages  |-> numSwapped,
         next_fifo_seq      |-> nextSeq,
         num_pages_total    |-> shown,
         pages |-> [i \in 0 .. shown - 1 |->
                       IF i \in DOMAIN pagetable THEN "RESIDENT" ELSE "UNMAPPED"]]

-----------------------------------------------------------------------------
(* Properties.                                                             *)

(* The address space as the spec (section 4.2) defines it: below MAXVA and *)
(* inside a recorded segment or inside [heap_start, sz).                   *)
LegalPage(v) ==
    /\ v < MaxPage
    /\ SegIndex(v) # 0 \/ (heapStart <= v /\ v < sz)

(* No frame is leaked or shared: every frame is exactly one of free, held  *)
(* by another process, or mapped by exactly one page of one of this        *)
(* process's page tables --                                                *)
(* across kalloc, eviction's reuse of the victim's frame, and the kfree    *)
(* on each failure after a frame was taken.                                *)
FramesAccounted ==
    LET owners == {<<FALSE, v>> : v \in DOMAIN pagetable}
                  \cup {<<TRUE, v>> : v \in DOMAIN newPagetable}
        frameOf(o) == Target(o[1])[o[2]].frame
        mapped == {frameOf(o) : o \in owners}
    IN  /\ \A o1, o2 \in owners : frameOf(o1) = frameOf(o2) => o1 = o2
        /\ freeFrames \cap otherFrames = {}
        /\ freeFrames \cap mapped = {}
        /\ otherFrames \cap mapped = {}
        /\ freeFrames \cup otherFrames \cup mapped = Frames

(* Every valid PTE lies in the legal address space and carries the rights *)
(* its origin gives: a segment page is readable and executable exactly     *)
(* when its segment is, a heap/stack page is readable and never            *)
(* executable.  (PTE_W is left out: the dirty upgrade adds it.)            *)
PteConsistentWithLayout ==
    \A v \in DOMAIN pagetable :
        /\ LegalPage(v)
        /\ "R" \in pagetable[v].perm
        /\ ("X" \in pagetable[v].perm) =
             (SegIndex(v) # 0 /\ "X" \in segments[SegIndex(v)].flags)

(* Spec 4.3/4.4: p->num_swapped counts the pages whose content lives in    *)
(* swap, i.e. evicted and not yet faulted back in.                         *)
SwappedCountMatchesSwapContents ==
    numSwapped = Cardinality(swappedOut)

(* Spec 4.5/7: eviction reports "no victim" only when no page is resident. *)
NoVictimOnlyWhenNothingResident ==
    lastEvent = "no-victim" => {v \in DOMAIN pagetable : v < sz} = {}

(* Spec 8: a page of a segment without the write flag is never writable.  *)
SegmentWriteRespected ==
    \A v \in DOMAIN pagetable :
        SegIndex(v) # 0 /\ "W" \in pagetable[v].perm
            => "W" \in segments[SegIndex(v)].flags


(* The address-space contract (module AddressSpace) under the mapping that *)
(* reads residency off the page table and segment pages off the recorded   *)
(* segments.                                                               *)
Abstract == INSTANCE AddressSpace
    WITH segPages <- {v \in Pages : SegIndex(v) # 0},
         resident <- DOMAIN pagetable

(* demand_page_fault and its callers implement the address-space contract: *)
(* only an illegal access kills, a fault maps at most the faulting page,   *)
(* and the only page it ever takes away is find_victim_page's choice, the  *)
(* lowest resident page below p->sz; sbrk only grows sz, and exit empties  *)
(* the space.                                                              *)
AddressSpaceRefined == Abstract!Spec

=============================================================================
