------------------------------- MODULE Loader -------------------------------
(***************************************************************************)
(* kexec (src/A/kernel/exec.c) run by a process whose image DemandPaging  *)
(* describes.  exec is a system call of the process itself, so none of    *)
(* the process's own faults, sbrk calls or its exit interleave with it;   *)
(* other processes' kalloc/kfree do.  The steps are the stretches of      *)
(* kexec between the points where a frame is taken or given back:         *)
(*   ExecLoad     lines 38-142: headers, the bookkeeping of 89-98, the    *)
(*                argument page from uvmalloc, p->sz;                     *)
(*   ExecArgCopy  lines 144-174: copyout of argv into the new table,      *)
(*                which faults the top stack page in through              *)
(*                demand_page_fault_with_pagetable (demand.c 138-268);    *)
(*   ExecCommit   lines 187-198 and ExecBad lines 200-207.                *)
(* A program is a sequence of its PT_LOAD headers; a header is ok when    *)
(* it passes the checks of lines 62-71.  Other header types are skipped   *)
(* by the code (line 64) and are left out.                                 *)
(***************************************************************************)
EXTENDS DemandPaging

CONSTANTS
    Programs,     \* the executables exec may be asked to load
    MaxSegments   \* MAX_SEGMENTS of proc.h

Header == [ok : BOOLEAN, seg : Segment]

ASSUME \A prog \in Programs : prog \in Seq(Header) /\ Len(prog) > 0

VARIABLES
    execPc,       \* where the process is in kexec: "idle" outside it
    execOldSz,    \* oldsz (line 129)
    execProg      \* the program of the exec in progress, or the last one

loaderVars == <<execPc, execOldSz, execProg>>
allVars == <<vars, loaderVars>>

(* The user-level steps of DemandPaging happen only outside kexec.        *)
UserStep ==
    /\ execPc = "idle"
    /\ \/ \E v \in Pages, a \in Accesses : Fault(v, a, FALSE)
       \/ SbrkLazy(1)
       \/ ProcExit
    /\ UNCHANGED loaderVars

OtherStep ==
    /\ OtherKalloc \/ OtherKfree
    /\ UNCHANGED loaderVars

-----------------------------------------------------------------------------
(* The end of the highest header, rounded up (lines 84-86, 98, 132):      *)
(* every PT_LOAD header counts, the ones past MAX_SEGMENTS included.      *)
ImageEnd(prog) == Max({prog[i].seg.end : i \in 1 .. Len(prog)})

FirstBadHeader(prog) ==
    LET bad == {i \in 1 .. Len(prog) : ~prog[i].ok}
    IN  IF bad = {} THEN 0 ELSE Min(bad)

(* namei, the ELF header read, the magic check or proc_pagetable fails    *)
(* (lines 41-56): nothing of the process is touched.                      *)
ExecOpenFail ==
    /\ Running /\ execPc = "idle"
    /\ lastEvent' = "exec-failed"
    /\ UNCHANGED <<procVars, pagetable, newPagetable, freeFrames, otherFrames,
                   nextSeq, numResident, killed, exited, swappedOut, swapVars,
                   loaderVars>>

(* Lines 58-142.  The header loop writes p->segments[num_segments] in     *)
(* place as it goes and drops headers past MAX_SEGMENTS (74-82); a bad    *)
(* header jumps to bad with p->num_segments unchanged, so the old image   *)
(* keeps its segment count over the rewritten entries.  Otherwise lines   *)
(* 89-98 install the new layout and reset the counters and swap_file      *)
(* (leaving the slot bitmap as it is), then uvmalloc maps the argument    *)
(* page; if it fails, kexec returns -1 with all of that kept.  Line 142   *)
(* sets p->sz to the new size before the argument copy.                   *)
ExecLoad(prog) ==
    /\ Running /\ execPc = "idle"
    /\ execProg' = prog
    /\ LET k == FirstBadHeader(prog)
           n == Min({Len(prog), MaxSegments})
           hs == ImageEnd(prog)
       IN  \/ /\ k # 0
              /\ segments' = [i \in DOMAIN segments |->
                                IF i < k /\ i <= MaxSegments
                                THEN prog[i].seg ELSE segments[i]]
              /\ lastEvent' = "exec-failed"
              /\ UNCHANGED <<heapStart, sz, execInode, newPagetable, freeFrames,
                             nextSeq, numResident, swapVars, execPc, execOldSz>>
           \/ /\ k = 0
              /\ segments' = [i \in 1 .. n |-> prog[i].seg]
              /\ heapStart' = hs
              /\ nextSeq' = 0 /\ numResident' = 0
              /\ numSwapped' = 0 /\ swapFile' = FALSE
              /\ execInode' = TRUE
              /\ UNCHANGED swapSlots
              /\ \/ /\ freeFrames = {}
                    /\ lastEvent' = "exec-failed"
                    /\ UNCHANGED <<sz, newPagetable, freeFrames, execPc, execOldSz>>
                 \/ \E f \in freeFrames :
                       /\ newPagetable' = (hs :> [frame |-> f, perm |-> {"R", "W"}])
                       /\ freeFrames' = freeFrames \ {f}
                       /\ sz' = hs + UserStack + 1
                       /\ execOldSz' = sz
                       /\ execPc' = "args"
                       /\ UNCHANGED lastEvent
    /\ UNCHANGED <<pagetable, otherFrames, killed, exited, swappedOut>>

(* demand_page_fault_with_pagetable: the fault handler with the new table *)
(* as target; the victim still comes from p->pagetable, over [0, p->sz)   *)
(* of the new size.                                                       *)
ArgCopyFault(v) == Fault(v, "write", TRUE)

(* Lines 144-174.  Too many arguments or too long ones go to bad before   *)
(* any copy.  Otherwise copyout writes the top stack page, which is not   *)
(* mapped yet; copyout fails when the fault handler returns 0.            *)
ExecArgCopy ==
    /\ execPc = "args"
    /\ \/ /\ execPc' = "bad"
          /\ UNCHANGED <<vars, execOldSz, execProg>>
       \/ /\ ArgCopyFault(heapStart + UserStack)
          /\ execPc' = IF lastEvent' \in {"resident", "mapped", "dirty"}
                       THEN "commit" ELSE "bad"
          /\ UNCHANGED <<execOldSz, execProg>>

(* Lines 187-198: the new table replaces the old one, which               *)
(* proc_freepagetable(oldpagetable, oldsz) frees -- the pages below       *)
(* oldsz; a mapped page at or above it is not given back.                 *)
ExecCommit ==
    /\ execPc = "commit"
    /\ pagetable' = newPagetable
    /\ newPagetable' = <<>>
    /\ freeFrames' = freeFrames \cup
                       {pagetable[v].frame : v \in {u \in DOMAIN pagetable : u < execOldSz}}
    /\ swappedOut' = {}
    /\ lastEvent' = "exec"
    /\ execPc' = "idle"
    /\ UNCHANGED <<procVars, otherFrames, nextSeq, numResident, killed, exited,
                   swapVars, execOldSz, execProg>>

(* Seeded fault: the bad path returns without proc_freepagetable.        *)
ExecBadLeak ==
    /\ execPc = "bad"
    /\ newPagetable' = <<>>
    /\ lastEvent' = "exec-failed"
    /\ execPc' = "idle"
    /\ UNCHANGED <<procVars, pagetable, freeFrames, otherFrames, nextSeq, numResident,
                   killed, exited, swappedOut, swapVars, execOldSz, execProg>>

(* Lines 200-207: the new table and its pages are freed and kexec returns *)
(* -1; the process goes on with its old page table under the layout and   *)
(* p->sz the load installed.                                              *)
ExecBad ==
    /\ execPc = "bad"
    /\ freeFrames' = freeFrames \cup
                       {newPagetable[v].frame : v \in DOMAIN newPagetable}
    /\ newPagetable' = <<>>
    /\ lastEvent' = "exec-failed"
    /\ execPc' = "idle"
    /\ UNCHANGED <<procVars, pagetable, otherFrames, nextSeq, numResident, killed,
                   exited, swappedOut, swapVars, execOldSz, execProg>>

LoaderInit ==
    /\ Init
    /\ execPc = "idle"
    /\ execOldSz = sz
    /\ execProg = <<>>

LoaderNext ==
    \/ UserStep
    \/ OtherStep
    \/ ExecOpenFail
    \/ \E prog \in Programs : ExecLoad(prog)
    \/ ExecArgCopy
    \/ ExecCommit
    \/ ExecBad

LoaderSpec == LoaderInit /\ [][LoaderNext]_allVars

-----------------------------------------------------------------------------
(* Properties.                                                             *)

(* swap.c keeps p->num_swapped equal to the number of slots marked in     *)
(* p->swap_slots while p->swap_file is set -- across exec, which clears   *)
(* swap_file and the count but leaves the bitmap for swap_init's memset.  *)
SwapCountMatchesSlots ==
    swapFile => numSwapped = Cardinality(UsedSlots)

(* Spec 4.1/7: a failed exec leaves no partial address space installed:   *)
(* the layout, size and executable of the running image stay as they were.*)
FailedExecLeavesImage ==
    [][lastEvent' = "exec-failed" => UNCHANGED procVars]_allVars

(* Spec 4.1/7: the loader records every loadable segment, or fails when   *)
(* there are more than MAX_SEGMENTS.                                      *)
ExecRecordsAllSegments ==
    execPc \in {"args", "commit"} => Len(segments) = Len(execProg)

=============================================================================
