------------------------------ MODULE SwapPool ------------------------------
(***************************************************************************)
(* The per-process swap-slot pool of src/A/kernel/swap.c.                  *)
(*                                                                         *)
(* A process owns a bitmap of MAX_SWAP_PAGES slots, a counter of swapped   *)
(* pages and a "swap file" marker that says whether the pool has been      *)
(* initialised.  No page bytes are stored: swap_out_page only claims a     *)
(* slot, swap_in_page only releases one.  The operators below are used by  *)
(* the fault handler (DemandPaging) inside its own steps.  swap_in_page has *)
(* no caller in the sources: the fault handler never reads a page back.    *)
(***************************************************************************)
EXTENDS Naturals, FiniteSets, FiniteSetsExt

CONSTANT MaxSwap          \* MAX_SWAP_PAGES

ASSUME MaxSwap \in Nat \ {0}

VARIABLES
    swapFile,      \* p->swap_file # 0: the pool has been initialised
    swapSlots,     \* p->swap_slots[]: slot -> in use
    numSwapped     \* p->num_swapped

swapVars == <<swapFile, swapSlots, numSwapped>>

Slots == 0 .. MaxSwap - 1

SwapTypeOK ==
    /\ swapFile \in BOOLEAN
    /\ swapSlots \in [Slots -> BOOLEAN]
    /\ numSwapped \in 0 .. MaxSwap

UsedSlots == {s \in Slots : swapSlots[s]}

(* Seeded fault: swap_init without the memset of the bitmap.              *)
InitedSlotsNoMemset == swapSlots

(* swap_init: a pool not yet initialised starts from a zero counter and a  *)
(* cleared bitmap; an initialised one is left as it is.                    *)
InitedSlots == IF swapFile THEN swapSlots ELSE [s \in Slots |-> FALSE]
InitedCount == IF swapFile THEN numSwapped ELSE 0

(* swap_alloc_slot: the lowest free slot of a bitmap, or -1.               *)
SwapAllocSlot(slots) ==
    LET free == {s \in Slots : ~slots[s]}
    IN  IF free = {} THEN -1 ELSE Min(free)

(* swap_out_page when a slot is free: initialise on first use, claim the   *)
(* slot, count the page.                                                   *)
SwapOutPage ==
    LET slot == SwapAllocSlot(InitedSlots)
    IN  /\ slot # -1
        /\ swapFile' = TRUE
        /\ swapSlots' = [InitedSlots EXCEPT ![slot] = TRUE]
        /\ numSwapped' = InitedCount + 1

(* Seeded fault: num_swapped is counted before the slot search fails.     *)
SwapOutFullCountFirst ==
    /\ SwapAllocSlot(InitedSlots) = -1
    /\ swapFile' = TRUE
    /\ swapSlots' = InitedSlots
    /\ numSwapped' = InitedCount + 1

(* swap_out_page when every slot is taken (SWAPFULL): returns -1, but the  *)
(* initialisation it did first stays.                                      *)
SwapOutFull ==
    /\ SwapAllocSlot(InitedSlots) = -1
    /\ swapFile' = TRUE
    /\ swapSlots' = InitedSlots
    /\ numSwapped' = InitedCount

(* swap_in_page(slot): only an initialised pool and a slot in use; frees   *)
(* the slot and uncounts the page (the frame is zero-filled).              *)
SwapInPage(slot) ==
    /\ swapFile
    /\ slot \in Slots
    /\ swapSlots[slot]
    /\ swapSlots' = [swapSlots EXCEPT ![slot] = FALSE]
    /\ numSwapped' = numSwapped - 1
    /\ UNCHANGED swapFile

(* swap_cleanup: an initialised pool is cleared and marked uninitialised; *)
(* the counter is zeroed in every case.                                    *)
SwapCleanup ==
    /\ swapFile' = FALSE
    /\ swapSlots' = IF swapFile THEN [s \in Slots |-> FALSE] ELSE swapSlots
    /\ numSwapped' = 0

-----------------------------------------------------------------------------
(* The pool exec leaves behind: unmarked and uncounted (exec.c 94-95).    *)
(* The bitmap of a fresh process is all clear.                             *)
SwapInit ==
    /\ swapFile = FALSE
    /\ swapSlots = [s \in Slots |-> FALSE]
    /\ numSwapped = 0

=============================================================================
