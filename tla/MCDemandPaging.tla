--------------------------- MODULE MCDemandPaging ---------------------------
(***************************************************************************)
(* Instance of DemandPaging for TLC.  Pages 0..5 are the address space and *)
(* page 6 stands for every address >= MAXVA.  Three frames: after exec two *)
(* hold the argument and stack pages, so the third fault already exhausts  *)
(* memory and every later one goes through eviction.  Two swap slots, so  *)
(* SWAPFULL is reached after two evictions.                                *)
(***************************************************************************)
EXTENDS DemandPaging

CONSTANTS f1, f2, f3

MCFrames == {f1, f2, f3}

(* An image as the xv6 toolchain lays it out: text at page 0, data at 1.   *)
TextSeg == [start |-> 0, end |-> 1, filePages |-> 1, flags |-> {"X"}, fileOk |-> TRUE]
DataSeg == [start |-> 1, end |-> 2, filePages |-> 1, flags |-> {"W"}, fileOk |-> TRUE]

(* A data segment with a bss page (page 2) whose file bytes are cut short: *)
(* the header's filesz runs past the end of the file, which exec does not  *)
(* check, so reading page 1 fails.                                         *)
TruncDataSeg == [start |-> 1, end |-> 3, filePages |-> 1, flags |-> {"W"}, fileOk |-> FALSE]

MCImages == { <<TextSeg, DataSeg>>, <<TextSeg, TruncDataSeg>> }

(* Only the well-formed image: no read of the executable can fail.        *)
MCGoodImages == { <<TextSeg, DataSeg>> }

MCSymmetry == Permutations(MCFrames)
=============================================================================
