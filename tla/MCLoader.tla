------------------------------ MODULE MCLoader ------------------------------
(***************************************************************************)
(* Instance of Loader for TLC: three frames, two swap slots, the image of  *)
(* MCDemandPaging as the running one, and a handful of executables.        *)
(***************************************************************************)
EXTENDS Loader

CONSTANTS f1, f2, f3

MCFrames == {f1, f2, f3}

TextSeg == [start |-> 0, end |-> 1, filePages |-> 1, flags |-> {"X"}, fileOk |-> TRUE]
DataSeg == [start |-> 1, end |-> 2, filePages |-> 1, flags |-> {"W"}, fileOk |-> TRUE]
(* A data page whose file bytes are cut short: reading it fails.          *)
ShortDataSeg == [start |-> 1, end |-> 2, filePages |-> 1, flags |-> {"W"}, fileOk |-> FALSE]
(* Text over pages 0 and 1, and a third segment at page 2.                *)
WideTextSeg == [start |-> 0, end |-> 2, filePages |-> 2, flags |-> {"X"}, fileOk |-> TRUE]
BssSeg == [start |-> 2, end |-> 3, filePages |-> 0, flags |-> {"W"}, fileOk |-> TRUE]

Ok(seg) == [ok |-> TRUE, seg |-> seg]
Bad(seg) == [ok |-> FALSE, seg |-> seg]

MCImages == { <<TextSeg, DataSeg>> }

(* Executables whose image ends where the running one does (page 2).      *)
ProgGood == <<Ok(TextSeg), Ok(DataSeg)>>
ProgShort == <<Ok(TextSeg), Ok(ShortDataSeg)>>
ProgBadHeader == <<Ok(TextSeg), Bad(DataSeg)>>
MCSameSizePrograms == {ProgGood, ProgShort, ProgBadHeader}

(* A malformed executable whose first header differs from the running     *)
(* image's.                                                                *)
ProgWideBad == <<Ok(WideTextSeg), Bad(DataSeg)>>
(* Three PT_LOAD headers, one more than MAX_SEGMENTS = 2.                 *)
ProgThree == <<Ok(TextSeg), Ok(DataSeg), Ok(BssSeg)>>

MCWideBadPrograms == {ProgWideBad}
MCThreePrograms == {ProgThree}

MCSymmetry == Permutations(MCFrames)
=============================================================================
