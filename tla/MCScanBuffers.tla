---------------------------- MODULE MCScanBuffers ----------------------------
(***************************************************************************)
(* Instance for TLC: every text of up to MaxLength characters; the files   *)
(* include each other and themselves.                                      *)
(***************************************************************************)
EXTENDS ScanBuffers, SequencesExt
CONSTANT MaxLength
MCTexts == BoundedSeq({"a", "blank", "quote"} \cup Files, MaxLength)
=============================================================================
