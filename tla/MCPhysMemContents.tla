-------------------------- MODULE MCPhysMemContents --------------------------
(***************************************************************************)
(* Eight pages, two-byte descriptors: the array does not fit below the     *)
(* BIOS (page 2) and takes pages 3-4; page 1 and pages 5-7 are free.       *)
(***************************************************************************)
EXTENDS PhysMemContents

ASSUME AlignedLayout
=============================================================================
