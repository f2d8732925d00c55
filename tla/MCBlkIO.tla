------------------------------ MODULE MCBlkIO ------------------------------
(***************************************************************************)
(* A device of three blocks of three bytes.  Requests that start on a      *)
(* block boundary or reach the end of their first block, with every        *)
(* combination of a first part, whole blocks and a last part (Reaching);   *)
(* and those that stay inside one block, which the code gets wrong         *)
(* (Inside: OutsideUntouched does not hold for them).                      *)
(***************************************************************************)
EXTENDS BlkIO, TLC

Reaches(r) ==
    r[1] % block_size = 0 \/ BlocksOf(r[1], r[2] + 1) # BlocksOf(r[1], 1)

OnDevice == {r \in Bytes \X (0..9) : r[1] + r[2] <= block_size * capacity}
Reaching == {r \in OnDevice : Reaches(r)}
Inside == {r \in OnDevice : ~Reaches(r) /\ r[2] > 0}

Sym == Permutations(Thread)
=============================================================================
