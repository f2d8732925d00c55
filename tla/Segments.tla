------------------------------ MODULE Segments ------------------------------
(***************************************************************************)
(* Segment descriptors and selectors (include/simplix/segment.h): how a    *)
(* base address and a limit are split over the fields that the processor   *)
(* asks for, and how the kernel reads them back.                           *)
(***************************************************************************)
EXTENDS Integers

Fields(base_addr, limit, granular) ==
    [limit_15_0      |-> limit % 65536,
     limit_19_16     |-> (limit \div 65536) % 16,
     base_addr_15_0  |-> base_addr % 65536,
     base_addr_23_16 |-> (base_addr \div 65536) % 256,
     base_addr_31_24 |-> (base_addr \div 16777216) % 256,
     g               |-> granular]

BUILD_SEG_DESC(base_addr, limit) == Fields(base_addr, limit, 0)
BUILD_4KB_SEG_DESC(base_addr, limit) == Fields(base_addr, limit \div 4096, 1)

SEG_ADDR(d) ==
    d.base_addr_31_24 * 16777216 + d.base_addr_23_16 * 65536 + d.base_addr_15_0

SEG_SIZE(d) ==
    LET limit == d.limit_19_16 * 65536 + d.limit_15_0
    IN  IF d.g = 1 THEN 4096 * limit ELSE limit

SEG_REG_VAL(privilege, in_ldt, segment_index) ==
    8 * segment_index + (IF in_ldt THEN 4 ELSE 0) + (privilege % 4)

SEG_REG_RPL(seg_reg_val) == seg_reg_val % 4
=============================================================================
