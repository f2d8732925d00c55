----------------------------- MODULE IDEAddress -----------------------------
(***************************************************************************)
(* How drivers/ide.c tells a disk which block it means: the registers that *)
(* ide_read_write_blocks writes, in linear (LBA) or in cylinder, head and  *)
(* sector (CHS) form; and the strings a disk identifies itself with.       *)
(***************************************************************************)
EXTENDS Integers, Sequences

byte(n) == n % 256

\* Mutant: sectors are counted from 0.
Sector_FromZero(tmp, sectors) == tmp % sectors

Sector(tmp, sectors) == (tmp % sectors) + 1

\* The registers ATA_SECTOR, ATA_LCYL, ATA_HCYL and ATA_DRV_HEAD.
registers(device, block) ==
    LET track == device.heads * device.sectors
        cyl   == block \div track
        tmp   == block % track
        at    == IF device.lba
                 THEN [sc |-> byte(block), cl |-> byte(block \div 256),
                       ch |-> byte(block \div 65536),
                       hd |-> (block \div 16777216) % 16]
                 ELSE [sc |-> byte(Sector(tmp, device.sectors)),
                       cl |-> byte(cyl), ch |-> byte(cyl \div 256),
                       hd |-> byte(tmp \div device.sectors)]
        lba   == IF device.lba THEN 64 ELSE 0
    IN  [sc |-> at.sc, cl |-> at.cl, ch |-> at.ch,
         \* the bits are disjoint for the at most 16 heads of a disk
         drv_head |-> lba + 16 * device.position + at.hd]

\* fix_ide_string, on a string s of an even length.
Swap(s) == [i \in DOMAIN s |-> IF i % 2 = 1 THEN s[i + 1] ELSE s[i - 1]]

\* The bytes are wiped from the third last one down to a printable one.
fix_ide_string(s, printable, NUL) ==
    LET t == Swap(s)
        n == Len(s)
        Wiped(i) == \A k \in i..(n - 2) : t[k] \notin printable
    IN  [i \in DOMAIN s |->
            IF i = n \/ (i <= n - 2 /\ Wiped(i)) THEN NUL ELSE t[i]]
=============================================================================
