------------------------------ MODULE FatCodec ------------------------------
(***************************************************************************)
(* mysh/fs/ufat.c: the entries of the FAT in their on-disk encoding.  A    *)
(* FAT12 table is a function of bytes, two entries in three of them; FAT16 *)
(* and FAT32 tables are functions of words, of which FAT32 uses 28 bits.   *)
(***************************************************************************)
EXTENDS Integers

FREE == 0
BAD == 268435447    \* 0xffffff7
EOC == 268435448    \* 0xffffff8
IS_PTR(c) == c >= 2 /\ c < 268435440

Decode(raw, eoc, bad) == IF raw >= eoc THEN EOC ELSE IF raw = bad THEN BAD ELSE raw
read_fat12(f, index) ==
    LET o == (index \div 2) * 3
        a == f[o + 1]
        raw == IF index % 2 = 1 THEN f[o + 2] * 16 + (a \div 16) ELSE f[o] + (a % 16) * 256
    IN  IF raw = 4080 THEN EOC ELSE Decode(raw, 4088, 4087)
ufat_read_fat(t, f, index) ==
    CASE t = 12 -> read_fat12(f, index)
      [] t = 16 -> Decode(f[index], 65528, 65527)
      [] t = 32 -> Decode(f[index], EOC, BAD)

(* write_fat12 is two calls of write_fat_byte, which keep the half of the  *)
(* shared byte that is not theirs: what the first leaves, what both leave. *)
half_fat12(f, index, in) ==
    LET o == (index \div 2) * 3 + (index % 2)
    IN  [f EXCEPT ![o] = IF index % 2 = 1 THEN (@ % 16) + (in % 16) * 16 ELSE in % 256]
write_fat12(f, index, in) ==
    LET o == (index \div 2) * 3 + (index % 2) + 1
        v == in % 4096
    IN  [half_fat12(f, index, in) EXCEPT
            ![o] = IF index % 2 = 1 THEN v \div 16 ELSE (@ \div 16) * 16 + v \div 256]
ufat_write_fat(t, f, index, in) ==
    CASE t = 12 -> write_fat12(f, index, in)
      [] t = 16 -> [f EXCEPT ![index] = in % 65536]
      [] t = 32 -> [f EXCEPT ![index] = in]
=============================================================================
