----------------------------- MODULE UfatNames ------------------------------
(***************************************************************************)
(* mysh/fs/ufat_ent.c: the conversions of a file name, from the UTF-8 that *)
(* touch and mkdir are given to the UCS-2 of the directory entry and back, *)
(* and the checksum that ties the entry to its short name.  A name is a    *)
(* sequence of bytes; `char' is signed, as gcc has it on x86.  One name is *)
(* created, then listed.                                                   *)
(***************************************************************************)
EXTENDS Integers, Sequences, SequencesExt

CONSTANTS Bytes, MaxName,    \* the bytes and the length of the names tried
          ShortBytes         \* the bytes of the short names tried

VARIABLES given, stored, shown
nameVars == <<given, stored, shown>>
Nothing == <<-1>>

Signed(b) == IF b >= 128 THEN b - 256 ELSE b
ufat_lfn_is_legal(n) ==
    /\ n \notin {<<>>, <<46>>, <<46, 46>>}
    /\ \A k \in DOMAIN n : n[k] \notin {92, 47} /\ Signed(n[k]) >= 32

(* ufat_utf8_to_ucs2.  A continuation byte passes only with both of its    *)
(* top bits set.                                                           *)
IsTail(b) == b >= 192
UcsStep(s) ==
    LET r == s.rest
        c == r[1]
        At(k) == IF k <= Len(r) THEN r[k] ELSE 0
        Bad == [s EXCEPT !.ok = FALSE]
        Take(n, u) == [s EXCEPT !.rest = SubSeq(r, n + 1, Len(r)), !.ucs = Append(@, u)]
    IN  CASE c >= 240 -> Bad
          [] c \in 224 .. 239 -> IF IsTail(At(2)) /\ IsTail(At(3))
                                 THEN Take(3, (c % 16) * 4096 + (At(2) % 64) * 64 + (At(3) % 64)) ELSE Bad
          [] c \in 192 .. 223 -> IF IsTail(At(2)) THEN Take(2, (c % 32) * 64 + (At(2) % 64)) ELSE Bad
          [] c \in 128 .. 191 -> Bad
          [] OTHER -> Take(1, c)
ufat_utf8_to_ucs2(n) ==
    LET at[k \in 0 .. Len(n)] ==
            IF k = 0 THEN [rest |-> n, ucs |-> <<>>, ok |-> TRUE]
            ELSE IF at[k - 1].rest = <<>> \/ ~at[k - 1].ok THEN at[k - 1] ELSE UcsStep(at[k - 1])
    IN  at[Len(n)]

Utf(c) == IF c >= 2048 THEN <<224 + c \div 4096, 128 + ((c \div 64) % 64), 128 + (c % 64)>>
          ELSE IF c >= 128 THEN <<192 + c \div 64, 128 + (c % 64)>> ELSE <<c>>
ufat_ucs2_to_utf8(u) == FoldLeft(LAMBDA s, c : s \o Utf(c), <<>>, u)

(* ufat_short_checksum over the name of eight and the extension of three,  *)
(* padded with blanks.                                                     *)
cksum_next(cur, c) == (((cur % 2) * 128 + cur \div 2) + c) % 256
Padded(s, n) == [k \in 1 .. n |-> IF k <= Len(s) THEN s[k] ELSE 32]
ufat_short_checksum(name, ext) ==
    FoldLeft(LAMBDA sum, c : cksum_next(sum, c), 0, Padded(name, 8) \o Padded(ext, 3))

NameInit == given \in UNION {[1 .. n -> Bytes] : n \in 0 .. MaxName} /\ stored = Nothing /\ shown = Nothing
CreateNamed == /\ stored = Nothing /\ ufat_lfn_is_legal(given) /\ ufat_utf8_to_ucs2(given).ok
               /\ stored' = ufat_utf8_to_ucs2(given).ucs /\ UNCHANGED <<given, shown>>
ListNamed == /\ stored # Nothing /\ shown = Nothing
             /\ shown' = ufat_ucs2_to_utf8(stored) /\ UNCHANGED <<given, stored>>
NameNext == CreateNamed \/ ListNamed
NameSpec == NameInit /\ [][NameNext]_nameVars

----------------------------------------------------------------------------
NameTypeOK == /\ Range(given) \subseteq Bytes
              /\ stored = Nothing \/ \A k \in DOMAIN stored : stored[k] \in 0 .. 65535

(* A name that can be created is listed as it was given.  Only because     *)
(* `char' is signed: ufat_lfn_is_legal takes every byte above 127 for a    *)
(* control character, and the converter would accept the wrong bytes.      *)
NamesReadBack == shown # Nothing => shown = given

(* A short name in which one character is changed has another checksum, so *)
(* that the fragments of the one are never taken for those of the other.   *)
ChecksumsDiffer ==
    LET Sum(s) == ufat_short_checksum(SubSeq(s, 1, 8), SubSeq(s, 9, 11))
        name == Padded(given \o given \o given \o given, 11)
    IN  \A k \in DOMAIN name, b \in ShortBytes :
            b # name[k] => Sum([name EXCEPT ![k] = b]) # Sum(name)
=============================================================================
