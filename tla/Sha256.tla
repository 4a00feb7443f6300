------------------------------- MODULE Sha256 -------------------------------
(***************************************************************************)
(* The streaming of SHA-256 in hash_impl.h: how pieces of a message of any *)
(* length are buffered into blocks, and how the last ones are padded.      *)
(*                                                                         *)
(* The compression function is abstract: the state s of a hash object is   *)
(* the sequence of bytes that went through transform since initialize, so  *)
(* that two objects have the same s if and only if they compressed the     *)
(* same blocks.  A byte is any value; numbers that the code writes itself  *)
(* are Num(n).  The sizes of blocks, digests and lengths are those of the  *)
(* code for WordBytes = 4.                                                 *)
(***************************************************************************)
EXTENDS Integers, Sequences

CONSTANTS
    WordBytes,      \* bytes in a word of the state
    Byte,           \* what messages and keys consist of
    Unset           \* a byte of memory this use of the object has not written

ASSUME WordAssumption == WordBytes \in Nat \ {0}

Block == 16 * WordBytes         \* bytes of buf
Out == 8 * WordBytes            \* bytes of s and of a digest
SizeLen == 2 * WordBytes        \* bytes of sizedesc

\* What the prover has to be told of the powers of 256.
ASSUME PowersAssumption ==
    /\ 256^0 = 1
    /\ \A n \in 0 .. SizeLen - 1 : 256^n \in Nat /\ 256^(n + 1) = 256 * 256^n

Num(n) == <<"num", n, {}>>
Zeros(n) == [i \in 1 .. n |-> Num(0)]

---------------------------------------------------------------------------
(* Operations on a hash object.                                            *)

\* sha256_initialize: s and bytes are set.  buf is not: it holds what the
\* memory held before, none of which may ever count.
Initialized == [s |-> << >>, buf |-> [i \in 1 .. Block |-> Unset],
                bytes |-> 0]

\* transform with the block in buf
Transform(s, buf) == s \o buf

\* memcpy of d into buf at an offset
Copied(buf, at, d) ==
    [i \in 1 .. Block |-> IF at < i /\ i <= at + Len(d) THEN d[i - at]
                                                        ELSE buf[i]]

BufSize(h) == h.bytes % Block

\* sha256_write as a whole: what its loop computes.
Written(h, d) ==
    LET t == SubSeq(h.buf, 1, BufSize(h)) \o d
        full == (Len(t) \div Block) * Block
        rest == SubSeq(t, full + 1, Len(t))
        last == IF full = 0 THEN h.buf
                            ELSE SubSeq(t, full - Block + 1, full)
    IN  [s |-> h.s \o SubSeq(t, 1, full), buf |-> Copied(last, 0, rest),
         bytes |-> h.bytes + Len(d)]

\* The pad of finalize: 0x80 and zeros up to the length field.
\* Mutant: 120 for 119, as if 0x80 were not there.
PadLenLong(n) == 1 + ((2 * Block - SizeLen - (n % Block)) % Block)
PadLen(n) == 1 + ((2 * Block - 1 - SizeLen - (n % Block)) % Block)
Pad(n) == [i \in 1 .. PadLen(n) |-> IF i = 1 THEN Num(128) ELSE Num(0)]

\* sizedesc: bytes >> 29 and bytes << 3, as big endian words.
WordSize == 256 ^ WordBytes
Word(w) == [i \in 1 .. WordBytes |->
                Num((w \div 256 ^ (WordBytes - i)) % 256)]
SizeDesc(n) == Word((n \div (WordSize \div 8)) % WordSize)
               \o Word((n * 8) % WordSize)

\* sha256_finalize as a whole: the stream whose digest it returns.
Finalized(h) ==
    Written(Written(h, Pad(h.bytes)), SizeDesc(h.bytes)).s

---------------------------------------------------------------------------
(* The specification SHA-256 gives of it.                                  *)

\* A message is followed by 0x80, the least number of zeros that completes
\* a block, and its length in bits, big endian.
BitLength(n) == [i \in 1 .. SizeLen |->
                     Num(((8 * n) \div 256 ^ (SizeLen - i)) % 256)]
Padded(msg) ==
    LET k == CHOOSE k \in 0 .. Block - 1 :
                 (Len(msg) + 1 + k + SizeLen) % Block = 0
    IN  msg \o <<Num(128)>> \o Zeros(k) \o BitLength(Len(msg))
===========================================================================
