------------------------------ MODULE MCEcdsa ------------------------------
(***************************************************************************)
(* A small curve of prime order N < P for TLC.                             *)
(***************************************************************************)
EXTENDS DerivedKeys

\* A generator of y^2 = x^3 + 2 modulo 19: 13 points, one x of which (18)
\* is at least the order.
G13 == <<4, 3>>

\* The strings of one byte of 16 values: every scalar, and three numbers
\* that overflow; a top bit from 8 on.
AllStrings == 0 .. 15

\* Every element of the field, and two numbers that overflow.
AllFieldStrings == 0 .. 20
=============================================================================
