------------------------------ MODULE MCGroup ------------------------------
(***************************************************************************)
(* Small curves of prime order for TLC.                                    *)
(***************************************************************************)
EXTENDS Group

\* Generators of y^2 = x^3 + 2 modulo 19 (13 points; 2 is also the CURVE_B
\* of the library's own exhaustive tests on a group of order 13) and of
\* y^2 = x^3 + 7 modulo 43 (31 points).
G13 == <<4, 3>>
G31 == <<2, 12>>

AllScales == 1 .. P - 1
=============================================================================
