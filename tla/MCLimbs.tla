------------------------------- MODULE MCLimbs -------------------------------
(***************************************************************************)
(* Limbs with 24-bit scalars in eight words, and field elements of 26 bits *)
(* in four limbs: the operands are those with the longest carries, and     *)
(* those next to 0, to the modulus, to half of it and to powers of 2.      *)
(***************************************************************************)
EXTENDS Limbs

MCScalarOperands ==
    {0, 1, 2, Order \div 2, (Order \div 2) + 1, Order - 2, Order - 1, Order,
     OrderC, Order - OrderC, Base^Words - 1, Base^Half - 1, Base^Half,
     Base^(Words - 1), 5592405, 11184810, 16711935, 9586980}

MCFieldOperands ==
    {0, 1, P - 1, P - R0, Radix - 1, Radix, 2^(FieldBits - 1),
     2^(FieldBits - TopBits) - 1, 22369621}

==============================================================================
