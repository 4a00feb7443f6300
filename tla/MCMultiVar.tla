----------------------------- MODULE MCMultiVar -----------------------------
(***************************************************************************)
(* Small sizes of everything, three bucket windows, and scratch spaces of  *)
(* every size in steps: too small for any point, for one, for several.     *)
(***************************************************************************)
EXTENDS MultiVar

MCBucketCount == [w \in Windows |-> 2 ^ w]
MCWnafSize == [w \in Windows |-> (8 + w) \div (w + 1)]
MCWindowInv == <<1, 3, 1000>>
MCScratchSizes == {16 * k : k \in 0 .. 22}
===========================================================================
