---------------------------- MODULE MCHashStream ----------------------------
(***************************************************************************)
(* Instances of HashStream and Rfc6979 for TLC, with words of one byte:    *)
(* blocks of 16 bytes, digests of 8.  A behaviour is one of the hash       *)
(* client alone or one of the generator's users alone.                     *)
(***************************************************************************)
EXTENDS HashStream, Rfc6979

\* Up to 36 bytes: the length in bits takes two words from 32 bytes on.
Letters == [i \in 1 .. 36 |-> <<"m", i, {}>>]
MCByte == {<<x, i, {}>> : x \in {"a", "b", "c", "m"}, i \in 1 .. 36}

\* Extra data and the algorithm may hold the same bytes.
MCNonceArgs ==
    [key : {"a", "b"}, msg : {"a"}, data : {NULL, "a"}, algo : {NULL, "a"}]

\* Keys up to a byte more than a block, and of two blocks.
MCMacs ==
    {[key |-> Bytes("a", n), pieces |-> p] :
         n \in {0, 1, 8, 15, 16, 17, 32},
         p \in {<< >>, <<Bytes("b", 5), << >>, Bytes("c", 12)>>,
                <<Bytes("b", 16), Bytes("c", 30)>>}}

MCInit == Init /\ RInit
MCNext ==
    \/ RInit /\ Next /\ UNCHANGED rvars
    \/ Init /\ RNext /\ UNCHANGED vars
MCSpec == MCInit /\ [][MCNext]_<<vars, rvars>>
===========================================================================
