------------------------- MODULE MCNativeSecp256k1 -------------------------
(***************************************************************************)
(* Instances of NativeSecp256k1 for TLC.                                   *)
(***************************************************************************)
EXTENDS NativeSecp256k1, TLC

Call(op, a, b, c) == [op |-> op, len |-> <<a, b, c>>]

\* One method of every kind that contends for contexts or that the service
\* tells apart, and one that throws.
LockRequests ==
    {Call("computePubkey", 32, 0, 0), Call("signRecoverable", 32, 32, 0),
     Call("privKeyTweakAdd", 32, 32, 0), Call("randomize", 32, 0, 0),
     Call("randomize", 31, 0, 0), Call("cloneContext", 0, 0, 0),
     Call("contextCleanup", 0, 0, 0)}

\* Every method with arguments of the documented lengths, for each check
\* some it rejects, and short ones that some checks let through, of as many
\* bytes in all as other calls have.
AllRequests ==
    {Call("verify", 32, 70, 33), Call("verify", 32, 72, 65),
     Call("verify", 31, 70, 33), Call("verify", 32, 521, 33),
     Call("verify", 32, 520, 65), Call("verify", 32, NoArray, 521),
     Call("sign", 32, 32, 0), Call("sign", 32, 33, 0), Call("sign", 32, 0, 0),
     Call("sign", 32, NoArray, 0),
     Call("signRecoverable", 32, 32, 0), Call("signRecoverable", 32, 64, 0),
     Call("secKeyVerify", 32, 0, 0), Call("secKeyVerify", 33, 0, 0),
     Call("computePubkey", 32, 0, 0), Call("computePubkey", 0, 0, 0),
     Call("privKeyTweakAdd", 32, 32, 0), Call("privKeyTweakMul", 32, 32, 0),
     Call("privKeyTweakAdd", 32, 0, 0), Call("pubKeyTweakMul", 33, 31, 0),
     Call("pubKeyTweakAdd", 33, 32, 0), Call("pubKeyTweakAdd", 65, 32, 0),
     Call("pubKeyTweakMul", 65, 32, 0), Call("pubKeyTweakMul", 64, 32, 0),
     Call("createECDHSecret", 32, 33, 0),
     Call("createECDHSecret", 32, 65, 0),
     Call("createECDHSecret", 33, 65, 0), Call("createECDHSecret", 31, 33, 0),
     Call("randomize", 32, 0, 0), Call("randomize", 31, 0, 0),
     Call("cloneContext", 0, 0, 0), Call("contextCleanup", 0, 0, 0)}

Symmetry == Permutations(Threads) \cup Permutations(Ctxs)
===========================================================================
