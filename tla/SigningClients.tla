--------------------------- MODULE SigningClients ---------------------------
(***************************************************************************)
(* The clients of NativeSecp256k1 in this program, on top of the class:    *)
(* threads that load the libraries (JniLoader), read a private key         *)
(* (KeyLoader), derive its address (KeyPair) and then sign as often as     *)
(* they like (AuthenticationHeaders.createL1Headers and                    *)
(* OrderBuilder.createSignedOrder, which use the class in the same way).   *)
(* Each of these allocates a context, makes one call on it and cleans it   *)
(* up, with no finally: an exception in between leaves the context behind. *)
(*                                                                         *)
(* prog[t] is the call thread t is about to make or in the middle of.      *)
(***************************************************************************)
EXTENDS NativeSecp256k1

CONSTANT KeyLengths     \* lengths in bytes of what the key file may hold

ComputeArgs == <<32, 0, 0>>
SignArgs == <<32, 32, 0>>

ASSUME KeyLengthsAssumption == KeyLengths \subseteq Nat
ASSUME ClientRequestsAssumption ==
    {[op |-> "computePubkey", len |-> ComputeArgs],
     [op |-> "signRecoverable", len |-> SignArgs],
     [op |-> "contextCleanup", len |-> NoLength]} \subseteq Requests

VARIABLES
    prog,       \* where each client is
    secret,     \* its privateKey: the bytes, read as a scalar, and how many
    ctx,        \* its local variable ctx
    pub         \* its local variable pub, then its public key

clientVars == <<prog, secret, ctx, pub>>

Progs == {"init", "load", "createPair", "compute", "cleanPair", "ready",
          "createSign", "sign", "cleanSign", "dead"}
NoSecret == [key |-> 0, len |-> 0]

\* Where a KeyPair has been constructed.
Paired == {"ready", "createSign", "sign", "cleanSign"}

ClientInit ==
    /\ Init
    /\ prog = [t \in Threads |-> "init"]
    /\ secret = [t \in Threads |-> NoSecret]
    /\ ctx = [t \in Threads |-> NULL]
    /\ pub = [t \in Threads |-> NoResult]

Continue(t, p) == prog' = [prog EXCEPT ![t] = p]

\* An exception nobody catches ends the thread.
Die(t) == Continue(t, "dead") /\ UNCHANGED <<secret, ctx, pub>>

---------------------------------------------------------------------------
(* Calls of the class.                                                     *)

\* Call op on ctx.  What the class is told of no context is not checked.
Invoke(t, op, len, key) ==
    /\ pc[t] = "idle"
    /\ call' = [call EXCEPT ![t] = [op |-> op, ctx |-> ctx[t], len |-> len,
                                    key |-> key, dst |-> NULL]]
    /\ handles' = IF op = "contextCleanup"
                  THEN [handles EXCEPT ![t] = @ \ {ctx[t]}] ELSE handles
    /\ Goto(t, IF op = "contextCleanup" THEN "monitor" ELSE "stage")
    /\ UNCHANGED <<linkVars, lockVars, heapVars, bufVars, scalar, acc,
                   result>>

\* JniLoader.init: Keccak256.init throws if its library is missing.
KeccakMissing(t) ==
    /\ prog[t] = "init" /\ pc[t] = "idle"
    /\ Die(t)
    /\ UNCHANGED vars

InitCall(t) ==
    prog[t] = "init" /\ BeginInit(t) /\ UNCHANGED clientVars

CreateCall(t) ==
    /\ prog[t] \in {"createPair", "createSign"}
    /\ BeginCreate(t)
    /\ UNCHANGED clientVars

ComputeCall(t) ==
    /\ prog[t] = "compute"
    /\ Invoke(t, "computePubkey", <<secret[t].len, 0, 0>>, secret[t].key)
    /\ UNCHANGED clientVars

SignCall(t) ==
    /\ prog[t] = "sign"
    /\ Invoke(t, "signRecoverable", <<32, secret[t].len, 0>>, secret[t].key)
    /\ UNCHANGED clientVars

CleanupCall(t) ==
    /\ prog[t] \in {"cleanPair", "cleanSign"}
    /\ Invoke(t, "contextCleanup", NoLength, 0)
    /\ UNCHANGED clientVars

\* A step of the class inside one of these calls.
Inside(t) == Step(t) /\ pc[t] # "return" /\ UNCHANGED clientVars

---------------------------------------------------------------------------
(* What the clients do when a call returns.                                *)

Threw(t) == result[t].kind \in Thrown

CallThrows(t) == Return(t) /\ Threw(t) /\ Die(t)

InitReturns(t) ==
    /\ prog[t] = "init"
    /\ Return(t)
    /\ Continue(t, "load")
    /\ UNCHANGED <<secret, ctx, pub>>

\* Mutant: the length of the key is not verified.
LoadKeyAnyLength(t) ==
    /\ prog[t] = "load"
    /\ \E k \in SecretKeys, l \in KeyLengths :
          secret' = [secret EXCEPT ![t] = [key |-> k, len |-> l]]
    /\ Continue(t, "createPair")
    /\ UNCHANGED <<vars, ctx, pub>>

\* KeyLoader.loadKeys: 64 hexadecimal digits, or MalformedPrivateKey.  Any
\* 32 bytes will do, also those that are no valid key.
LoadKey(t) ==
    /\ prog[t] = "load"
    /\ \E k \in SecretKeys, l \in KeyLengths :
          IF l = 32
          THEN /\ secret' = [secret EXCEPT ![t] = [key |-> k, len |-> l]]
               /\ Continue(t, "createPair")
               /\ UNCHANGED <<ctx, pub>>
          ELSE Die(t)
    /\ UNCHANGED vars

CreateReturns(t) ==
    /\ prog[t] \in {"createPair", "createSign"}
    /\ Return(t)
    /\ ~Threw(t)
    /\ ctx' = [ctx EXCEPT ![t] = IF call[t].dst \in live THEN call[t].dst
                                                         ELSE NULL]
    /\ Continue(t, IF prog[t] = "createPair" THEN "compute" ELSE "sign")
    /\ UNCHANGED <<secret, pub>>

ComputeReturns(t) ==
    /\ prog[t] = "compute"
    /\ Return(t)
    /\ ~Threw(t)
    /\ pub' = [pub EXCEPT ![t] = result[t]]
    /\ Continue(t, "cleanPair")
    /\ UNCHANGED <<secret, ctx>>

\* Mutant: an empty public key is hashed like any other.
AddressAnyway(t) ==
    /\ prog[t] = "cleanPair"
    /\ Return(t)
    /\ ~Threw(t)
    /\ Continue(t, "ready")
    /\ UNCHANGED <<secret, ctx, pub>>

\* ethAddressFromPrivateKey after the cleanup: the copyOfRange that cuts
\* the prefix off throws on the empty array an invalid key yields.
Address(t) ==
    /\ prog[t] = "cleanPair"
    /\ Return(t)
    /\ ~Threw(t)
    /\ IF pub[t].kind = "value"
       THEN Continue(t, "ready") /\ UNCHANGED <<secret, ctx, pub>>
       ELSE Die(t)

\* Headers for a request, or an order, are wanted: everything that is
\* signed is put together first.
WantSignature(t) ==
    /\ prog[t] = "ready"
    /\ Continue(t, "createSign")
    /\ UNCHANGED <<vars, secret, ctx, pub>>

\* assert r_sig != null; with assertions off, r_sig.r throws instead.
SignReturns(t) ==
    /\ prog[t] = "sign"
    /\ Return(t)
    /\ ~Threw(t)
    /\ IF result[t].kind = "value"
       THEN Continue(t, "cleanSign") /\ UNCHANGED <<secret, ctx, pub>>
       ELSE Die(t)

\* Mutant: the next signature is made on the context that is cleaned up.
SignedReusesContext(t) ==
    /\ prog[t] = "cleanSign"
    /\ Return(t)
    /\ ~Threw(t)
    /\ Continue(t, "sign")
    /\ UNCHANGED <<secret, ctx, pub>>

Signed(t) ==
    /\ prog[t] = "cleanSign"
    /\ Return(t)
    /\ ~Threw(t)
    /\ Continue(t, "ready")
    /\ UNCHANGED <<secret, ctx, pub>>

ClientStep(t) ==
    \/ KeccakMissing(t) \/ InitCall(t) \/ InitReturns(t) \/ LoadKey(t)
    \/ CreateCall(t) \/ CreateReturns(t) \/ CallThrows(t)
    \/ ComputeCall(t) \/ ComputeReturns(t) \/ Address(t)
    \/ WantSignature(t) \/ SignCall(t) \/ SignReturns(t) \/ Signed(t)
    \/ CleanupCall(t)

ClientNext == \E t \in Threads : Inside(t) \/ ClientStep(t)

ClientSpec == ClientInit /\ [][ClientNext]_<<vars, clientVars>>

---------------------------------------------------------------------------
ClientTypeOK ==
    /\ prog \in [Threads -> Progs]
    /\ secret \in [Threads -> [key : SecretKeys, len : {0, 32}]]
    /\ ctx \in [Threads -> Ctxs \cup {NULL}]
    /\ pub \in [Threads -> Results]

\* The clients keep to what NativeSecp256k1 needs of them (and what its own
\* properties were checked and proved under): they pass contexts that are
\* allocated, to one thread, and clean each up once.
ClientsConform == Spec

\* A KeyPair only exists for a private key that is one, with the public key
\* that belongs to it.
PairsValid ==
    \A t \in Threads :
        prog[t] \in Paired
            => ValidKey(secret[t].key) /\ pub[t].point = secret[t].key

\* "assert r_sig != null" holds in createL1Headers and createSignedOrder,
\* whatever 32 bytes the key file holds: a key that cannot sign has been
\* stopped by the empty public key before.
SignatureNotNull ==
    \A t \in Threads :
        prog[t] = "sign" => result[t].kind \in {"none", "value"}

\* Although no cleanup is in a finally block, no context is ever left
\* behind: each is in the hands of a thread that goes on to clean it up.
Creating == {"createPair", "createSign"}
Cleanups == {"cleanPair", "cleanSign"}
Holds(t, c) ==
    \/ prog[t] \in Creating /\ call[t].dst = c
    \/ prog[t] \in {"compute", "sign"} /\ ctx[t] = c
    \/ prog[t] \in Cleanups /\ pc[t] \notin {"unlock", "return"} /\ ctx[t] = c
NoContextLeft == \A c \in live : \E t \in Threads : Holds(t, c)

---------------------------------------------------------------------------
(* The inductive invariant behind these properties, next to IInv.          *)

CallOf(t, op, len, key) ==
    [op |-> op, ctx |-> ctx[t], len |-> len, key |-> key, dst |-> NULL]

\* Where a client is says which call is under way, with which arguments.
ProgInv(t) ==
    LET p == prog[t]  idle == pc[t] = "idle" IN
    /\ p \in {"load", "ready", "dead"} => idle
    /\ p = "init" => idle \/ call[t].op = "init"
    /\ p \in Creating => idle \/ call[t].op = "contextCreate"
    /\ p = "compute"
          => \/ idle
             \/ call[t] = CallOf(t, "computePubkey", ComputeArgs,
                                 secret[t].key)
    /\ p = "sign"
          => \/ idle
             \/ call[t] = CallOf(t, "signRecoverable", SignArgs,
                                 secret[t].key)
    /\ p \in Cleanups
          => idle \/ call[t] = CallOf(t, "contextCleanup", NoLength, 0)
    /\ p \notin {"init", "load", "dead"} => secret[t].len = 32

\* A thread knows the context it uses ...
ContextInv(t) ==
    /\ prog[t] \in {"compute", "sign"} => ctx[t] \in handles[t]
    /\ prog[t] \in Cleanups /\ pc[t] = "idle" => ctx[t] \in handles[t]
    /\ prog[t] \in Creating /\ pc[t] = "return" =>
          LET d == call[t].dst  thrown == result[t].kind \in Thrown IN
          /\ thrown => d \notin live
          /\ d \in live => d \in handles[t]
          /\ ~thrown /\ d \notin live => NULL \in handles[t]

\* ... and no other thread does, nor is it given the same address.
SeparateInv ==
    \A t, u \in Threads :
        t # u => /\ handles[t] \cap handles[u] \subseteq {NULL}
                 /\ call[t].dst # NULL => call[t].dst # call[u].dst

\* What the outcome of a call says about the context and the key.
OutcomeInv(t) ==
    LET kind == result[t].kind  k == secret[t].key IN
    /\ prog[t] \in {"compute", "sign"} \cup Cleanups /\ kind \in Thrown
          => ctx[t] = NULL
    /\ prog[t] = "compute" /\ (pc[t] = "native2" \/ kind = "value")
          => loaded /\ ValidKey(k) /\ scalar[t] = k
    /\ (prog[t] = "cleanPair" /\ pub[t].kind = "value") \/ prog[t] \in Paired
          => loaded /\ ValidKey(k) /\ pub[t].point = k
    /\ prog[t] = "sign" => kind \in {"none", "value"}
    /\ pc[t] \in {"unlock", "return"} /\ prog[t] # "init" => kind # "none"

UseInv ==
    /\ ClientTypeOK
    /\ live # {} => loaded
    /\ \A t \in Threads : ProgInv(t) /\ ContextInv(t) /\ OutcomeInv(t)
    /\ SeparateInv
    /\ NoContextLeft
=============================================================================
