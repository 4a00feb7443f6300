--------------------------- MODULE CurveService ---------------------------
(***************************************************************************)
(* What NativeSecp256k1 promises: every call takes effect in one step, as  *)
(* if it were alone, and a generator multiplication is a function of its   *)
(* arguments.  There are no locks, no buffers, no library to load and no   *)
(* blinding: a context is only something that is allocated or not.         *)
(***************************************************************************)
EXTENDS Integers

CONSTANTS
    N,          \* the order of the group; points are discrete logarithms
    Threads,
    Ctxs,       \* context addresses
    NULL

VARIABLES
    contexts,   \* the contexts that are allocated
    request,    \* the request of every thread, or NoRequest
    answer      \* what it has been answered, or NoAnswer

vars == <<contexts, request, answer>>

Signs     == {"sign", "signRecoverable"}
Functions == {"verify", "secKeyVerify", "createECDHSecret", "randomize",
              "privKeyTweakAdd", "privKeyTweakMul", "pubKeyTweakAdd",
              "pubKeyTweakMul"}
RequestRecords ==
    [op : Signs \cup Functions
             \cup {"computePubkey", "contextCreate", "cloneContext",
                   "contextCleanup"},
     ctx : Ctxs \cup {NULL}, key : 0 .. N]

NoRequest == [op |-> "none", ctx |-> NULL, key |-> 0]
NoAnswer  == [kind |-> "none", point |-> 0]
Exceptions == {"NullPointer", "IllegalArgument", "BufferOverflow",
               "UnsatisfiedLink", "AssertFail"}

Init ==
    /\ contexts = {}
    /\ request = [t \in Threads |-> NoRequest]
    /\ answer = [t \in Threads |-> NoAnswer]

Call(t) ==
    /\ request[t] = NoRequest
    /\ \E q \in RequestRecords :
          /\ q.ctx \in contexts \cup {NULL}
          /\ request' = [request EXCEPT ![t] = q]
    /\ UNCHANGED <<contexts, answer>>

Answer(t, kind, point) ==
    /\ request[t] # NoRequest
    /\ answer[t] = NoAnswer
    /\ answer' = [answer EXCEPT ![t] = [kind |-> kind, point |-> point]]
    /\ UNCHANGED request

\* k*G for the key k, or "invalid" for a string that is no key.
ComputePubkey(t) ==
    LET k == request[t].key IN
    /\ request[t].op = "computePubkey"
    /\ request[t].ctx \in contexts
    /\ IF k \in 1 .. N - 1 THEN Answer(t, "value", k)
                           ELSE Answer(t, "invalid", 0)
    /\ UNCHANGED contexts

\* The commitment n*G of a signature, for a nonce n that is never zero.
Sign(t) ==
    /\ request[t].op \in Signs
    /\ request[t].ctx \in contexts
    /\ IF request[t].key \in 1 .. N - 1
       THEN \E n \in 1 .. N - 1 : Answer(t, "value", n)
       ELSE Answer(t, "invalid", 0)
    /\ UNCHANGED contexts

\* Every other function changes no context that anyone could see.
Apply(t) ==
    /\ request[t].op \in Functions
    /\ \E kind \in {"value", "invalid"} : Answer(t, kind, 0)
    /\ UNCHANGED contexts

\* A new context, at an address nobody has.
Allocate(t) ==
    /\ request[t].op \in {"contextCreate", "cloneContext"}
    /\ \E d \in Ctxs \ contexts : contexts' = contexts \cup {d}
    /\ Answer(t, "value", 0)

\* Without the library the context is null.
AllocateNull(t) ==
    /\ request[t].op = "contextCreate"
    /\ Answer(t, "value", 0)
    /\ UNCHANGED contexts

\* A context is released once; releasing null does nothing.
Cleanup(t) ==
    /\ request[t].op = "contextCleanup"
    /\ request[t].ctx \in contexts \cup {NULL}
    /\ contexts' = contexts \ {request[t].ctx}
    /\ Answer(t, "value", 0)

\* A call that throws leaves everything as it was.
Throw(t) ==
    /\ \E kind \in Exceptions : Answer(t, kind, 0)
    /\ UNCHANGED contexts

Return(t) ==
    /\ answer[t] # NoAnswer
    /\ request' = [request EXCEPT ![t] = NoRequest]
    /\ answer' = [answer EXCEPT ![t] = NoAnswer]
    /\ UNCHANGED contexts

Next ==
    \E t \in Threads :
        \/ Call(t) \/ ComputePubkey(t) \/ Sign(t) \/ Apply(t)
        \/ Allocate(t) \/ AllocateNull(t) \/ Cleanup(t) \/ Throw(t)
        \/ Return(t)

Spec == Init /\ [][Next]_vars
===========================================================================
