-------------------------- MODULE NativeSecp256k1 --------------------------
(***************************************************************************)
(* cryptography.elliptic.NativeSecp256k1 and the JNI functions behind it:  *)
(* Java threads that stage their arguments in a thread-local direct        *)
(* buffer, take the class-wide read/write lock (and, for the two           *)
(* synchronized methods, the class monitor) and run native code on a       *)
(* secp256k1_context they hold the address of.                             *)
(*                                                                         *)
(* One action is one step between two points where another thread can be   *)
(* scheduled with an effect.  Native code that touches a context in two    *)
(* memory accesses (read initial then blind; write blind then initial)     *)
(* takes two actions, so that what the lock protects can be seen.          *)
(***************************************************************************)
EXTENDS Secp256k1Context

CONSTANTS
    Threads,    \* Java threads
    Ctxs,       \* addresses malloc can give a context (bounds the heap)
    NULL,       \* the null pointer, 0L in Java
    NONE,       \* "no thread"
    Requests    \* the calls clients make: records [op, len], where len is
                \* the triple of the lengths of the array arguments

ASSUME NullAssumption == NULL \notin Ctxs
ASSUME NoneAssumption == NONE \notin Threads

GenOps     == {"sign", "signRecoverable", "computePubkey"}
TweakOps   == {"privKeyTweakAdd", "privKeyTweakMul",
               "pubKeyTweakAdd", "pubKeyTweakMul"}
PlainOps   == {"verify", "secKeyVerify", "createECDHSecret"} \cup TweakOps
SyncOps    == {"randomize", "contextCleanup"}   \* static synchronized, w
BufferOps  == GenOps \cup PlainOps \cup {"randomize"}
LockedOps  == BufferOps \cup {"contextCleanup", "cloneContext"}
Ops        == LockedOps \cup {"init", "contextCreate", "none"}

NoArray == -1       \* the length of a null array argument
Lengths == (Nat \cup {NoArray}) \X (Nat \cup {NoArray}) \X (Nat \cup {NoArray})
NoLength == <<0, 0, 0>>

ASSUME RequestsAssumption ==
    \A q \in Requests : q.op \in LockedOps /\ q.len \in Lengths

VARIABLES
    libPresent, \* whether System.load finds the shared library
    loaded,     \* the library is linked into the process
    instance,   \* INSTANCE # null
    sError,     \* sError # null
    sEnabled,
    readers,    \* the threads holding r
    writer,     \* the thread holding w
    monitor,    \* the thread holding the monitor of the class
    live,       \* the allocated contexts
    blind,      \* ecmult_gen_ctx.blind of every address
    initial,    \* ecmult_gen_ctx.initial of every address
    cap,        \* nativeECDSABuffer of every thread: capacity, 0 for null
    staged,     \* how many of its bytes the current call has put there
    handles,    \* the context addresses each client thread may still pass
    pc,         \* where each thread is
    call,       \* the call it is executing
    scalar,     \* the scalar its native code multiplies the generator by
    acc,        \* the point that code holds in a local variable
    result      \* what the call returns or throws

linkVars == <<libPresent, loaded, instance, sError, sEnabled>>
lockVars == <<readers, writer, monitor>>
heapVars == <<live, blind, initial>>
bufVars  == <<cap, staged>>
locals   == <<call, scalar, acc>>
vars == <<linkVars, lockVars, heapVars, bufVars, handles, pc, locals,
          result>>

NoCall == [op |-> "none", ctx |-> NULL, len |-> NoLength, key |-> 0,
           dst |-> NULL]
Calls == [op : Ops, ctx : Ctxs \cup {NULL}, len : Lengths,
          key : SecretKeys, dst : Ctxs \cup {NULL}]

Thrown == {"NullPointer", "IllegalArgument", "BufferOverflow",
           "UnsatisfiedLink", "AssertFail"}
Kinds == {"none", "value", "invalid"} \cup Thrown
NoResult == [kind |-> "none", point |-> 0]
Outcome(k) == [kind |-> k, point |-> 0]
Results == [kind : Kinds, point : Scalars]

Pcs == {"idle", "init", "load", "disable", "instance", "create", "alloc",
        "monitor", "stage", "lock", "native", "native2", "unlock", "return"}

---------------------------------------------------------------------------
(* The argument checks, buffer sizes and native reads of every method.     *)

\* Mutant: every secret may be shorter than 32 bytes, as sign's may.
AcceptsShort(op, len) ==
    \/ op = "verify" /\ len[1] = 32 /\ len[2] <= 520 /\ len[3] <= 520
    \/ op \in {"sign", "signRecoverable"} /\ len[1] = 32 /\ len[2] <= 32
    \/ op \notin {"verify", "sign", "signRecoverable"} /\ len[1] <= 32

\* checkArgument of each method; the lengths are in declaration order.
Accepts(op, len) ==
    \/ op = "verify" /\ len[1] = 32 /\ len[2] <= 520 /\ len[3] <= 520
    \/ op = "sign" /\ len[1] = 32 /\ len[2] <= 32
    \/ op = "signRecoverable" /\ len[1] = 32 /\ len[2] = 32
    \/ op \in {"secKeyVerify", "computePubkey", "randomize"} /\ len[1] = 32
    \/ op \in {"privKeyTweakAdd", "privKeyTweakMul"} /\ len[1] = 32
    \/ op \in {"pubKeyTweakAdd", "pubKeyTweakMul"} /\ len[1] \in {33, 65}
    \/ op = "createECDHSecret" /\ len[1] <= 32 /\ len[2] <= 65

\* The capacity below which the method allocates a new buffer of that size.
MinCapacity(op, len) ==
    CASE op = "verify" -> 520
      [] op \in {"sign", "signRecoverable"} -> 64
      [] op \in {"secKeyVerify", "computePubkey", "randomize"} -> len[1]
      [] op \in TweakOps -> len[1] + len[2]
      [] op = "createECDHSecret" -> 32 + len[2]
      [] OTHER -> 0

\* How far into the buffer the native function reads: the glue code finds
\* the second argument at byte 32, except after a public key, which has
\* its length passed along.
NativeReads(op, len) ==
    CASE op = "verify" -> 32 + len[2] + len[3]
      [] op \in {"sign", "signRecoverable"} -> 64
      [] op \in {"secKeyVerify", "computePubkey", "randomize"} -> 32
      [] op \in {"privKeyTweakAdd", "privKeyTweakMul"} -> 64
      [] op \in {"pubKeyTweakAdd", "pubKeyTweakMul"} -> len[1] + 32
      [] op = "createECDHSecret" -> 32 + len[2]
      [] OTHER -> 0

\* The bytes the puts before the native call copy.
Total(len) == len[1] + len[2] + len[3]

\* Native functions that go through the context pointer; the others only
\* would to report an illegal argument.
Derefs(op) == op \notin {"secKeyVerify", "privKeyTweakAdd",
                         "privKeyTweakMul", "createECDHSecret"}

\* What a failing native function makes the method do: return false, null
\* or an empty array, or fail its assertEquals.
Failure(op) == IF op \in TweakOps \cup {"createECDHSecret"}
               THEN "AssertFail" ELSE "invalid"

---------------------------------------------------------------------------
TypeOK ==
    /\ libPresent \in BOOLEAN /\ loaded \in BOOLEAN /\ instance \in BOOLEAN
    /\ sError \in BOOLEAN /\ sEnabled \in BOOLEAN
    /\ readers \subseteq Threads
    /\ writer \in Threads \cup {NONE}
    /\ monitor \in Threads \cup {NONE}
    /\ live \subseteq Ctxs
    /\ blind \in [Ctxs -> Scalars]
    /\ initial \in [Ctxs -> Scalars]
    /\ cap \in [Threads -> Nat]
    /\ staged \in [Threads -> Nat]
    /\ handles \in [Threads -> SUBSET (Ctxs \cup {NULL})]
    /\ pc \in [Threads -> Pcs]
    /\ call \in [Threads -> Calls]
    /\ scalar \in [Threads -> Scalars]
    /\ acc \in [Threads -> Scalars]
    /\ result \in [Threads -> Results]

Init ==
    /\ libPresent \in BOOLEAN
    /\ loaded = FALSE
    /\ instance = FALSE
    /\ sError = FALSE
    /\ sEnabled = TRUE
    /\ readers = {}
    /\ writer = NONE
    /\ monitor = NONE
    /\ live = {}
    /\ blind = [c \in Ctxs |-> 0]
    /\ initial = [c \in Ctxs |-> 0]
    /\ cap = [t \in Threads |-> 0]
    /\ staged = [t \in Threads |-> 0]
    /\ handles = [t \in Threads |-> {}]
    /\ pc = [t \in Threads |-> "idle"]
    /\ call = [t \in Threads |-> NoCall]
    /\ scalar = [t \in Threads |-> 0]
    /\ acc = [t \in Threads |-> 0]
    /\ result = [t \in Threads |-> NoResult]

Goto(t, l) == pc' = [pc EXCEPT ![t] = l]

\* Thread t leaves its method through location l with outcome r.
Give(t, r, l) == result' = [result EXCEPT ![t] = r] /\ Goto(t, l)

---------------------------------------------------------------------------
(* Loading the library.                                                    *)

BeginInit(t) ==
    /\ pc[t] = "idle"
    /\ call' = [call EXCEPT ![t] = [NoCall EXCEPT !.op = "init"]]
    /\ Goto(t, "init")
    /\ UNCHANGED <<linkVars, lockVars, heapVars, bufVars, handles, scalar,
                   acc, result>>

\* Mutant: INSTANCE is assigned before the library is loaded.
InitCheckAssignsFirst(t) ==
    /\ pc[t] = "init"
    /\ instance' = TRUE
    /\ Goto(t, IF instance THEN "return" ELSE "load")
    /\ UNCHANGED <<libPresent, loaded, sError, sEnabled, lockVars, heapVars,
                   bufVars, handles, locals, result>>

InitCheck(t) ==
    /\ pc[t] = "init"
    /\ Goto(t, IF instance THEN "return" ELSE "load")
    /\ UNCHANGED <<linkVars, lockVars, heapVars, bufVars, handles, locals,
                   result>>

\* Mutant: setEnabled(false) in a finally instead of the catch.
LoadDisablesAlways(t) ==
    /\ pc[t] = "load"
    /\ loaded' = (loaded \/ libPresent)
    /\ Goto(t, "disable")
    /\ UNCHANGED <<libPresent, instance, sError, sEnabled, lockVars,
                   heapVars, bufVars, handles, locals, result>>

Load(t) ==
    /\ pc[t] = "load"
    /\ loaded' = (loaded \/ libPresent)
    /\ Goto(t, IF libPresent THEN "instance" ELSE "disable")
    /\ UNCHANGED <<libPresent, instance, sError, sEnabled, lockVars,
                   heapVars, bufVars, handles, locals, result>>

\* The catch block: remember the error, setEnabled(false).
Disable(t) ==
    /\ pc[t] = "disable"
    /\ sError' = TRUE
    /\ sEnabled' = FALSE
    /\ Goto(t, "instance")
    /\ UNCHANGED <<libPresent, loaded, instance, lockVars, heapVars,
                   bufVars, handles, locals, result>>

SetInstance(t) ==
    /\ pc[t] = "instance"
    /\ instance' = TRUE
    /\ Goto(t, "return")
    /\ UNCHANGED <<libPresent, loaded, sError, sEnabled, lockVars, heapVars,
                   bufVars, handles, locals, result>>

---------------------------------------------------------------------------
(* contextCreate takes no lock.                                            *)

\* Addresses malloc may return: neither allocated nor about to be.
FreeAddresses == Ctxs \ (live \cup {call[u].dst : u \in Threads})

BeginCreate(t) ==
    /\ pc[t] = "idle"
    /\ \E d \in FreeAddresses :
          call' = [call EXCEPT ![t] =
                      [NoCall EXCEPT !.op = "contextCreate", !.dst = d]]
    /\ Goto(t, "create")
    /\ UNCHANGED <<linkVars, lockVars, heapVars, bufVars, handles, scalar,
                   acc, result>>

CreateDisabled(t) ==
    /\ pc[t] = "create"
    /\ ~sEnabled
    /\ handles' = [handles EXCEPT ![t] = @ \cup {NULL}]
    /\ Give(t, Outcome("value"), "return")
    /\ UNCHANGED <<linkVars, lockVars, heapVars, bufVars, locals>>

CreateEnabled(t) ==
    /\ pc[t] = "create"
    /\ sEnabled
    /\ Goto(t, "alloc")
    /\ UNCHANGED <<linkVars, lockVars, heapVars, bufVars, handles, locals,
                   result>>

CreateUnlinked(t) ==
    /\ pc[t] = "alloc"
    /\ ~loaded
    /\ Give(t, Outcome("UnsatisfiedLink"), "return")
    /\ UNCHANGED <<linkVars, lockVars, heapVars, bufVars, handles, locals>>

CreateContext(t) ==
    LET d == call[t].dst IN
    /\ pc[t] = "alloc"
    /\ loaded
    /\ live' = live \cup {d}
    /\ blind' = [blind EXCEPT ![d] = BuiltBlind]
    /\ initial' = [initial EXCEPT ![d] = BuiltInitial]
    /\ handles' = [handles EXCEPT ![t] = @ \cup {d}]
    /\ Give(t, Outcome("value"), "return")
    /\ UNCHANGED <<linkVars, lockVars, bufVars, locals>>

---------------------------------------------------------------------------
(* The locked methods.                                                     *)

\* A client calls a method on a context it holds.  It cleans a context up
\* once, when no thread will use it any more ("at the end of the program").
Begin(t) ==
    /\ pc[t] = "idle"
    /\ \E q \in Requests, c \in handles[t], k \in SecretKeys,
          d \in FreeAddresses \cup {NULL} :
          /\ q.op \notin GenOps => k = 0
          /\ (d = NULL) <=> (q.op # "cloneContext")
          /\ q.op = "contextCleanup" /\ c # NULL
                => \A u \in Threads \ {t} : c \notin handles[u]
          /\ call' = [call EXCEPT ![t] = [op |-> q.op, ctx |-> c,
                                          len |-> q.len, key |-> k,
                                          dst |-> d]]
          /\ handles' = IF q.op = "contextCleanup"
                        THEN [handles EXCEPT ![t] = @ \ {c}] ELSE handles
          /\ Goto(t, CASE q.op \in SyncOps -> "monitor"
                       [] q.op = "cloneContext" -> "lock"
                       [] OTHER -> "stage")
    /\ UNCHANGED <<linkVars, lockVars, heapVars, bufVars, scalar, acc,
                   result>>

\* Entering a static synchronized method.
EnterMonitor(t) ==
    /\ pc[t] = "monitor"
    /\ monitor = NONE
    /\ monitor' = t
    /\ Goto(t, IF call[t].op = "randomize" THEN "stage" ELSE "lock")
    /\ UNCHANGED <<linkVars, readers, writer, heapVars, bufVars, handles,
                   locals, result>>

HasNull(len) == \E i \in 1 .. 3 : len[i] = NoArray

\* The check, in declaration order and up to the first part that fails,
\* takes the `.length' of a null array; or the copying does.
MeetsNull(op, len) ==
    \/ len[1] = NoArray
    \/ /\ op \in {"verify", "sign", "signRecoverable"}
       /\ len[1] = 32 /\ len[2] = NoArray
    \/ Accepts(op, len) /\ HasNull(len)

RejectCall(t) ==
    LET op == call[t].op  len == call[t].len IN
    /\ pc[t] = "stage"
    /\ \/ /\ MeetsNull(op, len)
          /\ Give(t, Outcome("NullPointer"), "return")
       \/ /\ ~MeetsNull(op, len) /\ ~Accepts(op, len)
          /\ Give(t, Outcome("IllegalArgument"), "return")
    /\ UNCHANGED <<linkVars, lockVars, heapVars, bufVars, handles, locals>>

\* The capacity of the thread's buffer once the method has made sure of it.
Ensured(t) ==
    LET m == MinCapacity(call[t].op, call[t].len) IN
    IF cap[t] = 0 \/ cap[t] < m THEN m ELSE cap[t]

Passes(t) == Accepts(call[t].op, call[t].len) /\ ~HasNull(call[t].len)

\* Get or allocate the buffer, rewind, put every argument.
StageCall(t) ==
    /\ pc[t] = "stage"
    /\ Passes(t)
    /\ Total(call[t].len) <= Ensured(t)
    /\ cap' = [cap EXCEPT ![t] = Ensured(t)]
    /\ staged' = [staged EXCEPT ![t] = Total(call[t].len)]
    /\ Goto(t, "lock")
    /\ UNCHANGED <<linkVars, lockVars, heapVars, handles, locals, result>>

\* A put that does not fit throws before copying anything of its array.
OverflowCall(t) ==
    /\ pc[t] = "stage"
    /\ Passes(t)
    /\ Total(call[t].len) > Ensured(t)
    /\ cap' = [cap EXCEPT ![t] = Ensured(t)]
    /\ Give(t, Outcome("BufferOverflow"), "return")
    /\ UNCHANGED <<linkVars, lockVars, heapVars, staged, handles, locals>>

LockRead(t) ==
    /\ pc[t] = "lock"
    /\ call[t].op \notin SyncOps
    /\ writer = NONE
    /\ readers' = readers \cup {t}
    /\ Goto(t, "native")
    /\ UNCHANGED <<linkVars, writer, monitor, heapVars, bufVars, handles,
                   locals, result>>

\* Mutant: the writers take the read lock.
LockWriteShared(t) ==
    /\ pc[t] = "lock"
    /\ call[t].op \in SyncOps
    /\ writer = NONE
    /\ readers' = readers \cup {t}
    /\ Goto(t, "native")
    /\ UNCHANGED <<linkVars, writer, monitor, heapVars, bufVars, handles,
                   locals, result>>

LockWrite(t) ==
    /\ pc[t] = "lock"
    /\ call[t].op \in SyncOps
    /\ writer = NONE /\ readers = {}
    /\ writer' = t
    /\ Goto(t, "native")
    /\ UNCHANGED <<linkVars, readers, monitor, heapVars, bufVars, handles,
                   locals, result>>

\* Mutant: no finally, an exception leaves the lock held.
UnlockUnlessThrown(t) ==
    /\ pc[t] = "unlock"
    /\ IF result[t].kind \in Thrown
       THEN UNCHANGED <<readers, writer>>
       ELSE /\ readers' = readers \ {t}
            /\ writer' = IF writer = t THEN NONE ELSE writer
    /\ Goto(t, "return")
    /\ UNCHANGED <<linkVars, monitor, heapVars, bufVars, handles, locals,
                   result>>

\* The finally block releases whichever lock the method took.
Unlock(t) ==
    /\ pc[t] = "unlock"
    /\ readers' = readers \ {t}
    /\ writer' = IF writer = t THEN NONE ELSE writer
    /\ Goto(t, "return")
    /\ UNCHANGED <<linkVars, monitor, heapVars, bufVars, handles, locals,
                   result>>

\* Leaving the method releases the monitor of a synchronized one.
Return(t) ==
    /\ pc[t] = "return"
    /\ monitor' = IF monitor = t THEN NONE ELSE monitor
    /\ call' = [call EXCEPT ![t] = NoCall]
    /\ scalar' = [scalar EXCEPT ![t] = 0]
    /\ acc' = [acc EXCEPT ![t] = 0]
    /\ staged' = [staged EXCEPT ![t] = 0]
    /\ Give(t, NoResult, "idle")
    /\ UNCHANGED <<linkVars, readers, writer, heapVars, cap, handles>>

---------------------------------------------------------------------------
(* Native code.                                                            *)

InNative(t) == pc[t] \in {"native", "native2"}

\* Thread t is about to run native code of a method in S on a context that
\* is there.
Runs(t, l, S) ==
    /\ pc[t] = l
    /\ loaded
    /\ call[t].op \in S
    /\ Derefs(call[t].op) => call[t].ctx \in live

NotLinked(t) ==
    /\ pc[t] = "native"
    /\ ~loaded
    /\ Give(t, Outcome("UnsatisfiedLink"), "unlock")
    /\ UNCHANGED <<linkVars, lockVars, heapVars, bufVars, handles, locals>>

InvalidKey(t) ==
    /\ Runs(t, "native", GenOps)
    /\ ~ValidKey(call[t].key)
    /\ Give(t, Outcome("invalid"), "unlock")
    /\ UNCHANGED <<linkVars, lockVars, heapVars, bufVars, handles, locals>>

\* ecmult_gen begins: it copies initial.  pubkey_create multiplies by the
\* secret key, signing by the nonce it settles on.
MultiplyStart(t) ==
    /\ Runs(t, "native", GenOps)
    /\ ValidKey(call[t].key)
    /\ \E n \in 1 .. N - 1 :
          /\ call[t].op = "computePubkey" => n = call[t].key
          /\ scalar' = [scalar EXCEPT ![t] = n]
    /\ acc' = [acc EXCEPT ![t] = initial[call[t].ctx]]
    /\ Goto(t, "native2")
    /\ UNCHANGED <<linkVars, lockVars, heapVars, bufVars, handles, call,
                   result>>

\* ... and ends: it reads blind and adds (n + blind)*G.
MultiplyEnd(t) ==
    /\ Runs(t, "native2", GenOps)
    /\ Give(t, [kind |-> "value",
                point |-> EcmultGen(acc[t], blind[call[t].ctx], scalar[t])],
            "unlock")
    /\ UNCHANGED <<linkVars, lockVars, heapVars, bufVars, handles, locals>>

\* The functions that read no member of the context another call changes.
Plain(t) ==
    /\ Runs(t, "native", PlainOps)
    /\ \E k \in {"value", Failure(call[t].op)} :
          Give(t, Outcome(k), "unlock")
    /\ UNCHANGED <<linkVars, lockVars, heapVars, bufVars, handles, locals>>

\* context_clone copies initial, then blind, to the new allocation.
CloneStart(t) ==
    /\ Runs(t, "native", {"cloneContext"})
    /\ acc' = [acc EXCEPT ![t] = initial[call[t].ctx]]
    /\ Goto(t, "native2")
    /\ UNCHANGED <<linkVars, lockVars, heapVars, bufVars, handles, call,
                   scalar, result>>

CloneEnd(t) ==
    LET d == call[t].dst IN
    /\ Runs(t, "native2", {"cloneContext"})
    /\ live' = live \cup {d}
    /\ initial' = [initial EXCEPT ![d] = acc[t]]
    /\ blind' = [blind EXCEPT ![d] = blind[call[t].ctx]]
    /\ handles' = [handles EXCEPT ![t] = @ \cup {d}]
    /\ Give(t, Outcome("value"), "unlock")
    /\ UNCHANGED <<linkVars, lockVars, bufVars, locals>>

\* ecmult_gen_blind with a seed: multiply the new scalar with the old pair
\* in place, store the new blind ...
RandomizeStart(t) ==
    LET c == call[t].ctx IN
    /\ Runs(t, "native", {"randomize"})
    /\ \E b \in 1 .. N - 1 :
          /\ acc' = [acc EXCEPT ![t] = BlindInitial(initial[c], blind[c], b)]
          /\ blind' = [blind EXCEPT ![c] = BlindScalar(b)]
    /\ Goto(t, "native2")
    /\ UNCHANGED <<linkVars, lockVars, live, initial, bufVars, handles,
                   call, scalar, result>>

\* ... then the new initial point.
RandomizeEnd(t) ==
    /\ Runs(t, "native2", {"randomize"})
    /\ initial' = [initial EXCEPT ![call[t].ctx] = acc[t]]
    /\ Give(t, Outcome("value"), "unlock")
    /\ UNCHANGED <<linkVars, lockVars, live, blind, bufVars, handles,
                   locals>>

\* context_destroy clears both members and frees; null is left alone.
Destroy(t) ==
    LET c == call[t].ctx IN
    /\ pc[t] = "native"
    /\ loaded
    /\ call[t].op = "contextCleanup"
    /\ c \in live \cup {NULL}
    /\ live' = live \ {c}
    /\ blind' = [d \in Ctxs |-> IF d = c THEN 0 ELSE blind[d]]
    /\ initial' = [d \in Ctxs |-> IF d = c THEN 0 ELSE initial[d]]
    /\ Give(t, Outcome("value"), "unlock")
    /\ UNCHANGED <<linkVars, lockVars, bufVars, handles, locals>>

---------------------------------------------------------------------------
(* Clients pass contexts to each other and forget them.                    *)

Share(t, u) ==
    /\ pc[t] = "idle"
    /\ \E c \in handles[t] :
          handles' = [handles EXCEPT ![u] = @ \cup {c}]
    /\ UNCHANGED <<linkVars, lockVars, heapVars, bufVars, pc, locals,
                   result>>

Forget(t) ==
    /\ pc[t] = "idle"
    /\ \E c \in handles[t] :
          handles' = [handles EXCEPT ![t] = @ \ {c}]
    /\ UNCHANGED <<linkVars, lockVars, heapVars, bufVars, pc, locals,
                   result>>

---------------------------------------------------------------------------
InitStep(t) == InitCheck(t) \/ Load(t) \/ Disable(t) \/ SetInstance(t)

CreateStep(t) ==
    CreateDisabled(t) \/ CreateEnabled(t) \/ CreateUnlinked(t)
    \/ CreateContext(t)

JavaStep(t) ==
    \/ EnterMonitor(t) \/ RejectCall(t) \/ StageCall(t) \/ OverflowCall(t)
    \/ LockRead(t) \/ LockWrite(t) \/ Unlock(t) \/ Return(t)

NativeStep(t) ==
    \/ NotLinked(t) \/ InvalidKey(t)
    \/ MultiplyStart(t) \/ MultiplyEnd(t) \/ Plain(t)
    \/ CloneStart(t) \/ CloneEnd(t)
    \/ RandomizeStart(t) \/ RandomizeEnd(t) \/ Destroy(t)

\* A step of a thread inside a method of the class.
Step(t) == InitStep(t) \/ CreateStep(t) \/ JavaStep(t) \/ NativeStep(t)

\* A step of a client outside.
Client(t) ==
    \/ BeginInit(t) \/ BeginCreate(t) \/ Begin(t)
    \/ \E u \in Threads \ {t} : Share(t, u)
    \/ Forget(t)

Next == \E t \in Threads : Step(t) \/ Client(t)

Spec == Init /\ [][Next]_vars

\* A running thread keeps being scheduled; lock handover is not fair (the
\* lock is built in its default, nonfair mode).
FairSpec == Spec /\ \A t \in Threads : WF_vars(Step(t))

---------------------------------------------------------------------------
(* Properties of the code.                                                 *)

\* Native code never follows a null or dangling context pointer: not when
\* init races contextCreate, when the library is missing, or when contexts
\* are cloned, shared and cleaned up by several threads.
\* Going further would be undefined; the model stops there.
ContextIsThere(t) ==
    \/ call[t].ctx \in live
    \/ call[t].op = "contextCleanup" /\ call[t].ctx = NULL

NoBadPointer ==
    \A t \in Threads :
        InNative(t) /\ loaded /\ Derefs(call[t].op) => ContextIsThere(t)

\* Whatever randomize, cloneContext and contextCleanup do meanwhile, and
\* however a context came to its blinding values, a generator
\* multiplication yields scalar * G: no call sees half of a re-blinding.
GenCorrect ==
    \A t \in Threads :
        call[t].op \in GenOps /\ result[t].kind = "value"
            => result[t].point = scalar[t]

\* Native code reads only bytes the call itself put in the buffer: nothing
\* beyond its end and nothing an earlier call of the thread left there,
\* although the buffer is reused, and replaced, by methods of other sizes.
\* The checks do not see to it (sign, the tweaks, createECDHSecret).
ReadsStaged ==
    \A t \in Threads :
        InNative(t) /\ loaded /\ call[t].op \in BufferOps
            => NativeReads(call[t].op, call[t].len) <= staged[t]

\* The arguments that may be shorter than native code, which finds what
\* follows them at a fixed place, takes them for.
Short(op, len) ==
    \/ op \in {"sign"} \cup TweakOps /\ len[2] < 32
    \/ op = "createECDHSecret" /\ len[1] < 32

\* With arguments of any length the checks let through, native code reads
\* bytes of an earlier call only in place of those missing from a short
\* secret or tweak, and beyond the end of the buffer only after a short
\* tweak, whatever methods used and replaced that buffer before
\* (NativeSecp256k1.nativeECDSABuffer, NativeSecp256k1.cpp).
StaleOnlyIfShort ==
    \A t \in Threads :
        LET op == call[t].op  len == call[t].len IN
        InNative(t) /\ loaded /\ op \in BufferOps
            => /\ staged[t] <= cap[t]
               /\ NativeReads(op, len) > staged[t] => Short(op, len)
               /\ NativeReads(op, len) > cap[t] => op \in TweakOps

\* Once some init has completed, sEnabled says whether the library is
\* loaded, however many threads went through the unsynchronized init.
EnabledMeansLoaded == instance => (sEnabled <=> loaded)

\* If clients stop making calls, every call that is under way returns,
\* through all locks, exceptions included: nobody is left waiting.
NoNewCalls ==
    <>[][\A t \in Threads : pc[t] = "idle" => pc'[t] = "idle"]_vars
CallsReturn == NoNewCalls => <>[](\A t \in Threads : pc[t] = "idle")

---------------------------------------------------------------------------
(* The inductive invariant behind NoBadPointer and GenCorrect.             *)

\* The library and what init has recorded about it.
LinkInv ==
    /\ loaded => libPresent
    /\ ~sEnabled => ~libPresent
    /\ \A t \in Threads : pc[t] = "disable" => ~libPresent
    /\ instance \/ (\E t \in Threads : pc[t] = "instance")
          => (loaded <=> libPresent) /\ (sEnabled <=> libPresent)

\* Where a thread is in a method says which method that is.
OpInv ==
    \A t \in Threads :
        LET op == call[t].op IN
        /\ pc[t] = "idle" => call[t] = NoCall /\ result[t] = NoResult
        /\ pc[t] \in {"init", "load", "disable", "instance"} => op = "init"
        /\ pc[t] \in {"create", "alloc"} => op = "contextCreate"
        /\ pc[t] = "monitor" => op \in SyncOps
        /\ pc[t] = "stage" => op \in BufferOps
        /\ pc[t] \in {"lock", "native", "unlock"} => op \in LockedOps
        /\ pc[t] = "native2"
              => op \in GenOps \cup {"cloneContext", "randomize"} /\ loaded
        /\ pc[t] \notin {"unlock", "return"} => result[t] = NoResult

\* Mutual exclusion: who holds a lock is where its method holds it, and a
\* writer is alone.
HoldsLock(t) == pc[t] \in {"native", "native2", "unlock"}
LockInv ==
    /\ \A t \in Threads :
          /\ t \in readers <=> HoldsLock(t) /\ call[t].op \notin SyncOps
          /\ t = writer <=> HoldsLock(t) /\ call[t].op \in SyncOps
    /\ writer # NONE => readers = {}

\* An address malloc is about to return is not in use, and is not returned
\* twice.
Allocating(t) ==
    /\ call[t].op \in {"contextCreate", "cloneContext"}
    /\ pc[t] \in {"create", "alloc", "lock", "native", "native2"}
AllocInv ==
    /\ \A t \in Threads :
          Allocating(t) => call[t].dst \in Ctxs /\ call[t].dst \notin live
    /\ \A t, u \in Threads :
          Allocating(t) /\ Allocating(u) /\ t # u
             => call[t].dst # call[u].dst

\* Clients hold live contexts; a call works on one its thread holds, a
\* pending contextCleanup on one nobody else does.
Cleaning(t) ==
    /\ call[t].op = "contextCleanup"
    /\ pc[t] \in {"monitor", "lock", "native"}
    /\ call[t].ctx # NULL
HandleInv ==
    /\ \A t \in Threads :
          /\ handles[t] \subseteq live \cup {NULL}
          /\ NULL \in handles[t] => ~libPresent
          /\ call[t].op \in LockedOps \ {"contextCleanup"}
                => call[t].ctx \in handles[t]
          /\ call[t].op = "contextCleanup" /\ call[t].ctx = NULL
                => ~libPresent
          /\ Cleaning(t) => /\ call[t].ctx \in live
                            /\ \A u \in Threads : call[t].ctx \notin handles[u]
    /\ \A t, u \in Threads :
          Cleaning(t) /\ Cleaning(u) /\ t # u => call[t].ctx # call[u].ctx

\* The pair of a context cancels out unless a randomize is half way, and
\* then it will; native code half way has copied the initial point of a
\* pair that has not changed since.
Rerandomizing(t) == pc[t] = "native2" /\ call[t].op = "randomize"
PairInv ==
    /\ \A c \in live :
          (\A t \in Threads : Rerandomizing(t) => call[t].ctx # c)
             => Consistent(initial[c], blind[c])
    /\ \A t \in Threads :
          /\ Rerandomizing(t) => Consistent(acc[t], blind[call[t].ctx])
          /\ pc[t] = "native2" /\ call[t].op # "randomize"
                => acc[t] = initial[call[t].ctx]

IInv ==
    /\ TypeOK
    /\ LinkInv /\ OpInv /\ LockInv /\ AllocInv /\ HandleInv /\ PairInv
    /\ GenCorrect

\* What StageCall establishes lasts until native code is done.
StageInv ==
    \A t \in Threads :
        LET op == call[t].op  len == call[t].len IN
        pc[t] \in {"lock", "native", "native2"} /\ op \in BufferOps
            => /\ Passes(t)
               /\ staged[t] = Total(len)
               /\ staged[t] <= cap[t]
               /\ MinCapacity(op, len) <= cap[t]

---------------------------------------------------------------------------
(* The atomic service this class implements.                               *)

serviceRequest ==
    [t \in Threads |->
        IF call[t].op \in {"none", "init"}
        THEN [op |-> "none", ctx |-> NULL, key |-> 0]
        ELSE [op |-> call[t].op, ctx |-> call[t].ctx, key |-> call[t].key]]

Service == INSTANCE CurveService
           WITH contexts <- live, request <- serviceRequest,
                answer <- result

\* Every call appears to its client to happen at once and alone, answered
\* as the key alone demands: locks, blinding, loading and the order in
\* which native code touches memory cannot be seen from outside.
ImplementsService == Service!Spec

===========================================================================
