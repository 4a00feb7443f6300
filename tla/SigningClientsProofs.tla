------------------------ MODULE SigningClientsProofs ------------------------
(***************************************************************************)
(* Proofs about the class and its clients, for every number of threads and *)
(* contexts and every group order.  First NativeSecp256k1 by itself: its   *)
(* invariants and that it implements CurveService.  Then SigningClients:   *)
(* the clients keep to what the class needs of them, leave no context      *)
(* behind and never sign with a key that is none.                          *)
(***************************************************************************)
EXTENDS SigningClients, TLAPS

---------------------------------------------------------------------------
(* The arithmetic of the blinding pair.                                    *)

\* Scalar arithmetic stays in range.
LEMMA ScalarClosed ==
    ASSUME NEW a \in Scalars, NEW b \in Scalars
    PROVE  Add(a, b) \in Scalars /\ Neg(a) \in Scalars
BY OrderAssumption DEF Scalars, Add, Neg

\* ecmult_gen with a consistent pair is multiplication by the scalar.
LEMMA MultiplicationCorrect ==
    ASSUME NEW i \in Scalars, NEW b \in Scalars, NEW n \in Scalars,
           Consistent(i, b)
    PROVE  EcmultGen(i, b, n) = n
BY OrderAssumption DEF Scalars, Add, Consistent, EcmultGen

\* ecmult_gen_blind turns a consistent pair into a consistent pair.
LEMMA BlindingConsistent ==
    ASSUME NEW i \in Scalars, NEW b \in Scalars, NEW n \in 1 .. N - 1,
           Consistent(i, b)
    PROVE  /\ BlindInitial(i, b, n) \in Scalars
           /\ BlindScalar(n) \in Scalars
           /\ Consistent(BlindInitial(i, b, n), BlindScalar(n))
<1>1. n \in Scalars
  BY OrderAssumption DEF Scalars
<1>2. BlindInitial(i, b, n) = n
  BY <1>1, MultiplicationCorrect DEF BlindInitial
<1>3. Consistent(n, Neg(n))
  BY OrderAssumption DEF Consistent, Add, Neg
<1>4. QED
  BY <1>1, <1>2, <1>3, ScalarClosed DEF BlindScalar

\* A context is built with a consistent pair.
LEMMA BuiltConsistent ==
    /\ BuiltInitial \in Scalars
    /\ BuiltBlind \in Scalars
    /\ Consistent(BuiltInitial, BuiltBlind)
<1>1. 1 \in Scalars /\ Neg(1) \in Scalars /\ Consistent(Neg(1), 1)
  BY OrderAssumption DEF Scalars, Neg, Consistent, Add
<1>2. QED
  BY <1>1, BlindingConsistent, BuildBlindAssumption
     DEF BuiltInitial, BuiltBlind

---------------------------------------------------------------------------
(* The inductive invariant.                                                *)

\* The values locals are reset to have their types.
LEMMA DefaultTypes ==
    /\ 0 \in Scalars
    /\ NoCall \in Calls
    /\ NoResult \in Results
    /\ \A k \in Kinds : Outcome(k) \in Results
<1>1. 0 \in Scalars /\ 0 \in SecretKeys /\ NoLength \in Lengths
  BY OrderAssumption DEF Scalars, SecretKeys, NoLength, Lengths
<1>2. QED
  BY <1>1 DEF NoCall, Calls, Ops, NoResult, Results, Kinds, Outcome

\* What clients may ask for has its type.
LEMMA RequestTypes ==
    ASSUME NEW q \in Requests
    PROVE  q.op \in LockedOps /\ q.len \in Lengths
BY RequestsAssumption

\* The arithmetic of staging yields sizes.
LEMMA StagedTypes ==
    ASSUME IInv, NEW t \in Threads, pc[t] = "stage", Passes(t)
    PROVE  Total(call[t].len) \in Nat /\ Ensured(t) \in Nat
<1>1. call[t].len \in Lengths /\ cap[t] \in Nat
  BY DEF IInv, TypeOK, Calls
<1>2. \A i \in 1 .. 3 : call[t].len[i] \in Nat
  BY <1>1 DEF Passes, HasNull, Lengths, NoArray
<1>3. Total(call[t].len) \in Nat
  BY <1>2 DEF Total
<1>4. MinCapacity(call[t].op, call[t].len) \in Nat
  BY <1>2 DEF MinCapacity
<1>5. QED
  BY <1>1, <1>3, <1>4 DEF Ensured

LEMMA InitInv == Init => IInv
<1> SUFFICES ASSUME Init PROVE IInv
  OBVIOUS
<1>1. TypeOK
  BY DefaultTypes DEF Init, TypeOK, Pcs
<1>2. QED
  BY <1>1, NoneAssumption, NullAssumption
     DEF Init, IInv, LinkInv, OpInv, LockInv, HoldsLock, AllocInv,
         Allocating, HandleInv, Cleaning, PairInv, Rerandomizing,
         GenCorrect, NoCall, NoResult, GenOps, LockedOps, BufferOps,
         PlainOps, TweakOps, SyncOps

\* A thread that holds w is the only one that holds a lock.
LEMMA Alone ==
    ASSUME IInv, NEW t \in Threads, NEW u \in Threads,
           HoldsLock(t), HoldsLock(u), t # u
    PROVE  call[t].op \notin SyncOps
BY NoneAssumption DEF IInv, LockInv

\* While a thread holds a lock and has not stored half a pair itself, every
\* context has a consistent pair.
LEMMA RestingPair ==
    ASSUME IInv, NEW t \in Threads, HoldsLock(t), ~Rerandomizing(t),
           NEW c \in live
    PROVE  Consistent(initial[c], blind[c])
<1>1. \A u \in Threads : ~Rerandomizing(u)
  BY Alone DEF Rerandomizing, HoldsLock, SyncOps
<1>2. QED
  BY <1>1 DEF IInv, PairInv

\* Native code that goes through its context finds it allocated.
LEMMA ContextAllocated ==
    ASSUME IInv, NEW t \in Threads, InNative(t), loaded,
           call[t].op # "contextCleanup"
    PROVE  call[t].ctx \in live
<1>1. call[t].op \in LockedOps \ {"contextCleanup"}
  BY DEF IInv, OpInv, InNative, LockedOps, BufferOps, GenOps
<1>2. QED
  BY <1>1 DEF IInv, HandleInv, LinkInv

\* init preserves the invariant.
LEMMA LoadingStep ==
    ASSUME IInv, NEW t \in Threads, InitStep(t)
    PROVE  IInv'
<1>1. CASE InitCheck(t)
  <2> USE <1>1 DEF InitCheck, Goto
  <2>1. LinkInv' /\ OpInv' /\ LockInv' /\ AllocInv' /\ HandleInv'
        /\ PairInv' /\ GenCorrect'
    BY DEF IInv, LinkInv, linkVars, OpInv, locals, LockInv, HoldsLock,
       lockVars, AllocInv, Allocating, heapVars, HandleInv, Cleaning,
       PairInv, Rerandomizing, GenCorrect
  <2>2. TypeOK'
    BY DefaultTypes DEF IInv, TypeOK, Pcs, linkVars, lockVars, heapVars,
       bufVars, locals
  <2>3. QED
    BY <2>1, <2>2 DEF IInv
<1>2. CASE Load(t)
  <2> USE <1>2 DEF Load, Goto
  <2>1. LinkInv' /\ OpInv' /\ LockInv' /\ AllocInv' /\ HandleInv'
        /\ PairInv' /\ GenCorrect'
    BY DEF IInv, TypeOK, LinkInv, OpInv, locals, LockInv, HoldsLock,
       lockVars, AllocInv, Allocating, heapVars, HandleInv, Cleaning,
       PairInv, Rerandomizing, GenCorrect
  <2>2. TypeOK'
    BY DefaultTypes DEF IInv, TypeOK, Pcs, lockVars, heapVars, bufVars,
       locals
  <2>3. QED
    BY <2>1, <2>2 DEF IInv
<1>3. CASE Disable(t)
  <2> USE <1>3 DEF Disable, Goto
  <2>1. LinkInv' /\ OpInv' /\ LockInv' /\ AllocInv' /\ HandleInv'
        /\ PairInv' /\ GenCorrect'
    BY DEF IInv, LinkInv, OpInv, locals, LockInv, HoldsLock, lockVars,
       AllocInv, Allocating, heapVars, HandleInv, Cleaning, PairInv,
       Rerandomizing, GenCorrect
  <2>2. TypeOK'
    BY DefaultTypes DEF IInv, TypeOK, Pcs, lockVars, heapVars, bufVars,
       locals
  <2>3. QED
    BY <2>1, <2>2 DEF IInv
<1>4. CASE SetInstance(t)
  <2> USE <1>4 DEF SetInstance, Goto
  <2>1. LinkInv' /\ OpInv' /\ LockInv' /\ AllocInv' /\ HandleInv'
        /\ PairInv' /\ GenCorrect'
    BY DEF IInv, LinkInv, OpInv, locals, LockInv, HoldsLock, lockVars,
       AllocInv, Allocating, heapVars, HandleInv, Cleaning, PairInv,
       Rerandomizing, GenCorrect
  <2>2. TypeOK'
    BY DefaultTypes DEF IInv, TypeOK, Pcs, lockVars, heapVars, bufVars,
       locals
  <2>3. QED
    BY <2>1, <2>2 DEF IInv
<1>5. QED
  BY <1>1, <1>2, <1>3, <1>4 DEF InitStep

\* contextCreate preserves it.
LEMMA CreateStepInv ==
    ASSUME IInv, NEW t \in Threads, CreateStep(t)
    PROVE  IInv'
<1>1. CASE CreateDisabled(t)
  <2> USE <1>1 DEF CreateDisabled, Goto, Give
  <2>1. LinkInv' /\ OpInv' /\ LockInv' /\ AllocInv' /\ PairInv'
    BY DEF IInv, LinkInv, linkVars, TypeOK, OpInv, locals, LockInv,
       HoldsLock, lockVars, AllocInv, Allocating, heapVars, PairInv,
       Rerandomizing
  <2>2. TypeOK'
    BY DefaultTypes DEF IInv, TypeOK, Pcs, Kinds, Thrown, linkVars,
       lockVars, heapVars, bufVars, locals
  <2>3. HandleInv'
    BY NullAssumption DEF IInv, TypeOK, HandleInv, Cleaning, OpInv, LinkInv,
       linkVars, heapVars, locals
  <2>4. GenCorrect'
    BY DEF IInv, TypeOK, GenCorrect, OpInv, Outcome, NoCall, NoResult,
       GenOps, LockedOps, BufferOps, PlainOps, TweakOps, SyncOps, Ops,
       locals
  <2>5. QED
    BY <2>1, <2>2, <2>3, <2>4 DEF IInv
<1>2. CASE CreateEnabled(t)
  <2> USE <1>2 DEF CreateEnabled, Goto
  <2>1. LinkInv' /\ OpInv' /\ LockInv' /\ AllocInv' /\ HandleInv'
        /\ PairInv' /\ GenCorrect'
    BY DEF IInv, LinkInv, linkVars, OpInv, locals, LockInv, HoldsLock,
       lockVars, AllocInv, Allocating, heapVars, HandleInv, Cleaning,
       PairInv, Rerandomizing, GenCorrect
  <2>2. TypeOK'
    BY DefaultTypes DEF IInv, TypeOK, Pcs, linkVars, lockVars, heapVars,
       bufVars, locals
  <2>3. QED
    BY <2>1, <2>2 DEF IInv
<1>3. CASE CreateUnlinked(t)
  <2> USE <1>3 DEF CreateUnlinked, Goto, Give
  <2>1. LinkInv' /\ OpInv' /\ LockInv' /\ AllocInv' /\ HandleInv' /\ PairInv'
    BY DEF IInv, LinkInv, linkVars, TypeOK, OpInv, locals, LockInv,
       HoldsLock, lockVars, AllocInv, Allocating, heapVars, HandleInv,
       Cleaning, PairInv, Rerandomizing
  <2>2. TypeOK'
    BY DefaultTypes DEF IInv, TypeOK, Pcs, Kinds, Thrown, linkVars,
       lockVars, heapVars, bufVars, locals
  <2>3. GenCorrect'
    BY DEF IInv, TypeOK, GenCorrect, OpInv, Outcome, NoCall, NoResult,
       locals
  <2>4. QED
    BY <2>1, <2>2, <2>3 DEF IInv
<1>4. CASE CreateContext(t)
  <2> USE <1>4 DEF CreateContext, Goto, Give
  <2>1. LinkInv' /\ OpInv' /\ LockInv'
    BY DEF IInv, LinkInv, linkVars, TypeOK, OpInv, locals, LockInv,
       HoldsLock, lockVars
  <2>2. TypeOK'
    BY DefaultTypes, BuiltConsistent DEF IInv, TypeOK, Pcs, Kinds, Thrown,
       AllocInv, Allocating, OpInv, linkVars, lockVars, bufVars, locals
  <2>3. AllocInv'
    BY DEF IInv, TypeOK, AllocInv, Allocating, OpInv, locals
  <2>4. HandleInv'
    BY NullAssumption DEF IInv, TypeOK, HandleInv, Cleaning, AllocInv,
       Allocating, OpInv, LinkInv, linkVars, locals
  <2>5. PairInv'
    <3> DEFINE d == call[t].dst
    <3>1. d \in Ctxs /\ d \notin live
      BY DEF IInv, AllocInv, Allocating, OpInv
    <3>2. /\ pc' = [pc EXCEPT ![t] = "return"] /\ UNCHANGED <<call, acc>>
          /\ live' = live \cup {d}
          /\ blind' = [blind EXCEPT ![d] = BuiltBlind]
          /\ initial' = [initial EXCEPT ![d] = BuiltInitial]
      BY DEF locals
    <3>3. /\ pc'[t] = "return" /\ \A u \in Threads \ {t} : pc'[u] = pc[u]
          /\ blind'[d] = BuiltBlind /\ initial'[d] = BuiltInitial
          /\ \A c \in Ctxs \ {d} : blind'[c] = blind[c] /\ initial'[c] = initial[c]
      BY <3>1, <3>2 DEF IInv, TypeOK
    <3>4. live \subseteq Ctxs /\ pc[t] = "alloc"
      BY DEF IInv, TypeOK
    <3> HIDE DEF d
    <3>5. ASSUME NEW u \in Threads, pc[u] = "native2" PROVE call[u].ctx \in live
      <4>1. call[u].op \in LockedOps \ {"contextCleanup"} /\ libPresent
        BY <3>5 DEF IInv, OpInv, LinkInv, LockedOps, BufferOps, PlainOps, GenOps,
           TweakOps, SyncOps
      <4>2. call[u].ctx \in handles[u] /\ NULL \notin handles[u]
        BY <4>1 DEF IInv, HandleInv
      <4>3. QED
        BY <4>2 DEF IInv, HandleInv
    <3>6. \A u \in Threads : pc'[u] = "native2" => u # t /\ pc[u] = "native2"
      BY <3>3
    <3>7. \A u \in Threads : Rerandomizing(u)' <=> Rerandomizing(u)
      BY <3>2, <3>3, <3>4 DEF Rerandomizing
    <3>8. ASSUME NEW c \in live',
                 \A u \in Threads : Rerandomizing(u)' => call[u].ctx # c
          PROVE  Consistent(initial'[c], blind'[c])
      <4>1. CASE c = d
        BY <3>3, <4>1, BuiltConsistent
      <4>2. CASE c # d
        BY <3>2, <3>3, <3>4, <3>7, <3>8, <4>2 DEF IInv, PairInv
      <4>3. QED
        BY <4>1, <4>2
    <3>9. ASSUME NEW u \in Threads
          PROVE  /\ Rerandomizing(u)' => Consistent(acc[u], blind'[call[u].ctx])
                 /\ pc'[u] = "native2" /\ call[u].op # "randomize"
                       => acc[u] = initial'[call[u].ctx]
      <4>1. pc'[u] = "native2" => /\ blind'[call[u].ctx] = blind[call[u].ctx]
                                  /\ initial'[call[u].ctx] = initial[call[u].ctx]
        BY <3>1, <3>3, <3>4, <3>5, <3>6
      <4>2. Rerandomizing(u) => pc'[u] = "native2"
        BY <3>3, <3>4 DEF Rerandomizing
      <4>3. QED
        BY <3>6, <3>7, <4>1, <4>2 DEF IInv, PairInv
    <3>10. QED
      BY <3>2, <3>8, <3>9 DEF PairInv
  <2>6. GenCorrect'
    BY DEF IInv, TypeOK, GenCorrect, OpInv, Outcome, NoCall, NoResult,
       GenOps, LockedOps, BufferOps, PlainOps, TweakOps, SyncOps, Ops,
       locals
  <2>7. QED
    BY <2>1, <2>2, <2>3, <2>4, <2>5, <2>6 DEF IInv
<1>5. QED
  BY <1>1, <1>2, <1>3, <1>4 DEF CreateStep

\* Staging, locking and returning preserve it.
LEMMA JavaStepInv ==
    ASSUME IInv, NEW t \in Threads, JavaStep(t)
    PROVE  IInv'
<1>1. CASE EnterMonitor(t)
  <2> USE <1>1 DEF EnterMonitor, Goto
  <2>1. LinkInv' /\ LockInv' /\ HandleInv' /\ PairInv' /\ GenCorrect'
    BY DEF IInv, LinkInv, linkVars, LockInv, HoldsLock, locals, HandleInv,
       Cleaning, heapVars, PairInv, Rerandomizing, GenCorrect
  <2>2. TypeOK'
    BY DefaultTypes DEF IInv, TypeOK, Pcs, linkVars, heapVars, bufVars,
       locals
  <2>3. OpInv'
    BY DEF IInv, TypeOK, OpInv, Outcome, NoCall, NoResult, GenOps,
       LockedOps, BufferOps, PlainOps, TweakOps, SyncOps, Ops, linkVars,
       locals
  <2>4. AllocInv'
    BY DEF IInv, TypeOK, AllocInv, Allocating, OpInv, NoCall, NoResult,
       GenOps, LockedOps, BufferOps, PlainOps, TweakOps, SyncOps, Ops,
       heapVars, locals
  <2>5. QED
    BY <2>1, <2>2, <2>3, <2>4 DEF IInv
<1>2. CASE RejectCall(t)
  <2> USE <1>2 DEF RejectCall, Goto, Give
  <2>1. LinkInv' /\ OpInv' /\ LockInv' /\ AllocInv' /\ HandleInv' /\ PairInv'
    BY DEF IInv, TypeOK, LinkInv, linkVars, OpInv, locals, LockInv,
       HoldsLock, lockVars, AllocInv, Allocating, heapVars, HandleInv,
       Cleaning, PairInv, Rerandomizing
  <2>2. TypeOK'
    BY DefaultTypes DEF IInv, TypeOK, Pcs, Kinds, Thrown, linkVars,
       lockVars, heapVars, bufVars, locals
  <2>3. GenCorrect'
    BY DEF IInv, TypeOK, GenCorrect, OpInv, Outcome, NoCall, NoResult,
       locals
  <2>4. QED
    BY <2>1, <2>2, <2>3 DEF IInv
<1>3. CASE StageCall(t)
  <2> USE <1>3 DEF StageCall, Goto
  <2>1. LinkInv' /\ LockInv' /\ PairInv' /\ GenCorrect'
    BY DEF IInv, LinkInv, linkVars, LockInv, HoldsLock, lockVars, locals,
       PairInv, Rerandomizing, heapVars, GenCorrect
  <2>2. TypeOK'
    BY StagedTypes DEF IInv, TypeOK, Pcs, linkVars, lockVars, heapVars,
       locals
  <2>3. OpInv'
    BY DEF IInv, TypeOK, OpInv, Outcome, NoCall, NoResult, GenOps,
       LockedOps, BufferOps, PlainOps, TweakOps, SyncOps, Ops, linkVars,
       locals
  <2>4. AllocInv'
    BY DEF IInv, TypeOK, AllocInv, Allocating, OpInv, NoCall, NoResult,
       GenOps, LockedOps, BufferOps, PlainOps, TweakOps, SyncOps, Ops,
       heapVars, locals
  <2>5. HandleInv'
    BY DEF IInv, TypeOK, HandleInv, Cleaning, OpInv, NoCall, NoResult,
       GenOps, LockedOps, BufferOps, PlainOps, TweakOps, SyncOps, Ops,
       linkVars, heapVars, locals
  <2>6. QED
    BY <2>1, <2>2, <2>3, <2>4, <2>5 DEF IInv
<1>4. CASE OverflowCall(t)
  <2> USE <1>4 DEF OverflowCall, Goto, Give
  <2>1. LinkInv' /\ OpInv' /\ LockInv' /\ AllocInv' /\ HandleInv' /\ PairInv'
    BY DEF IInv, LinkInv, linkVars, TypeOK, OpInv, locals, LockInv,
       HoldsLock, lockVars, AllocInv, Allocating, heapVars, HandleInv,
       Cleaning, PairInv, Rerandomizing
  <2>2. TypeOK'
    BY DefaultTypes, StagedTypes DEF IInv, TypeOK, Pcs, Kinds, Thrown,
       linkVars, lockVars, heapVars, locals
  <2>3. GenCorrect'
    BY DEF IInv, TypeOK, GenCorrect, OpInv, Outcome, NoCall, NoResult,
       locals
  <2>4. QED
    BY <2>1, <2>2, <2>3 DEF IInv
<1>5. CASE LockRead(t)
  <2> USE <1>5 DEF LockRead, Goto
  <2>1. LinkInv' /\ OpInv' /\ LockInv' /\ AllocInv' /\ HandleInv'
        /\ PairInv' /\ GenCorrect'
    BY DEF IInv, LinkInv, linkVars, OpInv, locals, TypeOK, LockInv,
       HoldsLock, AllocInv, Allocating, heapVars, HandleInv, Cleaning,
       PairInv, Rerandomizing, GenCorrect
  <2>2. TypeOK'
    BY DefaultTypes DEF IInv, TypeOK, Pcs, linkVars, heapVars, bufVars,
       locals
  <2>3. QED
    BY <2>1, <2>2 DEF IInv
<1>6. CASE LockWrite(t)
  <2> USE <1>6 DEF LockWrite, Goto
  <2>1. LinkInv' /\ OpInv' /\ AllocInv' /\ HandleInv' /\ PairInv' /\ GenCorrect'
    BY DEF IInv, LinkInv, linkVars, OpInv, locals, AllocInv, Allocating,
       heapVars, HandleInv, Cleaning, PairInv, Rerandomizing, GenCorrect
  <2>2. TypeOK'
    BY DefaultTypes DEF IInv, TypeOK, Pcs, linkVars, heapVars, bufVars,
       locals
  <2>3. LockInv'
    BY NoneAssumption DEF IInv, TypeOK, LockInv, HoldsLock, OpInv, locals
  <2>4. QED
    BY <2>1, <2>2, <2>3 DEF IInv
<1>7. CASE Unlock(t)
  <2> USE <1>7 DEF Unlock, Goto
  <2>1. LinkInv' /\ OpInv' /\ AllocInv' /\ HandleInv' /\ PairInv' /\ GenCorrect'
    BY DEF IInv, LinkInv, linkVars, OpInv, locals, AllocInv, Allocating,
       heapVars, HandleInv, Cleaning, PairInv, Rerandomizing, GenCorrect
  <2>2. TypeOK'
    BY DefaultTypes DEF IInv, TypeOK, Pcs, linkVars, heapVars, bufVars,
       locals
  <2>3. LockInv'
    BY NoneAssumption DEF IInv, TypeOK, LockInv, HoldsLock, OpInv, locals
  <2>4. QED
    BY <2>1, <2>2, <2>3 DEF IInv
<1>8. CASE Return(t)
  <2> USE <1>8 DEF Return, Goto, Give
  <2>1. LinkInv' /\ OpInv' /\ LockInv' /\ AllocInv' /\ PairInv'
    BY DEF IInv, LinkInv, linkVars, TypeOK, OpInv, LockInv, HoldsLock,
       AllocInv, Allocating, heapVars, PairInv, Rerandomizing
  <2>2. TypeOK'
    BY DefaultTypes DEF IInv, TypeOK, Pcs, linkVars, heapVars
  <2>3. HandleInv'
    BY DEF IInv, TypeOK, HandleInv, Cleaning, OpInv, NoCall, NoResult,
       GenOps, LockedOps, BufferOps, PlainOps, TweakOps, SyncOps, Ops,
       linkVars, heapVars
  <2>4. GenCorrect'
    BY DEF IInv, TypeOK, GenCorrect, OpInv, Outcome, NoCall, NoResult
  <2>5. QED
    BY <2>1, <2>2, <2>3, <2>4 DEF IInv
<1>9. QED
  BY <1>1, <1>2, <1>3, <1>4, <1>5, <1>6, <1>7, <1>8 DEF JavaStep

\* Native code preserves it.
LEMMA NativeStepInv ==
    ASSUME IInv, NEW t \in Threads, NativeStep(t)
    PROVE  IInv'
<1>1. CASE NotLinked(t)
  <2> USE <1>1 DEF NotLinked, Goto, Give
  <2>1. LinkInv' /\ OpInv' /\ LockInv' /\ AllocInv' /\ HandleInv' /\ PairInv'
    BY DEF IInv, LinkInv, linkVars, TypeOK, OpInv, locals, LockInv,
       HoldsLock, lockVars, AllocInv, Allocating, heapVars, HandleInv,
       Cleaning, PairInv, Rerandomizing
  <2>2. TypeOK'
    BY DefaultTypes DEF IInv, TypeOK, Pcs, Kinds, Thrown, linkVars,
       lockVars, heapVars, bufVars, locals
  <2>3. GenCorrect'
    BY DEF IInv, TypeOK, GenCorrect, OpInv, Outcome, NoCall, NoResult,
       locals
  <2>4. QED
    BY <2>1, <2>2, <2>3 DEF IInv
<1>2. CASE InvalidKey(t)
  <2> USE <1>2 DEF InvalidKey, Goto, Give, Runs
  <2>1. LinkInv' /\ OpInv' /\ LockInv' /\ AllocInv' /\ HandleInv' /\ PairInv'
    BY DEF IInv, LinkInv, linkVars, TypeOK, OpInv, locals, LockInv,
       HoldsLock, lockVars, AllocInv, Allocating, heapVars, HandleInv,
       Cleaning, PairInv, Rerandomizing
  <2>2. TypeOK'
    BY DefaultTypes DEF IInv, TypeOK, Pcs, Kinds, Thrown, linkVars,
       lockVars, heapVars, bufVars, locals
  <2>3. GenCorrect'
    BY DEF IInv, TypeOK, GenCorrect, OpInv, Outcome, NoCall, NoResult,
       locals
  <2>4. QED
    BY <2>1, <2>2, <2>3 DEF IInv
<1>3. CASE MultiplyStart(t)
  <2> USE <1>3 DEF MultiplyStart, Goto, Runs
  <2>1. LinkInv' /\ OpInv' /\ LockInv' /\ AllocInv' /\ HandleInv'
    BY DEF IInv, LinkInv, linkVars, OpInv, LockInv, HoldsLock, lockVars,
       AllocInv, Allocating, heapVars, HandleInv, Cleaning
  <2>2. TypeOK'
    <3>1. call[t].ctx \in Ctxs
      BY DEF IInv, TypeOK, Derefs, GenOps
    <3>2. 1 .. N - 1 \subseteq Scalars
      BY OrderAssumption DEF Scalars
    <3>3. QED
      BY <3>1, <3>2 DEF IInv, TypeOK, Pcs, linkVars, lockVars, heapVars,
         bufVars
  <2>3. PairInv'
    BY DEF IInv, TypeOK, PairInv, Rerandomizing, OpInv, NoCall, NoResult,
       GenOps, LockedOps, BufferOps, PlainOps, TweakOps, SyncOps, Ops,
       heapVars
  <2>4. GenCorrect'
    BY DEF IInv, TypeOK, GenCorrect, OpInv, Outcome, NoCall, NoResult
  <2>5. QED
    BY <2>1, <2>2, <2>3, <2>4 DEF IInv
<1>4. CASE MultiplyEnd(t)
  <2> USE <1>4 DEF MultiplyEnd, Goto, Give, Runs
  <2>1. LinkInv' /\ LockInv' /\ AllocInv' /\ HandleInv'
    BY DEF IInv, LinkInv, linkVars, LockInv, HoldsLock, lockVars, locals,
       AllocInv, Allocating, heapVars, HandleInv, Cleaning
  <2>2. TypeOK'
    <3>1. call[t].ctx \in Ctxs
      BY DEF IInv, TypeOK, Derefs, GenOps
    <3>2. EcmultGen(acc[t], blind[call[t].ctx], scalar[t]) \in Scalars
      BY <3>1, ScalarClosed DEF IInv, TypeOK, EcmultGen
    <3>3. QED
      BY <3>2 DEF IInv, TypeOK, Kinds, Pcs, Results, linkVars, lockVars,
         heapVars, bufVars, locals
  <2>3. OpInv'
    BY DEF IInv, TypeOK, OpInv, Outcome, NoCall, NoResult, GenOps,
       LockedOps, BufferOps, PlainOps, TweakOps, SyncOps, Ops, linkVars,
       locals
  <2>4. PairInv'
    BY DEF IInv, TypeOK, PairInv, Rerandomizing, OpInv, NoCall, NoResult,
       GenOps, LockedOps, BufferOps, PlainOps, TweakOps, SyncOps, Ops,
       heapVars, locals
  <2>5. GenCorrect'
    <3>1. call[t].ctx \in live /\ call[t].ctx \in Ctxs
      BY DEF IInv, TypeOK, Derefs, GenOps
    <3>2. Consistent(initial[call[t].ctx], blind[call[t].ctx])
      BY <3>1, RestingPair DEF HoldsLock, Rerandomizing, GenOps
    <3>3. acc[t] = initial[call[t].ctx]
      BY DEF IInv, PairInv, GenOps
    <3>4. EcmultGen(acc[t], blind[call[t].ctx], scalar[t]) = scalar[t]
      BY <3>1, <3>2, <3>3, MultiplicationCorrect DEF IInv, TypeOK
    <3>5. QED
      BY <3>4 DEF IInv, TypeOK, GenCorrect, locals
  <2>6. QED
    BY <2>1, <2>2, <2>3, <2>4, <2>5 DEF IInv
<1>5. CASE Plain(t)
  <2> USE <1>5 DEF Plain, Goto, Give, Runs
  <2>1. LinkInv' /\ OpInv' /\ LockInv' /\ AllocInv' /\ HandleInv' /\ PairInv'
    BY DEF IInv, LinkInv, linkVars, TypeOK, OpInv, locals, LockInv,
       HoldsLock, lockVars, AllocInv, Allocating, heapVars, HandleInv,
       Cleaning, PairInv, Rerandomizing
  <2>2. TypeOK'
    BY DefaultTypes DEF IInv, TypeOK, Pcs, Kinds, Thrown, Failure, linkVars,
       lockVars, heapVars, bufVars, locals
  <2>3. GenCorrect'
    BY DEF IInv, TypeOK, GenCorrect, OpInv, Outcome, NoCall, NoResult,
       GenOps, LockedOps, BufferOps, PlainOps, TweakOps, SyncOps, Ops,
       locals
  <2>4. QED
    BY <2>1, <2>2, <2>3 DEF IInv
<1>6. CASE CloneStart(t)
  <2> USE <1>6 DEF CloneStart, Goto, Runs
  <2>1. LinkInv' /\ OpInv' /\ LockInv' /\ AllocInv' /\ HandleInv'
        /\ PairInv' /\ GenCorrect'
    BY DEF IInv, LinkInv, linkVars, OpInv, LockInv, HoldsLock, lockVars,
       AllocInv, Allocating, heapVars, HandleInv, Cleaning, TypeOK, PairInv,
       Rerandomizing, GenCorrect
  <2>2. TypeOK'
    <3>1. call[t].ctx \in Ctxs
      BY DEF IInv, TypeOK, Derefs
    <3>2. QED
      BY <3>1 DEF IInv, TypeOK, Pcs, linkVars, lockVars, heapVars, bufVars
  <2>3. QED
    BY <2>1, <2>2 DEF IInv
<1>7. CASE CloneEnd(t)
  <2> USE <1>7 DEF CloneEnd, Goto, Give, Runs
  <2>1. LinkInv' /\ LockInv' /\ AllocInv'
    BY DEF IInv, LinkInv, linkVars, LockInv, HoldsLock, lockVars, locals,
       TypeOK, AllocInv, Allocating
  <2>2. TypeOK'
    BY DefaultTypes, ContextAllocated DEF IInv, TypeOK, Pcs, Kinds, Thrown,
       InNative, AllocInv, Allocating, OpInv, linkVars, lockVars, bufVars,
       locals
  <2>3. OpInv'
    BY DEF IInv, TypeOK, OpInv, Outcome, NoCall, NoResult, GenOps,
       LockedOps, BufferOps, PlainOps, TweakOps, SyncOps, Ops, linkVars,
       locals
  <2>4. HandleInv'
    BY NullAssumption DEF IInv, TypeOK, HandleInv, Cleaning, AllocInv,
       Allocating, OpInv, LinkInv, linkVars, locals
  <2>5. PairInv'
    <3>1. /\ call[t].ctx \in live /\ call[t].ctx \in Ctxs
          /\ call[t].dst \in Ctxs /\ call[t].dst \notin live
      BY DEF IInv, TypeOK, Derefs, AllocInv, Allocating
    <3>2. \A c \in live : Consistent(initial[c], blind[c])
      BY RestingPair DEF HoldsLock, Rerandomizing
    <3>3. acc[t] = initial[call[t].ctx]
      BY DEF IInv, PairInv
    <3>4. \A c \in live' : Consistent(initial'[c], blind'[c])
      BY <3>1, <3>2, <3>3 DEF IInv, TypeOK
    <3>5. \A u \in Threads :
             pc'[u] = "native2" => /\ pc[u] = "native2" /\ u # t
                                   /\ acc[u] = initial[call[u].ctx]
                                   /\ call[u].op # "randomize"
                                   /\ call[u].ctx \in live
      BY Alone, ContextAllocated
         DEF IInv, TypeOK, OpInv, GenOps, PairInv, HoldsLock, InNative, SyncOps
    <3>6. QED
      BY <3>1, <3>4, <3>5 DEF IInv, TypeOK, PairInv, Rerandomizing, locals
  <2>6. GenCorrect'
    BY DEF IInv, TypeOK, GenCorrect, OpInv, Outcome, NoCall, NoResult,
       GenOps, LockedOps, BufferOps, PlainOps, TweakOps, SyncOps, Ops,
       locals
  <2>7. QED
    BY <2>1, <2>2, <2>3, <2>4, <2>5, <2>6 DEF IInv
<1>8. CASE RandomizeStart(t)
  <2> USE <1>8 DEF RandomizeStart, Goto, Runs
  <2>1. LinkInv' /\ OpInv' /\ LockInv' /\ AllocInv' /\ HandleInv' /\ GenCorrect'
    BY DEF IInv, LinkInv, linkVars, OpInv, LockInv, HoldsLock, lockVars,
       AllocInv, Allocating, HandleInv, Cleaning, GenCorrect
  <2>2. TypeOK'
    <3>1. call[t].ctx \in live /\ call[t].ctx \in Ctxs
      BY DEF IInv, TypeOK, Derefs
    <3>2. Consistent(initial[call[t].ctx], blind[call[t].ctx])
      BY <3>1, RestingPair DEF HoldsLock, Rerandomizing
    <3>3. QED
      BY <3>1, <3>2, BlindingConsistent DEF IInv, TypeOK, Pcs, linkVars,
         lockVars, bufVars
  <2>3. PairInv'
    <3>1. call[t].ctx \in live /\ call[t].ctx \in Ctxs
      BY DEF IInv, TypeOK, Derefs
    <3>2. \A c \in live : Consistent(initial[c], blind[c])
      BY RestingPair DEF HoldsLock, Rerandomizing
    <3>3. \A u \in Threads \ {t} : ~HoldsLock(u)
      BY Alone DEF HoldsLock, SyncOps
    <3>4. Rerandomizing(t)' /\ call' = call /\ live' = live /\ initial' = initial
      BY DEF IInv, TypeOK, Rerandomizing
    <3>5. Consistent(acc'[t], blind'[call[t].ctx])
      BY <3>1, <3>2, BlindingConsistent DEF IInv, TypeOK
    <3>6. \A c \in live \ {call[t].ctx} : Consistent(initial[c], blind'[c])
      BY <3>2 DEF IInv, TypeOK
    <3>7. \A u \in Threads \ {t} : pc'[u] # "native2"
      BY <3>3 DEF IInv, TypeOK, HoldsLock
    <3>8. QED
      BY <3>4, <3>5, <3>6, <3>7 DEF PairInv, Rerandomizing
  <2>4. QED
    BY <2>1, <2>2, <2>3 DEF IInv
<1>9. CASE RandomizeEnd(t)
  <2> USE <1>9 DEF RandomizeEnd, Goto, Give, Runs
  <2>1. LinkInv' /\ LockInv' /\ AllocInv' /\ HandleInv'
    BY DEF IInv, LinkInv, linkVars, LockInv, HoldsLock, lockVars, locals,
       AllocInv, Allocating, HandleInv, Cleaning
  <2>2. TypeOK'
    BY DefaultTypes DEF IInv, TypeOK, Pcs, Kinds, Thrown, linkVars,
       lockVars, bufVars, locals
  <2>3. OpInv'
    BY DEF IInv, TypeOK, OpInv, Outcome, NoCall, NoResult, GenOps,
       LockedOps, BufferOps, PlainOps, TweakOps, SyncOps, Ops, linkVars,
       locals
  <2>4. PairInv'
    <3>1. call[t].ctx \in live /\ call[t].ctx \in Ctxs
      BY DEF IInv, TypeOK, Derefs
    <3>2. \A u \in Threads \ {t} : ~HoldsLock(u)
      BY Alone DEF HoldsLock, SyncOps
    <3>3. \A c \in live : c # call[t].ctx => Consistent(initial[c], blind[c])
      BY <3>2 DEF IInv, PairInv, Rerandomizing, HoldsLock
    <3>4. Consistent(acc[t], blind[call[t].ctx])
      BY DEF IInv, PairInv, Rerandomizing
    <3>5. \A c \in live : Consistent(initial'[c], blind[c])
      BY <3>1, <3>3, <3>4 DEF IInv, TypeOK
    <3>6. \A u \in Threads : pc'[u] # "native2"
      BY <3>2 DEF IInv, TypeOK, HoldsLock
    <3>7. QED
      BY <3>5, <3>6 DEF PairInv, Rerandomizing, locals
  <2>5. GenCorrect'
    BY DEF IInv, TypeOK, GenCorrect, OpInv, Outcome, NoCall, NoResult,
       GenOps, LockedOps, BufferOps, PlainOps, TweakOps, SyncOps, Ops,
       locals
  <2>6. QED
    BY <2>1, <2>2, <2>3, <2>4, <2>5 DEF IInv
<1>10. CASE Destroy(t)
  <2> USE <1>10 DEF Destroy, Goto, Give
  <2>1. LinkInv' /\ OpInv' /\ LockInv' /\ AllocInv' /\ HandleInv'
    BY DEF IInv, LinkInv, linkVars, TypeOK, OpInv, locals, LockInv,
       HoldsLock, lockVars, AllocInv, Allocating, HandleInv, Cleaning
  <2>2. TypeOK'
    BY DefaultTypes DEF IInv, TypeOK, Pcs, Kinds, Thrown, linkVars,
       lockVars, bufVars, locals
  <2>3. PairInv'
    <3>1. \A c \in live : Consistent(initial[c], blind[c])
      BY RestingPair DEF HoldsLock, Rerandomizing
    <3>2. \A c \in live' : Consistent(initial'[c], blind'[c])
      BY <3>1 DEF IInv, TypeOK
    <3>3. \A u \in Threads : pc'[u] # "native2"
      BY Alone DEF IInv, TypeOK, HoldsLock, SyncOps
    <3>4. QED
      BY <3>2, <3>3 DEF PairInv, Rerandomizing
  <2>4. GenCorrect'
    BY DEF IInv, TypeOK, GenCorrect, OpInv, Outcome, NoCall, NoResult,
       GenOps, LockedOps, BufferOps, PlainOps, TweakOps, SyncOps, Ops,
       locals
  <2>5. QED
    BY <2>1, <2>2, <2>3, <2>4 DEF IInv
<1>11. QED
  BY <1>1, <1>2, <1>3, <1>4, <1>5, <1>6, <1>7, <1>8, <1>9, <1>10 DEF
     NativeStep

\* What clients do preserves it.
LEMMA ClientInv ==
    ASSUME IInv, NEW t \in Threads, Client(t)
    PROVE  IInv'
<1>1. CASE BeginInit(t)
  <2> USE <1>1 DEF BeginInit, Goto
  <2>1. LinkInv' /\ OpInv' /\ LockInv' /\ AllocInv' /\ PairInv'
    BY DEF IInv, LinkInv, linkVars, TypeOK, OpInv, LockInv, HoldsLock,
       lockVars, AllocInv, Allocating, heapVars, PairInv, Rerandomizing
  <2>2. TypeOK'
    BY DefaultTypes DEF IInv, TypeOK, Pcs, Kinds, Thrown, Calls, Ops,
       linkVars, lockVars, heapVars, bufVars
  <2>3. HandleInv'
    BY DEF IInv, TypeOK, HandleInv, Cleaning, OpInv, NoCall, NoResult,
       GenOps, LockedOps, BufferOps, PlainOps, TweakOps, SyncOps, Ops,
       linkVars, heapVars
  <2>4. GenCorrect'
    BY DEF IInv, TypeOK, GenCorrect, OpInv, Outcome, NoCall, NoResult
  <2>5. QED
    BY <2>1, <2>2, <2>3, <2>4 DEF IInv
<1>2. CASE BeginCreate(t)
  <2> USE <1>2 DEF BeginCreate, Goto
  <2>1. LinkInv' /\ OpInv' /\ LockInv' /\ PairInv'
    BY DEF IInv, LinkInv, linkVars, TypeOK, OpInv, LockInv, HoldsLock,
       lockVars, PairInv, Rerandomizing, heapVars
  <2>2. TypeOK'
    <3>1. PICK d \in FreeAddresses :
             call' = [call EXCEPT ![t] =
                        [NoCall EXCEPT !.op = "contextCreate", !.dst = d]]
      OBVIOUS
    <3>2. d \in Ctxs
      BY DEF FreeAddresses
    <3>3. [NoCall EXCEPT !.op = "contextCreate", !.dst = d] \in Calls
      BY <3>2, DefaultTypes DEF Calls, Ops
    <3>4. QED
      BY <3>1, <3>3 DEF IInv, TypeOK, Pcs, linkVars, lockVars, heapVars,
         bufVars
  <2>3. AllocInv'
    BY DEF IInv, TypeOK, AllocInv, Allocating, OpInv, NoCall, FreeAddresses,
       heapVars
  <2>4. HandleInv'
    BY DEF IInv, TypeOK, HandleInv, Cleaning, OpInv, NoCall, NoResult,
       GenOps, LockedOps, BufferOps, PlainOps, TweakOps, SyncOps, Ops,
       linkVars, heapVars
  <2>5. GenCorrect'
    BY DEF IInv, TypeOK, GenCorrect, OpInv, Outcome, NoCall, NoResult
  <2>6. QED
    BY <2>1, <2>2, <2>3, <2>4, <2>5 DEF IInv
<1>3. CASE Begin(t)
  <2> USE <1>3 DEF Begin, Goto
  <2>1. LinkInv' /\ LockInv' /\ HandleInv' /\ PairInv'
    BY DEF IInv, LinkInv, linkVars, LockInv, HoldsLock, lockVars, TypeOK,
       HandleInv, Cleaning, heapVars, PairInv, Rerandomizing
  <2>2. TypeOK'
    BY RequestTypes DEF IInv, TypeOK, Pcs, Kinds, Thrown, Calls, Ops,
       LockedOps, FreeAddresses, linkVars, lockVars, heapVars, bufVars
  <2>3. OpInv'
    BY RequestTypes DEF IInv, TypeOK, OpInv, NoCall, NoResult, Outcome,
       GenOps, LockedOps, BufferOps, PlainOps, TweakOps, SyncOps, Ops,
       linkVars
  <2>4. AllocInv'
    BY RequestTypes, NullAssumption DEF IInv, TypeOK, AllocInv, Allocating,
       OpInv, FreeAddresses, heapVars
  <2>5. GenCorrect'
    BY DEF IInv, TypeOK, GenCorrect, OpInv, NoResult
  <2>6. QED
    BY <2>1, <2>2, <2>3, <2>4, <2>5 DEF IInv
<1>4. ASSUME NEW u \in Threads \ {t}, Share(t, u)
      PROVE  IInv'
  <2> USE <1>4 DEF Share
  <2>1. LinkInv' /\ OpInv' /\ LockInv' /\ AllocInv' /\ HandleInv'
        /\ PairInv' /\ GenCorrect'
    BY DEF IInv, LinkInv, linkVars, OpInv, locals, LockInv, HoldsLock,
       lockVars, AllocInv, Allocating, heapVars, HandleInv, Cleaning,
       PairInv, Rerandomizing, GenCorrect
  <2>2. TypeOK'
    BY DefaultTypes DEF IInv, TypeOK, Pcs, linkVars, lockVars, heapVars,
       bufVars, locals
  <2>3. QED
    BY <2>1, <2>2 DEF IInv
<1>5. CASE Forget(t)
  <2> USE <1>5 DEF Forget
  <2>1. LinkInv' /\ OpInv' /\ LockInv' /\ AllocInv' /\ PairInv' /\ GenCorrect'
    BY DEF IInv, LinkInv, linkVars, OpInv, locals, LockInv, HoldsLock,
       lockVars, AllocInv, Allocating, heapVars, PairInv, Rerandomizing,
       GenCorrect
  <2>2. TypeOK'
    BY DefaultTypes DEF IInv, TypeOK, Pcs, linkVars, lockVars, heapVars,
       bufVars, locals
  <2>3. HandleInv'
    BY DEF IInv, TypeOK, HandleInv, Cleaning, OpInv, NoCall, NoResult,
       GenOps, LockedOps, BufferOps, PlainOps, TweakOps, SyncOps, Ops,
       linkVars, heapVars, locals
  <2>4. QED
    BY <2>1, <2>2, <2>3 DEF IInv
<1>6. QED
  BY <1>1, <1>2, <1>3, <1>4, <1>5 DEF Client

\* Every step preserves the invariant.
LEMMA NextInv == IInv /\ [Next]_vars => IInv'
<1> SUFFICES ASSUME IInv, [Next]_vars PROVE IInv'
  OBVIOUS
<1>1. CASE UNCHANGED vars
  BY <1>1 DEF vars, linkVars, lockVars, heapVars, bufVars, locals, IInv,
     TypeOK, LinkInv, OpInv, LockInv, HoldsLock, AllocInv, Allocating,
     HandleInv, Cleaning, PairInv, Rerandomizing, GenCorrect
<1>2. ASSUME NEW t \in Threads, Step(t)
      PROVE  IInv'
  BY <1>2, LoadingStep, CreateStepInv, JavaStepInv, NativeStepInv DEF Step
<1>3. ASSUME NEW t \in Threads, Client(t)
      PROVE  IInv'
  BY <1>3, ClientInv
<1>4. QED
  BY <1>1, <1>2, <1>3 DEF Next

\* The invariant is one of every behaviour.
LEMMA Invariance == Spec => []IInv
BY InitInv, NextInv, PTL DEF Spec

---------------------------------------------------------------------------
(* Staging.                                                                *)

\* The capacity a method asks for is a number.
LEMMA MinCapacityNat ==
    ASSUME NEW op, NEW len \in Lengths, \A i \in 1 .. 3 : len[i] # NoArray
    PROVE  /\ MinCapacity(op, len) \in Nat
           /\ NativeReads(op, len) \in Nat
           /\ Total(len) \in Nat
<1>1. len[1] \in Nat /\ len[2] \in Nat /\ len[3] \in Nat
  BY DEF Lengths, NoArray
<1>2. QED
  BY <1>1 DEF MinCapacity, NativeReads, Total

\* StageCall puts the arguments within the capacity it has made sure of.
LEMMA StageCallStages ==
    ASSUME IInv, NEW t \in Threads, StageCall(t)
    PROVE  /\ Passes(t)
           /\ staged'[t] = Total(call[t].len)
           /\ staged'[t] <= cap'[t]
           /\ MinCapacity(call[t].op, call[t].len) <= cap'[t]
<1>1. staged'[t] = Total(call[t].len) /\ cap'[t] = Ensured(t)
  BY DEF StageCall, IInv, TypeOK
<1>2. call[t].len \in Lengths /\ cap[t] \in Nat
  BY DEF IInv, TypeOK, Calls
<1>3. MinCapacity(call[t].op, call[t].len) \in Nat
  BY <1>2, MinCapacityNat DEF StageCall, Passes, HasNull
<1>4. MinCapacity(call[t].op, call[t].len) <= Ensured(t)
  BY <1>2, <1>3 DEF Ensured
<1>5. QED
  BY <1>1, <1>4 DEF StageCall

\* StageInv is preserved.
LEMMA StageNext ==
    ASSUME IInv, StageInv, [Next]_vars
    PROVE  StageInv'
<1> USE DEF Passes
<1>1. CASE UNCHANGED vars
  BY <1>1 DEF vars, bufVars, locals, StageInv
<1>2. ASSUME NEW t \in Threads, InitStep(t) \/ CreateStep(t)
      PROVE  StageInv'
  BY <1>2 DEF IInv, TypeOK, StageInv, InitStep, InitCheck, Load, Disable,
     SetInstance, CreateStep, CreateDisabled, CreateEnabled,
     CreateUnlinked, CreateContext, Goto, Give, bufVars, locals
<1>3. ASSUME NEW t \in Threads, JavaStep(t)
      PROVE  StageInv'
  <2>1. CASE EnterMonitor(t)
    BY <2>1 DEF IInv, TypeOK, OpInv, StageInv, EnterMonitor, Goto,
       bufVars, locals, BufferOps, GenOps, PlainOps, TweakOps, SyncOps
  <2>2. CASE StageCall(t)
    BY <2>2, StageCallStages DEF IInv, TypeOK, StageInv, StageCall, Goto,
       locals
  <2>3. CASE RejectCall(t) \/ OverflowCall(t)
    BY <2>3 DEF IInv, TypeOK, StageInv, RejectCall, OverflowCall, Goto,
       Give, bufVars, locals
  <2>4. CASE LockRead(t) \/ LockWrite(t) \/ Unlock(t)
    BY <2>4 DEF IInv, TypeOK, StageInv, LockRead, LockWrite, Unlock, Goto,
       bufVars, locals
  <2>5. CASE Return(t)
    BY <2>5 DEF IInv, TypeOK, StageInv, Return, Goto, Give, NoCall,
       LockedOps, BufferOps, GenOps, PlainOps, TweakOps
  <2>6. QED
    BY <1>3, <2>1, <2>2, <2>3, <2>4, <2>5 DEF JavaStep
<1>4. ASSUME NEW t \in Threads, NativeStep(t)
      PROVE  StageInv'
  <2>1. /\ UNCHANGED <<call, staged, cap>>
        /\ pc[t] \in {"native", "native2"}
        /\ \E l \in {"native2", "unlock"} : pc' = [pc EXCEPT ![t] = l]
    BY <1>4 DEF NativeStep, NotLinked, InvalidKey, MultiplyStart,
       MultiplyEnd, Plain, CloneStart, CloneEnd, RandomizeStart,
       RandomizeEnd, Destroy, Runs, Goto, Give, bufVars, locals
  <2>2. QED
    BY <2>1 DEF IInv, TypeOK, StageInv
<1>5. ASSUME NEW t \in Threads, Client(t)
      PROVE  StageInv'
  <2>1. CASE BeginInit(t) \/ BeginCreate(t)
    <3>1. call'[t].op \in {"init", "contextCreate"}
      BY <2>1 DEF IInv, TypeOK, BeginInit, BeginCreate, NoCall
    <3>2. call'[t].op \notin LockedOps
      BY <3>1 DEF LockedOps, BufferOps, GenOps, PlainOps, TweakOps
    <3>3. /\ UNCHANGED <<staged, cap>>
          /\ \A u \in Threads \ {t} : call'[u] = call[u] /\ pc'[u] = pc[u]
      BY <2>1 DEF IInv, TypeOK, BeginInit, BeginCreate, Goto, bufVars
    <3>4. QED
      BY <3>2, <3>3 DEF StageInv, LockedOps
  <2>2. CASE Begin(t)
    <3>1. PICK q \in Requests :
             /\ call' = [call EXCEPT ![t] = call'[t]]
             /\ call'[t].op = q.op /\ call'[t].len = q.len
             /\ Goto(t, CASE q.op \in SyncOps -> "monitor"
                          [] q.op = "cloneContext" -> "lock"
                          [] OTHER -> "stage")
             /\ UNCHANGED <<staged, cap>>
      BY <2>2 DEF Begin, bufVars, IInv, TypeOK
    <3>2. pc'[t] = "lock" => call'[t].op \notin BufferOps
      BY <3>1 DEF Goto, IInv, TypeOK, BufferOps, GenOps, PlainOps,
         TweakOps, SyncOps
    <3>3. pc'[t] \notin {"native", "native2"}
      BY <3>1 DEF Goto, IInv, TypeOK
    <3>4. QED
      BY <3>1, <3>2, <3>3 DEF IInv, TypeOK, StageInv, Goto
  <2>3. CASE Forget(t) \/ \E u \in Threads \ {t} : Share(t, u)
    BY <2>3 DEF StageInv, Forget, Share, bufVars, locals
  <2>4. QED
    BY <1>5, <2>1, <2>2, <2>3 DEF Client
<1>6. QED
  BY <1>1, <1>2, <1>3, <1>4, <1>5 DEF Next, Step

---------------------------------------------------------------------------
(* The theorems.                                                           *)

\* What native code reads past the arguments a check has let through is the
\* rest of a short secret or tweak.
LEMMA ReadsMeasured ==
    ASSUME NEW op \in BufferOps, NEW len \in Lengths,
           Accepts(op, len), ~HasNull(len)
    PROVE  /\ NativeReads(op, len) > Total(len) => Short(op, len)
           /\ NativeReads(op, len) > MinCapacity(op, len)
                => op \in TweakOps \/ NativeReads(op, len) <= Total(len)
<1>1. len[1] \in Nat /\ len[2] \in Nat /\ len[3] \in Nat
  BY DEF Lengths, NoArray, HasNull
<1>2. CASE op \in TweakOps
  BY <1>1, <1>2 DEF Accepts, NativeReads, Total, Short, TweakOps
<1>3. CASE op \notin TweakOps
  BY <1>1, <1>3 DEF Accepts, NativeReads, MinCapacity, Total, Short, BufferOps,
     GenOps, PlainOps, TweakOps
<1>4. QED
  BY <1>2, <1>3

\* Native code reads what its own call has put in the thread's buffer, and
\* past it only in place of a short secret or tweak, whatever sequence of
\* methods has used, and resized, that buffer before, for any requests.
THEOREM StaleBytesAreMissing == Spec => []StaleOnlyIfShort
<1>1. Init => StageInv
  BY DEF Init, StageInv, NoCall, LockedOps, BufferOps, GenOps, PlainOps,
     TweakOps
<1>2. IInv /\ StageInv /\ [Next]_vars => StageInv'
  BY StageNext
<1>3. IInv /\ StageInv => StaleOnlyIfShort
  <2> SUFFICES ASSUME IInv, StageInv, NEW t \in Threads, InNative(t),
                      call[t].op \in BufferOps
               PROVE  LET op == call[t].op  len == call[t].len IN
                      /\ staged[t] <= cap[t]
                      /\ NativeReads(op, len) > staged[t] => Short(op, len)
                      /\ NativeReads(op, len) > cap[t] => op \in TweakOps
    BY DEF StaleOnlyIfShort
  <2> DEFINE op == call[t].op
             len == call[t].len
  <2>1. /\ Accepts(op, len) /\ ~HasNull(len)
        /\ staged[t] = Total(len) /\ staged[t] <= cap[t]
        /\ MinCapacity(op, len) <= cap[t]
    BY DEF StageInv, InNative, Passes
  <2>2. len \in Lengths /\ cap[t] \in Nat
    BY DEF IInv, TypeOK, Calls
  <2>3. /\ NativeReads(op, len) \in Nat /\ MinCapacity(op, len) \in Nat
        /\ Total(len) \in Nat
    BY <2>1, <2>2, MinCapacityNat DEF HasNull
  <2>4. QED
    BY <2>1, <2>2, <2>3, ReadsMeasured
<1>4. QED
  BY <1>1, <1>2, <1>3, Invariance, PTL DEF Spec

\* Type correctness: in particular, scalars, points and blinding values
\* stay below the order of the group in every run of the class.
THEOREM TypeCorrect == Spec => []TypeOK
<1>1. IInv => TypeOK
  BY DEF IInv
<1>2. QED
  BY <1>1, Invariance, PTL

\* No thread's native code follows a null or dangling context pointer, for
\* any number of threads and contexts, as long as clients clean a context
\* up once and last.
THEOREM NeverBadPointer == Spec => []NoBadPointer
<1>1. ASSUME IInv, NEW t \in Threads, InNative(t), loaded
      PROVE  ContextIsThere(t)
  <2>1. CASE call[t].op # "contextCleanup"
    BY <1>1, <2>1, ContextAllocated DEF ContextIsThere
  <2>2. CASE call[t].op = "contextCleanup" /\ pc[t] = "native"
    BY <1>1, <2>2 DEF IInv, HandleInv, Cleaning, ContextIsThere
  <2>3. pc[t] = "native2" => call[t].op # "contextCleanup"
    BY <1>1 DEF IInv, OpInv, GenOps
  <2>4. QED
    BY <1>1, <2>1, <2>2, <2>3 DEF InNative
<1>2. IInv => NoBadPointer
  BY <1>1 DEF NoBadPointer
<1>3. QED
  BY <1>2, Invariance, PTL

\* Every completed generator multiplication (public key or signature nonce
\* point) is exact, for every group order, seed and interleaving with
\* randomize, cloneContext and contextCleanup.
THEOREM MultiplicationExact == Spec => []GenCorrect
<1>1. IInv => GenCorrect
  BY DEF IInv
<1>2. QED
  BY <1>1, Invariance, PTL

\* A completed init leaves sEnabled true exactly if the library is loaded,
\* although init is not synchronized.
THEOREM InitConclusive == Spec => []EnabledMeansLoaded
<1>1. IInv => EnabledMeansLoaded
  BY DEF IInv, LinkInv, EnabledMeansLoaded
<1>2. QED
  BY <1>1, Invariance, PTL

---------------------------------------------------------------------------
(* NativeSecp256k1 implements CurveService: every step of a thread is one  *)
(* step of the service or changes nothing the service shows.               *)


\* What the step that answers a multiplication knows of its scalar.
ScalarInv ==
    \A t \in Threads :
        pc[t] = "native2" /\ call[t].op \in GenOps
            => /\ ValidKey(call[t].key)
               /\ scalar[t] \in 1 .. N - 1
               /\ call[t].op = "computePubkey" => scalar[t] = call[t].key

\* A call has its answer exactly while it is on its way out.
AnswerInv ==
    \A t \in Threads :
        /\ (pc[t] = "idle") <=> (call[t].op = "none")
        /\ call[t].op = "init" => result[t] = NoResult /\ pc[t] # "unlock"
        /\ pc[t] \in {"unlock", "return"} /\ call[t].op # "init"
              => result[t] # NoResult

Answered == ScalarInv /\ AnswerInv

LEMMA AnsweredInit == Init => Answered
BY DEF Init, Answered, ScalarInv, AnswerInv, NoCall

\* Steps of init and contextCreate keep it.
LEMMA AnsweredCreate ==
    ASSUME IInv, Answered, NEW t \in Threads, InitStep(t) \/ CreateStep(t)
    PROVE  Answered'
<1>1. ScalarInv'
  BY DEF IInv, TypeOK, Answered, ScalarInv, InitStep, InitCheck, Load,
     Disable, SetInstance, CreateStep, CreateDisabled, CreateEnabled,
     CreateUnlinked, CreateContext, Goto, Give, locals
<1>2. AnswerInv'
  BY DEF IInv, TypeOK, OpInv, Answered, AnswerInv, InitStep, InitCheck,
     Load, Disable, SetInstance, CreateStep, CreateDisabled, CreateEnabled,
     CreateUnlinked, CreateContext, Goto, Give, locals, Outcome, NoResult
<1>3. QED
  BY <1>1, <1>2 DEF Answered

\* Steps of the Java code around the native call keep it.
LEMMA AnsweredJava ==
    ASSUME IInv, Answered, NEW t \in Threads, JavaStep(t)
    PROVE  Answered'
<1>1. ScalarInv'
  BY DEF IInv, TypeOK, Answered, ScalarInv, JavaStep, EnterMonitor,
     RejectCall, StageCall, OverflowCall, LockRead, LockWrite, Unlock,
     Return, Goto, Give, locals
<1>2. AnswerInv'
  <2>1. CASE Return(t)
    BY <2>1 DEF IInv, TypeOK, OpInv, Answered, AnswerInv, Return, Goto,
       Give, NoCall, NoResult
  <2>2. CASE EnterMonitor(t) \/ StageCall(t) \/ LockRead(t)
             \/ LockWrite(t) \/ Unlock(t)
    BY <2>2 DEF IInv, TypeOK, OpInv, Answered, AnswerInv, EnterMonitor,
       StageCall, LockRead, LockWrite, Unlock, Goto, locals, LockedOps,
       BufferOps, GenOps, PlainOps, TweakOps
  <2>3. CASE RejectCall(t) \/ OverflowCall(t)
    BY <2>3 DEF IInv, TypeOK, OpInv, Answered, AnswerInv, RejectCall,
       OverflowCall, Goto, Give, locals, Outcome, NoResult, LockedOps,
       BufferOps, GenOps, PlainOps, TweakOps
  <2>4. QED
    BY <2>1, <2>2, <2>3 DEF JavaStep
<1>3. QED
  BY <1>1, <1>2 DEF Answered

\* Steps of native code keep it: what starts a multiplication checks the
\* key and fixes the scalar.
LEMMA AnsweredNative ==
    ASSUME IInv, Answered, NEW t \in Threads, NativeStep(t)
    PROVE  Answered'
<1>1. ScalarInv'
  <2>1. CASE MultiplyStart(t)
    BY <2>1 DEF IInv, TypeOK, Answered, ScalarInv, MultiplyStart, Runs,
       Goto
  <2>2. CASE ~MultiplyStart(t)
    BY <2>2 DEF IInv, TypeOK, Answered, ScalarInv, NativeStep, NotLinked,
       InvalidKey, MultiplyEnd, Plain, CloneStart, CloneEnd,
       RandomizeStart, RandomizeEnd, Destroy, Runs, Goto, Give, locals,
       GenOps
  <2>3. QED
    BY <2>1, <2>2
<1>2. AnswerInv'
  BY DEF IInv, TypeOK, OpInv, Answered, AnswerInv, NativeStep, NotLinked,
     InvalidKey, MultiplyStart, MultiplyEnd, Plain, CloneStart, CloneEnd,
     RandomizeStart, RandomizeEnd, Destroy, Runs, Goto, Give, locals,
     Outcome, NoResult, Failure, LockedOps, BufferOps, GenOps, PlainOps,
     TweakOps
<1>3. QED
  BY <1>1, <1>2 DEF Answered

\* Steps of clients keep it.
LEMMA AnsweredClient ==
    ASSUME IInv, Answered, NEW t \in Threads, Client(t)
    PROVE  Answered'
<1>1. CASE BeginInit(t) \/ BeginCreate(t)
  <2>1. /\ pc[t] = "idle" /\ UNCHANGED <<scalar, result>>
        /\ \A u \in Threads \ {t} : pc'[u] = pc[u] /\ call'[u] = call[u]
        /\ \/ pc'[t] = "init" /\ call'[t].op = "init"
           \/ pc'[t] = "create" /\ call'[t].op = "contextCreate"
    BY <1>1 DEF BeginInit, BeginCreate, IInv, TypeOK, Goto, NoCall
  <2>2. result[t] = NoResult
    BY <2>1 DEF IInv, OpInv
  <2>3. QED
    BY <2>1, <2>2 DEF Answered, ScalarInv, AnswerInv
<1>2. CASE Begin(t)
  <2>1. /\ pc[t] = "idle" /\ pc'[t] \in {"monitor", "stage", "lock"}
        /\ call'[t].op \in LockedOps
        /\ \A u \in Threads \ {t} : pc'[u] = pc[u] /\ call'[u] = call[u]
        /\ UNCHANGED <<scalar, result>>
    BY <1>2, RequestTypes DEF Begin, IInv, TypeOK, Goto
  <2>2. call'[t].op \notin {"none", "init"}
    BY <2>1 DEF LockedOps, BufferOps, GenOps, PlainOps, TweakOps
  <2>3. QED
    BY <2>1, <2>2 DEF Answered, ScalarInv, AnswerInv
<1>3. CASE Forget(t) \/ \E u \in Threads \ {t} : Share(t, u)
  BY <1>3 DEF Answered, ScalarInv, AnswerInv, Forget, Share, locals
<1>4. QED
  BY <1>1, <1>2, <1>3 DEF Client

LEMMA AnsweredNext == IInv /\ Answered /\ [Next]_vars => Answered'
<1> SUFFICES ASSUME IInv, Answered, [Next]_vars PROVE Answered'
  OBVIOUS
<1>1. CASE UNCHANGED vars
  BY <1>1 DEF vars, locals, Answered, ScalarInv, AnswerInv
<1>2. QED
  BY <1>1, AnsweredCreate, AnsweredJava, AnsweredNative, AnsweredClient
     DEF Next, Step

---------------------------------------------------------------------------
(* The refinement.                                                         *)

LEMMA ServiceInit == Init => Service!Init
BY DEF Init, Service!Init, serviceRequest, NoCall, Service!NoRequest,
   NoResult, Service!NoAnswer

\* A step that touches no request, no answer and no allocation is unseen.
LEMMA Unseen ==
    ASSUME UNCHANGED <<live, call, result>>
    PROVE  UNCHANGED Service!vars
BY DEF Service!vars, serviceRequest

\* Giving a pending call its result is answering its request.
LEMMA ServiceAnswers ==
    ASSUME IInv, Answered, NEW t \in Threads, NEW k, NEW p,
           pc[t] \notin {"idle", "unlock", "return"}, call[t].op # "init",
           UNCHANGED call,
           result' = [result EXCEPT ![t] = [kind |-> k, point |-> p]]
    PROVE  Service!Answer(t, k, p)
<1>1. serviceRequest[t] # Service!NoRequest
  BY DEF serviceRequest, Service!NoRequest, Answered, AnswerInv
<1>2. result[t] = Service!NoAnswer
  BY DEF IInv, OpInv, NoResult, Service!NoAnswer
<1>3. UNCHANGED serviceRequest
  BY DEF serviceRequest
<1>4. QED
  BY <1>1, <1>2, <1>3 DEF Service!Answer

\* What the service sees of the request of a thread inside a method.
LEMMA SeenRequest ==
    ASSUME NEW t \in Threads, call[t].op \notin {"none", "init"}
    PROVE  /\ serviceRequest[t].op = call[t].op
           /\ serviceRequest[t].ctx = call[t].ctx
           /\ serviceRequest[t].key = call[t].key
BY DEF serviceRequest

\* A method that throws before or instead of its native code.
LEMMA ThrowStep ==
    ASSUME IInv, Answered, NEW t \in Threads,
           \/ CreateUnlinked(t) \/ RejectCall(t) \/ OverflowCall(t)
           \/ NotLinked(t)
    PROVE  Service!Throw(t)
<1>1. /\ pc[t] \in {"alloc", "stage", "native"}
      /\ UNCHANGED <<call, live>>
      /\ \E k \in Service!Exceptions :
            result' = [result EXCEPT ![t] = [kind |-> k, point |-> 0]]
  BY DEF CreateUnlinked, RejectCall, OverflowCall, NotLinked, Give,
     Outcome, locals, heapVars, Service!Exceptions
<1>2. call[t].op # "init"
  BY <1>1 DEF IInv, OpInv, LockedOps, BufferOps, GenOps, PlainOps, TweakOps,
     SyncOps
<1>3. QED
  BY <1>1, <1>2, ServiceAnswers DEF Service!Throw

\* contextCreate, with the library and without.
LEMMA AllocateStep ==
    ASSUME IInv, Answered, NEW t \in Threads
    PROVE  /\ CreateDisabled(t) => Service!AllocateNull(t)
           /\ CreateContext(t) => Service!Allocate(t)
           /\ CloneEnd(t) => Service!Allocate(t)
<1>1. ASSUME CreateDisabled(t)
      PROVE  Service!AllocateNull(t)
  <2>1. pc[t] = "create" /\ call[t].op = "contextCreate"
        /\ UNCHANGED <<call, live>>
        /\ result' = [result EXCEPT ![t] = [kind |-> "value", point |-> 0]]
    BY <1>1 DEF CreateDisabled, Give, Outcome, IInv, OpInv, locals, heapVars
  <2>2. QED
    BY <2>1, ServiceAnswers, SeenRequest DEF Service!AllocateNull
<1>2. ASSUME CreateContext(t) \/ CloneEnd(t)
      PROVE  Service!Allocate(t)
  <2>1. /\ pc[t] \in {"alloc", "native2"}
        /\ call[t].op \in {"contextCreate", "cloneContext"}
        /\ live' = live \cup {call[t].dst}
        /\ UNCHANGED call
        /\ result' = [result EXCEPT ![t] = [kind |-> "value", point |-> 0]]
    BY <1>2 DEF CreateContext, CloneEnd, Runs, Give, Outcome, IInv, OpInv,
       locals
  <2>2. call[t].dst \in Ctxs \ live
    BY <2>1 DEF IInv, AllocInv, Allocating
  <2>3. QED
    BY <2>1, <2>2, ServiceAnswers, SeenRequest DEF Service!Allocate
<1>3. QED
  BY <1>1, <1>2

\* A generator multiplication is exact, and refused only for a string that
\* is no key.
LEMMA MultiplyStep ==
    ASSUME IInv, Answered, NEW t \in Threads,
           InvalidKey(t) \/ MultiplyEnd(t)
    PROVE  Service!ComputePubkey(t) \/ Service!Sign(t)
<1>1. /\ call[t].op \in GenOps /\ call[t].ctx \in live
      /\ pc[t] \in {"native", "native2"}
      /\ UNCHANGED <<call, live>>
  BY DEF InvalidKey, MultiplyEnd, Runs, Derefs, GenOps, TweakOps, locals,
     heapVars
<1>2. /\ call[t].op \notin {"none", "init"}
      /\ call[t].op = "computePubkey" \/ call[t].op \in Service!Signs
      /\ call[t].key \in 0 .. N
  BY <1>1 DEF GenOps, Service!Signs, IInv, TypeOK, Calls, SecretKeys
<1>3. call[t].key \in 1 .. N - 1 <=> ValidKey(call[t].key)
  BY <1>2, OrderAssumption DEF ValidKey
<1>4. CASE InvalidKey(t)
  <2>1. /\ ~ValidKey(call[t].key)
        /\ result' = [result EXCEPT ![t] = [kind |-> "invalid", point |-> 0]]
    BY <1>4 DEF InvalidKey, Give, Outcome
  <2>2. Service!Answer(t, "invalid", 0)
    BY <2>1, <1>1, <1>2, ServiceAnswers
  <2>3. QED
    BY <2>1, <2>2, <1>1, <1>2, <1>3, SeenRequest
       DEF Service!ComputePubkey, Service!Sign
<1>5. CASE MultiplyEnd(t)
  <2>1. /\ pc[t] = "native2" /\ ValidKey(call[t].key)
        /\ scalar[t] \in 1 .. N - 1
        /\ call[t].op = "computePubkey" => scalar[t] = call[t].key
    BY <1>5, <1>1 DEF MultiplyEnd, Runs, Answered, ScalarInv
  <2>2. HoldsLock(t) /\ ~Rerandomizing(t)
    BY <2>1, <1>1 DEF HoldsLock, Rerandomizing, GenOps
  <2>3. acc[t] = initial[call[t].ctx]
    BY <2>1, <2>2 DEF IInv, PairInv, Rerandomizing
  <2>4. Consistent(acc[t], blind[call[t].ctx])
    BY <2>2, <2>3, <1>1, RestingPair
  <2>5. acc[t] \in Scalars /\ blind[call[t].ctx] \in Scalars
        /\ scalar[t] \in Scalars
    BY <1>1 DEF IInv, TypeOK
  <2>6. result' = [result EXCEPT ![t] =
                     [kind |-> "value", point |-> scalar[t]]]
    BY <1>5, <2>4, <2>5, MultiplicationCorrect DEF MultiplyEnd, Give
  <2>7. Service!Answer(t, "value", scalar[t])
    BY <2>1, <2>6, <1>1, <1>2, ServiceAnswers
  <2>8. QED
    BY <2>1, <2>7, <1>1, <1>2, <1>3, SeenRequest
       DEF Service!ComputePubkey, Service!Sign
<1>6. QED
  BY <1>4, <1>5

\* The functions that leave contexts alone, or change what nobody sees.
LEMMA ApplyStep ==
    ASSUME IInv, Answered, NEW t \in Threads,
           Plain(t) \/ RandomizeEnd(t)
    PROVE  Service!Apply(t) \/ Service!Throw(t)
<1>1. /\ call[t].op \in PlainOps \cup {"randomize"}
      /\ pc[t] \in {"native", "native2"}
      /\ UNCHANGED <<call, live>>
      /\ \E k \in {"value", "invalid", "AssertFail"} :
            result' = [result EXCEPT ![t] = [kind |-> k, point |-> 0]]
  BY DEF Plain, RandomizeEnd, Runs, Failure, Give, Outcome, locals, heapVars
<1>2. call[t].op \in Service!Functions /\ call[t].op \notin {"none", "init"}
  BY <1>1 DEF PlainOps, TweakOps, Service!Functions
<1>3. "AssertFail" \in Service!Exceptions
  BY DEF Service!Exceptions
<1>4. QED
  BY <1>1, <1>2, <1>3, ServiceAnswers, SeenRequest
     DEF Service!Apply, Service!Throw

\* contextCleanup.
LEMMA CleanupStep ==
    ASSUME IInv, Answered, NEW t \in Threads, Destroy(t)
    PROVE  Service!Cleanup(t)
<1>1. /\ pc[t] = "native" /\ call[t].op = "contextCleanup"
      /\ call[t].ctx \in live \cup {NULL}
      /\ live' = live \ {call[t].ctx}
      /\ UNCHANGED call
      /\ result' = [result EXCEPT ![t] = [kind |-> "value", point |-> 0]]
  BY DEF Destroy, Give, Outcome, locals
<1>2. QED
  BY <1>1, ServiceAnswers, SeenRequest DEF Service!Cleanup

\* Leaving a method: the request of a call is done, init was none.
LEMMA ReturnStep ==
    ASSUME IInv, Answered, NEW t \in Threads, Return(t)
    PROVE  Service!Return(t) \/ UNCHANGED Service!vars
<1>1. /\ pc[t] = "return"
      /\ call' = [call EXCEPT ![t] = NoCall]
      /\ result' = [result EXCEPT ![t] = NoResult]
      /\ UNCHANGED live
  BY DEF Return, Give, heapVars
<1>2. serviceRequest' = [serviceRequest EXCEPT ![t] = Service!NoRequest]
  BY <1>1 DEF serviceRequest, Service!NoRequest, IInv, TypeOK, NoCall
<1>3. CASE call[t].op = "init"
  <2>1. UNCHANGED result
    BY <1>1, <1>3 DEF IInv, TypeOK, Answered, AnswerInv
  <2>2. UNCHANGED serviceRequest
    BY <1>2, <1>3 DEF serviceRequest, Service!NoRequest
  <2>3. QED
    BY <1>1, <2>1, <2>2 DEF Service!vars
<1>4. CASE call[t].op # "init"
  <2>1. result[t] # Service!NoAnswer
    BY <1>1, <1>4 DEF Answered, AnswerInv, NoResult, Service!NoAnswer
  <2>2. QED
    BY <1>1, <1>2, <2>1
       DEF Service!Return, NoResult, Service!NoAnswer
<1>5. QED
  BY <1>3, <1>4

\* What clients do outside: begin a call, or nothing the service sees.
LEMMA ServiceClientStep ==
    ASSUME IInv, Answered, NEW t \in Threads, Client(t)
    PROVE  Service!Call(t) \/ UNCHANGED Service!vars
<1>1. CASE BeginInit(t)
  <2>1. call[t].op = "none"
    BY <1>1 DEF BeginInit, Answered, AnswerInv
  <2>2. UNCHANGED serviceRequest
    BY <1>1, <2>1 DEF BeginInit, serviceRequest, IInv, TypeOK, NoCall
  <2>3. QED
    BY <1>1, <2>2 DEF BeginInit, heapVars, Service!vars
<1>2. CASE BeginCreate(t) \/ Begin(t)
  <2>1. PICK q \in Calls :
           /\ pc[t] = "idle"
           /\ q.op \in LockedOps \cup {"contextCreate"}
           /\ q.ctx \in handles[t] \cup {NULL}
           /\ call' = [call EXCEPT ![t] = q]
           /\ UNCHANGED <<live, result>>
    <3>1. CASE BeginCreate(t)
      <4>1. PICK d \in Ctxs :
               /\ call' = [call EXCEPT ![t] =
                             [NoCall EXCEPT !.op = "contextCreate",
                                            !.dst = d]]
               /\ pc[t] = "idle" /\ UNCHANGED <<live, result>>
        BY <3>1 DEF BeginCreate, FreeAddresses, heapVars
      <4>2. [NoCall EXCEPT !.op = "contextCreate", !.dst = d] \in Calls
        BY DefaultTypes DEF NoCall, Calls, Ops
      <4>3. QED
        BY <4>1, <4>2 DEF NoCall
    <3>2. CASE Begin(t)
      <4>1. PICK q \in Requests, c \in handles[t], k \in SecretKeys,
                 d \in Ctxs \cup {NULL} :
               /\ call' = [call EXCEPT ![t] =
                             [op |-> q.op, ctx |-> c, len |-> q.len,
                              key |-> k, dst |-> d]]
               /\ pc[t] = "idle" /\ UNCHANGED <<live, result>>
        BY <3>2 DEF Begin, FreeAddresses, heapVars
      <4>2. /\ [op |-> q.op, ctx |-> c, len |-> q.len, key |-> k,
                dst |-> d] \in Calls
            /\ q.op \in LockedOps
        BY RequestTypes DEF Calls, Ops, IInv, TypeOK
      <4>3. QED
        BY <4>1, <4>2
    <3>3. QED
      BY <1>2, <3>1, <3>2
  <2>2. q.op \notin {"none", "init"}
        /\ [op |-> q.op, ctx |-> q.ctx, key |-> q.key] \in Service!RequestRecords
    BY <2>1 DEF Calls, SecretKeys, LockedOps, BufferOps, GenOps, PlainOps,
       TweakOps, Service!RequestRecords, Service!Signs, Service!Functions
  <2>3. serviceRequest' = [serviceRequest EXCEPT ![t] =
                             [op |-> q.op, ctx |-> q.ctx, key |-> q.key]]
    BY <2>1, <2>2 DEF serviceRequest, IInv, TypeOK
  <2>4. serviceRequest[t] = Service!NoRequest
    BY <2>1 DEF serviceRequest, Service!NoRequest, Answered, AnswerInv
  <2>5. q.ctx \in live \cup {NULL}
    BY <2>1 DEF IInv, HandleInv
  <2>6. QED
    BY <2>1, <2>2, <2>3, <2>4, <2>5 DEF Service!Call
<1>3. CASE Forget(t) \/ \E u \in Threads \ {t} : Share(t, u)
  BY <1>3, Unseen DEF Forget, Share, locals, heapVars
<1>4. QED
  BY <1>1, <1>2, <1>3 DEF Client

\* The steps in between: locks, buffers, loading, half multiplications.
LEMMA UnseenStep ==
    ASSUME NEW t \in Threads,
           \/ InitStep(t) \/ CreateEnabled(t) \/ EnterMonitor(t)
           \/ StageCall(t) \/ LockRead(t) \/ LockWrite(t) \/ Unlock(t)
           \/ MultiplyStart(t) \/ CloneStart(t) \/ RandomizeStart(t)
    PROVE  UNCHANGED Service!vars
BY Unseen DEF InitStep, InitCheck, Load, Disable, SetInstance,
   CreateEnabled, EnterMonitor, StageCall, LockRead, LockWrite, Unlock,
   MultiplyStart, CloneStart, RandomizeStart, locals, heapVars

\* For any number of threads and contexts and any group order, a client
\* of NativeSecp256k1 sees what it would see of CurveService: each call
\* takes effect at one moment, with the answer its key demands.
THEOREM Atomicity == Spec => ImplementsService
<1>1. IInv /\ Answered /\ [Next]_vars => [Service!Next]_(Service!vars)
  <2> SUFFICES ASSUME IInv, Answered, [Next]_vars
               PROVE  Service!Next \/ UNCHANGED Service!vars
    OBVIOUS
  <2>1. CASE UNCHANGED vars
    BY <2>1, Unseen DEF vars, heapVars, locals
  <2>2. ASSUME NEW t \in Threads, Step(t) \/ Client(t)
        PROVE  Service!Next \/ UNCHANGED Service!vars
    BY <2>2, ThrowStep, AllocateStep, MultiplyStep, ApplyStep, CleanupStep,
       ReturnStep, ServiceClientStep, UnseenStep
       DEF Step, CreateStep, JavaStep, NativeStep, Service!Next
  <2>3. QED
    BY <2>1, <2>2 DEF Next
<1>2. QED
  BY <1>1, ServiceInit, Invariance, AnsweredInit, AnsweredNext, PTL
     DEF Spec, ImplementsService, Service!Spec

---------------------------------------------------------------------------
(* What a step of thread t may do to what threads share.                   *)

\* A thread whose variables the step leaves alone.
Kept(u) ==
    /\ pc'[u] = pc[u] /\ call'[u] = call[u] /\ result'[u] = result[u]
    /\ scalar'[u] = scalar[u] /\ handles'[u] = handles[u]
    /\ prog'[u] = prog[u] /\ secret'[u] = secret[u] /\ ctx'[u] = ctx[u]
    /\ pub'[u] = pub[u]

\* No context comes or goes ...
Neutral(t) ==
    /\ live' = live
    /\ handles'[t] \subseteq handles[t] \cup {NULL}
    /\ call'[t].dst \in FreeAddresses \cup {NULL, call[t].dst}

\* ... or t allocates the one it was going to, or frees the one it cleans up.
Allocates(t) ==
    /\ live' = live \cup {call[t].dst}
    /\ Allocating(t)
    /\ handles'[t] = handles[t] \cup {call[t].dst}
    /\ call'[t].dst = call[t].dst
    /\ Holds(t, call[t].dst)'
Frees(t) ==
    /\ live' = live \ {call[t].ctx}
    /\ Cleaning(t) \/ call[t].ctx = NULL
    /\ handles'[t] = handles[t]
    /\ call'[t].dst = call[t].dst

\* A context t held is still held by t, unless it is gone.
KeepsHold(t) == \A c \in live : Holds(t, c) /\ c \in live' => Holds(t, c)'

OwnInv(t) == ProgInv(t) /\ ContextInv(t) /\ OutcomeInv(t)

\* A step that is right for its own thread is right for the others.
LEMMA Frame ==
    ASSUME IInv, UseInv, NEW t \in Threads, ClientTypeOK', OwnInv(t)',
           \A u \in Threads \ {t} : Kept(u),
           Neutral(t) \/ Allocates(t) \/ Frees(t),
           KeepsHold(t), loaded => loaded', Allocates(t) => loaded'
    PROVE  UseInv'
<1>1. live \subseteq Ctxs /\ NULL \notin Ctxs
  BY NullAssumption DEF IInv, TypeOK
<1>2. \A u \in Threads : handles[u] \subseteq live \cup {NULL}
  BY DEF IInv, HandleInv
<1>3. Allocates(t) => call[t].dst \in Ctxs /\ call[t].dst \notin live
  BY DEF IInv, AllocInv, Allocates
<1>4. Frees(t) => \A u \in Threads : call[t].ctx \notin handles[u]
                                     \/ call[t].ctx = NULL
  BY DEF IInv, HandleInv, Frees
<1>5. SeparateInv'
  <2>1. ASSUME NEW u \in Threads \ {t}
        PROVE  /\ handles'[t] \cap handles'[u] \subseteq {NULL}
               /\ call'[t].dst # NULL => call'[t].dst # call'[u].dst
    <3>1. CASE Neutral(t)
      BY <2>1, <3>1 DEF UseInv, SeparateInv, Kept, Neutral, FreeAddresses
    <3>2. CASE Allocates(t)
      BY <1>1, <1>2, <1>3, <2>1, <3>2 DEF UseInv, SeparateInv, Kept,
         Allocates
    <3>3. CASE Frees(t)
      BY <2>1, <3>3 DEF UseInv, SeparateInv, Kept, Frees
    <3>4. QED
      BY <3>1, <3>2, <3>3
  <2>2. ASSUME NEW u \in Threads, NEW v \in Threads, u # v
        PROVE  /\ handles'[u] \cap handles'[v] \subseteq {NULL}
               /\ call'[u].dst # NULL => call'[u].dst # call'[v].dst
    <3>1. CASE u = t
      BY <2>1, <2>2, <3>1
    <3>2. CASE v = t
      BY <2>1, <2>2, <3>2
    <3>3. CASE u # t /\ v # t
      BY <2>2, <3>3 DEF UseInv, SeparateInv, Kept
    <3>4. QED
      BY <3>1, <3>2, <3>3
  <2>3. QED
    BY <2>2 DEF SeparateInv
<1>6. ASSUME NEW u \in Threads \ {t}
      PROVE  OwnInv(u)'
  <2>1. Kept(u) /\ ProgInv(u) /\ ContextInv(u) /\ OutcomeInv(u)
    BY <1>6 DEF UseInv
  <2>2. ProgInv(u)'
    BY <2>1 DEF ProgInv, Kept, CallOf
  <2>3. OutcomeInv(u)'
    BY <2>1 DEF OutcomeInv, Kept
  <2>4. ContextInv(u)'
    <3>1. call[u].dst \in live' /\ call[u].dst \notin live => FALSE
      <4>1. CASE Allocates(t)
        <5>1. call[t].dst # NULL
          BY <1>1, <1>3, <4>1
        <5>2. call[t].dst # call[u].dst
          BY <1>6, <5>1 DEF UseInv, SeparateInv
        <5>3. QED
          BY <4>1, <5>2 DEF Allocates
      <4>2. CASE ~Allocates(t)
        BY <4>2 DEF Neutral, Frees
      <4>3. QED
        BY <4>1, <4>2
    <3>2. call[u].dst \in live /\ call[u].dst \in handles[u]
             => call[u].dst \in live'
      BY <1>1, <1>4, <1>6 DEF Neutral, Allocates, Frees
    <3>3. QED
      BY <2>1, <3>1, <3>2 DEF ContextInv, Kept
  <2>5. QED
    BY <2>2, <2>3, <2>4 DEF OwnInv
<1>7. NoContextLeft'
  <2>1. ASSUME NEW c \in live'
        PROVE  \E u \in Threads : Holds(u, c)'
    <3>1. CASE c \in live
      <4>1. PICK u \in Threads : Holds(u, c)
        BY <3>1 DEF UseInv, NoContextLeft
      <4>2. CASE u = t
        BY <2>1, <3>1, <4>1, <4>2 DEF KeepsHold
      <4>3. CASE u # t
        <5>1. Kept(u)
          BY <4>3
        <5>2. Holds(u, c)'
          BY <4>1, <5>1 DEF Holds, Kept
        <5>3. QED
          BY <5>2
      <4>4. QED
        BY <4>2, <4>3
    <3>2. CASE c \notin live
      BY <2>1, <3>2 DEF Neutral, Allocates, Frees
    <3>3. QED
      BY <3>1, <3>2
  <2>2. QED
    BY <2>1 DEF NoContextLeft
<1>8. live' # {} => loaded'
  BY DEF UseInv, Neutral, Allocates, Frees
<1>9. QED
  BY <1>5, <1>6, <1>7, <1>8 DEF UseInv, OwnInv

---------------------------------------------------------------------------
(* Steps inside the class.                                                 *)

\* The calls these clients make.
LEMMA CallsMade ==
    ASSUME IInv, UseInv, NEW t \in Threads, pc[t] # "idle"
    PROVE  \/ prog[t] = "init" /\ call[t].op = "init"
           \/ prog[t] \in Creating /\ call[t].op = "contextCreate"
           \/ prog[t] = "compute" /\ call[t].op = "computePubkey"
              /\ call[t].len = ComputeArgs /\ call[t].key = secret[t].key
              /\ call[t].ctx = ctx[t] /\ call[t].dst = NULL
           \/ prog[t] = "sign" /\ call[t].op = "signRecoverable"
              /\ call[t].len = SignArgs /\ call[t].key = secret[t].key
              /\ call[t].ctx = ctx[t] /\ call[t].dst = NULL
           \/ prog[t] \in Cleanups /\ call[t].op = "contextCleanup"
              /\ call[t].ctx = ctx[t] /\ call[t].dst = NULL
<1>1. prog[t] \in Progs /\ ProgInv(t)
  BY DEF UseInv, ClientTypeOK
<1>2. prog[t] \in {"init", "compute", "sign"} \cup Creating \cup Cleanups
  BY <1>1 DEF Progs, ProgInv, Creating, Cleanups
<1>3. CASE prog[t] \in {"init"} \cup Creating
  BY <1>1, <1>3 DEF ProgInv
<1>4. CASE prog[t] = "compute"
  BY <1>1, <1>4 DEF ProgInv, CallOf
<1>5. CASE prog[t] = "sign"
  BY <1>1, <1>5 DEF ProgInv, CallOf
<1>6. CASE prog[t] \in Cleanups
  BY <1>1, <1>6 DEF ProgInv, CallOf
<1>7. QED
  BY <1>2, <1>3, <1>4, <1>5, <1>6

\* Where in the class each of them can be.
LEMMA CallPlaces ==
    ASSUME IInv, UseInv, NEW t \in Threads
    PROVE  /\ pc[t] \in {"init", "load", "disable", "instance"}
                 => prog[t] = "init"
           /\ pc[t] \in {"create", "alloc"} => prog[t] \in Creating
           /\ pc[t] = "monitor" => prog[t] \in Cleanups
           /\ pc[t] \in {"stage", "native2"} => prog[t] \in {"compute", "sign"}
           /\ pc[t] \in {"lock", "native", "unlock"}
                 => prog[t] \in {"compute", "sign"} \cup Cleanups
<1>1. pc[t] # "idle"
        => \/ prog[t] = "init" /\ call[t].op = "init"
           \/ prog[t] \in Creating /\ call[t].op = "contextCreate"
           \/ prog[t] = "compute" /\ call[t].op = "computePubkey"
           \/ prog[t] = "sign" /\ call[t].op = "signRecoverable"
           \/ prog[t] \in Cleanups /\ call[t].op = "contextCleanup"
  BY CallsMade
<1>2. QED
  BY <1>1 DEF IInv, OpInv, LockedOps, BufferOps, GenOps, PlainOps, TweakOps,
     SyncOps

\* A step that moves t on inside its call and does nothing else.
Moves(t) ==
    /\ pc[t] # "idle"
    /\ \E l \in Pcs \ {"idle", "native2"} :
          /\ pc' = [pc EXCEPT ![t] = l]
          /\ l \in {"unlock", "return"} => prog[t] = "init" \/ pc[t] = "unlock"
    /\ loaded => loaded'
    /\ UNCHANGED <<live, handles, call, scalar, result, clientVars>>

LEMMA MovingActions ==
    ASSUME IInv, UseInv, NEW t \in Threads, UNCHANGED clientVars,
           \/ InitStep(t) \/ CreateEnabled(t) \/ EnterMonitor(t)
           \/ StageCall(t) \/ LockRead(t) \/ LockWrite(t) \/ Unlock(t)
    PROVE  Moves(t)
<1>1. CASE InitStep(t)
  <2>1. prog[t] = "init"
    BY <1>1, CallPlaces DEF InitStep, InitCheck, Load, Disable, SetInstance
  <2>2. PICK l \in {"load", "disable", "instance", "return"} :
           pc' = [pc EXCEPT ![t] = l]
    BY <1>1 DEF InitStep, InitCheck, Load, Disable, SetInstance, Goto
  <2>3. pc[t] # "idle" /\ UNCHANGED <<live, handles, call, scalar, result>>
    BY <1>1 DEF InitStep, InitCheck, Load, Disable, SetInstance, locals,
       heapVars
  <2>4. loaded => loaded'
    BY <1>1 DEF InitStep, InitCheck, Load, Disable, SetInstance, linkVars
  <2>5. QED
    BY <2>1, <2>2, <2>3, <2>4 DEF Moves, Pcs
<1>2. CASE CreateEnabled(t) \/ EnterMonitor(t) \/ StageCall(t)
           \/ LockRead(t) \/ LockWrite(t) \/ Unlock(t)
  BY <1>2 DEF Moves, CreateEnabled, EnterMonitor, StageCall, LockRead,
     LockWrite, Unlock, Goto, Pcs, locals, heapVars, linkVars
<1>3. QED
  BY <1>1, <1>2

LEMMA MovesStep ==
    ASSUME IInv, UseInv, NEW t \in Threads, Moves(t)
    PROVE  UseInv'
<1>1. PICK l \in Pcs \ {"idle", "native2"} :
         /\ pc' = [pc EXCEPT ![t] = l]
         /\ l \in {"unlock", "return"} => prog[t] = "init" \/ pc[t] = "unlock"
  BY DEF Moves
<1>2. pc'[t] = l /\ \A u \in Threads \ {t} : pc'[u] = pc[u]
  BY <1>1 DEF IInv, TypeOK
<1>3. UNCHANGED <<live, handles, call, scalar, result, prog, secret, ctx,
                  pub>> /\ (loaded => loaded') /\ pc[t] # "idle"
  BY DEF Moves, clientVars
<1>4. ClientTypeOK' /\ \A u \in Threads \ {t} : Kept(u)
  BY <1>2, <1>3 DEF UseInv, ClientTypeOK, Kept
<1>5. Neutral(t) /\ KeepsHold(t)
  <2>1. l \in {"unlock", "return"} => prog[t] = "init" \/ pc[t] = "unlock"
    BY <1>1
  <2>2. QED
    BY <1>2, <1>3, <2>1 DEF Neutral, KeepsHold, Holds, Cleanups
<1>6. ProgInv(t)'
  BY <1>2, <1>3 DEF UseInv, ProgInv, CallOf
<1>7. ContextInv(t)'
  <2>1. l = "return" => prog[t] \notin Creating
    BY <1>1, CallPlaces DEF Creating, Cleanups
  <2>2. QED
    BY <1>2, <1>3, <2>1 DEF UseInv, ContextInv
<1>8. OutcomeInv(t)'
  BY <1>1, <1>2, <1>3 DEF UseInv, OutcomeInv
<1>9. ~Allocates(t) \/ loaded'
  BY <1>3 DEF Allocates, IInv, AllocInv
<1>10. QED
  BY <1>3, <1>4, <1>5, <1>6, <1>7, <1>8, <1>9, Frame DEF OwnInv

\* A step that settles the outcome of t's call, and what makes it right.
Answers(t) ==
    /\ pc[t] \notin {"idle", "unlock", "return"}
    /\ \E r \in Results, l \in {"unlock", "return"} :
          /\ result' = [result EXCEPT ![t] = r]
          /\ pc' = [pc EXCEPT ![t] = l]
          /\ r.kind # "none"
          /\ prog[t] \in Creating => r.kind \in Thrown \/ NULL \in handles'[t]
          /\ prog[t] = "compute" /\ r.kind \in Thrown => ctx[t] = NULL
          /\ prog[t] = "compute" /\ r.kind = "value" => pc[t] = "native2"
          /\ prog[t] = "sign" => r.kind = "value"
          /\ prog[t] \in Cleanups => ctx[t] = NULL
    /\ \/ handles' = handles
       \/ handles' = [handles EXCEPT ![t] = @ \cup {NULL}]
    /\ UNCHANGED <<live, loaded, call, scalar, clientVars>>

LEMMA AnswersStep ==
    ASSUME IInv, UseInv, NEW t \in Threads, Answers(t)
    PROVE  UseInv'
<1>1. PICK r \in Results, l \in {"unlock", "return"} :
         /\ result' = [result EXCEPT ![t] = r]
         /\ pc' = [pc EXCEPT ![t] = l]
         /\ r.kind # "none"
         /\ prog[t] \in Creating => r.kind \in Thrown \/ NULL \in handles'[t]
         /\ prog[t] = "compute" /\ r.kind \in Thrown => ctx[t] = NULL
         /\ prog[t] = "compute" /\ r.kind = "value" => pc[t] = "native2"
         /\ prog[t] = "sign" => r.kind = "value"
         /\ prog[t] \in Cleanups => ctx[t] = NULL
  BY DEF Answers
<1>2. /\ pc'[t] = l /\ result'[t] = r
      /\ handles'[t] \in {handles[t], handles[t] \cup {NULL}}
      /\ \A u \in Threads \ {t} : /\ pc'[u] = pc[u]
                                  /\ result'[u] = result[u]
                                  /\ handles'[u] = handles[u]
  BY <1>1 DEF IInv, TypeOK, Answers
<1>3. /\ UNCHANGED <<live, loaded, call, scalar, prog, secret, ctx, pub>>
      /\ pc[t] \notin {"idle", "unlock", "return"}
  BY DEF Answers, clientVars
<1>4. ClientTypeOK' /\ \A u \in Threads \ {t} : Kept(u)
  BY <1>2, <1>3 DEF UseInv, ClientTypeOK, Kept
<1>5. Neutral(t)
  BY <1>2, <1>3 DEF Neutral
<1>6. KeepsHold(t)
  <2>1. NULL \notin live
    BY NullAssumption DEF IInv, TypeOK
  <2>2. QED
    BY <1>1, <1>2, <1>3, <2>1 DEF KeepsHold, Holds
<1>7. ProgInv(t)'
  BY <1>2, <1>3 DEF UseInv, ProgInv, CallOf
<1>8. ContextInv(t)'
  <2>1. prog[t] \in Creating => Allocating(t)
    <3>1. prog[t] \in Creating => call[t].op = "contextCreate"
      BY <1>3, CallsMade DEF Creating, Cleanups
    <3>2. prog[t] \in Creating => pc[t] \in {"create", "alloc"}
      BY <1>3, CallPlaces DEF Creating, Cleanups, IInv, TypeOK, Pcs
    <3>3. QED
      BY <3>1, <3>2 DEF Allocating
  <2>2. prog[t] \in Creating => call[t].dst \notin live
    BY <2>1 DEF IInv, AllocInv
  <2>3. QED
    BY <1>1, <1>2, <1>3, <2>2 DEF UseInv, ContextInv, Cleanups, Creating
<1>9. OutcomeInv(t)'
  BY <1>1, <1>2, <1>3 DEF UseInv, OutcomeInv, Thrown
<1>10. ~Allocates(t) \/ loaded'
  BY <1>3 DEF Allocates, IInv, AllocInv
<1>11. QED
  BY <1>3, <1>4, <1>5, <1>6, <1>7, <1>8, <1>9, <1>10, Frame DEF OwnInv

\* Without the library there is no context to use or to clean up.
LEMMA UnlinkedMeansNull ==
    ASSUME IInv, UseInv, NEW t \in Threads, ~loaded, pc[t] = "native"
    PROVE  prog[t] \in {"compute"} \cup Cleanups /\ ctx[t] = NULL
<1>1. live = {} /\ handles[t] \subseteq {NULL}
  BY DEF UseInv, IInv, HandleInv
<1>2. prog[t] \in {"compute", "sign"} => ctx[t] = NULL
  BY <1>1 DEF UseInv, ContextInv
<1>3. prog[t] # "sign"
  BY DEF UseInv, OutcomeInv, Paired
<1>4. prog[t] \in Cleanups => ctx[t] = NULL
  BY <1>1, CallsMade DEF Cleanups, Creating, IInv, HandleInv, Cleaning
<1>5. QED
  BY <1>2, <1>3, <1>4, CallPlaces

LEMMA AnsweringActions ==
    ASSUME IInv, IInv', UseInv, NEW t \in Threads, UNCHANGED clientVars,
           \/ CreateDisabled(t) \/ CreateUnlinked(t) \/ NotLinked(t)
           \/ InvalidKey(t) \/ MultiplyEnd(t)
    PROVE  Answers(t)
<1> USE DEF Give, Goto, Outcome, locals, heapVars, linkVars, Creating,
            Cleanups
<1>1. CASE CreateDisabled(t)
  <2>1. prog[t] \in Creating /\ Outcome("value") \in Results
    BY <1>1, CallPlaces, DefaultTypes DEF CreateDisabled, Kinds
  <2>2. NULL \in handles'[t]
    BY <1>1 DEF CreateDisabled, IInv, TypeOK
  <2>3. QED
    BY <1>1, <2>1, <2>2 DEF CreateDisabled, Answers
<1>2. CASE CreateUnlinked(t)
  <2>1. prog[t] \in Creating /\ Outcome("UnsatisfiedLink") \in Results
    BY <1>2, CallPlaces, DefaultTypes DEF CreateUnlinked, Kinds, Thrown
  <2>2. QED
    BY <1>2, <2>1 DEF CreateUnlinked, Answers, Thrown
<1>3. CASE NotLinked(t)
  <2>1. prog[t] \in {"compute"} \cup Cleanups /\ ctx[t] = NULL
    BY <1>3, UnlinkedMeansNull DEF NotLinked
  <2>2. Outcome("UnsatisfiedLink") \in Results
    BY DefaultTypes DEF Kinds, Thrown
  <2>3. QED
    BY <1>3, <2>1, <2>2 DEF NotLinked, Answers
<1>4. CASE InvalidKey(t)
  <2>1. /\ call[t].op \in GenOps
        /\ prog[t] \in {"compute", "sign"} \cup Cleanups
    BY <1>4, CallPlaces DEF InvalidKey, Runs
  <2>2. prog[t] = "compute"
    BY <1>4, <2>1, CallsMade
       DEF InvalidKey, Runs, GenOps, UseInv, OutcomeInv, Paired
  <2>3. Outcome("invalid") \in Results
    BY DefaultTypes DEF Kinds
  <2>4. QED
    BY <1>4, <2>2, <2>3 DEF InvalidKey, Runs, Answers, Thrown
<1>5. CASE MultiplyEnd(t)
  <2>1. prog[t] \in {"compute", "sign"} /\ pc[t] = "native2"
    BY <1>5, CallPlaces DEF MultiplyEnd, Runs
  <2>2. /\ result' = [result EXCEPT ![t] = result'[t]]
        /\ result'[t] \in Results /\ result'[t].kind = "value"
    BY <1>5 DEF MultiplyEnd, IInv, TypeOK
  <2>3. QED
    BY <1>5, <2>1, <2>2 DEF MultiplyEnd, Answers, Thrown
<1>6. QED
  BY <1>1, <1>2, <1>3, <1>4, <1>5

\* The arguments of these clients pass the checks and fit the buffers, and
\* they neither clone nor randomize contexts.
LEMMA ActionsNotTaken ==
    ASSUME IInv, UseInv, NEW t \in Threads
    PROVE  ~ (\/ RejectCall(t) \/ OverflowCall(t) \/ Plain(t)
              \/ CloneStart(t) \/ CloneEnd(t)
              \/ RandomizeStart(t) \/ RandomizeEnd(t))
<1>1. pc[t] # "idle" => call[t].op \in {"init", "contextCreate",
                         "computePubkey", "signRecoverable", "contextCleanup"}
  BY CallsMade
<1>2. ~(Plain(t) \/ CloneStart(t) \/ CloneEnd(t) \/ RandomizeStart(t)
        \/ RandomizeEnd(t))
  BY <1>1 DEF Plain, CloneStart, CloneEnd, RandomizeStart, RandomizeEnd,
     Runs, PlainOps, TweakOps
<1>3. pc[t] = "stage" => \/ /\ call[t].op = "computePubkey"
                            /\ call[t].len = ComputeArgs
                         \/ /\ call[t].op = "signRecoverable"
                            /\ call[t].len = SignArgs
  BY CallsMade, CallPlaces DEF Creating, Cleanups
<1>4. ~RejectCall(t)
  BY <1>3 DEF RejectCall, MeetsNull, Accepts, HasNull, NoArray, ComputeArgs, SignArgs
<1>5. ~OverflowCall(t)
  BY <1>3 DEF OverflowCall, Total, Ensured, MinCapacity, ComputeArgs,
     SignArgs, IInv, TypeOK
<1>6. QED
  BY <1>2, <1>4, <1>5

LEMMA CreateContextStep ==
    ASSUME IInv, UseInv, NEW t \in Threads, CreateContext(t),
           UNCHANGED clientVars
    PROVE  UseInv'
<1>1. /\ pc[t] = "alloc" /\ pc'[t] = "return" /\ loaded /\ loaded'
      /\ live' = live \cup {call[t].dst}
      /\ handles'[t] = handles[t] \cup {call[t].dst}
      /\ result'[t] = Outcome("value")
      /\ \A u \in Threads \ {t} : /\ pc'[u] = pc[u]
                                  /\ result'[u] = result[u]
                                  /\ handles'[u] = handles[u]
  BY DEF CreateContext, Give, Goto, IInv, TypeOK, linkVars
<1>2. UNCHANGED <<call, scalar, prog, secret, ctx, pub>>
  BY DEF CreateContext, locals, clientVars
<1>3. prog[t] \in Creating /\ call[t].op = "contextCreate"
  BY <1>1, CallPlaces, CallsMade DEF Creating, Cleanups
<1>4. ClientTypeOK' /\ \A u \in Threads \ {t} : Kept(u)
  BY <1>1, <1>2 DEF UseInv, ClientTypeOK, Kept
<1>5. Allocates(t)
  BY <1>1, <1>2, <1>3 DEF Allocates, Allocating, Holds
<1>6. KeepsHold(t)
  BY <1>1, <1>2, <1>3 DEF KeepsHold, Holds, Creating, Cleanups
<1>7. ProgInv(t)'
  BY <1>1, <1>2 DEF UseInv, ProgInv, CallOf
<1>8. ContextInv(t)' /\ OutcomeInv(t)'
  BY <1>1, <1>2, <1>3 DEF UseInv, ContextInv, OutcomeInv, Outcome, Thrown,
     Creating, Cleanups, Paired
<1>9. QED
  BY <1>1, <1>4, <1>5, <1>6, <1>7, <1>8, Frame DEF OwnInv

LEMMA DestroyStep ==
    ASSUME IInv, UseInv, NEW t \in Threads, Destroy(t), UNCHANGED clientVars
    PROVE  UseInv'
<1>1. /\ pc[t] = "native" /\ pc'[t] = "unlock" /\ loaded' = loaded
      /\ call[t].op = "contextCleanup"
      /\ live' = live \ {call[t].ctx}
      /\ result'[t] = Outcome("value")
      /\ \A u \in Threads \ {t} : /\ pc'[u] = pc[u]
                                  /\ result'[u] = result[u]
  BY DEF Destroy, Give, Goto, IInv, TypeOK, linkVars
<1>2. UNCHANGED <<handles, call, scalar, prog, secret, ctx, pub>>
  BY DEF Destroy, locals, clientVars
<1>3. prog[t] \in Cleanups /\ call[t].ctx = ctx[t] /\ call[t].dst = NULL
  BY <1>1, CallPlaces, CallsMade DEF Creating, Cleanups
<1>4. ClientTypeOK' /\ \A u \in Threads \ {t} : Kept(u)
  BY <1>1, <1>2 DEF UseInv, ClientTypeOK, Kept
<1>5. Frees(t)
  BY <1>1, <1>2 DEF Frees, Cleaning
<1>6. KeepsHold(t)
  BY <1>1, <1>2, <1>3 DEF KeepsHold, Holds, Creating, Cleanups
<1>7. ProgInv(t)'
  BY <1>1, <1>2 DEF UseInv, ProgInv, CallOf
<1>8. ContextInv(t)' /\ OutcomeInv(t)'
  BY <1>1, <1>2, <1>3 DEF UseInv, ContextInv, OutcomeInv, Outcome, Thrown,
     Creating, Cleanups, Paired
<1>9. ~Allocates(t)
  BY <1>1 DEF Allocates, Allocating
<1>10. QED
  BY <1>1, <1>4, <1>5, <1>6, <1>7, <1>8, <1>9, Frame DEF OwnInv

LEMMA MultiplyStartStep ==
    ASSUME IInv, UseInv, NEW t \in Threads, MultiplyStart(t),
           UNCHANGED clientVars
    PROVE  UseInv'
<1>1. /\ pc[t] = "native" /\ pc'[t] = "native2" /\ loaded /\ loaded'
      /\ ValidKey(call[t].key)
      /\ call[t].op = "computePubkey" => scalar'[t] = call[t].key
      /\ \A u \in Threads \ {t} : pc'[u] = pc[u] /\ scalar'[u] = scalar[u]
  BY DEF MultiplyStart, Runs, Goto, IInv, TypeOK, linkVars
<1>2. UNCHANGED <<live, handles, call, result, prog, secret, ctx, pub>>
  BY DEF MultiplyStart, heapVars, clientVars
<1>3. /\ prog[t] \in {"compute", "sign"} /\ call[t].key = secret[t].key
      /\ prog[t] = "compute" => call[t].op = "computePubkey"
  <2>1. call[t].op \in GenOps
    BY DEF MultiplyStart, Runs
  <2>2. QED
    BY <1>1, <2>1, CallsMade DEF GenOps, Creating, Cleanups
<1>4. ClientTypeOK' /\ \A u \in Threads \ {t} : Kept(u)
  BY <1>1, <1>2 DEF UseInv, ClientTypeOK, Kept
<1>5. Neutral(t) /\ KeepsHold(t)
  BY <1>1, <1>2, <1>3 DEF Neutral, KeepsHold, Holds
<1>6. ProgInv(t)'
  BY <1>1, <1>2 DEF UseInv, ProgInv, CallOf
<1>7. ContextInv(t)'
  BY <1>1, <1>2 DEF UseInv, ContextInv
<1>8. OutcomeInv(t)'
  <2>1. result[t].kind = "none"
    BY <1>1 DEF IInv, OpInv, NoResult
  <2>2. QED
    BY <1>1, <1>2, <1>3, <2>1 DEF UseInv, OutcomeInv, Paired, Thrown
<1>9. QED
  BY <1>1, <1>4, <1>5, <1>6, <1>7, <1>8, Frame DEF OwnInv

\* Every step inside the class keeps the invariant.
LEMMA InsideStep ==
    ASSUME IInv, IInv', UseInv, NEW t \in Threads, Inside(t)
    PROVE  UseInv'
<1>1. Step(t) /\ ~Return(t) /\ UNCHANGED clientVars
  BY DEF Inside, Return
<1>2. QED
  BY <1>1, MovingActions, MovesStep, AnsweringActions, AnswersStep,
     ActionsNotTaken, CreateContextStep, DestroyStep, MultiplyStartStep
     DEF Step, CreateStep, JavaStep, NativeStep

---------------------------------------------------------------------------
(* Steps of the clients themselves.                                        *)

\* Calling a method of the class begins a call as Client allows.
LEMMA CallsConform ==
    ASSUME IInv, UseInv, NEW t \in Threads,
           ComputeCall(t) \/ SignCall(t) \/ CleanupCall(t)
    PROVE  Begin(t)
<1> DEFINE Asks(q, k) ==
       /\ pc[t] = "idle"
       /\ call' = [call EXCEPT ![t] = [op |-> q.op, ctx |-> ctx[t],
                                       len |-> q.len, key |-> k,
                                       dst |-> NULL]]
       /\ handles' = IF q.op = "contextCleanup"
                     THEN [handles EXCEPT ![t] = @ \ {ctx[t]}] ELSE handles
       /\ pc' = [pc EXCEPT ![t] = IF q.op = "contextCleanup"
                                  THEN "monitor" ELSE "stage"]
       /\ UNCHANGED <<linkVars, lockVars, heapVars, bufVars, scalar, acc,
                      result>>
<1>1. /\ secret[t].key \in SecretKeys /\ 0 \in SecretKeys
      /\ prog[t] \in {"compute", "sign"} => secret[t].len = 32
  BY OrderAssumption DEF UseInv, ClientTypeOK, ProgInv, SecretKeys
<1>2. PICK q \in Requests, k \in SecretKeys :
         /\ Asks(q, k)
         /\ q.op \in {"computePubkey", "signRecoverable", "contextCleanup"}
         /\ q.op \notin GenOps => k = 0
         /\ (q.op = "contextCleanup") <=> prog[t] \in Cleanups
         /\ prog[t] \in {"compute", "sign"} \cup Cleanups
  <2>1. CASE ComputeCall(t)
    <3>1. [op |-> "computePubkey", len |-> ComputeArgs] \in Requests
      BY ClientRequestsAssumption
    <3>2. Asks([op |-> "computePubkey", len |-> ComputeArgs], secret[t].key)
      BY <1>1, <2>1 DEF ComputeCall, Invoke, Goto, ComputeArgs
    <3>3. QED
      BY <1>1, <2>1, <3>1, <3>2 DEF ComputeCall, Cleanups, GenOps
  <2>2. CASE SignCall(t)
    <3>1. [op |-> "signRecoverable", len |-> SignArgs] \in Requests
      BY ClientRequestsAssumption
    <3>2. Asks([op |-> "signRecoverable", len |-> SignArgs], secret[t].key)
      BY <1>1, <2>2 DEF SignCall, Invoke, Goto, SignArgs
    <3>3. QED
      BY <1>1, <2>2, <3>1, <3>2 DEF SignCall, Cleanups, GenOps
  <2>3. CASE CleanupCall(t)
    <3>1. [op |-> "contextCleanup", len |-> NoLength] \in Requests
      BY ClientRequestsAssumption
    <3>2. Asks([op |-> "contextCleanup", len |-> NoLength], 0)
      BY <2>3 DEF CleanupCall, Invoke, Goto
    <3>3. QED
      BY <1>1, <2>3, <3>1, <3>2 DEF CleanupCall, Cleanups, GenOps
  <2>4. QED
    BY <2>1, <2>2, <2>3
<1>3. ctx[t] \in handles[t]
  BY <1>2 DEF UseInv, ContextInv
<1>4. ctx[t] # NULL => \A u \in Threads \ {t} : ctx[t] \notin handles[u]
  BY <1>3 DEF UseInv, SeparateInv
<1>5. Goto(t, CASE q.op \in SyncOps -> "monitor"
                [] q.op = "cloneContext" -> "lock"
                [] OTHER -> "stage")
  BY <1>2 DEF Goto, SyncOps
<1>6. QED
  BY <1>2, <1>3, <1>4, <1>5 DEF Begin

\* So the class, with these clients, only takes steps it was proved for.
LEMMA StepsConform ==
    ASSUME IInv, UseInv, ClientNext
    PROVE  [Next]_vars
<1>1. PICK t \in Threads : Inside(t) \/ ClientStep(t)
  BY DEF ClientNext
<1>2. CASE Inside(t)
  BY <1>2 DEF Inside, Next
<1>3. CASE KeccakMissing(t) \/ LoadKey(t) \/ WantSignature(t)
  BY <1>3 DEF KeccakMissing, LoadKey, WantSignature
<1>4. CASE InitCall(t) \/ CreateCall(t)
  BY <1>4 DEF InitCall, CreateCall, Client, Next
<1>5. CASE ComputeCall(t) \/ SignCall(t) \/ CleanupCall(t)
  BY <1>5, CallsConform DEF Client, Next
<1>6. CASE InitReturns(t) \/ CreateReturns(t) \/ CallThrows(t)
           \/ ComputeReturns(t) \/ Address(t) \/ SignReturns(t) \/ Signed(t)
  BY <1>6 DEF InitReturns, CreateReturns, CallThrows, ComputeReturns,
     Address, SignReturns, Signed, Step, JavaStep, Next
<1>7. QED
  BY <1>1, <1>2, <1>3, <1>4, <1>5, <1>6 DEF ClientStep

\* What CreateCall begins.
LEMMA CreateCallOp ==
    ASSUME IInv, NEW t \in Threads, CreateCall(t)
    PROVE  call'[t].op = "contextCreate" /\ prog[t] \in Creating
<1>1. PICK d \in FreeAddresses :
          call' = [call EXCEPT ![t] = [NoCall EXCEPT !.op = "contextCreate", !.dst = d]]
  BY DEF CreateCall, BeginCreate
<1>2. call \in [Threads -> Calls]
  BY DEF IInv, TypeOK
<1>3. call'[t] = [NoCall EXCEPT !.op = "contextCreate", !.dst = d]
  BY <1>1, <1>2
<1>4. call'[t].op = "contextCreate"
  BY <1>3 DEF NoCall
<1>5. QED
  BY <1>4 DEF CreateCall, Creating

\* Beginning a call.
LEMMA CallStep ==
    ASSUME IInv, IInv', UseInv, NEW t \in Threads,
           \/ InitCall(t) \/ CreateCall(t) \/ ComputeCall(t)
           \/ SignCall(t) \/ CleanupCall(t)
    PROVE  UseInv'
<1>1. /\ UNCHANGED <<live, loaded, scalar, result, prog, secret, ctx, pub>>
      /\ pc[t] = "idle" /\ pc'[t] \in {"init", "create", "stage", "monitor"}
      /\ \A u \in Threads \ {t} : pc'[u] = pc[u]
  BY DEF InitCall, BeginInit, CreateCall, BeginCreate, ComputeCall,
     SignCall, CleanupCall, Invoke, Goto, IInv, TypeOK, linkVars, heapVars,
     clientVars
<1>2. /\ \A u \in Threads \ {t} : call'[u] = call[u]
      /\ \A u \in Threads \ {t} : handles'[u] = handles[u]
      /\ handles'[t] \subseteq handles[t]
      /\ call'[t].dst \in FreeAddresses \cup {NULL}
  <2>1. CASE InitCall(t)
    BY <2>1 DEF InitCall, BeginInit, IInv, TypeOK, NoCall
  <2>2. CASE CreateCall(t)
    BY <2>2 DEF CreateCall, BeginCreate, IInv, TypeOK, NoCall
  <2>3. CASE ComputeCall(t)
    BY <2>3 DEF ComputeCall, Invoke, IInv, TypeOK
  <2>4. CASE SignCall(t)
    BY <2>4 DEF SignCall, Invoke, IInv, TypeOK
  <2>5. CASE CleanupCall(t)
    BY <2>5 DEF CleanupCall, Invoke, IInv, TypeOK
  <2>6. QED
    BY <2>1, <2>2, <2>3, <2>4, <2>5
<1>3. ClientTypeOK' /\ \A u \in Threads \ {t} : Kept(u)
  BY <1>1, <1>2 DEF UseInv, ClientTypeOK, Kept
<1>4. ProgInv(t)'
  <2> USE <1>1 DEF ProgInv, CallOf, UseInv, Creating, Cleanups
  <2>1. CASE InitCall(t)
    BY <2>1 DEF InitCall, BeginInit, IInv, TypeOK, NoCall
  <2>2. CASE CreateCall(t)
    BY <2>2, CreateCallOp
  <2>3. CASE ComputeCall(t)
    BY <2>3 DEF ComputeCall, Invoke, IInv, TypeOK, ComputeArgs
  <2>4. CASE SignCall(t)
    BY <2>4 DEF SignCall, Invoke, IInv, TypeOK, SignArgs
  <2>5. CASE CleanupCall(t)
    BY <2>5 DEF CleanupCall, Invoke, IInv, TypeOK
  <2>6. QED
    BY <2>1, <2>2, <2>3, <2>4, <2>5
<1>5. ContextInv(t)'
  BY <1>1 DEF UseInv, ContextInv, InitCall, CreateCall, ComputeCall,
     SignCall, CleanupCall, Invoke, IInv, TypeOK, Creating, Cleanups
<1>6. Neutral(t) /\ KeepsHold(t)
  <2>1. \A c \in live : prog[t] \in Creating => call[t].dst # c
    BY <1>1, NullAssumption DEF IInv, TypeOK, OpInv, NoCall
  <2>2. QED
    BY <1>1, <1>2, <2>1 DEF Neutral, KeepsHold, Holds
<1>7. OutcomeInv(t)'
  BY <1>1 DEF UseInv, OutcomeInv
<1>8. ~Allocates(t) \/ loaded'
  BY <1>1 DEF Allocates, Allocating
<1>9. QED
  BY <1>1, <1>3, <1>4, <1>5, <1>6, <1>7, <1>8, Frame DEF OwnInv

\* Steps between calls.
LEMMA OutsideStep ==
    ASSUME IInv, UseInv, NEW t \in Threads,
           KeccakMissing(t) \/ LoadKey(t) \/ WantSignature(t)
    PROVE  UseInv'
<1>1. UNCHANGED <<vars, ctx, pub>> /\ pc[t] = "idle"
  BY DEF KeccakMissing, LoadKey, WantSignature, Die, UseInv, ProgInv
<1>2. UNCHANGED <<live, loaded, handles, pc, call, scalar, result>>
  BY <1>1 DEF vars, linkVars, heapVars, locals
<1>3. PICK p \in Progs, s \in [key : SecretKeys, len : {0, 32}] :
         /\ prog' = [prog EXCEPT ![t] = p] /\ secret' = [secret EXCEPT ![t] = s]
         /\ \/ p = "dead"
            \/ p = "createPair" /\ s.len = 32
            \/ p = "createSign" /\ s = secret[t] /\ prog[t] = "ready"
         /\ prog[t] \in {"init", "load", "ready"}
  BY DEF KeccakMissing, LoadKey, WantSignature, Continue, Die, UseInv,
     ClientTypeOK, Progs
<1>4. /\ prog'[t] = p /\ secret'[t] = s
      /\ \A u \in Threads \ {t} : prog'[u] = prog[u] /\ secret'[u] = secret[u]
  BY <1>3 DEF UseInv, ClientTypeOK
<1>5. ClientTypeOK' /\ \A u \in Threads \ {t} : Kept(u)
  BY <1>1, <1>2, <1>3, <1>4 DEF UseInv, ClientTypeOK, Kept
<1>6. Neutral(t) /\ KeepsHold(t)
  BY <1>2, <1>3 DEF Neutral, KeepsHold, Holds, Creating, Cleanups
<1>7. result[t].kind = "none"
  BY <1>1 DEF IInv, OpInv, NoResult
<1>8. ProgInv(t)' /\ ContextInv(t)' /\ OutcomeInv(t)'
  <2>1. p = "createSign" => secret[t].len = 32
    BY <1>3 DEF UseInv, ProgInv
  <2>2. ProgInv(t)'
    BY <1>1, <1>2, <1>3, <1>4, <2>1 DEF ProgInv, Creating, Cleanups
  <2>3. ContextInv(t)' /\ OutcomeInv(t)'
    BY <1>1, <1>2, <1>3, <1>4, <1>7 DEF UseInv, ContextInv, OutcomeInv,
       Creating, Cleanups, Paired, Thrown
  <2>4. QED
    BY <2>2, <2>3
<1>9. ~Allocates(t) \/ loaded'
  BY <1>2 DEF Allocates, IInv, AllocInv
<1>10. QED
  BY <1>2, <1>5, <1>6, <1>8, <1>9, Frame DEF OwnInv

\* What the return of a call leaves behind.
LEMMA ReturnFacts ==
    ASSUME IInv, NEW t \in Threads, Return(t)
    PROVE  /\ pc[t] = "return" /\ pc'[t] = "idle"
           /\ call'[t] = NoCall /\ result'[t] = NoResult
           /\ UNCHANGED <<live, loaded, handles>>
           /\ \A u \in Threads \ {t} :
                 /\ pc'[u] = pc[u] /\ call'[u] = call[u]
                 /\ result'[u] = result[u] /\ scalar'[u] = scalar[u]
BY DEF Return, Give, Goto, IInv, TypeOK, linkVars, heapVars

\* The steps that take the outcome of a call: the client goes on to place p
\* with the context x and the public key r, and these are right for p.
Takes(t) ==
    /\ Return(t)
    /\ secret' = secret
    /\ \E p \in Progs, x \in Ctxs \cup {NULL}, r \in Results :
          /\ prog' = [prog EXCEPT ![t] = p]
          /\ ctx' = [ctx EXCEPT ![t] = x]
          /\ pub' = [pub EXCEPT ![t] = r]
          /\ p \notin {"init", "load", "dead"} => secret[t].len = 32
          /\ p \in {"compute", "sign"} \cup Cleanups => x \in handles[t]
          /\ p \in Paired \/ (p = "cleanPair" /\ r.kind = "value")
                => /\ loaded /\ ValidKey(secret[t].key)
                   /\ r.point = secret[t].key
          /\ \A c \in live :
                Holds(t, c) => p \in {"compute", "sign"} \cup Cleanups /\ x = c

LEMMA TakesStep ==
    ASSUME IInv, UseInv, NEW t \in Threads, Takes(t)
    PROVE  UseInv'
<1>1. PICK p \in Progs, x \in Ctxs \cup {NULL}, r \in Results :
         /\ prog' = [prog EXCEPT ![t] = p]
         /\ ctx' = [ctx EXCEPT ![t] = x]
         /\ pub' = [pub EXCEPT ![t] = r]
         /\ p \notin {"init", "load", "dead"} => secret[t].len = 32
         /\ p \in {"compute", "sign"} \cup Cleanups => x \in handles[t]
         /\ p \in Paired \/ (p = "cleanPair" /\ r.kind = "value")
               => /\ loaded /\ ValidKey(secret[t].key)
                  /\ r.point = secret[t].key
         /\ \A c \in live :
               Holds(t, c) => p \in {"compute", "sign"} \cup Cleanups /\ x = c
  BY DEF Takes
<1>2. /\ pc'[t] = "idle" /\ call'[t] = NoCall /\ result'[t] = NoResult
      /\ UNCHANGED <<live, loaded, handles>>
      /\ \A u \in Threads \ {t} :
            /\ pc'[u] = pc[u] /\ call'[u] = call[u]
            /\ result'[u] = result[u] /\ scalar'[u] = scalar[u]
  BY ReturnFacts DEF Takes
<1>3. /\ prog'[t] = p /\ ctx'[t] = x /\ pub'[t] = r /\ secret' = secret
      /\ \A u \in Threads \ {t} :
            prog'[u] = prog[u] /\ ctx'[u] = ctx[u] /\ pub'[u] = pub[u]
  BY <1>1 DEF UseInv, ClientTypeOK, Takes
<1>4. ClientTypeOK' /\ \A u \in Threads \ {t} : Kept(u)
  BY <1>1, <1>2, <1>3 DEF UseInv, ClientTypeOK, Kept
<1>5. Neutral(t) /\ KeepsHold(t)
  <2>1. Neutral(t)
    BY <1>2 DEF Neutral, NoCall
  <2>2. KeepsHold(t)
    BY <1>1, <1>2, <1>3 DEF KeepsHold, Holds
  <2>3. QED
    BY <2>1, <2>2
<1>6. ProgInv(t)'
  BY <1>1, <1>2, <1>3 DEF ProgInv
<1>7. ContextInv(t)'
  BY <1>1, <1>2, <1>3 DEF ContextInv
<1>8. OutcomeInv(t)'
  BY <1>1, <1>2, <1>3 DEF OutcomeInv, NoResult, Thrown
<1>9. ~Allocates(t) \/ loaded'
  BY <1>2 DEF Allocates, IInv, AllocInv
<1>10. QED
  BY <1>2, <1>4, <1>5, <1>6, <1>7, <1>8, <1>9, Frame DEF OwnInv

LEMMA TakingActions ==
    ASSUME IInv, UseInv, NEW t \in Threads,
           \/ InitReturns(t) \/ CreateReturns(t) \/ CallThrows(t)
           \/ ComputeReturns(t) \/ Address(t) \/ SignReturns(t) \/ Signed(t)
    PROVE  Takes(t)
<1> DEFINE TakesTo(p, x, r) ==
       /\ prog' = [prog EXCEPT ![t] = p]
       /\ ctx' = [ctx EXCEPT ![t] = x]
       /\ pub' = [pub EXCEPT ![t] = r]
       /\ p \notin {"init", "load", "dead"} => secret[t].len = 32
       /\ p \in {"compute", "sign"} \cup Cleanups => x \in handles[t]
       /\ p \in Paired \/ (p = "cleanPair" /\ r.kind = "value")
             => /\ loaded /\ ValidKey(secret[t].key)
                /\ r.point = secret[t].key
       /\ \A c \in live :
             Holds(t, c) => p \in {"compute", "sign"} \cup Cleanups /\ x = c
<1> USE DEF Continue, Die, Threw, Creating, Cleanups
<1>1. /\ Return(t) /\ pc[t] = "return" /\ secret' = secret
      /\ ctx[t] \in Ctxs \cup {NULL} /\ ctx = [ctx EXCEPT ![t] = ctx[t]]
      /\ pub[t] \in Results /\ pub = [pub EXCEPT ![t] = pub[t]]
      /\ result[t] \in Results /\ live \subseteq Ctxs /\ NULL \notin live
  BY NullAssumption DEF InitReturns, CreateReturns, CallThrows,
     ComputeReturns, Address, SignReturns, Signed, Return, UseInv,
     ClientTypeOK, IInv, TypeOK
<1>2. /\ prog[t] \notin {"init", "load", "dead"} => secret[t].len = 32
      /\ ContextInv(t) /\ OutcomeInv(t)
      /\ prog[t] # "init" => result[t].kind # "none"
  BY <1>1 DEF UseInv, ProgInv, OutcomeInv
<1>3. CASE InitReturns(t)
  <2>1. TakesTo("load", ctx[t], pub[t])
    BY <1>1, <1>3 DEF InitReturns, Holds, Paired
  <2>2. QED
    BY <1>1, <2>1 DEF Takes, Progs
<1>4. CASE CreateReturns(t)
  <2> DEFINE x == IF call[t].dst \in live THEN call[t].dst ELSE NULL
             p == IF prog[t] = "createPair" THEN "compute" ELSE "sign"
  <2>1. x \in handles[t]
    BY <1>1, <1>2, <1>4 DEF CreateReturns, ContextInv
  <2>2. p = "sign" => /\ loaded /\ ValidKey(secret[t].key)
                      /\ pub[t].point = secret[t].key
    BY <1>2, <1>4 DEF CreateReturns, OutcomeInv, Paired
  <2>3. TakesTo(p, x, pub[t])
    BY <1>1, <1>2, <1>4, <2>1, <2>2 DEF CreateReturns, Holds, Paired
  <2>4. p \in Progs /\ x \in Ctxs \cup {NULL}
    BY <1>1 DEF Progs
  <2>5. QED
    BY <1>1, <2>3, <2>4 DEF Takes
<1>5. CASE CallThrows(t)
  <2>1. \A c \in live : ~Holds(t, c)
    BY <1>1, <1>2, <1>5 DEF CallThrows, Holds, ContextInv, OutcomeInv
  <2>2. TakesTo("dead", ctx[t], pub[t])
    BY <1>1, <1>5, <2>1 DEF CallThrows, Paired
  <2>3. QED
    BY <1>1, <2>2 DEF Takes, Progs
<1>6. CASE ComputeReturns(t)
  <2>1. call[t].op \in GenOps
    BY <1>1, <1>6, CallsMade DEF ComputeReturns, GenOps
  <2>2. result[t].kind = "value"
          => /\ loaded /\ ValidKey(secret[t].key)
             /\ result[t].point = secret[t].key
    BY <1>2, <1>6, <2>1 DEF ComputeReturns, OutcomeInv, IInv, GenCorrect
  <2>3. TakesTo("cleanPair", ctx[t], result[t])
    BY <1>1, <1>2, <1>6, <2>2 DEF ComputeReturns, ContextInv, Holds, Paired
  <2>4. QED
    BY <1>1, <2>3 DEF Takes, Progs
<1>7. CASE Address(t)
  <2>1. UNCHANGED <<ctx, pub>> /\ \A c \in live : ~Holds(t, c)
    BY <1>1, <1>7 DEF Address, Holds
  <2>2. CASE pub[t].kind = "value"
    <3>1. TakesTo("ready", ctx[t], pub[t])
      BY <1>1, <1>2, <1>7, <2>1, <2>2 DEF Address, OutcomeInv, Paired
    <3>2. QED
      BY <1>1, <3>1 DEF Takes, Progs
  <2>3. CASE pub[t].kind # "value"
    <3>1. TakesTo("dead", ctx[t], pub[t])
      BY <1>1, <1>7, <2>1, <2>3 DEF Address, Paired
    <3>2. QED
      BY <1>1, <3>1 DEF Takes, Progs
  <2>4. QED
    BY <2>2, <2>3
<1>8. CASE SignReturns(t)
  <2>1. result[t].kind = "value"
    BY <1>2, <1>8 DEF SignReturns, OutcomeInv
  <2>2. TakesTo("cleanSign", ctx[t], pub[t])
    BY <1>1, <1>2, <1>8, <2>1 DEF SignReturns, ContextInv, OutcomeInv, Holds,
       Paired
  <2>3. QED
    BY <1>1, <2>2 DEF Takes, Progs
<1>9. CASE Signed(t)
  <2>1. TakesTo("ready", ctx[t], pub[t])
    BY <1>1, <1>2, <1>9 DEF Signed, OutcomeInv, Holds, Paired
  <2>2. QED
    BY <1>1, <2>1 DEF Takes, Progs
<1>10. QED
  BY <1>3, <1>4, <1>5, <1>6, <1>7, <1>8, <1>9

---------------------------------------------------------------------------
(* The invariant, and what follows from it.                                *)

LEMMA UseInit == ClientInit => UseInv
<1> SUFFICES ASSUME ClientInit PROVE UseInv
  OBVIOUS
<1> USE DEF ClientInit, Init
<1>1. ClientTypeOK
  BY DefaultTypes, OrderAssumption
     DEF ClientTypeOK, Progs, NoSecret, SecretKeys
<1>2. \A t \in Threads : ProgInv(t) /\ ContextInv(t) /\ OutcomeInv(t)
  BY DEF ProgInv, ContextInv, OutcomeInv, Creating, Cleanups, Paired,
     NoResult, Thrown
<1>3. SeparateInv /\ NoContextLeft
  BY DEF SeparateInv, NoContextLeft, NoCall
<1>4. QED
  BY <1>1, <1>2, <1>3 DEF UseInv

LEMMA UseNext ==
    ASSUME IInv, UseInv, [ClientNext]_<<vars, clientVars>>
    PROVE  IInv' /\ UseInv' /\ [Next]_vars
<1>1. [Next]_vars
  BY StepsConform
<1>2. IInv'
  BY <1>1, NextInv
<1>3. CASE ClientNext
  <2>1. PICK t \in Threads : Inside(t) \/ ClientStep(t)
    BY <1>3 DEF ClientNext
  <2>2. CASE Inside(t)
    BY <1>1, <1>2, <2>2, InsideStep
  <2>3. CASE \/ InitCall(t) \/ CreateCall(t) \/ ComputeCall(t)
             \/ SignCall(t) \/ CleanupCall(t)
    BY <1>1, <1>2, <2>3, CallStep
  <2>4. CASE KeccakMissing(t) \/ LoadKey(t) \/ WantSignature(t)
    BY <1>1, <1>2, <2>4, OutsideStep
  <2>5. CASE \/ InitReturns(t) \/ CreateReturns(t) \/ CallThrows(t)
             \/ ComputeReturns(t) \/ Address(t) \/ SignReturns(t)
             \/ Signed(t)
    BY <1>1, <1>2, <2>5, TakingActions, TakesStep
  <2>6. QED
    BY <2>1, <2>2, <2>3, <2>4, <2>5 DEF ClientStep
<1>4. CASE UNCHANGED <<vars, clientVars>>
  <2>1. UNCHANGED <<live, loaded, handles, pc, call, scalar, result, prog,
                    secret, ctx, pub>>
    BY <1>4 DEF vars, clientVars, linkVars, heapVars, locals
  <2>2. ClientTypeOK' /\ SeparateInv' /\ (live # {} => loaded)'
    BY <2>1 DEF UseInv, ClientTypeOK, SeparateInv
  <2>3. ASSUME NEW t \in Threads
        PROVE  ProgInv(t)' /\ ContextInv(t)' /\ OutcomeInv(t)'
    BY <2>1 DEF UseInv, ProgInv, CallOf, ContextInv, OutcomeInv
  <2>4. NoContextLeft'
    BY <2>1 DEF UseInv, NoContextLeft, Holds
  <2>5. QED
    BY <1>1, <1>2, <2>2, <2>3, <2>4 DEF UseInv
<1>5. QED
  BY <1>1, <1>2, <1>3, <1>4

\* Every step of the clients is one the class was specified for: with any
\* number of signing threads, each context is in the hands of one of them,
\* allocated when it is passed and cleaned up once.  What is proved of
\* NativeSecp256k1 thus holds in this program.
THEOREM Conformance == ClientSpec => ClientsConform
<1>1. ClientInit => Init /\ IInv /\ UseInv
  BY InitInv, UseInit DEF ClientInit
<1>2. QED
  BY <1>1, UseNext, PTL DEF ClientSpec, ClientsConform, Spec

LEMMA UseInvariance == ClientSpec => [](IInv /\ UseInv)
<1>1. ClientInit => IInv /\ UseInv
  BY InitInv, UseInit DEF ClientInit
<1>2. QED
  BY <1>1, UseNext, PTL DEF ClientSpec

\* Although no cleanup is in a finally block, no exception of these clients
\* leaves an allocated context behind.
THEOREM NothingLeft == ClientSpec => []NoContextLeft
<1>1. UseInv => NoContextLeft
  BY DEF UseInv
<1>2. QED
  BY <1>1, UseInvariance, PTL

\* A KeyPair holds a valid private key and its own public key.
THEOREM PairsAreValid == ClientSpec => []PairsValid
<1>1. ASSUME UseInv, NEW t \in Threads, prog[t] \in Paired
      PROVE  ValidKey(secret[t].key) /\ pub[t].point = secret[t].key
  BY <1>1 DEF UseInv, OutcomeInv
<1>2. UseInv => PairsValid
  BY <1>1 DEF PairsValid
<1>3. QED
  BY <1>2, UseInvariance, PTL

\* The assertions "r_sig != null" never fail.
THEOREM SignaturesReturned == ClientSpec => []SignatureNotNull
<1>1. UseInv => SignatureNotNull
  BY DEF UseInv, OutcomeInv, SignatureNotNull
<1>2. QED
  BY <1>1, UseInvariance, PTL
=============================================================================
