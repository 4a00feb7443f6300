------------------------------ MODULE MultiVar -----------------------------
(***************************************************************************)
(* secp256k1_ecmult_multi_var: a sum of any number of multiples of points, *)
(* which a callback supplies, is cut into batches whose tables fit the     *)
(* scratch space, and each batch goes through Strauss's or Pippenger's     *)
(* algorithm.  (What the two compute with the points of a batch is the     *)
(* subject of Multiply.)                                                   *)
(*                                                                         *)
(* A sum is how often it contains G and each point: [g, pts].              *)
(***************************************************************************)
EXTENDS Scratch

CONSTANTS
    NULL,           \* no scratch space, no result
    \* sizeof of the types in the tables
    GeSize, GejSize, FeSize, ScalarSize, IntSize,
    PointStateSize, PippengerStateSize, StraussStateSize,
    TableSize,      \* ECMULT_TABLE_SIZE(WINDOW_A)
    MaxWindow,      \* PIPPENGER_MAX_BUCKET_WINDOW
    BucketCount,    \* 1 << w for each window
    WnafSize,       \* WNAF_SIZE(w + 1) for each window
    WindowInv,      \* bucket_window_inv: up to how many points use it
    Threshold,      \* ECMULT_PIPPENGER_THRESHOLD
    MaxBatch,       \* ECMULT_MAX_POINTS_PER_BATCH
    MaxPoints,      \* the most points a caller sums (a bound)
    ScratchSizes,   \* sizes scratch spaces are created with
    ReservedSizes,  \* sizes of the frames of a caller
    SingleCounts    \* how many points are summed in a single batch

Windows == 1 .. MaxWindow
Points == 0 .. MaxPoints - 1

ASSUME SizeAssumption ==
    /\ GeSize \in Nat \ {0} /\ GejSize \in Nat \ {0} /\ FeSize \in Nat \ {0}
    /\ ScalarSize \in Nat \ {0} /\ IntSize \in Nat \ {0}
    /\ PointStateSize \in Nat \ {0} /\ PippengerStateSize \in Nat \ {0}
    /\ StraussStateSize \in Nat \ {0} /\ TableSize \in Nat \ {0}

ASSUME WindowAssumption ==
    /\ MaxWindow \in Nat \ {0}
    /\ BucketCount \in [Windows -> Nat \ {0}]
    /\ WnafSize \in [Windows -> Nat \ {0}]
    /\ WindowInv \in [Windows -> Nat \ {0}]
    /\ \A v, w \in Windows : v < w => WindowInv[v] < WindowInv[w]
    /\ WindowInv[MaxWindow] = SIZE_MAX

ASSUME NullAssumption ==
    /\ NULL \notin Nat
    /\ NULL \notin [max_size : Nat, frame : Nat,
                    frame_size : [Frames -> Nat], offset : [Frames -> Nat]]

ASSUME BatchAssumption ==
    /\ Threshold \in Nat \ {0} /\ MaxBatch \in Nat \ {0}
    /\ MaxPoints \in Nat /\ MaxPoints <= SIZE_MAX
    /\ ScratchSizes \subseteq 0 .. SIZE_MAX
    /\ ReservedSizes \subseteq Nat /\ SingleCounts \subseteq 0 .. MaxPoints

Objects == 6    \* STRAUSS_SCRATCH_OBJECTS, PIPPENGER_SCRATCH_OBJECTS

VARIABLES
    scratch,        \* the scratch space, or NULL
    reserved,       \* how many of its frames are the caller's
    pc,
    args,           \* the call: [n, g, planned]
    max_alloc, bucket_window, res,      \* of pippenger_max_points
    f, n_batches, n_batch_points, i, n, \* of multi_var
    objs,           \* how many objects of the batch have been allocated
    null,           \* one of them was NULL
    point_idx,      \* how many points of the batch the callback supplied
    tmp, r,         \* the sum of the batch, and of the batches before
    result          \* what the call returned, or NULL

cvars == <<max_alloc, bucket_window, res>>
bvars == <<f, n_batches, n_batch_points, i, n>>
ovars == <<objs, null, point_idx>>
vars == <<scratch, reserved, pc, args, cvars, bvars, ovars, tmp, r, result>>

Infinity == [g |-> 0, pts |-> [p \in Points |-> 0]]
OnlyG == [g |-> 1, pts |-> [p \in Points |-> 0]]
AddVar(a, b) == [g |-> a.g + b.g,
                 pts |-> [p \in Points |-> a.pts[p] + b.pts[p]]]

\* Mutant: a full last batch is followed by another.
CeilDivPlusOne(a, b) == a \div b + 1
CeilDiv(a, b) == (a + b - 1) \div b

---------------------------------------------------------------------------
(* Sizes.                                                                  *)

StraussPointSize ==
    (GeSize + GejSize + FeSize) * TableSize + StraussStateSize
    + GejSize + ScalarSize
StraussScratchSize(k) == k * StraussPointSize
StraussMaxPoints == MaxAllocation(scratch, Objects) \div StraussPointSize

BucketWindow(k) ==
    CHOOSE w \in Windows :
        k <= WindowInv[w] /\ \A v \in Windows : k <= WindowInv[v] => w <= v
EntrySize(w) ==
    GeSize + ScalarSize + PointStateSize + (WnafSize[w] + 1) * IntSize
PippengerScratchSize(k, w) ==
    BucketCount[w] * GejSize + PippengerStateSize + (k + 1) * EntrySize(w)

ScratchSize(k) == IF f = "strauss" THEN StraussScratchSize(k)
                  ELSE PippengerScratchSize(k, BucketWindow(k))

\* The objects of a batch of k points, in the order they are allocated.
ObjectSizes(k) ==
    IF f = "strauss"
    THEN <<k * GejSize, k * ScalarSize, k * TableSize * GejSize,
           k * TableSize * FeSize, k * TableSize * GeSize,
           k * StraussStateSize>>
    ELSE LET w == BucketWindow(k)
         IN  <<(k + 1) * GeSize, (k + 1) * ScalarSize, PippengerStateSize,
               (k + 1) * PointStateSize, (k + 1) * WnafSize[w] * IntSize,
               BucketCount[w] * GejSize>>

---------------------------------------------------------------------------
NoArgs == [n |-> 0, g |-> FALSE, planned |-> FALSE]
Init ==
    /\ scratch = NULL /\ reserved = 0 /\ pc = "idle" /\ args = NoArgs
    /\ max_alloc = 0 /\ bucket_window = 1 /\ res = 0
    /\ f = NULL /\ n_batches = 0 /\ n_batch_points = 0 /\ i = 0 /\ n = 0
    /\ objs = 0 /\ null = FALSE /\ point_idx = 0
    /\ tmp = Infinity /\ r = Infinity /\ result = NULL

Rest == UNCHANGED <<reserved, args, cvars, bvars, ovars, tmp, r, result>>

\* scratch_space_create, whose malloc may fail, and destroy.
Create(size) ==
    /\ pc = "idle" /\ scratch = NULL
    /\ scratch' \in {NULL, Created(size)}
    /\ UNCHANGED pc /\ Rest
Destroy ==
    /\ pc = "idle" /\ scratch # NULL /\ reserved = 0
    /\ scratch' = NULL
    /\ UNCHANGED pc /\ Rest

\* The caller uses the scratch space around its calls.
Reserve(size) ==
    /\ pc = "idle" /\ scratch # NULL /\ reserved < 2
    /\ FrameFits(scratch, size, 1)
    /\ scratch' = AllocateFrame(scratch, size, 1)
    /\ reserved' = reserved + 1
    /\ UNCHANGED <<pc, args, cvars, bvars, ovars, tmp, r, result>>
Release ==
    /\ pc = "idle" /\ scratch # NULL /\ reserved > 0
    /\ scratch' = DeallocateFrame(scratch)
    /\ reserved' = reserved - 1
    /\ UNCHANGED <<pc, args, cvars, bvars, ovars, tmp, r, result>>

\* multi_var up to pippenger_max_points.
Call(k, g) ==
    /\ pc = "idle" /\ scratch # NULL
    /\ args' = [n |-> k, g |-> g, planned |-> TRUE] /\ n' = k
    /\ max_alloc' = MaxAllocation(scratch, Objects)
    /\ bucket_window' = 1 /\ res' = 0
    /\ tmp' = Infinity
    /\ r' = IF k = 0 /\ g THEN OnlyG ELSE Infinity
    /\ result' = IF k = 0 THEN 1 ELSE NULL
    /\ pc' = IF k = 0 THEN "done" ELSE "measure"
    /\ UNCHANGED <<scratch, reserved, f, n_batches, n_batch_points, i, ovars>>

\* strauss_batch_single and pippenger_batch_single: one batch of any size.
CallSingle(fun, k, g) ==
    /\ pc = "idle" /\ scratch # NULL
    /\ args' = [n |-> k, g |-> g, planned |-> FALSE] /\ n' = k
    /\ f' = fun /\ n_batches' = 1 /\ n_batch_points' = k /\ i' = 0
    /\ tmp' = Infinity /\ r' = Infinity
    /\ IF k = 0 /\ ~g THEN pc' = "done" /\ result' = 1
                      ELSE pc' = "batch" /\ result' = NULL
    /\ UNCHANGED <<scratch, reserved, cvars, ovars>>

\* A round of the loop of pippenger_max_points.
Overhead == BucketCount[bucket_window] * GejSize + EntrySize(bucket_window)
            + PippengerStateSize
Fitting == (max_alloc - Overhead) \div EntrySize(bucket_window)
Measured == IF Fitting > WindowInv[bucket_window]
            THEN WindowInv[bucket_window] ELSE Fitting
TryWindow ==
    /\ pc = "measure"
    /\ IF Overhead > max_alloc
       THEN pc' = "plan" /\ UNCHANGED cvars
       ELSE /\ res' = IF Measured > res THEN Measured ELSE res
            /\ bucket_window' = bucket_window + 1
            /\ pc' = IF Measured < WindowInv[bucket_window]
                        \/ bucket_window = MaxWindow
                     THEN "plan" ELSE "measure"
            /\ UNCHANGED max_alloc
    /\ UNCHANGED <<scratch, reserved, args, bvars, ovars, tmp, r, result>>

\* The number of batches, and the algorithm.
Planned(max_points, fun) ==
    /\ f' = fun
    /\ n_batches' = CeilDiv(n, max_points)
    /\ n_batch_points' = CeilDiv(n, CeilDiv(n, max_points))
    /\ i' = 0 /\ pc' = "batch"
    /\ UNCHANGED <<n, result>>
GiveUp == result' = 0 /\ pc' = "done" /\ UNCHANGED bvars
\* Mutant: the batches of Strauss keep the size found for Pippenger.
PlanOnce ==
    /\ pc = "plan"
    /\ LET max_points == IF res > MaxBatch THEN MaxBatch ELSE res
       IN  IF max_points = 0 THEN GiveUp
           ELSE Planned(max_points,
                        IF CeilDiv(n, CeilDiv(n, max_points)) >= Threshold
                        THEN "pippenger" ELSE "strauss")
    /\ UNCHANGED <<scratch, reserved, args, cvars, ovars, tmp, r>>
Plan ==
    /\ pc = "plan"
    /\ LET max_points == IF res > MaxBatch THEN MaxBatch ELSE res
       IN  IF max_points = 0 THEN GiveUp
           ELSE IF CeilDiv(n, CeilDiv(n, max_points)) >= Threshold
                THEN Planned(max_points, "pippenger")
                ELSE IF StraussMaxPoints = 0 THEN GiveUp
                     ELSE Planned(StraussMaxPoints, "strauss")
    /\ UNCHANGED <<scratch, reserved, args, cvars, ovars, tmp, r>>

\* strauss_batch or pippenger_batch is called for the next batch.
Nbp == IF n < n_batch_points THEN n ELSE n_batch_points
Offset == n_batch_points * i
TakesG == i = 0 /\ args.g

FrameRefused == pc' = "done" /\ result' = 0 /\ UNCHANGED <<scratch, ovars>>
BeginBatch ==
    /\ pc = "batch"
    /\ tmp' = Infinity
    /\ IF FrameFits(scratch, ScratchSize(Nbp), Objects)
       THEN \/ /\ scratch' = AllocateFrame(scratch, ScratchSize(Nbp), Objects)
               /\ objs' = 0 /\ null' = FALSE /\ point_idx' = 0
               /\ pc' = "objects" /\ UNCHANGED result
            \/ FrameRefused             \* malloc fails
       ELSE FrameRefused
    /\ UNCHANGED <<reserved, args, cvars, bvars, r>>

\* The next of the six objects.  The code does not look at the pointer.
AllocObject ==
    /\ pc = "objects"
    /\ LET size == ObjectSizes(Nbp)[objs + 1]
       IN  /\ null' = (null \/ ~AllocFits(scratch, size))
           /\ scratch' = Alloc(scratch, size)
    /\ objs' = objs + 1
    /\ pc' = IF objs + 1 = Objects THEN "points" ELSE "objects"
    /\ UNCHANGED <<reserved, args, cvars, bvars, point_idx, tmp, r, result>>

\* The callback supplies the next point, or fails.
\* Mutant: it is asked without the offset of the batch.
TakePointNoOffset ==
    /\ pc = "points" /\ point_idx < Nbp
    /\ tmp' = [g |-> tmp.g, pts |-> [tmp.pts EXCEPT ![point_idx] = @ + 1]]
    /\ point_idx' = point_idx + 1
    /\ UNCHANGED <<scratch, reserved, pc, args, cvars, bvars, objs, null, r,
                   result>>
TakePoint ==
    /\ pc = "points" /\ point_idx < Nbp
    /\ tmp' = [g |-> tmp.g,
               pts |-> [tmp.pts EXCEPT ![Offset + point_idx] = @ + 1]]
    /\ point_idx' = point_idx + 1
    /\ UNCHANGED <<scratch, reserved, pc, args, cvars, bvars, objs, null, r,
                   result>>
\* Mutant: the frame is left behind.
CallbackFailsKeepsFrame ==
    /\ pc = "points" /\ point_idx < Nbp
    /\ pc' = "done" /\ result' = 0
    /\ UNCHANGED <<scratch, reserved, args, cvars, bvars, ovars, tmp, r>>
CallbackFails ==
    /\ pc = "points" /\ point_idx < Nbp
    /\ scratch' = DeallocateFrame(scratch)
    /\ pc' = "done" /\ result' = 0
    /\ UNCHANGED <<reserved, args, cvars, bvars, ovars, tmp, r>>

\* The batch is summed, with G in the first one, and added to r.
SumBatch ==
    /\ pc = "points" /\ point_idx = Nbp
    /\ tmp' = IF TakesG THEN AddVar(tmp, OnlyG) ELSE tmp
    /\ r' = AddVar(r, tmp')
    /\ scratch' = DeallocateFrame(scratch)
    /\ n' = n - Nbp /\ i' = i + 1
    /\ IF i + 1 = n_batches THEN pc' = "done" /\ result' = 1
                            ELSE pc' = "batch" /\ UNCHANGED result
    /\ UNCHANGED <<reserved, args, cvars, f, n_batches, n_batch_points, ovars>>

\* The caller has the result; the locals are gone.
Return ==
    /\ pc = "done" /\ pc' = "idle"
    /\ args' = NoArgs
    /\ max_alloc' = 0 /\ bucket_window' = 1 /\ res' = 0
    /\ f' = NULL /\ n_batches' = 0 /\ n_batch_points' = 0 /\ i' = 0 /\ n' = 0
    /\ objs' = 0 /\ null' = FALSE /\ point_idx' = 0
    /\ tmp' = Infinity /\ r' = Infinity /\ result' = NULL
    /\ UNCHANGED <<scratch, reserved>>

Next ==
    \/ \E size \in ScratchSizes : Create(size)
    \/ \E size \in ReservedSizes : Reserve(size)
    \/ Destroy \/ Release
    \/ \E k \in 0 .. MaxPoints, g \in BOOLEAN : Call(k, g)
    \/ \E fun \in {"strauss", "pippenger"}, k \in SingleCounts, g \in BOOLEAN :
           CallSingle(fun, k, g)
    \/ TryWindow \/ Plan
    \/ BeginBatch \/ AllocObject \/ TakePoint \/ CallbackFails \/ SumBatch
    \/ Return

Spec == Init /\ [][Next]_vars

---------------------------------------------------------------------------
(* Properties.                                                             *)

\* A call that reports success has summed G, if it was given, and every
\* point exactly once, across the batches (multi_var).
Complete ==
    result = 1 => /\ r.g = IF args.g THEN 1 ELSE 0
                  /\ \A p \in Points : r.pts[p] = IF p < args.n THEN 1 ELSE 0

\* Batches that were planned to fit the scratch space fit: only malloc
\* can refuse one (pippenger_max_points, strauss_max_points).
PlannedFits ==
    pc = "batch" /\ args.planned =>
        FrameFits(scratch, ScratchSize(Nbp), Objects)

\* The tables of a batch have room in its frame however their sizes are
\* rounded: no pointer is NULL, though none is checked (the batch functions).
ObjectsFit == ~null

\* However a call ends, it leaves the caller's frames, and nothing else, on
\* the scratch space, and the caller's objects in them.
FramesReleased ==
    scratch # NULL /\ pc \in {"idle", "done"} => scratch.frame = reserved

\* "the maximum amount of memory to allocate" (scratch_space_create): the
\* frames together never have more.
WithinBudget ==
    scratch # NULL => Allocated(scratch) <= scratch.max_size

\* multi_var plans no empty batch: the last one begins before the points end.
NoEmptyBatch == pc = "batch" /\ args.planned => Nbp > 0
===========================================================================
