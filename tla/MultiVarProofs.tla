--------------------------- MODULE MultiVarProofs ---------------------------
(***************************************************************************)
(* For any sizes of the types, any scratch space and any number of points: *)
(* the batches of ecmult_multi_var cover the points once, fit the scratch  *)
(* space, and leave nothing on it.                                         *)
(*                                                                         *)
(* The heart is arithmetic: what pippenger_max_points and                  *)
(* strauss_max_points return is enough for every smaller batch, and two    *)
(* divisions rounded up make batches of which none is empty.               *)
(***************************************************************************)
EXTENDS MultiVar, NaturalsInduction, WellFoundedInduction, TLAPS

---------------------------------------------------------------------------
(* Arithmetic.                                                             *)

LEMMA DivProperties ==
    ASSUME NEW a \in Nat, NEW b \in Nat \ {0}
    PROVE  /\ a \div b \in Nat
           /\ (a \div b) * b <= a
           /\ a < (a \div b) * b + b
<1>1. a = (a \div b) * b + (a % b) /\ a % b \in 0 .. b - 1 /\ a \div b \in Nat
  OBVIOUS
<1>2. QED
  BY <1>1

LEMMA TimesMonotone ==
    ASSUME NEW a \in Nat, NEW b \in Nat, NEW c \in Nat, a <= b
    PROVE  a * c <= b * c /\ c * a <= c * b /\ a * c \in Nat
<1>1. PICK d \in Nat : b = a + d
  <2>1. b - a \in Nat /\ b = a + (b - a)
    OBVIOUS
  <2>2. QED
    BY <2>1
<1>2. b * c = a * c + d * c /\ d * c \in Nat /\ a * c \in Nat
  BY <1>1
<1>3. c * a = a * c /\ c * b = b * c
  OBVIOUS
<1>4. QED
  BY <1>2, <1>3

LEMMA Distribute ==
    ASSUME NEW q \in Nat, NEW a \in Nat, NEW b \in Nat, NEW c \in Nat,
           NEW d \in Nat, NEW e \in Nat
    PROVE  q * (a + b + c + (d + 1) * e) = q * a + q * b + q * c + q * d * e + q * e
<1>1. (d + 1) * e = d * e + e /\ d * e \in Nat
  OBVIOUS
<1>2. ASSUME NEW x \in Nat
      PROVE  q * (a + b + c + (x + e)) = q * a + q * b + q * c + q * x + q * e
  OBVIOUS
<1>3. q * (d * e) = q * d * e
  OBVIOUS
<1>4. QED
  BY <1>1, <1>2, <1>3

\* A quotient rounded up.
LEMMA CeilDivProperties ==
    ASSUME NEW a \in Nat \ {0}, NEW b \in Nat \ {0}
    PROVE  /\ CeilDiv(a, b) \in Nat \ {0}
           /\ a <= CeilDiv(a, b) * b
           /\ (CeilDiv(a, b) - 1) * b < a
<1> DEFINE c == (a + b - 1) \div b
<1>1. c \in Nat /\ c * b <= a + b - 1 /\ a + b - 1 < c * b + b
  BY DivProperties
<1>2. c # 0
  BY <1>1
<1>3. (c - 1) * b = c * b - b
  BY <1>1
<1> HIDE DEF c
<1>4. c \in Nat \ {0} /\ c * b \in Nat
  BY <1>1, <1>2
<1>5. QED
  BY <1>1, <1>3, <1>4 DEF CeilDiv, c

\* Points evened out over as few batches as max points allow: a batch has
\* no more than that many, together they have all of them, and without the
\* last they do not.
LEMMA BatchesProperties ==
    ASSUME NEW a \in Nat \ {0}, NEW max \in Nat \ {0}
    PROVE  LET c == CeilDiv(a, max)
               d == CeilDiv(a, c)
           IN  /\ c \in Nat \ {0} /\ d \in 1 .. max
               /\ a <= c * d /\ (c - 1) * d < a
<1> DEFINE c == CeilDiv(a, max)
           d == CeilDiv(a, c)
<1>1. c \in Nat \ {0} /\ a <= c * max /\ (c - 1) * max < a
  BY CeilDivProperties
<1> HIDE DEF c
<1>2. d \in Nat \ {0} /\ a <= d * c /\ (d - 1) * c < a
  BY <1>1, CeilDivProperties
<1> HIDE DEF d
<1>3. d <= max
  <2>1. SUFFICES ASSUME max <= d - 1 PROVE FALSE
    BY <1>2
  <2>2. c * max <= c * (d - 1)
    BY <1>1, <1>2, <2>1, TimesMonotone
  <2>3. c * (d - 1) = (d - 1) * c
    BY <1>1, <1>2
  <2>4. c * max \in Nat /\ (d - 1) * c \in Nat
    BY <1>1, <1>2
  <2>5. QED
    BY <1>1, <1>2, <2>2, <2>3, <2>4
<1>4. (c - 1) * d < a
  <2>1. (c - 1) * d <= (c - 1) * max /\ (c - 1) * d \in Nat
    BY <1>1, <1>2, <1>3, TimesMonotone
  <2>2. (c - 1) * max \in Nat
    BY <1>1
  <2>3. QED
    BY <1>1, <2>1, <2>2
<1>5. c * d = d * c
  BY <1>1, <1>2
<1>6. QED
  BY <1>1, <1>2, <1>3, <1>4, <1>5 DEF c, d

\* Rounding adds less than an alignment.
LEMMA RoundedBounds ==
    ASSUME NEW size \in Nat
    PROVE  Rounded(size) \in Nat /\ Rounded(size) < size + ALIGNMENT
<1>1. ALIGNMENT \in Nat \ {0}
  BY ScratchAssumption
<1> DEFINE q == (size + ALIGNMENT - 1) \div ALIGNMENT
<1>2. q \in Nat /\ q * ALIGNMENT <= size + ALIGNMENT - 1
  BY <1>1, DivProperties
<1> HIDE DEF q
<1>3. q * ALIGNMENT \in Nat
  BY <1>1, <1>2
<1>4. QED
  BY <1>1, <1>2, <1>3 DEF Rounded, q

---------------------------------------------------------------------------
(* Bucket windows.                                                         *)

LEMMA LessThan ==
    ASSUME NEW a \in Nat, NEW b \in Nat, a < b
    PROVE  <<a, b>> \in OpToRel(<, Nat)
<1>1. <<a, b>> \in Nat \X Nat /\ <<a, b>>[1] < <<a, b>>[2]
  OBVIOUS
<1>2. QED
  BY <1>1 DEF OpToRel

LEMMA LeastWindow ==
    ASSUME NEW T \in SUBSET Windows, T # {}
    PROVE  \E w \in T : \A v \in T : w <= v
<1>1. T \subseteq Nat
  BY WindowAssumption DEF Windows
<1>2. PICK w \in T : \A v \in T : ~(v < w)
  BY <1>1, WFMin, NatLessThanWellFounded, LessThan, Zenon
<1>3. \A v \in T : w <= v
  BY <1>1, <1>2
<1>4. QED
  BY <1>3

\* The window for a number of points is the least one meant for as many.
LEMMA BucketWindowProperties ==
    ASSUME NEW k \in 0 .. SIZE_MAX
    PROVE  /\ BucketWindow(k) \in Windows
           /\ k <= WindowInv[BucketWindow(k)]
           /\ \A v \in Windows : k <= WindowInv[v] => BucketWindow(k) <= v
<1> DEFINE T == {w \in Windows : k <= WindowInv[w]}
<1>1. MaxWindow \in T
  BY WindowAssumption, ScratchAssumption DEF Windows
<1>2. PICK w \in T : \A v \in T : w <= v
  BY <1>1, LeastWindow
<1>3. \E u \in Windows : /\ k <= WindowInv[u]
                         /\ \A v \in Windows : k <= WindowInv[v] => u <= v
  BY <1>2
<1>4. QED
  BY <1>3 DEF BucketWindow

LEMMA EntrySizeType ==
    ASSUME NEW w \in Windows
    PROVE  /\ EntrySize(w) \in Nat \ {0}
           /\ BucketCount[w] * GejSize \in Nat
           /\ WindowInv[w] \in Nat \ {0} /\ WindowInv[w] <= SIZE_MAX
<1>1. /\ WnafSize[w] \in Nat \ {0} /\ BucketCount[w] \in Nat \ {0}
      /\ WindowInv[w] \in Nat \ {0}
  BY WindowAssumption
<1>2. (WnafSize[w] + 1) * IntSize \in Nat
  BY <1>1, SizeAssumption
<1>3. BucketCount[w] * GejSize \in Nat
  BY <1>1, SizeAssumption
<1>4. WindowInv[w] <= SIZE_MAX
  <2>1. CASE w = MaxWindow
    BY <2>1, WindowAssumption, ScratchAssumption
  <2>2. CASE w # MaxWindow
    <3>1. MaxWindow \in Windows /\ w < MaxWindow
      BY <2>2, WindowAssumption DEF Windows
    <3>2. QED
      BY <3>1, <1>1, WindowAssumption, ScratchAssumption
  <2>3. QED
    BY <2>1, <2>2
<1>5. QED
  BY <1>1, <1>2, <1>3, <1>4, SizeAssumption DEF EntrySize

\* More points with the same window take more space.
LEMMA PippengerSizeMonotone ==
    ASSUME NEW w \in Windows, NEW k \in Nat, NEW m \in Nat, k <= m
    PROVE  /\ PippengerScratchSize(k, w) <= PippengerScratchSize(m, w)
           /\ PippengerScratchSize(k, w) \in Nat \ {0}
<1>1. EntrySize(w) \in Nat \ {0} /\ BucketCount[w] * GejSize \in Nat
  BY EntrySizeType
<1>2. /\ (k + 1) * EntrySize(w) <= (m + 1) * EntrySize(w)
      /\ (k + 1) * EntrySize(w) \in Nat /\ (m + 1) * EntrySize(w) \in Nat
  BY <1>1, TimesMonotone
<1>3. QED
  BY <1>1, <1>2, SizeAssumption DEF PippengerScratchSize

LEMMA StraussPointSizeType == StraussPointSize \in Nat \ {0}
<1>1. (GeSize + GejSize + FeSize) * TableSize \in Nat
  BY SizeAssumption
<1>2. QED
  BY <1>1, SizeAssumption DEF StraussPointSize

---------------------------------------------------------------------------
(* The invariant.                                                          *)

ScratchType(s) ==
    s \in [max_size : 0 .. SIZE_MAX, frame : 0 .. 5,
           frame_size : [Frames -> Nat], offset : [Frames -> Nat]]
InBatch == pc \in {"batch", "objects", "points"}
InFrame == pc \in {"objects", "points"}
Used == scratch # NULL \/ pc # "idle"

\* The caller's frames, and what they leave for a batch.
CallerBytes(j) == IF j <= reserved THEN scratch.frame_size[j] ELSE 0
Left == SizeMinus(scratch.max_size, CallerBytes(1) + CallerBytes(2))
Room == IF Left <= Objects * ALIGNMENT THEN 0 ELSE Left - Objects * ALIGNMENT

TypesInv ==
    /\ pc \in {"idle", "measure", "plan", "batch", "objects", "points", "done"}
    /\ reserved \in 0 .. 2
    /\ Used => /\ ScratchType(scratch)
               /\ scratch.frame = reserved + (IF InFrame THEN 1 ELSE 0)
    /\ scratch = NULL => reserved = 0
    /\ args \in [n : 0 .. MaxPoints, g : BOOLEAN, planned : BOOLEAN]
    /\ ~null
    /\ pc # "done" => result # 1

\* res points fit, and so do fewer.
PippengerFits(m) ==
    \A k \in 1 .. m : PippengerScratchSize(k, BucketWindow(k)) <= Room
MeasureInv ==
    /\ pc \in {"measure", "plan"} =>
          /\ args.n >= 1 /\ n = args.n /\ args.planned /\ r = Infinity
          /\ res \in 0 .. SIZE_MAX /\ PippengerFits(res)
    /\ pc = "measure" =>
          /\ max_alloc = Room /\ bucket_window \in Windows
          /\ res = IF bucket_window = 1 THEN 0 ELSE WindowInv[bucket_window - 1]

BatchInv ==
    InBatch =>
      /\ f \in {"strauss", "pippenger"}
      /\ n_batches \in Nat /\ n_batch_points \in Nat /\ i \in Nat /\ n \in Nat
      /\ i < n_batches
      /\ n + n_batch_points * i = args.n
      /\ n <= (n_batches - i) * n_batch_points
      /\ args.planned => /\ (n_batches - i - 1) * n_batch_points < n
                         /\ \A k \in 1 .. n_batch_points :
                               ScratchSize(k) <= Room
      /\ ~args.planned => n_batches = 1

\* Bytes of the objects allocated so far.
Part(j) == IF j <= objs THEN ObjectSizes(Nbp)[j] ELSE 0
Parts == Part(1) + Part(2) + Part(3) + Part(4) + Part(5) + Part(6)
FrameInv ==
    /\ pc = "objects" =>
          /\ objs \in 0 .. 5
          /\ scratch.frame_size[scratch.frame]
                 = ScratchSize(Nbp) + Objects * ALIGNMENT
          /\ scratch.offset[scratch.frame] <= Parts + objs * ALIGNMENT

Upto(lo, hi) == [p \in Points |-> IF lo <= p /\ p < hi THEN 1 ELSE 0]
SumInv ==
    /\ InBatch => r = [g |-> IF args.g /\ i > 0 THEN 1 ELSE 0,
                       pts |-> Upto(0, Offset)]
    /\ InFrame => /\ point_idx \in 0 .. Nbp
                  /\ pc = "objects" => point_idx = 0
                  /\ tmp = [g |-> 0, pts |-> Upto(Offset, Offset + point_idx)]

IInv == TypesInv /\ MeasureInv /\ BatchInv /\ FrameInv /\ SumInv /\ Complete

---------------------------------------------------------------------------
(* Scratch space.                                                          *)

LEMMA RoomProperties ==
    ASSUME TypesInv, Used
    PROVE  /\ Room \in 0 .. SIZE_MAX
           /\ ~InFrame => MaxAllocation(scratch, Objects) = Room
<1> USE ScratchAssumption
<1>1. ScratchType(scratch) /\ scratch.max_size \in 0 .. SIZE_MAX
      /\ \A j \in Frames : scratch.frame_size[j] \in Nat
  BY DEF TypesInv, ScratchType
<1>2. CallerBytes(1) \in Nat /\ CallerBytes(2) \in Nat
  BY <1>1 DEF CallerBytes, Frames
<1> DEFINE bytes == CallerBytes(1) + CallerBytes(2)
<1>3. bytes \in Nat /\ Left \in Int /\ Left <= SIZE_MAX
  <2>1. bytes \in Nat
    BY <1>2
  <2> HIDE DEF bytes
  <2>2. SizeMinus(scratch.max_size, bytes) \in Int
        /\ SizeMinus(scratch.max_size, bytes) <= SIZE_MAX
    BY <1>1, <2>1 DEF SizeMinus
  <2>3. QED
    BY <2>1, <2>2 DEF Left, bytes
<1>4. Objects * ALIGNMENT \in Nat
  BY DEF Objects
<1>5. Room \in 0 .. SIZE_MAX
  BY <1>3, <1>4 DEF Room
<1>6. ASSUME ~InFrame
      PROVE  MaxAllocation(scratch, Objects) = Room
  <2>1. scratch.frame = reserved /\ reserved \in 0 .. 2
    BY <1>6 DEF TypesInv
  <2>2. /\ FrameBytes(scratch, 1) = CallerBytes(1)
        /\ FrameBytes(scratch, 2) = CallerBytes(2)
        /\ FrameBytes(scratch, 3) = 0 /\ FrameBytes(scratch, 4) = 0
        /\ FrameBytes(scratch, 5) = 0
    BY <2>1 DEF FrameBytes, CallerBytes
  <2>3. Allocated(scratch) = CallerBytes(1) + CallerBytes(2)
    BY <1>2, <2>2 DEF Allocated
  <2>4. QED
    BY <2>3 DEF MaxAllocation, Room, Left
<1>7. QED
  BY <1>5, <1>6

LEMMA ScratchNotNull ==
    ASSUME NEW s, ScratchType(s)
    PROVE  s # NULL
<1>1. s \in [max_size : Nat, frame : Nat,
             frame_size : [Frames -> Nat], offset : [Frames -> Nat]]
  BY DEF ScratchType
<1>2. QED
  BY <1>1, NullAssumption

LEMMA AllocateFrameType ==
    ASSUME NEW s, ScratchType(s), s.frame < 5, NEW size \in Nat,
           NEW objects \in Nat
    PROVE  LET t == AllocateFrame(s, size, objects)
           IN  /\ ScratchType(t) /\ t.frame = s.frame + 1
               /\ t.max_size = s.max_size
               /\ \A j \in Frames : j <= s.frame => t.frame_size[j] = s.frame_size[j]
               /\ t.frame_size[t.frame] = size + objects * ALIGNMENT
               /\ t.offset[t.frame] = 0
<1>1. size + objects * ALIGNMENT \in Nat
  BY ScratchAssumption
<1>2. s.frame + 1 \in Frames
  BY DEF ScratchType, Frames
<1>3. QED
  BY <1>1, <1>2 DEF AllocateFrame, ScratchType, Frames

LEMMA DeallocateFrameType ==
    ASSUME NEW s, ScratchType(s), s.frame > 0
    PROVE  LET t == DeallocateFrame(s)
           IN  /\ ScratchType(t) /\ t.frame = s.frame - 1
               /\ t.max_size = s.max_size /\ t.frame_size = s.frame_size
  BY DEF DeallocateFrame, ScratchType

LEMMA AllocType ==
    ASSUME NEW s, ScratchType(s), s.frame > 0, NEW size \in Nat,
           AllocFits(s, size)
    PROVE  LET t == Alloc(s, size)
           IN  /\ ScratchType(t) /\ t.frame = s.frame
               /\ t.max_size = s.max_size /\ t.frame_size = s.frame_size
               /\ t.offset[t.frame] = s.offset[s.frame] + Rounded(size)
<1>1. Rounded(size) \in Nat
  BY RoundedBounds
<1>2. s.frame \in Frames
  BY DEF ScratchType, Frames
<1>3. QED
  BY <1>1, <1>2 DEF Alloc, ScratchType

\* What a batch has room for depends on the caller's frames alone.
LEMMA RoomSame ==
    ASSUME reserved' = reserved, reserved \in 0 .. 2,
           scratch'.max_size = scratch.max_size,
           \A j \in 1 .. reserved : scratch'.frame_size[j] = scratch.frame_size[j]
    PROVE  Room' = Room
<1>1. CallerBytes(1)' = CallerBytes(1) /\ CallerBytes(2)' = CallerBytes(2)
  BY DEF CallerBytes
<1>2. Left' = Left
  BY <1>1 DEF Left
<1>3. QED
  BY <1>2 DEF Room

---------------------------------------------------------------------------
(* Steps outside a call.                                                   *)

LEMMA SumTypes ==
    /\ Infinity = [g |-> 0, pts |-> Upto(0, 0)]
    /\ OnlyG = [g |-> 1, pts |-> Upto(0, 0)]
<1>1. \A p \in Points : ~(0 <= p /\ p < 0)
  BY BatchAssumption DEF Points
<1>2. Upto(0, 0) = [p \in Points |-> 0]
  BY <1>1 DEF Upto
<1>3. QED
  BY <1>2 DEF Infinity, OnlyG

LEMMA InitInv == Init => IInv
<1> SUFFICES ASSUME Init PROVE IInv
  OBVIOUS
<1> USE NullAssumption DEF Init
<1>1. TypesInv
  BY BatchAssumption DEF TypesInv, NoArgs, Used
<1>2. MeasureInv /\ BatchInv /\ FrameInv /\ SumInv
  BY DEF MeasureInv, BatchInv, FrameInv, SumInv, InBatch, InFrame
<1>3. Complete
  BY DEF Complete
<1>4. QED
  BY <1>1, <1>2, <1>3 DEF IInv

LEMMA CreatedType ==
    ASSUME NEW size \in 0 .. SIZE_MAX
    PROVE  ScratchType(Created(size)) /\ Created(size).frame = 0
  BY DEF Created, ScratchType, NoBytes, Frames

\* The caller's own steps.
LEMMA CallerStep ==
    ASSUME IInv,
           \/ \E size \in ScratchSizes : Create(size)
           \/ \E size \in ReservedSizes : Reserve(size)
           \/ Destroy \/ Release
    PROVE  IInv'
<1>1. /\ pc = "idle" /\ pc' = pc
      /\ UNCHANGED <<args, cvars, bvars, ovars, tmp, r, result>>
  BY DEF Create, Reserve, Destroy, Release, Rest
<1>2. MeasureInv' /\ BatchInv' /\ FrameInv' /\ SumInv'
  BY <1>1 DEF MeasureInv, BatchInv, FrameInv, SumInv, InBatch, InFrame
<1>3. Complete'
  BY <1>1 DEF IInv, Complete
<1>4. TypesInv
  BY DEF IInv
<1>5. /\ reserved' \in 0 .. 2
      /\ scratch' = NULL => reserved' = 0
      /\ scratch' # NULL => ScratchType(scratch') /\ scratch'.frame = reserved'
  <2>1. CASE \E size \in ScratchSizes : Create(size)
    <3>1. PICK size \in ScratchSizes : Create(size)
      BY <2>1
    <3>2. size \in 0 .. SIZE_MAX
      BY BatchAssumption
    <3>3. reserved = 0 /\ reserved' = 0 /\ scratch' \in {NULL, Created(size)}
      BY <3>1, <1>4 DEF Create, TypesInv, Rest
    <3>4. QED
      BY <3>2, <3>3, CreatedType
  <2>2. CASE \E size \in ReservedSizes : Reserve(size)
    <3>1. PICK size \in ReservedSizes : Reserve(size)
      BY <2>2
    <3>2. size \in Nat
      BY BatchAssumption
    <3>3. ScratchType(scratch) /\ scratch.frame = reserved /\ reserved \in 0 .. 1
      BY <1>4, <1>1, <3>1 DEF TypesInv, Used, InFrame, Reserve
    <3>4. scratch' = AllocateFrame(scratch, size, 1) /\ reserved' = reserved + 1
      BY <3>1 DEF Reserve
    <3> DEFINE t == AllocateFrame(scratch, size, 1)
    <3>a. scratch.frame < 5 /\ 1 \in Nat
      BY <3>3
    <3>b. ScratchType(t) /\ t.frame = scratch.frame + 1
      BY <3>a, <3>2, <3>3, AllocateFrameType
    <3>5. ScratchType(scratch') /\ scratch'.frame = scratch.frame + 1
      BY <3>4, <3>b, Zenon
    <3>6. QED
      BY <3>3, <3>4, <3>5, ScratchNotNull
  <2>3. CASE Destroy
    BY <2>3, <1>4 DEF Destroy, Rest, TypesInv
  <2>4. CASE Release
    <3>1. ScratchType(scratch) /\ scratch.frame = reserved /\ reserved \in 1 .. 2
      BY <1>4, <1>1, <2>4 DEF TypesInv, Used, InFrame, Release
    <3>2. QED
      BY <2>4, <3>1, DeallocateFrameType, ScratchNotNull DEF Release
  <2>5. QED
    BY <2>1, <2>2, <2>3, <2>4
<1>6. TypesInv'
  BY <1>1, <1>4, <1>5 DEF TypesInv, Used, InFrame, ovars
<1>7. QED
  BY <1>2, <1>3, <1>6 DEF IInv

\* The caller takes the result.
LEMMA ReturnStep ==
    ASSUME IInv, Return
    PROVE  IInv'
<1>1. /\ pc = "done" /\ pc' = "idle" /\ UNCHANGED <<scratch, reserved>>
      /\ args' = NoArgs /\ null' = FALSE /\ result' = NULL
  BY DEF Return
<1>2. MeasureInv' /\ BatchInv' /\ FrameInv' /\ SumInv'
  BY <1>1 DEF MeasureInv, BatchInv, FrameInv, SumInv, InBatch, InFrame
<1>3. TypesInv'
  BY <1>1, BatchAssumption, NullAssumption
     DEF IInv, TypesInv, Used, InFrame, NoArgs
<1>4. Complete'
  BY <1>1, NullAssumption DEF Complete
<1>5. QED
  BY <1>2, <1>3, <1>4 DEF IInv

---------------------------------------------------------------------------
(* The beginning of a call.                                                *)

LEMMA CallStep ==
    ASSUME IInv, NEW k \in 0 .. MaxPoints, NEW g \in BOOLEAN, Call(k, g)
    PROVE  IInv'
<1>1. /\ pc = "idle" /\ scratch # NULL /\ UNCHANGED <<scratch, reserved, null>>
      /\ args' = [n |-> k, g |-> g, planned |-> TRUE] /\ n' = k
      /\ max_alloc' = MaxAllocation(scratch, Objects)
      /\ bucket_window' = 1 /\ res' = 0
      /\ r' = IF k = 0 /\ g THEN OnlyG ELSE Infinity
      /\ result' = IF k = 0 THEN 1 ELSE NULL
      /\ pc' = IF k = 0 THEN "done" ELSE "measure"
  BY DEF Call, ovars
<1>2. k \in Nat
  BY BatchAssumption
<1>3. TypesInv /\ Used /\ ~InFrame
  BY <1>1 DEF IInv, Used, InFrame
<1>4. ScratchType(scratch) /\ scratch.frame = reserved /\ reserved \in 0 .. 2
  BY <1>3 DEF TypesInv
<1>5. TypesInv'
  BY <1>1, <1>3, <1>4, NullAssumption DEF TypesInv, Used, InFrame
<1>6. Room' = Room /\ Room \in 0 .. SIZE_MAX
      /\ MaxAllocation(scratch, Objects) = Room
  BY <1>1, <1>3, <1>4, RoomSame, RoomProperties
<1>7. MeasureInv'
  <2>1. res' = 0 /\ PippengerFits(0)
    BY <1>1 DEF PippengerFits
  <2>2. bucket_window' \in Windows
    BY <1>1, WindowAssumption DEF Windows
  <2>3. pc' = "measure" => k >= 1 /\ r' = Infinity
    BY <1>1, <1>2
  <2>4. PippengerFits(0)'
    BY DEF PippengerFits
  <2>5. QED
    BY <1>1, <1>6, <2>1, <2>2, <2>3, <2>4, ScratchAssumption DEF MeasureInv
<1>8. BatchInv' /\ FrameInv' /\ SumInv'
  BY <1>1 DEF BatchInv, FrameInv, SumInv, InBatch, InFrame
<1>9. Complete'
  <2>1. SUFFICES ASSUME result' = 1
                 PROVE  /\ r'.g = IF g THEN 1 ELSE 0
                        /\ \A p \in Points : r'.pts[p] = IF p < k THEN 1 ELSE 0
    BY <1>1 DEF Complete
  <2>2. k = 0
    BY <1>1, <2>1, NullAssumption
  <2>3. r' = [g |-> IF g THEN 1 ELSE 0, pts |-> [p \in Points |-> 0]]
    BY <1>1, <2>2 DEF OnlyG, Infinity
  <2>4. \A p \in Points : ~(p < 0)
    BY BatchAssumption DEF Points
  <2>5. QED
    BY <2>2, <2>3, <2>4
<1>10. QED
  BY <1>5, <1>7, <1>8, <1>9 DEF IInv

LEMMA CallSingleStep ==
    ASSUME IInv, NEW fun \in {"strauss", "pippenger"},
           NEW k \in SingleCounts, NEW g \in BOOLEAN, CallSingle(fun, k, g)
    PROVE  IInv'
<1>1. /\ pc = "idle" /\ scratch # NULL /\ UNCHANGED <<scratch, reserved, null>>
      /\ args' = [n |-> k, g |-> g, planned |-> FALSE] /\ n' = k
      /\ f' = fun /\ n_batches' = 1 /\ n_batch_points' = k /\ i' = 0
      /\ r' = Infinity
      /\ IF k = 0 /\ ~g THEN pc' = "done" /\ result' = 1
                        ELSE pc' = "batch" /\ result' = NULL
  BY DEF CallSingle, ovars
<1>2. k \in 0 .. MaxPoints /\ k \in Nat
  BY BatchAssumption
<1>3. TypesInv /\ Used /\ ~InFrame
  BY <1>1 DEF IInv, Used, InFrame
<1>4. TypesInv'
  BY <1>1, <1>2, <1>3, NullAssumption DEF TypesInv, Used, InFrame
<1>5. MeasureInv' /\ FrameInv'
  BY <1>1 DEF MeasureInv, FrameInv
<1>6. BatchInv'
  <2>1. k + k * 0 = k /\ (1 - 0) * k = k
    BY <1>2
  <2>2. QED
    BY <1>1, <1>2, <2>1 DEF BatchInv
<1>7. SumInv'
  <2>1. Offset' = 0
    BY <1>1, <1>2 DEF Offset
  <2>2. ~InFrame'
    BY <1>1 DEF InFrame
  <2>3. r' = [g |-> 0, pts |-> Upto(0, 0)]
    BY <1>1, SumTypes
  <2>4. QED
    BY <1>1, <2>1, <2>2, <2>3 DEF SumInv, Upto
<1>8. Complete'
  <2>1. SUFFICES ASSUME result' = 1
                 PROVE  /\ r'.g = IF g THEN 1 ELSE 0
                        /\ \A p \in Points : r'.pts[p] = IF p < k THEN 1 ELSE 0
    BY <1>1 DEF Complete
  <2>2. k = 0 /\ ~g
    BY <1>1, <2>1, NullAssumption
  <2>3. \A p \in Points : ~(p < 0)
    BY BatchAssumption DEF Points
  <2>4. QED
    BY <1>1, <2>2, <2>3 DEF Infinity
<1>9. QED
  BY <1>4, <1>5, <1>6, <1>7, <1>8 DEF IInv

\* A round of pippenger_max_points: what it finds room for with a window is
\* used with this window, unless an earlier one was enough.
LEMMA TryWindowStep ==
    ASSUME IInv, TryWindow
    PROVE  IInv'
<1> DEFINE w == bucket_window
           e == EntrySize(w)
<1>1. /\ pc = "measure" /\ pc' \in {"measure", "plan"}
      /\ UNCHANGED <<scratch, reserved, args, bvars, ovars, tmp, r, result>>
      /\ max_alloc' = max_alloc
  BY DEF TryWindow, cvars
<1>2. TypesInv /\ Used /\ ~InFrame
  BY <1>1 DEF IInv, Used, InFrame
<1>3. /\ args.n >= 1 /\ n = args.n /\ args.planned /\ r = Infinity
      /\ res \in 0 .. SIZE_MAX /\ PippengerFits(res)
      /\ max_alloc = Room /\ w \in Windows
      /\ res = IF w = 1 THEN 0 ELSE WindowInv[w - 1]
  BY <1>1 DEF IInv, MeasureInv
<1>4. Room \in 0 .. SIZE_MAX /\ Room' = Room /\ Room \in Nat
  <2>1. Room \in 0 .. SIZE_MAX
    BY <1>2, RoomProperties
  <2>2. Room' = Room
    BY <1>1, <1>2, RoomSame DEF TypesInv
  <2>3. QED
    BY <2>1, <2>2
<1>5. TypesInv'
  BY <1>1, <1>2 DEF TypesInv, Used, InFrame, ovars
<1>6. BatchInv' /\ FrameInv' /\ SumInv'
  BY <1>1 DEF BatchInv, FrameInv, SumInv, InBatch, InFrame
<1>7. Complete'
  BY <1>1 DEF IInv, Complete
<1>8. \A m : PippengerFits(m)' = PippengerFits(m)
  BY <1>4 DEF PippengerFits
<1>9. MeasureInv'
  <2>1. CASE Overhead > max_alloc
    <3>1. pc' = "plan" /\ res' = res
      BY <1>1, <2>1 DEF TryWindow, cvars
    <3>2. QED
      BY <1>1, <1>3, <1>8, <3>1 DEF MeasureInv, bvars
  <2>2. CASE ~(Overhead > max_alloc)
    <3>1. /\ res' = IF Measured > res THEN Measured ELSE res
          /\ bucket_window' = w + 1
          /\ pc' = IF Measured < WindowInv[w] \/ w = MaxWindow
                   THEN "plan" ELSE "measure"
      BY <2>2 DEF TryWindow
    <3>2. /\ e \in Nat \ {0} /\ BucketCount[w] * GejSize \in Nat
          /\ WindowInv[w] \in Nat \ {0} /\ WindowInv[w] <= SIZE_MAX
      BY <1>3, EntrySizeType
    <3>3. Overhead = BucketCount[w] * GejSize + e + PippengerStateSize
          /\ Overhead \in Nat /\ max_alloc - Overhead \in Nat
      BY <1>3, <1>4, <2>2, <3>2, SizeAssumption DEF Overhead
    <3>4. Fitting \in Nat /\ Fitting * e <= max_alloc - Overhead
      BY <3>2, <3>3, DivProperties DEF Fitting
    <3>5. Measured \in Nat /\ Measured <= Fitting /\ Measured <= WindowInv[w]
      BY <3>2, <3>4 DEF Measured
    <3> HIDE DEF e
    <3>6. PippengerScratchSize(Measured, w) <= Room
      <4>1. Measured * e <= Fitting * e /\ Measured * e \in Nat
            /\ Fitting * e \in Nat
        BY <3>2, <3>4, <3>5, TimesMonotone
      <4>2. (Measured + 1) * e = Measured * e + e
        BY <3>2, <3>5
      <4>3. PippengerScratchSize(Measured, w)
              = BucketCount[w] * GejSize + PippengerStateSize + (Measured + 1) * e
        BY DEF PippengerScratchSize, e
      <4> HIDE DEF w
      <4>4. QED
        BY <1>3, <1>4, <3>2, <3>3, <3>4, <4>1, <4>2, <4>3, SizeAssumption
    <3> DEFINE m == IF Measured > res THEN Measured ELSE res
    <3>7. m \in 0 .. SIZE_MAX /\ m >= res /\ res' = m
      BY <1>3, <3>1, <3>2, <3>5, ScratchAssumption
    <3>8. PippengerFits(m)
      <4>1. SUFFICES ASSUME NEW k \in 1 .. m, k > res
                     PROVE  PippengerScratchSize(k, BucketWindow(k)) <= Room
        BY <1>3, <3>7 DEF PippengerFits
      <4>a. k \in Nat /\ res \in Nat /\ SIZE_MAX \in Nat /\ k <= m
        BY <1>3, <3>7, <4>1, ScratchAssumption
      <4>b. k <= Measured
        BY <4>a, <4>1, <3>5
      <4>2. k \in Nat /\ k <= Measured /\ k <= WindowInv[w] /\ k \in 0 .. SIZE_MAX
        BY <4>a, <4>b, <3>2, <3>5
      <4>3. BucketWindow(k) = w
        <5>1. /\ BucketWindow(k) \in Windows /\ k <= WindowInv[BucketWindow(k)]
              /\ BucketWindow(k) <= w
          BY <1>3, <4>2, BucketWindowProperties
        <5>2. SUFFICES ASSUME BucketWindow(k) < w PROVE FALSE
          BY <1>3, <5>1 DEF Windows
        <5>3. w - 1 \in Windows /\ BucketWindow(k) <= w - 1 /\ w # 1
          BY <1>3, <5>1, <5>2, WindowAssumption DEF Windows
        <5>4. WindowInv[BucketWindow(k)] <= WindowInv[w - 1]
              /\ WindowInv[w - 1] \in Nat /\ WindowInv[BucketWindow(k)] \in Nat
          BY <5>1, <5>3, WindowAssumption DEF Windows
        <5>5. QED
          BY <1>3, <4>1, <4>2, <5>1, <5>3, <5>4
      <4>4. /\ PippengerScratchSize(k, w) <= PippengerScratchSize(Measured, w)
            /\ PippengerScratchSize(k, w) \in Nat
            /\ PippengerScratchSize(Measured, w) \in Nat
        BY <1>3, <3>5, <4>2, PippengerSizeMonotone
      <4>5. QED
        BY <1>4, <3>6, <4>3, <4>4
    <3>9. pc' = "measure" => /\ w + 1 \in Windows /\ res' = WindowInv[w]
      <4>1. SUFFICES ASSUME pc' = "measure"
                     PROVE  w + 1 \in Windows /\ res' = WindowInv[w]
        OBVIOUS
      <4>2. Measured = WindowInv[w] /\ w # MaxWindow
        BY <3>1, <3>2, <3>5, <4>1
      <4>3. w + 1 \in Windows
        BY <1>3, <4>2, WindowAssumption DEF Windows
      <4>4. res < WindowInv[w]
        <5>1. CASE w = 1
          BY <1>3, <3>2, <5>1
        <5>2. CASE w # 1
          <6>1. w - 1 \in Windows /\ w - 1 < w
            BY <1>3, <5>2, WindowAssumption DEF Windows
          <6>2. QED
            BY <1>3, <5>2, <6>1, WindowAssumption
        <5>3. QED
          BY <5>1, <5>2
      <4>5. QED
        BY <3>7, <4>2, <4>3, <4>4, <3>2, <1>3
    <3>10. PippengerFits(res)'
      <4> HIDE DEF m
      <4>1. QED
        BY <1>4, <3>7, <3>8 DEF PippengerFits
    <3>11. w \in Nat /\ (w + 1) - 1 = w /\ w + 1 # 1
      BY <1>3, WindowAssumption DEF Windows
    <3>12. res' \in 0 .. SIZE_MAX
      BY <3>7, Zenon
    <3>13. n' = n /\ args' = args /\ r' = r
      BY <1>1 DEF bvars
    <3>14. QED
      BY <1>1, <1>3, <1>4, <3>1, <3>9, <3>10, <3>11, <3>12, <3>13 DEF MeasureInv
  <2>3. QED
    BY <2>1, <2>2
<1>10. QED
  BY <1>5, <1>6, <1>7, <1>9 DEF IInv

\* The plan: batches no larger than what fits, none of them empty.
LEMMA PlannedStep ==
    ASSUME IInv, pc = "plan", NEW max \in Nat \ {0},
           NEW fun \in {"strauss", "pippenger"}, Planned(max, fun),
           UNCHANGED <<scratch, reserved, args, cvars, ovars, tmp, r>>,
           \A k \in 1 .. max : (IF fun = "strauss" THEN StraussScratchSize(k)
              ELSE PippengerScratchSize(k, BucketWindow(k))) <= Room
    PROVE  BatchInv' /\ SumInv' /\ pc' = "batch" /\ result' = result
<1> DEFINE c == CeilDiv(n, max)
           d == CeilDiv(n, c)
<1>1. /\ f' = fun /\ n_batches' = c /\ n_batch_points' = d /\ i' = 0
      /\ pc' = "batch" /\ n' = n /\ args' = args /\ result' = result
  BY DEF Planned
<1>2. args.n >= 1 /\ n = args.n /\ args.planned /\ r = Infinity
      /\ args.n \in 0 .. MaxPoints
  BY DEF IInv, MeasureInv, TypesInv
<1>3. n \in Nat \ {0}
  BY <1>2, BatchAssumption
<1>4. c \in Nat \ {0} /\ d \in 1 .. max /\ n <= c * d /\ (c - 1) * d < n
  BY <1>3, BatchesProperties
<1>5. Room' = Room
  BY RoomSame DEF IInv, TypesInv
<1> HIDE DEF c, d
<1>6. \A k \in 1 .. d : ScratchSize(k)' <= Room'
  BY <1>1, <1>4, <1>5 DEF ScratchSize
<1>7. n + d * 0 = n /\ (c - 0) * d = c * d /\ (c - 0 - 1) * d = (c - 1) * d
  BY <1>3, <1>4
<1>8. BatchInv'
  BY <1>1, <1>2, <1>3, <1>4, <1>6, <1>7 DEF BatchInv
<1>9. SumInv'
  <2>1. Offset' = 0
    BY <1>1, <1>4 DEF Offset
  <2>2. ~InFrame' /\ r' = [g |-> 0, pts |-> Upto(0, 0)]
    BY <1>1, <1>2, SumTypes DEF InFrame
  <2>3. QED
    BY <1>1, <2>1, <2>2 DEF SumInv, Upto
<1>10. QED
  BY <1>1, <1>8, <1>9

LEMMA PlanStep ==
    ASSUME IInv, Plan
    PROVE  IInv'
<1> DEFINE max == IF res > MaxBatch THEN MaxBatch ELSE res
<1>1. pc = "plan" /\ UNCHANGED <<scratch, reserved, args, cvars, ovars, tmp, r>>
  BY DEF Plan
<1>2. TypesInv /\ Used /\ ~InFrame
  BY <1>1 DEF IInv, Used, InFrame
<1>3. res \in Nat /\ PippengerFits(res) /\ max \in Nat /\ max <= res
      /\ result # 1
  BY <1>1, BatchAssumption, ScratchAssumption DEF IInv, MeasureInv, TypesInv
<1>4. /\ pc' \in {"batch", "done"} /\ result' \in {result, 0}
      /\ pc' = "batch" => BatchInv' /\ SumInv'
      /\ pc' = "done" => result' = 0
  <2>1. CASE max = 0
    BY <2>1 DEF Plan, GiveUp
  <2>2. CASE max # 0 /\ CeilDiv(n, CeilDiv(n, max)) >= Threshold
    <3>1. Planned(max, "pippenger") /\ max \in Nat \ {0}
      BY <1>3, <2>2 DEF Plan
    <3>2. \A k \in 1 .. max : PippengerScratchSize(k, BucketWindow(k)) <= Room
      BY <1>3 DEF PippengerFits
    <3> HIDE DEF max
    <3>3. BatchInv' /\ SumInv' /\ pc' = "batch" /\ result' = result
      BY <1>1, <3>1, <3>2, PlannedStep
    <3>4. QED
      BY <3>3
  <2>3. CASE max # 0 /\ ~(CeilDiv(n, CeilDiv(n, max)) >= Threshold)
    <3>1. CASE StraussMaxPoints = 0
      BY <2>3, <3>1 DEF Plan, GiveUp
    <3>2. CASE StraussMaxPoints # 0
      <4>1. Planned(StraussMaxPoints, "strauss")
        BY <2>3, <3>2 DEF Plan
      <4>2. Room \in Nat /\ StraussMaxPoints = Room \div StraussPointSize
        BY <1>2, RoomProperties, ScratchAssumption DEF StraussMaxPoints
      <4>3. StraussMaxPoints \in Nat \ {0}
            /\ StraussMaxPoints * StraussPointSize <= Room
        BY <3>2, <4>2, StraussPointSizeType, DivProperties
      <4>4. ASSUME NEW k \in 1 .. StraussMaxPoints
            PROVE  StraussScratchSize(k) <= Room
        <5>1. /\ k * StraussPointSize <= StraussMaxPoints * StraussPointSize
              /\ k * StraussPointSize \in Nat
              /\ StraussMaxPoints * StraussPointSize \in Nat
          BY <4>3, StraussPointSizeType, TimesMonotone
        <5>2. QED
          BY <4>2, <4>3, <5>1 DEF StraussScratchSize
      <4>5. BatchInv' /\ SumInv' /\ pc' = "batch" /\ result' = result
        BY <1>1, <4>1, <4>3, <4>4, PlannedStep
      <4>6. QED
        BY <4>5
    <3>3. QED
      BY <3>1, <3>2
  <2>4. QED
    BY <2>1, <2>2, <2>3
<1>5. TypesInv'
  BY <1>1, <1>2, <1>3, <1>4 DEF TypesInv, Used, InFrame, ovars
<1>6. MeasureInv' /\ FrameInv'
  BY <1>4 DEF MeasureInv, FrameInv
<1>7. BatchInv' /\ SumInv'
  BY <1>4 DEF BatchInv, SumInv, InBatch, InFrame
<1>8. Complete'
  BY <1>3, <1>4 DEF Complete
<1>9. QED
  BY <1>5, <1>6, <1>7, <1>8 DEF IInv

---------------------------------------------------------------------------
(* The batches.                                                            *)

LEMMA BatchTypes ==
    ASSUME TypesInv, BatchInv, InBatch
    PROVE  /\ Offset \in Nat /\ n \in Nat /\ Offset + n = args.n
           /\ args.n <= MaxPoints /\ args.n \in Nat
           /\ Nbp \in 0 .. n /\ Nbp <= n_batch_points
           /\ Nbp \in 0 .. SIZE_MAX
<1>1. n_batch_points \in Nat /\ i \in Nat /\ n \in Nat
      /\ n + n_batch_points * i = args.n
      /\ args.n \in 0 .. MaxPoints
  BY DEF BatchInv, TypesInv
<1>2. n_batch_points * i \in Nat
  BY <1>1
<1>3. Offset \in Nat /\ Offset + n = args.n
  BY <1>1, <1>2 DEF Offset
<1>4. Nbp \in 0 .. n /\ Nbp <= n_batch_points
  BY <1>1 DEF Nbp
<1>5. QED
  BY <1>1, <1>3, <1>4, BatchAssumption, ScratchAssumption

\* The objects of a batch need no more than its frame was asked for.
LEMMA ObjectsTotal ==
    ASSUME f \in {"strauss", "pippenger"}, NEW k \in 0 .. SIZE_MAX
    PROVE  /\ \A j \in 1 .. 6 : ObjectSizes(k)[j] \in Nat
           /\ ScratchSize(k) \in Nat
           /\ ObjectSizes(k)[1] + ObjectSizes(k)[2] + ObjectSizes(k)[3]
              + ObjectSizes(k)[4] + ObjectSizes(k)[5] + ObjectSizes(k)[6]
                <= ScratchSize(k)
<1> k \in Nat
  BY ScratchAssumption
<1>1. CASE f = "strauss"
  <2> DEFINE a == k * GejSize
             b == k * ScalarSize
             x == k * TableSize * GejSize
             y == k * TableSize * FeSize
             z == k * TableSize * GeSize
             u == k * StraussStateSize
  <2>1. a \in Nat /\ b \in Nat /\ u \in Nat
    BY SizeAssumption
  <2>2. k * TableSize \in Nat
    BY SizeAssumption
  <2>3. x \in Nat /\ y \in Nat /\ z \in Nat
    BY <2>2, SizeAssumption
  <2>4. ScratchSize(k) = a + b + x + y + z + u
    BY <1>1, SizeAssumption DEF ScratchSize, StraussScratchSize, StraussPointSize
  <2>5. ObjectSizes(k) = <<a, b, x, y, z, u>>
    BY <1>1 DEF ObjectSizes
  <2> HIDE DEF a, b, x, y, z, u
  <2>6. QED
    BY <2>1, <2>3, <2>4, <2>5
<1>2. CASE f = "pippenger"
  <2> DEFINE w == BucketWindow(k)
  <2>1. w \in Windows
    BY BucketWindowProperties
  <2>2. WnafSize[w] \in Nat /\ BucketCount[w] \in Nat
    BY <2>1, WindowAssumption
  <2> HIDE DEF w
  <2> DEFINE a == (k + 1) * GeSize
             b == (k + 1) * ScalarSize
             y == (k + 1) * PointStateSize
             z == (k + 1) * WnafSize[w] * IntSize
             u == BucketCount[w] * GejSize
             more == (k + 1) * IntSize
  <2>3. a \in Nat /\ b \in Nat /\ y \in Nat /\ more \in Nat
    BY SizeAssumption
  <2>4. u \in Nat /\ (k + 1) * WnafSize[w] \in Nat
    BY <2>2, SizeAssumption
  <2>5. z \in Nat
    BY <2>4, SizeAssumption
  <2>6. ScratchSize(k) = a + b + PippengerStateSize + y + z + u + more
    <3>1. (k + 1) * EntrySize(w) = a + b + y + z + more
      <4>1. /\ k + 1 \in Nat /\ GeSize \in Nat /\ ScalarSize \in Nat
            /\ PointStateSize \in Nat /\ IntSize \in Nat
        BY SizeAssumption
      <4>2. ASSUME NEW q \in Nat, NEW v \in Nat
            PROVE  q * (GeSize + ScalarSize + PointStateSize + (v + 1) * IntSize)
                     = q * GeSize + q * ScalarSize + q * PointStateSize
                       + q * v * IntSize + q * IntSize
        BY <4>1, Distribute
      <4>3. QED
        BY <2>2, <4>1, <4>2, Zenon DEF EntrySize
    <3>2. ScratchSize(k) = u + PippengerStateSize + (k + 1) * EntrySize(w)
      BY <1>2 DEF ScratchSize, PippengerScratchSize, w
    <3>3. QED
      BY <3>1, <3>2, <2>3, <2>4, <2>5, SizeAssumption
  <2>7. ObjectSizes(k) = <<a, b, PippengerStateSize, y, z, u>>
    BY <1>2 DEF ObjectSizes, w
  <2> HIDE DEF a, b, y, z, u, more
  <2>8. QED
    BY <2>3, <2>4, <2>5, <2>6, <2>7, SizeAssumption
<1>3. QED
  BY <1>1, <1>2

LEMMA BeginBatchStep ==
    ASSUME IInv, BeginBatch
    PROVE  IInv'
<1>1. /\ pc = "batch" /\ pc' \in {"objects", "done"} /\ tmp' = Infinity
      /\ UNCHANGED <<reserved, args, cvars, bvars, r>>
      /\ pc' = "done" => result' = 0 /\ UNCHANGED <<scratch, null>>
      /\ pc' = "objects" =>
            /\ scratch' = AllocateFrame(scratch, ScratchSize(Nbp), Objects)
            /\ objs' = 0 /\ null' = FALSE /\ point_idx' = 0 /\ result' = result
  BY DEF BeginBatch, FrameRefused, ovars
<1>2. TypesInv /\ Used /\ ~InFrame /\ InBatch /\ BatchInv /\ SumInv
  BY <1>1 DEF IInv, Used, InFrame, InBatch
<1>3. /\ Nbp \in 0 .. SIZE_MAX /\ Offset \in Nat /\ Nbp \in Nat
      /\ UNCHANGED <<f, n_batches, n_batch_points, i, n>>
      /\ Nbp' = Nbp /\ Offset' = Offset
  BY <1>1, <1>2, BatchTypes, ScratchAssumption DEF bvars, Nbp, Offset
<1>4. f \in {"strauss", "pippenger"}
  BY <1>2 DEF BatchInv
<1>5. ScratchSize(Nbp) \in Nat /\ Objects \in Nat
      /\ \A k : ScratchSize(k)' = ScratchSize(k)
  BY <1>3, <1>4, ObjectsTotal DEF Objects, ScratchSize
<1>6. ScratchType(scratch) /\ scratch.frame = reserved /\ reserved \in 0 .. 2
  BY <1>2 DEF TypesInv
<1>7. CASE pc' = "done"
  <2>1. TypesInv'
    BY <1>1, <1>2, <1>7 DEF TypesInv, Used, InFrame
  <2>2. MeasureInv' /\ BatchInv' /\ FrameInv' /\ SumInv'
    BY <1>7 DEF MeasureInv, BatchInv, FrameInv, SumInv, InBatch, InFrame
  <2>3. Complete'
    BY <1>1, <1>7 DEF Complete
  <2>4. QED
    BY <2>1, <2>2, <2>3 DEF IInv
<1>8. CASE pc' = "objects"
  <2> DEFINE t == AllocateFrame(scratch, ScratchSize(Nbp), Objects)
  <2>1. scratch' = t
    BY <1>1, <1>8
  <2>2. scratch.frame < 5
    BY <1>6
  <2>3. /\ ScratchType(t) /\ t.frame = scratch.frame + 1
        /\ t.max_size = scratch.max_size
        /\ \A j \in Frames : j <= scratch.frame => t.frame_size[j] = scratch.frame_size[j]
        /\ t.frame_size[t.frame] = ScratchSize(Nbp) + Objects * ALIGNMENT
        /\ t.offset[t.frame] = 0
    BY <1>5, <1>6, <2>2, AllocateFrameType
  <2> HIDE DEF t
  <2>4. TypesInv'
    BY <1>1, <1>2, <1>6, <1>8, <2>1, <2>3, ScratchNotNull DEF TypesInv, Used, InFrame
  <2>5. Room' = Room
    BY <1>1, <1>6, <2>1, <2>3, RoomSame DEF Frames
  <2>6. BatchInv'
    <3>1. InBatch' /\ result' = result /\ args' = args
      BY <1>1, <1>8 DEF InBatch
    <3>2. QED
      BY <1>2, <1>3, <1>5, <2>5, <3>1 DEF BatchInv
  <2>7. FrameInv'
    <3>1. objs' = 0 /\ Parts' = 0
      BY <1>1, <1>8 DEF Parts, Part
    <3>2. 0 + 0 * ALIGNMENT = 0
      BY ScratchAssumption
    <3>3. ScratchSize(Nbp)' = ScratchSize(Nbp)
      BY <1>3, <1>5 DEF ScratchSize
    <3>4. QED
      BY <1>8, <2>1, <2>3, <3>1, <3>2, <3>3 DEF FrameInv
  <2>8. SumInv'
    <3>1. Upto(Offset, Offset + 0) = Upto(0, 0)
      <4>1. \A p \in Points : ~(Offset <= p /\ p < Offset + 0) /\ ~(0 <= p /\ p < 0)
        BY <1>3, BatchAssumption DEF Points
      <4>2. QED
        BY <4>1 DEF Upto
    <3>2. tmp' = [g |-> 0, pts |-> Upto(Offset, Offset + 0)]
      BY <1>1, <3>1, SumTypes
    <3>3. r' = [g |-> IF args'.g /\ i' > 0 THEN 1 ELSE 0, pts |-> Upto(0, Offset')]
      BY <1>1, <1>2, <1>3 DEF SumInv
    <3>4. point_idx' = 0 /\ 0 \in 0 .. Nbp
      BY <1>1, <1>3, <1>8
    <3>5. QED
      BY <1>3, <1>8, <3>2, <3>3, <3>4 DEF SumInv, Upto
  <2>9. MeasureInv'
    BY <1>8 DEF MeasureInv
  <2>10. Complete'
    BY <1>1, <1>2, <1>8 DEF Complete, TypesInv
  <2>11. QED
    BY <2>4, <2>6, <2>7, <2>8, <2>9, <2>10 DEF IInv
<1>9. QED
  BY <1>1, <1>7, <1>8

\* Each object fits: those before it and the rounding of each leave room.
LEMMA AllocObjectStep ==
    ASSUME IInv, AllocObject
    PROVE  IInv'
<1> DEFINE sizes == ObjectSizes(Nbp)
           size == sizes[objs + 1]
<1>1. /\ pc = "objects" /\ pc' \in {"objects", "points"} /\ objs' = objs + 1
      /\ pc' = IF objs + 1 = Objects THEN "points" ELSE "objects"
      /\ null' = (null \/ ~AllocFits(scratch, size))
      /\ scratch' = Alloc(scratch, size)
      /\ UNCHANGED <<reserved, args, cvars, bvars, point_idx, tmp, r, result>>
  BY DEF AllocObject
<1>2. TypesInv /\ Used /\ InFrame /\ InBatch /\ BatchInv /\ SumInv /\ FrameInv
  BY <1>1 DEF IInv, Used, InFrame, InBatch
<1>3. /\ Nbp \in 0 .. SIZE_MAX /\ UNCHANGED <<f, n_batches, n_batch_points, i, n>>
      /\ Nbp' = Nbp /\ Offset' = Offset /\ f \in {"strauss", "pippenger"}
  BY <1>1, <1>2, BatchTypes DEF bvars, Nbp, Offset, BatchInv
<1>4. /\ \A j \in 1 .. 6 : sizes[j] \in Nat
      /\ ScratchSize(Nbp) \in Nat
      /\ sizes[1] + sizes[2] + sizes[3] + sizes[4] + sizes[5] + sizes[6]
            <= ScratchSize(Nbp)
      /\ ScratchSize(Nbp)' = ScratchSize(Nbp) /\ ObjectSizes(Nbp)' = sizes
  BY <1>3, ObjectsTotal DEF ScratchSize, ObjectSizes
<1>5. /\ ScratchType(scratch) /\ scratch.frame = reserved + 1 /\ reserved \in 0 .. 2
      /\ scratch.frame > 0 /\ scratch.frame \in Frames
      /\ scratch.offset[scratch.frame] \in Nat
  BY <1>2 DEF TypesInv, ScratchType, Frames
<1>6. /\ objs \in 0 .. 5
      /\ scratch.frame_size[scratch.frame] = ScratchSize(Nbp) + 6 * ALIGNMENT
      /\ scratch.offset[scratch.frame] <= Parts + objs * ALIGNMENT
  BY <1>1, <1>2 DEF FrameInv, Objects
<1> HIDE DEF sizes
<1>7. /\ size \in Nat /\ Parts \in Nat /\ Parts' = Parts + size
      /\ Parts + size <= ScratchSize(Nbp)
  <2>1. \A j \in 1 .. 6 : Part(j) = (IF j <= objs THEN sizes[j] ELSE 0)
                         /\ Part(j)' = (IF j <= objs + 1 THEN sizes[j] ELSE 0)
    BY <1>1, <1>3, <1>4 DEF Part, sizes
  <2>2. CASE objs = 0
    BY <2>1, <2>2, <1>4 DEF Parts
  <2>3. CASE objs = 1
    BY <2>1, <2>3, <1>4 DEF Parts
  <2>4. CASE objs = 2
    BY <2>1, <2>4, <1>4 DEF Parts
  <2>5. CASE objs = 3
    BY <2>1, <2>5, <1>4 DEF Parts
  <2>6. CASE objs = 4
    BY <2>1, <2>6, <1>4 DEF Parts
  <2>7. CASE objs = 5
    BY <2>1, <2>7, <1>4 DEF Parts
  <2>8. QED
    BY <1>6, <2>2, <2>3, <2>4, <2>5, <2>6, <2>7
<1> HIDE DEF size
<1>8. Rounded(size) \in Nat /\ Rounded(size) < size + ALIGNMENT /\ ALIGNMENT \in Nat
  BY <1>7, RoundedBounds, ScratchAssumption
<1>9. /\ objs * ALIGNMENT \in Nat /\ (objs + 1) * ALIGNMENT = objs * ALIGNMENT + ALIGNMENT
      /\ objs * ALIGNMENT + ALIGNMENT <= 6 * ALIGNMENT
  <2>1. (objs + 1) * ALIGNMENT <= 6 * ALIGNMENT
    BY <1>6, <1>8, TimesMonotone
  <2>2. objs * ALIGNMENT \in Nat /\ (objs + 1) * ALIGNMENT = objs * ALIGNMENT + ALIGNMENT
    BY <1>6, <1>8
  <2>3. QED
    BY <2>1, <2>2
<1>10. AllocFits(scratch, size)
  BY <1>4, <1>5, <1>6, <1>7, <1>8, <1>9 DEF AllocFits
<1>11. /\ ScratchType(scratch') /\ scratch'.frame = scratch.frame
       /\ scratch'.max_size = scratch.max_size
       /\ scratch'.frame_size = scratch.frame_size
       /\ scratch'.offset[scratch'.frame] = scratch.offset[scratch.frame] + Rounded(size)
  <2> DEFINE t == Alloc(scratch, size)
  <2>1. /\ ScratchType(t) /\ t.frame = scratch.frame
        /\ t.max_size = scratch.max_size /\ t.frame_size = scratch.frame_size
        /\ t.offset[t.frame] = scratch.offset[scratch.frame] + Rounded(size)
    BY <1>5, <1>7, <1>10, AllocType
  <2>2. scratch' = t
    BY <1>1 DEF size
  <2> HIDE DEF t
  <2>3. QED
    BY <2>1, <2>2
<1>12. TypesInv'
  <2>1. ~null'
    BY <1>1, <1>2, <1>10 DEF TypesInv, size
  <2>2. QED
    BY <1>1, <1>2, <1>5, <1>11, <2>1, ScratchNotNull DEF TypesInv, Used, InFrame
<1>13. Room' = Room
  BY <1>1, <1>5, <1>11, RoomSame
<1>14. BatchInv'
  <2>1. \A k : ScratchSize(k)' = ScratchSize(k)
    BY <1>3 DEF ScratchSize
  <2>2. args' = args /\ InBatch'
    BY <1>1 DEF InBatch
  <2>3. QED
    BY <1>2, <1>3, <1>13, <2>1, <2>2 DEF BatchInv
<1>15. FrameInv'
  <2>1. scratch'.offset[scratch'.frame] <= Parts' + objs' * ALIGNMENT
    BY <1>1, <1>5, <1>6, <1>7, <1>8, <1>9, <1>11
  <2>2. scratch'.frame_size[scratch'.frame] = ScratchSize(Nbp)' + Objects * ALIGNMENT
    BY <1>4, <1>6, <1>11 DEF Objects
  <2>3. pc' = "objects" => objs' \in 0 .. 5
    BY <1>1, <1>6 DEF Objects
  <2>4. QED
    BY <2>1, <2>2, <2>3 DEF FrameInv
<1>16. SumInv' /\ MeasureInv' /\ Complete'
  <2>1. MeasureInv'
    BY <1>1 DEF MeasureInv
  <2>2. Complete'
    BY <1>1 DEF IInv, Complete
  <2>3. SumInv'
    BY <1>1, <1>2, <1>3 DEF SumInv, InBatch, InFrame, Upto
  <2>4. QED
    BY <2>1, <2>2, <2>3
<1>17. QED
  BY <1>12, <1>14, <1>15, <1>16 DEF IInv

LEMMA TakePointStep ==
    ASSUME IInv, TakePoint
    PROVE  IInv'
<1>1. /\ pc = "points" /\ pc' = pc /\ point_idx < Nbp
      /\ tmp' = [g |-> tmp.g,
                 pts |-> [tmp.pts EXCEPT ![Offset + point_idx] = @ + 1]]
      /\ point_idx' = point_idx + 1
      /\ UNCHANGED <<scratch, reserved, args, cvars, bvars, objs, null, r, result>>
  BY DEF TakePoint
<1>2. TypesInv /\ InFrame /\ InBatch /\ BatchInv /\ SumInv
  BY <1>1 DEF IInv, InFrame, InBatch
<1>3. /\ UNCHANGED <<f, n_batches, n_batch_points, i, n>>
      /\ Nbp' = Nbp /\ Offset' = Offset
  BY <1>1 DEF bvars, Nbp, Offset
<1>4. /\ Offset \in Nat /\ n \in Nat /\ Offset + n = args.n /\ args.n <= MaxPoints
      /\ args.n \in Nat /\ Nbp \in 0 .. n
  BY <1>2, BatchTypes
<1>5. /\ point_idx \in 0 .. Nbp /\ point_idx + 1 \in 0 .. Nbp
      /\ tmp = [g |-> 0, pts |-> Upto(Offset, Offset + point_idx)]
  BY <1>1, <1>2, <1>4 DEF SumInv
<1>6. Offset + point_idx \in Points
  BY <1>1, <1>4, <1>5, BatchAssumption DEF Points
<1>7. tmp' = [g |-> 0, pts |-> Upto(Offset, Offset + (point_idx + 1))]
  <2> DEFINE old == Upto(Offset, Offset + point_idx)
             new == Upto(Offset, Offset + (point_idx + 1))
  <2>1. tmp.g = 0 /\ tmp.pts = old
    BY <1>5
  <2>2. ASSUME NEW p \in Points
        PROVE  [old EXCEPT ![Offset + point_idx] = @ + 1][p] = new[p]
    <3>1. p \in Int
      BY BatchAssumption DEF Points
    <3>2. point_idx \in Nat
      BY <1>4, <1>5
    <3>3. CASE p = Offset + point_idx
      BY <1>4, <3>1, <3>2, <3>3 DEF Upto
    <3>4. CASE p # Offset + point_idx
      BY <1>4, <3>1, <3>2, <3>4 DEF Upto
    <3>5. QED
      BY <3>3, <3>4
  <2>3. [old EXCEPT ![Offset + point_idx] = @ + 1] = new
    BY <2>2 DEF Upto
  <2> HIDE DEF old, new
  <2>4. tmp' = [g |-> 0, pts |-> new]
    BY <1>1, <2>1, <2>3
  <2>5. QED
    BY <2>4 DEF new
<1>8. SumInv'
  BY <1>1, <1>2, <1>3, <1>5, <1>7 DEF SumInv, InBatch, InFrame, Upto
<1>9. TypesInv'
  BY <1>1, <1>2 DEF TypesInv, Used, InFrame
<1>10. Room' = Room
  BY <1>1, <1>2, RoomSame DEF TypesInv
<1>11. BatchInv'
  <2>1. \A k : ScratchSize(k)' = ScratchSize(k)
    BY <1>3 DEF ScratchSize
  <2>2. args' = args /\ InBatch'
    BY <1>1 DEF InBatch
  <2>3. QED
    BY <1>2, <1>3, <1>10, <2>1, <2>2 DEF BatchInv
<1>12. MeasureInv' /\ FrameInv' /\ Complete'
  BY <1>1 DEF MeasureInv, FrameInv, IInv, Complete
<1>13. QED
  BY <1>8, <1>9, <1>11, <1>12 DEF IInv

LEMMA CallbackFailsStep ==
    ASSUME IInv, CallbackFails
    PROVE  IInv'
<1>1. /\ pc = "points" /\ pc' = "done" /\ result' = 0
      /\ scratch' = DeallocateFrame(scratch)
      /\ UNCHANGED <<reserved, args, null>>
  BY DEF CallbackFails, ovars
<1>2. /\ TypesInv /\ ScratchType(scratch) /\ scratch.frame = reserved + 1
      /\ reserved \in 0 .. 2
  BY <1>1 DEF IInv, TypesInv, Used, InFrame
<1>3. ScratchType(scratch') /\ scratch'.frame = reserved /\ scratch' # NULL
  BY <1>1, <1>2, DeallocateFrameType, ScratchNotNull
<1>4. TypesInv'
  BY <1>1, <1>2, <1>3 DEF TypesInv, Used, InFrame
<1>5. MeasureInv' /\ BatchInv' /\ FrameInv' /\ SumInv'
  BY <1>1 DEF MeasureInv, BatchInv, FrameInv, SumInv, InBatch, InFrame
<1>6. Complete'
  BY <1>1 DEF Complete
<1>7. QED
  BY <1>4, <1>5, <1>6 DEF IInv

\* One batch less.
LEMMA OneLess ==
    ASSUME NEW q \in Nat, NEW k \in Int
    PROVE  /\ (k - 1) * q = k * q - q /\ q * (k + 1) = q * k + q
           /\ k * q \in Int /\ q * k \in Int
  OBVIOUS

LEMMA TimesAtLeast ==
    ASSUME NEW q \in Nat, NEW k \in Nat \ {0}
    PROVE  q <= k * q
<1>1. 1 * q <= k * q
  BY TimesMonotone
<1>2. QED
  BY <1>1

\* The last batch takes what is left, any other is full.
LEMMA BatchPoints ==
    ASSUME BatchInv, InBatch
    PROVE  /\ i + 1 = n_batches => Nbp = n
           /\ i + 1 # n_batches => args.planned /\ Nbp = n_batch_points
           /\ args.planned => Nbp > 0
<1> DEFINE left == n_batches - i
<1>1. /\ n_batches \in Nat /\ n_batch_points \in Nat /\ i \in Nat /\ n \in Nat
      /\ i < n_batches /\ left \in Nat \ {0} /\ left - 1 \in Nat
      /\ n <= left * n_batch_points
      /\ args.planned => (left - 1) * n_batch_points < n
      /\ ~args.planned => n_batches = 1
  BY DEF BatchInv
<1> HIDE DEF left
<1>2. left * n_batch_points \in Nat /\ (left - 1) * n_batch_points \in Nat
  BY <1>1
<1>3. i + 1 = n_batches => left = 1
  BY <1>1 DEF left
<1>4. i + 1 # n_batches => left - 1 \in Nat \ {0} /\ args.planned
  BY <1>1 DEF left
<1>5. left = 1 => left * n_batch_points = n_batch_points
  BY <1>1
<1>6. left - 1 \in Nat \ {0} => n_batch_points <= (left - 1) * n_batch_points
  BY <1>1, TimesAtLeast
<1>7. n_batch_points = 0 => left * n_batch_points = 0
  BY <1>1
<1>8. QED
  BY <1>1, <1>2, <1>3, <1>4, <1>5, <1>6, <1>7 DEF Nbp

\* Intervals that meet add up.
LEMMA UptoMeets ==
    ASSUME NEW a \in Nat, NEW b \in Nat, a <= b
    PROVE  [p \in Points |-> Upto(0, a)[p] + Upto(a, b)[p]] = Upto(0, b)
<1>1. ASSUME NEW p \in Points
      PROVE  Upto(0, a)[p] + Upto(a, b)[p] = IF 0 <= p /\ p < b THEN 1 ELSE 0
  <2>1. p \in Int
    BY BatchAssumption DEF Points
  <2>2. QED
    BY <2>1 DEF Upto
<1>2. QED
  BY <1>1 DEF Upto

LEMMA SumBatchStep ==
    ASSUME IInv, SumBatch
    PROVE  IInv'
<1>1. /\ pc = "points" /\ point_idx = Nbp
      /\ scratch' = DeallocateFrame(scratch)
      /\ n' = n - Nbp /\ i' = i + 1
      /\ IF i + 1 = n_batches THEN pc' = "done" /\ result' = 1
                              ELSE pc' = "batch" /\ result' = result
      /\ reserved' = reserved /\ args' = args /\ f' = f
      /\ n_batches' = n_batches /\ n_batch_points' = n_batch_points
      /\ null' = null
  BY DEF SumBatch, ovars
<1>2. TypesInv /\ InFrame /\ InBatch /\ BatchInv /\ SumInv /\ result # 1
  BY <1>1 DEF IInv, InFrame, InBatch, TypesInv
<1>3. ScratchType(scratch) /\ scratch.frame = reserved + 1 /\ reserved \in 0 .. 2
  BY <1>2 DEF TypesInv, Used, InFrame
<1>4. /\ ScratchType(scratch') /\ scratch'.frame = reserved /\ scratch' # NULL
      /\ scratch'.max_size = scratch.max_size
      /\ scratch'.frame_size = scratch.frame_size
  BY <1>1, <1>3, DeallocateFrameType, ScratchNotNull
<1>5. /\ Offset \in Nat /\ n \in Nat /\ Offset + n = args.n /\ args.n \in Nat
      /\ Nbp \in 0 .. n
  BY <1>2, BatchTypes
<1>6. r' = [g |-> IF args.g THEN 1 ELSE 0, pts |-> Upto(0, Offset + Nbp)]
  <2>1. /\ r = [g |-> IF args.g /\ i > 0 THEN 1 ELSE 0, pts |-> Upto(0, Offset)]
        /\ tmp = [g |-> 0, pts |-> Upto(Offset, Offset + Nbp)]
        /\ args.g \in BOOLEAN /\ i \in Nat
    BY <1>1, <1>2 DEF SumInv, TypesInv, BatchInv
  <2>2. /\ tmp' = IF TakesG THEN AddVar(tmp, OnlyG) ELSE tmp
        /\ r' = AddVar(r, tmp')
    BY DEF SumBatch
  <2>3. tmp' = [g |-> IF i = 0 /\ args.g THEN 1 ELSE 0,
                pts |-> Upto(Offset, Offset + Nbp)]
    <3>1. CASE TakesG
      <4>1. tmp' = [g |-> 0 + 1, pts |-> [p \in Points |-> tmp.pts[p] + 0]]
        BY <2>1, <2>2, <3>1 DEF AddVar, OnlyG
      <4>2. ASSUME NEW p \in Points
            PROVE  tmp.pts[p] + 0 = Upto(Offset, Offset + Nbp)[p]
        BY <2>1 DEF Upto
      <4>3. [p \in Points |-> tmp.pts[p] + 0] = Upto(Offset, Offset + Nbp)
        BY <4>2 DEF Upto
      <4>4. QED
        BY <3>1, <4>1, <4>3 DEF TakesG
    <3>2. CASE ~TakesG
      BY <2>1, <2>2, <3>2 DEF TakesG
    <3>3. QED
      BY <3>1, <3>2
  <2>4. r'.pts = [p \in Points |-> r.pts[p] + tmp'.pts[p]]
        /\ r' = [g |-> r.g + tmp'.g, pts |-> r'.pts]
    BY <2>2 DEF AddVar
  <2>5. r.g + tmp'.g = IF args.g THEN 1 ELSE 0
    BY <2>1, <2>3
  <2>6. r'.pts = [p \in Points |-> Upto(0, Offset)[p]
                                   + Upto(Offset, Offset + Nbp)[p]]
    BY <2>1, <2>3, <2>4
  <2>7. r'.pts = Upto(0, Offset + Nbp)
    BY <1>5, <2>6, UptoMeets
  <2>8. QED
    BY <2>4, <2>5, <2>7
<1>7. CASE i + 1 = n_batches
  <2>1. pc' = "done" /\ result' = 1 /\ Offset + Nbp = args.n
    BY <1>1, <1>2, <1>5, <1>7, BatchPoints
  <2>2. TypesInv'
    BY <1>1, <1>2, <1>3, <1>4, <2>1 DEF TypesInv, Used, InFrame
  <2>3. MeasureInv' /\ BatchInv' /\ FrameInv' /\ SumInv'
    BY <2>1 DEF MeasureInv, BatchInv, FrameInv, SumInv, InBatch, InFrame
  <2>4. Complete'
    <3>1. r'.g = (IF args.g THEN 1 ELSE 0) /\ r'.pts = Upto(0, args.n)
      BY <1>6, <2>1
    <3>2. ASSUME NEW p \in Points
          PROVE  Upto(0, args.n)[p] = IF p < args.n THEN 1 ELSE 0
      <4>1. p \in Int /\ 0 <= p
        BY BatchAssumption DEF Points
      <4>2. QED
        BY <4>1 DEF Upto
    <3>3. QED
      BY <1>1, <3>1, <3>2 DEF Complete
  <2>5. QED
    BY <2>2, <2>3, <2>4 DEF IInv
<1>8. CASE i + 1 # n_batches
  <2>1. /\ pc' = "batch" /\ result' = result /\ args.planned
        /\ Nbp = n_batch_points
    BY <1>1, <1>2, <1>8, BatchPoints
  <2>2. TypesInv'
    BY <1>1, <1>2, <1>3, <1>4, <2>1 DEF TypesInv, Used, InFrame
  <2>3. /\ f \in {"strauss", "pippenger"}
        /\ n_batches \in Nat /\ n_batch_points \in Nat /\ i \in Nat
        /\ i < n_batches /\ n + n_batch_points * i = args.n
        /\ n <= (n_batches - i) * n_batch_points
        /\ (n_batches - i - 1) * n_batch_points < n
        /\ \A k \in 1 .. n_batch_points : ScratchSize(k) <= Room
    BY <1>2, <2>1 DEF BatchInv
  <2>4. Room' = Room
    BY <1>1, <1>3, <1>4, RoomSame
  <2>5. \A k \in 1 .. n_batch_points : ScratchSize(k)' <= Room'
    BY <1>1, <2>3, <2>4 DEF ScratchSize
  <2>6. n_batch_points * (i + 1) = n_batch_points * i + n_batch_points
    BY <2>3, OneLess
  <2>7. Offset' = Offset + Nbp
    BY <1>1, <2>1, <2>6 DEF Offset
  <2>8. BatchInv'
    <3> DEFINE left == n_batches - i
    <3>1. left \in Int /\ left - 1 \in Int
      BY <2>3
    <3> HIDE DEF left
    <3>2. /\ (left - 1) * n_batch_points = left * n_batch_points - n_batch_points
          /\ (left - 1 - 1) * n_batch_points
                = (left - 1) * n_batch_points - n_batch_points
          /\ left * n_batch_points \in Int
          /\ (left - 1) * n_batch_points \in Int
      BY <2>3, <3>1, OneLess
    <3>3. n' = n - n_batch_points /\ n' \in Nat
      BY <1>1, <1>5, <2>1
    <3>4. n_batches - i' = left - 1 /\ n_batches - i' - 1 = left - 1 - 1
      BY <1>1, <2>3 DEF left
    <3>5. n <= left * n_batch_points /\ (left - 1) * n_batch_points < n
      BY <2>3 DEF left
    <3>6. n' <= (n_batches - i') * n_batch_points
          /\ (n_batches - i' - 1) * n_batch_points < n'
      BY <1>5, <2>3, <3>2, <3>3, <3>4, <3>5
    <3>7. n' + n_batch_points * i' = args.n
      <4>1. n_batch_points * i \in Int
        BY <2>3, OneLess
      <4>2. QED
        BY <1>1, <1>5, <2>3, <2>6, <3>3, <4>1
    <3>8. i' \in Nat /\ i' < n_batches
      BY <1>1, <1>8, <2>3
    <3>9. QED
      BY <1>1, <2>1, <2>3, <2>5, <3>3, <3>6, <3>7, <3>8 DEF BatchInv
  <2>9. SumInv'
    <3>1. ~InFrame' /\ i' > 0 /\ args' = args
      BY <1>1, <2>1, <2>3 DEF InFrame
    <3>2. r' = [g |-> IF args.g /\ i' > 0 THEN 1 ELSE 0,
                pts |-> Upto(0, Offset')]
      BY <1>6, <2>7, <3>1
    <3>3. QED
      BY <3>1, <3>2 DEF SumInv, Upto
  <2>10. MeasureInv' /\ FrameInv' /\ Complete'
    BY <1>2, <2>1 DEF MeasureInv, FrameInv, Complete
  <2>11. QED
    BY <2>2, <2>8, <2>9, <2>10 DEF IInv
<1>9. QED
  BY <1>7, <1>8

---------------------------------------------------------------------------
(* The theorems.                                                           *)

LEMMA StutterStep ==
    ASSUME IInv, UNCHANGED vars
    PROVE  IInv'
<1>1. UNCHANGED <<scratch, reserved, pc, args, max_alloc, bucket_window, res,
                  f, n_batches, n_batch_points, i, n, objs, null, point_idx,
                  tmp, r, result>>
  BY DEF vars, cvars, bvars, ovars
<1>2. Nbp' = Nbp /\ Offset' = Offset
  BY <1>1 DEF Nbp, Offset
<1>3. Room' = Room
  BY <1>1 DEF Room, Left, CallerBytes
<1>4. \A k : ScratchSize(k)' = ScratchSize(k)
  BY <1>1 DEF ScratchSize
<1>5. TypesInv'
  BY <1>1 DEF IInv, TypesInv, Used, InFrame
<1>6. MeasureInv'
  BY <1>1, <1>3 DEF IInv, MeasureInv, PippengerFits
<1>7. BatchInv'
  BY <1>1, <1>3, <1>4 DEF IInv, BatchInv, InBatch
<1>8. FrameInv'
  <2>1. Parts' = Parts
    BY <1>1, <1>2 DEF Parts, Part, ObjectSizes
  <2>2. QED
    BY <1>1, <1>2, <1>4, <2>1 DEF IInv, FrameInv
<1>9. SumInv'
  BY <1>1, <1>2 DEF IInv, SumInv, InBatch, InFrame, Upto
<1>10. Complete'
  BY <1>1 DEF IInv, Complete
<1>11. QED
  BY <1>5, <1>6, <1>7, <1>8, <1>9, <1>10 DEF IInv

LEMMA NextStep == IInv /\ [Next]_vars => IInv'
<1> SUFFICES ASSUME IInv, [Next]_vars PROVE IInv'
  OBVIOUS
<1>1. ASSUME NEW size \in ScratchSizes, Create(size) PROVE IInv'
  BY <1>1, CallerStep
<1>2. ASSUME NEW size \in ReservedSizes, Reserve(size) PROVE IInv'
  BY <1>2, CallerStep
<1>3. CASE Destroy
  BY <1>3, CallerStep
<1>4. CASE Release
  BY <1>4, CallerStep
<1>5. ASSUME NEW k \in 0 .. MaxPoints, NEW g \in BOOLEAN, Call(k, g)
      PROVE  IInv'
  BY <1>5, CallStep
<1>6. ASSUME NEW fun \in {"strauss", "pippenger"}, NEW k \in SingleCounts,
             NEW g \in BOOLEAN, CallSingle(fun, k, g)
      PROVE  IInv'
  BY <1>6, CallSingleStep
<1>7. CASE TryWindow
  BY <1>7, TryWindowStep
<1>8. CASE Plan
  BY <1>8, PlanStep
<1>9. CASE BeginBatch
  BY <1>9, BeginBatchStep
<1>10. CASE AllocObject
  BY <1>10, AllocObjectStep
<1>11. CASE TakePoint
  BY <1>11, TakePointStep
<1>12. CASE CallbackFails
  BY <1>12, CallbackFailsStep
<1>13. CASE SumBatch
  BY <1>13, SumBatchStep
<1>14. CASE Return
  BY <1>14, ReturnStep
<1>15. CASE UNCHANGED vars
  BY <1>15, StutterStep
<1>16. QED
  BY <1>1, <1>2, <1>3, <1>4, <1>5, <1>6, <1>7, <1>8, <1>9, <1>10, <1>11,
     <1>12, <1>13, <1>14, <1>15 DEF Next

LEMMA Invariant == Spec => []IInv
<1>1. QED
  BY InitInv, NextStep, PTL DEF Spec

\* A call that succeeds has summed every point of every batch exactly once,
\* and G once if it was given (multi_var and the batch functions).
THEOREM EveryPointOnce == Spec => []Complete
<1>1. IInv => Complete
  BY DEF IInv
<1>2. QED
  BY <1>1, Invariant, PTL

\* The unchecked pointers of the batch functions are never NULL: six
\* rounded objects have room in a frame of the size asked for.
THEOREM TablesFit == Spec => []ObjectsFit
<1>1. IInv => ObjectsFit
  BY DEF IInv, TypesInv, ObjectsFit
<1>2. QED
  BY <1>1, Invariant, PTL

\* The sizes that pippenger_max_points and strauss_max_points return are
\* enough for every batch multi_var cuts, the smaller ones included.
THEOREM BatchesFit == Spec => []PlannedFits
<1>1. ASSUME IInv, pc = "batch", args.planned
      PROVE  FrameFits(scratch, ScratchSize(Nbp), Objects)
  <2>1. TypesInv /\ BatchInv /\ InBatch /\ Used /\ ~InFrame
    BY <1>1 DEF IInv, InBatch, Used, InFrame
  <2>2. Nbp \in Nat /\ Nbp <= n_batch_points /\ Nbp > 0
    BY <1>1, <2>1, BatchTypes, BatchPoints
  <2>3. Nbp \in 1 .. n_batch_points
    BY <2>1, <2>2 DEF BatchInv
  <2>4. ScratchSize(Nbp) <= Room
    BY <1>1, <2>1, <2>3 DEF BatchInv
  <2>5. QED
    BY <2>1, <2>4, RoomProperties DEF FrameFits
<1>2. IInv => PlannedFits
  BY <1>1 DEF PlannedFits
<1>3. QED
  BY <1>2, Invariant, PTL

\* However a call ends, only the caller's frames are left.
THEOREM NoFrameLeaks == Spec => []FramesReleased
<1>1. IInv => FramesReleased
  BY DEF IInv, TypesInv, FramesReleased, Used, InFrame
<1>2. QED
  BY <1>1, Invariant, PTL

\* Two divisions rounded up never plan a batch without points.
THEOREM BatchesHavePoints == Spec => []NoEmptyBatch
<1>1. IInv => NoEmptyBatch
  BY BatchPoints DEF IInv, NoEmptyBatch, InBatch
<1>2. QED
  BY <1>1, Invariant, PTL
===========================================================================
