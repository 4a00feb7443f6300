------------------------------ MODULE Scratch ------------------------------
(***************************************************************************)
(* The scratch space of scratch_impl.h: a budget of bytes from which       *)
(* frames are allocated in a stack, and objects in the topmost frame.      *)
(* The memory of a frame is its size and how much of it is given out.      *)
(***************************************************************************)
EXTENDS Integers

CONSTANTS
    ALIGNMENT,      \* objects are rounded up to it
    SIZE_MAX        \* the largest size_t

ASSUME ScratchAssumption ==
    ALIGNMENT \in Nat \ {0} /\ SIZE_MAX \in Nat \ {0}

Frames == 1 .. 5                \* SECP256K1_SCRATCH_MAX_FRAMES
NoBytes == [i \in Frames |-> 0]

\* What scratch_create returns when its malloc succeeds.
Created(size) == [max_size |-> size, frame |-> 0,
                  frame_size |-> NoBytes, offset |-> NoBytes]

FrameBytes(s, i) == IF i <= s.frame THEN s.frame_size[i] ELSE 0
Allocated(s) == FrameBytes(s, 1) + FrameBytes(s, 2) + FrameBytes(s, 3)
                + FrameBytes(s, 4) + FrameBytes(s, 5)

\* size_t has no negative numbers.
SizeMinus(a, b) == IF b <= a THEN a - b ELSE a - b + SIZE_MAX + 1

MaxAllocation(s, objects) ==
    IF SizeMinus(s.max_size, Allocated(s)) <= objects * ALIGNMENT THEN 0
    ELSE SizeMinus(s.max_size, Allocated(s)) - objects * ALIGNMENT

\* allocate_frame: whether it asks for memory, and what it does when it
\* gets some.
\* Mutant: the room for rounding the objects is not counted.
FrameFitsUnrounded(s, n, objects) == n <= MaxAllocation(s, 0)
FrameFits(s, n, objects) == n <= MaxAllocation(s, objects)
\* Mutant: that room is not added.
AllocateFrameExact(s, n, objects) ==
    [max_size |-> s.max_size, frame |-> s.frame + 1,
     frame_size |-> [s.frame_size EXCEPT ![s.frame + 1] = n],
     offset |-> [s.offset EXCEPT ![s.frame + 1] = 0]]
AllocateFrame(s, n, objects) ==
    [max_size |-> s.max_size, frame |-> s.frame + 1,
     frame_size |-> [s.frame_size EXCEPT
                         ![s.frame + 1] = n + objects * ALIGNMENT],
     offset |-> [s.offset EXCEPT ![s.frame + 1] = 0]]

DeallocateFrame(s) ==
    [max_size |-> s.max_size, frame |-> s.frame - 1,
     frame_size |-> s.frame_size, offset |-> s.offset]

\* scratch_alloc: whether it returns memory rather than NULL, and how.
Rounded(size) == ((size + ALIGNMENT - 1) \div ALIGNMENT) * ALIGNMENT
AllocFits(s, size) ==
    s.frame # 0
    /\ Rounded(size) + s.offset[s.frame] <= s.frame_size[s.frame]
Alloc(s, size) ==
    IF ~AllocFits(s, size) THEN s
    ELSE [max_size |-> s.max_size, frame |-> s.frame,
          frame_size |-> s.frame_size,
          offset |-> [s.offset EXCEPT ![s.frame] = @ + Rounded(size)]]
===========================================================================
