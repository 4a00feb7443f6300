----------------------------- MODULE HashStream -----------------------------
(***************************************************************************)
(* A client that hashes Source with sha256_initialize, sha256_write in     *)
(* pieces of any lengths, and sha256_finalize, which writes too.  Every    *)
(* iteration of the loop of sha256_write is a step.                        *)
(***************************************************************************)
EXTENDS Sha256

CONSTANT
    Source      \* the message

ASSUME SourceAssumption == Source \in Seq(Byte)

VARIABLES
    hash,       \* the hash object
    data,       \* what sha256_write has still to read
    bufsize,    \* its local variable
    pc,         \* where the client or the function is
    back,       \* where sha256_write returns to
    sizedesc,   \* the local variable of finalize
    out,        \* the stream behind the digest returned last
    message,    \* all the client has written
    call        \* the object and the data at the start of the last write

vars == <<hash, data, bufsize, pc, back, sizedesc, out, message, call>>

Init ==
    /\ hash = Initialized
    /\ data = << >> /\ bufsize = 0
    /\ pc = "new" /\ back = "new"
    /\ sizedesc = << >> /\ out = << >> /\ message = << >>
    /\ call = [hash |-> Initialized, data |-> << >>]

Initialize ==
    /\ pc \in {"new", "idle", "final"}
    /\ hash' = Initialized
    /\ message' = << >> /\ out' = << >>
    /\ pc' = "idle" /\ back' = "idle"
    /\ call' = [hash |-> Initialized, data |-> << >>]
    /\ data' = << >> /\ bufsize' = 0 /\ sizedesc' = << >>

\* sha256_write is entered with d.
EnterWrite(d, to) ==
    /\ bufsize' = BufSize(hash)
    /\ hash' = [s |-> hash.s, buf |-> hash.buf,
                bytes |-> hash.bytes + Len(d)]
    /\ data' = d
    /\ call' = [hash |-> hash, data |-> d]
    /\ pc' = "write" /\ back' = to

\* A client writes the next n bytes of its message.
Write(n) ==
    /\ pc = "idle"
    /\ LET d == SubSeq(Source, Len(message) + 1, Len(message) + n)
       IN  EnterWrite(d, "idle") /\ message' = message \o d
    /\ UNCHANGED <<sizedesc, out>>

\* Mutant: the offset into the buffer is not reset.
FillBlockKeepsOffset ==
    /\ pc = "write"
    /\ bufsize + Len(data) >= Block
    /\ LET chunk == Block - bufsize
           buf == Copied(hash.buf, bufsize, SubSeq(data, 1, chunk))
       IN  /\ hash' = [s |-> Transform(hash.s, buf), buf |-> buf,
                       bytes |-> hash.bytes]
           /\ data' = SubSeq(data, chunk + 1, Len(data))
    /\ UNCHANGED <<bufsize, pc, back, sizedesc, out, message, call>>
\* The buffer is filled and processed.
FillBlock ==
    /\ pc = "write"
    /\ bufsize + Len(data) >= Block
    /\ LET chunk == Block - bufsize
           buf == Copied(hash.buf, bufsize, SubSeq(data, 1, chunk))
       IN  /\ hash' = [s |-> Transform(hash.s, buf), buf |-> buf,
                       bytes |-> hash.bytes]
           /\ data' = SubSeq(data, chunk + 1, Len(data))
    /\ bufsize' = 0
    /\ UNCHANGED <<pc, back, sizedesc, out, message, call>>

\* Mutant: the rest is copied to the start of the buffer.
KeepRestAtStart ==
    /\ pc = "write" /\ bufsize + Len(data) < Block
    /\ hash' = [s |-> hash.s, buf |-> Copied(hash.buf, 0, data),
                bytes |-> hash.bytes]
    /\ data' = << >> /\ pc' = back
    /\ UNCHANGED <<bufsize, back, sizedesc, out, message, call>>
\* What remains is kept in the buffer.
KeepRest ==
    /\ pc = "write"
    /\ bufsize + Len(data) < Block
    /\ hash' = [s |-> hash.s, buf |-> Copied(hash.buf, bufsize, data),
                bytes |-> hash.bytes]
    /\ data' = << >>
    /\ pc' = back
    /\ UNCHANGED <<bufsize, back, sizedesc, out, message, call>>

\* finalize takes the length down before it writes the padding, ...
Finalize ==
    /\ pc = "idle"
    /\ sizedesc' = SizeDesc(hash.bytes)
    /\ EnterWrite(Pad(hash.bytes), "size")
    /\ UNCHANGED <<out, message>>

\* Mutant: the length is taken after the padding has been counted.
WriteSizeLate ==
    /\ pc = "size"
    /\ EnterWrite(SizeDesc(hash.bytes), "out")
    /\ UNCHANGED <<sizedesc, out, message>>
\* ... then writes the length, ...
WriteSize ==
    /\ pc = "size"
    /\ EnterWrite(sizedesc, "out")
    /\ UNCHANGED <<sizedesc, out, message>>

\* ... and returns the digest and clears s.
Output ==
    /\ pc = "out"
    /\ out' = hash.s
    /\ hash' = [s |-> << >>, buf |-> hash.buf, bytes |-> hash.bytes]
    /\ pc' = "final"
    /\ UNCHANGED <<data, bufsize, back, sizedesc, message, call>>

Next ==
    \/ Initialize
    \/ \E n \in 0 .. Len(Source) - Len(message) : Write(n)
    \/ FillBlock \/ KeepRest
    \/ Finalize \/ WriteSize \/ Output

Spec == Init /\ [][Next]_vars

---------------------------------------------------------------------------
(* Properties.                                                             *)

\* What a client has written is what went through transform, followed by
\* the part of the buffer that counts, however it was cut into pieces and
\* whatever the buffer held before (sha256_write).
Streamed ==
    pc = "idle" => hash.s \o SubSeq(hash.buf, 1, BufSize(hash)) = message

\* When the digest is taken no byte is left in the buffer: the padding
\* completes a block for every length (sha256_finalize).
AllCompressed == pc = "out" => BufSize(hash) = 0

\* The digest is that of the padded message, also where the message ends
\* just before, at, or just after a block, or the length field does not fit
\* behind it (sha256_finalize).
DigestOfPadded == pc = "final" => out = Padded(message)

\* The loop of sha256_write computes what Written says, the buffer
\* included.  Written is what the users of the hash are modelled with.
WritesWhole ==
    pc \in {"idle", "size", "out"} /\ pc = back =>
        hash = Written(call.hash, call.data)
===========================================================================
