----------------------------- MODULE AviWriter -----------------------------
(***************************************************************************)
(* The Motion-JPEG recording file: aviWriter (internal/desktop/avi.go)     *)
(* streams frames after a fixed header, and close appends the index and    *)
(* patches the size fields of the header.  Every size and offset of the    *)
(* format is a 32-bit number, so a frame is refused as soon as it could no *)
(* longer be addressed.                                                    *)
(*                                                                         *)
(* The file is its length and what matters of its contents: where frames   *)
(* start, where the index starts and the patched fields.  A write may fail *)
(* after any part of its bytes has reached the file; the recorder then     *)
(* stops writing and closes the file.                                      *)
(***************************************************************************)
EXTENDS Integers, Sequences

CONSTANTS
    MaxField,   \* largest value of a size field: 2^32 - 1 in the format
    Lengths     \* sizes a JPEG frame can have

HeaderSize      == 224   \* frame data begins here
MoviFourcc      == 220   \* position of the 'movi' FOURCC
FrameHeaderSize == 8
IndexHeaderSize == 8
IndexEntrySize  == 16

ASSUME MaxFieldAssumption == MaxField \in Nat /\ MaxField >= HeaderSize + IndexHeaderSize
ASSUME LengthsAssumption  == Lengths \subseteq Nat

VARIABLES
    phase,       \* "recording", "stopped", "patching", "closed"
    cause,       \* why recording stopped: "none" (asked to), "limit", "error"
    end,         \* length of the file: the next write goes here
    starts,      \* where each indexed frame's chunk starts in the file
    movieBytes,  \* frame data counted so far
    count,       \* frames counted so far
    index,       \* entries of the idx1 table
    idxAt,       \* where the idx1 chunk starts, 0 until written
    fields,      \* the patched header fields, 0 until patched
    patched      \* how many of them have been patched

frames == <<starts, movieBytes, count, index>>
header == <<fields, patched>>
vars   == <<phase, cause, end, frames, idxAt, header>>

Fields == {"riff", "frames", "length", "movi"}

Init ==
    /\ phase = "recording" /\ cause = "none"
    /\ end = HeaderSize /\ starts = <<>>
    /\ movieBytes = 0 /\ count = 0 /\ index = <<>>
    /\ idxAt = 0 /\ fields = [f \in Fields |-> 0] /\ patched = 0

----------------------------------------------------------------------------
\* u32: the clamp that replaces a wrapping conversion.
u32(v) == IF v < 0 THEN 0 ELSE IF v > MaxField THEN MaxField ELSE v

Pad(n)       == n % 2
ChunkSize(n) == FrameHeaderSize + n + Pad(n)
IndexSize(c) == IndexHeaderSize + IndexEntrySize * c

\* Mutant: the new frame's own index entry is forgotten.
FitsUnindexed(n) ==
    HeaderSize + movieBytes + ChunkSize(n) + IndexSize(count) - 8 <= MaxField

\* fits: with this frame and its index entry, the RIFF size can be written.
Fits(n) == HeaderSize + movieBytes + ChunkSize(n) + IndexSize(count + 1) - 8 <= MaxField

\* Mutant: an offset from the wrong origin.
OffsetFromData == u32(movieBytes)

\* Offset of the next chunk, relative to the 'movi' FOURCC.
NextOffset == u32(HeaderSize + movieBytes - MoviFourcc)

WriteFrame(n) ==
    /\ phase = "recording" /\ Fits(n)
    /\ end' = end + ChunkSize(n)
    /\ starts' = Append(starts, end)
    /\ movieBytes' = movieBytes + ChunkSize(n)
    /\ index' = Append(index, [offset |-> NextOffset, size |-> u32(n)])
    /\ count' = count + 1
    /\ UNCHANGED <<phase, cause, idxAt, header>>

\* ErrAVISizeLimit: nothing of the frame is written, and the recorder stops.
ReachLimit(n) ==
    /\ phase = "recording" /\ ~Fits(n)
    /\ phase' = "stopped" /\ cause' = "limit"
    /\ UNCHANGED <<end, frames, idxAt, header>>

Fail == phase' = "stopped" /\ cause' = "error"

\* A short write of the chunk header or of the payload: the bytes are in the
\* file and in no count.
PayloadFails(n) ==
    /\ phase = "recording" /\ Fits(n)
    /\ Fail
    /\ \E part \in 0..(FrameHeaderSize + n - 1) : end' = end + part
    /\ UNCHANGED <<frames, idxAt, header>>

\* The pad byte fails: header and payload are already counted.
PadFails(n) ==
    /\ phase = "recording" /\ Fits(n) /\ Pad(n) = 1
    /\ Fail
    /\ end' = end + FrameHeaderSize + n
    /\ movieBytes' = movieBytes + FrameHeaderSize + n
    /\ UNCHANGED <<starts, count, index, idxAt, header>>

\* The recorder was asked to stop.
Stop ==
    /\ phase = "recording"
    /\ phase' = "stopped"
    /\ UNCHANGED <<cause, end, frames, idxAt, header>>

----------------------------------------------------------------------------
\* close: the idx1 chunk, then the fields one by one; an error leaves the rest.
WriteIndex ==
    /\ phase = "stopped"
    /\ phase' = "patching"
    /\ idxAt' = end
    /\ end' = end + IndexSize(Len(index))
    /\ UNCHANGED <<cause, frames, header>>

IndexFails ==
    /\ phase = "stopped"
    /\ phase' = "closed" /\ cause' = "error"
    /\ \E part \in 0..(IndexSize(Len(index)) - 1) : end' = end + part
    /\ UNCHANGED <<frames, idxAt, header>>

\* Mutant: the index is left out of the RIFF size.
FieldShort(f) ==
    CASE f = "riff" -> u32(HeaderSize + movieBytes - 8)
      [] f = "movi" -> u32(4 + movieBytes)
      [] OTHER      -> u32(count)

FieldValue(f) ==
    CASE f = "riff" -> u32(HeaderSize + movieBytes + IndexSize(Len(index)) - 8)
      [] f = "movi" -> u32(4 + movieBytes)
      [] OTHER      -> u32(count)

\* The field patched after k others.
FieldAt(k) == CASE k = 0 -> "riff" [] k = 1 -> "frames" [] k = 2 -> "length" [] OTHER -> "movi"

PatchField ==
    /\ phase = "patching" /\ patched < 4
    /\ fields' = [fields EXCEPT ![FieldAt(patched)] = FieldValue(FieldAt(patched))]
    /\ patched' = patched + 1
    /\ UNCHANGED <<phase, cause, end, frames, idxAt>>

PatchFails ==
    /\ phase = "patching" /\ patched < 4
    /\ phase' = "closed" /\ cause' = "error"
    /\ UNCHANGED <<end, frames, idxAt, header>>

Closed ==
    /\ phase = "patching" /\ patched = 4
    /\ phase' = "closed"
    /\ UNCHANGED <<cause, end, frames, idxAt, header>>

----------------------------------------------------------------------------
Write == \E n \in Lengths : WriteFrame(n) \/ ReachLimit(n) \/ PayloadFails(n) \/ PadFails(n)

Close == WriteIndex \/ IndexFails \/ PatchField \/ PatchFails \/ Closed

Done == phase = "closed" /\ UNCHANGED vars

Next == Write \/ Stop \/ Close \/ Done

Spec == Init /\ [][Next]_vars

----------------------------------------------------------------------------
(***************************************************************************)
(* Properties                                                              *)
(***************************************************************************)
\* Every variable has its type.
TypeOK ==
    /\ phase \in {"recording", "stopped", "patching", "closed"}
    /\ cause \in {"none", "limit", "error"}
    /\ end \in Nat /\ movieBytes \in Nat /\ count \in Nat /\ idxAt \in Nat
    /\ starts \in Seq(Nat)
    /\ index \in Seq([offset : Nat, size : Nat])
    /\ fields \in [Fields -> Nat] /\ patched \in 0..4

\* The clamp of u32 never engages: whatever was written, and even after a failed
\* write, every size and offset that close patches in still fits its field.
NeverClamped ==
    /\ HeaderSize + movieBytes + IndexSize(count) - 8 <= MaxField
    /\ count = Len(index)

\* Every index entry addresses its own frame: its offset is where that chunk
\* starts in the file, whatever was written before it.
IndexAddressesFrames ==
    /\ Len(starts) = Len(index)
    /\ \A i \in 1..Len(index) : index[i].offset = starts[i] - MoviFourcc

\* A file closed without a failed write is whole: the RIFF size covers all of it,
\* the movi list ends where the index starts, and every frame is announced. A
\* recording that stopped at the size limit "is valid up to this point".
FinalizedIsWhole ==
    phase = "closed" /\ cause # "error" =>
        /\ fields.riff = end - 8
        /\ MoviFourcc + fields.movi = idxAt
        /\ fields.frames = Len(index) /\ fields.length = Len(index)
=============================================================================
