-------------------------- MODULE AviWriterProofs --------------------------
(***************************************************************************)
(* Proofs about AviWriter for every size limit and every frame size.       *)
(*                                                                         *)
(* IInv adds to the properties where the end of the file is: as long as no *)
(* write has failed it is where the counters say, which is what makes the  *)
(* offset computed from movieBytes the place the next frame is written to. *)
(***************************************************************************)
EXTENDS AviWriter, TLAPS

\* The counters describe the file until a write fails.
EndWhereCounted ==
    cause # "error" =>
        /\ phase \in {"recording", "stopped"} => end = HeaderSize + movieBytes
        /\ phase \in {"patching", "closed"} =>
               /\ idxAt = HeaderSize + movieBytes
               /\ end = idxAt + IndexSize(Len(index))

\* Errors end the recording, and what close has patched holds its value.
Progress ==
    /\ phase = "recording" => cause = "none"
    /\ phase = "closed" /\ cause # "error" => patched = 4
    /\ patched >= 1 => fields["riff"]   = FieldValue("riff")
    /\ patched >= 2 => fields["frames"] = FieldValue("frames")
    /\ patched >= 3 => fields["length"] = FieldValue("length")
    /\ patched = 4  => fields["movi"]   = FieldValue("movi")
    /\ phase \in {"recording", "stopped"} => patched = 0

IInv == TypeOK /\ NeverClamped /\ IndexAddressesFrames /\ EndWhereCounted /\ Progress

----------------------------------------------------------------------------
\* A chunk is its header, its payload and at most one byte of padding.
LEMMA ChunkSizeBounds ==
    ASSUME NEW n \in Nat
    PROVE  /\ ChunkSize(n) \in Nat /\ ChunkSize(n) >= FrameHeaderSize + n
           /\ Pad(n) \in {0, 1}
  BY DEF ChunkSize, Pad, FrameHeaderSize

\* The index of c frames takes eight bytes and sixteen more a frame.
LEMMA IndexSizeBounds ==
    ASSUME NEW c \in Nat
    PROVE  IndexSize(c) \in Nat /\ IndexSize(c) >= 8 /\ IndexSize(c + 1) = IndexSize(c) + 16
  BY DEF IndexSize, IndexHeaderSize, IndexEntrySize

\* What fits its field is stored as it is.
LEMMA NotClamped ==
    ASSUME NEW v \in Nat, v <= MaxField
    PROVE  u32(v) = v
  BY MaxFieldAssumption DEF u32

\* A clamped value is a natural number.
LEMMA ClampedIsNat ==
    ASSUME NEW v \in Int
    PROVE  u32(v) \in Nat
  BY MaxFieldAssumption DEF u32

\* The patched values have the type of the fields.
LEMMA FieldValueType ==
    ASSUME TypeOK, NEW f \in Fields
    PROVE  FieldValue(f) \in Nat
<1>1. Len(index) \in Nat
  BY DEF TypeOK
<1>2. IndexSize(Len(index)) \in Nat
  BY <1>1, IndexSizeBounds
<1>3. /\ HeaderSize + movieBytes + IndexSize(Len(index)) - 8 \in Int
      /\ 4 + movieBytes \in Int /\ count \in Int
  BY <1>2 DEF TypeOK, HeaderSize
<1>4. QED
  BY <1>3, ClampedIsNat DEF FieldValue

----------------------------------------------------------------------------
\* The invariant holds of a file that was just opened.
LEMMA InitIInv == Init => IInv
<1> SUFFICES ASSUME Init PROVE IInv
  OBVIOUS
<1>1. TypeOK
  BY DEF Init, TypeOK, HeaderSize, Fields
<1>2. NeverClamped
  BY MaxFieldAssumption DEF Init, NeverClamped, HeaderSize, IndexSize, IndexHeaderSize, IndexEntrySize
<1>3. IndexAddressesFrames
  BY DEF Init, IndexAddressesFrames
<1>4. EndWhereCounted
  BY DEF Init, EndWhereCounted, HeaderSize
<1>5. Progress
  BY DEF Init, Progress
<1>6. QED
  BY <1>1, <1>2, <1>3, <1>4, <1>5 DEF IInv

\* A frame that fits keeps the invariant: this is where the limit, the offset
\* and the end of the file meet.
LEMMA WriteFrameIInv ==
    ASSUME IInv, NEW n \in Lengths, WriteFrame(n)
    PROVE  IInv'
<1> USE DEF IInv
<1>1. n \in Nat
  BY LengthsAssumption
<1>2. /\ ChunkSize(n) \in Nat /\ ChunkSize(n) >= 8 + n
      /\ IndexSize(count + 1) \in Nat /\ IndexSize(count + 1) >= 8
  <2>1. count + 1 \in Nat
    BY DEF TypeOK
  <2>2. IndexSize(count + 1) \in Nat /\ IndexSize(count + 1) >= 8
    BY <2>1, IndexSizeBounds
  <2>3. ChunkSize(n) \in Nat /\ ChunkSize(n) >= 8 + n
    BY <1>1, ChunkSizeBounds DEF FrameHeaderSize
  <2>4. QED
    BY <2>2, <2>3
<1>3. 224 + movieBytes + ChunkSize(n) + IndexSize(count + 1) - 8 <= MaxField
  BY DEF WriteFrame, Fits, HeaderSize
<1>4. NextOffset = 4 + movieBytes /\ u32(n) = n
  <2>1. 4 + movieBytes \in Nat /\ 4 + movieBytes <= MaxField /\ n <= MaxField
    BY <1>1, <1>2, <1>3, MaxFieldAssumption DEF TypeOK
  <2>2. HeaderSize + movieBytes - MoviFourcc = 4 + movieBytes
    BY DEF TypeOK, HeaderSize, MoviFourcc
  <2>3. QED
    BY <1>1, <2>1, <2>2, NotClamped DEF NextOffset
<1>5. end = 224 + movieBytes
  BY DEF WriteFrame, EndWhereCounted, Progress, HeaderSize
<1>6. /\ starts' = Append(starts, end)
      /\ index' = Append(index, [offset |-> 4 + movieBytes, size |-> n])
      /\ count' = count + 1 /\ movieBytes' = movieBytes + ChunkSize(n)
      /\ end' = end + ChunkSize(n)
      /\ UNCHANGED <<phase, cause, idxAt, fields, patched>>
  BY <1>4 DEF WriteFrame, header
<1>7. TypeOK'
  <2>1. starts' \in Seq(Nat)
    BY <1>6 DEF TypeOK
  <2>2. index' \in Seq([offset : Nat, size : Nat])
    <3>1. [offset |-> 4 + movieBytes, size |-> n] \in [offset : Nat, size : Nat]
      BY <1>1 DEF TypeOK
    <3>2. QED
      BY <1>6, <3>1 DEF TypeOK
  <2>3. end' \in Nat /\ movieBytes' \in Nat /\ count' \in Nat
    BY <1>2, <1>6 DEF TypeOK
  <2>4. phase' = phase /\ cause' = cause /\ idxAt' = idxAt /\ fields' = fields /\ patched' = patched
    BY <1>6
  <2>5. QED
    BY <2>1, <2>2, <2>3, <2>4 DEF TypeOK
<1>8. Len(index') = Len(index) + 1 /\ Len(starts') = Len(starts) + 1
  BY <1>6 DEF TypeOK
<1>9. NeverClamped'
  <2>1. count' = Len(index')
    BY <1>6, <1>8 DEF NeverClamped
  <2>2. 224 + (movieBytes + ChunkSize(n)) + IndexSize(count + 1) - 8 <= MaxField
    BY <1>2, <1>3, MaxFieldAssumption DEF TypeOK
  <2>3. 224 + movieBytes' + IndexSize(count') - 8 <= MaxField
    BY <1>6, <2>2
  <2>4. QED
    BY <2>1, <2>3 DEF NeverClamped, HeaderSize
<1>10. IndexAddressesFrames'
  <2>1. Len(starts') = Len(index')
    BY <1>8 DEF IndexAddressesFrames
  <2>2. ASSUME NEW i \in 1..Len(index')
        PROVE  index'[i].offset = starts'[i] - MoviFourcc
    <3>1. CASE i = Len(index) + 1
      <4>1. index'[i] = [offset |-> 4 + movieBytes, size |-> n]
        BY <1>6, <3>1 DEF TypeOK
      <4>2. starts'[i] = end
        BY <1>6, <3>1 DEF TypeOK, IndexAddressesFrames
      <4>3. QED
        BY <1>5, <4>1, <4>2 DEF TypeOK, MoviFourcc
    <3>2. CASE i # Len(index) + 1
      <4>1. i \in 1..Len(index)
        BY <1>8, <3>2 DEF TypeOK
      <4>2. index'[i] = index[i]
        BY <1>6, <4>1 DEF TypeOK
      <4>3. starts'[i] = starts[i]
        BY <1>6, <4>1 DEF TypeOK, IndexAddressesFrames
      <4>4. QED
        BY <4>1, <4>2, <4>3 DEF IndexAddressesFrames
    <3>3. QED
      BY <3>1, <3>2
  <2>3. QED
    BY <2>1, <2>2 DEF IndexAddressesFrames
<1>11. EndWhereCounted'
  BY <1>2, <1>5, <1>6 DEF EndWhereCounted, TypeOK, HeaderSize, WriteFrame
<1>12. Progress'
  <2>1. phase = "recording" /\ patched = 0
    BY DEF WriteFrame, Progress
  <2>2. QED
    BY <1>6, <2>1 DEF Progress
<1>13. QED
  BY <1>7, <1>9, <1>10, <1>11, <1>12

\* A step that changes neither the frames nor the header fields keeps what is
\* said of them.
LEMMA FramesUnchanged ==
    ASSUME IInv, UNCHANGED <<frames, header>>
    PROVE  /\ NeverClamped' /\ IndexAddressesFrames'
           /\ \A f \in Fields : FieldValue(f)' = FieldValue(f)
  BY DEF IInv, frames, header, NeverClamped, IndexAddressesFrames, FieldValue, IndexSize, u32

\* The pad byte's failure: the header and the payload were gated by Fits.
LEMMA PadFailsIInv ==
    ASSUME IInv, NEW n \in Lengths, PadFails(n)
    PROVE  IInv'
<1> USE DEF IInv
<1>1. n \in Nat
  BY LengthsAssumption
<1>2. /\ ChunkSize(n) \in Nat /\ ChunkSize(n) >= 8 + n
      /\ IndexSize(count) \in Nat /\ IndexSize(count + 1) = IndexSize(count) + 16
  BY <1>1, ChunkSizeBounds, IndexSizeBounds DEF TypeOK, FrameHeaderSize
<1>3. 224 + movieBytes + ChunkSize(n) + IndexSize(count + 1) - 8 <= MaxField
  BY DEF PadFails, Fits, HeaderSize
<1>4. /\ movieBytes' = movieBytes + 8 + n /\ end' = end + 8 + n
      /\ phase' = "stopped" /\ cause' = "error"
      /\ UNCHANGED <<starts, count, index, idxAt, fields, patched>>
  BY DEF PadFails, Fail, header, FrameHeaderSize
<1>5. patched = 0
  BY DEF PadFails, Progress
<1>6. TypeOK'
  BY <1>1, <1>4 DEF TypeOK
<1>7. NeverClamped'
  <2>1. 224 + (movieBytes + 8 + n) + IndexSize(count) - 8 <= MaxField
    <3>1. movieBytes \in Nat /\ MaxField \in Nat
      BY MaxFieldAssumption DEF TypeOK
    <3>2. 224 + movieBytes + ChunkSize(n) + IndexSize(count) + 16 - 8 <= MaxField
      BY <1>2, <1>3, <3>1
    <3>3. QED
      BY <1>1, <1>2, <3>1, <3>2
  <2>2. movieBytes + 8 + n = movieBytes + (8 + n) /\ movieBytes' = movieBytes + 8 + n /\ count' = count
    BY <1>1, <1>4 DEF TypeOK
  <2>3. 224 + movieBytes' + IndexSize(count') - 8 <= MaxField
    BY <2>1, <2>2
  <2>4. QED
    BY <1>4, <2>3 DEF NeverClamped, HeaderSize
<1>8. IndexAddressesFrames'
  BY <1>4 DEF IndexAddressesFrames
<1>9. EndWhereCounted' /\ Progress'
  BY <1>4, <1>5 DEF EndWhereCounted, Progress
<1>10. QED
  BY <1>6, <1>7, <1>8, <1>9

\* Patching stores the value of the field whose turn it is.
LEMMA PatchFieldIInv ==
    ASSUME IInv, PatchField
    PROVE  IInv'
<1> USE DEF IInv
<1> DEFINE f == FieldAt(patched)
<1>1. f \in Fields /\ FieldValue(f) \in Nat
  BY FieldValueType DEF FieldAt, Fields
<1>2. /\ fields' = [fields EXCEPT ![f] = FieldValue(f)] /\ patched' = patched + 1
      /\ UNCHANGED <<phase, cause, end, starts, movieBytes, count, index, idxAt>>
      /\ phase = "patching" /\ patched \in 0..3
  BY DEF PatchField, frames, TypeOK
<1>3. TypeOK'
  BY <1>1, <1>2 DEF TypeOK
<1>4. NeverClamped' /\ IndexAddressesFrames' /\ EndWhereCounted'
  BY <1>2 DEF NeverClamped, IndexAddressesFrames, EndWhereCounted, IndexSize
<1>5. \A g \in Fields : FieldValue(g)' = FieldValue(g)
  BY <1>2 DEF FieldValue, IndexSize, u32
<1>6. Progress'
  <2>1. fields \in [Fields -> Nat] /\ fields' = [fields EXCEPT ![f] = FieldValue(f)]
    BY <1>2 DEF TypeOK
  <2>2. CASE patched = 0
    BY <1>2, <1>5, <2>1, <2>2 DEF Progress, FieldAt, Fields
  <2>3. CASE patched = 1
    BY <1>2, <1>5, <2>1, <2>3 DEF Progress, FieldAt, Fields
  <2>4. CASE patched = 2
    BY <1>2, <1>5, <2>1, <2>4 DEF Progress, FieldAt, Fields
  <2>5. CASE patched = 3
    BY <1>2, <1>5, <2>1, <2>5 DEF Progress, FieldAt, Fields
  <2>6. QED
    BY <1>2, <2>2, <2>3, <2>4, <2>5
<1>7. QED
  BY <1>3, <1>4, <1>6

\* Every operation of the writer keeps it.
LEMMA NextIInv == IInv /\ [Next]_vars => IInv'
<1> SUFFICES ASSUME IInv, [Next]_vars PROVE IInv'
  OBVIOUS
<1> USE DEF IInv
<1>1. ASSUME NEW n \in Lengths, WriteFrame(n) PROVE IInv'
  BY <1>1, WriteFrameIInv
<1>2. ASSUME NEW n \in Lengths, PadFails(n) PROVE IInv'
  BY <1>2, PadFailsIInv
<1>3. CASE PatchField
  BY <1>3, PatchFieldIInv
<1>4. ASSUME UNCHANGED <<frames, header>>, TypeOK', EndWhereCounted',
             phase' = "recording" => cause' = "none",
             phase' = "closed" /\ cause' # "error" => patched = 4,
             phase' \in {"recording", "stopped"} => patched = 0
      PROVE  IInv'
  <2>1. /\ NeverClamped' /\ IndexAddressesFrames'
        /\ \A f \in Fields : FieldValue(f)' = FieldValue(f)
    BY <1>4, FramesUnchanged
  <2>2. fields' = fields /\ patched' = patched
    BY <1>4 DEF header
  <2>3. Progress'
    BY <1>4, <2>1, <2>2 DEF Progress, Fields
  <2>4. QED
    BY <1>4, <2>1, <2>3
<1>5. ASSUME NEW n \in Lengths, ReachLimit(n) PROVE IInv'
  <2>1. TypeOK' /\ EndWhereCounted'
    BY <1>5 DEF ReachLimit, TypeOK, EndWhereCounted, Progress, frames, header, IndexSize
  <2>2. QED
    BY <1>4, <1>5, <2>1 DEF ReachLimit, Progress, frames, header
<1>6. ASSUME NEW n \in Lengths, PayloadFails(n) PROVE IInv'
  <2>1. n \in Nat
    BY LengthsAssumption
  <2>2. PICK part \in 0..(FrameHeaderSize + n - 1) : end' = end + part
    BY <1>6 DEF PayloadFails
  <2>3. TypeOK' /\ EndWhereCounted'
    BY <1>6, <2>1, <2>2 DEF PayloadFails, Fail, TypeOK, EndWhereCounted, frames, header, FrameHeaderSize
  <2>4. QED
    BY <1>4, <1>6, <2>3 DEF PayloadFails, Fail, Progress, frames, header
<1>7. CASE Stop
  <2>1. TypeOK' /\ EndWhereCounted'
    BY <1>7 DEF Stop, TypeOK, EndWhereCounted, frames, header, IndexSize
  <2>2. QED
    BY <1>4, <1>7, <2>1 DEF Stop, Progress, frames, header
<1>8. CASE WriteIndex
  <2>1. Len(index) \in Nat /\ IndexSize(Len(index)) \in Nat
    BY IndexSizeBounds DEF TypeOK
  <2>2. TypeOK' /\ EndWhereCounted'
    BY <1>8, <2>1 DEF WriteIndex, TypeOK, EndWhereCounted, frames, header, IndexSize
  <2>3. QED
    BY <1>4, <1>8, <2>2 DEF WriteIndex, Progress, frames, header
<1>9. CASE IndexFails
  <2>1. IndexSize(Len(index)) \in Nat
    BY IndexSizeBounds DEF TypeOK
  <2>2. PICK part \in 0..(IndexSize(Len(index)) - 1) : end' = end + part
    BY <1>9 DEF IndexFails
  <2>3. TypeOK' /\ EndWhereCounted'
    BY <1>9, <2>1, <2>2 DEF IndexFails, TypeOK, EndWhereCounted, frames, header
  <2>4. QED
    BY <1>4, <1>9, <2>3 DEF IndexFails, Progress, frames, header
<1>10. CASE PatchFails
  <2>1. TypeOK' /\ EndWhereCounted'
    BY <1>10 DEF PatchFails, TypeOK, EndWhereCounted, frames, header
  <2>2. QED
    BY <1>4, <1>10, <2>1 DEF PatchFails, Progress, frames, header
<1>11. CASE Closed
  <2>1. TypeOK' /\ EndWhereCounted'
    BY <1>11 DEF Closed, TypeOK, EndWhereCounted, frames, header, IndexSize
  <2>2. QED
    BY <1>4, <1>11, <2>1 DEF Closed, Progress, frames, header
<1>12. CASE UNCHANGED vars
  <2>1. TypeOK' /\ EndWhereCounted'
    BY <1>12 DEF vars, TypeOK, EndWhereCounted, frames, header, IndexSize
  <2>2. QED
    BY <1>4, <1>12, <2>1 DEF vars, Progress, frames, header
<1>13. QED
  BY <1>1, <1>2, <1>3, <1>5, <1>6, <1>7, <1>8, <1>9, <1>10, <1>11, <1>12
  DEF Next, Write, Close, Done

\* IInv holds in every reachable state.
THEOREM Invariance == Spec => []IInv
  BY InitIInv, NextIInv, PTL DEF Spec

----------------------------------------------------------------------------
\* The variables keep their types.
THEOREM TypeCorrect == Spec => []TypeOK
<1>1. IInv => TypeOK
  BY DEF IInv
<1>2. QED
  BY <1>1, Invariance, PTL

\* No size or offset of the recording is ever clamped, whatever the limit of the
\* format and whatever frames are written.
THEOREM ClampNeverEngages == Spec => []NeverClamped
<1>1. IInv => NeverClamped
  BY DEF IInv
<1>2. QED
  BY <1>1, Invariance, PTL

\* Every index entry addresses the start of its own frame.
THEOREM IndexIsExact == Spec => []IndexAddressesFrames
<1>1. IInv => IndexAddressesFrames
  BY DEF IInv
<1>2. QED
  BY <1>1, Invariance, PTL

\* A recording closed without a failed write is a whole AVI file, also when it
\* stopped at the size limit.
THEOREM FinalizedFileIsWhole == Spec => []FinalizedIsWhole
<1>1. IInv => FinalizedIsWhole
  <2> SUFFICES ASSUME IInv, phase = "closed", cause # "error"
               PROVE  /\ fields.riff = end - 8
                      /\ MoviFourcc + fields.movi = idxAt
                      /\ fields.frames = Len(index) /\ fields.length = Len(index)
    BY DEF FinalizedIsWhole
  <2> USE DEF IInv
  <2>1. patched = 4
    BY DEF Progress
  <2>2. /\ fields.riff = u32(HeaderSize + movieBytes + IndexSize(Len(index)) - 8)
        /\ fields.movi = u32(4 + movieBytes)
        /\ fields.frames = u32(count) /\ fields.length = u32(count)
    BY <2>1 DEF Progress, FieldValue
  <2>3. /\ idxAt = HeaderSize + movieBytes
        /\ end = idxAt + IndexSize(Len(index))
    BY DEF EndWhereCounted
  <2>4. /\ count = Len(index) /\ IndexSize(count) \in Nat /\ count <= IndexSize(count)
        /\ IndexSize(count) >= 8
        /\ HeaderSize + movieBytes + IndexSize(count) - 8 <= MaxField
    BY IndexSizeBounds DEF NeverClamped, TypeOK, IndexSize, IndexHeaderSize, IndexEntrySize
  <2>5. /\ HeaderSize + movieBytes + IndexSize(Len(index)) - 8 \in Nat
        /\ 4 + movieBytes \in Nat /\ 4 + movieBytes <= MaxField
        /\ count \in Nat /\ count <= MaxField
    BY <2>4, MaxFieldAssumption DEF TypeOK, HeaderSize
  <2>6. /\ fields.riff = HeaderSize + movieBytes + IndexSize(Len(index)) - 8
        /\ fields.movi = 4 + movieBytes
        /\ fields.frames = count /\ fields.length = count
    BY <2>2, <2>4, <2>5, NotClamped
  <2>7. QED
    BY <2>3, <2>4, <2>6 DEF TypeOK, HeaderSize, MoviFourcc
<1>2. QED
  BY <1>1, Invariance, PTL
=============================================================================
