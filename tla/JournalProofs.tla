--------------------------- MODULE JournalProofs ---------------------------
(***************************************************************************)
(* Proofs about the session journal, for any number of writers, events and *)
(* recoveries.  The properties of Journal are not inductive: they need to  *)
(* know what holds between the checks of an append and its write, and what *)
(* a writer's loaded view still says about the file.                       *)
(***************************************************************************)
EXTENDS Journal, SequenceTheorems, TLAPS

\* The exclusive lock is held exactly by the writer in the middle of an append.
LockDiscipline ==
    \A w \in Writers : pc[w] \in {"appending", "syncing"} <=> lock = w

\* A loaded view describes a frame that is still in the file.
ViewCurrent ==
    \A w \in Writers :
        /\ view[w].seq \in 0..Len(file)
        /\ view[w].seq = 0 => view[w].head = NoEvent
        /\ view[w].seq > 0 => /\ file[view[w].seq] # Garbage
                              /\ file[view[w].seq].id = view[w].head

\* What the checks of append established still holds when the frame is written.
ChecksStillHold ==
    \A w \in Writers : pc[w] = "appending" =>
        /\ \A i \in 1..Len(file) : file[i] # Garbage
        /\ view[w].seq = Len(file)
        /\ req[w].id \in EventIds
        /\ \A i \in 1..Len(file) : file[i].id # req[w].id

\* The frame that waits to be synchronised is the last one.
FrameWritten ==
    \A w \in Writers : pc[w] = "syncing" =>
        /\ Len(file) > 0
        /\ file[Len(file)] # Garbage
        /\ req[w].id \in EventIds
        /\ file[Len(file)].id = req[w].id

\* An acknowledged frame is on the medium.
AcksSynced ==
    \A a \in acked :
        /\ a.seq \in 1..synced
        /\ file[a.seq] # Garbage
        /\ file[a.seq].id = a.id

IInv ==
    /\ TypeOK
    /\ LockDiscipline
    /\ ViewCurrent
    /\ ChecksStillHold
    /\ FrameWritten
    /\ AcksSynced
    /\ ChainIntact
    /\ NoLostUpdate

-----------------------------------------------------------------------------
\* A checksum chain grows by one link per frame.
LEMMA ChecksumRecordType ==
    ASSUME NEW seq \in Nat, NEW id \in EventIds, NEW prev \in Checksums
    PROVE  ChecksumRecord(seq, id, prev) \in Checksums
BY DEF Checksums, ChecksumRecord

\* The fields of a stored frame.
LEMMA FrameFields ==
    ASSUME TypeOK, NEW i \in 1..Len(file), file[i] # Garbage
    PROVE  /\ file[i] \in Frames
           /\ file[i].seq \in Nat
           /\ file[i].id \in EventIds
           /\ file[i].sum \in Checksums
           /\ file[i].basis \in EventIds \cup {NoEvent}
<1>1. file[i] \in Frames \cup {Garbage}
  BY ElementOfSeq DEF TypeOK
<1>2. file[i] \in Frames
  BY <1>1
<1> QED
  BY <1>2 DEF Frames

\* scan_reader accepts a file only when every line is a frame.
LEMMA ScannedFrames ==
    ASSUME ScanReader(file, torn)
    PROVE  /\ ~torn
           /\ \A i \in 1..Len(file) : file[i] # Garbage
BY DEF ScanReader, ValidPrefix, ValidateStoredFrame

\* The empty journal satisfies the inductive invariant.
LEMMA InitIInv == Init => IInv
<1> SUFFICES ASSUME Init PROVE IInv
  OBVIOUS
<1> USE JournalAssumption DEF Init
<1>1. TypeOK
  <2>1. file \in Seq(Frames \cup {Garbage}) /\ Len(file) = 0
    BY EmptySeq
  <2>2. view \in [Writers -> Views] /\ req \in [Writers -> Requests]
    BY DEF NoView, NoRequest, Views, Requests, AllDurabilities
  <2>3. synced \in 0..Len(file)
    BY <2>1
  <2>4. acked \subseteq Acks /\ quarantined \subseteq Labels
    OBVIOUS
  <2> QED
    BY <2>1, <2>2, <2>3, <2>4 DEF TypeOK
<1>2. LockDiscipline /\ ViewCurrent /\ ChecksStillHold /\ FrameWritten /\ AcksSynced
  BY DEF LockDiscipline, ViewCurrent, ChecksStillHold, FrameWritten, AcksSynced, NoView
<1>3. ChainIntact /\ NoLostUpdate
  BY DEF ChainIntact, NoLostUpdate
<1> QED
  BY <1>1, <1>2, <1>3 DEF IInv

\* Steps that leave the lines alone keep everything that is only about lines.
LEMMA LinesUnchanged ==
    ASSUME ChainIntact, NoLostUpdate, file' = file
    PROVE  ChainIntact' /\ NoLostUpdate'
BY DEF ChainIntact, NoLostUpdate

\* load_session takes a view of the head it has just verified.
LEMMA LoadSessionIInv ==
    ASSUME IInv, NEW w \in Writers, LoadSession(w)
    PROVE  IInv'
<1> USE JournalAssumption DEF IInv, LoadSession
<1>1. /\ file[Len(file)] # Garbage
      /\ HeadId(file) = file[Len(file)].id
      /\ file[Len(file)].id \in EventIds
      /\ Len(file) \in 1..Len(file)
  <2>1. Len(file) \in 1..Len(file)
    BY DEF TypeOK
  <2> QED
    BY <2>1, ScannedFrames, FrameFields DEF HeadId
<1>2. TypeOK'
  BY <1>1 DEF TypeOK, Views
<1>3. LockDiscipline' /\ ChecksStillHold' /\ FrameWritten' /\ AcksSynced'
  BY DEF TypeOK, LockDiscipline, ChecksStillHold, FrameWritten, AcksSynced
<1>4. ViewCurrent'
  BY <1>1 DEF TypeOK, ViewCurrent, Views
<1> QED
  BY <1>2, <1>3, <1>4, LinesUnchanged

\* The creator of a session has seen nothing.
LEMMA StartSessionIInv ==
    ASSUME IInv, NEW w \in Writers, StartSession(w)
    PROVE  IInv'
<1> USE DEF IInv, StartSession
<1>1. TypeOK'
  BY DEF TypeOK
<1>2. LockDiscipline' /\ ChecksStillHold' /\ FrameWritten' /\ AcksSynced' /\ ViewCurrent'
  BY DEF TypeOK, LockDiscipline, ChecksStillHold, FrameWritten, AcksSynced, ViewCurrent
<1> QED
  BY <1>1, <1>2, LinesUnchanged

\* The checks of append establish ChecksStillHold under the lock.
LEMMA BeginAppendIInv ==
    ASSUME IInv, NEW w \in Writers, NEW id \in EventIds, NEW compare \in BOOLEAN,
           NEW durability \in Durabilities, BeginAppend(w, id, compare, durability)
    PROVE  IInv'
<1> USE JournalAssumption DEF IInv, BeginAppend
<1>1. TypeOK'
  BY DEF TypeOK, Requests
<1>2. LockDiscipline' /\ FrameWritten' /\ AcksSynced' /\ ViewCurrent'
  BY DEF TypeOK, LockDiscipline, FrameWritten, AcksSynced, ViewCurrent
<1>3. ChecksStillHold'
  <2>1. /\ \A i \in 1..Len(file) : file[i] # Garbage /\ file[i].id # id
        /\ view[w].seq = Len(file)
    BY ScannedFrames DEF AppendAllowed, StoredIds, TypeOK, Views
  <2> QED
    BY <2>1 DEF TypeOK, LockDiscipline, ChecksStillHold
<1> QED
  BY <1>1, <1>2, <1>3, LinesUnchanged

\* A use case that ends gives its view up and releases the lock if it had it.
LEMMA ForgetIInv ==
    ASSUME IInv, NEW w \in Writers, Forget(w),
           lock' = IF lock = w THEN NoWriter ELSE lock,
           torn' \in BOOLEAN, UNCHANGED <<file, synced, acked, quarantined>>
    PROVE  IInv'
<1> USE JournalAssumption DEF IInv, Forget
<1>1. TypeOK'
  BY DEF TypeOK, NoView, NoRequest, Views, Requests, AllDurabilities
<1>2. LockDiscipline' /\ ChecksStillHold' /\ FrameWritten' /\ AcksSynced'
  BY DEF TypeOK, LockDiscipline, ChecksStillHold, FrameWritten, AcksSynced
<1>3. ViewCurrent'
  BY DEF TypeOK, ViewCurrent, NoView
<1> QED
  BY <1>1, <1>2, <1>3, LinesUnchanged

\* A synchronised frame is acknowledged at its own position.
LEMMA FinishAppendIInv ==
    ASSUME IInv, NEW w \in Writers, FinishAppend(w)
    PROVE  IInv'
<1> USE JournalAssumption DEF IInv, FinishAppend
<1>1. /\ Len(file) \in 1..Len(file)
      /\ file[Len(file)] # Garbage
      /\ file[Len(file)].id = req[w].id
      /\ req[w].id \in EventIds
  BY DEF FrameWritten, TypeOK
<1>2. synced' \in synced..Len(file)
  BY DEF SyncedLength, TypeOK
<1>3. acked' \in SUBSET Acks
  BY <1>1 DEF TypeOK, Acks
<1>4. TypeOK'
  BY <1>1, <1>2, <1>3 DEF TypeOK, Views, NoRequest, Requests, AllDurabilities
<1>5. LockDiscipline' /\ ChecksStillHold' /\ FrameWritten'
  BY DEF TypeOK, LockDiscipline, ChecksStillHold, FrameWritten
<1>6. ViewCurrent'
  BY <1>1 DEF TypeOK, ViewCurrent, Views
<1>7. AcksSynced'
  <2> SUFFICES ASSUME NEW a \in acked'
               PROVE  /\ a.seq \in 1..synced'
                      /\ file[a.seq] # Garbage
                      /\ file[a.seq].id = a.id
    BY DEF AcksSynced
  <2>1. CASE a \in acked
    BY <2>1, <1>2 DEF AcksSynced, TypeOK
  <2>2. CASE a \notin acked
    <3>1. a = [seq |-> Len(file), id |-> req[w].id] /\ req[w].durability # "buffered"
      BY <2>2
    <3>2. synced' = Len(file)
      BY <3>1 DEF SyncedLength, TypeOK, Requests, AllDurabilities
    <3> QED
      BY <3>1, <3>2, <1>1
  <2> QED
    BY <2>1, <2>2
<1> QED
  BY <1>4, <1>5, <1>6, <1>7, LinesUnchanged

\* The frame that append writes extends the chain by exactly one link.
LEMMA WriteFrameIInv ==
    ASSUME IInv, NEW w \in Writers, WriteFrame(w)
    PROVE  IInv' /\ FramesKept
<1> USE JournalAssumption DEF IInv, WriteFrame
<1> DEFINE n == Len(file)
           f == NewFrame(w)
<1>1. /\ n \in Nat
      /\ view[w].seq = n
      /\ req[w].id \in EventIds
      /\ \A i \in 1..n : file[i] # Garbage /\ file[i].id # req[w].id
  BY DEF ChecksStillHold, TypeOK
<1>2. HeadSum(file) \in Checksums
  <2>1. CASE n = 0
    BY <2>1, EmptySeq DEF HeadSum, Checksums
  <2>2. CASE n > 0
    <3>1. n \in 1..n
      BY <2>2, <1>1
    <3> QED
      BY <3>1, <1>1, FrameFields DEF HeadSum
  <2> QED
    BY <1>1, <2>1, <2>2
<1>3. f = [seq |-> n + 1, id |-> req[w].id, prev |-> HeadSum(file),
           sum |-> ChecksumRecord(n + 1, req[w].id, HeadSum(file)),
           basis |-> view[w].head]
  BY <1>1 DEF NewFrame
<1>4. f \in Frames
  <2>1. ChecksumRecord(n + 1, req[w].id, HeadSum(file)) \in Checksums
    <3>1. n + 1 \in Nat
      BY <1>1
    <3> HIDE DEF n
    <3> QED
      BY <3>1, <1>1, <1>2, ChecksumRecordType, Zenon
  <2>2. view[w].head \in EventIds \cup {NoEvent}
    BY DEF TypeOK, Views
  <2> QED
    BY <1>1, <1>2, <1>3, <2>1, <2>2 DEF Frames
<1>5. f # Garbage
  BY <1>4, GarbageAssumption
<1>6. /\ file' \in Seq(Frames \cup {Garbage})
      /\ Len(file') = n + 1
      /\ \A i \in 1..n : file'[i] = file[i]
      /\ file'[n + 1] = f
  BY <1>4 DEF TypeOK
<1> HIDE DEF f
<1>7. TypeOK'
  BY <1>1, <1>6 DEF TypeOK
<1>8. LockDiscipline' /\ ChecksStillHold'
  BY DEF TypeOK, LockDiscipline, ChecksStillHold
<1>9. FrameWritten'
  BY <1>1, <1>3, <1>5, <1>6 DEF TypeOK, LockDiscipline, FrameWritten
<1>10. AcksSynced'
  BY <1>1, <1>6 DEF TypeOK, AcksSynced
<1>11. ViewCurrent'
  BY <1>1, <1>6 DEF TypeOK, ViewCurrent, Views
<1>12. n > 0 => /\ f.prev = file[n].sum
                /\ f.basis = file[n].id
  BY <1>1, <1>3 DEF HeadSum, ViewCurrent
<1>13. n = 0 => f.prev = << >> /\ f.basis = NoEvent
  BY <1>1, <1>3 DEF HeadSum, ViewCurrent
<1>14. ChainIntact'
  <2> SUFFICES ASSUME NEW i \in 1..(n+1)
               PROVE  /\ file'[i].seq = i
                      /\ file'[i].sum = ChecksumRecord(i, file'[i].id, file'[i].prev)
                      /\ i = 1 => file'[i].prev = << >>
                      /\ i > 1 => file'[i].prev = file'[i-1].sum
                      /\ \A j \in 1..(i-1) : file'[j].id # file'[i].id
    BY <1>6 DEF ChainIntact
  <2>1. CASE i \in 1..n
    BY <2>1, <1>1, <1>6 DEF ChainIntact
  <2>2. CASE i = n + 1
    BY <2>2, <1>1, <1>3, <1>6, <1>12, <1>13
  <2> QED
    BY <2>1, <2>2, <1>1
<1>15. NoLostUpdate'
  BY <1>1, <1>6, <1>12, <1>13 DEF NoLostUpdate
<1>16. FramesKept
  BY <1>1, <1>6 DEF FramesKept
<1> QED
  BY <1>7, <1>8, <1>9, <1>10, <1>11, <1>14, <1>15, <1>16

\* recover_tail cuts torn bytes, or a last line that is garbage: with the chain
\* intact, a frame at the end can only fail validation by not being one.
LEMMA TailCutIsGarbage ==
    ASSUME IInv, NEW n \in LocateInvalidTail(file, torn)
    PROVE  /\ n \in 0..Len(file)
           /\ \A i \in (n+1)..Len(file) : file[i] = Garbage
<1> USE DEF IInv
<1>0. Len(file) \in Nat
  BY DEF TypeOK
<1>1. CASE torn
  BY <1>0, <1>1 DEF LocateInvalidTail
<1>2. CASE ~torn
  <2>1. /\ n = Len(file) - 1
        /\ Len(file) > 0
        /\ ValidPrefix(file, n)
        /\ ~ValidPrefix(file, Len(file))
    BY <1>0, <1>2 DEF LocateInvalidTail
  <2>2. ~ValidateStoredFrame(file, Len(file))
    BY <1>0, <2>1 DEF ValidPrefix
  <2>3. \A i \in 1..n : file[i] # Garbage
    BY <2>1 DEF ValidPrefix, ValidateStoredFrame
  <2>4. file[Len(file)] = Garbage
    BY <1>0, <2>1, <2>2, <2>3 DEF ChainIntact, ValidateStoredFrame
  <2> QED
    BY <1>0, <2>1, <2>4
<1> QED
  BY <1>1, <1>2

\* Cutting garbage loses no frame, no view and no acknowledgement.
LEMMA RecoverTailIInv ==
    ASSUME IInv, NEW label \in Labels, RecoverTail(label)
    PROVE  IInv' /\ FramesKept
<1> USE JournalAssumption DEF IInv, RecoverTail
<1> PICK n \in LocateInvalidTail(file, torn) : file' = SubSeq(file, 1, n) /\ synced' = n
  OBVIOUS
<1>1. /\ Len(file) \in Nat
      /\ n \in 0..Len(file)
      /\ \A i \in 1..Len(file) : file[i] # Garbage => i \in 1..n
  BY TailCutIsGarbage DEF TypeOK
<1>2. /\ file' \in Seq(Frames \cup {Garbage})
      /\ Len(file') = n
      /\ \A i \in 1..n : file'[i] = file[i]
  <2>1. \A i \in 1..n : file[i] \in Frames \cup {Garbage}
    BY <1>1, ElementOfSeq DEF TypeOK
  <2> QED
    BY <1>1, <2>1, SubSeqProperties
<1>3. TypeOK'
  <2>1. synced' \in 0..Len(file')
    BY <1>1, <1>2
  <2>2. quarantined' \subseteq Labels
    BY DEF TypeOK
  <2> QED
    BY <1>2, <2>1, <2>2, Zenon DEF TypeOK
<1>4. LockDiscipline' /\ ChecksStillHold' /\ FrameWritten'
  BY DEF TypeOK, LockDiscipline, ChecksStillHold, FrameWritten
<1>5. AcksSynced'
  BY <1>1, <1>2 DEF TypeOK, AcksSynced
<1>6. ViewCurrent'
  BY <1>1, <1>2 DEF TypeOK, ViewCurrent, Views
<1>7. ChainIntact' /\ NoLostUpdate'
  BY <1>1, <1>2 DEF ChainIntact, NoLostUpdate
<1>8. FramesKept
  BY <1>1, <1>2 DEF FramesKept
<1> QED
  BY <1>3, <1>4, <1>5, <1>6, <1>7, <1>8

\* A power loss takes or garbles only lines that are not on the medium.
LEMMA PowerLossIInv ==
    ASSUME IInv, PowerLoss
    PROVE  IInv'
<1> USE JournalAssumption DEF IInv
<1> PICK n \in synced..Len(file) :
           /\ \E garbled \in SUBSET ((synced+1)..n) : file' = SurvivesPowerLoss(file, n, garbled)
           /\ synced' = n
           /\ torn' \in BOOLEAN
  BY DEF PowerLoss
<1> PICK garbled \in SUBSET ((synced+1)..n) : file' = SurvivesPowerLoss(file, n, garbled)
  OBVIOUS
<1>1. /\ Len(file) \in Nat
      /\ synced \in 0..Len(file)
      /\ n \in Nat
      /\ \A i \in garbled : i > synced
  BY DEF TypeOK
<1>2. /\ file' \in Seq(Frames \cup {Garbage})
      /\ Len(file') = n
      /\ \A i \in 1..n : file'[i] # Garbage => file'[i] = file[i]
      /\ \A i \in 1..synced : file'[i] = file[i]
      /\ \A i \in 1..n : file[i] = Garbage => file'[i] = Garbage
  <2>1. \A i \in 1..n : file[i] \in Frames \cup {Garbage}
    BY <1>1, ElementOfSeq DEF TypeOK
  <2>2. file' \in [1..n -> Frames \cup {Garbage}]
    BY <2>1 DEF SurvivesPowerLoss
  <2>3. file' \in Seq(Frames \cup {Garbage}) /\ Len(file') = n
    BY <1>1, <2>2
  <2> QED
    BY <1>1, <2>3 DEF SurvivesPowerLoss
<1>3. /\ lock' = NoWriter
      /\ pc' = [w \in Writers |-> "idle"]
      /\ view' = [w \in Writers |-> NoView]
      /\ req' = [w \in Writers |-> NoRequest]
      /\ UNCHANGED <<acked, quarantined>>
  BY DEF PowerLoss
<1>4. TypeOK'
  <2>1. view' \in [Writers -> Views] /\ req' \in [Writers -> Requests]
    BY <1>3 DEF NoView, NoRequest, Views, Requests, AllDurabilities
  <2>2. synced' \in 0..Len(file')
    BY <1>1, <1>2
  <2> QED
    BY <1>2, <1>3, <2>1, <2>2 DEF TypeOK
<1>5. LockDiscipline' /\ ChecksStillHold' /\ FrameWritten'
  BY <1>3 DEF LockDiscipline, ChecksStillHold, FrameWritten
<1>6. ViewCurrent'
  BY <1>1, <1>2, <1>3 DEF ViewCurrent, NoView
<1>7. AcksSynced'
  BY <1>1, <1>2, <1>3 DEF TypeOK, AcksSynced
<1>8. ChainIntact'
  <2> SUFFICES ASSUME NEW i \in 1..n, file'[i] # Garbage
               PROVE  /\ file'[i].seq = i
                      /\ file'[i].sum = ChecksumRecord(i, file'[i].id, file'[i].prev)
                      /\ i = 1 => file'[i].prev = << >>
                      /\ i > 1 /\ file'[i-1] # Garbage => file'[i].prev = file'[i-1].sum
                      /\ \A j \in 1..(i-1) : file'[j] # Garbage => file'[j].id # file'[i].id
    BY <1>2 DEF ChainIntact
  <2>1. i \in 1..Len(file) /\ file'[i] = file[i] /\ file[i] # Garbage
    BY <1>1, <1>2
  <2>2. \A j \in 1..(i-1) : j \in 1..n /\ (file'[j] # Garbage => file'[j] = file[j])
    BY <1>1, <1>2
  <2>3. i > 1 => i - 1 \in 1..(i-1)
    BY <1>1
  <2> HIDE DEF IInv
  <2> QED
    BY <2>1, <2>2, <2>3 DEF IInv, ChainIntact
<1>9. NoLostUpdate'
  BY <1>1, <1>2 DEF NoLostUpdate
<1> QED
  BY <1>4, <1>5, <1>6, <1>7, <1>8, <1>9

-----------------------------------------------------------------------------
\* Every step keeps the inductive invariant, and every step but a power loss
\* keeps the frames.
LEMMA NextIInv ==
    ASSUME IInv, [Next]_vars
    PROVE  IInv' /\ (FramesKept \/ PowerLoss \/ UNCHANGED vars)
<1>1. CASE UNCHANGED vars
  <2> USE <1>1 DEF vars, IInv
  <2>1. TypeOK' /\ LockDiscipline' /\ ViewCurrent' /\ ChecksStillHold'
    BY DEF TypeOK, LockDiscipline, ViewCurrent, ChecksStillHold
  <2>2. FrameWritten' /\ AcksSynced'
    BY DEF FrameWritten, AcksSynced
  <2> QED
    BY <2>1, <2>2, LinesUnchanged
<1>2. ASSUME file' = file PROVE FramesKept
  BY <1>2 DEF FramesKept, IInv, TypeOK
<1>3. ASSUME NEW w \in Writers, WriterStep(w)
      PROVE  IInv' /\ FramesKept
  <2> USE <1>3
  <2>1. CASE LoadSession(w)
    BY <2>1, <1>2, LoadSessionIInv DEF LoadSession
  <2>2. CASE StartSession(w)
    BY <2>2, <1>2, StartSessionIInv DEF StartSession
  <2>3. ASSUME NEW id \in EventIds, NEW compare \in BOOLEAN,
               \/ \E durability \in Durabilities : BeginAppend(w, id, compare, durability)
               \/ RejectAppend(w, id, compare)
        PROVE  IInv' /\ FramesKept
    <3>1. ASSUME NEW durability \in Durabilities, BeginAppend(w, id, compare, durability)
          PROVE  IInv' /\ FramesKept
      <4>1. file' = file
        BY <3>1 DEF BeginAppend
      <4> QED
        BY <3>1, <4>1, <1>2, BeginAppendIInv
    <3>2. CASE RejectAppend(w, id, compare)
      <4>1. lock' = IF lock = w THEN NoWriter ELSE lock
        BY <3>2, JournalAssumption DEF RejectAppend
      <4> QED
        BY <3>2, <4>1, <1>2, ForgetIInv DEF RejectAppend, IInv, TypeOK
    <3> QED
      BY <2>3, <3>1, <3>2
  <2>4. CASE WriteFrame(w)
    BY <2>4, WriteFrameIInv
  <2>5. CASE FailWrite(w)
    <3>1. lock = w
      BY <2>5 DEF FailWrite, IInv, LockDiscipline
    <3> QED
      BY <2>5, <3>1, <1>2, ForgetIInv DEF FailWrite
  <2>6. CASE FinishAppend(w)
    BY <2>6, <1>2, FinishAppendIInv DEF FinishAppend
  <2>7. CASE FailSync(w)
    <3>1. lock = w
      BY <2>7 DEF FailSync, IInv, LockDiscipline
    <3> QED
      BY <2>7, <3>1, <1>2, ForgetIInv DEF FailSync, IInv, TypeOK
  <2>8. CASE CrashWriter(w)
    <3>1. torn' \in BOOLEAN
      BY <2>8 DEF CrashWriter, IInv, TypeOK
    <3> QED
      BY <2>8, <3>1, <1>2, ForgetIInv DEF CrashWriter
  <2> QED
    BY <2>1, <2>2, <2>3, <2>4, <2>5, <2>6, <2>7, <2>8 DEF WriterStep
<1>4. ASSUME NEW label \in Labels, CrashInRecovery(label)
      PROVE  IInv' /\ FramesKept
  <2>1. IInv'
    BY <1>4 DEF CrashInRecovery, IInv, TypeOK, LockDiscipline, ViewCurrent,
                ChecksStillHold, FrameWritten, AcksSynced, ChainIntact, NoLostUpdate
  <2> QED
    BY <1>4, <1>2, <2>1 DEF CrashInRecovery
<1> QED
  BY <1>1, <1>3, <1>4, RecoverTailIInv, PowerLossIInv DEF Next

\* Spec => []IInv: the writers' lock discipline, their views and the chain.
THEOREM InductiveInvariant == Spec => []IInv
<1>1. IInv /\ [Next]_vars => IInv'
  BY NextIInv
<1> QED
  BY InitIInv, <1>1, PTL DEF Spec

\* Every variable of the journal keeps its type.
THEOREM TypeCorrectness == Spec => []TypeOK
<1>1. IInv => TypeOK
  BY DEF IInv
<1> QED
  BY InductiveInvariant, <1>1, PTL

\* Whatever any number of writers, crashes, power losses and recoveries did, the
\* frames in the file are chained: append extends what scan_reader verifies.
THEOREM JournalChain == Spec => []ChainIntact
<1>1. IInv => ChainIntact
  BY DEF IInv
<1> QED
  BY InductiveInvariant, <1>1, PTL

\* An append acknowledged at data or full durability is never lost: not by a
\* power loss, and not by recover_tail.
THEOREM JournalDurability == Spec => []DurableAcksSurvive
<1>1. IInv => DurableAcksSurvive
  BY DEF IInv, TypeOK, AcksSynced, DurableAcksSurvive
<1> QED
  BY InductiveInvariant, <1>1, PTL

\* Although commit_event compares only sequence numbers, an event always
\* follows the very event its writer had seen.
THEOREM JournalOptimisticConcurrency == Spec => []NoLostUpdate
<1>1. IInv => NoLostUpdate
  BY DEF IInv
<1> QED
  BY InductiveInvariant, <1>1, PTL

\* No step of append, of recover_tail or of a crash removes or changes a frame.
THEOREM JournalAppendOnly == Spec => OnlyPowerLossRemovesFrames
<1>1. IInv /\ [Next]_vars => [FramesKept \/ PowerLoss]_vars
  BY NextIInv
<1> QED
  BY InductiveInvariant, <1>1, PTL DEF Spec, OnlyPowerLossRemovesFrames
=============================================================================
