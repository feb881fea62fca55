------------------------------ MODULE Journal ------------------------------
(***************************************************************************)
(* The canonical session journal of the AgentMod runtime: one append-only  *)
(* JSONL file per session, `events.jsonl', whose frames are chained by     *)
(* checksums.  Any number of runtime tasks and processes append to it.     *)
(*                                                                         *)
(*   apps/runtime/dependency/src/journal.rs   append, scan, recover_tail   *)
(*   apps/runtime/data/src/journal.rs         append_event, scan_events    *)
(*   apps/runtime/logic/src/persistence.rs    commit_event,                *)
(*                                            compare_append_event,        *)
(*                                            load_session,                *)
(*                                            recover_session_journal      *)
(*                                                                         *)
(* A writer loads the session (a verified scan), prepares the event that   *)
(* follows the head it saw, and appends it under the exclusive file lock.  *)
(* Between the two the file is unlocked.  An append is three steps: the    *)
(* locked scan with its checks, the write, and the synchronisation that    *)
(* precedes the answer.  A writer may crash between any two of them, the   *)
(* write or the sync may fail, and the machine may lose power.             *)
(***************************************************************************)
EXTENDS Naturals, Sequences, FiniteSets

CONSTANTS
    Writers,      \* tasks or processes that hold the session open
    EventIds,     \* identities of the events they append
    Labels,       \* quarantine labels handed out by the ID dependency
    Durabilities, \* the durability levels requested: subset of AllDurabilities
    MaxFrames,    \* bound: number of frames in the journal
    NoEvent,      \* the head of an empty journal
    NoWriter,     \* the file lock is free
    Garbage       \* a line that does not decode to a frame

AllDurabilities == {"buffered", "data", "full"}

ASSUME JournalAssumption ==
    /\ Durabilities \subseteq AllDurabilities
    /\ MaxFrames \in Nat
    /\ NoEvent \notin EventIds
    /\ NoWriter \notin Writers

(***************************************************************************)
(* Data.  A checksum is the chain of everything it was computed over, so   *)
(* that two checksums agree exactly when the hashed histories agree.  The  *)
(* absent previous checksum of the first frame is the empty chain.         *)
(*                                                                         *)
(* `basis' is not stored: it is the head the writer believed in when it    *)
(* prepared the event, kept in the frame to state NoLostUpdate.            *)
(***************************************************************************)
Checksums == Seq(Nat \X EventIds)
Frames == [seq : Nat, id : EventIds, prev : Checksums, sum : Checksums,
           basis : EventIds \cup {NoEvent}]

ASSUME GarbageAssumption == Garbage \notin Frames

ChecksumRecord(seq, id, prev) == Append(prev, <<seq, id>>)

Views == [seq : Nat, head : EventIds \cup {NoEvent}]
Requests == [id : EventIds \cup {NoEvent}, durability : AllDurabilities]
Acks == [seq : Nat, id : EventIds]

VARIABLES
    file,         \* the complete (newline-terminated) lines of the journal
    torn,         \* whether unterminated bytes follow them
    synced,       \* number of lines known to be on the medium
    lock,         \* holder of the exclusive file lock
    pc,           \* where each writer is
    view,         \* the sequence and head each writer works from
    req,          \* the append each writer is performing
    acked,        \* every append answered with success at data or full durability
    quarantined   \* quarantine labels whose file exists

vars == <<file, torn, synced, lock, pc, view, req, acked, quarantined>>

NoView == [seq |-> 0, head |-> NoEvent]
NoRequest == [id |-> NoEvent, durability |-> "full"]

\* A use case that ends, by an error or a crash, forgets what it had loaded.
Forget(w) ==
    /\ pc' = [pc EXCEPT ![w] = "idle"]
    /\ view' = [view EXCEPT ![w] = NoView]
    /\ req' = [req EXCEPT ![w] = NoRequest]

-----------------------------------------------------------------------------
(***************************************************************************)
(* Verification of the stored lines: scan_reader, validate_stored_frame    *)
(***************************************************************************)
ValidateStoredFrame(f, i) ==
    /\ f[i] # Garbage
    /\ f[i].seq = i
    /\ \/ i = 1 /\ f[i].prev = << >>
       \/ i > 1 /\ f[i-1] # Garbage /\ f[i].prev = f[i-1].sum
    /\ f[i].sum = ChecksumRecord(f[i].seq, f[i].id, f[i].prev)
    /\ \A j \in 1..(i-1) : f[j] # Garbage => f[j].id # f[i].id

ValidPrefix(f, n) == \A i \in 1..n : ValidateStoredFrame(f, i)

ScanReader(f, t) == ~t /\ ValidPrefix(f, Len(f))

HeadId(f) == IF Len(f) = 0 THEN NoEvent ELSE f[Len(f)].id
HeadSum(f) == IF Len(f) = 0 THEN << >> ELSE f[Len(f)].sum
StoredIds(f) == {f[i].id : i \in 1..Len(f)}

-----------------------------------------------------------------------------
Init ==
    /\ file = << >>
    /\ torn = FALSE
    /\ synced = 0
    /\ lock = NoWriter
    /\ pc = [w \in Writers |-> "idle"]
    /\ view = [w \in Writers |-> NoView]
    /\ req = [w \in Writers |-> NoRequest]
    /\ acked = {}
    /\ quarantined = {}

(***************************************************************************)
(* load_session: a scan under the shared lock.  An empty journal and a     *)
(* journal that does not verify are errors, which leave everything alone.  *)
(***************************************************************************)
LoadSession(w) ==
    /\ pc[w] = "idle"
    /\ lock = NoWriter
    /\ ScanReader(file, torn)
    /\ Len(file) > 0
    /\ view' = [view EXCEPT ![w] = [seq |-> Len(file), head |-> HeadId(file)]]
    /\ pc' = [pc EXCEPT ![w] = "loaded"]
    /\ UNCHANGED <<file, torn, synced, lock, req, acked, quarantined>>

\* A session is created by committing its first event without loading it.
StartSession(w) ==
    /\ pc[w] = "idle"
    /\ pc' = [pc EXCEPT ![w] = "loaded"]
    /\ UNCHANGED <<file, torn, synced, lock, view, req, acked, quarantined>>

(***************************************************************************)
(* The checks of append, in the code's order: the journal verifies, the    *)
(* sequence is the next one, the head is the expected one (only for        *)
(* compare_append_event), the event id is new.                             *)
(***************************************************************************)
\* Mutant: a stale writer is moved to the current sequence instead of refused.
AppendAllowedStale(w, id, compare) ==
    /\ ScanReader(file, torn)
    /\ view[w].seq <= Len(file)
    /\ id \notin StoredIds(file)

AppendAllowed(w, id, compare) ==
    /\ ScanReader(file, torn)
    /\ view[w].seq + 1 = Len(file) + 1
    /\ compare => HeadId(file) = view[w].head
    /\ id \notin StoredIds(file)

\* Mutant: the checks run before the lock is taken, not under it.
BeginAppendUnlocked(w, id, compare, durability) ==
    /\ pc[w] = "loaded"
    /\ compare => view[w].head # NoEvent
    /\ Len(file) < MaxFrames
    /\ AppendAllowed(w, id, compare)
    /\ lock' = w
    /\ req' = [req EXCEPT ![w] = [id |-> id, durability |-> durability]]
    /\ pc' = [pc EXCEPT ![w] = "appending"]
    /\ UNCHANGED <<file, torn, synced, view, acked, quarantined>>

\* append, up to the write: the lock is taken and the checks succeed.
BeginAppend(w, id, compare, durability) ==
    /\ pc[w] = "loaded"
    /\ lock = NoWriter
    /\ compare => view[w].head # NoEvent
    /\ Len(file) < MaxFrames
    /\ AppendAllowed(w, id, compare)
    /\ lock' = w
    /\ req' = [req EXCEPT ![w] = [id |-> id, durability |-> durability]]
    /\ pc' = [pc EXCEPT ![w] = "appending"]
    /\ UNCHANGED <<file, torn, synced, view, acked, quarantined>>

\* append with a failing check: the lock is dropped and the use case ends.
RejectAppend(w, id, compare) ==
    /\ pc[w] = "loaded"
    /\ lock = NoWriter
    /\ compare => view[w].head # NoEvent
    /\ ~AppendAllowed(w, id, compare)
    /\ Forget(w)
    /\ UNCHANGED <<file, torn, synced, lock, acked, quarantined>>

NewFrame(w) ==
    LET prev == HeadSum(file)
        seq == view[w].seq + 1
    IN  [seq |-> seq, id |-> req[w].id, prev |-> prev,
         sum |-> ChecksumRecord(seq, req[w].id, prev), basis |-> view[w].head]

WriteFrame(w) ==
    /\ pc[w] = "appending"
    /\ file' = Append(file, NewFrame(w))
    /\ pc' = [pc EXCEPT ![w] = "syncing"]
    /\ UNCHANGED <<torn, synced, lock, view, req, acked, quarantined>>

\* write_all fails after none or some of the bytes; the error is returned.
FailWrite(w) ==
    /\ pc[w] = "appending"
    /\ torn' \in BOOLEAN
    /\ lock' = NoWriter
    /\ Forget(w)
    /\ UNCHANGED <<file, synced, acked, quarantined>>

\* Mutant: an append that answers without synchronising the file.
UnsyncedLength(w) == synced

SyncedLength(w) ==
    IF req[w].durability \in {"data", "full"} THEN Len(file) ELSE synced

\* The requested synchronisation succeeds and the caller learns it; a turn goes
\* on from the event it has just committed.
FinishAppend(w) ==
    /\ pc[w] = "syncing"
    /\ synced' = SyncedLength(w)
    /\ acked' = IF req[w].durability = "buffered" THEN acked
                ELSE acked \cup {[seq |-> Len(file), id |-> req[w].id]}
    /\ lock' = NoWriter
    /\ view' = [view EXCEPT ![w] = [seq |-> Len(file), head |-> req[w].id]]
    /\ req' = [req EXCEPT ![w] = NoRequest]
    /\ pc' = [pc EXCEPT ![w] = "loaded"]
    /\ UNCHANGED <<file, torn, quarantined>>

\* sync_data or sync_all fails: the caller sees an error, the frame stays.
FailSync(w) ==
    /\ pc[w] = "syncing"
    /\ req[w].durability # "buffered"
    /\ lock' = NoWriter
    /\ Forget(w)
    /\ UNCHANGED <<file, torn, synced, acked, quarantined>>

-----------------------------------------------------------------------------
(***************************************************************************)
(* recover_tail: only a final line that does not verify may be cut, and    *)
(* its bytes are first written to a quarantine file that must not exist.   *)
(* Corruption before the last line is an error and nothing is touched.     *)
(***************************************************************************)
\* Mutant: the last complete line is cut together with the torn bytes.
LocateInvalidTailTooFar(f, t) ==
    IF t /\ Len(f) > 0 /\ ValidPrefix(f, Len(f)) THEN {Len(f) - 1} ELSE {}

LocateInvalidTail(f, t) ==
    IF t THEN (IF ValidPrefix(f, Len(f)) THEN {Len(f)} ELSE {})
    ELSE IF Len(f) > 0 /\ ValidPrefix(f, Len(f) - 1) /\ ~ValidPrefix(f, Len(f))
         THEN {Len(f) - 1}
         ELSE {}

\* Mutant: the truncation is not accounted for.
RecoverTailUnsynced(label) ==
    /\ lock = NoWriter
    /\ label \notin quarantined
    /\ \E n \in LocateInvalidTail(file, torn) : file' = SubSeq(file, 1, n)
    /\ torn' = FALSE
    /\ quarantined' = quarantined \cup {label}
    /\ UNCHANGED <<synced, lock, pc, view, req, acked>>

RecoverTail(label) ==
    /\ lock = NoWriter
    /\ label \notin quarantined
    /\ \E n \in LocateInvalidTail(file, torn) :
          /\ file' = SubSeq(file, 1, n)
          /\ synced' = n
    /\ torn' = FALSE
    /\ quarantined' = quarantined \cup {label}
    /\ UNCHANGED <<lock, pc, view, req, acked>>

\* The process dies after the quarantine file was written.
CrashInRecovery(label) ==
    /\ lock = NoWriter
    /\ label \notin quarantined
    /\ LocateInvalidTail(file, torn) # {}
    /\ quarantined' = quarantined \cup {label}
    /\ UNCHANGED <<file, torn, synced, lock, pc, view, req, acked>>

-----------------------------------------------------------------------------
\* The process of a writer dies: its lock is released by the kernel, what it
\* wrote stays in the page cache, a write in progress may be partial.
CrashWriter(w) ==
    /\ pc[w] # "idle"
    /\ Forget(w)
    /\ lock' = IF lock = w THEN NoWriter ELSE lock
    /\ torn' \in (IF pc[w] = "appending" THEN BOOLEAN ELSE {torn})
    /\ UNCHANGED <<file, synced, acked, quarantined>>

\* The lines that are not known to be on the medium survive, come back as
\* garbage or vanish; the cut may leave an unterminated line.
SurvivesPowerLoss(f, n, garbled) ==
    [i \in 1..n |-> IF i \in garbled THEN Garbage ELSE f[i]]

PowerLoss ==
    /\ \E n \in synced..Len(file) :
          /\ \E garbled \in SUBSET ((synced+1)..n) :
                file' = SurvivesPowerLoss(file, n, garbled)
          /\ synced' = n
          /\ torn' \in (IF torn \/ n < Len(file) \/ lock # NoWriter THEN BOOLEAN ELSE {FALSE})
    /\ lock' = NoWriter
    /\ pc' = [w \in Writers |-> "idle"]
    /\ view' = [w \in Writers |-> NoView]
    /\ req' = [w \in Writers |-> NoRequest]
    /\ UNCHANGED <<acked, quarantined>>

-----------------------------------------------------------------------------
WriterStep(w) ==
    \/ LoadSession(w)
    \/ StartSession(w)
    \/ \E id \in EventIds, compare \in BOOLEAN :
          \/ \E durability \in Durabilities : BeginAppend(w, id, compare, durability)
          \/ RejectAppend(w, id, compare)
    \/ WriteFrame(w)
    \/ FailWrite(w)
    \/ FinishAppend(w)
    \/ FailSync(w)
    \/ CrashWriter(w)

Next ==
    \/ \E w \in Writers : WriterStep(w)
    \/ \E label \in Labels : RecoverTail(label) \/ CrashInRecovery(label)
    \/ PowerLoss

Spec == Init /\ [][Next]_vars

-----------------------------------------------------------------------------
(***************************************************************************)
(* Correctness                                                             *)
(***************************************************************************)

\* Every variable has the shape the code gives it.
TypeOK ==
    /\ file \in Seq(Frames \cup {Garbage})
    /\ torn \in BOOLEAN
    /\ synced \in 0..Len(file)
    /\ lock \in Writers \cup {NoWriter}
    /\ pc \in [Writers -> {"idle", "loaded", "appending", "syncing"}]
    /\ view \in [Writers -> Views]
    /\ req \in [Writers -> Requests]
    /\ acked \subseteq Acks
    /\ quarantined \subseteq Labels

\* Whatever writers, crashes, power losses and recoveries did, the frames that
\* are in the file are numbered by their position, carry their own checksum,
\* are chained to the frame before them, and never repeat an event id: append
\* extends the chain that scan_reader verifies.
ChainIntact ==
    \A i \in 1..Len(file) : file[i] # Garbage =>
        /\ file[i].seq = i
        /\ file[i].sum = ChecksumRecord(i, file[i].id, file[i].prev)
        /\ i = 1 => file[i].prev = << >>
        /\ i > 1 /\ file[i-1] # Garbage => file[i].prev = file[i-1].sum
        /\ \A j \in 1..(i-1) : file[j] # Garbage => file[j].id # file[i].id

\* An append that was answered with success at data or full durability stays in
\* the journal at its sequence, through every crash, power loss and recovery.
DurableAcksSurvive ==
    \A a \in acked :
        /\ a.seq \in 1..Len(file)
        /\ file[a.seq] # Garbage
        /\ file[a.seq].id = a.id

\* Optimistic concurrency: every event was prepared by a writer that had seen
\* exactly the event before it, although commit_event compares only the
\* sequence.  So no two writers that loaded the same head both commit.
NoLostUpdate ==
    \A i \in 1..Len(file) : file[i] # Garbage =>
        /\ i = 1 => file[i].basis = NoEvent
        /\ i > 1 /\ file[i-1] # Garbage => file[i].basis = file[i-1].id

FramesKept ==
    \A i \in 1..Len(file) : file[i] # Garbage => i <= Len(file') /\ file'[i] = file[i]

\* A frame that was written is neither changed nor removed by an append, a
\* failed append, a crash or recover_tail: only a power loss can take it.
OnlyPowerLossRemovesFrames == [][FramesKept \/ PowerLoss]_vars

=============================================================================
