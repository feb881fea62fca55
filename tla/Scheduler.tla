----------------------------- MODULE Scheduler -----------------------------
(***************************************************************************)
(* The scheduler worker: a process that keeps schedules and the claims of  *)
(* their occurrences as checksummed files under one exclusive file lock.   *)
(*                                                                         *)
(*   apps/scheduler/dependency/src/lib.rs   FileSchedulerDependency        *)
(*   apps/scheduler/logic/src/lib.rs        SchedulerLogic                 *)
(*   apps/runtime/dependency/src/scheduler.rs   the runtime's connection   *)
(*                                                                         *)
(* A runtime sends one request at a time over the worker's pipes.  A       *)
(* request is several file operations, and the worker may fail or die      *)
(* between any two of them; the answer is then lost with what was claimed. *)
(***************************************************************************)
EXTENDS Naturals, FiniteSets

CONSTANTS
    Schedules,   \* schedule identities
    OneShots,    \* those with an AtMillis trigger
    Intervals,   \* those with an Interval trigger; the rest watch events
    MaxTime,     \* bound: the clock, in interval periods
    MaxEvents,   \* bound: committed events that match a trigger
    MaxUpserts,  \* bound: times a schedule is stored under a new idempotency id
    PollLimit,   \* occurrences claimed, or pending claims listed, by one request
    Nobody       \* no task waits for the worker

Observers == Schedules \ (OneShots \cup Intervals)
Occurrences ==
    {x \in Schedules \X (1..(MaxTime + MaxEvents)) :
        x[2] <= IF x[1] \in OneShots THEN 1 ELSE IF x[1] \in Intervals THEN MaxTime ELSE MaxEvents}

ASSUME SchedulerAssumption ==
    /\ OneShots \subseteq Schedules
    /\ Intervals \subseteq Schedules \ OneShots
    /\ MaxTime \in Nat \ {0}
    /\ MaxEvents \in Nat
    /\ MaxUpserts \in Nat
    /\ PollLimit \in Nat \ {0}

VARIABLES
    now,      \* the clock
    sched,    \* the schedule files
    upserts,  \* idempotency ids used for each schedule
    claim,    \* the execution files: absent, torn (not filled) or claimed
    marker,   \* the terminal marker files of each execution
    w         \* the worker process and the request it serves

store == <<sched, upserts, claim, marker>>
workerVars == <<now, store, w>>

\* next = 0 is an absent next_due_ms.  A "swapped" file exists only as backup.
NoSchedule == [file |-> "absent", next |-> 0, completed |-> FALSE]
FirstDue(s) == IF s \in Observers THEN 0 ELSE 1

Ready == [pc |-> "ready", op |-> "none", for |-> Nobody, todo |-> {}, cur |-> <<>>,
          next |-> 0, completed |-> FALSE, got |-> {}]
Dead == [Ready EXCEPT !.pc = "dead"]

WorkerInit ==
    /\ now = 0
    /\ sched = [s \in Schedules |-> NoSchedule]
    /\ upserts = [s \in Schedules |-> 0]
    /\ claim = [x \in Occurrences |-> "absent"]
    /\ marker = [x \in Occurrences |-> {}]
    /\ w = Dead

Tick == now < MaxTime /\ now' = now + 1

Stored == {s \in Schedules : sched[s].file = "present"}
Nonterminal == {x \in Occurrences : claim[x] # "absent" /\ marker[x] = {}}
Full == Cardinality(w.got) >= PollLimit

-----------------------------------------------------------------------------
(***************************************************************************)
(* write_json_atomic: the old file is renamed to a backup, then the new    *)
(* one takes its name.                                                     *)
(***************************************************************************)
BeginSave(s, next, completed, cont) ==
    /\ sched' = [sched EXCEPT ![s].file = IF @ = "present" THEN "swapped" ELSE @]
    /\ w' = [cont EXCEPT !.pc = "saving", !.cur = <<s>>, !.next = next, !.completed = completed]

FinishSave ==
    LET s == w.cur[1]
    IN  /\ w.pc = "saving"
        /\ sched' = [sched EXCEPT ![s] = [file |-> "present", next |-> w.next,
                                          completed |-> w.completed]]
        /\ w' = [w EXCEPT !.pc = "scan", !.todo = @ \ {s}, !.cur = <<>>, !.next = 0,
                          !.completed = FALSE]
        /\ UNCHANGED <<now, upserts, claim, marker>>

Restored(f) == [f EXCEPT !.file = IF @ = "swapped" THEN "present" ELSE @]

\* recover_interrupted_replacements: a worker that starts restores the backups.
StartWorker ==
    /\ w' = Ready
    /\ sched' = [s \in Schedules |-> Restored(sched[s])]

-----------------------------------------------------------------------------
(***************************************************************************)
(* upsert and remove                                                       *)
(***************************************************************************)
\* A repeated idempotency id is a replay or a conflict and writes nothing.
Upsert(t, s) ==
    /\ w.pc = "ready"
    /\ upserts[s] < MaxUpserts
    /\ upserts' = [upserts EXCEPT ![s] = @ + 1]
    /\ BeginSave(s, FirstDue(s), FALSE, [w EXCEPT !.op = "upsert", !.for = t])
    /\ UNCHANGED <<now, claim, marker>>

Remove(s) ==
    /\ w.pc = "ready"
    /\ sched[s].file = "present"
    /\ sched' = [sched EXCEPT ![s] = NoSchedule]
    /\ UNCHANGED <<now, upserts, claim, marker, w>>

-----------------------------------------------------------------------------
(***************************************************************************)
(* claim_due and fire_runtime_event, fire_process_output                   *)
(***************************************************************************)
BeginClaimDue(t) ==
    /\ w.pc = "ready"
    /\ w' = [w EXCEPT !.pc = "scan", !.op = "due", !.for = t, !.todo = Stored]
    /\ UNCHANGED <<now, store>>

BeginFire(t, e) ==
    /\ w.pc = "ready"
    /\ w' = [w EXCEPT !.pc = "scan", !.op = "fire", !.for = t, !.todo = Stored \cap Observers,
                      !.next = e]
    /\ UNCHANGED <<now, store>>

\* The claim of the occurrence w.next of schedule s: create_new, and a file that
\* exists is an occurrence somebody has claimed before.
CreateClaim(s, existing) ==
    LET x == <<s, w.next>>
    IN  IF claim[x] = "absent"
        THEN /\ claim' = [claim EXCEPT ![x] = "torn"]
             /\ w' = [w EXCEPT !.pc = "fill", !.cur = <<s>>]
        ELSE w' = existing /\ UNCHANGED claim

\* Mutant: the interval advances by two periods.
AdvancedTwice(s, v) == [v EXCEPT !.pc = "claim", !.cur = <<s>>, !.next = @ + 2]

\* The trigger after the occurrence w.next was claimed.
Advanced(s, v) ==
    IF s \in OneShots THEN [v EXCEPT !.pc = "claim", !.cur = <<s>>, !.next = 0, !.completed = TRUE]
    ELSE [v EXCEPT !.pc = "claim", !.cur = <<s>>, !.next = @ + 1]

AfterClaim(s, v) ==
    IF w.op = "due" THEN Advanced(s, v) ELSE [v EXCEPT !.pc = "scan", !.todo = @ \ {s}, !.cur = <<>>]

OpenSchedule(s) ==
    /\ w.pc = "scan"
    /\ s \in w.todo
    /\ \/ /\ w.op = "due"
          /\ ~Full
          /\ w' = IF sched[s].completed THEN [w EXCEPT !.todo = @ \ {s}]
                  ELSE [w EXCEPT !.pc = "claim", !.cur = <<s>>, !.next = sched[s].next,
                                 !.completed = FALSE]
          /\ UNCHANGED claim
       \/ /\ w.op = "fire"
          /\ CreateClaim(s, AfterClaim(s, w))
    /\ UNCHANGED <<now, sched, upserts, marker>>

Due == w.next # 0 /\ w.next <= now /\ ~Full

ClaimOccurrence ==
    /\ w.pc = "claim"
    /\ Due
    /\ CreateClaim(w.cur[1], Advanced(w.cur[1], w))
    /\ UNCHANGED <<now, sched, upserts, marker>>

FillClaim ==
    LET s == w.cur[1]
        x == <<s, w.next>>
    IN  /\ w.pc = "fill"
        /\ claim' = [claim EXCEPT ![x] = "claimed"]
        /\ w' = AfterClaim(s, [w EXCEPT !.got = @ \cup {x}])
        /\ UNCHANGED <<now, sched, upserts, marker>>

\* Mutant: the schedule is advanced on disk before its occurrence is claimed.
SaveBeforeClaim ==
    /\ w.pc = "claim"
    /\ BeginSave(w.cur[1], IF Due THEN Advanced(w.cur[1], w).next ELSE w.next, w.completed, w)
    /\ UNCHANGED <<now, upserts, claim, marker>>

\* The schedule is saved after its claims, also when nothing was due.
SaveSchedule ==
    /\ w.pc = "claim"
    /\ ~Due
    /\ BeginSave(w.cur[1], w.next, w.completed, w)
    /\ UNCHANGED <<now, upserts, claim, marker>>

\* The request has gone through its schedules, or has reached the limit.
Answering == w.pc = "scan" /\ (w.todo = {} \/ (w.op = "due" /\ Full))

\* An I/O error: the request is answered with the error, a torn claim stays, and
\* a failed rename restores the backup.
WorkerError ==
    /\ w.pc \in {"fill", "claim", "saving"}
    /\ sched' = IF w.pc = "saving" THEN [s \in Schedules |-> Restored(sched[s])] ELSE sched

-----------------------------------------------------------------------------
(***************************************************************************)
(* list_pending_executions and complete_execution, in one step each        *)
(***************************************************************************)
\* Paths are visited in the order of their digests, which is any order here.
PendingLists ==
    {q \in SUBSET {x \in Nonterminal : claim[x] = "claimed"} :
        \/ Cardinality(q) = PollLimit
        \/ /\ Cardinality(q) < PollLimit
           /\ q = Nonterminal}

PendingCorrupt ==
    /\ \E x \in Nonterminal : claim[x] = "torn"
    /\ w.pc = "ready"

CompleteExecution(x, succeeded) ==
    LET desired == IF succeeded THEN "succeeded" ELSE "failed"
    IN  marker' = [marker EXCEPT ![x] = IF @ = {} THEN {desired} ELSE @]

-----------------------------------------------------------------------------
\* The steps of a request between its beginning and its answer.
WorkerStep ==
    \/ \E s \in Schedules : OpenSchedule(s)
    \/ ClaimOccurrence
    \/ FillClaim
    \/ SaveSchedule
    \/ FinishSave

WorkerTypeOK ==
    /\ now \in 0..MaxTime
    /\ sched \in [Schedules -> [file : {"absent", "present", "swapped"}, next : 0..(MaxTime + 1),
                                completed : BOOLEAN]]
    /\ upserts \in [Schedules -> 0..MaxUpserts]
    /\ claim \in [Occurrences -> {"absent", "torn", "claimed"}]
    /\ marker \in [Occurrences -> SUBSET {"succeeded", "failed"}]
    /\ w.pc \in {"dead", "ready", "scan", "claim", "fill", "saving"}
    /\ w.got \subseteq Occurrences
    /\ w.todo \subseteq Schedules

\* No occurrence is lost: whatever died between the claim and the schedule file,
\* every occurrence before the stored next one has an execution record.
NoOccurrenceSkipped ==
    \A s \in Schedules \ Observers : sched[s].file # "absent" =>
        \A x \in Occurrences :
            x[1] = s /\ (sched[s].next > x[2] \/ sched[s].completed) => claim[x] # "absent"

=============================================================================
