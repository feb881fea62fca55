----------------------------- MODULE PluginHost -----------------------------
(***************************************************************************)
(* One plugin in the plugin host (apps/plugin-host), with the part of the  *)
(* runtime that talks to it.  Every request frame is a task of its own, so *)
(* up to 32 of them interleave at their awaits.  They share                *)
(*   - the plugin's state file: lifecycle, observer deliveries and node    *)
(*     state in one document, rewritten whole under the state_writes lock; *)
(*   - the in-memory status, the map of running invocations with their     *)
(*     cancellation tokens, and the bounded queue of the observer worker;  *)
(*   - the durable nonces and cancellation receipts.                       *)
(* A crash loses everything but the files, and may leave the generation    *)
(* that was being written unreadable.  The state file's newest generation  *)
(* is the one that is read, so an unreadable one is never replaced.        *)
(*                                                                         *)
(* The plugin observes events and executes graph nodes.  Digests, grants   *)
(* and schemas are taken as valid: a request is an identity.               *)
(***************************************************************************)
EXTENDS Integers, Sequences, FiniteSets

CONSTANTS
    Permits,        \* request slots of the host: its semaphore
    Deliveries,     \* observer deliveries, by invocation id
    Invocations,    \* node executor invocations, by invocation id
    Writes,         \* node state writes on one session-scoped key
    Prior,          \* the state each write names as its predecessor
    Reads,          \* node state reads on that key
    Expected,       \* the state each read names
    QueueCapacity,  \* observer_queue_capacity
    MaxAttempts,    \* attempts of an idempotent executor
    MaxFrames,      \* bound on the frames the runtime sends
    MaxFaults,      \* bound on crashes and failed writes
    None,           \* no write, no slot, no delivery
    Torn,           \* an unreadable state file; no document held
    Orphan          \* a token nobody waits on

ASSUME HostAssumption ==
    /\ Prior \in [Writes -> Writes \cup {None}] /\ Expected \in [Reads -> Writes]
    /\ None \notin Permits \cup Deliveries \cup Invocations \cup Writes \cup Reads
    /\ Orphan \notin Permits \cup {None}
    /\ Invocations \cap (Writes \cup Reads) = {}
    /\ QueueCapacity \in Nat \ {0} /\ MaxAttempts \in Nat \ {0}
    /\ MaxFrames \in Nat /\ MaxFaults \in Nat

VARIABLES
    disk,       \* PersistedState of the plugin, or Torn
    filed,      \* cancellation-receipts.json
    nonces,     \* cancellation nonces spent and not expired
    receipts,   \* the cancellation receipts held in memory
    loaded,     \* the plugin is in the host's table
    status,     \* LoadedPlugin.status
    lock,       \* holder of state_writes
    tasks,      \* what each slot is doing
    registered, \* invocations: whose token is listed under an id
    queue,      \* observer channel
    working,    \* delivery the observer worker is running
    canonical,  \* the runtime's journalled lifecycle record
    sent,       \* invocations the runtime has dispatched
    frames, faults,
    runs,       \* history: worker processes started for a delivery
    outcome,    \* history: how the worker ended it
    answers,    \* history: delivery statuses answered
    cancelAnswers   \* history: cancellation statuses answered

files   == <<disk, filed>>
cancels == <<nonces, receipts>>
memory  == <<cancels, loaded, status, lock, tasks, registered, queue, working>>
runtime == <<canonical, sent, frames, faults>>
history == <<runs, outcome, answers, cancelAnswers>>
vars    == <<files, memory, runtime, history>>

LifeStates == {"active", "disabled", "quarantined"}
Actions == {"disable", "enable", "quarantine", "unquarantine"}
ObsStatus == {"absent", "pending", "completed", "rejected", "ambiguous"}
Terminal == {"completed", "rejected", "ambiguous"}

\* A state file that load has just initialised.
Fresh == [life |-> "active", receipt |-> 0, obs |-> [d \in Deliveries |-> "absent"],
          node |-> None, gen |-> 0, reads |-> {}]

Idle == [op |-> "none", id |-> None, pc |-> "idle", attempt |-> 0, number |-> 0,
         cancelled |-> FALSE, verdict |-> "none", buf |-> Torn]

Init ==
    /\ disk = Fresh /\ nonces = {}
    /\ receipts = [i \in Invocations |-> "none"] /\ filed = receipts
    /\ loaded = FALSE /\ status = "active" /\ lock = None
    /\ tasks = [s \in Permits |-> Idle]
    /\ registered = [i \in Invocations \cup Writes \cup Reads |-> None]
    /\ queue = <<>> /\ working = None
    /\ canonical = [state |-> "none", action |-> "none", number |-> 0]
    /\ sent = {} /\ frames = 0 /\ faults = 0
    /\ runs = [d \in Deliveries |-> 0] /\ outcome = [d \in Deliveries |-> "none"]
    /\ answers = [d \in Deliveries |-> {}]
    /\ cancelAnswers = [i \in Invocations |-> {}]

At(s, op, pc) == tasks[s].op = op /\ tasks[s].pc = pc
Become(s, t) == tasks' = [tasks EXCEPT ![s] = t]
Goto(s, pc) == Become(s, [tasks[s] EXCEPT !.pc = pc, !.buf = Torn])
\* The task answers and gives its permit back.
End(s) == Become(s, Idle)

----------------------------------------------------------------------------
(* The runtime sends a frame; a free permit starts its task.  A frame that *)
(* finds none is answered host_overloaded and changes nothing.             *)

Spawn(s, op, id) ==
    /\ tasks[s] = Idle
    /\ frames < MaxFrames
    /\ frames' = frames + 1
    /\ Become(s, [Idle EXCEPT !.op = op, !.id = id, !.pc = "entry"])
    /\ UNCHANGED <<files, cancels, loaded, status, lock, registered, queue, working, faults, history>>

\* An observation may be sent again at any time: the runtime redelivers what
\* it holds no terminal receipt for, its earlier frame possibly still running.
SendObserve(s) ==
    \E d \in Deliveries : Spawn(s, "observe", d) /\ UNCHANGED <<canonical, sent>>

\* A node invocation is dispatched once and never redispatched.
SendInvoke(s) ==
    \E i \in Invocations \ sent :
        Spawn(s, "invoke", i) /\ sent' = sent \cup {i} /\ UNCHANGED canonical

\* A state write or read is reconciled by sending the same identity again.
SendWrite(s) ==
    \E w \in Writes : Spawn(s, "write", w) /\ UNCHANGED <<canonical, sent>>

SendRead(s) ==
    \E r \in Reads : Spawn(s, "read", r) /\ UNCHANGED <<canonical, sent>>

SendCancel(s) ==
    \E i \in sent : Spawn(s, "cancel", i) /\ UNCHANGED <<canonical, sent>>

Followup(state, action) ==
    \/ state \in {"none", "active"} /\ action \in {"disable", "quarantine"}
    \/ state = "disabled" /\ action = "enable"
    \/ state = "quarantined" /\ action = "unquarantine"

\* A change is journalled as pending, then sent.  While it is pending only the
\* exact same change is sent, as often as its callers time out and repeat it;
\* the frames sent before may still be running, and outlive the change.
SendLifecycle(s) ==
    /\ tasks[s] = Idle
    /\ frames < MaxFrames
    /\ frames' = frames + 1
    /\ \E a \in Actions :
        /\ \/ canonical.state = "pending" /\ a = canonical.action /\ UNCHANGED canonical
           \/ /\ Followup(canonical.state, a)
              /\ canonical' = [state |-> "pending", action |-> a, number |-> canonical.number + 1]
        /\ Become(s, [Idle EXCEPT !.op = "lifecycle", !.id = a, !.pc = "entry",
                                  !.number = canonical'.number])
    /\ UNCHANGED <<files, cancels, loaded, status, lock, registered, queue, working, sent,
                   faults, history>>

----------------------------------------------------------------------------
(* The state file: read, change and rewrite under the state_writes lock.   *)

\* Mutant: the lock is not taken.
StateLockIgnored == TRUE

StateLockFree == lock = None

\* Lock taken, file read: the task holds the document it will write.
Hold(s, doc, pc) ==
    /\ lock' = s
    /\ Become(s, [tasks[s] EXCEPT !.buf = doc, !.pc = pc])

\* Lock taken, file read, nothing to write: the lock is already back.
Critical(s, op, pc) == At(s, op, pc) /\ StateLockFree /\ disk # Torn

\* An operation on a registered invocation fails by way of its removal from
\* the map; the others just answer.
Fail(s) == IF tasks[s].op \in {"write", "read"} THEN Goto(s, "unregister") ELSE End(s)

\* load_json finds the newest generation unreadable: StateCorrupt.
StoreCorrupt(s) ==
    /\ tasks[s].pc \in {"begin", "finish", "locked", "change"} /\ StateLockFree
    /\ disk = Torn
    /\ Fail(s)
    /\ UNCHANGED <<files, cancels, loaded, status, lock, registered, queue, working, runtime, history>>

Writing(s) == tasks[s].pc \in {"beginning", "finishing", "swapping", "noting", "changing"}

Written(s) ==
    LET t == tasks[s] IN
    CASE t.pc = "beginning" /\ t.buf.obs[t.id] = "pending" -> Goto(s, "send")
      [] t.pc \in {"swapping", "noting"} -> Goto(s, "unregister")
      [] t.pc = "changing" -> Goto(s, "status")
      [] OTHER -> End(s)

AnswerObserver(d, a) == answers' = [answers EXCEPT ![d] = @ \cup {a}]

\* persist_json writes and syncs a new generation, then removes the others.
Persist(s) ==
    LET t == tasks[s] IN
    /\ Writing(s)
    /\ disk' = t.buf
    /\ lock' = None
    /\ Written(s)
    /\ IF t.op = "observe" /\ t.buf.obs[t.id] \in Terminal
       THEN AnswerObserver(t.id, t.buf.obs[t.id]) ELSE UNCHANGED answers
    /\ UNCHANGED <<filed, cancels, loaded, status, registered, queue, working, runtime,
                   runs, outcome, cancelAnswers>>

\* The new generation cannot be created, or is created and cannot be filled, or
\* is complete and its sync, or the listing after it, reports an error.
PersistFails(s) ==
    /\ Writing(s)
    /\ faults < MaxFaults /\ faults' = faults + 1
    /\ disk' \in {disk, Torn, tasks[s].buf}
    /\ lock' = None
    /\ Fail(s)
    /\ UNCHANGED <<filed, cancels, loaded, status, registered, queue, working,
                   canonical, sent, frames, history>>

----------------------------------------------------------------------------
(* Admission of observations, invocations and state operations.            *)

Active == loaded /\ status = "active"

Admit(s) ==
    /\ tasks[s].op \in {"observe", "invoke", "write", "read"} /\ tasks[s].pc = "entry"
    /\ IF Active THEN Goto(s, IF tasks[s].op = "observe" THEN "begin" ELSE "register")
                 ELSE End(s)
    /\ UNCHANGED <<files, cancels, loaded, status, lock, registered, queue, working, runtime, history>>

\* The insertion replaces the token of an invocation that is still listed;
\* the second request is refused, and its own token stays in the map.
Register(s) ==
    LET i == tasks[s].id IN
    /\ tasks[s].pc = "register"
    /\ IF registered[i] = None
       THEN registered' = [registered EXCEPT ![i] = s] /\ Goto(s, "recheck")
       ELSE registered' = [registered EXCEPT ![i] = Orphan] /\ End(s)
    /\ UNCHANGED <<files, cancels, loaded, status, lock, queue, working, runtime, history>>

\* Mutant: the second look at the status is dropped.
StillActiveAssumed == TRUE

StillActive == status = "active"

\* The status is read again now that a disable can see the invocation.
Recheck(s) ==
    /\ tasks[s].pc = "recheck"
    /\ IF StillActive
       THEN /\ Become(s, [tasks[s] EXCEPT !.attempt = 1,
                              !.pc = IF tasks[s].op = "invoke" THEN "running" ELSE "locked"])
            /\ UNCHANGED registered
       ELSE registered' = [registered EXCEPT ![tasks[s].id] = None] /\ End(s)
    /\ UNCHANGED <<files, cancels, loaded, status, lock, queue, working, runtime, history>>

Unregister(s) ==
    /\ tasks[s].pc = "unregister"
    /\ registered' = [registered EXCEPT ![tasks[s].id] = None]
    /\ End(s)
    /\ UNCHANGED <<files, cancels, loaded, status, lock, queue, working, runtime, history>>

----------------------------------------------------------------------------
(* invoke_worker: a process per attempt, ended by its exit, its deadline   *)
(* or its token.                                                           *)

\* The worker answers, the answer racing a cancellation.
WorkerAnswers(s) ==
    /\ At(s, "invoke", "running")
    /\ Goto(s, "unregister")
    /\ UNCHANGED <<files, cancels, loaded, status, lock, registered, queue, working, runtime, history>>

\* It crashes, times out, answers nonsense or is killed: tried again unless
\* the attempts are used up or the token is cancelled.
WorkerFails(s) ==
    LET t == tasks[s] IN
    /\ At(s, "invoke", "running")
    /\ Goto(s, IF t.attempt >= MaxAttempts \/ t.cancelled THEN "unregister" ELSE "backoff")
    /\ UNCHANGED <<files, cancels, loaded, status, lock, registered, queue, working, runtime, history>>

\* After the backoff the next process is started without looking at the token.
Retry(s) ==
    /\ At(s, "invoke", "backoff")
    /\ Become(s, [tasks[s] EXCEPT !.attempt = @ + 1, !.pc = "running"])
    /\ UNCHANGED <<files, cancels, loaded, status, lock, registered, queue, working, runtime, history>>

----------------------------------------------------------------------------
(* observe: claim the delivery, queue it, wait, seal the receipt.          *)

\* Mutant: a claimed delivery without a receipt is queued again.
ClaimAgain(d) == disk.obs[d] \in {"absent", "pending"}

Claim(d) == disk.obs[d] = "absent"

\* begin_observer_delivery: a delivery claimed before and never sealed is
\* sealed ambiguous, since nobody knows whether its worker ran.
Begin(s) ==
    LET d == tasks[s].id IN
    /\ Critical(s, "observe", "begin")
    /\ \/ /\ Claim(d)
          /\ Hold(s, [disk EXCEPT !.obs[d] = "pending"], "beginning")
          /\ UNCHANGED answers
       \/ /\ ~Claim(d) /\ disk.obs[d] = "pending"
          /\ Hold(s, [disk EXCEPT !.obs[d] = "ambiguous"], "beginning")
          /\ UNCHANGED answers
       \/ /\ disk.obs[d] \in Terminal
          /\ AnswerObserver(d, disk.obs[d])
          /\ End(s)
          /\ UNCHANGED lock
    /\ UNCHANGED <<files, cancels, loaded, status, registered, queue, working, runtime,
                   runs, outcome, cancelAnswers>>

\* Mutant: the channel is taken to be unbounded.
QueueUnbounded == TRUE

QueueHasRoom == Len(queue) < QueueCapacity

\* try_send never waits: a full queue rejects the delivery.
Send(s) ==
    /\ At(s, "observe", "send")
    /\ IF QueueHasRoom
       THEN queue' = Append(queue, tasks[s].id) /\ Goto(s, "waiting")
       ELSE /\ Become(s, [tasks[s] EXCEPT !.verdict = "rejected", !.pc = "finish"])
            /\ UNCHANGED queue
    /\ UNCHANGED <<files, cancels, loaded, status, lock, registered, working, runtime, history>>

\* Mutant: an accepted delivery counts as a completed one.
VerdictOnAcceptance(ended) == "completed"

\* No failure a worker process can meet is one observer_failure_is_definite
\* accepts, so whatever is not a success is ambiguous.
Verdict(ended) == IF ended = "ok" THEN "completed" ELSE "ambiguous"

\* The worker's completion, or the timeout, whichever comes first.
Await(s) ==
    /\ At(s, "observe", "waiting")
    /\ \E ended \in {outcome[tasks[s].id], "timeout"} :
        /\ ended # "none"
        /\ Become(s, [tasks[s] EXCEPT !.verdict = Verdict(ended), !.pc = "finish"])
    /\ UNCHANGED <<files, cancels, loaded, status, lock, registered, queue, working, runtime, history>>

\* Mutant: the receipt is written whatever the file holds by now.
SealAlways(d) == TRUE

Unsealed(d) == disk.obs[d] \notin Terminal

\* finish_observer_delivery: a receipt sealed meanwhile by a redelivery stays.
Finish(s) ==
    LET t == tasks[s] IN
    /\ Critical(s, "observe", "finish")
    /\ \/ /\ Unsealed(t.id)
          /\ Hold(s, [disk EXCEPT !.obs[t.id] = t.verdict], "finishing")
       \/ ~Unsealed(t.id) /\ End(s) /\ UNCHANGED lock
    /\ UNCHANGED <<files, cancels, loaded, status, registered, queue, working, runtime, history>>

\* observer_worker: one delivery at a time, whatever the plugin's status.
ObserverStarts ==
    /\ working = None /\ queue # <<>>
    /\ working' = Head(queue) /\ queue' = Tail(queue)
    /\ runs' = [runs EXCEPT ![Head(queue)] = @ + 1]
    /\ UNCHANGED <<files, cancels, loaded, status, lock, tasks, registered, runtime,
                   outcome, answers, cancelAnswers>>

ObserverEnds ==
    /\ working # None
    /\ \E e \in {"ok", "error"} : outcome' = [outcome EXCEPT ![working] = e]
    /\ working' = None
    /\ UNCHANGED <<files, cancels, loaded, status, lock, tasks, registered, queue, runtime,
                   runs, answers, cancelAnswers>>

----------------------------------------------------------------------------
(* persist_node_state: compare and swap on the key's generation.           *)

CompareAndSwap(s) ==
    LET w == tasks[s].id IN
    /\ Critical(s, "write", "locked")
    /\ \/ /\ tasks[s].cancelled \/ disk.node = w \/ disk.node # Prior[w]
          /\ Goto(s, "unregister")    \* cancelled, replayed or stale
          /\ UNCHANGED lock
       \/ /\ ~tasks[s].cancelled /\ disk.node # w /\ disk.node = Prior[w]
          /\ Hold(s, [disk EXCEPT !.node = w, !.gen = @ + 1], "swapping")
    /\ UNCHANGED <<files, cancels, loaded, status, registered, queue, working, runtime, history>>

\* load_node_state: the state is answered if it is the one expected, and the
\* answer's receipt is kept; the receipt of an exact replay is there already.
ReadState(s) ==
    LET r == tasks[s].id IN
    /\ Critical(s, "read", "locked")
    /\ \/ /\ tasks[s].cancelled \/ disk.node # Expected[r] \/ r \in disk.reads
          /\ Goto(s, "unregister")
          /\ UNCHANGED lock
       \/ /\ ~tasks[s].cancelled /\ disk.node = Expected[r] /\ r \notin disk.reads
          /\ Hold(s, [disk EXCEPT !.reads = @ \cup {r}], "noting")
    /\ UNCHANGED <<files, cancels, loaded, status, registered, queue, working, runtime, history>>

\* The token is read once more before the write.
Preempted(s) ==
    /\ tasks[s].pc \in {"swapping", "noting"} /\ tasks[s].cancelled
    /\ lock' = None
    /\ Goto(s, "unregister")
    /\ UNCHANGED <<files, cancels, loaded, status, registered, queue, working, runtime, history>>

----------------------------------------------------------------------------
(* Lifecycle: the receipt is written first, then the status, then the      *)
(* running invocations are cancelled.                                      *)

Target(a) == CASE a = "disable" -> "disabled" [] a = "quarantine" -> "quarantined"
               [] OTHER -> "active"
Source(a) == CASE a = "enable" -> "disabled" [] a = "unquarantine" -> "quarantined"
               [] OTHER -> "active"

CheckStatus(s) ==
    LET a == tasks[s].id IN
    /\ At(s, "lifecycle", "entry")
    /\ IF loaded /\ status \in {Source(a), Target(a)} THEN Goto(s, "change") ELSE End(s)
    /\ UNCHANGED <<files, cancels, loaded, status, lock, registered, queue, working, runtime, history>>

\* persist_lifecycle_receipt: the request of the receipt held is a replay; one
\* whose receipt was replaced by a later change is checked like a new request.
Change(s) ==
    LET a == tasks[s].id
        n == tasks[s].number
    IN
    /\ Critical(s, "lifecycle", "change")
    /\ \/ disk.receipt = n /\ Goto(s, "status") /\ UNCHANGED lock
       \/ /\ disk.receipt # n /\ disk.life = Source(a)
          /\ Hold(s, [disk EXCEPT !.life = Target(a), !.receipt = n], "changing")
       \/ /\ disk.receipt # n /\ disk.life # Source(a)
          /\ End(s) /\ UNCHANGED lock
    /\ UNCHANGED <<files, cancels, loaded, status, registered, queue, working, runtime, history>>

\* The runtime reloads and journals the answer as the terminal event if the
\* change is still pending, unless the caller has timed out.
Changed(s) ==
    /\ canonical' \in {canonical} \cup
          {c \in {[canonical EXCEPT !.state = Target(tasks[s].id)]} :
              canonical.state = "pending" /\ canonical.number = tasks[s].number}
    /\ UNCHANGED <<sent, frames, faults>>

SetStatus(s) ==
    LET a == tasks[s].id IN
    /\ At(s, "lifecycle", "status")
    /\ status' = Target(a)
    /\ IF Target(a) = "active" THEN End(s) /\ Changed(s)
                               ELSE Goto(s, "preempt") /\ UNCHANGED runtime
    /\ UNCHANGED <<files, cancels, loaded, lock, registered, queue, working, history>>

Signalled(slots) == [s \in Permits |-> IF s \in slots THEN [tasks[s] EXCEPT !.cancelled = TRUE]
                                                      ELSE tasks[s]]

Preempt(s) ==
    /\ At(s, "lifecycle", "preempt")
    /\ tasks' = [Signalled({registered[i] : i \in DOMAIN registered}) EXCEPT ![s] = Idle]
    /\ Changed(s)
    /\ UNCHANGED <<files, cancels, loaded, status, lock, registered, queue, working, history>>

----------------------------------------------------------------------------
(* cancel_invocation: the receipt held, the nonce, the token, the receipt. *)

FindReceipt(s) ==
    /\ At(s, "cancel", "entry")
    /\ Become(s, [tasks[s] EXCEPT !.verdict = receipts[tasks[s].id], !.pc = "authorize"])
    /\ UNCHANGED <<files, cancels, loaded, status, lock, registered, queue, working, runtime, history>>

NonceUnspent(i) == i \notin nonces

AnswerCancel(i, a) == cancelAnswers' = [cancelAnswers EXCEPT ![i] = @ \cup {a}]

\* The grant a nonce was spent with expires; the runtime seals the same nonce
\* into a new grant when it repeats the cancellation.
ExpireNonce(i) ==
    /\ i \in nonces
    /\ nonces' = nonces \ {i}
    /\ UNCHANGED <<files, receipts, loaded, status, lock, tasks, registered, queue, working,
                   runtime, history>>

\* A spent nonce is accepted only with the exact receipt, which is answered;
\* otherwise it is a replay, an earlier attempt that never wrote its receipt too.
Authorize(s) ==
    LET i == tasks[s].id IN
    /\ At(s, "cancel", "authorize")
    /\ IF tasks[s].verdict = "none" /\ NonceUnspent(i)
       THEN nonces' = nonces \cup {i} /\ Goto(s, "signal") /\ UNCHANGED cancelAnswers
       ELSE /\ IF tasks[s].verdict # "none" THEN AnswerCancel(i, tasks[s].verdict)
                                            ELSE UNCHANGED cancelAnswers
            /\ End(s)
            /\ UNCHANGED nonces
    /\ UNCHANGED <<files, receipts, loaded, status, lock, registered, queue, working, runtime,
                   runs, outcome, answers>>

\* Mutant: the receipt is answered for whoever is listed, nobody is signalled.
StatusWithoutSignal(s, i) == tasks

Signalling(s, i) == Signalled({registered[i]})

Signal(s) ==
    LET i == tasks[s].id
        verdict == IF registered[i] = None THEN "already_terminal" ELSE "signalled"
    IN
    /\ At(s, "cancel", "signal")
    /\ tasks' = IF ~loaded THEN [tasks EXCEPT ![s] = Idle]
                ELSE [Signalling(s, i) EXCEPT ![s].verdict = verdict, ![s].pc = "receipt"]
    /\ UNCHANGED <<files, cancels, loaded, status, lock, registered, queue, working, runtime, history>>

\* The receipt is kept in memory and in the file.  One that is already there,
\* of an attempt with an expired nonce, is replaced in memory only, and the
\* request refused.
WriteReceipt(s) ==
    LET i == tasks[s].id IN
    /\ At(s, "cancel", "receipt")
    /\ receipts' = [receipts EXCEPT ![i] = tasks[s].verdict]
    /\ IF receipts[i] = "none" THEN filed' = receipts' /\ AnswerCancel(i, tasks[s].verdict)
                               ELSE UNCHANGED <<filed, cancelAnswers>>
    /\ End(s)
    /\ UNCHANGED <<disk, nonces, loaded, status, lock, registered, queue, working, runtime,
                   runs, outcome, answers>>

\* The nonces or the receipts cannot be written: the nonce stays spent, the
\* receipt is taken back, though it may be in the file, and nothing is answered.
CancelFails(s) ==
    LET i == tasks[s].id IN
    /\ faults < MaxFaults /\ faults' = faults + 1
    /\ \/ /\ At(s, "cancel", "authorize") /\ tasks[s].verdict = "none" /\ NonceUnspent(i)
          /\ nonces' = nonces \cup {i} /\ UNCHANGED filed
       \/ /\ At(s, "cancel", "receipt") /\ receipts[i] = "none"
          /\ filed' \in {filed, [receipts EXCEPT ![i] = tasks[s].verdict]} /\ UNCHANGED nonces
    /\ End(s)
    /\ UNCHANGED <<disk, receipts, loaded, status, lock, registered, queue, working,
                   canonical, sent, frames, history>>

----------------------------------------------------------------------------
(* The host process.                                                       *)

\* The file being written when the process dies: the old generation, the new
\* one, or the new one cut short.  A load rewrites the file it has read.
Crash ==
    /\ faults < MaxFaults /\ faults' = faults + 1
    /\ disk' \in {disk} \cup (IF lock = None THEN {} ELSE {tasks[lock].buf, Torn})
                        \cup (IF loaded THEN {} ELSE {Torn})
    /\ loaded' = FALSE /\ lock' = None /\ receipts' = filed
    /\ tasks' = [s \in Permits |-> Idle]
    /\ registered' = [i \in DOMAIN registered |-> None]
    /\ queue' = <<>> /\ working' = None
    /\ UNCHANGED <<filed, nonces, status, canonical, sent, frames, history>>

LoadedStatus == disk.life

\* The runtime activates the plugin before it uses it.
Load ==
    /\ ~loaded /\ disk # Torn
    /\ loaded' = TRUE /\ status' = LoadedStatus
    /\ UNCHANGED <<files, cancels, lock, tasks, registered, queue, working, runtime, history>>

\* Nothing is left to do once every frame is answered and the worker rests.
Quiescent ==
    /\ \A s \in Permits : tasks[s] = Idle
    /\ queue = <<>> /\ working = None
    /\ UNCHANGED vars

Step(s) ==
    \/ Persist(s) \/ PersistFails(s) \/ StoreCorrupt(s)
    \/ Admit(s) \/ Register(s) \/ Recheck(s) \/ Unregister(s)
    \/ WorkerAnswers(s) \/ WorkerFails(s) \/ Retry(s)
    \/ Begin(s) \/ Send(s) \/ Await(s) \/ Finish(s)
    \/ CompareAndSwap(s) \/ ReadState(s) \/ Preempted(s)
    \/ CheckStatus(s) \/ Change(s) \/ SetStatus(s) \/ Preempt(s)
    \/ FindReceipt(s) \/ Authorize(s) \/ Signal(s) \/ WriteReceipt(s) \/ CancelFails(s)

Next ==
    \/ \E s \in Permits :
        \/ SendObserve(s) \/ SendInvoke(s) \/ SendWrite(s) \/ SendRead(s)
        \/ SendCancel(s) \/ SendLifecycle(s)
        \/ Step(s)
    \/ ObserverStarts \/ ObserverEnds
    \/ \E i \in Invocations : ExpireNonce(i)
    \/ Crash \/ Load
    \/ Quiescent

Spec == Init /\ [][Next]_vars

----------------------------------------------------------------------------
(* Properties.                                                             *)

Document == [life : LifeStates, receipt : Nat, obs : [Deliveries -> ObsStatus],
             node : Writes \cup {None}, gen : Nat, reads : SUBSET Reads]

ASSUME TornAssumption == Torn \notin Document

\* Type invariant of the host; the observer channel never holds more than
\* observer_queue_capacity deliveries (the mpsc channel made by load).
TypeOK ==
    /\ disk \in Document \cup {Torn}
    /\ nonces \subseteq Invocations
    /\ receipts \in [Invocations -> {"none", "signalled", "already_terminal"}]
    /\ filed \in [Invocations -> {"none", "signalled", "already_terminal"}]
    /\ loaded \in BOOLEAN /\ status \in LifeStates /\ lock \in Permits \cup {None}
    /\ \A s \in Permits :
        /\ tasks[s].op \in {"none", "observe", "invoke", "write", "read", "cancel", "lifecycle"}
        /\ tasks[s].attempt \in 0..MaxAttempts /\ tasks[s].number \in Nat
        /\ tasks[s].buf \in Document \cup {Torn}
    /\ registered \in [Invocations \cup Writes \cup Reads -> Permits \cup {None, Orphan}]
    /\ queue \in Seq(Deliveries) /\ Len(queue) <= QueueCapacity
    /\ working \in Deliveries \cup {None}
    /\ canonical.state \in LifeStates \cup {"none", "pending"}
    /\ sent \subseteq Invocations

\* However often a delivery is sent, timed out, or cut off by a crash, its
\* worker is started at most once (begin_observer_delivery claims it first).
ObservedOnce == \A d \in Deliveries : runs[d] <= 1

\* A sealed receipt is true: "completed" only if the worker ended well,
\* "rejected" only if it never ran and is not queued to run
\* (observe: queue acceptance is never treated as completion).
ObserverReceiptTrue ==
    disk # Torn => \A d \in Deliveries :
        /\ disk.obs[d] = "completed" => outcome[d] = "ok"
        /\ disk.obs[d] = "rejected" =>
            runs[d] = 0 /\ \A n \in DOMAIN queue : queue[n] # d

\* Whoever asks again is told the same: all answers to a delivery, the late one
\* of a request whose retry was answered first too, are the status the state
\* file holds (begin_observer_delivery and finish_observer_delivery).
AnswersAgree ==
    \A d \in Deliveries :
        /\ Cardinality(answers[d]) <= 1
        /\ disk # Torn => answers[d] \subseteq {disk.obs[d]}

\* Whoever was told that an invocation was signalled can rely on it: it does not
\* run on with a live token, whichever attempt wrote the receipt, replaced it
\* after a nonce expired, or answered from it after a restart (cancel_invocation).
SignalledIsCancelled ==
    \A i \in Invocations : "signalled" \in cancelAnswers[i] =>
        \A s \in Permits : tasks[s].op = "invoke" /\ tasks[s].id = i => tasks[s].cancelled

\* Rewriting the whole document loses nobody's update: a receipt stays
\* sealed, the lifecycle is changed by a lifecycle request alone and from the
\* state that request may leave, and a node state gives way only to a write that
\* names it as its predecessor.
StateUpdatesKept ==
    [][disk # Torn /\ disk' # Torn =>
        /\ \A d \in Deliveries :
            /\ disk.obs[d] \in Terminal => disk'.obs[d] = disk.obs[d]
            /\ disk.obs[d] # "absent" => disk'.obs[d] # "absent"
        /\ disk.reads \subseteq disk'.reads
        /\ disk'.life # disk.life \/ disk'.receipt # disk.receipt =>
            \E s \in Permits :
                /\ tasks[s].op = "lifecycle" /\ disk'.receipt = tasks[s].number
                /\ disk.life = Source(tasks[s].id) /\ disk'.life = Target(tasks[s].id)
        /\ disk'.node # disk.node => Prior[disk'.node] = disk.node /\ disk'.gen = disk.gen + 1
      ]_vars

\* While the host holds the plugin disabled or quarantined, and the request that
\* did it has been through the running invocations, every node invocation that
\* still runs holds a cancelled token (disable, quarantine and the second status
\* check of invoke_worker).
InactivePreempts ==
    status # "active" /\ (\A s \in Permits : ~At(s, "lifecycle", "preempt")) =>
        \A s \in Permits :
            tasks[s].op = "invoke" /\ tasks[s].pc \in {"running", "backoff"} => tasks[s].cancelled

\* The lifecycle state the runtime has journalled as settled is the one of the
\* state file and of the host's memory: the same change sent again is answered
\* from its receipt and changes nothing (docs/guides/creating-a-plugin.md).
LifecycleAgrees ==
    canonical.state \in LifeStates /\ disk # Torn =>
        /\ disk.life = canonical.state
        /\ loaded => status = canonical.state
=============================================================================
