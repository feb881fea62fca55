-------------------------- MODULE PluginHostProofs --------------------------
(***************************************************************************)
(* What the plugin host promises, for any number of request slots,         *)
(* deliveries, invocations and state operations, any queue capacity, and   *)
(* any number of frames, crashes and failed writes.                        *)
(*                                                                         *)
(* The argument.  A task that holds state_writes holds the only document   *)
(* that may replace the state file, and it differs from the file by one    *)
(* legal update.  The claim of a delivery is in the file before the        *)
(* delivery is queued, and an invocation is registered before it looks at  *)
(* the status a second time; so of all tasks about one identity at most    *)
(* one is past that point, and what the others find tells them so.  On top *)
(* of that, the map lists whoever works on an invocation, so a preemption  *)
(* or a signal reaches it, and a token once cancelled stays cancelled.     *)
(***************************************************************************)
EXTENDS PluginHost, FiniteSetTheorems, TLAPS

Operations == {"none", "observe", "invoke", "write", "read", "cancel", "lifecycle"}
Places == {"idle", "entry", "begin", "beginning", "send", "waiting", "finish", "finishing",
           "register", "recheck", "running", "backoff", "unregister", "locked", "swapping", "noting",
           "change", "changing", "status", "preempt", "authorize", "signal", "receipt"}
Verdicts == {"none", "signalled", "already_terminal"} \cup Terminal
WritingPlaces == {"beginning", "finishing", "swapping", "noting", "changing"}

Tasks ==
    [op : Operations, id : Deliveries \cup Invocations \cup Writes \cup Reads \cup Actions \cup {None},
     pc : Places, attempt : 0..MaxAttempts, number : Nat, cancelled : BOOLEAN, verdict : Verdicts,
     buf : Document \cup {Torn}]

-----------------------------------------------------------------------------
(***************************************************************************)
(* The files, the channel and the runtime's record                         *)
(***************************************************************************)
FileTypes ==
    /\ disk \in Document \cup {Torn}
    /\ nonces \subseteq Invocations
    /\ receipts \in [Invocations -> {"none", "signalled", "already_terminal"}]
    /\ filed \in [Invocations -> {"none", "signalled", "already_terminal"}]
    /\ loaded \in BOOLEAN /\ status \in LifeStates /\ lock \in Permits \cup {None}
    /\ registered \in [Invocations \cup Writes \cup Reads -> Permits \cup {None, Orphan}]
    /\ queue \in Seq(Deliveries) /\ Len(queue) <= QueueCapacity
    /\ working \in Deliveries \cup {None}
    /\ canonical \in [state : LifeStates \cup {"none", "pending"}, action : Actions \cup {"none"}, number : Nat]
    /\ sent \subseteq Invocations
    /\ runs \in [Deliveries -> Nat] /\ outcome \in [Deliveries -> {"none", "ok", "error"}]
    /\ answers \in [Deliveries -> SUBSET ObsStatus]
    /\ cancelAnswers \in [Invocations -> SUBSET {"signalled", "already_terminal"}]

Types == FileTypes /\ tasks \in [Permits -> Tasks]

\* The state file will never again let the delivery be queued.
Claimed(d) == disk = Torn \/ disk.obs[d] # "absent"

Queued(d) == \E n \in DOMAIN queue : queue[n] = d

DeliveryOK(d) ==
    /\ runs[d] \in {0, 1}
    /\ runs[d] = 0 => outcome[d] = "none" /\ working # d
    /\ working = d => outcome[d] = "none"
    /\ Queued(d) => runs[d] = 0 /\ Claimed(d)
    /\ runs[d] = 1 => Claimed(d)
    /\ disk # Torn =>
          /\ disk.obs[d] = "completed" => outcome[d] = "ok"
          /\ disk.obs[d] = "rejected" => runs[d] = 0 /\ ~Queued(d)
          /\ answers[d] \subseteq {disk.obs[d]}
          /\ answers[d] # {} => disk.obs[d] \in Terminal
    /\ \E x \in ObsStatus : answers[d] \subseteq {x}

QueueOnce == \A m, n \in DOMAIN queue : queue[m] = queue[n] => m = n

Globals ==
    /\ \A d \in Deliveries : DeliveryOK(d)
    /\ QueueOnce

-----------------------------------------------------------------------------
(***************************************************************************)
(* What the task t of a slot s rests on                                    *)
(***************************************************************************)
Local(t) ==
    /\ t.op = "none" => t.pc = "idle"
    /\ t.op = "observe" => /\ t.id \in Deliveries
                           /\ t.pc \in {"entry", "begin", "beginning", "send", "waiting", "finish", "finishing"}
    /\ t.op = "invoke" => /\ t.id \in Invocations
                          /\ t.pc \in {"entry", "register", "recheck", "running", "backoff", "unregister"}
    /\ t.op = "write" => /\ t.id \in Writes
                         /\ t.pc \in {"entry", "register", "recheck", "locked", "swapping", "unregister"}
    /\ t.op = "read" => /\ t.id \in Reads
                        /\ t.pc \in {"entry", "register", "recheck", "locked", "noting", "unregister"}
    /\ t.op = "cancel" => t.id \in Invocations /\ t.pc \in {"entry", "authorize", "signal", "receipt"}
    /\ t.op = "lifecycle" => /\ t.id \in Actions
                             /\ t.pc \in {"entry", "change", "changing", "status", "preempt"}
    /\ t.pc = "backoff" => t.attempt < MaxAttempts

\* The document held differs from the state file by one update.
Edit(t) ==
    LET b == t.buf
    IN  /\ t.pc # "changing" => b.life = disk.life /\ b.receipt = disk.receipt
        /\ t.pc # "swapping" => b.node = disk.node /\ b.gen = disk.gen
        /\ t.pc # "noting" => b.reads = disk.reads
        /\ t.pc \notin {"beginning", "finishing"} => b.obs = disk.obs
        /\ t.pc \in {"beginning", "finishing"} =>
              \A d \in Deliveries : d # t.id => b.obs[d] = disk.obs[d]
        /\ t.pc = "beginning" => \/ disk.obs[t.id] = "absent" /\ b.obs[t.id] = "pending"
                                 \/ disk.obs[t.id] = "pending" /\ b.obs[t.id] = "ambiguous"
        /\ t.pc = "finishing" => disk.obs[t.id] \notin Terminal /\ b.obs[t.id] = t.verdict
        /\ t.pc = "swapping" => b.node = t.id /\ disk.node = Prior[t.id] /\ b.gen = disk.gen + 1
        /\ t.pc = "noting" => disk.reads \subseteq b.reads
        /\ t.pc = "changing" =>
              /\ b.life = Target(t.id) /\ disk.life = Source(t.id)
              /\ b.receipt = t.number

Holding(s, t) ==
    /\ t.pc \in WritingPlaces <=> lock = s
    /\ lock = s => disk # Torn /\ t.buf \in Document /\ Edit(t)

Observing(t) ==
    t.op = "observe" =>
        /\ t.pc \in {"send", "waiting", "finish", "finishing"} => Claimed(t.id)
        /\ t.pc = "send" => /\ runs[t.id] = 0 /\ ~Queued(t.id)
                            /\ disk # Torn => disk.obs[t.id] # "rejected"
        /\ t.pc \in {"finish", "finishing"} =>
              /\ t.verdict \in Terminal
              /\ t.verdict = "completed" => outcome[t.id] = "ok"
              /\ t.verdict = "rejected" => runs[t.id] = 0 /\ ~Queued(t.id)

Invoking(s, t) ==
    t.op = "invoke" =>
        /\ t.id \in sent
        /\ t.pc # "entry" => loaded
        /\ t.pc \in {"recheck", "running", "backoff", "unregister"} => registered[t.id] = s

Cancelling(t) ==
    t.op = "cancel" =>
        /\ t.id \in sent
        /\ t.pc = "authorize" => t.verdict \in {"none", "signalled", "already_terminal"}
        /\ t.pc = "receipt" => t.verdict \in {"signalled", "already_terminal"}

SlotOK(s, t) ==
    Local(t) /\ Holding(s, t) /\ Observing(t) /\ Invoking(s, t) /\ Cancelling(t)

\* Two tasks about one identity are not both past the point that decides.
Apart(t, u) ==
    /\ ~(t.op = "invoke" /\ u.op = "invoke" /\ t.id = u.id)
    /\ ~(t.op = "observe" /\ u.op = "observe" /\ t.id = u.id /\ t.pc = "send"
           /\ (u.pc = "send" \/ (u.pc \in {"finish", "finishing"} /\ u.verdict = "rejected")))

Slots ==
    /\ \A s \in Permits : SlotOK(s, tasks[s])
    /\ \A s, x \in Permits : s # x => Apart(tasks[s], tasks[x])

IInv == Types /\ Globals /\ Slots

-----------------------------------------------------------------------------
(***************************************************************************)
(* Steps of one slot                                                       *)
(***************************************************************************)
LEMMA IdleTask ==
    /\ Idle \in Tasks
    /\ Idle.op = "none" /\ Idle.id = None /\ Idle.pc = "idle" /\ Idle.attempt = 0 /\ Idle.number = 0
    /\ Idle.cancelled = FALSE /\ Idle.verdict = "none" /\ Idle.buf = Torn
  BY HostAssumption DEF Idle, Tasks, Operations, Places, Verdicts

MovedTo(t, p) == [t EXCEPT !.pc = p, !.buf = Torn]

LEMMA Moved ==
    ASSUME NEW t \in Tasks, NEW p \in Places
    PROVE  \E u \in Tasks :
              /\ u = MovedTo(t, p)
              /\ u.op = t.op /\ u.id = t.id /\ u.pc = p /\ u.attempt = t.attempt
              /\ u.number = t.number /\ u.cancelled = t.cancelled /\ u.verdict = t.verdict /\ u.buf = Torn
<1> DEFINE u == MovedTo(t, p)
<1>1. u \in Tasks
  BY DEF Tasks, MovedTo
<1>2. /\ u.op = t.op /\ u.id = t.id /\ u.pc = p /\ u.attempt = t.attempt
      /\ u.number = t.number /\ u.cancelled = t.cancelled /\ u.verdict = t.verdict /\ u.buf = Torn
  BY DEF Tasks, MovedTo
<1>3. u = MovedTo(t, p)
  OBVIOUS
<1> HIDE DEF u
<1> QED
  BY <1>1, <1>2, <1>3

HoldingAt(t, doc, p) == [t EXCEPT !.buf = doc, !.pc = p]

LEMMA Held ==
    ASSUME NEW t \in Tasks, NEW p \in Places, NEW doc \in Document
    PROVE  \E u \in Tasks :
              /\ u = HoldingAt(t, doc, p)
              /\ u.op = t.op /\ u.id = t.id /\ u.pc = p /\ u.attempt = t.attempt
              /\ u.number = t.number /\ u.cancelled = t.cancelled /\ u.verdict = t.verdict /\ u.buf = doc
<1> DEFINE u == HoldingAt(t, doc, p)
<1>1. u \in Tasks
  BY DEF Tasks, HoldingAt
<1>2. /\ u.op = t.op /\ u.id = t.id /\ u.pc = p /\ u.attempt = t.attempt
      /\ u.number = t.number /\ u.cancelled = t.cancelled /\ u.verdict = t.verdict /\ u.buf = doc
  BY DEF Tasks, HoldingAt
<1>3. u = HoldingAt(t, doc, p)
  OBVIOUS
<1> HIDE DEF u
<1> QED
  BY <1>1, <1>2, <1>3

JudgedAt(t, v, p) == [t EXCEPT !.verdict = v, !.pc = p]

LEMMA Judged ==
    ASSUME NEW t \in Tasks, NEW p \in Places, NEW v \in Verdicts
    PROVE  \E u \in Tasks :
              /\ u = JudgedAt(t, v, p)
              /\ u.op = t.op /\ u.id = t.id /\ u.pc = p /\ u.attempt = t.attempt
              /\ u.number = t.number /\ u.cancelled = t.cancelled /\ u.verdict = v /\ u.buf = t.buf
<1> DEFINE u == JudgedAt(t, v, p)
<1>1. u \in Tasks
  BY DEF Tasks, JudgedAt
<1>2. /\ u.op = t.op /\ u.id = t.id /\ u.pc = p /\ u.attempt = t.attempt
      /\ u.number = t.number /\ u.cancelled = t.cancelled /\ u.verdict = v /\ u.buf = t.buf
  BY DEF Tasks, JudgedAt
<1>3. u = JudgedAt(t, v, p)
  OBVIOUS
<1> HIDE DEF u
<1> QED
  BY <1>1, <1>2, <1>3

AttemptAt(t, a, p) == [t EXCEPT !.attempt = a, !.pc = p]

LEMMA Attempted ==
    ASSUME NEW t \in Tasks, NEW p \in Places, NEW a \in 0..MaxAttempts
    PROVE  \E u \in Tasks :
              /\ u = AttemptAt(t, a, p)
              /\ u.op = t.op /\ u.id = t.id /\ u.pc = p /\ u.attempt = a
              /\ u.number = t.number /\ u.cancelled = t.cancelled /\ u.verdict = t.verdict /\ u.buf = t.buf
<1> DEFINE u == AttemptAt(t, a, p)
<1>1. u \in Tasks
  BY DEF Tasks, AttemptAt
<1>2. /\ u.op = t.op /\ u.id = t.id /\ u.pc = p /\ u.attempt = a
      /\ u.number = t.number /\ u.cancelled = t.cancelled /\ u.verdict = t.verdict /\ u.buf = t.buf
  BY DEF Tasks, AttemptAt
<1>3. u = AttemptAt(t, a, p)
  OBVIOUS
<1> HIDE DEF u
<1> QED
  BY <1>1, <1>2, <1>3

\* A task about nothing is an idle one.
LEMMA NobodyHere ==
    ASSUME NEW t \in Tasks, Local(t)
    PROVE  t.pc # "idle" => t.op # "none"
  BY DEF Local

LEMMA IdleApart ==
    ASSUME NEW y \in Tasks
    PROVE  Apart(Idle, y) /\ Apart(y, Idle)
  BY IdleTask DEF Apart

\* A task stays apart from the others unless it enters a deciding place.
LEMMA StaysApart ==
    ASSUME NEW t \in Tasks, NEW u \in Tasks, NEW y \in Tasks, Apart(t, y), Apart(y, t),
           u.op = t.op, u.id = t.id,
           \/ u.pc \notin {"send", "finish", "finishing"}
           \/ u.pc = t.pc /\ u.verdict = t.verdict
           \/ u.pc = "finish" /\ u.verdict # "rejected"
           \/ u.pc = "finishing" /\ t.pc = "finish" /\ u.verdict = t.verdict
    PROVE  Apart(u, y) /\ Apart(y, u)
  BY DEF Apart

LEMMA OneSlot ==
    ASSUME IInv, NEW s \in Permits, NEW u \in Tasks,
           tasks' = [tasks EXCEPT ![s] = u],
           FileTypes', Globals', SlotOK(s, u)',
           \A x \in Permits, y \in Tasks :
              x # s /\ y = tasks[x] => SlotOK(x, y)' /\ Apart(u, y) /\ Apart(y, u)
    PROVE  IInv'
<1>1. tasks \in [Permits -> Tasks]
  BY DEF IInv, Types
<1>2. /\ tasks' \in [Permits -> Tasks]
      /\ tasks'[s] = u
      /\ \A x \in Permits : x # s => tasks'[x] = tasks[x]
  BY <1>1
<1>3. ASSUME NEW x \in Permits
      PROVE  SlotOK(x, tasks[x])'
  <2>1. CASE x = s
    BY <1>2, <2>1 DEF SlotOK, Local, Holding, Edit, Observing, Invoking, Cancelling
  <2>2. CASE x # s
    <3> PICK y \in Tasks : y = tasks[x]
      BY <1>1
    <3>1. SlotOK(x, y)' /\ y = tasks'[x]
      BY <1>2, <2>2
    <3> QED
      BY <3>1 DEF SlotOK, Local, Holding, Edit, Observing, Invoking, Cancelling
  <2> QED
    BY <2>1, <2>2
<1>4. ASSUME NEW x \in Permits, NEW z \in Permits, x # z
      PROVE  Apart(tasks'[x], tasks'[z])
  <2>1. Apart(tasks[x], tasks[z])
    BY <1>4 DEF IInv, Slots
  <2>2. CASE x = s
    BY <1>1, <1>2, <1>4, <2>2
  <2>3. CASE z = s
    BY <1>1, <1>2, <1>4, <2>3
  <2>4. CASE x # s /\ z # s
    BY <1>2, <2>1, <2>4
  <2> QED
    BY <2>2, <2>3, <2>4
<1>5. Slots'
  BY <1>3, <1>4 DEF Slots, Apart
<1> QED
  BY <1>2, <1>5 DEF IInv, Types

Rest == <<disk, filed, nonces, receipts, loaded, status, lock, registered, queue, working, canonical,
          sent, runs, outcome, answers, cancelAnswers>>

\* What the invariant says of a slot and of the slots around it.
LEMMA Here ==
    ASSUME IInv, NEW s \in Permits
    PROVE  \E t \in Tasks :
              /\ t = tasks[s] /\ SlotOK(s, t)
              /\ \A x \in Permits, y \in Tasks :
                    x # s /\ y = tasks[x] => SlotOK(x, y) /\ Apart(t, y) /\ Apart(y, t)
<1>1. tasks \in [Permits -> Tasks]
  BY DEF IInv, Types
<1>2. \A x \in Permits : SlotOK(x, tasks[x])
  BY DEF IInv, Slots
<1>3. \A x, z \in Permits : x # z => Apart(tasks[x], tasks[z])
  BY DEF IInv, Slots
<1> QED
  BY <1>1, <1>2, <1>3

LEMMA SlotFrame ==
    ASSUME NEW x \in Permits, NEW y \in Tasks, SlotOK(x, y), UNCHANGED Rest
    PROVE  SlotOK(x, y)'
<1>1. UNCHANGED <<disk, filed, nonces, receipts, loaded, status, lock, registered, queue, canonical,
                  sent, runs, outcome>>
  BY DEF Rest
<1>2. Holding(x, y)'
  BY <1>1 DEF SlotOK, Holding, Edit
<1>3. Observing(y)'
  BY <1>1 DEF SlotOK, Observing, Queued, Claimed
<1>4. Invoking(x, y)' /\ Cancelling(y)'
  BY <1>1 DEF SlotOK, Invoking, Cancelling
<1> QED
  BY <1>2, <1>3, <1>4 DEF SlotOK, Local

LEMMA GlobalFrame ==
    ASSUME IInv, UNCHANGED Rest
    PROVE  FileTypes' /\ Globals'
<1>1. UNCHANGED <<disk, filed, nonces, receipts, loaded, status, lock, registered, queue, working, canonical,
                  sent, runs, outcome, answers, cancelAnswers>>
  BY DEF Rest
<1>2. FileTypes'
  BY <1>1 DEF IInv, Types, FileTypes
<1>3. Globals'
  BY <1>1 DEF IInv, Globals, DeliveryOK, Claimed, Queued, QueueOnce
<1> QED
  BY <1>2, <1>3

\* A step that changes nothing but the task of its slot.
LEMMA Quiet ==
    ASSUME IInv, NEW s \in Permits, NEW u \in Tasks, UNCHANGED Rest,
           tasks' = [tasks EXCEPT ![s] = u], SlotOK(s, u),
           \A x \in Permits, y \in Tasks : x # s /\ y = tasks[x] => Apart(u, y) /\ Apart(y, u)
    PROVE  IInv'
<1>1. SlotOK(s, u)'
  BY SlotFrame
<1>2. ASSUME NEW x \in Permits, NEW y \in Tasks, x # s, y = tasks[x]
      PROVE  SlotOK(x, y)'
  <2>1. SlotOK(x, y)
    BY <1>2 DEF IInv, Slots
  <2> QED
    BY <2>1, SlotFrame
<1>3. FileTypes' /\ Globals'
  BY GlobalFrame
<1> QED
  BY <1>1, <1>2, <1>3, OneSlot

LEMMA IdleFits ==
    ASSUME NEW s \in Permits, lock # s
    PROVE  SlotOK(s, Idle)
  BY IdleTask DEF SlotOK, Local, Holding, Observing, Invoking, Cancelling, WritingPlaces

\* The task ends without having written.
LEMMA QuietEnd ==
    ASSUME IInv, NEW s \in Permits, UNCHANGED Rest, End(s), tasks[s].pc \notin WritingPlaces
    PROVE  IInv'
<1>1. lock # s
  BY Here DEF SlotOK, Holding
<1>2. SlotOK(s, Idle)
  BY <1>1, IdleFits
<1>3. tasks' = [tasks EXCEPT ![s] = Idle]
  BY DEF End, Become
<1> QED
  BY <1>2, <1>3, IdleTask, IdleApart, Quiet

\* The task moves on, away from the places that decide.
LEMMA QuietMove ==
    ASSUME IInv, NEW s \in Permits, NEW u \in Tasks, UNCHANGED Rest,
           tasks' = [tasks EXCEPT ![s] = u], SlotOK(s, u),
           u.op = tasks[s].op, u.id = tasks[s].id,
           \/ u.pc \notin {"send", "finish", "finishing"}
           \/ u.pc = "finish" /\ u.verdict # "rejected"
    PROVE  IInv'
<1> PICK t \in Tasks :
              /\ t = tasks[s] /\ SlotOK(s, t)
              /\ \A x \in Permits, y \in Tasks :
                    x # s /\ y = tasks[x] => SlotOK(x, y) /\ Apart(t, y) /\ Apart(y, t)
  BY Here
<1>1. \A x \in Permits, y \in Tasks : x # s /\ y = tasks[x] => Apart(u, y) /\ Apart(y, u)
  BY StaysApart
<1> QED
  BY <1>1, Quiet

-----------------------------------------------------------------------------
(***************************************************************************)
(* Steps that read the shared state and change only their own task         *)
(***************************************************************************)
LEMMA WorkerAnswersStep ==
    ASSUME IInv, NEW s \in Permits, WorkerAnswers(s)
    PROVE  IInv'
<1> PICK t \in Tasks :
              /\ t = tasks[s] /\ SlotOK(s, t)
              /\ \A x \in Permits, y \in Tasks :
                    x # s /\ y = tasks[x] => SlotOK(x, y) /\ Apart(t, y) /\ Apart(y, t)
  BY Here
<1>r. UNCHANGED Rest
  BY DEF WorkerAnswers, Rest, files, cancels, runtime, history
<1>p. "unregister" \in Places
  BY DEF Places, Verdicts, Terminal
<1> PICK u \in Tasks :
              /\ u = MovedTo(t, "unregister")
              /\ u.op = t.op /\ u.id = t.id /\ u.pc = "unregister" /\ u.attempt = t.attempt
              /\ u.number = t.number /\ u.cancelled = t.cancelled /\ u.verdict = t.verdict /\ u.buf = Torn
  BY Moved, <1>p
<1>2. tasks' = [tasks EXCEPT ![s] = u]
  BY DEF WorkerAnswers, Goto, Become, MovedTo
<1>3. SlotOK(s, u)
  BY DEF WorkerAnswers, At, SlotOK, Local, Holding, Observing, Invoking, Cancelling, WritingPlaces
<1> QED
  BY <1>r, <1>2, <1>3, QuietMove

LEMMA WorkerFailsStep ==
    ASSUME IInv, NEW s \in Permits, WorkerFails(s)
    PROVE  IInv'
<1> PICK t \in Tasks :
              /\ t = tasks[s] /\ SlotOK(s, t)
              /\ \A x \in Permits, y \in Tasks :
                    x # s /\ y = tasks[x] => SlotOK(x, y) /\ Apart(t, y) /\ Apart(y, t)
  BY Here
<1>r. UNCHANGED Rest
  BY DEF WorkerFails, Rest, files, cancels, runtime, history
<1> PICK p \in {"unregister", "backoff"} :
              /\ Goto(s, p)
              /\ p = "backoff" => ~(t.attempt >= MaxAttempts)
  BY DEF WorkerFails
<1>1. t.attempt \in Nat /\ MaxAttempts \in Nat
  BY HostAssumption DEF Tasks
<1>p. p \in Places
  BY DEF Places, Verdicts, Terminal
<1> PICK u \in Tasks :
              /\ u = MovedTo(t, p)
              /\ u.op = t.op /\ u.id = t.id /\ u.pc = p /\ u.attempt = t.attempt
              /\ u.number = t.number /\ u.cancelled = t.cancelled /\ u.verdict = t.verdict /\ u.buf = Torn
  BY Moved, <1>p
<1>2. tasks' = [tasks EXCEPT ![s] = u]
  BY DEF Goto, Become, MovedTo
<1>3. SlotOK(s, u)
  BY <1>1 DEF WorkerFails, At, SlotOK, Local, Holding, Observing, Invoking, Cancelling, WritingPlaces
<1> QED
  BY <1>r, <1>2, <1>3, QuietMove

LEMMA RetryStep ==
    ASSUME IInv, NEW s \in Permits, Retry(s)
    PROVE  IInv'
<1> PICK t \in Tasks :
              /\ t = tasks[s] /\ SlotOK(s, t)
              /\ \A x \in Permits, y \in Tasks :
                    x # s /\ y = tasks[x] => SlotOK(x, y) /\ Apart(t, y) /\ Apart(y, t)
  BY Here
<1>r. UNCHANGED Rest
  BY DEF Retry, Rest, files, cancels, runtime, history
<1>1. t.attempt + 1 \in 0..MaxAttempts
  <2>1. t.attempt \in 0..MaxAttempts /\ MaxAttempts \in Nat
    BY HostAssumption DEF Tasks
  <2>2. t.attempt < MaxAttempts
    BY DEF Retry, At, SlotOK, Local
  <2> QED
    BY <2>1, <2>2
<1>p. "running" \in Places /\ t.attempt + 1 \in 0..MaxAttempts
  BY <1>1 DEF Places, Verdicts, Terminal
<1> PICK u \in Tasks :
              /\ u = AttemptAt(t, t.attempt + 1, "running")
              /\ u.op = t.op /\ u.id = t.id /\ u.pc = "running" /\ u.attempt = t.attempt + 1
              /\ u.cancelled = t.cancelled /\ u.verdict = t.verdict /\ u.buf = t.buf
  BY Attempted, <1>p
<1>2. tasks' = [tasks EXCEPT ![s] = u]
  BY DEF Retry, Become, AttemptAt
<1>3. SlotOK(s, u)
  BY DEF Retry, At, SlotOK, Local, Holding, Observing, Invoking, Cancelling, WritingPlaces
<1> QED
  BY <1>r, <1>2, <1>3, QuietMove

LEMMA StoreCorruptStep ==
    ASSUME IInv, NEW s \in Permits, StoreCorrupt(s)
    PROVE  IInv'
<1> PICK t \in Tasks :
              /\ t = tasks[s] /\ SlotOK(s, t)
              /\ \A x \in Permits, y \in Tasks :
                    x # s /\ y = tasks[x] => SlotOK(x, y) /\ Apart(t, y) /\ Apart(y, t)
  BY Here
<1>r. UNCHANGED Rest
  BY DEF StoreCorrupt, Rest, files, cancels, runtime, history
<1>1. t.pc \notin WritingPlaces
  BY DEF StoreCorrupt, WritingPlaces
<1>2. CASE t.op \in {"write", "read"}
  <2>p. "unregister" \in Places
    BY DEF Places, Verdicts, Terminal
  <2> PICK u \in Tasks :
              /\ u = MovedTo(t, "unregister")
              /\ u.op = t.op /\ u.id = t.id /\ u.pc = "unregister" /\ u.attempt = t.attempt
              /\ u.number = t.number /\ u.cancelled = t.cancelled /\ u.verdict = t.verdict /\ u.buf = Torn
    BY Moved, <2>p
  <2>2. tasks' = [tasks EXCEPT ![s] = u]
    BY <1>2 DEF StoreCorrupt, Fail, Goto, Become, MovedTo
  <2>3. SlotOK(s, u)
    BY <1>1, <1>2 DEF StoreCorrupt, SlotOK, Local, Holding, Observing, Invoking, Cancelling, WritingPlaces
  <2> QED
    BY <1>r, <2>2, <2>3, QuietMove
<1>3. CASE t.op \notin {"write", "read"}
  BY <1>r, <1>1, <1>3, QuietEnd DEF StoreCorrupt, Fail
<1> QED
  BY <1>2, <1>3

LEMMA AdmitStep ==
    ASSUME IInv, NEW s \in Permits, Admit(s)
    PROVE  IInv'
<1> PICK t \in Tasks :
              /\ t = tasks[s] /\ SlotOK(s, t)
              /\ \A x \in Permits, y \in Tasks :
                    x # s /\ y = tasks[x] => SlotOK(x, y) /\ Apart(t, y) /\ Apart(y, t)
  BY Here
<1>r. UNCHANGED Rest
  BY DEF Admit, Rest, files, cancels, runtime, history
<1>1. CASE Active
  <2> PICK p \in {"begin", "register"} :
              /\ Goto(s, p)
              /\ p = "begin" <=> t.op = "observe"
    BY <1>1 DEF Admit
  <2>p. p \in Places
    BY DEF Places, Verdicts, Terminal
  <2> PICK u \in Tasks :
              /\ u = MovedTo(t, p)
              /\ u.op = t.op /\ u.id = t.id /\ u.pc = p /\ u.attempt = t.attempt
              /\ u.number = t.number /\ u.cancelled = t.cancelled /\ u.verdict = t.verdict /\ u.buf = Torn
    BY Moved, <2>p
  <2>2. tasks' = [tasks EXCEPT ![s] = u]
    BY DEF Goto, Become, MovedTo
  <2>3. SlotOK(s, u)
    BY <1>1 DEF Admit, Active, SlotOK, Local, Holding, Observing, Invoking, Cancelling, WritingPlaces
  <2> QED
    BY <1>r, <2>2, <2>3, QuietMove
<1>2. CASE ~Active
  BY <1>r, <1>2, QuietEnd DEF Admit, WritingPlaces
<1> QED
  BY <1>1, <1>2

LEMMA AwaitStep ==
    ASSUME IInv, NEW s \in Permits, Await(s)
    PROVE  IInv'
<1> PICK t \in Tasks :
              /\ t = tasks[s] /\ SlotOK(s, t)
              /\ \A x \in Permits, y \in Tasks :
                    x # s /\ y = tasks[x] => SlotOK(x, y) /\ Apart(t, y) /\ Apart(y, t)
  BY Here
<1>r. UNCHANGED Rest
  BY DEF Await, Rest, files, cancels, runtime, history
<1> PICK v \in {"completed", "ambiguous"} :
              /\ Become(s, [tasks[s] EXCEPT !.verdict = v, !.pc = "finish"])
              /\ v = "completed" => outcome[t.id] = "ok"
  BY DEF Await, Verdict
<1>p. "finish" \in Places /\ v \in Verdicts
  BY DEF Places, Verdicts, Terminal
<1> PICK u \in Tasks :
              /\ u = JudgedAt(t, v, "finish")
              /\ u.op = t.op /\ u.id = t.id /\ u.pc = "finish" /\ u.attempt = t.attempt
              /\ u.number = t.number /\ u.cancelled = t.cancelled /\ u.verdict = v /\ u.buf = t.buf
  BY Judged, <1>p
<1>2. tasks' = [tasks EXCEPT ![s] = u]
  BY DEF Become, JudgedAt
<1>3. SlotOK(s, u)
  BY DEF Await, At, Terminal, SlotOK, Local, Holding, Observing, Invoking, Cancelling, WritingPlaces
<1> QED
  BY <1>r, <1>2, <1>3, QuietMove

LEMMA CheckStatusStep ==
    ASSUME IInv, NEW s \in Permits, CheckStatus(s)
    PROVE  IInv'
<1> PICK t \in Tasks :
              /\ t = tasks[s] /\ SlotOK(s, t)
              /\ \A x \in Permits, y \in Tasks :
                    x # s /\ y = tasks[x] => SlotOK(x, y) /\ Apart(t, y) /\ Apart(y, t)
  BY Here
<1>r. UNCHANGED Rest
  BY DEF CheckStatus, Rest, files, cancels, runtime, history
<1>1. CASE Goto(s, "change")
  <2>p. "change" \in Places
    BY DEF Places, Verdicts, Terminal
  <2> PICK u \in Tasks :
              /\ u = MovedTo(t, "change")
              /\ u.op = t.op /\ u.id = t.id /\ u.pc = "change" /\ u.attempt = t.attempt
              /\ u.number = t.number /\ u.cancelled = t.cancelled /\ u.verdict = t.verdict /\ u.buf = Torn
    BY Moved, <2>p
  <2>2. tasks' = [tasks EXCEPT ![s] = u]
    BY <1>1 DEF Goto, Become, MovedTo
  <2>3. SlotOK(s, u)
    BY DEF CheckStatus, At, SlotOK, Local, Holding, Observing, Invoking, Cancelling, WritingPlaces
  <2> QED
    BY <1>r, <2>2, <2>3, QuietMove
<1>2. CASE End(s)
  BY <1>r, <1>2, QuietEnd DEF CheckStatus, At, WritingPlaces
<1> QED
  BY <1>1, <1>2 DEF CheckStatus

LEMMA FindReceiptStep ==
    ASSUME IInv, NEW s \in Permits, FindReceipt(s)
    PROVE  IInv'
<1> PICK t \in Tasks :
              /\ t = tasks[s] /\ SlotOK(s, t)
              /\ \A x \in Permits, y \in Tasks :
                    x # s /\ y = tasks[x] => SlotOK(x, y) /\ Apart(t, y) /\ Apart(y, t)
  BY Here
<1>r. UNCHANGED Rest
  BY DEF FindReceipt, Rest, files, cancels, runtime, history
<1>1. receipts[t.id] \in Verdicts
  BY DEF IInv, Types, FileTypes, FindReceipt, At, SlotOK, Local, Verdicts
<1>p. "authorize" \in Places /\ receipts[t.id] \in Verdicts
  BY <1>1 DEF Places, Verdicts, Terminal
<1> PICK u \in Tasks :
              /\ u = JudgedAt(t, receipts[t.id], "authorize")
              /\ u.op = t.op /\ u.id = t.id /\ u.pc = "authorize" /\ u.attempt = t.attempt
              /\ u.number = t.number /\ u.cancelled = t.cancelled /\ u.verdict = receipts[t.id] /\ u.buf = t.buf
  BY Judged, <1>p
<1>2. tasks' = [tasks EXCEPT ![s] = u]
  BY DEF FindReceipt, Become, JudgedAt
<1>q. receipts[t.id] \in {"none", "signalled", "already_terminal"}
  BY DEF IInv, Types, FileTypes, FindReceipt, At, SlotOK, Local
<1>3. SlotOK(s, u)
  BY <1>q DEF FindReceipt, At, SlotOK, Local, Holding, Observing, Invoking, Cancelling, WritingPlaces
<1> QED
  BY <1>r, <1>2, <1>3, QuietMove

-----------------------------------------------------------------------------
(***************************************************************************)
(* Steps that take state_writes, or find that they need not                *)
(***************************************************************************)
RestButLock == <<disk, filed, nonces, receipts, loaded, status, registered, queue, working, canonical,
                 sent, runs, outcome, answers, cancelAnswers>>

LEMMA SlotLock ==
    ASSUME NEW x \in Permits, NEW y \in Tasks, SlotOK(x, y), UNCHANGED RestButLock,
           lock # x, lock' # x
    PROVE  SlotOK(x, y)'
<1>1. UNCHANGED <<disk, filed, nonces, receipts, loaded, status, registered, queue, canonical,
                  sent, runs, outcome>>
  BY DEF RestButLock
<1>2. Holding(x, y)'
  BY <1>1 DEF SlotOK, Holding
<1>3. Observing(y)'
  BY <1>1 DEF SlotOK, Observing, Queued, Claimed
<1>4. Invoking(x, y)' /\ Cancelling(y)'
  BY <1>1 DEF SlotOK, Invoking, Cancelling
<1> QED
  BY <1>2, <1>3, <1>4 DEF SlotOK, Local

LEMMA GlobalLock ==
    ASSUME IInv, UNCHANGED RestButLock, lock' \in Permits \cup {None}
    PROVE  FileTypes' /\ Globals'
<1>1. UNCHANGED <<disk, filed, nonces, receipts, loaded, status, registered, queue, working, canonical,
                  sent, runs, outcome, answers, cancelAnswers>>
  BY DEF RestButLock
<1>2. FileTypes'
  BY <1>1 DEF IInv, Types, FileTypes
<1>3. Globals'
  BY <1>1 DEF IInv, Globals, DeliveryOK, Claimed, Queued, QueueOnce
<1> QED
  BY <1>2, <1>3

\* A step that takes or gives back the lock and changes its own task.
LEMMA LockStep ==
    ASSUME IInv, NEW s \in Permits, NEW u \in Tasks, UNCHANGED RestButLock,
           lock = s \/ lock = None, lock' = s \/ lock' = None,
           tasks' = [tasks EXCEPT ![s] = u], SlotOK(s, u)',
           \A x \in Permits, y \in Tasks : x # s /\ y = tasks[x] => Apart(u, y) /\ Apart(y, u)
    PROVE  IInv'
<1>0. None \notin Permits
  BY HostAssumption
<1>2. ASSUME NEW x \in Permits, NEW y \in Tasks, x # s, y = tasks[x]
      PROVE  SlotOK(x, y)'
  <2>1. SlotOK(x, y)
    BY <1>2 DEF IInv, Slots
  <2>2. lock # x /\ lock' # x
    BY <1>0, <1>2
  <2> QED
    BY <2>1, <2>2, SlotLock
<1>3. FileTypes' /\ Globals'
  BY GlobalLock
<1> QED
  BY <1>2, <1>3, OneSlot

LEMMA ReleaseStep ==
    ASSUME IInv, NEW s \in Permits, NEW u \in Tasks, UNCHANGED RestButLock,
           lock = s, lock' = None,
           tasks' = [tasks EXCEPT ![s] = u], SlotOK(s, u)',
           \A x \in Permits, y \in Tasks : x # s /\ y = tasks[x] => Apart(u, y) /\ Apart(y, u)
    PROVE  IInv'
  BY LockStep

\* The task takes the lock with a document that is one update ahead.
LEMMA HoldStep ==
    ASSUME IInv, NEW s \in Permits, NEW u \in Tasks, UNCHANGED RestButLock,
           lock = None, lock' = s, disk # Torn,
           tasks' = [tasks EXCEPT ![s] = u],
           u.op = tasks[s].op, u.id = tasks[s].id, u.verdict = tasks[s].verdict,
           u.cancelled = tasks[s].cancelled,
           u.pc \in WritingPlaces, u.pc = "finishing" <=> tasks[s].pc = "finish",
           tasks[s].pc \in {"begin", "finish", "locked", "change"},
           u.buf \in Document, Local(u), Edit(u)
    PROVE  IInv'
<1> PICK t \in Tasks :
              /\ t = tasks[s] /\ SlotOK(s, t)
              /\ \A x \in Permits, y \in Tasks :
                    x # s /\ y = tasks[x] => SlotOK(x, y) /\ Apart(t, y) /\ Apart(y, t)
  BY Here
<1>0. None \notin Permits
  BY HostAssumption
<1>1. UNCHANGED <<disk, filed, nonces, receipts, loaded, status, registered, queue, canonical,
                  sent, runs, outcome>>
  BY DEF RestButLock
<1>2. Edit(u)'
  BY <1>1 DEF Edit
<1>3. Holding(s, u)'
  BY <1>1, <1>2 DEF Holding
<1>4. Observing(u)
  BY DEF SlotOK, Observing, WritingPlaces
<1>5. Observing(u)'
  BY <1>1, <1>4 DEF Observing, Queued, Claimed
<1>6. Invoking(s, u) /\ Cancelling(u)
  BY DEF SlotOK, Invoking, Cancelling, WritingPlaces, Local
<1>7. Invoking(s, u)' /\ Cancelling(u)'
  BY <1>1, <1>6 DEF Invoking, Cancelling
<1>8. SlotOK(s, u)'
  BY <1>3, <1>5, <1>7 DEF SlotOK, Local
<1>9. \A x \in Permits, y \in Tasks : x # s /\ y = tasks[x] => Apart(u, y) /\ Apart(y, u)
  <2>1. \/ u.pc \notin {"send", "finish", "finishing", "signal", "receipt"}
        \/ u.pc = "finishing" /\ t.pc = "finish" /\ u.verdict = t.verdict
    BY DEF WritingPlaces
  <2>2. u.op = t.op /\ u.id = t.id
    OBVIOUS
  <2> QED
    BY <2>1, <2>2, StaysApart
<1> QED
  BY <1>8, <1>9, LockStep

ObsTo(doc, d, v) == [doc EXCEPT !.obs[d] = v]
Swap(doc, w, g) == [doc EXCEPT !.node = w, !.gen = g]
Note(doc, r) == [doc EXCEPT !.reads = doc.reads \cup {r}]
Live(doc, l, n) == [doc EXCEPT !.life = l, !.receipt = n]

LEMMA Documents ==
    ASSUME NEW doc \in Document
    PROVE  /\ doc.life \in LifeStates /\ doc.receipt \in Nat /\ doc.obs \in [Deliveries -> ObsStatus]
           /\ doc.node \in Writes \cup {None} /\ doc.gen \in Nat /\ doc.reads \subseteq Reads
  BY DEF Document

LEMMA ObsDocument ==
    ASSUME NEW doc \in Document, NEW d \in Deliveries, NEW v \in ObsStatus
    PROVE  /\ ObsTo(doc, d, v) \in Document
           /\ ObsTo(doc, d, v).life = doc.life /\ ObsTo(doc, d, v).receipt = doc.receipt
           /\ ObsTo(doc, d, v).node = doc.node /\ ObsTo(doc, d, v).gen = doc.gen
           /\ ObsTo(doc, d, v).reads = doc.reads
           /\ ObsTo(doc, d, v).obs[d] = v
           /\ \A e \in Deliveries : e # d => ObsTo(doc, d, v).obs[e] = doc.obs[e]
  BY DEF Document, ObsTo

LEMMA SwapDocument ==
    ASSUME NEW doc \in Document, NEW w \in Writes, NEW g \in Nat
    PROVE  /\ Swap(doc, w, g) \in Document
           /\ Swap(doc, w, g).life = doc.life /\ Swap(doc, w, g).receipt = doc.receipt
           /\ Swap(doc, w, g).obs = doc.obs /\ Swap(doc, w, g).reads = doc.reads
           /\ Swap(doc, w, g).node = w /\ Swap(doc, w, g).gen = g
  BY DEF Document, Swap

LEMMA NoteDocument ==
    ASSUME NEW doc \in Document, NEW r \in Reads
    PROVE  /\ Note(doc, r) \in Document
           /\ Note(doc, r).life = doc.life /\ Note(doc, r).receipt = doc.receipt
           /\ Note(doc, r).obs = doc.obs /\ Note(doc, r).node = doc.node
           /\ Note(doc, r).gen = doc.gen /\ Note(doc, r).reads = doc.reads \cup {r}
  BY DEF Document, Note

LEMMA LiveDocument ==
    ASSUME NEW doc \in Document, NEW l \in LifeStates, NEW n \in Nat
    PROVE  /\ Live(doc, l, n) \in Document
           /\ Live(doc, l, n).life = l /\ Live(doc, l, n).receipt = n
           /\ Live(doc, l, n).obs = doc.obs /\ Live(doc, l, n).node = doc.node
           /\ Live(doc, l, n).gen = doc.gen /\ Live(doc, l, n).reads = doc.reads
  BY DEF Document, Live

\* A sealed receipt is answered again.
LEMMA AnswerSealed ==
    ASSUME IInv, NEW s \in Permits, NEW d \in Deliveries, disk # Torn, disk.obs[d] \in Terminal,
           AnswerObserver(d, disk.obs[d]), End(s), lock = None, lock' = None,
           UNCHANGED <<disk, filed, nonces, receipts, loaded, status, registered, queue, working, canonical,
                       sent, runs, outcome, cancelAnswers>>
    PROVE  IInv'
<1>1. tasks' = [tasks EXCEPT ![s] = Idle]
  BY DEF End, Become
<1>2. answers' = [answers EXCEPT ![d] = @ \cup {disk.obs[d]}]
  BY DEF AnswerObserver
<1>3. None \notin Permits
  BY HostAssumption
<1>4. answers \in [Deliveries -> SUBSET ObsStatus] /\ disk.obs[d] \in ObsStatus
  BY DEF IInv, Types, FileTypes, Terminal, ObsStatus
<1>5. FileTypes'
  BY <1>2, <1>4 DEF IInv, Types, FileTypes
<1>6. ASSUME NEW e \in Deliveries
      PROVE  DeliveryOK(e)'
  <2>1. DeliveryOK(e)
    BY DEF IInv, Globals
  <2>2. answers'[e] = IF e = d THEN answers[e] \cup {disk.obs[d]} ELSE answers[e]
    BY <1>2, <1>4
  <2>3. /\ runs'[e] = runs[e] /\ outcome'[e] = outcome[e] /\ (Queued(e)' <=> Queued(e))
        /\ (Claimed(e)' <=> Claimed(e)) /\ disk' = disk /\ working' = working
    BY DEF Queued, Claimed
  <2> QED
    BY <1>4, <2>1, <2>2, <2>3 DEF DeliveryOK
<1>7. Globals'
  BY <1>6 DEF IInv, Globals, QueueOnce
<1>8. ASSUME NEW x \in Permits, NEW y \in Tasks, SlotOK(x, y)
      PROVE  SlotOK(x, y)'
  <2>1. Holding(x, y)'
    BY <1>3, <1>8 DEF SlotOK, Holding
  <2>2. Observing(y)'
    BY <1>8 DEF SlotOK, Observing, Queued, Claimed
  <2>3. Invoking(x, y)' /\ Cancelling(y)'
    BY <1>8 DEF SlotOK, Invoking, Cancelling
  <2> QED
    BY <1>8, <2>1, <2>2, <2>3 DEF SlotOK, Local
<1>9. SlotOK(s, Idle)
  BY <1>3, IdleFits
<1>10. ASSUME NEW x \in Permits, NEW y \in Tasks, x # s, y = tasks[x]
       PROVE  SlotOK(x, y)
  BY <1>10 DEF IInv, Slots
<1> QED
  BY <1>1, <1>5, <1>7, <1>8, <1>9, <1>10, IdleTask, IdleApart, OneSlot

LEMMA BeginStep ==
    ASSUME IInv, NEW s \in Permits, Begin(s)
    PROVE  IInv'
<1> PICK t \in Tasks :
              /\ t = tasks[s] /\ SlotOK(s, t)
              /\ \A x \in Permits, y \in Tasks :
                    x # s /\ y = tasks[x] => SlotOK(x, y) /\ Apart(t, y) /\ Apart(y, t)
  BY Here
<1>d. disk \in Document /\ disk # Torn /\ lock = None
  BY DEF Begin, Critical, StateLockFree, IInv, Types, FileTypes
<1>1. CASE /\ disk.obs[t.id] = "absent"
           /\ Hold(s, [disk EXCEPT !.obs[t.id] = "pending"], "beginning")
           /\ UNCHANGED answers
  <2>i. t.id \in Deliveries /\ "pending" \in ObsStatus
    BY DEF Begin, Critical, At, SlotOK, Local, ObsStatus
  <2> PICK doc \in Document :
              /\ doc = ObsTo(disk, t.id, "pending")
              /\ doc.life = disk.life /\ doc.receipt = disk.receipt /\ doc.node = disk.node
              /\ doc.gen = disk.gen /\ doc.reads = disk.reads /\ doc.obs[t.id] = "pending"
              /\ \A e \in Deliveries : e # t.id => doc.obs[e] = disk.obs[e]
    BY <1>d, <2>i, ObsDocument
  <2>p. "beginning" \in Places /\ doc \in Document
    BY DEF Places, Verdicts, Terminal
  <2> PICK u \in Tasks :
                /\ u = HoldingAt(t, doc, "beginning")
                /\ u.op = t.op /\ u.id = t.id /\ u.pc = "beginning" /\ u.attempt = t.attempt
                /\ u.cancelled = t.cancelled /\ u.verdict = t.verdict /\ u.buf = doc
    BY Held, <2>p
  <2>2. /\ lock' = s
        /\ tasks' = [tasks EXCEPT ![s] = u]
    BY <1>1 DEF Hold, Become, HoldingAt, ObsTo
  <2>3. UNCHANGED RestButLock
    BY <1>1 DEF Begin, RestButLock, files, cancels, runtime, history
  <2>4. Local(u) /\ u.pc \in WritingPlaces
    BY DEF Begin, Critical, At, SlotOK, Local, WritingPlaces
  <2>5. Edit(u)
    BY <1>1 DEF Edit
  <2>6. t.pc \in {"begin", "finish", "locked", "change"} /\ (u.pc = "finishing" <=> t.pc = "finish")
    BY DEF Begin, Critical, At
  <2> QED
    BY <1>d, <2>2, <2>3, <2>4, <2>5, <2>6, HoldStep
<1>2. CASE /\ disk.obs[t.id] = "pending"
           /\ Hold(s, [disk EXCEPT !.obs[t.id] = "ambiguous"], "beginning")
           /\ UNCHANGED answers
  <2>i. t.id \in Deliveries /\ "ambiguous" \in ObsStatus
    BY DEF Begin, Critical, At, SlotOK, Local, ObsStatus
  <2> PICK doc \in Document :
              /\ doc = ObsTo(disk, t.id, "ambiguous")
              /\ doc.life = disk.life /\ doc.receipt = disk.receipt /\ doc.node = disk.node
              /\ doc.gen = disk.gen /\ doc.reads = disk.reads /\ doc.obs[t.id] = "ambiguous"
              /\ \A e \in Deliveries : e # t.id => doc.obs[e] = disk.obs[e]
    BY <1>d, <2>i, ObsDocument
  <2>p. "beginning" \in Places /\ doc \in Document
    BY DEF Places, Verdicts, Terminal
  <2> PICK u \in Tasks :
                /\ u = HoldingAt(t, doc, "beginning")
                /\ u.op = t.op /\ u.id = t.id /\ u.pc = "beginning" /\ u.attempt = t.attempt
                /\ u.cancelled = t.cancelled /\ u.verdict = t.verdict /\ u.buf = doc
    BY Held, <2>p
  <2>2. /\ lock' = s
        /\ tasks' = [tasks EXCEPT ![s] = u]
    BY <1>2 DEF Hold, Become, HoldingAt, ObsTo
  <2>3. UNCHANGED RestButLock
    BY <1>2 DEF Begin, RestButLock, files, cancels, runtime, history
  <2>4. Local(u) /\ u.pc \in WritingPlaces
    BY DEF Begin, Critical, At, SlotOK, Local, WritingPlaces
  <2>5. Edit(u)
    BY <1>2 DEF Edit
  <2>6. t.pc \in {"begin", "finish", "locked", "change"} /\ (u.pc = "finishing" <=> t.pc = "finish")
    BY DEF Begin, Critical, At
  <2> QED
    BY <1>d, <2>2, <2>3, <2>4, <2>5, <2>6, HoldStep
<1>3. CASE /\ disk.obs[t.id] \in Terminal
           /\ AnswerObserver(t.id, disk.obs[t.id])
           /\ End(s)
           /\ UNCHANGED lock
  BY <1>d, <1>3, AnswerSealed DEF Begin, Critical, At, SlotOK, Local, files, cancels, runtime
<1> QED
  BY <1>1, <1>2, <1>3 DEF Begin, Claim

LEMMA FinishStep ==
    ASSUME IInv, NEW s \in Permits, Finish(s)
    PROVE  IInv'
<1> PICK t \in Tasks :
              /\ t = tasks[s] /\ SlotOK(s, t)
              /\ \A x \in Permits, y \in Tasks :
                    x # s /\ y = tasks[x] => SlotOK(x, y) /\ Apart(t, y) /\ Apart(y, t)
  BY Here
<1>d. disk \in Document /\ disk # Torn /\ lock = None
  BY DEF Finish, Critical, StateLockFree, IInv, Types, FileTypes
<1>1. CASE /\ disk.obs[t.id] \notin Terminal
           /\ Hold(s, [disk EXCEPT !.obs[t.id] = t.verdict], "finishing")
  <2>i. t.id \in Deliveries /\ t.verdict \in ObsStatus
    BY DEF Finish, Critical, At, SlotOK, Local, Observing, ObsStatus, Terminal
  <2> PICK doc \in Document :
              /\ doc = ObsTo(disk, t.id, t.verdict)
              /\ doc.life = disk.life /\ doc.receipt = disk.receipt /\ doc.node = disk.node
              /\ doc.gen = disk.gen /\ doc.reads = disk.reads /\ doc.obs[t.id] = t.verdict
              /\ \A e \in Deliveries : e # t.id => doc.obs[e] = disk.obs[e]
    BY <1>d, <2>i, ObsDocument
  <2>p. "finishing" \in Places /\ doc \in Document
    BY DEF Places, Verdicts, Terminal
  <2> PICK u \in Tasks :
                /\ u = HoldingAt(t, doc, "finishing")
                /\ u.op = t.op /\ u.id = t.id /\ u.pc = "finishing" /\ u.attempt = t.attempt
                /\ u.cancelled = t.cancelled /\ u.verdict = t.verdict /\ u.buf = doc
    BY Held, <2>p
  <2>2. /\ lock' = s
        /\ tasks' = [tasks EXCEPT ![s] = u]
    BY <1>1 DEF Hold, Become, HoldingAt, ObsTo
  <2>3. UNCHANGED RestButLock
    BY <1>1 DEF Finish, RestButLock, files, cancels, runtime, history
  <2>4. Local(u) /\ u.pc \in WritingPlaces
    BY DEF Finish, Critical, At, SlotOK, Local, WritingPlaces
  <2>5. Edit(u)
    BY <1>1 DEF Edit
  <2>6. t.pc \in {"begin", "finish", "locked", "change"} /\ (u.pc = "finishing" <=> t.pc = "finish")
    BY DEF Finish, Critical, At
  <2> QED
    BY <1>d, <2>2, <2>3, <2>4, <2>5, <2>6, HoldStep
<1>2. CASE End(s) /\ UNCHANGED lock
  <2>1. UNCHANGED Rest
    BY <1>2 DEF Finish, Rest, files, cancels, runtime, history
  <2> QED
    BY <1>2, <2>1, QuietEnd DEF Finish, Critical, At, WritingPlaces
<1> QED
  BY <1>1, <1>2 DEF Finish, Unsealed

LEMMA CompareAndSwapStep ==
    ASSUME IInv, NEW s \in Permits, CompareAndSwap(s)
    PROVE  IInv'
<1> PICK t \in Tasks :
              /\ t = tasks[s] /\ SlotOK(s, t)
              /\ \A x \in Permits, y \in Tasks :
                    x # s /\ y = tasks[x] => SlotOK(x, y) /\ Apart(t, y) /\ Apart(y, t)
  BY Here
<1>d. disk \in Document /\ disk # Torn /\ lock = None
  BY DEF CompareAndSwap, Critical, StateLockFree, IInv, Types, FileTypes
<1>1. CASE Goto(s, "unregister") /\ UNCHANGED lock
  <2>1. UNCHANGED Rest
    BY <1>1 DEF CompareAndSwap, Rest, files, cancels, runtime, history
  <2>p. "unregister" \in Places
    BY DEF Places, Verdicts, Terminal
  <2> PICK u \in Tasks :
                /\ u = MovedTo(t, "unregister")
                /\ u.op = t.op /\ u.id = t.id /\ u.pc = "unregister" /\ u.attempt = t.attempt
                /\ u.cancelled = t.cancelled /\ u.verdict = t.verdict /\ u.buf = Torn
    BY Moved, <2>p
  <2>2. tasks' = [tasks EXCEPT ![s] = u]
    BY <1>1 DEF Goto, Become, MovedTo
  <2>3. SlotOK(s, u)
    BY DEF CompareAndSwap, Critical, At, SlotOK, Local, Holding, Observing, Invoking, Cancelling, WritingPlaces
  <2> QED
    BY <2>1, <2>2, <2>3, QuietMove
<1>2. CASE /\ disk.node = Prior[t.id]
           /\ Hold(s, [disk EXCEPT !.node = t.id, !.gen = @ + 1], "swapping")
  <2>i. t.id \in Writes
    BY DEF CompareAndSwap, Critical, At, SlotOK, Local
  <2>g. disk.gen + 1 \in Nat
    <3>1. disk.gen \in Nat
      BY <1>d, Documents
    <3> QED
      BY <3>1
  <2> PICK doc \in Document :
              /\ doc = Swap(disk, t.id, disk.gen + 1)
              /\ doc.life = disk.life /\ doc.receipt = disk.receipt /\ doc.obs = disk.obs
              /\ doc.reads = disk.reads /\ doc.node = t.id /\ doc.gen = disk.gen + 1
    BY <1>d, <2>i, <2>g, SwapDocument
  <2>p. "swapping" \in Places /\ doc \in Document
    BY DEF Places, Verdicts, Terminal
  <2> PICK u \in Tasks :
                /\ u = HoldingAt(t, doc, "swapping")
                /\ u.op = t.op /\ u.id = t.id /\ u.pc = "swapping" /\ u.attempt = t.attempt
                /\ u.cancelled = t.cancelled /\ u.verdict = t.verdict /\ u.buf = doc
    BY Held, <2>p
  <2>2. /\ lock' = s
        /\ tasks' = [tasks EXCEPT ![s] = u]
    BY <1>2 DEF Hold, Become, HoldingAt, Swap
  <2>3. UNCHANGED RestButLock
    BY <1>2 DEF CompareAndSwap, RestButLock, files, cancels, runtime, history
  <2>4. Local(u) /\ u.pc \in WritingPlaces
    BY DEF CompareAndSwap, Critical, At, SlotOK, Local, WritingPlaces
  <2>5. Edit(u)
    BY <1>2 DEF Edit
  <2>6. t.pc \in {"begin", "finish", "locked", "change"} /\ (u.pc = "finishing" <=> t.pc = "finish")
    BY DEF CompareAndSwap, Critical, At
  <2> QED
    BY <1>d, <2>2, <2>3, <2>4, <2>5, <2>6, HoldStep
<1> QED
  BY <1>1, <1>2 DEF CompareAndSwap

LEMMA ReadStateStep ==
    ASSUME IInv, NEW s \in Permits, ReadState(s)
    PROVE  IInv'
<1> PICK t \in Tasks :
              /\ t = tasks[s] /\ SlotOK(s, t)
              /\ \A x \in Permits, y \in Tasks :
                    x # s /\ y = tasks[x] => SlotOK(x, y) /\ Apart(t, y) /\ Apart(y, t)
  BY Here
<1>d. disk \in Document /\ disk # Torn /\ lock = None
  BY DEF ReadState, Critical, StateLockFree, IInv, Types, FileTypes
<1>1. CASE Goto(s, "unregister") /\ UNCHANGED lock
  <2>1. UNCHANGED Rest
    BY <1>1 DEF ReadState, Rest, files, cancels, runtime, history
  <2>p. "unregister" \in Places
    BY DEF Places, Verdicts, Terminal
  <2> PICK u \in Tasks :
                /\ u = MovedTo(t, "unregister")
                /\ u.op = t.op /\ u.id = t.id /\ u.pc = "unregister" /\ u.attempt = t.attempt
                /\ u.cancelled = t.cancelled /\ u.verdict = t.verdict /\ u.buf = Torn
    BY Moved, <2>p
  <2>2. tasks' = [tasks EXCEPT ![s] = u]
    BY <1>1 DEF Goto, Become, MovedTo
  <2>3. SlotOK(s, u)
    BY DEF ReadState, Critical, At, SlotOK, Local, Holding, Observing, Invoking, Cancelling, WritingPlaces
  <2> QED
    BY <2>1, <2>2, <2>3, QuietMove
<1>2. CASE Hold(s, [disk EXCEPT !.reads = @ \cup {t.id}], "noting")
  <2>i. t.id \in Reads
    BY DEF ReadState, Critical, At, SlotOK, Local
  <2> PICK doc \in Document :
              /\ doc = Note(disk, t.id)
              /\ doc.life = disk.life /\ doc.receipt = disk.receipt /\ doc.obs = disk.obs
              /\ doc.node = disk.node /\ doc.gen = disk.gen /\ doc.reads = disk.reads \cup {t.id}
    BY <1>d, <2>i, NoteDocument
  <2>p. "noting" \in Places /\ doc \in Document
    BY DEF Places, Verdicts, Terminal
  <2> PICK u \in Tasks :
                /\ u = HoldingAt(t, doc, "noting")
                /\ u.op = t.op /\ u.id = t.id /\ u.pc = "noting" /\ u.attempt = t.attempt
                /\ u.cancelled = t.cancelled /\ u.verdict = t.verdict /\ u.buf = doc
    BY Held, <2>p
  <2>2. /\ lock' = s
        /\ tasks' = [tasks EXCEPT ![s] = u]
    BY <1>2 DEF Hold, Become, HoldingAt, Note
  <2>3. UNCHANGED RestButLock
    BY <1>2 DEF ReadState, RestButLock, files, cancels, runtime, history
  <2>4. Local(u) /\ u.pc \in WritingPlaces
    BY DEF ReadState, Critical, At, SlotOK, Local, WritingPlaces
  <2>5. Edit(u)
    BY <1>2 DEF Edit
  <2>6. t.pc \in {"begin", "finish", "locked", "change"} /\ (u.pc = "finishing" <=> t.pc = "finish")
    BY DEF ReadState, Critical, At
  <2> QED
    BY <1>d, <2>2, <2>3, <2>4, <2>5, <2>6, HoldStep
<1> QED
  BY <1>1, <1>2 DEF ReadState

LEMMA ChangeStep ==
    ASSUME IInv, NEW s \in Permits, Change(s)
    PROVE  IInv'
<1> PICK t \in Tasks :
              /\ t = tasks[s] /\ SlotOK(s, t)
              /\ \A x \in Permits, y \in Tasks :
                    x # s /\ y = tasks[x] => SlotOK(x, y) /\ Apart(t, y) /\ Apart(y, t)
  BY Here
<1>d. disk \in Document /\ disk # Torn /\ lock = None
  BY DEF Change, Critical, StateLockFree, IInv, Types, FileTypes
<1>c. /\ t.op = "lifecycle" /\ t.pc = "change" /\ t.id \in Actions
      /\ t.number \in Nat
  BY DEF Change, Critical, At, SlotOK, Local, Tasks
<1>1. CASE disk.receipt = t.number /\ Goto(s, "status") /\ UNCHANGED lock
  <2>1. UNCHANGED Rest
    BY <1>1 DEF Change, Rest, files, cancels, runtime, history
  <2>p. "status" \in Places
    BY DEF Places, Verdicts, Terminal
  <2> PICK u \in Tasks :
                /\ u = MovedTo(t, "status")
                /\ u.op = t.op /\ u.id = t.id /\ u.pc = "status" /\ u.attempt = t.attempt
                /\ u.cancelled = t.cancelled /\ u.verdict = t.verdict /\ u.buf = Torn
    BY Moved, <2>p
  <2>2. tasks' = [tasks EXCEPT ![s] = u]
    BY <1>1 DEF Goto, Become, MovedTo
  <2>3. SlotOK(s, u)
    BY <1>1, <1>c DEF SlotOK, Local, Holding, Observing, Invoking, Cancelling, WritingPlaces
  <2> QED
    BY <2>1, <2>2, <2>3, QuietMove
<1>2. CASE End(s) /\ UNCHANGED lock
  <2>1. UNCHANGED Rest
    BY <1>2 DEF Change, Rest, files, cancels, runtime, history
  <2> QED
    BY <1>2, <1>c, <2>1, QuietEnd DEF WritingPlaces
<1>3. CASE /\ disk.receipt # t.number /\ disk.life = Source(t.id)
           /\ Hold(s, [disk EXCEPT !.life = Target(t.id), !.receipt = t.number], "changing")
  <2>i. Target(t.id) \in LifeStates /\ t.number \in Nat
    BY <1>c DEF Target, LifeStates
  <2> PICK doc \in Document :
              /\ doc = Live(disk, Target(t.id), t.number)
              /\ doc.life = Target(t.id) /\ doc.receipt = t.number /\ doc.obs = disk.obs
              /\ doc.node = disk.node /\ doc.gen = disk.gen /\ doc.reads = disk.reads
    BY <1>d, <2>i, LiveDocument
  <2>p. "changing" \in Places /\ doc \in Document
    BY DEF Places, Verdicts, Terminal
  <2> PICK u \in Tasks :
                /\ u = HoldingAt(t, doc, "changing")
                /\ u.op = t.op /\ u.id = t.id /\ u.pc = "changing" /\ u.attempt = t.attempt
                /\ u.number = t.number /\ u.cancelled = t.cancelled /\ u.verdict = t.verdict /\ u.buf = doc
    BY Held, <2>p
  <2>2. /\ lock' = s
        /\ tasks' = [tasks EXCEPT ![s] = u]
    BY <1>3 DEF Hold, Become, HoldingAt, Live
  <2>3. UNCHANGED RestButLock
    BY <1>3 DEF Change, RestButLock, files, cancels, runtime, history
  <2>4. Local(u) /\ u.pc \in WritingPlaces
    BY DEF Change, Critical, At, SlotOK, Local, WritingPlaces
  <2>5. Edit(u)
    BY <1>3 DEF Edit
  <2>6. t.pc \in {"begin", "finish", "locked", "change"} /\ (u.pc = "finishing" <=> t.pc = "finish")
    BY DEF Change, Critical, At
  <2> QED
    BY <1>d, <2>2, <2>3, <2>4, <2>5, <2>6, HoldStep
<1> QED
  BY <1>1, <1>2, <1>3 DEF Change

LEMMA PreemptedStep ==
    ASSUME IInv, NEW s \in Permits, Preempted(s)
    PROVE  IInv'
<1> PICK t \in Tasks :
              /\ t = tasks[s] /\ SlotOK(s, t)
              /\ \A x \in Permits, y \in Tasks :
                    x # s /\ y = tasks[x] => SlotOK(x, y) /\ Apart(t, y) /\ Apart(y, t)
  BY Here
<1>1. t.op \in {"write", "read"} /\ t.pc \in {"swapping", "noting"} /\ lock = s /\ lock' = None
  BY DEF Preempted, SlotOK, Local, Holding, WritingPlaces, Tasks, Operations
<1>2. UNCHANGED RestButLock
  BY DEF Preempted, RestButLock, files, cancels, runtime, history
<1>3. None # s
  BY HostAssumption
<1>p. "unregister" \in Places
  BY DEF Places, Verdicts, Terminal
<1> PICK u \in Tasks :
              /\ u = MovedTo(t, "unregister")
              /\ u.op = t.op /\ u.id = t.id /\ u.pc = "unregister" /\ u.attempt = t.attempt
              /\ u.number = t.number /\ u.cancelled = t.cancelled /\ u.verdict = t.verdict /\ u.buf = Torn
  BY Moved, <1>p
<1>4. tasks' = [tasks EXCEPT ![s] = u]
  BY DEF Preempted, Goto, Become, MovedTo
<1>5. SlotOK(s, u)'
  BY <1>1, <1>3 DEF SlotOK, Local, Holding, Observing, Invoking, Cancelling, WritingPlaces
<1>6. \A x \in Permits, y \in Tasks : x # s /\ y = tasks[x] => Apart(u, y) /\ Apart(y, u)
  BY StaysApart
<1>7. lock = s /\ lock' = None
  BY <1>1
<1> QED
  BY ONLY IInv, <1>2, <1>4, <1>5, <1>6, <1>7, ReleaseStep

-----------------------------------------------------------------------------
(***************************************************************************)
(* The state file is replaced                                              *)
(***************************************************************************)
\* What the file may be next: as it is, unreadable, or as the holder has it.
NextFile(doc) ==
    \/ doc = disk \/ doc = Torn
    \/ \E s \in Permits : lock = s /\ doc = tasks[s].buf

\* A document succeeds the file without forgetting what the file says.
LEMMA NextFileKeeps ==
    ASSUME IInv, NEW doc, NextFile(doc), doc # Torn
    PROVE  /\ doc \in Document /\ disk \in Document /\ disk # Torn
           /\ \A e \in Deliveries :
                 /\ disk.obs[e] # "absent" => doc.obs[e] # "absent"
                 /\ disk.obs[e] \in Terminal => doc.obs[e] = disk.obs[e]
                 /\ doc.obs[e] = "completed" => outcome[e] = "ok"
                 /\ doc.obs[e] = "rejected" => runs[e] = 0 /\ ~Queued(e)
           /\ disk.reads \subseteq doc.reads
           /\ doc.node # disk.node => Prior[doc.node] = disk.node /\ doc.gen = disk.gen + 1
           /\ doc.life # disk.life \/ doc.receipt # disk.receipt =>
                 \E s \in Permits :
                    /\ tasks[s].op = "lifecycle" /\ doc.receipt = tasks[s].number
                    /\ disk.life = Source(tasks[s].id) /\ doc.life = Target(tasks[s].id)
<1>1. CASE doc = disk
  <2>1. disk \in Document /\ disk # Torn
    BY <1>1 DEF IInv, Types, FileTypes
  <2> QED
    BY <1>1, <2>1 DEF IInv, Globals, DeliveryOK
<1>2. CASE \E s \in Permits : lock = s /\ doc = tasks[s].buf
  <2> PICK s \in Permits : lock = s /\ doc = tasks[s].buf
    BY <1>2
  <2> PICK t \in Tasks : t = tasks[s] /\ SlotOK(s, t)
    BY Here
  <2>1. doc = t.buf /\ doc \in Document /\ disk \in Document /\ disk # Torn /\ t.pc \in WritingPlaces
    BY DEF SlotOK, Holding, IInv, Types, FileTypes
  <2>2. /\ disk.obs \in [Deliveries -> ObsStatus] /\ doc.obs \in [Deliveries -> ObsStatus]
    BY <2>1, Documents DEF IInv, Types, FileTypes
  <2>3. Edit(t) /\ Local(t) /\ Observing(t)
    BY DEF SlotOK, Holding
  <2>4. ASSUME NEW e \in Deliveries
        PROVE  /\ disk.obs[e] # "absent" => doc.obs[e] # "absent"
               /\ disk.obs[e] \in Terminal => doc.obs[e] = disk.obs[e]
               /\ doc.obs[e] = "completed" => outcome[e] = "ok"
               /\ doc.obs[e] = "rejected" => runs[e] = 0 /\ ~Queued(e)
    <3>0. /\ disk.obs[e] = "completed" => outcome[e] = "ok"
          /\ disk.obs[e] = "rejected" => runs[e] = 0 /\ ~Queued(e)
      BY <2>1 DEF IInv, Globals, DeliveryOK
    <3>1. CASE doc.obs[e] = disk.obs[e]
      BY <3>0, <3>1
    <3>2. CASE doc.obs[e] # disk.obs[e]
      <4>1. t.pc \in {"beginning", "finishing"} /\ e = t.id
        BY <2>1, <2>3, <3>2 DEF Edit
      <4>2. t.op = "observe"
        BY <2>3, <4>1 DEF Local, Tasks, Operations
      <4>3. CASE t.pc = "beginning"
        BY <2>1, <2>3, <4>1, <4>3 DEF Edit, Terminal
      <4>4. CASE t.pc = "finishing"
        BY <2>1, <2>3, <4>1, <4>2, <4>4 DEF Edit, Observing, Terminal
      <4> QED
        BY <4>1, <4>3, <4>4
    <3> QED
      BY <3>1, <3>2
  <2>5. CASE t.pc = "changing"
    <3>1. t.op = "lifecycle"
      BY <2>3, <2>5 DEF Local, Tasks, Operations
    <3>3. /\ doc.life = Target(t.id) /\ doc.receipt = t.number /\ disk.life = Source(t.id)
          /\ doc.node = disk.node /\ doc.reads = disk.reads
      BY <2>1, <2>3, <2>5 DEF Edit
    <3> QED
      BY <2>1, <2>4, <3>1, <3>3
  <2>6. CASE t.pc # "changing"
    <3>1. doc.life = disk.life /\ doc.receipt = disk.receipt /\ disk.reads \subseteq doc.reads
      BY <2>1, <2>3, <2>6 DEF Edit
    <3>2. doc.node # disk.node => Prior[doc.node] = disk.node /\ doc.gen = disk.gen + 1
      BY <2>1, <2>3 DEF Edit
    <3> QED
      BY <2>1, <2>2, <2>4, <3>1, <3>2
  <2> QED
    BY <2>5, <2>6
<1> QED
  BY <1>1, <1>2 DEF NextFile

LEMMA NextFileTyped ==
    ASSUME IInv, NextFile(disk')
    PROVE  disk' \in Document \cup {Torn}
  BY NextFileKeeps

LEMMA NextFileDelivery ==
    ASSUME IInv, NextFile(disk'), NEW d \in Deliveries,
           UNCHANGED <<runs, outcome, answers>>, working' \in {working, None},
           Queued(d)' => Queued(d)
    PROVE  DeliveryOK(d)'
<1>1. DeliveryOK(d)
  BY DEF IInv, Globals
<1>2. None # d
  BY HostAssumption
<1>3. CASE disk' = Torn
  BY <1>1, <1>2, <1>3 DEF DeliveryOK, Claimed
<1>4. CASE disk' # Torn
  <2>1. /\ disk # Torn
        /\ disk.obs[d] # "absent" => disk'.obs[d] # "absent"
        /\ disk.obs[d] \in Terminal => disk'.obs[d] = disk.obs[d]
        /\ disk'.obs[d] = "completed" => outcome[d] = "ok"
        /\ disk'.obs[d] = "rejected" => runs[d] = 0 /\ ~Queued(d)
    BY <1>4, NextFileKeeps
  <2>2. Claimed(d) => Claimed(d)'
    BY <1>4, <2>1 DEF Claimed
  <2> QED
    BY <1>1, <1>2, <1>4, <2>1, <2>2 DEF DeliveryOK
<1> QED
  BY <1>3, <1>4

\* The other tasks keep what they rest on when the file is replaced.
LEMMA NextFileSlot ==
    ASSUME IInv, NextFile(disk'), NEW s \in Permits, NEW x \in Permits, NEW y \in Tasks,
           lock = s, x # s, y = tasks[x], lock' = None,
           UNCHANGED <<filed, nonces, receipts, loaded, status, registered, queue, canonical, sent, runs, outcome>>
    PROVE  SlotOK(x, y)'
<1> PICK t \in Tasks : t = tasks[s] /\ SlotOK(s, t)
  BY Here
<1>1. SlotOK(x, y) /\ Apart(y, t) /\ Apart(t, y)
  BY Here
<1>2. None # x
  BY HostAssumption
<1>3. Holding(x, y)'
  BY <1>1, <1>2 DEF SlotOK, Holding
<1>4. Invoking(x, y)' /\ Cancelling(y)'
  BY <1>1 DEF SlotOK, Invoking, Cancelling
<1>5. CASE disk' = Torn
  BY <1>1, <1>3, <1>4, <1>5 DEF SlotOK, Local, Observing, Claimed, Queued
<1>6. CASE disk' # Torn
  <2>1. /\ disk # Torn
        /\ \A e \in Deliveries : disk.obs[e] # "absent" => disk'.obs[e] # "absent"
    BY <1>6, NextFileKeeps
  <2>3. ASSUME y.op = "observe", y.pc = "send", disk'.obs[y.id] = "rejected"
        PROVE  FALSE
    <3>1. y.id \in Deliveries /\ disk.obs[y.id] # "rejected"
      BY <1>1, <2>1, <2>3 DEF SlotOK, Local, Observing
    <3>2. disk' = t.buf /\ Edit(t) /\ Local(t) /\ t.pc \in WritingPlaces
      BY <1>6, <2>3, <3>1 DEF NextFile, SlotOK, Holding
    <3>3. t.id = y.id /\ t.pc \in {"beginning", "finishing"}
      BY <2>3, <3>1, <3>2 DEF Edit
    <3>4. t.pc = "finishing" /\ t.verdict = "rejected"
      BY <2>3, <3>1, <3>2, <3>3 DEF Edit
    <3>5. t.op = "observe"
      BY <3>2, <3>4 DEF Local, Tasks, Operations
    <3> QED
      BY <1>1, <2>3, <3>3, <3>4, <3>5 DEF Apart
  <2>4. y.op = "observe" => y.id \in Deliveries
    BY <1>1 DEF SlotOK, Local
  <2>5. Observing(y)'
    BY <1>1, <1>6, <2>1, <2>3, <2>4 DEF SlotOK, Observing, Claimed, Queued
  <2> QED
    BY <1>1, <1>3, <1>4, <2>5 DEF SlotOK, Local
<1> QED
  BY <1>5, <1>6

LEMMA PersistFailsStep ==
    ASSUME IInv, NEW s \in Permits, PersistFails(s)
    PROVE  IInv'
<1> PICK t \in Tasks :
              /\ t = tasks[s] /\ SlotOK(s, t)
              /\ \A x \in Permits, y \in Tasks :
                    x # s /\ y = tasks[x] => SlotOK(x, y) /\ Apart(t, y) /\ Apart(y, t)
  BY Here
<1>1. /\ lock = s /\ lock' = None /\ disk' \in {disk, Torn, t.buf} /\ t.pc \in WritingPlaces
      /\ UNCHANGED <<filed, nonces, receipts, loaded, status, registered, queue, working, canonical, sent,
                     runs, outcome, answers, cancelAnswers>>
  BY DEF PersistFails, Writing, SlotOK, Holding, WritingPlaces, cancels, history
<1>2. NextFile(disk')
  BY <1>1 DEF NextFile
<1>3. None # s
  BY HostAssumption
<1>4. disk' \in Document \cup {Torn}
  BY <1>2, NextFileTyped
<1>5. FileTypes'
  BY <1>1, <1>4 DEF IInv, Types, FileTypes
<1>6. \A d \in Deliveries : DeliveryOK(d)'
  <2> TAKE d \in Deliveries
  <2>1. Queued(d)' => Queued(d)
    BY <1>1 DEF Queued
  <2> QED
    BY <1>1, <1>2, <2>1, NextFileDelivery
<1>8. Globals'
  BY <1>1, <1>6 DEF IInv, Globals, QueueOnce
<1>9. \A x \in Permits, y \in Tasks : x # s /\ y = tasks[x] => SlotOK(x, y)'
  BY <1>1, <1>2, NextFileSlot
<1>10. CASE t.op \in {"write", "read"}
  <2>p. "unregister" \in Places
    BY DEF Places, Verdicts, Terminal
  <2> PICK u \in Tasks :
                /\ u = MovedTo(t, "unregister")
                /\ u.op = t.op /\ u.id = t.id /\ u.pc = "unregister" /\ u.attempt = t.attempt
                /\ u.cancelled = t.cancelled /\ u.verdict = t.verdict /\ u.buf = Torn
    BY Moved, <2>p
  <2>1. tasks' = [tasks EXCEPT ![s] = u]
    BY <1>10 DEF PersistFails, Fail, Goto, Become, MovedTo
  <2>2. SlotOK(s, u)'
    BY <1>1, <1>3, <1>10 DEF SlotOK, Local, Holding, Observing, Invoking, Cancelling, WritingPlaces
  <2>3. \A x \in Permits, y \in Tasks : x # s /\ y = tasks[x] => Apart(u, y) /\ Apart(y, u)
    BY StaysApart
  <2> QED
    BY ONLY IInv, <1>5, <1>8, <1>9, <2>1, <2>2, <2>3, OneSlot
<1>11. CASE t.op \notin {"write", "read"}
  <2>1. tasks' = [tasks EXCEPT ![s] = Idle]
    BY <1>11 DEF PersistFails, Fail, End, Become
  <2>2. SlotOK(s, Idle)'
    BY <1>1, <1>3, IdleTask DEF SlotOK, Local, Holding, Observing, Invoking, Cancelling, WritingPlaces
  <2> QED
    BY ONLY IInv, <1>5, <1>8, <1>9, <2>1, <2>2, IdleTask, IdleApart, OneSlot
<1> QED
  BY <1>10, <1>11

LEMMA PersistStep ==
    ASSUME IInv, NEW s \in Permits, Persist(s)
    PROVE  IInv'
<1> PICK t \in Tasks :
              /\ t = tasks[s] /\ SlotOK(s, t)
              /\ \A x \in Permits, y \in Tasks :
                    x # s /\ y = tasks[x] => SlotOK(x, y) /\ Apart(t, y) /\ Apart(y, t)
  BY Here
<1>1. /\ lock = s /\ lock' = None /\ disk' = t.buf /\ t.pc \in WritingPlaces
      /\ UNCHANGED <<filed, nonces, receipts, loaded, status, registered, queue, working, canonical, sent,
                     runs, outcome, cancelAnswers>>
  BY DEF Persist, Writing, SlotOK, Holding, WritingPlaces, cancels, runtime
<1>2. NextFile(disk') /\ t.buf \in Document /\ disk' # Torn /\ disk # Torn
  BY <1>1, TornAssumption DEF NextFile, SlotOK, Holding
<1>3. None # s
  BY HostAssumption
<1>4. /\ t.op = "observe" => t.id \in Deliveries /\ t.pc \in {"beginning", "finishing"}
      /\ t.pc \in {"beginning", "finishing"} => t.op = "observe"
      /\ t.pc = "changing" => t.op = "lifecycle"
      /\ t.pc \in {"swapping", "noting"} => t.op \in {"write", "read"}
  BY <1>1 DEF SlotOK, Local, WritingPlaces, Tasks, Operations
<1>5. Edit(t)
  BY <1>1 DEF SlotOK, Holding
<1>6. /\ answers \in [Deliveries -> SUBSET ObsStatus]
      /\ \A d \in Deliveries : disk'.obs[d] \in ObsStatus
  BY <1>1, <1>2, Documents DEF IInv, Types, FileTypes
<1>a. \/ UNCHANGED answers
      \/ /\ t.op = "observe" /\ disk'.obs[t.id] \in Terminal
         /\ answers' = [answers EXCEPT ![t.id] = @ \cup {disk'.obs[t.id]}]
  BY <1>1 DEF Persist, AnswerObserver
<1>7. FileTypes'
  <2>1. disk' \in Document \cup {Torn}
    BY <1>2, NextFileTyped
  <2>2. answers' \in [Deliveries -> SUBSET ObsStatus]
    BY <1>4, <1>6, <1>a
  <2> QED
    BY <1>1, <2>1, <2>2 DEF IInv, Types, FileTypes
<1>8. ASSUME NEW d \in Deliveries
      PROVE  DeliveryOK(d)'
  <2>1. Queued(d)' <=> Queued(d)
    BY <1>1 DEF Queued
  <2>2. CASE UNCHANGED answers
    BY <1>1, <1>2, <2>1, <2>2, NextFileDelivery
  <2>3. CASE /\ t.op = "observe" /\ disk'.obs[t.id] \in Terminal
             /\ answers' = [answers EXCEPT ![t.id] = @ \cup {disk'.obs[t.id]}]
    <3>1. DeliveryOK(d)
      BY DEF IInv, Globals
    <3>2. /\ disk.obs[d] # "absent" => disk'.obs[d] # "absent"
          /\ disk.obs[d] \in Terminal => disk'.obs[d] = disk.obs[d]
          /\ disk'.obs[d] = "completed" => outcome[d] = "ok"
          /\ disk'.obs[d] = "rejected" => runs[d] = 0 /\ ~Queued(d)
      BY <1>2, NextFileKeeps
    <3>3. Claimed(d) => Claimed(d)'
      BY <1>2, <3>2 DEF Claimed
    <3>4. d = t.id => disk.obs[d] \notin Terminal
      BY <1>4, <1>5, <2>3 DEF Edit, Terminal
    <3>5. answers'[d] = IF d = t.id THEN answers[d] \cup {disk'.obs[d]} ELSE answers[d]
      BY <1>4, <1>6, <2>3
    <3>6. d = t.id => answers'[d] = {disk'.obs[d]} /\ disk'.obs[d] \in Terminal
      BY <1>2, <2>3, <3>1, <3>4, <3>5 DEF DeliveryOK
    <3>7. d # t.id => answers'[d] = answers[d]
      BY <3>5
    <3>8. /\ answers'[d] \subseteq {disk'.obs[d]}
          /\ answers'[d] # {} => disk'.obs[d] \in Terminal
      BY <1>2, <3>1, <3>2, <3>6, <3>7 DEF DeliveryOK
    <3>9. \E o \in ObsStatus : answers'[d] \subseteq {o}
      BY <1>6, <3>8
    <3> QED
      BY <1>1, <1>2, <2>1, <3>1, <3>2, <3>3, <3>8, <3>9 DEF DeliveryOK
  <2> QED
    BY <1>a, <2>2, <2>3
<1>10. Globals'
  BY <1>1, <1>8 DEF IInv, Globals, QueueOnce
<1>11. \A x \in Permits, y \in Tasks : x # s /\ y = tasks[x] => SlotOK(x, y)'
  BY <1>1, <1>2, NextFileSlot
<1>12. CASE t.pc = "beginning" /\ t.buf.obs[t.id] = "pending"
  <2>p. "send" \in Places
    BY DEF Places, Verdicts, Terminal
  <2> PICK u \in Tasks :
                /\ u = MovedTo(t, "send")
                /\ u.op = t.op /\ u.id = t.id /\ u.pc = "send" /\ u.attempt = t.attempt
                /\ u.cancelled = t.cancelled /\ u.verdict = t.verdict /\ u.buf = Torn
    BY Moved, <2>p
  <2>1. tasks' = [tasks EXCEPT ![s] = u]
    BY <1>12 DEF Persist, Written, Goto, Become, MovedTo
  <2>2. t.op = "observe" /\ t.id \in Deliveries /\ disk.obs[t.id] = "absent" /\ disk'.obs[t.id] = "pending"
    BY <1>1, <1>4, <1>5, <1>12 DEF Edit
  <2>3. runs[t.id] = 0 /\ ~Queued(t.id)
    <3>1. DeliveryOK(t.id) /\ ~Claimed(t.id)
      BY <1>2, <2>2 DEF IInv, Globals, Claimed
    <3> QED
      BY <3>1 DEF DeliveryOK
  <2>4. SlotOK(s, u)'
    <3>1. Observing(u)'
      BY <1>1, <1>2, <2>2, <2>3 DEF Observing, Claimed, Queued
    <3>2. Local(u)' /\ Holding(s, u)' /\ Invoking(s, u)' /\ Cancelling(u)'
      BY <1>1, <1>3, <2>2 DEF Local, Holding, Invoking, Cancelling, WritingPlaces
    <3> QED
      BY <3>1, <3>2 DEF SlotOK
  <2>5. ASSUME NEW x \in Permits, NEW y \in Tasks, x # s, y = tasks[x]
        PROVE  Apart(u, y) /\ Apart(y, u)
    <3>1. SlotOK(x, y) /\ Apart(t, y) /\ Apart(y, t)
      BY <2>5
    <3>2. ~(y.op = "observe" /\ y.id = t.id /\ y.pc \in {"send", "finish", "finishing"})
      BY <1>2, <2>2, <3>1 DEF SlotOK, Observing, Claimed
    <3> QED
      BY <2>2, <3>1, <3>2 DEF Apart
  <2> QED
    BY ONLY IInv, <1>7, <1>10, <1>11, <2>1, <2>4, <2>5, OneSlot
<1>13. CASE t.pc \in {"swapping", "noting"}
  <2>p. "unregister" \in Places
    BY DEF Places, Verdicts, Terminal
  <2> PICK u \in Tasks :
                /\ u = MovedTo(t, "unregister")
                /\ u.op = t.op /\ u.id = t.id /\ u.pc = "unregister" /\ u.attempt = t.attempt
                /\ u.cancelled = t.cancelled /\ u.verdict = t.verdict /\ u.buf = Torn
    BY Moved, <2>p
  <2>1. tasks' = [tasks EXCEPT ![s] = u]
    BY <1>13 DEF Persist, Written, Goto, Become, MovedTo
  <2>2. SlotOK(s, u)'
    BY <1>1, <1>3, <1>4, <1>13 DEF SlotOK, Local, Holding, Observing, Invoking, Cancelling, WritingPlaces
  <2>3. \A x \in Permits, y \in Tasks : x # s /\ y = tasks[x] => Apart(u, y) /\ Apart(y, u)
    BY StaysApart
  <2> QED
    BY ONLY IInv, <1>7, <1>10, <1>11, <2>1, <2>2, <2>3, OneSlot
<1>14. CASE t.pc = "changing"
  <2>p. "status" \in Places
    BY DEF Places, Verdicts, Terminal
  <2> PICK u \in Tasks :
                /\ u = MovedTo(t, "status")
                /\ u.op = t.op /\ u.id = t.id /\ u.pc = "status" /\ u.attempt = t.attempt
                /\ u.cancelled = t.cancelled /\ u.verdict = t.verdict /\ u.buf = Torn
    BY Moved, <2>p
  <2>1. tasks' = [tasks EXCEPT ![s] = u]
    BY <1>14 DEF Persist, Written, Goto, Become, MovedTo
  <2>3. SlotOK(s, u)'
    BY <1>1, <1>3, <1>4, <1>14 DEF SlotOK, Local, Holding, Observing, Invoking, Cancelling, WritingPlaces
  <2>4. \A x \in Permits, y \in Tasks : x # s /\ y = tasks[x] => Apart(u, y) /\ Apart(y, u)
    BY StaysApart
  <2> QED
    BY ONLY IInv, <1>7, <1>10, <1>11, <2>1, <2>3, <2>4, OneSlot
<1>15. CASE /\ ~(t.pc = "beginning" /\ t.buf.obs[t.id] = "pending")
            /\ t.pc \notin {"swapping", "noting"} /\ t.pc # "changing"
  <2>1. tasks' = [tasks EXCEPT ![s] = Idle]
    BY <1>15 DEF Persist, Written, End, Become
  <2>2. SlotOK(s, Idle)'
    BY <1>1, <1>3, IdleTask DEF SlotOK, Local, Holding, Observing, Invoking, Cancelling, WritingPlaces
  <2> QED
    BY ONLY IInv, <1>7, <1>10, <1>11, <2>1, <2>2, IdleTask, IdleApart, OneSlot
<1> QED
  BY <1>12, <1>13, <1>14, <1>15

-----------------------------------------------------------------------------
(***************************************************************************)
(* The map of running invocations                                          *)
(***************************************************************************)
RestButMap == <<disk, filed, nonces, receipts, loaded, status, lock, queue, working, canonical,
                sent, runs, outcome, answers, cancelAnswers>>

\* Writing one's own entry of the map takes no other invocation's away.
LEMMA MapStep ==
    ASSUME IInv, NEW s \in Permits, NEW u \in Tasks, NEW v \in Permits \cup {None, Orphan},
           UNCHANGED RestButMap, registered' = [registered EXCEPT ![tasks[s].id] = v],
           tasks[s].op \in {"invoke", "write", "read"},
           tasks' = [tasks EXCEPT ![s] = u], SlotOK(s, u)',
           \A x \in Permits, y \in Tasks : x # s /\ y = tasks[x] => Apart(u, y) /\ Apart(y, u)
    PROVE  IInv'
<1> PICK t \in Tasks :
              /\ t = tasks[s] /\ SlotOK(s, t)
              /\ \A x \in Permits, y \in Tasks :
                    x # s /\ y = tasks[x] => SlotOK(x, y) /\ Apart(t, y) /\ Apart(y, t)
  BY Here
<1>1. UNCHANGED <<disk, filed, nonces, receipts, loaded, status, lock, queue, working, canonical,
                  sent, runs, outcome, answers, cancelAnswers>>
  BY DEF RestButMap
<1>2. registered \in [Invocations \cup Writes \cup Reads -> Permits \cup {None, Orphan}]
  BY DEF IInv, Types, FileTypes
<1>3. /\ registered' \in [Invocations \cup Writes \cup Reads -> Permits \cup {None, Orphan}]
      /\ \A i \in Invocations : i # t.id => registered'[i] = registered[i]
  BY <1>2
<1>4. FileTypes'
  BY <1>1, <1>3 DEF IInv, Types, FileTypes
<1>5. Globals'
  BY <1>1 DEF IInv, Globals, DeliveryOK, Claimed, Queued, QueueOnce
<1>6. ASSUME NEW x \in Permits, NEW y \in Tasks, x # s, y = tasks[x]
      PROVE  SlotOK(x, y)'
  <2>1. SlotOK(x, y) /\ Apart(t, y)
    BY <1>6
  <2>2. y.op = "invoke" => y.id \in Invocations /\ y.id # t.id
    <3>1. t.op = "invoke" \/ t.id \in Writes \cup Reads
      BY DEF SlotOK, Local
    <3>2. Invocations \cap (Writes \cup Reads) = {}
      BY HostAssumption
    <3> QED
      BY <2>1, <3>1, <3>2 DEF SlotOK, Local, Apart
  <2>3. Invoking(x, y)'
    BY <1>1, <1>3, <2>1, <2>2 DEF SlotOK, Invoking
  <2>4. Holding(x, y)'
    BY <1>1, <2>1 DEF SlotOK, Holding, Edit
  <2>5. Observing(y)'
    BY <1>1, <2>1 DEF SlotOK, Observing, Queued, Claimed
  <2>6. Cancelling(y)'
    BY <1>1, <2>1 DEF SlotOK, Cancelling
  <2> QED
    BY <2>1, <2>3, <2>4, <2>5, <2>6 DEF SlotOK, Local
<1> QED
  BY ONLY IInv, <1>4, <1>5, <1>6, OneSlot, u \in Tasks, SlotOK(s, u)', tasks' = [tasks EXCEPT ![s] = u],
          \A x \in Permits, y \in Tasks : x # s /\ y = tasks[x] => Apart(u, y) /\ Apart(y, u)

LEMMA MapEnd ==
    ASSUME IInv, NEW s \in Permits, NEW v \in Permits \cup {None, Orphan},
           UNCHANGED RestButMap, registered' = [registered EXCEPT ![tasks[s].id] = v],
           tasks[s].op \in {"invoke", "write", "read"}, tasks[s].pc \notin WritingPlaces, End(s)
    PROVE  IInv'
<1>1. lock # s
  BY Here DEF SlotOK, Holding
<1>2. tasks' = [tasks EXCEPT ![s] = Idle]
  BY DEF End, Become
<1>3. lock' = lock
  BY DEF RestButMap
<1>4. SlotOK(s, Idle)'
  BY <1>1, <1>3, IdleTask DEF SlotOK, Local, Holding, Observing, Invoking, Cancelling, WritingPlaces
<1> QED
  BY <1>2, <1>4, IdleTask, IdleApart, MapStep

LEMMA RegisterStep ==
    ASSUME IInv, NEW s \in Permits, Register(s)
    PROVE  IInv'
<1> PICK t \in Tasks :
              /\ t = tasks[s] /\ SlotOK(s, t)
              /\ \A x \in Permits, y \in Tasks :
                    x # s /\ y = tasks[x] => SlotOK(x, y) /\ Apart(t, y) /\ Apart(y, t)
  BY Here
<1>1. t.op \in {"invoke", "write", "read"} /\ t.pc = "register" /\ t.id \in Invocations \cup Writes \cup Reads
  BY DEF Register, SlotOK, Local, Tasks, Operations
<1>2. UNCHANGED RestButMap
  BY DEF Register, RestButMap, files, cancels, runtime, history
<1>3. CASE registered[t.id] = None
  <2>1. registered' = [registered EXCEPT ![t.id] = s] /\ Goto(s, "recheck")
    BY <1>3 DEF Register
  <2>p. "recheck" \in Places
    BY DEF Places, Verdicts, Terminal
  <2> PICK u \in Tasks :
                /\ u = MovedTo(t, "recheck")
                /\ u.op = t.op /\ u.id = t.id /\ u.pc = "recheck" /\ u.attempt = t.attempt
                /\ u.cancelled = t.cancelled /\ u.verdict = t.verdict /\ u.buf = Torn
    BY Moved, <2>p
  <2>2. tasks' = [tasks EXCEPT ![s] = u]
    BY <2>1 DEF Goto, Become, MovedTo
  <2>3. registered'[t.id] = s
    BY <1>1, <2>1 DEF IInv, Types, FileTypes
  <2>4. UNCHANGED <<lock, canonical, sent, loaded>>
    BY <1>2 DEF RestButMap
  <2>5. SlotOK(s, u)'
    BY <1>1, <2>3, <2>4 DEF SlotOK, Local, Holding, Observing, Invoking, Cancelling, WritingPlaces
  <2>6. \A x \in Permits, y \in Tasks : x # s /\ y = tasks[x] => Apart(u, y) /\ Apart(y, u)
    BY StaysApart
  <2>7. t.id = tasks[s].id /\ t.op = tasks[s].op /\ s \in Permits \cup {None, Orphan}
    OBVIOUS
  <2> QED
    BY ONLY IInv, <1>1, <1>2, <2>1, <2>2, <2>5, <2>6, <2>7, MapStep
<1>4. CASE registered[t.id] # None
  BY <1>1, <1>2, <1>4, MapEnd DEF Register, WritingPlaces
<1> QED
  BY <1>3, <1>4

LEMMA RecheckStep ==
    ASSUME IInv, NEW s \in Permits, Recheck(s)
    PROVE  IInv'
<1> PICK t \in Tasks :
              /\ t = tasks[s] /\ SlotOK(s, t)
              /\ \A x \in Permits, y \in Tasks :
                    x # s /\ y = tasks[x] => SlotOK(x, y) /\ Apart(t, y) /\ Apart(y, t)
  BY Here
<1>1. t.op \in {"invoke", "write", "read"} /\ t.pc = "recheck"
  BY DEF Recheck, SlotOK, Local, Tasks, Operations
<1>2. CASE StillActive
  <2>1. UNCHANGED Rest
    BY <1>2 DEF Recheck, Rest, files, cancels, runtime, history
  <2> PICK p \in {"running", "locked"} :
              /\ Become(s, [tasks[s] EXCEPT !.attempt = 1, !.pc = p])
              /\ p = "running" <=> t.op = "invoke"
    BY <1>2 DEF Recheck
  <2>2. 1 \in 0..MaxAttempts
    BY HostAssumption
  <2>p. p \in Places /\ 1 \in 0..MaxAttempts
    BY <2>2 DEF Places, Verdicts, Terminal
  <2> PICK u \in Tasks :
                /\ u = AttemptAt(t, 1, p)
                /\ u.op = t.op /\ u.id = t.id /\ u.pc = p /\ u.attempt = 1
                /\ u.cancelled = t.cancelled /\ u.verdict = t.verdict /\ u.buf = t.buf
    BY Attempted, <2>p
  <2>3. tasks' = [tasks EXCEPT ![s] = u]
    BY DEF Become, AttemptAt
  <2>5. SlotOK(s, u)
    BY <1>1 DEF SlotOK, Local, Holding, Observing, Invoking, Cancelling, WritingPlaces
  <2> QED
    BY <2>1, <2>3, <2>5, QuietMove
<1>3. CASE ~StillActive
  <2>1. UNCHANGED RestButMap
    BY <1>3 DEF Recheck, RestButMap, files, cancels, runtime, history
  <2> QED
    BY <1>1, <1>3, <2>1, MapEnd DEF Recheck, WritingPlaces
<1> QED
  BY <1>2, <1>3

LEMMA UnregisterStep ==
    ASSUME IInv, NEW s \in Permits, Unregister(s)
    PROVE  IInv'
<1> PICK t \in Tasks :
              /\ t = tasks[s] /\ SlotOK(s, t)
              /\ \A x \in Permits, y \in Tasks :
                    x # s /\ y = tasks[x] => SlotOK(x, y) /\ Apart(t, y) /\ Apart(y, t)
  BY Here
<1>1. t.op \in {"invoke", "write", "read"} /\ t.pc = "unregister"
  BY DEF Unregister, SlotOK, Local, Tasks, Operations
<1>2. UNCHANGED RestButMap
  BY DEF Unregister, RestButMap, files, cancels, runtime, history
<1> QED
  BY <1>1, <1>2, MapEnd DEF Unregister, WritingPlaces

-----------------------------------------------------------------------------
(***************************************************************************)
(* The observer channel and its worker                                     *)
(***************************************************************************)
LEMMA QueueAppended ==
    ASSUME NEW d \in Deliveries, queue \in Seq(Deliveries), QueueOnce, ~Queued(d),
           queue' = Append(queue, d)
    PROVE  /\ queue' \in Seq(Deliveries) /\ Len(queue') = Len(queue) + 1
           /\ \A e \in Deliveries : Queued(e)' <=> Queued(e) \/ e = d
           /\ QueueOnce'
<1>1. /\ queue' \in Seq(Deliveries) /\ Len(queue') = Len(queue) + 1 /\ Len(queue) \in Nat
      /\ DOMAIN queue = 1..Len(queue) /\ DOMAIN queue' = 1..(Len(queue) + 1)
      /\ \A n \in 1..Len(queue) : queue'[n] = queue[n]
      /\ queue'[Len(queue) + 1] = d
  OBVIOUS
<1>2. ASSUME NEW n \in DOMAIN queue'
      PROVE  \/ n \in DOMAIN queue /\ queue'[n] = queue[n]
             \/ n = Len(queue) + 1 /\ queue'[n] = d
  BY <1>1
<1>3. \A n \in DOMAIN queue : n \in DOMAIN queue' /\ queue'[n] = queue[n]
  BY <1>1
<1>4. \A e \in Deliveries : Queued(e)' <=> Queued(e) \/ e = d
  BY <1>1, <1>2, <1>3 DEF Queued
<1>5. ASSUME NEW m \in DOMAIN queue', NEW n \in DOMAIN queue', queue'[m] = queue'[n]
      PROVE  m = n
  <2>1. \A k \in DOMAIN queue : queue[k] # d
    BY DEF Queued
  <2> QED
    BY <1>2, <1>5, <2>1 DEF QueueOnce
<1> QED
  BY <1>1, <1>4, <1>5 DEF QueueOnce

LEMMA QueueTaken ==
    ASSUME queue \in Seq(Deliveries), queue # <<>>, QueueOnce, queue' = Tail(queue)
    PROVE  /\ queue' \in Seq(Deliveries) /\ Len(queue') < Len(queue) /\ Head(queue) \in Deliveries
           /\ Queued(Head(queue)) /\ QueueOnce'
           /\ \A e \in Deliveries : Queued(e)' <=> Queued(e) /\ e # Head(queue)
<1>1. /\ queue' \in Seq(Deliveries) /\ Len(queue) \in Nat \ {0} /\ Len(queue') = Len(queue) - 1
      /\ DOMAIN queue = 1..Len(queue) /\ DOMAIN queue' = 1..(Len(queue) - 1)
      /\ \A n \in 1..(Len(queue) - 1) : queue'[n] = queue[n + 1]
      /\ Head(queue) = queue[1] /\ Head(queue) \in Deliveries
  OBVIOUS
<1>2. \A n \in DOMAIN queue' : n + 1 \in DOMAIN queue /\ queue'[n] = queue[n + 1] /\ n + 1 # 1 /\ n \in Int
  BY <1>1
<1>3. \A n \in DOMAIN queue : n # 1 => n - 1 \in DOMAIN queue' /\ queue'[n - 1] = queue[n]
  <2> TAKE n \in DOMAIN queue
  <2> HAVE n # 1
  <2>1. n - 1 \in 1..(Len(queue) - 1) /\ (n - 1) + 1 = n
    BY <1>1
  <2> QED
    BY <1>1, <2>1
<1>4. 1 \in DOMAIN queue
  BY <1>1
<1>5. \A m, n \in DOMAIN queue : queue[m] = queue[n] => m = n
  BY DEF QueueOnce
<1>6. ASSUME NEW e \in Deliveries
      PROVE  Queued(e)' <=> Queued(e) /\ e # Head(queue)
  <2>1. ASSUME Queued(e)'
        PROVE  Queued(e) /\ e # Head(queue)
    <3> PICK n \in DOMAIN queue' : queue'[n] = e
      BY <2>1 DEF Queued
    <3>1. n + 1 \in DOMAIN queue /\ queue[n + 1] = e /\ n + 1 # 1
      BY <1>2
    <3> QED
      BY <1>1, <1>4, <1>5, <3>1 DEF Queued
  <2>2. ASSUME Queued(e), e # Head(queue)
        PROVE  Queued(e)'
    <3> PICK n \in DOMAIN queue : queue[n] = e
      BY <2>2 DEF Queued
    <3>1. n # 1
      BY <1>1, <2>2
    <3> QED
      BY <1>3, <3>1 DEF Queued
  <2> QED
    BY <2>1, <2>2
<1>7. QueueOnce'
  <2> SUFFICES ASSUME NEW m \in DOMAIN queue', NEW n \in DOMAIN queue', queue'[m] = queue'[n]
               PROVE  m = n
    BY DEF QueueOnce
  <2>1. m + 1 = n + 1 /\ m \in Int /\ n \in Int
    BY <1>2, <1>5
  <2> QED
    BY <2>1
<1>8. Queued(Head(queue))
  BY <1>1, <1>4 DEF Queued
<1> QED
  BY <1>1, <1>6, <1>7, <1>8

\* No task moves.
LEMMA SlotsKept ==
    ASSUME IInv, UNCHANGED tasks,
           \A x \in Permits, y \in Tasks : y = tasks[x] => SlotOK(x, y)'
    PROVE  Slots'
<1>1. tasks \in [Permits -> Tasks]
  BY DEF IInv, Types
<1>2. ASSUME NEW x \in Permits
      PROVE  SlotOK(x, tasks[x])'
  <2> PICK y \in Tasks : y = tasks[x]
    BY <1>1
  <2>1. SlotOK(x, y)' /\ y = tasks'[x]
    OBVIOUS
  <2> QED
    BY <2>1 DEF SlotOK, Local, Holding, Edit, Observing, Invoking, Cancelling
<1>3. \A x, z \in Permits : x # z => Apart(tasks'[x], tasks'[z])
  BY DEF IInv, Slots
<1> QED
  BY <1>2, <1>3 DEF Slots, Apart

LEMMA SendStep ==
    ASSUME IInv, NEW s \in Permits, Send(s)
    PROVE  IInv'
<1> PICK t \in Tasks :
              /\ t = tasks[s] /\ SlotOK(s, t)
              /\ \A x \in Permits, y \in Tasks :
                    x # s /\ y = tasks[x] => SlotOK(x, y) /\ Apart(t, y) /\ Apart(y, t)
  BY Here
<1>1. t.op = "observe" /\ t.pc = "send" /\ t.id \in Deliveries
  BY DEF Send, At, SlotOK, Local
<1>2. /\ Claimed(t.id) /\ runs[t.id] = 0 /\ ~Queued(t.id)
      /\ disk # Torn => disk.obs[t.id] # "rejected"
  BY <1>1 DEF SlotOK, Observing
<1>3. lock # s
  BY <1>1 DEF SlotOK, Holding, WritingPlaces
<1>4. CASE QueueHasRoom
  <2>1. queue' = Append(queue, t.id) /\ Goto(s, "waiting")
    BY <1>4 DEF Send
  <2>p. "waiting" \in Places
    BY DEF Places, Verdicts, Terminal
  <2> PICK u \in Tasks :
                /\ u = MovedTo(t, "waiting")
                /\ u.op = t.op /\ u.id = t.id /\ u.pc = "waiting" /\ u.attempt = t.attempt
                /\ u.cancelled = t.cancelled /\ u.verdict = t.verdict /\ u.buf = Torn
    BY Moved, <2>p
  <2>2. tasks' = [tasks EXCEPT ![s] = u]
    BY <2>1 DEF Goto, Become, MovedTo
  <2>3. UNCHANGED <<disk, filed, nonces, receipts, loaded, status, lock, registered, working, canonical,
                    sent, runs, outcome, answers, cancelAnswers>>
    BY DEF Send, files, cancels, runtime, history
  <2>4. queue \in Seq(Deliveries) /\ QueueOnce
    BY DEF IInv, Types, FileTypes, Globals
  <2>5. /\ queue' \in Seq(Deliveries) /\ Len(queue') = Len(queue) + 1
        /\ \A e \in Deliveries : Queued(e)' <=> Queued(e) \/ e = t.id
        /\ QueueOnce'
    BY <1>1, <1>2, <2>1, <2>4, QueueAppended
  <2>6. Len(queue') <= QueueCapacity
    <3>1. Len(queue) < QueueCapacity /\ Len(queue) \in Nat /\ QueueCapacity \in Nat
      BY <1>4, <2>4, HostAssumption DEF QueueHasRoom
    <3> QED
      BY <2>5, <3>1
  <2>7. FileTypes'
    BY <2>3, <2>5, <2>6 DEF IInv, Types, FileTypes
  <2>8. ASSUME NEW e \in Deliveries
        PROVE  DeliveryOK(e)'
    <3>1. DeliveryOK(e)
      BY DEF IInv, Globals
    <3>2. Claimed(e)' <=> Claimed(e)
      BY <2>3 DEF Claimed
    <3> QED
      BY <1>2, <2>3, <2>5, <3>1, <3>2 DEF DeliveryOK
  <2>9. Globals'
    BY <2>3, <2>5, <2>8 DEF IInv, Globals
  <2>10. SlotOK(s, u)'
    <3>1. Observing(u)'
      BY <1>1, <1>2, <2>3 DEF Observing, Claimed
    <3> QED
      BY <1>1, <1>3, <2>3, <3>1 DEF SlotOK, Local, Holding, Invoking, Cancelling, WritingPlaces
  <2>11. ASSUME NEW x \in Permits, NEW y \in Tasks, x # s, y = tasks[x]
         PROVE  SlotOK(x, y)' /\ Apart(u, y) /\ Apart(y, u)
    <3>1. SlotOK(x, y) /\ Apart(t, y) /\ Apart(y, t)
      BY <2>11
    <3>2. Apart(u, y) /\ Apart(y, u)
      BY <3>1, StaysApart
    <3>3. Holding(x, y)'
      BY <2>3, <3>1 DEF SlotOK, Holding, Edit
    <3>4. Invoking(x, y)' /\ Cancelling(y)'
      BY <2>3, <3>1 DEF SlotOK, Invoking, Cancelling
    <3>5. y.op = "observe" => y.id \in Deliveries
      BY <3>1 DEF SlotOK, Local
    <3>6. ~(/\ y.op = "observe" /\ y.id = t.id
            /\ y.pc = "send" \/ (y.pc \in {"finish", "finishing"} /\ y.verdict = "rejected"))
      BY <1>1, <3>1 DEF Apart
    <3>7. Observing(y)'
      BY <2>3, <2>5, <3>1, <3>5, <3>6 DEF SlotOK, Observing, Claimed
    <3> QED
      BY <3>1, <3>2, <3>3, <3>4, <3>7 DEF SlotOK, Local
  <2> QED
    BY ONLY IInv, <2>2, <2>7, <2>9, <2>10, <2>11, OneSlot
<1>5. CASE ~QueueHasRoom
  <2>1. UNCHANGED Rest
    BY <1>5 DEF Send, Rest, files, cancels, runtime, history
  <2>p. "finish" \in Places /\ "rejected" \in Verdicts
    BY DEF Places, Verdicts, Terminal
  <2> PICK u \in Tasks :
                /\ u = JudgedAt(t, "rejected", "finish")
                /\ u.op = t.op /\ u.id = t.id /\ u.pc = "finish" /\ u.attempt = t.attempt
                /\ u.cancelled = t.cancelled /\ u.verdict = "rejected" /\ u.buf = t.buf
    BY Judged, <2>p
  <2>2. tasks' = [tasks EXCEPT ![s] = u]
    BY <1>5 DEF Send, Become, JudgedAt
  <2>3. SlotOK(s, u)
    BY <1>1, <1>2, <1>3 DEF SlotOK, Local, Holding, Observing, Invoking, Cancelling, WritingPlaces, Terminal
  <2>4. \A x \in Permits, y \in Tasks : x # s /\ y = tasks[x] => Apart(u, y) /\ Apart(y, u)
    BY <1>1 DEF Apart
  <2> QED
    BY ONLY IInv, <2>1, <2>2, <2>3, <2>4, Quiet
<1> QED
  BY <1>4, <1>5

LEMMA ObserverStartsStep ==
    ASSUME IInv, ObserverStarts
    PROVE  IInv'
<1>1. /\ working = None /\ queue # <<>> /\ working' = Head(queue) /\ queue' = Tail(queue)
      /\ runs' = [runs EXCEPT ![Head(queue)] = @ + 1]
      /\ UNCHANGED <<disk, filed, nonces, receipts, loaded, status, lock, tasks, registered, canonical,
                     sent, outcome, answers, cancelAnswers>>
  BY DEF ObserverStarts, files, cancels, runtime
<1>2. queue \in Seq(Deliveries) /\ QueueOnce /\ Len(queue) \in Nat /\ Len(queue) <= QueueCapacity
      /\ QueueCapacity \in Nat
  BY HostAssumption DEF IInv, Types, FileTypes, Globals
<1>3. /\ queue' \in Seq(Deliveries) /\ Len(queue') < Len(queue) /\ Head(queue) \in Deliveries
      /\ Queued(Head(queue)) /\ QueueOnce'
      /\ \A e \in Deliveries : Queued(e)' <=> Queued(e) /\ e # Head(queue)
  BY <1>1, <1>2, QueueTaken
<1> PICK d \in Deliveries : d = Head(queue)
  BY <1>3
<1>4. Queued(d) /\ runs[d] = 0 /\ Claimed(d) /\ outcome[d] = "none"
  BY <1>3 DEF IInv, Globals, DeliveryOK
<1>5. runs \in [Deliveries -> Nat]
  BY DEF IInv, Types, FileTypes
<1>6. /\ runs' \in [Deliveries -> Nat] /\ runs'[d] = 1
      /\ \A e \in Deliveries : e # d => runs'[e] = runs[e]
  BY <1>1, <1>4, <1>5
<1>7. Len(queue') <= QueueCapacity
  <2>1. Len(queue') \in Nat
    BY <1>3
  <2> QED
    BY <1>2, <1>3, <2>1
<1>8. Types'
  BY <1>1, <1>3, <1>6, <1>7 DEF IInv, Types, FileTypes
<1>9. ASSUME NEW e \in Deliveries
      PROVE  DeliveryOK(e)'
  <2>1. DeliveryOK(e)
    BY DEF IInv, Globals
  <2>2. Claimed(e)' <=> Claimed(e)
    BY <1>1 DEF Claimed
  <2>3. CASE e = d
    BY <1>1, <1>3, <1>4, <1>6, <2>1, <2>2, <2>3 DEF DeliveryOK
  <2>4. CASE e # d
    BY <1>1, <1>3, <1>6, <2>1, <2>2, <2>4 DEF DeliveryOK
  <2> QED
    BY <2>3, <2>4
<1>10. Globals'
  BY <1>1, <1>3, <1>9 DEF IInv, Globals
<1>11. ASSUME NEW x \in Permits, NEW y \in Tasks, y = tasks[x]
       PROVE  SlotOK(x, y)'
  <2>1. SlotOK(x, y)
    BY <1>11 DEF IInv, Slots
  <2>2. Holding(x, y)'
    BY <1>1, <2>1 DEF SlotOK, Holding, Edit
  <2>3. Invoking(x, y)' /\ Cancelling(y)'
    BY <1>1, <2>1 DEF SlotOK, Invoking, Cancelling
  <2>4. y.op = "observe" => y.id \in Deliveries
    BY <2>1 DEF SlotOK, Local
  <2>5. Observing(y)'
    BY <1>1, <1>3, <1>4, <1>6, <2>1, <2>4 DEF SlotOK, Observing, Claimed
  <2> QED
    BY <2>1, <2>2, <2>3, <2>5 DEF SlotOK, Local
<1>12. Slots'
  BY <1>1, <1>11, SlotsKept
<1> QED
  BY <1>8, <1>10, <1>12 DEF IInv

LEMMA ObserverEndsStep ==
    ASSUME IInv, ObserverEnds
    PROVE  IInv'
<1> PICK o \in {"ok", "error"} : outcome' = [outcome EXCEPT ![working] = o]
  BY DEF ObserverEnds
<1>1. /\ working # None /\ working' = None
      /\ UNCHANGED <<disk, filed, nonces, receipts, loaded, status, lock, tasks, registered, queue, canonical,
                     sent, runs, answers, cancelAnswers>>
  BY DEF ObserverEnds, files, cancels, runtime
<1> PICK d \in Deliveries : d = working
  BY <1>1 DEF IInv, Types, FileTypes
<1>2. outcome \in [Deliveries -> {"none", "ok", "error"}]
  BY DEF IInv, Types, FileTypes
<1>3. /\ outcome' \in [Deliveries -> {"none", "ok", "error"}]
      /\ \A e \in Deliveries : e # d => outcome'[e] = outcome[e]
  BY <1>2
<1>4. outcome[d] = "none" /\ runs[d] = 1
  BY DEF IInv, Globals, DeliveryOK
<1>5. Types'
  BY <1>1, <1>3 DEF IInv, Types, FileTypes
<1>6. ASSUME NEW e \in Deliveries
      PROVE  DeliveryOK(e)'
  <2>1. DeliveryOK(e) /\ None # e
    BY HostAssumption DEF IInv, Globals
  <2>2. (Claimed(e)' <=> Claimed(e)) /\ (Queued(e)' <=> Queued(e))
    BY <1>1 DEF Claimed, Queued
  <2>3. CASE e = d
    BY <1>1, <1>4, <2>1, <2>2, <2>3 DEF DeliveryOK
  <2>4. CASE e # d
    BY <1>1, <1>3, <2>1, <2>2, <2>4 DEF DeliveryOK
  <2> QED
    BY <2>3, <2>4
<1>7. Globals'
  BY <1>1, <1>6 DEF IInv, Globals, QueueOnce
<1>8. ASSUME NEW x \in Permits, NEW y \in Tasks, y = tasks[x]
      PROVE  SlotOK(x, y)'
  <2>1. SlotOK(x, y)
    BY <1>8 DEF IInv, Slots
  <2>2. Holding(x, y)'
    BY <1>1, <2>1 DEF SlotOK, Holding, Edit
  <2>3. Invoking(x, y)' /\ Cancelling(y)'
    BY <1>1, <2>1 DEF SlotOK, Invoking, Cancelling
  <2>4. y.op = "observe" => y.id \in Deliveries
    BY <2>1 DEF SlotOK, Local
  <2>5. Observing(y)'
    BY <1>1, <1>3, <1>4, <2>1, <2>4 DEF SlotOK, Observing, Claimed, Queued
  <2> QED
    BY <2>1, <2>2, <2>3, <2>5 DEF SlotOK, Local
<1>9. Slots'
  BY <1>1, <1>8, SlotsKept
<1> QED
  BY <1>5, <1>7, <1>9 DEF IInv

-----------------------------------------------------------------------------
(***************************************************************************)
(* Cancellation                                                            *)
(***************************************************************************)
CancelTypes ==
    /\ nonces \subseteq Invocations
    /\ receipts \in [Invocations -> {"none", "signalled", "already_terminal"}]
    /\ filed \in [Invocations -> {"none", "signalled", "already_terminal"}]
    /\ cancelAnswers \in [Invocations -> SUBSET {"signalled", "already_terminal"}]

RestButCancel == <<disk, loaded, status, lock, registered, queue, working, canonical,
                   sent, runs, outcome, answers>>

\* No other task rests on the nonces, the cancellation receipts and their answers.
LEMMA CancelKeeps ==
    ASSUME IInv, UNCHANGED RestButCancel, CancelTypes'
    PROVE  /\ FileTypes' /\ Globals'
           /\ \A x \in Permits, y \in Tasks : SlotOK(x, y) => SlotOK(x, y)'
<1>0. UNCHANGED <<disk, loaded, status, lock, registered, queue, working, canonical,
                  sent, runs, outcome, answers>>
  BY DEF RestButCancel
<1>1. FileTypes'
  BY <1>0 DEF IInv, Types, FileTypes, CancelTypes
<1>2. Globals'
  BY <1>0 DEF IInv, Globals, DeliveryOK, Claimed, Queued, QueueOnce
<1>3. ASSUME NEW x \in Permits, NEW y \in Tasks, SlotOK(x, y)
      PROVE  SlotOK(x, y)'
  <2>1. Holding(x, y)'
    BY <1>0, <1>3 DEF SlotOK, Holding, Edit
  <2>2. Observing(y)'
    BY <1>0, <1>3 DEF SlotOK, Observing, Queued, Claimed
  <2>3. Invoking(x, y)' /\ Cancelling(y)'
    BY <1>0, <1>3 DEF SlotOK, Invoking, Cancelling
  <2> QED
    BY <1>3, <2>1, <2>2, <2>3 DEF SlotOK, Local
<1> QED
  BY <1>1, <1>2, <1>3

\* A step of a cancellation, on them and on its own task.
LEMMA CancelStep ==
    ASSUME IInv, NEW s \in Permits, NEW u \in Tasks, UNCHANGED RestButCancel, CancelTypes',
           tasks' = [tasks EXCEPT ![s] = u], SlotOK(s, u), u.op \in {"none", "cancel"}
    PROVE  IInv'
<1>1. /\ FileTypes' /\ Globals'
      /\ \A x \in Permits, y \in Tasks : SlotOK(x, y) => SlotOK(x, y)'
  BY CancelKeeps
<1>2. ASSUME NEW x \in Permits, NEW y \in Tasks, x # s, y = tasks[x]
      PROVE  SlotOK(x, y)' /\ Apart(u, y) /\ Apart(y, u)
  <2>1. SlotOK(x, y)
    BY <1>2 DEF IInv, Slots
  <2> QED
    BY <1>1, <2>1 DEF Apart
<1>3. SlotOK(s, u)'
  BY <1>1
<1> QED
  BY ONLY IInv, <1>1, <1>2, <1>3, OneSlot, tasks' = [tasks EXCEPT ![s] = u]

LEMMA CancelEnd ==
    ASSUME IInv, NEW s \in Permits, UNCHANGED RestButCancel, CancelTypes', End(s),
           tasks[s].pc \notin WritingPlaces
    PROVE  IInv'
<1>1. lock # s
  BY Here DEF SlotOK, Holding
<1>2. SlotOK(s, Idle)
  BY <1>1, IdleFits
<1> QED
  BY <1>2, IdleTask, CancelStep DEF End, Become

\* What a cancellation finds.
LEMMA CancelHere ==
    ASSUME IInv, NEW s \in Permits, tasks[s].op = "cancel"
    PROVE  /\ tasks[s].id \in Invocations /\ tasks[s].id \in sent /\ CancelTypes
           /\ tasks[s].pc \notin WritingPlaces
           /\ tasks[s].pc = "authorize" => tasks[s].verdict \in {"none", "signalled", "already_terminal"}
           /\ tasks[s].pc = "receipt" => tasks[s].verdict \in {"signalled", "already_terminal"}
<1> PICK t \in Tasks : t = tasks[s] /\ SlotOK(s, t)
  BY Here
<1>1. CancelTypes
  BY DEF IInv, Types, FileTypes, CancelTypes
<1> QED
  BY <1>1 DEF SlotOK, Local, Cancelling, WritingPlaces

LEMMA AuthorizeStep ==
    ASSUME IInv, NEW s \in Permits, Authorize(s)
    PROVE  IInv'
<1> PICK t \in Tasks :
              /\ t = tasks[s] /\ SlotOK(s, t)
              /\ \A x \in Permits, y \in Tasks :
                    x # s /\ y = tasks[x] => SlotOK(x, y) /\ Apart(t, y) /\ Apart(y, t)
  BY Here
<1>1. /\ t.op = "cancel" /\ t.pc = "authorize" /\ t.id \in Invocations /\ CancelTypes
      /\ t.pc \notin WritingPlaces /\ t.verdict \in {"none", "signalled", "already_terminal"}
  BY CancelHere DEF Authorize, At
<1>2. UNCHANGED RestButCancel /\ receipts' = receipts /\ filed' = filed
  BY DEF Authorize, RestButCancel, files, runtime
<1>3. CASE t.verdict = "none" /\ NonceUnspent(t.id)
  <2>1. nonces' = nonces \cup {t.id} /\ Goto(s, "signal") /\ cancelAnswers' = cancelAnswers
    BY <1>3 DEF Authorize
  <2>p. "signal" \in Places
    BY DEF Places
  <2> PICK u \in Tasks :
                /\ u = MovedTo(t, "signal")
                /\ u.op = t.op /\ u.id = t.id /\ u.pc = "signal" /\ u.attempt = t.attempt
                /\ u.cancelled = t.cancelled /\ u.verdict = t.verdict /\ u.buf = Torn
    BY Moved, <2>p
  <2>2. tasks' = [tasks EXCEPT ![s] = u]
    BY <2>1 DEF Goto, Become, MovedTo
  <2>3. SlotOK(s, u)
    BY <1>1 DEF SlotOK, Local, Holding, Observing, Invoking, Cancelling, WritingPlaces
  <2>4. CancelTypes'
    BY <1>1, <1>2, <2>1 DEF CancelTypes
  <2> QED
    BY ONLY IInv, <1>1, <1>2, <2>2, <2>3, <2>4, CancelStep, s \in Permits, u \in Tasks, u.op = t.op
<1>4. CASE ~(t.verdict = "none" /\ NonceUnspent(t.id))
  <2>1. /\ End(s) /\ nonces' = nonces
        /\ \/ cancelAnswers' = cancelAnswers
           \/ /\ t.verdict # "none"
              /\ cancelAnswers' = [cancelAnswers EXCEPT ![t.id] = @ \cup {t.verdict}]
    BY <1>4 DEF Authorize, AnswerCancel
  <2>2. CancelTypes'
    BY <1>1, <1>2, <2>1 DEF CancelTypes
  <2> QED
    BY <1>1, <1>2, <2>1, <2>2, CancelEnd
<1> QED
  BY <1>3, <1>4

LEMMA WriteReceiptStep ==
    ASSUME IInv, NEW s \in Permits, WriteReceipt(s)
    PROVE  IInv'
<1> PICK t \in Tasks : t = tasks[s]
  BY DEF IInv, Types
<1>1. /\ t.op = "cancel" /\ t.id \in Invocations /\ CancelTypes
      /\ t.pc \notin WritingPlaces /\ t.verdict \in {"signalled", "already_terminal"}
  BY CancelHere DEF WriteReceipt, At
<1>2. UNCHANGED RestButCancel /\ nonces' = nonces
  BY DEF WriteReceipt, RestButCancel, runtime
<1>3. /\ receipts' = [receipts EXCEPT ![t.id] = t.verdict] /\ End(s)
      /\ filed' = filed \/ filed' = receipts'
      /\ \/ cancelAnswers' = cancelAnswers
         \/ cancelAnswers' = [cancelAnswers EXCEPT ![t.id] = @ \cup {t.verdict}]
  BY DEF WriteReceipt, AnswerCancel
<1>4. CancelTypes'
  BY <1>1, <1>2, <1>3 DEF CancelTypes
<1> QED
  BY <1>1, <1>2, <1>3, <1>4, CancelEnd

LEMMA CancelFailsStep ==
    ASSUME IInv, NEW s \in Permits, CancelFails(s)
    PROVE  IInv'
<1> PICK t \in Tasks : t = tasks[s]
  BY DEF IInv, Types
<1>1. /\ t.op = "cancel" /\ t.id \in Invocations /\ CancelTypes
      /\ t.pc \notin WritingPlaces /\ (t.pc = "receipt" => t.verdict \in {"signalled", "already_terminal"})
  BY CancelHere DEF CancelFails, At
<1>2. UNCHANGED RestButCancel /\ receipts' = receipts /\ cancelAnswers' = cancelAnswers /\ End(s)
  BY DEF CancelFails, RestButCancel, history
<1>3. \/ nonces' = nonces \cup {t.id} /\ filed' = filed
      \/ /\ t.pc = "receipt" /\ nonces' = nonces
         /\ filed' \in {filed, [receipts EXCEPT ![t.id] = t.verdict]}
  BY DEF CancelFails, At
<1>4. CancelTypes'
  BY <1>1, <1>2, <1>3 DEF CancelTypes
<1> QED
  BY <1>1, <1>2, <1>4, CancelEnd

LEMMA ExpireNonceStep ==
    ASSUME IInv, NEW i \in Invocations, ExpireNonce(i)
    PROVE  IInv'
<1>1. UNCHANGED RestButCancel /\ UNCHANGED <<tasks, receipts, filed, cancelAnswers>> /\ nonces' \subseteq nonces
  BY DEF ExpireNonce, RestButCancel, files, runtime, history
<1>2. CancelTypes'
  BY <1>1 DEF CancelTypes, IInv, Types, FileTypes
<1>3. /\ FileTypes' /\ Globals'
      /\ \A x \in Permits, y \in Tasks : SlotOK(x, y) => SlotOK(x, y)'
  BY <1>1, <1>2, CancelKeeps
<1>4. ASSUME NEW x \in Permits, NEW y \in Tasks, y = tasks[x]
      PROVE  SlotOK(x, y)'
  <2>1. SlotOK(x, y)
    BY <1>4 DEF IInv, Slots
  <2> QED
    BY <1>3, <2>1
<1>5. Slots'
  BY <1>1, <1>4, SlotsKept
<1>6. tasks' \in [Permits -> Tasks]
  BY <1>1 DEF IInv, Types
<1> QED
  BY <1>3, <1>5, <1>6 DEF IInv, Types

-----------------------------------------------------------------------------
(***************************************************************************)
(* Tokens are signalled                                                    *)
(***************************************************************************)
\* The task z is y, its token cancelled perhaps.
AsSignalled(z, y) ==
    /\ z.op = y.op /\ z.id = y.id /\ z.pc = y.pc /\ z.attempt = y.attempt
    /\ z.number = y.number /\ z.verdict = y.verdict /\ z.buf = y.buf
    /\ y.cancelled => z.cancelled

Token(y) == [y EXCEPT !.cancelled = TRUE]

LEMMA TokenTask ==
    ASSUME NEW y \in Tasks
    PROVE  Token(y) \in Tasks /\ AsSignalled(Token(y), y) /\ Token(y).cancelled = TRUE
<1> DEFINE z == Token(y)
<1>1. z \in Tasks
  BY DEF Tasks, Token
<1>2. /\ z.op = y.op /\ z.id = y.id /\ z.pc = y.pc /\ z.attempt = y.attempt
      /\ z.number = y.number /\ z.verdict = y.verdict /\ z.buf = y.buf /\ z.cancelled = TRUE
  BY DEF Tasks, Token
<1> HIDE DEF z
<1>3. AsSignalled(z, y)
  BY <1>2 DEF AsSignalled
<1> QED
  BY <1>1, <1>2, <1>3 DEF z

LEMMA SignalledTasks ==
    ASSUME IInv, NEW R
    PROVE  /\ Signalled(R) \in [Permits -> Tasks]
           /\ \A x \in Permits : AsSignalled(Signalled(R)[x], tasks[x]) /\ (x \in R => Signalled(R)[x].cancelled)
<1>1. tasks \in [Permits -> Tasks]
  BY DEF IInv, Types
<1>2. Signalled(R) = [x \in Permits |-> IF x \in R THEN Token(tasks[x]) ELSE tasks[x]]
  BY DEF Signalled, Token
<1>3. ASSUME NEW y \in Tasks
      PROVE  AsSignalled(y, y)
  BY DEF AsSignalled
<1>4. ASSUME NEW x \in Permits
      PROVE  /\ Signalled(R)[x] \in Tasks /\ AsSignalled(Signalled(R)[x], tasks[x])
             /\ x \in R => Signalled(R)[x].cancelled
  <2>1. Signalled(R)[x] = IF x \in R THEN Token(tasks[x]) ELSE tasks[x]
    BY <1>2
  <2> PICK y \in Tasks : y = tasks[x]
    BY <1>1
  <2>2. CASE x \in R
    <3>1. Signalled(R)[x] = Token(y)
      BY <2>1, <2>2
    <3> QED
      BY <3>1, TokenTask
  <2>3. CASE x \notin R
    <3>1. Signalled(R)[x] = y
      BY <2>1, <2>3
    <3> QED
      BY <1>3, <2>3, <3>1
  <2> QED
    BY <2>2, <2>3
<1> QED
  BY <1>2, <1>4

LEMMA SignalKeepsApart ==
    ASSUME NEW t \in Tasks, NEW y \in Tasks, NEW z \in Tasks, NEW w \in Tasks,
           AsSignalled(w, t), AsSignalled(z, y), Apart(t, y)
    PROVE  Apart(w, z)
  BY DEF Apart, AsSignalled

LEMMA SignalKeepsSlot ==
    ASSUME NEW x \in Permits, NEW y \in Tasks, NEW z \in Tasks, SlotOK(x, y), AsSignalled(z, y)
    PROVE  SlotOK(x, z)
<1>1. Local(z) /\ Holding(x, z)
  BY DEF SlotOK, Local, Holding, Edit, AsSignalled
<1>2. Observing(z)
  BY DEF SlotOK, Observing, AsSignalled
<1>3. Invoking(x, z) /\ Cancelling(z)
  BY DEF SlotOK, Invoking, Cancelling, AsSignalled
<1> QED
  BY <1>1, <1>2, <1>3 DEF SlotOK

\* A step that cancels the tokens of the slots R and changes the task of its own.
LEMMA SignalledSlots ==
    ASSUME IInv, NEW s \in Permits, NEW u \in Tasks, NEW R,
           tasks' \in [Permits -> Tasks], tasks'[s] = u,
           \A x \in Permits : x # s => tasks'[x] = Signalled(R)[x],
           FileTypes', Globals', SlotOK(s, u)',
           \A x \in Permits, y \in Tasks, z \in Tasks :
              x # s /\ y = tasks[x] /\ AsSignalled(z, y) /\ (x \in R => z.cancelled) => SlotOK(x, z)',
           \A x \in Permits, y \in Tasks : x # s /\ y = tasks[x] => Apart(u, y) /\ Apart(y, u)
    PROVE  IInv'
<1>1. tasks \in [Permits -> Tasks]
  BY DEF IInv, Types
<1>2. /\ Signalled(R) \in [Permits -> Tasks]
      /\ \A x \in Permits : AsSignalled(Signalled(R)[x], tasks[x]) /\ (x \in R => Signalled(R)[x].cancelled)
  BY SignalledTasks
<1>3. ASSUME NEW x \in Permits
      PROVE  SlotOK(x, tasks[x])'
  <2>1. CASE x = s
    BY <2>1 DEF SlotOK, Local, Holding, Edit, Observing, Invoking, Cancelling
  <2>2. CASE x # s
    <3> PICK y \in Tasks : y = tasks[x]
      BY <1>1
    <3> PICK z \in Tasks : z = Signalled(R)[x]
      BY <1>2
    <3>1. AsSignalled(z, y) /\ (x \in R => z.cancelled) /\ z = tasks'[x]
      BY <1>2, <2>2
    <3>2. SlotOK(x, z)'
      BY <2>2, <3>1
    <3> QED
      BY <3>1, <3>2 DEF SlotOK, Local, Holding, Edit, Observing, Invoking, Cancelling
  <2> QED
    BY <2>1, <2>2
<1>4. ASSUME NEW y \in Tasks
      PROVE  AsSignalled(y, y)
  BY DEF AsSignalled
<1>5. ASSUME NEW x \in Permits, NEW v \in Permits, x # v
      PROVE  Apart(tasks'[x], tasks'[v])
  <2> PICK y1 \in Tasks : y1 = tasks[x]
    BY <1>1
  <2> PICK y2 \in Tasks : y2 = tasks[v]
    BY <1>1
  <2> PICK z1 \in Tasks : z1 = Signalled(R)[x] /\ AsSignalled(z1, y1)
    BY <1>2
  <2> PICK z2 \in Tasks : z2 = Signalled(R)[v] /\ AsSignalled(z2, y2)
    BY <1>2
  <2>1. Apart(y1, y2)
    BY <1>5 DEF IInv, Slots
  <2>2. CASE x = s
    <3>1. Apart(u, y2) /\ AsSignalled(u, u) /\ tasks'[x] = u /\ tasks'[v] = z2
      BY <1>4, <1>5, <2>2
    <3> QED
      BY <3>1, SignalKeepsApart
  <2>3. CASE v = s
    <3>1. Apart(y1, u) /\ AsSignalled(u, u) /\ tasks'[x] = z1 /\ tasks'[v] = u
      BY <1>4, <1>5, <2>3
    <3> QED
      BY <3>1, SignalKeepsApart
  <2>4. CASE x # s /\ v # s
    <3>1. tasks'[x] = z1 /\ tasks'[v] = z2
      BY <2>4
    <3> QED
      BY <2>1, <3>1, SignalKeepsApart
  <2> QED
    BY <2>2, <2>3, <2>4
<1>6. Slots'
  BY <1>3, <1>5 DEF Slots, Apart
<1> QED
  BY <1>6 DEF IInv, Types

LEMMA SignalStep ==
    ASSUME IInv, NEW s \in Permits, Signal(s)
    PROVE  IInv'
<1> PICK t \in Tasks :
              /\ t = tasks[s] /\ SlotOK(s, t)
              /\ \A x \in Permits, y \in Tasks :
                    x # s /\ y = tasks[x] => SlotOK(x, y) /\ Apart(t, y) /\ Apart(y, t)
  BY Here
<1>1. t.op = "cancel" /\ t.pc = "signal" /\ t.id \in Invocations
  BY DEF Signal, At, SlotOK, Local
<1>r. UNCHANGED Rest
  BY DEF Signal, Rest, files, cancels, runtime, history
<1>2. CASE ~loaded
  BY <1>1, <1>2, <1>r, QuietEnd DEF Signal, End, Become, WritingPlaces
<1>3. CASE loaded
  <2> DEFINE R == {registered[t.id]}
             f == Signalled(R)
             v == IF registered[t.id] = None THEN "already_terminal" ELSE "signalled"
  <2>1. tasks' = [f EXCEPT ![s].verdict = v, ![s].pc = "receipt"]
    BY <1>3 DEF Signal, Signalling
  <2>2. /\ f \in [Permits -> Tasks]
        /\ \A x \in Permits : AsSignalled(f[x], tasks[x]) /\ (x \in R => f[x].cancelled)
    BY SignalledTasks
  <2>3. v \in {"signalled", "already_terminal"}
    OBVIOUS
  <2> HIDE DEF f, v
  <2> PICK w \in Tasks : w = f[s]
    BY <2>2
  <2>4. AsSignalled(w, t)
    BY <2>2
  <2>p. "receipt" \in Places /\ v \in Verdicts
    BY <2>3 DEF Places, Verdicts
  <2> PICK u \in Tasks :
              /\ u = JudgedAt(w, v, "receipt")
              /\ u.op = w.op /\ u.id = w.id /\ u.pc = "receipt" /\ u.attempt = w.attempt
              /\ u.cancelled = w.cancelled /\ u.verdict = v /\ u.buf = w.buf
    BY Judged, <2>p
  <2>5. tasks' = [f EXCEPT ![s] = u]
    BY <2>1, <2>2 DEF JudgedAt
  <2>6. /\ tasks' \in [Permits -> Tasks] /\ tasks'[s] = u
        /\ \A x \in Permits : x # s => tasks'[x] = Signalled(R)[x]
    BY <2>2, <2>5 DEF f
  <2>7. lock # s /\ u.op = "cancel" /\ u.id = t.id
    BY <1>1, <2>4 DEF SlotOK, Cancelling, Holding, WritingPlaces, AsSignalled
  <2>8. SlotOK(s, u)
    BY <1>1, <2>3, <2>7 DEF SlotOK, Local, Holding, Observing, Invoking, Cancelling, WritingPlaces
  <2>9. SlotOK(s, u)'
    BY <1>r, <2>8, SlotFrame
  <2>10. ASSUME NEW x \in Permits, NEW y \in Tasks, NEW z \in Tasks,
                x # s, y = tasks[x], AsSignalled(z, y), x \in R => z.cancelled
         PROVE  SlotOK(x, z)'
    <3>1. SlotOK(x, y)
      BY <2>10
    <3>2. SlotOK(x, z)
      BY <2>10, <3>1, SignalKeepsSlot
    <3> QED
      BY <1>r, <3>2, SlotFrame
  <2>11. ASSUME NEW x \in Permits, NEW y \in Tasks, x # s, y = tasks[x]
         PROVE  Apart(u, y) /\ Apart(y, u)
    <3>1. Apart(t, y) /\ Apart(y, t)
      BY <2>11
    <3>2. u.op = t.op /\ u.id = t.id /\ u.pc = "receipt" /\ t.pc = "signal"
      BY <1>1, <2>7
    <3> QED
      BY <3>1, <3>2, StaysApart
  <2>12. FileTypes' /\ Globals'
    BY <1>r, GlobalFrame
  <2> HIDE DEF R
  <2> QED
    BY ONLY IInv, <2>6, <2>9, <2>10, <2>11, <2>12, SignalledSlots
<1> QED
  BY <1>2, <1>3 DEF Signal

-----------------------------------------------------------------------------
(***************************************************************************)
(* The lifecycle                                                           *)
(***************************************************************************)
RestButLife == <<disk, filed, nonces, receipts, loaded, lock, registered, queue, working,
                 sent, runs, outcome, answers, cancelAnswers>>

\* No task rests on the status or on the runtime's record.
LEMMA LifeSlot ==
    ASSUME NEW x \in Permits, NEW y \in Tasks, SlotOK(x, y), UNCHANGED RestButLife
    PROVE  SlotOK(x, y)'
<1>1. UNCHANGED <<disk, filed, nonces, receipts, loaded, lock, registered, queue, sent, runs, outcome>>
  BY DEF RestButLife
<1>3. Holding(x, y)'
  BY <1>1 DEF SlotOK, Holding, Edit
<1>4. Observing(y)'
  BY <1>1 DEF SlotOK, Observing, Queued, Claimed
<1>5. Invoking(x, y)' /\ Cancelling(y)'
  BY <1>1 DEF SlotOK, Invoking, Cancelling
<1> QED
  BY <1>3, <1>4, <1>5 DEF SlotOK, Local

Records == [state : LifeStates \cup {"none", "pending"}, action : Actions \cup {"none"}, number : Nat]

LEMMA LifeGlobals ==
    ASSUME IInv, UNCHANGED RestButLife, status' \in LifeStates, canonical' \in Records
    PROVE  FileTypes' /\ Globals'
<1>1. UNCHANGED <<disk, filed, nonces, receipts, loaded, lock, registered, queue, working,
                  sent, runs, outcome, answers, cancelAnswers>>
  BY DEF RestButLife
<1>2. FileTypes'
  BY <1>1 DEF IInv, Types, FileTypes, Records
<1>3. Globals'
  BY <1>1 DEF IInv, Globals, DeliveryOK, Claimed, Queued, QueueOnce
<1> QED
  BY <1>2, <1>3

LEMMA TargetLife ==
    ASSUME NEW a
    PROVE  Target(a) \in LifeStates
  BY DEF Target, LifeStates

\* The runtime's record stays, or settles on the target.
LEMMA RecordTyped ==
    ASSUME IInv, NEW s \in Permits, Changed(s)
    PROVE  canonical' \in Records
<1>1. canonical \in Records
  BY DEF IInv, Types, FileTypes, Records
<1>2. Target(tasks[s].id) \in LifeStates
  BY TargetLife
<1>3. [canonical EXCEPT !.state = Target(tasks[s].id)] \in Records
  BY <1>1, <1>2 DEF Records
<1> QED
  BY <1>1, <1>3 DEF Changed

LEMMA SetStatusStep ==
    ASSUME IInv, NEW s \in Permits, SetStatus(s)
    PROVE  IInv'
<1> PICK t \in Tasks :
              /\ t = tasks[s] /\ SlotOK(s, t)
              /\ \A x \in Permits, y \in Tasks :
                    x # s /\ y = tasks[x] => SlotOK(x, y) /\ Apart(t, y) /\ Apart(y, t)
  BY Here
<1>1. t.op = "lifecycle" /\ t.pc = "status" /\ status' = Target(t.id) /\ lock # s
  BY DEF SetStatus, At, SlotOK, Holding, WritingPlaces
<1>2. UNCHANGED RestButLife
  BY DEF SetStatus, Changed, RestButLife, files, cancels, runtime, history
<1>3. status' \in LifeStates
  BY <1>1, TargetLife
<1>4. canonical' \in Records
  <2>1. canonical \in Records
    BY DEF IInv, Types, FileTypes, Records
  <2>2. Changed(s) \/ UNCHANGED canonical
    BY DEF SetStatus, runtime
  <2> QED
    BY <2>1, <2>2, RecordTyped
<1>5. FileTypes' /\ Globals'
  BY <1>2, <1>3, <1>4, LifeGlobals
<1>6. \A x \in Permits, y \in Tasks : x # s /\ y = tasks[x] => SlotOK(x, y)'
  BY <1>2, LifeSlot
<1>7. CASE Target(t.id) = "active"
  <2>1. tasks' = [tasks EXCEPT ![s] = Idle]
    BY <1>7 DEF SetStatus, End, Become
  <2>2. SlotOK(s, Idle)
    BY <1>1, IdleFits
  <2>3. SlotOK(s, Idle)'
    BY <1>2, <2>2, IdleTask, LifeSlot
  <2> QED
    BY ONLY IInv, <1>5, <1>6, <2>1, <2>3, IdleTask, IdleApart, OneSlot
<1>8. CASE Target(t.id) # "active"
  <2>p. "preempt" \in Places
    BY DEF Places
  <2> PICK u \in Tasks :
                /\ u = MovedTo(t, "preempt")
                /\ u.op = t.op /\ u.id = t.id /\ u.pc = "preempt" /\ u.attempt = t.attempt
                /\ u.cancelled = t.cancelled /\ u.verdict = t.verdict /\ u.buf = Torn
    BY Moved, <2>p
  <2>1. tasks' = [tasks EXCEPT ![s] = u]
    BY <1>8 DEF SetStatus, Goto, Become, MovedTo
  <2>2. SlotOK(s, u)
    BY <1>1 DEF SlotOK, Local, Holding, Observing, Invoking, Cancelling, WritingPlaces
  <2>3. SlotOK(s, u)'
    BY <1>2, <2>2, LifeSlot
  <2>4. \A x \in Permits, y \in Tasks : x # s /\ y = tasks[x] => Apart(u, y) /\ Apart(y, u)
    BY StaysApart
  <2> QED
    BY ONLY IInv, <1>5, <1>6, <2>1, <2>3, <2>4, OneSlot
<1> QED
  BY <1>7, <1>8

LEMMA PreemptStep ==
    ASSUME IInv, NEW s \in Permits, Preempt(s)
    PROVE  IInv'
<1> PICK t \in Tasks :
              /\ t = tasks[s] /\ SlotOK(s, t)
              /\ \A x \in Permits, y \in Tasks :
                    x # s /\ y = tasks[x] => SlotOK(x, y) /\ Apart(t, y) /\ Apart(y, t)
  BY Here
<1> DEFINE R == {registered[i] : i \in DOMAIN registered}
<1>1. t.op = "lifecycle" /\ t.pc = "preempt" /\ Changed(s) /\ lock # s
  BY DEF Preempt, At, SlotOK, Holding, WritingPlaces
<1>2. UNCHANGED RestButLife /\ status' = status
  BY DEF Preempt, Changed, RestButLife, files, cancels, history
<1>3. status' \in LifeStates
  BY <1>2 DEF IInv, Types, FileTypes
<1>4. FileTypes' /\ Globals'
  BY <1>1, <1>2, <1>3, RecordTyped, LifeGlobals
<1>5. Signalled(R) \in [Permits -> Tasks]
  BY SignalledTasks
<1>6. tasks' = [Signalled(R) EXCEPT ![s] = Idle]
  BY DEF Preempt
<1>7. /\ tasks' \in [Permits -> Tasks] /\ tasks'[s] = Idle
      /\ \A x \in Permits : x # s => tasks'[x] = Signalled(R)[x]
  BY <1>5, <1>6, IdleTask
<1>8. SlotOK(s, Idle)
  BY <1>1, IdleFits
<1>9. SlotOK(s, Idle)'
  BY <1>2, <1>8, IdleTask, LifeSlot
<1>10. ASSUME NEW x \in Permits, NEW y \in Tasks, NEW z \in Tasks,
              x # s, y = tasks[x], AsSignalled(z, y), x \in R => z.cancelled
       PROVE  SlotOK(x, z)'
  <2>1. SlotOK(x, y)
    BY <1>10
  <2>2. SlotOK(x, z)
    BY <1>10, <2>1, SignalKeepsSlot
  <2> QED
    BY <1>2, <2>2, LifeSlot
<1>11. \A x \in Permits, y \in Tasks : x # s /\ y = tasks[x] => Apart(Idle, y) /\ Apart(y, Idle)
  BY IdleApart
<1> HIDE DEF R
<1> QED
  BY ONLY IInv, <1>4, <1>7, <1>9, <1>10, <1>11, IdleTask, SignalledSlots

-----------------------------------------------------------------------------
(***************************************************************************)
(* The runtime's frames                                                    *)
(***************************************************************************)
Spawned(op, id) == [Idle EXCEPT !.op = op, !.id = id, !.pc = "entry"]

LEMMA SpawnedTask ==
    ASSUME NEW op \in Operations,
           NEW id \in Deliveries \cup Invocations \cup Writes \cup Reads \cup Actions
    PROVE  \E u \in Tasks :
              /\ u = Spawned(op, id)
              /\ u.op = op /\ u.id = id /\ u.pc = "entry" /\ u.verdict = "none"
<1> DEFINE u == Spawned(op, id)
<1>1. u.op = op /\ u.id = id /\ u.pc = "entry" /\ u.verdict = "none"
  BY DEF Spawned, Idle
<1>2. u \in Tasks
  <2>1. Idle \in Tasks /\ "entry" \in Places
    BY IdleTask DEF Places
  <2> QED
    BY <2>1 DEF Spawned, Tasks
<1> HIDE DEF u
<1> QED
  BY <1>1, <1>2 DEF u

\* A frame takes a free slot.
LEMMA SpawnTakes ==
    ASSUME IInv, NEW s \in Permits, NEW op \in Operations,
           NEW id \in Deliveries \cup Invocations \cup Writes \cup Reads \cup Actions, Spawn(s, op, id)
    PROVE  /\ \E u \in Tasks :
                 /\ tasks' = [tasks EXCEPT ![s] = u]
                 /\ u.op = op /\ u.id = id /\ u.pc = "entry" /\ u.verdict = "none"
           /\ lock # s
           /\ UNCHANGED <<disk, filed, nonces, receipts, loaded, status, lock, registered, queue, working,
                          runs, outcome, answers, cancelAnswers>>
<1> PICK u \in Tasks :
              /\ u = Spawned(op, id)
              /\ u.op = op /\ u.id = id /\ u.pc = "entry" /\ u.verdict = "none"
  BY SpawnedTask
<1>1. tasks' = [tasks EXCEPT ![s] = u]
  BY DEF Spawn, Become, Spawned
<1>2. tasks[s].pc = "idle"
  BY IdleTask DEF Spawn
<1>3. lock # s
  BY <1>2, Here DEF SlotOK, Holding, WritingPlaces
<1> QED
  BY <1>1, <1>3 DEF Spawn, files, cancels, history

\* A frame that is about no invocation of its own and no change.
LEMMA PlainSpawn ==
    ASSUME IInv, NEW s \in Permits, NEW op \in {"observe", "write", "read", "cancel"},
           NEW id, Spawn(s, op, id), UNCHANGED <<canonical, sent>>,
           /\ op = "observe" => id \in Deliveries
           /\ op = "write" => id \in Writes
           /\ op = "read" => id \in Reads
           /\ op = "cancel" => id \in Invocations /\ id \in sent
    PROVE  IInv'
<1>1. op \in Operations /\ id \in Deliveries \cup Invocations \cup Writes \cup Reads \cup Actions
  BY DEF Operations
<1> PICK u \in Tasks :
              /\ tasks' = [tasks EXCEPT ![s] = u]
              /\ u.op = op /\ u.id = id /\ u.pc = "entry" /\ u.verdict = "none"
  BY <1>1, SpawnTakes
<1>2. lock # s
  BY <1>1, SpawnTakes
<1>3. UNCHANGED Rest
  BY <1>1, SpawnTakes DEF Rest
<1>4. SlotOK(s, u)
  BY <1>2 DEF SlotOK, Local, Holding, Observing, Invoking, Cancelling, WritingPlaces
<1>5. \A x \in Permits, y \in Tasks : x # s /\ y = tasks[x] => Apart(u, y) /\ Apart(y, u)
  BY DEF Apart
<1>6. tasks' = [tasks EXCEPT ![s] = u]
  OBVIOUS
<1> QED
  BY ONLY IInv, <1>3, <1>4, <1>5, <1>6, Quiet

LEMMA SendObserveStep ==
    ASSUME IInv, NEW s \in Permits, SendObserve(s)
    PROVE  IInv'
  BY PlainSpawn DEF SendObserve

LEMMA SendWriteStep ==
    ASSUME IInv, NEW s \in Permits, SendWrite(s)
    PROVE  IInv'
  BY PlainSpawn DEF SendWrite

LEMMA SendReadStep ==
    ASSUME IInv, NEW s \in Permits, SendRead(s)
    PROVE  IInv'
  BY PlainSpawn DEF SendRead

LEMMA SendCancelStep ==
    ASSUME IInv, NEW s \in Permits, SendCancel(s)
    PROVE  IInv'
<1>1. sent \subseteq Invocations
  BY DEF IInv, Types, FileTypes
<1> PICK i \in sent : Spawn(s, "cancel", i) /\ UNCHANGED <<canonical, sent>>
  BY DEF SendCancel
<1> QED
  BY <1>1, PlainSpawn

LEMMA SendInvokeStep ==
    ASSUME IInv, NEW s \in Permits, SendInvoke(s)
    PROVE  IInv'
<1> PICK i \in Invocations \ sent :
              Spawn(s, "invoke", i) /\ sent' = sent \cup {i} /\ UNCHANGED canonical
  BY DEF SendInvoke
<1>1. /\ "invoke" \in Operations
      /\ i \in Deliveries \cup Invocations \cup Writes \cup Reads \cup Actions
  BY DEF Operations
<1> PICK u \in Tasks :
              /\ tasks' = [tasks EXCEPT ![s] = u]
              /\ u.op = "invoke" /\ u.id = i /\ u.pc = "entry" /\ u.verdict = "none"
  BY <1>1, SpawnTakes
<1>2. lock # s
  BY <1>1, SpawnTakes
<1>3. UNCHANGED <<disk, filed, nonces, receipts, loaded, status, lock, registered, queue, working,
                  canonical, runs, outcome, answers, cancelAnswers>>
  BY <1>1, SpawnTakes
<1>4. FileTypes'
  BY <1>3 DEF IInv, Types, FileTypes
<1>5. Globals'
  BY <1>3 DEF IInv, Globals, DeliveryOK, Claimed, Queued, QueueOnce
<1>6. SlotOK(s, u)'
  BY <1>2, <1>3 DEF SlotOK, Local, Holding, Observing, Invoking, Cancelling, WritingPlaces
<1>7. ASSUME NEW x \in Permits, NEW y \in Tasks, x # s, y = tasks[x]
      PROVE  SlotOK(x, y)' /\ Apart(u, y) /\ Apart(y, u)
  <2>1. SlotOK(x, y)
    BY <1>7 DEF IInv, Slots
  <2>2. Holding(x, y)'
    BY <1>3, <2>1 DEF SlotOK, Holding, Edit
  <2>3. Observing(y)'
    BY <1>3, <2>1 DEF SlotOK, Observing, Queued, Claimed
  <2>4. Invoking(x, y)' /\ Cancelling(y)'
    BY <1>3, <2>1 DEF SlotOK, Invoking, Cancelling
  <2>5. y.op = "invoke" => y.id # i
    BY <2>1 DEF SlotOK, Invoking
  <2>6. Apart(u, y) /\ Apart(y, u)
    BY <2>5 DEF Apart
  <2> QED
    BY <2>1, <2>2, <2>3, <2>4, <2>6 DEF SlotOK, Local
<1>8. tasks' = [tasks EXCEPT ![s] = u]
  OBVIOUS
<1> QED
  BY ONLY IInv, <1>4, <1>5, <1>6, <1>7, <1>8, OneSlot

ChangeFrame(a, n) == [Idle EXCEPT !.op = "lifecycle", !.id = a, !.pc = "entry", !.number = n]

LEMMA SendLifecycleStep ==
    ASSUME IInv, NEW s \in Permits, SendLifecycle(s)
    PROVE  IInv'
<1> PICK a \in Actions :
        /\ \/ canonical.state = "pending" /\ a = canonical.action /\ UNCHANGED canonical
           \/ /\ Followup(canonical.state, a)
              /\ canonical' = [state |-> "pending", action |-> a, number |-> canonical.number + 1]
        /\ Become(s, [Idle EXCEPT !.op = "lifecycle", !.id = a, !.pc = "entry",
                                  !.number = canonical'.number])
  BY DEF SendLifecycle
<1>1. canonical \in Records /\ status \in LifeStates
  BY DEF IInv, Types, FileTypes, Records
<1>2. canonical' \in Records /\ canonical'.number \in Nat
  BY <1>1 DEF Records
<1>3. UNCHANGED RestButLife /\ status' = status
  BY DEF SendLifecycle, RestButLife, files, cancels, history
<1>4. FileTypes' /\ Globals'
  BY <1>1, <1>2, <1>3, LifeGlobals
<1> PICK n \in Nat : n = canonical'.number
  BY <1>2
<1> DEFINE u == ChangeFrame(a, n)
<1>5. u \in Tasks
  <2>1. Idle \in Tasks /\ "entry" \in Places /\ "lifecycle" \in Operations
    BY IdleTask DEF Places, Operations
  <2> QED
    BY <2>1 DEF ChangeFrame, Tasks
<1>6. u.op = "lifecycle" /\ u.id = a /\ u.pc = "entry"
  BY DEF ChangeFrame, Idle
<1>7. tasks' = [tasks EXCEPT ![s] = u]
  BY DEF Become, ChangeFrame
<1> HIDE DEF u
<1>8. lock # s
  <2>1. tasks[s].pc = "idle"
    BY IdleTask DEF SendLifecycle
  <2> QED
    BY <2>1, Here DEF SlotOK, Holding, WritingPlaces
<1>9. SlotOK(s, u)
  BY <1>6, <1>8 DEF SlotOK, Local, Holding, Observing, Invoking, Cancelling, WritingPlaces
<1>10. SlotOK(s, u)'
  BY <1>3, <1>5, <1>9, LifeSlot
<1>11. ASSUME NEW x \in Permits, NEW y \in Tasks, x # s, y = tasks[x]
       PROVE  SlotOK(x, y)' /\ Apart(u, y) /\ Apart(y, u)
  <2>1. SlotOK(x, y)
    BY <1>11 DEF IInv, Slots
  <2>2. SlotOK(x, y)'
    BY <1>3, <2>1, LifeSlot
  <2> QED
    BY <1>6, <2>2 DEF Apart
<1> QED
  BY ONLY IInv, <1>4, <1>5, <1>7, <1>10, <1>11, s \in Permits, OneSlot

-----------------------------------------------------------------------------
(***************************************************************************)
(* The host process                                                        *)
(***************************************************************************)
LEMMA CrashFile ==
    ASSUME IInv, Crash
    PROVE  NextFile(disk')
<1>1. CASE lock = None
  BY <1>1 DEF Crash, NextFile
<1>2. CASE lock # None
  <2>1. lock \in Permits
    BY <1>2 DEF IInv, Types, FileTypes
  <2> QED
    BY <2>1 DEF Crash, NextFile
<1> QED
  BY <1>1, <1>2

LEMMA CrashStep ==
    ASSUME IInv, Crash
    PROVE  IInv'
<1>1. /\ loaded' = FALSE /\ lock' = None /\ queue' = <<>> /\ working' = None
      /\ tasks' = [s \in Permits |-> Idle]
      /\ registered' = [i \in DOMAIN registered |-> None]
      /\ receipts' = filed
      /\ UNCHANGED <<filed, nonces, status, canonical, sent, runs, outcome, answers, cancelAnswers>>
  BY DEF Crash, history
<1>2. NextFile(disk')
  BY CrashFile
<1>3. disk' \in Document \cup {Torn}
  BY <1>2, NextFileTyped
<1>4. registered' \in [Invocations \cup Writes \cup Reads -> Permits \cup {None, Orphan}]
  BY <1>1 DEF IInv, Types, FileTypes
<1>5. queue' \in Seq(Deliveries) /\ Len(queue') = 0 /\ QueueCapacity \in Nat
      /\ \A d \in Deliveries : ~Queued(d)'
  BY <1>1, HostAssumption DEF Queued
<1>6. tasks' \in [Permits -> Tasks] /\ \A s \in Permits : tasks'[s] = Idle
  BY <1>1, IdleTask
<1>7. Len(queue') <= QueueCapacity
  BY <1>5
<1>8. FileTypes'
  BY <1>1, <1>3, <1>4, <1>5, <1>7 DEF IInv, Types, FileTypes
<1>9. \A d \in Deliveries : DeliveryOK(d)'
  BY <1>1, <1>2, <1>5, NextFileDelivery
<1>11. QueueOnce'
  BY <1>1 DEF QueueOnce
<1>12. Globals'
  BY <1>9, <1>11 DEF Globals
<1>13. ASSUME NEW s \in Permits
       PROVE  SlotOK(s, tasks[s])'
  <2>1. None # s
    BY HostAssumption
  <2> QED
    BY <1>1, <1>6, <2>1, IdleTask DEF SlotOK, Local, Holding, Observing, Invoking, Cancelling, WritingPlaces
<1>14. \A s, x \in Permits : s # x => Apart(tasks'[s], tasks'[x])
  BY <1>6, IdleTask, IdleApart
<1>15. Slots'
  BY <1>13, <1>14 DEF Slots, Apart
<1> QED
  BY <1>6, <1>8, <1>12, <1>15 DEF IInv, Types

LEMMA LoadStep ==
    ASSUME IInv, Load
    PROVE  IInv'
<1>1. /\ ~loaded /\ disk # Torn /\ loaded' = TRUE /\ status' = disk.life
      /\ UNCHANGED <<disk, filed, nonces, receipts, lock, tasks, registered, queue, working, canonical,
                     sent, runs, outcome, answers, cancelAnswers>>
  BY DEF Load, LoadedStatus, files, cancels, runtime, history
<1>2. disk \in Document /\ disk.life \in LifeStates /\ disk.receipt \in Nat
  BY <1>1, Documents DEF IInv, Types, FileTypes
<1>3. Types'
  BY <1>1, <1>2 DEF IInv, Types, FileTypes
<1>5. Globals'
  BY <1>1 DEF IInv, Globals, DeliveryOK, Claimed, Queued, QueueOnce
<1>6. ASSUME NEW x \in Permits, NEW y \in Tasks, y = tasks[x]
      PROVE  SlotOK(x, y)'
  <2>1. SlotOK(x, y)
    BY <1>6 DEF IInv, Slots
  <2>2. Holding(x, y)'
    BY <1>1, <2>1 DEF SlotOK, Holding, Edit
  <2>3. Observing(y)'
    BY <1>1, <2>1 DEF SlotOK, Observing, Queued, Claimed
  <2>4. Invoking(x, y)' /\ Cancelling(y)'
    BY <1>1, <2>1 DEF SlotOK, Invoking, Cancelling
  <2> QED
    BY <2>1, <2>2, <2>3, <2>4 DEF SlotOK, Local
<1>7. Slots'
  BY <1>1, <1>6, SlotsKept
<1> QED
  BY <1>3, <1>5, <1>7 DEF IInv

LEMMA StutterStep ==
    ASSUME IInv, UNCHANGED vars
    PROVE  IInv'
<1>1. UNCHANGED Rest /\ UNCHANGED tasks
  BY DEF vars, files, cancels, memory, runtime, history, Rest
<1>2. FileTypes' /\ Globals'
  BY <1>1, GlobalFrame
<1>3. ASSUME NEW x \in Permits, NEW y \in Tasks, y = tasks[x]
      PROVE  SlotOK(x, y)'
  <2>1. SlotOK(x, y)
    BY <1>3 DEF IInv, Slots
  <2> QED
    BY <1>1, <2>1, SlotFrame
<1>4. Slots'
  BY <1>1, <1>3, SlotsKept
<1> QED
  BY <1>1, <1>2, <1>4 DEF IInv, Types

-----------------------------------------------------------------------------
(***************************************************************************)
(* The theorems                                                            *)
(***************************************************************************)
LEMMA InitHolds == Init => IInv
<1> SUFFICES ASSUME Init
             PROVE  IInv
  OBVIOUS
<1>1. /\ disk = Fresh /\ nonces = {} /\ receipts = [i \in Invocations |-> "none"] /\ filed = receipts
      /\ loaded = FALSE /\ status = "active" /\ lock = None /\ tasks = [s \in Permits |-> Idle]
      /\ registered = [i \in Invocations \cup Writes \cup Reads |-> None]
      /\ queue = <<>> /\ working = None
      /\ canonical = [state |-> "none", action |-> "none", number |-> 0] /\ sent = {}
      /\ runs = [d \in Deliveries |-> 0] /\ outcome = [d \in Deliveries |-> "none"]
      /\ answers = [d \in Deliveries |-> {}] /\ cancelAnswers = [i \in Invocations |-> {}]
  BY DEF Init
<1>2. /\ Fresh \in Document /\ Fresh.life = "active" /\ Fresh.receipt = 0
      /\ \A d \in Deliveries : Fresh.obs[d] = "absent"
  BY DEF Fresh, Document, LifeStates, ObsStatus
<1>3. queue \in Seq(Deliveries) /\ Len(queue) = 0 /\ QueueCapacity \in Nat
  BY <1>1, HostAssumption
<1>4. FileTypes
  <2>1. Len(queue) <= QueueCapacity
    BY <1>3
  <2>2. canonical \in [state : LifeStates \cup {"none", "pending"}, action : Actions \cup {"none"}, number : Nat]
    BY <1>1
  <2> QED
    BY <1>1, <1>2, <1>3, <2>1, <2>2 DEF FileTypes, LifeStates
<1>5. tasks \in [Permits -> Tasks] /\ \A s \in Permits : tasks[s] = Idle
  BY <1>1, IdleTask
<1>6. ASSUME NEW d \in Deliveries
      PROVE  DeliveryOK(d)
  <2>1. /\ runs[d] = 0 /\ outcome[d] = "none" /\ working # d /\ ~Queued(d) /\ answers[d] = {}
        /\ disk.obs[d] = "absent"
    BY <1>1, <1>2, HostAssumption DEF Queued
  <2> QED
    BY <2>1 DEF DeliveryOK, ObsStatus
<1>7. QueueOnce
  BY <1>1 DEF QueueOnce
<1>9. ASSUME NEW s \in Permits
      PROVE  SlotOK(s, tasks[s])
  <2>1. lock # s
    BY <1>1, HostAssumption
  <2> QED
    BY <1>5, <2>1, IdleFits
<1>10. \A s, x \in Permits : s # x => Apart(tasks[s], tasks[x])
  BY <1>5, IdleTask, IdleApart
<1> QED
  BY <1>4, <1>5, <1>6, <1>7, <1>9, <1>10 DEF IInv, Types, Globals, Slots

LEMMA NextHolds ==
    ASSUME IInv, [Next]_vars
    PROVE  IInv'
<1>1. ASSUME NEW s \in Permits, Step(s)
      PROVE  IInv'
  <2>1. CASE Persist(s) \/ PersistFails(s) \/ StoreCorrupt(s)
    BY <2>1, PersistStep, PersistFailsStep, StoreCorruptStep
  <2>2. CASE Admit(s) \/ Register(s) \/ Recheck(s) \/ Unregister(s)
    BY <2>2, AdmitStep, RegisterStep, RecheckStep, UnregisterStep
  <2>3. CASE WorkerAnswers(s) \/ WorkerFails(s) \/ Retry(s)
    BY <2>3, WorkerAnswersStep, WorkerFailsStep, RetryStep
  <2>4. CASE Begin(s) \/ Send(s) \/ Await(s) \/ Finish(s)
    BY <2>4, BeginStep, SendStep, AwaitStep, FinishStep
  <2>5. CASE CompareAndSwap(s) \/ ReadState(s) \/ Preempted(s)
    BY <2>5, CompareAndSwapStep, ReadStateStep, PreemptedStep
  <2>6. CASE CheckStatus(s) \/ Change(s) \/ SetStatus(s) \/ Preempt(s)
    BY <2>6, CheckStatusStep, ChangeStep, SetStatusStep, PreemptStep
  <2>7. CASE FindReceipt(s) \/ Authorize(s) \/ Signal(s) \/ WriteReceipt(s) \/ CancelFails(s)
    BY <2>7, FindReceiptStep, AuthorizeStep, SignalStep, WriteReceiptStep, CancelFailsStep
  <2> QED
    BY <1>1, <2>1, <2>2, <2>3, <2>4, <2>5, <2>6, <2>7 DEF Step
<1>2. ASSUME NEW s \in Permits,
             \/ SendObserve(s) \/ SendInvoke(s) \/ SendWrite(s) \/ SendRead(s)
             \/ SendCancel(s) \/ SendLifecycle(s)
      PROVE  IInv'
  BY <1>2, SendObserveStep, SendInvokeStep, SendWriteStep, SendReadStep, SendCancelStep,
     SendLifecycleStep
<1>3. CASE ObserverStarts \/ ObserverEnds \/ Crash \/ Load
  BY <1>3, ObserverStartsStep, ObserverEndsStep, CrashStep, LoadStep
<1>4. CASE Quiescent \/ UNCHANGED vars
  BY <1>4, StutterStep DEF Quiescent
<1>5. ASSUME NEW i \in Invocations, ExpireNonce(i)
      PROVE  IInv'
  BY <1>5, ExpireNonceStep
<1> QED
  BY <1>1, <1>2, <1>3, <1>4, <1>5 DEF Next

\* The invariant is inductive, whatever frames, crashes and failed writes there are.
THEOREM Inductive == Spec => []IInv
<1>1. IInv /\ [Next]_vars => IInv'
  BY NextHolds
<1> QED
  BY <1>1, InitHolds, PTL DEF Spec

\* Every variable keeps the shape the code gives it, and the observer channel
\* stays within observer_queue_capacity.
THEOREM TypeCorrect == Spec => []TypeOK
<1>1. IInv => TypeOK
  <2> SUFFICES ASSUME IInv
               PROVE  TypeOK
    OBVIOUS
  <2>1. FileTypes /\ tasks \in [Permits -> Tasks]
    BY DEF IInv, Types
  <2>2. ASSUME NEW s \in Permits
        PROVE  /\ tasks[s].op \in {"none", "observe", "invoke", "write", "read", "cancel", "lifecycle"}
               /\ tasks[s].attempt \in 0..MaxAttempts /\ tasks[s].number \in Nat
               /\ tasks[s].buf \in Document \cup {Torn}
    BY <2>1 DEF Tasks, Operations
  <2>3. canonical.state \in LifeStates \cup {"none", "pending"}
    BY <2>1 DEF FileTypes
  <2> QED
    BY <2>1, <2>2, <2>3 DEF TypeOK, FileTypes
<1> QED
  BY <1>1, Inductive, PTL

\* The worker of a delivery starts at most once: its claim is in the state file
\* before it is queued, and no task queues a claimed delivery.
THEOREM DeliveriesRunOnce == Spec => []ObservedOnce
<1>1. IInv => ObservedOnce
  <2> SUFFICES ASSUME IInv, NEW d \in Deliveries
               PROVE  runs[d] <= 1
    BY DEF ObservedOnce
  <2>1. runs[d] \in {0, 1}
    BY DEF IInv, Globals, DeliveryOK
  <2> QED
    BY <2>1
<1> QED
  BY <1>1, Inductive, PTL

\* A sealed observer receipt is true of the worker it is about.
THEOREM ReceiptsAreTrue == Spec => []ObserverReceiptTrue
<1>1. IInv => ObserverReceiptTrue
  BY DEF IInv, Globals, DeliveryOK, Queued, ObserverReceiptTrue
<1> QED
  BY <1>1, Inductive, PTL

LEMMA AtMostOne ==
    ASSUME NEW S, NEW e, S \subseteq {e}
    PROVE  Cardinality(S) <= 1
<1>1. IsFiniteSet({e}) /\ Cardinality({e}) = 1
  BY FS_Singleton
<1>2. IsFiniteSet(S) /\ Cardinality(S) <= Cardinality({e})
  BY <1>1, FS_Subset
<1> QED
  BY <1>1, <1>2

\* Whoever asks again about a delivery is told what the state file holds.
THEOREM AnswersAlwaysAgree == Spec => []AnswersAgree
<1>1. IInv => AnswersAgree
  <2> SUFFICES ASSUME IInv
               PROVE  AnswersAgree
    OBVIOUS
  <2>1. ASSUME NEW d \in Deliveries
        PROVE  /\ Cardinality(answers[d]) <= 1
               /\ disk # Torn => answers[d] \subseteq {disk.obs[d]}
    <3>1. DeliveryOK(d)
      BY DEF IInv, Globals
    <3> PICK o \in ObsStatus : answers[d] \subseteq {o}
      BY <3>1 DEF DeliveryOK
    <3>2. Cardinality(answers[d]) <= 1
      BY AtMostOne
    <3> QED
      BY <3>1, <3>2 DEF DeliveryOK
  <2> QED
    BY <2>1 DEF AnswersAgree
<1> QED
  BY <1>1, Inductive, PTL

-----------------------------------------------------------------------------
(***************************************************************************)
(* The tokens: what the map lists, and what a signal leaves behind         *)
(***************************************************************************)
ListedAt == {"recheck", "running", "backoff", "unregister"}
RunAt == {"running", "backoff"}

\* The map lists an invocation under the slot that works on it.
ListedOK(i) ==
    registered[i] # None =>
        /\ registered[i] \in Permits
        /\ tasks[registered[i]].op = "invoke" /\ tasks[registered[i]].id = i
        /\ tasks[registered[i]].pc \in ListedAt

\* Somebody has been told, or may yet be told, that the invocation was signalled.
Marked(i) ==
    \/ "signalled" \in cancelAnswers[i] \/ receipts[i] = "signalled" \/ filed[i] = "signalled"
    \/ \E x \in Permits : /\ tasks[x].op = "cancel" /\ tasks[x].id = i
                          /\ tasks[x].verdict = "signalled"

MarkedOK(i) ==
    Marked(i) =>
        /\ i \in sent
        /\ \A x \in Permits : tasks[x].op = "invoke" /\ tasks[x].id = i => tasks[x].cancelled

TokensOK ==
    /\ InactivePreempts
    /\ \A i \in Invocations : ListedOK(i) /\ MarkedOK(i)

\* What the invariant says of the invocations.
LEMMA InvokeFacts ==
    ASSUME IInv
    PROVE  /\ \A x \in Permits : tasks[x].op = "invoke" =>
                 /\ tasks[x].id \in Invocations /\ tasks[x].id \in sent
                 /\ tasks[x].pc # "entry" => loaded
                 /\ tasks[x].pc \in ListedAt => registered[tasks[x].id] = x
           /\ \A x, y \in Permits :
                 tasks[x].op = "invoke" /\ tasks[y].op = "invoke" /\ tasks[x].id = tasks[y].id => x = y
<1>1. ASSUME NEW x \in Permits, tasks[x].op = "invoke"
      PROVE  /\ tasks[x].id \in Invocations /\ tasks[x].id \in sent
             /\ tasks[x].pc # "entry" => loaded
             /\ tasks[x].pc \in ListedAt => registered[tasks[x].id] = x
  <2> PICK t \in Tasks : t = tasks[x] /\ SlotOK(x, t)
    BY Here
  <2> QED
    BY <1>1 DEF SlotOK, Local, Invoking, ListedAt
<1>2. ASSUME NEW x \in Permits, NEW y \in Permits,
             tasks[x].op = "invoke", tasks[y].op = "invoke", tasks[x].id = tasks[y].id
      PROVE  x = y
  <2>1. x # y => Apart(tasks[x], tasks[y])
    BY DEF IInv, Slots
  <2> QED
    BY <1>2, <2>1 DEF Apart
<1> QED
  BY <1>1, <1>2

\* The slot s moves, and neither forgets an invocation, nor lets it run while
\* the plugin is inactive, nor makes up a signal.
Harmless(s) ==
    /\ \A x \in Permits : x # s => tasks'[x] = tasks[x]
    /\ tasks[s].op = "invoke" /\ tasks[s].pc \in ListedAt =>
          tasks'[s].op = "invoke" /\ tasks'[s].id = tasks[s].id /\ tasks'[s].pc \in ListedAt
    /\ tasks'[s].op = "invoke" =>
          /\ tasks[s].op = "invoke" /\ tasks'[s].id = tasks[s].id
          /\ tasks[s].cancelled => tasks'[s].cancelled
          /\ tasks'[s].pc \in RunAt => tasks[s].pc \in RunAt \/ status = "active"
    /\ tasks'[s].op = "cancel" /\ tasks'[s].verdict = "signalled" => Marked(tasks'[s].id)
    /\ ~(tasks[s].op = "lifecycle" /\ tasks[s].pc = "preempt")

LEMMA HarmlessMarks ==
    ASSUME IInv, NEW s \in Permits, Harmless(s),
           UNCHANGED <<receipts, filed, cancelAnswers>>, NEW i, Marked(i)'
    PROVE  Marked(i)
<1>1. CASE \E x \in Permits : /\ tasks'[x].op = "cancel" /\ tasks'[x].id = i
                              /\ tasks'[x].verdict = "signalled"
  <2> PICK x \in Permits : tasks'[x].op = "cancel" /\ tasks'[x].id = i /\ tasks'[x].verdict = "signalled"
    BY <1>1
  <2>1. CASE x = s
    BY <2>1 DEF Harmless
  <2>2. CASE x # s
    BY <2>2 DEF Harmless, Marked
  <2> QED
    BY <2>1, <2>2
<1>2. CASE "signalled" \in cancelAnswers[i] \/ receipts[i] = "signalled" \/ filed[i] = "signalled"
  BY <1>2 DEF Marked
<1> QED
  BY <1>1, <1>2 DEF Marked

\* An invocation whose tokens were cancelled keeps them so.
LEMMA HarmlessTokens ==
    ASSUME NEW s \in Permits, Harmless(s), NEW i,
           \A x \in Permits : tasks[x].op = "invoke" /\ tasks[x].id = i => tasks[x].cancelled
    PROVE  \A x \in Permits : tasks'[x].op = "invoke" /\ tasks'[x].id = i => tasks'[x].cancelled
  BY DEF Harmless

LEMMA HarmlessPreempts ==
    ASSUME NEW s \in Permits, Harmless(s), status' = status, InactivePreempts
    PROVE  InactivePreempts'
<1> SUFFICES ASSUME status # "active", NEW z \in Permits,
                    \A x \in Permits : ~(tasks'[x].op = "lifecycle" /\ tasks'[x].pc = "preempt"),
                    tasks'[z].op = "invoke", tasks'[z].pc \in RunAt
             PROVE  tasks'[z].cancelled
  BY DEF InactivePreempts, At, RunAt
<1>1. \A x \in Permits : ~(tasks[x].op = "lifecycle" /\ tasks[x].pc = "preempt")
  BY DEF Harmless
<1>2. \A x \in Permits : tasks[x].op = "invoke" /\ tasks[x].pc \in RunAt => tasks[x].cancelled
  BY <1>1 DEF InactivePreempts, At, RunAt
<1>3. CASE z = s
  BY <1>2, <1>3 DEF Harmless
<1>4. CASE z # s
  BY <1>2, <1>4 DEF Harmless
<1> QED
  BY <1>3, <1>4

LEMMA HarmlessListed ==
    ASSUME NEW s \in Permits, Harmless(s), NEW i, ListedOK(i), registered'[i] = registered[i]
    PROVE  ListedOK(i)'
<1>1. CASE registered[i] = s
  BY <1>1 DEF Harmless, ListedOK
<1>2. CASE registered[i] # s
  BY <1>2 DEF Harmless, ListedOK
<1> QED
  BY <1>1, <1>2

LEMMA MarksStep ==
    ASSUME IInv, TokensOK, NEW s \in Permits, Harmless(s), UNCHANGED <<status, registered, sent>>,
           \A i \in Invocations : Marked(i)' => Marked(i)
    PROVE  TokensOK'
<1>1. InactivePreempts'
  BY HarmlessPreempts DEF TokensOK
<1>2. ASSUME NEW i \in Invocations
      PROVE  ListedOK(i)' /\ MarkedOK(i)'
  <2>1. ListedOK(i) /\ MarkedOK(i)
    BY DEF TokensOK
  <2>2. ListedOK(i)'
    BY <2>1, HarmlessListed
  <2>3. ASSUME Marked(i)
        PROVE  /\ i \in sent'
               /\ \A x \in Permits : tasks'[x].op = "invoke" /\ tasks'[x].id = i => tasks'[x].cancelled
    <3>1. i \in sent /\ \A x \in Permits : tasks[x].op = "invoke" /\ tasks[x].id = i => tasks[x].cancelled
      BY <2>1, <2>3 DEF MarkedOK
    <3> QED
      BY <3>1, HarmlessTokens
  <2> QED
    BY <2>2, <2>3 DEF MarkedOK
<1> QED
  BY <1>1, <1>2 DEF TokensOK

LEMMA HarmlessStep ==
    ASSUME IInv, TokensOK, NEW s \in Permits, Harmless(s),
           UNCHANGED <<status, registered, receipts, filed, cancelAnswers, sent>>
    PROVE  TokensOK'
<1>1. \A i \in Invocations : Marked(i)' => Marked(i)
  BY HarmlessMarks
<1> QED
  BY <1>1, MarksStep

\* The slot's new task is its old one in another place, or none.
Onward(s) ==
    \E u : /\ tasks' = [tasks EXCEPT ![s] = u]
           /\ u = Idle \/ (u.op = tasks[s].op /\ u.id = tasks[s].id)

LEMMA OtherKinds ==
    ASSUME IInv, TokensOK, NEW s \in Permits, Onward(s),
           tasks[s].op \notin {"invoke", "cancel"}, tasks[s].pc # "preempt",
           UNCHANGED <<status, registered, receipts, filed, cancelAnswers, sent>>
    PROVE  TokensOK'
<1>1. tasks \in [Permits -> Tasks]
  BY DEF IInv, Types
<1> PICK u : /\ tasks' = [tasks EXCEPT ![s] = u]
             /\ u = Idle \/ (u.op = tasks[s].op /\ u.id = tasks[s].id)
  BY DEF Onward
<1>2. tasks'[s] = u /\ u.op \notin {"invoke", "cancel"} /\ \A x \in Permits : x # s => tasks'[x] = tasks[x]
  BY <1>1, IdleTask
<1>3. Harmless(s)
  BY <1>2 DEF Harmless
<1> QED
  BY <1>3, HarmlessStep

LEMMA OnwardMoves ==
    ASSUME IInv, NEW s \in Permits
    PROVE  /\ End(s) => Onward(s)
           /\ \A p : Goto(s, p) => Onward(s)
           /\ \A doc, p : Hold(s, doc, p) => Onward(s)
           /\ \A v, p : Become(s, [tasks[s] EXCEPT !.verdict = v, !.pc = p]) => Onward(s)
<1> PICK t \in Tasks : t = tasks[s]
  BY DEF IInv, Types
<1>1. End(s) => Onward(s)
  BY DEF End, Become, Onward
<1>2. ASSUME NEW p, Goto(s, p)
      PROVE  Onward(s)
  <2>1. [t EXCEPT !.pc = p, !.buf = Torn].op = t.op /\ [t EXCEPT !.pc = p, !.buf = Torn].id = t.id
    BY DEF Tasks
  <2> QED
    BY <1>2, <2>1 DEF Goto, Become, Onward
<1>3. ASSUME NEW doc, NEW p, Hold(s, doc, p)
      PROVE  Onward(s)
  <2>1. [t EXCEPT !.buf = doc, !.pc = p].op = t.op /\ [t EXCEPT !.buf = doc, !.pc = p].id = t.id
    BY DEF Tasks
  <2> QED
    BY <1>3, <2>1 DEF Hold, Become, Onward
<1>4. ASSUME NEW v, NEW p, Become(s, [tasks[s] EXCEPT !.verdict = v, !.pc = p])
      PROVE  Onward(s)
  <2>1. [t EXCEPT !.verdict = v, !.pc = p].op = t.op /\ [t EXCEPT !.verdict = v, !.pc = p].id = t.id
    BY DEF Tasks
  <2> QED
    BY <1>4, <2>1 DEF Become, Onward
<1> QED
  BY <1>1, <1>2, <1>3, <1>4

\* Which operations are at a place.
LEMMA PlaceKinds ==
    ASSUME IInv, NEW s \in Permits
    PROVE  /\ tasks[s].pc \in WritingPlaces \cup {"begin", "finish", "locked", "change", "send", "waiting", "status"}
                 => tasks[s].op \notin {"invoke", "cancel", "none"}
           /\ tasks[s].pc = "register" => tasks[s].op \in {"invoke", "write", "read"}
           /\ tasks[s].pc \in {"recheck", "unregister"} => tasks[s].op \in {"invoke", "write", "read"}
           /\ tasks[s].op = "write" => tasks[s].id \in Writes
           /\ tasks[s].op = "read" => tasks[s].id \in Reads
<1> PICK t \in Tasks : t = tasks[s] /\ SlotOK(s, t)
  BY Here
<1> QED
  BY DEF SlotOK, Local, Tasks, Operations, WritingPlaces

\* The operations that have no token to lose.
LEMMA FileStepsTokens ==
    ASSUME IInv, TokensOK, NEW s \in Permits,
           \/ Persist(s) \/ PersistFails(s) \/ StoreCorrupt(s) \/ Preempted(s)
           \/ Begin(s) \/ Send(s) \/ Await(s) \/ Finish(s)
           \/ CompareAndSwap(s) \/ ReadState(s) \/ CheckStatus(s) \/ Change(s)
    PROVE  TokensOK'
<1>1. /\ tasks[s].op \notin {"invoke", "cancel"} /\ tasks[s].pc # "preempt"
  BY PlaceKinds DEF Persist, PersistFails, StoreCorrupt, Preempted, Begin, Send, Await, Finish, CompareAndSwap,
     ReadState, CheckStatus, Change, Critical, At, Writing, WritingPlaces
<1>2. UNCHANGED <<status, registered, receipts, filed, cancelAnswers, sent>>
  BY DEF Persist, PersistFails, StoreCorrupt, Preempted, Begin, Send, Await, Finish, CompareAndSwap,
     ReadState, CheckStatus, Change, files, cancels, runtime, history
<1>3. CASE Persist(s)
  <2>1. Written(s)
    BY <1>3 DEF Persist
  <2>6. Onward(s)
    <3>2. CASE tasks[s].pc = "beginning" /\ tasks[s].buf.obs[tasks[s].id] = "pending"
      BY <2>1, <3>2, OnwardMoves DEF Written
    <3>3. CASE tasks[s].pc \in {"swapping", "noting"}
      BY <2>1, <3>3, OnwardMoves DEF Written
    <3>4. CASE tasks[s].pc = "changing"
      BY <2>1, <3>4, OnwardMoves DEF Written
    <3>5. CASE /\ ~(tasks[s].pc = "beginning" /\ tasks[s].buf.obs[tasks[s].id] = "pending")
               /\ tasks[s].pc \notin {"swapping", "noting"} /\ tasks[s].pc # "changing"
      BY <2>1, <3>5, OnwardMoves DEF Written
    <3> QED
      BY <3>2, <3>3, <3>4, <3>5
  <2> QED
    BY <1>1, <1>2, <2>6, OtherKinds
<1>4. CASE PersistFails(s) \/ StoreCorrupt(s) \/ Preempted(s)
  <2>1. Onward(s)
    BY <1>4, OnwardMoves DEF PersistFails, StoreCorrupt, Preempted, Fail
  <2> QED
    BY <1>1, <1>2, <2>1, OtherKinds
<1>5. CASE Begin(s) \/ Send(s) \/ Await(s) \/ Finish(s)
  <2>1. Onward(s)
    BY <1>5, OnwardMoves DEF Begin, Send, Await, Finish
  <2> QED
    BY <1>1, <1>2, <2>1, OtherKinds
<1>6. CASE CompareAndSwap(s) \/ ReadState(s) \/ CheckStatus(s) \/ Change(s)
  <2>1. Onward(s)
    BY <1>6, OnwardMoves DEF CompareAndSwap, ReadState, CheckStatus, Change
  <2> QED
    BY <1>1, <1>2, <2>1, OtherKinds
<1> QED
  BY <1>3, <1>4, <1>5, <1>6

LEMMA WorkerTokens ==
    ASSUME IInv, TokensOK, NEW s \in Permits, Admit(s) \/ WorkerAnswers(s) \/ WorkerFails(s) \/ Retry(s)
    PROVE  TokensOK'
<1> PICK t \in Tasks : t = tasks[s] /\ SlotOK(s, t)
  BY Here
<1>1. tasks \in [Permits -> Tasks]
  BY DEF IInv, Types
<1>2. UNCHANGED <<status, registered, receipts, filed, cancelAnswers, sent>>
  BY DEF Admit, WorkerAnswers, WorkerFails, Retry, files, cancels, runtime, history
<1>3. CASE Retry(s)
  <2> DEFINE u == [t EXCEPT !.attempt = @ + 1, !.pc = "running"]
  <2>1. u.op = t.op /\ u.id = t.id /\ u.pc = "running" /\ u.cancelled = t.cancelled
    BY DEF Tasks
  <2>2. tasks' = [tasks EXCEPT ![s] = u] /\ t.op = "invoke" /\ t.pc = "backoff"
    BY <1>3 DEF Retry, Become, At
  <2> HIDE DEF u
  <2>3. tasks'[s] = u /\ \A x \in Permits : x # s => tasks'[x] = tasks[x]
    BY <1>1, <2>2
  <2>4. Harmless(s)
    BY <2>1, <2>2, <2>3 DEF Harmless, ListedAt, RunAt
  <2> QED
    BY <1>2, <2>4, HarmlessStep
<1>4. CASE Admit(s) /\ End(s)
  <2>1. tasks'[s] = Idle /\ \A x \in Permits : x # s => tasks'[x] = tasks[x]
    BY <1>1, <1>4 DEF End, Become
  <2>2. Harmless(s)
    BY <1>4, <2>1, IdleTask DEF Harmless, Admit, ListedAt
  <2> QED
    BY <1>2, <2>2, HarmlessStep
<1>5. ASSUME NEW p \in {"begin", "register", "unregister", "backoff"}, Goto(s, p),
             \/ p \in {"begin", "register"} /\ t.pc = "entry" /\ t.op \in {"observe", "invoke", "write", "read"}
             \/ p \in {"unregister", "backoff"} /\ t.op = "invoke" /\ t.pc = "running"
      PROVE  TokensOK'
  <2> DEFINE u == MovedTo(t, p)
  <2>1. u.op = t.op /\ u.id = t.id /\ u.pc = p /\ u.cancelled = t.cancelled
    BY DEF MovedTo, Tasks
  <2>2. tasks' = [tasks EXCEPT ![s] = u]
    BY <1>5 DEF Goto, Become, MovedTo
  <2> HIDE DEF u
  <2>3. tasks'[s] = u /\ \A x \in Permits : x # s => tasks'[x] = tasks[x]
    BY <1>1, <2>2
  <2>4. Harmless(s)
    BY <1>5, <2>1, <2>3 DEF Harmless, ListedAt, RunAt
  <2> QED
    BY <1>2, <2>4, HarmlessStep
<1>6. CASE WorkerAnswers(s) \/ WorkerFails(s)
  BY <1>5, <1>6 DEF WorkerAnswers, WorkerFails, At
<1>7. CASE Admit(s) /\ ~End(s)
  BY <1>5, <1>7 DEF Admit
<1> QED
  BY <1>3, <1>4, <1>6, <1>7

\* The map gains or loses the entry of the slot's own operation.
LEMMA MapTokens ==
    ASSUME IInv, IInv', TokensOK, NEW s \in Permits, Register(s) \/ Recheck(s) \/ Unregister(s)
    PROVE  TokensOK'
<1> PICK t \in Tasks : t = tasks[s] /\ SlotOK(s, t)
  BY Here
<1>1. tasks \in [Permits -> Tasks]
  BY DEF IInv, Types
<1>2. UNCHANGED <<status, receipts, filed, cancelAnswers, sent>>
  BY DEF Register, Recheck, Unregister, files, cancels, runtime, history
<1>3. /\ t.op \in {"invoke", "write", "read"} /\ t.pc \in {"register", "recheck", "unregister"}
      /\ t.op \in {"write", "read"} => t.id \in Writes \cup Reads
      /\ t.op = "invoke" => t.id \in Invocations
  BY PlaceKinds, InvokeFacts DEF Register, Recheck, Unregister
<1>4. registered \in [Invocations \cup Writes \cup Reads -> Permits \cup {None, Orphan}]
  BY DEF IInv, Types, FileTypes
<1>5. /\ Invocations \cap (Writes \cup Reads) = {} /\ None \notin Permits
      /\ \A i \in Invocations : ListedOK(i)
  BY HostAssumption DEF TokensOK
<1>6. ASSUME NEW u,
             tasks' = [tasks EXCEPT ![s] = u], u.op \in {t.op, "none"},
             u.op = t.op => u.id = t.id /\ u.cancelled = t.cancelled,
             u.op = "invoke" /\ u.pc \in RunAt => status = "active",
             \A i \in Invocations : ListedOK(i)'
      PROVE  TokensOK'
  <2>1. tasks'[s] = u /\ \A x \in Permits : x # s => tasks'[x] = tasks[x]
    BY <1>1, <1>6
  <2>3. InactivePreempts'
    BY <1>2, <1>3, <1>6, <2>1 DEF TokensOK, InactivePreempts, At, RunAt
  <2>4. ASSUME NEW i \in Invocations
        PROVE  MarkedOK(i)'
    <3>1. Marked(i)' => Marked(i)
      BY <1>2, <1>3, <1>6, <2>1 DEF Marked
    <3>2. MarkedOK(i)
      BY DEF TokensOK
    <3> QED
      BY <1>2, <1>3, <1>6, <2>1, <3>1, <3>2 DEF MarkedOK
  <2> QED
    BY <1>6, <2>3, <2>4 DEF TokensOK
<1>7. CASE Recheck(s) /\ StillActive
  <2> PICK p \in {"running", "locked"} :
              /\ Become(s, [tasks[s] EXCEPT !.attempt = 1, !.pc = p])
              /\ UNCHANGED registered
    BY <1>7 DEF Recheck
  <2>0. t.op = "invoke" => p = "running"
    BY <1>1, <1>7 DEF Recheck, Become, Tasks
  <2> DEFINE u == [t EXCEPT !.attempt = 1, !.pc = p]
  <2>1. u.op = t.op /\ u.id = t.id /\ u.pc = p /\ u.cancelled = t.cancelled
    BY DEF Tasks
  <2>2. tasks' = [tasks EXCEPT ![s] = u]
    BY DEF Become
  <2> HIDE DEF u
  <2>3. tasks'[s] = u /\ \A x \in Permits : x # s => tasks'[x] = tasks[x]
    BY <1>1, <2>2
  <2>4. ASSUME NEW i \in Invocations
        PROVE  ListedOK(i)'
    <3>1. CASE registered[i] = s
      BY <1>5, <2>0, <2>1, <2>3, <3>1 DEF ListedOK, ListedAt
    <3>2. CASE registered[i] # s
      BY <1>5, <2>3, <3>2 DEF ListedOK
    <3> QED
      BY <3>1, <3>2
  <2> QED
    BY <1>6, <1>7, <2>1, <2>2, <2>4 DEF StillActive
<1>8. CASE (Recheck(s) /\ ~StillActive) \/ Unregister(s)
  <2>1. tasks' = [tasks EXCEPT ![s] = Idle] /\ registered' = [registered EXCEPT ![t.id] = None]
    BY <1>8 DEF Recheck, Unregister, End, Become
  <2>2. ASSUME NEW i \in Invocations
        PROVE  ListedOK(i)'
    <3>1. CASE i = t.id
      BY <1>4, <2>1, <3>1 DEF ListedOK
    <3>2. CASE i # t.id
      <4>1. registered'[i] = registered[i] /\ (registered[i] # None => registered[i] # s)
        BY <1>4, <1>5, <2>1, <3>2 DEF ListedOK
      <4> QED
        BY <1>1, <1>5, <2>1, <4>1 DEF ListedOK
    <3> QED
      BY <3>1, <3>2
  <2> QED
    BY <1>3, <1>6, <2>1, <2>2, IdleTask
<1>9. CASE Register(s) /\ registered[t.id] = None
  <2> DEFINE u == MovedTo(t, "recheck")
  <2>1. u.op = t.op /\ u.id = t.id /\ u.pc = "recheck" /\ u.cancelled = t.cancelled
    BY DEF MovedTo, Tasks
  <2>2. tasks' = [tasks EXCEPT ![s] = u] /\ registered' = [registered EXCEPT ![t.id] = s]
    BY <1>9 DEF Register, Goto, Become, MovedTo
  <2> HIDE DEF u
  <2>3. tasks'[s] = u /\ \A x \in Permits : x # s => tasks'[x] = tasks[x]
    BY <1>1, <2>2
  <2>4. ASSUME NEW i \in Invocations
        PROVE  ListedOK(i)'
    <3>1. CASE i = t.id
      <4>1. registered'[i] = s /\ t.op = "invoke"
        BY <1>3, <1>4, <1>5, <2>2, <3>1
      <4> QED
        BY <2>1, <2>3, <3>1, <4>1 DEF ListedOK, ListedAt
    <3>2. CASE i # t.id
      <4>1. registered'[i] = registered[i] /\ (registered[i] # None => registered[i] # s)
        BY <1>4, <1>5, <2>2, <3>2 DEF ListedOK
      <4> QED
        BY <1>5, <2>3, <4>1 DEF ListedOK
    <3> QED
      BY <3>1, <3>2
  <2>5. u.pc \notin RunAt
    BY <2>1 DEF RunAt
  <2> QED
    BY <1>6, <2>1, <2>2, <2>4, <2>5
<1>10. CASE Register(s) /\ registered[t.id] # None
  <2>1. tasks' = [tasks EXCEPT ![s] = Idle] /\ registered' = [registered EXCEPT ![t.id] = Orphan]
        /\ t.pc = "register"
    BY <1>10 DEF Register, End, Become
  <2>2. t.op # "invoke"
    <3> SUFFICES ASSUME t.op = "invoke"
                 PROVE  FALSE
      OBVIOUS
    <3>1. t.id \in Invocations /\ ListedOK(t.id)
      BY <1>3, <1>5
    <3>2. /\ registered[t.id] \in Permits /\ tasks[registered[t.id]].op = "invoke"
          /\ tasks[registered[t.id]].id = t.id /\ tasks[registered[t.id]].pc \in ListedAt
      BY <1>10, <3>1 DEF ListedOK
    <3>3. registered[t.id] = s
      BY <3>2, InvokeFacts
    <3> QED
      BY <2>1, <3>2, <3>3 DEF ListedAt
  <2>3. ASSUME NEW i \in Invocations
        PROVE  ListedOK(i)'
    <3>1. i # t.id
      BY <1>3, <1>5, <2>2
    <3>2. registered'[i] = registered[i] /\ (registered[i] # None => registered[i] # s)
      BY <1>4, <1>5, <2>1, <3>1 DEF ListedOK
    <3> QED
      BY <1>1, <1>5, <2>1, <3>2 DEF ListedOK
  <2> QED
    BY <1>3, <1>6, <2>1, <2>3, IdleTask
<1> QED
  BY <1>7, <1>8, <1>9, <1>10

\* The receipt that is found, answered, written or refused says what was true.
LEMMA CancelTokens ==
    ASSUME IInv, TokensOK, NEW s \in Permits,
           FindReceipt(s) \/ Authorize(s) \/ WriteReceipt(s) \/ CancelFails(s)
    PROVE  TokensOK'
<1> PICK t \in Tasks : t = tasks[s] /\ SlotOK(s, t)
  BY Here
<1>1. tasks \in [Permits -> Tasks]
  BY DEF IInv, Types
<1>2. t.op = "cancel" /\ t.id \in Invocations /\ CancelTypes
  BY CancelHere DEF FindReceipt, Authorize, WriteReceipt, CancelFails, At
<1>3. UNCHANGED <<status, registered, sent>>
  BY DEF FindReceipt, Authorize, WriteReceipt, CancelFails, runtime
<1>4. t.verdict = "signalled" => Marked(t.id)
  BY <1>2 DEF Marked
<1>5. CASE FindReceipt(s)
  <2> DEFINE u == [t EXCEPT !.verdict = receipts[t.id], !.pc = "authorize"]
  <2>1. u.op = t.op /\ u.id = t.id /\ u.verdict = receipts[t.id]
    BY DEF Tasks
  <2>2. tasks' = [tasks EXCEPT ![s] = u] /\ UNCHANGED <<receipts, filed, cancelAnswers>>
    BY <1>5 DEF FindReceipt, Become, files, cancels, history
  <2> HIDE DEF u
  <2>3. tasks'[s] = u /\ \A x \in Permits : x # s => tasks'[x] = tasks[x]
    BY <1>1, <2>2
  <2>4. Harmless(s)
    BY <1>2, <2>1, <2>3 DEF Harmless, Marked
  <2> QED
    BY <1>3, <2>2, <2>4, HarmlessStep
<1>6. CASE Authorize(s) /\ ~End(s)
  <2> DEFINE u == MovedTo(t, "signal")
  <2>1. u.op = t.op /\ u.id = t.id /\ u.verdict = t.verdict
    BY DEF Tasks, MovedTo
  <2>2. tasks' = [tasks EXCEPT ![s] = u] /\ UNCHANGED <<receipts, filed, cancelAnswers>>
    BY <1>6 DEF Authorize, Goto, Become, MovedTo, files
  <2> HIDE DEF u
  <2>3. tasks'[s] = u /\ \A x \in Permits : x # s => tasks'[x] = tasks[x]
    BY <1>1, <2>2
  <2>4. Harmless(s)
    BY <1>2, <1>4, <2>1, <2>3 DEF Harmless
  <2> QED
    BY <1>3, <2>2, <2>4, HarmlessStep
<1>7. CASE End(s) /\ (Authorize(s) \/ WriteReceipt(s) \/ CancelFails(s))
  <2>1. tasks'[s] = Idle /\ \A x \in Permits : x # s => tasks'[x] = tasks[x]
    BY <1>1, <1>7 DEF End, Become
  <2>2. Harmless(s)
    BY <1>2, <2>1, IdleTask DEF Harmless
  <2>3. /\ receipts' = receipts \/ receipts' = [receipts EXCEPT ![t.id] = t.verdict]
        /\ \/ filed' = filed \/ filed' = receipts \/ filed' = [receipts EXCEPT ![t.id] = t.verdict]
        /\ \/ cancelAnswers' = cancelAnswers
           \/ cancelAnswers' = [cancelAnswers EXCEPT ![t.id] = @ \cup {t.verdict}]
    BY <1>7 DEF Authorize, WriteReceipt, CancelFails, AnswerCancel, files, history
  <2>4. ASSUME NEW i \in Invocations, Marked(i)'
        PROVE  Marked(i)
    <3>1. /\ receipts'[i] = "signalled" => receipts[i] = "signalled" \/ (i = t.id /\ t.verdict = "signalled")
          /\ filed'[i] = "signalled" =>
                filed[i] = "signalled" \/ receipts[i] = "signalled" \/ (i = t.id /\ t.verdict = "signalled")
      BY <1>2, <2>3 DEF CancelTypes
    <3>2. "signalled" \in cancelAnswers'[i] =>
                "signalled" \in cancelAnswers[i] \/ (i = t.id /\ t.verdict = "signalled")
      BY <1>2, <2>3 DEF CancelTypes
    <3>3. (\E x \in Permits : /\ tasks'[x].op = "cancel" /\ tasks'[x].id = i
                              /\ tasks'[x].verdict = "signalled") => Marked(i)
      BY <2>1, IdleTask DEF Marked
    <3> QED
      BY <1>4, <2>4, <3>1, <3>2, <3>3 DEF Marked
  <2> QED
    BY <1>3, <2>2, <2>4, MarksStep
<1> QED
  BY <1>5, <1>6, <1>7 DEF WriteReceipt, CancelFails

\* Tokens are cancelled in the slots R; the slot s goes on as something else.
LEMMA SignalledTokens ==
    ASSUME IInv, TokensOK, NEW s \in Permits, NEW R,
           \A x \in Permits : x # s =>
                AsSignalled(tasks'[x], tasks[x]) /\ (x \in R => tasks'[x].cancelled),
           tasks[s].op # "invoke", tasks'[s].op # "invoke",
           UNCHANGED <<registered, receipts, filed, cancelAnswers, sent>>
    PROVE  /\ \A i \in Invocations : ListedOK(i)'
           /\ \A i \in Invocations :
                 (tasks'[s].op = "cancel" /\ tasks'[s].id = i => tasks'[s].verdict # "signalled") => MarkedOK(i)'
           /\ \A x \in Permits : tasks'[x].op = "invoke" =>
                 /\ x # s /\ tasks[x].op = "invoke" /\ tasks'[x].id = tasks[x].id /\ tasks'[x].pc = tasks[x].pc
                 /\ tasks[x].cancelled \/ x \in R => tasks'[x].cancelled
<1>1. \A x \in Permits : x # s =>
          /\ tasks'[x].op = tasks[x].op /\ tasks'[x].id = tasks[x].id /\ tasks'[x].pc = tasks[x].pc
          /\ tasks'[x].verdict = tasks[x].verdict
          /\ tasks[x].cancelled \/ x \in R => tasks'[x].cancelled
  BY DEF AsSignalled
<1>2. ASSUME NEW i \in Invocations
      PROVE  ListedOK(i)'
  <2>1. ListedOK(i)
    BY DEF TokensOK
  <2> QED
    BY <1>1, <2>1 DEF ListedOK
<1>3. ASSUME NEW i \in Invocations,
             tasks'[s].op = "cancel" /\ tasks'[s].id = i => tasks'[s].verdict # "signalled"
      PROVE  MarkedOK(i)'
  <2>1. MarkedOK(i)
    BY DEF TokensOK
  <2>2. Marked(i)' => Marked(i)
    BY <1>1, <1>3 DEF Marked
  <2> QED
    BY <1>1, <2>1, <2>2 DEF MarkedOK
<1> QED
  BY <1>1, <1>2, <1>3

LEMMA SignalTokens ==
    ASSUME IInv, IInv', TokensOK, NEW s \in Permits, Signal(s)
    PROVE  TokensOK'
<1> PICK t \in Tasks : t = tasks[s] /\ SlotOK(s, t)
  BY Here
<1> DEFINE R == {registered[t.id]}
<1>1. /\ tasks \in [Permits -> Tasks] /\ tasks' \in [Permits -> Tasks]
      /\ registered \in [Invocations \cup Writes \cup Reads -> Permits \cup {None, Orphan}]
  BY DEF IInv, Types, FileTypes
<1>2. t.op = "cancel" /\ t.id \in Invocations /\ t.id \in sent
  BY CancelHere DEF Signal, At
<1>3. UNCHANGED <<status, registered, receipts, filed, cancelAnswers, sent>>
  BY DEF Signal, files, cancels, runtime, history
<1>4. CASE ~loaded
  <2>1. tasks' = [tasks EXCEPT ![s] = Idle]
    BY <1>4 DEF Signal
  <2>2. Harmless(s)
    BY <1>1, <1>2, <2>1, IdleTask DEF Harmless
  <2> QED
    BY <1>3, <2>2, HarmlessStep
<1>5. CASE loaded
  <2> DEFINE f == Signalled(R)
             v == IF registered[t.id] = None THEN "already_terminal" ELSE "signalled"
  <2>1. tasks' = [f EXCEPT ![s].verdict = v, ![s].pc = "receipt"]
    BY <1>5 DEF Signal, Signalling
  <2>2. /\ f \in [Permits -> Tasks]
        /\ \A x \in Permits : AsSignalled(f[x], tasks[x]) /\ (x \in R => f[x].cancelled)
    BY SignalledTasks
  <2>3. v = "signalled" => registered[t.id] # None
    OBVIOUS
  <2> HIDE DEF f, v
  <2> PICK w \in Tasks : w = f[s]
    BY <2>2
  <2>4. w.op = t.op /\ w.id = t.id
    BY <2>2 DEF AsSignalled
  <2> DEFINE u == [w EXCEPT !.verdict = v, !.pc = "receipt"]
  <2>5. u.op = w.op /\ u.id = w.id /\ u.pc = "receipt" /\ u.verdict = v
    BY DEF Tasks
  <2>6. tasks' = [f EXCEPT ![s] = u]
    BY <2>1, <2>2
  <2> HIDE DEF u
  <2>7. tasks'[s] = u /\ \A x \in Permits : x # s => tasks'[x] = f[x]
    BY <2>2, <2>6
  <2>8. \A x \in Permits : x # s => AsSignalled(tasks'[x], tasks[x]) /\ (x \in R => tasks'[x].cancelled)
    BY <2>2, <2>7
  <2>9. tasks[s].op # "invoke" /\ tasks'[s].op = "cancel" /\ tasks'[s].id = t.id /\ tasks'[s].verdict = v
    BY <1>2, <2>4, <2>5, <2>7
  <2>10. /\ \A i \in Invocations : ListedOK(i)'
         /\ \A i \in Invocations :
               (tasks'[s].op = "cancel" /\ tasks'[s].id = i => tasks'[s].verdict # "signalled") => MarkedOK(i)'
         /\ \A x \in Permits : tasks'[x].op = "invoke" =>
               /\ x # s /\ tasks[x].op = "invoke" /\ tasks'[x].id = tasks[x].id /\ tasks'[x].pc = tasks[x].pc
               /\ tasks[x].cancelled \/ x \in R => tasks'[x].cancelled
    <3>1. tasks'[s].op # "invoke"
      BY <2>9
    <3> HIDE DEF R
    <3> QED
      BY ONLY IInv, TokensOK, s \in Permits, <1>3, <2>8, <2>9, <3>1, SignalledTokens
  <2>11. MarkedOK(t.id)'
    <3>1. CASE v # "signalled"
      BY <1>2, <2>9, <2>10, <3>1
    <3>2. CASE v = "signalled"
      <4>1. ListedOK(t.id) /\ registered[t.id] # None
        BY <1>2, <2>3, <3>2 DEF TokensOK
      <4>2. /\ registered[t.id] \in Permits /\ tasks[registered[t.id]].op = "invoke"
            /\ tasks[registered[t.id]].id = t.id
        BY <4>1 DEF ListedOK
      <4>3. ASSUME NEW x \in Permits, tasks'[x].op = "invoke", tasks'[x].id = t.id
            PROVE  tasks'[x].cancelled
        <5>1. tasks[x].op = "invoke" /\ tasks[x].id = t.id
          BY <2>10, <4>3
        <5>2. x = registered[t.id]
          BY <4>2, <5>1, InvokeFacts
        <5> QED
          BY <2>10, <4>3, <5>2
      <4> QED
        BY <1>2, <1>3, <4>3 DEF MarkedOK
    <3> QED
      BY <3>1, <3>2
  <2>12. \A i \in Invocations : MarkedOK(i)'
    BY <2>9, <2>10, <2>11
  <2>13. InactivePreempts'
    <3>1. \A x \in Permits : ~(tasks'[x].op = "lifecycle" /\ tasks'[x].pc = "preempt") =>
                             ~(tasks[x].op = "lifecycle" /\ tasks[x].pc = "preempt")
      BY <1>2, <2>8 DEF AsSignalled
    <3> QED
      BY <1>3, <2>10, <3>1 DEF TokensOK, InactivePreempts, At
  <2> QED
    BY <2>10, <2>12, <2>13 DEF TokensOK
<1> QED
  BY <1>4, <1>5

LEMMA LifecycleTokens ==
    ASSUME IInv, TokensOK, NEW s \in Permits, SetStatus(s) \/ Preempt(s)
    PROVE  TokensOK'
<1>1. tasks \in [Permits -> Tasks]
  BY DEF IInv, Types
<1>2. UNCHANGED <<registered, receipts, filed, cancelAnswers, sent>> /\ tasks[s].op = "lifecycle"
  BY DEF SetStatus, Preempt, Changed, At, files, cancels, runtime, history
<1>3. CASE SetStatus(s)
  <2>1. Onward(s)
    BY <1>3, OnwardMoves DEF SetStatus
  <2> PICK u : /\ tasks' = [tasks EXCEPT ![s] = u]
               /\ u = Idle \/ (u.op = tasks[s].op /\ u.id = tasks[s].id)
    BY <2>1 DEF Onward
  <2>2. tasks'[s] = u /\ u.op \in {"none", "lifecycle"} /\ \A x \in Permits : x # s => tasks'[x] = tasks[x]
    BY <1>1, <1>2, IdleTask
  <2>3. Harmless(s)
    BY <1>2, <1>3, <2>2 DEF Harmless, SetStatus, At
  <2>4. ASSUME NEW i \in Invocations
        PROVE  ListedOK(i)' /\ MarkedOK(i)'
    <3>1. ListedOK(i) /\ MarkedOK(i)
      BY DEF TokensOK
    <3>2. ListedOK(i)'
      BY <1>2, <2>3, <3>1, HarmlessListed
    <3>3. Marked(i)' => Marked(i)
      BY <1>2, <2>3, HarmlessMarks
    <3>4. Marked(i) => \A x \in Permits : tasks'[x].op = "invoke" /\ tasks'[x].id = i => tasks'[x].cancelled
      BY <2>3, <3>1, HarmlessTokens DEF MarkedOK
    <3> QED
      BY <1>2, <3>1, <3>2, <3>3, <3>4 DEF MarkedOK
  <2>5. InactivePreempts'
    <3>1. CASE Target(tasks[s].id) = "active"
      BY <1>3, <3>1 DEF SetStatus, InactivePreempts
    <3>2. CASE Target(tasks[s].id) # "active"
      <4> PICK t \in Tasks : t = tasks[s]
        BY <1>1
      <4>1. [t EXCEPT !.pc = "preempt", !.buf = Torn].op = t.op
            /\ [t EXCEPT !.pc = "preempt", !.buf = Torn].pc = "preempt"
        BY DEF Tasks
      <4>2. tasks' = [tasks EXCEPT ![s] = [t EXCEPT !.pc = "preempt", !.buf = Torn]]
        BY <1>3, <3>2 DEF SetStatus, Goto, Become
      <4>3. tasks'[s] = [t EXCEPT !.pc = "preempt", !.buf = Torn]
        BY <1>1, <4>2
      <4>4. tasks'[s].op = "lifecycle" /\ tasks'[s].pc = "preempt"
        BY <1>2, <4>1, <4>3
      <4> QED
        BY <4>4 DEF InactivePreempts, At
    <3> QED
      BY <3>1, <3>2
  <2> QED
    BY <2>4, <2>5 DEF TokensOK
<1>4. CASE Preempt(s)
  <2> DEFINE R == {registered[i] : i \in DOMAIN registered}
  <2>1. tasks' = [Signalled(R) EXCEPT ![s] = Idle]
    BY <1>4 DEF Preempt
  <2>2. /\ Signalled(R) \in [Permits -> Tasks]
        /\ \A x \in Permits : AsSignalled(Signalled(R)[x], tasks[x]) /\ (x \in R => Signalled(R)[x].cancelled)
    BY SignalledTasks
  <2>3. ASSUME NEW i \in Invocations
        PROVE  registered[i] \in R
    BY DEF IInv, Types, FileTypes
  <2> HIDE DEF R
  <2>4. tasks'[s] = Idle /\ \A x \in Permits : x # s => tasks'[x] = Signalled(R)[x]
    BY <2>1, <2>2
  <2>5. \A x \in Permits : x # s => AsSignalled(tasks'[x], tasks[x]) /\ (x \in R => tasks'[x].cancelled)
    BY <2>2, <2>4
  <2>6. tasks[s].op # "invoke" /\ tasks'[s].op # "invoke" /\ tasks'[s].op # "cancel"
    BY <1>2, <2>4, IdleTask
  <2>7. /\ \A i \in Invocations : ListedOK(i)'
        /\ \A i \in Invocations :
              (tasks'[s].op = "cancel" /\ tasks'[s].id = i => tasks'[s].verdict # "signalled") => MarkedOK(i)'
        /\ \A x \in Permits : tasks'[x].op = "invoke" =>
              /\ x # s /\ tasks[x].op = "invoke" /\ tasks'[x].id = tasks[x].id /\ tasks'[x].pc = tasks[x].pc
              /\ tasks[x].cancelled \/ x \in R => tasks'[x].cancelled
    BY ONLY IInv, TokensOK, s \in Permits, <1>2, <2>5, <2>6, SignalledTokens
  <2>8. ASSUME NEW x \in Permits, tasks'[x].op = "invoke", tasks'[x].pc \in {"running", "backoff"}
        PROVE  tasks'[x].cancelled
    <3>1. tasks[x].op = "invoke" /\ tasks[x].pc \in ListedAt
      BY <2>7, <2>8 DEF ListedAt
    <3>2. registered[tasks[x].id] = x /\ tasks[x].id \in Invocations
      BY <3>1, InvokeFacts
    <3>3. x \in R
      BY <2>3, <3>2
    <3> QED
      BY <2>7, <2>8, <3>3
  <2>9. InactivePreempts'
    BY <2>8 DEF InactivePreempts
  <2> QED
    BY <2>6, <2>7, <2>9 DEF TokensOK
<1> QED
  BY <1>3, <1>4

LEMMA SendTokens ==
    ASSUME IInv, TokensOK, NEW s \in Permits,
           \/ SendObserve(s) \/ SendInvoke(s) \/ SendWrite(s) \/ SendRead(s)
           \/ SendCancel(s) \/ SendLifecycle(s)
    PROVE  TokensOK'
<1>1. tasks \in [Permits -> Tasks] /\ sent \subseteq Invocations
  BY DEF IInv, Types, FileTypes
<1>2. /\ UNCHANGED <<status, registered, receipts, filed, cancelAnswers>> /\ tasks[s] = Idle
  BY DEF SendObserve, SendInvoke, SendWrite, SendRead, SendCancel, SendLifecycle, Spawn, files, cancels, history
<1>3. ASSUME NEW u, tasks' = [tasks EXCEPT ![s] = u], u.op \notin {"invoke", "none"}, u.verdict = "none",
             sent' = sent
      PROVE  TokensOK'
  <2>1. tasks'[s] = u /\ \A x \in Permits : x # s => tasks'[x] = tasks[x]
    BY <1>1, <1>3
  <2>2. Harmless(s)
    BY <1>2, <1>3, <2>1, IdleTask DEF Harmless
  <2> QED
    BY <1>2, <1>3, <2>2, HarmlessStep
<1>4. CASE SendObserve(s) \/ SendWrite(s) \/ SendRead(s) \/ SendCancel(s)
  <2> PICK op \in {"observe", "write", "read", "cancel"} : \E id : Spawn(s, op, id) /\ sent' = sent
    BY <1>4 DEF SendObserve, SendWrite, SendRead, SendCancel
  <2> PICK id : Spawn(s, op, id) /\ sent' = sent
    OBVIOUS
  <2>1. tasks' = [tasks EXCEPT ![s] = Spawned(op, id)]
    BY DEF Spawn, Become, Spawned
  <2>2. Spawned(op, id).op = op /\ Spawned(op, id).verdict = "none"
    BY DEF Spawned, Idle
  <2>3. Spawned(op, id).op \notin {"invoke", "none"}
    BY <2>2
  <2> QED
    BY <1>3, <2>1, <2>2, <2>3
<1>5. CASE SendLifecycle(s)
  <2> PICK a \in Actions : Become(s, ChangeFrame(a, canonical'.number))
    BY <1>5 DEF SendLifecycle, ChangeFrame
  <2>1. ChangeFrame(a, canonical'.number).op = "lifecycle" /\ ChangeFrame(a, canonical'.number).verdict = "none"
    BY DEF ChangeFrame, Idle
  <2>2. tasks' = [tasks EXCEPT ![s] = ChangeFrame(a, canonical'.number)] /\ sent' = sent
    BY <1>5 DEF Become, SendLifecycle
  <2>3. ChangeFrame(a, canonical'.number).op \notin {"invoke", "none"}
    BY <2>1
  <2> QED
    BY <1>3, <2>1, <2>2, <2>3
<1>6. CASE SendInvoke(s)
  <2> PICK i \in Invocations \ sent : Spawn(s, "invoke", i) /\ sent' = sent \cup {i}
    BY <1>6 DEF SendInvoke
  <2> DEFINE u == Spawned("invoke", i)
  <2>1. u.op = "invoke" /\ u.id = i /\ u.pc = "entry" /\ u.verdict = "none"
    BY DEF Spawned, Idle
  <2>2. tasks' = [tasks EXCEPT ![s] = u]
    BY DEF Spawn, Become, Spawned
  <2> HIDE DEF u
  <2>3. tasks'[s] = u /\ \A x \in Permits : x # s => tasks'[x] = tasks[x]
    BY <1>1, <2>2
  <2>4. tasks[s].op = "none"
    BY <1>2, IdleTask
  <2>5. ASSUME NEW j \in Invocations
        PROVE  ListedOK(j)' /\ MarkedOK(j)'
    <3>1. ListedOK(j) /\ MarkedOK(j)
      BY DEF TokensOK
    <3>2. ListedOK(j)'
      BY <1>2, <2>3, <2>4, <3>1 DEF ListedOK
    <3>3. Marked(j)' => Marked(j)
      BY <1>2, <2>1, <2>3 DEF Marked
    <3>4. Marked(j) => j # i
      BY <3>1 DEF MarkedOK
    <3> QED
      BY <2>1, <2>3, <3>1, <3>2, <3>3, <3>4 DEF MarkedOK
  <2>6. InactivePreempts'
    BY <1>2, <2>1, <2>3, <2>4 DEF TokensOK, InactivePreempts, At
  <2> QED
    BY <2>5, <2>6 DEF TokensOK
<1> QED
  BY <1>4, <1>5, <1>6

LEMMA HostTokens ==
    ASSUME IInv, TokensOK,
           \/ ObserverStarts \/ ObserverEnds \/ Crash \/ Load \/ UNCHANGED vars
           \/ \E i \in Invocations : ExpireNonce(i)
    PROVE  TokensOK'
<1>1. ASSUME UNCHANGED <<status, registered, receipts, filed, cancelAnswers, sent, tasks>>
      PROVE  TokensOK'
  BY <1>1 DEF TokensOK, InactivePreempts, At, ListedOK, MarkedOK, Marked
<1>2. CASE ObserverStarts \/ ObserverEnds \/ UNCHANGED vars \/ \E i \in Invocations : ExpireNonce(i)
  BY <1>1, <1>2 DEF ObserverStarts, ObserverEnds, ExpireNonce, vars, files, cancels, memory, runtime, history
<1>3. CASE Load
  <2>1. ~loaded /\ UNCHANGED <<registered, receipts, filed, cancelAnswers, sent, tasks>>
    BY <1>3 DEF Load, files, cancels, runtime, history
  <2>2. ASSUME NEW x \in Permits, tasks[x].op = "invoke", tasks[x].pc \in {"running", "backoff"}
        PROVE  FALSE
    BY <2>1, <2>2, InvokeFacts
  <2>3. InactivePreempts'
    BY <2>1, <2>2 DEF InactivePreempts
  <2> QED
    BY <2>1, <2>3 DEF TokensOK, ListedOK, MarkedOK, Marked
<1>4. CASE Crash
  <2>1. /\ receipts' = filed /\ UNCHANGED <<filed, cancelAnswers, sent>>
        /\ tasks' = [x \in Permits |-> Idle] /\ registered' = [i \in DOMAIN registered |-> None]
    BY <1>4 DEF Crash, history
  <2>2. DOMAIN registered = Invocations \cup Writes \cup Reads
    BY DEF IInv, Types, FileTypes
  <2>3. \A x \in Permits : tasks'[x].op = "none"
    BY <2>1, IdleTask
  <2>4. ASSUME NEW i \in Invocations
        PROVE  ListedOK(i)' /\ MarkedOK(i)'
    <3>1. registered'[i] = None
      BY <2>1, <2>2
    <3>2. Marked(i)' => Marked(i)
      BY <2>1, <2>3 DEF Marked
    <3>3. MarkedOK(i)
      BY DEF TokensOK
    <3> QED
      BY <2>1, <2>3, <3>1, <3>2, <3>3 DEF ListedOK, MarkedOK
  <2>5. InactivePreempts'
    BY <2>3 DEF InactivePreempts
  <2> QED
    BY <2>4, <2>5 DEF TokensOK
<1> QED
  BY <1>2, <1>3, <1>4

LEMMA InitTokens == Init => TokensOK
<1> SUFFICES ASSUME Init
             PROVE  TokensOK
  OBVIOUS
<1>1. \A x \in Permits : tasks[x].op = "none"
  BY IdleTask DEF Init
<1>2. \A i \in Invocations : /\ registered[i] = None /\ receipts[i] = "none" /\ filed[i] = "none"
                             /\ cancelAnswers[i] = {}
  BY DEF Init
<1> QED
  BY <1>1, <1>2 DEF TokensOK, InactivePreempts, ListedOK, MarkedOK, Marked

LEMMA NextTokens ==
    ASSUME IInv, IInv', TokensOK, [Next]_vars
    PROVE  TokensOK'
<1>1. ASSUME NEW s \in Permits, Step(s)
      PROVE  TokensOK'
  <2>1. CASE \/ Persist(s) \/ PersistFails(s) \/ StoreCorrupt(s) \/ Preempted(s)
             \/ Begin(s) \/ Send(s) \/ Await(s) \/ Finish(s)
             \/ CompareAndSwap(s) \/ ReadState(s) \/ CheckStatus(s) \/ Change(s)
    BY <2>1, FileStepsTokens
  <2>2. CASE Admit(s) \/ WorkerAnswers(s) \/ WorkerFails(s) \/ Retry(s)
    BY <2>2, WorkerTokens
  <2>3. CASE Register(s) \/ Recheck(s) \/ Unregister(s)
    BY <2>3, MapTokens
  <2>4. CASE SetStatus(s) \/ Preempt(s)
    BY <2>4, LifecycleTokens
  <2>5. CASE FindReceipt(s) \/ Authorize(s) \/ WriteReceipt(s) \/ CancelFails(s)
    BY <2>5, CancelTokens
  <2>6. CASE Signal(s)
    BY <2>6, SignalTokens
  <2> QED
    BY <1>1, <2>1, <2>2, <2>3, <2>4, <2>5, <2>6 DEF Step
<1>2. ASSUME NEW s \in Permits,
             \/ SendObserve(s) \/ SendInvoke(s) \/ SendWrite(s) \/ SendRead(s)
             \/ SendCancel(s) \/ SendLifecycle(s)
      PROVE  TokensOK'
  BY <1>2, SendTokens
<1>3. CASE \/ ObserverStarts \/ ObserverEnds \/ Crash \/ Load \/ Quiescent \/ UNCHANGED vars
           \/ \E i \in Invocations : ExpireNonce(i)
  BY <1>3, HostTokens DEF Quiescent
<1> QED
  BY <1>1, <1>2, <1>3 DEF Next

\* What the map lists is at work, and what was signalled stays cancelled.
THEOREM TokensInvariant == Spec => [](IInv /\ TokensOK)
<1>1. IInv /\ IInv' /\ TokensOK /\ [Next]_vars => TokensOK'
  BY NextTokens
<1> QED
  BY <1>1, Inductive, InitTokens, PTL DEF Spec

\* While the host holds the plugin disabled or quarantined and no request is at
\* its preemption, no node invocation runs with a live token (disable,
\* quarantine and the second status check of invoke_worker).
THEOREM InactivityPreempts == Spec => []InactivePreempts
<1>1. TokensOK => InactivePreempts
  BY DEF TokensOK
<1> QED
  BY <1>1, TokensInvariant, PTL

\* An invocation that somebody was told is signalled holds no live token, though
\* nonces expire, receipts are replaced or lost and the host restarts
\* (cancel_invocation).
THEOREM SignalsAreKept == Spec => []SignalledIsCancelled
<1>1. TokensOK => SignalledIsCancelled
  BY DEF TokensOK, MarkedOK, Marked, SignalledIsCancelled
<1> QED
  BY <1>1, TokensInvariant, PTL

\* The state file is replaced only by the document of the lock's holder.
LEMMA FileSteps ==
    ASSUME IInv, [Next]_vars
    PROVE  NextFile(disk')
<1>1. ASSUME NEW s \in Permits, Persist(s)
      PROVE  NextFile(disk')
  <2>1. lock = s
    BY <1>1, Here DEF Persist, Writing, SlotOK, Holding, WritingPlaces
  <2> QED
    BY <1>1, <2>1 DEF Persist, NextFile
<1>2. ASSUME NEW s \in Permits, PersistFails(s)
      PROVE  NextFile(disk')
  <2>1. lock = s
    BY <1>2, Here DEF PersistFails, Writing, SlotOK, Holding, WritingPlaces
  <2> QED
    BY <1>2, <2>1 DEF PersistFails, NextFile
<1>3. CASE Crash
  BY <1>3, CrashFile
<1>4. CASE disk' = disk
  BY <1>4 DEF NextFile
<1>5. ASSUME NEW s \in Permits, Step(s), ~Persist(s), ~PersistFails(s)
      PROVE  disk' = disk
  BY <1>5 DEF Step, StoreCorrupt, Admit, Register, Recheck, Unregister, WorkerAnswers, WorkerFails, Retry,
     Begin, Send, Await, Finish, CompareAndSwap, ReadState, Preempted, CheckStatus, Change, SetStatus,
     Preempt, FindReceipt, Authorize, Signal, WriteReceipt, CancelFails, files
<1>6. ASSUME NEW s \in Permits,
             \/ SendObserve(s) \/ SendInvoke(s) \/ SendWrite(s) \/ SendRead(s)
             \/ SendCancel(s) \/ SendLifecycle(s)
      PROVE  disk' = disk
  BY <1>6 DEF SendObserve, SendInvoke, SendWrite, SendRead, SendCancel, SendLifecycle, Spawn, files
<1>7. CASE ObserverStarts \/ ObserverEnds \/ Load \/ Quiescent \/ UNCHANGED vars
  <2>1. disk' = disk
    BY <1>7 DEF ObserverStarts, ObserverEnds, Load, Quiescent, files, vars
  <2> QED
    BY <1>4, <2>1
<1>8. ASSUME NEW i \in Invocations, ExpireNonce(i)
      PROVE  disk' = disk
  BY <1>8 DEF ExpireNonce, files
<1> QED
  BY <1>1, <1>2, <1>3, <1>4, <1>5, <1>6, <1>7, <1>8 DEF Next

\* Rewriting the whole document loses nobody's update.
THEOREM UpdatesAreKept == Spec => StateUpdatesKept
<1> DEFINE Kept ==
        disk # Torn /\ disk' # Torn =>
        /\ \A d \in Deliveries :
            /\ disk.obs[d] \in Terminal => disk'.obs[d] = disk.obs[d]
            /\ disk.obs[d] # "absent" => disk'.obs[d] # "absent"
        /\ disk.reads \subseteq disk'.reads
        /\ disk'.life # disk.life \/ disk'.receipt # disk.receipt =>
            \E s \in Permits :
                /\ tasks[s].op = "lifecycle" /\ disk'.receipt = tasks[s].number
                /\ disk.life = Source(tasks[s].id) /\ disk'.life = Target(tasks[s].id)
        /\ disk'.node # disk.node => Prior[disk'.node] = disk.node /\ disk'.gen = disk.gen + 1
<1>1. IInv /\ [Next]_vars => [Kept]_vars
  <2> SUFFICES ASSUME IInv, [Next]_vars, disk # Torn, disk' # Torn
               PROVE  /\ \A d \in Deliveries :
                         /\ disk.obs[d] \in Terminal => disk'.obs[d] = disk.obs[d]
                         /\ disk.obs[d] # "absent" => disk'.obs[d] # "absent"
                      /\ disk.reads \subseteq disk'.reads
                      /\ disk'.life # disk.life \/ disk'.receipt # disk.receipt =>
                            \E s \in Permits :
                               /\ tasks[s].op = "lifecycle" /\ disk'.receipt = tasks[s].number
                               /\ disk.life = Source(tasks[s].id) /\ disk'.life = Target(tasks[s].id)
                      /\ disk'.node # disk.node =>
                            Prior[disk'.node] = disk.node /\ disk'.gen = disk.gen + 1
    OBVIOUS
  <2>1. NextFile(disk')
    BY FileSteps
  <2> QED
    BY <2>1, NextFileKeeps
<1> QED
  BY <1>1, Inductive, PTL DEF Spec, StateUpdatesKept
=============================================================================
