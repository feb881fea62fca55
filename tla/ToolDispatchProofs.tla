------------------------- MODULE ToolDispatchProofs -------------------------
(***************************************************************************)
(* What the tool dispatch promises, for any number of daemons, calls,      *)
(* proposals and stream events.                                            *)
(*                                                                         *)
(* The argument is one of rely and guarantee.  At most one daemon serves;  *)
(* only its handler proposes, asks, approves and executes.  The startup    *)
(* recovery of other daemons touches only calls whose dispatch is in the   *)
(* journal.  What both may write is protected by the compare on the head.  *)
(* A call that a handler proposes a second time loses its promises, and    *)
(* the invariant says of every other call that this does not concern it.   *)
(***************************************************************************)
EXTENDS ToolDispatch, TLAPS

\* A call nobody has dispatched, ended or asked about.
Untouched(c) ==
    /\ exec[c].state = "none"
    /\ \A k \in 1..MaxAsks : cont[<<c, k>>] = "absent"

OneServer == \A q, r \in Runtimes : Serving(q) /\ Serving(r) => q = r

NoEntries == [calls |-> 0, results |-> 0]

\* What the records of a call that was proposed once say about its stream, its
\* conversation and its question: there is one, open only before the dispatch.
CallFacts(c) ==
    /\ effects[c] <= 1
    /\ exec[c].state = "none" => exec[c] = NoExecution
    /\ exec[c].state = "dispatched" => exec[c].observed = 0
    /\ exec[c].state = "started" => exec[c].observed \in 1..(StreamLength - 1)
    /\ exec[c].state # "terminal" => exec[c].outcome = "none" /\ conv[c] = NoEntries
    /\ exec[c].observed <= StreamLength
    /\ exec[c].outcome \in {"stream", "cancelled"} => exec[c].observed = StreamLength /\ receipt[c]
    /\ conv[c].results <= conv[c].calls /\ conv[c].calls <= 1
    /\ \A k \in 1..MaxAsks : appr[<<c, k>>] = "pending" => exec[c].state = "none"
    /\ \A j, k \in 1..MaxAsks :
          cont[<<c, j>>] # "absent" /\ cont[<<c, k>>] # "absent" => j = k

CallOK(c) ==
    /\ proposals[c] = 0 => Untouched(c)
    /\ ProposedOnce(c) => CallFacts(c)

\* Only what the policy asks about is asked, and the journal follows the gate.
AskOK(a) ==
    /\ cont[a] # "absent" => a[1] \in AskCalls
    /\ appr[a] # "none" => cont[a] # "absent"
    /\ appr[a] = "approved" => cont[a] = "resumed"
    /\ appr[a] = "denied" => cont[a] = "cancelled"

\* The call of a handler may be executed: the policy allows it, or its approval
\* is in the journal.
Consented(x) ==
    /\ x.call \notin RejectCalls
    /\ x.call \in AskCalls => appr[<<x.call, x.ask>>] = "approved"

\* What the handler of a serving daemon knows at each of its steps, of a call
\* that was proposed once ...
ServerKnowsCall(x) ==
    /\ x.pc \in {"create", "reject"} => Untouched(x.call)
    /\ x.pc \in {"request", "approve", "dispatch", "deny"} => exec[x.call].state = "none"
    /\ x.pc \in {"receipt", "host"} /\ x.mode = "fresh" => effects[x.call] = 0

\* ... and of any call.
ServerKnows(x) ==
    /\ ProposedOnce(x.call) => ServerKnowsCall(x)
    /\ x.pc \in {"create", "reject", "approve", "dispatch"} => proposals[x.call] # 0
    /\ x.pc \in {"propose", "create"} => x.kind \in {"turn", "loop"}
    /\ x.pc = "create" => x.call \in AskCalls
    /\ x.pc = "request" => appr[<<x.call, x.ask>>] = "none" /\ cont[<<x.call, x.ask>>] = "pending"
    /\ x.pc = "reject" => x.call \in RejectCalls
    /\ x.pc \in {"approve", "dispatch"} => x.mode = "fresh" /\ x.skip = 0 /\ Consented(x)
    /\ x.pc = "receipt" => x.mode \in {"fresh", "reconcile"}
    /\ x.pc \in {"receipt", "host"} /\ x.mode = "fresh" =>
          exec[x.call].state # "none" /\ Consented(x)
    /\ x.kind = "approval" =>
          cont[<<x.call, x.ask>>] = IF x.approved THEN "resumed" ELSE "cancelled"
    /\ x.pc \in {"decide", "resolution", "deny"} => x.kind = "approval"
    /\ x.pc = "decide" => x.skip = 0
    /\ x.pc = "decide" /\ x.moved => appr[<<x.call, x.ask>>] \in {"none", "pending"}
    /\ x.pc = "resolution" =>
          appr[<<x.call, x.ask>>] = "pending" /\ x.mode = "fresh" /\ x.skip = 0
    /\ x.pc = "deny" => appr[<<x.call, x.ask>>] = "denied"
    /\ x.pc # "scanning"

\* Startup recovery reconciles calls that were dispatched, and nothing else.
StartupKnows(x) ==
    /\ x.pc \in {"scanning", "receipt", "project", "unavailable", "convCall", "convResult"}
    /\ x.pc # "scanning" => x.mode = "reconcile" /\ exec[x.call].state # "none"

\* What any handler knows of a call that was proposed once, as long as nobody has
\* committed since its position.
HeadKnows(x) ==
    /\ x.pc \in {"receipt", "host", "persist", "project", "unavailable"} =>
          exec[x.call].state \in {"dispatched", "started"} /\ exec[x.call].observed = x.skip
    /\ x.pc = "convCall" => exec[x.call].state = "terminal" /\ conv[x.call] = NoEntries
    /\ x.pc = "convResult" =>
          exec[x.call].state = "terminal" /\ conv[x.call] = [calls |-> 1, results |-> 0]

HandlerKnows(r) ==
    /\ h[r].pos <= head
    /\ h[r].pc \in {"host", "persist"} => h[r].mode = "fresh"
    /\ h[r].pc = "project" => receipt[h[r].call]
    /\ Serving(r) => ServerKnows(h[r])
    /\ h[r].pc # "down" /\ h[r].kind = "startup" => StartupKnows(h[r])
    /\ h[r].pos = head /\ ProposedOnce(h[r].call) => HeadKnows(h[r])

StoresAgree ==
    /\ \A c \in Calls : CallOK(c)
    /\ \A a \in Asks : AskOK(a)
    /\ EffectOnlyWithConsent /\ JournalReplays

IInv ==
    /\ TypeOK
    /\ StoresAgree
    /\ OneServer
    /\ \A r \in Runtimes : HandlerKnows(r)

-----------------------------------------------------------------------------
(***************************************************************************)
(* Rely and guarantee                                                      *)
(***************************************************************************)
\* What no step ever takes back.
Monotone ==
    /\ head' \in Nat /\ head' >= head /\ (head' = head => UNCHANGED journal)
    /\ \A c \in Calls :
          /\ exec[c].state # "none" => exec'[c].state # "none"
          /\ receipt[c] => receipt'[c]
          /\ proposals'[c] <= 1 => proposals[c] <= 1
          /\ proposals[c] # 0 => proposals'[c] # 0

\* What a daemon that does not serve leaves alone.
Quiet ==
    /\ UNCHANGED <<cont, appr, effects, proposals>>
    /\ \A c \in Calls : exec[c].state = "none" => exec'[c] = exec[c]

\* A step of runtime r that keeps its part of the bargain.
GoodStep(r) ==
    /\ TypeOK' /\ StoresAgree'
    /\ Monotone
    /\ ~Serving(r) => Quiet
    /\ \A q \in Runtimes \ {r} : h'[q] = h[q]
    /\ Serving(r)' => Serving(r) \/ \A q \in Runtimes : ~Serving(q)
    /\ HandlerKnows(r)'

\* What the handler of another runtime knows survives.
LEMMA OthersKnow ==
    ASSUME TypeOK, NEW q \in Runtimes, h'[q] = h[q], HandlerKnows(q), Monotone,
           Serving(q) => Quiet
    PROVE  HandlerKnows(q)'
<1> DEFINE x == h[q]
<1>0. x \in Handlers /\ x.call \in Calls /\ <<x.call, x.ask>> \in Asks /\ x.pos \in Nat /\ head \in Nat
  BY ToolDispatchAssumption DEF TypeOK, Handlers, Asks
<1>1. ASSUME Serving(q) PROVE ServerKnows(x)'
  <2> Quiet /\ ServerKnows(x)
    BY <1>1 DEF HandlerKnows
  <2>1. Untouched(x.call) => Untouched(x.call)'
    BY <1>0 DEF Quiet, Untouched
  <2>2. ProposedOnce(x.call)' => ServerKnowsCall(x)'
    BY <1>0, <2>1 DEF ServerKnows, ServerKnowsCall, ProposedOnce, Quiet, Monotone, Untouched
  <2>3. Consented(x) => Consented(x)'
    BY DEF Consented, Quiet
  <2> QED
    BY <1>0, <2>2, <2>3 DEF ServerKnows, Quiet, Monotone, ProposedOnce, Consented
<1>2. StartupKnows(x) => StartupKnows(x)'
  BY <1>0 DEF StartupKnows, Monotone
<1>3. x.pos <= head' /\ (x.pos = head' => head' = head)
  BY <1>0 DEF HandlerKnows, Monotone
<1>4. x.pos = head' /\ ProposedOnce(x.call)' => HeadKnows(x)'
  BY <1>3 DEF HeadKnows, Monotone, HandlerKnows, journal, ProposedOnce
<1> QED
  BY <1>0, <1>1, <1>2, <1>3, <1>4 DEF HandlerKnows, Monotone, Serving, ProposedOnce

\* A good step of one runtime preserves the invariant of all.
LEMMA GoodStepKeepsIInv ==
    ASSUME IInv, NEW r \in Runtimes, GoodStep(r)
    PROVE  IInv'
<1>1. ASSUME NEW q \in Runtimes, q # r PROVE HandlerKnows(q)'
  <2>1. Serving(q) => ~Serving(r)
    BY <1>1 DEF IInv, OneServer
  <2> QED
    BY <1>1, <2>1, OthersKnow DEF IInv, GoodStep
<1>2. OneServer'
  BY DEF OneServer, GoodStep, IInv, Serving
<1> QED
  BY <1>1, <1>2 DEF IInv, GoodStep

-----------------------------------------------------------------------------
(***************************************************************************)
(* What a step on one call leaves of the others                            *)
(***************************************************************************)
\* The records of a call, and of its questions, are what they were.
SameCall(b) ==
    /\ exec'[b] = exec[b] /\ conv'[b] = conv[b] /\ effects'[b] = effects[b]
    /\ proposals'[b] = proposals[b]
    /\ receipt[b] => receipt'[b]
    /\ \A k \in 1..MaxAsks : cont'[<<b, k>>] = cont[<<b, k>>] /\ appr'[<<b, k>>] = appr[<<b, k>>]

LEMMA SameCallKeeps ==
    ASSUME NEW b \in Calls, CallOK(b), SameCall(b)
    PROVE  CallOK(b)'
<1>1. Untouched(b) => Untouched(b)'
  BY DEF SameCall, Untouched
<1>2. CallFacts(b) => CallFacts(b)'
  BY DEF SameCall, CallFacts
<1> QED
  BY <1>1, <1>2 DEF CallOK, SameCall, ProposedOnce

\* A step that executes nothing keeps the stores in agreement when it does so for
\* the one call it touches, and when it spoils the journal only for a call that
\* was proposed again.
LEMMA StoresStep ==
    ASSUME IInv, Monotone, effects' = effects, NEW c \in Calls, CallOK(c)',
           \A b \in Calls : b # c => SameCall(b),
           \A a \in Asks : AskOK(a)',
           \A a \in Asks : appr[a] = "approved" => appr'[a] = "approved",
           poisoned' => poisoned \/ ~(proposals'[c] <= 1)
    PROVE  StoresAgree'
<1>1. \A b \in Calls : CallOK(b)'
  BY SameCallKeeps DEF IInv, StoresAgree
<1>2. EffectOnlyWithConsent'
  <2> SUFFICES ASSUME NEW b \in Calls, effects[b] > 0
               PROVE  /\ exec'[b].state # "none" /\ b \notin RejectCalls
                      /\ b \in AskCalls => \E a \in Asks :
                            a[1] = b /\ appr'[a] = "approved" /\ cont'[a] = "resumed"
    BY DEF EffectOnlyWithConsent
  <2>1. exec[b].state # "none" /\ b \notin RejectCalls
        /\ (b \in AskCalls => \E a \in Asks : a[1] = b /\ appr[a] = "approved")
    BY DEF IInv, StoresAgree, EffectOnlyWithConsent
  <2>2. \A a \in Asks : appr'[a] = "approved" => cont'[a] = "resumed"
    BY DEF AskOK
  <2> QED
    BY <2>1, <2>2 DEF Monotone
<1>3. JournalReplays'
  BY DEF JournalReplays, ProposedOnce, IInv, StoresAgree, Monotone
<1> QED
  BY <1>1, <1>2, <1>3 DEF StoresAgree

\* Questions are not asked, nor answered.
LEMMA SameAsks ==
    ASSUME IInv, UNCHANGED <<cont, appr>>
    PROVE  /\ \A a \in Asks : AskOK(a)'
           /\ \A a \in Asks : appr[a] = "approved" => appr'[a] = "approved"
BY DEF IInv, StoresAgree, AskOK

\* A step that only moves a handler, or stores a receipt.
LEMMA OnlyHandlerMoves ==
    ASSUME IInv, UNCHANGED <<journal, cont, effects>>, \A c \in Calls : receipt[c] => receipt'[c]
    PROVE  StoresAgree' /\ Monotone /\ Quiet
<1>1. \A c \in Calls : CallOK(c)'
  <2>1. \A b \in Calls : SameCall(b)
    BY DEF SameCall, journal
  <2> QED
    BY <2>1, SameCallKeeps DEF IInv, StoresAgree
<1>2. \A a \in Asks : AskOK(a)'
  BY SameAsks DEF journal
<1>3. EffectOnlyWithConsent' /\ JournalReplays'
  BY DEF IInv, StoresAgree, journal, EffectOnlyWithConsent, JournalReplays, ProposedOnce
<1>4. Monotone /\ Quiet
  BY DEF Monotone, Quiet, TypeOK, journal, IInv
<1> QED
  BY <1>1, <1>2, <1>3, <1>4 DEF StoresAgree

\* A commit that changes no record of a call.
LEMMA PlainCommit ==
    ASSUME IInv, head' = head + 1,
           UNCHANGED <<exec, appr, conv, proposals, poisoned, cont, receipt, effects>>
    PROVE  StoresAgree' /\ Monotone /\ Quiet
<1>1. \A c \in Calls : CallOK(c)'
  <2>1. \A b \in Calls : SameCall(b)
    BY DEF SameCall
  <2> QED
    BY <2>1, SameCallKeeps DEF IInv, StoresAgree
<1>2. \A a \in Asks : AskOK(a)'
  BY SameAsks
<1>3. EffectOnlyWithConsent' /\ JournalReplays'
  BY DEF IInv, StoresAgree, EffectOnlyWithConsent, JournalReplays, ProposedOnce
<1>4. Monotone /\ Quiet
  BY ToolDispatchAssumption DEF Monotone, Quiet, TypeOK, IInv
<1> QED
  BY <1>1, <1>2, <1>3, <1>4 DEF StoresAgree

-----------------------------------------------------------------------------
(***************************************************************************)
(* One lemma per action                                                    *)
(***************************************************************************)
PCs == Committing \cup {"idle", "down", "create", "receipt", "host", "persist", "repair",
                        "decide", "scanning"}

\* Types of a handler's fields.
LEMMA HandlerTypes ==
    ASSUME TypeOK, NEW r \in Runtimes
    PROVE  /\ h[r] \in Handlers /\ h[r].call \in Calls /\ h[r].ask \in 1..MaxAsks
           /\ <<h[r].call, h[r].ask>> \in Asks
           /\ h[r].pos \in 0..MaxHead /\ h[r].todo \subseteq Calls
           /\ h[r].pos \in Nat /\ h[r].skip \in Nat /\ head \in Nat
           /\ h[r].kind \in {"none", "turn", "loop", "approval", "startup"}
BY ToolDispatchAssumption DEF TypeOK, Handlers, Asks

\* The handlers at rest.
LEMMA RestTypes ==
    /\ Idle \in Handlers /\ Idle.pc = "idle" /\ Idle.kind = "none" /\ Idle.pos = 0
    /\ Down \in Handlers /\ Down.pc = "down" /\ Down.kind = "none" /\ Down.pos = 0
<1>1. 1 \in Calls /\ 1 \in 1..MaxAsks /\ 0 \in 0..MaxHead
  BY ToolDispatchAssumption DEF Calls
<1>2. Idle \in Handlers /\ Idle.pc = "idle" /\ Idle.kind = "none" /\ Idle.pos = 0
  BY <1>1 DEF Idle, Handlers
<1>3. Down \in Handlers /\ Down.pc = "down"
  BY <1>2 DEF Down, Handlers
<1>4. Down.kind = "none" /\ Down.pos = 0
  BY DEF Down, Idle
<1> QED
  BY <1>2, <1>3, <1>4

\* A handler that is idle or down knows nothing.
LEMMA HandlerRests ==
    ASSUME TypeOK, NEW r \in Runtimes, h' = [h EXCEPT ![r] = Idle] \/ h' = [h EXCEPT ![r] = Down],
           head' \in Nat
    PROVE  /\ h' \in [Runtimes -> Handlers] /\ HandlerKnows(r)'
           /\ h' = [h EXCEPT ![r] = Down] => ~Serving(r)'
           /\ \A q \in Runtimes \ {r} : h'[q] = h[q]
<1>1. h'[r] \in {Idle, Down} /\ h' \in [Runtimes -> Handlers]
  BY RestTypes DEF TypeOK
<1>2. HandlerKnows(r)'
  BY <1>1, RestTypes DEF HandlerKnows, Serving, ServerKnows, ServerKnowsCall, HeadKnows
<1>3. h' = [h EXCEPT ![r] = Down] => ~Serving(r)'
  BY RestTypes DEF Serving, TypeOK
<1> QED
  BY <1>1, <1>2, <1>3 DEF TypeOK

\* A handler that goes on elsewhere in its program keeps its other fields.
LEMMA HandlerMoves ==
    ASSUME TypeOK, NEW r \in Runtimes, NEW p \in PCs, h' = [h EXCEPT ![r].pc = p]
    PROVE  /\ h' \in [Runtimes -> Handlers]
           /\ \A q \in Runtimes \ {r} : h'[q] = h[q]
           /\ h'[r].pc = p /\ h'[r].kind = h[r].kind /\ h'[r].call = h[r].call /\ h'[r].ask = h[r].ask
           /\ h'[r].pos = h[r].pos /\ h'[r].mode = h[r].mode /\ h'[r].skip = h[r].skip
           /\ h'[r].approved = h[r].approved /\ h'[r].resume = h[r].resume /\ h'[r].moved = h[r].moved
           /\ h'[r].todo = h[r].todo
<1>1. h'[r] = [h[r] EXCEPT !.pc = p]
  BY DEF TypeOK
<1>2. h[r] \in Handlers
  BY DEF TypeOK
<1>3. h'[r] \in Handlers
  BY <1>1, <1>2 DEF Handlers, PCs
<1> QED
  BY <1>1, <1>2, <1>3 DEF TypeOK, Handlers

\* A commit takes the next sequence number and leaves its handler at the head.
LEMMA HandlerCommits ==
    ASSUME TypeOK, NEW r \in Runtimes, NEW y \in Handlers, Commit(r, y)
    PROVE  /\ h[r].pos = head /\ head' = head + 1 /\ head' \in 0..MaxHead /\ head' \in Nat
           /\ h' \in [Runtimes -> Handlers]
           /\ \A q \in Runtimes \ {r} : h'[q] = h[q]
           /\ h'[r].pos = head'
           /\ h'[r].pc = y.pc /\ h'[r].kind = y.kind /\ h'[r].call = y.call /\ h'[r].ask = y.ask
           /\ h'[r].mode = y.mode /\ h'[r].skip = y.skip
           /\ h'[r].approved = y.approved /\ h'[r].resume = y.resume /\ h'[r].moved = y.moved
           /\ h'[r].todo = y.todo
<1>1. head' = head + 1 /\ head' \in 0..MaxHead /\ h[r].pos = head /\ head' \in Nat
  BY ToolDispatchAssumption DEF Commit, TypeOK
<1>2. h'[r] = [y EXCEPT !.pos = head + 1]
  BY DEF TypeOK, Commit
<1>3. h'[r] \in Handlers
  BY <1>1, <1>2 DEF Handlers
<1>4. h' \in [Runtimes -> Handlers]
  BY <1>3 DEF Commit, TypeOK
<1>5. \A q \in Runtimes \ {r} : h'[q] = h[q]
  BY DEF Commit, TypeOK
<1> QED
  BY <1>1, <1>2, <1>4, <1>5 DEF Handlers

\* The handler goes on at p after its commit.
LEMMA GoesOn ==
    ASSUME TypeOK, NEW r \in Runtimes, NEW p \in PCs
    PROVE  LET y == [h[r] EXCEPT !.pc = p] IN
           /\ y \in Handlers
           /\ y.pc = p /\ y.kind = h[r].kind /\ y.call = h[r].call /\ y.ask = h[r].ask
           /\ y.mode = h[r].mode /\ y.skip = h[r].skip /\ y.approved = h[r].approved
           /\ y.resume = h[r].resume /\ y.moved = h[r].moved /\ y.todo = h[r].todo
<1>1. h[r] \in Handlers
  BY DEF TypeOK
<1> QED
  BY <1>1 DEF Handlers, PCs

\* The fields of a handler that has committed and goes on at p.
LEMMA CommittedFields ==
    ASSUME TypeOK, NEW r \in Runtimes, NEW p \in PCs, Commit(r, [h[r] EXCEPT !.pc = p])
    PROVE  /\ h[r].pos = head /\ head' = head + 1 /\ head' \in 0..MaxHead /\ head' \in Nat
           /\ h' \in [Runtimes -> Handlers]
           /\ \A q \in Runtimes \ {r} : h'[q] = h[q]
           /\ h'[r].pos = head' /\ h'[r].pc = p
           /\ h'[r].kind = h[r].kind /\ h'[r].call = h[r].call /\ h'[r].ask = h[r].ask
           /\ h'[r].mode = h[r].mode /\ h'[r].skip = h[r].skip
           /\ h'[r].approved = h[r].approved /\ h'[r].resume = h[r].resume /\ h'[r].moved = h[r].moved
           /\ h'[r].todo = h[r].todo
<1> DEFINE y == [h[r] EXCEPT !.pc = p]
<1>1. /\ y \in Handlers
      /\ y.pc = p /\ y.kind = h[r].kind /\ y.call = h[r].call /\ y.ask = h[r].ask
      /\ y.mode = h[r].mode /\ y.skip = h[r].skip /\ y.approved = h[r].approved
      /\ y.resume = h[r].resume /\ y.moved = h[r].moved /\ y.todo = h[r].todo
  BY GoesOn
<1>2. Commit(r, y)
  OBVIOUS
<1> HIDE DEF y
<1> QED
  BY <1>1, <1>2, HandlerCommits

\* A call ends.  Only the end of a call that has ended already spoils the journal.
LEMMA TerminalCommit ==
    ASSUME IInv, head' = head + 1, NEW c \in Calls, NEW o,
           o \in {"stream", "cancelled", "host_unavailable", "authorization", "permission_denied"},
           MarkToolTerminal(c, o), proposals[c] # 0,
           UNCHANGED <<appr, conv, proposals, cont, receipt, effects>>,
           proposals[c] <= 1 =>
               /\ exec[c].state # "terminal"
               /\ exec[c].state = "none" => \A k \in 1..MaxAsks : appr[<<c, k>>] # "pending"
               /\ o \in {"stream", "cancelled"} => exec[c].observed + 1 = StreamLength /\ receipt[c]
    PROVE  /\ StoresAgree' /\ Monotone
           /\ exec[c].state # "none" => Quiet
           /\ exec' \in [Calls -> Executions] /\ poisoned' \in BOOLEAN
           /\ exec'[c].state = "terminal"
<1>1. /\ TypeOK /\ exec[c] \in Executions /\ exec[c].observed \in Nat /\ head \in Nat
      /\ poisoned \in BOOLEAN /\ CallOK(c)
  BY ToolDispatchAssumption DEF IInv, TypeOK, Executions, StoresAgree
<1>2. /\ exec' \in [Calls -> Executions] /\ poisoned' \in BOOLEAN
      /\ \A b \in Calls : b # c => exec'[b] = exec[b]
      /\ \/ poisoned' = TRUE /\ exec' = exec /\ exec[c].state = "terminal"
         \/ /\ poisoned' = poisoned
            /\ exec'[c] = [state |-> "terminal", observed |-> exec[c].observed + 1, outcome |-> o]
  <2> DEFINE e == [state |-> "terminal", observed |-> exec[c].observed + 1, outcome |-> o]
  <2>1. CASE exec[c].state = "terminal"
    BY <1>1, <2>1 DEF MarkToolTerminal, TypeOK
  <2>2. CASE exec[c].state # "terminal"
    <3>1. exec' = [exec EXCEPT ![c] = e] /\ poisoned' = poisoned
      BY <2>2 DEF MarkToolTerminal
    <3>2. e \in Executions
      BY <1>1 DEF Executions
    <3> HIDE DEF e
    <3>3. exec' \in [Calls -> Executions] /\ exec'[c] = e /\ \A b \in Calls : b # c => exec'[b] = exec[b]
      BY <1>1, <3>1, <3>2 DEF TypeOK
    <3> QED
      BY <1>1, <3>1, <3>3 DEF e
  <2> QED
    BY <2>1, <2>2
<1>3. exec'[c].state = "terminal"
  BY <1>2
<1>4. Monotone /\ (exec[c].state # "none" => Quiet)
  <2>1. \A b \in Calls : exec[b].state # "none" => exec'[b].state # "none"
    BY <1>2, <1>3
  <2>2. head' \in Nat /\ head' >= head /\ head' # head
    BY <1>1
  <2> QED
    BY <1>2, <2>1, <2>2 DEF Monotone, Quiet
<1>5. CallOK(c)'
  <2>1. ASSUME proposals[c] <= 1 PROVE CallFacts(c)'
    <3>1. CallFacts(c) /\ exec[c].state # "terminal"
      BY <1>1, <2>1 DEF CallOK, ProposedOnce
    <3>2. /\ exec'[c].observed = exec[c].observed + 1 /\ exec'[c].outcome = o
      BY <1>2, <3>1
    <3>3. conv[c] = NoEntries /\ exec[c].observed + 1 <= StreamLength
      BY <1>1, <3>1, ToolDispatchAssumption DEF CallFacts, Executions, NoExecution
    <3>4. \A k \in 1..MaxAsks : appr[<<c, k>>] # "pending"
      BY <2>1, <3>1 DEF CallFacts
    <3> QED
      BY <1>3, <2>1, <3>1, <3>2, <3>3, <3>4 DEF CallFacts
  <2> QED
    BY <2>1 DEF CallOK, ProposedOnce
<1>6. \A b \in Calls : b # c => SameCall(b)
  BY <1>2 DEF SameCall
<1>7. poisoned' => poisoned \/ ~(proposals'[c] <= 1)
  BY <1>2
<1>8. StoresAgree'
  BY <1>4, <1>5, <1>6, <1>7, SameAsks, StoresStep
<1> QED
  BY <1>2, <1>3, <1>4, <1>8

LEMMA LoadReceiptStep ==
    ASSUME IInv, NEW r \in Runtimes, LoadReceipt(r)
    PROVE  GoodStep(r)
<1>0. TypeOK /\ HandlerKnows(r) /\ UNCHANGED <<journal, cont, receipt, effects>> /\ h[r].pc = "receipt"
  BY DEF IInv, LoadReceipt, At
<1>1. StoresAgree' /\ Monotone /\ Quiet /\ head' \in Nat
  BY OnlyHandlerMoves, <1>0, HandlerTypes DEF journal
<1>2. CASE Finish(r)
  <2>1. h' = [h EXCEPT ![r] = Down] \/ (Serving(r) /\ h' = [h EXCEPT ![r] = Idle])
    BY <1>0, <1>2 DEF Finish, Serving
  <2> QED
    BY <1>0, <1>1, <2>1, HandlerRests DEF GoodStep, TypeOK, journal
<1>3. ASSUME NEW p \in {"project", "host", "unavailable"}, Goto(r, p),
             p = "project" => receipt[h[r].call],
             p = "host" => h[r].mode # "reconcile"
      PROVE  GoodStep(r)
  <2>1. p \in PCs /\ h' = [h EXCEPT ![r].pc = p]
    BY <1>3 DEF PCs, Committing, Goto
  <2>3. HandlerKnows(r)'
    BY <1>0, <1>3, <2>1, HandlerMoves, HandlerTypes
       DEF HandlerKnows, journal, Serving, ServerKnows, ServerKnowsCall, StartupKnows, HeadKnows,
           Consented, ProposedOnce
  <2> QED
    BY <1>0, <1>1, <2>1, <2>3, HandlerMoves DEF GoodStep, TypeOK, journal, Serving
<1> QED
  BY <1>2, <1>3 DEF LoadReceipt, WithoutReceipt

\* The effect of a call that was dispatched and consented to, and not executed
\* before unless it was proposed again.
LEMMA EffectHappens ==
    ASSUME IInv, UNCHANGED <<journal, cont, receipt>>, NEW c \in Calls, NEW a \in Asks, a[1] = c,
           exec[c].state # "none", c \notin RejectCalls, c \in AskCalls => appr[a] = "approved",
           effects' \in [Calls -> Nat],
           proposals[c] <= 1 => effects'[c] \in {0, 1},
           \A b \in Calls : b # c => effects'[b] = effects[b]
    PROVE  StoresAgree'
<1>1. \A b \in Calls : CallOK(b)'
  <2>1. \A b \in Calls : b # c => SameCall(b)
    BY DEF SameCall, journal
  <2>2. CallOK(c)'
    <3>1. CallOK(c)
      BY DEF IInv, StoresAgree
    <3> QED
      BY <3>1 DEF CallOK, CallFacts, Untouched, ProposedOnce, journal
  <2> QED
    BY <2>1, <2>2, SameCallKeeps DEF IInv, StoresAgree
<1>2. EffectOnlyWithConsent'
  <2>1. c \in AskCalls => appr[a] = "approved" /\ cont[a] = "resumed"
    BY DEF IInv, StoresAgree, AskOK
  <2> QED
    BY <2>1 DEF EffectOnlyWithConsent, IInv, StoresAgree, journal
<1>3. JournalReplays' /\ \A b \in Asks : AskOK(b)'
  BY SameAsks DEF JournalReplays, ProposedOnce, IInv, StoresAgree, journal
<1> QED
  BY <1>1, <1>2, <1>3 DEF StoresAgree

LEMMA HostExecutesStep ==
    ASSUME IInv, NEW r \in Runtimes, HostExecutes(r)
    PROVE  GoodStep(r)
<1>0. TypeOK /\ HandlerKnows(r) /\ UNCHANGED <<journal, cont, receipt>> /\ h[r].pc = "host"
  BY DEF IInv, HostExecutes, At
<1> DEFINE c == h[r].call
<1>1. /\ c \in Calls /\ Serving(r) /\ h[r].mode = "fresh"
      /\ (proposals[c] <= 1 => effects[c] = 0) /\ exec[c].state # "none" /\ Consented(h[r])
  BY <1>0, HandlerTypes
     DEF HandlerKnows, Serving, ServerKnows, ServerKnowsCall, StartupKnows, ProposedOnce
<1>2. /\ effects' \in [Calls -> Nat]
      /\ \A b \in Calls : b # c => effects'[b] = effects[b]
      /\ proposals[c] <= 1 => effects'[c] \in {0, 1}
  BY <1>0, <1>1 DEF TypeOK, HostExecutes
<1>3. StoresAgree'
  <2>1. <<c, h[r].ask>> \in Asks /\ <<c, h[r].ask>>[1] = c
    BY <1>0, HandlerTypes
  <2> QED
    BY <1>0, <1>1, <1>2, <2>1, EffectHappens DEF Consented
<1>4. Monotone
  BY <1>0, ToolDispatchAssumption DEF Monotone, journal, TypeOK
<1>5. PICK p \in {"persist", "unavailable"} : h' = [h EXCEPT ![r].pc = p]
  BY DEF HostExecutes, Goto
<1>6. p \in PCs
  BY DEF PCs, Committing
<1>7. /\ h'[r].pc = p /\ h'[r].kind = h[r].kind /\ h'[r].call = h[r].call /\ h'[r].ask = h[r].ask
      /\ h'[r].pos = h[r].pos /\ h'[r].mode = h[r].mode /\ h'[r].skip = h[r].skip
      /\ h'[r].approved = h[r].approved /\ h'[r].resume = h[r].resume /\ h'[r].moved = h[r].moved
  BY <1>0, <1>5, <1>6, HandlerMoves
<1>8. HandlerKnows(r)'
  BY <1>0, <1>1, <1>5, <1>7, HandlerTypes
     DEF HandlerKnows, journal, Serving, ServerKnows, ServerKnowsCall, HeadKnows, ProposedOnce
<1> QED
  BY <1>0, <1>1, <1>2, <1>3, <1>4, <1>5, <1>6, <1>8, HandlerMoves DEF GoodStep, TypeOK, journal

LEMMA PersistReceiptStep ==
    ASSUME IInv, NEW r \in Runtimes, PersistReceipt(r)
    PROVE  GoodStep(r)
<1>0. TypeOK /\ HandlerKnows(r) /\ UNCHANGED <<journal, cont, effects>> /\ h[r].pc = "persist"
  BY DEF IInv, PersistReceipt, At
<1>1. h[r].call \in Calls /\ Serving(r) /\ h[r].mode = "fresh"
  BY <1>0, HandlerTypes DEF HandlerKnows, Serving, StartupKnows
<1>2. receipt' \in [Calls -> BOOLEAN] /\ \A c \in Calls : receipt[c] => receipt'[c]
  BY <1>0, <1>1 DEF TypeOK, PersistReceipt
<1>3. StoresAgree' /\ Monotone
  BY <1>0, <1>2, OnlyHandlerMoves
<1>5. PICK p \in {"project", "unavailable"} :
          h' = [h EXCEPT ![r].pc = p] /\ (p = "project" => receipt'[h[r].call])
  BY <1>0, <1>1 DEF PersistReceipt, Goto, TypeOK
<1>6. p \in PCs
  BY DEF PCs, Committing
<1>7. /\ h'[r].pc = p /\ h'[r].kind = h[r].kind /\ h'[r].call = h[r].call /\ h'[r].ask = h[r].ask
      /\ h'[r].pos = h[r].pos /\ h'[r].mode = h[r].mode /\ h'[r].skip = h[r].skip
      /\ h'[r].approved = h[r].approved /\ h'[r].resume = h[r].resume /\ h'[r].moved = h[r].moved
  BY <1>0, <1>5, <1>6, HandlerMoves
<1>8. HandlerKnows(r)'
  BY <1>0, <1>1, <1>5, <1>7, HandlerTypes
     DEF HandlerKnows, journal, Serving, ServerKnows, ServerKnowsCall, HeadKnows, ProposedOnce
<1> QED
  BY <1>0, <1>1, <1>2, <1>3, <1>5, <1>6, <1>8, HandlerMoves DEF GoodStep, TypeOK, journal

LEMMA ApproveCallStep ==
    ASSUME IInv, NEW r \in Runtimes, ApproveCall(r)
    PROVE  GoodStep(r)
<1>0. /\ TypeOK /\ HandlerKnows(r)
      /\ UNCHANGED <<exec, appr, conv, active, proposals, poisoned, cont, receipt, effects>>
      /\ h[r].pc = "approve" /\ Commit(r, [h[r] EXCEPT !.pc = "dispatch"]) /\ "dispatch" \in PCs
  BY DEF IInv, ApproveCall, At, PCs, Committing
<1>1. /\ h' \in [Runtimes -> Handlers] /\ \A q \in Runtimes \ {r} : h'[q] = h[q]
      /\ h'[r].pc = "dispatch" /\ h'[r].kind = h[r].kind /\ h'[r].call = h[r].call /\ h'[r].ask = h[r].ask
      /\ h'[r].mode = h[r].mode /\ h'[r].skip = h[r].skip /\ h'[r].approved = h[r].approved
      /\ h'[r].pos = head' /\ head' = head + 1 /\ head' \in 0..MaxHead /\ head' \in Nat
  BY <1>0, CommittedFields
<1>2. StoresAgree' /\ Monotone /\ Quiet
  BY <1>0, <1>1, PlainCommit
<1>4. Serving(r)
  BY <1>0, HandlerTypes DEF HandlerKnows, Serving, StartupKnows
<1>5. HandlerKnows(r)'
  BY <1>0, <1>1, <1>4, HandlerTypes
     DEF HandlerKnows, Serving, ServerKnows, ServerKnowsCall, HeadKnows, Consented, ProposedOnce
<1> QED
  BY <1>0, <1>1, <1>2, <1>4, <1>5 DEF GoodStep, TypeOK

\* The questions of a call that was proposed once and is approved, or was not
\* asked about, are answered.
LEMMA NothingPending ==
    ASSUME IInv, NEW c \in Calls, proposals[c] <= 1, NEW k \in 1..MaxAsks,
           c \in AskCalls => appr[<<c, k>>] \in {"approved", "denied"}
    PROVE  \A j \in 1..MaxAsks : appr[<<c, j>>] # "pending"
<1> SUFFICES ASSUME NEW j \in 1..MaxAsks, appr[<<c, j>>] = "pending" PROVE FALSE
  OBVIOUS
<1>1. <<c, j>> \in Asks /\ <<c, k>> \in Asks /\ <<c, j>>[1] = c
  BY DEF Asks
<1>2. AskOK(<<c, j>>) /\ AskOK(<<c, k>>) /\ CallFacts(c)
  BY <1>1 DEF IInv, StoresAgree, CallOK, ProposedOnce
<1>3. c \in AskCalls /\ cont[<<c, j>>] # "absent" /\ cont[<<c, k>>] # "absent"
  BY <1>1, <1>2 DEF AskOK
<1>4. j = k
  BY <1>2, <1>3 DEF CallFacts
<1> QED
  BY <1>3, <1>4

LEMMA DispatchCallStep ==
    ASSUME IInv, NEW r \in Runtimes, DispatchCall(r)
    PROVE  GoodStep(r)
<1>0. /\ TypeOK /\ HandlerKnows(r) /\ UNCHANGED <<appr, conv, active, proposals, cont, receipt, effects>>
      /\ h[r].pc = "dispatch" /\ Commit(r, [h[r] EXCEPT !.pc = "receipt"]) /\ "receipt" \in PCs
      /\ ApplyToolDispatch(h[r].call)
  BY DEF IInv, DispatchCall, At, PCs, Committing
<1>1. PICK c \in Calls : c = h[r].call
  BY <1>0, HandlerTypes
<1>2. /\ h' \in [Runtimes -> Handlers] /\ \A q \in Runtimes \ {r} : h'[q] = h[q]
      /\ h'[r].pc = "receipt" /\ h'[r].kind = h[r].kind /\ h'[r].call = c /\ h'[r].ask = h[r].ask
      /\ h'[r].mode = h[r].mode /\ h'[r].skip = h[r].skip /\ h'[r].approved = h[r].approved
      /\ h'[r].pos = head' /\ head' = head + 1 /\ head' \in 0..MaxHead /\ head' \in Nat
  BY <1>0, <1>1, CommittedFields
<1>3. /\ Serving(r) /\ Consented(h[r]) /\ h[r].mode = "fresh" /\ h[r].skip = 0
      /\ (proposals[c] <= 1 => exec[c].state = "none")
      /\ proposals[c] # 0 /\ exec[c] \in Executions /\ CallOK(c) /\ poisoned \in BOOLEAN /\ head \in Nat
      /\ h[r].ask \in 1..MaxAsks
  BY <1>0, <1>1, HandlerTypes
     DEF HandlerKnows, Serving, StartupKnows, ServerKnows, ServerKnowsCall, ProposedOnce,
         IInv, StoresAgree, TypeOK
<1>4. /\ exec' \in [Calls -> Executions] /\ poisoned' \in BOOLEAN
      /\ \A b \in Calls : b # c => exec'[b] = exec[b]
      /\ \/ poisoned' = TRUE /\ exec' = exec /\ exec[c].state # "none"
         \/ poisoned' = poisoned /\ exec[c].state = "none" /\ exec'[c] = [exec[c] EXCEPT !.state = "dispatched"]
  <2> DEFINE e == [exec[c] EXCEPT !.state = "dispatched"]
  <2>1. CASE exec[c].state # "none"
    BY <1>0, <1>1, <1>3, <2>1 DEF ApplyToolDispatch, TypeOK
  <2>2. CASE exec[c].state = "none"
    <3>1. exec' = [exec EXCEPT ![c] = e] /\ poisoned' = poisoned
      BY <1>0, <1>1, <2>2 DEF ApplyToolDispatch
    <3>2. e \in Executions
      BY <1>3 DEF Executions
    <3> HIDE DEF e
    <3>3. exec' \in [Calls -> Executions] /\ exec'[c] = e /\ \A b \in Calls : b # c => exec'[b] = exec[b]
      BY <1>0, <3>1, <3>2 DEF TypeOK
    <3> QED
      BY <1>3, <2>2, <3>1, <3>3 DEF e
  <2> QED
    BY <2>1, <2>2
<1>5. exec'[c].state # "none"
  BY <1>3, <1>4 DEF Executions
<1>6. Monotone
  <2>1. \A b \in Calls : exec[b].state # "none" => exec'[b].state # "none"
    BY <1>4, <1>5
  <2>2. head' >= head /\ head' # head
    BY <1>2, <1>3
  <2> QED
    BY <1>0, <1>2, <2>1, <2>2 DEF Monotone
<1>7. ASSUME proposals[c] <= 1
      PROVE  /\ CallFacts(c)' /\ effects[c] = 0
             /\ exec'[c].state = "dispatched" /\ exec'[c].observed = 0
  <2>1. CallFacts(c) /\ exec[c].state = "none" /\ exec[c].observed = 0 /\ exec[c].outcome = "none"
        /\ conv[c] = NoEntries
    BY <1>3, <1>7 DEF CallOK, ProposedOnce, CallFacts, NoExecution
  <2>2. exec'[c].state = "dispatched" /\ exec'[c].observed = 0 /\ exec'[c].outcome = "none"
    BY <1>3, <1>4, <2>1 DEF Executions
  <2>3. \A j \in 1..MaxAsks : appr[<<c, j>>] # "pending"
    BY <1>1, <1>3, <1>7, NothingPending DEF Consented
  <2>4. effects[c] = 0
    BY <1>0, <2>1 DEF IInv, StoresAgree, EffectOnlyWithConsent, TypeOK
  <2> QED
    BY <1>0, <1>7, <2>1, <2>2, <2>3, <2>4, ToolDispatchAssumption DEF CallFacts
<1>8. StoresAgree'
  <2>1. CallOK(c)'
    BY <1>0, <1>3, <1>7 DEF CallOK, ProposedOnce
  <2>2. \A b \in Calls : b # c => SameCall(b)
    BY <1>0, <1>4 DEF SameCall
  <2>3. poisoned' => poisoned \/ ~(proposals'[c] <= 1)
    BY <1>0, <1>3, <1>4
  <2> QED
    BY <1>0, <1>6, <2>1, <2>2, <2>3, SameAsks, StoresStep
<1>9. HandlerKnows(r)'
  <2>1. Consented(h[r])'
    BY <1>0, <1>1, <1>2, <1>3 DEF Consented
  <2>2. ServerKnows(h[r])'
    BY <1>0, <1>1, <1>2, <1>3, <1>5, <1>7, <2>1 DEF HandlerKnows, ServerKnows, ServerKnowsCall, ProposedOnce
  <2> QED
    BY <1>0, <1>2, <1>3, <1>7, <2>2 DEF HandlerKnows, Serving, HeadKnows, ProposedOnce
<1> QED
  BY <1>0, <1>2, <1>3, <1>4, <1>6, <1>8, <1>9 DEF GoodStep, TypeOK

LEMMA RejectCallStep ==
    ASSUME IInv, NEW r \in Runtimes, RejectCall(r)
    PROVE  GoodStep(r)
<1>0. /\ TypeOK /\ HandlerKnows(r) /\ UNCHANGED <<appr, conv, active, proposals, cont, receipt, effects>>
      /\ h[r].pc = "reject" /\ Commit(r, [h[r] EXCEPT !.pc = "convCall"]) /\ "convCall" \in PCs
      /\ MarkToolTerminal(h[r].call, "authorization")
  BY DEF IInv, RejectCall, At, PCs, Committing
<1>1. PICK c \in Calls : c = h[r].call
  BY <1>0, HandlerTypes
<1>2. /\ h' \in [Runtimes -> Handlers] /\ \A q \in Runtimes \ {r} : h'[q] = h[q]
      /\ h'[r].pc = "convCall" /\ h'[r].kind = h[r].kind /\ h'[r].call = c /\ h'[r].ask = h[r].ask
      /\ h'[r].approved = h[r].approved
      /\ h'[r].pos = head' /\ head' = head + 1 /\ head' \in 0..MaxHead /\ head' \in Nat
  BY <1>0, <1>1, CommittedFields
<1>3. /\ Serving(r) /\ c \in RejectCalls /\ proposals[c] # 0
      /\ (proposals[c] <= 1 => exec[c].state = "none") /\ h[r].ask \in 1..MaxAsks
  BY <1>0, <1>1, HandlerTypes
     DEF HandlerKnows, Serving, StartupKnows, ServerKnows, ServerKnowsCall, Untouched, ProposedOnce
<1>4. proposals[c] <= 1 => \A k \in 1..MaxAsks : appr[<<c, k>>] # "pending"
  BY <1>3, NothingPending, ToolDispatchAssumption
<1>5. /\ StoresAgree' /\ Monotone /\ exec' \in [Calls -> Executions] /\ poisoned' \in BOOLEAN
      /\ exec'[c].state = "terminal"
  BY <1>0, <1>1, <1>2, <1>3, <1>4, TerminalCommit
<1>6. proposals[c] <= 1 => conv[c] = NoEntries
  BY <1>3 DEF IInv, StoresAgree, CallOK, ProposedOnce, CallFacts
<1>7. HandlerKnows(r)'
  BY <1>0, <1>1, <1>2, <1>3, <1>5, <1>6
     DEF HandlerKnows, Serving, ServerKnows, ServerKnowsCall, HeadKnows, TypeOK, ProposedOnce
<1> QED
  BY <1>0, <1>2, <1>3, <1>5, <1>7 DEF GoodStep, TypeOK

LEMMA DenyCallStep ==
    ASSUME IInv, NEW r \in Runtimes, DenyCall(r)
    PROVE  GoodStep(r)
<1>0. /\ TypeOK /\ HandlerKnows(r) /\ UNCHANGED <<appr, conv, active, proposals, cont, receipt, effects>>
      /\ h[r].pc = "deny" /\ Commit(r, [h[r] EXCEPT !.pc = "repair"]) /\ "repair" \in PCs
      /\ MarkToolTerminal(h[r].call, "permission_denied")
  BY DEF IInv, DenyCall, At, PCs, Committing
<1>1. PICK c \in Calls : c = h[r].call
  BY <1>0, HandlerTypes
<1>2. /\ h' \in [Runtimes -> Handlers] /\ \A q \in Runtimes \ {r} : h'[q] = h[q]
      /\ h'[r].pc = "repair" /\ h'[r].kind = h[r].kind /\ h'[r].call = c /\ h'[r].ask = h[r].ask
      /\ h'[r].approved = h[r].approved
      /\ h'[r].pos = head' /\ head' = head + 1 /\ head' \in 0..MaxHead /\ head' \in Nat
  BY <1>0, <1>1, CommittedFields
<1>3. /\ Serving(r) /\ (proposals[c] <= 1 => exec[c].state = "none")
      /\ appr[<<c, h[r].ask>>] = "denied" /\ <<c, h[r].ask>> \in Asks /\ h[r].ask \in 1..MaxAsks
  BY <1>0, <1>1, HandlerTypes
     DEF HandlerKnows, Serving, StartupKnows, ServerKnows, ServerKnowsCall, ProposedOnce
<1>4. proposals[c] <= 1 => \A k \in 1..MaxAsks : appr[<<c, k>>] # "pending"
  BY <1>3, NothingPending
<1>5. proposals[c] # 0
  BY <1>3 DEF IInv, StoresAgree, AskOK, CallOK, Untouched
<1>6. /\ StoresAgree' /\ Monotone /\ exec' \in [Calls -> Executions] /\ poisoned' \in BOOLEAN
      /\ exec'[c].state = "terminal"
  BY <1>0, <1>1, <1>2, <1>3, <1>4, <1>5, TerminalCommit
<1>7. HandlerKnows(r)'
  BY <1>0, <1>1, <1>2, <1>3, <1>6
     DEF HandlerKnows, Serving, ServerKnows, ServerKnowsCall, HeadKnows, TypeOK, ProposedOnce
<1> QED
  BY <1>0, <1>2, <1>3, <1>6, <1>7 DEF GoodStep, TypeOK

\* A call that a handler is executing, reconciling or projecting was dispatched.
LEMMA InTheOutbox ==
    ASSUME IInv, NEW r \in Runtimes, h[r].pos = head,
           h[r].pc \in {"receipt", "host", "persist", "project", "unavailable"}
    PROVE  /\ proposals[h[r].call] # 0
           /\ proposals[h[r].call] <= 1 =>
                 /\ exec[h[r].call].state \in {"dispatched", "started"}
                 /\ exec[h[r].call].observed = h[r].skip
                 /\ conv[h[r].call] = NoEntries
<1>1. PICK c \in Calls : c = h[r].call
  BY HandlerTypes DEF IInv
<1>2. HandlerKnows(r) /\ CallOK(c) /\ proposals[c] \in Nat
  BY ToolDispatchAssumption DEF IInv, StoresAgree, TypeOK
<1>3. proposals[c] <= 1 => exec[c].state \in {"dispatched", "started"} /\ exec[c].observed = h[r].skip
  BY <1>1, <1>2 DEF HandlerKnows, HeadKnows, ProposedOnce
<1> QED
  BY <1>1, <1>2, <1>3 DEF CallOK, CallFacts, Untouched, ProposedOnce

LEMMA CommitHostUnavailableStep ==
    ASSUME IInv, NEW r \in Runtimes, CommitHostUnavailable(r)
    PROVE  GoodStep(r)
<1>0. /\ TypeOK /\ HandlerKnows(r) /\ UNCHANGED <<appr, conv, active, proposals, cont, receipt, effects>>
      /\ h[r].pc = "unavailable" /\ Commit(r, [h[r] EXCEPT !.pc = "convCall"]) /\ "convCall" \in PCs
      /\ MarkToolTerminal(h[r].call, "host_unavailable")
  BY DEF IInv, CommitHostUnavailable, At, PCs, Committing
<1>1. PICK c \in Calls : c = h[r].call
  BY <1>0, HandlerTypes
<1>2. /\ h' \in [Runtimes -> Handlers] /\ \A q \in Runtimes \ {r} : h'[q] = h[q]
      /\ h'[r].pc = "convCall" /\ h'[r].kind = h[r].kind /\ h'[r].call = c /\ h'[r].ask = h[r].ask
      /\ h'[r].approved = h[r].approved /\ h'[r].mode = h[r].mode
      /\ h'[r].pos = head' /\ head' = head + 1 /\ head' \in 0..MaxHead /\ h[r].pos = head /\ head' \in Nat
  BY <1>0, <1>1, CommittedFields
<1>3. /\ proposals[c] # 0
      /\ proposals[c] <= 1 => exec[c].state \in {"dispatched", "started"} /\ conv[c] = NoEntries
  BY <1>0, <1>1, <1>2, InTheOutbox
<1>4. /\ StoresAgree' /\ Monotone /\ exec' \in [Calls -> Executions] /\ poisoned' \in BOOLEAN
      /\ (exec[c].state # "none" => Quiet) /\ exec'[c].state = "terminal"
  BY <1>0, <1>1, <1>2, <1>3, TerminalCommit
<1>5. ~Serving(r) => exec[c].state # "none"
  BY <1>0, <1>1 DEF HandlerKnows, Serving, StartupKnows
<1>7. HandlerKnows(r)'
  BY <1>0, <1>1, <1>2, <1>3, <1>4
     DEF HandlerKnows, Serving, ServerKnows, ServerKnowsCall, HeadKnows, TypeOK, StartupKnows, ProposedOnce
<1> QED
  BY <1>0, <1>2, <1>4, <1>5, <1>7 DEF GoodStep, TypeOK, Serving

\* The reducers of the stream's events keep the type of the records, touch one
\* call, and never make an undispatched call look dispatched.
LEMMA StreamEvent ==
    ASSUME TypeOK, NEW c \in Calls, ApplyStarted(c) \/ IncrementToolEventCount(c)
    PROVE  /\ exec' \in [Calls -> Executions] /\ poisoned' \in BOOLEAN
           /\ \A b \in Calls : b # c => exec'[b] = exec[b]
           /\ exec[c].state # "none" => exec'[c].state # "none"
           /\ exec[c].state = "none" => exec'[c] = exec[c]
<1> DEFINE e == [exec[c] EXCEPT !.state = "started", !.observed = @ + 1]
           f == [exec[c] EXCEPT !.observed = @ + 1]
<1>1. exec[c] \in Executions /\ exec[c].observed \in Nat /\ poisoned \in BOOLEAN
  BY DEF TypeOK, Executions
<1>2. /\ e \in Executions /\ e.state = "started"
      /\ f \in Executions /\ f.state = exec[c].state
  <2> DEFINE n == exec[c].observed + 1
  <2>1. n \in Nat
    BY <1>1
  <2>2. e = [exec[c] EXCEPT !.state = "started", !.observed = n] /\ f = [exec[c] EXCEPT !.observed = n]
    OBVIOUS
  <2> HIDE DEF n, e, f
  <2>3. e \in Executions /\ e.state = "started"
    BY <1>1, <2>1, <2>2 DEF Executions
  <2>4. f \in Executions /\ f.state = exec[c].state
    BY <1>1, <2>1, <2>2 DEF Executions
  <2> QED
    BY <2>3, <2>4
<1>3. /\ poisoned' \in BOOLEAN
      /\ \/ exec' = exec
         \/ exec[c].state # "none" /\ exec' = [exec EXCEPT ![c] = e]
         \/ exec[c].state # "none" /\ exec' = [exec EXCEPT ![c] = f]
  <2>1. ApplyStarted(c) =>
           /\ poisoned' \in BOOLEAN
           /\ exec' = exec \/ (exec[c].state # "none" /\ exec' = [exec EXCEPT ![c] = e])
    <3>1. [exec EXCEPT ![c].state = "started", ![c].observed = @ + 1] = [exec EXCEPT ![c] = e]
      BY <1>1 DEF TypeOK
    <3> HIDE DEF e
    <3> QED
      BY <1>1, <3>1 DEF ApplyStarted
  <2>2. IncrementToolEventCount(c) =>
           /\ poisoned' \in BOOLEAN
           /\ exec' = exec \/ (exec[c].state # "none" /\ exec' = [exec EXCEPT ![c] = f])
    BY <1>1 DEF IncrementToolEventCount
  <2> QED
    BY <2>1, <2>2
<1> HIDE DEF e, f
<1>4. ASSUME NEW g \in Executions, g.state # "none", exec[c].state # "none",
             exec' = [exec EXCEPT ![c] = g]
      PROVE  /\ exec' \in [Calls -> Executions]
             /\ \A b \in Calls : b # c => exec'[b] = exec[b]
             /\ exec'[c].state # "none"
  BY <1>4 DEF TypeOK
<1>5. CASE exec' = exec
  BY <1>3, <1>5 DEF TypeOK
<1> QED
  BY <1>2, <1>3, <1>4, <1>5

\* An event of the stream before its last: the record counts it.
LEMMA StreamCommit ==
    ASSUME IInv, head' = head + 1, NEW c \in Calls, proposals[c] # 0,
           ApplyStarted(c) \/ IncrementToolEventCount(c),
           UNCHANGED <<appr, conv, proposals, cont, receipt, effects>>,
           proposals[c] <= 1 =>
               /\ exec[c].state \in {"dispatched", "started"}
               /\ exec[c].observed + 1 < StreamLength
               /\ exec'[c] = [state |-> "started", observed |-> exec[c].observed + 1,
                              outcome |-> exec[c].outcome]
               /\ poisoned' = poisoned
    PROVE  StoresAgree' /\ Monotone /\ Quiet
<1>1. /\ TypeOK /\ exec[c] \in Executions /\ exec[c].observed \in Nat /\ head \in Nat /\ CallOK(c)
      /\ poisoned \in BOOLEAN
  BY ToolDispatchAssumption DEF IInv, TypeOK, Executions, StoresAgree
<1>2. /\ \A b \in Calls : b # c => exec'[b] = exec[b]
      /\ exec[c].state # "none" => exec'[c].state # "none"
      /\ exec[c].state = "none" => exec'[c] = exec[c]
  BY <1>1, StreamEvent
<1>3. Monotone /\ Quiet
  <2>1. \A b \in Calls : exec[b].state # "none" => exec'[b].state # "none"
    BY <1>2
  <2>2. head' >= head /\ head' # head /\ head' \in Nat
    BY <1>1
  <2> QED
    BY <1>2, <2>1, <2>2 DEF Monotone, Quiet
<1>4. ASSUME proposals[c] <= 1 PROVE CallFacts(c)'
  <2>1. CallFacts(c)
    BY <1>1, <1>4 DEF CallOK, ProposedOnce
  <2>2. /\ exec'[c].state = "started" /\ exec'[c].observed = exec[c].observed + 1
        /\ exec'[c].outcome = exec[c].outcome /\ exec[c].outcome = "none"
        /\ exec[c].state \notin {"none", "terminal"}
    BY <1>4, <2>1 DEF CallFacts
  <2>3. /\ exec[c].observed + 1 \in 1..(StreamLength - 1)
        /\ exec[c].observed + 1 <= StreamLength
    BY <1>1, <1>4, ToolDispatchAssumption
  <2>4. \A k \in 1..MaxAsks : appr[<<c, k>>] # "pending"
    BY <2>1, <2>2 DEF CallFacts
  <2> QED
    BY <1>4, <2>1, <2>2, <2>3, <2>4 DEF CallFacts
<1>5. CallOK(c)'
  BY <1>4 DEF CallOK, ProposedOnce
<1>6. \A b \in Calls : b # c => SameCall(b)
  BY <1>2 DEF SameCall
<1>7. poisoned' => poisoned \/ ~(proposals'[c] <= 1)
  BY <1>1
<1> QED
  BY <1>3, <1>5, <1>6, <1>7, SameAsks, StoresStep

LEMMA ProjectEventStep ==
    ASSUME IInv, NEW r \in Runtimes, ProjectEvent(r)
    PROVE  GoodStep(r)
<1> DEFINE i == h[r].skip + 1
           p == IF i = StreamLength THEN "convCall" ELSE "project"
           y == [h[r] EXCEPT !.skip = i, !.pc = p]
<1>0. /\ TypeOK /\ HandlerKnows(r) /\ UNCHANGED <<appr, conv, active, proposals, cont, receipt, effects>>
      /\ h[r].pc = "project" /\ Commit(r, y) /\ p \in PCs
  BY DEF IInv, ProjectEvent, At, PCs, Committing
<1>1. PICK c \in Calls : c = h[r].call
  BY <1>0, HandlerTypes
<1>2. i \in Nat /\ receipt[c] /\ h[r] \in Handlers /\ h[r].skip \in Nat /\ StreamLength \in Nat
      /\ StreamLength > 1
  <2>1. h[r].skip \in Nat /\ h[r] \in Handlers
    BY <1>0, HandlerTypes
  <2>2. receipt[c]
    BY <1>0, <1>1 DEF HandlerKnows
  <2> QED
    BY <2>1, <2>2, ToolDispatchAssumption
<1>3. /\ y \in Handlers /\ y.pc = p /\ y.kind = h[r].kind /\ y.call = c /\ y.ask = h[r].ask
      /\ y.mode = h[r].mode /\ y.skip = i /\ y.approved = h[r].approved
  <2> HIDE DEF i, p
  <2> QED
    BY <1>0, <1>1, <1>2 DEF Handlers, PCs
<1>4. /\ h' \in [Runtimes -> Handlers] /\ \A q \in Runtimes \ {r} : h'[q] = h[q]
      /\ h'[r].pc = p /\ h'[r].kind = h[r].kind /\ h'[r].call = c /\ h'[r].ask = h[r].ask
      /\ h'[r].mode = h[r].mode /\ h'[r].skip = i /\ h'[r].approved = h[r].approved
      /\ h'[r].pos = head' /\ head' = head + 1 /\ head' \in 0..MaxHead /\ h[r].pos = head /\ head' \in Nat
  <2> HIDE DEF y
  <2> QED
    BY <1>0, <1>3, HandlerCommits
<1>5. /\ proposals[c] # 0 /\ CallOK(c)
      /\ proposals[c] <= 1 =>
            /\ exec[c].state \in {"dispatched", "started"} /\ exec[c].observed = h[r].skip
            /\ conv[c] = NoEntries /\ CallFacts(c)
  BY <1>0, <1>1, <1>4, InTheOutbox DEF IInv, StoresAgree, CallOK, ProposedOnce
<1>6. ~Serving(r) => h[r].kind = "startup" /\ h[r].mode = "reconcile" /\ exec[c].state # "none"
  BY <1>0, <1>1 DEF HandlerKnows, Serving, StartupKnows
<1>7. ASSUME \E o \in {"stream", "cancelled"} : MarkToolTerminal(c, o), i = StreamLength
      PROVE  GoodStep(r)
  <2>1. PICK o \in {"stream", "cancelled"} : MarkToolTerminal(c, o)
    BY <1>7
  <2>2. /\ StoresAgree' /\ Monotone /\ exec' \in [Calls -> Executions] /\ poisoned' \in BOOLEAN
        /\ (exec[c].state # "none" => Quiet) /\ exec'[c].state = "terminal"
    BY <1>0, <1>2, <1>4, <1>5, <1>7, <2>1, TerminalCommit
  <2>3. h'[r].pc = "convCall"
    BY <1>4, <1>7
  <2>4. HandlerKnows(r)'
    <3> HIDE DEF i, p
    <3> QED
      BY <1>0, <1>1, <1>4, <1>5, <1>6, <2>2, <2>3
         DEF HandlerKnows, Serving, ServerKnows, ServerKnowsCall, HeadKnows, TypeOK, StartupKnows, ProposedOnce
  <2> QED
    BY <1>0, <1>4, <1>6, <2>2, <2>4 DEF GoodStep, TypeOK, Serving
<1>8. ASSUME i # StreamLength,
             \/ i = 1 /\ ApplyStarted(c)
             \/ i \notin {1, StreamLength} /\ IncrementToolEventCount(c)
      PROVE  GoodStep(r)
  <2>1. /\ exec' \in [Calls -> Executions] /\ poisoned' \in BOOLEAN
        /\ \A b \in Calls : b # c => exec'[b] = exec[b]
        /\ exec[c].state # "none" => exec'[c].state # "none"
    BY <1>0, <1>8, StreamEvent
  <2>2. ASSUME proposals[c] <= 1
        PROVE  /\ exec[c].observed + 1 = i /\ i < StreamLength
               /\ exec'[c] = [state |-> "started", observed |-> exec[c].observed + 1,
                              outcome |-> exec[c].outcome]
               /\ poisoned' = poisoned
    <3>1. /\ exec[c].observed = h[r].skip /\ exec[c].state \in {"dispatched", "started"}
          /\ (exec[c].state = "dispatched" <=> h[r].skip = 0) /\ h[r].skip < StreamLength
          /\ exec[c] \in Executions
      BY <1>0, <1>2, <1>5, <2>2 DEF CallFacts, TypeOK
    <3>2. exec[c].observed + 1 = i /\ i < StreamLength
      BY <1>2, <1>8, <3>1
    <3>3. CASE i = 1
      <4>1. exec[c].state = "dispatched"
        BY <1>2, <3>1, <3>3
      <4>2. exec' = [exec EXCEPT ![c].state = "started", ![c].observed = @ + 1] /\ UNCHANGED poisoned
        BY <1>8, <3>3, <4>1 DEF ApplyStarted
      <4> QED
        BY <1>0, <3>1, <3>2, <4>2 DEF TypeOK, Executions
    <3>4. CASE i # 1
      <4>1. exec[c].state = "started"
        BY <1>2, <3>1, <3>4
      <4>2. exec' = [exec EXCEPT ![c].observed = @ + 1] /\ UNCHANGED poisoned
        BY <1>8, <3>4, <4>1 DEF IncrementToolEventCount
      <4> QED
        BY <1>0, <3>1, <3>2, <4>1, <4>2 DEF TypeOK, Executions
    <3> QED
      BY <3>3, <3>4
  <2>3. StoresAgree' /\ Monotone /\ Quiet
    BY <1>0, <1>4, <1>5, <1>8, <2>2, StreamCommit
  <2>4. HandlerKnows(r)'
    <3>1. /\ h'[r].pc = "project" /\ receipt'[c] /\ h'[r].pos <= head'
          /\ proposals'[c] <= 1 => exec'[c].state = "started" /\ exec'[c].observed = h'[r].skip
      BY <1>0, <1>2, <1>4, <1>8, <2>2
    <3> HIDE DEF i, p
    <3>2. Serving(r)' => ServerKnows(h[r])'
      BY <1>0, <1>1, <1>4, <3>1 DEF HandlerKnows, Serving, ServerKnows, ServerKnowsCall
    <3>3. h'[r].kind = "startup" => StartupKnows(h[r])'
      BY <1>0, <1>1, <1>4, <2>1, <3>1 DEF HandlerKnows, StartupKnows
    <3> QED
      BY <1>4, <3>1, <3>2, <3>3 DEF HandlerKnows, HeadKnows, ProposedOnce
  <2> QED
    BY <1>0, <1>4, <2>1, <2>3, <2>4 DEF GoodStep, TypeOK, Serving
<1>9. \/ i = StreamLength /\ \E o \in {"stream", "cancelled"} : MarkToolTerminal(c, o)
      \/ i # StreamLength /\ \/ i = 1 /\ ApplyStarted(c)
                             \/ i \notin {1, StreamLength} /\ IncrementToolEventCount(c)
  BY <1>1, <1>2 DEF ProjectEvent
<1> HIDE DEF i, p, y
<1> QED
  BY <1>7, <1>8, <1>9

\* An entry of the conversation; that of a call proposed once is the next one, and
\* the call has ended.
LEMMA ConversationCommit ==
    ASSUME IInv, head' = head + 1, NEW c \in Calls,
           proposals[c] <= 1 =>
               /\ exec[c].state = "terminal"
               /\ conv'[c].calls = 1 /\ conv'[c].results \in {0, 1},
           \A b \in Calls : b # c => conv'[b] = conv[b],
           UNCHANGED <<exec, appr, proposals, poisoned, cont, receipt, effects>>
    PROVE  StoresAgree' /\ Monotone /\ Quiet
<1>1. TypeOK /\ head \in Nat /\ CallOK(c)
  BY ToolDispatchAssumption DEF IInv, TypeOK, StoresAgree
<1>2. Monotone /\ Quiet
  <2>1. head' >= head /\ head' # head /\ head' \in Nat
    BY <1>1
  <2> QED
    BY <2>1 DEF Monotone, Quiet
<1>3. CallOK(c)'
  <2>1. proposals[c] <= 1 => CallFacts(c)'
    BY <1>1 DEF CallOK, CallFacts, ProposedOnce
  <2> QED
    BY <1>1, <2>1 DEF CallOK, ProposedOnce, Untouched
<1>4. \A b \in Calls : b # c => SameCall(b)
  BY DEF SameCall
<1> QED
  BY <1>2, <1>3, <1>4, SameAsks, StoresStep

\* Adding an entry keeps the type of the conversation and touches one call.
LEMMA EntryTypes ==
    ASSUME TypeOK, NEW c \in Calls,
           \/ conv' = [conv EXCEPT ![c].calls = @ + 1]
           \/ conv' = [conv EXCEPT ![c].results = @ + 1]
    PROVE  /\ conv' \in [Calls -> [calls : Nat, results : Nat]]
           /\ \A b \in Calls : b # c => conv'[b] = conv[b]
<1> DEFINE e == [conv[c] EXCEPT !.calls = @ + 1]
           f == [conv[c] EXCEPT !.results = @ + 1]
<1>1. conv[c] \in [calls : Nat, results : Nat]
  BY DEF TypeOK
<1>2. e \in [calls : Nat, results : Nat] /\ f \in [calls : Nat, results : Nat]
  BY <1>1
<1>3. conv' = [conv EXCEPT ![c] = e] \/ conv' = [conv EXCEPT ![c] = f]
  OBVIOUS
<1> HIDE DEF e, f
<1>4. ASSUME NEW g \in [calls : Nat, results : Nat], conv' = [conv EXCEPT ![c] = g]
      PROVE  /\ conv' \in [Calls -> [calls : Nat, results : Nat]]
             /\ \A b \in Calls : b # c => conv'[b] = conv[b]
  BY <1>4 DEF TypeOK
<1> QED
  BY <1>2, <1>3, <1>4

LEMMA CommitToolCallStep ==
    ASSUME IInv, NEW r \in Runtimes, CommitToolCall(r)
    PROVE  GoodStep(r)
<1>0. /\ TypeOK /\ HandlerKnows(r) /\ UNCHANGED <<exec, appr, active, proposals, poisoned, cont, receipt, effects>>
      /\ h[r].pc = "convCall" /\ Commit(r, [h[r] EXCEPT !.pc = "convResult"]) /\ "convResult" \in PCs
      /\ conv' = [conv EXCEPT ![h[r].call].calls = @ + 1]
  BY DEF IInv, CommitToolCall, At, PCs, Committing
<1>1. PICK c \in Calls : c = h[r].call
  BY <1>0, HandlerTypes
<1>2. /\ h' \in [Runtimes -> Handlers] /\ \A q \in Runtimes \ {r} : h'[q] = h[q]
      /\ h'[r].pc = "convResult" /\ h'[r].kind = h[r].kind /\ h'[r].call = c /\ h'[r].ask = h[r].ask
      /\ h'[r].approved = h[r].approved /\ h'[r].mode = h[r].mode
      /\ h'[r].pos = head' /\ head' = head + 1 /\ head' \in 0..MaxHead /\ h[r].pos = head /\ head' \in Nat
  BY <1>0, <1>1, CommittedFields
<1>3. proposals[c] <= 1 => exec[c].state = "terminal" /\ conv[c] = NoEntries
  BY <1>0, <1>1, <1>2 DEF HandlerKnows, HeadKnows, ProposedOnce
<1>4. /\ conv' \in [Calls -> [calls : Nat, results : Nat]]
      /\ \A b \in Calls : b # c => conv'[b] = conv[b]
  BY <1>0, <1>1, EntryTypes
<1>5. proposals[c] <= 1 => conv'[c] = [calls |-> 1, results |-> 0]
  <2>1. conv'[c] = [conv[c] EXCEPT !.calls = @ + 1]
    BY <1>0, <1>1 DEF TypeOK
  <2> QED
    BY <1>3, <2>1 DEF NoEntries
<1>6. StoresAgree' /\ Monotone /\ Quiet
  BY <1>0, <1>2, <1>3, <1>4, <1>5, ConversationCommit
<1>7. HandlerKnows(r)'
  BY <1>0, <1>1, <1>2, <1>3, <1>5
     DEF HandlerKnows, Serving, ServerKnows, ServerKnowsCall, HeadKnows, TypeOK, StartupKnows, ProposedOnce
<1> QED
  BY <1>0, <1>2, <1>4, <1>6, <1>7 DEF GoodStep, TypeOK, Serving

\* The handler that goes on with the next call, or leaves the tool gate.
LEMMA NextCallFields ==
    ASSUME TypeOK, NEW r \in Runtimes
    PROVE  LET y == NextCall(r) IN
           /\ y \in Handlers
           /\ \/ /\ h[r].call < BatchSize /\ y.pc = "propose" /\ y.call = h[r].call + 1
                 /\ y.kind \in {"turn", "loop"}
              \/ y.pc = "model" /\ y.call = h[r].call /\ y.kind = h[r].kind
           /\ y.pos = h[r].pos /\ y.ask = h[r].ask /\ y.approved = h[r].approved
<1>1. h[r] \in Handlers /\ h[r].call \in Calls /\ BatchSize \in Nat
  BY ToolDispatchAssumption DEF TypeOK, Handlers
<1>2. CASE h[r].call < BatchSize
  <2> DEFINE n == h[r].call + 1
             k == IF h[r].kind = "turn" THEN "turn" ELSE "loop"
  <2>1. n \in Calls /\ k \in {"turn", "loop"}
    BY <1>1, <1>2 DEF Calls
  <2>2. NextCall(r) = [h[r] EXCEPT !.pc = "propose", !.call = n, !.kind = k]
    BY <1>2 DEF NextCall
  <2> HIDE DEF n, k
  <2>3. NextCall(r) \in Handlers
    BY <1>1, <2>1, <2>2 DEF Handlers, Committing
  <2>4. /\ NextCall(r).pc = "propose" /\ NextCall(r).call = n /\ NextCall(r).kind = k
        /\ NextCall(r).pos = h[r].pos /\ NextCall(r).ask = h[r].ask /\ NextCall(r).approved = h[r].approved
    BY <1>1, <2>2 DEF Handlers
  <2> QED
    BY <1>2, <2>1, <2>3, <2>4 DEF n
<1>3. CASE ~(h[r].call < BatchSize)
  BY <1>1, <1>3 DEF NextCall, Handlers, Committing
<1> QED
  BY <1>2, <1>3

\* A handler that goes on with the next call, repairs, or leaves the tool gate
\* relies on nothing but its approval.
LEMMA NextCallKnows ==
    ASSUME NEW r \in Runtimes, h'[r].pos <= head', h'[r].pc \in {"propose", "repair", "model"},
           h'[r].kind # "startup", h'[r].pc = "propose" => h'[r].kind \in {"turn", "loop"},
           h'[r].kind = "approval" =>
               cont'[<<h'[r].call, h'[r].ask>>] = IF h'[r].approved THEN "resumed" ELSE "cancelled"
    PROVE  HandlerKnows(r)'
BY DEF HandlerKnows, HeadKnows, Serving, ServerKnows, ServerKnowsCall

\* Where a handler goes when the conversation of its call is complete.
LEMMA AfterConversationFields ==
    ASSUME TypeOK, NEW r \in Runtimes
    PROVE  LET y == AfterConversation(r) IN
           /\ y \in Handlers
           /\ \/ h[r].kind = "startup" /\ y.pc = "scanning" /\ y.kind = "startup"
              \/ /\ h[r].kind # "startup"
                 /\ y.ask = h[r].ask /\ y.approved = h[r].approved
                 /\ \/ y.pc = "repair" /\ y.call = h[r].call /\ y.kind = h[r].kind
                    \/ y.pc = "model" /\ y.call = h[r].call /\ y.kind = h[r].kind
                    \/ /\ h[r].call < BatchSize /\ y.pc = "propose" /\ y.call = h[r].call + 1
                       /\ y.kind \in {"turn", "loop"}
<1>0. /\ "scanning" \in PCs /\ "model" \in PCs /\ "repair" \in PCs
  BY DEF PCs, Committing
<1>1. CASE h[r].kind = "startup"
  <2>1. AfterConversation(r) = [h[r] EXCEPT !.pc = "scanning"]
    BY <1>1 DEF AfterConversation
  <2> QED
    BY <1>0, <1>1, <2>1, GoesOn
<1>2. CASE h[r].kind # "startup" /\ exec[h[r].call].outcome = "cancelled" /\ h[r].skip = StreamLength
  <2>1. AfterConversation(r) = [h[r] EXCEPT !.pc = "model"]
    BY <1>2 DEF AfterConversation
  <2> QED
    BY <1>0, <1>2, <2>1, GoesOn
<1>3. CASE /\ h[r].kind = "approval"
           /\ ~(exec[h[r].call].outcome = "cancelled" /\ h[r].skip = StreamLength)
  <2>1. AfterConversation(r) = [h[r] EXCEPT !.pc = "repair"]
    BY <1>3 DEF AfterConversation
  <2> QED
    BY <1>0, <1>3, <2>1, GoesOn
<1>4. CASE /\ h[r].kind \notin {"startup", "approval"}
           /\ ~(exec[h[r].call].outcome = "cancelled" /\ h[r].skip = StreamLength)
  <2>1. AfterConversation(r) = NextCall(r)
    BY <1>4 DEF AfterConversation
  <2> QED
    BY <1>4, <2>1, NextCallFields
<1> QED
  BY <1>1, <1>2, <1>3, <1>4

LEMMA CommitToolResultStep ==
    ASSUME IInv, NEW r \in Runtimes, CommitToolResult(r)
    PROVE  GoodStep(r)
<1> DEFINE y == AfterConversation(r)
<1>0. /\ TypeOK /\ HandlerKnows(r) /\ UNCHANGED <<exec, appr, active, proposals, poisoned, cont, receipt, effects>>
      /\ h[r].pc = "convResult" /\ Commit(r, y)
      /\ conv' = [conv EXCEPT ![h[r].call].results = @ + 1]
  BY DEF IInv, CommitToolResult, At
<1>1. PICK c \in Calls : c = h[r].call
  BY <1>0, HandlerTypes
<1>2. /\ y \in Handlers
      /\ \/ h[r].kind = "startup" /\ y.pc = "scanning" /\ y.kind = "startup"
         \/ /\ h[r].kind # "startup"
            /\ y.ask = h[r].ask /\ y.approved = h[r].approved
            /\ \/ y.pc = "repair" /\ y.call = c /\ y.kind = h[r].kind
               \/ y.pc = "model" /\ y.call = c /\ y.kind = h[r].kind
               \/ y.pc = "propose" /\ y.kind \in {"turn", "loop"}
  BY <1>0, <1>1, AfterConversationFields
<1> HIDE DEF y
<1>3. /\ h' \in [Runtimes -> Handlers] /\ \A q \in Runtimes \ {r} : h'[q] = h[q]
      /\ h'[r].pc = y.pc /\ h'[r].kind = y.kind /\ h'[r].call = y.call /\ h'[r].ask = y.ask
      /\ h'[r].approved = y.approved /\ h'[r].mode = y.mode
      /\ h'[r].pos = head' /\ head' = head + 1 /\ head' \in 0..MaxHead /\ head' \in Nat /\ h[r].pos = head
  BY <1>0, <1>2, HandlerCommits
<1>4. proposals[c] <= 1 => exec[c].state = "terminal" /\ conv[c] = [calls |-> 1, results |-> 0]
  BY <1>0, <1>1, <1>3 DEF HandlerKnows, HeadKnows, ProposedOnce
<1>5. /\ conv' \in [Calls -> [calls : Nat, results : Nat]]
      /\ \A b \in Calls : b # c => conv'[b] = conv[b]
  BY <1>0, <1>1, EntryTypes
<1>6. proposals[c] <= 1 => conv'[c].calls = 1 /\ conv'[c].results = 1
  <2>1. conv'[c] = [conv[c] EXCEPT !.results = @ + 1]
    BY <1>0, <1>1 DEF TypeOK
  <2> QED
    BY <1>4, <2>1
<1>7. StoresAgree' /\ Monotone /\ Quiet
  BY <1>0, <1>3, <1>4, <1>5, <1>6, ConversationCommit
<1>8. CASE h[r].kind = "startup"
  <2>1. HandlerKnows(r)' /\ ~Serving(r)'
    BY <1>2, <1>3, <1>8 DEF HandlerKnows, Serving, StartupKnows, HeadKnows
  <2> QED
    BY <1>0, <1>3, <1>5, <1>7, <2>1 DEF GoodStep, TypeOK
<1>9. CASE h[r].kind # "startup"
  <2>1. Serving(r) /\ ServerKnows(h[r]) /\ h'[r].pos <= head'
    BY <1>0, <1>3, <1>9 DEF Serving, HandlerKnows
  <2>2. HandlerKnows(r)'
    BY <1>0, <1>1, <1>2, <1>3, <1>9, <2>1, NextCallKnows DEF ServerKnows
  <2> QED
    BY <1>0, <1>3, <1>5, <1>7, <2>1, <2>2 DEF GoodStep, TypeOK
<1> QED
  BY <1>8, <1>9

LEMMA ProposeCallStep ==
    ASSUME IInv, NEW r \in Runtimes, ProposeCall(r)
    PROVE  GoodStep(r)
<1> DEFINE p == AfterProposal(h[r].call)
           y == [h[r] EXCEPT !.pc = p, !.mode = "fresh", !.skip = 0]
<1>0. /\ TypeOK /\ HandlerKnows(r) /\ UNCHANGED <<exec, appr, conv, active, poisoned, cont, receipt, effects>>
      /\ h[r].pc = "propose" /\ Commit(r, y)
      /\ proposals[h[r].call] < MaxProposals
      /\ proposals' = [proposals EXCEPT ![h[r].call] = @ + 1]
  BY DEF IInv, ProposeCall, At
<1>1. PICK c \in Calls : c = h[r].call
  BY <1>0, HandlerTypes
<1>2. /\ p \in {"create", "reject", "approve"} /\ p \in PCs
      /\ (p = "create" => c \in AskCalls) /\ (p = "reject" => c \in RejectCalls)
      /\ (p = "approve" => c \notin AskCalls \cup RejectCalls)
  BY <1>1 DEF AfterProposal, PCs, Committing
<1>3. /\ y \in Handlers /\ y.pc = p /\ y.kind = h[r].kind /\ y.call = c /\ y.ask = h[r].ask
      /\ y.mode = "fresh" /\ y.skip = 0 /\ y.approved = h[r].approved
  <2> HIDE DEF p
  <2>1. h[r] \in Handlers
    BY <1>0 DEF TypeOK
  <2> QED
    BY <1>1, <1>2, <2>1 DEF Handlers, PCs
<1> HIDE DEF y, p
<1>4. /\ h' \in [Runtimes -> Handlers] /\ \A q \in Runtimes \ {r} : h'[q] = h[q]
      /\ h'[r].pc = p /\ h'[r].kind = h[r].kind /\ h'[r].call = c /\ h'[r].ask = h[r].ask
      /\ h'[r].mode = "fresh" /\ h'[r].skip = 0 /\ h'[r].approved = h[r].approved
      /\ h'[r].pos = head' /\ head' = head + 1 /\ head' \in 0..MaxHead /\ head' \in Nat
  BY <1>0, <1>3, HandlerCommits
<1>5. /\ Serving(r) /\ h[r].kind \in {"turn", "loop"} /\ CallOK(c)
      /\ proposals[c] \in Nat /\ head \in Nat
  BY <1>0, <1>1, ToolDispatchAssumption
     DEF HandlerKnows, Serving, StartupKnows, ServerKnows, IInv, StoresAgree, TypeOK
<1>6. /\ proposals' \in [Calls -> 0..MaxProposals] /\ proposals'[c] = proposals[c] + 1
      /\ \A b \in Calls : b # c => proposals'[b] = proposals[b]
  BY <1>0, <1>1, <1>5, ToolDispatchAssumption DEF TypeOK
<1>7. proposals'[c] # 0 /\ (proposals'[c] <= 1 => proposals[c] = 0 /\ Untouched(c) /\ CallFacts(c))
  BY <1>5, <1>6 DEF CallOK, ProposedOnce
<1>8. Monotone
  <2>1. head' >= head /\ head' # head
    BY <1>4, <1>5
  <2>2. \A b \in Calls : /\ proposals'[b] <= 1 => proposals[b] <= 1
                         /\ proposals[b] # 0 => proposals'[b] # 0
    BY <1>5, <1>6, <1>7
  <2> QED
    BY <1>0, <1>4, <2>1, <2>2 DEF Monotone
<1>9. StoresAgree'
  <2>1. CallOK(c)'
    BY <1>0, <1>7 DEF CallOK, ProposedOnce, CallFacts
  <2>2. \A b \in Calls : b # c => SameCall(b)
    BY <1>0, <1>6 DEF SameCall
  <2> QED
    BY <1>0, <1>8, <2>1, <2>2, SameAsks, StoresStep
<1>10. HandlerKnows(r)'
  <2>1. proposals'[c] <= 1 => Untouched(c)'
    BY <1>0, <1>7 DEF Untouched
  <2>2. Consented(h[r])' \/ p # "approve"
    BY <1>2, <1>4 DEF Consented
  <2>3. proposals'[c] <= 1 => ServerKnowsCall(h[r])'
    BY <1>2, <1>4, <2>1 DEF ServerKnowsCall, Untouched
  <2>4. ServerKnows(h[r])'
    BY <1>2, <1>4, <1>5, <1>7, <2>2, <2>3 DEF ServerKnows, ProposedOnce
  <2> QED
    BY <1>2, <1>4, <1>5, <2>4 DEF HandlerKnows, Serving, HeadKnows
<1> QED
  BY <1>0, <1>4, <1>5, <1>6, <1>8, <1>9, <1>10 DEF GoodStep, TypeOK

LEMMA StartTurnStep ==
    ASSUME IInv, NEW r \in Runtimes, StartTurn(r)
    PROVE  GoodStep(r)
<1> DEFINE y == [Idle EXCEPT !.pc = "propose", !.kind = "turn"]
<1>0. /\ TypeOK /\ HandlerKnows(r) /\ UNCHANGED <<exec, appr, conv, proposals, poisoned, cont, receipt, effects>>
      /\ active' = TRUE /\ h[r].pc = "idle" /\ Commit(r, y)
  BY DEF IInv, StartTurn, At
<1>1. y \in Handlers /\ y.pc = "propose" /\ y.kind = "turn"
  <2>1. Idle \in Handlers
    BY RestTypes
  <2> QED
    BY <2>1 DEF Handlers, Committing
<1> HIDE DEF y
<1>3. /\ h' \in [Runtimes -> Handlers] /\ \A q \in Runtimes \ {r} : h'[q] = h[q]
      /\ h'[r].pc = "propose" /\ h'[r].kind = "turn"
      /\ h'[r].pos = head' /\ head' = head + 1 /\ head' \in 0..MaxHead /\ head' \in Nat
  BY <1>0, <1>1, HandlerCommits
<1>4. Serving(r)
  BY <1>0 DEF HandlerKnows, Serving, StartupKnows
<1>5. StoresAgree' /\ Monotone
  BY <1>0, <1>3, PlainCommit
<1>6. h'[r].pos <= head'
  BY <1>3
<1>7. HandlerKnows(r)'
  BY <1>3, <1>6, NextCallKnows
<1> QED
  BY <1>0, <1>3, <1>4, <1>5, <1>7 DEF GoodStep, TypeOK

\* A commit after which the handler returns.
LEMMA CommitsAndRests ==
    ASSUME TypeOK, NEW r \in Runtimes, Commit(r, Idle)
    PROVE  /\ h' \in [Runtimes -> Handlers] /\ \A q \in Runtimes \ {r} : h'[q] = h[q]
           /\ head' = head + 1 /\ head' \in 0..MaxHead /\ head' \in Nat /\ HandlerKnows(r)'
<1>1. /\ h' \in [Runtimes -> Handlers] /\ \A q \in Runtimes \ {r} : h'[q] = h[q]
      /\ h'[r].pc = "idle" /\ h'[r].kind = "none"
      /\ h'[r].pos = head' /\ head' = head + 1 /\ head' \in 0..MaxHead /\ head' \in Nat
  BY RestTypes, HandlerCommits
<1> QED
  BY <1>1 DEF HandlerKnows, Serving, ServerKnows, ServerKnowsCall, HeadKnows

LEMMA LeaveToolGateStep ==
    ASSUME IInv, NEW r \in Runtimes, LeaveToolGate(r)
    PROVE  GoodStep(r)
<1>0. /\ TypeOK /\ HandlerKnows(r) /\ UNCHANGED <<exec, appr, conv, proposals, poisoned, cont, receipt, effects>>
      /\ active' = FALSE /\ h[r].pc = "model" /\ Commit(r, Idle)
  BY DEF IInv, LeaveToolGate, At
<1>1. /\ h' \in [Runtimes -> Handlers] /\ \A q \in Runtimes \ {r} : h'[q] = h[q]
      /\ head' = head + 1 /\ head' \in 0..MaxHead /\ HandlerKnows(r)'
  BY <1>0, CommitsAndRests
<1>2. Serving(r)
  BY <1>0 DEF HandlerKnows, Serving, StartupKnows
<1>3. StoresAgree' /\ Monotone
  BY <1>0, <1>1, PlainCommit
<1> QED
  BY <1>0, <1>1, <1>2, <1>3 DEF GoodStep, TypeOK

\* A commit that moves one approval on.
LEMMA ApprovalCommit ==
    ASSUME IInv, head' = head + 1, NEW c \in Calls, NEW k \in 1..MaxAsks,
           NEW v \in {"pending", "approved", "denied"},
           appr' = [appr EXCEPT ![<<c, k>>] = v], cont[<<c, k>>] # "absent",
           appr[<<c, k>>] \in {"none", "pending"},
           proposals[c] <= 1 => exec[c].state = "none",
           v = "approved" => cont[<<c, k>>] = "resumed",
           v = "denied" => cont[<<c, k>>] = "cancelled",
           UNCHANGED <<exec, conv, proposals, poisoned, cont, receipt, effects>>
    PROVE  /\ StoresAgree' /\ Monotone
           /\ appr' \in [Asks -> {"none", "pending", "approved", "denied"}] /\ appr'[<<c, k>>] = v
<1>1. TypeOK /\ head \in Nat /\ CallOK(c) /\ <<c, k>> \in Asks
      /\ \A b \in Calls, j \in 1..MaxAsks : <<b, j>> \in Asks
  BY ToolDispatchAssumption DEF IInv, TypeOK, StoresAgree, Asks
<1>2. /\ appr' \in [Asks -> {"none", "pending", "approved", "denied"}]
      /\ appr'[<<c, k>>] = v /\ \A b \in Asks : b # <<c, k>> => appr'[b] = appr[b]
  BY <1>1 DEF TypeOK
<1>3. Monotone
  <2>1. head' >= head /\ head' # head /\ head' \in Nat
    BY <1>1
  <2> QED
    BY <2>1 DEF Monotone
<1>4. \A a \in Asks : AskOK(a)'
  <2> SUFFICES ASSUME NEW a \in Asks PROVE AskOK(a)'
    OBVIOUS
  <2>1. AskOK(a)
    BY DEF IInv, StoresAgree
  <2> QED
    BY <1>2, <2>1 DEF AskOK
<1>5. \A a \in Asks : appr[a] = "approved" => appr'[a] = "approved"
  BY <1>2
<1>6. CallOK(c)'
  <2>1. proposals[c] <= 1 => CallFacts(c)'
    BY <1>1 DEF CallOK, CallFacts, ProposedOnce
  <2> QED
    BY <1>1, <2>1 DEF CallOK, ProposedOnce, Untouched
<1>7. \A b \in Calls : b # c => SameCall(b)
  <2>1. \A b \in Calls, j \in 1..MaxAsks : b # c => appr'[<<b, j>>] = appr[<<b, j>>]
    BY <1>1, <1>2
  <2> QED
    BY <2>1 DEF SameCall
<1> QED
  BY <1>2, <1>3, <1>4, <1>5, <1>6, <1>7, StoresStep

LEMMA RequestApprovalStep ==
    ASSUME IInv, NEW r \in Runtimes, RequestApproval(r)
    PROVE  GoodStep(r)
<1>0. /\ TypeOK /\ HandlerKnows(r) /\ UNCHANGED <<exec, conv, active, proposals, poisoned, cont, receipt, effects>>
      /\ h[r].pc = "request" /\ Commit(r, Idle)
      /\ appr' = [appr EXCEPT ![<<h[r].call, h[r].ask>>] = "pending"]
  BY DEF IInv, RequestApproval, At
<1>1. PICK c \in Calls, k \in 1..MaxAsks : c = h[r].call /\ k = h[r].ask
  BY <1>0, HandlerTypes
<1>2. /\ h' \in [Runtimes -> Handlers] /\ \A q \in Runtimes \ {r} : h'[q] = h[q]
      /\ head' = head + 1 /\ head' \in 0..MaxHead /\ HandlerKnows(r)'
  BY <1>0, CommitsAndRests
<1>3. /\ Serving(r) /\ (proposals[c] <= 1 => exec[c].state = "none")
      /\ appr[<<c, k>>] = "none" /\ cont[<<c, k>>] = "pending"
  BY <1>0, <1>1 DEF HandlerKnows, Serving, StartupKnows, ServerKnows, ServerKnowsCall, ProposedOnce
<1>4. StoresAgree' /\ Monotone /\ appr' \in [Asks -> {"none", "pending", "approved", "denied"}]
  BY <1>0, <1>1, <1>2, <1>3, ApprovalCommit
<1> QED
  BY <1>0, <1>2, <1>3, <1>4 DEF GoodStep, TypeOK

LEMMA CommitResolutionStep ==
    ASSUME IInv, NEW r \in Runtimes, CommitResolution(r)
    PROVE  GoodStep(r)
<1> DEFINE v == IF h[r].approved THEN "approved" ELSE "denied"
           p == AfterResolution(r)
<1>0. /\ TypeOK /\ HandlerKnows(r) /\ UNCHANGED <<exec, conv, active, proposals, cont, receipt, effects>>
      /\ h[r].pc = "resolution" /\ Commit(r, [h[r] EXCEPT !.pc = p])
      /\ ApplyApprovalResolved(<<h[r].call, h[r].ask>>, h[r].approved)
  BY DEF IInv, CommitResolution, At
<1>1. PICK c \in Calls, k \in 1..MaxAsks : c = h[r].call /\ k = h[r].ask
  BY <1>0, HandlerTypes
<1>2. /\ Serving(r) /\ ServerKnows(h[r]) /\ appr[<<c, k>>] = "pending"
      /\ h[r].mode = "fresh" /\ h[r].skip = 0 /\ h[r].kind = "approval"
      /\ cont[<<c, k>>] = (IF h[r].approved THEN "resumed" ELSE "cancelled")
      /\ <<c, k>> \in Asks /\ <<c, k>>[1] = c /\ CallOK(c)
  BY <1>0, <1>1, HandlerTypes DEF HandlerKnows, Serving, StartupKnows, ServerKnows, IInv, StoresAgree
<1>3. /\ c \in AskCalls /\ c \notin RejectCalls /\ proposals[c] # 0
      /\ (proposals[c] <= 1 => exec[c].state = "none")
  <2>1. AskOK(<<c, k>>)
    BY <1>2 DEF IInv, StoresAgree
  <2> QED
    BY <1>2, <2>1, ToolDispatchAssumption DEF AskOK, CallOK, CallFacts, ProposedOnce, Untouched
<1>4. /\ p \in {"repair", "approve", "deny"} /\ p \in PCs
      /\ (p = "approve" => h[r].approved) /\ (p = "deny" => ~h[r].approved)
  BY DEF AfterResolution, PCs, Committing
<1>5. appr' = [appr EXCEPT ![<<c, k>>] = v] /\ UNCHANGED poisoned
  BY <1>0, <1>1, <1>2 DEF ApplyApprovalResolved
<1> HIDE DEF p
<1>6. /\ h' \in [Runtimes -> Handlers] /\ \A q \in Runtimes \ {r} : h'[q] = h[q]
      /\ h'[r].pc = p /\ h'[r].kind = h[r].kind /\ h'[r].call = c /\ h'[r].ask = k
      /\ h'[r].approved = h[r].approved /\ h'[r].mode = "fresh" /\ h'[r].skip = 0
      /\ h'[r].pos = head' /\ head' = head + 1 /\ head' \in 0..MaxHead /\ head' \in Nat
  BY <1>0, <1>1, <1>2, <1>4, CommittedFields
<1>7. /\ StoresAgree' /\ Monotone
      /\ appr' \in [Asks -> {"none", "pending", "approved", "denied"}] /\ appr'[<<c, k>>] = v
  <2>1. v \in {"pending", "approved", "denied"}
        /\ (v = "approved" => cont[<<c, k>>] = "resumed") /\ (v = "denied" => cont[<<c, k>>] = "cancelled")
        /\ cont[<<c, k>>] # "absent"
    BY <1>2
  <2> HIDE DEF v
  <2> QED
    BY <1>0, <1>2, <1>3, <1>5, <1>6, <2>1, ApprovalCommit
<1>8. ServerKnows(h[r])'
  BY <1>0, <1>2, <1>3, <1>4, <1>6, <1>7 DEF ServerKnows, ServerKnowsCall, Consented, ProposedOnce
<1>9. HandlerKnows(r)'
  BY <1>2, <1>4, <1>6, <1>8 DEF HandlerKnows, Serving, HeadKnows
<1> QED
  BY <1>0, <1>2, <1>5, <1>6, <1>7, <1>9 DEF GoodStep, TypeOK

LEMMA CreateContinuationStep ==
    ASSUME IInv, NEW r \in Runtimes, CreateContinuation(r)
    PROVE  GoodStep(r)
<1>0. TypeOK /\ HandlerKnows(r) /\ UNCHANGED <<journal, receipt, effects>> /\ h[r].pc = "create"
  BY DEF IInv, CreateContinuation, At
<1>1. PICK c \in Calls : c = h[r].call
  BY <1>0, HandlerTypes
<1>2. PICK k \in 1..MaxAsks :
          /\ cont[<<c, k>>] = "absent" /\ cont' = [cont EXCEPT ![<<c, k>>] = "pending"]
          /\ h' = [h EXCEPT ![r].pc = "request", ![r].ask = k]
  BY <1>1 DEF CreateContinuation
<1>3. /\ Serving(r) /\ ServerKnows(h[r]) /\ c \in AskCalls /\ h[r].kind \in {"turn", "loop"}
      /\ proposals[c] # 0 /\ CallOK(c) /\ (proposals[c] <= 1 => Untouched(c))
  BY <1>0, <1>1 DEF HandlerKnows, Serving, StartupKnows, ServerKnows, ServerKnowsCall, ProposedOnce,
     IInv, StoresAgree
<1>4. /\ <<c, k>> \in Asks /\ <<c, k>>[1] = c
      /\ \A b \in Calls, j \in 1..MaxAsks : <<b, j>> \in Asks
  BY DEF Asks
<1>5. /\ cont' \in [Asks -> {"absent", "pending", "resumed", "cancelled"}]
      /\ cont'[<<c, k>>] = "pending" /\ \A b \in Asks : b # <<c, k>> => cont'[b] = cont[b]
  BY <1>0, <1>2, <1>4 DEF TypeOK
<1>6. /\ h' \in [Runtimes -> Handlers] /\ \A q \in Runtimes \ {r} : h'[q] = h[q]
      /\ h'[r].pc = "request" /\ h'[r].ask = k /\ h'[r].call = c /\ h'[r].kind = h[r].kind
      /\ h'[r].pos = h[r].pos
  <2>1. h[r] \in Handlers
    BY <1>0 DEF TypeOK
  <2>2. h'[r] = [h[r] EXCEPT !.pc = "request", !.ask = k] /\ \A q \in Runtimes \ {r} : h'[q] = h[q]
    BY <1>0, <1>2 DEF TypeOK
  <2>3. h'[r] \in Handlers
    BY <2>1, <2>2 DEF Handlers, Committing
  <2>4. h' \in [Runtimes -> Handlers]
    BY <1>0, <1>2, <2>2, <2>3 DEF TypeOK
  <2> QED
    BY <1>1, <2>1, <2>2, <2>4 DEF Handlers
<1>7. Monotone
  BY <1>0, ToolDispatchAssumption DEF Monotone, TypeOK, journal
<1>8. appr[<<c, k>>] = "none"
  <2>1. AskOK(<<c, k>>)
    BY <1>4 DEF IInv, StoresAgree
  <2> QED
    BY <1>2, <2>1 DEF AskOK
<1>9. StoresAgree'
  <2>1. \A a \in Asks : AskOK(a)'
    <3> SUFFICES ASSUME NEW a \in Asks PROVE AskOK(a)'
      OBVIOUS
    <3>1. AskOK(a)
      BY DEF IInv, StoresAgree
    <3> QED
      BY <1>0, <1>3, <1>4, <1>5, <1>8, <3>1 DEF AskOK, journal
  <2>2. CallOK(c)'
    <3>1. ASSUME proposals[c] <= 1 PROVE CallFacts(c)'
      <4>1. /\ CallFacts(c) /\ exec[c].state = "none"
            /\ \A j \in 1..MaxAsks : cont'[<<c, j>>] # "absent" => j = k
        BY <1>3, <1>4, <1>5, <3>1 DEF CallOK, ProposedOnce, Untouched
      <4> QED
        BY <1>0, <4>1 DEF CallFacts, journal
    <3> QED
      BY <1>0, <1>3, <3>1 DEF CallOK, ProposedOnce, journal
  <2>3. \A b \in Calls : b # c => SameCall(b)
    <3>1. \A b \in Calls, j \in 1..MaxAsks : b # c => cont'[<<b, j>>] = cont[<<b, j>>]
      BY <1>4, <1>5
    <3> QED
      BY <1>0, <3>1 DEF SameCall, journal
  <2> QED
    BY <1>0, <1>7, <2>1, <2>2, <2>3, StoresStep DEF journal
<1>10. HandlerKnows(r)'
  <2>1. proposals'[c] <= 1 => exec'[c].state = "none"
    BY <1>0, <1>3 DEF Untouched, journal
  <2>2. ServerKnows(h[r])'
    BY <1>0, <1>3, <1>5, <1>6, <1>8, <2>1 DEF ServerKnows, ServerKnowsCall, ProposedOnce, journal
  <2>3. h'[r].pos <= head' /\ h'[r].kind # "startup"
    BY <1>0, <1>3, <1>6 DEF HandlerKnows, journal
  <2> QED
    BY <1>6, <2>2, <2>3 DEF HandlerKnows, Serving, HeadKnows
<1> QED
  BY <1>0, <1>3, <1>5, <1>6, <1>7, <1>9, <1>10 DEF GoodStep, TypeOK, journal

LEMMA ClaimApprovalStep ==
    ASSUME IInv, NEW r \in Runtimes, NEW a \in Asks, NEW approved \in BOOLEAN, NEW resume \in BOOLEAN,
           ClaimApproval(r, a, approved, resume)
    PROVE  GoodStep(r)
<1> DEFINE target == IF approved THEN "resumed" ELSE "cancelled"
           m == cont[a] = "pending"
           y == [Idle EXCEPT !.pc = "decide", !.kind = "approval", !.call = a[1], !.ask = a[2],
                             !.approved = approved, !.resume = resume, !.moved = m]
<1>0. /\ TypeOK /\ HandlerKnows(r) /\ UNCHANGED <<journal, receipt, effects>> /\ h[r].pc = "idle"
      /\ cont[a] \in {"pending", target} /\ cont' = [cont EXCEPT ![a] = target]
      /\ h' = [h EXCEPT ![r] = y]
  BY DEF IInv, ClaimApproval, At
<1>1. Serving(r)
  BY <1>0 DEF HandlerKnows, Serving, StartupKnows
<1>2. PICK c \in Calls, k \in 1..MaxAsks : a = <<c, k>> /\ c = a[1] /\ k = a[2]
  BY DEF Asks
<1>3. /\ y \in Handlers /\ y.pc = "decide" /\ y.kind = "approval" /\ y.call = a[1] /\ y.ask = a[2]
      /\ y.approved = approved /\ y.moved = m /\ y.skip = 0 /\ y.pos = 0
  <2>1. Idle \in Handlers /\ Idle.skip = 0 /\ Idle.pos = 0
    BY RestTypes DEF Idle
  <2>2. m \in BOOLEAN /\ a[1] \in Calls /\ a[2] \in 1..MaxAsks
    BY <1>2
  <2> HIDE DEF m
  <2> QED
    BY ONLY <2>1, <2>2, approved \in BOOLEAN, resume \in BOOLEAN DEF Handlers, y
<1> HIDE DEF y
<1>4. /\ h' \in [Runtimes -> Handlers] /\ h'[r] = y /\ \A q \in Runtimes \ {r} : h'[q] = h[q]
  BY <1>0, <1>3 DEF TypeOK
<1>5. /\ cont' \in [Asks -> {"absent", "pending", "resumed", "cancelled"}]
      /\ cont'[a] = target /\ \A b \in Asks : b # a => cont'[b] = cont[b]
  BY <1>0 DEF TypeOK
<1>6. /\ \A b \in Asks : cont'[b] = "absent" <=> cont[b] = "absent"
      /\ \A b \in Calls, j \in 1..MaxAsks : <<b, j>> \in Asks
  BY <1>0, <1>5 DEF Asks
<1>7. Monotone
  BY <1>0, ToolDispatchAssumption DEF Monotone, TypeOK, journal
<1>8. StoresAgree'
  <2>1. \A b \in Asks : AskOK(b)'
    <3> SUFFICES ASSUME NEW b \in Asks PROVE AskOK(b)'
      OBVIOUS
    <3>1. AskOK(b)
      BY DEF IInv, StoresAgree
    <3> QED
      BY <1>0, <1>5, <3>1 DEF AskOK, journal
  <2>2. CallOK(c)'
    <3>1. CallOK(c)
      BY DEF IInv, StoresAgree
    <3>2. Untouched(c) => Untouched(c)'
      BY <1>0, <1>6 DEF Untouched, journal
    <3>3. CallFacts(c) => CallFacts(c)'
      BY <1>0, <1>6 DEF CallFacts, journal
    <3> QED
      BY <1>0, <3>1, <3>2, <3>3 DEF CallOK, ProposedOnce, journal
  <2>3. \A b \in Calls : b # c => SameCall(b)
    <3>1. \A b \in Calls, j \in 1..MaxAsks : b # c => cont'[<<b, j>>] = cont[<<b, j>>]
      BY <1>2, <1>5, <1>6
    <3> QED
      BY <1>0, <3>1 DEF SameCall, journal
  <2> QED
    BY <1>0, <1>7, <2>1, <2>2, <2>3, StoresStep DEF journal
<1>9. HandlerKnows(r)'
  <2>1. cont[a] = "pending" => appr'[a] \in {"none", "pending"}
    <3>1. AskOK(a) /\ appr[a] \in {"none", "pending", "approved", "denied"}
      BY <1>0 DEF IInv, StoresAgree, TypeOK
    <3> QED
      BY <1>0, <3>1 DEF AskOK, journal
  <2>2. <<h'[r].call, h'[r].ask>> = a /\ h'[r].pc = "decide" /\ h'[r].kind = "approval" /\ h'[r].pos = 0
        /\ h'[r].skip = 0 /\ h'[r].approved = approved
    <3> HIDE DEF m
    <3> QED
      BY <1>2, <1>3, <1>4
  <2>5. h'[r].moved => m
    <3> HIDE DEF m
    <3> QED
      BY <1>3, <1>4
  <2>3. 0 <= head'
    BY <1>0 DEF TypeOK, journal
  <2>4. ServerKnows(h[r])'
    BY <1>5, <2>1, <2>2, <2>5 DEF ServerKnows, ServerKnowsCall
  <2> QED
    BY <2>2, <2>3, <2>4 DEF HandlerKnows, Serving, HeadKnows
<1> QED
  BY <1>0, <1>1, <1>4, <1>5, <1>7, <1>8, <1>9 DEF GoodStep, TypeOK, journal

\* A step in which the handler returns and nothing else happens.
LEMMA FinishStep ==
    ASSUME IInv, NEW r \in Runtimes, h[r].pc \notin {"down", "scanning"}, Finish(r),
           UNCHANGED <<journal, cont, receipt, effects>>
    PROVE  GoodStep(r)
<1>0. TypeOK /\ HandlerKnows(r)
  BY DEF IInv
<1>1. StoresAgree' /\ Monotone /\ Quiet /\ head' \in Nat
  BY OnlyHandlerMoves, <1>0, HandlerTypes DEF journal
<1>2. h' = [h EXCEPT ![r] = Down] \/ (Serving(r) /\ h' = [h EXCEPT ![r] = Idle])
  BY <1>0 DEF Finish, Serving
<1> QED
  BY <1>0, <1>1, <1>2, HandlerRests DEF GoodStep, TypeOK, journal

LEMMA FailStep ==
    ASSUME IInv, NEW r \in Runtimes, Fail(r)
    PROVE  GoodStep(r)
<1> DEFINE closes == h[r].kind = "turn" /\ active /\ ~poisoned
<1>0. /\ TypeOK /\ HandlerKnows(r) /\ h[r].pc \notin {"down", "scanning"} /\ Finish(r)
      /\ UNCHANGED <<exec, appr, conv, proposals, poisoned, cont, receipt, effects>>
      /\ active \in BOOLEAN /\ head \in 0..MaxHead /\ head \in Nat
  BY HandlerTypes DEF IInv, Fail, Committing, TypeOK
<1>1. CASE ~closes
  <2>1. active' = active /\ head' = head
    BY <1>0, <1>1 DEF Fail
  <2> QED
    BY <1>0, <2>1, FinishStep DEF journal
<1>2. CASE closes
  <2>1. active' = FALSE /\ head' = head + 1 /\ head < MaxHead
    BY <1>2 DEF Fail
  <2>2. head' \in 0..MaxHead /\ head' \in Nat
    BY <1>0, <2>1, ToolDispatchAssumption
  <2>3. StoresAgree' /\ Monotone /\ Quiet
    BY <1>0, <2>1, PlainCommit
  <2>4. Serving(r) /\ h' = [h EXCEPT ![r] = Idle]
    BY <1>0, <1>2 DEF Finish, Serving
  <2>5. /\ h' \in [Runtimes -> Handlers] /\ HandlerKnows(r)'
        /\ \A q \in Runtimes \ {r} : h'[q] = h[q]
    BY <1>0, <2>2, <2>4, HandlerRests
  <2> QED
    BY <1>0, <2>1, <2>2, <2>3, <2>4, <2>5 DEF GoodStep, TypeOK
<1> QED
  BY <1>1, <1>2

LEMMA KillStep ==
    ASSUME IInv, NEW r \in Runtimes, Kill(r)
    PROVE  GoodStep(r)
<1> DEFINE c == h[r].call
<1>0. TypeOK /\ HandlerKnows(r) /\ UNCHANGED <<journal, cont, receipt>> /\ h[r].pc # "down"
      /\ h' = [h EXCEPT ![r] = Down]
  BY DEF IInv, Kill
<1>1. head' \in Nat
  BY <1>0, HandlerTypes DEF journal
<1>2. /\ h' \in [Runtimes -> Handlers] /\ HandlerKnows(r)' /\ ~Serving(r)'
      /\ \A q \in Runtimes \ {r} : h'[q] = h[q]
  BY <1>0, <1>1, HandlerRests
<1>3. CASE effects' = effects
  BY <1>0, <1>2, <1>3, OnlyHandlerMoves DEF GoodStep, TypeOK, journal
<1>4. CASE effects' # effects
  <2>1. h[r].pc = "host" /\ effects' = [effects EXCEPT ![c] = @ + 1]
    BY <1>4 DEF Kill, At
  <2>2. /\ c \in Calls /\ Serving(r) /\ (proposals[c] <= 1 => effects[c] = 0)
        /\ exec[c].state # "none" /\ Consented(h[r])
        /\ <<c, h[r].ask>> \in Asks /\ <<c, h[r].ask>>[1] = c
    BY <1>0, <2>1, HandlerTypes
       DEF HandlerKnows, Serving, ServerKnows, ServerKnowsCall, StartupKnows, ProposedOnce
  <2>3. /\ effects' \in [Calls -> Nat]
        /\ \A b \in Calls : b # c => effects'[b] = effects[b]
        /\ proposals[c] <= 1 => effects'[c] \in {0, 1}
    BY <1>0, <2>1, <2>2 DEF TypeOK
  <2>4. StoresAgree'
    BY <1>0, <2>2, <2>3, EffectHappens DEF Consented
  <2>5. Monotone
    BY <1>0, ToolDispatchAssumption DEF Monotone, journal, TypeOK
  <2> QED
    BY <1>0, <1>2, <2>2, <2>3, <2>4, <2>5 DEF GoodStep, TypeOK, journal
<1> QED
  BY <1>3, <1>4

\* A step in which only the handler of r moves, to y.
LEMMA HandlerOnlyStep ==
    ASSUME IInv, NEW r \in Runtimes, NEW y \in Handlers, h' = [h EXCEPT ![r] = y],
           UNCHANGED <<journal, cont, receipt, effects>>,
           h'[r] = y => HandlerKnows(r)',
           y.pc # "down" /\ y.kind # "startup" => Serving(r) \/ \A q \in Runtimes : ~Serving(q)
    PROVE  GoodStep(r)
<1>1. TypeOK /\ StoresAgree' /\ Monotone /\ Quiet
  BY OnlyHandlerMoves DEF IInv
<1>2. h' \in [Runtimes -> Handlers] /\ h'[r] = y /\ \A q \in Runtimes \ {r} : h'[q] = h[q]
  BY <1>1 DEF TypeOK
<1> QED
  BY <1>1, <1>2 DEF GoodStep, TypeOK, journal, Serving

LEMMA RepairConversationStep ==
    ASSUME IInv, NEW r \in Runtimes, RepairConversation(r)
    PROVE  GoodStep(r)
<1> DEFINE c == h[r].call
           needs == RepairNeeds(c)
<1>0. TypeOK /\ HandlerKnows(r) /\ UNCHANGED <<journal, cont, receipt, effects>> /\ h[r].pc = "repair"
  BY DEF IInv, RepairConversation, At
<1>1. CASE Finish(r)
  BY <1>0, <1>1, FinishStep
<1>2. CASE /\ ~(poisoned \/ exec[c].state # "terminal" \/ needs = "conflict") /\ ~Finish(r)
  <2>1. Serving(r) /\ ServerKnows(h[r]) /\ c \in Calls
        /\ h[r].pos <= head /\ exec[c].state = "terminal"
    BY <1>0, <1>2, HandlerTypes DEF HandlerKnows, Serving, StartupKnows, ServerKnows
  <2>2. /\ needs \in {"convCall", "convResult", "nothing"}
        /\ (needs = "convCall" => conv[c] = NoEntries)
        /\ (needs = "convResult" => conv[c] = [calls |-> 1, results |-> 0])
    BY <1>2 DEF RepairNeeds, NoEntries
  <2> HIDE DEF needs
  <2>3. ASSUME NEW p \in {"convCall", "convResult", "model"}, h' = [h EXCEPT ![r] = [h[r] EXCEPT !.pc = p]],
               p \in {"convCall", "convResult"} => p = needs
        PROVE  GoodStep(r)
    <3> DEFINE y == [h[r] EXCEPT !.pc = p]
    <3>1. p \in PCs
      BY DEF PCs, Committing
    <3>2. /\ y \in Handlers
          /\ y.pc = p /\ y.kind = h[r].kind /\ y.call = h[r].call /\ y.ask = h[r].ask
          /\ y.approved = h[r].approved /\ y.pos = h[r].pos
      <4>1. h[r] \in Handlers
        BY <1>0 DEF TypeOK
      <4> QED
        BY <3>1, <4>1 DEF Handlers, PCs
    <3>3. h' = [h EXCEPT ![r] = y]
      BY <2>3
    <3> HIDE DEF y
    <3>4. ASSUME h'[r] = y PROVE HandlerKnows(r)'
      <4>2. ServerKnows(h[r])'
        BY <1>0, <2>1, <2>3, <3>2, <3>4 DEF ServerKnows, ServerKnowsCall, journal
      <4>3. HeadKnows(h[r])'
        BY <1>0, <2>1, <2>2, <2>3, <3>2, <3>4 DEF HeadKnows, journal
      <4> QED
        BY <1>0, <2>1, <2>3, <3>2, <3>4, <4>2, <4>3 DEF HandlerKnows, Serving, journal
    <3> QED
      BY <1>0, <2>1, <3>2, <3>3, <3>4, HandlerOnlyStep
  <2>4. CASE needs = "nothing" /\ h' = [h EXCEPT ![r] = NextCall(r)]
    <3> DEFINE y == NextCall(r)
    <3>1. /\ y \in Handlers
          /\ \/ /\ h[r].call < BatchSize /\ y.pc = "propose" /\ y.call = h[r].call + 1
                /\ y.kind \in {"turn", "loop"}
             \/ y.pc = "model" /\ y.call = h[r].call /\ y.kind = h[r].kind
          /\ y.pos = h[r].pos /\ y.ask = h[r].ask /\ y.approved = h[r].approved
      BY <1>0, NextCallFields
    <3>2. h' = [h EXCEPT ![r] = y]
      BY <2>4
    <3> HIDE DEF y
    <3>3. h'[r] = y
      BY <1>0, <3>2 DEF TypeOK
    <3>5. h'[r].pos <= head' /\ cont' = cont /\ h[r].kind # "startup"
      BY <1>0, <2>1, <3>1, <3>3 DEF Serving, journal
    <3>6. HandlerKnows(r)'
      BY <2>1, <3>1, <3>3, <3>5, NextCallKnows DEF ServerKnows
    <3> QED
      BY <1>0, <2>1, <3>1, <3>2, <3>6, HandlerOnlyStep
  <2>5. \/ needs # "nothing" /\ h' = [h EXCEPT ![r] = [h[r] EXCEPT !.pc = needs]]
        \/ needs = "nothing" /\ h' = [h EXCEPT ![r] = NextCall(r)]
        \/ needs = "nothing" /\ h' = [h EXCEPT ![r] = [h[r] EXCEPT !.pc = "model"]]
    BY <1>2 DEF RepairConversation, needs
  <2> QED
    BY <2>2, <2>3, <2>4, <2>5
<1> QED
  BY <1>1, <1>2 DEF RepairConversation

LEMMA ListReceiptsStep ==
    ASSUME IInv, NEW r \in Runtimes, ListReceipts(r)
    PROVE  GoodStep(r)
<1> DEFINE t == {c \in Calls : receipt[c]}
           y == [Idle EXCEPT !.pc = "scanning", !.kind = "startup", !.todo = t]
<1>1. y \in Handlers /\ y.pc = "scanning" /\ y.kind = "startup" /\ y.pos = 0
  <2>1. Idle \in Handlers /\ Idle.pos = 0 /\ t \in SUBSET Calls
    BY RestTypes
  <2> HIDE DEF t
  <2> QED
    BY <2>1 DEF Handlers
<1>2. h' = [h EXCEPT ![r] = y] /\ UNCHANGED <<journal, cont, receipt, effects>>
  BY DEF ListReceipts
<1> HIDE DEF y
<1>3. 0 <= head'
  BY <1>2 DEF IInv, TypeOK, journal
<1>4. h'[r] = y => HandlerKnows(r)'
  BY <1>1, <1>3 DEF HandlerKnows, Serving, StartupKnows, HeadKnows
<1> QED
  BY <1>1, <1>2, <1>4, HandlerOnlyStep

LEMMA ReconcileReceiptStep ==
    ASSUME IInv, NEW r \in Runtimes, NEW c \in Calls, ReconcileReceipt(r, c)
    PROVE  GoodStep(r)
<1> DEFINE rest == [h[r] EXCEPT !.todo = @ \ {c}]
           y == [rest EXCEPT !.pc = "receipt", !.call = c, !.pos = head,
                             !.mode = "reconcile", !.skip = FirstEvent(c)]
<1>0. /\ TypeOK /\ HandlerKnows(r) /\ UNCHANGED <<journal, cont, receipt, effects>>
      /\ h[r].pc = "scanning"
  BY DEF IInv, ReconcileReceipt, At
<1>1. h[r] \in Handlers /\ h[r].kind = "startup" /\ h[r].pos <= head /\ h[r].pos \in Nat
  BY <1>0, HandlerTypes DEF HandlerKnows, Serving, ServerKnows
<1>2. rest \in Handlers /\ rest.pc = "scanning" /\ rest.kind = "startup" /\ rest.pos = h[r].pos
  <2> DEFINE t == h[r].todo \ {c}
  <2>1. t \in SUBSET Calls /\ rest = [h[r] EXCEPT !.todo = t]
    BY <1>0, HandlerTypes
  <2> HIDE DEF t
  <2> QED
    BY <1>0, <1>1, <2>1 DEF Handlers
<1> HIDE DEF rest
<1>3. CASE h' = [h EXCEPT ![r] = Down]
  <2>1. head' \in Nat
    BY <1>0, HandlerTypes DEF journal
  <2> QED
    BY <1>0, <1>3, <2>1, RestTypes, HandlerRests, HandlerOnlyStep
<1>4. CASE h' = [h EXCEPT ![r] = rest]
  <2>1. h'[r] = rest => HandlerKnows(r)'
    BY <1>0, <1>1, <1>2 DEF HandlerKnows, Serving, StartupKnows, HeadKnows, journal
  <2> QED
    BY <1>0, <1>2, <1>4, <2>1, HandlerOnlyStep
<1>5. CASE exec[c].state \notin {"none", "terminal"} /\ h' = [h EXCEPT ![r] = y]
  <2>1. exec[c].observed \in Nat /\ exec[c].state \in {"dispatched", "started"}
    BY <1>0, <1>5 DEF TypeOK, Executions
  <2>2. /\ y \in Handlers /\ y.pc = "receipt" /\ y.kind = "startup" /\ y.call = c /\ y.pos = head
        /\ y.mode = "reconcile" /\ y.skip = exec[c].observed
    <3>1. head \in 0..MaxHead
      BY <1>0 DEF TypeOK
    <3> QED
      BY <1>2, <2>1, <3>1 DEF Handlers, FirstEvent
  <2> HIDE DEF y
  <2>3. head <= head' /\ head' = head
    BY <1>0 DEF TypeOK, journal
  <2>4. h'[r] = y => HandlerKnows(r)'
    BY <1>0, <2>1, <2>2, <2>3 DEF HandlerKnows, Serving, StartupKnows, HeadKnows, journal
  <2> QED
    BY <1>0, <1>5, <2>2, <2>4, HandlerOnlyStep
<1> QED
  BY <1>3, <1>4, <1>5 DEF ReconcileReceipt, rest

LEMMA ServeStep ==
    ASSUME IInv, NEW r \in Runtimes, Serve(r)
    PROVE  GoodStep(r)
<1>0. TypeOK /\ UNCHANGED <<journal, cont, receipt, effects>>
  BY DEF IInv, Serve
<1>1. head' \in Nat
  BY <1>0, HandlerTypes DEF journal
<1>2. \/ h' = [h EXCEPT ![r] = Down]
      \/ h' = [h EXCEPT ![r] = Idle] /\ \A q \in Runtimes : ~Serving(q)
  BY DEF Serve
<1> QED
  BY <1>0, <1>1, <1>2, RestTypes, HandlerRests, HandlerOnlyStep

LEMMA DecideApprovalStep ==
    ASSUME IInv, NEW r \in Runtimes, DecideApproval(r)
    PROVE  GoodStep(r)
<1> DEFINE c == h[r].call
           a == <<c, h[r].ask>>
           action == ApprovalRecoveryAction(h[r].moved, h[r].approved, appr[a], exec[c].state)
           fresh == [h[r] EXCEPT !.pos = head, !.mode = "fresh"]
           target == IF h[r].approved THEN "resumed" ELSE "cancelled"
           toResolution == [fresh EXCEPT !.pc = "resolution"]
           toCall == [fresh EXCEPT !.pc = AfterResolution(r)]
           toReceipt == [fresh EXCEPT !.pc = "receipt", !.mode = "reconcile", !.skip = FirstEvent(c)]
<1>0. TypeOK /\ HandlerKnows(r) /\ UNCHANGED <<journal, cont, receipt, effects>> /\ h[r].pc = "decide"
  BY DEF IInv, DecideApproval, At
<1>1. /\ h[r] \in Handlers /\ a \in Asks /\ a[1] = c /\ c \in Calls /\ head \in 0..MaxHead
      /\ exec[c] \in Executions /\ CallOK(c) /\ AskOK(a)
  BY <1>0, HandlerTypes DEF IInv, StoresAgree, TypeOK
<1>2. /\ Serving(r) /\ ServerKnows(h[r]) /\ h[r].kind = "approval" /\ cont[a] = target /\ h[r].skip = 0
      /\ (h[r].moved => appr[a] \in {"none", "pending"})
  BY <1>0 DEF HandlerKnows, Serving, StartupKnows, ServerKnows
<1>3. /\ c \in AskCalls /\ c \notin RejectCalls /\ proposals[c] # 0
  <2>1. h[r].ask \in 1..MaxAsks /\ cont[a] # "absent"
    BY <1>0, <1>2, HandlerTypes
  <2> QED
    BY <1>1, <2>1, ToolDispatchAssumption DEF AskOK, CallOK, Untouched
<1>4. /\ fresh \in Handlers /\ fresh.kind = "approval" /\ fresh.call = c /\ fresh.ask = h[r].ask
      /\ fresh.pos = head /\ fresh.mode = "fresh" /\ fresh.skip = 0 /\ fresh.approved = h[r].approved
  BY <1>1, <1>2 DEF Handlers
<1> HIDE DEF fresh
<1>5. CASE Finish(r)
  BY <1>0, <1>5, FinishStep
<1>6. CASE appr[a] # "none" /\ action = "commit" /\ h' = [h EXCEPT ![r] = toResolution]
  <2>1. appr[a] = "pending"
    BY <1>1, <1>2, <1>6 DEF ApprovalRecoveryAction
  <2>3. /\ toResolution \in Handlers /\ toResolution.pc = "resolution" /\ toResolution.kind = "approval"
        /\ toResolution.call = c /\ toResolution.ask = h[r].ask /\ toResolution.pos = head
        /\ toResolution.mode = "fresh" /\ toResolution.skip = 0 /\ toResolution.approved = h[r].approved
    BY <1>4 DEF Handlers, Committing
  <2> HIDE DEF toResolution
  <2>4. ASSUME h'[r] = toResolution PROVE HandlerKnows(r)'
    <3>2. head <= head' /\ head' = head
      BY <1>0, <1>1 DEF journal
    <3> QED
      BY <1>0, <1>2, <2>1, <2>3, <2>4, <3>2
         DEF HandlerKnows, Serving, ServerKnows, ServerKnowsCall, HeadKnows, journal
  <2> QED
    BY <1>0, <1>2, <1>6, <2>3, <2>4, HandlerOnlyStep
<1>7. CASE /\ action = "resume" \/ (action = "idempotent" /\ h[r].resume /\ active)
           /\ h' = [h EXCEPT ![r] = toCall]
  <2> DEFINE p == AfterResolution(r)
  <2>1. /\ appr[a] = (IF h[r].approved THEN "approved" ELSE "denied")
        /\ exec[c].state \in {"none", "terminal"}
    BY <1>7 DEF ApprovalRecoveryAction
  <2>2. p \in {"repair", "approve", "deny"} /\ p \in PCs
        /\ (p = "approve" => h[r].approved /\ exec[c].state = "none")
        /\ (p = "deny" => ~h[r].approved /\ exec[c].state = "none")
    BY <2>1 DEF AfterResolution, PCs, Committing
  <2> HIDE DEF p
  <2>3. /\ toCall \in Handlers /\ toCall.pc = p /\ toCall.kind = "approval"
        /\ toCall.call = c /\ toCall.ask = h[r].ask /\ toCall.pos = head
        /\ toCall.mode = "fresh" /\ toCall.skip = 0 /\ toCall.approved = h[r].approved
    <3>1. toCall = [fresh EXCEPT !.pc = p]
      BY DEF p
    <3> QED
      BY <1>4, <2>2, <3>1 DEF Handlers, PCs
  <2> HIDE DEF toCall
  <2>4. ASSUME h'[r] = toCall PROVE HandlerKnows(r)'
    <3>1. head <= head' /\ head' = head
      BY <1>0, <1>1 DEF journal
    <3>2. ServerKnows(h[r])'
      BY <1>0, <1>2, <1>3, <2>1, <2>2, <2>3, <2>4
         DEF ServerKnows, ServerKnowsCall, Consented, journal
    <3> QED
      BY <2>2, <2>3, <2>4, <3>1, <3>2 DEF HandlerKnows, Serving, HeadKnows
  <2> QED
    BY <1>0, <1>2, <1>7, <2>3, <2>4, HandlerOnlyStep
<1>8. CASE action = "reconcile" /\ h' = [h EXCEPT ![r] = toReceipt]
  <2>1. exec[c].state \in {"dispatched", "started"}
    <3>1. exec[c].state \in {"none", "dispatched", "started", "terminal"}
      BY <1>1 DEF Executions
    <3> QED
      BY <1>8, <3>1 DEF ApprovalRecoveryAction
  <2>2. exec[c].observed \in Nat
    BY <1>1 DEF Executions
  <2>3. /\ toReceipt \in Handlers /\ toReceipt.pc = "receipt" /\ toReceipt.kind = "approval"
        /\ toReceipt.call = c /\ toReceipt.ask = h[r].ask /\ toReceipt.pos = head
        /\ toReceipt.mode = "reconcile" /\ toReceipt.skip = exec[c].observed
        /\ toReceipt.approved = h[r].approved
    BY <1>4, <2>2 DEF Handlers, FirstEvent
  <2> HIDE DEF toReceipt
  <2>4. ASSUME h'[r] = toReceipt PROVE HandlerKnows(r)'
    <3>2. head <= head' /\ head' = head
      BY <1>0, <1>1 DEF journal
    <3> QED
      BY <1>0, <1>2, <2>1, <2>2, <2>3, <2>4, <3>2
         DEF HandlerKnows, Serving, ServerKnows, ServerKnowsCall, HeadKnows, journal
  <2> QED
    BY <1>0, <1>2, <1>8, <2>3, <2>4, HandlerOnlyStep
<1>9. CASE h' = [h EXCEPT ![r] = Idle]
  <2>1. head' \in Nat
    BY <1>0, HandlerTypes DEF journal
  <2> QED
    BY <1>0, <1>2, <1>9, <2>1, RestTypes, HandlerRests, HandlerOnlyStep
<1>10. CASE ~Finish(r)
  <2>1. /\ appr[a] # "none"
        /\ h' = [h EXCEPT ![r] =
                  CASE action = "commit" -> toResolution
                    [] action = "resume" \/ (action = "idempotent" /\ h[r].resume /\ active) -> toCall
                    [] action = "reconcile" -> toReceipt
                    [] OTHER -> Idle]
    BY <1>10 DEF DecideApproval, fresh
  <2> HIDE DEF action, toResolution, toCall, toReceipt
  <2> QED
    BY <1>1, <1>6, <1>7, <1>8, <1>9, <2>1
<1> QED
  BY <1>5, <1>10

-----------------------------------------------------------------------------
(***************************************************************************)
(* The theorems                                                            *)
(***************************************************************************)
LEMMA InitKnows == Init => IInv
<1> SUFFICES ASSUME Init PROVE IInv
  OBVIOUS
<1> USE DEF Init
<1>1. TypeOK
  <2>1. NoExecution \in Executions /\ [calls |-> 0, results |-> 0] \in [calls : Nat, results : Nat]
    BY ToolDispatchAssumption DEF NoExecution, Executions
  <2>2. 0 \in 0..MaxHead /\ 0 \in 0..MaxProposals
    BY ToolDispatchAssumption
  <2> QED
    BY <2>1, <2>2, RestTypes DEF TypeOK
<1>2. \A c \in Calls : CallOK(c)
  <2> SUFFICES ASSUME NEW c \in Calls PROVE Untouched(c) /\ CallFacts(c)
    BY DEF CallOK
  <2>1. \A k \in 1..MaxAsks : <<c, k>> \in Asks
    BY DEF Asks
  <2>2. /\ exec[c] = NoExecution /\ exec[c].state = "none" /\ exec[c].observed = 0
        /\ exec[c].outcome = "none" /\ conv[c] = NoEntries /\ effects[c] = 0
        /\ conv[c].results = 0 /\ conv[c].calls = 0
    BY DEF NoExecution, NoEntries
  <2> QED
    BY <2>1, <2>2, ToolDispatchAssumption DEF Untouched, CallFacts
<1>3. \A a \in Asks : AskOK(a)
  BY DEF AskOK
<1>4. EffectOnlyWithConsent /\ JournalReplays
  BY DEF EffectOnlyWithConsent, JournalReplays
<1>5. OneServer /\ \A r \in Runtimes : HandlerKnows(r)
  BY RestTypes DEF OneServer, Serving, HandlerKnows, HeadKnows
<1> QED
  BY <1>1, <1>2, <1>3, <1>4, <1>5 DEF IInv, StoresAgree

LEMMA StutterKnows ==
    ASSUME IInv, UNCHANGED vars
    PROVE  IInv'
<1> USE DEF vars, journal
<1>1. TypeOK' /\ OneServer'
  BY DEF IInv, TypeOK, OneServer, Serving
<1>2. StoresAgree'
  BY OnlyHandlerMoves
<1>3. \A r \in Runtimes : HandlerKnows(r)'
  BY DEF IInv, HandlerKnows, Serving, ServerKnows, ServerKnowsCall, StartupKnows, HeadKnows,
     Untouched, Consented, ProposedOnce
<1> QED
  BY <1>1, <1>2, <1>3 DEF IInv

LEMMA NextKnows ==
    ASSUME IInv, [Next]_vars
    PROVE  IInv'
<1>1. CASE UNCHANGED vars
  BY <1>1, StutterKnows
<1>2. ASSUME NEW r \in Runtimes, HandlerStep(r) PROVE GoodStep(r)
  BY <1>2, ProposeCallStep, CreateContinuationStep, RequestApprovalStep, RejectCallStep,
     ApproveCallStep, DispatchCallStep, LoadReceiptStep, HostExecutesStep, PersistReceiptStep,
     CommitHostUnavailableStep, ProjectEventStep, CommitToolCallStep, CommitToolResultStep,
     RepairConversationStep, LeaveToolGateStep, DecideApprovalStep, CommitResolutionStep,
     DenyCallStep, ReconcileReceiptStep, ServeStep, FailStep
     DEF HandlerStep
<1>3. CASE Next
  <2>1. PICK r \in Runtimes :
          \/ StartTurn(r)
          \/ \E a \in Asks, approved \in BOOLEAN, resume \in BOOLEAN :
                ClaimApproval(r, a, approved, resume)
          \/ ListReceipts(r)
          \/ HandlerStep(r)
          \/ Kill(r)
    BY <1>3 DEF Next
  <2>2. GoodStep(r)
    BY <1>2, <2>1, StartTurnStep, ClaimApprovalStep, ListReceiptsStep, KillStep
  <2> QED
    BY <2>2, GoodStepKeepsIInv
<1> QED
  BY <1>1, <1>3

\* The inductive invariant: the stores agree on every call that was proposed at
\* most once, and every handler is right in what it relies on.
THEOREM Inductive == Spec => []IInv
<1>1. Init => IInv
  BY InitKnows
<1>2. IInv /\ [Next]_vars => IInv'
  BY NextKnows
<1> QED
  BY <1>1, <1>2, PTL DEF Spec

\* Every variable keeps the shape the code gives it.
THEOREM TypeCorrect == Spec => []TypeOK
<1>1. IInv => TypeOK
  BY DEF IInv
<1> QED
  BY <1>1, Inductive, PTL

\* A call that was proposed once is executed at most once, whatever daemons,
\* approvals, crashes and startup recoveries interleave, and whatever happens
\* to the other calls of the batch.
THEOREM EffectsHappenOnce == Spec => []ProposalRunsOnce
<1>1. IInv => ProposalRunsOnce
  BY DEF IInv, StoresAgree, CallOK, CallFacts, ProposalRunsOnce
<1> QED
  BY <1>1, Inductive, PTL

\* Nothing the policy asks about reaches the host without an approval that both
\* stores record, and nothing it rejects reaches the host at all.
THEOREM EffectsNeedConsent == Spec => []EffectOnlyWithConsent
<1>1. IInv => EffectOnlyWithConsent
  BY DEF IInv, StoresAgree
<1> QED
  BY <1>1, Inductive, PTL

\* commit_next appends an event the reducer rejects, after which the session does
\* not load, only when some call has been proposed a second time.
THEOREM UnloadableOnlyAfterRepeat == Spec => []JournalReplays
<1>1. IInv => JournalReplays
  BY DEF IInv, StoresAgree
<1> QED
  BY <1>1, Inductive, PTL

\* The stream of a host for a call proposed once is committed completely, once,
\* and after its receipt.
THEOREM StreamsCommitOnce == Spec => []StreamProjectedOnce
<1>1. IInv => StreamProjectedOnce
  <2> SUFFICES ASSUME IInv, NEW c \in Calls, ProposedOnce(c)
               PROVE  /\ exec[c].outcome \in {"stream", "cancelled"} =>
                            exec[c].observed = StreamLength /\ receipt[c]
                      /\ exec[c].state # "terminal" => exec[c].observed < StreamLength
                      /\ exec[c].observed <= StreamLength
    BY DEF StreamProjectedOnce
  <2>1. CallFacts(c) /\ exec[c] \in Executions
    BY DEF IInv, StoresAgree, CallOK, TypeOK
  <2> QED
    BY <2>1, ToolDispatchAssumption DEF CallFacts, Executions, NoExecution
<1> QED
  BY <1>1, Inductive, PTL

\* A call proposed once has at most one call and one result entry in the
\* conversation, in that order and only when it has ended.
THEOREM ConversationStaysPaired == Spec => []ConversationPaired
<1>1. IInv => ConversationPaired
  <2> SUFFICES ASSUME IInv, NEW c \in Calls, ProposedOnce(c)
               PROVE  /\ conv[c].results <= conv[c].calls
                      /\ conv[c].calls <= 1
                      /\ conv[c].calls > 0 => exec[c].state = "terminal"
    BY DEF ConversationPaired
  <2>1. CallFacts(c)
    BY DEF IInv, StoresAgree, CallOK
  <2> QED
    BY <2>1 DEF CallFacts, NoEntries
<1> QED
  BY <1>1, Inductive, PTL

\* The journal records only the decision that won the resume-once gate.
THEOREM DecisionsFollowGate == Spec => []DecisionMatchesGate
<1>1. IInv => DecisionMatchesGate
  BY DEF IInv, StoresAgree, AskOK, DecisionMatchesGate
<1> QED
  BY <1>1, Inductive, PTL
=============================================================================
