------------------------------ MODULE ChatSession ------------------------------
(***************************************************************************)
(* The chat assistant of one user: the gateway that takes messages,        *)
(* cancellations and confirmations (gateway/chat-bot.gateway.ts,           *)
(* services/chat.service.ts), the job that answers a message               *)
(* (processors/chat.processor.ts), the abort controllers each instance     *)
(* keeps in memory, and the cancel flag and confirm keys in Redis.         *)
(* What the language model says is nondeterministic.                       *)
(***************************************************************************)
EXTENDS Naturals, Sequences, FiniteSets, Functions

CONSTANTS
    Messages,       \* messages of the user, each with its job
    Workers,        \* handler slots of the queue ai-chat
    Instances,      \* processes of the application
    InstanceOf,     \* the process of a slot
    Tools,          \* tools that change something; reading leaves no trace
    MaxIterations,  \* TIER_MAX_ITERATIONS: 3, 7 or 10
    MaxAttempts,    \* attempts of a job (2)
    Kinds, MaxActs, \* what may interfere with a message, and how often in all
    NoWorker, NoMessage, NoTool

ActKinds == {"aiError", "toolError", "writeError", "toolTimeout", "storeError", "requestError",
             "reportError", "crash", "stall", "cancel", "disconnect", "deleteHistory"}

ASSUME BoundsAssumption == /\ IsFiniteSet(Messages) /\ IsFiniteSet(Workers)
                           /\ MaxIterations \in Nat \ {0}
                           /\ MaxAttempts \in Nat \ {0}
                           /\ Kinds \subseteq ActKinds
                           /\ MaxActs \in Nat
                           /\ InstanceOf \in [Workers -> Instances]
ASSUME SentinelsAssumption == NoWorker \notin Workers /\ NoMessage \notin Messages
                              /\ NoTool \notin Tools /\ "read" \notin Tools

VARIABLES
    flag,       \* the cancel key in Redis
    flagSets,   \* SETs of the cancel key on their way
    rows,       \* the USER row of a message
    requests,   \* where saveAndEnqueue is
    jobs,       \* Bull
    runs,       \* the handlers
    registry,   \* AbortControllerRegistry: the run whose controller is kept
    asks,       \* the confirmations asked for, with the list under their key
    told,       \* history: the final events sent to the client per message
    excused,    \* history: messages something has interfered with
    acts        \* history: how often the user and the faults interfered

vars == <<flag, flagSets, rows, requests, jobs, runs, registry, asks, told, excused, acts>>

Outcomes == {"reply", "declined", "cancelled", "error"}
Answers == {"confirmed", "rejected"}
ToolNames == Tools \cup {"read"}

Live == {"none", "waiting", "active", "delayed"}
Job == [status : Live \cup {"completed", "failed"}, made : 0..MaxAttempts, stalls : 0..1,
        worker : Workers \cup {NoWorker}]
Unqueued == [status |-> "none", made |-> 0, stalls |-> 0, worker |-> NoWorker]

\* A confirmation asked for: what the user said of it, what is in the list under its
\* key, whether a tool that timed out still runs, and how often the tool has run.
Ask == [msg : Messages, said : Answers \cup {"none"}, pushed : Seq(Answers),
        running : BOOLEAN, done : Nat]

\* A handler: its message, the locals of runAgenticLoop, and whether it is in the try.
Pcs == {"idle", "check", "clear", "create", "context", "classify", "chat", "ask", "await",
        "tool", "summary", "tell", "finish", "throw", "tellError"}
Run == [pc : Pcs, msg : Messages \cup {NoMessage}, iter : 0..MaxIterations, strikes : 0..1,
        last : ToolNames \cup {NoTool}, same : 0..1, ask : Nat, out : Outcomes,
        aborted : BOOLEAN, inTry : BOOLEAN]
Idle == [pc |-> "idle", msg |-> NoMessage, iter |-> 0, strikes |-> 0, last |-> NoTool,
         same |-> 0, ask |-> 0, out |-> "reply", aborted |-> FALSE, inTry |-> FALSE]

Init ==
    /\ flag = FALSE
    /\ flagSets = 0
    /\ rows = [m \in Messages |-> "none"]
    /\ requests = [m \in Messages |-> "new"]
    /\ jobs = [m \in Messages |-> Unqueued]
    /\ runs = [w \in Workers |-> Idle]
    /\ registry = [i \in Instances |-> NoWorker]
    /\ asks = <<>>
    /\ told = [m \in Messages |-> <<>>]
    /\ excused = {}
    /\ acts = [k \in ActKinds |-> 0]

\* A report is only lost after the faults that called for it: it has a budget of its own.
Spent(kind) == IF kind = "reportError" THEN acts[kind]
               ELSE SumFunction([acts EXCEPT !["reportError"] = 0])
Strike(kind) == /\ kind \in Kinds
                /\ Spent(kind) < MaxActs
                /\ acts' = [acts EXCEPT ![kind] = @ + 1]

-----------------------------------------------------------------------------
(* saveAndEnqueue: clear the cancel flag, save the message, add the job. *)

\* Mutant: the flag of an earlier cancellation stays.
SendWithoutClearing(m) ==
    /\ requests[m] = "new"
    /\ requests' = [requests EXCEPT ![m] = "saving"]
    /\ excused' = IF flagSets > 0 THEN excused \cup {m} ELSE excused
    /\ UNCHANGED <<flag, flagSets, rows, jobs, runs, registry, asks, told, acts>>

\* A SET that is on its way hits this message too.
ClearFlag(m) ==
    /\ requests[m] = "new"
    /\ flag' = FALSE
    /\ requests' = [requests EXCEPT ![m] = "saving"]
    /\ excused' = IF flagSets > 0 THEN excused \cup {m} ELSE excused
    /\ UNCHANGED <<flagSets, rows, jobs, runs, registry, asks, told, acts>>

SaveMessage(m) ==
    /\ requests[m] = "saving"
    /\ rows' = [rows EXCEPT ![m] = "saved"]
    /\ requests' = [requests EXCEPT ![m] = "queueing"]
    /\ UNCHANGED <<flag, flagSets, jobs, runs, registry, asks, told, excused, acts>>

Enqueue(m) ==
    /\ requests[m] = "queueing"
    /\ jobs' = [jobs EXCEPT ![m].status = "waiting"]
    /\ requests' = [requests EXCEPT ![m] = "queued"]
    /\ UNCHANGED <<flag, flagSets, rows, runs, registry, asks, told, excused, acts>>

\* The client gets ENQUEUE_FAILED; a saved row stays.
RequestError(m) ==
    /\ requests[m] \in {"new", "saving", "queueing"}
    /\ Strike("requestError")
    /\ requests' = [requests EXCEPT ![m] = "refused"]
    /\ UNCHANGED <<flag, flagSets, rows, jobs, runs, registry, asks, told, excused>>

-----------------------------------------------------------------------------
(* What else the user does. *)

Open == {m \in Messages : requests[m] # "new"}

\* handleCancelGeneration: abort in this process, then SET the flag.
Cancel(i) ==
    /\ Strike("cancel")
    /\ runs' = [w \in Workers |-> IF w = registry[i] THEN [runs[w] EXCEPT !.aborted = TRUE]
                                                     ELSE runs[w]]
    /\ flagSets' = flagSets + 1
    /\ excused' = excused \cup Open
    /\ UNCHANGED <<flag, rows, requests, jobs, registry, asks, told>>

DeleteHistory ==
    /\ Strike("deleteHistory")
    /\ rows' = [m \in Messages |-> IF rows[m] = "saved" THEN "deleted" ELSE rows[m]]
    /\ flagSets' = flagSets + 1
    /\ excused' = excused \cup Open
    /\ UNCHANGED <<flag, requests, jobs, runs, registry, asks, told>>

SetFlag ==
    /\ flagSets > 0
    /\ flag' = TRUE
    /\ flagSets' = flagSets - 1
    /\ UNCHANGED <<rows, requests, jobs, runs, registry, asks, told, excused, acts>>

\* CHAT_CANCEL_TTL_SECONDS
ExpireFlag ==
    /\ flag
    /\ flag' = FALSE
    /\ UNCHANGED <<flagSets, rows, requests, jobs, runs, registry, asks, told, excused, acts>>

\* handleDisconnect forgets the controller without aborting.
Disconnect(i) ==
    /\ registry[i] # NoWorker
    /\ Strike("disconnect")
    /\ registry' = [registry EXCEPT ![i] = NoWorker]
    /\ UNCHANGED <<flag, flagSets, rows, requests, jobs, runs, asks, told, excused>>

\* Mutant: one key per user.
KeyOfUser(n) == 1

\* The list an answer is pushed to and popped from: chat:{userId}:confirm:{requestId}.
ConfirmKey(n) == n

\* handleConfirmResponse, in time or not.
Answer(n, a) ==
    /\ asks[n].said = "none"
    /\ asks' = [[asks EXCEPT ![n].said = a] EXCEPT ![ConfirmKey(n)].pushed = Append(@, a)]
    /\ UNCHANGED <<flag, flagSets, rows, requests, jobs, runs, registry, told, excused, acts>>

-----------------------------------------------------------------------------
(* Bull's side of a job. *)

Holds(w) == runs[w].msg # NoMessage /\ jobs[runs[w].msg].worker = w
\* The finally block forgets whoever's controller is kept; the first isCancelled is before the try.
Forget(w) == registry' = IF runs[w].inTry THEN [registry EXCEPT ![InstanceOf[w]] = NoWorker]
                                          ELSE registry

PickJob(w, m) ==
    /\ jobs[m].status = "waiting"
    /\ runs[w].pc = "idle"
    /\ jobs' = [jobs EXCEPT ![m].status = "active", ![m].worker = w]
    /\ runs' = [runs EXCEPT ![w] = [Idle EXCEPT !.pc = "check", !.msg = m]]
    /\ UNCHANGED <<flag, flagSets, rows, requests, registry, asks, told, excused, acts>>

\* A handler that has lost its job changes nothing of it.
FinishJob(w) ==
    /\ runs[w].pc = "finish"
    /\ jobs' = IF Holds(w) THEN [jobs EXCEPT ![runs[w].msg].status = "completed",
                                             ![runs[w].msg].worker = NoWorker]
                           ELSE jobs
    /\ Forget(w)
    /\ runs' = [runs EXCEPT ![w] = Idle]
    /\ UNCHANGED <<flag, flagSets, rows, requests, asks, told, excused, acts>>

LastAttempt(m) == jobs[m].made + 1 >= MaxAttempts

\* The handler throws; handleJobFailed reports the last failure only.
FailJob(w) ==
    LET m == runs[w].msg IN
    /\ runs[w].pc = "throw"
    /\ Forget(w)
    /\ jobs' = IF Holds(w)
               THEN [jobs EXCEPT ![m].made = @ + 1, ![m].worker = NoWorker,
                                 ![m].status = IF LastAttempt(m) THEN "failed" ELSE "delayed"]
               ELSE jobs
    /\ runs' = [runs EXCEPT ![w] = IF Holds(w) /\ LastAttempt(m)
                                   THEN [Idle EXCEPT !.pc = "tellError", !.msg = m] ELSE Idle]
    /\ UNCHANGED <<flag, flagSets, rows, requests, asks, told, excused, acts>>

TellError(w) ==
    /\ runs[w].pc = "tellError"
    /\ told' = [told EXCEPT ![runs[w].msg] = Append(@, "error")]
    /\ runs' = [runs EXCEPT ![w] = Idle]
    /\ UNCHANGED <<flag, flagSets, rows, requests, jobs, registry, asks, excused, acts>>

\* The publish in handleJobFailed fails, and nobody tries again.
ReportError(w) ==
    /\ runs[w].pc = "tellError"
    /\ Strike("reportError")
    /\ runs' = [runs EXCEPT ![w] = Idle]
    /\ UNCHANGED <<flag, flagSets, rows, requests, jobs, registry, asks, told, excused>>

RetryDue(m) ==
    /\ jobs[m].status = "delayed"
    /\ jobs' = [jobs EXCEPT ![m].status = "waiting"]
    /\ UNCHANGED <<flag, flagSets, rows, requests, runs, registry, asks, told, excused, acts>>

\* A process dies, with its handlers, its registry and some of its requests to Redis.
Crash(i) ==
    LET Dies(w) == w \in Workers /\ InstanceOf[w] = i IN
    /\ Strike("crash")
    /\ runs' = [w \in Workers |-> IF Dies(w) THEN Idle ELSE runs[w]]
    /\ registry' = [registry EXCEPT ![i] = NoWorker]
    /\ jobs' = [m \in Messages |-> IF Dies(jobs[m].worker) THEN [jobs[m] EXCEPT !.worker = NoWorker]
                                                          ELSE jobs[m]]
    /\ flagSets' \in 0..flagSets
    /\ UNCHANGED <<flag, rows, requests, asks, told, excused>>

\* Bull requeues a stalled job once, then fails it; handleJobFailed sees attempts
\* left and stays silent.
Stall(m) ==
    /\ jobs[m].status = "active"
    /\ \/ jobs[m].worker = NoWorker /\ UNCHANGED acts
       \/ jobs[m].worker # NoWorker /\ Strike("stall")
    /\ jobs' = [jobs EXCEPT ![m].worker = NoWorker, ![m].stalls = 1,
                            ![m].status = IF jobs[m].stalls = 0 THEN "waiting" ELSE "failed"]
    /\ UNCHANGED <<flag, flagSets, rows, requests, runs, registry, asks, told, excused>>

-----------------------------------------------------------------------------
(* handleChatJob, one action per await. *)

Step(w, pc) == runs' = [runs EXCEPT ![w].pc = pc]
\* The run has the final message.
Conclude(r, out) == [Idle EXCEPT !.pc = "tell", !.msg = r.msg, !.out = out, !.inTry = r.inTry]
Throw(r) == [Idle EXCEPT !.pc = "throw", !.msg = r.msg, !.inTry = r.inTry]

\* isCancelled, called before the run and in each iteration.
CheckCancelled(w) ==
    /\ runs[w].pc = "check"
    /\ Step(w, IF flag THEN "clear" ELSE IF runs[w].inTry THEN "chat" ELSE "create")
    /\ UNCHANGED <<flag, flagSets, rows, requests, jobs, registry, asks, told, excused, acts>>

ConsumeFlag(w) ==
    /\ runs[w].pc = "clear"
    /\ flag' = FALSE
    /\ runs' = [runs EXCEPT ![w] = Conclude(@, "cancelled")]
    /\ UNCHANGED <<flagSets, rows, requests, jobs, registry, asks, told, excused, acts>>

\* AbortControllerRegistry.create aborts the user's other run in this process.
CreateController(w) ==
    LET i == InstanceOf[w]
        other == registry[i] IN
    /\ runs[w].pc = "create"
    /\ runs' = [v \in Workers |->
                   IF v = w THEN [runs[v] EXCEPT !.pc = "context", !.iter = 1, !.inTry = TRUE]
                   ELSE IF v = other THEN [runs[v] EXCEPT !.aborted = TRUE] ELSE runs[v]]
    /\ registry' = [registry EXCEPT ![i] = w]
    /\ excused' = IF other = NoWorker THEN excused ELSE excused \cup {runs[other].msg}
    /\ UNCHANGED <<flag, flagSets, rows, requests, jobs, asks, told, acts>>

BuildContext(w) ==
    /\ runs[w].pc = "context"
    /\ runs' = [runs EXCEPT ![w] = IF rows[@.msg] = "saved" THEN [@ EXCEPT !.pc = "classify"] ELSE Throw(@)]
    /\ UNCHANGED <<flag, flagSets, rows, requests, jobs, registry, asks, told, excused, acts>>

\* An error counts as APP. OUT_OF_SCOPE is answered like any text.
ClassifyIntent(w) ==
    /\ runs[w].pc = "classify"
    /\ \/ Step(w, "check")
       \/ runs' = [runs EXCEPT ![w] = Conclude(@, "reply")]
    /\ UNCHANGED <<flag, flagSets, rows, requests, jobs, registry, asks, told, excused, acts>>

\* The next iteration of runAgenticLoop, or FALLBACK_MESSAGE after the last one.
NextIteration(r) ==
    IF r.iter < MaxIterations THEN [r EXCEPT !.pc = "check", !.iter = @ + 1]
                              ELSE Conclude(r, "reply")

\* The second empty text ends the run.
EmptyText(r) ==
    IF r.strikes = 0 THEN NextIteration([r EXCEPT !.strikes = 1]) ELSE Conclude(r, "reply")

\* The third call in a row of one tool ends the run with a summary. A tool that only
\* reads, or that does not exist, gives the model something to read.
ToolCall(r, tool) ==
    LET again == tool = r.last
        called == [r EXCEPT !.last = tool, !.same = IF again THEN 1 ELSE 0] IN
    IF again /\ r.same = 1 THEN [r EXCEPT !.pc = "summary"]
    ELSE IF tool \in Tools THEN [called EXCEPT !.pc = "ask"] ELSE NextIteration(called)

CallModel(w) ==
    /\ runs[w].pc = "chat"
    /\ \E r \in {Conclude(runs[w], "reply"), EmptyText(runs[w])}
               \cup {ToolCall(runs[w], t) : t \in ToolNames} :
          runs' = [runs EXCEPT ![w] = r]
    /\ UNCHANGED <<flag, flagSets, rows, requests, jobs, registry, asks, told, excused, acts>>

ModelError(w) ==
    /\ runs[w].pc \in {"chat", "summary"}
    /\ Strike("aiError")
    /\ runs' = [runs EXCEPT ![w] = Throw(@)]
    /\ UNCHANGED <<flag, flagSets, rows, requests, jobs, registry, asks, told, excused>>

\* Mutant: the catch block reports the cancellation, then rethrows.
ReportAndRethrow(w) ==
    /\ runs[w].pc \in {"classify", "chat", "summary"}
    /\ runs[w].aborted
    /\ told' = [told EXCEPT ![runs[w].msg] = Append(@, "cancelled")]
    /\ runs' = [runs EXCEPT ![w] = Throw(@)]
    /\ UNCHANGED <<flag, flagSets, rows, requests, jobs, registry, asks, excused, acts>>

\* CanceledError ends the run without a saved message. Not every provider looks at
\* the signal, so an aborted run may also go on.
ModelCancelled(w) ==
    /\ runs[w].pc \in {"classify", "chat", "summary"}
    /\ runs[w].aborted
    /\ runs' = [runs EXCEPT ![w] = Conclude(@, "cancelled")]
    /\ UNCHANGED <<flag, flagSets, rows, requests, jobs, registry, asks, told, excused, acts>>

\* A write tool needs a confirmation under a request id of its own.
RequireConfirmation(w) ==
    /\ runs[w].pc = "ask"
    /\ asks' = Append(asks, [msg |-> runs[w].msg, said |-> "none", pushed |-> <<>>,
                             running |-> FALSE, done |-> 0])
    /\ runs' = [runs EXCEPT ![w].pc = "await", ![w].ask = Len(asks) + 1]
    /\ UNCHANGED <<flag, flagSets, rows, requests, jobs, registry, told, excused, acts>>

\* Mutant: BRPOP without a timeout.
AwaitForever(w) ==
    LET key == ConfirmKey(runs[w].ask)
        list == asks[key].pushed IN
    /\ runs[w].pc = "await"
    /\ list # <<>>
    /\ asks' = [asks EXCEPT ![key].pushed = Tail(@)]
    /\ runs' = [runs EXCEPT ![w] = IF Head(list) = "confirmed" THEN [@ EXCEPT !.pc = "tool"]
                                   ELSE Conclude(@, "declined")]
    /\ UNCHANGED <<flag, flagSets, rows, requests, jobs, registry, told, excused, acts>>

\* BRPOP returns the oldest answer under the key, or nothing after the timeout.
AwaitAnswer(w) ==
    LET key == ConfirmKey(runs[w].ask)
        list == asks[key].pushed IN
    /\ runs[w].pc = "await"
    /\ IF list = <<>>
       THEN /\ runs' = [runs EXCEPT ![w] = Conclude(@, "declined")]
            /\ UNCHANGED asks
       ELSE /\ asks' = [asks EXCEPT ![key].pushed = Tail(@)]
            /\ runs' = [runs EXCEPT ![w] = IF Head(list) = "confirmed" THEN [@ EXCEPT !.pc = "tool"]
                                           ELSE Conclude(@, "declined")]
    /\ UNCHANGED <<flag, flagSets, rows, requests, jobs, registry, told, excused, acts>>

\* Mutant: the loop goes on after a write that succeeded.
ExecuteAndGoOn(w) ==
    /\ runs[w].pc = "tool"
    /\ asks' = [asks EXCEPT ![runs[w].ask].done = @ + 1]
    /\ runs' = [runs EXCEPT ![w] = NextIteration(@)]
    /\ UNCHANGED <<flag, flagSets, rows, requests, jobs, registry, told, excused, acts>>

\* A write that succeeds leads to the summary.
ExecuteTool(w) ==
    /\ runs[w].pc = "tool"
    /\ asks' = [asks EXCEPT ![runs[w].ask].done = @ + 1]
    /\ Step(w, "summary")
    /\ UNCHANGED <<flag, flagSets, rows, requests, jobs, registry, told, excused, acts>>

\* The tool throws before it has changed anything.
ToolError(w) ==
    /\ runs[w].pc = "tool"
    /\ Strike("toolError")
    /\ runs' = [runs EXCEPT ![w] = NextIteration(@)]
    /\ UNCHANGED <<flag, flagSets, rows, requests, jobs, registry, asks, told, excused>>

\* The tool throws after its commit, as create does when the translation job cannot be
\* added or a cache not cleared; the model reads of a failure and may call it again.
ToolErrorAfterWrite(w) ==
    /\ runs[w].pc = "tool"
    /\ Strike("writeError")
    /\ asks' = [asks EXCEPT ![runs[w].ask].done = @ + 1]
    /\ runs' = [runs EXCEPT ![w] = NextIteration(@)]
    /\ UNCHANGED <<flag, flagSets, rows, requests, jobs, registry, told, excused>>

\* Promise.race leaves a tool that timed out running.
ToolTimeout(w) ==
    /\ runs[w].pc = "tool"
    /\ Strike("toolTimeout")
    /\ asks' = [asks EXCEPT ![runs[w].ask].running = TRUE]
    /\ runs' = [runs EXCEPT ![w] = NextIteration(@)]
    /\ UNCHANGED <<flag, flagSets, rows, requests, jobs, registry, told, excused>>

LateWrite(n) ==
    /\ asks[n].running
    /\ asks' = [asks EXCEPT ![n].running = FALSE, ![n].done = @ + 1]
    /\ UNCHANGED <<flag, flagSets, rows, requests, jobs, runs, registry, told, excused, acts>>

FinalizeWithSummary(w) ==
    /\ runs[w].pc = "summary"
    /\ runs' = [runs EXCEPT ![w] = Conclude(@, "reply")]
    /\ UNCHANGED <<flag, flagSets, rows, requests, jobs, registry, asks, told, excused, acts>>

\* Saves the message, unless it is the one of a cancellation, and publishes it as done.
Tell(w) ==
    /\ runs[w].pc = "tell"
    /\ told' = [told EXCEPT ![runs[w].msg] = Append(@, runs[w].out)]
    /\ Step(w, "finish")
    /\ UNCHANGED <<flag, flagSets, rows, requests, jobs, registry, asks, excused, acts>>

\* A query or a publish fails.
StoreError(w) ==
    /\ runs[w].pc \in {"check", "clear", "context", "ask", "await", "tool", "tell"}
    /\ Strike("storeError")
    /\ runs' = [runs EXCEPT ![w] = Throw(@)]
    /\ UNCHANGED <<flag, flagSets, rows, requests, jobs, registry, asks, told, excused>>

-----------------------------------------------------------------------------

RequestStep(m) == ClearFlag(m) \/ SaveMessage(m) \/ Enqueue(m)
HandlerStep(w) ==
    \/ CheckCancelled(w) \/ ConsumeFlag(w) \/ CreateController(w) \/ BuildContext(w)
    \/ ClassifyIntent(w) \/ CallModel(w) \/ RequireConfirmation(w) \/ AwaitAnswer(w)
    \/ ExecuteTool(w) \/ FinalizeWithSummary(w) \/ Tell(w)
    \/ FinishJob(w) \/ FailJob(w) \/ TellError(w)

Next ==
    \/ \E m \in Messages : RequestStep(m) \/ RequestError(m) \/ RetryDue(m) \/ Stall(m)
    \/ \E w \in Workers, m \in Messages : PickJob(w, m)
    \/ \E w \in Workers : HandlerStep(w) \/ ModelError(w) \/ ModelCancelled(w) \/ ToolError(w)
                         \/ ToolErrorAfterWrite(w) \/ ToolTimeout(w) \/ StoreError(w) \/ ReportError(w)
    \/ \E i \in Instances : Cancel(i) \/ Disconnect(i) \/ Crash(i)
    \/ \E n \in 1..Len(asks) : LateWrite(n) \/ \E a \in Answers : Answer(n, a)
    \/ DeleteHistory \/ SetFlag \/ ExpireFlag

Spec == Init /\ [][Next]_vars

\* Requests and handlers run to their end, every await in them included; Bull retries,
\* hands out and checks for stalled jobs.
Fairness ==
    /\ \A w \in Workers : WF_vars(HandlerStep(w))
    /\ \A m \in Messages : /\ WF_vars(RequestStep(m)) /\ WF_vars(RetryDue(m)) /\ WF_vars(Stall(m))
                           /\ WF_vars(\E w \in Workers : PickJob(w, m))

FairSpec == Spec /\ Fairness

-----------------------------------------------------------------------------
(* Properties *)

TypeOK ==
    /\ flag \in BOOLEAN
    /\ flagSets \in Nat
    /\ rows \in [Messages -> {"none", "saved", "deleted"}]
    /\ requests \in [Messages -> {"new", "saving", "queueing", "queued", "refused"}]
    /\ jobs \in [Messages -> Job]
    /\ runs \in [Workers -> Run]
    /\ registry \in [Instances -> Workers \cup {NoWorker}]
    /\ asks \in Seq(Ask)
    /\ told \in [Messages -> Seq(Outcomes)]
    /\ excused \subseteq Messages
    /\ acts \in [ActKinds -> Nat]

\* A tool that changes something runs at most once per confirmation, and only if the
\* user confirmed that very request: a late answer to an earlier one does not count.
OnlyConfirmedWrites ==
    \A n \in 1..Len(asks) :
        /\ asks[n].done + (IF asks[n].running THEN 1 ELSE 0) <= 1
        /\ asks[n].done > 0 \/ asks[n].running => asks[n].said = "confirmed"

\* A message leads to one write, unless something failed once the tool had begun it: the
\* tool after its commit or by taking too long, the model in its summary, the store, or
\* the process. A tool that fails before its commit opens no way to a second write.
OneWritePerMessage ==
    \A m \in Messages :
        Cardinality({n \in 1..Len(asks) : asks[n].msg = m /\ asks[n].done > 0})
            <= 1 + acts["aiError"] + acts["storeError"] + acts["toolTimeout"]
                 + acts["writeError"] + acts["crash"] + acts["stall"]

\* The client is told one end of each message: retries, cancellations and newer
\* messages add none, unless the process died or the job ran twice.
ToldOnce == \A m \in Messages : Len(told[m]) <= 1 + acts["crash"] + acts["stall"]

\* A message is answered as cancelled only if, since it was sent, the user cancelled or
\* deleted something, or a newer run took its controller: an old flag does not hit it.
CancelledForCause ==
    \A m \in Messages : (\E k \in 1..Len(told[m]) : told[m][k] = "cancelled") => m \in excused

Struck(kinds) == SumFunctionOnSet(acts, kinds)

\* Every queued message gets an end told to the client. Only a process that dies, a
\* handler taken for dead, or a report that is not published may make a job fail in silence.
EveryMessageAnswered ==
    \A m \in Messages :
        jobs[m].status = "waiting" ~> \/ told[m] # <<>>
                                      \/ jobs[m].status = "failed" /\ Struck({"crash", "stall", "reportError"}) > 0
=============================================================================
