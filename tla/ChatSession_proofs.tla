--------------------------- MODULE ChatSession_proofs ---------------------------
(***************************************************************************)
(* Proofs about ChatSession, for any number of messages, handlers and      *)
(* processes, any iteration limit, and whatever interferes how often.      *)
(***************************************************************************)
EXTENDS ChatSession, FiniteSetTheorems, TLAPS

LEMMA Sentinels == /\ NoWorker \notin Workers /\ NoMessage \notin Messages
                   /\ MaxIterations \in Nat \ {0} /\ MaxAttempts \in Nat \ {0}
                   /\ InstanceOf \in [Workers -> Instances]
BY BoundsAssumption, SentinelsAssumption

-----------------------------------------------------------------------------
(* Types                                                                   *)

\* A job that has not ended has an attempt left, an owned job is active, and a
\* request adds its job once.
JobTypes ==
    /\ jobs \in [Messages -> Job]
    /\ requests \in [Messages -> {"new", "saving", "queueing", "queued", "refused"}]
    /\ \A m \in Messages : /\ jobs[m].status \in Live => jobs[m].made < MaxAttempts
                           /\ jobs[m].worker \in Workers => jobs[m].status = "active"
                           /\ requests[m] # "queued" => jobs[m].status = "none"

\* A handler at work has a message, and one that waits for an answer has asked.
RunOK(r) == /\ r.pc # "idle" => r.msg \in Messages
            /\ r.inTry => r.pc \notin {"idle", "tellError"}
            /\ r.pc \in {"await", "tool"} => r.ask \in 1..Len(asks)
\* A controller that is kept belongs to a run of this process.
KeptOK(i) == registry[i] \in Workers => /\ InstanceOf[registry[i]] = i
                                        /\ runs[registry[i]].inTry
RunTypes ==
    /\ runs \in [Workers -> Run]
    /\ asks \in Seq(Ask)
    /\ registry \in [Instances -> Workers \cup {NoWorker}]
    /\ \A w \in Workers : RunOK(runs[w])
    /\ \A i \in Instances : KeptOK(i)
DataTypes ==
    /\ flag \in BOOLEAN /\ flagSets \in Nat
    /\ rows \in [Messages -> {"none", "saved", "deleted"}]
    /\ told \in [Messages -> Seq(Outcomes)]
    /\ excused \subseteq Messages
    /\ acts \in [ActKinds -> Nat]
TypeInv == JobTypes /\ RunTypes /\ DataTypes

LEMMA TypesSuffice == TypeInv => TypeOK
BY DEF TypeInv, TypeOK, JobTypes, RunTypes, DataTypes

LEMMA IdleRun == Idle \in Run /\ RunOK(Idle) /\ Idle.pc = "idle" /\ ~Idle.inTry
BY Sentinels DEF Idle, Run, Pcs, Outcomes, RunOK

LEMMA InitTypes == Init => TypeInv
<1> SUFFICES ASSUME Init PROVE TypeInv
  OBVIOUS
<1>1. Unqueued \in Job /\ Unqueued.status = "none" /\ Unqueued.made < MaxAttempts
      /\ Unqueued.worker \notin Workers
  BY Sentinels DEF Unqueued, Job, Live
<1>2. JobTypes
  BY <1>1 DEF Init, JobTypes
<1>3. RunTypes
  BY IdleRun, Sentinels DEF Init, RunTypes, KeptOK, RunOK
<1>4. DataTypes
  <2>1. <<>> \in Seq(Outcomes)
    OBVIOUS
  <2>2. told \in [Messages -> Seq(Outcomes)]
    BY <2>1 DEF Init
  <2>3. acts \in [ActKinds -> Nat] /\ flagSets \in Nat /\ flag \in BOOLEAN
    BY DEF Init
  <2> QED BY <2>2, <2>3 DEF Init, DataTypes
<1> QED BY <1>2, <1>3, <1>4 DEF TypeInv

\* The run q is the run r, gone on to a step that needs no confirmation.
Continues(r, q) == /\ q \in Run /\ q.msg = r.msg /\ q.inTry = r.inTry
                   /\ q.pc \notin {"idle", "tellError", "await", "tool"}

LEMMA ConcludeRun ==
    ASSUME NEW r \in Run, NEW out \in Outcomes
    PROVE  Continues(r, Conclude(r, out)) /\ Continues(r, Throw(r))
BY IdleRun DEF Continues, Conclude, Throw, Run, Pcs, Idle

LEMMA GotoRun ==
    ASSUME NEW r \in Run, NEW pc \in Pcs \ {"idle", "tellError", "await", "tool"}
    PROVE  Continues(r, [r EXCEPT !.pc = pc])
BY DEF Continues, Run

LEMMA IterationRun == ASSUME NEW r \in Run PROVE Continues(r, NextIteration(r))
<1>1. "reply" \in Outcomes
  BY DEF Outcomes
<1>2. CASE r.iter < MaxIterations
  <2>1. r.iter + 1 \in 0..MaxIterations
    BY <1>2, Sentinels DEF Run
  <2>2. NextIteration(r) = [r EXCEPT !.pc = "check", !.iter = r.iter + 1]
    BY <1>2 DEF NextIteration
  <2> QED BY <2>1, <2>2 DEF Continues, Run, Pcs
<1>3. CASE ~(r.iter < MaxIterations)
  BY <1>1, <1>3, ConcludeRun DEF NextIteration
<1> QED BY <1>2, <1>3

LEMMA ModelRun ==
    ASSUME NEW r \in Run, NEW t \in ToolNames
    PROVE  Continues(r, EmptyText(r)) /\ Continues(r, ToolCall(r, t))
<1>1. "reply" \in Outcomes
  BY DEF Outcomes
<1>2. Continues(r, EmptyText(r))
  <2> DEFINE q == [r EXCEPT !.strikes = 1]
  <2>1. q \in Run /\ q.msg = r.msg /\ q.inTry = r.inTry
    BY DEF Run
  <2>2. EmptyText(r) = IF r.strikes = 0 THEN NextIteration(q) ELSE Conclude(r, "reply")
    BY DEF EmptyText
  <2> HIDE DEF q
  <2> QED BY <1>1, <2>1, <2>2, IterationRun, ConcludeRun DEF Continues
<1>3. Continues(r, ToolCall(r, t))
  <2> DEFINE again == t = r.last
             q == [r EXCEPT !.last = t, !.same = IF again THEN 1 ELSE 0]
  <2>0. (IF again THEN 1 ELSE 0) \in 0..1
    OBVIOUS
  <2>1. q \in Run /\ q.msg = r.msg /\ q.inTry = r.inTry
    <3> HIDE DEF again
    <3> QED BY <2>0 DEF Run
  <2>2. ToolCall(r, t) = IF again /\ r.same = 1 THEN [r EXCEPT !.pc = "summary"]
                         ELSE IF t \in Tools THEN [q EXCEPT !.pc = "ask"] ELSE NextIteration(q)
    BY DEF ToolCall
  <2>3. "summary" \in Pcs \ {"idle", "tellError", "await", "tool"} /\ "ask" \in Pcs \ {"idle", "tellError", "await", "tool"}
    BY DEF Pcs
  <2> HIDE DEF again, q
  <2> QED BY <2>1, <2>2, <2>3, IterationRun, GotoRun DEF Continues
<1> QED BY <1>2, <1>3

\* A run that goes on keeps the types of all runs.
LEMMA MoveTypes ==
    ASSUME RunTypes, NEW w \in Workers, runs[w].pc # "idle", NEW q, Continues(runs[w], q),
           runs' = [runs EXCEPT ![w] = q], UNCHANGED <<registry, asks>>
    PROVE  RunTypes'
<1>1. runs[w] \in Run /\ RunOK(runs[w])
  BY DEF RunTypes
<1>2. RunOK(q)
  BY <1>1 DEF RunOK, Continues
<1>3. runs' \in [Workers -> Run] /\ \A v \in Workers : RunOK(runs'[v])
  BY <1>2 DEF RunTypes, Continues
<1>4. ASSUME NEW i \in Instances PROVE KeptOK(i)'
  BY DEF RunTypes, KeptOK, Continues
<1> QED BY <1>3, <1>4 DEF RunTypes, RunOK

LEMMA GotoTypes ==
    ASSUME RunTypes, NEW w \in Workers, runs[w].pc # "idle",
           NEW pc \in Pcs \ {"idle", "tellError", "await", "tool"}, Step(w, pc), UNCHANGED <<registry, asks>>
    PROVE  RunTypes'
<1>1. Continues(runs[w], [runs[w] EXCEPT !.pc = pc])
  BY GotoRun DEF RunTypes
<1>2. runs' = [runs EXCEPT ![w] = [runs[w] EXCEPT !.pc = pc]]
  BY DEF Step
<1> QED BY <1>1, <1>2, MoveTypes

\* A handler that comes to its end, and whose controller is forgotten.
LEMMA EndTypes ==
    ASSUME RunTypes, NEW w \in Workers, NEW q \in Run, RunOK(q), ~q.inTry,
           runs' = [runs EXCEPT ![w] = q], Forget(w), UNCHANGED asks
    PROVE  RunTypes'
<1>1. registry' \in [Instances -> Workers \cup {NoWorker}]
  BY DEF RunTypes, Forget
<1>2. runs' \in [Workers -> Run] /\ \A v \in Workers : RunOK(runs'[v])
  BY DEF RunTypes
<1>3. ASSUME NEW i \in Instances PROVE KeptOK(i)'
  <2> SUFFICES ASSUME registry'[i] \in Workers
               PROVE  InstanceOf[registry'[i]] = i /\ runs'[registry'[i]].inTry
    BY DEF KeptOK
  <2>1. registry'[i] = registry[i]
    BY Sentinels DEF RunTypes, Forget
  <2>2. InstanceOf[registry[i]] = i /\ runs[registry[i]].inTry
    BY <2>1 DEF RunTypes, KeptOK
  <2>3. registry[i] # w
    <3> SUFFICES ASSUME registry[i] = w PROVE FALSE
      OBVIOUS
    <3>1. registry'[i] = NoWorker
      BY <2>2 DEF RunTypes, Forget
    <3> QED BY <3>1, Sentinels
  <2> QED BY <2>1, <2>2, <2>3 DEF RunTypes
<1> QED BY <1>1, <1>2, <1>3 DEF RunTypes, RunOK

\* A handler starts on a message, or reports its failure, outside the try.
LEMMA OutsideTypes ==
    ASSUME RunTypes, NEW w \in Workers, NEW q \in Run, RunOK(q), ~runs[w].inTry,
           runs' = [runs EXCEPT ![w] = q], UNCHANGED <<registry, asks>>
    PROVE  RunTypes'
<1>1. runs' \in [Workers -> Run] /\ \A v \in Workers : RunOK(runs'[v])
  BY DEF RunTypes
<1>2. ASSUME NEW i \in Instances PROVE KeptOK(i)'
  BY DEF RunTypes, KeptOK
<1> QED BY <1>1, <1>2 DEF RunTypes, RunOK

\* A list that is updated at one place.
LEMMA PutAsk ==
    ASSUME NEW s \in Seq(Ask), NEW n \in 1..Len(s), NEW a \in Ask
    PROVE  /\ [s EXCEPT ![n] = a] \in Seq(Ask)
           /\ Len([s EXCEPT ![n] = a]) = Len(s)
           /\ \A k \in 1..Len(s) : [s EXCEPT ![n] = a][k] = IF k = n THEN a ELSE s[k]
OBVIOUS

\* A confirmation that is answered, and one whose tool gets done after its timeout.
LEMMA AnsweredAsk ==
    ASSUME NEW k \in Ask, NEW a \in Answers
    PROVE  [k EXCEPT !.said = a, !.pushed = Append(@, a)] \in Ask
<1>1. k.pushed \in Seq(Answers)
  BY DEF Ask
<1> DEFINE s == Append(k.pushed, a)
<1>2. s \in Seq(Answers)
  BY <1>1
<1> HIDE DEF s
<1>3. [k EXCEPT !.said = a, !.pushed = s] \in Ask
  BY <1>2 DEF Ask
<1> QED BY <1>3 DEF s

LEMMA WrittenAsk ==
    ASSUME NEW k \in Ask PROVE [k EXCEPT !.running = FALSE, !.done = @ + 1] \in Ask
<1> DEFINE n == k.done + 1
<1>1. n \in Nat
  BY DEF Ask
<1> HIDE DEF n
<1>2. [k EXCEPT !.running = FALSE, !.done = n] \in Ask
  BY <1>1 DEF Ask
<1> QED BY <1>2 DEF n

\* Runs stay typed when an answer or an effect is written down, or one more is asked.
LEMMA AskTypes ==
    ASSUME RunTypes, asks' \in Seq(Ask), Len(asks') >= Len(asks), UNCHANGED <<runs, registry>>
    PROVE  RunTypes'
<1>1. \A k : k \in 1..Len(asks) => k \in 1..Len(asks')
  BY DEF RunTypes
<1>2. \A w \in Workers : RunOK(runs[w])'
  BY <1>1 DEF RunTypes, RunOK
<1> QED BY <1>2 DEF RunTypes, KeptOK

\* Every action, as the proofs split them.
UserAction ==
    \/ \E m \in Messages : RequestStep(m) \/ RequestError(m)
    \/ \E i \in Instances : Cancel(i) \/ Disconnect(i)
    \/ DeleteHistory \/ SetFlag \/ ExpireFlag
JobAction == \E m \in Messages : RetryDue(m) \/ Stall(m) \/ \E w \in Workers : PickJob(w, m)
EndAction == \/ \E w \in Workers : FinishJob(w) \/ FailJob(w) \/ TellError(w) \/ ReportError(w)
             \/ \E i \in Instances : Crash(i)
\* Steps of a handler that leave the confirmations alone.
BodyAction(w) ==
    \/ CheckCancelled(w) \/ ConsumeFlag(w) \/ BuildContext(w) \/ ClassifyIntent(w)
    \/ CallModel(w) \/ ModelError(w) \/ ModelCancelled(w) \/ ToolError(w)
    \/ FinalizeWithSummary(w) \/ Tell(w) \/ StoreError(w)
\* Steps about confirmations.
AskAction ==
    \/ \E w \in Workers : \/ RequireConfirmation(w) \/ AwaitAnswer(w)
                          \/ ExecuteTool(w) \/ ToolErrorAfterWrite(w) \/ ToolTimeout(w)
    \/ \E n \in 1..Len(asks) : LateWrite(n) \/ \E a \in Answers : Answer(n, a)

LEMMA Actions ==
    ASSUME [Next]_vars
    PROVE  \/ UserAction \/ JobAction \/ EndAction \/ AskAction
           \/ \E w \in Workers : BodyAction(w) \/ CreateController(w)
           \/ UNCHANGED vars
BY DEF Next, HandlerStep, UserAction, JobAction, EndAction, BodyAction, AskAction

LEMMA BodyRuns ==
    ASSUME RunTypes, NEW w \in Workers, BodyAction(w)
    PROVE  /\ UNCHANGED <<registry, asks>>
           /\ runs[w].pc # "idle"
           /\ \E q \in Run : Continues(runs[w], q) /\ runs' = [runs EXCEPT ![w] = q]
<1>0. runs[w] \in Run
  BY DEF RunTypes
<1> DEFINE Goes(q) == Continues(runs[w], q) /\ runs' = [runs EXCEPT ![w] = q]
<1>s. SUFFICES ASSUME NEW q, Goes(q), UNCHANGED <<registry, asks>>, runs[w].pc # "idle"
               PROVE  \E r \in Run : Continues(runs[w], r) /\ runs' = [runs EXCEPT ![w] = r]
  <2> HIDE DEF Goes
  <2>1. UNCHANGED <<registry, asks>> /\ runs[w].pc # "idle"
    BY DEF BodyAction, CheckCancelled, ConsumeFlag, BuildContext, ClassifyIntent, CallModel,
           ModelError, ModelCancelled, ToolError, FinalizeWithSummary, Tell, StoreError
  <2>o. {"reply", "cancelled"} \subseteq Outcomes
    BY DEF Outcomes
  <2>p. {"clear", "create", "chat", "check", "classify", "finish"} \subseteq Pcs \ {"idle", "tellError", "await", "tool"}
    BY DEF Pcs
  <2>g. ASSUME NEW pc \in Pcs \ {"idle", "tellError", "await", "tool"}, Step(w, pc)
        PROVE  \E q : Goes(q)
    BY <1>0, <2>g, GotoRun DEF Step, Goes
  <2>2. ASSUME CheckCancelled(w) PROVE \E q : Goes(q)
    BY <2>2, <2>p, <2>g DEF CheckCancelled
  <2>3. ASSUME Tell(w) PROVE \E q : Goes(q)
    BY <2>3, <2>p, <2>g DEF Tell
  <2>4. ASSUME ConsumeFlag(w) \/ ModelCancelled(w) \/ FinalizeWithSummary(w) PROVE \E q : Goes(q)
    BY <1>0, <2>4, <2>o, ConcludeRun DEF ConsumeFlag, ModelCancelled, FinalizeWithSummary, Goes
  <2>5. ASSUME ModelError(w) \/ StoreError(w) PROVE \E q : Goes(q)
    BY <1>0, <2>5, <2>o, ConcludeRun DEF ModelError, StoreError, Goes
  <2>6. ASSUME BuildContext(w) PROVE \E q : Goes(q)
    <3>1. Continues(runs[w], [runs[w] EXCEPT !.pc = "classify"]) /\ Continues(runs[w], Throw(runs[w]))
      BY <1>0, <2>o, <2>p, GotoRun, ConcludeRun
    <3> QED BY <2>6, <3>1 DEF BuildContext, Goes
  <2>7. ASSUME ClassifyIntent(w) PROVE \E q : Goes(q)
    <3>1. Continues(runs[w], Conclude(runs[w], "reply"))
      BY <1>0, <2>o, ConcludeRun
    <3> QED BY <2>7, <2>p, <2>g, <3>1 DEF ClassifyIntent, Goes
  <2>8. ASSUME CallModel(w) PROVE \E q : Goes(q)
    <3>0. "read" \in ToolNames
      BY DEF ToolNames
    <3>1. Continues(runs[w], Conclude(runs[w], "reply")) /\ Continues(runs[w], EmptyText(runs[w]))
      BY <1>0, <2>o, <3>0, ConcludeRun, ModelRun
    <3>2. \A t \in ToolNames : Continues(runs[w], ToolCall(runs[w], t))
      BY <1>0, ModelRun
    <3> QED BY <2>8, <3>1, <3>2 DEF CallModel, Goes
  <2>9. ASSUME ToolError(w) PROVE \E q : Goes(q)
    BY <1>0, <2>9, IterationRun DEF ToolError, Goes
  <2> QED BY <2>1, <2>2, <2>3, <2>4, <2>5, <2>6, <2>7, <2>8, <2>9 DEF BodyAction
<1> QED BY <1>s DEF Continues

LEMMA BodyTypes == ASSUME RunTypes, NEW w \in Workers, BodyAction(w) PROVE RunTypes'
BY BodyRuns, MoveTypes

LEMMA CreateTypes == ASSUME RunTypes, NEW w \in Workers, CreateController(w) PROVE RunTypes'
<1> DEFINE q == [runs[w] EXCEPT !.pc = "context", !.iter = 1, !.inTry = TRUE]
           other == registry[InstanceOf[w]]
           hit(v) == [runs[v] EXCEPT !.aborted = TRUE]
<1>1. runs[w] \in Run /\ RunOK(runs[w]) /\ runs[w].pc = "create"
  BY DEF RunTypes, CreateController
<1>2. q \in Run /\ RunOK(q) /\ q.inTry
  <2>1. runs[w].msg \in Messages /\ 1 \in 0..MaxIterations /\ "context" \in Pcs
    BY <1>1, Sentinels DEF RunOK, Pcs
  <2>2. q \in Run
    BY <1>1, <2>1 DEF Run
  <2>3. q.pc = "context" /\ q.msg = runs[w].msg /\ q.inTry
    BY <1>1 DEF Run
  <2> QED BY <2>1, <2>2, <2>3 DEF RunOK
<1>3. \A v \in Workers : runs'[v] = IF v = w THEN q ELSE IF v = other THEN hit(v) ELSE runs[v]
  BY DEF CreateController
<1>4. DOMAIN runs' = Workers /\ runs' = [v \in Workers |-> runs'[v]]
  BY DEF CreateController
<1>5. \A v \in Workers : /\ hit(v) \in Run /\ RunOK(hit(v))
                         /\ hit(v).inTry = runs[v].inTry
  BY DEF RunTypes, RunOK, Run
<1>6. registry' = [registry EXCEPT ![InstanceOf[w]] = w] /\ UNCHANGED asks
  BY DEF CreateController
<1> HIDE DEF q, hit
<1>7. runs' \in [Workers -> Run] /\ \A v \in Workers : RunOK(runs'[v])
  BY <1>2, <1>3, <1>4, <1>5 DEF RunTypes
<1>8. ASSUME NEW i \in Instances PROVE KeptOK(i)'
  BY <1>2, <1>3, <1>5, <1>6, Sentinels DEF RunTypes, KeptOK
<1>9. registry' \in [Instances -> Workers \cup {NoWorker}]
  BY <1>6, Sentinels DEF RunTypes
<1> QED BY <1>6, <1>7, <1>8, <1>9 DEF RunTypes, RunOK

LEMMA UserRunTypes == ASSUME RunTypes, UserAction PROVE RunTypes'
<1>1. CASE UNCHANGED <<runs, registry, asks>>
  BY <1>1 DEF RunTypes, RunOK, KeptOK
<1>2. ASSUME NEW i \in Instances, Disconnect(i) PROVE RunTypes'
  BY <1>2, Sentinels DEF RunTypes, RunOK, KeptOK, Disconnect
<1>3. ASSUME NEW i \in Instances, Cancel(i) PROVE RunTypes'
  <2> DEFINE hit(v) == [runs[v] EXCEPT !.aborted = TRUE]
  <2>1. \A v \in Workers : runs'[v] = IF v = registry[i] THEN hit(v) ELSE runs[v]
    BY <1>3 DEF Cancel
  <2>2. runs' = [v \in Workers |-> runs'[v]] /\ UNCHANGED <<registry, asks>>
    BY <1>3 DEF Cancel
  <2>3. \A v \in Workers : hit(v) \in Run /\ RunOK(hit(v)) /\ hit(v).inTry = runs[v].inTry
    BY DEF RunTypes, RunOK, Run
  <2> HIDE DEF hit
  <2>4. runs' \in [Workers -> Run] /\ \A v \in Workers : RunOK(runs'[v])
    BY <2>1, <2>2, <2>3 DEF RunTypes
  <2>5. ASSUME NEW k \in Instances PROVE KeptOK(k)'
    BY <2>1, <2>2, <2>3 DEF RunTypes, KeptOK
  <2> QED BY <2>2, <2>4, <2>5 DEF RunTypes, RunOK
<1>4. ASSUME NEW m \in Messages, RequestStep(m) \/ RequestError(m)
      PROVE  UNCHANGED <<runs, registry, asks>>
  BY <1>4 DEF RequestStep, ClearFlag, SaveMessage, Enqueue, RequestError
<1>5. ASSUME DeleteHistory \/ SetFlag \/ ExpireFlag PROVE UNCHANGED <<runs, registry, asks>>
  BY <1>5 DEF DeleteHistory, SetFlag, ExpireFlag
<1> QED BY <1>1, <1>2, <1>3, <1>4, <1>5 DEF UserAction

LEMMA JobRunTypes == ASSUME RunTypes, JobAction PROVE RunTypes'
<1>1. ASSUME NEW m \in Messages, NEW w \in Workers, PickJob(w, m) PROVE RunTypes'
  <2> DEFINE q == [Idle EXCEPT !.pc = "check", !.msg = m]
  <2>1. q \in Run /\ RunOK(q)
    BY IdleRun DEF Run, RunOK, Pcs
  <2>2. ~runs[w].inTry
    BY <1>1 DEF PickJob, RunTypes, RunOK, Run
  <2>3. runs' = [runs EXCEPT ![w] = q] /\ UNCHANGED <<registry, asks>>
    BY <1>1 DEF PickJob
  <2> HIDE DEF q
  <2> QED BY <2>1, <2>2, <2>3, OutsideTypes
<1>2. ASSUME NEW m \in Messages, RetryDue(m) \/ Stall(m) PROVE RunTypes'
  <2>1. UNCHANGED <<runs, registry, asks>>
    BY <1>2 DEF RetryDue, Stall
  <2> QED BY <2>1 DEF RunTypes, RunOK, KeptOK
<1> QED BY <1>1, <1>2 DEF JobAction

LEMMA EndRunTypes == ASSUME RunTypes, EndAction PROVE RunTypes'
<1>1. ASSUME NEW w \in Workers, FinishJob(w) PROVE RunTypes'
  BY <1>1, IdleRun, EndTypes DEF FinishJob
<1>2. ASSUME NEW w \in Workers, FailJob(w) PROVE RunTypes'
  <2> DEFINE q == [Idle EXCEPT !.pc = "tellError", !.msg = runs[w].msg]
  <2>1. runs[w].msg \in Messages
    BY <1>2 DEF FailJob, RunTypes, RunOK
  <2>2. q \in Run /\ RunOK(q) /\ ~q.inTry
    BY <2>1, IdleRun DEF Run, RunOK, Pcs
  <2>3. \/ runs' = [runs EXCEPT ![w] = q]
        \/ runs' = [runs EXCEPT ![w] = Idle]
    BY <1>2 DEF FailJob
  <2>4. Forget(w) /\ UNCHANGED asks
    BY <1>2 DEF FailJob
  <2> HIDE DEF q
  <2> QED BY <2>2, <2>3, <2>4, IdleRun, EndTypes
<1>3. ASSUME NEW w \in Workers, TellError(w) \/ ReportError(w) PROVE RunTypes'
  <2>1. ~runs[w].inTry
    BY <1>3 DEF TellError, ReportError, RunTypes, RunOK, Run
  <2> QED BY <1>3, <2>1, IdleRun, OutsideTypes DEF TellError, ReportError
<1>4. ASSUME NEW i \in Instances, Crash(i) PROVE RunTypes'
  <2>1. \A v \in Workers : runs'[v] = IF InstanceOf[v] = i THEN Idle ELSE runs[v]
    BY <1>4 DEF Crash
  <2>2. runs' = [v \in Workers |-> runs'[v]] /\ UNCHANGED asks
        /\ registry' = [registry EXCEPT ![i] = NoWorker]
    BY <1>4 DEF Crash
  <2>3. runs' \in [Workers -> Run] /\ \A v \in Workers : RunOK(runs'[v])
    BY <2>1, <2>2, IdleRun DEF RunTypes
  <2>4. ASSUME NEW k \in Instances PROVE KeptOK(k)'
    BY <2>1, <2>2, Sentinels DEF RunTypes, KeptOK
  <2> QED BY <2>2, <2>3, <2>4 DEF RunTypes, RunOK
<1> QED BY <1>1, <1>2, <1>3, <1>4 DEF EndAction

LEMMA AwaitRun ==
    ASSUME NEW w \in Workers, RunTypes, AwaitAnswer(w)
    PROVE  /\ runs[w].ask \in 1..Len(asks) /\ asks[runs[w].ask] \in Ask
           /\ UNCHANGED registry
           /\ \/ /\ UNCHANGED asks
                 /\ runs' = [runs EXCEPT ![w] = Conclude(@, "declined")]
              \/ \E a \in Answers :
                   /\ asks[runs[w].ask].pushed # <<>> /\ a = Head(asks[runs[w].ask].pushed)
                   /\ asks' = [asks EXCEPT ![runs[w].ask].pushed = Tail(@)]
                   /\ runs' = [runs EXCEPT ![w] = IF a = "confirmed" THEN [@ EXCEPT !.pc = "tool"]
                                                  ELSE Conclude(@, "declined")]
<1>1. runs[w].ask \in 1..Len(asks) /\ asks[runs[w].ask] \in Ask
  BY DEF RunTypes, RunOK, AwaitAnswer
<1>2. asks[runs[w].ask].pushed \in Seq(Answers)
  BY <1>1 DEF Ask
<1>3. asks[runs[w].ask].pushed # <<>> => Head(asks[runs[w].ask].pushed) \in Answers
  BY <1>2
<1> QED BY <1>1, <1>3 DEF AwaitAnswer, ConfirmKey

LEMMA AskRunTypes == ASSUME RunTypes, AskAction PROVE RunTypes'
<1>d. "declined" \in Outcomes
  BY DEF Outcomes
<1>1. ASSUME NEW w \in Workers, RequireConfirmation(w) PROVE RunTypes'
  <2> DEFINE n == Len(asks) + 1
             a == [msg |-> runs[w].msg, said |-> "none", pushed |-> <<>>,
                   running |-> FALSE, done |-> 0]
             q == [runs[w] EXCEPT !.pc = "await", !.ask = n]
  <2>1. runs[w] \in Run /\ runs[w].msg \in Messages /\ asks \in Seq(Ask)
    BY <1>1 DEF RunTypes, RunOK, RequireConfirmation
  <2>2. a \in Ask
    BY <2>1 DEF Ask
  <2>3. asks' = Append(asks, a) /\ UNCHANGED registry
    BY <1>1 DEF RequireConfirmation
  <2>4. runs' = [runs EXCEPT ![w] = q]
    BY <1>1 DEF RequireConfirmation
  <2>5. q \in Run /\ q.pc = "await" /\ q.msg = runs[w].msg /\ q.ask = n /\ q.inTry = runs[w].inTry
    <3>1. n \in Nat /\ "await" \in Pcs
      BY <2>1 DEF Pcs
    <3> HIDE DEF n
    <3> QED BY <2>1, <3>1 DEF Run
  <2> HIDE DEF a, q
  <2>6. asks' \in Seq(Ask) /\ Len(asks') = n
    BY <2>1, <2>2, <2>3
  <2>7. runs' \in [Workers -> Run]
    BY <2>4, <2>5 DEF RunTypes
  <2>8. ASSUME NEW v \in Workers PROVE RunOK(runs[v])'
    <3>1. CASE v = w
      BY <2>1, <2>4, <2>5, <2>6, <3>1 DEF RunTypes, RunOK
    <3>2. CASE v # w
      BY <2>1, <2>4, <2>6, <3>2 DEF RunTypes, RunOK
    <3> QED BY <3>1, <3>2
  <2>9. ASSUME NEW i \in Instances PROVE KeptOK(i)'
    BY <2>3, <2>4, <2>5 DEF RunTypes, KeptOK
  <2> QED BY <2>3, <2>6, <2>7, <2>8, <2>9 DEF RunTypes
<1>2. ASSUME NEW w \in Workers, NEW a \in Ask, NEW q,
             runs[w].pc # "idle", runs[w].ask \in 1..Len(asks),
             asks' = [asks EXCEPT ![runs[w].ask] = a], UNCHANGED registry,
             \/ Continues(runs[w], q)
             \/ q = [runs[w] EXCEPT !.pc = "tool"],
             runs' = [runs EXCEPT ![w] = q]
      PROVE  RunTypes'
  <2>1. runs[w] \in Run /\ RunOK(runs[w]) /\ asks \in Seq(Ask)
    BY DEF RunTypes
  <2>2. asks' \in Seq(Ask) /\ Len(asks') = Len(asks)
    BY <1>2, <2>1, PutAsk
  <2>3. q \in Run /\ RunOK(q) /\ q.inTry = runs[w].inTry
    <3>1. CASE Continues(runs[w], q)
      BY <1>2, <2>1, <3>1 DEF Continues, RunOK
    <3>2. CASE q = [runs[w] EXCEPT !.pc = "tool"]
      BY <1>2, <2>1, <3>2 DEF Run, Pcs, RunOK
    <3> QED BY <1>2, <3>1, <3>2
  <2>4. runs' \in [Workers -> Run] /\ \A v \in Workers : RunOK(runs'[v])
    BY <1>2, <2>3 DEF RunTypes
  <2>5. ASSUME NEW i \in Instances PROVE KeptOK(i)'
    BY <1>2, <2>3 DEF RunTypes, KeptOK
  <2> QED BY <1>2, <2>2, <2>4, <2>5 DEF RunTypes, RunOK
<1>3. ASSUME NEW w \in Workers, AwaitAnswer(w) PROVE RunTypes'
  <2>1. runs[w] \in Run /\ runs[w].pc = "await"
    BY <1>3 DEF RunTypes, AwaitAnswer
  <2>2. Continues(runs[w], Conclude(runs[w], "declined"))
    BY <1>d, <2>1, ConcludeRun
  <2>3. CASE /\ UNCHANGED asks
             /\ runs' = [runs EXCEPT ![w] = Conclude(@, "declined")]
    BY <1>3, <2>1, <2>2, <2>3, AwaitRun, MoveTypes
  <2>4. ASSUME NEW a \in Answers,
               asks[runs[w].ask].pushed # <<>>,
               asks' = [asks EXCEPT ![runs[w].ask].pushed = Tail(@)],
               runs' = [runs EXCEPT ![w] = IF a = "confirmed" THEN [@ EXCEPT !.pc = "tool"]
                                           ELSE Conclude(@, "declined")]
        PROVE  RunTypes'
    <3> DEFINE k == [asks[runs[w].ask] EXCEPT !.pushed = Tail(@)]
               q == IF a = "confirmed" THEN [runs[w] EXCEPT !.pc = "tool"]
                    ELSE Conclude(runs[w], "declined")
    <3>1. runs[w].ask \in 1..Len(asks) /\ asks[runs[w].ask] \in Ask /\ UNCHANGED registry
      BY <1>3, AwaitRun
    <3>2. asks[runs[w].ask].pushed \in Seq(Answers)
      BY <3>1 DEF Ask
    <3>3. Tail(asks[runs[w].ask].pushed) \in Seq(Answers)
      BY <2>4, <3>2
    <3>4. k \in Ask
      BY <3>1, <3>3 DEF Ask
    <3>5. asks' = [asks EXCEPT ![runs[w].ask] = k] /\ runs' = [runs EXCEPT ![w] = q]
      BY <2>4
    <3>6. \/ Continues(runs[w], q)
          \/ q = [runs[w] EXCEPT !.pc = "tool"]
      BY <2>2
    <3> HIDE DEF k, q
    <3> QED BY <1>2, <2>1, <3>1, <3>4, <3>5, <3>6
  <2> QED BY <1>3, <2>3, <2>4, AwaitRun
<1>4. ASSUME NEW w \in Workers,
             ExecuteTool(w) \/ ToolErrorAfterWrite(w) \/ ToolTimeout(w) PROVE RunTypes'
  <2>1. /\ runs[w] \in Run /\ runs[w].pc = "tool" /\ runs[w].ask \in 1..Len(asks)
        /\ asks[runs[w].ask] \in Ask /\ UNCHANGED registry
    BY <1>4 DEF RunTypes, RunOK, ExecuteTool, ToolErrorAfterWrite, ToolTimeout
  <2>2. CASE ExecuteTool(w)
    <3> DEFINE k == [asks[runs[w].ask] EXCEPT !.done = @ + 1]
    <3>1. k \in Ask
      BY <2>1 DEF Ask
    <3>2. asks' = [asks EXCEPT ![runs[w].ask] = k]
          /\ runs' = [runs EXCEPT ![w] = [runs[w] EXCEPT !.pc = "summary"]]
      BY <2>2 DEF ExecuteTool, Step
    <3>3. Continues(runs[w], [runs[w] EXCEPT !.pc = "summary"])
      BY <2>1, GotoRun DEF Pcs
    <3> HIDE DEF k
    <3> QED BY <1>2, <2>1, <3>1, <3>2, <3>3
  <2>3. CASE ToolTimeout(w)
    <3> DEFINE k == [asks[runs[w].ask] EXCEPT !.running = TRUE]
    <3>1. k \in Ask
      BY <2>1 DEF Ask
    <3>2. asks' = [asks EXCEPT ![runs[w].ask] = k]
          /\ runs' = [runs EXCEPT ![w] = NextIteration(runs[w])]
      BY <2>3 DEF ToolTimeout
    <3>3. Continues(runs[w], NextIteration(runs[w]))
      BY <2>1, IterationRun
    <3> HIDE DEF k
    <3> QED BY <1>2, <2>1, <3>1, <3>2, <3>3
  <2>4. CASE ToolErrorAfterWrite(w)
    <3> DEFINE k == [asks[runs[w].ask] EXCEPT !.done = @ + 1]
    <3>1. k \in Ask
      BY <2>1 DEF Ask
    <3>2. asks' = [asks EXCEPT ![runs[w].ask] = k]
          /\ runs' = [runs EXCEPT ![w] = NextIteration(runs[w])]
      BY <2>4 DEF ToolErrorAfterWrite
    <3>3. Continues(runs[w], NextIteration(runs[w]))
      BY <2>1, IterationRun
    <3> HIDE DEF k
    <3> QED BY <1>2, <2>1, <3>1, <3>2, <3>3
  <2> QED BY <1>4, <2>2, <2>3, <2>4
<1>5. ASSUME NEW n \in 1..Len(asks), LateWrite(n) PROVE RunTypes'
  <2> DEFINE k == [asks[n] EXCEPT !.running = FALSE, !.done = @ + 1]
  <2>1. asks \in Seq(Ask) /\ asks[n] \in Ask
    BY DEF RunTypes
  <2>3. k \in Ask
    BY <2>1, WrittenAsk
  <2>4. asks' = [asks EXCEPT ![n] = k] /\ UNCHANGED <<runs, registry>>
    BY <1>5 DEF LateWrite
  <2> HIDE DEF k
  <2> QED BY <2>1, <2>3, <2>4, PutAsk, AskTypes
<1>6. ASSUME NEW n \in 1..Len(asks), NEW a \in Answers, Answer(n, a) PROVE RunTypes'
  <2> DEFINE k == [asks[n] EXCEPT !.said = a, !.pushed = Append(@, a)]
  <2>1. asks \in Seq(Ask) /\ asks[n] \in Ask
    BY DEF RunTypes
  <2>4. k \in Ask
    BY <2>1, AnsweredAsk
  <2>5. asks' = [asks EXCEPT ![n] = k] /\ UNCHANGED <<runs, registry>>
    BY <1>6, <2>1 DEF Answer, ConfirmKey
  <2> HIDE DEF k
  <2> QED BY <2>1, <2>4, <2>5, PutAsk, AskTypes
<1> QED BY <1>1, <1>3, <1>4, <1>5, <1>6 DEF AskAction

LEMMA UserJobTypes == ASSUME JobTypes, UserAction PROVE JobTypes'
<1>1. ASSUME NEW m \in Messages, Enqueue(m) PROVE JobTypes'
  <2> DEFINE j == [jobs[m] EXCEPT !.status = "waiting"]
  <2>1. jobs[m] \in Job /\ jobs[m].status = "none" /\ jobs[m].made < MaxAttempts
        /\ jobs[m].worker \notin Workers
    BY <1>1 DEF JobTypes, Enqueue, Live
  <2>2. /\ j \in Job /\ j.made = jobs[m].made /\ j.worker = jobs[m].worker
        /\ j.status = "waiting"
    BY <2>1 DEF Job, Live
  <2>3. jobs' = [jobs EXCEPT ![m] = j] /\ requests' = [requests EXCEPT ![m] = "queued"]
    BY <1>1 DEF Enqueue
  <2> HIDE DEF j
  <2> QED BY <2>1, <2>2, <2>3 DEF JobTypes
<1>2. ASSUME NEW m \in Messages, ClearFlag(m) \/ SaveMessage(m) \/ RequestError(m)
      PROVE  JobTypes'
  BY <1>2 DEF JobTypes, ClearFlag, SaveMessage, RequestError
<1>3. ASSUME \/ \E i \in Instances : Cancel(i) \/ Disconnect(i)
             \/ DeleteHistory \/ SetFlag \/ ExpireFlag
      PROVE  UNCHANGED <<jobs, requests>>
  BY <1>3 DEF Cancel, Disconnect, DeleteHistory, SetFlag, ExpireFlag
<1>4. CASE UNCHANGED <<jobs, requests>>
  BY <1>4 DEF JobTypes
<1> QED BY <1>1, <1>2, <1>3, <1>4 DEF UserAction, RequestStep

\* A job that was added and stays within its limits.
LEMMA PutJob ==
    ASSUME JobTypes, NEW m \in Messages, NEW j \in Job, jobs[m].status # "none",
           j.status \in Live => j.made < MaxAttempts,
           j.worker \in Workers => j.status = "active",
           jobs' = [jobs EXCEPT ![m] = j], UNCHANGED requests
    PROVE  JobTypes'
BY DEF JobTypes

LEMMA StepJobTypes == ASSUME RunTypes, JobTypes, JobAction PROVE JobTypes'
<1>1. ASSUME NEW m \in Messages, NEW w \in Workers, PickJob(w, m) PROVE JobTypes'
  <2> DEFINE j == [jobs[m] EXCEPT !.status = "active", !.worker = w]
  <2>1. jobs[m] \in Job /\ jobs[m].status = "waiting" /\ jobs[m].made < MaxAttempts
    BY <1>1 DEF JobTypes, PickJob, Live
  <2>2. j \in Job /\ j.made = jobs[m].made /\ j.status = "active"
    BY <2>1 DEF Job, Live
  <2>3. jobs' = [jobs EXCEPT ![m] = j] /\ UNCHANGED requests
    BY <1>1 DEF PickJob
  <2> HIDE DEF j
  <2> QED BY <2>1, <2>2, <2>3, PutJob
<1>2. ASSUME NEW m \in Messages, RetryDue(m) PROVE JobTypes'
  <2> DEFINE j == [jobs[m] EXCEPT !.status = "waiting"]
  <2>1. jobs[m] \in Job /\ jobs[m].status = "delayed" /\ jobs[m].made < MaxAttempts
        /\ jobs[m].worker \notin Workers
    BY <1>2 DEF JobTypes, RetryDue, Live
  <2>2. j \in Job /\ j.made = jobs[m].made /\ j.worker = jobs[m].worker
    BY <2>1 DEF Job, Live
  <2>3. jobs' = [jobs EXCEPT ![m] = j] /\ UNCHANGED requests
    BY <1>2 DEF RetryDue
  <2> HIDE DEF j
  <2> QED BY <2>1, <2>2, <2>3, PutJob
<1>3. ASSUME NEW m \in Messages, Stall(m) PROVE JobTypes'
  <2> DEFINE s == IF jobs[m].stalls = 0 THEN "waiting" ELSE "failed"
             j == [jobs[m] EXCEPT !.worker = NoWorker, !.stalls = 1, !.status = s]
  <2>1. jobs[m] \in Job /\ jobs[m].status = "active" /\ jobs[m].made < MaxAttempts
    BY <1>3 DEF JobTypes, Stall, Live
  <2>2. s \in {"waiting", "failed"}
    OBVIOUS
  <2>3. jobs' = [jobs EXCEPT ![m] = j] /\ UNCHANGED requests
    BY <1>3 DEF Stall
  <2> HIDE DEF s
  <2>4. j \in Job /\ j.made = jobs[m].made /\ j.worker = NoWorker
    <3>1. s \in Live \cup {"completed", "failed"} /\ 1 \in 0..1
      BY <2>2 DEF Live
    <3> QED BY <2>1, <3>1 DEF Job
  <2> HIDE DEF j
  <2> QED BY <2>1, <2>3, <2>4, PutJob, Sentinels
<1> QED BY <1>1, <1>2, <1>3 DEF JobAction

LEMMA EndJobTypes == ASSUME RunTypes, JobTypes, EndAction PROVE JobTypes'
<1>1. ASSUME NEW w \in Workers, Holds(w), runs[w].pc # "idle" PROVE
        /\ runs[w].msg \in Messages /\ jobs[runs[w].msg] \in Job
        /\ jobs[runs[w].msg].status = "active" /\ jobs[runs[w].msg].made < MaxAttempts
  BY <1>1 DEF Holds, RunTypes, RunOK, JobTypes, Live
<1>2. ASSUME NEW w \in Workers, FinishJob(w) PROVE JobTypes'
  <2>1. CASE ~Holds(w)
    BY <1>2, <2>1 DEF FinishJob, JobTypes
  <2>2. CASE Holds(w)
    <3> DEFINE m == runs[w].msg
               j == [jobs[m] EXCEPT !.status = "completed", !.worker = NoWorker]
    <3>1. /\ m \in Messages /\ jobs[m] \in Job /\ jobs[m].status = "active"
          /\ jobs[m].made < MaxAttempts
      BY <1>1, <1>2, <2>2 DEF FinishJob
    <3>2. jobs' = [jobs EXCEPT ![m] = j] /\ UNCHANGED requests
      BY <1>2, <2>2 DEF FinishJob
    <3>3. j \in Job /\ j.status = "completed" /\ j.worker = NoWorker
      BY <3>1 DEF Job, Live
    <3>4. j.status \notin Live
      BY <3>3 DEF Live
    <3> HIDE DEF m, j
    <3> QED BY <3>1, <3>2, <3>3, <3>4, PutJob, Sentinels
  <2> QED BY <2>1, <2>2
<1>3. ASSUME NEW w \in Workers, FailJob(w) PROVE JobTypes'
  <2>1. CASE ~Holds(w)
    BY <1>3, <2>1 DEF FailJob, JobTypes
  <2>2. CASE Holds(w)
    <3> DEFINE m == runs[w].msg
               n == jobs[m].made + 1
               s == IF n >= MaxAttempts THEN "failed" ELSE "delayed"
               j == [jobs[m] EXCEPT !.made = n, !.worker = NoWorker, !.status = s]
    <3>1. /\ m \in Messages /\ jobs[m] \in Job /\ jobs[m].status = "active"
          /\ jobs[m].made < MaxAttempts
      BY <1>1, <1>3, <2>2 DEF FailJob
    <3>2. jobs' = [jobs EXCEPT ![m] = j] /\ UNCHANGED requests
      BY <1>3, <2>2 DEF FailJob, LastAttempt
    <3>3. n \in 0..MaxAttempts
      BY <3>1, Sentinels DEF Job
    <3>4. s \in {"failed", "delayed"} /\ (s = "delayed" => n < MaxAttempts)
      BY <3>3, Sentinels
    <3> HIDE DEF m, n, s
    <3>5. j \in Job /\ j.made = n /\ j.worker = NoWorker /\ j.status = s
      BY <3>1, <3>3, <3>4 DEF Job, Live
    <3> HIDE DEF j
    <3> QED BY <3>1, <3>2, <3>4, <3>5, PutJob, Sentinels DEF Live
  <2> QED BY <2>1, <2>2
<1>4. ASSUME NEW i \in Instances, Crash(i) PROVE JobTypes'
  <2> DEFINE j(m) == [jobs[m] EXCEPT !.worker = NoWorker]
  <2>1. /\ jobs' = [m \in Messages |-> jobs'[m]] /\ UNCHANGED requests
        /\ \A m \in Messages : jobs'[m] \in {jobs[m], j(m)}
    BY <1>4 DEF Crash
  <2>2. \A m \in Messages : /\ j(m) \in Job /\ j(m).worker = NoWorker
                            /\ j(m).status = jobs[m].status /\ j(m).made = jobs[m].made
    BY DEF JobTypes, Job
  <2> HIDE DEF j
  <2> QED BY <2>1, <2>2, Sentinels DEF JobTypes
<1>5. ASSUME NEW w \in Workers, TellError(w) \/ ReportError(w) PROVE JobTypes'
  BY <1>5 DEF TellError, ReportError, JobTypes
<1> QED BY <1>2, <1>3, <1>4, <1>5 DEF EndAction

LEMMA StrikeTypes ==
    ASSUME acts \in [ActKinds -> Nat], NEW k, Strike(k) PROVE acts' \in [ActKinds -> Nat]
<1>1. k \in ActKinds
  BY BoundsAssumption DEF Strike
<1>2. acts' = [acts EXCEPT ![k] = acts[k] + 1] /\ acts[k] + 1 \in Nat
  BY <1>1 DEF Strike
<1> QED BY <1>1, <1>2

LEMMA ToldTypes ==
    ASSUME told \in [Messages -> Seq(Outcomes)], NEW m \in Messages, NEW out \in Outcomes,
           told' = [told EXCEPT ![m] = Append(@, out)]
    PROVE  told' \in [Messages -> Seq(Outcomes)]
<1>1. told' = [told EXCEPT ![m] = Append(told[m], out)] /\ Append(told[m], out) \in Seq(Outcomes)
  OBVIOUS
<1> QED BY <1>1

LEMMA DataStep == ASSUME RunTypes, DataTypes, [Next]_vars PROVE DataTypes'
<1> USE DEF DataTypes
<1>0. Open \subseteq Messages
  BY DEF Open
<1>1. ASSUME UserAction PROVE DataTypes'
  <2>1. ASSUME NEW m \in Messages, RequestStep(m) PROVE DataTypes'
    BY <2>1 DEF RequestStep, ClearFlag, SaveMessage, Enqueue
  <2>2. ASSUME NEW m \in Messages, RequestError(m) PROVE DataTypes'
    BY <2>2, StrikeTypes DEF RequestError
  <2>3. ASSUME NEW i \in Instances, Cancel(i) \/ Disconnect(i) PROVE DataTypes'
    BY <1>0, <2>3, StrikeTypes DEF Cancel, Disconnect
  <2>4. ASSUME DeleteHistory PROVE DataTypes'
    <3>1. rows' \in [Messages -> {"none", "saved", "deleted"}]
      BY <2>4 DEF DeleteHistory
    <3> QED BY <1>0, <2>4, <3>1, StrikeTypes DEF DeleteHistory
  <2>5. ASSUME SetFlag \/ ExpireFlag PROVE DataTypes'
    <3>1. flag' \in BOOLEAN /\ flagSets' \in Nat
      <4>1. flagSets' \in Nat
        BY <2>5 DEF SetFlag, ExpireFlag
      <4>2. flag' \in BOOLEAN
        BY <2>5 DEF SetFlag, ExpireFlag
      <4> QED BY <4>1, <4>2
    <3> QED BY <2>5, <3>1 DEF SetFlag, ExpireFlag
  <2> QED BY <1>1, <2>1, <2>2, <2>3, <2>4, <2>5 DEF UserAction
<1>2. ASSUME JobAction PROVE DataTypes'
  BY <1>2, StrikeTypes DEF JobAction, PickJob, RetryDue, Stall
<1>3. ASSUME EndAction PROVE DataTypes'
  <2>1. ASSUME NEW w \in Workers, TellError(w) PROVE DataTypes'
    <3>1. runs[w].msg \in Messages /\ "error" \in Outcomes
      BY <2>1 DEF RunTypes, RunOK, TellError, Outcomes
    <3> QED BY <2>1, <3>1, ToldTypes DEF TellError
  <2>2. ASSUME NEW i \in Instances, Crash(i) PROVE DataTypes'
    <3>1. flagSets' \in Nat
      BY <2>2 DEF Crash
    <3> QED BY <2>2, <3>1, StrikeTypes DEF Crash
  <2>3. ASSUME NEW w \in Workers, FinishJob(w) \/ FailJob(w) PROVE DataTypes'
    BY <2>3 DEF FinishJob, FailJob
  <2>4. ASSUME NEW w \in Workers, ReportError(w) PROVE DataTypes'
    BY <2>4, StrikeTypes DEF ReportError
  <2> QED BY <1>3, <2>1, <2>2, <2>3, <2>4 DEF EndAction
<1>4. ASSUME AskAction PROVE DataTypes'
  <2>1. ASSUME NEW w \in Workers, ToolErrorAfterWrite(w) \/ ToolTimeout(w) PROVE DataTypes'
    BY <2>1, StrikeTypes DEF ToolErrorAfterWrite, ToolTimeout
  <2> QED BY <1>4, <2>1 DEF AskAction, RequireConfirmation, AwaitAnswer, ExecuteTool, LateWrite, Answer
<1>5. ASSUME NEW w \in Workers, BodyAction(w) PROVE DataTypes'
  <2>1. ASSUME Tell(w) PROVE DataTypes'
    <3>1. runs[w].msg \in Messages /\ runs[w].out \in Outcomes
      BY <2>1 DEF RunTypes, RunOK, Tell, Run
    <3> QED BY <2>1, <3>1, ToldTypes DEF Tell
  <2>2. ASSUME ModelError(w) \/ ToolError(w) \/ StoreError(w) PROVE DataTypes'
    BY <2>2, StrikeTypes DEF ModelError, ToolError, StoreError
  <2> QED BY <1>5, <2>1, <2>2 DEF BodyAction, CheckCancelled, ConsumeFlag, BuildContext,
                 ClassifyIntent, CallModel, ModelCancelled, FinalizeWithSummary
<1>6. ASSUME NEW w \in Workers, CreateController(w) PROVE DataTypes'
  <2> DEFINE other == registry[InstanceOf[w]]
  <2>1. other # NoWorker => runs[other].msg \in Messages
    BY Sentinels DEF RunTypes, RunOK, KeptOK
  <2>2. excused' = IF other = NoWorker THEN excused ELSE excused \cup {runs[other].msg}
    BY <1>6 DEF CreateController
  <2>3. excused' \subseteq Messages
    BY <2>1, <2>2
  <2> QED BY <1>6, <2>3 DEF CreateController
<1>7. CASE UNCHANGED vars
  BY <1>7 DEF vars
<1> QED BY <1>1, <1>2, <1>3, <1>4, <1>5, <1>6, <1>7, Actions

LEMMA StepTypes == ASSUME TypeInv, [Next]_vars PROVE TypeInv'
<1>0. RunTypes /\ JobTypes /\ DataTypes
  BY DEF TypeInv
<1>1. RunTypes'
  <2>1. CASE UNCHANGED vars
    BY <1>0, <2>1 DEF vars, RunTypes, RunOK, KeptOK
  <2> QED BY <1>0, <2>1, Actions, UserRunTypes, JobRunTypes, EndRunTypes, AskRunTypes,
             BodyTypes, CreateTypes
<1>2. JobTypes'
  <2>1. CASE UNCHANGED <<jobs, requests>>
    BY <1>0, <2>1 DEF JobTypes
  <2>2. AskAction => UNCHANGED <<jobs, requests>>
    BY DEF AskAction, RequireConfirmation, AwaitAnswer, ExecuteTool,
           ToolErrorAfterWrite, ToolTimeout, LateWrite, Answer
  <2>3. ASSUME NEW w \in Workers, BodyAction(w) \/ CreateController(w)
        PROVE  UNCHANGED <<jobs, requests>>
    BY <2>3 DEF BodyAction, CheckCancelled, ConsumeFlag, BuildContext, ClassifyIntent, CallModel,
           ModelError, ModelCancelled, ToolError, FinalizeWithSummary, Tell, StoreError, CreateController
  <2>4. UNCHANGED vars => UNCHANGED <<jobs, requests>>
    BY DEF vars
  <2> QED BY <1>0, <2>1, <2>2, <2>3, <2>4, Actions, UserJobTypes, StepJobTypes, EndJobTypes
<1>3. DataTypes'
  BY <1>0, DataStep
<1> QED BY <1>1, <1>2, <1>3 DEF TypeInv

\* Every variable keeps its type, whatever the user does and whatever fails: handlers at
\* work have a message, a kept controller is a run of its own process, and confirmations
\* waited for exist (chat.processor.ts, abort-controller-registry.ts).
THEOREM TypeCorrect == Spec => []TypeOK
<1>1. Spec => []TypeInv
  BY InitTypes, StepTypes, PTL DEF Spec
<1> QED BY <1>1, TypesSuffice, PTL

-----------------------------------------------------------------------------
(* Writes need a confirmation of their own                                 *)

Fresh(k) == k.done = 0 /\ ~k.running
Waits(r) == r.pc \in {"await", "tool"}

\* The list of a confirmation holds at most its one answer, and the tool has run or
\* runs at most once, after a yes.
AskOK(k) == /\ k.pushed = <<>> \/ (k.said # "none" /\ k.pushed = <<k.said>>)
            /\ k.done + (IF k.running THEN 1 ELSE 0) <= 1
            /\ k.done > 0 \/ k.running => k.said = "confirmed"
\* The confirmation a run waits for, or has, is about its message and has led to nothing yet.
WaitOK(r) == Waits(r) => /\ Fresh(asks[r.ask]) /\ asks[r.ask].msg = r.msg
                         /\ r.pc = "tool" => asks[r.ask].said = "confirmed"
WriteInv ==
    /\ \A n \in 1..Len(asks) : AskOK(asks[n])
    /\ \A w \in Workers : WaitOK(runs[w])
    /\ \A v, w \in Workers : v # w /\ Waits(runs[v]) /\ Waits(runs[w]) => runs[v].ask # runs[w].ask

LEMMA WriteInvSuffices == WriteInv => OnlyConfirmedWrites
BY DEF WriteInv, AskOK, OnlyConfirmedWrites

LEMMA InitWrites == Init => WriteInv
BY IdleRun DEF Init, WriteInv, WaitOK, Waits

\* A step that asks nothing, answers nothing and writes nothing.
Calm == /\ UNCHANGED asks
        /\ \A w \in Workers : Waits(runs'[w]) => /\ runs'[w].pc = runs[w].pc
                                                /\ runs'[w].ask = runs[w].ask
                                                /\ runs'[w].msg = runs[w].msg

LEMMA CalmWrites == ASSUME WriteInv, Calm PROVE WriteInv'
BY DEF WriteInv, WaitOK, Waits, Calm

LEMMA CalmRun ==
    ASSUME RunTypes, NEW w \in Workers, NEW q, ~Waits(q),
           runs' = [runs EXCEPT ![w] = q], UNCHANGED asks
    PROVE  Calm
BY DEF RunTypes, Calm

LEMMA CalmSteps ==
    ASSUME RunTypes, \/ UserAction \/ JobAction \/ EndAction
                     \/ \E w \in Workers : BodyAction(w) \/ CreateController(w)
    PROVE  Calm
<1>0. CASE UNCHANGED <<runs, asks>>
  BY <1>0 DEF Calm
<1>h. \A v \in Workers : LET q == [runs[v] EXCEPT !.aborted = TRUE]
                         IN  q.pc = runs[v].pc /\ q.ask = runs[v].ask /\ q.msg = runs[v].msg
  BY DEF RunTypes, Run
<1>1. ASSUME UserAction PROVE Calm
  <2>1. ASSUME NEW i \in Instances, Cancel(i) PROVE Calm
    BY <1>h, <2>1 DEF Cancel, Calm
  <2>2. ASSUME NEW m \in Messages, RequestStep(m) \/ RequestError(m) PROVE UNCHANGED <<runs, asks>>
    BY <2>2 DEF RequestStep, ClearFlag, SaveMessage, Enqueue, RequestError
  <2>3. ASSUME \/ \E i \in Instances : Disconnect(i)
               \/ DeleteHistory \/ SetFlag \/ ExpireFlag
        PROVE  UNCHANGED <<runs, asks>>
    BY <2>3 DEF Disconnect, DeleteHistory, SetFlag, ExpireFlag
  <2> QED BY <1>0, <1>1, <2>1, <2>2, <2>3 DEF UserAction
<1>2. ASSUME JobAction PROVE Calm
  <2>1. ASSUME NEW m \in Messages, NEW w \in Workers, PickJob(w, m) PROVE Calm
    <3>1. ~Waits([Idle EXCEPT !.pc = "check", !.msg = m])
      BY DEF Idle, Waits
    <3> QED BY <2>1, <3>1, CalmRun DEF PickJob
  <2>2. ASSUME NEW m \in Messages, RetryDue(m) \/ Stall(m) PROVE UNCHANGED <<runs, asks>>
    BY <2>2 DEF RetryDue, Stall
  <2> QED BY <1>0, <1>2, <2>1, <2>2 DEF JobAction
<1>3. ASSUME EndAction PROVE Calm
  <2>0. ~Waits(Idle)
    BY DEF Idle, Waits
  <2>1. ASSUME NEW w \in Workers, FinishJob(w) \/ TellError(w) \/ ReportError(w) PROVE Calm
    BY <2>0, <2>1, CalmRun DEF FinishJob, TellError, ReportError
  <2>2. ASSUME NEW w \in Workers, FailJob(w) PROVE Calm
    <3> DEFINE q == [Idle EXCEPT !.pc = "tellError", !.msg = runs[w].msg]
    <3>1. ~Waits(q)
      BY DEF Idle, Waits
    <3>2. \/ runs' = [runs EXCEPT ![w] = q]
          \/ runs' = [runs EXCEPT ![w] = Idle]
      BY <2>2 DEF FailJob
    <3>3. UNCHANGED asks
      BY <2>2 DEF FailJob
    <3> HIDE DEF q
    <3> QED BY <2>0, <3>1, <3>2, <3>3, CalmRun
  <2>3. ASSUME NEW i \in Instances, Crash(i) PROVE Calm
    <3>1. UNCHANGED asks /\ \A w \in Workers : runs'[w] = Idle \/ runs'[w] = runs[w]
      BY <2>3 DEF Crash
    <3> QED BY <2>0, <3>1 DEF Calm
  <2> QED BY <1>3, <2>1, <2>2, <2>3 DEF EndAction
<1>4. ASSUME NEW w \in Workers, BodyAction(w) PROVE Calm
  <2>1. PICK q \in Run : Continues(runs[w], q) /\ runs' = [runs EXCEPT ![w] = q]
    BY <1>4, BodyRuns
  <2>2. ~Waits(q) /\ UNCHANGED asks
    BY <1>4, <2>1, BodyRuns DEF Continues, Waits
  <2> QED BY <2>1, <2>2, CalmRun
<1>5. ASSUME NEW w \in Workers, CreateController(w) PROVE Calm
  <2> DEFINE q == [runs[w] EXCEPT !.pc = "context", !.iter = 1, !.inTry = TRUE]
             hit(v) == [runs[v] EXCEPT !.aborted = TRUE]
  <2>1. q.pc = "context"
    BY DEF RunTypes, Run
  <2>2. UNCHANGED asks /\ \A v \in Workers : \/ v = w /\ runs'[v] = q
                                            \/ runs'[v] \in {runs[v], hit(v)}
    BY <1>5 DEF CreateController
  <2>3. \A v \in Workers : /\ hit(v).pc = runs[v].pc /\ hit(v).ask = runs[v].ask
                           /\ hit(v).msg = runs[v].msg
    BY <1>h
  <2> HIDE DEF q, hit
  <2> QED BY <2>1, <2>2, <2>3 DEF Calm, Waits
<1> QED BY <1>1, <1>2, <1>3, <1>4, <1>5

\* A step of a run that changes the confirmation it waits for.
LEMMA OwnAskWrites ==
    ASSUME RunTypes, WriteInv, NEW w \in Workers, Waits(runs[w]), NEW k \in Ask, AskOK(k),
           asks' = [asks EXCEPT ![runs[w].ask] = k], k.msg = asks[runs[w].ask].msg,
           NEW q, runs' = [runs EXCEPT ![w] = q],
           Waits(q) => /\ q.ask = runs[w].ask /\ q.msg = runs[w].msg /\ Fresh(k)
                       /\ q.pc = "tool" => k.said = "confirmed"
    PROVE  WriteInv'
<1> DEFINE n == runs[w].ask
<1>1. asks \in Seq(Ask) /\ n \in 1..Len(asks)
  BY DEF RunTypes, RunOK, Waits
<1>2. /\ Len(asks') = Len(asks)
      /\ \A i \in 1..Len(asks) : asks'[i] = IF i = n THEN k ELSE asks[i]
  BY <1>1, PutAsk
<1>3. \A v \in Workers : runs'[v] = IF v = w THEN q ELSE runs[v]
  BY DEF RunTypes
<1>4. \A v \in Workers : v # w /\ Waits(runs[v]) =>
          runs[v].ask # n /\ runs[v].ask \in 1..Len(asks) /\ asks'[runs[v].ask] = asks[runs[v].ask]
  BY <1>2 DEF WriteInv, RunTypes, RunOK, Waits
<1> HIDE DEF n
<1>5. \A i \in 1..Len(asks') : AskOK(asks'[i])
  BY <1>2 DEF WriteInv
<1>6. ASSUME NEW v \in Workers PROVE WaitOK(runs[v])'
  <2>1. CASE v = w
    <3>1. Waits(q) => asks'[q.ask] = k /\ k.msg = q.msg
      BY <1>1, <1>2 DEF n, WriteInv, WaitOK
    <3> QED BY <1>3, <2>1, <3>1 DEF WaitOK, Waits
  <2>2. CASE v # w
    BY <1>3, <1>4, <2>2 DEF WriteInv, WaitOK, Waits
  <2> QED BY <2>1, <2>2
<1>7. ASSUME NEW u \in Workers, NEW v \in Workers, u # v, Waits(runs[u])', Waits(runs[v])'
      PROVE  runs'[u].ask # runs'[v].ask
  <2>1. CASE u = w
    BY <1>3, <1>4, <1>7, <2>1 DEF Waits, n
  <2>2. CASE v = w
    BY <1>3, <1>4, <1>7, <2>2 DEF Waits, n
  <2>3. CASE u # w /\ v # w
    BY <1>3, <1>7, <2>3 DEF WriteInv, Waits
  <2> QED BY <2>1, <2>2, <2>3
<1> QED BY <1>5, <1>6, <1>7 DEF WriteInv, WaitOK

\* A confirmation that changes under runs that wait for it.
LEMMA OtherAskWrites ==
    ASSUME RunTypes, WriteInv, NEW n \in 1..Len(asks), NEW k \in Ask, AskOK(k),
           asks' = [asks EXCEPT ![n] = k], k.msg = asks[n].msg, UNCHANGED runs,
           \A w \in Workers : Waits(runs[w]) /\ runs[w].ask = n => Fresh(k) /\ runs[w].pc # "tool"
    PROVE  WriteInv'
<1>1. asks \in Seq(Ask)
  BY DEF RunTypes
<1>2. /\ Len(asks') = Len(asks)
      /\ \A i \in 1..Len(asks) : asks'[i] = IF i = n THEN k ELSE asks[i]
  BY <1>1, PutAsk
<1>3. \A w \in Workers : Waits(runs[w]) => runs[w].ask \in 1..Len(asks)
  BY DEF RunTypes, RunOK, Waits
<1>4. \A i \in 1..Len(asks') : AskOK(asks'[i])
  BY <1>2 DEF WriteInv
<1>5. ASSUME NEW w \in Workers PROVE WaitOK(runs[w])'
  <2>1. CASE Waits(runs[w]) /\ runs[w].ask = n
    BY <1>2, <2>1 DEF WriteInv, WaitOK, Waits
  <2>2. CASE Waits(runs[w]) /\ runs[w].ask # n
    BY <1>2, <1>3, <2>2 DEF WriteInv, WaitOK, Waits
  <2> QED BY <2>1, <2>2 DEF WaitOK, Waits
<1> QED BY <1>4, <1>5 DEF WriteInv, WaitOK, Waits

LEMMA AskWrites == ASSUME RunTypes, WriteInv, AskAction PROVE WriteInv'
<1>1. ASSUME NEW w \in Workers, RequireConfirmation(w) PROVE WriteInv'
  <2> DEFINE n == Len(asks) + 1
             a == [msg |-> runs[w].msg, said |-> "none", pushed |-> <<>>,
                   running |-> FALSE, done |-> 0]
             q == [runs[w] EXCEPT !.pc = "await", !.ask = n]
  <2>1. runs[w] \in Run /\ asks \in Seq(Ask) /\ asks' = Append(asks, a) /\ runs' = [runs EXCEPT ![w] = q]
    BY <1>1 DEF RunTypes, RequireConfirmation
  <2>2. AskOK(a) /\ Fresh(a) /\ a.msg = runs[w].msg
    BY DEF AskOK, Fresh
  <2>3. q.pc = "await" /\ q.ask = n /\ q.msg = runs[w].msg
    <3> HIDE DEF n
    <3> QED BY <2>1 DEF Run
  <2> HIDE DEF a, q
  <2>4. /\ Len(asks') = n /\ n = Len(asks) + 1 /\ Len(asks) \in Nat
        /\ \A i \in 1..n : asks'[i] = IF i = n THEN a ELSE asks[i]
    BY <2>1
  <2>5. \A v \in Workers : runs'[v] = IF v = w THEN q ELSE runs[v]
    BY <2>1 DEF RunTypes
  <2>6. \A v \in Workers : Waits(runs[v]) => runs[v].ask \in 1..Len(asks)
    BY DEF RunTypes, RunOK, Waits
  <2> HIDE DEF n
  <2>7. ASSUME NEW i \in 1..n PROVE AskOK(asks'[i])
    <3>1. CASE i = n
      BY <2>2, <2>4, <3>1
    <3>2. CASE i # n
      <4>1. i \in 1..Len(asks)
        BY <2>4, <3>2
      <4> QED BY <2>4, <3>2, <4>1 DEF WriteInv
    <3> QED BY <3>1, <3>2
  <2>8. ASSUME NEW v \in Workers PROVE WaitOK(runs[v])'
    <3>1. CASE v = w
      <4>1. asks'[n] = a
        BY <2>4
      <4> QED BY <2>2, <2>3, <2>5, <3>1, <4>1 DEF WaitOK, Waits
    <3>2. CASE v # w /\ Waits(runs[v])
      <4>1. asks'[runs[v].ask] = asks[runs[v].ask]
        BY <2>4, <2>6, <3>2
      <4> QED BY <2>5, <3>2, <4>1 DEF WriteInv, WaitOK, Waits
    <3>3. CASE v # w /\ ~Waits(runs[v])
      BY <2>5, <3>3 DEF WaitOK, Waits
    <3> QED BY <3>1, <3>2, <3>3
  <2>9. ASSUME NEW u \in Workers, NEW v \in Workers, u # v, Waits(runs[u])', Waits(runs[v])'
        PROVE  runs'[u].ask # runs'[v].ask
    <3>1. \A x \in Workers : Waits(runs[x]) => runs[x].ask # n
      BY <2>4, <2>6
    <3>2. CASE u = w
      BY <2>3, <2>5, <2>9, <3>1, <3>2 DEF Waits
    <3>3. CASE v = w
      BY <2>3, <2>5, <2>9, <3>1, <3>3 DEF Waits
    <3>4. CASE u # w /\ v # w
      BY <2>5, <2>9, <3>4 DEF WriteInv, Waits
    <3> QED BY <3>2, <3>3, <3>4
  <2> QED BY <2>4, <2>7, <2>8, <2>9 DEF WriteInv, WaitOK
<1>2. ASSUME NEW w \in Workers, AwaitAnswer(w) PROVE WriteInv'
  <2> DEFINE n == runs[w].ask
  <2>1. runs[w] \in Run /\ runs[w].pc = "await" /\ n \in 1..Len(asks) /\ asks[n] \in Ask
    BY <1>2, AwaitRun DEF RunTypes, AwaitAnswer
  <2>2. AskOK(asks[n]) /\ Fresh(asks[n]) /\ Waits(runs[w])
    BY <2>1 DEF WriteInv, WaitOK, Waits
  <2>3. ~Waits(Conclude(runs[w], "declined"))
    BY DEF Conclude, Idle, Waits
  <2>4. CASE /\ UNCHANGED asks
             /\ runs' = [runs EXCEPT ![w] = Conclude(@, "declined")]
    BY <2>3, <2>4, CalmRun, CalmWrites
  <2>5. ASSUME NEW a \in Answers,
               asks[n].pushed # <<>>, a = Head(asks[n].pushed),
               asks' = [asks EXCEPT ![n].pushed = Tail(@)],
               runs' = [runs EXCEPT ![w] = IF a = "confirmed" THEN [@ EXCEPT !.pc = "tool"]
                                           ELSE Conclude(@, "declined")]
        PROVE  WriteInv'
    <3> DEFINE k == [asks[n] EXCEPT !.pushed = <<>>]
               q == IF a = "confirmed" THEN [runs[w] EXCEPT !.pc = "tool"]
                    ELSE Conclude(runs[w], "declined")
    <3>1. asks[n].pushed = <<asks[n].said>> /\ a = asks[n].said /\ Tail(asks[n].pushed) = <<>>
      <4>1. asks[n].pushed = <<asks[n].said>>
        BY <2>2, <2>5 DEF AskOK
      <4>2. ASSUME NEW x PROVE Head(<<x>>) = x /\ Tail(<<x>>) = <<>>
        OBVIOUS
      <4> HIDE DEF n
      <4> QED BY <2>5, <4>1, <4>2
    <3>2. /\ k \in Ask /\ k.pushed = <<>> /\ k.said = a /\ k.done = asks[n].done
          /\ k.running = asks[n].running /\ k.msg = asks[n].msg
      <4>1. <<>> \in Seq(Answers)
        OBVIOUS
      <4> HIDE DEF n
      <4> QED BY <2>1, <3>1, <4>1 DEF Ask
    <3>3. AskOK(k) /\ Fresh(k)
      BY <2>2, <3>1, <3>2 DEF AskOK, Fresh
    <3>4. asks' = [asks EXCEPT ![n] = k]
      BY <2>5, <3>1
    <3>5. runs' = [runs EXCEPT ![w] = q]
      BY <2>5
    <3>6. Waits(q) => q.ask = n /\ q.msg = runs[w].msg /\ (q.pc = "tool" => k.said = "confirmed")
      BY <2>1, <2>3, <3>2 DEF Run
    <3> HIDE DEF k, q
    <3> QED BY <2>2, <3>2, <3>3, <3>4, <3>5, <3>6, OwnAskWrites
  <2> QED BY <1>2, <2>4, <2>5, AwaitRun
<1>3. ASSUME NEW w \in Workers,
             ExecuteTool(w) \/ ToolErrorAfterWrite(w) \/ ToolTimeout(w) PROVE WriteInv'
  <2> DEFINE n == runs[w].ask
  <2>1. runs[w] \in Run /\ runs[w].pc = "tool" /\ n \in 1..Len(asks) /\ asks[n] \in Ask
    BY <1>3 DEF RunTypes, RunOK, ExecuteTool, ToolErrorAfterWrite, ToolTimeout
  <2>2. AskOK(asks[n]) /\ Fresh(asks[n]) /\ Waits(runs[w]) /\ asks[n].said = "confirmed"
    BY <2>1 DEF WriteInv, WaitOK, Waits
  <2>3. CASE ExecuteTool(w)
    <3> DEFINE k == [asks[n] EXCEPT !.done = 1]
               q == [runs[w] EXCEPT !.pc = "summary"]
    <3>1. asks' = [asks EXCEPT ![n] = k] /\ runs' = [runs EXCEPT ![w] = q]
      BY <2>2, <2>3 DEF ExecuteTool, Step, Fresh
    <3>2. k \in Ask /\ AskOK(k) /\ k.msg = asks[n].msg
      BY <2>1, <2>2 DEF Ask, AskOK, Fresh
    <3>3. ~Waits(q)
      BY <2>1 DEF Run, Waits
    <3> HIDE DEF k, q
    <3> QED BY <2>2, <3>1, <3>2, <3>3, OwnAskWrites
  <2>4. CASE ToolTimeout(w)
    <3> DEFINE k == [asks[n] EXCEPT !.running = TRUE]
               q == NextIteration(runs[w])
    <3>1. asks' = [asks EXCEPT ![n] = k] /\ runs' = [runs EXCEPT ![w] = q]
      BY <2>4 DEF ToolTimeout
    <3>2. k \in Ask /\ AskOK(k) /\ k.msg = asks[n].msg
      <4>1. /\ k \in Ask /\ k.done = asks[n].done /\ k.said = asks[n].said
            /\ k.pushed = asks[n].pushed /\ k.msg = asks[n].msg
        BY <2>1 DEF Ask
      <4>2. k.done = 0 /\ k.said = "confirmed"
        BY <2>2, <4>1 DEF Fresh
      <4>3. k.done + (IF k.running THEN 1 ELSE 0) <= 1
        BY <4>2
      <4> HIDE DEF k
      <4> QED BY <2>2, <4>1, <4>2, <4>3 DEF AskOK
    <3>3. ~Waits(q)
      BY <2>1, IterationRun DEF Continues, Waits
    <3> HIDE DEF k, q
    <3> QED BY <2>2, <3>1, <3>2, <3>3, OwnAskWrites
  <2>5. CASE ToolErrorAfterWrite(w)
    <3> DEFINE k == [asks[n] EXCEPT !.done = 1]
               q == NextIteration(runs[w])
    <3>1. asks' = [asks EXCEPT ![n] = k] /\ runs' = [runs EXCEPT ![w] = q]
      BY <2>2, <2>5 DEF ToolErrorAfterWrite, Fresh
    <3>2. k \in Ask /\ AskOK(k) /\ k.msg = asks[n].msg
      BY <2>1, <2>2 DEF Ask, AskOK, Fresh
    <3>3. ~Waits(q)
      BY <2>1, IterationRun DEF Continues, Waits
    <3> HIDE DEF k, q
    <3> QED BY <2>2, <3>1, <3>2, <3>3, OwnAskWrites
  <2> QED BY <1>3, <2>3, <2>4, <2>5
<1>4. ASSUME NEW n \in 1..Len(asks), LateWrite(n) PROVE WriteInv'
  <2> DEFINE k == [asks[n] EXCEPT !.running = FALSE, !.done = @ + 1]
  <2>1. asks[n] \in Ask /\ AskOK(asks[n]) /\ asks[n].running
    BY <1>4 DEF RunTypes, WriteInv, LateWrite
  <2>2. /\ k.said = asks[n].said /\ k.pushed = asks[n].pushed /\ ~k.running /\ k.msg = asks[n].msg
        /\ k.done = asks[n].done + 1 /\ asks[n].done \in Nat
    BY <2>1 DEF Ask
  <2>3. k \in Ask /\ AskOK(k)
    <3>1. k \in Ask
      BY <2>1, WrittenAsk
    <3> HIDE DEF k
    <3> QED BY <2>1, <2>2, <3>1 DEF AskOK
  <2>4. asks' = [asks EXCEPT ![n] = k] /\ UNCHANGED runs
    BY <1>4 DEF LateWrite
  <2>5. \A w \in Workers : ~(Waits(runs[w]) /\ runs[w].ask = n)
    BY <2>1 DEF WriteInv, WaitOK, Fresh
  <2> HIDE DEF k
  <2> QED BY <2>2, <2>3, <2>4, <2>5, OtherAskWrites
<1>5. ASSUME NEW n \in 1..Len(asks), NEW a \in Answers, Answer(n, a) PROVE WriteInv'
  <2> DEFINE k == [asks[n] EXCEPT !.said = a, !.pushed = Append(@, a)]
  <2>1. asks[n] \in Ask /\ AskOK(asks[n]) /\ asks[n].said = "none"
    BY <1>5 DEF RunTypes, WriteInv, Answer
  <2>2. asks[n].pushed = <<>> /\ Fresh(asks[n])
    BY <2>1 DEF AskOK, Fresh, Ask
  <2>3. /\ k.said = a /\ k.pushed = <<a>> /\ k.done = asks[n].done
        /\ k.running = asks[n].running /\ k.msg = asks[n].msg
    BY <2>1, <2>2 DEF Ask
  <2>4. a # "none"
    BY DEF Answers
  <2>5. k \in Ask
    BY <2>1, AnsweredAsk
  <2>6. asks' = [asks EXCEPT ![n] = k] /\ UNCHANGED runs
    BY <1>5 DEF Answer, ConfirmKey, RunTypes
  <2> HIDE DEF k
  <2>7. AskOK(k) /\ Fresh(k)
    BY <2>2, <2>3, <2>4 DEF AskOK, Fresh
  <2>8. \A w \in Workers : Waits(runs[w]) /\ runs[w].ask = n => runs[w].pc # "tool"
    BY <2>1 DEF WriteInv, WaitOK
  <2> QED BY <2>3, <2>5, <2>6, <2>7, <2>8, OtherAskWrites
<1> QED BY <1>1, <1>2, <1>3, <1>4, <1>5 DEF AskAction

LEMMA WritesConfirmed == Spec => []WriteInv
<1>1. ASSUME TypeInv, WriteInv, [Next]_vars PROVE WriteInv'
  <2>1. RunTypes
    BY <1>1 DEF TypeInv
  <2>2. CASE UNCHANGED vars
    BY <1>1, <2>2, CalmWrites DEF vars, Calm
  <2> QED BY <1>1, <2>1, <2>2, Actions, CalmSteps, CalmWrites, AskWrites
<1>2. Spec => [](TypeInv /\ WriteInv)
  BY <1>1, InitTypes, InitWrites, StepTypes, PTL DEF Spec
<1> QED BY <1>2, PTL

\* A tool that changes the user's data runs at most once per confirmation, and only for
\* a request the user confirmed, in however many handlers, after timeouts and late
\* answers (executeWithConfirmation, requireConfirmation, handleConfirmResponse).
THEOREM OnlyConfirmed == Spec => []OnlyConfirmedWrites
BY WritesConfirmed, WriteInvSuffices, PTL
-----------------------------------------------------------------------------
(* A cancellation has a cause                                              *)

\* A cancel flag, set or on its way, was meant for every message under way: one sent
\* later clears the flag, and is excused if a SET may still come.
InFlight == {m \in Messages : requests[m] \in {"saving", "queueing", "queued"}}
FlagCause == flag \/ flagSets > 0 => InFlight \subseteq excused
\* A run that may end as cancelled.
Caught(r) == \/ r.pc = "clear"
             \/ r.aborted
             \/ r.pc = "tell" /\ r.out = "cancelled"
RunCause(r) == /\ r.pc # "idle" => requests[r.msg] = "queued"
               /\ Caught(r) => r.msg \in excused
CauseInv == FlagCause /\ (\A w \in Workers : RunCause(runs[w])) /\ CancelledForCause

LEMMA InitCause == Init => CauseInv
<1> SUFFICES ASSUME Init PROVE CauseInv
  OBVIOUS
<1>1. ~Caught(Idle) /\ Idle.pc = "idle"
  BY DEF Caught, Idle
<1>2. \A m \in Messages : Len(told[m]) = 0
  BY DEF Init
<1>3. CancelledForCause
  BY <1>2 DEF CancelledForCause
<1>4. FlagCause /\ \A w \in Workers : RunCause(runs[w])
  BY <1>1 DEF Init, FlagCause, RunCause
<1> QED BY <1>3, <1>4 DEF CauseInv

\* No step takes an excuse back, or a queued message out of the queue.
Grows == /\ excused \subseteq excused'
         /\ \A m \in Messages : requests[m] = "queued" => requests'[m] = "queued"

LEMMA RequestsGrow ==
    ASSUME JobTypes, NEW m \in Messages, RequestStep(m) \/ RequestError(m)
    PROVE  Grows
<1>1. \A n \in Messages : n # m => requests'[n] = requests[n]
  BY DEF JobTypes, RequestStep, ClearFlag, SaveMessage, Enqueue, RequestError
<1>2. requests[m] # "queued" /\ excused \subseteq excused'
  BY DEF RequestStep, ClearFlag, SaveMessage, Enqueue, RequestError
<1> QED BY <1>1, <1>2 DEF Grows

LEMMA StepsGrow == ASSUME TypeInv, [Next]_vars PROVE Grows
<1>1. ASSUME UserAction PROVE Grows
  <2>1. ASSUME NEW m \in Messages, RequestStep(m) \/ RequestError(m) PROVE Grows
    BY <2>1, RequestsGrow DEF TypeInv
  <2>2. ASSUME NEW i \in Instances, Cancel(i) \/ Disconnect(i) PROVE Grows
    BY <2>2 DEF Cancel, Disconnect, Grows
  <2>3. ASSUME DeleteHistory \/ SetFlag \/ ExpireFlag PROVE Grows
    BY <2>3 DEF DeleteHistory, SetFlag, ExpireFlag, Grows
  <2> QED BY <1>1, <2>1, <2>2, <2>3 DEF UserAction
<1>2. ASSUME JobAction \/ EndAction PROVE Grows
  BY <1>2 DEF JobAction, EndAction, RetryDue, Stall, PickJob, FinishJob, FailJob, TellError,
              ReportError, Crash, Grows
<1>3. ASSUME AskAction PROVE Grows
  BY <1>3 DEF AskAction, RequireConfirmation, AwaitAnswer, ExecuteTool,
              ToolErrorAfterWrite, ToolTimeout, LateWrite,
              Answer, Grows
<1>4. ASSUME NEW w \in Workers, BodyAction(w) \/ CreateController(w) PROVE Grows
  <2>1. CASE CreateController(w)
    BY <2>1 DEF CreateController, Grows
  <2>2. CASE BodyAction(w)
    BY <2>2 DEF BodyAction, CheckCancelled, ConsumeFlag, BuildContext, ClassifyIntent, CallModel,
                ModelError, ModelCancelled, ToolError, FinalizeWithSummary, Tell, StoreError, Grows
  <2> QED BY <1>4, <2>1, <2>2
<1>5. CASE UNCHANGED vars
  BY <1>5 DEF vars, Grows
<1> QED BY <1>1, <1>2, <1>3, <1>4, <1>5, Actions

\* Steps that neither set the flag nor send a message.
LEMMA FlagKept ==
    ASSUME FlagCause, Grows, UNCHANGED requests, flag' \in {flag, FALSE},
           flagSets' > 0 => flagSets > 0
    PROVE  FlagCause'
BY DEF FlagCause, InFlight, Grows

LEMMA UserFlag == ASSUME TypeInv, FlagCause, Grows, UserAction PROVE FlagCause'
<1>1. ASSUME NEW m \in Messages, RequestStep(m) \/ RequestError(m) PROVE FlagCause'
  <2>0. requests \in [Messages -> {"new", "saving", "queueing", "queued", "refused"}]
    BY DEF TypeInv, JobTypes
  <2>1. CASE ClearFlag(m)
    <3>1. InFlight' \subseteq InFlight \cup {m}
      BY <2>0, <2>1 DEF ClearFlag, InFlight
    <3>2. flagSets' = flagSets /\ ~flag' /\ (flagSets > 0 => m \in excused')
      BY <2>1 DEF ClearFlag
    <3> QED BY <3>1, <3>2 DEF FlagCause, Grows
  <2>2. CASE SaveMessage(m) \/ Enqueue(m) \/ RequestError(m)
    <3>1. InFlight' \subseteq InFlight
      BY <2>0, <2>2 DEF SaveMessage, Enqueue, RequestError, InFlight
    <3>2. UNCHANGED <<flag, flagSets, excused>>
      BY <2>2 DEF SaveMessage, Enqueue, RequestError
    <3> QED BY <3>1, <3>2 DEF FlagCause
  <2> QED BY <1>1, <2>1, <2>2 DEF RequestStep
<1>2. ASSUME \/ DeleteHistory
             \/ \E i \in Instances : Cancel(i)
      PROVE  FlagCause'
  <2>1. InFlight \subseteq Open
    BY DEF InFlight, Open
  <2>2. UNCHANGED requests /\ excused' = excused \cup Open
    BY <1>2 DEF Cancel, DeleteHistory
  <2> QED BY <2>1, <2>2 DEF FlagCause, InFlight
<1>3. ASSUME \E i \in Instances : Disconnect(i) PROVE FlagCause'
  BY <1>3, FlagKept DEF Disconnect
<1>4. ASSUME SetFlag \/ ExpireFlag PROVE FlagCause'
  <2>1. flag \/ flagSets > 0
    BY <1>4 DEF SetFlag, ExpireFlag
  <2>2. UNCHANGED <<requests, excused>>
    BY <1>4 DEF SetFlag, ExpireFlag
  <2> QED BY <2>1, <2>2 DEF FlagCause, InFlight
<1> QED BY <1>1, <1>2, <1>3, <1>4 DEF UserAction

LEMMA StepFlag == ASSUME TypeInv, FlagCause, [Next]_vars PROVE FlagCause'
<1>0. Grows
  BY StepsGrow
<1>1. ASSUME NEW i \in Instances, Crash(i) PROVE FlagCause'
  <2>1. UNCHANGED <<requests, flag>> /\ flagSets' \in 0..flagSets /\ flagSets \in Nat
    BY <1>1 DEF Crash, TypeInv, DataTypes
  <2> QED BY <1>0, <2>1, FlagKept
<1>2. ASSUME NEW w \in Workers, ConsumeFlag(w) PROVE FlagCause'
  BY <1>0, <1>2, FlagKept DEF ConsumeFlag
<1> DEFINE Still == UNCHANGED <<requests, flag, flagSets>>
<1>3. ASSUME \/ JobAction
             \/ \E w \in Workers : FinishJob(w) \/ FailJob(w) \/ TellError(w) \/ ReportError(w)
      PROVE  Still
  BY <1>3 DEF JobAction, RetryDue, Stall, PickJob, FinishJob, FailJob, TellError, ReportError
<1>4. ASSUME AskAction PROVE Still
  BY <1>4 DEF AskAction, RequireConfirmation, AwaitAnswer, ExecuteTool,
              ToolErrorAfterWrite, ToolTimeout, LateWrite, Answer
<1>5. ASSUME NEW w \in Workers, BodyAction(w) \/ CreateController(w), ~ConsumeFlag(w) PROVE Still
  BY <1>5 DEF BodyAction, CreateController, CheckCancelled, BuildContext, ClassifyIntent, CallModel,
              ModelError, ModelCancelled, ToolError, FinalizeWithSummary, Tell, StoreError
<1>6. UNCHANGED vars => Still
  BY DEF vars
<1>7. Still => FlagCause'
  BY <1>0, FlagKept
<1> HIDE DEF Still
<1> QED BY <1>0, <1>1, <1>2, <1>3, <1>4, <1>5, <1>6, <1>7, Actions, UserFlag DEF EndAction

\* The run goes on with the message, and is caught only if it was.
Harmless(r, q) == /\ r.pc # "idle"
                  /\ q.msg = r.msg
                  /\ Caught(q) => Caught(r)

LEMMA HarmlessRun ==
    ASSUME TypeInv, NEW w \in Workers, RunCause(runs[w]), Grows,
           \/ runs'[w] \in {runs[w], Idle}
           \/ Harmless(runs[w], runs'[w])
    PROVE  RunCause(runs[w])'
<1>1. runs[w].pc # "idle" => runs[w].msg \in Messages
  BY DEF TypeInv, RunTypes, RunOK
<1>2. Idle.pc = "idle" /\ ~Caught(Idle)
  BY DEF Idle, Caught
<1>3. CASE runs'[w] = Idle
  BY <1>2, <1>3 DEF RunCause, Caught
<1>4. CASE runs'[w] = runs[w]
  BY <1>1, <1>4 DEF RunCause, Grows, Caught
<1>5. CASE Harmless(runs[w], runs'[w])
  BY <1>1, <1>5 DEF RunCause, Grows, Harmless, Caught
<1> QED BY <1>3, <1>4, <1>5

\* Ends and iterations of a run.
LEMMA HarmlessEnds ==
    ASSUME NEW r \in Run, r.pc # "idle"
    PROVE  /\ Harmless(r, Conclude(r, "reply")) /\ Harmless(r, Conclude(r, "declined"))
           /\ Harmless(r, Throw(r))
           /\ Caught(r) => Harmless(r, Conclude(r, "cancelled"))
           /\ Harmless(r, NextIteration(r))
<1>1. ASSUME NEW out \in Outcomes
      PROVE  LET q == Conclude(r, out)
             IN  q.msg = r.msg /\ q.pc = "tell" /\ q.out = out /\ ~q.aborted
  BY DEF Conclude, Idle
<1>2. LET q == Throw(r) IN q.msg = r.msg /\ q.pc = "throw" /\ ~q.aborted
  BY DEF Throw, Idle
<1>3. {"reply", "declined", "cancelled"} \subseteq Outcomes
  BY DEF Outcomes
<1>4. Harmless(r, Conclude(r, "reply")) /\ Harmless(r, Conclude(r, "declined"))
  BY <1>1, <1>3 DEF Harmless, Caught
<1>5. Harmless(r, Throw(r))
  BY <1>2 DEF Harmless, Caught
<1>6. Caught(r) => Harmless(r, Conclude(r, "cancelled"))
  BY <1>1, <1>3 DEF Harmless
<1>7. LET q == [r EXCEPT !.pc = "check", !.iter = @ + 1]
      IN  q.msg = r.msg /\ q.pc = "check" /\ q.aborted = r.aborted
  BY DEF Run
<1>8. Harmless(r, NextIteration(r))
  BY <1>4, <1>7 DEF NextIteration, Harmless, Caught
<1> QED BY <1>4, <1>5, <1>6, <1>8

LEMMA HarmlessStep ==
    ASSUME NEW r \in Run, r.pc # "idle", NEW pc, pc \notin {"clear", "tell"}
    PROVE  Harmless(r, [r EXCEPT !.pc = pc])
BY DEF Run, Harmless, Caught

LEMMA HarmlessModel ==
    ASSUME NEW r \in Run, r.pc # "idle", NEW t \in ToolNames
    PROVE  Harmless(r, EmptyText(r)) /\ Harmless(r, ToolCall(r, t))
<1>1. Harmless(r, EmptyText(r))
  <2> DEFINE q == [r EXCEPT !.strikes = 1]
  <2>1. q \in Run /\ q.msg = r.msg /\ q.pc = r.pc /\ (Caught(q) => Caught(r))
    BY DEF Run, Caught
  <2>2. EmptyText(r) = IF r.strikes = 0 THEN NextIteration(q) ELSE Conclude(r, "reply")
    BY DEF EmptyText
  <2> HIDE DEF q
  <2> QED BY <2>1, <2>2, HarmlessEnds DEF Harmless
<1>2. Harmless(r, ToolCall(r, t))
  <2> DEFINE again == t = r.last
             q == [r EXCEPT !.last = t, !.same = IF again THEN 1 ELSE 0]
  <2>0. (IF again THEN 1 ELSE 0) \in 0..1
    OBVIOUS
  <2>1. q \in Run /\ q.msg = r.msg /\ q.pc = r.pc /\ (Caught(q) => Caught(r))
    <3> HIDE DEF again
    <3> QED BY <2>0 DEF Run, Caught
  <2>2. ToolCall(r, t) = IF again /\ r.same = 1 THEN [r EXCEPT !.pc = "summary"]
                         ELSE IF t \in Tools THEN [q EXCEPT !.pc = "ask"] ELSE NextIteration(q)
    BY DEF ToolCall
  <2> HIDE DEF again, q
  <2>3. Harmless(r, [r EXCEPT !.pc = "summary"])
    BY HarmlessStep
  <2>4. Harmless(q, [q EXCEPT !.pc = "ask"]) /\ Harmless(q, NextIteration(q))
    BY <2>1, HarmlessEnds, HarmlessStep
  <2>5. \A x : Harmless(q, x) => Harmless(r, x)
    BY <2>1 DEF Harmless
  <2> QED BY <2>2, <2>3, <2>4, <2>5
<1> QED BY <1>1, <1>2

\* A step of one run.
LEMMA OneRunCause ==
    ASSUME TypeInv, \A v \in Workers : RunCause(runs[v]), Grows,
           NEW w \in Workers, NEW q, runs' = [runs EXCEPT ![w] = q],
           q = Idle \/ Harmless(runs[w], q)
    PROVE  \A v \in Workers : RunCause(runs[v])'
<1> SUFFICES ASSUME NEW v \in Workers PROVE RunCause(runs[v])'
  OBVIOUS
<1>1. runs'[v] = IF v = w THEN q ELSE runs[v]
  BY DEF TypeInv, RunTypes
<1> QED BY <1>1, HarmlessRun

LEMMA BodyCause ==
    ASSUME TypeInv, CauseInv, Grows, NEW w \in Workers, BodyAction(w)
    PROVE  \A v \in Workers : RunCause(runs[v])'
<1>0. /\ runs[w] \in Run /\ RunOK(runs[w]) /\ RunCause(runs[w]) /\ runs[w].pc # "idle"
      /\ \A v \in Workers : RunCause(runs[v])
  BY BodyRuns DEF TypeInv, RunTypes, CauseInv
<1> DEFINE Goes(q) == Harmless(runs[w], q) /\ runs' = [runs EXCEPT ![w] = q]
<1>g. ASSUME NEW pc, pc \notin {"clear", "tell"}, Step(w, pc) PROVE \E q : Goes(q)
  BY <1>0, <1>g, HarmlessStep DEF Step, Goes
<1>1. CASE CheckCancelled(w) /\ flag
  <2> DEFINE q == [runs[w] EXCEPT !.pc = "clear"]
  <2>1. runs' = [runs EXCEPT ![w] = q] /\ UNCHANGED <<requests, excused>>
    BY <1>1 DEF CheckCancelled, Step
  <2>2. q.msg = runs[w].msg /\ runs[w].msg \in excused
    <3>1. runs[w].msg \in InFlight
      BY <1>0 DEF RunOK, RunCause, InFlight
    <3> QED BY <1>0, <1>1, <3>1 DEF CauseInv, FlagCause, Run
  <2> HIDE DEF q
  <2>3. ASSUME NEW v \in Workers PROVE RunCause(runs[v])'
    <3>1. runs'[v] = IF v = w THEN q ELSE runs[v]
      BY <2>1 DEF TypeInv, RunTypes
    <3> QED BY <1>0, <2>1, <2>2, <3>1 DEF RunCause, Caught
  <2> QED BY <2>3
<1>2. ASSUME CheckCancelled(w) \/ Tell(w), ~(CheckCancelled(w) /\ flag) PROVE \E q : Goes(q)
  BY <1>2, <1>g DEF CheckCancelled, Tell
<1>3. ASSUME ConsumeFlag(w) \/ ModelCancelled(w) PROVE \E q : Goes(q)
  <2>1. Caught(runs[w]) /\ runs' = [runs EXCEPT ![w] = Conclude(runs[w], "cancelled")]
    BY <1>3 DEF ConsumeFlag, ModelCancelled, Caught
  <2> QED BY <1>0, <2>1, HarmlessEnds DEF Goes
<1>4. ASSUME FinalizeWithSummary(w) \/ ModelError(w) \/ StoreError(w) \/ ToolError(w)
      PROVE  \E q : Goes(q)
  BY <1>0, <1>4, HarmlessEnds DEF FinalizeWithSummary, ModelError, StoreError, ToolError, Goes
<1>5. ASSUME BuildContext(w) PROVE \E q : Goes(q)
  <2>1. Harmless(runs[w], [runs[w] EXCEPT !.pc = "classify"]) /\ Harmless(runs[w], Throw(runs[w]))
    BY <1>0, HarmlessEnds, HarmlessStep
  <2> QED BY <1>5, <2>1 DEF BuildContext, Goes
<1>6. ASSUME ClassifyIntent(w) PROVE \E q : Goes(q)
  <2>1. Harmless(runs[w], Conclude(runs[w], "reply"))
    BY <1>0, HarmlessEnds
  <2> QED BY <1>6, <1>g, <2>1 DEF ClassifyIntent, Goes
<1>7. ASSUME CallModel(w) PROVE \E q : Goes(q)
  <2>0. "read" \in ToolNames
    BY DEF ToolNames
  <2>1. Harmless(runs[w], Conclude(runs[w], "reply")) /\ Harmless(runs[w], EmptyText(runs[w]))
    BY <1>0, <2>0, HarmlessEnds, HarmlessModel
  <2>2. \A t \in ToolNames : Harmless(runs[w], ToolCall(runs[w], t))
    BY <1>0, HarmlessModel
  <2> QED BY <1>7, <2>1, <2>2 DEF CallModel, Goes
<1>8. (\E q : Goes(q)) => \A v \in Workers : RunCause(runs[v])'
  BY <1>0, OneRunCause DEF Goes
<1> HIDE DEF Goes
<1> QED BY <1>1, <1>2, <1>3, <1>4, <1>5, <1>6, <1>7, <1>8 DEF BodyAction

LEMMA AskCause ==
    ASSUME TypeInv, \A v \in Workers : RunCause(runs[v]), Grows, AskAction
    PROVE  \A v \in Workers : RunCause(runs[v])'
<1>1. ASSUME NEW w \in Workers,
             \/ RequireConfirmation(w) \/ AwaitAnswer(w) \/ ExecuteTool(w)
             \/ ToolErrorAfterWrite(w) \/ ToolTimeout(w)
      PROVE  \E q : Harmless(runs[w], q) /\ runs' = [runs EXCEPT ![w] = q]
  <2>0. runs[w] \in Run
    BY DEF TypeInv, RunTypes
  <2>1. CASE RequireConfirmation(w)
    <3> DEFINE n == Len(asks) + 1
               q == [runs[w] EXCEPT !.pc = "await", !.ask = n]
    <3>1. runs' = [runs EXCEPT ![w] = q] /\ runs[w].pc = "ask"
      BY <2>1 DEF RequireConfirmation
    <3>2. q.msg = runs[w].msg /\ q.pc = "await" /\ q.aborted = runs[w].aborted
      <4> HIDE DEF n
      <4> QED BY <2>0 DEF Run
    <3> HIDE DEF q
    <3> QED BY <3>1, <3>2 DEF Harmless, Caught
  <2>2. CASE AwaitAnswer(w)
    <3>1. /\ Harmless(runs[w], [runs[w] EXCEPT !.pc = "tool"])
          /\ Harmless(runs[w], Conclude(runs[w], "declined"))
      BY <2>0, <2>2, HarmlessEnds, HarmlessStep DEF AwaitAnswer
    <3>2. \/ runs' = [runs EXCEPT ![w] = [runs[w] EXCEPT !.pc = "tool"]]
          \/ runs' = [runs EXCEPT ![w] = Conclude(runs[w], "declined")]
      BY <2>2 DEF AwaitAnswer
    <3> QED BY <3>1, <3>2
  <2>3. CASE ExecuteTool(w)
    BY <2>0, <2>3, HarmlessStep DEF ExecuteTool, Step
  <2>4. CASE ToolTimeout(w)
    BY <2>0, <2>4, HarmlessEnds DEF ToolTimeout
  <2>5. CASE ToolErrorAfterWrite(w)
    BY <2>0, <2>5, HarmlessEnds DEF ToolErrorAfterWrite
  <2> QED BY <1>1, <2>1, <2>2, <2>3, <2>4, <2>5
<1>2. ASSUME NEW n \in 1..Len(asks), LateWrite(n) \/ \E a \in Answers : Answer(n, a)
      PROVE  UNCHANGED runs
  BY <1>2 DEF LateWrite, Answer
<1>3. UNCHANGED runs => \A v \in Workers : RunCause(runs[v])'
  BY HarmlessRun
<1> QED BY <1>1, <1>2, <1>3, OneRunCause DEF AskAction

\* A handler that starts has a message in the queue; one that ends leaves it behind.
LEMMA JobCause ==
    ASSUME TypeInv, \A v \in Workers : RunCause(runs[v]), Grows, JobAction \/ EndAction
    PROVE  \A v \in Workers : RunCause(runs[v])'
<1>0. UNCHANGED runs => \A v \in Workers : RunCause(runs[v])'
  BY HarmlessRun
<1>1. ASSUME NEW w \in Workers, NEW m \in Messages, PickJob(w, m)
      PROVE  \A v \in Workers : RunCause(runs[v])'
  <2> DEFINE q == [Idle EXCEPT !.pc = "check", !.msg = m]
  <2>1. runs' = [runs EXCEPT ![w] = q] /\ UNCHANGED <<requests, excused>>
    BY <1>1 DEF PickJob
  <2>2. q.msg = m /\ ~Caught(q) /\ requests[m] = "queued"
    BY <1>1 DEF Idle, Caught, PickJob, TypeInv, JobTypes
  <2> HIDE DEF q
  <2>3. ASSUME NEW v \in Workers PROVE RunCause(runs[v])'
    <3>1. runs'[v] = IF v = w THEN q ELSE runs[v]
      BY <2>1 DEF TypeInv, RunTypes
    <3> QED BY <2>1, <2>2, <3>1 DEF RunCause, Caught
  <2> QED BY <2>3
<1>2. ASSUME NEW w \in Workers, FinishJob(w) \/ TellError(w) \/ ReportError(w)
      PROVE  \A v \in Workers : RunCause(runs[v])'
  BY <1>2, OneRunCause DEF FinishJob, TellError, ReportError
<1>3. ASSUME NEW w \in Workers, FailJob(w) PROVE \A v \in Workers : RunCause(runs[v])'
  <2> DEFINE q == [Idle EXCEPT !.pc = "tellError", !.msg = runs[w].msg]
  <2>1. Harmless(runs[w], q)
    BY <1>3 DEF Idle, Harmless, Caught, FailJob
  <2>2. runs' = [runs EXCEPT ![w] = q] \/ runs' = [runs EXCEPT ![w] = Idle]
    BY <1>3 DEF FailJob
  <2> HIDE DEF q
  <2> QED BY <2>1, <2>2, OneRunCause
<1>4. ASSUME NEW i \in Instances, Crash(i) PROVE \A v \in Workers : RunCause(runs[v])'
  <2>1. \A v \in Workers : runs'[v] \in {runs[v], Idle}
    BY <1>4 DEF Crash
  <2> QED BY <2>1, HarmlessRun
<1>5. ASSUME NEW m \in Messages, RetryDue(m) \/ Stall(m) PROVE UNCHANGED runs
  BY <1>5 DEF RetryDue, Stall
<1> QED BY <1>0, <1>1, <1>2, <1>3, <1>4, <1>5 DEF JobAction, EndAction

\* Whoever aborts a run excuses its message.
LEMMA AbortCause ==
    ASSUME TypeInv, \A v \in Workers : RunCause(runs[v]), Grows,
           UserAction \/ \E w \in Workers : CreateController(w)
    PROVE  \A v \in Workers : RunCause(runs[v])'
<1> DEFINE hit(v) == [runs[v] EXCEPT !.aborted = TRUE]
<1>0. \A v \in Workers : /\ runs[v] \in Run /\ RunOK(runs[v])
                         /\ hit(v).msg = runs[v].msg /\ hit(v).pc = runs[v].pc
  BY DEF TypeInv, RunTypes, Run
<1>1. ASSUME NEW v \in Workers, runs'[v] = hit(v), runs[v].pc # "idle", runs[v].msg \in excused'
      PROVE  RunCause(runs[v])'
  <2>1. requests'[runs[v].msg] = "queued"
    BY <1>0, <1>1 DEF RunOK, RunCause, Grows
  <2> HIDE DEF hit
  <2> QED BY <1>0, <1>1, <2>1 DEF RunCause, Caught
<1>2. ASSUME NEW i \in Instances, registry[i] \in Workers PROVE runs[registry[i]].pc # "idle"
  BY <1>2 DEF TypeInv, RunTypes, KeptOK, RunOK
<1>3. ASSUME NEW i \in Instances, Cancel(i), NEW v \in Workers PROVE RunCause(runs[v])'
  <2>1. CASE v = registry[i]
    <3>1. runs'[v] = hit(v) /\ excused' = excused \cup Open
      BY <1>3, <2>1 DEF Cancel
    <3>2. runs[v].pc # "idle" /\ runs[v].msg \in Open
      <4>1. runs[v].pc # "idle"
        BY <1>2, <2>1
      <4> QED BY <1>0, <4>1 DEF RunOK, RunCause, Open
    <3> HIDE DEF hit
    <3> QED BY <1>1, <3>1, <3>2
  <2>2. CASE v # registry[i]
    BY <1>3, <2>2, HarmlessRun DEF Cancel
  <2> QED BY <2>1, <2>2
<1>4. ASSUME NEW w \in Workers, CreateController(w), NEW v \in Workers PROVE RunCause(runs[v])'
  <2> DEFINE other == registry[InstanceOf[w]]
             q == [runs[w] EXCEPT !.pc = "context", !.iter = 1, !.inTry = TRUE]
  <2>1. CASE v = w
    <3>1. runs'[v] = q /\ runs[w].pc = "create"
      BY <1>4, <2>1 DEF CreateController
    <3>2. q.msg = runs[w].msg /\ q.pc = "context" /\ q.aborted = runs[w].aborted
      BY <1>0 DEF Run
    <3> HIDE DEF q
    <3>3. Harmless(runs[v], runs'[v])
      BY <2>1, <3>1, <3>2 DEF Harmless, Caught
    <3> QED BY <3>3, HarmlessRun
  <2>2. CASE v # w /\ v = other
    <3>1. runs'[v] = hit(v) /\ runs[v].msg \in excused'
      BY <1>4, <2>2, Sentinels DEF CreateController
    <3>2. runs[v].pc # "idle"
      BY <1>2, <2>2, Sentinels
    <3> HIDE DEF hit
    <3> QED BY <1>1, <3>1, <3>2
  <2>3. CASE v # w /\ v # other
    <3>1. runs'[v] = runs[v]
      BY <1>4, <2>3 DEF CreateController
    <3> QED BY <3>1, HarmlessRun
  <2> QED BY <2>1, <2>2, <2>3
<1>5. ASSUME \/ \E m \in Messages : RequestStep(m) \/ RequestError(m)
             \/ \E i \in Instances : Disconnect(i)
             \/ DeleteHistory \/ SetFlag \/ ExpireFlag
      PROVE  \A v \in Workers : RunCause(runs[v])'
  <2>1. UNCHANGED runs
    BY <1>5 DEF RequestStep, ClearFlag, SaveMessage, Enqueue, RequestError, Disconnect,
                DeleteHistory, SetFlag, ExpireFlag
  <2> QED BY <2>1, HarmlessRun
<1> QED BY <1>3, <1>4, <1>5 DEF UserAction

\* What a message is told in one more event.
LEMMA MoreTold ==
    ASSUME TypeInv, CancelledForCause, Grows, NEW m \in Messages, NEW out \in Outcomes,
           told' = [told EXCEPT ![m] = Append(@, out)], out = "cancelled" => m \in excused
    PROVE  CancelledForCause'
<1> SUFFICES ASSUME NEW n \in Messages, NEW k \in 1..Len(told'[n]), told'[n][k] = "cancelled"
             PROVE  n \in excused'
  BY DEF CancelledForCause
<1>1. told[n] \in Seq(Outcomes) /\ told'[n] = IF n = m THEN Append(told[n], out) ELSE told[n]
  BY DEF TypeInv, DataTypes
<1>2. CASE n # m
  BY <1>1, <1>2 DEF CancelledForCause, Grows
<1>3. CASE n = m /\ k \in 1..Len(told[n])
  <2>1. told'[n][k] = told[n][k]
    BY <1>1, <1>3
  <2> QED BY <1>3, <2>1 DEF CancelledForCause, Grows
<1>4. CASE n = m /\ k \notin 1..Len(told[n])
  <2>1. told'[n][k] = out
    BY <1>1, <1>4
  <2> QED BY <1>4, <2>1 DEF Grows
<1> QED BY <1>2, <1>3, <1>4

\* The client is told an end by the handler of its message, or by handleJobFailed.
LEMMA ToldKept ==
    ASSUME [Next]_vars
    PROVE  UNCHANGED told \/ \E w \in Workers : Tell(w) \/ TellError(w)
<1>1. ASSUME UserAction PROVE UNCHANGED told
  BY <1>1 DEF UserAction, RequestStep, ClearFlag, SaveMessage, Enqueue, RequestError, Cancel,
              Disconnect, DeleteHistory, SetFlag, ExpireFlag
<1>2. ASSUME \/ JobAction
             \/ \E w \in Workers : FinishJob(w) \/ FailJob(w) \/ ReportError(w)
             \/ \E i \in Instances : Crash(i)
      PROVE  UNCHANGED told
  BY <1>2 DEF JobAction, RetryDue, Stall, PickJob, FinishJob, FailJob, ReportError, Crash
<1>3. ASSUME AskAction PROVE UNCHANGED told
  BY <1>3 DEF AskAction, RequireConfirmation, AwaitAnswer, ExecuteTool,
              ToolErrorAfterWrite, ToolTimeout, LateWrite, Answer
<1>4. ASSUME NEW w \in Workers, BodyAction(w) \/ CreateController(w), ~Tell(w) PROVE UNCHANGED told
  BY <1>4 DEF BodyAction, CreateController, CheckCancelled, ConsumeFlag, BuildContext,
              ClassifyIntent, CallModel, ModelError, ModelCancelled, ToolError,
              FinalizeWithSummary, StoreError
<1>5. UNCHANGED vars => UNCHANGED told
  BY DEF vars
<1> QED BY <1>1, <1>2, <1>3, <1>4, <1>5, Actions DEF EndAction

LEMMA StepTold == ASSUME TypeInv, CauseInv, Grows, [Next]_vars PROVE CancelledForCause'
<1>0. CancelledForCause /\ \A w \in Workers : RunCause(runs[w])
  BY DEF CauseInv
<1>s. ASSUME UNCHANGED told PROVE CancelledForCause'
  BY <1>0, <1>s DEF CancelledForCause, Grows
<1>m. ASSUME NEW w \in Workers PROVE runs[w] \in Run /\ (runs[w].pc # "idle" => runs[w].msg \in Messages)
  BY DEF TypeInv, RunTypes, RunOK
<1>1. ASSUME NEW w \in Workers, Tell(w) PROVE CancelledForCause'
  <2>1. /\ runs[w].msg \in Messages /\ runs[w].out \in Outcomes
        /\ told' = [told EXCEPT ![runs[w].msg] = Append(@, runs[w].out)]
    BY <1>1, <1>m DEF Tell, Run
  <2>2. runs[w].out = "cancelled" => runs[w].msg \in excused
    BY <1>0, <1>1 DEF Tell, RunCause, Caught
  <2> QED BY <1>0, <2>1, <2>2, MoreTold
<1>2. ASSUME NEW w \in Workers, TellError(w) PROVE CancelledForCause'
  <2>1. /\ runs[w].msg \in Messages /\ "error" \in Outcomes
        /\ told' = [told EXCEPT ![runs[w].msg] = Append(@, "error")]
    BY <1>2, <1>m DEF TellError, Outcomes
  <2> QED BY <1>0, <2>1, MoreTold
<1> QED BY <1>s, <1>1, <1>2, ToldKept

\* A message is answered as cancelled only if, since it was sent, the user cancelled or
\* deleted something, or a newer run took its controller: an old cancel flag never hits
\* it (saveAndEnqueue, isCancelled, AbortControllerRegistry.create, the catch of handleChatJob).
THEOREM CancelledForCauseCorrect == Spec => []CancelledForCause
<1>1. ASSUME TypeInv, CauseInv, [Next]_vars PROVE CauseInv'
  <2>1. Grows
    BY <1>1, StepsGrow
  <2>2. FlagCause' /\ CancelledForCause'
    BY <1>1, <2>1, StepFlag, StepTold DEF CauseInv
  <2>3. \A w \in Workers : RunCause(runs[w])
    BY <1>1 DEF CauseInv
  <2>4. UNCHANGED vars => \A w \in Workers : RunCause(runs[w])'
    BY <1>1, <2>1, <2>3, HarmlessRun DEF vars
  <2>5. \A w \in Workers : RunCause(runs[w])'
    BY <1>1, <2>1, <2>3, <2>4, Actions, AbortCause, JobCause, AskCause, BodyCause
  <2> QED BY <2>2, <2>5 DEF CauseInv
<1>2. Spec => [](TypeInv /\ CauseInv)
  BY <1>1, InitTypes, InitCause, StepTypes, PTL DEF Spec
<1>3. CauseInv => CancelledForCause
  BY DEF CauseInv
<1> QED BY <1>2, <1>3, PTL

-----------------------------------------------------------------------------
(* One end and one write per message                                       *)

\* A job that Bull will hand out, or that waits for the stalled-job check.
Adrift(m) == \/ jobs[m].status \in {"none", "waiting", "delayed"}
             \/ jobs[m].status = "active" /\ jobs[m].worker = NoWorker
\* The handlers of a message at some steps, and the chances that one gets there.
At(steps, m) == {w \in Workers : runs[w].msg = m /\ runs[w].pc \in steps}
Spare(m) == IF Adrift(m) THEN 1 ELSE 0
Chances(steps, m) == Cardinality(At(steps, m)) + Spare(m)

\* Where a handler has the end of its message still to tell, and where it has its
\* write still to do, in this attempt or, with nothing else going wrong, in the next.
TellSteps == Pcs \ {"idle", "finish"}
WriteSteps == Pcs \ {"idle", "finish", "tellError", "summary", "tell"}

Deaths == acts["crash"] + acts["stall"]
Failures == acts["aiError"] + acts["storeError"] + acts["toolTimeout"] + acts["writeError"] + Deaths

LEMMA SetSizes ==
    ASSUME NEW S, IsFiniteSet(S), NEW T, NEW x
    PROVE  /\ Cardinality(S) \in Nat
           /\ T \subseteq S => IsFiniteSet(T) /\ Cardinality(T) <= Cardinality(S)
           /\ T \subseteq S \cup {x} => IsFiniteSet(T) /\ Cardinality(T) <= Cardinality(S) + 1
           /\ x \in S /\ T \subseteq S \ {x} => IsFiniteSet(T) /\ Cardinality(T) + 1 <= Cardinality(S)
<1>1. Cardinality(S) \in Nat
  BY FS_CardinalityType
<1>2. ASSUME NEW U, T \subseteq U, IsFiniteSet(U)
      PROVE  /\ IsFiniteSet(T) /\ Cardinality(T) <= Cardinality(U)
             /\ Cardinality(T) \in Nat /\ Cardinality(U) \in Nat
  BY <1>2, FS_Subset, FS_CardinalityType
<1>3. ASSUME T \subseteq S \cup {x}
      PROVE  IsFiniteSet(T) /\ Cardinality(T) <= Cardinality(S) + 1
  <2>1. IsFiniteSet(S \cup {x}) /\ (x \in S \/ Cardinality(S \cup {x}) = Cardinality(S) + 1)
    BY FS_AddElement
  <2>2. CASE x \in S
    <3>1. S \cup {x} = S
      BY <2>2
    <3> QED BY <1>1, <1>2, <1>3, <3>1
  <2>3. CASE x \notin S
    <3>1. IsFiniteSet(S \cup {x}) /\ Cardinality(S \cup {x}) = Cardinality(S) + 1
      BY <2>1, <2>3
    <3> QED BY <1>2, <1>3, <3>1
  <2> QED BY <2>2, <2>3
<1>4. ASSUME x \in S, T \subseteq S \ {x}
      PROVE  IsFiniteSet(T) /\ Cardinality(T) + 1 <= Cardinality(S)
  <2>1. IsFiniteSet(S \ {x}) /\ Cardinality(S \ {x}) = Cardinality(S) - 1
    BY <1>4, FS_RemoveElement
  <2> QED BY <1>1, <1>2, <1>4, <2>1
<1> QED BY <1>1, <1>2, <1>3, <1>4

LEMMA Counted ==
    ASSUME NEW steps, NEW m
    PROVE  /\ IsFiniteSet(At(steps, m)) /\ Cardinality(At(steps, m)) \in Nat
           /\ Spare(m) \in 0..1 /\ Chances(steps, m) \in Nat
<1>1. At(steps, m) \subseteq Workers
  BY DEF At
<1>2. IsFiniteSet(At(steps, m)) /\ Cardinality(At(steps, m)) \in Nat
  BY <1>1, BoundsAssumption, FS_Subset, FS_CardinalityType
<1> QED BY <1>2 DEF Spare, Chances
LEMMA CountedNext ==
    ASSUME NEW steps, NEW m
    PROVE  /\ IsFiniteSet(At(steps, m)') /\ Cardinality(At(steps, m)') \in Nat
           /\ Spare(m)' \in 0..1 /\ Chances(steps, m)' \in Nat
<1>1. At(steps, m)' \subseteq Workers
  BY DEF At
<1>2. IsFiniteSet(At(steps, m)') /\ Cardinality(At(steps, m)') \in Nat
  BY <1>1, BoundsAssumption, FS_Subset, FS_CardinalityType
<1> QED BY <1>2 DEF Spare, Chances

\* The ways a step changes the chances of a message.
LEMMA NoMore ==
    ASSUME NEW steps, NEW m, At(steps, m)' \subseteq At(steps, m), Spare(m)' <= Spare(m)
    PROVE  Chances(steps, m)' <= Chances(steps, m)
<1>1. Cardinality(At(steps, m)') <= Cardinality(At(steps, m))
  BY Counted, SetSizes
<1> QED BY <1>1, Counted, CountedNext DEF Chances
LEMMA OneMore ==
    ASSUME NEW steps, NEW m, NEW w,
           \/ At(steps, m)' \subseteq At(steps, m)
           \/ At(steps, m)' \subseteq At(steps, m) \cup {w} /\ Spare(m)' <= Spare(m)
    PROVE  Chances(steps, m)' <= Chances(steps, m) + 1
<1>1. At(steps, m)' \subseteq At(steps, m) => Cardinality(At(steps, m)') <= Cardinality(At(steps, m))
  BY Counted, SetSizes
<1>2. At(steps, m)' \subseteq At(steps, m) \cup {w}
      => Cardinality(At(steps, m)') <= Cardinality(At(steps, m)) + 1
  BY Counted, SetSizes
<1> QED BY <1>1, <1>2, Counted, CountedNext DEF Chances
LEMMA OneLess ==
    ASSUME NEW steps, NEW m, NEW w \in At(steps, m), At(steps, m)' \subseteq At(steps, m) \ {w},
           Spare(m)' <= Spare(m)
    PROVE  Chances(steps, m)' + 1 <= Chances(steps, m)
<1>1. Cardinality(At(steps, m)') + 1 <= Cardinality(At(steps, m))
  BY Counted, SetSizes
<1> QED BY <1>1, Counted, CountedNext DEF Chances
\* A handler takes the job or gives it back.
LEMMA HandedOver ==
    ASSUME NEW steps, NEW m, NEW w,
           \/ /\ w \in At(steps, m) /\ At(steps, m)' \subseteq At(steps, m) \ {w}
           \/ /\ At(steps, m)' \subseteq At(steps, m) \cup {w} /\ Spare(m) = 1 /\ Spare(m)' = 0
    PROVE  Chances(steps, m)' <= Chances(steps, m)
<1>1. w \in At(steps, m) /\ At(steps, m)' \subseteq At(steps, m) \ {w}
      => Cardinality(At(steps, m)') + 1 <= Cardinality(At(steps, m))
  BY Counted, SetSizes
<1>2. At(steps, m)' \subseteq At(steps, m) \cup {w}
      => Cardinality(At(steps, m)') <= Cardinality(At(steps, m)) + 1
  BY Counted, SetSizes
<1> QED BY <1>1, <1>2, Counted, CountedNext DEF Chances

\* One handler moves, and Bull's table stays as it is.
LEMMA OneMoves ==
    ASSUME RunTypes, NEW w \in Workers, NEW q, runs' = [runs EXCEPT ![w] = q], UNCHANGED jobs,
           NEW steps, NEW m
    PROVE  /\ \/ q.pc \notin steps
              \/ runs[w].pc \in steps /\ q.msg = runs[w].msg
              => Chances(steps, m)' <= Chances(steps, m)
           /\ runs[w].pc \in steps /\ q.pc \notin steps /\ runs[w].msg = m
              => Chances(steps, m)' + 1 <= Chances(steps, m)
           /\ Chances(steps, m)' <= Chances(steps, m) + 1
<1>1. \A v \in Workers : runs'[v] = IF v = w THEN q ELSE runs[v]
  BY DEF RunTypes
<1>2. Spare(m)' = Spare(m) /\ Spare(m) \in 0..1
  BY DEF Spare, Adrift
<1>3. At(steps, m)' \subseteq At(steps, m) \cup {w}
  BY <1>1 DEF At
<1>4. ASSUME \/ q.pc \notin steps
             \/ runs[w].pc \in steps /\ q.msg = runs[w].msg
      PROVE  At(steps, m)' \subseteq At(steps, m)
  BY <1>1, <1>4 DEF At
<1>5. ASSUME runs[w].pc \in steps, q.pc \notin steps, runs[w].msg = m
      PROVE  w \in At(steps, m) /\ At(steps, m)' \subseteq At(steps, m) \ {w}
  BY <1>1, <1>5 DEF At
<1>6. Spare(m)' <= Spare(m)
  BY <1>2
<1>7. Chances(steps, m)' <= Chances(steps, m) + 1
  BY <1>3, <1>6, OneMore
<1>8. ASSUME \/ q.pc \notin steps
             \/ runs[w].pc \in steps /\ q.msg = runs[w].msg
      PROVE  Chances(steps, m)' <= Chances(steps, m)
  BY <1>4, <1>6, <1>8, NoMore
<1>9. ASSUME runs[w].pc \in steps, q.pc \notin steps, runs[w].msg = m
      PROVE  Chances(steps, m)' + 1 <= Chances(steps, m)
  BY <1>5, <1>6, <1>9, OneLess
<1> QED BY <1>7, <1>8, <1>9

\* A step counts one interference or none.
LEMMA ActsMove == ASSUME [Next]_vars PROVE (\E k : Strike(k)) \/ UNCHANGED acts
<1>1. ASSUME UserAction PROVE (\E k : Strike(k)) \/ UNCHANGED acts
  BY <1>1 DEF UserAction, RequestStep, ClearFlag, SaveMessage, Enqueue, RequestError, Cancel,
              Disconnect, DeleteHistory, SetFlag, ExpireFlag
<1>2. ASSUME JobAction \/ EndAction PROVE (\E k : Strike(k)) \/ UNCHANGED acts
  BY <1>2 DEF JobAction, EndAction, RetryDue, Stall, PickJob, FinishJob, FailJob, TellError,
              ReportError, Crash
<1>3. ASSUME AskAction PROVE (\E k : Strike(k)) \/ UNCHANGED acts
  BY <1>3 DEF AskAction, RequireConfirmation, AwaitAnswer, ExecuteTool,
              ToolErrorAfterWrite, ToolTimeout, LateWrite,
              Answer
<1>4. ASSUME NEW w \in Workers, BodyAction(w) \/ CreateController(w)
      PROVE  (\E k : Strike(k)) \/ UNCHANGED acts
  BY <1>4 DEF BodyAction, CreateController, CheckCancelled, ConsumeFlag, BuildContext,
              ClassifyIntent, CallModel, ModelError, ModelCancelled, ToolError,
              FinalizeWithSummary, Tell, StoreError
<1> QED BY <1>1, <1>2, <1>3, <1>4, Actions DEF vars
\* All that is counted only grows.
LEMMA ActsGrow ==
    ASSUME TypeInv, [Next]_vars
    PROVE  /\ Deaths \in Nat /\ Failures \in Nat /\ Deaths' \in Nat /\ Failures' \in Nat
           /\ Deaths <= Deaths' /\ Failures <= Failures'
<1>1. acts \in [ActKinds -> Nat]
  BY DEF TypeInv, DataTypes
<1>2. (\E k : Strike(k)) \/ UNCHANGED acts
  BY ActsMove
<1>3. ASSUME NEW k, Strike(k) PROVE \A l \in ActKinds : acts[l] <= acts'[l] /\ acts'[l] \in Nat
  BY <1>1, <1>3 DEF Strike
<1>4. \A l \in ActKinds : acts[l] <= acts'[l] /\ acts'[l] \in Nat /\ acts[l] \in Nat
  BY <1>1, <1>2, <1>3
<1>5. {"crash", "stall", "aiError", "storeError", "toolTimeout", "writeError"} \subseteq ActKinds
  BY DEF ActKinds
<1> QED BY <1>4, <1>5 DEF Deaths, Failures
LEMMA Charged ==
    ASSUME TypeInv, NEW k, Strike(k)
    PROVE  /\ k \in {"crash", "stall"} => Deaths + 1 <= Deaths'
           /\ k \in {"crash", "stall", "aiError", "storeError", "toolTimeout", "writeError"}
              => Failures + 1 <= Failures'
<1>1. acts \in [ActKinds -> Nat] /\ k \in ActKinds
  BY BoundsAssumption DEF TypeInv, DataTypes, Strike
<1>2. {"crash", "stall", "aiError", "storeError", "toolTimeout", "writeError"} \subseteq ActKinds
  BY DEF ActKinds
<1>3. /\ acts'[k] = acts[k] + 1
      /\ \A l \in ActKinds : l # k => acts'[l] = acts[l]
      /\ \A l \in ActKinds : acts[l] \in Nat
  BY <1>1 DEF Strike
<1> QED BY <1>2, <1>3 DEF Deaths, Failures

\* The steps both counts treat alike.
Both(steps) == /\ {"check", "ask", "await", "tool", "create", "context", "throw"} \subseteq steps
               /\ "idle" \notin steps /\ "finish" \notin steps
LEMMA BothSteps == Both(TellSteps) /\ Both(WriteSteps)
BY DEF Both, TellSteps, WriteSteps, Pcs

\* A request or the user does not change the handlers' steps.
LEMMA UserChances ==
    ASSUME TypeInv, UserAction, NEW steps, NEW m \in Messages
    PROVE  Chances(steps, m)' <= Chances(steps, m)
<1>0. RunTypes /\ JobTypes
  BY DEF TypeInv
<1>1. \A v \in Workers : runs'[v].pc = runs[v].pc /\ runs'[v].msg = runs[v].msg
  <2> DEFINE hit(v) == [runs[v] EXCEPT !.aborted = TRUE]
  <2>1. \A v \in Workers : hit(v).pc = runs[v].pc /\ hit(v).msg = runs[v].msg
    BY <1>0 DEF RunTypes, Run
  <2>2. \A v \in Workers : runs'[v] \in {runs[v], hit(v)}
    BY DEF UserAction, RequestStep, ClearFlag, SaveMessage, Enqueue, RequestError, Cancel,
           Disconnect, DeleteHistory, SetFlag, ExpireFlag
  <2> HIDE DEF hit
  <2> QED BY <2>1, <2>2
<1>2. jobs'[m] = jobs[m] \/ Enqueue(m)
  BY <1>0 DEF UserAction, RequestStep, ClearFlag, SaveMessage, Enqueue, RequestError, Cancel,
         Disconnect, DeleteHistory, SetFlag, ExpireFlag, JobTypes
<1>3. Enqueue(m) => jobs[m].status = "none"
  BY <1>0 DEF Enqueue, JobTypes
<1>4. Spare(m)' <= Spare(m)
  BY <1>2, <1>3 DEF Spare, Adrift
<1>5. At(steps, m)' \subseteq At(steps, m)
  BY <1>1 DEF At
<1> QED BY <1>4, <1>5, NoMore

\* Bull hands a job out, retries it, or takes it from a handler.
LEMMA JobChances ==
    ASSUME TypeInv, [Next]_vars, JobAction, NEW steps, Both(steps), NEW m \in Messages
    PROVE  Chances(steps, m)' + Deaths <= Chances(steps, m) + Deaths'
<1>0. /\ RunTypes /\ jobs \in [Messages -> Job] /\ runs \in [Workers -> Run]
      /\ \A n \in Messages : jobs[n].worker \in Workers => jobs[n].status = "active"
  BY DEF TypeInv, JobTypes, RunTypes
<1>n. /\ Deaths \in Nat /\ Deaths' \in Nat /\ Deaths <= Deaths'
      /\ Chances(steps, m) \in Nat /\ Chances(steps, m)' \in Nat
  BY ActsGrow, Counted, CountedNext
<1>s. Chances(steps, m)' <= Chances(steps, m)
      => Chances(steps, m)' + Deaths <= Chances(steps, m) + Deaths'
  BY <1>n
<1>1. ASSUME NEW n \in Messages, RetryDue(n)
      PROVE  Chances(steps, m)' <= Chances(steps, m)
  <2> DEFINE j == [jobs[n] EXCEPT !.status = "waiting"]
  <2>1. jobs[n].status = "delayed" /\ jobs' = [jobs EXCEPT ![n] = j] /\ UNCHANGED runs
    BY <1>1 DEF RetryDue
  <2> HIDE DEF j
  <2>2. Spare(m)' <= Spare(m)
    BY <1>0, <2>1 DEF Spare, Adrift
  <2>3. At(steps, m)' \subseteq At(steps, m)
    BY <2>1 DEF At
  <2> QED BY <2>2, <2>3, NoMore
<1>2. ASSUME NEW n \in Messages, Stall(n)
      PROVE  Chances(steps, m)' + Deaths <= Chances(steps, m) + Deaths'
  <2>1. At(steps, m)' \subseteq At(steps, m) /\ jobs[n].status = "active"
    BY <1>2 DEF Stall, At
  <2>2. \A k \in Messages : k # n => jobs'[k] = jobs[k]
    BY <1>0, <1>2 DEF Stall
  <2>3. CASE jobs[n].worker = NoWorker \/ n # m
    <3>1. Spare(m)' <= Spare(m)
      BY <2>1, <2>2, <2>3 DEF Spare, Adrift
    <3> QED BY <1>s, <2>1, <3>1, NoMore
  <2>4. CASE jobs[n].worker # NoWorker
    <3>1. Strike("stall")
      BY <1>2, <2>4 DEF Stall
    <3>2. Deaths + 1 <= Deaths'
      BY <3>1, Charged
    <3>3. Chances(steps, m)' <= Chances(steps, m) + 1
      BY <2>1, OneMore
    <3> QED BY <1>n, <3>2, <3>3
  <2> QED BY <2>3, <2>4
<1>3. ASSUME NEW w \in Workers, NEW n \in Messages, PickJob(w, n)
      PROVE  Chances(steps, m)' <= Chances(steps, m)
  <2> DEFINE q == [Idle EXCEPT !.pc = "check", !.msg = n]
  <2>1. /\ jobs[n].status = "waiting" /\ runs' = [runs EXCEPT ![w] = q]
        /\ jobs' = [jobs EXCEPT ![n].status = "active", ![n].worker = w]
    BY <1>3 DEF PickJob
  <2>2. q.msg = n
    BY DEF Idle
  <2> HIDE DEF q
  <2>3. \A v \in Workers : runs'[v] = IF v = w THEN q ELSE runs[v]
    BY <1>0, <2>1
  <2>4. CASE n = m
    <3>1. At(steps, m)' \subseteq At(steps, m) \cup {w}
      BY <2>3 DEF At
    <3>2. Spare(m) = 1 /\ Spare(m)' = 0
      BY <1>0, <2>1, <2>4, Sentinels DEF Spare, Adrift, Job
    <3> QED BY <3>1, <3>2, HandedOver
  <2>5. CASE n # m
    <3>1. At(steps, m)' \subseteq At(steps, m)
      BY <2>2, <2>3, <2>5 DEF At
    <3>2. Spare(m)' <= Spare(m)
      BY <1>0, <2>1, <2>5 DEF Spare, Adrift
    <3> QED BY <3>1, <3>2, NoMore
  <2> QED BY <2>4, <2>5
<1> QED BY <1>s, <1>1, <1>2, <1>3 DEF JobAction

\* A handler ends, fails its job or dies.
LEMMA EndChances ==
    ASSUME TypeInv, [Next]_vars, NEW steps, Both(steps), NEW m \in Messages,
           \/ \E w \in Workers : FinishJob(w) \/ FailJob(w)
           \/ \E i \in Instances : Crash(i)
    PROVE  Chances(steps, m)' + Deaths <= Chances(steps, m) + Deaths'
<1>0. /\ RunTypes /\ jobs \in [Messages -> Job] /\ runs \in [Workers -> Run]
      /\ \A n \in Messages : jobs[n].worker \in Workers => jobs[n].status = "active"
  BY DEF TypeInv, JobTypes, RunTypes
<1>n. /\ Deaths \in Nat /\ Deaths' \in Nat /\ Deaths <= Deaths'
      /\ Chances(steps, m) \in Nat /\ Chances(steps, m)' \in Nat
  BY ActsGrow, Counted, CountedNext
<1>s. Chances(steps, m)' <= Chances(steps, m)
      => Chances(steps, m)' + Deaths <= Chances(steps, m) + Deaths'
  BY <1>n
<1>i. Idle.pc \notin steps
  BY DEF Idle, Both
<1>h. ASSUME NEW w \in Workers, Holds(w), NEW n, n = runs[w].msg, n \in Messages
      PROVE  ~Adrift(n)
  BY <1>0, <1>h, Sentinels DEF Holds, Adrift
<1>1. ASSUME NEW w \in Workers, FinishJob(w)
      PROVE  Chances(steps, m)' <= Chances(steps, m)
  <2>1. runs' = [runs EXCEPT ![w] = Idle] /\ runs[w].msg \in Messages
    BY <1>0, <1>1 DEF FinishJob, RunTypes, RunOK
  <2>2. At(steps, m)' \subseteq At(steps, m)
    BY <1>0, <1>i, <2>1 DEF At
  <2>3. Spare(m)' <= Spare(m)
    <3>1. CASE Holds(w)
      <4>1. jobs' = [jobs EXCEPT ![runs[w].msg].status = "completed",
                                 ![runs[w].msg].worker = NoWorker]
        BY <1>1, <3>1 DEF FinishJob
      <4>2. /\ jobs'[runs[w].msg].status = "completed"
            /\ \A n \in Messages : n # runs[w].msg => jobs'[n] = jobs[n]
        BY <1>0, <2>1, <4>1 DEF Job
      <4> QED BY <4>2 DEF Spare, Adrift
    <3>2. CASE ~Holds(w)
      BY <1>1, <3>2 DEF FinishJob, Spare, Adrift
    <3> QED BY <3>1, <3>2
  <2> QED BY <2>2, <2>3, NoMore
<1>2. ASSUME NEW w \in Workers, FailJob(w)
      PROVE  Chances(steps, m)' <= Chances(steps, m)
  <2> DEFINE n == runs[w].msg
             last == LastAttempt(n)
             q == [Idle EXCEPT !.pc = "tellError", !.msg = n]
  <2>1. /\ runs[w].pc = "throw" /\ n \in Messages
        /\ runs' = [runs EXCEPT ![w] = IF Holds(w) /\ last THEN q ELSE Idle]
    BY <1>0, <1>2 DEF FailJob, RunTypes, RunOK
  <2>2. q.msg = n
    BY DEF Idle
  <2>3. runs[w].pc \in steps
    BY <2>1 DEF Both
  <2>4. ASSUME ~Holds(w) PROVE UNCHANGED jobs
    BY <1>2, <2>4 DEF FailJob
  <2>5. ASSUME Holds(w)
        PROVE  /\ jobs'[n].status = IF last THEN "failed" ELSE "delayed"
               /\ \A k \in Messages : k # n => jobs'[k] = jobs[k]
    <3>1. jobs' = [jobs EXCEPT ![n].made = @ + 1, ![n].worker = NoWorker,
                               ![n].status = IF last THEN "failed" ELSE "delayed"]
      BY <1>2, <2>5 DEF FailJob
    <3> HIDE DEF last, n
    <3> QED BY <1>0, <2>1, <3>1 DEF Job
  <2>6. Holds(w) => ~Adrift(n)
    BY <1>h, <2>1
  <2> HIDE DEF n, last, q
  <2>7. \A v \in Workers : runs'[v] = IF v = w THEN (IF Holds(w) /\ last THEN q ELSE Idle) ELSE runs[v]
    BY <1>0, <2>1
  <2>8. CASE n # m
    <3>1. At(steps, m)' \subseteq At(steps, m)
      BY <1>i, <2>2, <2>7, <2>8 DEF At
    <3>2. Spare(m)' <= Spare(m)
      BY <2>4, <2>5, <2>8 DEF Spare, Adrift
    <3> QED BY <3>1, <3>2, NoMore
  <2>9. CASE n = m /\ (Holds(w) => last)
    <3>1. At(steps, m)' \subseteq At(steps, m)
      <4>1. w \in At(steps, m)
        BY <2>3, <2>9 DEF At, n
      <4> QED BY <2>7, <4>1 DEF At
    <3>2. Spare(m)' <= Spare(m)
      <4>1. CASE Holds(w)
        BY <2>5, <2>9, <4>1 DEF Spare, Adrift
      <4>2. CASE ~Holds(w)
        BY <2>4, <4>2 DEF Spare, Adrift
      <4> QED BY <4>1, <4>2
    <3> QED BY <3>1, <3>2, NoMore
  <2>10. CASE n = m /\ Holds(w) /\ ~last
    <3>1. w \in At(steps, m)
      BY <2>3, <2>10 DEF At, n
    <3>2. At(steps, m)' \subseteq At(steps, m) \ {w}
      BY <1>i, <2>7, <2>10 DEF At
    <3> QED BY <3>1, <3>2, HandedOver
  <2> QED BY <2>8, <2>9, <2>10
<1>3. ASSUME NEW i \in Instances, Crash(i)
      PROVE  Chances(steps, m)' + Deaths <= Chances(steps, m) + Deaths'
  <2>1. Strike("crash") /\ \A v \in Workers : runs'[v] \in {Idle, runs[v]}
    BY <1>3 DEF Crash
  <2>2. At(steps, m)' \subseteq At(steps, m)
    BY <1>i, <2>1 DEF At
  <2>3. Chances(steps, m)' <= Chances(steps, m) + 1
    BY <2>2, OneMore
  <2>4. Deaths + 1 <= Deaths'
    BY <2>1, Charged
  <2> QED BY <1>n, <2>3, <2>4
<1> QED BY <1>s, <1>1, <1>2, <1>3

\* A newer run takes the controller of the user.
LEMMA CreateChances ==
    ASSUME TypeInv, NEW w \in Workers, CreateController(w), NEW steps, Both(steps), NEW m \in Messages
    PROVE  Chances(steps, m)' <= Chances(steps, m)
<1> DEFINE q == [runs[w] EXCEPT !.pc = "context", !.iter = 1, !.inTry = TRUE]
           hit(v) == [runs[v] EXCEPT !.aborted = TRUE]
<1>1. runs[w].pc = "create" /\ q.msg = runs[w].msg
  BY DEF TypeInv, RunTypes, Run, CreateController
<1>2. \A v \in Workers : hit(v).pc = runs[v].pc /\ hit(v).msg = runs[v].msg
  BY DEF TypeInv, RunTypes, Run
<1>3. UNCHANGED jobs /\ \A v \in Workers : \/ v = w /\ runs'[v] = q
                                          \/ runs'[v] \in {runs[v], hit(v)}
  BY DEF CreateController
<1> HIDE DEF q, hit
<1>4. At(steps, m)' \subseteq At(steps, m)
  BY <1>1, <1>2, <1>3 DEF At, Both
<1>5. Spare(m)' <= Spare(m)
  BY <1>3 DEF Spare, Adrift
<1> QED BY <1>4, <1>5, NoMore

\* A step of a handler between two others. Only a failure takes it from its summary or
\* its last event back to where it has a write to do.
LEMMA BodyMoves ==
    ASSUME TypeInv, NEW w \in Workers, BodyAction(w)
    PROVE  /\ UNCHANGED <<jobs, asks>> /\ runs[w].pc \in TellSteps
           /\ \E q : /\ runs' = [runs EXCEPT ![w] = q] /\ q.msg = runs[w].msg
                     /\ \/ runs[w].pc \in WriteSteps \/ q.pc \notin WriteSteps
                        \/ Strike("aiError") \/ Strike("storeError")
<1>1. PICK q \in Run : Continues(runs[w], q) /\ runs' = [runs EXCEPT ![w] = q]
  BY BodyRuns DEF TypeInv
<1>2. UNCHANGED <<jobs, asks>> /\ runs[w].pc \in TellSteps
  BY DEF BodyAction, CheckCancelled, ConsumeFlag, BuildContext, ClassifyIntent, CallModel,
         ModelError, ModelCancelled, ToolError, FinalizeWithSummary, Tell, StoreError,
         TellSteps, Pcs
<1>3. runs'[w] = q
  BY <1>1 DEF TypeInv, RunTypes
<1>4. \A out : Conclude(runs[w], out).pc \notin WriteSteps
  BY DEF Conclude, Idle, WriteSteps
<1>5. ASSUME FinalizeWithSummary(w) \/ ModelCancelled(w) PROVE q.pc \notin WriteSteps
  BY <1>3, <1>4, <1>5 DEF FinalizeWithSummary, ModelCancelled, TypeInv, RunTypes
<1>6. ASSUME Tell(w) PROVE q.pc \notin WriteSteps
  BY <1>3, <1>6 DEF Tell, Step, TypeInv, RunTypes, Run, WriteSteps
<1>7. ASSUME ModelError(w) \/ StoreError(w) PROVE Strike("aiError") \/ Strike("storeError")
  BY <1>7 DEF ModelError, StoreError
<1>8. ASSUME CheckCancelled(w) \/ ConsumeFlag(w) \/ BuildContext(w) \/ ClassifyIntent(w)
             \/ CallModel(w) \/ ToolError(w)
      PROVE  runs[w].pc \in WriteSteps
  BY <1>8 DEF CheckCancelled, ConsumeFlag, BuildContext, ClassifyIntent, CallModel, ToolError,
              WriteSteps, Pcs
<1> QED BY <1>1, <1>2, <1>5, <1>6, <1>7, <1>8 DEF BodyAction, Continues

\* A confirmation is asked for, answered, and used.
LEMMA AskMoves ==
    ASSUME TypeInv, NEW w \in Workers,
           RequireConfirmation(w) \/ AwaitAnswer(w) \/ ExecuteTool(w)
             \/ ToolErrorAfterWrite(w) \/ ToolTimeout(w)
    PROVE  /\ UNCHANGED jobs /\ runs[w].pc \in {"ask", "await", "tool"}
           /\ \E q : /\ runs' = [runs EXCEPT ![w] = q] /\ q.msg = runs[w].msg
                     /\ ExecuteTool(w) => q.pc = "summary"
<1>1. UNCHANGED jobs /\ runs[w].pc \in {"ask", "await", "tool"} /\ runs[w] \in Run
  BY DEF RequireConfirmation, AwaitAnswer, ExecuteTool,
         ToolErrorAfterWrite, ToolTimeout, TypeInv, RunTypes
<1>2. ASSUME RequireConfirmation(w)
      PROVE  \E q : runs' = [runs EXCEPT ![w] = q] /\ q.msg = runs[w].msg
  <2> DEFINE n == Len(asks) + 1
             q == [runs[w] EXCEPT !.pc = "await", !.ask = n]
  <2>1. runs' = [runs EXCEPT ![w] = q]
    BY <1>2 DEF RequireConfirmation
  <2>2. q.msg = runs[w].msg
    <3> HIDE DEF n
    <3> QED BY <1>1 DEF Run
  <2> HIDE DEF q
  <2> QED BY <2>1, <2>2
<1>3. ASSUME AwaitAnswer(w)
      PROVE  \E q : runs' = [runs EXCEPT ![w] = q] /\ q.msg = runs[w].msg
  <2> DEFINE q == [runs[w] EXCEPT !.pc = "tool"]
             c == Conclude(runs[w], "declined")
  <2>1. q.msg = runs[w].msg /\ c.msg = runs[w].msg
    BY <1>1 DEF Run, Conclude, Idle
  <2>2. runs' = [runs EXCEPT ![w] = q] \/ runs' = [runs EXCEPT ![w] = c]
    BY <1>3 DEF AwaitAnswer
  <2> HIDE DEF q, c
  <2> QED BY <2>1, <2>2
<1>4. ASSUME ToolErrorAfterWrite(w) \/ ToolTimeout(w)
      PROVE  \E q : runs' = [runs EXCEPT ![w] = q] /\ q.msg = runs[w].msg
  BY <1>1, <1>4, IterationRun DEF ToolErrorAfterWrite, ToolTimeout, Continues
<1>5. ASSUME ExecuteTool(w)
      PROVE  \E q : runs' = [runs EXCEPT ![w] = q] /\ q.msg = runs[w].msg /\ q.pc = "summary"
  <2> DEFINE q == [runs[w] EXCEPT !.pc = "summary"]
  <2>1. q.msg = runs[w].msg /\ q.pc = "summary"
    BY <1>1 DEF Run
  <2>2. runs' = [runs EXCEPT ![w] = q]
    BY <1>5 DEF ExecuteTool, Step
  <2> HIDE DEF q
  <2> QED BY <2>1, <2>2
<1> QED BY <1>1, <1>2, <1>3, <1>4, <1>5

LEMMA AskChances ==
    ASSUME TypeInv, AskAction, NEW steps, Both(steps), NEW m \in Messages
    PROVE  Chances(steps, m)' <= Chances(steps, m)
<1>1. ASSUME NEW w \in Workers,
             RequireConfirmation(w) \/ AwaitAnswer(w) \/ ExecuteTool(w)
               \/ ToolErrorAfterWrite(w) \/ ToolTimeout(w)
      PROVE  Chances(steps, m)' <= Chances(steps, m)
  <2>1. PICK q : runs' = [runs EXCEPT ![w] = q] /\ q.msg = runs[w].msg
    BY <1>1, AskMoves
  <2>2. UNCHANGED jobs /\ runs[w].pc \in steps
    BY <1>1, AskMoves DEF Both
  <2> QED BY <2>1, <2>2, OneMoves DEF TypeInv
<1>2. ASSUME NEW n \in 1..Len(asks), LateWrite(n) \/ \E a \in Answers : Answer(n, a)
      PROVE  Chances(steps, m)' <= Chances(steps, m)
  <2>1. UNCHANGED <<runs, jobs>>
    BY <1>2 DEF LateWrite, Answer
  <2>2. At(steps, m)' \subseteq At(steps, m) /\ Spare(m)' <= Spare(m)
    BY <2>1 DEF At, Spare, Adrift
  <2> QED BY <2>2, NoMore
<1> QED BY <1>1, <1>2 DEF AskAction

\* What is told or written, and the chances of more, only grow by a death or a failure.
LEMMA ToldStep ==
    ASSUME TypeInv, [Next]_vars, NEW m \in Messages
    PROVE  /\ Len(told'[m]) \in Nat /\ Len(told[m]) \in Nat
           /\ Len(told'[m]) + Chances(TellSteps, m)' + Deaths
                <= Len(told[m]) + Chances(TellSteps, m) + Deaths'
<1>n. /\ Deaths \in Nat /\ Deaths' \in Nat /\ Deaths <= Deaths'
      /\ Chances(TellSteps, m) \in Nat /\ Chances(TellSteps, m)' \in Nat
      /\ Len(told[m]) \in Nat /\ Both(TellSteps)
  BY ActsGrow, Counted, CountedNext, BothSteps DEF TypeInv, DataTypes
<1>i. Idle.pc \notin TellSteps
  BY DEF Idle, TellSteps
<1>1. ASSUME NEW w \in Workers, Tell(w) \/ TellError(w)
      PROVE  /\ Len(told'[m]) \in Nat
             /\ Len(told'[m]) + Chances(TellSteps, m)' <= Len(told[m]) + Chances(TellSteps, m)
  <2>1. PICK q, out : /\ runs' = [runs EXCEPT ![w] = q] /\ q.pc \notin TellSteps
                      /\ told' = [told EXCEPT ![runs[w].msg] = Append(@, out)]
    <3> DEFINE f == [runs[w] EXCEPT !.pc = "finish"]
    <3>1. f.pc \notin TellSteps
      BY DEF TypeInv, RunTypes, Run, TellSteps
    <3>2. \/ runs' = [runs EXCEPT ![w] = f]
          \/ runs' = [runs EXCEPT ![w] = Idle]
      BY <1>1 DEF Tell, TellError, Step
    <3>3. \E out : told' = [told EXCEPT ![runs[w].msg] = Append(@, out)]
      BY <1>1 DEF Tell, TellError
    <3> HIDE DEF f
    <3> QED BY <1>i, <3>1, <3>2, <3>3
  <2>2. UNCHANGED jobs /\ runs[w].pc \in TellSteps
    BY <1>1 DEF Tell, TellError, TellSteps, Pcs
  <2>3. told'[m] = IF m = runs[w].msg THEN Append(told[m], out) ELSE told[m]
    BY <2>1 DEF TypeInv, DataTypes
  <2>4. CASE m = runs[w].msg
    <3>1. Chances(TellSteps, m)' + 1 <= Chances(TellSteps, m)
      BY <2>1, <2>2, <2>4, OneMoves DEF TypeInv
    <3>2. Len(told'[m]) = Len(told[m]) + 1
      BY <2>3, <2>4 DEF TypeInv, DataTypes
    <3> QED BY <1>n, <3>1, <3>2
  <2>5. CASE m # runs[w].msg
    <3>1. Chances(TellSteps, m)' <= Chances(TellSteps, m)
      BY <2>1, OneMoves, <2>2 DEF TypeInv
    <3> QED BY <1>n, <2>3, <2>5, <3>1
  <2> QED BY <2>4, <2>5
<1>2. ASSUME ~ \E w \in Workers : Tell(w) \/ TellError(w)
      PROVE  Chances(TellSteps, m)' + Deaths <= Chances(TellSteps, m) + Deaths'
  <2>s. Chances(TellSteps, m)' <= Chances(TellSteps, m)
        => Chances(TellSteps, m)' + Deaths <= Chances(TellSteps, m) + Deaths'
    BY <1>n
  <2>1. ASSUME NEW w \in Workers, BodyAction(w)
        PROVE  Chances(TellSteps, m)' <= Chances(TellSteps, m)
    <3>1. PICK q : runs' = [runs EXCEPT ![w] = q] /\ q.msg = runs[w].msg
      BY <2>1, BodyMoves
    <3>2. UNCHANGED jobs /\ runs[w].pc \in TellSteps
      BY <2>1, BodyMoves
    <3> QED BY <3>1, <3>2, OneMoves DEF TypeInv
  <2>2. ASSUME NEW w \in Workers, ReportError(w)
        PROVE  Chances(TellSteps, m)' <= Chances(TellSteps, m)
    BY <1>i, <2>2, OneMoves DEF ReportError, TypeInv
  <2>3. ASSUME UNCHANGED vars PROVE Chances(TellSteps, m)' <= Chances(TellSteps, m)
    <3>1. At(TellSteps, m)' \subseteq At(TellSteps, m) /\ Spare(m)' <= Spare(m)
      BY <2>3 DEF vars, At, Spare, Adrift
    <3> QED BY <3>1, NoMore
  <2>4. ASSUME UserAction \/ AskAction \/ \E w \in Workers : CreateController(w)
        PROVE  Chances(TellSteps, m)' <= Chances(TellSteps, m)
    BY <1>n, <2>4, UserChances, AskChances, CreateChances
  <2>5. ASSUME \/ JobAction
               \/ \E w \in Workers : FinishJob(w) \/ FailJob(w)
               \/ \E i \in Instances : Crash(i)
        PROVE  Chances(TellSteps, m)' + Deaths <= Chances(TellSteps, m) + Deaths'
    BY <1>n, <2>5, JobChances, EndChances
  <2> QED BY <1>2, <2>s, <2>1, <2>2, <2>3, <2>4, <2>5, Actions DEF EndAction
<1>3. CASE \E w \in Workers : Tell(w) \/ TellError(w)
  BY <1>n, <1>1, <1>3
<1>4. CASE ~ \E w \in Workers : Tell(w) \/ TellError(w)
  <2>1. UNCHANGED told
    BY <1>4, ToldKept
  <2> QED BY <1>n, <1>2, <1>4, <2>1
<1> QED BY <1>3, <1>4

\* The chances of a message at the start: the job it may become.
LEMMA InitChances ==
    ASSUME Init, NEW steps, Both(steps), NEW m \in Messages
    PROVE  Chances(steps, m) = 1
<1>1. At(steps, m) = {}
  BY DEF Init, At, Idle, Both
<1>2. Spare(m) = 1
  BY DEF Init, Spare, Adrift, Unqueued
<1>3. Cardinality(At(steps, m)) = 0
  BY <1>1, FS_EmptySet
<1> QED BY <1>2, <1>3 DEF Chances

\* The client has been told as many ends as the chances used up, and each chance is the
\* first one or was opened by a death.
ToldInv == \A m \in Messages : Len(told[m]) + Chances(TellSteps, m) <= 1 + Deaths

\* The client is told one end of each message, however its job is retried, cancelled or
\* replaced, unless the process died or Bull handed the job out twice (handleChatJob,
\* handleJobFailed).
THEOREM ToldOnceCorrect == Spec => []ToldOnce
<1>1. Init => ToldInv
  <2> SUFFICES ASSUME Init, NEW m \in Messages
               PROVE  Len(told[m]) + Chances(TellSteps, m) <= 1 + Deaths
    BY DEF ToldInv
  <2>1. Len(told[m]) = 0 /\ Deaths = 0
    BY DEF Init, Deaths, ActKinds
  <2> QED BY <2>1, InitChances, BothSteps
<1>2. ASSUME TypeInv, ToldInv, [Next]_vars PROVE ToldInv'
  <2> SUFFICES ASSUME NEW m \in Messages
               PROVE  Len(told'[m]) + Chances(TellSteps, m)' <= 1 + Deaths'
    BY DEF ToldInv
  <2>1. Len(told[m]) + Chances(TellSteps, m) <= 1 + Deaths
    BY <1>2 DEF ToldInv
  <2>2. /\ Deaths \in Nat /\ Deaths' \in Nat
        /\ Chances(TellSteps, m) \in Nat /\ Chances(TellSteps, m)' \in Nat
    BY <1>2, ActsGrow, Counted, CountedNext
  <2> QED BY <1>2, <2>1, <2>2, ToldStep
<1>3. Spec => [](TypeInv /\ ToldInv)
  BY <1>1, <1>2, InitTypes, StepTypes, PTL DEF Spec
<1>4. TypeInv /\ ToldInv => ToldOnce
  <2> SUFFICES ASSUME TypeInv, ToldInv, NEW m \in Messages
               PROVE  Len(told[m]) <= 1 + acts["crash"] + acts["stall"]
    BY DEF ToldOnce
  <2>1. Len(told[m]) + Chances(TellSteps, m) <= 1 + Deaths
    BY DEF ToldInv
  <2>2. /\ Len(told[m]) \in Nat /\ Chances(TellSteps, m) \in Nat
        /\ acts["crash"] \in Nat /\ acts["stall"] \in Nat
    BY Counted DEF TypeInv, DataTypes, ActKinds
  <2> QED BY <2>1, <2>2 DEF Deaths
<1> QED BY <1>3, <1>4, PTL

\* The confirmations of a message whose tool has run or runs.
Written(m) == {n \in 1..Len(asks) : asks[n].msg = m /\ ~Fresh(asks[n])}

LEMMA WrittenCounted ==
    ASSUME TypeInv, NEW m
    PROVE  IsFiniteSet(Written(m)) /\ Cardinality(Written(m)) \in Nat
<1>1. Len(asks) \in Nat
  BY DEF TypeInv, RunTypes
<1>2. IsFiniteSet(1..Len(asks))
  BY <1>1, FS_Interval
<1>3. Written(m) \subseteq 1..Len(asks)
  BY DEF Written
<1> QED BY <1>2, <1>3, FS_Subset, FS_CardinalityType
LEMMA WrittenCountedNext ==
    ASSUME TypeInv, [Next]_vars, NEW m
    PROVE  IsFiniteSet(Written(m)') /\ Cardinality(Written(m)') \in Nat
<1>1. Len(asks') \in Nat
  BY StepTypes DEF TypeInv, RunTypes
<1>2. IsFiniteSet(1..Len(asks'))
  BY <1>1, FS_Interval
<1>3. Written(m)' \subseteq 1..Len(asks')
  BY DEF Written
<1> QED BY <1>2, <1>3, FS_Subset, FS_CardinalityType

\* One confirmation changes and stays with its message.
LEMMA PutWritten ==
    ASSUME TypeInv, NEW n \in 1..Len(asks), NEW k \in Ask, asks' = [asks EXCEPT ![n] = k],
           k.msg = asks[n].msg, NEW m
    PROVE  /\ Written(m)' \subseteq Written(m) \cup {n}
           /\ m # k.msg \/ (Fresh(asks[n]) => Fresh(k)) => Written(m)' \subseteq Written(m)
<1>1. asks \in Seq(Ask)
  BY DEF TypeInv, RunTypes
<1>2. /\ Len(asks') = Len(asks)
      /\ \A i \in 1..Len(asks) : asks'[i] = IF i = n THEN k ELSE asks[i]
  BY <1>1, PutAsk
<1> QED BY <1>2 DEF Written, Fresh

LEMMA AskWritten ==
    ASSUME TypeInv, WriteInv, AskAction, NEW m \in Messages
    PROVE  \/ Written(m)' \subseteq Written(m)
           \/ \E w \in Workers : /\ ExecuteTool(w) \/ ToolErrorAfterWrite(w) \/ ToolTimeout(w)
                                 /\ runs[w].msg = m /\ \E n : Written(m)' \subseteq Written(m) \cup {n}
<1>0. asks \in Seq(Ask)
  BY DEF TypeInv, RunTypes
<1>1. ASSUME NEW w \in Workers, RequireConfirmation(w) PROVE Written(m)' \subseteq Written(m)
  <2> DEFINE a == [msg |-> runs[w].msg, said |-> "none", pushed |-> <<>>,
                   running |-> FALSE, done |-> 0]
  <2>1. asks' = Append(asks, a) /\ Fresh(a)
    BY <1>1 DEF RequireConfirmation, Fresh
  <2> HIDE DEF a
  <2>2. /\ Len(asks') = Len(asks) + 1 /\ Len(asks) \in Nat
        /\ \A i \in 1..Len(asks) + 1 : asks'[i] = IF i = Len(asks) + 1 THEN a ELSE asks[i]
    BY <1>0, <2>1
  <2>3. ASSUME NEW i \in Written(m)' PROVE i \in Written(m)
    <3>1. i \in 1..Len(asks) + 1 /\ asks'[i].msg = m /\ ~Fresh(asks'[i])
      BY <2>2 DEF Written, Fresh
    <3>2. i # Len(asks) + 1
      BY <2>1, <2>2, <3>1
    <3>3. i \in 1..Len(asks)
      BY <2>2, <3>1, <3>2
    <3> QED BY <2>2, <3>1, <3>2, <3>3 DEF Written
  <2> QED BY <2>3
<1>2. ASSUME NEW w \in Workers, AwaitAnswer(w) PROVE Written(m)' \subseteq Written(m)
  <2>1. runs[w].ask \in 1..Len(asks) /\ asks[runs[w].ask] \in Ask
    BY <1>2, AwaitRun DEF TypeInv
  <2>2. CASE UNCHANGED asks
    BY <2>2 DEF Written, Fresh
  <2>3. CASE /\ asks[runs[w].ask].pushed # <<>>
             /\ asks' = [asks EXCEPT ![runs[w].ask].pushed = Tail(@)]
    <3> DEFINE k == [asks[runs[w].ask] EXCEPT !.pushed = Tail(@)]
    <3>1. asks[runs[w].ask].pushed \in Seq(Answers)
      BY <2>1 DEF Ask
    <3>2. Tail(asks[runs[w].ask].pushed) \in Seq(Answers)
      BY <2>3, <3>1
    <3>3. /\ k \in Ask /\ k.msg = asks[runs[w].ask].msg
          /\ Fresh(asks[runs[w].ask]) => Fresh(k)
      BY <2>1, <3>2 DEF Ask, Fresh
    <3>4. asks' = [asks EXCEPT ![runs[w].ask] = k]
      BY <2>3
    <3> HIDE DEF k
    <3> QED BY <2>1, <3>3, <3>4, PutWritten
  <2> QED BY <1>2, <2>2, <2>3, AwaitRun DEF TypeInv
<1>3. ASSUME NEW w \in Workers, ExecuteTool(w) \/ ToolErrorAfterWrite(w) \/ ToolTimeout(w)
      PROVE  \/ Written(m)' \subseteq Written(m)
             \/ runs[w].msg = m /\ \E n : Written(m)' \subseteq Written(m) \cup {n}
  <2> DEFINE n == runs[w].ask
  <2>1. /\ runs[w].pc = "tool" /\ n \in 1..Len(asks) /\ asks[n] \in Ask
        /\ asks[n].msg = runs[w].msg
    BY <1>3 DEF TypeInv, RunTypes, RunOK, WriteInv, WaitOK, Waits, ExecuteTool,
                ToolErrorAfterWrite, ToolTimeout
  <2>2. ASSUME NEW k \in Ask, asks' = [asks EXCEPT ![n] = k], k.msg = asks[n].msg
        PROVE  \/ Written(m)' \subseteq Written(m)
               \/ runs[w].msg = m /\ \E i : Written(m)' \subseteq Written(m) \cup {i}
    BY <2>1, <2>2, PutWritten
  <2>3. CASE ExecuteTool(w)
    <3> DEFINE k == [asks[n] EXCEPT !.done = @ + 1]
    <3>1. k \in Ask /\ k.msg = asks[n].msg
      BY <2>1 DEF Ask
    <3>2. asks' = [asks EXCEPT ![n] = k]
      BY <2>3 DEF ExecuteTool
    <3> HIDE DEF k, n
    <3> QED BY <2>2, <3>1, <3>2
  <2>4. CASE ToolTimeout(w)
    <3> DEFINE k == [asks[n] EXCEPT !.running = TRUE]
    <3>1. k \in Ask /\ k.msg = asks[n].msg
      BY <2>1 DEF Ask
    <3>2. asks' = [asks EXCEPT ![n] = k]
      BY <2>4 DEF ToolTimeout
    <3> HIDE DEF k, n
    <3> QED BY <2>2, <3>1, <3>2
  <2>5. CASE ToolErrorAfterWrite(w)
    <3> DEFINE k == [asks[n] EXCEPT !.done = @ + 1]
    <3>1. k \in Ask /\ k.msg = asks[n].msg
      BY <2>1 DEF Ask
    <3>2. asks' = [asks EXCEPT ![n] = k]
      BY <2>5 DEF ToolErrorAfterWrite
    <3> HIDE DEF k, n
    <3> QED BY <2>2, <3>1, <3>2
  <2> QED BY <1>3, <2>3, <2>4, <2>5
<1>4. ASSUME NEW n \in 1..Len(asks), LateWrite(n) PROVE Written(m)' \subseteq Written(m)
  <2> DEFINE k == [asks[n] EXCEPT !.running = FALSE, !.done = @ + 1]
  <2>1. asks[n] \in Ask /\ asks[n].running
    BY <1>0, <1>4 DEF LateWrite
  <2>2. k \in Ask /\ k.msg = asks[n].msg
    BY <2>1, WrittenAsk DEF Ask
  <2>3. asks' = [asks EXCEPT ![n] = k]
    BY <1>4 DEF LateWrite
  <2> HIDE DEF k
  <2> QED BY <2>1, <2>2, <2>3, PutWritten DEF Fresh
<1>5. ASSUME NEW n \in 1..Len(asks), NEW a \in Answers, Answer(n, a)
      PROVE  Written(m)' \subseteq Written(m)
  <2> DEFINE k == [asks[n] EXCEPT !.said = a, !.pushed = Append(@, a)]
  <2>1. asks[n] \in Ask
    BY <1>0
  <2>2. k \in Ask /\ k.msg = asks[n].msg /\ (Fresh(asks[n]) => Fresh(k))
    BY <2>1, AnsweredAsk DEF Ask, Fresh
  <2>3. asks' = [asks EXCEPT ![n] = k]
    BY <1>0, <1>5 DEF Answer, ConfirmKey
  <2> HIDE DEF k
  <2> QED BY <2>2, <2>3, PutWritten
<1> QED BY <1>1, <1>2, <1>3, <1>4, <1>5 DEF AskAction

LEMMA WrittenStep ==
    ASSUME TypeInv, WriteInv, [Next]_vars, NEW m \in Messages
    PROVE  Cardinality(Written(m)') + Chances(WriteSteps, m)' + Failures
             <= Cardinality(Written(m)) + Chances(WriteSteps, m) + Failures'
<1>n. /\ Deaths \in Nat /\ Deaths' \in Nat /\ Failures \in Nat /\ Failures' \in Nat
      /\ Failures <= Failures'
      /\ Chances(WriteSteps, m) \in Nat /\ Chances(WriteSteps, m)' \in Nat
      /\ IsFiniteSet(Written(m)) /\ Cardinality(Written(m)) \in Nat
      /\ Cardinality(Written(m)') \in Nat /\ Both(WriteSteps)
  BY ActsGrow, Counted, CountedNext, WrittenCounted, WrittenCountedNext, BothSteps
<1>d. Deaths' - Deaths <= Failures' - Failures
  <2>1. acts \in [ActKinds -> Nat] /\ acts' \in [ActKinds -> Nat]
    BY StepTypes DEF TypeInv, DataTypes
  <2>2. \A l \in ActKinds : acts[l] <= acts'[l]
    <3>1. ASSUME NEW k, Strike(k) PROVE \A l \in ActKinds : acts[l] <= acts'[l]
      BY <2>1, <3>1 DEF Strike
    <3> QED BY <2>1, <3>1, ActsMove
  <2>3. {"crash", "stall", "aiError", "storeError", "toolTimeout", "writeError"} \subseteq ActKinds
    BY DEF ActKinds
  <2> QED BY <2>1, <2>2, <2>3 DEF Deaths, Failures
<1>s. Written(m)' \subseteq Written(m) => Cardinality(Written(m)') <= Cardinality(Written(m))
  BY <1>n, SetSizes
<1>q. ASSUME Chances(WriteSteps, m)' + Failures <= Chances(WriteSteps, m) + Failures',
             Written(m)' \subseteq Written(m)
      PROVE  Cardinality(Written(m)') + Chances(WriteSteps, m)' + Failures
               <= Cardinality(Written(m)) + Chances(WriteSteps, m) + Failures'
  BY <1>n, <1>s, <1>q
<1>u. ASSUME UNCHANGED asks PROVE Written(m)' \subseteq Written(m)
  BY <1>u DEF Written, Fresh
<1>1. ASSUME Chances(WriteSteps, m)' <= Chances(WriteSteps, m)
      PROVE  Chances(WriteSteps, m)' + Failures <= Chances(WriteSteps, m) + Failures'
  BY <1>n, <1>1
<1>2. ASSUME Chances(WriteSteps, m)' + Deaths <= Chances(WriteSteps, m) + Deaths'
      PROVE  Chances(WriteSteps, m)' + Failures <= Chances(WriteSteps, m) + Failures'
  <2>1. \A a, b, c, d, e, f \in Nat : a + c <= b + d /\ d - c <= f - e => a + e <= b + f
    OBVIOUS
  <2> QED BY <1>n, <1>d, <1>2, <2>1
<1>3. ASSUME NEW w \in Workers, BodyAction(w)
      PROVE  Chances(WriteSteps, m)' + Failures <= Chances(WriteSteps, m) + Failures'
  <2>1. PICK q : /\ runs' = [runs EXCEPT ![w] = q] /\ q.msg = runs[w].msg
                 /\ \/ runs[w].pc \in WriteSteps \/ q.pc \notin WriteSteps
                    \/ Strike("aiError") \/ Strike("storeError")
    BY <1>3, BodyMoves
  <2>2. UNCHANGED jobs
    BY <1>3, BodyMoves
  <2>3. CASE runs[w].pc \in WriteSteps \/ q.pc \notin WriteSteps
    BY <1>1, <2>1, <2>2, <2>3, OneMoves DEF TypeInv
  <2>4. CASE Strike("aiError") \/ Strike("storeError")
    <3>1. Failures + 1 <= Failures'
      BY <2>4, Charged
    <3>2. Chances(WriteSteps, m)' <= Chances(WriteSteps, m) + 1
      BY <2>1, <2>2, OneMoves DEF TypeInv
    <3> QED BY <1>n, <3>1, <3>2
  <2> QED BY <2>1, <2>3, <2>4
<1>4. ASSUME NEW w \in Workers, TellError(w) \/ ReportError(w)
      PROVE  Chances(WriteSteps, m)' <= Chances(WriteSteps, m)
  <2>1. Idle.pc \notin WriteSteps
    BY DEF Idle, WriteSteps
  <2> QED BY <1>4, <2>1, OneMoves DEF TellError, ReportError, TypeInv
<1>5. ASSUME UNCHANGED vars PROVE Chances(WriteSteps, m)' <= Chances(WriteSteps, m)
  <2>1. At(WriteSteps, m)' \subseteq At(WriteSteps, m) /\ Spare(m)' <= Spare(m)
    BY <1>5 DEF vars, At, Spare, Adrift
  <2> QED BY <2>1, NoMore
<1>6. ASSUME UserAction \/ AskAction \/ \E w \in Workers : CreateController(w)
      PROVE  Chances(WriteSteps, m)' <= Chances(WriteSteps, m)
  BY <1>n, <1>6, UserChances, AskChances, CreateChances
<1>7. ASSUME \/ JobAction
             \/ \E w \in Workers : FinishJob(w) \/ FailJob(w)
             \/ \E i \in Instances : Crash(i)
      PROVE  Chances(WriteSteps, m)' + Deaths <= Chances(WriteSteps, m) + Deaths'
  BY <1>n, <1>7, JobChances, EndChances
<1>8. Chances(WriteSteps, m)' + Failures <= Chances(WriteSteps, m) + Failures'
  BY <1>1, <1>2, <1>3, <1>4, <1>5, <1>6, <1>7, Actions DEF EndAction
<1>9. CASE ~AskAction
  <2>1. UNCHANGED asks
    BY <1>9, Actions, CalmSteps DEF Calm, TypeInv, vars
  <2> QED BY <1>q, <1>u, <1>8, <2>1
<1>10. CASE AskAction /\ Written(m)' \subseteq Written(m)
  BY <1>q, <1>8, <1>10
<1>11. ASSUME NEW w \in Workers,
              ExecuteTool(w) \/ ToolErrorAfterWrite(w) \/ ToolTimeout(w), runs[w].msg = m,
              \E n : Written(m)' \subseteq Written(m) \cup {n}
       PROVE  Cardinality(Written(m)') + Chances(WriteSteps, m)' + Failures
                <= Cardinality(Written(m)) + Chances(WriteSteps, m) + Failures'
  <2>1. Cardinality(Written(m)') <= Cardinality(Written(m)) + 1
    BY <1>n, <1>11, SetSizes
  <2>2. CASE ExecuteTool(w)
    <3>1. PICK q : runs' = [runs EXCEPT ![w] = q] /\ q.pc = "summary"
      BY <1>11, <2>2, AskMoves
    <3>2. UNCHANGED jobs /\ runs[w].pc \in WriteSteps /\ q.pc \notin WriteSteps
      BY <1>11, <3>1, AskMoves DEF WriteSteps, Pcs
    <3>3. Chances(WriteSteps, m)' + 1 <= Chances(WriteSteps, m)
      BY <1>11, <3>1, <3>2, OneMoves DEF TypeInv
    <3> QED BY <1>n, <2>1, <3>3
  <2>3. CASE ToolErrorAfterWrite(w) \/ ToolTimeout(w)
    <3>1. (Strike("toolTimeout") \/ Strike("writeError")) /\ AskAction
      BY <2>3 DEF ToolErrorAfterWrite, ToolTimeout, AskAction
    <3>2. Failures + 1 <= Failures'
      BY <3>1, Charged
    <3>3. Chances(WriteSteps, m)' <= Chances(WriteSteps, m)
      BY <1>n, <3>1, AskChances
    <3> QED BY <1>n, <2>1, <3>2, <3>3
  <2> QED BY <1>11, <2>2, <2>3
<1> QED BY <1>9, <1>10, <1>11, AskWritten

\* A message has led to as many writes as the chances used up, and each chance is the
\* first one or was opened by a failure.
WrittenInv == \A m \in Messages : Cardinality(Written(m)) + Chances(WriteSteps, m) <= 1 + Failures

\* A message leads to one write, however often it is retried: after a write the run only
\* sums up (runAgenticLoop, finalizeWithSummary). Another takes a failure once the tool
\* had begun: of the tool after its commit or by taking too long, of the model, the
\* store, or the process; a tool that fails before its commit is no excuse.
THEOREM OneWriteCorrect == Spec => []OneWritePerMessage
<1>1. Init => WrittenInv
  <2> SUFFICES ASSUME Init, NEW m \in Messages
               PROVE  Cardinality(Written(m)) + Chances(WriteSteps, m) <= 1 + Failures
    BY DEF WrittenInv
  <2>1. Written(m) = {} /\ Failures = 0
    BY DEF Init, Written, Failures, Deaths, ActKinds
  <2>2. Cardinality(Written(m)) = 0
    BY <2>1, FS_EmptySet
  <2> QED BY <2>1, <2>2, InitChances, BothSteps
<1>2. ASSUME TypeInv, WriteInv, WrittenInv, [Next]_vars PROVE WrittenInv'
  <2> SUFFICES ASSUME NEW m \in Messages
               PROVE  Cardinality(Written(m)') + Chances(WriteSteps, m)' <= 1 + Failures'
    BY DEF WrittenInv
  <2>1. Cardinality(Written(m)) + Chances(WriteSteps, m) <= 1 + Failures
    BY <1>2 DEF WrittenInv
  <2>2. /\ Failures \in Nat /\ Failures' \in Nat
        /\ Chances(WriteSteps, m) \in Nat /\ Chances(WriteSteps, m)' \in Nat
        /\ Cardinality(Written(m)) \in Nat /\ Cardinality(Written(m)') \in Nat
    BY <1>2, ActsGrow, Counted, CountedNext, WrittenCounted, WrittenCountedNext
  <2> QED BY <1>2, <2>1, <2>2, WrittenStep
<1>3. Spec => [](TypeInv /\ WrittenInv)
  BY <1>1, <1>2, InitTypes, StepTypes, WritesConfirmed, PTL DEF Spec
<1>4. TypeInv /\ WrittenInv => OneWritePerMessage
  <2> SUFFICES ASSUME TypeInv, WrittenInv, NEW m \in Messages
               PROVE  Cardinality({n \in 1..Len(asks) : asks[n].msg = m /\ asks[n].done > 0})
                        <= 1 + acts["aiError"] + acts["storeError"] + acts["toolTimeout"]
                             + acts["writeError"] + acts["crash"] + acts["stall"]
    BY DEF OneWritePerMessage
  <2> DEFINE done == {n \in 1..Len(asks) : asks[n].msg = m /\ asks[n].done > 0}
  <2>1. done \subseteq Written(m)
    BY DEF Written, Fresh, TypeInv, RunTypes, Ask
  <2>2. /\ IsFiniteSet(done) /\ Cardinality(done) \in Nat
        /\ Cardinality(done) <= Cardinality(Written(m))
        /\ Cardinality(Written(m)) \in Nat /\ Chances(WriteSteps, m) \in Nat
    BY <2>1, WrittenCounted, Counted, FS_Subset, FS_CardinalityType
  <2>3. Cardinality(Written(m)) + Chances(WriteSteps, m) <= 1 + Failures
    BY DEF WrittenInv
  <2>4. /\ acts["aiError"] \in Nat /\ acts["storeError"] \in Nat /\ acts["toolTimeout"] \in Nat
        /\ acts["writeError"] \in Nat /\ acts["crash"] \in Nat /\ acts["stall"] \in Nat
    BY DEF TypeInv, DataTypes, ActKinds
  <2> HIDE DEF done
  <2>5. Cardinality(done) <= 1 + acts["aiError"] + acts["storeError"] + acts["toolTimeout"]
                               + acts["writeError"] + acts["crash"] + acts["stall"]
    BY <2>2, <2>3, <2>4 DEF Failures, Deaths
  <2> QED BY <2>5 DEF done
<1> QED BY <1>3, <1>4, PTL
=============================================================================
