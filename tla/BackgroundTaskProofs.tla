------------------------ MODULE BackgroundTaskProofs ------------------------
(* What BackgroundTask keeps to, for any number of clients, workers, queue *)
(* messages, calls and steps, and any budget of mishaps: its types; what   *)
(* it promises of a task's runs; and what a task does with the calls that  *)
(* must ask, and with its work.                                            *)
EXTENDS BackgroundTask, FiniteSetTheorems, TLAPS

(* What makes TypeOK inductive: a run about to be answered by the model has*)
(* a step of its budget left, and only an answer or a resume is written    *)
(* before it is committed.                                                 *)
StepsLeft == \A w \in Workers : run[w].phase = "model" => run[w].place.iterations < MaxIterations
Writers == \A c \in Clients : req[c].phase = "written" => req[c].kind \in {"approve", "resume"}

TypeInv == TypeOK /\ StepsLeft /\ Writers

-----------------------------------------------------------------------------
LEMMA Defaults ==
    /\ Start \in Place /\ Unanswered \in [Calls -> Answers]
    /\ NoPausedRun \in PausedRun
    /\ NoRequest \in Request
    /\ NoRun \in Run
<1>1. Start \in Place /\ Unanswered \in [Calls -> Answers]
  BY ConstantsAssumption DEF Start, Place, Unanswered, Answers
<1>2. NoPausedRun \in PausedRun BY <1>1 DEF NoPausedRun, PausedRun
<1>3. NoRequest \in Request BY DEF NoRequest, Request, Kinds, TaskStatus
<1>4. NoRun \in Run BY <1>1, ConstantsAssumption DEF NoRun, Run, Phases
<1> QED BY <1>1, <1>2, <1>3, <1>4

LEMMA InitType == Init => TypeInv
<1> SUFFICES ASSUME Init PROVE TypeInv OBVIOUS
<1>1. saved \in PausedRun /\ req \in [Clients -> Request] /\ run \in [Workers -> Run]
  BY Defaults DEF Init
<1>2. task \in Task BY DEF Init, Task, TaskStatus, Results
<1>3. MaxRuns \in Nat BY ConstantsAssumption DEF MaxRuns
<1>4. ran \in [Calls -> 0..MaxRuns] /\ delivered \in 0..MaxRuns /\ mishaps \in 0..Budget
  BY <1>3, ConstantsAssumption DEF Init
<1>5. queue \in [Kicks -> QueueStates] BY DEF Init, QueueStates
<1>6. TypeOK BY <1>1, <1>2, <1>4, <1>5 DEF Init, TypeOK
<1>7. StepsLeft /\ Writers BY DEF Init, StepsLeft, Writers, NoRun, NoRequest
<1> QED BY <1>6, <1>7 DEF TypeInv

LEMMA FinishType ==
    ASSUME task \in Task, NEW s \in TaskStatus, NEW r \in Results, Finish(s, r)
    PROVE  task' \in Task /\ task'.status = s /\ task'.result = r /\ task'.reported = task.reported
BY DEF Finish, Task

(* A mishap is one of those budgeted.                                      *)
LEMMA MishapType ==
    ASSUME TypeOK, NEW kind, Mishap(kind)
    PROVE  mishaps' \in 0..Budget
<1>1. IsFiniteSet(Kicks \ Unused) /\ IsFiniteSet(Reserved)
  BY FS_Subset, ConstantsAssumption DEF Reserved
<1>2. Cardinality(Kicks \ Unused) \in Nat /\ Cardinality(Reserved) \in Nat
  BY <1>1, FS_CardinalityType
<1> QED BY <1>2, ConstantsAssumption DEF Mishap, WithinBudget, TypeOK

-----------------------------------------------------------------------------
(* Requests.                                                               *)

LEMMA EndsType ==
    ASSUME TypeInv, NEW c \in Clients, Ends(c)
    PROVE  /\ req' \in [Clients -> Request] /\ Writers'
           /\ req'[c] = NoRequest /\ \A d \in Clients \ {c} : req'[d] = req[d]
BY Defaults DEF TypeInv, TypeOK, Ends, Writers, NoRequest

LEMMA RequestType ==
    ASSUME TypeInv, NEW c \in Clients, (\E kind \in Kinds : Read(c, kind)) \/ Handle(c) \/ Abort(c)
    PROVE  TypeInv'
<1> USE DEF TypeInv, TypeOK
<1>0. req[c] \in Request OBVIOUS
<1>1. ASSUME NEW kind \in Kinds, Read(c, kind) PROVE TypeInv'
  <2> DEFINE r == [NoRequest EXCEPT !.phase = "read", !.kind = kind, !.seen = task.status]
  <2>1. r \in Request /\ r.phase = "read" BY Defaults DEF Request, Task
  <2>2. req' = [req EXCEPT ![c] = r] BY <1>1 DEF Read
  <2> HIDE DEF r
  <2> QED BY <1>1, <2>1, <2>2 DEF Read, counts, StepsLeft, Writers
<1>2. CASE AskToStop(c) BY <1>2, EndsType DEF AskToStop, counts, StepsLeft
<1>3. CASE StopWaiting(c)
  <2>1. task' \in Task BY <1>3, FinishType DEF StopWaiting, TaskStatus, Results
  <2> QED BY <1>3, <2>1, EndsType DEF StopWaiting, counts, StepsLeft
<1>4. CASE FindExpired(c)
  <2>1. task' \in Task BY <1>4, FinishType DEF FindExpired, TaskStatus, Results
  <2> QED BY <1>4, <2>1, EndsType DEF FindExpired, counts, StepsLeft
<1>5. CASE Look(c) BY <1>5, EndsType DEF Look, counts, StepsLeft
<1>6. CASE Answer(c)
  <2>1. PICK d \in [Calls -> Answers] :
            /\ saved' = [saved EXCEPT !.answers = d]
            /\ approved' = approved \cup {a \in Calls : d[a] = "approved"}
            /\ grants' \in {grants, grants + 1}
    BY <1>6 DEF Answer
  <2>2. saved' \in PausedRun BY <2>1 DEF PausedRun
  <2>3. req' = [req EXCEPT ![c] = [req[c] EXCEPT !.phase = "written"]] BY <1>6 DEF Answer
  <2>4. req' \in [Clients -> Request] BY <1>0, <2>3 DEF Request
  <2>5. Writers' BY <1>6, <1>0, <2>3 DEF Answer, Writers, Request
  <2> QED BY <1>6, <2>1, <2>2, <2>4, <2>5 DEF Answer, StepsLeft
<1>7. CASE ClearForResume(c)
  <2>1. req' = [req EXCEPT ![c] = [req[c] EXCEPT !.phase = "written"]] BY <1>7 DEF ClearForResume
  <2>2. req' \in [Clients -> Request] BY <1>0, <2>1 DEF Request
  <2>3. Writers' BY <1>7, <1>0, <2>1 DEF ClearForResume, Writers, Request
  <2> QED BY <1>7, <2>2, <2>3 DEF ClearForResume, counts, StepsLeft
<1>8. CASE Commit(c)
  <2>1. req[c].kind \in {"start", "approve", "resume"} BY <1>8 DEF Commit, Writers
  <2>2. SetRunning(req[c].kind) \in Task
    BY <2>1 DEF SetRunning, Task, TaskStatus, Results
  <2>3. PICK k \in Unused : /\ queue' = [queue EXCEPT ![k] = "promised"]
                            /\ req' = [req EXCEPT ![c] = [req[c] EXCEPT !.phase = "kick", !.kick = k]]
    BY <1>8 DEF Commit
  <2>4. k \in Kicks BY DEF Unused
  <2>5. queue' \in [Kicks -> QueueStates] BY <2>3 DEF QueueStates
  <2>6. [req[c] EXCEPT !.phase = "kick", !.kick = k] \in Request BY <1>0, <2>4 DEF Request
  <2>7. req' \in [Clients -> Request] BY <2>3, <2>6
  <2>8. Writers' BY <1>0, <2>3, <2>6 DEF Writers, Request
  <2> QED BY <1>8, <2>2, <2>5, <2>7, <2>8 DEF Commit, counts, StepsLeft
<1>9. CASE Kick(c)
  <2>1. queue' \in [Kicks -> QueueStates] BY <1>9 DEF Kick, QueueStates
  <2> QED BY <1>9, <2>1, EndsType DEF Kick, counts, StepsLeft
<1>10. CASE Abort(c)
  <2>1. queue' \in [Kicks -> QueueStates] BY <1>10 DEF Abort, QueueStates
  <2>2. mishaps' \in 0..Budget BY <1>10, MishapType DEF Abort
  <2> QED BY <1>10, <2>1, <2>2, EndsType DEF Abort, counts, StepsLeft
<1> QED BY <1>1, <1>2, <1>3, <1>4, <1>5, <1>6, <1>7, <1>8, <1>9, <1>10 DEF Handle

-----------------------------------------------------------------------------
LEMMA OtherType ==
    ASSUME TypeInv, Evict \/ FlagExpires \/ Turn \/ UNCHANGED vars
    PROVE  TypeInv'
<1> USE DEF TypeInv, TypeOK, StepsLeft, Writers
<1>1. CASE Evict
  <2>1. saved' \in PausedRun BY <1>1, Defaults DEF Evict, PausedRun
  <2>2. mishaps' \in 0..Budget BY <1>1, MishapType DEF Evict
  <2> QED BY <1>1, <2>1, <2>2 DEF Evict, counts
<1>2. CASE FlagExpires BY <1>2 DEF FlagExpires, counts
<1>3. CASE Drain BY <1>3 DEF Drain, Reported, Task, counts
<1>4. CASE Check BY <1>4 DEF Check, Reported, Task, counts
<1>5. CASE AgentStops
  <2>1. task' \in Task BY <1>5, FinishType DEF AgentStops, TaskStatus, Results
  <2> QED BY <1>5, <2>1 DEF AgentStops, counts
<1>6. CASE TurnCommits BY <1>6 DEF TurnCommits, Reported, Task, counts
<1>7. CASE TurnRollsBack BY <1>7 DEF TurnRollsBack, counts
<1>8. CASE UNCHANGED vars BY <1>8 DEF vars, counts
<1> QED BY <1>1, <1>2, <1>3, <1>4, <1>5, <1>6, <1>7, <1>8 DEF Turn

-----------------------------------------------------------------------------
(* A worker's run.                                                         *)

LEMMA RunParts == ASSUME TypeOK, NEW w \in Workers PROVE run[w] \in Run
BY DEF TypeOK

LEMMA BecomesType ==
    ASSUME TypeInv, NEW w \in Workers, NEW r \in Run, Becomes(w, r),
           r.phase = "model" => r.place.iterations < MaxIterations
    PROVE  /\ run' \in [Workers -> Run] /\ StepsLeft'
           /\ run'[w] = r /\ \A v \in Workers \ {w} : run'[v] = run[v]
BY DEF TypeInv, TypeOK, Becomes, StepsLeft

LEMMA GoesType ==
    ASSUME TypeInv, NEW w \in Workers, NEW phase \in Phases, Goes(w, phase),
           phase = "model" => run[w].place.iterations < MaxIterations
    PROVE  /\ run' \in [Workers -> Run] /\ StepsLeft'
           /\ run'[w] = [run[w] EXCEPT !.phase = phase]
           /\ \A v \in Workers \ {w} : run'[v] = run[v]
<1>1. run[w] \in Run BY RunParts DEF TypeInv
<1> DEFINE r == [run[w] EXCEPT !.phase = phase]
<1>2. r \in Run /\ r.phase = phase /\ r.place = run[w].place BY <1>1 DEF Run
<1>3. Becomes(w, r) BY DEF Goes
<1> HIDE DEF r
<1>4. run' \in [Workers -> Run] /\ StepsLeft' /\ run'[w] = r
      /\ \A v \in Workers \ {w} : run'[v] = run[v]
  BY <1>2, <1>3, BecomesType
<1> QED BY <1>4 DEF r

LEMMA AllowanceType == Allowance(saved) \in 0..IMAGES_PER_APPROVAL
<1> DEFINE spent == Cardinality({a \in Images : saved.answers[a] = "approved"})
<1>1. spent \in Nat
  <2>1. IsFiniteSet({a \in Images : saved.answers[a] = "approved"})
    BY FS_Subset, ConstantsAssumption
  <2> QED BY <2>1, FS_CardinalityType
<1> HIDE DEF spent
<1>2. (IF spent \in 1..IMAGES_PER_APPROVAL THEN IMAGES_PER_APPROVAL - spent ELSE 0)
        \in 0..IMAGES_PER_APPROVAL
  BY <1>1, ConstantsAssumption
<1> QED BY <1>2 DEF Allowance, spent

LEMMA ExecutedType ==
    ASSUME TypeOK, NEW calls, Executed(calls)
    PROVE  ran' \in [Calls -> 0..MaxRuns]
<1>1. MaxRuns \in Nat BY ConstantsAssumption DEF MaxRuns
<1> QED BY <1>1 DEF Executed, TypeOK

LEMMA SettledType ==
    ASSUME NEW r \in Run
    PROVE  /\ Settled(r) \in Run /\ Settled(r).phase = r.phase /\ Settled(r).kick = r.kick
           /\ Settled(r).allowance = r.allowance /\ Settled(r).end = r.end
           /\ Settled(r).place.pending = {} /\ Settled(r).answers = Unanswered
BY Defaults DEF Settled, Run, Place

(* What a reply makes of a run: it ended, goes on, made images at once, or *)
(* waits for an answer.                                                    *)
Ending(r, end)  == [r EXCEPT !.phase = "end", !.end = end]
Going(r)        == [r EXCEPT !.phase = "loop"]
Making(r, n)    == [r EXCEPT !.phase = "loop", !.allowance = @ - n]
Asking(r, calls) ==
    [r EXCEPT !.phase = "suspend", !.place.pending = calls, !.answers = Unanswered]

LEMMA ReplyParts ==
    ASSUME NEW r \in Run, r.phase = "model"
    PROVE  /\ \A end \in {"done", "failed"} :
                 /\ Ending(r, end) \in Run /\ Ending(r, end).phase = "end" /\ Ending(r, end).end = end
                 /\ Ending(r, end).kick = r.kick /\ Ending(r, end).place = r.place
                 /\ Ending(r, end).allowance = r.allowance /\ Ending(r, end).answers = r.answers
           /\ Going(r) \in Run /\ Going(r) = [r EXCEPT !.phase = "loop"] /\ Going(r).phase = "loop"
           /\ \A n \in 0..r.allowance :
                 /\ Making(r, n) \in Run /\ Making(r, n).phase = "loop"
                 /\ Making(r, n).kick = r.kick /\ Making(r, n).place = r.place
                 /\ Making(r, n).allowance = r.allowance - n /\ Making(r, n).answers = r.answers
           /\ \A calls \in SUBSET Calls :
                 /\ Asking(r, calls) \in Run /\ Asking(r, calls).phase = "suspend"
                 /\ Asking(r, calls).kick = r.kick /\ Asking(r, calls).place.pending = calls
                 /\ Asking(r, calls).allowance = r.allowance
                 /\ Asking(r, calls).answers = Unanswered
<1>1. \A end \in {"done", "failed"} :
        /\ Ending(r, end) \in Run /\ Ending(r, end).phase = "end" /\ Ending(r, end).end = end
        /\ Ending(r, end).kick = r.kick /\ Ending(r, end).place = r.place
        /\ Ending(r, end).allowance = r.allowance /\ Ending(r, end).answers = r.answers
  BY DEF Ending, Run, Phases
<1>2. Going(r) \in Run /\ Going(r).phase = "loop" BY DEF Going, Run, Phases
<1>3. ASSUME NEW n \in 0..r.allowance
      PROVE  /\ Making(r, n) \in Run /\ Making(r, n).phase = "loop"
             /\ Making(r, n).kick = r.kick /\ Making(r, n).place = r.place
             /\ Making(r, n).allowance = r.allowance - n /\ Making(r, n).answers = r.answers
  <2>1. r.allowance \in 0..IMAGES_PER_APPROVAL BY DEF Run
  <2>2. r.allowance - n \in 0..IMAGES_PER_APPROVAL BY <2>1, ConstantsAssumption
  <2> QED BY <2>2 DEF Making, Run, Phases
<1>4. ASSUME NEW calls \in SUBSET Calls
      PROVE  /\ Asking(r, calls) \in Run /\ Asking(r, calls).phase = "suspend"
             /\ Asking(r, calls).kick = r.kick /\ Asking(r, calls).place.pending = calls
             /\ Asking(r, calls).allowance = r.allowance /\ Asking(r, calls).answers = Unanswered
  BY Defaults DEF Asking, Run, Phases, Place
<1> QED BY <1>1, <1>2, <1>3, <1>4 DEF Going

LEMMA OneMoreStepType ==
    ASSUME TypeInv, NEW w \in Workers, run[w].phase = "model"
    PROVE  /\ OneMoreStep(run[w]) \in Run
           /\ \A f \in {"phase", "kick", "answers", "allowance", "resumed", "end"} :
                 OneMoreStep(run[w])[f] = run[w][f]
           /\ OneMoreStep(run[w]).place.pending = run[w].place.pending
<1>1. run[w] \in Run BY RunParts DEF TypeInv
<1>2. run[w].place \in Place /\ run[w].place.iterations \in 0..MaxIterations BY <1>1 DEF Run, Place
<1>3. run[w].place.iterations + 1 \in 0..MaxIterations
  BY <1>2, ConstantsAssumption DEF TypeInv, StepsLeft
<1> QED BY <1>1, <1>2, <1>3 DEF OneMoreStep, Run, Place

LEMMA CallsFinite ==
    ASSUME NEW calls \in SUBSET Images
    PROVE  /\ IsFiniteSet(calls) /\ Cardinality(calls) \in Nat
           /\ calls # {} => Cardinality(calls) >= 1
<1>1. IsFiniteSet(calls) BY FS_Subset, ConstantsAssumption
<1> QED BY <1>1, FS_CardinalityType, FS_EmptySet

LEMMA ReplyBecomes ==
    ASSUME TypeInv, NEW w \in Workers, Reply(w)
    PROVE  LET r == OneMoreStep(run[w]) IN
           \/ \E end \in {"done", "failed"} : Becomes(w, Ending(r, end)) /\ UNCHANGED <<made, ran, free>>
           \/ Becomes(w, Going(r)) /\ UNCHANGED <<made, ran, free>>
           \/ \E calls \in (SUBSET (Calls \ made)) \ {{}} :
                 /\ made' = made \cup calls
                 /\ calls \subseteq Images /\ Cardinality(calls) \in 0..r.allowance
                 /\ Executed(calls)
                 /\ free' = free + Cardinality(calls)
                 /\ Becomes(w, Making(r, Cardinality(calls)))
           \/ \E calls \in (SUBSET (Calls \ made)) \ {{}} :
                 /\ made' = made \cup calls
                 /\ Becomes(w, Asking(r, calls))
                 /\ UNCHANGED <<ran, free>>
<1>0. run[w] \in Run /\ OneMoreStep(run[w]) \in Run /\ run[w].phase = "model"
  <2>1. run[w].phase = "model" BY DEF Reply
  <2> QED BY <2>1, RunParts, OneMoreStepType DEF TypeInv
<1>1. OneMoreStep(run[w]).allowance \in Nat BY <1>0, ConstantsAssumption DEF Run
<1>2. ASSUME NEW calls \in SUBSET (Calls \ made), Covered(OneMoreStep(run[w]), calls)
      PROVE  calls \subseteq Images /\ Cardinality(calls) \in 0..OneMoreStep(run[w]).allowance
  BY <1>1, <1>2, CallsFinite DEF Covered
<1> QED BY <1>2 DEF Reply, Ending, Going, Making, Asking

LEMMA WorkerType ==
    ASSUME TypeInv, NEW w \in Workers, RunStep(w) \/ Fail(w) \/ CutOff(w)
    PROVE  TypeInv'
<1> USE DEF TypeInv, Writers
<1>0. run[w] \in Run /\ MaxRuns \in Nat BY RunParts, ConstantsAssumption DEF MaxRuns
<1>1. ASSUME NEW k \in Kicks, Deliver(w, k) PROVE TypeInv'
  <2>1. [NoRun EXCEPT !.phase = "start", !.kick = k] \in Run
    BY Defaults DEF Run, Phases
  <2>2. run' \in [Workers -> Run] /\ StepsLeft' BY <1>1, <2>1, BecomesType DEF Deliver, NoRun
  <2>3. queue' \in [Kicks -> QueueStates] BY <1>1 DEF Deliver, TypeOK, QueueStates
  <2> QED BY <1>1, <2>2, <2>3 DEF Deliver, TypeOK, counts
<1>2. CASE Load(w)
  <2> DEFINE r == [run[w] EXCEPT !.phase = "loop", !.place = saved.place, !.answers = saved.answers,
                                 !.allowance = Allowance(saved), !.resumed = saved.state = "kept"]
  <2>1. saved.place \in Place /\ saved.answers \in [Calls -> Answers] BY DEF TypeOK, PausedRun
  <2>2. r \in Run /\ r.phase = "loop" BY <1>0, <2>1, AllowanceType DEF Run, Phases
  <2>3. Becomes(w, r) \/ Goes(w, "ack") BY <1>2 DEF Load
  <2> HIDE DEF r
  <2>4. run' \in [Workers -> Run] /\ StepsLeft' BY <2>2, <2>3, BecomesType, GoesType DEF Phases
  <2> QED BY <1>2, <2>4 DEF Load, TypeOK, counts
<1>3. CASE Settle(w)
  <2>1. Settled(run[w]) \in Run /\ Settled(run[w]).phase = "loop" BY <1>0, <1>3, SettledType DEF Settle
  <2>2. run' \in [Workers -> Run] /\ StepsLeft' BY <1>3, <2>1, BecomesType DEF Settle
  <2>3. ran' \in [Calls -> 0..MaxRuns] BY <1>3, ExecutedType DEF Settle
  <2> QED BY <1>3, <2>2, <2>3 DEF Settle, TypeOK
<1>4. CASE AskAgain(w)
  <2>1. run' \in [Workers -> Run] /\ StepsLeft' BY <1>4, GoesType DEF AskAgain, Phases
  <2> QED BY <1>4, <2>1 DEF AskAgain, TypeOK, counts
<1>5. CASE SeesStop(w)
  <2>1. run' \in [Workers -> Run] /\ StepsLeft' BY <1>5, GoesType DEF SeesStop, Phases
  <2> QED BY <1>5, <2>1 DEF SeesStop, TypeOK, counts
<1>6. CASE Limit(w)
  <2>1. [run[w] EXCEPT !.phase = "end", !.end = "failed"] \in Run BY <1>0 DEF Run, Phases
  <2>2. [run[w] EXCEPT !.phase = "end", !.end = "failed"].phase = "end" BY <1>0 DEF Run
  <2>3. run' \in [Workers -> Run] /\ StepsLeft' BY <1>6, <2>1, <2>2, BecomesType DEF Limit
  <2> QED BY <1>6, <2>3 DEF Limit, TypeOK, counts
<1>7. CASE Proceed(w)
  <2>1. run' \in [Workers -> Run] /\ StepsLeft' BY <1>7, GoesType DEF Proceed, Phases
  <2> QED BY <1>7, <2>1 DEF Proceed, TypeOK, counts
<1>8. CASE Reply(w)
  <2> DEFINE r == OneMoreStep(run[w])
  <2>1. r \in Run /\ r.phase = "model" BY <1>8, OneMoreStepType DEF Reply
  <2>2. r.allowance \in Nat BY <2>1, ConstantsAssumption DEF Run
  <2> HIDE DEF r
  <2>3. UNCHANGED <<task, saved, flag, req, queue, turn, approved, grants, delivered, crashes,
                    again, mishaps>>
    BY <1>8 DEF Reply
  <2>4. ASSUME NEW end \in {"done", "failed"}, Becomes(w, Ending(r, end)), UNCHANGED <<made, ran, free>>
        PROVE  TypeInv'
    <3>1. run' \in [Workers -> Run] /\ StepsLeft' BY <2>1, <2>4, ReplyParts, BecomesType
    <3> QED BY <2>3, <2>4, <3>1 DEF TypeOK
  <2>5. CASE Becomes(w, Going(r)) /\ UNCHANGED <<made, ran, free>>
    <3>1. run' \in [Workers -> Run] /\ StepsLeft' BY <2>1, <2>5, ReplyParts, BecomesType
    <3> QED BY <2>3, <2>5, <3>1 DEF TypeOK
  <2>6. ASSUME NEW calls \in SUBSET Calls, made' = made \cup calls, Executed(calls),
               calls \subseteq Images, Cardinality(calls) \in 0..r.allowance,
               free' = free + Cardinality(calls), Becomes(w, Making(r, Cardinality(calls)))
        PROVE  TypeInv'
    <3>1. run' \in [Workers -> Run] /\ StepsLeft' BY <2>1, <2>6, ReplyParts, BecomesType
    <3>2. free' \in Nat BY <2>6, CallsFinite DEF TypeOK
    <3>3. ran' \in [Calls -> 0..MaxRuns] BY <2>6, ExecutedType
    <3> QED BY <2>3, <2>6, <3>1, <3>2, <3>3 DEF TypeOK
  <2>7. ASSUME NEW calls \in SUBSET Calls, made' = made \cup calls, Becomes(w, Asking(r, calls)),
               UNCHANGED <<ran, free>>
        PROVE  TypeInv'
    <3>1. run' \in [Workers -> Run] /\ StepsLeft' BY <2>1, <2>7, ReplyParts, BecomesType
    <3> QED BY <2>3, <2>7, <3>1 DEF TypeOK
  <2> QED BY <1>8, <2>4, <2>5, <2>6, <2>7, ReplyBecomes DEF r
<1>9. CASE Save(w)
  <2>1. saved' \in PausedRun BY <1>0, <1>9, Defaults DEF Save, StoppedRun, Kept, PausedRun, Run
  <2>2. run' \in [Workers -> Run] /\ StepsLeft' BY <1>9, GoesType DEF Save, Phases
  <2> QED BY <1>9, <2>1, <2>2 DEF Save, TypeOK, counts
<1>10. CASE ClearFlag(w)
  <2>1. run' \in [Workers -> Run] /\ StepsLeft' BY <1>10, GoesType DEF ClearFlag, Phases
  <2> QED BY <1>10, <2>1 DEF ClearFlag, TypeOK, counts
<1>11. CASE RemoveSaved(w)
  <2>1. saved' \in PausedRun BY <1>11, Defaults DEF RemoveSaved, TypeOK
  <2>2. run' \in [Workers -> Run] /\ StepsLeft' BY <1>11, GoesType DEF RemoveSaved, Phases
  <2> QED BY <1>11, <2>1, <2>2 DEF RemoveSaved, TypeOK, counts
<1>12. CASE DeliverFiles(w)
  <2>1. run' \in [Workers -> Run] /\ StepsLeft' BY <1>12, GoesType DEF DeliverFiles, Phases
  <2>2. delivered' \in 0..MaxRuns BY <1>0, <1>12 DEF DeliverFiles, TypeOK
  <2> QED BY <1>12, <2>1, <2>2 DEF DeliverFiles, TypeOK
<1>13. CASE CommitRest(w)
  <2>1. task' \in Task
    <3>1. task \in Task /\ task.result \in Results /\ run[w].end \in TaskStatus \cap Results
      BY <1>0 DEF TypeOK, Task, Run, TaskStatus, Results
    <3> QED BY <1>13, <3>1, FinishType DEF CommitRest, TaskStatus, Results
  <2>2. run' \in [Workers -> Run] /\ StepsLeft' BY <1>13, GoesType DEF CommitRest, Phases
  <2> QED BY <1>13, <2>1, <2>2 DEF CommitRest, TypeOK, counts
<1>14. CASE Acknowledge(w)
  <2>1. run' \in [Workers -> Run] /\ StepsLeft' BY <1>14, Defaults, BecomesType DEF Acknowledge, NoRun
  <2>2. queue' \in [Kicks -> QueueStates] BY <1>14 DEF Acknowledge, TypeOK, QueueStates
  <2> QED BY <1>14, <2>1, <2>2 DEF Acknowledge, TypeOK, counts
<1>15. CASE Fail(w)
  <2>1. run' \in [Workers -> Run] /\ StepsLeft' BY <1>15, GoesType DEF Fail, Phases
  <2>2. mishaps' \in 0..Budget BY <1>15, MishapType DEF Fail
  <2> QED BY <1>15, <2>1, <2>2 DEF Fail, TypeOK, counts
<1>16. CASE CutOff(w)
  <2>1. run' \in [Workers -> Run] /\ StepsLeft' BY <1>16, Defaults, BecomesType DEF CutOff, NoRun
  <2>2. mishaps' \in 0..Budget BY <1>16, MishapType DEF CutOff
  <2>3. queue' \in [Kicks -> QueueStates]
    BY <1>16 DEF CutOff, TypeOK, QueueStates
  <2>4. crashes' \in Nat /\ again' \in Nat BY <1>16 DEF CutOff, TypeOK
  <2> QED BY <1>16, <2>1, <2>2, <2>3, <2>4 DEF CutOff, TypeOK, counts
<1> QED BY <1>1, <1>2, <1>3, <1>4, <1>5, <1>6, <1>7, <1>8, <1>9, <1>10, <1>11, <1>12, <1>13,
           <1>14, <1>15, <1>16 DEF RunStep

LEMMA TypeStep == TypeInv /\ [Next]_vars => TypeInv'
BY RequestType, OtherType, WorkerType DEF Next

(***************************************************************************)
(* No request, no run and no turn ever stores a status, a result or a saved*)
(* run the rest of the code does not know, whatever goes wrong on the way  *)
(* (background/jobs.py, control.py, approvals.py).                         *)
(***************************************************************************)
THEOREM TaskTypes == Spec => []TypeOK
<1>1. Init => TypeInv BY InitType
<1>2. TypeInv /\ [Next]_vars => TypeInv' BY TypeStep
<1>3. TypeInv => TypeOK BY DEF TypeInv
<1> QED BY <1>1, <1>2, <1>3, PTL DEF Spec

-----------------------------------------------------------------------------
(* What BackgroundTask promises of a task's runs, for any number of        *)
(* workers, queue messages and calls, and any budget of mishaps.           *)
(*                                                                         *)
(* A task is claimed by nobody.  What takes the place of a claim is that   *)
(* its status is running exactly as long as one message carries it, which  *)
(* Lineage says: a request that read another status than running finds no  *)
(* message on its way, and a run that finds the task running is the only   *)
(* one.  It takes that one app sends its requests one after the other      *)
(* (OneApp), and that no message came back whose work was committed        *)
(* already (again = 0).                                                    *)

OneApp == \A c, d \in Clients : c = d

-----------------------------------------------------------------------------
(* The messages, whatever the number of apps.                              *)

Begun(w) == run[w].phase # "idle"

(* A run under way holds its message, and no other run does.               *)
MessageHeld ==
    \A w \in Workers :
        IF Begun(w) THEN run[w].kick \in Kicks /\ queue[run[w].kick] = "held" ELSE run[w].kick = NoKick
OwnMessage == \A v, w \in Workers : Begun(v) /\ Begun(w) /\ run[v].kick = run[w].kick => v = w

(* A request that committed has promised the message it will queue.        *)
Promised ==
    \A c \in Clients :
        IF req[c].phase = "kick" THEN req[c].kick \in Kicks /\ queue[req[c].kick] = "promised"
                                 ELSE req[c].kick = NoKick
OwnPromise ==
    \A c, d \in Clients : req[c].phase = "kick" /\ req[d].phase = "kick" /\ req[c].kick = req[d].kick => c = d

(* A run that reached its end knows which.                                 *)
EndKnown == \A w \in Workers : run[w].phase \in {"end", "deliver", "commit"} => run[w].end # "none"

MessageInv == MessageHeld /\ OwnMessage /\ Promised /\ OwnPromise /\ EndKnown

(* The steps of a run that keep its message.                               *)
Works(w) ==
    \/ Load(w) \/ Settle(w) \/ AskAgain(w) \/ SeesStop(w) \/ Limit(w) \/ Proceed(w) \/ Reply(w)
    \/ Save(w) \/ ClearFlag(w) \/ RemoveSaved(w) \/ DeliverFiles(w) \/ CommitRest(w) \/ Fail(w)

LEMMA GoesParts ==
    ASSUME TypeInv, NEW w \in Workers, NEW phase \in Phases, Goes(w, phase)
    PROVE  /\ run'[w] \in Run /\ run'[w].phase = phase
           /\ \A f \in {"kick", "place", "answers", "allowance", "resumed", "end"} : run'[w][f] = run[w][f]
           /\ \A v \in Workers \ {w} : run'[v] = run[v]
<1>1. run[w] \in Run /\ run \in [Workers -> Run] BY RunParts DEF TypeInv, TypeOK
<1>2. run'[w] = [run[w] EXCEPT !.phase = phase] BY <1>1 DEF Goes, Becomes
<1>3. \A v \in Workers \ {w} : run'[v] = run[v] BY <1>1 DEF Goes, Becomes
<1> QED BY <1>1, <1>2, <1>3 DEF Run

LEMMA BecomesParts ==
    ASSUME TypeInv, NEW w \in Workers, NEW r, Becomes(w, r)
    PROVE  run'[w] = r /\ \A v \in Workers \ {w} : run'[v] = run[v]
BY DEF TypeInv, TypeOK, Becomes

(* Where a run may go from each phase.                                     *)
PhaseStep(from, to) ==
    \/ from = "start" /\ to \in {"loop", "ack"}
    \/ from = "loop" /\ to \in {"loop", "suspend", "halt", "end", "model"}
    \/ from = "model" /\ to \in {"end", "loop", "suspend", "halt"}
    \/ from = "halt" /\ to = "clear"
    \/ from = "clear" /\ to = "halted"
    \/ from = "suspend" /\ to = "waits"
    \/ from = "end" /\ to \in {"deliver", "commit"}
    \/ from = "deliver" /\ to = "commit"
    \/ from \in {"halted", "waits", "commit", "failing"} /\ to = "ack"
    \/ from \notin {"idle", "failing", "ack"} /\ to = "failing"

LEMMA ReplyFrame ==
    ASSUME TypeInv, NEW w \in Workers, Reply(w)
    PROVE  /\ run[w].phase = "model" /\ run'[w].phase \in {"end", "loop", "suspend"}
           /\ run'[w].kick = run[w].kick
           /\ run'[w].phase = "end" => run'[w].end # "none"
           /\ \A v \in Workers \ {w} : run'[v] = run[v]
<1> DEFINE r == OneMoreStep(run[w])
<1>1. run[w].phase = "model" BY DEF Reply
<1>2. r \in Run /\ r.phase = "model" /\ r.kick = run[w].kick BY <1>1, OneMoreStepType
<1> HIDE DEF r
<1>3. ASSUME NEW x, Becomes(w, x), x.phase \in {"end", "loop", "suspend"}, x.kick = r.kick,
             x.phase = "end" => x.end # "none"
      PROVE  /\ run'[w].phase \in {"end", "loop", "suspend"}
             /\ run'[w].kick = run[w].kick
             /\ run'[w].phase = "end" => run'[w].end # "none"
             /\ \A v \in Workers \ {w} : run'[v] = run[v]
  BY <1>2, <1>3, BecomesParts
<1>4. \/ \E end \in {"done", "failed"} : Becomes(w, Ending(r, end))
      \/ Becomes(w, Going(r))
      \/ \E n \in 0..r.allowance : Becomes(w, Making(r, n))
      \/ \E calls \in SUBSET Calls : Becomes(w, Asking(r, calls))
  BY ReplyBecomes DEF r
<1>5. Going(r).kick = r.kick BY <1>2 DEF Going, Run
<1> QED BY <1>1, <1>2, <1>3, <1>4, <1>5, ReplyParts

LEMMA WorksFrame ==
    ASSUME TypeInv, NEW w \in Workers, Works(w)
    PROVE  /\ PhaseStep(run[w].phase, run'[w].phase)
           /\ run'[w].kick = run[w].kick
           /\ run'[w].phase = "end" => run'[w].end # "none"
           /\ run[w].phase \in {"end", "deliver", "commit"} => run'[w].end = run[w].end
           /\ \A v \in Workers \ {w} : run'[v] = run[v]
           /\ UNCHANGED <<req, queue, turn, crashes, again>>
<1>0. run[w] \in Run BY RunParts DEF TypeInv
<1>1. CASE Load(w)
  <2>1. UNCHANGED <<req, queue, turn, crashes, again>> /\ run[w].phase = "start" BY <1>1 DEF Load
  <2>2. CASE Goes(w, "ack") BY <2>1, <2>2, GoesParts DEF Phases, PhaseStep
  <2> DEFINE r == [run[w] EXCEPT !.phase = "loop", !.place = saved.place, !.answers = saved.answers,
                                 !.allowance = Allowance(saved), !.resumed = saved.state = "kept"]
  <2>3. r.phase = "loop" /\ r.kick = run[w].kick BY <1>0 DEF Run
  <2>4. CASE Becomes(w, r) BY <2>1, <2>3, <2>4, BecomesParts DEF PhaseStep
  <2> QED BY <1>1, <2>2, <2>4 DEF Load
<1>2. CASE Settle(w)
  <2>1. Settled(run[w]).phase = "loop" /\ Settled(run[w]).kick = run[w].kick
    BY <1>0, <1>2, SettledType DEF Settle
  <2> QED BY <1>2, <2>1, BecomesParts DEF Settle, PhaseStep
<1>3. CASE AskAgain(w) BY <1>3, GoesParts DEF AskAgain, Phases, PhaseStep
<1>4. CASE SeesStop(w) BY <1>4, GoesParts DEF SeesStop, Phases, PhaseStep
<1>5. CASE Limit(w)
  <2>1. [run[w] EXCEPT !.phase = "end", !.end = "failed"].phase = "end"
        /\ [run[w] EXCEPT !.phase = "end", !.end = "failed"].end = "failed"
        /\ [run[w] EXCEPT !.phase = "end", !.end = "failed"].kick = run[w].kick BY <1>0 DEF Run
  <2> QED BY <1>5, <2>1, BecomesParts DEF Limit, PhaseStep
<1>6. CASE Proceed(w) BY <1>6, GoesParts DEF Proceed, Phases, PhaseStep
<1>7. CASE Reply(w) BY <1>7, ReplyFrame DEF Reply, PhaseStep
<1>8. CASE Save(w) BY <1>8, GoesParts DEF Save, Phases, PhaseStep
<1>9. CASE ClearFlag(w) BY <1>9, GoesParts DEF ClearFlag, Phases, PhaseStep
<1>10. CASE RemoveSaved(w) BY <1>10, GoesParts DEF RemoveSaved, Phases, PhaseStep
<1>11. CASE DeliverFiles(w) BY <1>11, GoesParts DEF DeliverFiles, Phases, PhaseStep
<1>12. CASE CommitRest(w)
  <2>1. UNCHANGED <<req, queue, turn, crashes, again>> /\ Goes(w, "ack")
        /\ run[w].phase \in {"halted", "waits", "commit", "failing"} BY <1>12 DEF CommitRest
  <2> QED BY <2>1, GoesParts DEF Phases, PhaseStep
<1>13. CASE Fail(w) BY <1>0, <1>13, GoesParts DEF Fail, Phases, PhaseStep, Run
<1> QED BY <1>1, <1>2, <1>3, <1>4, <1>5, <1>6, <1>7, <1>8, <1>9, <1>10, <1>11, <1>12, <1>13 DEF Works

(* The steps that leave every run and every request alone.                 *)
Beside == Evict \/ FlagExpires \/ Turn \/ UNCHANGED vars

LEMMA BesideFrame ==
    ASSUME Beside
    PROVE  /\ UNCHANGED <<req, queue, run, ran, made, grants, free, delivered, crashes, again, approved>>
           /\ \/ task' = task
              \/ task' = [task EXCEPT !.reported = TRUE]
              \/ task.status = "needs_approval" /\ Finish("stopped", "stopped")
           /\ saved' \in {saved, [NoPausedRun EXCEPT !.state = "gone"]}
           /\ saved' # saved => saved.state = "kept" /\ task' = task
<1>1. CASE Evict BY <1>1 DEF Evict, counts
<1>2. CASE FlagExpires BY <1>2 DEF FlagExpires, counts
<1>3. CASE Turn
  BY <1>3 DEF Turn, Drain, Check, AgentStops, TurnCommits, TurnRollsBack, Reported, counts
<1>4. CASE UNCHANGED vars BY <1>4 DEF vars, counts
<1> QED BY <1>1, <1>2, <1>3, <1>4 DEF Beside

(* A request goes on, and promises nothing yet.                            *)
Prepares(c) ==
    (\E kind \in Kinds : Read(c, kind)) \/ AskToStop(c) \/ StopWaiting(c) \/ FindExpired(c) \/ Look(c)
    \/ Answer(c) \/ ClearForResume(c)

LEMMA PreparesFrame ==
    ASSUME TypeInv, NEW c \in Clients, Prepares(c), req[c].phase # "kick" => req[c].kick = NoKick
    PROVE  /\ req[c].phase # "kick" /\ req'[c].phase # "kick" /\ req'[c].kick = NoKick
           /\ \A d \in Clients \ {c} : req'[d] = req[d]
           /\ UNCHANGED <<queue, run, crashes, again>>
<1>0. req \in [Clients -> Request] /\ req[c] \in Request BY DEF TypeInv, TypeOK
<1>1. ASSUME NEW kind \in Kinds, Read(c, kind)
      PROVE  /\ req[c].phase # "kick" /\ req'[c].phase # "kick" /\ req'[c].kick = NoKick
             /\ \A d \in Clients \ {c} : req'[d] = req[d]
             /\ UNCHANGED <<queue, run, crashes, again>>
  BY <1>0, <1>1 DEF Read, NoRequest
<1>2. CASE AskToStop(c) BY <1>0, <1>2 DEF AskToStop, Ends, NoRequest
<1>3. CASE StopWaiting(c) BY <1>0, <1>3 DEF StopWaiting, Ends, NoRequest
<1>4. CASE FindExpired(c) BY <1>0, <1>4 DEF FindExpired, Ends, NoRequest
<1>5. CASE Look(c) BY <1>0, <1>5 DEF Look, Ends, NoRequest
<1>6. CASE Answer(c)
  <2>1. req' = [req EXCEPT ![c] = [req[c] EXCEPT !.phase = "written"]]
        /\ UNCHANGED <<queue, run, crashes, again>> /\ req[c].phase = "read"
    BY <1>6 DEF Answer
  <2> QED BY <1>0, <2>1 DEF Request
<1>7. CASE ClearForResume(c)
  <2>1. req' = [req EXCEPT ![c] = [req[c] EXCEPT !.phase = "written"]]
        /\ UNCHANGED <<queue, run, crashes, again>> /\ req[c].phase = "read"
    BY <1>7 DEF ClearForResume
  <2> QED BY <1>0, <2>1 DEF Request
<1> QED BY <1>1, <1>2, <1>3, <1>4, <1>5, <1>6, <1>7 DEF Prepares

LEMMA CommitFrame ==
    ASSUME TypeInv, NEW c \in Clients, Commit(c)
    PROVE  /\ req[c].phase \in {"read", "written"} /\ req[c].kind \in {"start", "approve", "resume"}
           /\ req'[c].phase = "kick" /\ req'[c].kick \in Unused
           /\ queue' = [queue EXCEPT ![req'[c].kick] = "promised"]
           /\ \A d \in Clients \ {c} : req'[d] = req[d]
           /\ task'.status = "running"
           /\ UNCHANGED <<saved, run, counts, crashes, again>>
<1>0. req \in [Clients -> Request] /\ req[c] \in Request /\ task \in Task BY DEF TypeInv, TypeOK
<1>1. PICK k \in Unused : /\ queue' = [queue EXCEPT ![k] = "promised"]
                          /\ req' = [req EXCEPT ![c] = [req[c] EXCEPT !.phase = "kick", !.kick = k]]
  BY DEF Commit
<1>2. req'[c].phase = "kick" /\ req'[c].kick = k BY <1>0, <1>1 DEF Request
<1>3. \A d \in Clients \ {c} : req'[d] = req[d] BY <1>0, <1>1
<1>4. req[c].phase \in {"read", "written"} /\ req[c].kind \in {"start", "approve", "resume"}
      /\ task' = SetRunning(req[c].kind)
      /\ UNCHANGED <<saved, run, counts, crashes, again>>
  BY DEF Commit, TypeInv, Writers
<1>5. task'.status = "running" BY <1>0, <1>4 DEF SetRunning, Task
<1> QED BY <1>1, <1>2, <1>3, <1>4, <1>5

LEMMA CutOffFrame ==
    ASSUME TypeInv, NEW w \in Workers, CutOff(w)
    PROVE  /\ run[w].phase # "idle" /\ run'[w] = NoRun /\ \A v \in Workers \ {w} : run'[v] = run[v]
           /\ \E s \in {"queued", "lost"} : queue' = [queue EXCEPT ![run[w].kick] = s]
           /\ crashes' = crashes + 1 /\ again' = IF run[w].phase = "ack" THEN again + 1 ELSE again
           /\ UNCHANGED <<task, saved, req, counts>>
BY BecomesParts DEF CutOff

LEMMA DeliverFrame ==
    ASSUME TypeInv, NEW w \in Workers, NEW k \in Kicks, Deliver(w, k)
    PROVE  /\ run[w].phase = "idle" /\ queue[k] = "queued" /\ queue' = [queue EXCEPT ![k] = "held"]
           /\ run'[w] = [NoRun EXCEPT !.phase = "start", !.kick = k]
           /\ run'[w].phase = "start" /\ run'[w].kick = k
           /\ \A v \in Workers \ {w} : run'[v] = run[v]
           /\ UNCHANGED <<task, saved, req, counts, crashes, again>>
<1>1. run'[w] = [NoRun EXCEPT !.phase = "start", !.kick = k] /\ \A v \in Workers \ {w} : run'[v] = run[v]
  BY BecomesParts DEF Deliver
<1>2. run'[w].phase = "start" /\ run'[w].kick = k BY <1>1 DEF NoRun
<1> QED BY <1>1, <1>2 DEF Deliver

LEMMA AcknowledgeFrame ==
    ASSUME TypeInv, NEW w \in Workers, Acknowledge(w)
    PROVE  /\ run[w].phase = "ack" /\ run'[w] = NoRun /\ \A v \in Workers \ {w} : run'[v] = run[v]
           /\ queue' = [queue EXCEPT ![run[w].kick] = "done"]
           /\ UNCHANGED <<task, saved, req, counts, crashes, again>>
BY BecomesParts DEF Acknowledge

LEMMA AbortFrame ==
    ASSUME TypeInv, MessageInv, NEW c \in Clients, Abort(c)
    PROVE  /\ req'[c] = NoRequest /\ \A d \in Clients \ {c} : req'[d] = req[d]
           /\ IF req[c].phase = "kick" THEN queue' = [queue EXCEPT ![req[c].kick] = "lost"]
                                       ELSE queue' = queue
           /\ UNCHANGED <<task, saved, run, counts, crashes, again>>
<1>1. req'[c] = NoRequest /\ \A d \in Clients \ {c} : req'[d] = req[d]
  BY DEF Abort, Ends, TypeInv, TypeOK
<1>2. queue' = [k \in Kicks |-> IF k = req[c].kick THEN "lost" ELSE queue[k]] BY DEF Abort
<1>3. queue \in [Kicks -> QueueStates] BY DEF TypeInv, TypeOK
<1>4. CASE req[c].phase # "kick"
  <2>1. req[c].kick = NoKick BY <1>4 DEF MessageInv, Promised
  <2>2. queue' = queue BY <1>2, <1>3, <2>1, ConstantsAssumption
  <2> QED BY <1>1, <1>4, <2>2 DEF Abort
<1>5. CASE req[c].phase = "kick"
  <2>1. req[c].kick \in Kicks BY <1>5 DEF MessageInv, Promised
  <2>2. queue' = [queue EXCEPT ![req[c].kick] = "lost"] BY <1>2, <1>3, <2>1
  <2> QED BY <1>1, <1>5, <2>2 DEF Abort
<1> QED BY <1>4, <1>5

LEMMA KickFrame ==
    ASSUME TypeInv, NEW c \in Clients, Kick(c)
    PROVE  /\ req[c].phase = "kick" /\ req'[c] = NoRequest /\ \A d \in Clients \ {c} : req'[d] = req[d]
           /\ queue' = [queue EXCEPT ![req[c].kick] = "queued"]
           /\ UNCHANGED <<task, saved, run, counts, crashes, again>>
BY EndsType DEF Kick

(* Every step is one of these.                                             *)
LEMMA StepKinds ==
    ASSUME [Next]_vars
    PROVE  \/ \E c \in Clients : Prepares(c) \/ Commit(c) \/ Kick(c) \/ Abort(c)
           \/ Beside
           \/ \E w \in Workers : (\E k \in Kicks : Deliver(w, k)) \/ Works(w) \/ Acknowledge(w) \/ CutOff(w)
BY DEF Next, Handle, RunStep, Prepares, Works, Beside

LEMMA MessageInit == Init => MessageInv
BY DEF Init, MessageInv, MessageHeld, OwnMessage, Promised, OwnPromise, EndKnown, Begun, NoRun, NoRequest

LEMMA MessageStep == TypeInv /\ MessageInv /\ [Next]_vars => MessageInv'
<1> SUFFICES ASSUME TypeInv, MessageInv, [Next]_vars PROVE MessageInv' OBVIOUS
<1> USE DEF MessageInv
<1>0. queue \in [Kicks -> QueueStates] BY DEF TypeInv, TypeOK
<1>1. ASSUME NEW c \in Clients, Prepares(c) PROVE MessageInv'
  <2>1. req[c].phase # "kick" => req[c].kick = NoKick BY DEF Promised
  <2>2. UNCHANGED <<queue, run>> BY <1>1, <2>1, PreparesFrame
  <2>3. Promised' /\ OwnPromise' BY <1>1, <2>1, PreparesFrame DEF Promised, OwnPromise
  <2> QED BY <2>2, <2>3 DEF MessageHeld, OwnMessage, EndKnown, Begun
<1>2. ASSUME NEW c \in Clients, Commit(c) PROVE MessageInv'
  <2> DEFINE k == req'[c].kick
  <2>1. k \in Kicks /\ queue[k] = "unused" BY <1>2, CommitFrame DEF Unused
  <2>2. queue' = [queue EXCEPT ![k] = "promised"] /\ run' = run BY <1>2, CommitFrame
  <2>3. req'[c].phase = "kick" /\ \A d \in Clients \ {c} : req'[d] = req[d] BY <1>2, CommitFrame
  <2>4. MessageHeld' BY <1>0, <2>1, <2>2 DEF MessageHeld, Begun
  <2>5. Promised' BY <1>0, <2>1, <2>2, <2>3 DEF Promised
  <2>6. OwnPromise' BY <2>1, <2>3 DEF Promised, OwnPromise
  <2> QED BY <2>2, <2>4, <2>5, <2>6 DEF OwnMessage, EndKnown, Begun
<1>3. ASSUME NEW c \in Clients, Kick(c) \/ Abort(c) PROVE MessageInv'
  <2>1. req'[c] = NoRequest /\ (\A d \in Clients \ {c} : req'[d] = req[d]) /\ run' = run
    BY <1>3, KickFrame, AbortFrame
  <2>2. \/ queue' = queue
        \/ req[c].phase = "kick" /\ \E s : queue' = [queue EXCEPT ![req[c].kick] = s]
    BY <1>3, KickFrame, AbortFrame
  <2>3. req[c].phase = "kick" => req[c].kick \in Kicks /\ queue[req[c].kick] = "promised"
    BY DEF Promised
  <2>4. MessageHeld' BY <1>0, <2>1, <2>2, <2>3 DEF MessageHeld, Begun
  <2>5. Promised'
    <3>1. ASSUME NEW d \in Clients, d # c, req[d].phase = "kick"
          PROVE  req[d].kick \in Kicks /\ queue'[req[d].kick] = "promised"
      BY <1>0, <2>2, <2>3, <3>1 DEF Promised, OwnPromise
    <3> QED BY <2>1, <3>1 DEF Promised, NoRequest
  <2>6. OwnPromise' BY <2>1 DEF OwnPromise, NoRequest
  <2> QED BY <2>1, <2>4, <2>5, <2>6 DEF OwnMessage, EndKnown, Begun
<1>4. CASE Beside
  <2>1. UNCHANGED <<req, queue, run>> BY <1>4, BesideFrame
  <2> QED BY <2>1 DEF MessageHeld, OwnMessage, Promised, OwnPromise, EndKnown, Begun
<1>5. ASSUME NEW w \in Workers, NEW k \in Kicks, Deliver(w, k) PROVE MessageInv'
  <2>1. queue[k] = "queued" /\ queue' = [queue EXCEPT ![k] = "held"] /\ req' = req
    BY <1>5, DeliverFrame
  <2>2. run'[w].phase = "start" /\ run'[w].kick = k /\ \A v \in Workers \ {w} : run'[v] = run[v]
    BY <1>5, DeliverFrame
  <2>3. MessageHeld' BY <1>0, <2>1, <2>2 DEF MessageHeld, Begun
  <2>4. OwnMessage' BY <2>1, <2>2 DEF MessageHeld, OwnMessage, Begun
  <2>5. Promised' /\ OwnPromise' BY <1>0, <2>1 DEF Promised, OwnPromise
  <2> QED BY <2>2, <2>3, <2>4, <2>5 DEF EndKnown
<1>6. ASSUME NEW w \in Workers, Works(w) PROVE MessageInv'
  <2>1. PhaseStep(run[w].phase, run'[w].phase) /\ run'[w].kick = run[w].kick
        /\ (\A v \in Workers \ {w} : run'[v] = run[v]) /\ UNCHANGED <<req, queue>>
    BY <1>6, WorksFrame
  <2>2. run[w].phase # "idle" /\ run'[w].phase # "idle" BY <2>1 DEF PhaseStep
  <2>3. EndKnown'
    <3>1. run'[w].phase \in {"deliver", "commit"} => run[w].phase \in {"end", "deliver"}
      BY <2>1 DEF PhaseStep
    <3> QED BY <1>6, <2>1, <3>1, WorksFrame DEF EndKnown
  <2> QED BY <2>1, <2>2, <2>3 DEF MessageHeld, OwnMessage, Promised, OwnPromise, Begun
<1>7. ASSUME NEW w \in Workers, Acknowledge(w) \/ CutOff(w) PROVE MessageInv'
  <2>1. run[w].phase # "idle" /\ run'[w] = NoRun /\ (\A v \in Workers \ {w} : run'[v] = run[v])
        /\ (\E s : queue' = [queue EXCEPT ![run[w].kick] = s]) /\ req' = req
    BY <1>7, AcknowledgeFrame, CutOffFrame
  <2>2. run[w].kick \in Kicks /\ queue[run[w].kick] = "held" BY <2>1 DEF MessageHeld, Begun
  <2>3. MessageHeld'
    <3>1. ASSUME NEW v \in Workers, v # w, run[v].phase # "idle"
          PROVE  run[v].kick \in Kicks /\ queue'[run[v].kick] = "held"
      BY <1>0, <2>1, <2>2, <3>1 DEF MessageHeld, OwnMessage, Begun
    <3> QED BY <2>1, <3>1 DEF MessageHeld, Begun, NoRun
  <2>4. OwnMessage' BY <2>1 DEF OwnMessage, Begun, NoRun
  <2>5. Promised' /\ OwnPromise' BY <1>0, <2>1, <2>2 DEF Promised, OwnPromise
  <2>6. EndKnown' BY <2>1 DEF EndKnown, NoRun
  <2> QED BY <2>3, <2>4, <2>5, <2>6
<1> QED BY <1>1, <1>2, <1>3, <1>4, <1>5, <1>6, <1>7, StepKinds

-----------------------------------------------------------------------------
(* What a run does to the task's row: nothing, until it commits its end.   *)
RestStatus(phase, end) ==
    CASE phase = "halted" -> "stopped"
      [] phase = "waits" -> "needs_approval"
      [] phase = "commit" -> end
      [] phase = "failing" -> "failed"

LEMMA WorksStatus ==
    ASSUME TypeInv, MessageInv, NEW w \in Workers, Works(w)
    PROVE  \/ /\ task' = task
              /\ run'[w].phase = "ack" => run[w].phase = "start" /\ task.status # "running"
              /\ run[w].phase = "start" /\ run'[w].phase = "loop" => task.status = "running"
           \/ /\ run[w].phase \in {"halted", "waits", "commit", "failing"} /\ run'[w].phase = "ack"
              /\ task'.status = RestStatus(run[w].phase, run[w].end)
              /\ task'.status \in {"stopped", "needs_approval", "done", "failed"}
              /\ UNCHANGED <<saved, counts>>
<1>0. PhaseStep(run[w].phase, run'[w].phase) /\ run[w] \in Run /\ task \in Task
  BY WorksFrame, RunParts DEF TypeInv, TypeOK
<1>1. CASE CommitRest(w)
  <2>1. run'[w].phase = "ack" /\ UNCHANGED <<saved, counts>>
    BY <1>1, GoesParts DEF CommitRest, Phases
  <2>2. run[w].phase = "commit" => run[w].end \in {"done", "failed"}
    BY <1>0 DEF MessageInv, EndKnown, Run
  <2>3. \A s, r : Finish(s, r) => task'.status = s BY <1>0 DEF Finish, Task
  <2> QED BY <1>1, <2>1, <2>2, <2>3 DEF CommitRest, RestStatus
<1>2. CASE Load(w)
  <2>1. task' = task /\ run[w].phase = "start" BY <1>2 DEF Load
  <2>2. CASE task.status = "running"
    <3> DEFINE r == [run[w] EXCEPT !.phase = "loop", !.place = saved.place, !.answers = saved.answers,
                                   !.allowance = Allowance(saved), !.resumed = saved.state = "kept"]
    <3>1. Becomes(w, r) BY <1>2, <2>2 DEF Load, Runnable
    <3>2. r.phase = "loop" BY <1>0 DEF Run
    <3> HIDE DEF r
    <3>3. run'[w] = r BY <3>1, BecomesParts
    <3>4. run'[w].phase = "loop" BY <3>2, <3>3
    <3> QED BY <2>1, <2>2, <3>4
  <2>3. CASE task.status # "running"
    <3>1. run'[w].phase = "ack" BY <1>2, <2>3, GoesParts DEF Load, Runnable, Phases
    <3> QED BY <2>1, <2>3, <3>1
  <2> QED BY <2>2, <2>3
<1>3. CASE ~CommitRest(w) /\ ~Load(w)
  <2>1. \/ task' = task /\ run[w].phase \notin {"start", "halted", "waits", "commit", "failing"}
        \/ Fail(w)
    BY <1>3 DEF Works, Settle, AskAgain, SeesStop, Limit, Proceed, Reply, Save, ClearFlag,
                RemoveSaved, DeliverFiles
  <2>2. Fail(w) => task' = task /\ run'[w].phase = "failing" BY GoesParts DEF Fail, Phases
  <2> QED BY <1>0, <2>1, <2>2 DEF PhaseStep
<1> QED BY <1>1, <1>2, <1>3

Carried(k) == \E w \in Workers : run[w].kick = k /\ run[w].phase \notin {"idle", "ack"}

(* A message that will still carry the task to a worker, or has.           *)
Live(k) == queue[k] \in {"promised", "queued"} \/ Carried(k)

(* NoOrphanTask is inductive as it is, given what is known of messages.    *)
Hopeful == task.status = "running" => \E k \in Kicks : Live(k) \/ queue[k] = "lost"

LEMMA HopefulIsNoOrphan == MessageInv => (Hopeful <=> NoOrphanTask)
<1> SUFFICES ASSUME MessageInv PROVE Hopeful <=> NoOrphanTask OBVIOUS
<1>1. \A w \in Workers, k \in Kicks : run[w].kick = k => run[w].phase # "idle"
  BY ConstantsAssumption DEF MessageInv, MessageHeld, Begun
<1> QED BY <1>1 DEF Hopeful, NoOrphanTask, Live, Carried

LEMMA HopefulStep == TypeInv /\ MessageInv /\ Hopeful /\ [Next]_vars => Hopeful'
<1> SUFFICES ASSUME TypeInv, MessageInv, Hopeful, [Next]_vars, task'.status = "running"
             PROVE  \E k \in Kicks : (Live(k) \/ queue[k] = "lost")'
  BY DEF Hopeful
<1>0. queue \in [Kicks -> QueueStates] /\ task \in Task BY DEF TypeInv, TypeOK
<1>h. task.status = "running" => \E k \in Kicks : Live(k) \/ queue[k] = "lost" BY DEF Hopeful
<1>1. ASSUME NEW c \in Clients, Prepares(c) PROVE \E k \in Kicks : (Live(k) \/ queue[k] = "lost")'
  <2>1. UNCHANGED <<queue, run>> BY <1>1, PreparesFrame DEF MessageInv, Promised
  <2>2. task.status = "running"
    <3>1. CASE StopWaiting(c) \/ FindExpired(c)
      BY <1>0, <3>1 DEF StopWaiting, FindExpired, Finish, Task
    <3> QED BY <1>1, <3>1 DEF Prepares, Read, AskToStop, Look, Answer, ClearForResume
  <2> QED BY <1>h, <2>1, <2>2 DEF Live, Carried
<1>2. ASSUME NEW c \in Clients, Commit(c) PROVE \E k \in Kicks : (Live(k) \/ queue[k] = "lost")'
  <2>1. req'[c].kick \in Kicks /\ queue'[req'[c].kick] = "promised"
    BY <1>0, <1>2, CommitFrame DEF Unused
  <2> QED BY <2>1 DEF Live
<1>3. ASSUME NEW c \in Clients, Kick(c) \/ Abort(c) PROVE \E k \in Kicks : (Live(k) \/ queue[k] = "lost")'
  <2>1. UNCHANGED <<task, run>> BY <1>3, KickFrame, AbortFrame
  <2>2. queue' = queue \/ \E s \in {"queued", "lost"} : queue' = [queue EXCEPT ![req[c].kick] = s]
    BY <1>3, KickFrame, AbortFrame
  <2>3. PICK k \in Kicks : Live(k) \/ queue[k] = "lost" BY <1>h, <2>1
  <2>4. (Live(k) \/ queue[k] = "lost")' BY <1>0, <2>1, <2>2, <2>3 DEF Live, Carried
  <2> QED BY <2>4
<1>4. CASE Beside
  <2>1. UNCHANGED <<queue, run>> /\ task.status = "running"
    BY <1>0, <1>4, BesideFrame DEF Finish, Task
  <2> QED BY <1>h, <2>1 DEF Live, Carried
<1>5. ASSUME NEW w \in Workers, NEW k \in Kicks, Deliver(w, k)
      PROVE  \E l \in Kicks : (Live(l) \/ queue[l] = "lost")'
  <2>1. run'[w].kick = k /\ run'[w].phase = "start" BY <1>5, DeliverFrame
  <2>2. Live(k)' BY <2>1 DEF Live, Carried
  <2> QED BY <2>2
<1>6. ASSUME NEW w \in Workers, Works(w) PROVE \E k \in Kicks : (Live(k) \/ queue[k] = "lost")'
  <2>1. task' = task /\ run'[w].phase # "ack" BY <1>6, WorksStatus
  <2>2. run'[w].phase # "idle" /\ run'[w].kick = run[w].kick /\ queue' = queue
        /\ \A v \in Workers \ {w} : run'[v] = run[v]
    BY <1>6, WorksFrame DEF PhaseStep
  <2>3. PICK k \in Kicks : Live(k) \/ queue[k] = "lost" BY <1>h, <2>1
  <2>4. (Live(k) \/ queue[k] = "lost")' BY <2>1, <2>2, <2>3 DEF Live, Carried
  <2> QED BY <2>4
<1>7. ASSUME NEW w \in Workers, Acknowledge(w) \/ CutOff(w)
      PROVE  \E k \in Kicks : (Live(k) \/ queue[k] = "lost")'
  <2>1. run'[w] = NoRun /\ (\A v \in Workers \ {w} : run'[v] = run[v]) /\ task' = task
    BY <1>7, AcknowledgeFrame, CutOffFrame
  <2>2. PICK k \in Kicks : Live(k) \/ queue[k] = "lost" BY <1>h, <2>1
  <2>3. CASE CutOff(w)
    <3>1. \E s \in {"queued", "lost"} : queue' = [queue EXCEPT ![run[w].kick] = s] BY <2>3, CutOffFrame
    <3>2. (Live(k) \/ queue[k] = "lost")' BY <1>0, <2>1, <2>2, <3>1 DEF Live, Carried
    <3> QED BY <3>2
  <2>4. CASE Acknowledge(w)
    <3>1. run[w].phase = "ack" /\ queue' = [queue EXCEPT ![run[w].kick] = "done"]
      BY <2>4, AcknowledgeFrame
    <3>2. queue[run[w].kick] = "held" BY <3>1 DEF MessageInv, MessageHeld, Begun
    <3>3. CASE Carried(k)
      <4>1. PICK v \in Workers : run[v].kick = k /\ run[v].phase \notin {"idle", "ack"}
        BY <3>3 DEF Carried
      <4>2. v # w BY <3>1, <4>1
      <4> QED BY <2>1, <4>1, <4>2 DEF Live, Carried
    <3>4. CASE ~Carried(k)
      <4>1. queue'[k] = queue[k] BY <1>0, <2>2, <3>1, <3>2, <3>4 DEF Live
      <4> QED BY <2>2, <3>4, <4>1 DEF Live
    <3> QED BY <3>3, <3>4
  <2> QED BY <1>7, <2>3, <2>4
<1> QED BY <1>1, <1>2, <1>3, <1>4, <1>5, <1>6, <1>7, StepKinds

(***************************************************************************)
(* A running task has a message that somebody has or will be given, unless *)
(* a process died with the only one: however many apps start, answer, stop *)
(* and resume it, nobody commits it as running without promising a message *)
(* first, and no run lets go of its own while the task runs                *)
(* (background/jobs.py and control.py).                                    *)
(***************************************************************************)
THEOREM NobodyOrphans == Spec => []NoOrphanTask
<1>1. Init => TypeInv /\ MessageInv /\ Hopeful
  <2>1. Init => Hopeful BY DEF Init, Hopeful
  <2> QED BY <2>1, InitType, MessageInit
<1>2. TypeInv /\ MessageInv /\ Hopeful /\ [Next]_vars => (TypeInv /\ MessageInv /\ Hopeful)'
  BY TypeStep, MessageStep, HopefulStep
<1>3. TypeInv /\ MessageInv /\ Hopeful => NoOrphanTask BY HopefulIsNoOrphan
<1> QED BY <1>1, <1>2, <1>3, PTL DEF Spec

-----------------------------------------------------------------------------
(* The messages alive after a step were alive before it, but for the one a *)
(* commit promises.                                                        *)

LEMMA LiveFrame ==
    ASSUME UNCHANGED <<queue, run>>, NEW k \in Kicks, Live(k)'
    PROVE  Live(k)
BY DEF Live, Carried

LEMMA CommitLive ==
    ASSUME TypeInv, NEW c \in Clients, Commit(c), NEW k \in Kicks, Live(k)', k # req'[c].kick
    PROVE  Live(k)
<1>1. run' = run /\ queue' = [queue EXCEPT ![req'[c].kick] = "promised"] BY CommitFrame
<1> QED BY <1>1 DEF Live, Carried, TypeInv, TypeOK

LEMMA KickLive ==
    ASSUME TypeInv, MessageInv, NEW c \in Clients, Kick(c) \/ Abort(c), NEW k \in Kicks, Live(k)'
    PROVE  Live(k)
<1>1. run' = run BY KickFrame, AbortFrame
<1>2. \/ queue' = queue
      \/ req[c].phase = "kick" /\ \E s : queue' = [queue EXCEPT ![req[c].kick] = s]
  BY KickFrame, AbortFrame
<1>3. req[c].phase = "kick" => queue[req[c].kick] = "promised" BY DEF MessageInv, Promised
<1> QED BY <1>1, <1>2, <1>3 DEF Live, Carried, TypeInv, TypeOK

LEMMA DeliverLive ==
    ASSUME TypeInv, NEW w \in Workers, NEW k \in Kicks, Deliver(w, k), NEW l \in Kicks, Live(l)'
    PROVE  Live(l)
<1>1. /\ queue[k] = "queued" /\ queue' = [queue EXCEPT ![k] = "held"]
      /\ run'[w].kick = k /\ \A v \in Workers \ {w} : run'[v] = run[v]
  BY DeliverFrame
<1>2. CASE l = k BY <1>1, <1>2 DEF Live
<1>3. CASE l # k BY <1>1, <1>3 DEF Live, Carried, TypeInv, TypeOK
<1> QED BY <1>2, <1>3

(* A run at work has a live message.                                       *)
LEMMA WorksCarried ==
    ASSUME TypeInv, MessageInv, NEW w \in Workers, Works(w)
    PROVE  /\ run[w].phase \notin {"idle", "ack"} /\ run'[w].phase # "idle"
           /\ run[w].kick \in Kicks /\ queue[run[w].kick] = "held" /\ Live(run[w].kick)
<1>1. PhaseStep(run[w].phase, run'[w].phase) BY WorksFrame
<1>2. run[w].phase \notin {"idle", "ack"} /\ run'[w].phase # "idle" BY <1>1 DEF PhaseStep
<1>3. run[w].kick \in Kicks /\ queue[run[w].kick] = "held" BY <1>2 DEF MessageInv, MessageHeld, Begun
<1> QED BY <1>2, <1>3 DEF Live, Carried

LEMMA WorksLive ==
    ASSUME TypeInv, MessageInv, NEW w \in Workers, Works(w), NEW k \in Kicks, Live(k)'
    PROVE  Live(k) /\ (run'[w].phase = "ack" => k # run[w].kick)
<1>1. /\ run'[w].kick = run[w].kick /\ \A v \in Workers \ {w} : run'[v] = run[v]
      /\ queue' = queue
  BY WorksFrame
<1>2. run[w].phase \notin {"idle", "ack"} /\ queue[run[w].kick] = "held" BY WorksCarried
<1>3. Live(k) BY <1>1, <1>2 DEF Live, Carried
<1>4. ASSUME run'[w].phase = "ack", k = run[w].kick PROVE FALSE
  <2>1. PICK v \in Workers : run'[v].kick = k /\ run'[v].phase \notin {"idle", "ack"}
    BY <1>1, <1>2, <1>4 DEF Live, Carried
  <2>2. v # w /\ run'[v] = run[v] BY <1>1, <1>4, <2>1
  <2> QED BY <1>2, <1>4, <2>1, <2>2 DEF MessageInv, OwnMessage, Begun
<1> QED BY <1>3, <1>4

LEMMA AcknowledgeLive ==
    ASSUME TypeInv, NEW w \in Workers, Acknowledge(w), NEW k \in Kicks, Live(k)'
    PROVE  Live(k)
<1>1. /\ run'[w] = NoRun /\ \A v \in Workers \ {w} : run'[v] = run[v]
      /\ queue' = [queue EXCEPT ![run[w].kick] = "done"]
  BY AcknowledgeFrame
<1>2. queue'[k] \in {"promised", "queued"} => queue[k] \in {"promised", "queued"}
  BY <1>1 DEF TypeInv, TypeOK
<1> QED BY <1>1, <1>2 DEF Live, Carried, NoRun

LEMMA CutOffLive ==
    ASSUME TypeInv, NEW w \in Workers, CutOff(w), run[w].phase # "ack", NEW k \in Kicks, Live(k)'
    PROVE  Live(k)
<1>1. /\ run[w].phase # "idle" /\ run'[w] = NoRun /\ \A v \in Workers \ {w} : run'[v] = run[v]
      /\ \E s : queue' = [queue EXCEPT ![run[w].kick] = s]
  BY CutOffFrame
<1>2. CASE k = run[w].kick BY <1>1, <1>2 DEF Live, Carried
<1>3. CASE k # run[w].kick
  <2>1. queue'[k] = queue[k] BY <1>1, <1>3 DEF TypeInv, TypeOK
  <2> QED BY <1>1, <2>1 DEF Live, Carried, NoRun
<1> QED BY <1>2, <1>3

-----------------------------------------------------------------------------
(* The status is the claim.                                                *)

Undecided(c) == req[c].phase \in {"read", "written"}

MayReopen == {"needs_approval", "stopped"}

(* What a task may be by now that a request under way has read.            *)
StatusFor(c) ==
    CASE req[c].kind = "start" -> {"none"}
      [] req[c].kind = "resume" -> {"stopped"}
      [] req[c].kind = "stop" /\ req[c].seen = "running" -> TaskStatus
      [] OTHER -> MayReopen

OneLive         == \A k, l \in Kicks : Live(k) /\ Live(l) => k = l
RunningWhenLive == \A k \in Kicks : Live(k) => task.status = "running"
AskedOf         == \A c \in Clients : Undecided(c) => task.status \in StatusFor(c)

Lineage == OneLive /\ RunningWhenLive /\ AskedOf

LineageInv == again = 0 => Lineage

LEMMA LineageInit == Init => LineageInv
BY DEF Init, LineageInv, Lineage, OneLive, RunningWhenLive, AskedOf, Live, Carried, Undecided, NoRun,
       NoRequest

(* A request that goes on undecided: it has just read the row, or goes on. *)
LEMMA UndecidedStep ==
    ASSUME TypeInv, NEW c \in Clients, Prepares(c), Undecided(c)'
    PROVE  /\ task' = task
           /\ \/ Undecided(c) /\ req'[c].kind = req[c].kind /\ req'[c].seen = req[c].seen
              \/ Accepts(req'[c].kind, task.status) /\ req'[c].seen = task.status
<1>0. req \in [Clients -> Request] /\ req[c] \in Request BY DEF TypeInv, TypeOK
<1>1. ASSUME NEW kind \in Kinds, Read(c, kind)
      PROVE  task' = task /\ Accepts(req'[c].kind, task.status) /\ req'[c].seen = task.status
  BY <1>0, <1>1 DEF Read, NoRequest
<1>2. CASE AskToStop(c) \/ StopWaiting(c) \/ FindExpired(c) \/ Look(c)
  <2>1. Ends(c) BY <1>2 DEF AskToStop, StopWaiting, FindExpired, Look
  <2>2. req'[c] = NoRequest BY <2>1, EndsType
  <2> QED BY <2>2 DEF Undecided, NoRequest
<1>3. CASE Answer(c) \/ ClearForResume(c)
  <2>1. req' = [req EXCEPT ![c] = [req[c] EXCEPT !.phase = "written"]] /\ task' = task
        /\ req[c].phase = "read"
    BY <1>3 DEF Answer, ClearForResume
  <2>2. req'[c].kind = req[c].kind /\ req'[c].seen = req[c].seen BY <1>0, <2>1 DEF Request
  <2> QED BY <2>1, <2>2 DEF Undecided
<1> QED BY <1>1, <1>2, <1>3 DEF Prepares

LEMMA AgainGrows ==
    ASSUME TypeInv, MessageInv, [Next]_vars, again' = 0
    PROVE  again = 0 /\ \A w \in Workers : CutOff(w) => run[w].phase # "ack"
<1>0. again \in Nat BY DEF TypeInv, TypeOK
<1>1. \A w \in Workers : CutOff(w) => again' \in {again, again + 1} /\ (again' = again => run[w].phase # "ack")
  BY <1>0, CutOffFrame
<1>2. ASSUME ~\E w \in Workers : CutOff(w) PROVE again' = again
  <2>1. \A c \in Clients : req[c].phase # "kick" => req[c].kick = NoKick BY DEF MessageInv, Promised
  <2>2. ASSUME NEW c \in Clients, Prepares(c) \/ Commit(c) \/ Kick(c) \/ Abort(c) PROVE again' = again
    BY <2>1, <2>2, PreparesFrame, CommitFrame, KickFrame, AbortFrame
  <2>3. CASE Beside BY <2>3, BesideFrame
  <2>4. ASSUME NEW w \in Workers, (\E k \in Kicks : Deliver(w, k)) \/ Works(w) \/ Acknowledge(w)
        PROVE  again' = again
    BY <2>4, DeliverFrame, WorksFrame, AcknowledgeFrame
  <2> QED BY <1>2, <2>2, <2>3, <2>4, StepKinds
<1> QED BY <1>0, <1>1, <1>2

LEMMA LineageStep ==
    OneApp /\ TypeInv /\ MessageInv /\ LineageInv /\ [Next]_vars => LineageInv'
<1> SUFFICES ASSUME OneApp, TypeInv, MessageInv, LineageInv, [Next]_vars, again' = 0 PROVE Lineage'
  BY DEF LineageInv
<1>0. Lineage /\ \A w \in Workers : CutOff(w) => run[w].phase # "ack" BY AgainGrows DEF LineageInv
<1>t. task \in Task /\ req \in [Clients -> Request] BY DEF TypeInv, TypeOK
<1> USE DEF Lineage
<1>l. ASSUME \A k \in Kicks : Live(k)' => Live(k), task'.status = task.status
      PROVE  OneLive' /\ RunningWhenLive'
  BY <1>0, <1>l DEF OneLive, RunningWhenLive
<1>1. ASSUME NEW c \in Clients, Prepares(c) PROVE Lineage'
  <2>1. req[c].phase # "kick" => req[c].kick = NoKick BY DEF MessageInv, Promised
  <2>2. UNCHANGED <<queue, run>> BY <1>1, <2>1, PreparesFrame
  <2>3. \A k \in Kicks : Live(k)' => Live(k) BY <2>2, LiveFrame
  <2>4. OneLive' BY <1>0, <2>3 DEF OneLive
  <2>5. RunningWhenLive'
    <3>1. CASE StopWaiting(c) \/ FindExpired(c)
      <4>1. Undecided(c) /\ task.status \in MayReopen
        BY <1>0, <3>1 DEF StopWaiting, FindExpired, AskedOf, StatusFor, Undecided
      <4> QED BY <1>0, <2>3, <4>1 DEF RunningWhenLive, MayReopen
    <3>2. CASE ~(StopWaiting(c) \/ FindExpired(c))
      <4>1. task' = task BY <1>1, <3>2 DEF Prepares, Read, AskToStop, Look, Answer, ClearForResume
      <4> QED BY <1>0, <2>3, <4>1 DEF RunningWhenLive
    <3> QED BY <3>1, <3>2
  <2>6. AskedOf'
    <3> SUFFICES ASSUME Undecided(c)' PROVE task'.status \in StatusFor(c)' BY DEF OneApp, AskedOf
    <3>1. task' = task /\ task.status \in TaskStatus BY <1>1, <1>t, UndecidedStep DEF Task
    <3>2. CASE Undecided(c) /\ req'[c].kind = req[c].kind /\ req'[c].seen = req[c].seen
      BY <1>0, <3>1, <3>2 DEF AskedOf, StatusFor
    <3>3. CASE Accepts(req'[c].kind, task.status) /\ req'[c].seen = task.status
      BY <3>1, <3>3 DEF Accepts, StatusFor, MayReopen
    <3> QED BY <1>1, <3>2, <3>3, UndecidedStep
  <2> QED BY <2>4, <2>5, <2>6
<1>2. ASSUME NEW c \in Clients, Commit(c) PROVE Lineage'
  <2>1. req[c].phase \in {"read", "written"} /\ req[c].kind \in {"start", "approve", "resume"}
        /\ req'[c].phase = "kick" /\ task'.status = "running"
    BY <1>2, CommitFrame
  <2>2. task.status # "running"
    BY <1>0, <2>1 DEF AskedOf, Undecided, StatusFor, MayReopen
  <2>3. \A k \in Kicks : Live(k)' => k = req'[c].kick
    BY <1>0, <1>2, <2>2, CommitLive DEF RunningWhenLive
  <2>4. AskedOf' BY <2>1 DEF OneApp, AskedOf, Undecided
  <2> QED BY <2>1, <2>3, <2>4 DEF OneLive, RunningWhenLive
<1>3. ASSUME NEW c \in Clients, Kick(c) \/ Abort(c) PROVE Lineage'
  <2>1. req'[c] = NoRequest /\ task' = task BY <1>3, KickFrame, AbortFrame
  <2>2. \A k \in Kicks : Live(k)' => Live(k) BY <1>3, KickLive
  <2>3. AskedOf' BY <2>1 DEF OneApp, AskedOf, Undecided, NoRequest
  <2> QED BY <1>l, <2>1, <2>2, <2>3
<1>4. CASE Beside
  <2>1. UNCHANGED <<req, queue, run>> BY <1>4, BesideFrame
  <2>2. \A k \in Kicks : Live(k)' => Live(k) BY <2>1, LiveFrame
  <2>3. \/ task'.status = task.status
        \/ task.status = "needs_approval" /\ task'.status = "stopped"
    BY <1>4, <1>t, BesideFrame DEF Finish, Task
  <2>4. OneLive' /\ RunningWhenLive' BY <1>0, <2>2, <2>3 DEF OneLive, RunningWhenLive
  <2>5. AskedOf'
    BY <1>0, <2>1, <2>3 DEF AskedOf, Undecided, StatusFor, MayReopen, TaskStatus
  <2> QED BY <2>4, <2>5
<1>5. ASSUME NEW w \in Workers, NEW k \in Kicks, Deliver(w, k) PROVE Lineage'
  <2>1. \A l \in Kicks : Live(l)' => Live(l) BY <1>5, DeliverLive
  <2>2. UNCHANGED <<task, req>> BY <1>5, DeliverFrame
  <2>3. AskedOf' BY <1>0, <2>2 DEF AskedOf, Undecided, StatusFor
  <2> QED BY <1>l, <2>1, <2>2, <2>3
<1>6. ASSUME NEW w \in Workers, Works(w) PROVE Lineage'
  <2>1. req' = req BY <1>6, WorksFrame
  <2>2. \A k \in Kicks : Live(k)' => Live(k) /\ (run'[w].phase = "ack" => k # run[w].kick)
    BY <1>6, WorksLive
  <2>3. CASE task' = task
    <3>1. AskedOf' BY <1>0, <2>1, <2>3 DEF AskedOf, Undecided, StatusFor
    <3> QED BY <1>l, <2>2, <2>3, <3>1
  <2>4. CASE run[w].phase \notin {"idle", "ack"} /\ run'[w].phase = "ack" /\ task'.status \in TaskStatus
    <3>1. \A k \in Kicks : ~Live(k)' BY <1>0, <1>6, <2>2, <2>4, WorksCarried DEF OneLive
    <3>2. task.status = "running" BY <1>0, <1>6, WorksCarried DEF RunningWhenLive
    <3>3. AskedOf'
      BY <1>0, <2>1, <2>4, <3>2 DEF AskedOf, Undecided, StatusFor, MayReopen
    <3> QED BY <3>1, <3>3 DEF OneLive, RunningWhenLive
  <2>5. \/ task' = task
        \/ run[w].phase \notin {"idle", "ack"} /\ run'[w].phase = "ack" /\ task'.status \in TaskStatus
    BY <1>6, WorksStatus DEF TaskStatus
  <2> QED BY <2>3, <2>4, <2>5
<1>7. ASSUME NEW w \in Workers, Acknowledge(w) \/ CutOff(w) PROVE Lineage'
  <2>1. \A k \in Kicks : Live(k)' => Live(k) BY <1>0, <1>7, AcknowledgeLive, CutOffLive
  <2>2. UNCHANGED <<task, req>> BY <1>7, AcknowledgeFrame, CutOffFrame
  <2>3. AskedOf' BY <1>0, <2>2 DEF AskedOf, Undecided, StatusFor
  <2> QED BY <1>l, <2>1, <2>2, <2>3
<1> QED BY <1>1, <1>2, <1>3, <1>4, <1>5, <1>6, <1>7, StepKinds

LEMMA LineageIsOneRun == MessageInv /\ LineageInv => OneRun
<1> SUFFICES ASSUME MessageInv, LineageInv, again = 0, NEW v \in Workers, NEW w \in Workers,
                    run[v].phase \in Busy, run[w].phase \in Busy
             PROVE  v = w
  BY DEF OneRun
<1>1. /\ run[v].phase \notin {"idle", "ack"} /\ run[w].phase \notin {"idle", "ack"}
      /\ run[v].kick \in Kicks /\ run[w].kick \in Kicks
  BY DEF Busy, MessageInv, MessageHeld, Begun
<1>2. Live(run[v].kick) /\ Live(run[w].kick) BY <1>1 DEF Live, Carried
<1>3. run[v].kick = run[w].kick BY <1>1, <1>2 DEF LineageInv, Lineage, OneLive
<1> QED BY <1>1, <1>3 DEF MessageInv, OwnMessage, Begun

(***************************************************************************)
(* One app's requests never have a task run twice at once, though nobody   *)
(* claims it, however many workers there are and whichever of them die     *)
(* before they commit (background/control.py, approvals.py, jobs.py).      *)
(***************************************************************************)
THEOREM TaskRunsAlone == ASSUME OneApp PROVE Spec => []OneRun
<1>1. Init => TypeInv /\ MessageInv /\ LineageInv BY InitType, MessageInit, LineageInit
<1>2. TypeInv /\ MessageInv /\ LineageInv /\ [Next]_vars => (TypeInv /\ MessageInv /\ LineageInv)'
  BY TypeStep, MessageStep, LineageStep
<1>3. MessageInv /\ LineageInv => OneRun BY LineageIsOneRun
<1> QED BY <1>1, <1>2, <1>3, PTL DEF Spec

(* A task that ended has neither a message on its way nor a run at work,   *)
(* and no request that still means to change it.                           *)
LEMMA EndsStep ==
    ASSUME OneApp, TypeInv, MessageInv, LineageInv, [Next]_vars, again = 0, Ended
    PROVE  task'.status = task.status
<1>0. Lineage /\ task \in Task /\ task.status \in {"done", "failed"} BY DEF LineageInv, Ended, TypeInv, TypeOK
<1>1. \A k \in Kicks : ~Live(k) BY <1>0 DEF Lineage, RunningWhenLive
<1>2. ASSUME NEW c \in Clients, Prepares(c) PROVE task'.status = task.status
  <2>1. ~StopWaiting(c) /\ ~FindExpired(c)
    BY <1>0 DEF StopWaiting, FindExpired, Lineage, AskedOf, Undecided, StatusFor, MayReopen
  <2> QED BY <1>2, <2>1 DEF Prepares, Read, AskToStop, Look, Answer, ClearForResume
<1>3. ASSUME NEW c \in Clients, Commit(c) PROVE task'.status = task.status
  <2>1. req[c].phase \in {"read", "written"} /\ req[c].kind \in {"start", "approve", "resume"}
    BY <1>3, CommitFrame
  <2> QED BY <1>0, <2>1 DEF Lineage, AskedOf, Undecided, StatusFor, MayReopen
<1>4. ASSUME NEW c \in Clients, Kick(c) \/ Abort(c) PROVE task'.status = task.status
  BY <1>4, KickFrame, AbortFrame
<1>5. CASE Beside BY <1>0, <1>5, BesideFrame DEF Task
<1>6. ASSUME NEW w \in Workers, (\E k \in Kicks : Deliver(w, k)) \/ Acknowledge(w) \/ CutOff(w)
      PROVE  task'.status = task.status
  BY <1>6, DeliverFrame, AcknowledgeFrame, CutOffFrame
<1>7. ASSUME NEW w \in Workers, Works(w) PROVE task'.status = task.status
  BY <1>1, <1>7, WorksCarried
<1> QED BY <1>2, <1>3, <1>4, <1>5, <1>6, <1>7, StepKinds

(***************************************************************************)
(* How a task ended is final: no worker, request, stop or turn still under *)
(* way when it ended reopens it or ends it otherwise (adapter.finish sets  *)
(* the status whatever the row says by then).                              *)
(***************************************************************************)
THEOREM TaskEndsForGood == ASSUME OneApp PROVE Spec => EndsAreFinal
<1>1. Init => TypeInv /\ MessageInv /\ LineageInv BY InitType, MessageInit, LineageInit
<1>2. TypeInv /\ MessageInv /\ LineageInv /\ [Next]_vars => (TypeInv /\ MessageInv /\ LineageInv)'
  BY TypeStep, MessageStep, LineageStep
<1>3. TypeInv /\ MessageInv /\ LineageInv /\ [Next]_vars => [again = 0 /\ Ended => task'.status = task.status]_vars
  BY EndsStep
<1> QED BY <1>1, <1>2, <1>3, PTL DEF Spec, EndsAreFinal

-----------------------------------------------------------------------------
(* What a background task does with the calls that must ask, and with its  *)
(* work: nothing it was not allowed, nothing twice but what a run cut off  *)
(* made it redo, and nothing of it lost while it waits or is stopped.      *)
(*                                                                         *)
(* The inductive invariants follow a call's state as it moves from the run *)
(* to the saved run and back: each moves only when no other run is there,  *)
(* which is what Lineage gives.                                            *)

-----------------------------------------------------------------------------
(* What a step of a run does to its calls.                                 *)

Keeps(w) ==
    /\ run'[w].place.pending = run[w].place.pending
    /\ run'[w].answers = run[w].answers
    /\ run'[w].allowance = run[w].allowance

Loads(w) ==
    /\ run[w].phase = "start" /\ run'[w].phase = "loop" /\ task.status = "running"
    /\ run'[w].place = saved.place /\ run'[w].answers = saved.answers
    /\ run'[w].allowance = Allowance(saved)
    /\ UNCHANGED <<saved, made, ran, free, delivered>>

Settles(w) ==
    /\ run[w].phase = "loop" /\ run'[w].phase = "loop"
    /\ run'[w].place.pending = {} /\ run'[w].answers = Unanswered
    /\ run'[w].allowance = run[w].allowance
    /\ Executed(Approved(run[w]))
    /\ UNCHANGED <<saved, made, free, delivered>>

Makes(w, calls) ==
    /\ run[w].phase = "model" /\ run'[w].phase = "loop"
    /\ made' = made \cup calls
    /\ calls \subseteq Images /\ Cardinality(calls) \in 0..run[w].allowance
    /\ Executed(calls)
    /\ free' = free + Cardinality(calls)
    /\ run'[w].place.pending = run[w].place.pending /\ run'[w].answers = run[w].answers
    /\ run'[w].allowance = run[w].allowance - Cardinality(calls)
    /\ UNCHANGED <<saved, delivered>>

AsksFor(w, calls) ==
    /\ run[w].phase = "model" /\ run'[w].phase = "suspend"
    /\ made' = made \cup calls
    /\ run'[w].place.pending = calls /\ run'[w].answers = Unanswered
    /\ run'[w].allowance = run[w].allowance
    /\ UNCHANGED <<saved, ran, free, delivered>>

Saves(w) ==
    /\ \/ run[w].phase = "halt" /\ run'[w].phase = "clear"
       \/ run[w].phase = "suspend" /\ run'[w].phase = "waits"
    /\ saved' = Kept(run[w].place)
    /\ Keeps(w)
    /\ UNCHANGED <<made, ran, free, delivered>>

Carries(w) ==
    /\ Keeps(w)
    /\ run'[w].phase = "suspend" => run[w].place.pending # {}
    /\ run'[w].phase = "model" => run[w].place.pending = {}
    /\ run'[w].phase \notin {"clear", "waits"}
    /\ run'[w].phase = "halted" => run[w].phase = "clear"
    /\ saved' = saved \/ (saved' = NoPausedRun /\ run[w].phase = "end")
    /\ \/ delivered' = delivered
       \/ delivered' = delivered + 1 /\ run[w].phase = "deliver" /\ run'[w].phase = "commit"
    /\ UNCHANGED <<made, ran, free>>

LEMMA GoesKeeps ==
    ASSUME TypeInv, NEW w \in Workers, NEW phase \in Phases, Goes(w, phase)
    PROVE  Keeps(w) /\ run'[w].phase = phase
<1>1. \A f \in {"kick", "place", "answers", "allowance", "resumed", "end"} : run'[w][f] = run[w][f]
  BY GoesParts
<1>2. run'[w].phase = phase BY GoesParts
<1>3. run'[w].place = run[w].place /\ run'[w].answers = run[w].answers
      /\ run'[w].allowance = run[w].allowance
  BY <1>1
<1> QED BY <1>2, <1>3 DEF Keeps

LEMMA ReplyEffect ==
    ASSUME TypeInv, NEW w \in Workers, Reply(w)
    PROVE  \/ Carries(w)
           \/ \E calls \in (SUBSET (Calls \ made)) \ {{}} : Makes(w, calls) \/ AsksFor(w, calls)
<1> DEFINE r == OneMoreStep(run[w])
<1>1. run[w].phase = "model" /\ UNCHANGED <<saved, delivered>> BY DEF Reply
<1>2. /\ r \in Run /\ r.phase = "model" /\ r.place.pending = run[w].place.pending
      /\ r.answers = run[w].answers /\ r.allowance = run[w].allowance
  BY <1>1, OneMoreStepType
<1>3. LET q == r IN
      \/ \E end \in {"done", "failed"} : Becomes(w, Ending(q, end)) /\ UNCHANGED <<made, ran, free>>
      \/ Becomes(w, Going(q)) /\ UNCHANGED <<made, ran, free>>
      \/ \E calls \in (SUBSET (Calls \ made)) \ {{}} :
            /\ made' = made \cup calls
            /\ calls \subseteq Images /\ Cardinality(calls) \in 0..q.allowance
            /\ Executed(calls)
            /\ free' = free + Cardinality(calls)
            /\ Becomes(w, Making(q, Cardinality(calls)))
      \/ \E calls \in (SUBSET (Calls \ made)) \ {{}} :
            /\ made' = made \cup calls
            /\ Becomes(w, Asking(q, calls))
            /\ UNCHANGED <<ran, free>>
  BY ReplyBecomes
<1> HIDE DEF r
<1>4. ASSUME NEW end \in {"done", "failed"}, Becomes(w, Ending(r, end)), UNCHANGED <<made, ran, free>>
      PROVE  Carries(w)
  <2>1. run'[w] = Ending(r, end) BY <1>4, BecomesParts
  <2> QED BY <1>1, <1>2, <1>4, <2>1, ReplyParts DEF Carries, Keeps
<1>5. CASE Becomes(w, Going(r)) /\ UNCHANGED <<made, ran, free>>
  <2>1. run'[w] = Going(r) BY <1>5, BecomesParts
  <2>2. Going(r).phase = "loop" /\ Going(r).place = r.place /\ Going(r).answers = r.answers
        /\ Going(r).allowance = r.allowance
    BY <1>2 DEF Going, Run
  <2> QED BY <1>1, <1>2, <1>5, <2>1, <2>2 DEF Carries, Keeps
<1>6. ASSUME NEW calls \in (SUBSET (Calls \ made)) \ {{}},
             made' = made \cup calls, calls \subseteq Images, Cardinality(calls) \in 0..r.allowance,
             Executed(calls), free' = free + Cardinality(calls),
             Becomes(w, Making(r, Cardinality(calls)))
      PROVE  Makes(w, calls)
  <2>1. run'[w] = Making(r, Cardinality(calls)) BY <1>6, BecomesParts
  <2> QED BY <1>1, <1>2, <1>6, <2>1, ReplyParts DEF Makes
<1>7. ASSUME NEW calls \in (SUBSET (Calls \ made)) \ {{}},
             made' = made \cup calls, Becomes(w, Asking(r, calls)), UNCHANGED <<ran, free>>
      PROVE  AsksFor(w, calls)
  <2>1. run'[w] = Asking(r, calls) BY <1>7, BecomesParts
  <2> QED BY <1>1, <1>2, <1>7, <2>1, ReplyParts DEF AsksFor
<1> QED BY <1>3, <1>4, <1>5, <1>6, <1>7

LEMMA WorksEffect ==
    ASSUME TypeInv, NEW w \in Workers, Works(w)
    PROVE  /\ UNCHANGED <<approved, grants>>
           /\ \/ Loads(w) \/ Settles(w) \/ Saves(w) \/ Carries(w)
              \/ \E calls \in (SUBSET (Calls \ made)) \ {{}} : Makes(w, calls) \/ AsksFor(w, calls)
<1>0. run[w] \in Run BY RunParts DEF TypeInv
<1>1. CASE Load(w)
  <2>1. UNCHANGED <<saved, counts>> /\ run[w].phase = "start" BY <1>1 DEF Load
  <2>2. CASE task.status # "running"
    <3>1. Goes(w, "ack") BY <1>1, <2>2 DEF Load, Runnable
    <3> QED BY <2>1, <3>1, GoesKeeps DEF Phases, Carries, counts
  <2>3. CASE task.status = "running"
    <3> DEFINE r == [run[w] EXCEPT !.phase = "loop", !.place = saved.place, !.answers = saved.answers,
                                   !.allowance = Allowance(saved), !.resumed = saved.state = "kept"]
    <3>1. Becomes(w, r) BY <1>1, <2>3 DEF Load, Runnable
    <3>2. r.phase = "loop" /\ r.place = saved.place /\ r.answers = saved.answers
          /\ r.allowance = Allowance(saved)
      BY <1>0 DEF Run
    <3> HIDE DEF r
    <3>3. run'[w] = r BY <3>1, BecomesParts
    <3> QED BY <2>1, <2>3, <3>2, <3>3 DEF Loads, counts
  <2> QED BY <2>2, <2>3
<1>2. CASE Settle(w)
  <2>1. run'[w] = Settled(run[w]) BY <1>2, BecomesParts DEF Settle
  <2> QED BY <1>0, <1>2, <2>1, SettledType DEF Settle, Settles
<1>3. CASE AskAgain(w) BY <1>3, GoesKeeps DEF AskAgain, Phases, Carries, counts
<1>4. CASE SeesStop(w) BY <1>4, GoesKeeps DEF SeesStop, Phases, Carries, counts
<1>5. CASE Limit(w)
  <2> DEFINE r == [run[w] EXCEPT !.phase = "end", !.end = "failed"]
  <2>1. r.phase = "end" /\ r.place = run[w].place /\ r.answers = run[w].answers
        /\ r.allowance = run[w].allowance
    BY <1>0 DEF Run
  <2>2. Becomes(w, r) BY <1>5 DEF Limit
  <2> HIDE DEF r
  <2>3. run'[w] = r BY <2>2, BecomesParts
  <2> QED BY <1>5, <2>1, <2>3 DEF Limit, Carries, Keeps, counts
<1>6. CASE Proceed(w) BY <1>6, GoesKeeps DEF Proceed, Phases, Carries, counts
<1>7. CASE Reply(w) BY <1>7, ReplyEffect DEF Reply
<1>8. CASE Save(w) BY <1>8, GoesKeeps DEF Save, StoppedRun, Phases, Saves, counts
<1>9. CASE ClearFlag(w) BY <1>9, GoesKeeps DEF ClearFlag, Phases, Carries, counts
<1>10. CASE RemoveSaved(w)
  <2>1. run[w].phase = "end" /\ saved' \in {saved, NoPausedRun} /\ UNCHANGED counts
        /\ Goes(w, IF run[w].end = "done" THEN "deliver" ELSE "commit")
    BY <1>10 DEF RemoveSaved
  <2>2. Keeps(w) /\ run'[w].phase \in {"deliver", "commit"} BY <2>1, GoesKeeps DEF Phases
  <2> QED BY <2>1, <2>2 DEF Carries, counts
<1>11. CASE DeliverFiles(w)
  <2>1. Keeps(w) /\ run'[w].phase = "commit" BY <1>11, GoesKeeps DEF DeliverFiles, Phases
  <2> QED BY <1>11, <2>1 DEF DeliverFiles, Carries
<1>12. CASE CommitRest(w)
  <2>1. Goes(w, "ack") /\ UNCHANGED <<saved, counts>> BY <1>12 DEF CommitRest
  <2> QED BY <2>1, GoesKeeps DEF Phases, Carries, counts
<1>13. CASE Fail(w) BY <1>13, GoesKeeps DEF Fail, Phases, Carries, counts
<1> QED BY <1>1, <1>2, <1>3, <1>4, <1>5, <1>6, <1>7, <1>8, <1>9, <1>10, <1>11, <1>12, <1>13 DEF Works

(* An answer is saved with the run that waits.                             *)
SavesAnswers(c) ==
    /\ Undecided(c) /\ req[c].kind = "approve" /\ saved.state = "kept"
    /\ \E d \in [Calls -> Answers] :
          LET yes == {a \in Calls : d[a] = "approved"} IN
          /\ saved' = [saved EXCEPT !.answers = d]
          /\ approved' = approved \cup yes
          /\ grants' = IF yes \cap Images # {} THEN grants + 1 ELSE grants
    /\ task' = task

LEMMA PreparesEffect ==
    ASSUME NEW c \in Clients, Prepares(c)
    PROVE  /\ UNCHANGED <<made, ran, free, delivered>>
           /\ SavesAnswers(c) \/ UNCHANGED <<saved, approved, grants>>
<1>1. CASE Answer(c)
  <2>1. /\ req[c].phase = "read" /\ req[c].kind = "approve" /\ saved.state = "kept"
        /\ UNCHANGED <<task, made, ran, free, delivered>>
    BY <1>1 DEF Answer
  <2>2. \E d \in [Calls -> Answers] :
          LET yes == {a \in Calls : d[a] = "approved"} IN
          /\ saved' = [saved EXCEPT !.answers = d]
          /\ approved' = approved \cup yes
          /\ grants' = IF yes \cap Images # {} THEN grants + 1 ELSE grants
    BY <1>1 DEF Answer
  <2> QED BY <2>1, <2>2 DEF SavesAnswers, Undecided
<1>2. CASE ~Answer(c)
  BY <1>2 DEF Prepares, Read, AskToStop, StopWaiting, FindExpired, Look, ClearForResume, counts
<1> QED BY <1>1, <1>2

LEMMA AnswersParts ==
    ASSUME TypeInv, NEW c \in Clients, SavesAnswers(c)
    PROVE  /\ saved'.state = saved.state /\ saved'.place = saved.place
           /\ saved'.answers \in [Calls -> Answers]
           /\ approved' = approved \cup {a \in Calls : saved'.answers[a] = "approved"}
           /\ grants' = IF \E a \in Images : saved'.answers[a] = "approved" THEN grants + 1 ELSE grants
<1>1. PICK d \in [Calls -> Answers] :
          LET yes == {a \in Calls : d[a] = "approved"} IN
          /\ saved' = [saved EXCEPT !.answers = d]
          /\ approved' = approved \cup yes
          /\ grants' = IF yes \cap Images # {} THEN grants + 1 ELSE grants
  BY DEF SavesAnswers
<1>2. saved \in PausedRun BY DEF TypeInv, TypeOK
<1>3. saved'.state = saved.state /\ saved'.place = saved.place /\ saved'.answers = d
  BY <1>1, <1>2 DEF PausedRun
<1>4. {a \in Calls : d[a] = "approved"} \cap Images # {} <=> \E a \in Images : d[a] = "approved"
  BY DEF Calls
<1> QED BY <1>1, <1>3, <1>4

(* Under one app's requests a run that does anything is the only one, and  *)
(* its task is running.                                                    *)
LEMMA WorksAlone ==
    ASSUME TypeInv, MessageInv, Lineage, NEW w \in Workers, Works(w)
    PROVE  /\ task.status = "running"
           /\ \A v \in Workers \ {w} : run[v].phase \in {"idle", "ack"} /\ run'[v] = run[v]
<1>1. run[w].phase \notin {"idle", "ack"} /\ run[w].kick \in Kicks /\ Live(run[w].kick)
  BY WorksCarried
<1>2. task.status = "running" BY <1>1 DEF Lineage, RunningWhenLive
<1>3. ASSUME NEW v \in Workers \ {w}, run[v].phase \notin {"idle", "ack"} PROVE FALSE
  <2>1. run[v].kick \in Kicks /\ Live(run[v].kick)
    BY <1>3 DEF Live, Carried, MessageInv, MessageHeld, Begun
  <2>2. run[v].kick = run[w].kick BY <1>1, <2>1 DEF Lineage, OneLive
  <2> QED BY <1>1, <1>3, <2>2 DEF MessageInv, OwnMessage, Begun
<1>4. \A v \in Workers \ {w} : run'[v] = run[v] BY WorksFrame
<1> QED BY <1>2, <1>3, <1>4

-----------------------------------------------------------------------------
(* What is known of a run by where it is.                                  *)

PlaceKnown ==
    \A w \in Workers :
        /\ run[w].phase \in {"idle", "start", "model"} => run[w].place.pending = {}
        /\ run[w].phase \in {"idle", "start"} => run[w].allowance = 0 /\ run[w].answers = Unanswered
        /\ run[w].phase = "suspend" => run[w].place.pending # {}

LEMMA NoRunParts ==
    /\ NoRun.phase = "idle" /\ NoRun.place.pending = {} /\ NoRun.allowance = 0
    /\ NoRun.answers = Unanswered
    /\ \A k \in Kicks :
          LET r == [NoRun EXCEPT !.phase = "start", !.kick = k] IN
          r.place.pending = {} /\ r.allowance = 0 /\ r.answers = Unanswered
BY DEF NoRun, Start

(* The runs after a step that is not a run's own: as they were, but for one*)
(* that is new or over.                                                    *)
Fresh(w) ==
    /\ run'[w].phase \in {"idle", "start"}
    /\ run'[w].place.pending = {} /\ run'[w].allowance = 0 /\ run'[w].answers = Unanswered
    /\ \A v \in Workers \ {w} : run'[v] = run[v]

(* The steps of the runs' messages.                                        *)
Messages(w) == (\E k \in Kicks : Deliver(w, k)) \/ Acknowledge(w) \/ CutOff(w)

LEMMA MessagesEffect ==
    ASSUME TypeInv, NEW w \in Workers, Messages(w)
    PROVE  /\ Fresh(w) /\ UNCHANGED <<task, saved, req, counts>>
           /\ crashes' = crashes \/ (crashes' = crashes + 1 /\ CutOff(w))
<1>1. ASSUME NEW k \in Kicks, Deliver(w, k)
      PROVE  Fresh(w) /\ UNCHANGED <<task, saved, req, counts, crashes>>
  <2>1. run'[w] = [NoRun EXCEPT !.phase = "start", !.kick = k] /\ run'[w].phase = "start"
        /\ (\A v \in Workers \ {w} : run'[v] = run[v])
        /\ UNCHANGED <<task, saved, req, counts, crashes>>
    BY <1>1, DeliverFrame
  <2> QED BY <2>1, NoRunParts DEF Fresh
<1>2. CASE Acknowledge(w) BY <1>2, AcknowledgeFrame, NoRunParts DEF Fresh
<1>3. CASE CutOff(w) BY <1>3, CutOffFrame, NoRunParts DEF Fresh
<1> QED BY <1>1, <1>2, <1>3 DEF Messages

(* The steps of requests, which leave every run alone.                     *)
LEMMA RequestsFrame ==
    ASSUME TypeInv, MessageInv, NEW c \in Clients, Prepares(c) \/ Commit(c) \/ Kick(c) \/ Abort(c)
    PROVE  run' = run /\ crashes' = crashes
<1>1. req[c].phase # "kick" => req[c].kick = NoKick BY DEF MessageInv, Promised
<1> QED BY <1>1, PreparesFrame, CommitFrame, KickFrame, AbortFrame

LEMMA PlaceKnownInit == Init => PlaceKnown
BY NoRunParts DEF Init, PlaceKnown

LEMMA PlaceKnownStep == TypeInv /\ MessageInv /\ PlaceKnown /\ [Next]_vars => PlaceKnown'
<1> SUFFICES ASSUME TypeInv, MessageInv, PlaceKnown, [Next]_vars PROVE PlaceKnown' OBVIOUS
<1>1. ASSUME run' = run PROVE PlaceKnown' BY <1>1 DEF PlaceKnown
<1>2. ASSUME NEW c \in Clients, Prepares(c) \/ Commit(c) \/ Kick(c) \/ Abort(c) PROVE PlaceKnown'
  BY <1>1, <1>2, RequestsFrame
<1>3. CASE Beside BY <1>1, <1>3, BesideFrame
<1>4. ASSUME NEW w \in Workers, Messages(w) PROVE PlaceKnown'
  <2>1. Fresh(w) BY <1>4, MessagesEffect
  <2> QED BY <2>1 DEF PlaceKnown, Fresh
<1>5. ASSUME NEW w \in Workers, Works(w) PROVE PlaceKnown'
  <2>1. /\ PhaseStep(run[w].phase, run'[w].phase)
        /\ \A v \in Workers \ {w} : run'[v] = run[v]
    BY <1>5, WorksFrame
  <2>2. run'[w].phase \notin {"idle", "start"} BY <2>1 DEF PhaseStep
  <2>3. CASE Loads(w) \/ Settles(w) \/ Saves(w) BY <2>1, <2>2, <2>3 DEF PlaceKnown, Loads, Settles, Saves
  <2>4. CASE Carries(w) BY <2>1, <2>2, <2>4 DEF PlaceKnown, Carries, Keeps
  <2>5. ASSUME NEW calls \in (SUBSET (Calls \ made)) \ {{}}, Makes(w, calls) \/ AsksFor(w, calls)
        PROVE  PlaceKnown'
    BY <2>1, <2>2, <2>5 DEF PlaceKnown, Makes, AsksFor
  <2> QED BY <1>5, <2>3, <2>4, <2>5, WorksEffect
<1> QED BY <1>2, <1>3, <1>4, <1>5, StepKinds DEF Messages

-----------------------------------------------------------------------------
(* A task that waits or is stopped can be carried on.                      *)

Asks == saved.state = "kept" => saved.place.pending # {}

(* From the save on, which comes first, until the row is committed and     *)
(* after.                                                                  *)
PlaceKept ==
    /\ task.status \in MayReopen => saved.state # "none"
    /\ task.status = "needs_approval" => Asks
    /\ \A w \in Workers :
          /\ run[w].phase \in {"clear", "halted", "waits"} => saved.state # "none"
          /\ run[w].phase = "waits" => Asks

AloneInv == TypeInv /\ MessageInv /\ LineageInv /\ PlaceKnown

LEMMA AloneInit == Init => AloneInv
BY InitType, MessageInit, LineageInit, PlaceKnownInit DEF AloneInv

LEMMA AloneStep == ASSUME OneApp PROVE AloneInv /\ [Next]_vars => AloneInv'
BY TypeStep, MessageStep, LineageStep, PlaceKnownStep DEF AloneInv

LEMMA KeptParts ==
    ASSUME NEW place
    PROVE  /\ Kept(place).state = "kept" /\ Kept(place).place = place /\ Kept(place).answers = Unanswered
           /\ NoPausedRun.state = "none" /\ NoPausedRun.place.pending = {}
           /\ NoPausedRun.answers = Unanswered
           /\ [NoPausedRun EXCEPT !.state = "gone"].state = "gone"
           /\ [NoPausedRun EXCEPT !.state = "gone"].place.pending = {}
           /\ [NoPausedRun EXCEPT !.state = "gone"].answers = Unanswered
BY DEF Kept, NoPausedRun, Start

(* What a request under way does to the row's status.                      *)
LEMMA PreparesStatus ==
    ASSUME TypeInv, Lineage, NEW c \in Clients, Prepares(c)
    PROVE  \/ task' = task
           \/ task.status \in MayReopen /\ task'.status \in {"stopped", "failed"} /\ saved' = saved
<1>1. CASE StopWaiting(c) \/ FindExpired(c)
  <2>1. Undecided(c) /\ task.status \in MayReopen
    BY <1>1 DEF StopWaiting, FindExpired, Lineage, AskedOf, StatusFor, Undecided
  <2> QED BY <1>1, <2>1 DEF StopWaiting, FindExpired, Finish, TypeInv, TypeOK, Task
<1>2. CASE ~(StopWaiting(c) \/ FindExpired(c))
  BY <1>2 DEF Prepares, Read, AskToStop, Look, Answer, ClearForResume
<1> QED BY <1>1, <1>2

LEMMA PlaceKeptStep ==
    ASSUME OneApp, AloneInv, again = 0 => PlaceKept, [Next]_vars, again' = 0
    PROVE  PlaceKept'
<1>0. TypeInv /\ MessageInv /\ PlaceKnown /\ Lineage /\ PlaceKept /\ task \in Task
      /\ \A w \in Workers : CutOff(w) => run[w].phase # "ack"
  BY AgainGrows DEF AloneInv, LineageInv, TypeInv, TypeOK
<1>1. ASSUME NEW c \in Clients, Prepares(c) PROVE PlaceKept'
  <2>1. run' = run BY <1>0, <1>1, RequestsFrame
  <2>2. task' = task \/ (task.status \in MayReopen /\ task'.status \in {"stopped", "failed"} /\ saved' = saved)
    BY <1>0, <1>1, PreparesStatus
  <2>3. saved' = saved \/ (saved'.state = saved.state /\ saved'.place = saved.place)
    BY <1>0, <1>1, PreparesEffect, AnswersParts
  <2> QED BY <1>0, <2>1, <2>2, <2>3 DEF PlaceKept, Asks
<1>2. ASSUME NEW c \in Clients, Commit(c) PROVE PlaceKept'
  <2>1. task'.status = "running" /\ UNCHANGED <<saved, run>> BY <1>0, <1>2, CommitFrame
  <2> QED BY <1>0, <2>1 DEF PlaceKept, Asks, MayReopen
<1>3. ASSUME NEW c \in Clients, Kick(c) \/ Abort(c) PROVE PlaceKept'
  <2>1. UNCHANGED <<task, saved, run>> BY <1>0, <1>3, KickFrame, AbortFrame
  <2> QED BY <1>0, <2>1 DEF PlaceKept, Asks
<1>4. CASE Beside
  <2>1. \/ task' = task \/ task' = [task EXCEPT !.reported = TRUE]
        \/ task.status = "needs_approval" /\ Finish("stopped", "stopped")
    BY <1>4, BesideFrame
  <2>2. \/ task'.status = task.status
        \/ task.status = "needs_approval" /\ task'.status = "stopped"
    BY <1>0, <2>1 DEF Finish, Task
  <2>3. saved' = saved \/ saved'.state = "gone" BY <1>4, BesideFrame, KeptParts
  <2>4. run' = run BY <1>4, BesideFrame
  <2> QED BY <1>0, <2>2, <2>3, <2>4 DEF PlaceKept, Asks, MayReopen
<1>5. ASSUME NEW w \in Workers, Messages(w) PROVE PlaceKept'
  <2>1. Fresh(w) /\ UNCHANGED <<task, saved>> BY <1>0, <1>5, MessagesEffect
  <2> QED BY <1>0, <2>1 DEF PlaceKept, Asks, Fresh
<1>6. ASSUME NEW w \in Workers, Works(w) PROVE PlaceKept'
  <2>1. /\ task.status = "running"
        /\ \A v \in Workers \ {w} : run'[v].phase \in {"idle", "ack"}
    BY <1>0, <1>6, WorksAlone
  <2>2. PhaseStep(run[w].phase, run'[w].phase) BY <1>0, <1>6, WorksFrame
  <2>3. CASE run'[w].phase = "ack" /\ task'.status \in MayReopen
    <3>1. /\ run[w].phase \in {"halted", "waits", "commit", "failing"} /\ saved' = saved
          /\ task'.status = RestStatus(run[w].phase, run[w].end)
      BY <1>0, <1>6, <2>1, <2>3, WorksStatus DEF MayReopen
    <3>2. run[w].phase = "commit" => run[w].end \in {"done", "failed"}
      BY <1>0, RunParts DEF MessageInv, EndKnown, TypeInv, Run
    <3>3. /\ run[w].phase \in {"halted", "waits"}
          /\ task'.status = "needs_approval" => run[w].phase = "waits"
      BY <2>3, <3>1, <3>2 DEF RestStatus, MayReopen
    <3> QED BY <1>0, <2>1, <2>3, <3>1, <3>3 DEF PlaceKept, Asks
  <2>4. CASE task'.status \notin MayReopen
    <3>1. run'[w].phase \in {"clear", "halted", "waits"} => saved'.state # "none"
      <4>1. CASE Saves(w) BY <4>1, KeptParts DEF Saves
      <4>2. CASE Carries(w) BY <1>0, <2>2, <4>2 DEF Carries, PlaceKept, PhaseStep
      <4>3. CASE Loads(w) \/ Settles(w) BY <4>3 DEF Loads, Settles
      <4>4. ASSUME NEW calls, Makes(w, calls) \/ AsksFor(w, calls)
            PROVE  run'[w].phase \notin {"clear", "halted", "waits"}
        BY <4>4 DEF Makes, AsksFor
      <4> QED BY <1>0, <1>6, <4>1, <4>2, <4>3, <4>4, WorksEffect
    <3>2. run'[w].phase = "waits" => Asks'
      <4>1. CASE Saves(w)
        BY <1>0, <4>1, KeptParts DEF Saves, Asks, PlaceKnown
      <4>2. CASE ~Saves(w)
        BY <1>0, <1>6, <4>2, WorksEffect DEF Carries, Loads, Settles, Makes, AsksFor
      <4> QED BY <4>1, <4>2
    <3> QED BY <2>1, <2>4, <3>1, <3>2 DEF PlaceKept, MayReopen
  <2>5. CASE run'[w].phase # "ack"
    <3>1. task' = task BY <1>0, <1>6, <2>5, WorksStatus
    <3> QED BY <2>1, <2>4, <3>1 DEF MayReopen
  <2> QED BY <2>3, <2>4, <2>5
<1> QED BY <1>1, <1>2, <1>3, <1>4, <1>5, <1>6, StepKinds DEF Messages

(***************************************************************************)
(* Under one app's requests a task that waits has the run the user is asked*)
(* about, and a stopped one its place, unless Redis lost it: what a run    *)
(* saved before it committed the row is still there, whatever ran, answered*)
(* or stopped meanwhile (background/jobs.py _suspend and _halt).           *)
(***************************************************************************)
THEOREM TaskKeepsItsPlace == ASSUME OneApp PROVE Spec => []CanCarryOn
<1> DEFINE Inv == AloneInv /\ (again = 0 => PlaceKept)
<1>1. Init => Inv
  <2>1. Init => PlaceKept
    BY DEF Init, PlaceKept, MayReopen, NoRun
  <2> QED BY <2>1, AloneInit
<1>2. Inv /\ [Next]_vars => Inv' BY AloneStep, PlaceKeptStep
<1>3. Inv => CanCarryOn BY DEF PlaceKept, CanCarryOn, Asks, MayReopen
<1> QED BY <1>1, <1>2, <1>3, PTL DEF Spec

-----------------------------------------------------------------------------
(* A call is executed once more for every run cut off, and no more.        *)

(* None of these calls has been executed but by runs cut off.              *)
Redo(calls) == \A a \in calls : ran[a] <= crashes

(* The saved run is what the next run of the task starts from: none is at  *)
(* work, or the one that is has saved what it knows.                       *)
Resting ==
    /\ task.status \notin {"done", "failed"}
    /\ \A w \in Workers : run[w].phase \in Busy => run[w].phase \in {"clear", "halted", "waits"}

RunsCounted ==
    /\ \A a \in Calls : ran[a] <= 1 + crashes
    /\ \A w \in Workers : run[w].phase \in Busy => Redo(run[w].place.pending)
    /\ Resting => Redo(saved.place.pending)

(* Only a call the model made is waited on or executed.                    *)
MadeFirst ==
    /\ \A w \in Workers : run[w].place.pending \subseteq made
    /\ saved.place.pending \subseteq made
    /\ \A a \in Calls \ made : ran[a] = 0

LEMMA ExecutedParts ==
    ASSUME TypeInv, NEW calls \in SUBSET Calls, Executed(calls)
    PROVE  /\ ran' \in [Calls -> Nat]
           /\ \A a \in Calls \ calls : ran'[a] = ran[a]
           /\ \A a \in calls : ran'[a] <= ran[a] + 1
<1>1. MaxRuns \in Nat /\ ran \in [Calls -> Nat] /\ ran' \in [Calls -> 0..MaxRuns]
  BY ExecutedType, ConstantsAssumption DEF MaxRuns, TypeInv, TypeOK
<1> QED BY <1>1 DEF Executed

LEMMA ApprovedPending ==
    ASSUME TypeInv, NEW w \in Workers
    PROVE  run[w].place.pending \in SUBSET Calls /\ Approved(run[w]) \subseteq run[w].place.pending
BY RunParts DEF TypeInv, Run, Place, Approved

(* What the steps that are not a run's leave alone.                        *)
LEMMA QuietFrame ==
    ASSUME TypeInv, MessageInv,
           \/ \E c \in Clients : Prepares(c) \/ Commit(c) \/ Kick(c) \/ Abort(c)
           \/ Beside
           \/ \E w \in Workers : Messages(w)
    PROVE  /\ UNCHANGED <<made, ran, free, delivered>>
           /\ \/ saved'.place = saved.place
              \/ saved'.place.pending = {} /\ saved'.answers = Unanswered
<1>1. ASSUME NEW c \in Clients, Prepares(c)
      PROVE  UNCHANGED <<made, ran, free, delivered>> /\ saved'.place = saved.place
  BY <1>1, PreparesEffect, AnswersParts
<1>2. ASSUME NEW c \in Clients, Commit(c) \/ Kick(c) \/ Abort(c)
      PROVE  UNCHANGED <<made, ran, free, delivered>> /\ saved' = saved
  BY <1>2, CommitFrame, KickFrame, AbortFrame DEF counts
<1>3. CASE Beside BY <1>3, BesideFrame, KeptParts
<1>4. ASSUME NEW w \in Workers, Messages(w)
      PROVE  UNCHANGED <<made, ran, free, delivered>> /\ saved' = saved
  BY <1>4, MessagesEffect DEF counts
<1> QED BY <1>1, <1>2, <1>3, <1>4

LEMMA MadeFirstInit == Init => MadeFirst
BY NoRunParts, KeptParts DEF Init, MadeFirst

LEMMA MadeFirstStep == TypeInv /\ MessageInv /\ MadeFirst /\ [Next]_vars => MadeFirst'
<1> SUFFICES ASSUME TypeInv, MessageInv, MadeFirst, [Next]_vars PROVE MadeFirst' OBVIOUS
<1>q. ASSUME UNCHANGED <<made, ran>>, saved'.place = saved.place \/ saved'.place.pending = {},
             \/ run' = run
             \/ \E w \in Workers : Fresh(w)
      PROVE  MadeFirst'
  BY <1>q DEF MadeFirst, Fresh
<1>1. ASSUME NEW c \in Clients, Prepares(c) \/ Commit(c) \/ Kick(c) \/ Abort(c) PROVE MadeFirst'
  BY <1>q, <1>1, QuietFrame, RequestsFrame
<1>2. CASE Beside BY <1>q, <1>2, QuietFrame, BesideFrame
<1>3. ASSUME NEW w \in Workers, Messages(w) PROVE MadeFirst'
  BY <1>q, <1>3, QuietFrame, MessagesEffect
<1>4. ASSUME NEW w \in Workers, Works(w) PROVE MadeFirst'
  <2>1. \A v \in Workers \ {w} : run'[v] = run[v] BY <1>4, WorksFrame
  <2>2. CASE Loads(w) \/ Saves(w) BY <2>1, <2>2, KeptParts DEF Loads, Saves, Keeps, MadeFirst
  <2>3. CASE Carries(w) BY <2>1, <2>3, KeptParts DEF Carries, Keeps, MadeFirst
  <2>4. CASE Settles(w)
    <3>1. Approved(run[w]) \in SUBSET Calls /\ Approved(run[w]) \subseteq made
      BY ApprovedPending DEF MadeFirst
    <3>2. \A a \in Calls \ made : ran'[a] = ran[a] BY <2>4, <3>1, ExecutedParts DEF Settles
    <3> QED BY <2>1, <2>4, <3>2 DEF Settles, MadeFirst
  <2>5. ASSUME NEW calls \in (SUBSET (Calls \ made)) \ {{}}, Makes(w, calls) PROVE MadeFirst'
    <3>1. \A a \in Calls \ calls : ran'[a] = ran[a] BY <2>5, ExecutedParts DEF Makes
    <3> QED BY <2>1, <2>5, <3>1 DEF Makes, MadeFirst
  <2>6. ASSUME NEW calls \in (SUBSET (Calls \ made)) \ {{}}, AsksFor(w, calls) PROVE MadeFirst'
    BY <2>1, <2>6 DEF AsksFor, MadeFirst
  <2> QED BY <1>4, <2>2, <2>3, <2>4, <2>5, <2>6, WorksEffect
<1> QED BY <1>1, <1>2, <1>3, <1>4, StepKinds DEF Messages

(* The row a step leaves, where it is not a run's.                         *)
LEMMA RestingStep ==
    ASSUME TypeInv, MessageInv, Lineage, task \in Task,
           \/ \E c \in Clients : Prepares(c) \/ Commit(c) \/ Kick(c) \/ Abort(c)
           \/ Beside,
           Resting'
    PROVE  Resting
<1>1. run' = run BY RequestsFrame, BesideFrame
<1>2. ASSUME task.status \in {"done", "failed"} PROVE task'.status = task.status
  <2>1. ASSUME NEW c \in Clients, Prepares(c) PROVE task' = task
    BY <1>2, <2>1, PreparesStatus DEF MayReopen
  <2>2. ASSUME NEW c \in Clients, Commit(c) PROVE FALSE
    <3>1. req[c].phase \in {"read", "written"} /\ req[c].kind \in {"start", "approve", "resume"}
      BY <2>2, CommitFrame
    <3> QED BY <1>2, <3>1 DEF Lineage, AskedOf, Undecided, StatusFor, MayReopen
  <2>3. ASSUME NEW c \in Clients, Kick(c) \/ Abort(c) PROVE task' = task
    BY <2>3, KickFrame, AbortFrame
  <2>4. CASE Beside BY <1>2, <2>4, BesideFrame DEF Task
  <2> QED BY <2>1, <2>2, <2>3, <2>4
<1> QED BY <1>1, <1>2 DEF Resting

(* ... and where it is.                                                    *)
LEMMA CarriesResting ==
    ASSUME TypeInv, MessageInv, Lineage, NEW w \in Workers, Works(w), Carries(w), Resting'
    PROVE  Resting
<1>1. /\ task.status = "running"
      /\ \A v \in Workers \ {w} : run[v].phase \in {"idle", "ack"}
  BY WorksAlone
<1>2. PhaseStep(run[w].phase, run'[w].phase) BY WorksFrame
<1>3. run'[w].phase \in Busy => run'[w].phase = "halted"
  BY DEF Resting, Carries
<1>4. CASE run'[w].phase = "halted" BY <1>1, <1>4 DEF Carries, Resting, Busy
<1>5. CASE run'[w].phase = "ack"
  <2>1. run[w].phase \in {"start", "halted", "waits", "commit", "failing"}
    BY <1>2, <1>5 DEF PhaseStep
  <2>2. run[w].phase = "commit" => run[w].end \in {"done", "failed"}
    BY RunParts DEF MessageInv, EndKnown, TypeInv, Run
  <2>3. run[w].phase # "start" => task'.status = RestStatus(run[w].phase, run[w].end)
    BY <1>5, WorksStatus
  <2>4. run[w].phase \in {"start", "halted", "waits"} BY <2>1, <2>2, <2>3 DEF RestStatus, Resting
  <2> QED BY <1>1, <2>4 DEF Resting, Busy
<1> QED BY <1>2, <1>3, <1>4, <1>5 DEF PhaseStep, Busy, Phases

LEMMA RunsCountedStep ==
    ASSUME OneApp, AloneInv, MadeFirst, again = 0 => RunsCounted, [Next]_vars, again' = 0
    PROVE  RunsCounted'
<1>0. /\ TypeInv /\ MessageInv /\ PlaceKnown /\ Lineage /\ RunsCounted /\ task \in Task
      /\ \A w \in Workers : CutOff(w) => run[w].phase # "ack"
  BY AgainGrows DEF AloneInv, LineageInv, TypeInv, TypeOK
<1>n. crashes \in Nat /\ ran \in [Calls -> Nat] BY <1>0, ConstantsAssumption DEF TypeInv, TypeOK, MaxRuns
<1>1. ASSUME \/ \E c \in Clients : Prepares(c) \/ Commit(c) \/ Kick(c) \/ Abort(c)
             \/ Beside
      PROVE  RunsCounted'
  <2>1. ran' = ran /\ (saved'.place = saved.place \/ saved'.place.pending = {}) BY <1>0, <1>1, QuietFrame
  <2>2. run' = run /\ crashes' = crashes BY <1>0, <1>1, RequestsFrame, BesideFrame
  <2>3. Resting' => Resting BY <1>0, <1>1, RestingStep
  <2> QED BY <1>0, <2>1, <2>2, <2>3 DEF RunsCounted, Redo
<1>2. ASSUME NEW w \in Workers, Messages(w) PROVE RunsCounted'
  <2>1. Fresh(w) /\ ran' = ran /\ UNCHANGED <<task, saved>> BY <1>0, <1>2, MessagesEffect DEF counts
  <2>2. CASE crashes' = crashes /\ ~CutOff(w)
    <3>1. run[w].phase \in {"idle", "ack"} BY <1>2, <2>2, DeliverFrame, AcknowledgeFrame, <1>0 DEF Messages
    <3>2. Resting' => Resting BY <2>1, <3>1 DEF Resting, Fresh, Busy
    <3> QED BY <1>0, <2>1, <2>2, <3>2 DEF RunsCounted, Redo, Fresh, Busy
  <2>3. CASE crashes' = crashes + 1
    <3>1. \A a \in Calls : ran'[a] <= crashes' /\ ran'[a] <= 1 + crashes'
      BY <1>0, <1>n, <2>1, <2>3 DEF RunsCounted
    <3>2. \A v \in Workers : run'[v].place.pending \in SUBSET Calls
      BY <1>0, <2>1, ApprovedPending DEF Fresh
    <3>3. saved'.place.pending \in SUBSET Calls BY <1>0, <2>1 DEF TypeInv, TypeOK, PausedRun, Place
    <3> QED BY <3>1, <3>2, <3>3 DEF RunsCounted, Redo
  <2>4. CutOff(w) => crashes' = crashes + 1 BY <1>0, CutOffFrame
  <2> QED BY <1>0, <1>2, <2>2, <2>3, <2>4, MessagesEffect
<1>3. ASSUME NEW w \in Workers, Works(w) PROVE RunsCounted'
  <2>1. /\ task.status = "running" /\ run[w].phase \notin {"idle", "ack"}
        /\ \A v \in Workers \ {w} : run[v].phase \in {"idle", "ack"} /\ run'[v] = run[v]
    BY <1>0, <1>3, WorksAlone, WorksCarried
  <2>2. PhaseStep(run[w].phase, run'[w].phase) /\ crashes' = crashes BY <1>0, <1>3, WorksFrame
  <2>3. run[w].phase \in Busy \cup {"start"} BY <1>0, <2>1, RunParts DEF Busy, TypeInv, Run
  <2>4. Redo(run[w].place.pending)
    BY <1>0, <2>3 DEF RunsCounted, PlaceKnown, Redo
  <2>5. ASSUME \A a \in Calls : ran'[a] <= 1 + crashes', Redo(run[w].place.pending)',
               Resting' => Redo(saved.place.pending)'
        PROVE  RunsCounted'
    BY <2>1, <2>5 DEF RunsCounted, Busy
  <2>6. run'[w].phase \in Busy \ {"clear", "halted", "waits"} => ~Resting'
    BY DEF Resting
  <2>7. CASE Loads(w)
    <3>1. Resting BY <2>1, <2>7 DEF Resting, Loads, Busy
    <3> QED BY <1>0, <2>2, <2>5, <2>6, <2>7, <3>1 DEF Loads, RunsCounted, Redo, Busy, Phases
  <2>8. CASE Saves(w)
    BY <1>0, <2>2, <2>4, <2>5, <2>8, KeptParts DEF Saves, Keeps, RunsCounted, Redo
  <2>9. CASE Settles(w)
    <3>1. /\ Approved(run[w]) \in SUBSET Calls
          /\ \A a \in Approved(run[w]) : ran[a] <= crashes
      BY <1>0, <2>4, ApprovedPending DEF Redo
    <3>2. ASSUME NEW a \in Calls PROVE ran'[a] <= 1 + crashes'
      <4>1. /\ ran'[a] \in Nat /\ ran[a] \in Nat
            /\ a \notin Approved(run[w]) => ran'[a] = ran[a]
            /\ a \in Approved(run[w]) => ran'[a] <= ran[a] + 1
        BY <1>0, <1>n, <2>9, <3>1, ExecutedParts DEF Settles
      <4> QED BY <1>0, <1>n, <2>2, <3>1, <4>1 DEF RunsCounted
    <3> QED BY <2>5, <2>6, <2>9, <3>2 DEF Settles, Redo, Busy, Phases
  <2>10. ASSUME NEW calls \in (SUBSET (Calls \ made)) \ {{}}, Makes(w, calls) PROVE RunsCounted'
    <3>1. \A a \in calls : ran[a] = 0 BY DEF MadeFirst
    <3>2. ASSUME NEW a \in Calls PROVE ran'[a] <= 1 + crashes'
      <4>1. /\ ran'[a] \in Nat /\ ran[a] \in Nat
            /\ a \notin calls => ran'[a] = ran[a]
            /\ a \in calls => ran'[a] <= ran[a] + 1
        BY <1>0, <1>n, <2>10, ExecutedParts DEF Makes
      <4> QED BY <1>0, <1>n, <2>2, <3>1, <4>1 DEF RunsCounted
    <3>3. run'[w].place.pending = {} /\ run'[w].phase = "loop" BY <1>0, <2>10 DEF Makes, PlaceKnown
    <3> QED BY <2>5, <2>6, <3>2, <3>3 DEF Redo, Busy, Phases
  <2>11. ASSUME NEW calls \in (SUBSET (Calls \ made)) \ {{}}, AsksFor(w, calls) PROVE RunsCounted'
    <3>1. \A a \in calls : ran'[a] <= crashes' BY <1>n, <2>2, <2>11 DEF MadeFirst, AsksFor
    <3>2. \A a \in Calls : ran'[a] <= 1 + crashes' BY <1>0, <2>2, <2>11 DEF AsksFor, RunsCounted
    <3> QED BY <2>5, <2>6, <2>11, <3>1, <3>2 DEF AsksFor, Redo, Busy, Phases
  <2>12. CASE Carries(w)
    <3>1. Redo(run[w].place.pending)' BY <2>2, <2>4, <2>12 DEF Carries, Keeps, Redo
    <3>2. \A a \in Calls : ran'[a] <= 1 + crashes' BY <1>0, <2>2, <2>12 DEF Carries, RunsCounted
    <3>3. ASSUME Resting' PROVE Redo(saved.place.pending)'
      <4>1. saved' = saved \/ saved'.place.pending = {} BY <2>12, KeptParts DEF Carries
      <4>2. Resting BY <1>0, <1>3, <2>12, <3>3, CarriesResting
      <4> QED BY <1>0, <2>2, <2>12, <4>1, <4>2 DEF RunsCounted, Redo, Carries
    <3> QED BY <2>5, <3>1, <3>2, <3>3
  <2> QED BY <1>0, <1>3, <2>7, <2>8, <2>9, <2>10, <2>11, <2>12, WorksEffect
<1> QED BY <1>1, <1>2, <1>3, StepKinds DEF Messages

(***************************************************************************)
(* A call the user approved is executed once, and once more for every run  *)
(* cut off: what is pending in the run, or in the saved run while the task *)
(* rests, has only been executed by runs that never came to save it        *)
(* (background/jobs.py).                                                   *)
(***************************************************************************)
THEOREM TaskCallsRunOnce == ASSUME OneApp PROVE Spec => []CallsRunOnce
<1> DEFINE Inv == AloneInv /\ MadeFirst /\ (again = 0 => RunsCounted)
<1>1. Init => Inv
  <2>1. Init => RunsCounted
    BY NoRunParts, KeptParts DEF Init, RunsCounted, Redo
  <2> QED BY <2>1, AloneInit, MadeFirstInit
<1>2. Inv /\ [Next]_vars => Inv' BY AloneStep, MadeFirstStep, RunsCountedStep DEF AloneInv
<1>3. Inv => CallsRunOnce BY DEF RunsCounted, CallsRunOnce
<1> QED BY <1>1, <1>2, <1>3, PTL DEF Spec

-----------------------------------------------------------------------------
(* Nothing is made that was not approved.                                  *)

Granted == \E a \in Images : saved.answers[a] = "approved"

ApprovedOnly ==
    /\ \A a \in Calls : saved.answers[a] = "approved" => a \in approved
    /\ \A w \in Workers, a \in Calls : run[w].answers[a] = "approved" => a \in approved
    /\ \A a \in Videos : ran[a] > 0 => a \in approved

NothingGranted ==
    grants = 0 => free = 0 /\ ~Granted /\ \A w \in Workers : run[w].allowance = 0

VideosApproved == \A a \in Videos : ran[a] > 0 => a \in approved

LEMMA AllowanceParts ==
    /\ Allowance(saved) \in 0..(IMAGES_PER_APPROVAL - 1)
    /\ ~Granted => Allowance(saved) = 0
<1> DEFINE yes == {a \in Images : saved.answers[a] = "approved"}
<1>1. Cardinality(yes) \in Nat /\ (yes = {} => Cardinality(yes) = 0)
  BY CallsFinite, FS_EmptySet
<1>2. ~Granted => yes = {} BY DEF Granted
<1>3. Allowance(saved) = IF Cardinality(yes) \in 1..IMAGES_PER_APPROVAL
                         THEN IMAGES_PER_APPROVAL - Cardinality(yes) ELSE 0
  BY DEF Allowance
<1> HIDE DEF yes
<1> QED BY <1>1, <1>2, <1>3, ConstantsAssumption

LEMMA QuietAnswers ==
    ASSUME TypeInv, MessageInv,
           \/ \E c \in Clients : Prepares(c) \/ Commit(c) \/ Kick(c) \/ Abort(c)
           \/ Beside
           \/ \E w \in Workers : Messages(w)
    PROVE  \/ saved'.answers \in {saved.answers, Unanswered} /\ UNCHANGED <<approved, grants>>
           \/ \E c \in Clients : SavesAnswers(c) /\ run' = run /\ crashes' = crashes
<1>1. ASSUME NEW c \in Clients, Prepares(c)
      PROVE  \/ UNCHANGED <<saved, approved, grants>>
             \/ SavesAnswers(c) /\ run' = run /\ crashes' = crashes
  BY <1>1, PreparesEffect, RequestsFrame
<1>2. ASSUME NEW c \in Clients, Commit(c) \/ Kick(c) \/ Abort(c)
      PROVE  UNCHANGED <<saved, approved, grants>>
  BY <1>2, CommitFrame, KickFrame, AbortFrame DEF counts
<1>3. CASE Beside BY <1>3, BesideFrame, KeptParts
<1>4. ASSUME NEW w \in Workers, Messages(w) PROVE UNCHANGED <<saved, approved, grants>>
  BY <1>4, MessagesEffect DEF counts
<1> QED BY <1>1, <1>2, <1>3, <1>4

LEMMA ApprovedOnlyStep == TypeInv /\ MessageInv /\ ApprovedOnly /\ [Next]_vars => ApprovedOnly'
<1> SUFFICES ASSUME TypeInv, MessageInv, ApprovedOnly, [Next]_vars PROVE ApprovedOnly' OBVIOUS
<1>u. \A a \in Calls : Unanswered[a] = "none" BY DEF Unanswered
<1>v. Videos \subseteq Calls /\ Images \cap Videos = {} BY ConstantsAssumption DEF Calls
<1>1. ASSUME \/ \E c \in Clients : Prepares(c) \/ Commit(c) \/ Kick(c) \/ Abort(c)
             \/ Beside
             \/ \E w \in Workers : Messages(w)
      PROVE  ApprovedOnly'
  <2>1. ran' = ran BY <1>1, QuietFrame
  <2>2. run' = run \/ \E w \in Workers : Fresh(w)
    BY <1>1, RequestsFrame, BesideFrame, MessagesEffect
  <2>3. CASE saved'.answers \in {saved.answers, Unanswered} /\ UNCHANGED <<approved, grants>>
    BY <1>u, <2>1, <2>2, <2>3 DEF ApprovedOnly, Fresh
  <2>4. ASSUME NEW c \in Clients, SavesAnswers(c), run' = run PROVE ApprovedOnly'
    <3>1. approved' = approved \cup {a \in Calls : saved'.answers[a] = "approved"}
      BY <2>4, AnswersParts
    <3> QED BY <2>1, <2>4, <3>1 DEF ApprovedOnly
  <2> QED BY <1>1, <2>3, <2>4, QuietAnswers
<1>2. ASSUME NEW w \in Workers, Works(w) PROVE ApprovedOnly'
  <2>1. \A v \in Workers \ {w} : run'[v] = run[v] BY <1>2, WorksFrame
  <2>2. approved' = approved BY <1>2, WorksEffect
  <2>3. CASE Loads(w) BY <2>1, <2>2, <2>3 DEF Loads, ApprovedOnly
  <2>4. CASE Saves(w) BY <1>u, <2>1, <2>2, <2>4, KeptParts DEF Saves, Keeps, ApprovedOnly
  <2>5. CASE Carries(w) BY <1>u, <2>1, <2>2, <2>5, KeptParts DEF Carries, Keeps, ApprovedOnly
  <2>6. CASE Settles(w)
    <3>1. Approved(run[w]) \in SUBSET Calls /\ \A a \in Approved(run[w]) : a \in approved
      BY ApprovedPending DEF ApprovedOnly, Approved
    <3>2. \A a \in Videos : ran'[a] > 0 => a \in approved
      BY <1>v, <2>6, <3>1, ExecutedParts DEF Settles, ApprovedOnly
    <3> QED BY <1>u, <2>1, <2>2, <2>6, <3>2 DEF Settles, ApprovedOnly
  <2>7. ASSUME NEW calls \in (SUBSET (Calls \ made)) \ {{}}, Makes(w, calls) PROVE ApprovedOnly'
    <3>1. \A a \in Videos : ran'[a] = ran[a] BY <1>v, <2>7, ExecutedParts DEF Makes
    <3> QED BY <2>1, <2>2, <2>7, <3>1 DEF Makes, ApprovedOnly
  <2>8. ASSUME NEW calls \in (SUBSET (Calls \ made)) \ {{}}, AsksFor(w, calls) PROVE ApprovedOnly'
    BY <1>u, <2>1, <2>2, <2>8 DEF AsksFor, ApprovedOnly
  <2> QED BY <1>2, <2>3, <2>4, <2>5, <2>6, <2>7, <2>8, WorksEffect
<1> QED BY <1>1, <1>2, StepKinds DEF Messages

(***************************************************************************)
(* A video is only ever made once the user approved that video, however    *)
(* many apps answer and however the runs are cut off: an approval reaches a*)
(* run only through the saved run, and only with that call                 *)
(* (background/approvals.py, jobs.py).                                     *)
(***************************************************************************)
THEOREM VideosAreApproved == Spec => []VideosApproved
<1>1. Init => TypeInv /\ MessageInv /\ ApprovedOnly
  <2>1. Init => ApprovedOnly
    <3> SUFFICES ASSUME Init PROVE ApprovedOnly OBVIOUS
    <3>1. \A a \in Calls : Unanswered[a] = "none" BY DEF Unanswered
    <3>2. Videos \subseteq Calls BY DEF Calls
    <3> QED BY <3>1, <3>2, NoRunParts, KeptParts DEF Init, ApprovedOnly
  <2> QED BY <2>1, InitType, MessageInit
<1>2. TypeInv /\ MessageInv /\ ApprovedOnly /\ [Next]_vars => (TypeInv /\ MessageInv /\ ApprovedOnly)'
  BY TypeStep, MessageStep, ApprovedOnlyStep
<1>3. ApprovedOnly => VideosApproved BY DEF ApprovedOnly, VideosApproved
<1> QED BY <1>1, <1>2, <1>3, PTL DEF Spec

LEMMA NothingGrantedStep == TypeInv /\ MessageInv /\ NothingGranted /\ [Next]_vars => NothingGranted'
<1> SUFFICES ASSUME TypeInv, MessageInv, NothingGranted, [Next]_vars, grants' = 0
             PROVE  free' = 0 /\ ~Granted' /\ \A w \in Workers : run'[w].allowance = 0
  BY DEF NothingGranted
<1>u. \A a \in Calls : Unanswered[a] = "none" BY DEF Unanswered
<1>v. Images \subseteq Calls /\ grants \in Nat /\ free \in Nat BY DEF Calls, TypeInv, TypeOK
<1>1. ASSUME \/ \E c \in Clients : Prepares(c) \/ Commit(c) \/ Kick(c) \/ Abort(c)
             \/ Beside
             \/ \E w \in Workers : Messages(w)
      PROVE  free' = 0 /\ ~Granted' /\ \A w \in Workers : run'[w].allowance = 0
  <2>1. free' = free BY <1>1, QuietFrame
  <2>2. run' = run \/ \E w \in Workers : Fresh(w)
    BY <1>1, RequestsFrame, BesideFrame, MessagesEffect
  <2>3. CASE saved'.answers \in {saved.answers, Unanswered} /\ UNCHANGED <<approved, grants>>
    BY <1>u, <1>v, <2>1, <2>2, <2>3 DEF NothingGranted, Granted, Fresh
  <2>4. ASSUME NEW c \in Clients, SavesAnswers(c), run' = run
        PROVE  free' = 0 /\ ~Granted' /\ \A w \in Workers : run'[w].allowance = 0
    <3>1. grants' = IF \E a \in Images : saved'.answers[a] = "approved" THEN grants + 1 ELSE grants
      BY <2>4, AnswersParts
    <3> QED BY <1>v, <2>1, <2>4, <3>1 DEF NothingGranted, Granted
  <2> QED BY <1>1, <2>3, <2>4, QuietAnswers
<1>2. ASSUME NEW w \in Workers, Works(w)
      PROVE  free' = 0 /\ ~Granted' /\ \A v \in Workers : run'[v].allowance = 0
  <2>1. \A v \in Workers \ {w} : run'[v] = run[v] BY <1>2, WorksFrame
  <2>2. free = 0 /\ ~Granted /\ \A v \in Workers : run[v].allowance = 0
    BY <1>2, WorksEffect DEF NothingGranted
  <2>3. CASE Loads(w) BY <2>1, <2>2, <2>3, AllowanceParts DEF Loads, Granted
  <2>4. CASE Saves(w) BY <1>u, <1>v, <2>1, <2>2, <2>4, KeptParts DEF Saves, Keeps, Granted
  <2>5. CASE Carries(w) BY <1>u, <1>v, <2>1, <2>2, <2>5, KeptParts DEF Carries, Keeps, Granted
  <2>6. CASE Settles(w) BY <2>1, <2>2, <2>6 DEF Settles, Granted
  <2>7. ASSUME NEW calls, Makes(w, calls)
        PROVE  free' = 0 /\ ~Granted' /\ \A v \in Workers : run'[v].allowance = 0
    <3>1. Cardinality(calls) = 0 BY <2>2, <2>7 DEF Makes
    <3> QED BY <2>1, <2>2, <2>7, <3>1 DEF Makes, Granted
  <2>8. ASSUME NEW calls, AsksFor(w, calls)
        PROVE  free' = 0 /\ ~Granted' /\ \A v \in Workers : run'[v].allowance = 0
    BY <2>1, <2>2, <2>8 DEF AsksFor, Granted
  <2> QED BY <1>2, <2>3, <2>4, <2>5, <2>6, <2>7, <2>8, WorksEffect
<1> QED BY <1>1, <1>2, StepKinds DEF Messages

-----------------------------------------------------------------------------
(* An approval of an image covers IMAGES_PER_APPROVAL of them: the one     *)
(* approved, and the others without being asked for.                       *)

(* What the approvals, and the runs cut off, let be made unasked.          *)
Bound == (IMAGES_PER_APPROVAL - 1) * (grants + crashes)

Spending ==
    /\ free <= Bound
    /\ \A w \in Workers : run[w].phase \in Busy => free + run[w].allowance <= Bound
    /\ Resting /\ Granted => free + (IMAGES_PER_APPROVAL - 1) <= Bound

LEMMA NatArithmetic == \A m, n \in Nat : m + n \in Nat /\ m * n \in Nat
OBVIOUS

LEMMA BoundParts ==
    ASSUME TypeInv, crashes' \in Nat, grants' \in Nat
    PROVE  /\ Bound \in Nat /\ Bound' \in Nat /\ IMAGES_PER_APPROVAL - 1 \in Nat
           /\ grants' = grants /\ crashes' = crashes => Bound' = Bound
           /\ grants' = grants + 1 /\ crashes' = crashes => Bound' = Bound + (IMAGES_PER_APPROVAL - 1)
           /\ grants' = grants /\ crashes' = crashes + 1 => Bound' = Bound + (IMAGES_PER_APPROVAL - 1)
<1>1. grants \in Nat /\ crashes \in Nat BY DEF TypeInv, TypeOK
<1> DEFINE i == IMAGES_PER_APPROVAL - 1
<1>2. i \in Nat BY ConstantsAssumption
<1>3. Bound = i * (grants + crashes) /\ Bound' = i * (grants' + crashes') BY DEF Bound
<1> HIDE DEF i
<1>4. grants + crashes \in Nat /\ grants' + crashes' \in Nat BY <1>1, NatArithmetic
<1>5. \A n \in Nat : i * (n + 1) = i * n + i BY <1>2
<1>6. grants + 1 + crashes = (grants + crashes) + 1 /\ grants + (crashes + 1) = (grants + crashes) + 1
      /\ grants + crashes \in Nat
  BY <1>1
<1>7. grants' = grants + 1 /\ crashes' = crashes => Bound' = Bound + i BY <1>3, <1>5, <1>6
<1>8. grants' = grants /\ crashes' = crashes + 1 => Bound' = Bound + i BY <1>3, <1>5, <1>6
<1>9. Bound \in Nat /\ Bound' \in Nat BY <1>2, <1>3, <1>4, NatArithmetic
<1> QED BY <1>2, <1>3, <1>7, <1>8, <1>9 DEF i

LEMMA SpendingStep ==
    ASSUME OneApp, AloneInv, again = 0 => Spending, [Next]_vars, again' = 0
    PROVE  Spending'
<1>0. /\ TypeInv /\ MessageInv /\ PlaceKnown /\ Lineage /\ Spending /\ task \in Task
      /\ \A w \in Workers : CutOff(w) => run[w].phase # "ack"
  BY AgainGrows DEF AloneInv, LineageInv, TypeInv, TypeOK
<1>n. /\ TypeInv' /\ crashes' \in Nat /\ grants' \in Nat /\ free \in Nat
      /\ \A w \in Workers : run[w].allowance \in Nat /\ run'[w].allowance \in Nat
  <2>1. TypeInv' BY <1>0, TypeStep
  <2> QED BY <1>0, <2>1, ConstantsAssumption DEF TypeInv, TypeOK, Run
<1>b. Bound \in Nat /\ Bound' \in Nat /\ IMAGES_PER_APPROVAL - 1 \in Nat BY <1>0, <1>n, BoundParts
<1>u. Images \subseteq Calls /\ \A a \in Calls : Unanswered[a] = "none" BY DEF Calls, Unanswered
<1>1. ASSUME \/ \E c \in Clients : Prepares(c) \/ Commit(c) \/ Kick(c) \/ Abort(c)
             \/ Beside
      PROVE  Spending'
  <2>1. free' = free /\ run' = run /\ crashes' = crashes
    BY <1>0, <1>1, QuietFrame, RequestsFrame, BesideFrame
  <2>2. Resting' => Resting BY <1>0, <1>1, RestingStep
  <2>3. CASE saved'.answers \in {saved.answers, Unanswered} /\ UNCHANGED <<approved, grants>>
    <3>1. Granted' => Granted BY <1>u, <2>3 DEF Granted
    <3>2. Bound' = Bound BY <1>0, <1>n, <2>1, <2>3, BoundParts
    <3> QED BY <1>0, <2>1, <2>2, <3>1, <3>2 DEF Spending
  <2>4. ASSUME NEW c \in Clients, SavesAnswers(c) PROVE Spending'
    <3>1. grants' = IF Granted' THEN grants + 1 ELSE grants BY <1>0, <2>4, AnswersParts DEF Granted
    <3>2. Bound' = IF Granted' THEN Bound + (IMAGES_PER_APPROVAL - 1) ELSE Bound
      BY <1>0, <1>n, <2>1, <3>1, BoundParts
    <3> HIDE DEF Bound
    <3> QED BY <1>0, <1>n, <1>b, <2>1, <3>2 DEF Spending
  <2> QED BY <1>0, <1>1, <2>3, <2>4, QuietAnswers
<1>2. ASSUME NEW w \in Workers, Messages(w) PROVE Spending'
  <2>1. Fresh(w) /\ UNCHANGED <<task, saved, free, grants>> BY <1>0, <1>2, MessagesEffect DEF counts
  <2>2. CASE crashes' = crashes /\ ~CutOff(w)
    <3>1. run[w].phase \in {"idle", "ack"} BY <1>2, <2>2, DeliverFrame, AcknowledgeFrame, <1>0 DEF Messages
    <3>2. Resting' => Resting BY <2>1, <3>1 DEF Resting, Fresh, Busy
    <3>3. Bound' = Bound BY <1>0, <1>n, <2>1, <2>2, BoundParts
    <3> QED BY <1>0, <2>1, <2>2, <3>2, <3>3 DEF Spending, Fresh, Busy, Granted
  <2>3. CASE crashes' = crashes + 1
    <3>1. Bound' = Bound + (IMAGES_PER_APPROVAL - 1) BY <1>0, <1>n, <2>1, <2>3, BoundParts
    <3> QED BY <1>0, <1>n, <1>b, <2>1, <3>1 DEF Spending, Fresh, Busy
  <2>4. CutOff(w) => crashes' = crashes + 1 BY <1>0, CutOffFrame
  <2> QED BY <1>0, <1>2, <2>2, <2>3, <2>4, MessagesEffect
<1>3. ASSUME NEW w \in Workers, Works(w) PROVE Spending'
  <2>1. /\ task.status = "running" /\ run[w].phase \notin {"idle", "ack"}
        /\ \A v \in Workers \ {w} : run[v].phase \in {"idle", "ack"} /\ run'[v] = run[v]
    BY <1>0, <1>3, WorksAlone, WorksCarried
  <2>2. PhaseStep(run[w].phase, run'[w].phase) /\ crashes' = crashes BY <1>0, <1>3, WorksFrame
  <2>3. Bound' = Bound BY <1>0, <1>3, <1>n, <2>2, BoundParts, WorksEffect
  <2>4. free + run[w].allowance <= Bound
    <3>1. run[w].phase \in Busy \cup {"start"} BY <1>0, <2>1, RunParts DEF Busy, TypeInv, Run
    <3> QED BY <1>0, <1>n, <3>1 DEF Spending, PlaceKnown
  <2>5. ASSUME free' + run'[w].allowance <= Bound,
               Resting' /\ Granted' => free' + (IMAGES_PER_APPROVAL - 1) <= Bound
        PROVE  Spending'
    <3>1. free' \in Nat BY <1>n DEF TypeInv, TypeOK
    <3>2. free' <= Bound BY <1>b, <1>n, <2>5, <3>1
    <3> QED BY <2>1, <2>3, <2>5, <3>2 DEF Spending, Busy
  <2>6. run'[w].phase \in Busy \ {"clear", "halted", "waits"} => ~Resting' BY DEF Resting
  <2>7. CASE Loads(w)
    <3>1. Resting BY <2>1, <2>7 DEF Resting, Loads, Busy
    <3>2. free' + run'[w].allowance <= Bound
      <4>1. run'[w].allowance = Allowance(saved) /\ free' = free BY <2>7 DEF Loads
      <4>2. CASE Granted
        <5>1. free + (IMAGES_PER_APPROVAL - 1) <= Bound BY <1>0, <3>1, <4>2 DEF Spending
        <5>2. Allowance(saved) <= IMAGES_PER_APPROVAL - 1 /\ Allowance(saved) \in Nat
          BY <1>b, AllowanceParts
        <5> QED BY <1>b, <1>n, <4>1, <5>1, <5>2
      <4>3. CASE ~Granted
        <5>1. Allowance(saved) = 0 BY <4>3, AllowanceParts
        <5> QED BY <1>0, <1>n, <4>1, <5>1 DEF Spending
      <4> QED BY <4>2, <4>3
    <3> QED BY <2>5, <2>6, <2>7, <3>2 DEF Loads, Busy, Phases
  <2>8. CASE Saves(w)
    <3>1. ~Granted' BY <1>u, <2>8, KeptParts DEF Saves, Granted
    <3> QED BY <2>4, <2>5, <2>8, <3>1 DEF Saves, Keeps
  <2>9. CASE Settles(w) BY <2>4, <2>5, <2>6, <2>9 DEF Settles, Busy, Phases
  <2>10. ASSUME NEW calls, Makes(w, calls) PROVE Spending'
    <3>1. Cardinality(calls) \in Nat /\ run[w].allowance \in Nat BY <1>n, <2>10 DEF Makes
    <3>2. free' + run'[w].allowance = free + run[w].allowance BY <1>n, <2>10, <3>1 DEF Makes
    <3> QED BY <2>4, <2>5, <2>6, <2>10, <3>2 DEF Makes, Busy, Phases
  <2>11. ASSUME NEW calls, AsksFor(w, calls) PROVE Spending'
    BY <2>4, <2>5, <2>6, <2>11 DEF AsksFor, Busy, Phases
  <2>12. CASE Carries(w)
    <3>1. free' + run'[w].allowance <= Bound BY <2>4, <2>12 DEF Carries, Keeps
    <3>2. ASSUME Resting', Granted' PROVE free' + (IMAGES_PER_APPROVAL - 1) <= Bound
      <4>1. Granted BY <1>u, <2>12, <3>2, KeptParts DEF Carries, Granted
      <4>2. Resting BY <1>0, <1>3, <2>6, <2>12, <3>2, CarriesResting
      <4> QED BY <1>0, <2>12, <4>1, <4>2 DEF Spending, Carries
    <3> QED BY <2>5, <3>1, <3>2
  <2> QED BY <1>0, <1>3, <2>7, <2>8, <2>9, <2>10, <2>11, <2>12, WorksEffect
<1> QED BY <1>1, <1>2, <1>3, StepKinds DEF Messages

LEMMA SpendingBound ==
    ASSUME NEW i \in Nat, NEW g \in Nat \ {0}, NEW c \in Nat
    PROVE  i * (g + c) <= i * g * (1 + c)
<1>1. g * (1 + c) = g + g * c /\ g * c \in Nat OBVIOUS
<1>2. g * c = c + (g - 1) * c /\ (g - 1) * c \in Nat
  <2>1. g - 1 \in Nat OBVIOUS
  <2> QED BY <2>1
<1> DEFINE d == (g - 1) * c
<1>3. g * (1 + c) = (g + c) + d /\ d \in Nat BY <1>1, <1>2
<1> HIDE DEF d
<1>4. i * (g * (1 + c)) = i * (g + c) + i * d /\ i * d \in Nat /\ i * (g + c) \in Nat
  BY <1>3, NatArithmetic
<1>5. i * g * (1 + c) = i * (g * (1 + c)) OBVIOUS
<1> QED BY <1>4, <1>5

(***************************************************************************)
(* Under one app's requests, as long as no message came back that was done *)
(* with already, nothing that spends the user's money is done unasked: each*)
(* approval of an image lets no more further ones be made than it covers,  *)
(* and no more again than that for each run cut off, which loses the count *)
(* (background/jobs.py _allowance).                                        *)
(***************************************************************************)
THEOREM TaskSpendsWhatWasApproved ==
    ASSUME OneApp
    PROVE  Spec => [](again = 0 => SpendsWhatWasApproved)
<1> DEFINE Inv == AloneInv /\ ApprovedOnly /\ NothingGranted /\ (again = 0 => Spending)
<1>1. Init => Inv
  <2> SUFFICES ASSUME Init PROVE Inv OBVIOUS
  <2>0. AloneInv BY AloneInit
  <2>1. (\A a \in Calls : Unanswered[a] = "none") /\ Videos \subseteq Calls /\ Images \subseteq Calls
    BY DEF Unanswered, Calls
  <2>2. ApprovedOnly BY <2>1, NoRunParts, KeptParts DEF Init, ApprovedOnly
  <2>3. NothingGranted /\ ~Granted BY <2>1, NoRunParts, KeptParts DEF Init, NothingGranted, Granted
  <2>4. Bound \in Nat
    <3>1. IMAGES_PER_APPROVAL - 1 \in Nat /\ grants + crashes \in Nat BY ConstantsAssumption DEF Init
    <3> QED BY <3>1, NatArithmetic DEF Bound
  <2>5. \A w \in Workers : run[w].phase \notin Busy BY NoRunParts DEF Init, Busy
  <2>6. Spending BY <2>3, <2>4, <2>5 DEF Init, Spending
  <2> QED BY <2>0, <2>2, <2>3, <2>6
<1>2. Inv /\ [Next]_vars => Inv'
  BY AloneStep, ApprovedOnlyStep, NothingGrantedStep, SpendingStep DEF AloneInv
<1>3. Inv => (again = 0 => SpendsWhatWasApproved)
  <2> SUFFICES ASSUME Inv, again = 0
               PROVE  free <= (IMAGES_PER_APPROVAL - 1) * grants * (1 + crashes)
    BY DEF ApprovedOnly, SpendsWhatWasApproved
  <2>1. grants \in Nat /\ crashes \in Nat /\ IMAGES_PER_APPROVAL - 1 \in Nat /\ free \in Nat
    BY ConstantsAssumption DEF AloneInv, TypeInv, TypeOK
  <2>2. CASE grants = 0
    <3>1. free = 0 BY <2>2 DEF NothingGranted
    <3>2. (IMAGES_PER_APPROVAL - 1) * grants = 0 BY <2>1, <2>2
    <3>3. (IMAGES_PER_APPROVAL - 1) * grants * (1 + crashes) = 0 BY <2>1, <3>2
    <3> QED BY <3>1, <3>3
  <2>3. CASE grants # 0
    <3> DEFINE i == IMAGES_PER_APPROVAL - 1
               m == i * (grants + crashes)
               n == i * grants * (1 + crashes)
    <3>1. free <= m BY DEF Spending, Bound
    <3>2. m <= n BY <2>1, <2>3, SpendingBound
    <3>3. m \in Nat /\ n \in Nat
      <4> HIDE DEF i
      <4>1. i \in Nat BY <2>1 DEF i
      <4>2. grants + crashes \in Nat /\ 1 + crashes \in Nat /\ i * grants \in Nat
        BY <2>1, <4>1, NatArithmetic
      <4> QED BY <4>1, <4>2, NatArithmetic
    <3> HIDE DEF m, n
    <3>4. free <= n BY <2>1, <3>1, <3>2, <3>3
    <3> QED BY <3>4 DEF n, i
  <2> QED BY <2>2, <2>3
<1> QED BY <1>1, <1>2, <1>3, PTL DEF Spec

-----------------------------------------------------------------------------
(* The files of a task are delivered once more for every run cut off, and  *)
(* no more, even where messages come back that were done with: whatever may*)
(* still lead to a delivery is counted against the runs cut off.           *)

(* It will carry the task to a run that may deliver, or has.               *)
MayDeliver(k) ==
    \/ queue[k] \in {"promised", "queued"}
    \/ \E w \in Workers : /\ run[w].kick = k
                          /\ run[w].phase \notin {"idle", "commit", "failing", "ack"}

Undelivered == {k \in Kicks : MayDeliver(k)}

(* A message more may be promised for it.                                  *)
Reopenable ==
    \/ task.status \in {"none"} \cup MayReopen
    \/ \E c \in Clients : Undecided(c) /\ ~(req[c].kind = "stop" /\ req[c].seen = "running")

Chance == IF Reopenable THEN 1 ELSE 0

Deliveries == delivered + Cardinality(Undelivered) + Chance <= 1 + crashes

LEMMA Cardinalities ==
    ASSUME NEW S \in SUBSET Kicks, NEW T \in SUBSET Kicks
    PROVE  /\ Cardinality(S) \in Nat /\ Cardinality(T) \in Nat
           /\ T \subseteq S => Cardinality(T) <= Cardinality(S)
           /\ \A k \in Kicks : T \subseteq S \cup {k} => Cardinality(T) <= Cardinality(S) + 1
           /\ \A k \in S : T \subseteq S \ {k} => Cardinality(T) + 1 <= Cardinality(S)
<1>1. IsFiniteSet(S) /\ IsFiniteSet(T) BY FS_Subset, ConstantsAssumption
<1>2. Cardinality(S) \in Nat /\ Cardinality(T) \in Nat BY <1>1, FS_CardinalityType
<1>3. T \subseteq S => Cardinality(T) <= Cardinality(S) BY <1>1, FS_Subset
<1>4. ASSUME NEW k \in Kicks, T \subseteq S \cup {k} PROVE Cardinality(T) <= Cardinality(S) + 1
  <2>1. IsFiniteSet(S \cup {k}) /\ Cardinality(S \cup {k}) \in {Cardinality(S), Cardinality(S) + 1}
    BY <1>1, FS_AddElement
  <2>2. Cardinality(T) <= Cardinality(S \cup {k}) BY <1>4, <2>1, FS_Subset
  <2> QED BY <1>2, <2>1, <2>2
<1>5. ASSUME NEW k \in S, T \subseteq S \ {k} PROVE Cardinality(T) + 1 <= Cardinality(S)
  <2>1. IsFiniteSet(S \ {k}) /\ Cardinality(S \ {k}) = Cardinality(S) - 1
    BY <1>1, FS_RemoveElement
  <2>2. Cardinality(T) <= Cardinality(S \ {k}) BY <1>5, <2>1, FS_Subset
  <2> QED BY <1>2, <2>1, <2>2
<1> QED BY <1>2, <1>3, <1>4, <1>5

LEMMA DeliveriesStep ==
    ASSUME OneApp, TypeInv, MessageInv, Deliveries, [Next]_vars
    PROVE  Deliveries'
<1>0. /\ queue \in [Kicks -> QueueStates] /\ delivered \in Nat /\ crashes \in Nat /\ task \in Task
      /\ Undelivered \in SUBSET Kicks /\ Undelivered' \in SUBSET Kicks
  BY ConstantsAssumption DEF TypeInv, TypeOK, MaxRuns, Undelivered
<1>n. Cardinality(Undelivered) \in Nat /\ Cardinality(Undelivered') \in Nat BY <1>0, Cardinalities
<1>c. Chance \in 0..1 /\ Chance' \in 0..1 BY DEF Chance
<1>s. ASSUME Undelivered' \subseteq Undelivered, Reopenable' => Reopenable, delivered' = delivered,
             crashes' = crashes
      PROVE  Deliveries'
  <2>1. Cardinality(Undelivered') <= Cardinality(Undelivered) BY <1>0, <1>s, Cardinalities
  <2>2. Chance' <= Chance BY <1>s DEF Chance
  <2> QED BY <1>0, <1>n, <1>c, <1>s, <2>1, <2>2 DEF Deliveries
<1>1. ASSUME NEW c \in Clients, Prepares(c) PROVE Deliveries'
  <2>1. req[c].phase # "kick" => req[c].kick = NoKick BY DEF MessageInv, Promised
  <2>2. UNCHANGED <<queue, run, crashes, delivered>> BY <1>1, <2>1, PreparesFrame, PreparesEffect
  <2>3. ASSUME Reopenable' PROVE Reopenable
    <3>1. CASE task'.status \in {"none"} \cup MayReopen /\ task' # task
      <4>1. StopWaiting(c)
        BY <1>0, <1>1, <3>1 DEF Prepares, Read, AskToStop, FindExpired, Look, Answer, ClearForResume,
                                Finish, Task, MayReopen
      <4> QED BY <4>1 DEF StopWaiting, Reopenable, Undecided
    <3>2. CASE task' = task /\ task.status \in {"none"} \cup MayReopen BY <3>2 DEF Reopenable
    <3>3. ASSUME Undecided(c)', ~(req'[c].kind = "stop" /\ req'[c].seen = "running") PROVE Reopenable
      <4>1. CASE Undecided(c) /\ req'[c].kind = req[c].kind /\ req'[c].seen = req[c].seen
        BY <3>3, <4>1 DEF Reopenable
      <4>2. CASE Accepts(req'[c].kind, task.status) /\ req'[c].seen = task.status
        BY <3>3, <4>2 DEF Accepts, Reopenable, MayReopen
      <4> QED BY <1>1, <3>3, <4>1, <4>2, UndecidedStep
    <3> QED BY <2>3, <3>1, <3>2, <3>3 DEF Reopenable, OneApp
  <2> QED BY <1>s, <2>2, <2>3 DEF Undelivered, MayDeliver
<1>2. ASSUME NEW c \in Clients, Commit(c) PROVE Deliveries'
  <2>1. /\ Undecided(c) /\ req[c].kind \in {"start", "approve", "resume"}
        /\ req'[c].phase = "kick" /\ req'[c].kick \in Kicks /\ task'.status = "running"
        /\ queue' = [queue EXCEPT ![req'[c].kick] = "promised"]
        /\ UNCHANGED <<run, delivered, crashes>>
    BY <1>2, CommitFrame DEF Undecided, Unused, counts
  <2>2. Chance = 1 /\ Chance' = 0
    BY <2>1 DEF Chance, Reopenable, Undecided, OneApp, MayReopen
  <2>3. Undelivered' \subseteq Undelivered \cup {req'[c].kick}
    BY <1>0, <2>1 DEF Undelivered, MayDeliver
  <2>4. Cardinality(Undelivered') <= Cardinality(Undelivered) + 1
    BY <1>0, <2>1, <2>3, Cardinalities
  <2> QED BY <1>0, <1>n, <2>1, <2>2, <2>4 DEF Deliveries
<1>3. ASSUME NEW c \in Clients, Kick(c) \/ Abort(c) PROVE Deliveries'
  <2>1. req'[c] = NoRequest /\ UNCHANGED <<task, run, delivered, crashes>>
    BY <1>3, KickFrame, AbortFrame DEF counts
  <2>2. \/ queue' = queue
        \/ /\ req[c].phase = "kick"
           /\ \E s : queue' = [queue EXCEPT ![req[c].kick] = s]
    BY <1>3, KickFrame, AbortFrame
  <2>3. req[c].phase = "kick" => queue[req[c].kick] = "promised" BY DEF MessageInv, Promised
  <2>4. Undelivered' \subseteq Undelivered
    BY <1>0, <2>1, <2>2, <2>3 DEF Undelivered, MayDeliver
  <2>5. Reopenable' => Reopenable BY <2>1 DEF Reopenable, Undecided, NoRequest, OneApp
  <2> QED BY <1>s, <2>1, <2>4, <2>5
<1>4. CASE Beside
  <2>1. UNCHANGED <<req, queue, run, delivered, crashes>> BY <1>4, BesideFrame
  <2>2. task'.status = task.status \/ task.status = "needs_approval"
    BY <1>0, <1>4, BesideFrame DEF Finish, Task
  <2>3. Reopenable' => Reopenable BY <2>1, <2>2 DEF Reopenable, Undecided, MayReopen
  <2> QED BY <1>s, <2>1, <2>3 DEF Undelivered, MayDeliver
<1>5. ASSUME NEW w \in Workers, Messages(w) PROVE Deliveries'
  <2>1. Fresh(w) /\ UNCHANGED <<task, req, delivered>> BY <1>5, MessagesEffect DEF counts
  <2>2. Chance' = Chance BY <2>1 DEF Chance, Reopenable, Undecided
  <2>3. CASE CutOff(w)
    <3>1. /\ crashes' = crashes + 1 /\ run'[w].phase = "idle"
          /\ \E s : queue' = [queue EXCEPT ![run[w].kick] = s]
          /\ run[w].kick \in Kicks
      BY <2>3, CutOffFrame, NoRunParts DEF MessageInv, MessageHeld, Begun
    <3>2. Undelivered' \subseteq Undelivered \cup {run[w].kick}
      BY <1>0, <2>1, <3>1 DEF Undelivered, MayDeliver, Fresh
    <3>3. Cardinality(Undelivered') <= Cardinality(Undelivered) + 1
      BY <1>0, <3>1, <3>2, Cardinalities
    <3> QED BY <1>0, <1>n, <1>c, <2>1, <2>2, <3>1, <3>3 DEF Deliveries
  <2>4. CASE Acknowledge(w)
    <3>1. /\ run'[w].phase = "idle" /\ queue' = [queue EXCEPT ![run[w].kick] = "done"]
          /\ crashes' = crashes
      BY <2>4, AcknowledgeFrame, NoRunParts
    <3>2. Undelivered' \subseteq Undelivered
      BY <1>0, <2>1, <3>1 DEF Undelivered, MayDeliver, Fresh
    <3> QED BY <1>s, <2>1, <3>1, <3>2 DEF Reopenable, Undecided
  <2>5. ASSUME NEW k \in Kicks, Deliver(w, k) PROVE Deliveries'
    <3>1. /\ queue[k] = "queued" /\ queue' = [queue EXCEPT ![k] = "held"] /\ run'[w].kick = k
          /\ crashes' = crashes
      BY <2>5, DeliverFrame
    <3>2. Undelivered' \subseteq Undelivered
      BY <1>0, <2>1, <3>1 DEF Undelivered, MayDeliver, Fresh
    <3> QED BY <1>s, <2>1, <3>1, <3>2 DEF Reopenable, Undecided
  <2> QED BY <1>5, <2>3, <2>4, <2>5 DEF Messages
<1>6. ASSUME NEW w \in Workers, Works(w) PROVE Deliveries'
  <2>1. /\ PhaseStep(run[w].phase, run'[w].phase) /\ run'[w].kick = run[w].kick
        /\ \A v \in Workers \ {w} : run'[v] = run[v]
        /\ UNCHANGED <<req, queue, crashes>>
    BY <1>6, WorksFrame
  <2>2. run[w].phase \notin {"idle", "ack"} /\ run'[w].phase # "idle" /\ run[w].kick \in Kicks
        /\ queue[run[w].kick] = "held"
    BY <1>6, WorksCarried
  <2>3. run'[w].phase \notin {"commit", "failing", "ack"} => run[w].phase \notin {"commit", "failing"}
    BY <2>1 DEF PhaseStep
  <2>4. Undelivered' \subseteq Undelivered
    BY <2>1, <2>2, <2>3 DEF Undelivered, MayDeliver
  <2>5. ASSUME run[w].phase \notin {"commit", "failing"}, run'[w].phase \in {"commit", "failing", "ack"}
        PROVE  Cardinality(Undelivered') + 1 <= Cardinality(Undelivered)
    <3>1. run[w].kick \in Undelivered BY <2>2, <2>5 DEF Undelivered, MayDeliver
    <3>2. \A k \in Kicks : k = run[w].kick => ~MayDeliver(k)'
      <4>1. \A v \in Workers \ {w} : run[v].kick = run[w].kick => run[v].phase = "idle"
        BY <2>2 DEF MessageInv, OwnMessage, Begun
      <4> QED BY <2>1, <2>2, <2>5, <4>1 DEF MayDeliver
    <3>3. Undelivered' \subseteq Undelivered \ {run[w].kick}
      BY <2>4, <3>2 DEF Undelivered
    <3> QED BY <1>0, <3>1, <3>3, Cardinalities
  <2>6. CASE delivered' = delivered /\ (task' = task \/ task'.status \in {"done", "failed"})
    <3>1. Reopenable' => Reopenable BY <2>1, <2>6 DEF Reopenable, Undecided, MayReopen
    <3> QED BY <1>s, <2>1, <2>4, <2>6, <3>1
  <2>7. CASE delivered' = delivered /\ run[w].phase \in {"halted", "waits"} /\ run'[w].phase = "ack"
    BY <1>0, <1>n, <1>c, <2>1, <2>5, <2>7 DEF Deliveries
  <2>8. CASE delivered' = delivered + 1 /\ run[w].phase = "deliver" /\ run'[w].phase = "commit"
    <3>1. task' = task BY <1>6, <2>8, WorksStatus
    <3>2. Chance' = Chance BY <2>1, <3>1 DEF Chance, Reopenable, Undecided
    <3> QED BY <1>0, <1>n, <1>c, <2>1, <2>5, <2>8, <3>2 DEF Deliveries
  <2>9. \/ delivered' = delivered
        \/ delivered' = delivered + 1 /\ run[w].phase = "deliver" /\ run'[w].phase = "commit"
    BY <1>6, WorksEffect DEF Loads, Settles, Makes, AsksFor, Saves, Carries
  <2>10. \/ task' = task \/ task'.status \in {"done", "failed"}
         \/ run[w].phase \in {"halted", "waits"} /\ run'[w].phase = "ack"
    <3>1. run[w].phase = "commit" => run[w].end \in {"done", "failed"}
      BY RunParts DEF MessageInv, EndKnown, TypeInv, Run
    <3> QED BY <1>6, <3>1, WorksStatus DEF RestStatus
  <2> QED BY <2>6, <2>7, <2>8, <2>9, <2>10
<1> QED BY <1>1, <1>2, <1>3, <1>4, <1>5, <1>6, StepKinds DEF Messages

(***************************************************************************)
(* Under one app's requests finished work is copied into the user's project*)
(* once, and once more at most for every run cut off, however often the    *)
(* task was stopped, answered and resumed on the way (background/jobs.py). *)
(***************************************************************************)
THEOREM TaskDeliversOnce == ASSUME OneApp PROVE Spec => []DeliveredOnce
<1> DEFINE Inv == TypeInv /\ MessageInv /\ Deliveries
<1>1. Init => Inv
  <2> SUFFICES ASSUME Init PROVE Deliveries BY InitType, MessageInit
  <2>1. Undelivered = {} BY NoRunParts DEF Init, Undelivered, MayDeliver
  <2>2. Cardinality(Undelivered) = 0 BY <2>1, FS_EmptySet
  <2> QED BY <2>2 DEF Init, Deliveries, Chance
<1>2. Inv /\ [Next]_vars => Inv' BY TypeStep, MessageStep, DeliveriesStep
<1>3. Inv => DeliveredOnce
  <2> SUFFICES ASSUME Inv PROVE DeliveredOnce OBVIOUS
  <2>1. Undelivered \in SUBSET Kicks BY DEF Undelivered
  <2>2. Cardinality(Undelivered) \in Nat /\ Chance \in 0..1 /\ delivered \in Nat /\ crashes \in Nat
    BY <2>1, Cardinalities, ConstantsAssumption DEF Chance, TypeInv, TypeOK, MaxRuns
  <2> QED BY <2>2 DEF Deliveries, DeliveredOnce
<1> QED BY <1>1, <1>2, <1>3, PTL DEF Spec
=============================================================================
