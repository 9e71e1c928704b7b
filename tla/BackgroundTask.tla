--------------------------- MODULE BackgroundTask ---------------------------
(***************************************************************************)
(* One background task of the_way: its row, the run saved in Redis while it*)
(* waits or is stopped, the requests that start, answer, stop, resume and  *)
(* look at it, the workers that run it, and the turns of its conversation  *)
(* that are told how it ended.                                             *)
(*                                                                         *)
(* Unlike a turn, a task is claimed by nobody: whoever holds a message for *)
(* it and finds it running, runs it.  Redis is written at once, the row at *)
(* the commit that follows, and the message is queued after that.          *)
(***************************************************************************)
EXTENDS Naturals, FiniteSets

CONSTANTS
    Clients,        \* requests the user's apps can have under way at once
    Workers,        \* tasks the workers can run at once
    Kicks,          \* queue messages
    Images,         \* calls that make one image: an approval covers more of them
    Videos,         \* calls that ask every time
    NoKick,         \* no message
    MaxIterations,  \* background/config.MAX_ITERATIONS
    IMAGES_PER_APPROVAL,
    Mishaps,        \* which of MishapKinds may happen
    Budget          \* how many messages and mishaps there are, in one behaviour

MishapKinds ==
    {"abort",     \* a request fails before its commit
     "lostkick",  \* a process dies after its commit, before it queued its message
     "crash",     \* a worker dies: its message comes back to the queue
     "shutdown",  \* a worker is shut down: its message may be acknowledged or not
     "error",     \* an exception ends a run
     "evict"}     \* the saved run expires, or Redis drops it

ASSUME ConstantsAssumption ==
    /\ NoKick \notin Kicks
    /\ IsFiniteSet(Clients) /\ IsFiniteSet(Kicks) /\ IsFiniteSet(Images)
    /\ Images \cap Videos = {}
    /\ MaxIterations \in Nat
    /\ IMAGES_PER_APPROVAL \in Nat \ {0}
    /\ Budget \in Nat
    /\ Mishaps \subseteq MishapKinds

VARIABLES
    task,       \* the task's row, as committed
    saved,      \* the run saved in Redis
    flag,       \* the stop flag
    req,        \* the request each client has under way
    queue,      \* where each queue message is
    run,        \* what each worker is doing
    turn,       \* a turn that asked the task to stop, and has not said it was told
    made,       \* the calls the model made that must ask
    ran,        \* how often each was executed
    approved,   \* those the user approved
    grants,     \* how often the user approved images
    free,       \* images made without being asked for
    delivered,  \* how often the files were copied to the user's project
    crashes,    \* runs cut off
    again,      \* messages that came back although what they asked for was done
    mishaps     \* how many things went wrong

vars == <<task, saved, flag, req, queue, run, turn, made, ran, approved, grants, free,
          delivered, crashes, again, mishaps>>

(* What is only counted, and what a worker's run leaves alone.             *)
counts == <<made, ran, approved, grants, free, delivered>>

Calls == Images \cup Videos

-----------------------------------------------------------------------------
TaskStatus == {"none", "running", "needs_approval", "done", "failed", "stopped"}
Results    == {"none", "done", "failed", "stopped", "expired"}

Task == [status : TaskStatus, result : Results, reported : BOOLEAN]

Answers == {"none", "approved", "refused"}
Unanswered == [c \in Calls |-> "none"]

(* Where a run is: the calls it waits on, and the steps it has used.       *)
Place == [pending : SUBSET Calls, iterations : 0..MaxIterations]
Start == [pending |-> {}, iterations |-> 0]

(* A PausedRun: none yet or removed, kept, or gone by itself.              *)
PausedRun == [state : {"none", "kept", "gone"}, place : Place, answers : [Calls -> Answers]]

NoPausedRun == [state |-> "none", place |-> Start, answers |-> Unanswered]

Kept(place) == [state |-> "kept", place |-> place, answers |-> Unanswered]

QueueStates == {"unused", "promised", "queued", "held", "done", "lost"}

Unused == {k \in Kicks : queue[k] = "unused"}

(* The requests under way that will need a message.                        *)
Reserved ==
    {c \in Clients : req[c].phase \in {"read", "written"} /\ req[c].kind \notin {"stop", "look"}}

(* The bound on messages and mishaps together.                             *)
WithinBudget == Cardinality(Kicks \ Unused) + Cardinality(Reserved) + mishaps < Budget

Mishap(kind) ==
    /\ kind \in Mishaps
    /\ WithinBudget
    /\ mishaps' = mishaps + 1

(* Mutant: the two swapped.                                                *)
FinishSwapped(status, result) == task' = [task EXCEPT !.status = result, !.result = status]

(* adapter.finish: status and result, whatever the row says by then.       *)
Finish(status, result) == task' = [task EXCEPT !.status = status, !.result = result]

-----------------------------------------------------------------------------
(* Requests, and the tools of the conversation's turn that do the same.    *)

Kinds == {"start", "approve", "stop", "resume", "look"}

Request == [phase : {"none", "read", "written", "kick"}, kind : Kinds, seen : TaskStatus,
            kick : Kicks \cup {NoKick}]

NoRequest == [phase |-> "none", kind |-> "start", seen |-> "none", kick |-> NoKick]

(* Mutant: a task that ended may be resumed.                               *)
ResumesEnded(kind, status) ==
    \/ kind = "start" /\ status = "none"
    \/ kind \in {"approve", "look"} /\ status = "needs_approval"
    \/ kind = "stop" /\ status \in {"running", "needs_approval"}
    \/ kind = "resume" /\ status \in {"stopped", "done", "failed"}

(* Mutant: a running task may be resumed too.                               *)
ResumesAny(kind, status) ==
    \/ kind = "start" /\ status = "none"
    \/ kind \in {"approve", "look"} /\ status = "needs_approval"
    \/ kind = "stop" /\ status \in {"running", "needs_approval"}
    \/ kind = "resume" /\ status \in {"running", "stopped"}

(* The status each asks for before it does anything.                       *)
Accepts(kind, status) ==
    \/ kind = "start" /\ status = "none"
    \/ kind \in {"approve", "look"} /\ status = "needs_approval"
    \/ kind = "stop" /\ status \in {"running", "needs_approval"}
    \/ kind = "resume" /\ status = "stopped"

Ends(c) == req' = [req EXCEPT ![c] = NoRequest]

Read(c, kind) ==
    /\ req[c].phase = "none"
    /\ Accepts(kind, task.status)
    /\ kind \notin {"stop", "look"} => WithinBudget /\ Cardinality(Unused) > Cardinality(Reserved)
    /\ req' = [req EXCEPT ![c] = [NoRequest EXCEPT !.phase = "read", !.kind = kind,
                                                   !.seen = task.status]]
    /\ UNCHANGED <<task, saved, flag, queue, run, turn, counts, crashes, again, mishaps>>

(* control.stop on a running task.                                         *)
AskToStop(c) ==
    /\ req[c].phase = "read" /\ req[c].kind = "stop" /\ req[c].seen = "running"
    /\ flag' = TRUE
    /\ Ends(c)
    /\ UNCHANGED <<task, saved, queue, run, turn, counts, crashes, again, mishaps>>

(* ... and on one that waits, which has no worker.                         *)
StopWaiting(c) ==
    /\ req[c].phase = "read" /\ req[c].kind = "stop" /\ req[c].seen = "needs_approval"
    /\ Finish("stopped", "stopped")
    /\ Ends(c)
    /\ UNCHANGED <<saved, flag, queue, run, turn, counts, crashes, again, mishaps>>

(* Whoever looks at a waiting task whose saved run is gone, or answers it, *)
(* fails it.                                                               *)
FindExpired(c) ==
    /\ req[c].phase = "read" /\ req[c].kind \in {"look", "approve"}
    /\ saved.state # "kept"
    /\ Finish("failed", "expired")
    /\ Ends(c)
    /\ UNCHANGED <<saved, flag, queue, run, turn, counts, crashes, again, mishaps>>

Look(c) ==
    /\ req[c].phase = "read" /\ req[c].kind = "look"
    /\ saved.state = "kept"
    /\ Ends(c)
    /\ UNCHANGED <<task, saved, flag, queue, run, turn, counts, crashes, again, mishaps>>

(* approvals.approve: every call asked about is answered, and the answers  *)
(* are saved with the run before the row is committed.                     *)
Answer(c) ==
    /\ req[c].phase = "read" /\ req[c].kind = "approve"
    /\ saved.state = "kept"
    /\ \E d \in [Calls -> Answers] :
          /\ \A a \in Calls : d[a] = "none" <=> a \notin saved.place.pending
          /\ saved' = [saved EXCEPT !.answers = d]
          /\ LET yes == {a \in Calls : d[a] = "approved"} IN
             /\ approved' = approved \cup yes
             /\ grants' = IF yes \cap Images # {} THEN grants + 1 ELSE grants
    /\ req' = [req EXCEPT ![c].phase = "written"]
    /\ UNCHANGED <<task, flag, queue, run, turn, made, ran, free, delivered, crashes,
                   again, mishaps>>

(* control.resume clears the flag, then the row is reopened.               *)
ClearForResume(c) ==
    /\ req[c].phase = "read" /\ req[c].kind = "resume"
    /\ flag' = FALSE
    /\ req' = [req EXCEPT ![c].phase = "written"]
    /\ UNCHANGED <<task, saved, queue, run, turn, counts, crashes, again, mishaps>>

(* The row a committed start, answer or resume leaves: an answer only sets *)
(* the status; a resume makes the end news again, and keeps the result.    *)
SetRunning(kind) ==
    CASE kind = "start" -> [status |-> "running", result |-> "none", reported |-> FALSE]
      [] kind = "resume" -> [task EXCEPT !.status = "running", !.reported = FALSE]
      [] kind = "approve" -> [task EXCEPT !.status = "running"]

Commit(c) ==
    /\ \/ req[c].phase = "written"
       \/ req[c].phase = "read" /\ req[c].kind = "start"
    /\ task' = SetRunning(req[c].kind)
    /\ \E k \in Unused :
          /\ queue' = [queue EXCEPT ![k] = "promised"]
          /\ req' = [req EXCEPT ![c].phase = "kick", ![c].kick = k]
    /\ UNCHANGED <<saved, flag, run, turn, counts, crashes, again, mishaps>>

(* ... and only then its message is queued.                                *)
Kick(c) ==
    /\ req[c].phase = "kick"
    /\ queue' = [queue EXCEPT ![req[c].kick] = "queued"]
    /\ Ends(c)
    /\ UNCHANGED <<task, saved, flag, run, turn, counts, crashes, again, mishaps>>

Abort(c) ==
    /\ \/ req[c].phase \in {"read", "written"} /\ Mishap("abort")
       \/ req[c].phase = "kick" /\ Mishap("lostkick")
    /\ queue' = [k \in Kicks |-> IF k = req[c].kick THEN "lost" ELSE queue[k]]
    /\ Ends(c)
    /\ UNCHANGED <<task, saved, flag, run, turn, counts, crashes, again>>

(* EXPIRE_SECONDS of a saved run, or Redis short of memory.                *)
Evict ==
    /\ saved.state = "kept"
    /\ Mishap("evict")
    /\ saved' = [NoPausedRun EXCEPT !.state = "gone"]
    /\ UNCHANGED <<task, flag, req, queue, run, turn, counts, crashes, again>>

(* EXPIRE_SECONDS of a stop nobody read.                                   *)
FlagExpires ==
    /\ flag
    /\ flag' = FALSE
    /\ UNCHANGED <<task, saved, req, queue, run, turn, counts, crashes, again, mishaps>>

-----------------------------------------------------------------------------
(* A turn of the conversation is told.                                     *)

Ended == task.status \in {"done", "failed"}

(* mark_reported: the row is held until the turn commits, so that nothing  *)
(* comes between.                                                          *)
Reported ==
    /\ task' = [task EXCEPT !.reported = TRUE]
    /\ UNCHANGED <<saved, flag, req, queue, run, counts, crashes, again, mishaps>>

(* drain_notices: every task that ended and is not reported.               *)
Drain ==
    /\ task.status \in {"done", "failed", "stopped"}
    /\ ~task.reported
    /\ Reported
    /\ UNCHANGED turn

(* CheckBackgroundTask: whatever the status, once there is a result.       *)
Check ==
    /\ task.result # "none"
    /\ Reported
    /\ UNCHANGED turn

(* StopBackgroundTask: control.stop, in a session of its own ...           *)
AgentStops ==
    /\ turn = "none"
    /\ \/ task.status = "running" /\ flag' = TRUE /\ UNCHANGED task
       \/ task.status = "needs_approval" /\ Finish("stopped", "stopped") /\ UNCHANGED flag
    /\ turn' = "stopped"
    /\ UNCHANGED <<saved, req, queue, run, counts, crashes, again, mishaps>>

(* ... and the task is marked reported in the turn's, if it commits.       *)
TurnCommits == turn = "stopped" /\ turn' = "none" /\ Reported

TurnRollsBack ==
    /\ turn = "stopped"
    /\ turn' = "none"
    /\ UNCHANGED <<task, saved, flag, req, queue, run, counts, crashes, again, mishaps>>

-----------------------------------------------------------------------------
(* A worker's run of the task.                                             *)

Phases ==
    {"idle",
     "start",    \* it holds a message, and has read nothing
     "loop",     \* at the head of the loop
     "model",    \* waiting for the model
     "halt",     \* stopped: the run is to be saved
     "clear",    \* ... the stop flag is to be cleared
     "halted",   \* ... the row is to be committed
     "suspend",  \* waiting on the user: the run is to be saved
     "waits",    \* ... the row is to be committed
     "end",      \* finished: the saved run is to be removed
     "deliver",  \* ... the files are to be delivered
     "commit",   \* ... the row is to be committed
     "failing",  \* rolled back: _mark_failed
     "ack"}      \* nothing left but to acknowledge the message

(* It has found the task running, and not committed what came of it.       *)
Busy == Phases \ {"idle", "start", "ack"}

Run == [phase : Phases, kick : Kicks \cup {NoKick}, place : Place, answers : [Calls -> Answers],
        allowance : 0..IMAGES_PER_APPROVAL, resumed : BOOLEAN, end : {"none", "done", "failed"}]

NoRun == [phase |-> "idle", kick |-> NoKick, place |-> Start, answers |-> Unanswered,
          allowance |-> 0, resumed |-> FALSE, end |-> "none"]

Becomes(w, r) == run' = [run EXCEPT ![w] = r]

Goes(w, phase) == Becomes(w, [run[w] EXCEPT !.phase = phase])

Deliver(w, k) ==
    /\ run[w].phase = "idle"
    /\ queue[k] = "queued"
    /\ queue' = [queue EXCEPT ![k] = "held"]
    /\ Becomes(w, [NoRun EXCEPT !.phase = "start", !.kick = k])
    /\ UNCHANGED <<task, saved, flag, req, turn, counts, crashes, again, mishaps>>

(* Mutant: a run whose images were refused, or never asked for, has one too.*)
AllowanceUnasked(paused) ==
    LET spent == Cardinality({a \in Images : paused.answers[a] = "approved"})
    IN  IF spent <= IMAGES_PER_APPROVAL THEN IMAGES_PER_APPROVAL - spent ELSE 0

(* _allowance: approving images lets the run make that many in all.        *)
Allowance(paused) ==
    LET spent == Cardinality({a \in Images : paused.answers[a] = "approved"})
    IN  IF spent \in 1..IMAGES_PER_APPROVAL THEN IMAGES_PER_APPROVAL - spent ELSE 0

(* Mutant: a task with a saved run is taken for one that waits.            *)
RunnableFresh == task.status = "running" /\ saved.state # "kept"

Runnable == task.status = "running"

(* The run begins, from the saved run if there is one; a task that is not  *)
(* running is left.                                                        *)
Load(w) ==
    /\ run[w].phase = "start"
    /\ IF Runnable
       THEN Becomes(w, [run[w] EXCEPT !.phase = "loop", !.place = saved.place,
                                      !.answers = saved.answers, !.allowance = Allowance(saved),
                                      !.resumed = saved.state = "kept"])
       ELSE Goes(w, "ack")
    /\ UNCHANGED <<task, saved, flag, req, queue, turn, counts, crashes, again, mishaps>>

(* The count of a call's executions stops here: a bound.                   *)
MaxRuns == Budget + 1

Executed(calls) ==
    ran' = [a \in Calls |-> IF a \in calls /\ ran[a] < MaxRuns THEN ran[a] + 1 ELSE ran[a]]

(* Mutant: a refused call is executed as well.                             *)
Answered(r) == {a \in r.place.pending : r.answers[a] # "none"}

Approved(r) == {a \in r.place.pending : r.answers[a] = "approved"}

(* Mutant: the calls that have run stay pending.                           *)
SettledAgain(r) == r

Settled(r) == [r EXCEPT !.place.pending = {}, !.answers = Unanswered]

(* Answered calls are settled first: the approved ones are executed.       *)
Settle(w) ==
    LET r == run[w] IN
    /\ r.phase = "loop"
    /\ r.place.iterations < MaxIterations
    /\ r.place.pending # {}
    /\ \A a \in r.place.pending : r.answers[a] # "none"
    /\ Executed(Approved(r))
    /\ Becomes(w, Settled(r))
    /\ UNCHANGED <<task, saved, flag, req, queue, turn, made, approved, grants, free,
                   delivered, crashes, again, mishaps>>

(* A run stopped while it waited, or that died before it was answered, asks*)
(* again.                                                                  *)
AskAgain(w) ==
    /\ run[w].phase = "loop"
    /\ run[w].place.iterations < MaxIterations
    /\ \E a \in run[w].place.pending : run[w].answers[a] = "none"
    /\ Goes(w, "suspend")
    /\ UNCHANGED <<task, saved, flag, req, queue, turn, counts, crashes, again, mishaps>>

SeesStop(w) ==
    /\ \/ /\ run[w].phase = "loop"
          /\ run[w].place.iterations < MaxIterations
          /\ run[w].place.pending = {}
       \/ run[w].phase = "model"
    /\ flag
    /\ Goes(w, "halt")
    /\ UNCHANGED <<task, saved, flag, req, queue, turn, counts, crashes, again, mishaps>>

(* The steps, or the size of the conversation, are spent: the task failed. *)
Limit(w) ==
    /\ run[w].phase = "loop"
    /\ \/ run[w].place.iterations >= MaxIterations
       \/ run[w].place.pending = {} /\ ~flag
    /\ Becomes(w, [run[w] EXCEPT !.phase = "end", !.end = "failed"])
    /\ UNCHANGED <<task, saved, flag, req, queue, turn, counts, crashes, again, mishaps>>

Proceed(w) ==
    /\ run[w].phase = "loop"
    /\ run[w].place.iterations < MaxIterations
    /\ run[w].place.pending = {}
    /\ ~flag
    /\ Goes(w, "model")
    /\ UNCHANGED <<task, saved, flag, req, queue, turn, counts, crashes, again, mishaps>>

(* AllowanceGate.decide: images go through while the allowance lasts.      *)
Covered(r, calls) == calls \subseteq Images /\ Cardinality(calls) <= r.allowance

OneMoreStep(r) == [r EXCEPT !.place.iterations = @ + 1]

Reply(w) ==
    LET r == OneMoreStep(run[w]) IN
    /\ run[w].phase = "model"
    /\ \/ /\ \E end \in {"done", "failed"} : Becomes(w, [r EXCEPT !.phase = "end", !.end = end])
          /\ UNCHANGED <<made, ran, free>>
       \/ /\ Becomes(w, [r EXCEPT !.phase = "loop"])
          /\ UNCHANGED <<made, ran, free>>
       \/ \E calls \in (SUBSET (Calls \ made)) \ {{}} :
             /\ made' = made \cup calls
             /\ \/ /\ Covered(r, calls)
                   /\ Executed(calls)
                   /\ free' = free + Cardinality(calls)
                   /\ Becomes(w, [r EXCEPT !.phase = "loop",
                                           !.allowance = @ - Cardinality(calls)])
                \/ /\ ~Covered(r, calls)
                   /\ Becomes(w, [r EXCEPT !.phase = "suspend", !.place.pending = calls,
                                           !.answers = Unanswered])
                   /\ UNCHANGED <<ran, free>>
    /\ UNCHANGED <<task, saved, flag, req, queue, turn, approved, grants, delivered,
                   crashes, again, mishaps>>

(* Mutant: a stopped run is not kept.                                      *)
StoppedUnkept(r) == saved

StoppedRun(r) == Kept(r.place)

(* _halt and _suspend: the run is saved, in Redis ...                      *)
Save(w) ==
    /\ \/ /\ run[w].phase = "halt"
          /\ saved' = StoppedRun(run[w])
          /\ Goes(w, "clear")
       \/ /\ run[w].phase = "suspend"
          /\ saved' = Kept(run[w].place)
          /\ Goes(w, "waits")
    /\ UNCHANGED <<task, flag, req, queue, turn, counts, crashes, again, mishaps>>

ClearFlag(w) ==
    /\ run[w].phase = "clear"
    /\ flag' = FALSE
    /\ Goes(w, "halted")
    /\ UNCHANGED <<task, saved, req, queue, turn, counts, crashes, again, mishaps>>

(* ... and only then the row says so.                                      *)
CommitRest(w) ==
    /\ \/ run[w].phase = "halted" /\ Finish("stopped", "stopped")
       \/ run[w].phase = "waits" /\ Finish("needs_approval", task.result)
       \/ run[w].phase = "commit" /\ Finish(run[w].end, run[w].end)
       \/ run[w].phase = "failing" /\ Finish("failed", "failed")
    /\ Goes(w, "ack")
    /\ UNCHANGED <<saved, flag, req, queue, turn, counts, crashes, again, mishaps>>

RemoveSaved(w) ==
    /\ run[w].phase = "end"
    /\ saved' = IF run[w].resumed THEN NoPausedRun ELSE saved
    /\ Goes(w, IF run[w].end = "done" THEN "deliver" ELSE "commit")
    /\ UNCHANGED <<task, flag, req, queue, turn, counts, crashes, again, mishaps>>

DeliverFiles(w) ==
    /\ run[w].phase = "deliver"
    /\ delivered' = IF delivered < MaxRuns THEN delivered + 1 ELSE delivered
    /\ Goes(w, "commit")
    /\ UNCHANGED <<task, saved, flag, req, queue, turn, made, ran, approved, grants,
                   free, crashes, again, mishaps>>

Acknowledge(w) ==
    /\ run[w].phase = "ack"
    /\ queue' = [queue EXCEPT ![run[w].kick] = "done"]
    /\ Becomes(w, NoRun)
    /\ UNCHANGED <<task, saved, flag, req, turn, counts, crashes, again, mishaps>>

(* An exception, the model out of reach included: rolled back, then failed,*)
(* whatever the row says.                                                  *)
Fail(w) ==
    /\ run[w].phase \notin {"idle", "failing", "ack"}
    /\ Mishap("error")
    /\ Goes(w, "failing")
    /\ UNCHANGED <<task, saved, flag, req, queue, turn, counts, crashes, again>>

(* run_task does not catch a cancellation: nothing is written.             *)
CutOff(w) ==
    /\ run[w].phase # "idle"
    /\ \/ Mishap("crash") /\ queue' = [queue EXCEPT ![run[w].kick] = "queued"]
       \/ /\ Mishap("shutdown")
          /\ \E s \in {"queued", "lost"} : queue' = [queue EXCEPT ![run[w].kick] = s]
    /\ crashes' = crashes + 1
    /\ again' = IF run[w].phase = "ack" THEN again + 1 ELSE again
    /\ Becomes(w, NoRun)
    /\ UNCHANGED <<task, saved, flag, req, turn, counts>>

-----------------------------------------------------------------------------
Init ==
    /\ task = [status |-> "none", result |-> "none", reported |-> FALSE]
    /\ saved = NoPausedRun
    /\ flag = FALSE
    /\ req = [c \in Clients |-> NoRequest]
    /\ queue = [k \in Kicks |-> "unused"]
    /\ run = [w \in Workers |-> NoRun]
    /\ turn = "none"
    /\ made = {} /\ ran = [a \in Calls |-> 0]
    /\ approved = {} /\ grants = 0 /\ free = 0 /\ delivered = 0
    /\ crashes = 0 /\ again = 0 /\ mishaps = 0

Handle(c) ==
    \/ AskToStop(c) \/ StopWaiting(c) \/ FindExpired(c) \/ Look(c) \/ Answer(c)
    \/ ClearForResume(c) \/ Commit(c) \/ Kick(c)

Turn == Drain \/ Check \/ AgentStops \/ TurnCommits \/ TurnRollsBack

RunStep(w) ==
    \/ \E k \in Kicks : Deliver(w, k)
    \/ Load(w) \/ Settle(w) \/ AskAgain(w) \/ SeesStop(w) \/ Limit(w) \/ Proceed(w) \/ Reply(w)
    \/ Save(w) \/ ClearFlag(w) \/ RemoveSaved(w) \/ DeliverFiles(w) \/ CommitRest(w)
    \/ Acknowledge(w)

Next ==
    \/ \E c \in Clients : (\E kind \in Kinds : Read(c, kind)) \/ Handle(c) \/ Abort(c)
    \/ Evict \/ FlagExpires
    \/ Turn
    \/ \E w \in Workers : RunStep(w) \/ Fail(w) \/ CutOff(w)

Spec == Init /\ [][Next]_vars

(* Handlers and workers go on with what they have begun; no user has to do *)
(* anything, and no turn to take place.                                    *)
Fairness ==
    /\ \A c \in Clients : WF_vars(Handle(c))
    /\ \A w \in Workers : WF_vars(RunStep(w))

FairSpec == Spec /\ Fairness

-----------------------------------------------------------------------------
(* Every variable keeps its type: no path stores a status or a saved run   *)
(* the rest of the code does not know.                                     *)
TypeOK ==
    /\ task \in Task
    /\ saved \in PausedRun
    /\ flag \in BOOLEAN
    /\ req \in [Clients -> Request]
    /\ queue \in [Kicks -> QueueStates]
    /\ run \in [Workers -> Run]
    /\ turn \in {"none", "stopped"}
    /\ made \subseteq Calls
    /\ ran \in [Calls -> 0..MaxRuns]
    /\ approved \subseteq Calls
    /\ grants \in Nat /\ free \in Nat
    /\ delivered \in 0..MaxRuns
    /\ crashes \in Nat /\ again \in Nat
    /\ mishaps \in 0..Budget

(* Though nobody claims a task, one app's requests never have it run twice *)
(* at once: its status is the claim.  A worker that dies before its run is  *)
(* committed is no exception; one that dies after, before its message is   *)
(* acknowledged, is.                                                       *)
OneRun ==
    again = 0 =>
        \A v, w \in Workers : run[v].phase \in Busy /\ run[w].phase \in Busy => v = w

(* A call is executed once, and once more for every run cut off: what ran  *)
(* between two saves of the run is redone.  (A message that comes back when*)
(* its work is done already may carry the task beside another run: each    *)
(* then saves the calls it waits on over what the other has done.)         *)
CallsRunOnce == again = 0 => \A a \in Calls : ran[a] <= 1 + crashes

(* Nothing that spends the user's money is done unasked: a video only once *)
(* they approved that video, and for each approval of an image no more     *)
(* further ones than it covers ("up to this many images in all").          *)
SpendsWhatWasApproved ==
    /\ \A a \in Videos : ran[a] > 0 => a \in approved
    /\ free <= (IMAGES_PER_APPROVAL - 1) * grants * (1 + crashes)

(* A task that waits has the run the user is asked about, and a stopped one*)
(* keeps its place, unless Redis lost it ("it keeps its place: POST        *)
(* .../resume carries it on").                                             *)
CanCarryOn ==
    again = 0 =>
    /\ task.status \in {"needs_approval", "stopped"} => saved.state # "none"
    /\ task.status = "needs_approval" /\ saved.state = "kept" => saved.place.pending # {}

(* A running task has a message that somebody has or will be given, unless *)
(* a process died with the only one.                                       *)
NoOrphanTask ==
    task.status = "running" =>
        \E k \in Kicks : \/ queue[k] \in {"promised", "queued", "lost"}
                         \/ \E w \in Workers : run[w].kick = k /\ run[w].phase # "ack"

(* Finished work is copied into the user's project once, however often the *)
(* task was stopped, answered and resumed on the way.                      *)
DeliveredOnce == delivered <= 1 + crashes

(* A task that is done or has failed stays so: whatever was under way when *)
(* it ended neither reopens it nor changes how it ended.                   *)
EndsAreFinal == [][again = 0 /\ Ended => task'.status = task.status]_vars

(* A running task comes to an end, waits for the user or is stopped.       *)
RunningTaskEnds ==
    (task.status = "running")
        ~> (task.status # "running" \/ \E k \in Kicks : queue[k] = "lost")

(* "A stopped task running again.  Not yet reported: its end is news again"*)
(* (adapter.py): when a task ends, no turn has been told already.          *)
EndIsNews == [][~Ended /\ Ended' => ~task'.reported]_vars
=============================================================================
