-------------------------- MODULE ConversationTurn --------------------------
(***************************************************************************)
(* One conversation of the_way: the row that holds its turn, the API       *)
(* requests that start, resume, answer and stop the turn, the queue        *)
(* messages that carry it to a worker, the worker's run of it, and the     *)
(* relay that opens a turn of its own when a background task ends.         *)
(*                                                                         *)
(* The grain.  A request reads the row in one step and commits in another: *)
(* it runs in one database transaction that commits after the handler has  *)
(* returned, and after its message is on the queue.  A worker's run is cut *)
(* at every commit and at every read of the stop flag.  The database locks *)
(* a row from the first write of a transaction to its end (Locked), and    *)
(* SQLAlchemy writes only the columns that differ from what was loaded     *)
(* (Flush).                                                                *)
(*                                                                         *)
(* The history is kept as what the providers look at: which calls in it    *)
(* have no result yet (open) and which have one (closed), and whether      *)
(* anything ever came between calls and their results (torn).              *)
(***************************************************************************)
EXTENDS Naturals, FiniteSets

CONSTANTS
    Clients,        \* requests the user's apps can have under way at once
    Workers,        \* turns the workers can run at once
    Kicks,          \* queue messages, by task id: bounds how often a turn is set running
    Asks,           \* gated calls the model may make: each waits for the user's answer
    Tasks,          \* background tasks this conversation started
    NoKick,         \* run_claim is null
    MaxIterations,  \* config.MAX_ITERATIONS
    Mishaps,        \* which of MishapKinds may happen
    MaxMishaps      \* how many of them, in one behaviour

MishapKinds ==
    {"abort",       \* a request fails before its commit
     "crash",       \* a worker dies: its message comes back to the queue
     "cancel",      \* a worker is shut down during a turn it holds
     "stray",       \* ... or while its message still waits to claim the turn
     "error",       \* an exception ends a run
     "unreachable", \* the model cannot be built
     "expire",      \* the stop flag's 600 seconds are over
     "late",        \* a request commits more than 4 s after its message
     "jobdeath"}    \* a background job dies while it reports its end

ASSUME ConstantsAssumption ==
    /\ NoKick \notin Kicks
    /\ MaxIterations \in Nat
    /\ MaxMishaps \in Nat
    /\ Mishaps \subseteq MishapKinds

VARIABLES
    row,       \* the conversation's row, as committed
    history,   \* its messages, as committed
    req,       \* the API request each client has under way
    queue,     \* where each queue message is
    run,       \* what each worker is doing
    flag,      \* the stop flag: 0, or the stint the user asked to stop
    job,       \* the background jobs of this conversation's tasks
    reported,  \* tasks marked reported, as committed
    stint,     \* how many times the turn was set running
    asked,     \* the last stint the user was told is being stopped
    made,      \* the gated calls the model has made
    ran,       \* how often each gated call was executed
    told,      \* tasks the model answered after it was given their news
    unheard,   \* a user message is stored that no run has loaded
    mishaps    \* how many things went wrong

vars == <<row, history, req, queue, run, flag, job, reported,
          stint, asked, made, ran, told, unheard, mishaps>>

-----------------------------------------------------------------------------
(* The conversation's row.                                                 *)

Statuses == {"idle", "running", "awaiting_client", "paused", "failed"}
Reasons  == {"stopped", "interrupted", "unavailable"}
Answers  == {"none", "approved", "refused"}

Row == [status     : Statuses,
        pending    : SUBSET Asks,           \* calls waiting for an answer
        completed  : SUBSET Asks,           \* asks whose ungated companion has run
        decisions  : [Asks -> Answers],
        iterations : 0..MaxIterations,
        pause      : Reasons \cup {"none"},
        claim      : Kicks \cup {NoKick}]

NoDecisions == [a \in Asks |-> "none"]

(* A TurnState with everything at its default but the status.              *)
TurnState(status) ==
    [status |-> status, pending |-> {}, completed |-> {}, decisions |-> NoDecisions,
     iterations |-> 0, pause |-> "none"]

(* Mutants: run_claim is never dropped; dropped at a checkpoint too.        *)
ClaimOutlivesTurn(r, turn) ==
    [status |-> turn.status, pending |-> turn.pending, completed |-> turn.completed,
     decisions |-> turn.decisions, iterations |-> turn.iterations, pause |-> turn.pause,
     claim |-> r.claim]

ClaimLostAtCheckpoint(r, turn) == [ClaimOutlivesTurn(r, turn) EXCEPT !.claim = NoKick]

(* The row after apply_turn_state: every column set, and run_claim dropped *)
(* unless the turn runs.                                                   *)
ApplyTurnState(r, turn) ==
    [status |-> turn.status, pending |-> turn.pending, completed |-> turn.completed,
     decisions |-> turn.decisions, iterations |-> turn.iterations, pause |-> turn.pause,
     claim |-> IF turn.status = "running" THEN r.claim ELSE NoKick]

(* Mutant: the UPDATE writes every column.                                 *)
WritesWholeRow(loaded, turn) == ApplyTurnState(loaded, turn)

(* What an UPDATE leaves in the database: it writes the columns that       *)
(* changed since this session loaded the row, and no others.               *)
Flush(loaded, turn) ==
    LET new == ApplyTurnState(loaded, turn)
        Col(c) == IF new[c] = loaded[c] THEN row[c] ELSE new[c]
    IN  [status |-> Col("status"), pending |-> Col("pending"), completed |-> Col("completed"),
         decisions |-> Col("decisions"), iterations |-> Col("iterations"),
         pause |-> Col("pause"), claim |-> Col("claim")]

-----------------------------------------------------------------------------
(* The stored messages.                                                    *)

(* A call the model made: a gated one, or the ungated one made beside it.  *)
Calls == Asks \X {"gated", "beside"}
Gated(asks)  == asks \X {"gated"}
Beside(asks) == asks \X {"beside"}

History == [open : SUBSET Calls, closed : SUBSET Calls, torn : BOOLEAN]

(* What is stored in one go, in this order: notes that come first; results;*)
(* anything said (a message, a note, a round of ungated calls with their   *)
(* results); and calls left waiting.                                       *)
Batch == [lead : BOOLEAN, results : SUBSET Calls, said : BOOLEAN, calls : SUBSET Calls]

NoBatch == [lead |-> FALSE, results |-> {}, said |-> FALSE, calls |-> {}]
Saying  == [NoBatch EXCEPT !.said = TRUE]

AppendMessages(batch) ==
    LET left == history.open \ batch.results
    IN  [open |-> left \cup batch.calls,
         closed |-> history.closed \cup batch.results,
         torn |-> \/ history.torn
                  \/ batch.lead /\ history.open # {}
                  \/ ~(batch.results \subseteq history.open)
                  \/ (batch.said \/ batch.calls # {}) /\ left # {}]

-----------------------------------------------------------------------------
(* One more thing goes wrong.                                              *)
Mishap(kind) ==
    /\ kind \in Mishaps
    /\ mishaps < MaxMishaps
    /\ mishaps' = mishaps + 1

-----------------------------------------------------------------------------
(* Queue messages.                                                         *)

(* promised: the turn was set running, the call that queues it is not made *)
(* yet.  held: a worker has it, and acknowledges it when its run is over.  *)
QueueStates == {"unused", "promised", "queued", "held", "done"}

Unused == {k \in Kicks : queue[k] = "unused"}

(* A turn is set running only while a message is left for it, not counting *)
(* those the requests under way will use: the bound on messages.           *)
KickLeft ==
    Cardinality(Unused) > Cardinality({c \in Clients : /\ req[c].phase = "loaded"
                                                       /\ req[c].kind # "stop"})

-----------------------------------------------------------------------------
(* Requests.                                                               *)

Kinds == {"send", "resume", "resolve", "stop"}

Request == [phase : {"none", "loaded", "written"}, kind : Kinds, loaded : Row,
            stint : Nat, answers : [Asks -> Answers], kick : Kicks \cup {NoKick}]

IdleRow == [status |-> "idle", pending |-> {}, completed |-> {}, decisions |-> NoDecisions,
            iterations |-> 0, pause |-> "none", claim |-> NoKick]

NoRequest == [phase |-> "none", kind |-> "send", loaded |-> IdleRow,
              stint |-> 0, answers |-> NoDecisions, kick |-> NoKick]

(* A transaction that has written the row holds it until it commits: every *)
(* other write of the row waits.                                           *)
Locked == \E c \in Clients : req[c].phase = "written"

ACCEPTS_MESSAGES == {"idle", "paused"}

(* Mutants: a message, or a resume, is taken whatever the turn is doing.   *)
SendsWhileBusy(kind, status) ==
    \/ kind = "send" /\ status # "failed"
    \/ kind = "resume" /\ status = "paused"
    \/ kind = "resolve" /\ status = "awaiting_client"
    \/ kind = "stop" /\ status \in {"running", "awaiting_client"}

ResumesFailed(kind, status) ==
    \/ kind = "send" /\ status \in ACCEPTS_MESSAGES
    \/ kind = "resume" /\ status \in {"paused", "failed"}
    \/ kind = "resolve" /\ status = "awaiting_client"
    \/ kind = "stop" /\ status \in {"running", "awaiting_client"}

(* The status each use case asks for before it does anything; any other    *)
(* status is a 409.                                                        *)
Accepts(kind, status) ==
    \/ kind = "send" /\ status \in ACCEPTS_MESSAGES
    \/ kind = "resume" /\ status = "paused"
    \/ kind = "resolve" /\ status = "awaiting_client"
    \/ kind = "stop" /\ status \in {"running", "awaiting_client"}

(* Mutant: no route clears it.                                             *)
FlagLeft(kind) == IF kind \in Kinds THEN flag ELSE 0

(* The routes that set a turn running clear the stop flag first of all,    *)
(* whatever comes of the request.                                          *)
FlagAfterBegin(kind) == IF kind = "stop" THEN flag ELSE 0

(* The user's app sends a request, and the handler loads the row.          *)
Begin(c, kind) ==
    /\ req[c].phase = "none"
    /\ kind # "stop" => KickLeft
    /\ flag' = FlagAfterBegin(kind)
    /\ req' = IF Accepts(kind, row.status)
              THEN [req EXCEPT ![c] = [NoRequest EXCEPT !.phase = "loaded", !.kind = kind,
                                                        !.loaded = row, !.stint = stint]]
              ELSE req
    /\ UNCHANGED <<row, history, queue, run, job, reported, stint, asked, made, ran, told, unheard,
                   mishaps>>

(* stop_turn on a turn that was running when it was loaded.                *)
AskToStop(c) ==
    /\ req[c].phase = "loaded"
    /\ req[c].kind = "stop"
    /\ req[c].loaded.status = "running"
    /\ flag' = req[c].stint
    /\ asked' = req[c].stint
    /\ req' = [req EXCEPT ![c] = NoRequest]
    /\ UNCHANGED <<row, history, queue, run, job, reported, stint, made, ran, told, unheard, mishaps>>

(* What a request saves: send_message, resume_turn, resolve_tool_calls, and*)
(* stop_turn on a turn that waits for the client.                          *)
Saved(r) ==
    CASE r.kind = "send" -> TurnState("running")
      [] r.kind = "stop" -> [TurnState("paused") EXCEPT !.pause = "stopped",
                                                        !.iterations = r.loaded.iterations]
      [] r.kind = "resume" -> [status |-> "running", pending |-> r.loaded.pending,
                               completed |-> r.loaded.completed,
                               decisions |-> r.loaded.decisions,
                               iterations |-> r.loaded.iterations, pause |-> "none"]
      [] r.kind = "resolve" -> [status |-> "running", pending |-> r.loaded.pending,
                                completed |-> r.loaded.completed, decisions |-> r.answers,
                                iterations |-> r.loaded.iterations, pause |-> "none"]

(* Mutant: the result of the call made beside a pending one is forgotten.  *)
StopForgetsCompleted(loaded) == Gated(loaded.pending)

(* The results with which stop_turn answers the calls that will not run.   *)
StopResults(loaded) == Gated(loaded.pending) \cup Beside(loaded.completed)

(* What a request appends to the history.                                  *)
Said(r) ==
    CASE r.kind = "send" -> Saying
      [] r.kind = "stop" -> [Saying EXCEPT !.results = StopResults(r.loaded)]
      [] r.kind = "resume" -> IF r.loaded.pause = "stopped" THEN Saying ELSE NoBatch
      [] r.kind = "resolve" -> NoBatch

(* Mutant: an answer may be missing.                                       *)
AnswersMissing(loaded) ==
    {d \in [Asks -> Answers] : \A a \in Asks : d[a] # "none" => a \in loaded.pending}

(* resolve_tool_calls takes one answer for every pending call, and none for*)
(* any other.                                                              *)
Resolutions(loaded) ==
    {d \in [Asks -> Answers] : \A a \in Asks : d[a] = "none" <=> a \notin loaded.pending}

(* The handler writes, in its transaction, and puts its message on the     *)
(* queue.  The row is locked from here to the end of the request.          *)
Write(c) ==
    /\ req[c].phase = "loaded"
    /\ ~(req[c].kind = "stop" /\ req[c].loaded.status = "running")
    /\ ~Locked
    /\ \E d \in IF req[c].kind = "resolve" THEN Resolutions(req[c].loaded) ELSE {NoDecisions} :
       \E k \in IF req[c].kind = "stop" THEN {NoKick} ELSE Unused :
          /\ req' = [req EXCEPT ![c] = [@ EXCEPT !.phase = "written", !.answers = d, !.kick = k]]
          /\ queue' = [m \in Kicks |-> IF m = k THEN "queued" ELSE queue[m]]
    /\ UNCHANGED <<row, history, run, flag, job, reported, stint, asked, made, ran, told, unheard,
                   mishaps>>

(* get_db_session commits once the handler has returned.                   *)
Commit(c) ==
    LET r == req[c] IN
    /\ r.phase = "written"
    /\ row' = Flush(r.loaded, Saved(r))
    /\ history' = AppendMessages(Said(r))
    /\ stint' = IF r.kind = "stop" THEN stint ELSE stint + 1
    /\ unheard' = (unheard \/ r.kind = "send")
    /\ req' = [req EXCEPT ![c] = NoRequest]
    /\ UNCHANGED <<queue, run, flag, job, reported, asked, made, ran, told, mishaps>>

(* A request fails before its commit, and its transaction is rolled back;  *)
(* the message it queued stays on the queue.                               *)
Abort(c) ==
    /\ Mishap("abort")
    /\ req[c].phase # "none"
    /\ req' = [req EXCEPT ![c] = NoRequest]
    /\ UNCHANGED <<row, history, queue, run, flag, job, reported, stint, asked, made, ran, told,
                   unheard>>

(* The flag is kept in Redis for EXPIRE_SECONDS.                           *)
FlagExpires ==
    /\ Mishap("expire")
    /\ flag # 0
    /\ flag' = 0
    /\ UNCHANGED <<row, history, req, queue, run, job, reported, stint, asked, made, ran, told, unheard>>

-----------------------------------------------------------------------------
(* A worker's run of a turn.                                               *)

LoopStatuses == {"none", "completed", "awaiting_client", "iteration_limit",
                 "conversation_limit", "paused", "stopped"}

Phases ==
    {"idle",
     "waiting",  \* wait_until_running: polling for a turn to claim
     "claimed",  \* the claim is committed, nothing is loaded
     "loop",     \* at the head of the loop
     "store",    \* about to checkpoint, then call the model
     "model",    \* waiting for the model
     "end",      \* the loop returned: its end is not stored
     "clear",    \* the end is committed: the stop flag is still to be cleared
     "relay",    \* looking for news to report
     "kick",     \* a reporting turn is set running, its message not queued
     "pausing",  \* rolled back: _mark_paused is to be called
     "failing"}  \* rolled back: _mark_failed is to be called

(* A run in one of these holds the turn it claimed.                        *)
Working == {"claimed", "loop", "store", "model", "end"}

Run == [phase : Phases, kick : Kicks \cup {NoKick}, next : Kicks \cup {NoKick},
        loaded : Row, pending : SUBSET Asks, completed : SUBSET Asks,
        decisions : [Asks -> Answers], iterations : 0..MaxIterations, batch : Batch,
        drained : SUBSET Tasks, result : LoopStatuses, reason : Reasons \cup {"none"}]

NoRun == [phase |-> "idle", kick |-> NoKick, next |-> NoKick, loaded |-> IdleRow,
          pending |-> {}, completed |-> {}, decisions |-> NoDecisions, iterations |-> 0,
          batch |-> NoBatch, drained |-> {}, result |-> "none", reason |-> "none"]

(* list_unreported: tasks that ended and were not reported.                *)
News == {t \in Tasks : job[t].phase # "running" /\ t \notin reported}

(* run[w] becomes r and nothing else of the workers changes.               *)
Becomes(w, r) == run' = [run EXCEPT ![w] = r]

(* The run is over: its message is acknowledged.                           *)
Over(w) ==
    /\ Becomes(w, NoRun)
    /\ queue' = [queue EXCEPT ![run[w].kick] = "done"]

Deliver(w, k) ==
    /\ run[w].phase = "idle"
    /\ queue[k] = "queued"
    /\ queue' = [queue EXCEPT ![k] = "held"]
    /\ Becomes(w, [NoRun EXCEPT !.phase = "waiting", !.kick = k])
    /\ UNCHANGED <<row, history, req, flag, job, reported, stint, asked, made, ran, told, unheard,
                   mishaps>>

(* Mutants: any message may take a running turn; not even the one that has *)
(* it may take it again.                                                   *)
ClaimableByAny(k) == row.status = "running" /\ k \in Kicks

ClaimableOnce(k) == row.status = "running" /\ row.claim = NoKick /\ k \in Kicks

(* The WHERE of claim_turn.                                                *)
Claimable(k) == row.status = "running" /\ row.claim \in {NoKick, k}

Claim(w) ==
    /\ run[w].phase = "waiting"
    /\ ~Locked
    /\ Claimable(run[w].kick)
    /\ row' = [row EXCEPT !.claim = run[w].kick]
    /\ Becomes(w, [run[w] EXCEPT !.phase = "claimed"])
    /\ UNCHANGED <<history, req, queue, flag, job, reported, stint, asked, made, ran, told, unheard,
                   mishaps>>

(* READY_ATTEMPTS tries found no turn to claim: the message is dropped. The*)
(* 4 s they take outlast a request that is still to commit, but for "late".*)
GiveUp(w) ==
    /\ run[w].phase = "waiting"
    /\ ~Claimable(run[w].kick)
    /\ \/ \A c \in Clients : req[c].phase = "written" => req[c].kick # run[w].kick
       \/ "late" \in Mishaps
    /\ Over(w)
    /\ UNCHANGED <<row, history, req, flag, job, reported, stint, asked, made, ran, told, unheard,
                   mishaps>>

(* The run reads the row, the history and the news; the news is marked     *)
(* reported in the run's transaction.  A turn no longer running is left.   *)
Load(w) ==
    /\ run[w].phase = "claimed"
    /\ IF row.status = "running"
       THEN /\ Becomes(w, [NoRun EXCEPT
                   !.phase = "loop", !.kick = run[w].kick, !.loaded = row, !.pending = row.pending,
                   !.completed = row.completed, !.decisions = row.decisions,
                   !.iterations = row.iterations, !.drained = News,
                   !.batch = [NoBatch EXCEPT !.lead = News # {}]])
            /\ unheard' = FALSE
       ELSE /\ Becomes(w, [run[w] EXCEPT !.phase = "clear"])
            /\ UNCHANGED unheard
    /\ UNCHANGED <<row, history, req, queue, flag, job, reported, stint, asked, made, ran, told, mishaps>>

(* The loop returns.                                                       *)
Returns(r, result) == [r EXCEPT !.phase = "end", !.result = result]

(* The count of a call's executions stops here: a bound.                   *)
MaxRuns == MaxMishaps + 2

(* Calls the user has answered are settled before anything else: the       *)
(* approved ones are executed.                                             *)
Settle(w) ==
    LET r == run[w] IN
    /\ r.phase = "loop"
    /\ r.iterations < MaxIterations
    /\ r.pending # {}
    /\ \A a \in r.pending : r.decisions[a] # "none"
    /\ ran' = [a \in Asks |-> IF a \in r.pending /\ r.decisions[a] = "approved" /\ ran[a] < MaxRuns
                              THEN ran[a] + 1 ELSE ran[a]]
    /\ Becomes(w, [r EXCEPT !.pending = {}, !.completed = {}, !.decisions = NoDecisions,
                            !.batch.results = Gated(r.pending) \cup Beside(r.completed)])
    /\ UNCHANGED <<row, history, req, queue, flag, job, reported, stint, asked, made, told, unheard,
                   mishaps>>

(* ... unless one has no answer: the gate asks again.                      *)
AskAgain(w) ==
    /\ run[w].phase = "loop"
    /\ run[w].iterations < MaxIterations
    /\ \E a \in run[w].pending : run[w].decisions[a] = "none"
    /\ Becomes(w, Returns(run[w], "awaiting_client"))
    /\ UNCHANGED <<row, history, req, queue, flag, job, reported, stint, asked, made, ran, told, unheard,
                   mishaps>>

(* The stop is looked at between steps, with no call waiting.              *)
SeesStop(r) == flag # 0 /\ r.pending = {}

Stop(w) ==
    /\ run[w].phase = "loop"
    /\ run[w].iterations < MaxIterations
    /\ SeesStop(run[w])
    /\ Becomes(w, Returns(run[w], "stopped"))
    /\ UNCHANGED <<row, history, req, queue, flag, job, reported, stint, asked, made, ran, told, unheard,
                   mishaps>>

(* The step budget, or the size of the conversation, is spent.             *)
Limit(w) ==
    /\ run[w].phase = "loop"
    /\ \/ /\ run[w].iterations >= MaxIterations
          /\ Becomes(w, Returns(run[w], "iteration_limit"))
       \/ /\ run[w].iterations < MaxIterations
          /\ run[w].pending = {}
          /\ flag = 0
          /\ Becomes(w, Returns(run[w], "conversation_limit"))
    /\ UNCHANGED <<row, history, req, queue, flag, job, reported, stint, asked, made, ran, told, unheard,
                   mishaps>>

(* On to the model, by a checkpoint when there is work to store.           *)
Proceed(w) ==
    LET r == run[w] IN
    /\ r.phase = "loop"
    /\ r.iterations < MaxIterations
    /\ r.pending = {}
    /\ flag = 0
    /\ Becomes(w, [r EXCEPT !.phase = IF r.batch.results # {} \/ r.batch.said
                                      THEN "store" ELSE "model"])
    /\ UNCHANGED <<row, history, req, queue, flag, job, reported, stint, asked, made, ran, told, unheard,
                   mishaps>>

(* Mutant: the calls that have run stay pending.                           *)
CheckpointKeepsPending(r) ==
    [status |-> "running", pending |-> r.loaded.pending, completed |-> r.loaded.completed,
     decisions |-> r.loaded.decisions, iterations |-> r.iterations, pause |-> "none"]

(* What a checkpoint saves: the turn still running, nothing pending.       *)
CheckpointState(r) == [TurnState("running") EXCEPT !.iterations = r.iterations]

Checkpoint(w) ==
    LET r == run[w]
        saved == Flush(r.loaded, CheckpointState(r)) IN
    /\ r.phase = "store"
    /\ ~Locked
    /\ row' = saved
    /\ history' = AppendMessages(r.batch)
    /\ reported' = reported \cup r.drained
    /\ Becomes(w, [r EXCEPT !.phase = "model", !.batch = NoBatch, !.loaded = saved])
    /\ UNCHANGED <<req, queue, flag, job, stint, asked, made, ran, told, unheard, mishaps>>

(* The model answers: with text, with ungated calls, which run at once, or *)
(* with gated calls -- new ones -- and maybe an ungated one beside them,   *)
(* which runs while they wait for the user.                                *)
Reply(w) ==
    LET r == [run[w] EXCEPT !.iterations = @ + 1] IN
    /\ r.phase = "model"
    /\ told' = told \cup r.drained
    /\ \/ /\ Becomes(w, [Returns(r, "completed") EXCEPT !.batch.said = TRUE])
          /\ UNCHANGED made
       \/ /\ Becomes(w, [r EXCEPT !.phase = "loop", !.batch.said = TRUE])
          /\ UNCHANGED made
       \/ \E asks \in (SUBSET (Asks \ made)) \ {{}} : \E beside \in {{}, asks} :
             /\ Becomes(w, [Returns(r, "awaiting_client") EXCEPT
                              !.pending = asks, !.completed = beside,
                              !.batch.calls = Gated(asks) \cup Beside(beside)])
             /\ made' = made \cup asks
    /\ UNCHANGED <<row, history, req, queue, flag, job, reported, stint, asked, ran, unheard,
                   mishaps>>

(* The user's stop, heard while the reply is written: what was written, if *)
(* anything, is kept.                                                      *)
CutOff(w) ==
    /\ run[w].phase = "model"
    /\ flag # 0
    /\ Becomes(w, Returns(run[w], "stopped"))
    /\ UNCHANGED <<row, history, req, queue, flag, job, reported, stint, asked, made, ran, told, unheard,
                   mishaps>>

(* A rate limit, a quota, a timeout: the turn pauses just before this call.*)
Unavailable(w) ==
    /\ run[w].phase = "model"
    /\ Becomes(w, Returns(run[w], "paused"))
    /\ UNCHANGED <<row, history, req, queue, flag, job, reported, stint, asked, made, ran, told, unheard,
                   mishaps>>

(* Mutant: the loop's own status is stored.                                *)
LoopStatusStored(result) == result

STATUS_AFTER(result) ==
    CASE result = "completed" -> "idle"
      [] result = "awaiting_client" -> "awaiting_client"
      [] result \in {"iteration_limit", "conversation_limit"} -> "failed"
      [] OTHER -> "paused"

(* What the end of a turn saves.                                           *)
EndState(r) ==
    [status |-> STATUS_AFTER(r.result), pending |-> r.pending, completed |-> r.completed,
     decisions |-> NoDecisions, iterations |-> r.iterations,
     pause |-> CASE r.result = "paused" -> "unavailable"
                 [] r.result = "stopped" -> "stopped"
                 [] OTHER -> "none"]

(* ... and appends: a stopped turn says so in the history.                 *)
EndBatch(r) == IF r.result = "stopped" THEN [r.batch EXCEPT !.said = TRUE] ELSE r.batch

EndTurn(w) ==
    LET r == run[w] IN
    /\ r.phase = "end"
    /\ ~Locked
    /\ row' = Flush(r.loaded, EndState(r))
    /\ history' = AppendMessages(EndBatch(r))
    /\ reported' = reported \cup r.drained
    /\ Becomes(w, [NoRun EXCEPT !.phase = "clear", !.kick = r.kick, !.result = r.result])
    /\ UNCHANGED <<req, queue, flag, job, stint, asked, made, ran, told, unheard, mishaps>>

(* Mutant: the end of a turn does not look for news.                       *)
EndsWithoutRelay(w) ==
    /\ run[w].phase = "clear"
    /\ flag' = 0
    /\ Over(w)
    /\ UNCHANGED <<row, history, req, job, reported, stint, asked, made, ran, told, unheard,
                   mishaps>>

(* The stop flag is cleared once the end is committed.                     *)
ClearFlag(w) ==
    /\ run[w].phase = "clear"
    /\ flag' = 0
    /\ IF run[w].result = "completed"
       THEN /\ Becomes(w, [run[w] EXCEPT !.phase = "relay"])
            /\ UNCHANGED queue
       ELSE Over(w)
    /\ UNCHANGED <<row, history, req, job, reported, stint, asked, made, ran, told, unheard,
                   mishaps>>

-----------------------------------------------------------------------------
(* relay.start: a turn the server opens itself, to report a task that ended*)

(* claim_if_idle, committed.  The message that carries the turn is queued  *)
(* after it: promised until then.                                          *)
OpensReport ==
    /\ KickLeft
    /\ News # {}
    /\ ~Locked
    /\ row.status = "idle"
    /\ row' = [row EXCEPT !.status = "running", !.iterations = 0]
    /\ stint' = stint + 1

NothingToReport == News = {} \/ row.status # "idle"

(* ... by the turn that ends idle.                                         *)
Relay(w) ==
    /\ run[w].phase = "relay"
    /\ \/ \E k \in Unused :
             /\ OpensReport
             /\ queue' = [queue EXCEPT ![k] = "promised"]
             /\ Becomes(w, [run[w] EXCEPT !.phase = "kick", !.next = k])
       \/ /\ NothingToReport
          /\ Over(w)
          /\ UNCHANGED <<row, stint>>
    /\ UNCHANGED <<history, req, flag, job, reported, asked, made, ran, told, unheard, mishaps>>

RelayKick(w) ==
    /\ run[w].phase = "kick"
    /\ queue' = [queue EXCEPT ![run[w].next] = "queued", ![run[w].kick] = "done"]
    /\ Becomes(w, NoRun)
    /\ UNCHANGED <<row, history, req, flag, job, reported, stint, asked, made, ran, told, unheard,
                   mishaps>>

(* ... by the background job that ends (background/jobs.py: _report).      *)
JobPhases == {"running", "ended", "kick", "over"}

Job == [phase : JobPhases, next : Kicks \cup {NoKick}]

(* A job commits the end of its task.                                      *)
JobEnds(t) ==
    /\ job[t].phase = "running"
    /\ job' = [job EXCEPT ![t] = [phase |-> "ended", next |-> NoKick]]
    /\ UNCHANGED <<row, history, req, queue, run, flag, reported, stint, asked, made, ran, told,
                   unheard, mishaps>>

JobReports(t) ==
    /\ job[t].phase = "ended"
    /\ \/ \E k \in Unused :
             /\ OpensReport
             /\ queue' = [queue EXCEPT ![k] = "promised"]
             /\ job' = [job EXCEPT ![t] = [phase |-> "kick", next |-> k]]
       \/ /\ NothingToReport
          /\ job' = [job EXCEPT ![t] = [phase |-> "over", next |-> NoKick]]
          /\ UNCHANGED <<row, stint, queue>>
    /\ UNCHANGED <<history, req, run, flag, reported, asked, made, ran, told, unheard, mishaps>>

JobKick(t) ==
    /\ job[t].phase = "kick"
    /\ queue' = [queue EXCEPT ![job[t].next] = "queued"]
    /\ job' = [job EXCEPT ![t] = [phase |-> "over", next |-> NoKick]]
    /\ UNCHANGED <<row, history, req, run, flag, reported, stint, asked, made, ran, told, unheard,
                   mishaps>>

-----------------------------------------------------------------------------
(* What can go wrong with a run.                                           *)

(* The worker is gone; the queue hands its message out again after 300 s.  *)
(* A message promised and not queued never will be.                        *)
Crash(w) ==
    /\ Mishap("crash")
    /\ run[w].phase # "idle"
    /\ queue' = [k \in Kicks |-> CASE k = run[w].kick -> "queued"
                                   [] k = run[w].next -> "done"
                                   [] OTHER -> queue[k]]
    /\ Becomes(w, NoRun)
    /\ UNCHANGED <<row, history, req, flag, job, reported, stint, asked, made, ran, told, unheard>>

(* A run whose transaction was rolled back, about to mark the turn.        *)
RolledBack(w, phase, reason) ==
    /\ Becomes(w, [NoRun EXCEPT !.phase = phase, !.kick = run[w].kick, !.reason = reason])
    /\ queue' = [k \in Kicks |-> IF k = run[w].next THEN "done" ELSE queue[k]]
    /\ UNCHANGED <<row, history, req, flag, job, reported, stint, asked, made, ran, told, unheard>>

(* A run that does not hold the turn is cancelled or fails like one that   *)
(* does: while it waits to claim, and after its end is committed.          *)
Strays(w) == run[w].phase \in {"waiting", "clear", "relay", "kick"}

Cancel(w) ==
    /\ \/ run[w].phase \in Working /\ Mishap("cancel")
       \/ Strays(w) /\ Mishap("stray")
    /\ RolledBack(w, "pausing", "interrupted")

Fail(w) ==
    /\ \/ run[w].phase \in Working /\ Mishap("error")
       \/ Strays(w) /\ Mishap("stray")
    /\ RolledBack(w, "failing", "none")

(* The model cannot be built: no key, no provider.                         *)
Unreachable(w) ==
    /\ run[w].phase = "claimed"
    /\ Mishap("unreachable")
    /\ RolledBack(w, "pausing", "unavailable")

(* _mark_paused, in a session of its own: only a running turn is paused, as*)
(* it stands in the database.  A cancelled message may or may not have been*)
(* acknowledged by the worker going down.                                  *)
PausedTurn(reason) ==
    [status |-> "paused", pending |-> row.pending, completed |-> row.completed,
     decisions |-> row.decisions, iterations |-> row.iterations, pause |-> reason]

MarkPaused(w) ==
    /\ run[w].phase = "pausing"
    /\ ~Locked
    /\ row' = IF row.status = "running" THEN Flush(row, PausedTurn(run[w].reason)) ELSE row
    /\ \/ Over(w)
       \/ /\ run[w].reason = "interrupted"
          /\ Becomes(w, NoRun)
          /\ queue' = [queue EXCEPT ![run[w].kick] = "queued"]
    /\ UNCHANGED <<history, req, flag, job, reported, stint, asked, made, ran, told, unheard,
                   mishaps>>

(* _mark_failed, whatever the turn is by now.                              *)
MarkFailed(w) ==
    /\ run[w].phase = "failing"
    /\ ~Locked
    /\ row' = Flush(row, TurnState("failed"))
    /\ Over(w)
    /\ UNCHANGED <<history, req, flag, job, reported, stint, asked, made, ran, told, unheard,
                   mishaps>>

(* A job dies after it committed its task's end: its own message comes back*)
(* to find the task no longer running, and nothing more is reported.       *)
JobDies(t) ==
    /\ Mishap("jobdeath")
    /\ job[t].phase \in {"ended", "kick"}
    /\ queue' = [k \in Kicks |-> IF k = job[t].next THEN "done" ELSE queue[k]]
    /\ job' = [job EXCEPT ![t] = [phase |-> "over", next |-> NoKick]]
    /\ UNCHANGED <<row, history, req, run, flag, reported, stint, asked, made, ran, told, unheard>>

-----------------------------------------------------------------------------

Init ==
    /\ row = IdleRow
    /\ history = [open |-> {}, closed |-> {}, torn |-> FALSE]
    /\ req = [c \in Clients |-> NoRequest]
    /\ queue = [k \in Kicks |-> "unused"]
    /\ run = [w \in Workers |-> NoRun]
    /\ flag = 0
    /\ job = [t \in Tasks |-> [phase |-> "running", next |-> NoKick]]
    /\ reported = {}
    /\ stint = 0
    /\ asked = 0
    /\ made = {}
    /\ ran = [a \in Asks |-> 0]
    /\ told = {}
    /\ unheard = FALSE
    /\ mishaps = 0

Requests(c) ==
    \/ \E kind \in Kinds : Begin(c, kind)
    \/ AskToStop(c) \/ Write(c) \/ Commit(c) \/ Abort(c)

LoopStep(w) ==
    \/ Settle(w) \/ AskAgain(w) \/ Stop(w) \/ Limit(w) \/ Proceed(w)
    \/ Checkpoint(w) \/ Reply(w) \/ CutOff(w) \/ Unavailable(w)

RunStep(w) ==
    \/ \E k \in Kicks : Deliver(w, k)
    \/ Claim(w) \/ GiveUp(w) \/ Load(w)
    \/ LoopStep(w)
    \/ EndTurn(w) \/ ClearFlag(w) \/ Relay(w) \/ RelayKick(w)
    \/ MarkPaused(w) \/ MarkFailed(w)

RunFault(w) == Crash(w) \/ Cancel(w) \/ Fail(w) \/ Unreachable(w)

JobStep(t) == JobEnds(t) \/ JobReports(t) \/ JobKick(t) \/ JobDies(t)

Next ==
    \/ \E c \in Clients : Requests(c)
    \/ FlagExpires
    \/ \E w \in Workers : RunStep(w) \/ RunFault(w)
    \/ \E t \in Tasks : JobStep(t)

Spec == Init /\ [][Next]_vars

-----------------------------------------------------------------------------
(* Fairness.  A handler that has begun runs to its end, a worker goes on   *)
(* with what it holds and takes a message when it holds nothing, and a job *)
(* that has ended its task reports it.  Nothing makes the user do anything,*)
(* and nothing has to go wrong.                                            *)

Fairness ==
    /\ \A c \in Clients : WF_vars(AskToStop(c) \/ Write(c) \/ Commit(c))
    /\ \A w \in Workers : WF_vars(RunStep(w))
    /\ \A t \in Tasks : WF_vars(JobReports(t) \/ JobKick(t))

FairSpec == Spec /\ Fairness

-----------------------------------------------------------------------------
(* Types.                                                                  *)

(* Every variable stays within its type: no handler and no step of the     *)
(* loop stores a status, a pause or a claim the code does not know.        *)
TypeOK ==
    /\ row \in Row
    /\ history \in History
    /\ req \in [Clients -> Request]
    /\ queue \in [Kicks -> QueueStates]
    /\ run \in [Workers -> Run]
    /\ flag \in Nat
    /\ job \in [Tasks -> Job]
    /\ reported \subseteq Tasks
    /\ stint \in Nat
    /\ asked \in Nat
    /\ made \subseteq Asks
    /\ ran \in [Asks -> 0..MaxRuns]
    /\ told \subseteq Tasks
    /\ unheard \in BOOLEAN
    /\ mishaps \in 0..MaxMishaps

-----------------------------------------------------------------------------
(* The claim.                                                              *)

(* Two workers never work on the conversation at once, whatever requests   *)
(* overlap and whichever worker dies, is shut down or fails during the turn*)
(* it holds (claim_turn, and run_claim in apply_turn_state).               *)
OneRunPerTurn ==
    \A v, w \in Workers : run[v].phase \in Working /\ run[w].phase \in Working => v = w

(* A run that holds a turn, or was cut off while it did and has not yet    *)
(* marked it, is the one run_claim names: no write of another request or   *)
(* run, made from a row it loaded earlier, takes the claim away.           *)
Holding == Working \cup {"pausing", "failing"}

HolderHasClaim == \A w \in Workers : run[w].phase \in Holding => row.claim = run[w].kick

(* "A run holds the turn only while it runs" (mapper.py): a turn that is   *)
(* over, waits or is paused is claimed by nobody.                          *)
ClaimOnlyWhileRunning == row.claim # NoKick => row.status = "running"

(* A message some worker has, or will be given, and can still act on.      *)
Ready(k) ==
    \/ queue[k] \in {"promised", "queued"}
    \/ \E w \in Workers : run[w].kick = k /\ run[w].phase \in Holding \cup {"waiting"}

(* A turn that is running is on its way to some end: the message that      *)
(* claimed it, or when none has, some message that can, is still to be     *)
(* worked on.  Without one the conversation would stay busy for ever.      *)
NoOrphanTurn ==
    row.status = "running" =>
        IF row.claim = NoKick THEN \E k \in Kicks : Ready(k) ELSE Ready(row.claim)

-----------------------------------------------------------------------------
(* The turn.                                                               *)

(* A turn is set running only when it is not: a message, a resume, an      *)
(* answer or a report never starts over a turn under way.                  *)
StartsFromRest == [][stint' # stint => row.status # "running"]_vars

(* The moves of the status.  In particular a failed turn is final, and only*)
(* a stop turns a wait on the client into anything but a running turn.     *)
StatusStep(from, to) ==
    \/ from = to
    \/ from = "idle" /\ to = "running"
    \/ from = "running"
    \/ from = "awaiting_client" /\ to \in {"running", "paused"}
    \/ from = "paused" /\ to = "running"

StatusSteps == [][StatusStep(row.status, row'.status)]_vars

(* A turn ends idle only after a run that had every message the user was   *)
(* told is accepted: none is left behind unread in the history.            *)
IdleIsAnswered == row.status = "idle" => ~unheard

(* However many clients answer, resume and stop at once, a call the user   *)
(* approved is executed once -- and once more at most for every run that   *)
(* was cut off, whose work after its last checkpoint is redone.            *)
ApprovedOnce == \A a \in Asks : ran[a] <= 1 + mishaps

(* A call whose result is stored is never executed again, whoever answers, *)
(* resumes or takes the turn over: a checkpoint takes it off the row in the*)
(* transaction that stores the result.                                     *)
StoredNotRerun ==
    [][\A a \in Asks : ran'[a] # ran[a] => <<a, "gated">> \notin history.closed]_vars

(* The calls without a result in the stored history are exactly the ones   *)
(* the turn still waits on, or has yet to execute: whoever takes one off   *)
(* the row -- a checkpoint, the end of a turn, a stop -- stores its result *)
(* in the same transaction.  (A failed turn takes no more messages.)       *)
OpenCallsOnRow ==
    ~history.torn /\ row.status # "failed" =>
        history.open = Gated(row.pending) \cup Beside(row.completed)

(* With no background task to report, nothing is ever stored between calls *)
(* and their results, which a provider would refuse -- but for a message   *)
(* the user sends to a turn that was interrupted with calls still to run.  *)
HistoryWhole ==
    [][history'.torn /\ ~history.torn =>
          \E c \in Clients : /\ req[c].phase = "written" /\ req[c].kind = "send"
                             /\ req[c].loaded.status = "paused" /\ req[c].loaded.pending # {}
                             /\ req'[c].phase = "none"]_vars

(* Calls are followed directly by their results (_says_anew in advance.py).*)
ResultsFollowCalls == ~history.torn

-----------------------------------------------------------------------------
(* Stopping.                                                               *)

(* A run is stopped only by a stop the user asked of this very stretch of  *)
(* work ("one that was never read cannot stop the next piece of work").    *)
StopsOwnStint ==
    [][\A w \in Workers : run[w].result # "stopped" /\ run'[w].result = "stopped"
                          => flag = stint]_vars

(* Once the user was told the turn is being stopped, the request for it    *)
(* stands for as long as the turn runs.                                    *)
StopStands == row.status = "running" /\ asked = stint /\ asked # 0 => flag = stint

-----------------------------------------------------------------------------
(* Reporting tasks.                                                        *)

(* A job that ends tries to report, and so does every turn that ends idle: *)
(* whichever comes second finds the news, so it never waits in an idle     *)
(* conversation with nobody about to tell it.                              *)
AboutToReport ==
    \/ \E t \in Tasks : job[t].phase = "ended"
    \/ \E w \in Workers : run[w].phase \in {"clear", "relay"} /\ run[w].result = "completed"

NewsNotStranded == row.status = "idle" /\ News # {} => AboutToReport

(* A task marked reported was told to a model that answered: "a turn that  *)
(* fails leaves them to be told next time" (drain_notices).                *)
ReportedWasTold == reported \subseteq told

-----------------------------------------------------------------------------
(* A running turn comes to an end, pauses, or waits for the user, though   *)
(* workers die: the queue gives the dead worker's message out again.       *)
RunningEnds == (row.status = "running") ~> (row.status # "running")
=============================================================================
