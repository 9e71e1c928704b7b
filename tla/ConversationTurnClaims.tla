---------------------- MODULE ConversationTurnClaims ----------------------
(* What ConversationTurn keeps to for any number of clients, workers,      *)
(* queue messages, calls and tasks: its types, and the mutual exclusion of *)
(* runs -- two workers never work on the conversation at once.             *)
(*                                                                         *)
(* That the row's claim names the run that holds the turn (HolderHasClaim) *)
(* is not inductive: a run must also be the only one with its message, the *)
(* row it loaded must carry its own claim, or its checkpoint would write   *)
(* another, and a turn that awaits the client must be unclaimed, or a stop *)
(* of it, written from an old row, would take a claim made since.          *)
(*                                                                         *)
(* From that, for as many apps as there are: a call the user approved runs *)
(* once, and once more at most for every run that was cut off.  And apart  *)
(* from it: the news of a task that ended is not left untold.              *)
EXTENDS ConversationTurn, TLAPS

-----------------------------------------------------------------------------
(* Types.                                                                  *)

TurnStates == [status : Statuses, pending : SUBSET Asks, completed : SUBSET Asks,
               decisions : [Asks -> Answers], iterations : 0..MaxIterations,
               pause : Reasons \cup {"none"}]

LEMMA ApplyType ==
    ASSUME NEW r \in Row, NEW turn \in TurnStates
    PROVE  ApplyTurnState(r, turn) \in Row
BY DEF ApplyTurnState, Row, TurnStates

LEMMA FlushType ==
    ASSUME NEW r \in Row, NEW turn \in TurnStates, row \in Row
    PROVE  Flush(r, turn) \in Row
<1> DEFINE new == ApplyTurnState(r, turn)
<1>1. new \in Row BY ApplyType
<1> HIDE DEF new
<1> QED BY <1>1 DEF Flush, Row, new

LEMMA Defaults ==
    /\ IdleRow \in Row
    /\ NoRequest \in Request
    /\ NoRun \in Run
    /\ NoDecisions \in [Asks -> Answers]
    /\ \A s \in Statuses : TurnState(s) \in TurnStates
<1>1. NoDecisions \in [Asks -> Answers]
  BY DEF NoDecisions, Answers
<1>2. IdleRow \in Row
  BY <1>1, ConstantsAssumption DEF IdleRow, Row, Statuses
<1>3. NoRequest \in Request
  BY <1>1, <1>2, ConstantsAssumption DEF NoRequest, Request, Kinds
<1>4. NoRun \in Run
  BY <1>1, <1>2, ConstantsAssumption DEF NoRun, Run, Phases, LoopStatuses, NoBatch, Batch
<1>5. \A s \in Statuses : TurnState(s) \in TurnStates
  BY <1>1, ConstantsAssumption DEF TurnState, TurnStates
<1> QED BY <1>1, <1>2, <1>3, <1>4, <1>5

LEMMA InitType == Init => TypeOK
<1> SUFFICES ASSUME Init PROVE TypeOK OBVIOUS
<1>1. row \in Row /\ req \in [Clients -> Request] /\ run \in [Workers -> Run]
  BY Defaults DEF Init
<1>2. ran \in [Asks -> 0..MaxRuns] BY ConstantsAssumption DEF Init, MaxRuns
<1>3. mishaps \in 0..MaxMishaps BY ConstantsAssumption DEF Init
<1>4. history \in History /\ queue \in [Kicks -> QueueStates] /\ job \in [Tasks -> Job]
  BY DEF Init, History, QueueStates, Job, JobPhases
<1> QED BY <1>1, <1>2, <1>3, <1>4 DEF Init, TypeOK

(* A run about to call the model has a step of its budget left: what makes *)
(* TypeOK inductive, since the call adds one to the count.                 *)
IterationsLeft ==
    \A w \in Workers : run[w].phase \in {"store", "model"} => run[w].iterations < MaxIterations

(* What a request saves is a turn state.                                   *)
LEMMA SavedType ==
    ASSUME NEW r \in Request
    PROVE  Saved(r) \in TurnStates
<1>1. r.loaded \in Row /\ r.answers \in [Asks -> Answers] /\ r.kind \in Kinds BY DEF Request
<1>2. r.loaded.iterations \in 0..MaxIterations BY <1>1 DEF Row
<1>3. CASE r.kind = "send"
  BY <1>3, Defaults DEF Saved, Statuses
<1>4. CASE r.kind = "stop"
  <2>1. TurnState("paused") \in TurnStates BY Defaults DEF Statuses
  <2> QED BY <1>2, <1>4, <2>1 DEF Saved, TurnStates, Reasons
<1>5. CASE r.kind = "resume"
  BY <1>1, <1>5 DEF Saved, TurnStates, Row, Statuses
<1>6. CASE r.kind = "resolve"
  BY <1>1, <1>6 DEF Saved, TurnStates, Row, Statuses
<1> QED BY <1>1, <1>3, <1>4, <1>5, <1>6 DEF Kinds

LEMMA AppendType ==
    ASSUME history \in History, NEW b \in Batch
    PROVE  AppendMessages(b) \in History
BY DEF AppendMessages, History, Batch

LEMMA SaidType ==
    ASSUME NEW r \in Request
    PROVE  Said(r) \in Batch
BY DEF Request, Row, Said, Saying, NoBatch, Batch, Kinds, StopResults, Gated, Beside, Calls

LEMMA RequestsType ==
    ASSUME TypeOK, NEW c \in Clients, Requests(c)
    PROVE  TypeOK'
<1> USE DEF TypeOK
<1>1. ASSUME NEW kind \in Kinds, Begin(c, kind) PROVE TypeOK'
  <2>1. req' \in [Clients -> Request]
    <3>1. [NoRequest EXCEPT !.phase = "loaded", !.kind = kind, !.loaded = row, !.stint = stint] \in Request
      BY Defaults DEF Request
    <3> QED BY <1>1, <3>1 DEF Begin
  <2>2. flag' \in Nat BY <1>1 DEF Begin, FlagAfterBegin
  <2> QED BY <1>1, <2>1, <2>2 DEF Begin
<1>2. CASE AskToStop(c)
  <2>1. req' \in [Clients -> Request] BY <1>2, Defaults DEF AskToStop
  <2>2. flag' \in Nat /\ asked' \in Nat BY <1>2 DEF AskToStop, Request
  <2> QED BY <1>2, <2>1, <2>2 DEF AskToStop
<1>3. CASE Write(c)
  <2>1. PICK d \in IF req[c].kind = "resolve" THEN Resolutions(req[c].loaded) ELSE {NoDecisions},
             k \in IF req[c].kind = "stop" THEN {NoKick} ELSE Unused :
          /\ req' = [req EXCEPT ![c] = [req[c] EXCEPT !.phase = "written", !.answers = d, !.kick = k]]
          /\ queue' = [m \in Kicks |-> IF m = k THEN "queued" ELSE queue[m]]
    BY <1>3 DEF Write
  <2>2. d \in [Asks -> Answers] /\ k \in Kicks \cup {NoKick}
    BY Defaults DEF Resolutions, Unused
  <2>3. [req[c] EXCEPT !.phase = "written", !.answers = d, !.kick = k] \in Request
    <3>1. req[c] \in Request OBVIOUS
    <3>2. ASSUME NEW x \in Request
          PROVE  [x EXCEPT !.phase = "written", !.answers = d, !.kick = k] \in Request
      BY <2>2 DEF Request
    <3> QED BY <3>1, <3>2
  <2>4. req' \in [Clients -> Request] BY <2>1, <2>3
  <2>5. queue' \in [Kicks -> QueueStates] BY <2>1 DEF QueueStates
  <2> QED BY <1>3, <2>4, <2>5 DEF Write
<1>4. CASE Commit(c)
  <2>1. req[c] \in Request /\ req[c].loaded \in Row BY DEF Request
  <2>2. row' \in Row BY <1>4, <2>1, SavedType, FlushType DEF Commit
  <2>3. history' \in History BY <1>4, <2>1, SaidType, AppendType DEF Commit
  <2>4. req' \in [Clients -> Request] BY <1>4, Defaults DEF Commit
  <2>5. stint' \in Nat /\ unheard' \in BOOLEAN BY <1>4 DEF Commit
  <2> QED BY <1>4, <2>2, <2>3, <2>4, <2>5 DEF Commit
<1>5. CASE Abort(c)
  <2>1. req' \in [Clients -> Request] BY <1>5, Defaults DEF Abort
  <2>2. mishaps' \in 0..MaxMishaps BY <1>5, ConstantsAssumption DEF Abort, Mishap
  <2> QED BY <1>5, <2>1, <2>2 DEF Abort
<1> QED BY <1>1, <1>2, <1>3, <1>4, <1>5 DEF Requests

-----------------------------------------------------------------------------
(* Workers.                                                                *)

(* Fragments of a step that are well typed whatever step they are part of. *)
LEMMA BecomesType ==
    ASSUME TypeOK, NEW w \in Workers, NEW r \in Run, Becomes(w, r)
    PROVE  run' \in [Workers -> Run]
BY DEF Becomes, TypeOK

LEMMA OverType ==
    ASSUME TypeOK, NEW w \in Workers, Over(w)
    PROVE  run' \in [Workers -> Run] /\ queue' \in [Kicks -> QueueStates]
BY BecomesType, Defaults DEF Over, TypeOK, QueueStates

LEMMA MishapType ==
    ASSUME TypeOK, NEW kind, Mishap(kind)
    PROVE  mishaps' \in 0..MaxMishaps
BY ConstantsAssumption DEF Mishap, TypeOK

(* What the parts of a run are.                                            *)
LEMMA RunParts ==
    ASSUME TypeOK, NEW w \in Workers
    PROVE  /\ run[w] \in Run
           /\ run[w].loaded \in Row
           /\ run[w].batch \in Batch
BY DEF TypeOK, Run

(* The run that has read the row l, with the message k and the news n.     *)
Reads(k, l, n, b) ==
    [NoRun EXCEPT !.phase = "loop", !.kick = k, !.loaded = l, !.pending = l.pending,
                  !.completed = l.completed, !.decisions = l.decisions,
                  !.iterations = l.iterations, !.drained = n, !.batch = b]

LEMMA ReadsParts ==
    ASSUME NEW k, NEW l, NEW n, NEW b
    PROVE  /\ Reads(k, l, n, b).phase = "loop"
           /\ Reads(k, l, n, b).kick = k
           /\ Reads(k, l, n, b).next = NoKick
           /\ Reads(k, l, n, b).loaded = l
           /\ Reads(k, l, n, b).pending = l.pending
           /\ Reads(k, l, n, b).completed = l.completed
           /\ Reads(k, l, n, b).decisions = l.decisions
           /\ Reads(k, l, n, b).batch = b
<1>1. Reads(k, l, n, b).phase = "loop" BY DEF NoRun, Reads
<1>2. Reads(k, l, n, b).kick = k BY DEF NoRun, Reads
<1>3. Reads(k, l, n, b).next = NoKick BY DEF NoRun, Reads
<1>4. Reads(k, l, n, b).loaded = l BY DEF NoRun, Reads
<1>5. Reads(k, l, n, b).pending = l.pending BY DEF NoRun, Reads
<1>6. Reads(k, l, n, b).completed = l.completed BY DEF NoRun, Reads
<1>7. Reads(k, l, n, b).decisions = l.decisions BY DEF NoRun, Reads
<1>8. Reads(k, l, n, b).batch = b BY DEF NoRun, Reads
<1> QED BY <1>1, <1>2, <1>3, <1>4, <1>5, <1>6, <1>7, <1>8

LEMMA ReadsType ==
    ASSUME NEW k \in Kicks \cup {NoKick}, NEW l \in Row, NEW n \in SUBSET Tasks, NEW b \in Batch
    PROVE  Reads(k, l, n, b) \in Run
<1>1. /\ l.pending \in SUBSET Asks
      /\ l.completed \in SUBSET Asks
      /\ l.decisions \in [Asks -> Answers]
      /\ l.iterations \in 0..MaxIterations
  BY DEF Row
<1>2. "loop" \in Phases BY DEF Phases
<1>3. ASSUME NEW p \in SUBSET Asks, NEW c \in SUBSET Asks, NEW d \in [Asks -> Answers],
             NEW i \in 0..MaxIterations
      PROVE  [NoRun EXCEPT !.phase = "loop", !.kick = k, !.loaded = l, !.pending = p,
                           !.completed = c, !.decisions = d, !.iterations = i, !.drained = n,
                           !.batch = b] \in Run
  BY <1>2, Defaults DEF Run
<1> QED BY <1>1, <1>3 DEF Reads

(* What a run becomes that finds the turn it claimed still running.        *)
LEMMA LoadBecomes ==
    ASSUME TypeOK, NEW w \in Workers, Load(w), row.status = "running"
    PROVE  Becomes(w, Reads(run[w].kick, row, News, [NoBatch EXCEPT !.lead = News # {}]))
BY DEF Load, Reads

LEMMA ClaimSteps ==
    ASSUME TypeOK, NEW w \in Workers,
           (\E k \in Kicks : Deliver(w, k)) \/ Claim(w) \/ GiveUp(w) \/ Load(w)
    PROVE  TypeOK'
<1>1. ASSUME NEW k \in Kicks, Deliver(w, k) PROVE TypeOK'
  <2>1. [NoRun EXCEPT !.phase = "waiting", !.kick = k] \in Run BY Defaults DEF Run, Phases
  <2>2. run' \in [Workers -> Run] BY <1>1, <2>1, BecomesType DEF Deliver
  <2>3. queue' \in [Kicks -> QueueStates] BY <1>1 DEF Deliver, TypeOK, QueueStates
  <2> QED BY <1>1, <2>2, <2>3 DEF Deliver, TypeOK
<1>2. CASE Claim(w)
  <2>1. [run[w] EXCEPT !.phase = "claimed"] \in Run BY RunParts DEF Run, Phases
  <2>2. run' \in [Workers -> Run] BY <1>2, <2>1, BecomesType DEF Claim
  <2>3. row' \in Row BY <1>2, RunParts DEF Claim, TypeOK, Row, Run
  <2> QED BY <1>2, <2>2, <2>3 DEF Claim, TypeOK
<1>3. CASE GiveUp(w)
  BY <1>3, OverType DEF GiveUp, TypeOK
<1>4. CASE Load(w)
  <2>1. run' \in [Workers -> Run]
    <3>1. CASE row.status = "running"
      <4>1. [NoBatch EXCEPT !.lead = News # {}] \in Batch BY DEF NoBatch, Batch
      <4>2. run[w].kick \in Kicks \cup {NoKick} BY RunParts DEF Run
      <4>3. row \in Row /\ News \in SUBSET Tasks BY DEF TypeOK, News
      <4>4. Reads(run[w].kick, row, News, [NoBatch EXCEPT !.lead = News # {}]) \in Run
        BY <4>1, <4>2, <4>3, ReadsType
      <4> QED BY <1>4, <3>1, <4>4, LoadBecomes, BecomesType
    <3>2. CASE row.status # "running"
      <4>1. [run[w] EXCEPT !.phase = "clear"] \in Run BY RunParts DEF Run, Phases
      <4> QED BY <1>4, <3>2, <4>1, BecomesType DEF Load
    <3> QED BY <3>1, <3>2
  <2>2. unheard' \in BOOLEAN BY <1>4 DEF Load, TypeOK
  <2> QED BY <1>4, <2>1, <2>2 DEF Load, TypeOK
<1> QED BY <1>1, <1>2, <1>3, <1>4

(* The reply is counted.                                                   *)
LEMMA CountedType ==
    ASSUME TypeOK, IterationsLeft, NEW w \in Workers, run[w].phase = "model"
    PROVE  [run[w] EXCEPT !.iterations = run[w].iterations + 1] \in Run
<1>1. run[w] \in Run BY RunParts
<1>2. run[w].iterations < MaxIterations BY DEF IterationsLeft
<1>3. run[w].iterations + 1 \in 0..MaxIterations BY <1>1, <1>2, ConstantsAssumption DEF Run
<1> QED BY <1>1, <1>3 DEF Run

(* What a reply makes of a run.                                            *)
LEMMA ReplyBecomes ==
    ASSUME TypeOK, IterationsLeft, NEW w \in Workers, Reply(w)
    PROVE  /\ run'[w].phase \in {"end", "loop"}
           /\ run'[w].kick = run[w].kick
           /\ run'[w].next = run[w].next
           /\ run'[w].loaded = run[w].loaded
<1> DEFINE r == [run[w] EXCEPT !.iterations = run[w].iterations + 1]
<1>0. run[w] \in Run BY RunParts
<1>1. run[w].phase = "model" BY <1>0 DEF Reply, Run
<1>2. r \in Run BY <1>1, CountedType
<1>3. r.kick = run[w].kick /\ r.next = run[w].next /\ r.loaded = run[w].loaded BY <1>0 DEF Run
<1>4. \/ Becomes(w, [Returns(r, "completed") EXCEPT !.batch.said = TRUE])
      \/ Becomes(w, [r EXCEPT !.phase = "loop", !.batch.said = TRUE])
      \/ \E asks \in SUBSET Asks : \E beside \in {{}, asks} :
            Becomes(w, [Returns(r, "awaiting_client") EXCEPT
                          !.pending = asks, !.completed = beside,
                          !.batch.calls = Gated(asks) \cup Beside(beside)])
  BY DEF Reply
<1> HIDE DEF r
<1>5. \A x : Becomes(w, x) => run'[w] = x BY DEF Becomes, TypeOK
<1>6. CASE Becomes(w, [Returns(r, "completed") EXCEPT !.batch.said = TRUE])
  BY <1>2, <1>3, <1>5, <1>6 DEF Returns, Run
<1>7. CASE Becomes(w, [r EXCEPT !.phase = "loop", !.batch.said = TRUE])
  BY <1>2, <1>3, <1>5, <1>7 DEF Run
<1>8. ASSUME NEW asks, NEW beside,
             Becomes(w, [Returns(r, "awaiting_client") EXCEPT
                           !.pending = asks, !.completed = beside,
                           !.batch.calls = Gated(asks) \cup Beside(beside)])
      PROVE  /\ run'[w].phase \in {"end", "loop"}
             /\ run'[w].kick = run[w].kick
             /\ run'[w].next = run[w].next
             /\ run'[w].loaded = run[w].loaded
  BY <1>2, <1>3, <1>5, <1>8 DEF Returns, Run
<1> QED BY <1>4, <1>6, <1>7, <1>8

(* The steps of the loop, which touch the run and little else.             *)
LEMMA LoopType ==
    ASSUME TypeOK, IterationsLeft, NEW w \in Workers, LoopStep(w)
    PROVE  TypeOK'
<1>0. run[w] \in Run BY RunParts
<1>1. \A result \in LoopStatuses : Returns(run[w], result) \in Run
  BY <1>0 DEF Returns, Run, Phases
<1>2. CASE Settle(w)
  <2>1. ran' \in [Asks -> 0..MaxRuns]
    BY <1>2, ConstantsAssumption DEF Settle, TypeOK, MaxRuns
  <2>2. [run[w].batch EXCEPT !.results = Gated(run[w].pending) \cup Beside(run[w].completed)] \in Batch
    BY <1>0 DEF Run, Batch, Gated, Beside, Calls
  <2>3. [run[w] EXCEPT !.pending = {}, !.completed = {}, !.decisions = NoDecisions,
                       !.batch = [run[w].batch EXCEPT !.results =
                                    Gated(run[w].pending) \cup Beside(run[w].completed)]] \in Run
    BY <1>0, <2>2, Defaults DEF Run
  <2>4. run' \in [Workers -> Run] BY <1>2, <2>3, BecomesType DEF Settle
  <2> QED BY <1>2, <2>1, <2>4 DEF Settle, TypeOK
<1>3. CASE AskAgain(w) \/ Stop(w) \/ Limit(w) \/ CutOff(w) \/ Unavailable(w)
  <2>1. PICK result \in LoopStatuses : Becomes(w, Returns(run[w], result))
    BY <1>3 DEF AskAgain, Stop, Limit, CutOff, Unavailable, LoopStatuses
  <2>2. run' \in [Workers -> Run] BY <1>1, <2>1, BecomesType
  <2> QED BY <1>3, <2>2 DEF AskAgain, Stop, Limit, CutOff, Unavailable, TypeOK
<1>4. CASE Proceed(w)
  <2>1. \A p \in Phases : [run[w] EXCEPT !.phase = p] \in Run BY <1>0 DEF Run
  <2>2. run' \in [Workers -> Run] BY <1>4, <2>1, BecomesType DEF Proceed, Phases
  <2> QED BY <1>4, <2>2 DEF Proceed, TypeOK
<1>5. CASE Checkpoint(w)
  <2> DEFINE saved == Flush(run[w].loaded, CheckpointState(run[w]))
  <2>1. CheckpointState(run[w]) \in TurnStates
    <3>1. TurnState("running") \in TurnStates BY Defaults DEF Statuses
    <3> QED BY <1>0, <3>1 DEF CheckpointState, TurnStates, Run
  <2>2. saved \in Row BY <2>1, RunParts, FlushType DEF TypeOK
  <2> HIDE DEF saved
  <2>3. [run[w] EXCEPT !.phase = "model", !.batch = NoBatch, !.loaded = saved] \in Run
    BY <1>0, <2>2 DEF Run, Phases, NoBatch, Batch
  <2>4. run' \in [Workers -> Run] BY <1>5, <2>3, BecomesType DEF Checkpoint, saved
  <2>5. row' \in Row BY <1>5, <2>2 DEF Checkpoint, saved
  <2>6. history' \in History BY <1>5, RunParts, AppendType DEF Checkpoint, TypeOK
  <2>7. reported' \subseteq Tasks BY <1>0, <1>5 DEF Checkpoint, TypeOK, Run
  <2> QED BY <1>5, <2>4, <2>5, <2>6, <2>7 DEF Checkpoint, TypeOK
<1>6. CASE Reply(w)
  <2>1. told' \subseteq Tasks BY <1>0, <1>6 DEF Reply, TypeOK, Run
  <2>2. made' \subseteq Asks BY <1>6 DEF Reply, TypeOK
  <2> DEFINE r == [run[w] EXCEPT !.iterations = run[w].iterations + 1]
  <2>3. r \in Run
    <3>1. run[w].phase = "model" BY <1>0, <1>6 DEF Reply, Run
    <3> QED BY <3>1, CountedType
  <2>4. r.batch \in Batch BY <2>3 DEF Run
  <2>5. [Returns(r, "completed") EXCEPT !.batch.said = TRUE] \in Run
    <3>1. [r.batch EXCEPT !.said = TRUE] \in Batch BY <2>4 DEF Batch
    <3> HIDE DEF r
    <3> QED BY <2>3, <3>1 DEF Returns, Run, Phases, LoopStatuses
  <2>6. [r EXCEPT !.phase = "loop", !.batch.said = TRUE] \in Run
    <3>1. [r.batch EXCEPT !.said = TRUE] \in Batch BY <2>4 DEF Batch
    <3> HIDE DEF r
    <3> QED BY <2>3, <3>1 DEF Run, Phases
  <2>7. ASSUME NEW asks \in SUBSET Asks, NEW beside \in {{}, asks}
        PROVE  [Returns(r, "awaiting_client") EXCEPT
                  !.pending = asks, !.completed = beside,
                  !.batch.calls = Gated(asks) \cup Beside(beside)] \in Run
    <3>1. [r.batch EXCEPT !.calls = Gated(asks) \cup Beside(beside)] \in Batch
      BY <2>4 DEF Batch, Calls, Gated, Beside
    <3> HIDE DEF r
    <3> QED BY <2>3, <3>1 DEF Returns, Run, Phases, LoopStatuses
  <2>8. run' \in [Workers -> Run]
    <3>1. \/ Becomes(w, [Returns(r, "completed") EXCEPT !.batch.said = TRUE])
          \/ Becomes(w, [r EXCEPT !.phase = "loop", !.batch.said = TRUE])
          \/ \E asks \in SUBSET Asks : \E beside \in {{}, asks} :
                Becomes(w, [Returns(r, "awaiting_client") EXCEPT
                              !.pending = asks, !.completed = beside,
                              !.batch.calls = Gated(asks) \cup Beside(beside)])
      BY <1>6 DEF Reply
    <3> HIDE DEF r
    <3> QED BY <2>5, <2>6, <2>7, <3>1, BecomesType
  <2> QED BY <1>6, <2>1, <2>2, <2>8 DEF Reply, TypeOK
<1> QED BY <1>2, <1>3, <1>4, <1>5, <1>6 DEF LoopStep

LEMMA ReportType ==
    ASSUME TypeOK, OpensReport
    PROVE  row' \in Row /\ stint' \in Nat
<1>1. 0 \in 0..MaxIterations BY ConstantsAssumption
<1>2. [row EXCEPT !.status = "running", !.iterations = 0] \in Row
  BY <1>1 DEF TypeOK, Row, Statuses
<1> QED BY <1>2 DEF OpensReport, TypeOK

LEMMA EndSteps ==
    ASSUME TypeOK, NEW w \in Workers,
           EndTurn(w) \/ ClearFlag(w) \/ Relay(w) \/ RelayKick(w)
    PROVE  TypeOK'
<1>0. run[w] \in Run BY RunParts
<1>1. CASE EndTurn(w)
  <2>1. EndState(run[w]) \in TurnStates
    BY <1>0, Defaults DEF EndState, STATUS_AFTER, TurnStates, Run, Statuses, Reasons
  <2>2. EndBatch(run[w]) \in Batch
    <3>1. [run[w].batch EXCEPT !.said = TRUE] \in Batch BY RunParts DEF Batch
    <3> QED BY <3>1, RunParts DEF EndBatch
  <2>3. row' \in Row BY <1>1, <2>1, RunParts, FlushType DEF EndTurn, TypeOK
  <2>4. history' \in History BY <1>1, <2>2, AppendType DEF EndTurn, TypeOK
  <2>5. [NoRun EXCEPT !.phase = "clear", !.kick = run[w].kick, !.result = run[w].result] \in Run
    BY <1>0, Defaults DEF Run, Phases
  <2>6. run' \in [Workers -> Run] BY <1>1, <2>5, BecomesType DEF EndTurn
  <2>7. reported' \subseteq Tasks BY <1>0, <1>1 DEF EndTurn, TypeOK, Run
  <2> QED BY <1>1, <2>3, <2>4, <2>6, <2>7 DEF EndTurn, TypeOK
<1>2. CASE ClearFlag(w)
  <2>1. [run[w] EXCEPT !.phase = "relay"] \in Run BY <1>0 DEF Run, Phases
  <2>2. run' \in [Workers -> Run] /\ queue' \in [Kicks -> QueueStates]
    <3>1. CASE run[w].result = "completed"
      BY <1>2, <2>1, <3>1, BecomesType DEF ClearFlag, TypeOK
    <3>2. CASE run[w].result # "completed"
      BY <1>2, <3>2, OverType DEF ClearFlag
    <3> QED BY <3>1, <3>2
  <2>3. flag' \in Nat BY <1>2 DEF ClearFlag
  <2> QED BY <1>2, <2>2, <2>3 DEF ClearFlag, TypeOK
<1>3. CASE Relay(w)
  <2>1. ASSUME NEW k \in Unused, OpensReport, queue' = [queue EXCEPT ![k] = "promised"],
               Becomes(w, [run[w] EXCEPT !.phase = "kick", !.next = k])
        PROVE  TypeOK'
    <3>1. [run[w] EXCEPT !.phase = "kick", !.next = k] \in Run BY <1>0 DEF Run, Phases, Unused
    <3>2. run' \in [Workers -> Run] BY <2>1, <3>1, BecomesType
    <3>3. queue' \in [Kicks -> QueueStates] BY <2>1 DEF TypeOK, QueueStates
    <3>4. row' \in Row /\ stint' \in Nat BY <2>1, ReportType
    <3> QED BY <1>3, <3>2, <3>3, <3>4 DEF Relay, TypeOK
  <2>2. ASSUME Over(w), UNCHANGED <<row, stint>> PROVE TypeOK'
    BY <1>3, <2>2, OverType DEF Relay, TypeOK
  <2> QED BY <1>3, <2>1, <2>2 DEF Relay
<1>4. CASE RelayKick(w)
  <2>1. run' \in [Workers -> Run] BY <1>4, Defaults, BecomesType DEF RelayKick
  <2>2. queue' \in [Kicks -> QueueStates] BY <1>4 DEF RelayKick, TypeOK, QueueStates
  <2> QED BY <1>4, <2>1, <2>2 DEF RelayKick, TypeOK
<1> QED BY <1>1, <1>2, <1>3, <1>4

LEMMA MarkSteps ==
    ASSUME TypeOK, NEW w \in Workers, MarkPaused(w) \/ MarkFailed(w)
    PROVE  TypeOK'
<1>0. run[w] \in Run BY RunParts
<1>1. CASE MarkPaused(w)
  <2>1. row' \in Row
    <3>1. CASE row.status = "running"
      <4>1. PausedTurn(run[w].reason) \in TurnStates
        BY <1>0 DEF PausedTurn, TurnStates, TypeOK, Row, Run, Statuses
      <4> QED BY <1>1, <3>1, <4>1, FlushType DEF MarkPaused, TypeOK
    <3>2. CASE row.status # "running"
      BY <1>1, <3>2 DEF MarkPaused, TypeOK
    <3> QED BY <3>1, <3>2
  <2>2. run' \in [Workers -> Run] /\ queue' \in [Kicks -> QueueStates]
    <3>1. CASE Over(w) BY <3>1, OverType
    <3>2. ASSUME Becomes(w, NoRun), queue' = [queue EXCEPT ![run[w].kick] = "queued"]
          PROVE  run' \in [Workers -> Run] /\ queue' \in [Kicks -> QueueStates]
      BY <3>2, Defaults, BecomesType DEF TypeOK, QueueStates
    <3> QED BY <1>1, <3>1, <3>2 DEF MarkPaused
  <2> QED BY <1>1, <2>1, <2>2 DEF MarkPaused, TypeOK
<1>2. CASE MarkFailed(w)
  <2>1. TurnState("failed") \in TurnStates BY Defaults DEF Statuses
  <2>2. row' \in Row BY <1>2, <2>1, FlushType DEF MarkFailed, TypeOK
  <2> QED BY <1>2, <2>2, OverType DEF MarkFailed, TypeOK
<1> QED BY <1>1, <1>2

LEMMA FaultType ==
    ASSUME TypeOK, NEW w \in Workers, RunFault(w)
    PROVE  TypeOK'
<1>0. run[w] \in Run BY RunParts
<1>1. CASE Crash(w)
  <2>1. run' \in [Workers -> Run] BY <1>1, Defaults, BecomesType DEF Crash
  <2>2. queue' \in [Kicks -> QueueStates] BY <1>1 DEF Crash, TypeOK, QueueStates
  <2>3. mishaps' \in 0..MaxMishaps BY <1>1, MishapType DEF Crash
  <2> QED BY <1>1, <2>1, <2>2, <2>3 DEF Crash, TypeOK
<1>2. CASE Cancel(w) \/ Fail(w) \/ Unreachable(w)
  <2>1. PICK phase \in Phases, reason \in Reasons \cup {"none"} : RolledBack(w, phase, reason)
    BY <1>2 DEF Cancel, Fail, Unreachable, Phases, Reasons
  <2>2. \E kind : Mishap(kind) BY <1>2 DEF Cancel, Fail, Unreachable
  <2>3. [NoRun EXCEPT !.phase = phase, !.kick = run[w].kick, !.reason = reason] \in Run
    BY <1>0, Defaults DEF Run
  <2>4. run' \in [Workers -> Run] BY <2>1, <2>3, BecomesType DEF RolledBack
  <2>5. queue' \in [Kicks -> QueueStates] BY <2>1 DEF RolledBack, TypeOK, QueueStates
  <2>6. mishaps' \in 0..MaxMishaps BY <2>2, MishapType
  <2> QED BY <2>1, <2>4, <2>5, <2>6 DEF RolledBack, TypeOK
<1> QED BY <1>1, <1>2 DEF RunFault

LEMMA JobType ==
    ASSUME TypeOK, NEW t \in Tasks, JobStep(t)
    PROVE  TypeOK'
<1>0. /\ [phase |-> "ended", next |-> NoKick] \in Job
      /\ [phase |-> "over", next |-> NoKick] \in Job
  BY DEF Job, JobPhases
<1>1. CASE JobEnds(t)
  BY <1>0, <1>1 DEF JobEnds, TypeOK
<1>2. CASE JobReports(t)
  <2>1. ASSUME NEW k \in Unused, OpensReport, queue' = [queue EXCEPT ![k] = "promised"],
               job' = [job EXCEPT ![t] = [phase |-> "kick", next |-> k]]
        PROVE  TypeOK'
    <3>1. job' \in [Tasks -> Job] BY <2>1 DEF TypeOK, Job, JobPhases, Unused
    <3>2. queue' \in [Kicks -> QueueStates] BY <2>1 DEF TypeOK, QueueStates
    <3>3. row' \in Row /\ stint' \in Nat BY <2>1, ReportType
    <3> QED BY <1>2, <3>1, <3>2, <3>3 DEF JobReports, TypeOK
  <2>2. ASSUME job' = [job EXCEPT ![t] = [phase |-> "over", next |-> NoKick]],
               UNCHANGED <<row, stint, queue>>
        PROVE  TypeOK'
    BY <1>0, <1>2, <2>2 DEF JobReports, TypeOK
  <2> QED BY <1>2, <2>1, <2>2 DEF JobReports
<1>3. CASE JobKick(t)
  <2>1. queue' \in [Kicks -> QueueStates] BY <1>3 DEF JobKick, TypeOK, QueueStates
  <2> QED BY <1>0, <1>3, <2>1 DEF JobKick, TypeOK
<1>4. CASE JobDies(t)
  <2>1. queue' \in [Kicks -> QueueStates] BY <1>4 DEF JobDies, TypeOK, QueueStates
  <2>2. mishaps' \in 0..MaxMishaps BY <1>4, MishapType DEF JobDies
  <2> QED BY <1>0, <1>4, <2>1, <2>2 DEF JobDies, TypeOK
<1> QED BY <1>1, <1>2, <1>3, <1>4 DEF JobStep

-----------------------------------------------------------------------------

(* Only Proceed brings a run to a phase with a step left, and it asks.     *)
LEMMA StepsLeft ==
    ASSUME TypeOK, IterationsLeft, [Next]_vars
    PROVE  IterationsLeft'
<1> DEFINE Spends(r) == r.phase \in {"store", "model"} => r.iterations < MaxIterations
<1>1. CASE run' = run
  BY <1>1 DEF IterationsLeft
<1>2. ASSUME NEW w \in Workers, NEW r, Becomes(w, r), Spends(r)
      PROVE  IterationsLeft'
  BY <1>2 DEF Becomes, IterationsLeft, TypeOK
<1>3. \A p \in Phases \ {"store", "model"} : \A r : r.phase = p => Spends(r)
  OBVIOUS
<1>4. ASSUME NEW w \in Workers, NEW r, Becomes(w, r), r.phase \notin {"store", "model"}
      PROVE  IterationsLeft'
  BY <1>2, <1>4
<1>5. NoRun.phase = "idle" BY DEF NoRun
<1>6. ASSUME NEW c \in Clients, Requests(c) PROVE IterationsLeft'
  BY <1>1, <1>6 DEF Requests, Begin, AskToStop, Write, Commit, Abort
<1>7. CASE FlagExpires BY <1>1, <1>7 DEF FlagExpires
<1>8. ASSUME NEW t \in Tasks, JobStep(t) PROVE IterationsLeft'
  BY <1>1, <1>8 DEF JobStep, JobEnds, JobReports, JobKick, JobDies
<1>9. ASSUME NEW w \in Workers, RunStep(w) \/ RunFault(w) PROVE IterationsLeft'
  <2>0. run[w] \in Run BY RunParts
  <2>1. \A p \in Phases : [run[w] EXCEPT !.phase = p].phase = p BY <2>0 DEF Run
  <2>2. ASSUME NEW k \in Kicks, Deliver(w, k) PROVE IterationsLeft'
    BY <1>4, <2>2 DEF Deliver, NoRun
  <2>3. CASE Claim(w) \/ ClearFlag(w)
    BY <1>4, <1>5, <2>1, <2>3 DEF Claim, ClearFlag, Over, Phases
  <2>4. CASE GiveUp(w) \/ RelayKick(w) \/ MarkPaused(w) \/ MarkFailed(w) \/ Crash(w)
    BY <1>4, <1>5, <2>4 DEF GiveUp, Over, RelayKick, MarkPaused, MarkFailed, Crash
  <2>5. CASE Load(w)
    <3>1. CASE row.status = "running"
      <4> DEFINE r == Reads(run[w].kick, row, News, [NoBatch EXCEPT !.lead = News # {}])
      <4>1. r.phase = "loop" BY ReadsParts
      <4>2. Becomes(w, r) BY <2>5, <3>1, LoadBecomes
      <4> HIDE DEF r
      <4> QED BY <1>4, <4>1, <4>2
    <3>2. CASE row.status # "running" BY <1>4, <2>1, <2>5, <3>2 DEF Load, Phases
    <3> QED BY <3>1, <3>2
  <2>6. CASE Relay(w)
    <3>1. \A k : [run[w] EXCEPT !.phase = "kick", !.next = k].phase = "kick" BY <2>0 DEF Run
    <3> QED BY <1>4, <1>5, <2>6, <3>1 DEF Relay, Over
  <2>7. CASE Cancel(w) \/ Fail(w) \/ Unreachable(w)
    BY <1>4, <2>7 DEF Cancel, Fail, Unreachable, RolledBack, NoRun
  <2>8. CASE EndTurn(w)
    BY <1>4, <2>8 DEF EndTurn, NoRun
  <2>9. CASE LoopStep(w)
    <3>1. \A result : Returns(run[w], result).phase = "end" BY <2>0 DEF Returns, Run
    <3>2. CASE Settle(w)
      <4>1. run'[w].phase = "loop" /\ \A v \in Workers : v # w => run'[v] = run[v]
        BY <2>0, <3>2 DEF Settle, Becomes, Run, TypeOK
      <4> QED BY <4>1 DEF IterationsLeft
    <3>3. CASE AskAgain(w) \/ Stop(w) \/ Limit(w) \/ CutOff(w) \/ Unavailable(w)
      BY <1>4, <3>1, <3>3 DEF AskAgain, Stop, Limit, CutOff, Unavailable
    <3>4. CASE Proceed(w)
      <4>1. /\ run[w].iterations < MaxIterations
            /\ \E p \in {"store", "model"} : Becomes(w, [run[w] EXCEPT !.phase = p])
        BY <3>4 DEF Proceed
      <4>2. \A p \in {"store", "model"} : [run[w] EXCEPT !.phase = p].iterations = run[w].iterations
        BY <2>0 DEF Run
      <4> QED BY <1>2, <4>1, <4>2
    <3>5. CASE Checkpoint(w)
      <4>1. /\ run[w].phase = "store"
            /\ run'[w].iterations = run[w].iterations
            /\ \A v \in Workers : v # w => run'[v] = run[v]
        BY <2>0, <3>5 DEF Checkpoint, Becomes, Run, TypeOK
      <4> QED BY <4>1 DEF IterationsLeft
    <3>6. CASE Reply(w)
      <4>1. run'[w].phase \in {"end", "loop"} BY <3>6, ReplyBecomes
      <4>2. \A v \in Workers : v # w => run'[v] = run[v] BY <3>6 DEF Reply, Becomes, TypeOK
      <4> QED BY <4>1, <4>2 DEF IterationsLeft
    <3> QED BY <2>9, <3>2, <3>3, <3>4, <3>5, <3>6 DEF LoopStep
  <2> QED BY <1>9, <2>2, <2>3, <2>4, <2>5, <2>6, <2>7, <2>8, <2>9 DEF RunStep, RunFault
<1>10. CASE UNCHANGED vars BY <1>1, <1>10 DEF vars
<1> QED BY <1>6, <1>7, <1>8, <1>9, <1>10 DEF Next

LEMMA StepType ==
    ASSUME TypeOK, IterationsLeft, [Next]_vars
    PROVE  TypeOK'
<1>1. ASSUME NEW c \in Clients, Requests(c) PROVE TypeOK' BY <1>1, RequestsType
<1>2. CASE FlagExpires
  <2>1. mishaps' \in 0..MaxMishaps BY <1>2, MishapType DEF FlagExpires
  <2> QED BY <1>2, <2>1 DEF FlagExpires, TypeOK
<1>3. ASSUME NEW w \in Workers, RunStep(w) PROVE TypeOK'
  BY <1>3, ClaimSteps, LoopType, EndSteps, MarkSteps DEF RunStep
<1>4. ASSUME NEW w \in Workers, RunFault(w) PROVE TypeOK' BY <1>4, FaultType
<1>5. ASSUME NEW t \in Tasks, JobStep(t) PROVE TypeOK' BY <1>5, JobType
<1>6. CASE UNCHANGED vars BY <1>6 DEF vars, TypeOK
<1> QED BY <1>1, <1>2, <1>3, <1>4, <1>5, <1>6 DEF Next

(* TypeOK alone is not inductive: Reply counts an iteration, and only      *)
(* IterationsLeft says that one is left.                                   *)
TypeInv == TypeOK /\ IterationsLeft

(* Whatever happens to a conversation, its row, its runs and its requests  *)
(* hold only statuses, pauses and claims the code knows, and the model is  *)
(* never called past MAX_ITERATIONS (apply_turn_state, advance).           *)
THEOREM TypeCorrect == Spec => []TypeOK
<1>1. Init => TypeInv
  BY InitType, Defaults DEF TypeInv, IterationsLeft, Init, NoRun
<1>2. TypeInv /\ [Next]_vars => TypeInv'
  BY StepType, StepsLeft DEF TypeInv
<1>3. TypeInv => TypeOK BY DEF TypeInv
<1> QED BY <1>1, <1>2, <1>3, PTL DEF Spec

-----------------------------------------------------------------------------
(* The messages.                                                           *)

MessageHeld ==
    \A w \in Workers : run[w].phase # "idle" =>
        run[w].kick \in Kicks /\ queue[run[w].kick] = "held"

OwnMessage ==
    \A v, w \in Workers :
        run[v].phase # "idle" /\ run[w].phase # "idle" /\ run[v].kick = run[w].kick => v = w

(* A message is promised by one run, or by one job.                        *)
Promised ==
    /\ \A w \in Workers : run[w].next # NoKick => queue[run[w].next] = "promised"
    /\ \A t \in Tasks : job[t].next # NoKick => queue[job[t].next] = "promised"
    /\ \A v, w \in Workers : run[v].next = run[w].next /\ run[v].next # NoKick => v = w
    /\ \A t, u \in Tasks : job[t].next = job[u].next /\ job[t].next # NoKick => t = u
    /\ \A w \in Workers, t \in Tasks : run[w].next # NoKick => run[w].next # job[t].next

MessageInv == MessageHeld /\ OwnMessage /\ Promised

(* A run goes on with the message it has.                                  *)
LEMMA KeepsMessage ==
    ASSUME MessageInv, NEW w \in Workers, run[w].phase # "idle",
           \A v \in Workers : v # w => run'[v] = run[v],
           run'[w].kick = run[w].kick, run'[w].next \in {run[w].next, NoKick},
           UNCHANGED <<queue, job>>
    PROVE  MessageInv'
<1>1. MessageHeld' BY DEF MessageInv, MessageHeld
<1>2. OwnMessage' BY DEF MessageInv, OwnMessage
<1>3. Promised' BY DEF MessageInv, Promised
<1> QED BY <1>1, <1>2, <1>3 DEF MessageInv

(* A run is over, or cut off: its message, and the one it promised, go     *)
(* somewhere else.                                                         *)
LEMMA LeavesMessage ==
    ASSUME TypeOK, MessageInv, NEW w \in Workers, NEW r \in Run,
           Becomes(w, r), run[w].phase # "idle", r.next = NoKick,
           r.phase # "idle" => r.kick = run[w].kick /\ queue'[r.kick] = "held",
           \A k \in Kicks : k \notin {run[w].kick, run[w].next} => queue'[k] = queue[k],
           UNCHANGED job
    PROVE  MessageInv'
<1>1. \A v \in Workers : run'[v] = IF v = w THEN r ELSE run[v]
  BY DEF Becomes, TypeOK
<1>2. \A v \in Workers : run[v] \in Run BY RunParts
<1>3. \A t \in Tasks : job[t] \in Job BY DEF TypeOK
<1>4. run[w].kick \in Kicks /\ queue[run[w].kick] = "held"
  BY DEF MessageInv, MessageHeld
<1>5. MessageHeld'
  <2>1. ASSUME NEW v \in Workers, v # w, run[v].phase # "idle"
        PROVE  run[v].kick \in Kicks /\ queue'[run[v].kick] = "held"
    <3>1. run[v].kick \in Kicks /\ queue[run[v].kick] = "held"
      BY <2>1 DEF MessageInv, MessageHeld
    <3>2. run[v].kick # run[w].kick BY <2>1 DEF MessageInv, OwnMessage
    <3>3. run[v].kick # run[w].next
      BY <3>1, ConstantsAssumption DEF MessageInv, Promised
    <3> QED BY <3>1, <3>2, <3>3
  <2> QED BY <1>1, <1>4, <2>1 DEF MessageHeld
<1>6. OwnMessage' BY <1>1 DEF MessageInv, OwnMessage
<1>7. Promised'
  <2>1. \A v \in Workers : run'[v].next # NoKick => v # w /\ run'[v] = run[v] BY <1>1
  <2>2. ASSUME NEW v \in Workers, v # w, run[v].next # NoKick
        PROVE  queue'[run[v].next] = "promised"
    <3>1. run[v].next \in Kicks BY <1>2, <2>2 DEF Run
    <3>2. queue[run[v].next] = "promised" BY <2>2 DEF MessageInv, Promised
    <3>3. run[v].next # run[w].kick BY <1>4, <3>2
    <3>4. run[v].next # run[w].next BY <2>2 DEF MessageInv, Promised
    <3> QED BY <3>1, <3>2, <3>3, <3>4
  <2>3. ASSUME NEW t \in Tasks, job[t].next # NoKick
        PROVE  queue'[job[t].next] = "promised"
    <3>1. job[t].next \in Kicks BY <1>3, <2>3 DEF Job
    <3>2. queue[job[t].next] = "promised" BY <2>3 DEF MessageInv, Promised
    <3>3. job[t].next # run[w].kick BY <1>4, <3>2
    <3>4. job[t].next # run[w].next BY <2>3 DEF MessageInv, Promised
    <3> QED BY <3>1, <3>2, <3>3, <3>4
  <2> QED BY <2>1, <2>2, <2>3 DEF MessageInv, Promised
<1> QED BY <1>5, <1>6, <1>7 DEF MessageInv

(* A message no run has and nobody promised moves.                         *)
LEMMA FreeMessage ==
    ASSUME TypeOK, MessageInv, UNCHANGED <<run, job>>,
           \A k \in Kicks : queue[k] \in {"held", "promised"} => queue'[k] = queue[k]
    PROVE  MessageInv'
<1>1. \A v \in Workers : run[v].next \in Kicks \cup {NoKick} BY RunParts DEF Run
<1>2. \A t \in Tasks : job[t].next \in Kicks \cup {NoKick} BY DEF TypeOK, Job
<1>3. MessageHeld' BY DEF MessageInv, MessageHeld
<1>4. OwnMessage' BY DEF MessageInv, OwnMessage
<1>5. Promised' BY <1>1, <1>2 DEF MessageInv, Promised
<1> QED BY <1>3, <1>4, <1>5 DEF MessageInv

LEMMA RequestMessages ==
    ASSUME TypeInv, MessageInv, NEW c \in Clients, Requests(c)
    PROVE  MessageInv'
<1> USE DEF TypeInv
<1>1. CASE (\E kind \in Kinds : Begin(c, kind)) \/ AskToStop(c) \/ Commit(c) \/ Abort(c)
  BY <1>1, FreeMessage DEF Begin, AskToStop, Commit, Abort
<1>2. CASE Write(c)
  <2>1. PICK k \in IF req[c].kind = "stop" THEN {NoKick} ELSE Unused :
          queue' = [m \in Kicks |-> IF m = k THEN "queued" ELSE queue[m]]
    BY <1>2 DEF Write
  <2>2. k \in Unused \cup {NoKick} BY <2>1
  <2>3. \A m \in Kicks : queue[m] \in {"held", "promised"} => queue'[m] = queue[m]
    BY <2>1, <2>2, ConstantsAssumption DEF Unused
  <2> QED BY <1>2, <2>3, FreeMessage DEF Write
<1> QED BY <1>1, <1>2 DEF Requests

(* A step of the loop keeps the run's message, and touches no other run,   *)
(* nor the queue.                                                          *)
LEMMA LoopKeeps ==
    ASSUME TypeInv, NEW w \in Workers, LoopStep(w)
    PROVE  run'[w].kick = run[w].kick /\ run'[w].next = run[w].next
<1> USE DEF TypeInv
<1>0. run[w] \in Run BY RunParts
<1>1. CASE AskAgain(w) \/ Stop(w) \/ Limit(w) \/ CutOff(w) \/ Unavailable(w)
  <2>1. \A x : Becomes(w, x) => run'[w] = x BY DEF Becomes, TypeOK
  <2>2. \A x : Returns(run[w], x).kick = run[w].kick /\ Returns(run[w], x).next = run[w].next
    BY <1>0 DEF Returns, Run
  <2> QED BY <1>1, <2>1, <2>2 DEF AskAgain, Stop, Limit, CutOff, Unavailable
<1>2. CASE Settle(w) BY <1>0, <1>2 DEF Settle, Becomes, TypeOK, Run
<1>3. CASE Proceed(w) BY <1>0, <1>3 DEF Proceed, Becomes, TypeOK, Run
<1>4. CASE Checkpoint(w) BY <1>0, <1>4 DEF Checkpoint, Becomes, TypeOK, Run
<1>5. CASE Reply(w) BY <1>5, ReplyBecomes
<1> QED BY <1>1, <1>2, <1>3, <1>4, <1>5 DEF LoopStep

LEMMA LoopLoaded ==
    ASSUME TypeInv, NEW w \in Workers, LoopStep(w), ~Checkpoint(w)
    PROVE  run'[w].loaded = run[w].loaded
<1> USE DEF TypeInv
<1>0. run[w] \in Run BY RunParts
<1>1. CASE AskAgain(w) \/ Stop(w) \/ Limit(w) \/ CutOff(w) \/ Unavailable(w)
  <2>1. \A x : Becomes(w, x) => run'[w] = x BY DEF Becomes, TypeOK
  <2>2. \A x : Returns(run[w], x).loaded = run[w].loaded BY <1>0 DEF Returns, Run
  <2> QED BY <1>1, <2>1, <2>2 DEF AskAgain, Stop, Limit, CutOff, Unavailable
<1>2. CASE Settle(w) BY <1>0, <1>2 DEF Settle, Becomes, TypeOK, Run
<1>3. CASE Proceed(w) BY <1>0, <1>3 DEF Proceed, Becomes, TypeOK, Run
<1>4. CASE Reply(w) BY <1>4, ReplyBecomes
<1> QED BY <1>1, <1>2, <1>3, <1>4 DEF LoopStep

LEMMA LoopFrame ==
    ASSUME TypeInv, NEW w \in Workers, LoopStep(w)
    PROVE  /\ run[w].phase \in {"loop", "store", "model"}
           /\ \A v \in Workers : v # w => run'[v] = run[v]
           /\ UNCHANGED <<req, queue, job>>
           /\ ~Checkpoint(w) => UNCHANGED row
<1>0. ASSUME Reply(w) PROVE run[w].phase = "model"
  <2>1. run[w] \in Run BY RunParts DEF TypeInv
  <2> QED BY <1>0, <2>1 DEF Reply, Run
<1>1. run[w].phase \in {"loop", "store", "model"}
  BY <1>0 DEF LoopStep, Settle, AskAgain, Stop, Limit, Proceed, Checkpoint, CutOff, Unavailable
<1>2. \E r : Becomes(w, r)
  BY DEF LoopStep, Settle, AskAgain, Stop, Limit, Proceed, Checkpoint, Reply, CutOff, Unavailable
<1>3. \A v \in Workers : v # w => run'[v] = run[v] BY <1>2 DEF Becomes, TypeInv, TypeOK
<1>4. UNCHANGED <<req, queue, job>> /\ (~Checkpoint(w) => UNCHANGED row)
  BY DEF LoopStep, Settle, AskAgain, Stop, Limit, Proceed, Checkpoint, Reply, CutOff, Unavailable
<1> QED BY <1>1, <1>3, <1>4

(* What Load leaves of a run whose turn is still running.                  *)
LEMMA LoadReads ==
    ASSUME TypeOK, NEW w \in Workers, Load(w), row.status = "running"
    PROVE  LET r == run'[w]
           IN  /\ r.phase = "loop"
               /\ r.kick = run[w].kick
               /\ r.next = NoKick
               /\ r.loaded = row
               /\ r.pending = row.pending
               /\ r.completed = row.completed
               /\ r.decisions = row.decisions
               /\ r.batch = [NoBatch EXCEPT !.lead = News # {}]
<1> DEFINE r == Reads(run[w].kick, row, News, [NoBatch EXCEPT !.lead = News # {}])
<1>1. Becomes(w, r) BY LoadBecomes
<1>2. run'[w] = r BY <1>1 DEF Becomes, TypeOK
<1> QED BY <1>2, ReadsParts

LEMMA RunMessages ==
    ASSUME TypeInv, MessageInv, NEW w \in Workers, RunStep(w)
    PROVE  MessageInv'
<1> USE DEF TypeInv
<1>0. run[w] \in Run /\ NoRun \in Run /\ NoRun.phase = "idle" /\ NoRun.next = NoKick
  BY RunParts, Defaults DEF NoRun
<1>1. ASSUME Over(w), run[w].phase # "idle", UNCHANGED job PROVE MessageInv'
  BY <1>0, <1>1, LeavesMessage DEF Over, TypeOK
<1>2. ASSUME NEW k \in Kicks, Deliver(w, k) PROVE MessageInv'
  <2> DEFINE r == [NoRun EXCEPT !.phase = "waiting", !.kick = k]
  <2>1. r.phase = "waiting" /\ r.kick = k /\ r.next = NoKick BY DEF NoRun
  <2> HIDE DEF r
  <2>2. \A v \in Workers : run'[v] = IF v = w THEN r ELSE run[v]
    BY <1>2 DEF Deliver, Becomes, TypeOK, r
  <2>3. queue[k] = "queued" /\ queue' = [queue EXCEPT ![k] = "held"] /\ run[w].phase = "idle"
    BY <1>2 DEF Deliver
  <2>4. \A v \in Workers : run[v].next \in Kicks \cup {NoKick} BY RunParts DEF Run
  <2>5. \A t \in Tasks : job[t].next \in Kicks \cup {NoKick} BY DEF TypeOK, Job
  <2>6. MessageHeld'
    BY <2>1, <2>2, <2>3 DEF MessageInv, MessageHeld, TypeOK
  <2>7. OwnMessage'
    BY <2>1, <2>2, <2>3 DEF MessageInv, MessageHeld, OwnMessage
  <2>8. Promised'
    BY <1>2, <2>1, <2>2, <2>3, <2>4, <2>5 DEF MessageInv, Promised, Deliver, TypeOK
  <2> QED BY <2>6, <2>7, <2>8 DEF MessageInv
<1>3. ASSUME run[w].phase # "idle", \A v \in Workers : v # w => run'[v] = run[v],
             run'[w].kick = run[w].kick, run'[w].next \in {run[w].next, NoKick},
             UNCHANGED <<queue, job>>
      PROVE  MessageInv'
  BY <1>3, KeepsMessage
<1>4. CASE Claim(w)
  BY <1>0, <1>3, <1>4 DEF Claim, Becomes, TypeOK, Run
<1>5. CASE GiveUp(w) BY <1>1, <1>5 DEF GiveUp
<1>6. CASE Load(w)
  <2>1. run'[w].kick = run[w].kick /\ run'[w].next \in {run[w].next, NoKick}
    <3>1. \A x : Becomes(w, x) => run'[w] = x BY DEF Becomes, TypeOK
    <3>2. CASE row.status = "running"
      BY <1>6, <3>2, LoadReads
    <3>3. CASE row.status # "running" BY <1>0, <1>6, <3>1, <3>3 DEF Load, Run
    <3> QED BY <3>2, <3>3
  <2>2. \A v \in Workers : v # w => run'[v] = run[v] BY <1>6 DEF Load, Becomes, TypeOK
  <2> QED BY <1>3, <1>6, <2>1, <2>2 DEF Load
<1>7. CASE LoopStep(w)
  <2>1. run'[w].kick = run[w].kick /\ run'[w].next = run[w].next BY <1>7, LoopKeeps
  <2>2. /\ run[w].phase # "idle"
        /\ \A v \in Workers : v # w => run'[v] = run[v]
        /\ UNCHANGED <<queue, job>>
    BY <1>7, LoopFrame
  <2> QED BY <1>3, <2>1, <2>2
<1>8. CASE EndTurn(w)
  BY <1>0, <1>3, <1>8 DEF EndTurn, Becomes, NoRun, TypeOK
<1>9. CASE ClearFlag(w)
  <2>1. CASE run[w].result = "completed"
    BY <1>0, <1>3, <1>9, <2>1 DEF ClearFlag, Becomes, TypeOK, Run
  <2>2. CASE run[w].result # "completed"
    BY <1>1, <1>9, <2>2 DEF ClearFlag
  <2> QED BY <2>1, <2>2
<1>10. CASE Relay(w)
  <2>1. ASSUME NEW k \in Unused, queue' = [queue EXCEPT ![k] = "promised"],
               Becomes(w, [run[w] EXCEPT !.phase = "kick", !.next = k])
        PROVE  MessageInv'
    <3> DEFINE r == [run[w] EXCEPT !.phase = "kick", !.next = k]
    <3>1. r.phase = "kick" /\ r.kick = run[w].kick /\ r.next = k BY <1>0 DEF Run
    <3> HIDE DEF r
    <3>2. \A v \in Workers : run'[v] = IF v = w THEN r ELSE run[v]
      BY <2>1 DEF Becomes, TypeOK, r
    <3>3. k \in Kicks /\ queue[k] = "unused" BY <2>1 DEF Unused
    <3>4. UNCHANGED job /\ run[w].phase = "relay" BY <1>10 DEF Relay
    <3>5. \A v \in Workers : run[v].next \in Kicks \cup {NoKick} BY RunParts DEF Run
    <3>6. \A t \in Tasks : job[t].next \in Kicks \cup {NoKick} BY DEF TypeOK, Job
    <3>7. MessageHeld' BY <2>1, <3>1, <3>2, <3>3, <3>4 DEF MessageInv, MessageHeld, TypeOK
    <3>8. OwnMessage' BY <3>1, <3>2, <3>4 DEF MessageInv, OwnMessage
    <3>9. Promised'
      BY <2>1, <3>1, <3>2, <3>3, <3>4, <3>5, <3>6, ConstantsAssumption
      DEF MessageInv, Promised, TypeOK
    <3> QED BY <3>7, <3>8, <3>9 DEF MessageInv
  <2> QED BY <1>1, <1>10, <2>1 DEF Relay
<1>11. CASE RelayKick(w)
  <2>1. \A k \in Kicks : k \notin {run[w].kick, run[w].next} => queue'[k] = queue[k]
    BY <1>11 DEF RelayKick, TypeOK
  <2> QED BY <1>0, <1>11, <2>1, LeavesMessage DEF RelayKick
<1>12. CASE MarkPaused(w)
  <2>1. CASE Over(w) BY <1>1, <1>12, <2>1 DEF MarkPaused
  <2>2. ASSUME Becomes(w, NoRun), queue' = [queue EXCEPT ![run[w].kick] = "queued"]
        PROVE  MessageInv'
    BY <1>0, <1>12, <2>2, LeavesMessage DEF MarkPaused, TypeOK
  <2> QED BY <1>12, <2>1, <2>2 DEF MarkPaused
<1>13. CASE MarkFailed(w) BY <1>1, <1>13 DEF MarkFailed
<1> QED BY <1>2, <1>4, <1>5, <1>6, <1>7, <1>8, <1>9, <1>10, <1>11, <1>12, <1>13 DEF RunStep

LEMMA FaultMessages ==
    ASSUME TypeInv, MessageInv, NEW w \in Workers, RunFault(w)
    PROVE  MessageInv'
<1> USE DEF TypeInv
<1>0. run[w] \in Run /\ NoRun \in Run /\ NoRun.phase = "idle" /\ NoRun.next = NoKick
  BY RunParts, Defaults DEF NoRun
<1>1. CASE Crash(w)
  <2>1. \A k \in Kicks : k \notin {run[w].kick, run[w].next} => queue'[k] = queue[k]
    BY <1>1 DEF Crash
  <2> QED BY <1>0, <1>1, <2>1, LeavesMessage DEF Crash
<1>2. CASE Cancel(w) \/ Fail(w) \/ Unreachable(w)
  <2>1. PICK phase \in {"pausing", "failing"}, reason \in Reasons \cup {"none"} :
             RolledBack(w, phase, reason)
    BY <1>2 DEF Cancel, Fail, Unreachable, Reasons
  <2>2. run[w].phase # "idle"
    BY <1>2 DEF Cancel, Fail, Unreachable, Working, Strays
  <2> DEFINE r == [NoRun EXCEPT !.phase = phase, !.kick = run[w].kick, !.reason = reason]
  <2>3. r \in Run
    <3>1. phase \in Phases BY DEF Phases
    <3>2. run[w].kick \in Kicks \cup {NoKick} BY <1>0 DEF Run
    <3> QED BY <1>0, <3>1, <3>2 DEF Run
  <2>4. r.kick = run[w].kick /\ r.next = NoKick BY DEF NoRun
  <2> HIDE DEF r
  <2>5. Becomes(w, r) /\ UNCHANGED job BY <2>1 DEF RolledBack, r
  <2>6. \A k \in Kicks : k \notin {run[w].kick, run[w].next} => queue'[k] = queue[k]
    BY <2>1 DEF RolledBack
  <2>7. run[w].kick \in Kicks /\ queue[run[w].kick] = "held"
    BY <2>2 DEF MessageInv, MessageHeld
  <2>8. run[w].next # run[w].kick
    BY <2>7, ConstantsAssumption DEF MessageInv, Promised
  <2>9. queue'[run[w].kick] = "held" BY <2>1, <2>7, <2>8 DEF RolledBack
  <2> QED BY <2>2, <2>3, <2>4, <2>5, <2>6, <2>9, LeavesMessage
<1> QED BY <1>1, <1>2 DEF RunFault

LEMMA JobMessages ==
    ASSUME TypeInv, MessageInv, NEW t \in Tasks, JobStep(t)
    PROVE  MessageInv'
<1> USE DEF TypeInv
<1>1. \A v \in Workers : run[v].next \in Kicks \cup {NoKick} BY RunParts DEF Run
<1>2. \A u \in Tasks : job[u].next \in Kicks \cup {NoKick} BY DEF TypeOK, Job
<1>3. ASSUME NEW k \in Unused, queue' = [queue EXCEPT ![k] = "promised"],
             job' = [job EXCEPT ![t] = [phase |-> "kick", next |-> k]], UNCHANGED run
      PROVE  MessageInv'
  <2>1. k \in Kicks /\ queue[k] = "unused" BY DEF Unused
  <2>2. \A u \in Tasks : job'[u].next = IF u = t THEN k ELSE job[u].next
    BY <1>3 DEF TypeOK
  <2>3. MessageHeld' BY <1>3, <2>1 DEF MessageInv, MessageHeld, TypeOK
  <2>4. OwnMessage' BY <1>3 DEF MessageInv, OwnMessage
  <2>5. Promised'
    BY <1>1, <1>2, <1>3, <2>1, <2>2, ConstantsAssumption DEF MessageInv, Promised, TypeOK
  <2> QED BY <2>3, <2>4, <2>5 DEF MessageInv
<1>4. ASSUME NEW phase, job' = [job EXCEPT ![t] = [phase |-> phase, next |-> NoKick]],
             \A k \in Kicks : k # job[t].next => queue'[k] = queue[k], UNCHANGED run
      PROVE  MessageInv'
  <2>1. \A u \in Tasks : job'[u].next = IF u = t THEN NoKick ELSE job[u].next
    BY <1>4 DEF TypeOK
  <2>2. \A w \in Workers : run[w].phase # "idle" =>
          run[w].kick \in Kicks /\ queue[run[w].kick] = "held" /\ run[w].kick # job[t].next
    BY ConstantsAssumption DEF MessageInv, MessageHeld, Promised
  <2>3. MessageHeld' BY <1>4, <2>2 DEF MessageHeld
  <2>4. OwnMessage' BY <1>4 DEF MessageInv, OwnMessage
  <2>5. Promised' BY <1>1, <1>2, <1>4, <2>1 DEF MessageInv, Promised
  <2> QED BY <2>3, <2>4, <2>5 DEF MessageInv
<1>5. CASE JobEnds(t) BY <1>4, <1>5 DEF JobEnds
<1>6. CASE JobReports(t) BY <1>3, <1>4, <1>6 DEF JobReports
<1>7. CASE JobKick(t) BY <1>4, <1>7 DEF JobKick, TypeOK
<1>8. CASE JobDies(t) BY <1>4, <1>8 DEF JobDies
<1> QED BY <1>5, <1>6, <1>7, <1>8 DEF JobStep

LEMMA MessageStep ==
    ASSUME TypeInv, MessageInv, [Next]_vars
    PROVE  MessageInv'
<1>1. CASE FlagExpires BY <1>1, FreeMessage DEF FlagExpires, TypeInv
<1>2. CASE UNCHANGED vars BY <1>2, FreeMessage DEF vars, TypeInv
<1> QED BY <1>1, <1>2, RequestMessages, RunMessages, FaultMessages, JobMessages DEF Next

-----------------------------------------------------------------------------
(* The claim.                                                              *)

(* A turn that awaits the client is unclaimed, now and when a request      *)
(* loaded it; and what a stop writes is only ever written from such a row. *)
AwaitsUnclaimed ==
    /\ row.status = "awaiting_client" => row.claim = NoKick
    /\ \A c \in Clients : req[c].phase # "none" =>
          /\ req[c].loaded.status = "awaiting_client" => req[c].loaded.claim = NoKick
          /\ req[c].kind = "stop" => req[c].loaded.status \in {"running", "awaiting_client"}
          /\ req[c].kind = "stop" /\ req[c].phase = "written" =>
                req[c].loaded.status = "awaiting_client"

(* The row a run loaded, or last checkpointed, carries the run's claim.    *)
LoadedClaim ==
    \A w \in Workers : run[w].phase \in {"loop", "store", "model", "end"} =>
        run[w].loaded.claim = run[w].kick

ClaimInv == HolderHasClaim /\ AwaitsUnclaimed /\ LoadedClaim

(* What an UPDATE does to the claim and the status.                        *)
LEMMA FlushClaim ==
    ASSUME row \in Row, NEW r \in Row, NEW turn \in TurnStates
    PROVE  /\ Flush(r, turn).claim = IF turn.status = "running" \/ r.claim = NoKick
                                     THEN row.claim ELSE NoKick
           /\ Flush(r, turn).status = IF turn.status = r.status THEN row.status ELSE turn.status
BY DEF Flush, ApplyTurnState, Row, TurnStates

(* The run that holds the turn is the only one.                            *)
LEMMA SoleHolder ==
    ASSUME MessageInv, HolderHasClaim, NEW v \in Workers, NEW w \in Workers,
           run[v].phase \in Holding, run[w].phase \in Holding
    PROVE  v = w
<1>1. run[v].phase # "idle" /\ run[w].phase # "idle" BY DEF Holding, Working
<1>2. run[v].kick = run[w].kick BY DEF HolderHasClaim
<1> QED BY <1>1, <1>2 DEF MessageInv, OwnMessage

(* Steps that leave the claim alone and give the turn to no other run.     *)
LEMMA SameClaim ==
    ASSUME ClaimInv, row'.claim = row.claim, UNCHANGED req,
           row'.status = "awaiting_client" => row.status = "awaiting_client",
           \A w \in Workers :
              \/ run'[w].phase \notin Holding
              \/ /\ run[w].phase \in Holding
                 /\ run'[w].kick = run[w].kick
                 /\ run'[w].phase \in {"loop", "store", "model", "end"} =>
                       \/ run'[w].loaded.claim = run[w].kick
                       \/ /\ run[w].phase \in {"loop", "store", "model", "end"}
                          /\ run'[w].loaded = run[w].loaded
    PROVE  ClaimInv'
<1>1. HolderHasClaim' BY DEF ClaimInv, HolderHasClaim
<1>2. AwaitsUnclaimed' BY DEF ClaimInv, AwaitsUnclaimed
<1>3. LoadedClaim' BY DEF ClaimInv, LoadedClaim, Holding, Working
<1> QED BY <1>1, <1>2, <1>3 DEF ClaimInv

(* The holder ends its hold: nobody is left to hold the turn.              *)
LEMMA HoldEnds ==
    ASSUME MessageInv, ClaimInv, NEW w \in Workers, run[w].phase \in Holding,
           \A v \in Workers : v # w => run'[v] = run[v],
           run'[w].phase \notin Holding, UNCHANGED req,
           row'.status = "awaiting_client" => row'.claim = NoKick
    PROVE  ClaimInv'
<1>1. \A v \in Workers : run'[v].phase \notin Holding
  BY SoleHolder DEF ClaimInv
<1>2. HolderHasClaim' BY <1>1 DEF HolderHasClaim
<1>3. AwaitsUnclaimed' BY DEF ClaimInv, AwaitsUnclaimed
<1>4. LoadedClaim' BY <1>1 DEF LoadedClaim, Holding, Working
<1> QED BY <1>2, <1>3, <1>4 DEF ClaimInv

LEMMA RequestClaims ==
    ASSUME TypeInv, ClaimInv, NEW c \in Clients, Requests(c)
    PROVE  ClaimInv'
<1> USE DEF TypeInv
<1>0. req[c] \in Request /\ req[c].loaded \in Row BY DEF TypeOK, Request
<1>1. UNCHANGED run
  BY DEF Requests, Begin, AskToStop, Write, Commit, Abort
<1>2. ASSUME UNCHANGED row, AwaitsUnclaimed' PROVE ClaimInv'
  BY <1>1, <1>2 DEF ClaimInv, HolderHasClaim, LoadedClaim
<1>3. ASSUME NEW kind \in Kinds, Begin(c, kind) PROVE ClaimInv'
  <2>1. CASE Accepts(kind, row.status)
    <3> DEFINE r == [NoRequest EXCEPT !.phase = "loaded", !.kind = kind, !.loaded = row,
                                      !.stint = stint]
    <3>1. r.phase = "loaded" /\ r.kind = kind /\ r.loaded = row BY DEF NoRequest
    <3> HIDE DEF r
    <3>2. \A d \in Clients : req'[d] = IF d = c THEN r ELSE req[d]
      BY <1>3, <2>1 DEF Begin, TypeOK, r
    <3>3. kind = "stop" => row.status \in {"running", "awaiting_client"}
      BY <2>1 DEF Accepts
    <3>4. UNCHANGED row BY <1>3 DEF Begin
    <3>5. AwaitsUnclaimed' BY <3>1, <3>2, <3>3, <3>4 DEF ClaimInv, AwaitsUnclaimed
    <3> QED BY <1>2, <3>4, <3>5
  <2>2. CASE ~Accepts(kind, row.status)
    BY <1>2, <1>3, <2>2 DEF Begin, ClaimInv, AwaitsUnclaimed
  <2> QED BY <2>1, <2>2
<1>4. CASE AskToStop(c) \/ Abort(c)
  <2>1. \A d \in Clients : req'[d].phase # "none" => req'[d] = req[d]
    BY <1>4 DEF AskToStop, Abort, NoRequest, TypeOK
  <2>2. UNCHANGED row BY <1>4 DEF AskToStop, Abort
  <2> QED BY <1>2, <2>1, <2>2 DEF ClaimInv, AwaitsUnclaimed
<1>5. CASE Write(c)
  <2>1. PICK d \in IF req[c].kind = "resolve" THEN Resolutions(req[c].loaded) ELSE {NoDecisions} :
          \E k \in IF req[c].kind = "stop" THEN {NoKick} ELSE Unused :
             req' = [req EXCEPT ![c] = [@ EXCEPT !.phase = "written", !.answers = d, !.kick = k]]
    BY <1>5, Zenon DEF Write
  <2>2. /\ \A e \in Clients : e # c => req'[e] = req[e]
        /\ req'[c].kind = req[c].kind /\ req'[c].loaded = req[c].loaded
    BY <1>0, <2>1 DEF TypeOK, Request
  <2>3. /\ req[c].phase = "loaded" /\ UNCHANGED row
        /\ ~(req[c].kind = "stop" /\ req[c].loaded.status = "running")
    BY <1>5 DEF Write
  <2>4. AwaitsUnclaimed' BY <2>2, <2>3 DEF ClaimInv, AwaitsUnclaimed
  <2> QED BY <1>2, <2>3, <2>4
<1>6. CASE Commit(c)
  <2>1. row' = Flush(req[c].loaded, Saved(req[c])) /\ req[c].phase = "written"
    BY <1>6 DEF Commit
  <2>2. Saved(req[c]) \in TurnStates BY <1>0, SavedType
  <2>3. Saved(req[c]).status = IF req[c].kind = "stop" THEN "paused" ELSE "running"
    BY <1>0 DEF Saved, TurnState, Request, Kinds
  <2>4. req[c].kind = "stop" => req[c].loaded.claim = NoKick
    BY <2>1 DEF ClaimInv, AwaitsUnclaimed
  <2>5. /\ row'.claim = row.claim
        /\ row'.status = "awaiting_client" => row.status = "awaiting_client"
    BY <1>0, <2>1, <2>2, <2>3, <2>4, FlushClaim DEF TypeOK
  <2>6. \A d \in Clients : req'[d].phase # "none" => req'[d] = req[d]
    BY <1>6 DEF Commit, NoRequest, TypeOK
  <2>7. AwaitsUnclaimed' BY <2>5, <2>6 DEF ClaimInv, AwaitsUnclaimed
  <2> QED BY <1>1, <2>5, <2>7 DEF ClaimInv, HolderHasClaim, LoadedClaim
<1> QED BY <1>3, <1>4, <1>5, <1>6 DEF Requests

LEMMA RunClaims ==
    ASSUME TypeInv, MessageInv, ClaimInv, NEW w \in Workers, RunStep(w)
    PROVE  ClaimInv'
<1> USE DEF TypeInv
<1>0. run[w] \in Run /\ run[w].loaded \in Row /\ row \in Row BY RunParts DEF TypeOK
<1>1. \A r : Becomes(w, r) => run'[w] = r /\ \A v \in Workers : v # w => run'[v] = run[v]
  BY DEF Becomes, TypeOK
<1>2. NoRun.phase \notin Holding BY DEF NoRun, Holding, Working
<1>3. ASSUME run'[w].phase \notin Holding, \A v \in Workers : v # w => run'[v] = run[v],
             UNCHANGED req, row'.claim = row.claim,
             row'.status = "awaiting_client" => row.status = "awaiting_client"
      PROVE  ClaimInv'
  BY <1>3, SameClaim DEF Holding, Working
<1>4. ASSUME NEW k \in Kicks, Deliver(w, k) PROVE ClaimInv'
  <2>1. run'[w].phase = "waiting" /\ \A v \in Workers : v # w => run'[v] = run[v]
    BY <1>4 DEF Deliver, NoRun, Becomes, TypeOK
  <2>2. UNCHANGED <<row, req>> BY <1>4 DEF Deliver
  <2> QED BY <1>3, <2>1, <2>2 DEF Holding, Working
<1>5. CASE Claim(w)
  <2>1. row'.claim = run[w].kick /\ row'.status = "running"
    BY <1>0, <1>5 DEF Claim, Claimable, Row
  <2>2. run[w].phase = "waiting" /\ UNCHANGED req BY <1>5 DEF Claim
  <2>3. run'[w].kick = run[w].kick /\ run'[w].phase = "claimed"
    BY <1>0, <1>1, <1>5 DEF Claim, Run
  <2>4. ASSUME NEW v \in Workers, v # w, run[v].phase \in Holding PROVE FALSE
    <3>1. run[v].phase # "idle" BY <2>4 DEF Holding, Working
    <3>2. run[v].kick \in Kicks BY <3>1 DEF MessageInv, MessageHeld
    <3>3. row.claim = run[v].kick BY <2>4 DEF ClaimInv, HolderHasClaim
    <3>4. run[v].kick = run[w].kick
      BY <1>5, <3>2, <3>3, ConstantsAssumption DEF Claim, Claimable
    <3> QED BY <2>2, <2>4, <3>1, <3>4 DEF MessageInv, OwnMessage
  <2>5. \A v \in Workers : v # w => run'[v] = run[v] BY <1>1, <1>5 DEF Claim
  <2>6. HolderHasClaim' BY <2>1, <2>3, <2>4, <2>5 DEF HolderHasClaim
  <2>7. AwaitsUnclaimed' BY <2>1, <2>2 DEF ClaimInv, AwaitsUnclaimed
  <2>8. LoadedClaim' BY <2>3, <2>5 DEF ClaimInv, LoadedClaim
  <2> QED BY <2>6, <2>7, <2>8 DEF ClaimInv
<1>6. CASE GiveUp(w) \/ RelayKick(w)
  BY <1>1, <1>2, <1>3, <1>6 DEF GiveUp, RelayKick, Over
<1>7. CASE Load(w)
  <2>1. run[w].phase \in Holding /\ UNCHANGED <<row, req>>
    BY <1>7 DEF Load, Holding, Working
  <2>2. row.claim = run[w].kick BY <2>1 DEF ClaimInv, HolderHasClaim
  <2>3. CASE row.status = "running"
    <3>1. run'[w].kick = run[w].kick /\ run'[w].loaded = row
      BY <1>7, <2>3, LoadReads
    <3>2. \A v \in Workers : v # w => run'[v] = run[v] BY <1>1, <1>7 DEF Load
    <3> QED BY <2>1, <2>2, <3>1, <3>2, SameClaim DEF Holding, Working
  <2>4. CASE row.status # "running"
    <3>1. run'[w].phase = "clear" BY <1>0, <1>1, <1>7, <2>4 DEF Load, Run
    <3>2. \A v \in Workers : v # w => run'[v] = run[v] BY <1>1, <1>7 DEF Load
    <3> QED BY <1>3, <2>1, <3>1, <3>2 DEF Holding, Working
  <2> QED BY <2>3, <2>4
<1>8. CASE LoopStep(w)
  <2>1. /\ run[w].phase \in {"loop", "store", "model"}
        /\ \A v \in Workers : v # w => run'[v] = run[v]
        /\ UNCHANGED req
        /\ ~Checkpoint(w) => UNCHANGED row
    BY <1>8, LoopFrame
  <2>2. run'[w].kick = run[w].kick BY <1>8, LoopKeeps
  <2>3. CASE Checkpoint(w)
    <3>1. CheckpointState(run[w]) \in TurnStates /\ CheckpointState(run[w]).status = "running"
      <4>1. TurnState("running") \in TurnStates BY Defaults DEF Statuses
      <4> QED BY <1>0, <4>1 DEF CheckpointState, TurnState, TurnStates, Run
    <3>2. row' = Flush(run[w].loaded, CheckpointState(run[w])) BY <2>3 DEF Checkpoint
    <3>3. row'.claim = row.claim /\ row'.status \in {row.status, "running"}
      BY <1>0, <3>1, <3>2, FlushClaim
    <3>4. run'[w].loaded = row' BY <1>0, <2>3 DEF Checkpoint, Run, Becomes, TypeOK
    <3>5. row.claim = run[w].kick
      BY <2>1 DEF ClaimInv, HolderHasClaim, Holding, Working
    <3> QED BY <2>1, <2>2, <3>3, <3>4, <3>5, SameClaim DEF Holding, Working
  <2>4. CASE ~Checkpoint(w)
    <3>1. run'[w].loaded = run[w].loaded BY <1>8, <2>4, LoopLoaded
    <3> QED BY <2>1, <2>2, <2>4, <3>1, SameClaim DEF Holding, Working
  <2> QED BY <2>3, <2>4
<1>9. CASE EndTurn(w)
  <2>1. run[w].phase = "end" /\ row' = Flush(run[w].loaded, EndState(run[w])) /\ UNCHANGED req
    BY <1>9 DEF EndTurn
  <2>2. EndState(run[w]) \in TurnStates
    BY <1>0, Defaults DEF EndState, STATUS_AFTER, TurnStates, Run, Statuses, Reasons
  <2>3. EndState(run[w]).status # "running" BY DEF EndState, STATUS_AFTER
  <2>4. run[w].kick \in Kicks BY <2>1 DEF MessageInv, MessageHeld
  <2>5. run[w].loaded.claim = run[w].kick BY <2>1 DEF ClaimInv, LoadedClaim
  <2>6. row'.claim = NoKick
    BY <1>0, <2>1, <2>2, <2>3, <2>4, <2>5, FlushClaim, ConstantsAssumption
  <2>7. run'[w].phase = "clear" /\ \A v \in Workers : v # w => run'[v] = run[v]
    BY <1>9 DEF EndTurn, NoRun, Becomes, TypeOK
  <2> QED BY <2>1, <2>6, <2>7, HoldEnds DEF Holding, Working
<1>10. CASE ClearFlag(w)
  <2>1. CASE run[w].result = "completed"
    BY <1>0, <1>1, <1>3, <1>10, <2>1 DEF ClearFlag, Run, Holding, Working
  <2>2. CASE run[w].result # "completed"
    BY <1>1, <1>2, <1>3, <1>10, <2>2 DEF ClearFlag, Over
  <2> QED BY <2>1, <2>2
<1>11. CASE Relay(w)
  <2>1. ASSUME NEW k, OpensReport, Becomes(w, [run[w] EXCEPT !.phase = "kick", !.next = k])
        PROVE  ClaimInv'
    <3>1. row'.claim = row.claim /\ row'.status = "running" BY <1>0, <2>1 DEF OpensReport, Row
    <3>2. run'[w].phase = "kick" BY <1>0, <2>1 DEF Run, Becomes, TypeOK
    <3> QED BY <1>1, <1>3, <1>11, <2>1, <3>1, <3>2 DEF Relay, Holding, Working
  <2>2. ASSUME Over(w), UNCHANGED row PROVE ClaimInv'
    BY <1>1, <1>2, <1>3, <1>11, <2>2 DEF Relay, Over
  <2> QED BY <1>11, <2>1, <2>2 DEF Relay
<1>12. CASE MarkPaused(w)
  <2>1. run[w].phase \in Holding /\ UNCHANGED req /\ Becomes(w, NoRun)
    BY <1>12 DEF MarkPaused, Holding, Over
  <2>2. row'.status = "awaiting_client" => row'.claim = NoKick
    <3>1. CASE row.status = "running"
      <4>1. PausedTurn(run[w].reason) \in TurnStates /\ PausedTurn(run[w].reason).status = "paused"
        BY <1>0 DEF PausedTurn, TurnStates, Row, Run, Statuses
      <4> QED BY <1>0, <1>12, <3>1, <4>1, FlushClaim DEF MarkPaused
    <3>2. CASE row.status # "running"
      BY <1>12, <3>2 DEF MarkPaused, ClaimInv, AwaitsUnclaimed
    <3> QED BY <3>1, <3>2
  <2> QED BY <1>1, <1>2, <2>1, <2>2, HoldEnds
<1>13. CASE MarkFailed(w)
  <2>1. run[w].phase \in Holding /\ UNCHANGED req /\ Becomes(w, NoRun)
    BY <1>13 DEF MarkFailed, Holding, Over
  <2>2. TurnState("failed") \in TurnStates /\ TurnState("failed").status = "failed"
    BY Defaults DEF Statuses, TurnState
  <2>3. row'.status = "awaiting_client" => row'.claim = NoKick
    BY <1>0, <1>13, <2>2, FlushClaim DEF MarkFailed
  <2> QED BY <1>1, <1>2, <2>1, <2>3, HoldEnds
<1> QED BY <1>4, <1>5, <1>6, <1>7, <1>8, <1>9, <1>10, <1>11, <1>12, <1>13 DEF RunStep

(* A worker shut down, or an error, while it waits to claim the turn would *)
(* mark a turn that another run holds: "stray" is left out.                *)
LEMMA FaultClaims ==
    ASSUME TypeInv, MessageInv, ClaimInv, "stray" \notin Mishaps, NEW w \in Workers, RunFault(w)
    PROVE  ClaimInv'
<1> USE DEF TypeInv
<1>0. UNCHANGED <<row, req>> BY DEF RunFault, Crash, Cancel, Fail, Unreachable, RolledBack
<1>1. \A r : Becomes(w, r) => run'[w] = r /\ \A v \in Workers : v # w => run'[v] = run[v]
  BY DEF Becomes, TypeOK
<1>2. CASE Crash(w)
  BY <1>0, <1>1, <1>2, SameClaim DEF Crash, NoRun, Holding, Working
<1>3. CASE Cancel(w) \/ Fail(w) \/ Unreachable(w)
  <2>1. run[w].phase \in Working
    BY <1>3 DEF Cancel, Fail, Unreachable, Mishap, Working
  <2>2. PICK phase \in {"pausing", "failing"}, reason \in Reasons \cup {"none"} : RolledBack(w, phase, reason)
    BY <1>3 DEF Cancel, Fail, Unreachable, Reasons
  <2>3. /\ run'[w].phase = phase /\ run'[w].kick = run[w].kick
        /\ \A v \in Workers : v # w => run'[v] = run[v]
    BY <2>2 DEF RolledBack, NoRun, Becomes, TypeOK
  <2> QED BY <1>0, <2>1, <2>3, SameClaim DEF Holding, Working
<1> QED BY <1>2, <1>3 DEF RunFault

LEMMA OtherClaims ==
    ASSUME TypeInv, ClaimInv,
           FlagExpires \/ (\E t \in Tasks : JobStep(t)) \/ UNCHANGED vars
    PROVE  ClaimInv'
<1>1. UNCHANGED <<run, req>>
  BY DEF FlagExpires, JobStep, JobEnds, JobReports, JobKick, JobDies, vars
<1>2. row'.claim = row.claim /\ (row'.status = "awaiting_client" => row.status = "awaiting_client")
  <2>1. CASE OpensReport BY <2>1 DEF OpensReport, TypeInv, TypeOK, Row
  <2>2. CASE UNCHANGED row BY <2>2
  <2> QED BY <2>1, <2>2 DEF FlagExpires, JobStep, JobEnds, JobReports, JobKick, JobDies, vars
<1> QED BY <1>1, <1>2, SameClaim DEF Holding, Working

-----------------------------------------------------------------------------

TurnInv == TypeInv /\ MessageInv /\ ClaimInv

LEMMA InitTurn == Init => TurnInv
<1> SUFFICES ASSUME Init PROVE TurnInv OBVIOUS
<1>1. TypeInv BY InitType, Defaults DEF TypeInv, IterationsLeft, Init, NoRun
<1>2. \A w \in Workers : run[w].phase = "idle" /\ run[w].next = NoKick BY DEF Init, NoRun
<1>3. MessageInv
  BY <1>2 DEF Init, MessageInv, MessageHeld, OwnMessage, Promised
<1>4. ClaimInv
  BY <1>2 DEF Init, ClaimInv, HolderHasClaim, AwaitsUnclaimed, LoadedClaim, Holding, Working,
              IdleRow, NoRequest
<1> QED BY <1>1, <1>3, <1>4 DEF TurnInv

LEMMA TurnStep ==
    ASSUME "stray" \notin Mishaps, TurnInv, [Next]_vars
    PROVE  TurnInv'
<1> USE DEF TurnInv
<1>1. TypeInv' BY StepType, StepsLeft DEF TypeInv
<1>2. MessageInv' BY MessageStep
<1>3. ClaimInv' BY RequestClaims, RunClaims, FaultClaims, OtherClaims DEF Next
<1> QED BY <1>1, <1>2, <1>3

(* Whatever requests overlap and whichever workers die, are shut down or   *)
(* fail while they hold the turn, the run that holds it is the one that    *)
(* run_claim names (claim_turn, apply_turn_state), and it is the only one  *)
(* (tasks.py: "so no second run takes it").                                *)
THEOREM HolderClaims ==
    ASSUME "stray" \notin Mishaps
    PROVE  Spec => [](HolderHasClaim /\ OneRunPerTurn)
<1>1. TurnInv => HolderHasClaim /\ OneRunPerTurn
  BY SoleHolder DEF TurnInv, ClaimInv, OneRunPerTurn, Holding
<1> QED BY <1>1, InitTurn, TurnStep, PTL DEF Spec

(* The claim alone, as claim_turn's UPDATE relies on it: no write of       *)
(* another request or run, made from a row it loaded earlier, takes the    *)
(* claim from the run that holds the turn.                                 *)
THEOREM HolderIsNamed ==
    ASSUME "stray" \notin Mishaps
    PROVE  Spec => []HolderHasClaim
<1>1. TurnInv => HolderHasClaim BY DEF TurnInv, ClaimInv
<1> QED BY <1>1, InitTurn, TurnStep, PTL DEF Spec

-----------------------------------------------------------------------------
(* Approved calls.                                                         *)

(* What the steps of the loop leave of a run.                              *)
LEMMA ReturnsParts ==
    ASSUME NEW r \in Run, NEW x
    PROVE  LET e == Returns(r, x)
           IN  /\ e.phase = "end" /\ e.result = x
               /\ e.pending = r.pending /\ e.completed = r.completed
               /\ e.decisions = r.decisions /\ e.loaded = r.loaded /\ e.batch = r.batch
BY DEF Returns, Run

LEMMA ReturnsLeave ==
    ASSUME TypeOK, NEW w \in Workers,
           AskAgain(w) \/ Stop(w) \/ Limit(w) \/ CutOff(w) \/ Unavailable(w)
    PROVE  /\ \E x : run'[w] = Returns(run[w], x)
           /\ UNCHANGED <<row, history, ran, made, flag, stint, unheard, mishaps>>
<1>1. \E x : Becomes(w, Returns(run[w], x))
  BY DEF AskAgain, Stop, Limit, CutOff, Unavailable
<1>2. \E x : run'[w] = Returns(run[w], x) BY <1>1 DEF Becomes, TypeOK
<1> QED BY <1>2 DEF AskAgain, Stop, Limit, CutOff, Unavailable

LEMMA SettleLeaves ==
    ASSUME TypeOK, NEW w \in Workers, Settle(w)
    PROVE  LET r == run[w]
               s == run'[w]
           IN  /\ s.phase = "loop" /\ s.loaded = r.loaded /\ s.result = r.result
               /\ s.pending = {} /\ s.completed = {} /\ s.decisions = NoDecisions
               /\ s.batch = [r.batch EXCEPT !.results = Gated(r.pending) \cup Beside(r.completed)]
<1>1. ASSUME NEW r \in Run, r.phase = "loop", NEW x
      PROVE  LET s == [r EXCEPT !.pending = {}, !.completed = {}, !.decisions = NoDecisions,
                                !.batch.results = x]
             IN  /\ s.phase = "loop" /\ s.loaded = r.loaded /\ s.result = r.result
                 /\ s.pending = {} /\ s.completed = {} /\ s.decisions = NoDecisions
                 /\ s.batch = [r.batch EXCEPT !.results = x]
  BY <1>1 DEF Run
<1>2. run[w] \in Run /\ run[w].phase = "loop" BY RunParts DEF Settle
<1>3. run'[w] = [run[w] EXCEPT !.pending = {}, !.completed = {}, !.decisions = NoDecisions,
                    !.batch.results = Gated(run[w].pending) \cup Beside(run[w].completed)]
  BY DEF Settle, Becomes, TypeOK
<1> QED BY <1>1, <1>2, <1>3

LEMMA ProceedLeaves ==
    ASSUME TypeOK, NEW w \in Workers, Proceed(w)
    PROVE  LET r == run[w]
               s == run'[w]
           IN  /\ s.phase = IF r.batch.results # {} \/ r.batch.said THEN "store" ELSE "model"
               /\ s.loaded = r.loaded /\ s.result = r.result /\ s.pending = r.pending
               /\ s.completed = r.completed /\ s.decisions = r.decisions /\ s.batch = r.batch
<1>1. ASSUME NEW r \in Run, NEW x
      PROVE  LET s == [r EXCEPT !.phase = x]
             IN  /\ s.phase = x /\ s.loaded = r.loaded /\ s.result = r.result /\ s.pending = r.pending
                 /\ s.completed = r.completed /\ s.decisions = r.decisions /\ s.batch = r.batch
  BY DEF Run
<1>2. run[w] \in Run BY RunParts
<1>3. run'[w] = [run[w] EXCEPT !.phase = IF run[w].batch.results # {} \/ run[w].batch.said
                                         THEN "store" ELSE "model"]
  BY DEF Proceed, Becomes, TypeOK
<1> QED BY <1>1, <1>2, <1>3

LEMMA CheckpointLeaves ==
    ASSUME TypeOK, NEW w \in Workers, Checkpoint(w)
    PROVE  LET r == run[w]
               s == run'[w]
           IN  /\ s.phase = "model" /\ s.loaded = row' /\ s.result = r.result
               /\ s.pending = r.pending /\ s.completed = r.completed
               /\ s.decisions = r.decisions /\ s.batch = NoBatch
<1>1. ASSUME NEW r \in Run, NEW x
      PROVE  LET s == [r EXCEPT !.phase = "model", !.batch = NoBatch, !.loaded = x]
             IN  /\ s.phase = "model" /\ s.loaded = x /\ s.result = r.result
                 /\ s.pending = r.pending /\ s.completed = r.completed
                 /\ s.decisions = r.decisions /\ s.batch = NoBatch
  BY DEF Run
<1>2. run[w] \in Run BY RunParts
<1>3. run'[w] = [run[w] EXCEPT !.phase = "model", !.batch = NoBatch, !.loaded = row']
  BY DEF Checkpoint, Becomes, TypeOK
<1> QED BY <1>1, <1>2, <1>3

(* The three ways a reply goes on.                                         *)
Answered(r, s) ==
    /\ s.phase = "end" /\ s.result = "completed" /\ s.pending = r.pending
    /\ s.completed = r.completed /\ s.batch = [r.batch EXCEPT !.said = TRUE]

RoundDone(r, s) ==
    /\ s.phase = "loop" /\ s.result = r.result /\ s.pending = r.pending
    /\ s.completed = r.completed /\ s.batch = [r.batch EXCEPT !.said = TRUE]

CallsLeft(s, b, asks, beside) ==
    /\ s.phase = "end" /\ s.result = "awaiting_client" /\ s.pending = asks
    /\ s.completed = beside
    /\ s.batch = [b EXCEPT !.calls = Gated(asks) \cup Beside(beside)]

LEMMA ReplyLeaves ==
    ASSUME TypeOK, IterationsLeft, NEW w \in Workers, Reply(w)
    PROVE  /\ run[w].phase = "model" /\ run'[w].loaded = run[w].loaded
           /\ \/ Answered(run[w], run'[w]) /\ UNCHANGED made
              \/ RoundDone(run[w], run'[w]) /\ UNCHANGED made
              \/ \E asks \in (SUBSET (Asks \ made)) \ {{}} : \E beside \in {{}, asks} :
                    /\ CallsLeft(run'[w], run[w].batch, asks, beside)
                    /\ made' = made \cup asks
<1> DEFINE r == [run[w] EXCEPT !.iterations = run[w].iterations + 1]
<1>0. run[w] \in Run BY RunParts
<1>1. run[w].phase = "model" BY <1>0 DEF Reply, Run
<1>2. r \in Run BY <1>1, CountedType
<1>3. /\ r.pending = run[w].pending /\ r.completed = run[w].completed
      /\ r.batch = run[w].batch /\ r.result = run[w].result
  BY <1>0 DEF Run
<1>4. \/ Becomes(w, [Returns(r, "completed") EXCEPT !.batch.said = TRUE]) /\ UNCHANGED made
      \/ Becomes(w, [r EXCEPT !.phase = "loop", !.batch.said = TRUE]) /\ UNCHANGED made
      \/ \E asks \in (SUBSET (Asks \ made)) \ {{}} : \E beside \in {{}, asks} :
            /\ Becomes(w, [Returns(r, "awaiting_client") EXCEPT
                          !.pending = asks, !.completed = beside,
                          !.batch.calls = Gated(asks) \cup Beside(beside)])
            /\ made' = made \cup asks
  BY DEF Reply
<1>5. run'[w].loaded = run[w].loaded BY ReplyBecomes
<1> HIDE DEF r
<1>6. \A x : Becomes(w, x) => run'[w] = x BY DEF Becomes, TypeOK
<1>7. Answered(r, [Returns(r, "completed") EXCEPT !.batch.said = TRUE])
  BY <1>2 DEF Answered, Returns, Run
<1>8. RoundDone(r, [r EXCEPT !.phase = "loop", !.batch.said = TRUE])
  BY <1>2 DEF RoundDone, Run
<1>9. ASSUME NEW asks, NEW beside
      PROVE  CallsLeft([Returns(r, "awaiting_client") EXCEPT
                          !.pending = asks, !.completed = beside,
                          !.batch.calls = Gated(asks) \cup Beside(beside)], r.batch, asks, beside)
  <2>1. ASSUME NEW x
        PROVE  LET s == [Returns(r, "awaiting_client") EXCEPT
                           !.pending = asks, !.completed = beside, !.batch.calls = x]
               IN  /\ s.phase = "end" /\ s.result = "awaiting_client" /\ s.pending = asks
                   /\ s.completed = beside /\ s.batch = [r.batch EXCEPT !.calls = x]
    BY <1>2 DEF Returns, Run
  <2> QED BY <2>1 DEF CallsLeft
<1>10. \/ Answered(r, run'[w]) /\ UNCHANGED made
       \/ RoundDone(r, run'[w]) /\ UNCHANGED made
       \/ \E asks \in (SUBSET (Asks \ made)) \ {{}} : \E beside \in {{}, asks} :
             CallsLeft(run'[w], r.batch, asks, beside) /\ made' = made \cup asks
  <2>1. ASSUME NEW asks \in (SUBSET (Asks \ made)) \ {{}}, NEW beside \in {{}, asks},
               Becomes(w, [Returns(r, "awaiting_client") EXCEPT
                          !.pending = asks, !.completed = beside,
                          !.batch.calls = Gated(asks) \cup Beside(beside)]),
               made' = made \cup asks
        PROVE  CallsLeft(run'[w], r.batch, asks, beside) /\ made' = made \cup asks
    <3> DEFINE e == [Returns(r, "awaiting_client") EXCEPT
                       !.pending = asks, !.completed = beside,
                       !.batch.calls = Gated(asks) \cup Beside(beside)]
    <3>1. CallsLeft(e, r.batch, asks, beside) BY <1>9
    <3>2. Becomes(w, e) BY <2>1
    <3> HIDE DEF e
    <3> QED BY <1>6, <2>1, <3>1, <3>2
  <2> QED BY <1>4, <1>6, <1>7, <1>8, <2>1
<1> QED BY <1>1, <1>3, <1>5, <1>10 DEF Answered, RoundDone, CallsLeft

(* A run that has read the row, in a transaction that is not over.         *)
Loaded == {"loop", "store", "model", "end"}

(* A call still to be executed, by the run that has read the turn or, when *)
(* none has, by the next one that will.                                    *)
Due(a) ==
    \/ \E w \in Workers : run[w].phase \in Loaded /\ a \in run[w].pending
    \/ a \in row.pending /\ \A w \in Workers : run[w].phase \notin Loaded

(* What makes ApprovedOnce inductive: a call still due has been executed   *)
(* at most once for every run that was cut off; calls pending on the row   *)
(* were pending when the holder loaded it, so the end of its turn brings   *)
(* back none that it settled; and new calls were never executed.           *)
PendingLoaded ==
    \A w \in Workers : run[w].phase \in Loaded => row.pending \subseteq run[w].loaded.pending

PendingMade ==
    /\ row.pending \subseteq made
    /\ \A w \in Workers : run[w].pending \subseteq made
    /\ \A a \in Asks : ran[a] > 0 => a \in made

RunsCounted ==
    \A a \in Asks : ran[a] <= 1 + mishaps /\ (Due(a) => ran[a] <= mishaps)

OnceInv == PendingLoaded /\ PendingMade /\ RunsCounted

LEMMA FlushPending ==
    ASSUME row \in Row, NEW r \in Row, NEW turn \in TurnStates
    PROVE  Flush(r, turn).pending = IF turn.pending = r.pending THEN row.pending ELSE turn.pending
BY DEF Flush, ApplyTurnState, Row, TurnStates

(* Steps that touch no run that has read the row.                          *)
LEMMA OnceFrame ==
    ASSUME OnceInv, row'.pending \subseteq row.pending, UNCHANGED <<ran, made, mishaps>>,
           \A w \in Workers :
              \/ run'[w] = run[w]
              \/ /\ run[w].phase \notin Loaded /\ run'[w].phase \notin Loaded
                 /\ run'[w].pending \subseteq made
    PROVE  OnceInv'
<1>1. PendingLoaded' BY DEF OnceInv, PendingLoaded
<1>2. PendingMade' BY DEF OnceInv, PendingMade
<1>3. \A a : Due(a)' => Due(a) BY DEF Due
<1>4. RunsCounted' BY <1>3 DEF OnceInv, RunsCounted
<1> QED BY <1>1, <1>2, <1>4 DEF OnceInv

(* A run that is cut off, or a request: the count of mishaps pays for it.  *)
LEMMA OnceMishap ==
    ASSUME TypeOK, OnceInv, UNCHANGED <<row, ran, made>>, mishaps' = mishaps + 1,
           \A w \in Workers : run'[w] = run[w] \/ (run'[w].phase \notin Loaded /\ run'[w].pending = {})
    PROVE  OnceInv'
<1>1. PendingLoaded' BY DEF OnceInv, PendingLoaded
<1>2. PendingMade' BY DEF OnceInv, PendingMade
<1>3. RunsCounted' BY ConstantsAssumption DEF OnceInv, RunsCounted, TypeOK, MaxRuns
<1> QED BY <1>1, <1>2, <1>3 DEF OnceInv

LEMMA RequestsOnce ==
    ASSUME TypeInv, OnceInv, NEW c \in Clients, Requests(c)
    PROVE  OnceInv'
<1> USE DEF TypeInv
<1>0. req[c] \in Request /\ req[c].loaded \in Row BY DEF TypeOK, Request
<1>1. CASE (\E kind \in Kinds : Begin(c, kind)) \/ AskToStop(c) \/ Write(c)
  <2>1. UNCHANGED <<row, run, ran, made, mishaps>> BY <1>1 DEF Begin, AskToStop, Write
  <2> QED BY <2>1, OnceFrame
<1>2. CASE Commit(c)
  <2>1. row' = Flush(req[c].loaded, Saved(req[c])) BY <1>2 DEF Commit
  <2>2. Saved(req[c]) \in TurnStates BY <1>0, SavedType
  <2>3. Saved(req[c]).pending \in {{}, req[c].loaded.pending}
    BY <1>0 DEF Saved, TurnState, Request, Kinds
  <2>4. row'.pending \subseteq row.pending
    BY <1>0, <2>1, <2>2, <2>3, FlushPending DEF TypeOK
  <2> QED BY <1>2, <2>4, OnceFrame DEF Commit
<1>3. CASE Abort(c)
  BY <1>3, OnceMishap DEF Abort, Mishap
<1> QED BY <1>1, <1>2, <1>3 DEF Requests

LEMMA LoopOnce ==
    ASSUME TurnInv, OnceInv, NEW w \in Workers, LoopStep(w)
    PROVE  OnceInv'
<1> USE DEF TurnInv, TypeInv
<1>0. run[w] \in Run /\ run[w].loaded \in Row /\ row \in Row BY RunParts DEF TypeOK
<1>1. run[w].phase \in Loaded /\ \A v \in Workers : v # w => run'[v] = run[v]
  BY LoopFrame DEF Loaded
<1>2. \A v \in Workers : v # w => run[v].phase \notin Loaded
  BY <1>1, SoleHolder DEF ClaimInv, Loaded, Holding, Working
<1>3. \A a : Due(a) <=> a \in run[w].pending BY <1>1, <1>2 DEF Due
<1>4. ASSUME run'[w].phase \in Loaded, run'[w].loaded = run[w].loaded, UNCHANGED row,
             run'[w].pending = run[w].pending, UNCHANGED <<ran, made, mishaps>>
      PROVE  OnceInv'
  <2>1. \A a : Due(a)' <=> a \in run'[w].pending BY <1>1, <1>2, <1>4 DEF Due
  <2>2. PendingLoaded' BY <1>1, <1>4 DEF OnceInv, PendingLoaded
  <2>3. PendingMade' BY <1>1, <1>4 DEF OnceInv, PendingMade
  <2>4. RunsCounted' BY <1>3, <1>4, <2>1 DEF OnceInv, RunsCounted
  <2> QED BY <2>2, <2>3, <2>4 DEF OnceInv
<1>5. CASE AskAgain(w) \/ Stop(w) \/ Limit(w) \/ CutOff(w) \/ Unavailable(w)
  <2>1. /\ \E x : run'[w] = Returns(run[w], x)
        /\ UNCHANGED <<row, history, ran, made, flag, stint, unheard, mishaps>>
    BY <1>5, ReturnsLeave
  <2>2. PICK x : run'[w] = Returns(run[w], x) BY <2>1
  <2>3. /\ run'[w].phase = "end" /\ run'[w].pending = run[w].pending
        /\ run'[w].loaded = run[w].loaded
    BY <1>0, <2>2, ReturnsParts
  <2> QED BY <1>4, <2>1, <2>3 DEF Loaded
<1>6. CASE Proceed(w)
  <2>1. UNCHANGED <<row, ran, made, mishaps>> BY <1>6 DEF Proceed
  <2> QED BY <1>4, <1>6, <2>1, ProceedLeaves DEF Loaded
<1>7. CASE Settle(w)
  <2>1. run'[w].phase = "loop" /\ run'[w].pending = {} /\ run'[w].loaded = run[w].loaded
    BY <1>7, SettleLeaves
  <2>2. UNCHANGED <<row, made, mishaps>> BY <1>7 DEF Settle
  <2>3. \A a : ~Due(a)' BY <1>1, <1>2, <2>1 DEF Due, Loaded
  <2>4. \A a \in Asks : ran'[a] = ran[a] \/ (a \in run[w].pending /\ ran'[a] = ran[a] + 1)
    BY <1>7 DEF Settle
  <2>5. \A a \in Asks : ran[a] \in Nat /\ mishaps \in Nat BY DEF TypeOK
  <2>6. PendingLoaded' BY <1>1, <2>1, <2>2 DEF OnceInv, PendingLoaded
  <2>7. PendingMade'
    <3>1. \A a \in Asks : ran'[a] > 0 => a \in made
      BY <2>4, <2>5 DEF OnceInv, PendingMade
    <3> QED BY <1>1, <2>1, <2>2, <3>1 DEF OnceInv, PendingMade
  <2>8. RunsCounted' BY <1>3, <2>2, <2>3, <2>4, <2>5 DEF OnceInv, RunsCounted
  <2> QED BY <2>6, <2>7, <2>8 DEF OnceInv
<1>8. CASE Checkpoint(w)
  <2>1. /\ run'[w].phase = "model" /\ run'[w].pending = run[w].pending /\ run'[w].loaded = row'
    BY <1>8, CheckpointLeaves
  <2>2. UNCHANGED <<ran, made, mishaps>> BY <1>8 DEF Checkpoint
  <2>3. CheckpointState(run[w]) \in TurnStates /\ CheckpointState(run[w]).pending = {}
    <3>1. TurnState("running") \in TurnStates BY Defaults DEF Statuses
    <3> QED BY <1>0, <3>1 DEF CheckpointState, TurnState, TurnStates, Run
  <2>4. row' = Flush(run[w].loaded, CheckpointState(run[w])) BY <1>8 DEF Checkpoint
  <2>5. row'.pending \subseteq row.pending BY <1>0, <2>3, <2>4, FlushPending
  <2>6. \A a : Due(a)' <=> a \in run'[w].pending BY <1>1, <1>2, <2>1 DEF Due, Loaded
  <2>7. PendingLoaded' BY <1>1, <1>2, <2>1 DEF PendingLoaded
  <2>8. PendingMade' BY <1>1, <2>1, <2>2, <2>5 DEF OnceInv, PendingMade
  <2>9. RunsCounted' BY <1>3, <2>1, <2>2, <2>6 DEF OnceInv, RunsCounted
  <2> QED BY <2>7, <2>8, <2>9 DEF OnceInv
<1>9. CASE Reply(w)
  <2>1. run'[w].loaded = run[w].loaded BY <1>9, ReplyLeaves
  <2>2. UNCHANGED <<row, ran, mishaps>> BY <1>9 DEF Reply
  <2>3. CASE (Answered(run[w], run'[w]) \/ RoundDone(run[w], run'[w])) /\ UNCHANGED made
    BY <1>4, <2>1, <2>2, <2>3 DEF Answered, RoundDone, Loaded
  <2>4. ASSUME NEW asks \in SUBSET (Asks \ made), run'[w].phase = "end",
               run'[w].pending = asks, made' = made \cup asks
        PROVE  OnceInv'
    <3>1. \A a : Due(a)' <=> a \in asks BY <1>1, <1>2, <2>4 DEF Due, Loaded
    <3>2. \A a \in asks : ~(ran[a] > 0) BY <2>4 DEF OnceInv, PendingMade
    <3>3. \A a \in Asks : ran[a] \in Nat /\ mishaps \in Nat BY DEF TypeOK
    <3>4. PendingLoaded' BY <1>1, <2>1, <2>2 DEF OnceInv, PendingLoaded
    <3>5. PendingMade' BY <1>1, <2>2, <2>4 DEF OnceInv, PendingMade
    <3>6. RunsCounted' BY <2>2, <3>1, <3>2, <3>3 DEF OnceInv, RunsCounted
    <3> QED BY <3>4, <3>5, <3>6 DEF OnceInv
  <2> QED BY <1>9, <2>3, <2>4, ReplyLeaves DEF CallsLeft
<1> QED BY <1>5, <1>6, <1>7, <1>8, <1>9 DEF LoopStep

LEMMA RunsOnce ==
    ASSUME TurnInv, OnceInv, NEW w \in Workers, RunStep(w)
    PROVE  OnceInv'
<1> USE DEF TurnInv, TypeInv
<1>0. run[w] \in Run /\ run[w].loaded \in Row /\ row \in Row BY RunParts DEF TypeOK
<1>1. \A r : Becomes(w, r) => run'[w] = r /\ \A v \in Workers : v # w => run'[v] = run[v]
  BY DEF Becomes, TypeOK
<1>2. ASSUME run[w].phase \notin Loaded, run'[w].phase \notin Loaded,
             \A v \in Workers : v # w => run'[v] = run[v],
             run'[w].pending \subseteq made, row'.pending \subseteq row.pending,
             UNCHANGED <<ran, made, mishaps>>
      PROVE  OnceInv'
  BY <1>2, OnceFrame
<1>3. NoRun.phase \notin Loaded /\ NoRun.pending = {} BY DEF NoRun, Loaded
<1>4. run[w].pending \subseteq made BY DEF OnceInv, PendingMade
<1>5. ASSUME NEW k \in Kicks, Deliver(w, k) PROVE OnceInv'
  <2> DEFINE r == [NoRun EXCEPT !.phase = "waiting", !.kick = k]
  <2>1. r.phase = "waiting" /\ r.pending = {} BY DEF NoRun
  <2>2. Becomes(w, r) BY <1>5 DEF Deliver
  <2> HIDE DEF r
  <2>3. run[w].phase = "idle" /\ UNCHANGED <<row, ran, made, mishaps>> BY <1>5 DEF Deliver
  <2> QED BY <1>1, <1>2, <2>1, <2>2, <2>3 DEF Loaded
<1>6. CASE Claim(w)
  <2>1. run'[w].phase = "claimed" /\ run'[w].pending = run[w].pending
    BY <1>0, <1>1, <1>6 DEF Claim, Run
  <2>2. run[w].phase = "waiting" /\ UNCHANGED <<ran, made, mishaps>> BY <1>6 DEF Claim
  <2>3. row'.pending = row.pending BY <1>0, <1>6 DEF Claim, Row
  <2>4. \A v \in Workers : v # w => run'[v] = run[v] BY <1>1, <1>6 DEF Claim
  <2> QED BY <1>2, <1>4, <2>1, <2>2, <2>3, <2>4 DEF Loaded
<1>7. CASE GiveUp(w) \/ RelayKick(w)
  <2>1. Becomes(w, NoRun) /\ UNCHANGED <<row, ran, made, mishaps>> /\ run[w].phase \in {"waiting", "kick"}
    BY <1>7 DEF GiveUp, RelayKick, Over
  <2> QED BY <1>1, <1>2, <1>3, <2>1 DEF Loaded
<1>8. CASE Load(w)
  <2>1. /\ run[w].phase = "claimed" /\ UNCHANGED <<row, ran, made, mishaps>>
        /\ \A v \in Workers : v # w => run'[v] = run[v]
    BY <1>1, <1>8 DEF Load
  <2>2. CASE row.status = "running"
    <3>1. run'[w].phase = "loop" /\ run'[w].pending = row.pending /\ run'[w].loaded = row
      BY <1>8, <2>2, LoadReads
    <3>2. \A v \in Workers : v # w => run[v].phase \notin Loaded
      BY <2>1, SoleHolder DEF ClaimInv, Loaded, Holding, Working
    <3>3. run[w].phase \notin Loaded BY <2>1 DEF Loaded
    <3>4. \A a : Due(a)' => Due(a) BY <2>1, <3>1, <3>2, <3>3 DEF Due, Loaded
    <3>5. PendingLoaded' BY <2>1, <3>1 DEF OnceInv, PendingLoaded
    <3>6. PendingMade' BY <2>1, <3>1 DEF OnceInv, PendingMade
    <3>7. RunsCounted' BY <2>1, <3>4 DEF OnceInv, RunsCounted
    <3> QED BY <3>5, <3>6, <3>7 DEF OnceInv
  <2>3. CASE row.status # "running"
    <3>1. run'[w].phase = "clear" /\ run'[w].pending = run[w].pending
      BY <1>0, <1>1, <1>8, <2>3 DEF Load, Run
    <3> QED BY <1>2, <1>4, <2>1, <3>1 DEF Loaded
  <2> QED BY <2>2, <2>3
<1>9. CASE LoopStep(w) BY <1>9, LoopOnce
<1>10. CASE EndTurn(w)
  <2>1. /\ run[w].phase = "end" /\ row' = Flush(run[w].loaded, EndState(run[w]))
        /\ UNCHANGED <<ran, made, mishaps>>
    BY <1>10 DEF EndTurn
  <2>2. EndState(run[w]) \in TurnStates /\ EndState(run[w]).pending = run[w].pending
    BY <1>0, Defaults DEF EndState, STATUS_AFTER, TurnStates, Run, Statuses, Reasons
  <2>3. row.pending \subseteq run[w].loaded.pending
    BY <2>1 DEF OnceInv, PendingLoaded, Loaded
  <2>4. row'.pending \subseteq run[w].pending BY <1>0, <2>1, <2>2, <2>3, FlushPending
  <2>5. /\ run'[w].phase = "clear" /\ run'[w].pending = {}
        /\ \A v \in Workers : v # w => run'[v] = run[v]
    BY <1>10 DEF EndTurn, NoRun, Becomes, TypeOK
  <2>6. \A v \in Workers : v # w => run[v].phase \notin Loaded
    BY <2>1, SoleHolder DEF ClaimInv, Loaded, Holding, Working
  <2>7. \A a : Due(a)' => Due(a) BY <2>1, <2>4, <2>5, <2>6 DEF Due, Loaded
  <2>8. PendingLoaded' BY <2>5, <2>6 DEF PendingLoaded, Loaded
  <2>9. PendingMade' BY <1>4, <2>1, <2>4, <2>5 DEF OnceInv, PendingMade
  <2>10. RunsCounted' BY <2>1, <2>7 DEF OnceInv, RunsCounted
  <2> QED BY <2>8, <2>9, <2>10 DEF OnceInv
<1>11. CASE ClearFlag(w)
  <2>1. run[w].phase = "clear" /\ UNCHANGED <<row, ran, made, mishaps>> BY <1>11 DEF ClearFlag
  <2>2. \/ Becomes(w, [run[w] EXCEPT !.phase = "relay"]) \/ Becomes(w, NoRun)
    BY <1>11 DEF ClearFlag, Over
  <2>3. [run[w] EXCEPT !.phase = "relay"].phase = "relay"
        /\ [run[w] EXCEPT !.phase = "relay"].pending = run[w].pending
    BY <1>0 DEF Run
  <2>4. run'[w].phase \notin Loaded /\ run'[w].pending \subseteq made
    BY <1>1, <1>3, <1>4, <2>2, <2>3 DEF Loaded
  <2>5. \A v \in Workers : v # w => run'[v] = run[v] BY <1>1, <2>2
  <2> QED BY <1>2, <2>1, <2>4, <2>5 DEF Loaded
<1>12. CASE Relay(w)
  <2>1. run[w].phase = "relay" /\ UNCHANGED <<ran, made, mishaps>> BY <1>12 DEF Relay
  <2>2. ASSUME NEW k, OpensReport, Becomes(w, [run[w] EXCEPT !.phase = "kick", !.next = k])
        PROVE  OnceInv'
    <3>1. row'.pending = row.pending BY <1>0, <2>2 DEF OpensReport, Row
    <3>2. run'[w].phase = "kick" /\ run'[w].pending = run[w].pending
      BY <1>0, <2>2 DEF Run, Becomes, TypeOK
    <3>3. \A v \in Workers : v # w => run'[v] = run[v] BY <1>1, <2>2
    <3> QED BY <1>2, <1>4, <2>1, <3>1, <3>2, <3>3 DEF Loaded
  <2>3. ASSUME Over(w), UNCHANGED row PROVE OnceInv'
    BY <1>1, <1>2, <1>3, <2>1, <2>3 DEF Over, Loaded
  <2> QED BY <1>12, <2>2, <2>3 DEF Relay
<1>13. CASE MarkPaused(w) \/ MarkFailed(w)
  <2>1. Becomes(w, NoRun) /\ UNCHANGED <<ran, made, mishaps>> /\ run[w].phase \in {"pausing", "failing"}
    BY <1>13 DEF MarkPaused, MarkFailed, Over
  <2>2. row'.pending \subseteq row.pending
    <3>1. PausedTurn(run[w].reason) \in TurnStates /\ PausedTurn(run[w].reason).pending = row.pending
      BY <1>0 DEF PausedTurn, TurnStates, Row, Run, Statuses
    <3>2. TurnState("failed") \in TurnStates /\ TurnState("failed").pending = {}
      BY Defaults DEF Statuses, TurnState
    <3>3. row' \in {row, Flush(row, PausedTurn(run[w].reason)), Flush(row, TurnState("failed"))}
      BY <1>13 DEF MarkPaused, MarkFailed
    <3> QED BY <1>0, <3>1, <3>2, <3>3, FlushPending
  <2> QED BY <1>1, <1>2, <1>3, <2>1, <2>2 DEF Loaded
<1> QED BY <1>5, <1>6, <1>7, <1>8, <1>9, <1>10, <1>11, <1>12, <1>13 DEF RunStep

LEMMA OnceStep ==
    ASSUME TurnInv, OnceInv, [Next]_vars
    PROVE  OnceInv'
<1> USE DEF TurnInv, TypeInv
<1>1. ASSUME NEW w \in Workers, RunFault(w) PROVE OnceInv'
  <2>1. UNCHANGED <<row, ran, made>> /\ mishaps' = mishaps + 1
    BY <1>1 DEF RunFault, Crash, Cancel, Fail, Unreachable, RolledBack, Mishap
  <2>2. \/ Becomes(w, NoRun)
        \/ \E phase \in {"pausing", "failing"}, reason \in Reasons \cup {"none"} :
              Becomes(w, [NoRun EXCEPT !.phase = phase, !.kick = run[w].kick, !.reason = reason])
    BY <1>1 DEF RunFault, Crash, Cancel, Fail, Unreachable, RolledBack, Reasons
  <2>3. NoRun.phase \notin Loaded /\ NoRun.pending = {} BY DEF NoRun, Loaded
  <2>4. ASSUME NEW p \in {"pausing", "failing"}, NEW k, NEW x
        PROVE  LET r == [NoRun EXCEPT !.phase = p, !.kick = k, !.reason = x]
               IN  r.phase \notin Loaded /\ r.pending = {}
    BY DEF NoRun, Loaded
  <2>5. \A r : Becomes(w, r) => run'[w] = r /\ \A v \in Workers : v # w => run'[v] = run[v]
    BY DEF Becomes, TypeOK
  <2>6. run'[w].phase \notin Loaded /\ run'[w].pending = {}
    <3>1. CASE Becomes(w, NoRun) BY <2>3, <2>5, <3>1
    <3>2. ASSUME NEW p \in {"pausing", "failing"}, NEW x,
                 Becomes(w, [NoRun EXCEPT !.phase = p, !.kick = run[w].kick, !.reason = x])
          PROVE  run'[w].phase \notin Loaded /\ run'[w].pending = {}
      <4> DEFINE r == [NoRun EXCEPT !.phase = p, !.kick = run[w].kick, !.reason = x]
      <4>1. r.phase \notin Loaded /\ r.pending = {} BY <2>4
      <4>2. run'[w] = r BY <2>5, <3>2
      <4> QED BY <4>1, <4>2
    <3> QED BY <2>2, <3>1, <3>2
  <2>7. \A v \in Workers : v # w => run'[v] = run[v] BY <2>2, <2>5
  <2> QED BY <2>1, <2>6, <2>7, OnceMishap
<1>2. CASE FlagExpires BY <1>2, OnceMishap DEF FlagExpires, Mishap
<1>3. ASSUME NEW t \in Tasks, JobStep(t) PROVE OnceInv'
  <2>1. CASE JobDies(t) BY <2>1, OnceMishap DEF JobDies, Mishap
  <2>2. CASE ~JobDies(t)
    <3>1. row'.pending = row.pending
      BY <1>3, <2>2 DEF JobStep, JobEnds, JobReports, JobKick, OpensReport, TypeOK, Row
    <3>2. UNCHANGED <<run, ran, made, mishaps>>
      BY <1>3, <2>2 DEF JobStep, JobEnds, JobReports, JobKick
    <3> QED BY <3>1, <3>2, OnceFrame
  <2> QED BY <2>1, <2>2
<1>4. CASE UNCHANGED vars BY <1>4, OnceFrame DEF vars
<1> QED BY <1>1, <1>2, <1>3, <1>4, RequestsOnce, RunsOnce DEF Next

(* However many apps answer, resume and stop at once, and however often    *)
(* the queue gives a message out again, a call the user approved is        *)
(* executed once, and once more at most for every run that was cut off.    *)
THEOREM ApprovedRunsOnce ==
    ASSUME "stray" \notin Mishaps
    PROVE  Spec => []ApprovedOnce
<1>1. Init => OnceInv
  BY ConstantsAssumption
  DEF Init, OnceInv, PendingLoaded, PendingMade, RunsCounted, Loaded, NoRun, IdleRow, Due
<1>2. TurnInv /\ OnceInv => ApprovedOnce BY DEF OnceInv, RunsCounted, ApprovedOnce
<1> QED BY <1>1, <1>2, InitTurn, TurnStep, OnceStep, PTL DEF Spec

-----------------------------------------------------------------------------
(* News.                                                                   *)

LEMMA FlushStatus ==
    ASSUME row \in Row, NEW r \in Row, NEW turn \in TurnStates,
           turn.status # "idle", Flush(r, turn).status = "idle"
    PROVE  row.status = "idle"
BY FlushClaim

(* Steps that end neither a job nor a turn that ends idle.                 *)
LEMMA NewsFrame ==
    ASSUME NewsNotStranded, row'.status = "idle" => row.status = "idle",
           reported \subseteq reported', UNCHANGED job,
           \A w \in Workers :
              \/ run'[w] = run[w]
              \/ run[w].phase \notin {"clear", "relay"}
              \/ run[w].result # "completed"
    PROVE  NewsNotStranded'
<1>1. News' \subseteq News BY DEF News
<1>2. AboutToReport => AboutToReport' BY DEF AboutToReport
<1> QED BY <1>1, <1>2 DEF NewsNotStranded

LEMMA RunsKeepNews ==
    ASSUME TypeInv, NewsNotStranded, NEW w \in Workers, RunStep(w)
    PROVE  NewsNotStranded'
<1> USE DEF TypeInv
<1>0. run[w] \in Run /\ run[w].loaded \in Row /\ row \in Row BY RunParts DEF TypeOK
<1>1. \A r : Becomes(w, r) => run'[w] = r /\ \A v \in Workers : v # w => run'[v] = run[v]
  BY DEF Becomes, TypeOK
<1>2. ASSUME run[w].phase \notin {"clear", "relay"}, \A v \in Workers : v # w => run'[v] = run[v],
             row'.status = "idle" => row.status = "idle", reported \subseteq reported', UNCHANGED job
      PROVE  NewsNotStranded'
  BY <1>2, NewsFrame
<1>3. CASE (\E k \in Kicks : Deliver(w, k)) \/ GiveUp(w) \/ Load(w) \/ RelayKick(w)
  BY <1>1, <1>2, <1>3 DEF Deliver, GiveUp, Load, RelayKick, Over
<1>4. CASE Claim(w)
  <2>1. row'.status = row.status BY <1>0, <1>4 DEF Claim, Row
  <2> QED BY <1>1, <1>2, <1>4, <2>1 DEF Claim
<1>5. CASE LoopStep(w)
  <2>1. /\ run[w].phase \in {"loop", "store", "model"}
        /\ \A v \in Workers : v # w => run'[v] = run[v]
        /\ UNCHANGED job
        /\ ~Checkpoint(w) => UNCHANGED row
    BY <1>5, LoopFrame
  <2>2. reported \subseteq reported'
    BY <1>5 DEF LoopStep, Settle, AskAgain, Stop, Limit, Proceed, Checkpoint, Reply, CutOff,
                Unavailable
  <2>3. ASSUME Checkpoint(w), row'.status = "idle" PROVE row.status = "idle"
    <3>1. CheckpointState(run[w]) \in TurnStates /\ CheckpointState(run[w]).status = "running"
      <4>1. TurnState("running") \in TurnStates BY Defaults DEF Statuses
      <4> QED BY <1>0, <4>1 DEF CheckpointState, TurnState, TurnStates, Run
    <3>2. row' = Flush(run[w].loaded, CheckpointState(run[w])) BY <2>3 DEF Checkpoint
    <3> QED BY <1>0, <2>3, <3>1, <3>2, FlushStatus
  <2> QED BY <1>2, <2>1, <2>2, <2>3
<1>6. CASE EndTurn(w)
  <2>1. /\ run[w].phase = "end" /\ row' = Flush(run[w].loaded, EndState(run[w]))
        /\ UNCHANGED job /\ reported' = reported \cup run[w].drained
    BY <1>6 DEF EndTurn
  <2>2. /\ run'[w].phase = "clear" /\ run'[w].result = run[w].result
        /\ \A v \in Workers : v # w => run'[v] = run[v]
    BY <1>6 DEF EndTurn, NoRun, Becomes, TypeOK
  <2>3. CASE run[w].result = "completed"
    BY <2>2, <2>3 DEF NewsNotStranded, AboutToReport
  <2>4. CASE run[w].result # "completed"
    <3>1. EndState(run[w]) \in TurnStates
      BY <1>0, Defaults DEF EndState, STATUS_AFTER, TurnStates, Run, Statuses, Reasons
    <3>2. EndState(run[w]).status # "idle" BY <2>4 DEF EndState, STATUS_AFTER
    <3> QED BY <1>0, <1>2, <2>1, <2>2, <3>1, <3>2, FlushStatus
  <2> QED BY <2>3, <2>4
<1>7. CASE ClearFlag(w)
  <2>1. UNCHANGED <<row, reported, job>> /\ run[w].phase = "clear" BY <1>7 DEF ClearFlag
  <2>2. CASE run[w].result = "completed"
    <3>1. run'[w].phase = "relay" /\ run'[w].result = "completed"
      BY <1>0, <1>1, <1>7, <2>2 DEF ClearFlag, Run
    <3> QED BY <3>1 DEF NewsNotStranded, AboutToReport
  <2>3. CASE run[w].result # "completed"
    BY <1>1, <1>7, <2>1, <2>3, NewsFrame DEF ClearFlag, Over
  <2> QED BY <2>2, <2>3
<1>8. CASE Relay(w)
  <2>1. UNCHANGED <<reported, job>> BY <1>8 DEF Relay
  <2>2. CASE OpensReport
    <3>1. row'.status = "running" BY <1>0, <2>2 DEF OpensReport, Row
    <3> QED BY <3>1 DEF NewsNotStranded
  <2>3. CASE NothingToReport /\ UNCHANGED row
    BY <2>1, <2>3 DEF NothingToReport, NewsNotStranded, News
  <2> QED BY <1>8, <2>2, <2>3 DEF Relay
<1>9. CASE MarkPaused(w) \/ MarkFailed(w)
  <2>1. /\ Becomes(w, NoRun) /\ UNCHANGED <<reported, job>>
        /\ run[w].phase \in {"pausing", "failing"}
    BY <1>9 DEF MarkPaused, MarkFailed, Over
  <2>2. row'.status = "idle" => row.status = "idle"
    <3>1. PausedTurn(run[w].reason) \in TurnStates /\ PausedTurn(run[w].reason).status = "paused"
      BY <1>0 DEF PausedTurn, TurnStates, Row, Run, Statuses
    <3>2. TurnState("failed") \in TurnStates /\ TurnState("failed").status = "failed"
      BY Defaults DEF Statuses, TurnState
    <3>3. row' \in {row, Flush(row, PausedTurn(run[w].reason)), Flush(row, TurnState("failed"))}
      BY <1>9 DEF MarkPaused, MarkFailed
    <3> QED BY <1>0, <3>1, <3>2, <3>3, FlushStatus
  <2> QED BY <1>1, <1>2, <2>1, <2>2
<1> QED BY <1>3, <1>4, <1>5, <1>6, <1>7, <1>8, <1>9 DEF RunStep

(* A worker or a job that dies between the commit of an end and its report *)
(* takes the report with it: these mishaps are left out, and "stray", which*)
(* would do the same.                                                      *)
SpareReports == Mishaps \cap {"crash", "stray", "jobdeath"} = {}

LEMMA NewsStep ==
    ASSUME SpareReports, TypeInv, NewsNotStranded, [Next]_vars
    PROVE  NewsNotStranded'
<1> USE DEF TypeInv
<1>1. ASSUME NEW c \in Clients, Requests(c) PROVE NewsNotStranded'
  <2>0. req[c] \in Request /\ req[c].loaded \in Row /\ row \in Row BY DEF TypeOK, Request
  <2>1. UNCHANGED <<run, job, reported>> BY <1>1 DEF Requests, Begin, AskToStop, Write, Commit, Abort
  <2>2. CASE Commit(c)
    <3>1. row' = Flush(req[c].loaded, Saved(req[c])) BY <2>2 DEF Commit
    <3>2. Saved(req[c]) \in TurnStates BY <2>0, SavedType
    <3>3. Saved(req[c]).status # "idle" BY <2>0 DEF Saved, TurnState, Request, Kinds
    <3> QED BY <2>0, <2>1, <3>1, <3>2, <3>3, FlushStatus, NewsFrame
  <2>3. CASE ~Commit(c)
    <3>1. UNCHANGED row BY <1>1, <2>3 DEF Requests, Begin, AskToStop, Write, Abort
    <3> QED BY <2>1, <3>1, NewsFrame
  <2> QED BY <2>2, <2>3
<1>2. ASSUME NEW w \in Workers, RunFault(w) PROVE NewsNotStranded'
  <2>1. run[w].phase \in Working /\ UNCHANGED <<row, reported, job>>
    BY <1>2 DEF RunFault, Crash, Cancel, Fail, Unreachable, RolledBack, Mishap, SpareReports, Working
  <2>2. \E r : Becomes(w, r) BY <1>2 DEF RunFault, Crash, Cancel, Fail, Unreachable, RolledBack
  <2>3. \A v \in Workers : v # w => run'[v] = run[v] BY <2>2 DEF Becomes, TypeOK
  <2> QED BY <2>1, <2>3, NewsFrame DEF Working
<1>3. CASE FlagExpires \/ UNCHANGED vars
  <2>1. UNCHANGED <<row, run, job, reported>> BY <1>3 DEF FlagExpires, vars
  <2> QED BY <2>1, NewsFrame
<1>4. ASSUME NEW t \in Tasks, JobStep(t) PROVE NewsNotStranded'
  <2>1. UNCHANGED <<run, reported>> BY <1>4 DEF JobStep, JobEnds, JobReports, JobKick, JobDies
  <2>2. CASE JobEnds(t)
    <3>1. job'[t].phase = "ended" BY <2>2 DEF JobEnds, TypeOK
    <3> QED BY <3>1 DEF NewsNotStranded, AboutToReport
  <2>3. ASSUME job[t].phase \in {"ended", "kick"}, row' = row, NothingToReport \/ job[t].phase = "kick",
               job' = [job EXCEPT ![t] = [phase |-> "over", next |-> NoKick]]
        PROVE  NewsNotStranded'
    <3>1. \A u \in Tasks : u # t => job'[u] = job[u] BY <2>3 DEF TypeOK
    <3>2. job'[t].phase = "over" BY <2>3 DEF TypeOK
    <3>3. News' = News BY <2>1, <2>3, <3>1, <3>2 DEF News
    <3>4. CASE NothingToReport BY <2>3, <3>3, <3>4 DEF NothingToReport, NewsNotStranded
    <3>5. CASE job[t].phase = "kick"
      <4>1. AboutToReport => AboutToReport' BY <2>1, <3>1, <3>5 DEF AboutToReport
      <4> QED BY <2>3, <3>3, <4>1 DEF NewsNotStranded
    <3> QED BY <2>3, <3>4, <3>5
  <2>4. CASE JobReports(t)
    <3>1. CASE OpensReport
      <4>1. row'.status = "running" BY <3>1 DEF OpensReport, TypeOK, Row
      <4> QED BY <4>1 DEF NewsNotStranded
    <3> QED BY <2>3, <2>4, <3>1 DEF JobReports
  <2>5. CASE JobKick(t) BY <2>3, <2>5 DEF JobKick
  <2>6. ~JobDies(t) BY DEF JobDies, Mishap, SpareReports
  <2> QED BY <1>4, <2>2, <2>4, <2>5, <2>6 DEF JobStep
<1> QED BY <1>1, <1>2, <1>3, <1>4, RunsKeepNews DEF Next

(* A job that ends and a turn that ends idle both look for the other:      *)
(* whichever comes second finds the news (relay.start), so it never waits  *)
(* in an idle conversation with nobody about to tell it.                   *)
THEOREM NewsIsTold ==
    ASSUME SpareReports
    PROVE  Spec => []NewsNotStranded
<1>1. Init => NewsNotStranded BY DEF Init, NewsNotStranded, News
<1>2. Init => TypeInv BY InitTurn DEF TurnInv
<1>3. TypeInv /\ [Next]_vars => TypeInv' BY StepType, StepsLeft DEF TypeInv
<1> QED BY <1>1, <1>2, <1>3, NewsStep, PTL DEF Spec
=============================================================================
