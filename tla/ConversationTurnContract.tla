---------------------- MODULE ConversationTurnContract ----------------------
(* What a conversation keeps to when one app uses it, for any number of    *)
(* workers, queue messages and calls: above all that it implements         *)
(* TurnContract.                                                           *)
(*                                                                         *)
(* The steps behind it: a request that will write the row works from the   *)
(* row as it stands, and so does the run that holds the turn, for each of  *)
(* them keeps the other out; and a call is in one place at a time -- on    *)
(* the row, in the hands of the holder, or closed in the history.          *)
EXTENDS ConversationTurnClaims, TurnKeepsContract

(* One app, which asks one thing at a time; no background task to report;  *)
(* and no worker shut down while its message waits for another's turn.     *)
Alone ==
    /\ \A c, d \in Clients : c = d
    /\ Tasks = {}
    /\ "stray" \notin Mishaps

-----------------------------------------------------------------------------
(* The row that is read is the row that is written.                        *)

(* A request that will write the row: not a stop of a running turn, which  *)
(* only sets the flag.                                                     *)
Acts(c) == req[c].phase # "none" /\ ~(req[c].kind = "stop" /\ req[c].loaded.status = "running")

RequestFresh ==
    \A c \in Clients : Acts(c) =>
        /\ req[c].loaded = row
        /\ row.status # "running"
        /\ Accepts(req[c].kind, row.status)

LoadedFresh == \A w \in Workers : run[w].phase \in Loaded => run[w].loaded = row

RestInv == RequestFresh /\ ClaimOnlyWhileRunning /\ LoadedFresh

(* An UPDATE of the row as it stands writes all of it.                     *)
LEMMA FlushFresh ==
    ASSUME row \in Row, NEW turn \in TurnStates
    PROVE  Flush(row, turn) = ApplyTurnState(row, turn)
BY DEF Flush, ApplyTurnState, Row, TurnStates

(* The turn of a run that holds it is running.                             *)
LEMMA HoldersRun ==
    ASSUME TurnInv, ClaimOnlyWhileRunning, NEW w \in Workers, run[w].phase \in Holding
    PROVE  row.status = "running" /\ row.claim = run[w].kick /\ row.claim \in Kicks
<1>1. run[w].phase # "idle" BY DEF Holding, Working
<1>2. run[w].kick \in Kicks BY <1>1 DEF TurnInv, MessageInv, MessageHeld
<1>3. row.claim = run[w].kick BY DEF TurnInv, ClaimInv, HolderHasClaim
<1> QED BY <1>2, <1>3, ConstantsAssumption DEF ClaimOnlyWhileRunning

(* While the turn runs no request is about to write the row; while it does *)
(* not, no run is.                                                         *)
LEMMA NoneActs ==
    ASSUME RequestFresh, row.status = "running"
    PROVE  \A c \in Clients : ~Acts(c)
BY DEF RequestFresh

(* What the first two steps of a request leave of it.                      *)
LEMMA BeginLeaves ==
    ASSUME TypeOK, NEW c \in Clients, NEW kind \in Kinds, Begin(c, kind)
    PROVE  /\ \A e \in Clients : e # c => req'[e] = req[e]
           /\ \/ Accepts(kind, row.status) /\ req'[c].phase = "loaded" /\ req'[c].kind = kind
                 /\ req'[c].loaded = row /\ req'[c].stint = stint
              \/ UNCHANGED req
           /\ req[c].phase = "none" /\ UNCHANGED <<row, history, queue, run, made, stint>>
<1> DEFINE r == [NoRequest EXCEPT !.phase = "loaded", !.kind = kind, !.loaded = row,
                                  !.stint = stint]
<1>1. r.phase = "loaded" /\ r.kind = kind /\ r.loaded = row /\ r.stint = stint BY DEF NoRequest
<1>2. req' = IF Accepts(kind, row.status) THEN [req EXCEPT ![c] = r] ELSE req BY DEF Begin
<1> HIDE DEF r
<1>3. req[c].phase = "none" /\ UNCHANGED <<row, history, queue, run, made, stint>> BY DEF Begin
<1> QED BY <1>1, <1>2, <1>3 DEF TypeOK

LEMMA WriteLeaves ==
    ASSUME TypeOK, NEW c \in Clients, Write(c)
    PROVE  /\ \A e \in Clients : e # c => req'[e] = req[e]
           /\ req'[c].kind = req[c].kind /\ req'[c].loaded = req[c].loaded
           /\ req'[c].stint = req[c].stint
           /\ req[c].kind = "resolve" => req'[c].answers \in Resolutions(req[c].loaded)
           /\ req[c].kind # "stop" =>
                 req'[c].kick \in Kicks /\ queue'[req'[c].kick] = "queued"
           /\ \A m \in Kicks : queue[m] = "queued" => queue'[m] = "queued"
           /\ req[c].phase = "loaded" /\ UNCHANGED <<row, history, run, made, flag, stint>>
<1>1. req[c] \in Request BY DEF TypeOK
<1>2. PICK d \in IF req[c].kind = "resolve" THEN Resolutions(req[c].loaded) ELSE {NoDecisions} :
      \E k \in IF req[c].kind = "stop" THEN {NoKick} ELSE Unused :
        /\ req' = [req EXCEPT ![c] = [@ EXCEPT !.phase = "written", !.answers = d, !.kick = k]]
        /\ queue' = [m \in Kicks |-> IF m = k THEN "queued" ELSE queue[m]]
  BY Zenon DEF Write
<1>3. PICK k \in IF req[c].kind = "stop" THEN {NoKick} ELSE Unused :
        /\ req' = [req EXCEPT ![c] = [@ EXCEPT !.phase = "written", !.answers = d, !.kick = k]]
        /\ queue' = [m \in Kicks |-> IF m = k THEN "queued" ELSE queue[m]]
  BY <1>2, Zenon
<1>4. /\ \A e \in Clients : e # c => req'[e] = req[e]
      /\ req'[c].kind = req[c].kind /\ req'[c].loaded = req[c].loaded
      /\ req'[c].stint = req[c].stint /\ req'[c].answers = d /\ req'[c].kick = k
  BY <1>1, <1>3 DEF TypeOK, Request
<1>5. req[c].kind = "resolve" => d \in Resolutions(req[c].loaded) BY <1>2
<1>6. req[c].kind # "stop" => k \in Kicks BY <1>3 DEF Unused
<1>7. /\ \A m \in Kicks : queue[m] = "queued" => queue'[m] = "queued"
      /\ k \in Kicks => queue'[k] = "queued"
  BY <1>3
<1>8. req[c].phase = "loaded" /\ UNCHANGED <<row, history, run, made, flag, stint>> BY DEF Write
<1> QED BY <1>4, <1>5, <1>6, <1>7, <1>8

(* What the commit of a request finds and writes.                          *)
LEMMA CommitWrites ==
    ASSUME Alone, TurnInv, RestInv, NEW c \in Clients, Commit(c)
    PROVE  /\ req[c] \in Request /\ row \in Row
           /\ req[c].phase = "written" /\ req[c].loaded = row
           /\ row.status # "running" /\ row.claim = NoKick
           /\ Accepts(req[c].kind, row.status)
           /\ Saved(req[c]) \in TurnStates
           /\ row' = ApplyTurnState(row, Saved(req[c]))
           /\ \A w \in Workers : run[w].phase \notin Holding
           /\ \A d \in Clients : req'[d].phase = "none"
           /\ UNCHANGED <<run, queue, flag, made, ran>>
<1> USE DEF TurnInv, TypeInv
<1>1. req[c] \in Request /\ row \in Row BY DEF TypeOK
<1>2. req[c].phase = "written" BY DEF Commit
<1>3. Acts(c) BY <1>2 DEF Acts, ClaimInv, AwaitsUnclaimed
<1>4. /\ req[c].loaded = row /\ row.status # "running"
      /\ Accepts(req[c].kind, row.status)
  BY <1>3 DEF RestInv, RequestFresh
<1>5. row.claim = NoKick BY <1>4 DEF RestInv, ClaimOnlyWhileRunning
<1>6. Saved(req[c]) \in TurnStates BY <1>1, SavedType
<1>7. row' = ApplyTurnState(row, Saved(req[c])) BY <1>1, <1>4, <1>6, FlushFresh DEF Commit
<1>8. \A w \in Workers : run[w].phase \notin Holding BY <1>4, HoldersRun DEF RestInv
<1>9. \A d \in Clients : req'[d].phase = "none"
  BY DEF Commit, Alone, TypeOK, NoRequest
<1>10. UNCHANGED <<run, queue, flag, made, ran>> BY DEF Commit
<1> QED BY <1>1, <1>2, <1>4, <1>5, <1>6, <1>7, <1>8, <1>9, <1>10

LEMMA SavedStatus ==
    ASSUME NEW r \in Request
    PROVE  Saved(r).status = IF r.kind = "stop" THEN "paused" ELSE "running"
BY DEF Saved, TurnState, Request, Kinds

(* What the holder of the turn writes.                                     *)
LEMMA CheckpointWrites ==
    ASSUME TurnInv, RestInv, NEW w \in Workers, Checkpoint(w)
    PROVE  /\ CheckpointState(run[w]) \in TurnStates
           /\ row' = ApplyTurnState(row, CheckpointState(run[w]))
           /\ CheckpointState(run[w]).status = "running"
           /\ CheckpointState(run[w]).pending = {} /\ CheckpointState(run[w]).completed = {}
           /\ CheckpointState(run[w]).pause = "none"
<1>1. run[w] \in Run /\ row \in Row BY RunParts DEF TurnInv, TypeInv, TypeOK
<1>2. TurnState("running") \in TurnStates BY Defaults DEF Statuses
<1>3. /\ CheckpointState(run[w]) \in TurnStates /\ CheckpointState(run[w]).status = "running"
      /\ CheckpointState(run[w]).pending = {} /\ CheckpointState(run[w]).completed = {}
      /\ CheckpointState(run[w]).pause = "none"
  BY <1>1, <1>2 DEF CheckpointState, TurnState, TurnStates, Run
<1>4. run[w].loaded = row BY DEF Checkpoint, RestInv, LoadedFresh, Loaded
<1> QED BY <1>1, <1>3, <1>4, FlushFresh DEF Checkpoint

LEMMA EndWrites ==
    ASSUME TurnInv, RestInv, NEW w \in Workers, EndTurn(w)
    PROVE  /\ EndState(run[w]) \in TurnStates
           /\ row' = ApplyTurnState(row, EndState(run[w]))
           /\ EndState(run[w]).status # "running"
<1>1. run[w] \in Run /\ row \in Row BY RunParts DEF TurnInv, TypeInv, TypeOK
<1>2. EndState(run[w]) \in TurnStates
  BY <1>1, Defaults DEF EndState, STATUS_AFTER, TurnStates, Run, Statuses, Reasons
<1>3. EndState(run[w]).status # "running" BY DEF EndState, STATUS_AFTER
<1>4. run[w].loaded = row BY DEF EndTurn, RestInv, LoadedFresh, Loaded
<1> QED BY <1>1, <1>2, <1>3, <1>4, FlushFresh DEF EndTurn

LEMMA MarkWrites ==
    ASSUME TurnInv, RestInv, NEW w \in Workers, MarkPaused(w) \/ MarkFailed(w)
    PROVE  /\ row.status = "running"
           /\ \/ /\ MarkPaused(w) /\ PausedTurn(run[w].reason) \in TurnStates
                 /\ row' = ApplyTurnState(row, PausedTurn(run[w].reason))
              \/ /\ MarkFailed(w) /\ TurnState("failed") \in TurnStates
                 /\ row' = ApplyTurnState(row, TurnState("failed"))
           /\ row'.claim = NoKick /\ row'.status \in {"paused", "failed"}
<1>1. run[w] \in Run /\ row \in Row BY RunParts DEF TurnInv, TypeInv, TypeOK
<1>2. run[w].phase \in Holding BY DEF MarkPaused, MarkFailed, Holding
<1>3. row.status = "running" BY <1>2, HoldersRun DEF RestInv
<1>4. PausedTurn(run[w].reason) \in TurnStates
  BY <1>1 DEF PausedTurn, TurnStates, Row, Run, Statuses
<1>5. TurnState("failed") \in TurnStates BY Defaults DEF Statuses
<1>6. \/ /\ MarkPaused(w) /\ PausedTurn(run[w].reason) \in TurnStates
         /\ row' = ApplyTurnState(row, PausedTurn(run[w].reason))
      \/ /\ MarkFailed(w) /\ TurnState("failed") \in TurnStates
         /\ row' = ApplyTurnState(row, TurnState("failed"))
  BY <1>1, <1>3, <1>4, <1>5, FlushFresh DEF MarkPaused, MarkFailed
<1>7. /\ ApplyTurnState(row, PausedTurn(run[w].reason)).claim = NoKick
      /\ ApplyTurnState(row, TurnState("failed")).claim = NoKick
      /\ ApplyTurnState(row, PausedTurn(run[w].reason)).status = "paused"
      /\ ApplyTurnState(row, TurnState("failed")).status = "failed"
  BY DEF ApplyTurnState, PausedTurn, TurnState
<1> QED BY <1>3, <1>6, <1>7

(* With no task there is no news, and no turn is opened to report any.     *)
LEMMA NoReport ==
    ASSUME Alone
    PROVE  /\ News = {}
           /\ \A w \in Workers : Relay(w) => Over(w) /\ UNCHANGED <<row, stint>>
           /\ \A t \in Tasks : ~JobStep(t)
BY DEF Alone, News, Relay, OpensReport

(* A run that claims the turn finds nobody working on it.                  *)
LEMMA ClaimsFree ==
    ASSUME TurnInv, RestInv, NEW w \in Workers, Claim(w), NEW v \in Workers, v # w
    PROVE  run[v].phase \notin Holding
<1> SUFFICES ASSUME run[v].phase \in Holding PROVE FALSE
  OBVIOUS
<1>1. row.status = "running" /\ row.claim \in {NoKick, run[w].kick} /\ run[w].phase = "waiting"
  BY DEF Claim, Claimable
<1>2. row.claim = run[v].kick /\ row.claim \in Kicks BY HoldersRun DEF RestInv
<1>3. run[v].kick = run[w].kick BY <1>1, <1>2, ConstantsAssumption
<1> QED BY <1>1, <1>3 DEF TurnInv, MessageInv, OwnMessage, Holding, Working

(* A step of a run writes the row of a running turn, which no other run    *)
(* holds, or leaves it alone.                                              *)
LEMMA RunWrites ==
    ASSUME Alone, TurnInv, RestInv, NEW w \in Workers, RunStep(w)
    PROVE  /\ UNCHANGED req /\ (~Reply(w) => UNCHANGED made)
           /\ \A v \in Workers : v # w => run'[v] = run[v]
           /\ \/ UNCHANGED row
              \/ /\ row.status = "running"
                 /\ \A v \in Workers : v # w => run[v].phase \notin Holding
                 /\ Claim(w) \/ Checkpoint(w) \/ EndTurn(w) \/ MarkPaused(w) \/ MarkFailed(w)
<1> USE DEF TurnInv, TypeInv
<1>1. UNCHANGED req /\ (~Reply(w) => UNCHANGED made)
  BY DEF RunStep, Deliver, Claim, GiveUp, Load, LoopStep, Settle, AskAgain, Stop, Limit, Proceed,
         Checkpoint, Reply, CutOff, Unavailable, EndTurn, ClearFlag, Relay, RelayKick, MarkPaused,
         MarkFailed
<1>2. \E r : Becomes(w, r)
  BY DEF RunStep, Deliver, Claim, GiveUp, Load, LoopStep, Settle, AskAgain, Stop, Limit, Proceed,
         Checkpoint, Reply, CutOff, Unavailable, EndTurn, ClearFlag, Relay, RelayKick, MarkPaused,
         MarkFailed, Over
<1>3. \A v \in Workers : v # w => run'[v] = run[v] BY <1>2 DEF Becomes, TypeOK
<1>4. \/ UNCHANGED row
      \/ Claim(w) \/ Checkpoint(w) \/ EndTurn(w) \/ MarkPaused(w) \/ MarkFailed(w)
  <2>1. CASE LoopStep(w) BY <2>1, LoopFrame
  <2>2. CASE Relay(w) BY <2>2, NoReport
  <2> QED BY <2>1, <2>2 DEF RunStep, Deliver, GiveUp, Load, ClearFlag, RelayKick
<1>5. ASSUME run[w].phase \in Holding
      PROVE  /\ row.status = "running"
             /\ \A v \in Workers : v # w => run[v].phase \notin Holding
  BY <1>5, HoldersRun, SoleHolder DEF RestInv, ClaimInv
<1>6. CASE Claim(w)
  <2>1. row.status = "running" BY <1>6 DEF Claim, Claimable
  <2> QED BY <1>1, <1>3, <1>6, <2>1, ClaimsFree
<1>7. CASE Checkpoint(w) \/ EndTurn(w) \/ MarkPaused(w) \/ MarkFailed(w)
  <2>1. run[w].phase \in Holding
    BY <1>7 DEF Checkpoint, EndTurn, MarkPaused, MarkFailed, Holding, Working
  <2> QED BY <1>1, <1>3, <1>5, <1>7, <2>1
<1> QED BY <1>1, <1>3, <1>4, <1>6, <1>7

LEMMA RequestRest ==
    ASSUME Alone, TurnInv, RestInv, NEW c \in Clients, Requests(c)
    PROVE  RestInv'
<1> USE DEF TurnInv, TypeInv
<1>1. ASSUME UNCHANGED <<row, run>>, RequestFresh' PROVE RestInv'
  BY <1>1 DEF RestInv, ClaimOnlyWhileRunning, LoadedFresh
<1>2. ASSUME NEW kind \in Kinds, Begin(c, kind) PROVE RestInv'
  <2>1. UNCHANGED <<row, run>> /\ \A e \in Clients : e = c BY <1>2, BeginLeaves DEF Alone
  <2>2. CASE UNCHANGED req BY <1>1, <2>1, <2>2 DEF RestInv, RequestFresh, Acts
  <2>3. CASE /\ Accepts(kind, row.status) /\ req'[c].phase = "loaded"
             /\ req'[c].kind = kind /\ req'[c].loaded = row
    <3>1. kind = "stop" \/ row.status # "running" BY <2>3 DEF Accepts, ACCEPTS_MESSAGES
    <3>2. RequestFresh' BY <2>1, <2>3, <3>1 DEF RequestFresh, Acts, Accepts
    <3> QED BY <1>1, <2>1, <3>2
  <2> QED BY <1>2, <2>2, <2>3, BeginLeaves
<1>3. CASE AskToStop(c) \/ Abort(c)
  <2>1. \A d \in Clients : req'[d].phase # "none" => req'[d] = req[d]
    BY <1>3 DEF AskToStop, Abort, NoRequest, TypeOK
  <2>2. UNCHANGED <<row, run>> BY <1>3 DEF AskToStop, Abort
  <2>3. RequestFresh' BY <2>1, <2>2 DEF RestInv, RequestFresh, Acts
  <2> QED BY <1>1, <2>2, <2>3
<1>4. CASE Write(c)
  <2>1. /\ \A e \in Clients : e # c => req'[e] = req[e]
        /\ req'[c].kind = req[c].kind /\ req'[c].loaded = req[c].loaded
        /\ req[c].phase = "loaded" /\ UNCHANGED <<row, run>>
    BY <1>4, WriteLeaves
  <2>2. RequestFresh' BY <2>1 DEF RestInv, RequestFresh, Acts
  <2> QED BY <1>1, <2>1, <2>2
<1>5. CASE Commit(c)
  <2>1. /\ row.claim = NoKick /\ row' = ApplyTurnState(row, Saved(req[c]))
        /\ \A w \in Workers : run[w].phase \notin Holding
        /\ \A d \in Clients : req'[d].phase = "none"
        /\ UNCHANGED run
    BY <1>5, CommitWrites
  <2>2. row'.claim = NoKick BY <2>1 DEF ApplyTurnState
  <2>3. RequestFresh' BY <2>1 DEF RequestFresh, Acts
  <2>4. ClaimOnlyWhileRunning' BY <2>2 DEF ClaimOnlyWhileRunning
  <2>5. LoadedFresh' BY <2>1 DEF LoadedFresh, Loaded, Holding, Working
  <2> QED BY <2>3, <2>4, <2>5 DEF RestInv
<1> QED BY <1>2, <1>3, <1>4, <1>5 DEF Requests

LEMMA RunRest ==
    ASSUME Alone, TurnInv, RestInv, NEW w \in Workers, RunStep(w)
    PROVE  RestInv'
<1> USE DEF TurnInv, TypeInv
<1>0. run[w] \in Run /\ row \in Row /\ NoRun.phase = "idle" BY RunParts DEF TypeOK, NoRun
<1>1. UNCHANGED req /\ \A v \in Workers : v # w => run'[v] = run[v] BY RunWrites
<1>2. ASSUME UNCHANGED row, run'[w].phase \in Loaded => run'[w].loaded = row PROVE RestInv'
  BY <1>1, <1>2 DEF RestInv, RequestFresh, Acts, ClaimOnlyWhileRunning, LoadedFresh
<1>3. ASSUME row.status = "running", \A v \in Workers : v # w => run[v].phase \notin Holding,
             row'.claim # NoKick => row'.status = "running",
             run'[w].phase \in Loaded => run'[w].loaded = row'
      PROVE  RestInv'
  <2>1. RequestFresh' BY <1>1, <1>3, NoneActs DEF RestInv, RequestFresh, Acts
  <2>2. ClaimOnlyWhileRunning' BY <1>3 DEF ClaimOnlyWhileRunning
  <2>3. LoadedFresh' BY <1>1, <1>3 DEF LoadedFresh, Loaded, Holding, Working
  <2> QED BY <2>1, <2>2, <2>3 DEF RestInv
<1>4. \A r : Becomes(w, r) => run'[w] = r BY DEF Becomes, TypeOK
<1>5. CASE UNCHANGED row
  <2>1. CASE LoopStep(w)
    <3>1. CASE Checkpoint(w) BY <1>2, <1>5, <3>1, CheckpointLeaves
    <3>2. CASE ~Checkpoint(w)
      <4>1. run'[w].loaded = run[w].loaded BY <2>1, <3>2, LoopLoaded
      <4>2. run[w].phase \in Loaded BY <2>1, LoopFrame DEF Loaded
      <4> QED BY <1>2, <1>5, <4>1, <4>2 DEF RestInv, LoadedFresh
    <3> QED BY <3>1, <3>2
  <2>2. CASE Load(w)
    <3>1. CASE row.status = "running" BY <1>2, <1>5, <2>2, <3>1, LoadReads
    <3>2. CASE row.status # "running"
      <4>1. run'[w].phase = "clear" BY <1>0, <1>4, <2>2, <3>2 DEF Load, Run
      <4> QED BY <1>2, <1>5, <4>1 DEF Loaded
    <3> QED BY <3>1, <3>2
  <2>3. ASSUME NEW k \in Kicks, Deliver(w, k) PROVE RestInv'
    <3>1. run'[w].phase = "waiting" BY <1>4, <2>3 DEF Deliver, NoRun
    <3> QED BY <1>2, <1>5, <3>1 DEF Loaded
  <2>4. CASE Claim(w)
    <3>1. run'[w].phase = "claimed" BY <1>0, <1>4, <2>4 DEF Claim, Run
    <3> QED BY <1>2, <1>5, <3>1 DEF Loaded
  <2>5. CASE GiveUp(w) \/ RelayKick(w) \/ MarkPaused(w) \/ MarkFailed(w) \/ Relay(w)
    <3>1. run'[w] = NoRun
      BY <1>4, <2>5, NoReport DEF GiveUp, RelayKick, MarkPaused, MarkFailed, Over
    <3> QED BY <1>0, <1>2, <1>5, <3>1 DEF Loaded
  <2>6. CASE EndTurn(w)
    <3>1. run'[w].phase = "clear" BY <1>4, <2>6 DEF EndTurn, NoRun
    <3> QED BY <1>2, <1>5, <3>1 DEF Loaded
  <2>7. CASE ClearFlag(w)
    <3>1. run'[w].phase \in {"relay", "idle"} BY <1>0, <1>4, <2>7 DEF ClearFlag, Over, Run
    <3> QED BY <1>2, <1>5, <3>1 DEF Loaded
  <2> QED BY <2>1, <2>2, <2>3, <2>4, <2>5, <2>6, <2>7 DEF RunStep
<1>6. CASE row.status = "running" /\ \A v \in Workers : v # w => run[v].phase \notin Holding
  <2>1. CASE Claim(w)
    <3>1. run'[w].phase = "claimed" BY <1>0, <1>4, <2>1 DEF Claim, Run
    <3>2. row'.status = "running" BY <1>0, <1>6, <2>1 DEF Claim, Row
    <3> QED BY <1>3, <1>6, <3>1, <3>2 DEF Loaded
  <2>2. CASE Checkpoint(w)
    <3>1. row'.status = "running" BY <2>2, CheckpointWrites DEF ApplyTurnState
    <3> QED BY <1>3, <1>6, <2>2, <3>1, CheckpointLeaves
  <2>3. CASE EndTurn(w)
    <3>1. run'[w].phase = "clear" BY <1>4, <2>3 DEF EndTurn, NoRun
    <3>2. row'.claim = NoKick BY <2>3, EndWrites DEF ApplyTurnState
    <3> QED BY <1>3, <1>6, <3>1, <3>2 DEF Loaded
  <2>4. CASE MarkPaused(w) \/ MarkFailed(w)
    <3>1. run'[w] = NoRun BY <1>4, <2>4 DEF MarkPaused, MarkFailed, Over
    <3>2. row'.claim = NoKick BY <2>4, MarkWrites
    <3> QED BY <1>0, <1>3, <1>6, <3>1, <3>2 DEF Loaded
  <2> QED BY <1>5, <2>1, <2>2, <2>3, <2>4, RunWrites
<1> QED BY <1>5, <1>6, RunWrites

(* A run that is cut off leaves the row, the history and the requests as   *)
(* they are.                                                               *)
LEMMA FaultLeaves ==
    ASSUME TypeOK, NEW w \in Workers, RunFault(w)
    PROVE  /\ UNCHANGED <<row, history, req, flag, stint, asked, made, ran, unheard>>
           /\ run'[w].phase \in {"idle", "pausing", "failing"} /\ run'[w].result = "none"
           /\ \A v \in Workers : v # w => run'[v] = run[v]
<1>1. UNCHANGED <<row, history, req, flag, stint, asked, made, ran, unheard>>
  BY DEF RunFault, Crash, Cancel, Fail, Unreachable, RolledBack
<1>2. \/ Becomes(w, NoRun)
      \/ \E phase \in {"pausing", "failing"}, reason \in Reasons \cup {"none"} :
            Becomes(w, [NoRun EXCEPT !.phase = phase, !.kick = run[w].kick, !.reason = reason])
  BY DEF RunFault, Crash, Cancel, Fail, Unreachable, RolledBack, Reasons
<1>3. NoRun.phase = "idle" /\ NoRun.result = "none" BY DEF NoRun
<1>4. ASSUME NEW p \in {"pausing", "failing"}, NEW k, NEW x
      PROVE  LET r == [NoRun EXCEPT !.phase = p, !.kick = k, !.reason = x]
             IN  r.phase \in {"pausing", "failing"} /\ r.result = "none"
  BY DEF NoRun
<1>5. \A r : Becomes(w, r) => run'[w] = r /\ \A v \in Workers : v # w => run'[v] = run[v]
  BY DEF Becomes, TypeOK
<1>6. ASSUME NEW p \in {"pausing", "failing"}, NEW x,
             Becomes(w, [NoRun EXCEPT !.phase = p, !.kick = run[w].kick, !.reason = x])
      PROVE  run'[w].phase \in {"idle", "pausing", "failing"} /\ run'[w].result = "none"
  <2> DEFINE r == [NoRun EXCEPT !.phase = p, !.kick = run[w].kick, !.reason = x]
  <2>1. r.phase \in {"pausing", "failing"} /\ r.result = "none" BY <1>4
  <2>2. run'[w] = r BY <1>5, <1>6
  <2> QED BY <2>1, <2>2
<1>7. run'[w].phase \in {"idle", "pausing", "failing"} /\ run'[w].result = "none"
  BY <1>2, <1>3, <1>5, <1>6
<1>8. \A v \in Workers : v # w => run'[v] = run[v] BY <1>2, <1>5
<1> QED BY <1>1, <1>7, <1>8

LEMMA RestStep ==
    ASSUME Alone, TurnInv, RestInv, [Next]_vars
    PROVE  RestInv'
<1> USE DEF TurnInv, TypeInv
<1>1. ASSUME UNCHANGED <<row, req>>,
             \A w \in Workers : run'[w] = run[w] \/ run'[w].phase \notin Loaded
      PROVE  RestInv'
  BY <1>1 DEF RestInv, RequestFresh, Acts, ClaimOnlyWhileRunning, LoadedFresh
<1>2. ASSUME NEW w \in Workers, RunFault(w) PROVE RestInv'
  BY <1>1, <1>2, FaultLeaves DEF Loaded
<1>3. CASE FlagExpires \/ UNCHANGED vars BY <1>1, <1>3 DEF FlagExpires, vars
<1>4. \A t \in Tasks : ~JobStep(t) BY NoReport
<1> QED BY <1>2, <1>3, <1>4, RequestRest, RunRest DEF Next

LEMMA InitRest == Init => RestInv
BY DEF Init, RestInv, RequestFresh, Acts, ClaimOnlyWhileRunning, LoadedFresh, NoRequest, NoRun,
       Loaded, IdleRow

LEMMA AloneIsSpare == Alone => "stray" \notin Mishaps
BY DEF Alone

(* A turn that is over, waits or is paused is claimed by nobody            *)
(* (apply_turn_state drops run_claim with the running status).             *)
THEOREM ClaimsAreDropped ==
    ASSUME Alone
    PROVE  Spec => []ClaimOnlyWhileRunning
<1>1. RestInv => ClaimOnlyWhileRunning BY DEF RestInv
<1> QED BY <1>1, AloneIsSpare, InitTurn, TurnStep, InitRest, RestStep, PTL DEF Spec

(* What a step does to the status, and to the count of stints.             *)
LEMMA StatusMoves ==
    ASSUME Alone, TurnInv, RestInv, [Next]_vars
    PROVE  /\ StatusStep(row.status, row'.status)
           /\ stint' # stint => row.status # "running"
<1> USE DEF TurnInv, TypeInv
<1>1. ASSUME NEW c \in Clients, Commit(c)
      PROVE  StatusStep(row.status, row'.status) /\ row.status # "running"
  <2>1. /\ Accepts(req[c].kind, row.status) /\ row.status # "running" /\ req[c] \in Request
        /\ row' = ApplyTurnState(row, Saved(req[c]))
    BY <1>1, CommitWrites
  <2>2. row'.status = IF req[c].kind = "stop" THEN "paused" ELSE "running"
    BY <2>1, SavedStatus DEF ApplyTurnState
  <2> QED BY <2>1, <2>2 DEF Accepts, ACCEPTS_MESSAGES, StatusStep
<1>2. ASSUME NEW c \in Clients, Requests(c), ~Commit(c)
      PROVE  UNCHANGED <<row, stint>>
  BY <1>2 DEF Requests, Begin, AskToStop, Write, Abort
<1>3. ASSUME NEW w \in Workers, RunStep(w)
      PROVE  StatusStep(row.status, row'.status) /\ UNCHANGED stint
  <2>1. UNCHANGED stint
    BY <1>3, NoReport DEF RunStep, Deliver, Claim, GiveUp, Load, LoopStep, Settle, AskAgain, Stop,
        Limit, Proceed, Checkpoint, Reply, CutOff, Unavailable, EndTurn, ClearFlag, RelayKick,
        MarkPaused, MarkFailed
  <2>2. UNCHANGED row \/ row.status = "running" BY <1>3, RunWrites
  <2> QED BY <2>1, <2>2 DEF StatusStep
<1>4. ASSUME NEW w \in Workers, RunFault(w) PROVE UNCHANGED <<row, stint>>
  BY <1>4, FaultLeaves
<1>5. CASE FlagExpires \/ UNCHANGED vars
  <2>1. UNCHANGED <<row, stint>> BY <1>5 DEF FlagExpires, vars
  <2> QED BY <2>1 DEF StatusStep
<1>6. \A t \in Tasks : ~JobStep(t) BY NoReport
<1> QED BY <1>1, <1>2, <1>3, <1>4, <1>5, <1>6 DEF Next, StatusStep

(* The moves of the status the code makes: a failed turn is final,         *)
(* and only a stop turns a wait on the client into a rest.                 *)
THEOREM StatusMovesOn ==
    ASSUME Alone
    PROVE  Spec => StatusSteps
<1>1. TurnInv /\ RestInv /\ [Next]_vars => [StatusStep(row.status, row'.status)]_vars
  BY StatusMoves
<1> QED BY <1>1, AloneIsSpare, InitTurn, TurnStep, InitRest, RestStep, PTL DEF Spec, StatusSteps

(* A message, a resume or an answer never starts over a turn under way,    *)
(* though each of them decides by a row it read earlier.                   *)
THEOREM TurnsStartFromRest ==
    ASSUME Alone
    PROVE  Spec => StartsFromRest
<1>1. TurnInv /\ RestInv /\ [Next]_vars => [stint' # stint => row.status # "running"]_vars
  BY StatusMoves
<1> QED BY <1>1, AloneIsSpare, InitTurn, TurnStep, InitRest, RestStep, PTL DEF Spec, StartsFromRest

(* A run that loops goes on holding the turn.                              *)
LEMMA LoopHolds ==
    ASSUME TurnInv, NEW w \in Workers, LoopStep(w)
    PROVE  run'[w].phase \in Loaded
<1> USE DEF TurnInv, TypeInv
<1>1. run[w] \in Run BY RunParts
<1>2. CASE AskAgain(w) \/ Stop(w) \/ Limit(w) \/ CutOff(w) \/ Unavailable(w)
  <2>1. \A x : Returns(run[w], x).phase = "end" BY <1>1, ReturnsParts
  <2> QED BY <1>2, <2>1, ReturnsLeave DEF Loaded
<1>3. CASE Settle(w) BY <1>3, SettleLeaves DEF Loaded
<1>4. CASE Proceed(w) BY <1>4, ProceedLeaves DEF Loaded
<1>5. CASE Checkpoint(w) BY <1>5, CheckpointLeaves DEF Loaded
<1>6. CASE Reply(w) BY <1>6, ReplyLeaves DEF Answered, RoundDone, CallsLeft, Loaded
<1> QED BY <1>2, <1>3, <1>4, <1>5, <1>6 DEF LoopStep

(* ... and no other step leaves a run that has read the row, but the one   *)
(* that reads it; nor one that is to pause its turn.                       *)
LEMMA RunPhases ==
    ASSUME Alone, TurnInv, NEW w \in Workers, RunStep(w)
    PROVE  /\ run'[w].phase # "pausing"
           /\ \/ LoopStep(w)
              \/ Load(w) /\ row.status = "running"
              \/ run'[w].phase \notin Loaded
<1> USE DEF TurnInv, TypeInv
<1>1. run[w] \in Run /\ NoRun.phase = "idle" BY RunParts DEF NoRun
<1>2. \A r : Becomes(w, r) => run'[w] = r BY DEF Becomes, TypeOK
<1>3. CASE LoopStep(w) BY <1>3, LoopHolds DEF Loaded
<1>4. CASE Load(w)
  <2>1. CASE row.status = "running" BY <1>4, <2>1, LoadReads
  <2>2. CASE row.status # "running"
    <3>1. run'[w].phase = "clear" BY <1>1, <1>2, <1>4, <2>2 DEF Load, Run
    <3> QED BY <3>1 DEF Loaded
  <2> QED BY <1>4, <2>1, <2>2
<1>5. ASSUME run'[w].phase \notin Loaded \cup {"pausing"}
      PROVE  run'[w].phase # "pausing" /\ run'[w].phase \notin Loaded
  BY <1>5
<1>6. CASE \E k \in Kicks : Deliver(w, k)
  <2>1. run'[w].phase = "waiting" BY <1>2, <1>6 DEF Deliver, NoRun
  <2> QED BY <1>5, <2>1 DEF Loaded
<1>7. CASE Claim(w) \/ ClearFlag(w)
  <2>1. run'[w].phase \in {"claimed", "relay", "idle"}
    BY <1>1, <1>2, <1>7 DEF Claim, ClearFlag, Over, Run
  <2> QED BY <1>5, <2>1 DEF Loaded
<1>8. CASE EndTurn(w)
  <2>1. run'[w].phase = "clear" BY <1>2, <1>8 DEF EndTurn, NoRun
  <2> QED BY <1>5, <2>1 DEF Loaded
<1>9. CASE GiveUp(w) \/ Relay(w) \/ RelayKick(w) \/ MarkPaused(w) \/ MarkFailed(w)
  <2>1. run'[w].phase = "idle"
    BY <1>1, <1>2, <1>9, NoReport DEF GiveUp, RelayKick, MarkPaused, MarkFailed, Over
  <2> QED BY <1>5, <2>1 DEF Loaded
<1> QED BY <1>3, <1>4, <1>6, <1>7, <1>8, <1>9 DEF RunStep

-----------------------------------------------------------------------------
(* The stop flag, and messages that wait to be read.                       *)

(* What the flag says, it says of the stretch of work under way: the       *)
(* routes that begin one clear it first, and the app that has such a       *)
(* request under way asks for no stop meanwhile.                           *)
StopKnown ==
    /\ flag \in {0, stint}
    /\ \A c \in Clients : req[c].phase # "none" =>
          IF req[c].kind = "stop" THEN req[c].stint = stint ELSE flag = 0

(* The run that has read the row has read the user's messages, for none is *)
(* stored while it works.                                                  *)
Heard ==
    /\ IdleIsAnswered
    /\ \A w \in Workers : run[w].phase \in Loaded => ~unheard

LEMMA RunLeavesFlag ==
    ASSUME Alone, TypeInv, NEW w \in Workers, RunStep(w)
    PROVE  flag' \in {0, flag} /\ UNCHANGED <<stint, req>> /\ (unheard' => unheard)
<1>1. CASE LoopStep(w) \/ Load(w)
  <2>1. UNCHANGED <<flag, stint, req>>
    BY <1>1 DEF LoopStep, Settle, AskAgain, Stop, Limit, Proceed, Checkpoint, Reply, CutOff,
                Unavailable, Load
  <2>2. unheard' => unheard
    BY <1>1 DEF LoopStep, Settle, AskAgain, Stop, Limit, Proceed, Checkpoint, Reply, CutOff,
                Unavailable, Load
  <2> QED BY <2>1, <2>2
<1>2. CASE Relay(w)
  <2>1. UNCHANGED <<flag, stint, req, unheard>> BY <1>2, NoReport DEF Relay
  <2> QED BY <2>1
<1>3. CASE ClearFlag(w) BY <1>3 DEF ClearFlag
<1>4. CASE \/ \E k \in Kicks : Deliver(w, k)
           \/ Claim(w) \/ GiveUp(w) \/ EndTurn(w) \/ RelayKick(w) \/ MarkPaused(w) \/ MarkFailed(w)
  <2>1. UNCHANGED <<flag, stint, req, unheard>>
    BY <1>4 DEF Deliver, Claim, GiveUp, EndTurn, RelayKick, MarkPaused, MarkFailed
  <2> QED BY <2>1
<1> QED BY <1>1, <1>2, <1>3, <1>4 DEF RunStep

LEMMA StopStep ==
    ASSUME Alone, TurnInv, RestInv, StopKnown, [Next]_vars
    PROVE  StopKnown'
<1> USE DEF TurnInv, TypeInv
<1>1. ASSUME flag' \in {0, flag}, UNCHANGED <<stint, req>> PROVE StopKnown'
  BY <1>1 DEF StopKnown
<1>2. ASSUME NEW c \in Clients, Requests(c) PROVE StopKnown'
  <2>1. ASSUME NEW kind \in Kinds, Begin(c, kind) PROVE StopKnown'
    <3>1. UNCHANGED stint /\ flag' = IF kind = "stop" THEN flag ELSE 0
      BY <2>1 DEF Begin, FlagAfterBegin
    <3>2. /\ \A e \in Clients : e = c
          /\ \/ req'[c].kind = kind /\ req'[c].stint = stint
             \/ req'[c].phase = "none"
      BY <2>1, BeginLeaves DEF Alone
    <3> QED BY <3>1, <3>2 DEF StopKnown
  <2>2. CASE AskToStop(c)
    <3>1. flag' = stint /\ UNCHANGED stint BY <2>2 DEF AskToStop, StopKnown
    <3>2. \A d \in Clients : req'[d].phase = "none" BY <2>2 DEF AskToStop, Alone, TypeOK, NoRequest
    <3> QED BY <3>1, <3>2 DEF StopKnown
  <2>3. CASE Write(c)
    <3>1. /\ \A e \in Clients : e # c => req'[e] = req[e]
          /\ req'[c].kind = req[c].kind /\ req'[c].stint = req[c].stint
          /\ req[c].phase = "loaded" /\ UNCHANGED <<flag, stint>>
      BY <2>3, WriteLeaves
    <3> QED BY <3>1 DEF StopKnown
  <2>4. CASE Commit(c)
    <3>1. req[c].phase = "written" /\ UNCHANGED flag BY <2>4 DEF Commit
    <3>2. \A d \in Clients : req'[d].phase = "none" BY <2>4, CommitWrites
    <3>3. req[c].kind # "stop" => flag = 0 BY <3>1 DEF StopKnown
    <3>4. req[c].kind = "stop" => UNCHANGED stint BY <2>4 DEF Commit
    <3> QED BY <3>1, <3>2, <3>3, <3>4 DEF StopKnown
  <2>5. CASE Abort(c)
    <3>1. \A d \in Clients : req'[d].phase = "none" BY <2>5 DEF Abort, Alone, TypeOK, NoRequest
    <3>2. UNCHANGED <<flag, stint>> BY <2>5 DEF Abort
    <3> QED BY <3>1, <3>2 DEF StopKnown
  <2> QED BY <1>2, <2>1, <2>2, <2>3, <2>4, <2>5 DEF Requests
<1>3. ASSUME NEW w \in Workers, RunStep(w) PROVE StopKnown' BY <1>1, <1>3, RunLeavesFlag
<1>4. ASSUME NEW w \in Workers, RunFault(w) PROVE StopKnown' BY <1>1, <1>4, FaultLeaves
<1>5. CASE FlagExpires BY <1>1, <1>5 DEF FlagExpires
<1>6. CASE UNCHANGED vars BY <1>1, <1>6 DEF vars
<1> QED BY <1>2, <1>3, <1>4, <1>5, <1>6, NoReport DEF Next

LEMMA HeardStep ==
    ASSUME Alone, TurnInv, RestInv, Heard, [Next]_vars
    PROVE  Heard'
<1> USE DEF TurnInv, TypeInv
<1>1. ASSUME UNCHANGED <<row, unheard>>,
             \A w \in Workers : run'[w] = run[w] \/ run'[w].phase \notin Loaded
      PROVE  Heard'
  BY <1>1 DEF Heard, IdleIsAnswered
<1>2. ASSUME NEW c \in Clients, Requests(c) PROVE Heard'
  <2>1. CASE Commit(c)
    <3>1. /\ row' = ApplyTurnState(row, Saved(req[c])) /\ UNCHANGED run /\ req[c] \in Request
          /\ \A w \in Workers : run[w].phase \notin Holding
      BY <2>1, CommitWrites
    <3>2. row'.status # "idle" BY <3>1, SavedStatus DEF ApplyTurnState
    <3> QED BY <3>1, <3>2 DEF Heard, IdleIsAnswered, Loaded, Holding, Working
  <2>2. CASE ~Commit(c)
    <3>1. UNCHANGED <<row, unheard, run>>
      BY <1>2, <2>2 DEF Requests, Begin, AskToStop, Write, Abort
    <3> QED BY <1>1, <3>1
  <2> QED BY <2>1, <2>2
<1>3. ASSUME NEW w \in Workers, RunStep(w) PROVE Heard'
  <2>1. unheard' => unheard BY <1>3, RunLeavesFlag
  <2>2. \A v \in Workers : v # w => run'[v] = run[v] BY <1>3, RunWrites
  <2>3. ASSUME run'[w].phase \in Loaded PROVE ~unheard'
    <3>1. CASE LoopStep(w)
      <4>1. run[w].phase \in Loaded BY <3>1, LoopFrame DEF Loaded
      <4> QED BY <2>1, <4>1 DEF Heard
    <3>2. CASE Load(w)
      <4>1. row.status = "running"
        BY <2>3, <3>2, RunParts DEF Load, Becomes, TypeOK, Run, Loaded
      <4> QED BY <3>2, <4>1 DEF Load
    <3> QED BY <1>3, <2>3, <3>1, <3>2, RunPhases
  <2>4. IdleIsAnswered'
    <3>1. CASE UNCHANGED row BY <2>1, <3>1 DEF Heard, IdleIsAnswered
    <3>2. CASE Claim(w) \/ Checkpoint(w) \/ MarkPaused(w) \/ MarkFailed(w)
      <4>1. CASE Claim(w)
        <5>1. row.status = "running" /\ row'.status = row.status
          BY <4>1 DEF Claim, Claimable, TypeOK, Row
        <5> QED BY <5>1 DEF IdleIsAnswered
      <4>2. CASE Checkpoint(w)
        BY <4>2, CheckpointWrites DEF ApplyTurnState, IdleIsAnswered
      <4>3. CASE MarkPaused(w) \/ MarkFailed(w)
        <5>1. row'.status \in {"paused", "failed"} BY <4>3, MarkWrites
        <5> QED BY <5>1 DEF IdleIsAnswered
      <4> QED BY <3>2, <4>1, <4>2, <4>3
    <3>3. CASE EndTurn(w)
      <4>1. run[w].phase \in Loaded BY <3>3 DEF EndTurn, Loaded
      <4> QED BY <2>1, <4>1 DEF Heard, IdleIsAnswered
    <3> QED BY <1>3, <3>1, <3>2, <3>3, RunWrites
  <2> QED BY <2>1, <2>2, <2>3, <2>4 DEF Heard
<1>4. ASSUME NEW w \in Workers, RunFault(w) PROVE Heard'
  BY <1>1, <1>4, FaultLeaves DEF Loaded
<1>5. CASE FlagExpires \/ UNCHANGED vars BY <1>1, <1>5 DEF FlagExpires, vars
<1> QED BY <1>2, <1>3, <1>4, <1>5, NoReport DEF Next

(* A run's result becomes "stopped" only where the flag is seen.           *)
LEMMA StoppedByFlag ==
    ASSUME Alone, TypeInv, NEW w \in Workers, RunStep(w), flag = 0
    PROVE  run'[w].result = "stopped" => run[w].result = "stopped"
<1> USE DEF TypeInv
<1>0. run[w] \in Run /\ NoRun.result = "none" BY RunParts DEF NoRun
<1>1. \A r : Becomes(w, r) => run'[w] = r BY DEF Becomes, TypeOK
<1>2. CASE LoopStep(w)
  <2>1. CASE AskAgain(w) \/ Limit(w) \/ Unavailable(w)
    <3>1. \A x : Returns(run[w], x).result = x BY <1>0, ReturnsParts
    <3> QED BY <1>1, <2>1, <3>1 DEF AskAgain, Limit, Unavailable
  <2>2. CASE Settle(w) BY <2>2, SettleLeaves
  <2>3. CASE Proceed(w) BY <2>3, ProceedLeaves
  <2>4. CASE Checkpoint(w) BY <2>4, CheckpointLeaves
  <2>5. CASE Reply(w)
    <3>1. run'[w].result \in {"completed", "awaiting_client", run[w].result}
      BY <2>5, ReplyLeaves DEF Answered, RoundDone, CallsLeft
    <3> QED BY <3>1
  <2>6. ~Stop(w) /\ ~CutOff(w) BY DEF Stop, SeesStop, CutOff
  <2> QED BY <1>2, <2>1, <2>2, <2>3, <2>4, <2>5, <2>6 DEF LoopStep
<1>3. CASE Load(w)
  <2>1. CASE row.status = "running"
    <3>1. \A k, l, n, b : Reads(k, l, n, b).result = "none" BY DEF Reads, NoRun
    <3>2. \E k, l, n, b : Becomes(w, Reads(k, l, n, b)) BY <1>3, <2>1, LoadBecomes
    <3> QED BY <1>1, <3>1, <3>2
  <2>2. CASE row.status # "running" BY <1>0, <1>1, <1>3, <2>2 DEF Load, Run
  <2> QED BY <2>1, <2>2
<1>4. CASE \E k \in Kicks : Deliver(w, k) BY <1>1, <1>4 DEF Deliver, NoRun
<1>5. CASE Claim(w) \/ ClearFlag(w) BY <1>0, <1>1, <1>5 DEF Claim, ClearFlag, Over, Run
<1>6. CASE EndTurn(w) BY <1>1, <1>6 DEF EndTurn, NoRun
<1>7. CASE GiveUp(w) \/ Relay(w) \/ RelayKick(w) \/ MarkPaused(w) \/ MarkFailed(w)
  BY <1>0, <1>1, <1>7, NoReport DEF GiveUp, RelayKick, MarkPaused, MarkFailed, Over
<1> QED BY <1>2, <1>3, <1>4, <1>5, <1>6, <1>7 DEF RunStep

(* A turn ends idle only after a run that had read every message the user  *)
(* was told is accepted.                                                   *)
THEOREM IdleTurnsHaveRead ==
    ASSUME Alone
    PROVE  Spec => []IdleIsAnswered
<1>1. Init => Heard BY DEF Init, Heard, IdleIsAnswered
<1>2. Heard => IdleIsAnswered BY DEF Heard
<1> QED BY <1>1, <1>2, AloneIsSpare, InitTurn, TurnStep, InitRest, RestStep, HeardStep, PTL DEF Spec

(* A run is stopped only by a stop the user asked of this very stretch of  *)
(* work ("one that was never read cannot stop the next piece of work").    *)
THEOREM StopsAreOwn ==
    ASSUME Alone
    PROVE  Spec => StopsOwnStint
<1>1. Init => StopKnown BY DEF Init, StopKnown, NoRequest
<1>2. ASSUME TurnInv, RestInv, StopKnown, [Next]_vars, NEW w \in Workers,
             run[w].result # "stopped", run'[w].result = "stopped"
      PROVE  flag = stint
  <2>1. flag # 0
    <3>1. CASE \E v \in Workers : RunStep(v)
      <4>1. PICK v \in Workers : RunStep(v) BY <3>1
      <4>2. v = w BY <1>2, <4>1, RunWrites
      <4> QED BY <1>2, <4>1, <4>2, StoppedByFlag DEF TurnInv
    <3>2. CASE \E v \in Workers : RunFault(v)
      BY <1>2, <3>2, FaultLeaves DEF TurnInv, TypeInv
    <3>3. CASE UNCHANGED run BY <1>2, <3>3
    <3> QED BY <1>2, <3>1, <3>2, <3>3, NoReport
            DEF Next, vars, FlagExpires, Requests, Begin, AskToStop, Write, Commit, Abort
  <2> QED BY <1>2, <2>1 DEF StopKnown
<1>3. TurnInv /\ RestInv /\ StopKnown /\ [Next]_vars =>
        [\A w \in Workers : run[w].result # "stopped" /\ run'[w].result = "stopped"
                            => flag = stint]_vars
  BY <1>2
<1> QED BY <1>1, <1>3, AloneIsSpare, InitTurn, TurnStep, InitRest, RestStep, StopStep, PTL
        DEF Spec, StopsOwnStint

-----------------------------------------------------------------------------
(* A running turn is on its way to some end.                               *)

(* A message a worker has and can still act on, or will be given.          *)
Carried(k) ==
    \/ queue[k] = "queued"
    \/ \E w \in Workers : run[w].kick = k /\ run[w].phase \in Holding \cup {"waiting"}

(* The message of a turn that runs is carried; so is that of a request that*)
(* is about to commit, for it was queued first, and a worker that finds no *)
(* turn yet goes on trying.                                                *)
Carrying ==
    /\ row.status = "running" => \E k \in Kicks : Carried(k) /\ row.claim \in {NoKick, k}
    /\ \A c \in Clients : req[c].phase = "written" /\ req[c].kind # "stop" =>
          \E k \in Kicks : Carried(k) /\ k = req[c].kick

LEMMA CarryFrame ==
    ASSUME Carrying, UNCHANGED <<row, req>>, \A k \in Kicks : Carried(k) => Carried(k)'
    PROVE  Carrying'
BY DEF Carrying

LEMMA RequestCarries ==
    ASSUME Alone, TurnInv, RestInv, Carrying, NEW c \in Clients, Requests(c)
    PROVE  Carrying'
<1> USE DEF TurnInv, TypeInv
<1>0. row.claim \in Kicks \cup {NoKick} BY DEF TypeOK, Row
<1>1. ASSUME UNCHANGED <<row, run, queue>>,
             \A d \in Clients : req'[d].phase = "written" => req'[d] = req[d]
      PROVE  Carrying'
  <2>1. \A k \in Kicks : Carried(k) => Carried(k)' BY <1>1 DEF Carried
  <2> QED BY <1>0, <1>1, <2>1 DEF Carrying
<1>2. ASSUME NEW kind \in Kinds, Begin(c, kind) PROVE Carrying'
  <2>1. /\ \A d \in Clients : req'[d].phase = "written" => req'[d] = req[d]
        /\ UNCHANGED <<row, run, queue>>
    BY <1>2, BeginLeaves
  <2> QED BY <1>1, <2>1
<1>3. CASE AskToStop(c) \/ Abort(c)
  <2>1. \A d \in Clients : req'[d].phase = "written" => req'[d] = req[d]
    BY <1>3 DEF AskToStop, Abort, NoRequest, TypeOK
  <2>2. UNCHANGED <<row, run, queue>> BY <1>3 DEF AskToStop, Abort
  <2> QED BY <1>1, <2>1, <2>2
<1>4. CASE Write(c)
  <2>1. UNCHANGED <<row, run>> /\ \A e \in Clients : e = c BY <1>4, WriteLeaves DEF Alone
  <2>2. \A m \in Kicks : Carried(m) => Carried(m)' BY <1>4, <2>1, WriteLeaves DEF Carried
  <2>3. ASSUME req'[c].kind # "stop" PROVE \E k \in Kicks : Carried(k)' /\ k = req'[c].kick
    <3>1. req'[c].kick \in Kicks /\ queue'[req'[c].kick] = "queued" BY <1>4, <2>3, WriteLeaves
    <3> QED BY <3>1 DEF Carried
  <2> QED BY <1>0, <2>1, <2>2, <2>3 DEF Carrying
<1>5. CASE Commit(c)
  <2>1. /\ row.claim = NoKick /\ row' = ApplyTurnState(row, Saved(req[c])) /\ req[c] \in Request
        /\ \A d \in Clients : req'[d].phase = "none"
        /\ UNCHANGED <<run, queue>> /\ req[c].phase = "written"
    BY <1>5, CommitWrites
  <2>2. row'.claim = NoKick /\ row'.status = Saved(req[c]).status BY <2>1 DEF ApplyTurnState
  <2>3. row'.status = "running" => req[c].kind # "stop" BY <2>1, <2>2, SavedStatus
  <2>4. \A k \in Kicks : Carried(k) => Carried(k)' BY <2>1 DEF Carried
  <2> QED BY <2>1, <2>2, <2>3, <2>4 DEF Carrying
<1> QED BY <1>2, <1>3, <1>4, <1>5 DEF Requests

(* What a step of a run does to the messages that are carried: only one    *)
(* that ends a turn, or gives up on it, lets its own go.                   *)
LEMMA RunLetsGo ==
    ASSUME Alone, TurnInv, RestInv, NEW w \in Workers, RunStep(w), NEW k \in Kicks, Carried(k)
    PROVE  \/ Carried(k)'
           \/ k = run[w].kick /\ (GiveUp(w) \/ EndTurn(w) \/ MarkPaused(w) \/ MarkFailed(w))
<1> USE DEF TurnInv, TypeInv
<1>0. run[w] \in Run /\ NoRun.phase = "idle" BY RunParts DEF TypeOK, NoRun
<1>1. \A r : Becomes(w, r) => run'[w] = r BY DEF Becomes, TypeOK
<1>2. \A v \in Workers : v # w => run'[v] = run[v] BY RunWrites
<1>3. ASSUME queue[k] = "queued" => Carried(k)',
             run[w].kick = k /\ run[w].phase \in Holding \cup {"waiting"} => Carried(k)'
                \/ GiveUp(w) \/ EndTurn(w) \/ MarkPaused(w) \/ MarkFailed(w),
             \A v \in Workers : v # w /\ run[v].kick = k
                  /\ run[v].phase \in Holding \cup {"waiting"} => Carried(k)'
      PROVE  \/ Carried(k)'
             \/ k = run[w].kick /\ (GiveUp(w) \/ EndTurn(w) \/ MarkPaused(w) \/ MarkFailed(w))
  BY <1>3 DEF Carried
<1>4. \A v \in Workers : v # w /\ run[v].kick = k
         /\ run[v].phase \in Holding \cup {"waiting"} => Carried(k)'
  BY <1>2 DEF Carried
<1>5. ASSUME run'[w].kick = run[w].kick, run'[w].phase \in Holding \cup {"waiting"}, UNCHANGED queue
      PROVE  Carried(k)'
  BY <1>2, <1>5 DEF Carried
<1>6. ASSUME run[w].phase # "idle", queue' = [queue EXCEPT ![run[w].kick] = "done"],
             queue[k] = "queued"
      PROVE  Carried(k)'
  <2>1. k # run[w].kick BY <1>6 DEF MessageInv, MessageHeld
  <2> QED BY <1>6, <2>1 DEF Carried, TypeOK
<1>7. CASE LoopStep(w)
  <2>1. run[w].phase \in {"loop", "store", "model"} /\ UNCHANGED queue BY <1>7, LoopFrame
  <2>2. run'[w].kick = run[w].kick BY <1>7, LoopKeeps
  <2>3. run'[w].phase \in Loaded BY <1>7, LoopHolds
  <2> QED BY <1>5, <2>1, <2>2, <2>3 DEF Loaded, Holding, Working
<1>8. CASE Load(w)
  <2>1. run[w].phase = "claimed" /\ UNCHANGED queue BY <1>8 DEF Load
  <2>2. row.status = "running" BY <2>1, HoldersRun DEF RestInv, Holding, Working
  <2>3. run'[w].phase = "loop" /\ run'[w].kick = run[w].kick BY <1>8, <2>2, LoadReads
  <2> QED BY <1>5, <2>1, <2>3 DEF Holding, Working
<1>9. ASSUME NEW m \in Kicks, Deliver(w, m) PROVE Carried(k)'
  <2>1. run[w].phase = "idle" /\ queue' = [queue EXCEPT ![m] = "held"] BY <1>9 DEF Deliver
  <2>2. run'[w].kick = m /\ run'[w].phase = "waiting" BY <1>1, <1>9 DEF Deliver, NoRun
  <2>3. CASE k = m BY <2>2, <2>3 DEF Carried
  <2>4. CASE k # m
    <3>1. queue'[k] = queue[k] BY <2>1, <2>4 DEF TypeOK
    <3>2. \A v \in Workers : run[v].phase \in Holding \cup {"waiting"} => v # w
      BY <2>1 DEF Holding, Working
    <3> QED BY <1>2, <3>1, <3>2 DEF Carried
  <2> QED BY <2>3, <2>4
<1>10. CASE Claim(w)
  <2>1. run'[w].phase = "claimed" /\ run'[w].kick = run[w].kick /\ UNCHANGED queue
    BY <1>0, <1>1, <1>10 DEF Claim, Run
  <2> QED BY <1>5, <2>1 DEF Holding, Working
<1>11. CASE ClearFlag(w)
  <2>1. run[w].phase = "clear" BY <1>11 DEF ClearFlag
  <2>2. UNCHANGED queue \/ queue' = [queue EXCEPT ![run[w].kick] = "done"]
    BY <1>11 DEF ClearFlag, Over
  <2>3. queue[k] = "queued" => Carried(k)' BY <1>6, <2>1, <2>2 DEF Carried
  <2> QED BY <1>3, <1>4, <2>1, <2>3 DEF Holding, Working
<1>12. CASE Relay(w)
  <2>1. run[w].phase = "relay" /\ queue' = [queue EXCEPT ![run[w].kick] = "done"]
    BY <1>12, NoReport DEF Relay, Over
  <2>2. queue[k] = "queued" => Carried(k)' BY <1>6, <2>1
  <2> QED BY <1>3, <1>4, <2>1, <2>2 DEF Holding, Working
<1>13. CASE RelayKick(w)
  <2>1. /\ run[w].phase = "kick"
        /\ queue' = [queue EXCEPT ![run[w].next] = "queued", ![run[w].kick] = "done"]
    BY <1>13 DEF RelayKick
  <2>2. ASSUME queue[k] = "queued" PROVE Carried(k)'
    <3>1. k # run[w].kick BY <2>1, <2>2 DEF MessageInv, MessageHeld
    <3>2. queue'[k] = "queued" BY <2>1, <2>2, <3>1 DEF TypeOK
    <3> QED BY <3>2 DEF Carried
  <2> QED BY <1>3, <1>4, <2>1, <2>2 DEF Holding, Working
<1>14. CASE GiveUp(w)
  <2>1. run[w].phase = "waiting" /\ queue' = [queue EXCEPT ![run[w].kick] = "done"]
    BY <1>14 DEF GiveUp, Over
  <2> QED BY <1>3, <1>4, <1>6, <1>14, <2>1
<1>15. CASE EndTurn(w)
  <2>1. UNCHANGED queue BY <1>15 DEF EndTurn
  <2> QED BY <1>3, <1>4, <1>15, <2>1 DEF Carried
<1>16. CASE MarkPaused(w) \/ MarkFailed(w)
  <2>1. /\ run[w].phase \in {"pausing", "failing"}
        /\ \/ queue' = [queue EXCEPT ![run[w].kick] = "done"]
           \/ queue' = [queue EXCEPT ![run[w].kick] = "queued"]
    BY <1>16 DEF MarkPaused, MarkFailed, Over
  <2>2. ASSUME queue[k] = "queued" PROVE Carried(k)'
    <3>1. k # run[w].kick BY <2>1, <2>2 DEF MessageInv, MessageHeld
    <3>2. queue'[k] = "queued" BY <2>1, <2>2, <3>1 DEF TypeOK
    <3> QED BY <3>2 DEF Carried
  <2> QED BY <1>3, <1>4, <1>16, <2>2
<1> QED BY <1>7, <1>8, <1>9, <1>10, <1>11, <1>12, <1>13, <1>14, <1>15, <1>16 DEF RunStep

LEMMA RunCarries ==
    ASSUME Alone, "late" \notin Mishaps, TurnInv, RestInv, Carrying, NEW w \in Workers, RunStep(w)
    PROVE  Carrying'
<1> USE DEF TurnInv, TypeInv
<1>1. UNCHANGED req BY RunWrites
<1>2. ASSUME NEW k \in Kicks, Carried(k), ~Carried(k)'
      PROVE  k = run[w].kick /\ (GiveUp(w) \/ EndTurn(w) \/ MarkPaused(w) \/ MarkFailed(w))
  BY <1>2, RunLetsGo
<1>3. ASSUME NEW c \in Clients, req[c].phase = "written", req[c].kind # "stop",
             NEW k, k = req[c].kick
      PROVE  k \in Kicks /\ Carried(k)'
  <2>1. k \in Kicks /\ Carried(k) BY <1>3 DEF Carrying
  <2>2. ~EndTurn(w) /\ ~MarkPaused(w) /\ ~MarkFailed(w)
    BY <1>3 DEF EndTurn, MarkPaused, MarkFailed, Locked
  <2>3. GiveUp(w) => k # run[w].kick BY <1>3 DEF GiveUp
  <2> QED BY <1>2, <2>1, <2>2, <2>3
<1>4. row.claim \in Kicks \cup {NoKick} BY DEF TypeOK, Row
<1>5. ASSUME row'.status = "running"
      PROVE  \E k \in Kicks : Carried(k)' /\ row'.claim \in {NoKick, k}
  <2>1. ~EndTurn(w) /\ ~MarkPaused(w) /\ ~MarkFailed(w)
    BY <1>5, EndWrites, MarkWrites DEF ApplyTurnState
  <2>2. CASE Claim(w)
    <3>1. run[w].phase = "waiting" /\ row'.claim = run[w].kick
      BY <2>2 DEF Claim, TypeOK, Row
    <3>2. run[w].kick \in Kicks BY <3>1 DEF MessageInv, MessageHeld
    <3>3. Carried(run[w].kick) BY <3>1 DEF Carried
    <3>4. ~GiveUp(w) BY <2>2 DEF Claim, GiveUp
    <3>5. PICK k \in Kicks : k = run[w].kick BY <3>2
    <3>6. Carried(k)' BY <1>2, <2>1, <3>3, <3>4, <3>5
    <3> QED BY <3>1, <3>5, <3>6
  <2>3. CASE ~Claim(w)
    <3>1. row.status = "running" /\ row'.claim = row.claim
      <4>1. CASE Checkpoint(w)
        BY <4>1, RunWrites, CheckpointWrites DEF ApplyTurnState
      <4>2. CASE ~Checkpoint(w) BY <1>5, <2>1, <2>3, <4>2, RunWrites
      <4> QED BY <4>1, <4>2
    <3>2. GiveUp(w) => row.claim \notin {NoKick, run[w].kick} BY <3>1 DEF GiveUp, Claimable
    <3>3. \A k \in Kicks : Carried(k) /\ (k = row.claim \/ row.claim = NoKick) => Carried(k)'
      BY <1>2, <2>1, <3>2
    <3> QED BY <1>4, <3>1, <3>3 DEF Carrying
  <2> QED BY <2>2, <2>3
<1> QED BY <1>1, <1>3, <1>5 DEF Carrying

(* A worker that dies gives its message back; one that is shut down or     *)
(* fails goes on to mark the turn.                                         *)
LEMMA FaultCarries ==
    ASSUME Alone, TurnInv, Carrying, NEW w \in Workers, RunFault(w)
    PROVE  Carrying'
<1> USE DEF TurnInv, TypeInv
<1>0. row.claim \in Kicks \cup {NoKick} BY DEF TypeOK, Row
<1>1. UNCHANGED <<row, req>> /\ \A v \in Workers : v # w => run'[v] = run[v] BY FaultLeaves
<1>2. run[w].phase # "idle"
  BY DEF RunFault, Crash, Cancel, Fail, Unreachable, Working, Strays
<1>3. queue[run[w].kick] = "held" BY <1>2 DEF MessageInv, MessageHeld
<1>4. run[w].next # NoKick => queue[run[w].next] = "promised" BY DEF MessageInv, Promised
<1>5. ASSUME NEW k \in Kicks, Carried(k), k # run[w].kick PROVE Carried(k)'
  <2>1. \A v \in Workers : v # w /\ run[v].kick = k
           /\ run[v].phase \in Holding \cup {"waiting"} => Carried(k)'
    BY <1>1 DEF Carried
  <2>2. ASSUME queue[k] = "queued" PROVE Carried(k)'
    <3>1. k # run[w].next BY <1>4, <2>2, ConstantsAssumption
    <3>2. queue'[k] = queue[k]
      BY <1>5, <3>1 DEF RunFault, Crash, Cancel, Fail, Unreachable, RolledBack
    <3> QED BY <2>2, <3>2 DEF Carried
  <2> QED BY <1>5, <2>1, <2>2 DEF Carried
<1>6. PICK own \in Kicks : own = run[w].kick BY <1>2 DEF MessageInv, MessageHeld
<1>7. Carried(own)'
  <2>1. CASE Crash(w)
    <3>1. own # run[w].next BY <1>3, <1>4, <1>6, ConstantsAssumption
    <3>2. queue'[own] = "queued" BY <1>6, <2>1, <3>1 DEF Crash
    <3> QED BY <3>2 DEF Carried
  <2>2. ASSUME NEW phase \in {"pausing", "failing"}, NEW reason \in Reasons \cup {"none"},
               RolledBack(w, phase, reason)
        PROVE  Carried(own)'
    <3> DEFINE r == [NoRun EXCEPT !.phase = phase, !.kick = run[w].kick, !.reason = reason]
    <3>1. r.phase = phase /\ r.kick = run[w].kick BY DEF NoRun
    <3>2. run'[w] = r BY <2>2 DEF RolledBack, Becomes, TypeOK
    <3> HIDE DEF r
    <3> QED BY <1>6, <3>1, <3>2 DEF Carried, Holding
  <2> QED BY <2>1, <2>2 DEF RunFault, Cancel, Fail, Unreachable, Reasons
<1> QED BY <1>0, <1>1, <1>5, <1>6, <1>7, CarryFrame

LEMMA CarryStep ==
    ASSUME Alone, "late" \notin Mishaps, TurnInv, RestInv, Carrying, [Next]_vars
    PROVE  Carrying'
<1>1. CASE FlagExpires \/ UNCHANGED vars
  <2>1. UNCHANGED <<row, req, run, queue>> BY <1>1 DEF FlagExpires, vars
  <2> QED BY <2>1 DEF Carrying, Carried
<1> QED BY <1>1, RequestCarries, RunCarries, FaultCarries, NoReport DEF Next

(* A turn that is running is on its way to some end: the message that      *)
(* claimed it, or, when none has, one that can, is still to be worked on,  *)
(* whatever workers and requests fail on the way.                          *)
THEOREM NobodyOrphansTurns ==
    ASSUME Alone, "late" \notin Mishaps
    PROVE  Spec => []NoOrphanTurn
<1>1. Init => Carrying BY DEF Init, Carrying, IdleRow, NoRequest
<1>2. \A k : Carried(k) => Ready(k) BY DEF Carried, Ready
<1>3. Carrying => NoOrphanTurn BY <1>2, ConstantsAssumption DEF Carrying, NoOrphanTurn
<1> QED BY <1>1, <1>3, AloneIsSpare, InitTurn, TurnStep, InitRest, RestStep, CarryStep, PTL DEF Spec

-----------------------------------------------------------------------------
(* Where calls are.                                                        *)

(* While the turn awaits the client it has calls, and none has an answer;  *)
(* a turn that runs, or is to run on, has the answers to all that it has.  *)
RowPlaces ==
    /\ row.status = "awaiting_client" =>
          row.pending # {} /\ \A a \in row.pending : row.decisions[a] = "none"
    /\ row.status \in {"running", "paused"} => \A a \in row.pending : row.decisions[a] # "none"
    /\ row.status = "idle" => row.pending = {}
    /\ row.completed \subseteq row.pending
    /\ row.pause = "stopped" => row.pending = {}

(* The calls for which the row says a result is still to be stored.        *)
Want == Gated(row.pending) \cup Beside(row.completed)

HistoryInv ==
    /\ history.open \cup history.closed \subseteq made \X {"gated", "beside"}
    /\ history.open \cap history.closed = {}
    /\ row.status # "failed" => Want \subseteq history.open
    /\ OpenCallsOnRow

Blank(b) == ~b.lead /\ b.results = {} /\ ~b.said /\ b.calls = {}

(* A run that works has not settled the calls of the row yet ...           *)
Unsettled(r) ==
    /\ r.phase = "loop" \/ (r.phase = "end" /\ r.result = "iteration_limit")
    /\ r.pending = row.pending /\ r.completed = row.completed /\ r.decisions = row.decisions
    /\ Blank(r.batch)

(* ... or has their results, and nothing else that waits ...               *)
Settled(r) ==
    /\ r.pending = {} /\ r.completed = {}
    /\ r.batch.results = Want /\ r.batch.calls = {} /\ ~r.batch.lead
    /\ r.phase = "model" => row.pending = {} /\ ~r.batch.said
    /\ r.phase = "end" => r.result # "awaiting_client"
    /\ r.phase = "end" /\ r.result = "completed" => row.pending = {}

(* ... or ends, and leaves calls the history has never seen.               *)
Asked(r) ==
    /\ r.phase = "end" /\ r.result = "awaiting_client"
    /\ r.pending # {} /\ r.pending \subseteq made /\ r.completed \subseteq r.pending
    /\ r.batch.results = {} /\ ~r.batch.lead
    /\ r.batch.calls = Gated(r.pending) \cup Beside(r.completed)
    /\ row.pending = {}
    /\ (history.open \cup history.closed) \cap (r.pending \X {"gated", "beside"}) = {}

Fits(r) == Unsettled(r) \/ Settled(r) \/ Asked(r)

RunPlaces ==
    \A w \in Workers :
        /\ run[w].phase \in Loaded => Fits(run[w])
        /\ run[w].phase = "pausing" => run[w].reason # "stopped"

AnswersAll ==
    \A c \in Clients : req[c].phase = "written" /\ req[c].kind = "resolve" =>
        \A a \in req[c].loaded.pending : req[c].answers[a] # "none"

PlaceInv == RowPlaces /\ HistoryInv /\ RunPlaces /\ AnswersAll

LEMMA CallSets ==
    ASSUME NEW S, NEW T
    PROVE  /\ Gated(S) \cup Beside(T) = {} <=> S = {} /\ T = {}
           /\ \A a : <<a, "gated">> \in Gated(S) \cup Beside(T) <=> a \in S
           /\ \A U : S \subseteq U /\ T \subseteq U => Gated(S) \cup Beside(T) \subseteq U \X {"gated", "beside"}
<1>1. ASSUME NEW a \in S PROVE <<a, "gated">> \in Gated(S) BY DEF Gated
<1>2. ASSUME NEW a \in T PROVE <<a, "beside">> \in Beside(T) BY DEF Beside
<1>3. Gated(S) \cup Beside(T) = {} <=> S = {} /\ T = {} BY <1>1, <1>2 DEF Gated, Beside
<1>4. \A a : <<a, "gated">> \in Gated(S) \cup Beside(T) <=> a \in S BY DEF Gated, Beside
<1>5. \A U : S \subseteq U /\ T \subseteq U => Gated(S) \cup Beside(T) \subseteq U \X {"gated", "beside"}
  BY DEF Gated, Beside
<1> QED BY <1>3, <1>4, <1>5

(* What is stored when nothing comes first.                                *)
LEMMA Appends ==
    ASSUME NEW b, history' = AppendMessages(b), ~b.lead
    PROVE  /\ history'.open = (history.open \ b.results) \cup b.calls
           /\ history'.closed = history.closed \cup b.results
           /\ ~history'.torn =>
                 /\ ~history.torn
                 /\ b.said \/ b.calls # {} => history.open \ b.results = {}
BY DEF AppendMessages

(* Results stored for all the row still wants: it wants none any more.     *)
LEMMA ResultsStored ==
    ASSUME NEW b, history' = AppendMessages(b), ~b.lead, b.results = Want, b.calls = {},
           HistoryInv, row.status # "failed", row'.pending = {}, row'.completed = {}, UNCHANGED made
    PROVE  HistoryInv'
<1>1. /\ history'.open = history.open \ Want
      /\ history'.closed = history.closed \cup Want
      /\ ~history'.torn => ~history.torn
  BY Appends
<1>2. (Gated(row'.pending) \cup Beside(row'.completed)) = {} BY CallSets
<1>3. Want \subseteq history.open BY DEF HistoryInv
<1>4. ~history.torn => history.open = Want BY DEF HistoryInv, OpenCallsOnRow, Want
<1>5. ~history'.torn => history'.open = {} BY <1>1, <1>4
<1>6. Want' = {} BY <1>2 DEF Want
<1> QED BY <1>1, <1>2, <1>3, <1>5, <1>6 DEF HistoryInv, OpenCallsOnRow

LEMMA CommitPlaces ==
    ASSUME Alone, TurnInv, RestInv, PlaceInv, NEW c \in Clients, Commit(c)
    PROVE  PlaceInv'
<1> USE DEF TurnInv, TypeInv
<1> DEFINE r == req[c]
<1>1. /\ r \in Request /\ row \in Row /\ r.phase = "written" /\ r.loaded = row
      /\ Accepts(r.kind, row.status) /\ row.status # "running"
      /\ row' = ApplyTurnState(row, Saved(r))
      /\ \A w \in Workers : run[w].phase \notin Holding
      /\ \A d \in Clients : req'[d].phase = "none"
      /\ UNCHANGED <<run, made>>
  BY CommitWrites
<1>2. history' = AppendMessages(Said(r)) BY DEF Commit
<1>3. AnswersAll' BY <1>1 DEF AnswersAll
<1>4. RunPlaces' BY <1>1 DEF PlaceInv, RunPlaces, Loaded, Holding, Working
<1>5. /\ row'.status = Saved(r).status /\ row'.pending = Saved(r).pending
      /\ row'.completed = Saved(r).completed /\ row'.decisions = Saved(r).decisions
      /\ row'.pause = Saved(r).pause
  BY <1>1 DEF ApplyTurnState
<1>6. /\ ~Saying.lead /\ Saying.results = {} /\ Saying.calls = {} /\ Saying.said
      /\ Blank(NoBatch)
  BY DEF Saying, NoBatch, Blank
<1>7. ASSUME history' = AppendMessages(NoBatch), row'.pending = row.pending,
             row'.completed = row.completed, row.status # "failed"
      PROVE  HistoryInv'
  <2>1. /\ history'.open = history.open /\ history'.closed = history.closed
        /\ ~history'.torn => ~history.torn
    BY <1>6, <1>7, Appends DEF Blank
  <2> QED BY <1>1, <1>7, <2>1 DEF PlaceInv, HistoryInv, OpenCallsOnRow, Want
<1>8. ASSUME history' = AppendMessages(Saying), row'.pending = {}, row'.completed = {}
      PROVE  HistoryInv'
  <2>1. /\ history'.open = history.open /\ history'.closed = history.closed
        /\ ~history'.torn => history.open = {}
    BY <1>6, <1>8, Appends
  <2>2. Gated(row'.pending) \cup Beside(row'.completed) = {} BY <1>8, CallSets
  <2> QED BY <1>1, <2>1, <2>2 DEF PlaceInv, HistoryInv, OpenCallsOnRow, Want
<1> HIDE DEF r
<1>9. row.completed \subseteq row.pending BY DEF PlaceInv, RowPlaces
<1>10. CASE r.kind = "send"
  <2>1. /\ row'.pending = {} /\ row'.completed = {} /\ row'.status = "running"
        /\ row'.pause = "none"
    BY <1>5, <1>10 DEF Saved, TurnState
  <2>2. RowPlaces' BY <2>1 DEF RowPlaces
  <2>3. HistoryInv' BY <1>2, <1>8, <1>10, <2>1 DEF Said
  <2> QED BY <1>3, <1>4, <2>2, <2>3 DEF PlaceInv
<1>11. CASE r.kind = "stop"
  <2>1. /\ row'.pending = {} /\ row'.completed = {} /\ row'.status = "paused"
    BY <1>5, <1>11 DEF Saved, TurnState
  <2>2. RowPlaces' BY <2>1 DEF RowPlaces
  <2>3. row.status = "awaiting_client" BY <1>1, <1>11 DEF Accepts
  <2>4. StopResults(r.loaded) = Want BY <1>1 DEF StopResults, Want
  <2>5. history' = AppendMessages([Saying EXCEPT !.results = Want]) BY <1>2, <1>11, <2>4 DEF Said
  <2>6. ASSUME NEW W
        PROVE  LET b == [Saying EXCEPT !.results = W]
               IN  ~b.lead /\ b.results = W /\ b.calls = {}
    BY DEF Saying, NoBatch
  <2>7. HistoryInv' BY <1>1, <2>1, <2>3, <2>5, <2>6, ResultsStored DEF PlaceInv
  <2> QED BY <1>3, <1>4, <2>2, <2>7 DEF PlaceInv
<1>12. CASE r.kind = "resume"
  <2>1. row.status = "paused" BY <1>1, <1>12 DEF Accepts
  <2>2. /\ row'.pending = row.pending /\ row'.completed = row.completed
        /\ row'.decisions = row.decisions /\ row'.status = "running" /\ row'.pause = "none"
    BY <1>1, <1>5, <1>12 DEF Saved
  <2>3. RowPlaces' BY <2>1, <2>2 DEF PlaceInv, RowPlaces
  <2>4. CASE row.pause = "stopped"
    <3>1. row.pending = {} /\ row.completed = {} BY <1>9, <2>4 DEF PlaceInv, RowPlaces
    <3>2. HistoryInv' BY <1>1, <1>2, <1>8, <1>12, <2>2, <2>4, <3>1 DEF Said
    <3> QED BY <1>3, <1>4, <2>3, <3>2 DEF PlaceInv
  <2>5. CASE row.pause # "stopped"
    <3>1. HistoryInv' BY <1>1, <1>2, <1>7, <1>12, <2>1, <2>2, <2>5 DEF Said
    <3> QED BY <1>3, <1>4, <2>3, <3>1 DEF PlaceInv
  <2> QED BY <2>4, <2>5
<1>13. CASE r.kind = "resolve"
  <2>1. row.status = "awaiting_client" BY <1>1, <1>13 DEF Accepts
  <2>2. /\ row'.pending = row.pending /\ row'.completed = row.completed
        /\ row'.decisions = r.answers /\ row'.status = "running" /\ row'.pause = "none"
    BY <1>1, <1>5, <1>13 DEF Saved
  <2>3. \A a \in row.pending : r.answers[a] # "none"
    BY <1>1, <1>13 DEF PlaceInv, AnswersAll, r
  <2>4. RowPlaces' BY <1>9, <2>2, <2>3 DEF RowPlaces
  <2>5. HistoryInv' BY <1>2, <1>7, <1>13, <2>1, <2>2 DEF Said
  <2> QED BY <1>3, <1>4, <2>4, <2>5 DEF PlaceInv
<1> QED BY <1>1, <1>10, <1>11, <1>12, <1>13 DEF Request, Kinds

(* Nothing pending in the hands of a run: the row's calls are settled.     *)
LEMMA NothingLeft ==
    ASSUME PlaceInv, NEW r, Fits(r), r.phase = "loop", r.pending = {}
    PROVE  /\ r.completed = {} /\ r.batch.results = Want /\ r.batch.calls = {} /\ ~r.batch.lead
<1>1. CASE Settled(r) BY <1>1 DEF Settled
<1>2. CASE Unsettled(r)
  <2>1. row.pending = {} /\ row.completed = {} BY <1>2 DEF Unsettled, PlaceInv, RowPlaces
  <2>2. Want = {} BY <2>1, CallSets DEF Want
  <2> QED BY <1>2, <2>1, <2>2 DEF Unsettled, Blank
<1>3. ~Asked(r) BY DEF Asked
<1> QED BY <1>1, <1>2, <1>3 DEF Fits

(* A model that is asked has every call's result before it.                *)
LEMMA ModelSeesAll ==
    ASSUME PlaceInv, NEW r, Fits(r), r.phase = "model"
    PROVE  /\ Settled(r) /\ row.pending = {} /\ r.batch.results = {} /\ ~r.batch.said
           /\ r.batch.calls = {} /\ ~r.batch.lead
<1>1. Settled(r) BY DEF Fits, Unsettled, Asked
<1>2. row.pending = {} /\ row.completed = {} BY <1>1 DEF Settled, PlaceInv, RowPlaces
<1>3. Want = {} BY <1>2, CallSets DEF Want
<1> QED BY <1>1, <1>2, <1>3 DEF Settled

LEMMA StepFits ==
    ASSUME Alone, TurnInv, RestInv, PlaceInv, NEW w \in Workers, LoopStep(w), ~Checkpoint(w)
    PROVE  Fits(run[w])'
<1> USE DEF TurnInv, TypeInv
<1>1. /\ run[w] \in Run /\ run[w].phase \in Loaded /\ UNCHANGED row
      /\ run[w].batch \in Batch
  BY RunParts, LoopFrame DEF Loaded, Run
<1>2. Fits(run[w]) BY <1>1 DEF PlaceInv, RunPlaces
<1>3. UNCHANGED history
  BY DEF LoopStep, Settle, AskAgain, Stop, Limit, Proceed, Reply, CutOff, Unavailable
<1>4. UNCHANGED Want BY <1>1 DEF Want
<1>5. row.status = "running" BY <1>1, HoldersRun DEF RestInv, Loaded, Holding, Working
<1>6. /\ \A x : run'[w] = Returns(run[w], x) =>
            /\ run'[w].phase = "end" /\ run'[w].result = x
            /\ run'[w].pending = run[w].pending /\ run'[w].completed = run[w].completed
            /\ run'[w].decisions = run[w].decisions /\ run'[w].batch = run[w].batch
      /\ \A r : Becomes(w, r) => run'[w] = r
  BY <1>1, ReturnsParts DEF Becomes, TypeOK
<1>7. CASE Settle(w)
  <2>1. run[w].phase = "loop" /\ run[w].pending # {} BY <1>7 DEF Settle
  <2>2. Unsettled(run[w]) BY <1>2, <2>1 DEF Fits, Settled, Asked
  <2>3. ASSUME NEW b \in Batch, NEW x
        PROVE  LET d == [b EXCEPT !.results = x]
               IN  d.results = x /\ d.calls = b.calls /\ d.lead = b.lead
    BY DEF Batch
  <2>4. /\ run'[w].phase = "loop" /\ run'[w].pending = {} /\ run'[w].completed = {}
        /\ run'[w].batch =
              [run[w].batch EXCEPT !.results = Gated(run[w].pending) \cup Beside(run[w].completed)]
    BY <1>7, SettleLeaves
  <2>5. Gated(run[w].pending) \cup Beside(run[w].completed) = Want BY <2>2 DEF Unsettled, Want
  <2>6. /\ run'[w].batch.results = Want /\ run'[w].batch.calls = run[w].batch.calls
        /\ run'[w].batch.lead = run[w].batch.lead
    BY <1>1, <2>3, <2>4, <2>5
  <2> QED BY <1>4, <2>2, <2>4, <2>6 DEF Unsettled, Blank, Settled, Fits
<1>8. CASE AskAgain(w)
  <2>1. run[w].phase = "loop" /\ \E a \in run[w].pending : run[w].decisions[a] = "none"
    BY <1>8 DEF AskAgain
  <2>2. Unsettled(run[w]) BY <1>2, <2>1 DEF Fits, Settled, Asked
  <2>3. FALSE BY <1>5, <2>1, <2>2 DEF Unsettled, PlaceInv, RowPlaces
  <2> QED BY <2>3
<1>9. ASSUME NEW x \in {"stopped", "conversation_limit"}, run[w].phase = "loop",
             run[w].pending = {}, run'[w] = Returns(run[w], x)
      PROVE  Fits(run[w])'
  <2>1. /\ run[w].completed = {} /\ run[w].batch.results = Want
        /\ run[w].batch.calls = {} /\ ~run[w].batch.lead
    BY <1>2, <1>9, NothingLeft
  <2> QED BY <1>4, <1>6, <1>9, <2>1 DEF Settled, Fits
<1>10. CASE Stop(w) BY <1>6, <1>9, <1>10 DEF Stop, SeesStop
<1>11. CASE Limit(w)
  <2>1. CASE Becomes(w, Returns(run[w], "conversation_limit")) /\ run[w].pending = {}
    BY <1>6, <1>9, <1>11, <2>1 DEF Limit
  <2>2. CASE Becomes(w, Returns(run[w], "iteration_limit"))
    <3>1. run[w].phase = "loop" BY <1>11 DEF Limit
    <3>2. ~Asked(run[w]) BY <3>1 DEF Asked
    <3>3. CASE Unsettled(run[w]) BY <1>1, <1>6, <2>2, <3>3 DEF Unsettled, Fits
    <3>4. CASE Settled(run[w]) BY <1>4, <1>6, <2>2, <3>4 DEF Settled, Fits
    <3> QED BY <1>2, <3>2, <3>3, <3>4 DEF Fits
  <2> QED BY <1>11, <2>1, <2>2 DEF Limit
<1>12. CASE Proceed(w)
  <2>1. run[w].phase = "loop" /\ run[w].pending = {} BY <1>12 DEF Proceed
  <2>2. /\ run[w].completed = {} /\ run[w].batch.results = Want
        /\ run[w].batch.calls = {} /\ ~run[w].batch.lead
    BY <1>2, <2>1, NothingLeft
  <2>3. /\ run'[w].phase = IF run[w].batch.results # {} \/ run[w].batch.said
                           THEN "store" ELSE "model"
        /\ run'[w].pending = run[w].pending /\ run'[w].completed = run[w].completed
        /\ run'[w].batch = run[w].batch
    BY <1>12, ProceedLeaves
  <2>4. Want = {} => row.pending = {} BY CallSets DEF Want
  <2> QED BY <1>1, <1>4, <2>1, <2>2, <2>3, <2>4 DEF Settled, Fits
<1>13. ASSUME NEW x \in {"stopped", "paused"}, run[w].phase = "model",
              run'[w] = Returns(run[w], x)
       PROVE  Fits(run[w])'
  <2>1. Settled(run[w]) BY <1>2, <1>13, ModelSeesAll
  <2> QED BY <1>4, <1>6, <1>13, <2>1 DEF Settled, Fits
<1>14. CASE CutOff(w) \/ Unavailable(w) BY <1>6, <1>13, <1>14 DEF CutOff, Unavailable
<1>15. CASE Reply(w)
  <2>1. run[w].phase = "model" BY <1>15, ReplyLeaves
  <2>2. /\ Settled(run[w]) /\ row.pending = {} /\ run[w].batch.results = {}
        /\ run[w].batch.calls = {} /\ ~run[w].batch.lead
    BY <1>2, <2>1, ModelSeesAll
  <2>3. ASSUME NEW b \in Batch
        PROVE  LET d == [b EXCEPT !.said = TRUE]
               IN  d.results = b.results /\ d.calls = b.calls /\ d.lead = b.lead
    BY DEF Batch
  <2>4. ASSUME NEW b \in Batch, NEW x
        PROVE  LET d == [b EXCEPT !.calls = x]
               IN  d.results = b.results /\ d.calls = x /\ d.lead = b.lead
    BY DEF Batch
  <2>5. CASE Answered(run[w], run'[w])
    <3>1. /\ run'[w].batch.results = run[w].batch.results
          /\ run'[w].batch.calls = run[w].batch.calls /\ run'[w].batch.lead = run[w].batch.lead
      BY <1>1, <2>3, <2>5 DEF Answered
    <3> QED BY <1>1, <1>4, <2>2, <2>5, <3>1 DEF Answered, Settled, Fits
  <2>6. CASE RoundDone(run[w], run'[w])
    <3>1. /\ run'[w].batch.results = run[w].batch.results
          /\ run'[w].batch.calls = run[w].batch.calls /\ run'[w].batch.lead = run[w].batch.lead
      BY <1>1, <2>3, <2>6 DEF RoundDone
    <3> QED BY <1>4, <2>2, <2>6, <3>1 DEF RoundDone, Settled, Fits
  <2>7. ASSUME NEW asks \in (SUBSET (Asks \ made)) \ {{}}, NEW beside \in {{}, asks},
               CallsLeft(run'[w], run[w].batch, asks, beside), made' = made \cup asks
        PROVE  Fits(run[w])'
    <3>1. /\ run'[w].batch.results = run[w].batch.results
          /\ run'[w].batch.calls = Gated(asks) \cup Beside(beside)
          /\ run'[w].batch.lead = run[w].batch.lead
      BY <1>1, <2>4, <2>7 DEF CallsLeft
    <3>2. (history.open \cup history.closed) \cap (asks \X {"gated", "beside"}) = {}
      BY DEF PlaceInv, HistoryInv
    <3> QED BY <1>1, <1>3, <2>2, <2>7, <3>1, <3>2 DEF CallsLeft, Asked, Fits
  <2> QED BY <1>15, <2>5, <2>6, <2>7, ReplyLeaves
<1> QED BY <1>7, <1>8, <1>10, <1>11, <1>12, <1>14, <1>15 DEF LoopStep

(* The holder of the turn writes: a checkpoint, an end, or the mark of a   *)
(* run that was cut off.                                                   *)
LEMMA CheckpointPlaces ==
    ASSUME Alone, TurnInv, RestInv, PlaceInv, NEW w \in Workers, Checkpoint(w)
    PROVE  RowPlaces' /\ HistoryInv' /\ Fits(run[w])'
<1> USE DEF TurnInv, TypeInv
<1>1. /\ run[w].phase = "store" /\ history' = AppendMessages(run[w].batch) /\ UNCHANGED made
  BY DEF Checkpoint
<1>2. Settled(run[w])
  BY <1>1 DEF PlaceInv, RunPlaces, Loaded, Fits, Unsettled, Asked
<1>3. row.status = "running" BY <1>1, HoldersRun DEF RestInv, Holding, Working
<1>4. /\ row'.status = "running" /\ row'.pending = {} /\ row'.completed = {} /\ row'.pause = "none"
  BY CheckpointWrites DEF ApplyTurnState
<1>5. HistoryInv' BY <1>1, <1>2, <1>3, <1>4, ResultsStored DEF Settled, PlaceInv
<1>6. RowPlaces' BY <1>4 DEF RowPlaces
<1>7. /\ run'[w].phase = "model" /\ run'[w].pending = {} /\ run'[w].completed = {}
      /\ run'[w].batch = NoBatch
  BY <1>2, CheckpointLeaves DEF Settled
<1>8. Want' = {} BY <1>4, CallSets DEF Want
<1>9. Fits(run[w])' BY <1>4, <1>7, <1>8 DEF NoBatch, Settled, Fits
<1> QED BY <1>5, <1>6, <1>9

LEMMA EndBatchParts ==
    ASSUME NEW r \in Run
    PROVE  /\ EndBatch(r).lead = r.batch.lead /\ EndBatch(r).results = r.batch.results
           /\ EndBatch(r).calls = r.batch.calls
<1>1. r.batch \in Batch BY DEF Run
<1> QED BY <1>1 DEF EndBatch, Batch

LEMMA EndPlaces ==
    ASSUME Alone, TurnInv, RestInv, PlaceInv, NEW w \in Workers, EndTurn(w)
    PROVE  RowPlaces' /\ HistoryInv'
<1> USE DEF TurnInv, TypeInv
<1> DEFINE r == run[w]
<1>1. /\ r.phase = "end" /\ history' = AppendMessages(EndBatch(r)) /\ UNCHANGED made
      /\ r \in Run
  BY RunParts DEF EndTurn
<1>2. Fits(r) BY <1>1 DEF PlaceInv, RunPlaces, Loaded
<1>3. row.status = "running" BY <1>1, HoldersRun DEF RestInv, Holding, Working
<1>4. /\ row'.status = STATUS_AFTER(r.result) /\ row'.pending = r.pending
      /\ row'.completed = r.completed /\ row'.decisions = NoDecisions
      /\ row'.pause = "stopped" => r.result = "stopped"
  <2>1. row' = ApplyTurnState(row, EndState(r)) BY EndWrites
  <2>2. /\ EndState(r).status = STATUS_AFTER(r.result) /\ EndState(r).pending = r.pending
        /\ EndState(r).completed = r.completed /\ EndState(r).decisions = NoDecisions
        /\ EndState(r).pause = "stopped" => r.result = "stopped"
    BY DEF EndState
  <2> HIDE DEF r
  <2> QED BY <2>1, <2>2 DEF ApplyTurnState
<1>5. /\ EndBatch(r).lead = r.batch.lead /\ EndBatch(r).results = r.batch.results
      /\ EndBatch(r).calls = r.batch.calls
  BY <1>1, EndBatchParts
<1> HIDE DEF r
<1>6. CASE Unsettled(r)
  <2>1. row'.status = "failed" /\ row'.pause # "stopped"
    BY <1>1, <1>4, <1>6 DEF Unsettled, STATUS_AFTER
  <2>2. RowPlaces' BY <1>4, <1>6, <2>1 DEF Unsettled, PlaceInv, RowPlaces
  <2>3. history'.open = history.open /\ history'.closed = history.closed
    <3>1. ~EndBatch(r).lead /\ EndBatch(r).results = {} /\ EndBatch(r).calls = {}
      BY <1>5, <1>6 DEF Unsettled, Blank
    <3> QED BY <1>1, <3>1, Appends
  <2>4. HistoryInv' BY <1>1, <2>1, <2>3 DEF PlaceInv, HistoryInv, OpenCallsOnRow
  <2> QED BY <2>2, <2>4
<1>7. CASE Settled(r)
  <2>1. row'.status # "awaiting_client" /\ row'.pending = {} /\ row'.completed = {}
    BY <1>1, <1>4, <1>7 DEF Settled, STATUS_AFTER
  <2>2. RowPlaces' BY <2>1 DEF RowPlaces
  <2>3. HistoryInv' BY <1>1, <1>3, <1>5, <1>7, <2>1, ResultsStored DEF Settled, PlaceInv
  <2> QED BY <2>2, <2>3
<1>8. CASE Asked(r)
  <2>1. /\ row'.status = "awaiting_client" /\ row'.pause # "stopped"
        /\ row'.pending # {} /\ row'.completed \subseteq row'.pending
        /\ row'.pending \subseteq made /\ row'.pending \subseteq Asks
    BY <1>1, <1>4, <1>8 DEF Asked, STATUS_AFTER, TypeOK
  <2>2. \A a \in row'.pending : row'.decisions[a] = "none" BY <1>4, <2>1 DEF NoDecisions
  <2>3. RowPlaces' BY <2>1, <2>2 DEF RowPlaces
  <2>4. row.pending = {} /\ row.completed = {} BY <1>8 DEF Asked, PlaceInv, RowPlaces
  <2>5. Want = {} BY <2>4, CallSets DEF Want
  <2>6. Want' = EndBatch(r).calls BY <1>4, <1>5, <1>8 DEF Want, Asked
  <2>7. Want' # {} BY <2>1, CallSets DEF Want
  <2>8. /\ history'.open = history.open \cup Want' /\ history'.closed = history.closed
        /\ ~history'.torn => ~history.torn /\ history.open = {}
    <3>1. ~EndBatch(r).lead /\ EndBatch(r).results = {} BY <1>5, <1>8 DEF Asked
    <3> QED BY <1>1, <2>6, <2>7, <3>1, Appends
  <2>9. Want' \subseteq row'.pending \X {"gated", "beside"}
    <3>1. \A S, T : T \subseteq S => Gated(S) \cup Beside(T) \subseteq S \X {"gated", "beside"}
      BY CallSets
    <3>2. Gated(row'.pending) \cup Beside(row'.completed) \subseteq row'.pending \X {"gated", "beside"}
      BY <2>1, <3>1
    <3> QED BY <3>2 DEF Want
  <2>10. (history.open \cup history.closed) \cap Want' = {} BY <1>4, <1>8, <2>9 DEF Asked
  <2>11. HistoryInv' BY <1>1, <2>1, <2>8, <2>9, <2>10 DEF PlaceInv, HistoryInv, OpenCallsOnRow, Want
  <2> QED BY <2>3, <2>11
<1> QED BY <1>2, <1>6, <1>7, <1>8 DEF Fits

LEMMA MarkPlaces ==
    ASSUME Alone, TurnInv, RestInv, PlaceInv, NEW w \in Workers, MarkPaused(w) \/ MarkFailed(w)
    PROVE  RowPlaces' /\ HistoryInv'
<1>1. UNCHANGED <<history, made>> BY DEF MarkPaused, MarkFailed
<1>2. row.status = "running" BY MarkWrites
<1>3. CASE MarkPaused(w) /\ row' = ApplyTurnState(row, PausedTurn(run[w].reason))
  <2>1. /\ row'.status = "paused" /\ row'.pending = row.pending /\ row'.completed = row.completed
        /\ row'.decisions = row.decisions /\ row'.pause = run[w].reason
    BY <1>3 DEF ApplyTurnState, PausedTurn
  <2>2. run[w].reason # "stopped" BY <1>3 DEF MarkPaused, PlaceInv, RunPlaces
  <2>3. RowPlaces' BY <1>2, <2>1, <2>2 DEF PlaceInv, RowPlaces
  <2>4. HistoryInv' BY <1>1, <1>2, <2>1 DEF PlaceInv, HistoryInv, OpenCallsOnRow, Want
  <2> QED BY <2>3, <2>4
<1>4. CASE MarkFailed(w) /\ row' = ApplyTurnState(row, TurnState("failed"))
  <2>1. row'.status = "failed" /\ row'.pending = {} /\ row'.completed = {} /\ row'.pause = "none"
    BY <1>4 DEF ApplyTurnState, TurnState
  <2>2. RowPlaces' BY <2>1 DEF RowPlaces
  <2>3. HistoryInv' BY <1>1, <2>1 DEF PlaceInv, HistoryInv, OpenCallsOnRow
  <2> QED BY <2>2, <2>3
<1> QED BY <1>3, <1>4, MarkWrites

LEMMA InitPlaces == Init => PlaceInv
<1> SUFFICES ASSUME Init PROVE PlaceInv
  OBVIOUS
<1>1. /\ row.status = "idle" /\ row.pending = {} /\ row.completed = {} /\ row.pause = "none"
      /\ history.open = {} /\ history.closed = {}
      /\ \A w \in Workers : run[w].phase = "idle"
      /\ \A c \in Clients : req[c].phase = "none"
  BY DEF Init, IdleRow, NoRun, NoRequest
<1>2. Want = {} BY <1>1, CallSets DEF Want
<1>3. RowPlaces BY <1>1 DEF RowPlaces
<1>4. HistoryInv BY <1>1, <1>2 DEF HistoryInv, OpenCallsOnRow, Want
<1>5. RunPlaces BY <1>1 DEF RunPlaces, Loaded
<1>6. AnswersAll BY <1>1 DEF AnswersAll
<1> QED BY <1>3, <1>4, <1>5, <1>6 DEF PlaceInv

LEMMA FitsStays ==
    ASSUME UNCHANGED <<row, history, made>>, NEW w \in Workers, UNCHANGED run[w], Fits(run[w])
    PROVE  Fits(run[w])'
BY DEF Fits, Unsettled, Settled, Asked, Want

LEMMA PlaceFrame ==
    ASSUME PlaceInv, UNCHANGED <<row, history, made>>, AnswersAll',
           \A w \in Workers :
              \/ run'[w] = run[w]
              \/ /\ run'[w].phase \notin Loaded
                 /\ run'[w].phase = "pausing" => run'[w].reason # "stopped"
    PROVE  PlaceInv'
<1>1. RowPlaces' BY DEF PlaceInv, RowPlaces
<1>2. HistoryInv' BY DEF PlaceInv, HistoryInv, OpenCallsOnRow, Want
<1>3. RunPlaces' BY FitsStays DEF PlaceInv, RunPlaces
<1> QED BY <1>1, <1>2, <1>3 DEF PlaceInv

LEMMA RequestPlaces ==
    ASSUME Alone, TurnInv, RestInv, PlaceInv, NEW c \in Clients, Requests(c)
    PROVE  PlaceInv'
<1> USE DEF TurnInv, TypeInv
<1>1. CASE Commit(c) BY <1>1, CommitPlaces
<1>2. CASE ~Commit(c)
  <2>1. UNCHANGED <<row, history, made, run>>
    BY <1>2 DEF Requests, Begin, AskToStop, Write, Abort
  <2>2. ASSUME \A d \in Clients : req'[d].phase = "written" => req'[d] = req[d] PROVE AnswersAll'
    BY <2>2 DEF PlaceInv, AnswersAll
  <2>3. ASSUME NEW kind \in Kinds, Begin(c, kind) PROVE AnswersAll'
    <3>1. \A d \in Clients : req'[d].phase = "written" => req'[d] = req[d]
      BY <2>3, BeginLeaves
    <3> QED BY <2>2, <3>1
  <2>4. ASSUME AskToStop(c) \/ Abort(c) PROVE AnswersAll'
    <3>1. \A d \in Clients : req'[d].phase = "written" => req'[d] = req[d]
      BY <2>4 DEF AskToStop, Abort, NoRequest, TypeOK
    <3> QED BY <2>2, <3>1
  <2>5. ASSUME Write(c) PROVE AnswersAll'
    <3>1. /\ \A e \in Clients : e = c /\ req[c].loaded.pending \subseteq Asks
          /\ req'[c].kind = req[c].kind /\ req'[c].loaded = req[c].loaded
      BY <2>5, WriteLeaves DEF Alone, TypeOK, Request, Row
    <3>2. req[c].kind = "resolve" => req'[c].answers \in Resolutions(req[c].loaded)
      BY <2>5, WriteLeaves
    <3>3. req[c].kind = "resolve" => \A a \in req[c].loaded.pending : req'[c].answers[a] # "none"
      BY <3>1, <3>2 DEF Resolutions
    <3> QED BY <3>1, <3>3 DEF AnswersAll
  <2>6. AnswersAll' BY <1>2, <2>3, <2>4, <2>5 DEF Requests
  <2> QED BY <2>1, <2>6, PlaceFrame
<1> QED BY <1>1, <1>2

LEMMA FaultPlaces ==
    ASSUME TypeOK, PlaceInv, NEW w \in Workers, RunFault(w)
    PROVE  PlaceInv'
<1>1. /\ UNCHANGED <<row, history, req, made>>
      /\ run'[w].phase \notin Loaded /\ \A v \in Workers : v # w => run'[v] = run[v]
  BY FaultLeaves DEF Loaded
<1>2. AnswersAll' BY <1>1 DEF PlaceInv, AnswersAll
<1>3. run'[w].phase = "pausing" => run'[w].reason # "stopped"
  <2>1. CASE Becomes(w, NoRun) BY <2>1 DEF Becomes, TypeOK, NoRun
  <2>2. ASSUME NEW phase, NEW reason \in {"none", "interrupted", "unavailable"},
               Becomes(w, [NoRun EXCEPT !.phase = phase, !.kick = run[w].kick, !.reason = reason])
        PROVE  run'[w].reason # "stopped"
    <3> DEFINE r == [NoRun EXCEPT !.phase = phase, !.kick = run[w].kick, !.reason = reason]
    <3>1. r.reason = reason BY DEF NoRun
    <3>2. run'[w] = r BY <2>2 DEF Becomes, TypeOK
    <3> HIDE DEF r
    <3> QED BY <3>1, <3>2
  <2> QED BY <2>1, <2>2 DEF RunFault, Crash, Cancel, Fail, Unreachable, RolledBack
<1> QED BY <1>1, <1>2, <1>3, PlaceFrame

LEMMA RunKeepsPlaces ==
    ASSUME Alone, TurnInv, RestInv, PlaceInv, NEW w \in Workers, RunStep(w)
    PROVE  PlaceInv'
<1> USE DEF TurnInv, TypeInv
<1>1. /\ UNCHANGED req /\ (~Reply(w) => UNCHANGED made)
      /\ \A v \in Workers : v # w => run'[v] = run[v]
  BY RunWrites
<1>2. AnswersAll' BY <1>1 DEF PlaceInv, AnswersAll
<1>3. ASSUME run[w].phase \in Holding, NEW v \in Workers, v # w PROVE run'[v].phase \notin Holding
  BY <1>1, <1>3, SoleHolder DEF ClaimInv
<1>4. ASSUME RowPlaces', HistoryInv', run[w].phase \in Holding,
             run'[w].phase \in Loaded => Fits(run[w])'
      PROVE  PlaceInv'
  <2>1. RunPlaces'
    BY <1>3, <1>4, RunPhases DEF RunPlaces, Loaded, Holding, Working
  <2> QED BY <1>2, <1>4, <2>1 DEF PlaceInv
<1>5. CASE LoopStep(w)
  <2>1. run[w].phase \in Holding BY <1>5, LoopFrame DEF Holding, Working
  <2>2. CASE Checkpoint(w) BY <1>4, <2>1, <2>2, CheckpointPlaces
  <2>3. CASE ~Checkpoint(w)
    <3>1. UNCHANGED row BY <1>5, <2>3, LoopFrame
    <3>2. UNCHANGED history /\ made \subseteq made'
      BY <1>5, <2>3 DEF LoopStep, Settle, AskAgain, Stop, Limit, Proceed, Reply, CutOff, Unavailable
    <3>3. RowPlaces' BY <3>1 DEF PlaceInv, RowPlaces
    <3>4. HistoryInv' BY <3>1, <3>2 DEF PlaceInv, HistoryInv, OpenCallsOnRow, Want
    <3> QED BY <1>4, <1>5, <2>1, <2>3, <3>3, <3>4, StepFits
  <2> QED BY <2>2, <2>3
<1>6. CASE Load(w) /\ row.status = "running"
  <2>1. /\ run'[w].phase = "loop" /\ run'[w].pending = row.pending
        /\ run'[w].completed = row.completed /\ run'[w].decisions = row.decisions
        /\ run'[w].batch = [NoBatch EXCEPT !.lead = News # {}]
    BY <1>6, LoadReads
  <2>2. LET b == [NoBatch EXCEPT !.lead = News # {}]
        IN  b.lead = (News # {}) /\ b.results = {} /\ b.said = FALSE /\ b.calls = {}
    BY DEF NoBatch
  <2>3. Blank(run'[w].batch) BY <2>1, <2>2, NoReport DEF Blank
  <2>4. UNCHANGED <<row, history, made>> /\ run[w].phase \in Holding
    BY <1>6 DEF Load, Holding, Working
  <2>5. Fits(run[w])' BY <2>1, <2>3, <2>4 DEF Fits, Unsettled, Blank
  <2>6. RowPlaces' BY <2>4 DEF PlaceInv, RowPlaces
  <2>7. HistoryInv' BY <2>4 DEF PlaceInv, HistoryInv, OpenCallsOnRow, Want
  <2> QED BY <1>4, <2>4, <2>5, <2>6, <2>7
<1>7. CASE run'[w].phase \notin Loaded
  <2>1. CASE EndTurn(w)
    <3>1. run[w].phase \in Holding BY <2>1 DEF EndTurn, Holding, Working
    <3> QED BY <1>4, <1>7, <2>1, <3>1, EndPlaces
  <2>2. CASE MarkPaused(w) \/ MarkFailed(w)
    <3>1. run[w].phase \in Holding BY <2>2 DEF MarkPaused, MarkFailed, Holding
    <3> QED BY <1>4, <1>7, <2>2, <3>1, MarkPlaces
  <2>3. CASE Claim(w)
    <3>1. /\ row'.status = row.status /\ row'.pending = row.pending
          /\ row'.completed = row.completed /\ row'.decisions = row.decisions
          /\ row'.pause = row.pause
      BY <2>3 DEF Claim, TypeOK, Row
    <3>2. UNCHANGED <<history, made>> BY <2>3 DEF Claim
    <3>3. RowPlaces' BY <3>1 DEF PlaceInv, RowPlaces
    <3>4. HistoryInv' BY <3>1, <3>2 DEF PlaceInv, HistoryInv, OpenCallsOnRow, Want
    <3>5. \A v \in Workers : v # w => run'[v].phase \notin Holding
      BY <1>1, <2>3, ClaimsFree
    <3>6. RunPlaces' BY <1>7, <3>5, RunPhases DEF RunPlaces, Loaded, Holding, Working
    <3> QED BY <1>2, <3>3, <3>4, <3>6 DEF PlaceInv
  <2>4. CASE ~Claim(w) /\ ~EndTurn(w) /\ ~MarkPaused(w) /\ ~MarkFailed(w)
    <3>1. ~LoopStep(w) BY <1>7, LoopHolds
    <3>2. UNCHANGED <<row, history, made>>
      BY <1>1, <2>4, <3>1, NoReport DEF RunStep, Deliver, GiveUp, Load, ClearFlag, Relay, RelayKick
    <3> QED BY <1>1, <1>2, <1>7, <3>2, PlaceFrame, RunPhases
  <2> QED BY <2>1, <2>2, <2>3, <2>4
<1> QED BY <1>5, <1>6, <1>7, RunPhases

LEMMA PlaceStep ==
    ASSUME Alone, TurnInv, RestInv, PlaceInv, [Next]_vars
    PROVE  PlaceInv'
<1>1. CASE FlagExpires \/ UNCHANGED vars
  <2>1. UNCHANGED <<row, history, made, req, run>> BY <1>1 DEF FlagExpires, vars
  <2>2. AnswersAll' BY <2>1 DEF PlaceInv, AnswersAll
  <2> QED BY <2>1, <2>2, PlaceFrame
<1> QED BY <1>1, RequestPlaces, RunKeepsPlaces, FaultPlaces, NoReport DEF Next, TurnInv, TypeInv

(* The calls without a result in the stored history are exactly the ones   *)
(* the turn still waits on, or has yet to execute: whoever takes one off   *)
(* the row stores its result in the same transaction.                      *)
THEOREM NoCallIsLost ==
    ASSUME Alone
    PROVE  Spec => []OpenCallsOnRow
<1>1. PlaceInv => OpenCallsOnRow BY DEF PlaceInv, HistoryInv
<1> QED BY <1>1, AloneIsSpare, InitTurn, TurnStep, InitRest, RestStep, InitPlaces, PlaceStep, PTL
        DEF Spec

(* Only a run that settles the row's calls executes any.                   *)
LEMMA RanStep ==
    ASSUME Alone, TypeOK, [Next]_vars, ran' # ran
    PROVE  \E w \in Workers : Settle(w)
<1>1. ASSUME NEW w \in Workers, RunStep(w), ~Settle(w) PROVE UNCHANGED ran
  <2>1. CASE Relay(w) BY <2>1 DEF Relay
  <2> QED BY <1>1, <2>1
      DEF RunStep, Deliver, Claim, GiveUp, Load, LoopStep, AskAgain, Stop, Limit, Proceed,
          Checkpoint, Reply, CutOff, Unavailable, EndTurn, ClearFlag, RelayKick, MarkPaused, MarkFailed
<1>2. ASSUME NEW c \in Clients, Requests(c) PROVE UNCHANGED ran
  BY <1>2 DEF Requests, Begin, AskToStop, Write, Commit, Abort
<1>3. CASE FlagExpires \/ UNCHANGED vars BY <1>3 DEF FlagExpires, vars
<1> QED BY <1>1, <1>2, <1>3, FaultLeaves, NoReport DEF Next

(* A call whose result is stored is never executed again, whoever answers, *)
(* resumes or takes the turn over.                                         *)
THEOREM StoredCallsStay ==
    ASSUME Alone
    PROVE  Spec => StoredNotRerun
<1>1. ASSUME TurnInv, RestInv, PlaceInv, [Next]_vars, NEW a \in Asks, ran'[a] # ran[a]
      PROVE  <<a, "gated">> \notin history.closed
  <2>1. PICK w \in Workers : Settle(w) BY <1>1, RanStep DEF TurnInv, TypeInv
  <2>2. run[w].phase = "loop" /\ run[w].pending # {} BY <2>1 DEF Settle
  <2>3. Unsettled(run[w])
    BY <1>1, <2>2 DEF PlaceInv, RunPlaces, Loaded, Fits, Settled, Asked
  <2>4. a \in run[w].pending
    <3>1. ran \in [Asks -> 0..MaxRuns] BY <1>1 DEF TurnInv, TypeInv, TypeOK
    <3>2. ran'[a] = IF a \in run[w].pending /\ run[w].decisions[a] = "approved" /\ ran[a] < MaxRuns
                    THEN ran[a] + 1 ELSE ran[a]
      BY <1>1, <2>1 DEF Settle
    <3> QED BY <1>1, <3>2
  <2>5. <<a, "gated">> \in Want BY <2>3, <2>4, CallSets DEF Unsettled, Want
  <2>6. row.status = "running"
    BY <1>1, <2>2, HoldersRun DEF RestInv, Holding, Working
  <2> QED BY <1>1, <2>5, <2>6 DEF PlaceInv, HistoryInv
<1>2. TurnInv /\ RestInv /\ PlaceInv /\ [Next]_vars =>
        [\A a \in Asks : ran'[a] # ran[a] => <<a, "gated">> \notin history.closed]_vars
  BY <1>1
<1> QED BY <1>2, AloneIsSpare, InitTurn, TurnStep, InitRest, RestStep, InitPlaces, PlaceStep, PTL
        DEF Spec, StoredNotRerun

(* What comes between calls and their results.                             *)
LEMMA Tears ==
    ASSUME NEW b, history' = AppendMessages(b), ~b.lead, ~history.torn, history'.torn
    PROVE  \/ ~(b.results \subseteq history.open)
           \/ (b.said \/ b.calls # {}) /\ history.open \ b.results # {}
BY DEF AppendMessages

LEMMA WholeStays ==
    ASSUME NEW b, history' = AppendMessages(b), ~b.lead, ~history.torn,
           history.open = Want,
           b.results = Want \/ (b.results = {} /\ Want = {}) \/ Blank(b)
    PROVE  ~history'.torn
<1>1. b.results \subseteq history.open BY DEF Blank
<1>2. b.said \/ b.calls # {} => history.open \ b.results = {} BY DEF Blank
<1> QED BY <1>1, <1>2, Tears

LEMMA CommitTears ==
    ASSUME Alone, TurnInv, RestInv, PlaceInv, NEW c \in Clients, Commit(c),
           ~history.torn, history'.torn
    PROVE  /\ req[c].phase = "written" /\ req[c].kind = "send"
           /\ req[c].loaded.status = "paused" /\ req[c].loaded.pending # {}
           /\ req'[c].phase = "none"
<1> DEFINE r == req[c]
<1>1. /\ r \in Request /\ r.phase = "written" /\ r.loaded = row
      /\ Accepts(r.kind, row.status) /\ req'[c].phase = "none"
  BY CommitWrites
<1>2. history' = AppendMessages(Said(r)) BY DEF Commit
<1> HIDE DEF r
<1>3. row.status # "failed" BY <1>1 DEF Accepts, ACCEPTS_MESSAGES
<1>4. history.open = Want BY <1>3 DEF PlaceInv, HistoryInv, OpenCallsOnRow, Want
<1>5. ~Saying.lead /\ Saying.results = {} /\ ~NoBatch.lead /\ Blank(NoBatch)
  BY DEF Saying, NoBatch, Blank
<1>6. row.completed \subseteq row.pending BY DEF PlaceInv, RowPlaces
<1>7. ASSUME row.pending = {} PROVE Want = {}
  <2>1. row.completed = {} BY <1>6, <1>7
  <2> QED BY <1>7, <2>1, CallSets DEF Want
<1>8. r.kind # "stop"
  <2> SUFFICES ASSUME r.kind = "stop" PROVE FALSE
    OBVIOUS
  <2>1. StopResults(r.loaded) = Want BY <1>1 DEF StopResults, Want
  <2>2. history' = AppendMessages([Saying EXCEPT !.results = Want]) BY <1>2, <2>1 DEF Said
  <2>3. ASSUME NEW W PROVE LET b == [Saying EXCEPT !.results = W] IN ~b.lead /\ b.results = W
    BY DEF Saying, NoBatch
  <2> QED BY <1>4, <2>2, <2>3, WholeStays
<1>9. r.kind # "resolve" BY <1>2, <1>4, <1>5, WholeStays DEF Said
<1>10. r.kind # "resume"
  <2> SUFFICES ASSUME r.kind = "resume" PROVE FALSE
    OBVIOUS
  <2>1. CASE row.pause = "stopped"
    <3>1. Want = {} BY <1>7, <2>1 DEF PlaceInv, RowPlaces
    <3> QED BY <1>1, <1>2, <1>4, <1>5, <2>1, <3>1, WholeStays DEF Said
  <2>2. CASE row.pause # "stopped" BY <1>1, <1>2, <1>4, <1>5, <2>2, WholeStays DEF Said
  <2> QED BY <2>1, <2>2
<1>11. r.kind = "send" BY <1>1, <1>8, <1>9, <1>10 DEF Request, Kinds
<1>12. row.pending # {} BY <1>2, <1>4, <1>5, <1>7, <1>11, WholeStays DEF Said
<1>13. row.status = "paused"
  BY <1>1, <1>11, <1>12 DEF Accepts, ACCEPTS_MESSAGES, PlaceInv, RowPlaces
<1> QED BY <1>1, <1>11, <1>12, <1>13 DEF r

LEMMA RunTears ==
    ASSUME Alone, TurnInv, RestInv, PlaceInv, NEW w \in Workers, RunStep(w), ~history.torn
    PROVE  ~history'.torn
<1> USE DEF TurnInv, TypeInv
<1>1. ASSUME run[w].phase \in Holding PROVE row.status = "running" /\ history.open = Want
  <2>1. row.status = "running" BY <1>1, HoldersRun DEF RestInv
  <2> QED BY <2>1 DEF PlaceInv, HistoryInv, OpenCallsOnRow, Want
<1>2. CASE Checkpoint(w)
  <2>1. run[w].phase = "store" /\ history' = AppendMessages(run[w].batch) BY <1>2 DEF Checkpoint
  <2>2. Settled(run[w]) BY <2>1 DEF PlaceInv, RunPlaces, Loaded, Fits, Unsettled, Asked
  <2> QED BY <1>1, <2>1, <2>2, WholeStays DEF Settled, Holding, Working
<1>3. CASE EndTurn(w)
  <2> DEFINE r == run[w]
  <2>1. r.phase = "end" /\ history' = AppendMessages(EndBatch(r)) /\ r \in Run
    BY <1>3, RunParts DEF EndTurn
  <2>2. Fits(r) BY <2>1 DEF PlaceInv, RunPlaces, Loaded
  <2>3. /\ EndBatch(r).lead = r.batch.lead /\ EndBatch(r).results = r.batch.results
        /\ r.result # "stopped" => EndBatch(r) = r.batch
    BY <2>1, EndBatchParts DEF EndBatch
  <2>4. history.open = Want BY <1>1, <2>1 DEF Holding, Working
  <2> HIDE DEF r
  <2>5. CASE Unsettled(r)
    <3>1. EndBatch(r) = r.batch /\ Blank(r.batch) BY <2>1, <2>3, <2>5 DEF Unsettled
    <3> QED BY <2>1, <2>4, <3>1, WholeStays DEF Blank
  <2>6. CASE Settled(r)
    <3>1. ~EndBatch(r).lead /\ EndBatch(r).results = Want BY <2>3, <2>6 DEF Settled
    <3> QED BY <2>1, <2>4, <3>1, WholeStays
  <2>7. CASE Asked(r)
    <3>1. row.pending = {} /\ row.completed = {} BY <2>7 DEF Asked, PlaceInv, RowPlaces
    <3>2. Want = {} BY <3>1, CallSets DEF Want
    <3>3. ~EndBatch(r).lead /\ EndBatch(r).results = {} BY <2>3, <2>7 DEF Asked
    <3> QED BY <2>1, <2>4, <3>2, <3>3, WholeStays
  <2> QED BY <2>2, <2>5, <2>6, <2>7 DEF Fits
<1>4. CASE ~Checkpoint(w) /\ ~EndTurn(w)
  <2>1. CASE Relay(w) BY <2>1 DEF Relay
  <2> QED BY <1>4, <2>1
      DEF RunStep, Deliver, Claim, GiveUp, Load, LoopStep, Settle, AskAgain, Stop, Limit, Proceed,
          Reply, CutOff, Unavailable, ClearFlag, RelayKick, MarkPaused, MarkFailed
<1> QED BY <1>2, <1>3, <1>4

(* Nothing is ever stored between calls and their results -- but for a     *)
(* message the user sends to a turn that was interrupted with calls still  *)
(* to run.                                                                 *)
THEOREM HistoriesStayWhole ==
    ASSUME Alone
    PROVE  Spec => HistoryWhole
<1>1. ASSUME TurnInv, RestInv, PlaceInv, [Next]_vars, history'.torn, ~history.torn
      PROVE  \E c \in Clients : /\ req[c].phase = "written" /\ req[c].kind = "send"
                                /\ req[c].loaded.status = "paused" /\ req[c].loaded.pending # {}
                                /\ req'[c].phase = "none"
  <2>1. CASE \E c \in Clients : Commit(c) BY <1>1, <2>1, CommitTears
  <2>2. CASE UNCHANGED history BY <1>1, <2>2
  <2>3. ASSUME NEW c \in Clients, Requests(c), ~Commit(c) PROVE UNCHANGED history
    BY <2>3 DEF Requests, Begin, AskToStop, Write, Abort
  <2>4. FlagExpires \/ UNCHANGED vars => UNCHANGED history BY DEF FlagExpires, vars
  <2> QED BY <1>1, <2>1, <2>2, <2>3, <2>4, RunTears, FaultLeaves, NoReport
          DEF Next, TurnInv, TypeInv
<1>2. TurnInv /\ RestInv /\ PlaceInv /\ [Next]_vars =>
        [history'.torn /\ ~history.torn =>
          \E c \in Clients : /\ req[c].phase = "written" /\ req[c].kind = "send"
                             /\ req[c].loaded.status = "paused" /\ req[c].loaded.pending # {}
                             /\ req'[c].phase = "none"]_vars
  BY <1>1
<1> QED BY <1>2, AloneIsSpare, InitTurn, TurnStep, InitRest, RestStep, InitPlaces, PlaceStep, PTL
        DEF Spec, HistoryWhole

-----------------------------------------------------------------------------
(* The contract.                                                           *)

(* Where a call is, by the row and the history alone.                      *)
LifeNow(a) ==
    IF row.status # "failed" /\ a \in row.pending
    THEN IF row.status = "awaiting_client" THEN "waiting" ELSE "answered"
    ELSE IF <<a, "gated">> \in history.closed THEN "settled"
         ELSE IF <<a, "gated">> \in history.open THEN "dropped" ELSE "new"

LEMMA LifeIs ==
    ASSUME TypeOK, PlaceInv, NEW a
    PROVE  Life(a) = LifeNow(a)
<1>1. row.status \in Statuses BY DEF TypeOK, Row
<1>2. <<a, "gated">> \in Want <=> a \in row.pending BY CallSets DEF Want
<1>3. <<a, "gated">> \in history.open => <<a, "gated">> \notin history.closed
  BY DEF PlaceInv, HistoryInv
<1>4. row.status # "failed" /\ a \in row.pending =>
        /\ <<a, "gated">> \in history.open
        /\ row.decisions[a] = "none" <=> row.status = "awaiting_client"
  BY <1>1, <1>2 DEF PlaceInv, HistoryInv, RowPlaces, Statuses
<1>5. CASE row.status # "failed" /\ a \in row.pending
  BY <1>3, <1>4, <1>5 DEF Life, LifeNow
<1>6. CASE ~(row.status # "failed" /\ a \in row.pending)
  BY <1>3, <1>6 DEF Life, LifeNow
<1> QED BY <1>5, <1>6

(* ... and the same after a step.                                          *)
LEMMA LifeIsThen ==
    ASSUME TypeOK', PlaceInv', NEW a
    PROVE  Life(a)' = LifeNow(a)'
<1>1. row'.status \in Statuses BY DEF TypeOK, Row
<1>2. <<a, "gated">> \in Want' <=> a \in row'.pending BY CallSets DEF Want
<1>3. <<a, "gated">> \in history'.open => <<a, "gated">> \notin history'.closed
  BY DEF PlaceInv, HistoryInv
<1>4. row'.status # "failed" /\ a \in row'.pending =>
        /\ <<a, "gated">> \in history'.open
        /\ row'.decisions[a] = "none" <=> row'.status = "awaiting_client"
  BY <1>1, <1>2 DEF PlaceInv, HistoryInv, RowPlaces, Statuses
<1>5. CASE row'.status # "failed" /\ a \in row'.pending
  BY <1>3, <1>4, <1>5 DEF Life, LifeNow
<1>6. CASE ~(row'.status # "failed" /\ a \in row'.pending)
  BY <1>3, <1>6 DEF Life, LifeNow
<1> QED BY <1>5, <1>6

(* A step that stores the results of all the row's calls settles them.     *)
LEMMA LivesSettled ==
    ASSUME PlaceInv, row.status # "failed", row'.pending = {},
           history'.open = history.open \ Want, history'.closed = history.closed \cup Want, NEW a
    PROVE  LifeNow(a)' = IF a \in row.pending THEN "settled" ELSE LifeNow(a)
<1>1. <<a, "gated">> \in Want <=> a \in row.pending BY CallSets DEF Want
<1> QED BY <1>1 DEF LifeNow

(* One that takes them off the row, or fails, and stores none drops them.  *)
LEMMA LivesDropped ==
    ASSUME PlaceInv, row.status # "failed", row'.pending = {} \/ row'.status = "failed",
           history'.open = history.open, history'.closed = history.closed, NEW a
    PROVE  LifeNow(a)' = IF a \in row.pending THEN "dropped" ELSE LifeNow(a)
<1>1. <<a, "gated">> \in Want <=> a \in row.pending BY CallSets DEF Want
<1>2. a \in row.pending => <<a, "gated">> \in history.open /\ <<a, "gated">> \notin history.closed
  BY <1>1 DEF PlaceInv, HistoryInv
<1> QED BY <1>2 DEF LifeNow

(* One that leaves them where they are.                                    *)
LEMMA LivesKept ==
    ASSUME row.status # "failed", row'.status # "failed", row'.pending = row.pending,
           history'.open = history.open, history'.closed = history.closed, NEW a
    PROVE  LifeNow(a)' = IF a \in row.pending
                         THEN IF row'.status = "awaiting_client" THEN "waiting" ELSE "answered"
                         ELSE LifeNow(a)
BY DEF LifeNow

(* The calls that wait, or are answered, are those on the row.             *)
LEMMA LivesOnRow ==
    ASSUME row.status # "failed", NEW a
    PROVE  /\ LifeNow(a) = "waiting" <=> a \in row.pending /\ row.status = "awaiting_client"
           /\ LifeNow(a) = "answered" <=> a \in row.pending /\ row.status # "awaiting_client"
BY DEF LifeNow

CallLives == [a \in Asks |-> Life(a)]

LEMMA StepLives ==
    ASSUME TypeOK, TypeOK', PlaceInv, PlaceInv'
    PROVE  /\ CallLives = [a \in Asks |-> LifeNow(a)]
           /\ CallLives' = [a \in Asks |-> LifeNow(a)']
BY LifeIs, LifeIsThen DEF CallLives

(* The moves of the contract, with the lives spelled out.                  *)
LEMMA LivesGoOn ==
    ASSUME TypeOK, TypeOK', PlaceInv, PlaceInv', row.status # "failed", NEW from, NEW to,
           \A a \in Asks : LifeNow(a)' = IF a \in row.pending THEN to ELSE LifeNow(a),
           from = IF row.status = "awaiting_client" THEN "waiting" ELSE "answered"
    PROVE  CallLives' = Contract!All({from}, to)
<1>1. \A a \in Asks : CallLives[a] = LifeNow(a) BY StepLives
<1>2. \A a \in Asks : LifeNow(a) \in {from} <=> a \in row.pending BY LivesOnRow
<1>3. \A a \in Asks : LifeNow(a)' = IF CallLives[a] \in {from} THEN to ELSE CallLives[a] BY <1>1, <1>2
<1>4. CallLives' = [a \in Asks |-> IF CallLives[a] \in {from} THEN to ELSE CallLives[a]] BY <1>3, StepLives
<1> QED BY <1>4 DEF Contract!All, CallLives

LEMMA CommitKeeps ==
    ASSUME Alone, TurnInv, RestInv, PlaceInv, TypeOK', PlaceInv', NEW c \in Clients, Commit(c)
    PROVE  Contract!Start \/ Contract!Resume \/ Contract!Answer \/ Contract!StopWaiting
<1> USE DEF TurnInv, TypeInv
<1> DEFINE r == req[c]
<1>1. /\ r \in Request /\ r.loaded = row /\ Accepts(r.kind, row.status)
      /\ row.status # "running" /\ row' = ApplyTurnState(row, Saved(r))
  BY CommitWrites
<1>2. history' = AppendMessages(Said(r)) BY DEF Commit
<1> HIDE DEF r
<1>3. row'.status = Saved(r).status /\ row'.pending = Saved(r).pending
  BY <1>1 DEF ApplyTurnState
<1>4. row.status # "failed" BY <1>1 DEF Accepts, ACCEPTS_MESSAGES
<1>5. /\ ~Saying.lead /\ Saying.results = {} /\ Saying.calls = {}
      /\ ~NoBatch.lead /\ NoBatch.results = {} /\ NoBatch.calls = {}
  BY DEF Saying, NoBatch
<1>6. r.kind # "stop" =>
         history'.open = history.open /\ history'.closed = history.closed
  <2>1. ASSUME NEW b \in {Saying, NoBatch}, history' = AppendMessages(b)
        PROVE  history'.open = history.open /\ history'.closed = history.closed
    <3>1. ~b.lead /\ b.results = {} /\ b.calls = {} BY <1>5
    <3> QED BY <2>1, <3>1, Appends
  <2>2. r.kind # "stop" => Said(r) \in {Saying, NoBatch} BY <1>1 DEF Said, Request, Kinds
  <2> QED BY <1>2, <2>1, <2>2
<1>7. CASE r.kind = "send"
  <2>1. row'.status = "running" /\ row'.pending = {} BY <1>3, <1>7 DEF Saved, TurnState
  <2>2. row.status \in {"idle", "paused"} BY <1>1, <1>7 DEF Accepts, ACCEPTS_MESSAGES
  <2>3. \A a \in Asks : LifeNow(a)' = IF a \in row.pending THEN "dropped" ELSE LifeNow(a)
    BY <1>4, <1>6, <1>7, <2>1, LivesDropped
  <2>4. CallLives' = Contract!All({"answered"}, "dropped") BY <1>4, <2>2, <2>3, LivesGoOn
  <2> QED BY <2>1, <2>2, <2>4 DEF Contract!Start, CallLives
<1>8. CASE r.kind = "resume"
  <2>1. row.status = "paused" /\ row'.status = "running" /\ row'.pending = row.pending
    BY <1>1, <1>3, <1>8 DEF Saved, Accepts
  <2>2. \A a \in Asks : LifeNow(a)' = LifeNow(a)
    BY <1>4, <1>6, <1>8, <2>1, LivesKept, LivesOnRow
  <2>3. CallLives' = CallLives BY <2>2, StepLives
  <2> QED BY <2>1, <2>3 DEF Contract!Resume, CallLives
<1>9. CASE r.kind = "resolve"
  <2>1. row.status = "awaiting_client" /\ row'.status = "running" /\ row'.pending = row.pending
    BY <1>1, <1>3, <1>9 DEF Saved, Accepts
  <2>2. \A a \in Asks : LifeNow(a)' = IF a \in row.pending THEN "answered" ELSE LifeNow(a)
    BY <1>4, <1>6, <1>9, <2>1, LivesKept
  <2>3. CallLives' = Contract!All({"waiting"}, "answered") BY <1>4, <2>1, <2>2, LivesGoOn
  <2> QED BY <2>1, <2>3 DEF Contract!Answer, CallLives
<1>10. CASE r.kind = "stop"
  <2>1. row.status = "awaiting_client" /\ row'.status = "paused" /\ row'.pending = {}
    BY <1>1, <1>3, <1>10 DEF Saved, TurnState, Accepts
  <2>2. StopResults(r.loaded) = Want BY <1>1 DEF StopResults, Want
  <2>3. history' = AppendMessages([Saying EXCEPT !.results = Want]) BY <1>2, <1>10, <2>2 DEF Said
  <2>4. ASSUME NEW W
        PROVE  LET b == [Saying EXCEPT !.results = W]
               IN  ~b.lead /\ b.results = W /\ b.calls = {}
    BY DEF Saying, NoBatch
  <2>5. history'.open = history.open \ Want /\ history'.closed = history.closed \cup Want
    <3> DEFINE b == [Saying EXCEPT !.results = Want]
    <3>1. ~b.lead /\ b.results = Want /\ b.calls = {} BY <2>4
    <3> HIDE DEF b
    <3>2. history' = AppendMessages(b) BY <2>3 DEF b
    <3> QED BY <3>1, <3>2, Appends
  <2>6. \A a \in Asks : LifeNow(a)' = IF a \in row.pending THEN "settled" ELSE LifeNow(a)
    BY <1>4, <2>1, <2>5, LivesSettled
  <2>7. CallLives' = Contract!All({"waiting"}, "settled") BY <1>4, <2>1, <2>6, LivesGoOn
  <2> QED BY <2>1, <2>7 DEF Contract!StopWaiting, CallLives
<1> QED BY <1>1, <1>7, <1>8, <1>9, <1>10 DEF Request, Kinds

LEMMA CheckpointKeeps ==
    ASSUME Alone, TurnInv, RestInv, PlaceInv, TypeOK', PlaceInv', NEW w \in Workers, Checkpoint(w)
    PROVE  Contract!Settle
<1> USE DEF TurnInv, TypeInv
<1>1. run[w].phase = "store" /\ history' = AppendMessages(run[w].batch) BY DEF Checkpoint
<1>2. Settled(run[w]) BY <1>1 DEF PlaceInv, RunPlaces, Loaded, Fits, Unsettled, Asked
<1>3. row.status = "running" BY <1>1, HoldersRun DEF RestInv, Holding, Working
<1>4. row'.status = "running" /\ row'.pending = {} BY CheckpointWrites DEF ApplyTurnState
<1>5. history'.open = history.open \ Want /\ history'.closed = history.closed \cup Want
  BY <1>1, <1>2, Appends DEF Settled
<1>6. \A a \in Asks : LifeNow(a)' = IF a \in row.pending THEN "settled" ELSE LifeNow(a)
  BY <1>3, <1>4, <1>5, LivesSettled
<1>7. CallLives' = Contract!All({"answered"}, "settled") BY <1>3, <1>6, LivesGoOn
<1> QED BY <1>3, <1>4, <1>7 DEF Contract!Settle, CallLives

LEMMA EndKeeps ==
    ASSUME Alone, TurnInv, RestInv, PlaceInv, TypeOK', PlaceInv', NEW w \in Workers, EndTurn(w)
    PROVE  Contract!Finish \/ Contract!Ask \/ Contract!Pause \/ Contract!Fail
<1> USE DEF TurnInv, TypeInv
<1> DEFINE r == run[w]
<1>1. /\ r.phase = "end" /\ history' = AppendMessages(EndBatch(r)) /\ r \in Run
  BY RunParts DEF EndTurn
<1>2. Fits(r) BY <1>1 DEF PlaceInv, RunPlaces, Loaded
<1>3. row.status = "running" BY <1>1, HoldersRun DEF RestInv, Holding, Working
<1>4. row'.status = STATUS_AFTER(r.result) /\ row'.pending = r.pending
  <2>1. row' = ApplyTurnState(row, EndState(r)) BY EndWrites
  <2>2. EndState(r).status = STATUS_AFTER(r.result) /\ EndState(r).pending = r.pending
    BY DEF EndState
  <2> HIDE DEF r
  <2> QED BY <2>1, <2>2 DEF ApplyTurnState
<1>5. /\ EndBatch(r).lead = r.batch.lead /\ EndBatch(r).results = r.batch.results
      /\ EndBatch(r).calls = r.batch.calls
  BY <1>1, EndBatchParts
<1> HIDE DEF r
<1>6. CASE Unsettled(r)
  <2>1. row'.status = "failed" BY <1>1, <1>4, <1>6 DEF Unsettled, STATUS_AFTER
  <2>2. history'.open = history.open /\ history'.closed = history.closed
    <3>1. ~EndBatch(r).lead /\ EndBatch(r).results = {} /\ EndBatch(r).calls = {}
      BY <1>5, <1>6 DEF Unsettled, Blank
    <3> QED BY <1>1, <3>1, Appends
  <2>3. \A a \in Asks : LifeNow(a)' = IF a \in row.pending THEN "dropped" ELSE LifeNow(a)
    BY <1>3, <2>1, <2>2, LivesDropped
  <2>4. CallLives' = Contract!All({"answered"}, "dropped") BY <1>3, <2>3, LivesGoOn
  <2> QED BY <1>3, <2>1, <2>4 DEF Contract!Fail, CallLives
<1>7. CASE Settled(r)
  <2>1. row'.pending = {} BY <1>4, <1>7 DEF Settled
  <2>2. ~EndBatch(r).lead /\ EndBatch(r).results = Want /\ EndBatch(r).calls = {}
    BY <1>5, <1>7 DEF Settled
  <2>3. history'.open = history.open \ Want /\ history'.closed = history.closed \cup Want
    BY <1>1, <2>2, Appends
  <2>4. \A a \in Asks : LifeNow(a)' = IF a \in row.pending THEN "settled" ELSE LifeNow(a)
    BY <1>3, <2>1, <2>3, LivesSettled
  <2>5. CallLives' = Contract!All({"answered"}, "settled") BY <1>3, <2>4, LivesGoOn
  <2>6. CASE row'.status = "paused" BY <1>3, <2>5, <2>6 DEF Contract!Pause, CallLives
  <2>7. CASE row'.status = "failed" BY <1>3, <2>5, <2>7 DEF Contract!Fail, CallLives
  <2>8. CASE row'.status \notin {"paused", "failed"}
    <3>1. r.result \in {"completed", "awaiting_client"} BY <1>4, <2>8 DEF STATUS_AFTER
    <3>2. r.result = "completed" /\ row.pending = {} BY <1>1, <1>7, <3>1 DEF Settled
    <3>3. row'.status = "idle" BY <1>4, <3>2 DEF STATUS_AFTER
    <3>4. CallLives' = CallLives BY <2>4, <3>2, StepLives
    <3>5. \A a \in Asks : CallLives[a] # "answered" BY <1>3, <3>2, LivesOnRow, StepLives
    <3> QED BY <1>3, <3>3, <3>4, <3>5 DEF Contract!Finish, Contract!Some, CallLives
  <2> QED BY <2>6, <2>7, <2>8
<1>8. CASE Asked(r)
  <2>1. /\ row'.status = "awaiting_client" /\ r.pending # {} /\ r.pending \subseteq Asks
        /\ row.pending = {}
    BY <1>1, <1>4, <1>8 DEF Asked, STATUS_AFTER, TypeOK
  <2>2. ~EndBatch(r).lead /\ EndBatch(r).results = {} BY <1>5, <1>8 DEF Asked
  <2>3. /\ history'.open = history.open \cup Gated(r.pending) \cup Beside(r.completed)
        /\ history'.closed = history.closed
    <3>1. EndBatch(r).calls = Gated(r.pending) \cup Beside(r.completed) BY <1>5, <1>8 DEF Asked
    <3> QED BY <1>1, <2>2, <3>1, Appends
  <2>4. ASSUME NEW a \in Asks
        PROVE  /\ LifeNow(a)' = IF a \in r.pending THEN "waiting" ELSE LifeNow(a)
               /\ a \in r.pending => LifeNow(a) = "new"
    <3>1. <<a, "gated">> \in Gated(r.pending) \cup Beside(r.completed) <=> a \in r.pending
      BY CallSets
    <3>2. a \in r.pending => <<a, "gated">> \notin history.open \cup history.closed
      BY <1>8 DEF Asked
    <3> QED BY <1>3, <1>4, <2>1, <2>3, <3>1, <3>2 DEF LifeNow
  <2>5. \A a \in Asks : CallLives[a] # "answered" BY <1>3, <2>1, LivesOnRow, StepLives
  <2>6. /\ CallLives' = [a \in Asks |-> IF a \in r.pending THEN "waiting" ELSE CallLives[a]]
        /\ \A a \in r.pending : CallLives[a] = "new"
    BY <2>1, <2>4, StepLives
  <2>7. r.pending \in (SUBSET Asks) \ {{}} BY <2>1
  <2> QED BY <1>3, <2>1, <2>5, <2>6, <2>7 DEF Contract!Ask, Contract!Some, CallLives
<1> QED BY <1>2, <1>6, <1>7, <1>8 DEF Fits

LEMMA MarkKeeps ==
    ASSUME Alone, TurnInv, RestInv, PlaceInv, TypeOK', PlaceInv', NEW w \in Workers,
           MarkPaused(w) \/ MarkFailed(w)
    PROVE  Contract!Pause \/ Contract!Fail
<1> USE DEF TurnInv, TypeInv
<1>1. UNCHANGED history BY DEF MarkPaused, MarkFailed
<1>2. row.status = "running" BY MarkWrites
<1>3. CASE row' = ApplyTurnState(row, PausedTurn(run[w].reason))
  <2>1. row'.status = "paused" /\ row'.pending = row.pending
    BY <1>3 DEF ApplyTurnState, PausedTurn
  <2>2. \A a \in Asks : LifeNow(a)' = LifeNow(a)
    BY <1>1, <1>2, <2>1, LivesKept, LivesOnRow
  <2>3. CallLives' = CallLives BY <2>2, StepLives
  <2> QED BY <1>2, <2>1, <2>3 DEF Contract!Pause, CallLives
<1>4. CASE row' = ApplyTurnState(row, TurnState("failed"))
  <2>1. row'.status = "failed" BY <1>4 DEF ApplyTurnState, TurnState
  <2>2. \A a \in Asks : LifeNow(a)' = IF a \in row.pending THEN "dropped" ELSE LifeNow(a)
    BY <1>1, <1>2, <2>1, LivesDropped
  <2>3. CallLives' = Contract!All({"answered"}, "dropped") BY <1>2, <2>2, LivesGoOn
  <2> QED BY <1>2, <2>1, <2>3 DEF Contract!Fail, CallLives
<1> QED BY <1>3, <1>4, MarkWrites

(* Every other step leaves what an app sees as it is.                      *)
LEMMA SeenKept ==
    ASSUME row'.status = row.status, row'.pending = row.pending, row'.decisions = row.decisions,
           UNCHANGED history
    PROVE  UNCHANGED Contract!vars
BY DEF Contract!vars, Life

LEMMA StepKeeps ==
    ASSUME Alone, TurnInv, TurnInv', RestInv, PlaceInv, PlaceInv', [Next]_vars
    PROVE  [Contract!Next]_(Contract!vars)
<1> USE DEF TurnInv, TypeInv
<1>1. ASSUME NEW c \in Clients, Requests(c) PROVE [Contract!Next]_(Contract!vars)
  <2>1. CASE Commit(c) BY <2>1, CommitKeeps DEF Contract!Next
  <2>2. CASE ~Commit(c)
    <3>1. UNCHANGED <<row, history>> BY <1>1, <2>2 DEF Requests, Begin, AskToStop, Write, Abort
    <3> QED BY <3>1, SeenKept
  <2> QED BY <2>1, <2>2
<1>2. ASSUME NEW w \in Workers, RunStep(w) PROVE [Contract!Next]_(Contract!vars)
  <2>1. CASE Checkpoint(w) BY <2>1, CheckpointKeeps DEF Contract!Next
  <2>2. CASE EndTurn(w) BY <2>2, EndKeeps DEF Contract!Next
  <2>3. CASE MarkPaused(w) \/ MarkFailed(w) BY <2>3, MarkKeeps DEF Contract!Next
  <2>4. CASE Claim(w)
    <3>1. /\ row'.status = row.status /\ row'.pending = row.pending
          /\ row'.decisions = row.decisions /\ UNCHANGED history
      BY <2>4 DEF Claim, TypeOK, Row
    <3> QED BY <3>1, SeenKept
  <2>5. CASE ~Checkpoint(w) /\ ~EndTurn(w) /\ ~MarkPaused(w) /\ ~MarkFailed(w) /\ ~Claim(w)
    <3>1. UNCHANGED row BY <1>2, <2>5, RunWrites
    <3>2. CASE Relay(w)
      <4>1. UNCHANGED history BY <3>2 DEF Relay
      <4> QED BY <3>1, <4>1, SeenKept
    <3>3. CASE ~Relay(w)
      <4>1. UNCHANGED history
        BY <1>2, <2>5, <3>3
        DEF RunStep, Deliver, GiveUp, Load, LoopStep, Settle, AskAgain, Stop, Limit, Proceed, Reply,
            CutOff, Unavailable, ClearFlag, RelayKick
      <4> QED BY <3>1, <4>1, SeenKept
    <3> QED BY <3>2, <3>3
  <2> QED BY <2>1, <2>2, <2>3, <2>4, <2>5
<1>3. ASSUME NEW w \in Workers, RunFault(w) PROVE [Contract!Next]_(Contract!vars)
  BY <1>3, FaultLeaves, SeenKept
<1>4. CASE FlagExpires \/ UNCHANGED vars
  <2>1. UNCHANGED <<row, history>> BY <1>4 DEF FlagExpires, vars
  <2> QED BY <2>1, SeenKept
<1> QED BY <1>1, <1>2, <1>3, <1>4, NoReport DEF Next

(* Seen from outside, a conversation used by one app keeps the contract:   *)
(* every commit of a request, every checkpoint, every end of a turn and    *)
(* every mark left by a run that was cut off is one of its moves, and      *)
(* nothing else shows.                                                     *)
THEOREM TurnImplementsContract ==
    ASSUME Alone
    PROVE  Spec => KeepsContract
<1>1. Init => Contract!Init BY DEF Init, IdleRow, Life, Contract!Init
<1>2. TurnInv /\ TurnInv' /\ RestInv /\ PlaceInv /\ PlaceInv' /\ [Next]_vars
         => [Contract!Next]_(Contract!vars)
  BY StepKeeps
<1> QED BY <1>1, <1>2, AloneIsSpare, InitTurn, TurnStep, InitRest, RestStep, InitPlaces, PlaceStep,
           PTL DEF Spec, KeepsContract, Contract!Spec

(* A call waits for the user exactly while the turn says it awaits the     *)
(* client, and answers are held by turns that can act on them.             *)
THEOREM CallsWaitWhileAwaited ==
    ASSUME Alone
    PROVE  Spec => []WaitsWhileAwaited
<1>1. ASSUME TurnInv, PlaceInv PROVE WaitsWhileAwaited
  <2>1. \A a \in Asks : Life(a) = LifeNow(a) BY <1>1, LifeIs DEF TurnInv, TypeInv
  <2>2. row.pending \subseteq Asks /\ row.status \in Statuses BY <1>1 DEF TurnInv, TypeInv, TypeOK, Row
  <2>3. row.status = "awaiting_client" => row.pending # {} BY <1>1 DEF PlaceInv, RowPlaces
  <2>4. row.status = "idle" => row.pending = {} BY <1>1 DEF PlaceInv, RowPlaces
  <2>5. \A a \in Asks : LifeNow(a) = "waiting" =>
           a \in row.pending /\ row.status = "awaiting_client"
    BY DEF LifeNow
  <2>6. \A a \in Asks : LifeNow(a) = "answered" =>
           a \in row.pending /\ row.status \notin {"awaiting_client", "failed"}
    BY DEF LifeNow
  <2>7. row.status = "awaiting_client" => \E a \in Asks : LifeNow(a) = "waiting"
    BY <2>2, <2>3 DEF LifeNow
  <2>8. row.status = "awaiting_client" <=> \E a \in Asks : Life(a) = "waiting" BY <2>1, <2>5, <2>7
  <2>9. (\E a \in Asks : Life(a) = "answered") => row.status \in {"running", "paused"}
    BY <2>1, <2>2, <2>4, <2>6 DEF Statuses
  <2> QED BY <2>8, <2>9 DEF WaitsWhileAwaited, Contract!WaitsWhileAwaited, Contract!Some
<1> QED BY <1>1, AloneIsSpare, InitTurn, TurnStep, InitRest, RestStep, InitPlaces, PlaceStep, PTL
        DEF Spec
=============================================================================
