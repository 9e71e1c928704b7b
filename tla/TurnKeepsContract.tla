------------------------- MODULE TurnKeepsContract -------------------------
(* ConversationTurn implements TurnContract: the refinement mapping.       *)
EXTENDS MCConversationTurn

(* A call is settled once its result is stored; before that it is as the   *)
(* row has it, and a call left in the history of which the row no longer   *)
(* speaks, or that belongs to a failed turn, is dropped.                   *)
Life(a) ==
    CASE <<a, "gated">> \in history.closed -> "settled"
      [] <<a, "gated">> \notin history.open \cup history.closed -> "new"
      [] OTHER -> IF a \notin row.pending \/ row.status = "failed" THEN "dropped"
                  ELSE IF row.decisions[a] = "none" THEN "waiting" ELSE "answered"

Contract == INSTANCE TurnContract WITH status <- row.status, life <- [a \in Asks |-> Life(a)]

(* Seen from outside, a conversation used by one app keeps the contract,   *)
(* though its row and its history are written by requests, by checkpoints, *)
(* by ends of turns and by what is done about a run that failed.           *)
KeepsContract == Contract!Spec

(* ... and what the contract implies: a call waits exactly while the turn  *)
(* says it awaits the client, and answers are held by turns that can act.  *)
WaitsWhileAwaited == Contract!WaitsWhileAwaited
=============================================================================
