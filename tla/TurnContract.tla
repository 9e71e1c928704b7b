---------------------------- MODULE TurnContract ----------------------------
(***************************************************************************)
(* What a conversation promises the apps that use it, with no word of rows,*)
(* queues, workers or claims: the status an app sees, and the life of each *)
(* call that needs the user's answer.                                      *)
(*                                                                         *)
(* A call waits only while the turn awaits the client; all the calls that  *)
(* wait are answered together; an answered call is settled -- its result   *)
(* stored -- before the model is asked anything more, and never waits or   *)
(* runs again after that.  Only a new message, or a failed turn, leaves a  *)
(* call without a result.                                                  *)
(***************************************************************************)
CONSTANT Asks   \* gated calls the model may make

VARIABLES
    status,   \* of the conversation, as an app reads it
    life      \* of each call

vars == <<status, life>>

Statuses == {"idle", "running", "awaiting_client", "paused", "failed"}
Lives == {"new", "waiting", "answered", "settled", "dropped"}

TypeOK == status \in Statuses /\ life \in [Asks -> Lives]

(* Every call in one of the lives in from goes on to the life to.          *)
All(from, to) == [a \in Asks |-> IF life[a] \in from THEN to ELSE life[a]]

Some(l) == \E a \in Asks : life[a] = l

Init ==
    /\ status = "idle"
    /\ life = [a \in Asks |-> "new"]

(* A message from the user, or the report of a background task.            *)
Start ==
    /\ status \in {"idle", "paused"}
    /\ status' = "running"
    /\ life' = All({"answered"}, "dropped")

Resume ==
    /\ status = "paused"
    /\ status' = "running"
    /\ UNCHANGED life

(* The model makes calls that need an answer.                              *)
Ask ==
    /\ status = "running"
    /\ ~Some("answered")
    /\ status' = "awaiting_client"
    /\ \E asks \in (SUBSET Asks) \ {{}} :
          /\ \A a \in asks : life[a] = "new"
          /\ life' = [a \in Asks |-> IF a \in asks THEN "waiting" ELSE life[a]]

(* The user answers every call, and the turn runs on ...                   *)
Answer ==
    /\ status = "awaiting_client"
    /\ status' = "running"
    /\ life' = All({"waiting"}, "answered")

(* ... or stops the turn, which settles them unrun.                        *)
StopWaiting ==
    /\ status = "awaiting_client"
    /\ status' = "paused"
    /\ life' = All({"waiting"}, "settled")

Settle ==
    /\ status = "running"
    /\ life' = All({"answered"}, "settled")
    /\ UNCHANGED status

Finish ==
    /\ status = "running"
    /\ ~Some("answered")
    /\ status' = "idle"
    /\ UNCHANGED life

Pause ==
    /\ status = "running"
    /\ status' = "paused"
    /\ life' \in {life, All({"answered"}, "settled")}

Fail ==
    /\ status = "running"
    /\ status' = "failed"
    /\ life' \in {All({"answered"}, "dropped"), All({"answered"}, "settled")}

Next ==
    \/ Start \/ Resume \/ Ask \/ Answer \/ StopWaiting
    \/ Settle \/ Finish \/ Pause \/ Fail

Spec == Init /\ [][Next]_vars

(* A call waits for the user exactly while the turn says it awaits the     *)
(* client, and an answer is held only by a turn that can still act on it.  *)
WaitsWhileAwaited ==
    /\ status = "awaiting_client" <=> Some("waiting")
    /\ Some("answered") => status \in {"running", "paused"}
=============================================================================
