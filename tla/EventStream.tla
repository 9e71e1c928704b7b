----------------------------- MODULE EventStream -----------------------------
(***************************************************************************)
(* What a conversation tells whoever is watching it: the stream of its     *)
(* events in Redis, those who publish to it, and the watchers that are     *)
(* handed the conversation's state and then relayed what is published      *)
(* after a point fixed before that state was read.                         *)
(*                                                                         *)
(* A worker publishes a state it has committed; a route publishes the      *)
(* state it has written, and commits when it has answered.                 *)
(***************************************************************************)
EXTENDS Naturals, FiniteSets, FiniteSetsExt, Functions

CONSTANTS
    Workers,    \* runs of turns that save the conversation
    Routes,     \* requests that save it
    Watchers,   \* clients that follow it
    MAX_LENGTH, \* events the stream keeps at least
    COUNT,      \* events one read returns at most
    MaxSaves,   \* bound: states of the conversation
    MaxEvents   \* bound: events published

VARIABLES
    saved,      \* the conversation's committed state, the how manyth
    writers,    \* run or request -> the state it has written, and how far it got with it
    stream,     \* id -> the state the event tells, 0 for an event that is not a status
    last,       \* id of the newest event ever published
    dropped,    \* ids trimmed or expired
    untold,     \* has an event not been published because Redis was not there
    watchers    \* client -> what it follows and was told

vars == <<saved, writers, stream, last, dropped, untold, watchers>>

START == 0
TEXT == 0
Resting == [at |-> "rest", state |-> 0]

\* since is where the client's first connection began, got what it received from then on.
Off == [at |-> "off", after |-> START, since |-> START, got |-> {}, shown |-> 0]

Init ==
    /\ saved = 1
    /\ writers = [w \in Workers \cup Routes |-> Resting]
    /\ stream = [e \in {} |-> TEXT]
    /\ last = START
    /\ dropped = {}
    /\ untold = FALSE
    /\ watchers = [w \in Watchers |-> Off]

Kept == DOMAIN stream

\* XADD with an approximate length: the oldest go, never the newest MAX_LENGTH.
Publish(state) ==
    /\ last < MaxEvents
    /\ last' = last + 1
    /\ \E oldest \in 1..(last + 1) :
        LET gone == {e \in Kept : e < oldest} IN
        /\ oldest > 1 => last + 1 - oldest >= MAX_LENGTH - 1
        /\ stream' = [e \in (Kept \cup {last + 1}) \ gone |-> IF e = last + 1 THEN state ELSE stream[e]]
        /\ dropped' = dropped \cup gone

\* The row is locked from the write to the commit.
RowFree == \A w \in Routes : writers[w].at = "rest"

Goes(w, at, state) == writers' = [writers EXCEPT ![w] = [at |-> at, state |-> state]]

-----------------------------------------------------------------------------
\* A turn's run commits the state it saved, then says it; telling is best effort.
WorkerSaves(w) ==
    /\ writers[w].at = "rest"
    /\ RowFree
    /\ saved < MaxSaves
    /\ saved' = saved + 1
    /\ Goes(w, "saved", saved + 1)
    /\ UNCHANGED <<stream, last, dropped, untold, watchers>>

WorkerTells(w) ==
    /\ writers[w].at = "saved"
    /\ Publish(writers[w].state)
    /\ Goes(w, "rest", 0)
    /\ UNCHANGED <<saved, untold, watchers>>

Text(w) ==
    /\ writers[w].at = "rest"
    /\ Publish(TEXT)
    /\ UNCHANGED <<saved, writers, untold, watchers>>

\* send_message, resolve_tool_calls, resume: the state is written, told, then committed.
RouteWrites(r) ==
    /\ writers[r].at = "rest"
    /\ RowFree
    /\ saved < MaxSaves
    /\ Goes(r, "written", saved + 1)
    /\ UNCHANGED <<saved, stream, last, dropped, untold, watchers>>

RouteTells(r) ==
    /\ writers[r].at = "written"
    /\ Publish(writers[r].state)
    /\ Goes(r, "told", writers[r].state)
    /\ UNCHANGED <<saved, untold, watchers>>

RouteCommits(r) ==
    /\ writers[r].at = "told"
    /\ saved' = writers[r].state
    /\ Goes(r, "rest", 0)
    /\ UNCHANGED <<stream, last, dropped, untold, watchers>>

\* Redis is not there.
NotPublished(w) ==
    /\ writers[w].at \in {"saved", "written"}
    /\ untold' = TRUE
    /\ writers' = [writers EXCEPT ![w] = IF @.at = "saved" THEN Resting ELSE [@ EXCEPT !.at = "told"]]
    /\ UNCHANGED <<saved, stream, last, dropped, watchers>>

\* An idle stream expires, or Redis loses it.
Expire ==
    /\ Kept # {}
    /\ dropped' = dropped \cup Kept
    /\ stream' = Restrict(stream, {})
    /\ UNCHANGED <<saved, writers, last, untold, watchers>>

-----------------------------------------------------------------------------
LastId == IF Kept = {} THEN START ELSE Max(Kept)

\* The last event the client got, while it remembers one.
ResumePoint(w) == IF watchers[w].got = {} THEN START ELSE Max(watchers[w].got)

\* The point to read from is fixed first: after the last event the client got, or at the
\* end of the stream.
Watch(w) ==
    LET point == ResumePoint(w) IN
    /\ watchers[w].at = "off"
    /\ watchers' = [watchers EXCEPT ![w] =
           IF point # START THEN [@ EXCEPT !.at = "fixed", !.after = point]
                            ELSE [Off EXCEPT !.at = "fixed", !.after = LastId, !.since = LastId]]
    /\ UNCHANGED <<saved, writers, stream, last, dropped, untold>>

\* The snapshot bears no id: it does not move the client's resume point.
\* Mutant: the snapshot moves the resume point to the newest event.
NewestId(w) == IF LastId > watchers[w].after THEN {LastId} ELSE {}
NoId(w) == {}

Snapshot(w) ==
    /\ watchers[w].at = "fixed"
    /\ watchers' = [watchers EXCEPT ![w].at = "open", ![w].shown = saved, ![w].got = @ \cup NoId(w)]
    /\ UNCHANGED <<saved, writers, stream, last, dropped, untold>>

\* The events of one read, all of them or those before the client went away.
After(w) == {e \in Kept : e > watchers[w].after}
Told(shown, events) ==
    LET states == {e \in events : stream[e] # TEXT} IN
    IF states = {} THEN shown ELSE stream[Max(states)]

Follow(w) ==
    LET r == watchers[w]
        batch == {e \in After(w) : Cardinality({x \in After(w) : x <= e}) <= COUNT} IN
    /\ r.at = "open"
    /\ batch # {}
    /\ \E upto \in batch :
        LET events == {e \in batch : e <= upto} IN
        watchers' = [watchers EXCEPT ![w] =
            [r EXCEPT !.at = IF events = batch THEN "open" ELSE "off", !.after = upto,
                      !.got = r.got \cup events, !.shown = Told(r.shown, events)]]
    /\ UNCHANGED <<saved, writers, stream, last, dropped, untold>>

\* Its time is up, the stream cannot be read, or the client went away.
Leave(w) ==
    /\ watchers[w].at # "off"
    /\ watchers' = [watchers EXCEPT ![w].at = "off"]
    /\ UNCHANGED <<saved, writers, stream, last, dropped, untold>>

Next ==
    \/ \E w \in Workers : WorkerSaves(w) \/ WorkerTells(w) \/ Text(w)
    \/ \E r \in Routes : RouteWrites(r) \/ RouteTells(r) \/ RouteCommits(r)
    \/ \E w \in Workers \cup Routes : NotPublished(w)
    \/ \E w \in Watchers : Watch(w) \/ Snapshot(w) \/ Follow(w) \/ Leave(w)
    \/ Expire

Spec == Init /\ [][Next]_vars

-----------------------------------------------------------------------------
TypeOK ==
    /\ saved \in 1..MaxSaves
    /\ \A w \in DOMAIN writers : writers[w].at \in {"rest", "saved", "written", "told"}
    /\ Kept \cup dropped = 1..last /\ Kept \cap dropped = {}
    /\ \A w \in Watchers : watchers[w].at \in {"off", "fixed", "open"} /\ watchers[w].got \subseteq 1..last

\* A client that reconnects with Last-Event-ID loses nothing the stream still holds: from
\* its first connection to the last event it got there is no gap but what was trimmed
\* (conversations/events.follow).
ReconnectLosesNothing ==
    \A w \in Watchers :
        LET r == watchers[w] IN
        r.got # {} => {e \in (r.since + 1)..Max(r.got) : e \notin r.got} \subseteq dropped

\* "Nothing can fall between the two": a client that has read everything shows the
\* conversation as it is, when nobody is half way through saving and telling it.
NothingFallsBetween ==
    \A w \in Watchers :
        /\ watchers[w].at = "open"
        /\ watchers[w].after = last
        /\ \A x \in DOMAIN writers : writers[x].at = "rest"
        /\ ~untold
        => watchers[w].shown = saved
=============================================================================
