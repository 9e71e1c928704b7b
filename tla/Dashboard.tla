------------------------------ MODULE Dashboard ------------------------------
(***************************************************************************)
(* The CX dashboard put together: every section a task of its own that     *)
(* reads the CRM in stages, the reads more than one section needs made     *)
(* once and waited for by all of them, a few requests out at a time, a     *)
(* request told to slow down tried again, and what a failed read makes of  *)
(* the sections that wait for it.                                          *)
(***************************************************************************)
EXTENDS Naturals, FiniteSets, Sequences

CONSTANTS
    Sections,       \* the sections looked at
    CONCURRENCY,    \* requests out at once
    RETRIES,        \* times a request told to slow down is tried again
    PAGE_SIZE,      \* rows in a page
    LIMIT,          \* the most rows one read fetches, config.MAX_*
    Sizes           \* rows a paged read may find in the CRM

VARIABLES
    token,      \* the scopes the key was given, {"invalid"} when CX refuses it
    there,      \* paged read -> rows it would find
    reads,      \* read -> how far it is
    made,       \* read -> how often it was begun
    sections,   \* section -> how far it is
    board       \* "account", "sections", or what the panel was handed

vars == <<token, there, reads, made, sections, board>>

-----------------------------------------------------------------------------
\* What each section reads, stage by stage.
Stages == [
    leads        |-> << {"contacts", "contacts_count"} >>,
    inbox        |-> << {"waiting", "conversations_count"} >>,
    pipeline     |-> << {"opportunities", "pipelines"} >>,
    sales        |-> << {"opportunities"} >>,
    appointments |-> << {"calendars"}, {"events"} >>,
    team         |-> << {"opportunities", "waiting"}, {"users"} >>,
    payments     |-> << {"transactions"} >>,
    growth       |-> << {"month_counts"}, {"opportunities"}, {"transactions"} >>,
    conversion   |-> << {"contacts", "opportunities"} >>,
    response     |-> << {"conversations"}, {"messages"} >>,
    ads          |-> << {"contacts"} >>,
    handovers    |-> << {"contacts"} >>,
    tasks        |-> << {"tasks"} >>,
    social       |-> << {"social_accounts"}, {"social_statistics", "social_posts"} >>,
    retention    |-> << {"transactions"}, {"subscriptions"} >>,
    nps          |-> << {"surveys"}, {"survey_submissions"} >>]

\* Reads that page: by the last row's cursor, by offset, by number.  The others are one
\* request, or one for each of what the stage before found.
ByCursor == {"contacts", "opportunities", "waiting", "conversations", "tasks"}
ByOffset == {"transactions", "subscriptions", "social_posts"}
ByPage == {"survey_submissions"}
Paged == ByCursor \cup ByOffset \cup ByPage

\* Stages that may find nothing to read further on.
MayEnd == {"appointments", "response", "social", "nps"}

\* Sections that say they are partial when a read left rows behind.
SaysPartial == [leads |-> "contacts", inbox |-> "waiting", pipeline |-> "opportunities",
                payments |-> "transactions"]

\* A read whose missing scope a section does without.
Optional == {<<"team", "users">>, <<"growth", "transactions">>, <<"retention", "subscriptions">>}

Shared == {"contacts", "opportunities", "waiting", "users", "transactions"}
ReadOf(section, op) == IF op \in Shared THEN <<"shared", op>> ELSE <<section, op>>

Reads == UNION {{ReadOf(s, op) : op \in UNION {Stages[s][i] : i \in DOMAIN Stages[s]}} : s \in Sections}

\* The scope CX wants for an operation, and the scopes a locked section asks for.
ScopeOf(op) ==
    CASE op \in {"contacts", "contacts_count", "month_counts"} -> "contacts"
      [] op \in {"waiting", "conversations", "conversations_count"} -> "conversations"
      [] op \in {"opportunities", "pipelines"} -> "opportunities"
      [] OTHER -> op

SCOPES == [
    leads |-> {"contacts"}, inbox |-> {"conversations"}, pipeline |-> {"opportunities"},
    sales |-> {"opportunities"}, appointments |-> {"calendars", "events"}, team |-> {"users"},
    payments |-> {"transactions"}, growth |-> {"contacts", "opportunities"},
    conversion |-> {"contacts", "opportunities"}, response |-> {"conversations", "messages"},
    ads |-> {"contacts"}, handovers |-> {"contacts"}, tasks |-> {"tasks"},
    social |-> {"social_accounts", "social_statistics"}, retention |-> {"transactions"},
    nps |-> {"surveys"}]

Scopes == {ScopeOf(r[2]) : r \in Reads}

Unread == [at |-> "none", tries |-> 0, rows |-> 0]
Waiting == [at |-> "waiting", tries |-> 0, rows |-> 0]

Init ==
    /\ token \in SUBSET Scopes \cup {{"invalid"}}
    /\ there \in [{r \in Reads : r[2] \in Paged} -> Sizes]
    /\ reads = [r \in Reads |-> Unread]
    /\ made = [r \in Reads |-> 0]
    /\ sections = [s \in Sections |-> [stage |-> 0, status |-> "none", truncated |-> FALSE]]
    /\ board = "account"

Least(a, b) == IF a < b THEN a ELSE b

-----------------------------------------------------------------------------
\* CXClient.request.
Out == {r \in Reads : reads[r].at = "out"}
FreeSlot == Cardinality(Out) < CONCURRENCY

Send(r) ==
    /\ reads[r].at = "waiting"
    /\ FreeSlot
    /\ reads' = [reads EXCEPT ![r].at = "out"]
    /\ UNCHANGED <<token, there, made, sections, board>>

\* Told to slow down, it gives its slot back and waits, unless it was its last try.
SlowDown(r) ==
    /\ reads[r].at = "out"
    /\ reads' = [reads EXCEPT ![r] =
           IF @.tries = RETRIES THEN [@ EXCEPT !.at = "limited"]
                                ELSE [@ EXCEPT !.at = "waiting", !.tries = @ + 1]]
    /\ UNCHANGED <<token, there, made, sections, board>>

\* A page, the last one when it is short, the cap is reached or its rows carry no cursor.
Answers(r) ==
    /\ reads[r].at = "out"
    /\ ScopeOf(r[2]) \in token
    /\ IF r[2] \notin Paged THEN reads' = [reads EXCEPT ![r] = [Unread EXCEPT !.at = "ok"]]
       ELSE LET page == Least(PAGE_SIZE, there[r] - reads[r].rows)
                rows == reads[r].rows + page
                whole == page < PAGE_SIZE \/ rows >= LIMIT
            IN  \E stops \in BOOLEAN :
                /\ whole => stops
                /\ ~whole /\ stops => r[2] \in ByCursor
                /\ reads' = [reads EXCEPT ![r] =
                       [at |-> IF stops THEN "ok" ELSE "waiting", tries |-> 0, rows |-> rows]]
    /\ UNCHANGED <<token, there, made, sections, board>>

\* Whether CX had more rows than were read: its total says so.
More(r) == there[r] > reads[r].rows

\* Only the wording tells a scope the key was not given from a key CX refuses.
Refuse(r) ==
    /\ reads[r].at = "out"
    /\ ScopeOf(r[2]) \notin token
    /\ reads' = [reads EXCEPT ![r].at = IF token = {"invalid"} THEN "invalid" ELSE "missing"]
    /\ UNCHANGED <<token, there, made, sections, board>>

\* No answer, an error, or no JSON.
Break(r) ==
    /\ reads[r].at = "out"
    /\ reads' = [reads EXCEPT ![r].at = "failed"]
    /\ UNCHANGED <<token, there, made, sections, board>>

-----------------------------------------------------------------------------
Ops(s) == Stages[s][sections[s].stage]
StageReads(s) == {ReadOf(s, op) : op \in Ops(s)}
Failed == {"limited", "missing", "invalid", "failed"}

\* The location is read first; whatever comes of it, the sections follow.
Account ==
    /\ board = "account"
    /\ board' = "sections"
    /\ UNCHANGED <<token, there, reads, made, sections>>

\* _Shared.get: the first to ask makes the read, the others wait for the same one.
NotYetMade(r) == reads[r].at = "none"

Enters(s, stage) ==
    LET asked == {ReadOf(s, op) : op \in Stages[s][stage]}
        fresh == {r \in asked : NotYetMade(r)}
    IN  /\ reads' = [r \in Reads |-> IF r \in fresh THEN Waiting ELSE reads[r]]
        /\ made' = [r \in Reads |-> made[r] + (IF r \in fresh THEN 1 ELSE 0)]
        /\ sections' = [sections EXCEPT ![s].stage = stage]

Start(s) ==
    /\ board = "sections"
    /\ sections[s].stage = 0
    /\ Enters(s, 1)
    /\ UNCHANGED <<token, there, board>>

\* Every read of the stage is there: the next stage, or the section is worked out.
Ends(s, status) ==
    /\ sections' = [sections EXCEPT ![s].status = status, ![s].truncated =
           status = "ok" /\ s \in DOMAIN SaysPartial /\ More(ReadOf(s, SaysPartial[s]))]
    /\ UNCHANGED <<reads, made>>

GoOn(s, status) ==
    IF sections[s].stage < Len(Stages[s]) THEN Enters(s, sections[s].stage + 1) ELSE Ends(s, status)

Busy(s) == board = "sections" /\ sections[s].stage > 0 /\ sections[s].status = "none"

Advance(s) ==
    /\ Busy(s)
    /\ \A r \in StageReads(s) : reads[r].at = "ok"
    /\ GoOn(s, "ok") \/ (s \in MayEnd /\ sections[s].stage = 1 /\ Ends(s, "ok"))
    /\ UNCHANGED <<token, there, board>>

\* A scope the section does without.
DoWithout(s) ==
    /\ Busy(s)
    /\ \E op \in Ops(s) : <<s, op>> \in Optional /\ reads[ReadOf(s, op)].at = "missing"
    /\ GoOn(s, "partial")
    /\ UNCHANGED <<token, there, board>>

\* _section: a read of the stage raised, and the section says which kind of trouble it was.
StatusFor(at) ==
    CASE at = "missing" -> "missing_scope" [] at = "invalid" -> "invalid_token" [] OTHER -> "error"

Lock(s) ==
    /\ Busy(s)
    /\ \E op \in Ops(s) :
        LET at == reads[ReadOf(s, op)].at IN
        /\ at \in Failed
        /\ at = "missing" => <<s, op>> \notin Optional
        /\ Ends(s, StatusFor(at))
    /\ UNCHANGED <<token, there, board>>

\* shared.close, and what the panel is handed.
Hand ==
    /\ board = "sections"
    /\ \A s \in Sections : sections[s].status # "none"
    /\ board' = IF \E s \in Sections : sections[s].status = "invalid_token" THEN "invalid token" ELSE "shown"
    /\ reads' = [r \in Reads |->
           IF r[1] = "shared" /\ reads[r].at \in {"waiting", "out"} THEN [reads[r] EXCEPT !.at = "cancelled"]
           ELSE reads[r]]
    /\ UNCHANGED <<token, there, made, sections>>

Next ==
    \/ \E r \in Reads : Send(r) \/ SlowDown(r) \/ Answers(r) \/ Refuse(r) \/ Break(r)
    \/ \E s \in Sections : Start(s) \/ Advance(s) \/ DoWithout(s) \/ Lock(s)
    \/ Account \/ Hand

Spec == Init /\ [][Next]_vars

-----------------------------------------------------------------------------
ReadsOf(s) == UNION {{ReadOf(s, op) : op \in Stages[s][i]} : i \in DOMAIN Stages[s]}

TypeOK ==
    /\ token \subseteq Scopes \cup {"invalid"}
    /\ \A r \in Reads : reads[r].tries <= RETRIES /\ reads[r].rows <= LIMIT + PAGE_SIZE
    /\ \A s \in Sections : sections[s].stage \in 0..Len(Stages[s])

\* Each section stands on its own: it shows when every read it needs was answered, and
\* when it does not one of its own reads is why, whatever other sections made of the reads
\* they share with it and in whatever order the answers came (service.build, _section).
SectionsStandAlone ==
    \A s \in Sections :
        LET own == {reads[r].at : r \in ReadsOf(s)} \ {"none"} IN
        /\ sections[s].status = "ok" => own = {"ok"}
        /\ sections[s].status = "partial" => own = {"ok", "missing"}
        /\ sections[s].status = "missing_scope" => "missing" \in own
        /\ sections[s].status = "error" => own \cap {"limited", "failed"} # {}

\* A section that shows fewer rows than CX has says that it is partial: the caps and a
\* cursor that gives out are never taken for the end (client.contacts and its like).
PartialSaysSo ==
    \A s \in Sections \cap DOMAIN SaysPartial :
        LET read == ReadOf(s, SaysPartial[s]) IN
        sections[s].status = "ok" /\ reads[read].rows < there[read] => sections[s].truncated

\* A read several sections need is made once, and no more requests are out than the limit.
ReadOnce ==
    /\ \A r \in Reads : made[r] <= 1
    /\ Cardinality(Out) <= CONCURRENCY

\* "Says which scope to add": a locked section asks for a scope the key does not have.
LockedSaysWhich ==
    \A s \in Sections : sections[s].status = "missing_scope" => ~(SCOPES[s] \subseteq token)
=============================================================================
