----------------------------- MODULE ContactReply -----------------------------
(***************************************************************************)
(* Answering a client from the dashboard (cx_dashboard/fastapi/routes.py   *)
(* conversation_route and reply_route, details.py, client.py): a person    *)
(* opens a conversation page by page, and answers it on the channel the    *)
(* client last wrote on, while the client, an automation and other people  *)
(* keep writing.  Some channels close WINDOW after the client's last word; *)
(* CX may slow a request down, refuse it, or act on it and not answer.     *)
(***************************************************************************)
EXTENDS Integers, Sequences, FiniteSets, FiniteSetsExt

CONSTANTS
    People,       \* who has the conversation open in a panel
    PAGE,         \* messages of a page
    WINDOW,       \* how long a windowed channel stays open
    RETRIES,      \* how often a request that was told to slow down is sent again
    MaxMessages,  \* bound: messages others write
    MaxReplies,   \* bound: replies a person asks for
    MaxTime       \* bound: the clock

VARIABLES
    now,
    thread,   \* the messages of the conversation CX holds, oldest first
    ask,      \* what each person's request is doing
    pages,    \* what each person's panel has loaded: the messages, the cursor, the newest then
    told      \* how each finished reply was answered, and what had happened

vars == <<now, thread, ask, pages, told>>

\* Email and calls cannot be answered from here; SMS has no window.
Channels == {"WhatsApp", "SMS", "Email"}
Answerable == {"WhatsApp", "SMS"}
Windowed == {"WhatsApp"}

Idle == [at |-> "idle"]
Init ==
    /\ now = 1 /\ thread = <<>>
    /\ ask = [p \in People |-> Idle]
    /\ pages = [p \in People |-> [loaded |-> {}, before |-> 0, newest |-> 0]]
    /\ told = <<>>

-----------------------------------------------------------------------------
Latest(s) == IF s = {} THEN 0 ELSE Max(s)

\* One page of messages, the newest first, before the cursor (0: from the newest).
Page(before) ==
    LET last == IF before = 0 THEN Len(thread) ELSE before - 1 IN
    {i \in DOMAIN thread : i <= last /\ i > last - PAGE}
Cursor(page) == IF page = {} \/ Min(page) = 1 THEN 0 ELSE Min(page)

Spoken(page) == {i \in page : thread[i].from # "system"}
Inbound(page) == {i \in page : thread[i].from = "client"}

\* The channel the client last wrote on, else the last one used at all.
ReplyType(page) ==
    LET last == Latest(IF Inbound(page) # {} THEN Inbound(page) ELSE Spoken(page)) IN
    IF last = 0 \/ thread[last].channel \notin Answerable THEN "none" ELSE thread[last].channel

\* When the client last wrote on that channel; for WhatsApp the conversation's own record
\* knows, when the page does not.
LastInbound(page, kind, record) ==
    LET times == {thread[i].at : i \in {j \in Inbound(page) : thread[j].channel = kind}} IN
    IF times = {} /\ kind = "WhatsApp" THEN record ELSE Latest(times)

WindowOpen(page, kind, record) ==
    /\ kind # "none"
    /\ kind \in Windowed =>
        LET last == LastInbound(page, kind, record) IN last # 0 /\ now < last + WINDOW

Heard(channel) == Latest({thread[i].at : i \in {j \in DOMAIN thread : thread[j].from = "client" /\ thread[j].channel = channel}})

-----------------------------------------------------------------------------
\* Opens the conversation on its latest page, or loads the page before.
OpenConversation(p) ==
    /\ ask[p].at = "idle" /\ thread # <<>>
    /\ pages' = [pages EXCEPT ![p] =
           [loaded |-> Page(0), before |-> Cursor(Page(0)), newest |-> Len(thread)]]
    /\ UNCHANGED <<now, thread, ask, told>>

LoadBefore(p) ==
    /\ ask[p].at = "idle" /\ pages[p].before # 0
    /\ pages' = [pages EXCEPT ![p].loaded = @ \union Page(pages[p].before),
                              ![p].before = Cursor(Page(pages[p].before))]
    /\ UNCHANGED <<now, thread, ask, told>>

Becomes(p, a) == ask' = [ask EXCEPT ![p] = a] /\ UNCHANGED <<now, pages>>
Answered(p, answer) ==
    /\ told' = Append(told, [answer |-> answer, kind |-> ask[p].kind, record |-> ask[p].record,
                             checked |-> ask[p].checked, sent |-> ask[p].sent])
    /\ Becomes(p, Idle)

\* reply_route reads the conversation, then its latest page, then sends.
Reply(p) ==
    /\ ask[p].at = "idle" /\ thread # <<>> /\ Len(told) < MaxReplies
    /\ Becomes(p, [at |-> "page", record |-> Heard("WhatsApp"), tries |-> RETRIES, sent |-> 0,
                   kind |-> "none", checked |-> 0])
    /\ UNCHANGED <<thread, told>>

\* A window that is closed is not written into.
Check(p) ==
    /\ ask[p].at = "page"
    /\ LET kind == ReplyType(Page(0))
           seen == [ask[p] EXCEPT !.kind = kind, !.checked = now]
       IN  IF WindowOpen(Page(0), kind, ask[p].record)
           THEN Becomes(p, [seen EXCEPT !.at = "send"]) /\ UNCHANGED told
           ELSE /\ told' = Append(told, [answer |-> "closed", kind |-> kind, record |-> ask[p].record,
                                         checked |-> now, sent |-> 0])
                /\ Becomes(p, Idle)
    /\ UNCHANGED thread

Posted(p) == Append(thread, [channel |-> ask[p].kind, from |-> "us", at |-> now])
CxAllows(kind) == kind \in Windowed => Heard(kind) # 0 /\ now < Heard(kind) + WINDOW

\* CX takes the message and says so.
Send(p) ==
    /\ ask[p].at = "send" /\ CxAllows(ask[p].kind)
    /\ thread' = Posted(p)
    /\ told' = Append(told, [answer |-> "sent", kind |-> ask[p].kind, record |-> ask[p].record,
                             checked |-> ask[p].checked, sent |-> ask[p].sent + 1])
    /\ Becomes(p, Idle)

\* CX took it and its answer is lost (a timeout, an answer that is no JSON).
\* Mutant: a request whose answer was lost is sent again.
TriesAgain(p) == Becomes(p, [ask[p] EXCEPT !.sent = @ + 1, !.tries = @ - 1]) /\ ask[p].tries > 0 /\ UNCHANGED told
GivesUp(p) ==
    /\ told' = Append(told, [answer |-> "rejected", kind |-> ask[p].kind, record |-> ask[p].record,
                             checked |-> ask[p].checked, sent |-> ask[p].sent + 1])
    /\ Becomes(p, Idle)
AfterLost(p) == GivesUp(p)
SendUnanswered(p) ==
    /\ ask[p].at = "send" /\ CxAllows(ask[p].kind)
    /\ thread' = Posted(p)
    /\ AfterLost(p)

\* CX says no, or nothing ever reached it.
Rejected(p) == ask[p].at = "send" /\ Answered(p, "rejected") /\ UNCHANGED thread

\* Told to slow down, the request waits and is sent again; at last CX's limit is the answer.
SlowDown(p) ==
    /\ ask[p].at = "send"
    /\ IF ask[p].tries > 0
       THEN Becomes(p, [ask[p] EXCEPT !.tries = @ - 1]) /\ UNCHANGED told
       ELSE Answered(p, "rate_limited")
    /\ UNCHANGED thread

-----------------------------------------------------------------------------
\* Everybody else: the client, an automation, the system's own notes.
Writes(from, channel) ==
    /\ Len(thread) < MaxMessages
    /\ thread' = Append(thread, [channel |-> channel, from |-> from, at |-> now])
    /\ UNCHANGED <<now, ask, pages, told>>

Tick == now < MaxTime /\ now' = now + 1 /\ UNCHANGED <<thread, ask, pages, told>>

Next ==
    \/ \E p \in People :
        \/ OpenConversation(p) \/ LoadBefore(p) \/ Reply(p) \/ Check(p)
        \/ Send(p) \/ SendUnanswered(p) \/ Rejected(p) \/ SlowDown(p)
    \/ \E c \in Channels : Writes("client", c)
    \/ \E c \in Answerable : Writes("us", c)
    \/ Writes("system", "SMS")
    \/ Tick

Spec == Init /\ [][Next]_vars

-----------------------------------------------------------------------------
TypeOK ==
    /\ now \in 1..MaxTime
    /\ \A i \in DOMAIN thread : thread[i].channel \in Channels /\ thread[i].at \in 1..now
    /\ \A p \in People : ask[p].at \in {"idle", "page", "send"} /\ pages[p].loaded \subseteq DOMAIN thread

\* A person told that a WhatsApp window is closed could not have answered when asking: however
\* much has been written since, the client's last word there was WINDOW or longer ago
\* (details.reply_window, last_inbound).
ClosedIsClosed ==
    \A i \in DOMAIN told :
        told[i].answer = "closed" /\ told[i].kind = "WhatsApp" =>
            told[i].record = 0 \/ told[i].checked >= told[i].record + WINDOW

\* One reply puts at most one message into the conversation, through every retry
\* (client.request: only a request CX did not take is sent again).
SentOnce == \A i \in DOMAIN told : told[i].sent <= 1

\* Page after page, the panel reaches the start of the conversation having shown every
\* message of it, whatever is written meanwhile (client.message_page).
PagesMissNothing ==
    \A p \in People : pages[p].newest # 0 /\ pages[p].before = 0 => pages[p].loaded = 1..pages[p].newest

ReplySafe == ClosedIsClosed /\ SentOnce /\ PagesMissNothing

\* A reply that its person is told was not sent was not sent (reply_route: "Sends exactly one
\* message; when CX refuses (...), says why instead").
NotSentIsNotSent == \A i \in DOMAIN told : told[i].answer # "sent" => told[i].sent = 0
=============================================================================
