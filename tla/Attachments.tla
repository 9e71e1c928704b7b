----------------------------- MODULE Attachments -----------------------------
(***************************************************************************)
(* The files a user attaches to a message (conversations/attachments.py).  *)
(* One is uploaded into the drafts project first, so that the message      *)
(* keeps only a reference to it; each time the conversation is sent to the *)
(* model, every reference is opened up again: a note of where the file is, *)
(* then its picture or its text.                                           *)
(*                                                                         *)
(* Pictures made ready for the model are kept by the worker's process for  *)
(* all its conversations.  What a file holds is a number that grows with   *)
(* every edit of it.                                                       *)
(***************************************************************************)
EXTENDS Naturals, Sequences, SequencesExt, FiniteSets, FiniteSetsExt

CONSTANTS
    Clients,                   \* uploads under way at once
    Turns,                     \* conversations, each with one turn at work
    Names, Kinds,              \* Kinds \subseteq {"image", "broken", "text", "long", "other"}
    ATTACHMENT_IMAGE_MESSAGES, ATTACHMENT_CACHE_SIZE,
    MaxFiles, MaxMessages, MaxEdits   \* bounds

VARIABLES
    files,      \* id -> row, in the order of creation
    uploads,    \* client -> the upload it has asked for
    history,    \* turn -> messages, each the references it carries
    prepared,   \* the pictures made ready, the one used last at the end
    runs,       \* turn -> the opening of its history under way
    replaced    \* history: files an upload took the place of

vars == <<files, uploads, history, prepared, runs, replaced>>

Pictures == {"image", "broken"}
NoUpload == [stage |-> "none", name |-> <<>>, kind |-> "other", over |-> 0]
NoRun == [todo |-> <<>>, got |-> <<>>, fits |-> 0, asOf |-> <<>>, sent |-> FALSE]

Init ==
    /\ files = <<>> /\ prepared = <<>> /\ replaced = {}
    /\ uploads = [c \in Clients |-> NoUpload]
    /\ history = [t \in Turns |-> <<>>] /\ runs = [t \in Turns |-> NoRun]

There == {i \in DOMAIN files : files[i].there}
At(place) == {i \in There : files[i].place = place}
Ready(i) == i \in There /\ files[i].ready

-----------------------------------------------------------------------------
\* upload_ticket: a name already taken becomes 'name (2)'.
Free(name) == <<name, CHOOSE n \in 1..(MaxFiles + 1) : At(<<name, n>>) = {} /\ \A m \in 1..(n - 1) : At(<<name, m>>) # {}>>
UploadTicket(c, name, kind) ==
    /\ uploads[c] = NoUpload
    /\ uploads' = [uploads EXCEPT ![c] = [NoUpload EXCEPT !.stage = "named", !.name = Free(name), !.kind = kind]]
    /\ UNCHANGED <<files, history, prepared, runs, replaced>>
\* request_upload looks again: one that was never completed loses its place.
Pending(c) == IF At(uploads[c].name) = {} THEN 0 ELSE CHOOSE i \in At(uploads[c].name) : TRUE
Found(c) ==
    /\ uploads[c].stage = "named"
    /\ \A i \in At(uploads[c].name) : ~files[i].ready
    /\ uploads' = [uploads EXCEPT ![c] = [@ EXCEPT !.stage = "looked", !.over = Pending(c)]]
    /\ UNCHANGED <<files, history, prepared, runs, replaced>>
RequestUpload(c) ==
    LET u == uploads[c]
        row == [place |-> u.name, kind |-> u.kind, there |-> TRUE, stored |-> FALSE, ready |-> FALSE, content |-> 0] IN
    /\ u.stage = "looked" /\ Len(files) < MaxFiles
    /\ At(u.name) \subseteq {u.over}
    /\ files' = Append([i \in DOMAIN files |-> IF i = u.over THEN [files[i] EXCEPT !.there = FALSE, !.stored = FALSE] ELSE files[i]], row)
    /\ replaced' = replaced \union ({u.over} \ {0})
    /\ uploads' = [uploads EXCEPT ![c] = NoUpload]
    /\ UNCHANGED <<history, prepared, runs>>
Refused(c) ==
    /\ uploads[c] # NoUpload /\ uploads' = [uploads EXCEPT ![c] = NoUpload]
    /\ UNCHANGED <<files, history, prepared, runs, replaced>>

PutBytes(i) ==
    /\ i \in There /\ ~files[i].stored /\ files' = [files EXCEPT ![i].stored = TRUE]
    /\ UNCHANGED <<uploads, history, prepared, runs, replaced>>
CompleteUpload(i) ==
    /\ i \in There /\ files[i].stored /\ ~files[i].ready /\ files' = [files EXCEPT ![i].ready = TRUE]
    /\ UNCHANGED <<uploads, history, prepared, runs, replaced>>
\* What the agent does with it later: write over it, move it, delete it.
Write(i) ==
    /\ Ready(i) /\ files[i].content < MaxEdits /\ files' = [files EXCEPT ![i].content = @ + 1]
    /\ UNCHANGED <<uploads, history, prepared, runs, replaced>>
Delete(i) ==
    /\ Ready(i) /\ files' = [files EXCEPT ![i].there = FALSE, ![i].stored = FALSE]
    /\ UNCHANGED <<uploads, history, prepared, runs, replaced>>

-----------------------------------------------------------------------------
\* attachment_blocks: a file that is not the user's own and finished refuses the message.
OwnedFile(i) == Ready(i)
Said == FoldSet(LAMBDA t, n : Len(history[t]) + n, 0, Turns)
Reference(i) == [id |-> i, kind |-> files[i].kind]
UserMessage(t, ids) ==
    /\ runs[t].todo = <<>> /\ Said < MaxMessages /\ \A i \in ids : OwnedFile(i)
    /\ history' = [history EXCEPT ![t] = Append(@, [k \in 1..Cardinality(ids) |-> Reference(SetToSeq(ids)[k])])]
    /\ runs' = [runs EXCEPT ![t] = NoRun]
    /\ UNCHANGED <<files, uploads, prepared, replaced>>

\* expand: pictures only in the latest few messages that have any file.
WithFiles(t) == SelectSeq([m \in DOMAIN history[t] |-> m], LAMBDA m : history[t][m] # <<>>)
LatestOf(s) == SubSeq(s, IF Len(s) > ATTACHMENT_IMAGE_MESSAGES THEN Len(s) - ATTACHMENT_IMAGE_MESSAGES + 1 ELSE 1, Len(s))
Shown(t) == ToSet(LatestOf(WithFiles(t)))
Blocks(t) == FlattenSeq([k \in DOMAIN WithFiles(t) |-> LET m == WithFiles(t)[k] IN
                [b \in DOMAIN history[t][m] |-> [ref |-> history[t][m][b], picture |-> m \in Shown(t), message |-> m]]])
Expand(t) ==
    /\ runs[t].todo = <<>> /\ Blocks(t) # <<>>
    /\ runs' = [runs EXCEPT ![t] = [NoRun EXCEPT !.todo = Blocks(t), !.asOf = [i \in DOMAIN files |-> files[i].content]]]
    /\ UNCHANGED <<files, uploads, history, prepared, replaced>>

Says(block, shows, content) == [ref |-> block.ref, message |-> block.message, shows |-> shows, content |-> content]
Opened(t, said) == [runs EXCEPT ![t] = [@ EXCEPT !.todo = Tail(@), !.got = Append(@, said), !.fits = 0, !.sent = Len(runs[t].todo) = 1]]
Cached(i) == {k \in DOMAIN prepared : prepared[k].id = i}
MovedToEnd(k) == Append(RemoveAt(prepared, k), prepared[k])
\* bytes_of: nothing when it is gone.
BytesOf(i) == Ready(i) /\ files[i].stored

\* _open, of a block that needs nothing or finds its picture ready.
OpenNote(t) ==
    LET b == Head(runs[t].todo) IN
    /\ runs[t].todo # <<>> /\ runs[t].fits = 0
    /\ b.ref.kind = "other" \/ (b.ref.kind \in Pictures /\ ~b.picture)
    /\ runs' = Opened(t, Says(b, "note", 0))
    /\ UNCHANGED <<files, uploads, history, prepared, replaced>>
OpenCached(t) ==
    LET b == Head(runs[t].todo)
        k == CHOOSE k \in Cached(b.ref.id) : TRUE IN
    /\ runs[t].todo # <<>> /\ runs[t].fits = 0 /\ b.ref.kind \in Pictures /\ b.picture /\ Cached(b.ref.id) # {}
    /\ runs' = Opened(t, Says(b, "picture", prepared[k].content)) /\ prepared' = MovedToEnd(k)
    /\ UNCHANGED <<files, uploads, history, replaced>>
\* Its bytes are loaded, then made to fit in a thread of their own.
LoadImage(t) ==
    LET b == Head(runs[t].todo) IN
    /\ runs[t].todo # <<>> /\ runs[t].fits = 0 /\ b.ref.kind \in Pictures /\ b.picture /\ Cached(b.ref.id) = {}
    /\ runs' = IF BytesOf(b.ref.id) THEN [runs EXCEPT ![t].fits = 1 + files[b.ref.id].content]
                                    ELSE Opened(t, Says(b, "unopened", 0))
    /\ UNCHANGED <<files, uploads, history, prepared, replaced>>
\* The same picture may have been made ready by another turn meanwhile: its place is kept.
Kept(i, content) ==
    IF Cached(i) = {} THEN Append(prepared, [id |-> i, content |-> content])
    ELSE [k \in DOMAIN prepared |-> IF prepared[k].id = i THEN [id |-> i, content |-> content] ELSE prepared[k]]
Fit(t) ==
    LET b == Head(runs[t].todo)
        content == runs[t].fits - 1
        kept == Kept(b.ref.id, content) IN
    /\ runs[t].fits > 0
    /\ IF b.ref.kind = "broken"
       THEN runs' = Opened(t, Says(b, "unopened", 0)) /\ UNCHANGED prepared
       ELSE /\ runs' = Opened(t, Says(b, "picture", content))
            /\ prepared' = IF Len(kept) > ATTACHMENT_CACHE_SIZE THEN Tail(kept) ELSE kept
    /\ UNCHANGED <<files, uploads, history, replaced>>
\* _contents: never kept.
TextOf(t, i) == files[i].content
Contents(t) ==
    LET b == Head(runs[t].todo) IN
    /\ runs[t].todo # <<>> /\ b.ref.kind \in {"text", "long"}
    /\ runs' = Opened(t, IF ~BytesOf(b.ref.id) THEN Says(b, "note", 0)
                         ELSE Says(b, IF b.ref.kind = "long" THEN "cut" ELSE "text", TextOf(t, b.ref.id)))
    /\ UNCHANGED <<files, uploads, history, prepared, replaced>>

Next ==
    \/ \E c \in Clients : Found(c) \/ RequestUpload(c) \/ Refused(c) \/ \E n \in Names, k \in Kinds : UploadTicket(c, n, k)
    \/ \E i \in DOMAIN files : PutBytes(i) \/ CompleteUpload(i) \/ Write(i) \/ Delete(i)
    \/ \E t \in Turns : \/ Expand(t) \/ OpenNote(t) \/ OpenCached(t) \/ LoadImage(t) \/ Fit(t) \/ Contents(t)
                        \/ \E ids \in SUBSET There : UserMessage(t, ids)
Spec == Init /\ [][Next]_vars

-----------------------------------------------------------------------------
TypeOK ==
    /\ Len(files) <= MaxFiles /\ replaced \subseteq DOMAIN files
    /\ \A c \in Clients : uploads[c].stage \in {"none", "named", "looked"}
    /\ Said <= MaxMessages

\* Every attachment of the thread is told to the model, in order; a picture that could not
\* be opened is said to be so; the latest messages with files show theirs, however many
\* messages without any came after them, and no earlier one does.
EachIsTold == \A t \in Turns : runs[t].sent =>
    LET got == runs[t].got
        carried == {m \in DOMAIN history[t] : history[t][m] # <<>>}
        later(m) == {n \in carried : n > m} IN
    /\ Len(got) = FoldSeq(LAMBDA m, n : Len(m) + n, 0, history[t])
    /\ \A k \in DOMAIN got : got[k].ref.kind \in Pictures =>
          (got[k].shows # "note" <=> Cardinality(later(got[k].message)) < ATTACHMENT_IMAGE_MESSAGES)
\* The text of a file is what it held after the sending began, never what an earlier one read.
TextIsCurrent == \A t \in Turns : \A k \in DOMAIN runs[t].got :
    runs[t].got[k].shows \in {"text", "cut"} => runs[t].got[k].content >= runs[t].asOf[runs[t].got[k].ref.id]
\* One picture of a file is kept, and never more than there is room for.
CacheBounded == Len(prepared) <= ATTACHMENT_CACHE_SIZE /\ \A j, k \in DOMAIN prepared : prepared[j].id = prepared[k].id => j = k

(***************************************************************************)
(* The whole of it, under uploads, edits and deletions at any moment and   *)
(* several conversations opening the same files at once.                   *)
(***************************************************************************)
AttachmentsSafe == EachIsTold /\ TextIsCurrent /\ CacheBounded

(***************************************************************************)
(* projects/files.py:371, of an upload ticket: "Never replaces anything: a *)
(* name already taken becomes 'name (2).ext'."                             *)
(***************************************************************************)
NeverReplaces == replaced = {}

(***************************************************************************)
(* conversations/attachments.py:10: "then what is in it -- the image       *)
(* itself": a picture is of what the file held after the sending began.    *)
(***************************************************************************)
PictureIsCurrent == \A t \in Turns : \A k \in DOMAIN runs[t].got :
    runs[t].got[k].shows = "picture" => runs[t].got[k].content >= runs[t].asOf[runs[t].got[k].ref.id]
=============================================================================
