------------------------------ MODULE Documents ------------------------------
(***************************************************************************)
(* The documents of one organization: their rows, their files in the       *)
(* bucket, the requests that create, complete, change and delete them, and *)
(* the two queued tasks that write their status later: ingestion, which    *)
(* extracts the text of one document, and training, which marks every      *)
(* extracted document trained.                                             *)
(*                                                                         *)
(* A request or a task is one transaction: what it reads is what others    *)
(* committed, what it writes shows at its commit, and a row it has written *)
(* is locked until then.  The bucket and the queue take part in none: they *)
(* change at once.                                                         *)
(***************************************************************************)
EXTENDS Naturals, FiniteSets, FiniteSetsExt, Functions

CONSTANTS
    Clients,        \* requests under way at once
    Workers,        \* tasks run at once
    MAX_DOCUMENTS,  \* documents/config.MAX_DOCUMENTS_PER_ORGANIZATION
    MaxDocs,        \* bound: documents ever created
    MaxPuts,        \* bound: versions of one file
    MaxSends,       \* bound: messages queued
    MaxDeaths       \* bound: requests and workers that die

VARIABLES
    rows,       \* the documents table as committed: id -> row
    created,    \* ids given out; ids follow the order of creation
    files,      \* id -> version of the file in the bucket, 0 when there is none
    queue,      \* messages waiting in the queue
    sent,       \* messages queued so far
    requests,   \* client -> the request it has under way
    workers,    \* worker -> the task it runs
    cut,        \* documents whose deletion removed the file and was not committed
    deaths      \* requests and workers that died

vars == <<rows, created, files, queue, sent, requests, workers, cut, deaths>>

Statuses == {"pending", "extracting", "extracted", "trained", "unsupported", "failed"}

Ids == 1..MaxDocs

\* text is the version of the file it was extracted from, 0 when there is none.
Row == [status: Statuses, text: 0..MaxPuts, described: BOOLEAN]
NewRow == [status |-> "pending", text |-> 0, described |-> FALSE]

Message == [id: 1..MaxSends, task: {"ingest", "train"}, doc: 0..MaxDocs]

NoRequest == [kind |-> "none", doc |-> 0, mark |-> 0]
NoTask == [phase |-> "idle", msg |-> 0, doc |-> 0, status |-> "pending", text |-> 0,
           todo |-> {}, held |-> {}, told |-> {}]

Init ==
    /\ rows = [d \in {} |-> NewRow]
    /\ created = 0
    /\ files = [d \in Ids |-> 0]
    /\ queue = {}
    /\ sent = 0
    /\ requests = [c \in Clients |-> NoRequest]
    /\ workers = [w \in Workers |-> NoTask]
    /\ cut = {}
    /\ deaths = 0

-----------------------------------------------------------------------------
\* The adapter's statements.  A row that is written stays locked to the commit.
Exists(d) == d \in DOMAIN rows
Locked(d) ==
    \/ \E c \in Clients : requests[c].kind \in {"completed", "deleted"} /\ requests[c].doc = d
    \/ \E w \in Workers : d \in workers[w].held

Count == Cardinality(DOMAIN rows)
Untrained == {d \in DOMAIN rows : rows[d].status = "extracted"}

Uploaded(row) == [row EXCEPT !.status = "extracting"]
Extraction(row, status, text) == [row EXCEPT !.status = status, !.text = text]
Described(row, described) == [row EXCEPT !.described = described]
TrainedRow(row, told) == [row EXCEPT !.status = "trained", !.described = @ \/ told]
Created(d) == [e \in DOMAIN rows \cup {d} |-> IF e = d THEN NewRow ELSE rows[e]]
Deleted(d) == Restrict(rows, DOMAIN rows \ {d})

\* A message is numbered in the order of sending.
Send(task, d) ==
    /\ sent < MaxSends
    /\ sent' = sent + 1
    /\ queue' = queue \cup {[id |-> sent + 1, task |-> task, doc |-> d]}

-----------------------------------------------------------------------------
\* request_upload counts the documents held, then creates one.
MayHoldOneMore(held) == held < MAX_DOCUMENTS

RequestUpload(c) ==
    /\ requests[c] = NoRequest
    /\ MayHoldOneMore(Count)
    /\ requests' = [requests EXCEPT ![c].kind = "counted"]
    /\ UNCHANGED <<rows, created, files, queue, sent, workers, cut, deaths>>

CreateDocument(c) ==
    /\ requests[c].kind = "counted"
    /\ created < MaxDocs
    /\ created' = created + 1
    /\ rows' = Created(created + 1)
    /\ requests' = [requests EXCEPT ![c] = NoRequest]
    /\ UNCHANGED <<files, queue, sent, workers, cut, deaths>>

\* Whoever holds the upload URL puts a file, as often as it likes before it expires,
\* the document deleted since or not.
PutFile(d) ==
    /\ d <= created
    /\ files[d] < MaxPuts
    /\ files' = [files EXCEPT ![d] = @ + 1]
    /\ UNCHANGED <<rows, created, queue, sent, requests, workers, cut, deaths>>

\* complete_upload looks for the file, then writes the row; the route queues the
\* ingestion before the request commits.
FileStored(d) == files[d] # 0

CompleteUpload(c, d) ==
    /\ requests[c] = NoRequest
    /\ Exists(d)
    /\ FileStored(d)
    /\ requests' = [requests EXCEPT ![c] = [kind |-> "found", doc |-> d, mark |-> 0]]
    /\ UNCHANGED <<rows, created, files, queue, sent, workers, cut, deaths>>

SaveUploaded(c) ==
    LET d == requests[c].doc IN
    /\ requests[c].kind = "found"
    /\ ~Locked(d)
    /\ IF Exists(d)
       THEN /\ Send("ingest", d)
            /\ requests' = [requests EXCEPT ![c].kind = "completed", ![c].mark = sent + 1]
       ELSE /\ requests' = [requests EXCEPT ![c] = NoRequest]
            /\ UNCHANGED <<queue, sent>>
    /\ UNCHANGED <<rows, created, files, workers, cut, deaths>>

\* delete_document deletes the row, then the file, then commits.
DeleteDocument(c, d) ==
    /\ requests[c] = NoRequest
    /\ Exists(d)
    /\ ~Locked(d)
    /\ files' = [files EXCEPT ![d] = 0]
    /\ requests' = [requests EXCEPT ![c] = [kind |-> "deleted", doc |-> d, mark |-> 0]]
    /\ UNCHANGED <<rows, created, queue, sent, workers, cut, deaths>>

CommitRequest(c) ==
    LET d == requests[c].doc IN
    /\ \/ /\ requests[c].kind = "completed"
          /\ rows' = [rows EXCEPT ![d] = Uploaded(@)]
       \/ /\ requests[c].kind = "deleted"
          /\ rows' = Deleted(d)
    /\ requests' = [requests EXCEPT ![c] = NoRequest]
    /\ UNCHANGED <<created, files, queue, sent, workers, cut, deaths>>

\* The request fails (the bucket, the queue, its process): its transaction is undone,
\* what it did to the bucket and the queue is not.
AbortRequest(c) ==
    /\ requests[c] # NoRequest
    /\ deaths < MaxDeaths
    /\ deaths' = deaths + 1
    /\ cut' = IF requests[c].kind = "deleted" THEN cut \cup {requests[c].doc} ELSE cut
    /\ requests' = [requests EXCEPT ![c] = NoRequest]
    /\ UNCHANGED <<rows, created, files, queue, sent, workers>>

\* update_document: of what it may change, only the description matters here.
UpdateDocument(d, described) ==
    /\ Exists(d)
    /\ ~Locked(d)
    /\ rows' = [rows EXCEPT ![d] = Described(@, described)]
    /\ UNCHANGED <<created, files, queue, sent, requests, workers, cut, deaths>>

SomethingToTrain == Untrained # {}

TrainDocuments ==
    /\ SomethingToTrain
    /\ Send("train", 0)
    /\ UNCHANGED <<rows, created, files, requests, workers, cut, deaths>>

-----------------------------------------------------------------------------
\* The queue hands a message to one worker; its end takes it off for good.
Take(w, m) ==
    /\ workers[w].phase = "idle"
    /\ queue' = queue \ {m}

TakeIngest(w, m) ==
    /\ m.task = "ingest"
    /\ Take(w, m)
    /\ workers' = [workers EXCEPT ![w] = [NoTask EXCEPT !.phase = "waiting", !.msg = m.id, !.doc = m.doc]]
    /\ UNCHANGED <<rows, created, files, sent, requests, cut, deaths>>

\* wait_for_upload: the worker polls until the upload is committed.  It gives up after
\* READY_ATTEMPTS, by when the request that sent the message is assumed over.
SeesUpload(w) == Exists(workers[w].doc) /\ rows[workers[w].doc].status = "extracting"
\* Mutant: the upload is not waited for.
NeverWaits(w) == workers[w].doc \in Ids
SenderOver(w) == \A c \in Clients : requests[c].mark # workers[w].msg

WaitForUpload(w) ==
    /\ workers[w].phase = "waiting"
    /\ \/ /\ SeesUpload(w)
          /\ workers' = [workers EXCEPT ![w].phase = "extracting"]
       \/ /\ ~SeesUpload(w)
          /\ SenderOver(w)
          /\ workers' = [workers EXCEPT ![w] = NoTask]
    /\ UNCHANGED <<rows, created, files, queue, sent, requests, cut, deaths>>

\* What reading the file ends with: no file, a file that cannot be read or has too
\* little text (classify), or its text.
Classified(version) ==
    IF version = 0 THEN {<<"failed", 0>>}
    ELSE {<<"failed", 0>>, <<"unsupported", 0>>, <<"extracted", version>>}

Extract(w) ==
    /\ workers[w].phase = "extracting"
    /\ \E e \in Classified(files[workers[w].doc]) :
         workers' = [workers EXCEPT ![w].phase = "saving", ![w].status = e[1], ![w].text = e[2]]
    /\ UNCHANGED <<rows, created, files, queue, sent, requests, cut, deaths>>

\* run_ingestion saves what came out whatever the row says by now; a document that is
\* gone is left alone.  An exception ends in _mark_failed, in a transaction of its own.
SaveExtraction(w) ==
    LET d == workers[w].doc IN
    /\ workers[w].phase = "saving"
    /\ ~Locked(d)
    /\ rows' = IF Exists(d) THEN [rows EXCEPT ![d] = Extraction(@, workers[w].status, workers[w].text)]
                            ELSE rows
    /\ workers' = [workers EXCEPT ![w] = NoTask]
    /\ UNCHANGED <<created, files, queue, sent, requests, cut, deaths>>

MarkFailed(w) ==
    LET d == workers[w].doc IN
    /\ workers[w].phase \in {"extracting", "saving"}
    /\ ~Locked(d)
    /\ rows' = IF Exists(d) THEN [rows EXCEPT ![d] = Extraction(@, "failed", 0)] ELSE rows
    /\ workers' = [workers EXCEPT ![w] = NoTask]
    /\ UNCHANGED <<created, files, queue, sent, requests, cut, deaths>>

\* train_organization lists the untrained documents once, then takes them in order of
\* creation; its transaction holds every row it has written until it commits.
TakeTrain(w, m) ==
    /\ m.task = "train"
    /\ Take(w, m)
    /\ workers' = [workers EXCEPT ![w] = [NoTask EXCEPT !.phase = "training", !.msg = m.id, !.todo = Untrained]]
    /\ UNCHANGED <<rows, created, files, sent, requests, cut, deaths>>

\* A document that has no description and has text may be given one by a model: there
\* may be no key for it, or no answer.
DescribedByModel(d) == Exists(d) /\ ~rows[d].described /\ rows[d].text # 0

\* A document deleted since it was listed is passed over.
TrainOne(w) ==
    LET d == Min(workers[w].todo) IN
    /\ workers[w].phase = "training"
    /\ workers[w].todo # {}
    /\ ~Locked(d)
    /\ \E told \in BOOLEAN :
         /\ told => DescribedByModel(d)
         /\ workers' = [workers EXCEPT
                ![w].todo = @ \ {d},
                ![w].held = IF Exists(d) THEN @ \cup {d} ELSE @,
                ![w].told = IF told THEN @ \cup {d} ELSE @]
    /\ UNCHANGED <<rows, created, files, queue, sent, requests, cut, deaths>>

CommitTraining(w) ==
    /\ workers[w].phase = "training"
    /\ workers[w].todo = {}
    /\ rows' = [d \in DOMAIN rows |->
                    IF d \in workers[w].held THEN TrainedRow(rows[d], d \in workers[w].told) ELSE rows[d]]
    /\ workers' = [workers EXCEPT ![w] = NoTask]
    /\ UNCHANGED <<created, files, queue, sent, requests, cut, deaths>>

\* A worker dies: its transaction is undone and its message comes back.
Die(w) ==
    /\ workers[w].phase # "idle"
    /\ deaths < MaxDeaths
    /\ deaths' = deaths + 1
    /\ queue' = queue \cup {[id |-> workers[w].msg, doc |-> workers[w].doc,
                             task |-> IF workers[w].phase = "training" THEN "train" ELSE "ingest"]}
    /\ workers' = [workers EXCEPT ![w] = NoTask]
    /\ UNCHANGED <<rows, created, files, sent, requests, cut>>

-----------------------------------------------------------------------------
ClientNext ==
    \/ \E c \in Clients : RequestUpload(c) \/ CreateDocument(c) \/ SaveUploaded(c)
                          \/ CommitRequest(c) \/ AbortRequest(c)
    \/ \E c \in Clients, d \in Ids : CompleteUpload(c, d) \/ DeleteDocument(c, d)
    \/ \E d \in Ids : PutFile(d)
    \/ \E d \in Ids, described \in BOOLEAN : UpdateDocument(d, described)
    \/ TrainDocuments

WorkerNext ==
    \/ \E w \in Workers, m \in queue : TakeIngest(w, m) \/ TakeTrain(w, m)
    \/ \E w \in Workers : WaitForUpload(w) \/ Extract(w) \/ SaveExtraction(w) \/ MarkFailed(w)
                          \/ TrainOne(w) \/ CommitTraining(w) \/ Die(w)

Next == ClientNext \/ WorkerNext

Spec == Init /\ [][Next]_vars

-----------------------------------------------------------------------------
TypeOK ==
    /\ DOMAIN rows \subseteq 1..created
    /\ \A d \in DOMAIN rows : rows[d] \in Row
    /\ created \in 0..MaxDocs
    /\ files \in [Ids -> 0..MaxPuts]
    /\ queue \subseteq Message
    /\ sent \in 0..MaxSends
    /\ cut \subseteq Ids
    /\ deaths \in 0..MaxDeaths
    /\ \A w \in Workers : workers[w].held \subseteq DOMAIN rows

\* A document that says it is being extracted has somebody to extract it: a message for
\* it is in the queue or with a worker, whatever died and whoever else wrote its status
\* (use_cases.complete_upload, tasks.wait_for_upload).
NoOrphanDocument ==
    \A d \in DOMAIN rows : rows[d].status = "extracting" =>
        \/ \E m \in queue : m.task = "ingest" /\ m.doc = d
        \/ \E w \in Workers : workers[w].doc = d

\* A document past "pending" has its file, but while it is being deleted or after a
\* deletion that died between the file and its commit (use_cases.delete_document).
FileKept ==
    \A d \in DOMAIN rows : rows[d].status # "pending" /\ files[d] = 0 =>
        d \in cut \/ \E c \in Clients : requests[c].kind = "deleted" /\ requests[c].doc = d

\* Counting first and creating after lets requests that run at once pass the limit, and
\* never by more than the requests beside the one that takes the last place.
LimitSlack == Count <= MAX_DOCUMENTS + Cardinality(Clients) - 1

\* test_document_training.test_an_unsupported_document_is_never_trained
UnsupportedNeverTrained ==
    [][\A d \in DOMAIN rows \cap DOMAIN rows' :
          rows[d].status = "unsupported" => rows'[d].status # "trained"]_rows
=============================================================================
