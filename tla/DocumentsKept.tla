----------------------------- MODULE DocumentsKept -----------------------------
(***************************************************************************)
(* What the documents of an organization are checked for, for any number   *)
(* of documents, requests, workers, messages and deaths.                   *)
(*                                                                         *)
(* The invariant follows what is under way: a row being written has one    *)
(* writer, a request that has written "extracting" has its message in the  *)
(* queue or with a worker that waits for it, a document whose file was     *)
(* found keeps it but for a deletion, and a task writes the status of      *)
(* documents only that are past "pending".                                 *)
(***************************************************************************)
EXTENDS Documents, FiniteSetTheorems, WellFoundedInduction, TLAPS

Kinds == {"none", "counted", "found", "completed", "deleted"}
Phases == {"idle", "waiting", "extracting", "saving", "training"}
Request == [kind : Kinds, doc : 0..MaxDocs, mark : 0..MaxSends]
Task == [phase : Phases, msg : 0..MaxSends, doc : 0..MaxDocs, status : Statuses, text : 0..MaxPuts,
         todo : SUBSET Ids, held : SUBSET Ids, told : SUBSET Ids]

Outcomes == {"failed", "unsupported", "extracted"}

\* A request or a task that is about a document is about one that was created.
Asks(r) == r.kind \in {"found", "completed", "deleted"} => r.doc \in 1..created
Ingests(t) == t.phase \in {"waiting", "extracting", "saving"}
Works(t) ==
    /\ IF Ingests(t) THEN t.doc \in 1..created ELSE t.doc = 0
    /\ t.phase = "saving" => t.status \in Outcomes
    /\ t.phase # "idle" => t.msg # 0
    /\ t.todo \subseteq 1..created

AllAsk == \A c \in Clients : Asks(requests[c])
AllWork == \A w \in Workers : Works(workers[w])

TypeInv ==
    /\ created \in 0..MaxDocs
    /\ DOMAIN rows \subseteq 1..created
    /\ rows \in [DOMAIN rows -> Row]
    /\ files \in [Ids -> 0..MaxPuts]
    /\ sent \in 0..MaxSends
    /\ queue \subseteq Message
    /\ \A m \in queue : m.task = "ingest" => m.doc \in 1..created
    /\ requests \in [Clients -> Request]
    /\ AllAsk
    /\ workers \in [Workers -> Task]
    /\ AllWork
    /\ cut \subseteq Ids
    /\ deaths \in 0..MaxDeaths

\* A row that is written and not committed is there, and has one writer.
Writes(r) == r.kind \in {"completed", "deleted"}
Locks ==
    /\ \A c \in Clients : Writes(requests[c]) => requests[c].doc \in DOMAIN rows
    /\ \A c, e \in Clients : Writes(requests[c]) /\ Writes(requests[e]) /\ requests[c].doc = requests[e].doc => c = e
    /\ \A c \in Clients, w \in Workers : Writes(requests[c]) => requests[c].doc \notin workers[w].held
    /\ \A w \in Workers : workers[w].held \subseteq DOMAIN rows

\* The message of a request that has not committed has not been given up.
Waits(d, i) == \E m \in queue : m.task = "ingest" /\ m.doc = d /\ m.id = i
InHand(d, i) == \E w \in Workers : Ingests(workers[w]) /\ workers[w].doc = d /\ workers[w].msg = i
Carried(d, i) == Waits(d, i) \/ InHand(d, i)
MarksKept ==
    \A c \in Clients : requests[c].kind = "completed" => Carried(requests[c].doc, requests[c].mark)

\* A file that was found, or whose document is past "pending", goes by a deletion only.
Deleting(d) == \E c \in Clients : requests[c].kind = "deleted" /\ requests[c].doc = d
Safe(d) == files[d] # 0 \/ d \in cut \/ Deleting(d)
FoundKept ==
    \A c \in Clients : requests[c].kind \in {"found", "completed"} /\ requests[c].doc \in DOMAIN rows
        => Safe(requests[c].doc)

\* What a task will write the status of is past "pending".
Touches(t, d) == d \in t.todo \cup t.held \/ (t.phase \in {"extracting", "saving"} /\ t.doc = d)
NonePending == \A w \in Workers, d \in DOMAIN rows : Touches(workers[w], d) => rows[d].status # "pending"

Counted == {c \in Clients : requests[c].kind = "counted"}
LimitAhead == Cardinality(DOMAIN rows) + Cardinality(Counted) + 1 <= MAX_DOCUMENTS + Cardinality(Clients)

IInv == TypeInv /\ Locks /\ MarksKept /\ NoOrphanDocument /\ FileKept /\ FoundKept /\ NonePending /\ LimitAhead

\* What the theorem supposes: the bounds are numbers, and there is somebody to ask.
Supposed ==
    /\ IsFiniteSet(Clients) /\ Clients # {} /\ MAX_DOCUMENTS \in Nat
    /\ MaxDocs \in Nat /\ MaxPuts \in Nat /\ MaxSends \in Nat /\ MaxDeaths \in Nat
-----------------------------------------------------------------------------
\* What the invariant says of one request, one task and one row.
LEMMA Types ==
    ASSUME IInv, Supposed
    PROVE  /\ \A c \in Clients : requests[c] \in Request /\ Asks(requests[c])
           /\ \A w \in Workers : workers[w] \in Task /\ Works(workers[w])
           /\ \A d \in DOMAIN rows : rows[d] \in Row /\ d \in 1..created /\ d \in Ids
           /\ created \in Nat /\ created <= MaxDocs /\ sent \in Nat /\ sent <= MaxSends
           /\ \A d \in 1..created : d \in Ids
           /\ \A d \in Ids : files[d] \in Nat /\ files[d] <= MaxPuts
BY DEF IInv, TypeInv, AllAsk, AllWork, Supposed, Ids

LEMMA RequestTypes ==
    ASSUME IInv, Supposed, NEW c \in Clients, NEW r, requests' = [requests EXCEPT ![c] = r]
    PROVE  /\ requests'[c] = r /\ \A e \in Clients : e # c => requests'[e] = requests[e]
           /\ r \in Request => requests' \in [Clients -> Request]
BY DEF IInv, TypeInv

LEMMA WorkerTypes ==
    ASSUME IInv, Supposed, NEW w \in Workers, NEW t, workers' = [workers EXCEPT ![w] = t]
    PROVE  /\ workers'[w] = t /\ \A v \in Workers : v # w => workers'[v] = workers[v]
           /\ t \in Task => workers' \in [Workers -> Task]
BY DEF IInv, TypeInv

LEMMA NoRequestType ==
    ASSUME Supposed
    PROVE  /\ NoRequest \in Request /\ Asks(NoRequest) /\ ~Writes(NoRequest)
           /\ NoRequest.kind = "none" /\ NoRequest.mark = 0
BY DEF Supposed, NoRequest, Request, Kinds, Asks, Writes

LEMMA NoTaskType ==
    ASSUME Supposed
    PROVE  /\ NoTask \in Task /\ Works(NoTask) /\ ~Ingests(NoTask) /\ NoTask.held = {}
           /\ NoTask.doc = 0 /\ \A d : ~Touches(NoTask, d)
<1>1. NoTask \in Task BY DEF Supposed, NoTask, Task, Phases, Statuses
<1>2. NoTask.phase = "idle" /\ NoTask.doc = 0 /\ NoTask.todo = {} /\ NoTask.held = {} BY DEF NoTask
<1> QED BY <1>1, <1>2 DEF Works, Ingests, Touches

\* A row stays what it is but for what is written.
LEMMA RowTypes ==
    ASSUME Supposed, NEW r \in Row
    PROVE  /\ Uploaded(r) \in Row /\ Uploaded(r).status = "extracting"
           /\ \A b \in BOOLEAN : Described(r, b) \in Row /\ Described(r, b).status = r.status
           /\ \A b \in BOOLEAN : TrainedRow(r, b) \in Row /\ TrainedRow(r, b).status = "trained"
           /\ \A s \in Statuses, n \in 0..MaxPuts : Extraction(r, s, n) \in Row /\ Extraction(r, s, n).status = s
           /\ NewRow \in Row /\ NewRow.status = "pending"
<1>1. Uploaded(r) \in Row /\ Uploaded(r).status = "extracting" BY DEF Row, Uploaded, Statuses
<1>2. \A b \in BOOLEAN : Described(r, b) \in Row /\ Described(r, b).status = r.status BY DEF Row, Described
<1>3. \A b \in BOOLEAN : TrainedRow(r, b) \in Row /\ TrainedRow(r, b).status = "trained"
  BY DEF Row, TrainedRow, Statuses
<1>4. \A s \in Statuses, n \in 0..MaxPuts : Extraction(r, s, n) \in Row /\ Extraction(r, s, n).status = s
  BY DEF Row, Extraction
<1>5. NewRow \in Row /\ NewRow.status = "pending" BY DEF Row, NewRow, Supposed, Statuses
<1> QED BY <1>1, <1>2, <1>3, <1>4, <1>5

-----------------------------------------------------------------------------
\* What each part of the invariant needs of a step that does not do what it is about.
LEMMA LocksStay ==
    ASSUME IInv,
           \A c \in Clients : Writes(requests'[c]) =>
               Writes(requests[c]) /\ requests'[c].doc = requests[c].doc /\ requests[c].doc \in DOMAIN rows',
           \A w \in Workers : workers'[w].held \subseteq workers[w].held /\ workers'[w].held \subseteq DOMAIN rows'
    PROVE  Locks'
BY DEF IInv, Locks, Writes

LEMMA MarksStay ==
    ASSUME IInv,
           \A c \in Clients : requests'[c].kind = "completed" =>
               /\ requests[c].kind = "completed"
               /\ requests'[c].doc = requests[c].doc /\ requests'[c].mark = requests[c].mark,
           \A m \in queue : m.task = "ingest" =>
               m \in queue' \/ \E w \in Workers : /\ Ingests(workers'[w]) /\ workers'[w].doc = m.doc
                                                  /\ workers'[w].msg = m.id,
           \A w \in Workers : Ingests(workers[w]) =>
               \/ Ingests(workers'[w]) /\ workers'[w].doc = workers[w].doc /\ workers'[w].msg = workers[w].msg
               \/ \E m \in queue' : m.task = "ingest" /\ m.doc = workers[w].doc /\ m.id = workers[w].msg
               \/ \A c \in Clients : ~(/\ requests'[c].kind = "completed" /\ requests'[c].doc = workers[w].doc
                                       /\ requests'[c].mark = workers[w].msg)
    PROVE  MarksKept'
<1> SUFFICES ASSUME NEW c \in Clients, requests'[c].kind = "completed"
             PROVE  \/ \E m \in queue' : m.task = "ingest" /\ m.doc = requests'[c].doc /\ m.id = requests'[c].mark
                    \/ \E w \in Workers : /\ Ingests(workers'[w]) /\ workers'[w].doc = requests'[c].doc
                                          /\ workers'[w].msg = requests'[c].mark
  BY DEF MarksKept, Carried, Waits, InHand, Ingests
<1>1. Waits(requests[c].doc, requests[c].mark) \/ InHand(requests[c].doc, requests[c].mark)
  BY DEF IInv, MarksKept, Carried
<1>2. CASE Waits(requests[c].doc, requests[c].mark) BY <1>2 DEF Waits
<1>3. CASE InHand(requests[c].doc, requests[c].mark) BY <1>3 DEF InHand
<1> QED BY <1>1, <1>2, <1>3

LEMMA NoneOrphaned ==
    ASSUME IInv, Supposed,
           \A d \in DOMAIN rows' : rows'[d].status = "extracting" => d \in DOMAIN rows /\ rows[d].status = "extracting",
           \A m \in queue : m.task = "ingest" => m \in queue' \/ \E w \in Workers : workers'[w].doc = m.doc,
           \A w \in Workers : Ingests(workers[w]) =>
               \/ workers'[w].doc = workers[w].doc
               \/ \E m \in queue' : m.task = "ingest" /\ m.doc = workers[w].doc
               \/ workers[w].doc \notin DOMAIN rows' \/ rows'[workers[w].doc].status # "extracting"
    PROVE  NoOrphanDocument'
<1> SUFFICES ASSUME NEW d \in DOMAIN rows', rows'[d].status = "extracting"
             PROVE  \/ \E m \in queue' : m.task = "ingest" /\ m.doc = d
                    \/ \E w \in Workers : workers'[w].doc = d
  BY DEF NoOrphanDocument
<1>1. d \in DOMAIN rows /\ rows[d].status = "extracting" /\ d # 0 BY Types
<1>2. \/ \E m \in queue : m.task = "ingest" /\ m.doc = d
      \/ \E w \in Workers : workers[w].doc = d
  BY <1>1 DEF IInv, NoOrphanDocument
<1>3. \A w \in Workers : workers[w].doc = d => Ingests(workers[w]) BY <1>1, Types DEF Works
<1> QED BY <1>2, <1>3

\* A document keeps what spares its file.
LEMMA FilesStay ==
    ASSUME IInv,
           \A d \in DOMAIN rows' : /\ d \in DOMAIN rows \/ rows'[d].status = "pending"
                                   /\ rows[d].status = "pending" => rows'[d].status = "pending",
           \A d \in DOMAIN rows : d \in DOMAIN rows' =>
               (files'[d] = 0 => files[d] = 0 \/ d \in cut' \/ \E c \in Clients : requests'[c].kind = "deleted" /\ requests'[c].doc = d),
           cut \subseteq cut',
           \A c \in Clients : requests[c].kind = "deleted" =>
               \/ requests'[c].kind = "deleted" /\ requests'[c].doc = requests[c].doc
               \/ requests[c].doc \in cut' \/ requests[c].doc \notin DOMAIN rows'
    PROVE  FileKept'
BY DEF IInv, FileKept

LEMMA FoundStay ==
    ASSUME IInv,
           \A c \in Clients : requests'[c].kind \in {"found", "completed"} /\ requests'[c].doc \in DOMAIN rows' =>
               /\ requests[c].kind \in {"found", "completed"} /\ requests[c].doc = requests'[c].doc
               /\ requests[c].doc \in DOMAIN rows,
           \A d \in DOMAIN rows : d \in DOMAIN rows' =>
               (files'[d] = 0 => files[d] = 0 \/ d \in cut' \/ \E c \in Clients : requests'[c].kind = "deleted" /\ requests'[c].doc = d),
           cut \subseteq cut',
           \A c \in Clients : requests[c].kind = "deleted" =>
               \/ requests'[c].kind = "deleted" /\ requests'[c].doc = requests[c].doc
               \/ requests[c].doc \in cut' \/ requests[c].doc \notin DOMAIN rows'
    PROVE  FoundKept'
BY DEF IInv, FoundKept, Safe, Deleting

LEMMA NonePendingStays ==
    ASSUME IInv,
           \A d \in DOMAIN rows' : d \in DOMAIN rows =>
               (rows[d].status # "pending" => rows'[d].status # "pending"),
           \A w \in Workers, d \in DOMAIN rows' : Touches(workers'[w], d) =>
               (d \in DOMAIN rows /\ Touches(workers[w], d)) \/ rows'[d].status # "pending"
    PROVE  NonePending'
<1>1. \A w \in Workers, d \in DOMAIN rows' : Touches(workers'[w], d) => rows'[d].status # "pending"
  BY DEF IInv, NonePending
<1> QED BY <1>1 DEF NonePending, Touches

-----------------------------------------------------------------------------
\* The documents and the requests that were let through stay below the limit and the slack.
LEMMA Sizes ==
    ASSUME IInv, Supposed
    PROVE  /\ IsFiniteSet(DOMAIN rows) /\ Cardinality(DOMAIN rows) \in Nat
           /\ Cardinality(Clients) \in Nat /\ MAX_DOCUMENTS \in Nat
           /\ \A S : S \subseteq Clients => /\ IsFiniteSet(S) /\ Cardinality(S) \in Nat
                                            /\ Cardinality(S) <= Cardinality(Clients)
<1>1. IsFiniteSet(1..created) BY Types, FS_Interval
<1>2. IsFiniteSet(DOMAIN rows) BY <1>1, FS_Subset DEF IInv, TypeInv
<1> QED BY <1>2, FS_CardinalityType, FS_Subset DEF Supposed

LEMMA LimitStays ==
    ASSUME IInv, Supposed, DOMAIN rows' \subseteq DOMAIN rows,
           \A c \in Clients : requests'[c].kind = "counted" => requests[c].kind = "counted"
    PROVE  LimitAhead'
<1>1. Counted' \subseteq Counted /\ Counted \subseteq Clients BY DEF Counted
<1>2. Cardinality(Counted') <= Cardinality(Counted) /\ Cardinality(Counted') \in Nat /\ Cardinality(Counted) \in Nat
  BY <1>1, Sizes, FS_Subset, FS_CardinalityType
<1>3. Cardinality(DOMAIN rows') <= Cardinality(DOMAIN rows) /\ Cardinality(DOMAIN rows') \in Nat
  BY Sizes, FS_Subset, FS_CardinalityType
<1> QED BY <1>2, <1>3, Sizes DEF IInv, LimitAhead

LEMMA LimitReached ==
    ASSUME IInv, Supposed, UNCHANGED rows, Cardinality(DOMAIN rows) < MAX_DOCUMENTS
    PROVE  LimitAhead'
<1>1. Counted' \subseteq Clients BY DEF Counted
<1>2. Cardinality(Counted') <= Cardinality(Clients) /\ Cardinality(Counted') \in Nat BY <1>1, Sizes
<1> QED BY <1>2, Sizes DEF LimitAhead

LEMMA LimitTaken ==
    ASSUME IInv, Supposed, NEW c \in Clients, requests[c].kind = "counted", requests'[c].kind = "none",
           \A e \in Clients : e # c => requests'[e] = requests[e],
           NEW d, DOMAIN rows' = DOMAIN rows \cup {d}
    PROVE  LimitAhead'
<1>1. Counted' = Counted \ {c} /\ c \in Counted /\ Counted \subseteq Clients BY DEF Counted
<1>2. Cardinality(Counted') = Cardinality(Counted) - 1 /\ Cardinality(Counted) \in Nat
  BY <1>1, Sizes, FS_RemoveElement
<1>3. Cardinality(DOMAIN rows') <= Cardinality(DOMAIN rows) + 1 /\ Cardinality(DOMAIN rows') \in Nat
  <2>1. Cardinality(DOMAIN rows \cup {d}) = IF d \in DOMAIN rows THEN Cardinality(DOMAIN rows) ELSE Cardinality(DOMAIN rows) + 1
    BY Sizes, FS_AddElement
  <2> QED BY <2>1, Sizes
<1> QED BY <1>2, <1>3, Sizes DEF IInv, LimitAhead
\* The types, of a step of a request or of a task.
LEMMA RequestsStay ==
    ASSUME IInv, NEW c \in Clients, NEW r, Asks(r), created' = created, requests'[c] = r,
           \A e \in Clients : e # c => requests'[e] = requests[e]
    PROVE  AllAsk'
BY DEF IInv, TypeInv, AllAsk, Asks

LEMMA WorkersStay ==
    ASSUME IInv, NEW w \in Workers, NEW t, Works(t), created' = created, workers'[w] = t,
           \A v \in Workers : v # w => workers'[v] = workers[v]
    PROVE  AllWork'
BY DEF IInv, TypeInv, AllWork, Works, Ingests

LEMMA AllStay ==
    ASSUME IInv, created' = created
    PROVE  (requests' = requests => AllAsk') /\ (workers' = workers => AllWork')
BY DEF IInv, TypeInv, AllAsk, AllWork, Asks, Works, Ingests

-----------------------------------------------------------------------------
\* One lemma for every step.
LEMMA RequestUploadStep ==
    ASSUME IInv, Supposed, NEW c \in Clients, RequestUpload(c)
    PROVE  IInv'
<1> DEFINE r == [requests[c] EXCEPT !.kind = "counted"]
<1>1. /\ requests[c] = NoRequest /\ Cardinality(DOMAIN rows) < MAX_DOCUMENTS
      /\ requests' = [requests EXCEPT ![c] = r]
      /\ UNCHANGED <<rows, created, files, queue, sent, workers, cut, deaths>>
  BY DEF RequestUpload, MayHoldOneMore, Count
<1>2. r \in Request /\ r.kind = "counted" /\ Asks(r) /\ ~Writes(r)
  BY <1>1, NoRequestType DEF Request, Kinds, Asks, Writes
<1> HIDE DEF r
<1>3. /\ requests'[c] = r /\ \A e \in Clients : e # c => requests'[e] = requests[e]
      /\ requests' \in [Clients -> Request]
  BY <1>1, <1>2, RequestTypes
<1>4. TypeInv' BY <1>1, <1>2, <1>3, RequestsStay, AllStay DEF IInv, TypeInv
<1>5. Locks' BY <1>1, <1>2, <1>3, LocksStay DEF IInv, Locks
<1>6. MarksKept' BY <1>1, <1>2, <1>3, MarksStay
<1>7. NoOrphanDocument' BY <1>1, NoneOrphaned
<1>8. FileKept' BY <1>1, <1>3, NoRequestType, FilesStay
<1>9. FoundKept' BY <1>1, <1>2, <1>3, NoRequestType, FoundStay
<1>10. NonePending' BY <1>1, NonePendingStays
<1>11. LimitAhead' BY <1>1, LimitReached
<1> QED BY <1>4, <1>5, <1>6, <1>7, <1>8, <1>9, <1>10, <1>11 DEF IInv

LEMMA CreateDocumentStep ==
    ASSUME IInv, Supposed, NEW c \in Clients, CreateDocument(c)
    PROVE  IInv'
<1> DEFINE d == created + 1
<1>1. /\ requests[c].kind = "counted" /\ created < MaxDocs /\ created' = d
      /\ rows' = [e \in DOMAIN rows \cup {d} |-> IF e = d THEN NewRow ELSE rows[e]]
      /\ requests' = [requests EXCEPT ![c] = NoRequest]
      /\ UNCHANGED <<files, queue, sent, workers, cut, deaths>>
  BY DEF CreateDocument, Created
<1>2. d \in Nat /\ d <= MaxDocs /\ created \in Nat BY <1>1, Types DEF Supposed
<1>3. /\ requests'[c] = NoRequest /\ \A e \in Clients : e # c => requests'[e] = requests[e]
      /\ requests' \in [Clients -> Request]
  BY <1>1, NoRequestType, RequestTypes
<1>4. d \notin 1..created /\ \A e : e \in 1..created' <=> e \in 1..created \/ e = d BY <1>1, <1>2
<1>5. /\ DOMAIN rows' = DOMAIN rows \cup {d} /\ d \notin DOMAIN rows /\ DOMAIN rows \subseteq 1..created
      /\ rows'[d] = NewRow /\ \A e \in DOMAIN rows : rows'[e] = rows[e]
  BY <1>1, <1>4 DEF IInv, TypeInv
<1>6. NewRow \in Row /\ NewRow.status = "pending" BY DEF Row, NewRow, Supposed, Statuses
<1>7. created' \in 0..MaxDocs /\ DOMAIN rows' \subseteq 1..created' BY <1>1, <1>2, <1>4, <1>5
<1>8. rows' \in [DOMAIN rows' -> Row] BY <1>1, <1>5, <1>6 DEF IInv, TypeInv
<1> HIDE DEF d
<1>9. AllAsk' BY <1>3, <1>4, NoRequestType DEF IInv, TypeInv, AllAsk, Asks
<1>10. AllWork' BY <1>1, <1>4 DEF IInv, TypeInv, AllWork, Works, Ingests
<1>11. \A m \in queue : m.task = "ingest" => m.doc \in 1..created' BY <1>4 DEF IInv, TypeInv
<1>12. TypeInv' BY <1>1, <1>3, <1>7, <1>8, <1>9, <1>10, <1>11 DEF IInv, TypeInv
<1>13. Locks' BY <1>1, <1>3, <1>5, NoRequestType, LocksStay DEF IInv, Locks
<1>14. MarksKept' BY <1>1, <1>3, NoRequestType, MarksStay
<1>15. NoOrphanDocument' BY <1>1, <1>5, <1>6, NoneOrphaned
<1>16. FileKept' BY <1>1, <1>3, <1>5, <1>6, FilesStay
<1>17. FoundKept'
  <2>1. \A e \in Clients : requests'[e].kind \in {"found", "completed"} /\ requests'[e].doc \in DOMAIN rows' =>
            e # c /\ requests'[e].doc \in DOMAIN rows
    BY <1>3, <1>4, <1>5, Types, NoRequestType DEF Asks
  <2> QED BY <1>1, <1>3, <2>1, FoundStay
<1>18. NonePending'
  <2>1. \A w \in Workers : ~Touches(workers[w], d)
    BY <1>4, <1>5, Types DEF Touches, Works, Ingests, IInv, Locks
  <2> QED BY <1>1, <1>5, <2>1, NonePendingStays
<1>19. LimitAhead' BY <1>1, <1>3, <1>5, NoRequestType, LimitTaken
<1> QED BY <1>12, <1>13, <1>14, <1>15, <1>16, <1>17, <1>18, <1>19 DEF IInv

LEMMA PutFileStep ==
    ASSUME IInv, Supposed, NEW d \in Ids, PutFile(d)
    PROVE  IInv'
<1>1. /\ files[d] < MaxPuts /\ files' = [files EXCEPT ![d] = files[d] + 1]
      /\ UNCHANGED <<rows, created, queue, sent, requests, workers, cut, deaths>>
  BY DEF PutFile
<1>2. files[d] + 1 \in 0..MaxPuts /\ files[d] + 1 # 0 BY <1>1, Types DEF Supposed
<1>3. TypeInv' BY <1>1, <1>2, AllStay DEF IInv, TypeInv
<1>4. \A e \in Ids : files'[e] = 0 => files[e] = 0 BY <1>1, <1>2 DEF IInv, TypeInv
<1>5. Locks' BY <1>1, LocksStay DEF IInv, Locks
<1>6. MarksKept' BY <1>1, MarksStay
<1>7. NoOrphanDocument' BY <1>1, NoneOrphaned
<1>8. FileKept' BY <1>1, <1>4, Types, FilesStay
<1>9. FoundKept' BY <1>1, <1>4, Types, FoundStay
<1>10. NonePending' BY <1>1, NonePendingStays
<1>11. LimitAhead' BY <1>1, LimitStays
<1> QED BY <1>3, <1>5, <1>6, <1>7, <1>8, <1>9, <1>10, <1>11 DEF IInv

LEMMA CompleteUploadStep ==
    ASSUME IInv, Supposed, NEW c \in Clients, NEW d \in Ids, CompleteUpload(c, d)
    PROVE  IInv'
<1> DEFINE r == [kind |-> "found", doc |-> d, mark |-> 0]
<1>1. /\ requests[c] = NoRequest /\ d \in DOMAIN rows /\ files[d] # 0
      /\ requests' = [requests EXCEPT ![c] = r]
      /\ UNCHANGED <<rows, created, files, queue, sent, workers, cut, deaths>>
  BY DEF CompleteUpload, Exists, FileStored
<1>2. d \in 1..created /\ d \in 0..MaxDocs BY <1>1, Types DEF Ids
<1>3. r \in Request /\ r.kind = "found" /\ r.doc = d /\ Asks(r) /\ ~Writes(r)
  BY <1>2 DEF Request, Kinds, Asks, Writes, Supposed
<1> HIDE DEF r
<1>4. /\ requests'[c] = r /\ \A e \in Clients : e # c => requests'[e] = requests[e]
      /\ requests' \in [Clients -> Request]
  BY <1>1, <1>3, RequestTypes
<1>5. TypeInv' BY <1>1, <1>3, <1>4, RequestsStay, AllStay DEF IInv, TypeInv
<1>6. Locks' BY <1>1, <1>3, <1>4, LocksStay DEF IInv, Locks
<1>7. MarksKept' BY <1>1, <1>3, <1>4, MarksStay
<1>8. NoOrphanDocument' BY <1>1, NoneOrphaned
<1>9. FileKept' BY <1>1, <1>4, NoRequestType, FilesStay
<1>10. FoundKept' BY <1>1, <1>3, <1>4, NoRequestType DEF IInv, FoundKept, Safe, Deleting
<1>11. NonePending' BY <1>1, NonePendingStays
<1>12. LimitAhead' BY <1>1, <1>3, <1>4, LimitStays
<1> QED BY <1>5, <1>6, <1>7, <1>8, <1>9, <1>10, <1>11, <1>12 DEF IInv

LEMMA SaveUploadedStep ==
    ASSUME IInv, Supposed, NEW c \in Clients, SaveUploaded(c)
    PROVE  IInv'
<1> DEFINE d == requests[c].doc
<1>1. requests[c].kind = "found" /\ ~Locked(d) /\ UNCHANGED <<rows, created, files, workers, cut, deaths>>
  BY DEF SaveUploaded
<1>2. requests[c] \in Request /\ d \in 1..created /\ d \in Ids /\ d # 0
  BY <1>1, Types DEF Asks
<1>3. CASE Exists(d)
  <2> DEFINE r == [requests[c] EXCEPT !.kind = "completed", !.mark = sent + 1]
             n == [id |-> sent + 1, task |-> "ingest", doc |-> d]
  <2>1. /\ sent < MaxSends /\ sent' = sent + 1 /\ queue' = queue \cup {n}
        /\ requests' = [requests EXCEPT ![c] = r] /\ d \in DOMAIN rows
    BY <1>3 DEF SaveUploaded, Send, Exists
  <2>2. sent + 1 \in 1..MaxSends /\ sent + 1 \in 0..MaxSends BY <2>1, Types DEF Supposed
  <2>3. d \in 0..MaxDocs BY <1>2 DEF Ids, Supposed
  <2>4. n \in Message /\ n.task = "ingest" /\ n.doc = d /\ n.id = sent + 1 BY <2>2, <2>3 DEF Message
  <2>5. r.kind = "completed" /\ r.doc = d /\ r.mark = sent + 1 BY <1>2 DEF Request
  <2>6. r \in Request /\ Asks(r) /\ Writes(r) BY <1>2, <2>2, <2>5 DEF Request, Kinds, Asks, Writes
  <2> HIDE DEF r, n, d
  <2>7. /\ requests'[c] = r /\ \A e \in Clients : e # c => requests'[e] = requests[e]
        /\ requests' \in [Clients -> Request]
    BY <2>1, <2>6, RequestTypes
  <2>8. TypeInv' BY <1>1, <1>2, <2>1, <2>2, <2>4, <2>6, <2>7, RequestsStay, AllStay DEF IInv, TypeInv
  <2>9. Locks'
    <3>1. \A e \in Clients : Writes(requests[e]) => requests[e].doc # d BY <1>1 DEF Locked, Writes
    <3>2. \A w \in Workers : d \notin workers[w].held BY <1>1 DEF Locked
    <3> QED BY <1>1, <2>1, <2>5, <2>6, <2>7, <3>1, <3>2 DEF IInv, Locks, Writes
  <2>10. MarksKept'
    <3> SUFFICES ASSUME NEW e \in Clients, requests'[e].kind = "completed",
                        NEW f, f = requests'[e].doc, NEW i, i = requests'[e].mark
                 PROVE  Carried(f, i)'
      BY DEF MarksKept, Carried, Waits, InHand
    <3>1. CASE e = c BY <2>1, <2>4, <2>5, <2>7, <3>1 DEF Carried, Waits
    <3>2. CASE e # c
      <4>1. Carried(f, i) BY <2>7, <3>2 DEF IInv, MarksKept
      <4> QED BY <1>1, <2>1, <4>1 DEF Carried, Waits, InHand
    <3> QED BY <3>1, <3>2
  <2>11. NoOrphanDocument' BY <1>1, <2>1, NoneOrphaned
  <2>12. FileKept' BY <1>1, <2>7, FilesStay
  <2>13. FoundKept' BY <1>1, <2>1, <2>5, <2>7, FoundStay DEF d
  <2>14. NonePending' BY <1>1, NonePendingStays
  <2>15. LimitAhead' BY <1>1, <2>5, <2>7, LimitStays
  <2> QED BY <2>8, <2>9, <2>10, <2>11, <2>12, <2>13, <2>14, <2>15 DEF IInv
<1>4. CASE ~Exists(d)
  <2>1. requests' = [requests EXCEPT ![c] = NoRequest] /\ UNCHANGED <<queue, sent>>
    BY <1>4 DEF SaveUploaded
  <2>2. /\ requests'[c] = NoRequest /\ \A e \in Clients : e # c => requests'[e] = requests[e]
        /\ requests' \in [Clients -> Request]
    BY <2>1, NoRequestType, RequestTypes
  <2>3. TypeInv' BY <1>1, <2>1, <2>2, NoRequestType, RequestsStay, AllStay DEF IInv, TypeInv
  <2>4. Locks' BY <1>1, <2>2, NoRequestType, LocksStay DEF IInv, Locks
  <2>5. MarksKept' BY <1>1, <2>1, <2>2, NoRequestType, MarksStay
  <2>6. NoOrphanDocument' BY <1>1, <2>1, NoneOrphaned
  <2>7. FileKept' BY <1>1, <2>2, FilesStay
  <2>8. FoundKept' BY <1>1, <2>2, NoRequestType, FoundStay
  <2>9. NonePending' BY <1>1, NonePendingStays
  <2>10. LimitAhead' BY <1>1, <2>2, NoRequestType, LimitStays
  <2> QED BY <2>3, <2>4, <2>5, <2>6, <2>7, <2>8, <2>9, <2>10 DEF IInv
<1> QED BY <1>3, <1>4

LEMMA DeleteDocumentStep ==
    ASSUME IInv, Supposed, NEW c \in Clients, NEW d \in Ids, DeleteDocument(c, d)
    PROVE  IInv'
<1> DEFINE r == [kind |-> "deleted", doc |-> d, mark |-> 0]
<1>1. /\ requests[c] = NoRequest /\ d \in DOMAIN rows /\ ~Locked(d)
      /\ files' = [files EXCEPT ![d] = 0] /\ requests' = [requests EXCEPT ![c] = r]
      /\ UNCHANGED <<rows, created, queue, sent, workers, cut, deaths>>
  BY DEF DeleteDocument, Exists
<1>2. d \in 1..created /\ d \in 0..MaxDocs BY <1>1, Types DEF Ids
<1>3. r \in Request /\ r.kind = "deleted" /\ r.doc = d /\ Asks(r) /\ Writes(r)
  BY <1>2 DEF Request, Kinds, Asks, Writes, Supposed
<1> HIDE DEF r
<1>4. /\ requests'[c] = r /\ \A e \in Clients : e # c => requests'[e] = requests[e]
      /\ requests' \in [Clients -> Request]
  BY <1>1, <1>3, RequestTypes
<1>5. files' \in [Ids -> 0..MaxPuts] /\ \A e \in Ids : files'[e] = 0 => e = d \/ files[e] = 0
  BY <1>1 DEF IInv, TypeInv, Supposed
<1>6. TypeInv' BY <1>1, <1>3, <1>4, <1>5, RequestsStay, AllStay DEF IInv, TypeInv
<1>7. Locks'
  <2>1. \A e \in Clients : Writes(requests[e]) => requests[e].doc # d BY <1>1 DEF Locked, Writes
  <2>2. \A w \in Workers : d \notin workers[w].held BY <1>1 DEF Locked
  <2> QED BY <1>1, <1>3, <1>4, <2>1, <2>2 DEF IInv, Locks, Writes
<1>8. MarksKept' BY <1>1, <1>3, <1>4, MarksStay
<1>9. NoOrphanDocument' BY <1>1, NoneOrphaned
<1>10. \E e \in Clients : requests'[e].kind = "deleted" /\ requests'[e].doc = d BY <1>3, <1>4
<1>11. FileKept' BY <1>1, <1>4, <1>5, <1>10, NoRequestType, Types, FilesStay
<1>12. FoundKept' BY <1>1, <1>3, <1>4, <1>5, <1>10, NoRequestType, Types, FoundStay
<1>13. NonePending' BY <1>1, NonePendingStays
<1>14. LimitAhead' BY <1>1, <1>3, <1>4, LimitStays
<1> QED BY <1>6, <1>7, <1>8, <1>9, <1>11, <1>12, <1>13, <1>14 DEF IInv

LEMMA CommitRequestStep ==
    ASSUME IInv, Supposed, NEW c \in Clients, CommitRequest(c)
    PROVE  IInv'
<1> DEFINE d == requests[c].doc
<1>1. /\ requests' = [requests EXCEPT ![c] = NoRequest] /\ Writes(requests[c])
      /\ UNCHANGED <<created, files, queue, sent, workers, cut, deaths>>
  BY DEF CommitRequest, Writes
<1>2. /\ requests'[c] = NoRequest /\ \A e \in Clients : e # c => requests'[e] = requests[e]
      /\ requests' \in [Clients -> Request]
  BY <1>1, NoRequestType, RequestTypes
<1>3. /\ d \in DOMAIN rows
      /\ \A e \in Clients : e # c /\ Writes(requests[e]) => requests[e].doc # d /\ requests[e].doc \in DOMAIN rows
      /\ \A w \in Workers : d \notin workers[w].held /\ workers[w].held \subseteq DOMAIN rows
  BY <1>1 DEF IInv, Locks
<1>4. CASE requests[c].kind = "completed"
  <2>1. rows' = [rows EXCEPT ![d] = Uploaded(rows[d])] BY <1>4 DEF CommitRequest
  <2>2. /\ DOMAIN rows' = DOMAIN rows /\ rows'[d] = Uploaded(rows[d])
        /\ \A e \in DOMAIN rows : e # d => rows'[e] = rows[e]
    BY <2>1, <1>3
  <2>3. rows[d] \in Row BY <1>3, Types
  <2>4. Uploaded(rows[d]) \in Row /\ rows'[d].status = "extracting" BY <2>2, <2>3, RowTypes
  <2>5. rows' \in [DOMAIN rows' -> Row] BY <2>1, <2>2, <2>4 DEF IInv, TypeInv
  <2>6. TypeInv' BY <1>1, <1>2, <2>2, <2>5, NoRequestType, RequestsStay, AllStay DEF IInv, TypeInv
  <2>7. Locks' BY <1>1, <1>2, <1>3, <2>2, NoRequestType, LocksStay
  <2>8. MarksKept' BY <1>1, <1>2, NoRequestType, MarksStay
  <2>9. NoOrphanDocument'
    <3>1. Carried(d, requests[c].mark) BY <1>4 DEF IInv, MarksKept
    <3>2. \/ \E m \in queue : m.task = "ingest" /\ m.doc = d
          \/ \E w \in Workers : workers[w].doc = d
      BY <3>1 DEF Carried, Waits, InHand
    <3> QED BY <1>1, <2>2, <3>2 DEF IInv, NoOrphanDocument
  <2>10. FileKept'
    <3>1. Safe(d) BY <1>3, <1>4 DEF IInv, FoundKept
    <3> QED BY <1>1, <1>2, <1>4, <2>2, <3>1 DEF IInv, FileKept, Safe, Deleting
  <2>11. FoundKept' BY <1>1, <1>2, <1>4, <2>2, NoRequestType, FoundStay
  <2>12. NonePending' BY <1>1, <2>2, <2>4, NonePendingStays
  <2>13. LimitAhead' BY <1>2, <2>2, NoRequestType, LimitStays
  <2> QED BY <2>6, <2>7, <2>8, <2>9, <2>10, <2>11, <2>12, <2>13 DEF IInv
<1>5. CASE requests[c].kind = "deleted"
  <2>1. rows' = [e \in DOMAIN rows \ {d} |-> rows[e]] BY <1>5 DEF CommitRequest, Deleted, Restrict
  <2>2. /\ DOMAIN rows' = DOMAIN rows \ {d}
        /\ \A e \in DOMAIN rows' : rows'[e] = rows[e]
    BY <2>1
  <2>3. rows' \in [DOMAIN rows' -> Row] BY <2>1 DEF IInv, TypeInv
  <2>4. TypeInv' BY <1>1, <1>2, <2>2, <2>3, NoRequestType, RequestsStay, AllStay DEF IInv, TypeInv
  <2>5. Locks'
    <3>1. \A e \in Clients : Writes(requests'[e]) => e # c /\ Writes(requests[e]) BY <1>2, NoRequestType
    <3>2. \A w \in Workers : workers'[w].held \subseteq DOMAIN rows' BY <1>1, <1>3, <2>2
    <3> QED BY <1>1, <1>2, <1>3, <2>2, <3>1, <3>2, LocksStay
  <2>6. MarksKept' BY <1>1, <1>2, NoRequestType, MarksStay
  <2>7. NoOrphanDocument' BY <1>1, <2>2, NoneOrphaned
  <2>8. FileKept' BY <1>1, <1>2, <2>2, FilesStay
  <2>9. FoundKept' BY <1>1, <1>2, <2>2, NoRequestType, FoundStay
  <2>10. NonePending' BY <1>1, <2>2, NonePendingStays
  <2>11. LimitAhead' BY <1>2, <2>2, NoRequestType, LimitStays
  <2> QED BY <2>4, <2>5, <2>6, <2>7, <2>8, <2>9, <2>10, <2>11 DEF IInv
<1> QED BY <1>1, <1>4, <1>5 DEF Writes

LEMMA AbortRequestStep ==
    ASSUME IInv, Supposed, NEW c \in Clients, AbortRequest(c)
    PROVE  IInv'
<1>1. /\ requests' = [requests EXCEPT ![c] = NoRequest]
      /\ deaths < MaxDeaths /\ deaths' = deaths + 1
      /\ cut' = IF requests[c].kind = "deleted" THEN cut \cup {requests[c].doc} ELSE cut
      /\ UNCHANGED <<rows, created, files, queue, sent, workers>>
  BY DEF AbortRequest
<1>2. /\ requests'[c] = NoRequest /\ \A e \in Clients : e # c => requests'[e] = requests[e]
      /\ requests' \in [Clients -> Request]
  BY <1>1, NoRequestType, RequestTypes
<1>3. requests[c].kind = "deleted" => requests[c].doc \in Ids BY Types DEF Asks
<1>4. cut \subseteq cut' /\ cut' \subseteq Ids /\ (requests[c].kind = "deleted" => requests[c].doc \in cut')
  BY <1>1, <1>3 DEF IInv, TypeInv
<1>5. deaths' \in 0..MaxDeaths BY <1>1 DEF IInv, TypeInv, Supposed
<1>6. TypeInv' BY <1>1, <1>2, <1>4, <1>5, NoRequestType, RequestsStay, AllStay DEF IInv, TypeInv
<1>7. Locks' BY <1>1, <1>2, NoRequestType, LocksStay DEF IInv, Locks
<1>8. MarksKept' BY <1>1, <1>2, NoRequestType, MarksStay
<1>9. NoOrphanDocument' BY <1>1, NoneOrphaned
<1>10. FileKept' BY <1>1, <1>2, <1>4, FilesStay
<1>11. FoundKept' BY <1>1, <1>2, <1>4, NoRequestType, FoundStay
<1>12. NonePending' BY <1>1, NonePendingStays
<1>13. LimitAhead' BY <1>1, <1>2, NoRequestType, LimitStays
<1> QED BY <1>6, <1>7, <1>8, <1>9, <1>10, <1>11, <1>12, <1>13 DEF IInv

LEMMA UpdateDocumentStep ==
    ASSUME IInv, Supposed, NEW d \in Ids, NEW described \in BOOLEAN, UpdateDocument(d, described)
    PROVE  IInv'
<1>1. /\ d \in DOMAIN rows /\ rows' = [rows EXCEPT ![d] = Described(rows[d], described)]
      /\ UNCHANGED <<created, files, queue, sent, requests, workers, cut, deaths>>
  BY DEF UpdateDocument, Exists
<1>2. rows[d] \in Row BY <1>1, Types
<1>3. Described(rows[d], described) \in Row /\ Described(rows[d], described).status = rows[d].status
  BY <1>2, RowTypes
<1>4. DOMAIN rows' = DOMAIN rows /\ \A e \in DOMAIN rows : rows'[e].status = rows[e].status BY <1>1, <1>3
<1>5. rows' \in [DOMAIN rows' -> Row] BY <1>1, <1>3, <1>4 DEF IInv, TypeInv
<1>6. TypeInv' BY <1>1, <1>4, <1>5, AllStay DEF IInv, TypeInv
<1>7. Locks' BY <1>1, <1>4, LocksStay DEF IInv, Locks
<1>8. MarksKept' BY <1>1, MarksStay
<1>9. NoOrphanDocument' BY <1>1, <1>4, NoneOrphaned
<1>10. FileKept' BY <1>1, <1>4, FilesStay
<1>11. FoundKept' BY <1>1, <1>4, FoundStay
<1>12. NonePending' BY <1>1, <1>4, NonePendingStays
<1>13. LimitAhead' BY <1>1, <1>4, LimitStays
<1> QED BY <1>6, <1>7, <1>8, <1>9, <1>10, <1>11, <1>12, <1>13 DEF IInv

LEMMA TrainDocumentsStep ==
    ASSUME IInv, Supposed, TrainDocuments
    PROVE  IInv'
<1> DEFINE n == [id |-> sent + 1, task |-> "train", doc |-> 0]
<1>1. /\ sent < MaxSends /\ sent' = sent + 1 /\ queue' = queue \cup {n}
      /\ UNCHANGED <<rows, created, files, requests, workers, cut, deaths>>
  BY DEF TrainDocuments, Send
<1>2. sent + 1 \in 1..MaxSends /\ sent + 1 \in 0..MaxSends /\ 0 \in 0..MaxDocs BY <1>1, Types DEF Supposed
<1>3. n \in Message /\ n.task = "train" BY <1>2 DEF Message
<1> HIDE DEF n
<1>4. TypeInv' BY <1>1, <1>2, <1>3, AllStay DEF IInv, TypeInv
<1>5. Locks' BY <1>1, LocksStay DEF IInv, Locks
<1>6. MarksKept' BY <1>1, MarksStay
<1>7. NoOrphanDocument' BY <1>1, NoneOrphaned
<1>8. FileKept' BY <1>1, FilesStay
<1>9. FoundKept' BY <1>1, FoundStay
<1>10. NonePending' BY <1>1, NonePendingStays
<1>11. LimitAhead' BY <1>1, LimitStays
<1> QED BY <1>4, <1>5, <1>6, <1>7, <1>8, <1>9, <1>10, <1>11 DEF IInv

\* The steps of a task that writes nothing: what it holds, it held.
LEMMA TaskStep ==
    ASSUME IInv, Supposed, NEW w \in Workers, NEW t \in Task, Works(t), workers' = [workers EXCEPT ![w] = t],
           UNCHANGED <<rows, created, files, queue, sent, requests, cut, deaths>>,
           Ingests(workers[w]) =>
               \/ Ingests(t) /\ t.doc = workers[w].doc /\ t.msg = workers[w].msg
               \/ /\ \A c \in Clients : requests[c].kind = "completed" => requests[c].mark # workers[w].msg
                  /\ workers[w].doc \in DOMAIN rows => rows[workers[w].doc].status # "extracting",
           t.held \subseteq DOMAIN rows,
           \A c \in Clients : Writes(requests[c]) => requests[c].doc \notin t.held,
           \A d \in DOMAIN rows : Touches(t, d) => Touches(workers[w], d) \/ rows[d].status # "pending"
    PROVE  IInv'
<1>1. /\ workers'[w] = t /\ \A v \in Workers : v # w => workers'[v] = workers[v]
      /\ workers' \in [Workers -> Task]
  BY WorkerTypes
<1>2. TypeInv' BY <1>1, WorkersStay, AllStay DEF IInv, TypeInv
<1>3. Locks' BY <1>1 DEF IInv, Locks, Writes
<1>4. MarksKept' BY <1>1, MarksStay
<1>5. NoOrphanDocument' BY <1>1, NoneOrphaned
<1>6. FileKept' BY FilesStay
<1>7. FoundKept' BY FoundStay
<1>8. NonePending' BY <1>1, NonePendingStays
<1>9. LimitAhead' BY LimitStays
<1> QED BY <1>2, <1>3, <1>4, <1>5, <1>6, <1>7, <1>8, <1>9 DEF IInv

LEMMA TakeIngestStep ==
    ASSUME IInv, Supposed, NEW w \in Workers, NEW m \in queue, TakeIngest(w, m)
    PROVE  IInv'
<1> DEFINE t == [NoTask EXCEPT !.phase = "waiting", !.msg = m.id, !.doc = m.doc]
<1>1. /\ m.task = "ingest" /\ workers[w].phase = "idle" /\ queue' = queue \ {m}
      /\ workers' = [workers EXCEPT ![w] = t]
      /\ UNCHANGED <<rows, created, files, sent, requests, cut, deaths>>
  BY DEF TakeIngest, Take
<1>2. /\ m.id \in 1..MaxSends /\ m.id \in 0..MaxSends /\ m.id # 0
      /\ m.doc \in 0..MaxDocs /\ m.doc \in 1..created
  BY <1>1 DEF IInv, TypeInv, Message, Supposed
<1>3. t.phase = "waiting" /\ t.msg = m.id /\ t.doc = m.doc /\ t.todo = {} /\ t.held = {} BY DEF NoTask
<1>4. t \in Task BY <1>2, NoTaskType DEF Task, Phases
<1> HIDE DEF t
<1>5. Works(t) /\ Ingests(t) /\ ~Ingests(workers[w]) /\ \A d : ~Touches(t, d)
  BY <1>1, <1>2, <1>3 DEF Works, Ingests, Touches
<1>6. /\ workers'[w] = t /\ \A v \in Workers : v # w => workers'[v] = workers[v]
      /\ workers' \in [Workers -> Task]
  BY <1>1, <1>4, WorkerTypes
<1>7. TypeInv' BY <1>1, <1>5, <1>6, WorkersStay, AllStay DEF IInv, TypeInv
<1>8. Locks' BY <1>1, <1>3, <1>6 DEF IInv, Locks, Writes
<1>9. MarksKept' BY <1>1, <1>3, <1>5, <1>6, MarksStay
<1>10. NoOrphanDocument' BY <1>1, <1>3, <1>5, <1>6, NoneOrphaned
<1>11. FileKept' BY <1>1, FilesStay
<1>12. FoundKept' BY <1>1, FoundStay
<1>13. NonePending' BY <1>1, <1>5, <1>6, NonePendingStays
<1>14. LimitAhead' BY <1>1, LimitStays
<1> QED BY <1>7, <1>8, <1>9, <1>10, <1>11, <1>12, <1>13, <1>14 DEF IInv

LEMMA WaitForUploadStep ==
    ASSUME IInv, Supposed, NEW w \in Workers, WaitForUpload(w)
    PROVE  IInv'
<1>1. /\ workers[w].phase = "waiting"
      /\ UNCHANGED <<rows, created, files, queue, sent, requests, cut, deaths>>
  BY DEF WaitForUpload
<1>2. workers[w] \in Task /\ Works(workers[w]) /\ Ingests(workers[w])
  BY <1>1, Types DEF Ingests
<1>3. CASE SeesUpload(w) /\ workers' = [workers EXCEPT ![w].phase = "extracting"]
  <2> DEFINE t == [workers[w] EXCEPT !.phase = "extracting"]
  <2>1. /\ t.phase = "extracting" /\ t.doc = workers[w].doc /\ t.msg = workers[w].msg
        /\ t.todo = workers[w].todo /\ t.held = workers[w].held
    BY <1>2 DEF Task
  <2>2. t \in Task BY <1>2 DEF Task, Phases
  <2>3. workers' = [workers EXCEPT ![w] = t] BY <1>3
  <2> HIDE DEF t
  <2>4. Works(t) /\ Ingests(t) BY <1>2, <2>1 DEF Works, Ingests
  <2>5. \A d \in DOMAIN rows : Touches(t, d) => Touches(workers[w], d) \/ rows[d].status # "pending"
    BY <1>3, <2>1 DEF Touches, SeesUpload
  <2>6. t.held \subseteq DOMAIN rows /\ \A c \in Clients : Writes(requests[c]) => requests[c].doc \notin t.held
    BY <2>1 DEF IInv, Locks
  <2> QED BY <1>1, <2>1, <2>2, <2>3, <2>4, <2>5, <2>6, TaskStep
<1>4. CASE ~SeesUpload(w) /\ SenderOver(w) /\ workers' = [workers EXCEPT ![w] = NoTask]
  <2>1. /\ \A c \in Clients : requests[c].kind = "completed" => requests[c].mark # workers[w].msg
        /\ workers[w].doc \in DOMAIN rows => rows[workers[w].doc].status # "extracting"
    BY <1>4 DEF SenderOver, SeesUpload, Exists
  <2> QED BY <1>1, <1>4, <2>1, NoTaskType, TaskStep
<1> QED BY <1>3, <1>4 DEF WaitForUpload

LEMMA ExtractStep ==
    ASSUME IInv, Supposed, NEW w \in Workers, Extract(w)
    PROVE  IInv'
<1>1. /\ workers[w].phase = "extracting"
      /\ UNCHANGED <<rows, created, files, queue, sent, requests, cut, deaths>>
  BY DEF Extract
<1>2. workers[w] \in Task /\ Works(workers[w]) /\ Ingests(workers[w])
  BY <1>1, Types DEF Ingests
<1>3. workers[w].doc \in 1..created BY <1>2 DEF Works
<1>4. files[workers[w].doc] \in 0..MaxPuts BY <1>3, Types DEF Supposed
<1>5. PICK e \in Classified(files[workers[w].doc]) :
          workers' = [workers EXCEPT ![w].phase = "saving", ![w].status = e[1], ![w].text = e[2]]
  BY DEF Extract
<1>6. e[1] \in Outcomes /\ e[1] \in Statuses /\ e[2] \in 0..MaxPuts
  BY <1>4 DEF Classified, Outcomes, Statuses, Supposed
<1> DEFINE t == [workers[w] EXCEPT !.phase = "saving", !.status = e[1], !.text = e[2]]
<1>7. /\ t.phase = "saving" /\ t.doc = workers[w].doc /\ t.msg = workers[w].msg /\ t.status = e[1]
      /\ t.todo = workers[w].todo /\ t.held = workers[w].held
  BY <1>2 DEF Task
<1>8. t \in Task BY <1>2, <1>6 DEF Task, Phases
<1>9. workers' = [workers EXCEPT ![w] = t] BY <1>5
<1> HIDE DEF t
<1>10. Works(t) /\ Ingests(t) BY <1>2, <1>6, <1>7 DEF Works, Ingests
<1>11. \A d \in DOMAIN rows : Touches(t, d) => Touches(workers[w], d) BY <1>1, <1>7 DEF Touches
<1>12. t.held \subseteq DOMAIN rows /\ \A c \in Clients : Writes(requests[c]) => requests[c].doc \notin t.held
  BY <1>7 DEF IInv, Locks
<1> QED BY <1>1, <1>7, <1>8, <1>9, <1>10, <1>11, <1>12, TaskStep

\* A task that saves what came out of a document, or that it failed.
LEMMA SaveStep ==
    ASSUME IInv, Supposed, NEW w \in Workers, NEW s \in Outcomes, NEW n \in 0..MaxPuts,
           workers[w].phase \in {"extracting", "saving"}, ~Locked(workers[w].doc),
           rows' = IF Exists(workers[w].doc)
                   THEN [rows EXCEPT ![workers[w].doc] = Extraction(rows[workers[w].doc], s, n)] ELSE rows,
           workers' = [workers EXCEPT ![w] = NoTask],
           UNCHANGED <<created, files, queue, sent, requests, cut, deaths>>
    PROVE  IInv'
<1> DEFINE d == workers[w].doc
<1>1. /\ workers'[w] = NoTask /\ \A v \in Workers : v # w => workers'[v] = workers[v]
      /\ workers' \in [Workers -> Task]
  BY NoTaskType, WorkerTypes
<1>2. s \in Statuses /\ s # "pending" /\ s # "extracting" BY DEF Outcomes, Statuses
<1>3. d \in DOMAIN rows => /\ Extraction(rows[d], s, n) \in Row /\ Extraction(rows[d], s, n).status = s
                           /\ rows[d].status # "pending"
  <2>1. Touches(workers[w], d) BY DEF Touches
  <2> QED BY <1>2, <2>1, Types, RowTypes DEF IInv, NonePending
<1>4. DOMAIN rows' = DOMAIN rows /\ \A e \in DOMAIN rows : e # d => rows'[e] = rows[e] BY DEF Exists
<1>5. d \in DOMAIN rows => rows'[d] = Extraction(rows[d], s, n) BY DEF Exists
<1>6. rows' \in [DOMAIN rows' -> Row]
  <2>1. CASE d \in DOMAIN rows BY <1>3, <1>4, <2>1 DEF IInv, TypeInv, Exists
  <2>2. CASE d \notin DOMAIN rows BY <1>4, <2>2 DEF IInv, TypeInv, Exists
  <2> QED BY <2>1, <2>2
<1>7. d \in DOMAIN rows => rows'[d].status \notin {"pending", "extracting"} BY <1>2, <1>3, <1>5
<1> HIDE DEF d
<1>8. TypeInv' BY <1>1, <1>4, <1>6, NoTaskType, WorkersStay, AllStay DEF IInv, TypeInv
<1>9. Locks' BY <1>1, <1>4, NoTaskType, LocksStay DEF IInv, Locks
<1>10. \A c \in Clients : requests[c].kind = "completed" => requests[c].doc # d BY DEF Locked, d
<1>11. MarksKept' BY <1>1, <1>10, MarksStay DEF d
<1>12. NoOrphanDocument' BY <1>1, <1>4, <1>7, NoneOrphaned DEF d
<1>13. FileKept' BY <1>3, <1>4, FilesStay
<1>14. FoundKept' BY <1>4, FoundStay
<1>15. NonePending' BY <1>1, <1>4, <1>7, NoTaskType, NonePendingStays
<1>16. LimitAhead' BY <1>4, LimitStays
<1> QED BY <1>8, <1>9, <1>11, <1>12, <1>13, <1>14, <1>15, <1>16 DEF IInv

LEMMA SaveExtractionStep ==
    ASSUME IInv, Supposed, NEW w \in Workers, SaveExtraction(w)
    PROVE  IInv'
<1>1. workers[w].phase = "saving" BY DEF SaveExtraction
<1>2. workers[w].status \in Outcomes /\ workers[w].text \in 0..MaxPuts BY <1>1, Types DEF Works, Task
<1> QED BY <1>1, <1>2, SaveStep DEF SaveExtraction

LEMMA MarkFailedStep ==
    ASSUME IInv, Supposed, NEW w \in Workers, MarkFailed(w)
    PROVE  IInv'
<1>1. "failed" \in Outcomes /\ 0 \in 0..MaxPuts BY DEF Outcomes, Supposed
<1> QED BY <1>1, SaveStep DEF MarkFailed

LEMMA TakeTrainStep ==
    ASSUME IInv, Supposed, NEW w \in Workers, NEW m \in queue, TakeTrain(w, m)
    PROVE  IInv'
<1> DEFINE t == [NoTask EXCEPT !.phase = "training", !.msg = m.id, !.todo = Untrained]
<1>1. /\ m.task = "train" /\ workers[w].phase = "idle" /\ queue' = queue \ {m}
      /\ workers' = [workers EXCEPT ![w] = t]
      /\ UNCHANGED <<rows, created, files, sent, requests, cut, deaths>>
  BY DEF TakeTrain, Take
<1>2. m.id \in 0..MaxSends /\ m.id # 0 BY DEF IInv, TypeInv, Message, Supposed
<1>3. /\ Untrained \subseteq 1..created /\ Untrained \subseteq Ids
      /\ \A d \in Untrained : rows[d].status = "extracted"
  BY Types DEF Untrained
<1>4. t.phase = "training" /\ t.msg = m.id /\ t.doc = 0 /\ t.todo = Untrained /\ t.held = {} BY DEF NoTask
<1>5. t \in Task BY <1>2, <1>3, NoTaskType DEF Task, Phases
<1> HIDE DEF t
<1>6. Works(t) /\ ~Ingests(workers[w]) /\ \A d \in DOMAIN rows : Touches(t, d) => rows[d].status # "pending"
  BY <1>1, <1>2, <1>3, <1>4 DEF Works, Ingests, Touches
<1>7. /\ workers'[w] = t /\ \A v \in Workers : v # w => workers'[v] = workers[v]
      /\ workers' \in [Workers -> Task]
  BY <1>1, <1>5, WorkerTypes
<1>8. TypeInv' BY <1>1, <1>6, <1>7, WorkersStay, AllStay DEF IInv, TypeInv
<1>9. Locks' BY <1>1, <1>4, <1>7 DEF IInv, Locks, Writes
<1>10. MarksKept' BY <1>1, <1>6, <1>7, MarksStay
<1>11. NoOrphanDocument' BY <1>1, <1>6, <1>7, NoneOrphaned
<1>12. FileKept' BY <1>1, FilesStay
<1>13. FoundKept' BY <1>1, FoundStay
<1>14. NonePending' BY <1>1, <1>6, <1>7, NonePendingStays
<1>15. LimitAhead' BY <1>1, LimitStays
<1> QED BY <1>8, <1>9, <1>10, <1>11, <1>12, <1>13, <1>14, <1>15 DEF IInv

\* The first document of a list is on it.
LEMMA MinOf ==
    ASSUME NEW S, S \subseteq Nat, S # {}
    PROVE  Min(S) \in S
<1> DEFINE R == {pair \in Nat \X Nat : pair[1] < pair[2]}
<1>1. IsWellFoundedOn(R, Nat) BY NatLessThanWellFounded DEF OpToRel
<1> HIDE DEF R
<1>2. PICK x \in S : \A y \in S : <<y, x>> \notin R BY <1>1, WFMin
<1>3. ASSUME NEW y \in S PROVE x <= y
  <2>1. <<y, x>> \notin R BY <1>2
  <2> QED BY <2>1 DEF R
<1> QED BY <1>3 DEF Min

LEMMA TrainOneStep ==
    ASSUME IInv, Supposed, NEW w \in Workers, TrainOne(w)
    PROVE  IInv'
<1>1. workers[w] \in Task /\ Works(workers[w]) BY Types
<1>2. PICK d : d = Min(workers[w].todo) OBVIOUS
<1>3. PICK told \in BOOLEAN :
          workers' = [workers EXCEPT ![w].todo = @ \ {d}, ![w].held = IF Exists(d) THEN @ \cup {d} ELSE @,
                                     ![w].told = IF told THEN @ \cup {d} ELSE @]
  BY <1>2 DEF TrainOne
<1>4. /\ workers[w].phase = "training" /\ workers[w].todo # {} /\ ~Locked(d)
      /\ UNCHANGED <<rows, created, files, queue, sent, requests, cut, deaths>>
  BY <1>2 DEF TrainOne
<1>5. d \in workers[w].todo
  <2>1. workers[w].todo \subseteq Nat BY <1>1, Types DEF Works
  <2> QED BY <1>2, <1>4, <2>1, MinOf
<1>6. d \in Ids BY <1>1, <1>5, Types DEF Works
<1> DEFINE t == [workers[w] EXCEPT !.todo = workers[w].todo \ {d},
                                   !.held = IF Exists(d) THEN workers[w].held \cup {d} ELSE workers[w].held,
                                   !.told = IF told THEN workers[w].told \cup {d} ELSE workers[w].told]
<1>7. /\ t.phase = "training" /\ t.doc = workers[w].doc /\ t.msg = workers[w].msg
      /\ t.todo = workers[w].todo \ {d}
      /\ t.held = IF Exists(d) THEN workers[w].held \cup {d} ELSE workers[w].held
  BY <1>1, <1>4 DEF Task
<1>8. t \in Task
  <2>1. /\ workers[w].todo \ {d} \in SUBSET Ids
        /\ (IF Exists(d) THEN workers[w].held \cup {d} ELSE workers[w].held) \in SUBSET Ids
        /\ (IF told THEN workers[w].told \cup {d} ELSE workers[w].told) \in SUBSET Ids
    BY <1>1, <1>6 DEF Task
  <2> QED BY <1>1, <2>1 DEF Task
<1>9. workers' = [workers EXCEPT ![w] = t] BY <1>3
<1> HIDE DEF t
<1>10. Works(t) /\ ~Ingests(workers[w]) BY <1>1, <1>4, <1>7 DEF Works, Ingests
<1>11. t.held \subseteq DOMAIN rows BY <1>7 DEF IInv, Locks, Exists
<1>12. \A c \in Clients : Writes(requests[c]) => requests[c].doc \notin t.held
  BY <1>4, <1>7 DEF IInv, Locks, Locked, Writes
<1>13. \A e \in DOMAIN rows : Touches(t, e) => Touches(workers[w], e) BY <1>5, <1>7 DEF Touches
<1> QED BY <1>4, <1>8, <1>9, <1>10, <1>11, <1>12, <1>13, TaskStep

LEMMA CommitTrainingStep ==
    ASSUME IInv, Supposed, NEW w \in Workers, CommitTraining(w)
    PROVE  IInv'
<1>1. /\ workers[w].phase = "training"
      /\ rows' = [d \in DOMAIN rows |-> IF d \in workers[w].held
                                        THEN TrainedRow(rows[d], d \in workers[w].told) ELSE rows[d]]
      /\ workers' = [workers EXCEPT ![w] = NoTask]
      /\ UNCHANGED <<created, files, queue, sent, requests, cut, deaths>>
  BY DEF CommitTraining
<1>2. /\ workers'[w] = NoTask /\ \A v \in Workers : v # w => workers'[v] = workers[v]
      /\ workers' \in [Workers -> Task]
  BY <1>1, NoTaskType, WorkerTypes
<1>3. \A d \in workers[w].held : d \in DOMAIN rows /\ rows[d].status # "pending"
  BY DEF IInv, Locks, NonePending, Touches
<1>4. \A d \in DOMAIN rows : TrainedRow(rows[d], d \in workers[w].told) \in Row
                             /\ TrainedRow(rows[d], d \in workers[w].told).status = "trained"
  <2> TAKE d \in DOMAIN rows
  <2>1. (d \in workers[w].told) \in BOOLEAN /\ rows[d] \in Row BY Types
  <2> QED BY <2>1, RowTypes
<1>5. /\ DOMAIN rows' = DOMAIN rows
      /\ \A d \in DOMAIN rows : \/ rows'[d] = rows[d]
                                \/ /\ rows'[d] \in Row /\ rows'[d].status = "trained"
                                   /\ rows[d].status # "pending"
  BY <1>1, <1>3, <1>4
<1>6. rows' \in [DOMAIN rows' -> Row] BY <1>1, <1>4, Types
<1>7. ~Ingests(workers[w]) BY <1>1 DEF Ingests
<1>8. TypeInv' BY <1>1, <1>2, <1>5, <1>6, NoTaskType, WorkersStay, AllStay DEF IInv, TypeInv
<1>9. Locks' BY <1>1, <1>2, <1>5, NoTaskType, LocksStay DEF IInv, Locks
<1>10. MarksKept' BY <1>1, <1>2, <1>7, MarksStay
<1>11. NoOrphanDocument' BY <1>1, <1>2, <1>5, <1>7, NoneOrphaned
<1>12. FileKept' BY <1>1, <1>5, FilesStay
<1>13. FoundKept' BY <1>1, <1>5, FoundStay
<1>14. NonePending' BY <1>1, <1>2, <1>5, NoTaskType, NonePendingStays
<1>15. LimitAhead' BY <1>1, <1>5, LimitStays
<1> QED BY <1>8, <1>9, <1>10, <1>11, <1>12, <1>13, <1>14, <1>15 DEF IInv

LEMMA DieStep ==
    ASSUME IInv, Supposed, NEW w \in Workers, Die(w)
    PROVE  IInv'
<1> DEFINE m == [id |-> workers[w].msg, doc |-> workers[w].doc,
                 task |-> IF workers[w].phase = "training" THEN "train" ELSE "ingest"]
<1>1. /\ workers[w].phase # "idle" /\ deaths < MaxDeaths /\ deaths' = deaths + 1
      /\ queue' = queue \cup {m} /\ workers' = [workers EXCEPT ![w] = NoTask]
      /\ UNCHANGED <<rows, created, files, sent, requests, cut>>
  BY DEF Die
<1>2. /\ workers'[w] = NoTask /\ \A v \in Workers : v # w => workers'[v] = workers[v]
      /\ workers' \in [Workers -> Task]
  BY <1>1, NoTaskType, WorkerTypes
<1>3. workers[w] \in Task /\ Works(workers[w]) BY Types
<1>4. workers[w].msg \in 1..MaxSends /\ workers[w].doc \in 0..MaxDocs
  BY <1>1, <1>3 DEF Task, Works, Supposed
<1>5. m \in Message /\ m.id = workers[w].msg /\ m.doc = workers[w].doc BY <1>4 DEF Message
<1>6. m.task = "ingest" <=> Ingests(workers[w]) BY <1>1, <1>3 DEF Ingests, Task, Phases
<1>7. m.task = "ingest" => m.doc \in 1..created BY <1>3, <1>6 DEF Works
<1> HIDE DEF m
<1>8. deaths' \in 0..MaxDeaths BY <1>1 DEF IInv, TypeInv, Supposed
<1>9. TypeInv' BY <1>1, <1>2, <1>5, <1>7, <1>8, NoTaskType, WorkersStay, AllStay DEF IInv, TypeInv
<1>10. Locks' BY <1>1, <1>2, NoTaskType, LocksStay DEF IInv, Locks
<1>11. MarksKept' BY <1>1, <1>2, <1>5, <1>6, MarksStay
<1>12. NoOrphanDocument' BY <1>1, <1>2, <1>5, <1>6, NoneOrphaned
<1>13. FileKept' BY <1>1, FilesStay
<1>14. FoundKept' BY <1>1, FoundStay
<1>15. NonePending' BY <1>1, <1>2, NoTaskType, NonePendingStays
<1>16. LimitAhead' BY <1>1, LimitStays
<1> QED BY <1>9, <1>10, <1>11, <1>12, <1>13, <1>14, <1>15, <1>16 DEF IInv

-----------------------------------------------------------------------------
LEMMA DocumentsInit == Init /\ Supposed => IInv
<1> SUFFICES ASSUME Init, Supposed PROVE IInv OBVIOUS
<1> USE DEF Init
<1>1. DOMAIN rows = {} /\ requests = [c \in Clients |-> NoRequest] /\ workers = [w \in Workers |-> NoTask] OBVIOUS
<1>2. TypeInv
  <2>1. AllAsk /\ AllWork BY <1>1, NoRequestType, NoTaskType DEF AllAsk, AllWork
  <2>2. files \in [Ids -> 0..MaxPuts] BY DEF Supposed
  <2>3. rows \in [DOMAIN rows -> Row] BY <1>1
  <2> QED BY <1>1, <2>1, <2>2, <2>3, NoRequestType, NoTaskType DEF TypeInv, Supposed
<1>3. Locks /\ MarksKept /\ FoundKept /\ NonePending
  BY <1>1, NoRequestType, NoTaskType DEF Locks, MarksKept, FoundKept, NonePending
<1>4. NoOrphanDocument /\ FileKept BY <1>1 DEF NoOrphanDocument, FileKept
<1>5. LimitAhead
  <2>1. Counted = {} BY <1>1, NoRequestType DEF Counted
  <2>2. Cardinality({}) = 0 BY FS_EmptySet
  <2>3. Cardinality(Clients) \in Nat /\ Cardinality(Clients) # 0
    BY FS_EmptySet, FS_CardinalityType DEF Supposed
  <2> QED BY <1>1, <2>1, <2>2, <2>3 DEF LimitAhead, Supposed
<1> QED BY <1>2, <1>3, <1>4, <1>5 DEF IInv

LEMMA DocumentsStep == IInv /\ Supposed /\ [Next]_vars => IInv'
<1> SUFFICES ASSUME IInv, Supposed, [Next]_vars PROVE IInv' OBVIOUS
<1>1. CASE UNCHANGED vars
  <2>1. UNCHANGED <<rows, created, files, queue, sent, requests, workers, cut, deaths>> BY <1>1 DEF vars
  <2>2. TypeInv' BY <2>1, AllStay DEF IInv, TypeInv
  <2>3. Locks' BY <2>1 DEF IInv, Locks, Writes
  <2>4. MarksKept' BY <2>1, MarksStay
  <2>5. NoOrphanDocument' BY <2>1, NoneOrphaned
  <2>6. FileKept' BY <2>1, FilesStay
  <2>7. FoundKept' BY <2>1, FoundStay
  <2>8. NonePending' BY <2>1, NonePendingStays
  <2>9. LimitAhead' BY <2>1, LimitStays
  <2> QED BY <2>2, <2>3, <2>4, <2>5, <2>6, <2>7, <2>8, <2>9 DEF IInv
<1>2. CASE ClientNext
  BY <1>2, RequestUploadStep, CreateDocumentStep, SaveUploadedStep, CommitRequestStep, AbortRequestStep,
     CompleteUploadStep, DeleteDocumentStep, PutFileStep, UpdateDocumentStep, TrainDocumentsStep DEF ClientNext
<1>3. CASE WorkerNext
  BY <1>3, TakeIngestStep, TakeTrainStep, WaitForUploadStep, ExtractStep, SaveExtractionStep, MarkFailedStep,
     TrainOneStep, CommitTrainingStep, DieStep DEF WorkerNext
<1> QED BY <1>1, <1>2, <1>3 DEF Next

LEMMA DocumentsFollow == IInv /\ Supposed => TypeOK /\ NoOrphanDocument /\ FileKept /\ LimitSlack
<1> SUFFICES ASSUME IInv, Supposed PROVE TypeOK /\ NoOrphanDocument /\ FileKept /\ LimitSlack OBVIOUS
<1>1. TypeOK BY Types DEF IInv, TypeInv, TypeOK, Locks
<1>2. LimitSlack
  <2>1. Counted \subseteq Clients BY DEF Counted
  <2>2. Cardinality(Counted) \in Nat BY <2>1, Sizes
  <2> QED BY <2>2, Sizes DEF IInv, LimitAhead, LimitSlack, Count
<1> QED BY <1>1, <1>2 DEF IInv

\* Whatever requests, workers and messages meet, and whoever dies: a document that says it
\* is being extracted has somebody to extract it, a document past "pending" has its file
\* but for a deletion, and the limit is passed by the requests beside the last one at most.
THEOREM DocumentsStaySafe ==
    ASSUME Supposed
    PROVE  Spec => [](TypeOK /\ NoOrphanDocument /\ FileKept /\ LimitSlack)
<1>1. Init => IInv BY DocumentsInit
<1>2. IInv /\ [Next]_vars => IInv' BY DocumentsStep
<1>3. IInv => TypeOK /\ NoOrphanDocument /\ FileKept /\ LimitSlack BY DocumentsFollow
<1> QED BY <1>1, <1>2, <1>3, PTL DEF Spec
=============================================================================
