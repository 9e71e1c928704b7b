----------------------------- MODULE ProjectTree -----------------------------
(***************************************************************************)
(* The folders and files of one project: their rows, the files' bytes in   *)
(* the bucket, and the requests that change them, from the agent's file    *)
(* tools (by path, projects/files.py) and from the panel's routes (by id). *)
(*                                                                         *)
(* A request reads what others committed and decides everything it will do *)
(* on that view; then it sends its statements to the database, where the   *)
(* indexes, the foreign keys and the locks of other open transactions are  *)
(* the final word, moves bytes in the bucket, which is in no transaction,  *)
(* and commits.                                                            *)
(***************************************************************************)
EXTENDS Naturals, FiniteSets, Sequences, SequencesExt

CONSTANTS
    Clients,        \* requests under way at once
    Names,          \* names of folders and files, "a" and "b" among them
    MaxFolders,     \* bound: folders ever created
    MaxFiles,       \* bound: files ever created
    MaxRequests,    \* bound: requests that change the tree
    MaxDeaths       \* bound: requests that fail after their statements

VARIABLES
    tree,       \* the rows as committed: id -> entry
    made,       \* ids given out: [folders, files]
    bytes,      \* files whose bytes are in the bucket
    tickets,    \* files a client holds an upload URL for
    requests,   \* client -> the request it has under way
    asked,      \* requests so far
    hurt        \* files whose bytes a failed request had already removed

vars == <<tree, made, bytes, tickets, requests, asked, hurt>>

ROOT == 0
MISSING == 99
Folders == 1..MaxFolders
Files == 11..(10 + MaxFiles)

Entry == [up: {ROOT} \cup Folders, name: Names, kind: {"folder", "pending", "ready"}]
NewEntry(up, name, kind) == [up |-> up, name |-> name, kind |-> kind]

Paths == UNION {[1..n -> Names] : n \in 0..2}
FilePaths == Paths \ {<<>>}

IsFolder(t, e) == e \in DOMAIN t /\ t[e].kind = "folder"
IsFile(t, e) == e \in DOMAIN t /\ t[e].kind # "folder"

-----------------------------------------------------------------------------
\* The adapter's queries, over a view of the rows.
In(t, up) == {e \in DOMAIN t : t[e].up = up}

FindEntry(t, up, name) ==
    LET here == {e \in In(t, up) : t[e].name = name}
        folders == {e \in here : IsFolder(t, e)}
    IN  IF here = {} THEN MISSING
        ELSE CHOOSE e \in here : folders # {} => e \in folders

\* The entry and every folder above it, however the rows point at each other.
Above(t, e) ==
    LET climb[n \in 0..MaxFolders] ==
            IF n = 0 THEN {e}
            ELSE climb[n - 1] \cup {t[x].up : x \in climb[n - 1] \cap DOMAIN t}
    IN  climb[MaxFolders] \ {ROOT}

\* paths.list_paths climbs from every entry to the root.
EndsAtRoot(t, e) == \E x \in Above(t, e) \cap DOMAIN t : t[x].up = ROOT

Below(t, e) == {x \in DOMAIN t : e \in Above(t, x)}

-----------------------------------------------------------------------------
\* What a request makes of the rows it read: the view it works on, the files it
\* gives bytes (copied from another file, or new), the files it will remove from
\* the bucket, and whether it has been refused.
CLIENT == 98
Reading == [tree |-> tree, made |-> made, puts |-> {}, erases |-> {}, ok |-> TRUE]
Refused(v) == [v EXCEPT !.ok = FALSE]

AddFolder(v, up, name) ==
    LET id == v.made.folders + 1
    IN  [v EXCEPT !.made.folders = id, !.tree = @ @@ (id :> NewEntry(up, name, "folder"))]

AddFile(v, up, name, kind) ==
    LET id == 11 + v.made.files
    IN  [v EXCEPT !.made.files = @ + 1, !.tree = @ @@ (id :> NewEntry(up, name, kind))]

Put(v, from, f) ==
    [v EXCEPT !.tree[f].kind = "ready", !.puts = @ \cup {<<from, f>>}]

\* paths.resolve: the folder or file at a path, MISSING when a segment is.
Resolve(t, path) ==
    FoldLeft(LAMBDA at, name : IF at = ROOT \/ IsFolder(t, at) THEN FindEntry(t, at, name)
                               ELSE MISSING,
             ROOT, path)

\* paths.ensure_folder, mkdir -p.
EnsureFolder(v, path) ==
    FoldLeft(LAMBDA acc, name :
                LET e == FindEntry(acc.v.tree, acc.at, name)
                IN  IF ~acc.v.ok THEN acc
                    ELSE IF e = MISSING THEN
                        [v |-> AddFolder(acc.v, acc.at, name), at |-> acc.v.made.folders + 1]
                    ELSE IF IsFolder(acc.v.tree, e) THEN [acc EXCEPT !.at = e]
                    ELSE [acc EXCEPT !.v = Refused(@)],
             [v |-> v, at |-> ROOT], path)

\* paths.store_file: the server holds the bytes, so the file is ready at once.
StoreFile(v, up, name, overwrite) ==
    LET e == FindEntry(v.tree, up, name)
        new == AddFile(v, up, name, "pending")
    IN  IF ~v.ok \/ IsFolder(v.tree, e) THEN Refused(v)
        ELSE IF e = MISSING THEN Put(new, CLIENT, 11 + v.made.files)
        ELSE IF v.tree[e].kind = "ready" /\ ~overwrite THEN Refused(v)
        ELSE Put(v, CLIENT, e)

\* paths.copy_entry: a file, or a folder with everything under it.
RECURSIVE CopyEntry(_, _, _, _, _)
CopyEntry(v, e, up, name, replace) ==
    LET there == FindEntry(v.tree, up, name)
        into == IF there = MISSING THEN v.made.folders + 1 ELSE there
        opened == IF there = MISSING THEN AddFolder(v, up, name) ELSE v
        children == SetToSortSeq(In(v.tree, e), <)
    IN  IF ~v.ok THEN v
        ELSE IF IsFile(v.tree, e) THEN
            IF v.tree[e].kind = "pending" THEN v
            ELSE IF there = MISSING THEN
                Put(AddFile(v, up, name, "pending"), e, 11 + v.made.files)
            ELSE IF replace /\ IsFile(v.tree, there) THEN Put(v, e, there)
            ELSE Refused(v)
        ELSE IF there # MISSING /\ ~IsFolder(v.tree, there) THEN Refused(v)
        ELSE FoldLeft(LAMBDA w, child : CopyEntry(w, child, into, v.tree[child].name, replace),
                      opened, children)

\* ProjectFiles._destination: into a folder that is there, or to the new path.
Destination(v, path, name) ==
    LET there == Resolve(v.tree, path)
        inside == EnsureFolder(v, Front(path))
    IN  IF path = <<>> \/ IsFolder(v.tree, there) THEN [v |-> v, at |-> there, name |-> name]
        ELSE [v |-> inside.v, at |-> inside.at, name |-> Last(path)]

\* A folder copied into itself, or under itself, is listed with its own copy in it.
CopyEnds(t, e, up) == IsFolder(t, e) => e \notin Above(t, up)

HasFolder(t, up) == up = ROOT \/ IsFolder(t, up)
NameFree(t, up, name, ignored) == FindEntry(t, up, name) \in {MISSING, ignored}

\* create_folder, by the panel: where it goes is there, and the name is free.
CreateFolder(v, up, name) ==
    IF HasFolder(v.tree, up) /\ NameFree(v.tree, up, name, MISSING) THEN AddFolder(v, up, name)
    ELSE Refused(v)

Rename(v, e, name) ==
    IF v.ok /\ NameFree(v.tree, v.tree[e].up, name, e) THEN [v EXCEPT !.tree[e].name = name]
    ELSE Refused(v)

RenameFolder(v, e, name) == IF IsFolder(v.tree, e) THEN Rename(v, e, name) ELSE Refused(v)
RenameFile(v, e, name) == IF IsFile(v.tree, e) THEN Rename(v, e, name) ELSE Refused(v)

Move(v, e, up) ==
    IF v.ok /\ HasFolder(v.tree, up) /\ NameFree(v.tree, up, v.tree[e].name, e)
    THEN [v EXCEPT !.tree[e].up = up]
    ELSE Refused(v)

\* A folder never goes into itself or a folder under it.
MoveFolder(v, e, up) ==
    IF IsFolder(v.tree, e) /\ e \notin Above(v.tree, up) THEN Move(v, e, up) ELSE Refused(v)
MoveFile(v, e, up) == IF IsFile(v.tree, e) THEN Move(v, e, up) ELSE Refused(v)

Delete(v, gone) ==
    [v EXCEPT !.tree = [x \in DOMAIN @ \ gone |-> @[x]], !.erases = {x \in gone : IsFile(v.tree, x)}]

DeleteFolder(v, e) == IF IsFolder(v.tree, e) THEN Delete(v, Below(v.tree, e)) ELSE Refused(v)
DeleteFile(v, e) == IF IsFile(v.tree, e) THEN Delete(v, {e}) ELSE Refused(v)

\* An upload that was never completed gives way; anything else keeps its name.
RequestUpload(v, up, name) ==
    LET e == FindEntry(v.tree, up, name)
        cleared == IF e = MISSING THEN v ELSE DeleteFile(v, e)
    IN  IF ~v.ok \/ ~HasFolder(v.tree, up) THEN Refused(v)
        ELSE IF e # MISSING /\ v.tree[e].kind # "pending" THEN Refused(v)
        ELSE AddFile(cleared, up, name, "pending")

\* Mutant: the bucket is not asked.
StoredAssumed(f) == TRUE
Stored(f) == f \in bytes
CompleteUpload(v, f) ==
    IF IsFile(v.tree, f) /\ Stored(f) THEN [v EXCEPT !.tree[f].kind = "ready"] ELSE Refused(v)

-----------------------------------------------------------------------------
\* The statements of a request: the rows it adds, the columns it changes, the
\* rows it deletes, which the foreign keys carry down at the commit.
Changes(old, new) ==
    LET fields == {f \in {"up", "name", "kind"} : old[f] # new[f]}
    IN  [f \in fields |-> new[f]]

NoPlan == [adds |-> [e \in {} |-> ROOT], edits |-> [e \in {} |-> ROOT], drops |-> {},
           puts |-> {}, erases |-> {}]
Plan(v) ==
    LET kept == DOMAIN tree \cap DOMAIN v.tree
    IN  [adds |-> [e \in DOMAIN v.tree \ DOMAIN tree |-> v.tree[e]],
         edits |-> [e \in {x \in kept : tree[x] # v.tree[x]} \cup
                          {x \in kept : \E p \in v.puts : p[2] = x}
                        |-> Changes(tree[e], v.tree[e])],
         drops |-> DOMAIN tree \ DOMAIN v.tree,
         puts |-> v.puts,
         erases |-> v.erases]

Resting == [at |-> "rest", plan |-> NoPlan]

\* The rows once a plan is applied to what is committed now.
Applied(p) ==
    LET gone == UNION {Below(tree, e) : e \in p.drops}
        kept == DOMAIN tree \ gone
    IN  [e \in kept |-> IF e \in DOMAIN p.edits THEN p.edits[e] @@ tree[e] ELSE tree[e]] @@ p.adds

Moved(p) == {e \in DOMAIN p.edits : DOMAIN p.edits[e] \cap {"up", "name"} # {}}

\* The unique indexes, one over folders and one over files: not one over both.
Taken(t, e) ==
    \E x \in DOMAIN t \ {e} : /\ t[x].up = t[e].up
                              /\ t[x].name = t[e].name
                              /\ IsFolder(t, x) <=> IsFolder(t, e)

Goes(p) ==
    LET after == Applied(p)
        touched == DOMAIN p.adds \cup Moved(p)
    IN  /\ DOMAIN p.edits \subseteq DOMAIN after
        /\ \A e \in touched : after[e].up = ROOT \/ IsFolder(after, after[e].up)
        /\ \A e \in touched : ~Taken(after, e)

\* What the statements of a plan lock: rows, places in an index, parents.
Locks(p) ==
    LET after == Applied(p)
        place(t, e) == <<t[e].up, t[e].name, IsFolder(t, e)>>
        gone == DOMAIN tree \ DOMAIN after
    IN  [rows |-> DOMAIN p.edits \cup gone,
         places |-> {place(after, e) : e \in (DOMAIN p.adds \cup Moved(p)) \cap DOMAIN after}
                        \cup {place(tree, e) : e \in gone},
         gone |-> gone,
         parents |-> {after[e].up : e \in (DOMAIN p.adds \cup Moved(p)) \cap DOMAIN after}]

Waits(p, q) ==
    LET a == Locks(p)
        b == Locks(q)
    IN  \/ a.rows \cap b.rows # {}
        \/ a.places \cap b.places # {}
        \/ a.gone \cap b.parents # {}
        \/ a.parents \cap b.gone # {}

Blocked(c) ==
    \E o \in Clients \ {c} : /\ requests[o].at \in {"sent", "stored"}
                             /\ Waits(requests[c].plan, requests[o].plan)

\* An existing file's bytes are replaced before its row is written again.
BytesFirst(p) == p.puts # {} /\ p.adds = NoPlan.adds

-----------------------------------------------------------------------------
Init ==
    /\ tree = 1 :> NewEntry(ROOT, "a", "folder") @@ 2 :> NewEntry(ROOT, "b", "folder")
                @@ 11 :> NewEntry(1, "a", "ready")
    /\ made = [folders |-> 2, files |-> 1]
    /\ bytes = {11}
    /\ tickets = {}
    /\ requests = [c \in Clients |-> Resting]
    /\ asked = 0
    /\ hurt = {}

Ask(c, v) ==
    /\ v.ok
    /\ v.made.folders <= MaxFolders
    /\ v.made.files <= MaxFiles
    /\ requests' = [requests EXCEPT ![c] = [at |-> "asked", plan |-> Plan(v)]]
    /\ made' = v.made
    /\ asked' = asked + 1
    /\ UNCHANGED <<tree, bytes, tickets, hurt>>

Free(c) == requests[c].at = "rest" /\ asked < MaxRequests

\* The agent's tools, by path.
WriteFile(c) == Free(c) /\ \E path \in FilePaths, overwrite \in BOOLEAN :
    LET folder == EnsureFolder(Reading, Front(path))
    IN  Ask(c, StoreFile(folder.v, folder.at, Last(path), overwrite))

\* load_file: a finished file whose bytes are there.  An edit writes back what it read.
Loads(f) == IsFile(tree, f) /\ tree[f].kind = "ready" /\ f \in bytes
EditFile(c) == Free(c) /\ \E path \in FilePaths :
    LET f == Resolve(tree, path)
    IN  Loads(f) /\ Ask(c, StoreFile(Reading, tree[f].up, Last(path), TRUE))

MakeFolder(c) == Free(c) /\ \E path \in FilePaths : Ask(c, EnsureFolder(Reading, path).v)

CopyPath(c) == Free(c) /\ \E source \in FilePaths, target \in Paths, replace \in BOOLEAN :
    LET e == Resolve(tree, source)
        d == Destination(Reading, target, tree[e].name)
    IN  /\ e # MISSING
        /\ CopyEnds(d.v.tree, e, d.at)
        /\ Ask(c, CopyEntry(d.v, e, d.at, d.name, replace))

\* ProjectFiles.move: renamed where it is, then moved.
MoveEntry(e, target) ==
    LET d == Destination(Reading, target, tree[e].name)
        renamed == IF d.name = tree[e].name THEN d.v
                   ELSE IF IsFolder(tree, e) THEN RenameFolder(d.v, e, d.name) ELSE RenameFile(d.v, e, d.name)
    IN  IF d.at = tree[e].up THEN renamed
        ELSE IF IsFolder(tree, e) THEN MoveFolder(renamed, e, d.at) ELSE MoveFile(renamed, e, d.at)

MovePath(c) == Free(c) /\ \E source \in FilePaths, target \in Paths :
    LET e == Resolve(tree, source)
    IN  e # MISSING /\ Ask(c, MoveEntry(e, target))

\* Not onto an existing folder, which would take it in.
RenamePath(c) == Free(c) /\ \E source \in FilePaths, name \in Names :
    LET e == Resolve(tree, source)
        target == Append(Front(source), name)
    IN  e # MISSING /\ Resolve(tree, target) \in {MISSING, e} /\ Ask(c, MoveEntry(e, target))

DeletePath(c) == Free(c) /\ \E path \in FilePaths :
    LET e == Resolve(tree, path)
    IN  Ask(c, IF IsFolder(tree, e) THEN DeleteFolder(Reading, e) ELSE DeleteFile(Reading, e))

\* A chat attachment never replaces anything: a name taken becomes another.
UploadTicket(c) == Free(c) /\ \E folder \in Paths, name \in Names :
    LET d == EnsureFolder(Reading, folder)
        free == {n \in Names : FindEntry(d.v.tree, d.at, n) = MISSING}
    IN  /\ free # {}
        /\ Ask(c, RequestUpload(d.v, d.at, IF name \in free THEN name ELSE CHOOSE n \in free : TRUE))

\* The panel's routes, by id.
Ups == Folders \cup {ROOT}
PanelCreateFolder(c) == Free(c) /\ \E up \in Ups, name \in Names : Ask(c, CreateFolder(Reading, up, name))
PanelRenameFolder(c) == Free(c) /\ \E e \in Folders, name \in Names : Ask(c, RenameFolder(Reading, e, name))
PanelRenameFile(c) == Free(c) /\ \E e \in Files, name \in Names : Ask(c, RenameFile(Reading, e, name))
PanelMoveFolder(c) == Free(c) /\ \E e \in Folders, up \in Ups : Ask(c, MoveFolder(Reading, e, up))
PanelMoveFile(c) == Free(c) /\ \E e \in Files, up \in Ups : Ask(c, MoveFile(Reading, e, up))
PanelDeleteFolder(c) == Free(c) /\ \E e \in Folders : Ask(c, DeleteFolder(Reading, e))
PanelDeleteFile(c) == Free(c) /\ \E e \in Files : Ask(c, DeleteFile(Reading, e))
PanelUpload(c) == Free(c) /\ \E up \in Ups, name \in Names : Ask(c, RequestUpload(Reading, up, name))
PanelComplete(c) == Free(c) /\ \E f \in Files : Ask(c, CompleteUpload(Reading, f))

PutFirst(c) ==
    LET p == requests[c].plan
    IN  /\ requests[c].at = "asked"
        /\ BytesFirst(p)
        /\ {x[1] : x \in p.puts} \subseteq bytes \cup {CLIENT}
        /\ bytes' = bytes \cup {x[2] : x \in p.puts}
        /\ requests' = [requests EXCEPT ![c].at = "put"]
        /\ UNCHANGED <<tree, made, tickets, asked, hurt>>

\* The statements go to the database.  Nothing is left to do but to commit when
\* the request moves no bytes after them.
Flush(c) ==
    LET p == requests[c].plan
        last == requests[c].at = "put" \/ (p.puts = {} /\ p.erases = {})
        opened == {f \in DOMAIN p.adds : p.adds[f].kind = "pending"}
    IN  /\ \/ requests[c].at = "put"
           \/ requests[c].at = "asked" /\ ~BytesFirst(p)
        /\ ~Blocked(c)
        /\ Goes(p)
        /\ requests' = [requests EXCEPT ![c] = IF last THEN Resting ELSE [@ EXCEPT !.at = "sent"]]
        /\ tree' = IF last THEN Applied(p) ELSE tree
        /\ tickets' = IF last THEN tickets \cup opened ELSE tickets
        /\ UNCHANGED <<made, bytes, asked, hurt>>

MoveBytes(c) ==
    LET p == requests[c].plan
    IN  /\ requests[c].at = "sent"
        /\ {x[1] : x \in p.puts} \subseteq bytes \cup {CLIENT}
        /\ bytes' = (bytes \ p.erases) \cup {x[2] : x \in p.puts}
        /\ requests' = [requests EXCEPT ![c].at = "stored"]
        /\ UNCHANGED <<tree, made, tickets, asked, hurt>>

Commit(c) ==
    LET p == requests[c].plan
    IN  /\ requests[c].at = "stored"
        /\ tree' = Applied(p)
        /\ tickets' = tickets \cup {f \in DOMAIN p.adds : p.adds[f].kind = "pending"}
        /\ requests' = [requests EXCEPT ![c] = Resting]
        /\ UNCHANGED <<made, bytes, asked, hurt>>

\* The database refuses the statements, or the bucket has not the bytes to copy.
Refuse(c) ==
    LET p == requests[c].plan
    IN  /\ \/ requests[c].at \in {"asked", "put"} /\ ~Blocked(c) /\ ~Goes(p)
           \/ requests[c].at \in {"asked", "sent"} /\ ~({x[1] : x \in p.puts} \subseteq bytes \cup {CLIENT})
        /\ requests' = [requests EXCEPT ![c] = Resting]
        /\ UNCHANGED <<tree, made, bytes, tickets, asked, hurt>>

\* The process dies, or the bucket fails after some objects were removed: the
\* statements are rolled back, the bucket stays as it is.
Fail(c) ==
    /\ Cardinality(hurt) < MaxDeaths
    /\ requests[c].at = "stored"
    /\ requests[c].plan.erases # {}
    /\ requests' = [requests EXCEPT ![c] = Resting]
    /\ hurt' = hurt \cup requests[c].plan.erases
    /\ UNCHANGED <<tree, made, bytes, tickets, asked>>

\* The client puts the bytes at its upload URL, whatever became of the row.
ClientPuts(f) ==
    /\ f \in tickets
    /\ bytes' = bytes \cup {f}
    /\ tickets' = tickets \ {f}
    /\ UNCHANGED <<tree, made, requests, asked, hurt>>

Next ==
    \/ \E c \in Clients :
        \/ WriteFile(c) \/ EditFile(c) \/ MakeFolder(c) \/ CopyPath(c) \/ MovePath(c)
        \/ RenamePath(c) \/ DeletePath(c) \/ UploadTicket(c)
        \/ PanelCreateFolder(c) \/ PanelRenameFolder(c) \/ PanelRenameFile(c)
        \/ PanelMoveFolder(c) \/ PanelMoveFile(c) \/ PanelDeleteFolder(c) \/ PanelDeleteFile(c)
        \/ PanelUpload(c) \/ PanelComplete(c)
        \/ PutFirst(c) \/ Flush(c) \/ MoveBytes(c) \/ Commit(c) \/ Refuse(c) \/ Fail(c)
    \/ \E f \in Files : ClientPuts(f)

Spec == Init /\ [][Next]_vars

-----------------------------------------------------------------------------
\* The state's shape.
TypeOK ==
    /\ DOMAIN tree \subseteq Folders \cup Files
    /\ \A e \in DOMAIN tree : tree[e] \in Entry
    /\ made \in [folders: 0..MaxFolders, files: 0..MaxFiles]
    /\ bytes \subseteq Files
    /\ tickets \subseteq Files
    /\ \A c \in Clients : requests[c].at \in {"rest", "asked", "put", "sent", "stored"}
    /\ asked \in 0..MaxRequests
    /\ hurt \subseteq Files

\* However requests overlap, no folder holds two folders of one name or two files
\* of one name, the root included: each request looked before it wrote, and the
\* indexes settle what two of them saw at once (projects/sqlalchemy/models.py).
NamesOnce ==
    \A e, x \in DOMAIN tree :
        /\ tree[e].up = tree[x].up
        /\ tree[e].name = tree[x].name
        /\ IsFolder(tree, e) <=> IsFolder(tree, x)
        => e = x

\* A file shown as finished can be opened: its bytes are in the bucket, unless a
\* request is removing it or one failed half way through (projects/paths.py
\* load_file: "listed but its content is no longer in storage").
ReadyHasBytes ==
    \A f \in DOMAIN tree :
        tree[f].kind = "ready" =>
            f \in bytes \cup hurt \cup UNION {requests[c].plan.erases : c \in Clients}

\* No folder is inside itself: from every entry the way up ends at the root, which
\* is what listing a project's paths and finding a folder's ancestors follow.
FoldersFormATree == \A e \in DOMAIN tree : EndsAtRoot(tree, e)
=============================================================================
