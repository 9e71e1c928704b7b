-------------------------------- MODULE Skills --------------------------------
(***************************************************************************)
(* Skills (skills/): saved one at a time from the panel, by ImportSkill or *)
(* by the builder behind BuildSkill, imported as a kit, deleted, and read  *)
(* by the assistants.  A skill is the organization's or one person's own;  *)
(* each place has its own names and its own limit.                         *)
(*                                                                         *)
(* A request is one transaction.  Its reads see what is committed and what *)
(* it wrote itself; a row it inserts or changes is locked until it ends,   *)
(* and the unique indexes make a second insert of one name wait for the    *)
(* first.  The calls of the conversations are kept in the order made, as   *)
(* usage.measure reads them back from the messages.                        *)
(***************************************************************************)
EXTENDS Integers, Sequences, FiniteSets, FiniteSetsExt, SequencesExt, Functions, TLC

CONSTANTS
    Clients, Users, Names,
    Kits,                       \* what is saved: sequences of [name, size, files, triggers]
    MAX_SKILLS_PER_ORGANIZATION, MAX_PERSONAL_SKILLS_PER_USER, MAX_SKILLS_PER_IMPORT,
    MAX_FILES_PER_SKILL, MAX_FILE_CHARS, MAX_FILES_TOTAL_CHARS, MAX_INSTRUCTIONS_CHARS, MAX_TRIGGERS,
    MaxRequests, MaxCalls, MaxWork      \* bounds: requests, calls, and both together

VARIABLES
    rows,        \* the committed skills: <<owner, name>> |-> [files, triggers]
    req,         \* each client's request
    pend,        \* what it has written and not committed
    brought,     \* history: the files last brought beside each skill
    requests, calls, late

vars == <<rows, req, pend, brought, requests, calls, late>>

NONE == "none"
KEEP == {[path |-> NONE, size |-> 0]}          \* files that are not sent
ORG == "organization"
Owners == Users \union {ORG}
Rest == [at |-> "rest", owner |-> ORG, kit |-> <<>>, i |-> 1, new |-> 0]

-----------------------------------------------------------------------------
\* sqlalchemy/adapter.py, for what one reads.
OwnedBy(owner) == {k \in DOMAIN rows : k[1] = owner}
VisibleTo(user) == {k \in DOMAIN rows : k[1] \in {ORG, user}}
InScope(c, owner, name) == <<owner, name>> \in DOMAIN rows \union DOMAIN pend[c]
\* By name, their own standing in for the organization's.
ListFor(user) ==
    LET Names_(seen) == {k[2] : k \in seen} IN
    [n \in Names_(VisibleTo(user)) |->
        CHOOSE k \in VisibleTo(user) : k[2] = n /\ (k[1] # ORG \/ <<user, n>> \notin DOMAIN rows)]
GetFor(user, name) ==
    IF <<user, name>> \in DOMAIN rows THEN <<user, name>>
    ELSE IF <<ORG, name>> \in DOMAIN rows THEN <<ORG, name>> ELSE <<NONE, NONE>>
Held(c, owner) == Cardinality(OwnedBy(owner) \union {k \in DOMAIN pend[c] : k[1] = owner})
LimitOf(owner) == IF owner = ORG THEN MAX_SKILLS_PER_ORGANIZATION ELSE MAX_PERSONAL_SKILLS_PER_USER

Init ==
    /\ rows = <<>> /\ brought = <<>> /\ requests = 0 /\ calls = <<>> /\ late = FALSE
    /\ req = [c \in Clients |-> Rest] /\ pend = [c \in Clients |-> <<>>]

Item(c) == req[c].kit[req[c].i]
Ends(c) == req' = [req EXCEPT ![c] = Rest] /\ pend' = [pend EXCEPT ![c] = <<>>]
Goes(c, at) == req' = [req EXCEPT ![c].at = at]
Beside == UNCHANGED <<requests, calls, late>>
MayWork == requests + Len(calls) < MaxWork

\* Who may write for everyone chooses; everyone else writes their own.
Scope(user, author, personal) == IF personal \/ ~author THEN user ELSE ORG
Scopes == {Scope(u, a, p) : u \in Users, a \in BOOLEAN, p \in BOOLEAN}

\* What makes a skill valid on its own.
Distinct(triggers) == FoldLeft(LAMBDA seen, t : IF t \in ToSet(seen) THEN seen ELSE Append(seen, t), <<>>, triggers)
ValidFiles(files) ==
    /\ Cardinality(files) <= MAX_FILES_PER_SKILL
    /\ \A f \in files : f.path # "skill.md" /\ f.size <= MAX_FILE_CHARS
    /\ FoldSet(LAMBDA f, sum : sum + f.size, 0, files) <= MAX_FILES_TOTAL_CHARS
Valid(item) ==
    /\ item.name \in Names /\ item.size \in 1..MAX_INSTRUCTIONS_CHARS
    /\ Len(Distinct(item.triggers)) <= MAX_TRIGGERS /\ (item.files # KEEP => ValidFiles(item.files))
\* What a kit must be before any of it is saved.
Prepared(kit) ==
    /\ kit # <<>> /\ Len(kit) <= MAX_SKILLS_PER_IMPORT /\ \A i \in DOMAIN kit : Valid(kit[i])
    /\ \A i, j \in DOMAIN kit : kit[i].name = kit[j].name => i = j

Begins(c, at, owner, kit) ==
    /\ req[c].at = "rest" /\ MayWork /\ requests < MaxRequests /\ requests' = requests + 1
    /\ req' = [req EXCEPT ![c] = [Rest EXCEPT !.at = at, !.owner = owner, !.kit = kit]]
    /\ UNCHANGED <<rows, pend, brought, calls, late>>
Save(c, owner, kit) == Len(kit) = 1 /\ Prepared(kit) /\ Begins(c, "existing", owner, kit)
Import(c, kit) == Prepared(kit) /\ Begins(c, "looking", ORG, kit)

\* The builder leaves the triggers out: it has not decided to drop them.
KeepsTriggers(c, owner, kit) ==
    /\ Len(kit) = 1 /\ Prepared(kit) /\ kit[1].files = KEEP
    /\ Begins(c, "existing", owner,
              <<[kit[1] EXCEPT !.triggers =
                    IF <<owner, kit[1].name>> \in DOMAIN rows THEN rows[<<owner, kit[1].name>>].triggers ELSE <<>>]>>)

\* save_skill: whether it is there already, and if not, whether there is room for it.
Existing(c) ==
    /\ req[c].at = "existing"
    /\ Goes(c, IF InScope(c, req[c].owner, Item(c).name) THEN "upsert" ELSE "count")
    /\ UNCHANGED <<rows, pend, brought>> /\ Beside
HasRoom(c) == Held(c, req[c].owner) < LimitOf(req[c].owner)
Count(c) ==
    /\ req[c].at = "count"
    /\ IF HasRoom(c) THEN Goes(c, "upsert") /\ UNCHANGED pend ELSE Ends(c)
    /\ UNCHANGED <<rows, brought>> /\ Beside

\* import_skills: each name looked up, one after the other, then the count of all of them.
LookUp(c) ==
    /\ req[c].at = "looking"
    /\ LET new == req[c].new + (IF InScope(c, ORG, Item(c).name) THEN 0 ELSE 1)
           last == req[c].i = Len(req[c].kit)
       IN  IF last /\ new > 0 /\ Held(c, ORG) + new > MAX_SKILLS_PER_ORGANIZATION
           THEN Ends(c)
           ELSE /\ req' = [req EXCEPT ![c] = [@ EXCEPT !.new = new, !.i = IF last THEN 1 ELSE @ + 1,
                                                        !.at = IF last THEN "upsert" ELSE "looking"]]
                /\ UNCHANGED pend
    /\ UNCHANGED <<rows, brought>> /\ Beside

\* upsert: the row is looked for again, then inserted or changed.
Key(c) == <<req[c].owner, Item(c).name>>
Select(c) ==
    /\ req[c].at = "upsert"
    /\ Goes(c, IF InScope(c, req[c].owner, Item(c).name) THEN "update" ELSE "insert")
    /\ UNCHANGED <<rows, pend, brought>> /\ Beside
WaitsFor(c, d) == c # d /\ req[c].at \in {"insert", "update", "delete"} /\ Key(c) \in DOMAIN pend[d]
Waits(c) == \E d \in Clients : WaitsFor(c, d)
Created(item) == [files |-> IF item.files = KEEP THEN {} ELSE item.files, triggers |-> Distinct(item.triggers)]
\* Mutant: the row is replaced whole.
Replaced(row, item) == Created(item)
\* Files that are not sent leave those beside the skill alone.
Changed(row, item) ==
    [row EXCEPT !.triggers = Distinct(item.triggers), !.files = IF item.files = KEEP THEN row.files ELSE item.files]
Insert(c) ==
    /\ req[c].at = "insert" /\ ~Waits(c)
    /\ IF Key(c) \in DOMAIN rows
       THEN Ends(c)
       ELSE /\ pend' = [pend EXCEPT ![c] = (Key(c) :> Created(Item(c))) @@ @]
            /\ Goes(c, "written")
    /\ UNCHANGED <<rows, brought>> /\ Beside
Update(c) ==
    /\ req[c].at = "update" /\ ~Waits(c)
    /\ IF Key(c) \notin DOMAIN rows
       THEN Ends(c)
       ELSE /\ pend' = [pend EXCEPT ![c] = (Key(c) :> Changed(rows[Key(c)], Item(c))) @@ @]
            /\ Goes(c, "written")
    /\ UNCHANGED <<rows, brought>> /\ Beside
NextItem(c) ==
    /\ req[c].at = "written" /\ req[c].i < Len(req[c].kit)
    /\ req' = [req EXCEPT ![c] = [@ EXCEPT !.at = "upsert", !.i = @ + 1]]
    /\ UNCHANGED <<rows, pend, brought>> /\ Beside
Sent(c) == {k \in DOMAIN pend[c] : \E i \in DOMAIN req[c].kit :
                req[c].kit[i].name = k[2] /\ (req[c].kit[i].files # KEEP \/ k \notin DOMAIN rows)}
Commit(c) ==
    /\ req[c].at = "written" /\ req[c].i = Len(req[c].kit)
    /\ rows' = pend[c] @@ rows
    /\ brought' = [k \in Sent(c) |-> pend[c][k].files] @@ brought
    /\ Ends(c) /\ Beside
\* Two requests that wait for each other: the database ends one of them.
Deadlock(c) ==
    /\ \E d \in Clients : WaitsFor(c, d) /\ WaitsFor(d, c)
    /\ Ends(c) /\ UNCHANGED <<rows, brought>> /\ Beside

Only(name) == <<[name |-> name, size |-> 1, files |-> KEEP, triggers |-> <<>>]>>
Delete(c, name) == Begins(c, "delete", ORG, Only(name))
DeleteMine(c, user, name) == Begins(c, "delete", user, Only(name))
Deleted(c) ==
    /\ req[c].at = "delete" /\ ~Waits(c)
    /\ rows' = [k \in DOMAIN rows \ {Key(c)} |-> rows[k]]
    /\ brought' = [k \in DOMAIN brought \ {Key(c)} |-> brought[k]]
    /\ Ends(c) /\ Beside

-----------------------------------------------------------------------------
\* usage.py: the calls that say a skill was used, before and in the window it looks at.
Spoke == {calls[i].in : i \in {j \in DOMAIN calls : calls[j].kind = "user" /\ calls[j].late}}
Says(conversation) ==
    /\ MayWork /\ Len(calls) < MaxCalls
    /\ calls' = Append(calls, [kind |-> "user", in |-> conversation, name |-> NONE, late |-> late])
    /\ UNCHANGED <<rows, req, pend, brought, requests, late>>
Calls(conversation, kind, name) ==
    /\ MayWork /\ Len(calls) < MaxCalls /\ \E i \in DOMAIN calls : calls[i].in = conversation
    /\ calls' = Append(calls, [kind |-> kind, in |-> conversation, name |-> name, late |-> late])
    /\ UNCHANGED <<rows, req, pend, brought, requests, late>>
Window == ~late /\ late' = TRUE /\ UNCHANGED <<rows, req, pend, brought, requests, calls>>

SkillNames == {k[2] : k \in OwnedBy(ORG)}
Counted == {i \in DOMAIN calls : calls[i].late /\ calls[i].kind # "user"}
Named(kinds, name) == {i \in Counted : calls[i].kind \in kinds /\ calls[i].name = name}
Tally ==
    [skills |-> [n \in SkillNames |-> [reads |-> Cardinality(Named({"read"}, n)), handed_on |-> Cardinality(Named({"handed on"}, n)),
                                       worker_reads |-> Cardinality(Named({"worker read"}, n))]],
     reading |-> {calls[i].in : i \in {j \in Counted : calls[j].kind = "read" /\ calls[j].name \in SkillNames}},
     unknown |-> Cardinality({i \in Counted : calls[i].name \notin SkillNames})]
Measure == [tally |-> Tally, conversations |-> Cardinality(Spoke), reading |-> Cardinality(Tally.reading)]
NeverUsed == {n \in SkillNames : LET u == Tally.skills[n] IN u.reads + u.handed_on + u.worker_reads = 0}

Next ==
    \/ \E c \in Clients :
           \/ \E kit \in Kits : Import(c, kit) \/ \E o \in Scopes : Save(c, o, kit) \/ KeepsTriggers(c, o, kit)
           \/ \E n \in Names : Delete(c, n) \/ \E u \in Users : DeleteMine(c, u, n)
           \/ Existing(c) \/ Count(c) \/ LookUp(c) \/ Select(c) \/ Insert(c) \/ Update(c)
           \/ NextItem(c) \/ Commit(c) \/ Deadlock(c) \/ Deleted(c)
    \/ Window
    \/ \E v \in {"v1", "v2"} : Says(v) \/ \E k \in {"read", "handed on", "worker read"}, n \in Names : Calls(v, k, n)

Spec == Init /\ [][Next]_vars

-----------------------------------------------------------------------------
TypeOK ==
    /\ DOMAIN rows \subseteq Owners \X Names /\ DOMAIN brought = DOMAIN rows
    /\ \A c \in Clients : DOMAIN pend[c] \subseteq Owners \X Names /\ (req[c].at = "rest" => pend[c] = <<>>)

\* A place holds more skills than its limit by what the other requests were adding at once, at
\* most (save_skill and import_skills count before they write).
LimitSlack ==
    \A o \in Owners : Cardinality(OwnedBy(o)) <= LimitOf(o) + (Cardinality(Clients) - 1) * MAX_SKILLS_PER_IMPORT
\* A skill has beside it the files that were last sent with it: no save without files wipes
\* them, whatever it runs beside (skills/domain.py: "must not wipe what an import put beside it").
FilesKept == \A k \in DOMAIN rows : rows[k].files = brought[k]
\* The index of skills and a skill read by its name are the same skill, for each person.
IndexIsWhatIsRead ==
    \A u \in Users, n \in Names :
        IF n \in DOMAIN ListFor(u) THEN ListFor(u)[n] = GetFor(u, n) ELSE GetFor(u, n) = <<NONE, NONE>>
\* Every call in the window is counted once: under a skill the organization holds, or apart.
TallyAddsUp ==
    LET Uses(n) == Tally.skills[n].reads + Tally.skills[n].handed_on + Tally.skills[n].worker_reads IN
    Cardinality(Counted) = Tally.unknown + FoldSet(LAMBDA n, s : s + Uses(n), 0, SkillNames)
SkillsSafe == LimitSlack /\ FilesKept /\ IndexIsWhatIsRead /\ TallyAddsUp

\* "Conversations with a user message: ... that read at least one skill" is a share of them
\* (skills/usage.py:181).
ShareOfTheWhole == Measure.reading <= Measure.conversations
=============================================================================
