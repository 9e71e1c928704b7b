----------------------------- MODULE ProjectList -----------------------------
(***************************************************************************)
(* The projects of one organization: its members' own, the agent's         *)
(* workspace in each member's name, and the library that is nobody's and   *)
(* that everybody reads.  A request looks first and writes afterwards; the *)
(* unique indexes and the foreign key to the owner are the final word on   *)
(* what it writes.                                                         *)
(***************************************************************************)
EXTENDS Naturals, FiniteSets, Functions, TLC

CONSTANTS
    Clients,        \* requests under way at once
    Users,          \* members of the organization
    MaxProjects     \* bound: projects ever created

VARIABLES
    projects,   \* id -> row
    made,       \* projects ever created
    members,    \* users whose account exists
    requests,   \* client -> the request it has under way
    answers,    \* the projects answered to those who asked for the library
    refused     \* was anybody who asked for the library refused

vars == <<projects, made, members, requests, answers, refused>>

WORKSPACE == ".the_way"
LIBRARY == "Biblioteca"
Names == {"Web", WORKSPACE, LIBRARY}
Nobody == "nobody"

Row == [owner: Users \cup {Nobody}, name: Names, shared: BOOLEAN]
Project(owner, name, shared) == [owner |-> owner, name |-> name, shared |-> shared]

\* sets are the columns a request writes.
NoRequest == [kind |-> "none", id |-> 0, sets |-> Project(Nobody, LIBRARY, TRUE)]

Init ==
    /\ projects = [i \in {} |-> NoRequest.sets]
    /\ made = 0
    /\ members = Users
    /\ requests = [c \in Clients |-> NoRequest]
    /\ answers = {}
    /\ refused = FALSE

-----------------------------------------------------------------------------
Ids == DOMAIN projects
Held(u) == {i \in Ids : projects[i].owner = u}
Library == {i \in Ids : projects[i].shared}

\* Who may rename or delete a project, and which ones owners and admins manage.
Owned(u, i) == u \in members /\ projects[i].owner = u
Managed(i) == ~projects[i].shared

Rest(c) == requests[c] = NoRequest
Begins(c, kind, i, sets) == requests' = [requests EXCEPT ![c] = [kind |-> kind, id |-> i, sets |-> sets]]
Ends(c) == requests' = [requests EXCEPT ![c] = NoRequest]

\* An owner's names are unique, there is one library, and an owner has an account; of two
\* projects that are nobody's the index says nothing.
Fits(i, row) ==
    /\ \A p \in Ids \ {i} : projects[p].owner = row.owner /\ projects[p].name = row.name => row.owner = Nobody
    /\ row.shared => Library \subseteq {i}
    /\ row.owner \in members \cup {Nobody}

Insert(row) ==
    /\ made < MaxProjects
    /\ projects' = [i \in Ids \cup {made + 1} |-> IF i \in Ids THEN projects[i] ELSE row]
    /\ made' = made + 1

Update(i, sets) ==
    LET row == sets @@ projects[i] IN
    IF Fits(i, row) THEN projects' = [projects EXCEPT ![i] = row] ELSE UNCHANGED projects

-----------------------------------------------------------------------------
NotReserved(name) == name # LIBRARY

\* create_project: the name is free among the owner's, as they are listed.
CreateProject(c, u, name) ==
    /\ Rest(c) /\ u \in members
    /\ NotReserved(name)
    /\ \A i \in Held(u) : projects[i].name # name
    /\ Begins(c, "create", 0, Project(u, name, FALSE))
    /\ UNCHANGED <<projects, made, members, answers, refused>>

\* The agent's own working space, made the first time it is wanted.
Workspace(c, u) == CreateProject(c, u, WORKSPACE)

SaveProject(c) ==
    /\ requests[c].kind = "create"
    /\ IF Fits(0, requests[c].sets) THEN Insert(requests[c].sets) ELSE UNCHANGED <<projects, made>>
    /\ Ends(c)
    /\ UNCHANGED <<members, answers, refused>>

\* get_or_create_library: the one there is, or a new one.
GetLibrary(c) ==
    /\ Rest(c)
    /\ IF Library # {}
       THEN answers' = answers \cup Library /\ UNCHANGED requests
       ELSE Begins(c, "library", 0, NoRequest.sets) /\ UNCHANGED answers
    /\ UNCHANGED <<projects, made, members, refused>>

\* Whoever meets the one-per-organization index reads the winner's.
WinnerRead == Library

MakeLibrary(c) ==
    /\ requests[c].kind = "library"
    /\ IF Fits(0, requests[c].sets)
       THEN Insert(requests[c].sets) /\ answers' = answers \cup {made + 1} /\ UNCHANGED refused
       ELSE /\ answers' = answers \cup WinnerRead
            /\ refused' = (refused \/ WinnerRead = {})
            /\ UNCHANGED <<projects, made>>
    /\ Ends(c)
    /\ UNCHANGED members

\* rename_project looks at nothing but the reserved name.
RenameProject(c, u, i, name) ==
    /\ Rest(c) /\ Owned(u, i)
    /\ NotReserved(name)
    /\ Begins(c, "update", i, [name |-> name])
    /\ UNCHANGED <<projects, made, members, answers, refused>>

\* transfer_project: to a member of the organization.
TransferProject(c, i, u) ==
    /\ Rest(c) /\ Managed(i)
    /\ u \in members
    /\ Begins(c, "update", i, [owner |-> u])
    /\ UNCHANGED <<projects, made, members, answers, refused>>

\* A row that is gone meanwhile is not found.
SaveUpdate(c) ==
    /\ requests[c].kind = "update"
    /\ IF requests[c].id \in Ids THEN Update(requests[c].id, requests[c].sets) ELSE UNCHANGED projects
    /\ Ends(c)
    /\ UNCHANGED <<made, members, answers, refused>>

DeleteOwnProject(c, u, i) ==
    /\ Rest(c) /\ Owned(u, i)
    /\ Begins(c, "delete", i, NoRequest.sets)
    /\ UNCHANGED <<projects, made, members, answers, refused>>

DeleteManagedProject(c, i) ==
    /\ Rest(c) /\ Managed(i)
    /\ Begins(c, "delete", i, NoRequest.sets)
    /\ UNCHANGED <<projects, made, members, answers, refused>>

DeleteProject(c) ==
    /\ requests[c].kind = "delete"
    /\ projects' = Restrict(projects, Ids \ {requests[c].id})
    /\ Ends(c)
    /\ UNCHANGED <<made, members, answers, refused>>

\* A member's account is deleted: what it held is nobody's, for others to reassign.
DeleteUser(u) ==
    /\ members' = members \ {u}
    /\ projects' = [i \in Ids |-> IF projects[i].owner = u THEN [projects[i] EXCEPT !.owner = Nobody]
                                                           ELSE projects[i]]
    /\ UNCHANGED <<made, requests, answers, refused>>

Abort(c) ==
    /\ ~Rest(c)
    /\ Ends(c)
    /\ UNCHANGED <<projects, made, members, answers, refused>>

Next ==
    \/ \E c \in Clients : SaveProject(c) \/ GetLibrary(c) \/ MakeLibrary(c) \/ SaveUpdate(c)
                          \/ DeleteProject(c) \/ Abort(c)
    \/ \E c \in Clients, u \in Users : Workspace(c, u) \/ \E name \in Names : CreateProject(c, u, name)
    \/ \E c \in Clients, i \in Ids : DeleteManagedProject(c, i) \/ \E u \in Users : TransferProject(c, i, u)
    \/ \E c \in Clients, i \in Ids, u \in Users :
        DeleteOwnProject(c, u, i) \/ \E name \in Names : RenameProject(c, u, i, name)
    \/ \E u \in members : DeleteUser(u)

Spec == Init /\ [][Next]_vars

-----------------------------------------------------------------------------
TypeOK ==
    /\ \A i \in Ids : i \in 1..made /\ projects[i] \in Row
    /\ members \subseteq Users
    /\ answers \subseteq 1..made
    /\ \A c \in Clients : requests[c].kind \in {"none", "create", "library", "update", "delete"}

\* Whoever asks for the library is answered, and all with the one project that is shared,
\* nobody's and bears the reserved name: two first requests at once make one library, and
\* no rename, transfer or deletion of members' projects reaches it
\* (projects/sqlalchemy/adapter.get_or_create_library).
OneLibrary ==
    /\ ~refused
    /\ Cardinality(answers) <= 1 /\ answers \subseteq Library
    /\ \A i \in Ids : projects[i].name = LIBRARY <=> projects[i].shared
    /\ \A i \in Library : projects[i].owner = Nobody

\* A member has one project of a name, whatever was created, renamed and given to them at
\* once (uq_project_owner_name).
OwnersNamesOnce ==
    \A i, p \in Ids :
        projects[i].owner = projects[p].owner /\ projects[i].name = projects[p].name /\ i # p =>
            projects[i].owner = Nobody
=============================================================================
