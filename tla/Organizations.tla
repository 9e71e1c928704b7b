---------------------------- MODULE Organizations ----------------------------
(***************************************************************************)
(* How an organization comes to exist and how it goes.  Staff invite an    *)
(* owner; accepting the invitation makes the organization and its owner in *)
(* one transaction, and the invitation stays as its record.  Deleting an   *)
(* organization removes its rows first, then its files in the bucket.      *)
(***************************************************************************)
EXTENDS Naturals, FiniteSets, Sequences, Functions

CONSTANTS
    Clients,    \* requests under way at once
    Emails,     \* people who are invited
    MaxInvites, \* bound: invitations ever created
    MaxOrgs     \* bound: organizations ever created

VARIABLES
    invitations,    \* id -> the row of an invitation not deleted
    invited,        \* invitations ever created
    organizations,  \* id -> email of its owner
    founded,        \* organizations ever created
    files,          \* organizations, deleted ones too, with files in the bucket
    cleared,        \* organizations whose files a purge has begun to remove
    requests        \* client -> the request it has under way

vars == <<invitations, invited, organizations, founded, files, cleared, requests>>

Ids == 1..MaxInvites
Orgs == 1..MaxOrgs
NoOrg == 0

Row == [email: Emails, accepted: BOOLEAN, revoked: BOOLEAN, expired: BOOLEAN, org: Orgs \cup {NoOrg}]
NewRow(email) == [email |-> email, accepted |-> FALSE, revoked |-> FALSE, expired |-> FALSE, org |-> NoOrg]

NoRequest == [kind |-> "none", id |-> 0, email |-> {}, revokes |-> {}]

Init ==
    /\ invitations = [i \in {} |-> 0]
    /\ invited = 0
    /\ organizations = [o \in {} |-> 0]
    /\ founded = 0
    /\ files = {}
    /\ cleared = {}
    /\ requests = [c \in Clients |-> NoRequest]

Rest(c) == requests[c] = NoRequest
Begins(c, kind, id, email, revokes) ==
    requests' = [requests EXCEPT ![c] = [kind |-> kind, id |-> id, email |-> email, revokes |-> revokes]]
Ends(c) == requests' = [requests EXCEPT ![c] = NoRequest]

-----------------------------------------------------------------------------
Kept == DOMAIN invitations
HasAccount(email) == \E o \in DOMAIN organizations : organizations[o] = email

\* Accepted and revoked win over expired; an organization that is deleted clears the link
\* to it and leaves the record.
StatusOf(r) ==
    CASE r.accepted /\ r.org = NoOrg -> "organization_deleted"
      [] r.accepted /\ r.org # NoOrg -> "accepted"
      [] ~r.accepted /\ r.revoked -> "revoked"
      [] ~r.accepted /\ ~r.revoked /\ r.expired -> "expired"
      [] OTHER -> "pending"

Pending == {i \in Kept : StatusOf(invitations[i]) = "pending"}
Revoked(ids) == [i \in Kept |-> IF i \in ids THEN [invitations[i] EXCEPT !.revoked = TRUE] ELSE invitations[i]]

\* One conditional UPDATE: of two requests holding the same link only one matches.
Claims(i) == i \in Pending

-----------------------------------------------------------------------------
\* invite_owner: the address has no account; its pending invitations will be revoked.
InviteOwner(c, email) ==
    /\ Rest(c)
    /\ ~HasAccount(email)
    /\ Begins(c, "invite", 0, {email}, {i \in Pending : invitations[i].email = email})
    /\ UNCHANGED <<invitations, invited, organizations, founded, files, cleared>>

\* One of the rows it revokes is gone: the write fails, and Abort is all that is left.
CreateInvitation(c) ==
    LET new == NewRow(CHOOSE e \in requests[c].email : TRUE)
        rows == Revoked(requests[c].revokes) IN
    /\ requests[c].kind = "invite"
    /\ requests[c].revokes \subseteq Kept
    /\ invited < MaxInvites
    /\ invited' = invited + 1
    /\ invitations' = [i \in Kept \cup {invited + 1} |-> IF i = invited + 1 THEN new ELSE rows[i]]
    /\ Ends(c)
    /\ UNCHANGED <<organizations, founded, files, cleared>>

\* revoke_owner_invitation: revoke_invitation refuses one that is accepted when it looks, and writes later.
Revocable(r) == ~r.accepted
Revoke(c, i) ==
    /\ Rest(c)
    /\ Revocable(invitations[i])
    /\ Begins(c, "revoke", i, {}, {i})
    /\ UNCHANGED <<invitations, invited, organizations, founded, files, cleared>>

RevokeInvitation(c) ==
    /\ requests[c].kind = "revoke"
    /\ invitations' = Revoked(requests[c].revokes)
    /\ Ends(c)
    /\ UNCHANGED <<invited, organizations, founded, files, cleared>>

\* delete_owner_invitation: not one still usable nor one whose organization exists.
InUse(r) == StatusOf(r) \in {"pending", "accepted"}
DeleteRecord(c, i) ==
    /\ Rest(c)
    /\ ~InUse(invitations[i])
    /\ Begins(c, "record", i, {}, {})
    /\ UNCHANGED <<invitations, invited, organizations, founded, files, cleared>>

DeleteInvitation(c) ==
    /\ requests[c].kind = "record"
    /\ invitations' = Restrict(invitations, Kept \ {requests[c].id})
    /\ Ends(c)
    /\ UNCHANGED <<invited, organizations, founded, files, cleared>>

\* accept_owner_invitation: the link is good, and the address has no account yet.
Resolves(i) == i \in Pending
Resolve(c, i) ==
    /\ Rest(c)
    /\ Resolves(i)
    /\ ~HasAccount(invitations[i].email)
    /\ Begins(c, "accept", i, {invitations[i].email}, {})
    /\ UNCHANGED <<invitations, invited, organizations, founded, files, cleared>>

\* The organization, the claim and the owner's account: all of them or none.
Created(owner) == [o \in DOMAIN organizations \cup {founded + 1} |->
                      IF o = founded + 1 THEN owner ELSE organizations[o]]
AcceptInvitation(c) ==
    LET i == requests[c].id
        owner == CHOOSE e \in requests[c].email : TRUE IN
    /\ requests[c].kind = "accept"
    /\ IF Claims(i) /\ ~HasAccount(owner)
       THEN /\ founded < MaxOrgs
            /\ founded' = founded + 1
            /\ organizations' = Created(owner)
            /\ invitations' = [invitations EXCEPT ![i].accepted = TRUE, ![i].org = founded + 1]
       ELSE UNCHANGED <<invitations, organizations, founded>>
    /\ Ends(c)
    /\ UNCHANGED <<invited, files, cleared>>

Expire(i) ==
    /\ i \in Pending
    /\ invitations' = [invitations EXCEPT ![i].expired = TRUE]
    /\ UNCHANGED <<invited, organizations, founded, files, cleared, requests>>

-----------------------------------------------------------------------------
\* delete_by_id, and the ON DELETE SET NULL of what refers to it.
Unlinked(o) == [i \in Kept |-> IF invitations[i].org = o THEN [invitations[i] EXCEPT !.org = NoOrg]
                                                         ELSE invitations[i]]

\* A member of an organization, or the holder of an upload URL it gave out, stores a file.
PutFile(o) ==
    /\ o \in 1..founded
    /\ files' = files \cup {o}
    /\ UNCHANGED <<invitations, invited, organizations, founded, cleared, requests>>

\* delete_organization, by its owner or by staff: the rows go, in a transaction of their
\* own, and every reference to them is set null.
LeftBy(o) == DOMAIN organizations \ {o}

DeleteOrganization(c, o) ==
    /\ Rest(c)
    /\ o \in DOMAIN organizations
    /\ organizations' = Restrict(organizations, LeftBy(o))
    /\ invitations' = Unlinked(o)
    /\ Begins(c, "purge", o, {}, {})
    /\ UNCHANGED <<invited, founded, files, cleared>>

\* purge_files: all of them, some of them, or none when the bucket cannot be listed.
Purged(o) == {files, files \ {o}}
PurgeFiles(c) ==
    LET o == requests[c].id IN
    /\ requests[c].kind = "purge"
    /\ cleared' = cleared \cup {o}
    /\ files' \in Purged(o)
    /\ Ends(c)
    /\ UNCHANGED <<invitations, invited, organizations, founded>>

\* The request dies; what it wrote and did not commit is undone.
Abort(c) ==
    /\ ~Rest(c)
    /\ Ends(c)
    /\ UNCHANGED <<invitations, invited, organizations, founded, files, cleared>>

Next ==
    \/ \E c \in Clients : CreateInvitation(c) \/ RevokeInvitation(c) \/ DeleteInvitation(c)
                          \/ AcceptInvitation(c) \/ PurgeFiles(c) \/ Abort(c)
    \/ \E c \in Clients, email \in Emails : InviteOwner(c, email)
    \/ \E c \in Clients, i \in Kept : Revoke(c, i) \/ DeleteRecord(c, i) \/ Resolve(c, i)
    \/ \E c \in Clients, o \in Orgs : DeleteOrganization(c, o)
    \/ \E i \in Kept : Expire(i)
    \/ \E o \in Orgs : PutFile(o)

Spec == Init /\ [][Next]_vars

-----------------------------------------------------------------------------
TypeOK ==
    /\ Kept \subseteq 1..invited
    /\ \A i \in Kept : invitations[i] \in Row
    /\ DOMAIN organizations \subseteq 1..founded
    /\ cleared \cup files \subseteq 1..founded

\* "The record of how something came to be" (use_cases/owner_invitations.py): while an
\* organization exists exactly one invitation says so, whoever accepts, revokes and deletes
\* records at once.
OrganizationHasRecord ==
    \A o \in DOMAIN organizations : Cardinality({i \in Kept : invitations[i].accepted /\ invitations[i].org = o}) = 1

\* "There is never an organization whose files are gone but which still exists to be used"
\* (staff/use_cases/organizations.delete_organization).
FilesGoLast == cleared \cap DOMAIN organizations = {}
=============================================================================
