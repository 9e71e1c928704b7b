------------------------------ MODULE Sessions -------------------------------
(***************************************************************************)
(* Who is signed in and as what: the sessions of one organization's users  *)
(* and of staff, the users' roles, and the users kept in the cache for     *)
(* five minutes.  A request looks its session up, touches it, which locks  *)
(* the row until the request commits, and takes its user from the cache or *)
(* the table.  Evictions from the cache show at once, rows at the commit.  *)
(***************************************************************************)
EXTENDS Naturals, FiniteSets, Functions

CONSTANTS
    Clients,        \* requests under way at once
    Users,          \* the organization's users; the first to exist owns it
    Staff,          \* members of staff, who are never deleted
    MaxSessions     \* bound: sessions ever created

VARIABLES
    roles,          \* user -> role, of the users that exist
    cached,         \* user -> role as cached, "none" when it is not
    sessions,       \* id -> row
    opened,         \* sessions ever created
    organization,   \* does the organization exist
    requests        \* client -> the request it has under way

vars == <<roles, cached, sessions, opened, organization, requests>>

Roles == {"owner", "admin", "member"}
SessionClients == {"web", "desktop", "staff"}
Row == [who: Users \cup Staff, client: SessionClients, expired: BOOLEAN, revoked: BOOLEAN]

NoRequest == [phase |-> "none", id |-> 0, who |-> "none", role |-> "none", on |-> {}]

Init ==
    /\ roles \in {[u \in Users |-> IF u = o THEN "owner" ELSE "admin"] : o \in Users}
    /\ cached = [u \in Users |-> "none"]
    /\ sessions = [i \in {} |-> 0]
    /\ opened = 0
    /\ organization = TRUE
    /\ requests = [c \in Clients |-> NoRequest]

-----------------------------------------------------------------------------
Open == DOMAIN sessions
Exists(u) == u \in DOMAIN roles
OfUser(u) == {i \in Open : sessions[i].who = u}

\* A session is locked by the request that has touched it and those it has written.
Locks(c) == IF requests[c].phase \in {"none", "found"} THEN {} ELSE {requests[c].id} \cup requests[c].on
Free(c, i) == \A d \in Clients \ {c} : i \notin Locks(d)

\* A user's row while it is deleted: nobody changes it, and no session for it is created.
BeingDeleted(u) == \E c \in Clients : requests[c].phase \in {"leaving", "left"} /\ requests[c].who = u

Rest(c) == requests[c] = NoRequest
Ends(c) == requests' = [requests EXCEPT ![c] = NoRequest]

\* authenticate: a user that still exists, whose row nobody is deleting.
Authenticates(u) == Exists(u) /\ ~BeingDeleted(u)

NewRow(who, client) == [who |-> who, client |-> client, expired |-> FALSE, revoked |-> FALSE]
CreateSession(who, client) ==
    /\ opened < MaxSessions
    /\ opened' = opened + 1
    /\ sessions' = [i \in Open \cup {opened + 1} |-> IF i \in Open THEN sessions[i] ELSE NewRow(who, client)]

LoginUser(u) ==
    /\ Authenticates(u)
    /\ CreateSession(u, "web")
    /\ UNCHANGED <<roles, cached, organization, requests>>

LoginDesktop(u) ==
    /\ Authenticates(u)
    /\ CreateSession(u, "desktop")
    /\ UNCHANGED <<roles, cached, organization, requests>>

LoginStaff(u) ==
    /\ CreateSession(u, "staff")
    /\ UNCHANGED <<roles, cached, organization, requests>>

\* validate_session_from_token: neither revoked nor expired, and used on the surface it was
\* issued for; a staff session is in a table of its own.
Valid(r, surface) == ~r.revoked /\ ~r.expired /\ r.client = surface
StaffValid(r) == ~r.revoked /\ ~r.expired /\ r.client = "staff"

FindSession(c, i) ==
    /\ Rest(c)
    /\ Valid(sessions[i], "web") \/ Valid(sessions[i], "desktop") \/ StaffValid(sessions[i])
    /\ requests' = [requests EXCEPT ![c] = [NoRequest EXCEPT !.phase = "found", !.id = i, !.who = sessions[i].who]]
    /\ UNCHANGED <<roles, cached, sessions, opened, organization>>

\* get_user: from the cache, else from the table and into the cache.
GetUser(u) == IF cached[u] # "none" THEN cached[u] ELSE IF Exists(u) THEN roles[u] ELSE "none"

\* touch or renew finds the row gone and changes nothing: the request goes on with the
\* session it found.
LetIn(c) ==
    LET r == requests[c] IN
    /\ r.phase = "found"
    /\ Free(c, r.id)
    /\ IF r.who \in Staff
       THEN requests' = [requests EXCEPT ![c].phase = "in"] /\ UNCHANGED cached
       ELSE IF GetUser(r.who) = "none"
       THEN Ends(c) /\ UNCHANGED cached
       ELSE /\ requests' = [requests EXCEPT ![c].phase = "in", ![c].role = GetUser(r.who)]
            /\ cached' = [cached EXCEPT ![r.who] = GetUser(r.who)]
    /\ UNCHANGED <<roles, sessions, opened, organization>>

\* touch sets last_seen_at, renew the expiry of a desktop session as well; neither writes
\* any other column of the row.
Touched(r) == r
\* Mutant: every column is written, as it was read.
WholeRow(r) == [r EXCEPT !.expired = FALSE, !.revoked = FALSE]
Renewed(r) == [r EXCEPT !.expired = FALSE]

Revoked(r) == [r EXCEPT !.revoked = TRUE]

\* The rows as a request leaves them: its own touched, those in `out` revoked.
Written(c, out) == [i \in Open |->
    LET r == IF i # requests[c].id THEN sessions[i]
             ELSE IF sessions[i].client = "desktop" THEN Renewed(sessions[i]) ELSE Touched(sessions[i]) IN
    IF i \in out THEN Revoked(r) ELSE r]

-----------------------------------------------------------------------------
\* Any other route: it commits with nothing but the touch.
Commit(c) ==
    /\ requests[c].phase = "in"
    /\ sessions' = Written(c, {})
    /\ Ends(c)
    /\ UNCHANGED <<roles, cached, opened, organization>>

\* revoke_session: a session of the same user that is not revoked; the desktop signs out
\* of its own the same way.
Revocable(i, u) == sessions[i].who = u /\ ~sessions[i].revoked
RevokeSession(c, i) ==
    /\ requests[c].phase = "in"
    /\ Revocable(i, requests[c].who)
    /\ Free(c, i)
    /\ sessions' = Written(c, {i})
    /\ Ends(c)
    /\ UNCHANGED <<roles, cached, opened, organization>>

\* logout_user and logout_staff: whoever has the token, signed in or not.
RevokeByToken(i) ==
    /\ \A c \in Clients : i \notin Locks(c)
    /\ sessions' = [sessions EXCEPT ![i] = Revoked(@)]
    /\ UNCHANGED <<roles, cached, opened, organization, requests>>

LogoutUser(i) == sessions[i].client = "web" /\ RevokeByToken(i)
LogoutStaff(i) == sessions[i].client = "staff" /\ RevokeByToken(i)

\* delete_user: not the owner, as the user was read; every session revoked, the row deleted
\* and the sessions with it, then the user evicted, and all of it committed.
\* Mutant: the user stays cached.
NotEvicted(u) == [cached EXCEPT ![u] = @]
Evicted(u) == [cached EXCEPT ![u] = "none"]

RevokeUserSessions(c) ==
    LET u == requests[c].who IN
    /\ requests[c].phase = "in"
    /\ requests[c].role \in {"admin", "member"}
    /\ ~BeingDeleted(u)
    /\ \A i \in OfUser(u) : Free(c, i)
    /\ requests' = [requests EXCEPT ![c].phase = "leaving", ![c].on = OfUser(u)]
    /\ UNCHANGED <<roles, cached, sessions, opened, organization>>

EvictUser(c) ==
    /\ requests[c].phase = "leaving"
    /\ cached' = Evicted(requests[c].who)
    /\ requests' = [requests EXCEPT ![c].phase = "left"]
    /\ UNCHANGED <<roles, sessions, opened, organization>>

DeleteUser(c) ==
    LET u == requests[c].who IN
    /\ requests[c].phase = "left"
    /\ roles' = Restrict(roles, DOMAIN roles \ {u})
    /\ sessions' = Restrict(sessions, Open \ OfUser(u))
    /\ Ends(c)
    /\ UNCHANGED <<cached, opened, organization>>

MayTransfer(role) == role = "owner"

\* transfer_ownership: both users evicted, then both roles committed.
TransferOwnership(c, u) ==
    /\ requests[c].phase = "in"
    /\ MayTransfer(requests[c].role)
    /\ Exists(u) /\ u # requests[c].who
    /\ cached' = [cached EXCEPT ![u] = "none", ![requests[c].who] = "none"]
    /\ requests' = [requests EXCEPT ![c].phase = "handing", ![c].role = u]
    /\ UNCHANGED <<roles, sessions, opened, organization>>

UpdateRoles(c) ==
    LET heir == requests[c].role
        owner == requests[c].who IN
    /\ requests[c].phase = "handing"
    /\ ~BeingDeleted(heir) /\ ~BeingDeleted(owner)
    /\ roles' = [u \in DOMAIN roles |->
                    IF u = heir THEN "owner" ELSE IF u = owner THEN "admin" ELSE roles[u]]
    /\ sessions' = Written(c, {})
    /\ Ends(c)
    /\ UNCHANGED <<cached, opened, organization>>

\* The organization is deleted: its users and their sessions go with it, and nobody evicts
\* its users from the cache.
DeleteOrganization ==
    /\ organization
    /\ \A c \in Clients, i \in Open : sessions[i].who \in Users => i \notin Locks(c)
    /\ organization' = FALSE
    /\ roles' = Restrict(roles, {})
    /\ sessions' = Restrict(sessions, {i \in Open : sessions[i].who \in Staff})
    /\ UNCHANGED <<cached, opened, requests>>

Abort(c) ==
    /\ ~Rest(c)
    /\ Ends(c)
    /\ UNCHANGED <<roles, cached, sessions, opened, organization>>

Expire(i) ==
    /\ ~sessions[i].expired
    /\ sessions' = [sessions EXCEPT ![i].expired = TRUE]
    /\ UNCHANGED <<roles, cached, opened, organization, requests>>

\* CACHE_TTL_SECONDS pass.
Lapse(u) ==
    /\ cached[u] # "none"
    /\ cached' = [cached EXCEPT ![u] = "none"]
    /\ UNCHANGED <<roles, sessions, opened, organization, requests>>

Next ==
    \/ \E c \in Clients : LetIn(c) \/ Commit(c) \/ RevokeUserSessions(c) \/ EvictUser(c) \/ DeleteUser(c)
                          \/ UpdateRoles(c) \/ Abort(c)
    \/ \E c \in Clients, i \in Open : FindSession(c, i) \/ RevokeSession(c, i)
    \/ \E c \in Clients, u \in Users : TransferOwnership(c, u)
    \/ \E u \in Users : LoginUser(u) \/ LoginDesktop(u)
    \/ \E u \in Staff : LoginStaff(u)
    \/ \E i \in Open : LogoutUser(i) \/ LogoutStaff(i) \/ Expire(i)
    \/ \E u \in Users : Lapse(u)
    \/ DeleteOrganization

Spec == Init /\ [][Next]_vars

-----------------------------------------------------------------------------
TypeOK ==
    /\ DOMAIN roles \subseteq Users /\ \A u \in DOMAIN roles : roles[u] \in Roles
    /\ \A u \in Users : cached[u] \in Roles \cup {"none"}
    /\ Open \subseteq 1..opened /\ \A i \in Open : sessions[i] \in Row
    /\ \A i \in Open : sessions[i].who \in Staff \/ Exists(sessions[i].who)

\* A session that was signed out stays signed out, though requests that found it valid
\* before still touch and renew it (sessions/sqlalchemy/adapter.renew).
StaysOut == \A i \in Open \cap DOMAIN sessions' : sessions[i].revoked => sessions'[i].revoked
SignedOutStaysOut == [][StaysOut]_sessions

\* Nobody acts as a user who deleted the account: the lock of the session a request has
\* touched, and the eviction after every session is locked, leave no cached user to find,
\* unless it was the whole organization that went (users/use_cases.delete_user).
NobodyActsDeleted ==
    \A c \in Clients : requests[c].phase # "none" /\ requests[c].phase # "found" =>
        requests[c].who \in Staff \/ Exists(requests[c].who) \/ ~organization
=============================================================================
