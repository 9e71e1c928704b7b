----------------------------- MODULE Invitations -----------------------------
(***************************************************************************)
(* The invitations to one organization: the requests that invite, revoke   *)
(* and accept, and the seats they take.  A request reads first and writes  *)
(* at its commit, so what it decided on may have changed by then; two      *)
(* things only are refused at the write, an email that has an account      *)
(* (the unique index of users) and a row that is gone.                     *)
(***************************************************************************)
EXTENDS Naturals, FiniteSets, Sequences

CONSTANTS
    Clients,    \* requests under way at once
    Emails,     \* people who are invited
    SEATS,      \* Organization.seat_limit
    MaxInvites  \* bound: invitations ever created

VARIABLES
    invitations,    \* id -> row, in the order of creation
    accounts,       \* emails with an account in the organization, but its owner's
    requests        \* client -> the request it has under way

vars == <<invitations, accounts, requests>>

Ids == 1..MaxInvites

\* status stands for accepted_at and revoked_at, each set or not.
Row == [email: Emails, accepted: BOOLEAN, revoked: BOOLEAN, expired: BOOLEAN]
NewRow(email) == [email |-> email, accepted |-> FALSE, revoked |-> FALSE, expired |-> FALSE]

NoRequest == [kind |-> "none", email |-> CHOOSE e \in Emails : TRUE, id |-> 0, revokes |-> {}]

Init ==
    /\ invitations = <<>>
    /\ accounts = {}
    /\ requests = [c \in Clients |-> NoRequest]

-----------------------------------------------------------------------------
Created == DOMAIN invitations

IsPending(i) == LET r == invitations[i] IN ~r.accepted /\ ~r.revoked /\ ~r.expired
Pending == {i \in Created : IsPending(i)}
PendingFor(email) == {i \in Pending : invitations[i].email = email}

\* The owner takes a seat as well.
Members == Cardinality(accounts) + 1
Taken == Members + Cardinality(Pending)

\* Mutant: the seats are counted one too few.
SeatToSpare(taken) == taken <= SEATS
SeatAvailable(taken) == taken < SEATS

HasAccount(email) == email \in accounts

-----------------------------------------------------------------------------
\* invite_user: no account for the email, a seat to give; the invitations pending for
\* the email now are the ones it will revoke.
Invite(c, email) ==
    /\ requests[c] = NoRequest
    /\ ~HasAccount(email)
    /\ SeatAvailable(Taken)
    /\ requests' = [requests EXCEPT ![c] = [kind |-> "invite", email |-> email, id |-> 0,
                                            revokes |-> PendingFor(email)]]
    /\ UNCHANGED <<invitations, accounts>>

Revoked(ids) == [i \in Created |-> IF i \in ids THEN [invitations[i] EXCEPT !.revoked = TRUE]
                                                ELSE invitations[i]]

\* The route ends: the earlier invitations revoked, a new one created, its email sent.
CreateInvitation(c) ==
    /\ requests[c].kind = "invite"
    /\ Len(invitations) < MaxInvites
    /\ invitations' = Append(Revoked(requests[c].revokes), NewRow(requests[c].email))
    /\ requests' = [requests EXCEPT ![c] = NoRequest]
    /\ UNCHANGED accounts

\* revoke refuses an invitation that is accepted when it looks.
Revoke(c, i) ==
    /\ requests[c] = NoRequest
    /\ ~invitations[i].accepted
    /\ requests' = [requests EXCEPT ![c] = [NoRequest EXCEPT !.kind = "revoke", !.revokes = {i}]]
    /\ UNCHANGED <<invitations, accounts>>

RevokeInvitation(c) ==
    /\ requests[c].kind = "revoke"
    /\ invitations' = Revoked(requests[c].revokes)
    /\ requests' = [requests EXCEPT ![c] = NoRequest]
    /\ UNCHANGED accounts

\* resolve_invitation: not accepted, not revoked, not expired.
Resolves(i) == IsPending(i)

\* The one being accepted is among those pending: it has its seat already.
Accept(c, i) ==
    /\ requests[c] = NoRequest
    /\ Resolves(i)
    /\ ~HasAccount(invitations[i].email)
    /\ SeatAvailable(Taken - 1)
    /\ requests' = [requests EXCEPT ![c] = [NoRequest EXCEPT !.kind = "accept", !.id = i]]
    /\ UNCHANGED <<invitations, accounts>>

\* By its id alone.
Accepted(i) == [invitations EXCEPT ![i].accepted = TRUE]

\* The account is created unless the email got one meanwhile; the row is marked accepted
\* by its id, whatever became of it.
AcceptInvitation(c) ==
    LET i == requests[c].id IN
    /\ requests[c].kind = "accept"
    /\ IF HasAccount(invitations[i].email)
       THEN UNCHANGED <<invitations, accounts>>
       ELSE /\ accounts' = accounts \cup {invitations[i].email}
            /\ invitations' = Accepted(i)
    /\ requests' = [requests EXCEPT ![c] = NoRequest]

\* The request fails before its commit: the email of an invitation may be out by then.
Abort(c) ==
    /\ requests[c] # NoRequest
    /\ requests' = [requests EXCEPT ![c] = NoRequest]
    /\ UNCHANGED <<invitations, accounts>>

\* Only the expiry of a pending invitation makes a difference.
Expire(i) ==
    /\ IsPending(i)
    /\ invitations' = [invitations EXCEPT ![i].expired = TRUE]
    /\ UNCHANGED <<accounts, requests>>

\* users: a member is removed, and the seat is free.
RemoveMember(email) ==
    /\ HasAccount(email)
    /\ accounts' = accounts \ {email}
    /\ UNCHANGED <<invitations, requests>>

Next ==
    \/ \E c \in Clients : CreateInvitation(c) \/ RevokeInvitation(c) \/ AcceptInvitation(c) \/ Abort(c)
    \/ \E c \in Clients, email \in Emails : Invite(c, email)
    \/ \E c \in Clients, i \in Created : Revoke(c, i) \/ Accept(c, i)
    \/ \E i \in Created : Expire(i)
    \/ \E email \in Emails : RemoveMember(email)

Spec == Init /\ [][Next]_vars

-----------------------------------------------------------------------------
TypeOK ==
    /\ \A i \in Created : i \in Ids /\ invitations[i] \in Row
    /\ accounts \subseteq Emails
    /\ \A c \in Clients : requests[c].id \in Created \cup {0} /\ requests[c].revokes \subseteq Created

\* Seats are counted before they are taken, and an invitation is accepted without a look
\* at whether it still holds one: requests at once pass the limit, and never by more than
\* the requests beside the one that takes the last seat, however they interleave with
\* revocations, expiries and members removed (use_cases.assert_seat_available).
SeatSlack == Taken <= SEATS + Cardinality(Clients) - 1
=============================================================================
