----------------------------- MODULE InvitationSeats -----------------------------
(***************************************************************************)
(* By how much invitations made at once pass an organization's seats, for  *)
(* any number of seats, people and requests.                               *)
(*                                                                         *)
(* What each request may still take is counted ahead: an invitation that   *)
(* is not created yet, and the account of an invitation being accepted,    *)
(* which keeps its seat until then only if nobody revokes it.  Seats, the  *)
(* pending invitations nobody is accepting and the requests under way      *)
(* together never pass the limit by more than SeatSlack allows.            *)
(***************************************************************************)
EXTENDS Invitations, FiniteSetTheorems, SequenceTheorems, TLAPS

Kinds == {"none", "invite", "revoke", "accept"}
Request == [kind : Kinds, email : Emails, id : Nat, revokes : SUBSET Nat]

TypeInv ==
    /\ invitations \in Seq(Row) /\ Len(invitations) <= MaxInvites
    /\ accounts \subseteq Emails
    /\ IsFiniteSet(accounts)
    /\ requests \in [Clients -> Request]
    /\ \A c \in Clients : /\ requests[c].kind = "accept" => requests[c].id \in Created
                          /\ requests[c].id \in Created \cup {0}
                          /\ requests[c].revokes \subseteq Created

Accepting == {c \in Clients : requests[c].kind = "accept"}
Taking == {c \in Clients : requests[c].kind \in {"invite", "accept"}}
\* Pending, and nobody is accepting it.
Waiting == {i \in Pending : \A c \in Accepting : requests[c].id # i}

SeatsAhead == Cardinality(accounts) + Cardinality(Waiting) + Cardinality(Taking) + 2 <= SEATS + Cardinality(Clients)

IInv == TypeInv /\ SeatsAhead

\* What the theorem supposes: an organization has a seat at least (staff/use_cases), and
\* there is somebody to invite and somebody to do it.
Supposed == IsFiniteSet(Clients) /\ Clients # {} /\ Emails # {} /\ SEATS \in Nat \ {0} /\ MaxInvites \in Nat

-----------------------------------------------------------------------------
LEMMA FiniteParts ==
    ASSUME TypeInv, IsFiniteSet(Clients)
    PROVE  /\ IsFiniteSet(Pending) /\ Cardinality(Pending) \in Nat
           /\ IsFiniteSet(Waiting) /\ Cardinality(Waiting) \in Nat
           /\ IsFiniteSet(Taking) /\ Cardinality(Taking) \in Nat
           /\ Cardinality(accounts) \in Nat /\ Cardinality(Clients) \in Nat
           /\ Cardinality(Taking) <= Cardinality(Clients)
           /\ Cardinality(Waiting) <= Cardinality(Pending)
<1>1. IsFiniteSet(Created)
  <2>1. Created = 1..Len(invitations) /\ Len(invitations) \in Nat BY DEF TypeInv, Created
  <2> QED BY <2>1, FS_Interval
<1>2. Pending \in SUBSET Created BY DEF Pending
<1>3. Waiting \in SUBSET Pending BY DEF Waiting
<1>4. Taking \in SUBSET Clients BY DEF Taking
<1>5. IsFiniteSet(Pending) BY <1>1, <1>2, FS_Subset
<1>6. IsFiniteSet(Waiting) /\ Cardinality(Waiting) <= Cardinality(Pending) BY <1>3, <1>5, FS_Subset
<1>7. IsFiniteSet(Taking) /\ Cardinality(Taking) <= Cardinality(Clients) BY <1>4, FS_Subset
<1> QED BY <1>5, <1>6, <1>7, FS_CardinalityType DEF TypeInv

LEMMA OneMore ==
    ASSUME NEW S, NEW T, NEW x, IsFiniteSet(S), T \subseteq S \cup {x}
    PROVE  Cardinality(T) <= Cardinality(S) + 1 /\ Cardinality(T) \in Nat /\ Cardinality(S) \in Nat
<1>1. IsFiniteSet(S \cup {x}) /\ Cardinality(S \cup {x}) \in {Cardinality(S), Cardinality(S) + 1}
  BY FS_AddElement
<1>2. IsFiniteSet(T) /\ Cardinality(T) <= Cardinality(S \cup {x}) BY <1>1, FS_Subset
<1> QED BY <1>1, <1>2, FS_CardinalityType

LEMMA NoMore ==
    ASSUME NEW S, NEW T, IsFiniteSet(S), T \subseteq S
    PROVE  Cardinality(T) <= Cardinality(S) /\ Cardinality(T) \in Nat /\ Cardinality(S) \in Nat
BY FS_Subset, FS_CardinalityType

LEMMA OneLess ==
    ASSUME NEW S, NEW T, NEW x \in S, IsFiniteSet(S), T \subseteq S \ {x}
    PROVE  Cardinality(T) <= Cardinality(S) - 1 /\ Cardinality(T) \in Nat /\ Cardinality(S) \in Nat
<1>1. IsFiniteSet(S \ {x}) /\ Cardinality(S \ {x}) = Cardinality(S) - 1 BY FS_RemoveElement
<1>2. Cardinality(T) <= Cardinality(S \ {x}) /\ Cardinality(T) \in Nat BY <1>1, NoMore
<1> QED BY <1>1, <1>2, FS_CardinalityType

\* Nothing more is taken, or a request that counted ahead ends and one more is.
LEMMA NothingTaken ==
    ASSUME IInv, Supposed, accounts' \subseteq accounts, Waiting' \subseteq Waiting, Taking' \subseteq Taking
    PROVE  SeatsAhead'
<1>1. /\ IsFiniteSet(accounts) /\ IsFiniteSet(Waiting) /\ IsFiniteSet(Taking) /\ Cardinality(Clients) \in Nat
  BY FiniteParts DEF IInv, TypeInv, Supposed
<1>2. Cardinality(accounts') <= Cardinality(accounts) /\ Cardinality(accounts') \in Nat /\ Cardinality(accounts) \in Nat
  BY <1>1, NoMore
<1>3. Cardinality(Waiting') <= Cardinality(Waiting) /\ Cardinality(Waiting') \in Nat /\ Cardinality(Waiting) \in Nat
  BY <1>1, NoMore
<1>4. Cardinality(Taking') <= Cardinality(Taking) /\ Cardinality(Taking') \in Nat /\ Cardinality(Taking) \in Nat
  BY <1>1, NoMore
<1> QED BY <1>1, <1>2, <1>3, <1>4 DEF IInv, SeatsAhead, Supposed

LEMMA OneTaken ==
    ASSUME IInv, Supposed, NEW c \in Taking, NEW x, Taking' \subseteq Taking \ {c},
           \/ accounts' \subseteq accounts /\ Waiting' \subseteq Waiting \cup {x}
           \/ accounts' \subseteq accounts \cup {x} /\ Waiting' \subseteq Waiting
    PROVE  SeatsAhead'
<1>1. /\ IsFiniteSet(accounts) /\ IsFiniteSet(Waiting) /\ IsFiniteSet(Taking) /\ Cardinality(Clients) \in Nat
  BY FiniteParts DEF IInv, TypeInv, Supposed
<1>2. Cardinality(Taking') <= Cardinality(Taking) - 1 /\ Cardinality(Taking') \in Nat /\ Cardinality(Taking) \in Nat
  BY <1>1, OneLess
<1>3. CASE accounts' \subseteq accounts /\ Waiting' \subseteq Waiting \cup {x}
  <2>1. Cardinality(accounts') <= Cardinality(accounts) /\ Cardinality(accounts') \in Nat /\ Cardinality(accounts) \in Nat
    BY <1>1, <1>3, NoMore
  <2>2. Cardinality(Waiting') <= Cardinality(Waiting) + 1 /\ Cardinality(Waiting') \in Nat /\ Cardinality(Waiting) \in Nat
    BY <1>1, <1>3, OneMore
  <2> QED BY <1>1, <1>2, <2>1, <2>2 DEF IInv, SeatsAhead, Supposed
<1>4. CASE accounts' \subseteq accounts \cup {x} /\ Waiting' \subseteq Waiting
  <2>1. Cardinality(accounts') <= Cardinality(accounts) + 1 /\ Cardinality(accounts') \in Nat /\ Cardinality(accounts) \in Nat
    BY <1>1, <1>4, OneMore
  <2>2. Cardinality(Waiting') <= Cardinality(Waiting) /\ Cardinality(Waiting') \in Nat /\ Cardinality(Waiting) \in Nat
    BY <1>1, <1>4, NoMore
  <2> QED BY <1>1, <1>2, <2>1, <2>2 DEF IInv, SeatsAhead, Supposed
<1> QED BY <1>3, <1>4

-----------------------------------------------------------------------------
LEMMA NoRequestType ==
    ASSUME Emails # {}
    PROVE  /\ NoRequest \in Request /\ NoRequest.kind = "none" /\ NoRequest.revokes = {}
           /\ NoRequest.id = 0
BY DEF NoRequest, Request, Kinds

LEMMA RevokedRows ==
    ASSUME TypeInv
    PROVE  \A ids : /\ Revoked(ids) \in Seq(Row) /\ Len(Revoked(ids)) = Len(invitations)
                    /\ \A i \in Created : Revoked(ids)[i] = invitations[i] \/ Revoked(ids)[i].revoked
<1> SUFFICES ASSUME NEW ids
             PROVE  /\ Revoked(ids) \in Seq(Row) /\ Len(Revoked(ids)) = Len(invitations)
                    /\ \A i \in Created : Revoked(ids)[i] = invitations[i] \/ Revoked(ids)[i].revoked
  OBVIOUS
<1>1. Created = 1..Len(invitations) /\ Len(invitations) \in Nat /\ \A i \in Created : invitations[i] \in Row
  BY ElementOfSeq, LenProperties DEF TypeInv, Created
<1>2. \A i \in Created : /\ Revoked(ids)[i] \in Row
                         /\ Revoked(ids)[i] = invitations[i] \/ Revoked(ids)[i].revoked
  BY <1>1 DEF Revoked, Row
<1>3. Revoked(ids) \in [1..Len(invitations) -> Row] BY <1>1, <1>2 DEF Revoked
<1> QED BY <1>1, <1>2, <1>3

\* The requests after one of them changed.
LEMMA RequestChanges ==
    ASSUME TypeInv, NEW c \in Clients, NEW r \in Request, requests' = [requests EXCEPT ![c] = r],
           r.kind = "accept" => r.id \in Created, r.id \in Created \cup {0}, r.revokes \subseteq Created, Created \subseteq Created'
    PROVE  /\ requests' \in [Clients -> Request]
           /\ requests'[c] = r
           /\ \A d \in Clients \ {c} : requests'[d] = requests[d]
           /\ \A d \in Clients : /\ requests'[d].kind = "accept" => requests'[d].id \in Created'
                               /\ requests'[d].id \in Created' \cup {0}
                               /\ requests'[d].revokes \subseteq Created'
BY DEF TypeInv

LEMMA Ended ==
    ASSUME TypeInv, Emails # {}, NEW c \in Clients, requests' = [requests EXCEPT ![c] = NoRequest],
           Created \subseteq Created'
    PROVE  /\ requests' \in [Clients -> Request]
           /\ \A d \in Clients : /\ requests'[d].kind = "accept" => requests'[d].id \in Created'
                               /\ requests'[d].id \in Created' \cup {0}
                               /\ requests'[d].revokes \subseteq Created'
           /\ requests'[c].kind = "none"
           /\ \A d \in Clients \ {c} : requests'[d] = requests[d]
           /\ Accepting' = Accepting \ {c}
           /\ Taking' = Taking \ {c}
           /\ \A d \in Accepting' : requests'[d].id = requests[d].id
<1>1. /\ requests' \in [Clients -> Request]
      /\ requests'[c].kind = "none"
      /\ \A d \in Clients \ {c} : requests'[d] = requests[d]
      /\ \A d \in Clients : /\ requests'[d].kind = "accept" => requests'[d].id \in Created'
                          /\ requests'[d].id \in Created' \cup {0}
                          /\ requests'[d].revokes \subseteq Created'
  BY NoRequestType, RequestChanges
<1> QED BY <1>1 DEF Accepting, Taking

\* No row but a new one is pending that was not, and no request accepts another.
LEMMA FewerWait ==
    ASSUME TypeInv, NEW new, Pending' \subseteq Pending \cup {new}, Accepting \subseteq Accepting',
           \A d \in Accepting : requests'[d].id = requests[d].id
    PROVE  Waiting' \subseteq Waiting \cup {new}
BY DEF Waiting
LEMMA NoneMoreWait ==
    ASSUME TypeInv, Pending' \subseteq Pending, Accepting \subseteq Accepting',
           \A d \in Accepting : requests'[d].id = requests[d].id
    PROVE  Waiting' \subseteq Waiting
BY DEF Waiting

-----------------------------------------------------------------------------
LEMMA InviteStep ==
    ASSUME IInv, Supposed, NEW c \in Clients, NEW email \in Emails, Invite(c, email) PROVE IInv'
<1> USE DEF IInv
<1> DEFINE r == [kind |-> "invite", email |-> email, id |-> 0, revokes |-> PendingFor(email)]
<1>1. PendingFor(email) \subseteq Created /\ Created \subseteq Nat
  BY LenProperties DEF PendingFor, Pending, Created, TypeInv
<1>2. r \in Request BY <1>1 DEF Request, Kinds
<1>3. requests' = [requests EXCEPT ![c] = r] /\ UNCHANGED <<invitations, accounts>> BY DEF Invite
<1>4. r.kind = "invite" /\ r.id = 0 /\ r.revokes = PendingFor(email) OBVIOUS
<1> HIDE DEF r
<1>5. Created' = Created /\ Pending' = Pending BY <1>3 DEF Created, Pending, IsPending
<1>6. TypeInv' BY <1>1, <1>2, <1>3, <1>4, <1>5, RequestChanges DEF TypeInv
<1>7. Taken < SEATS BY DEF Invite, SeatAvailable
<1>8. SeatsAhead'
  <2>1. IsFiniteSet(Pending) /\ Cardinality(accounts) \in Nat BY FiniteParts DEF Supposed
  <2>2. Waiting' \subseteq Pending /\ Taking' \subseteq Clients BY <1>5 DEF Waiting, Taking
  <2>3. /\ Cardinality(Waiting') <= Cardinality(Pending) /\ Cardinality(Waiting') \in Nat
        /\ Cardinality(Pending) \in Nat
    BY <2>1, <2>2, NoMore
  <2>4. /\ Cardinality(Taking') <= Cardinality(Clients) /\ Cardinality(Taking') \in Nat
        /\ Cardinality(Clients) \in Nat
    BY <2>2, NoMore DEF Supposed
  <2> QED BY <1>3, <1>7, <2>1, <2>3, <2>4 DEF SeatsAhead, Taken, Members, Supposed
<1> QED BY <1>6, <1>8

LEMMA AcceptStep ==
    ASSUME IInv, Supposed, NEW c \in Clients, NEW i \in Created, Accept(c, i) PROVE IInv'
<1> USE DEF IInv
<1> DEFINE r == [NoRequest EXCEPT !.kind = "accept", !.id = i]
<1>1. i \in Nat BY LenProperties DEF Created, TypeInv
<1>2. r \in Request /\ r.kind = "accept" /\ r.id = i /\ r.revokes = {}
  BY <1>1, NoRequestType DEF Request, Kinds, Supposed, NoRequest
<1>3. requests' = [requests EXCEPT ![c] = r] /\ UNCHANGED <<invitations, accounts>> BY DEF Accept
<1> HIDE DEF r
<1>4. Created' = Created /\ Pending' = Pending BY <1>3 DEF Created, Pending, IsPending
<1>5. TypeInv' /\ requests'[c] = r BY <1>2, <1>3, <1>4, RequestChanges DEF TypeInv
<1>6. i \in Pending /\ Taken - 1 < SEATS BY DEF Accept, Resolves, SeatAvailable, Pending
<1>7. Waiting' \subseteq Pending \ {i}
  <2>1. c \in Accepting' BY <1>2, <1>5 DEF Accepting
  <2> QED BY <1>2, <1>4, <1>5, <2>1 DEF Waiting
<1>8. SeatsAhead'
  <2>1. /\ Cardinality(Taking') <= Cardinality(Clients) /\ Cardinality(Taking') \in Nat
        /\ Cardinality(Clients) \in Nat
    BY NoMore DEF Supposed, Taking
  <2>2. IsFiniteSet(Pending) /\ Cardinality(accounts) \in Nat BY FiniteParts DEF Supposed
  <2>3. /\ Cardinality(Waiting') <= Cardinality(Pending) - 1 /\ Cardinality(Waiting') \in Nat
        /\ Cardinality(Pending) \in Nat
    BY <1>6, <1>7, <2>2, OneLess
  <2> QED BY <1>3, <1>6, <2>1, <2>2, <2>3 DEF SeatsAhead, Taken, Members, Supposed
<1> QED BY <1>5, <1>8

LEMMA CreateInvitationStep ==
    ASSUME IInv, Supposed, NEW c \in Clients, CreateInvitation(c) PROVE IInv'
<1> USE DEF IInv
<1> PICK ids : ids = requests[c].revokes OBVIOUS
<1> DEFINE old == Revoked(ids)
           row == NewRow(requests[c].email)
           new == Len(invitations) + 1
<1>1. row \in Row /\ Len(invitations) \in Nat /\ Created = 1..Len(invitations)
  BY LenProperties DEF TypeInv, Request, NewRow, Row, Created
<1>2. /\ old \in Seq(Row) /\ Len(old) = Len(invitations)
      /\ \A i \in Created : old[i] = invitations[i] \/ old[i].revoked
  BY RevokedRows
<1>3. /\ invitations' = Append(old, row) /\ requests' = [requests EXCEPT ![c] = NoRequest] /\ accounts' = accounts
      /\ Len(invitations) < MaxInvites
  BY DEF CreateInvitation
<1> HIDE DEF old, row
<1>4. /\ invitations' \in Seq(Row) /\ Len(invitations') = new
      /\ \A i \in Created : invitations'[i] = old[i]
  BY <1>1, <1>2, <1>3
<1>5. Created' = Created \cup {new} BY <1>1, <1>4, LenProperties DEF Created
<1>6. Pending' \subseteq Pending \cup {new}
  <2> SUFFICES ASSUME NEW i \in Created, IsPending(i)' PROVE IsPending(i) BY <1>5 DEF Pending
  <2> QED BY <1>2, <1>4 DEF IsPending
<1>7. /\ Taking' = Taking \ {c} /\ Accepting' = Accepting \ {c}
      /\ TypeInv' /\ \A d \in Accepting' : requests'[d].id = requests[d].id
  <2>1. Len(invitations') <= MaxInvites BY <1>1, <1>3, <1>4 DEF Supposed
  <2>2. Created \subseteq Created' BY <1>5
  <2> HIDE DEF new
  <2> QED BY <1>3, <1>4, <2>1, <2>2, Ended DEF TypeInv, Supposed
<1>8. c \in Taking /\ c \notin Accepting BY DEF CreateInvitation, Taking, Accepting
<1>9. Waiting' \subseteq Waiting \cup {new} BY <1>6, <1>7, <1>8, FewerWait
<1> QED BY <1>3, <1>7, <1>8, <1>9, OneTaken

LEMMA RevokeStep ==
    ASSUME IInv, Supposed, NEW c \in Clients, NEW i \in Created, Revoke(c, i) PROVE IInv'
<1> USE DEF IInv
<1> DEFINE r == [NoRequest EXCEPT !.kind = "revoke", !.revokes = {i}]
<1>1. i \in Nat BY LenProperties DEF Created, TypeInv
<1>2. r \in Request /\ r.kind = "revoke" /\ r.id = 0 /\ r.revokes = {i}
  BY <1>1, NoRequestType DEF Request, Kinds, Supposed, NoRequest
<1>3. requests' = [requests EXCEPT ![c] = r] /\ UNCHANGED <<invitations, accounts>> BY DEF Revoke
<1> HIDE DEF r
<1>4. Created' = Created /\ Pending' = Pending BY <1>3 DEF Created, Pending, IsPending
<1>5. /\ TypeInv' /\ requests'[c] = r /\ \A d \in Clients \ {c} : requests'[d] = requests[d]
  BY <1>2, <1>3, <1>4, RequestChanges DEF TypeInv
<1>6. requests[c].kind = "none" BY NoRequestType DEF Revoke, Supposed
<1>7. Taking' = Taking /\ Accepting' = Accepting /\ \A d \in Accepting : requests'[d].id = requests[d].id
  BY <1>2, <1>5, <1>6 DEF Taking, Accepting
<1> QED BY <1>3, <1>4, <1>5, <1>7, NoneMoreWait, NothingTaken

LEMMA RevokeInvitationStep ==
    ASSUME IInv, Supposed, NEW c \in Clients, RevokeInvitation(c) PROVE IInv'
<1> USE DEF IInv
<1> PICK ids : ids = requests[c].revokes OBVIOUS
<1>1. /\ invitations' = Revoked(ids) /\ requests' = [requests EXCEPT ![c] = NoRequest]
      /\ accounts' = accounts
  BY DEF RevokeInvitation
<1>2. /\ invitations' \in Seq(Row) /\ Len(invitations') = Len(invitations)
      /\ \A i \in Created : invitations'[i] = invitations[i] \/ invitations'[i].revoked
  BY <1>1, RevokedRows
<1>3. Created' = Created BY <1>2, LenProperties DEF Created, TypeInv
<1>4. Pending' \subseteq Pending
  <2> SUFFICES ASSUME NEW i \in Created, IsPending(i)' PROVE IsPending(i) BY <1>3 DEF Pending
  <2> QED BY <1>2 DEF IsPending
<1>5. /\ Taking' = Taking \ {c} /\ Accepting' = Accepting \ {c}
      /\ TypeInv' /\ \A d \in Accepting' : requests'[d].id = requests[d].id
  BY <1>1, <1>2, <1>3, Ended DEF TypeInv, Supposed
<1>6. c \notin Accepting BY DEF RevokeInvitation, Accepting
<1> QED BY <1>1, <1>4, <1>5, <1>6, NoneMoreWait, NothingTaken

\* The account takes the seat its invitation had, or the one the request counted ahead.
LEMMA AcceptInvitationStep ==
    ASSUME IInv, Supposed, NEW c \in Clients, AcceptInvitation(c) PROVE IInv'
<1> USE DEF IInv
<1> DEFINE i == requests[c].id
           email == invitations[i].email
<1>1. /\ c \in Accepting /\ c \in Taking /\ i \in Created
  BY DEF AcceptInvitation, Accepting, Taking, TypeInv
<1>2. /\ Created = 1..Len(invitations) /\ Len(invitations) \in Nat /\ invitations \in [Created -> Row]
  BY LenProperties DEF TypeInv, Created
<1>3. requests' = [requests EXCEPT ![c] = NoRequest] BY DEF AcceptInvitation
<1>4. CASE HasAccount(email)
  <2>1. UNCHANGED <<invitations, accounts>> BY <1>4 DEF AcceptInvitation
  <2>2. Created' = Created /\ Pending' = Pending BY <2>1 DEF Created, Pending, IsPending
  <2>3. /\ Taking' = Taking \ {c} /\ Accepting' = Accepting \ {c}
        /\ TypeInv' /\ \A d \in Accepting' : requests'[d].id = requests[d].id
    BY <1>3, <2>1, <2>2, Ended DEF TypeInv, Supposed
  <2>4. Waiting' \subseteq Waiting \cup {i} BY <2>2, <2>3 DEF Waiting
  <2> QED BY <1>1, <2>1, <2>3, <2>4, OneTaken
<1>5. CASE ~HasAccount(email)
  <2>1. /\ accounts' = accounts \cup {email}
        /\ invitations' = [invitations EXCEPT ![i] = [invitations[i] EXCEPT !.accepted = TRUE]]
    BY <1>5 DEF AcceptInvitation, Accepted
  <2> DEFINE row == [invitations[i] EXCEPT !.accepted = TRUE]
  <2>2. row \in Row /\ row.accepted /\ email \in Emails BY <1>1, <1>2 DEF Row
  <2> HIDE DEF row
  <2>3. invitations' \in Seq(Row) /\ Len(invitations') = Len(invitations)
    BY <1>1, <1>2, <2>1, <2>2, ExceptSeq DEF TypeInv, row
  <2>4. Created' = Created BY <1>2, <2>3, LenProperties DEF Created
  <2>5. invitations'[i] = row /\ \A j \in Created \ {i} : invitations'[j] = invitations[j]
    BY <1>1, <1>2, <2>1 DEF row
  <2>6. Pending' \subseteq Pending \ {i} BY <2>2, <2>4, <2>5 DEF Pending, IsPending
  <2>7. IsFiniteSet(accounts') BY <2>1, FS_AddElement DEF TypeInv
  <2>8. /\ Taking' = Taking \ {c} /\ Accepting' = Accepting \ {c}
        /\ TypeInv' /\ \A d \in Accepting' : requests'[d].id = requests[d].id
    BY <1>3, <2>1, <2>2, <2>3, <2>4, <2>7, Ended DEF TypeInv, Supposed
  <2>9. Waiting' \subseteq Waiting BY <2>6, <2>8 DEF Waiting
  <2> QED BY <1>1, <2>1, <2>8, <2>9, OneTaken
<1> QED BY <1>4, <1>5

LEMMA AbortStep ==
    ASSUME IInv, Supposed, NEW c \in Clients, Abort(c) PROVE IInv'
<1> USE DEF IInv
<1>1. requests' = [requests EXCEPT ![c] = NoRequest] /\ UNCHANGED <<invitations, accounts>> BY DEF Abort
<1>2. Created' = Created /\ Pending' = Pending BY <1>1 DEF Created, Pending, IsPending
<1>3. /\ Taking' = Taking \ {c} /\ Accepting' = Accepting \ {c}
      /\ TypeInv' /\ \A d \in Accepting' : requests'[d].id = requests[d].id
  BY <1>1, <1>2, Ended DEF TypeInv, Supposed
<1>4. CASE c \in Accepting
  <2>1. c \in Taking BY <1>4 DEF Accepting, Taking
  <2>2. Waiting' \subseteq Waiting \cup {requests[c].id} BY <1>2, <1>3 DEF Waiting
  <2> QED BY <1>1, <1>3, <2>1, <2>2, OneTaken
<1>5. CASE c \notin Accepting
  BY <1>1, <1>2, <1>3, <1>5, NoneMoreWait, NothingTaken
<1> QED BY <1>4, <1>5

LEMMA ExpireStep ==
    ASSUME IInv, Supposed, NEW i \in Created, Expire(i) PROVE IInv'
<1> USE DEF IInv
<1> DEFINE row == [invitations[i] EXCEPT !.expired = TRUE]
<1>1. /\ Created = 1..Len(invitations) /\ Len(invitations) \in Nat /\ invitations \in [Created -> Row]
  BY LenProperties DEF TypeInv, Created
<1>2. row \in Row /\ row.expired BY <1>1 DEF Row
<1>3. invitations' = [invitations EXCEPT ![i] = row] /\ UNCHANGED <<accounts, requests>> BY DEF Expire
<1> HIDE DEF row
<1>4. invitations' \in Seq(Row) /\ Len(invitations') = Len(invitations)
  BY <1>1, <1>2, <1>3, ExceptSeq DEF TypeInv
<1>5. Created' = Created BY <1>1, <1>4, LenProperties DEF Created
<1>6. invitations'[i] = row /\ \A j \in Created \ {i} : invitations'[j] = invitations[j] BY <1>1, <1>3
<1>7. Pending' \subseteq Pending BY <1>2, <1>5, <1>6 DEF Pending, IsPending
<1>8. TypeInv' /\ Taking' = Taking /\ Accepting' = Accepting
  BY <1>3, <1>4, <1>5 DEF TypeInv, Taking, Accepting
<1> QED BY <1>3, <1>7, <1>8, NoneMoreWait, NothingTaken

LEMMA RemoveMemberStep ==
    ASSUME IInv, Supposed, NEW email \in Emails, RemoveMember(email) PROVE IInv'
<1> USE DEF IInv
<1>1. accounts' = accounts \ {email} /\ UNCHANGED <<invitations, requests>> BY DEF RemoveMember
<1>2. /\ Created' = Created /\ Pending' = Pending /\ Taking' = Taking /\ Accepting' = Accepting
  BY <1>1 DEF Created, Pending, IsPending, Taking, Accepting
<1>3. IsFiniteSet(accounts') BY <1>1, FS_RemoveElement DEF TypeInv
<1>4. TypeInv' BY <1>1, <1>2, <1>3 DEF TypeInv
<1> QED BY <1>1, <1>2, <1>4, NoneMoreWait, NothingTaken

LEMMA SeatsInit == Init /\ Supposed => IInv
<1> SUFFICES ASSUME Init, Supposed PROVE IInv OBVIOUS
<1>1. Created = {} /\ invitations \in Seq(Row) BY DEF Init, Created
<1>2. /\ requests \in [Clients -> Request]
      /\ \A c \in Clients : requests[c].kind = "none" /\ requests[c].revokes = {} /\ requests[c].id = 0
  BY NoRequestType DEF Init, Supposed
<1>3. TypeInv
  <2>1. invitations = <<>> /\ Len(<<>>) = 0 BY DEF Init
  <2> QED BY <1>1, <1>2, <2>1, FS_EmptySet DEF Init, TypeInv, Supposed
<1>4. accounts = {} /\ Waiting = {} /\ Taking = {} BY <1>1, <1>2 DEF Init, Waiting, Pending, Taking
<1>5. Cardinality(Clients) \in Nat /\ Cardinality(Clients) # 0 BY FS_CardinalityType, FS_EmptySet DEF Supposed
<1>6. SeatsAhead BY <1>4, <1>5, FS_EmptySet DEF SeatsAhead, Supposed
<1> QED BY <1>3, <1>6 DEF IInv

LEMMA SeatsStep == IInv /\ Supposed /\ [Next]_vars => IInv'
<1> SUFFICES ASSUME IInv, Supposed, [Next]_vars PROVE IInv' OBVIOUS
<1>1. CASE UNCHANGED vars
  <2>1. TypeInv' BY <1>1 DEF vars, TypeInv, Created, IInv
  <2>2. SeatsAhead'
    BY <1>1 DEF vars, SeatsAhead, Waiting, Pending, IsPending, Created, Taking, Accepting, IInv
  <2> QED BY <2>1, <2>2 DEF IInv
<1> QED
  BY <1>1, InviteStep, AcceptStep, CreateInvitationStep, RevokeStep, RevokeInvitationStep, AcceptInvitationStep,
     AbortStep, ExpireStep, RemoveMemberStep
  DEF Next

LEMMA SeatTypes == IInv /\ Supposed => TypeOK
<1> SUFFICES ASSUME IInv, Supposed PROVE TypeOK OBVIOUS
<1>1. Created = 1..Len(invitations) /\ Len(invitations) \in Nat /\ \A i \in Created : invitations[i] \in Row
  BY ElementOfSeq, LenProperties DEF IInv, TypeInv, Created
<1>2. \A i \in Created : i \in Ids BY <1>1 DEF IInv, TypeInv, Ids, Supposed
<1> QED BY <1>1, <1>2 DEF IInv, TypeInv, TypeOK

\* The invitations being accepted are no more than the requests that accept them.
LEMMA SlackFollows == IInv /\ Supposed => SeatSlack
<1> SUFFICES ASSUME IInv, Supposed PROVE SeatSlack OBVIOUS
<1> DEFINE Asked == Pending \ Waiting
           f == [c \in {d \in Accepting : requests[d].id \in Asked} |-> requests[c].id]
<1>1. /\ IsFiniteSet(Pending) /\ IsFiniteSet(Waiting) /\ IsFiniteSet(Taking)
      /\ Cardinality(accounts) \in Nat /\ Cardinality(Clients) \in Nat
      /\ Cardinality(Waiting) \in Nat /\ Cardinality(Taking) \in Nat
  BY FiniteParts DEF IInv, Supposed
<1>2. DOMAIN f \subseteq Taking BY DEF Accepting, Taking
<1>3. IsFiniteSet(DOMAIN f) /\ Cardinality(DOMAIN f) <= Cardinality(Taking) /\ Cardinality(DOMAIN f) \in Nat
  BY <1>1, <1>2, FS_Subset, FS_CardinalityType
<1>4. f \in Surjection(DOMAIN f, Asked) BY DEF Surjection, Waiting
<1>5. IsFiniteSet(Asked) /\ Cardinality(Asked) <= Cardinality(DOMAIN f) /\ Cardinality(Asked) \in Nat
  BY <1>3, <1>4, FS_Surjection, FS_CardinalityType
<1>6. Pending = Waiting \cup Asked /\ Waiting \cap Asked = {} BY DEF Waiting
<1> HIDE DEF Asked, f
<1>7. Cardinality(Pending) = Cardinality(Waiting) + Cardinality(Asked)
  <2>1. Cardinality(Waiting \cup Asked) = Cardinality(Waiting) + Cardinality(Asked) - Cardinality(Waiting \cap Asked)
    BY <1>1, <1>5, FS_Union
  <2>2. Cardinality(Waiting \cap Asked) = 0 BY <1>6, FS_EmptySet
  <2> QED BY <1>1, <1>5, <1>6, <2>1, <2>2
<1> QED BY <1>1, <1>3, <1>5, <1>7 DEF IInv, SeatsAhead, SeatSlack, Taken, Members, Supposed

(***************************************************************************)
(* Invitations made, accepted and revoked at once pass the organization's  *)
(* seats by fewer than there are requests at once: the check counts what   *)
(* is committed, and every request under way has been counted by none of   *)
(* the others (invitations/use_cases.py, assert_seat_available).           *)
(***************************************************************************)
THEOREM SeatsSlackHolds == ASSUME Supposed PROVE Spec => []SeatSlack
<1>1. Init => IInv BY SeatsInit
<1>2. IInv /\ [Next]_vars => IInv' BY SeatsStep
<1>3. IInv => SeatSlack BY SlackFollows
<1> QED BY <1>1, <1>2, <1>3, PTL DEF Spec
=============================================================================
