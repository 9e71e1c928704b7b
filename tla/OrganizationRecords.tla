-------------------------- MODULE OrganizationRecords --------------------------
(***************************************************************************)
(* That an organization has the one record of how it came to be, and its   *)
(* files longer than its rows, for any number of invitations,              *)
(* organizations and requests.                                             *)
(*                                                                         *)
(* A record is deleted by a request that looked at it before, and files    *)
(* are purged by one that removed the organization before, so the          *)
(* invariant says what still holds of what they looked at when they write: *)
(* a record that was not in use never comes into use again, and an         *)
(* organization that is gone stays gone.                                   *)
(***************************************************************************)
EXTENDS Organizations, FiniteSetTheorems, TLAPS

Kinds == {"none", "invite", "revoke", "record", "accept", "purge"}
Request == [kind : Kinds, id : Nat, email : SUBSET Emails, revokes : SUBSET Nat]

\* Whose invitation a request makes or accepts is one address.
Addressed(r) == r.kind \in {"invite", "accept"} => \E e \in Emails : r.email = {e}

TypeInv ==
    /\ invited \in Nat
    /\ founded \in 0..MaxOrgs
    /\ Kept \subseteq 1..invited
    /\ invitations \in [Kept -> Row]
    /\ DOMAIN organizations \subseteq 1..founded
    /\ organizations \in [DOMAIN organizations -> Emails]
    /\ cleared \cup files \subseteq 1..founded
    /\ requests \in [Clients -> Request]
    /\ \A c \in Clients : Addressed(requests[c])

\* A request that deletes a record has seen it out of use, one that purges has removed the
\* rows: neither changes back.
OutOfUse(i) == i \in 1..invited /\ (i \in Kept => ~InUse(invitations[i]))
Gone(o) == o \in 1..founded /\ o \notin DOMAIN organizations
Asked ==
    \A c \in Clients : /\ requests[c].kind = "record" => OutOfUse(requests[c].id)
                       /\ requests[c].kind = "purge" => Gone(requests[c].id)

RecordsOf(o) == {i \in Kept : invitations[i].accepted /\ invitations[i].org = o}

\* An invitation names an organization only that exists, and only once it was accepted.
Linked ==
    \A i \in Kept : invitations[i].org # NoOrg => invitations[i].accepted /\ invitations[i].org \in DOMAIN organizations

OneRecord == \A o \in DOMAIN organizations : \E i \in Kept : RecordsOf(o) = {i}

IInv == TypeInv /\ Asked /\ Linked /\ OneRecord /\ FilesGoLast

\* What the theorem supposes: the bound is a number.
Supposed == MaxOrgs \in Nat

-----------------------------------------------------------------------------
LEMMA PendingIs ==
    ASSUME NEW r \in Row
    PROVE  /\ StatusOf(r) = "pending" <=> ~r.accepted /\ ~r.revoked /\ ~r.expired
           /\ InUse(r) <=> StatusOf(r) = "pending" \/ (r.accepted /\ r.org # NoOrg)
<1> /\ r.accepted \in BOOLEAN /\ r.revoked \in BOOLEAN /\ r.expired \in BOOLEAN BY DEF Row
<1>1. CASE r.accepted /\ r.org = NoOrg BY <1>1 DEF StatusOf, InUse
<1>2. CASE r.accepted /\ r.org # NoOrg BY <1>2 DEF StatusOf, InUse
<1>3. CASE ~r.accepted /\ r.revoked BY <1>3 DEF StatusOf, InUse
<1>4. CASE ~r.accepted /\ ~r.revoked /\ r.expired BY <1>4 DEF StatusOf, InUse
<1>5. CASE ~r.accepted /\ ~r.revoked /\ ~r.expired BY <1>5 DEF StatusOf, InUse
<1> QED BY <1>1, <1>2, <1>3, <1>4, <1>5

LEMMA NoRequestType == NoRequest \in Request /\ Addressed(NoRequest) /\ NoRequest.kind = "none"
BY DEF NoRequest, Request, Kinds, Addressed

\* A request begins, or ends.
LEMMA RequestChanges ==
    ASSUME TypeInv, NEW c \in Clients, NEW r \in Request, Addressed(r), requests' = [requests EXCEPT ![c] = r]
    PROVE  /\ requests' \in [Clients -> Request] /\ requests'[c] = r
           /\ \A d \in Clients \ {c} : requests'[d] = requests[d]
           /\ \A d \in Clients : Addressed(requests'[d])
BY DEF TypeInv

LEMMA Ended ==
    ASSUME TypeInv, NEW c \in Clients, Ends(c)
    PROVE  /\ requests' \in [Clients -> Request] /\ requests'[c].kind = "none"
           /\ \A d \in Clients \ {c} : requests'[d] = requests[d]
           /\ \A d \in Clients : Addressed(requests'[d])
BY RequestChanges, NoRequestType DEF Ends

\* What was asked stays right while no record comes back into use and no organization comes
\* back, for the requests that go on and those that end.
LEMMA AskedStays ==
    ASSUME IInv, NEW c \in Clients, requests'[c].kind = "none",
           \A d \in Clients \ {c} : requests'[d] = requests[d],
           invited' \in Nat, invited <= invited', founded' \in Nat, founded <= founded',
           Kept' \cap 1..invited \subseteq Kept,
           \A i \in Kept' \cap 1..invited : InUse(invitations'[i]) => InUse(invitations[i]),
           DOMAIN organizations' \cap 1..founded \subseteq DOMAIN organizations
    PROVE  Asked'
<1> SUFFICES ASSUME NEW d \in Clients \ {c}, NEW id, id = requests[d].id
             PROVE  /\ requests[d].kind = "record" => OutOfUse(id)'
                    /\ requests[d].kind = "purge" => Gone(id)'
  BY DEF Asked
<1>1. ASSUME requests[d].kind = "record" PROVE OutOfUse(id)'
  BY <1>1 DEF IInv, Asked, OutOfUse, InUse, TypeInv
<1>2. ASSUME requests[d].kind = "purge" PROVE Gone(id)'
  BY <1>2 DEF IInv, Asked, Gone, TypeInv
<1> QED BY <1>1, <1>2

\* A request that looked and will write later begins: nothing else changes.
LEMMA BeginStep ==
    ASSUME IInv, NEW c \in Clients, NEW r \in Request, Addressed(r), requests' = [requests EXCEPT ![c] = r],
           r.kind = "record" => OutOfUse(r.id), r.kind # "purge",
           UNCHANGED <<invitations, invited, organizations, founded, files, cleared>>
    PROVE  IInv'
<1> USE DEF IInv
<1>1. /\ requests' \in [Clients -> Request] /\ requests'[c] = r
      /\ \A d \in Clients \ {c} : requests'[d] = requests[d]
      /\ \A d \in Clients : Addressed(requests'[d])
  BY RequestChanges
<1>2. Kept' = Kept BY DEF Kept
<1>3. TypeInv' BY <1>1, <1>2 DEF TypeInv
<1>4. Asked'
  <2> SUFFICES ASSUME NEW d \in Clients, NEW id, id = requests'[d].id
               PROVE  /\ requests'[d].kind = "record" => OutOfUse(id)'
                      /\ requests'[d].kind = "purge" => Gone(id)'
    BY DEF Asked
  <2>1. OutOfUse(id)' = OutOfUse(id) /\ Gone(id)' = Gone(id) BY <1>2 DEF OutOfUse, Gone, InUse
  <2> QED BY <1>1, <2>1 DEF Asked
<1>5. Linked' /\ OneRecord' /\ FilesGoLast' BY <1>2 DEF Linked, OneRecord, RecordsOf, FilesGoLast
<1> QED BY <1>3, <1>4, <1>5

LEMMA InviteOwnerStep ==
    ASSUME IInv, NEW c \in Clients, NEW email \in Emails, InviteOwner(c, email) PROVE IInv'
<1> DEFINE ids == {i \in Pending : invitations[i].email = email}
           r == [kind |-> "invite", id |-> 0, email |-> {email}, revokes |-> ids]
<1>1. ids \subseteq Nat BY DEF Pending, IInv, TypeInv
<1>2. r \in Request /\ Addressed(r) /\ r.kind = "invite" BY <1>1 DEF Request, Kinds, Addressed
<1>3. requests' = [requests EXCEPT ![c] = r] BY DEF InviteOwner, Begins
<1> HIDE DEF r
<1> QED BY <1>2, <1>3, BeginStep DEF InviteOwner

LEMMA RevokeStep == ASSUME IInv, NEW c \in Clients, NEW i \in Kept, Revoke(c, i) PROVE IInv'
<1> DEFINE r == [kind |-> "revoke", id |-> i, email |-> {}, revokes |-> {i}]
<1>1. i \in Nat BY DEF IInv, TypeInv
<1>2. r \in Request /\ Addressed(r) /\ r.kind = "revoke" BY <1>1 DEF Request, Kinds, Addressed
<1>3. requests' = [requests EXCEPT ![c] = r] BY DEF Revoke, Begins
<1> HIDE DEF r
<1> QED BY <1>2, <1>3, BeginStep DEF Revoke

LEMMA DeleteRecordStep == ASSUME IInv, NEW c \in Clients, NEW i \in Kept, DeleteRecord(c, i) PROVE IInv'
<1> DEFINE r == [kind |-> "record", id |-> i, email |-> {}, revokes |-> {}]
<1>1. i \in Nat BY DEF IInv, TypeInv
<1>2. r \in Request /\ Addressed(r) /\ r.kind = "record" BY <1>1 DEF Request, Kinds, Addressed
<1>3. requests' = [requests EXCEPT ![c] = r] BY DEF DeleteRecord, Begins
<1>4. OutOfUse(r.id) BY DEF OutOfUse, DeleteRecord, IInv, TypeInv
<1> HIDE DEF r
<1> QED BY <1>2, <1>3, <1>4, BeginStep DEF DeleteRecord

LEMMA ResolveStep == ASSUME IInv, NEW c \in Clients, NEW i \in Kept, Resolve(c, i) PROVE IInv'
<1> DEFINE r == [kind |-> "accept", id |-> i, email |-> {invitations[i].email}, revokes |-> {}]
<1>1. i \in Nat /\ invitations[i].email \in Emails BY DEF IInv, TypeInv, Row
<1>2. r \in Request /\ Addressed(r) /\ r.kind = "accept" BY <1>1 DEF Request, Kinds, Addressed
<1>3. requests' = [requests EXCEPT ![c] = r] BY DEF Resolve, Begins
<1> HIDE DEF r
<1> QED BY <1>2, <1>3, BeginStep DEF Resolve

\* Rows change, but for what records speak of: whether they were accepted and whose they are.
LEMMA RowsChange ==
    ASSUME IInv, UNCHANGED <<organizations, founded, cleared>>, Kept' \subseteq Nat, Kept \subseteq Kept',
           \A i \in Kept : invitations'[i].accepted = invitations[i].accepted /\ invitations'[i].org = invitations[i].org,
           \A i \in Kept' \ Kept : ~invitations'[i].accepted /\ invitations'[i].org = NoOrg
    PROVE  Linked' /\ OneRecord' /\ FilesGoLast'
<1> USE DEF IInv
<1>1. Linked' BY DEF Linked
<1>2. ASSUME NEW o \in DOMAIN organizations PROVE RecordsOf(o)' = RecordsOf(o)
  BY DEF RecordsOf
<1>3. OneRecord' BY <1>2 DEF OneRecord
<1> QED BY <1>1, <1>3 DEF FilesGoLast

\* Revoking takes nothing back into use.
LEMMA RevokedRows ==
    ASSUME IInv, NEW ids
    PROVE  /\ Revoked(ids) \in [Kept -> Row]
           /\ \A i \in Kept : /\ Revoked(ids)[i].accepted = invitations[i].accepted
                              /\ Revoked(ids)[i].org = invitations[i].org
                              /\ InUse(Revoked(ids)[i]) => InUse(invitations[i])
<1> SUFFICES ASSUME NEW i \in Kept
             PROVE  /\ Revoked(ids)[i] \in Row
                    /\ Revoked(ids)[i].accepted = invitations[i].accepted
                    /\ Revoked(ids)[i].org = invitations[i].org
                    /\ InUse(Revoked(ids)[i]) => InUse(invitations[i])
  BY DEF Revoked
<1>1. invitations[i] \in Row BY DEF IInv, TypeInv
<1>2. CASE i \notin ids BY <1>1, <1>2 DEF Revoked
<1>3. CASE i \in ids
  <2> DEFINE row == [invitations[i] EXCEPT !.revoked = TRUE]
  <2>1. Revoked(ids)[i] = row BY <1>3 DEF Revoked
  <2>2. /\ row \in Row /\ row.accepted = invitations[i].accepted /\ row.org = invitations[i].org /\ row.revoked
    BY <1>1 DEF Row
  <2> HIDE DEF row
  <2>3. InUse(row) => InUse(invitations[i]) BY <1>1, <2>2, PendingIs
  <2> QED BY <2>1, <2>2, <2>3
<1> QED BY <1>2, <1>3

LEMMA CreateInvitationStep == ASSUME IInv, NEW c \in Clients, CreateInvitation(c) PROVE IInv'
<1> USE DEF IInv
<1> PICK ids : ids = requests[c].revokes OBVIOUS
<1> DEFINE email == CHOOSE e \in requests[c].email : TRUE
           new == NewRow(email)
           rows == Revoked(ids)
<1>1. /\ requests[c].kind = "invite" /\ invited' = invited + 1 /\ Ends(c)
      /\ invitations' = [i \in Kept \cup {invited + 1} |-> IF i = invited + 1 THEN new ELSE rows[i]]
      /\ UNCHANGED <<organizations, founded, files, cleared>>
  BY DEF CreateInvitation
<1>2. email \in Emails BY <1>1 DEF TypeInv, Addressed
<1>3. new \in Row /\ ~new.accepted /\ new.org = NoOrg BY <1>2 DEF NewRow, Row
<1>4. /\ rows \in [Kept -> Row]
      /\ \A i \in Kept : /\ rows[i].accepted = invitations[i].accepted /\ rows[i].org = invitations[i].org
                         /\ InUse(rows[i]) => InUse(invitations[i])
  BY RevokedRows
<1> HIDE DEF new, rows
<1>5. Kept' = Kept \cup {invited + 1} /\ invited + 1 \notin Kept BY <1>1 DEF Kept, TypeInv
<1>6. invitations'[invited + 1] = new /\ \A i \in Kept : invitations'[i] = rows[i] BY <1>1, <1>5
<1>7. /\ requests' \in [Clients -> Request] /\ requests'[c].kind = "none"
      /\ \A d \in Clients \ {c} : requests'[d] = requests[d]
      /\ \A d \in Clients : Addressed(requests'[d])
  BY <1>1, Ended
<1>8. TypeInv'
  <2>1. invitations' \in [Kept' -> Row] BY <1>1, <1>3, <1>4, <1>5
  <2> QED BY <1>1, <1>5, <1>7, <2>1 DEF TypeInv
<1>9. Asked'
  <2>1. Kept' \cap 1..invited \subseteq Kept BY <1>5 DEF TypeInv
  <2>2. \A i \in Kept' \cap 1..invited : InUse(invitations'[i]) => InUse(invitations[i]) BY <1>4, <1>6, <2>1
  <2>3. /\ invited' \in Nat /\ invited <= invited' /\ founded' \in Nat /\ founded <= founded'
        /\ DOMAIN organizations' \cap 1..founded \subseteq DOMAIN organizations
    BY <1>1 DEF TypeInv
  <2> QED BY <1>7, <2>1, <2>2, <2>3, AskedStays
<1>10. Linked' /\ OneRecord' /\ FilesGoLast'
  BY <1>1, <1>3, <1>4, <1>5, <1>6, RowsChange DEF TypeInv
<1> QED BY <1>8, <1>9, <1>10

LEMMA RevokeInvitationStep == ASSUME IInv, NEW c \in Clients, RevokeInvitation(c) PROVE IInv'
<1> USE DEF IInv
<1> PICK ids : ids = requests[c].revokes OBVIOUS
<1>1. invitations' = Revoked(ids) /\ Ends(c) /\ UNCHANGED <<invited, organizations, founded, files, cleared>>
  BY DEF RevokeInvitation
<1>2. /\ invitations' \in [Kept -> Row]
      /\ \A i \in Kept : /\ invitations'[i].accepted = invitations[i].accepted /\ invitations'[i].org = invitations[i].org
                         /\ InUse(invitations'[i]) => InUse(invitations[i])
  BY <1>1, RevokedRows
<1>3. Kept' = Kept BY <1>2 DEF Kept
<1>4. /\ requests' \in [Clients -> Request] /\ requests'[c].kind = "none"
      /\ \A d \in Clients \ {c} : requests'[d] = requests[d]
      /\ \A d \in Clients : Addressed(requests'[d])
  BY <1>1, Ended
<1>5. TypeInv' BY <1>1, <1>2, <1>3, <1>4 DEF TypeInv
<1>6. Asked' BY <1>1, <1>2, <1>3, <1>4, AskedStays DEF TypeInv
<1>7. Linked' /\ OneRecord' /\ FilesGoLast' BY <1>1, <1>2, <1>3, RowsChange DEF TypeInv
<1> QED BY <1>5, <1>6, <1>7

\* What is deleted was out of use, so it was nobody's record.
LEMMA DeleteInvitationStep == ASSUME IInv, NEW c \in Clients, DeleteInvitation(c) PROVE IInv'
<1> USE DEF IInv
<1> PICK id : id = requests[c].id OBVIOUS
<1>1. /\ requests[c].kind = "record" /\ invitations' = [i \in Kept \ {id} |-> invitations[i]] /\ Ends(c)
      /\ UNCHANGED <<invited, organizations, founded, files, cleared>>
  BY DEF DeleteInvitation, Restrict
<1>2. Kept' = Kept \ {id} /\ \A i \in Kept' : invitations'[i] = invitations[i] BY <1>1 DEF Kept
<1>3. /\ requests' \in [Clients -> Request] /\ requests'[c].kind = "none"
      /\ \A d \in Clients \ {c} : requests'[d] = requests[d]
      /\ \A d \in Clients : Addressed(requests'[d])
  BY <1>1, Ended
<1>4. TypeInv'
  <2>1. invitations' \in [Kept' -> Row] BY <1>1, <1>2 DEF TypeInv
  <2> QED BY <1>1, <1>2, <1>3, <2>1 DEF TypeInv
<1>5. Asked' BY <1>1, <1>2, <1>3, AskedStays DEF TypeInv
<1>6. Linked' BY <1>1, <1>2 DEF Linked
<1>7. ASSUME id \in Kept PROVE ~(invitations[id].accepted /\ invitations[id].org # NoOrg)
  BY <1>1, <1>7, PendingIs DEF Asked, OutOfUse, TypeInv
<1>8. OneRecord'
  <2> SUFFICES ASSUME NEW o \in DOMAIN organizations PROVE RecordsOf(o)' = RecordsOf(o)
    BY <1>1, <1>2, <1>7 DEF OneRecord, RecordsOf, TypeInv, NoOrg
  <2>1. o # NoOrg BY DEF TypeInv, NoOrg
  <2> QED BY <1>2, <1>7, <2>1 DEF RecordsOf
<1> QED BY <1>1, <1>4, <1>5, <1>6, <1>8 DEF FilesGoLast

LEMMA AcceptInvitationStep == ASSUME IInv, Supposed, NEW c \in Clients, AcceptInvitation(c) PROVE IInv'
<1> USE DEF IInv
<1> PICK i : i = requests[c].id OBVIOUS
<1> DEFINE owner == CHOOSE e \in requests[c].email : TRUE
           new == founded + 1
<1>1. Ends(c) /\ UNCHANGED <<invited, files, cleared>> /\ requests[c].kind = "accept"
  BY DEF AcceptInvitation
<1>2. owner \in Emails BY <1>1 DEF TypeInv, Addressed
<1> HIDE DEF owner
<1>3. /\ requests' \in [Clients -> Request] /\ requests'[c].kind = "none"
      /\ \A d \in Clients \ {c} : requests'[d] = requests[d]
      /\ \A d \in Clients : Addressed(requests'[d])
  BY <1>1, Ended
<1>4. CASE ~(Claims(i) /\ ~HasAccount(owner))
  <2>1. UNCHANGED <<invitations, organizations, founded>> BY <1>4 DEF AcceptInvitation, owner
  <2>2. Kept' = Kept BY <2>1 DEF Kept
  <2>3. TypeInv' BY <1>1, <1>3, <2>1, <2>2 DEF TypeInv
  <2>4. Asked' BY <1>1, <1>3, <2>1, <2>2, AskedStays DEF TypeInv
  <2>5. Linked' /\ OneRecord' /\ FilesGoLast'
    BY <1>1, <2>1, <2>2 DEF Linked, OneRecord, RecordsOf, FilesGoLast
  <2> QED BY <2>3, <2>4, <2>5
<1>5. CASE Claims(i) /\ ~HasAccount(owner)
  <2> DEFINE row == [invitations[i] EXCEPT !.accepted = TRUE, !.org = new]
  <2>1. /\ founded < MaxOrgs /\ founded' = new /\ organizations' = Created(owner)
        /\ invitations' = [invitations EXCEPT ![i] = row]
    BY <1>5 DEF AcceptInvitation, owner
  <2>2. /\ i \in Kept /\ invitations[i] \in Row /\ ~invitations[i].accepted /\ founded \in Nat /\ new \in Orgs
        /\ InUse(invitations[i])
    BY <1>5, <2>1, PendingIs DEF Claims, Pending, TypeInv, Supposed, Orgs
  <2>3. row \in Row /\ row.accepted /\ row.org = new BY <2>2 DEF Row
  <2> HIDE DEF row
  <2>4. /\ Kept' = Kept /\ invitations' \in [Kept -> Row] /\ invitations'[i] = row
        /\ \A j \in Kept \ {i} : invitations'[j] = invitations[j]
    BY <2>1, <2>2, <2>3 DEF Kept, TypeInv
  <2>5. /\ DOMAIN organizations' = DOMAIN organizations \cup {new} /\ new \notin DOMAIN organizations
        /\ organizations' \in [DOMAIN organizations' -> Emails]
    <3>1. new \notin DOMAIN organizations BY <2>2 DEF TypeInv
    <3> HIDE DEF new
    <3> QED BY <1>2, <2>1, <3>1 DEF Created, TypeInv, new
  <2>6. TypeInv' BY <1>1, <1>3, <2>1, <2>2, <2>4, <2>5 DEF TypeInv, Supposed
  <2>7. Asked'
    <3>1. DOMAIN organizations' \cap 1..founded \subseteq DOMAIN organizations BY <2>2, <2>5
    <3>2. \A j \in Kept' \cap 1..invited : InUse(invitations'[j]) => InUse(invitations[j]) BY <2>2, <2>4
    <3> QED BY <1>1, <1>3, <2>1, <2>2, <2>4, <3>1, <3>2, AskedStays DEF TypeInv
  <2>8. Linked' BY <2>3, <2>4, <2>5 DEF Linked
  <2>9. OneRecord'
    <3> SUFFICES ASSUME NEW o \in DOMAIN organizations' PROVE \E j \in Kept' : RecordsOf(o)' = {j}
      BY DEF OneRecord
    <3>1. CASE o = new
      <4>1. \A j \in Kept : invitations[j].org # new BY <2>2, <2>5 DEF Linked, NoOrg
      <4> QED BY <2>2, <2>3, <2>4, <3>1, <4>1 DEF RecordsOf
    <3>2. CASE o # new
      <4>1. o \in DOMAIN organizations BY <2>5, <3>2
      <4>2. RecordsOf(o)' = RecordsOf(o) BY <2>2, <2>3, <2>4, <3>2 DEF RecordsOf
      <4> QED BY <2>4, <4>1, <4>2 DEF OneRecord
    <3> QED BY <3>1, <3>2
  <2>10. FilesGoLast' BY <1>1, <2>2, <2>5 DEF FilesGoLast, TypeInv
  <2> QED BY <2>6, <2>7, <2>8, <2>9, <2>10
<1> QED BY <1>4, <1>5

LEMMA ExpireStep == ASSUME IInv, NEW i \in Kept, Expire(i) PROVE IInv'
<1> USE DEF IInv
<1> DEFINE row == [invitations[i] EXCEPT !.expired = TRUE]
<1>1. invitations[i] \in Row /\ InUse(invitations[i]) BY PendingIs DEF Expire, Pending, TypeInv
<1>2. /\ invitations' = [invitations EXCEPT ![i] = row]
      /\ UNCHANGED <<invited, organizations, founded, files, cleared, requests>>
  BY DEF Expire
<1>3. row \in Row /\ row.accepted = invitations[i].accepted /\ row.org = invitations[i].org BY <1>1 DEF Row
<1> HIDE DEF row
<1>4. /\ Kept' = Kept /\ invitations' \in [Kept -> Row] /\ invitations'[i] = row
      /\ \A j \in Kept \ {i} : invitations'[j] = invitations[j]
  BY <1>2, <1>3 DEF Kept, TypeInv
<1>5. TypeInv' BY <1>2, <1>4 DEF TypeInv
<1>6. Asked'
  <2> SUFFICES ASSUME NEW d \in Clients, NEW id, id = requests[d].id
               PROVE  /\ requests[d].kind = "record" => OutOfUse(id)'
                      /\ requests[d].kind = "purge" => Gone(id)'
    BY <1>2 DEF Asked
  <2>1. OutOfUse(id) => OutOfUse(id)' BY <1>1, <1>2, <1>4 DEF OutOfUse
  <2> QED BY <1>2, <2>1 DEF Asked, Gone
<1>7. Linked' /\ OneRecord' /\ FilesGoLast' BY <1>2, <1>3, <1>4, RowsChange DEF TypeInv
<1> QED BY <1>5, <1>6, <1>7

LEMMA PutFileStep == ASSUME IInv, NEW o \in Orgs, PutFile(o) PROVE IInv'
<1> USE DEF IInv
<1>1. o \in 1..founded /\ files' = files \cup {o} BY DEF PutFile
<1>2. UNCHANGED <<invitations, invited, organizations, founded, cleared, requests>> BY DEF PutFile
<1>3. Kept' = Kept BY <1>2 DEF Kept
<1>4. TypeInv' BY <1>1, <1>2, <1>3 DEF TypeInv
<1>5. Asked'
  <2> SUFFICES ASSUME NEW d \in Clients, NEW id, id = requests[d].id
               PROVE  /\ requests[d].kind = "record" => OutOfUse(id)'
                      /\ requests[d].kind = "purge" => Gone(id)'
    BY <1>2 DEF Asked
  <2> QED BY <1>2, <1>3 DEF Asked, OutOfUse, Gone, InUse
<1>6. Linked' /\ OneRecord' /\ FilesGoLast' BY <1>2, <1>3, RowsChange DEF TypeInv
<1> QED BY <1>4, <1>5, <1>6

\* Every link to the organization goes with it, and it is what the request will purge.
LEMMA DeleteOrganizationStep == ASSUME IInv, NEW c \in Clients, NEW o \in Orgs, DeleteOrganization(c, o) PROVE IInv'
<1> USE DEF IInv
<1> DEFINE r == [kind |-> "purge", id |-> o, email |-> {}, revokes |-> {}]
<1>1. /\ o \in DOMAIN organizations /\ UNCHANGED <<invited, founded, files, cleared>>
      /\ organizations' = [p \in DOMAIN organizations \ {o} |-> organizations[p]]
      /\ invitations' = Unlinked(o) /\ requests' = [requests EXCEPT ![c] = r]
  BY DEF DeleteOrganization, Begins, Restrict, LeftBy
<1>2. o \in 1..founded /\ o \in Nat /\ o # NoOrg BY <1>1 DEF TypeInv, NoOrg
<1>3. r \in Request /\ Addressed(r) /\ r.kind = "purge" /\ r.id = o BY <1>2 DEF Request, Kinds, Addressed
<1> HIDE DEF r
<1>4. /\ requests' \in [Clients -> Request] /\ requests'[c] = r
      /\ \A d \in Clients \ {c} : requests'[d] = requests[d]
      /\ \A d \in Clients : Addressed(requests'[d])
  BY <1>1, <1>3, RequestChanges
<1>5. /\ DOMAIN organizations' = DOMAIN organizations \ {o}
      /\ organizations' \in [DOMAIN organizations' -> Emails]
  BY <1>1 DEF TypeInv
<1>6. /\ Kept' = Kept
      /\ \A i \in Kept : IF invitations[i].org = o THEN invitations'[i] = [invitations[i] EXCEPT !.org = NoOrg]
                                                   ELSE invitations'[i] = invitations[i]
  BY <1>1 DEF Unlinked, Kept
<1>7. \A i \in Kept : /\ invitations'[i] \in Row /\ invitations'[i].accepted = invitations[i].accepted
                      /\ invitations'[i].revoked = invitations[i].revoked
                      /\ invitations'[i].expired = invitations[i].expired
                      /\ invitations'[i].org = IF invitations[i].org = o THEN NoOrg ELSE invitations[i].org
  BY <1>6 DEF TypeInv, Row
<1>8. TypeInv'
  <2>1. invitations' \in [Kept' -> Row] BY <1>1, <1>6, <1>7 DEF Unlinked
  <2> QED BY <1>1, <1>4, <1>5, <1>6, <2>1 DEF TypeInv
<1>9. Asked'
  <2> SUFFICES ASSUME NEW d \in Clients, NEW id, id = requests'[d].id
               PROVE  /\ requests'[d].kind = "record" => OutOfUse(id)'
                      /\ requests'[d].kind = "purge" => Gone(id)'
    BY DEF Asked
  <2>1. CASE d = c BY <1>1, <1>2, <1>3, <1>4, <1>5, <2>1 DEF Gone
  <2>2. CASE d # c
    <3>1. \A i \in Kept : InUse(invitations'[i]) => InUse(invitations[i])
      BY <1>7, PendingIs DEF TypeInv
    <3>2. OutOfUse(id) => OutOfUse(id)' BY <1>1, <1>6, <3>1 DEF OutOfUse
    <3>3. Gone(id) => Gone(id)' BY <1>1, <1>5 DEF Gone
    <3> QED BY <1>4, <2>2, <3>2, <3>3 DEF Asked
  <2> QED BY <2>1, <2>2
<1>10. Linked' BY <1>5, <1>6, <1>7 DEF Linked
<1>11. OneRecord'
  <2> SUFFICES ASSUME NEW p \in DOMAIN organizations \ {o} PROVE RecordsOf(p)' = RecordsOf(p)
    BY <1>5, <1>6 DEF OneRecord
  <2> QED BY <1>2, <1>6, <1>7 DEF RecordsOf, TypeInv, NoOrg
<1>12. FilesGoLast' BY <1>1, <1>5 DEF FilesGoLast
<1> QED BY <1>8, <1>9, <1>10, <1>11, <1>12

LEMMA PurgeFilesStep == ASSUME IInv, NEW c \in Clients, PurgeFiles(c) PROVE IInv'
<1> USE DEF IInv
<1> PICK o : o = requests[c].id OBVIOUS
<1>1. /\ requests[c].kind = "purge" /\ cleared' = cleared \cup {o} /\ files' \in Purged(o) /\ Ends(c)
      /\ UNCHANGED <<invitations, invited, organizations, founded>>
  BY DEF PurgeFiles
<1>2. Gone(o) BY <1>1 DEF Asked
<1>3. /\ requests' \in [Clients -> Request] /\ requests'[c].kind = "none"
      /\ \A d \in Clients \ {c} : requests'[d] = requests[d]
      /\ \A d \in Clients : Addressed(requests'[d])
  BY <1>1, Ended
<1>4. Kept' = Kept BY <1>1 DEF Kept
<1>5. files' \subseteq files BY <1>1 DEF Purged
<1>6. TypeInv' BY <1>1, <1>2, <1>3, <1>4, <1>5 DEF TypeInv, Gone
<1>7. Asked' BY <1>1, <1>3, <1>4, AskedStays DEF TypeInv
<1>8. Linked' /\ OneRecord' BY <1>1, <1>4 DEF Linked, OneRecord, RecordsOf
<1>9. FilesGoLast' BY <1>1, <1>2 DEF FilesGoLast, Gone
<1> QED BY <1>6, <1>7, <1>8, <1>9

LEMMA AbortStep == ASSUME IInv, NEW c \in Clients, Abort(c) PROVE IInv'
<1> USE DEF IInv
<1>1. Ends(c) /\ UNCHANGED <<invitations, invited, organizations, founded, files, cleared>> BY DEF Abort
<1>2. /\ requests' \in [Clients -> Request] /\ requests'[c].kind = "none"
      /\ \A d \in Clients \ {c} : requests'[d] = requests[d]
      /\ \A d \in Clients : Addressed(requests'[d])
  BY <1>1, Ended
<1>3. Kept' = Kept BY <1>1 DEF Kept
<1>4. TypeInv' BY <1>1, <1>2, <1>3 DEF TypeInv
<1>5. Asked' BY <1>1, <1>2, <1>3, AskedStays DEF TypeInv
<1>6. Linked' /\ OneRecord' /\ FilesGoLast' BY <1>1, <1>3, RowsChange DEF TypeInv
<1> QED BY <1>4, <1>5, <1>6

LEMMA RecordsInit == Init /\ Supposed => IInv
<1> SUFFICES ASSUME Init, Supposed PROVE IInv OBVIOUS
<1>1. /\ Kept = {} /\ DOMAIN organizations = {} /\ invited = 0 /\ founded = 0 /\ files = {} /\ cleared = {}
      /\ invitations \in [Kept -> Row] /\ organizations \in [DOMAIN organizations -> Emails]
  BY DEF Init, Kept
<1>2. /\ requests \in [Clients -> Request]
      /\ \A c \in Clients : Addressed(requests[c]) /\ requests[c].kind = "none"
  BY NoRequestType DEF Init
<1>3. TypeInv BY <1>1, <1>2 DEF TypeInv, Supposed
<1> QED BY <1>1, <1>2, <1>3 DEF IInv, Asked, Linked, OneRecord, FilesGoLast

LEMMA RecordsStep == IInv /\ Supposed /\ [Next]_vars => IInv'
<1> SUFFICES ASSUME IInv, Supposed, [Next]_vars PROVE IInv' OBVIOUS
<1>1. CASE UNCHANGED vars
  BY <1>1 DEF vars, IInv, TypeInv, Asked, OutOfUse, Gone, Linked, OneRecord, RecordsOf, FilesGoLast, Kept, InUse
<1> QED
  BY <1>1, InviteOwnerStep, CreateInvitationStep, RevokeStep, RevokeInvitationStep, DeleteRecordStep,
     DeleteInvitationStep, ResolveStep, AcceptInvitationStep, ExpireStep, PutFileStep, DeleteOrganizationStep,
     PurgeFilesStep, AbortStep
  DEF Next

LEMMA CardinalityIsOne == ASSUME IInv PROVE OrganizationHasRecord
<1> SUFFICES ASSUME NEW o \in DOMAIN organizations PROVE Cardinality(RecordsOf(o)) = 1
  BY DEF OrganizationHasRecord, RecordsOf
<1> PICK i \in Kept : RecordsOf(o) = {i} BY DEF IInv, OneRecord
<1> QED BY FS_Singleton

LEMMA RecordsFollow == IInv => TypeOK /\ OrganizationHasRecord /\ FilesGoLast
BY CardinalityIsOne DEF IInv, TypeInv, TypeOK

(***************************************************************************)
(* While an organization exists exactly one invitation says how it came to *)
(* be, and its files are not touched, whoever accepts, revokes, deletes    *)
(* records and deletes organizations at once                               *)
(* (staff/use_cases/owner_invitations.py, organizations.py).               *)
(***************************************************************************)
THEOREM OrganizationsKeepRecords == ASSUME Supposed PROVE Spec => [](TypeOK /\ OrganizationHasRecord /\ FilesGoLast)
<1>1. Init => IInv BY RecordsInit
<1>2. IInv /\ [Next]_vars => IInv' BY RecordsStep
<1>3. IInv => TypeOK /\ OrganizationHasRecord /\ FilesGoLast BY RecordsFollow
<1> QED BY <1>1, <1>2, <1>3, PTL DEF Spec
=============================================================================
