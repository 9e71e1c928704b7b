---------------------------- MODULE SessionsAccounts ----------------------------
(***************************************************************************)
(* What Sessions promises of an account that is deleted and of a session   *)
(* that is signed out, for any number of users, requests and sessions.     *)
(*                                                                         *)
(* Whoever deletes an account has every session of the user locked, so     *)
(* that no other request can be let in with one of them and put the user   *)
(* back into the cache: AccountInv says what that takes.                   *)
(***************************************************************************)
EXTENDS Sessions, TLAPS

Phases == {"none", "found", "in", "leaving", "left", "handing"}
Request == [phase : Phases, id : Nat, who : Users \cup Staff \cup {"none"},
            role : Roles \cup Users \cup {"none"}, on : SUBSET Nat]

RowsType ==
    /\ roles \in [DOMAIN roles -> Roles]
    /\ DOMAIN roles \subseteq Users
    /\ cached \in [Users -> Roles \cup {"none"}]
    /\ opened \in Nat
    /\ Open \subseteq 1..opened
    /\ sessions \in [Open -> Row]
    /\ \A i \in Open : sessions[i].who \in Staff \/ Exists(sessions[i].who)
RequestsType ==
    /\ requests \in [Clients -> Request]
    /\ \A c \in Clients : requests[c].phase # "none" => requests[c].who \in Users \cup Staff

TypeInv == RowsType /\ RequestsType

-----------------------------------------------------------------------------
At(c, phases) == requests[c].phase \in phases
Leaving == {"leaving", "left"}
\* A request of a user, who may be deleted.
OfAUser(c) == requests[c].who \notin Staff

\* Who is cached exists.
CachedExist == \A u \in Users \ Staff : cached[u] # "none" => Exists(u)
\* A request's session is there as long as its user is.
SessionsHeld ==
    \A c \in Clients : ~At(c, {"none"}) /\ OfAUser(c) /\ Exists(requests[c].who) =>
        requests[c].id \in OfUser(requests[c].who)
\* Who leaves has locked every session of the user, ...
LeaverLocksAll ==
    \A c \in Clients : At(c, Leaving) /\ OfAUser(c) => OfUser(requests[c].who) \subseteq requests[c].on
\* ... is the only one let in as that user, ...
LeaverAlone ==
    \A c, d \in Clients : At(c, Leaving) /\ OfAUser(c) /\ c # d /\ requests[d].who = requests[c].who =>
        At(d, {"none", "found"})
\* ... and once evicted the user stays out of the cache.
StaysEvicted ==
    \A c \in Clients : At(c, {"left"}) /\ OfAUser(c) => cached[requests[c].who] = "none"

AccountInv ==
    organization => CachedExist /\ SessionsHeld /\ LeaverLocksAll /\ LeaverAlone /\ StaysEvicted

IInv == TypeInv /\ AccountInv /\ NobodyActsDeleted

-----------------------------------------------------------------------------
LEMMA WrittenKeeps ==
    ASSUME TypeInv, NEW c \in Clients, NEW out
    PROVE  /\ Written(c, out) \in [Open -> Row]
           /\ \A i \in Open : /\ Written(c, out)[i].who = sessions[i].who
                              /\ sessions[i].revoked => Written(c, out)[i].revoked
<1> SUFFICES ASSUME NEW i \in Open
             PROVE  /\ Written(c, out)[i] \in Row
                    /\ Written(c, out)[i].who = sessions[i].who
                    /\ sessions[i].revoked => Written(c, out)[i].revoked
  BY DEF Written
<1>1. sessions[i] \in Row BY DEF TypeInv, RowsType
<1>2. \A r \in Row : /\ Renewed(r) \in Row /\ Renewed(r).who = r.who /\ Renewed(r).revoked = r.revoked
                     /\ Revoked(r) \in Row /\ Revoked(r).who = r.who /\ Revoked(r).revoked
                     /\ Touched(r) = r
  BY DEF Row, Renewed, Revoked, Touched
<1> QED BY <1>1, <1>2 DEF Written

\* A request's end, and a request that goes on to another phase, is one of the requests.
LEMMA RequestChanges ==
    ASSUME TypeInv, NEW c \in Clients, NEW r \in Request, requests' = [requests EXCEPT ![c] = r],
           r.phase # "none" => r.who \in Users \cup Staff
    PROVE  /\ RequestsType'
           /\ requests'[c] = r
           /\ \A d \in Clients \ {c} : requests'[d] = requests[d]
BY DEF TypeInv, RequestsType

LEMMA NoRequestType == NoRequest \in Request /\ NoRequest.phase = "none"
BY DEF NoRequest, Request, Phases

LEMMA TypeInit == Init => TypeInv
<1> SUFFICES ASSUME Init PROVE TypeInv OBVIOUS
<1>1. requests \in [Clients -> Request] /\ \A c \in Clients : requests[c].phase = "none"
  BY NoRequestType DEF Init
<1>2. Open = {} BY DEF Init, Open
<1>3. DOMAIN roles = Users /\ roles \in [Users -> Roles] BY DEF Init, Roles
<1>4. sessions \in [Open -> Row] BY <1>2 DEF Init, Open
<1> QED BY <1>1, <1>2, <1>3, <1>4 DEF Init, TypeInv, RowsType, RequestsType, Exists

LEMMA CreateSessionType ==
    ASSUME TypeInv, NEW who \in Users \cup Staff, NEW client \in SessionClients,
           who \in Staff \/ Exists(who), CreateSession(who, client), UNCHANGED <<roles, cached>>
    PROVE  RowsType'
<1>1. opened' \in Nat /\ Open' = Open \cup {opened + 1} /\ Open' \subseteq 1..opened'
  BY DEF TypeInv, RowsType, CreateSession, Open
<1>2. \A i \in Open' : sessions'[i] = IF i \in Open THEN sessions[i] ELSE NewRow(who, client)
  BY <1>1 DEF CreateSession, Open
<1>3. NewRow(who, client) \in Row /\ NewRow(who, client).who = who BY DEF NewRow, Row
<1>4. sessions' \in [Open' -> Row]
  <2>1. sessions' = [i \in Open' |-> IF i \in Open THEN sessions[i] ELSE NewRow(who, client)]
    BY <1>1 DEF CreateSession
  <2> QED BY <1>3, <2>1 DEF TypeInv, RowsType
<1>5. (\A i \in Open : sessions[i].who \in Staff \/ Exists(sessions[i].who))'
  BY <1>2, <1>3 DEF TypeInv, RowsType, Exists
<1> QED BY <1>1, <1>4, <1>5 DEF TypeInv, RowsType, Exists

\* Sessions that keep whose they are, and users who stay.
LEMMA SameSessionsType ==
    ASSUME TypeInv, sessions' \in [Open -> Row], \A i \in Open : sessions'[i].who = sessions[i].who,
           roles' \in [DOMAIN roles -> Roles], cached' \in [Users -> Roles \cup {"none"}], opened' = opened
    PROVE  RowsType'
<1>1. Open' = Open /\ DOMAIN roles' = DOMAIN roles BY DEF Open
<1> QED BY <1>1 DEF TypeInv, RowsType, Exists

LEMMA SameRowsType ==
    ASSUME TypeInv, UNCHANGED <<roles, sessions, opened>>, cached' \in [Users -> Roles \cup {"none"}]
    PROVE  RowsType'
BY DEF TypeInv, RowsType, Exists, Open

-----------------------------------------------------------------------------
LEMMA GetUserType ==
    ASSUME TypeInv, NEW u \in Users
    PROVE  GetUser(u) \in Roles \cup {"none"}
BY DEF TypeInv, RowsType, GetUser, Exists

LEMMA RequestType ==
    ASSUME TypeInv, NEW c \in Clients
    PROVE  /\ requests[c] \in Request
           /\ requests[c].phase # "none" => requests[c].who \in Users \cup Staff
BY DEF TypeInv, RequestsType

LEMMA EndsType ==
    ASSUME TypeInv, NEW c \in Clients, Ends(c)
    PROVE  /\ RequestsType'
           /\ requests'[c] = NoRequest
           /\ \A d \in Clients \ {c} : requests'[d] = requests[d]
BY NoRequestType, RequestChanges DEF Ends

LEMMA TypeStep == TypeInv /\ [Next]_vars => TypeInv'
<1> SUFFICES ASSUME TypeInv, [Next]_vars PROVE TypeInv' OBVIOUS
<1> USE DEF TypeInv
<1>c. cached \in [Users -> Roles \cup {"none"}] BY DEF RowsType
<1>r. roles \in [DOMAIN roles -> Roles] BY DEF RowsType
<1>s. sessions \in [Open -> Row] BY DEF RowsType
<1>1. ASSUME NEW c \in Clients, LetIn(c) PROVE TypeInv'
  <2> DEFINE w == requests[c].who
  <2>1. requests[c] \in Request /\ w \in Users \cup Staff BY <1>1, RequestType DEF LetIn
  <2>2. CASE w \in Staff
    <3> DEFINE in == [requests[c] EXCEPT !.phase = "in"]
    <3>1. in \in Request /\ in.who \in Users \cup Staff BY <2>1 DEF Request, Phases
    <3>2. requests' = [requests EXCEPT ![c] = in] /\ cached' = cached BY <1>1, <2>2 DEF LetIn
    <3> HIDE DEF in
    <3> QED BY <1>1, <1>c, <3>1, <3>2, RequestChanges, SameRowsType DEF LetIn
  <2>3. CASE w \notin Staff /\ GetUser(w) = "none"
    BY <1>1, <1>c, <2>3, EndsType, SameRowsType DEF LetIn
  <2>4. CASE w \notin Staff /\ GetUser(w) # "none"
    <3> DEFINE in == [requests[c] EXCEPT !.phase = "in", !.role = GetUser(w)]
    <3>1. GetUser(w) \in Roles BY <2>1, <2>4, GetUserType
    <3>2. in \in Request /\ in.who \in Users \cup Staff BY <2>1, <3>1 DEF Request, Phases
    <3>3. requests' = [requests EXCEPT ![c] = in] BY <1>1, <2>4 DEF LetIn
    <3>4. cached' \in [Users -> Roles \cup {"none"}] BY <1>1, <1>c, <2>4, <3>1 DEF LetIn
    <3> HIDE DEF in
    <3> QED BY <1>1, <3>2, <3>3, <3>4, RequestChanges, SameRowsType DEF LetIn
  <2> QED BY <2>2, <2>3, <2>4
<1>2. ASSUME NEW c \in Clients, Commit(c) PROVE TypeInv'
  BY <1>2, <1>c, <1>r, WrittenKeeps, SameSessionsType, EndsType DEF Commit
<1>3. ASSUME NEW c \in Clients, RevokeUserSessions(c) PROVE TypeInv'
  <2> DEFINE r == [requests[c] EXCEPT !.phase = "leaving", !.on = OfUser(requests[c].who)]
  <2>1. requests[c] \in Request /\ requests[c].who \in Users \cup Staff
    BY <1>3, RequestType DEF RevokeUserSessions
  <2>2. OfUser(requests[c].who) \in SUBSET Nat BY DEF OfUser, RowsType
  <2>3. r \in Request /\ r.who \in Users \cup Staff BY <2>1, <2>2 DEF Request, Phases
  <2>4. requests' = [requests EXCEPT ![c] = r] BY <1>3 DEF RevokeUserSessions
  <2> HIDE DEF r
  <2> QED BY <1>3, <1>c, <2>3, <2>4, RequestChanges, SameRowsType DEF RevokeUserSessions
<1>4. ASSUME NEW c \in Clients, EvictUser(c) PROVE TypeInv'
  <2> DEFINE r == [requests[c] EXCEPT !.phase = "left"]
  <2>1. requests[c] \in Request /\ requests[c].who \in Users \cup Staff
    BY <1>4, RequestType DEF EvictUser
  <2>2. r \in Request /\ r.who \in Users \cup Staff BY <2>1 DEF Request, Phases
  <2>3. requests' = [requests EXCEPT ![c] = r] BY <1>4 DEF EvictUser
  <2>4. cached' \in [Users -> Roles \cup {"none"}] BY <1>4, <1>c DEF EvictUser, Evicted
  <2> HIDE DEF r
  <2> QED BY <1>4, <2>2, <2>3, <2>4, RequestChanges, SameRowsType DEF EvictUser
<1>5. ASSUME NEW c \in Clients, DeleteUser(c) PROVE TypeInv'
  <2> DEFINE u == requests[c].who
  <2>1. roles' = [x \in DOMAIN roles \ {u} |-> roles[x]] BY <1>5 DEF DeleteUser, Restrict
  <2>2. sessions' = [i \in Open \ OfUser(u) |-> sessions[i]] BY <1>5 DEF DeleteUser, Restrict
  <2>3. Open' = Open \ OfUser(u) BY <2>2 DEF Open
  <2>4. (\A i \in Open : sessions[i].who \in Staff \/ Exists(sessions[i].who))'
    BY <2>1, <2>2, <2>3 DEF RowsType, Exists, OfUser
  <2>5. roles' \in [DOMAIN roles' -> Roles] /\ DOMAIN roles' \subseteq Users BY <2>1 DEF RowsType
  <2>6. sessions' \in [Open' -> Row] BY <1>s, <2>2, <2>3
  <2>7. RowsType' BY <1>5, <1>c, <2>3, <2>4, <2>5, <2>6 DEF RowsType, DeleteUser
  <2> QED BY <1>5, <2>7, EndsType DEF DeleteUser
<1>6. ASSUME NEW c \in Clients, UpdateRoles(c) PROVE TypeInv'
  <2>1. roles' \in [DOMAIN roles -> Roles] BY <1>6, <1>r DEF UpdateRoles, Roles
  <2> QED BY <1>6, <1>c, <2>1, WrittenKeeps, SameSessionsType, EndsType DEF UpdateRoles
<1>7. ASSUME NEW c \in Clients, Abort(c) PROVE TypeInv'
  BY <1>7, <1>c, EndsType, SameRowsType DEF Abort
<1>8. ASSUME NEW c \in Clients, NEW i \in Open, FindSession(c, i) PROVE TypeInv'
  <2> DEFINE r == [NoRequest EXCEPT !.phase = "found", !.id = i, !.who = sessions[i].who]
  <2>1. sessions[i].who \in Users \cup Staff /\ i \in Nat BY DEF RowsType, Row
  <2>2. r \in Request /\ r.who \in Users \cup Staff BY <2>1 DEF NoRequest, Request, Phases
  <2>3. requests' = [requests EXCEPT ![c] = r] BY <1>8 DEF FindSession
  <2> HIDE DEF r
  <2> QED BY <1>8, <1>c, <2>2, <2>3, RequestChanges, SameRowsType DEF FindSession
<1>9. ASSUME NEW c \in Clients, NEW i \in Open, RevokeSession(c, i) PROVE TypeInv'
  BY <1>9, <1>c, <1>r, WrittenKeeps, SameSessionsType, EndsType DEF RevokeSession
<1>10. ASSUME NEW c \in Clients, NEW u \in Users, TransferOwnership(c, u) PROVE TypeInv'
  <2> DEFINE r == [requests[c] EXCEPT !.phase = "handing", !.role = u]
  <2>1. requests[c] \in Request /\ requests[c].who \in Users \cup Staff
    BY <1>10, RequestType DEF TransferOwnership
  <2>2. r \in Request /\ r.who \in Users \cup Staff BY <2>1 DEF Request, Phases
  <2>3. requests' = [requests EXCEPT ![c] = r] BY <1>10 DEF TransferOwnership
  <2>4. cached' \in [Users -> Roles \cup {"none"}] BY <1>10, <1>c DEF TransferOwnership
  <2> HIDE DEF r
  <2> QED BY <1>10, <2>2, <2>3, <2>4, RequestChanges, SameRowsType DEF TransferOwnership
<1>11. ASSUME NEW u \in Users, LoginUser(u) \/ LoginDesktop(u) PROVE TypeInv'
  BY <1>11, CreateSessionType DEF LoginUser, LoginDesktop, Authenticates, SessionClients, RequestsType
<1>12. ASSUME NEW u \in Staff, LoginStaff(u) PROVE TypeInv'
  BY <1>12, CreateSessionType DEF LoginStaff, SessionClients, RequestsType
<1>13. ASSUME NEW i \in Open, LogoutUser(i) \/ LogoutStaff(i) \/ Expire(i) PROVE TypeInv'
  <2>1. sessions[i] \in Row BY <1>s
  <2>2. \/ sessions' = [sessions EXCEPT ![i] = [sessions[i] EXCEPT !.revoked = TRUE]]
        \/ sessions' = [sessions EXCEPT ![i] = [sessions[i] EXCEPT !.expired = TRUE]]
    BY <1>13 DEF LogoutUser, LogoutStaff, RevokeByToken, Revoked, Expire
  <2>3. /\ [sessions[i] EXCEPT !.revoked = TRUE] \in Row /\ [sessions[i] EXCEPT !.revoked = TRUE].who = sessions[i].who
        /\ [sessions[i] EXCEPT !.expired = TRUE] \in Row /\ [sessions[i] EXCEPT !.expired = TRUE].who = sessions[i].who
    BY <2>1 DEF Row
  <2>4. sessions' \in [Open -> Row] /\ \A j \in Open : sessions'[j].who = sessions[j].who
    BY <1>s, <2>2, <2>3
  <2>5. UNCHANGED <<roles, cached, opened, requests>>
    BY <1>13 DEF LogoutUser, LogoutStaff, RevokeByToken, Expire
  <2> QED BY <1>c, <1>r, <2>4, <2>5, SameSessionsType DEF RequestsType
<1>14. ASSUME NEW u \in Users, Lapse(u) PROVE TypeInv'
  <2>1. cached' \in [Users -> Roles \cup {"none"}] BY <1>14, <1>c DEF Lapse
  <2> QED BY <1>14, <2>1, SameRowsType DEF Lapse, RequestsType
<1>15. CASE DeleteOrganization
  <2>1. roles' = [u \in {} |-> roles[u]] BY <1>15 DEF DeleteOrganization, Restrict
  <2>2. sessions' = [i \in {j \in Open : sessions[j].who \in Staff} |-> sessions[i]]
    BY <1>15 DEF DeleteOrganization, Restrict
  <2>3. Open' = {j \in Open : sessions[j].who \in Staff} BY <2>2 DEF Open
  <2>4. DOMAIN roles' = {} /\ roles' \in [DOMAIN roles' -> Roles] BY <2>1
  <2>5. sessions' \in [Open' -> Row] BY <1>s, <2>2, <2>3
  <2>6. (\A i \in Open : sessions[i].who \in Staff)' BY <2>2, <2>3
  <2>7. opened' \in Nat /\ Open' \subseteq 1..opened' BY <1>15, <2>3 DEF DeleteOrganization, RowsType
  <2>8. RowsType' BY <1>15, <1>c, <2>4, <2>5, <2>6, <2>7 DEF DeleteOrganization, RowsType
  <2> QED BY <1>15, <2>8 DEF DeleteOrganization, RequestsType
<1>16. CASE UNCHANGED vars BY <1>16, <1>c, SameRowsType DEF vars, RequestsType
<1> QED
  BY <1>1, <1>2, <1>3, <1>4, <1>5, <1>6, <1>7, <1>8, <1>9, <1>10, <1>11, <1>12, <1>13, <1>14, <1>15, <1>16 DEF Next

-----------------------------------------------------------------------------
LEMMA StaysOutStep == TypeInv /\ [Next]_vars => [StaysOut]_sessions
<1> SUFFICES ASSUME TypeInv, Next, sessions' # sessions PROVE StaysOut
  BY DEF vars
<1>1. ASSUME NEW c \in Clients, Commit(c) \/ UpdateRoles(c) PROVE StaysOut
  BY <1>1, WrittenKeeps DEF Commit, UpdateRoles, StaysOut
<1>2. ASSUME NEW c \in Clients, NEW i \in Open, RevokeSession(c, i) PROVE StaysOut
  BY <1>2, WrittenKeeps DEF RevokeSession, StaysOut
<1>3. ASSUME NEW c \in Clients, DeleteUser(c) PROVE StaysOut
  BY <1>3 DEF DeleteUser, Restrict, StaysOut
<1>4. CASE DeleteOrganization
  BY <1>4 DEF DeleteOrganization, Restrict, StaysOut
<1>5. ASSUME NEW who, NEW client, CreateSession(who, client) PROVE StaysOut
  BY <1>5 DEF CreateSession, StaysOut
<1>6. ASSUME NEW i \in Open, LogoutUser(i) \/ LogoutStaff(i) \/ Expire(i) PROVE StaysOut
  <2>1. sessions[i] \in Row /\ sessions \in [Open -> Row] BY DEF TypeInv, RowsType
  <2>2. \/ sessions' = [sessions EXCEPT ![i] = [sessions[i] EXCEPT !.revoked = TRUE]]
        \/ sessions' = [sessions EXCEPT ![i] = [sessions[i] EXCEPT !.expired = TRUE]]
    BY <1>6 DEF LogoutUser, LogoutStaff, RevokeByToken, Revoked, Expire
  <2>3. /\ [sessions[i] EXCEPT !.revoked = TRUE].revoked
        /\ [sessions[i] EXCEPT !.expired = TRUE].revoked = sessions[i].revoked
    BY <2>1 DEF Row
  <2> QED BY <2>1, <2>2, <2>3 DEF StaysOut
<1> QED
  BY <1>1, <1>2, <1>3, <1>4, <1>5, <1>6
  DEF Next, LetIn, RevokeUserSessions, EvictUser, Abort, FindSession, TransferOwnership, LoginUser,
      LoginDesktop, LoginStaff, Lapse

\* What the invariant is about: whose each session is, who exists and is cached, the requests.
LEMMA SameOfUser ==
    ASSUME TypeInv, sessions' \in [Open -> Row], \A i \in Open : sessions'[i].who = sessions[i].who
    PROVE  \A u : OfUser(u)' = OfUser(u)
BY DEF OfUser, Open

\* Nobody's sessions change but those of a new session, the users stay, and the cache only
\* loses users: the invariant holds if it does of the one request that goes on.
LEMMA QuietStep ==
    ASSUME IInv, organization' = organization, DOMAIN roles' = DOMAIN roles,
           \A u \in Users : cached'[u] \in {cached[u], "none"},
           \A u : OfUser(u)' = OfUser(u),
           \A c \in Clients :
              \/ requests'[c].phase = "none"
              \/ requests'[c] = requests[c]
              \/ /\ requests[c].phase \notin {"none", "found"}
                 /\ requests'[c].phase \notin {"none", "found", "leaving", "left"}
                 /\ requests'[c].who = requests[c].who
                 /\ requests'[c].id = requests[c].id,
           TypeInv'
    PROVE  IInv'
<1> USE DEF IInv
<1>1. NobodyActsDeleted' BY DEF NobodyActsDeleted, Exists
<1>2. ASSUME organization PROVE (CachedExist /\ SessionsHeld /\ LeaverLocksAll /\ LeaverAlone /\ StaysEvicted)'
  <2> USE <1>2 DEF AccountInv, Exists, At, OfAUser, Leaving
  <2>0. \A c \in Clients : requests'[c].phase # "none" =>
           requests'[c].who = requests[c].who /\ requests'[c].id = requests[c].id /\ requests[c].phase # "none"
    OBVIOUS
  <2>1. CachedExist' BY DEF CachedExist
  <2>2. SessionsHeld' BY <2>0 DEF SessionsHeld
  <2>3. LeaverLocksAll' BY DEF LeaverLocksAll
  <2>4. LeaverAlone' BY DEF LeaverAlone
  <2>5. StaysEvicted'
    <3>1. \A c \in Clients : requests[c].phase # "none" => requests[c].who \in Users \cup Staff BY RequestType
    <3> QED BY <3>1 DEF StaysEvicted
  <2> QED BY <2>1, <2>2, <2>3, <2>4, <2>5
<1> QED BY <1>1, <1>2 DEF AccountInv

\* A request that ends.
LEMMA EndsQuietly ==
    ASSUME IInv, TypeInv', NEW c \in Clients, Ends(c), organization' = organization, cached' = cached,
           DOMAIN roles' = DOMAIN roles, \A u : OfUser(u)' = OfUser(u)
    PROVE  IInv'
<1>1. requests'[c].phase = "none" /\ \A d \in Clients \ {c} : requests'[d] = requests[d]
  BY EndsType, NoRequestType DEF IInv
<1> QED BY <1>1, QuietStep

-----------------------------------------------------------------------------
\* Nobody is let in as a user who is being deleted: the leaver has locked the session.
LEMMA LetInStep ==
    ASSUME IInv, TypeInv', NEW c \in Clients, LetIn(c) PROVE IInv'
<1> USE DEF IInv
<1> DEFINE w == requests[c].who
<1>1. requests[c] \in Request /\ w \in Users \cup Staff /\ requests[c].phase = "found"
  BY RequestType DEF LetIn
<1>2. UNCHANGED <<roles, sessions, opened, organization>> /\ \A u : OfUser(u)' = OfUser(u)
  BY DEF LetIn, OfUser, Open
<1>3. CASE w \notin Staff /\ GetUser(w) = "none"
  BY <1>2, <1>3, EndsQuietly DEF LetIn
<1>4. CASE w \in Staff
  <2>1. cached' = cached /\ requests' = [requests EXCEPT ![c] = [requests[c] EXCEPT !.phase = "in"]]
    BY <1>4 DEF LetIn
  <2>2. requests'[c] = [requests[c] EXCEPT !.phase = "in"] /\ \A d \in Clients \ {c} : requests'[d] = requests[d]
    BY <2>1 DEF TypeInv, RequestsType
  <2>3. requests'[c].who = w BY <1>1, <2>2 DEF Request
  <2>4. requests'[c].phase = "in" /\ requests'[c].id = requests[c].id BY <1>1, <2>2 DEF Request
  <2>5. NobodyActsDeleted' BY <1>2, <1>4, <2>2, <2>3 DEF NobodyActsDeleted, Exists
  <2>6. ASSUME organization PROVE (CachedExist /\ SessionsHeld /\ LeaverLocksAll /\ LeaverAlone /\ StaysEvicted)'
    <3> USE <1>2, <1>4, <2>1, <2>2, <2>3, <2>4, <2>6 DEF AccountInv, Exists, At, OfAUser, Leaving
    <3>1. CachedExist' BY DEF CachedExist
    <3>2. SessionsHeld' BY DEF SessionsHeld
    <3>3. LeaverLocksAll' BY DEF LeaverLocksAll
    <3>4. LeaverAlone' BY DEF LeaverAlone
    <3>5. StaysEvicted' BY DEF StaysEvicted
    <3> QED BY <3>1, <3>2, <3>3, <3>4, <3>5
  <2> QED BY <1>2, <2>5, <2>6 DEF AccountInv
<1>5. CASE w \notin Staff /\ GetUser(w) # "none"
  <2> DEFINE in == [requests[c] EXCEPT !.phase = "in", !.role = GetUser(w)]
  <2>1. cached' = [cached EXCEPT ![w] = GetUser(w)] /\ requests' = [requests EXCEPT ![c] = in]
    BY <1>5 DEF LetIn
  <2>2. requests'[c] = in /\ \A d \in Clients \ {c} : requests'[d] = requests[d]
    BY <2>1 DEF TypeInv, RequestsType
  <2>3. in.who = w /\ in.phase = "in" /\ in.id = requests[c].id BY <1>1 DEF Request
  <2> HIDE DEF in
  <2>4. w \in Users /\ \A u \in Users \ {w} : cached'[u] = cached[u]
    BY <1>1, <1>5, <2>1 DEF TypeInv, RowsType
  <2>5. organization => Exists(w) BY <1>5, <2>4 DEF GetUser, AccountInv, CachedExist
  <2>6. NobodyActsDeleted' BY <1>2, <2>2, <2>3, <2>5 DEF NobodyActsDeleted, Exists
  <2>7. ASSUME organization, NEW d \in Clients, d # c, At(d, Leaving), requests[d].who = w PROVE FALSE
    <3>1. requests[c].id \in OfUser(w) BY <1>1, <1>5, <2>5, <2>7 DEF AccountInv, SessionsHeld, At, OfAUser
    <3>2. OfUser(w) \subseteq requests[d].on BY <1>5, <2>7 DEF AccountInv, LeaverLocksAll, OfAUser
    <3>3. requests[c].id \in Locks(d) BY <2>7, <3>1, <3>2 DEF Locks, At, Leaving
    <3> QED BY <2>7, <3>3 DEF LetIn, Free
  <2>8. ASSUME organization PROVE (CachedExist /\ SessionsHeld /\ LeaverLocksAll /\ LeaverAlone /\ StaysEvicted)'
    <3> USE <1>2, <2>2, <2>3, <2>8 DEF AccountInv, Exists, At, OfAUser
    <3>1. CachedExist' BY <2>4, <2>5 DEF CachedExist
    <3>2. SessionsHeld' BY <1>1 DEF SessionsHeld
    <3>3. LeaverLocksAll' BY DEF LeaverLocksAll, Leaving
    <3>4. LeaverAlone' BY <2>7 DEF LeaverAlone, Leaving
    <3>5. StaysEvicted'
      <4>1. \A d \in Clients : requests[d].phase # "none" => requests[d].who \in Users \cup Staff BY RequestType
      <4> QED BY <2>4, <2>7, <4>1 DEF StaysEvicted, Leaving
    <3> QED BY <3>1, <3>2, <3>3, <3>4, <3>5
  <2> QED BY <1>2, <2>6, <2>8 DEF AccountInv
<1> QED BY <1>3, <1>4, <1>5

LEMMA FindSessionStep ==
    ASSUME IInv, TypeInv', NEW c \in Clients, NEW i \in Open, FindSession(c, i) PROVE IInv'
<1> USE DEF IInv
<1> DEFINE r == [NoRequest EXCEPT !.phase = "found", !.id = i, !.who = sessions[i].who]
<1>1. UNCHANGED <<roles, cached, sessions, opened, organization>> /\ \A u : OfUser(u)' = OfUser(u)
  BY DEF FindSession, OfUser, Open
<1>2. requests'[c] = r /\ \A d \in Clients \ {c} : requests'[d] = requests[d]
  BY DEF FindSession, TypeInv, RequestsType
<1>3. r.phase = "found" /\ r.id = i /\ r.who = sessions[i].who BY DEF NoRequest
<1> HIDE DEF r
<1>4. i \in OfUser(r.who) BY <1>3 DEF OfUser
<1>5. NobodyActsDeleted' BY <1>1, <1>2, <1>3 DEF NobodyActsDeleted, Exists
<1>6. ASSUME organization PROVE (CachedExist /\ SessionsHeld /\ LeaverLocksAll /\ LeaverAlone /\ StaysEvicted)'
  <2> USE <1>1, <1>2, <1>3, <1>4, <1>6 DEF AccountInv, Exists, At, OfAUser, Leaving
  <2>1. CachedExist' BY DEF CachedExist
  <2>2. SessionsHeld' BY DEF SessionsHeld
  <2>3. LeaverLocksAll' BY DEF LeaverLocksAll
  <2>4. LeaverAlone' BY DEF LeaverAlone
  <2>5. StaysEvicted' BY DEF StaysEvicted
  <2> QED BY <2>1, <2>2, <2>3, <2>4, <2>5
<1> QED BY <1>1, <1>5, <1>6 DEF AccountInv

-----------------------------------------------------------------------------
\* A session created is of a user who exists and is not being deleted, or of staff.
LEMMA LoginStep ==
    ASSUME IInv, TypeInv', NEW who \in Users \cup Staff, NEW client, CreateSession(who, client),
           who \in Staff \/ ~BeingDeleted(who), UNCHANGED <<roles, cached, organization, requests>>
    PROVE  IInv'
<1> USE DEF IInv
<1>1. opened + 1 \notin Open /\ Open' = Open \cup {opened + 1} BY DEF TypeInv, RowsType, CreateSession, Open
<1>2. \A i \in Open : sessions'[i] = sessions[i] BY <1>1 DEF CreateSession, Open
<1>3. sessions'[opened + 1].who = who BY <1>1 DEF CreateSession, Open, NewRow
<1>4. \A u : OfUser(u) \subseteq OfUser(u)' BY <1>1, <1>2 DEF OfUser
<1>5. \A u : u # who => OfUser(u)' = OfUser(u) BY <1>1, <1>2, <1>3 DEF OfUser
<1>6. NobodyActsDeleted' BY DEF NobodyActsDeleted, Exists
<1>7. ASSUME organization PROVE (CachedExist /\ SessionsHeld /\ LeaverLocksAll /\ LeaverAlone /\ StaysEvicted)'
  <2> USE <1>7 DEF AccountInv, Exists, At, OfAUser
  <2>1. CachedExist' BY DEF CachedExist
  <2>2. SessionsHeld' BY <1>4 DEF SessionsHeld
  <2>3. LeaverLocksAll' BY <1>5 DEF LeaverLocksAll, Leaving, BeingDeleted
  <2>4. LeaverAlone' BY DEF LeaverAlone
  <2>5. StaysEvicted' BY DEF StaysEvicted
  <2> QED BY <2>1, <2>2, <2>3, <2>4, <2>5
<1> QED BY <1>6, <1>7 DEF AccountInv

\* Whoever was let in as the user has a session of the user, and the leaver could lock it.
LEMMA RevokeUserSessionsStep ==
    ASSUME IInv, TypeInv', NEW c \in Clients, RevokeUserSessions(c) PROVE IInv'
<1> USE DEF IInv
<1> DEFINE u == requests[c].who
           r == [requests[c] EXCEPT !.phase = "leaving", !.on = OfUser(u)]
<1>1. requests[c] \in Request /\ requests[c].phase = "in" BY RequestType DEF RevokeUserSessions
<1>2. UNCHANGED <<roles, cached, sessions, opened, organization>> /\ \A v : OfUser(v)' = OfUser(v)
  BY DEF RevokeUserSessions, OfUser, Open
<1>3. requests'[c] = r /\ \A d \in Clients \ {c} : requests'[d] = requests[d]
  BY DEF RevokeUserSessions, TypeInv, RequestsType
<1>4. r.phase = "leaving" /\ r.id = requests[c].id /\ r.who = u /\ r.on = OfUser(u) BY <1>1 DEF Request
<1> HIDE DEF r
<1>5. NobodyActsDeleted' BY <1>1, <1>2, <1>3, <1>4 DEF NobodyActsDeleted, Exists
<1>6. ASSUME organization, u \notin Staff, NEW d \in Clients, d # c, requests[d].who = u
      PROVE  At(d, {"none", "found"})
  <2> SUFFICES ASSUME ~At(d, {"none", "found"}) PROVE FALSE OBVIOUS
  <2>1. Exists(u) BY <1>1, <1>6 DEF NobodyActsDeleted
  <2>2. requests[d].id \in OfUser(u) BY <1>6, <2>1 DEF AccountInv, SessionsHeld, At, OfAUser
  <2>3. requests[d].id \in Locks(d) BY DEF Locks, At
  <2> QED BY <1>6, <2>2, <2>3 DEF RevokeUserSessions, Free
<1>7. ASSUME organization PROVE (CachedExist /\ SessionsHeld /\ LeaverLocksAll /\ LeaverAlone /\ StaysEvicted)'
  <2> USE <1>1, <1>2, <1>3, <1>4, <1>7 DEF AccountInv, Exists, At, OfAUser
  <2>1. CachedExist' BY DEF CachedExist
  <2>2. SessionsHeld' BY DEF SessionsHeld
  <2>3. LeaverLocksAll' BY DEF LeaverLocksAll, Leaving
  <2>4. LeaverAlone'
    <3> SUFFICES ASSUME NEW a \in Clients, NEW b \in Clients, (At(a, Leaving) /\ OfAUser(a))', a # b,
                        requests'[b].who = requests'[a].who
                 PROVE  At(b, {"none", "found"})'
      BY DEF LeaverAlone
    <3>1. CASE a = c BY <1>6, <3>1
    <3>2. CASE a # c /\ b = c
      <4>1. requests[a].who = u /\ requests[a].phase \in Leaving BY <3>2
      <4> QED BY <4>1 DEF RevokeUserSessions, BeingDeleted, Leaving
    <3>3. CASE a # c /\ b # c BY <3>3 DEF LeaverAlone
    <3> QED BY <3>1, <3>2, <3>3
  <2>5. StaysEvicted' BY DEF StaysEvicted
  <2> QED BY <2>1, <2>2, <2>3, <2>4, <2>5
<1> QED BY <1>2, <1>5, <1>7 DEF AccountInv

LEMMA EvictUserStep ==
    ASSUME IInv, TypeInv', NEW c \in Clients, EvictUser(c) PROVE IInv'
<1> USE DEF IInv
<1> DEFINE u == requests[c].who
           r == [requests[c] EXCEPT !.phase = "left"]
<1>1. requests[c] \in Request /\ requests[c].phase = "leaving" /\ u \in Users \cup Staff
  BY RequestType DEF EvictUser
<1>2. UNCHANGED <<roles, sessions, opened, organization>> /\ \A v : OfUser(v)' = OfUser(v)
  BY DEF EvictUser, OfUser, Open
<1>3. requests'[c] = r /\ \A d \in Clients \ {c} : requests'[d] = requests[d]
  BY DEF EvictUser, TypeInv, RequestsType
<1>4. r.phase = "left" /\ r.id = requests[c].id /\ r.who = u /\ r.on = requests[c].on BY <1>1 DEF Request
<1> HIDE DEF r
<1>5. /\ u \in Users => cached'[u] = "none"
      /\ \A v \in Users : cached'[v] \in {cached[v], "none"}
  BY DEF EvictUser, Evicted, TypeInv, RowsType
<1>6. NobodyActsDeleted' BY <1>1, <1>2, <1>3, <1>4 DEF NobodyActsDeleted, Exists
<1>7. ASSUME organization PROVE (CachedExist /\ SessionsHeld /\ LeaverLocksAll /\ LeaverAlone /\ StaysEvicted)'
  <2> USE <1>1, <1>2, <1>3, <1>4, <1>7 DEF AccountInv, Exists, At, OfAUser, Leaving
  <2>1. CachedExist' BY <1>5 DEF CachedExist
  <2>2. SessionsHeld' BY DEF SessionsHeld
  <2>3. LeaverLocksAll' BY DEF LeaverLocksAll
  <2>4. LeaverAlone' BY DEF LeaverAlone
  <2>5. StaysEvicted'
    <3>1. \A d \in Clients : requests[d].phase # "none" => requests[d].who \in Users \cup Staff BY RequestType
    <3> QED BY <1>5, <3>1 DEF StaysEvicted
  <2> QED BY <2>1, <2>2, <2>3, <2>4, <2>5
<1> QED BY <1>2, <1>6, <1>7 DEF AccountInv

\* Nobody else is let in as the user who goes, and nobody has the user cached.
LEMMA DeleteUserStep ==
    ASSUME IInv, TypeInv', NEW c \in Clients, DeleteUser(c) PROVE IInv'
<1> USE DEF IInv
<1> DEFINE u == requests[c].who
<1>1. requests[c].phase = "left" /\ u \in Users \cup Staff BY RequestType DEF DeleteUser
<1>2. UNCHANGED <<cached, opened, organization>> BY DEF DeleteUser
<1>3. requests'[c].phase = "none" /\ \A d \in Clients \ {c} : requests'[d] = requests[d]
  BY EndsType, NoRequestType DEF DeleteUser
<1>4. DOMAIN roles' = DOMAIN roles \ {u} BY DEF DeleteUser, Restrict
<1>5. \A v : v # u => OfUser(v)' = OfUser(v)
  BY DEF DeleteUser, Restrict, OfUser, Open
<1>6. \A v : v = u => OfUser(v)' = {} BY DEF DeleteUser, Restrict, OfUser, Open
<1>7. ASSUME organization, u \notin Staff, NEW d \in Clients, d # c, requests[d].who = u
      PROVE  At(d, {"none", "found"})
  BY <1>1, <1>7 DEF AccountInv, LeaverAlone, At, Leaving, OfAUser
<1>8. NobodyActsDeleted' BY <1>2, <1>3, <1>4, <1>7 DEF NobodyActsDeleted, Exists, At
<1>9. ASSUME organization PROVE (CachedExist /\ SessionsHeld /\ LeaverLocksAll /\ LeaverAlone /\ StaysEvicted)'
  <2> USE <1>1, <1>2, <1>3, <1>9 DEF AccountInv, Exists, At, OfAUser, Leaving
  <2>1. CachedExist' BY <1>4 DEF CachedExist, StaysEvicted
  <2>2. SessionsHeld' BY <1>4, <1>5 DEF SessionsHeld
  <2>3. LeaverLocksAll' BY <1>5, <1>6 DEF LeaverLocksAll
  <2>4. LeaverAlone' BY DEF LeaverAlone
  <2>5. StaysEvicted' BY DEF StaysEvicted
  <2> QED BY <2>1, <2>2, <2>3, <2>4, <2>5
<1> QED BY <1>2, <1>8, <1>9 DEF AccountInv

LEMMA DeleteOrganizationStep ==
    ASSUME IInv, DeleteOrganization, TypeInv' PROVE IInv'
BY DEF DeleteOrganization, IInv, AccountInv, NobodyActsDeleted

LEMMA AccountInit == Init => IInv
<1> SUFFICES ASSUME Init PROVE IInv OBVIOUS
<1>1. \A c \in Clients : requests[c].phase = "none" BY NoRequestType DEF Init
<1>2. CachedExist BY DEF Init, CachedExist
<1> QED
  BY <1>1, <1>2, TypeInit
  DEF IInv, AccountInv, SessionsHeld, LeaverLocksAll, LeaverAlone, StaysEvicted, NobodyActsDeleted, At, Leaving

LEMMA AccountStep == IInv /\ [Next]_vars => IInv'
<1> SUFFICES ASSUME IInv, [Next]_vars PROVE IInv' OBVIOUS
<1>t. TypeInv /\ TypeInv' BY TypeStep DEF IInv
<1>1. ASSUME NEW c \in Clients, Commit(c) \/ UpdateRoles(c) PROVE IInv'
  <2>1. \A u : OfUser(u)' = OfUser(u)
    BY <1>1, <1>t, WrittenKeeps, SameOfUser DEF Commit, UpdateRoles
  <2> QED BY <1>1, <1>t, <2>1, EndsQuietly DEF Commit, UpdateRoles
<1>2. ASSUME NEW c \in Clients, NEW i \in Open, RevokeSession(c, i) PROVE IInv'
  <2>1. \A u : OfUser(u)' = OfUser(u) BY <1>2, <1>t, WrittenKeeps, SameOfUser DEF RevokeSession
  <2> QED BY <1>2, <1>t, <2>1, EndsQuietly DEF RevokeSession
<1>3. ASSUME NEW c \in Clients, Abort(c) PROVE IInv'
  <2>1. \A u : OfUser(u)' = OfUser(u) BY <1>3 DEF Abort, OfUser, Open
  <2> QED BY <1>3, <1>t, <2>1, EndsQuietly DEF Abort
<1>4. ASSUME NEW c \in Clients, NEW u \in Users, TransferOwnership(c, u) PROVE IInv'
  <2> DEFINE r == [requests[c] EXCEPT !.phase = "handing", !.role = u]
  <2>1. \A v : OfUser(v)' = OfUser(v) BY <1>4 DEF TransferOwnership, OfUser, Open
  <2>2. \A v \in Users : cached'[v] \in {cached[v], "none"}
    BY <1>4, <1>t DEF TransferOwnership, TypeInv, RowsType
  <2>3. requests'[c] = r /\ \A d \in Clients \ {c} : requests'[d] = requests[d]
    BY <1>4, <1>t DEF TransferOwnership, TypeInv, RequestsType
  <2>4. requests[c] \in Request /\ requests[c].phase = "in" BY <1>4, <1>t, RequestType DEF TransferOwnership
  <2>5. r.phase = "handing" /\ r.who = requests[c].who /\ r.id = requests[c].id BY <2>4 DEF Request
  <2> HIDE DEF r
  <2> QED BY <1>4, <1>t, <2>1, <2>2, <2>3, <2>4, <2>5, QuietStep DEF TransferOwnership
<1>5. ASSUME NEW i \in Open, LogoutUser(i) \/ LogoutStaff(i) \/ Expire(i) PROVE IInv'
  <2>1. sessions[i] \in Row /\ sessions \in [Open -> Row] BY <1>t DEF TypeInv, RowsType
  <2>2. \/ sessions' = [sessions EXCEPT ![i] = [sessions[i] EXCEPT !.revoked = TRUE]]
        \/ sessions' = [sessions EXCEPT ![i] = [sessions[i] EXCEPT !.expired = TRUE]]
    BY <1>5 DEF LogoutUser, LogoutStaff, RevokeByToken, Revoked, Expire
  <2>3. /\ [sessions[i] EXCEPT !.revoked = TRUE] \in Row /\ [sessions[i] EXCEPT !.revoked = TRUE].who = sessions[i].who
        /\ [sessions[i] EXCEPT !.expired = TRUE] \in Row /\ [sessions[i] EXCEPT !.expired = TRUE].who = sessions[i].who
    BY <2>1 DEF Row
  <2>4. \A u : OfUser(u)' = OfUser(u) BY <1>t, <2>1, <2>2, <2>3, SameOfUser
  <2>5. UNCHANGED <<roles, cached, opened, organization, requests>>
    BY <1>5 DEF LogoutUser, LogoutStaff, RevokeByToken, Expire
  <2> QED BY <1>t, <2>4, <2>5, QuietStep
<1>6. ASSUME NEW u \in Users, Lapse(u) PROVE IInv'
  <2>1. \A v : OfUser(v)' = OfUser(v) BY <1>6 DEF Lapse, OfUser, Open
  <2>2. \A v \in Users : cached'[v] \in {cached[v], "none"} BY <1>6, <1>t DEF Lapse, TypeInv, RowsType
  <2> QED BY <1>6, <1>t, <2>1, <2>2, QuietStep DEF Lapse
<1>7. ASSUME NEW u \in Users, LoginUser(u) \/ LoginDesktop(u) PROVE IInv'
  BY <1>7, <1>t, LoginStep DEF LoginUser, LoginDesktop, Authenticates
<1>8. ASSUME NEW u \in Staff, LoginStaff(u) PROVE IInv'
  BY <1>8, <1>t, LoginStep DEF LoginStaff
<1>9. CASE UNCHANGED vars
  <2>1. \A v : OfUser(v)' = OfUser(v) BY <1>9 DEF vars, OfUser, Open
  <2> QED BY <1>9, <1>t, <2>1, QuietStep DEF vars
<1> QED
  BY <1>1, <1>2, <1>3, <1>4, <1>5, <1>6, <1>7, <1>8, <1>9, <1>t, LetInStep, FindSessionStep,
     RevokeUserSessionsStep, EvictUserStep, DeleteUserStep, DeleteOrganizationStep
  DEF Next

(***************************************************************************)
(* A session is a user's who exists, or of staff, and users have the roles *)
(* there are, whoever signs in, leaves or hands the organization on.       *)
(***************************************************************************)
THEOREM SessionTypes == Spec => []TypeOK
<1>1. Init => TypeInv BY TypeInit
<1>2. TypeInv /\ [Next]_vars => TypeInv' BY TypeStep
<1>3. TypeInv => TypeOK BY DEF TypeInv, RowsType, TypeOK
<1> QED BY <1>1, <1>2, <1>3, PTL DEF Spec

(***************************************************************************)
(* A session that was signed out stays signed out, whatever requests had   *)
(* found it valid before (sessions/sqlalchemy/adapter.py: touch and renew  *)
(* write their own columns, and no other).                                 *)
(***************************************************************************)
THEOREM SignedOut == Spec => SignedOutStaysOut
<1>1. Init => TypeInv BY TypeInit
<1>2. TypeInv /\ [Next]_vars => TypeInv' BY TypeStep
<1>3. TypeInv /\ [Next]_vars => [StaysOut]_sessions BY StaysOutStep
<1> QED BY <1>1, <1>2, <1>3, PTL DEF Spec, SignedOutStaysOut

(***************************************************************************)
(* No request acts as a user whose account was deleted, though it had      *)
(* found a session of the user, and though users are cached, as long as    *)
(* the organization is there (users/use_cases.py, delete_user, against     *)
(* sessions/use_cases.py and fastapi/dependencies).                        *)
(***************************************************************************)
THEOREM DeletedDoNotAct == Spec => []NobodyActsDeleted
<1>1. Init => IInv BY AccountInit
<1>2. IInv /\ [Next]_vars => IInv' BY AccountStep
<1>3. IInv => NobodyActsDeleted BY DEF IInv
<1> QED BY <1>1, <1>2, <1>3, PTL DEF Spec
=============================================================================
