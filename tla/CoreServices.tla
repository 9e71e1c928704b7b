---------------------------- MODULE CoreServices ----------------------------
(***************************************************************************)
(* Eight parts of the application that each hold for any number of         *)
(* clients, of workers and of what they work on: documents, invitations,   *)
(* how an organization comes and goes, sessions, limits, event streams,    *)
(* rendering, and the checks of a page.  They are one specification, not   *)
(* one system: a behaviour is of one part, the one named by part.  Where   *)
(* two parts use one table, each has what the other does to it among its   *)
(* own actions (accounts go while sessions are renewed), so interleaving   *)
(* them would add states without adding a behaviour.  The variables s1,    *)
(* s2, ... are those of the part in the order of its vars, and those it    *)
(* does not need are 0.                                                    *)
(*                                                                         *)
(* The module models no code: it gives the parts constants in common.  A   *)
(* part is instantiated with its lemmas, so that they can be cited for it. *)
(***************************************************************************)
EXTENDS Integers, Sequences, FiniteSets

CONSTANTS
    Clients,            \* requests under way at once, of every part
    Workers, MAX_DOCUMENTS, MaxDocs, MaxPuts, MaxSends, MaxDeaths,                  \* documents
    Emails, SEATS, MaxInvites,                                                      \* invitations
    MaxOwnerInvites, MaxOrgs,                                                       \* organizations
    Users, Staff, MaxSessions,                                                      \* sessions
    SignIns, Addresses, PER_EMAIL, PER_ADDRESS, MAX_REQUESTS, MaxCount,             \* limits
    Runs, Routes, Watchers, MAX_LENGTH, COUNT, MaxSaves, MaxEvents,                 \* event streams
    MAX_CONCURRENT, RESTART_AFTER, PNG_MAX, PDF_MAX, MIN_SCALE, Heights, MaxRenders, MaxCrashes,    \* rendering
    Elements, Size, MAX_TAB_STOPS                                                   \* checks of a page

\* Somebody asks, and is not called as RenderPool calls a free lock; somebody is invited, an
\* organization has a seat (its owner's), a limit lets one attempt through, a conversation has
\* the state it begins with, and a page is neither cut to nothing nor divided by nothing.
ASSUME CoreAssumption ==
    /\ IsFiniteSet(Clients) /\ Clients # {} /\ "nobody" \notin Clients /\ Emails # {}
    /\ SEATS \in Nat \ {0} /\ PER_EMAIL \in Nat \ {0} /\ PER_ADDRESS \in Nat \ {0} /\ MaxSaves \in Nat \ {0}
    /\ {MAX_DOCUMENTS, MaxDocs, MaxPuts, MaxSends, MaxDeaths, MaxInvites, MaxOrgs, MAX_REQUESTS, MaxCount,
        MAX_LENGTH, COUNT, MaxEvents, PNG_MAX, MaxRenders, Size} \subseteq Nat
    /\ {PDF_MAX, MIN_SCALE} \subseteq Nat \ {0} /\ Heights \subseteq Nat

VARIABLES part, s1, s2, s3, s4, s5, s6, s7, s8, s9

\* The variables from one on are not needed.
None9 == s9 = 0
None8 == s8 = 0 /\ None9
None7 == s7 = 0 /\ None8
None6 == s6 = 0 /\ None7
None5 == s5 = 0 /\ None6
None4 == s4 = 0 /\ None5
None3 == s3 = 0 /\ None4

Docs == INSTANCE DocumentsKept WITH
    rows <- s1, created <- s2, files <- s3, queue <- s4, sent <- s5, requests <- s6, workers <- s7,
    cut <- s8, deaths <- s9

Invites == INSTANCE InvitationSeats WITH invitations <- s1, accounts <- s2, requests <- s3

Orgs == INSTANCE OrganizationRecords WITH
    MaxInvites <- MaxOwnerInvites, invitations <- s1, invited <- s2, organizations <- s3, founded <- s4,
    files <- s5, cleared <- s6, requests <- s7

Sess == INSTANCE SessionsAccounts WITH
    roles <- s1, cached <- s2, sessions <- s3, opened <- s4, organization <- s5, requests <- s6

Lims == INSTANCE Limits WITH
    Emails <- SignIns, counters <- s1, blocked <- s2, let <- s3, requests <- s4

Stream == INSTANCE EventStream WITH
    Workers <- Runs, saved <- s1, writers <- s2, stream <- s3, last <- s4, dropped <- s5, untold <- s6,
    watchers <- s7

Pool == INSTANCE RenderPool WITH
    Callers <- Clients, browser <- s1, lock <- s2, active <- s3, renders <- s4, req <- s5, reply <- s6,
    opened <- s7, crashes <- s8

Checks == INSTANCE PageChecks WITH
    page <- s1, tabs <- s2, at <- s3, found <- s4, place <- s5, reached <- s6, dull <- s7, unseen <- s8,
    presses <- s9

-----------------------------------------------------------------------------
CoreInit ==
    \/ part = "documents" /\ Docs!Init
    \/ part = "invitations" /\ Invites!Init /\ None4
    \/ part = "organizations" /\ Orgs!Init /\ None8
    \/ part = "sessions" /\ Sess!Init /\ None7
    \/ part = "limits" /\ Lims!Init /\ None5
    \/ part = "events" /\ Stream!Init /\ None8
    \/ part = "render" /\ Pool!Init /\ None9
    \/ part = "page checks" /\ Checks!Init

CoreNext ==
    \/ part = "documents" /\ Docs!Next /\ UNCHANGED <<part>>
    \/ part = "invitations" /\ Invites!Next /\ UNCHANGED <<part, s4, s5, s6, s7, s8, s9>>
    \/ part = "organizations" /\ Orgs!Next /\ UNCHANGED <<part, s8, s9>>
    \/ part = "sessions" /\ Sess!Next /\ UNCHANGED <<part, s7, s8, s9>>
    \/ part = "limits" /\ Lims!Next /\ UNCHANGED <<part, s5, s6, s7, s8, s9>>
    \/ part = "events" /\ Stream!Next /\ UNCHANGED <<part, s8, s9>>
    \/ part = "render" /\ Pool!Next /\ UNCHANGED <<part, s9>>
    \/ part = "page checks" /\ Checks!Next /\ UNCHANGED <<part>>

services == <<part, s1, s2, s3, s4, s5, s6, s7, s8, s9>>

CoreSpec == CoreInit /\ [][CoreNext]_services

-----------------------------------------------------------------------------
\* A document being extracted has somebody to extract it, one past "pending" has its file, and
\* the limit is passed by no more than the requests that ran at once (documents/use_cases.py,
\* training.py, conversations/tasks.py).
DocumentsSafe ==
    part = "documents" => Docs!TypeOK /\ Docs!NoOrphanDocument /\ Docs!FileKept /\ Docs!LimitSlack

\* Seats are counted before an invitation is created: together they pass the organization's
\* seats by no more than the invitations made at once (invitations/use_cases.py).
SeatSlack == part = "invitations" => Invites!TypeOK /\ Invites!SeatSlack

\* However links are used, revoked and deleted at once, an organization has the one record of
\* how it came to be and its files are gone only with it; and no request acts as a user whose
\* account was deleted, whatever it had found, cached or touched before (staff/use_cases,
\* sessions/use_cases.py, users/use_cases.py).
AccountsSafe ==
    /\ part = "organizations" => Orgs!TypeOK /\ Orgs!OrganizationHasRecord /\ Orgs!FilesGoLast
    /\ part = "sessions" => Sess!TypeOK /\ Sess!NobodyActsDeleted

\* A session that was signed out stays signed out, though requests that found it valid still
\* touch and renew it (sessions/sqlalchemy/adapter.py).
SignedOutStaysOut == [][part = "sessions" => Sess!StaysOut]_<<part, s3>>

\* Failed logins and limited calls pass their limits by no more than what was under way at
\* once (auth/service.py, fastapi/rate_limit.py).
LimitsHold == part = "limits" => Lims!TypeOK /\ Lims!LimitsHold

\* Who follows a conversation's events and reconnects loses none the stream still holds
\* (conversations/events.py, core/events).
StreamSafe == part = "events" => Stream!TypeOK /\ Stream!ReconnectLosesNothing

\* The browser under a page stays until the page is done, an image that is cut says so, and a
\* page that passes its checks can be used from the keyboard (render).
RenderSafe ==
    /\ part = "render" => Pool!TypeOK /\ Pool!RenderSafe
    /\ part = "page checks" => Checks!TypeOK /\ Checks!PassedIsUsable
=============================================================================
