-------------------------------- MODULE Limits --------------------------------
(***************************************************************************)
(* The two limits kept in the cache: failed desktop sign-ins, per email    *)
(* and per address, and calls of the limited paths, per address.  Each is  *)
(* a counter that is read or raised in one step and given its expiry in    *)
(* another, by requests that run at once.                                  *)
(***************************************************************************)
EXTENDS Naturals, FiniteSets

CONSTANTS
    Clients,        \* requests under way at once
    Emails,
    Addresses,
    PER_EMAIL,      \* DESKTOP_LOGIN_MAX_FAILURES_PER_EMAIL
    PER_ADDRESS,    \* DESKTOP_LOGIN_MAX_FAILURES_PER_IP
    MAX_REQUESTS,   \* calls one address may make in a window
    MaxCount        \* bound: a counter's value

VARIABLES
    counters,   \* key -> [count, expires]
    blocked,    \* addresses that are blocked
    let,        \* address -> calls let through while its counter lived
    requests    \* client -> the request it has under way

vars == <<counters, blocked, let, requests>>

Keys == ({"email"} \X Emails) \cup ({"address", "calls"} \X Addresses)
Limit(key) == IF key[1] = "email" THEN PER_EMAIL ELSE PER_ADDRESS

None == [count |-> 0, expires |-> FALSE]
Rest == [at |-> "rest", email |-> "", address |-> "", todo |-> {}, fresh |-> {}]

Init ==
    /\ counters = [k \in Keys |-> None]
    /\ blocked = {}
    /\ let = [a \in Addresses |-> 0]
    /\ requests = [c \in Clients |-> Rest]

LoginKeys(r) == {<<"email", r.email>>, <<"address", r.address>>}

\* INCR; what it makes 1 is given its expiry in a step of its own.
Raised(k) == [counters EXCEPT ![k].count = @ + 1]
Fresh(k) == IF counters[k].count = 0 THEN {k} ELSE {}

-----------------------------------------------------------------------------
\* Mutant: one more attempt is let through.
AllowedAtLimit(k) == counters[k].count <= Limit(k)
Allowed(k) == counters[k].count < Limit(k)

\* login_desktop: refused once the email, or then the address, has failed too often.
Attempt(c, e, a) ==
    /\ requests[c] = Rest
    /\ Allowed(<<"email", e>>)
    /\ requests' = [requests EXCEPT ![c] = [Rest EXCEPT !.at = "checking", !.email = e, !.address = a]]
    /\ UNCHANGED <<counters, blocked, let>>

Admit(c) ==
    /\ requests[c].at = "checking"
    /\ requests' = [requests EXCEPT ![c] =
           IF Allowed(<<"address", requests[c].address>>) THEN [@ EXCEPT !.at = "trying"] ELSE Rest]
    /\ UNCHANGED <<counters, blocked, let>>

\* The password is wrong: both counters are raised, one after the other.
Wrong(c) ==
    /\ requests[c].at = "trying"
    /\ requests' = [requests EXCEPT ![c].at = "ending", ![c].todo = LoginKeys(requests[c])]
    /\ UNCHANGED <<counters, blocked, let>>

\* The password is right: the email's failures are forgotten, the address's are not.
Right(c) ==
    /\ requests[c].at = "trying"
    /\ counters' = [counters EXCEPT ![<<"email", requests[c].email>>] = None]
    /\ requests' = [requests EXCEPT ![c] = Rest]
    /\ UNCHANGED <<blocked, let>>

RecordFailure(c, k) ==
    /\ requests[c].at = "ending"
    /\ k \in requests[c].todo /\ requests[c].fresh = {}
    /\ counters[k].count < MaxCount
    /\ counters' = Raised(k)
    /\ requests' = [requests EXCEPT ![c].todo = @ \ {k}, ![c].fresh = Fresh(k)]
    /\ UNCHANGED <<blocked, let>>

-----------------------------------------------------------------------------
\* A limited path: refused while the address is blocked, and blocked once it calls too
\* often.
Call(c, a) ==
    /\ requests[c] = Rest
    /\ a \notin blocked
    /\ requests' = [requests EXCEPT ![c] = [Rest EXCEPT !.at = "calling", !.address = a]]
    /\ UNCHANGED <<counters, blocked, let>>

Within(count) == count <= MAX_REQUESTS

Count(c) ==
    LET a == requests[c].address
        k == <<"calls", a>>
        passes == Within(counters[k].count + 1) IN
    /\ requests[c].at = "calling"
    /\ counters[k].count < MaxCount
    /\ counters' = Raised(k)
    /\ let' = IF passes THEN [let EXCEPT ![a] = @ + 1] ELSE let
    /\ requests' = [requests EXCEPT ![c].at = IF passes THEN "ending" ELSE "blocking", ![c].fresh = Fresh(k)]
    /\ UNCHANGED blocked

Block(c) ==
    /\ requests[c].at = "blocking" /\ requests[c].fresh = {}
    /\ blocked' = blocked \cup {requests[c].address}
    /\ requests' = [requests EXCEPT ![c] = Rest]
    /\ UNCHANGED <<counters, let>>

-----------------------------------------------------------------------------
SetExpiry(c, k) ==
    /\ k \in requests[c].fresh
    /\ counters' = [counters EXCEPT ![k].expires = @ \/ counters[k].count > 0]
    /\ requests' = [requests EXCEPT ![c].fresh = {}]
    /\ UNCHANGED <<blocked, let>>

Answer(c) ==
    /\ requests[c].at = "ending" /\ requests[c].todo = {} /\ requests[c].fresh = {}
    /\ requests' = [requests EXCEPT ![c] = Rest]
    /\ UNCHANGED <<counters, blocked, let>>

\* The process dies, or the cache is not there: what is left to do is not done.
Die(c) ==
    /\ requests[c] # Rest
    /\ requests' = [requests EXCEPT ![c] = Rest]
    /\ UNCHANGED <<counters, blocked, let>>

\* A window or a block is over.
Lapse(k) ==
    /\ counters[k].expires
    /\ counters' = [counters EXCEPT ![k] = None]
    /\ let' = IF k[1] = "calls" THEN [let EXCEPT ![k[2]] = 0] ELSE let
    /\ UNCHANGED <<blocked, requests>>

Unblock(a) ==
    /\ blocked' = blocked \ {a}
    /\ UNCHANGED <<counters, let, requests>>

Next ==
    \/ \E c \in Clients : Admit(c) \/ Wrong(c) \/ Right(c) \/ Count(c) \/ Block(c) \/ Answer(c) \/ Die(c)
    \/ \E c \in Clients, e \in Emails, a \in Addresses : Attempt(c, e, a)
    \/ \E c \in Clients, a \in Addresses : Call(c, a)
    \/ \E c \in Clients, k \in Keys : RecordFailure(c, k) \/ SetExpiry(c, k)
    \/ \E k \in Keys : Lapse(k)
    \/ \E a \in blocked : Unblock(a)

Spec == Init /\ [][Next]_vars

-----------------------------------------------------------------------------
TypeOK ==
    /\ \A k \in Keys : counters[k].count \in 0..MaxCount /\ counters[k].expires \in BOOLEAN
    /\ blocked \subseteq Addresses
    /\ \A c \in Clients : requests[c].todo \subseteq Keys /\ requests[c].fresh \subseteq Keys

\* While its counter lives, an email's password is tried wrongly no more than the limit
\* and by the requests that were under way beside the one that reached it, and so is an
\* address's: nothing is counted twice and nothing missed, however checks, counts, expiries
\* and forgotten counters interleave (auth/service.py).  The limited paths count before
\* they let through, so theirs is exact (RateLimitMiddleware.dispatch).
LimitsHold ==
    /\ \A k \in Keys : k[1] # "calls" => counters[k].count <= Limit(k) + Cardinality(Clients) - 1
    /\ \A a \in Addresses : let[a] <= MAX_REQUESTS
=============================================================================
