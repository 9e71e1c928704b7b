---------------------------- MODULE ServicesHold ----------------------------
(***************************************************************************)
(* What CoreServices states of each of its parts, for any number of        *)
(* clients, workers and whatever they work on.  Documents, invitations,    *)
(* organizations and sessions have their invariants, and the steps that    *)
(* keep them, in modules of their own; those of limits, event streams,     *)
(* rendering and the checks of a page are here.                            *)
(***************************************************************************)
EXTENDS CoreServices, FiniteSetTheorems, WellFoundedInduction, TLAPS

-----------------------------------------------------------------------------
(***************************************************************************)
(* Limits.                                                                 *)
(***************************************************************************)
counters == s1
blocked == s2
let == s3
asked == s4
USE DEF counters, blocked, let, asked

FailureKeys == {k \in Lims!Keys : k[1] # "calls"}
Ats == {"rest", "checking", "trying", "ending", "calling", "blocking"}
LimRequest == [at : Ats, email : SignIns \cup {""}, address : Addresses \cup {""},
               todo : SUBSET FailureKeys, fresh : SUBSET Lims!Keys]

\* What a request is about is set before it is used.
Named(r) ==
    /\ r.at \in {"checking", "trying"} => r.email \in SignIns /\ r.address \in Addresses
    /\ r.at \in {"calling", "blocking"} => r.address \in Addresses
    /\ r.todo # {} => r.at = "ending"

LimTypeInv ==
    /\ counters \in [Lims!Keys -> [count : 0..MaxCount, expires : BOOLEAN]]
    /\ blocked \subseteq Addresses
    /\ let \in [Addresses -> Nat]
    /\ asked \in [Clients -> LimRequest]
    /\ \A c \in Clients : Named(asked[c])

\* A failure is counted by a request that was let through and has not counted it yet.
WillCount(r, k) ==
    \/ r.at = "checking" /\ k = <<"email", r.email>>
    \/ r.at = "trying" /\ k \in Lims!LoginKeys(r)
    \/ k \in r.todo
Counting(k) == {c \in Clients : WillCount(asked[c], k)}

Ahead == \A k \in FailureKeys : counters[k].count + Cardinality(Counting(k)) + 1 <= Lims!Limit(k) + Cardinality(Clients)
LetCounted == \A a \in Addresses : let[a] <= MAX_REQUESTS /\ let[a] <= counters[<<"calls", a>>].count

LimInv == LimTypeInv /\ Ahead /\ LetCounted

LimSupposed == /\ IsFiniteSet(Clients) /\ Clients # {} /\ MaxCount \in Nat /\ MAX_REQUESTS \in Nat
               /\ PER_EMAIL \in Nat \ {0} /\ PER_ADDRESS \in Nat \ {0}

-----------------------------------------------------------------------------
LEMMA KeyTypes ==
    /\ \A e \in SignIns : <<"email", e>> \in FailureKeys /\ <<"email", e>> \in Lims!Keys
    /\ \A a \in Addresses : <<"address", a>> \in FailureKeys /\ <<"address", a>> \in Lims!Keys
    /\ \A a \in Addresses : <<"calls", a>> \in Lims!Keys /\ <<"calls", a>> \notin FailureKeys
    /\ FailureKeys \subseteq Lims!Keys
BY DEF Lims!Keys, FailureKeys

LEMMA LimitType == ASSUME LimSupposed, NEW k PROVE Lims!Limit(k) \in Nat /\ Lims!Limit(k) > 0
BY DEF LimSupposed, Lims!Limit

LEMMA SetSizes ==
    ASSUME LimSupposed, NEW S, S \subseteq Clients
    PROVE  /\ IsFiniteSet(S) /\ Cardinality(S) \in Nat /\ Cardinality(S) <= Cardinality(Clients)
           /\ Cardinality(Clients) \in Nat
BY FS_Subset, FS_CardinalityType DEF LimSupposed

\* A counter stays ahead of its limit: it is not raised, or by one that was to raise it, or
\* it is below the limit.
LEMMA StaysAhead ==
    ASSUME LimSupposed, NEW k, NEW n \in Nat, NEW m \in Nat, NEW S, NEW T, S \subseteq Clients, T \subseteq Clients,
           n + Cardinality(S) + 1 <= Lims!Limit(k) + Cardinality(Clients),
           \/ m <= n /\ T \subseteq S
           \/ m = n + 1 /\ \E c \in S : T \subseteq S \ {c}
           \/ m < Lims!Limit(k)
    PROVE  m + Cardinality(T) + 1 <= Lims!Limit(k) + Cardinality(Clients)
<1>1. /\ IsFiniteSet(S) /\ Cardinality(S) \in Nat /\ Cardinality(Clients) \in Nat
      /\ Cardinality(T) \in Nat /\ Cardinality(T) <= Cardinality(Clients) /\ Lims!Limit(k) \in Nat
  BY SetSizes, LimitType
<1>2. CASE m <= n /\ T \subseteq S
  <2>1. Cardinality(T) <= Cardinality(S) BY <1>1, <1>2, FS_Subset
  <2> QED BY <1>1, <1>2, <2>1
<1>3. CASE m = n + 1 /\ \E c \in S : T \subseteq S \ {c}
  <2> PICK c \in S : T \subseteq S \ {c} BY <1>3
  <2>1. IsFiniteSet(S \ {c}) /\ Cardinality(S \ {c}) = Cardinality(S) - 1 BY <1>1, FS_RemoveElement
  <2>2. Cardinality(T) <= Cardinality(S \ {c}) BY <2>1, FS_Subset
  <2> QED BY <1>1, <1>3, <2>1, <2>2
<1>4. CASE m < Lims!Limit(k) BY <1>1, <1>4
<1> QED BY <1>2, <1>3, <1>4

\* A request changes.
LEMMA RequestStep ==
    ASSUME LimInv, LimSupposed, NEW c \in Clients, NEW r \in LimRequest, Named(r), asked' = [asked EXCEPT ![c] = r],
           counters' \in [Lims!Keys -> [count : 0..MaxCount, expires : BOOLEAN]],
           \A k \in FailureKeys :
              \/ counters'[k].count <= counters[k].count /\ (WillCount(r, k) => WillCount(asked[c], k))
              \/ counters'[k].count = counters[k].count + 1 /\ WillCount(asked[c], k) /\ ~WillCount(r, k)
              \/ counters'[k].count < Lims!Limit(k)
    PROVE  /\ asked' \in [Clients -> LimRequest]
           /\ \A d \in Clients : Named(asked'[d])
           /\ Ahead'
<1> USE DEF LimInv
<1>1. /\ asked' \in [Clients -> LimRequest] /\ asked'[c] = r
      /\ \A d \in Clients \ {c} : asked'[d] = asked[d]
  BY DEF LimTypeInv
<1>2. \A d \in Clients : Named(asked'[d]) BY <1>1 DEF LimTypeInv
<1>3. ASSUME NEW k \in FailureKeys
      PROVE  counters'[k].count + Cardinality(Counting(k)') + 1 <= Lims!Limit(k) + Cardinality(Clients)
  <2> DEFINE n == counters[k].count
             m == counters'[k].count
             S == Counting(k)
             T == {d \in Clients : WillCount(asked'[d], k)}
  <2>1. n \in Nat /\ m \in Nat BY KeyTypes DEF LimTypeInv, LimSupposed
  <2>2. n + Cardinality(S) + 1 <= Lims!Limit(k) + Cardinality(Clients) BY DEF Ahead
  <2>3. \A d \in Clients \ {c} : d \in T <=> d \in S BY <1>1 DEF Counting
  <2>4. (c \in T <=> WillCount(r, k)) /\ (c \in S <=> WillCount(asked[c], k)) BY <1>1 DEF Counting
  <2>5. S \subseteq Clients /\ T \subseteq Clients BY DEF Counting
  <2>6. \/ m <= n /\ T \subseteq S
        \/ m = n + 1 /\ \E d \in S : T \subseteq S \ {d}
        \/ m < Lims!Limit(k)
    BY <2>3, <2>4, <2>5
  <2>7. Counting(k)' = T BY DEF Counting, WillCount, Lims!LoginKeys
  <2> HIDE DEF n, m, S, T
  <2>8. m + Cardinality(T) + 1 <= Lims!Limit(k) + Cardinality(Clients) BY <2>1, <2>2, <2>5, <2>6, StaysAhead
  <2> QED BY <2>7, <2>8 DEF m
<1>4. Ahead' BY <1>3 DEF Ahead
<1> QED BY <1>1, <1>2, <1>4

\* The same, where no counter changes.
LEMMA OnlyRequest ==
    ASSUME LimInv, LimSupposed, NEW c \in Clients, NEW r \in LimRequest, Named(r), asked' = [asked EXCEPT ![c] = r],
           UNCHANGED <<counters, let>>, blocked' \subseteq Addresses,
           \A k \in FailureKeys : WillCount(r, k) => WillCount(asked[c], k) \/ counters[k].count < Lims!Limit(k)
    PROVE  LimInv'
<1> USE DEF LimInv
<1>1. counters' \in [Lims!Keys -> [count : 0..MaxCount, expires : BOOLEAN]] BY DEF LimTypeInv
<1>2. /\ asked' \in [Clients -> LimRequest] /\ Ahead'
      /\ \A d \in Clients : Named(asked'[d])
  <2>1. \A k \in FailureKeys : counters'[k].count <= counters[k].count
    BY KeyTypes DEF LimTypeInv, LimSupposed
  <2> QED BY <1>1, <2>1, RequestStep
<1>3. LimTypeInv' BY <1>1, <1>2 DEF LimTypeInv
<1>4. LetCounted' BY DEF LetCounted
<1> QED BY <1>2, <1>3, <1>4

LEMMA RestType == Lims!Rest \in LimRequest /\ Named(Lims!Rest) /\ Lims!Rest.fresh = {} /\ \A k : ~WillCount(Lims!Rest, k)
BY DEF Lims!Rest, LimRequest, Ats, Named, WillCount

LEMMA Resting ==
    ASSUME LimInv, LimSupposed, NEW c \in Clients, asked' = [asked EXCEPT ![c] = Lims!Rest],
           UNCHANGED <<counters, let>>, blocked' \subseteq Addresses
    PROVE  LimInv'
BY RestType, OnlyRequest

-----------------------------------------------------------------------------
LEMMA AttemptStep ==
    ASSUME LimInv, LimSupposed, NEW c \in Clients, NEW e \in SignIns, NEW a \in Addresses, Lims!Attempt(c, e, a)
    PROVE  LimInv'
<1> DEFINE r == [Lims!Rest EXCEPT !.at = "checking", !.email = e, !.address = a]
<1>1. r.at = "checking" /\ r.email = e /\ r.address = a /\ r.todo = {} /\ r \in LimRequest BY DEF Lims!Rest, LimRequest, Ats
<1>2. /\ counters[<<"email", e>>].count < Lims!Limit(<<"email", e>>) /\ UNCHANGED <<counters, blocked, let>>
      /\ asked' = [asked EXCEPT ![c] = r]
  BY DEF Lims!Attempt, Lims!Allowed
<1> HIDE DEF r
<1>3. Named(r) BY <1>1 DEF Named
<1>4. \A k : WillCount(r, k) => k = <<"email", e>> BY <1>1 DEF WillCount
<1> QED BY <1>1, <1>2, <1>3, <1>4, OnlyRequest DEF LimInv, LimTypeInv

LEMMA AdmitStep == ASSUME LimInv, LimSupposed, NEW c \in Clients, Lims!Admit(c) PROVE LimInv'
<1> DEFINE old == asked[c]
           r == [old EXCEPT !.at = "trying"]
           key == <<"address", old.address>>
<1>1. old \in LimRequest /\ Named(old) /\ old.at = "checking" BY DEF Lims!Admit, LimInv, LimTypeInv
<1>2. UNCHANGED <<counters, blocked, let>> BY DEF Lims!Admit
<1>3. CASE Lims!Allowed(key)
  <2>1. asked' = [asked EXCEPT ![c] = r] BY <1>3 DEF Lims!Admit
  <2>2. /\ r.at = "trying" /\ r.email = old.email /\ r.address = old.address /\ r.todo = old.todo
        /\ r.fresh = old.fresh /\ r \in LimRequest
    BY <1>1 DEF LimRequest, Ats
  <2> HIDE DEF r
  <2>3. Named(r) BY <1>1, <2>2 DEF Named
  <2>4. \A k : WillCount(r, k) => WillCount(old, k) \/ k = key BY <1>1, <2>2 DEF WillCount, Lims!LoginKeys
  <2> QED BY <1>2, <1>3, <2>1, <2>2, <2>3, <2>4, OnlyRequest DEF LimInv, LimTypeInv, Lims!Allowed
<1>4. CASE ~Lims!Allowed(key)
  <2>1. asked' = [asked EXCEPT ![c] = Lims!Rest] BY <1>4 DEF Lims!Admit
  <2> QED BY <1>2, <2>1, Resting DEF LimInv, LimTypeInv
<1> QED BY <1>3, <1>4

LEMMA WrongStep == ASSUME LimInv, LimSupposed, NEW c \in Clients, Lims!Wrong(c) PROVE LimInv'
<1> DEFINE old == asked[c]
           r == [old EXCEPT !.at = "ending", !.todo = Lims!LoginKeys(old)]
<1>1. old \in LimRequest /\ Named(old) /\ old.at = "trying" BY DEF Lims!Wrong, LimInv, LimTypeInv
<1>2. UNCHANGED <<counters, blocked, let>> BY DEF Lims!Wrong
<1>3. asked' = [asked EXCEPT ![c] = r] BY DEF Lims!Wrong, LimInv, LimTypeInv, LimRequest
<1>4. Lims!LoginKeys(old) \subseteq FailureKeys BY <1>1, KeyTypes DEF Named, Lims!LoginKeys
<1>5. r.at = "ending" /\ r.todo = Lims!LoginKeys(old) /\ r.fresh = old.fresh /\ r \in LimRequest
  BY <1>1, <1>4 DEF LimRequest, Ats
<1> HIDE DEF r
<1>6. Named(r) BY <1>5 DEF Named
<1>7. \A k : WillCount(r, k) => WillCount(old, k) BY <1>1, <1>5 DEF WillCount
<1> QED BY <1>2, <1>3, <1>5, <1>6, <1>7, OnlyRequest DEF LimInv, LimTypeInv

LEMMA RightStep == ASSUME LimInv, LimSupposed, NEW c \in Clients, Lims!Right(c) PROVE LimInv'
<1> USE DEF LimInv
<1> PICK key : key = <<"email", asked[c].email>> OBVIOUS
<1>1. key \in FailureKeys /\ key \in Lims!Keys /\ \A a \in Addresses : <<"calls", a>> # key
  BY KeyTypes DEF Lims!Right, LimTypeInv, Named
<1>2. counters' = [counters EXCEPT ![key] = Lims!None] /\ asked' = [asked EXCEPT ![c] = Lims!Rest] /\ UNCHANGED <<blocked, let>>
  BY DEF Lims!Right
<1>3. Lims!None \in [count : 0..MaxCount, expires : BOOLEAN] /\ Lims!None.count = 0 BY DEF Lims!None, LimSupposed
<1>4. /\ counters' \in [Lims!Keys -> [count : 0..MaxCount, expires : BOOLEAN]] /\ counters'[key].count = 0
      /\ \A k \in Lims!Keys \ {key} : counters'[k] = counters[k]
  BY <1>1, <1>2, <1>3 DEF LimTypeInv
<1>5. ASSUME NEW k \in FailureKeys PROVE counters'[k].count <= counters[k].count
  <2>1. k \in Lims!Keys /\ counters[k].count \in Nat BY KeyTypes DEF LimTypeInv, LimSupposed
  <2> QED BY <1>4, <2>1
<1>6. asked' \in [Clients -> LimRequest] /\ Ahead' /\ \A d \in Clients : Named(asked'[d])
  BY <1>2, <1>4, <1>5, RestType, RequestStep
<1>7. LimTypeInv' BY <1>2, <1>4, <1>6 DEF LimTypeInv
<1>8. LetCounted' BY <1>1, <1>2, <1>4, KeyTypes DEF LetCounted
<1> QED BY <1>6, <1>7, <1>8

\* A counter is raised.
LEMMA RaisedCounter ==
    ASSUME LimInv, LimSupposed, NEW k \in Lims!Keys, counters[k].count < MaxCount, counters' = Lims!Raised(k)
    PROVE  /\ counters' \in [Lims!Keys -> [count : 0..MaxCount, expires : BOOLEAN]]
           /\ counters'[k].count = counters[k].count + 1
           /\ \A j \in Lims!Keys \ {k} : counters'[j] = counters[j]
<1> DEFINE new == [counters[k] EXCEPT !.count = @ + 1]
<1>1. new \in [count : 0..MaxCount, expires : BOOLEAN] /\ new.count = counters[k].count + 1
  BY DEF LimInv, LimTypeInv, LimSupposed
<1>2. counters' = [counters EXCEPT ![k] = new] BY DEF Lims!Raised, LimInv, LimTypeInv
<1> HIDE DEF new
<1> QED BY <1>1, <1>2 DEF LimInv, LimTypeInv

LEMMA RecordFailureStep ==
    ASSUME LimInv, LimSupposed, NEW c \in Clients, NEW k \in Lims!Keys, Lims!RecordFailure(c, k) PROVE LimInv'
<1> USE DEF LimInv
<1> DEFINE old == asked[c]
           r == [old EXCEPT !.todo = @ \ {k}, !.fresh = Lims!Fresh(k)]
<1>1. /\ old \in LimRequest /\ Named(old) /\ old.at = "ending" /\ k \in old.todo /\ k \in FailureKeys
      /\ counters[k].count < MaxCount /\ counters' = Lims!Raised(k) /\ UNCHANGED <<blocked, let>>
  BY DEF Lims!RecordFailure, LimTypeInv, LimRequest
<1>2. asked' = [asked EXCEPT ![c] = r] BY DEF Lims!RecordFailure, LimTypeInv, LimRequest
<1>3. /\ r.at = "ending" /\ r.todo = old.todo \ {k} /\ r.email = old.email /\ r.address = old.address
      /\ r \in LimRequest
  BY <1>1 DEF LimRequest, Lims!Fresh
<1> HIDE DEF r
<1>4. Named(r) BY <1>3 DEF Named
<1>5. /\ counters' \in [Lims!Keys -> [count : 0..MaxCount, expires : BOOLEAN]]
      /\ counters'[k].count = counters[k].count + 1
      /\ \A j \in Lims!Keys \ {k} : counters'[j] = counters[j]
  BY <1>1, RaisedCounter
<1>6. WillCount(old, k) /\ ~WillCount(r, k) /\ \A j : WillCount(r, j) => WillCount(old, j)
  BY <1>1, <1>3 DEF WillCount
<1>7. \A j \in FailureKeys :
         \/ counters'[j].count <= counters[j].count /\ (WillCount(r, j) => WillCount(old, j))
         \/ counters'[j].count = counters[j].count + 1 /\ WillCount(old, j) /\ ~WillCount(r, j)
  BY <1>5, <1>6, KeyTypes DEF LimTypeInv, LimSupposed
<1>8. asked' \in [Clients -> LimRequest] /\ Ahead' /\ \A d \in Clients : Named(asked'[d])
  BY <1>2, <1>3, <1>4, <1>5, <1>7, RequestStep
<1>9. LimTypeInv' BY <1>1, <1>5, <1>8 DEF LimTypeInv
<1>10. LetCounted' BY <1>1, <1>5, KeyTypes DEF LetCounted
<1> QED BY <1>8, <1>9, <1>10

-----------------------------------------------------------------------------
LEMMA CallStep == ASSUME LimInv, LimSupposed, NEW c \in Clients, NEW a \in Addresses, Lims!Call(c, a) PROVE LimInv'
<1> DEFINE r == [Lims!Rest EXCEPT !.at = "calling", !.address = a]
<1>1. r.at = "calling" /\ r.address = a /\ r.todo = {} /\ r \in LimRequest BY DEF Lims!Rest, LimRequest, Ats
<1>2. UNCHANGED <<counters, blocked, let>> /\ asked' = [asked EXCEPT ![c] = r] BY DEF Lims!Call
<1> HIDE DEF r
<1>3. Named(r) BY <1>1 DEF Named
<1>4. \A k : ~WillCount(r, k) BY <1>1 DEF WillCount
<1> QED BY <1>1, <1>2, <1>3, <1>4, OnlyRequest DEF LimInv, LimTypeInv

\* What is let through is counted first, so it is never more than the counter says.
LEMMA CountStep == ASSUME LimInv, LimSupposed, NEW c \in Clients, Lims!Count(c) PROVE LimInv'
<1> USE DEF LimInv
<1> DEFINE old == asked[c]
           a == old.address
           k == <<"calls", a>>
           passes == Lims!Within(counters[k].count + 1)
           at == IF passes THEN "ending" ELSE "blocking"
           r == [old EXCEPT !.at = at, !.fresh = Lims!Fresh(k)]
<1>1. /\ old \in LimRequest /\ Named(old) /\ old.at = "calling" /\ counters[k].count < MaxCount
      /\ counters' = Lims!Raised(k) /\ UNCHANGED blocked
      /\ let' = IF passes THEN [let EXCEPT ![a] = @ + 1] ELSE let
  BY DEF Lims!Count, LimTypeInv
<1>2. asked' = [asked EXCEPT ![c] = r] BY DEF Lims!Count, LimTypeInv, LimRequest
<1>3. a \in Addresses /\ k \in Lims!Keys /\ k \notin FailureKeys /\ old.todo = {} BY <1>1, KeyTypes DEF Named
<1>4. /\ at \in {"ending", "blocking"} /\ r.at = at /\ r.address = a /\ r.todo = {} /\ r \in LimRequest
  BY <1>1, <1>3 DEF LimRequest, Lims!Fresh, Ats
<1> HIDE DEF r, at
<1>5. Named(r) /\ \A j : ~WillCount(r, j) BY <1>3, <1>4 DEF Named, WillCount
<1>6. /\ counters' \in [Lims!Keys -> [count : 0..MaxCount, expires : BOOLEAN]]
      /\ counters'[k].count = counters[k].count + 1
      /\ \A j \in Lims!Keys \ {k} : counters'[j] = counters[j]
  BY <1>1, <1>3, RaisedCounter
<1>7. \A j \in FailureKeys : counters'[j].count <= counters[j].count
  BY <1>3, <1>6, KeyTypes DEF LimTypeInv, LimSupposed
<1>8. asked' \in [Clients -> LimRequest] /\ Ahead' /\ \A d \in Clients : Named(asked'[d])
  BY <1>2, <1>4, <1>5, <1>6, <1>7, RequestStep
<1>9. \A b \in Addresses \ {a} : let'[b] = let[b] /\ counters'[<<"calls", b>>] = counters[<<"calls", b>>]
  BY <1>1, <1>6, KeyTypes DEF LimTypeInv
<1>10. let[a] \in Nat /\ let[a] <= counters[k].count /\ let[a] <= MAX_REQUESTS /\ counters[k].count \in Nat
  BY <1>3 DEF LimTypeInv, LetCounted, LimSupposed
<1>11. /\ let' \in [Addresses -> Nat] /\ let'[a] <= MAX_REQUESTS
       /\ let'[a] <= counters'[k].count
  BY <1>1, <1>3, <1>6, <1>10 DEF Lims!Within, LimTypeInv, LimSupposed
<1>12. LimTypeInv' BY <1>1, <1>6, <1>8, <1>11 DEF LimTypeInv
<1>13. LetCounted' BY <1>9, <1>11 DEF LetCounted
<1> QED BY <1>8, <1>12, <1>13

LEMMA BlockStep == ASSUME LimInv, LimSupposed, NEW c \in Clients, Lims!Block(c) PROVE LimInv'
<1>1. /\ asked' = [asked EXCEPT ![c] = Lims!Rest] /\ UNCHANGED <<counters, let>>
      /\ blocked' = blocked \cup {asked[c].address} /\ asked[c].address \in Addresses
  BY DEF Lims!Block, LimInv, LimTypeInv, Named
<1> QED BY <1>1, Resting DEF LimInv, LimTypeInv

-----------------------------------------------------------------------------
LEMMA SetExpiryStep ==
    ASSUME LimInv, LimSupposed, NEW c \in Clients, NEW k \in Lims!Keys, Lims!SetExpiry(c, k) PROVE LimInv'
<1> USE DEF LimInv
<1> DEFINE old == asked[c]
           r == [old EXCEPT !.fresh = {}]
           new == [counters[k] EXCEPT !.expires = @ \/ counters[k].count > 0]
<1>1. old \in LimRequest /\ Named(old) /\ UNCHANGED <<blocked, let>> BY DEF Lims!SetExpiry, LimTypeInv
<1>2. asked' = [asked EXCEPT ![c] = r] /\ counters' = [counters EXCEPT ![k] = new]
  BY DEF Lims!SetExpiry, LimTypeInv, LimRequest
<1>3. r.at = old.at /\ r.email = old.email /\ r.address = old.address /\ r.todo = old.todo /\ r \in LimRequest
  BY <1>1 DEF LimRequest
<1>4. new.count = counters[k].count /\ new \in [count : 0..MaxCount, expires : BOOLEAN]
  BY DEF LimTypeInv
<1> HIDE DEF r, new
<1>5. Named(r) /\ \A j : WillCount(r, j) <=> WillCount(old, j)
  BY <1>1, <1>3 DEF Named, WillCount, Lims!LoginKeys
<1>6. /\ counters' \in [Lims!Keys -> [count : 0..MaxCount, expires : BOOLEAN]]
      /\ \A j \in Lims!Keys : counters'[j].count = counters[j].count
  BY <1>2, <1>4 DEF LimTypeInv
<1>7. \A j \in FailureKeys : counters'[j].count <= counters[j].count
  BY <1>6, KeyTypes DEF LimTypeInv, LimSupposed
<1>8. asked' \in [Clients -> LimRequest] /\ Ahead' /\ \A d \in Clients : Named(asked'[d])
  BY <1>2, <1>3, <1>5, <1>6, <1>7, RequestStep
<1>9. LimTypeInv' BY <1>1, <1>6, <1>8 DEF LimTypeInv
<1>10. LetCounted' BY <1>1, <1>6, KeyTypes DEF LetCounted
<1> QED BY <1>8, <1>9, <1>10

LEMMA AnswerStep == ASSUME LimInv, LimSupposed, NEW c \in Clients, Lims!Answer(c) PROVE LimInv'
BY Resting DEF Lims!Answer, LimInv, LimTypeInv

LEMMA DieStep == ASSUME LimInv, LimSupposed, NEW c \in Clients, Lims!Die(c) PROVE LimInv'
BY Resting DEF Lims!Die, LimInv, LimTypeInv

\* A counter that lapses is below its limit again, and takes what was let through with it.
LEMMA LapseStep == ASSUME LimInv, LimSupposed, NEW k \in Lims!Keys, Lims!Lapse(k) PROVE LimInv'
<1> USE DEF LimInv
<1>1. /\ counters' = [counters EXCEPT ![k] = Lims!None] /\ UNCHANGED <<blocked, asked>>
      /\ let' = IF k[1] = "calls" THEN [let EXCEPT ![k[2]] = 0] ELSE let
  BY DEF Lims!Lapse
<1>2. Lims!None \in [count : 0..MaxCount, expires : BOOLEAN] /\ Lims!None.count = 0 BY DEF Lims!None, LimSupposed
<1>3. /\ counters' \in [Lims!Keys -> [count : 0..MaxCount, expires : BOOLEAN]] /\ counters'[k].count = 0
      /\ \A j \in Lims!Keys \ {k} : counters'[j] = counters[j]
  BY <1>1, <1>2 DEF LimTypeInv
<1>4. k[1] = "calls" => k[2] \in Addresses /\ k = <<"calls", k[2]>> BY DEF Lims!Keys
<1>5. let' \in [Addresses -> Nat] BY <1>1 DEF LimTypeInv
<1>6. LimTypeInv' BY <1>1, <1>3, <1>5 DEF LimTypeInv
<1>7. LetCounted'
  <2> SUFFICES ASSUME NEW a \in Addresses
               PROVE  let'[a] <= MAX_REQUESTS /\ let'[a] <= counters'[<<"calls", a>>].count
    BY DEF LetCounted
  <2>1. CASE k = <<"calls", a>> BY <1>1, <1>3, <2>1 DEF LimTypeInv, LimSupposed
  <2>2. CASE k # <<"calls", a>>
    <3>1. let'[a] = let[a] BY <1>1, <1>4, <2>2 DEF LimTypeInv
    <3> QED BY <1>3, <2>2, <3>1, KeyTypes DEF LetCounted
  <2> QED BY <2>1, <2>2
<1>8. Ahead'
  <2> SUFFICES ASSUME NEW j \in FailureKeys
               PROVE  counters'[j].count + Cardinality(Counting(j)') + 1 <= Lims!Limit(j) + Cardinality(Clients)
    BY DEF Ahead
  <2>1. Counting(j)' = Counting(j) BY <1>1 DEF Counting, WillCount, Lims!LoginKeys
  <2>2. Counting(j) \subseteq Clients /\ j \in Lims!Keys BY KeyTypes DEF Counting
  <2>3. counters'[j].count + Cardinality(Counting(j)) + 1 <= Lims!Limit(j) + Cardinality(Clients)
    <3>1. CASE j = k BY <1>3, <2>2, <3>1, SetSizes, LimitType
    <3>2. CASE j # k BY <1>3, <2>2, <3>2 DEF Ahead
    <3> QED BY <3>1, <3>2
  <2> QED BY <2>1, <2>3
<1> QED BY <1>6, <1>7, <1>8

LEMMA UnblockStep == ASSUME LimInv, LimSupposed, NEW a \in blocked, Lims!Unblock(a) PROVE LimInv'
<1> USE DEF LimInv
<1>1. blocked' = blocked \ {a} /\ UNCHANGED <<counters, let, asked>> BY DEF Lims!Unblock
<1>2. LimTypeInv' BY <1>1 DEF LimTypeInv
<1>3. Ahead' /\ LetCounted' BY <1>1 DEF Ahead, Counting, WillCount, Lims!LoginKeys, LetCounted
<1> QED BY <1>2, <1>3

-----------------------------------------------------------------------------
LEMMA LimitsInit == Lims!Init /\ LimSupposed => LimInv
<1> SUFFICES ASSUME Lims!Init, LimSupposed PROVE LimInv OBVIOUS
<1>1. Lims!None \in [count : 0..MaxCount, expires : BOOLEAN] /\ Lims!None.count = 0 BY DEF Lims!None, LimSupposed
<1>2. counters = [k \in Lims!Keys |-> Lims!None] /\ blocked = {} /\ let = [a \in Addresses |-> 0] /\ asked = [c \in Clients |-> Lims!Rest]
  BY DEF Lims!Init
<1>3. LimTypeInv BY <1>1, <1>2, RestType DEF LimTypeInv
<1>4. Ahead
  <2> SUFFICES ASSUME NEW k \in FailureKeys
               PROVE  counters[k].count + Cardinality(Counting(k)) + 1 <= Lims!Limit(k) + Cardinality(Clients)
    BY DEF Ahead
  <2>1. Counting(k) = {} BY <1>2, RestType DEF Counting
  <2>2. counters[k].count = 0 BY <1>1, <1>2, KeyTypes
  <2> QED BY <2>1, <2>2, SetSizes, LimitType, FS_EmptySet
<1>5. LetCounted
  <2> SUFFICES ASSUME NEW a \in Addresses
               PROVE  let[a] <= MAX_REQUESTS /\ let[a] <= counters[<<"calls", a>>].count
    BY DEF LetCounted
  <2>1. let[a] = 0 /\ counters[<<"calls", a>>].count = 0 BY <1>1, <1>2, KeyTypes
  <2> QED BY <2>1 DEF LimSupposed
<1> QED BY <1>3, <1>4, <1>5 DEF LimInv

LEMMA LimitsStep == LimInv /\ LimSupposed /\ [Lims!Next]_(Lims!vars) => LimInv'
<1> SUFFICES ASSUME LimInv, LimSupposed, [Lims!Next]_(Lims!vars) PROVE LimInv' OBVIOUS
<1>1. CASE UNCHANGED Lims!vars
  BY <1>1 DEF Lims!vars, LimInv, LimTypeInv, Ahead, Counting, WillCount, Lims!LoginKeys, LetCounted
<1> QED
  BY <1>1, AttemptStep, AdmitStep, WrongStep, RightStep, RecordFailureStep, CallStep, CountStep, BlockStep,
     SetExpiryStep, AnswerStep, DieStep, LapseStep, UnblockStep
  DEF Lims!Next

LEMMA LimitsFollow == ASSUME LimInv, LimSupposed PROVE Lims!TypeOK /\ Lims!LimitsHold
<1> USE DEF LimInv
<1>1. Lims!TypeOK BY KeyTypes DEF Lims!TypeOK, LimTypeInv, LimRequest
<1>2. ASSUME NEW k \in FailureKeys PROVE counters[k].count <= Lims!Limit(k) + Cardinality(Clients) - 1
  <2>1. Counting(k) \subseteq Clients /\ k \in Lims!Keys BY KeyTypes DEF Counting
  <2>2. counters[k].count \in Nat BY <2>1 DEF LimTypeInv, LimSupposed
  <2> QED BY <2>1, <2>2, SetSizes, LimitType DEF Ahead
<1>3. Lims!Cardinality(Clients) = Cardinality(Clients) BY DEF Cardinality, Lims!Cardinality
<1>4. Lims!LimitsHold BY <1>2, <1>3 DEF Lims!LimitsHold, FailureKeys, LetCounted
<1> QED BY <1>1, <1>4

-----------------------------------------------------------------------------
(***************************************************************************)
(* Event streams.                                                          *)
(***************************************************************************)
saved == s1
writers == s2
stream == s3
last == s4
dropped == s5
untold == s6
watchers == s7
USE DEF saved, writers, stream, last, dropped, untold, watchers

Writer == [at : {"rest", "saved", "written", "told"}, state : Nat]
Watcher == [at : {"off", "fixed", "open"}, after : Nat, since : Nat, got : SUBSET Nat, shown : Nat]

StrTypeInv ==
    /\ saved \in 1..MaxSaves
    /\ writers \in [Runs \cup Routes -> Writer]
    /\ \A w \in Runs \cup Routes : writers[w].at # "rest" => writers[w].state \in 1..MaxSaves
    /\ last \in Nat
    /\ Stream!Kept \cup dropped = 1..last /\ Stream!Kept \cap dropped = {}
    /\ stream \in [Stream!Kept -> Nat]
    /\ watchers \in [Watchers -> Watcher]
    /\ \A w \in Watchers : watchers[w].got \subseteq 1..last

\* A client reads on from the last event it got, or from where it began.
Position ==
    \A w \in Watchers :
        watchers[w].at # "off" => watchers[w].after = IF watchers[w].got = {} THEN watchers[w].since ELSE Stream!Max(watchers[w].got)

StrInv == StrTypeInv /\ Position /\ Stream!ReconnectLosesNothing
StrSupposed == MaxSaves \in Nat \ {0} /\ MAX_LENGTH \in Nat /\ COUNT \in Nat /\ MaxEvents \in Nat
      /\ PNG_MAX \in Nat /\ MaxRenders \in Nat /\ Size \in Nat

-----------------------------------------------------------------------------
LEMMA LeastNatural == ASSUME NEW T, T \subseteq Nat, T # {} PROVE \E x \in T : \A y \in T : x <= y
<1> DEFINE R == {pair \in Nat \X Nat : pair[1] < pair[2]}
<1>1. IsWellFoundedOn(R, Nat) BY NatLessThanWellFounded DEF OpToRel
<1> HIDE DEF R
<1>2. PICK x \in T : \A y \in T : <<y, x>> \notin R BY <1>1, WFMin
<1>3. ASSUME NEW y \in T PROVE x <= y
  <2>1. <<y, x>> \notin R BY <1>2
  <2> QED BY <2>1 DEF R
<1> QED BY <1>3

LEMMA MaxOf ==
    ASSUME NEW S, NEW m \in S, \A e \in S : m >= e
    PROVE  Stream!Max(S) \in S /\ \A e \in S : Stream!Max(S) >= e
<1>1. \E x \in S : \A y \in S : x >= y OBVIOUS
<1> QED BY <1>1 DEF Stream!Max

LEMMA MaxIs == ASSUME NEW S, S \subseteq Nat, NEW m \in S, \A e \in S : e <= m PROVE Stream!Max(S) = m
<1>1. \A e \in S : m >= e OBVIOUS
<1>2. PICK x : x = Stream!Max(S) OBVIOUS
<1>3. x \in S /\ m \in Nat /\ x >= m /\ x <= m BY <1>1, <1>2, MaxOf
<1>4. x \in Nat BY <1>3
<1> QED BY <1>2, <1>3, <1>4

LEMMA LargestNatural ==
    ASSUME NEW n \in Nat, NEW S, S \subseteq 0..n, S # {}
    PROVE  Stream!Max(S) \in S /\ \A e \in S : e <= Stream!Max(S)
<1> DEFINE T == {n - e : e \in S}
<1>1. T \subseteq Nat BY SMT
<1>2. PICK x \in T : \A y \in T : x <= y BY <1>1, LeastNatural
<1>3. PICK m \in S : x = n - m OBVIOUS
<1>4. ASSUME NEW e \in S PROVE m >= e
  <2>1. n - m <= n - e BY <1>2, <1>3
  <2> QED BY <2>1
<1>5. Stream!Max(S) \in S /\ \A e \in S : Stream!Max(S) >= e BY <1>4, MaxOf
<1> QED BY <1>5

LEMMA LastIdIs == ASSUME StrInv PROVE Stream!LastId \in Nat
<1>1. Stream!Kept \subseteq 0..last /\ last \in Nat BY DEF StrInv, StrTypeInv
<1>2. CASE Stream!Kept # {}
  <2>1. PICK m : m = Stream!Max(Stream!Kept) OBVIOUS
  <2>2. m \in Stream!Kept BY <1>1, <1>2, <2>1, LargestNatural
  <2>3. Stream!LastId = m BY <1>2, <2>1 DEF Stream!LastId
  <2>4. m \in Nat BY <1>1, <2>2
  <2> QED BY <2>3, <2>4
<1> QED BY <1>2 DEF Stream!LastId, Stream!START

\* Only who publishes and saves changes.
LEMMA WritersStep ==
    ASSUME StrInv, NEW w \in Runs \cup Routes, NEW r \in Writer, r.at # "rest" => r.state \in 1..MaxSaves,
           writers' = [writers EXCEPT ![w] = r], saved' \in 1..MaxSaves,
           UNCHANGED <<stream, last, dropped, watchers>>
    PROVE  StrInv'
<1> USE DEF StrInv
<1>1. /\ writers' \in [Runs \cup Routes -> Writer]
      /\ \A x \in Runs \cup Routes : writers'[x].at # "rest" => writers'[x].state \in 1..MaxSaves
  BY DEF StrTypeInv
<1>2. Stream!Kept' = Stream!Kept BY DEF Stream!Kept
<1>3. StrTypeInv' BY <1>1, <1>2 DEF StrTypeInv
<1> QED BY <1>2, <1>3 DEF Position, Stream!ReconnectLosesNothing

LEMMA GoesStep ==
    ASSUME StrInv, NEW w \in Runs \cup Routes, NEW at \in {"rest", "saved", "written", "told"}, NEW state \in Nat,
           at # "rest" => state \in 1..MaxSaves, Stream!Goes(w, at, state), saved' \in 1..MaxSaves,
           UNCHANGED <<stream, last, dropped, watchers>>
    PROVE  StrInv'
<1> DEFINE r == [at |-> at, state |-> state]
<1>1. r \in Writer /\ r.at = at /\ r.state = state BY DEF Writer
<1>2. writers' = [writers EXCEPT ![w] = r] BY DEF Stream!Goes
<1> HIDE DEF r
<1> QED BY <1>1, <1>2, WritersStep

\* An event is added at the end, and the oldest may go: what is gone is dropped.
LEMMA PublishStep ==
    ASSUME StrInv, NEW state \in Nat, Stream!Publish(state), UNCHANGED <<saved, watchers>>,
           writers' \in [Runs \cup Routes -> Writer],
           \A x \in Runs \cup Routes : writers'[x].at # "rest" => writers'[x].state \in 1..MaxSaves
    PROVE  StrInv'
<1> USE DEF StrInv
<1> PICK oldest \in 1..(last + 1) :
           LET gone == {e \in Stream!Kept : e < oldest} IN
           /\ stream' = [e \in (Stream!Kept \cup {last + 1}) \ gone |-> IF e = last + 1 THEN state ELSE stream[e]]
           /\ dropped' = dropped \cup gone
  BY DEF Stream!Publish
<1> DEFINE gone == {e \in Stream!Kept : e < oldest}
<1>1. last' = last + 1 /\ last \in Nat BY DEF Stream!Publish, StrTypeInv
<1>2. Stream!Kept' = (Stream!Kept \cup {last + 1}) \ gone /\ dropped' = dropped \cup gone BY DEF Stream!Kept
<1>3. last + 1 \notin Stream!Kept /\ gone \subseteq Stream!Kept /\ last + 1 \notin gone BY <1>1 DEF StrTypeInv
<1>4. Stream!Kept' \cup dropped' = 1..last' /\ Stream!Kept' \cap dropped' = {} BY <1>1, <1>2, <1>3 DEF StrTypeInv
<1>5. stream' \in [Stream!Kept' -> Nat] BY <1>2 DEF StrTypeInv
<1>6. StrTypeInv' BY <1>1, <1>4, <1>5 DEF StrTypeInv
<1>7. Position' /\ Stream!ReconnectLosesNothing' BY <1>2 DEF Position, Stream!ReconnectLosesNothing
<1> QED BY <1>6, <1>7

-----------------------------------------------------------------------------
LEMMA WorkerSavesStep == ASSUME StrInv, StrSupposed, NEW w \in Runs, Stream!WorkerSaves(w) PROVE StrInv'
<1>1. saved + 1 \in 1..MaxSaves /\ saved + 1 \in Nat BY DEF Stream!WorkerSaves, StrInv, StrTypeInv, StrSupposed
<1> QED BY <1>1, GoesStep DEF Stream!WorkerSaves

LEMMA WorkerTellsStep == ASSUME StrInv, NEW w \in Runs, Stream!WorkerTells(w) PROVE StrInv'
<1> USE DEF StrInv
<1> DEFINE r == [at |-> "rest", state |-> 0]
<1>1. r \in Writer /\ r.at = "rest" BY DEF Writer
<1>2. writers' = [writers EXCEPT ![w] = r] BY DEF Stream!WorkerTells, Stream!Goes
<1> HIDE DEF r
<1>3. /\ writers' \in [Runs \cup Routes -> Writer]
      /\ \A x \in Runs \cup Routes : writers'[x].at # "rest" => writers'[x].state \in 1..MaxSaves
  BY <1>1, <1>2 DEF StrTypeInv
<1>4. writers[w].state \in Nat BY DEF StrTypeInv, Writer
<1> QED BY <1>3, <1>4, PublishStep DEF Stream!WorkerTells

LEMMA TextStep == ASSUME StrInv, NEW w \in Runs, Stream!Text(w) PROVE StrInv'
<1>1. UNCHANGED writers BY DEF Stream!Text
<1>2. Stream!TEXT \in Nat BY DEF Stream!TEXT
<1> QED BY <1>1, <1>2, PublishStep DEF Stream!Text, StrInv, StrTypeInv

LEMMA RouteWritesStep == ASSUME StrInv, StrSupposed, NEW r \in Routes, Stream!RouteWrites(r) PROVE StrInv'
<1>1. /\ saved + 1 \in 1..MaxSaves /\ saved + 1 \in Nat /\ saved' \in 1..MaxSaves
  BY DEF Stream!RouteWrites, StrInv, StrTypeInv, StrSupposed
<1> QED BY <1>1, GoesStep DEF Stream!RouteWrites

LEMMA RouteTellsStep == ASSUME StrInv, NEW r \in Routes, Stream!RouteTells(r) PROVE StrInv'
<1> USE DEF StrInv
<1> DEFINE n == [at |-> "told", state |-> writers[r].state]
<1>1. writers[r].state \in Nat /\ writers[r].state \in 1..MaxSaves BY DEF Stream!RouteTells, StrTypeInv, Writer
<1>2. n \in Writer /\ n.state \in 1..MaxSaves BY <1>1 DEF Writer
<1>3. writers' = [writers EXCEPT ![r] = n] BY DEF Stream!RouteTells, Stream!Goes
<1> HIDE DEF n
<1>4. /\ writers' \in [Runs \cup Routes -> Writer]
      /\ \A x \in Runs \cup Routes : writers'[x].at # "rest" => writers'[x].state \in 1..MaxSaves
  BY <1>2, <1>3 DEF StrTypeInv
<1> QED BY <1>1, <1>4, PublishStep DEF Stream!RouteTells

LEMMA RouteCommitsStep == ASSUME StrInv, NEW r \in Routes, Stream!RouteCommits(r) PROVE StrInv'
<1>1. writers[r].state \in 1..MaxSaves BY DEF Stream!RouteCommits, StrInv, StrTypeInv
<1> QED BY <1>1, GoesStep DEF Stream!RouteCommits

LEMMA NotPublishedStep == ASSUME StrInv, NEW w \in Runs \cup Routes, Stream!NotPublished(w) PROVE StrInv'
<1> USE DEF StrInv
<1> DEFINE old == writers[w]
           r == IF old.at = "saved" THEN Stream!Resting ELSE [old EXCEPT !.at = "told"]
<1>1. old \in Writer /\ old.state \in 1..MaxSaves BY DEF Stream!NotPublished, StrTypeInv
<1>2. r \in Writer /\ (r.at # "rest" => r.state \in 1..MaxSaves) BY <1>1 DEF Writer, Stream!Resting
<1>3. writers' = [writers EXCEPT ![w] = r] BY DEF Stream!NotPublished
<1> HIDE DEF r, old
<1> QED BY <1>2, <1>3, WritersStep DEF Stream!NotPublished, StrTypeInv

LEMMA ExpireStep == ASSUME StrInv, Stream!Expire PROVE StrInv'
<1> USE DEF StrInv
<1>1. /\ dropped' = dropped \cup Stream!Kept /\ stream' = [e \in {} |-> stream[e]]
      /\ UNCHANGED <<saved, writers, last, untold, watchers>>
  BY DEF Stream!Expire, Stream!Restrict
<1>2. Stream!Kept' = {} BY <1>1 DEF Stream!Kept
<1>3. stream' \in [Stream!Kept' -> Nat] BY <1>1, <1>2
<1>4. StrTypeInv' BY <1>1, <1>2, <1>3 DEF StrTypeInv
<1>5. Position' /\ Stream!ReconnectLosesNothing' BY <1>1 DEF Position, Stream!ReconnectLosesNothing
<1> QED BY <1>4, <1>5

-----------------------------------------------------------------------------
\* What a client holds of the stream is without a gap.
Sound(r) ==
    /\ r \in Watcher /\ r.got \subseteq 1..last
    /\ r.at # "off" => r.after = IF r.got = {} THEN r.since ELSE Stream!Max(r.got)
    /\ r.got # {} => {e \in (r.since + 1)..Stream!Max(r.got) : e \notin r.got} \subseteq dropped

LEMMA SoundNow == ASSUME StrInv, NEW w \in Watchers PROVE Sound(watchers[w])
BY DEF StrInv, StrTypeInv, Position, Stream!ReconnectLosesNothing, Sound

LEMMA WatcherStep ==
    ASSUME StrInv, NEW w \in Watchers, NEW r, Sound(r), watchers' = [watchers EXCEPT ![w] = r],
           UNCHANGED <<saved, writers, stream, last, dropped, untold>>
    PROVE  StrInv'
<1> USE DEF StrInv
<1>1. watchers' \in [Watchers -> Watcher] BY DEF StrTypeInv, Sound
<1>2. ASSUME NEW x \in Watchers PROVE Sound(watchers'[x])
  BY SoundNow DEF StrTypeInv
<1>3. Stream!Kept' = Stream!Kept BY DEF Stream!Kept
<1>4. StrTypeInv' BY <1>1, <1>2, <1>3 DEF StrTypeInv, Sound
<1>5. Position' BY <1>2 DEF Position, Sound
<1>6. Stream!ReconnectLosesNothing' BY <1>2 DEF Stream!ReconnectLosesNothing, Sound
<1> QED BY <1>4, <1>5, <1>6

LEMMA WatchStep == ASSUME StrInv, NEW w \in Watchers, Stream!Watch(w) PROVE StrInv'
<1> USE DEF StrInv
<1> DEFINE old == watchers[w]
           point == Stream!ResumePoint(w)
<1>1. old \in Watcher /\ Sound(old) BY SoundNow DEF Sound
<1>2. UNCHANGED <<saved, writers, stream, last, dropped, untold>> BY DEF Stream!Watch
<1>3. CASE old.got = {}
  <2> DEFINE r == [Stream!Off EXCEPT !.at = "fixed", !.after = Stream!LastId, !.since = Stream!LastId]
  <2>1. watchers' = [watchers EXCEPT ![w] = r] BY <1>3 DEF Stream!Watch, Stream!ResumePoint
  <2>2. Stream!LastId \in Nat BY LastIdIs DEF StrTypeInv
  <2>3. r \in Watcher /\ r.got = {} /\ r.after = r.since BY <2>2 DEF Stream!Off, Watcher, Stream!START
  <2> HIDE DEF r
  <2>4. Sound(r) BY <2>3 DEF Sound
  <2> QED BY <1>2, <2>1, <2>4, WatcherStep
<1>4. CASE old.got # {}
  <2> PICK m : m = Stream!Max(old.got) OBVIOUS
  <2>1. m \in 1..last /\ last \in Nat BY <1>1, <1>4, LargestNatural DEF Sound, StrTypeInv
  <2> DEFINE r == [old EXCEPT !.at = "fixed", !.after = m]
  <2>2. point = m /\ m # Stream!START BY <1>4, <2>1 DEF Stream!ResumePoint, Stream!START
  <2>3. watchers' = [watchers EXCEPT ![w] = r] BY <2>2 DEF Stream!Watch
  <2>4. r.at = "fixed" /\ r.got = old.got /\ r.after = m /\ r.since = old.since BY <1>1 DEF Watcher
  <2>5. m \in Nat BY <2>1
  <2>6. r \in Watcher BY <1>1, <2>5 DEF Watcher
  <2> HIDE DEF r
  <2>7. Sound(r) BY <1>1, <1>4, <2>4, <2>6 DEF Sound
  <2> QED BY <1>2, <2>3, <2>7, WatcherStep
<1> QED BY <1>3, <1>4

LEMMA SnapshotStep == ASSUME StrInv, StrSupposed, NEW w \in Watchers, Stream!Snapshot(w) PROVE StrInv'
<1> USE DEF StrInv
<1> DEFINE old == watchers[w]
           r == [old EXCEPT !.at = "open", !.shown = saved, !.got = @ \cup Stream!NoId(w)]
<1>1. old \in Watcher /\ Sound(old) /\ old.at = "fixed" BY SoundNow DEF Sound, Stream!Snapshot
<1>2. /\ UNCHANGED <<saved, writers, stream, last, dropped, untold>>
      /\ watchers' = [watchers EXCEPT ![w] = r]
  BY DEF Stream!Snapshot, StrTypeInv, Watcher
<1>3. r.at = "open" /\ r.got = old.got /\ r.after = old.after /\ r.since = old.since
  BY <1>1 DEF Watcher, Stream!NoId
<1>4. saved \in Nat BY DEF StrTypeInv, StrSupposed
<1>5. r \in Watcher BY <1>1, <1>4 DEF Watcher, Stream!NoId
<1> HIDE DEF r
<1>6. Sound(r) BY <1>1, <1>3, <1>5 DEF Sound
<1> QED BY <1>2, <1>6, WatcherStep

LEMMA LeaveStep == ASSUME StrInv, NEW w \in Watchers, Stream!Leave(w) PROVE StrInv'
<1> USE DEF StrInv
<1> DEFINE old == watchers[w]
           r == [old EXCEPT !.at = "off"]
<1>1. old \in Watcher /\ Sound(old) BY SoundNow DEF Sound
<1>2. /\ UNCHANGED <<saved, writers, stream, last, dropped, untold>>
      /\ watchers' = [watchers EXCEPT ![w] = r]
  BY DEF Stream!Leave
<1>3. r \in Watcher /\ r.at = "off" /\ r.got = old.got /\ r.since = old.since BY <1>1 DEF Watcher
<1> HIDE DEF r
<1>4. Sound(r) BY <1>1, <1>3 DEF Sound
<1> QED BY <1>2, <1>4, WatcherStep

LEMMA SameSizes == \A S : Stream!Cardinality(S) = Cardinality(S)
BY DEF Cardinality, Stream!Cardinality

\* One read hands on the next events the stream still has, none of them left out.
LEMMA ReadsOn ==
    ASSUME StrInv, NEW w \in Watchers, NEW upto,
           upto \in {e \in Stream!After(w) : Stream!Cardinality({x \in Stream!After(w) : x <= e}) <= COUNT}, COUNT \in Nat
    PROVE  {e \in {d \in Stream!After(w) : Stream!Cardinality({x \in Stream!After(w) : x <= d}) <= COUNT} : e <= upto}
             = {e \in Stream!After(w) : e <= upto}
<1> SUFFICES ASSUME NEW e \in Stream!After(w), e <= upto PROVE Stream!Cardinality({x \in Stream!After(w) : x <= e}) <= COUNT
  OBVIOUS
<1> DEFINE S == {x \in Stream!After(w) : x <= e}
           T == {x \in Stream!After(w) : x <= upto}
<1>1. Stream!After(w) \subseteq 1..last /\ last \in Nat BY DEF Stream!After, StrInv, StrTypeInv
<1>2. IsFiniteSet(Stream!After(w)) BY <1>1, FS_Interval, FS_Subset
<1>3. S \subseteq T /\ T \subseteq Stream!After(w) BY <1>1
<1>4. IsFiniteSet(T) BY <1>2, <1>3, FS_Subset
<1>5. Cardinality(S) <= Cardinality(T) /\ Cardinality(S) \in Nat /\ Cardinality(T) \in Nat
  BY <1>3, <1>4, FS_Subset, FS_CardinalityType
<1>6. Cardinality(T) <= COUNT BY SameSizes
<1> HIDE DEF S, T
<1>7. Cardinality(S) <= COUNT BY <1>5, <1>6
<1> QED BY <1>7, SameSizes DEF S

LEMMA FollowStep == ASSUME StrInv, StrSupposed, NEW w \in Watchers, Stream!Follow(w) PROVE StrInv'
<1> USE DEF StrInv
<1> DEFINE old == watchers[w]
           batch == {e \in Stream!After(w) : Stream!Cardinality({x \in Stream!After(w) : x <= e}) <= COUNT}
<1> PICK upto \in batch :
           LET events == {e \in batch : e <= upto} IN
           watchers' = [watchers EXCEPT ![w] =
               [old EXCEPT !.at = IF events = batch THEN "open" ELSE "off", !.after = upto,
                           !.got = old.got \cup events, !.shown = Stream!Told(old.shown, events)]]
  BY DEF Stream!Follow
<1>1. old \in Watcher /\ Sound(old) /\ old.at = "open" BY SoundNow DEF Sound, Stream!Follow
<1>2. UNCHANGED <<saved, writers, stream, last, dropped, untold>> BY DEF Stream!Follow
<1>3. PICK events : events = {e \in Stream!After(w) : e <= upto} /\ events = {e \in batch : e <= upto}
  BY ReadsOn DEF StrSupposed
<1> DEFINE at == IF events = batch THEN "open" ELSE "off"
           shown == Stream!Told(old.shown, events)
           r == [old EXCEPT !.at = at, !.after = upto, !.got = old.got \cup events, !.shown = shown]
<1>4. watchers' = [watchers EXCEPT ![w] = r] BY <1>3 DEF StrTypeInv
<1>5. /\ Stream!After(w) \subseteq Stream!Kept /\ Stream!Kept \subseteq 1..last /\ last \in Nat /\ upto \in Stream!After(w) /\ upto \in Nat
      /\ upto > old.after /\ upto \in events
  BY <1>3 DEF Stream!After, StrTypeInv
<1>6. shown \in Nat
  <2> DEFINE states == {e \in events : stream[e] # Stream!TEXT}
  <2>1. states \subseteq Stream!Kept /\ states \subseteq 0..last /\ last \in Nat BY <1>3, <1>5
  <2>2. states # {} => Stream!Max(states) \in Stream!Kept BY <2>1, LargestNatural
  <2> QED BY <1>1, <2>2 DEF Stream!Told, Watcher, StrTypeInv
<1> HIDE DEF shown, at, batch
<1>7. r.at = at /\ r.after = upto /\ r.got = old.got \cup events /\ r.since = old.since
  BY <1>1 DEF Watcher
<1>16. events \subseteq Nat /\ at \in {"off", "open"} BY <1>3, <1>5 DEF at
<1>17. r \in Watcher BY <1>1, <1>5, <1>6, <1>16 DEF Watcher
<1> HIDE DEF r
<1>8. old.after \in Nat /\ old.since \in Nat /\ old.got \subseteq 1..last BY <1>1 DEF Watcher, Sound
<1>9. \A e \in old.got : e <= old.after
  BY <1>1, <1>5, <1>8, LargestNatural DEF Sound
<1>10. upto \in r.got /\ \A e \in r.got : e <= upto BY <1>3, <1>5, <1>7, <1>8, <1>9
<1>11. r.got \subseteq 1..last BY <1>3, <1>5, <1>7, <1>8
<1>12. Stream!Max(r.got) = upto BY <1>10, <1>11, MaxIs
<1>13. \A e \in (old.since + 1)..old.after : e \notin old.got => e \in dropped BY <1>1, <1>8 DEF Sound
<1>14. ASSUME NEW e \in (r.since + 1)..upto, e \notin r.got PROVE e \in dropped
  <2>1. CASE e <= old.after BY <1>5, <1>7, <1>8, <1>13, <1>14, <2>1
  <2>2. CASE e > old.after
    <3>1. e \notin Stream!Kept BY <1>3, <1>5, <1>7, <1>8, <1>14, <2>2 DEF Stream!After
    <3>2. e \in 1..last BY <1>5, <1>7, <1>8
    <3> QED BY <3>1, <3>2 DEF StrTypeInv
  <2> QED BY <1>5, <1>8, <1>7, <2>1, <2>2
<1>15. Sound(r) BY <1>5, <1>7, <1>17, <1>10, <1>11, <1>12, <1>14 DEF Sound
<1> QED BY <1>2, <1>4, <1>15, WatcherStep

-----------------------------------------------------------------------------
LEMMA StreamInit == Stream!Init /\ StrSupposed => StrInv
<1> SUFFICES ASSUME Stream!Init, StrSupposed PROVE StrInv OBVIOUS
<1>1. Stream!Kept = {} /\ stream \in [Stream!Kept -> Nat] /\ last = 0 /\ dropped = {} /\ saved = 1
  BY DEF Stream!Init, Stream!Kept, Stream!START
<1>2. /\ writers \in [Runs \cup Routes -> Writer]
      /\ \A w \in Runs \cup Routes : writers[w].at = "rest"
  BY DEF Stream!Init, Stream!Resting, Writer
<1>3. /\ watchers \in [Watchers -> Watcher]
      /\ \A w \in Watchers : watchers[w].at = "off" /\ watchers[w].got = {}
  BY DEF Stream!Init, Stream!Off, Watcher, Stream!START
<1>4. StrTypeInv BY <1>1, <1>2, <1>3 DEF StrTypeInv, StrSupposed
<1> QED BY <1>1, <1>3, <1>4 DEF StrInv, Position, Stream!ReconnectLosesNothing

LEMMA StreamStep == StrInv /\ StrSupposed /\ [Stream!Next]_(Stream!vars) => StrInv'
<1> SUFFICES ASSUME StrInv, StrSupposed, [Stream!Next]_(Stream!vars) PROVE StrInv' OBVIOUS
<1>1. CASE UNCHANGED Stream!vars
  BY <1>1 DEF Stream!vars, StrInv, StrTypeInv, Position, Stream!ReconnectLosesNothing, Stream!Kept
<1> QED
  BY <1>1, WorkerSavesStep, WorkerTellsStep, TextStep, RouteWritesStep, RouteTellsStep, RouteCommitsStep,
     NotPublishedStep, WatchStep, SnapshotStep, FollowStep, LeaveStep, ExpireStep
  DEF Stream!Next

LEMMA StreamFollow == StrInv => Stream!TypeOK /\ Stream!ReconnectLosesNothing
BY DEF StrInv, StrTypeInv, Stream!TypeOK, Writer, Watcher

-----------------------------------------------------------------------------
(***************************************************************************)
(* Rendering.                                                              *)
(***************************************************************************)
browser == s1
lock == s2
active == s3
renders == s4
req == s5
reply == s6
opened == s7
crashes == s8
USE DEF browser, lock, active, renders, req, reply, opened, crashes

Render == [at : {"idle", "queued", "slot", "launching", "opening", "page", "closing"},
           kind : {"none", "png", "scroll", "paged", "check"}, height : Nat,
           passes : Int, on : Int, code : Nat]

RenTypeInv ==
    /\ browser \in [n : Int, up : BOOLEAN] /\ lock \in Clients \cup {"nobody"}
    /\ {active, renders, opened, crashes} \subseteq Int
    /\ req \in [Clients -> Render]

\* Pages are open, or will be: the count is ahead of the first, the bound of the second.
Open == {c \in Clients : req[c].at \in {"opening", "page"}}
Coming == {c \in Clients : req[c].at \in {"slot", "launching"}}
Counted == /\ Cardinality(Open) <= active /\ active <= opened
           /\ 0 <= renders /\ renders <= opened
           /\ opened + Cardinality(Coming) <= MaxRenders + Cardinality(Clients)

\* The browser is down while it is replaced, and unless it crashed it is down under no page.
DownAlone == /\ lock # "nobody" => ~browser.up
             /\ 0 <= crashes /\ (crashes = 0 /\ ~browser.up => Open = {})

RenInv == RenTypeInv /\ Counted /\ DownAlone /\ Pool!CutSaysSo

RenSupposed == /\ IsFiniteSet(Clients) /\ "nobody" \notin Clients /\ MaxRenders \in Nat /\ PNG_MAX \in Nat
               /\ {PDF_MAX, MIN_SCALE} \subseteq Nat \ {0} /\ Heights \subseteq Nat

-----------------------------------------------------------------------------
LEMMA PagesAreFew ==
    ASSUME RenSupposed
    PROVE  /\ IsFiniteSet(Open) /\ Cardinality(Open) \in Nat
           /\ IsFiniteSet(Coming) /\ Cardinality(Coming) \in Nat /\ Cardinality(Coming) <= Cardinality(Clients)
           /\ Cardinality(Clients) \in Nat /\ MaxRenders \in Nat
<1>1. Open \subseteq Clients /\ Coming \subseteq Clients BY DEF Open, Coming
<1> QED BY <1>1, FS_Subset, FS_CardinalityType DEF RenSupposed

LEMMA InOrOut ==
    ASSUME NEW S, IsFiniteSet(S), NEW x
    PROVE  /\ Cardinality(S \cup {x}) = Cardinality(S) + (IF x \in S THEN 0 ELSE 1)
           /\ Cardinality(S \ {x}) = Cardinality(S) - (IF x \in S THEN 1 ELSE 0)
<1>1. Cardinality(S) \in Nat BY FS_CardinalityType
<1>2. Cardinality(S \cup {x}) = IF x \in S THEN Cardinality(S) ELSE Cardinality(S) + 1 BY FS_AddElement
<1>3. Cardinality(S \ {x}) = IF x \in S THEN Cardinality(S) - 1 ELSE Cardinality(S) BY FS_RemoveElement
<1> QED BY <1>1, <1>2, <1>3

\* One request changes: the pages open, and those that will be, are the others and perhaps it.
LEMMA OneMoves ==
    ASSUME RenSupposed, RenTypeInv, NEW c \in Clients, NEW r \in Render, req' = [req EXCEPT ![c] = r]
    PROVE  /\ req' \in [Clients -> Render] /\ req'[c] = r
           /\ Open' = IF r.at \in {"opening", "page"} THEN Open \cup {c} ELSE Open \ {c}
           /\ Coming' = IF r.at \in {"slot", "launching"} THEN Coming \cup {c} ELSE Coming \ {c}
           /\ Cardinality(Open') = Cardinality(Open)
                + (IF r.at \in {"opening", "page"} THEN 1 ELSE 0) - (IF req[c].at \in {"opening", "page"} THEN 1 ELSE 0)
           /\ Cardinality(Coming') = Cardinality(Coming)
                + (IF r.at \in {"slot", "launching"} THEN 1 ELSE 0) - (IF req[c].at \in {"slot", "launching"} THEN 1 ELSE 0)
           /\ Cardinality(Coming') <= Cardinality(Clients)
<1>1. req' \in [Clients -> Render] /\ req'[c] = r /\ \A d \in Clients \ {c} : req'[d] = req[d] BY DEF RenTypeInv
<1>2. Open' = IF r.at \in {"opening", "page"} THEN Open \cup {c} ELSE Open \ {c} BY <1>1 DEF Open
<1>3. Coming' = IF r.at \in {"slot", "launching"} THEN Coming \cup {c} ELSE Coming \ {c} BY <1>1 DEF Coming
<1>4. (c \in Open <=> req[c].at \in {"opening", "page"}) /\ (c \in Coming <=> req[c].at \in {"slot", "launching"})
  BY DEF Open, Coming
<1>5. /\ Cardinality(Open \cup {c}) = Cardinality(Open) + (IF c \in Open THEN 0 ELSE 1)
      /\ Cardinality(Open \ {c}) = Cardinality(Open) - (IF c \in Open THEN 1 ELSE 0)
      /\ Cardinality(Coming \cup {c}) = Cardinality(Coming) + (IF c \in Coming THEN 0 ELSE 1)
      /\ Cardinality(Coming \ {c}) = Cardinality(Coming) - (IF c \in Coming THEN 1 ELSE 0)
  BY PagesAreFew, InOrOut
<1>6. Coming' \subseteq Clients BY <1>3 DEF Coming
<1>7. Cardinality(Coming') <= Cardinality(Clients) BY <1>6, FS_Subset DEF RenSupposed
<1>8. Cardinality(Open) \in Int /\ Cardinality(Coming) \in Int BY PagesAreFew
<1> QED BY <1>1, <1>2, <1>3, <1>4, <1>5, <1>7, <1>8

\* The counts of a step in which one request changes: it opens no page; it takes a slot; it
\* opens a page; it leaves one.
LEMMA CountsMove ==
    ASSUME RenSupposed, RenTypeInv, Counted, NEW c \in Clients, NEW r \in Render, req' = [req EXCEPT ![c] = r],
           \/ /\ r.at \in {"opening", "page"} => req[c].at \in {"opening", "page"}
              /\ r.at \in {"slot", "launching"} => req[c].at \in {"slot", "launching"}
              /\ UNCHANGED <<active, renders, opened>>
           \/ r.at = "slot" /\ opened < MaxRenders /\ UNCHANGED <<active, renders, opened>>
           \/ /\ r.at = "opening" /\ req[c].at \in {"slot", "launching"}
              /\ active' = active + 1 /\ opened' = opened + 1 /\ renders' \in {renders + 1, 1}
           \/ r.at = "closing" /\ req[c].at = "page" /\ active' = active - 1 /\ UNCHANGED <<renders, opened>>
    PROVE  Counted'
<1> DEFINE o == Cardinality(Open)
           m == Cardinality(Coming)
           n == Cardinality(Clients)
           d == Cardinality(Open')
           e == Cardinality(Coming')
<1>1. d = o + (IF r.at \in {"opening", "page"} THEN 1 ELSE 0) - (IF req[c].at \in {"opening", "page"} THEN 1 ELSE 0)
  BY OneMoves
<1>2. e = m + (IF r.at \in {"slot", "launching"} THEN 1 ELSE 0) - (IF req[c].at \in {"slot", "launching"} THEN 1 ELSE 0)
  BY OneMoves
<1>3. e <= n BY OneMoves
<1>4. o \in Nat /\ m \in Nat /\ n \in Nat /\ MaxRenders \in Nat BY PagesAreFew
<1>5. active \in Int /\ renders \in Int /\ opened \in Int BY DEF RenTypeInv
<1>6. o <= active /\ active <= opened /\ 0 <= renders /\ renders <= opened /\ opened + m <= MaxRenders + n BY DEF Counted
<1>7. Cardinality(Open)' = d /\ Cardinality(Coming)' = e OBVIOUS
<1> HIDE DEF o, m, n, d, e
<1>8. d <= active' /\ active' <= opened' /\ 0 <= renders' /\ renders' <= opened' /\ opened' + e <= MaxRenders + n
  BY <1>1, <1>2, <1>3, <1>4, <1>5, <1>6
<1> QED BY <1>7, <1>8 DEF Counted, n

\* What a request is, field by field.
LEMMA RenderFields ==
    ASSUME NEW q
    PROVE  q \in Render =>
             /\ q.at \in {"idle", "queued", "slot", "launching", "opening", "page", "closing"}
             /\ q.kind \in {"none", "png", "scroll", "paged", "check"} /\ q.height \in Nat
             /\ q.passes \in Int /\ q.on \in Int /\ q.code \in Nat
BY DEF Render

LEMMA OpeningOn ==
    ASSUME NEW q \in Render, NEW n \in Int
    PROVE  LET r == [q EXCEPT !.at = "opening", !.on = n] IN r \in Render /\ r.at = "opening"
BY DEF Render

LEMMA ClosingWith ==
    ASSUME NEW q \in Render, NEW k \in Nat
    PROVE  LET r == [q EXCEPT !.at = "closing", !.code = k] IN r \in Render /\ r.at = "closing"
BY DEF Render

LEMMA IsQueued ==
    ASSUME NEW kind \in {"none", "png", "scroll", "paged", "check"}, NEW h \in Nat, NEW p \in Int
    PROVE  LET r == Pool!Queued(kind, h, p) IN r \in Render /\ r.at = "queued"
BY DEF Render, Pool!Queued

LEMMA PostStep ==
    ASSUME RenInv, RenSupposed, NEW c \in Clients, NEW k \in {"png", "scroll", "paged", "check"}, NEW h \in Heights,
           Pool!Post(c, k, h)
    PROVE  RenInv'
<1> USE DEF RenInv
<1> DEFINE r == Pool!Queued(k, h, IF k = "check" THEN 2 ELSE 1)
<1>1. /\ req' = [req EXCEPT ![c] = r] /\ reply' = [reply EXCEPT ![c] = Pool!Nothing]
      /\ UNCHANGED <<browser, lock, active, renders, opened, crashes>>
      /\ req[c].at = "idle"
  BY DEF Pool!Post, Pool!Becomes, Pool!Told, Pool!At
<1>2. r \in Render /\ r.at = "queued" BY IsQueued DEF RenSupposed
<1> HIDE DEF r
<1>3. Counted' BY <1>1, <1>2, CountsMove DEF RenTypeInv
<1>4. DownAlone' BY <1>1, <1>2, OneMoves DEF DownAlone
<1>5. Pool!CutSaysSo' BY <1>1 DEF Pool!CutSaysSo, Pool!Nothing
<1>6. RenTypeInv' BY <1>1, <1>2, OneMoves DEF RenTypeInv
<1> QED BY <1>3, <1>4, <1>5, <1>6

LEMMA TakeSlotStep == ASSUME RenInv, RenSupposed, NEW c \in Clients, Pool!TakeSlot(c) PROVE RenInv'
<1> USE DEF RenInv
<1> DEFINE r == [req[c] EXCEPT !.at = "slot"]
<1>1. /\ req' = [req EXCEPT ![c] = r] /\ UNCHANGED <<browser, lock, active, renders, reply, opened, crashes>>
      /\ req[c] \in Render /\ req[c].at = "queued" /\ opened < MaxRenders
  BY DEF Pool!TakeSlot, Pool!Becomes, Pool!At, RenTypeInv
<1>2. r \in Render /\ r.at = "slot" BY <1>1 DEF Render
<1> HIDE DEF r
<1>3. Counted' BY <1>1, <1>2, CountsMove DEF RenTypeInv
<1>4. DownAlone' BY <1>1, <1>2, OneMoves DEF DownAlone
<1>5. Pool!CutSaysSo' BY <1>1 DEF Pool!CutSaysSo
<1>6. RenTypeInv' BY <1>1, <1>2, OneMoves DEF RenTypeInv
<1> QED BY <1>3, <1>4, <1>5, <1>6

LEMMA CurrentStep == ASSUME RenInv, RenSupposed, NEW c \in Clients, Pool!Current(c) PROVE RenInv'
<1> USE DEF RenInv
<1> DEFINE r == [req[c] EXCEPT !.at = "opening", !.on = browser.n]
<1>1. /\ req' = [req EXCEPT ![c] = r] /\ UNCHANGED <<browser, lock, reply, crashes>>
      /\ active' = active + 1 /\ renders' = renders + 1 /\ opened' = opened + 1
      /\ req[c] \in Render /\ req[c].at = "slot" /\ lock = "nobody" /\ browser.up /\ browser.n \in Int /\ browser.n + 1 \in Int
  BY DEF Pool!Current, Pool!Becomes, Pool!At, RenTypeInv
<1>2. r \in Render /\ r.at = "opening" BY <1>1, OpeningOn
<1> HIDE DEF r
<1>3. Counted' BY <1>1, <1>2, CountsMove DEF RenTypeInv
<1>4. DownAlone' BY <1>1, <1>2, OneMoves DEF DownAlone
<1>5. Pool!CutSaysSo' BY <1>1 DEF Pool!CutSaysSo
<1>6. RenTypeInv' BY <1>1, <1>2, OneMoves DEF RenTypeInv
<1> QED BY <1>3, <1>4, <1>5, <1>6

\* Whoever replaces a browser that is up found none of its pages open.
LEMMA ReplaceStep == ASSUME RenInv, RenSupposed, NEW c \in Clients, Pool!Replace(c) PROVE RenInv'
<1> USE DEF RenInv
<1> DEFINE r == [req[c] EXCEPT !.at = "launching"]
<1>1. /\ req' = [req EXCEPT ![c] = r] /\ UNCHANGED <<active, renders, reply, opened, crashes>>
      /\ browser' = [browser EXCEPT !.up = FALSE] /\ lock' = c
      /\ req[c] \in Render /\ req[c].at = "slot" /\ (browser.up => active = 0)
  BY DEF Pool!Replace, Pool!Becomes, Pool!At, Pool!Due, RenTypeInv
<1>2. r \in Render /\ r.at = "launching" BY <1>1 DEF Render
<1> HIDE DEF r
<1>3. Counted' BY <1>1, <1>2, CountsMove DEF RenTypeInv
<1>4. browser' \in [n : Int, up : BOOLEAN] /\ ~browser'.up BY <1>1 DEF RenTypeInv
<1>5. browser.up => Open = {}
  <2> SUFFICES ASSUME browser.up PROVE Open = {} OBVIOUS
  <2>1. Cardinality(Open) = 0 BY <1>1, PagesAreFew DEF Counted, RenTypeInv
  <2> QED BY <2>1, PagesAreFew, FS_EmptySet
<1>6. DownAlone' BY <1>1, <1>2, <1>4, <1>5, OneMoves DEF DownAlone
<1>7. Pool!CutSaysSo' BY <1>1 DEF Pool!CutSaysSo
<1>8. RenTypeInv' BY <1>1, <1>2, <1>4, OneMoves DEF RenTypeInv
<1> QED BY <1>3, <1>6, <1>7, <1>8

LEMMA LaunchStep == ASSUME RenInv, RenSupposed, NEW c \in Clients, Pool!Launch(c) PROVE RenInv'
<1> USE DEF RenInv
<1> DEFINE r == [req[c] EXCEPT !.at = "opening", !.on = browser.n + 1]
<1>1. /\ req' = [req EXCEPT ![c] = r] /\ UNCHANGED <<reply, crashes>>
      /\ browser' = [n |-> browser.n + 1, up |-> TRUE] /\ lock' = "nobody"
      /\ active' = active + 1 /\ renders' = 1 /\ opened' = opened + 1
      /\ req[c] \in Render /\ req[c].at = "launching" /\ browser.n \in Int /\ browser.n + 1 \in Int
  BY DEF Pool!Launch, Pool!Becomes, Pool!At, RenTypeInv
<1>2. r \in Render /\ r.at = "opening" BY <1>1, OpeningOn
<1> HIDE DEF r
<1>3. Counted' BY <1>1, <1>2, CountsMove DEF RenTypeInv
<1>4. DownAlone' BY <1>1, <1>2, OneMoves DEF DownAlone
<1>5. Pool!CutSaysSo' BY <1>1 DEF Pool!CutSaysSo
<1>6. RenTypeInv' BY <1>1, <1>2, OneMoves DEF RenTypeInv
<1> QED BY <1>3, <1>4, <1>5, <1>6

\* A request ends without a page, or with none opened; the lock goes to nobody or stays.
LEMMA GivesUp ==
    ASSUME RenInv, RenSupposed, NEW c \in Clients,
           req' = [req EXCEPT ![c] = Pool!Idle], Pool!CutSaysSo',
           UNCHANGED <<browser, active, renders, opened>>, lock' \in {lock, "nobody"}, crashes' \in {crashes, crashes + 1}
    PROVE  RenInv'
<1> USE DEF RenInv
<1> PICK r : r = Pool!Idle OBVIOUS
<1>1. r \in Render /\ r.at = "idle" BY DEF Pool!Idle, Render
<1>2. req' = [req EXCEPT ![c] = r] OBVIOUS
<1>3. Counted' BY <1>1, <1>2, CountsMove DEF RenTypeInv
<1>8. Open' = Open \ {c} BY <1>1, <1>2, OneMoves
<1>4. Open' \subseteq Open BY <1>8
<1>5. DownAlone' BY <1>4 DEF DownAlone, RenTypeInv
<1>7. RenTypeInv' BY <1>1, <1>2, OneMoves DEF RenTypeInv
<1> QED BY <1>3, <1>5, <1>7

LEMMA LaunchFailsStep == ASSUME RenInv, RenSupposed, NEW c \in Clients, Pool!LaunchFails(c) PROVE RenInv'
<1>1. /\ req' = [req EXCEPT ![c] = Pool!Idle] /\ lock' \in {lock, "nobody"} /\ crashes' \in {crashes, crashes + 1}
      /\ UNCHANGED <<browser, active, renders, opened>>
  BY DEF Pool!LaunchFails, Pool!Becomes
<1>2. Pool!CutSaysSo' BY DEF Pool!LaunchFails, Pool!Told, Pool!CutSaysSo, RenInv
<1> QED BY <1>1, <1>2, GivesUp

LEMMA NewContextStep == ASSUME RenInv, RenSupposed, NEW c \in Clients, Pool!NewContext(c) PROVE RenInv'
<1> DEFINE r == [req[c] EXCEPT !.at = "page"]
<1>1. UNCHANGED <<browser, lock, active, renders, opened, crashes>> BY DEF Pool!NewContext
<1>2. CASE ~Pool!Alive(c)
  <2>2. reply' = [reply EXCEPT ![c] = [code |-> 500]] BY <1>2 DEF Pool!NewContext, Pool!Told
  <2>1. Pool!CutSaysSo' BY <2>2 DEF Pool!CutSaysSo, RenInv
  <2> QED BY <1>1, <1>2, <2>1, GivesUp DEF Pool!NewContext, Pool!Becomes
<1>3. CASE Pool!Alive(c)
  <2> USE DEF RenInv
  <2>1. /\ req' = [req EXCEPT ![c] = r] /\ UNCHANGED reply
        /\ req[c] \in Render /\ req[c].at = "opening"
    BY <1>3 DEF Pool!NewContext, Pool!Becomes, Pool!At, RenTypeInv
  <2>2. r \in Render /\ r.at = "page" BY <2>1 DEF Render
  <2> HIDE DEF r
  <2>3. Counted' BY <1>1, <2>1, <2>2, CountsMove DEF RenTypeInv
  <2>4. Open' \subseteq Open BY <2>1, <2>2, OneMoves DEF Open
  <2>5. DownAlone' BY <1>1, <2>4 DEF DownAlone
  <2>6. Pool!CutSaysSo' BY <2>1 DEF Pool!CutSaysSo
  <2>7. RenTypeInv' BY <1>1, <2>1, <2>2, OneMoves DEF RenTypeInv
  <2> QED BY <2>3, <2>5, <2>6, <2>7
<1> QED BY <1>2, <1>3

LEMMA ClosingStep ==
    ASSUME RenInv, RenSupposed, NEW c \in Clients, NEW code \in Nat, Pool!At(c, {"page"}), Pool!Leave(c, code)
    PROVE  RenInv'
<1> USE DEF RenInv
<1> DEFINE r == [req[c] EXCEPT !.at = "closing", !.code = code]
<1>1. /\ req' = [req EXCEPT ![c] = r] /\ UNCHANGED <<browser, lock, renders, reply, opened, crashes>>
      /\ active' = active - 1 /\ req[c] \in Render /\ req[c].at = "page"
  BY DEF Pool!Leave, Pool!Becomes, Pool!At, RenTypeInv
<1>2. r \in Render /\ r.at = "closing" BY <1>1, ClosingWith
<1> HIDE DEF r
<1>3. Counted' BY <1>1, <1>2, CountsMove DEF RenTypeInv
<1>4. Open' \subseteq Open BY <1>1, <1>2, OneMoves
<1>5. DownAlone' BY <1>1, <1>4 DEF DownAlone
<1>6. Pool!CutSaysSo' BY <1>1 DEF Pool!CutSaysSo
<1>7. RenTypeInv' BY <1>1, <1>2, OneMoves DEF RenTypeInv
<1> QED BY <1>3, <1>5, <1>6, <1>7

\* What is said of an image: it is cut when less than all of it is shown.
LEMMA CutIsTold ==
    ASSUME RenSupposed, NEW kind, NEW h \in Nat
    PROVE  LET of == Pool!Captured(kind, h) IN of.truncated <=> of.shown < of.height
<1>1. \A s \in Int : LET of == Pool!Shown(h, s) IN of.truncated <=> of.shown < of.height BY DEF Pool!Shown
<1>2. \A a \in Int, b \in Int : Pool!LeastOf(a, b) \in Int BY DEF Pool!LeastOf
<1>3. Pool!LeastOf(h, PNG_MAX) \in Int BY <1>2 DEF RenSupposed
<1>4. PICK scale \in Nat \ {0} :
         scale = IF h <= PDF_MAX THEN 1 ELSE Pool!LeastOf(MIN_SCALE, (h + PDF_MAX - 1) \div PDF_MAX)
  <2>1. PDF_MAX \in Nat \ {0} /\ MIN_SCALE \in Nat \ {0} BY DEF RenSupposed
  <2>2. h > PDF_MAX => (h + PDF_MAX - 1) \div PDF_MAX \in Nat \ {0} BY <2>1
  <2>3. \A a \in Nat \ {0}, b \in Nat \ {0} : Pool!LeastOf(a, b) \in Nat \ {0} BY DEF Pool!LeastOf
  <2> QED BY <2>1, <2>2, <2>3
<1>5. (h + scale - 1) \div scale \in Int OBVIOUS
<1>6. Pool!LeastOf((h + scale - 1) \div scale, PDF_MAX) \in Int BY <1>2, <1>5 DEF RenSupposed
<1>7. scale * Pool!LeastOf((h + scale - 1) \div scale, PDF_MAX) \in Int BY <1>6
<1>8. Pool!LeastOf(h, scale * Pool!LeastOf((h + scale - 1) \div scale, PDF_MAX)) \in Int BY <1>2, <1>7
<1>9. PICK s \in Int : Pool!ScrollPdf(h) = Pool!Shown(h, s) BY <1>4, <1>8 DEF Pool!ScrollPdf
<1> QED BY <1>1, <1>3, <1>9 DEF Pool!Captured, Pool!Png, Pool!PagedPdf

LEMMA CloseStep == ASSUME RenInv, RenSupposed, NEW c \in Clients, Pool!Close(c) PROVE RenInv'
<1> USE DEF RenInv
<1>1. /\ UNCHANGED <<browser, lock, active, renders, opened, crashes>>
      /\ req[c] \in Render /\ req[c].at = "closing"
  BY DEF Pool!Close, Pool!At, RenTypeInv
<1>2. CASE req[c].code = 200 /\ req[c].passes > 1
  <2> DEFINE r == Pool!Queued(req[c].kind, req[c].height, req[c].passes - 1)
  <2>1. req' = [req EXCEPT ![c] = r] /\ UNCHANGED reply BY <1>2 DEF Pool!Close, Pool!Becomes
  <2>9. /\ req[c].kind \in {"none", "png", "scroll", "paged", "check"} /\ req[c].height \in Nat
        /\ req[c].passes - 1 \in Int
    BY <1>1, RenderFields
  <2>2. r \in Render /\ r.at = "queued" BY <2>9, IsQueued
  <2> HIDE DEF r
  <2>3. Counted' BY <1>1, <2>1, <2>2, CountsMove DEF RenTypeInv
  <2>4. Open' \subseteq Open BY <2>1, <2>2, OneMoves
  <2>5. DownAlone' BY <1>1, <2>4 DEF DownAlone
  <2>6. Pool!CutSaysSo' BY <2>1 DEF Pool!CutSaysSo
  <2>7. RenTypeInv' BY <1>1, <2>1, <2>2, OneMoves DEF RenTypeInv
  <2> QED BY <2>3, <2>5, <2>6, <2>7
<1>3. CASE ~(req[c].code = 200 /\ req[c].passes > 1)
  <2> PICK r : r = Pool!Idle OBVIOUS
  <2>1. r \in Render /\ r.at = "idle" BY DEF Pool!Idle, Render
  <2>2. req' = [req EXCEPT ![c] = r] BY <1>3 DEF Pool!Close, Pool!Becomes
  <2>3. Counted' BY <1>1, <2>1, <2>2, CountsMove DEF RenTypeInv
  <2>4. Open' \subseteq Open BY <2>1, <2>2, OneMoves
  <2>5. DownAlone' BY <1>1, <2>4 DEF DownAlone
  <2>6. Pool!CutSaysSo'
    <3>1. req[c].height \in Nat BY <1>1 DEF Render
    <3> DEFINE of == Pool!Captured(req[c].kind, req[c].height)
    <3>2. of.truncated <=> of.shown < of.height BY <3>1, CutIsTold
    <3> HIDE DEF of
    <3>3. reply' = [reply EXCEPT ![c] = IF req[c].code = 200 THEN [code |-> 200, of |-> of] ELSE [code |-> req[c].code]]
      BY <1>3 DEF Pool!Close, Pool!Told, of
    <3> QED BY <3>2, <3>3 DEF Pool!CutSaysSo
  <2>7. RenTypeInv' BY <1>1, <2>1, <2>2, OneMoves DEF RenTypeInv
  <2> QED BY <2>3, <2>5, <2>6, <2>7
<1> QED BY <1>2, <1>3

LEMMA TimesOutStep == ASSUME RenInv, RenSupposed, NEW c \in Clients, Pool!TimesOut(c) PROVE RenInv'
<1>1. CASE Pool!At(c, {"page"}) /\ Pool!Leave(c, 504) BY <1>1, ClosingStep
<1>2. CASE ~(Pool!At(c, {"page"}) /\ Pool!Leave(c, 504))
  <2>2. reply' = [reply EXCEPT ![c] = [code |-> 504]] BY <1>2 DEF Pool!TimesOut, Pool!Told
  <2>1. Pool!CutSaysSo' BY <2>2 DEF Pool!CutSaysSo, RenInv
  <2> QED BY <1>2, <2>1, GivesUp DEF Pool!TimesOut, Pool!Becomes
<1> QED BY <1>1, <1>2

LEMMA CrashStep == ASSUME RenInv, Pool!Crash PROVE RenInv'
<1> USE DEF RenInv
<1>1. /\ browser' = [browser EXCEPT !.up = FALSE] /\ crashes' = crashes + 1
      /\ UNCHANGED <<lock, active, renders, req, reply, opened>>
  BY DEF Pool!Crash
<1>2. browser' \in [n : Int, up : BOOLEAN] /\ ~browser'.up BY <1>1 DEF RenTypeInv
<1>3. Open' = Open /\ Coming' = Coming BY <1>1 DEF Open, Coming
<1>4. Counted' BY <1>1, <1>3 DEF Counted
<1>5. DownAlone' BY <1>1, <1>2, <1>3 DEF DownAlone, RenTypeInv
<1> QED BY <1>1, <1>2, <1>4, <1>5 DEF RenTypeInv, Pool!CutSaysSo

-----------------------------------------------------------------------------
LEMMA RenderInit == Pool!Init /\ RenSupposed => RenInv
<1> SUFFICES ASSUME Pool!Init, RenSupposed PROVE RenInv OBVIOUS
<1>1. /\ req \in [Clients -> Render] /\ \A c \in Clients : req[c].at = "idle"
  BY DEF Pool!Init, Pool!Idle, Render
<1>2. Open = {} /\ Coming = {} BY <1>1 DEF Open, Coming
<1>3. Cardinality(Open) = 0 /\ Cardinality(Coming) = 0 BY <1>2, FS_EmptySet
<1>4. browser = [n |-> 1, up |-> TRUE] /\ lock = "nobody" /\ active = 0 /\ renders = 0 /\ opened = 0 /\ crashes = 0
  BY DEF Pool!Init
<1>5. RenTypeInv BY <1>1, <1>4 DEF RenTypeInv
<1>6. Counted BY <1>3, <1>4, PagesAreFew DEF Counted
<1>7. DownAlone BY <1>2, <1>4 DEF DownAlone
<1>8. Pool!CutSaysSo BY DEF Pool!Init, Pool!CutSaysSo, Pool!Nothing
<1> QED BY <1>5, <1>6, <1>7, <1>8 DEF RenInv

LEMMA RenderStep == RenInv /\ RenSupposed /\ [Pool!Next]_(Pool!vars) => RenInv'
<1> SUFFICES ASSUME RenInv, RenSupposed, [Pool!Next]_(Pool!vars) PROVE RenInv' OBVIOUS
<1>1. CASE UNCHANGED Pool!vars
  BY <1>1 DEF Pool!vars, RenInv, RenTypeInv, Counted, DownAlone, Pool!CutSaysSo, Open, Coming
<1>2. ASSUME NEW c \in Clients, Pool!Capture(c) \/ Pool!NavigatesAway(c) \/ Pool!LosesBrowser(c) PROVE RenInv'
  BY <1>2, ClosingStep DEF Pool!Capture, Pool!NavigatesAway, Pool!LosesBrowser
<1> QED
  BY <1>1, <1>2, PostStep, TakeSlotStep, CurrentStep, ReplaceStep, LaunchStep, LaunchFailsStep, NewContextStep,
     CloseStep, TimesOutStep, CrashStep
  DEF Pool!Next

LEMMA RenderFollow == RenInv /\ RenSupposed => Pool!TypeOK /\ Pool!RenderSafe
<1> SUFFICES ASSUME RenInv, RenSupposed PROVE Pool!TypeOK /\ Pool!RenderSafe OBVIOUS
<1> USE DEF RenInv
<1>1. \A S : Pool!Cardinality(S) = Cardinality(S) BY DEF Cardinality, Pool!Cardinality
<1>2. Pool!TypeOK BY <1>1, PagesAreFew DEF Pool!TypeOK, RenTypeInv, Counted
<1>3. {c \in Clients : Pool!At(c, {"opening", "page"})} = Open BY DEF Open, Pool!At
<1>4. Pool!CountsEveryPage BY <1>1, <1>3 DEF Pool!CountsEveryPage, Counted
<1>5. Pool!Using \subseteq Open BY DEF Pool!Using, Pool!At, Open
<1>6. Pool!PagesKeepTheirBrowser BY <1>5 DEF Pool!PagesKeepTheirBrowser, DownAlone, RenSupposed
<1> QED BY <1>2, <1>4, <1>6 DEF Pool!RenderSafe

-----------------------------------------------------------------------------
(***************************************************************************)
(* Checks of a page.                                                       *)
(***************************************************************************)
page == s1
tabs == s2
stage == s3
found == s4
place == s5
reached == s6
dull == s7
unseen == s8
presses == s9
USE DEF page, tabs, stage, found, place, reached, dull, unseen, presses

Tabbed == {i \in Checks!Marked : \E k \in DOMAIN tabs : tabs[k] = i}

ChkTypeInv ==
    /\ stage \in {"phone", "desktop", "tabbing", "tabbed", "done", "reported"}
    /\ page \in [1..Size -> Elements] /\ presses \in 0..(Size + 2)
    /\ \A k \in DOMAIN tabs : tabs[k] = 0 \/ tabs[k] \in Checks!Marked
    /\ stage = "done" => Checks!Marked = {}

\* The walk reached what is in its way, and kept what was wrong with it.
Walked ==
    /\ reached \subseteq Tabbed /\ dull \cup unseen \subseteq reached
    /\ \A i \in reached : /\ Checks!Has(i, "transparent") => i \in unseen
                          /\ Checks!SameWhenFocused(i) => i \in dull

\* The desktop's checks have said what they found.
Heard ==
    stage \notin {"phone", "desktop"} =>
        /\ Checks!LowContrast # {} => \E f \in found : f.check = "contrast"
        /\ Checks!Nameless # {} => \E f \in found : f.check = "names"

\* A report that has no mark of its own has nothing that costs it.
MarkIsDue ==
    stage = "reported" /\ (\A f \in found : f.check # "accessibility") =>
        /\ \A f \in found : f.check \notin Checks!AccessibilityChecks
        /\ dull \cup unseen = {} /\ Cardinality(Tabbed) >= Cardinality(Checks!Stops)

ChkInv == ChkTypeInv /\ Walked /\ Heard /\ MarkIsDue

-----------------------------------------------------------------------------
LEMMA CheckSizes ==
    ASSUME Size \in Nat, page \in [1..Size -> Elements]
    PROVE  /\ Checks!Marked \subseteq 1..Size /\ Checks!Stops \subseteq Checks!Marked
           /\ \A S : S \subseteq Checks!Marked => IsFiniteSet(S) /\ Cardinality(S) \in Nat /\ Cardinality(S) <= Size
           /\ \A S, T : S \subseteq T /\ T \subseteq Checks!Marked => Cardinality(S) <= Cardinality(T)
           /\ \A S : Checks!Cardinality(S) = Cardinality(S)
<1>1. Checks!Marked \subseteq 1..Size BY DEF Checks!Marked, Checks!Visible, Checks!All
<1>2. Checks!Stops \subseteq Checks!Marked BY DEF Checks!Stops
<1>3. IsFiniteSet(1..Size) /\ Cardinality(1..Size) = Size BY FS_Interval
<1>4. \A S : S \subseteq Checks!Marked => IsFiniteSet(S) /\ Cardinality(S) \in Nat /\ Cardinality(S) <= Size
  <2> SUFFICES ASSUME NEW S, S \subseteq Checks!Marked
               PROVE  IsFiniteSet(S) /\ Cardinality(S) \in Nat /\ Cardinality(S) <= Size
    OBVIOUS
  <2>1. S \subseteq 1..Size BY <1>1
  <2>2. IsFiniteSet(S) /\ Cardinality(S) <= Cardinality(1..Size) BY <2>1, <1>3, FS_Subset
  <2> QED BY <2>2, <1>3, FS_CardinalityType
<1>5. \A S, T : S \subseteq T /\ T \subseteq Checks!Marked => Cardinality(S) <= Cardinality(T)
  BY <1>4, FS_Subset
<1>6. \A S : Checks!Cardinality(S) = Cardinality(S) BY DEF Cardinality, Checks!Cardinality
<1> QED BY <1>1, <1>2, <1>4, <1>5, <1>6

LEMMA SamePage ==
    UNCHANGED page =>
        /\ Checks!Marked' = Checks!Marked /\ Checks!Stops' = Checks!Stops
        /\ Checks!LowContrast' = Checks!LowContrast /\ Checks!Nameless' = Checks!Nameless
        /\ \A i : /\ Checks!Has(i, "transparent")' <=> Checks!Has(i, "transparent")
                  /\ Checks!SameWhenFocused(i)' <=> Checks!SameWhenFocused(i)
BY DEF Checks!Marked, Checks!Stops, Checks!LowContrast, Checks!Nameless, Checks!Has, Checks!Is, Checks!Ancestors,
       Checks!SameWhenFocused, Checks!Visible, Checks!All

\* A step that leaves the page and the walk alone.
LEMMA WalkStays ==
    ASSUME ChkTypeInv, Walked, UNCHANGED <<page, tabs, reached, dull, unseen, presses>>,
           stage' \in {"phone", "desktop", "tabbing", "tabbed", "done", "reported"},
           stage' = "done" => Checks!Marked = {}
    PROVE  ChkTypeInv' /\ Walked' /\ Tabbed' = Tabbed
<1>1. ChkTypeInv' BY SamePage DEF ChkTypeInv
<1>2. Tabbed' = Tabbed BY SamePage DEF Tabbed
<1>3. Walked' BY <1>2, SamePage DEF Walked
<1> QED BY <1>1, <1>2, <1>3

LEMMA PhoneStep == ASSUME ChkInv, NEW b, Checks!Phone(b) PROVE ChkInv'
<1> USE DEF ChkInv
<1>1. stage' = "desktop" /\ UNCHANGED <<page, tabs, reached, dull, unseen, presses>> BY DEF Checks!Phone
<1>2. ChkTypeInv' /\ Walked' BY <1>1, WalkStays
<1> QED BY <1>1, <1>2 DEF Heard, MarkIsDue

\* A check that finds something, or breaks, is among the findings.
LEMMA ContrastIsFound ==
    ASSUME NEW b, Checks!LowContrast # {}
    PROVE  \E f \in Checks!Findings(Checks!DesktopChecks, "desktop", b) : f.check = "contrast"
<1> DEFINE D == Checks!DesktopChecks
           f == [check |-> "contrast", width |-> "desktop", of |-> IF "contrast" = b THEN {} ELSE D["contrast"]]
<1>1. "contrast" \in DOMAIN D /\ D["contrast"] = Checks!LowContrast BY DEF Checks!DesktopChecks
<1> HIDE DEF D
<1>2. f \in Checks!Findings(D, "desktop", b) BY <1>1 DEF Checks!Findings
<1> QED BY <1>2 DEF D

LEMMA NamelessIsFound ==
    ASSUME NEW b, Checks!Nameless # {}
    PROVE  \E f \in Checks!Findings(Checks!DesktopChecks, "desktop", b) : f.check = "names"
<1> DEFINE D == Checks!DesktopChecks
           f == [check |-> "names", width |-> "desktop", of |-> IF "names" = b THEN {} ELSE D["names"]]
<1>1. "names" \in DOMAIN D /\ D["names"] = Checks!Nameless BY DEF Checks!DesktopChecks
<1> HIDE DEF D
<1>2. f \in Checks!Findings(D, "desktop", b) BY <1>1 DEF Checks!Findings
<1> QED BY <1>2 DEF D

LEMMA DesktopStep == ASSUME ChkInv, NEW b, Checks!Desktop(b) PROVE ChkInv'
<1> USE DEF ChkInv
<1> DEFINE F == Checks!Findings(Checks!DesktopChecks, "desktop", b)
<1>1. /\ stage' \in {"done", "tabbing"} /\ (stage' = "done" => Checks!Marked = {}) /\ UNCHANGED <<page, tabs, reached, dull, unseen, presses>>
      /\ found' = found \cup F
  BY DEF Checks!Desktop
<1>2. ChkTypeInv' /\ Walked' BY <1>1, WalkStays
<1>3. /\ Checks!LowContrast # {} => \E f \in F : f.check = "contrast"
      /\ Checks!Nameless # {} => \E f \in F : f.check = "names"
  BY ContrastIsFound, NamelessIsFound
<1> HIDE DEF F
<1>4. Heard' BY <1>1, <1>3, SamePage DEF Heard
<1> QED BY <1>1, <1>2, <1>4 DEF MarkIsDue

LEMMA TabStep == ASSUME ChkInv, Size \in Nat, Checks!Tab PROVE ChkInv'
<1> USE DEF ChkInv
<1> DEFINE reaching == Checks!ThingAt(place')
<1>1. /\ stage = "tabbing" /\ stage' \in {"tabbing", "tabbed"} /\ UNCHANGED <<page, tabs, found>>
      /\ presses < Checks!Cardinality(Checks!Stops) + 2 /\ presses' = presses + 1
  BY DEF Checks!Tab
<1>2. ChkTypeInv'
  <2>1. Checks!Cardinality(Checks!Stops) \in Nat /\ Checks!Cardinality(Checks!Stops) <= Size
    BY CheckSizes DEF ChkTypeInv
  <2>2. presses' \in 0..(Size + 2) BY <1>1, <2>1 DEF ChkTypeInv
  <2> QED BY <1>1, <2>2, SamePage DEF ChkTypeInv
<1>3. Tabbed' = Tabbed BY <1>1, SamePage DEF Tabbed
<1>4. Walked'
  <2>1. CASE UNCHANGED <<reached, dull, unseen>> BY <1>1, <1>3, <2>1, SamePage DEF Walked
  <2>2. CASE ~UNCHANGED <<reached, dull, unseen>>
    <3>1. /\ reaching # 0 /\ reached' = reached \cup {reaching}
          /\ dull' = dull \cup {i \in {reaching} : Checks!SameWhenFocused(i)}
          /\ unseen' = unseen \cup {i \in {reaching} : Checks!Has(i, "transparent")}
      BY <2>2 DEF Checks!Tab
    <3>2. reaching \in Tabbed BY <3>1 DEF Checks!ThingAt, ChkTypeInv, Tabbed
    <3> HIDE DEF reaching
    <3> QED BY <1>1, <1>3, <3>1, <3>2, SamePage DEF Walked
  <2> QED BY <2>1, <2>2
<1>5. Heard' BY <1>1, SamePage DEF Heard
<1> QED BY <1>1, <1>2, <1>4, <1>5 DEF MarkIsDue

\* The mark is missed by a finding of the checks of accessibility only.
LEMMA MarkOf ==
    ASSUME NEW f, \A x \in f \cup Checks!PassMark(f) : x.check # "accessibility"
    PROVE  \A x \in f : x.check \notin Checks!AccessibilityChecks
<1> SUFFICES ASSUME NEW x \in f, x.check \in Checks!AccessibilityChecks PROVE FALSE OBVIOUS
<1> DEFINE m == [check |-> "accessibility", width |-> "desktop", of |-> {}]
<1>1. m \in Checks!PassMark(f) /\ m.check = "accessibility" BY DEF Checks!PassMark
<1> QED BY <1>1

LEMMA ReportStep == ASSUME ChkInv, Size \in Nat, NEW b \in BOOLEAN, Checks!Report(b) PROVE ChkInv'
<1> USE DEF ChkInv
<1> PICK every : every = found \cup Checks!Keyboard(b) OBVIOUS
<1>1. /\ stage \in {"tabbing", "tabbed"} /\ stage' = "reported" /\ found' = every \cup Checks!PassMark(every)
      /\ UNCHANGED <<page, tabs, place, reached, dull, unseen, presses>>
  BY DEF Checks!Report
<1>2. ChkTypeInv' /\ Walked' /\ Tabbed' = Tabbed BY <1>1, WalkStays
<1>3. found \subseteq found' BY <1>1
<1>4. Heard' BY <1>1, <1>3, SamePage DEF Heard
<1>5. MarkIsDue'
  <2> SUFFICES ASSUME \A f \in found' : f.check # "accessibility"
               PROVE  /\ \A f \in found' : f.check \notin Checks!AccessibilityChecks
                      /\ dull \cup unseen = {} /\ Cardinality(Tabbed) >= Cardinality(Checks!Stops)
    BY <1>1, <1>2, SamePage DEF MarkIsDue, Checks!AccessibilityChecks
  <2>1. \A x \in every : x.check \notin Checks!AccessibilityChecks BY <1>1, MarkOf
  <2>2. \A x \in Checks!PassMark(every) : FALSE BY <2>1 DEF Checks!PassMark
  <2> DEFINE of == dull \cup unseen \cup (IF Checks!Unreached > 0 THEN Checks!Marked \ reached ELSE {})
             k == [check |-> "keyboard", width |-> "desktop", of |-> IF b THEN {} ELSE of]
  <2>3. of = {}
    <3>1. k \notin Checks!Keyboard(b)
      <4>1. k.check = "keyboard" /\ "keyboard" \in Checks!AccessibilityChecks BY DEF Checks!AccessibilityChecks
      <4> QED BY <2>1, <4>1
    <3> QED BY <3>1 DEF Checks!Keyboard
  <2>4. dull \cup unseen = {} BY <2>3
  <2>5. Checks!Unreached > 0 => Checks!Marked \subseteq reached BY <2>3
  <2>6. reached \subseteq Tabbed /\ Tabbed \subseteq Checks!Marked /\ Checks!Stops \subseteq Checks!Marked
    BY CheckSizes DEF Walked, ChkTypeInv, Tabbed
  <2>7. /\ Cardinality(reached) \in Nat /\ Cardinality(Tabbed) \in Nat /\ Cardinality(Checks!Stops) \in Nat
        /\ Cardinality(reached) <= Cardinality(Tabbed)
        /\ Checks!Cardinality(reached) = Cardinality(reached)
        /\ Checks!Cardinality(Checks!Stops) = Cardinality(Checks!Stops)
    BY <2>6, CheckSizes DEF ChkTypeInv
  <2>8. Cardinality(Tabbed) >= Cardinality(Checks!Stops)
    <3>1. CASE Checks!Unreached > 0
      <4>1. Checks!Stops \subseteq Tabbed BY <2>5, <2>6, <3>1
      <4>2. Cardinality(Checks!Stops) <= Cardinality(Tabbed) BY <2>6, <4>1, CheckSizes DEF ChkTypeInv
      <4> QED BY <2>7, <4>2
    <3>2. CASE ~(Checks!Unreached > 0) BY <2>7, <3>2 DEF Checks!Unreached
    <3> QED BY <3>1, <3>2
  <2> QED BY <1>1, <2>1, <2>2, <2>4, <2>8
<1> QED BY <1>2, <1>4, <1>5

LEMMA ReportNoStopsStep == ASSUME ChkInv, Size \in Nat, Checks!ReportNoStops PROVE ChkInv'
<1> USE DEF ChkInv
<1>1. /\ stage = "done" /\ stage' = "reported" /\ found' = found \cup Checks!PassMark(found)
      /\ UNCHANGED <<page, tabs, place, reached, dull, unseen, presses>>
  BY DEF Checks!ReportNoStops
<1>2. ChkTypeInv' /\ Walked' /\ Tabbed' = Tabbed BY <1>1, WalkStays
<1>3. found \subseteq found' BY <1>1
<1>4. Heard' BY <1>1, <1>3, SamePage DEF Heard
<1>5. MarkIsDue'
  <2> SUFFICES ASSUME \A f \in found' : f.check # "accessibility"
               PROVE  /\ \A f \in found' : f.check \notin Checks!AccessibilityChecks
                      /\ dull \cup unseen = {} /\ Cardinality(Tabbed) >= Cardinality(Checks!Stops)
    BY <1>1, <1>2, SamePage DEF MarkIsDue, Checks!AccessibilityChecks
  <2>1. \A x \in found : x.check \notin Checks!AccessibilityChecks BY <1>1, MarkOf
  <2>2. \A x \in Checks!PassMark(found) : FALSE BY <2>1 DEF Checks!PassMark
  <2>3. Checks!Marked = {} /\ Tabbed = {} /\ dull \cup unseen = {} BY <1>1 DEF ChkTypeInv, Walked, Tabbed
  <2>4. Checks!Stops = {} BY <2>3, CheckSizes DEF ChkTypeInv
  <2>5. Cardinality({}) = 0 BY FS_EmptySet
  <2> QED BY <1>1, <2>1, <2>2, <2>3, <2>4, <2>5
<1> QED BY <1>2, <1>4, <1>5

-----------------------------------------------------------------------------
LEMMA ChecksInit == Checks!Init /\ Size \in Nat => ChkInv
<1> SUFFICES ASSUME Checks!Init, Size \in Nat PROVE ChkInv OBVIOUS
<1>1. /\ page \in [1..Size -> Elements] /\ tabs \in Checks!Orders
      /\ stage = "phone" /\ presses = 0 /\ reached = {} /\ dull = {} /\ unseen = {}
  BY DEF Checks!Init
<1>2. \A k \in DOMAIN tabs : tabs[k] = 0 \/ tabs[k] \in Checks!Marked BY <1>1 DEF Checks!Orders
<1>3. ChkTypeInv BY <1>1, <1>2 DEF ChkTypeInv
<1> QED BY <1>1, <1>3 DEF ChkInv, Walked, Heard, MarkIsDue

LEMMA ChecksStep == ChkInv /\ Size \in Nat /\ [Checks!Next]_(Checks!vars) => ChkInv'
<1> SUFFICES ASSUME ChkInv, Size \in Nat, [Checks!Next]_(Checks!vars) PROVE ChkInv' OBVIOUS
<1>1. CASE UNCHANGED Checks!vars
  <2>1. UNCHANGED <<page, tabs, stage, found, place, reached, dull, unseen, presses>> BY <1>1 DEF Checks!vars
  <2>2. ChkTypeInv' /\ Walked' /\ Tabbed' = Tabbed BY <2>1, WalkStays DEF ChkInv, ChkTypeInv
  <2>3. Heard' BY <2>1, SamePage DEF Heard, ChkInv
  <2>4. MarkIsDue' BY <2>1, <2>2, SamePage DEF MarkIsDue, ChkInv, Checks!AccessibilityChecks
  <2> QED BY <2>2, <2>3, <2>4 DEF ChkInv
<1> QED
  BY <1>1, PhoneStep, DesktopStep, TabStep, ReportStep, ReportNoStopsStep DEF Checks!Next

LEMMA ChecksFollow == ChkInv /\ Size \in Nat => Checks!TypeOK /\ Checks!PassedIsUsable
<1> SUFFICES ASSUME ChkInv, Size \in Nat PROVE Checks!TypeOK /\ Checks!PassedIsUsable OBVIOUS
<1> USE DEF ChkInv
<1>1. Checks!TypeOK BY DEF Checks!TypeOK, ChkTypeInv, Walked, Tabbed
<1>2. Checks!PassedIsUsable
  <2> SUFFICES ASSUME Checks!Passes
               PROVE  /\ Checks!Cardinality(Tabbed) >= Checks!Cardinality(Checks!Stops)
                      /\ \A i \in reached : ~Checks!Has(i, "transparent")
                                            /\ (i \in Checks!Stops => ~Checks!Has(i, "same_when_focused"))
                      /\ Checks!LowContrast \cup Checks!Nameless = {}
    BY DEF Checks!PassedIsUsable, Tabbed
  <2>1. /\ stage = "reported" /\ \A f \in found : f.check \notin {"contrast", "names"}
        /\ dull \cup unseen = {} /\ Cardinality(Tabbed) >= Cardinality(Checks!Stops)
    BY DEF MarkIsDue, Checks!Passes, Checks!AccessibilityChecks
  <2>2. Checks!Cardinality(Tabbed) >= Checks!Cardinality(Checks!Stops) BY <2>1, CheckSizes DEF ChkTypeInv
  <2>3. \A i \in reached : ~Checks!Has(i, "transparent") /\ ~Checks!SameWhenFocused(i) BY <2>1 DEF Walked
  <2>4. Checks!LowContrast = {} /\ Checks!Nameless = {} BY <2>1 DEF Heard
  <2> QED BY <2>2, <2>3, <2>4 DEF Checks!SameWhenFocused
<1> QED BY <1>1, <1>2

-----------------------------------------------------------------------------
(***************************************************************************)
(* The parts together.  A step of CoreServices is one of its part, and     *)
(* leaves which part it is alone.                                          *)
(***************************************************************************)
LEMMA AllSupposed ==
    /\ Docs!Supposed /\ Invites!Supposed /\ Orgs!Supposed
    /\ LimSupposed /\ StrSupposed /\ RenSupposed /\ Size \in Nat
<1> USE CoreAssumption
<1>1. IsFiniteSet(Clients) = Docs!IsFiniteSet(Clients)
  BY DEF IsFiniteSet, Docs!IsFiniteSet
<1>2. IsFiniteSet(Clients) = Invites!IsFiniteSet(Clients)
  BY DEF IsFiniteSet, Invites!IsFiniteSet
<1>3. /\ MAX_DOCUMENTS \in Nat /\ MaxDocs \in Nat /\ MaxPuts \in Nat /\ MaxSends \in Nat /\ MaxDeaths \in Nat
      /\ MaxInvites \in Nat /\ MaxOrgs \in Nat /\ MAX_REQUESTS \in Nat /\ MaxCount \in Nat
      /\ MAX_LENGTH \in Nat /\ COUNT \in Nat /\ MaxEvents \in Nat
      /\ PNG_MAX \in Nat /\ MaxRenders \in Nat /\ Size \in Nat
  OBVIOUS
<1>4. Docs!Supposed BY <1>1, <1>3 DEF Docs!Supposed
<1>5. Invites!Supposed BY <1>2, <1>3 DEF Invites!Supposed
<1>6. Orgs!Supposed BY <1>3 DEF Orgs!Supposed
<1>7. LimSupposed BY <1>3 DEF LimSupposed
<1>8. StrSupposed BY <1>3 DEF StrSupposed
<1>9. RenSupposed BY <1>3 DEF RenSupposed
<1> QED BY <1>3, <1>4, <1>5, <1>6, <1>7, <1>8, <1>9

LEMMA PartStays == [CoreNext]_services => part' = part
BY DEF CoreNext, services

(***************************************************************************)
(* Documents: whatever requests, workers and messages meet, and whoever    *)
(* dies, a document that says it is being extracted has somebody to        *)
(* extract it, one past "pending" has its file but for a deletion, and the *)
(* limit is passed by the requests beside the last one at most.            *)
(***************************************************************************)
THEOREM DocumentsAreSafe == CoreSpec => []DocumentsSafe
<1> DEFINE Inv == part = "documents" => Docs!IInv
<1>1. CoreInit => Inv BY AllSupposed, Docs!DocumentsInit DEF CoreInit
<1>2. Inv /\ [CoreNext]_services => Inv'
  <2> SUFFICES ASSUME Inv, [CoreNext]_services, part' = "documents" PROVE Docs!IInv' OBVIOUS
  <2>1. part = "documents" /\ Docs!IInv BY PartStays
  <2>2. [Docs!Next]_(Docs!vars) BY <2>1 DEF CoreNext, services, Docs!vars
  <2> QED BY <2>1, <2>2, AllSupposed, Docs!DocumentsStep
<1>3. Inv => DocumentsSafe BY AllSupposed, Docs!DocumentsFollow DEF DocumentsSafe
<1> QED BY <1>1, <1>2, <1>3, PTL DEF CoreSpec

(***************************************************************************)
(* Invitations: the members and the pending invitations pass the           *)
(* organization's seats by no more than what was invited or accepted at    *)
(* once (invitations/use_cases.py counts before it creates).               *)
(***************************************************************************)
THEOREM SeatsHaveSlack == CoreSpec => []SeatSlack
<1> DEFINE Inv == part = "invitations" => Invites!IInv
<1>1. CoreInit => Inv BY AllSupposed, Invites!SeatsInit DEF CoreInit
<1>2. Inv /\ [CoreNext]_services => Inv'
  <2> SUFFICES ASSUME Inv, [CoreNext]_services, part' = "invitations" PROVE Invites!IInv' OBVIOUS
  <2>1. part = "invitations" /\ Invites!IInv BY PartStays
  <2>2. [Invites!Next]_(Invites!vars) BY <2>1 DEF CoreNext, services, Invites!vars
  <2> QED BY <2>1, <2>2, AllSupposed, Invites!SeatsStep
<1>3. Inv => SeatSlack BY AllSupposed, Invites!SeatTypes, Invites!SlackFollows DEF SeatSlack
<1> QED BY <1>1, <1>2, <1>3, PTL DEF CoreSpec

(***************************************************************************)
(* Accounts: an organization has the one record of how it came to be, its  *)
(* files are cleared after it is gone, and no request acts as a user whose *)
(* account was deleted.                                                    *)
(***************************************************************************)
THEOREM AccountsAreSafe == CoreSpec => []AccountsSafe
<1> DEFINE Inv == /\ part = "organizations" => Orgs!IInv
                  /\ part = "sessions" => Sess!IInv
<1>1. CoreInit => Inv BY AllSupposed, Orgs!RecordsInit, Sess!AccountInit DEF CoreInit
<1>2. Inv /\ [CoreNext]_services => Inv'
  <2> SUFFICES ASSUME Inv, [CoreNext]_services PROVE Inv' OBVIOUS
  <2>1. ASSUME part' = "organizations" PROVE Orgs!IInv'
    <3>1. part = "organizations" /\ Orgs!IInv BY <2>1, PartStays
    <3>2. [Orgs!Next]_(Orgs!vars) BY <3>1 DEF CoreNext, services, Orgs!vars
    <3> QED BY <3>1, <3>2, AllSupposed, Orgs!RecordsStep
  <2>2. ASSUME part' = "sessions" PROVE Sess!IInv'
    <3>1. part = "sessions" /\ Sess!IInv BY <2>2, PartStays
    <3>2. [Sess!Next]_(Sess!vars) BY <3>1 DEF CoreNext, services, Sess!vars
    <3> QED BY <3>1, <3>2, Sess!AccountStep
  <2> QED BY <2>1, <2>2
<1>3. Inv => AccountsSafe
  <2>1. Sess!IInv => Sess!TypeOK /\ Sess!NobodyActsDeleted
    BY DEF Sess!IInv, Sess!TypeInv, Sess!RowsType, Sess!TypeOK
  <2> QED BY <2>1, Orgs!RecordsFollow DEF AccountsSafe
<1> QED BY <1>1, <1>2, <1>3, PTL DEF CoreSpec

(***************************************************************************)
(* A session that was signed out stays signed out, whatever requests had   *)
(* found it valid before (sessions/sqlalchemy/adapter.py).                 *)
(***************************************************************************)
THEOREM SignedOutIsKept == CoreSpec => SignedOutStaysOut
<1> DEFINE Inv == part = "sessions" => Sess!TypeInv
           Act == part = "sessions" => Sess!StaysOut
<1>1. CoreInit => Inv BY Sess!TypeInit DEF CoreInit
<1>2. ASSUME [CoreNext]_services, part = "sessions" PROVE [Sess!Next]_(Sess!vars)
  BY <1>2 DEF CoreNext, services, Sess!vars
<1>3. Inv /\ [CoreNext]_services => Inv'
  <2> SUFFICES ASSUME Inv, [CoreNext]_services, part' = "sessions" PROVE Sess!TypeInv' OBVIOUS
  <2>1. part = "sessions" /\ Sess!TypeInv BY PartStays
  <2> QED BY <1>2, <2>1, Sess!TypeStep
<1>4. Inv /\ [CoreNext]_services => [Act]_<<part, s3>>
  <2> SUFFICES ASSUME Inv, [CoreNext]_services, part = "sessions" PROVE [Sess!StaysOut]_s3
    BY PartStays
  <2> QED BY <1>2, Sess!StaysOutStep
<1> QED BY <1>1, <1>3, <1>4, PTL DEF CoreSpec, SignedOutStaysOut

(***************************************************************************)
(* Limits: an email or an address fails no more often than its limit and   *)
(* the requests under way beside the one that reached it, and the limited  *)
(* paths let through what they may.                                        *)
(***************************************************************************)
THEOREM LimitsAreHeld == CoreSpec => []LimitsHold
<1> DEFINE Inv == part = "limits" => LimInv
<1>1. CoreInit => Inv BY AllSupposed, LimitsInit DEF CoreInit
<1>2. Inv /\ [CoreNext]_services => Inv'
  <2> SUFFICES ASSUME Inv, [CoreNext]_services, part' = "limits" PROVE LimInv' OBVIOUS
  <2>1. part = "limits" /\ LimInv BY PartStays
  <2>2. [Lims!Next]_(Lims!vars) BY <2>1 DEF CoreNext, services, Lims!vars
  <2> QED BY <2>1, <2>2, AllSupposed, LimitsStep
<1>3. Inv => LimitsHold BY AllSupposed, LimitsFollow DEF LimitsHold
<1> QED BY <1>1, <1>2, <1>3, PTL DEF CoreSpec

(***************************************************************************)
(* Event streams: a client that reconnects after the last event it got     *)
(* has no gap but of events the stream no longer held.                     *)
(***************************************************************************)
THEOREM StreamIsSafe == CoreSpec => []StreamSafe
<1> DEFINE Inv == part = "events" => StrInv
<1>1. CoreInit => Inv BY AllSupposed, StreamInit DEF CoreInit
<1>2. Inv /\ [CoreNext]_services => Inv'
  <2> SUFFICES ASSUME Inv, [CoreNext]_services, part' = "events" PROVE StrInv' OBVIOUS
  <2>1. part = "events" /\ StrInv BY PartStays
  <2>2. [Stream!Next]_(Stream!vars) BY <2>1 DEF CoreNext, services, Stream!vars
  <2> QED BY <2>1, <2>2, AllSupposed, StreamStep
<1>3. Inv => StreamSafe BY StreamFollow DEF StreamSafe
<1> QED BY <1>1, <1>2, <1>3, PTL DEF CoreSpec

(***************************************************************************)
(* Rendering: the browser is closed under no page that it has open, unless *)
(* it crashed; an image says that it was cut when it was; and a page that  *)
(* meets the accessibility pass mark can be used from the keyboard, as far *)
(* as the walk with Tab looks (render/browser.py, checks.py).              *)
(***************************************************************************)
THEOREM RenderIsSafe == CoreSpec => []RenderSafe
<1> DEFINE Inv == /\ part = "render" => RenInv
                  /\ part = "page checks" => ChkInv
<1>1. CoreInit => Inv BY AllSupposed, RenderInit, ChecksInit DEF CoreInit
<1>2. Inv /\ [CoreNext]_services => Inv'
  <2> SUFFICES ASSUME Inv, [CoreNext]_services PROVE Inv' OBVIOUS
  <2>1. ASSUME part' = "render" PROVE RenInv'
    <3>1. part = "render" /\ RenInv BY <2>1, PartStays
    <3>2. [Pool!Next]_(Pool!vars) BY <3>1 DEF CoreNext, services, Pool!vars
    <3> QED BY <3>1, <3>2, AllSupposed, RenderStep
  <2>2. ASSUME part' = "page checks" PROVE ChkInv'
    <3>1. part = "page checks" /\ ChkInv BY <2>2, PartStays
    <3>2. [Checks!Next]_(Checks!vars) BY <3>1 DEF CoreNext, services, Checks!vars
    <3> QED BY <3>1, <3>2, AllSupposed, ChecksStep
  <2> QED BY <2>1, <2>2
<1>3. Inv => RenderSafe BY AllSupposed, RenderFollow, ChecksFollow DEF RenderSafe
<1> QED BY <1>1, <1>2, <1>3, PTL DEF CoreSpec
=============================================================================
