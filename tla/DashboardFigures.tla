--------------------------- MODULE DashboardFigures ---------------------------
(***************************************************************************)
(* The dashboard's figures, worked out from the records the CRM holds when *)
(* it is read (metrics.py, insights.py, engagement.py): leads come in,     *)
(* write, are answered by people and automations, become deals, pay, book  *)
(* and are given tasks, while the clock goes on; every section can be      *)
(* worked out at any moment.                                               *)
(*                                                                         *)
(* Time is counted in hours, HOURS to a day; TZ shifts the business's day. *)
(* A section is the record of its figures, money and counts as integers;   *)
(* rates and names are left out.                                           *)
(***************************************************************************)
EXTENDS Integers, FiniteSets, FiniteSetsExt, Sequences, SequencesExt

CONSTANTS
    DAYS,           \* days of the period
    HOURS,          \* hours of a day
    TZ,             \* the business's time zone, in hours
    MONTH,          \* days of a month
    BUCKETS,        \* the upper ends of the waits the inbox tells apart, in hours
    ENOUGH,         \* fewest amounts from which a typical one is taken
    OUTLIER_FACTOR, \* an amount this many times the typical one is taken for mistyped
    UPCOMING_DAYS,
    STALE_DAYS,
    Amounts,        \* amounts of deals
    MaxRecords,     \* bound: records
    MaxTime         \* bound: hours

VARIABLES
    now,
    records     \* the records CX holds, in the order they were made

vars == <<now, records>>

Init == now = HOURS * DAYS /\ records = <<>>

-----------------------------------------------------------------------------
\* Period: the last DAYS local days up to now, the first of them whole.
LocalDay(t) == (t + TZ) \div HOURS
Start == (LocalDay(now) - (DAYS - 1)) * HOURS - TZ
InPeriod(t) == Start <= t /\ t < now
PreviousStart == Start - (now - Start)
DaysList == LocalDay(Start)..LocalDay(now - 1)

\* insights.month_starts: calendar months, the last of them the current one.
MonthOf(t) == LocalDay(t) \div MONTH
Months == 0..MonthOf(now)

Of(kind) == {i \in DOMAIN records : records[i].kind = kind}
Inside(kind) == {i \in Of(kind) : InPeriod(records[i].at)}
Worth(s) == MapThenSumSet(LAMBDA i : records[i].amount, s)
OnDay(s, d) == {i \in s : LocalDay(records[i].at) = d}

-----------------------------------------------------------------------------
Leads ==
    LET inside == Inside("lead") IN
    [total |-> Cardinality(inside),
     previous |-> Cardinality({i \in Of("lead") : PreviousStart <= records[i].at /\ records[i].at < Start}),
     byDay |-> [d \in DaysList |-> Cardinality(OnDay(inside, d))]]

\* What each ad brought: its leads, those that became deals, those that bought.
Ads ==
    LET brought == {i \in Inside("lead") : records[i].ad # "none"} IN
    [attributed |-> Cardinality(brought),
     ads |-> [a \in {records[i].ad : i \in brought} |->
         LET leads == {i \in brought : records[i].ad = a} IN
         [leads |-> Cardinality(leads), opportunities |-> Cardinality({i \in leads : records[i].deals # "none"}),
          won |-> Cardinality({i \in leads : records[i].deals = "won"})]]]

\* Conversations whose last word is the client's, by how long it has been left.
LastOf(conversation) == {i \in Of("message") : records[i].conversation = conversation}
Waits ==
    LET heard == {records[i].conversation : i \in Of("message")}
        owed == {c \in heard : records[Max(LastOf(c))].from = "client"}
    IN  {<<c, now - records[Max(LastOf(c))].at>> : c \in owed}

Inbox ==
    [waiting |-> Cardinality(Waits),
     buckets |-> [b \in 1..(Len(BUCKETS) + 1) |->
         Cardinality({w \in Waits : /\ b > 1 => w[2] >= BUCKETS[b - 1]
                                    /\ b <= Len(BUCKETS) => w[2] < BUCKETS[b]})]]

\* Twice the median, so that it stays an integer.
TwiceMedian(s) ==
    LET amounts == SortSeq(SetToSeq({<<records[i].amount, i>> : i \in s}), LAMBDA a, b : a[1] < b[1])
        n == Len(amounts)
    IN  amounts[(n + 1) \div 2][1] + amounts[n \div 2 + 1][1]

\* Amounts far beyond the typical deal's, kept out of the totals.
Outliers(deals) ==
    LET valued == {i \in deals : records[i].amount > 0} IN
    IF Cardinality(valued) < ENOUGH THEN {}
    ELSE {i \in valued : 2 * records[i].amount > OUTLIER_FACTOR * TwiceMedian(valued)}

Open == {i \in Of("deal") : records[i].status = "open"}
Stages == {"first", "second"}

Pipeline ==
    LET odd == Outliers(Open) IN
    [open |-> Cardinality(Open), openValue |-> Worth(Open \ odd),
     stages |-> [s \in Stages |->
         LET deals == {i \in Open : records[i].stage = s} IN
         [count |-> Cardinality(deals), value |-> Worth(deals \ odd)]],
     stale |-> Cardinality({i \in Open : (now - records[i].moved) \div HOURS >= STALE_DAYS}),
     warned |-> odd]

Sales ==
    LET closed(status) == {i \in Of("deal") : records[i].status = status /\ InPeriod(records[i].moved)} IN
    [created |-> Cardinality(Inside("deal")), won |-> Cardinality(closed("won")),
     lost |-> Cardinality(closed("lost")), wonValue |-> Worth(closed("won"))]

\* Each appointment once, though several calendars list it.
Appointments ==
    LET past == Inside("appointment")
        withStatus(s) == Cardinality({i \in past : records[i].status = s})
    IN  [total |-> Cardinality(past),
         showed |-> withStatus("showed"), noShow |-> withStatus("noshow"),
         cancelled |-> withStatus("cancelled"), pending |-> withStatus("pending"),
         upcoming |-> Cardinality({i \in Of("appointment") :
             /\ now <= records[i].at /\ records[i].at < now + UPCOMING_DAYS * HOURS
             /\ records[i].status # "cancelled"})]

Payments ==
    [collected |-> Worth(Inside("payment")), count |-> Cardinality(Inside("payment")),
     byDay |-> [d \in DaysList |-> Worth(OnDay(Inside("payment"), d))]]

\* Who holds the open deals and the conversations that wait; what is nobody's is a row too.
Team ==
    LET holder(c) == IF c = 1 THEN "ana" ELSE "nobody"
        people == {records[i].holder : i \in Open} \union {holder(w[1]) : w \in Waits}
    IN  [p \in people |->
            [openOpportunities |-> Cardinality({i \in Open : records[i].holder = p}),
             waitingConversations |-> Cardinality({w \in Waits : holder(w[1]) = p})]]

\* Answers of 9 and 10 promote, of 0 to 6 detract.
Nps(answers) ==
    LET promoters == {i \in answers : records[i].score >= 9}
        detractors == {i \in answers : records[i].score <= 6}
    IN  [responses |-> Cardinality(answers), promoters |-> Cardinality(promoters),
         detractors |-> Cardinality(detractors),
         passives |-> Cardinality(answers) - Cardinality(promoters) - Cardinality(detractors)]
Survey ==
    [current |-> Nps(Inside("answer")),
     previous |-> Nps({i \in Of("answer") : PreviousStart <= records[i].at /\ records[i].at < Start}),
     byMonth |-> [m \in {MonthOf(records[i].at) : i \in Of("answer")} |->
                     Nps({i \in Of("answer") : MonthOf(records[i].at) = m})]]

\* Month by month; CX counts the leads of each.
Growth ==
    LET wonIn(m) == {i \in Of("deal") : records[i].status = "won" /\ MonthOf(records[i].moved) = m}
        odd == Outliers(Of("deal"))
    IN  [m \in Months |->
            [leads |-> Cardinality({i \in Of("lead") : MonthOf(records[i].at) = m /\ records[i].at < now}),
             opportunities |-> Cardinality({i \in Of("deal") : MonthOf(records[i].at) = m}),
             won |-> Cardinality(wonIn(m)), wonValue |-> Worth(wonIn(m) \ odd),
             revenue |-> Worth({i \in Of("payment") : MonthOf(records[i].at) = m})]]

Conversion ==
    LET leads == Inside("lead")
        having(deals) == {i \in leads : records[i].deals \in deals}
    IN  [leads |-> Cardinality(leads), withOpportunity |-> Cardinality(having({"open", "won"})),
         customers |-> Cardinality(having({"won"}))]

\* Who said what in a conversation, oldest first, what only the system wrote left out.
Thread(c) == SelectSeq(records, LAMBDA r : r.kind = "message" /\ r.conversation = c /\ r.from # "activity")

\* The client's first message after our silence starts the clock; the first reply a person
\* writes stops it; one left open waits until now.
HumanReply(from) == from = "person"
Heard(acc, m) ==
    IF m.from = "client" THEN IF acc.pending = -1 THEN [acc EXCEPT !.pending = m.at] ELSE acc
    ELSE IF acc.pending # -1 /\ HumanReply(m.from) THEN
        [pending |-> -1, waits |-> IF InPeriod(acc.pending) THEN Append(acc.waits, m.at - acc.pending) ELSE acc.waits]
    ELSE acc

Response(c) ==
    LET end == FoldLeft(Heard, [pending |-> -1, waits |-> <<>>], Thread(c)) IN
    [answered |-> Len(end.waits), hours |-> end.waits,
     unanswered |-> IF end.pending # -1 /\ InPeriod(end.pending) THEN 1 ELSE 0]

\* Of everyone who paid, who paid before: the period's money from people who had.
Retention ==
    LET paid == Of("payment")
        customers == {records[i].customer : i \in paid}
        returning == {i \in Inside("payment") :
                         \E j \in paid : records[j].customer = records[i].customer /\ records[j].at < Start}
    IN  [customers |-> Cardinality(customers),
         repeat |-> Cardinality({c \in customers : Cardinality({i \in paid : records[i].customer = c}) > 1}),
         returningValue |-> Worth(returning), periodValue |-> Worth(Inside("payment"))]

Tasks ==
    LET open == {i \in Of("task") : records[i].status = "open"}
        late == {i \in open : LocalDay(records[i].due) < LocalDay(now)}
    IN  [open |-> Cardinality(open), overdue |-> Cardinality(late),
         dueToday |-> Cardinality({i \in open : LocalDay(records[i].due) = LocalDay(now)})]

\* Posts of a network CX reports nothing of are published, but never averaged in.
Posts ==
    LET every == Of("post")
        measured == {records[i].network : i \in {j \in every : records[j].engaged}}
        inside == {i \in Inside("post") : records[i].network \in measured}
    IN  [published |-> Cardinality(Inside("post")), posts |-> Cardinality(inside),
         byNetwork |-> [n \in measured |-> Cardinality({i \in inside : records[i].network = n})],
         unmeasured |-> {records[i].network : i \in every} \ measured]

-----------------------------------------------------------------------------
Add(r) ==
    /\ Len(records) < MaxRecords
    /\ records' = Append(records, r)
    /\ UNCHANGED now

LeadComes(ad) == Add([kind |-> "lead", at |-> now, ad |-> ad, deals |-> "none"])
Answers(score) == Add([kind |-> "answer", at |-> now, score |-> score])
Says(c, from) == Add([kind |-> "message", at |-> now, conversation |-> c, from |-> from])
DealOpens(amount, stage) ==
    Add([kind |-> "deal", at |-> now, moved |-> now, amount |-> amount, stage |-> stage, status |-> "open",
         holder |-> IF stage = "first" THEN "nobody" ELSE "ana"])
Pays(customer) == Add([kind |-> "payment", at |-> now, amount |-> 1, customer |-> customer])
Books(at) == Add([kind |-> "appointment", at |-> at, status |-> "pending"])
IsGiven(due) == Add([kind |-> "task", at |-> now, due |-> due, status |-> "open"])
Publishes(network, engaged) == Add([kind |-> "post", at |-> now, network |-> network, engaged |-> engaged])

Changes(i, r) == records' = [records EXCEPT ![i] = r] /\ UNCHANGED now

\* A deal is won or lost, an appointment kept or not, a lead's deal moves.
DealCloses(i, status) == i \in Open /\ Changes(i, [records[i] EXCEPT !.status = status, !.moved = now])
LeadAdvances(i, deals) == i \in Of("lead") /\ Changes(i, [records[i] EXCEPT !.deals = deals])
IsMarked(i, status) == i \in Of("appointment") /\ Changes(i, [records[i] EXCEPT !.status = status])

Tick == now < MaxTime /\ now' = now + 1 /\ UNCHANGED records

Next ==
    \/ \E b \in BOOLEAN : Publishes("one", b) \/ Publishes("other", b)
    \/ LeadComes("none") \/ LeadComes("ad")
    \/ \E n \in {6, 8, 9} : Answers(n)
    \/ \E c \in 1..2 : Pays(c)
    \/ \E from \in {"client", "person", "automation", "activity"} : Says(1, from)
    \/ Says(2, "client")
    \/ \E a \in Amounts, s \in Stages : DealOpens(a, s)
    \/ \E t \in {now, now + HOURS} : Books(t) \/ IsGiven(t)
    \/ \E i \in DOMAIN records :
        \/ \E s \in {"won", "lost"} : DealCloses(i, s)
        \/ \E d \in {"open", "won"} : LeadAdvances(i, d)
        \/ \E s \in {"showed", "noshow", "cancelled"} : IsMarked(i, s)
    \/ Tick

Spec == Init /\ [][Next]_vars

-----------------------------------------------------------------------------
Total(f) == MapThenSumSet(LAMBDA x : f[x], DOMAIN f)

TypeOK == now \in 0..MaxTime /\ Len(records) <= MaxRecords

\* Every bar chart adds up to the total beside it, whatever the time zone and the moment the
\* dashboard is read: no lead, payment, wait or post falls between two bars or on none
\* (metrics.leads, inbox, pipeline, payments, appointments; engagement.posts).
FiguresAddUp ==
    /\ Total(Leads.byDay) = Leads.total /\ Total(Payments.byDay) = Payments.collected
    /\ Cardinality(DaysList) <= DAYS
    /\ Total(Inbox.buckets) = Inbox.waiting
    /\ Total([s \in Stages |-> Pipeline.stages[s].value]) = Pipeline.openValue
    /\ Appointments.total = Appointments.showed + Appointments.noShow + Appointments.cancelled + Appointments.pending
    /\ Total(Posts.byNetwork) = Posts.posts

\* What only automations have answered is not answered, and what the inbox shows as waiting
\* since it began is counted unanswered (insights.response_times, metrics.inbox).
WaitingIsUnanswered ==
    \A c \in {records[i].conversation : i \in Of("message")} :
        LET said == {i \in Of("message") : records[i].conversation = c} IN
        /\ (\A i \in said : records[i].from # "person") => Response(c).answered = 0
        /\ (\A i \in said : records[i].from = "client") /\ InPeriod(records[Min(said)].at) => Response(c).unanswered = 1

\* A part is never more than its whole: returning money, repeat customers, customers among
\* the opportunities among the leads, an ad's leads, late tasks; and everything the team
\* holds is what is open and waiting (insights.retention, conversion, ads, nps;
\* engagement.tasks; metrics.team).
PartsOfTheWhole ==
    /\ Retention.returningValue <= Retention.periodValue /\ Retention.repeat <= Retention.customers
    /\ Conversion.customers <= Conversion.withOpportunity /\ Conversion.withOpportunity <= Leads.total
    /\ Tasks.overdue + Tasks.dueToday <= Tasks.open
    /\ Total([m \in Months |-> Growth[m].opportunities]) = Cardinality(Of("deal"))
    /\ Total([a \in DOMAIN Ads.ads |-> Ads.ads[a].leads]) = Ads.attributed
    /\ Total([p \in DOMAIN Team |-> Team[p].openOpportunities]) = Pipeline.open
    /\ Total([p \in DOMAIN Team |-> Team[p].waitingConversations]) = Inbox.waiting
    /\ Survey.current.passives >= 0
    /\ Total([m \in DOMAIN Survey.byMonth |-> Survey.byMonth[m].responses]) = Cardinality(Of("answer"))

FiguresAgree == FiguresAddUp /\ WaitingIsUnanswered /\ PartsOfTheWhole
=============================================================================
