------------------------------- MODULE Datasets -------------------------------
(***************************************************************************)
(* CX datasets: a read operation of the CRM paged to its end, the rows and *)
(* the manifest written to the workspace one after the other, the manifest *)
(* that answers the same request again, and exact queries over the rows.   *)
(*                                                                         *)
(* The CRM's rows are numbered in the order it lists them; each has the    *)
(* value of one field.  What it does with a request it does not understand *)
(* is what crm/paging.py says of it: it ignores the parameter.             *)
(***************************************************************************)
EXTENDS Naturals, FiniteSets, FiniteSetsExt, Sequences, SequencesExt

CONSTANTS
    Clients,        \* fetches under way at once
    Names,          \* names of datasets, a folder each
    Questions,      \* requests: operation, parameters and fields
    Fields,         \* value of the field in each row the CRM may have, in order
    MAX_PAGE_SIZE,  \* the most rows the CRM puts in a page
    DEFAULT_SIZE,   \* the rows it puts in a page it is given no size for
    MAX_PAGES,      \* config.MAX_PAGES
    MaxRows,        \* values of max_rows callers give
    MaxFetches      \* bound: fetches begun

VARIABLES
    crm,        \* the rows there are, one to n
    fetches,    \* client -> the fetch it has under way
    rowsFile,   \* name -> the rows stored: of which request, which rows
    manifest,   \* name -> the manifest stored
    asked       \* fetches begun

vars == <<crm, fetches, rowsFile, manifest, asked>>

Nothing == "nothing"
Ids == 1..Len(Fields)

\* What describe_operation tells: which paging parameters and size the operation takes,
\* whether its pages carry a total and its rows the cursor, and whether it heeds them.
Pagings == {"cursor", "page", "none"}
Contract == [kind : {"read", "write"}, paging : Pagings, sized : BOOLEAN, totals : BOOLEAN,
             carries : BOOLEAN, heeds : BOOLEAN]

Rest == [at |-> "rest"]
NoRows == [of |-> Nothing, rows |-> <<>>]
NoManifest == [of |-> Nothing, complete |-> FALSE, rows |-> 0, profile |-> Nothing]

Init ==
    /\ crm \in {1..n : n \in 0..Len(Fields)}
    /\ fetches = [c \in Clients |-> Rest]
    /\ rowsFile = [n \in Names |-> NoRows]
    /\ manifest = [n \in Names |-> NoManifest]
    /\ asked = 0

-----------------------------------------------------------------------------
\* query.matches: the filters, over a row's value.  An empty value is "" and one that is
\* not there is "missing".
Exists(v) == v \notin {"missing", ""}
Matches(v, op, expected) ==
    CASE op = "exists" -> Exists(v)
      [] op = "missing" -> ~Exists(v)
      [] op = "ne" -> v = "missing" \/ v # expected
      [] op = "eq" -> v # "missing" /\ v = expected

GroupOf(v) == IF v \in {"missing", ""} THEN "(none)" ELSE v

\* query.run: the rows kept, and how many of them there are by value.
Run(rows, op, expected) ==
    LET kept == {i \in DOMAIN rows : Matches(Fields[rows[i]], op, expected)} IN
    [kept |-> Cardinality(kept), of |-> Len(rows),
     groups |-> [g \in {GroupOf(Fields[rows[i]]) : i \in kept} |->
                    Cardinality({i \in kept : GroupOf(Fields[rows[i]]) = g})]]

\* profile.profile: in how many rows the field is there, in how many it is empty, and how
\* many values it has.
Profile(rows) ==
    LET present == {i \in DOMAIN rows : Fields[rows[i]] # "missing"} IN
    [present |-> Cardinality(present), nulls |-> Len(rows) - Cardinality(present),
     empty |-> Cardinality({i \in present : Fields[rows[i]] = ""}),
     distinct |-> Cardinality({Fields[rows[i]] : i \in {j \in present : Fields[rows[j]] # ""}})]

-----------------------------------------------------------------------------
InOrder(s) == SetToSortSeq(s, <)

\* A page of the CRM: the rows after the cursor, or those of the page's number, at most
\* size of them.
PageOf(f, size) ==
    LET from == IF ~f.contract.heeds THEN 0
                ELSE IF f.contract.paging = "page" THEN f.pages * size ELSE 0
        rest == IF f.contract.paging = "cursor" /\ f.contract.heeds
                THEN InOrder({r \in crm : r > f.cursor}) ELSE InOrder(crm)
    IN  SubSeq(rest, from + 1, IF from + size < Len(rest) THEN from + size ELSE Len(rest))

Asked(f) == Min({MAX_PAGE_SIZE, f.maxRows - Len(f.written)})
Sized(f) == f.contract.sized /\ f.contract.paging # "none"
SizeOf(f) == IF Sized(f) THEN Asked(f) ELSE DEFAULT_SIZE

\* How many rows a page has when it is not the last one.
\* Mutant: a page is full when it has what CX may put in it at most.
GuessedSize(f, page) == IF Sized(f) THEN Asked(f) ELSE MAX_PAGE_SIZE
FullPage(f, page) == IF Sized(f) THEN Asked(f) ELSE IF f.expected = 0 THEN Len(page) ELSE f.expected

Kept(f, page) == f.written \o SubSeq(page, 1, Min({Len(page), f.maxRows - Len(f.written)}))
Total(f) == IF f.contract.totals /\ crm # {} THEN Cardinality(crm) ELSE f.total

\* The next page's cursor is the last row's own; 0 when it carries none.
NextCursor(f, page) ==
    IF f.contract.paging = "cursor" /\ f.contract.carries /\ page # <<>> THEN Last(page) ELSE 0

\* Why the loop stops after a page, "" when it goes on; looked at in the code's order.
Stopped(f, page) ==
    IF page = <<>> THEN "empty"
    ELSE IF Len(Kept(f, page)) >= f.maxRows THEN "max_rows"
    ELSE IF Total(f) # 0 /\ Len(Kept(f, page)) >= Total(f) THEN "total"
    ELSE IF f.contract.paging = "none" THEN "no paging"
    ELSE IF Len(page) < FullPage(f, page) THEN "short"
    ELSE IF f.pages + 1 >= MAX_PAGES THEN "page limit"
    ELSE IF f.contract.paging = "page" THEN ""
    ELSE IF NextCursor(f, page) = 0 THEN "no cursor"
    ELSE IF NextCursor(f, page) \in f.seen THEN "cursor stuck"
    ELSE ""

\* datasets._complete: checked against the CRM's total where there is one.
Complete(rows, total, maxRows, paging) ==
    IF total # 0 THEN rows >= total ELSE paging # "none" /\ rows < maxRows

-----------------------------------------------------------------------------
Manifests == {n \in Names : manifest[n] # NoManifest}
Cached(q) == {n \in Manifests : manifest[n].of = q}

\* fetch: today's dataset of this very request answers, under any name, unless the caller
\* wants it fetched again.
Fetch(c, n, q, refresh, maxRows, contract) ==
    /\ fetches[c].at = "rest"
    /\ asked < MaxFetches
    /\ refresh \/ Cached(q) = {}
    /\ contract.kind = "read"
    /\ asked' = asked + 1
    /\ fetches' = [fetches EXCEPT ![c] =
           [at |-> "paging", name |-> n, question |-> q, maxRows |-> maxRows, contract |-> contract,
            written |-> <<>>, pages |-> 0, expected |-> 0, total |-> 0, cursor |-> 0, seen |-> {},
            stopped |-> ""]]
    /\ UNCHANGED <<crm, rowsFile, manifest>>

\* A page of the loop in _page.
Page(c) ==
    LET f == fetches[c]
        page == PageOf(f, SizeOf(f))
    IN  /\ f.at = "paging"
        /\ fetches' = [fetches EXCEPT ![c] =
               [f EXCEPT !.at = IF Stopped(f, page) = "" THEN "paging" ELSE "fetched",
                         !.written = Kept(f, page), !.pages = @ + 1, !.total = Total(f),
                         !.expected = FullPage(f, page), !.stopped = Stopped(f, page),
                         !.cursor = NextCursor(f, page), !.seen = @ \cup {NextCursor(f, page)}]]
        /\ UNCHANGED <<crm, rowsFile, manifest, asked>>

\* The rows replace those of the dataset of that name, then its manifest is replaced.
WriteRows(c) ==
    LET f == fetches[c] IN
    /\ f.at = "fetched"
    /\ rowsFile' = [rowsFile EXCEPT ![f.name] = [of |-> f.question, rows |-> f.written]]
    /\ fetches' = [fetches EXCEPT ![c].at = "written"]
    /\ UNCHANGED <<crm, manifest, asked>>

WriteManifest(c) ==
    LET f == fetches[c] IN
    /\ f.at = "written"
    /\ manifest' = [manifest EXCEPT ![f.name] =
           [of |-> f.question, rows |-> Len(f.written), profile |-> Profile(f.written),
            complete |-> Complete(Len(f.written), f.total, f.maxRows, f.contract.paging)]]
    /\ fetches' = [fetches EXCEPT ![c] = Rest]
    /\ UNCHANGED <<crm, rowsFile, asked>>

\* A page's call is refused or fails: what was fetched is not kept.
CallFails(c) ==
    /\ fetches[c].at = "paging"
    /\ fetches' = [fetches EXCEPT ![c] = Rest]
    /\ UNCHANGED <<crm, rowsFile, manifest, asked>>

\* A file cannot be written, or the process dies.
Die(c) ==
    /\ fetches[c].at \in {"fetched", "written"}
    /\ fetches' = [fetches EXCEPT ![c] = Rest]
    /\ UNCHANGED <<crm, rowsFile, manifest, asked>>

\* QueryCXDataset reads the rows stored, never the manifest.
Query(n, op, expected) == Run(rowsFile[n].rows, op, expected)

Ops == {"exists", "missing", "eq", "ne"}

Next ==
    \/ \E c \in Clients, n \in Names, q \in Questions, refresh \in BOOLEAN, m \in MaxRows, k \in Contract :
           Fetch(c, n, q, refresh, m, k)
    \/ \E c \in Clients : Page(c) \/ WriteRows(c) \/ WriteManifest(c) \/ CallFails(c) \/ Die(c)

Spec == Init /\ [][Next]_vars

-----------------------------------------------------------------------------
TypeOK ==
    /\ crm \subseteq Ids
    /\ \A c \in Clients : fetches[c].at \in {"rest", "paging", "fetched", "written"}
    /\ \A n \in Names : rowsFile[n].of \in Questions \cup {Nothing} /\ manifest[n].complete \in BOOLEAN

\* Over a CRM that heeds what it is asked, a dataset that will be reported complete holds every row, once: no short page, total or cap is taken
\* for the end before it (datasets._page, _complete).  Not looked at: paging that gave up,
\* and pages by number whose size shrinks at the end, where it does not hold.
CompleteIsWhole ==
    \A c \in Clients :
        LET f == fetches[c] IN
        /\ f.at \in {"fetched", "written"} /\ f.contract.heeds
        /\ f.stopped \notin {"page limit", "no cursor"}
        /\ f.contract.paging = "page" => ~f.contract.sized \/ f.maxRows % MAX_PAGE_SIZE = 0
        /\ Complete(Len(f.written), f.total, f.maxRows, f.contract.paging)
        => f.written = InOrder(crm)

\* What the groups of an answer count adds up to the rows it says match, and every row is
\* kept by a filter or by its opposite (query.run).
AnswersAddUp ==
    \A n \in Names, v \in Range(Fields), opposite \in {<<"exists", "missing">>, <<"eq", "ne">>} :
        LET one == Query(n, opposite[1], v)
            other == Query(n, opposite[2], v)
        IN  /\ one.kept + other.kept = one.of
            /\ \A answer \in {one, other} :
                   MapThenSumSet(LAMBDA g : answer.groups[g], DOMAIN answer.groups) = answer.kept

\* "A truncated dataset that announces itself, never a silent one": paging whose rows turn
\* out to carry no cursor is recorded as incomplete.
TruncatedSaysSo ==
    \A c \in Clients :
        LET f == fetches[c] IN
        f.at \in {"fetched", "written"} /\ f.stopped = "no cursor"
        => ~Complete(Len(f.written), f.total, f.maxRows, f.contract.paging)

\* "Two questions must never serve each other's rows": a manifest that answers a request
\* stands beside the rows of that request.
ManifestOfItsRows ==
    \A n \in Names :
        manifest[n] # NoManifest /\ (\A c \in Clients : fetches[c].at # "written")
        => manifest[n].of = rowsFile[n].of
=============================================================================
