------------------------------ MODULE RenderPool ------------------------------
(***************************************************************************)
(* The render service (render/browser.py, app.py, capture.py) as the API   *)
(* and the workers reach it (render_client/client.py): one Chromium per    *)
(* process, a context for every page, at most MAX_CONCURRENT side by side; *)
(* the browser is replaced when it crashed, or after RESTART_AFTER renders *)
(* when no page uses it.  A request is cancelled wherever it stands when   *)
(* its time is up; pages fail, navigate away, and take the browser down.   *)
(***************************************************************************)
EXTENDS Integers, FiniteSets

CONSTANTS
    Callers,
    MAX_CONCURRENT,
    RESTART_AFTER,
    PNG_MAX,        \* the tallest image
    PDF_MAX,        \* the tallest PDF page
    MIN_SCALE,      \* a page is shrunk to one part in MIN_SCALE at most
    Heights,        \* heights of pages, as laid out
    MaxRenders,     \* bound: pages opened in all
    MaxCrashes      \* bound: crashes of the browser, launches that fail

VARIABLES
    browser,   \* the Chromium in use: its number and whether it is up
    lock,      \* the caller replacing it, or "nobody"
    active,    \* how many pages the service takes to be open
    renders,   \* how many this browser has rendered
    req,       \* each caller's request
    reply,     \* what each caller was last told
    opened, crashes

vars == <<browser, lock, active, renders, req, reply, opened, crashes>>

\* on is the browser a page was opened in, code what is answered once it is closed.
Idle == [at |-> "idle", kind |-> "none", height |-> 0, passes |-> 0, on |-> 0, code |-> 0]
Nothing == [code |-> 0]

Init ==
    /\ browser = [n |-> 1, up |-> TRUE] /\ lock = "nobody"
    /\ active = 0 /\ renders = 0 /\ opened = 0 /\ crashes = 0
    /\ req = [c \in Callers |-> Idle] /\ reply = [c \in Callers |-> Nothing]

-----------------------------------------------------------------------------
At(c, states) == req[c].at \in states
HasSlot == {c \in Callers : At(c, {"slot", "launching", "opening", "page", "closing"})}
Using == {c \in Callers : At(c, {"page"})}
FreeSlot == Cardinality(HasSlot) < MAX_CONCURRENT

\* Due, and no page is still using it.
\* Mutant: open pages are not waited for.
DueAnyway == renders >= RESTART_AFTER
Due == renders >= RESTART_AFTER /\ active = 0

Becomes(c, r) == req' = [req EXCEPT ![c] = r]
Told(c, r) == reply' = [reply EXCEPT ![c] = r]

Queued(kind, h, passes) ==
    [at |-> "queued", kind |-> kind, height |-> h, passes |-> passes, on |-> 0, code |-> 0]

\* POST /png, /pdf or /check; a check opens the page twice, on a phone and on a desktop.
Post(c, kind, h) ==
    /\ At(c, {"idle"}) /\ opened < MaxRenders
    /\ Becomes(c, Queued(kind, h, IF kind = "check" THEN 2 ELSE 1))
    /\ Told(c, Nothing)
    /\ UNCHANGED <<browser, lock, active, renders, opened, crashes>>

TakeSlot(c) ==
    /\ At(c, {"queued"}) /\ FreeSlot /\ opened < MaxRenders
    /\ Becomes(c, [req[c] EXCEPT !.at = "slot"])
    /\ UNCHANGED <<browser, lock, active, renders, reply, opened, crashes>>

\* _current: the browser there is, or the lock to replace it, which closes it first.
Current(c) ==
    /\ At(c, {"slot"}) /\ lock = "nobody" /\ browser.up /\ ~Due
    /\ active' = active + 1 /\ renders' = renders + 1 /\ opened' = opened + 1
    /\ Becomes(c, [req[c] EXCEPT !.at = "opening", !.on = browser.n])
    /\ UNCHANGED <<browser, lock, reply, crashes>>

Replace(c) ==
    /\ At(c, {"slot"}) /\ lock = "nobody" /\ (~browser.up \/ Due)
    /\ lock' = c /\ browser' = [browser EXCEPT !.up = FALSE]
    /\ Becomes(c, [req[c] EXCEPT !.at = "launching"])
    /\ UNCHANGED <<active, renders, reply, opened, crashes>>

Launch(c) ==
    /\ At(c, {"launching"})
    /\ browser' = [n |-> browser.n + 1, up |-> TRUE] /\ lock' = "nobody"
    /\ active' = active + 1 /\ renders' = 1 /\ opened' = opened + 1
    /\ Becomes(c, [req[c] EXCEPT !.at = "opening", !.on = browser.n + 1])
    /\ UNCHANGED <<reply, crashes>>

LaunchFails(c) ==
    /\ At(c, {"launching"}) /\ crashes < MaxCrashes
    /\ lock' = "nobody" /\ crashes' = crashes + 1
    /\ Becomes(c, Idle) /\ Told(c, [code |-> 500])
    /\ UNCHANGED <<browser, active, renders, opened>>

Alive(c) == browser.up /\ req[c].on = browser.n

\* The page's own context; without one, nothing is taken back.
NewContext(c) ==
    /\ At(c, {"opening"})
    /\ IF Alive(c)
       THEN Becomes(c, [req[c] EXCEPT !.at = "page"]) /\ UNCHANGED reply
       ELSE Becomes(c, Idle) /\ Told(c, [code |-> 500])
    /\ UNCHANGED <<browser, lock, active, renders, opened, crashes>>

-----------------------------------------------------------------------------
LeastOf(a, b) == IF a < b THEN a ELSE b

\* png cuts the bottom past PNG_MAX; scroll_pdf shrinks the page onto one sheet, and cuts
\* what MIN_SCALE leaves; paged_pdf takes as many sheets as it needs.
Shown(h, s) == [shown |-> s, height |-> h, truncated |-> h > s]
Png(h) == Shown(h, LeastOf(h, PNG_MAX))
ScrollPdf(h) ==
    LET scale == IF h <= PDF_MAX THEN 1 ELSE LeastOf(MIN_SCALE, (h + PDF_MAX - 1) \div PDF_MAX) IN
    Shown(h, LeastOf(h, scale * LeastOf((h + scale - 1) \div scale, PDF_MAX)))
PagedPdf(h) == Shown(h, h)
Captured(kind, h) == CASE kind = "png" -> Png(h) [] kind = "scroll" -> ScrollPdf(h) [] OTHER -> PagedPdf(h)

\* The block over the page ends, whatever happened in it: the page is counted out, its
\* context closed, the slot given back.
Leave(c, code) ==
    /\ active' = active - 1
    /\ Becomes(c, [req[c] EXCEPT !.at = "closing", !.code = code])
    /\ UNCHANGED <<browser, lock, renders, reply, opened, crashes>>

Capture(c) == At(c, {"page"}) /\ Alive(c) /\ Leave(c, 200)
NavigatesAway(c) == At(c, {"page"}) /\ Alive(c) /\ Leave(c, 422)
LosesBrowser(c) == At(c, {"page"}) /\ ~Alive(c) /\ Leave(c, 500)

Close(c) ==
    /\ At(c, {"closing"})
    /\ IF req[c].code = 200 /\ req[c].passes > 1
       THEN /\ Becomes(c, Queued(req[c].kind, req[c].height, req[c].passes - 1))
            /\ UNCHANGED reply
       ELSE /\ Becomes(c, Idle)
            /\ Told(c, IF req[c].code = 200 THEN [code |-> 200, of |-> Captured(req[c].kind, req[c].height)]
                       ELSE [code |-> req[c].code])
    /\ UNCHANGED <<browser, lock, active, renders, opened, crashes>>

\* wait_for: the request is cancelled wherever it stands; the one over the page closes it.
TimesOut(c) ==
    /\ \/ /\ At(c, {"queued", "slot", "launching", "opening"})
          /\ lock' = IF lock = c THEN "nobody" ELSE lock
          /\ Becomes(c, Idle) /\ Told(c, [code |-> 504])
          /\ UNCHANGED <<browser, active, renders, opened, crashes>>
       \/ At(c, {"page"}) /\ Leave(c, 504)

Crash ==
    /\ browser.up /\ crashes < MaxCrashes
    /\ browser' = [browser EXCEPT !.up = FALSE] /\ crashes' = crashes + 1
    /\ UNCHANGED <<lock, active, renders, req, reply, opened>>

Next ==
    \/ Crash
    \/ \E c \in Callers :
        \/ \E k \in {"png", "scroll", "paged", "check"}, h \in Heights : Post(c, k, h)
        \/ TakeSlot(c) \/ Current(c) \/ Replace(c) \/ Launch(c) \/ LaunchFails(c)
        \/ NewContext(c) \/ Capture(c) \/ NavigatesAway(c) \/ LosesBrowser(c) \/ Close(c) \/ TimesOut(c)

Spec == Init /\ [][Next]_vars

-----------------------------------------------------------------------------
TypeOK ==
    /\ browser.up \in BOOLEAN /\ lock \in Callers \union {"nobody"}
    /\ {active, renders, opened} \subseteq 0..(MaxRenders + Cardinality(Callers))

\* The count of open pages never falls short: a browser is taken for unused only when no page
\* is open in it (browser.py _active, open).
CountsEveryPage == active >= Cardinality({c \in Callers : At(c, {"opening", "page"})})

\* A browser under an open page goes only by crashing: replacing one that is due waits for
\* every page in it (_current, _launch).
PagesKeepTheirBrowser ==
    \A c \in Callers : lock = c /\ crashes = 0 => Using = {}

\* Whoever is told an image is whole got all of it, and whoever is told it is cut did not.
CutSaysSo == \A c \in Callers : reply[c].code = 200 => (reply[c].of.truncated <=> reply[c].of.shown < reply[c].of.height)

RenderSafe == CountsEveryPage /\ PagesKeepTheirBrowser /\ CutSaysSo

\* A browser that is due is replaced by the next request once no page uses it ("Replaced when
\* it crashed, or when it is due and no page is still using it").
ReplacedWhenUnused ==
    renders >= RESTART_AFTER /\ (\A c \in Callers : At(c, {"idle", "queued", "slot"})) => active = 0
=============================================================================
