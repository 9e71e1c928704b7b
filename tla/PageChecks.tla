------------------------------ MODULE PageChecks ------------------------------
(***************************************************************************)
(* What a page does in a browser, measured (render/checks.py): the page is *)
(* opened on a phone and on a desktop, every check of that width is run on *)
(* its elements, and on the desktop Tab is pressed until every control has *)
(* been reached, the walk has come round, or it has run out of presses.    *)
(*                                                                         *)
(* An element is a record: its place in the page (inside), its kind, and   *)
(* the set of what is wrong with it; layout, colours and CSS are what the  *)
(* checks tell apart of them.  tabs is the order in which the browser goes *)
(* through the page; 0 in it is something the script did not mark.         *)
(***************************************************************************)
EXTENDS Integers, Sequences, FiniteSets

CONSTANTS
    Elements,       \* the elements pages are made of
    Size,           \* how many a page has
    MAX_TAB_STOPS

VARIABLES
    page, tabs,
    at,             \* "phone", "desktop", "tabbing", "done"
    found,          \* the findings: [check, width, of]
    place,          \* how far the walk is in tabs
    reached, dull, unseen, presses

vars == <<page, tabs, at, found, place, reached, dull, unseen, presses>>

Is(i, kinds) == page[i].kind \in kinds
Has(i, flaw) == flaw \in page[i].flaws
All == DOMAIN page
Visible == {i \in All : ~Has(i, "hidden")}
Ancestors(i) == IF page[i].inside = 0 THEN {} ELSE {page[i].inside}

-----------------------------------------------------------------------------
\* Past the right edge, unless something around it clips; of those, the outermost.
Overflow ==
    LET wide == {i \in Visible : Has(i, "wide") /\ \A a \in Ancestors(i) : ~Has(a, "clips")}
    IN  {i \in wide : Ancestors(i) \intersect wide = {}}
\* Declarations and selectors the browser drops, variables nobody defines.
DroppedCss == {i \in All : Has(i, "bad_css") \/ Has(i, "undefined_variable")}
\* Colours and spaces on screen that are no token.
OffToken == {i \in Visible : Has(i, "raw_colour")}
\* Fields under 16 px, text under 12.
SmallText == {i \in Visible : Has(i, "small")}
Images == {i \in All : Is(i, {"image"}) /\ (Has(i, "unsized") \/ Has(i, "broken"))}
\* Text against the colour behind it; not where an image is behind.
LowContrast == {i \in Visible : Is(i, {"text", "control"}) /\ Has(i, "pale") /\ \A a \in Ancestors(i) : ~Is(a, {"image"})}
Fonts == {i \in Visible : Has(i, "fallback_font")}
\* What a screen reader announces: nothing.
Nameless ==
    {i \in All : Has(i, "unnamed") /\ (Is(i, {"image"}) \/ (i \in Visible /\ Is(i, {"control", "field"})))}
    \union {i \in All : Has(i, "skips_level") \/ Has(i, "positive_tabindex")}

MobileChecks == [overflow |-> Overflow, small_text |-> SmallText]
DesktopChecks ==
    [css |-> DroppedCss, tokens |-> OffToken, images |-> Images, contrast |-> LowContrast,
     fonts |-> Fonts, names |-> Nameless]

\* One check's finding; one that raises says that it could not run.
Findings(checks, width, broken) ==
    {[check |-> c, width |-> width, of |-> IF c = broken THEN {} ELSE checks[c]] :
        c \in {d \in DOMAIN checks : d = broken \/ checks[d] # {}}}

-----------------------------------------------------------------------------
\* What the script marks as a stop: the controls and fields one sees.
Marked == {i \in Visible : Is(i, {"control", "field"}) /\ ~Has(i, "untabbable")}
Stops == {i \in Marked : Cardinality({j \in Marked : j < i}) < MAX_TAB_STOPS}

Orders == {o \in UNION {[1..n -> 0..Size] : n \in 0..(Size + 1)} :
              /\ \A k \in DOMAIN o : o[k] = 0 \/ o[k] \in Marked
              /\ \A k, l \in DOMAIN o : o[k] = o[l] /\ o[k] # 0 => k = l}

Init ==
    /\ page \in {p \in [1..Size -> Elements] : \A i \in 1..Size : p[i].inside < i}
    /\ tabs \in Orders
    /\ at = "phone" /\ found = {} /\ place = 0 /\ presses = 0
    /\ reached = {} /\ dull = {} /\ unseen = {}

Phone(broken) ==
    /\ at = "phone"
    /\ found' = Findings(MobileChecks, "phone", broken)
    /\ at' = "desktop"
    /\ UNCHANGED <<page, tabs, place, reached, dull, unseen, presses>>

Desktop(broken) ==
    /\ at = "desktop"
    /\ found' = found \union Findings(DesktopChecks, "desktop", broken)
    /\ at' = IF Marked = {} THEN "done" ELSE "tabbing"
    /\ UNCHANGED <<page, tabs, place, reached, dull, unseen, presses>>

Ends(r) == r # {}
\* It looks the way it looked at rest, in all that a focus style changes.
SameWhenFocused(i) == i \in Stops /\ Has(i, "same_when_focused")
ThingAt(k) == IF k \in DOMAIN tabs THEN tabs[k] ELSE 0

\* Tab goes to the next place, and from the last to the first again.
Tab ==
    /\ at = "tabbing" /\ presses < Cardinality(Stops) + 2
    /\ presses' = presses + 1
    /\ place' = IF place >= Len(tabs) THEN (IF Len(tabs) = 0 THEN 0 ELSE 1) ELSE place + 1
    /\ LET active == ThingAt(place') IN
       \/ /\ active = 0
          /\ at' = IF Ends(reached) THEN "tabbed" ELSE at
          /\ UNCHANGED <<reached, dull, unseen>>
       \/ /\ active # 0 /\ active \in reached
          /\ at' = "tabbed" /\ UNCHANGED <<reached, dull, unseen>>
       \/ /\ active # 0 /\ active \notin reached
          /\ reached' = reached \union {active}
          /\ dull' = dull \union {i \in {active} : SameWhenFocused(i)}
          /\ unseen' = unseen \union {i \in {active} : Has(i, "transparent")}
          /\ UNCHANGED at
    /\ UNCHANGED <<page, tabs, found>>

Unreached == Cardinality(Stops) - Cardinality(reached)
Keyboard(broken) ==
    LET of == dull \union unseen \union (IF Unreached > 0 THEN Marked \ reached ELSE {}) IN
    IF broken \/ of # {} THEN {[check |-> "keyboard", width |-> "desktop", of |-> IF broken THEN {} ELSE of]} ELSE {}

\* None of these may have a finding.
AccessibilityChecks == {"contrast", "names", "keyboard"}
PassMark(f) ==
    IF \E x \in f : x.check \in AccessibilityChecks
    THEN {[check |-> "accessibility", width |-> "desktop", of |-> {}]} ELSE {}

Report(broken) ==
    /\ at \in {"tabbing", "tabbed"} /\ (at = "tabbing" => presses = Cardinality(Stops) + 2 \/ broken)
    /\ LET every == found \union Keyboard(broken) IN found' = every \union PassMark(every)
    /\ at' = "reported"
    /\ UNCHANGED <<page, tabs, place, reached, dull, unseen, presses>>

\* A page without a control has no keyboard to check.
ReportNoStops ==
    /\ at = "done"
    /\ found' = found \union PassMark(found) /\ at' = "reported"
    /\ UNCHANGED <<page, tabs, place, reached, dull, unseen, presses>>

Next ==
    \/ \E b \in DOMAIN MobileChecks \union {"none"} : Phone(b)
    \/ \E b \in DOMAIN DesktopChecks \union {"none"} : Desktop(b)
    \/ Tab \/ (\E b \in BOOLEAN : Report(b)) \/ ReportNoStops

Spec == Init /\ [][Next]_vars

-----------------------------------------------------------------------------
TypeOK ==
    /\ at \in {"phone", "desktop", "tabbing", "tabbed", "done", "reported"}
    /\ reached \subseteq Marked /\ dull \union unseen \subseteq reached
    /\ presses \in 0..(Size + 2)

Passes == at = "reported" /\ \A f \in found : f.check # "accessibility"

\* A page that meets the accessibility pass mark can be used from the keyboard: Tab comes to
\* every control there is, up to MAX_TAB_STOPS of them, and none of them hides or looks the
\* same when it is reached (checks._keyboard, _pass_mark).
PassedIsUsable ==
    Passes =>
        /\ Cardinality({i \in Marked : \E k \in DOMAIN tabs : tabs[k] = i}) >= Cardinality(Stops)
        /\ \A i \in reached : ~Has(i, "transparent") /\ (i \in Stops => ~Has(i, "same_when_focused"))
        /\ LowContrast \union Nameless = {}

\* A control the report calls out as never reached is one Tab does not come to ("control(s)
\* the keyboard never reaches").
UnreachedIsOutOfReach ==
    at = "tabbed" /\ Unreached > 0 => \A i \in Stops \ reached : \A k \in DOMAIN tabs : tabs[k] # i
=============================================================================
