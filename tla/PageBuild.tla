------------------------------- MODULE PageBuild -------------------------------
(***************************************************************************)
(* BuildHtmlPage (html_pages/): the request is put together from a skill   *)
(* and a brand pack of the organization's library, one pass decides on the *)
(* design, and a second one writes the page and has it checked.  The calls *)
(* of one message of the builder run at once (core/tools/executor.py), and *)
(* two pages may be built at once; each build has a PageRun of its own,    *)
(* which is what CheckPage holds the page to.                              *)
(*                                                                         *)
(* A page is the set of what is in it: notes in comments, flaws a browser  *)
(* finds, words, names and colours.  A pack is a record of its tokens (a   *)
(* name to a colour or to another name), its voice.md (its lines), and the *)
(* names it goes by.                                                       *)
(***************************************************************************)
EXTENDS Integers, Sequences, FiniteSets, FiniteSetsExt, SequencesExt, Folds

CONSTANTS
    Builds, Slots,           \* the calls of BuildHtmlPage; the calls in one message
    Library,                 \* the library's packs, by brand; <<>> when there is no library
    Roles,                   \* a house role to the pack tokens that fill it
    Skills,                  \* the organization's skills, by name: [text, files]
    Pages,                   \* what may be written
    Notes, BrowserFlaws,     \* of a page: its comments, what a browser finds
    MAX_SCREENSHOTS_PER_PAGE, MAX_SKILL_CHARS, BUILDER_MAX_ITERATIONS

VARIABLES
    pages,       \* the output file of each build
    build,       \* [at, brand, skill, pack, steps]
    run,         \* its PageRun
    calls,       \* the calls of the builder's message
    shots,       \* screenshots handed to the builder
    reports,     \* CheckPage's last answer to each: [clean, raw]
    told         \* what BuildHtmlPage answers

vars == <<pages, build, run, calls, shots, reports, told>>

NONE == "none"
Absent == {NONE}

-----------------------------------------------------------------------------
\* brand.py, lexical.py, skill.py: what the texts say.

\* A token's colour: what it refers to, five references deep at most.
RECURSIVE Resolve(_, _, _)
Resolve(tokens, value, depth) ==
    IF depth > 5 \/ value \notin DOMAIN tokens THEN value ELSE Resolve(tokens, tokens[value], depth + 1)
ParseTokens(tokens) == [n \in DOMAIN tokens |-> Resolve(tokens, tokens[n], 0)]

\* The lines of voice.md under its heading of forbidden words, up to the next heading.
Section(voice) ==
    LET opens == {i \in DOMAIN voice : voice[i].kind = "forbidden_heading"}
        first == IF opens = {} THEN 0 ELSE Min(opens)
        ends == {i \in DOMAIN voice : i > first /\ voice[i].kind = "heading"}
        last == IF ends = {} THEN Len(voice) ELSE Min(ends) - 1
    IN  IF opens = {} THEN {} ELSE {i \in (first + 1)..last : voice[i].kind = "prose"}
\* Quoted, unless as the word to use instead; or short, before its list ends.
ForbiddenTerms(voice) ==
    UNION {LET said == voice[i].says
               end == {k \in DOMAIN said : said[k].kind \in {"ends", "last"}}
               cut == IF end = {} THEN Len(said) + 1 ELSE Min(end)
           IN  {said[k].term : k \in {j \in DOMAIN said : \/ said[j].kind = "quoted"
                                                          \/ said[j].kind = "short" /\ j < cut
                                                          \/ said[j].kind = "last" /\ j = cut}}
           : i \in Section(voice)}
BrandNames(b) == {b} \union Library[b].titles
AccentColours(b) == {Library[b].tokens[t] : t \in DOMAIN Library[b].tokens \intersect {"brand", "brand_lift"}}
                        \intersect Library[b].colours
\* The pack's token for each house role, the first there is; the roles left to the house's.
HouseTokens(tokens) ==
    [r \in {s \in DOMAIN Roles : \E i \in DOMAIN Roles[s] : Roles[s][i] \in DOMAIN tokens} |->
        tokens[SelectSeq(Roles[r], LAMBDA n : n \in DOMAIN tokens)[1]]]
LogoPaths(files) == {f \in files : f.image /\ (f.folder = "logo" \/ (f.folder = NONE /\ f.logo_name))}
PackSection(b) ==
    LET house == HouseTokens(ParseTokens(Library[b].tokens)) IN
    [root |-> house, missing |-> DOMAIN Roles \ DOMAIN house, logos |-> LogoPaths(Library[b].files)]
VisibleText(raw) == raw \ (Notes \union BrowserFlaws)
Comments(raw) == raw \intersect Notes
Occurrences(text, terms) == text \intersect terms
OtherBrandTraces(raw, r) ==
    UNION {(VisibleText(raw) \intersect BrandNames(o)) \union ((raw \intersect AccentColours(o)) \ r.own) : o \in r.others}

\* The skill's text first, then each file that fits what is left and is no program.
SkillText(skill) ==
    LET Put(file, sofar) ==
            IF file.program \/ file.size > sofar.budget THEN sofar
            ELSE [budget |-> sofar.budget - file.size, sent |-> sofar.sent + file.size]
    IN  FoldLeft(LAMBDA sofar, file : Put(file, sofar),
                 [budget |-> MAX_SKILL_CHARS - skill.text, sent |-> skill.text], skill.files)

-----------------------------------------------------------------------------
NewRun == [brand |-> NONE, forbidden |-> {}, own |-> {}, others |-> {}, left |-> MAX_SCREENSHOTS_PER_PAGE]
RunFor(brand) ==
    [brand |-> brand, forbidden |-> ForbiddenTerms(Library[brand].voice),
     own |-> {ParseTokens(Library[brand].tokens)[t] : t \in DOMAIN Library[brand].tokens} \intersect Library[brand].colours,
     others |-> DOMAIN Library \ {brand}, left |-> MAX_SCREENSHOTS_PER_PAGE]

NoCall == [at |-> "rest", raw |-> Absent, count |-> 0, clean |-> FALSE, measured |-> FALSE]
Resting(b) == \A k \in 1..Slots : calls[b][k].at = "rest"

Init ==
    /\ pages \in [Builds -> Pages \union {Absent}]
    /\ build = [b \in Builds |-> [at |-> "new", brand |-> NONE, skill |-> NONE, pack |-> <<>>, steps |-> 0]]
    /\ run = [b \in Builds |-> NewRun]
    /\ calls = [b \in Builds |-> [k \in 1..Slots |-> NoCall]]
    /\ shots = [b \in Builds |-> 0] /\ reports = [b \in Builds |-> [clean |-> FALSE, raw |-> Absent]] /\ told = [b \in Builds |-> NONE]

Answers(b, text) == build' = [build EXCEPT ![b].at = "told"] /\ told' = [told EXCEPT ![b] = text]

\* A skill that is not there is said before anything else; then a pack that is not.
NoSkill(b) ==
    /\ build[b].at = "new" /\ Answers(b, "NO_SKILL")
    /\ UNCHANGED <<pages, run, calls, shots, reports>>
HasPack(brand) == brand \in DOMAIN Library /\ Library[brand].tokens # <<>>
NoPack(b, brand) ==
    /\ build[b].at = "new" /\ brand # NONE /\ ~HasPack(brand)
    /\ Answers(b, IF Library = <<>> THEN "NO_LIBRARY" ELSE "NO_PACK")
    /\ UNCHANGED <<pages, run, calls, shots, reports>>
Request(b, brand, skill) ==
    /\ build[b].at = "new" /\ (brand # NONE => HasPack(brand))
    /\ build' = [build EXCEPT ![b] = [@ EXCEPT !.at = "designing", !.brand = brand, !.skill = skill,
                                        !.pack = IF brand = NONE THEN <<>> ELSE PackSection(brand)]]
    /\ run' = [run EXCEPT ![b] = IF brand = NONE THEN NewRun ELSE RunFor(brand)]
    /\ UNCHANGED <<pages, calls, shots, reports, told>>

\* A design pass that fails, or ends without a brief, costs the brief and not the page.
Design(b) ==
    /\ build[b].at = "designing" /\ build' = [build EXCEPT ![b].at = "building"]
    /\ UNCHANGED <<pages, run, calls, shots, reports, told>>

\* The builder's next message, with calls in it; they start at once.
Says(b, kinds) ==
    /\ build[b].at = "building" /\ Resting(b) /\ build[b].steps < BUILDER_MAX_ITERATIONS
    /\ \E k \in 1..Slots : kinds[k] # "rest"
    /\ build' = [build EXCEPT ![b].steps = @ + 1]
    /\ calls' = [calls EXCEPT ![b] = [k \in 1..Slots |-> [NoCall EXCEPT !.at = kinds[k]]]]
    /\ UNCHANGED <<pages, run, shots, reports, told>>

Write(b, k, content) ==
    /\ calls[b][k].at = "write" /\ pages' = [pages EXCEPT ![b] = content]
    /\ calls' = [calls EXCEPT ![b][k] = NoCall]
    /\ UNCHANGED <<build, run, shots, reports, told>>

LexicalReport(raw, r) ==
    (IF Comments(raw) # {} THEN {"comments"} ELSE {})
        \union (IF Occurrences(VisibleText(raw), r.forbidden) # {} THEN {"voice"} ELSE {})
        \union (IF r.brand # NONE /\ OtherBrandTraces(raw, r) # {} THEN {"other brand"} ELSE {})
\* Mutant: one run for every build.
LastRun(b) == run[CHOOSE o \in Builds : o # b]
RunOf(b) == run[b]

\* CheckPage: reads the page, and what its raw HTML says.
Read(b, k) ==
    /\ calls[b][k].at = "check"
    /\ calls' = [calls EXCEPT ![b][k] =
           IF pages[b] = Absent THEN NoCall
           ELSE [@ EXCEPT !.at = "measuring", !.raw = pages[b], !.count = Cardinality(LexicalReport(pages[b], RunOf(b)))]]
    /\ UNCHANGED <<pages, build, run, shots, reports, told>>

BrowserReport(raw) == Cardinality(raw \intersect BrowserFlaws)
NoFindings(c) == c.measured /\ c.clean /\ c.count = 0
Reported(b, k, c) ==
    /\ reports' = [reports EXCEPT ![b] = [clean |-> NoFindings(c), raw |-> c.raw]]
    /\ calls' = [calls EXCEPT ![b][k] = NoCall]

\* The browser has measured it; whether there are screenshots left is looked at now.
Measure(b, k) ==
    /\ calls[b][k].at = "measuring"
    /\ LET raw == calls[b][k].raw
           c == [calls[b][k] EXCEPT !.measured = TRUE, !.count = @ + BrowserReport(raw), !.clean = BrowserReport(raw) = 0]
       IN  IF run[b].left >= 2
           THEN calls' = [calls EXCEPT ![b][k] = [c EXCEPT !.at = "shooting"]] /\ UNCHANGED reports
           ELSE Reported(b, k, c)
    /\ UNCHANGED <<pages, build, run, shots, told>>
\* The checker is not there, or will not have the page: reported with what the HTML says.
Unmeasured(b, k) ==
    /\ calls[b][k].at = "measuring" /\ Reported(b, k, calls[b][k])
    /\ UNCHANGED <<pages, build, run, shots, told>>

\* Two screenshots, and the run has that many fewer; none when one of them fails.
Screenshots(b, k) ==
    /\ calls[b][k].at = "shooting" /\ Reported(b, k, calls[b][k])
    /\ run' = [run EXCEPT ![b].left = @ - 2] /\ shots' = [shots EXCEPT ![b] = @ + 2]
    /\ UNCHANGED <<pages, build, told>>
ShotFails(b, k) ==
    /\ calls[b][k].at = "shooting" /\ Reported(b, k, calls[b][k])
    /\ UNCHANGED <<pages, build, run, shots, told>>

\* What the project holds, whatever the builder says of it.
Written(b) == IF pages[b] = Absent THEN "no file" ELSE "wrote"
Finish(b) ==
    /\ build[b].at = "building" /\ Resting(b) /\ Answers(b, Written(b))
    /\ UNCHANGED <<pages, run, calls, shots, reports>>
RunsOut(b) ==
    /\ build[b].at = "building" /\ Resting(b)
    /\ build[b].steps = BUILDER_MAX_ITERATIONS /\ Answers(b, "failed, " \o Written(b))
    /\ UNCHANGED <<pages, run, calls, shots, reports>>
Breaks(b) ==
    /\ build[b].at = "building" /\ Resting(b) /\ Answers(b, "failed, " \o Written(b))
    /\ UNCHANGED <<pages, run, calls, shots, reports>>

Next == \E b \in Builds :
    \/ NoSkill(b) \/ Design(b) \/ Finish(b) \/ RunsOut(b) \/ Breaks(b)
    \/ \E br \in DOMAIN Library \union {NONE, "unheld"}, sk \in DOMAIN Skills \union {NONE} :
           NoPack(b, br) \/ Request(b, br, sk)
    \/ \E kinds \in [1..Slots -> {"rest", "write", "check"}] : Says(b, kinds)
    \/ \E k \in 1..Slots :
           \/ \E p \in Pages : Write(b, k, p)
           \/ Read(b, k) \/ Measure(b, k) \/ Unmeasured(b, k) \/ Screenshots(b, k) \/ ShotFails(b, k)

Spec == Init /\ [][Next]_vars
-----------------------------------------------------------------------------
TypeOK ==
    /\ \A b \in Builds :
           /\ {pages[b], reports[b].raw} \subseteq Pages \union {Absent}
           /\ build[b].at \in {"new", "designing", "building", "told"} /\ (build[b].at = "told" <=> told[b] # NONE)
           /\ \A k \in 1..Slots : calls[b][k].at \in {"rest", "write", "check", "measuring", "shooting"}

\* A page that CheckPage finds clean has no note in it, nothing a browser finds, no word its
\* own brand forbids and nothing of another brand -- its own, whatever is built beside it.
CleanIsClean ==
    \A b \in Builds : reports[b].clean =>
        LET brand == build[b].brand
            raw == reports[b].raw
        IN
        /\ raw \intersect (Notes \union BrowserFlaws) = {}
        /\ brand # NONE =>
               /\ raw \intersect Library[brand].never = {}
               /\ \A o \in DOMAIN Library \ {brand} : o \notin raw
\* Screenshots go over the page's number by the calls of one message that ran at once, no more.
ShotsSlack == \A b \in Builds : shots[b] <= MAX_SCREENSHOTS_PER_PAGE + 2 * (Slots - 1)
\* What a skill sends to the passes fits its budget, unless its own text alone does not.
SkillFits ==
    \A b \in Builds : build[b].skill # NONE =>
        LET s == Skills[build[b].skill] IN
        SkillText(s).sent <= (IF s.text > MAX_SKILL_CHARS THEN s.text ELSE MAX_SKILL_CHARS)
\* A pack's section gives each house role a colour, never another token's name, or says that
\* the pack has none for it.
RolesAreColours ==
    \A b \in Builds : build[b].pack # <<>> =>
        \A r \in DOMAIN Roles :
            r \in build[b].pack.missing \/ build[b].pack.root[r] \in Library[build[b].brand].colours
PagesSafe == RolesAreColours /\  CleanIsClean /\ ShotsSlack /\ SkillFits

\* "A page gets this many in all" (html_pages/config.py:47).
ShotsInAll == \A b \in Builds : shots[b] <= MAX_SCREENSHOTS_PER_PAGE
=============================================================================
