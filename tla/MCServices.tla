----------------------------- MODULE MCServices -----------------------------
(***************************************************************************)
(* The parts of the application beside the turns and the tasks, each on a  *)
(* small instance of its own module.  They are one run, not one system: a  *)
(* behaviour is of one part, the one named by part.  Where two parts use   *)
(* one table, each has what the other does to it among its own actions     *)
(* (users change files while an export reads them, accounts go while       *)
(* sessions are renewed), so interleaving them would add states without    *)
(* adding a behaviour.  The variables s1, s2, ... are those of the part in *)
(* the order of its vars, and those it does not need are 0.                *)
(*                                                                         *)
(* The module models no code: it gives the constants their values.         *)
(***************************************************************************)
EXTENDS CoreServices

Tree == INSTANCE ProjectTree WITH
    Clients <- {"c1", "c2"}, Names <- {"a", "b"}, MaxFolders <- 3, MaxFiles <- 2, MaxRequests <- 2,
    MaxDeaths <- 1, tree <- s1, made <- s2, bytes <- s3, tickets <- s4, requests <- s5,
    asked <- s6, hurt <- s7

Projs == INSTANCE ProjectList WITH
    Clients <- {"c1", "c2"}, Users <- {"u1", "u2"}, MaxProjects <- 2, projects <- s1, made <- s2,
    members <- s3, requests <- s4, answers <- s5, refused <- s6

Attach == INSTANCE Attachments WITH
    Clients <- {"c1"}, Turns <- {"t1", "t2"}, Names <- {"a"},
    Kinds <- {"image", "text", "long", "other", "broken"}, ATTACHMENT_IMAGE_MESSAGES <- 1,
    ATTACHMENT_CACHE_SIZE <- 1, MaxFiles <- 1, MaxMessages <- 2, MaxEdits <- 1, files <- s1,
    uploads <- s2, history <- s3, prepared <- s4, runs <- s5, replaced <- s6

KEEP == {[path |-> "none", size |-> 0]}     \* Skill!KEEP

SkillItem(name, files, triggers) == [name |-> name, size |-> 1, files |-> files, triggers |-> triggers]
SkillFile(path) == {[path |-> path, size |-> 1]}
SkillKits ==
    {<<SkillItem("a", KEEP, <<"t1", "t1">>)>>, <<SkillItem("a", SkillFile("f"), <<"t2">>), SkillItem("b", SkillFile("g"), <<>>)>>,
     <<SkillItem("b", {}, <<"t1">>), SkillItem("a", SkillFile("h"), <<"t1">>)>>, <<SkillItem("b", KEEP, <<"t1", "t2">>)>>, <<SkillItem("a", SkillFile("skill.md"), <<>>)>>}
Skill == INSTANCE Skills WITH
    Kits <- SkillKits, Clients <- {"c1", "c2"}, Users <- {"u1"}, Names <- {"a", "b"},
    MAX_SKILLS_PER_ORGANIZATION <- 2, MAX_PERSONAL_SKILLS_PER_USER <- 1,
    MAX_SKILLS_PER_IMPORT <- 2, MaxRequests <- 2, MaxWork <- 3, MAX_FILES_PER_SKILL <- 1,
    MAX_FILE_CHARS <- 1, MAX_FILES_TOTAL_CHARS <- 1, MAX_INSTRUCTIONS_CHARS <- 1,
    MAX_TRIGGERS <- 1, MaxCalls <- 2, rows <- s1, req <- s2, pend <- s3, brought <- s4,
    requests <- s5, calls <- s6, late <- s7

Data == INSTANCE Datasets WITH
    Clients <- {"c1"}, Names <- {"n1"}, Questions <- {"q1", "q2"},
    Fields <- <<"a", "", "missing", "a", "b">>, MAX_PAGE_SIZE <- 2, DEFAULT_SIZE <- 1,
    MAX_PAGES <- 4, MaxRows <- {3, 4, 6}, MaxFetches <- 1, crm <- s1, fetches <- s2,
    rowsFile <- s3, manifest <- s4, asked <- s5

Board == INSTANCE Dashboard WITH
    Sections <- {"retention", "payments"}, CONCURRENCY <- 2, RETRIES <- 1, PAGE_SIZE <- 1,
    LIMIT <- 2, Sizes <- {1, 3}, token <- s1, there <- s2, reads <- s3, made <- s4, sections <- s5,
    board <- s6

Figures == INSTANCE DashboardFigures WITH
    DAYS <- 2, HOURS <- 2, TZ <- 1, MONTH <- 2, BUCKETS <- <<1, 2, 3>>, OUTLIER_FACTOR <- 1,
    ENOUGH <- 2, UPCOMING_DAYS <- 1, STALE_DAYS <- 1, Amounts <- {1, 9}, MaxRecords <- 2,
    MaxTime <- 5, now <- s1, records <- s2

Reply == INSTANCE ContactReply WITH
    People <- {"p1"}, PAGE <- 2, WINDOW <- 2, RETRIES <- 1, MaxMessages <- 2, MaxReplies <- 1,
    MaxTime <- 3, now <- s1, thread <- s2, ask <- s3, pages <- s4, told <- s5

Element(kind, inside, flaws) == [kind |-> kind, inside |-> inside, flaws |-> flaws]
PageElements ==
    {Element("control", 0, {}), Element("control", 0, {"same_when_focused"}), Element("control", 0, {"transparent"}),
     Element("control", 0, {"untabbable"}), Element("control", 1, {"unnamed"}), Element("field", 0, {"small"}),
     Element("image", 0, {"unsized", "wide"}), Element("text", 1, {"wide", "pale"}), Element("control", 0, {"hidden", "unnamed"})}
Said(kind, term) == [kind |-> kind, term |-> term]
Block(kind, says) == [kind |-> kind, says |-> says]
Image(folder) == [image |-> TRUE, folder |-> folder, logo_name |-> FALSE]
Packs ==
    [A |-> [tokens |-> [fg |-> "ink", brand |-> "green", ink |-> "black"], files |-> {Image("logo"), Image("none")},
            colours |-> {"green", "black"}, titles |-> {"Alpha"}, never |-> {"cheap"},
            voice |-> <<Block("heading", <<>>), Block("forbidden_heading", <<>>),
                        Block("prose", <<Said("quoted", "cheap"), Said("phrase", "x"), Said("short", "best")>>),
                        Block("heading", <<>>), Block("prose", <<Said("short", "fine")>>)>>],
     B |-> [tokens |-> [brand |-> "green", brand_lift |-> "red"], files |-> {Image("logo"), Image("none")},
            colours |-> {"green", "red"}, titles |-> {"Beta"}, voice |-> <<>>, never |-> {}]]
HouseRoles == [ink |-> <<"fg">>, accent |-> <<"brand">>, soft |-> <<"brand_dim", "tint">>]
BorrowedSkills == [s |-> [text |-> 2, files |-> <<[size |-> 3, program |-> FALSE], [size |-> 1, program |-> TRUE], [size |-> 2, program |-> FALSE]>>]]
Build == INSTANCE PageBuild WITH
    Roles <- HouseRoles, Library <- Packs, Skills <- BorrowedSkills, Pages <- {{"cheap"}},
    Builds <- {"b1", "b2"}, Slots <- 2, Notes <- {"note"}, BrowserFlaws <- {"wide"},
    MAX_SCREENSHOTS_PER_PAGE <- 2, MAX_SKILL_CHARS <- 6, BUILDER_MAX_ITERATIONS <- 1, pages <- s1,
    build <- s2, run <- s3, calls <- s4, shots <- s5, reports <- s6, told <- s7

Place(where, name) == [where |-> where, name |-> name]
Address(to, where, name, id) == [to |-> to, where |-> where, name |-> name, id |-> id]
PathAddress(where, name) == Address("path", where, name, 0)
FilePlaces == {Place("page", "a"), Place("other", "a"), Place("css", "a")}
PageAddresses == {PathAddress("page", "a"), PathAddress("css", "s"), Address("project", "other", "a", 0), Address("url", "page", "none", 0), Address("link", "page", "none", 4)}
StoredFiles == <<[place |-> Place("page", "a"), type |-> "image"], [place |-> Place("css", "b"), type |-> "image"],
            [place |-> Place("css", "s"), type |-> "css"], [place |-> Place("foreign", "f"), type |-> "image"]>>
PageImgs == INSTANCE PageImages WITH
    Places <- FilePlaces, Addresses <- PageAddresses, Sheet <- {PathAddress("page", "b")},
    Stored <- StoredFiles, Sizes <- {1, 2}, MAX_EMBEDDED_IMAGES_BYTES <- 2, MaxChanges <- 2,
    files <- s1, page <- s2, export <- s3, touched <- s4, changes <- s5

MediaRequest(tool, in, out, overwrite) == [tool |-> tool, in |-> in, out |-> out, overwrite |-> overwrite]
MediaMenu ==
    {MediaRequest("edit", <<"a">>, <<>>, FALSE), MediaRequest("merge", <<"a", "b">>, <<"b">>, TRUE), MediaRequest("read", <<"a">>, <<>>, FALSE),
     MediaRequest("pages", <<"a">>, <<"b", "c">>, FALSE), MediaRequest("generate", <<>>, <<"b", "c">>, TRUE),
     MediaRequest("redraw", <<"a", "b">>, <<"b", "c">>, TRUE), MediaRequest("video", <<"a">>, <<"c">>, TRUE), MediaRequest("kit", <<"a", "c">>, <<>>, TRUE),
     MediaRequest("scroll", <<"a">>, <<"c">>, TRUE), MediaRequest("png", <<"a">>, <<>>, TRUE), MediaRequest("paged", <<"a">>, <<>>, TRUE)}
Media == INSTANCE MediaFiles WITH
    Menu <- MediaMenu, Beside <- [p \in {"a", "b", "c"} |-> "b"], Calls <- {"c1"},
    Paths <- {"a", "b", "c"}, MAX_REFERENCE_IMAGES <- 1, MAX_POLLS <- 1, MaxChanges <- 2,
    files <- s1, calls <- s2, job <- s3, asked <- s4, paid <- s5, lost <- s6, stop <- s7,
    changes <- s8

PageSpecs == {<<>>, <<<<1, 1>>>>, <<<<2, 0>>>>, <<<<3, 1>>>>, <<<<99, 99>>, <<1, 1>>>>, <<<<0, 2>>>>, <<<<4, 4>>>>}
WordRuns == {<<>>, <<1, 1, 1>>, <<2, 3, 1>>, <<5, 1>>, <<1, 5, 2>>}
Ops == INSTANCE MediaOps WITH
    Specs <- PageSpecs, Words <- WordRuns, MaxPages <- 3, Sides <- {1, 3, 5, 8, 10},
    Margins <- {0, 1, 2}, MAX_RENDER_PAGES <- 2, MAX_TEXT_CHARS <- 3, MAX_OUTPUT_SIDE <- 8,
    MIN_FIT_ZOOM <- 450, FIT_PASSES <- 3, PNG_MAX_HEIGHT_PX <- 20, PNG_PAGE_HEIGHT_PX <- 8,
    PNG_BOTTOM_PADDING_PX <- 2, SCREEN_HEIGHT_PX <- 5, ask <- s1, result <- s2

-----------------------------------------------------------------------------
Init ==
    \/ CoreInit
    \/ part = "tree" /\ Tree!Init /\ None8
    \/ part = "projects" /\ Projs!Init /\ None7
    \/ part = "attachments" /\ Attach!Init /\ None7
    \/ part = "skills" /\ Skill!Init /\ None8
    \/ part = "datasets" /\ Data!Init /\ None6
    \/ part = "dashboard" /\ Board!Init /\ None7
    \/ part = "figures" /\ Figures!Init /\ None3
    \/ part = "reply" /\ Reply!Init /\ None6
    \/ part = "page build" /\ Build!Init /\ None8
    \/ part = "page images" /\ PageImgs!Init /\ None6
    \/ part = "media" /\ Media!Init /\ None9
    \/ part = "media operations" /\ Ops!Init /\ None3
Next ==
    \/ CoreNext
    \/ part = "tree" /\ Tree!Next /\ UNCHANGED <<part, s8, s9>>
    \/ part = "projects" /\ Projs!Next /\ UNCHANGED <<part, s7, s8, s9>>
    \/ part = "attachments" /\ Attach!Next /\ UNCHANGED <<part, s7, s8, s9>>
    \/ part = "skills" /\ Skill!Next /\ UNCHANGED <<part, s8, s9>>
    \/ part = "datasets" /\ Data!Next /\ UNCHANGED <<part, s6, s7, s8, s9>>
    \/ part = "dashboard" /\ Board!Next /\ UNCHANGED <<part, s7, s8, s9>>
    \/ part = "figures" /\ Figures!Next /\ UNCHANGED <<part, s3, s4, s5, s6, s7, s8, s9>>
    \/ part = "reply" /\ Reply!Next /\ UNCHANGED <<part, s6, s7, s8, s9>>
    \/ part = "page build" /\ Build!Next /\ UNCHANGED <<part, s8, s9>>
    \/ part = "page images" /\ PageImgs!Next /\ UNCHANGED <<part, s6, s7, s8, s9>>
    \/ part = "media" /\ Media!Next /\ UNCHANGED <<part, s9>>
    \/ part = "media operations" /\ Ops!Next /\ UNCHANGED <<part, s3, s4, s5, s6, s7, s8, s9>>
Spec == Init /\ [][Next]_services

-----------------------------------------------------------------------------
(***************************************************************************)
(* What the parts are checked for: of each part its types, and what its    *)
(* module says of it.                                                      *)
(***************************************************************************)

\* Names are taken once in a folder and once among a member's projects, there is one library,
\* and a file that is shown as finished can be opened (projects).
ProjectsSafe ==
    /\ part = "tree" => Tree!TypeOK /\ Tree!NamesOnce /\ Tree!ReadyHasBytes
    /\ part = "projects" => Projs!TypeOK /\ Projs!OneLibrary /\ Projs!OwnersNamesOnce

\* A skill keeps the files that were brought with it, its index is what is read, the limits
\* are passed by what ran at once at most, and the usage figures add up (skills).
SkillsSafe == part = "skills" => Skill!TypeOK /\ Skill!SkillsSafe

\* A dataset reported complete holds every row once, and what an answer counts adds up
\* (crm/datasets.py, crm/query.py).
DatasetsSafe == part = "datasets" => Data!TypeOK /\ Data!CompleteIsWhole /\ Data!AnswersAddUp

\* The dashboard's sections stand alone, say when they are partial and read once what they
\* share; their figures agree with each other; and a reply from a contact's panel is sent at
\* most once (cx_dashboard).
DashboardSafe ==
    /\ part = "dashboard" => Board!TypeOK /\ Board!SectionsStandAlone /\ Board!PartialSaysSo /\ Board!ReadOnce
    /\ part = "figures" => Figures!TypeOK /\ Figures!FiguresAgree
    /\ part = "reply" => Reply!TypeOK /\ Reply!ReplySafe

\* A page found clean is clean, by its own brand; an export holds the page's images or names
\* them; and what is attached to a message is told to the model (html_pages,
\* exports/page_images.py, conversations/attachments.py).
PagesSafe ==
    /\ part = "page build" => Build!TypeOK /\ Build!PagesSafe
    /\ part = "page images" => PageImgs!TypeOK /\ PageImgs!ImagesSafe
    /\ part = "attachments" => Attach!TypeOK /\ Attach!AttachmentsSafe

\* The tools replace no original they were not told to, drop the jobs they leave, account for
\* every file and say how a page differs; and they compute what was asked of them (images,
\* video, media, exports).
MediaSafe ==
    /\ part = "media" => Media!TypeOK /\ Media!MediaSafe
    /\ part = "media operations" => Ops!TypeOK /\ Ops!OpsSafe
=============================================================================
