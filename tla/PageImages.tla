------------------------------ MODULE PageImages ------------------------------
(***************************************************************************)
(* The images and stylesheets of a page kept in a project                  *)
(* (projects/files.py, html_images.py, links.py).  A page is written with  *)
(* paths.  When it is saved, a path to an image becomes the image's signed *)
(* link, which holds wherever the page is opened and the image is moved;   *)
(* when it is exported or checked, its stylesheets and then its images are *)
(* put inside it one after the other, for the renderer loads no address,   *)
(* and what could not be put inside is said.                               *)
(*                                                                         *)
(* Somebody else may move, rewrite or delete any of the files at any       *)
(* moment of it.                                                           *)
(***************************************************************************)
EXTENDS Naturals, Sequences, SequencesExt, FiniteSets, FiniteSetsExt

CONSTANTS
    Places,     \* [where, name]: "page" and "css" are folders of the page's own project
    Addresses,  \* what a page may point at: [to, where, name, id]
    Sheet,      \* the images the page's stylesheet points at, beside itself
    Stored,     \* the files there are at first: id -> [place, type]
    Sizes, MAX_EMBEDDED_IMAGES_BYTES,
    MaxChanges  \* bound: changes of files, saves and exports

VARIABLES
    files,      \* id -> row; "foreign" is the place of another organization's
    page,       \* the addresses of the page, as saved
    export,     \* the export of the page under way or done last
    touched,    \* history: files changed since that export began
    changes     \* history: how many of them there were

vars == <<files, page, export, touched, changes>>

Rest == [stage |-> "none", todo |-> <<>>, all |-> {}, swaps |-> {}, missing |-> {}, look |-> 0, budget |-> MAX_EMBEDDED_IMAGES_BYTES, unstyled |-> FALSE]
Init ==
    /\ \E size \in [DOMAIN Stored -> Sizes] :
          files = [i \in DOMAIN Stored |-> [place |-> Stored[i].place, type |-> Stored[i].type, there |-> TRUE, size |-> size[i]]]
    /\ page = {} /\ export = Rest /\ touched = {} /\ changes = 0

Link(i) == [to |-> "link", where |-> "page", name |-> "none", id |-> i]
At(place) == {i \in DOMAIN files : files[i].there /\ files[i].place = place}
IsImage(i) == files[i].there /\ files[i].type = "image"

\* _addressed: a path is looked for from the page's folder, or in the project it names; a
\* URL is not one of ours.
IsPath(a) == a.to \in {"path", "project"}
Addressed(a) == At([where |-> a.where, name |-> a.name])
\* embed: a link is by the id it was signed for, and of this organization only.
Held(a) == IF a.to = "link" THEN {i \in {a.id} : files[i].there /\ files[i].place.where # "foreign"} ELSE Addressed(a)

Changes(i) == changes < MaxChanges /\ changes' = changes + 1 /\ touched' = touched \union {i} /\ UNCHANGED <<page, export>>
Move(i, place) ==
    /\ files[i].there /\ files[i].place.where # "foreign" /\ At(place) = {}
    /\ files' = [files EXCEPT ![i].place = place] /\ Changes(i)
Overwrite(i, size) == files[i].there /\ files' = [files EXCEPT ![i].size = size] /\ Changes(i)
Delete(i) == files[i].there /\ files' = [files EXCEPT ![i].there = FALSE] /\ Changes(i)

-----------------------------------------------------------------------------
\* write, of a page: each path to an image becomes its link.
Linked(a) == IF IsPath(a) /\ \E i \in Addressed(a) : IsImage(i)
             THEN Link(CHOOSE i \in Addressed(a) : TRUE) ELSE a
Save(written) ==
    /\ export.stage \in {"none", "done"} /\ changes < MaxChanges /\ changes' = changes + 1
    /\ page' = {Linked(a) : a \in written} /\ export' = Rest
    /\ UNCHANGED <<files, touched>>

\* embed_stylesheets: what a stylesheet points at is the page's from here on, and is
\* looked for beside the page.
IsSheet(a) == a.where = "css"
Styles == {a \in page : IsSheet(a)}
Found(a) == Addressed(a) # {}
EmbedStylesheets ==
    LET inside == page \union (IF \E a \in Styles : Found(a) THEN Sheet ELSE {}) IN
    /\ export.stage \in {"none", "done"} /\ page # {} /\ changes < MaxChanges /\ changes' = changes + 1
    /\ export' = [Rest EXCEPT !.stage = "images", !.todo = SetToSeq(inside \ Styles), !.all = inside \ Styles,
                              !.unstyled = \E a \in Styles : ~Found(a)]
    /\ touched' = {} /\ UNCHANGED <<files, page>>

\* embed_images, one address after the other: is it ours, an image, and small enough for
\* what is left; then its bytes, which may have gone or changed since.
Passed == [export EXCEPT !.todo = Tail(@), !.look = 0]
Missing(a) == [Passed EXCEPT !.missing = @ \union {a}]
Fits(i) == files[i].size <= export.budget
LookUp ==
    LET a == Head(export.todo)
        image == {i \in Held(a) : IsImage(i) /\ Fits(i)} IN
    /\ export.stage = "images" /\ export.todo # <<>> /\ export.look = 0
    /\ export' = IF a.to = "url" THEN Passed
                 ELSE IF image = {} THEN Missing(a) ELSE [export EXCEPT !.look = CHOOSE i \in image : TRUE]
    /\ UNCHANGED <<files, page, touched, changes>>
LoadFile ==
    LET a == Head(export.todo)
        i == export.look IN
    /\ export.look # 0
    /\ export' = IF ~files[i].there THEN Missing(a)
                 ELSE [Passed EXCEPT !.swaps = @ \union {[a |-> a, id |-> i, size |-> files[i].size]},
                                     !.budget = IF @ > files[i].size THEN @ - files[i].size ELSE 0]
    /\ UNCHANGED <<files, page, touched, changes>>
Rendered ==
    /\ export.stage = "images" /\ export.todo = <<>> /\ export' = [export EXCEPT !.stage = "done"]
    /\ UNCHANGED <<files, page, touched, changes>>

Next ==
    \/ \E i \in DOMAIN files : Delete(i) \/ (\E p \in Places : Move(i, p)) \/ (\E s \in Sizes : Overwrite(i, s))
    \/ \E written \in SUBSET Addresses : written # {} /\ Save(written)
    \/ EmbedStylesheets \/ LookUp \/ LoadFile \/ Rendered
Spec == Init /\ [][Next]_vars

-----------------------------------------------------------------------------
TypeOK == export.stage \in {"none", "images", "done"} /\ changes <= MaxChanges /\ export.look \in {0} \union DOMAIN files

Done == export.stage = "done"
Embedded == {s.a : s \in export.swaps}
Bytes(swaps) == FoldSet(LAMBDA s, n : s.size + n, 0, swaps)

(***************************************************************************)
(* What an export puts inside the page and what it says it could not are   *)
(* all the addresses that are the projects', each once; an image linked    *)
(* when the page was saved is put inside wherever it has been moved since, *)
(* unless it is gone, changed meanwhile or too big beside the others;      *)
(* another organization's never is; and the images together are no bigger  *)
(* than allowed unless one was rewritten while they were read.             *)
(***************************************************************************)
ImagesSafe ==
    /\ Done => /\ Embedded \union export.missing = {a \in export.all : a.to # "url"}
               /\ Embedded \intersect export.missing = {}
    /\ Done => \A a \in export.all : (a.to = "link" /\ a.id \notin touched /\ IsImage(a.id) /\ files[a.id].place.where # "foreign"
                    /\ Bytes(export.swaps) + files[a.id].size <= MAX_EMBEDDED_IMAGES_BYTES) => a \in Embedded
    /\ \A s \in export.swaps : files[s.id].place.where # "foreign" /\ (s.a.to = "link" => s.id = s.a.id)
    /\ touched = {} => Bytes(export.swaps) <= MAX_EMBEDDED_IMAGES_BYTES

(***************************************************************************)
(* html_pages/check.py:148: a page is checked "as the exports see it:      *)
(* images and linked stylesheets inside the page".  An image a stylesheet  *)
(* points at beside itself, and that is there, is inside.                  *)
(***************************************************************************)
StylesKeepTheirImages == Done => \A a \in export.all \intersect Sheet :
    (\E i \in At([where |-> "css", name |-> a.name]) : IsImage(i) /\ i \notin touched /\ Bytes(export.swaps) + files[i].size <= MAX_EMBEDDED_IMAGES_BYTES)
    => a \in Embedded
=============================================================================
