------------------------------ MODULE MediaFiles ------------------------------
(***************************************************************************)
(* The tools that make files in a project: the exact edits (media/), the   *)
(* images (images/), the videos (video/) and the pages turned into PDF or  *)
(* PNG (exports/).  The calls of one message run at the same time, the     *)
(* user works on the same files, and each call awaits its sources, its     *)
(* work and its save one after the other.  A video is a job on fal, which  *)
(* goes on whether or not anybody waits for it.                            *)
(*                                                                         *)
(* What a file holds is the one that wrote it.  What the edits compute is  *)
(* in MediaOps; here a piece of work gives its result or an error.         *)
(***************************************************************************)
EXTENDS Integers, Sequences, FiniteSets

CONSTANTS
    Calls, Paths,
    Menu,                    \* requests: [tool, in, out, overwrite]
    Beside,                  \* the path a result goes to when none is given
    MAX_REFERENCE_IMAGES, MAX_POLLS,
    MaxChanges               \* bound: what the user does to the files meanwhile

VARIABLES
    files,       \* path |-> who wrote what it holds
    calls,       \* each call: where it is, what it asks, what came of it
    job,         \* the video job of a call, on fal's side
    asked,       \* the calls that asked fal to drop their job
    paid,        \* the calls that sent a request the organization pays for
    lost,        \* history: <<call, writer>>, a file a call replaced
    stop,        \* the user pressed Stop
    changes

vars == <<files, calls, job, asked, paid, lost, stop, changes>>

NONE == "none"
Edits == {"edit", "merge", "transform"}
Exports == {"paged", "kit", "scroll", "png"}
Paid == {"generate", "redraw", "video"}
Ended == {"no key", "refused", "failed", "stopped", "abandoned", "cancelled", "done"}
Rest == [at |-> "rest", tool |-> NONE, in |-> <<>>, out |-> <<>>, overwrite |-> FALSE, saw |-> NONE,
         i |-> 1, polls |-> 0, missing |-> 0, saved |-> {}, none |-> {}, by |-> NONE, differs |-> {}, note |-> NONE]

Becomes(c, new) == calls' = [calls EXCEPT ![c] = new]
At(c, at) == [calls[c] EXCEPT !.at = at]
Goes(c, at) == Becomes(c, At(c, at))
Same == UNCHANGED <<files, job, asked, paid, lost, stop, changes>>

Init ==
    /\ files \in [Paths -> {"user", NONE}] /\ stop = FALSE /\ changes = 0
    /\ calls = [c \in Calls |-> Rest] /\ job = [c \in Calls |-> NONE]
    /\ asked = {} /\ paid = {} /\ lost = {}

\* Where results go: the path asked for, or one beside the source.
Outputs(r) == IF r.out = <<>> THEN <<Beside[r.in[1]]>> ELSE r.out
\* An image, or a clip, takes so many references; the rest are left out.
Cut(seq, n) == SubSeq(seq, 1, IF Len(seq) > n THEN n ELSE Len(seq))
References(r) == Cut(r.in, MAX_REFERENCE_IMAGES)
ClipAndReferences(r) == Cut(r.in, 1 + MAX_REFERENCE_IMAGES)
Sources(r) == CASE r.tool = "redraw" -> References(r) [] r.tool = "video" -> ClipAndReferences(r) [] OTHER -> r.in
\* What each tool goes through, in order.
Stages(tool) ==
    CASE tool = "read" -> <<"load", "work">> [] tool = "pages" -> <<"load", "work", "save">>
      [] tool \in Edits -> <<"free", "load", "work", "save">>
      [] tool = "generate" -> <<"draw">> [] tool = "redraw" -> <<"load", "redraw", "save">>
      [] tool = "video" -> <<"load", "submit", "poll", "collect", "save">>
      [] OTHER -> <<"load", "make", "save">>
After(tool, at) == Stages(tool)[1 + CHOOSE i \in DOMAIN Stages(tool) : Stages(tool)[i] = at]
Starts(r) == IF r.in = <<>> /\ Head(Stages(r.tool)) = "load" THEN After(r.tool, "load") ELSE Head(Stages(r.tool))

\* The key and the project are found before anything is paid for.
Begin(c, r, keyed, known) ==
    /\ calls[c].at = "rest" /\ (r.tool \in Paid \/ keyed)
    /\ Becomes(c, [Rest EXCEPT !.at = IF ~keyed THEN "no key" ELSE IF ~known THEN "refused" ELSE Starts(r),
                               !.tool = r.tool, !.in = Sources(r), !.out = Outputs(r), !.overwrite = r.overwrite])
    /\ Same

\* An edit does not replace a file nobody said to replace.
Refuses(c) == files[calls[c].out[1]] # NONE /\ ~calls[c].overwrite
Free(c) ==
    /\ calls[c].at = "free"
    /\ Becomes(c, [calls[c] EXCEPT !.at = IF Refuses(c) THEN "refused" ELSE "load", !.saw = files[calls[c].out[1]]])
    /\ Same

\* The sources, one after the other.  What a page links and cannot be found
\* is left out and said; any other source has to be there.
Load(c) ==
    /\ calls[c].at = "load"
    /\ LET k == calls[c]
           there == files[k.in[k.i]] # NONE
           linked == k.tool \in Exports /\ k.i > 1
       IN  IF there \/ linked
           THEN Becomes(c, [k EXCEPT !.missing = IF there THEN @ ELSE @ + 1,
                                     !.i = IF k.i = Len(k.in) THEN 1 ELSE @ + 1,
                                     !.at = IF k.i = Len(k.in) THEN After(k.tool, "load") ELSE "load"])
           ELSE Goes(c, "failed")
    /\ Same
\* A video's sources go up to fal as they are read; a source may be too large.
LoadFails(c) == calls[c].at = "load" /\ Goes(c, "failed") /\ Same

\* The work of an edit, in a thread: its result, or what the user can ask
\* differently.  Reading a file leaves nothing behind.
Work(c) ==
    /\ calls[c].at = "work"
    /\ \/ Goes(c, IF calls[c].tool = "read" THEN "done" ELSE "save")
       \/ Goes(c, "failed")
    /\ Same

\* What is replaced without being asked for, and was not the call's own.
Replaces(c, path) ==
    lost' = IF files[path] \notin {NONE, c} /\ ~calls[c].overwrite THEN lost \union {<<c, files[path]>>} ELSE lost
\* Results are written one after the other, over whatever is there.
Save(c) ==
    /\ calls[c].at = "save"
    /\ LET k == calls[c] IN
       /\ files' = [files EXCEPT ![k.out[k.i]] = c] /\ Replaces(c, k.out[k.i])
       /\ Becomes(c, [k EXCEPT !.saved = @ \union {k.i}, !.i = @ + 1, !.at = IF k.i = Len(k.out) THEN "done" ELSE "save"])
    /\ UNCHANGED <<job, asked, paid, stop, changes>>
\* The project refuses a file: what was saved before it stays.
SaveFails(c) == calls[c].at = "save" /\ Goes(c, "failed") /\ Same

\* The images are asked for all at once; each is saved when it comes.
Drawn(c) == calls[c].saved \union calls[c].none
Draw(c, i, comes) ==
    /\ calls[c].at = "draw" /\ i \in DOMAIN calls[c].out \ Drawn(c)
    /\ LET k == calls[c]
           last == Cardinality(Drawn(c)) + 1 = Len(k.out)
       IN  /\ IF comes THEN files' = [files EXCEPT ![k.out[i]] = c] ELSE UNCHANGED files
           /\ Becomes(c, [k EXCEPT !.saved = IF comes THEN @ \union {i} ELSE @,
                                   !.none = IF comes THEN @ ELSE @ \union {i}, !.at = IF last THEN "done" ELSE "draw"])
    /\ paid' = paid \union {c} /\ UNCHANGED <<job, asked, lost, stop, changes>>
\* One that cannot be saved ends the call: nobody hears of the others, which
\* may still save what they already have.
PaidAndFailed(c) ==
    Goes(c, "failed") /\ paid' = paid \union {c} /\ UNCHANGED <<files, job, asked, lost, stop, changes>>
DrawFails(c) == calls[c].at = "draw" /\ PaidAndFailed(c)
Straggler(c, i) ==
    /\ calls[c].at = "failed" /\ calls[c].tool = "generate" /\ i \in DOMAIN calls[c].out \ Drawn(c)
    /\ files' = [files EXCEPT ![calls[c].out[i]] = c] /\ Becomes(c, [calls[c] EXCEPT !.saved = @ \union {i}])
    /\ UNCHANGED <<job, asked, paid, lost, stop, changes>>

\* One request for all the images of an edit; fewer may come back than asked.
Redraw(c, came) ==
    /\ calls[c].at = "redraw" /\ came \in 0..Len(calls[c].out)
    /\ LET k == calls[c] IN
       Becomes(c, [k EXCEPT !.out = SubSeq(@, 1, came), !.missing = Len(k.out) - came, !.at = IF came = 0 THEN "done" ELSE "save",
                            !.overwrite = TRUE])
    /\ paid' = paid \union {c} /\ UNCHANGED <<files, job, asked, lost, stop, changes>>
RedrawFails(c) == calls[c].at = "redraw" /\ PaidAndFailed(c)

-----------------------------------------------------------------------------
\* The job is submitted, then asked after until it is complete.
Submit(c) ==
    /\ calls[c].at = "submit"
    /\ \/ Goes(c, "poll") /\ job' = [job EXCEPT ![c] = "queued"] /\ paid' = paid \union {c}
       \/ Goes(c, "failed") /\ UNCHANGED <<job, paid>>
    /\ UNCHANGED <<files, asked, lost, stop, changes>>

Complete(c) == job[c] \in {"made", "failed"}
TimedOut(c) == calls[c].polls = MAX_POLLS
\* Mutant: the job is left on fal's side.
JustLeaves(c) == At(c, IF stop THEN "stopped" ELSE "abandoned")
GivesUp(c) == [At(c, "drop") EXCEPT !.note = IF stop THEN "stopped" ELSE "abandoned"]
\* Complete comes first, then Stop, then the time limit.
Poll(c) ==
    /\ calls[c].at = "poll"
    /\ Becomes(c, IF Complete(c) THEN At(c, "collect")
                  ELSE IF stop \/ TimedOut(c) THEN GivesUp(c)
                  ELSE [calls[c] EXCEPT !.polls = @ + 1])
    /\ Same
\* fal cannot be reached, or answers an error: the call ends with it.
PollFails(c) == calls[c].at = "poll" /\ Goes(c, "failed") /\ Same
\* The worker stops: whatever was awaited is cancelled; a job being polled is dropped.
Shutdown(c) ==
    /\ calls[c].at \notin {"rest", "drop"} \union Ended
    /\ Becomes(c, IF calls[c].at = "poll" THEN [At(c, "drop") EXCEPT !.note = "cancelled"] ELSE At(c, "cancelled"))
    /\ Same
\* fal only drops a job still in its queue.
Drop(c, reached) ==
    /\ calls[c].at = "drop" /\ Goes(c, calls[c].note) /\ asked' = asked \union {c}
    /\ job' = IF reached /\ job[c] = "queued" THEN [job EXCEPT ![c] = "dropped"] ELSE job
    /\ UNCHANGED <<files, paid, lost, stop, changes>>
\* The clip replaces what is at its path: whoever approved the call saw the path.
Collect(c) ==
    /\ calls[c].at = "collect"
    /\ \/ job[c] = "made" /\ Becomes(c, [At(c, "save") EXCEPT !.overwrite = TRUE])
       \/ Goes(c, "failed")
    /\ Same
Fal(c) ==
    /\ job' \in {[job EXCEPT ![c] = s] : s \in CASE job[c] = "queued" -> {"making"} [] job[c] = "making" -> {"made", "failed"} [] OTHER -> {}}
    /\ UNCHANGED <<files, calls, asked, paid, lost, stop, changes>>

-----------------------------------------------------------------------------
\* A page into a PDF or PNG.  The browser says what it cut or shrank;
\* WeasyPrint may fall back on the screen's layout.
ByBrowser(tool) ==
    {[by |-> "browser", differs |-> d,
      note |-> IF "cut" \in d THEN "cut" ELSE IF "shrunk" \in d THEN "shrunk" ELSE NONE] :
        d \in SUBSET (CASE tool = "scroll" -> {"cut", "shrunk"} [] tool = "png" -> {"cut"} [] OTHER -> {})}
ByWeasyprint(tool) ==
    {[by |-> "weasyprint", differs |-> d, note |-> IF d # {} THEN "screen layout" ELSE NONE] :
        d \in SUBSET (IF tool \in {"paged", "kit"} THEN {"screen layout"} ELSE {})}
\* A kit document or a screen image made without the browser says so.
Approximated(made) == [made EXCEPT !.note = IF @ = NONE THEN "fallback" ELSE @]
Rendered(tool) ==
    (IF tool = "paged" THEN {} ELSE ByBrowser(tool))
      \union (IF tool = "paged" THEN ByWeasyprint(tool)
              ELSE IF tool = "scroll" THEN {} ELSE {Approximated(m) : m \in ByWeasyprint(tool)})
Make(c) ==
    /\ calls[c].at = "make"
    /\ \E m \in Rendered(calls[c].tool) :
          Becomes(c, [At(c, "save") EXCEPT !.by = m.by, !.differs = m.differs, !.note = m.note, !.overwrite = TRUE])
    /\ Same
\* Not installed, no browser for the scroll PDF, too slow, or a page that will not render.
MakeFails(c) == calls[c].at = "make" /\ Goes(c, "failed") /\ Same

-----------------------------------------------------------------------------
\* The user: Stop, and their own work on the files.
PressStop == ~stop /\ stop' = TRUE /\ UNCHANGED <<files, calls, job, asked, paid, lost, changes>>
UserChanges(path, to) ==
    /\ changes < MaxChanges /\ changes' = changes + 1 /\ files[path] # to /\ files' = [files EXCEPT ![path] = to]
    /\ UNCHANGED <<calls, job, asked, paid, lost, stop>>

Next ==
    \/ \E c \in Calls :
        \/ \E r \in Menu, keyed \in BOOLEAN, known \in BOOLEAN : Begin(c, r, keyed, known)
        \/ Free(c) \/ Load(c) \/ LoadFails(c) \/ Work(c) \/ Save(c) \/ SaveFails(c)
        \/ \E i \in DOMAIN calls[c].out, comes \in BOOLEAN : Draw(c, i, comes)
        \/ \E i \in DOMAIN calls[c].out : Straggler(c, i)
        \/ DrawFails(c) \/ (\E n \in 0..Len(calls[c].out) : Redraw(c, n)) \/ RedrawFails(c)
        \/ Submit(c) \/ Poll(c) \/ PollFails(c) \/ Shutdown(c) \/ (\E reached \in BOOLEAN : Drop(c, reached))
        \/ Collect(c) \/ Fal(c) \/ Make(c) \/ MakeFails(c)
    \/ PressStop
    \/ \E p \in Paths, to \in {"user", NONE} : UserChanges(p, to)
Spec == Init /\ [][Next]_vars

-----------------------------------------------------------------------------
TypeOK ==
    /\ files \in [Paths -> Calls \union {"user", NONE}] /\ asked \subseteq Calls /\ paid \subseteq Calls
    /\ lost \subseteq Calls \X (Calls \union {"user"})
    /\ job \in [Calls -> {NONE, "queued", "making", "made", "failed", "dropped"}]
    /\ \A c \in Calls : calls[c].at \in Ended \union {"rest", "free", "load", "work", "save", "draw", "redraw", "submit",
                                                       "poll", "drop", "collect", "make"}

(***************************************************************************)
(* An edit that was not told to replace never replaces the file that was   *)
(* at its path when it looked (media/tools.py free): what it replaces came *)
(* in between.                                                             *)
(***************************************************************************)
OriginalsKept == \A w \in lost : calls[w[1]].tool \in Edits => calls[w[1]].saw = NONE
(***************************************************************************)
(* A job the user stopped, that ran out of time or that the worker left    *)
(* while asking after it was asked to be dropped, and fal drops a job only *)
(* when nobody waits for it any more.                                      *)
(***************************************************************************)
LeftIsDropped ==
    \A c \in Calls :
        /\ calls[c].at \in {"stopped", "abandoned"} => c \in asked
        /\ job[c] = "dropped" => calls[c].at \in {"stopped", "abandoned", "cancelled"}
        /\ c \in asked => calls[c].saved = {}
(***************************************************************************)
(* A call that is refused, or has no key, has paid nothing and saved       *)
(* nothing; one that is done saved or reported every file it was asked     *)
(* for.                                                                    *)
(***************************************************************************)
EveryFileAccounted ==
    \A c \in Calls :
        /\ calls[c].at \in {"refused", "no key"} => c \notin paid /\ calls[c].saved = {}
        /\ calls[c].at = "done" /\ calls[c].tool \in {"generate", "redraw", "video"} \union Edits
              => Cardinality(calls[c].saved) = Len(calls[c].out) - Cardinality(calls[c].none)
(***************************************************************************)
(* A converted page that is cut, or was not made by the browser it should  *)
(* have been made by, says so.                                             *)
(***************************************************************************)
DifferenceIsSaid ==
    \A c \in Calls : calls[c].at = "done" /\ calls[c].tool \in Exports =>
        /\ "cut" \in calls[c].differs => calls[c].note = "cut"
        /\ calls[c].by = "weasyprint" /\ calls[c].tool # "paged" => calls[c].note # NONE

MediaSafe == OriginalsKept /\ LeftIsDropped /\ EveryFileAccounted /\ DifferenceIsSaid

(***************************************************************************)
(* media/tools.py:250: replacing a file takes an explicit overwrite.       *)
(***************************************************************************)
ReplacingIsAskedFor == lost = {}
(***************************************************************************)
(* video/tools.py:152: a job we have stopped waiting for is asked to be    *)
(* dropped, so that it is not made and billed for nothing.                 *)
(***************************************************************************)
NotBilledForNothing == \A c \in Calls : calls[c].at \in Ended /\ job[c] \in {"queued", "making"} => c \in asked
=============================================================================
