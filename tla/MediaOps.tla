------------------------------- MODULE MediaOps -------------------------------
(***************************************************************************)
(* What the media tools compute: pages chosen as people write them and the *)
(* PDF made of them, the sizes and places an image edit works out, text    *)
(* wrapped on a picture, a page laid out to fit its paper, and what goes   *)
(* to fal with a video.  Pages are numbered from 1; sizes are small whole  *)
(* numbers, and a zoom is in thousandths.  A result is a sequence, and an  *)
(* error, shown to the model, the empty one.                                    *)
(***************************************************************************)
EXTENDS Integers, Sequences, FiniteSets, SequencesExt

CONSTANTS
    Specs, MaxPages,                     \* page selections; pages of a document
    Sides, Margins, Words,               \* sizes of images, margins, and words
    MAX_RENDER_PAGES, MAX_TEXT_CHARS, MAX_OUTPUT_SIDE,
    MIN_FIT_ZOOM, FIT_PASSES, PNG_MAX_HEIGHT_PX, PNG_PAGE_HEIGHT_PX, PNG_BOTTOM_PADDING_PX, SCREEN_HEIGHT_PX

VARIABLES ask, result          \* what was asked last, and what came of it

vars == <<ask, result>>

ERROR == <<>>
OPEN == 0                      \* an end nobody wrote
LAST == 99                     \* "last"
Least(a, b) == IF a < b THEN a ELSE b
Most(a, b) == IF a > b THEN a ELSE b
Half(a) == a \div 2
\* To the nearest, a half to the even one, as Python does.
Rounded(a, b) ==
    LET q == a \div b twice == 2 * (a % b) IN IF twice < b \/ (twice = b /\ q % 2 = 0) THEN q ELSE q + 1
Sum(seq) == FoldLeft(+, 0, seq)

-----------------------------------------------------------------------------
(* media/pages.py: a selection is a sequence of pieces [from, to]. *)
Number(n, count) == IF n = LAST THEN count ELSE n
Exists(n, count) == n = LAST \/ n \in 1..count
Through(a, b) == [i \in 1..(IF a <= b THEN b - a + 1 ELSE a - b + 1) |-> IF a <= b THEN a + i - 1 ELSE a - i + 1]
Forwards(a, b) == [i \in 1..(b - a + 1) |-> a + i - 1]
Piece(p, count) ==
    LET from == IF p[1] = OPEN THEN 1 ELSE p[1]
        to == IF p[2] = OPEN THEN count ELSE p[2]
    IN  IF Exists(from, count) /\ Exists(to, count) THEN Through(Number(from, count), Number(to, count)) ELSE ERROR
ParsePages(spec, count) ==
    IF spec = <<>> THEN Forwards(1, count)
    ELSE LET pieces == [i \in DOMAIN spec |-> Piece(spec[i], count)] IN
         IF ERROR \in ToSet(pieces) THEN ERROR ELSE FlattenSeq(pieces)

(* media/pdf_ops.py *)
Rearrange(count, keep, remove, rotate, turn) ==
    LET order == ParsePages(keep, count)
        dropped == IF remove = <<>> THEN <<>> ELSE ParsePages(remove, count)
        left == SelectSeq(order, LAMBDA p : p \notin ToSet(dropped))
        turned == IF turn = <<>> THEN left ELSE ParsePages(turn, count)
    IN  IF order = ERROR \/ (remove # <<>> /\ dropped = ERROR) \/ turned = ERROR \/ left = <<>> THEN ERROR
        ELSE [i \in DOMAIN left |-> <<left[i], IF left[i] \in ToSet(turned) THEN rotate ELSE 0>>]
Merge(counts) == FlattenSeq([i \in DOMAIN counts |-> [p \in 1..counts[i] |-> <<i, p>>]])
ToImages(count, spec) ==
    LET chosen == ParsePages(spec, count) IN
    IF chosen = ERROR \/ Len(chosen) > MAX_RENDER_PAGES THEN ERROR ELSE chosen
\* The text of the pages, until it is too much; then where it stopped.
ReadText(sizes, spec) ==
    LET chosen == ParsePages(spec, Len(sizes))
        Upto(n) == Sum([i \in 1..n |-> sizes[chosen[i]]])
        fits == {n \in 0..Len(chosen) : Upto(n) <= MAX_TEXT_CHARS}
        most == CHOOSE n \in fits : \A m \in fits : m <= n
    IN  IF chosen = ERROR THEN ERROR
        ELSE <<SubSeq(chosen, 1, most), IF most < Len(chosen) THEN chosen[most + 1] ELSE 0>>

\* Inside the box, its shape kept.
Shrunk(size, box) ==
    IF size[1] <= box[1] /\ size[2] <= box[2] THEN size
    ELSE IF box[1] * size[2] >= size[1] * box[2] THEN <<Most(1, Rounded(size[1] * box[2], size[2])), box[2]>>
         ELSE <<box[1], Most(1, Rounded(size[2] * box[1], size[1]))>>
\* An image on a sheet: the sheet turned for a wide image, white all round it.
Sheet(size, paper) == IF size[1] > size[2] /\ paper[1] < paper[2] THEN <<paper[2], paper[1]>> ELSE paper
OnSheet(size, paper, margin) ==
    LET sheet == Sheet(size, paper)
        image == Shrunk(size, <<sheet[1] - 2 * margin, sheet[2] - 2 * margin>>)
    IN  <<sheet, image, <<Half(sheet[1] - image[1]), Half(sheet[2] - image[2])>>>>

-----------------------------------------------------------------------------
(* media/image_ops.py *)
\* A rectangle <<left, top, width, height>>, or the centre in a shape <<across, down>>.
Crop(size, box) ==
    LET w == Least(size[1], box[1] + box[3]) - Most(0, box[1])
        h == Least(size[2], box[2] + box[4]) - Most(0, box[2])
    IN  IF w <= 0 \/ h <= 0 THEN ERROR ELSE <<w, h>>
CropAspect(size, shape) ==
    IF size[1] * shape[2] > shape[1] * size[2]
    THEN <<Rounded(size[2] * shape[1], shape[2]), size[2]>>
    ELSE <<size[1], Rounded(size[1] * shape[2], shape[1])>>
Contained(size, box) ==
    IF size[1] * box[2] = box[1] * size[2] THEN box
    ELSE IF size[1] * box[2] > box[1] * size[2] THEN <<box[1], Rounded(size[2] * box[1], size[1])>>
         ELSE <<Rounded(size[1] * box[2], size[2]), box[2]>>
\* A width or a height nobody gave is 0.
Resize(size, box, fit) ==
    LET w == IF box[1] # 0 THEN box[1] ELSE Rounded(size[1] * box[2], size[2])
        h == IF box[2] # 0 THEN box[2] ELSE Rounded(size[2] * box[1], size[1])
    IN  IF box = <<0, 0>> THEN size
        ELSE IF Most(w, h) > MAX_OUTPUT_SIDE \/ Least(w, h) = 0 THEN ERROR
        ELSE IF fit = "contain" /\ box[1] # 0 /\ box[2] # 0 THEN Contained(size, <<w, h>>) ELSE <<w, h>>
\* Applied in the order a person would.
Transform(size, box, shape, rotate, to, fit, padding) ==
    LET cropped == IF box # <<>> THEN Crop(size, box) ELSE IF shape # <<>> THEN CropAspect(size, shape) ELSE size
        turned == IF cropped # ERROR /\ rotate % 180 = 90 THEN <<cropped[2], cropped[1]>> ELSE cropped
        resized == IF turned = ERROR \/ 0 \in ToSet(turned) THEN ERROR ELSE Resize(turned, to, fit)
    IN  IF resized = ERROR \/ 0 \in ToSet(resized) THEN ERROR ELSE <<resized[1] + 2 * padding, resized[2] + 2 * padding>>

\* Where an item goes: -1 for left or top, 0 for the middle, 1 for right or bottom.
Anchor(position, box, item, margin) ==
    [d \in 1..2 |-> CASE position[d] = -1 -> margin [] position[d] = 0 -> (box[d] - item[d]) \div 2
                      [] OTHER -> box[d] - item[d] - margin]
\* Words, as their widths, in lines that fit; a space is one wide.
Width(line) == IF line = <<>> THEN 0 ELSE Sum(line) + Len(line) - 1
Placed(lines, word, limit) ==
    IF Last(lines) # <<>> /\ Width(Append(Last(lines), word)) > limit THEN Append(lines, <<word>>)
    ELSE [lines EXCEPT ![Len(lines)] = Append(@, word)]
Wrap(words, limit) == FoldLeft(LAMBDA lines, word : Placed(lines, word, limit), <<<<>>>>, words)
\* Text on a picture: wrapped to what the margins and the box round it leave.
LimitOf(width, margin, pad) == width - 2 * margin - 2 * pad
Widest(lines) == CHOOSE w \in {Width(lines[i]) : i \in DOMAIN lines} : \A i \in DOMAIN lines : Width(lines[i]) <= w
AddText(size, words, position, margin, pad) ==
    LET lines == Wrap(words, LimitOf(size[1], margin, pad)) IN
    Anchor(position, size, <<Widest(lines) + 2 * pad, Len(lines) + 2 * pad>>, margin)
OverlaySize(base, top, percent) ==
    LET w == Most(1, Rounded(base[1] * Most(1, Least(percent, 100)), 100)) IN <<w, Most(1, Rounded(top[2] * w, top[1]))>>

-----------------------------------------------------------------------------
(* exports/render.py; the screen's layout, which has no margin. *)
\* How far right what can be seen of a box reaches: what a clipping parent
\* cuts off does not count.  A box: [right, clips, children's right edges].
RightEdge(box) ==
    LET Reach(child) == IF box.clips THEN Least(child, box.right) ELSE child
        edges == {box.right} \union {Reach(r) : r \in box.children}
    IN  CHOOSE e \in edges : \A f \in edges : f <= e
\* A page wider than its paper is laid out wider and shrunk, and measured
\* again: what is as wide as the layout grows with it (percent), the rest
\* does not (fixed).  <<laid, zoom>>: the zoom it was laid out for, and the
\* one it is written with.
Needed(page, width, zoom) == Most(page.fixed, (page.percent * width * 10) \div zoom)
Pass(s, page, width) ==
    LET needed == Needed(page, width, s.zoom)
        fits == needed <= (width * 1000) \div s.zoom + 1
    IN  IF s.done THEN s
        ELSE IF fits \/ s.zoom <= MIN_FIT_ZOOM THEN [s EXCEPT !.laid = s.zoom, !.done = TRUE]
        ELSE [s EXCEPT !.laid = s.zoom, !.zoom = Most(MIN_FIT_ZOOM, (width * 1000) \div needed)]
Layout(page, width) ==
    LET last == FoldLeft(LAMBDA s, i : Pass(s, page, width), [zoom |-> 1000, laid |-> 1000, done |-> FALSE],
                         [i \in 1..FIT_PASSES |-> i])
    IN  <<last.laid, last.zoom>>
\* The pages of a tall layout in one image: the top of it, when it is too
\* tall, and nothing below the last content but some room.
Stitched(total, content, fullPage) ==
    LET pages == Most(1, (total + PNG_PAGE_HEIGHT_PX - 1) \div PNG_PAGE_HEIGHT_PX)
        enough == (PNG_MAX_HEIGHT_PX + PNG_PAGE_HEIGHT_PX - 1) \div PNG_PAGE_HEIGHT_PX
        canvas == PNG_PAGE_HEIGHT_PX * (IF fullPage THEN Least(pages, enough) ELSE 1)
        bottom == IF ~fullPage THEN SCREEN_HEIGHT_PX
                  ELSE IF content = 0 THEN canvas ELSE Least(content, canvas) + PNG_BOTTOM_PADDING_PX
    IN  <<Least(bottom, Least(canvas, PNG_MAX_HEIGHT_PX))>>

(* video/config.py, video/tools.py: what each model does and takes. *)
Model(does, least, most, ratios) == [does |-> does, least |-> least, most |-> most, ratios |-> ratios]
Models ==
    [m \in {"seedance-2.5", "seedance-2.0", "kling-3", "kling-4", "kling-omni"} |->
        CASE m = "seedance-2.5" -> Model({"text", "image"}, 4, 30, {"21:9", "16:9", "4:3", "1:1", "3:4", "9:16"})
          [] m = "seedance-2.0" -> Model({"text", "image"}, 4, 15, {"21:9", "16:9", "4:3", "1:1", "3:4", "9:16"})
          [] m = "kling-3" -> Model({"text", "image"}, 3, 15, {"16:9", "9:16", "1:1"})
          [] m = "kling-4" -> Model({"text", "image", "edit"}, 3, 30, {"16:9", "9:16", "1:1", "21:9"})
          [] OTHER -> Model({"edit"}, 4, 15, {})]
Chosen(mode, model) == IF mode \in Models[model].does THEN model ELSE "kling-4"
Seconds(model, seconds) ==
    IF seconds = 0 \/ seconds = OPEN THEN 0 ELSE Least(Most(seconds, Models[model].least), Models[model].most)
Body(mode, model, seconds, ratio) ==
    LET m == Chosen(mode, model) IN
    <<m, IF mode = "edit" THEN 0 ELSE Seconds(m, seconds), IF mode = "text" /\ ratio \in Models[m].ratios THEN ratio ELSE "">>

-----------------------------------------------------------------------------
Answers(what, how) == ask' = what /\ result' = how
Init == ask = <<"nothing">> /\ result = <<>>
Sizes == Sides \X Sides
Turns == {<<h, v>> : h, v \in {-1, 0, 1}}

DoRearrange == \E n \in 1..MaxPages, k \in Specs, r \in Specs, t \in Specs :
    Answers(<<"rearrange", n, k, r, t>>, Rearrange(n, k, r, 90, t))
DoMerge == \E a, b \in 1..MaxPages : Answers(<<"merge", a, b>>, Merge(<<a, b>>))
DoToImages == \E n \in 1..MaxPages, k \in Specs : Answers(<<"images", n, k>>, ToImages(n, k))
DoRead == \E n \in 1..MaxPages, k \in Specs, big \in 1..MaxPages :
    Answers(<<"read", n, k, big>>, ReadText([i \in 1..n |-> IF i = big THEN 3 ELSE 1], k))
DoSheet == \E s \in Sizes, m \in Margins : Answers(<<"sheet", s, m>>, OnSheet(s, <<6, 8>>, m))
DoTransform ==
    \E s \in Sizes, box \in {<<>>, <<1, 1, 9, 2>>, <<5, 0, 2, 2>>}, shape \in {<<>>, <<1, 1>>, <<2, 1>>}, r \in {0, 90},
       w, h \in {0, 4}, fit \in {"contain", "cover", "stretch"}, p \in {0, 1} :
        Answers(<<"transform", s, box, shape, r, <<w, h>>, fit, p>>, Transform(s, box, shape, r, <<w, h>>, fit, p))
DoAddText ==
    \E s \in Sizes, words \in Words, at \in Turns, m \in Margins, pad \in {0, 1} :
        Answers(<<"text", s, words, at, m, pad>>, AddText(s, words, at, m, pad))
DoOverlay ==
    \E s, t \in Sizes, at \in Turns, percent \in {0, 20, 50, 200} :
        Answers(<<"overlay", s, t, at, percent>>, Anchor(at, s, OverlaySize(s, t, percent), 0))
DoPdf == \E fixed \in {0, 9, 12, 30}, percent \in {50, 100, 120, 300} :
    Answers(<<"pdf", fixed, percent>>, Layout([fixed |-> fixed, percent |-> percent], 10))
DoEdge == \E right \in Sides, clips \in BOOLEAN, a \in Sides : 
    Answers(<<"edge", right, clips, a>>, <<RightEdge([right |-> right, clips |-> clips, children |-> {a}])>>)
DoPng == \E total \in 1..40, full \in BOOLEAN : \E content \in 0..total :
    Answers(<<"png", total, content, full>>, Stitched(total, content, full))
DoVideo == \E mode \in {"text", "image", "edit"}, m \in DOMAIN Models, s \in {0, 1, 10, 99}, r \in {"16:9", "3:4"} :
    Answers(<<"video", mode, m, s, r>>, Body(mode, m, s, r))
Next ==
    /\ ask = <<"nothing">>
    /\ \/ DoRearrange \/ DoMerge \/ DoToImages \/ DoRead \/ DoSheet \/ DoTransform \/ DoAddText \/ DoOverlay
       \/ DoPdf \/ DoEdge \/ DoPng \/ DoVideo
Spec == Init /\ [][Next]_vars

-----------------------------------------------------------------------------
TypeOK == Len(ask) \in 1..8 /\ result \in Seq({0, 1, 2, 3}) \union {result}

Is(what) == ask[1] = what /\ result # ERROR
\* Only pages of the document, each as often as it is asked for and none that
\* was dropped.
PagesAreAsked ==
    Is("rearrange") => \A i \in DOMAIN result :
        /\ result[i][1] \in 1..ask[2] /\ \A p \in DOMAIN ask[4] : ask[4] # <<>> => result[i][1] \notin {ask[4][p][1], ask[4][p][2]}
        /\ ask[3] = <<>> => \A j \in DOMAIN result : i < j => result[i][1] < result[j][1]
\* The text never passes the limit, and what is left out begins where it says.
TextIsBounded ==
    Is("read") =>
        LET chosen == ParsePages(ask[3], ask[2]) IN
        /\ Sum([i \in DOMAIN result[1] |-> IF result[1][i] = ask[4] THEN 3 ELSE 1]) <= MAX_TEXT_CHARS
        /\ IF result[2] = 0 THEN result[1] = chosen ELSE IsPrefix(Append(result[1], result[2]), chosen)
\* An image on a sheet is inside its margins; a transformed one in the box
\* asked for; text that could be wrapped is within the picture's margins.
ImagesFit ==
    /\ Is("sheet") /\ 2 * ask[3] < 6 =>
          \A d \in 1..2 : result[3][d] >= ask[3] /\ result[3][d] + result[2][d] <= result[1][d] - ask[3]
    /\ Is("transform") /\ ask[6] = <<4, 4>> => \A d \in 1..2 : result[d] \in 0..4 + 2 * ask[8]
    /\ Is("overlay") => result[1] >= 0
TextFits ==
    Is("text") =>
        LET limit == LimitOf(ask[2][1], ask[5], ask[6])
            lines == Wrap(ask[3], limit)
        IN  /\ FlattenSeq(lines) = ask[3]
            /\ \A i \in DOMAIN lines : Width(lines[i]) <= limit \/ Len(lines[i]) <= 1
            /\ \A i \in 1..(Len(lines) - 1) : Width(Append(lines[i], Head(lines[i + 1]))) > limit
            /\ Widest(lines) <= limit => result[1] >= ask[5] /\ result[1] + Widest(lines) + 2 * ask[6] <= ask[2][1] - ask[5]
\* A page is never shrunk past what can be read; one of a fixed width fits.
PagesFit ==
    /\ Is("pdf") => /\ result[2] >= MIN_FIT_ZOOM
                    /\ ask[3] <= 100 /\ result[2] > MIN_FIT_ZOOM => ask[2] * result[2] <= 10 * 1000 + 1000
    /\ Is("png") => result[1] <= PNG_MAX_HEIGHT_PX /\ (ask[4] => result[1] >= Least(ask[3], PNG_MAX_HEIGHT_PX))
    /\ Is("edge") => result[1] >= ask[2] /\ (ask[3] => result[1] = ask[2])
\* The model that runs does what is asked, and is given a length and a shape it takes.
ModelsDoWhatIsAsked ==
    Is("video") => /\ ask[2] \in Models[result[1]].does
                   /\ result[2] \in {0} \union Models[result[1]].least..Models[result[1]].most
(***************************************************************************)
(* What the media tools compute is what was asked: the right pages, images *)
(* inside their boxes, text inside its picture, a page that fits its paper *)
(* and can still be read.                                                  *)
(***************************************************************************)
OpsSafe == PagesAreAsked /\ TextIsBounded /\ ImagesFit /\ TextFits /\ PagesFit /\ ModelsDoWhatIsAsked

(***************************************************************************)
(* exports/render.py:108: the zoom puts the document back on a page of the *)
(* asked-for size, so it is the zoom the document was laid out for.        *)
(***************************************************************************)
PageOfTheAskedSize == Is("pdf") => result[1] = result[2]
=============================================================================
