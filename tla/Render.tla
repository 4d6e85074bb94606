------------------------------- MODULE Render -------------------------------
(***************************************************************************)
(* The page renderer of a Browser: src/rust/render/lib.rs, driven by       *)
(* screenshot.zig (PNG) and pdf.zig (PDF). One Renderer is created on the  *)
(* first use and serves every later call; between calls only its glyph     *)
(* cache keeps anything.                                                   *)
(*                                                                         *)
(* A call runs to its end on one thread, but a panic may end it at any     *)
(* step and the writer that receives the PNG may refuse any chunk, so a    *)
(* call is several steps: the layout, the raster, one step per block       *)
(* drawn, the crop, one step per chunk of the file.                        *)
(***************************************************************************)
EXTENDS PageLayout, FiniteSets

CONSTANTS
  Docs,          \* the documents: sequences of blocks
  Shots,         \* options of lp_render_png
  Papers,        \* [width, pageH, pick]: column, page height, page ranges (pdf.zig)
  MaxRasterDim,  \* MAX_RASTER_DIM, device px per side
  MaxRasterPixels

ASSUME RenderConstants ==
  /\ MaxRasterDim \in Nat \ {0} /\ MaxRasterPixels \in Nat \ {0}
  /\ \A o \in Shots : o.width \in Nat /\ o.height \in Nat /\ o.s \in Int
                      /\ \A f \in {"x", "y", "w", "h"} : o.clip[f] \in Int
  /\ Docs \subseteq Seq(LpBlock)

\* What print hands over: a column and a page of some size (prepare), and blocks
\* that have text unless they are rules (flushSpan and closeBlock drop the others).
ASSUME PrintConstants ==
  /\ \A p \in Papers : p.width \in Nat /\ p.pageH \in Nat \ {0} /\ p.pick \subseteq Nat
  /\ \A d \in Docs : \A i \in DOMAIN d : d[i].kind = "rule" \/ HasText(d[i])

VARIABLES
  renderer,    \* Browser.renderer: "none" or "live"
  glyphCache,  \* Renderer.glyph_cache: (font, glyph) -> outline, NoPath if it has none
  call,        \* the call in progress or the last one: its kind, input and stage
  placed,      \* what layout returned: the blocks and the column height
  pixmap,      \* the raster's size, device px
  nextBlock,   \* the draw loop's position; Len + 1 when it is done
  painted,     \* the glyphs and rules on the raster
  view,        \* the part of the raster that is encoded
  got,         \* chunks offered to the writer, in order, and its answers
  sinkFailed,  \* Sink.failed
  rc,          \* the return code
  reported,    \* *content_height; 0 until written
  out          \* the exported layout and its page breaks

vars == <<renderer, glyphCache, call, placed, pixmap, nextBlock, painted, view,
          got, sinkFailed, rc, reported, out>>

NoPath   == <<"no path">>
NoRect   == [x |-> 0, y |-> 0, w |-> 0, h |-> 0]
NoOut    == [layout |-> NoLayout, breaks |-> <<>>, drawn |-> {}]
Unplaced == [placed |-> <<>>, height |-> 0]
Chunks   == <<"header", "data", "end">>

\* A key that forgets that the face is bold.
GlyphKey_bug(g)     == <<[g.font EXCEPT !.bold = FALSE], g.char>>

Outline(font, char) == IF char \in Blank THEN NoPath ELSE <<font, char>>
GlyphKey(g)         == <<g.font, g.char>>

Init ==
  /\ renderer = "none" /\ glyphCache = <<>>
  /\ call = [op |-> "none", doc |-> <<>>, shot |-> {}, stage |-> "done"]
  /\ placed = Unplaced /\ pixmap = NoRect /\ nextBlock = 1 /\ painted = {}
  /\ view = NoRect /\ got = <<>> /\ sinkFailed = FALSE /\ rc = "none"
  /\ reported = 0 /\ out = NoOut

Shot  == call.shot
Fresh == /\ placed' = Unplaced /\ pixmap' = NoRect /\ nextBlock' = 1 /\ painted' = {}
         /\ view' = NoRect /\ got' = <<>> /\ sinkFailed' = FALSE /\ reported' = 0
         /\ out' = NoOut

At(stage) == call.stage = stage
To(stage) == call' = [call EXCEPT !.stage = stage]

\* A call ends with code c. The height is written when render() returned.
Return(c, height) ==
  /\ To("done") /\ reported' = height
  /\ rc' = IF sinkFailed' THEN "refused" ELSE c

\* render: the content height in CSS px, rounded up and at least 1
ContentHeight == Larger(CeilDiv(placed.height, Shot.s), 1)

-----------------------------------------------------------------------------
(* The calls.                                                              *)

\* rendererFor: the first use creates the renderer; a panic there is an error
\* of the caller and the next use tries again.
NewRenderer ==
  /\ renderer = "none" /\ renderer' = "live"
  /\ UNCHANGED <<glyphCache, call, placed, pixmap, nextBlock, painted, view, got,
                 sinkFailed, rc, reported, out>>

ValidShot(o) == o.width # 0 /\ o.s > 0 /\ o.s <= 16

\* lp_render_png, render_png: bad options and bad text are turned away.
RenderPng(doc, o) ==
  /\ renderer = "live" /\ At("done") /\ Fresh
  /\ call' = [op |-> "png", doc |-> doc, shot |-> o,
              stage |-> IF ValidShot(o) /\ Utf8(doc) THEN "layout" ELSE "done"]
  /\ rc' = IF ValidShot(o) /\ Utf8(doc) THEN "none" ELSE "invalid"
  /\ UNCHANGED <<renderer, glyphCache>>

\* render, up to its early return for a measurement
PlaceBlocks ==
  /\ At("layout") /\ call.op = "png"
  /\ placed' = Layout(call.doc, Shot.width, PAGE_MARGIN, Shot.s)
  /\ UNCHANGED <<renderer, glyphCache, pixmap, nextBlock, painted, view, got,
                 sinkFailed, out>>
  /\ IF Shot.measure THEN Return("ok", Larger(CeilDiv(placed'.height, Shot.s), 1))
     ELSE To("raster") /\ UNCHANGED <<rc, reported>>

\* A strip that is not extended to the clip.
StripHeight_bug(o, content) == IF o.height = 0 THEN content ELSE o.height

\* The height of the strip in CSS px: the one asked for or the whole content,
\* extended to what a clip reaches but never past the content.
StripHeight(o, content) ==
  LET asked == IF o.height = 0 THEN content ELSE o.height
  IN IF o.clip.w > 0
     THEN Larger(asked, Smaller(Larger(o.clip.y + o.clip.h, 0), content))
     ELSE asked

Clamp(v, lo, hi) == Smaller(Larger(v, lo), hi)
Device(css, s)   == CeilDiv(css * s, 2)

RasterWidth(o)           == Clamp(Device(o.width, o.s), 1, MaxRasterDim)
RasterHeight(o, content) ==
  Smaller(Clamp(Device(StripHeight(o, content), o.s), 1, MaxRasterDim),
          Larger(MaxRasterPixels \div RasterWidth(o), 1))

MakeRaster ==
  /\ At("raster")
  /\ UNCHANGED <<renderer, glyphCache, placed, nextBlock, painted, view, got,
                 sinkFailed, out>>
  /\ \/ /\ pixmap' = [NoRect EXCEPT !.w = RasterWidth(Shot),
                                    !.h = RasterHeight(Shot, ContentHeight)]
        /\ To("draw") /\ UNCHANGED <<rc, reported>>
     \/ Return("noRaster", ContentHeight) /\ UNCHANGED pixmap    \* out of memory

\* draw_glyph_run: the outline comes from the cache, which draws it once.
Cached(gs) ==
  LET new == {GlyphKey(g) : g \in gs} \ DOMAIN glyphCache
      drawnBy(key) == CHOOSE g \in gs : GlyphKey(g) = key
  IN [key \in DOMAIN glyphCache \cup new |->
        IF key \in new THEN Outline(drawnBy(key).font, drawnBy(key).char)
        ELSE glyphCache[key]]

\* The glyphs drawn for a block: its lines' and its marker's.
GlyphsDrawn(p) == Range(p.marker) \cup UNION {Range(p.lines[l]) : l \in DOMAIN p.lines}

\* What draw_layout puts on the raster for the lines of block i.
Marks(i, lines, cache) ==
  UNION {{[block |-> i, line |-> l, pos |-> k, glyph |-> <<lines[l][k].font, lines[l][k].char>>,
           path |-> cache[GlyphKey(lines[l][k])]] : k \in DOMAIN lines[l]} : l \in DOMAIN lines}

Rule(i) == [block |-> i, line |-> 0, pos |-> 0, glyph |-> <<>>, path |-> NoPath]

BelowRaster(p) == p.y > 2 * pixmap.h

\* One turn of the draw loop, which stops at the first block below the raster.
\* The marker counts as line 0 of its block.
DrawBlock ==
  /\ At("draw") /\ nextBlock <= Len(placed.placed)
  /\ LET p == placed.placed[nextBlock] IN
     IF BelowRaster(p)
     THEN nextBlock' = Len(placed.placed) + 1 /\ UNCHANGED <<painted, glyphCache>>
     ELSE /\ nextBlock' = nextBlock + 1
          /\ IF p.kind = "rule"
             THEN painted' = painted \cup {Rule(nextBlock)} /\ UNCHANGED glyphCache
             ELSE /\ glyphCache' = Cached(GlyphsDrawn(p))
                  /\ painted' = painted \cup Marks(nextBlock, p.lines, glyphCache')
                       \cup {[m EXCEPT !.line = 0] :
                               m \in Marks(nextBlock, <<p.marker>>, glyphCache')}
  /\ UNCHANGED <<renderer, call, placed, pixmap, view, got, sinkFailed, rc, reported, out>>

\* The crop, inside the raster and never empty.
Cropped(o) ==
  LET x == Smaller(Larger((o.clip.x * o.s) \div 2, 0), pixmap.w - 1)
      y == Smaller(Larger((o.clip.y * o.s) \div 2, 0), pixmap.h - 1)
  IN [x |-> x, y |-> y,
      w |-> Smaller(Larger(Device(o.clip.w, o.s), 1), pixmap.w - x),
      h |-> Smaller(Larger(Device(o.clip.h, o.s), 1), pixmap.h - y)]

Crop ==
  /\ At("draw") /\ nextBlock > Len(placed.placed)
  /\ view' = IF Shot.clip.w > 0 THEN Cropped(Shot) ELSE pixmap
  /\ To("encode")
  /\ UNCHANGED <<renderer, glyphCache, placed, pixmap, nextBlock, painted, got,
                 sinkFailed, rc, reported, out>>

-----------------------------------------------------------------------------
(* The PNG encoder (external) and the Sink it writes to.                   *)
Answers == {"taken", "refused"}

\* A sink that remembers only its last answer.
Offer_bug(chunk, answer) ==
  /\ sinkFailed' = (answer = "refused")
  /\ got' = Append(got, [chunk |-> chunk, answer |-> answer])

\* Sink::write: once it failed it stays failed and the writer is not called.
Offer(chunk, answer) ==
  /\ sinkFailed' = (sinkFailed \/ answer = "refused")
  /\ got' = IF sinkFailed THEN got ELSE Append(got, [chunk |-> chunk, answer |-> answer])

Encode(answer) ==
  /\ At("encode")
  /\ LET chunk == Chunks[Len(got) + 1] IN
     /\ Offer(chunk, answer)
     /\ CASE answer = "taken" /\ chunk = "end"   -> Return("ok", ContentHeight)
          [] answer = "taken" /\ chunk # "end"   -> UNCHANGED <<call, rc, reported>>
          [] answer = "refused" /\ chunk = "end" -> Return("encodeFailed", ContentHeight)
          [] OTHER                               -> To("drop") /\ UNCHANGED <<rc, reported>>
  /\ UNCHANGED <<renderer, glyphCache, placed, pixmap, nextBlock, painted, view, out>>

\* The encoder gives up by itself, before the compressed image is written.
Compressing  == At("encode") /\ Len(got) < 2
EncoderFails ==
  /\ Compressing /\ To("drop")
  /\ UNCHANGED <<renderer, glyphCache, placed, pixmap, nextBlock, painted, view, got,
                 sinkFailed, rc, reported, out>>

\* png's Writer writes the trailer it still owes when it is dropped.
DropEncoder(answer) ==
  /\ At("drop") /\ Offer("end", answer) /\ Return("encodeFailed", ContentHeight)
  /\ UNCHANGED <<renderer, glyphCache, placed, pixmap, nextBlock, painted, view, out>>

\* catch_unwind: a panic anywhere in a call ends it; a writer that is alive then
\* is dropped on the way out. The renderer stays.
Panic(answer) ==
  /\ call.stage \in {"layout", "raster", "draw"} \/ Compressing
  /\ IF At("encode") THEN Offer("end", answer) ELSE UNCHANGED <<sinkFailed, got>>
  /\ To("done") /\ rc' = "panic"
  /\ UNCHANGED <<renderer, glyphCache, placed, pixmap, nextBlock, painted, view,
                 reported, out>>

-----------------------------------------------------------------------------
(* lp_layout_new and its consumer, pdf.zig.                                *)
\* The column is in whole px here: 0 stands for one narrower than a px.
ValidPaper(p) == p.width >= 1

NewLayout(doc, paper) ==
  /\ renderer = "live" /\ At("done") /\ Fresh
  /\ call' = [op |-> "pdf", doc |-> doc, shot |-> paper,
              stage |-> IF ValidPaper(paper) /\ Utf8(doc) THEN "layout" ELSE "done"]
  /\ rc' = IF ValidPaper(paper) /\ Utf8(doc) THEN "none" ELSE "invalid"
  /\ UNCHANGED <<renderer, glyphCache>>

\* Document.draw: each line goes to the page its box starts on, if that page is
\* picked, and takes the block's marker with it when it is the first.
DrawnOn(layout, breaks, pick, pad) ==
  UNION {LET b == layout.blocks[i]
             boxes == LineBoxes(layout, b, pad)
             page(k) == PageOf(breaks, boxes[k].top)
         IN {[line |-> b.lines + k - 1, page |-> page(k)] : k \in {j \in DOMAIN boxes :
               pick = {} \/ page(j) \in pick}}
            \cup {[line |-> b.marker, page |-> page(1)] : k \in {j \in DOMAIN boxes :
               j = 1 /\ b.marker # LAYOUT_NONE /\ (pick = {} \/ page(1) \in pick)}}
         : i \in DOMAIN layout.blocks}

ExportLayout ==
  /\ At("layout") /\ call.op = "pdf"
  /\ placed' = Layout(call.doc, Shot.width, 0, 2)
  /\ LET l == Export(placed')
         breaks == Paginate(l, 2 * Shot.pageH, 2 * PRE_PAD, 2)
     IN /\ out' = [layout |-> l, breaks |-> breaks,
                   drawn |-> DrawnOn(l, breaks, Shot.pick, 2 * PRE_PAD)]
        /\ rc' = IF Shot.pick = {} \/ Shot.pick \cap DOMAIN breaks # {}
                 THEN "ok" ELSE "noPages"
  /\ To("done")
  /\ UNCHANGED <<renderer, glyphCache, pixmap, nextBlock, painted, view, got,
                 sinkFailed, reported>>

Next ==
  \/ NewRenderer
  \/ \E d \in Docs, o \in Shots : RenderPng(d, o)
  \/ PlaceBlocks \/ MakeRaster \/ DrawBlock \/ Crop
  \/ \E a \in Answers : Encode(a) \/ DropEncoder(a) \/ Panic(a)
  \/ EncoderFails
  \/ \E d \in Docs, p \in Papers : NewLayout(d, p)
  \/ ExportLayout

Spec == Init /\ [][Next]_vars

-----------------------------------------------------------------------------
(* Properties.                                                             *)
Stages == {"layout", "raster", "draw", "encode", "drop", "done"}
Codes  == {"none", "ok", "invalid", "refused", "noRaster", "encodeFailed", "panic", "noPages"}
Keys   == [mono : BOOLEAN, bold : BOOLEAN] \X Chars

\* The state's shape: the renderer, the call, the raster and what was written.
TypeOK ==
  /\ renderer \in {"none", "live"} /\ DOMAIN glyphCache \subseteq Keys
  /\ call.op \in {"none", "png", "pdf"} /\ call.stage \in Stages
  /\ nextBlock \in Nat /\ pixmap.w \in Nat /\ pixmap.h \in Nat
  /\ sinkFailed \in BOOLEAN /\ rc \in Codes /\ reported \in Nat
  /\ Len(got) <= Len(Chunks) + 1

Complete == /\ Len(got) = Len(Chunks)
            /\ \A k \in DOMAIN got : got[k] = [chunk |-> Chunks[k], answer |-> "taken"]

\* A PNG call returns RC_OK exactly when the whole file, in order, was taken by
\* the writer. Nothing is offered to it after it refused a chunk, not even the
\* trailer the encoder owes when it is dropped, and the refusal is the cause
\* reported.
OkMeansComplete ==
  /\ call.op = "png" /\ At("done") /\ ~Shot.measure =>
       (rc = "ok" <=> Complete)
  /\ \A k \in DOMAIN got : got[k].answer = "refused" => k = Len(got)
  /\ At("done") /\ sinkFailed => rc \in {"refused", "panic"}

Rasterized == call.op = "png" /\ call.stage \in {"draw", "encode", "drop"}

RasterFits ==
  Rasterized =>
    /\ pixmap.w \in 1 .. MaxRasterDim /\ pixmap.h \in 1 .. MaxRasterDim
    /\ pixmap.w * pixmap.h <= MaxRasterPixels \/ pixmap.h = 1
    /\ call.stage \in {"encode", "drop"} =>
         /\ view.x >= 0 /\ view.y >= 0 /\ view.w >= 1 /\ view.h >= 1
         /\ view.x + view.w <= pixmap.w /\ view.y + view.h <= pixmap.h

InPage(clip) == /\ clip.x >= 0 /\ clip.x + clip.w <= Shot.width
                /\ clip.y >= 0 /\ clip.h > 0 /\ clip.y + clip.h <= ContentHeight

\* A raster of that size, in CSS px, is within the limits.
Allowed(w, h) == LET dw == Device(w, Shot.s) dh == Device(h, Shot.s)
                 IN dw <= MaxRasterDim /\ dh <= MaxRasterDim /\ dw * dh <= MaxRasterPixels

\* The raster is never empty, keeps within the limits per side and in total
\* (a side of one pixel apart), and what is encoded is a non-empty part of it.
\* A clip inside the page is shown whole, wherever it lies, if a raster that
\* reaches its lower edge is allowed: the strip is extended to it when the
\* requested height is smaller, and the crop starts at its corner and has its
\* size.
ClipShown ==
  LET clip == Shot.clip IN
  RasterFits /\
  (Rasterized /\ ~At("draw") /\ clip.w > 0 /\ InPage(clip) /\ Allowed(Shot.width, clip.y + clip.h) =>
     /\ view.x = (clip.x * Shot.s) \div 2 /\ view.y = (clip.y * Shot.s) \div 2
     /\ view.w = Device(clip.w, Shot.s) /\ view.h = Device(clip.h, Shot.s))

\* Everything whose box starts on the raster is on it when it is encoded, each
\* glyph as the outline of its own character in its own face: the loop's early
\* end leaves nothing out, and what the cache kept from earlier calls (other
\* sizes, other blocks, calls that panicked) is never shown for another glyph.
LineMarks(i, line, n) ==
  {[block |-> i, line |-> n, pos |-> k, glyph |-> <<line[k].font, line[k].char>>,
    path |-> Outline(line[k].font, line[k].char)] : k \in DOMAIN line}
BlockMarks(i) ==
  LET p == placed.placed[i]
      started == {l \in DOMAIN p.lines : p.y + (l - 1) * p.lineH < 2 * pixmap.h}
  IN IF p.kind = "rule" THEN {Rule(i)}
     ELSE LineMarks(i, p.marker, 0) \cup UNION {LineMarks(i, p.lines[l], l) : l \in started}
CacheSound ==
  \A g \in DOMAIN glyphCache : g \in Keys /\ glyphCache[g] = Outline(g[1], g[2])
TextDrawn ==
  /\ TypeOK /\ CacheSound
  /\ Rasterized /\ ~At("draw") =>
       \A i \in DOMAIN placed.placed :
         placed.placed[i].y < 2 * pixmap.h => BlockMarks(i) \subseteq painted

Exported  == call.op = "pdf" /\ At("done") /\ out # NoOut
Doc       == call.doc
L         == out.layout

\* The text of one exported line, read twice as pdf.zig does: through its
\* clusters (links, ToUnicode) and through its runs (drawing).
ByClusters(l) ==
  LET cs == Slice(L.clusters, L.lines[l + 1].clusters, L.lines[l + 1].clustersLen)
  IN [k \in DOMAIN cs |-> [font |-> L.fonts[cs[k].font + 1], char |-> cs[k].glyph]]
ByRuns(l) ==
  LET rs == Slice(L.runs, L.lines[l + 1].runs, L.lines[l + 1].runsLen)
  IN FlattenSeq([r \in DOMAIN rs |->
       LET gs == Slice(L.glyphs, rs[r].glyphs, rs[r].glyphsLen)
       IN [k \in DOMAIN gs |-> [font |-> L.fonts[rs[r].font + 1], char |-> gs[k]]]])
Written(gs) == [k \in DOMAIN gs |-> [font |-> gs[k].font, char |-> gs[k].char]]
LineIds(b)  == [k \in 1 .. b.linesLen |-> b.lines + k - 1]

\* The arrays handed to pdf.zig hold the document: each block's lines, read
\* through either index, spell its spans in their faces, and its marker line
\* spells its marker; no line is in two blocks; no face is listed twice.
ExportFaithful ==
  Exported =>
    /\ Len(L.blocks) = Len(Doc) /\ IsInjective(L.fonts)
    /\ \A i \in DOMAIN L.blocks :
         LET b    == L.blocks[i]
             want == IF Doc[i].kind = "rule" THEN <<>> ELSE Written(BlockGlyphs(Doc[i]))
             ids  == LineIds(b)
         IN /\ FlattenSeq([k \in DOMAIN ids |-> ByClusters(ids[k])]) = want
            /\ FlattenSeq([k \in DOMAIN ids |-> ByRuns(ids[k])]) = want
            /\ IF Doc[i].kind = "rule" \/ MarkerOf(Doc[i]) = <<>>
               THEN b.marker = LAYOUT_NONE
               ELSE ByRuns(b.marker) = Written(MarkerGlyphs(Doc[i]))
    /\ FlattenSeq([i \in DOMAIN L.blocks |-> LineIds(L.blocks[i]) \o
          (IF L.blocks[i].marker = LAYOUT_NONE THEN <<>> ELSE <<L.blocks[i].marker>>)])
         = [k \in DOMAIN L.lines |-> k - 1]

\* Pagination: pages start at increasing heights; a box lies inside its page
\* unless it starts the page (and is taller than one), and never reaches into
\* the next; a picked page shows each of its lines, and their block's marker,
\* once, and no other page shows them.
PagesHold ==
  Exported =>
    LET br == out.breaks
        boxes == AllBoxes(L, 2 * PRE_PAD, 2)
        shown(l) == {d \in out.drawn : d.line = l}
    IN /\ \A p \in 2 .. Len(br) : br[p - 1] < br[p]
       /\ \A k \in DOMAIN boxes :
            LET p == PageOf(br, boxes[k].top)
            IN /\ boxes[k].bottom - br[p] <= 2 * Shot.pageH \/ boxes[k].top = br[p]
               /\ p < Len(br) => boxes[k].bottom <= br[p + 1]
       /\ \A l \in DOMAIN L.lines : Cardinality(shown(l - 1)) <= 1
       /\ Shot.pick = {} => \A l \in DOMAIN L.lines : shown(l - 1) # {}
       /\ \A d \in out.drawn : Shot.pick = {} \/ d.page \in Shot.pick
=============================================================================
