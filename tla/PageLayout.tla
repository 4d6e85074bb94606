----------------------------- MODULE PageLayout -----------------------------
(***************************************************************************)
(* The block model of src/rust/render/lib.rs and the pure work on it:      *)
(* flowing blocks into a column (Renderer::layout), flattening the result  *)
(* into the arrays of the C ABI (LayoutHandle::export) and cutting the     *)
(* column into pages (paginate, pageOf of src/browser/pdf.zig).            *)
(*                                                                         *)
(* Lengths. s is twice the device pixel ratio, so 2 stands for scale 1.0.  *)
(* A length inside a layout is in half device pixels: v CSS px are v * s   *)
(* of them and v device px are 2 * v, and both stay whole numbers. x       *)
(* positions, colours and point sizes are left out.                        *)
(*                                                                         *)
(* parley is modelled by what layout asks of it: every glyph is as wide as *)
(* the next, a line takes as many as fit and at least one                  *)
(* (OverflowWrap::Anywhere), a line's height is rounded to device pixels   *)
(* (`quantize'), and a run ends where the font or the style changes.       *)
(***************************************************************************)
EXTENDS Integers, SequencesExt

CONSTANTS
  Chars,        \* characters of the texts
  Blank,        \* those whose glyph has no outline
  CharW         \* the width of a character, CSS px

ASSUME LayoutConstants == Blank \subseteq Chars /\ CharW \in Nat \ {0}

PAGE_MARGIN  == 16
LIST_INDENT  == 24
QUOTE_INDENT == 20
PRE_PAD      == 8
LAYOUT_NONE  == -1

Larger(a, b)  == IF a > b THEN a ELSE b
Smaller(a, b) == IF a < b THEN a ELSE b
CeilDiv(a, b) == -((-a) \div b)

-----------------------------------------------------------------------------
(* The input: LpBlock and LpSpan.                                          *)
BadText == <<"not UTF-8">>

Text    == Seq(Chars) \cup {BadText}
Styles  == {"bold", "italic", "underline", "mono", "strike", "color"}
LpSpan  == [flags : SUBSET Styles, text : Text]
LpBlock == [kind : {"para", "heading", "pre", "rule"}, level : Nat, tight : BOOLEAN,
            list : Nat, quote : Nat, marker : Text, spans : Seq(LpSpan)]

\* blocks_from_ffi: one span that is not UTF-8 spoils the document ...
Utf8(doc) == \A i \in DOMAIN doc : \A j \in DOMAIN doc[i].spans :
                doc[i].spans[j].text # BadText
\* ... while a marker that is not is dropped.
MarkerOf(b) == IF b.marker = BadText THEN <<>> ELSE b.marker

HasText(b) == \E j \in DOMAIN b.spans : b.spans[j].text # <<>>

Tight(b)  == b.list > 0 \/ b.tight
Before(b) == CASE b.kind = "heading" -> 20
               [] b.kind \in {"pre", "rule"} -> 12
               [] OTHER -> IF Tight(b) THEN 4 ELSE 12
After(b)  == CASE b.kind = "heading" -> 10
               [] b.kind \in {"pre", "rule"} -> 12
               [] OTHER -> IF Tight(b) THEN 4 ELSE 12
\* font size times line height, in tenths of a CSS px
LineTenths(b) == CASE b.kind = "heading" /\ b.level = 1 -> 400
                   [] b.kind = "heading" /\ b.level = 2 -> 300
                   [] b.kind = "heading" /\ b.level = 3 -> 250
                   [] b.kind = "heading" /\ b.level = 4 -> 220
                   [] b.kind = "heading" /\ b.level \notin 1 .. 4 -> 200
                   [] b.kind = "pre" -> 196
                   [] OTHER -> 224

\* The face a span is set in: sans or mono, bold or not.
FontOf(b, flags) ==
  [mono |-> b.kind = "pre" \/ "mono" \in flags,
   bold |-> b.kind = "heading" \/ "bold" \in flags]

-----------------------------------------------------------------------------
(* Renderer::layout.                                                       *)
GlyphsOf(b, flags, text, from) ==
  [k \in 1 .. Len(text) |->
     [font |-> FontOf(b, flags), char |-> text[k], style |-> flags, at |-> from + k - 1]]

\* The glyphs of the block's spans, one text after the other.
BlockGlyphs(b) ==
  LET upTo[j \in 0 .. Len(b.spans)] ==
        IF j = 0 THEN <<>>
        ELSE LET sp == b.spans[j]
             IN upTo[j - 1] \o GlyphsOf(b, sp.flags, sp.text, Len(upTo[j - 1]))
  IN upTo[Len(b.spans)]

\* A marker is set in the base style, on one line of its own.
MarkerGlyphs(b) == GlyphsOf([b EXCEPT !.kind = "para"], {}, MarkerOf(b), 0)

\* break_all_lines: `avail' CSS px wide
BreakLines(gs, avail) ==
  LET per == Larger(Larger(avail, 1) \div CharW, 1)
  IN [k \in 1 .. CeilDiv(Len(gs), per) |->
        SubSeq(gs, (k - 1) * per + 1, Smaller(k * per, Len(gs)))]

Pad(b)    == IF b.kind = "pre" THEN PRE_PAD ELSE 0
Indent(b) == b.list * LIST_INDENT + b.quote * QUOTE_INDENT

\* the height of one line, rounded to device px
LineHeight(b, s) == 2 * ((LineTenths(b) * s + 10) \div 20)

LinesOf(b, width, margin) ==
  IF b.kind = "rule" THEN <<>>
  ELSE BreakLines(BlockGlyphs(b), Larger(width - 2 * margin, 1) - Indent(b) - 2 * Pad(b))

TextHeight(b, width, margin, s) == Len(LinesOf(b, width, margin)) * LineHeight(b, s)

Extent(b, width, margin, s) ==
  IF b.kind = "rule" THEN s ELSE TextHeight(b, width, margin, s) + 2 * Pad(b) * s

\* Where each block starts: the first at the margin, each later one under its
\* predecessor, the larger of the two spacings apart.
Tops(doc, width, margin, s) ==
  LET top[i \in 1 .. Len(doc)] ==
        IF i = 1 THEN margin * s
        ELSE top[i - 1] + Extent(doc[i - 1], width, margin, s)
               + Larger(After(doc[i - 1]), Before(doc[i])) * s
  IN top

PlaceBlock(b, top, width, margin, s) ==
  [kind |-> b.kind, y |-> top + Pad(b) * s, quote |-> IF b.kind = "rule" THEN 0 ELSE b.quote,
   marker |-> IF b.kind = "rule" THEN <<>> ELSE MarkerGlyphs(b),
   lines |-> LinesOf(b, width, margin), lineH |-> LineHeight(b, s)]

Layout(doc, width, margin, s) ==
  LET top == Tops(doc, width, margin, s)
      n   == Len(doc)
  IN [placed |-> [i \in 1 .. n |-> PlaceBlock(doc[i], top[i], width, margin, s)],
      height |-> (IF n = 0 THEN margin * s ELSE top[n] + Extent(doc[n], width, margin, s))
                   + margin * s]

-----------------------------------------------------------------------------
(* LayoutHandle::export: flat arrays; an index counts from 0.              *)
Slice(array, from, len) == SubSeq(array, from + 1, from + len)
SameRun(g, h) == g.font = h.font /\ g.style = h.style

\* The glyph runs of a line: the longest stretches in one font and style, so
\* that a glyph joins the run of its neighbour or starts the next.
JoinRun(runs, line, k) ==
  IF k = 1 \/ ~SameRun(line[k - 1], line[k]) THEN Append(runs, <<line[k]>>)
  ELSE [runs EXCEPT ![Len(runs)] = Append(@, line[k])]

RunsOf(line) ==
  LET upTo[k \in 0 .. Len(line)] == IF k = 0 THEN <<>> ELSE JoinRun(upTo[k - 1], line, k)
  IN upTo[Len(line)]

NoLayout == [height |-> 0, blocks |-> <<>>, lines |-> <<>>, runs |-> <<>>,
             glyphs |-> <<>>, clusters |-> <<>>, fonts |-> <<>>]

\* A search that compares the family only.
FontIndex_bug(fonts, f) ==
  IF Contains(fonts, f) THEN SelectInSeq(fonts, LAMBDA g : g.mono = f.mono) - 1 ELSE Len(fonts)

\* font_index: a face is appended once.
FontIndex(fonts, f) ==
  IF Contains(fonts, f) THEN SelectInSeq(fonts, LAMBDA g : g = f) - 1 ELSE Len(fonts)
WithFont(fonts, f) == IF Contains(fonts, f) THEN fonts ELSE Append(fonts, f)

ExportRun(h, run, y) ==
  [h EXCEPT
     !.glyphs = @ \o [k \in DOMAIN run |-> run[k].char],
     !.fonts  = WithFont(@, run[1].font),
     !.runs   = Append(@, [font |-> FontIndex(h.fonts, run[1].font), style |-> run[1].style,
                           baseline |-> y, glyphs |-> Len(h.glyphs), glyphsLen |-> Len(run)])]

ExportCluster(h, g) ==
  [h EXCEPT
     !.fonts    = WithFont(@, g.font),
     !.clusters = Append(@, [font |-> FontIndex(h.fonts, g.font), glyph |-> g.char,
                             start |-> g.at, len |-> 1])]

ExportRuns(h, runs, y) ==
  LET upTo[k \in 0 .. Len(runs)] == IF k = 0 THEN h ELSE ExportRun(upTo[k - 1], runs[k], y)
  IN upTo[Len(runs)]

ExportClusters(h, line) ==
  LET upTo[k \in 0 .. Len(line)] == IF k = 0 THEN h ELSE ExportCluster(upTo[k - 1], line[k])
  IN upTo[Len(line)]

\* One line of export_layout: its runs, then its clusters, then the line.
ExportLine(h, line, top, lineH) ==
  LET a == ExportRuns(h, RunsOf(line), top)
      b == ExportClusters(a, line)
  IN [b EXCEPT !.lines = Append(@,
        [top |-> top, bottom |-> top + lineH,
         runs |-> Len(h.runs), runsLen |-> Len(a.runs) - Len(h.runs),
         clusters |-> Len(a.clusters), clustersLen |-> Len(b.clusters) - Len(a.clusters)])]

ExportText(h, lines, y, lineH) ==
  LET upTo[k \in 0 .. Len(lines)] ==
        IF k = 0 THEN h ELSE ExportLine(upTo[k - 1], lines[k], y + (k - 1) * lineH, lineH)
  IN upTo[Len(lines)]

ExportBlock(h, p) ==
  LET a == IF p.kind = "rule" THEN h ELSE ExportText(h, p.lines, p.y, p.lineH)
      b == IF p.marker = <<>> THEN a ELSE ExportText(a, <<p.marker>>, p.y, p.lineH)
  IN [b EXCEPT !.blocks = Append(@,
        [kind |-> p.kind, y |-> p.y, quote |-> p.quote,
         lines |-> Len(h.lines), linesLen |-> Len(a.lines) - Len(h.lines),
         marker |-> IF p.marker = <<>> THEN LAYOUT_NONE ELSE Len(a.lines)])]

Export(l) ==
  LET upTo[i \in 0 .. Len(l.placed)] ==
        IF i = 0 THEN [NoLayout EXCEPT !.height = l.height]
        ELSE ExportBlock(upTo[i - 1], l.placed[i])
  IN upTo[Len(l.placed)]

-----------------------------------------------------------------------------
(* pdf.zig: pages. `pad' is PRE_PAD in the layout's units.                 *)
BlockLines(out, b) == Slice(out.lines, b.lines, b.linesLen)

\* Document.lineBoxes: a <pre> keeps its padding with its first and last line.
LineBoxes(out, b, pad) ==
  LET ls == BlockLines(out, b)
      p  == IF b.kind = "pre" THEN pad ELSE 0
  IN [k \in DOMAIN ls |-> [top    |-> ls[k].top - (IF k = 1 THEN p ELSE 0),
                           bottom |-> ls[k].bottom + (IF k = Len(ls) THEN p ELSE 0)]]

\* A fit that breaks the page for a box that starts below it.
FitBox_bug(breaks, box, pageH) ==
  IF box.top - Last(breaks) > pageH THEN Append(breaks, box.top) ELSE breaks

\* fit: a box that crosses the bottom of the page starts the next one.
FitBox(breaks, box, pageH) ==
  IF box.bottom - Last(breaks) > pageH /\ box.top > Last(breaks)
  THEN Append(breaks, box.top) ELSE breaks

Boxes(out, b, pad, px) ==
  IF b.kind = "rule" THEN <<[top |-> b.y, bottom |-> b.y + px]>> ELSE LineBoxes(out, b, pad)

AllBoxes(out, pad, px) ==
  FlattenSeq([i \in DOMAIN out.blocks |-> Boxes(out, out.blocks[i], pad, px)])

\* paginate: the boxes in their order, the first page starting at 0
Paginate(out, pageH, pad, px) ==
  LET boxes == AllBoxes(out, pad, px)
      upTo[k \in 0 .. Len(boxes)] ==
        IF k = 0 THEN <<0>> ELSE FitBox(upTo[k - 1], boxes[k], pageH)
  IN upTo[Len(boxes)]

\* Document.pageOf: the last page that starts at or above y.
PageOf(breaks, y) ==
  LET above == {k \in DOMAIN breaks : k = 1 \/ breaks[k] <= y}
  IN CHOOSE k \in above : \A j \in above : k >= j
=============================================================================
