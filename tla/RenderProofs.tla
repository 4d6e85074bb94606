----------------------------- MODULE RenderProofs -----------------------------
(***************************************************************************)
(* What a caller of lp_render_png may conclude, for all documents, options *)
(* and limits and every behaviour of the writer, the encoder and the       *)
(* panics in between.                                                      *)
(*                                                                         *)
(* The return code. OkMeansComplete speaks of calls that have ended;       *)
(* FileInv says what the writer has been offered at each stage of a call.  *)
(* The point is the drop: an encoder that gave up still offers its         *)
(* trailer, which could complete the file only if the image had been       *)
(* written, and an encoder does not give up by itself after that.          *)
(*                                                                         *)
(* The picture. DrawInv says what a call has made at each stage. The clip  *)
(* is arithmetic on lengths rounded up and down; that the loop's early end *)
(* leaves nothing out needs that the blocks of a layout descend, which is  *)
(* an induction over the document, and that every glyph is its own outline *)
(* needs a cache that is sound from call to call.                          *)
(*                                                                         *)
(* The print. An exported layout is a handle of flat arrays with ids from  *)
(* one into the next. Each step of the export only adds at the ends of the *)
(* arrays, so what an earlier step wrote reads the same to the end: that   *)
(* gives ExportFaithful, by induction over clusters, runs, lines and       *)
(* blocks. The blocks of a column follow one another, so the boxes the     *)
(* paginator walks form a chain from top to bottom, and PagesHold is an    *)
(* induction over that chain. PrintInv carries both into the calls.        *)
(***************************************************************************)
EXTENDS Render, TLAPS, SequenceTheorems, FiniteSetTheorems, WellFoundedInduction

-----------------------------------------------------------------------------
(* The inductive invariant.                                                *)
Parts  == {"header", "data", "end"}
Offers == [chunk : Parts, answer : Answers]

\* The call is a record of its kind, and the writer was offered a sequence of chunks.
CallShape ==
  /\ call \in [op : {"none", "png", "pdf"}, doc : Docs \union {<<>>},
               shot : Shots \union Papers \union {{}}, stage : Stages]
  /\ got \in Seq(Offers) /\ sinkFailed \in BOOLEAN

\* Sink.failed is set exactly by a refusal, and the refusal is the last answer.
Refused    == \E k \in DOMAIN got : got[k].answer = "refused"
RefusalEnds == \A k \in DOMAIN got : got[k].answer = "refused" => k = Len(got)
SinkKnows  == sinkFailed <=> Refused

\* The chunks so far are the file's, and taken.
Taken == \A k \in DOMAIN got : got[k] = [chunk |-> Chunks[k], answer |-> "taken"]

\* The stages before the encoder offer nothing; a dropped encoder has the trailer
\* left, and owes more than that unless a chunk was refused.
FileInv ==
  /\ call.stage \in {"layout", "raster", "draw"} => got = <<>>
  /\ At("encode") => Taken /\ Len(got) < Len(Chunks)
  /\ At("drop") => sinkFailed \/ Len(got) < 2
  /\ At("done") /\ call.op = "png" /\ ~Shot.measure => (rc = "ok" <=> Complete)
  /\ At("done") /\ sinkFailed => rc \in {"refused", "panic"}

IInv == CallShape /\ RefusalEnds /\ SinkKnows /\ FileInv

-----------------------------------------------------------------------------
(* The writer.                                                             *)

\* A file has three chunks.
LEMMA ChunksAre ==
  /\ Len(Chunks) = 3 /\ DOMAIN Chunks = 1 .. 3
  /\ Chunks[1] = "header" /\ Chunks[2] = "data" /\ Chunks[3] = "end"
  BY DEF Chunks

\* Only the last of them is the trailer.
LEMMA NextPart ==
  ASSUME NEW n \in 0 .. 2
  PROVE  Chunks[n + 1] \in Parts /\ (Chunks[n + 1] = "end" <=> n = 2)
<1>1. CASE n = 0
  BY <1>1 DEF Chunks, Parts
<1>2. CASE n = 1
  BY <1>2 DEF Chunks, Parts
<1>3. CASE n = 2
  BY <1>3 DEF Chunks, Parts
<1> QED
  BY <1>1, <1>2, <1>3

\* What was refused or is too short is not complete.
LEMMA NotComplete ==
  ASSUME Refused \/ (Len(got) \in Nat /\ Len(got) < 3)
  PROVE  ~Complete
<1> SUFFICES ASSUME Complete PROVE FALSE
  OBVIOUS
<1>1. Len(got) = 3
  BY ChunksAre DEF Complete
<1>2. PICK k \in DOMAIN got : got[k].answer = "refused"
  BY <1>1 DEF Refused
<1>3. got[k].answer = "taken"
  BY DEF Complete
<1> QED
  BY <1>2, <1>3

\* An offer leaves the sink sticky and its account of the answers right.
LEMMA OfferKeeps ==
  ASSUME CallShape, RefusalEnds, SinkKnows,
         NEW chunk \in Parts, NEW answer \in Answers, Offer(chunk, answer)
  PROVE  /\ got' \in Seq(Offers) /\ sinkFailed' \in BOOLEAN
         /\ RefusalEnds' /\ SinkKnows'
         /\ sinkFailed => got' = got /\ sinkFailed'
         /\ ~sinkFailed => /\ got' = Append(got, [chunk |-> chunk, answer |-> answer])
                           /\ Len(got') = Len(got) + 1
                           /\ sinkFailed' <=> answer = "refused"
<1> DEFINE offer == [chunk |-> chunk, answer |-> answer]
<1>1. offer \in Offers /\ offer.answer = answer
  BY DEF Offers
<1> HIDE DEF offer
<1>2. CASE sinkFailed
  <2>1. got' = got /\ sinkFailed'
    BY <1>2 DEF Offer
  <2> QED
    BY <1>2, <2>1 DEF CallShape, RefusalEnds, SinkKnows, Refused
<1>3. CASE ~sinkFailed
  <2>1. got' = Append(got, offer) /\ (sinkFailed' <=> answer = "refused")
    BY <1>3 DEF Offer, offer
  <2>2. /\ got' \in Seq(Offers) /\ Len(got') = Len(got) + 1 /\ got'[Len(got) + 1] = offer
        /\ \A k \in 1 .. Len(got) : got'[k] = got[k]
    BY <1>1, <2>1 DEF CallShape
  <2>3. \A k \in 1 .. Len(got) : got[k].answer # "refused"
    BY <1>3 DEF SinkKnows, Refused, CallShape
  <2>4. DOMAIN got' = 1 .. (Len(got) + 1) /\ Len(got) \in Nat
    BY <2>2 DEF CallShape
  <2>5. \A k \in DOMAIN got' : got'[k].answer = "refused" => k = Len(got')
    BY <2>2, <2>3, <2>4
  <2>6. Refused' <=> answer = "refused"
    BY <1>1, <2>2, <2>3, <2>4 DEF Refused
  <2>7. sinkFailed' \in BOOLEAN
    BY <1>3 DEF Offer
  <2> QED
    BY <1>3, <2>1, <2>2, <2>5, <2>6, <2>7 DEF RefusalEnds, SinkKnows, offer
<1> QED
  BY <1>2, <1>3 DEF CallShape

-----------------------------------------------------------------------------
(* The steps.                                                              *)
\* Before the first call nothing was offered.
LEMMA InitInv == Init => IInv
<1> SUFFICES ASSUME Init PROVE IInv
  OBVIOUS
<1>1. CallShape
  <2>1. call \in [op : {"none", "png", "pdf"}, doc : Docs \union {<<>>},
                  shot : Shots \union Papers \union {{}}, stage : Stages]
    BY DEF Init, Stages
  <2>2. got \in Seq(Offers) /\ sinkFailed \in BOOLEAN
    <3>1. got = <<>> /\ sinkFailed = FALSE
      BY DEF Init
    <3>2. <<>> \in Seq(Offers)
      OBVIOUS
    <3> QED
      BY <3>1, <3>2
  <2> QED
    BY <2>1, <2>2 DEF CallShape
<1>2. RefusalEnds /\ SinkKnows
  BY DEF Init, RefusalEnds, SinkKnows, Refused
<1>3. FileInv
  BY DEF Init, FileInv, At
<1> QED
  BY <1>1, <1>2, <1>3 DEF IInv

\* A step that offers nothing only moves the call.
LEMMA SameFile ==
  ASSUME IInv, got' = got, sinkFailed' = sinkFailed
  PROVE  /\ got' \in Seq(Offers) /\ sinkFailed' \in BOOLEAN
         /\ RefusalEnds' /\ SinkKnows'
  BY DEF IInv, CallShape, RefusalEnds, SinkKnows, Refused

\* To changes the stage and nothing else of the call.
LEMMA ToStage ==
  ASSUME CallShape, NEW stage \in Stages, To(stage)
  PROVE  /\ call' \in [op : {"none", "png", "pdf"}, doc : Docs \union {<<>>},
                       shot : Shots \union Papers \union {{}}, stage : Stages]
         /\ call'.stage = stage /\ call'.op = call.op /\ call'.shot = call.shot
  BY DEF CallShape, To

\* Before the encoder nothing was offered, so nothing was refused.
LEMMA NothingYet ==
  ASSUME IInv, call.stage \in {"layout", "raster", "draw"}
  PROVE  got = <<>> /\ ~sinkFailed /\ Len(got) = 0
  BY DEF IInv, FileInv, SinkKnows, Refused

\* A call ends without a file: before the encoder, or with a code of its own.
LEMMA EndsEmpty ==
  ASSUME IInv, call.stage \in {"layout", "raster", "draw"}, To("done"),
         got' = got, sinkFailed' = sinkFailed,
         call.op = "png" /\ ~Shot.measure => rc' # "ok"
  PROVE  IInv'
<1>1. got = <<>> /\ ~sinkFailed
  BY NothingYet
<1>2. call'.stage = "done" /\ call'.op = call.op /\ call'.shot = call.shot /\ CallShape'
  BY ToStage, SameFile DEF IInv, CallShape, Stages
<1>3. ~Complete'
  BY <1>1, ChunksAre DEF Complete
<1>4. FileInv'
  BY <1>1, <1>2, <1>3 DEF FileInv, At, Shot
<1> QED
  BY <1>2, <1>4, SameFile DEF IInv

\* A call goes on before the encoder starts.
LEMMA GoesOn ==
  ASSUME IInv, call.stage \in {"layout", "raster", "draw"},
         NEW stage \in {"raster", "draw", "encode"}, To(stage),
         got' = got, sinkFailed' = sinkFailed
  PROVE  IInv'
<1>1. got = <<>> /\ ~sinkFailed
  BY NothingYet
<1>2. call'.stage = stage /\ CallShape'
  BY ToStage, SameFile DEF IInv, CallShape, Stages
<1>3. got' = <<>> /\ Taken' /\ Len(got') < Len(Chunks)
  BY <1>1, ChunksAre DEF Taken
<1>4. FileInv'
  BY <1>2, <1>3 DEF FileInv, At
<1> QED
  BY <1>2, <1>4, SameFile DEF IInv

\* A call starts.
LEMMA CallsStart ==
  ASSUME IInv, NEW d \in Docs, NEW o, (o \in Shots /\ RenderPng(d, o)) \/ (o \in Papers /\ NewLayout(d, o))
  PROVE  IInv'
<1>1. got' = <<>> /\ sinkFailed' = FALSE
  BY DEF RenderPng, NewLayout, Fresh
<1>2. call' \in [op : {"none", "png", "pdf"}, doc : Docs \union {<<>>},
                 shot : Shots \union Papers \union {{}}, stage : Stages]
  BY DEF RenderPng, NewLayout, Stages
<1>3. call'.stage \in {"layout", "done"} /\ rc' # "ok"
  BY DEF RenderPng, NewLayout
<1>4. CallShape' /\ RefusalEnds' /\ SinkKnows'
  <2>1. <<>> \in Seq(Offers)
    OBVIOUS
  <2>2. CallShape'
    BY <1>1, <1>2, <2>1 DEF CallShape
  <2> QED
    BY <1>1, <2>2 DEF RefusalEnds, SinkKnows, Refused
<1>5. ~Complete'
  BY <1>1, ChunksAre DEF Complete
<1>6. FileInv'
  BY <1>1, <1>3, <1>5 DEF FileInv, At
<1> QED
  BY <1>4, <1>6 DEF IInv

\* What an encoder's step does to the call.
LEMMA EncodeEnds ==
  ASSUME NEW answer \in Answers, NEW chunk, chunk = Chunks[Len(got) + 1], Encode(answer)
  PROVE  /\ answer = "taken" /\ chunk = "end"   => Return("ok", ContentHeight)
         /\ answer = "taken" /\ chunk # "end"   => UNCHANGED <<call, rc, reported>>
         /\ answer = "refused" /\ chunk = "end" => Return("encodeFailed", ContentHeight)
         /\ answer = "refused" /\ chunk # "end" => To("drop") /\ UNCHANGED <<rc, reported>>
<1>1. CASE answer = "taken" /\ chunk = "end"
  BY <1>1 DEF Encode
<1>2. CASE answer = "taken" /\ chunk # "end"
  BY <1>2 DEF Encode
<1>3. CASE answer = "refused" /\ chunk = "end"
  BY <1>3 DEF Encode
<1>4. CASE answer = "refused" /\ chunk # "end"
  BY <1>4 DEF Encode
<1> QED
  BY <1>1, <1>2, <1>3, <1>4 DEF Answers

\* The encoder writes a chunk.
LEMMA EncodeStep ==
  ASSUME IInv, NEW answer \in Answers, Encode(answer)
  PROVE  IInv'
<1> DEFINE chunk == Chunks[Len(got) + 1]
<1>1. CallShape /\ RefusalEnds /\ SinkKnows /\ Taken /\ Len(got) \in 0 .. 2
  <2>1. CallShape /\ RefusalEnds /\ SinkKnows /\ FileInv /\ At("encode")
    BY DEF IInv, Encode
  <2>2. Taken /\ Len(got) < 3
    BY <2>1, ChunksAre DEF FileInv
  <2>3. Len(got) \in Nat
    BY <2>1 DEF CallShape
  <2>4. Len(got) \in 0 .. 2
    <3> DEFINE n == Len(got)
    <3>1. n \in Nat /\ n < 3
      BY <2>2, <2>3
    <3> HIDE DEF n
    <3>2. n \in 0 .. 2
      BY <3>1
    <3> QED
      BY <3>2 DEF n
  <2> QED
    BY <2>1, <2>2, <2>4
<1>2. chunk \in Parts /\ (chunk = "end" <=> Len(got) = 2)
  BY <1>1, NextPart
<1>3. Offer(chunk, answer) /\ call.stage = "encode"
  BY DEF Encode, At
<1>7. chunk = Chunks[Len(got) + 1]
  OBVIOUS
<1> HIDE DEF chunk
<1>8. /\ answer = "taken" /\ chunk = "end"   => Return("ok", ContentHeight)
      /\ answer = "taken" /\ chunk # "end"   => UNCHANGED <<call, rc, reported>>
      /\ answer = "refused" /\ chunk = "end" => Return("encodeFailed", ContentHeight)
      /\ answer = "refused" /\ chunk # "end" => To("drop") /\ UNCHANGED <<rc, reported>>
  BY <1>7, EncodeEnds DEF Encode
<1>4. ~sinkFailed
  BY <1>1 DEF Taken, SinkKnows, Refused
<1>5. /\ got' \in Seq(Offers) /\ sinkFailed' \in BOOLEAN /\ RefusalEnds' /\ SinkKnows'
      /\ got' = Append(got, [chunk |-> chunk, answer |-> answer])
      /\ Len(got') = Len(got) + 1 /\ (sinkFailed' <=> answer = "refused")
  BY <1>1, <1>2, <1>3, <1>4, OfferKeeps
<1>6. CASE answer = "taken"
  <2>1. Taken'
    <3> SUFFICES ASSUME NEW k \in DOMAIN got'
                 PROVE  got'[k] = [chunk |-> Chunks[k], answer |-> "taken"]
      BY DEF Taken
    <3>1. k \in 1 .. Len(got) + 1
      BY <1>1, <1>5
    <3>2. CASE k = Len(got) + 1
      BY <1>1, <1>5, <1>6, <3>2 DEF CallShape, chunk
    <3>3. CASE k \in 1 .. Len(got)
      BY <1>1, <1>5, <3>3 DEF CallShape, Taken
    <3> QED
      BY <1>1, <3>1, <3>2, <3>3
  <2>2. CASE chunk = "end"
    <3>1. To("done") /\ rc' = "ok"
      BY <1>5, <1>6, <1>8, <2>2 DEF Return
    <3>2. call'.stage = "done" /\ CallShape'
      BY <1>1, <1>5, <3>1, ToStage DEF CallShape, Stages
    <3>3. Complete'
      <4>1. Len(got') = 3
        <5>1. Len(got) = 2
          BY <1>2, <2>2
        <5>2. Len(got') = Len(got) + 1
          BY <1>5
        <5> QED
          BY <5>1, <5>2
      <4>2. Len(got') = Len(Chunks)
        BY <4>1, ChunksAre
      <4> QED
        BY <2>1, <4>2 DEF Complete, Taken
    <3>4. FileInv'
      BY <1>5, <1>6, <3>1, <3>2, <3>3 DEF FileInv, At
    <3> QED
      BY <1>5, <3>2, <3>4 DEF IInv
  <2>3. CASE chunk # "end"
    <3>1. call' = call /\ rc' = rc
      BY <1>6, <1>8, <2>3
    <3>2. CallShape'
      BY <1>1, <1>5, <3>1 DEF CallShape
    <3>3. FileInv'
      BY <1>1, <1>2, <1>3, <1>5, <2>1, <2>3, <3>1, ChunksAre DEF FileInv, At
    <3> QED
      BY <1>5, <3>2, <3>3 DEF IInv
  <2> QED
    BY <2>2, <2>3
<1>9. CASE answer = "refused"
  <2>1. sinkFailed' /\ ~Complete'
    <3>1. sinkFailed' /\ Refused'
      BY <1>5, <1>9 DEF SinkKnows
    <3>2. (Refused \/ (Len(got) \in Nat /\ Len(got) < 3) => ~Complete)'
      BY NotComplete, PTL
    <3> QED
      BY <3>1, <3>2
  <2>2. CASE chunk = "end"
    <3>1. To("done") /\ rc' = "refused"
      BY <1>8, <1>9, <2>1, <2>2 DEF Return
    <3>2. call'.stage = "done" /\ CallShape'
      BY <1>1, <1>5, <3>1, ToStage DEF CallShape, Stages
    <3>3. FileInv'
      BY <2>1, <3>1, <3>2 DEF FileInv, At
    <3> QED
      BY <1>5, <3>2, <3>3 DEF IInv
  <2>3. CASE chunk # "end"
    <3>1. To("drop")
      BY <1>8, <1>9, <2>3
    <3>2. call'.stage = "drop" /\ CallShape'
      BY <1>1, <1>5, <3>1, ToStage DEF CallShape, Stages
    <3>3. FileInv'
      BY <2>1, <3>2 DEF FileInv, At
    <3> QED
      BY <1>5, <3>2, <3>3 DEF IInv
  <2> QED
    BY <2>2, <2>3
<1> QED
  BY <1>6, <1>9 DEF Answers

\* A trailer offered by an encoder that has not written the image: the file stays
\* incomplete, whatever the writer answers.
LEMMA TrailerOffered ==
  ASSUME IInv, NEW answer \in Answers, Offer("end", answer), To("done"),
         sinkFailed \/ Len(got) < 2,
         rc' # "ok", sinkFailed' => rc' \in {"refused", "panic"}
  PROVE  IInv'
<1>1. CallShape /\ RefusalEnds /\ SinkKnows
  BY DEF IInv
<1>2. /\ got' \in Seq(Offers) /\ sinkFailed' \in BOOLEAN /\ RefusalEnds' /\ SinkKnows'
      /\ sinkFailed => got' = got /\ sinkFailed'
      /\ ~sinkFailed => Len(got') = Len(got) + 1
  BY <1>1, OfferKeeps DEF Parts
<1>3. (Refused \/ (Len(got) \in Nat /\ Len(got) < 3) => ~Complete)'
  BY NotComplete, PTL
<1>4. ~Complete'
  <2>1. CASE sinkFailed
    BY <1>2, <1>3, <2>1 DEF SinkKnows
  <2>2. CASE ~sinkFailed
    <3>1. Len(got) \in Nat /\ Len(got) < 2
      BY <1>1, <2>2 DEF CallShape
    <3> QED
      BY <1>2, <1>3, <2>2, <3>1
  <2> QED
    BY <2>1, <2>2
<1>5. call'.stage = "done" /\ CallShape'
  BY <1>1, <1>2, ToStage DEF CallShape, Stages
<1>6. FileInv'
  BY <1>4, <1>5 DEF FileInv, At
<1> QED
  BY <1>2, <1>5, <1>6 DEF IInv

\* The encoder gives up; what it still owes comes with its drop.
LEMMA DropSteps ==
  ASSUME IInv, EncoderFails \/ \E answer \in Answers : DropEncoder(answer)
  PROVE  IInv'
<1>1. CASE EncoderFails
  <2>1. To("drop") /\ got' = got /\ sinkFailed' = sinkFailed /\ Len(got) < 2
    BY <1>1 DEF EncoderFails, Compressing
  <2>2. call'.stage = "drop" /\ CallShape'
    BY <2>1, ToStage, SameFile DEF IInv, CallShape, Stages
  <2>3. FileInv'
    BY <2>1, <2>2 DEF FileInv, At
  <2> QED
    BY <2>1, <2>2, <2>3, SameFile DEF IInv
<1>2. ASSUME NEW answer \in Answers, DropEncoder(answer) PROVE IInv'
  <2>1. /\ Offer("end", answer) /\ To("done") /\ At("drop")
        /\ rc' = IF sinkFailed' THEN "refused" ELSE "encodeFailed"
    BY <1>2 DEF DropEncoder, Return
  <2>2. sinkFailed \/ Len(got) < 2
    BY <2>1 DEF IInv, FileInv
  <2> QED
    BY <2>1, <2>2, TrailerOffered
<1> QED
  BY <1>1, <1>2

\* A panic ends the call where it is.
LEMMA PanicStep ==
  ASSUME IInv, NEW answer \in Answers, Panic(answer)
  PROVE  IInv'
<1>1. To("done") /\ rc' = "panic"
  BY DEF Panic
<1>2. CASE At("encode")
  <2>1. Offer("end", answer) /\ Len(got) < 2
    BY <1>2 DEF Panic, Compressing, At
  <2> QED
    BY <1>1, <2>1, TrailerOffered
<1>3. CASE ~At("encode")
  <2>1. call.stage \in {"layout", "raster", "draw"} /\ got' = got /\ sinkFailed' = sinkFailed
    BY <1>3 DEF Panic, Compressing
  <2> QED
    BY <1>1, <2>1, EndsEmpty
<1> QED
  BY <1>2, <1>3

\* The steps before the encoder and the calls that write nothing.
LEMMA OtherSteps ==
  ASSUME IInv, PlaceBlocks \/ MakeRaster \/ DrawBlock \/ Crop \/ ExportLayout \/ NewRenderer
  PROVE  IInv'
<1>1. got' = got /\ sinkFailed' = sinkFailed
  BY DEF PlaceBlocks, MakeRaster, DrawBlock, Crop, ExportLayout, NewRenderer
<1>2. CASE PlaceBlocks
  <2>1. call.stage = "layout" /\ ~sinkFailed
    BY <1>2, NothingYet DEF PlaceBlocks, At
  <2>2. CASE Shot.measure
    <3>1. To("done")
      BY <1>2, <2>2 DEF PlaceBlocks, Return
    <3> QED
      BY <1>1, <2>1, <2>2, <3>1, EndsEmpty
  <2>3. CASE ~Shot.measure
    BY <1>1, <1>2, <2>1, <2>3, GoesOn DEF PlaceBlocks
  <2> QED
    BY <2>2, <2>3
<1>3. CASE MakeRaster
  <2>1. call.stage = "raster" /\ ~sinkFailed
    BY <1>3, NothingYet DEF MakeRaster, At
  <2>2. CASE To("draw")
    BY <1>1, <2>1, <2>2, GoesOn
  <2>3. CASE Return("noRaster", ContentHeight)
    BY <1>1, <2>1, <2>3, EndsEmpty DEF Return
  <2> QED
    BY <1>3, <2>2, <2>3 DEF MakeRaster
<1>4. CASE DrawBlock
  <2>1. call.stage = "draw" /\ call' = call /\ rc' = rc
    BY <1>4 DEF DrawBlock, At
  <2>2. CallShape'
    BY <1>1, <2>1, SameFile DEF IInv, CallShape
  <2>3. FileInv'
    BY <1>1, <2>1 DEF IInv, FileInv, At
  <2> QED
    BY <1>1, <2>2, <2>3, SameFile DEF IInv
<1>5. CASE Crop
  <2>1. call.stage = "draw" /\ To("encode")
    BY <1>5 DEF Crop, At
  <2> QED
    BY <1>1, <2>1, GoesOn
<1>6. CASE ExportLayout
  <2>1. call.stage = "layout" /\ call.op = "pdf" /\ To("done")
    BY <1>6 DEF ExportLayout, At
  <2> QED
    BY <1>1, <2>1, EndsEmpty
<1>7. CASE NewRenderer
  <2>1. call' = call /\ rc' = rc
    BY <1>7 DEF NewRenderer
  <2> QED
    BY <1>1, <2>1, SameFile
       DEF IInv, CallShape, FileInv, At, Shot, Complete, Taken
<1> QED
  BY <1>2, <1>3, <1>4, <1>5, <1>6, <1>7

-----------------------------------------------------------------------------
(* The theorems.                                                           *)

\* Every step keeps the invariant.
LEMMA StepKeeps == IInv /\ [Next]_vars => IInv'
<1> SUFFICES ASSUME IInv, [Next]_vars PROVE IInv'
  OBVIOUS
<1>1. CASE UNCHANGED vars
  <2>1. got' = got /\ sinkFailed' = sinkFailed /\ call' = call /\ rc' = rc
    BY <1>1 DEF vars
  <2> QED
    BY <2>1, SameFile DEF IInv, CallShape, FileInv, At, Shot, Complete, Taken
<1>2. CASE Next
  BY <1>2, CallsStart, OtherSteps, EncodeStep, DropSteps, PanicStep DEF Next
<1> QED
  BY <1>1, <1>2

\* What the writer was offered at each stage of a call (Renderer::render, Sink).
THEOREM OfferInvariant == Spec => []IInv
  BY InitInv, StepKeeps, PTL DEF Spec

\* RC_OK of lp_render_png means the whole file was taken, in order; nothing is
\* offered after a refusal, and a refusal is what the caller is told.
THEOREM PngComplete == Spec => []OkMeansComplete
<1>1. IInv => OkMeansComplete
  BY DEF IInv, FileInv, RefusalEnds, OkMeansComplete
<1> QED
  BY <1>1, OfferInvariant, PTL

-----------------------------------------------------------------------------
(* Lengths.                                                                *)

\* Half of it, rounded up or down.
LEMMA Halves ==
  ASSUME NEW p \in Int
  PROVE  /\ CeilDiv(p, 2) \in Int /\ p <= 2 * CeilDiv(p, 2) /\ 2 * CeilDiv(p, 2) <= p + 1
         /\ p \div 2 \in Int /\ 2 * (p \div 2) <= p /\ p <= 2 * (p \div 2) + 1
<1> DEFINE q == (-p) \div 2
<1>1. q \in Int /\ 2 * q <= -p /\ -p <= 2 * q + 1
  OBVIOUS
<1>2. CeilDiv(p, 2) = -q
  BY DEF CeilDiv
<1> HIDE DEF q
<1>3. p \div 2 \in Int /\ 2 * (p \div 2) <= p /\ p <= 2 * (p \div 2) + 1
  OBVIOUS
<1> QED
  BY <1>1, <1>2, <1>3

\* CSS px in device px: v * s half pixels, rounded up.
LEMMA Devices ==
  ASSUME NEW v \in Int, NEW s \in Int
  PROVE  /\ v * s \in Int /\ Device(v, s) \in Int
         /\ v * s <= 2 * Device(v, s) /\ 2 * Device(v, s) <= v * s + 1
<1> DEFINE p == v * s
<1>1. p \in Int
  OBVIOUS
<1>2. Device(v, s) = CeilDiv(p, 2)
  BY DEF Device
<1> HIDE DEF p
<1>3. Device(v, s) \in Int /\ p <= 2 * Device(v, s) /\ 2 * Device(v, s) <= p + 1
  BY <1>1, <1>2, Halves
<1> QED
  BY <1>1, <1>3 DEF p

\* Something rounded up, for a positive divisor.
LEMMA CeilIs ==
  ASSUME NEW a \in Int, NEW b \in Int, b > 0
  PROVE  CeilDiv(a, b) \in Int /\ (a >= 0 => CeilDiv(a, b) >= 0)
<1> DEFINE q == (-a) \div b
<1>1. q \in Int /\ (-a >= 0 \/ q <= 0)
  <2>1. q \in Int
    OBVIOUS
  <2>2. b * q <= -a
    OBVIOUS
  <2> HIDE DEF q
  <2>3. -a < 0 => q <= 0
    <3>1. SUFFICES ASSUME -a < 0, q >= 1 PROVE FALSE
      BY <2>1
    <3>2. b * q >= b /\ b * q \in Int
      BY <2>1, <3>1
    <3> QED
      BY <2>2, <3>1, <3>2
  <2> QED
    BY <2>1, <2>3
<1>2. CeilDiv(a, b) = -q
  BY DEF CeilDiv
<1>3. a = 0 => q = 0
  OBVIOUS
<1> HIDE DEF q
<1> QED
  BY <1>1, <1>2, <1>3

\* What is a multiple of something larger is larger.
LEMMA Scales ==
  ASSUME NEW a \in Int, NEW b \in Int, NEW s \in Int, a <= b, s >= 0
  PROVE  a * s <= b * s
<1>1. (b - a) * s >= 0
  OBVIOUS
<1>2. (b - a) * s = b * s - a * s
  OBVIOUS
<1> QED
  BY <1>1, <1>2

\* A share of a whole fits into it.
LEMMA Shares ==
  ASSUME NEW p \in Nat, NEW w \in Nat, w >= 1
  PROVE  /\ p \div w \in Nat /\ \A h \in Nat : h <= p \div w => w * h <= p
         /\ \A h \in Nat : w * h <= p => h <= p \div w
<1> DEFINE q == p \div w
<1>1. q \in Int /\ w * q <= p /\ p < w * q + w
  OBVIOUS
<1>2. q \in Nat
  <2> HIDE DEF q
  <2> SUFFICES ASSUME q <= -1 PROVE FALSE
    BY <1>1
  <2>1. w * q <= -w
    BY <1>1
  <2> QED
    BY <1>1, <2>1
<1> HIDE DEF q
<1>3. ASSUME NEW h \in Nat, h <= q PROVE w * h <= p
  <2>1. h * w <= q * w
    BY <1>1, <1>3, Scales
  <2>2. h * w = w * h /\ q * w = w * q
    BY <1>1
  <2>3. w * h \in Int /\ w * q \in Int
    BY <1>1
  <2> QED
    BY <1>1, <2>1, <2>2, <2>3
<1>4. ASSUME NEW h \in Nat, w * h <= p PROVE h <= q
  <2> SUFFICES ASSUME q + 1 <= h PROVE FALSE
    BY <1>1
  <2>1. (q + 1) * w <= h * w
    BY <1>1, Scales
  <2>2. (q + 1) * w = w * q + w /\ h * w = w * h
    BY <1>1
  <2>3. w * h \in Int /\ w * q \in Int
    BY <1>1
  <2> QED
    BY <1>1, <1>4, <2>1, <2>2, <2>3
<1> QED
  BY <1>2, <1>3, <1>4 DEF q

\* What the two minima and maxima return.
LEMMA Bounds ==
  ASSUME NEW a \in Int, NEW b \in Int
  PROVE  /\ Larger(a, b) \in {a, b} /\ Larger(a, b) >= a /\ Larger(a, b) >= b
         /\ Smaller(a, b) \in {a, b} /\ Smaller(a, b) <= a /\ Smaller(a, b) <= b
         /\ Larger(a, b) \in Int /\ Smaller(a, b) \in Int
  BY DEF Larger, Smaller

-----------------------------------------------------------------------------
(* Recursive functions.                                                    *)

\* What holds of 0 and, with n, of n + 1 holds of every number.
LEMMA SetInduction ==
  ASSUME NEW S, 0 \in S, \A n \in Nat : n \in S => n + 1 \in S
  PROVE  Nat \subseteq S
<1> DEFINE Below(n) == 0 .. (n - 1)
           O == StrictSubsetOrdering(Nat)
           F == FiniteSubsetsOf(Nat)
           Missing == Nat \ S
           T == {Below(n) : n \in Missing}
<1> SUFFICES ASSUME Missing # {} PROVE FALSE
  OBVIOUS
<1>1. IsWellFoundedOn(O, F)
  BY FS_StrictSubsetOrderingWellFounded
<1>2. \A n \in Nat : Below(n) \in F
  <2>1. TAKE n \in Nat
  <2>2. IsFiniteSet(0 .. (n - 1))
    BY FS_Interval
  <2>3. 0 .. (n - 1) \in SUBSET Nat
    OBVIOUS
  <2> QED
    BY <2>2, <2>3 DEF FiniteSubsetsOf
<1>3. T \subseteq F /\ T # {}
  BY <1>2
<1>4. PICK b \in T : \A c \in T : ~(<<c, b>> \in O)
  <2> HIDE DEF T, O, F
  <2> QED
    BY <1>1, <1>3, WFMin, Zenon
<1>5. PICK x \in Missing : b = Below(x)
  BY <1>4
<1>6. x \in Nat /\ x # 0 /\ x - 1 \in Nat
  BY <1>5
<1>7. (x - 1) + 1 = x
  BY <1>6
<1>8. x - 1 \notin S
  BY <1>5, <1>6, <1>7
<1>9. Below(x - 1) \in T
  BY <1>6, <1>8
<1>10. /\ Below(x - 1) \subseteq Below(x)
       /\ x - 1 \in Below(x)
       /\ x - 1 \notin Below(x - 1)
       /\ Below(x) \in SUBSET Nat
       /\ Below(x - 1) \in SUBSET Nat
  BY <1>6
<1>11. <<Below(x - 1), Below(x)>> \in O
  <2> HIDE DEF Below
  <2>1. Below(x - 1) # Below(x)
    BY <1>10
  <2> QED
    BY <1>10, <2>1 DEF StrictSubsetOrdering
<1> HIDE DEF T, O, Below
<1> QED
  BY <1>4, <1>5, <1>9, <1>11, Zenon

\* The glyphs of the first j spans of a block.
NextGlyphs(b, f, j) ==
  IF j = 0 THEN <<>>
  ELSE f[j - 1] \o GlyphsOf(b, b.spans[j].flags, b.spans[j].text, Len(f[j - 1]))
GlyphsUpTo(b) ==
  CHOOSE f : f = [j \in 0 .. Len(b.spans) |-> NextGlyphs(b, f, j)]

\* There is such a function.
LEMMA GlyphsRecur ==
  ASSUME NEW b, Len(b.spans) \in Nat
  PROVE  /\ GlyphsUpTo(b) = [j \in 0 .. Len(b.spans) |-> NextGlyphs(b, GlyphsUpTo(b), j)]
         /\ BlockGlyphs(b) = GlyphsUpTo(b)[Len(b.spans)]
<1> DEFINE Of(f, m) == f = [j \in 0 .. m |-> NextGlyphs(b, f, j)]
           S == {m \in Nat : \E f : Of(f, m)}
<1>1. 0 \in S
  <2> DEFINE f == [j \in 0 .. 0 |-> <<>>]
  <2>1. f = [j \in 0 .. 0 |-> NextGlyphs(b, f, j)]
    BY DEF NextGlyphs
  <2> QED
    BY <2>1
<1>2. ASSUME NEW m \in Nat, m \in S PROVE m + 1 \in S
  <2>1. PICK f : Of(f, m)
    BY <1>2
  <2> DEFINE g == [j \in 0 .. (m + 1) |-> IF j = m + 1 THEN NextGlyphs(b, f, j) ELSE f[j]]
  <2>2. \A j \in 0 .. m : f[j] = NextGlyphs(b, f, j)
    BY <2>1
  <2>3. ASSUME NEW j \in 0 .. (m + 1) PROVE g[j] = NextGlyphs(b, g, j)
    <3>1. j # 0 => j - 1 \in 0 .. m /\ g[j - 1] = f[j - 1]
      OBVIOUS
    <3>2. NextGlyphs(b, g, j) = NextGlyphs(b, f, j)
      <4> HIDE DEF g
      <4> QED
        BY <3>1, Zenon DEF NextGlyphs
    <3>3. j # m + 1 => j \in 0 .. m
      OBVIOUS
    <3> QED
      BY <2>2, <3>2, <3>3
  <2>4. g = [j \in 0 .. (m + 1) |-> g[j]]
    OBVIOUS
  <2> HIDE DEF g
  <2>5. g = [j \in 0 .. (m + 1) |-> NextGlyphs(b, g, j)]
    BY <2>3, <2>4
  <2> QED
    BY <2>5
<1>3. \E f : Of(f, Len(b.spans))
  <2>1. Nat \subseteq S
    <3> HIDE DEF S
    <3> QED
      BY <1>1, <1>2, SetInduction
  <2> QED
    BY <2>1
<1>4. Of(GlyphsUpTo(b), Len(b.spans))
  BY <1>3, Zenon DEF GlyphsUpTo
<1>5. BlockGlyphs(b) = GlyphsUpTo(b)[Len(b.spans)]
  BY DEF BlockGlyphs, GlyphsUpTo, NextGlyphs
<1> QED
  BY <1>4, <1>5

-----------------------------------------------------------------------------
(* The layout.                                                             *)
Faces  == [mono : BOOLEAN, bold : BOOLEAN]
Glyphs == [font : Faces, char : Chars, style : SUBSET Styles, at : Int]

\* The glyphs of a text.
LEMMA GlyphsAre ==
  ASSUME NEW b, NEW flags \in SUBSET Styles, NEW text \in Seq(Chars), NEW from \in Nat
  PROVE  GlyphsOf(b, flags, text, from) \in Seq(Glyphs)
<1>1. FontOf(b, flags) \in Faces
  BY DEF FontOf, Faces
<1> DEFINE g(k) == [font |-> FontOf(b, flags), char |-> text[k], style |-> flags, at |-> from + k - 1]
<1>2. ASSUME NEW k \in 1 .. Len(text) PROVE g(k) \in Glyphs
  <2>1. text[k] \in Chars /\ from + k - 1 \in Int
    OBVIOUS
  <2> QED
    BY <1>1, <2>1 DEF Glyphs
<1>3. GlyphsOf(b, flags, text, from) = [k \in 1 .. Len(text) |-> g(k)]
  BY DEF GlyphsOf
<1>4. Len(text) \in Nat
  OBVIOUS
<1> HIDE DEF g
<1> QED
  BY <1>2, <1>3, <1>4, IsASeq

\* The block's text is UTF-8.
Spelt(b) == \A j \in DOMAIN b.spans : b.spans[j].text # BadText

\* The glyphs of a block: its spans, and a line break where one is.
LEMMA BlockGlyphsAre ==
  ASSUME NEW b \in LpBlock, Spelt(b)
  PROVE  BlockGlyphs(b) \in Seq(Glyphs)
<1> DEFINE n == Len(b.spans)
           f == GlyphsUpTo(b)
           S == {m \in Nat : m <= n => f[m] \in Seq(Glyphs)}
<1>1. b.spans \in Seq(LpSpan) /\ n \in Nat /\ DOMAIN b.spans = 1 .. n
  BY DEF LpBlock
<1>2. f = [j \in 0 .. n |-> NextGlyphs(b, f, j)] /\ BlockGlyphs(b) = f[n]
  BY <1>1, GlyphsRecur
<1>3. \A j \in 0 .. n : f[j] = NextGlyphs(b, f, j)
  <2> HIDE DEF f, n
  <2> QED
    BY <1>2
<1> HIDE DEF f, n
<1>4. 0 \in S
  <2>1. f[0] = <<>>
    BY <1>1, <1>3 DEF NextGlyphs
  <2>2. <<>> \in Seq(Glyphs)
    OBVIOUS
  <2>3. f[0] \in Seq(Glyphs)
    BY <2>1, <2>2, Zenon
  <2> QED
    BY <2>3
<1>5. ASSUME NEW m \in Nat, m \in S PROVE m + 1 \in S
  <2> SUFFICES ASSUME m + 1 <= n PROVE f[m + 1] \in Seq(Glyphs)
    OBVIOUS
  <2> DEFINE sp == b.spans[m + 1]
  <2>1. f[m] \in Seq(Glyphs) /\ m + 1 \in 1 .. n
    BY <1>1, <1>5
  <2>2. sp \in LpSpan /\ sp.text # BadText
    BY <1>1, <2>1 DEF Spelt
  <2>3. sp.flags \in SUBSET Styles /\ sp.text \in Seq(Chars)
    BY <2>2 DEF LpSpan, Text
  <2> HIDE DEF sp
  <2>4. GlyphsOf(b, sp.flags, sp.text, Len(f[m])) \in Seq(Glyphs)
    BY <2>1, <2>3, GlyphsAre
  <2>5. f[m + 1] = f[m] \o GlyphsOf(b, sp.flags, sp.text, Len(f[m]))
    <3>1. f[m + 1] = NextGlyphs(b, f, m + 1) /\ m + 1 # 0 /\ (m + 1) - 1 = m
      BY <1>1, <1>3, <2>1
    <3> QED
      BY <3>1, Zenon DEF NextGlyphs, sp
  <2> QED
    BY <2>1, <2>4, <2>5
<1>6. n \in S
  <2> HIDE DEF S
  <2> QED
    BY <1>1, <1>4, <1>5, SetInduction
<1> QED
  BY <1>1, <1>2, <1>6

\* A marker is spelt too: one that is not UTF-8 is none.
LEMMA MarkerGlyphsAre ==
  ASSUME NEW b \in LpBlock
  PROVE  MarkerGlyphs(b) \in Seq(Glyphs)
<1>1. MarkerOf(b) \in Seq(Chars)
  BY DEF MarkerOf, LpBlock, Text
<1>2. {} \in SUBSET Styles /\ 0 \in Nat
  OBVIOUS
<1> QED
  BY <1>1, <1>2, GlyphsAre DEF MarkerGlyphs

\* The lines of a text are made of its glyphs.
LEMMA LinesAre ==
  ASSUME NEW gs \in Seq(Glyphs), NEW avail \in Int
  PROVE  BreakLines(gs, avail) \in Seq(Seq(Glyphs))
<1> DEFINE per == Larger(Larger(avail, 1) \div CharW, 1)
           last(k) == Smaller(k * per, Len(gs))
           line(k) == SubSeq(gs, (k - 1) * per + 1, last(k))
           n == CeilDiv(Len(gs), per)
<1>1. per \in Int /\ per >= 1
  <2>1. CharW \in Nat /\ CharW >= 1 /\ Larger(avail, 1) \in Int
    BY LayoutConstants, Bounds DEF LayoutConstants
  <2>2. Larger(avail, 1) \div CharW \in Int
    BY <2>1
  <2> QED
    BY <2>2, Bounds
<1>2. BreakLines(gs, avail) = [k \in 1 .. n |-> line(k)]
  BY DEF BreakLines
<1>3. n \in Nat
  BY <1>1, CeilIs
<1>4. ASSUME NEW k \in 1 .. n PROVE line(k) \in Seq(Glyphs)
  <2>1. k \in Int /\ k >= 1 /\ Len(gs) \in Nat
    BY <1>3
  <2> HIDE DEF n, per
  <2>2. k * per \in Int /\ (k - 1) * per \in Int /\ (k - 1) * per >= 0
    BY <1>1, <2>1
  <2>3. last(k) \in Int /\ last(k) <= Len(gs)
    BY <2>1, <2>2, Bounds
  <2>4. \A i \in ((k - 1) * per + 1) .. last(k) : gs[i] \in Glyphs
    <3> HIDE DEF last
    <3>1. TAKE i \in ((k - 1) * per + 1) .. last(k)
    <3>2. i \in 1 .. Len(gs)
      BY <2>1, <2>2, <2>3
    <3> QED
      BY <3>2
  <2>5. (k - 1) * per + 1 \in Int
    BY <2>2
  <2> HIDE DEF last
  <2> QED
    BY <2>3, <2>4, <2>5, SubSeqProperties
<1> HIDE DEF n, line
<1> QED
  BY <1>2, <1>3, <1>4, IsASeq

\* The lines, the extent and the padding of a block.
LEMMA SizesAre ==
  ASSUME NEW b \in LpBlock, Spelt(b), NEW width \in Nat, NEW margin \in Nat,
         NEW s \in Int, s >= 1
  PROVE  /\ LinesOf(b, width, margin) \in Seq(Seq(Glyphs))
         /\ Extent(b, width, margin, s) \in Int /\ Pad(b) * s \in Int
         /\ 0 <= Pad(b) * s /\ Pad(b) * s <= Extent(b, width, margin, s)
<1> DEFINE h == LineHeight(b, s)
           ls == LinesOf(b, width, margin)
<1>1. ls \in Seq(Seq(Glyphs))
  <2>1. CASE b.kind = "rule"
    <3>1. ls = <<>>
      BY <2>1 DEF LinesOf
    <3>2. <<>> \in Seq(Seq(Glyphs))
      OBVIOUS
    <3> QED
      BY <3>1, <3>2, Zenon
  <2>2. CASE b.kind # "rule"
    <3> DEFINE avail == Larger(width - 2 * margin, 1) - Indent(b) - 2 * Pad(b)
    <3>1. b.list \in Nat /\ b.quote \in Nat
      BY DEF LpBlock
    <3>2. Indent(b) \in Int
      BY <3>1 DEF Indent, LIST_INDENT, QUOTE_INDENT
    <3>3. Pad(b) \in Int
      BY DEF Pad, PRE_PAD
    <3>4. Larger(width - 2 * margin, 1) \in Int
      BY Bounds
    <3>5. avail \in Int
      BY <3>2, <3>3, <3>4
    <3>6. ls = BreakLines(BlockGlyphs(b), avail)
      BY <2>2 DEF LinesOf
    <3> HIDE DEF avail, ls
    <3> QED
      BY <3>5, <3>6, BlockGlyphsAre, LinesAre
  <2> QED
    BY <2>1, <2>2
<1>2. h \in Int /\ h >= 0
  <2>1. LineTenths(b) \in {400, 300, 250, 220, 200, 196, 224}
    BY DEF LineTenths
  <2>2. LineTenths(b) * s \in Int /\ LineTenths(b) * s >= 0
    BY <2>1
  <2> QED
    BY <2>2 DEF LineHeight
<1>3. Pad(b) * s \in Int /\ 0 <= Pad(b) * s /\ 2 * Pad(b) * s = 2 * (Pad(b) * s)
      /\ (b.kind = "rule" => Pad(b) * s = 0)
  <2>1. CASE b.kind = "pre"
    BY <2>1 DEF Pad, PRE_PAD
  <2>2. CASE b.kind # "pre"
    BY <2>2 DEF Pad
  <2> QED
    BY <2>1, <2>2
<1>4. TextHeight(b, width, margin, s) = Len(ls) * h
  BY DEF TextHeight
<1>5. TextHeight(b, width, margin, s) \in Int /\ TextHeight(b, width, margin, s) >= 0
  <2>1. Len(ls) \in Nat
    BY <1>1
  <2> HIDE DEF ls, h
  <2> QED
    BY <1>2, <1>4, <2>1
<1>6. Extent(b, width, margin, s) =
        IF b.kind = "rule" THEN s ELSE TextHeight(b, width, margin, s) + 2 * (Pad(b) * s)
  BY <1>3 DEF Extent
<1> HIDE DEF ls, h
<1>7. CASE b.kind = "rule"
  BY <1>1, <1>3, <1>6, <1>7 DEF ls
<1>8. CASE b.kind # "rule"
  BY <1>1, <1>3, <1>5, <1>6, <1>8 DEF ls
<1> QED
  BY <1>7, <1>8

\* Where the i-th block starts, from where the blocks before it do.
NextTop(doc, width, margin, s, f, i) ==
  IF i = 1 THEN margin * s
  ELSE f[i - 1] + Extent(doc[i - 1], width, margin, s)
         + Larger(After(doc[i - 1]), Before(doc[i])) * s

\* There are such tops.
LEMMA TopsRecur ==
  ASSUME NEW doc, Len(doc) \in Nat, NEW width, NEW margin, NEW s
  PROVE  Tops(doc, width, margin, s)
           = [i \in 1 .. Len(doc) |->
                NextTop(doc, width, margin, s, Tops(doc, width, margin, s), i)]
<1> DEFINE Next1(f, i) == NextTop(doc, width, margin, s, f, i)
           Of(f, m) == f = [i \in 1 .. m |-> Next1(f, i)]
           S == {m \in Nat : \E f : Of(f, m)}
           t == CHOOSE f : Of(f, Len(doc))
<1>1. 0 \in S
  <2> DEFINE f == [i \in 1 .. 0 |-> 0]
  <2>1. f = [i \in 1 .. 0 |-> Next1(f, i)]
    BY DEF NextTop
  <2> QED
    BY <2>1
<1>2. ASSUME NEW m \in Nat, m \in S PROVE m + 1 \in S
  <2>1. PICK f : Of(f, m)
    BY <1>2
  <2> DEFINE g == [i \in 1 .. (m + 1) |-> IF i = m + 1 THEN Next1(f, i) ELSE f[i]]
  <2>2. \A i \in 1 .. m : f[i] = Next1(f, i)
    BY <2>1
  <2>3. ASSUME NEW i \in 1 .. (m + 1) PROVE g[i] = Next1(g, i)
    <3>1. i # 1 => i - 1 \in 1 .. m /\ g[i - 1] = f[i - 1]
      OBVIOUS
    <3>2. Next1(g, i) = Next1(f, i)
      <4> HIDE DEF g
      <4> QED
        BY <3>1, Zenon DEF NextTop
    <3>3. i # m + 1 => i \in 1 .. m
      OBVIOUS
    <3> QED
      BY <2>2, <3>2, <3>3
  <2>4. g = [i \in 1 .. (m + 1) |-> g[i]]
    OBVIOUS
  <2> HIDE DEF g
  <2>5. g = [i \in 1 .. (m + 1) |-> Next1(g, i)]
    BY <2>3, <2>4
  <2> QED
    BY <2>5
<1>3. \E f : Of(f, Len(doc))
  <2>1. Nat \subseteq S
    <3> HIDE DEF S
    <3> QED
      BY <1>1, <1>2, SetInduction
  <2> QED
    BY <2>1
<1>4. Of(t, Len(doc))
  <2> HIDE DEF Of
  <2> QED
    BY <1>3, Zenon
<1>5. t = Tops(doc, width, margin, s)
  BY DEF Tops, NextTop
<1> HIDE DEF t
<1> QED
  BY <1>4, <1>5

\* Each block starts below the one before it, and what it shows below what that shows.
LEMMA TopsDescend ==
  ASSUME NEW doc \in Seq(LpBlock), Utf8(doc), NEW width \in Nat, NEW margin \in Nat,
         NEW s \in Int, s >= 1
  PROVE  LET top == Tops(doc, width, margin, s)
             y(i) == top[i] + Pad(doc[i]) * s
         IN /\ \A i \in 1 .. Len(doc) : top[i] \in Nat /\ y(i) \in Nat
            /\ \A i, j \in 1 .. Len(doc) : i <= j => y(i) <= y(j)
<1> DEFINE top == Tops(doc, width, margin, s)
           y(i) == top[i] + Pad(doc[i]) * s
           n == Len(doc)
           ext(i) == Extent(doc[i], width, margin, s)
           pad(i) == Pad(doc[i]) * s
           gap(i) == Larger(After(doc[i - 1]), Before(doc[i])) * s
<1>1. n \in Nat /\ \A i \in 1 .. n : doc[i] \in LpBlock /\ Spelt(doc[i])
  BY DEF Utf8, Spelt
<1>2. \A i \in 1 .. n : ext(i) \in Int /\ pad(i) \in Int /\ 0 <= pad(i) /\ pad(i) <= ext(i)
  BY <1>1, SizesAre
<1>3. \A i \in 1 .. n : gap(i) \in Int /\ gap(i) >= 0
  <2> TAKE i \in 1 .. n
  <2>1. After(doc[i - 1]) \in {4, 10, 12} /\ Before(doc[i]) \in {4, 12, 20}
    BY DEF After, Before
  <2>2. Larger(After(doc[i - 1]), Before(doc[i])) \in Nat
    BY <2>1 DEF Larger
  <2> QED
    BY <2>2
<1>4. \A i \in 1 .. n : top[i] = IF i = 1 THEN margin * s ELSE top[i - 1] + ext(i - 1) + gap(i)
  <2> DEFINE nt(i) == NextTop(doc, width, margin, s, top, i)
  <2>1. top = [i \in 1 .. n |-> nt(i)]
    BY <1>1, TopsRecur
  <2>2. \A i \in 1 .. n : top[i] = nt(i)
    <3> HIDE DEF top, nt
    <3> QED
      BY <2>1
  <2> HIDE DEF top
  <2> QED
    BY <2>2 DEF NextTop
<1>5. margin * s \in Nat
  OBVIOUS
<1> HIDE DEF top, ext, pad, gap, n
<1> DEFINE S == {m \in Nat : m + 1 <= n => top[m + 1] \in Nat}
<1>6. \A i \in 1 .. n : top[i] \in Nat
  <2>1. 0 \in S
    BY <1>4, <1>5
  <2>2. ASSUME NEW m \in Nat, m \in S PROVE m + 1 \in S
    <3> SUFFICES ASSUME m + 2 <= n PROVE top[m + 2] \in Nat
      OBVIOUS
    <3>1. m + 1 \in 1 .. n /\ m + 2 \in 1 .. n /\ top[m + 1] \in Nat
      BY <1>1, <2>2
    <3>2. top[m + 2] = top[m + 1] + ext(m + 1) + gap(m + 2)
      BY <1>4, <3>1
    <3> QED
      BY <1>2, <1>3, <3>1, <3>2
  <2>3. Nat \subseteq S
    <3> HIDE DEF S
    <3> QED
      BY <2>1, <2>2, SetInduction
  <2> TAKE i \in 1 .. n
  <2>4. i - 1 \in Nat /\ (i - 1) + 1 = i /\ i <= n
    BY <1>1
  <2>5. i - 1 \in S
    BY <2>3, <2>4
  <2> QED
    BY <2>4, <2>5
<1>7. \A i \in 1 .. n : y(i) = top[i] + pad(i) /\ y(i) \in Nat
  <2>1. \A i \in 1 .. n : y(i) = top[i] + pad(i)
    BY DEF pad
  <2> HIDE DEF y
  <2> QED
    BY <1>2, <1>6, <2>1
<1> HIDE DEF y
<1>8. ASSUME NEW i \in 1 .. n, i + 1 <= n PROVE y(i) <= y(i + 1)
  <2>1. i + 1 \in 1 .. n /\ i + 1 # 1 /\ (i + 1) - 1 = i
    BY <1>1, <1>8
  <2>2. top[i + 1] = top[i] + ext(i) + gap(i + 1)
    BY <1>4, <2>1
  <2>3. /\ y(i) = top[i] + pad(i) /\ pad(i) \in Int /\ ext(i) \in Int /\ pad(i) <= ext(i)
        /\ top[i] \in Nat
    BY <1>2, <1>6, <1>7
  <2>4. /\ y(i + 1) = top[i + 1] + pad(i + 1) /\ pad(i + 1) \in Int /\ pad(i + 1) >= 0
        /\ gap(i + 1) \in Int /\ gap(i + 1) >= 0
    BY <1>2, <1>3, <1>7, <2>1
  <2> QED
    BY <2>2, <2>3, <2>4
<1> DEFINE D == {m \in Nat : \A i \in 1 .. n : i + m <= n => y(i) <= y(i + m)}
<1>9. \A i, j \in 1 .. n : i <= j => y(i) <= y(j)
  <2>1. 0 \in D
    BY <1>1, <1>7
  <2>2. ASSUME NEW m \in Nat, m \in D PROVE m + 1 \in D
    <3> SUFFICES ASSUME NEW i \in 1 .. n, i + (m + 1) <= n PROVE y(i) <= y(i + (m + 1))
      OBVIOUS
    <3>1. i + m \in 1 .. n /\ (i + m) + 1 <= n /\ (i + m) + 1 = i + (m + 1) /\ i + (m + 1) \in 1 .. n
      BY <1>1
    <3>2. y(i) <= y(i + m)
      BY <2>2, <3>1
    <3>3. y(i + m) <= y(i + (m + 1))
      BY <1>8, <3>1
    <3>4. y(i) \in Nat /\ y(i + m) \in Nat /\ y(i + (m + 1)) \in Nat
      BY <1>7, <3>1
    <3> QED
      BY <3>2, <3>3, <3>4
  <2>3. Nat \subseteq D
    <3> HIDE DEF D
    <3> QED
      BY <2>1, <2>2, SetInduction
  <2> TAKE i, j \in 1 .. n
  <2> SUFFICES ASSUME i <= j PROVE y(i) <= y(j)
    OBVIOUS
  <2>4. j - i \in Nat /\ i + (j - i) = j /\ j <= n
    BY <1>1
  <2>5. j - i \in D
    BY <2>3, <2>4
  <2> QED
    BY <2>4, <2>5
<1> QED
  BY <1>6, <1>7, <1>9 DEF n, y, top

\* What a layout holds: the blocks in their order, from top to bottom.
LEMMA LayoutIs ==
  ASSUME NEW doc \in Seq(LpBlock), Utf8(doc), NEW width \in Nat, NEW margin \in Nat,
         NEW s \in Int, s >= 1
  PROVE  LET l == Layout(doc, width, margin, s)
         IN /\ l.height \in Nat
            /\ Len(l.placed) = Len(doc) /\ DOMAIN l.placed = 1 .. Len(doc) /\ Len(doc) \in Nat
            /\ \A i \in DOMAIN l.placed :
                 /\ l.placed[i].y \in Nat
                 /\ l.placed[i].lines \in Seq(Seq(Glyphs)) /\ l.placed[i].marker \in Seq(Glyphs)
            /\ \A i, j \in DOMAIN l.placed : i <= j => l.placed[i].y <= l.placed[j].y
<1> DEFINE top == Tops(doc, width, margin, s)
           n == Len(doc)
           p(i) == PlaceBlock(doc[i], top[i], width, margin, s)
           l == Layout(doc, width, margin, s)
           high == (IF n = 0 THEN margin * s ELSE top[n] + Extent(doc[n], width, margin, s))
                     + margin * s
           y(i) == top[i] + Pad(doc[i]) * s
<1>1. n \in Nat /\ \A i \in 1 .. n : doc[i] \in LpBlock /\ Spelt(doc[i])
  BY DEF Utf8, Spelt
<1>2. l = [placed |-> [i \in 1 .. n |-> p(i)], height |-> high]
  BY DEF Layout
<1>3. /\ \A i \in 1 .. n : top[i] \in Nat /\ y(i) \in Nat
      /\ \A i, j \in 1 .. n : i <= j => y(i) <= y(j)
  BY TopsDescend
<1>4. ASSUME NEW i \in 1 .. n
      PROVE  p(i).y = y(i) /\ p(i).lines \in Seq(Seq(Glyphs)) /\ p(i).marker \in Seq(Glyphs)
  <2>1. doc[i] \in LpBlock /\ Spelt(doc[i])
    BY <1>1
  <2>2. /\ p(i).y = y(i) /\ p(i).lines = LinesOf(doc[i], width, margin)
        /\ p(i).marker = IF doc[i].kind = "rule" THEN <<>> ELSE MarkerGlyphs(doc[i])
    BY DEF PlaceBlock
  <2>3. <<>> \in Seq(Glyphs)
    OBVIOUS
  <2>4. LinesOf(doc[i], width, margin) \in Seq(Seq(Glyphs))
    BY <2>1, SizesAre
  <2>5. MarkerGlyphs(doc[i]) \in Seq(Glyphs)
    BY <2>1, MarkerGlyphsAre
  <2> HIDE DEF p, y
  <2> QED
    BY <2>2, <2>3, <2>4, <2>5
<1>5. high \in Nat
  <2>1. margin * s \in Nat
    OBVIOUS
  <2>2. CASE n = 0
    BY <2>1, <2>2
  <2>3. CASE n # 0
    <3>1. n \in 1 .. n
      BY <1>1, <2>3
    <3>2. top[n] \in Nat /\ doc[n] \in LpBlock /\ Spelt(doc[n])
      BY <1>1, <1>3, <3>1
    <3>3. Extent(doc[n], width, margin, s) \in Int /\ 0 <= Extent(doc[n], width, margin, s)
      <4>1. /\ Extent(doc[n], width, margin, s) \in Int /\ Pad(doc[n]) * s \in Int
            /\ 0 <= Pad(doc[n]) * s /\ Pad(doc[n]) * s <= Extent(doc[n], width, margin, s)
        BY <3>2, SizesAre
      <4> DEFINE e == Extent(doc[n], width, margin, s)
                 d == Pad(doc[n]) * s
      <4>2. e \in Int /\ d \in Int /\ 0 <= d /\ d <= e
        BY <4>1
      <4> HIDE DEF e, d
      <4>3. e \in Int /\ 0 <= e
        BY <4>2
      <4> QED
        BY <4>3 DEF e
    <3> HIDE DEF top, n
    <3> QED
      BY <2>1, <2>3, <3>2, <3>3
  <2> QED
    BY <2>2, <2>3
<1> HIDE DEF high, p, l, y, top
<1>6. l.height = high /\ l.placed = [i \in 1 .. n |-> p(i)]
  BY <1>2
<1>7. DOMAIN l.placed = 1 .. n /\ Len(l.placed) = n /\ \A i \in 1 .. n : l.placed[i] = p(i)
  BY <1>1, <1>6
<1>8. \A i \in DOMAIN l.placed :
        /\ l.placed[i].y \in Nat
        /\ l.placed[i].lines \in Seq(Seq(Glyphs)) /\ l.placed[i].marker \in Seq(Glyphs)
  BY <1>3, <1>4, <1>7
<1>9. \A i, j \in DOMAIN l.placed : i <= j => l.placed[i].y <= l.placed[j].y
  BY <1>3, <1>4, <1>7
<1> HIDE DEF n
<1>10. l.height \in Nat /\ Len(l.placed) = n /\ DOMAIN l.placed = 1 .. n
  BY <1>5, <1>6, <1>7, Zenon
<1> QED
  BY <1>1, <1>8, <1>9, <1>10 DEF l, n

-----------------------------------------------------------------------------
(* The raster and the crop.                                                *)

\* The options of a valid screenshot are numbers.
LEMMA ShotsAre ==
  ASSUME NEW o \in Shots, ValidShot(o)
  PROVE  /\ o.width \in Nat /\ o.width >= 1 /\ o.height \in Nat /\ o.s \in Int /\ o.s >= 1
         /\ o.clip.x \in Int /\ o.clip.y \in Int /\ o.clip.w \in Int /\ o.clip.h \in Int
<1>1. o.width \in Nat /\ o.height \in Nat /\ o.s \in Int
      /\ \A f \in {"x", "y", "w", "h"} : o.clip[f] \in Int
  BY RenderConstants DEF RenderConstants
<1>2. o.width # 0 /\ o.s > 0
  BY DEF ValidShot
<1>3. o.clip["x"] \in Int /\ o.clip["y"] \in Int /\ o.clip["w"] \in Int /\ o.clip["h"] \in Int
  BY <1>1
<1> QED
  BY <1>1, <1>2, <1>3

\* The height of the strip is a length; with a clip it reaches the clip's lower
\* edge, if that is inside the page.
LEMMA StripIs ==
  ASSUME NEW o \in Shots, ValidShot(o), NEW content \in Int, content >= 1
  PROVE  /\ StripHeight(o, content) \in Int /\ StripHeight(o, content) >= 1
         /\ o.clip.w > 0 /\ 0 <= o.clip.y + o.clip.h /\ o.clip.y + o.clip.h <= content
              => o.clip.y + o.clip.h <= StripHeight(o, content)
<1> DEFINE e == o.clip.y + o.clip.h
           asked == IF o.height = 0 THEN content ELSE o.height
           reach == Smaller(Larger(e, 0), content)
<1>1. e \in Int /\ asked \in Int /\ asked >= 1
  BY ShotsAre
<1>2. StripHeight(o, content) = IF o.clip.w > 0 THEN Larger(asked, reach) ELSE asked
  BY DEF StripHeight
<1> HIDE DEF e, asked
<1>3. reach \in Int /\ (0 <= e /\ e <= content => reach = e)
  BY <1>1 DEF Larger, Smaller
<1> HIDE DEF reach
<1>4. Larger(asked, reach) \in Int /\ Larger(asked, reach) >= asked /\ Larger(asked, reach) >= reach
  BY <1>1, <1>3, Bounds
<1>5. /\ StripHeight(o, content) \in Int /\ StripHeight(o, content) >= 1
      /\ o.clip.w > 0 /\ 0 <= e /\ e <= content => e <= StripHeight(o, content)
  <2>1. CASE o.clip.w > 0
    BY <1>1, <1>2, <1>3, <1>4, <2>1
  <2>2. CASE ~(o.clip.w > 0)
    BY <1>1, <1>2, <2>2
  <2> QED
    BY <2>1, <2>2
<1> QED
  BY <1>5 DEF e

\* The raster keeps within its limits, and is as large as was asked where that
\* is allowed.
LEMMA RasterIs ==
  ASSUME NEW o \in Shots, ValidShot(o), NEW content \in Int, content >= 1
  PROVE  LET w == RasterWidth(o)
             h == RasterHeight(o, content)
             dw == Device(o.width, o.s)
         IN /\ w \in 1 .. MaxRasterDim /\ h \in 1 .. MaxRasterDim
            /\ w * h <= MaxRasterPixels \/ h = 1
            /\ dw <= MaxRasterDim => w = dw
            /\ \A d \in Nat : /\ dw <= MaxRasterDim /\ d <= MaxRasterDim
                              /\ dw * d <= MaxRasterPixels
                              /\ d <= Device(StripHeight(o, content), o.s)
                              => d <= h
<1> DEFINE w == RasterWidth(o)
           h == RasterHeight(o, content)
           dw == Device(o.width, o.s)
           st == StripHeight(o, content)
           dh == Device(st, o.s)
           share == MaxRasterPixels \div w
<1>1. /\ o.width \in Int /\ o.width >= 1 /\ o.s \in Int /\ o.s >= 1
      /\ MaxRasterDim \in Int /\ MaxRasterDim >= 1 /\ MaxRasterPixels \in Nat
  BY ShotsAre, RenderConstants DEF RenderConstants
<1>2. st \in Int /\ st >= 1
  BY StripIs
<1>3. dw \in Int /\ dw >= 1
  <2>1. dw \in Int /\ o.width * o.s \in Int /\ o.width * o.s <= 2 * dw
    BY <1>1, Devices
  <2>2. 1 * o.s <= o.width * o.s
    BY <1>1, Scales
  <2> DEFINE p == o.width * o.s
  <2>3. p \in Int /\ p <= 2 * dw /\ 1 <= p
    BY <1>1, <2>1, <2>2
  <2> HIDE DEF p, dw
  <2>4. dw \in Int
    BY <2>1 DEF dw
  <2> QED
    BY <2>3, <2>4
<1>4. dh \in Int
  BY <1>1, <1>2, Devices
<1>5. w = Smaller(Larger(dw, 1), MaxRasterDim)
  BY DEF RasterWidth, Clamp
<1>6. h = Smaller(Smaller(Larger(dh, 1), MaxRasterDim), Larger(share, 1))
  BY DEF RasterHeight, Clamp
<1> HIDE DEF w, h, dw, dh, st
<1>7. w \in Int /\ w >= 1 /\ w <= MaxRasterDim /\ (dw <= MaxRasterDim => w = dw)
  BY <1>1, <1>3, <1>5 DEF Larger, Smaller
<1>8. /\ share \in Nat /\ \A k \in Nat : k <= share => w * k <= MaxRasterPixels
      /\ \A k \in Nat : w * k <= MaxRasterPixels => k <= share
  BY <1>1, <1>7, Shares
<1> HIDE DEF share
<1>9. /\ h \in Int /\ h >= 1 /\ h <= MaxRasterDim /\ (h <= share \/ h = 1)
      /\ \A d \in Int : d <= dh /\ d <= MaxRasterDim /\ d <= share => d <= h
  <2>1. share \in Int
    BY <1>8
  <2> QED
    BY <1>1, <1>4, <1>6, <2>1 DEF Larger, Smaller
<1>10. w * h <= MaxRasterPixels \/ h = 1
  BY <1>8, <1>9
<1>11. ASSUME NEW d \in Nat, dw <= MaxRasterDim, d <= MaxRasterDim,
              dw * d <= MaxRasterPixels, d <= dh
       PROVE  d <= h
  <2>1. w = dw
    BY <1>7, <1>11
  <2>2. d <= share
    BY <1>8, <1>11, <2>1
  <2> QED
    BY <1>9, <1>11, <2>2
<1>12. w \in 1 .. MaxRasterDim /\ h \in 1 .. MaxRasterDim
  BY <1>1, <1>7, <1>9
<1> QED
  BY <1>7, <1>10, <1>11, <1>12 DEF w, h, dw, dh, st

\* One side of the crop: it starts on the raster, is not empty and ends on it.
LEMMA SideInside ==
  ASSUME NEW at \in Int, NEW size \in Int, NEW side \in Int, side >= 1
  PROVE  LET x == Smaller(Larger(at, 0), side - 1)
             w == Smaller(Larger(size, 1), side - x)
         IN /\ x \in Int /\ w \in Int /\ x >= 0 /\ w >= 1 /\ x + w <= side
            /\ 0 <= at /\ 1 <= size /\ at + size <= side => x = at /\ w = size
<1> DEFINE x == Smaller(Larger(at, 0), side - 1)
           w == Smaller(Larger(size, 1), side - x)
<1>1. /\ x \in Int /\ x >= 0 /\ x <= side - 1
      /\ (0 <= at /\ at <= side - 1 => x = at)
  BY DEF Larger, Smaller
<1> HIDE DEF x
<1>2. /\ w \in Int /\ w >= 1 /\ w <= side - x
      /\ (1 <= size /\ size <= side - x => w = size)
  BY <1>1 DEF Larger, Smaller
<1> HIDE DEF w
<1> QED
  BY <1>1, <1>2 DEF x, w

\* The longer is no shorter when rounded.
LEMMA DeviceGrows ==
  ASSUME NEW a \in Int, NEW b \in Int, NEW s \in Int, s >= 1, a <= b
  PROVE  Device(a, s) \in Int /\ Device(b, s) \in Int /\ Device(a, s) <= Device(b, s)
<1> DEFINE p == a * s
           q == b * s
           d == Device(a, s)
           e == Device(b, s)
<1>1. p \in Int /\ q \in Int /\ p <= q
  BY Scales
<1>2. d \in Int /\ e \in Int /\ 2 * d <= p + 1 /\ q <= 2 * e
  BY Devices
<1> HIDE DEF p, q, d, e
<1>3. d <= e
  BY <1>1, <1>2
<1> QED
  BY <1>2, <1>3 DEF d, e

\* A stretch of a side, in CSS px, rounds to one inside the side rounded up.
LEMMA StretchFits ==
  ASSUME NEW a \in Int, NEW n \in Int, NEW side \in Int, NEW s \in Int, s >= 1,
         0 <= a, 1 <= n, a + n <= side
  PROVE  /\ 0 <= (a * s) \div 2 /\ (a * s) \div 2 \in Int
         /\ 1 <= Device(n, s) /\ Device(n, s) \in Int
         /\ (a * s) \div 2 + Device(n, s) <= Device(side, s)
<1> DEFINE p == a * s
           q == n * s
           r == side * s
           d == Device(n, s)
           e == Device(side, s)
           f == p \div 2
<1>1. p \in Int /\ 0 <= p
  BY Scales
<1>2. q \in Int /\ 1 <= q
  <2>1. 1 * s <= n * s
    BY Scales
  <2> QED
    BY <2>1
<1>3. r \in Int /\ p + q <= r
  <2>1. (a + n) * s <= side * s
    BY Scales
  <2>2. (a + n) * s = p + q
    OBVIOUS
  <2> QED
    BY <2>1, <2>2
<1>4. d \in Int /\ q <= 2 * d /\ 2 * d <= q + 1
  BY Devices
<1>5. e \in Int /\ r <= 2 * e /\ 2 * e <= r + 1
  BY Devices
<1> HIDE DEF p, q, r, d, e
<1>6. f \in Int /\ 2 * f <= p /\ p <= 2 * f + 1
  BY <1>1
<1> HIDE DEF f
<1>7. 0 <= f /\ 1 <= d /\ f + d <= e
  BY <1>1, <1>2, <1>3, <1>4, <1>5, <1>6
<1> QED
  BY <1>4, <1>6, <1>7 DEF f, d, e, p

\* The crop is a part of the raster.
LEMMA CropIs ==
  ASSUME NEW o \in Shots, ValidShot(o),
         pixmap.w \in Int, pixmap.w >= 1, pixmap.h \in Int, pixmap.h >= 1
  PROVE  LET v == Cropped(o)
             x == (o.clip.x * o.s) \div 2
             y == (o.clip.y * o.s) \div 2
             w == Device(o.clip.w, o.s)
             h == Device(o.clip.h, o.s)
         IN /\ v.x >= 0 /\ v.y >= 0 /\ v.w >= 1 /\ v.h >= 1
            /\ v.x + v.w <= pixmap.w /\ v.y + v.h <= pixmap.h
            /\ 0 <= x /\ 1 <= w /\ x + w <= pixmap.w => v.x = x /\ v.w = w
            /\ 0 <= y /\ 1 <= h /\ y + h <= pixmap.h => v.y = y /\ v.h = h
<1> DEFINE x == (o.clip.x * o.s) \div 2
           y == (o.clip.y * o.s) \div 2
           w == Device(o.clip.w, o.s)
           h == Device(o.clip.h, o.s)
           left == Smaller(Larger(x, 0), pixmap.w - 1)
           top  == Smaller(Larger(y, 0), pixmap.h - 1)
           across == Smaller(Larger(w, 1), pixmap.w - left)
           down   == Smaller(Larger(h, 1), pixmap.h - top)
<1>1. x \in Int /\ y \in Int
  <2>1. o.clip.x * o.s \in Int /\ o.clip.y * o.s \in Int
    BY ShotsAre
  <2> QED
    BY <2>1
<1>2. w \in Int /\ h \in Int
  BY ShotsAre, Devices
<1>3. /\ Cropped(o).x = left /\ Cropped(o).y = top
      /\ Cropped(o).w = across /\ Cropped(o).h = down
  BY DEF Cropped
<1> HIDE DEF x, y, w, h
<1>4. /\ left \in Int /\ across \in Int /\ left >= 0 /\ across >= 1 /\ left + across <= pixmap.w
      /\ 0 <= x /\ 1 <= w /\ x + w <= pixmap.w => left = x /\ across = w
  BY <1>1, <1>2, SideInside
<1>5. /\ top \in Int /\ down \in Int /\ top >= 0 /\ down >= 1 /\ top + down <= pixmap.h
      /\ 0 <= y /\ 1 <= h /\ y + h <= pixmap.h => top = y /\ down = h
  BY <1>1, <1>2, SideInside
<1> HIDE DEF left, top, across, down
<1> QED
  BY <1>3, <1>4, <1>5 DEF x, y, w, h

-----------------------------------------------------------------------------
(* Drawing.                                                                *)

\* The cache stays sound and has the glyphs that were asked for.
LEMMA CacheKeeps ==
  ASSUME CacheSound, NEW gs, gs \subseteq Glyphs
  PROVE  /\ \A key \in DOMAIN Cached(gs) :
              key \in Keys /\ Cached(gs)[key] = Outline(key[1], key[2])
         /\ \A g \in gs : GlyphKey(g) \in DOMAIN Cached(gs)
<1> DEFINE new == {GlyphKey(g) : g \in gs} \ DOMAIN glyphCache
           by(key) == CHOOSE g \in gs : GlyphKey(g) = key
           D == DOMAIN glyphCache \cup new
           val(key) == IF key \in new THEN Outline(by(key).font, by(key).char)
                       ELSE glyphCache[key]
<1>1. Cached(gs) = [key \in D |-> val(key)]
  BY DEF Cached
<1>2. DOMAIN Cached(gs) = D /\ \A key \in D : Cached(gs)[key] = val(key)
  <2> HIDE DEF D, val
  <2> QED
    BY <1>1
<1>3. ASSUME NEW key \in new PROVE key \in Keys /\ val(key) = Outline(key[1], key[2])
  <2>1. \E g \in gs : GlyphKey(g) = key
    OBVIOUS
  <2>2. by(key) \in gs /\ GlyphKey(by(key)) = key
    BY <2>1, Zenon
  <2> HIDE DEF by
  <2>3. by(key) \in Glyphs /\ key = <<by(key).font, by(key).char>>
    BY <2>2 DEF GlyphKey
  <2>4. key[1] = by(key).font /\ key[2] = by(key).char
    BY <2>3
  <2>5. key \in Keys
    BY <2>3 DEF Glyphs, Faces, Keys
  <2> QED
    BY <2>4, <2>5
<1>4. ASSUME NEW key \in DOMAIN glyphCache, key \notin new
      PROVE  key \in Keys /\ val(key) = Outline(key[1], key[2])
  BY <1>4 DEF CacheSound
<1>5. \A g \in gs : GlyphKey(g) \in D
  OBVIOUS
<1>6. \A key \in D : key \in Keys /\ val(key) = Outline(key[1], key[2])
  <2> HIDE DEF val, new
  <2> QED
    BY <1>3, <1>4
<1> HIDE DEF val, new, D
<1> QED
  BY <1>2, <1>5, <1>6

\* The marks of lines whose glyphs the cache has are theirs.
LEMMA MarksAre ==
  ASSUME NEW cache, NEW i, NEW lines,
         \A key \in DOMAIN cache : cache[key] = Outline(key[1], key[2]),
         NEW l \in DOMAIN lines,
         \A k \in DOMAIN lines[l] : GlyphKey(lines[l][k]) \in DOMAIN cache
  PROVE  LineMarks(i, lines[l], l) \subseteq Marks(i, lines, cache)
<1> DEFINE line == lines[l]
           mark(k) == [block |-> i, line |-> l, pos |-> k, glyph |-> <<line[k].font, line[k].char>>,
                       path |-> cache[GlyphKey(line[k])]]
<1>1. ASSUME NEW k \in DOMAIN line
      PROVE  cache[GlyphKey(line[k])] = Outline(line[k].font, line[k].char)
  <2>1. GlyphKey(line[k]) = <<line[k].font, line[k].char>>
    BY DEF GlyphKey
  <2>2. GlyphKey(line[k])[1] = line[k].font /\ GlyphKey(line[k])[2] = line[k].char
    BY <2>1
  <2> QED
    BY <2>2
<1>2. LineMarks(i, line, l) = {mark(k) : k \in DOMAIN line}
  BY <1>1 DEF LineMarks
<1>3. {mark(k) : k \in DOMAIN line} \subseteq Marks(i, lines, cache)
  BY DEF Marks
<1> QED
  BY <1>2, <1>3

\* The marks of all lines of a block.
Texts(i, p) == UNION {LineMarks(i, p.lines[l], l) : l \in DOMAIN p.lines}

\* A mark moved to another line.
LEMMA MovedMark ==
  ASSUME NEW b, NEW l, NEW k, NEW g, NEW path, NEW n
  PROVE  [[block |-> b, line |-> l, pos |-> k, glyph |-> g, path |-> path] EXCEPT !.line = n]
           = [block |-> b, line |-> n, pos |-> k, glyph |-> g, path |-> path]
  OBVIOUS

\* The marks of a block are among its lines' and its marker's.
LEMMA OwnMarks ==
  ASSUME NEW i, NEW p, p = placed.placed[i], p.kind # "rule"
  PROVE  BlockMarks(i) \subseteq LineMarks(i, p.marker, 0) \cup Texts(i, p)
<1> DEFINE q == placed.placed[i]
           lm(l) == LineMarks(i, q.lines[l], l)
           started == {l \in DOMAIN q.lines : q.y + (l - 1) * q.lineH < 2 * pixmap.h}
           begun == UNION {lm(l) : l \in started}
           own == UNION {lm(l) : l \in DOMAIN q.lines}
<1>1. BlockMarks(i) = IF q.kind = "rule" THEN {Rule(i)} ELSE LineMarks(i, q.marker, 0) \cup begun
  BY DEF BlockMarks
<1>2. started \subseteq DOMAIN q.lines /\ q.kind # "rule"
  OBVIOUS
<1> HIDE DEF q, lm, started
<1>3. ASSUME NEW x \in begun PROVE x \in own
  <2>1. PICK l \in started : x \in lm(l)
    BY <1>3
  <2> QED
    BY <1>2, <2>1
<1> HIDE DEF own, begun
<1>4. begun \subseteq own
  BY <1>3
<1>5. BlockMarks(i) \subseteq LineMarks(i, q.marker, 0) \cup own
  BY <1>1, <1>2, <1>4
<1>6. q = p
  BY DEF q
<1> QED
  BY <1>5, <1>6 DEF own, lm, Texts

\* The marks of a marker: line 0.
Gutter(marks) == {[m EXCEPT !.line = 0] : m \in marks}

\* A block that was drawn has all its marks.
LEMMA BlockDrawn ==
  ASSUME CacheSound, NEW i, NEW p, p = placed.placed[i], p.kind # "rule",
         p.lines \in Seq(Seq(Glyphs)), p.marker \in Seq(Glyphs)
  PROVE  LET cache == Cached(GlyphsDrawn(p))
         IN /\ \A key \in DOMAIN cache : key \in Keys /\ cache[key] = Outline(key[1], key[2])
            /\ BlockMarks(i) \subseteq Marks(i, p.lines, cache) \cup Gutter(Marks(i, <<p.marker>>, cache))
<1> DEFINE cache == Cached(GlyphsDrawn(p))
<1> DEFINE gs == GlyphsDrawn(p)
<1>1. gs = Range(p.marker) \cup UNION {Range(p.lines[l]) : l \in DOMAIN p.lines}
  BY DEF GlyphsDrawn
<1>2. \A l \in DOMAIN p.lines : p.lines[l] \in Seq(Glyphs)
  OBVIOUS
<1>3. \A l \in DOMAIN p.lines : \A k \in DOMAIN p.lines[l] : p.lines[l][k] \in gs
  BY <1>1 DEF Range
<1>4. \A k \in DOMAIN p.marker : p.marker[k] \in gs
  BY <1>1 DEF Range
<1>5. gs \subseteq Glyphs
  <2>1. Range(p.marker) \subseteq Glyphs
    BY DEF Range
  <2>2. \A l \in DOMAIN p.lines : Range(p.lines[l]) \subseteq Glyphs
    <3> TAKE l \in DOMAIN p.lines
    <3> DEFINE line == p.lines[l]
    <3>1. line \in Seq(Glyphs)
      BY <1>2
    <3> HIDE DEF line
    <3>2. Range(line) \subseteq Glyphs
      BY <3>1 DEF Range
    <3> QED
      BY <3>2 DEF line
  <2> QED
    BY <1>1, <2>1, <2>2
<1> HIDE DEF gs, cache
<1>6. /\ \A key \in DOMAIN cache : key \in Keys /\ cache[key] = Outline(key[1], key[2])
      /\ \A g \in gs : GlyphKey(g) \in DOMAIN cache
  BY <1>5, CacheKeeps DEF gs, cache
<1>7. ASSUME NEW l \in DOMAIN p.lines
      PROVE  LineMarks(i, p.lines[l], l) \subseteq Marks(i, p.lines, cache)
  <2>1. \A k \in DOMAIN p.lines[l] : GlyphKey(p.lines[l][k]) \in DOMAIN cache
    BY <1>3, <1>6
  <2> QED
    BY <1>6, <2>1, MarksAre
<1>8. LineMarks(i, p.marker, 0)
        \subseteq Gutter(Marks(i, <<p.marker>>, cache))
  <2> DEFINE one == <<p.marker>>
  <2>1. one[1] = p.marker /\ 1 \in DOMAIN one
    OBVIOUS
  <2>2. \A k \in DOMAIN one[1] : GlyphKey(one[1][k]) \in DOMAIN cache
    BY <1>4, <1>6, <2>1
  <2> HIDE DEF one
  <2>3. LineMarks(i, one[1], 1) \subseteq Marks(i, one, cache)
    BY <1>6, <2>1, <2>2, MarksAre
  <2> DEFINE of(n, k) == [block |-> i, line |-> n, pos |-> k,
                          glyph |-> <<p.marker[k].font, p.marker[k].char>>,
                          path |-> Outline(p.marker[k].font, p.marker[k].char)]
             moved == Gutter(Marks(i, one, cache))
  <2>4. \A n : LineMarks(i, p.marker, n) = {of(n, k) : k \in DOMAIN p.marker}
    BY DEF LineMarks
  <2>5. \A k : [of(1, k) EXCEPT !.line = 0] = of(0, k)
    <3> TAKE k
    <3> DEFINE g == <<p.marker[k].font, p.marker[k].char>>
               path == Outline(p.marker[k].font, p.marker[k].char)
    <3>1. /\ of(1, k) = [block |-> i, line |-> 1, pos |-> k, glyph |-> g, path |-> path]
          /\ of(0, k) = [block |-> i, line |-> 0, pos |-> k, glyph |-> g, path |-> path]
      OBVIOUS
    <3> HIDE DEF g, path, of
    <3> QED
      BY <3>1, MovedMark
  <2> HIDE DEF of
  <2>6. \A k \in DOMAIN p.marker : of(1, k) \in Marks(i, one, cache)
    BY <2>1, <2>3, <2>4
  <2>7. \A k \in DOMAIN p.marker : of(0, k) \in moved
    BY <2>5, <2>6 DEF Gutter
  <2>8. LineMarks(i, p.marker, 0) \subseteq moved
    <3> HIDE DEF moved
    <3> QED
      BY <2>4, <2>7
  <2> QED
    BY <2>8 DEF one
<1> DEFINE own == Texts(i, p)
           moved == Gutter(Marks(i, <<p.marker>>, cache))
<1>9. BlockMarks(i) \subseteq LineMarks(i, p.marker, 0) \cup own
  BY OwnMarks
<1>10. own \subseteq Marks(i, p.lines, cache)
  BY <1>7 DEF Texts
<1>11. LineMarks(i, p.marker, 0) \subseteq moved
  BY <1>8
<1>12. BlockMarks(i) \subseteq Marks(i, p.lines, cache) \cup moved
  <2> HIDE DEF moved, own
  <2> QED
    BY <1>9, <1>10, <1>11
<1> QED
  BY <1>6, <1>12 DEF cache
-----------------------------------------------------------------------------
(* The invariant of a drawing.                                             *)

\* What was asked for is a good shot of a document that is UTF-8.
Asked  == /\ call.op = "png" /\ call.doc \in Docs /\ Utf8(call.doc)
          /\ Shot \in Shots /\ ValidShot(Shot)
\* The blocks are laid out for it,
Laid   == placed = Layout(call.doc, Shot.width, PAGE_MARGIN, Shot.s)
\* the raster has the size for it,
Sized  == pixmap = [NoRect EXCEPT !.w = RasterWidth(Shot),
                                  !.h = RasterHeight(Shot, ContentHeight)]
\* the blocks the loop has passed are on it or below it,
Passed == /\ nextBlock >= 1
          /\ \A i \in DOMAIN placed.placed :
               i < nextBlock => BelowRaster(placed.placed[i]) \/ BlockMarks(i) \subseteq painted
\* and the view is the clip's or the whole.
Seen   == /\ nextBlock > Len(placed.placed)
          /\ view = IF Shot.clip.w > 0 THEN Cropped(Shot) ELSE pixmap

\* From stage to stage of a call.
StageInv ==
  /\ call.stage \in {"layout", "raster"} => nextBlock = 1
  /\ At("layout") /\ call.op = "png" => Asked
  /\ call.stage \in {"raster", "draw", "encode", "drop"} => Asked /\ Laid
  /\ call.stage \in {"draw", "encode", "drop"} => Sized /\ Passed
  /\ call.stage \in {"encode", "drop"} => Seen

DrawInv == TypeOK /\ CacheSound /\ StageInv

\* The layout of what was asked for.
LEMMA LaysOut ==
  ASSUME Asked, NEW lay, lay = Layout(call.doc, Shot.width, PAGE_MARGIN, Shot.s)
  PROVE  /\ lay.height \in Nat /\ Len(lay.placed) \in Nat
         /\ DOMAIN lay.placed = 1 .. Len(lay.placed)
         /\ \A i \in DOMAIN lay.placed :
              /\ lay.placed[i].y \in Nat
              /\ lay.placed[i].lines \in Seq(Seq(Glyphs))
              /\ lay.placed[i].marker \in Seq(Glyphs)
         /\ \A i, j \in DOMAIN lay.placed : i <= j => lay.placed[i].y <= lay.placed[j].y
<1>1. call.doc \in Seq(LpBlock) /\ Utf8(call.doc)
  <2>1. Docs \subseteq Seq(LpBlock)
    BY RenderConstants, Zenon DEF RenderConstants
  <2>2. call.doc \in Docs /\ Utf8(call.doc)
    BY DEF Asked
  <2> QED
    BY <2>1, <2>2
<1>2. Shot.width \in Nat /\ Shot.s \in Int /\ Shot.s >= 1 /\ PAGE_MARGIN \in Nat
  BY ShotsAre DEF Asked, PAGE_MARGIN
<1> DEFINE doc == call.doc
           width == Shot.width
           s == Shot.s
<1>3. lay = Layout(doc, width, PAGE_MARGIN, s)
  OBVIOUS
<1> HIDE DEF doc, width, s
<1>4. doc \in Seq(LpBlock) /\ Utf8(doc) /\ width \in Nat /\ s \in Int /\ s >= 1 /\ PAGE_MARGIN \in Nat
  BY <1>1, <1>2 DEF doc, width, s
<1> DEFINE l == Layout(doc, width, PAGE_MARGIN, s)
<1>5. /\ l.height \in Nat
      /\ Len(l.placed) = Len(doc) /\ DOMAIN l.placed = 1 .. Len(doc) /\ Len(doc) \in Nat
      /\ \A i \in DOMAIN l.placed :
           /\ l.placed[i].y \in Nat
           /\ l.placed[i].lines \in Seq(Seq(Glyphs)) /\ l.placed[i].marker \in Seq(Glyphs)
      /\ \A i, j \in DOMAIN l.placed : i <= j => l.placed[i].y <= l.placed[j].y
  BY <1>4, LayoutIs
<1>6. lay = l
  BY <1>3
<1> HIDE DEF l
<1>7. /\ l.height \in Nat /\ Len(l.placed) \in Nat
      /\ DOMAIN l.placed = 1 .. Len(l.placed)
      /\ \A i \in DOMAIN l.placed :
           /\ l.placed[i].y \in Nat
           /\ l.placed[i].lines \in Seq(Seq(Glyphs)) /\ l.placed[i].marker \in Seq(Glyphs)
      /\ \A i, j \in DOMAIN l.placed : i <= j => l.placed[i].y <= l.placed[j].y
  BY <1>5, Zenon
<1> QED
  BY <1>6, <1>7, Zenon

\* What is laid out is placed on the page.
LEMMA LaidIs ==
  ASSUME Asked, Laid
  PROVE  /\ placed.height \in Nat /\ Len(placed.placed) \in Nat
         /\ DOMAIN placed.placed = 1 .. Len(placed.placed)
         /\ \A i \in DOMAIN placed.placed :
              /\ placed.placed[i].y \in Nat
              /\ placed.placed[i].lines \in Seq(Seq(Glyphs))
              /\ placed.placed[i].marker \in Seq(Glyphs)
         /\ \A i, j \in DOMAIN placed.placed : i <= j => placed.placed[i].y <= placed.placed[j].y
  BY LaysOut DEF Laid

\* The content is at least one px high.
LEMMA ContentIs ==
  ASSUME NEW s \in Int, s >= 1, NEW height \in Nat
  PROVE  LET c == Larger(CeilDiv(height, s), 1) IN c \in Int /\ c >= 1 /\ c \in Nat
<1> DEFINE d == CeilDiv(height, s)
<1>1. d \in Int
  BY CeilIs
<1> HIDE DEF d
<1>2. Larger(d, 1) \in Int /\ Larger(d, 1) >= 1
  BY <1>1, Bounds
<1> QED
  BY <1>2 DEF d

\* The page is at least a pixel high.
LEMMA ContentHeightIs ==
  ASSUME Asked, Laid
  PROVE  ContentHeight \in Int /\ ContentHeight >= 1 /\ ContentHeight \in Nat
<1>1. placed.height \in Nat
  BY LaidIs
<1>2. Shot.s \in Int /\ Shot.s >= 1
  BY ShotsAre DEF Asked
<1>3. ContentHeight = Larger(CeilDiv(placed.height, Shot.s), 1)
  BY DEF ContentHeight
<1> QED
  BY <1>1, <1>2, <1>3, ContentIs

\* The raster of a call.
LEMMA SizedIs ==
  ASSUME Asked, Laid, Sized
  PROVE  /\ pixmap.x = 0 /\ pixmap.y = 0
         /\ pixmap.w = RasterWidth(Shot) /\ pixmap.h = RasterHeight(Shot, ContentHeight)
         /\ pixmap.w \in 1 .. MaxRasterDim /\ pixmap.h \in 1 .. MaxRasterDim
         /\ pixmap.w \in Int /\ pixmap.w >= 1 /\ pixmap.h \in Int /\ pixmap.h >= 1
<1>1. /\ pixmap.x = 0 /\ pixmap.y = 0
      /\ pixmap.w = RasterWidth(Shot) /\ pixmap.h = RasterHeight(Shot, ContentHeight)
  BY DEF Sized, NoRect
<1>2. Shot \in Shots /\ ValidShot(Shot) /\ ContentHeight \in Int /\ ContentHeight >= 1
  BY ContentHeightIs DEF Asked
<1>3. RasterWidth(Shot) \in 1 .. MaxRasterDim /\ RasterHeight(Shot, ContentHeight) \in 1 .. MaxRasterDim
  BY <1>2, RasterIs
<1>4. MaxRasterDim \in Nat
  BY RenderConstants DEF RenderConstants
<1> QED
  BY <1>1, <1>3, <1>4

\* Before the first call nothing is drawn.
LEMMA InitDraws == Init => DrawInv
<1> SUFFICES ASSUME Init PROVE DrawInv
  OBVIOUS
<1>1. TypeOK
  <2>1. DOMAIN glyphCache = {}
    BY DEF Init
  <2>2. Len(got) <= Len(Chunks) + 1
    BY ChunksAre DEF Init
  <2>3. pixmap.w \in Nat /\ pixmap.h \in Nat
    BY DEF Init, NoRect
  <2>4. call.op = "none" /\ call.stage = "done"
    BY DEF Init
  <2>5. /\ renderer = "none" /\ nextBlock \in Nat /\ sinkFailed \in BOOLEAN /\ rc = "none"
        /\ reported \in Nat
    BY DEF Init
  <2> QED
    BY <2>1, <2>2, <2>3, <2>4, <2>5 DEF TypeOK, Stages, Codes
<1>2. CacheSound
  BY DEF Init, CacheSound
<1>3. StageInv
  BY DEF Init, StageInv, At
<1> QED
  BY <1>1, <1>2, <1>3 DEF DrawInv

\* A call keeps what it was asked for and the pictures, and goes on to encode, to
\* drop or to its end.
LEMMA DrawingKept ==
  ASSUME StageInv, UNCHANGED <<placed, pixmap, nextBlock, painted, view>>,
         call'.op = call.op, call'.doc = call.doc, call'.shot = call.shot,
         call'.stage = call.stage \/ call'.stage = "done"
           \/ (call.stage = "encode" /\ call'.stage = "drop")
  PROVE  StageInv'
<1>1. Asked => Asked'
  BY DEF Asked, Shot
<1>2. Laid => Laid'
  BY DEF Laid, Shot
<1>3. ContentHeight' = ContentHeight /\ Shot' = Shot
  BY DEF ContentHeight, Shot
<1>4. Sized => Sized'
  BY <1>3 DEF Sized
<1>5. Passed => Passed'
  <2>1. \A i : BlockMarks(i)' = BlockMarks(i)
    BY DEF BlockMarks
  <2>2. \A p : BelowRaster(p)' = BelowRaster(p)
    BY DEF BelowRaster
  <2> QED
    BY <2>1, <2>2 DEF Passed
<1>6. Seen => Seen'
  <2>1. Cropped(Shot)' = Cropped(Shot)
    BY <1>3 DEF Cropped
  <2> QED
    BY <1>3, <2>1 DEF Seen
<1> QED
  BY <1>1, <1>2, <1>4, <1>5, <1>6 DEF StageInv, At

\* Of the call only the stage changes.
LEMMA ToKeeps ==
  ASSUME CallShape, NEW stage, To(stage)
  PROVE  /\ call'.stage = stage /\ call'.op = call.op /\ call'.doc = call.doc
         /\ call'.shot = call.shot
  BY DEF CallShape, To

\* A new call.
LEMMA CallsDraw ==
  ASSUME DrawInv, NEW d \in Docs, NEW o,
         (o \in Shots /\ RenderPng(d, o)) \/ (o \in Papers /\ NewLayout(d, o))
  PROVE  DrawInv'
<1>1. /\ placed' = Unplaced /\ pixmap' = NoRect /\ nextBlock' = 1 /\ got' = <<>>
      /\ sinkFailed' = FALSE /\ reported' = 0 /\ renderer' = renderer /\ glyphCache' = glyphCache
  BY DEF RenderPng, NewLayout, Fresh
<1>2. call'.op \in {"png", "pdf"} /\ call'.stage \in {"layout", "done"} /\ rc' \in {"none", "invalid"}
  BY DEF RenderPng, NewLayout
<1>3. TypeOK'
  <2>1. renderer' \in {"none", "live"} /\ DOMAIN glyphCache' \subseteq Keys
    BY <1>1 DEF DrawInv, TypeOK
  <2>2. Len(got') <= Len(Chunks) + 1
    BY <1>1, ChunksAre
  <2>3. pixmap'.w \in Nat /\ pixmap'.h \in Nat /\ nextBlock' \in Nat /\ reported' \in Nat
    BY <1>1 DEF NoRect
  <2>4. sinkFailed' \in BOOLEAN
    BY <1>1
  <2> QED
    BY <1>2, <2>1, <2>2, <2>3, <2>4 DEF TypeOK, Stages, Codes
<1>4. CacheSound'
  BY <1>1 DEF DrawInv, CacheSound
<1>5. call'.stage = "layout" /\ call'.op = "png" => Asked'
  <2> SUFFICES ASSUME call'.stage = "layout", call'.op = "png" PROVE Asked'
    OBVIOUS
  <2>1. o \in Shots /\ RenderPng(d, o)
    BY DEF NewLayout
  <2>2. call'.doc = d /\ call'.shot = o /\ ValidShot(o) /\ Utf8(d)
    BY <2>1 DEF RenderPng
  <2> QED
    BY <2>1, <2>2 DEF Asked, Shot
<1>6. StageInv'
  BY <1>1, <1>2, <1>5 DEF StageInv, At
<1> QED
  BY <1>3, <1>4, <1>6 DEF DrawInv

\* The types of what a step of a call leaves alone.
LEMMA TypeKept ==
  ASSUME TypeOK, renderer' = renderer, glyphCache' = glyphCache, call'.op = call.op,
         call'.stage \in Stages, nextBlock' = nextBlock, pixmap' = pixmap,
         sinkFailed' \in BOOLEAN, rc' \in Codes, reported' \in Nat,
         Len(got') <= Len(Chunks) + 1
  PROVE  TypeOK'
  BY DEF TypeOK

\* Layout starts the picture.
LEMMA PlaceDraws ==
  ASSUME IInv, DrawInv, PlaceBlocks
  PROVE  DrawInv'
<1>1. /\ call.stage = "layout" /\ call.op = "png" /\ Asked /\ nextBlock = 1
      /\ placed' = Layout(call.doc, Shot.width, PAGE_MARGIN, Shot.s)
  BY DEF PlaceBlocks, At, DrawInv, StageInv
<1>2. /\ renderer' = renderer /\ glyphCache' = glyphCache /\ nextBlock' = nextBlock
      /\ pixmap' = pixmap /\ sinkFailed' = sinkFailed /\ got' = got
  BY DEF PlaceBlocks
<1>3. Len(got') <= Len(Chunks) + 1 /\ sinkFailed' \in BOOLEAN /\ rc \in Codes /\ reported \in Nat
  BY <1>2 DEF DrawInv, TypeOK
<1>4. CacheSound'
  BY <1>2 DEF DrawInv, CacheSound
<1>5. CASE Shot.measure
  <2>1. Return("ok", Larger(CeilDiv(placed'.height, Shot.s), 1))
    BY <1>5 DEF PlaceBlocks
  <2>2. placed'.height \in Nat
    BY <1>1, LaysOut
  <2>3. Shot.s \in Int /\ Shot.s >= 1
    BY <1>1, ShotsAre DEF Asked
  <2>4. /\ To("done") /\ reported' = Larger(CeilDiv(placed'.height, Shot.s), 1)
        /\ rc' \in Codes
    BY <2>1 DEF Return, Codes
  <2>5. reported' \in Nat
    BY <2>2, <2>3, <2>4, ContentIs
  <2>6. call'.stage = "done" /\ call'.op = call.op
    BY <2>4, ToKeeps DEF IInv
  <2>7. TypeOK'
    BY <1>2, <1>3, <2>4, <2>5, <2>6, TypeKept DEF DrawInv, Stages
  <2>8. StageInv'
    BY <2>6 DEF StageInv, At
  <2> QED
    BY <1>4, <2>7, <2>8 DEF DrawInv
<1>6. CASE ~Shot.measure
  <2>1. To("raster") /\ rc' = rc /\ reported' = reported
    BY <1>6 DEF PlaceBlocks
  <2>2. /\ call'.stage = "raster" /\ call'.op = call.op /\ call'.doc = call.doc
        /\ call'.shot = call.shot
    BY <2>1, ToKeeps DEF IInv
  <2>3. TypeOK'
    BY <1>2, <1>3, <2>1, <2>2, TypeKept DEF DrawInv, Stages
  <2>4. Asked'
    BY <1>1, <2>2 DEF Asked, Shot
  <2>5. Laid'
    BY <1>1, <2>2 DEF Laid, Shot
  <2>6. StageInv'
    BY <1>1, <1>2, <2>2, <2>4, <2>5 DEF StageInv, At
  <2> QED
    BY <1>4, <2>3, <2>6 DEF DrawInv
<1> QED
  BY <1>5, <1>6

\* The raster is as large as the clip asks, or no picture is made.
LEMMA RasterDraws ==
  ASSUME IInv, DrawInv, MakeRaster
  PROVE  DrawInv'
<1>1. call.stage = "raster" /\ Asked /\ Laid /\ nextBlock = 1
  BY DEF MakeRaster, At, DrawInv, StageInv
<1>2. /\ renderer' = renderer /\ glyphCache' = glyphCache /\ nextBlock' = nextBlock
      /\ placed' = placed /\ sinkFailed' = sinkFailed /\ got' = got
  BY DEF MakeRaster
<1>3. Len(got') <= Len(Chunks) + 1 /\ sinkFailed' \in BOOLEAN /\ rc \in Codes /\ reported \in Nat
  BY <1>2 DEF DrawInv, TypeOK
<1>4. CacheSound'
  BY <1>2 DEF DrawInv, CacheSound
<1>5. CASE Return("noRaster", ContentHeight) /\ UNCHANGED pixmap
  <2>1. To("done") /\ reported' = ContentHeight /\ rc' \in Codes
    BY <1>5 DEF Return, Codes
  <2>2. call'.stage = "done" /\ call'.op = call.op
    BY <2>1, ToKeeps DEF IInv
  <2>3. reported' \in Nat
    BY <1>1, <2>1, ContentHeightIs
  <2>4. TypeOK'
    BY <1>2, <1>3, <1>5, <2>1, <2>2, <2>3, TypeKept DEF DrawInv, Stages
  <2>5. StageInv'
    BY <2>2 DEF StageInv, At
  <2> QED
    BY <1>4, <2>4, <2>5 DEF DrawInv
<1>6. CASE /\ pixmap' = [NoRect EXCEPT !.w = RasterWidth(Shot),
                                       !.h = RasterHeight(Shot, ContentHeight)]
           /\ To("draw") /\ UNCHANGED <<rc, reported>>
  <2>1. /\ call'.stage = "draw" /\ call'.op = call.op /\ call'.doc = call.doc
        /\ call'.shot = call.shot
    BY <1>6, ToKeeps DEF IInv
  <2>2. Shot' = Shot /\ ContentHeight' = ContentHeight
    BY <1>2, <2>1 DEF Shot, ContentHeight
  <2>3. Asked'
    BY <1>1, <2>1 DEF Asked, Shot
  <2>4. Laid'
    BY <1>1, <1>2, <2>1 DEF Laid, Shot
  <2>5. Sized'
    BY <1>6, <2>2 DEF Sized
  <2>6. Passed'
    <3>1. DOMAIN placed.placed = 1 .. Len(placed.placed) /\ Len(placed.placed) \in Nat
      BY <1>1, LaidIs
    <3>2. nextBlock' >= 1 /\ \A i \in DOMAIN placed'.placed : ~(i < nextBlock')
      BY <1>1, <1>2, <3>1
    <3> QED
      BY <3>2 DEF Passed
  <2>7. StageInv'
    BY <2>1, <2>3, <2>4, <2>5, <2>6 DEF StageInv, At
  <2>8. pixmap'.w \in Nat /\ pixmap'.h \in Nat
    <3>1. Shot \in Shots /\ ValidShot(Shot) /\ ContentHeight \in Int /\ ContentHeight >= 1
      BY <1>1, ContentHeightIs DEF Asked
    <3>2. /\ RasterWidth(Shot) \in 1 .. MaxRasterDim
          /\ RasterHeight(Shot, ContentHeight) \in 1 .. MaxRasterDim
      BY <3>1, RasterIs
    <3>3. RasterWidth(Shot) \in Nat /\ RasterHeight(Shot, ContentHeight) \in Nat
      BY <3>2
    <3> QED
      BY <1>6, <3>3 DEF NoRect
  <2>9. TypeOK'
    BY <1>2, <1>3, <1>6, <2>1, <2>8 DEF DrawInv, TypeOK, Stages
  <2> QED
    BY <1>4, <2>7, <2>9 DEF DrawInv
<1> QED
  BY <1>5, <1>6 DEF MakeRaster

\* One turn of the loop: a block is passed when it is drawn, or when it and so all
\* that follow start below the raster.
LEMMA BlockDraws ==
  ASSUME IInv, DrawInv, DrawBlock
  PROVE  DrawInv'
<1> DEFINE n == Len(placed.placed)
           p == placed.placed[nextBlock]
<1>1. call.stage = "draw" /\ Asked /\ Laid /\ Sized /\ Passed /\ nextBlock <= n
  BY DEF DrawBlock, At, DrawInv, StageInv
<1>2. /\ call' = call /\ placed' = placed /\ pixmap' = pixmap /\ renderer' = renderer
      /\ got' = got /\ sinkFailed' = sinkFailed /\ rc' = rc /\ reported' = reported
  BY DEF DrawBlock
<1>3. Shot' = Shot /\ ContentHeight' = ContentHeight
  BY <1>2 DEF Shot, ContentHeight
<1>4. Asked' /\ Laid' /\ Sized'
  BY <1>1, <1>2, <1>3 DEF Asked, Laid, Sized
<1>5. /\ n \in Nat /\ DOMAIN placed.placed = 1 .. n
      /\ \A i \in DOMAIN placed.placed :
           /\ placed.placed[i].y \in Nat
           /\ placed.placed[i].lines \in Seq(Seq(Glyphs)) /\ placed.placed[i].marker \in Seq(Glyphs)
      /\ \A i, j \in DOMAIN placed.placed : i <= j => placed.placed[i].y <= placed.placed[j].y
  BY <1>1, LaidIs
<1>6. pixmap.h \in Int
  BY <1>1, SizedIs
<1>7. nextBlock \in Nat /\ nextBlock >= 1
  BY <1>1 DEF DrawInv, TypeOK, Passed
<1>8. \A i : BlockMarks(i)' = BlockMarks(i)
  BY <1>2 DEF BlockMarks
<1>9. \A q : BelowRaster(q)' = BelowRaster(q)
  BY <1>2 DEF BelowRaster
<1>10. \A i \in DOMAIN placed.placed :
         i < nextBlock => BelowRaster(placed.placed[i]) \/ BlockMarks(i) \subseteq painted
  BY <1>1 DEF Passed
<1>11. ASSUME nextBlock' \in Nat, CacheSound', Passed' PROVE DrawInv'
  <2>1. DOMAIN glyphCache' \subseteq Keys
    BY <1>11 DEF CacheSound
  <2>2. TypeOK'
    BY <1>2, <1>11, <2>1 DEF DrawInv, TypeOK
  <2>3. StageInv'
    BY <1>1, <1>2, <1>4, <1>11 DEF StageInv, At
  <2> QED
    BY <1>11, <2>2, <2>3 DEF DrawInv
<1>12. CASE BelowRaster(p)
  <2>1. nextBlock' = n + 1 /\ painted' = painted /\ glyphCache' = glyphCache
    BY <1>12 DEF DrawBlock
  <2>2. ASSUME NEW i \in DOMAIN placed.placed
        PROVE  BelowRaster(placed.placed[i]) \/ BlockMarks(i) \subseteq painted
    <3>1. CASE i < nextBlock
      BY <1>10, <3>1
    <3>2. CASE ~(i < nextBlock)
      <4>1. nextBlock <= i
        BY <1>5, <1>7, <3>2
      <4>2. nextBlock \in DOMAIN placed.placed
        BY <1>1, <1>5, <1>7
      <4>3. p.y <= placed.placed[i].y /\ p.y \in Nat /\ placed.placed[i].y \in Nat
        BY <1>5, <4>1, <4>2
      <4>4. p.y > 2 * pixmap.h
        BY <1>12 DEF BelowRaster
      <4>5. placed.placed[i].y > 2 * pixmap.h
        BY <1>6, <4>3, <4>4
      <4> QED
        BY <4>5 DEF BelowRaster
    <3> QED
      BY <3>1, <3>2
  <2>3. Passed'
    <3>1. nextBlock' >= 1
      BY <1>5, <2>1
    <3> QED
      BY <1>2, <1>8, <1>9, <2>1, <2>2, <3>1 DEF Passed
  <2>4. CacheSound'
    BY <2>1 DEF DrawInv, CacheSound
  <2>5. nextBlock' \in Nat
    BY <1>5, <2>1
  <2> QED
    BY <1>11, <2>3, <2>4, <2>5 
<1>13. ASSUME ~BelowRaster(p), painted \subseteq painted',
              nextBlock \in DOMAIN placed.placed => BlockMarks(nextBlock) \subseteq painted',
              nextBlock' = nextBlock + 1
       PROVE  Passed' /\ nextBlock' \in Nat
  <2>1. ASSUME NEW i \in DOMAIN placed.placed, i < nextBlock + 1
        PROVE  BelowRaster(placed.placed[i]) \/ BlockMarks(i) \subseteq painted'
    <3>1. CASE i = nextBlock
      BY <1>13, <3>1
    <3>2. CASE i # nextBlock
      <4>1. i < nextBlock
        BY <1>5, <1>7, <2>1, <3>2
      <4> QED
        BY <1>10, <1>13, <4>1
    <3> QED
      BY <3>1, <3>2
  <2>2. Passed'
    <3>1. nextBlock' >= 1
      BY <1>7, <1>13
    <3> QED
      BY <1>2, <1>8, <1>9, <1>13, <2>1, <3>1 DEF Passed
  <2> QED
    BY <1>7, <1>13, <2>2
<1>14. CASE ~BelowRaster(p) /\ p.kind = "rule"
  <2>1. /\ nextBlock' = nextBlock + 1 /\ painted' = painted \cup {Rule(nextBlock)}
        /\ glyphCache' = glyphCache
    BY <1>14 DEF DrawBlock
  <2>2. BlockMarks(nextBlock) = {Rule(nextBlock)}
    BY <1>14 DEF BlockMarks
  <2>3. Passed' /\ nextBlock' \in Nat
    BY <1>13, <1>14, <2>1, <2>2
  <2>4. CacheSound'
    BY <2>1 DEF DrawInv, CacheSound
  <2> QED
    BY <1>11, <2>3, <2>4
<1>15. CASE ~BelowRaster(p) /\ p.kind # "rule"
  <2> DEFINE new == Marks(nextBlock, p.lines, glyphCache')
                      \cup Gutter(Marks(nextBlock, <<p.marker>>, glyphCache'))
  <2>1. /\ nextBlock' = nextBlock + 1 /\ glyphCache' = Cached(GlyphsDrawn(p))
    BY <1>15 DEF DrawBlock
  <2>2. painted' = painted \cup new
    BY <1>15 DEF DrawBlock, Gutter
  <2>3. nextBlock \in DOMAIN placed.placed
    BY <1>1, <1>5, <1>7
  <2>4. p.lines \in Seq(Seq(Glyphs)) /\ p.marker \in Seq(Glyphs)
    BY <1>5, <2>3
  <2>5. /\ \A key \in DOMAIN glyphCache' : key \in Keys /\ glyphCache'[key] = Outline(key[1], key[2])
        /\ BlockMarks(nextBlock) \subseteq new
    <3> DEFINE q == p
               c == Cached(GlyphsDrawn(q))
    <3>1. /\ CacheSound /\ q = placed.placed[nextBlock] /\ q.kind # "rule"
          /\ q.lines \in Seq(Seq(Glyphs)) /\ q.marker \in Seq(Glyphs)
      BY <1>15, <2>4 DEF DrawInv
    <3>2. glyphCache' = c
      BY <2>1
    <3> HIDE DEF p, q, c
    <3>3. c = Cached(GlyphsDrawn(q))
      BY DEF c
    <3>4. /\ \A key \in DOMAIN c : key \in Keys /\ c[key] = Outline(key[1], key[2])
          /\ BlockMarks(nextBlock) \subseteq Marks(nextBlock, q.lines, c)
                \cup Gutter(Marks(nextBlock, <<q.marker>>, c))
      BY <3>1, BlockDrawn DEF c
    <3> QED
      BY <3>2, <3>4 DEF q
  <2>6. Passed' /\ nextBlock' \in Nat
    <3> HIDE DEF new
    <3> QED
      BY <1>13, <1>15, <2>1, <2>2, <2>5
  <2>7. CacheSound'
    BY <2>5 DEF CacheSound
  <2> QED
    BY <1>11, <2>6, <2>7
<1> QED
  BY <1>12, <1>14, <1>15

\* The crop is the part of the page that was asked for.
LEMMA CropDraws ==
  ASSUME IInv, DrawInv, Crop
  PROVE  DrawInv'
<1>1. /\ call.stage = "draw" /\ Asked /\ Laid /\ Sized /\ Passed
      /\ nextBlock > Len(placed.placed)
  BY DEF Crop, At, DrawInv, StageInv
<1>2. /\ renderer' = renderer /\ glyphCache' = glyphCache /\ nextBlock' = nextBlock
      /\ placed' = placed /\ pixmap' = pixmap /\ painted' = painted
      /\ sinkFailed' = sinkFailed /\ got' = got /\ rc' = rc /\ reported' = reported
      /\ view' = IF Shot.clip.w > 0 THEN Cropped(Shot) ELSE pixmap
  BY DEF Crop
<1>3. /\ call'.stage = "encode" /\ call'.op = call.op /\ call'.doc = call.doc
      /\ call'.shot = call.shot
  BY ToKeeps DEF IInv, Crop
<1>4. Shot' = Shot /\ ContentHeight' = ContentHeight
  BY <1>2, <1>3 DEF Shot, ContentHeight
<1>5. Asked' /\ Laid' /\ Sized'
  BY <1>1, <1>2, <1>3, <1>4 DEF Asked, Laid, Sized
<1>6. Passed'
  <2>1. \A i : BlockMarks(i)' = BlockMarks(i)
    BY <1>2 DEF BlockMarks
  <2>2. \A p : BelowRaster(p)' = BelowRaster(p)
    BY <1>2 DEF BelowRaster
  <2> QED
    BY <1>1, <1>2, <2>1, <2>2 DEF Passed
<1>7. Seen'
  <2>1. Cropped(Shot)' = Cropped(Shot)
    BY <1>2, <1>4 DEF Cropped
  <2> QED
    BY <1>1, <1>2, <1>4, <2>1 DEF Seen
<1>8. StageInv'
  BY <1>3, <1>5, <1>6, <1>7 DEF StageInv, At
<1>9. TypeOK'
  BY <1>2, <1>3 DEF DrawInv, TypeOK, Stages
<1>10. CacheSound'
  BY <1>2 DEF DrawInv, CacheSound
<1> QED
  BY <1>8, <1>9, <1>10 DEF DrawInv

\* A step that shows nothing: the call goes on, or to drop, or ends.
LEMMA QuietDraws ==
  ASSUME DrawInv, UNCHANGED <<renderer, glyphCache, placed, pixmap, nextBlock, painted, view>>,
         call'.op = call.op, call'.doc = call.doc, call'.shot = call.shot,
         call'.stage = call.stage \/ call'.stage = "done"
           \/ (call.stage = "encode" /\ call'.stage = "drop"),
         sinkFailed' \in BOOLEAN, rc' \in Codes, reported' \in Nat,
         Len(got') <= Len(Chunks) + 1
  PROVE  DrawInv'
<1>1. StageInv'
  BY DrawingKept DEF DrawInv
<1>2. call'.stage \in Stages
  BY DEF DrawInv, TypeOK, Stages
<1>3. TypeOK'
  BY <1>2, TypeKept DEF DrawInv
<1>4. CacheSound'
  BY DEF DrawInv, CacheSound
<1> QED
  BY <1>1, <1>3, <1>4 DEF DrawInv

\* The steps of the encoder.
LEMMA EncodeDraws ==
  ASSUME IInv, DrawInv, NEW answer \in Answers, Encode(answer)
  PROVE  DrawInv'
<1> DEFINE chunk == Chunks[Len(got) + 1]
<1>1. At("encode") /\ Offer(chunk, answer)
  BY DEF Encode
<1>2. UNCHANGED <<renderer, glyphCache, placed, pixmap, nextBlock, painted, view>>
  BY DEF Encode
<1>3. CallShape /\ RefusalEnds /\ SinkKnows /\ Len(got) \in Nat /\ Len(got) < 3
  BY <1>1, ChunksAre DEF IInv, FileInv, CallShape
<1>4. chunk \in Parts
  <2> DEFINE n == Len(got)
  <2>1. n \in Nat /\ n < 3
    BY <1>3
  <2> HIDE DEF n
  <2>2. n \in 0 .. 2
    BY <2>1
  <2> QED
    BY <2>2, NextPart DEF n
<1> HIDE DEF chunk
<1>5. sinkFailed' \in BOOLEAN /\ Len(got') <= Len(Chunks) + 1
  <2>1. /\ sinkFailed' \in BOOLEAN /\ (sinkFailed => got' = got)
        /\ (~sinkFailed => Len(got') = Len(got) + 1)
    BY <1>1, <1>3, <1>4, OfferKeeps
  <2> QED
    BY <1>3, <2>1, ChunksAre
<1>6. Asked /\ Laid /\ call.stage = "encode" /\ rc \in Codes /\ reported \in Nat
  BY <1>1 DEF At, DrawInv, StageInv, TypeOK
<1>7. ContentHeight \in Nat
  BY <1>6, ContentHeightIs
<1>8. ASSUME NEW c \in {"ok", "encodeFailed"}, Return(c, ContentHeight) PROVE DrawInv'
  <2>1. To("done") /\ reported' = ContentHeight /\ rc' \in Codes
    BY <1>8 DEF Return, Codes
  <2>2. /\ call'.stage = "done" /\ call'.op = call.op /\ call'.doc = call.doc
        /\ call'.shot = call.shot
    BY <1>3, <2>1, ToKeeps
  <2> QED
    BY <1>2, <1>5, <1>7, <2>1, <2>2, QuietDraws
<1>9. ASSUME UNCHANGED <<call, rc, reported>> PROVE DrawInv'
  BY <1>2, <1>5, <1>6, <1>9, QuietDraws
<1>10. ASSUME To("drop"), UNCHANGED <<rc, reported>> PROVE DrawInv'
  <2>1. /\ call'.stage = "drop" /\ call'.op = call.op /\ call'.doc = call.doc
        /\ call'.shot = call.shot
    BY <1>3, <1>10, ToKeeps
  <2> QED
    BY <1>2, <1>5, <1>6, <1>10, <2>1, QuietDraws
<1>11. /\ answer = "taken" /\ chunk = "end"   => Return("ok", ContentHeight)
       /\ answer = "taken" /\ chunk # "end"   => UNCHANGED <<call, rc, reported>>
       /\ answer = "refused" /\ chunk = "end" => Return("encodeFailed", ContentHeight)
       /\ answer = "refused" /\ chunk # "end" => To("drop") /\ UNCHANGED <<rc, reported>>
  BY EncodeEnds DEF chunk
<1> QED
  BY <1>8, <1>9, <1>10, <1>11 DEF Answers

\* The trailer of a dropped encoder, and a panic.
LEMMA EndsDraw ==
  ASSUME IInv, DrawInv,
         EncoderFails \/ \E answer \in Answers : DropEncoder(answer) \/ Panic(answer)
  PROVE  DrawInv'
<1>1. CallShape /\ RefusalEnds /\ SinkKnows /\ Len(got) \in Nat /\ rc \in Codes /\ reported \in Nat
      /\ sinkFailed \in BOOLEAN /\ Len(got) <= Len(Chunks) + 1
  BY DEF IInv, CallShape, DrawInv, TypeOK
<1>2. ASSUME NEW answer \in Answers, Offer("end", answer), sinkFailed \/ Len(got) < 3
      PROVE  sinkFailed' \in BOOLEAN /\ Len(got') <= Len(Chunks) + 1
  <2>1. /\ sinkFailed' \in BOOLEAN /\ (sinkFailed => got' = got)
        /\ (~sinkFailed => Len(got') = Len(got) + 1)
    BY <1>1, <1>2, OfferKeeps DEF Parts
  <2> QED
    BY <1>1, <1>2, <2>1, ChunksAre
<1>3. CASE EncoderFails
  <2>1. /\ UNCHANGED <<renderer, glyphCache, placed, pixmap, nextBlock, painted, view>>
        /\ UNCHANGED <<got, sinkFailed, rc, reported>> /\ call.stage = "encode" /\ To("drop")
    BY <1>3 DEF EncoderFails, Compressing, At
  <2>2. /\ call'.stage = "drop" /\ call'.op = call.op /\ call'.doc = call.doc
        /\ call'.shot = call.shot
    BY <1>1, <2>1, ToKeeps
  <2> QED
    BY <1>1, <2>1, <2>2, QuietDraws
<1>4. ASSUME NEW answer \in Answers, DropEncoder(answer) PROVE DrawInv'
  <2>1. /\ UNCHANGED <<renderer, glyphCache, placed, pixmap, nextBlock, painted, view>>
        /\ At("drop") /\ Offer("end", answer) /\ Return("encodeFailed", ContentHeight)
    BY <1>4 DEF DropEncoder
  <2>2. Asked /\ Laid /\ (sinkFailed \/ Len(got) < 3)
    BY <1>1, <2>1 DEF At, DrawInv, StageInv, IInv, FileInv
  <2>3. To("done") /\ reported' = ContentHeight /\ rc' \in Codes
    BY <2>1 DEF Return, Codes
  <2>4. /\ call'.stage = "done" /\ call'.op = call.op /\ call'.doc = call.doc
        /\ call'.shot = call.shot
    BY <1>1, <2>3, ToKeeps
  <2>5. reported' \in Nat
    BY <2>2, <2>3, ContentHeightIs
  <2>6. sinkFailed' \in BOOLEAN /\ Len(got') <= Len(Chunks) + 1
    BY <1>2, <2>1, <2>2
  <2> QED
    BY <2>1, <2>3, <2>4, <2>5, <2>6, QuietDraws
<1>5. ASSUME NEW answer \in Answers, Panic(answer) PROVE DrawInv'
  <2>1. /\ UNCHANGED <<renderer, glyphCache, placed, pixmap, nextBlock, painted, view>>
        /\ reported' = reported /\ To("done") /\ rc' \in Codes
    BY <1>5 DEF Panic, Codes
  <2>2. /\ call'.stage = "done" /\ call'.op = call.op /\ call'.doc = call.doc
        /\ call'.shot = call.shot
    BY <1>1, <2>1, ToKeeps
  <2>3. sinkFailed' \in BOOLEAN /\ Len(got') <= Len(Chunks) + 1
    <3>1. CASE At("encode")
      <4>1. Offer("end", answer) /\ Len(got) < 2
        BY <1>5, <3>1 DEF Panic, Compressing, At
      <4> QED
        BY <1>1, <1>2, <4>1
    <3>2. CASE ~At("encode")
      BY <1>1, <1>5, <3>2 DEF Panic
    <3> QED
      BY <3>1, <3>2
  <2> QED
    BY <1>1, <2>1, <2>2, <2>3, QuietDraws
<1> QED
  BY <1>3, <1>4, <1>5

\* The export draws nothing on a raster.
LEMMA ExportDraws ==
  ASSUME IInv, DrawInv, ExportLayout
  PROVE  DrawInv'
<1>1. To("done") /\ rc' \in Codes
  BY DEF ExportLayout, Codes
<1>2. call'.stage = "done" /\ call'.op = call.op
  BY <1>1, ToKeeps DEF IInv
<1>3. /\ renderer' = renderer /\ glyphCache' = glyphCache /\ nextBlock' = nextBlock
      /\ pixmap' = pixmap /\ sinkFailed' = sinkFailed /\ got' = got /\ reported' = reported
  BY DEF ExportLayout
<1>4. TypeOK'
  <2>1. /\ sinkFailed' \in BOOLEAN /\ reported' \in Nat /\ Len(got') <= Len(Chunks) + 1
        /\ call'.stage \in Stages
    BY <1>2, <1>3 DEF DrawInv, TypeOK, Stages
  <2> QED
    BY <1>1, <1>2, <1>3, <2>1, TypeKept DEF DrawInv
<1>5. StageInv'
  BY <1>2 DEF StageInv, At
<1>6. CacheSound'
  BY <1>3 DEF DrawInv, CacheSound
<1> QED
  BY <1>4, <1>5, <1>6 DEF DrawInv

\* The first use creates the renderer; the state may stay as it is.
LEMMA IdleDraws ==
  ASSUME DrawInv, NewRenderer \/ UNCHANGED vars
  PROVE  DrawInv'
<1>1. /\ renderer' \in {"none", "live"} /\ glyphCache' = glyphCache /\ call' = call
      /\ UNCHANGED <<placed, pixmap, nextBlock, painted, view, got, sinkFailed, rc, reported>>
  BY DEF DrawInv, TypeOK, NewRenderer, vars
<1>2. TypeOK'
  BY <1>1 DEF DrawInv, TypeOK
<1>3. StageInv'
  BY <1>1, DrawingKept DEF DrawInv
<1>4. CacheSound'
  BY <1>1 DEF DrawInv, CacheSound
<1> QED
  BY <1>2, <1>3, <1>4 DEF DrawInv

\* Every step.
LEMMA StepDraws == IInv /\ DrawInv /\ [Next]_vars => DrawInv'
<1> SUFFICES ASSUME IInv, DrawInv, [Next]_vars PROVE DrawInv'
  OBVIOUS
<1>1. CASE UNCHANGED vars
  BY <1>1, IdleDraws
<1>2. CASE Next
  <2>1. ASSUME NEW d \in Docs, NEW o \in Shots, RenderPng(d, o) PROVE DrawInv'
    BY <2>1, CallsDraw
  <2>2. ASSUME NEW d \in Docs, NEW p \in Papers, NewLayout(d, p) PROVE DrawInv'
    BY <2>2, CallsDraw
  <2>3. ASSUME NEW answer \in Answers, Encode(answer) PROVE DrawInv'
    BY <2>3, EncodeDraws
  <2> QED
    BY <1>2, <2>1, <2>2, <2>3, IdleDraws, PlaceDraws, RasterDraws, BlockDraws, CropDraws,
       EndsDraw, ExportDraws DEF Next
<1> QED
  BY <1>1, <1>2

\* What a PNG call has made at each of its stages (Renderer::render): the blocks
\* laid out for it, a raster of its size, the marks of the blocks the loop has
\* passed, the part that is encoded.
THEOREM DrawInvariant == Spec => []DrawInv
  BY OfferInvariant, InitDraws, StepDraws, PTL DEF Spec

\* The raster is within its limits and never empty, what is encoded is a part of
\* it, and a clip inside the page is shown whole, in its place and size, whenever
\* a raster that reaches its lower edge is allowed (Renderer::render).
THEOREM ClipIsShown == Spec => []ClipShown
<1>1. DrawInv => ClipShown
  <2> SUFFICES ASSUME DrawInv, Rasterized PROVE ClipShown
    BY DEF ClipShown, RasterFits
  <2> DEFINE clip == Shot.clip
             o == Shot
             content == ContentHeight
             reach == clip.y + clip.h
  <2>1. /\ call.stage \in {"draw", "encode", "drop"} /\ Asked /\ Laid /\ Sized
        /\ (call.stage \in {"encode", "drop"} => Seen)
    BY DEF DrawInv, StageInv, Rasterized
  <2>2. /\ pixmap.x = 0 /\ pixmap.y = 0
        /\ pixmap.w = RasterWidth(o) /\ pixmap.h = RasterHeight(o, content)
        /\ pixmap.w \in 1 .. MaxRasterDim /\ pixmap.h \in 1 .. MaxRasterDim
        /\ pixmap.w \in Int /\ pixmap.w >= 1 /\ pixmap.h \in Int /\ pixmap.h >= 1
    BY <2>1, SizedIs
  <2>3. o \in Shots /\ ValidShot(o) /\ content \in Int /\ content >= 1
    BY <2>1, ContentHeightIs DEF Asked
  <2>4. /\ o.width \in Int /\ o.s \in Int /\ o.s >= 1 /\ clip.x \in Int /\ clip.y \in Int
        /\ clip.w \in Int /\ clip.h \in Int
    BY <2>3, ShotsAre
  <2>5. pixmap.w * pixmap.h <= MaxRasterPixels \/ pixmap.h = 1
    BY <2>2, <2>3, RasterIs
  <2>6. /\ Cropped(o).x >= 0 /\ Cropped(o).y >= 0 /\ Cropped(o).w >= 1 /\ Cropped(o).h >= 1
        /\ Cropped(o).x + Cropped(o).w <= pixmap.w /\ Cropped(o).y + Cropped(o).h <= pixmap.h
    BY <2>2, <2>3, CropIs
  <2>7. RasterFits
    <3>1. call.stage \in {"encode", "drop"} =>
            /\ view.x >= 0 /\ view.y >= 0 /\ view.w >= 1 /\ view.h >= 1
            /\ view.x + view.w <= pixmap.w /\ view.y + view.h <= pixmap.h
      <4> SUFFICES ASSUME Seen
                   PROVE  /\ view.x >= 0 /\ view.y >= 0 /\ view.w >= 1 /\ view.h >= 1
                          /\ view.x + view.w <= pixmap.w /\ view.y + view.h <= pixmap.h
        BY <2>1
      <4>1. CASE clip.w > 0
        BY <2>6, <4>1 DEF Seen
      <4>2. CASE ~(clip.w > 0)
        BY <2>2, <4>2 DEF Seen
      <4> QED
        BY <4>1, <4>2
    <3> QED
      BY <2>2, <2>5, <3>1 DEF RasterFits
  <2>8. ASSUME ~At("draw"), clip.w > 0, InPage(clip), Allowed(o.width, reach)
        PROVE  /\ view.x = (clip.x * o.s) \div 2 /\ view.y = (clip.y * o.s) \div 2
               /\ view.w = Device(clip.w, o.s) /\ view.h = Device(clip.h, o.s)
    <3>1. view = Cropped(o)
      BY <2>1, <2>8 DEF At, Seen
    <3>2. /\ clip.x >= 0 /\ clip.x + clip.w <= o.width /\ clip.w >= 1
          /\ clip.y >= 0 /\ clip.h >= 1 /\ reach <= content
      BY <2>4, <2>8 DEF InPage
    <3>3. /\ Device(o.width, o.s) <= MaxRasterDim /\ Device(reach, o.s) <= MaxRasterDim
          /\ Device(o.width, o.s) * Device(reach, o.s) <= MaxRasterPixels
      BY <2>8 DEF Allowed
    <3>4. pixmap.w = Device(o.width, o.s)
      BY <2>2, <2>3, <3>3, RasterIs
    <3>5. StripHeight(o, content) \in Int /\ reach <= StripHeight(o, content)
      BY <2>3, <2>4, <2>8, <3>2, StripIs
    <3>6. /\ 0 <= (clip.x * o.s) \div 2 /\ 1 <= Device(clip.w, o.s)
          /\ (clip.x * o.s) \div 2 + Device(clip.w, o.s) <= pixmap.w
      BY <2>4, <3>2, <3>4, StretchFits
    <3>7. /\ 0 <= (clip.y * o.s) \div 2 /\ 1 <= Device(clip.h, o.s)
          /\ (clip.y * o.s) \div 2 \in Int /\ Device(clip.h, o.s) \in Int
          /\ (clip.y * o.s) \div 2 + Device(clip.h, o.s) <= Device(reach, o.s)
      <4> DEFINE a == clip.y
                 n == clip.h
                 r == reach
                 s == o.s
      <4>1. /\ a \in Int /\ n \in Int /\ r \in Int /\ s \in Int /\ s >= 1
            /\ 0 <= a /\ 1 <= n /\ a + n <= r
        BY <2>4, <3>2
      <4> HIDE DEF a, n, r, s
      <4>2. /\ 0 <= (a * s) \div 2 /\ (a * s) \div 2 \in Int
            /\ 1 <= Device(n, s) /\ Device(n, s) \in Int
            /\ (a * s) \div 2 + Device(n, s) <= Device(r, s)
        BY <4>1, StretchFits
      <4> QED
        BY <4>2 DEF a, n, r, s
    <3>8. Device(reach, o.s) \in Nat /\ Device(reach, o.s) <= Device(StripHeight(o, content), o.s)
      <4> DEFINE r == reach
                 st == StripHeight(o, content)
                 s == o.s
      <4>1. r \in Int /\ st \in Int /\ r <= st /\ s \in Int /\ s >= 1
        BY <2>4, <3>5
      <4> HIDE DEF r, st, s
      <4>2. Device(r, s) \in Int /\ Device(r, s) <= Device(st, s)
        BY <4>1, DeviceGrows
      <4>3. Device(reach, o.s) \in Int /\ Device(reach, o.s) <= Device(StripHeight(o, content), o.s)
        BY <4>2 DEF r, st, s
      <4> DEFINE d == Device(reach, o.s)
                 f == (clip.y * o.s) \div 2
                 h == Device(clip.h, o.s)
      <4>4. d \in Int /\ f \in Int /\ h \in Int /\ 0 <= f /\ 1 <= h /\ f + h <= d
        BY <3>7, <4>3
      <4> HIDE DEF d, f, h
      <4>5. d \in Nat
        BY <4>4
      <4> QED
        BY <4>3, <4>5 DEF d
    <3>9. Device(reach, o.s) <= pixmap.h
      BY <2>2, <2>3, <3>3, <3>8, RasterIs
    <3>10. (clip.y * o.s) \div 2 + Device(clip.h, o.s) <= pixmap.h
      BY <2>2, <3>7, <3>8, <3>9
    <3>11. /\ Cropped(o).x = (clip.x * o.s) \div 2 /\ Cropped(o).w = Device(clip.w, o.s)
           /\ Cropped(o).y = (clip.y * o.s) \div 2 /\ Cropped(o).h = Device(clip.h, o.s)
      BY <2>2, <2>3, <3>6, <3>7, <3>10, CropIs
    <3> QED
      BY <3>1, <3>11
  <2> QED
    BY <2>7, <2>8 DEF ClipShown
<1> QED
  BY <1>1, DrawInvariant, PTL

\* Whatever starts on the raster is on it when it is encoded, every glyph in its
\* own outline, whatever the cache kept from earlier calls (draw_glyph_run).
THEOREM TextIsDrawn == Spec => []TextDrawn
<1>1. DrawInv => TextDrawn
  <2> SUFFICES ASSUME DrawInv, Rasterized, ~At("draw"), NEW i \in DOMAIN placed.placed,
                      placed.placed[i].y < 2 * pixmap.h
               PROVE  BlockMarks(i) \subseteq painted
    BY DEF TextDrawn, DrawInv
  <2>1. Asked /\ Laid /\ Sized /\ Passed /\ Seen
    BY DEF DrawInv, StageInv, Rasterized, At
  <2>2. /\ DOMAIN placed.placed = 1 .. Len(placed.placed) /\ Len(placed.placed) \in Nat
        /\ placed.placed[i].y \in Nat
    BY <2>1, LaidIs
  <2>3. pixmap.h \in Int
    BY <2>1, SizedIs
  <2>4. nextBlock \in Nat /\ nextBlock > Len(placed.placed)
    BY <2>1 DEF DrawInv, TypeOK, Seen
  <2>5. i < nextBlock
    BY <2>2, <2>4
  <2>6. ~BelowRaster(placed.placed[i])
    BY <2>2, <2>3 DEF BelowRaster
  <2> QED
    BY <2>1, <2>5, <2>6 DEF Passed
<1> QED
  BY <1>1, DrawInvariant, PTL

-----------------------------------------------------------------------------
(* Sequences of sequences.                                                 *)

\* The first i sequences of ss, one after the other.
FlatUpTo(ss) ==
  CHOOSE f : f = [i \in 1 .. Len(ss) |-> IF i = 1 THEN ss[i] ELSE f[i - 1] \o ss[i]]
FlatTo(ss, i) == IF i = 0 THEN <<>> ELSE FlatUpTo(ss)[i]

\* There is such a function.
LEMMA FlatRecur ==
  ASSUME NEW ss, Len(ss) \in Nat
  PROVE  LET f == FlatUpTo(ss)
         IN /\ \A i \in 1 .. Len(ss) : f[i] = IF i = 1 THEN ss[i] ELSE f[i - 1] \o ss[i]
            /\ FlattenSeq(ss) = IF Len(ss) = 0 THEN ss ELSE f[Len(ss)]
<1> DEFINE n == Len(ss)
           Step(f, i) == IF i = 1 THEN ss[i] ELSE f[i - 1] \o ss[i]
           Of(f, m) == f = [i \in 1 .. m |-> Step(f, i)]
           S == {m \in Nat : \E f : Of(f, m)}
           t == FlatUpTo(ss)
<1>1. 0 \in S
  <2> DEFINE f == [i \in 1 .. 0 |-> 0]
  <2>1. f = [i \in 1 .. 0 |-> Step(f, i)]
    OBVIOUS
  <2> QED
    BY <2>1
<1>2. ASSUME NEW m \in Nat, m \in S PROVE m + 1 \in S
  <2>1. PICK f : Of(f, m)
    BY <1>2
  <2> DEFINE g == [i \in 1 .. (m + 1) |-> IF i = m + 1 THEN Step(f, i) ELSE f[i]]
  <2>2. \A i \in 1 .. m : f[i] = Step(f, i)
    <3> HIDE DEF Step
    <3> QED
      BY <2>1
  <2>3. ASSUME NEW i \in 1 .. (m + 1) PROVE g[i] = Step(g, i)
    <3>1. i # 1 => i - 1 \in 1 .. m /\ g[i - 1] = f[i - 1]
      <4> HIDE DEF Step
      <4> QED
        OBVIOUS
    <3>2. Step(g, i) = Step(f, i)
      <4> HIDE DEF g
      <4> QED
        BY <3>1, Zenon
    <3>3. i # m + 1 => i \in 1 .. m
      OBVIOUS
    <3> HIDE DEF Step
    <3> QED
      BY <2>2, <3>2, <3>3
  <2> HIDE DEF Step
  <2>4. g = [i \in 1 .. (m + 1) |-> g[i]]
    OBVIOUS
  <2> HIDE DEF g
  <2>5. g = [i \in 1 .. (m + 1) |-> Step(g, i)]
    BY <2>3, <2>4
  <2> QED
    BY <2>5
<1>3. \E f : Of(f, n)
  <2>1. Nat \subseteq S
    <3> HIDE DEF S
    <3> QED
      BY <1>1, <1>2, SetInduction
  <2> HIDE DEF Of
  <2> QED
    BY <2>1
<1>4. Of(t, n)
  BY <1>3, Zenon DEF FlatUpTo
<1>5. FlattenSeq(ss) = IF n = 0 THEN ss ELSE t[n]
  BY DEF FlattenSeq, FlatUpTo
<1>6. \A i \in 1 .. n : t[i] = Step(t, i)
  <2> HIDE DEF t, Step, n
  <2> QED
    BY <1>4
<1> QED
  BY <1>5, <1>6, Zenon

\* What is put together piece by piece is the whole.
LEMMA Flattened ==
  ASSUME NEW X, NEW ss \in Seq(Seq(X))
  PROVE  /\ FlatTo(ss, 0) = <<>> /\ FlattenSeq(ss) = FlatTo(ss, Len(ss))
         /\ \A i \in 1 .. Len(ss) : FlatTo(ss, i) = FlatTo(ss, i - 1) \o ss[i]
         /\ \A i \in 0 .. Len(ss) : FlatTo(ss, i) \in Seq(X)
<1> DEFINE n == Len(ss)
           t == FlatUpTo(ss)
           F(i) == FlatTo(ss, i)
           S == {m \in Nat : m <= n => F(m) \in Seq(X)}
<1>1. n \in Nat /\ \A i \in 1 .. n : ss[i] \in Seq(X)
  OBVIOUS
<1>2. /\ \A i \in 1 .. n : t[i] = IF i = 1 THEN ss[i] ELSE t[i - 1] \o ss[i]
      /\ FlattenSeq(ss) = IF n = 0 THEN ss ELSE t[n]
  BY <1>1, FlatRecur
<1>3. F(0) = <<>> /\ \A i \in 1 .. n : F(i) = t[i]
  BY DEF FlatTo
<1>4. FlattenSeq(ss) = F(n)
  <2>1. n = 0 => ss = <<>>
    OBVIOUS
  <2>2. n # 0 => n \in 1 .. n
    BY <1>1
  <2> HIDE DEF n, t, F
  <2> QED
    BY <1>2, <1>3, <2>1, <2>2
<1> HIDE DEF n, t, F
<1>5. \A i \in 1 .. n : F(i) = F(i - 1) \o ss[i]
  <2> TAKE i \in 1 .. n
  <2>1. CASE i = 1
    <3>1. i - 1 = 0
      BY <2>1
    <3>2. F(i) = ss[i] /\ F(i - 1) = <<>>
      BY <1>2, <1>3, <2>1, <3>1, Zenon
    <3>3. ss[i] \in Seq(X)
      BY <1>1
    <3>4. <<>> \o ss[i] = ss[i]
      BY <3>3, ConcatEmptySeq
    <3> QED
      BY <3>2, <3>4, Zenon
  <2>2. CASE i # 1
    <3>1. i - 1 \in 1 .. n
      BY <1>1, <2>2
    <3> QED
      BY <1>2, <1>3, <2>2, <3>1
  <2> QED
    BY <2>1, <2>2
<1>6. \A i \in 0 .. n : F(i) \in Seq(X)
  <2>1. 0 \in S
    <3>1. <<>> \in Seq(X)
      OBVIOUS
    <3> QED
      BY <1>3, <3>1
  <2>2. ASSUME NEW m \in Nat, m \in S PROVE m + 1 \in S
    <3> SUFFICES ASSUME m + 1 <= n PROVE F(m + 1) \in Seq(X)
      OBVIOUS
    <3>1. F(m) \in Seq(X) /\ m + 1 \in 1 .. n /\ (m + 1) - 1 = m
      BY <1>1, <2>2
    <3>2. ss[m + 1] \in Seq(X) /\ F(m + 1) = F(m) \o ss[m + 1]
      BY <1>1, <1>5, <3>1
    <3>3. F(m) \o ss[m + 1] \in Seq(X)
      BY <3>1, <3>2, ConcatProperties
    <3> QED
      BY <3>2, <3>3, Zenon
  <2>3. Nat \subseteq S
    <3> HIDE DEF S
    <3> QED
      BY <2>1, <2>2, SetInduction
  <2> QED
    BY <2>3
<1> QED
  BY <1>3, <1>4, <1>5, <1>6 DEF n, F

\* Whatever grows in the same pieces is the same.
LEMMA FlatIs ==
  ASSUME NEW X, NEW ss \in Seq(Seq(X)), NEW G, G[0] = <<>>,
         \A i \in 1 .. Len(ss) : G[i] = G[i - 1] \o ss[i]
  PROVE  FlattenSeq(ss) = G[Len(ss)]
<1> DEFINE n == Len(ss)
           S == {m \in Nat : m <= n => FlatTo(ss, m) = G[m]}
<1>1. n \in Nat
  OBVIOUS
<1>2. /\ FlatTo(ss, 0) = <<>> /\ FlattenSeq(ss) = FlatTo(ss, n)
      /\ \A i \in 1 .. n : FlatTo(ss, i) = FlatTo(ss, i - 1) \o ss[i]
  BY Flattened
<1> HIDE DEF n
<1>3. 0 \in S
  BY <1>2
<1>4. ASSUME NEW m \in Nat, m \in S PROVE m + 1 \in S
  <2> SUFFICES ASSUME m + 1 <= n PROVE FlatTo(ss, m + 1) = G[m + 1]
    OBVIOUS
  <2>1. FlatTo(ss, m) = G[m] /\ m + 1 \in 1 .. n /\ (m + 1) - 1 = m
    BY <1>1, <1>4
  <2> QED
    BY <1>2, <2>1 DEF n
<1>5. n \in S
  <2> HIDE DEF S
  <2> QED
    BY <1>1, <1>3, <1>4, SetInduction
<1> QED
  BY <1>1, <1>2, <1>5 DEF n

-----------------------------------------------------------------------------
(* The pages.                                                              *)

\* Boxes that follow one another from 0 down.
Box      == [top : Int, bottom : Int]
Chain(s) == /\ s \in Seq(Box)
            /\ \A k \in 1 .. Len(s) : 0 <= s[k].top /\ s[k].top < s[k].bottom
            /\ \A j, k \in 1 .. Len(s) : j < k => s[j].bottom <= s[k].top

\* A box has its place on page p.
SitsOn(box, br, p, high) ==
  /\ br[p] <= box.top
  /\ box.bottom - br[p] <= high \/ box.top = br[p]
  /\ p < Len(br) => box.bottom <= br[p + 1]

\* The pages once the first m boxes are on them.
Broken(boxes, br, m, high) ==
  /\ br \in Seq(Int) /\ Len(br) >= 1
  /\ \A p \in 2 .. Len(br) : br[p - 1] < br[p]
  /\ \A j \in 1 .. m : \E p \in 1 .. Len(br) : SitsOn(boxes[j], br, p, high)
  /\ \A j \in (m + 1) .. Len(boxes) : br[Len(br)] <= boxes[j].top

\* The pages after the first k boxes.
PagesNext(boxes, high, f, k) == IF k = 0 THEN <<0>> ELSE FitBox(f[k - 1], boxes[k], high)
PagesUpTo(boxes, high) == CHOOSE f : f = [k \in 0 .. Len(boxes) |-> PagesNext(boxes, high, f, k)]

\* There are such pages.
LEMMA PagesRecur ==
  ASSUME NEW lay, NEW high, NEW pad, NEW px, NEW boxes, boxes = AllBoxes(lay, pad, px),
         Len(boxes) \in Nat
  PROVE  LET f == PagesUpTo(boxes, high)
         IN /\ f[0] = <<0>>
            /\ \A k \in 1 .. Len(boxes) : f[k] = FitBox(f[k - 1], boxes[k], high)
            /\ Paginate(lay, high, pad, px) = f[Len(boxes)]
<1> DEFINE n == Len(boxes)
           Step(f, k) == PagesNext(boxes, high, f, k)
           Of(f, m) == f = [k \in 0 .. m |-> Step(f, k)]
           S == {m \in Nat : \E f : Of(f, m)}
           t == PagesUpTo(boxes, high)
<1>1. 0 \in S
  <2> DEFINE f == [k \in 0 .. 0 |-> <<0>>]
  <2>1. f = [k \in 0 .. 0 |-> Step(f, k)]
    BY DEF PagesNext
  <2> QED
    BY <2>1
<1>2. ASSUME NEW m \in Nat, m \in S PROVE m + 1 \in S
  <2>1. PICK f : Of(f, m)
    BY <1>2
  <2> DEFINE g == [k \in 0 .. (m + 1) |-> IF k = m + 1 THEN Step(f, k) ELSE f[k]]
  <2>2. \A k \in 0 .. m : f[k] = Step(f, k)
    <3> HIDE DEF Step
    <3> QED
      BY <2>1
  <2>3. ASSUME NEW k \in 0 .. (m + 1) PROVE g[k] = Step(g, k)
    <3>1. k # 0 => k - 1 \in 0 .. m /\ g[k - 1] = f[k - 1]
      <4> HIDE DEF Step
      <4> QED
        OBVIOUS
    <3>2. Step(g, k) = Step(f, k)
      <4> HIDE DEF g
      <4> QED
        BY <3>1, Zenon DEF PagesNext
    <3>3. k # m + 1 => k \in 0 .. m
      OBVIOUS
    <3> HIDE DEF Step
    <3> QED
      BY <2>2, <3>2, <3>3
  <2> HIDE DEF Step
  <2>4. g = [k \in 0 .. (m + 1) |-> g[k]]
    OBVIOUS
  <2> HIDE DEF g
  <2>5. g = [k \in 0 .. (m + 1) |-> Step(g, k)]
    BY <2>3, <2>4
  <2> QED
    BY <2>5
<1>3. \E f : Of(f, n)
  <2>1. Nat \subseteq S
    <3> HIDE DEF S
    <3> QED
      BY <1>1, <1>2, SetInduction
  <2> HIDE DEF Of
  <2> QED
    BY <2>1
<1>4. Of(t, n)
  BY <1>3, Zenon DEF PagesUpTo
<1>5. Paginate(lay, high, pad, px) = t[n]
  BY DEF Paginate, PagesUpTo, PagesNext
<1>6. \A k \in 0 .. n : t[k] = Step(t, k)
  <2> HIDE DEF t, Step, n
  <2> QED
    BY <1>4
<1> HIDE DEF t, n
<1>7. t[0] = <<0>>
  <2>1. 0 \in 0 .. n
    BY DEF n
  <2> QED
    BY <1>6, <2>1, Zenon DEF PagesNext
<1>8. \A k \in 1 .. n : t[k] = FitBox(t[k - 1], boxes[k], high)
  <2> TAKE k \in 1 .. n
  <2>1. k \in 0 .. n /\ k # 0
    BY DEF n
  <2> QED
    BY <1>6, <2>1, Zenon DEF PagesNext
<1> QED
  BY <1>5, <1>7, <1>8 DEF n, t

\* Pages that start lower one after the other do so however far apart they are.
LEMMA Ascends ==
  ASSUME NEW br \in Seq(Int), \A p \in 2 .. Len(br) : br[p - 1] < br[p]
  PROVE  \A p, q \in 1 .. Len(br) : p < q => br[p] < br[q]
<1> DEFINE n == Len(br)
           S == {m \in Nat : \A p \in 1 .. n : p + m + 1 <= n => br[p] < br[p + m + 1]}
<1>1. n \in Nat /\ \A p \in 1 .. n : br[p] \in Int
  OBVIOUS
<1>2. 0 \in S
  <2> SUFFICES ASSUME NEW p \in 1 .. n, p + 1 <= n PROVE br[p] < br[p + 0 + 1]
    OBVIOUS
  <2>1. p + 1 \in 2 .. n /\ (p + 1) - 1 = p /\ p + 0 + 1 = p + 1
    BY <1>1
  <2>2. br[(p + 1) - 1] < br[p + 1]
    BY <2>1
  <2> QED
    BY <2>1, <2>2
<1>3. ASSUME NEW m \in Nat, m \in S PROVE m + 1 \in S
  <2> SUFFICES ASSUME NEW p \in 1 .. n, p + (m + 1) + 1 <= n PROVE br[p] < br[p + (m + 1) + 1]
    OBVIOUS
  <2> DEFINE q == p + m + 1
  <2>1. q \in 1 .. n /\ q + 1 \in 2 .. n /\ (q + 1) - 1 = q /\ p + (m + 1) + 1 = q + 1
    BY <1>1
  <2>2. br[p] < br[q]
    BY <1>3, <2>1
  <2>3. br[(q + 1) - 1] < br[q + 1]
    BY <2>1
  <2>4. br[p] \in Int /\ br[q] \in Int /\ br[q + 1] \in Int
    BY <1>1, <2>1
  <2>5. br[(q + 1) - 1] = br[q]
    BY <2>1
  <2> HIDE DEF q
  <2>6. br[p] < br[q + 1]
    BY <2>2, <2>3, <2>4, <2>5
  <2> QED
    BY <2>1, <2>6
<1>4. Nat \subseteq S
  <2> HIDE DEF S
  <2> QED
    BY <1>2, <1>3, SetInduction
<1>5. ASSUME NEW p \in 1 .. n, NEW q \in 1 .. n, p < q PROVE br[p] < br[q]
  <2>1. (q - p) - 1 \in Nat /\ p + ((q - p) - 1) + 1 = q /\ q <= n
    BY <1>1, <1>5
  <2>2. (q - p) - 1 \in S
    BY <1>4, <2>1
  <2> QED
    BY <2>1, <2>2
<1> QED
  BY <1>5

\* The page a box sits on is the one its top is looked up on.
LEMMA PageFound ==
  ASSUME NEW br \in Seq(Int), \A p \in 2 .. Len(br) : br[p - 1] < br[p],
         NEW box \in Box, box.top < box.bottom,
         NEW p \in 1 .. Len(br), NEW high \in Int, SitsOn(box, br, p, high)
  PROVE  PageOf(br, box.top) = p
<1> DEFINE n == Len(br)
           y == box.top
           above == {k \in DOMAIN br : k = 1 \/ br[k] <= y}
<1>1. n \in Nat /\ DOMAIN br = 1 .. n /\ y \in Int /\ box.bottom \in Int
      /\ \A k \in 1 .. n : br[k] \in Int
  BY DEF Box
<1>2. p \in above
  BY DEF SitsOn
<1>3. ASSUME NEW k \in above PROVE p >= k
  <2> SUFFICES ASSUME p < k PROVE FALSE
    BY <1>1
  <2>1. k \in 1 .. n /\ br[k] <= y
    BY <1>1
  <2>2. p + 1 \in 1 .. n /\ p < n
    BY <1>1, <2>1
  <2>3. box.bottom <= br[p + 1]
    BY <2>2 DEF SitsOn
  <2>4. p + 1 < k => br[p + 1] < br[k]
    BY <2>1, <2>2, Ascends
  <2>5. p + 1 <= k
    BY <2>1
  <2>6. br[p + 1] <= br[k]
    BY <1>1, <2>1, <2>2, <2>4, <2>5
  <2>7. br[p + 1] \in Int /\ br[k] \in Int
    BY <1>1, <2>1, <2>2
  <2> HIDE DEF above, n
  <2> QED
    BY <1>1, <2>1, <2>3, <2>6, <2>7
<1>4. above \subseteq Int
  BY <1>1
<1>5. PageOf(br, y) = CHOOSE k \in above : \A j \in above : k >= j
  BY DEF PageOf
<1> DEFINE c == CHOOSE k \in above : \A j \in above : k >= j
<1> HIDE DEF above
<1>6. c \in above /\ \A j \in above : c >= j
  <2>1. \E k \in above : \A j \in above : k >= j
    BY <1>2, <1>3
  <2> QED
    BY <2>1, Zenon
<1>7. c >= p /\ p >= c /\ c \in Int /\ p \in Int
  BY <1>2, <1>3, <1>4, <1>6
<1> HIDE DEF c
<1>8. c = p
  BY <1>7
<1> QED
  BY <1>5, <1>8 DEF c

\* fit puts the next box on the last page or on a new one.
LEMMA FitKeeps ==
  ASSUME NEW boxes, Chain(boxes), NEW br, NEW m \in Nat, m + 1 <= Len(boxes), NEW high \in Int,
         Broken(boxes, br, m, high)
  PROVE  Broken(boxes, FitBox(br, boxes[m + 1], high), m + 1, high)
<1> DEFINE b == boxes[m + 1]
           l == Len(br)
           new == FitBox(br, b, high)
           n == Len(boxes)
<1>1. /\ n \in Nat /\ m + 1 \in 1 .. n
      /\ \A k \in 1 .. n : /\ boxes[k].top \in Int /\ boxes[k].bottom \in Int
                           /\ boxes[k].top < boxes[k].bottom
      /\ \A j, k \in 1 .. n : j < k => boxes[j].bottom <= boxes[k].top
  <2>1. n \in Nat /\ \A k \in 1 .. n : boxes[k] \in Box
    BY DEF Chain
  <2> HIDE DEF n
  <2>2. \A k \in 1 .. n : boxes[k].top \in Int /\ boxes[k].bottom \in Int
    BY <2>1 DEF Box
  <2> QED
    BY <2>1, <2>2 DEF Chain, n
<1>2a. br \in Seq(Int)
  BY DEF Broken
<1>2. /\ br \in Seq(Int) /\ l \in Nat /\ l >= 1
      /\ \A p \in 1 .. l : br[p] \in Int
      /\ \A p \in 2 .. l : br[p - 1] < br[p]
      /\ \A j \in 1 .. m : \E p \in 1 .. l : SitsOn(boxes[j], br, p, high)
      /\ \A j \in (m + 1) .. n : br[l] <= boxes[j].top
  <2>1. l \in Nat /\ \A p \in 1 .. l : br[p] \in Int
    BY <1>2a
  <2> QED
    BY <1>2a, <2>1, Zenon DEF Broken
<1>3. b.top \in Int /\ b.bottom \in Int /\ b.top < b.bottom /\ br[l] <= b.top /\ br[l] \in Int
  <2>1. m + 1 \in (m + 1) .. n /\ l \in 1 .. l
    BY <1>1, <1>2
  <2> HIDE DEF n, l
  <2> QED
    BY <1>1, <1>2, <2>1
<1>4. new = IF b.bottom - br[l] > high /\ b.top > br[l] THEN Append(br, b.top) ELSE br
  BY DEF FitBox, Last
<1>5. CASE ~(b.bottom - br[l] > high /\ b.top > br[l])
  <2>1. new = br
    BY <1>4, <1>5
  <2>2. SitsOn(b, br, l, high) /\ l \in 1 .. l
    <3> HIDE DEF b
    <3>1. b.bottom - br[l] <= high \/ b.top = br[l]
      BY <1>3, <1>5
    <3> QED
      BY <1>2, <1>3, <3>1 DEF SitsOn
  <2>3. ASSUME NEW j \in 1 .. (m + 1) PROVE \E p \in 1 .. l : SitsOn(boxes[j], br, p, high)
    <3>1. CASE j = m + 1
      BY <2>2, <3>1
    <3>2. CASE j # m + 1
      <4>1. j \in 1 .. m
        BY <3>2
      <4> QED
        BY <1>2, <4>1
    <3> QED
      BY <3>1, <3>2
  <2>4. ASSUME NEW j \in ((m + 1) + 1) .. n PROVE br[l] <= boxes[j].top
    <3>1. j \in (m + 1) .. n
      BY <1>1
    <3> QED
      BY <1>2, <3>1
  <2>5. Broken(boxes, br, m + 1, high)
    BY <1>2, <2>3, <2>4 DEF Broken
  <2> QED
    BY <2>1, <2>5
<1>6. CASE b.bottom - br[l] > high /\ b.top > br[l]
  <2> DEFINE y == b.top
  <2> HIDE DEF y
  <2>1. y \in Int /\ br[l] < y
    BY <1>3, <1>6 DEF y
  <2>2. new = Append(br, y)
    BY <1>4, <1>6 DEF y
  <2> HIDE DEF new
  <2>3. /\ new \in Seq(Int) /\ Len(new) = l + 1 /\ new[l + 1] = y
        /\ \A p \in 1 .. l : new[p] = br[p]
    BY <1>2, <2>1, <2>2
  <2>4. ASSUME NEW p \in 2 .. (l + 1) PROVE new[p - 1] < new[p]
    <3>1. CASE p = l + 1
      <4>1. l \in 1 .. l /\ p - 1 = l
        BY <1>2, <3>1
      <4> QED
        BY <2>1, <2>3, <3>1, <4>1
    <3>2. CASE p # l + 1
      <4>1. p \in 2 .. l /\ p \in 1 .. l /\ p - 1 \in 1 .. l
        BY <1>2, <3>2
      <4> QED
        BY <1>2, <2>3, <4>1
    <3> QED
      BY <3>1, <3>2
  <2>5. ASSUME NEW j \in 1 .. (m + 1) PROVE \E p \in 1 .. (l + 1) : SitsOn(boxes[j], new, p, high)
    <3>1. CASE j = m + 1
      <4>1. new[l + 1] = boxes[j].top /\ l + 1 \in 1 .. (l + 1) /\ boxes[j].top \in Int
        BY <1>2, <1>3, <2>3, <3>1 DEF y
      <4>2. SitsOn(boxes[j], new, l + 1, high)
        BY <1>2, <2>3, <4>1 DEF SitsOn
      <4> QED
        BY <4>1, <4>2
    <3>2. CASE j # m + 1
      <4>1. j \in 1 .. m /\ j \in 1 .. n /\ j < m + 1
        BY <1>1, <3>2
      <4>2. PICK p \in 1 .. l : SitsOn(boxes[j], br, p, high)
        BY <1>2, <4>1
      <4>3. p \in 1 .. (l + 1) /\ new[p] = br[p] /\ p <= l
        BY <1>2, <2>3
      <4>4. boxes[j].bottom <= y
        BY <1>1, <4>1 DEF y
      <4>5. p < Len(new) => boxes[j].bottom <= new[p + 1]
        <5>1. CASE p = l
          BY <2>3, <4>4, <5>1
        <5>2. CASE p # l
          <6>1. p + 1 \in 1 .. l /\ p < l
            BY <1>2, <4>3, <5>2
          <6> QED
            BY <2>3, <4>2, <6>1 DEF SitsOn
        <5> QED
          BY <5>1, <5>2
      <4>6. SitsOn(boxes[j], new, p, high)
        BY <4>2, <4>3, <4>5 DEF SitsOn
      <4> QED
        BY <4>3, <4>6
    <3> QED
      BY <3>1, <3>2
  <2>6. ASSUME NEW j \in ((m + 1) + 1) .. n PROVE new[l + 1] <= boxes[j].top
    <3>1. j \in 1 .. n /\ m + 1 < j
      BY <1>1
    <3>2. boxes[m + 1].bottom <= boxes[j].top /\ boxes[j].top \in Int
      BY <1>1, <3>1
    <3>3. y < boxes[m + 1].bottom /\ boxes[m + 1].bottom \in Int
      BY <1>3 DEF y
    <3> QED
      BY <2>1, <2>3, <3>2, <3>3
  <2>7. Len(new) >= 1
    BY <1>2, <2>3
  <2>8. Broken(boxes, new, m + 1, high)
    BY <2>3, <2>4, <2>5, <2>6, <2>7 DEF Broken
  <2> QED
    BY <2>8 DEF new
<1> QED
  BY <1>5, <1>6

\* Where paginate puts the boxes of a column.
LEMMA Paginated ==
  ASSUME NEW lay, NEW high \in Int, NEW pad, NEW px, Chain(AllBoxes(lay, pad, px))
  PROVE  LET boxes == AllBoxes(lay, pad, px)
         IN Broken(boxes, Paginate(lay, high, pad, px), Len(boxes), high)
<1> DEFINE boxes == AllBoxes(lay, pad, px)
           n == Len(boxes)
           f == PagesUpTo(boxes, high)
           S == {m \in Nat : m <= n => Broken(boxes, f[m], m, high)}
<1>1. n \in Nat /\ \A k \in 1 .. n : 0 <= boxes[k].top
  BY DEF Chain
<1>2. /\ f[0] = <<0>> /\ Paginate(lay, high, pad, px) = f[n]
      /\ \A k \in 1 .. n : f[k] = FitBox(f[k - 1], boxes[k], high)
  BY <1>1, PagesRecur
<1>3. Chain(boxes)
  OBVIOUS
<1> HIDE DEF f, n, boxes
<1>4. 0 \in S
  <2>1. <<0>> \in Seq(Int) /\ Len(<<0>>) = 1 /\ <<0>>[1] = 0
    OBVIOUS
  <2>2. \A j \in (0 + 1) .. Len(boxes) : 0 <= boxes[j].top
    BY <1>1 DEF n
  <2>3. Broken(boxes, <<0>>, 0, high)
    BY <2>1, <2>2 DEF Broken
  <2> QED
    BY <1>2, <2>3
<1>5. ASSUME NEW m \in Nat, m \in S PROVE m + 1 \in S
  <2> SUFFICES ASSUME m + 1 <= n PROVE Broken(boxes, f[m + 1], m + 1, high)
    OBVIOUS
  <2>1. Broken(boxes, f[m], m, high) /\ m + 1 \in 1 .. n /\ (m + 1) - 1 = m
    BY <1>1, <1>5
  <2>2. f[m + 1] = FitBox(f[m], boxes[m + 1], high)
    BY <1>2, <2>1
  <2>3. m + 1 <= Len(boxes)
    BY DEF n
  <2>4. Broken(boxes, FitBox(f[m], boxes[m + 1], high), m + 1, high)
    BY <1>3, <2>1, <2>3, FitKeeps
  <2> QED
    BY <2>2, <2>4
<1>6. n \in S
  <2> HIDE DEF S
  <2> QED
    BY <1>1, <1>4, <1>5, SetInduction
<1> QED
  BY <1>1, <1>2, <1>6 DEF n, boxes

-----------------------------------------------------------------------------
(* Arrays that grow.                                                       *)

\* t is s, and maybe more.
Extends(s, t) == Len(s) <= Len(t) /\ \A i \in 1 .. Len(s) : t[i] = s[i]

\* So is what extends that.
LEMMA ExtendsOn ==
  ASSUME NEW X, NEW s \in Seq(X), NEW t \in Seq(X), NEW u \in Seq(X), Extends(s, t), Extends(t, u)
  PROVE  Extends(s, u)
<1>1. Len(s) \in Nat /\ Len(t) \in Nat /\ Len(u) \in Nat
  OBVIOUS
<1>2. Len(s) <= Len(t) /\ Len(t) <= Len(u) /\ Len(s) <= Len(u)
  BY <1>1 DEF Extends
<1>3. ASSUME NEW i \in 1 .. Len(s) PROVE u[i] = s[i]
  <2>1. i \in 1 .. Len(t)
    BY <1>1, <1>2
  <2> QED
    BY <2>1 DEF Extends
<1> QED
  BY <1>2, <1>3 DEF Extends

\* A sequence extends itself, and is extended by what is added to its end.
LEMMA ExtendsBy ==
  ASSUME NEW X, NEW s \in Seq(X), NEW t \in Seq(X), NEW x \in X
  PROVE  Extends(s, s) /\ Extends(s, s \o t) /\ Extends(s, Append(s, x))
<1>1. Extends(s, s)
  BY DEF Extends
<1>2. Extends(s, s \o t)
  <2>1. /\ Len(s) \in Nat /\ Len(t) \in Nat /\ Len(s \o t) = Len(s) + Len(t)
        /\ \A i \in 1 .. Len(s) + Len(t) : (s \o t)[i] = IF i <= Len(s) THEN s[i] ELSE t[i - Len(s)]
    BY ConcatProperties
  <2> DEFINE c == s \o t
  <2>2. /\ Len(c) = Len(s) + Len(t)
        /\ \A i \in 1 .. Len(s) + Len(t) : c[i] = IF i <= Len(s) THEN s[i] ELSE t[i - Len(s)]
    BY <2>1
  <2> HIDE DEF c
  <2>3. Extends(s, c)
    BY <2>1, <2>2 DEF Extends
  <2> QED
    BY <2>3 DEF c
<1>3. Extends(s, Append(s, x))
  BY DEF Extends
<1> QED
  BY <1>1, <1>2, <1>3

\* u holds the n elements of s after the first a.
Holds(X, u, s, a, n) ==
  u \in Seq(X) /\ Len(u) = n /\ \A k \in 1 .. n : u[k] = s[a + k]

\* What a slice holds, and that it stays when the array grows.
LEMMA SliceStays ==
  ASSUME NEW X, NEW s \in Seq(X), NEW t, Extends(s, t), NEW a \in Nat, NEW n \in Nat,
         a + n <= Len(s)
  PROVE  Holds(X, Slice(s, a, n), s, a, n) /\ Slice(t, a, n) = Slice(s, a, n)
<1> DEFINE u == SubSeq(s, a + 1, a + n)
           v == SubSeq(t, a + 1, a + n)
<1>1. \A i \in (a + 1) .. (a + n) : i \in 1 .. Len(s) /\ s[i] \in X /\ t[i] = s[i]
  <2>1. TAKE i \in (a + 1) .. (a + n)
  <2>2. i \in 1 .. Len(s)
    OBVIOUS
  <2> QED
    BY <2>2 DEF Extends
<1>2. \A i \in (a + 1) .. (a + n) : s[i] \in X /\ t[i] \in X
  BY <1>1
<1>3. (a + 1) \in Int /\ (a + n) \in Int
  OBVIOUS
<1>4. /\ u \in Seq(X) /\ Len(u) = IF a + 1 <= a + n THEN (a + n) - (a + 1) + 1 ELSE 0
      /\ \A i \in 1 .. ((a + n) - (a + 1) + 1) : u[i] = s[(a + 1) + i - 1]
  <2>1. \A i \in (a + 1) .. (a + n) : s[i] \in X
    BY <1>2
  <2> HIDE DEF u
  <2>2. u = SubSeq(s, a + 1, a + n)
    BY DEF u
  <2> DEFINE p == a + 1
             q == a + n
  <2>3. p \in Int /\ q \in Int /\ \A i \in p .. q : s[i] \in X
    BY <2>1
  <2> HIDE DEF p, q
  <2>4. /\ SubSeq(s, p, q) \in Seq(X) /\ Len(SubSeq(s, p, q)) = IF p <= q THEN q - p + 1 ELSE 0
        /\ \A i \in 1 .. (q - p + 1) : SubSeq(s, p, q)[i] = s[p + i - 1]
    BY <2>3, SubSeqProperties
  <2> QED
    BY <2>2, <2>4 DEF p, q
<1>5. /\ v \in Seq(X) /\ Len(v) = IF a + 1 <= a + n THEN (a + n) - (a + 1) + 1 ELSE 0
      /\ \A i \in 1 .. ((a + n) - (a + 1) + 1) : v[i] = t[(a + 1) + i - 1]
  <2>1. \A i \in (a + 1) .. (a + n) : t[i] \in X
    BY <1>2
  <2> QED
    BY <2>1, <1>3, SubSeqProperties
<1>6. Slice(s, a, n) = u /\ Slice(t, a, n) = v
  BY DEF Slice
<1> HIDE DEF u, v
<1>7. Len(u) = n /\ Len(v) = n
  BY <1>4, <1>5
<1>8. ASSUME NEW k \in 1 .. n PROVE u[k] = s[a + k] /\ v[k] = u[k]
  <2>1. k \in 1 .. ((a + n) - (a + 1) + 1) /\ (a + 1) + k - 1 = a + k /\ a + k \in (a + 1) .. (a + n)
    OBVIOUS
  <2> QED
    BY <1>1, <1>4, <1>5, <2>1
<1>9. u = v
  BY <1>4, <1>5, <1>7, <1>8
<1> QED
  BY <1>4, <1>6, <1>7, <1>8, <1>9 DEF Holds

\* What was appended to an array is a slice of it.
LEMMA SliceAdded ==
  ASSUME NEW X, NEW s \in Seq(X), NEW t \in Seq(X)
  PROVE  Slice(s \o t, Len(s), Len(t)) = t
<1> DEFINE c == s \o t
           a == Len(s)
           n == Len(t)
           u == Slice(c, a, n)
<1>1. a \in Nat /\ n \in Nat
  OBVIOUS
<1>2. /\ c \in Seq(X) /\ Len(c) = a + n
      /\ \A i \in 1 .. a + n : c[i] = IF i <= a THEN s[i] ELSE t[i - a]
  BY ConcatProperties
<1> HIDE DEF c, a, n
<1>3. a + n <= Len(c) /\ Extends(c, c)
  <2>1. Extends(c, c)
    BY <1>2 DEF Extends
  <2> QED
    BY <1>1, <1>2, <2>1
<1>4. u \in Seq(X) /\ Len(u) = n /\ \A k \in 1 .. n : u[k] = c[a + k]
  BY <1>1, <1>2, <1>3, SliceStays DEF Holds
<1>5. ASSUME NEW k \in 1 .. n PROVE c[a + k] = t[k]
  <2>1. a + k \in 1 .. a + n /\ ~(a + k <= a) /\ (a + k) - a = k
    BY <1>1
  <2> QED
    BY <1>2, <2>1
<1> HIDE DEF u
<1>6. u = t
  <2>1. t \in Seq(X) /\ Len(t) = n
    BY DEF n
  <2> QED
    BY <1>4, <1>5, <2>1
<1> QED
  BY <1>6 DEF u, c, a, n

\* A set of numbers has a least one.
LEMMA LeastIs ==
  ASSUME NEW S \in SUBSET Nat, S # {}
  PROVE  Min(S) \in S /\ \A y \in S : Min(S) <= y
<1>1. \E x \in S : \A y \in S : x <= y
  <2> SUFFICES ASSUME ~(\E x \in S : \A y \in S : x <= y) PROVE FALSE
    OBVIOUS
  <2> DEFINE T == {n \in Nat : \A y \in S : n <= y}
  <2>1. 0 \in T
    OBVIOUS
  <2>2. ASSUME NEW n \in Nat, n \in T PROVE n + 1 \in T
    <3>1. n \notin S /\ \A y \in S : y \in Nat /\ n <= y
      BY <2>2
    <3>2. \A y \in S : y # n
      BY <3>1
    <3> QED
      BY <3>1, <3>2
  <2>3. Nat \subseteq T
    <3> HIDE DEF T
    <3> QED
      BY <2>1, <2>2, SetInduction
  <2>4. PICK x \in S : x + 1 \in T
    BY <2>3
  <2> QED
    BY <2>4
<1> QED
  BY <1>1 DEF Min

\* font_index: the face gets a place of its own, the one it has or the next.
LEMMA FontIndexIs ==
  ASSUME NEW fonts \in Seq(Faces), NEW f \in Faces, IsInjective(fonts)
  PROVE  /\ WithFont(fonts, f) \in Seq(Faces) /\ IsInjective(WithFont(fonts, f))
         /\ Extends(fonts, WithFont(fonts, f))
         /\ FontIndex(fonts, f) \in Nat /\ FontIndex(fonts, f) < Len(WithFont(fonts, f))
         /\ WithFont(fonts, f)[FontIndex(fonts, f) + 1] = f
<1> DEFINE I == {i \in 1 .. Len(fonts) : fonts[i] = f}
<1>1. Len(fonts) \in Nat /\ DOMAIN fonts = 1 .. Len(fonts)
  OBVIOUS
<1>2. CASE Contains(fonts, f)
  <2>1. I # {} /\ I \in SUBSET Nat
    BY <1>2 DEF Contains
  <2>2. FontIndex(fonts, f) = Min(I) - 1 /\ WithFont(fonts, f) = fonts
    BY <1>2, <2>1 DEF FontIndex, WithFont, SelectInSeq
  <2>3. Min(I) \in I
    <3> HIDE DEF I
    <3> QED
      BY <2>1, LeastIs
  <2> DEFINE m == Min(I)
  <2>4. m \in 1 .. Len(fonts) /\ fonts[m] = f
    BY <2>3
  <2> HIDE DEF m
  <2>5. m - 1 \in Nat /\ m - 1 < Len(fonts) /\ (m - 1) + 1 = m
    BY <1>1, <2>4
  <2>6. FontIndex(fonts, f) = m - 1
    BY <2>2 DEF m
  <2>7. Extends(fonts, fonts)
    BY DEF Extends
  <2> QED
    BY <2>2, <2>4, <2>5, <2>6, <2>7
<1>3. CASE ~Contains(fonts, f)
  <2> DEFINE w == Append(fonts, f)
             n == Len(fonts)
  <2>1. FontIndex(fonts, f) = n /\ WithFont(fonts, f) = w
    BY <1>3 DEF FontIndex, WithFont
  <2>2. /\ w \in Seq(Faces) /\ Len(w) = n + 1 /\ w[n + 1] = f
        /\ \A i \in 1 .. n : w[i] = fonts[i]
    OBVIOUS
  <2>3. \A i \in 1 .. n : fonts[i] # f
    BY <1>3 DEF Contains
  <2> HIDE DEF w
  <2>4. IsInjective(w)
    <3> SUFFICES ASSUME NEW a \in 1 .. (n + 1), NEW b \in 1 .. (n + 1), w[a] = w[b] PROVE a = b
      BY <2>2 DEF IsInjective
    <3>1. a = n + 1 \/ a \in 1 .. n
      BY <1>1
    <3>2. b = n + 1 \/ b \in 1 .. n
      BY <1>1
    <3>3. a \in 1 .. n /\ b \in 1 .. n => a = b
      BY <1>1, <2>2 DEF IsInjective
    <3>4. ~(a \in 1 .. n /\ b = n + 1) /\ ~(b \in 1 .. n /\ a = n + 1)
      BY <2>2, <2>3
    <3> QED
      BY <3>1, <3>2, <3>3, <3>4
  <2>5. Extends(fonts, w)
    BY <1>1, <2>2 DEF Extends
  <2> QED
    BY <1>1, <2>1, <2>2, <2>4, <2>5
<1> QED
  BY <1>2, <1>3

-----------------------------------------------------------------------------
(* The arrays of the C ABI.                                                *)
Letters     == [font : Faces, char : Chars]
LineRecs    == [top : Int, bottom : Int, runs : Nat, runsLen : Nat, clusters : Nat, clustersLen : Nat]
RunRecs     == [font : Nat, style : SUBSET Styles, baseline : Int, glyphs : Nat, glyphsLen : Nat]
ClusterRecs == [font : Nat, glyph : Chars, start : Int, len : Nat]
BlockRecs   == [kind : {"para", "heading", "pre", "rule"}, y : Int, quote : Nat,
                lines : Nat, linesLen : Nat, marker : Int]
Handles     == [height : Int, blocks : Seq(BlockRecs), lines : Seq(LineRecs),
                runs : Seq(RunRecs), glyphs : Seq(Chars), clusters : Seq(ClusterRecs),
                fonts : Seq(Faces)]

\* Every index leads to something that is there, and no face is listed twice.
Closed(h) ==
  /\ h \in Handles /\ IsInjective(h.fonts)
  /\ \A r \in 1 .. Len(h.runs) : /\ h.runs[r].font < Len(h.fonts)
                                 /\ h.runs[r].glyphs + h.runs[r].glyphsLen <= Len(h.glyphs)
  /\ \A c \in 1 .. Len(h.clusters) : h.clusters[c].font < Len(h.fonts)
  /\ \A n \in 1 .. Len(h.lines) :
       /\ h.lines[n].runs + h.lines[n].runsLen <= Len(h.runs)
       /\ h.lines[n].clusters + h.lines[n].clustersLen <= Len(h.clusters)

\* g has what h has.
Grown(h, g) ==
  /\ g \in Handles
  /\ Extends(h.blocks, g.blocks) /\ Extends(h.lines, g.lines) /\ Extends(h.runs, g.runs)
  /\ Extends(h.glyphs, g.glyphs) /\ Extends(h.clusters, g.clusters) /\ Extends(h.fonts, g.fonts)

\* The text of a run, of a cluster, and of the n-th line by either index.
RunText(h, rec) ==
  LET gs == Slice(h.glyphs, rec.glyphs, rec.glyphsLen)
  IN [k \in DOMAIN gs |-> [font |-> h.fonts[rec.font + 1], char |-> gs[k]]]
ClusterText(h, rec) == [font |-> h.fonts[rec.font + 1], char |-> rec.glyph]
RunsRead(h, n) ==
  LET rs == Slice(h.runs, h.lines[n].runs, h.lines[n].runsLen)
  IN FlattenSeq([r \in DOMAIN rs |-> RunText(h, rs[r])])
ClustersRead(h, n) ==
  LET cs == Slice(h.clusters, h.lines[n].clusters, h.lines[n].clustersLen)
  IN [k \in DOMAIN cs |-> ClusterText(h, cs[k])]

\* The fields of a handle.
LEMMA HandleIs ==
  ASSUME NEW h \in Handles
  PROVE  /\ h.height \in Int /\ h.blocks \in Seq(BlockRecs) /\ h.lines \in Seq(LineRecs)
         /\ h.runs \in Seq(RunRecs) /\ h.glyphs \in Seq(Chars)
         /\ h.clusters \in Seq(ClusterRecs) /\ h.fonts \in Seq(Faces)
  BY DEF Handles

\* Growing is transitive.
LEMMA GrownOn ==
  ASSUME NEW h \in Handles, NEW g, NEW u, Grown(h, g), Grown(g, u)
  PROVE  Grown(h, u)
<1>1. g \in Handles /\ u \in Handles
  BY DEF Grown
<1>2. /\ h.blocks \in Seq(BlockRecs) /\ g.blocks \in Seq(BlockRecs) /\ u.blocks \in Seq(BlockRecs)
      /\ h.lines \in Seq(LineRecs) /\ g.lines \in Seq(LineRecs) /\ u.lines \in Seq(LineRecs)
      /\ h.runs \in Seq(RunRecs) /\ g.runs \in Seq(RunRecs) /\ u.runs \in Seq(RunRecs)
      /\ h.glyphs \in Seq(Chars) /\ g.glyphs \in Seq(Chars) /\ u.glyphs \in Seq(Chars)
      /\ h.clusters \in Seq(ClusterRecs) /\ g.clusters \in Seq(ClusterRecs)
      /\ u.clusters \in Seq(ClusterRecs)
      /\ h.fonts \in Seq(Faces) /\ g.fonts \in Seq(Faces) /\ u.fonts \in Seq(Faces)
  BY <1>1, HandleIs
<1>3. Extends(h.blocks, u.blocks)
  BY <1>2, ExtendsOn DEF Grown
<1>4. Extends(h.lines, u.lines)
  BY <1>2, ExtendsOn DEF Grown
<1>5. Extends(h.runs, u.runs)
  BY <1>2, ExtendsOn DEF Grown
<1>6. Extends(h.glyphs, u.glyphs)
  BY <1>2, ExtendsOn DEF Grown
<1>7. Extends(h.clusters, u.clusters)
  BY <1>2, ExtendsOn DEF Grown
<1>8. Extends(h.fonts, u.fonts)
  BY <1>2, ExtendsOn DEF Grown
<1> QED
  BY <1>1, <1>3, <1>4, <1>5, <1>6, <1>7, <1>8 DEF Grown

\* A run keeps its text when the arrays grow.
LEMMA RunStays ==
  ASSUME NEW h, Closed(h), NEW g, Grown(h, g), NEW r \in 1 .. Len(h.runs)
  PROVE  /\ g.runs[r] = h.runs[r] /\ RunText(g, g.runs[r]) = RunText(h, h.runs[r])
         /\ RunText(h, h.runs[r]) \in Seq(Letters)
<1> DEFINE rec == h.runs[r]
           gs == Slice(h.glyphs, rec.glyphs, rec.glyphsLen)
<1>1. /\ h \in Handles /\ g \in Handles /\ h.runs \in Seq(RunRecs)
      /\ h.glyphs \in Seq(Chars) /\ h.fonts \in Seq(Faces)
  BY HandleIs DEF Closed, Grown
<1>2. rec \in RunRecs /\ rec.font < Len(h.fonts) /\ rec.glyphs + rec.glyphsLen <= Len(h.glyphs)
  BY <1>1 DEF Closed
<1>3. rec.font \in Nat /\ rec.glyphs \in Nat /\ rec.glyphsLen \in Nat
  BY <1>2 DEF RunRecs
<1>4. g.runs[r] = rec
  BY DEF Grown, Extends
<1> HIDE DEF rec
<1>5. Extends(h.glyphs, g.glyphs)
  BY DEF Grown
<1>6. gs \in Seq(Chars) /\ Slice(g.glyphs, rec.glyphs, rec.glyphsLen) = gs
  BY <1>1, <1>2, <1>3, <1>5, SliceStays DEF Holds
<1>7. h.fonts[rec.font + 1] \in Faces /\ g.fonts[rec.font + 1] = h.fonts[rec.font + 1]
  <2>1. rec.font + 1 \in 1 .. Len(h.fonts)
    BY <1>1, <1>2, <1>3
  <2> QED
    BY <1>1, <2>1 DEF Grown, Extends
<1>8. RunText(h, rec) = [k \in DOMAIN gs |-> [font |-> h.fonts[rec.font + 1], char |-> gs[k]]]
  BY DEF RunText
<1>9. RunText(g, rec) = [k \in DOMAIN gs |-> [font |-> h.fonts[rec.font + 1], char |-> gs[k]]]
  BY <1>6, <1>7, Zenon DEF RunText
<1> DEFINE face == h.fonts[rec.font + 1]
           e(k) == [font |-> face, char |-> gs[k]]
<1> HIDE DEF gs, face
<1>10. [k \in DOMAIN gs |-> e(k)] \in Seq(Letters)
  <2>1. DOMAIN gs = 1 .. Len(gs) /\ Len(gs) \in Nat
    BY <1>6
  <2>2. \A k \in 1 .. Len(gs) : e(k) \in Letters
    BY <1>6, <1>7 DEF Letters, face
  <2> HIDE DEF e
  <2> QED
    BY <2>1, <2>2, IsASeq
<1> QED
  BY <1>4, <1>8, <1>9, <1>10 DEF rec, face

\* So does a cluster.
LEMMA ClusterStays ==
  ASSUME NEW h, Closed(h), NEW g, Grown(h, g), NEW c \in 1 .. Len(h.clusters)
  PROVE  /\ g.clusters[c] = h.clusters[c]
         /\ ClusterText(g, g.clusters[c]) = ClusterText(h, h.clusters[c])
<1> DEFINE rec == h.clusters[c]
<1>1. h \in Handles /\ g \in Handles /\ h.clusters \in Seq(ClusterRecs) /\ h.fonts \in Seq(Faces)
  BY HandleIs DEF Closed, Grown
<1>2. rec \in ClusterRecs /\ rec.font < Len(h.fonts)
  BY <1>1 DEF Closed
<1>3. rec.font \in Nat
  BY <1>2 DEF ClusterRecs
<1>4. g.clusters[c] = rec
  BY DEF Grown, Extends
<1> HIDE DEF rec
<1>5. g.fonts[rec.font + 1] = h.fonts[rec.font + 1]
  <2>1. rec.font + 1 \in 1 .. Len(h.fonts)
    BY <1>1, <1>2, <1>3
  <2> QED
    BY <2>1 DEF Grown, Extends
<1>6. ClusterText(g, rec) = ClusterText(h, rec)
  BY <1>5 DEF ClusterText
<1> QED
  BY <1>4, <1>6 DEF rec

\* And so does a line, by either index.
LEMMA LineStays ==
  ASSUME NEW h, Closed(h), NEW g, Grown(h, g), NEW n \in 1 .. Len(h.lines)
  PROVE  /\ g.lines[n] = h.lines[n]
         /\ RunsRead(g, n) = RunsRead(h, n) /\ ClustersRead(g, n) = ClustersRead(h, n)
<1> DEFINE ln == h.lines[n]
           rs == Slice(h.runs, ln.runs, ln.runsLen)
           cs == Slice(h.clusters, ln.clusters, ln.clustersLen)
<1>1. /\ h \in Handles /\ g \in Handles /\ h.lines \in Seq(LineRecs)
      /\ h.runs \in Seq(RunRecs) /\ h.clusters \in Seq(ClusterRecs)
  BY HandleIs DEF Closed, Grown
<1>2. /\ ln \in LineRecs /\ ln.runs + ln.runsLen <= Len(h.runs)
      /\ ln.clusters + ln.clustersLen <= Len(h.clusters)
  BY <1>1 DEF Closed
<1>3. ln.runs \in Nat /\ ln.runsLen \in Nat /\ ln.clusters \in Nat /\ ln.clustersLen \in Nat
  BY <1>2 DEF LineRecs
<1>4. g.lines[n] = ln
  BY DEF Grown, Extends
<1> HIDE DEF ln
<1>5. Extends(h.runs, g.runs) /\ Extends(h.clusters, g.clusters)
  BY DEF Grown
<1>6. /\ rs \in Seq(RunRecs) /\ Len(rs) = ln.runsLen /\ Slice(g.runs, ln.runs, ln.runsLen) = rs
      /\ \A k \in 1 .. ln.runsLen : rs[k] = h.runs[ln.runs + k]
  <2> DEFINE R == h.runs
             T == g.runs
             a == ln.runs
             m == ln.runsLen
  <2>1. R \in Seq(RunRecs) /\ Extends(R, T) /\ a \in Nat /\ m \in Nat /\ a + m <= Len(R)
    BY <1>1, <1>2, <1>3, <1>5
  <2>2. rs = Slice(R, a, m)
    OBVIOUS
  <2> HIDE DEF R, T, a, m, rs
  <2>3. Holds(RunRecs, Slice(R, a, m), R, a, m) /\ Slice(T, a, m) = Slice(R, a, m)
    BY <2>1, SliceStays
  <2>4. Holds(RunRecs, rs, R, a, m) /\ Slice(T, a, m) = rs
    BY <2>2, <2>3, Zenon
  <2> QED
    BY <2>4 DEF R, T, a, m, Holds
<1>7. /\ cs \in Seq(ClusterRecs) /\ Len(cs) = ln.clustersLen
      /\ Slice(g.clusters, ln.clusters, ln.clustersLen) = cs
      /\ \A k \in 1 .. ln.clustersLen : cs[k] = h.clusters[ln.clusters + k]
  <2> DEFINE R == h.clusters
             T == g.clusters
             a == ln.clusters
             m == ln.clustersLen
  <2>1. R \in Seq(ClusterRecs) /\ Extends(R, T) /\ a \in Nat /\ m \in Nat /\ a + m <= Len(R)
    BY <1>1, <1>2, <1>3, <1>5
  <2>2. cs = Slice(R, a, m)
    OBVIOUS
  <2> HIDE DEF R, T, a, m, cs
  <2>3. Holds(ClusterRecs, Slice(R, a, m), R, a, m) /\ Slice(T, a, m) = Slice(R, a, m)
    BY <2>1, SliceStays
  <2>4. Holds(ClusterRecs, cs, R, a, m) /\ Slice(T, a, m) = cs
    BY <2>2, <2>3, Zenon
  <2> QED
    BY <2>4 DEF R, T, a, m, Holds
<1> HIDE DEF rs, cs
<1>8. ASSUME NEW k \in DOMAIN rs PROVE RunText(g, rs[k]) = RunText(h, rs[k])
  <2>1. k \in 1 .. ln.runsLen
    BY <1>6
  <2>2. ln.runs + k \in 1 .. Len(h.runs) /\ rs[k] = h.runs[ln.runs + k]
    <3> DEFINE a == ln.runs
               m == ln.runsLen
               z == Len(h.runs)
    <3>1. a \in Nat /\ m \in Nat /\ z \in Nat /\ a + m <= z
      BY <1>1, <1>2, <1>3
    <3>2. k \in 1 .. m
      BY <2>1
    <3> HIDE DEF a, m, z
    <3>3. a + k \in 1 .. z
      BY <3>1, <3>2
    <3>4. rs[k] = h.runs[ln.runs + k]
      BY <1>6, <2>1
    <3> QED
      BY <3>3, <3>4 DEF a, z
  <2> DEFINE i == ln.runs + k
  <2> HIDE DEF i
  <2>3. i \in 1 .. Len(h.runs) /\ rs[k] = h.runs[i]
    BY <2>2 DEF i
  <2>4. g.runs[i] = h.runs[i] /\ RunText(g, g.runs[i]) = RunText(h, h.runs[i])
    BY <2>3, RunStays
  <2> QED
    BY <2>3, <2>4, Zenon
<1>9. ASSUME NEW k \in DOMAIN cs PROVE ClusterText(g, cs[k]) = ClusterText(h, cs[k])
  <2>1. k \in 1 .. ln.clustersLen
    BY <1>7
  <2>2. ln.clusters + k \in 1 .. Len(h.clusters) /\ cs[k] = h.clusters[ln.clusters + k]
    <3> DEFINE a == ln.clusters
               m == ln.clustersLen
               z == Len(h.clusters)
    <3>1. a \in Nat /\ m \in Nat /\ z \in Nat /\ a + m <= z
      BY <1>1, <1>2, <1>3
    <3>2. k \in 1 .. m
      BY <2>1
    <3> HIDE DEF a, m, z
    <3>3. a + k \in 1 .. z
      BY <3>1, <3>2
    <3>4. cs[k] = h.clusters[ln.clusters + k]
      BY <1>7, <2>1
    <3> QED
      BY <3>3, <3>4 DEF a, z
  <2> DEFINE i == ln.clusters + k
  <2> HIDE DEF i
  <2>3. i \in 1 .. Len(h.clusters) /\ cs[k] = h.clusters[i]
    BY <2>2 DEF i
  <2>4. g.clusters[i] = h.clusters[i] /\ ClusterText(g, g.clusters[i]) = ClusterText(h, h.clusters[i])
    BY <2>3, ClusterStays
  <2> QED
    BY <2>3, <2>4, Zenon
<1> DEFINE rg == [r \in DOMAIN rs |-> RunText(g, rs[r])]
           rh == [r \in DOMAIN rs |-> RunText(h, rs[r])]
           cg == [k \in DOMAIN cs |-> ClusterText(g, cs[k])]
           ch == [k \in DOMAIN cs |-> ClusterText(h, cs[k])]
<1>10. rg = rh
  BY <1>8
<1>11. cg = ch
  BY <1>9
<1>12. RunsRead(h, n) = FlattenSeq(rh) /\ ClustersRead(h, n) = ch
  BY DEF RunsRead, ClustersRead, rs, cs, ln
<1>13. RunsRead(g, n) = FlattenSeq(rg) /\ ClustersRead(g, n) = cg
  BY <1>4, <1>6, <1>7, Zenon DEF RunsRead, ClustersRead
<1> HIDE DEF rg, rh, cg, ch
<1> QED
  BY <1>4, <1>10, <1>11, <1>12, <1>13 DEF ln

\* All but the fonts, the runs and their glyphs; all but the fonts and the
\* clusters; all but the lines; all but the blocks.
SameButRuns(h, r) ==
  r.height = h.height /\ r.blocks = h.blocks /\ r.lines = h.lines /\ r.clusters = h.clusters
SameButClusters(h, r) ==
  /\ r.height = h.height /\ r.blocks = h.blocks /\ r.lines = h.lines
  /\ r.glyphs = h.glyphs /\ r.runs = h.runs
SameButLines(h, r) ==
  /\ r.height = h.height /\ r.blocks = h.blocks /\ r.clusters = h.clusters
  /\ r.glyphs = h.glyphs /\ r.runs = h.runs /\ r.fonts = h.fonts
SameButBlocks(h, r) ==
  /\ r.height = h.height /\ r.lines = h.lines /\ r.clusters = h.clusters
  /\ r.glyphs = h.glyphs /\ r.runs = h.runs /\ r.fonts = h.fonts

\* What it is to write fields of a handle.
WithRuns(h, G, F, R)  == [h EXCEPT !.glyphs = G, !.fonts = F, !.runs = R]
WithClusters(h, F, C) == [h EXCEPT !.fonts = F, !.clusters = C]
WithLines(h, S)       == [h EXCEPT !.lines = S]
WithBlocks(h, S)      == [h EXCEPT !.blocks = S]

\* It writes these and keeps the others: for the runs,
LEMMA RunFields ==
  ASSUME NEW h \in Handles, NEW G \in Seq(Chars), NEW F \in Seq(Faces), NEW R \in Seq(RunRecs)
  PROVE  LET r == WithRuns(h, G, F, R)
         IN r \in Handles /\ SameButRuns(h, r) /\ r.glyphs = G /\ r.fonts = F /\ r.runs = R
  BY DEF Handles, SameButRuns, WithRuns

\* the clusters,
LEMMA ClusterFields ==
  ASSUME NEW h \in Handles, NEW F \in Seq(Faces), NEW C \in Seq(ClusterRecs)
  PROVE  LET r == WithClusters(h, F, C)
         IN r \in Handles /\ SameButClusters(h, r) /\ r.fonts = F /\ r.clusters = C
  BY DEF Handles, SameButClusters, WithClusters

\* the lines
LEMMA LineFields ==
  ASSUME NEW h \in Handles, NEW S \in Seq(LineRecs)
  PROVE  LET r == WithLines(h, S)
         IN r \in Handles /\ SameButLines(h, r) /\ r.lines = S
  BY DEF Handles, SameButLines, WithLines

\* and the blocks.
LEMMA BlockFields ==
  ASSUME NEW h \in Handles, NEW S \in Seq(BlockRecs)
  PROVE  LET r == WithBlocks(h, S)
         IN r \in Handles /\ SameButBlocks(h, r) /\ r.blocks = S
  BY DEF Handles, SameButBlocks, WithBlocks

\* A run of glyphs in one face.
Uniform(run) == /\ run \in Seq(Glyphs) /\ Len(run) >= 1
                /\ \A k \in 1 .. Len(run) : run[k].font = run[1].font

\* export_run: the run is the last one and spells its glyphs.
LEMMA ExportRunIs ==
  ASSUME NEW h, Closed(h), NEW run, Uniform(run), NEW y \in Int
  PROVE  LET r == ExportRun(h, run, y)
         IN /\ Closed(r) /\ Grown(h, r) /\ SameButRuns(h, r)
            /\ Len(r.runs) = Len(h.runs) + 1
            /\ RunText(r, r.runs[Len(h.runs) + 1]) = Written(run)
<1> DEFINE r    == ExportRun(h, run, y)
           face == run[1].font
           text == [k \in DOMAIN run |-> run[k].char]
           i    == FontIndex(h.fonts, face)
           rec  == [font |-> i, style |-> run[1].style, baseline |-> y,
                    glyphs |-> Len(h.glyphs), glyphsLen |-> Len(run)]
           G == h.glyphs \o text
           F == WithFont(h.fonts, face)
           R == Append(h.runs, rec)
           m == Len(h.runs)
<1>1. /\ h \in Handles /\ h.blocks \in Seq(BlockRecs) /\ h.lines \in Seq(LineRecs)
      /\ h.runs \in Seq(RunRecs) /\ h.glyphs \in Seq(Chars)
      /\ h.clusters \in Seq(ClusterRecs) /\ h.fonts \in Seq(Faces) /\ IsInjective(h.fonts)
  BY HandleIs DEF Closed
<1>2. /\ DOMAIN run = 1 .. Len(run) /\ Len(run) \in Nat /\ 1 \in 1 .. Len(run)
      /\ \A k \in 1 .. Len(run) : run[k] \in Glyphs /\ run[k].font = face
  BY DEF Uniform
<1>3. face \in Faces /\ run[1].style \in SUBSET Styles /\ \A k \in 1 .. Len(run) : run[k].char \in Chars
  BY <1>2 DEF Glyphs
<1>4. text \in Seq(Chars) /\ Len(text) = Len(run) /\ DOMAIN text = 1 .. Len(run)
  <2> DEFINE c(k) == run[k].char
  <2>1. \A k \in 1 .. Len(run) : c(k) \in Chars
    BY <1>3
  <2>2. text = [k \in 1 .. Len(run) |-> c(k)]
    BY <1>2
  <2> HIDE DEF c
  <2>3. [k \in 1 .. Len(run) |-> c(k)] \in Seq(Chars)
    BY <1>2, <2>1, IsASeq
  <2>4. Len([k \in 1 .. Len(run) |-> c(k)]) = Len(run)
    BY <1>2
  <2> QED
    BY <1>2, <2>2, <2>3, <2>4
<1> HIDE DEF face
<1>5. /\ F \in Seq(Faces) /\ IsInjective(F) /\ Extends(h.fonts, F)
      /\ i \in Nat /\ i < Len(F) /\ F[i + 1] = face
  BY <1>1, <1>3, FontIndexIs
<1>6. r = WithRuns(h, G, F, R)
  BY DEF ExportRun, WithRuns, face
<1> HIDE DEF F, i, text, r
<1>7. rec \in RunRecs /\ rec.font = i /\ rec.glyphs = Len(h.glyphs) /\ rec.glyphsLen = Len(run)
  <2>1. Len(h.glyphs) \in Nat
    BY <1>1
  <2> QED
    BY <1>2, <1>3, <1>5, <2>1 DEF RunRecs
<1> HIDE DEF rec
<1>8. /\ G \in Seq(Chars) /\ Len(G) = Len(h.glyphs) + Len(run)
      /\ Slice(G, Len(h.glyphs), Len(run)) = text /\ Extends(h.glyphs, G)
  <2>1. G \in Seq(Chars) /\ Len(G) = Len(h.glyphs) + Len(run)
    <3> DEFINE gl == h.glyphs
    <3>1. gl \in Seq(Chars)
      BY <1>1
    <3> HIDE DEF gl
    <3>2. gl \o text \in Seq(Chars) /\ Len(gl \o text) = Len(gl) + Len(text)
      BY <3>1, <1>4, ConcatProperties
    <3> QED
      BY <1>4, <3>2 DEF gl
  <2>2. Slice(G, Len(h.glyphs), Len(text)) = text
    BY <1>1, <1>4, SliceAdded
  <2>3. CASE Len(run) = 0
    BY <1>2, <2>3
  <2>4. CASE Len(run) # 0
    <3>1. 1 \in 1 .. Len(run)
      BY <1>2
    <3>2. text[1] \in Chars
      BY <1>4, <3>1
    <3>3. Extends(h.glyphs, G)
      BY <1>1, <1>4, <3>2, ExtendsBy
    <3> QED
      BY <1>4, <2>1, <2>2, <3>3
  <2> QED
    BY <2>3, <2>4
<1>9. /\ R \in Seq(RunRecs) /\ Len(R) = m + 1 /\ m \in Nat /\ R[m + 1] = rec
      /\ \A k \in 1 .. m : R[k] = h.runs[k]
  BY <1>1, <1>7
<1> HIDE DEF G, R
<1>10a. r \in Handles /\ SameButRuns(h, r) /\ r.glyphs = G /\ r.fonts = F /\ r.runs = R
  <2>1. h \in Handles
    BY <1>1
  <2>2. G \in Seq(Chars)
    BY <1>8
  <2>3. F \in Seq(Faces)
    BY <1>5
  <2>4. R \in Seq(RunRecs)
    BY <1>9
  <2>5. r = WithRuns(h, G, F, R)
    BY <1>6
  <2>6. WithRuns(h, G, F, R) \in Handles
    BY <2>1, <2>2, <2>3, <2>4, RunFields
  <2> QED
    BY <2>1, <2>2, <2>3, <2>4, <2>5, RunFields
<1>10. /\ r \in Handles
       /\ r.height = h.height /\ r.blocks = h.blocks /\ r.lines = h.lines
       /\ r.clusters = h.clusters
       /\ r.glyphs = G /\ r.fonts = F /\ r.runs = R
  BY <1>10a DEF SameButRuns
<1>11. Grown(h, r)
  <2>1. Extends(h.runs, R)
    BY <1>9 DEF Extends
  <2>2. Extends(h.blocks, h.blocks) /\ Extends(h.lines, h.lines) /\ Extends(h.clusters, h.clusters)
    BY <1>1 DEF Extends
  <2> QED
    BY <1>5, <1>8, <1>10, <2>1, <2>2 DEF Grown
<1>12. Closed(r)
  <2>1. Len(h.fonts) <= Len(F) /\ Len(h.glyphs) <= Len(G) /\ Len(h.runs) <= Len(R)
    BY <1>5, <1>8, <1>9 DEF Extends
  <2>2. /\ Len(h.fonts) \in Nat /\ Len(F) \in Nat /\ Len(h.glyphs) \in Nat /\ Len(G) \in Nat
        /\ Len(h.runs) \in Nat /\ Len(R) \in Nat
    <3> DEFINE hf == h.fonts
               hg == h.glyphs
               hr == h.runs
    <3>1. hf \in Seq(Faces) /\ hg \in Seq(Chars) /\ hr \in Seq(RunRecs)
      BY <1>1
    <3>2. F \in Seq(Faces) /\ G \in Seq(Chars) /\ R \in Seq(RunRecs)
      BY <1>5, <1>8, <1>9
    <3> HIDE DEF hf, hg, hr
    <3>3. /\ Len(hf) \in Nat /\ Len(F) \in Nat /\ Len(hg) \in Nat /\ Len(G) \in Nat
          /\ Len(hr) \in Nat /\ Len(R) \in Nat
      BY <3>1, <3>2
    <3> QED
      BY <3>3 DEF hf, hg, hr
  <2>3. ASSUME NEW k \in 1 .. Len(R)
        PROVE  R[k].font < Len(F) /\ R[k].glyphs + R[k].glyphsLen <= Len(G)
    <3>1. CASE k = m + 1
      <4>1. R[k] = rec
        BY <1>9, <3>1
      <4>2. rec.font = i /\ rec.glyphs = Len(h.glyphs) /\ rec.glyphsLen = Len(run)
        BY <1>7
      <4>3. i < Len(F) /\ Len(G) = Len(h.glyphs) + Len(run)
        BY <1>5, <1>8
      <4>4. Len(h.glyphs) + Len(run) <= Len(G)
        BY <4>3, <2>2
      <4> QED
        BY <4>1, <4>2, <4>3, <4>4
    <3>2. CASE k # m + 1
      <4>1. k \in 1 .. m
        BY <1>9, <3>2
      <4>2. /\ h.runs[k] \in RunRecs /\ h.runs[k].font < Len(h.fonts)
            /\ h.runs[k].glyphs + h.runs[k].glyphsLen <= Len(h.glyphs)
        BY <1>1, <4>1 DEF Closed
      <4>3. h.runs[k].font \in Nat /\ h.runs[k].glyphs \in Nat /\ h.runs[k].glyphsLen \in Nat
        BY <4>2 DEF RunRecs
      <4>4. R[k] = h.runs[k]
        BY <1>9, <4>1
      <4> DEFINE e == h.runs[k].glyphs + h.runs[k].glyphsLen
                 f == h.runs[k].font
      <4>5. e \in Nat /\ f \in Nat /\ e <= Len(h.glyphs) /\ f < Len(h.fonts)
        BY <4>2, <4>3
      <4>6. R[k].font = f /\ R[k].glyphs + R[k].glyphsLen = e
        BY <4>4
      <4> HIDE DEF e, f
      <4>7. f < Len(F) /\ e <= Len(G)
        BY <2>1, <2>2, <4>5
      <4> QED
        BY <4>6, <4>7
    <3> QED
      BY <3>1, <3>2
  <2>4. ASSUME NEW c \in 1 .. Len(h.clusters) PROVE h.clusters[c].font < Len(F)
    <3>1. h.clusters[c] \in ClusterRecs /\ h.clusters[c].font < Len(h.fonts)
      BY <1>1 DEF Closed
    <3>2. h.clusters[c].font \in Nat
      BY <3>1 DEF ClusterRecs
    <3> QED
      BY <2>1, <2>2, <3>1, <3>2
  <2>5. ASSUME NEW n \in 1 .. Len(h.lines)
        PROVE  /\ h.lines[n].runs + h.lines[n].runsLen <= Len(R)
               /\ h.lines[n].clusters + h.lines[n].clustersLen <= Len(h.clusters)
    <3>1. /\ h.lines[n] \in LineRecs
          /\ h.lines[n].runs + h.lines[n].runsLen <= Len(h.runs)
          /\ h.lines[n].clusters + h.lines[n].clustersLen <= Len(h.clusters)
      BY <1>1 DEF Closed
    <3>2. h.lines[n].runs \in Nat /\ h.lines[n].runsLen \in Nat
      BY <3>1 DEF LineRecs
    <3> DEFINE e == h.lines[n].runs + h.lines[n].runsLen
    <3>3. e \in Nat /\ e <= Len(h.runs)
      BY <3>1, <3>2
    <3> HIDE DEF e
    <3>4. e <= Len(R)
      BY <2>1, <2>2, <3>3
    <3> QED
      BY <3>1, <3>4 DEF e
  <2> QED
    BY <1>5, <1>10, <2>3, <2>4, <2>5, Zenon DEF Closed
<1>13. RunText(r, rec) = Written(run)
  <2>1. Slice(r.glyphs, rec.glyphs, rec.glyphsLen) = text /\ r.fonts[rec.font + 1] = face
    BY <1>5, <1>7, <1>8, <1>10
  <2>2. RunText(r, rec) = [k \in DOMAIN text |-> [font |-> face, char |-> text[k]]]
    BY <2>1, Zenon DEF RunText
  <2>3. Written(run) = [k \in 1 .. Len(run) |-> [font |-> run[k].font, char |-> run[k].char]]
    BY <1>2 DEF Written
  <2>4. \A k \in 1 .. Len(run) : text[k] = run[k].char /\ run[k].font = face
    BY <1>2 DEF text
  <2> QED
    BY <1>4, <2>2, <2>3, <2>4
<1> QED
  BY <1>9, <1>10, <1>10a, <1>11, <1>12, <1>13 DEF r, m

\* The runs of the first k glyphs of a line.
RunsNext(line, f, k) == IF k = 0 THEN <<>> ELSE JoinRun(f[k - 1], line, k)
RunsUpTo(line) == CHOOSE f : f = [k \in 0 .. Len(line) |-> RunsNext(line, f, k)]

\* There are such runs.
LEMMA RunsRecur ==
  ASSUME NEW line, Len(line) \in Nat
  PROVE  LET f == RunsUpTo(line)
         IN /\ f[0] = <<>>
            /\ \A k \in 1 .. Len(line) : f[k] = JoinRun(f[k - 1], line, k)
            /\ RunsOf(line) = f[Len(line)]
<1> DEFINE n == Len(line)
           Step(f, k) == RunsNext(line, f, k)
           Of(f, m) == f = [k \in 0 .. m |-> Step(f, k)]
           S == {m \in Nat : \E f : Of(f, m)}
           t == RunsUpTo(line)
<1>1. 0 \in S
  <2> DEFINE f == [k \in 0 .. 0 |-> <<>>]
  <2>1. f = [k \in 0 .. 0 |-> Step(f, k)]
    BY DEF RunsNext
  <2> QED
    BY <2>1
<1>2. ASSUME NEW m \in Nat, m \in S PROVE m + 1 \in S
  <2>1. PICK f : Of(f, m)
    BY <1>2
  <2> DEFINE g == [k \in 0 .. (m + 1) |-> IF k = m + 1 THEN Step(f, k) ELSE f[k]]
  <2>2. \A k \in 0 .. m : f[k] = Step(f, k)
    <3> HIDE DEF Step
    <3> QED
      BY <2>1
  <2>3. ASSUME NEW k \in 0 .. (m + 1) PROVE g[k] = Step(g, k)
    <3>1. k # 0 => k - 1 \in 0 .. m /\ g[k - 1] = f[k - 1]
      <4> HIDE DEF Step
      <4> QED
        OBVIOUS
    <3>2. Step(g, k) = Step(f, k)
      <4> HIDE DEF g
      <4> QED
        BY <3>1, Zenon DEF RunsNext
    <3>3. k # m + 1 => k \in 0 .. m
      OBVIOUS
    <3> HIDE DEF Step
    <3> QED
      BY <2>2, <3>2, <3>3
  <2> HIDE DEF Step
  <2>4. g = [k \in 0 .. (m + 1) |-> g[k]]
    OBVIOUS
  <2> HIDE DEF g
  <2>5. g = [k \in 0 .. (m + 1) |-> Step(g, k)]
    BY <2>3, <2>4
  <2> QED
    BY <2>5
<1>3. \E f : Of(f, n)
  <2>1. Nat \subseteq S
    <3> HIDE DEF S
    <3> QED
      BY <1>1, <1>2, SetInduction
  <2> HIDE DEF Of
  <2> QED
    BY <2>1
<1>4. Of(t, n)
  BY <1>3, Zenon DEF RunsUpTo
<1>5. RunsOf(line) = t[n]
  BY DEF RunsOf, RunsUpTo, RunsNext
<1>6. \A k \in 0 .. n : t[k] = Step(t, k)
  <2> HIDE DEF t, Step, n
  <2> QED
    BY <1>4
<1> HIDE DEF t, n
<1>7. t[0] = <<>>
  <2>1. 0 \in 0 .. n
    BY DEF n
  <2> QED
    BY <1>6, <2>1, Zenon DEF RunsNext
<1>8. \A k \in 1 .. n : t[k] = JoinRun(t[k - 1], line, k)
  <2> TAKE k \in 1 .. n
  <2>1. k \in 0 .. n /\ k # 0
    BY DEF n
  <2> QED
    BY <1>6, <2>1, Zenon DEF RunsNext
<1> QED
  BY <1>5, <1>7, <1>8 DEF n, t

\* The handle with the first k runs.
RunsOutNext(h, runs, y, f, k) == IF k = 0 THEN h ELSE ExportRun(f[k - 1], runs[k], y)
RunsOutUpTo(h, runs, y) == CHOOSE f : f = [k \in 0 .. Len(runs) |-> RunsOutNext(h, runs, y, f, k)]

\* There is such a handle.
LEMMA RunsOutRecur ==
  ASSUME NEW h, NEW runs, NEW y, Len(runs) \in Nat
  PROVE  LET f == RunsOutUpTo(h, runs, y)
         IN /\ f[0] = h
            /\ \A k \in 1 .. Len(runs) : f[k] = ExportRun(f[k - 1], runs[k], y)
            /\ ExportRuns(h, runs, y) = f[Len(runs)]
<1> DEFINE n == Len(runs)
           Step(f, k) == RunsOutNext(h, runs, y, f, k)
           Of(f, m) == f = [k \in 0 .. m |-> Step(f, k)]
           S == {m \in Nat : \E f : Of(f, m)}
           t == RunsOutUpTo(h, runs, y)
<1>1. 0 \in S
  <2> DEFINE f == [k \in 0 .. 0 |-> h]
  <2>1. f = [k \in 0 .. 0 |-> Step(f, k)]
    BY DEF RunsOutNext
  <2> QED
    BY <2>1
<1>2. ASSUME NEW m \in Nat, m \in S PROVE m + 1 \in S
  <2>1. PICK f : Of(f, m)
    BY <1>2
  <2> DEFINE g == [k \in 0 .. (m + 1) |-> IF k = m + 1 THEN Step(f, k) ELSE f[k]]
  <2>2. \A k \in 0 .. m : f[k] = Step(f, k)
    <3> HIDE DEF Step
    <3> QED
      BY <2>1
  <2>3. ASSUME NEW k \in 0 .. (m + 1) PROVE g[k] = Step(g, k)
    <3>1. k # 0 => k - 1 \in 0 .. m /\ g[k - 1] = f[k - 1]
      <4> HIDE DEF Step
      <4> QED
        OBVIOUS
    <3>2. Step(g, k) = Step(f, k)
      <4> HIDE DEF g
      <4> QED
        BY <3>1, Zenon DEF RunsOutNext
    <3>3. k # m + 1 => k \in 0 .. m
      OBVIOUS
    <3> HIDE DEF Step
    <3> QED
      BY <2>2, <3>2, <3>3
  <2> HIDE DEF Step
  <2>4. g = [k \in 0 .. (m + 1) |-> g[k]]
    OBVIOUS
  <2> HIDE DEF g
  <2>5. g = [k \in 0 .. (m + 1) |-> Step(g, k)]
    BY <2>3, <2>4
  <2> QED
    BY <2>5
<1>3. \E f : Of(f, n)
  <2>1. Nat \subseteq S
    <3> HIDE DEF S
    <3> QED
      BY <1>1, <1>2, SetInduction
  <2> HIDE DEF Of
  <2> QED
    BY <2>1
<1>4. Of(t, n)
  BY <1>3, Zenon DEF RunsOutUpTo
<1>5. ExportRuns(h, runs, y) = t[n]
  BY DEF ExportRuns, RunsOutUpTo, RunsOutNext
<1>6. \A k \in 0 .. n : t[k] = Step(t, k)
  <2> HIDE DEF t, Step, n
  <2> QED
    BY <1>4
<1> HIDE DEF t, n
<1>7. t[0] = h
  <2>1. 0 \in 0 .. n
    BY DEF n
  <2> QED
    BY <1>6, <2>1, Zenon DEF RunsOutNext
<1>8. \A k \in 1 .. n : t[k] = ExportRun(t[k - 1], runs[k], y)
  <2> TAKE k \in 1 .. n
  <2>1. k \in 0 .. n /\ k # 0
    BY DEF n
  <2> QED
    BY <1>6, <2>1, Zenon DEF RunsOutNext
<1> QED
  BY <1>5, <1>7, <1>8 DEF n, t

\* The handle with the first k clusters of a line.
ClustersOutNext(h, line, f, k) == IF k = 0 THEN h ELSE ExportCluster(f[k - 1], line[k])
ClustersOutUpTo(h, line) == CHOOSE f : f = [k \in 0 .. Len(line) |-> ClustersOutNext(h, line, f, k)]

\* There is such a handle.
LEMMA ClustersOutRecur ==
  ASSUME NEW h, NEW line, Len(line) \in Nat
  PROVE  LET f == ClustersOutUpTo(h, line)
         IN /\ f[0] = h
            /\ \A k \in 1 .. Len(line) : f[k] = ExportCluster(f[k - 1], line[k])
            /\ ExportClusters(h, line) = f[Len(line)]
<1> DEFINE n == Len(line)
           Step(f, k) == ClustersOutNext(h, line, f, k)
           Of(f, m) == f = [k \in 0 .. m |-> Step(f, k)]
           S == {m \in Nat : \E f : Of(f, m)}
           t == ClustersOutUpTo(h, line)
<1>1. 0 \in S
  <2> DEFINE f == [k \in 0 .. 0 |-> h]
  <2>1. f = [k \in 0 .. 0 |-> Step(f, k)]
    BY DEF ClustersOutNext
  <2> QED
    BY <2>1
<1>2. ASSUME NEW m \in Nat, m \in S PROVE m + 1 \in S
  <2>1. PICK f : Of(f, m)
    BY <1>2
  <2> DEFINE g == [k \in 0 .. (m + 1) |-> IF k = m + 1 THEN Step(f, k) ELSE f[k]]
  <2>2. \A k \in 0 .. m : f[k] = Step(f, k)
    <3> HIDE DEF Step
    <3> QED
      BY <2>1
  <2>3. ASSUME NEW k \in 0 .. (m + 1) PROVE g[k] = Step(g, k)
    <3>1. k # 0 => k - 1 \in 0 .. m /\ g[k - 1] = f[k - 1]
      <4> HIDE DEF Step
      <4> QED
        OBVIOUS
    <3>2. Step(g, k) = Step(f, k)
      <4> HIDE DEF g
      <4> QED
        BY <3>1, Zenon DEF ClustersOutNext
    <3>3. k # m + 1 => k \in 0 .. m
      OBVIOUS
    <3> HIDE DEF Step
    <3> QED
      BY <2>2, <3>2, <3>3
  <2> HIDE DEF Step
  <2>4. g = [k \in 0 .. (m + 1) |-> g[k]]
    OBVIOUS
  <2> HIDE DEF g
  <2>5. g = [k \in 0 .. (m + 1) |-> Step(g, k)]
    BY <2>3, <2>4
  <2> QED
    BY <2>5
<1>3. \E f : Of(f, n)
  <2>1. Nat \subseteq S
    <3> HIDE DEF S
    <3> QED
      BY <1>1, <1>2, SetInduction
  <2> HIDE DEF Of
  <2> QED
    BY <2>1
<1>4. Of(t, n)
  BY <1>3, Zenon DEF ClustersOutUpTo
<1>5. ExportClusters(h, line) = t[n]
  BY DEF ExportClusters, ClustersOutUpTo, ClustersOutNext
<1>6. \A k \in 0 .. n : t[k] = Step(t, k)
  <2> HIDE DEF t, Step, n
  <2> QED
    BY <1>4
<1> HIDE DEF t, n
<1>7. t[0] = h
  <2>1. 0 \in 0 .. n
    BY DEF n
  <2> QED
    BY <1>6, <2>1, Zenon DEF ClustersOutNext
<1>8. \A k \in 1 .. n : t[k] = ExportCluster(t[k - 1], line[k])
  <2> TAKE k \in 1 .. n
  <2>1. k \in 0 .. n /\ k # 0
    BY DEF n
  <2> QED
    BY <1>6, <2>1, Zenon DEF ClustersOutNext
<1> QED
  BY <1>5, <1>7, <1>8 DEF n, t

\* The handle with the first k lines of a text.
LinesOutNext(h, lines, y, lineH, f, k) ==
  IF k = 0 THEN h ELSE ExportLine(f[k - 1], lines[k], y + (k - 1) * lineH, lineH)
LinesOutUpTo(h, lines, y, lineH) ==
  CHOOSE f : f = [k \in 0 .. Len(lines) |-> LinesOutNext(h, lines, y, lineH, f, k)]

\* There is such a handle.
LEMMA LinesOutRecur ==
  ASSUME NEW h, NEW lines, NEW y, NEW lineH, Len(lines) \in Nat
  PROVE  LET f == LinesOutUpTo(h, lines, y, lineH)
         IN /\ f[0] = h
            /\ \A k \in 1 .. Len(lines) : f[k] = ExportLine(f[k - 1], lines[k], y + (k - 1) * lineH, lineH)
            /\ ExportText(h, lines, y, lineH) = f[Len(lines)]
<1> DEFINE n == Len(lines)
           Step(f, k) == LinesOutNext(h, lines, y, lineH, f, k)
           Of(f, m) == f = [k \in 0 .. m |-> Step(f, k)]
           S == {m \in Nat : \E f : Of(f, m)}
           t == LinesOutUpTo(h, lines, y, lineH)
<1>1. 0 \in S
  <2> DEFINE f == [k \in 0 .. 0 |-> h]
  <2>1. f = [k \in 0 .. 0 |-> Step(f, k)]
    BY DEF LinesOutNext
  <2> QED
    BY <2>1
<1>2. ASSUME NEW m \in Nat, m \in S PROVE m + 1 \in S
  <2>1. PICK f : Of(f, m)
    BY <1>2
  <2> DEFINE g == [k \in 0 .. (m + 1) |-> IF k = m + 1 THEN Step(f, k) ELSE f[k]]
  <2>2. \A k \in 0 .. m : f[k] = Step(f, k)
    <3> HIDE DEF Step
    <3> QED
      BY <2>1
  <2>3. ASSUME NEW k \in 0 .. (m + 1) PROVE g[k] = Step(g, k)
    <3>1. k # 0 => k - 1 \in 0 .. m /\ g[k - 1] = f[k - 1]
      <4> HIDE DEF Step
      <4> QED
        OBVIOUS
    <3>2. Step(g, k) = Step(f, k)
      <4> HIDE DEF g
      <4> QED
        BY <3>1, Zenon DEF LinesOutNext
    <3>3. k # m + 1 => k \in 0 .. m
      OBVIOUS
    <3> HIDE DEF Step
    <3> QED
      BY <2>2, <3>2, <3>3
  <2> HIDE DEF Step
  <2>4. g = [k \in 0 .. (m + 1) |-> g[k]]
    OBVIOUS
  <2> HIDE DEF g
  <2>5. g = [k \in 0 .. (m + 1) |-> Step(g, k)]
    BY <2>3, <2>4
  <2> QED
    BY <2>5
<1>3. \E f : Of(f, n)
  <2>1. Nat \subseteq S
    <3> HIDE DEF S
    <3> QED
      BY <1>1, <1>2, SetInduction
  <2> HIDE DEF Of
  <2> QED
    BY <2>1
<1>4. Of(t, n)
  BY <1>3, Zenon DEF LinesOutUpTo
<1>5. ExportText(h, lines, y, lineH) = t[n]
  BY DEF ExportText, LinesOutUpTo, LinesOutNext
<1>6. \A k \in 0 .. n : t[k] = Step(t, k)
  <2> HIDE DEF t, Step, n
  <2> QED
    BY <1>4
<1> HIDE DEF t, n
<1>7. t[0] = h
  <2>1. 0 \in 0 .. n
    BY DEF n
  <2> QED
    BY <1>6, <2>1, Zenon DEF LinesOutNext
<1>8. \A k \in 1 .. n : t[k] = ExportLine(t[k - 1], lines[k], y + (k - 1) * lineH, lineH)
  <2> TAKE k \in 1 .. n
  <2>1. k \in 0 .. n /\ k # 0
    BY DEF n
  <2> QED
    BY <1>6, <2>1, Zenon DEF LinesOutNext
<1> QED
  BY <1>5, <1>7, <1>8 DEF n, t

\* The handle with the first k blocks of a layout.
BlocksOutNext(l, f, k) ==
  IF k = 0 THEN [NoLayout EXCEPT !.height = l.height] ELSE ExportBlock(f[k - 1], l.placed[k])
BlocksOutUpTo(l) == CHOOSE f : f = [k \in 0 .. Len(l.placed) |-> BlocksOutNext(l, f, k)]

\* There is such a handle.
LEMMA BlocksOutRecur ==
  ASSUME NEW l, Len(l.placed) \in Nat
  PROVE  LET f == BlocksOutUpTo(l)
         IN /\ f[0] = [NoLayout EXCEPT !.height = l.height]
            /\ \A k \in 1 .. Len(l.placed) : f[k] = ExportBlock(f[k - 1], l.placed[k])
            /\ Export(l) = f[Len(l.placed)]
<1> DEFINE n == Len(l.placed)
           Step(f, k) == BlocksOutNext(l, f, k)
           Of(f, m) == f = [k \in 0 .. m |-> Step(f, k)]
           S == {m \in Nat : \E f : Of(f, m)}
           t == BlocksOutUpTo(l)
<1>1. 0 \in S
  <2> DEFINE f == [k \in 0 .. 0 |-> [NoLayout EXCEPT !.height = l.height]]
  <2>1. f = [k \in 0 .. 0 |-> Step(f, k)]
    BY DEF BlocksOutNext
  <2> QED
    BY <2>1
<1>2. ASSUME NEW m \in Nat, m \in S PROVE m + 1 \in S
  <2>1. PICK f : Of(f, m)
    BY <1>2
  <2> DEFINE g == [k \in 0 .. (m + 1) |-> IF k = m + 1 THEN Step(f, k) ELSE f[k]]
  <2>2. \A k \in 0 .. m : f[k] = Step(f, k)
    <3> HIDE DEF Step
    <3> QED
      BY <2>1
  <2>3. ASSUME NEW k \in 0 .. (m + 1) PROVE g[k] = Step(g, k)
    <3>1. k # 0 => k - 1 \in 0 .. m /\ g[k - 1] = f[k - 1]
      <4> HIDE DEF Step
      <4> QED
        OBVIOUS
    <3>2. Step(g, k) = Step(f, k)
      <4> HIDE DEF g
      <4> QED
        BY <3>1, Zenon DEF BlocksOutNext
    <3>3. k # m + 1 => k \in 0 .. m
      OBVIOUS
    <3> HIDE DEF Step
    <3> QED
      BY <2>2, <3>2, <3>3
  <2> HIDE DEF Step
  <2>4. g = [k \in 0 .. (m + 1) |-> g[k]]
    OBVIOUS
  <2> HIDE DEF g
  <2>5. g = [k \in 0 .. (m + 1) |-> Step(g, k)]
    BY <2>3, <2>4
  <2> QED
    BY <2>5
<1>3. \E f : Of(f, n)
  <2>1. Nat \subseteq S
    <3> HIDE DEF S
    <3> QED
      BY <1>1, <1>2, SetInduction
  <2> HIDE DEF Of
  <2> QED
    BY <2>1
<1>4. Of(t, n)
  BY <1>3, Zenon DEF BlocksOutUpTo
<1>5. Export(l) = t[n]
  BY DEF Export, BlocksOutUpTo, BlocksOutNext
<1>6. \A k \in 0 .. n : t[k] = Step(t, k)
  <2> HIDE DEF t, Step, n
  <2> QED
    BY <1>4
<1> HIDE DEF t, n
<1>7. t[0] = [NoLayout EXCEPT !.height = l.height]
  <2>1. 0 \in 0 .. n
    BY DEF n
  <2> QED
    BY <1>6, <2>1, Zenon DEF BlocksOutNext
<1>8. \A k \in 1 .. n : t[k] = ExportBlock(t[k - 1], l.placed[k])
  <2> TAKE k \in 1 .. n
  <2>1. k \in 0 .. n /\ k # 0
    BY DEF n
  <2> QED
    BY <1>6, <2>1, Zenon DEF BlocksOutNext
<1> QED
  BY <1>5, <1>7, <1>8 DEF n, t

\* The runs of a line: they follow those that were there, and spell theirs.
RunsStand(h, a, runs, k) ==
  /\ Closed(a) /\ Grown(h, a) /\ SameButRuns(h, a)
  /\ Len(a.runs) = Len(h.runs) + k
  /\ \A i \in 1 .. k : RunText(a, a.runs[Len(h.runs) + i]) = Written(runs[i])

\* A handle grows from itself.
LEMMA GrownSame ==
  ASSUME NEW h \in Handles
  PROVE  Grown(h, h)
<1>1. /\ h.height \in Int /\ h.blocks \in Seq(BlockRecs) /\ h.lines \in Seq(LineRecs)
      /\ h.runs \in Seq(RunRecs) /\ h.glyphs \in Seq(Chars)
      /\ h.clusters \in Seq(ClusterRecs) /\ h.fonts \in Seq(Faces)
  BY HandleIs
<1> QED
  BY <1>1 DEF Grown, Extends

\* One run more.
LEMMA RunAdded ==
  ASSUME NEW h, Closed(h), NEW a, NEW runs, NEW k \in Nat, RunsStand(h, a, runs, k),
         Uniform(runs[k + 1]), NEW y \in Int
  PROVE  RunsStand(h, ExportRun(a, runs[k + 1], y), runs, k + 1)
<1> DEFINE run == runs[k + 1]
           b == ExportRun(a, run, y)
           m == Len(h.runs)
<1>1. Closed(a) /\ Grown(h, a) /\ SameButRuns(h, a) /\ Len(a.runs) = m + k
      /\ \A i \in 1 .. k : RunText(a, a.runs[m + i]) = Written(runs[i])
  BY DEF RunsStand
<1>2. h \in Handles /\ h.runs \in Seq(RunRecs) /\ m \in Nat
  BY HandleIs DEF Closed
<1>3. Uniform(run)
  OBVIOUS
<1> HIDE DEF run
<1>4. /\ Closed(b) /\ Grown(a, b) /\ SameButRuns(a, b)
      /\ Len(b.runs) = Len(a.runs) + 1
      /\ RunText(b, b.runs[Len(a.runs) + 1]) = Written(run)
  BY <1>1, <1>3, ExportRunIs
<1> HIDE DEF b
<1>5. Grown(h, b)
  BY <1>1, <1>2, <1>4, GrownOn
<1>6. SameButRuns(h, b)
  BY <1>1, <1>4 DEF SameButRuns
<1>7. Len(b.runs) = m + (k + 1) /\ Len(a.runs) + 1 = m + (k + 1)
  <2>1. Len(a.runs) = m + k /\ m \in Nat /\ Len(b.runs) = Len(a.runs) + 1
    BY <1>1, <1>2, <1>4
  <2> HIDE DEF m
  <2> QED
    BY <2>1
<1>8. ASSUME NEW i \in 1 .. (k + 1) PROVE RunText(b, b.runs[m + i]) = Written(runs[i])
  <2>1. CASE i = k + 1
    <3>1. m + i = Len(a.runs) + 1 /\ runs[i] = run
      BY <1>7, <2>1 DEF run
    <3> QED
      BY <1>4, <3>1
  <2>2. CASE i # k + 1
    <3> DEFINE j == m + i
    <3>1. i \in 1 .. k /\ j \in 1 .. Len(a.runs)
      BY <1>1, <1>2, <2>2
    <3>2. RunText(a, a.runs[j]) = Written(runs[i])
      BY <1>1, <3>1
    <3> HIDE DEF j
    <3>3. b.runs[j] = a.runs[j] /\ RunText(b, b.runs[j]) = RunText(a, a.runs[j])
      BY <1>1, <1>4, <3>1, RunStays
    <3>4. RunText(b, b.runs[j]) = Written(runs[i])
      BY <3>2, <3>3, Zenon
    <3> QED
      BY <3>4 DEF j
  <2> QED
    BY <2>1, <2>2
<1>9. RunsStand(h, b, runs, k + 1)
  BY <1>4, <1>5, <1>6, <1>7, <1>8 DEF RunsStand, m
<1> QED
  BY <1>9 DEF b, run

\* All of them.
LEMMA ExportRunsIs ==
  ASSUME NEW h, Closed(h), NEW runs \in Seq(Seq(Glyphs)), \A i \in 1 .. Len(runs) : Uniform(runs[i]),
         NEW y \in Int
  PROVE  RunsStand(h, ExportRuns(h, runs, y), runs, Len(runs))
<1> DEFINE n == Len(runs)
           f == RunsOutUpTo(h, runs, y)
           S == {k \in Nat : k <= n => RunsStand(h, f[k], runs, k)}
<1>1. n \in Nat
  OBVIOUS
<1>2. /\ f[0] = h /\ ExportRuns(h, runs, y) = f[n]
      /\ \A k \in 1 .. n : f[k] = ExportRun(f[k - 1], runs[k], y)
  BY <1>1, RunsOutRecur
<1> HIDE DEF f, n
<1>3. 0 \in S
  <2>1. h \in Handles /\ h.runs \in Seq(RunRecs) /\ Len(h.runs) \in Nat
    BY HandleIs DEF Closed
  <2>2. Grown(h, h) /\ SameButRuns(h, h)
    BY <2>1, GrownSame DEF SameButRuns
  <2>3. RunsStand(h, h, runs, 0)
    BY <2>1, <2>2 DEF RunsStand
  <2> QED
    BY <1>2, <2>3
<1>4. ASSUME NEW k \in Nat, k \in S PROVE k + 1 \in S
  <2> SUFFICES ASSUME k + 1 <= n PROVE RunsStand(h, f[k + 1], runs, k + 1)
    OBVIOUS
  <2>1. RunsStand(h, f[k], runs, k) /\ k + 1 \in 1 .. n /\ (k + 1) - 1 = k
    BY <1>1, <1>4
  <2>2. f[k + 1] = ExportRun(f[k], runs[k + 1], y) /\ Uniform(runs[k + 1])
    BY <1>2, <2>1 DEF n
  <2>3. RunsStand(h, ExportRun(f[k], runs[k + 1], y), runs, k + 1)
    BY <2>1, <2>2, RunAdded
  <2> QED
    BY <2>2, <2>3
<1>5. n \in S
  <2> HIDE DEF S
  <2> QED
    BY <1>1, <1>3, <1>4, SetInduction
<1> QED
  BY <1>1, <1>2, <1>5 DEF n

\* A cluster of export_layout: the last one, and it spells its glyph.
LEMMA ExportClusterIs ==
  ASSUME NEW h, Closed(h), NEW g \in Glyphs
  PROVE  LET r == ExportCluster(h, g)
         IN /\ Closed(r) /\ Grown(h, r) /\ SameButClusters(h, r)
            /\ Len(r.clusters) = Len(h.clusters) + 1
            /\ ClusterText(r, r.clusters[Len(h.clusters) + 1]) = [font |-> g.font, char |-> g.char]
<1> DEFINE r    == ExportCluster(h, g)
           face == g.font
           i    == FontIndex(h.fonts, face)
           rec  == [font |-> i, glyph |-> g.char, start |-> g.at, len |-> 1]
           F == WithFont(h.fonts, face)
           C == Append(h.clusters, rec)
           m == Len(h.clusters)
<1>1. /\ h \in Handles /\ h.blocks \in Seq(BlockRecs) /\ h.lines \in Seq(LineRecs)
      /\ h.runs \in Seq(RunRecs) /\ h.glyphs \in Seq(Chars)
      /\ h.clusters \in Seq(ClusterRecs) /\ h.fonts \in Seq(Faces) /\ IsInjective(h.fonts)
  BY HandleIs DEF Closed
<1>2. face \in Faces /\ g.char \in Chars /\ g.at \in Int
  BY DEF Glyphs
<1> HIDE DEF face
<1>3. /\ F \in Seq(Faces) /\ IsInjective(F) /\ Extends(h.fonts, F)
      /\ i \in Nat /\ i < Len(F) /\ F[i + 1] = face
  BY <1>1, <1>2, FontIndexIs
<1>4. r = WithClusters(h, F, C)
  BY DEF ExportCluster, WithClusters, face
<1> HIDE DEF F, i, r
<1>5. rec \in ClusterRecs /\ rec.font = i /\ rec.glyph = g.char
  BY <1>2, <1>3 DEF ClusterRecs
<1> HIDE DEF rec
<1>6. /\ C \in Seq(ClusterRecs) /\ Len(C) = m + 1 /\ m \in Nat /\ C[m + 1] = rec
      /\ \A k \in 1 .. m : C[k] = h.clusters[k]
  BY <1>1, <1>5
<1> HIDE DEF C
<1>7. r \in Handles /\ SameButClusters(h, r) /\ r.fonts = F /\ r.clusters = C
  <2>1. h \in Handles
    BY <1>1
  <2>2. F \in Seq(Faces)
    BY <1>3
  <2>3. C \in Seq(ClusterRecs)
    BY <1>6
  <2>4. r = WithClusters(h, F, C)
    BY <1>4
  <2> QED
    BY <2>1, <2>2, <2>3, <2>4, ClusterFields
<1>8. /\ r.height = h.height /\ r.blocks = h.blocks /\ r.lines = h.lines
      /\ r.glyphs = h.glyphs /\ r.runs = h.runs
  BY <1>7 DEF SameButClusters
<1>9. Grown(h, r)
  <2>1. Extends(h.clusters, C)
    BY <1>6 DEF Extends
  <2>2. /\ Extends(h.blocks, h.blocks) /\ Extends(h.lines, h.lines) /\ Extends(h.runs, h.runs)
        /\ Extends(h.glyphs, h.glyphs)
    BY <1>1 DEF Extends
  <2> QED
    BY <1>3, <1>7, <1>8, <2>1, <2>2 DEF Grown
<1>10. Closed(r)
  <2>1. Len(h.fonts) <= Len(F) /\ Len(h.clusters) <= Len(C)
    BY <1>3, <1>6 DEF Extends
  <2>2. /\ Len(h.fonts) \in Nat /\ Len(F) \in Nat
        /\ Len(h.clusters) \in Nat /\ Len(C) \in Nat
    BY <1>1, <1>3, <1>6
  <2>3. ASSUME NEW k \in 1 .. Len(C) PROVE C[k].font < Len(F)
    <3>1. CASE k = m + 1
      BY <1>3, <1>5, <1>6, <3>1
    <3>2. CASE k # m + 1
      <4>1. k \in 1 .. m
        BY <1>6, <3>2
      <4>2. h.clusters[k] \in ClusterRecs /\ h.clusters[k].font < Len(h.fonts)
        BY <1>1, <4>1 DEF Closed
      <4>3. h.clusters[k].font \in Nat
        BY <4>2 DEF ClusterRecs
      <4>4. C[k] = h.clusters[k]
        BY <1>6, <4>1
      <4> QED
        BY <2>1, <2>2, <4>2, <4>3, <4>4
    <3> QED
      BY <3>1, <3>2
  <2>4. ASSUME NEW k \in 1 .. Len(h.runs)
        PROVE  h.runs[k].font < Len(F) /\ h.runs[k].glyphs + h.runs[k].glyphsLen <= Len(h.glyphs)
    <3>1. /\ h.runs[k] \in RunRecs /\ h.runs[k].font < Len(h.fonts)
          /\ h.runs[k].glyphs + h.runs[k].glyphsLen <= Len(h.glyphs)
      BY <1>1 DEF Closed
    <3>2. h.runs[k].font \in Nat
      BY <3>1 DEF RunRecs
    <3> QED
      BY <2>1, <2>2, <3>1, <3>2
  <2>5. ASSUME NEW n \in 1 .. Len(h.lines)
        PROVE  /\ h.lines[n].runs + h.lines[n].runsLen <= Len(h.runs)
               /\ h.lines[n].clusters + h.lines[n].clustersLen <= Len(C)
    <3>1. /\ h.lines[n] \in LineRecs
          /\ h.lines[n].runs + h.lines[n].runsLen <= Len(h.runs)
          /\ h.lines[n].clusters + h.lines[n].clustersLen <= Len(h.clusters)
      BY <1>1 DEF Closed
    <3>2. h.lines[n].clusters \in Nat /\ h.lines[n].clustersLen \in Nat
      BY <3>1 DEF LineRecs
    <3> DEFINE e == h.lines[n].clusters + h.lines[n].clustersLen
    <3>3. e \in Nat /\ e <= Len(h.clusters)
      BY <3>1, <3>2
    <3> HIDE DEF e
    <3>4. e <= Len(C)
      BY <2>1, <2>2, <3>3
    <3> QED
      BY <3>1, <3>4 DEF e
  <2> QED
    BY <1>3, <1>7, <1>8, <2>3, <2>4, <2>5, Zenon DEF Closed
<1>11. ClusterText(r, rec) = [font |-> face, char |-> g.char]
  <2>1. r.fonts[rec.font + 1] = face /\ rec.glyph = g.char
    BY <1>3, <1>5, <1>7
  <2> QED
    BY <2>1, Zenon DEF ClusterText
<1> QED
  BY <1>6, <1>7, <1>9, <1>10, <1>11 DEF r, m, face

\* The clusters of a line follow those that were there, and spell theirs.
ClustersStand(h, a, line, k) ==
  /\ Closed(a) /\ Grown(h, a) /\ SameButClusters(h, a)
  /\ Len(a.clusters) = Len(h.clusters) + k
  /\ \A i \in 1 .. k : ClusterText(a, a.clusters[Len(h.clusters) + i])
                         = [font |-> line[i].font, char |-> line[i].char]

\* One cluster more.
LEMMA ClusterAdded ==
  ASSUME NEW h, Closed(h), NEW a, NEW line, NEW k \in Nat, ClustersStand(h, a, line, k),
         line[k + 1] \in Glyphs
  PROVE  ClustersStand(h, ExportCluster(a, line[k + 1]), line, k + 1)
<1> DEFINE g == line[k + 1]
           b == ExportCluster(a, g)
           m == Len(h.clusters)
           Spelt1(i) == [font |-> line[i].font, char |-> line[i].char]
<1>1. Closed(a) /\ Grown(h, a) /\ SameButClusters(h, a) /\ Len(a.clusters) = m + k
      /\ \A i \in 1 .. k : ClusterText(a, a.clusters[m + i]) = Spelt1(i)
  BY DEF ClustersStand
<1>2. h \in Handles /\ h.clusters \in Seq(ClusterRecs) /\ m \in Nat
  BY HandleIs DEF Closed
<1>3. g \in Glyphs /\ Spelt1(k + 1) = [font |-> g.font, char |-> g.char]
  OBVIOUS
<1> HIDE DEF g, Spelt1
<1>4. /\ Closed(b) /\ Grown(a, b) /\ SameButClusters(a, b)
      /\ Len(b.clusters) = Len(a.clusters) + 1
      /\ ClusterText(b, b.clusters[Len(a.clusters) + 1]) = Spelt1(k + 1)
  BY <1>1, <1>3, ExportClusterIs
<1> HIDE DEF b
<1>5. Grown(h, b)
  BY <1>1, <1>2, <1>4, GrownOn
<1>6. SameButClusters(h, b)
  BY <1>1, <1>4 DEF SameButClusters
<1>7. Len(b.clusters) = m + (k + 1) /\ Len(a.clusters) + 1 = m + (k + 1)
  <2>1. Len(a.clusters) = m + k /\ m \in Nat /\ Len(b.clusters) = Len(a.clusters) + 1
    BY <1>1, <1>2, <1>4
  <2> HIDE DEF m
  <2> QED
    BY <2>1
<1>8. ASSUME NEW i \in 1 .. (k + 1) PROVE ClusterText(b, b.clusters[m + i]) = Spelt1(i)
  <2>1. CASE i = k + 1
    <3>1. m + i = Len(a.clusters) + 1
      BY <1>7, <2>1
    <3> QED
      BY <1>4, <2>1, <3>1
  <2>2. CASE i # k + 1
    <3> DEFINE j == m + i
    <3>1. i \in 1 .. k /\ j \in 1 .. Len(a.clusters)
      BY <1>1, <1>2, <2>2
    <3>2. ClusterText(a, a.clusters[j]) = Spelt1(i)
      BY <1>1, <3>1
    <3> HIDE DEF j
    <3>3. b.clusters[j] = a.clusters[j] /\ ClusterText(b, b.clusters[j]) = ClusterText(a, a.clusters[j])
      BY <1>1, <1>4, <3>1, ClusterStays
    <3>4. ClusterText(b, b.clusters[j]) = Spelt1(i)
      BY <3>2, <3>3, Zenon
    <3> QED
      BY <3>4 DEF j
  <2> QED
    BY <2>1, <2>2
<1>9. ClustersStand(h, b, line, k + 1)
  BY <1>4, <1>5, <1>6, <1>7, <1>8 DEF ClustersStand, m, Spelt1
<1> QED
  BY <1>9 DEF b, g

\* All of them.
LEMMA ExportClustersIs ==
  ASSUME NEW h, Closed(h), NEW line \in Seq(Glyphs)
  PROVE  ClustersStand(h, ExportClusters(h, line), line, Len(line))
<1> DEFINE n == Len(line)
           f == ClustersOutUpTo(h, line)
           S == {k \in Nat : k <= n => ClustersStand(h, f[k], line, k)}
<1>1. n \in Nat /\ \A k \in 1 .. n : line[k] \in Glyphs
  OBVIOUS
<1>2. /\ f[0] = h /\ ExportClusters(h, line) = f[n]
      /\ \A k \in 1 .. n : f[k] = ExportCluster(f[k - 1], line[k])
  BY <1>1, ClustersOutRecur
<1> HIDE DEF f, n
<1>3. 0 \in S
  <2>1. h \in Handles /\ h.clusters \in Seq(ClusterRecs) /\ Len(h.clusters) \in Nat
    BY HandleIs DEF Closed
  <2>2. Grown(h, h) /\ SameButClusters(h, h)
    BY <2>1, GrownSame DEF SameButClusters
  <2>3. ClustersStand(h, h, line, 0)
    BY <2>1, <2>2 DEF ClustersStand
  <2> QED
    BY <1>2, <2>3
<1>4. ASSUME NEW k \in Nat, k \in S PROVE k + 1 \in S
  <2> SUFFICES ASSUME k + 1 <= n PROVE ClustersStand(h, f[k + 1], line, k + 1)
    OBVIOUS
  <2>1. ClustersStand(h, f[k], line, k) /\ k + 1 \in 1 .. n /\ (k + 1) - 1 = k
    BY <1>1, <1>4
  <2>2. f[k + 1] = ExportCluster(f[k], line[k + 1]) /\ line[k + 1] \in Glyphs
    BY <1>1, <1>2, <2>1
  <2>3. ClustersStand(h, ExportCluster(f[k], line[k + 1]), line, k + 1)
    BY <2>1, <2>2, ClusterAdded
  <2> QED
    BY <2>2, <2>3
<1>5. n \in S
  <2> HIDE DEF S
  <2> QED
    BY <1>1, <1>3, <1>4, SetInduction
<1> QED
  BY <1>1, <1>2, <1>5 DEF n

-----------------------------------------------------------------------------
(* Lines.                                                                  *)

\* An element at the end goes to the end of the last part.
AppendsToLast(s, t, x) == Append(s \o t, x) = s \o Append(t, x)

\* Flattened, it is the end of the whole.
LEMMA AppendLast ==
  ASSUME NEW X, NEW s \in Seq(X), NEW t \in Seq(X), NEW x \in X
  PROVE  AppendsToLast(s, t, x)
<1>1. <<x>> \in Seq(X)
  OBVIOUS
<1>2. s \o t \in Seq(X)
  BY ConcatProperties
<1>3. Append(s \o t, x) = (s \o t) \o <<x>>
  BY <1>2, AppendIsConcat
<1>4. Append(t, x) = t \o <<x>>
  BY AppendIsConcat
<1>5. (s \o t) \o <<x>> = s \o (t \o <<x>>)
  BY <1>1, ConcatAssociative
<1> QED
  BY <1>3, <1>4, <1>5, Zenon DEF AppendsToLast

\* One sequence more.
LEMMA FlatAppend ==
  ASSUME NEW X, NEW ss \in Seq(Seq(X)), NEW s \in Seq(X)
  PROVE  FlattenSeq(Append(ss, s)) = FlattenSeq(ss) \o s
<1> DEFINE n == Len(ss)
           F(i) == FlatTo(ss, i)
           w == Append(ss, s)
           G == [i \in 0 .. (n + 1) |-> IF i = n + 1 THEN F(n) \o s ELSE F(i)]
<1>1. /\ F(0) = <<>> /\ FlattenSeq(ss) = F(n)
      /\ \A i \in 1 .. n : F(i) = F(i - 1) \o ss[i]
  BY Flattened
<1>2. n \in Nat /\ w \in Seq(Seq(X)) /\ Len(w) = n + 1 /\ w[n + 1] = s /\ \A i \in 1 .. n : w[i] = ss[i]
  OBVIOUS
<1> HIDE DEF n, F, w
<1>3. G[0] = <<>> /\ G[n + 1] = F(n) \o s /\ \A i \in 0 .. n : G[i] = F(i)
  BY <1>1, <1>2
<1> HIDE DEF G
<1>4. ASSUME NEW i \in 1 .. Len(w) PROVE G[i] = G[i - 1] \o w[i]
  <2>1. CASE i = n + 1
    <3>1. i - 1 = n /\ n \in 0 .. n
      BY <1>2, <2>1
    <3> QED
      BY <1>2, <1>3, <2>1, <3>1
  <2>2. CASE i # n + 1
    <3>1. i \in 1 .. n /\ i \in 0 .. n /\ i - 1 \in 0 .. n
      BY <1>2, <2>2
    <3> QED
      BY <1>1, <1>2, <1>3, <3>1
  <2> QED
    BY <2>1, <2>2
<1>5. FlattenSeq(w) = G[n + 1]
  BY <1>2, <1>3, <1>4, FlatIs
<1> QED
  BY <1>1, <1>3, <1>5 DEF w

\* One element more in the last sequence.
LEMMA FlatLast ==
  ASSUME NEW X, NEW ss \in Seq(Seq(X)), Len(ss) >= 1, NEW x \in X
  PROVE  FlattenSeq([ss EXCEPT ![Len(ss)] = Append(ss[Len(ss)], x)]) = Append(FlattenSeq(ss), x)
<1> DEFINE n == Len(ss)
           F(i) == FlatTo(ss, i)
           w == [ss EXCEPT ![n] = Append(ss[n], x)]
           G == [i \in 0 .. n |-> IF i = n THEN Append(F(n), x) ELSE F(i)]
<1>1. /\ F(0) = <<>> /\ FlattenSeq(ss) = F(n)
      /\ \A i \in 1 .. n : F(i) = F(i - 1) \o ss[i]
      /\ \A i \in 0 .. n : F(i) \in Seq(X)
  BY Flattened
<1>2. n \in Nat /\ n >= 1 /\ n \in 1 .. n /\ n - 1 \in 0 .. n /\ \A i \in 1 .. n : ss[i] \in Seq(X)
  OBVIOUS
<1>3. /\ w \in Seq(Seq(X)) /\ Len(w) = n /\ w[n] = Append(ss[n], x)
      /\ \A i \in 1 .. n : i # n => w[i] = ss[i]
  <2>1. Append(ss[n], x) \in Seq(X)
    BY <1>2
  <2> HIDE DEF n
  <2>2. DOMAIN ss = 1 .. n /\ Len(ss) = n
    BY DEF n
  <2> QED
    BY <1>2, <2>1, <2>2
<1> HIDE DEF n, F, w
<1>4. G[0] = <<>> /\ G[n] = Append(F(n), x) /\ \A i \in 0 .. n : i # n => G[i] = F(i)
  BY <1>1, <1>2
<1> HIDE DEF G
<1>5. ASSUME NEW i \in 1 .. Len(w) PROVE G[i] = G[i - 1] \o w[i]
  <2>1. CASE i = n
    <3>1. n - 1 # n /\ n - 1 \in 0 .. n
      BY <1>2
    <3>2. G[n - 1] = F(n - 1)
      BY <1>4, <3>1
    <3>3. F(n) = F(n - 1) \o ss[n] /\ F(n - 1) \in Seq(X) /\ ss[n] \in Seq(X)
      BY <1>1, <1>2
    <3>4. AppendsToLast(F(n - 1), ss[n], x)
      BY <3>3, AppendLast
    <3>5. G[n] = G[n - 1] \o w[n]
      BY <1>3, <1>4, <3>2, <3>3, <3>4, Zenon DEF AppendsToLast
    <3> QED
      BY <2>1, <3>5
  <2>2. CASE i # n
    <3>1. i \in 1 .. n /\ i \in 0 .. n /\ i - 1 \in 0 .. n /\ i - 1 # n
      BY <1>2, <1>3, <2>2
    <3>2. G[i] = F(i) /\ G[i - 1] = F(i - 1) /\ w[i] = ss[i] /\ F(i) = F(i - 1) \o ss[i]
      BY <1>1, <1>3, <1>4, <2>2, <3>1
    <3> QED
      BY <3>2, Zenon
  <2> QED
    BY <2>1, <2>2
<1>6. FlattenSeq(w) = G[n]
  BY <1>3, <1>4, <1>5, FlatIs
<1> QED
  BY <1>1, <1>4, <1>6 DEF w, n

\* The letters of some glyphs.
LEMMA WrittenIs ==
  ASSUME NEW s \in Seq(Glyphs)
  PROVE  /\ Written(s) \in Seq(Letters) /\ Len(Written(s)) = Len(s)
         /\ \A k \in 1 .. Len(s) : Written(s)[k] = [font |-> s[k].font, char |-> s[k].char]
<1> DEFINE e(k) == [font |-> s[k].font, char |-> s[k].char]
           w == Written(s)
<1>1. DOMAIN s = 1 .. Len(s) /\ Len(s) \in Nat /\ \A k \in 1 .. Len(s) : s[k] \in Glyphs
  OBVIOUS
<1>2. \A k \in 1 .. Len(s) : e(k) \in Letters
  BY <1>1 DEF Letters, Glyphs
<1>3. w = [k \in 1 .. Len(s) |-> e(k)]
  BY <1>1 DEF Written
<1> HIDE DEF w
<1>4. \A k \in 1 .. Len(s) : w[k] = e(k)
  BY <1>3
<1>5. Len(w) = Len(s) /\ w \in Seq(Letters)
  <2> HIDE DEF e
  <2> QED
    BY <1>1, <1>2, <1>3, IsASeq
<1> QED
  BY <1>4, <1>5 DEF w

\* The letters of two parts are the letters of one and then those of the other.
LEMMA WrittenOn ==
  ASSUME NEW s \in Seq(Glyphs), NEW t \in Seq(Glyphs)
  PROVE  Written(s \o t) = Written(s) \o Written(t)
<1> DEFINE c == s \o t
           u == Written(s)
           v == Written(t)
           w == Written(c)
           d == u \o v
           n == Len(s)
           m == Len(t)
<1>1. /\ n \in Nat /\ m \in Nat /\ c \in Seq(Glyphs) /\ Len(c) = n + m
      /\ \A i \in 1 .. n + m : c[i] = IF i <= n THEN s[i] ELSE t[i - n]
  BY ConcatProperties
<1> HIDE DEF c
<1>2. /\ u \in Seq(Letters) /\ Len(u) = n
      /\ \A k \in 1 .. n : u[k] = [font |-> s[k].font, char |-> s[k].char]
  BY WrittenIs
<1>3. /\ v \in Seq(Letters) /\ Len(v) = m
      /\ \A k \in 1 .. m : v[k] = [font |-> t[k].font, char |-> t[k].char]
  BY WrittenIs
<1>4. /\ w \in Seq(Letters) /\ Len(w) = n + m
      /\ \A k \in 1 .. n + m : w[k] = [font |-> c[k].font, char |-> c[k].char]
  BY <1>1, WrittenIs
<1> HIDE DEF u, v, w, n, m
<1>5. /\ d \in Seq(Letters) /\ Len(d) = n + m
      /\ \A i \in 1 .. n + m : d[i] = IF i <= n THEN u[i] ELSE v[i - n]
  <2>1. /\ u \o v \in Seq(Letters) /\ Len(u \o v) = Len(u) + Len(v)
        /\ \A i \in 1 .. Len(u) + Len(v) : (u \o v)[i] = IF i <= Len(u) THEN u[i] ELSE v[i - Len(u)]
    <3>1. u \in Seq(Letters) /\ v \in Seq(Letters)
      BY <1>2, <1>3
    <3> QED
      BY <3>1, ConcatProperties
  <2> QED
    BY <1>2, <1>3, <2>1
<1> HIDE DEF d
<1>6. ASSUME NEW i \in 1 .. n + m PROVE w[i] = d[i]
  <2>1. CASE i <= n
    <3>1. i \in 1 .. n
      BY <1>1, <2>1
    <3>2. c[i] = s[i] /\ d[i] = u[i] /\ w[i] = [font |-> c[i].font, char |-> c[i].char]
      BY <1>1, <1>4, <1>5, <2>1
    <3>3. u[i] = [font |-> s[i].font, char |-> s[i].char]
      BY <1>2, <3>1
    <3> QED
      BY <3>2, <3>3, Zenon
  <2>2. CASE ~(i <= n)
    <3> DEFINE j == i - n
    <3>1. j \in 1 .. m
      BY <1>1, <2>2
    <3>2. c[i] = t[j] /\ d[i] = v[j] /\ w[i] = [font |-> c[i].font, char |-> c[i].char]
      BY <1>1, <1>4, <1>5, <2>2
    <3> HIDE DEF j
    <3>3. v[j] = [font |-> t[j].font, char |-> t[j].char]
      BY <1>3, <3>1
    <3> QED
      BY <3>2, <3>3, Zenon
  <2> QED
    BY <2>1, <2>2
<1>7. w = d
  BY <1>1, <1>4, <1>5, <1>6
<1> QED
  BY <1>7 DEF w, c, d, u, v

\* The letters of several parts.
LEMMA WrittenFlat ==
  ASSUME NEW ss \in Seq(Seq(Glyphs))
  PROVE  FlattenSeq([r \in DOMAIN ss |-> Written(ss[r])]) = Written(FlattenSeq(ss))
<1> DEFINE n == Len(ss)
           F(i) == FlatTo(ss, i)
           W(r) == Written(ss[r])
           ws == [r \in DOMAIN ss |-> W(r)]
           G == [i \in 0 .. n |-> Written(F(i))]
<1>1. /\ F(0) = <<>> /\ FlattenSeq(ss) = F(n)
      /\ \A i \in 1 .. n : F(i) = F(i - 1) \o ss[i]
      /\ \A i \in 0 .. n : F(i) \in Seq(Glyphs)
  BY Flattened
<1>2. n \in Nat /\ DOMAIN ss = 1 .. n /\ \A r \in 1 .. n : ss[r] \in Seq(Glyphs)
  OBVIOUS
<1>3. \A r \in 1 .. n : W(r) \in Seq(Letters)
  BY <1>2, WrittenIs
<1> HIDE DEF F, n, W
<1>4. ws \in Seq(Seq(Letters)) /\ Len(ws) = n /\ \A r \in 1 .. n : ws[r] = W(r)
  <2>1. ws = [r \in 1 .. n |-> W(r)]
    BY <1>2
  <2>2. [r \in 1 .. n |-> W(r)] \in Seq(Seq(Letters))
    BY <1>2, <1>3, IsASeq
  <2> QED
    BY <1>2, <2>1, <2>2
<1>5. \A i \in 0 .. n : G[i] = Written(F(i))
  OBVIOUS
<1> HIDE DEF ws, G
<1>6. G[0] = <<>>
  <2>1. Written(<<>>) = <<>>
    BY DEF Written
  <2>2. 0 \in 0 .. n
    BY <1>2
  <2> QED
    BY <1>1, <1>5, <2>1, <2>2
<1>7. ASSUME NEW i \in 1 .. Len(ws) PROVE G[i] = G[i - 1] \o ws[i]
  <2>1. i \in 1 .. n /\ i \in 0 .. n /\ i - 1 \in 0 .. n
    BY <1>2, <1>4
  <2>2. F(i) = F(i - 1) \o ss[i] /\ F(i - 1) \in Seq(Glyphs) /\ ss[i] \in Seq(Glyphs)
    BY <1>1, <1>2, <2>1
  <2>3. Written(F(i - 1) \o ss[i]) = Written(F(i - 1)) \o Written(ss[i])
    BY <2>2, WrittenOn
  <2>4. G[i] = Written(F(i)) /\ G[i - 1] = Written(F(i - 1)) /\ ws[i] = Written(ss[i])
    BY <1>4, <1>5, <2>1 DEF W
  <2> QED
    BY <2>2, <2>3, <2>4, Zenon
<1>8. FlattenSeq(ws) = G[n]
  <2>1. FlattenSeq(ws) = G[Len(ws)]
    BY <1>4, <1>6, <1>7, FlatIs
  <2> QED
    BY <1>4, <2>1
<1>9. G[n] = Written(F(n))
  BY <1>2, <1>5
<1> QED
  BY <1>1, <1>8, <1>9 DEF ws, W

\* The first k glyphs of a line, split into runs.
SplitUp(rs, line, k) ==
  /\ rs \in Seq(Seq(Glyphs)) /\ \A i \in 1 .. Len(rs) : Uniform(rs[i])
  /\ FlattenSeq(rs) = SubSeq(line, 1, k)
  /\ k >= 1 => Len(rs) >= 1 /\ rs[Len(rs)][1].font = line[k].font

\* One glyph joins its neighbour's run or starts one.
LEMMA JoinSplits ==
  ASSUME NEW line \in Seq(Glyphs), NEW k \in Nat, k + 1 <= Len(line), NEW rs, SplitUp(rs, line, k)
  PROVE  SplitUp(JoinRun(rs, line, k + 1), line, k + 1)
<1> DEFINE g == line[k + 1]
           n == Len(rs)
           part == SubSeq(line, 1, k)
           next == SubSeq(line, 1, k + 1)
           new == JoinRun(rs, line, k + 1)
<1>1. /\ rs \in Seq(Seq(Glyphs)) /\ n \in Nat /\ \A i \in 1 .. n : rs[i] \in Seq(Glyphs) /\ Uniform(rs[i])
      /\ FlattenSeq(rs) = part
  BY DEF SplitUp
<1>2. g \in Glyphs /\ k + 1 \in 1 .. Len(line) /\ Len(line) \in Nat
  OBVIOUS
<1>3. next = Append(part, g) /\ part \in Seq(Glyphs)
  <2>1. \A i \in 1 .. k : line[i] \in Glyphs
    <3>1. TAKE i \in 1 .. k
    <3>2. i \in 1 .. Len(line)
      BY <1>2
    <3> QED
      BY <3>2
  <2>2. \A i \in 1 .. (k + 1) : line[i] \in Glyphs
    <3>1. TAKE i \in 1 .. (k + 1)
    <3>2. i \in 1 .. Len(line)
      BY <1>2
    <3> QED
      BY <3>2
  <2>3. 1 \in Int /\ k \in Int /\ k + 1 \in Int
    OBVIOUS
  <2>4. /\ part \in Seq(Glyphs) /\ Len(part) = IF 1 <= k THEN k - 1 + 1 ELSE 0
        /\ \A i \in 1 .. (k - 1 + 1) : part[i] = line[1 + i - 1]
    BY <2>1, <2>3, SubSeqProperties
  <2>5. /\ next \in Seq(Glyphs) /\ Len(next) = IF 1 <= k + 1 THEN (k + 1) - 1 + 1 ELSE 0
        /\ \A i \in 1 .. ((k + 1) - 1 + 1) : next[i] = line[1 + i - 1]
    BY <2>2, <2>3, SubSeqProperties
  <2> DEFINE ap == Append(part, g)
  <2> HIDE DEF part, next, g
  <2>6. Len(part) = k /\ Len(next) = k + 1
    BY <2>4, <2>5
  <2>7. ap \in Seq(Glyphs) /\ Len(ap) = k + 1 /\ ap[k + 1] = g /\ \A i \in 1 .. k : ap[i] = part[i]
    BY <1>2, <2>4, <2>6
  <2> HIDE DEF ap
  <2>8. ASSUME NEW i \in 1 .. (k + 1) PROVE next[i] = ap[i]
    <3>1. next[i] = line[i]
      <4>1. i \in 1 .. ((k + 1) - 1 + 1) /\ 1 + i - 1 = i
        OBVIOUS
      <4> QED
        BY <2>5, <4>1
    <3>2. CASE i = k + 1
      BY <2>7, <3>1, <3>2 DEF g
    <3>3. CASE i # k + 1
      <4>1. i \in 1 .. k /\ i \in 1 .. (k - 1 + 1) /\ 1 + i - 1 = i
        BY <3>3
      <4>2. part[i] = line[i]
        BY <2>4, <4>1
      <4> QED
        BY <2>7, <3>1, <4>1, <4>2
    <3> QED
      BY <3>2, <3>3
  <2>9. next = ap
    BY <2>5, <2>6, <2>7, <2>8
  <2> QED
    BY <2>4, <2>9 DEF ap
<1>4. CASE k + 1 = 1 \/ ~SameRun(line[(k + 1) - 1], line[k + 1])
  <2> DEFINE one == <<g>>
  <2>1. new = Append(rs, one)
    BY <1>4 DEF JoinRun
  <2>2. one \in Seq(Glyphs) /\ Len(one) = 1 /\ one[1] = g
    BY <1>2
  <2>3. Uniform(one)
    <3> HIDE DEF one, g
    <3> QED
      BY <2>2 DEF Uniform
  <2>4. FlattenSeq(Append(rs, one)) = FlattenSeq(rs) \o one
    BY <1>1, <2>2, FlatAppend
  <2>5. part \o <<g>> = Append(part, g)
    <3> HIDE DEF part, g
    <3> QED
      BY <1>2, <1>3, AppendIsConcat
  <2> HIDE DEF one, new, part, next
  <2>6. FlattenSeq(new) = next
    BY <1>1, <1>3, <2>1, <2>4, <2>5, Zenon DEF one
  <2>7. /\ new \in Seq(Seq(Glyphs)) /\ Len(new) = n + 1 /\ new[n + 1] = one
        /\ \A i \in 1 .. n : new[i] = rs[i]
    BY <1>1, <2>1, <2>2
  <2>8. \A i \in 1 .. Len(new) : Uniform(new[i])
    <3>1. TAKE i \in 1 .. Len(new)
    <3>2. CASE i = n + 1
      BY <2>3, <2>7, <3>2
    <3>3. CASE i # n + 1
      <4>1. i \in 1 .. n
        BY <1>1, <2>7, <3>3
      <4> QED
        BY <1>1, <2>7, <4>1
    <3> QED
      BY <3>2, <3>3
  <2>9. Len(new) >= 1 /\ new[Len(new)][1].font = line[k + 1].font
    BY <1>1, <2>2, <2>7
  <2>10. SplitUp(new, line, k + 1)
    BY <2>6, <2>7, <2>8, <2>9 DEF SplitUp, next
  <2> QED
    BY <2>10 DEF new
<1>5. CASE ~(k + 1 = 1 \/ ~SameRun(line[(k + 1) - 1], line[k + 1]))
  <2>1. k >= 1 /\ (k + 1) - 1 = k
    BY <1>5
  <2>2. line[k].font = g.font /\ n >= 1 /\ n \in 1 .. n /\ rs[n][1].font = line[k].font
    BY <1>1, <1>5, <2>1 DEF SplitUp, SameRun
  <2> DEFINE run == Append(rs[n], g)
  <2>3. new = [rs EXCEPT ![Len(rs)] = Append(rs[Len(rs)], g)]
    BY <1>5 DEF JoinRun
  <2>4. FlattenSeq(new) = Append(FlattenSeq(rs), g)
    <3>1. FlattenSeq([rs EXCEPT ![Len(rs)] = Append(rs[Len(rs)], g)]) = Append(FlattenSeq(rs), g)
      <4> HIDE DEF g
      <4> QED
        BY <1>1, <1>2, <2>2, FlatLast
    <3> QED
      BY <2>3, <3>1
  <2>5. Uniform(run) /\ run \in Seq(Glyphs) /\ run[1].font = g.font
    <3> DEFINE last == rs[n]
    <3>1. /\ last \in Seq(Glyphs) /\ Len(last) >= 1 /\ last[1].font = g.font
          /\ \A i \in 1 .. Len(last) : last[i].font = last[1].font
      BY <1>1, <2>2 DEF Uniform
    <3>2. run = Append(last, g)
      OBVIOUS
    <3> HIDE DEF last, g, run
    <3>3. /\ run \in Seq(Glyphs) /\ Len(run) = Len(last) + 1 /\ run[Len(last) + 1] = g
          /\ \A i \in 1 .. Len(last) : run[i] = last[i]
      BY <1>2, <3>1, <3>2
    <3>4. Len(last) \in Nat /\ 1 \in 1 .. Len(last)
      BY <3>1
    <3>5. \A i \in 1 .. Len(run) : run[i].font = g.font
      <4>1. TAKE i \in 1 .. Len(run)
      <4>2. CASE i = Len(last) + 1
        BY <3>3, <4>2
      <4>3. CASE i # Len(last) + 1
        <5>1. i \in 1 .. Len(last)
          BY <3>3, <3>4, <4>3
        <5> QED
          BY <3>1, <3>3, <5>1
      <4> QED
        BY <4>2, <4>3
    <3>6. run[1].font = g.font /\ Len(run) >= 1
      BY <3>3, <3>4, <3>5
    <3> QED
      BY <3>3, <3>5, <3>6 DEF Uniform
  <2>6. new = [rs EXCEPT ![n] = run]
    BY <2>3
  <2> HIDE DEF run, new, part, next
  <2>7. /\ new \in Seq(Seq(Glyphs)) /\ Len(new) = n /\ new[n] = run
        /\ \A i \in 1 .. n : i # n => new[i] = rs[i]
    <3> HIDE DEF n
    <3>1. DOMAIN rs = 1 .. n
      BY <1>1 DEF n
    <3> QED
      BY <1>1, <2>2, <2>5, <2>6, <3>1
  <2>8. \A i \in 1 .. Len(new) : Uniform(new[i])
    <3>1. TAKE i \in 1 .. Len(new)
    <3>2. CASE i = n
      BY <2>5, <2>7, <3>2
    <3>3. CASE i # n
      BY <1>1, <2>7, <3>3
    <3> QED
      BY <3>2, <3>3
  <2>9. FlattenSeq(new) = next
    BY <1>1, <1>3, <2>4, Zenon
  <2>10. SplitUp(new, line, k + 1)
    BY <2>2, <2>5, <2>7, <2>8, <2>9 DEF SplitUp, next
  <2> QED
    BY <2>10 DEF new
<1> QED
  BY <1>4, <1>5

\* The runs of a line are its glyphs, in order, each run in one face.
LEMMA RunsOfIs ==
  ASSUME NEW line \in Seq(Glyphs)
  PROVE  /\ RunsOf(line) \in Seq(Seq(Glyphs))
         /\ \A i \in 1 .. Len(RunsOf(line)) : Uniform(RunsOf(line)[i])
         /\ FlattenSeq(RunsOf(line)) = line
<1> DEFINE n == Len(line)
           f == RunsUpTo(line)
           S == {k \in Nat : k <= n => SplitUp(f[k], line, k)}
<1>1. n \in Nat
  OBVIOUS
<1>2. /\ f[0] = <<>> /\ RunsOf(line) = f[n]
      /\ \A k \in 1 .. n : f[k] = JoinRun(f[k - 1], line, k)
  BY <1>1, RunsRecur
<1> HIDE DEF f, n
<1>3. 0 \in S
  <2>1. FlattenSeq(<<>>) = <<>>
    BY DEF FlattenSeq
  <2>2. SubSeq(line, 1, 0) = <<>>
    BY SubSeqEmpty
  <2>3. <<>> \in Seq(Seq(Glyphs)) /\ Len(<<>>) = 0
    OBVIOUS
  <2>4. \A i \in 1 .. Len(<<>>) : Uniform(<<>>[i])
    BY <2>3
  <2>5. ~(0 >= 1)
    OBVIOUS
  <2>6. FlattenSeq(<<>>) = SubSeq(line, 1, 0)
    BY <2>1, <2>2, Zenon
  <2>7. SplitUp(<<>>, line, 0)
    BY <2>3, <2>4, <2>5, <2>6, Zenon DEF SplitUp
  <2> QED
    BY <1>2, <2>7
<1>4. ASSUME NEW k \in Nat, k \in S PROVE k + 1 \in S
  <2> SUFFICES ASSUME k + 1 <= n PROVE SplitUp(f[k + 1], line, k + 1)
    OBVIOUS
  <2>1. SplitUp(f[k], line, k) /\ k + 1 \in 1 .. n /\ (k + 1) - 1 = k
    BY <1>1, <1>4
  <2>2. f[k + 1] = JoinRun(f[k], line, k + 1) /\ k + 1 <= Len(line)
    BY <1>2, <2>1 DEF n
  <2>3. SplitUp(JoinRun(f[k], line, k + 1), line, k + 1)
    BY <2>1, <2>2, JoinSplits
  <2> QED
    BY <2>2, <2>3
<1>5. n \in S
  <2> HIDE DEF S
  <2> QED
    BY <1>1, <1>3, <1>4, SetInduction
<1>6. SplitUp(RunsOf(line), line, n)
  BY <1>1, <1>2, <1>5
<1>7. SubSeq(line, 1, Len(line)) = line
  BY SubSeqFull
<1> QED
  BY <1>6, <1>7 DEF SplitUp, n

-----------------------------------------------------------------------------
(* A line of the handle.                                                   *)

\* What a line's runs spell.
LEMMA RunsReadIs ==
  ASSUME NEW c, Closed(c), NEW n, NEW runs \in Seq(Seq(Glyphs)), NEW from \in Nat,
         c.lines[n].runs = from, c.lines[n].runsLen = Len(runs),
         from + Len(runs) <= Len(c.runs),
         \A i \in 1 .. Len(runs) : RunText(c, c.runs[from + i]) = Written(runs[i])
  PROVE  RunsRead(c, n) = Written(FlattenSeq(runs))
<1> DEFINE m  == Len(runs)
           all == c.runs
           rs == Slice(all, from, m)
<1>1. all \in Seq(RunRecs) /\ m \in Nat /\ from + m <= Len(all)
  BY HandleIs DEF Closed
<1> HIDE DEF all, m
<1>2. Extends(all, all)
  BY <1>1 DEF Extends
<1>3. Holds(RunRecs, rs, all, from, m)
  BY <1>1, <1>2, SliceStays
<1>4. /\ rs \in Seq(RunRecs) /\ Len(rs) = m
      /\ \A k \in 1 .. m : rs[k] = all[from + k]
  BY <1>3 DEF Holds
<1>5. RunsRead(c, n) = FlattenSeq([r \in DOMAIN rs |-> RunText(c, rs[r])])
  BY DEF RunsRead, all, m
<1> HIDE DEF rs
<1>6. DOMAIN rs = 1 .. m /\ DOMAIN runs = 1 .. m
  BY <1>4 DEF m
<1>7. \A r \in 1 .. m : RunText(c, rs[r]) = Written(runs[r])
  BY <1>4 DEF m, all
<1>8. [r \in DOMAIN rs |-> RunText(c, rs[r])] = [r \in DOMAIN runs |-> Written(runs[r])]
  BY <1>6, <1>7, Zenon
<1>9. FlattenSeq([r \in DOMAIN runs |-> Written(runs[r])]) = Written(FlattenSeq(runs))
  BY WrittenFlat
<1> QED
  BY <1>5, <1>8, <1>9, Zenon

\* What its clusters spell.
LEMMA ClustersReadIs ==
  ASSUME NEW c, Closed(c), NEW n, NEW line \in Seq(Glyphs), NEW from \in Nat,
         c.lines[n].clusters = from, c.lines[n].clustersLen = Len(line),
         from + Len(line) <= Len(c.clusters),
         \A i \in 1 .. Len(line) : ClusterText(c, c.clusters[from + i])
                                     = [font |-> line[i].font, char |-> line[i].char]
  PROVE  ClustersRead(c, n) = Written(line)
<1> DEFINE m  == Len(line)
           all == c.clusters
           cs == Slice(all, from, m)
<1>1. all \in Seq(ClusterRecs) /\ m \in Nat /\ from + m <= Len(all)
  BY HandleIs DEF Closed
<1> HIDE DEF all, m
<1>2. Extends(all, all)
  BY <1>1 DEF Extends
<1>3. Holds(ClusterRecs, cs, all, from, m)
  BY <1>1, <1>2, SliceStays
<1>4. /\ cs \in Seq(ClusterRecs) /\ Len(cs) = m
      /\ \A k \in 1 .. m : cs[k] = all[from + k]
  BY <1>3 DEF Holds
<1>5. ClustersRead(c, n) = [k \in DOMAIN cs |-> ClusterText(c, cs[k])]
  BY DEF ClustersRead, all, m
<1> HIDE DEF cs
<1>6. DOMAIN cs = 1 .. m /\ DOMAIN line = 1 .. m
  BY <1>4 DEF m
<1>7. \A k \in 1 .. m : ClusterText(c, cs[k]) = [font |-> line[k].font, char |-> line[k].char]
  BY <1>4 DEF m, all
<1>8. [k \in DOMAIN cs |-> ClusterText(c, cs[k])]
        = [k \in DOMAIN line |-> [font |-> line[k].font, char |-> line[k].char]]
  BY <1>6, <1>7, Zenon
<1> QED
  BY <1>5, <1>8, Zenon DEF Written

\* A line in its place, legible through both indices.
LineStands(h, n, line, top, lineH) ==
  /\ n \in 1 .. Len(h.lines) /\ h.lines[n].top = top /\ h.lines[n].bottom = top + lineH
  /\ RunsRead(h, n) = Written(line) /\ ClustersRead(h, n) = Written(line)

\* It stays there when the handle grows.
LEMMA StandsOn ==
  ASSUME NEW h, Closed(h), NEW g, Grown(h, g), NEW n, NEW line, NEW top, NEW lineH,
         LineStands(h, n, line, top, lineH)
  PROVE  LineStands(g, n, line, top, lineH)
<1>1. n \in 1 .. Len(h.lines)
  BY DEF LineStands
<1>2. /\ g.lines[n] = h.lines[n]
      /\ RunsRead(g, n) = RunsRead(h, n) /\ ClustersRead(g, n) = ClustersRead(h, n)
  BY <1>1, LineStays
<1>3. n \in 1 .. Len(g.lines)
  <2>1. Len(h.lines) <= Len(g.lines) /\ Len(h.lines) \in Nat /\ Len(g.lines) \in Nat
    <3>1. h.lines \in Seq(LineRecs) /\ g.lines \in Seq(LineRecs)
      BY HandleIs DEF Closed, Grown
    <3> QED
      BY <3>1 DEF Grown, Extends
  <2> QED
    BY <1>1, <2>1
<1> QED
  BY <1>2, <1>3, Zenon DEF LineStands

\* What export of a text adds: its lines, one under the other.
SameButText(h, a) == a.height = h.height /\ a.blocks = h.blocks
TextStands(h, a, lines, y, lineH, k) ==
  /\ Closed(a) /\ Grown(h, a) /\ SameButText(h, a)
  /\ Len(a.lines) = Len(h.lines) + k
  /\ \A i \in 1 .. k : LineStands(a, Len(h.lines) + i, lines[i], y + (i - 1) * lineH, lineH)

\* One line of export_layout.
LEMMA ExportLineIs ==
  ASSUME NEW h, Closed(h), NEW line \in Seq(Glyphs), NEW top \in Int, NEW lineH \in Int
  PROVE  LET c == ExportLine(h, line, top, lineH)
         IN /\ Closed(c) /\ Grown(h, c) /\ SameButText(h, c)
            /\ Len(c.lines) = Len(h.lines) + 1
            /\ LineStands(c, Len(h.lines) + 1, line, top, lineH)
<1> DEFINE runs == RunsOf(line)
           a == ExportRuns(h, runs, top)
           b == ExportClusters(a, line)
           c == ExportLine(h, line, top, lineH)
           n == Len(h.lines)
           r0 == Len(h.runs)
           m  == Len(runs)
           c0 == Len(a.clusters)
           rec == [top |-> top, bottom |-> top + lineH,
                   runs |-> Len(h.runs), runsLen |-> Len(a.runs) - Len(h.runs),
                   clusters |-> Len(a.clusters), clustersLen |-> Len(b.clusters) - Len(a.clusters)]
           S == Append(b.lines, rec)
<1>1. c = WithLines(b, S)
  BY DEF ExportLine, WithLines
<1>2. /\ runs \in Seq(Seq(Glyphs)) /\ \A i \in 1 .. m : Uniform(runs[i])
      /\ FlattenSeq(runs) = line /\ m \in Nat
  BY RunsOfIs
<1> HIDE DEF runs
<1>3. RunsStand(h, a, runs, m)
  BY <1>2, ExportRunsIs
<1> HIDE DEF a
<1>4. Closed(a)
  BY <1>3 DEF RunsStand
<1>5. ClustersStand(a, b, line, Len(line))
  BY <1>4, ExportClustersIs
<1> HIDE DEF b
<1>6. /\ Grown(h, a) /\ SameButRuns(h, a) /\ Len(a.runs) = r0 + m
      /\ \A i \in 1 .. m : RunText(a, a.runs[r0 + i]) = Written(runs[i])
  BY <1>3 DEF RunsStand
<1>7. /\ Closed(b) /\ Grown(a, b) /\ SameButClusters(a, b) /\ Len(b.clusters) = c0 + Len(line)
      /\ \A i \in 1 .. Len(line) : ClusterText(b, b.clusters[c0 + i])
                                     = [font |-> line[i].font, char |-> line[i].char]
  BY <1>5 DEF ClustersStand
<1>8. /\ h \in Handles /\ h.lines \in Seq(LineRecs) /\ h.runs \in Seq(RunRecs)
      /\ n \in Nat /\ r0 \in Nat
  BY HandleIs DEF Closed
<1>9. /\ a \in Handles /\ a.clusters \in Seq(ClusterRecs) /\ a.runs \in Seq(RunRecs) /\ c0 \in Nat
  BY <1>4, HandleIs DEF Closed
<1>10. /\ b \in Handles /\ b.lines \in Seq(LineRecs) /\ b.blocks \in Seq(BlockRecs)
       /\ b.runs \in Seq(RunRecs) /\ b.glyphs \in Seq(Chars)
       /\ b.clusters \in Seq(ClusterRecs) /\ b.fonts \in Seq(Faces)
  BY <1>7, HandleIs DEF Closed
<1>11. Len(a.runs) - Len(h.runs) = m /\ Len(b.clusters) - Len(a.clusters) = Len(line)
       /\ Len(line) \in Nat
  <2>1. Len(line) \in Nat
    OBVIOUS
  <2>2. Len(a.runs) = r0 + m /\ Len(b.clusters) = c0 + Len(line) /\ Len(h.runs) = r0 /\ Len(a.clusters) = c0
    BY <1>6, <1>7
  <2> HIDE DEF r0, c0, m
  <2> QED
    BY <1>2, <1>8, <1>9, <2>1, <2>2
<1>12. /\ rec \in LineRecs /\ rec.top = top /\ rec.bottom = top + lineH
       /\ rec.runs = r0 /\ rec.runsLen = m /\ rec.clusters = c0 /\ rec.clustersLen = Len(line)
  <2> DEFINE len == Len(line)
  <2>1. rec = [top |-> top, bottom |-> top + lineH, runs |-> r0, runsLen |-> m,
               clusters |-> c0, clustersLen |-> len]
    BY <1>11
  <2>2. len \in Nat
    BY <1>11
  <2> HIDE DEF rec, len, r0, m, c0
  <2>3. /\ rec \in LineRecs /\ rec.top = top /\ rec.bottom = top + lineH
        /\ rec.runs = r0 /\ rec.runsLen = m /\ rec.clusters = c0 /\ rec.clustersLen = len
    BY <1>2, <1>8, <1>9, <2>1, <2>2 DEF LineRecs
  <2> QED
    BY <2>3 DEF len
<1> HIDE DEF rec
<1>13. S \in Seq(LineRecs) /\ Len(S) = Len(b.lines) + 1 /\ S[Len(b.lines) + 1] = rec
       /\ Extends(b.lines, S) /\ \A k \in 1 .. Len(b.lines) : S[k] = b.lines[k]
  <2> DEFINE bl == b.lines
             A  == Append(bl, rec)
  <2>1. bl \in Seq(LineRecs) /\ rec \in LineRecs
    BY <1>10, <1>12
  <2>2. S = A
    OBVIOUS
  <2> HIDE DEF S, bl
  <2>3. /\ A \in Seq(LineRecs) /\ Len(A) = Len(bl) + 1 /\ A[Len(bl) + 1] = rec
        /\ \A k \in 1 .. Len(bl) : A[k] = bl[k]
    BY <2>1
  <2>4. Extends(bl, A)
    BY <2>1, ExtendsBy
  <2> HIDE DEF A
  <2>5. S \in Seq(LineRecs) /\ Len(S) = Len(bl) + 1 /\ S[Len(bl) + 1] = rec
        /\ Extends(bl, S) /\ \A k \in 1 .. Len(bl) : S[k] = bl[k]
    BY <2>2, <2>3, <2>4
  <2> QED
    BY <2>5 DEF bl
<1> HIDE DEF S
<1>14. c \in Handles /\ SameButLines(b, c) /\ c.lines = S
  BY <1>1, <1>10, <1>13, LineFields
<1> HIDE DEF c
<1>15. Len(b.lines) = n
  BY <1>6, <1>7 DEF SameButRuns, SameButClusters
<1>16. Grown(b, c)
  BY <1>10, <1>13, <1>14 DEF Grown, SameButLines, Extends
<1>17. Grown(a, c) /\ Grown(h, c)
  <2>1. Grown(a, c)
    BY <1>7, <1>9, <1>16, GrownOn
  <2> QED
    BY <1>6, <1>8, <2>1, GrownOn
<1>18. /\ c.runs = b.runs /\ c.runs = a.runs /\ c.clusters = b.clusters /\ c.fonts = b.fonts
       /\ c.glyphs = b.glyphs /\ c.height = h.height /\ c.blocks = h.blocks
  BY <1>6, <1>7, <1>14 DEF SameButRuns, SameButClusters, SameButLines
<1>19. r0 + m <= Len(c.runs) /\ c0 + Len(line) <= Len(c.clusters)
  <2>1. Len(c.runs) = r0 + m /\ Len(c.clusters) = c0 + Len(line)
    BY <1>6, <1>7, <1>18
  <2> HIDE DEF r0, m, c0
  <2> QED
    BY <1>2, <1>8, <1>9, <1>11, <2>1
<1>20. Closed(c)
  <2>1. ASSUME NEW k \in 1 .. Len(c.lines)
        PROVE  /\ c.lines[k].runs + c.lines[k].runsLen <= Len(c.runs)
               /\ c.lines[k].clusters + c.lines[k].clustersLen <= Len(c.clusters)
    <3>1. CASE k = n + 1
      <4>1. c.lines[k] = rec
        BY <1>13, <1>14, <1>15, <3>1
      <4> QED
        BY <1>12, <1>19, <4>1
    <3>2. CASE k # n + 1
      <4>1. k \in 1 .. Len(b.lines)
        BY <1>8, <1>13, <1>14, <1>15, <3>2
      <4>2. c.lines[k] = b.lines[k]
        BY <1>13, <1>14, <4>1
      <4>3. /\ b.lines[k].runs + b.lines[k].runsLen <= Len(b.runs)
            /\ b.lines[k].clusters + b.lines[k].clustersLen <= Len(b.clusters)
        BY <1>7, <4>1 DEF Closed
      <4> QED
        BY <1>18, <4>2, <4>3
    <3> QED
      BY <3>1, <3>2
  <2> QED
    BY <1>7, <1>14, <1>18, <2>1, Zenon DEF Closed
<1>21. c.lines[n + 1] = rec /\ Len(c.lines) = n + 1
  BY <1>13, <1>14, <1>15
<1>22. RunsRead(c, n + 1) = Written(line)
  <2>1. ASSUME NEW i \in 1 .. m PROVE RunText(c, c.runs[r0 + i]) = Written(runs[i])
    <3> DEFINE j == r0 + i
    <3>1. j \in 1 .. Len(a.runs)
      BY <1>2, <1>6, <1>8
    <3>2. RunText(a, a.runs[j]) = Written(runs[i])
      BY <1>6
    <3> HIDE DEF j
    <3>3. RunText(c, c.runs[j]) = RunText(a, a.runs[j])
      BY <1>4, <1>17, <3>1, RunStays
    <3>4. RunText(c, c.runs[j]) = Written(runs[i])
      BY <3>2, <3>3, Zenon
    <3> QED
      BY <3>4 DEF j
  <2>2. c.lines[n + 1].runs = r0 /\ c.lines[n + 1].runsLen = Len(runs)
    BY <1>12, <1>21
  <2>3. r0 + Len(runs) <= Len(c.runs)
    BY <1>19
  <2> DEFINE q == n + 1
  <2> HIDE DEF q
  <2>4. c.lines[q].runs = r0 /\ c.lines[q].runsLen = Len(runs)
    BY <2>2 DEF q
  <2>5. \A i \in 1 .. Len(runs) : RunText(c, c.runs[r0 + i]) = Written(runs[i])
    BY <2>1
  <2> HIDE DEF r0
  <2>6. RunsRead(c, q) = Written(FlattenSeq(runs))
    BY <1>2, <1>8, <1>20, <2>3, <2>4, <2>5, RunsReadIs
  <2> QED
    BY <1>2, <2>6 DEF q
<1>23. ClustersRead(c, n + 1) = Written(line)
  <2>1. ASSUME NEW i \in 1 .. Len(line)
        PROVE  ClusterText(c, c.clusters[c0 + i]) = [font |-> line[i].font, char |-> line[i].char]
    <3>1. ClusterText(b, b.clusters[c0 + i]) = [font |-> line[i].font, char |-> line[i].char]
      BY <1>7
    <3> QED
      BY <1>18, <3>1 DEF ClusterText
  <2> DEFINE q == n + 1
  <2>2. c.lines[q].clusters = c0 /\ c.lines[q].clustersLen = Len(line)
    BY <1>12, <1>21
  <2>3. c0 + Len(line) <= Len(c.clusters)
    BY <1>19
  <2> HIDE DEF q, c0
  <2>4. ClustersRead(c, q) = Written(line)
    BY <1>9, <1>20, <2>1, <2>2, <2>3, ClustersReadIs
  <2> QED
    BY <2>4 DEF q
<1>24. LineStands(c, n + 1, line, top, lineH)
  <2>1. n + 1 \in 1 .. Len(c.lines)
    BY <1>8, <1>21
  <2> QED
    BY <1>12, <1>21, <1>22, <1>23, <2>1 DEF LineStands
<1>25. SameButText(h, c)
  BY <1>18 DEF SameButText
<1> QED
  BY <1>17, <1>20, <1>21, <1>24, <1>25 DEF c

\* One line more.
LEMMA LineAdded ==
  ASSUME NEW h, Closed(h), NEW a, NEW lines, NEW y, NEW lineH \in Int, NEW k \in Nat,
         TextStands(h, a, lines, y, lineH, k), lines[k + 1] \in Seq(Glyphs),
         NEW top \in Int, top = y + ((k + 1) - 1) * lineH
  PROVE  TextStands(h, ExportLine(a, lines[k + 1], top, lineH), lines, y, lineH, k + 1)
<1> DEFINE line == lines[k + 1]
           b == ExportLine(a, line, top, lineH)
           m == Len(h.lines)
           at(i) == y + (i - 1) * lineH
<1>1. /\ Closed(a) /\ Grown(h, a) /\ SameButText(h, a) /\ Len(a.lines) = m + k
      /\ \A i \in 1 .. k : LineStands(a, m + i, lines[i], at(i), lineH)
  BY DEF TextStands
<1>2. h \in Handles /\ h.lines \in Seq(LineRecs) /\ m \in Nat
  BY HandleIs DEF Closed
<1>3. line \in Seq(Glyphs) /\ top = at(k + 1)
  OBVIOUS
<1> HIDE DEF line, at
<1>4. /\ Closed(b) /\ Grown(a, b) /\ SameButText(a, b)
      /\ Len(b.lines) = Len(a.lines) + 1
      /\ LineStands(b, Len(a.lines) + 1, line, top, lineH)
  BY <1>1, <1>3, ExportLineIs
<1> HIDE DEF b
<1>5. Grown(h, b)
  BY <1>1, <1>2, <1>4, GrownOn
<1>6. SameButText(h, b)
  BY <1>1, <1>4 DEF SameButText
<1>7. Len(b.lines) = m + (k + 1) /\ Len(a.lines) + 1 = m + (k + 1)
  <2>1. Len(a.lines) = m + k /\ m \in Nat /\ Len(b.lines) = Len(a.lines) + 1
    BY <1>1, <1>2, <1>4
  <2> HIDE DEF m
  <2> QED
    BY <2>1
<1>8. ASSUME NEW i \in 1 .. (k + 1) PROVE LineStands(b, m + i, lines[i], at(i), lineH)
  <2>1. CASE i = k + 1
    <3>1. m + i = Len(a.lines) + 1 /\ lines[i] = line /\ at(i) = top
      BY <1>3, <1>7, <2>1 DEF line
    <3> QED
      BY <1>4, <3>1
  <2>2. CASE i # k + 1
    <3> DEFINE j == m + i
               lj == lines[i]
               tj == at(i)
    <3>1. i \in 1 .. k
      BY <2>2
    <3>2. LineStands(a, j, lj, tj, lineH)
      BY <1>1, <3>1
    <3> HIDE DEF j, lj, tj
    <3>3. LineStands(b, j, lj, tj, lineH)
      BY <1>1, <1>4, <3>2, StandsOn
    <3> QED
      BY <3>3 DEF j, lj, tj
  <2> QED
    BY <2>1, <2>2
<1>9. TextStands(h, b, lines, y, lineH, k + 1)
  BY <1>4, <1>5, <1>6, <1>7, <1>8 DEF TextStands, m, at
<1> QED
  BY <1>9 DEF b, line

\* All of them.
LEMMA ExportTextIs ==
  ASSUME NEW h, Closed(h), NEW lines \in Seq(Seq(Glyphs)), NEW y \in Int, NEW lineH \in Int
  PROVE  TextStands(h, ExportText(h, lines, y, lineH), lines, y, lineH, Len(lines))
<1> DEFINE n == Len(lines)
           f == LinesOutUpTo(h, lines, y, lineH)
           top(k) == y + (k - 1) * lineH
           S == {k \in Nat : k <= n => TextStands(h, f[k], lines, y, lineH, k)}
<1>1. n \in Nat
  OBVIOUS
<1>2. /\ f[0] = h /\ ExportText(h, lines, y, lineH) = f[n]
      /\ \A k \in 1 .. n : f[k] = ExportLine(f[k - 1], lines[k], top(k), lineH)
  BY <1>1, LinesOutRecur
<1> HIDE DEF f, n
<1>3. 0 \in S
  <2>1. h \in Handles /\ h.lines \in Seq(LineRecs) /\ Len(h.lines) \in Nat
    BY HandleIs DEF Closed
  <2>2. Grown(h, h) /\ SameButText(h, h)
    BY <2>1, GrownSame DEF SameButText
  <2>3. Len(h.lines) = Len(h.lines) + 0
    BY <2>1
  <2>4. TextStands(h, h, lines, y, lineH, 0)
    BY <2>1, <2>2, <2>3 DEF TextStands
  <2> QED
    BY <1>2, <2>4
<1>4. ASSUME NEW k \in Nat, k \in S PROVE k + 1 \in S
  <2> SUFFICES ASSUME k + 1 <= n PROVE TextStands(h, f[k + 1], lines, y, lineH, k + 1)
    OBVIOUS
  <2>1. TextStands(h, f[k], lines, y, lineH, k) /\ k + 1 \in 1 .. n /\ (k + 1) - 1 = k
    BY <1>1, <1>4
  <2>2. f[k + 1] = ExportLine(f[k], lines[k + 1], top(k + 1), lineH) /\ lines[k + 1] \in Seq(Glyphs)
    BY <1>2, <2>1 DEF n
  <2> DEFINE t == top(k + 1)
  <2>3. t \in Int /\ t = y + ((k + 1) - 1) * lineH
    OBVIOUS
  <2> HIDE DEF t
  <2>4. TextStands(h, ExportLine(f[k], lines[k + 1], t, lineH), lines, y, lineH, k + 1)
    BY <2>1, <2>2, <2>3, LineAdded
  <2> QED
    BY <2>2, <2>4 DEF t
<1>5. n \in S
  <2> HIDE DEF S
  <2> QED
    BY <1>1, <1>3, <1>4, SetInduction
<1> QED
  BY <1>1, <1>2, <1>5 DEF n

-----------------------------------------------------------------------------
(* A block of the handle, and the handle.                                  *)

\* A block in the column: a rule has no lines and no marker.
PlacedBlocks == [kind : {"para", "heading", "pre", "rule"}, y : Int, quote : Nat,
                 marker : Seq(Glyphs), lines : Seq(Seq(Glyphs)), lineH : Int]
PlacedOk(p)  == p \in PlacedBlocks /\ (p.kind = "rule" => p.lines = <<>> /\ p.marker = <<>>)
MarkerLine(p) == IF p.marker = <<>> THEN <<>> ELSE <<p.marker>>
LinesTaken(p)      == Len(p.lines) + Len(MarkerLine(p))

\* Its record points to its lines, and to its marker right after them.
BlockStands(h, p, rec) ==
  /\ rec \in BlockRecs /\ rec.kind = p.kind /\ rec.y = p.y /\ rec.linesLen = Len(p.lines)
  /\ rec.lines + LinesTaken(p) <= Len(h.lines)
  /\ \A k \in 1 .. Len(p.lines) :
       LineStands(h, rec.lines + k, p.lines[k], p.y + (k - 1) * p.lineH, p.lineH)
  /\ p.marker = <<>> => rec.marker = LAYOUT_NONE
  /\ p.marker # <<>> => /\ rec.marker = rec.lines + Len(p.lines)
                        /\ LineStands(h, rec.marker + 1, p.marker, p.y, p.lineH)

\* A block stays where it is.
LEMMA BlockStays ==
  ASSUME NEW h, Closed(h), NEW g, Grown(h, g), NEW p, NEW rec, BlockStands(h, p, rec),
         LinesTaken(p) \in Nat
  PROVE  BlockStands(g, p, rec)
<1>1. Len(h.lines) <= Len(g.lines) /\ Len(h.lines) \in Nat /\ Len(g.lines) \in Nat
  <2>1. h.lines \in Seq(LineRecs) /\ g.lines \in Seq(LineRecs)
    BY HandleIs DEF Closed, Grown
  <2> QED
    BY <2>1 DEF Grown, Extends
<1>2. rec.lines \in Nat /\ rec.lines + LinesTaken(p) <= Len(h.lines)
  BY DEF BlockStands, BlockRecs
<1>3. rec.lines + LinesTaken(p) <= Len(g.lines)
  <2> DEFINE a == rec.lines
             t == LinesTaken(p)
             u == Len(h.lines)
             v == Len(g.lines)
  <2>1. a \in Nat /\ t \in Nat /\ u \in Nat /\ v \in Nat /\ a + t <= u /\ u <= v
    BY <1>1, <1>2
  <2> HIDE DEF a, t, u, v
  <2>2. a + t <= v
    BY <2>1
  <2> QED
    BY <2>2 DEF a, t, v
<1>4. ASSUME NEW k \in 1 .. Len(p.lines)
      PROVE  LineStands(g, rec.lines + k, p.lines[k], p.y + (k - 1) * p.lineH, p.lineH)
  <2> DEFINE j == rec.lines + k
             lj == p.lines[k]
             tj == p.y + (k - 1) * p.lineH
             hj == p.lineH
  <2>1. LineStands(h, j, lj, tj, hj)
    BY DEF BlockStands
  <2> HIDE DEF j, lj, tj, hj
  <2>2. LineStands(g, j, lj, tj, hj)
    BY <2>1, StandsOn
  <2> QED
    BY <2>2 DEF j, lj, tj, hj
<1>5. ASSUME p.marker # <<>> PROVE LineStands(g, rec.marker + 1, p.marker, p.y, p.lineH)
  <2> DEFINE j == rec.marker + 1
             lj == p.marker
             tj == p.y
             hj == p.lineH
  <2>1. LineStands(h, j, lj, tj, hj)
    BY <1>5 DEF BlockStands
  <2> HIDE DEF j, lj, tj, hj
  <2>2. LineStands(g, j, lj, tj, hj)
    BY <2>1, StandsOn
  <2> QED
    BY <2>2 DEF j, lj, tj, hj
<1> QED
  BY <1>3, <1>4, <1>5 DEF BlockStands

\* A text of no lines leaves the handle alone.
LEMMA ExportNothing ==
  ASSUME NEW h, NEW y, NEW lineH
  PROVE  ExportText(h, <<>>, y, lineH) = h
<1> DEFINE none == <<>>
           f == LinesOutUpTo(h, none, y, lineH)
<1>1. Len(none) = 0 /\ Len(none) \in Nat
  OBVIOUS
<1> HIDE DEF none
<1>2. f[0] = h /\ ExportText(h, none, y, lineH) = f[Len(none)]
  BY <1>1, LinesOutRecur
<1> QED
  BY <1>1, <1>2, Zenon DEF none

\* One block of export_layout.
LEMMA ExportBlockIs ==
  ASSUME NEW h, Closed(h), NEW p, PlacedOk(p)
  PROVE  LET c == ExportBlock(h, p)
         IN /\ Closed(c) /\ Grown(h, c) /\ c.height = h.height
            /\ Len(c.blocks) = Len(h.blocks) + 1 /\ Len(c.lines) = Len(h.lines) + LinesTaken(p)
            /\ c.blocks[Len(h.blocks) + 1].lines = Len(h.lines)
            /\ BlockStands(c, p, c.blocks[Len(h.blocks) + 1])
<1> DEFINE y == p.y
           lh == p.lineH
           ls == p.lines
           mk == MarkerLine(p)
           a == ExportText(h, ls, y, lh)
           b == ExportText(a, mk, y, lh)
           c == ExportBlock(h, p)
           n == Len(h.lines)
           nb == Len(h.blocks)
           nl == Len(ls)
           nm == Len(mk)
           rec == [kind |-> p.kind, y |-> p.y, quote |-> p.quote,
                   lines |-> Len(h.lines), linesLen |-> Len(a.lines) - Len(h.lines),
                   marker |-> IF p.marker = <<>> THEN LAYOUT_NONE ELSE Len(a.lines)]
           S == Append(b.blocks, rec)
<1>1. /\ y \in Int /\ lh \in Int /\ ls \in Seq(Seq(Glyphs)) /\ p.marker \in Seq(Glyphs)
      /\ p.kind \in {"para", "heading", "pre", "rule"} /\ p.quote \in Nat /\ nl \in Nat
  BY DEF PlacedOk, PlacedBlocks
<1>2. mk \in Seq(Seq(Glyphs)) /\ nm \in Nat
  BY <1>1 DEF MarkerLine
<1>3. IF p.kind = "rule" THEN a = h ELSE TRUE
  BY ExportNothing DEF PlacedOk
<1>4. a = IF p.kind = "rule" THEN h ELSE ExportText(h, p.lines, p.y, p.lineH)
  BY <1>3
<1>5. b = IF p.marker = <<>> THEN a ELSE ExportText(a, <<p.marker>>, p.y, p.lineH)
  <2>1. CASE p.marker = <<>>
    <3>1. mk = <<>>
      BY <2>1 DEF MarkerLine
    <3>2. b = a
      <4> HIDE DEF a
      <4> QED
        BY <3>1, ExportNothing
    <3> QED
      BY <2>1, <3>2
  <2>2. CASE p.marker # <<>>
    <3>1. mk = <<p.marker>>
      BY <2>2 DEF MarkerLine
    <3> QED
      BY <2>2, <3>1
  <2> QED
    BY <2>1, <2>2
<1>6. c = WithBlocks(b, S)
  <2> HIDE DEF a, b
  <2> QED
    BY <1>4, <1>5 DEF ExportBlock, WithBlocks
<1>7. TextStands(h, a, ls, y, lh, nl)
  <2> HIDE DEF ls, y, lh
  <2> QED
    BY <1>1, ExportTextIs
<1> HIDE DEF a
<1>8. Closed(a)
  BY <1>7 DEF TextStands
<1>9. TextStands(a, b, mk, y, lh, nm)
  <2> HIDE DEF mk, y, lh
  <2> QED
    BY <1>1, <1>2, <1>8, ExportTextIs
<1> HIDE DEF b
<1>10. /\ Grown(h, a) /\ a.height = h.height /\ a.blocks = h.blocks /\ Len(a.lines) = n + nl
       /\ \A i \in 1 .. nl : LineStands(a, n + i, ls[i], y + (i - 1) * lh, lh)
  BY <1>7 DEF TextStands, SameButText
<1>11. /\ Closed(b) /\ Grown(a, b) /\ b.height = a.height /\ b.blocks = a.blocks
       /\ Len(b.lines) = Len(a.lines) + nm
       /\ \A i \in 1 .. nm : LineStands(b, Len(a.lines) + i, mk[i], y + (i - 1) * lh, lh)
  BY <1>9 DEF TextStands, SameButText
<1>12. h \in Handles /\ a \in Handles /\ n \in Nat /\ nb \in Nat
  BY <1>8, HandleIs DEF Closed
<1>13. /\ b \in Handles /\ b.lines \in Seq(LineRecs) /\ b.blocks \in Seq(BlockRecs)
       /\ b.runs \in Seq(RunRecs) /\ b.glyphs \in Seq(Chars)
       /\ b.clusters \in Seq(ClusterRecs) /\ b.fonts \in Seq(Faces)
  BY <1>11, HandleIs DEF Closed
<1>14. Len(a.lines) = n + nl /\ Len(b.lines) = n + (nl + nm) /\ Len(b.blocks) = nb
       /\ Len(a.lines) - Len(h.lines) = nl
  <2>1. Len(a.lines) = n + nl /\ Len(b.lines) = Len(a.lines) + nm /\ Len(h.lines) = n
        /\ Len(b.blocks) = nb
    BY <1>10, <1>11
  <2> HIDE DEF n, nl, nm, nb
  <2> QED
    BY <1>1, <1>2, <1>12, <2>1
<1>15. /\ rec \in BlockRecs /\ rec.kind = p.kind /\ rec.y = y /\ rec.lines = n /\ rec.linesLen = nl
       /\ rec.marker = IF p.marker = <<>> THEN LAYOUT_NONE ELSE n + nl
  <2> DEFINE mark == IF p.marker = <<>> THEN LAYOUT_NONE ELSE n + nl
             kd == p.kind
             qt == p.quote
  <2>1. rec = [kind |-> kd, y |-> y, quote |-> qt, lines |-> n, linesLen |-> nl, marker |-> mark]
    BY <1>14
  <2>2. mark \in Int
    <3> HIDE DEF n, nl
    <3> QED
      BY <1>1, <1>12 DEF LAYOUT_NONE
  <2> HIDE DEF rec, n, nl, mark, kd, qt, y
  <2>3. kd \in {"para", "heading", "pre", "rule"} /\ qt \in Nat
    BY <1>1 DEF kd, qt
  <2>4. /\ rec \in BlockRecs /\ rec.kind = kd /\ rec.y = y /\ rec.lines = n
        /\ rec.linesLen = nl /\ rec.marker = mark
    BY <1>1, <1>12, <2>1, <2>2, <2>3 DEF BlockRecs
  <2> QED
    BY <2>4 DEF mark, kd
<1> HIDE DEF rec
<1>16. /\ S \in Seq(BlockRecs) /\ Len(S) = nb + 1 /\ S[nb + 1] = rec /\ Extends(b.blocks, S)
  BY <1>13, <1>14, <1>15 DEF Extends
<1> HIDE DEF S
<1>17. c \in Handles /\ SameButBlocks(b, c) /\ c.blocks = S
  BY <1>6, <1>13, <1>16, BlockFields
<1> HIDE DEF c
<1>18. Grown(b, c)
  BY <1>13, <1>16, <1>17 DEF Grown, SameButBlocks, Extends
<1>19. Grown(a, c) /\ Grown(h, c)
  <2>1. Grown(a, c)
    BY <1>11, <1>12, <1>18, GrownOn
  <2> QED
    BY <1>10, <1>12, <2>1, GrownOn
<1>20. Closed(c) /\ c.lines = b.lines /\ c.height = h.height
  BY <1>10, <1>11, <1>17 DEF Closed, SameButBlocks
<1>21. LinesTaken(p) = nl + nm
  BY DEF LinesTaken
<1>22. Len(c.lines) = n + LinesTaken(p)
  BY <1>14, <1>20, <1>21
<1>23. BlockStands(c, p, rec)
  <2>1. rec.lines + LinesTaken(p) <= Len(c.lines)
    <3> DEFINE t == LinesTaken(p)
    <3>1. t \in Nat /\ rec.lines = n /\ Len(c.lines) = n + t
      BY <1>1, <1>2, <1>15, <1>21, <1>22
    <3> HIDE DEF t, n
    <3> QED
      BY <1>12, <3>1 DEF t
  <2>2. ASSUME NEW k \in 1 .. Len(p.lines)
        PROVE  LineStands(c, rec.lines + k, p.lines[k], p.y + (k - 1) * p.lineH, p.lineH)
    <3> DEFINE j == n + k
               lj == ls[k]
               tj == y + (k - 1) * lh
               hj == lh
    <3>1. LineStands(a, j, lj, tj, hj)
      BY <1>10
    <3> HIDE DEF j, lj, tj, hj
    <3>2. LineStands(c, j, lj, tj, hj)
      BY <1>8, <1>19, <3>1, StandsOn
    <3> QED
      BY <1>15, <3>2 DEF j, lj, tj, hj
  <2>3. ASSUME p.marker # <<>>
        PROVE  rec.marker = rec.lines + Len(p.lines) /\ LineStands(c, rec.marker + 1, p.marker, p.y, p.lineH)
    <3>1. mk = <<p.marker>> /\ nm = 1 /\ mk[1] = p.marker
      BY <2>3 DEF MarkerLine
    <3>2. rec.marker = n + nl /\ rec.marker + 1 = Len(a.lines) + 1
      BY <1>14, <1>15, <2>3
    <3>3. 1 \in 1 .. nm
      BY <3>1
    <3>4. LineStands(b, Len(a.lines) + 1, mk[1], y + (1 - 1) * lh, lh)
      BY <1>11, <3>3
    <3>5. y + (1 - 1) * lh = y
      <4> HIDE DEF y, lh
      <4> QED
        BY <1>1
    <3> DEFINE j == rec.marker + 1
               lj == p.marker
    <3>6. LineStands(b, j, lj, y, lh)
      BY <3>1, <3>2, <3>4, <3>5
    <3> HIDE DEF j, lj, y, lh
    <3>7. LineStands(c, j, lj, y, lh)
      BY <1>11, <1>18, <3>6, StandsOn
    <3> QED
      BY <1>15, <3>2, <3>7 DEF j, lj, y, lh
  <2> QED
    BY <1>15, <2>1, <2>2, <2>3 DEF BlockStands
<1>24. c.blocks[nb + 1] = rec /\ Len(c.blocks) = nb + 1
  BY <1>16, <1>17
<1>25. c.blocks[nb + 1].lines = n
  BY <1>15, <1>24
<1> QED
  BY <1>19, <1>20, <1>22, <1>23, <1>24, <1>25 DEF c

\* The handle of the first k blocks: each stands, and the lines of the next one
\* follow its own.
NextLine(h, i) == IF i < Len(h.blocks) THEN h.blocks[i + 1].lines ELSE Len(h.lines)
HandleStands(h, blocks, k) ==
  /\ Closed(h) /\ Len(h.blocks) = k
  /\ \A i \in 1 .. k : BlockStands(h, blocks[i], h.blocks[i])
  /\ \A i \in 1 .. k : h.blocks[i].lines + LinesTaken(blocks[i]) = NextLine(h, i)
  /\ NextLine(h, 0) = 0

\* A block takes some lines.
LEMMA TakenIs ==
  ASSUME NEW p, PlacedOk(p)
  PROVE  /\ p.lines \in Seq(Seq(Glyphs)) /\ p.marker \in Seq(Glyphs)
         /\ p.y \in Int /\ p.lineH \in Int /\ Len(p.lines) \in Nat
         /\ Len(MarkerLine(p)) = (IF p.marker = <<>> THEN 0 ELSE 1)
         /\ LinesTaken(p) \in Nat
         /\ LinesTaken(p) = Len(p.lines) + (IF p.marker = <<>> THEN 0 ELSE 1)
<1>1. p.lines \in Seq(Seq(Glyphs)) /\ p.marker \in Seq(Glyphs) /\ p.y \in Int /\ p.lineH \in Int
  BY DEF PlacedOk, PlacedBlocks
<1>2. Len(MarkerLine(p)) = (IF p.marker = <<>> THEN 0 ELSE 1)
  BY DEF MarkerLine
<1>3. LinesTaken(p) = Len(p.lines) + (IF p.marker = <<>> THEN 0 ELSE 1) /\ Len(p.lines) \in Nat
  BY <1>1, <1>2 DEF LinesTaken
<1>4. LinesTaken(p) \in Nat
  <2> DEFINE n == Len(p.lines)
             m == IF p.marker = <<>> THEN 0 ELSE 1
  <2>1. n \in Nat /\ m \in Nat /\ LinesTaken(p) = n + m
    BY <1>3
  <2> HIDE DEF n, m
  <2> QED
    BY <2>1
<1> QED
  BY <1>1, <1>2, <1>3, <1>4, Zenon

\* The empty handle.
LEMMA NoLayoutIs ==
  ASSUME NEW height \in Int, NEW blocks
  PROVE  HandleStands([NoLayout EXCEPT !.height = height], blocks, 0)
<1> DEFINE h == [NoLayout EXCEPT !.height = height]
<1>1. /\ h \in Handles /\ h.blocks = <<>> /\ h.lines = <<>> /\ h.runs = <<>>
      /\ h.clusters = <<>> /\ h.fonts = <<>>
  <2> DEFINE none == <<>>
  <2>1. h = [height |-> height, blocks |-> none, lines |-> none, runs |-> none,
             glyphs |-> none, clusters |-> none, fonts |-> none]
    BY DEF NoLayout
  <2>2. none \in Seq(BlockRecs) /\ none \in Seq(LineRecs) /\ none \in Seq(RunRecs)
        /\ none \in Seq(Chars) /\ none \in Seq(ClusterRecs) /\ none \in Seq(Faces)
    OBVIOUS
  <2> HIDE DEF none, h
  <2>3. /\ h \in Handles /\ h.blocks = none /\ h.lines = none /\ h.runs = none
        /\ h.clusters = none /\ h.fonts = none
    BY <2>1, <2>2 DEF Handles
  <2> QED
    BY <2>3 DEF none
<1> HIDE DEF h
<1>2. /\ Len(h.blocks) = 0 /\ Len(h.lines) = 0 /\ Len(h.runs) = 0 /\ Len(h.clusters) = 0
  BY <1>1
<1>3. IsInjective(h.fonts)
  <2>1. DOMAIN h.fonts = {}
    BY <1>1
  <2> QED
    BY <2>1 DEF IsInjective
<1>4. Closed(h)
  BY <1>1, <1>2, <1>3 DEF Closed
<1> QED
  BY <1>2, <1>4 DEF HandleStands, NextLine, h

\* One block more.
LEMMA BlockAdded ==
  ASSUME NEW h, NEW blocks, NEW k \in Nat, HandleStands(h, blocks, k), PlacedOk(blocks[k + 1]),
         \A i \in 1 .. k : PlacedOk(blocks[i])
  PROVE  HandleStands(ExportBlock(h, blocks[k + 1]), blocks, k + 1)
<1> DEFINE p == blocks[k + 1]
           c == ExportBlock(h, p)
           n == Len(h.lines)
<1>1. /\ Closed(h) /\ Len(h.blocks) = k
      /\ \A i \in 1 .. k : BlockStands(h, blocks[i], h.blocks[i])
      /\ \A i \in 1 .. k : h.blocks[i].lines + LinesTaken(blocks[i]) = NextLine(h, i)
      /\ NextLine(h, 0) = 0
  BY DEF HandleStands
<1>2. PlacedOk(p)
  OBVIOUS
<1> HIDE DEF p
<1>3. /\ Closed(c) /\ Grown(h, c)
      /\ Len(c.blocks) = Len(h.blocks) + 1 /\ Len(c.lines) = n + LinesTaken(p)
      /\ c.blocks[Len(h.blocks) + 1].lines = n
      /\ BlockStands(c, p, c.blocks[Len(h.blocks) + 1])
  BY <1>1, <1>2, ExportBlockIs
<1> HIDE DEF c
<1>4. /\ Len(c.blocks) = k + 1 /\ c.blocks[k + 1].lines = n /\ BlockStands(c, p, c.blocks[k + 1])
      /\ \A i \in 1 .. k : c.blocks[i] = h.blocks[i]
  BY <1>1, <1>3 DEF Grown, Extends
<1>5. ASSUME NEW i \in 1 .. (k + 1) PROVE BlockStands(c, blocks[i], c.blocks[i])
  <2>1. CASE i = k + 1
    BY <1>4, <2>1 DEF p
  <2>2. CASE i # k + 1
    <3> DEFINE q == blocks[i]
               rec == h.blocks[i]
    <3>1. i \in 1 .. k
      BY <2>2
    <3>2. BlockStands(h, q, rec) /\ PlacedOk(q) /\ c.blocks[i] = rec
      BY <1>1, <1>4, <3>1
    <3> HIDE DEF q, rec
    <3>3. LinesTaken(q) \in Nat
      BY <3>2, TakenIs
    <3>4. BlockStands(c, q, rec)
      BY <1>1, <1>3, <3>2, <3>3, BlockStays
    <3> QED
      BY <3>2, <3>4 DEF q
  <2> QED
    BY <2>1, <2>2
<1>6. ASSUME NEW i \in 0 .. k PROVE NextLine(c, i) = NextLine(h, i)
  <2>1. CASE i = k
    BY <1>1, <1>4, <2>1 DEF NextLine
  <2>2. CASE i # k
    <3>1. i + 1 \in 1 .. k /\ i < k /\ i < k + 1
      BY <2>2
    <3> QED
      BY <1>1, <1>4, <3>1 DEF NextLine
  <2> QED
    BY <2>1, <2>2
<1>7. ASSUME NEW i \in 1 .. (k + 1) PROVE c.blocks[i].lines + LinesTaken(blocks[i]) = NextLine(c, i)
  <2>1. CASE i = k + 1
    <3>1. NextLine(c, i) = n + LinesTaken(p)
      BY <1>3, <1>4, <2>1 DEF NextLine
    <3> QED
      BY <1>4, <2>1, <3>1 DEF p
  <2>2. CASE i # k + 1
    <3>1. i \in 1 .. k /\ i \in 0 .. k
      BY <2>2
    <3> QED
      BY <1>1, <1>4, <1>6, <3>1
  <2> QED
    BY <2>1, <2>2
<1>8. NextLine(c, 0) = 0
  BY <1>1, <1>6
<1>9. HandleStands(c, blocks, k + 1)
  BY <1>3, <1>4, <1>5, <1>7, <1>8 DEF HandleStands
<1> QED
  BY <1>9 DEF c, p

\* The whole of it.
LEMMA ExportIs ==
  ASSUME NEW l, l.height \in Int, Len(l.placed) \in Nat,
         \A i \in 1 .. Len(l.placed) : PlacedOk(l.placed[i])
  PROVE  HandleStands(Export(l), l.placed, Len(l.placed))
<1> DEFINE blocks == l.placed
           n == Len(blocks)
           f == BlocksOutUpTo(l)
           first == [NoLayout EXCEPT !.height = l.height]
           S == {k \in Nat : k <= n => HandleStands(f[k], blocks, k)}
<1>1. n \in Nat /\ \A i \in 1 .. n : PlacedOk(blocks[i])
  OBVIOUS
<1>2. /\ f[0] = first /\ Export(l) = f[n]
      /\ \A k \in 1 .. n : f[k] = ExportBlock(f[k - 1], blocks[k])
  BY <1>1, BlocksOutRecur
<1>3. HandleStands(first, blocks, 0)
  <2> DEFINE height == l.height
  <2>1. height \in Int
    OBVIOUS
  <2> HIDE DEF height, blocks
  <2>2. HandleStands([NoLayout EXCEPT !.height = height], blocks, 0)
    BY <2>1, NoLayoutIs
  <2> QED
    BY <2>2 DEF height
<1> HIDE DEF f, first, n, blocks
<1>4. 0 \in S
  BY <1>2, <1>3
<1>5. ASSUME NEW k \in Nat, k \in S PROVE k + 1 \in S
  <2> SUFFICES ASSUME k + 1 <= n PROVE HandleStands(f[k + 1], blocks, k + 1)
    OBVIOUS
  <2>1. /\ HandleStands(f[k], blocks, k) /\ k + 1 \in 1 .. n /\ (k + 1) - 1 = k
        /\ PlacedOk(blocks[k + 1]) /\ \A i \in 1 .. k : PlacedOk(blocks[i])
    BY <1>1, <1>5
  <2>2. f[k + 1] = ExportBlock(f[k], blocks[k + 1])
    BY <1>2, <2>1
  <2>3. HandleStands(ExportBlock(f[k], blocks[k + 1]), blocks, k + 1)
    <3> DEFINE g == f[k]
    <3>1. HandleStands(g, blocks, k)
      BY <2>1
    <3> HIDE DEF g
    <3>2. HandleStands(ExportBlock(g, blocks[k + 1]), blocks, k + 1)
      BY <2>1, <3>1, BlockAdded
    <3> QED
      BY <3>2 DEF g
  <2> QED
    BY <2>2, <2>3
<1>6. n \in S
  <2> HIDE DEF S
  <2> QED
    BY <1>1, <1>4, <1>5, SetInduction
<1> QED
  BY <1>1, <1>2, <1>6 DEF n, blocks

-----------------------------------------------------------------------------
(* The column that is exported: at scale 1.0 and without margins.          *)
PadIn(p) == IF p.kind = "pre" THEN 2 * PRE_PAD ELSE 0
Upper(p) == p.y - PadIn(p)
Lower(p) == IF p.kind = "rule" THEN p.y + 2 ELSE p.y + Len(p.lines) * p.lineH + PadIn(p)
Column(blocks) ==
  /\ \A i \in 1 .. Len(blocks) :
       PlacedOk(blocks[i]) /\ blocks[i].lineH >= 1 /\ 0 <= Upper(blocks[i])
  /\ \A i \in 1 .. (Len(blocks) - 1) : Lower(blocks[i]) <= Upper(blocks[i + 1])

\* One block of it: what it holds, and that it fills the extent it was given.
LEMMA PlaceBlockIs ==
  ASSUME NEW b \in LpBlock, Spelt(b), NEW width \in Nat, NEW top \in Nat
  PROVE  LET p == PlaceBlock(b, top, width, 0, 2)
         IN /\ PlacedOk(p) /\ p.lineH >= 1 /\ Upper(p) = top
            /\ Lower(p) = top + Extent(b, width, 0, 2)
<1> DEFINE p == PlaceBlock(b, top, width, 0, 2)
           h == LineHeight(b, 2)
           ls == LinesOf(b, width, 0)
           n == Len(ls)
           pad == Pad(b) * 2
           y == top + pad
           quote == IF b.kind = "rule" THEN 0 ELSE b.quote
           mark == IF b.kind = "rule" THEN <<>> ELSE MarkerGlyphs(b)
           kind == b.kind
<1>1. p = [kind |-> kind, y |-> y, quote |-> quote, marker |-> mark, lines |-> ls, lineH |-> h]
  BY DEF PlaceBlock
<1>2. ls \in Seq(Seq(Glyphs)) /\ n \in Nat
  <2>1. ls \in Seq(Seq(Glyphs))
    BY SizesAre
  <2> QED
    BY <2>1
<1>3. h \in Int /\ h >= 1
  <2>1. LineTenths(b) \in {400, 300, 250, 220, 200, 196, 224}
    BY DEF LineTenths
  <2> QED
    BY <2>1 DEF LineHeight
<1>4. pad = IF kind = "pre" THEN 16 ELSE 0
  <2>1. CASE b.kind = "pre"
    BY <2>1 DEF Pad, PRE_PAD
  <2>2. CASE b.kind # "pre"
    BY <2>2 DEF Pad
  <2> QED
    BY <2>1, <2>2
<1>5. pad \in Nat
  <2>1. CASE kind = "pre"
    BY <1>4, <2>1
  <2>2. CASE kind # "pre"
    BY <1>4, <2>2
  <2> QED
    BY <2>1, <2>2
<1>6. /\ kind \in {"para", "heading", "pre", "rule"} /\ quote \in Nat /\ mark \in Seq(Glyphs)
      /\ y \in Int
  <2>1. MarkerGlyphs(b) \in Seq(Glyphs)
    BY MarkerGlyphsAre
  <2>2. kind \in {"para", "heading", "pre", "rule"} /\ quote \in Nat
    BY DEF LpBlock
  <2>3. y \in Int
    <3> HIDE DEF pad
    <3> QED
      BY <1>5
  <2>4. mark \in Seq(Glyphs)
    BY <2>1
  <2> QED
    BY <2>2, <2>3, <2>4
<1>7. kind = "rule" => ls = <<>> /\ mark = <<>>
  BY DEF LinesOf
<1>8. Extent(b, width, 0, 2) = IF kind = "rule" THEN 2 ELSE n * h + 2 * pad
  <2>1. 2 * Pad(b) * 2 = 2 * pad
    <3>1. Pad(b) \in Int
      BY DEF Pad, PRE_PAD
    <3> QED
      BY <3>1
  <2> HIDE DEF pad
  <2> QED
    BY <2>1 DEF Extent, TextHeight
<1> HIDE DEF p, kind, y, quote, mark, ls, h, pad
<1>9. /\ p \in PlacedBlocks /\ p.kind = kind /\ p.y = y /\ p.lines = ls /\ p.lineH = h
      /\ p.marker = mark
  BY <1>1, <1>2, <1>3, <1>6 DEF PlacedBlocks
<1>10. PlacedOk(p)
  BY <1>7, <1>9 DEF PlacedOk
<1>11. PadIn(p) = pad
  BY <1>4, <1>9 DEF PadIn, PRE_PAD
<1>12. Upper(p) = top
  BY <1>5, <1>9, <1>11 DEF Upper, y
<1>13. Lower(p) = top + Extent(b, width, 0, 2)
  <2> DEFINE nh == n * h
  <2>1. nh \in Int
    BY <1>2, <1>3
  <2>2. Lower(p) = IF kind = "rule" THEN y + 2 ELSE y + nh + pad
    BY <1>9, <1>11 DEF Lower
  <2>3. CASE kind = "rule"
    <3>1. pad = 0
      BY <1>4, <2>3
    <3> QED
      BY <1>8, <2>2, <2>3, <3>1 DEF y
  <2>4. CASE kind # "rule"
    <3> HIDE DEF nh
    <3>1. Extent(b, width, 0, 2) = nh + 2 * pad
      BY <1>8, <2>4 DEF nh
    <3>2. Lower(p) = y + nh + pad
      BY <2>2, <2>4
    <3> QED
      BY <1>5, <2>1, <3>1, <3>2 DEF y
  <2> QED
    BY <2>3, <2>4
<1>14. p.lineH >= 1
  BY <1>3, <1>9
<1> QED
  BY <1>10, <1>12, <1>13, <1>14 DEF p

\* The blocks of a layout, one under the other.
LEMMA ColumnIs ==
  ASSUME NEW doc \in Seq(LpBlock), Utf8(doc), NEW width \in Nat
  PROVE  LET l == Layout(doc, width, 0, 2)
         IN /\ l.height \in Int /\ Len(doc) \in Nat /\ Len(l.placed) = Len(doc) /\ Column(l.placed)
            /\ \E top : \A i \in 1 .. Len(doc) :
                 l.placed[i] = PlaceBlock(doc[i], top[i], width, 0, 2)
<1> DEFINE top == Tops(doc, width, 0, 2)
           n == Len(doc)
           ext(i) == Extent(doc[i], width, 0, 2)
           gap(i) == Larger(After(doc[i - 1]), Before(doc[i])) * 2
           p(i) == PlaceBlock(doc[i], top[i], width, 0, 2)
           l == Layout(doc, width, 0, 2)
<1>1. n \in Nat /\ \A i \in 1 .. n : doc[i] \in LpBlock /\ Spelt(doc[i])
  BY DEF Utf8, Spelt
<1>2. \A i \in 1 .. n : top[i] \in Nat
  <2>1. 0 \in Nat /\ 2 \in Int /\ 2 >= 1
    OBVIOUS
  <2> QED
    BY <2>1, TopsDescend
<1>3. l.height \in Nat /\ Len(l.placed) = n
  <2>1. 0 \in Nat /\ 2 \in Int /\ 2 >= 1
    OBVIOUS
  <2> QED
    BY <2>1, LayoutIs
<1>4. \A i \in 1 .. n : l.placed[i] = p(i)
  BY DEF Layout
<1>5. ASSUME NEW i \in 1 .. n
      PROVE  PlacedOk(p(i)) /\ p(i).lineH >= 1 /\ Upper(p(i)) = top[i] /\ Lower(p(i)) = top[i] + ext(i)
  <2> DEFINE b == doc[i]
             t == top[i]
  <2>1. b \in LpBlock /\ Spelt(b) /\ t \in Nat
    BY <1>1, <1>2
  <2> HIDE DEF b, t
  <2>2. LET q == PlaceBlock(b, t, width, 0, 2)
        IN PlacedOk(q) /\ q.lineH >= 1 /\ Upper(q) = t /\ Lower(q) = t + Extent(b, width, 0, 2)
    BY <2>1, PlaceBlockIs
  <2> QED
    BY <2>2 DEF b, t
<1>6. \A i \in 1 .. n : ext(i) \in Int /\ ext(i) >= 0
  <2> TAKE i \in 1 .. n
  <2> DEFINE b == doc[i]
             m == 0
             s == 2
             e == Extent(b, width, m, s)
             d == Pad(b) * s
  <2>1. m \in Nat /\ s \in Int /\ s >= 1 /\ b \in LpBlock /\ Spelt(b)
    BY <1>1
  <2>2. e \in Int /\ d \in Int /\ 0 <= d /\ d <= e
    <3> HIDE DEF b, m, s
    <3> QED
      BY <2>1, SizesAre
  <2> HIDE DEF e, d
  <2>3. e \in Int /\ e >= 0
    BY <2>2
  <2> QED
    BY <2>3 DEF e
<1>7. \A i \in 1 .. n : gap(i) \in Int /\ gap(i) >= 0
  <2> TAKE i \in 1 .. n
  <2>1. After(doc[i - 1]) \in {4, 10, 12} /\ Before(doc[i]) \in {4, 12, 20}
    BY DEF After, Before
  <2>2. Larger(After(doc[i - 1]), Before(doc[i])) \in Nat
    BY <2>1 DEF Larger
  <2> QED
    BY <2>2
<1>8. ASSUME NEW i \in 1 .. n, i # 1 PROVE top[i] = top[i - 1] + ext(i - 1) + gap(i)
  <2> DEFINE nt(j) == NextTop(doc, width, 0, 2, top, j)
  <2>1. top = [j \in 1 .. n |-> nt(j)]
    BY <1>1, TopsRecur
  <2>2. top[i] = nt(i)
    <3> HIDE DEF top, nt
    <3> QED
      BY <2>1
  <2> HIDE DEF top
  <2> QED
    BY <1>8, <2>2 DEF NextTop
<1> HIDE DEF top, ext, gap, n, l, p
<1>9. ASSUME NEW i \in 1 .. (n - 1) PROVE Lower(p(i)) <= Upper(p(i + 1))
  <2>1. i \in 1 .. n /\ i + 1 \in 1 .. n /\ i + 1 # 1 /\ (i + 1) - 1 = i
    BY <1>1
  <2>2. top[i + 1] = top[i] + ext(i) + gap(i + 1)
    BY <1>8, <2>1
  <2>3. ext(i) \in Int /\ gap(i + 1) \in Int /\ gap(i + 1) >= 0 /\ top[i] \in Nat
    BY <1>2, <1>6, <1>7, <2>1
  <2>4. Lower(p(i)) = top[i] + ext(i) /\ Upper(p(i + 1)) = top[i + 1]
    BY <1>5, <2>1
  <2> QED
    BY <2>2, <2>3, <2>4
<1>10. Column(l.placed)
  <2> DEFINE blocks == l.placed
  <2>1. Len(blocks) = n /\ \A i \in 1 .. n : blocks[i] = p(i)
    BY <1>3, <1>4
  <2> HIDE DEF blocks
  <2>2. \A i \in 1 .. n : PlacedOk(blocks[i]) /\ blocks[i].lineH >= 1 /\ 0 <= Upper(blocks[i])
    BY <1>2, <1>5, <2>1
  <2>3. \A i \in 1 .. (n - 1) : Lower(blocks[i]) <= Upper(blocks[i + 1])
    <3> TAKE i \in 1 .. (n - 1)
    <3>1. i \in 1 .. n /\ i + 1 \in 1 .. n
      BY <1>1
    <3> QED
      BY <1>9, <2>1, <3>1
  <2>4. Column(blocks)
    BY <2>1, <2>2, <2>3 DEF Column
  <2> QED
    BY <2>4 DEF blocks
<1>11. \E t : \A i \in 1 .. n : l.placed[i] = PlaceBlock(doc[i], t[i], width, 0, 2)
  BY <1>4 DEF p
<1> QED
  BY <1>1, <1>3, <1>10, <1>11 DEF l, n

\* Rows of one height do not overlap.
LEMMA RowsDescend ==
  ASSUME NEW j \in Int, NEW k \in Int, j < k, NEW h \in Int, h >= 0
  PROVE  j * h \in Int /\ k * h \in Int /\ j * h + h <= k * h
<1> DEFINE d == k - j - 1
<1>1. d \in Nat /\ k = j + (d + 1)
  OBVIOUS
<1> HIDE DEF d
<1>2. k * h = j * h + d * h + h
  <2>1. (j + (d + 1)) * h = j * h + d * h + h
    BY <1>1
  <2> QED
    BY <1>1, <2>1
<1>3. d * h \in Int /\ d * h >= 0 /\ j * h \in Int
  BY <1>1
<1> DEFINE jh == j * h
           dh == d * h
           kh == k * h
<1>4. jh \in Int /\ dh \in Int /\ dh >= 0 /\ kh = jh + dh + h
  BY <1>2, <1>3
<1> HIDE DEF jh, dh, kh
<1>5. jh \in Int /\ kh \in Int /\ jh + h <= kh
  BY <1>4
<1> QED
  BY <1>5 DEF jh, kh

\* A block's lines, as pdf.zig takes them from the handle.
LEMMA BlockLinesAre ==
  ASSUME NEW h, Closed(h), NEW p, PlacedOk(p), NEW rec, BlockStands(h, p, rec)
  PROVE  LET ls == BlockLines(h, rec)
         IN /\ DOMAIN ls = 1 .. Len(p.lines) /\ Len(ls) = Len(p.lines)
            /\ \A k \in 1 .. Len(p.lines) : /\ ls[k].top = p.y + (k - 1) * p.lineH
                                            /\ ls[k].bottom = p.y + (k - 1) * p.lineH + p.lineH
<1> DEFINE all == h.lines
           a == rec.lines
           n == Len(p.lines)
           t == LinesTaken(p)
           ls == Slice(all, a, n)
<1>1. all \in Seq(LineRecs)
  BY HandleIs DEF Closed
<1>2. a \in Nat /\ a + t <= Len(all) /\ rec.linesLen = n
  BY DEF BlockStands, BlockRecs
<1>3. n \in Nat /\ t \in Nat /\ n <= t
  <2> DEFINE m == IF p.marker = <<>> THEN 0 ELSE 1
  <2>1. n \in Nat /\ t \in Nat /\ t = n + m /\ m \in Nat
    BY TakenIs
  <2> HIDE DEF n, t, m
  <2> QED
    BY <2>1
<1>4. \A k \in 1 .. n : /\ all[a + k].top = p.y + (k - 1) * p.lineH
                        /\ all[a + k].bottom = p.y + (k - 1) * p.lineH + p.lineH
  BY DEF BlockStands, LineStands
<1>5. BlockLines(h, rec) = ls
  BY <1>2 DEF BlockLines
<1> HIDE DEF all, a, n, t
<1>6. a + n <= Len(all)
  <2>1. Len(all) \in Nat
    BY <1>1
  <2> QED
    BY <1>2, <1>3, <2>1
<1>7. Extends(all, all)
  BY <1>1 DEF Extends
<1>8. Holds(LineRecs, ls, all, a, n)
  BY <1>1, <1>2, <1>3, <1>6, <1>7, SliceStays
<1>9. ls \in Seq(LineRecs) /\ Len(ls) = n /\ \A k \in 1 .. n : ls[k] = all[a + k]
  BY <1>8 DEF Holds
<1> HIDE DEF ls
<1>10. DOMAIN ls = 1 .. n
  BY <1>9
<1> QED
  BY <1>4, <1>5, <1>9, <1>10 DEF n

\* Boxes between two heights, one under the other.
Within(bs, lo, hi) ==
  Chain(bs) /\ \A k \in 1 .. Len(bs) : lo <= bs[k].top /\ bs[k].bottom <= hi

\* A block's boxes lie in its extent.
LEMMA BoxesAre ==
  ASSUME NEW h, Closed(h), NEW p, PlacedOk(p), NEW rec, BlockStands(h, p, rec),
         p.lineH >= 1, 0 <= Upper(p)
  PROVE  /\ Upper(p) \in Int /\ Lower(p) \in Int /\ Upper(p) <= Lower(p)
         /\ Within(Boxes(h, rec, 2 * PRE_PAD, 2), Upper(p), Lower(p))
<1> DEFINE y == p.y
           lh == p.lineH
           n == Len(p.lines)
           pad == PadIn(p)
           up == Upper(p)
           low == Lower(p)
           bs == Boxes(h, rec, 2 * PRE_PAD, 2)
           rows == n * lh
<1>1. y \in Int /\ lh \in Int /\ lh >= 1 /\ n \in Nat /\ rec.kind = p.kind /\ rec.y = y
  BY TakenIs DEF BlockStands
<1>2. pad \in Nat /\ pad = (IF rec.kind = "pre" THEN 2 * PRE_PAD ELSE 0)
  BY <1>1 DEF PadIn, PRE_PAD
<1>3. rows \in Int /\ rows >= 0
  <2> HIDE DEF n, lh
  <2> QED
    BY <1>1
<1>4. up = y - pad /\ 0 <= up /\ up \in Int
  <2>1. up = y - pad /\ 0 <= up
    BY DEF Upper
  <2> HIDE DEF up, y, pad
  <2> QED
    BY <1>1, <1>2, <2>1
<1>5. low = IF p.kind = "rule" THEN y + 2 ELSE y + rows + pad
  BY DEF Lower
<1>6. CASE p.kind = "rule"
  <2> DEFINE box == [top |-> y, bottom |-> y + 2]
  <2>1. bs = <<box>>
    BY <1>1, <1>6 DEF Boxes
  <2>2. pad = 0
    BY <1>6 DEF PadIn
  <2> HIDE DEF bs, y, up, low, pad
  <2>3. low = y + 2 /\ up = y /\ 0 <= y
    BY <1>1, <1>4, <1>5, <1>6, <2>2
  <2>4. box \in Box /\ box.top = y /\ box.bottom = y + 2
    BY <1>1 DEF Box
  <2> HIDE DEF box
  <2>5. bs \in Seq(Box) /\ Len(bs) = 1 /\ bs[1] = box
    BY <2>1, <2>4
  <2>6. Within(bs, up, low)
    BY <1>1, <2>3, <2>4, <2>5 DEF Within, Chain
  <2>7. up \in Int /\ low \in Int /\ up <= low
    BY <1>1, <2>3
  <2> QED
    BY <2>6, <2>7 DEF bs, up, low
<1>7. CASE p.kind # "rule"
  <2> DEFINE ls == BlockLines(h, rec)
             top(k) == y + (k - 1) * lh
             from(k) == top(k) - (IF k = 1 THEN pad ELSE 0)
             to(k) == top(k) + lh + (IF k = n THEN pad ELSE 0)
             box(k) == [top |-> from(k), bottom |-> to(k)]
  <2>1. DOMAIN ls = 1 .. n /\ Len(ls) = n
        /\ \A k \in 1 .. n : ls[k].top = top(k) /\ ls[k].bottom = top(k) + lh
    BY BlockLinesAre
  <2>2. bs = [k \in 1 .. n |-> box(k)]
    <3>1. bs = LineBoxes(h, rec, 2 * PRE_PAD)
      BY <1>1, <1>7 DEF Boxes
    <3> HIDE DEF ls, n, top, lh, pad, bs
    <3>2. bs = [k \in DOMAIN ls |->
                  [top |-> ls[k].top - (IF k = 1 THEN pad ELSE 0),
                   bottom |-> ls[k].bottom + (IF k = Len(ls) THEN pad ELSE 0)]]
      BY <1>2, <3>1 DEF LineBoxes, ls
    <3> QED
      BY <2>1, <3>2
  <2>3. low = y + rows + pad
    BY <1>5, <1>7
  <2>4. \A k \in 1 .. n : top(k) \in Int /\ y <= top(k) /\ top(k) + lh <= y + rows
    <3> TAKE k \in 1 .. n
    <3> HIDE DEF n, lh, y
    <3>1. k - 1 \in Int /\ 0 <= k - 1 /\ k - 1 < n /\ n \in Int /\ lh >= 0
      BY <1>1
    <3>2. (k - 1) * lh \in Int /\ (k - 1) * lh + lh <= n * lh
      BY <1>1, <3>1, RowsDescend
    <3>3. (k - 1) * lh >= 0
      BY <1>1, <3>1
    <3> QED
      BY <1>1, <3>2, <3>3
  <2>5. \A j, k \in 1 .. n : j < k => top(j) + lh <= top(k)
    <3> TAKE j, k \in 1 .. n
    <3> SUFFICES ASSUME j < k PROVE top(j) + lh <= top(k)
      OBVIOUS
    <3> HIDE DEF n, lh, y
    <3>1. j - 1 \in Int /\ k - 1 \in Int /\ j - 1 < k - 1 /\ lh >= 0
      BY <1>1
    <3>2. (j - 1) * lh \in Int /\ (k - 1) * lh \in Int /\ (j - 1) * lh + lh <= (k - 1) * lh
      BY <1>1, <3>1, RowsDescend
    <3> QED
      BY <1>1, <3>2
  <2> HIDE DEF top, rows, n, lh, y, pad, up, low, bs
  <2>6. \A k \in 1 .. n : /\ from(k) \in Int /\ to(k) \in Int /\ 0 <= from(k) /\ from(k) < to(k)
                          /\ up <= from(k) /\ to(k) <= low
    BY <1>1, <1>2, <1>3, <1>4, <2>3, <2>4
  <2>7. \A j, k \in 1 .. n : j < k => to(j) <= from(k)
    BY <1>1, <2>4, <2>5
  <2> HIDE DEF from, to
  <2>8. \A k \in 1 .. n : box(k) \in Box /\ box(k).top = from(k) /\ box(k).bottom = to(k)
    BY <2>6 DEF Box
  <2> HIDE DEF box
  <2>9. bs \in Seq(Box) /\ Len(bs) = n /\ \A k \in 1 .. n : bs[k] = box(k)
    <3>1. bs \in Seq(Box)
      BY <1>1, <2>2, <2>8, IsASeq
    <3> QED
      BY <1>1, <2>2, <3>1
  <2>10. Within(bs, up, low)
    BY <2>6, <2>7, <2>8, <2>9 DEF Within, Chain
  <2>11. up \in Int /\ low \in Int /\ up <= low
    BY <1>1, <1>2, <1>3, <1>4, <2>3
  <2> QED
    BY <2>10, <2>11 DEF bs, up, low
<1> QED
  BY <1>6, <1>7

\* Boxes below boxes.
LEMMA WithinJoins ==
  ASSUME NEW a \in Int, NEW b \in Int, NEW c \in Int, NEW d \in Int, b <= c, a <= c, b <= d,
         NEW s, Within(s, a, b), NEW t, Within(t, c, d)
  PROVE  Within(s \o t, a, d)
<1> DEFINE m == Len(s)
           n == Len(t)
           u == s \o t
<1>1. /\ s \in Seq(Box) /\ t \in Seq(Box) /\ m \in Nat /\ n \in Nat
      /\ \A k \in 1 .. m : /\ s[k] \in Box /\ 0 <= s[k].top /\ s[k].top < s[k].bottom
                           /\ a <= s[k].top /\ s[k].bottom <= b
      /\ \A k \in 1 .. n : /\ t[k] \in Box /\ 0 <= t[k].top /\ t[k].top < t[k].bottom
                           /\ c <= t[k].top /\ t[k].bottom <= d
      /\ \A j, k \in 1 .. m : j < k => s[j].bottom <= s[k].top
      /\ \A j, k \in 1 .. n : j < k => t[j].bottom <= t[k].top
  BY DEF Within, Chain
<1>2. /\ u \in Seq(Box) /\ Len(u) = m + n
      /\ \A k \in 1 .. (m + n) : u[k] = IF k <= m THEN s[k] ELSE t[k - m]
  BY <1>1, ConcatProperties
<1>3. \A k \in 1 .. m : s[k].top \in Int /\ s[k].bottom \in Int
  BY <1>1 DEF Box
<1>4. \A k \in 1 .. n : t[k].top \in Int /\ t[k].bottom \in Int
  BY <1>1 DEF Box
<1> HIDE DEF m, n, u
<1>5. \A k \in 1 .. (m + n) : (k <= m => k \in 1 .. m) /\ (~(k <= m) => k - m \in 1 .. n)
  BY <1>1
<1>6. ASSUME NEW k \in 1 .. (m + n)
      PROVE  0 <= u[k].top /\ u[k].top < u[k].bottom /\ a <= u[k].top /\ u[k].bottom <= d
  <2>1. CASE k <= m
    <3>1. k \in 1 .. m /\ u[k] = s[k]
      BY <1>2, <1>5, <2>1
    <3> QED
      BY <1>1, <1>3, <3>1
  <2>2. CASE ~(k <= m)
    <3>1. k - m \in 1 .. n /\ u[k] = t[k - m]
      BY <1>2, <1>5, <2>2
    <3> DEFINE i == k - m
    <3>2. i \in 1 .. n /\ u[k] = t[i]
      BY <3>1
    <3> HIDE DEF i
    <3> QED
      BY <1>1, <1>4, <3>2
  <2> QED
    BY <2>1, <2>2
<1>7. ASSUME NEW j \in 1 .. (m + n), NEW k \in 1 .. (m + n), j < k
      PROVE  u[j].bottom <= u[k].top
  <2>1. CASE k <= m
    <3>1. j \in 1 .. m /\ k \in 1 .. m
      BY <1>1, <1>7, <2>1
    <3>2. u[j] = s[j] /\ u[k] = s[k]
      BY <1>2, <2>1, <3>1
    <3> QED
      BY <1>1, <1>7, <3>1, <3>2
  <2>2. CASE ~(k <= m) /\ j <= m
    <3> DEFINE i == k - m
    <3>1. j \in 1 .. m /\ i \in 1 .. n /\ u[j] = s[j] /\ u[k] = t[i]
      BY <1>2, <1>5, <2>2
    <3> HIDE DEF i
    <3>2. s[j].bottom <= b /\ c <= t[i].top /\ s[j].bottom \in Int /\ t[i].top \in Int
      BY <1>1, <1>3, <1>4, <3>1
    <3> QED
      BY <3>1, <3>2
  <2>3. CASE ~(k <= m) /\ ~(j <= m)
    <3> DEFINE i == k - m
               l == j - m
    <3>1. l \in 1 .. n /\ i \in 1 .. n /\ u[j] = t[l] /\ u[k] = t[i] /\ l < i
      BY <1>1, <1>2, <1>5, <1>7, <2>3
    <3> HIDE DEF i, l
    <3> QED
      BY <1>1, <3>1
  <2> QED
    BY <2>1, <2>2, <2>3
<1>8. Within(u, a, d)
  BY <1>1, <1>2, <1>6, <1>7 DEF Within, Chain
<1> QED
  BY <1>8 DEF u

\* Stacks of boxes, each below the one before.
LEMMA ChainFlat ==
  ASSUME NEW ss \in Seq(Seq(Box)), NEW lo, NEW hi,
         \A i \in 1 .. Len(ss) : /\ lo[i] \in Int /\ hi[i] \in Int /\ 0 <= lo[i] /\ lo[i] <= hi[i]
                                 /\ Within(ss[i], lo[i], hi[i]),
         \A i \in 1 .. (Len(ss) - 1) : hi[i] <= lo[i + 1]
  PROVE  Chain(FlattenSeq(ss))
<1> DEFINE n == Len(ss)
           F(i) == FlatTo(ss, i)
           bound(i) == IF i = 0 THEN 0 ELSE hi[i]
           S == {i \in Nat : i <= n => Within(F(i), 0, bound(i))}
<1>1. /\ n \in Nat /\ F(0) = <<>> /\ FlattenSeq(ss) = F(n)
      /\ \A i \in 1 .. n : F(i) = F(i - 1) \o ss[i]
  <2>1. n \in Nat
    OBVIOUS
  <2>2. /\ F(0) = <<>> /\ FlattenSeq(ss) = F(n)
        /\ \A i \in 1 .. n : F(i) = F(i - 1) \o ss[i]
    BY Flattened, Zenon
  <2> QED
    BY <2>1, <2>2
<1>2. /\ \A i \in 1 .. n : /\ lo[i] \in Int /\ hi[i] \in Int /\ 0 <= lo[i] /\ lo[i] <= hi[i]
                           /\ Within(ss[i], lo[i], hi[i])
      /\ \A i \in 1 .. (n - 1) : hi[i] <= lo[i + 1]
  OBVIOUS
<1> HIDE DEF F, n
<1>3. 0 \in S
  <2>1. Within(<<>>, 0, 0)
    <3> DEFINE none == <<>>
    <3>1. none \in Seq(Box) /\ Len(none) = 0
      OBVIOUS
    <3> HIDE DEF none
    <3>2. Within(none, 0, 0)
      BY <3>1 DEF Within, Chain
    <3> QED
      BY <3>2 DEF none
  <2> QED
    BY <1>1, <2>1
<1>4. ASSUME NEW i \in Nat, i \in S PROVE i + 1 \in S
  <2> SUFFICES ASSUME i + 1 <= n PROVE Within(F(i + 1), 0, bound(i + 1))
    OBVIOUS
  <2> DEFINE b == bound(i)
             c == lo[i + 1]
             d == hi[i + 1]
             s == F(i)
             t == ss[i + 1]
  <2>1. i + 1 \in 1 .. n /\ (i + 1) - 1 = i /\ bound(i + 1) = d
    BY <1>1
  <2>2. Within(s, 0, b) /\ Within(t, c, d) /\ F(i + 1) = s \o t
    <3>1. i <= n
      BY <1>1
    <3>2. Within(s, 0, b)
      BY <1>4, <3>1
    <3>3. Within(t, c, d)
      BY <1>2, <2>1
    <3>4. F(i + 1) = F((i + 1) - 1) \o ss[i + 1]
      BY <1>1, <2>1
    <3>5. F(i + 1) = s \o t
      BY <2>1, <3>4
    <3> QED
      BY <3>2, <3>3, <3>5
  <2>3. b \in Int /\ c \in Int /\ d \in Int /\ 0 <= b /\ b <= c /\ c <= d /\ 0 <= c /\ b <= d
    <3>1. c \in Int /\ d \in Int /\ 0 <= c /\ c <= d
      BY <1>2, <2>1
    <3>2. CASE i = 0
      <4>1. b = 0
        BY <3>2
      <4> HIDE DEF b, c, d
      <4> QED
        BY <3>1, <4>1
    <3>3. CASE i # 0
      <4>1. i \in 1 .. n /\ i \in 1 .. (n - 1) /\ b = hi[i]
        BY <1>1, <3>3
      <4>2. b \in Int /\ 0 <= b /\ b <= c
        <5>1. lo[i] \in Int /\ hi[i] \in Int /\ 0 <= lo[i] /\ lo[i] <= hi[i] /\ hi[i] <= c
          BY <1>2, <4>1
        <5> HIDE DEF b, c
        <5> QED
          BY <4>1, <5>1
      <4> HIDE DEF b, c, d
      <4> QED
        BY <3>1, <4>2
    <3> QED
      BY <3>2, <3>3
  <2> HIDE DEF b, c, d, s, t, bound
  <2>4. Within(s \o t, 0, d)
    <3> DEFINE zero == 0
    <3>1. zero \in Int /\ zero <= c /\ Within(s, zero, b)
      BY <2>2, <2>3
    <3> HIDE DEF zero
    <3>2. Within(s \o t, zero, d)
      BY <2>2, <2>3, <3>1, WithinJoins
    <3> QED
      BY <3>2 DEF zero
  <2> QED
    BY <2>1, <2>2, <2>4
<1>5. n \in S
  <2> HIDE DEF S
  <2> QED
    BY <1>1, <1>3, <1>4, SetInduction
<1>6. Within(F(n), 0, bound(n))
  BY <1>1, <1>5
<1> QED
  BY <1>1, <1>6 DEF Within

\* The boxes of an exported column.
LEMMA ColumnBoxes ==
  ASSUME NEW h, NEW blocks, Len(blocks) \in Nat, HandleStands(h, blocks, Len(blocks)), Column(blocks)
  PROVE  Chain(AllBoxes(h, 2 * PRE_PAD, 2))
<1> DEFINE n == Len(blocks)
           bs(i) == Boxes(h, h.blocks[i], 2 * PRE_PAD, 2)
           ss == [i \in 1 .. n |-> bs(i)]
           lo == [i \in 1 .. n |-> Upper(blocks[i])]
           hi == [i \in 1 .. n |-> Lower(blocks[i])]
<1>1. /\ Closed(h) /\ Len(h.blocks) = n /\ n \in Nat
      /\ \A i \in 1 .. n : BlockStands(h, blocks[i], h.blocks[i])
  BY DEF HandleStands
<1>2. /\ \A i \in 1 .. n : PlacedOk(blocks[i]) /\ blocks[i].lineH >= 1 /\ 0 <= Upper(blocks[i])
      /\ \A i \in 1 .. (n - 1) : Lower(blocks[i]) <= Upper(blocks[i + 1])
  BY DEF Column
<1>3. DOMAIN h.blocks = 1 .. n
  <2>1. h.blocks \in Seq(BlockRecs)
    BY <1>1, HandleIs DEF Closed
  <2> QED
    BY <1>1, <2>1
<1>4. AllBoxes(h, 2 * PRE_PAD, 2) = FlattenSeq(ss)
  BY <1>3 DEF AllBoxes
<1> HIDE DEF n
<1>5. ASSUME NEW i \in 1 .. n
      PROVE  /\ lo[i] \in Int /\ hi[i] \in Int /\ 0 <= lo[i] /\ lo[i] <= hi[i]
             /\ Within(bs(i), lo[i], hi[i])
  <2> DEFINE p == blocks[i]
             rec == h.blocks[i]
  <2>1. BlockStands(h, p, rec) /\ PlacedOk(p) /\ p.lineH >= 1 /\ 0 <= Upper(p)
    BY <1>1, <1>2
  <2> HIDE DEF p, rec
  <2>2. /\ Upper(p) \in Int /\ Lower(p) \in Int /\ Upper(p) <= Lower(p)
        /\ Within(Boxes(h, rec, 2 * PRE_PAD, 2), Upper(p), Lower(p))
    BY <1>1, <2>1, BoxesAre
  <2>3. lo[i] = Upper(p) /\ hi[i] = Lower(p)
    BY DEF p
  <2> HIDE DEF lo, hi
  <2> QED
    BY <2>1, <2>2, <2>3 DEF rec
<1>6. ASSUME NEW i \in 1 .. (n - 1) PROVE hi[i] <= lo[i + 1]
  <2>1. i \in 1 .. n /\ i + 1 \in 1 .. n
    BY <1>1
  <2> QED
    BY <1>2, <2>1
<1>7. \A i \in 1 .. n : bs(i) \in Seq(Box)
  BY <1>5 DEF Within, Chain
<1> HIDE DEF bs, lo, hi
<1>8. ss \in Seq(Seq(Box)) /\ Len(ss) = n /\ \A i \in 1 .. n : ss[i] = bs(i)
  <2>1. ss \in Seq(Seq(Box))
    BY <1>1, <1>7, IsASeq
  <2> QED
    BY <1>1, <2>1
<1> HIDE DEF ss
<1>9. Chain(FlattenSeq(ss))
  BY <1>5, <1>6, <1>8, ChainFlat
<1> QED
  BY <1>4, <1>9

-----------------------------------------------------------------------------
(* The line numbers of the blocks.                                         *)

\* Each block starts where the one before it ends, the last one ends with the
\* lines, and so each line is of one block.
LEMMA NextLines ==
  ASSUME NEW h, NEW blocks, NEW n \in Nat, HandleStands(h, blocks, n),
         \A i \in 1 .. n : PlacedOk(blocks[i])
  PROVE  /\ NextLine(h, 0) = 0 /\ NextLine(h, n) = Len(h.lines)
         /\ \A i \in 1 .. n : /\ h.blocks[i].lines = NextLine(h, i - 1)
                              /\ NextLine(h, i) = NextLine(h, i - 1) + LinesTaken(blocks[i])
         /\ \A i \in 0 .. n : NextLine(h, i) \in Nat
         /\ \A i, j \in 0 .. n : i <= j => NextLine(h, i) <= NextLine(h, j)
         /\ \A l \in Nat : l < Len(h.lines) =>
              \E i \in 1 .. n : NextLine(h, i - 1) <= l /\ l < NextLine(h, i)
<1> DEFINE at(i) == NextLine(h, i)
           took(i) == LinesTaken(blocks[i])
<1>1. /\ Closed(h) /\ Len(h.blocks) = n
      /\ \A i \in 1 .. n : h.blocks[i].lines + took(i) = at(i)
      /\ at(0) = 0
  BY DEF HandleStands
<1>2. at(n) = Len(h.lines)
  BY <1>1 DEF NextLine
<1>3. \A i \in 1 .. n : h.blocks[i].lines = at(i - 1)
  <2> TAKE i \in 1 .. n
  <2>1. i - 1 < Len(h.blocks) /\ (i - 1) + 1 = i
    BY <1>1
  <2> QED
    BY <2>1 DEF NextLine
<1>4. \A i \in 1 .. n : took(i) \in Nat
  BY TakenIs
<1> HIDE DEF at, took
<1>5. \A i \in 1 .. n : at(i) = at(i - 1) + took(i)
  BY <1>1, <1>3
<1>6. \A i \in 0 .. n : at(i) \in Nat
  <2> DEFINE S == {i \in Nat : i <= n => at(i) \in Nat}
  <2>1. 0 \in S
    BY <1>1
  <2>2. ASSUME NEW i \in Nat, i \in S PROVE i + 1 \in S
    <3> SUFFICES ASSUME i + 1 <= n PROVE at(i + 1) \in Nat
      OBVIOUS
    <3>1. at(i) \in Nat /\ i + 1 \in 1 .. n /\ (i + 1) - 1 = i
      BY <2>2
    <3>2. at(i + 1) = at(i) + took(i + 1) /\ took(i + 1) \in Nat
      BY <1>4, <1>5, <3>1
    <3> QED
      BY <3>1, <3>2
  <2>3. Nat \subseteq S
    <3> HIDE DEF S
    <3> QED
      BY <2>1, <2>2, SetInduction
  <2> QED
    BY <2>3
<1>7. ASSUME NEW i \in 0 .. n, NEW j \in 0 .. n, i <= j PROVE at(i) <= at(j)
  <2> DEFINE D == {m \in Nat : i + m <= n => at(i) <= at(i + m)}
  <2>1. 0 \in D
    BY <1>6
  <2>2. ASSUME NEW m \in Nat, m \in D PROVE m + 1 \in D
    <3> SUFFICES ASSUME i + (m + 1) <= n PROVE at(i) <= at(i + (m + 1))
      OBVIOUS
    <3>1. /\ i + m \in 0 .. n /\ i + (m + 1) \in 1 .. n /\ (i + (m + 1)) - 1 = i + m
          /\ at(i) <= at(i + m)
      BY <2>2
    <3>2. at(i + (m + 1)) = at(i + m) + took(i + (m + 1)) /\ took(i + (m + 1)) \in Nat
      BY <1>4, <1>5, <3>1
    <3>3. at(i) \in Nat /\ at(i + m) \in Nat
      BY <1>6, <3>1
    <3> QED
      BY <3>1, <3>2, <3>3
  <2>3. Nat \subseteq D
    <3> HIDE DEF D
    <3> QED
      BY <2>1, <2>2, SetInduction
  <2>4. j - i \in Nat /\ i + (j - i) = j /\ j <= n
    BY <1>7
  <2>5. j - i \in D
    BY <2>3, <2>4
  <2> QED
    BY <2>4, <2>5
<1>8. ASSUME NEW l \in Nat, l < Len(h.lines)
      PROVE  \E i \in 1 .. n : at(i - 1) <= l /\ l < at(i)
  <2> DEFINE S == {i \in Nat : i <= n /\ l < at(i) =>
                                 \E j \in 1 .. n : at(j - 1) <= l /\ l < at(j)}
  <2>1. 0 \in S
    BY <1>1
  <2>2. ASSUME NEW i \in Nat, i \in S PROVE i + 1 \in S
    <3> SUFFICES ASSUME i + 1 <= n, l < at(i + 1)
                 PROVE  \E j \in 1 .. n : at(j - 1) <= l /\ l < at(j)
      OBVIOUS
    <3>1. i + 1 \in 1 .. n /\ (i + 1) - 1 = i /\ at(i) \in Nat
      BY <1>6
    <3>2. CASE l < at(i)
      BY <2>2, <3>2
    <3>3. CASE ~(l < at(i))
      <4>1. at((i + 1) - 1) <= l /\ l < at(i + 1)
        BY <3>1, <3>3
      <4> QED
        BY <3>1, <4>1
    <3> QED
      BY <3>2, <3>3
  <2>3. n \in S
    <3> HIDE DEF S
    <3> QED
      BY <2>1, <2>2, SetInduction
  <2> QED
    BY <1>2, <1>8, <2>3
<1> QED
  BY <1>1, <1>2, <1>3, <1>5, <1>6, <1>7, <1>8 DEF at, took

\* The block of a line is the only one.
LEMMA OneBlock ==
  ASSUME NEW h, NEW blocks, NEW n \in Nat, HandleStands(h, blocks, n),
         \A i \in 1 .. n : PlacedOk(blocks[i]),
         NEW l \in Int, NEW i \in 1 .. n, NEW j \in 1 .. n,
         h.blocks[i].lines <= l, l < h.blocks[i].lines + LinesTaken(blocks[i]),
         h.blocks[j].lines <= l, l < h.blocks[j].lines + LinesTaken(blocks[j])
  PROVE  i = j
<1> DEFINE at(k) == NextLine(h, k)
<1>1. /\ \A k \in 1 .. n : /\ h.blocks[k].lines = at(k - 1)
                           /\ at(k) = at(k - 1) + LinesTaken(blocks[k])
      /\ \A k \in 0 .. n : at(k) \in Nat
      /\ \A a, b \in 0 .. n : a <= b => at(a) <= at(b)
  BY NextLines
<1> HIDE DEF at
<1>2. at(i - 1) <= l /\ l < at(i) /\ at(j - 1) <= l /\ l < at(j)
  BY <1>1
<1>3. ASSUME NEW a \in 1 .. n, NEW b \in 1 .. n, a < b, at(b - 1) <= l, l < at(a) PROVE FALSE
  <2>1. a \in 0 .. n /\ b - 1 \in 0 .. n /\ a <= b - 1
    BY <1>3
  <2>2. at(a) <= at(b - 1) /\ at(a) \in Nat /\ at(b - 1) \in Nat
    BY <1>1, <2>1
  <2> QED
    BY <1>3, <2>2
<1> QED
  BY <1>2, <1>3

-----------------------------------------------------------------------------
(* What is drawn on the pages.                                             *)
BoxTop(h, rec, k) == LineBoxes(h, rec, 2 * PRE_PAD)[k].top
DrawnOf(h, rec, br, pick) ==
  LET boxes == LineBoxes(h, rec, 2 * PRE_PAD)
      page(k) == PageOf(br, boxes[k].top)
  IN {[line |-> rec.lines + k - 1, page |-> page(k)] : k \in {j \in DOMAIN boxes :
        pick = {} \/ page(j) \in pick}}
     \cup {[line |-> rec.marker, page |-> page(1)] : k \in {j \in DOMAIN boxes :
        j = 1 /\ rec.marker # LAYOUT_NONE /\ (pick = {} \/ page(1) \in pick)}}

\* The i-th line of a block goes to the page of its box, the marker, which counts
\* as the last, to the page of the first.
Due(h, p, rec, br, k) ==
  [line |-> rec.lines + k - 1,
   page |-> PageOf(br, BoxTop(h, rec, IF k <= Len(p.lines) THEN k ELSE 1))]

\* The lines drawn of one block.
LEMMA DrawnOfIs ==
  ASSUME NEW h, Closed(h), NEW p, PlacedOk(p), NEW rec, BlockStands(h, p, rec),
         NEW br, NEW pick
  PROVE  /\ \A d \in DrawnOf(h, rec, br, pick) :
              /\ pick = {} \/ d.page \in pick
              /\ \E k \in 1 .. LinesTaken(p) : d = Due(h, p, rec, br, k)
         /\ pick = {} /\ (p.marker # <<>> => Len(p.lines) >= 1) =>
              \A k \in 1 .. LinesTaken(p) : Due(h, p, rec, br, k) \in DrawnOf(h, rec, br, pick)
<1> DEFINE n == Len(p.lines)
           t == LinesTaken(p)
           boxes == LineBoxes(h, rec, 2 * PRE_PAD)
           page(k) == PageOf(br, boxes[k].top)
           due(k) == Due(h, p, rec, br, k)
           A == {[line |-> rec.lines + k - 1, page |-> page(k)] : k \in {j \in DOMAIN boxes :
                   pick = {} \/ page(j) \in pick}}
           B == {[line |-> rec.marker, page |-> page(1)] : k \in {j \in DOMAIN boxes :
                   j = 1 /\ rec.marker # LAYOUT_NONE /\ (pick = {} \/ page(1) \in pick)}}
<1>1. n \in Nat /\ t \in Nat /\ t = n + (IF p.marker = <<>> THEN 0 ELSE 1)
  BY TakenIs
<1>2. DOMAIN boxes = 1 .. n
  BY BlockLinesAre DEF LineBoxes
<1>3. DrawnOf(h, rec, br, pick) = A \cup B
  BY DEF DrawnOf
<1>4. \A k : due(k) = [line |-> rec.lines + k - 1, page |-> page(IF k <= n THEN k ELSE 1)]
  BY DEF Due, BoxTop
<1>5. rec.lines \in Nat
  BY DEF BlockStands, BlockRecs
<1>6. /\ p.marker = <<>> => rec.marker = LAYOUT_NONE
      /\ p.marker # <<>> => rec.marker = rec.lines + n
  BY DEF BlockStands
<1>7. p.marker # <<>> => rec.marker # LAYOUT_NONE
  <2> DEFINE a == rec.lines
  <2>1. p.marker # <<>> => rec.marker = a + n
    BY <1>6
  <2>2. a \in Nat
    BY <1>5
  <2> HIDE DEF a, n
  <2> QED
    BY <1>1, <2>1, <2>2 DEF LAYOUT_NONE
<1> HIDE DEF n, t, boxes, due, page
<1>8. ASSUME NEW d \in A
      PROVE  (pick = {} \/ d.page \in pick) /\ \E k \in 1 .. t : d = due(k)
  <2>1. PICK k \in 1 .. n : (pick = {} \/ page(k) \in pick)
                            /\ d = [line |-> rec.lines + k - 1, page |-> page(k)]
    BY <1>2
  <2>2. k \in 1 .. t /\ k <= n
    BY <1>1
  <2>3. d = due(k)
    BY <1>4, <2>1, <2>2
  <2> QED
    BY <2>1, <2>2, <2>3
<1>9. ASSUME NEW d \in B
      PROVE  (pick = {} \/ d.page \in pick) /\ \E k \in 1 .. t : d = due(k)
  <2>1. /\ 1 \in 1 .. n /\ rec.marker # LAYOUT_NONE /\ (pick = {} \/ page(1) \in pick)
        /\ d = [line |-> rec.marker, page |-> page(1)]
    BY <1>2
  <2>2. p.marker # <<>>
    BY <1>6, <2>1
  <2>3. t = n + 1 /\ n + 1 \in 1 .. t /\ ~(n + 1 <= n)
    BY <1>1, <2>2
  <2>4. rec.lines + (n + 1) - 1 = rec.marker
    <3> DEFINE a == rec.lines
    <3>1. a \in Nat /\ rec.marker = a + n
      BY <1>5, <1>6, <2>2
    <3> HIDE DEF a
    <3>2. a + (n + 1) - 1 = rec.marker
      BY <1>1, <3>1
    <3> QED
      BY <3>2 DEF a
  <2>5. d = due(n + 1)
    BY <1>4, <2>1, <2>3, <2>4
  <2> QED
    BY <2>1, <2>3, <2>5
<1>10. ASSUME pick = {}, p.marker # <<>> => n >= 1, NEW k \in 1 .. t
       PROVE  due(k) \in A \cup B
  <2>1. CASE k <= n
    <3>1. k \in 1 .. n
      BY <1>1, <2>1
    <3>2. due(k) = [line |-> rec.lines + k - 1, page |-> page(k)]
      BY <1>4, <2>1
    <3> QED
      BY <1>2, <1>10, <3>1, <3>2
  <2>2. CASE ~(k <= n)
    <3>1. p.marker # <<>> /\ k = n + 1
      BY <1>1, <2>2
    <3>2. 1 \in 1 .. n
      BY <1>1, <1>10, <3>1
    <3>3. rec.lines + k - 1 = rec.marker
      <4> DEFINE a == rec.lines
      <4>1. a \in Nat /\ rec.marker = a + n
        BY <1>5, <1>6, <3>1
      <4> HIDE DEF a
      <4>2. a + k - 1 = rec.marker
        BY <1>1, <3>1, <4>1
      <4> QED
        BY <4>2 DEF a
    <3>4. due(k) = [line |-> rec.marker, page |-> page(1)]
      BY <1>4, <2>2, <3>3
    <3>5. due(k) \in B
      BY <1>2, <1>7, <1>10, <3>1, <3>2, <3>4
    <3> QED
      BY <3>5
  <2> QED
    BY <2>1, <2>2
<1> HIDE DEF A, B
<1> QED
  BY <1>3, <1>8, <1>9, <1>10 DEF n, t, due

\* The pages of a whole document: only picked ones, no line twice, and all of
\* them when none was picked.
LEMMA DrawnIs ==
  ASSUME NEW h, NEW blocks, NEW n \in Nat, HandleStands(h, blocks, n),
         \A i \in 1 .. n : PlacedOk(blocks[i]), NEW br, NEW pick
  PROVE  LET drawn == DrawnOn(h, br, pick, 2 * PRE_PAD)
         IN /\ \A d \in drawn : pick = {} \/ d.page \in pick
            /\ \A d, e \in drawn : d.line = e.line => d = e
            /\ pick = {} /\ (\A i \in 1 .. n : blocks[i].marker # <<>> => Len(blocks[i].lines) >= 1) =>
                 \A l \in Nat : l < Len(h.lines) => \E d \in drawn : d.line = l
<1> DEFINE drawn == DrawnOn(h, br, pick, 2 * PRE_PAD)
           of(i) == DrawnOf(h, h.blocks[i], br, pick)
           due(i, k) == Due(h, blocks[i], h.blocks[i], br, k)
           first(i) == h.blocks[i].lines
           took(i) == LinesTaken(blocks[i])
<1>1. /\ Closed(h) /\ Len(h.blocks) = n
      /\ \A i \in 1 .. n : BlockStands(h, blocks[i], h.blocks[i])
  BY DEF HandleStands
<1>2. DOMAIN h.blocks = 1 .. n
  <2>1. h.blocks \in Seq(BlockRecs)
    BY <1>1, HandleIs DEF Closed
  <2> QED
    BY <1>1, <2>1
<1>3. drawn = UNION {of(i) : i \in 1 .. n}
  BY <1>2 DEF DrawnOn, DrawnOf
<1>4. \A i \in 1 .. n : first(i) \in Nat /\ took(i) \in Nat
  <2> TAKE i \in 1 .. n
  <2>1. first(i) \in Nat
    BY <1>1 DEF BlockStands, BlockRecs
  <2>2. took(i) \in Nat
    BY TakenIs
  <2> QED
    BY <2>1, <2>2
<1>5. ASSUME NEW i \in 1 .. n
      PROVE  /\ \A d \in of(i) : (pick = {} \/ d.page \in pick) /\ \E k \in 1 .. took(i) : d = due(i, k)
             /\ pick = {} /\ (blocks[i].marker # <<>> => Len(blocks[i].lines) >= 1) =>
                  \A k \in 1 .. took(i) : due(i, k) \in of(i)
  <2> DEFINE p == blocks[i]
             rec == h.blocks[i]
  <2>1. BlockStands(h, p, rec) /\ PlacedOk(p)
    BY <1>1
  <2> HIDE DEF p, rec
  <2>2. /\ \A d \in DrawnOf(h, rec, br, pick) :
              /\ pick = {} \/ d.page \in pick
              /\ \E k \in 1 .. LinesTaken(p) : d = Due(h, p, rec, br, k)
        /\ pick = {} /\ (p.marker # <<>> => Len(p.lines) >= 1) =>
              \A k \in 1 .. LinesTaken(p) : Due(h, p, rec, br, k) \in DrawnOf(h, rec, br, pick)
    BY <1>1, <2>1, DrawnOfIs
  <2> QED
    BY <2>2 DEF p, rec
<1>6. \A i, k : due(i, k).line = first(i) + k - 1
  BY DEF Due
<1>7. ASSUME NEW i \in 1 .. n, NEW k \in 1 .. took(i)
      PROVE  /\ due(i, k).line \in Int /\ k = due(i, k).line - first(i) + 1
             /\ first(i) <= due(i, k).line /\ due(i, k).line < first(i) + took(i)
  <2>1. due(i, k).line = first(i) + k - 1 /\ first(i) \in Nat /\ took(i) \in Nat
    BY <1>4, <1>6
  <2> DEFINE x == due(i, k).line
  <2> HIDE DEF x, first, took
  <2>2. x = first(i) + k - 1
    BY <2>1 DEF x
  <2>3. x \in Int /\ k = x - first(i) + 1 /\ first(i) <= x /\ x < first(i) + took(i)
    BY <2>1, <2>2
  <2> QED
    BY <2>3 DEF x
<1>8. ASSUME NEW l \in Int, NEW i \in 1 .. n, NEW j \in 1 .. n, first(i) <= l, l < first(i) + took(i),
             first(j) <= l, l < first(j) + took(j)
      PROVE  i = j
  BY <1>8, OneBlock
<1>9. ASSUME NEW l \in Nat, l < Len(h.lines)
      PROVE  \E i \in 1 .. n : first(i) <= l /\ l < first(i) + took(i)
  <2>1. /\ \A i \in 1 .. n : /\ h.blocks[i].lines = NextLine(h, i - 1)
                             /\ NextLine(h, i) = NextLine(h, i - 1) + LinesTaken(blocks[i])
        /\ \E i \in 1 .. n : NextLine(h, i - 1) <= l /\ l < NextLine(h, i)
    BY <1>9, NextLines
  <2> QED
    BY <2>1
<1> HIDE DEF drawn, of, due, first, took
<1>10. \A d \in drawn : pick = {} \/ d.page \in pick
  BY <1>3, <1>5
<1>11. ASSUME NEW d \in drawn, NEW e \in drawn, d.line = e.line PROVE d = e
  <2>1. PICK i \in 1 .. n : d \in of(i)
    BY <1>3
  <2>2. PICK j \in 1 .. n : e \in of(j)
    BY <1>3
  <2>3. PICK k \in 1 .. took(i) : d = due(i, k)
    BY <1>5, <2>1
  <2>4. PICK m \in 1 .. took(j) : e = due(j, m)
    BY <1>5, <2>2
  <2> DEFINE l == d.line
  <2>5. l \in Int /\ k = l - first(i) + 1 /\ first(i) <= l /\ l < first(i) + took(i)
    BY <1>7, <2>3
  <2>6. m = l - first(j) + 1 /\ first(j) <= l /\ l < first(j) + took(j)
    BY <1>7, <1>11, <2>4
  <2> HIDE DEF l
  <2>7. i = j
    BY <1>8, <2>5, <2>6
  <2>8. k = m
    BY <2>5, <2>6, <2>7
  <2> QED
    BY <2>3, <2>4, <2>7, <2>8
<1>12. ASSUME pick = {}, \A i \in 1 .. n : blocks[i].marker # <<>> => Len(blocks[i].lines) >= 1,
              NEW l \in Nat, l < Len(h.lines)
       PROVE  \E d \in drawn : d.line = l
  <2>1. PICK i \in 1 .. n : first(i) <= l /\ l < first(i) + took(i)
    BY <1>9, <1>12
  <2> DEFINE k == l - first(i) + 1
  <2>2. k \in 1 .. took(i) /\ first(i) + k - 1 = l
    BY <1>4, <2>1
  <2> HIDE DEF k
  <2>3. due(i, k) \in of(i) /\ due(i, k).line = l
    BY <1>5, <1>6, <1>12, <2>2
  <2> QED
    BY <1>3, <2>3
<1> QED
  BY <1>10, <1>11, <1>12 DEF drawn

-----------------------------------------------------------------------------
(* The text of a block and its lines.                                      *)

\* The lines it takes to hold a glyphs, b on each.
LEMMA CeilAround ==
  ASSUME NEW a \in Nat, NEW b \in Int, b >= 1
  PROVE  /\ CeilDiv(a, b) \in Nat /\ a <= CeilDiv(a, b) * b
         /\ \A k \in Nat : k + 1 <= CeilDiv(a, b) => k * b < a
<1> DEFINE q == (-a) \div b
           c == CeilDiv(a, b)
<1>1. c = -q
  BY DEF CeilDiv
<1>2. q \in Int /\ b * q <= -a /\ -a < b * q + b
  OBVIOUS
<1>3. c \in Nat
  BY CeilIs
<1> HIDE DEF q, c
<1> DEFINE bq == b * q
           cb == c * b
<1>4. bq \in Int /\ cb = -bq /\ bq <= -a /\ -a < bq + b
  <2>1. cb = -bq
    BY <1>1, <1>2
  <2> QED
    BY <1>2, <2>1
<1> HIDE DEF bq
<1>5. a <= cb /\ cb < a + b /\ cb \in Int
  BY <1>4
<1>6. ASSUME NEW k \in Nat, k + 1 <= c PROVE k * b < a
  <2> DEFINE kb == k * b
  <2>1. (k + 1) * b <= c * b
    BY <1>3, <1>6, Scales
  <2>2. (k + 1) * b = kb + b /\ kb \in Int
    OBVIOUS
  <2> HIDE DEF kb
  <2>3. kb + b <= cb
    BY <2>1, <2>2
  <2> HIDE DEF cb
  <2>4. kb < a
    BY <1>5, <2>2, <2>3
  <2> QED
    BY <2>4 DEF kb
<1> QED
  BY <1>3, <1>5, <1>6 DEF c

\* The lines of a text are the text.
LEMMA BreakSplits ==
  ASSUME NEW gs \in Seq(Glyphs), NEW avail \in Int
  PROVE  /\ FlattenSeq(BreakLines(gs, avail)) = gs
         /\ Len(gs) >= 1 => Len(BreakLines(gs, avail)) >= 1
<1> DEFINE per == Larger(Larger(avail, 1) \div CharW, 1)
           m == Len(gs)
           last(k) == Smaller(k * per, m)
           line(k) == SubSeq(gs, (k - 1) * per + 1, last(k))
           n == CeilDiv(m, per)
           ls == BreakLines(gs, avail)
           G == [k \in 0 .. n |-> SubSeq(gs, 1, last(k))]
<1>1. per \in Int /\ per >= 1 /\ m \in Nat
  <2>1. CharW \in Nat /\ CharW >= 1 /\ Larger(avail, 1) \in Int
    BY LayoutConstants, Bounds DEF LayoutConstants
  <2>2. Larger(avail, 1) \div CharW \in Int
    BY <2>1
  <2> QED
    BY <2>2, Bounds
<1>2. ls = [k \in 1 .. n |-> line(k)]
  BY DEF BreakLines
<1>3. ls \in Seq(Seq(Glyphs))
  BY LinesAre
<1> HIDE DEF per, m, ls
<1>4. n \in Nat /\ m <= n * per /\ \A k \in Nat : k + 1 <= n => k * per < m
  BY <1>1, CeilAround
<1> HIDE DEF n
<1>5. Len(ls) = n /\ \A k \in 1 .. n : ls[k] = line(k)
  <2> HIDE DEF line
  <2>1. DOMAIN ls = 1 .. n
    BY <1>2
  <2>2. Len(ls) = n
    BY <1>3, <1>4, <2>1
  <2>3. \A k \in 1 .. n : ls[k] = line(k)
    BY <1>2
  <2> QED
    BY <2>2, <2>3
<1>6. G[0] = <<>>
  <2>1. 0 * per = 0 /\ 0 \in 0 .. n
    BY <1>1, <1>4
  <2>2. last(0) = 0
    BY <1>1, <2>1 DEF Smaller
  <2>3. SubSeq(gs, 1, 0) = <<>>
    BY SubSeqEmpty
  <2> HIDE DEF last
  <2> QED
    BY <2>1, <2>2, <2>3
<1>7. ASSUME NEW k \in 1 .. n PROVE G[k] = G[k - 1] \o ls[k]
  <2> DEFINE i == (k - 1) * per
             j == last(k)
  <2>1. k - 1 \in Nat /\ (k - 1) + 1 <= n /\ k \in 0 .. n /\ k - 1 \in 0 .. n
    BY <1>4
  <2>2. i < m /\ i \in Int /\ 0 <= i
    <3>1. i < m
      BY <1>4, <2>1
    <3>2. i \in Int /\ 0 <= i
      BY <1>1, <2>1
    <3> QED
      BY <3>1, <3>2
  <2>3. last(k - 1) = i
    BY <1>1, <2>2 DEF Smaller
  <2>4. i <= j /\ j <= m /\ j \in Int
    <3> DEFINE kp == k * per
    <3>1. kp = i + per
      BY <1>1, <2>1
    <3> HIDE DEF i, kp
    <3>2. kp \in Int /\ i <= kp
      BY <1>1, <2>2, <3>1
    <3>4. i <= Smaller(kp, m) /\ Smaller(kp, m) <= m /\ Smaller(kp, m) \in Int
      BY <1>1, <2>2, <3>2 DEF Smaller
    <3> QED
      BY <3>4 DEF kp
  <2>5. ls[k] = SubSeq(gs, i + 1, j)
    BY <1>5
  <2>6. G[k] = SubSeq(gs, 1, j) /\ G[k - 1] = SubSeq(gs, 1, i)
    BY <2>1, <2>3
  <2> HIDE DEF i, j, G
  <2>7. SubSeq(gs, 1, i) \o SubSeq(gs, i + 1, j) = SubSeq(gs, 1, j)
    <3>1. 1 \in 1 .. (m + 1) /\ i \in (1 - 1) .. m /\ j \in i .. m
      BY <1>1, <2>2, <2>4
    <3> QED
      BY <3>1, ConcatAdjacentSubSeq DEF m
  <2> QED
    BY <2>5, <2>6, <2>7
<1>8. G[n] = gs
  <2>1. n \in 0 .. n
    BY <1>4
  <2>2. last(n) = m
    <3> DEFINE np == n * per
    <3>1. np \in Int /\ m <= np
      BY <1>1, <1>4
    <3> HIDE DEF np
    <3>2. Smaller(np, m) = m
      BY <1>1, <3>1 DEF Smaller
    <3> QED
      BY <3>2 DEF np
  <2>3. SubSeq(gs, 1, Len(gs)) = gs
    BY SubSeqFull
  <2> HIDE DEF last
  <2> QED
    BY <2>1, <2>2, <2>3 DEF m
<1> HIDE DEF G
<1>9. FlattenSeq(ls) = gs
  <2>1. \A k \in 1 .. Len(ls) : G[k] = G[k - 1] \o ls[k]
    BY <1>5, <1>7
  <2>2. FlattenSeq(ls) = G[Len(ls)]
    BY <1>3, <1>6, <2>1, FlatIs
  <2> QED
    BY <1>5, <1>8, <2>2
<1>10. m >= 1 => n >= 1
  <2> SUFFICES ASSUME m >= 1, n = 0 PROVE FALSE
    BY <1>4
  <2>1. n * per = 0
    BY <1>1
  <2> QED
    BY <1>1, <1>4, <2>1
<1> QED
  BY <1>5, <1>9, <1>10 DEF ls, m

\* A block with a text has a glyph.
LEMMA HasGlyphs ==
  ASSUME NEW b \in LpBlock, Spelt(b), HasText(b)
  PROVE  Len(BlockGlyphs(b)) >= 1
<1> DEFINE n == Len(b.spans)
           f == GlyphsUpTo(b)
<1>1. b.spans \in Seq(LpSpan) /\ n \in Nat /\ DOMAIN b.spans = 1 .. n
  BY DEF LpBlock
<1>2. f = [j \in 0 .. n |-> NextGlyphs(b, f, j)] /\ BlockGlyphs(b) = f[n]
  BY <1>1, GlyphsRecur
<1>3. \A j \in 0 .. n : f[j] = NextGlyphs(b, f, j)
  <2> HIDE DEF f, n
  <2> QED
    BY <1>2
<1>4. PICK at \in 1 .. n : b.spans[at].text # <<>>
  BY <1>1 DEF HasText
<1> DEFINE S == {m \in Nat : m <= n => f[m] \in Seq(Glyphs) /\ (m >= at => Len(f[m]) >= 1)}
<1> HIDE DEF f, n
<1>5. 0 \in S
  <2>1. f[0] = <<>> /\ ~(0 >= at)
    BY <1>1, <1>3 DEF NextGlyphs
  <2>2. <<>> \in Seq(Glyphs)
    OBVIOUS
  <2>3. f[0] \in Seq(Glyphs)
    BY <2>1, <2>2, Zenon
  <2> QED
    BY <2>1, <2>3
<1>6. ASSUME NEW m \in Nat, m \in S PROVE m + 1 \in S
  <2> SUFFICES ASSUME m + 1 <= n
               PROVE  f[m + 1] \in Seq(Glyphs) /\ (m + 1 >= at => Len(f[m + 1]) >= 1)
    OBVIOUS
  <2> DEFINE sp == b.spans[m + 1]
             old == f[m]
             new == GlyphsOf(b, sp.flags, sp.text, Len(old))
  <2>1. old \in Seq(Glyphs) /\ (m >= at => Len(old) >= 1) /\ m + 1 \in 1 .. n
    BY <1>1, <1>6
  <2>2. sp \in LpSpan /\ sp.text # BadText
    BY <1>1, <2>1 DEF Spelt
  <2>3. sp.flags \in SUBSET Styles /\ sp.text \in Seq(Chars)
    BY <2>2 DEF LpSpan, Text
  <2>4. m + 1 = at => sp.text # <<>>
    BY <1>4
  <2> HIDE DEF sp
  <2>5. new \in Seq(Glyphs)
    BY <2>1, <2>3, GlyphsAre
  <2>6. Len(new) = Len(sp.text)
    <3>1. DOMAIN new = 1 .. Len(sp.text) /\ Len(sp.text) \in Nat
      BY <2>3 DEF GlyphsOf
    <3> HIDE DEF new
    <3> QED
      BY <2>5, <3>1
  <2>7. m + 1 = at => Len(new) >= 1
    <3>1. sp.text # <<>> => Len(sp.text) >= 1
      BY <2>3
    <3> QED
      BY <2>4, <2>6, <3>1
  <2>8. f[m + 1] = old \o new
    <3>1. f[m + 1] = NextGlyphs(b, f, m + 1) /\ m + 1 # 0 /\ (m + 1) - 1 = m
      BY <1>1, <1>3, <2>1
    <3> QED
      BY <3>1, Zenon DEF NextGlyphs, sp
  <2> HIDE DEF old, new
  <2>9. old \o new \in Seq(Glyphs) /\ Len(old \o new) = Len(old) + Len(new)
    BY <2>1, <2>5, ConcatProperties
  <2>10. Len(old) \in Nat /\ Len(new) \in Nat
    BY <2>1, <2>5
  <2>11. m + 1 >= at => m >= at \/ m + 1 = at
    OBVIOUS
  <2>12. m + 1 >= at => Len(old) + Len(new) >= 1
    BY <2>1, <2>7, <2>10, <2>11
  <2> QED
    BY <2>8, <2>9, <2>12
<1>7. n \in S
  <2> HIDE DEF S
  <2> QED
    BY <1>1, <1>5, <1>6, SetInduction
<1>8. n >= at /\ n <= n
  BY <1>1
<1>9. Len(f[n]) >= 1
  BY <1>7, <1>8
<1> QED
  BY <1>2, <1>9

\* A block's lines are its text, and a text has a line.
LEMMA LinesHold ==
  ASSUME NEW b \in LpBlock, Spelt(b), b.kind # "rule", NEW width \in Nat
  PROVE  /\ FlattenSeq(LinesOf(b, width, 0)) = BlockGlyphs(b)
         /\ HasText(b) => Len(LinesOf(b, width, 0)) >= 1
<1> DEFINE avail == Larger(width - 2 * 0, 1) - Indent(b) - 2 * Pad(b)
           gs == BlockGlyphs(b)
<1>1. b.list \in Nat /\ b.quote \in Nat
  BY DEF LpBlock
<1>2. Indent(b) \in Int
  BY <1>1 DEF Indent, LIST_INDENT, QUOTE_INDENT
<1>3. Pad(b) \in Int
  BY DEF Pad, PRE_PAD
<1>4. Larger(width - 2 * 0, 1) \in Int
  BY Bounds
<1>5. avail \in Int
  BY <1>2, <1>3, <1>4
<1>6. LinesOf(b, width, 0) = BreakLines(gs, avail)
  BY DEF LinesOf
<1>7. gs \in Seq(Glyphs) /\ (HasText(b) => Len(gs) >= 1)
  BY BlockGlyphsAre, HasGlyphs
<1> HIDE DEF avail, gs
<1>8. /\ FlattenSeq(BreakLines(gs, avail)) = gs
      /\ Len(gs) >= 1 => Len(BreakLines(gs, avail)) >= 1
  BY <1>5, <1>7, BreakSplits
<1> QED
  BY <1>6, <1>7, <1>8 DEF gs

\* A document that is printed.
Printed(doc) == /\ doc \in Seq(LpBlock) /\ Utf8(doc)
                /\ \A i \in DOMAIN doc : doc[i].kind = "rule" \/ HasText(doc[i])

\* What a column block holds of its block.
Shows(p, b) ==
  /\ p.kind = b.kind
  /\ p.kind # "rule" => /\ FlattenSeq(p.lines) = BlockGlyphs(b)
                        /\ p.marker = MarkerGlyphs(b) /\ Len(p.lines) >= 1

\* The export of a document: its column, block by block.
LEMMA ExportedIs ==
  ASSUME NEW doc, Printed(doc), NEW width \in Nat
  PROVE  LET l == Layout(doc, width, 0, 2)
         IN /\ Len(doc) \in Nat /\ Len(l.placed) = Len(doc) /\ Column(l.placed)
            /\ HandleStands(Export(l), l.placed, Len(doc))
            /\ \A i \in 1 .. Len(doc) : PlacedOk(l.placed[i]) /\ Shows(l.placed[i], doc[i])
<1> DEFINE l == Layout(doc, width, 0, 2)
           n == Len(doc)
<1>1. doc \in Seq(LpBlock) /\ Utf8(doc) /\ n \in Nat /\ DOMAIN doc = 1 .. n
      /\ \A i \in 1 .. n : doc[i].kind = "rule" \/ HasText(doc[i])
  BY DEF Printed
<1>2. /\ l.height \in Int /\ Len(l.placed) = n /\ Column(l.placed)
      /\ \E top : \A i \in 1 .. n : l.placed[i] = PlaceBlock(doc[i], top[i], width, 0, 2)
  BY <1>1, ColumnIs
<1>3. PICK top : \A i \in 1 .. n : l.placed[i] = PlaceBlock(doc[i], top[i], width, 0, 2)
  BY <1>2
<1> HIDE DEF l
<1>4. \A i \in 1 .. n : PlacedOk(l.placed[i])
  BY <1>2 DEF Column
<1>5. HandleStands(Export(l), l.placed, n)
  <2>1. \A i \in 1 .. Len(l.placed) : PlacedOk(l.placed[i])
    BY <1>2, <1>4
  <2>2. Len(l.placed) \in Nat /\ l.height \in Int
    BY <1>1, <1>2
  <2>3. HandleStands(Export(l), l.placed, Len(l.placed))
    BY <2>1, <2>2, ExportIs
  <2> QED
    BY <1>2, <2>3
<1>6. ASSUME NEW i \in 1 .. n PROVE Shows(l.placed[i], doc[i])
  <2> DEFINE b == doc[i]
             t == top[i]
             p == PlaceBlock(b, t, width, 0, 2)
  <2>1. l.placed[i] = p
    BY <1>3
  <2>2. b \in LpBlock /\ Spelt(b) /\ (b.kind = "rule" \/ HasText(b))
    BY <1>1 DEF Utf8, Spelt
  <2> HIDE DEF b, t
  <2>3. /\ p.kind = b.kind /\ p.lines = LinesOf(b, width, 0)
        /\ b.kind # "rule" => p.marker = MarkerGlyphs(b)
    BY DEF PlaceBlock
  <2> HIDE DEF p
  <2>4. b.kind # "rule" => /\ FlattenSeq(LinesOf(b, width, 0)) = BlockGlyphs(b)
                           /\ Len(LinesOf(b, width, 0)) >= 1
    BY <2>2, LinesHold
  <2>5. Shows(p, b)
    BY <2>3, <2>4 DEF Shows
  <2> QED
    BY <2>1, <2>5 DEF b
<1> QED
  BY <1>1, <1>2, <1>4, <1>5, <1>6 DEF l

-----------------------------------------------------------------------------
(* What pdf.zig makes of the export.                                       *)

\* The pages of a printed document.
LEMMA PagesAre ==
  ASSUME NEW doc, Printed(doc), NEW width \in Nat, NEW high \in Int, NEW pick
  PROVE  LET h     == Export(Layout(doc, width, 0, 2))
             br    == Paginate(h, high, 2 * PRE_PAD, 2)
             drawn == DrawnOn(h, br, pick, 2 * PRE_PAD)
             boxes == AllBoxes(h, 2 * PRE_PAD, 2)
         IN /\ \A p \in 2 .. Len(br) : br[p - 1] < br[p]
            /\ \A k \in DOMAIN boxes :
                 LET p == PageOf(br, boxes[k].top)
                 IN /\ boxes[k].bottom - br[p] <= high \/ boxes[k].top = br[p]
                    /\ p < Len(br) => boxes[k].bottom <= br[p + 1]
            /\ \A l \in DOMAIN h.lines : Cardinality({d \in drawn : d.line = l - 1}) <= 1
            /\ pick = {} => \A l \in DOMAIN h.lines : {d \in drawn : d.line = l - 1} # {}
            /\ \A d \in drawn : pick = {} \/ d.page \in pick
<1> DEFINE blocks == Layout(doc, width, 0, 2).placed
           h     == Export(Layout(doc, width, 0, 2))
           br    == Paginate(h, high, 2 * PRE_PAD, 2)
           drawn == DrawnOn(h, br, pick, 2 * PRE_PAD)
           boxes == AllBoxes(h, 2 * PRE_PAD, 2)
           n     == Len(doc)
<1>1. /\ n \in Nat /\ Len(blocks) = n /\ Column(blocks) /\ HandleStands(h, blocks, n)
      /\ \A i \in 1 .. n : PlacedOk(blocks[i]) /\ Shows(blocks[i], doc[i])
  BY ExportedIs
<1> HIDE DEF h, blocks, n
<1>2. Chain(boxes)
  <2>1. Len(blocks) \in Nat /\ HandleStands(h, blocks, Len(blocks))
    BY <1>1
  <2> QED
    BY <1>1, <2>1, ColumnBoxes
<1>3. Broken(boxes, br, Len(boxes), high)
  <2> DEFINE pad == 2 * PRE_PAD
             px == 2
  <2>1. Chain(AllBoxes(h, pad, px))
    BY <1>2
  <2> HIDE DEF pad, px
  <2>2. Broken(AllBoxes(h, pad, px), Paginate(h, high, pad, px), Len(AllBoxes(h, pad, px)), high)
    BY <2>1, Paginated
  <2> QED
    BY <2>2 DEF pad, px
<1> HIDE DEF boxes, br
<1>4. /\ boxes \in Seq(Box) /\ DOMAIN boxes = 1 .. Len(boxes)
      /\ \A k \in 1 .. Len(boxes) : boxes[k] \in Box /\ boxes[k].top < boxes[k].bottom
  BY <1>2 DEF Chain
<1>5. /\ br \in Seq(Int) /\ \A p \in 2 .. Len(br) : br[p - 1] < br[p]
      /\ \A j \in 1 .. Len(boxes) : \E p \in 1 .. Len(br) : SitsOn(boxes[j], br, p, high)
  BY <1>3 DEF Broken
<1>6. ASSUME NEW k \in DOMAIN boxes
      PROVE  LET p == PageOf(br, boxes[k].top)
             IN /\ boxes[k].bottom - br[p] <= high \/ boxes[k].top = br[p]
                /\ p < Len(br) => boxes[k].bottom <= br[p + 1]
  <2> DEFINE box == boxes[k]
  <2>1. box \in Box /\ box.top < box.bottom
    BY <1>4
  <2>2. PICK p \in 1 .. Len(br) : SitsOn(box, br, p, high)
    BY <1>4, <1>5
  <2> HIDE DEF box
  <2>3. PageOf(br, box.top) = p
    BY <1>5, <2>1, <2>2, PageFound
  <2>4. /\ box.bottom - br[p] <= high \/ box.top = br[p]
        /\ p < Len(br) => box.bottom <= br[p + 1]
    BY <2>2 DEF SitsOn
  <2> QED
    BY <2>3, <2>4 DEF box
<1>7. /\ \A d \in drawn : pick = {} \/ d.page \in pick
      /\ \A d, e \in drawn : d.line = e.line => d = e
      /\ pick = {} /\ (\A i \in 1 .. n : blocks[i].marker # <<>> => Len(blocks[i].lines) >= 1) =>
           \A l \in Nat : l < Len(h.lines) => \E d \in drawn : d.line = l
  BY <1>1, DrawnIs
<1>8. \A i \in 1 .. n : blocks[i].marker # <<>> => Len(blocks[i].lines) >= 1
  BY <1>1 DEF Shows, PlacedOk
<1> HIDE DEF drawn
<1>9. DOMAIN h.lines = 1 .. Len(h.lines) /\ Len(h.lines) \in Nat
  <2>1. h.lines \in Seq(LineRecs)
    BY <1>1, HandleIs DEF HandleStands, Closed
  <2> QED
    BY <2>1
<1>10. ASSUME NEW l PROVE Cardinality({d \in drawn : d.line = l}) <= 1
  <2> DEFINE S == {d \in drawn : d.line = l}
  <2>1. \A d, e \in S : d = e
    BY <1>7
  <2>2. CASE S = {}
    BY <2>2, FS_EmptySet
  <2>3. CASE S # {}
    <3>1. PICK d : d \in S
      BY <2>3
    <3>2. S = {d}
      BY <2>1, <3>1
    <3> HIDE DEF S
    <3>3. Cardinality({d}) = 1
      BY FS_Singleton
    <3> QED
      BY <3>2, <3>3 DEF S
  <2> QED
    BY <2>2, <2>3
<1>11. ASSUME pick = {}, NEW l \in DOMAIN h.lines PROVE {d \in drawn : d.line = l - 1} # {}
  <2>1. l - 1 \in Nat /\ l - 1 < Len(h.lines)
    BY <1>9
  <2>2. \E d \in drawn : d.line = l - 1
    BY <1>7, <1>8, <1>11, <2>1
  <2> QED
    BY <2>2
<1> QED
  BY <1>5, <1>6, <1>7, <1>10, <1>11 DEF boxes, br, drawn, h

\* A block is read through its line numbers.
LEMMA BlockReads ==
  ASSUME NEW h, Closed(h), NEW p, PlacedOk(p), NEW rec, BlockStands(h, p, rec)
  PROVE  LET ids == LineIds(rec)
         IN /\ DOMAIN ids = 1 .. Len(p.lines)
            /\ FlattenSeq([k \in DOMAIN ids |-> ClustersRead(h, ids[k] + 1)]) = Written(FlattenSeq(p.lines))
            /\ FlattenSeq([k \in DOMAIN ids |-> RunsRead(h, ids[k] + 1)]) = Written(FlattenSeq(p.lines))
<1> DEFINE ids == LineIds(rec)
           lines == p.lines
           n == Len(lines)
           a == rec.lines
           W(k) == Written(lines[k])
<1>1. lines \in Seq(Seq(Glyphs)) /\ n \in Nat /\ DOMAIN lines = 1 .. n
  <2>1. lines \in Seq(Seq(Glyphs))
    BY TakenIs
  <2> HIDE DEF lines
  <2> QED
    BY <2>1
<1>2. a \in Nat /\ rec.linesLen = n
  BY DEF BlockStands, BlockRecs
<1>3. ids = [k \in 1 .. n |-> a + k - 1]
  BY <1>2 DEF LineIds
<1>4. \A k \in 1 .. n : RunsRead(h, a + k) = W(k) /\ ClustersRead(h, a + k) = W(k)
  BY DEF BlockStands, LineStands
<1> HIDE DEF ids, n, a
<1>5. DOMAIN ids = 1 .. n /\ \A k \in 1 .. n : ids[k] + 1 = a + k
  <2>1. DOMAIN ids = 1 .. n /\ \A k \in 1 .. n : ids[k] = a + k - 1
    BY <1>3
  <2> QED
    BY <1>2, <2>1
<1>6. \A k \in 1 .. n : RunsRead(h, ids[k] + 1) = W(k) /\ ClustersRead(h, ids[k] + 1) = W(k)
  BY <1>4, <1>5, Zenon
<1>7. FlattenSeq([k \in DOMAIN lines |-> W(k)]) = Written(FlattenSeq(lines))
  <2> HIDE DEF lines
  <2> QED
    BY <1>1, WrittenFlat
<1> HIDE DEF W
<1>8. /\ [k \in DOMAIN ids |-> ClustersRead(h, ids[k] + 1)] = [k \in DOMAIN lines |-> W(k)]
      /\ [k \in DOMAIN ids |-> RunsRead(h, ids[k] + 1)] = [k \in DOMAIN lines |-> W(k)]
  BY <1>1, <1>5, <1>6, Zenon
<1> QED
  BY <1>5, <1>7, <1>8, Zenon DEF n, ids

\* A marker has glyphs if it has a text.
LEMMA MarkerShows ==
  ASSUME NEW b \in LpBlock
  PROVE  MarkerGlyphs(b) = <<>> <=> MarkerOf(b) = <<>>
<1> DEFINE m == MarkerOf(b)
           gs == MarkerGlyphs(b)
<1>1. m \in Seq(Chars)
  BY DEF MarkerOf, LpBlock, Text
<1>2. gs \in Seq(Glyphs)
  BY MarkerGlyphsAre
<1>3. DOMAIN gs = 1 .. Len(m)
  BY DEF MarkerGlyphs, GlyphsOf
<1> HIDE DEF m, gs
<1>4. Len(gs) = Len(m)
  BY <1>1, <1>2, <1>3
<1>5. (gs = <<>> <=> Len(gs) = 0) /\ (m = <<>> <=> Len(m) = 0)
  BY <1>1, <1>2
<1> QED
  BY <1>4, <1>5 DEF m, gs

\* Line numbers from a up to b.
Ids(a, b) == [k \in 1 .. (b - a) |-> a + k - 1]

\* Numbers after numbers.
LEMMA IdsJoin ==
  ASSUME NEW b \in Nat, NEW c \in Nat, b <= c
  PROVE  /\ Ids(0, b) \in Seq(Int) /\ Ids(b, c) \in Seq(Int)
         /\ Ids(0, b) \o Ids(b, c) = Ids(0, c)
<1> DEFINE s == Ids(0, b)
           t == Ids(b, c)
           u == Ids(0, c)
           m == c - b
<1>1. m \in Nat /\ b + m = c
  OBVIOUS
<1>2. s = [k \in 1 .. b |-> k - 1] /\ u = [k \in 1 .. c |-> k - 1] /\ t = [k \in 1 .. m |-> b + k - 1]
  BY DEF Ids
<1> HIDE DEF s, t, u, m
<1>3. /\ s \in Seq(Int) /\ Len(s) = b /\ \A k \in 1 .. b : s[k] = k - 1
      /\ t \in Seq(Int) /\ Len(t) = m /\ \A k \in 1 .. m : t[k] = b + k - 1
      /\ u \in Seq(Int) /\ Len(u) = c /\ \A k \in 1 .. c : u[k] = k - 1
  BY <1>1, <1>2
<1>4. /\ s \o t \in Seq(Int) /\ Len(s \o t) = b + m
      /\ \A k \in 1 .. (b + m) : (s \o t)[k] = IF k <= b THEN s[k] ELSE t[k - b]
  BY <1>3, ConcatProperties
<1>5. \A k \in 1 .. c : (s \o t)[k] = u[k]
  <2> TAKE k \in 1 .. c
  <2>1. CASE k <= b
    <3>1. k \in 1 .. b /\ (s \o t)[k] = s[k]
      BY <1>1, <1>4, <2>1
    <3> QED
      BY <1>3, <3>1
  <2>2. CASE ~(k <= b)
    <3>1. k - b \in 1 .. m /\ (s \o t)[k] = t[k - b]
      BY <1>1, <1>4, <2>2
    <3>2. t[k - b] = b + (k - b) - 1
      BY <1>3, <3>1
    <3> QED
      BY <1>3, <3>1, <3>2
  <2> QED
    BY <2>1, <2>2
<1>6. s \o t = u
  <2> DEFINE v == s \o t
  <2>1. v \in Seq(Int) /\ Len(v) = c /\ \A k \in 1 .. c : v[k] = u[k]
    BY <1>1, <1>4, <1>5
  <2> HIDE DEF v
  <2>2. v = u
    BY <1>3, <2>1
  <2> QED
    BY <2>2 DEF v
<1> QED
  BY <1>3, <1>6 DEF s, t, u

\* The numbers of a block's lines and its marker.
Numbers(rec) == LineIds(rec) \o (IF rec.marker = LAYOUT_NONE THEN <<>> ELSE <<rec.marker>>)

\* They follow one another.
LEMMA NumbersAre ==
  ASSUME NEW h, NEW p, PlacedOk(p), NEW rec, BlockStands(h, p, rec)
  PROVE  Numbers(rec) = Ids(rec.lines, rec.lines + LinesTaken(p))
<1> DEFINE ids == LineIds(rec)
           n == Len(p.lines)
           t == LinesTaken(p)
           a == rec.lines
           all == Ids(a, a + t)
<1>1. n \in Nat /\ t \in Nat /\ t = n + (IF p.marker = <<>> THEN 0 ELSE 1)
  BY TakenIs
<1>2. a \in Nat /\ rec.linesLen = n
  BY DEF BlockStands, BlockRecs
<1>3. ids = [k \in 1 .. n |-> a + k - 1]
  BY <1>2 DEF LineIds
<1>4. /\ p.marker = <<>> => rec.marker = LAYOUT_NONE
      /\ p.marker # <<>> => rec.marker = a + n
  BY DEF BlockStands
<1> HIDE DEF n, t, a, ids
<1>5. all = [k \in 1 .. t |-> a + k - 1]
  <2>1. (a + t) - a = t
    BY <1>1, <1>2
  <2> QED
    BY <2>1 DEF Ids
<1> HIDE DEF all
<1>6. /\ ids \in Seq(Int) /\ Len(ids) = n /\ \A k \in 1 .. n : ids[k] = a + k - 1
      /\ all \in Seq(Int) /\ Len(all) = t /\ \A k \in 1 .. t : all[k] = a + k - 1
  BY <1>1, <1>2, <1>3, <1>5
<1>7. CASE p.marker = <<>>
  <2>1. Numbers(rec) = ids \o <<>>
    BY <1>4, <1>7 DEF Numbers, ids
  <2>2. ids \o <<>> = ids
    BY <1>6, ConcatEmptySeq
  <2>3. t = n
    BY <1>1, <1>7
  <2>4. ids = all
    BY <1>3, <1>5, <2>3
  <2> QED
    BY <2>1, <2>2, <2>4 DEF all, a, t
<1>8. CASE p.marker # <<>>
  <2> DEFINE m == rec.marker
             v == Append(ids, m)
  <2>1. m = a + n /\ m \in Int /\ m # LAYOUT_NONE /\ t = n + 1
    BY <1>1, <1>2, <1>4, <1>8 DEF LAYOUT_NONE
  <2>2. Numbers(rec) = ids \o <<m>>
    BY <2>1 DEF Numbers, ids
  <2> HIDE DEF m
  <2>3. v = ids \o <<m>>
    BY <1>6, <2>1, AppendIsConcat
  <2>4. v \in Seq(Int) /\ Len(v) = n + 1 /\ v[n + 1] = m /\ \A k \in 1 .. n : v[k] = ids[k]
    BY <1>1, <1>6, <2>1
  <2> HIDE DEF v
  <2>5. \A k \in 1 .. t : v[k] = all[k]
    <3> TAKE k \in 1 .. t
    <3>1. CASE k = n + 1
      <4>1. a + k - 1 = a + n
        BY <1>1, <1>2, <3>1
      <4> QED
        BY <1>6, <2>1, <2>4, <3>1, <4>1
    <3>2. CASE k # n + 1
      <4>1. k \in 1 .. n
        BY <1>1, <2>1, <3>2
      <4> QED
        BY <1>6, <2>4, <4>1
    <3> QED
      BY <3>1, <3>2
  <2>6. v = all
    BY <1>1, <1>6, <2>1, <2>4, <2>5
  <2> QED
    BY <2>2, <2>3, <2>6 DEF all, a, t
<1> QED
  BY <1>7, <1>8

\* The arrays handed to pdf.zig hold the document.
Reads(h, doc) ==
  /\ Len(h.blocks) = Len(doc) /\ IsInjective(h.fonts)
  /\ \A i \in DOMAIN h.blocks :
       LET b    == h.blocks[i]
           want == IF doc[i].kind = "rule" THEN <<>> ELSE Written(BlockGlyphs(doc[i]))
           ids  == LineIds(b)
       IN /\ FlattenSeq([k \in DOMAIN ids |-> ClustersRead(h, ids[k] + 1)]) = want
          /\ FlattenSeq([k \in DOMAIN ids |-> RunsRead(h, ids[k] + 1)]) = want
          /\ IF doc[i].kind = "rule" \/ MarkerOf(doc[i]) = <<>>
             THEN b.marker = LAYOUT_NONE
             ELSE RunsRead(h, b.marker + 1) = Written(MarkerGlyphs(doc[i]))
  /\ FlattenSeq([i \in DOMAIN h.blocks |-> Numbers(h.blocks[i])]) = [k \in DOMAIN h.lines |-> k - 1]

\* The exported layout of a document reads as the document (export_layout on
\* what place_blocks made of it).
LEMMA DocumentReads ==
  ASSUME NEW doc, Printed(doc), NEW width \in Nat
  PROVE  Reads(Export(Layout(doc, width, 0, 2)), doc)
<1> DEFINE blocks == Layout(doc, width, 0, 2).placed
           h      == Export(Layout(doc, width, 0, 2))
           n      == Len(doc)
<1>1. /\ n \in Nat /\ HandleStands(h, blocks, n)
      /\ \A i \in 1 .. n : PlacedOk(blocks[i]) /\ Shows(blocks[i], doc[i])
  BY ExportedIs
<1>2. \A i \in 1 .. n : doc[i] \in LpBlock
  BY DEF Printed
<1> HIDE DEF h, blocks, n
<1>3. /\ Closed(h) /\ Len(h.blocks) = n
      /\ \A i \in 1 .. n : BlockStands(h, blocks[i], h.blocks[i])
  BY <1>1 DEF HandleStands
<1>4. /\ DOMAIN h.blocks = 1 .. n /\ IsInjective(h.fonts)
      /\ Len(h.lines) \in Nat /\ DOMAIN h.lines = 1 .. Len(h.lines)
  <2>1. h.blocks \in Seq(BlockRecs) /\ h.lines \in Seq(LineRecs)
    BY <1>3, HandleIs DEF Closed
  <2> QED
    BY <1>3, <2>1 DEF Closed
<1>5. ASSUME NEW i \in 1 .. n
      PROVE  LET b    == h.blocks[i]
                 want == IF doc[i].kind = "rule" THEN <<>> ELSE Written(BlockGlyphs(doc[i]))
                 ids  == LineIds(b)
             IN /\ FlattenSeq([k \in DOMAIN ids |-> ClustersRead(h, ids[k] + 1)]) = want
                /\ FlattenSeq([k \in DOMAIN ids |-> RunsRead(h, ids[k] + 1)]) = want
                /\ IF doc[i].kind = "rule" \/ MarkerOf(doc[i]) = <<>>
                   THEN b.marker = LAYOUT_NONE
                   ELSE RunsRead(h, b.marker + 1) = Written(MarkerGlyphs(doc[i]))
  <2> DEFINE p == blocks[i]
             b == h.blocks[i]
             d == doc[i]
             want == IF d.kind = "rule" THEN <<>> ELSE Written(BlockGlyphs(d))
             ids == LineIds(b)
             cs == FlattenSeq([k \in DOMAIN ids |-> ClustersRead(h, ids[k] + 1)])
             rs == FlattenSeq([k \in DOMAIN ids |-> RunsRead(h, ids[k] + 1)])
  <2>1. BlockStands(h, p, b) /\ PlacedOk(p) /\ Shows(p, d) /\ d \in LpBlock
    BY <1>1, <1>2, <1>3
  <2> HIDE DEF p, b, d
  <2>2. cs = Written(FlattenSeq(p.lines)) /\ rs = Written(FlattenSeq(p.lines))
    BY <1>3, <2>1, BlockReads
  <2> HIDE DEF cs, rs
  <2>3. Written(FlattenSeq(p.lines)) = want
    <3>1. CASE d.kind = "rule"
      <4>1. p.lines = <<>> /\ want = <<>>
        BY <2>1, <3>1 DEF Shows, PlacedOk
      <4>2. FlattenSeq(<<>>) = <<>>
        BY DEF FlattenSeq
      <4>3. Written(<<>>) = <<>>
        BY DEF Written
      <4> QED
        BY <4>1, <4>2, <4>3, Zenon
    <3>2. CASE d.kind # "rule"
      <4>1. FlattenSeq(p.lines) = BlockGlyphs(d)
        BY <2>1, <3>2 DEF Shows
      <4> QED
        BY <3>2, <4>1
    <3> QED
      BY <3>1, <3>2
  <2>4. IF d.kind = "rule" \/ MarkerOf(d) = <<>>
        THEN b.marker = LAYOUT_NONE
        ELSE RunsRead(h, b.marker + 1) = Written(MarkerGlyphs(d))
    <3>1. CASE d.kind = "rule" \/ MarkerOf(d) = <<>>
      <4>1. p.marker = <<>>
        <5>1. CASE d.kind = "rule"
          BY <2>1, <5>1 DEF Shows, PlacedOk
        <5>2. CASE d.kind # "rule"
          <6>1. p.marker = MarkerGlyphs(d)
            BY <2>1, <5>2 DEF Shows
          <6>2. MarkerGlyphs(d) = <<>>
            BY <2>1, <3>1, <5>2, MarkerShows
          <6> QED
            BY <6>1, <6>2
        <5> QED
          BY <5>1, <5>2
      <4>2. b.marker = LAYOUT_NONE
        BY <2>1, <4>1 DEF BlockStands
      <4> QED
        BY <3>1, <4>2
    <3>2. CASE ~(d.kind = "rule" \/ MarkerOf(d) = <<>>)
      <4>1. p.marker = MarkerGlyphs(d)
        BY <2>1, <3>2 DEF Shows
      <4>2. p.marker # <<>>
        BY <2>1, <3>2, <4>1, MarkerShows
      <4>3. RunsRead(h, b.marker + 1) = Written(p.marker)
        BY <2>1, <4>2 DEF BlockStands, LineStands
      <4> QED
        BY <3>2, <4>1, <4>3
    <3> QED
      BY <3>1, <3>2
  <2> HIDE DEF want
  <2>5. cs = want /\ rs = want
    BY <2>2, <2>3
  <2> QED
    BY <2>4, <2>5 DEF cs, rs, want, b, d
<1>6. FlattenSeq([i \in DOMAIN h.blocks |-> Numbers(h.blocks[i])]) = [k \in DOMAIN h.lines |-> k - 1]
  <2> DEFINE at(i) == NextLine(h, i)
             m(i) == Numbers(h.blocks[i])
             ms == [i \in 1 .. n |-> m(i)]
             G == [i \in 0 .. n |-> Ids(0, at(i))]
  <2>1. /\ at(0) = 0 /\ at(n) = Len(h.lines)
        /\ \A i \in 1 .. n : /\ h.blocks[i].lines = at(i - 1)
                             /\ at(i) = at(i - 1) + LinesTaken(blocks[i])
        /\ \A i \in 0 .. n : at(i) \in Nat
        /\ \A i, j \in 0 .. n : i <= j => at(i) <= at(j)
    BY <1>1, NextLines
  <2>2. \A i \in 1 .. n : m(i) = Ids(at(i - 1), at(i))
    <3> TAKE i \in 1 .. n
    <3> DEFINE p == blocks[i]
               rec == h.blocks[i]
    <3>1. BlockStands(h, p, rec) /\ PlacedOk(p)
      BY <1>1, <1>3
    <3> HIDE DEF p, rec
    <3>2. Numbers(rec) = Ids(rec.lines, rec.lines + LinesTaken(p))
      BY <3>1, NumbersAre
    <3> HIDE DEF at
    <3>3. rec.lines = at(i - 1) /\ at(i) = at(i - 1) + LinesTaken(p)
      BY <2>1 DEF rec, p
    <3>4. Numbers(rec) = Ids(at(i - 1), at(i))
      BY <3>2, <3>3
    <3> QED
      BY <3>4 DEF rec
  <2> HIDE DEF at, m
  <2>3. \A i \in 1 .. n : i \in 0 .. n /\ i - 1 \in 0 .. n /\ at(i - 1) <= at(i)
    <3> TAKE i \in 1 .. n
    <3>1. i \in 0 .. n /\ i - 1 \in 0 .. n /\ i - 1 <= i
      BY <1>1
    <3> QED
      BY <2>1, <3>1
  <2>4. ASSUME NEW i \in 1 .. n PROVE m(i) \in Seq(Int) /\ G[i] = G[i - 1] \o m(i)
    <3> DEFINE b == at(i - 1)
               c == at(i)
    <3>1. b \in Nat /\ c \in Nat /\ b <= c /\ m(i) = Ids(b, c)
      BY <2>1, <2>2, <2>3
    <3>2. G[i] = Ids(0, c) /\ G[i - 1] = Ids(0, b)
      BY <2>3
    <3> HIDE DEF b, c, G
    <3>3. Ids(b, c) \in Seq(Int) /\ Ids(0, b) \o Ids(b, c) = Ids(0, c)
      BY <3>1, IdsJoin
    <3> QED
      BY <3>1, <3>2, <3>3
  <2>5. G[0] = <<>> /\ G[n] = [k \in 1 .. Len(h.lines) |-> k - 1]
    <3>1. 0 \in 0 .. n /\ n \in 0 .. n
      BY <1>1
    <3>2. G[0] = Ids(0, 0) /\ G[n] = Ids(0, Len(h.lines))
      BY <2>1, <3>1
    <3>3. Ids(0, 0) = <<>>
      BY DEF Ids
    <3>4. Ids(0, Len(h.lines)) = [k \in 1 .. Len(h.lines) |-> k - 1]
      <4> DEFINE top == Len(h.lines)
      <4>1. top \in Nat
        BY <1>4
      <4> HIDE DEF top
      <4>2. top - 0 = top /\ \A k \in 1 .. top : 0 + k - 1 = k - 1
        BY <4>1
      <4>3. Ids(0, top) = [k \in 1 .. top |-> k - 1]
        BY <4>2 DEF Ids
      <4> QED
        BY <4>3 DEF top
    <3> HIDE DEF G
    <3> QED
      BY <3>2, <3>3, <3>4
  <2> HIDE DEF G
  <2>6. ms \in Seq(Seq(Int)) /\ Len(ms) = n /\ \A i \in 1 .. n : ms[i] = m(i)
    <3>1. ms \in Seq(Seq(Int))
      BY <1>1, <2>4, IsASeq
    <3> QED
      BY <1>1, <3>1
  <2>7. [i \in DOMAIN h.blocks |-> Numbers(h.blocks[i])] = ms
    BY <1>4 DEF m
  <2> HIDE DEF ms
  <2>8. \A i \in 1 .. Len(ms) : G[i] = G[i - 1] \o ms[i]
    BY <2>4, <2>6
  <2>9. FlattenSeq(ms) = G[Len(ms)]
    BY <2>5, <2>6, <2>8, FlatIs
  <2>10. [k \in 1 .. Len(h.lines) |-> k - 1] = [k \in DOMAIN h.lines |-> k - 1]
    BY <1>4
  <2> QED
    BY <2>5, <2>6, <2>7, <2>9, <2>10
<1>7. Reads(h, doc)
  BY <1>3, <1>4, <1>5, <1>6 DEF Reads, n
<1> QED
  BY <1>7 DEF h

-----------------------------------------------------------------------------
(* The calls of print.                                                     *)
PrintShape(doc, paper) ==
  LET h  == Export(Layout(doc, paper.width, 0, 2))
      br == Paginate(h, 2 * paper.pageH, 2 * PRE_PAD, 2)
  IN [layout |-> h, breaks |-> br, drawn |-> DrawnOn(h, br, paper.pick, 2 * PRE_PAD)]

\* A call of print lays out a document of its own, and what it hands over is the
\* export of that document.
PrintInv ==
  call.op = "pdf" =>
    /\ call.stage \in {"layout", "done"}
    /\ At("layout") => call.doc \in Docs /\ Utf8(call.doc) /\ call.shot \in Papers /\ out = NoOut
    /\ At("done") => \/ out = NoOut
                     \/ /\ call.doc \in Docs /\ Utf8(call.doc) /\ call.shot \in Papers
                        /\ out = PrintShape(call.doc, call.shot)

\* A step that stays in the same stage, or ends before the export.
LEMMA PrintStays ==
  ASSUME PrintInv, out' = out, call'.op = call.op, call'.doc = call.doc, call'.shot = call.shot,
         call'.stage = call.stage \/ call'.stage = "done"
  PROVE  PrintInv'
<1> SUFFICES ASSUME call.op = "pdf" PROVE PrintInv'
  BY DEF PrintInv
<1>1. CASE call.stage = "done"
  BY <1>1 DEF PrintInv, At
<1>2. CASE call.stage = "layout"
  BY <1>2 DEF PrintInv, At
<1> QED
  BY <1>1, <1>2 DEF PrintInv

\* The call that exports.
LEMMA PrintStep ==
  ASSUME IInv, PrintInv, ExportLayout
  PROVE  PrintInv'
<1>1. call.stage = "layout" /\ call.op = "pdf" /\ To("done")
  BY DEF ExportLayout, At
<1>2. call'.stage = "done" /\ call'.op = "pdf" /\ call'.doc = call.doc /\ call'.shot = call.shot
  BY <1>1, ToKeeps DEF IInv
<1>3. call.doc \in Docs /\ Utf8(call.doc) /\ call.shot \in Papers
  BY <1>1 DEF PrintInv, At
<1>4. out' = PrintShape(call.doc, call.shot)
  BY DEF ExportLayout, PrintShape, Shot
<1> QED
  BY <1>2, <1>3, <1>4 DEF PrintInv, At

\* Every step.
LEMMA StepPrints == IInv /\ PrintInv /\ [Next]_vars => PrintInv'
<1> SUFFICES ASSUME IInv, PrintInv, [Next]_vars PROVE PrintInv'
  OBVIOUS
<1>1. CASE UNCHANGED vars
  BY <1>1, PrintStays DEF vars
<1>2. ASSUME NEW d \in Docs, NEW o \in Shots, RenderPng(d, o) PROVE PrintInv'
  <2>1. call'.op = "png"
    BY <1>2 DEF RenderPng
  <2> QED
    BY <2>1 DEF PrintInv
<1>3. ASSUME NEW d \in Docs, NEW p \in Papers, NewLayout(d, p) PROVE PrintInv'
  <2>1. /\ call'.op = "pdf" /\ call'.doc = d /\ call'.shot = p /\ out' = NoOut
        /\ (call'.stage = "layout" => Utf8(d))
    BY <1>3 DEF NewLayout, Fresh
  <2> QED
    BY <2>1, <1>3 DEF PrintInv, At, NewLayout
<1>4. CASE NewRenderer
  <2>1. out' = out /\ call' = call
    BY <1>4 DEF NewRenderer
  <2> QED
    BY <2>1, PrintStays
<1>5. CASE PlaceBlocks
  <2>1. call'.op = "png"
    <3>1. call.op = "png" /\ \E stage : To(stage)
      BY <1>5 DEF PlaceBlocks, Return
    <3> QED
      BY <3>1, ToKeeps DEF IInv
  <2> QED
    BY <2>1 DEF PrintInv
<1>6. CASE MakeRaster \/ DrawBlock \/ Crop \/ EncoderFails
           \/ \E a \in Answers : Encode(a) \/ DropEncoder(a)
  <2>1. call.stage \in {"raster", "draw", "encode", "drop"}
    BY <1>6 DEF MakeRaster, DrawBlock, Crop, EncoderFails, Compressing, Encode, DropEncoder, At
  <2>2. call.op # "pdf"
    BY <2>1 DEF PrintInv
  <2>3. call'.op = call.op
    <3>1. call' = call \/ \E stage : To(stage)
      <4>1. ASSUME NEW a \in Answers, Encode(a) PROVE call' = call \/ \E stage : To(stage)
        BY <4>1 DEF Encode, Return
      <4>2. ASSUME NEW a \in Answers, DropEncoder(a) PROVE \E stage : To(stage)
        BY <4>2 DEF DropEncoder, Return
      <4>3. MakeRaster \/ Crop \/ EncoderFails => \E stage : To(stage)
        BY DEF MakeRaster, Crop, EncoderFails, Return
      <4>4. DrawBlock => call' = call
        BY DEF DrawBlock
      <4> QED
        BY <1>6, <4>1, <4>2, <4>3, <4>4
    <3> QED
      BY <3>1, ToKeeps DEF IInv
  <2> QED
    BY <2>2, <2>3 DEF PrintInv
<1>7. ASSUME NEW a \in Answers, Panic(a) PROVE PrintInv'
  <2>1. To("done") /\ out' = out
    BY <1>7 DEF Panic
  <2>2. call'.stage = "done" /\ call'.op = call.op /\ call'.doc = call.doc /\ call'.shot = call.shot
    BY <2>1, ToKeeps DEF IInv
  <2> QED
    BY <2>1, <2>2, PrintStays
<1>8. CASE Next
  BY <1>2, <1>3, <1>4, <1>5, <1>6, <1>7, <1>8, PrintStep DEF Next
<1> QED
  BY <1>1, <1>8

\* What a call of print has handed over is the export, the page breaks and the
\* drawing of the document it was given (LayoutHandle::export, pdf.zig's print).
THEOREM PrintInvariant == Spec => []PrintInv
<1>1. Init => PrintInv
  BY DEF Init, PrintInv
<1> QED
  BY <1>1, OfferInvariant, StepPrints, PTL DEF Spec

\* An exported state is the print of a document.
LEMMA ExportedState ==
  ASSUME PrintInv, Exported
  PROVE  /\ Printed(call.doc) /\ call.shot \in Papers
         /\ call.shot.width \in Nat /\ call.shot.pageH \in Nat
         /\ out = PrintShape(call.doc, call.shot)
<1>1. call.doc \in Docs /\ Utf8(call.doc) /\ call.shot \in Papers /\ out = PrintShape(call.doc, call.shot)
  BY DEF PrintInv, Exported, At
<1>2. call.doc \in Seq(LpBlock)
  BY <1>1, RenderConstants DEF RenderConstants
<1>3. \A i \in DOMAIN call.doc : call.doc[i].kind = "rule" \/ HasText(call.doc[i])
  BY <1>1, PrintConstants DEF PrintConstants
<1>4. call.shot.width \in Nat /\ call.shot.pageH \in Nat
  BY <1>1, PrintConstants DEF PrintConstants
<1> QED
  BY <1>1, <1>2, <1>3, <1>4 DEF Printed

\* Pages start at increasing heights, every box lies on its page unless it is
\* taller than one and starts it, none reaches into the next, and the picked
\* pages show each of their lines, and no other line, once (paginate and
\* Document.draw of pdf.zig).
THEOREM PagesAreRight == Spec => []PagesHold
<1>1. PrintInv => PagesHold
  <2> SUFFICES ASSUME PrintInv, Exported PROVE PagesHold
    BY DEF PagesHold
  <2> DEFINE doc == call.doc
             width == Shot.width
             high == 2 * Shot.pageH
             pick == Shot.pick
             h     == Export(Layout(doc, width, 0, 2))
             br    == Paginate(h, high, 2 * PRE_PAD, 2)
             drawn == DrawnOn(h, br, pick, 2 * PRE_PAD)
             boxes == AllBoxes(h, 2 * PRE_PAD, 2)
  <2>1. Printed(doc) /\ width \in Nat /\ high \in Int
    BY ExportedState DEF Shot
  <2>2. out = [layout |-> h, breaks |-> br, drawn |-> drawn]
    BY ExportedState DEF PrintShape, Shot
  <2> HIDE DEF doc, width, high, pick
  <2>3. /\ \A p \in 2 .. Len(br) : br[p - 1] < br[p]
        /\ \A k \in DOMAIN boxes :
             LET p == PageOf(br, boxes[k].top)
             IN /\ boxes[k].bottom - br[p] <= high \/ boxes[k].top = br[p]
                /\ p < Len(br) => boxes[k].bottom <= br[p + 1]
        /\ \A l \in DOMAIN h.lines : Cardinality({d \in drawn : d.line = l - 1}) <= 1
        /\ pick = {} => \A l \in DOMAIN h.lines : {d \in drawn : d.line = l - 1} # {}
        /\ \A d \in drawn : pick = {} \/ d.page \in pick
    BY <2>1, PagesAre
  <2> HIDE DEF h, br, drawn
  <2>4. L = h /\ out.breaks = br /\ out.drawn = drawn
    BY <2>2 DEF L
  <2>5. AllBoxes(L, 2 * PRE_PAD, 2) = boxes
    BY <2>4
  <2> HIDE DEF boxes
  <2> QED
    BY <2>3, <2>4, <2>5, Zenon DEF PagesHold, pick, high
<1> QED
  BY <1>1, PrintInvariant, PTL

\* The arrays handed to pdf.zig hold the document: each block's lines, read
\* through their clusters or through their runs, spell its spans in their faces,
\* its marker's line spells its marker, no line is in two blocks, and no face is
\* listed twice (export_layout, font_index).
THEOREM ExportIsFaithful == Spec => []ExportFaithful
<1>1. PrintInv => ExportFaithful
  <2> SUFFICES ASSUME PrintInv, Exported PROVE ExportFaithful
    BY DEF ExportFaithful
  <2> DEFINE h == Export(Layout(call.doc, Shot.width, 0, 2))
  <2>1. Printed(call.doc) /\ Shot.width \in Nat /\ L = h
    BY ExportedState DEF PrintShape, Shot, L
  <2>2. Reads(h, call.doc)
    <3> DEFINE doc == call.doc
               width == Shot.width
    <3>1. Printed(doc) /\ width \in Nat
      BY <2>1
    <3> HIDE DEF doc, width
    <3>2. Reads(Export(Layout(doc, width, 0, 2)), doc)
      BY <3>1, DocumentReads
    <3> QED
      BY <3>2 DEF doc, width
  <2> HIDE DEF h
  <2>3. Reads(L, Doc)
    BY <2>1, <2>2 DEF Doc
  <2>4. \A l : ByClusters(l) = ClustersRead(L, l + 1) /\ ByRuns(l) = RunsRead(L, l + 1)
    BY DEF ByClusters, ByRuns, ClustersRead, ClusterText, RunsRead, RunText
  <2> QED
    BY <2>3, <2>4, Zenon DEF Reads, Numbers, ExportFaithful
<1> QED
  BY <1>1, PrintInvariant, PTL
=============================================================================
